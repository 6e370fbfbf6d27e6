-------------------------- MODULE ActivationProofs --------------------------
(***************************************************************************)
(* Machine-checked theorems about Activation: what an activation binds,    *)
(* and what is later authorized, executed and renewed under it, whichever  *)
(* tools of the registry are replaced in between.                          *)
(*                                                                         *)
(* The invariant says what is bound at each stage of bootstrap_r2.  It     *)
(* rests on two facts about the operators: a list has a canonical form     *)
(* with the same members, and a registry without duplicate ids yields one  *)
(* tool for each id.                                                       *)
(***************************************************************************)
EXTENDS Activation, FiniteSetTheorems, WellFoundedInduction, TLAPS

(***************************************************************************)
(* Canonical lists.                                                        *)
(***************************************************************************)

\* The ways of listing a set in ascending order: there is just one.
Listings(S) == {list \in [1 .. Cardinality(S) -> S] : ToSet(list) = S /\ Ascending(list)}

(* A nonempty set of numbers has a least one. *)
LEMMA LeastNumber ==
    ASSUME NEW S \in SUBSET Nat, S # {}
    PROVE  \E m \in S : \A n \in S : m <= n
  <1>1. PICK m \in S : \A n \in S : ~(<<n, m>> \in OpToRel(<, Nat))
    BY NatLessThanWellFounded, WFMin
  <1>2. \A n \in S : ~(n < m)
    BY <1>1 DEF OpToRel
  <1> QED
    BY <1>2

(* The listing of a set without its least number, behind that number, lists the
   set. *)
LEMMA ListingOfMore ==
    ASSUME NEW S \in SUBSET Nat, IsFiniteSet(S), NEW m \in S, \A n \in S : m <= n,
           NEW rest \in Listings(S \ {m})
    PROVE  Listings(S) # {}
  <1> DEFINE n == Cardinality(S)
             list == [i \in 1 .. n |-> IF i = 1 THEN m ELSE rest[i - 1]]
  <1>1. n \in Nat /\ n # 0 /\ Cardinality(S \ {m}) = n - 1
    BY FS_CardinalityType, FS_EmptySet, FS_RemoveElement
  <1>2. /\ rest \in [1 .. n - 1 -> S \ {m}]
        /\ {rest[i] : i \in 1 .. n - 1} = S \ {m}
        /\ \A i, j \in 1 .. n - 1 : i < j => rest[i] < rest[j]
    BY <1>1 DEF Listings, ToSet, Ascending
  <1> HIDE DEF n
  <1>3. list \in [1 .. n -> S] /\ list[1] = m
        /\ \A i \in 1 .. n : i # 1 => i - 1 \in 1 .. n - 1 /\ list[i] = rest[i - 1]
    BY <1>1, <1>2
  <1> HIDE DEF list
  <1>4. {list[i] : i \in 1 .. n} = S
    <2>1. ASSUME NEW x \in S PROVE \E i \in 1 .. n : list[i] = x
      <3>1. CASE x = m
        BY <1>1, <1>3, <3>1
      <3>2. CASE x # m
        <4>1. PICK i \in 1 .. n - 1 : rest[i] = x
          BY <1>2, <3>2
        <4>2. i + 1 \in 1 .. n /\ list[i + 1] = x
          BY <1>1, <1>3, <4>1
        <4> QED BY <4>2
      <3> QED BY <3>1, <3>2
    <2>2. \A i \in 1 .. n : list[i] \in S
      BY <1>3
    <2> QED BY <2>1, <2>2
  <1>5. ASSUME NEW i \in 1 .. n, NEW j \in 1 .. n, i < j PROVE list[i] < list[j]
    <2>1. j # 1 /\ j - 1 \in 1 .. n - 1 /\ list[j] = rest[j - 1]
      BY <1>1, <1>3, <1>5
    <2>2. rest[j - 1] \in S /\ rest[j - 1] # m
      BY <1>2, <2>1
    <2>3. CASE i = 1
      <3>1. list[i] = m /\ list[j] \in Nat /\ m \in Nat /\ m <= list[j] /\ m # list[j]
        BY <1>3, <2>1, <2>2, <2>3
      <3> QED BY <3>1
    <2>4. CASE i # 1
      <3>1. i - 1 \in 1 .. n - 1 /\ list[i] = rest[i - 1] /\ i - 1 < j - 1
        BY <1>1, <1>3, <1>5, <2>4
      <3> QED BY <1>2, <2>1, <3>1
    <2> QED BY <2>3, <2>4
  <1>6. list \in Listings(S)
    BY <1>3, <1>4, <1>5 DEF Listings, ToSet, Ascending, n
  <1> QED
    BY <1>6

(* Every finite set of numbers can be listed: a smallest one that could not
   would have a least number, and what is left without it could. *)
LEMMA ListingExists ==
    ASSUME NEW S \in SUBSET Nat, IsFiniteSet(S)
    PROVE  Listings(S) # {}
  <1> DEFINE Bad == {U \in FiniteSubsetsOf(Nat) : Listings(U) = {}}
  <1> SUFFICES ASSUME Bad # {} PROVE FALSE
    BY DEF FiniteSubsetsOf
  <1>1. PICK U \in Bad : \A V \in Bad : ~(<<V, U>> \in StrictSubsetOrdering(Nat))
    BY FS_StrictSubsetOrderingWellFounded, WFMin
  <1>2. U \in SUBSET Nat /\ IsFiniteSet(U) /\ Listings(U) = {}
    BY DEF FiniteSubsetsOf
  <1>3. CASE U = {}
    <2>1. Cardinality(U) = 0
      BY <1>3, FS_EmptySet
    <2>2. <<>> \in [1 .. 0 -> {}] /\ DOMAIN <<>> = {}
      OBVIOUS
    <2>3. <<>> \in Listings(U)
      BY <1>3, <2>1, <2>2 DEF Listings, ToSet, Ascending
    <2> QED BY <1>2, <2>3
  <1>4. CASE U # {}
    <2>1. PICK m \in U : \A n \in U : m <= n
      BY <1>2, <1>4, LeastNumber
    <2>2. IsFiniteSet(U \ {m})
      BY <1>2, FS_Subset
    <2>3. <<U \ {m}, U>> \in StrictSubsetOrdering(Nat)
      BY <1>2, <2>1 DEF StrictSubsetOrdering
    <2>4. Listings(U \ {m}) # {}
      BY <1>1, <1>2, <2>2, <2>3 DEF FiniteSubsetsOf
    <2> QED BY <1>2, <2>1, <2>4, ListingOfMore
  <1> QED
    BY <1>3, <1>4

(* A list has finitely many members, and as many as it is long if and only if
   none occurs twice. *)
LEMMA MembersFinite ==
    ASSUME NEW S, NEW list \in Seq(S)
    PROVE  /\ IsFiniteSet(ToSet(list))
           /\ Cardinality(ToSet(list)) <= Len(list)
           /\ Cardinality(ToSet(list)) = Len(list) <=>
                 \A i, j \in DOMAIN list : list[i] = list[j] => i = j
  <1>1. Len(list) \in Nat /\ DOMAIN list = 1 .. Len(list)
    OBVIOUS
  <1>2. IsFiniteSet(DOMAIN list) /\ Cardinality(DOMAIN list) = Len(list)
    BY <1>1, FS_Interval
  <1>3. list \in [DOMAIN list -> ToSet(list)]
    BY <1>1 DEF ToSet
  <1>4. list \in Surjection(DOMAIN list, ToSet(list))
    BY <1>3 DEF ToSet, Surjection
  <1>5. list \in Injection(DOMAIN list, ToSet(list)) <=>
           \A i, j \in DOMAIN list : list[i] = list[j] => i = j
    BY <1>3 DEF Injection, IsInjective
  <1> QED
    BY <1>2, <1>4, <1>5, FS_Surjection

(* The canonical form of a list has the members of the list. *)
LEMMA CanonicalMembers ==
    ASSUME NEW list \in Seq(Nat)
    PROVE  ToSet(Canonical(list)) = ToSet(list)
  <1>1. IsFiniteSet(ToSet(list)) /\ ToSet(list) \in SUBSET Nat
    <2>1. IsFiniteSet(ToSet(list))
      BY MembersFinite
    <2> QED BY <2>1 DEF ToSet
  <1>2. PICK sorted : sorted \in Listings(ToSet(list))
    BY <1>1, ListingExists
  <1>3. /\ sorted \in [1 .. Cardinality(ToSet(list)) -> ToSet(list)]
        /\ ToSet(sorted) = ToSet(list) /\ Ascending(sorted)
    BY <1>2 DEF Listings
  <1> QED
    BY <1>3 DEF Canonical

(* Lists with the same members have the same canonical form. *)
LEMMA CanonicalSame ==
    ASSUME NEW list, NEW other, ToSet(list) = ToSet(other)
    PROVE  Canonical(list) = Canonical(other)
  BY DEF Canonical
-----------------------------------------------------------------------------
(***************************************************************************)
(* The registry.                                                           *)
(***************************************************************************)

\* No two tools of a set have the same id.
OnePerId(tools) == \A t, u \in tools : t.id = u.id => t = u

Ids(tools) == {t.id : t \in tools}

\* No two places of a registry hold tools with the same id.
OnePlacePerId(list) == \A i, j \in DOMAIN list : list[i].id = list[j].id => i = j

LEMMA OnePlaceOneTool ==
    ASSUME NEW list, OnePlacePerId(list)
    PROVE  OnePerId(Content(list))
  BY DEF OnePlacePerId, OnePerId, Content, ToSet

(* ToolRegistry::from_tools lets only such a registry through. *)
LEMMA NoDuplicateIds ==
    ASSUME registry \in Seq(Tools),
           ~HasDuplicates([i \in DOMAIN registry |-> registry[i].id])
    PROVE  OnePlacePerId(registry)
  <1> DEFINE ids == [i \in DOMAIN registry |-> registry[i].id]
  <1>1. /\ Len(registry) \in Nat /\ DOMAIN registry = 1 .. Len(registry)
        /\ \A i \in DOMAIN registry : registry[i] \in Tools
    OBVIOUS
  <1>2. ids \in Seq(Ids(Tools)) /\ Len(ids) = Len(registry) /\ DOMAIN ids = DOMAIN registry
    BY <1>1 DEF Ids
  <1>3. \A i \in DOMAIN registry : ids[i] = registry[i].id
    OBVIOUS
  <1>4. ~HasDuplicates(ids)
    OBVIOUS
  <1> HIDE DEF ids
  <1>5. /\ IsFiniteSet(ToSet(ids)) /\ Cardinality(ToSet(ids)) <= Len(ids)
        /\ Cardinality(ToSet(ids)) = Len(ids) <=>
              \A i, j \in DOMAIN ids : ids[i] = ids[j] => i = j
    BY <1>2, MembersFinite
  <1>6. Cardinality(ToSet(ids)) \in Nat
    BY <1>5, FS_CardinalityType
  <1>7. \A i, j \in DOMAIN ids : ids[i] = ids[j] => i = j
    BY <1>1, <1>2, <1>4, <1>5, <1>6 DEF HasDuplicates
  <1> QED
    BY <1>2, <1>3, <1>7 DEF OnePlacePerId

(* Then an id names one tool. *)
LEMMA ToolIsUnique ==
    ASSUME OnePerId(Content(registry)), NEW tool \in Content(registry)
    PROVE  ToolOf(tool.id) = tool /\ Registered(tool.id)
  BY DEF OnePerId, ToolOf, Registered

LEMMA ToolIsRegistered ==
    ASSUME NEW id, Registered(id)
    PROVE  ToolOf(id) \in Content(registry) /\ ToolOf(id).id = id
  BY DEF Registered, ToolOf

(* What snapshot_for_tools yields: the registered tools with those ids. *)
LEMMA BoundToolsAre ==
    ASSUME OnePerId(Content(registry)), NEW ids, \A id \in ids : Registered(id)
    PROVE  BoundTools(ids) = {tool \in Content(registry) : tool.id \in ids}
  <1>1. \A id \in ids : ToolOf(id) \in Content(registry) /\ ToolOf(id).id = id
    BY ToolIsRegistered
  <1>2. \A tool \in Content(registry) : ToolOf(tool.id) = tool
    BY ToolIsUnique
  <1> QED
    BY <1>1, <1>2 DEF BoundTools
-----------------------------------------------------------------------------
(***************************************************************************)
(* The parts of the invariant: what is true of an activation that has      *)
(* come as far as each stage.                                              *)
(***************************************************************************)
Stages == {"registry", "requested", "checked", "captured", "active", "refused",
           "refusedByKernel"}

Requested ==
    /\ at \in Stages
    /\ mission \in Missions
    /\ spec \in Specs
    /\ registry \in Seq(Tools)
    /\ at \in {"requested", "checked", "captured", "active"} => OnePlacePerId(registry)

Checked ==
    at \in {"checked", "captured", "active"} =>
        /\ WithinAuthority(ToSet(spec.capabilities), mission.capabilities)
        /\ ToSet(spec.tools) \subseteq mission.tools

\* The requested tools, as they were when the registry was captured.
Approved == {tool \in bound : tool.id \in ToSet(spec.tools)}

\* Replacing a tool keeps its id.
Captured ==
    at \in {"captured", "active"} =>
        /\ captured = [tools |-> Approved, root |-> bound]
        /\ OnePerId(bound)
        /\ Ids(bound) = Ids(Content(registry))
        /\ ToSet(spec.tools) \subseteq Ids(bound)

BoundManifest ==
    [approved    |-> Approved,
     permissions |-> spec.capabilities,
     limits      |-> <<mission.maxActions, spec.steps>>,
     root        |-> bound]

BoundContext == [tools |-> Approved, root |-> bound]

Active ==
    at = "active" =>
        /\ context = BoundContext
        /\ lease = [serial |-> lease.serial, granted |-> Canonical(spec.capabilities),
                    manifest |-> BoundManifest, context |-> BoundContext]

\* A refreshed manifest differs from the bound one in the versions of the tools.
Renewing ==
    renewal # NoRenewal =>
        /\ at = "active"
        /\ renewal.manifest = [approved    |-> renewal.manifest.approved,
                               permissions |-> spec.capabilities,
                               limits      |-> <<mission.maxActions, spec.steps>>,
                               root        |-> renewal.manifest.root]
        /\ Ids(renewal.manifest.approved) = ToSet(spec.tools)

\* The tool of an action under way is one that was bound and granted.
UnderWay ==
    action # NoAction =>
        /\ at = "active"
        /\ action = [stage |-> action.stage, tool |-> action.tool,
                     manifest |-> action.manifest, serial |-> action.serial]
        /\ action.tool \in Approved
        /\ action.tool.id \in mission.tools
        /\ All \notin action.tool.required
        /\ WithinAuthority(action.tool.required, ToSet(spec.capabilities))
        /\ WithinAuthority(action.tool.required, mission.capabilities)

Refused == at = "refusedByKernel" => ~WithinAuthority(delegable, ToSet(spec.capabilities))

ActivationInv ==
    /\ Requested /\ Checked /\ Captured /\ Active /\ Renewing /\ UnderWay /\ Refused
-----------------------------------------------------------------------------
(***************************************************************************)
(* Facts that follow from the invariant.                                   *)
(***************************************************************************)

(* The capabilities granted are the ones requested. *)
LEMMA GrantedAre ==
    ASSUME Requested
    PROVE  ToSet(Canonical(spec.capabilities)) = ToSet(spec.capabilities)
  <1>1. spec.capabilities \in Seq(Capabilities) /\ Capabilities \subseteq Nat
    BY RequestAssumption, ActivationAssumption DEF Requested
  <1>2. PICK list : list = spec.capabilities
    OBVIOUS
  <1>3. list \in Seq(Capabilities)
    BY <1>1, <1>2
  <1>4. Len(list) \in Nat /\ list \in [1 .. Len(list) -> Capabilities]
    BY <1>3
  <1>5. list \in [1 .. Len(list) -> Nat]
    BY <1>1, <1>4
  <1>6. list \in Seq(Nat)
    BY <1>4, <1>5
  <1> QED
    BY <1>2, <1>6, CanonicalMembers

(* Refreshing a manifest of the requested tools reads those tools, and the
   root, from the registry as it is now. *)
LEMMA RefreshedIs ==
    ASSUME Requested, Captured, at = "active",
           NEW approved, NEW permissions, NEW limits, NEW root,
           Ids(approved) = ToSet(spec.tools)
    PROVE  Refreshed([approved |-> approved, permissions |-> permissions,
                      limits |-> limits, root |-> root]) =
           [approved |-> {tool \in Content(registry) : tool.id \in ToSet(spec.tools)},
            permissions |-> permissions, limits |-> limits, root |-> Content(registry)]
  <1>1. OnePerId(Content(registry))
    BY OnePlaceOneTool DEF Requested
  <1>2. \A id \in ToSet(spec.tools) : Registered(id)
    BY DEF Captured, Ids, Registered
  <1>3. BoundTools(ToSet(spec.tools)) =
           {tool \in Content(registry) : tool.id \in ToSet(spec.tools)}
    BY <1>1, <1>2, BoundToolsAre
  <1> DEFINE manifest == [approved |-> approved, permissions |-> permissions,
                          limits |-> limits, root |-> root]
  <1>4. {tool.id : tool \in manifest.approved} = ToSet(spec.tools)
    BY DEF Ids
  <1>5. Refreshed(manifest) =
           [manifest EXCEPT !.approved = BoundTools(ToSet(spec.tools)),
                            !.root = Content(registry)]
    BY <1>4 DEF Refreshed, RefreshedRoot, RootDigest
  <1> QED
    BY <1>3, <1>5

LEMMA ApprovedIds ==
    ASSUME Captured, at = "active"
    PROVE  Ids(Approved) = ToSet(spec.tools)
  BY DEF Captured, Approved, Ids

LEMMA RefreshedLease ==
    ASSUME Requested, Captured, Active, at = "active"
    PROVE  Refreshed(lease.manifest) =
           [approved    |-> {tool \in Content(registry) : tool.id \in ToSet(spec.tools)},
            permissions |-> spec.capabilities,
            limits      |-> <<mission.maxActions, spec.steps>>,
            root        |-> Content(registry)]
  <1>1. lease.manifest = BoundManifest
    BY DEF Active
  <1>2. Ids(Approved) = ToSet(spec.tools)
    BY ApprovedIds
  <1> QED
    BY <1>1, <1>2, RefreshedIs DEF BoundManifest
-----------------------------------------------------------------------------
(***************************************************************************)
(* Every step preserves the invariant.                                     *)
(***************************************************************************)
LEMMA InitActivation ==
    ActivationInit => ActivationInv
  BY RequestAssumption DEF ActivationInit, ActivationInv, Requested, Checked, Captured, Active,
     Renewing, UnderWay, Refused, Stages, NoRenewal, NoAction

(* bootstrap_r2 before the kernel is asked: no lease, no action, no renewal. *)
LEMMA FromToolsKeeps ==
    ASSUME ActivationInv, FromTools
    PROVE  ActivationInv'
  <1>1. ~HasDuplicates([i \in DOMAIN registry |-> registry[i].id]) => OnePlacePerId(registry)
    BY NoDuplicateIds DEF ActivationInv, Requested
  <1> QED
    BY <1>1 DEF FromTools, Refuse, requestVars, ActivationInv, Requested, Checked, Captured,
       Active, Renewing, UnderWay, Refused, Stages, OnePlacePerId

LEMMA CheckRequestKeeps ==
    ASSUME ActivationInv, CheckRequest
    PROVE  ActivationInv'
  BY DEF CheckRequest, Refuse, requestVars, ActivationInv, Requested, Checked, Captured,
     Active, Renewing, UnderWay, Refused, Stages, OnePlacePerId, WithinAuthority, Covers

LEMMA CaptureRegistryKeeps ==
    ASSUME ActivationInv, CaptureRegistry
    PROVE  ActivationInv'
  <1>1. OnePerId(Content(registry))
    BY OnePlaceOneTool DEF ActivationInv, Requested, CaptureRegistry
  <1>2. CASE \A id \in ToSet(spec.tools) : Registered(id)
    <2>1. /\ at' = "captured" /\ bound' = Content(registry) /\ registry' = registry
          /\ captured' = [tools |-> BoundTools(ToSet(spec.tools)), root |-> RootDigest]
          /\ spec' = spec /\ mission' = mission /\ delegable' = delegable
          /\ action' = action /\ renewal' = renewal
      BY <1>2 DEF CaptureRegistry, requestVars
    <2>2. Approved' = BoundTools(ToSet(spec.tools))
      BY <1>1, <1>2, <2>1, BoundToolsAre DEF Approved
    <2>3. ToSet(spec.tools) \subseteq Ids(Content(registry))
      BY <1>2 DEF Ids, Registered
    <2>4. Captured'
      BY <1>1, <2>1, <2>2, <2>3 DEF Captured, RootDigest, OnePerId, Ids, Content
    <2> QED
      BY <2>1, <2>4 DEF CaptureRegistry, ActivationInv, Requested, Checked, Active, Renewing,
         UnderWay, Refused, Stages, OnePlacePerId, WithinAuthority, Covers
  <1>3. CASE ~(\A id \in ToSet(spec.tools) : Registered(id))
    BY <1>3 DEF CaptureRegistry, Refuse, requestVars, ActivationInv, Requested, Checked,
       Captured, Active, Renewing, UnderWay, Refused, Stages
  <1> QED
    BY <1>2, <1>3

(* The kernel's own checks of a root request agree with bootstrap_r2's: only the
   delegable authority is left to refuse. *)
LEMMA ActivateKeeps ==
    ASSUME ActivationInv, Activate
    PROVE  ActivationInv'
  <1> DEFINE granted == Canonical(spec.capabilities)
  <1>1. at = "captured" /\ Requested /\ Checked /\ Captured
    BY DEF Activate, ActivationInv
  <1>2. ToSet(granted) = ToSet(spec.capabilities)
    BY <1>1, GrantedAre
  <1>3. PermissionsMatch(spec.capabilities, granted)
    BY <1>2, CanonicalSame DEF PermissionsMatch
  <1>4. \A tool \in captured.tools : tool.id \in mission.tools
    BY <1>1 DEF Captured, Checked, Approved
  <1>5. ~RootRequestValid(granted) => ~WithinAuthority(delegable, ToSet(spec.capabilities))
    BY <1>1, <1>2, <1>3, <1>4 DEF RootRequestValid, Checked
  <1>6. /\ captured' = captured /\ bound' = bound /\ registry' = registry
        /\ spec' = spec /\ mission' = mission /\ delegable' = delegable
        /\ action' = action /\ renewal' = renewal
    BY DEF Activate, Refuse, requestVars
  <1>7. /\ at' \in {"refused", "refusedByKernel", "active"}
        /\ at' = "refusedByKernel" => ~RootRequestValid(granted)
        /\ at' = "active" =>
              /\ context' = ResolvedContext
              /\ lease' = [serial |-> 1, granted |-> granted, manifest |-> RequestedManifest,
                           context |-> ResolvedContext]
    BY DEF Activate, Refuse
  <1>8. RequestedManifest = BoundManifest /\ ResolvedContext = BoundContext
    BY <1>1 DEF Captured, RequestedManifest, BoundManifest, ResolvedContext, BoundContext
  <1>9. BoundManifest' = BoundManifest /\ BoundContext' = BoundContext /\ Approved' = Approved
    BY <1>6 DEF BoundManifest, BoundContext, Approved
  <1> HIDE DEF granted
  <1>10. Requested' /\ Checked'
    BY <1>1, <1>6, <1>7 DEF Requested, Checked, Stages, OnePlacePerId, WithinAuthority, Covers
  <1>11. Captured'
    BY <1>1, <1>6, <1>7, <1>9 DEF Captured, OnePerId, Ids, Content
  <1>12. Active'
    BY <1>6, <1>7, <1>8, <1>9 DEF Active, granted
  <1>13. Refused'
    BY <1>5, <1>6, <1>7 DEF Refused
  <1>14. Renewing' /\ UnderWay'
    BY <1>1, <1>6 DEF ActivationInv, Renewing, UnderWay
  <1> QED
    BY <1>10, <1>11, <1>12, <1>13, <1>14 DEF ActivationInv

(* A replaced tool keeps its place and its id, and what was bound stays bound. *)
LEMMA ReplaceKeeps ==
    ASSUME ActivationInv, Replace
    PROVE  ActivationInv'
  <1>1. PICK i \in DOMAIN registry, tool \in Tools :
           tool.id = registry[i].id /\ registry' = [registry EXCEPT ![i] = tool]
    BY DEF Replace
  <1>2. registry \in Seq(Tools) /\ at \in Stages
    BY DEF ActivationInv, Requested
  <1>3. registry' \in Seq(Tools) /\ DOMAIN registry' = DOMAIN registry
    BY <1>1, <1>2
  <1>4. \A j \in DOMAIN registry : registry'[j].id = registry[j].id
    BY <1>1
  <1>5. Ids(Content(registry)') = Ids(Content(registry))
    <2>1. Ids(Content(registry)) = {registry[j].id : j \in DOMAIN registry}
      BY DEF Ids, Content, ToSet
    <2>2. Ids(Content(registry)') = {registry'[j].id : j \in DOMAIN registry}
      BY <1>3 DEF Ids, Content, ToSet
    <2> QED BY <1>4, <2>1, <2>2
  <1>6. OnePlacePerId(registry) => OnePlacePerId(registry)'
    BY <1>3, <1>4 DEF OnePlacePerId
  <1>7. /\ at' = at /\ spec' = spec /\ mission' = mission /\ delegable' = delegable
        /\ captured' = captured /\ lease' = lease /\ context' = context
        /\ action' = action /\ renewal' = renewal /\ bound' = bound
    BY DEF Replace, requestVars
  <1>8. Approved' = Approved /\ BoundManifest' = BoundManifest /\ BoundContext' = BoundContext
    BY <1>7 DEF Approved, BoundManifest, BoundContext
  <1>9. Requested' /\ Checked'
    BY <1>3, <1>6, <1>7 DEF ActivationInv, Requested, Checked, WithinAuthority, Covers
  <1>10. Captured'
    BY <1>5, <1>7, <1>8 DEF ActivationInv, Captured, OnePerId, Ids
  <1>11. Active' /\ Refused'
    BY <1>7, <1>8 DEF ActivationInv, Active, Refused
  <1>12. Renewing' /\ UnderWay'
    BY <1>7, <1>8 DEF ActivationInv, Renewing, UnderWay
  <1> QED
    BY <1>9, <1>10, <1>11, <1>12 DEF ActivationInv

(* What a use of the lease leaves alone. *)
LEMMA UseKeeps ==
    ASSUME ActivationInv, UNCHANGED useVars
    PROVE  /\ Requested' /\ Checked' /\ Captured' /\ Refused'
           /\ UNCHANGED <<at, mission, spec, context, bound>>
           /\ UNCHANGED <<Approved, BoundManifest, BoundContext>>
           /\ UNCHANGED lease => Active'
           /\ UNCHANGED renewal => Renewing'
           /\ UNCHANGED action => UnderWay'
  <1>1. /\ at' = at /\ spec' = spec /\ mission' = mission /\ delegable' = delegable
        /\ captured' = captured /\ context' = context /\ registry' = registry
        /\ bound' = bound
    BY DEF useVars, requestVars
  <1>2. Approved' = Approved /\ BoundManifest' = BoundManifest /\ BoundContext' = BoundContext
    BY <1>1 DEF Approved, BoundManifest, BoundContext
  <1>3. Requested' /\ Checked' /\ Refused'
    BY <1>1 DEF ActivationInv, Requested, Checked, Refused, OnePlacePerId
  <1>4. Captured'
    BY <1>1, <1>2 DEF ActivationInv, Captured
  <1>5. UNCHANGED lease => Active'
    BY <1>1, <1>2 DEF ActivationInv, Active
  <1>6. UNCHANGED renewal => Renewing'
    BY <1>1 DEF ActivationInv, Renewing
  <1>7. UNCHANGED action => UnderWay'
    BY <1>1, <1>2 DEF ActivationInv, UnderWay
  <1> QED
    BY <1>1, <1>2, <1>3, <1>4, <1>5, <1>6, <1>7

LEMMA AuthorizeKeeps ==
    ASSUME ActivationInv, NEW id, Authorize(id)
    PROVE  ActivationInv'
  <1>1. /\ at = "active" /\ MayAuthorize(id)
        /\ UNCHANGED useVars /\ lease' = lease /\ renewal' = renewal
        /\ action' = [stage |-> "issued", tool |-> ToolOf(id),
                      manifest |-> Refreshed(lease.manifest), serial |-> lease.serial]
    BY DEF Authorize
  <1>2. ToolOf(id).id = id /\ id \in mission.tools
    BY <1>1, ToolIsRegistered DEF MayAuthorize
  <1>3. lease.manifest.approved = Approved /\ lease.granted = Canonical(spec.capabilities)
    BY <1>1 DEF ActivationInv, Active, BoundManifest
  <1>4. ToSet(lease.granted) = ToSet(spec.capabilities)
    BY <1>3, GrantedAre DEF ActivationInv
  <1>5. /\ ToolOf(id) \in Approved
        /\ All \notin ToolOf(id).required
        /\ WithinAuthority(ToolOf(id).required, mission.capabilities)
        /\ WithinAuthority(ToolOf(id).required, ToSet(spec.capabilities))
    BY <1>1, <1>3, <1>4 DEF MayAuthorize
  <1>6. /\ Requested' /\ Checked' /\ Captured' /\ Refused' /\ Active' /\ Renewing'
        /\ at' = at /\ mission' = mission /\ spec' = spec /\ Approved' = Approved
    BY <1>1, UseKeeps
  <1>7. PICK tool : tool = ToolOf(id)
    OBVIOUS
  <1>8. UnderWay'
    BY <1>1, <1>2, <1>5, <1>6, <1>7 DEF UnderWay, WithinAuthority, Covers
  <1> QED
    BY <1>6, <1>8 DEF ActivationInv

(* execute's later reads of the registry change neither the tool nor its claims. *)
LEMMA ExecuteKeeps ==
    ASSUME ActivationInv, ResolveForExecution \/ CommitExecution \/ NexusEnds
    PROVE  ActivationInv'
  <1>1. UNCHANGED useVars /\ lease' = lease /\ renewal' = renewal /\ action # NoAction
    BY DEF ResolveForExecution, CommitExecution, NexusEnds, NoAction
  <1>2. /\ Requested' /\ Checked' /\ Captured' /\ Refused' /\ Active' /\ Renewing'
        /\ at' = at /\ mission' = mission /\ spec' = spec /\ Approved' = Approved
    BY <1>1, UseKeeps
  <1>3. PICK stage, tool, manifest, serial :
           action = [stage |-> stage, tool |-> tool, manifest |-> manifest, serial |-> serial]
    BY <1>1 DEF ActivationInv, UnderWay
  <1>4. \/ action' = NoAction
        \/ action' = [action EXCEPT !.stage = "resolved", !.manifest = Refreshed(@)]
        \/ action' = [action EXCEPT !.stage = "running", !.tool = action.tool]
    BY DEF ResolveForExecution, CommitExecution, NexusEnds, ToolResolved
  <1>5. \/ action' = NoAction
        \/ \E s, m : action' = [stage |-> s, tool |-> tool, manifest |-> m, serial |-> serial]
    BY <1>3, <1>4
  <1>6. UnderWay'
    BY <1>1, <1>2, <1>3, <1>5 DEF ActivationInv, UnderWay, WithinAuthority, Covers
  <1> QED
    BY <1>2, <1>6 DEF ActivationInv

LEMMA RefreshForRenewalKeeps ==
    ASSUME ActivationInv, RefreshForRenewal
    PROVE  ActivationInv'
  <1>1. /\ at = "active" /\ UNCHANGED useVars /\ lease' = lease /\ action' = action
        /\ renewal' = [stage |-> "refreshed", manifest |-> Refreshed(lease.manifest),
                       serial |-> lease.serial]
    BY DEF RefreshForRenewal
  <1>2. /\ Requested' /\ Checked' /\ Captured' /\ Refused' /\ Active' /\ UnderWay'
        /\ at' = at /\ mission' = mission /\ spec' = spec
    BY <1>1, UseKeeps
  <1> DEFINE now == {tool \in Content(registry) : tool.id \in ToSet(spec.tools)}
  <1>3. Refreshed(lease.manifest) =
           [approved    |-> now,
            permissions |-> spec.capabilities,
            limits      |-> <<mission.maxActions, spec.steps>>,
            root        |-> Content(registry)]
    BY <1>1, RefreshedLease DEF ActivationInv
  <1>4. Ids(now) = ToSet(spec.tools)
    BY <1>1 DEF ActivationInv, Captured, Ids
  <1> HIDE DEF now
  <1>5. Renewing'
    BY <1>1, <1>2, <1>3, <1>4 DEF Renewing
  <1> QED
    BY <1>2, <1>5 DEF ActivationInv

(* A renewed manifest has tools of the bound one only, and all their ids: it is
   the bound one. *)
LEMMA ApplyRenewalKeeps ==
    ASSUME ActivationInv, ApplyRenewal
    PROVE  ActivationInv'
  <1>1. /\ UNCHANGED useVars /\ action' = action /\ renewal' = NoRenewal
        /\ renewal # NoRenewal
    BY DEF ApplyRenewal, NoRenewal
  <1>2. at = "active" /\ Captured /\ Active /\ Renewing
    BY <1>1 DEF ActivationInv, Renewing
  <1>3. /\ Requested' /\ Checked' /\ Captured' /\ Refused' /\ UnderWay'
        /\ UNCHANGED lease => Active'
        /\ UNCHANGED <<at, spec, context, BoundManifest, BoundContext>>
    BY <1>1, UseKeeps
  <1>4. Renewing'
    BY <1>1 DEF Renewing
  <1>5. ASSUME Attenuated(renewal.manifest, lease.manifest)
        PROVE  renewal.manifest = BoundManifest
    <2>1. lease.manifest = BoundManifest
      BY <1>2 DEF Active
    <2>2. /\ renewal.manifest.approved \subseteq Approved
          /\ renewal.manifest.root = bound
      BY <1>5, <2>1 DEF Attenuated, BoundManifest
    <2>3. Ids(renewal.manifest.approved) = Ids(Approved)
      BY <1>1, <1>2, ApprovedIds DEF Renewing
    <2>4. OnePerId(Approved)
      BY <1>2 DEF Captured, Approved, OnePerId
    <2>5. renewal.manifest.approved = Approved
      BY <2>2, <2>3, <2>4 DEF Ids, OnePerId
    <2> QED
      BY <1>1, <1>2, <2>2, <2>5 DEF Renewing, BoundManifest
  <1>6. \/ UNCHANGED lease
        \/ lease' = [lease EXCEPT !.serial = @ + 1, !.manifest = BoundManifest]
    BY <1>5 DEF ApplyRenewal
  <1>7. Active'
    <2>1. CASE UNCHANGED lease
      BY <1>3, <2>1
    <2>2. CASE lease' = [lease EXCEPT !.serial = @ + 1, !.manifest = BoundManifest]
      <3>1. PICK serial : lease = [serial |-> serial, granted |-> Canonical(spec.capabilities),
                                   manifest |-> BoundManifest, context |-> BoundContext]
        BY <1>2 DEF Active
      <3>2. lease' = [serial |-> serial + 1, granted |-> Canonical(spec.capabilities),
                      manifest |-> BoundManifest, context |-> BoundContext]
        BY <2>2, <3>1
      <3>3. lease'.serial = serial + 1 /\ context' = BoundContext
        BY <1>2, <1>3, <3>2 DEF Active
      <3> QED BY <1>3, <3>2, <3>3 DEF Active
    <2> QED BY <1>6, <2>1, <2>2
  <1> QED
    BY <1>3, <1>4, <1>7 DEF ActivationInv

(* What is bound at each stage of an activation stays bound, through every
   replacement of a tool, every action and every renewal. *)
THEOREM ActivationInvariant == ActivationSpec => []ActivationInv
  <1>1. ActivationInit => ActivationInv
    BY InitActivation
  <1>2. ActivationInv /\ [ActivationNext]_avars => ActivationInv'
    <2> SUFFICES ASSUME ActivationInv, [ActivationNext]_avars
                 PROVE  ActivationInv'
      OBVIOUS
    <2>1. CASE FromTools
      BY <2>1, FromToolsKeeps
    <2>2. CASE CheckRequest
      BY <2>2, CheckRequestKeeps
    <2>3. CASE CaptureRegistry
      BY <2>3, CaptureRegistryKeeps
    <2>4. CASE Activate
      BY <2>4, ActivateKeeps
    <2>5. CASE Replace
      BY <2>5, ReplaceKeeps
    <2>6. ASSUME NEW id \in {tool.id : tool \in Tools}, Authorize(id)
          PROVE  ActivationInv'
      BY <2>6, AuthorizeKeeps
    <2>7. CASE ResolveForExecution \/ CommitExecution \/ NexusEnds
      BY <2>7, ExecuteKeeps
    <2>8. CASE RefreshForRenewal
      BY <2>8, RefreshForRenewalKeeps
    <2>9. CASE ApplyRenewal
      BY <2>9, ApplyRenewalKeeps
    <2>10. CASE UNCHANGED avars
      <3>1. UNCHANGED useVars /\ UNCHANGED <<lease, renewal, action>>
        BY <2>10 DEF avars, useVars
      <3> QED BY <3>1, UseKeeps DEF ActivationInv
    <2> QED
      BY <2>1, <2>2, <2>3, <2>4, <2>5, <2>6, <2>7, <2>8, <2>9, <2>10 DEF ActivationNext
  <1> QED
    BY <1>1, <1>2, PTL DEF ActivationSpec
-----------------------------------------------------------------------------
(***************************************************************************)
(* The properties, for every request, mission, tool set and capability     *)
(* order.                                                                  *)
(***************************************************************************)

(* The drift check is exact: refreshing the lease's manifest gives what was bound
   if and only if the registry holds what it held. *)
LEMMA DriftFollows ==
    ASSUME ActivationInv
    PROVE  DriftIsSeen
  <1> SUFFICES ASSUME at = "active"
               PROVE  ManifestIsCurrent(Refreshed(lease.manifest)) <=> Content(registry) = bound
    BY DEF DriftIsSeen
  <1> DEFINE now == {tool \in Content(registry) : tool.id \in ToSet(spec.tools)}
             limits == <<mission.maxActions, spec.steps>>
  <1>1. Refreshed(lease.manifest) = [approved |-> now, permissions |-> spec.capabilities,
                                     limits |-> limits, root |-> Content(registry)]
    BY RefreshedLease DEF ActivationInv
  <1>2. lease.manifest = [approved |-> Approved, permissions |-> spec.capabilities,
                          limits |-> limits, root |-> bound]
    BY DEF ActivationInv, Active, BoundManifest
  <1>3. Content(registry) = bound => now = Approved
    BY DEF Approved
  <1> HIDE DEF now, limits
  <1>4. ManifestDigest(Refreshed(lease.manifest)) =
           [approved |-> now, permissions |-> Canonical(spec.capabilities),
            limits |-> limits, root |-> Content(registry)]
    BY <1>1 DEF ManifestDigest
  <1>5. ManifestDigest(lease.manifest) =
           [approved |-> Approved, permissions |-> Canonical(spec.capabilities),
            limits |-> limits, root |-> bound]
    BY <1>2 DEF ManifestDigest
  <1> QED
    BY <1>3, <1>4, <1>5 DEF ManifestIsCurrent

(* Authority within what was granted is within what the mission allows. *)
LEMMA GrantedWithinMission ==
    ASSUME ActivationInv, at = "active", NEW required \in SUBSET Capabilities,
           WithinAuthority(required, ToSet(spec.capabilities))
    PROVE  WithinAuthority(required, mission.capabilities)
  <1>1. /\ WithinAuthority(ToSet(spec.capabilities), mission.capabilities)
        /\ mission.capabilities \subseteq Capabilities
    BY RequestAssumption DEF ActivationInv, Requested, Checked
  <1>2. ToSet(spec.capabilities) \subseteq Capabilities
    <2>1. PICK list : list = spec.capabilities
      OBVIOUS
    <2>2. list \in Seq(Capabilities)
      BY <2>1, RequestAssumption DEF ActivationInv, Requested
    <2>3. ToSet(list) \subseteq Capabilities
      BY <2>2 DEF ToSet
    <2> QED BY <2>1, <2>3
  <1> QED
    BY <1>1, <1>2, ActivationAssumption DEF WithinAuthority, Covers

(* While nothing has drifted, the gate lets an agent use a bound tool if and only
   if it was requested and its authority was granted. *)
LEMMA GateFollows ==
    ASSUME ActivationInv, at = "active", Content(registry) = bound, NEW tool \in bound
    PROVE  MayAuthorize(tool.id) <=>
              /\ tool.id \in ToSet(spec.tools)
              /\ All \notin tool.required
              /\ WithinAuthority(tool.required, ToSet(spec.capabilities))
  <1>1. ToolOf(tool.id) = tool /\ Registered(tool.id)
    <2>1. OnePerId(Content(registry))
      BY OnePlaceOneTool DEF ActivationInv, Requested
    <2> QED BY <2>1, ToolIsUnique
  <1>2. lease.manifest.approved = Approved /\ context = lease.context
    BY DEF ActivationInv, Active, BoundManifest
  <1>3. ToSet(lease.granted) = ToSet(spec.capabilities)
    BY GrantedAre DEF ActivationInv, Active
  <1>4. ManifestIsCurrent(Refreshed(lease.manifest))
    BY DriftFollows DEF DriftIsSeen
  <1>5. tool \in Approved <=> tool.id \in ToSet(spec.tools)
    BY DEF Approved
  <1>6. tool.id \in ToSet(spec.tools) => tool.id \in mission.tools
    BY DEF ActivationInv, Checked
  <1>7. tool.required \subseteq Capabilities
    <2>1. registry \in Seq(Tools)
      BY DEF ActivationInv, Requested
    <2>2. tool \in Tools
      BY <2>1 DEF Content, ToSet
    <2> QED BY <2>2, RequestAssumption
  <1>8. WithinAuthority(tool.required, ToSet(spec.capabilities)) =>
           WithinAuthority(tool.required, mission.capabilities)
    BY <1>7, GrantedWithinMission
  <1> QED
    BY <1>1, <1>2, <1>3, <1>4, <1>5, <1>6, <1>8 DEF MayAuthorize

LEMMA RefusalsFollow ==
    ASSUME ActivationInv
    PROVE  NothingElseRefuses
  <1>1. at = "refusedByKernel" => ~WithinAuthority(delegable, ToSet(spec.capabilities))
    BY DEF ActivationInv, Refused
  <1>2. ASSUME at = "active", Content(registry) = bound, NEW tool \in bound
        PROVE  MayAuthorize(tool.id) <=>
                  /\ tool.id \in ToSet(spec.tools)
                  /\ All \notin tool.required
                  /\ WithinAuthority(tool.required, ToSet(spec.capabilities))
    BY <1>2, GateFollows
  <1> QED
    BY <1>1, <1>2 DEF NothingElseRefuses

(* bootstrap_r2 and renew: the manifest, the lease's context and the runtime's
   context of an active agent are of one registry generation, the captured one,
   whatever Replace does between their steps. *)
THEOREM OneGenerationIsBound == ActivationSpec => []OneGeneration
  <1>1. ActivationInv => OneGeneration
    <2> SUFFICES ASSUME ActivationInv, at = "active" PROVE OneGeneration
      BY DEF OneGeneration
    <2>1. lease.manifest = BoundManifest /\ lease.context = BoundContext /\ context = BoundContext
      BY DEF ActivationInv, Active
    <2>2. /\ BoundManifest.root = bound /\ BoundManifest.approved = Approved
          /\ BoundContext.root = bound /\ BoundContext.tools = Approved
      BY DEF BoundManifest, BoundContext
    <2> QED
      BY <2>1, <2>2 DEF Approved, OneGeneration
  <1> QED
    BY <1>1, ActivationInvariant, PTL

(* refresh_capability_manifest_for_tools: the digest comparison of validate_chain
   sees every drift of the registry, and nothing but drift. *)
THEOREM DriftIsExact == ActivationSpec => []DriftIsSeen
  <1>1. ActivationInv => DriftIsSeen
    BY DriftFollows
  <1> QED
    BY <1>1, ActivationInvariant, PTL

(* NexusExecutionPort::execute: the tool that runs is the one activation bound,
   within the request, the mission and the authority granted. *)
THEOREM BoundToolRuns == ActivationSpec => []RunsBoundTool
  <1>1. ActivationInv => RunsBoundTool
    BY DEF ActivationInv, UnderWay, RunsBoundTool, NoAction, Approved
  <1> QED
    BY <1>1, ActivationInvariant, PTL

(* validate_root_request and ActionGate::authorize refuse nothing that
   bootstrap_r2 let through, but for the delegable authority and what was not
   requested or not granted. *)
THEOREM ChecksAgree == ActivationSpec => []NothingElseRefuses
  <1>1. ActivationInv => NothingElseRefuses
    BY RefusalsFollow
  <1> QED
    BY <1>1, ActivationInvariant, PTL
=============================================================================
