----------------------------- MODULE Activation -----------------------------
(***************************************************************************)
(* The activation of an agent (R1Runtime::bootstrap_r2) over the shared    *)
(* tool registry, and the uses of what it bound: one action at a time is   *)
(* authorized and executed, and the lease is renewed, while tools of the   *)
(* registry may be replaced.  Each read of the registry is a step of its   *)
(* own, under the registry's lock.                                         *)
(*                                                                         *)
(* Digests are taken to be injective: the digest of a value is the value   *)
(* in canonical form.  Capabilities are numbers so that lists of them can  *)
(* be sorted.  Time is left out: the mission is usable or not.             *)
(***************************************************************************)
EXTENDS Naturals, Sequences, FiniteSets, SequencesExt

CONSTANTS
    Capabilities, All,         \* as in AuthorityKernel
    Narrower,                  \* the pairs <<c, d>> with c.is_subset_of(d)
    Tools,                     \* registered tools that may exist: [id, body, required]
    Registries,                \* lists from_tools may be called with
    Missions, Specs, Delegables,   \* what bootstrap_r2 may be called with
    MaxRequestedTools,         \* MAX_REQUESTED_TOOLS
    MaxRequestedCapabilities,  \* MAX_REQUESTED_CAPABILITIES
    MaxAgentSteps,             \* MAX_AGENT_STEPS
    MaxReplacements, MaxRenewals   \* bounds

VARIABLES
    at,                        \* how far the activation has come
    mission, spec, delegable,  \* what it was called with
    registry,                  \* ToolRegistry.tools
    captured,                  \* the RegistrySnapshot it took
    lease,                     \* the root lease, as the kernel keeps it
    context,                   \* the runtime's semantic context
    action,                    \* the action under way
    renewal,                   \* the renewal under way
    replacements,              \* tools replaced so far
    bound                      \* the registry when it was captured (history variable)

requestVars == <<mission, spec, delegable>>
avars == <<at, requestVars, registry, captured, lease, context, action, renewal,
           replacements, bound>>

ASSUME RequestAssumption ==
    /\ \A tool \in Tools : tool.required \subseteq Capabilities
    /\ Registries \subseteq Seq(Tools)
    /\ \A m \in Missions : m.capabilities \subseteq Capabilities
    /\ \A s \in Specs : s.capabilities \in Seq(Capabilities)

ASSUME ActivationAssumption ==
    /\ Capabilities \subseteq Nat
    /\ All \in Capabilities
    /\ \A c \in Capabilities : <<c, c>> \in Narrower
    /\ \A c, d, e \in Capabilities :
          <<c, d>> \in Narrower /\ <<d, e>> \in Narrower => <<c, e>> \in Narrower

NoSnapshot == [tools |-> {}, root |-> {}]
NoAction == [stage |-> "idle"]
NoRenewal == [stage |-> "idle"]
NoLease == [serial |-> 0]
NoContext == [root |-> {}]

ActivationInit ==
    /\ at = "registry"
    /\ mission \in Missions
    /\ spec \in Specs
    /\ delegable \in Delegables
    /\ registry \in Registries
    /\ captured = NoSnapshot
    /\ lease = NoLease
    /\ context = NoContext
    /\ action = NoAction
    /\ renewal = NoRenewal
    /\ replacements = 0
    /\ bound = {}
-----------------------------------------------------------------------------
(***************************************************************************)
(* Capability lists, the registry and what is derived from it.             *)
(***************************************************************************)
Ascending(list) == \A i, j \in DOMAIN list : i < j => list[i] < list[j]

\* canonical_capabilities: sorted, each one once
Canonical(capabilities) ==
    LET members == ToSet(capabilities) IN
    CHOOSE list \in [1 .. Cardinality(members) -> members] :
        ToSet(list) = members /\ Ascending(list)

Covers(capabilities, c) == \E d \in capabilities : <<c, d>> \in Narrower
WithinAuthority(child, parent) == \A c \in child : Covers(parent, c)

HasDuplicates(list) == Cardinality(ToSet(list)) < Len(list)

Content(list) == ToSet(list)
Registered(id) == \E tool \in Content(registry) : tool.id = id
ToolOf(id) == CHOOSE tool \in Content(registry) : tool.id = id

\* root_digest_for_tools sorts the tools: their order does not matter.
RootDigest == Content(registry)

\* snapshot_for_tools, for tools that are registered
BoundTools(ids) == {ToolOf(id) : id \in ids}

\* Mutant: a refreshed manifest keeps the root it had.
RootOfTemplate(manifest) == manifest.root
RefreshedRoot(manifest) == RootDigest

\* refresh_capability_manifest_for_tools
Refreshed(manifest) ==
    [manifest EXCEPT !.approved = BoundTools({tool.id : tool \in @}),
                     !.root = RefreshedRoot(manifest)]

\* CapabilityManifest::canonical_digest
ManifestDigest(manifest) == [manifest EXCEPT !.permissions = Canonical(@)]
-----------------------------------------------------------------------------
(***************************************************************************)
(* ToolRegistry::from_tools and bootstrap_r2.                              *)
(***************************************************************************)
Refuse == at' = "refused" /\ UNCHANGED <<lease, context, captured, bound>>

FromTools ==
    /\ at = "registry"
    /\ IF HasDuplicates([i \in DOMAIN registry |-> registry[i].id]) THEN Refuse
       ELSE at' = "requested" /\ UNCHANGED <<lease, context, captured, bound>>
    /\ UNCHANGED <<requestVars, registry, action, renewal, replacements>>

\* AgentSpec::validate
ValidSpec ==
    /\ Len(spec.tools) <= MaxRequestedTools
    /\ ~HasDuplicates(spec.tools)
    /\ Len(spec.capabilities) <= MaxRequestedCapabilities
    /\ All \notin ToSet(spec.capabilities)
    /\ ~HasDuplicates(spec.capabilities)
    /\ spec.steps \in 1 .. MaxAgentSteps

CheckRequest ==
    /\ at = "requested"
    /\ IF /\ ValidSpec
          /\ mission.usable
          /\ mission.maxActions > 0
          /\ All \notin mission.capabilities
          /\ WithinAuthority(ToSet(spec.capabilities), mission.capabilities)
          /\ ToSet(spec.tools) \subseteq mission.tools
       THEN at' = "checked" /\ UNCHANGED <<lease, context, captured, bound>>
       ELSE Refuse
    /\ UNCHANGED <<requestVars, registry, action, renewal, replacements>>

\* registry.snapshot: the requested tools and the root under one lock
CaptureRegistry ==
    /\ at = "checked"
    /\ IF \A id \in ToSet(spec.tools) : Registered(id)
       THEN /\ at' = "captured"
            /\ captured' = [tools |-> BoundTools(ToSet(spec.tools)), root |-> RootDigest]
            /\ bound' = Content(registry)
            /\ UNCHANGED <<lease, context>>
       ELSE Refuse
    /\ UNCHANGED <<requestVars, registry, action, renewal, replacements>>

\* Mutant: the lists are compared as they are written.
PermissionsEqual(permissions, granted) == permissions = granted
PermissionsMatch(permissions, granted) == Canonical(permissions) = Canonical(granted)

\* The manifest the root lease is requested with; its limits are its runtime config.
RequestedManifest ==
    [approved    |-> captured.tools,
     permissions |-> spec.capabilities,
     limits      |-> <<mission.maxActions, spec.steps>>,
     root        |-> captured.root]

\* ContextResolver::resolve; the model, the instruction and the policy epoch never change.
ResolvedContext == [tools |-> captured.tools, root |-> captured.root]

\* AuthorityKernel::bootstrap, validate_root_request
RootRequestValid(granted) ==
    /\ WithinAuthority(delegable, ToSet(granted))
    /\ WithinAuthority(ToSet(granted), mission.capabilities)
    /\ PermissionsMatch(spec.capabilities, granted)
    /\ \A tool \in captured.tools : tool.id \in mission.tools

\* unresolvable: the model is unknown, or memory or a retrieval index is requested.
Activate ==
    /\ at = "captured"
    /\ LET granted == Canonical(spec.capabilities) IN
       IF spec.unresolvable THEN Refuse
       ELSE IF ~RootRequestValid(granted)
            THEN at' = "refusedByKernel" /\ UNCHANGED <<lease, context, captured, bound>>
       ELSE /\ at' = "active"
            /\ context' = ResolvedContext
            /\ lease' = [serial |-> 1, granted |-> granted, manifest |-> RequestedManifest,
                         context |-> ResolvedContext]
            /\ UNCHANGED <<captured, bound>>
    /\ UNCHANGED <<requestVars, registry, action, renewal, replacements>>

\* ToolRegistry::replace, which only tests call so far
Replace ==
    /\ at \notin {"registry", "refused", "refusedByKernel"}
    /\ replacements < MaxReplacements
    /\ replacements' = replacements + 1
    /\ \E i \in DOMAIN registry, tool \in Tools :
          /\ tool.id = registry[i].id
          /\ tool # registry[i]
          /\ registry' = [registry EXCEPT ![i] = tool]
    /\ UNCHANGED <<at, requestVars, captured, lease, context, action, renewal, bound>>
-----------------------------------------------------------------------------
(***************************************************************************)
(* ActionGate::authorize and NexusExecutionPort::execute.                  *)
(***************************************************************************)
useVars == <<at, requestVars, registry, captured, context, replacements, bound>>

\* What validate_chain asks of the manifest it is given.
ManifestIsCurrent(manifest) == ManifestDigest(manifest) = ManifestDigest(lease.manifest)

MayAuthorize(id) ==
    /\ id \in mission.tools
    /\ Registered(id)
    /\ ToolOf(id) \in lease.manifest.approved
    /\ ManifestIsCurrent(Refreshed(lease.manifest))
    /\ context = lease.context
    /\ All \notin ToolOf(id).required
    /\ WithinAuthority(ToolOf(id).required, mission.capabilities)
    /\ WithinAuthority(ToolOf(id).required, ToSet(lease.granted))

Authorize(id) ==
    /\ at = "active"
    /\ action = NoAction
    /\ MayAuthorize(id)
    /\ action' = [stage |-> "issued", tool |-> ToolOf(id),
                  manifest |-> Refreshed(lease.manifest), serial |-> lease.serial]
    /\ UNCHANGED <<useVars, lease, renewal>>

\* execute reads the tool and the manifest again, under one lock.
ResolveForExecution ==
    /\ action.stage = "issued"
    /\ action' = IF ToolOf(action.tool.id) = action.tool
                 THEN [action EXCEPT !.stage = "resolved", !.manifest = Refreshed(@)]
                 ELSE NoAction
    /\ UNCHANGED <<useVars, lease, renewal>>

\* Mutant: the definition is looked up again when the tool starts.
ToolRegisteredNow == ToolOf(action.tool.id)
ToolResolved == action.tool

CommitExecution ==
    /\ action.stage = "resolved"
    /\ action' = IF /\ action.serial = lease.serial
                    /\ ManifestIsCurrent(action.manifest)
                    /\ context = lease.context
                 THEN [action EXCEPT !.stage = "running", !.tool = ToolResolved]
                 ELSE NoAction
    /\ UNCHANGED <<useVars, lease, renewal>>

NexusEnds ==
    /\ action.stage = "running"
    /\ action' = NoAction
    /\ UNCHANGED <<useVars, lease, renewal>>
-----------------------------------------------------------------------------
(***************************************************************************)
(* R1Runtime::renew: the manifest is refreshed first, and the kernel then  *)
(* decides about it.                                                       *)
(***************************************************************************)
RefreshForRenewal ==
    /\ at = "active"
    /\ renewal = NoRenewal
    /\ lease.serial <= MaxRenewals
    /\ renewal' = [stage |-> "refreshed", manifest |-> Refreshed(lease.manifest),
                   serial |-> lease.serial]
    /\ UNCHANGED <<useVars, lease, action>>

\* Mutant: only the tools are compared.
AttenuatedToolsOnly(child, parent) == child.approved \subseteq parent.approved

\* validate_manifest_attenuation
Attenuated(child, parent) ==
    /\ child.limits = parent.limits
    /\ child.root = parent.root
    /\ child.approved \subseteq parent.approved

ApplyRenewal ==
    /\ renewal.stage = "refreshed"
    /\ IF /\ renewal.serial = lease.serial
          /\ context = lease.context
          /\ PermissionsMatch(renewal.manifest.permissions, lease.granted)
          /\ Attenuated(renewal.manifest, lease.manifest)
       THEN lease' = [lease EXCEPT !.serial = @ + 1, !.manifest = renewal.manifest]
       ELSE UNCHANGED lease
    /\ renewal' = NoRenewal
    /\ UNCHANGED <<useVars, action>>

ActivationNext ==
    \/ FromTools \/ CheckRequest \/ CaptureRegistry \/ Activate
    \/ Replace
    \/ \E id \in {tool.id : tool \in Tools} : Authorize(id)
    \/ ResolveForExecution \/ CommitExecution \/ NexusEnds
    \/ RefreshForRenewal \/ ApplyRenewal

ActivationSpec == ActivationInit /\ [][ActivationNext]_avars
-----------------------------------------------------------------------------
(***************************************************************************)
(* Properties.                                                             *)
(***************************************************************************)

(* No lease mixes generations of the registry: the manifest of the lease in
   force, the lease's context and the runtime's context all describe the
   registry as it was when activation captured it, whatever is replaced during
   activation or between the two steps of a renewal. *)
OneGeneration ==
    at = "active" =>
        /\ lease.manifest.root = bound
        /\ lease.manifest.approved = {tool \in bound : tool.id \in ToSet(spec.tools)}
        /\ lease.context = context
        /\ context.root = bound
        /\ context.tools = lease.manifest.approved

(* The live manifest is the bound one exactly while the registry holds what it
   held at activation: the replacement of any tool shows, of one that is not
   approved too, and undoing it restores the match. *)
DriftIsSeen ==
    at = "active" => (ManifestIsCurrent(Refreshed(lease.manifest)) <=> Content(registry) = bound)

(* What Nexus runs is the tool that was bound at activation, requested, allowed
   by the mission and within the authority granted, although the registry is
   read three times on the way and may change after each. *)
RunsBoundTool ==
    action.stage = "running" =>
        /\ action.tool \in bound
        /\ action.tool.id \in ToSet(spec.tools) \cap mission.tools
        /\ All \notin action.tool.required
        /\ WithinAuthority(action.tool.required, ToSet(spec.capabilities))
        /\ WithinAuthority(action.tool.required, mission.capabilities)

(* The checks agree with one another: of what bootstrap_r2 has checked itself
   the kernel refuses nothing but the delegable authority, and an activated
   agent may use each requested tool whose capabilities it was granted, in
   whatever order its request listed them. *)
NothingElseRefuses ==
    /\ at = "refusedByKernel" => ~WithinAuthority(delegable, ToSet(spec.capabilities))
    /\ at = "active" /\ Content(registry) = bound =>
          \A tool \in bound :
              MayAuthorize(tool.id) <=>
                 /\ tool.id \in ToSet(spec.tools)
                 /\ All \notin tool.required
                 /\ WithinAuthority(tool.required, ToSet(spec.capabilities))
=============================================================================
