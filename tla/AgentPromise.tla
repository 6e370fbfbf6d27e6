---------------------------- MODULE AgentPromise ----------------------------
(***************************************************************************)
(* What the runtime promises the operators of an agent: each of the        *)
(* agent's decisions takes effect at one instant, and at that instant the  *)
(* authority in force is the one the decision was made under.              *)
(*                                                                         *)
(* The authority is one register: a version, which changes with every      *)
(* decision of an operator and never comes back, and a standing.  There    *)
(* are no locks, no leases and no clock here; reading the authority and    *)
(* acting on it are single steps.                                          *)
(***************************************************************************)
EXTENDS Naturals

CONSTANT Attempts

VARIABLES
    authority,  \* [version, standing]
    phase,      \* attempt -> how far it has come
    basis       \* attempt -> the version its decision rests on, or NoBasis

pvars == <<authority, phase, basis>>

NoBasis == <<>>

Standings == {"acting", "suspended", "ended"}

\* idle, deciding, licensed to act, acting, and the ways an attempt ends
Phases == {"idle", "open", "licensed", "acting", "acted", "answered", "closed"}

PromiseInit ==
    /\ authority \in [version : Nat \X Nat, standing : {"acting"}]
    /\ phase = [c \in Attempts |-> "idle"]
    /\ basis = [c \in Attempts |-> NoBasis]

\* Versions are pairs in lexicographic order.
Newer(v, w) == v[1] > w[1] \/ (v[1] = w[1] /\ v[2] > w[2])

(* An operator, or the end of a lease, changes the authority; nothing changes
   it once it has ended. *)
Change ==
    /\ authority.standing # "ended"
    /\ authority'.standing \in Standings
    /\ Newer(authority'.version, authority.version)
    /\ UNCHANGED <<phase, basis>>

Move(c, from, to) == phase[c] \in from /\ phase' = [phase EXCEPT ![c] = to]

Begin(c) == Move(c, {"idle"}, "open") /\ UNCHANGED <<authority, basis>>

(* The attempt looks at the authority, or drops what it saw before. *)
Look(c) ==
    /\ phase[c] = "open"
    /\ \/ authority.standing = "acting" /\ basis' = [basis EXCEPT ![c] = authority.version]
       \/ basis' = [basis EXCEPT ![c] = NoBasis]
    /\ UNCHANGED <<authority, phase>>

InForce(c) == authority.standing = "acting" /\ basis[c] = authority.version

License(c) ==
    /\ InForce(c)
    /\ Move(c, {"open"}, "licensed")
    /\ UNCHANGED <<authority, basis>>

Act(c) == Move(c, {"licensed"}, "acting") /\ UNCHANGED <<authority, basis>>

End(c) ==
    /\ \/ Move(c, {"open"}, "answered") /\ InForce(c)
       \/ Move(c, {"acting"}, "acted")
       \/ Move(c, {"idle", "open", "licensed"}, "closed")
    /\ basis' = [basis EXCEPT ![c] = NoBasis]
    /\ UNCHANGED authority

PromiseNext ==
    \/ Change
    \/ \E c \in Attempts : Begin(c) \/ Look(c) \/ License(c) \/ Act(c) \/ End(c)

PromiseSpec == PromiseInit /\ [][PromiseNext]_pvars
=============================================================================
