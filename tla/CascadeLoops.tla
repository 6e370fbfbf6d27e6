---------------------------- MODULE CascadeLoops ----------------------------
(***************************************************************************)
(* The three operations of the authority kernel that end a subtree, one    *)
(* loop iteration at a time: revoke, refresh_expirations and renew, with   *)
(* descendants_including (a breadth-first walk over the children of each   *)
(* lease in id order) and revoke_descendants, and with the one event log   *)
(* of the kernel in the order the events are pushed.                       *)
(*                                                                         *)
(* AuthorityKernel states the effect of each of these operations as one    *)
(* step and a fixed point.  While an operation runs it holds the write     *)
(* lock, so nobody sees its intermediate states: the kernel they implement *)
(* shows what was there when the lock was taken.                           *)
(***************************************************************************)
EXTENDS AuthorityKernel

\* A lease id is a UUID, so there are finitely many of them.
ASSUME FiniteIds == IsFiniteSet(LeaseIds)

VARIABLES
    rank,       \* the order of the random lease ids
    events,     \* the authority events of all leases, in order
    job         \* the operation that holds the write lock, or Free

lvars == <<vars, rank, events, job>>

Free == [op |-> "none"]
Locked == job # Free

\* What push_event adds for a lease; the sequence number is the position.
Entry(l, event) == [lease |-> l, kind |-> event.kind, related |-> event.related]

Push(l, event) ==
    /\ log' = [log EXCEPT ![l] = Append(@, event)]
    /\ events' = Append(events, Entry(l, event))

LoopInit ==
    /\ Init
    /\ rank \in {r \in [LeaseIds -> 1 .. Cardinality(LeaseIds)] :
                    \A l, m \in LeaseIds : r[l] = r[m] => l = m}
    /\ events = [i \in DOMAIN log[rootLease] |-> Entry(rootLease, log[rootLease][i])]
    /\ job = Free

\* The leases of S in id order.
Sorted(S) ==
    CHOOSE list \in [1 .. Cardinality(S) -> S] :
        \A i, j \in 1 .. Cardinality(S) : i < j => rank[list[i]] < rank[list[j]]
-----------------------------------------------------------------------------
(***************************************************************************)
(* A job: the operation, the lease it is about, the walk below `root'      *)
(* (pending, seen, found), the leases still to revoke (todo), the due      *)
(* leases still to look at, and what was visible when it took the lock.    *)
(***************************************************************************)
Walk(r) == [root |-> r, pending |-> <<r>>, seen |-> {r}, found |-> <<>>]

NoWalk == [root |-> NoLease, pending |-> <<>>, seen |-> {}, found |-> <<>>]

Job(op, lease, id, terms, due, walk, at) ==
    [op |-> op, lease |-> lease, id |-> id, terms |-> terms, due |-> due, walk |-> walk,
     at |-> at, todo |-> <<>>, records |-> records, log |-> log]

\* The first writes of revoke, of refresh_expirations and of renew.
StartRevoke(l, expected) ==
    /\ ~Locked
    /\ MayRevoke(l, expected)
    /\ job' = Job("revoke", l, NoLease, RootTerms, <<>>, Walk(l), "walk")
    /\ UNCHANGED <<vars, rank, events>>

StartRefresh(now) ==
    /\ ~Locked
    /\ Due(now) # {}
    /\ job' = Job("refresh", NoLease, NoLease, RootTerms, Sorted(Due(now)), NoWalk, "due")
    /\ UNCHANGED <<vars, rank, events>>

StartRenew(old, expected, terms, id, now) ==
    /\ ~Locked
    /\ MayRenew(old, expected, terms, now)
    /\ job' = Job("renew", old, id, terms, <<>>, Walk(old), "walk")
    /\ records' = [records EXCEPT ![old] = Retired(@, id)]
    /\ UNCHANGED <<certs, identities, rootLease, log, clock, rank, events>>

\* The children of a lease that the walk has not seen, in id order.
NewChildren(l, seen) == Sorted({c \in DOMAIN certs : certs[c].parent = l} \ seen)

\* Mutant: the lease at the head of the queue stays there.
VisitWithoutPop(walk) ==
    LET parent   == Head(walk.pending)
        children == NewChildren(parent, walk.seen)
    IN  [walk EXCEPT !.pending = @ \o children,
                     !.seen = @ \cup {children[i] : i \in DOMAIN children},
                     !.found = Append(@, parent)]

\* Mutant: a stack in place of the queue.
VisitDepthFirst(walk) ==
    LET parent   == Head(walk.pending)
        children == NewChildren(parent, walk.seen)
    IN  [walk EXCEPT !.pending = children \o Tail(@),
                     !.seen = @ \cup {children[i] : i \in DOMAIN children},
                     !.found = Append(@, parent)]

Visit(walk) ==
    LET parent   == Head(walk.pending)
        children == NewChildren(parent, walk.seen)
    IN  [walk EXCEPT !.pending = Tail(@) \o children,
                     !.seen = @ \cup {children[i] : i \in DOMAIN children},
                     !.found = Append(@, parent)]

\* One turn of the loop of descendants_including; the last one hands over the
\* leases it found, to revoke_descendants without the root.
WalkOn ==
    /\ Locked /\ job.at = "walk"
    /\ LET walk == Visit(job.walk) IN
       job' = IF walk.pending # <<>> THEN [job EXCEPT !.walk = walk]
              ELSE [job EXCEPT !.walk = walk, !.at = "revoke",
                       !.todo = IF job.op = "revoke" THEN walk.found ELSE Tail(walk.found)]
    /\ UNCHANGED <<vars, rank, events>>

\* Mutant: the event names the parent of the lease.
ParentOf(l) == certs[l].parent

\* related_lease_id: the lease the cascade started from.
CauseOf(l) == IF l = job.walk.root THEN NoLease ELSE job.walk.root

\* One turn of the loop that revokes the leases found.
RevokeOn ==
    /\ Locked /\ job.at = "revoke" /\ job.todo # <<>>
    /\ LET l == Head(job.todo) IN
       IF Live(l)
       THEN /\ records' = [records EXCEPT ![l] = Moved(@, "Revoked")]
            /\ Push(l, Event("LeaseRevoked", CauseOf(l)))
       ELSE UNCHANGED <<records, log, events>>
    /\ job' = [job EXCEPT !.todo = Tail(@)]
    /\ UNCHANGED <<certs, identities, rootLease, clock, rank>>

\* Mutant: the sweep does not look again at a lease it collected as due.
StillDue(l) == TRUE
StillLive(l) == Live(l)

\* One turn of the loop over the due leases, which is also where the loop goes
\* on after the walk below the last one.
DueOn ==
    /\ Locked /\ job.op = "refresh" /\ job.due # <<>>
    /\ job.at # "walk" /\ job.todo = <<>>
    /\ LET l == Head(job.due) IN
       IF StillLive(l)
       THEN /\ records' = [records EXCEPT ![l] = Moved(@, "Expired")]
            /\ Push(l, Event("LeaseExpired", NoLease))
            /\ job' = [job EXCEPT !.due = Tail(@), !.walk = Walk(l), !.at = "walk"]
       ELSE /\ job' = [job EXCEPT !.due = Tail(@), !.at = "due"]
            /\ UNCHANGED <<records, log, events>>
    /\ UNCHANGED <<certs, identities, rootLease, clock, rank>>

\* The operation returns and drops its guard.
Return ==
    /\ Locked
    /\ \/ job.op = "revoke" /\ job.at = "revoke" /\ job.todo = <<>>
       \/ job.op = "refresh" /\ job.at # "walk" /\ job.due = <<>> /\ job.todo = <<>>
    /\ job' = Free
    /\ UNCHANGED <<vars, rank, events>>

\* renew after revoke_descendants: the new lease, root_lease_id and the event.
FinishRenew ==
    /\ Locked /\ job.op = "renew" /\ job.at = "revoke" /\ job.todo = <<>>
    /\ LET cert   == certs[job.lease]
           issuer == IF cert.parentAgent = NoAgent THEN cert.agent ELSE cert.parentAgent
           event  == Event("LeaseRenewed", job.lease)
       IN  /\ certs' = Put(certs, job.id, [cert EXCEPT !.renewedFrom = job.lease,
                                 !.terms = job.terms, !.issuerKey = identities[issuer].key])
           /\ records' = Put(records, job.id, ActiveRecord)
           /\ rootLease' = RootAfterRenewal(job.lease, job.id)
           /\ log' = Put(log, job.id, <<event>>)
           /\ events' = Append(events, Entry(job.id, event))
    /\ job' = Free
    /\ UNCHANGED <<identities, clock, rank>>

LoopStep == WalkOn \/ RevokeOn \/ DueOn \/ Return \/ FinishRenew
-----------------------------------------------------------------------------
\* The operations without a loop; each pushes the events it logs for its lease.
Atomic(op) ==
    /\ ~Locked
    /\ op
    /\ LET l   == CHOOSE m \in DOMAIN certs' : m \notin DOMAIN log \/ log'[m] # log[m]
           old == IF l \in DOMAIN log THEN Len(log[l]) ELSE 0
       IN  events' = events \o [i \in 1 .. Len(log'[l]) - old |-> Entry(l, log'[l][old + i])]
    /\ UNCHANGED <<clock, rank, job>>

StartSome ==
    \/ \E l \in DOMAIN certs : StartRevoke(l, records[l].generation)
    \/ \E now \in Samples : StartRefresh(now)
    \/ \E old \in DOMAIN certs, terms \in Offers, id \in NewLeaseIds, now \in Samples :
          StartRenew(old, records[old].generation, terms, id, now)

LoopNext ==
    \/ StartSome
    \/ LoopStep
    \/ Atomic(DelegateSome)
    \/ Atomic(PauseSome)
    \/ Atomic(ResumeSome)
    \/ Tick /\ UNCHANGED <<rank, events, job>>

LoopSpec == LoopInit /\ [][LoopNext]_lvars
-----------------------------------------------------------------------------
(***************************************************************************)
(* Properties.                                                             *)
(***************************************************************************)
Visible == [records |-> IF Locked THEN job.records ELSE records,
            log     |-> IF Locked THEN job.log ELSE log]

Kernel == INSTANCE AuthorityKernel
             WITH records <- Visible.records, log <- Visible.log, MaxLag <- MaxTime

(* The loops implement the kernel: whatever the order of the lease ids, the
   leases revoke, refresh_expirations and renew end, how each of them ends and
   the events they leave for it are those of one atomic kernel operation. *)
ImplementsKernel == Kernel!Spec

\* What is left to do: due leases, turns of the walk, leases to revoke.
Remaining ==
    LET n == Cardinality(DOMAIN certs) IN
    IF ~Locked THEN 0
    ELSE 1 + Len(job.due) * (2 * n + 2)
           + (IF job.at = "walk" THEN 2 * n + 1 - Len(job.walk.found) ELSE Len(job.todo))

(* The write lock is always given back: every turn of the walk below a lease,
   of the loop over what it found and of the loop over the due leases brings
   the operation nearer to its end, whatever the shape of the tree. *)
LoopsEnd ==
    [][Locked /\ job' # job => Remaining' \in 0 .. Remaining - 1]_lvars

(* What a cascade revokes is logged root first and level by level, each level
   in id order below each parent: a lease is never reported as ended by an
   ancestor before the leases between the two that the cascade ends
   (descendants_including; "root-first" order of r2_authority.rs). *)
CascadeIsRootFirst ==
    \A i, j \in DOMAIN events :
        LET e == events[i]
            f == events[j]
        IN  /\ e.kind = "LeaseRevoked" /\ e.related # NoLease
            /\ f.kind = "LeaseRevoked" /\ f.related = e.related
            /\ i < j
            => LET d == Cardinality(Chain(e.lease))
                   c == Cardinality(Chain(f.lease))
               IN  d < c \/ (d = c /\ (certs[e.lease].parent = certs[f.lease].parent
                                          => rank[e.lease] < rank[f.lease]))

\* The event that ended r, and those of the leases that a cascade from r ended.
CascadeOf(r) ==
    {i \in DOMAIN events :
        LET e == events[i] IN
        \/ e.lease = r /\ e.kind \in {"LeaseRevoked", "LeaseExpired"}
        \/ e.related = r /\ e.kind \in {"LeaseRevoked", "LeaseRenewed"}}

(* The log is evidence of one operation after the other: the events of a
   cascade and the event that tells of its cause, before it or, for a renewal,
   after it, stand next to each other in the log. *)
CascadesAreContiguous ==
    \A r \in DOMAIN certs : \A i, j \in CascadeOf(r) : i .. j \subseteq CascadeOf(r)
=============================================================================
