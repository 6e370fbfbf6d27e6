# A TLA+ model of the AEON agent runtime

This directory holds a TLA+ development of `crates/aeon_agent_runtime`: modules
that model the authority kernel, the runtime around it, the mission store, the
tool registry and the protocol gate, TLC configurations that check them on small
instances, and TLAPS proofs of the same properties for lease trees of any size
and any number of calls, operators, tools and renewals. Paths below are relative to `src/crates/aeon_agent_runtime/src/`.

## The system

| Component | State | Operations | Interacts with |
| --- | --- | --- | --- |
| Authority kernel (`authority_kernel.rs`) | leases (certificate, manifest, mutable record), identities, custodians, `root_lease_id`, event log, all behind one `RwLock` | `bootstrap`, `delegate`, `pause`, `resume`, `revoke`, `refresh_expirations`, `renew`, `validate_active_chain`, `commit_active_chain` | called by the supervisor, the action gate and the execution port |
| Chain validation (`authority_kernel/validation.rs`, `identity.rs`) | none | `validate_chain`, `validate_identity_chain`, `descendants_including`, `revoke_descendants` and the request checks | part of every kernel operation |
| Supervisor (`supervisor.rs`) | semantic context, step and action counters, certificate ledger | `run_once` (async, concurrent), the control-plane methods | kernel, model, protocol gate, action gate, execution port, store |
| Action gate and execution port (`execution.rs`) | none of its own; a Nexus hypervisor per call | `authorize`, `execute` | kernel (twice), tool registry, store, Nexus |
| Mission store (`store.rs`) | mission events, authorization records and their attempts | `append_for_attempt`, `insert_authorization_for_attempt`, `consume_authorization_with`, `verify_event_completeness` | written by supervisor and execution port |
| Tool registry (`tool_registry.rs`) | registered tools behind an `RwLock` | `from_tools`, `snapshot`, `resolve_with_capability_manifest`, `refresh_capability_manifest`, schema validation | read by activation, gate, port and renewal |
| Protocol gate (`protocol.rs`), context resolver (`context.rs`), digests, ids, errors | none | pure functions | used by the supervisor |

What is hard here, and to test:

* **The lease tree.** Revocation, expiry and renewal each end a whole subtree,
  through the same helper or a copy of it; renewal also replaces a node and moves the
  root. What a lease may do is checked against its parent at delegation and
  against its predecessor at renewal, and must in the end stay below *every*
  ancestor and the mission.
* **Stale arguments.** Generations and times are read before the lock is taken.
* **The commit section.** `execute_inner` validates the chain, mints tokens and
  spends the authorization record under one authority read guard, in a closure
  that takes further locks and reads the clock again.
* **The long await.** `run_once` observes the authority, waits for the model,
  and must notice on return whatever happened meanwhile.
* **Evidence.** A record is spent before the event that says so is appended; an
  append may fail and a caller may drop the future inside Nexus.
* **Two-step control plane.** Operators read the root lease and then act on it.
* **One registry, many reads.** Activation, authorization, execution and renewal
  each read the tool registry under its lock, and a tool may be replaced between
  any two of them.
* **Untrusted text.** What a model writes must be exactly one of two messages,
  and its arguments must satisfy the tool's schema at every depth.

The correctness properties these call for are listed per module below;
`PROJECT.json` lists the hazards at their source lines, with the property that
covers each, or the reason why none does.

## Modules

| Module | Models | Relates to |
| --- | --- | --- |
| `AuthorityKernel` | the kernel's operations as atomic steps | |
| `CascadeLoops` | the same operations turn by turn | implements `AuthorityKernel` |
| `ChainWalk` | `validate_chain` turn by turn, over arbitrary stores | the definition `ValidateChain` of `AuthorityKernel` is its result on the stores the kernel builds |
| `MissionStore` | events and authorization records | part of `AgentRuntime` |
| `AgentRuntime` | `run_once`, the control plane, audits | extends `AuthorityKernel` and `MissionStore`, implements `AgentPromise` |
| `AgentPromise` | nothing in the code: what operators are promised | |
| `ToolSchema` | schema definitions and instance validation | part of `ModelOutput` |
| `ModelOutput` | `ProtocolGate::parse` and the check of arguments | |
| `Activation` | `bootstrap_r2`, the tool registry and what is bound to it | |
| `AuthorityKernelProofs`, `AuthorityKernelSafety`, `AuthorityKernelEvidence` | proofs about `AuthorityKernel` | |
| `CascadeLoopsProofs` | proofs about `CascadeLoops`, with the proof that it implements `AuthorityKernel` | uses the proofs about `AuthorityKernel` |
| `ChainWalkProofs` | proofs about `ChainWalk` | |
| `AgentRuntimeProofs`, `AgentRuntimeSafety` | proofs about `AgentRuntime`, with the proof that it implements `AgentPromise` | use the proofs about `AuthorityKernel` |
| `ActivationProofs` | proofs about `Activation` | |

The modules named `MC...` give them small instances.

### `AuthorityKernel`

State: `certs` (certificate and manifest per lease), `records` (state,
generation, `renewed_by`), `identities`, `rootLease`, `log` (the authority events
per lease), `clock`. One action per kernel operation: `Delegate`, `Pause`,
`Resume`, `Revoke`, `RefreshExpirations`, `Renew`; `Bootstrap` is the initial
state. Every operation holds the write lock from its first read to its last
write, so it is atomic; a rejected call writes nothing and is a stuttering step.

Abstractions: a `LeaseRef` is the lease id, because certificates never change
(`EndedIsFinal` checks that); a digest is the thing it is taken of; a signature
is the key that made it. The descendants of a lease and the chain of a lease are
least fixed points, which is what the two loops compute. Mission id,
organization version and policy epoch are the same constants in every
certificate and are left out. Random lease ids are numbered in the order they
are drawn; the one place where their order matters is the expiry sweep, which
therefore tries every order. Every caller passes an expected generation; in `Next` it
is the current one, since any other is rejected; stale generations are the business of
`AgentRuntime`. `now` is any time up to `MaxLag` in the past.

Properties: `TypeOK`; `LiveUnderLive` (cascades are complete);
`OneLiveLeasePerAgent`; `WithinMission`; `AttenuatedAlongChain`;
`OnlyInactivityBreaksAChain` (nothing the kernel issues is unusable for a
structural reason); `RootLeaseIsCurrent`; `EventsReconstructRecords` (the log
alone determines every record); and the action properties `GenerationFence`,
`EndedIsFinal`, `EndedAgentStaysEnded`.

### `CascadeLoops`

`revoke`, `refresh_expirations` and `renew` one loop turn at a time: the
breadth-first queue and the `seen` set of `descendants_including`
(`WalkOn`), the loop that revokes what was found (`RevokeOn`), the sweep over
the due leases in id order (`DueOn`), the end of a renewal (`FinishRenew`). `job` is
the operation that holds the write lock and all of its local variables, `rank`
the order of the random lease ids, chosen at the start, and `events` the one
event vector of the kernel, of which `AuthorityKernel` keeps a part per lease.

* `ImplementsKernel` is the refinement: the kernel seen through the lock (the
  records and the log as they were when the lock was taken, until it is
  released) behaves as `AuthorityKernel` specifies. What the fixed points of
  that module stand for is thereby what the loops compute, in every order of ids.
  The kernel is instantiated with `MaxLag <- MaxTime`: an operation samples the
  time before it starts and other steps of the clock may follow until it ends.
* `LoopsEnd`: a measure goes down with every turn, so the lock is given back.
* `CascadeIsRootFirst` and `CascadesAreContiguous`: what the log says of the order
  of a cascade and of its cause.

### `ChainWalk`

`validate_chain` and `validate_identity_chain` as the two nested loops they are,
with the cache of validated identities between leases, run on *every* store of
the instance rather than on those the kernel builds: cycles, missing entries,
too long chains, and any one failing check (`Defects`). `AcceptsOnlySound` and
`RefusesOnlyUnsound` compare the verdict with a declarative definition;
`EachIdentityVerifiedOnce` is what the cache is for.

One thing the comparison showed: the depth limit of identities counts only the
identities a walk visits before it meets the cache. In a store whose identities
are issued along the lease chain, as `delegate` issues them, that is no
difference; in others an identity behind a cached one may be deeper than the
limit. `AcceptsOnlySound` is stated accordingly.

### `MissionStore`

One event sequence per attempt and the single-use authorization record of each
attempt, with `verify_event_completeness` as the operator
`VerifyEventCompleteness`. The module has no next-state relation of its own; its
operations are steps of `AgentRuntime`. `verify_event_completeness` takes the
events as an argument, because the code copies them and reads the records later.
The four activation events, event numbers and mission ids are the same in every
state and left out, and so are the parts of `verify_event_completeness` that check
them.

### `AgentRuntime`

Composes the kernel and the store. Each attempt is one call of `run_once` with a
program counter; a step runs from one point where shared state is read under a
lock to the next:

| Steps | Code |
| --- | --- |
| `Call`, `ObserveSnapshot`, `ObserveAuthority` | context read, `observe_model_authority`, step budget |
| `ModelFails`, `ModelFinal`, `ModelToolCall` | the model's answer and the protocol gate |
| `LockForFinal`, `CommitFinal` | `accept_model_final` |
| `AuthorizeSnapshot`, `AuthorizeAction` | `ActionGate::authorize`, action budget, `insert_authorization_for_attempt` |
| `ResolveTool`, `LockForCommit`, `CheckCertificate`, `ReadIssueTime`, `MintTokens` | `execute_inner` up to the release of the authority guard |
| `RecordConsumption`, `RecordStart`, `NexusReturns` | evidence and the Nexus call |
| `DropWaitingForModel`, `DropInNexus` | the caller drops the future at one of its two await points |
| `ControlRead`, `ControlApply`, `ControlRefresh` | the control-plane methods, snapshot and application |
| `AuditCopyEvents`, `AuditReturn` | `verify_event_completeness`: the copy of the events, then the verdict against the records of that moment |
| `ReplaceSemanticContext`, `ReplaceTool` | the two writers that exist in test builds; the commit checks are there for them |

`guards` is the set of attempts inside a commit closure; the kernel's writers
wait until it is empty. Since the control plane offers no delegation, the only
chain is the root lease. The semantic context, which only tests replace, is
read in the same step as the root lease id. A registry is represented by the
manifest base it yields: a replaced tool changes the registry root. The model
and Nexus are external: the model answers with anything, Nexus may refuse to mint and may
fail, and counts a token's validity from the time it mints it.

Several events that one step appends are appended one by one in the code; no
proper part of them completes a history, so an audit between two of them
says the same as one before the step.

Properties: `RuntimeTypeOK`; `MintedUnderLiveAuthority`, `TokenWithinAuthority`,
`FinalUnderObservedAuthority`, `NoAnswerAfterExpiry`, `SoleOperatorRevokes`,
`EffectNeedsEvidence`, `EvidenceExposesLoss`, `AuditIsSound`, `AuditIsFair`,
`BudgetsHold`, the refinement `KeepsPromise`, and the liveness property
`EveryoneFinishes`.

`SoleOperatorRevokes` is stated for one operator. With two, a revoke whose
snapshot precedes the other's renewal fails on the generation, which is what the
generation is for, and the renewed lease stays in force.

`TokenWithinAuthority` is stated with the slack the code has: `issue_now` is read
before Nexus reads its own clock, so a token may outlive its lease by the time
that passes in between, and by no more.

### `AgentPromise`

What the runtime promises the operators, without locks, leases or clocks: the
authority is one register with a version and a standing, and a decision of the
agent takes effect at one instant, at which the version is the one the decision
rests on. `AgentRuntime` maps the root lease and its generation to the version,
the record's state to the standing, and the program counter of an attempt to a
phase: the steps of the commit section are all "open" until the mint, which is the
instant. `KeepsPromise` is this refinement, checked with two operators.

### `ToolSchema` and `ModelOutput`

`ModelOutput` follows one answer of a model: the size limit, `visit_map` entry by
entry, the rest of the deserialisation, and `validate_input` against any schema
a tool can be registered with. JSON syntax is external: a text is a sequence of
entries, or is broken off anywhere. `ClosedProtocol` compares the gate with what
`AgentMessage::serialize` writes, in both directions. `SchemaIsEnforced` compares
`validate_instance` with a definition place by place; it needs that
`validate_schema_definition` refuses `required` and `properties` without
`"type": "object"`, for without that they would be idle for other values.
The code holds `additionalProperties` to no type: it may be registered without a type
or under another one, and says nothing about a value that is not an object, so a
property declared as just `{"additionalProperties": false}` admits any number or
string. The property takes the keyword as binding objects only, as JSON Schema does,
and claims no more: "rejects fail-open schemas"
(`docs/agent-runtime/ARCHITECTURE.md:531`) holds here of `required`, `properties` and
unsupported keywords, not of this one. The arguments themselves are always an
object, so at the top the keyword always counts. Inside
the arguments a repeated name is settled by `serde_json` (the last one counts),
before anything here sees it.

### `Activation`

`bootstrap_r2` against the shared registry, then one action at a time through
`authorize` and `execute`, and renewals, while tools are replaced; each read of
the registry under its lock is a step. A tool is an id, a body that stands for
the rest of its manifest, and its required capabilities; the registry root is the
set of tools, since the digest sorts them. Capability lists keep their order,
because some checks compare canonical lists and the manifest keeps the requested
one. `bound` remembers the registry at the moment of the snapshot.

`OneGeneration`, `DriftIsSeen`, `RunsBoundTool` and `NothingElseRefuses` are about
what is bound at activation and what later checks make of it. The comparison of
tool digests in `execute` is not needed for `RunsBoundTool`: the comparison of whole
manifests in the commit section implies it. It gives an earlier and more
specific error. `ToolRegistry::replace` exists in test builds only; the checks are
there for a registry that changes.

## Runs

| Run | Instance | Shows |
| --- | --- | --- |
| `kernel` | 4 leases, 3 agents, depth limit 3, clock 0..2, stale times by 1 | the ten kernel properties; four leases allow a chain of three with a renewal at any level, and siblings |
| `kernel_chain` | 3 leases, depth limit 2 | `OnlyInactivityBreaksAChain` with the depth limit in reach |
| `loops` | 4 leases, 4 agents, every order of ids, one lifetime | the loops implement the kernel, end, and log cascades in order; four leases give chains, stars and both kinds of three-level trees, all due at once |
| `loops_renew` | 3 leases, 3 agents, depth limit 2, two lifetimes, generation bound 2, clock 0..1 | `ImplementsKernel` with renewals, pauses, resumptions, and leases that outlive the others |
| `chain_walk` | 3 leases, 3 agents, depth limit 2, all stores and defects | the three properties of the walk; with three leases and a limit of two, chains below, at and above the limit occur, and cycles of each length |
| `runtime_race` | 2 calls, 1 operator, 1 renewal, 1 fault (failed append, replaced tool or context), clock 0..2 | the runtime's safety properties |
| `runtime_control` | 1 call, 2 operators, pause and resume up to generation 2 | `KeepsPromise` under control-plane races |
| `runtime_budget` | 3 calls, 2 steps, 1 action | `BudgetsHold` |
| `runtime_live` | 2 calls, 1 operator, 1 renewal, clock 0..1 | `EveryoneFinishes` |
| `runtime_audit` | 2 calls, 1 auditor, 2 faults, no operator | `AuditIsSound`, `AuditIsFair` |
| `model_output` | objects of up to 4 entries out of those that matter for some rule, arguments two objects deep, some 16000 schemas, nested, of which tools may have the valid ones | `ClosedProtocol`, `SchemaIsEnforced`; a tool call has three entries, so one more is a duplicate or unknown |
| `activation` | registries of 2 out of 5 tools, 2 replacements, 1 renewal, requests that are too long, repeated, unordered or forbidden | the four properties of activation; two replacements change the registry and change it back |

Bounds: `MaxTime`, `MaxLag`, `MaxGeneration` (only pause and resume, which could
alternate for ever), `MaxFaults`, `MaxEntries`,
`MaxReplacements`, `MaxRenewals`, and the sizes of `LeaseIds`, `Attempts`,
`Operators` and `Auditors`. Times are compared only with expiry times, of which there are two
(the root's first lifetime and the mission's end), so a clock of three values
passes each. Deadlock is not checked: once the clock, the lease ids and the calls are used
up the system has nothing left to do. Symmetry is used for the children, their
keys, the attempts and the operators, and never in the liveness run.

Fairness (`Fairness` in `AgentRuntime`): weak fairness for a started call and for
a started control-plane call. That stands for an executor that polls its tasks, a
model and a Nexus that answer, and a lock that is granted once it stays free.
Nothing is assumed to start, and time need not pass. The code makes no promise
about writers when new readers arrive without end (`authority_kernel.rs:101`), and
neither does the model: there are finitely many attempts.

Each property of each run has a mutant, a plausible slip in the code it is about
(defined just before the definition it replaces), under which the property fails.

## Proofs

35 theorems, for all values of the constants that satisfy the named assumptions
of the modules: distinct ids and natural bounds, `Capability::is_subset_of` a
preorder, and well-typed requests, missions and tools. The kernel, the
runtime and activation assume no set to be finite; where a count matters (depths,
budgets, events), finiteness is proved. The two modules about loops assume it of
their ids: `CascadeLoops` of the lease ids, which are UUIDs, since its loops run over
sorted lists, and `ChainWalk` of the leases and agents of the store it walks, which is
a hash map. `PROJECT.json` lists each theorem with the property it states.

### The kernel

`AuthorityKernelProofs`:

* `TypeCorrect`. The step that needs care is renewal and delegation looking up the
  issuer's key, which exists because the chain was just validated
  (`ValidChainIdentities`).
* `TransitiveRevocation` (`LiveUnderLive`). Not inductive by itself. `TreeInv` adds
  `IssuedInOrder`: a lease is issued after its parent. From it, no lease lies
  below itself (`ParentNotBelow`), so a cascade from `r` never reaches the parent
  of `r`. The rest is about the fixed points: descendants are closed under children
  (`DescendantsClosed`) and least (`DescendantsLeast`), the chain of a lease
  contains that of its parent (`ChainOfParent`), so whatever ends a parent
  ends its children in the same step; for the sweep this is `FirstInSweep`,
  `EndedByDue` and `RefreshShape`.

`AuthorityKernelSafety` first reduces every operation to one of two shapes: it
revises live records (`Revises`), or it issues one lease (`Issues`). Then:

* `GenerationsFence`, `EndingIsFinal`: action properties, from the shapes.
* `OneLeasePerAgent`, `AgentsStayEnded`, from `HolderInv`: every holder of a lease is
  a registered identity, which is what makes `delegate` refuse it.
* `RootIsCurrent`, from `RootInv`: the root lease has no parent.
* `StaysWithinMission`, `AttenuatedByEveryAncestor`, from `TermsInv`: what may be
  delegated is covered by what was granted, and each lease is attenuated under its
  parent. Delegation checks a child against its parent's *delegable*
  authority and renewal checks a lease against its predecessor; the first conjunct
  joins the two. That attenuation reaches every ancestor follows since the
  leases that attenuate `l` are closed under parents.

`AuthorityKernelEvidence` proves `ChainsStaySound` (`OnlyInactivityBreaksAChain`). `ChainInv`
is about neighbours (a certificate and its parent, its issuer, its
predecessor; an identity and its issuer) and about the depth of chains; that whole chains
of leases and of identities end at a root, match each other and stay within the
limit follows. Finiteness of the store is part of the invariant.

It also proves `EventsAreComplete` (`EventsReconstructRecords`), from
`EventInv`: the number of moves told is the generation (less a retirement), the last
event tells the state, and the first events of leases name exactly the
retired ones. The proof showed something about the statement: its `CASE` is well
defined only if a renewed lease's last event is never one that ends it. It
is so, because only an active lease is renewed, and `StatesTold` says so.

### The loops

The proofs about the kernel rest on fixed points. `CascadeLoopsProofs` shows that
the loops of `revoke`, `refresh_expirations` and `renew` compute them, for every tree and
every order of the random lease ids:

* `ShapeInv` is about the job that holds the lock: the walk's `pending` and `found` lists
  are disjoint and without repetition and together are `seen`, everything seen lies
  below the walk's root, and every child of a lease found has been seen. So when nothing is
  pending, what was found is exactly `DescendantsIncluding`.
  With it, `LoopsTerminate` (`LoopsEnd`): no walk finds more leases than there
  are, so the measure `Remaining` falls with every turn.
* `StatusInv` says of each lease whether its record and its events are still those the
  operation found or already those it leaves. A lease is *struck* by the first lease
  on its chain, in the order of the sweep, whose cascade has started, and *waits* as long
  as that cascade has not come to it. Neither half could be left out: in the middle of a
  sweep a live lease may lie below an expired one, and a lease due itself may have
  been revoked by an ancestor that came first. `RenewalAllowed` remembers that what `renew`
  validated is still true of what was visible when it took the lock.
* `LoopsImplementKernel` (`LoopSpec => ImplementsKernel`): the last turn is the kernel's
  step (`ReturnRevokes`, `ReturnRefreshes`, `FinishRenews`), every earlier one a stutter
  (`TurnsUnseen`), and the operations without loops are the kernel's own (`Atomics`).
  The refinement mapping shows what was there when the lock was taken; the order
  of the due leases that the kernel leaves open is that of their ids (`Placed`). The kernel
  implemented has no bound on the age of `now`, since the clock runs on while the
  lock is held.
* `EventOrderInv` is about the one event log: the lists of a walk are ordered by depth, and
  below one parent by id, with at most two depths pending at a time; what a
  running cascade has reported comes before what it has still to revoke, and the end of the
  log belongs to it. `CascadesAreRootFirst` and `CascadesStayContiguous` follow. The second needs one
  more fact, that a lease named as a cause has ended (`EventOK`), so no later cascade starts
  from it again.

### The chain walk

`ChainWalkProofs` proves `ChainAcceptedOnlyIfSound`, `ChainRefusedForAReason` and
`SignaturesVerifiedOnce` for stores of any shape, from `WalkInvariant`. Behind each of the
two walks lies a list: the leases entered lead from the leaf to the current one
(`BehindLease`), the identities found lead from the lease's agent to the current one
(`BehindIdentity`). If a walk meets its own past, what is behind it is closed, so no root
is above the start and refusing was right; if it meets a root, what is behind it is the
whole chain. The cache is sound because everything in it leads to a self-issued identity
(`CacheAnchored`). Whatever was verified is in the cache or was found on this walk
(`Signatures`), and a walk verifies only what is in neither, so nothing is verified twice. The depth limit of identities is proved for the leaf's agent without
any assumption, and for the others in stores where identities were issued along the
chain, as the property says: an identity taken from the cache is not counted again.

### The runtime

`AgentRuntimeProofs` proves `RuntimeInvariant` (`RuntimeSpec => []RuntimeInv`), for any
number of concurrent calls, operators and auditors. For each attempt
`AttemptInv` says, place by place in `run_once`:

* `ViewInv`: the lease it remembers exists, and it remembers one generation of it
  wherever it has decided something under that lease;
* `GuardInv`: inside a commit closure what it observed is *still* true. This is
  the heart of the matter: kernel operations wait for `guards` to be empty, so no
  step of anybody else can falsify it;
* `EvidenceInv`: the history and the authorization record that belong to the place,
  and, once it has returned, the four ways to have ended;
* `TokenInv`: the token it holds, and under what it was minted.

`BudgetInv` counts the attempts that took a step or an action, `ControlInv` says
that the snapshot of a sole operator is current, `AuditInv` that an auditor's copy is still
true of the attempts that had ended.
Each step of an attempt is shown to leave all other attempts alone (`OwnStep`), and each
step of the control plane to be a kernel step (`KernelMoves`) that no closure sees.

`AgentRuntimeSafety` derives the properties of `AgentRuntime`, invariants and
action properties alike: `RuntimeTypeCorrect`, `TokensStayWithinAuthority`,
`EffectsHaveEvidence`, `BudgetsAreKept`, `LossIsExposed`, `AuditsAreSound`,
`AuditsAreFair`, `MintsNeedLiveAuthority`, `FinalsNeedObservedAuthority`,
`LateAnswersAreRefused`, `SoleOperatorIsObeyed`.

It also proves `PromiseIsKept`: `RuntimeSpec => KeepsPromise`, step by
step. The steps of one attempt map to `Begin`, `Look`, `License`, `Act`, `End` or
a stutter (`AttemptPromised`), those of the control plane and of the sweep to
`Change` or a stutter (`KernelPromised`). The mapping reads the phase of a finished
attempt from its history, so the proof needs the list of histories a call can
end with; that a decision is backed by the current version comes from `GuardInv`.

### Activation

`ActivationProofs` proves `OneGenerationIsBound`, `DriftIsExact`, `BoundToolRuns` and
`ChecksAgree` from `ActivationInv`, which says for each stage of `bootstrap_r2` what is
bound. Two conjuncts are there for induction: a registry never holds two tools with one id,
and replacing a tool keeps its id, so a refreshed manifest has the ids of
the bound one. That is why a renewal, which asks only for a *subset* of
the bound tools (`validate_manifest_attenuation`), ends with all of them.

The model sorts capability lists (`Canonical`). `CanonicalMembers`, which says that the sorted
list has the members of the list, is an induction over finite sets; it is
done by taking a smallest set without a listing (`ListingExists`), for which
the library's well-founded orderings suffice.

### Model-checked only

* `EveryoneFinishes`: liveness under fairness is out of the prover's reach.
* `ClosedProtocol`, `SchemaIsEnforced`: `ToolSchema` and `ModelOutput` use recursive
  operators, about which nothing can be proved here. No other module does.

All other properties of all runs are proved.

## Not modelled

JSON syntax, canonicalisation and hashing, signatures as such, identifier and
declarative-text syntax, the text of the system instruction (pure functions
whose results appear as model values or as a free choice of verdict), metrics
(written, never read by the runtime), the agent record and lease of the mission
store and the record types of `agent.rs` that no code uses yet, poisoned locks (a
panic inside a lock ends the use of the runtime: every later operation returns an
error), and `u64` overflow of generations and sequence numbers. How long a writer
waits while new readers keep arriving is left open by the code itself
(`authority_kernel.rs:101`). Nothing is persisted, so there is no recovery to model.

## What is left

`ClosedProtocol` and `SchemaIsEnforced` could be proved only of a model of schemas without
recursive operators, in which nesting is a bound and each level a definition of its own;
what a schema of any depth accepts is an induction over data. `EveryoneFinishes`
is left to TLC. The components marked `partly` in `PROJECT.json` say what of them is
not modelled.
