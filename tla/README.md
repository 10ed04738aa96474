# PheroOS in TLA+

PheroOS coordinates workers through one SQLite file. There is no server and no
message between workers: processes and threads open the file, run one short
transaction, and keep what it returned (a lease, a record, an artifact) in memory
until their next transaction. What makes the program hard is therefore not inside a
transaction, which SQLite makes atomic and durable, but between two of them: another
worker's transactions, the passing of a lease's lifetime, a crash, a source that
changes, a cancellation, a tool that answers late or never.

The modules follow that: **one method that opens a transaction is one action**, guarded
by every check that raises (an exception rolls the whole transaction back, so a call
that raises is no step), and everything a process carries from one transaction to the
next may be stale when it is used.

## 1. Inventory

| Component | State | Operations | Interacts with | What is hard | What makes it correct |
| --- | --- | --- | --- | --- | --- |
| Base ledger, `runner/session.py`, `records.py` | tables `run`, `work`, `calls`, `artifacts`, `events` | create, recover, claim, reserve, dispatch, receive, publish, publish_received, cancel | every other layer is built on its transactions and overrides its hooks | stale leases, answers after expiry, settlement after cancellation, atomic re-claim and publish | fencing, no blind retry, budget, each task decided once, the tables agree |
| Work tree, `runner/platform.py` | `platform_work_v1` (tree, caps), `platform_candidates_v1`, `platform_no_entry_v1`, `platform_decisions_v1`, the count of journal events | decompose, release, renew, mark_no_entry, propose, commit, abstain; stricter claim, reserve, publish | overrides hooks of the ledger, reads its journal as a counter | caps moved while spending goes on, several ways to end a task, exhaustion of the control budget | caps conserved over the tree, one reason per terminal task, acyclic work, drain at the limit |
| Evidence, `runner/evidence.py` | sources (version, readers, fingerprint), inspections | source_update; stricter lease fence, dispatch and publication access; artifact reads | overrides hooks of the ledger, composes with the work tree | a source or its readers change while calls on it are in flight | nothing stale published or dispatched, updates in order |
| Orchestration ledger, `runner/orchestration.py`, `contracts.py` | tasks, typed artifacts, token accounting, task decisions | create, reserve_bounded, reserve_tool_call, dispatch, receive, record_rejection, record_accounting_violation, abstain_task, publish_derived, admit_children | overrides request admission and settlement | one decision per receipt, logical call identity, usage above the bound, children narrower than parents, derived artifacts with lineage | a receipt is consumed once, limits hold, the join keeps its reserve, nothing is derived from nothing |
| Workflow runtime, `runner/runtime.py` | what a process holds in a step; otherwise it recomputes its position from rows | step, run, start_run, resume_run | drives the orchestration ledger, transports, tools | crash between any two transactions, two processes on one ledger, stalled tasks, the sweep bound | the record replays, receipts are not lost, the loop ends, the outcome matches the ledger |
| Audit, `runner/audit.py` | none | replay of a recorded ledger | reads every table | histories a run may legally leave | accepts what the runtime can produce |
| Worker and drivers, `runner/worker.py`, `driver.py`, `provider.py` | position in a sweep, what it read before | run_worker, waiting_rule, evaluate | work tree, tools | stale ready lists and records, crash at every call, release on error | no second read after a receipt, no lease kept after a step |
| Colony, `runner/colony.py` | position in a sequential plan | run_colony | as the worker | stable call identities over re-claims and abandoned attempts | an id is never sent twice, receipts reused in order |
| Inspection runner, `runner/inspection.py` | frozen plan, record on disk | run_inspection, replay_inspection | evidence ledger, planner, files | the source, its files or the run change during the read | the saved record replays, and acts on what was read as declared |
| Policies, `runner/policies.py`, `runtime_policies.py` | none | choose a task or an agent | called by sweeps | ties, empty lists, deferring to others | someone eligible claims |
| Planners, `src/pheroos_interaction/` | none | lease_ttl, commit rules, sequential plan, inspection plan | called by hosts | ties, zero, horizon boundaries | the optimum of a stated objective |
| Tools, Anthropic transport, CLI, identity | none | validation, HTTP, files | answers the ledger waits for | I/O | not modelled |

PROJECT.json lists the components with their status, and under "hazards" the places
in the code where each difficulty bites, with the properties that watch it.

## 2. Modules

| Module | What it is | Extends |
| --- | --- | --- |
| `Session` | the base ledger: one action per transaction of `Session` | |
| `EffectOnce` | the abstract promise about external effects | |
| `Platform` | `PlatformSession`, the work-tree layer | `Session` |
| `Evidence` | `CoordinationSession`, sources and inspections | `Session` |
| `ScopedPlatform` | the work tree over the evidence layer | `Platform`, `Evidence` |
| `Orchestration` | `OrchestrationSession`: receipts, decisions, delegation | `Platform` |
| `Runtime` | processes that run a workflow over that ledger | `Orchestration` |
| `Audit` | the checks of a replay over what a run leaves | `Runtime` |
| `Sweep`, `Worker`, `Colony`, `Colonies` | processes that sweep the work tree, what they share and what is their own, and the two together | `Platform` |
| `Planner` | the plan of one read | |
| `TreePlanner` | the plan of a tree of reads, its horizon and its certificate | `Planner` |
| `Inspection` | one run of an inspection and its replay | `Evidence`, `Planner` |
| `Leases`, `Commitment`, `Allocation` | lifetime of a lease, stopping rule, choice of work | |
| `Decisions` | every decision rule asked one question, beside its reference | `Inspection`, `TreePlanner`, the three above |
| `MC*` | small instances for TLC | |
| `SessionProofs` | theorems about the base ledger, what every layer shares, and lemmas about sums over finite sets | `Session` |
| `PlatformProofs`, `EvidenceProofs` | theorems about the two layers above it | the layer, `SessionProofs` |
| `ScopedProofs` | theorems about the work tree over the evidence layer | `ScopedPlatform`, the two above |
| `OrchestrationProofs` | theorems about the orchestration ledger | `Orchestration`, `PlatformProofs` |
| `SweepProofs` | theorems about workers and colonies over one ledger | `Colonies`, `PlatformProofs` |
| `RuntimeProofs` | theorems about the runtime and about the record it leaves | `Audit`, `OrchestrationProofs` |
| `DecisionProofs` | theorems about an inspection, its planner and the choice of work | `Inspection`, `Allocation`, `EvidenceProofs` |

### Session

State: the row of table `run`, and the tables `work`, `calls` and `artifacts` as partial
functions from primary keys to rows; `granted` is the set of every `Lease` value ever
returned to a caller. The journal is not kept (the base ledger only appends to it).

* Lease holders. `Reserve`, `Dispatch` and `Publish` take *any* lease of `granted`, so
  a slow process, a process that was declared dead, and two processes that share a
  lease are all covered; a crashed process is one that takes no further step. Tools run
  outside of transactions, between `Dispatch` and `Receive`.
* Time. `expires <= clock()` is the flag `lapsed` of a leased row, which `Expire` may
  set at any moment. This covers every clock and every lease duration.
* `claim` and `publish_received` first recover every expired row and then act; both
  parts are one action. A `claim` that finds nothing commits the recovery alone, which
  is `Recover`. `publish_received` uses a lease that never leaves its transaction; it
  has two forms, one for an agent that still holds the work (`PublishHeld`) and one that
  claims it (`PublishReclaimed`).
* `receive` asks for no lease: any process may deliver any answer at any time, after a
  cancellation too. An answer whose usage exceeds the reservation raises and leaves the
  call dispatched; an oversize one settles its usage and is rejected.
* Left out: the `version` columns (no transition of this layer changes them), request
  and response contents (a call is its prompt bound, maximum and actual usage), the
  verifier and the byte bounds on requests and artifacts (they only make a transaction
  raise, which the model allows at any time by not taking the step).

### EffectOnce and the refinement

`EffectOnce` has no lease, clock, agent or budget: a call has had no effect yet, has
begun, is known, or is void; a task is decided once and from a known effect; once
closed, nothing begins. `Session` implements it with the mapping written next to
`Effects` in the module (reserved is idle, dispatched begun, received or rejected known,
abandoned void).

### Platform

Extends `Session`; an overriding method is the base action conjoined with the checks of
the override, e.g. `ClaimAvailable(a, w) == Claim(a, w) /\ ...`. `meta` holds the tree
and the caps, `held` the tasks whose no-entry mark is in force (time ends a mark in
`MarkElapses`), `operations` the number of counted journal events: `_event` derives it
from the journal, counts `claimed` and every `platform.*` event but `platform.released`,
and refuses at the limit. `Count(n)` is a guard of every action that writes such events,
so an action whose second event does not fit does not happen at all, as in the code.

`commit` is split by what its rule answers (`CommitWaits`, `CommitPublishes`,
`CommitAbstains`). A rule is any pure function, so the model lets it answer anything the
code accepts. The default rule is one of them.

Children that inherit an inspection need the evidence layer below and are in
`ScopedPlatform`. Left out: the temporary file `create` uses to publish a finished database.

### Evidence

Extends `Session`. `sources` holds the current version, readers and fingerprint of each
source, `inspections` what each inspection was declared against, `control` the number of
counted events (`claimed` and `source_updated`). `Current(w, a)` is the fence the layer
adds to every use of a lease and to both publication paths; `claim` does not ask it, so
an agent may lease work it cannot use, and the model lets it. `SourceUpdate` is the
host's control: it may repeat the version it announced, with other readers, or advance
it, and it supersedes outdated work and takes work from holders who lost access. It
moves the epoch of what it fences even while a call on it is unknown, so the base
property `UnknownBlocksRetry`, which compares epochs, does not carry over; its
counterpart here is `UnknownNotOffered`.

Left out: tool references and arguments of an inspection (a request that differs raises
at dispatch), observation keys, and the second transaction of `create`, which nobody
else can observe.

### ScopedPlatform

The two layers meet in the hooks: the evidence layer overrides `_lease`,
`_publication_access` and `_event`, and the tree calls all three. Each action is the
action of `Platform` conjoined with what those overrides add: `HeldNow` for a use of a
lease, `DecidedNow` for `publish_received` and `commit` (a transaction that claims on the
way moves the epoch by one and is counted for it). Unlike `CoordinationSession` alone,
`claim` asks for access here, through `_available`; that is why `HolderMayRead` is an
invariant of the composition and not of `Evidence`, where an agent may lease work it can
neither use nor release. `Inherited` gives children the inspection of their parent.

### Orchestration

Extends `Platform`. A call identity is the *record of its logical key* (work, kind, step,
attempt), since `call_identity` hashes exactly that key: two calls have one id when the
code would give them one. `bindings` holds what the ledger compares of a request,
`answers` the proposal (or the verdict) in a receipt, `violated` the calls whose reported
usage broke its bound, `rulings` the decisions of each task in order, `derived` what is
known of a result.

One action per method the runner calls on this ledger. The host is the only caller, and
the module lets it make these calls with any lease it was ever given, any receipts and any key,
in any order: nothing but the ledger's own checks keeps the properties. In particular
`reserve_tool_call` takes three things it never compares: the receipt it consumes
(`source`), the receipt the request was made from (`model`), and the step of the call. The
host may mix them up, and may ask again for a call that is settled (`Repeated`). A key has
the kind its method is for, since nothing gives a model call's id to a tool. Which workflow is run is
chosen in Init among several specifications, so one run covers a task with a tool, a task
that delegates, and two tasks that a host task decides from. `WorkflowAssumption` is what
`task_spec` and `workflow_spec` validate (`TaskRow` is the shape of a row of the tasks
table), `AnswerAssumption` what the contracts of an answer do: a proposal of a tool names a
tool, a delegation is a list of children, bounds are counts. `commit` and `publish_received` always refuse in
this layer and are not actions of it. Left out are the inherited public methods that nothing in
`runner/` calls on this ledger: plain `reserve`, `decompose`, `renew` and `mark_no_entry`, and
the `join_reserve` a host may pass to `admit_children` in place of the declared one.

### Runtime

A *runner* is one process inside `Runtime.run`. Its record is what the process has in
memory: the place in the step, the pair it selected, its lease, the call it works on, the
history the outcome is computed from. Every transaction of a step is one action. It
commits, or it raises (it is not enabled) and `_classify` names the status; the `finally`
of the step, which releases or recovers, is the action `Releasing`. `session.claim` stands
outside of the `try` in `step`, so at the used up control budget its `BudgetExceeded`
leaves `run` without an outcome: such a runner is `raised`.

`Resume` is `resume_run`: another process starts over the same rows, with the old one
killed wherever it was (same name) or still at work (another name). Everything else a step
needs it derives from the rows, as the code does: `StepOf`, `Pending`, `KeyOf`, `Context`.
`frozen` keeps what each request was frozen from, which the ledger stores as text.
Transports and tools answer, fail, answer too much, or exceed the prompt bound.

### Audit

`replay_run` is a pure function of the rows. Each of its checks is an operator over the
ledger `Runtime` leaves, in every state and not only in the last one, because a run may
stop anywhere. Digests and the identity of the source tree are left out: a record that
nobody edits satisfies them.

### Sweep, Worker, Colony, Colonies

A *sweeper* is the process of one agent in `run_worker` or `run_colony`, which share the
shape of a sweep (`Sweep`) and differ in how they read and decide (`Worker`, `Colony`);
`Colonies` lets every agent run either over one ledger. Each call of the session is a step,
the record holds what was read before, and `Die` may happen at any of them. `left` is the
`remaining` of the ready row the item was chosen from: a shortfall that arises between
the choice and the claim is noticed only at the reserve, where the ledger refuses it. The
policy, `decide`, the planner and the commit rule are callbacks, so they are choices. A
colony's tree is a set of complete histories with the action at each (`Leaves`).
Every read of a claim and every attempt at a depth has an id (`ReadAssumption`,
`TreeAssumption`), since the code hashes these into an id and never runs out of them.
`ProviderDriver` performs the same reserve, dispatch and receive with tokens; it is left
out.

### Inspection and the decision rules

`Inspection` follows `run_inspection` from the frozen plan to the saved record. Around it
the source's files change, updates are announced, the run is cancelled, others recover,
and time passes, between any two of its steps. The snapshot is read from a read-only
connection, one `SELECT` after the other and in no transaction (`SelectNext`), so others may
commit between two tables and again after the files are saved: `saved` is `session.json`, and
may be torn or outdated. `Replay` is `replay_inspection`, which refuses a saved snapshot that
is not the ledger as it is now; an update or a cancellation after the first `SELECT` makes it
refuse, as in the code. A process that dies saves no result, and there is nothing to replay.
A run that buys no read ends as `skipped`, with no ledger.

The planners are exact: a probability is a number of `Scale` parts, losses are integers,
and a risk is multiplied by a number that every read on a path divides (`Whole`, `Unit`).
The tie tolerance and the epsilons of the float code become zero, so a tie is a tie.
`Decisions` asks one question per behaviour, chosen in Init over enumerated inputs, and
the properties compare the answer with a definition of what it is meant to be: all
policies of a bounded number of reads, all plans of waiting, all lifetimes, all worlds
inside the declared boxes. `TreePlanner`, `Commitment` and `Decisions` recurse over depth
and are outside of what is proved about; `Planner`, `Inspection` and `Allocation` do not.

## 3. What is checked

Every run is deadlock-tolerant because the ledger really stops: in a cancelled or
completed run with nothing in flight no transaction changes anything, a process that
has ended takes no step, and a question that is answered is not asked again.

| Run | Question | Instance |
| --- | --- | --- |
| `session_safety` | do the tables stay consistent, stale leases powerless, and effects at most once? | two agents, `review` depends on `draft`, three calls, three claims per task |
| `platform_tree` | are caps, graph, leases and terminal states right under decomposition? | a root task with caps (3 calls, 6 tokens), one or two children or an inadmissible one, two call ids, two candidates, six counted events |
| `platform_drain` | is work ever stranded while claims can be paid for, and does the host's recovery drain the ledger once they cannot? | a root and a child, four counted events, with fairness |
| `evidence_fence` | is anything used or published that its source or its readers have outgrown? | one source, an inspection of its first version and one declared ahead for its second, versions 1..3, two agents, two calls, four counted events |
| `scoped_tree` | do a source's changes reach a whole tree, and every way to decide? | a root that inspects, one child or two (which the index refuses), two versions, five and four counted events |
| `orchestration` | can the host, with any lease and receipts in any order, make the ledger break its promises? | a task with a tool, one with three calls that allow a second attempt, a task that delegates, two tasks judged by a host task; three counted events, two claims per task |
| `runtime_restarts` | does the record replay, wherever the process was killed? | the first two workflows; one process, or two at once, one restart, seven counted events, deferrals, answers over their bounds |
| `runtime_ends` | does the loop end, and is its success real? | all three workflows, one process, failing transports and tools, both verdicts, seven counted events, with fairness |
| `sweeps` | is anything read twice, out of order, or a lease kept? | one task, two agents as workers or colonies, a tree two reads deep, three calls, five counted events |
| `decisions` | does an inspection replay, and does each rule answer what it should? | one inspection by one agent, with two versions and three counted events; enumerated inputs in parts of four, two reads deep, over masses of 1024 parts (`Whole`), which `Scale` = 4 divides to that depth |
| `runtime_bound` | is the reported success always a published workflow? | violated: see findings |
| `runtime_audit` | does the audit accept every honest run? | violated: see findings |

What the properties say, run by run:

* `session_safety`: the tables are well typed (`TypeOK`); a reservation exists only under
  the lease it was made for (`ReservationsBacked`); work with an unknown outcome is not
  offered again (`UnknownBlocksRetry`); only the newest lease of a work passes
  (`NewestLeaseFenced`); rows, artifacts, receipts and the run agree
  (`DoneMeansPublished`); the ledger implements `EffectOnce` (`EffectsAtMostOnce`).
* `platform_tree`: caps are moved, never made, and spending stays within them and the run
  (`BudgetTree`); nothing starts before what it reads (`HeldOverArtifacts`); no cycle
  (`GraphWellFounded`); one recorded reason per end (`DoneMeansDecided`), with nothing
  unknown behind it (`DoneIsSettled`).
* `platform_drain`: no lease, and no unknown call, holds a piece of work for ever, unless the
  control budget is used up (`Unstranded`); then a host that recovers drains the ledger for
  good (`DrainsAtLimit`).
* `evidence_fence`: reservations are current (`ReservationsCurrent`), fenced work with an
  unknown call waits for it (`UnknownNotOffered`), outgrown work stays closed
  (`OutdatedIsClosed`), and a publication is of the declared version and fingerprint, by an
  agent that may read it in that very transaction (`PublishedWhileCurrent`).
* `scoped_tree`: a lease that stands is usable (`HolderMayRead`), a tree is superseded as a
  whole (`TreeClosedTogether`), and nobody decides what he may not read (`DeciderMayRead`).
* `orchestration`: `ReceiptConsumedOnce`; a decision and what it says happened are one
  transaction, and a tool call is of a tool some receipt of the task asked for and costs a
  receipt of its own, however the host mixes them up (`DecisionsBacked`); `LimitsKept`; children are narrower and the join keeps
  its reserve (`DelegationBounded`); `DerivedFromReceipts`; `BudgetTree` again, under
  usage that may exceed its bound.
* `runtime_restarts`: `RecordReplays` and `OpenReceiptsFew`, the checks of the audit; no
  proposal of a tool call runs twice (`ProposalsRunOnce`). The last is a property of the
  runtime, not of the ledger, which would let a host make one request from two receipts.
* `runtime_ends`: `RunEnds`; `SuccessWhenFinished`, for a loop that ended by itself.
* `sweeps`: `ReadOnce`, `ProposedAtLeaf`, `LeavesNothing`.
* `decisions`: `InspectionReplays`: the replay passes for as long as the ledger is as it was
  saved, and what the result says (completed, stopped, cancelled) is true of the ledger even when
  the snapshot is torn or outdated and the replay refuses; `PlanOptimal`, `TreeOptimal`, `LeaseMinimal`,
  `StoppingOptimal` and `AllocationSound`, each against its reference.

Why these bounds are enough. A bad interleaving of the base ledger needs a lease, a
second one that supersedes it, and a third party (a late answer, a dependent task,
cancellation); two agents, three calls and three epochs have all of these at once.
Token counts matter only through sums compared with a cap. Six counted events are enough
to claim the root, decompose it, claim and finish a child, and claim and finish the root;
the two children form a chain, so a child is also a dependency of a child. In the evidence
run four counted events allow two updates around two claims, or three around one; a third
version exists so that both inspections can be outgrown.

In `orchestration` three events and two claims are enough for a receipt to be consumed
under a second lease after the first was lost, for a decomposition with both its
decision and its children, and for two decisions to compete for one receipt; the steps of
several tasks in a row are in the runtime's runs, where seven events let every workflow
finish, the shorter ones with a lost lease or a rejection on the way. In `sweeps` five events
are a first walk, its death or a lost lease, a second walk by another agent that reuses
the receipts, and a commit; three calls are the two depths and an abandoned attempt. In
`decisions` the exhaustive references grow with the cube of the scale and with the
policies of two reads, which is the least that has a second branch, a tie between
branches and an early stop.

`MaxEpoch`, `MaxVersion` and `MaxRestarts` are the bounds that are not limits of the
program; the others are parameters of `create`, smaller than usual (`MaxControl` is 3
where the inspection runner uses 8, so that it binds). In the platform, runtime and sweep
runs the counted events bound the claims, so `MaxEpoch` never binds there (an assumption
of `Runtime` and `Sweep` says so). The view `Relevant` of `decisions` leaves out
what nothing reads any more: the answer without a read once the read is bought, the files and
what was read of them once the snapshot is taken. Symmetry is used in safety runs only, over call ids
that have no structure, over agents with the same declaration, and over runners.

### Fairness

`platform_drain`: `Expire` and `MarkElapses` are weakly fair because time passes. Some claim of
ready work is weakly fair because workers sweep: `ready_work` lists work whose lease is over,
and the sweep claims it. Recovery is *not* fair by itself: a claim recovers first and is counted
after, so at the used-up control budget it raises and its recovery is rolled back
(`runner/session.py:152-161`, `runner/platform.py:110-120`; `tests/interaction/test_control_limits.py`).
`Unstranded` therefore ends there, and `DrainsAtLimit` assumes `HostRecovers`, that the host
itself calls `recover` again and again, which no sweep does for it. An answer to
a dispatched call is weakly fair, since the question is whether work is stranded *if tools
answer*: the code deliberately has no timeout for an unknown call (README.md, "an
unknown dispatch has no timeout release"), and without an answer the work stays
uncertain for ever. Nothing makes a worker reserve, dispatch, publish or release: a dead
one never does.

`runtime_ends`: each runner's step is weakly fair, because it is one process that runs a
loop; a provider call has a timeout (`AnthropicTransport`, 60 seconds), and a tool of the
registry is a bounded function that returns or raises. Leases need not expire,
nobody needs to cancel, and a transport may fail every time. There is no restart in that
run: a process that may be killed for ever need not end.

## 4. What is proved

TLAPS checks the theorems below for every set of agents, work, calls, sources, workflows
and answers, and for every limit. Each names the property it states.

| Module | Theorem | Property |
| --- | --- | --- |
| `SessionProofs` | `TypeCorrect`, `NoLeakedReservation`, `NoBlindRetry`, `Fencing`, `Consistency`, `BudgetKept` | `TypeOK`, `ReservationsBacked`, `UnknownBlocksRetry`, `NewestLeaseFenced`, `DoneMeansPublished` with `DependenciesFirst` and `RunMatchesWork`, `WithinBudget` |
| | `Refinement` | `EffectsAtMostOnce` |
| `PlatformProofs` | `SubtreeBudget`, `GraphStaysWellFounded`, `DecisionsAgree`, `NothingBuried`, `HeldOverPublished` | `BudgetTree`, `GraphWellFounded`, `DoneMeansDecided`, `DoneIsSettled`, `HeldOverArtifacts` |
| | `PlatformKeepsLedger`, `PlatformRefinement` | the ledger's properties and its refinement, in this layer |
| `EvidenceProofs` | `NoStaleReservation`, `UpdatesClose`, `NoRetryAfterUpdate` | `ReservationsCurrent`, `OutdatedIsClosed`, `UnknownNotOffered` |
| | `PublicationCurrent` | `PublishedWhileCurrent` (action property) |
| | `EvidenceKeepsLedger`, `EvidenceRefinement` | the ledger's properties and its refinement, in this layer |
| `ScopedProofs` | `HoldersRead`, `TreesCloseTogether`, `DecidersRead` | `HolderMayRead`, `TreeClosedTogether`, `DeciderMayRead` (action property) |
| | `ScopedKeepsTree`, `ScopedRefinement` | the tree's properties and the refinement, under updates |
| `OrchestrationProofs` | `ReceiptsOnce`, `DecisionsAreBacked`, `LimitsHold`, `DelegationStaysBounded`, `NothingFabricated` | `ReceiptConsumedOnce`, `DecisionsBacked`, `LimitsKept`, `DelegationBounded`, `DerivedFromReceipts` |
| | `OrchestrationBudget` | `BudgetTree`, in this layer |
| `SweepProofs` | `ReadsAreOnce`, `NothingLeftHeld`, `ProposalsAtLeaves` | `ReadOnce`, `LeavesNothing`, `ProposedAtLeaf` |
| | `SweepKeepsTree` | `BudgetTree` and the tree's other properties, under sweeps |
| `RuntimeProofs` | `RunsReplay`, `ReceiptsLeftFew`, `ProposalsOnce`, `SuccessIsFinished` | `RecordReplays`, `OpenReceiptsFew`, `ProposalsRunOnce`, `SuccessWhenFinished` |
| | `RuntimeImplements` | `OrchestrationSpec`: the runtime implements the ledger's own specification |
| | `RuntimeKeepsLedger` | `BudgetTree`, `ReceiptConsumedOnce`, `DecisionsBacked`, `LimitsKept`, for concurrent and resumed processes |
| `DecisionProofs` | `RecordsReplay`, `PlansOptimal` | `InspectionReplays`, `PlanOptimal` |
| | `InspectionIsEvidence` | `EvidenceSpec`: an inspection is one use of the evidence ledger |
| | `SharedMapBest`, `CheapestClaims` | the search of the planner and the scan of the queue, for any input |

Every module also has the theorem that its inductive invariant holds (`Invariance`,
`PlatformInvariance`, `EvidenceInvariance`, `ScopedInvariance`, `OrchestrationInvariance`,
`SweepInvariance`, `RuntimeInvariance`, `InspectionInvariance`).

### The argument

The layers override methods and call the base class, so their transactions are of two
kinds: those that only do to the base tables what the base class does, under more
guards, and those that move rows on their own (`decompose`, `release`, an end without an
artifact, `source_update`). The proofs follow that. `LedgerNext` is a base transaction of
any layer and `LedgerInv` what every such transaction keeps (`LedgerKept`); each layer
proves that its actions are steps of `LedgerNext` or one of its own kinds
(`PlatformSteps`, `EvidenceSteps`, `ScopedSteps`, `OrchSteps`), and deals with the latter.

* **Ledger** (`LedgerInv`, `IInv`). Besides the properties: `GrantsBounded`, no granted lease is
  newer than its row (without it a claim might hand out a second lease for an epoch);
  `OwnersLease`, a row is leased exactly when it has an owner, and was then claimed at least
  once (without it the shared publication tail could not be shown to keep the dependency
  order); `UncertainIsUnknown`, `RunMatchesWork`, `HeldOverArtifacts`, the parts of the
  published properties that a step needs separately. `ArtifactsBacked` (an artifact names a
  settled receipt of its own work) is what the refinement of `EffectOnce` rests on.
* **Tree** (`TreeInv`). `CapsConserved` and `SpendWithinCaps` are sums over the tables, and a
  step changes a sum by the term it adds, removes or raises. `decompose` moves caps and
  leaves all sums alone except those of the parent and its new children. `GraphWellFounded`
  quantifies over sets of work: a set with a new child either has a child whose
  dependencies leave the set or is a set of the old graph. `DecisionsPublished` (a recorded
  publication has its artifact) is what `DoneMeansDecided` needs so that no later end of the
  same work contradicts it.
* **Sums** (first part of `SessionProofs`). The folds recurse on the set of terms. The library's
  induction takes its predicate as an operator parameter, so an instance of well-foundedness
  is used instead: of the parts of a finite set that refute a fact, take a smallest one
  (`SmallestPart`). The equation of a sum, and what one term more or less, a disjoint union
  or larger terms do to it, follow from that.
* **Evidence** (`EvidenceInv`). An update moves the epoch of what it fences even while a call
  is unknown, so `UnknownBlocksRetry` and `DependenciesFirst` fail in this layer;
  `UnknownNotOffered` and `HeldOverArtifacts` say what is left of them, and they are enough for
  the refinement. `ReservationsCurrent` is inductive because an update abandons the
  reservations of every row it fences, in the same transaction.
* **Composition** (`ScopedInv`). `Inherits`, children have their parent's inspection or none as
  it does, is why an update outdates a tree as a whole; `RunMatchesWork` gives that
  cancelled work has no superseded parent.
* **Orchestration** (`OrchInv`). `RuledSettled`: what is ruled on is a settled call of the work,
  so a receipt of other work cannot be consumed. `ToolsFromReceipts`: a tool call was made from a receipt of its task that asks for
  the tool. `ToolsPaid`: there are at most as many tool calls of a task as receipts consumed as
  one, since each new call rules on a receipt not consumed before. Both, with `DecisionsDone`
  and `DoneMeansDecided` of the tree, give `DecisionsBacked`. No more holds of the
  ledger itself: a host may make two calls from one receipt and consume another for the second. `StepsDeclared`: distinct declared steps are at most as many as declared,
  which bounds the accepted model calls of `LimitsKept`. `ChildrenAwaited`: a parent depends on
  its children, so while one is open the parent is not leased, has nothing reserved,
  and keeps the reserve of the join (`ParentCanJoin`); children stay narrower because their
  rows never change.
* **Sweeps** (`SweepInv`). A step of a sweeper that changes the tables is a transaction of
  `Platform` (`PlatformStepInv`), so `PlatformInv` stays; the rest is about what a process
  remembers. Most of that may be stale. Two parts are not: what it saw of a call that is
  settled or abandoned, which never changes again (`SeenFinal`), and, while its lease stands,
  that every read of the work that was ever sent is behind it on the walk, among those it saw,
  or the one it waits for (`SentKnown`). The second is what `ReadOnce` needs when a read is
  dispatched, and other processes cannot disturb it: only a lease that stands dispatches,
  there is one for each epoch (`NewestLeaseFenced`), and work with an unknown outcome is not
  offered, so a new claim sees every receipt. Most steps are calm, they
  neither send nor answer a call; dispatch and answer have proofs of their own. `PathShown`
  and `AtLeaf` say that the receipts of a walk spell its history, which gives `ProposedAtLeaf`;
  `OneLease`, that an agent has at most the lease in its hand, gives `LeavesNothing`. A colony
  takes the least attempt not used yet: one exists by counting (`WithinBudget` bounds the
  calls), and a least one by well-foundedness. The disjuncts of a sweep that mention `ENABLED`
  ("the transaction raises") leave the tables alone, and the proof needs no more of them.

* **Runtime** (`RunInv`). First, a step of a runner is one of the ledger or none, and what it
  writes is one of eleven things (`RunnerSteps`, `Writes`), so `OrchInv` stays; that alone is
  the refinement. It needs that a runner passes what the ledger asks for, `Placed`: its
  lease was granted, its call has a valid key and the state its place implies. The rest has
  three parts.

  What a runner has in memory is true while its lease stands (`Current`): no call of the task
  is reserved or under way unless it is its own, the receipt it consumes is not consumed, the
  step it asks for is a new one. Others cannot disturb it: whoever writes about the same work holds a lease of
  it, and one lease stands for a work and is held by one runner (`LeasesApart`, with
  `NewestLeaseFenced`); who ends the work without a lease ends the lease with it
  (`HoldersUndisturbed`). A fresh lease finds no open call (`FreshQuiet`), because work with an
  unknown outcome is not offered and reservations are abandoned with their lease.

  What the record says (`TableFacts`). `OpenOnce`: a model call is reserved only when none of its
  task is open, and stays the only one, so at most one receipt waits. `LeftAtLimit`: an end
  without a receipt happens with none open or at the rejection limit. `FrozenRebuilt`: the calls a
  request was frozen from are over and of earlier steps, its inputs are published, and
  whatever comes later (calls, decisions, children) belongs to a later step, so `Context`
  over the rows before the call stays what was frozen. `Rederived`: the review a result was
  derived from is published and makes no more calls. `Paired`: a runner consumes the receipt it made the request from, in the
  step of that receipt, so calls and receipts of tools pair up, which is `ProposalsRunOnce`.
  `Accounted`: a call whose usage broke its
  bound stays dispatched, for the one runner that waited for it has turned back.

  What the only runner has seen (`OwnStanding`): of the work it has selected before, no lease
  stands but the one it holds. When it finds nothing to select and reports success, everything
  unpublished was selected before, is not held and not blocked; of that work, an item without
  open dependencies (`GraphWellFounded`) would be ready. `SuccessWhenFinished` follows.

* **Inspection** (`InspectionInv`). Every step is one of `Evidence` or leaves the ledger alone
  (`StepIsEvidence`), so `EvidenceInv` stays and `EvidenceSpec` is implemented. What a replay
  recomputes is in three places (the ledger, the journal of updates, the saved result), and
  others move the first two between any two steps of the process. `LedgerAt` says how much
  they can do: they expire, fence and abandon, but while nothing is claimed the item is offered
  only in its first epoch, and only the process claims, so the lease, and with it the call, is
  the one whose names the replay expects. `ReceiptFaithful`: the driver may raise after the receipt was
  stored, and the result is then made of the stored one; that is why `SaveResult` reads it
  from the snapshot, and the receipt is what was frozen because `ReadSource` compares
  fingerprints. Of the snapshot, whose tables are of different moments, the proof keeps what
  others cannot undo (`SavedFaithful`): a cancelled run stays cancelled, a settled call settled, the
  response and the artifacts do not change once the process is past them. `ResultFaithful`: the
  result is the function of the snapshot that the replay recomputes, and `ErrorQuiet`: a process
  that raised has published nothing. Where the ledger still is what was saved, the replay's
  other checks follow from the invariant of the ledger. `UpdatesReplay` is inductive by itself: an announcement is checked against the
  row that the last entry of the journal equals.
* **Planner** (`PlanBest`). With `Whole` a multiple of `Scale` cubed no division leaves anything,
  so each term is one factor times what an answer to an outcome loses, counted world by
  world (`MapLossParts`, `PlanTerms`), and the factor decides no comparison. What is left is the
  search itself (`SharedMapBest`): the least loss is a sum of two minima; a count of decisions is
  feasible exactly when some map of least loss decides so often, so the least feasible count is
  the fewest decisions; and the two greedy choices that follow never run out of actions.

`Orchestration` does not refine `EffectOnce`: `publish_derived` may publish a result from the
receipts of other work, and `ArtifactsBacked` fails there. What takes its place is
`DerivedFromReceipts`.

### Assumptions

`DeclarationAssumption` (what `create` validates), `LimitAssumption` (limits are numbers, there
are finitely many call ids), `BudgetAssumption` and `OfferAssumption` (caps fit the run; a
decomposition is a list of children), `SourceAssumption` (declared sources and inspections
are rows), `WorkflowAssumption` and `AnswerAssumption` (what the contracts validate of a
workflow and of an answer), `SweepAssumption`, `ReadAssumption` and `TreeAssumption` (the
planner's tree is complete and binary, every read has an id, the bound on epochs never binds
before the control budget), `RuntimeAssumption` (likewise for the runtime, and that no outcome is
not success) and `KeyAssumption` (the logical key of every declared step hashes to a call id,
for one attempt more than there can be claims to abandon one under). `InspectionAssumption` (one
item, one source, its declared readers are all the agents, as `run_inspection` creates them),
`ConfigAssumption` (what `_config` and the planner's records validate) and `ScaleAssumption` (a
probability of one half, and the masses after one read, are whole). TLC evaluates each of them
on the instances of section 3.

### What is only model-checked

* Liveness: `RunEnds`, `Unstranded`, `DrainsAtLimit`. The prover reasons about neither
  fairness nor `ENABLED`. Where a runner's transaction raises, the model says that it is not
  enabled; the safety proofs use only that such a step leaves the tables alone. Why a
  rejection was refused matters to `OpenReceiptsFew`, so its guard has a name (`Rejectable`).
* `TreeOptimal` and `StoppingOptimal`: the planner of trees and the stopping rule recurse over
  depth and are compared with references that enumerate policies, which is induction over
  data. `LeaseMinimal` is about a fold over a sorted sequence, for the same reason.
* `AllocationSound`: that somebody claims is `CheapestClaims`, for the scan of a queue of any
  length; what the filter of the queue keeps, and that a claim is not given up when the
  backlog grows, which compares powers of an arbitrary exponent, is left to TLC.

## 5. Findings

* `runtime_bound`, `src/runner/runtime.py:751`. `run` reports success, "every task
  published its declared artifact", although the sweep bound cut the loop while a task
  had published nothing. The default bound counts one sweep per model step, and a step
  without a tool call takes two, so a workflow of five steps reaches it without any failure.
  When the loop ends by itself, success is real: `SuccessWhenFinished` in `runtime_ends`.
* `runtime_audit`, `src/runner/runtime.py:518`. A proposal refused at the rejection limit
  ends the task by an abstention that names no receipt, and no decision is recorded for the
  receipt that was refused. The audit (`src/runner/audit.py:397-398`) takes that for a
  missing row and fails the record of an honest run. Apart from that case the last check of
  the audit holds (`OpenReceiptsFew`), and so do the others (`RecordReplays`).

## 6. Not modelled

* Tool registry, provider transport, command line, source identity: validation, I/O and
  formatting. The ledger sees an answer, an error or silence, and the models have these.
* `ProviderDriver` and `waiting_rule`'s loop: the first is `SessionDriver` with tokens, of
  the second the decision and its clock are in `Commitment`.
* `pick_by_depth`, a sort by a declared number; the sweep's choice is arbitrary.
* The cross-inhibition rule, which integrates a differential equation in floats; the
  Bernstein certificate and the garbling matrix, which are real analysis. Their results
  are not whole numbers of parts, and TLC has no others. With exact integers the float
  tolerances have nothing to absorb and are zero.
* Of a sweep: the `KeyError` of a tool the driver does not have, and an outcome callback that
  raises. The code treats both as any failure of the item, before a reserve or after an answer: the
  lease is released and nothing else is written.
* Of the audit's accounting: prompt and completion tokens of a call are compared as a sum
  (`AccountingAgrees`), since the ledger model keeps the sum.
* What makes a process die: `Die` and `Resume` stop one between any two of its transactions.
* JSON schemas, digests, names, prompt texts and the files a run writes.
* The second transaction of `CoordinationSession.create` (`src/runner/evidence.py:42`): a
  crash between the two leaves a ledger without its coordination tables, on which every
  later operation raises. Nobody else has the file before `create` returns.

## 7. Further work

* The two findings, once the code is changed: `SuccessMeansPublished` and `HonestRunPasses` then
  become invariants, the second a consequence of `OpenReceiptsFew` without its exception.
* `SuccessWhenFinished` with several processes: a lease of another one stands, and what the
  first reports then depends on what the other will do.
* A refinement of `EffectOnce` by the orchestration ledger, with a result of the host as a
  decision that starts no effect.
