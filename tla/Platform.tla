------------------------------ MODULE Platform ------------------------------
(***************************************************************************)
(* The work-tree layer: PlatformMixin of runner/platform.py composed with  *)
(* Session (class PlatformSession).  It overrides the base ledger's claim, *)
(* reserve and publish with further checks, and adds decomposition of work *)
(* into budgeted children, release and renewal of leases, no-entry marks,  *)
(* candidates, and the atomic commit that decides a task.                  *)
(*                                                                         *)
(* As in Session every method is one transaction: an overriding method is  *)
(* the base action, the checks of the override and its own writes, in one  *)
(* action.  Most methods append a journal event that is counted against    *)
(* max_platform_operations when it is written, so a method at the limit    *)
(* raises and rolls back everything it did before.                         *)
(***************************************************************************)
EXTENDS Session

CONSTANTS
  Budgets,        \* caps of the initial work, defaults filled in
  Offers,         \* decompositions a caller may ask for: [child id -> child]
  Losses,         \* losses that proposals attest and commits compare with
  MaxChildren,    \* limits["max_children"], cumulative per parent
  MaxDepth,       \* limits["max_depth"]
  MaxWorkItems,   \* limits["max_work_items"]
  MaxCandidates,  \* limits["max_candidates"], per work
  MaxOperations   \* limits["max_platform_operations"]

Caps == [calls : Nat, tokens : Nat]

Child == [dependencies : SUBSET Work, agents : (SUBSET Agent) \ {{}},
          calls : Nat, tokens : Nat]

ASSUME BudgetAssumption ==
  /\ Budgets \in [DOMAIN Declaration -> Caps]
  /\ \A w \in DOMAIN Budgets :
       Budgets[w].calls <= MaxCalls /\ Budgets[w].tokens <= TokenCap
  /\ Cardinality(DOMAIN Declaration) <= MaxWorkItems
  /\ Losses \subseteq Nat

ASSUME OfferAssumption ==
  \A kids \in Offers :
    /\ IsFiniteSet(DOMAIN kids) /\ DOMAIN kids # {} /\ DOMAIN kids \subseteq Work
    /\ kids \in [DOMAIN kids -> Child]

ASSUME CapacityAssumption ==
  {MaxChildren, MaxDepth, MaxWorkItems, MaxCandidates, MaxOperations} \subseteq Nat \ {0}

VARIABLES
  meta,        \* table platform_work_v1, by work: parent or None, depth, caps, original caps
  candidates,  \* table platform_candidates_v1, by call: proposer, loss
  held,        \* work with a no-entry mark in force
  decisions,   \* table platform_decisions_v1, by work: decision, publisher, call if published
  operations   \* counted events in the journal

platformTables == <<meta, candidates, held, decisions, operations>>
platformVars == <<vars, platformTables>>

-----------------------------------------------------------------------------
\* Helpers

\* _event: n counted events fit and are appended.
Count(n) ==
  /\ operations + n <= MaxOperations
  /\ operations' = operations + n

CallsOf(w) == {c \in DOMAIN calls : calls[c].work = w}

\* _spent, its token part; the call part is the number of rows.
SpentOn(w) == SumFunction([c \in CallsOf(w) |-> Charge(calls[c])])

\* What the children in kids are given together.
Given(kids) ==
  [calls |-> SumFunction([k \in DOMAIN kids |-> kids[k].calls]),
   tokens |-> SumFunction([k \in DOMAIN kids |-> kids[k].tokens])]

\* Mutant: what the work spent already is not set against the gift.
AffordableIgnoringSpend(w, gift) ==
  /\ gift.calls <= meta[w].caps.calls
  /\ gift.tokens <= meta[w].caps.tokens

\* A gift fits into what w has left.
Affordable(w, gift) ==
  /\ gift.calls + Cardinality(CallsOf(w)) <= meta[w].caps.calls
  /\ gift.tokens + SpentOn(w) <= meta[w].caps.tokens

Less(caps, gift) ==
  [calls |-> caps.calls - gift.calls, tokens |-> caps.tokens - gift.tokens]

\* The dependencies of all work once the children of w are admitted.
GraphWith(w, kids) ==
  [v \in DOMAIN work \cup DOMAIN kids |->
     IF v \in DOMAIN kids THEN kids[v].dependencies
     ELSE IF v = w THEN work[w].dependencies \cup DOMAIN kids
     ELSE work[v].dependencies]

\* Every non-empty part of the graph has a leaf: elimination ends.
Acyclic(graph) ==
  \A S \in (SUBSET DOMAIN graph) \ {{}} : \E v \in S : graph[v] \cap S = {}

\* Mutant: only loops are looked for.
AdmissibleUnlessLoop(graph) ==
  \A v \in DOMAIN graph : graph[v] \subseteq DOMAIN graph \ {v}

\* Known dependencies, no cycle.
Admissible(graph) ==
  /\ \A v \in DOMAIN graph : graph[v] \subseteq DOMAIN graph
  /\ Acyclic(graph)

\* Candidates of w.
Contested(w) == {c \in DOMAIN candidates : calls[c].work = w}

\* No dispatch of w is unresolved.
Settled(w) == ~Unknown(w)

\* ready_work: an expired lease is projected, not recovered.
ReadyWork(a) ==
  {w \in DOMAIN work :
     /\ run.status = "running" /\ run.enabled
     /\ work[w].status = "ready" \/ (work[w].status = "leased" /\ work[w].lapsed)
     /\ a \in work[w].agents
     /\ Settled(w)
     /\ work[w].dependencies \subseteq DOMAIN artifacts
     /\ w \notin held}

-----------------------------------------------------------------------------
\* Overrides of the base ledger

PlatformInitOf(declaration, budgets) ==
  /\ InitOf(declaration)
  /\ meta = [w \in DOMAIN declaration |->
               [parent |-> None, depth |-> 0, caps |-> budgets[w], original |-> budgets[w]]]
  /\ candidates = [c \in {} |-> None]
  /\ held = {}
  /\ decisions = [w \in {} |-> None]
  /\ operations = 0

PlatformInit == PlatformInitOf(Declaration, Budgets)

Claims(a, w) ==
  /\ run.status = "running" /\ run.enabled
  /\ Claimable(a, w, RecoveredWork) /\ Settled(w) /\ w \notin held

\* _claim_ready over _available: the mark of w is honoured.
ClaimAvailable(a, w) ==
  /\ Claim(a, w)
  /\ Settled(w)
  /\ w \notin held
  /\ Count(1)
  /\ UNCHANGED <<meta, candidates, held, decisions>>

\* reserve with _reservation_capacity.
ReserveCapped(l, c, prompt, maximum) ==
  /\ Reserve(l, c, prompt, maximum)
  /\ Settled(l.work)
  /\ Affordable(l.work, [calls |-> 1, tokens |-> prompt + maximum])
  /\ UNCHANGED platformTables

\* Mutant: the dispatches of the work are not looked at.
PublishUnchecked(l, c) ==
  /\ Publish(l, c)
  /\ UNCHANGED platformTables

\* publish and publish_received over _publish and _claim_received_ready, which
\* ignores marks.
PublishSettled(l, c) ==
  /\ Publish(l, c)
  /\ Settled(l.work)
  /\ UNCHANGED platformTables

PublishReceivedSettled(a, c) ==
  /\ \/ PublishHeld(a, c) /\ Count(0)
     \/ PublishReclaimed(a, c) /\ Count(1)
  /\ UNCHANGED <<meta, candidates, held, decisions>>

\* Mutant: an expiry is counted, so it needs room in the journal.
RecoverCounted ==
  /\ Recover
  /\ Count(1)
  /\ UNCHANGED <<meta, candidates, held, decisions>>

\* recover, whose lease_expired events are not counted.
RecoverFreely == Recover /\ UNCHANGED platformTables

-----------------------------------------------------------------------------
\* Methods of its own

Decompose(l, kids) ==
  LET w == l.work
      gift == Given(kids)
      graph == GraphWith(w, kids)
  IN
  /\ Holds(l)
  /\ \A c \in CallsOf(w) : calls[c].state \notin Unsettled
  /\ Cardinality({v \in DOMAIN meta : meta[v].parent = w}) + Cardinality(DOMAIN kids) <= MaxChildren
  /\ meta[w].depth + 1 <= MaxDepth
  /\ Cardinality(DOMAIN work) + Cardinality(DOMAIN kids) <= MaxWorkItems
  /\ DOMAIN kids \cap DOMAIN work = {}
  /\ \A k \in DOMAIN kids : kids[k].agents \subseteq work[w].agents
  /\ Affordable(w, gift)
  /\ Admissible(graph)
  /\ work' = [v \in DOMAIN graph |->
       IF v \in DOMAIN kids
       THEN [status |-> "ready", owner |-> None, epoch |-> 0, lapsed |-> FALSE,
             generation |-> run.generation,
             dependencies |-> kids[v].dependencies, agents |-> kids[v].agents]
       ELSE IF v = w THEN [Free(work[w], "ready") EXCEPT !.dependencies = graph[w]]
       ELSE work[v]]
  /\ meta' = [v \in DOMAIN graph |->
       IF v \in DOMAIN kids
       THEN LET caps == [calls |-> kids[v].calls, tokens |-> kids[v].tokens]
            IN [parent |-> w, depth |-> meta[w].depth + 1, caps |-> caps, original |-> caps]
       ELSE IF v = w THEN [meta[w] EXCEPT !.caps = Less(@, gift)]
       ELSE meta[v]]
  /\ Count(1)
  /\ UNCHANGED <<run, calls, artifacts, granted, candidates, held, decisions>>

\* release is not counted: it works at the limit.
Release(l) ==
  /\ Holds(l)
  /\ calls' = Abandon({l.work})
  /\ work' = [work EXCEPT ![l.work] =
       Free(@, IF Settled(l.work) THEN "ready" ELSE "uncertain")]
  /\ UNCHANGED <<run, artifacts, granted, platformTables>>

\* renew puts expires off: the counted event is all there is to see of it, and of one
\* that leaves expires where it was, which writes no event, nothing at all.
Renew(l) ==
  /\ Holds(l)
  /\ Count(1)
  /\ UNCHANGED <<vars, meta, candidates, held, decisions>>

\* mark_no_entry until a time to come (ahead) or one already past.
MarkNoEntry(w, ahead) ==
  /\ run.enabled
  /\ work[w].status \notin {"done", "cancelled"}
  /\ held' = IF ahead THEN held \cup {w} ELSE held \ {w}
  /\ Count(1)
  /\ UNCHANGED <<vars, meta, candidates, decisions>>

\* Time passes the until column of a mark.
MarkElapses(w) ==
  /\ w \in held
  /\ held' = held \ {w}
  /\ UNCHANGED <<vars, meta, candidates, decisions, operations>>

Propose(l, c, loss) ==
  /\ Holds(l)
  /\ c \in CallsOf(l.work)
  /\ calls[c].state = "received"
  /\ c \notin DOMAIN candidates
  /\ Cardinality(Contested(l.work)) < MaxCandidates
  /\ candidates' = Put(candidates, c, [proposer |-> l.owner, loss |-> loss])
  /\ Count(1)
  /\ UNCHANGED <<vars, meta, held, decisions>>

\* _abstain's tail, on the rows an earlier part of the transaction left.
Terminate(rows, w, a, freed) ==
  /\ Settled(w)
  /\ calls' = Abandon(freed \cup {w})
  /\ work' = [rows EXCEPT ![w] = Free(@, "done")]
  /\ run' = IF LastOpen(rows, w) THEN [run EXCEPT !.status = "completed"] ELSE run
  /\ decisions' = Put(decisions, w, [decision |-> "abstain", publisher |-> a])
  /\ UNCHANGED <<artifacts, granted, meta, candidates, held>>

Abstain(l) ==
  /\ Holds(l)
  /\ Terminate(work, l.work, l.owner, {})
  /\ Count(1)

\* commit up to its rule.  The rule is any pure function of the candidates; p is
\* the caller's agent or the proposer the code puts in its place.
Undecided(w, p) ==
  /\ run.enabled
  /\ w \notin DOMAIN decisions
  /\ Contested(w) # {}
  /\ p \in work[w].agents

CommitWaits(w, p) ==
  /\ Undecided(w, p)
  /\ Count(1)
  /\ UNCHANGED <<vars, meta, candidates, held, decisions>>

\* Mutant: any artifact of the work will do.
PublishedAtAll(w, c) == w \in DOMAIN artifacts

PublishedFrom(w, c) == w \in DOMAIN artifacts /\ artifacts[w].call = c

\* The rule chose c, whose loss is below the abstention loss.  The artifact may
\* have been published from c already, without a decision.
CommitPublishes(p, c, abstainLoss) ==
  LET w == calls[c].work IN
  /\ c \in DOMAIN candidates
  /\ Undecided(w, p)
  /\ candidates[c].loss < abstainLoss
  /\ \/ /\ PublishedFrom(w, c)
        /\ UNCHANGED vars
        /\ Count(1)
     \/ PublishHeld(p, c) /\ Count(1)
     \/ PublishReclaimed(p, c) /\ Count(2)
  /\ decisions' = Put(decisions, w, [decision |-> "publish", call |-> c, publisher |-> p])
  /\ UNCHANGED <<meta, candidates, held>>

\* The rule chose nothing.
CommitAbstains(w, p) ==
  /\ Undecided(w, p)
  /\ run.status = "running"
  /\ \/ /\ RecoveredWork[w].status = "leased" /\ RecoveredWork[w].owner = p
        /\ Terminate(RecoveredWork, w, p, Expired)
        /\ Count(1)
     \/ /\ Claimable(p, w, RecoveredWork)
        /\ Terminate([RecoveredWork EXCEPT ![w] = Leased(@, p)], w, p, Expired)
        /\ Count(2)

PlatformNext ==
  \/ \E w \in DOMAIN work : Expire(w) /\ UNCHANGED platformTables
  \/ RecoverFreely
  \/ \E a \in Agent, w \in DOMAIN work : ClaimAvailable(a, w)
  \/ \E l \in granted, c \in CallId, p \in Tokens, m \in Tokens : ReserveCapped(l, c, p, m)
  \/ \E l \in granted, c \in DOMAIN calls : Dispatch(l, c) /\ UNCHANGED platformTables
  \/ \E c \in DOMAIN calls, p \in Tokens, q \in Tokens, o \in BOOLEAN :
       Receive(c, p, q, o) /\ UNCHANGED platformTables
  \/ \E l \in granted, c \in DOMAIN calls : PublishSettled(l, c)
  \/ \E a \in Agent, c \in DOMAIN calls : PublishReceivedSettled(a, c)
  \/ Cancel /\ UNCHANGED platformTables
  \/ \E l \in granted, kids \in Offers : Decompose(l, kids)
  \/ \E l \in granted : Release(l) \/ Renew(l) \/ Abstain(l)
  \/ \E w \in DOMAIN work, ahead \in BOOLEAN : MarkNoEntry(w, ahead)
  \/ \E w \in held : MarkElapses(w)
  \/ \E l \in granted, c \in DOMAIN calls, loss \in Losses : Propose(l, c, loss)
  \/ \E w \in DOMAIN work, p \in Agent : CommitWaits(w, p) \/ CommitAbstains(w, p)
  \/ \E p \in Agent, c \in DOMAIN calls, loss \in Losses : CommitPublishes(p, c, loss)

PlatformSpec == PlatformInit /\ [][PlatformNext]_platformVars

\* Time passes, every tool that was started answers in the end, and while ready_work
\* lists something some sweep goes on to claim (a policy that always waits is no sweep).
\* Nothing makes a process use its lease, an answer may come after any expiry, and
\* nobody has to call recover(): only a host does, and a claim at the used-up budget
\* raises in _event and takes its own recovery back.
PlatformFairness ==
  /\ \A w \in Work : WF_platformVars(w \in DOMAIN work /\ Expire(w) /\ UNCHANGED platformTables)
  /\ \A w \in Work : WF_platformVars(MarkElapses(w))
  /\ \A c \in CallId : WF_platformVars(Answer(c) /\ UNCHANGED platformTables)
  /\ WF_platformVars(\E a \in Agent, w \in DOMAIN work : ClaimAvailable(a, w))

FairPlatformSpec == PlatformSpec /\ PlatformFairness

-----------------------------------------------------------------------------
\* Properties

\* Caps are moved down the tree, never made: what a work still has and what it
\* gave its children add up to what it was given, through every decomposition.
CapsConserved ==
  \A w \in DOMAIN meta :
    LET kids == {v \in DOMAIN meta : meta[v].parent = w} IN
    /\ meta[w].caps.calls + SumFunction([v \in kids |-> meta[v].original.calls])
         = meta[w].original.calls
    /\ meta[w].caps.tokens + SumFunction([v \in kids |-> meta[v].original.tokens])
         = meta[w].original.tokens

\* A work never spends more than it has left, whatever it gave away in between:
\* with CapsConserved, a subtree never spends more than its root was given.
SpendWithinCaps ==
  \A w \in DOMAIN work :
    /\ Cardinality(CallsOf(w)) <= meta[w].caps.calls
    /\ SpentOn(w) <= meta[w].caps.tokens

\* However deep the tree, and whenever it was cut: a subtree never spends more, in
\* calls or in tokens, than its root was given, nor the run more than its limits.
BudgetTree == CapsConserved /\ SpendWithinCaps /\ WithinBudget

\* Work is terminal for one reason: it has an artifact, or an abstention was
\* recorded.  A recorded publication names the receipt behind the artifact.
DoneMeansDecided ==
  \A w \in DOMAIN work :
    /\ work[w].status = "done" <=>
         \/ w \in DOMAIN artifacts
         \/ w \in DOMAIN decisions /\ decisions[w].decision = "abstain"
    /\ w \in DOMAIN artifacts /\ w \in DOMAIN decisions =>
         /\ decisions[w].decision = "publish"
         /\ decisions[w].call = artifacts[w].call

\* Terminal work has no call whose outcome is open: neither publication nor
\* abstention buries an effect nobody will look at again.
DoneIsSettled ==
  \A c \in DOMAIN calls :
    work[calls[c].work].status = "done" => calls[c].state \notin Unsettled

\* However often work is decomposed, its dependencies stay declared and acyclic,
\* so some open work is always free of open dependencies.
GraphWellFounded ==
  LET graph == [w \in DOMAIN work |-> work[w].dependencies] IN
  /\ \A w \in DOMAIN graph : graph[w] \subseteq DOMAIN graph
  /\ Acyclic(graph)

\* The lease of epoch e stands in the way of a new one: it is held, or an answer is
\* awaited.
Stands(w, e) ==
  /\ w \in DOMAIN work
  /\ work[w].status \in {"leased", "uncertain"}
  /\ work[w].epoch = e

\* A lease whose holder died and a call whose answer is late never strand work: no
\* lease stands for ever, it ends or the next sweep supersedes it.  With the control
\* budget used up no claim gets through any more, and this promise ends.
Unstranded ==
  \A w \in Work, e \in 1 .. MaxEpoch :
    Stands(w, e) ~> ~Stands(w, e) \/ operations = MaxOperations

\* The host's part at the used-up budget: it calls recover() again and again.  No
\* sweep does this for it.
HostRecovers == WF_platformVars(RecoverFreely)

\* Once the operation budget is used up, a host that recovers drains the ledger for
\* good: leases end, reservations are given back, late answers settle
\* (docs/invariants.md, L-15; in test_control_limits.py a reclaim loop "stops and
\* explicit recovery remains available").
DrainsAtLimit ==
  HostRecovers =>
    (operations = MaxOperations ~>
       [](/\ \A w \in DOMAIN work : work[w].status \notin {"leased", "uncertain"}
          /\ \A c \in DOMAIN calls : calls[c].state \notin Unsettled))
=============================================================================
