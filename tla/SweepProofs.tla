----------------------------- MODULE SweepProofs -----------------------------
(***************************************************************************)
(* Theorems about Colonies: any number of workers and colonies over one    *)
(* ledger, for any tree of reads and any limits.                           *)
(*                                                                         *)
(* To the ledger a sweeper is one of its callers, so PlatformInv holds.    *)
(* What it read may be stale when it acts, and the argument says which     *)
(* part of it cannot be: settled and abandoned calls never change again    *)
(* (SeenFinal), and while its lease stands nobody else starts or settles a *)
(* call of the work (SentKnown).  A read is dispatched only under a lease  *)
(* that stands.                                                            *)
(***************************************************************************)
EXTENDS Colonies, PlatformProofs

\* Where a process has a lease in hand, where it knows what was sent, and where it buys.
Working == {"read", "look", "walk", "renew", "reserve", "dispatch", "tool", "decide",
            "propose", "commit", "abstain", "release", "failed"}
Buying == {"renew", "reserve", "dispatch"}
Knowing == Buying \cup {"look", "walk", "tool"}

Place == Working \cup {"idle", "choose", "claim", "mark", "dead"}

Final == {"received", "response_rejected", "abandoned"}

Memory ==
  [at : Place, by : {"worker", "colony", None}, visited : SUBSET Work, limit : Nat,
   task : Work \cup {None}, lease : Lease \cup {None}, left : Int, buys : BOOLEAN,
   seen : UNION {[C -> CallState] : C \in SUBSET CallId}, path : Seq(Outcomes), bought : Nat,
   call : CallId \cup {None}, waited : BOOLEAN]

-----------------------------------------------------------------------------
\* What holds of the memory s of the process of a

\* The lease in hand is the one lease of the agent that may stand.
OneLease(a, s) ==
  /\ s.at \in Working => s.lease \in granted /\ s.lease.owner = a /\ s.lease.work = s.task
  /\ s.at # "dead" => \A l \in granted : l.owner = a /\ Holds(l) => s.at \in Working /\ l = s.lease

\* What the record says of the kind of process and of the read it is at.
ReadNamed(s) ==
  /\ s.at \notin {"idle", "dead"} => s.by \in {"worker", "colony"}
  /\ s.at = "claim" => s.task \in DOMAIN work
  /\ s.at = "walk" => s.by = "colony"
  /\ s.at \in {"choose", "claim", "read", "look"} \/ s.by = "worker" => s.path = <<>>
  /\ s.at \in Buying \cup {"tool"} =>
       /\ s.call \in CallId /\ s.call.by = s.by /\ s.call.work = s.task
       /\ s.by = "colony" => s.call.n = Len(s.path)
  /\ s.at = "walk" /\ s.path # <<>> =>
       /\ s.call \in CallId /\ s.call.by = "colony" /\ s.call.work = s.task
       /\ s.call.n = Len(s.path) - 1
  /\ s.at = "decide" => s.call \in CallId /\ s.call.by = "worker"

\* The read it waits for is out under its lease.
ReadOut(s) ==
  s.at = "tool" =>
    /\ s.call \in DOMAIN calls
    /\ calls[s.call].state = "dispatched"
    /\ calls[s.call].epoch = s.lease.epoch

\* What it read of a call stays true.
SeenFinal(s) ==
  s.at \in Knowing =>
    \A c \in DOMAIN s.seen :
      c \in CallsOf(s.task) /\ s.seen[c] \in Final /\ calls[c].state = s.seen[c]

\* The receipts of w at its first depths show the history h.
Spells(w, h) ==
  \A k \in 1 .. Len(h) :
    \E d \in CallsOf(w) : /\ d.by = "colony" /\ d.n = k - 1
                          /\ calls[d].state = "received"
                          /\ shown[d] = h[k]

PathShown(s) == s.at \in Knowing => Spells(s.task, s.path)

\* The receipts of the work of c show a complete history that ends in a decision at c.
AtLeaf(c) ==
  \E h \in DOMAIN Leaves :
    /\ Leaves[h] \in {"accept", "reject"}
    /\ Len(h) = c.n + 1
    /\ Spells(c.work, h)

ProposesAtLeaf(s) ==
  s.at = "propose" => s.call \in CallId /\ (s.call.by = "colony" => AtLeaf(s.call))

\* A receipt the walk has behind it.
Passed(s, c) == c.by = "colony" /\ calls[c].state = "received" /\ c.n < Len(s.path)

\* While the lease stands, every read of the work that was sent is known to the process.
SentKnown(s) ==
  s.at \in Knowing /\ Holds(s.lease) =>
    \A c \in Sent(s.task) :
      \/ Passed(s, c)
      \/ s.at \in {"look", "walk"} /\ c \in DOMAIN s.seen
      \/ s.at = "tool" /\ c = s.call

Mind(a, s) ==
  /\ s \in Memory
  /\ OneLease(a, s)
  /\ ReadNamed(s)
  /\ ReadOut(s)
  /\ SeenFinal(s)
  /\ PathShown(s)
  /\ ProposesAtLeaf(s)
  /\ SentKnown(s)

-----------------------------------------------------------------------------
SweepTypeOK ==
  /\ DOMAIN sweeper = Agent
  /\ \A c \in DOMAIN shown : shown[c] \in Outcomes
  /\ \A c \in DOMAIN calls :
       /\ calls[c].work = c.work
       /\ c.by = "colony" /\ calls[c].state = "received" => c \in DOMAIN shown
  /\ \A l \in granted : l.epoch \in 1 .. MaxEpoch

CandidatesAtLeaf ==
  \A c \in DOMAIN candidates : c \in DOMAIN calls /\ (c.by = "colony" => AtLeaf(c))

SweepInv ==
  /\ PlatformInv
  /\ SweepTypeOK
  /\ \A a \in Agent : Mind(a, sweeper[a])
  /\ CandidatesAtLeaf
  /\ ReadOnce

-----------------------------------------------------------------------------
\* Leases

\* Steps of the ledger below a sweep.
TreeChange == OwnTreeStep \/ (\E l \in granted : Release(l)) \/ Terminated

\* A lease that stands after a step stood before it.
LEMMA LeaseNotRegained ==
  ASSUME TypeOK, GrantsBounded, TreeChange, NEW l \in granted, Holds(l)'
  PROVE  Holds(l)
BY StandsStill DEF TreeChange, BaseStep, OwnTreeStep

\* Leases are never taken back from the record.
LEMMA GrantedGrows ==
  ASSUME TreeChange
  PROVE  granted \subseteq granted'
BY GrantsGrow DEF TreeChange, BaseStep, OwnTreeStep

\* Calls are never forgotten, and move through their states in order.
LEMMA ChangeKeepsCalls ==
  ASSUME PlatformInv, TreeChange
  PROVE  CallsKept /\ DOMAIN work' = DOMAIN work
<1>1. LedgerInv /\ TreeInv
  BY DEF PlatformInv, TreeInv
<1>2. CASE OwnTreeStep
  BY <1>1, <1>2, StepKeeps DEF OwnTreeStep, TreeStep, RowsKept
<1>3. CASE \E l \in granted : Release(l)
  BY <1>1, <1>3, ReleaseKeeps DEF RowsKept
<1>4. CASE Terminated
  <2>1. PICK w \in DOMAIN work, a \in Agent :
          \E rows, freed : EndsFrom(rows, w, a, freed) /\ Terminate(rows, w, a, freed)
    BY <1>4 DEF Terminated
  <2>. QED
    BY <1>1, <2>1, EndKeeps DEF Terminate, Ended, RowsKept
<1>. QED
  BY <1>2, <1>3, <1>4 DEF TreeChange

-----------------------------------------------------------------------------
\* What a step of others leaves of the memory of a process

\* A receipt is shown as it was.
ShownKept ==
  \A c \in DOMAIN calls : c.by = "colony" /\ calls[c].state = "received" => shown'[c] = shown[c]

\* Nothing was sent for w, and no answer came.
SameSent(w) ==
  Sent(w)' = Sent(w) /\ \A c \in Sent(w) : calls'[c].state = calls[c].state

\* Receipts go on showing what they showed.
LEMMA SpellsKept ==
  ASSUME CallsKept, ShownKept, NEW w, NEW h, Spells(w, h)
  PROVE  Spells(w, h)'
<1>1. SUFFICES ASSUME NEW k \in 1 .. Len(h)
               PROVE  \E d \in CallsOf(w)' : /\ d.by = "colony" /\ d.n = k - 1
                                             /\ calls'[d].state = "received"
                                             /\ shown'[d] = h[k]
  BY DEF Spells
<1>2. PICK d \in CallsOf(w) : /\ d.by = "colony" /\ d.n = k - 1
                              /\ calls[d].state = "received"
                              /\ shown[d] = h[k]
  BY DEF Spells
<1>3. d \in CallsOf(w)' /\ calls'[d].state = "received" /\ shown'[d] = shown[d]
  BY <1>2 DEF CallsOf, CallsKept, ShownKept, Unsettled
<1>. QED
  BY <1>2, <1>3

\* A leaf once reached stays reached.
LEMMA LeafKept ==
  ASSUME CallsKept, ShownKept, NEW c, AtLeaf(c)
  PROVE  AtLeaf(c)'
BY SpellsKept DEF AtLeaf

\* Settled and abandoned calls never change again.
LEMMA SeenKept ==
  ASSUME CallsKept, NEW s, SeenFinal(s)
  PROVE  SeenFinal(s)'
BY DEF SeenFinal, CallsKept, CallsOf, Final, Unsettled

\* A step that settles nothing the process waits for and sends nothing for the work it
\* holds leaves its memory right.
LEMMA MindKept ==
  ASSUME PlatformInv, TreeChange, ShownKept, NEW a \in Agent, NEW s, Mind(a, s),
         \A l \in granted' \ granted : l.owner # a,
         s.at = "tool" => calls'[s.call].state = "dispatched",
         s.at \in Knowing /\ Holds(s.lease) => SameSent(s.task)
  PROVE  Mind(a, s)'
<1>1. TypeOK /\ GrantsBounded
  BY DEF PlatformInv, TreeInv, LedgerInv
<1>2. CallsKept /\ DOMAIN work' = DOMAIN work /\ granted \subseteq granted'
  BY ChangeKeepsCalls, GrantedGrows
<1>3. \A l \in granted : Holds(l)' => Holds(l)
  BY <1>1, LeaseNotRegained
<1>4. OneLease(a, s)'
  BY <1>2, <1>3 DEF Mind, OneLease
<1>5. ReadNamed(s)' /\ (s \in Memory)'
  BY <1>2 DEF Mind, ReadNamed
<1>6. ReadOut(s)'
  BY <1>2 DEF Mind, ReadOut, CallsKept
<1>7. SeenFinal(s)' /\ PathShown(s)' /\ ProposesAtLeaf(s)'
  BY <1>2, SeenKept, SpellsKept, LeafKept DEF Mind, PathShown, ProposesAtLeaf
<1>8. SentKnown(s)'
  <2>1. SUFFICES ASSUME s.at \in Knowing, Holds(s.lease)', NEW c \in Sent(s.task)'
                 PROVE  \/ Passed(s, c)'
                        \/ s.at \in {"look", "walk"} /\ c \in DOMAIN s.seen
                        \/ s.at = "tool" /\ c = s.call
    BY DEF SentKnown
  <2>2. s.lease \in granted
    BY <2>1 DEF Mind, OneLease, Knowing, Buying, Working
  <2>3. Holds(s.lease)
    BY <1>3, <2>1, <2>2
  <2>4. c \in Sent(s.task) /\ calls'[c].state = calls[c].state
    BY <2>1, <2>3 DEF SameSent
  <2>. QED
    BY <2>1, <2>3, <2>4 DEF Mind, SentKnown, Passed
<1>. QED
  BY <1>4, <1>5, <1>6, <1>7, <1>8 DEF Mind

-----------------------------------------------------------------------------
\* The transactions of a sweep

\* Nothing is sent and no answer comes, of any work.
Calm == TreeChange /\ (\A w : SameSent(w))

\* Giving up reservations sends nothing.
LEMMA CalmCalls ==
  ASSUME TypeOK, NEW W, calls' = Abandon(W) \/ UNCHANGED calls
  PROVE  \A w : SameSent(w)
<1>1. DOMAIN calls' = DOMAIN calls
      /\ \A c \in DOMAIN calls :
           /\ calls'[c].work = calls[c].work
           /\ \/ calls'[c].state = calls[c].state
              \/ calls[c].state = "reserved" /\ calls'[c].state = "abandoned"
  BY AbandonedCalls
<1>. QED
  BY <1>1 DEF SameSent, Sent, CallsOf

\* Transactions that write none of the tables of the base ledger.
LEMMA CalmNothing ==
  ASSUME TypeOK, UNCHANGED <<vars, meta, decisions>>
  PROVE  Calm
BY PlainTreeStep, CalmCalls DEF Calm, TreeChange, vars

\* recover.
LEMMA CalmRecover == ASSUME TypeOK, RecoverFreely PROVE Calm /\ UNCHANGED <<granted, candidates>>
<1>1. Recover /\ UNCHANGED platformTables
  BY DEF RecoverFreely
<1>2. OwnTreeStep
  BY <1>1, PlainTreeStep, AbandonedCalls DEF Recover, LedgerNext, platformTables
<1>. QED
  BY <1>1, <1>2, CalmCalls DEF Calm, TreeChange, Recover, platformTables

\* claim, which grants one lease.
LEMMA CalmClaim ==
  ASSUME TypeOK, NEW a \in Agent, NEW w \in DOMAIN work, ClaimAvailable(a, w)
  PROVE  /\ Calm /\ UNCHANGED candidates
         /\ granted' = granted \cup {[work |-> w, owner |-> a, epoch |-> work[w].epoch + 1]}
         /\ work[w].epoch < MaxEpoch
<1>1. OwnTreeStep
  BY PlainTreeStep, AbandonedCalls DEF ClaimAvailable, Claim, LedgerNext
<1>2. Claimable(a, w, RecoveredWork)
  BY DEF ClaimAvailable, Claim
<1>3. work[w].epoch < MaxEpoch
  BY <1>2, RecoveredRows DEF Claimable
<1>. QED
  BY <1>1, <1>3, CalmCalls DEF Calm, TreeChange, ClaimAvailable, Claim

\* reserve, which adds one call.
LEMMA CalmReserve ==
  ASSUME TypeOK, NEW l \in granted, NEW c \in CallId, ReserveCapped(l, c, 0, 0)
  PROVE  /\ Calm /\ UNCHANGED <<granted, candidates, work, run>>
         /\ Holds(l)
         /\ DOMAIN calls' = DOMAIN calls \cup {c}
         /\ c \notin DOMAIN calls
         /\ calls'[c].work = l.work /\ calls'[c].state = "reserved"
         /\ \A d \in DOMAIN calls : calls'[d] = calls[d]
<1>1. /\ Reserve(l, c, 0, 0)
      /\ Affordable(l.work, [calls |-> 1, tokens |-> 0])
      /\ UNCHANGED <<meta, decisions, candidates>>
  BY DEF ReserveCapped, platformTables
<1>2. LedgerNext /\ UNCHANGED artifacts
  BY <1>1 DEF LedgerNext, Reserve
<1>3. OwnTreeStep
  BY <1>1, <1>2, OldReceipts DEF OwnTreeStep, TreeStep, Fresh
<1>4. /\ c \notin DOMAIN calls /\ DOMAIN calls' = DOMAIN calls \cup {c}
      /\ calls'[c].work = l.work /\ calls'[c].state = "reserved"
      /\ \A d \in DOMAIN calls : calls'[d] = calls[d]
      /\ Holds(l) /\ UNCHANGED <<run, work, granted>>
  BY <1>1, ReservedRow
<1>5. \A w : SameSent(w)
  BY <1>4 DEF SameSent, Sent, CallsOf
<1>. QED
  BY <1>1, <1>3, <1>4, <1>5 DEF Calm, TreeChange

\* release, after which the lease stands no more.
LEMMA CalmRelease ==
  ASSUME TypeOK, NEW l \in granted, Release(l)
  PROVE  Calm /\ UNCHANGED <<granted, candidates>> /\ ~(Holds(l)')
<1>1. ~(Holds(l)')
  BY ReleasedRows DEF Holds
<1>2. calls' = Abandon({l.work}) /\ UNCHANGED <<granted, candidates>>
  BY DEF Release, platformTables
<1>. QED
  BY <1>1, <1>2, CalmCalls DEF Calm, TreeChange

\* What ends work leaves no lease of it.
LEMMA CalmEnd ==
  ASSUME TypeOK, NEW w \in DOMAIN work, NEW rows, NEW freed,
         Ended(rows, w, freed), TreeChange
  PROVE  Calm
BY CalmCalls DEF Calm, Ended

\* abstain decides the work.
LEMMA CalmAbstain ==
  ASSUME TypeOK, NEW l \in granted, Abstain(l)
  PROVE  Calm /\ UNCHANGED <<granted, candidates>> /\ l.work \in DOMAIN decisions'
<1>1. Terminated /\ l.work \in DOMAIN work
  BY AbstainTerminates DEF Abstain, Holds
<1>2. Ended(work, l.work, {}) /\ UNCHANGED <<granted, candidates>> /\ l.work \in DOMAIN decisions'
  BY DEF Abstain, Terminate, Ended, Put
<1>. QED
  BY <1>1, <1>2, CalmEnd DEF TreeChange

\* commit when its rule chose nothing decides it too,
LEMMA CalmCommit ==
  ASSUME TypeOK, NEW p \in Agent,
         NEW w \in DOMAIN work, CommitAbstains(w, p)
  PROVE  Calm /\ UNCHANGED <<granted, candidates>> /\ w \in DOMAIN decisions'
<1>1. TreeChange
  BY CommitTerminates DEF TreeChange
<1>2. /\ \E rows : Ended(rows, w, Expired)
      /\ UNCHANGED <<granted, candidates>> /\ w \in DOMAIN decisions'
  BY DEF CommitAbstains, Terminate, Ended, Put
<1>. QED
  BY <1>1, <1>2, CalmEnd

\* and so it does when it publishes.
LEMMA CalmPublish ==
  ASSUME TypeOK, NEW p \in Agent, NEW c \in DOMAIN calls, NEW loss, CommitPublishes(p, c, loss)
  PROVE  Calm /\ UNCHANGED <<granted, candidates>> /\ calls[c].work \in DOMAIN decisions'
<1>1. TreeChange
  BY CommitTreeStep DEF TreeChange
<1>2. UNCHANGED <<granted, candidates>> /\ calls[c].work \in DOMAIN decisions'
  BY DEF CommitPublishes, PublishHeld, PublishReclaimed, RecordArtifact, vars, Put
<1>3. calls' = Abandon(Expired \cup {calls[c].work}) \/ UNCHANGED calls
  BY DEF CommitPublishes, PublishHeld, PublishReclaimed, RecordArtifact, vars
<1>. QED
  BY <1>1, <1>2, <1>3, CalmCalls DEF Calm

\* What is decided is held by nobody.
LEMMA DecidedIsFree ==
  ASSUME PlatformInv, NEW l, l.work \in DOMAIN decisions
  PROVE  ~Holds(l)
BY DEF PlatformInv, TreeInv, PlatformTypeOK, DecisionsPublished, DoneMeansDecided, Holds

-----------------------------------------------------------------------------
\* Records

\* A memory that only moves on.
LEMMA MovedRecord ==
  ASSUME NEW s \in Memory, NEW p \in Place
  PROVE  LET t == [s EXCEPT !.at = p] IN
         /\ t \in Memory /\ t.at = p
         /\ t.by = s.by /\ t.task = s.task /\ t.lease = s.lease /\ t.seen = s.seen
         /\ t.path = s.path /\ t.call = s.call
BY DEF Memory

\* Nothing in memory.
LEMMA BetweenRecord ==
  /\ Between \in Memory /\ Between.at = "idle" /\ Between.by = None /\ Between.path = <<>>
  /\ [c \in {} |-> None] \in UNION {[C -> CallState] : C \in SUBSET CallId}
<1>1. [c \in {} |-> None] \in UNION {[C -> CallState] : C \in SUBSET CallId}
  <2>1. [c \in {} |-> None] \in [{} -> CallState]
    OBVIOUS
  <2>. QED
    BY <2>1
<1>2. <<>> \in Seq(Outcomes)
  OBVIOUS
<1>3. /\ Between.at = "idle" /\ Between.by = None /\ Between.path = <<>>
      /\ Between.visited = {} /\ Between.limit = 0 /\ Between.task = None
      /\ Between.lease = None /\ Between.left = 0 /\ Between.buys = TRUE
      /\ Between.seen = [c \in {} |-> None] /\ Between.bought = 0 /\ Between.call = None
      /\ Between.waited = FALSE
  BY DEF Between
<1>4. Between \in Memory
  <2>. DEFINE S == UNION {[C -> CallState] : C \in SUBSET CallId}
              none == [c \in {} |-> None]
              empty == <<>>
              Q == Seq(Outcomes)
  <2>1. none \in S /\ empty \in Q
    BY <1>1, <1>2
  <2>. HIDE DEF S, none, Q, empty
  <2>2. [at |-> "idle", by |-> None, visited |-> {}, limit |-> 0, task |-> None,
         lease |-> None, left |-> 0, buys |-> TRUE, seen |-> none,
         path |-> empty, bought |-> 0, call |-> None, waited |-> FALSE]
        \in [at : Place, by : {"worker", "colony", None}, visited : SUBSET Work, limit : Nat,
             task : Work \cup {None}, lease : Lease \cup {None}, left : Int, buys : BOOLEAN,
             seen : S, path : Q, bought : Nat,
             call : CallId \cup {None}, waited : BOOLEAN]
    BY <2>1 DEF Place
  <2>. QED
    BY <2>2 DEF Between, Memory, S, none, Q, empty
<1>. QED
  BY <1>1, <1>3, <1>4

\* On to the next item.
LEMMA OnwardRecord ==
  ASSUME NEW s \in Memory, NEW p \in Place
  PROVE  LET t == Onward(s, p) IN
         t \in Memory /\ t.at = p /\ t.by = s.by /\ t.path = <<>>
BY BetweenRecord DEF Onward, Between, Memory

\* The end of a walk.
LEMMA DoneRecord ==
  ASSUME NEW s \in Memory, NEW p \in Place
  PROVE  LET t == Done(s, p) IN
         /\ t \in Memory /\ t.at = p
         /\ t.by = s.by /\ t.task = s.task /\ t.lease = s.lease
         /\ t.seen = [c \in {} |-> None] /\ t.path = <<>> /\ t.call = s.call
BY BetweenRecord DEF Done, Between, Memory

\* The end of a walk, with a read in hand.
LEMMA CallingRecord ==
  ASSUME NEW s \in Memory, NEW p \in Place, NEW c \in CallId
  PROVE  LET t == [Done(s, p) EXCEPT !.call = c] IN
         /\ t \in Memory /\ t.at = p
         /\ t.by = s.by /\ t.task = s.task /\ t.lease = s.lease
         /\ t.seen = [d \in {} |-> None] /\ t.path = <<>> /\ t.call = c
<1>. DEFINE r == Done(s, p)
<1>1. /\ r \in Memory /\ r.at = p /\ r.by = s.by /\ r.task = s.task /\ r.lease = s.lease
      /\ r.seen = [d \in {} |-> None] /\ r.path = <<>>
  BY DoneRecord
<1>. HIDE DEF r
<1>2. LET t == [r EXCEPT !.call = c] IN
      /\ t \in Memory /\ t.at = p
      /\ t.by = r.by /\ t.task = r.task /\ t.lease = r.lease
      /\ t.seen = r.seen /\ t.path = r.path /\ t.call = c
  BY <1>1 DEF Memory
<1>. QED
  BY <1>1, <1>2 DEF r

-----------------------------------------------------------------------------
\* What a step leaves of the memory of the process that takes it

\* A lease in hand stays in hand,
LEMMA LeaseCarried ==
  ASSUME TypeOK, GrantsBounded, TreeChange, NEW a, NEW s, NEW t,
         OneLease(a, s), s.at \in Working, t.at \in Working,
         t.lease = s.lease, t.task = s.task, UNCHANGED granted
  PROVE  OneLease(a, t)'
<1>1. s.at # "dead"
  BY DEF Working
<1>2. \A l \in granted : Holds(l)' => Holds(l)
  BY LeaseNotRegained
<1>. QED
  BY <1>1, <1>2 DEF OneLease

\* or there is none that stands.
LEMMA LeaseDropped ==
  ASSUME TypeOK, GrantsBounded, TreeChange, NEW a, NEW s, NEW t,
         OneLease(a, s), s.at # "dead", t.at \notin Working,
         s.at \in Working => ~(Holds(s.lease)'), UNCHANGED granted
  PROVE  OneLease(a, t)'
<1>1. \A l \in granted : Holds(l)' => Holds(l)
  BY LeaseNotRegained
<1>. QED
  BY <1>1 DEF OneLease

\* A process that neither walks nor proposes remembers nothing that could be stale.
LEMMA PlainMind ==
  ASSUME NEW a, NEW t \in Memory, OneLease(a, t)',
         t.at \notin Knowing \cup {"propose", "decide", "claim"},
         t.at \notin {"idle", "dead"} => t.by \in {"worker", "colony"},
         t.at \in {"choose", "read"} \/ t.by = "worker" => t.path = <<>>
  PROVE  Mind(a, t)'
BY DEF Mind, ReadNamed, ReadOut, SeenFinal, PathShown, ProposesAtLeaf, SentKnown, Knowing, Buying

\* Nothing it knows is lost to a step that sends and settles nothing.
LEMMA CalmMind ==
  ASSUME PlatformInv, Calm, UNCHANGED shown, NEW a \in Agent, NEW t, Mind(a, t),
         \A l \in granted' \ granted : l.owner # a
  PROVE  Mind(a, t)'
<1>1. TypeOK
  BY DEF PlatformInv, TreeInv, LedgerInv
<1>2. CallsKept /\ TreeChange
  BY ChangeKeepsCalls DEF Calm
<1>3. ASSUME t.at = "tool" PROVE calls'[t.call].state = "dispatched"
  <2>1. t.call \in DOMAIN calls /\ calls[t.call].state = "dispatched"
    BY <1>3 DEF Mind, ReadOut
  <2>2. t.call \in Sent(calls[t.call].work)
    BY <2>1 DEF Sent, CallsOf
  <2>. QED
    BY <2>1, <2>2 DEF Calm, SameSent
<1>. QED
  BY <1>2, <1>3, MindKept DEF ShownKept, Calm

\* A lease in hand is all that is left to a process that ends its item.
LEMMA EndingMind ==
  ASSUME NEW a, NEW s, Mind(a, s), s.at \in Working, NEW t \in Memory,
         t.at \in {"commit", "abstain", "release", "failed"},
         t.by = s.by, t.lease = s.lease, t.task = s.task, t.path \in {<<>>, s.path}
  PROVE  Mind(a, t)
BY DEF Mind, OneLease, ReadNamed, ReadOut, SeenFinal, PathShown, ProposesAtLeaf, SentKnown,
       Knowing, Buying, Working

\* So it is left between two items, if it had none.
LEMMA ResetMind ==
  ASSUME NEW a, NEW s, Mind(a, s), s.at \in {"idle", "choose", "claim", "mark"}, NEW t \in Memory,
         t.at \in {"idle", "choose", "claim"}, t.at # "idle" => t.by \in {"worker", "colony"},
         t.at = "claim" => t.task \in DOMAIN work, t.path = <<>>
  PROVE  Mind(a, t)
BY DEF Mind, OneLease, ReadNamed, ReadOut, SeenFinal, PathShown, ProposesAtLeaf, SentKnown,
       Knowing, Buying, Working

-----------------------------------------------------------------------------
\* The steps that send nothing

CalmStep(a) ==
  /\ Calm
  /\ UNCHANGED shown
  /\ DOMAIN sweeper' = Agent
  /\ \A b \in Agent \ {a} : sweeper'[b] = sweeper[b]
  /\ \A l \in granted' \ granted : l.owner = a /\ l.epoch \in 1 .. MaxEpoch
  /\ \A c \in DOMAIN calls' \ DOMAIN calls : calls'[c].work = c.work
  /\ \A c \in DOMAIN candidates' \ DOMAIN candidates :
       c \in DOMAIN calls /\ (c.by = "colony" => AtLeaf(c))
  /\ Mind(a, sweeper[a])'

\* A memory t that is right before a calm step is right after it.
LEMMA CalmMemory ==
  ASSUME SweepInv, Calm, UNCHANGED <<shown, granted>>, NEW a \in Agent, NEW t,
         Mind(a, t), sweeper' = [sweeper EXCEPT ![a] = t]
  PROVE  /\ Mind(a, sweeper[a])'
         /\ DOMAIN sweeper' = Agent /\ \A b \in Agent \ {a} : sweeper'[b] = sweeper[b]
<1>1. PlatformInv /\ DOMAIN sweeper = Agent
  BY DEF SweepInv, SweepTypeOK
<1>2. Mind(a, t)'
  BY <1>1, CalmMind
<1>3. sweeper'[a] = t /\ DOMAIN sweeper' = Agent /\ \A b \in Agent \ {a} : sweeper'[b] = sweeper[b]
  BY <1>1
<1>4. Mind(a, sweeper[a])'
  BY <1>2, <1>3
<1>. QED
  BY <1>3, <1>4

\* The process goes on with such a memory.
LEMMA CalmlyOn ==
  ASSUME SweepInv, Calm, UNCHANGED <<shown, granted, candidates>>, NEW a \in Agent, NEW t,
         Mind(a, t), sweeper' = [sweeper EXCEPT ![a] = t],
         \A c \in DOMAIN calls' \ DOMAIN calls : calls'[c].work = c.work
  PROVE  CalmStep(a)
BY CalmMemory DEF CalmStep

\* The process goes on, and the ledger stays as it is.
LEMMA QuietlyOn ==
  ASSUME SweepInv, Quiet, NEW a \in Agent, NEW t, Mind(a, t),
         sweeper' = [sweeper EXCEPT ![a] = t]
  PROVE  CalmStep(a)
<1>1. TypeOK
  BY DEF SweepInv, PlatformInv, TreeInv, LedgerInv
<1>2. Calm /\ UNCHANGED <<shown, granted, candidates, calls>>
  BY <1>1, CalmNothing DEF Quiet, platformVars, platformTables, vars
<1>. QED
  BY <1>2, CalmlyOn

\* The memory of a process that takes a step.
LEMMA OwnMind ==
  ASSUME SweepInv, NEW a \in Agent
  PROVE  Mind(a, sweeper[a]) /\ sweeper[a] \in Memory
BY DEF SweepInv, Mind

\* A sweep begins with no lease.
LEMMA StartStep ==
  ASSUME SweepInv, NEW a \in Agent, NEW by \in {"worker", "colony"}, Start(a, by)
  PROVE  CalmStep(a)
<1>. DEFINE s == sweeper[a]
            n == Cardinality(ReadyWork(a))
            t == [Between EXCEPT !.at = "choose", !.by = by, !.limit = n]
<1>1. Mind(a, s) /\ s.at = "idle" /\ Quiet /\ sweeper' = [sweeper EXCEPT ![a] = t]
  BY OwnMind DEF Start
<1>2. n \in Nat
  <2>1. IsFiniteSet(DOMAIN work)
    BY DEF SweepInv, PlatformInv, TreeInv, PlatformTypeOK
  <2>2. ReadyWork(a) \subseteq DOMAIN work
    BY DEF ReadyWork
  <2>. QED
    BY <2>1, <2>2, FS_Subset, FS_CardinalityType
<1>3. t \in Memory /\ t.at = "choose" /\ t.by = by /\ t.path = <<>>
  <2>. HIDE DEF n
  <2>. QED
    BY <1>2, BetweenRecord DEF Memory, Place
<1>. HIDE DEF s, t
<1>5. Mind(a, t)
  BY <1>1, <1>3, ResetMind
<1>. QED
  BY <1>1, <1>5, QuietlyOn

\* An item is ready work of the ledger.
LEMMA ChooseStep ==
  ASSUME SweepInv, NEW a \in Agent, Choose(a)
  PROVE  CalmStep(a)
<1>. DEFINE s == sweeper[a]
<1>1. Mind(a, s) /\ s \in Memory /\ s.at = "choose" /\ Quiet
  BY OwnMind DEF Choose
<1>2. PICK w \in ReadyWork(a) :
        sweeper' = [sweeper EXCEPT ![a].at = "claim", ![a].task = w, ![a].visited = @ \cup {w},
                                   ![a].left = meta[w].caps.calls - Cardinality(CallsOf(w))]
  BY DEF Choose
<1>. DEFINE left == meta[w].caps.calls - Cardinality(CallsOf(w))
            t == [s EXCEPT !.at = "claim", !.task = w, !.visited = @ \cup {w}, !.left = left]
<1>3. w \in DOMAIN work /\ w \in Work
  BY DEF ReadyWork, SweepInv, PlatformInv, TreeInv, LedgerInv, TypeOK
<1>4. left \in Int
  <2>1. meta[w].caps.calls \in Nat
    BY <1>3 DEF SweepInv, PlatformInv, TreeInv, PlatformTypeOK, MetaRow, Caps
  <2>2. Cardinality(CallsOf(w)) \in Nat
    BY FiniteCallsOf, FS_CardinalityType DEF SweepInv, PlatformInv, TreeInv, LedgerInv
  <2>. QED
    BY <2>1, <2>2
<1>5. sweeper' = [sweeper EXCEPT ![a] = t]
  BY <1>2
<1>6. t \in Memory /\ t.at = "claim" /\ t.by = s.by /\ t.path = s.path /\ t.task = w
  <2>. HIDE DEF left, s
  <2>. QED
    BY <1>1, <1>3, <1>4 DEF Memory, Place
<1>7. s.path = <<>> /\ s.by \in {"worker", "colony"}
  BY <1>1 DEF Mind, ReadNamed
<1>. HIDE DEF s, t
<1>8. Mind(a, t)
  BY <1>1, <1>3, <1>6, <1>7, ResetMind
<1>. QED
  BY <1>1, <1>5, <1>8, QuietlyOn

\* A sweep ends with no lease.
LEMMA FinishStep ==
  ASSUME SweepInv, NEW a \in Agent, Finish(a)
  PROVE  CalmStep(a)
<1>1. Mind(a, sweeper[a]) /\ sweeper[a].at = "choose" /\ Quiet
      /\ sweeper' = [sweeper EXCEPT ![a] = Between]
  BY OwnMind DEF Finish
<1>2. Mind(a, Between)
  BY <1>1, ResetMind, BetweenRecord
<1>. QED
  BY <1>1, <1>2, QuietlyOn

\* A process that died remembers nothing.
LEMMA DieStep ==
  ASSUME SweepInv, NEW a \in Agent, Die(a)
  PROVE  CalmStep(a)
<1>. DEFINE t == [Between EXCEPT !.at = "dead"]
<1>1. Quiet /\ sweeper' = [sweeper EXCEPT ![a] = t]
  BY DEF Die
<1>2. t \in Memory /\ t.at = "dead" /\ t.by = None /\ t.path = <<>>
  BY BetweenRecord, MovedRecord DEF Place
<1>. HIDE DEF t
<1>3. Mind(a, t)
  BY <1>2 DEF Mind, OneLease, ReadNamed, ReadOut, SeenFinal, PathShown, ProposesAtLeaf,
              SentKnown, Knowing, Buying, Working
<1>. QED
  BY <1>1, <1>3, QuietlyOn

\* Whatever raised, the handler comes next.
LEMMA FailedMind ==
  ASSUME SweepInv, NEW a \in Agent, sweeper[a].at \in Working,
         NEW p \in {"commit", "abstain", "release", "failed"}
  PROVE  Mind(a, Done(sweeper[a], p)) /\ Mind(a, [sweeper[a] EXCEPT !.at = p])
<1>1. Mind(a, sweeper[a]) /\ sweeper[a] \in Memory /\ p \in Place
  BY OwnMind DEF Place, Working
<1>. DEFINE s == sweeper[a]
            t == Done(s, p)
            u == [s EXCEPT !.at = p]
<1>2. /\ t \in Memory /\ t.at = p /\ t.by = s.by /\ t.task = s.task /\ t.lease = s.lease
      /\ t.path = <<>>
  BY <1>1, DoneRecord
<1>3. /\ u \in Memory /\ u.at = p /\ u.by = s.by /\ u.task = s.task /\ u.lease = s.lease
      /\ u.path = s.path
  BY <1>1, MovedRecord
<1>. HIDE DEF t, u
<1>4. Mind(a, t)
  BY <1>1, <1>2, EndingMind
<1>5. Mind(a, u)
  BY <1>1, <1>3, EndingMind
<1>. QED
  BY <1>4, <1>5 DEF t, u

\* An item comes to its end.
LEMMA EndsStep ==
  ASSUME SweepInv, NEW a \in Agent, sweeper[a].at \in Working, Quiet,
         NEW p \in {"commit", "abstain", "release", "failed"}, Ends(a, p) \/ At(a, p)
  PROVE  CalmStep(a)
<1>1. Mind(a, Done(sweeper[a], p)) /\ Mind(a, [sweeper[a] EXCEPT !.at = p])
  BY FailedMind
<1>2. \/ sweeper' = [sweeper EXCEPT ![a] = Done(sweeper[a], p)]
      \/ sweeper' = [sweeper EXCEPT ![a] = [sweeper[a] EXCEPT !.at = p]]
  BY DEF Ends, At
<1>. QED
  BY <1>1, <1>2, QuietlyOn

\* A transaction raised.
LEMMA FailStep ==
  ASSUME SweepInv, NEW a \in Agent, sweeper[a].at \in Working, Fail(a)
  PROVE  CalmStep(a)
BY EndsStep DEF Fail, Quiet

\* work_calls.
LEMMA ReadStep ==
  ASSUME SweepInv, NEW a \in Agent, ReadRecords(a)
  PROVE  CalmStep(a)
<1>. DEFINE s == sweeper[a]
            T == s.task
            open == Unknown(T) \/ \E c \in CallsOf(T) : calls[c].state = "reserved"
            at == IF open THEN "release"
                  ELSE IF s.by = "worker" /\ ~s.buys THEN "abstain" ELSE "look"
            seen == [c \in CallsOf(T) |-> calls[c].state]
            t == [s EXCEPT !.seen = seen, !.at = at]
<1>1. Mind(a, s) /\ s \in Memory /\ s.at = "read" /\ s.at \in Working /\ Quiet
  BY OwnMind DEF ReadRecords, Working
<1>2. CASE ~Holds(s.lease)
  BY <1>1, <1>2, EndsStep DEF ReadRecords
<1>3. CASE Holds(s.lease)
  <2>1. sweeper' = [sweeper EXCEPT ![a] = t]
    BY <1>1, <1>3 DEF ReadRecords
  <2>2. seen \in UNION {[C -> CallState] : C \in SUBSET CallId}
    <3>1. TypeOK
      BY DEF SweepInv, PlatformInv, TreeInv, LedgerInv
    <3>2. CallsOf(T) \in SUBSET CallId /\ seen \in [CallsOf(T) -> CallState]
      BY <3>1 DEF TypeOK, CallsOf, Call
    <3>. QED
      BY <3>2
  <2>3. at \in {"release", "abstain", "look"}
    OBVIOUS
  <2>4. /\ t \in Memory /\ t.at = at /\ t.seen = seen
        /\ t.by = s.by /\ t.lease = s.lease /\ t.task = T /\ t.path = s.path
    <3>. HIDE DEF at, seen, s
    <3>. QED
      BY <1>1, <2>2, <2>3 DEF Memory, Place, Working
  <2>5. s.path = <<>>
    BY <1>1 DEF Mind, ReadNamed
  <2>6. CASE at # "look"
    <3>. HIDE DEF at, seen, s, t
    <3>. QED
      BY <1>1, <2>1, <2>3, <2>4, <2>6, EndingMind, QuietlyOn
  <2>7. CASE at = "look"
    <3>1. ~open
      BY <2>7
    <3>2. \A c \in CallsOf(T) : calls[c].state \in Final
      <4>1. TypeOK
        BY DEF SweepInv, PlatformInv, TreeInv, LedgerInv
      <4>. QED
        BY <3>1, <4>1 DEF Unknown, CallsOf, TypeOK, Call, CallState, Unsettled, Final
    <3>3. SeenFinal(t)
      BY <2>4, <3>2 DEF SeenFinal
    <3>4. PathShown(t) /\ ProposesAtLeaf(t) /\ ReadOut(t)
      <4>. HIDE DEF at, seen, s, t
      <4>. QED
        BY <2>4, <2>5, <2>7 DEF PathShown, Spells, ProposesAtLeaf, ReadOut
    <3>5. SentKnown(t)
      BY <2>4, <2>7 DEF SentKnown, Sent
    <3>6. OneLease(a, t) /\ ReadNamed(t)
      <4>. HIDE DEF at, seen, s, t
      <4>. QED
        BY <1>1, <2>4, <2>5, <2>7 DEF Mind, OneLease, ReadNamed, Working, Buying
    <3>7. Mind(a, t)
      BY <2>4, <3>3, <3>4, <3>5, <3>6 DEF Mind
    <3>. HIDE DEF t
    <3>. QED
      BY <1>1, <2>1, <3>7, QuietlyOn
  <2>. QED
    BY <2>6, <2>7
<1>. QED
  BY <1>2, <1>3

\* What a process remembers of a call it saw.
LEMMA SeenCall ==
  ASSUME SweepInv, NEW a \in Agent, sweeper[a].at \in Knowing, NEW state, NEW c \in SeenAs(sweeper[a], state)
  PROVE  /\ c \in DOMAIN sweeper[a].seen /\ c \in CallsOf(sweeper[a].task)
         /\ calls[c].state = state
         /\ c \in CallId /\ c.n \in Nat /\ sweeper[a].task \in DOMAIN work
<1>1. /\ c \in DOMAIN sweeper[a].seen /\ c \in CallsOf(sweeper[a].task) /\ calls[c].state = state
  BY OwnMind DEF SeenAs, Mind, SeenFinal
<1>2. c \in DOMAIN calls /\ calls[c].work = sweeper[a].task
  BY <1>1 DEF CallsOf
<1>3. c \in CallId /\ sweeper[a].task \in DOMAIN work
  BY <1>2 DEF SweepInv, PlatformInv, TreeInv, LedgerInv, TypeOK
<1>. QED
  BY <1>1, <1>3, SweepAssumption

\* Receipts that are seen are of one kind, and one at each depth.
LEMMA SeenOnce ==
  ASSUME SweepInv, NEW a \in Agent, sweeper[a].at \in Knowing,
         NEW c \in SeenAs(sweeper[a], "received"), NEW d \in SeenAs(sweeper[a], "received")
  PROVE  c.by = d.by /\ (c.by = "worker" \/ c.n = d.n => c = d)
<1>1. c \in Sent(sweeper[a].task) /\ d \in Sent(sweeper[a].task) /\ sweeper[a].task \in DOMAIN work
  BY SeenCall DEF Sent
<1>. QED
  BY <1>1 DEF SweepInv, ReadOnce

\* A worker reuses the one receipt there is, or reads where nothing was sent.
LEMMA WorkerLooksStep ==
  ASSUME SweepInv, NEW a \in Agent, WorkerLooks(a)
  PROVE  CalmStep(a)
<1>. DEFINE s == sweeper[a]
            T == s.task
            received == SeenAs(s, "received")
            matching == {c \in received : c.by = "worker"}
            last == CHOOSE c \in matching : \A d \in matching : d.n <= c.n
            read == Id("worker", T, s.lease.epoch, 0)
            t == [Done(s, "decide") EXCEPT !.call = last]
            u == [Done(s, "renew") EXCEPT !.call = read]
<1>1. /\ Mind(a, s) /\ s \in Memory /\ s.at = "look" /\ s.by = "worker" /\ Quiet
      /\ s.at \in Working /\ s.at \in Knowing
  BY OwnMind DEF WorkerLooks, Working, Knowing
<1>2. CASE Ends(a, "commit") \/ Ends(a, "failed") \/ Ends(a, "abstain")
  BY <1>1, <1>2, EndsStep
<1>3. CASE matching # {} /\ sweeper' = [sweeper EXCEPT ![a] = t]
  <2>1. PICK c \in matching : TRUE
    BY <1>3
  <2>2. \A d \in matching : d = c
    BY <1>1, <2>1, SeenOnce
  <2>3. c.n \in Nat
    BY <1>1, SeenCall
  <2>4. last \in matching
    BY <2>2, <2>3
  <2>5. last \in CallId /\ last.by = "worker"
    BY <1>1, <2>4, SeenCall
  <2>6. /\ t \in Memory /\ t.at = "decide" /\ t.by = s.by /\ t.lease = s.lease /\ t.task = T
        /\ t.path = <<>> /\ t.call = last
    <3>1. "decide" \in Place
      BY DEF Place, Working
    <3>. HIDE DEF last
    <3>. QED
      BY <1>1, <2>5, <3>1, CallingRecord
  <2>. HIDE DEF t, last, s
  <2>7. Mind(a, t)
    BY <1>1, <2>5, <2>6 DEF Mind, OneLease, ReadNamed, ReadOut, SeenFinal, PathShown,
                            ProposesAtLeaf, SentKnown, Knowing, Buying, Working
  <2>. QED
    BY <1>1, <1>3, <2>7, QuietlyOn
<1>4. CASE /\ received = {} /\ SeenAs(s, "response_rejected") = {}
           /\ sweeper' = [sweeper EXCEPT ![a] = u]
  <2>1. s.lease \in granted /\ s.lease.work = T
    BY <1>1 DEF Mind, OneLease
  <2>2. T \in Work /\ s.lease.epoch \in 1 .. MaxEpoch
    BY <2>1 DEF SweepInv, SweepTypeOK, PlatformInv, TreeInv, LedgerInv, TypeOK, Lease
  <2>3. read \in CallId /\ read.by = "worker" /\ read.work = T
    BY <2>2, ReadAssumption DEF Id
  <2>4. /\ u \in Memory /\ u.at = "renew" /\ u.by = s.by /\ u.lease = s.lease /\ u.task = T
        /\ u.path = <<>> /\ u.call = read /\ u.seen = [c \in {} |-> None]
    <3>1. "renew" \in Place
      BY DEF Place, Working
    <3>. QED
      BY <1>1, <2>3, <3>1, CallingRecord
  <2>5. Holds(s.lease) => Sent(T) = {}
    <3>1. SUFFICES ASSUME Holds(s.lease), NEW c \in Sent(T) PROVE FALSE
      OBVIOUS
    <3>2. s.path = <<>>
      BY <1>1 DEF Mind, ReadNamed
    <3>3. c \in CallId /\ c.n \in Nat
      BY SweepAssumption DEF Sent, CallsOf, SweepInv, PlatformInv, TreeInv, LedgerInv, TypeOK
    <3>4. ~Passed(s, c)
      BY <3>2, <3>3 DEF Passed
    <3>5. c \in DOMAIN s.seen
      BY <1>1, <3>1, <3>4 DEF Mind, SentKnown
    <3>6. s.seen[c] = calls[c].state /\ s.seen[c] \in Final
      BY <1>1, <3>5 DEF Mind, SeenFinal
    <3>. QED
      BY <1>4, <3>1, <3>5, <3>6 DEF SeenAs, Sent, Final
  <2>6. SeenFinal(u) /\ PathShown(u) /\ ProposesAtLeaf(u) /\ ReadOut(u) /\ SentKnown(u)
    <3>. HIDE DEF u, read, s
    <3>. QED
      BY <2>4, <2>5 DEF SeenFinal, PathShown, Spells, ProposesAtLeaf, ReadOut, SentKnown
  <2>. HIDE DEF u, read, s
  <2>7. OneLease(a, u) /\ ReadNamed(u)
    BY <1>1, <2>3, <2>4 DEF Mind, OneLease, ReadNamed, Working, Buying
  <2>8. Mind(a, u)
    BY <2>4, <2>6, <2>7 DEF Mind
  <2>. QED
    BY <1>1, <1>4, <2>8, QuietlyOn
<1>. QED
  BY <1>2, <1>3, <1>4 DEF WorkerLooks

\* decide(artifact).
LEMMA WorkerDecidesStep ==
  ASSUME SweepInv, NEW a \in Agent, WorkerDecides(a)
  PROVE  CalmStep(a)
<1>. DEFINE s == sweeper[a]
            t == [s EXCEPT !.at = "propose"]
<1>1. Mind(a, s) /\ s \in Memory /\ s.at = "decide" /\ s.at \in Working /\ Quiet
  BY OwnMind DEF WorkerDecides, Working
<1>2. CASE At(a, "abstain") \/ At(a, "failed")
  BY <1>1, <1>2, EndsStep
<1>3. CASE At(a, "propose")
  <2>1. /\ t \in Memory /\ t.at = "propose" /\ t.by = s.by /\ t.task = s.task
        /\ t.lease = s.lease /\ t.path = s.path /\ t.call = s.call
    BY <1>1, MovedRecord DEF Place, Working
  <2>2. sweeper' = [sweeper EXCEPT ![a] = t]
    BY <1>3 DEF At
  <2>. HIDE DEF s, t
  <2>3. Mind(a, t)
    BY <1>1, <2>1 DEF Mind, OneLease, ReadNamed, ReadOut, SeenFinal, PathShown,
                      ProposesAtLeaf, SentKnown, Knowing, Buying, Working
  <2>. QED
    BY <1>1, <2>2, <2>3, QuietlyOn
<1>. QED
  BY <1>2, <1>3 DEF WorkerDecides

-----------------------------------------------------------------------------
\* The walk

\* A colony starts its walk at the root.
LEMMA ColonyLooksStep ==
  ASSUME SweepInv, NEW a \in Agent, ColonyLooks(a)
  PROVE  CalmStep(a)
<1>. DEFINE s == sweeper[a]
            t == [s EXCEPT !.at = "walk"]
<1>1. /\ Mind(a, s) /\ s \in Memory /\ s.at = "look" /\ s.by = "colony" /\ Quiet
      /\ s.at \in Working
  BY OwnMind DEF ColonyLooks, Working
<1>2. CASE Ends(a, "commit") \/ Ends(a, "failed") \/ Ends(a, "abstain")
  BY <1>1, <1>2, EndsStep
<1>3. CASE At(a, "walk")
  <2>1. "walk" \in Place
    BY DEF Place, Working
  <2>2. /\ t \in Memory /\ t.at = "walk"
        /\ t.by = s.by /\ t.task = s.task /\ t.lease = s.lease /\ t.seen = s.seen
        /\ t.path = s.path /\ t.call = s.call
    BY <1>1, <2>1, MovedRecord
  <2>3. sweeper' = [sweeper EXCEPT ![a] = t]
    BY <1>3 DEF At
  <2>4. s.path = <<>>
    BY <1>1 DEF Mind, ReadNamed
  <2>. HIDE DEF s, t
  <2>5. OneLease(a, t) /\ ReadNamed(t) /\ ReadOut(t) /\ ProposesAtLeaf(t)
    BY <1>1, <2>2, <2>4 DEF Mind, OneLease, ReadNamed, ReadOut, ProposesAtLeaf, Working, Buying
  <2>6. SeenFinal(t) /\ PathShown(t) /\ SentKnown(t)
    BY <1>1, <2>2, <2>4 DEF Mind, SeenFinal, PathShown, SentKnown, Passed, Knowing, Buying
  <2>7. Mind(a, t)
    BY <2>2, <2>5, <2>6 DEF Mind
  <2>. QED
    BY <1>1, <2>3, <2>7, QuietlyOn
<1>. QED
  BY <1>2, <1>3 DEF ColonyLooks

\* A walk that stops in a decision stands at a leaf.
LEMMA StopsStep ==
  ASSUME SweepInv, NEW a \in Agent, Stops(a)
  PROVE  CalmStep(a)
<1>. DEFINE s == sweeper[a]
            ends == \/ s.path # <<>> /\ Last(s.path) = "unknown"
                    \/ s.path = <<>>
                    \/ Leaves[s.path] \in {"abstain", "void"}
            t == Done(s, "propose")
<1>1. /\ Mind(a, s) /\ s \in Memory /\ s.at = "walk" /\ Quiet
      /\ s.at \in Working /\ s.at \in Knowing
  BY OwnMind DEF Stops, Working, Knowing
<1>2. CASE ends
  <2>1. Ends(a, "abstain")
    BY <1>2 DEF Stops
  <2>. QED
    BY <1>1, <2>1, EndsStep
<1>3. CASE ~ends
  <2>1. Ends(a, "propose") /\ s.path \in DOMAIN Leaves
    BY <1>3 DEF Stops
  <2>2. "propose" \in Place
    BY DEF Place, Working
  <2>3. /\ t \in Memory /\ t.at = "propose"
        /\ t.by = s.by /\ t.task = s.task /\ t.lease = s.lease /\ t.path = <<>>
        /\ t.call = s.call
    BY <1>1, <2>2, DoneRecord
  <2>4. sweeper' = [sweeper EXCEPT ![a] = t]
    BY <2>1 DEF Ends
  <2>5. s.path # <<>> /\ Leaves[s.path] \in {"accept", "reject"}
    BY <1>3, <2>1, TreeAssumption
  <2>6. /\ s.call \in CallId /\ s.call.by = "colony" /\ s.call.work = s.task
        /\ s.call.n = Len(s.path) - 1
    BY <1>1, <2>5 DEF Mind, ReadNamed
  <2>7. Spells(s.task, s.path) /\ s.path \in Seq(Outcomes)
    BY <1>1 DEF Mind, PathShown, Memory
  <2>8. Len(s.path) \in Nat
    BY <2>7
  <2>. HIDE DEF s, t
  <2>9. AtLeaf(s.call)
    BY <2>1, <2>5, <2>6, <2>7, <2>8 DEF AtLeaf
  <2>10. Mind(a, t)
    BY <1>1, <2>3, <2>6, <2>9 DEF Mind, OneLease, ReadNamed, ReadOut, SeenFinal, PathShown,
                                 ProposesAtLeaf, SentKnown, Knowing, Buying, Working
  <2>. QED
    BY <1>1, <2>4, <2>10, QuietlyOn
<1>. QED
  BY <1>2, <1>3

\* What matches a read at a depth.
LEMMA MatchingCall ==
  ASSUME SweepInv, NEW a \in Agent, sweeper[a].at \in Knowing, NEW depth,
         NEW c \in Matching(sweeper[a], depth)
  PROVE  /\ c \in SeenAs(sweeper[a], "received") /\ c.by = "colony" /\ c.n = depth
         /\ c \in CallsOf(sweeper[a].task) /\ calls[c].state = "received"
         /\ c \in CallId /\ c.work = sweeper[a].task
         /\ \A d \in Matching(sweeper[a], depth) : d = c
<1>1. c \in SeenAs(sweeper[a], "received") /\ c.by = "colony" /\ c.n = depth
  BY DEF Matching
<1>2. /\ c \in CallsOf(sweeper[a].task) /\ calls[c].state = "received" /\ c \in CallId
  BY <1>1, SeenCall
<1>3. c.work = sweeper[a].task
  BY <1>2 DEF CallsOf, SweepInv, SweepTypeOK
<1>4. \A d \in Matching(sweeper[a], depth) : d = c
  BY <1>1, SeenOnce DEF Matching
<1>. QED
  BY <1>1, <1>2, <1>3, <1>4

\* So the latest one is such a receipt.
LEMMA LatestMatching ==
  ASSUME SweepInv, NEW a \in Agent, sweeper[a].at \in Knowing, NEW depth,
         Matching(sweeper[a], depth) # {}
  PROVE  Latest(Matching(sweeper[a], depth)) \in Matching(sweeper[a], depth)
<1>1. PICK c \in Matching(sweeper[a], depth) : TRUE
  OBVIOUS
<1>2. \A d \in Matching(sweeper[a], depth) : d = c
  BY MatchingCall
<1>3. c.attempt \in Nat
  BY MatchingCall, SweepAssumption
<1>. QED
  BY <1>2, <1>3 DEF Latest

\* One step down.
LEMMA AppendedPath ==
  ASSUME NEW S, NEW p \in Seq(S), NEW x \in S
  PROVE  LET q == Append(p, x) IN
         /\ q \in Seq(S) /\ Len(q) = Len(p) + 1 /\ q # <<>>
         /\ q[Len(p) + 1] = x
         /\ \A k \in 1 .. Len(p) : q[k] = p[k]
OBVIOUS

\* A receipt that is reused is one step down.
LEMMA ReusesStep ==
  ASSUME SweepInv, NEW a \in Agent, Reuses(a)
  PROVE  CalmStep(a)
<1>. DEFINE s == sweeper[a]
            T == s.task
            p == s.path
            c == Latest(Matching(s, Len(p)))
            q == Append(p, shown[c])
            t == [s EXCEPT !.call = c, !.path = q]
<1>1. /\ Mind(a, s) /\ s \in Memory /\ s.at = "walk" /\ Quiet
      /\ s.at \in Working /\ s.at \in Knowing /\ s.by = "colony"
  BY OwnMind DEF Reuses, Working, Knowing, Mind, ReadNamed
<1>2. c \in Matching(s, Len(p))
  BY <1>1, LatestMatching DEF Reuses
<1>. HIDE DEF c
<1>3. /\ c \in CallsOf(T) /\ calls[c].state = "received" /\ c.by = "colony" /\ c.n = Len(p)
      /\ c \in CallId /\ c.work = T
  <2>. HIDE DEF p
  <2>. DEFINE depth == Len(p)
  <2>. HIDE DEF depth
  <2>1. c \in Matching(sweeper[a], depth)
    BY <1>2 DEF depth
  <2>2. /\ c \in CallsOf(sweeper[a].task) /\ calls[c].state = "received" /\ c.by = "colony"
        /\ c.n = depth /\ c \in CallId /\ c.work = sweeper[a].task
    BY <1>1, <2>1, MatchingCall
  <2>. QED
    BY <2>2 DEF depth
<1>4. shown[c] \in Outcomes
  BY <1>3 DEF SweepInv, SweepTypeOK, CallsOf
<1>5. p \in Seq(Outcomes) /\ Len(p) \in Nat
  BY <1>1 DEF Memory
<1>6. /\ q \in Seq(Outcomes) /\ Len(q) = Len(p) + 1 /\ q # <<>>
      /\ q[Len(p) + 1] = shown[c]
      /\ \A k \in 1 .. Len(p) : q[k] = p[k]
  <2>. HIDE DEF p
  <2>. QED
    BY <1>4, <1>5, AppendedPath
<1>7. sweeper' = [sweeper EXCEPT ![a] = t]
  BY DEF Reuses, c
<1>. HIDE DEF q
<1>8. /\ t \in Memory /\ t.at = "walk" /\ t.by = "colony" /\ t.lease = s.lease
      /\ t.task = T /\ t.seen = s.seen /\ t.path = q /\ t.call = c
  <2>. HIDE DEF s
  <2>. QED
    BY <1>1, <1>3, <1>6 DEF Memory
<1>9. Spells(T, q)
  <2>1. Spells(T, p)
    BY <1>1 DEF Mind, PathShown
  <2>. HIDE DEF p, T
  <2>2. SUFFICES ASSUME NEW k \in 1 .. Len(q)
                 PROVE  \E d \in CallsOf(T) : /\ d.by = "colony" /\ d.n = k - 1
                                              /\ calls[d].state = "received"
                                              /\ shown[d] = q[k]
    BY DEF Spells
  <2>3. CASE k \in 1 .. Len(p)
    BY <1>6, <2>1, <2>3 DEF Spells
  <2>4. CASE k = Len(p) + 1
    BY <1>3, <1>5, <1>6, <2>4
  <2>. QED
    BY <1>5, <1>6, <2>3, <2>4
<1>. HIDE DEF t
<1>10. SentKnown(t)
  <2>1. SUFFICES ASSUME Holds(s.lease), NEW d \in Sent(T) PROVE Passed(t, d) \/ d \in DOMAIN s.seen
    BY <1>8 DEF SentKnown
  <2>2. Passed(s, d) \/ d \in DOMAIN s.seen
    BY <1>1, <2>1 DEF Mind, SentKnown
  <2>3. Passed(s, d) => Passed(t, d)
    <3>1. d \in CallId /\ d.n \in Nat
      BY SweepAssumption DEF Sent, CallsOf, SweepInv, PlatformInv, TreeInv, LedgerInv, TypeOK
    <3>. HIDE DEF p, s
    <3>2. s.path = p
      BY DEF p
    <3>. QED
      BY <1>5, <1>6, <1>8, <3>1, <3>2 DEF Passed
  <2>. QED
    BY <2>2, <2>3
<1>. HIDE DEF s
<1>11. OneLease(a, t) /\ ReadNamed(t)
  <2>1. c.n = Len(q) - 1
    BY <1>3, <1>5, <1>6
  <2>. HIDE DEF p
  <2>. QED
    BY <1>1, <1>3, <1>8, <2>1 DEF Mind, OneLease, ReadNamed, Working, Buying, T
<1>12. SeenFinal(t) /\ PathShown(t) /\ ReadOut(t) /\ ProposesAtLeaf(t)
  BY <1>1, <1>8, <1>9 DEF Mind, SeenFinal, PathShown, ReadOut, ProposesAtLeaf, Knowing, Buying, T
<1>13. Mind(a, t)
  BY <1>8, <1>10, <1>11, <1>12 DEF Mind
<1>. QED
  BY <1>1, <1>7, <1>13, QuietlyOn DEF s

\* There is always a next attempt: not all of them can have been given up within MaxCalls.
LEMMA AttemptLeft ==
  ASSUME SweepInv, NEW a \in Agent, sweeper[a].at \in Knowing, NEW depth
  PROVE  NextAttempt(sweeper[a], depth) \in 0 .. MaxCalls
<1>. DEFINE s == sweeper[a]
            I == 0 .. MaxCalls
            given == SeenAs(s, "abandoned")
            f == [n \in I |-> Id("colony", s.task, depth, n)]
            open == {n \in I : f[n] \notin given}
<1>1. MaxCalls \in Nat /\ IsFiniteSet(I) /\ Cardinality(I) = MaxCalls + 1
  BY FS_Interval, LimitAssumption
<1>2. /\ IsFiniteSet(DOMAIN calls) /\ Cardinality(DOMAIN calls) <= MaxCalls
      /\ Cardinality(DOMAIN calls) \in Nat
  BY FiniteCalls, FS_CardinalityType DEF SweepInv, PlatformInv, TreeInv, LedgerInv, WithinBudget
<1>3. given \subseteq DOMAIN calls
  BY SeenCall DEF CallsOf
<1>4. open # {}
  <2>1. SUFFICES ASSUME open = {} PROVE FALSE
    OBVIOUS
  <2>2. f \in [I -> DOMAIN calls]
    BY <1>3, <2>1
  <2>3. \A m, n \in I : f[m] = f[n] => m = n
    BY DEF Id
  <2>4. f \in Injection(I, DOMAIN calls)
    <3>. HIDE DEF f, I
    <3>. QED
      BY <2>2, <2>3 DEF Injection, IsInjective
  <2>. HIDE DEF f, I
  <2>5. Cardinality(I) <= Cardinality(DOMAIN calls)
    BY <1>2, <2>4, FS_Injection
  <2>. QED
    BY <1>1, <1>2, <2>5
<1>5. open \in SUBSET Nat
  BY <1>1
<1>6. Min(open) \in open
  BY <1>4, <1>5, LeastNumber
<1>7. open = {n \in 0 .. MaxCalls : Id("colony", s.task, depth, n) \notin SeenAs(s, "abandoned")}
  OBVIOUS
<1>. QED
  BY <1>6, <1>7 DEF NextAttempt

\* Everything received was walked past, and nothing was refused: no read is out.
LEMMA AllPassed ==
  ASSUME SweepInv, NEW a \in Agent, sweeper[a].at = "walk", Holds(sweeper[a].lease),
         SeenAs(sweeper[a], "received") \subseteq Reused(sweeper[a]),
         SeenAs(sweeper[a], "response_rejected") = {},
         NEW d \in Sent(sweeper[a].task)
  PROVE  Passed(sweeper[a], d)
<1>. DEFINE s == sweeper[a]
<1>1. Mind(a, s) /\ s \in Memory /\ s.at \in Knowing /\ Len(s.path) \in Nat
  BY OwnMind DEF Knowing, Memory
<1>2. SUFFICES ASSUME d \in DOMAIN s.seen PROVE Passed(s, d)
  BY <1>1 DEF Mind, SentKnown
<1>3. calls[d].state = s.seen[d] /\ s.seen[d] \in Final
  BY <1>1, <1>2 DEF Mind, SeenFinal
<1>4. s.seen[d] = "received"
  BY <1>2, <1>3 DEF SeenAs, Sent, Final
<1>5. d \in SeenAs(s, "received")
  BY <1>2, <1>4 DEF SeenAs
<1>6. d \in Reused(s)
  BY <1>5
<1>7. PICK e \in 0 .. Len(s.path) - 1 : Matching(s, e) # {} /\ d = Latest(Matching(s, e))
  BY <1>6 DEF Reused
<1>8. d \in Matching(s, e)
  BY <1>1, <1>7, LatestMatching
<1>9. d.by = "colony" /\ d.n = e
  BY <1>8 DEF Matching
<1>. QED
  BY <1>1, <1>3, <1>4, <1>7, <1>9 DEF Passed

\* The next read is bought.
LEMMA BuysStep ==
  ASSUME SweepInv, NEW a \in Agent, Buys(a)
  PROVE  CalmStep(a)
<1>. DEFINE s == sweeper[a]
            T == s.task
            depth == Len(s.path)
            c == Id("colony", T, depth, NextAttempt(s, depth))
            at == IF c \in DOMAIN s.seen THEN "failed" ELSE "renew"
            t == [s EXCEPT !.call = c, !.at = at]
<1>1. /\ Mind(a, s) /\ s \in Memory /\ s.at = "walk" /\ Quiet
      /\ s.at \in Working /\ s.at \in Knowing /\ s.by = "colony"
  BY OwnMind DEF Buys, Working, Knowing, Mind, ReadNamed
<1>2. CASE Ends(a, "failed") \/ Ends(a, "abstain")
  BY <1>1, <1>2, EndsStep
<1>3. CASE /\ SeenAs(s, "received") \ Reused(s) = {}
           /\ SeenAs(s, "response_rejected") = {}
           /\ sweeper' = [sweeper EXCEPT ![a].call = c, ![a].at = at]
  <2>1. c \in CallId /\ c.by = "colony" /\ c.work = T /\ c.n = depth
    <3>1. NextAttempt(s, depth) \in 0 .. MaxCalls
      BY <1>1, AttemptLeft
    <3>2. s.path \in Walks \ DOMAIN Leaves
      BY DEF Buys
    <3>3. T \in Work
      BY <1>1 DEF Mind, OneLease, SweepInv, PlatformInv, TreeInv, LedgerInv, TypeOK, Lease
    <3>. HIDE DEF s
    <3>. QED
      BY <3>1, <3>2, <3>3, TreeAssumption DEF Id
  <2>2. sweeper' = [sweeper EXCEPT ![a] = t]
    BY <1>3
  <2>. HIDE DEF c
  <2>3. at \in {"failed", "renew"}
    OBVIOUS
  <2>. HIDE DEF at
  <2>4. /\ t \in Memory /\ t.at = at /\ t.by = s.by /\ t.lease = s.lease
        /\ t.task = T /\ t.seen = s.seen /\ t.path = s.path /\ t.call = c
    <3>1. at \in Place
      BY <2>3 DEF Place, Working
    <3>. HIDE DEF s
    <3>. QED
      BY <1>1, <2>1, <3>1 DEF Memory
  <2>5. CASE at = "failed"
    <3>. HIDE DEF s, t
    <3>1. Mind(a, t)
      BY <1>1, <2>4, <2>5, EndingMind DEF T
    <3>. QED
      BY <1>1, <2>2, <3>1, QuietlyOn
  <2>6. CASE at = "renew"
    <3>1. SentKnown(t)
      <4>1. SUFFICES ASSUME Holds(s.lease), NEW d \in Sent(T) PROVE Passed(t, d)
        BY <2>4 DEF SentKnown
      <4>2. Passed(s, d)
        BY <1>1, <1>3, <4>1, AllPassed
      <4>. HIDE DEF t, s
      <4>. QED
        BY <2>4, <4>2 DEF Passed
    <3>. HIDE DEF t, s
    <3>2. OneLease(a, t) /\ ReadNamed(t)
      BY <1>1, <2>1, <2>4, <2>6 DEF Mind, OneLease, ReadNamed, Working, Buying, T, depth
    <3>3. SeenFinal(t) /\ PathShown(t) /\ ReadOut(t) /\ ProposesAtLeaf(t)
      BY <1>1, <2>4, <2>6 DEF Mind, SeenFinal, PathShown, ReadOut, ProposesAtLeaf, Knowing, Buying, T
    <3>4. Mind(a, t)
      BY <2>4, <3>1, <3>2, <3>3 DEF Mind
    <3>. QED
      BY <1>1, <2>2, <3>4, QuietlyOn
  <2>. QED
    BY <2>3, <2>5, <2>6
<1>. QED
  BY <1>2, <1>3 DEF Buys

-----------------------------------------------------------------------------
\* The steps that write

\* A purchase goes on as it began.
LEMMA BuyingMind ==
  ASSUME NEW a, NEW s, Mind(a, s), s.at \in {"renew", "reserve"}, NEW t \in Memory,
         t.at \in {"reserve", "dispatch"},
         t.by = s.by, t.lease = s.lease, t.task = s.task, t.seen = s.seen, t.path = s.path,
         t.call = s.call
  PROVE  Mind(a, t)
<1>1. OneLease(a, t) /\ ReadNamed(t)
  BY DEF Mind, OneLease, ReadNamed, Working, Buying
<1>2. SeenFinal(t) /\ PathShown(t) /\ ReadOut(t) /\ ProposesAtLeaf(t)
  BY DEF Mind, SeenFinal, PathShown, ReadOut, ProposesAtLeaf, Knowing, Buying
<1>3. SentKnown(t)
  BY DEF Mind, SentKnown, Passed, Knowing, Buying
<1>. QED
  BY <1>1, <1>2, <1>3 DEF Mind

\* renew.
LEMMA RenewStep ==
  ASSUME SweepInv, NEW a \in Agent, RenewLease(a)
  PROVE  CalmStep(a)
<1>. DEFINE s == sweeper[a]
            t == [s EXCEPT !.at = "reserve", !.bought = @ + 1]
<1>1. Mind(a, s) /\ s \in Memory /\ s.at = "renew" /\ s.at \in Working
  BY OwnMind DEF RenewLease, Working
<1>2. CASE Fail(a)
  BY <1>1, <1>2, FailStep
<1>3. CASE /\ Renew(s.lease) /\ UNCHANGED shown
           /\ sweeper' = [sweeper EXCEPT ![a].at = "reserve", ![a].bought = @ + 1]
  <2>1. sweeper' = [sweeper EXCEPT ![a] = t]
    BY <1>3
  <2>2. /\ t \in Memory /\ t.at = "reserve" /\ t.by = s.by /\ t.lease = s.lease
        /\ t.task = s.task /\ t.seen = s.seen /\ t.path = s.path /\ t.call = s.call
    <3>. DEFINE n == s.bought + 1
    <3>1. "reserve" \in Place /\ n \in Nat
      BY <1>1 DEF Place, Working, Memory
    <3>2. t = [s EXCEPT !.at = "reserve", !.bought = n]
      OBVIOUS
    <3>. HIDE DEF s, n, t
    <3>. QED
      BY <1>1, <3>1, <3>2 DEF Memory
  <2>3. Mind(a, t)
    <3>. HIDE DEF s, t
    <3>. QED
      BY <1>1, <2>2, BuyingMind
  <2>4. Calm /\ UNCHANGED <<granted, candidates, calls>>
    BY <1>3, CalmNothing DEF Renew, vars, SweepInv, PlatformInv, TreeInv, LedgerInv
  <2>. HIDE DEF t
  <2>. QED
    BY <1>3, <2>1, <2>3, <2>4, CalmlyOn
<1>. QED
  BY <1>2, <1>3 DEF RenewLease

\* reserve.
LEMMA ReserveStep ==
  ASSUME SweepInv, NEW a \in Agent, ReserveRead(a)
  PROVE  CalmStep(a)
<1>. DEFINE s == sweeper[a]
            t == [s EXCEPT !.at = "dispatch"]
<1>1. Mind(a, s) /\ s \in Memory /\ s.at = "reserve" /\ s.at \in Working
  BY OwnMind DEF ReserveRead, Working
<1>2. CASE Fail(a)
  BY <1>1, <1>2, FailStep
<1>3. CASE ReserveCapped(s.lease, s.call, 0, 0) /\ At(a, "dispatch") /\ UNCHANGED shown
  <2>1. sweeper' = [sweeper EXCEPT ![a] = t]
    BY <1>3 DEF At
  <2>2. /\ t \in Memory /\ t.at = "dispatch" /\ t.by = s.by /\ t.lease = s.lease
        /\ t.task = s.task /\ t.seen = s.seen /\ t.path = s.path /\ t.call = s.call
    <3>1. "dispatch" \in Place
      BY DEF Place, Working
    <3>. QED
      BY <1>1, <3>1, MovedRecord
  <2>3. Mind(a, t)
    <3>. HIDE DEF s, t
    <3>. QED
      BY <1>1, <2>2, BuyingMind
  <2>4. s.lease \in granted /\ s.lease.work = s.task /\ s.call \in CallId /\ s.call.work = s.task
    BY <1>1 DEF Mind, OneLease, ReadNamed, Buying
  <2>5. TypeOK
    BY DEF SweepInv, PlatformInv, TreeInv, LedgerInv
  <2>. HIDE DEF s, t
  <2>6. /\ Calm /\ UNCHANGED <<granted, candidates>>
        /\ DOMAIN calls' = DOMAIN calls \cup {s.call}
        /\ calls'[s.call].work = s.lease.work
    BY <1>3, <2>4, <2>5, CalmReserve
  <2>. QED
    BY <1>3, <2>1, <2>3, <2>4, <2>6, CalmlyOn
<1>. QED
  BY <1>2, <1>3 DEF ReserveRead

\* propose, of a read that ends its walk.
LEMMA ProposeStep ==
  ASSUME SweepInv, NEW a \in Agent, NEW loss, ProposeRead(a, loss)
  PROVE  CalmStep(a)
<1>. DEFINE s == sweeper[a]
            t == [s EXCEPT !.at = "commit"]
<1>1. Mind(a, s) /\ s \in Memory /\ s.at = "propose" /\ s.at \in Working
  BY OwnMind DEF ProposeRead, Working
<1>2. CASE Fail(a)
  BY <1>1, <1>2, FailStep
<1>3. CASE Propose(s.lease, s.call, loss) /\ At(a, "commit") /\ UNCHANGED shown
  <2>1. sweeper' = [sweeper EXCEPT ![a] = t] /\ Mind(a, t)
    BY <1>1, <1>3, FailedMind DEF At
  <2>2. Calm /\ UNCHANGED <<granted, calls>>
    BY <1>3, CalmNothing DEF Propose, vars, SweepInv, PlatformInv, TreeInv, LedgerInv
  <2>3. /\ DOMAIN candidates' \subseteq DOMAIN candidates \cup {s.call}
        /\ s.call \in DOMAIN calls
    BY <1>3 DEF Propose, Put, CallsOf
  <2>4. s.call.by = "colony" => AtLeaf(s.call)
    BY <1>1 DEF Mind, ProposesAtLeaf
  <2>. HIDE DEF s, t
  <2>5. /\ Mind(a, sweeper[a])'
        /\ DOMAIN sweeper' = Agent /\ \A b \in Agent \ {a} : sweeper'[b] = sweeper[b]
    BY <1>3, <2>1, <2>2, CalmMemory
  <2>. QED
    BY <1>3, <2>2, <2>3, <2>4, <2>5 DEF CalmStep
<1>. QED
  BY <1>2, <1>3 DEF ProposeRead

\* The process has no lease left that stands, and turns to something else.
LEMMA TurnsAway ==
  ASSUME SweepInv, Calm, UNCHANGED <<shown, granted, candidates, DOMAIN calls>>, NEW a \in Agent,
         NEW s, s = sweeper[a], s.at # "dead", s.at \in Working => ~(Holds(s.lease)'),
         NEW t \in Memory, t.at \in {"idle", "choose", "mark"},
         t.at # "idle" => t.by \in {"worker", "colony"},
         t.at = "choose" \/ t.by = "worker" => t.path = <<>>,
         sweeper' = [sweeper EXCEPT ![a] = t]
  PROVE  CalmStep(a)
<1>1. TypeOK /\ GrantsBounded /\ TreeChange /\ DOMAIN sweeper = Agent /\ OneLease(a, s)
  BY OwnMind DEF SweepInv, SweepTypeOK, PlatformInv, TreeInv, LedgerInv, Calm, Mind
<1>2. OneLease(a, t)'
  BY <1>1, LeaseDropped DEF Working
<1>3. Mind(a, t)'
  BY <1>2, PlainMind DEF Knowing, Buying
<1>4. sweeper'[a] = t /\ DOMAIN sweeper' = Agent /\ \A b \in Agent \ {a} : sweeper'[b] = sweeper[b]
  BY <1>1
<1>5. Mind(a, sweeper[a])'
  BY <1>3, <1>4
<1>. QED
  BY <1>4, <1>5 DEF CalmStep

\* It goes on to the next item.
LEMMA GoesOn ==
  ASSUME SweepInv, Calm, UNCHANGED <<shown, granted, candidates, DOMAIN calls>>, NEW a \in Agent,
         NEW s, s = sweeper[a], s.at \notin {"idle", "dead"},
         s.at \in Working => ~(Holds(s.lease)'),
         sweeper' = [sweeper EXCEPT ![a] = Onward(sweeper[a], "choose")]
  PROVE  CalmStep(a)
<1>. DEFINE t == Onward(s, "choose")
<1>1. s \in Memory /\ s.by \in {"worker", "colony"}
  BY OwnMind DEF Mind, ReadNamed
<1>2. t \in Memory /\ t.at = "choose" /\ t.by = s.by /\ t.path = <<>>
  BY <1>1, OnwardRecord DEF Place
<1>3. sweeper' = [sweeper EXCEPT ![a] = t]
  OBVIOUS
<1>. HIDE DEF t
<1>. QED
  BY <1>1, <1>2, <1>3, TurnsAway

\* Nobody holds decided work after the step.
LEMMA DecidedFreed ==
  ASSUME SweepInv, Calm, NEW l, l.work \in DOMAIN decisions'
  PROVE  ~(Holds(l)')
<1>1. PlatformInv'
  BY PlatformStepInv DEF SweepInv, Calm, TreeChange
<1>. QED
  BY <1>1 DEF PlatformInv, TreeInv, PlatformTypeOK, DecisionsPublished, DoneMeansDecided, Holds

\* The lease in hand names the item.
LEMMA LeaseInHand ==
  ASSUME SweepInv, NEW a \in Agent, sweeper[a].at \in Working
  PROVE  /\ sweeper[a].lease \in granted /\ sweeper[a].lease.work = sweeper[a].task
         /\ sweeper[a].lease.owner = a
BY OwnMind DEF Mind, OneLease

\* abstain ends the item.
LEMMA AbstainStep ==
  ASSUME SweepInv, NEW a \in Agent, AbstainItem(a)
  PROVE  CalmStep(a)
<1>1. sweeper[a].at = "abstain" /\ sweeper[a].at \in Working
  BY DEF AbstainItem, Working
<1>2. CASE Fail(a)
  BY <1>1, <1>2, FailStep
<1>3. ASSUME NEW s, s = sweeper[a], Abstain(s.lease),
             sweeper' = [sweeper EXCEPT ![a] = Onward(sweeper[a], "choose")], UNCHANGED shown
      PROVE  CalmStep(a)
  <2>1. s.lease \in granted /\ TypeOK
    BY <1>1, <1>3, LeaseInHand DEF SweepInv, PlatformInv, TreeInv, LedgerInv
  <2>2. Calm /\ UNCHANGED <<granted, candidates>> /\ s.lease.work \in DOMAIN decisions'
    BY <1>3, <2>1, CalmAbstain
  <2>3. UNCHANGED DOMAIN calls
    BY <1>3, <2>1, AbandonedCalls DEF Abstain, Terminate
  <2>4. ~(Holds(s.lease)')
    BY <2>2, DecidedFreed
  <2>. QED
    BY <1>1, <1>3, <2>2, <2>3, <2>4, GoesOn
<1>. QED
  BY <1>2, <1>3 DEF AbstainItem

\* The exception handler, after a rejected response.
LEMMA RejectedStep ==
  ASSUME SweepInv, NEW a \in Agent, HandleRejected(a)
  PROVE  CalmStep(a)
<1>1. sweeper[a].at = "failed" /\ sweeper[a].at \in Working /\ At(a, "release") /\ UNCHANGED shown
  BY DEF HandleRejected, Working
<1>2. CASE UNCHANGED platformVars
  BY <1>1, <1>2, EndsStep DEF Quiet
<1>3. ASSUME NEW s, s = sweeper[a], Abstain(s.lease) PROVE CalmStep(a)
  <2>1. s.lease \in granted /\ TypeOK
    BY <1>1, <1>3, LeaseInHand DEF SweepInv, PlatformInv, TreeInv, LedgerInv
  <2>2. Calm /\ UNCHANGED <<granted, candidates>>
    BY <1>3, <2>1, CalmAbstain
  <2>3. UNCHANGED DOMAIN calls
    BY <1>3, <2>1, AbandonedCalls DEF Abstain, Terminate
  <2>4. Mind(a, [sweeper[a] EXCEPT !.at = "release"])
    BY <1>1, FailedMind
  <2>5. sweeper' = [sweeper EXCEPT ![a] = [sweeper[a] EXCEPT !.at = "release"]]
    BY <1>1 DEF At
  <2>. QED
    BY <1>1, <2>2, <2>3, <2>4, <2>5, CalmlyOn
<1>. QED
  BY <1>2, <1>3 DEF HandleRejected

\* commit decides over all candidates of the work.
LEMMA CommitStep ==
  ASSUME SweepInv, NEW a \in Agent, CommitItem(a)
  PROVE  CalmStep(a)
<1>. DEFINE done == sweeper' = [sweeper EXCEPT ![a] = Onward(sweeper[a], "choose")]
<1>1. PICK s : s = sweeper[a]
  OBVIOUS
<1>2. /\ s.at = "commit" /\ s.at \in Working /\ s \in Memory /\ UNCHANGED shown
      /\ s.lease.work = s.task /\ s.task \in Work
  BY <1>1, OwnMind, LeaseInHand
     DEF CommitItem, Working, SweepInv, PlatformInv, TreeInv, LedgerInv, TypeOK, Lease
<1>3. TypeOK
  BY DEF SweepInv, PlatformInv, TreeInv, LedgerInv
<1>4. ASSUME Calm, UNCHANGED <<granted, candidates, DOMAIN calls>>, s.task \in DOMAIN decisions', done
      PROVE  CalmStep(a)
  <2>1. ~(Holds(s.lease)')
    BY <1>2, <1>4, DecidedFreed
  <2>. QED
    BY <1>1, <1>2, <1>4, <2>1, GoesOn
<1>5. CASE s.task \in DOMAIN decisions /\ done /\ UNCHANGED platformVars
  <2>1. Calm /\ UNCHANGED <<granted, candidates, DOMAIN calls, decisions>>
    BY <1>3, <1>5, CalmNothing DEF platformVars, platformTables, vars
  <2>. QED
    BY <1>4, <1>5, <2>1
<1>6. CASE /\ CommitWaits(s.task, a)
           /\ sweeper' = [sweeper EXCEPT ![a].at = "release", ![a].waited = TRUE]
  <2>. DEFINE t == [s EXCEPT !.at = "release", !.waited = TRUE]
  <2>1. /\ t \in Memory /\ t.at = "release" /\ t.by = s.by /\ t.lease = s.lease
        /\ t.task = s.task /\ t.path = s.path
    <3>1. "release" \in Place
      BY DEF Place, Working
    <3>. QED
      BY <1>2, <3>1 DEF Memory
  <2>2. sweeper' = [sweeper EXCEPT ![a] = t]
    BY <1>1, <1>6
  <2>. HIDE DEF t
  <2>3. Mind(a, t)
    BY <1>1, <1>2, <2>1, OwnMind, EndingMind
  <2>4. Calm /\ UNCHANGED <<granted, candidates, calls>>
    BY <1>3, <1>6, CalmNothing DEF CommitWaits, vars
  <2>. QED
    BY <1>2, <2>2, <2>3, <2>4, CalmlyOn
<1>7. ASSUME NEW c \in Contested(s.task), CommitPublishes(a, c, AbstainLoss), done
      PROVE  CalmStep(a)
  <2>1. c \in DOMAIN calls /\ calls[c].work = s.task
    BY <1>7 DEF Contested, SweepInv, CandidatesAtLeaf
  <2>2. Calm /\ UNCHANGED <<granted, candidates>> /\ s.task \in DOMAIN decisions'
    BY <1>3, <1>7, <2>1, CalmPublish
  <2>3. UNCHANGED DOMAIN calls
    <3>1. calls' = Abandon(Expired \cup {s.task}) \/ UNCHANGED calls
      BY <1>7, <2>1 DEF CommitPublishes, PublishHeld, PublishReclaimed, RecordArtifact, vars
    <3>. QED
      BY <1>3, <3>1, AbandonedCalls
  <2>. QED
    BY <1>4, <1>7, <2>2, <2>3
<1>8. CASE CommitAbstains(s.task, a) /\ done
  <2>1. s.task \in DOMAIN work
    <3>1. Contested(s.task) # {}
      BY <1>8 DEF CommitAbstains, Undecided
    <3>. QED
      BY <1>3, <3>1 DEF Contested, SweepInv, CandidatesAtLeaf, TypeOK
  <2>2. Calm /\ UNCHANGED <<granted, candidates>> /\ s.task \in DOMAIN decisions'
    BY <1>3, <1>8, <2>1, CalmCommit
  <2>3. UNCHANGED DOMAIN calls
    <3>1. calls' = Abandon(Expired \cup {s.task})
      BY <1>8 DEF CommitAbstains, Terminate
    <3>. QED
      BY <1>3, <3>1, AbandonedCalls
  <2>. QED
    BY <1>4, <1>8, <2>2, <2>3
<1>9. CASE At(a, "failed") /\ UNCHANGED platformVars
  BY <1>1, <1>2, <1>9, EndsStep DEF Quiet
<1>. QED
  BY <1>1, <1>5, <1>6, <1>7, <1>8, <1>9 DEF CommitItem

\* _release leaves no lease that stands.
LEMMA ReleaseStep ==
  ASSUME SweepInv, NEW a \in Agent, ReleaseItem(a)
  PROVE  CalmStep(a)
<1>1. PICK s : s = sweeper[a]
  OBVIOUS
<1>2. s.at \in Working /\ s \in Memory /\ UNCHANGED shown /\ s.lease \in granted
  BY <1>1, OwnMind, LeaseInHand DEF ReleaseItem, Working
<1>3. TypeOK /\ GrantsBounded
  BY DEF SweepInv, PlatformInv, TreeInv, LedgerInv
<1>4. Calm /\ UNCHANGED <<granted, candidates, DOMAIN calls>> /\ ~(Holds(s.lease)')
  <2>1. CASE Holds(s.lease)
    <3>1. Release(s.lease)
      BY <1>1, <2>1 DEF ReleaseItem
    <3>. QED
      BY <1>2, <1>3, <3>1, CalmRelease, AbandonedCalls DEF Release
  <2>2. CASE ~Holds(s.lease)
    <3>1. RecoverFreely \/ UNCHANGED platformVars
      BY <1>1, <2>2 DEF ReleaseItem
    <3>2. Calm /\ UNCHANGED <<granted, candidates, DOMAIN calls>>
      BY <1>3, <3>1, CalmRecover, CalmNothing, AbandonedCalls
         DEF RecoverFreely, Recover, platformVars, platformTables, vars
    <3>. QED
      BY <1>2, <1>3, <2>2, <3>2, LeaseNotRegained DEF Calm
  <2>. QED
    BY <2>1, <2>2
<1>5. CASE sweeper' = [sweeper EXCEPT ![a] = Onward(sweeper[a], "choose")]
  BY <1>1, <1>2, <1>4, <1>5, GoesOn DEF Working
<1>6. CASE s.by = "colony" /\ At(a, "mark")
  <2>. DEFINE t == [s EXCEPT !.at = "mark"]
  <2>1. t \in Memory /\ t.at = "mark" /\ t.by = s.by
    BY <1>2, MovedRecord DEF Place
  <2>2. sweeper' = [sweeper EXCEPT ![a] = t]
    BY <1>1, <1>6 DEF At
  <2>. HIDE DEF t
  <2>. QED
    BY <1>1, <1>2, <1>4, <1>6, <2>1, <2>2, TurnsAway DEF Working
<1>. QED
  BY <1>1, <1>5, <1>6 DEF ReleaseItem

\* mark_no_entry after a wait.
LEMMA HintStep ==
  ASSUME SweepInv, NEW a \in Agent, Hints(a)
  PROVE  CalmStep(a)
<1>1. PICK s : s = sweeper[a]
  OBVIOUS
<1>2. s.at = "mark" /\ s.at \notin Working /\ UNCHANGED shown
      /\ sweeper' = [sweeper EXCEPT ![a] = Onward(sweeper[a], "choose")]
  BY <1>1 DEF Hints, Working
<1>3. Calm /\ UNCHANGED <<granted, candidates, DOMAIN calls>>
  <2>1. UNCHANGED <<vars, meta, candidates, decisions>>
    BY DEF Hints, MarkNoEntry, platformVars, platformTables
  <2>. QED
    BY <2>1, CalmNothing DEF vars, SweepInv, PlatformInv, TreeInv, LedgerInv
<1>. QED
  BY <1>1, <1>2, <1>3, GoesOn

\* claim: the lease in hand is new, and the only one.
LEMMA ClaimStep ==
  ASSUME SweepInv, NEW a \in Agent, ClaimItem(a)
  PROVE  CalmStep(a)
<1>1. PICK s : s = sweeper[a]
  OBVIOUS
<1>. DEFINE w == s.task
<1>2. /\ s.at = "claim" /\ s.at \notin Working /\ s \in Memory /\ Mind(a, s) /\ UNCHANGED shown
      /\ s.path = <<>> /\ s.by \in {"worker", "colony"} /\ w \in DOMAIN work
  BY <1>1, OwnMind DEF ClaimItem, Working, Mind, ReadNamed
<1>3. TypeOK /\ GrantsBounded /\ DOMAIN sweeper = Agent
  BY DEF SweepInv, SweepTypeOK, PlatformInv, TreeInv, LedgerInv
<1>4. CASE Claims(a, w)
  <2>1. CASE sweeper' = [sweeper EXCEPT ![a] = Between] /\ UNCHANGED platformVars
    <3>1. Calm /\ UNCHANGED <<granted, candidates, DOMAIN calls>>
      BY <1>3, <2>1, CalmNothing DEF platformVars, platformTables, vars
    <3>. QED
      BY <1>1, <1>2, <2>1, <3>1, BetweenRecord, TurnsAway
  <2>2. ASSUME NEW buys \in BOOLEAN, NEW at \in {"read", "failed"}, ClaimAvailable(a, w),
               NEW lease, lease = [work |-> w, owner |-> a, epoch |-> work[w].epoch + 1],
               sweeper' = [sweeper EXCEPT ![a].at = at, ![a].lease = lease, ![a].buys = buys]
        PROVE  CalmStep(a)
    <3>. DEFINE t == [s EXCEPT !.at = at, !.lease = lease, !.buys = buys]
    <3>1. w \in DOMAIN work /\ w \in Work
      BY <1>2, <1>3 DEF TypeOK
    <3>2. /\ Calm /\ UNCHANGED candidates
          /\ granted' = granted \cup {lease}
          /\ work[w].epoch < MaxEpoch
      BY <1>3, <2>2, <3>1, CalmClaim
    <3>3. lease \in Lease /\ lease.epoch \in 1 .. MaxEpoch /\ lease.owner = a /\ lease.work = w
      BY <1>3, <2>2, <3>1, <3>2, LimitAssumption DEF TypeOK, Row, Lease
    <3>4. UNCHANGED DOMAIN calls
      BY <1>3, <2>2, AbandonedCalls DEF ClaimAvailable, Claim
    <3>5. sweeper' = [sweeper EXCEPT ![a] = t]
      BY <1>1, <2>2
    <3>6. /\ t \in Memory /\ t.at = at /\ t.by = s.by /\ t.lease = lease
          /\ t.task = w /\ t.path = <<>>
      <4>1. at \in Place
        BY DEF Place, Working
      <4>. HIDE DEF w
      <4>2. w = s.task
        BY DEF w
      <4>. QED
        BY <1>2, <3>3, <4>1, <4>2 DEF Memory
    <3>. HIDE DEF t
    <3>7. ASSUME NEW u, u = t PROVE Mind(a, u)'
      <4>1. \A l \in granted : Holds(l)' => Holds(l)
        BY <1>3, <3>2, LeaseNotRegained DEF Calm
      <4>2. OneLease(a, u)'
        <5>1. u.at \in Working
          BY <3>6, <3>7 DEF Working
        <5>2. \A l \in granted : l.owner = a => ~Holds(l)
          BY <1>2 DEF Mind, OneLease
        <5>. QED
          BY <3>2, <3>3, <3>6, <3>7, <4>1, <5>1, <5>2 DEF OneLease
      <4>. QED
        BY <1>2, <3>6, <3>7, <4>2, PlainMind DEF Knowing, Buying
    <3>8. sweeper'[a] = t /\ DOMAIN sweeper' = Agent /\ \A b \in Agent \ {a} : sweeper'[b] = sweeper[b]
      BY <1>3, <3>5
    <3>9. Mind(a, sweeper[a])'
      BY <3>7, <3>8
    <3>. QED
      BY <1>2, <3>2, <3>3, <3>4, <3>8, <3>9 DEF CalmStep
  <2>. QED
    BY <1>1, <1>4, <2>1, <2>2 DEF ClaimItem
<1>5. CASE ~Claims(a, w)
  <2>1. /\ sweeper' = [sweeper EXCEPT ![a] = Onward(sweeper[a], "choose")]
        /\ RecoverFreely \/ UNCHANGED platformVars
    BY <1>1, <1>5 DEF ClaimItem
  <2>2. Calm /\ UNCHANGED <<granted, candidates, DOMAIN calls>>
    BY <1>3, <2>1, CalmRecover, CalmNothing, AbandonedCalls
       DEF RecoverFreely, Recover, platformVars, platformTables, vars
  <2>. QED
    BY <1>1, <1>2, <2>1, <2>2, GoesOn
<1>. QED
  BY <1>4, <1>5

\* Time passes, or the run is cancelled.
LEMMA EnvironmentCalm ==
  ASSUME SweepInv,
         \/ \E w \in DOMAIN work : Expire(w) /\ UNCHANGED <<platformTables, sweepTables>>
         \/ \E w \in held : MarkElapses(w) /\ UNCHANGED sweepTables
         \/ Cancel /\ UNCHANGED <<platformTables, sweepTables>>
  PROVE  Calm /\ UNCHANGED <<shown, sweeper, granted, candidates, DOMAIN calls>>
<1>1. TypeOK
  BY DEF SweepInv, PlatformInv, TreeInv, LedgerInv
<1>2. CASE \E w \in DOMAIN work : Expire(w) /\ UNCHANGED <<platformTables, sweepTables>>
  <2>1. PICK w \in DOMAIN work : Expire(w)
    BY <1>2
  <2>2. UNCHANGED <<calls, artifacts, granted, meta, decisions, candidates, shown, sweeper>>
    BY <1>2, <2>1 DEF Expire, platformTables, sweepTables
  <2>3. OwnTreeStep
    BY <2>1, <2>2, PlainTreeStep DEF LedgerNext
  <2>. QED
    BY <1>1, <2>2, <2>3, CalmCalls DEF Calm, TreeChange
<1>3. CASE \E w \in held : MarkElapses(w) /\ UNCHANGED sweepTables
  <2>1. UNCHANGED <<vars, meta, decisions, candidates, shown, sweeper>>
    BY <1>3 DEF MarkElapses, sweepTables
  <2>. QED
    BY <1>1, <2>1, CalmNothing DEF vars
<1>4. CASE Cancel /\ UNCHANGED <<platformTables, sweepTables>>
  <2>1. /\ calls' = Abandon(OpenWork)
        /\ UNCHANGED <<artifacts, granted, meta, decisions, candidates, shown, sweeper>>
    BY <1>4 DEF Cancel, platformTables, sweepTables
  <2>2. DOMAIN calls' = DOMAIN calls
    BY <1>1, <2>1, AbandonedCalls
  <2>3. OwnTreeStep
    BY <1>4, <2>1, <2>2, PlainTreeStep DEF LedgerNext
  <2>. QED
    BY <1>1, <2>1, <2>2, <2>3, CalmCalls DEF Calm, TreeChange
<1>. QED
  BY <1>2, <1>3, <1>4

-----------------------------------------------------------------------------
\* What a step keeps of the invariant

\* Tables that grow as they should keep their types, and candidates stay at leaves.
LEMMA TablesKept ==
  ASSUME SweepInv, TreeChange, ShownKept, DOMAIN sweeper' = Agent,
         \A c \in DOMAIN shown' : shown'[c] \in Outcomes,
         \A c \in DOMAIN calls : c.by = "colony" /\ calls'[c].state = "received" => c \in DOMAIN shown',
         \A l \in granted' \ granted : l.epoch \in 1 .. MaxEpoch,
         \A c \in DOMAIN calls' \ DOMAIN calls : calls'[c].work = c.work,
         \A c \in DOMAIN candidates' \ DOMAIN candidates :
           c \in DOMAIN calls /\ (c.by = "colony" => AtLeaf(c))
  PROVE  PlatformInv' /\ SweepTypeOK' /\ CandidatesAtLeaf'
<1>1. PlatformInv'
  BY PlatformStepInv DEF SweepInv, TreeChange
<1>2. CallsKept
  BY ChangeKeepsCalls DEF SweepInv
<1>3. SweepTypeOK'
  BY <1>2 DEF SweepInv, SweepTypeOK, CallsKept
<1>4. CandidatesAtLeaf'
  <2>1. SUFFICES ASSUME NEW c \in DOMAIN candidates'
                 PROVE  c \in DOMAIN calls' /\ (c.by = "colony" => AtLeaf(c)')
    BY DEF CandidatesAtLeaf
  <2>2. c \in DOMAIN calls /\ (c.by = "colony" => AtLeaf(c))
    BY DEF SweepInv, CandidatesAtLeaf
  <2>. QED
    BY <1>2, <2>2, LeafKept DEF CallsKept
<1>. QED
  BY <1>1, <1>3, <1>4

\* Where nothing is sent and no answer comes, nothing is read twice.
LEMMA CalmReads ==
  ASSUME SweepInv, Calm
  PROVE  ReadOnce'
<1>1. DOMAIN work' = DOMAIN work
  BY ChangeKeepsCalls DEF SweepInv, Calm
<1>2. SUFFICES ASSUME NEW w \in DOMAIN work
               PROVE  /\ \A c, d \in Sent(w)' : c.by = d.by /\ (c.by = "worker" \/ c.n = d.n => c = d)
                      /\ \A c \in Sent(w)' : c.by = "colony" =>
                           \A k \in 0 .. c.n - 1 :
                             \E d \in Sent(w)' : d.n = k /\ calls'[d].state = "received"
  BY <1>1 DEF ReadOnce
<1>3. Sent(w)' = Sent(w) /\ \A c \in Sent(w) : calls'[c].state = calls[c].state
  BY DEF Calm, SameSent
<1>. QED
  BY <1>3 DEF SweepInv, ReadOnce

\* What was received stays received.
LEMMA CalmShown ==
  ASSUME SweepInv, Calm, UNCHANGED shown
  PROVE  /\ ShownKept
         /\ \A c \in DOMAIN shown' : shown'[c] \in Outcomes
         /\ \A c \in DOMAIN calls : c.by = "colony" /\ calls'[c].state = "received" => c \in DOMAIN shown'
<1>1. ASSUME NEW c \in DOMAIN calls, c.by = "colony", calls'[c].state = "received"
      PROVE  c \in DOMAIN shown'
  <2>1. CallsKept
    BY ChangeKeepsCalls DEF SweepInv, Calm
  <2>2. c \in Sent(calls[c].work)'
    BY <1>1, <2>1 DEF Sent, CallsOf, CallsKept
  <2>3. calls[c].state = "received"
    BY <1>1, <2>2 DEF Calm, SameSent
  <2>. QED
    BY <1>1, <2>3 DEF SweepInv, SweepTypeOK
<1>. QED
  BY <1>1 DEF ShownKept, SweepInv, SweepTypeOK

\* A calm step of one process.
LEMMA CalmStepInv ==
  ASSUME SweepInv, NEW a \in Agent, CalmStep(a)
  PROVE  SweepInv'
<1>1. /\ Calm /\ UNCHANGED shown /\ DOMAIN sweeper' = Agent /\ PlatformInv
      /\ \A b \in Agent \ {a} : sweeper'[b] = sweeper[b]
      /\ \A l \in granted' \ granted : l.owner = a /\ l.epoch \in 1 .. MaxEpoch
      /\ Mind(a, sweeper[a])'
  BY DEF CalmStep, SweepInv
<1>2. PlatformInv' /\ SweepTypeOK' /\ CandidatesAtLeaf'
  BY <1>1, TablesKept, CalmShown DEF CalmStep, Calm
<1>3. ASSUME NEW b \in Agent \ {a} PROVE Mind(b, sweeper[b])'
  <2>1. ASSUME NEW s, s = sweeper[b] PROVE Mind(b, s)'
    BY <1>1, <2>1, CalmMind, OwnMind
  <2>2. PICK s : s = sweeper[b]
    OBVIOUS
  <2>. QED
    BY <1>1, <2>1, <2>2
<1>4. ReadOnce'
  BY <1>1, CalmReads
<1>. QED
  BY <1>1, <1>2, <1>3, <1>4 DEF SweepInv

\* A calm step of the environment.
LEMMA EnvironmentInv ==
  ASSUME SweepInv, Calm, UNCHANGED <<shown, sweeper, granted, candidates, DOMAIN calls>>
  PROVE  SweepInv'
<1>1. PlatformInv' /\ SweepTypeOK' /\ CandidatesAtLeaf'
  BY TablesKept, CalmShown DEF Calm, SweepInv, SweepTypeOK
<1>2. ASSUME NEW b \in Agent PROVE Mind(b, sweeper[b])'
  <2>1. ASSUME NEW s, s = sweeper[b] PROVE Mind(b, s)'
    BY <2>1, CalmMind, OwnMind DEF SweepInv
  <2>2. PICK s : s = sweeper[b]
    OBVIOUS
  <2>. QED
    BY <2>1, <2>2
<1>. QED
  BY <1>1, <1>2, CalmReads DEF SweepInv

-----------------------------------------------------------------------------
\* A read that is sent

\* Two leases in hand of one work and one epoch are one.
LEMMA OneHand ==
  ASSUME SweepInv, NEW a \in Agent, NEW b \in Agent,
         sweeper[a].at \in Working, sweeper[b].at \in Working, sweeper[a].task = sweeper[b].task,
         sweeper[a].lease.epoch = sweeper[b].lease.epoch
  PROVE  a = b
BY LeaseInHand DEF SweepInv, PlatformInv, TreeInv, LedgerInv, NewestLeaseFenced

\* So are two leases of one work that stand.
LEMMA OneHolder ==
  ASSUME SweepInv, NEW a \in Agent, NEW b \in Agent,
         sweeper[a].at \in Working, sweeper[b].at \in Working, sweeper[a].task = sweeper[b].task,
         Holds(sweeper[a].lease), Holds(sweeper[b].lease)
  PROVE  a = b
BY LeaseInHand, OneHand DEF Holds

\* The tables a dispatch leaves.
LEMMA SentTables ==
  ASSUME TypeOK, NEW l \in granted, NEW c, Dispatch(l, c), UNCHANGED platformTables
  PROVE  /\ TreeChange /\ Holds(l)
         /\ UNCHANGED <<run, work, granted, candidates, DOMAIN calls>>
         /\ c \in DOMAIN calls /\ calls[c].work = l.work
         /\ calls[c].state = "reserved" /\ calls'[c].state = "dispatched"
         /\ calls'[c].work = l.work /\ calls'[c].epoch = l.epoch
         /\ \A d \in DOMAIN calls \ {c} : calls'[d] = calls[d]
         /\ Sent(l.work)' = Sent(l.work) \cup {c}
         /\ \A w : w # l.work => SameSent(w)
<1>1. c \in DOMAIN calls /\ calls[c].epoch = l.epoch /\ UNCHANGED <<artifacts, meta, decisions, candidates>>
  BY DEF Dispatch, platformTables
<1>2. /\ Holds(l)
      /\ UNCHANGED <<run, work, granted>>
      /\ calls[c].state = "reserved" /\ calls[c].work = l.work
      /\ DOMAIN calls' = DOMAIN calls
      /\ calls'[c].work = calls[c].work /\ calls'[c].epoch = calls[c].epoch
      /\ calls'[c].state = "dispatched"
      /\ \A d \in DOMAIN calls \ {c} : calls'[d] = calls[d]
  BY <1>1, DispatchedRow
<1>3. OwnTreeStep
  BY <1>1, <1>2, PlainTreeStep DEF LedgerNext
<1>4. Sent(l.work)' = Sent(l.work) \cup {c}
  BY <1>1, <1>2 DEF Sent, CallsOf
<1>5. \A w : w # l.work => SameSent(w)
  BY <1>1, <1>2 DEF SameSent, Sent, CallsOf
<1>. QED
  BY <1>1, <1>2, <1>3, <1>4, <1>5 DEF TreeChange

\* The memory of others: none of them holds the work.
LEMMA SentOthers ==
  ASSUME SweepInv, NEW a \in Agent, NEW b \in Agent \ {a}, sweeper[a].at \in Working,
         NEW c, Dispatch(sweeper[a].lease, c), UNCHANGED <<platformTables, shown>>,
         NEW s, s = sweeper[b]
  PROVE  Mind(b, s)'
<1>. DEFINE l == sweeper[a].lease
<1>1. TypeOK /\ PlatformInv /\ l \in granted /\ l.work = sweeper[a].task /\ Mind(b, s)
  BY LeaseInHand, OwnMind DEF SweepInv, PlatformInv, TreeInv, LedgerInv
<1>2. /\ TreeChange /\ Holds(l) /\ UNCHANGED <<granted, DOMAIN calls>>
      /\ calls[c].state = "reserved" /\ calls'[c].state = "dispatched"
      /\ \A d \in DOMAIN calls \ {c} : calls'[d] = calls[d]
      /\ \A w : w # l.work => SameSent(w)
  BY <1>1, SentTables
<1>3. ASSUME s.at = "tool" PROVE calls'[s.call].state = "dispatched"
  BY <1>1, <1>2, <1>3 DEF Mind, ReadOut
<1>4. ASSUME s.at \in Knowing, Holds(s.lease) PROVE SameSent(s.task)
  <2>1. s.task # l.work
    BY <1>1, <1>2, <1>4, OneHolder DEF Knowing, Buying, Working
  <2>. QED
    BY <1>2, <2>1
<1>. QED
  BY <1>1, <1>2, <1>3, <1>4, MindKept DEF ShownKept

\* Its own: the walk so far is all that was sent before.
LEMMA SentOwn ==
  ASSUME SweepInv, NEW a \in Agent, NEW s, s = sweeper[a], s.at = "dispatch",
         Dispatch(s.lease, s.call), UNCHANGED <<platformTables, shown>>,
         NEW t, t = [s EXCEPT !.at = "tool"]
  PROVE  Mind(a, t)' /\ ReadOnce'
<1>1. /\ TypeOK /\ GrantsBounded /\ PlatformInv /\ s.lease \in granted /\ s.lease.work = s.task /\ Mind(a, s)
      /\ s \in Memory /\ s.at \in Working
  BY LeaseInHand, OwnMind DEF SweepInv, PlatformInv, TreeInv, LedgerInv, Working
<1>. DEFINE c == s.call
            T == s.task
<1>2. /\ c \in CallId /\ c.by = s.by /\ c.work = T /\ (s.by = "colony" => c.n = Len(s.path))
      /\ s.by \in {"worker", "colony"} /\ (s.by = "worker" => s.path = <<>>)
  BY <1>1 DEF Mind, ReadNamed, Buying
<1>3. /\ TreeChange /\ Holds(s.lease) /\ UNCHANGED <<work, granted, DOMAIN calls>>
      /\ c \in DOMAIN calls
      /\ calls[c].state = "reserved" /\ calls'[c].state = "dispatched" /\ calls'[c].epoch = s.lease.epoch
      /\ \A d \in DOMAIN calls \ {c} : calls'[d] = calls[d]
      /\ Sent(T)' = Sent(T) \cup {c}
      /\ \A w : w # T => SameSent(w)
  BY <1>1, SentTables
<1>4. \A d \in Sent(T) : Passed(s, d)
  BY <1>1, <1>3 DEF Mind, SentKnown, Knowing, Buying
<1>5. CallsKept /\ ShownKept
  BY <1>1, <1>3, ChangeKeepsCalls DEF ShownKept
<1>6. /\ t \in Memory /\ t.at = "tool" /\ t.by = s.by /\ t.lease = s.lease
      /\ t.task = T /\ t.seen = s.seen /\ t.path = s.path /\ t.call = c
  <2>1. "tool" \in Place
    BY DEF Place, Working
  <2>. QED
    BY <1>1, <2>1, MovedRecord
<1>. HIDE DEF c
<1>7. Mind(a, t)'
  <2>1. OneLease(a, t)'
    <3>1. OneLease(a, s) /\ t.at \in Working
      BY <1>1, <1>6 DEF Mind, Working
    <3>. QED
      BY <1>1, <1>3, <1>6, <3>1, LeaseCarried
  <2>2. ReadNamed(t)' /\ ReadOut(t)' /\ ProposesAtLeaf(t)'
    BY <1>2, <1>3, <1>6 DEF ReadNamed, ReadOut, ProposesAtLeaf
  <2>3. SeenFinal(t) /\ PathShown(t)
    BY <1>1, <1>6 DEF Mind, SeenFinal, PathShown, Knowing, Buying
  <2>4. SeenFinal(t)' /\ PathShown(t)'
    BY <1>5, <2>3, SeenKept, SpellsKept DEF PathShown
  <2>5. SentKnown(t)'
    <3>1. SUFFICES ASSUME NEW d \in Sent(T)' PROVE Passed(t, d)' \/ d = c
      BY <1>6 DEF SentKnown
    <3>2. CASE d \in Sent(T)
      BY <1>3, <1>4, <1>6, <3>2 DEF Passed, Sent, CallsOf
    <3>. QED
      BY <1>3, <3>1, <3>2
  <2>. QED
    BY <1>6, <2>1, <2>2, <2>4, <2>5 DEF Mind
<1>8. ReadOnce'
  <2>1. SUFFICES ASSUME NEW w \in DOMAIN work
                 PROVE  /\ \A d, e \in Sent(w)' : d.by = e.by /\ (d.by = "worker" \/ d.n = e.n => d = e)
                        /\ \A d \in Sent(w)' : d.by = "colony" =>
                             \A k \in 0 .. d.n - 1 :
                               \E e \in Sent(w)' : e.n = k /\ calls'[e].state = "received"
    BY <1>3 DEF ReadOnce
  <2>2. CASE w # T
    BY <1>3, <2>2 DEF SameSent, SweepInv, ReadOnce
  <2>3. CASE w = T
    <3>1. Len(s.path) \in Nat /\ \A d \in Sent(T) : d \in CallId /\ d.n \in Nat
      BY <1>1, SweepAssumption DEF Memory, Sent, CallsOf, TypeOK
    <3>2. \A d \in Sent(T) : s.by = "colony" /\ d.by = "colony" /\ d.n < c.n
      BY <1>2, <1>4, <3>1 DEF Passed
    <3>3. \A d \in Sent(T) : c.by = "colony" /\ d.by = "colony" /\ d.n # c.n
      BY <1>2, <3>1, <3>2
    <3>4. \A d, e \in Sent(w)' : d.by = e.by /\ (d.by = "worker" \/ d.n = e.n => d = e)
      BY <1>3, <2>3, <3>3 DEF SweepInv, ReadOnce
    <3>5. ASSUME NEW d \in Sent(w)', d.by = "colony", NEW k \in 0 .. d.n - 1
          PROVE  \E e \in Sent(w)' : e.n = k /\ calls'[e].state = "received"
      <4>1. CASE d \in Sent(T)
        <5>1. PICK e \in Sent(T) : e.n = k /\ calls[e].state = "received"
          BY <2>3, <3>5, <4>1 DEF SweepInv, ReadOnce
        <5>. QED
          BY <1>3, <2>3, <5>1 DEF Sent, CallsOf
      <4>2. CASE d = c
        <5>1. Spells(T, s.path) /\ k + 1 \in 1 .. Len(s.path) /\ k \in Nat
          BY <1>1, <1>2, <3>1, <3>5, <4>2 DEF Mind, PathShown, Knowing, Buying
        <5>2. PICK e \in CallsOf(T) : e.n = (k + 1) - 1 /\ calls[e].state = "received"
          BY <5>1 DEF Spells
        <5>3. e \in Sent(T)
          BY <5>2 DEF Sent
        <5>. QED
          BY <1>3, <2>3, <5>1, <5>2, <5>3 DEF Sent, CallsOf
      <4>. QED
        BY <1>3, <2>3, <3>5, <4>1, <4>2
    <3>. QED
      BY <3>4, <3>5
  <2>. QED
    BY <2>2, <2>3
<1>. QED
  BY <1>7, <1>8

\* mark_dispatched.
LEMMA DispatchInv ==
  ASSUME SweepInv, NEW a \in Agent, DispatchRead(a)
  PROVE  SweepInv'
<1>1. PICK s : s = sweeper[a]
  OBVIOUS
<1>2. s.at = "dispatch" /\ s.at \in Working /\ DOMAIN sweeper = Agent /\ PlatformInv /\ TypeOK
  BY <1>1 DEF DispatchRead, Working, SweepInv, SweepTypeOK, PlatformInv, TreeInv, LedgerInv
<1>3. CASE Fail(a)
  BY <1>1, <1>2, <1>3, FailStep, CalmStepInv
<1>4. CASE Dispatch(s.lease, s.call) /\ At(a, "tool") /\ UNCHANGED <<platformTables, shown>>
  <2>1. PICK t : t = [s EXCEPT !.at = "tool"]
    OBVIOUS
  <2>2. Mind(a, t)' /\ ReadOnce'
    BY <1>1, <1>2, <1>4, <2>1, SentOwn
  <2>3. DOMAIN sweeper' = Agent /\ sweeper'[a] = t /\ \A b \in Agent \ {a} : sweeper'[b] = sweeper[b]
    BY <1>1, <1>2, <1>4, <2>1 DEF At
  <2>4. s.lease \in granted /\ s.lease.work = s.task
    BY <1>1, <1>2, LeaseInHand
  <2>5. /\ TreeChange /\ UNCHANGED <<granted, candidates, DOMAIN calls>>
        /\ s.call \in DOMAIN calls
        /\ calls[s.call].state = "reserved" /\ calls'[s.call].state = "dispatched"
        /\ \A d \in DOMAIN calls \ {s.call} : calls'[d] = calls[d]
    BY <1>2, <1>4, <2>4, SentTables
  <2>6. /\ \A c \in DOMAIN shown' : shown'[c] \in Outcomes
        /\ \A c \in DOMAIN calls : c.by = "colony" /\ calls'[c].state = "received" => c \in DOMAIN shown'
    BY <1>4, <2>5 DEF SweepInv, SweepTypeOK
  <2>7. PlatformInv' /\ SweepTypeOK' /\ CandidatesAtLeaf'
    BY <1>4, <2>3, <2>5, <2>6, TablesKept DEF ShownKept
  <2>8. ASSUME NEW b \in Agent \ {a} PROVE Mind(b, sweeper[b])'
    <3>1. PICK u : u = sweeper[b]
      OBVIOUS
    <3>2. Mind(b, u)'
      BY <1>1, <1>2, <1>4, <3>1, SentOthers
    <3>. QED
      BY <2>3, <3>1, <3>2
  <2>9. Mind(a, sweeper[a])'
    BY <2>2, <2>3
  <2>. QED
    BY <2>2, <2>7, <2>8, <2>9 DEF SweepInv
<1>. QED
  BY <1>1, <1>3, <1>4 DEF DispatchRead

-----------------------------------------------------------------------------
\* An answer that comes

\* The tables an answer leaves.
LEMMA AnsweredTables ==
  ASSUME TypeOK, NEW c, NEW oversize \in BOOLEAN, Receive(c, 0, 0, oversize), UNCHANGED platformTables
  PROVE  /\ TreeChange
         /\ UNCHANGED <<run, granted, candidates, DOMAIN calls>>
         /\ c \in DOMAIN calls
         /\ calls[c].state = "dispatched" /\ calls'[c].work = calls[c].work
         /\ calls'[c].state = IF oversize THEN "response_rejected" ELSE "received"
         /\ \A d \in DOMAIN calls \ {c} : calls'[d] = calls[d]
         /\ \A w : Sent(w)' = Sent(w)
         /\ \A w : w # calls[c].work => SameSent(w)
<1>1. /\ c \in DOMAIN calls /\ Settle(c, 0, oversize) /\ 0 \in Nat
      /\ 0 <= calls[c].prompt + calls[c].maximum
      /\ UNCHANGED <<meta, decisions, candidates>>
  BY DEF Receive, platformTables, TypeOK, Call
<1>2. /\ UNCHANGED <<run, artifacts, granted>>
      /\ calls[c].state = "dispatched"
      /\ DOMAIN calls' = DOMAIN calls
      /\ calls'[c].work = calls[c].work
      /\ \A d \in DOMAIN calls \ {c} : calls'[d] = calls[d]
  BY <1>1, SettledRows
<1>3. calls'[c].state = IF oversize THEN "response_rejected" ELSE "received"
  <2>1. calls' = [calls EXCEPT ![c].state = IF oversize THEN "response_rejected" ELSE "received",
                               ![c].actual = 0]
    BY <1>1 DEF Settle
  <2>. QED
    BY <1>1, <2>1 DEF TypeOK, Call
<1>4. OwnTreeStep
  BY <1>1, <1>2, PlainTreeStep DEF LedgerNext
<1>5. \A w : Sent(w)' = Sent(w)
  BY <1>1, <1>2, <1>3 DEF Sent, CallsOf
<1>6. \A w : w # calls[c].work => SameSent(w)
  BY <1>1, <1>2, <1>5 DEF SameSent, Sent, CallsOf
<1>. QED
  BY <1>1, <1>2, <1>3, <1>4, <1>5, <1>6 DEF TreeChange

\* The memory of others: none of them holds the work, or waits for this answer.
LEMMA AnsweredOthers ==
  ASSUME SweepInv, NEW a \in Agent, NEW b \in Agent \ {a}, sweeper[a].at = "tool",
         NEW oversize \in BOOLEAN, Receive(sweeper[a].call, 0, 0, oversize),
         UNCHANGED platformTables, ShownKept, NEW s, s = sweeper[b]
  PROVE  Mind(b, s)'
<1>. DEFINE c == sweeper[a].call
<1>1. /\ TypeOK /\ PlatformInv /\ Mind(b, s) /\ Mind(a, sweeper[a]) /\ sweeper[a].at \in Working
      /\ UnknownNotOffered /\ NewestLeaseFenced
  BY OwnMind DEF SweepInv, PlatformInv, TreeInv, LedgerInv, Working
<1>2. /\ c \in DOMAIN calls /\ calls[c].epoch = sweeper[a].lease.epoch
      /\ calls[c].work = sweeper[a].task /\ calls[c].state = "dispatched"
  BY <1>1 DEF Mind, ReadOut, ReadNamed, SweepInv, SweepTypeOK
<1>3. /\ TreeChange /\ UNCHANGED <<granted, DOMAIN calls>>
      /\ \A d \in DOMAIN calls \ {c} : calls'[d] = calls[d]
      /\ \A w : w # calls[c].work => SameSent(w)
  BY <1>1, AnsweredTables
<1>4. ASSUME s.at = "tool" PROVE calls'[s.call].state = "dispatched"
  <2>1. /\ s.call \in DOMAIN calls /\ calls[s.call].state = "dispatched"
        /\ calls[s.call].epoch = s.lease.epoch /\ calls[s.call].work = s.task
    BY <1>1, <1>4 DEF Mind, ReadOut, ReadNamed, SweepInv, SweepTypeOK
  <2>2. s.call # c
    BY <1>1, <1>2, <1>4, <2>1, OneHand DEF Working
  <2>. QED
    BY <1>3, <2>1, <2>2
<1>5. ASSUME s.at \in Knowing, Holds(s.lease) PROVE SameSent(s.task)
  <2>1. s.at \in Working /\ s.lease.work = s.task
    BY <1>1, <1>5 DEF Mind, OneLease, Knowing, Buying, Working
  <2>2. SUFFICES ASSUME s.task = calls[c].work PROVE FALSE
    BY <1>3
  <2>3. work[calls[c].work].status = "leased" /\ work[calls[c].work].epoch = s.lease.epoch
    BY <1>5, <2>1, <2>2 DEF Holds
  <2>4. s.lease.epoch = sweeper[a].lease.epoch
    BY <1>1, <1>2, <2>3 DEF UnknownNotOffered
  <2>. QED
    BY <1>1, <1>2, <2>1, <2>2, <2>4, OneHand
<1>. QED
  BY <1>1, <1>3, <1>4, <1>5, MindKept

\* What was sent stays so.
LEMMA AnsweredReads ==
  ASSUME SweepInv, NEW c, NEW oversize \in BOOLEAN, Receive(c, 0, 0, oversize), UNCHANGED platformTables
  PROVE  ReadOnce'
<1>1. /\ TreeChange /\ PlatformInv /\ DOMAIN calls' = DOMAIN calls
      /\ calls[c].state = "dispatched"
      /\ \A d \in DOMAIN calls \ {c} : calls'[d] = calls[d]
      /\ \A w : Sent(w)' = Sent(w)
  BY AnsweredTables DEF SweepInv, PlatformInv, TreeInv, LedgerInv
<1>2. DOMAIN work' = DOMAIN work
  BY <1>1, ChangeKeepsCalls
<1>3. \A w : \A d \in Sent(w) : calls[d].state = "received" => calls'[d].state = "received"
  BY <1>1 DEF Sent, CallsOf
<1>4. SUFFICES ASSUME NEW w \in DOMAIN work
               PROVE  /\ \A d, e \in Sent(w)' : d.by = e.by /\ (d.by = "worker" \/ d.n = e.n => d = e)
                      /\ \A d \in Sent(w)' : d.by = "colony" =>
                           \A k \in 0 .. d.n - 1 :
                             \E e \in Sent(w)' : e.n = k /\ calls'[e].state = "received"
  BY <1>2 DEF ReadOnce
<1>. QED
  BY <1>1, <1>3 DEF SweepInv, ReadOnce

\* A process whose read is answered and that walks no further.
LEMMA AnsweredEnds ==
  ASSUME SweepInv, NEW a \in Agent, NEW s, s = sweeper[a], s.at = "tool",
         NEW oversize \in BOOLEAN, Receive(s.call, 0, 0, oversize), UNCHANGED platformTables,
         NEW p \in {"failed", "decide"}, p = "decide" => s.by = "worker",
         NEW t, t = Done(s, p)
  PROVE  Mind(a, t)'
<1>1. /\ TypeOK /\ GrantsBounded /\ s.at \in Working /\ OneLease(a, s) /\ s \in Memory
      /\ s.call \in CallId /\ s.call.by = s.by /\ s.by \in {"worker", "colony"}
  BY OwnMind DEF SweepInv, PlatformInv, TreeInv, LedgerInv, Working, Mind, ReadNamed
<1>2. TreeChange /\ UNCHANGED granted
  BY <1>1, AnsweredTables
<1>3. /\ t \in Memory /\ t.at = p /\ t.by = s.by /\ t.task = s.task /\ t.lease = s.lease
      /\ t.path = <<>> /\ t.call = s.call
  <2>1. p \in Place
    BY DEF Place, Working
  <2>. QED
    BY <1>1, <2>1, DoneRecord
<1>4. t.at \in Working
  BY <1>3 DEF Working
<1>5. OneLease(a, t)'
  BY <1>1, <1>2, <1>3, <1>4, LeaseCarried
<1>. QED
  BY <1>1, <1>3, <1>5 DEF Mind, ReadNamed, ReadOut, SeenFinal, PathShown, ProposesAtLeaf, SentKnown,
                          Knowing, Buying

\* A colony is one step further down.
LEMMA AnsweredWalks ==
  ASSUME SweepInv, NEW a \in Agent, NEW s, s = sweeper[a], s.at = "tool", s.by = "colony",
         Receive(s.call, 0, 0, FALSE), UNCHANGED platformTables,
         NEW outcome \in Outcomes, shown' = Put(shown, s.call, outcome), ShownKept,
         NEW t, t = [s EXCEPT !.at = "walk", !.path = Append(@, outcome)]
  PROVE  Mind(a, t)'
<1>. DEFINE c == s.call
            T == s.task
            q == Append(s.path, outcome)
<1>1. /\ TypeOK /\ GrantsBounded /\ PlatformInv /\ s.at \in Working /\ s.at \in Knowing
      /\ Mind(a, s) /\ s \in Memory /\ FALSE \in BOOLEAN
  BY OwnMind DEF SweepInv, PlatformInv, TreeInv, LedgerInv, Working, Knowing
<1>2. /\ c \in CallId /\ c.by = "colony" /\ c.work = T /\ c.n = Len(s.path)
  BY <1>1 DEF Mind, ReadNamed
<1>3. /\ TreeChange /\ UNCHANGED <<granted, DOMAIN calls>> /\ c \in DOMAIN calls
      /\ calls'[c].work = calls[c].work /\ calls'[c].state = "received"
      /\ \A d \in DOMAIN calls \ {c} : calls'[d] = calls[d]
      /\ \A w : Sent(w)' = Sent(w)
  BY <1>1, AnsweredTables
<1>4. calls[c].work = T /\ c \in CallsOf(T)' /\ shown'[c] = outcome
  BY <1>2, <1>3 DEF SweepInv, SweepTypeOK, CallsOf, Put
<1>5. CallsKept
  BY <1>1, <1>3, ChangeKeepsCalls
<1>6. /\ s.path \in Seq(Outcomes) /\ Len(s.path) \in Nat
      /\ q \in Seq(Outcomes) /\ Len(q) = Len(s.path) + 1 /\ q # <<>>
      /\ q[Len(s.path) + 1] = outcome
      /\ \A k \in 1 .. Len(s.path) : q[k] = s.path[k]
  <2>1. s.path \in Seq(Outcomes) /\ Len(s.path) \in Nat
    BY <1>1 DEF Memory
  <2>. QED
    BY <2>1, AppendedPath
<1>7. t = [s EXCEPT !.at = "walk", !.path = q]
  OBVIOUS
<1>. HIDE DEF q
<1>8. /\ t \in Memory /\ t.at = "walk" /\ t.by = s.by /\ t.lease = s.lease
      /\ t.task = T /\ t.seen = s.seen /\ t.path = q /\ t.call = c
  <2>1. "walk" \in Place
    BY DEF Place, Working
  <2>. QED
    BY <1>1, <1>6, <1>7, <2>1 DEF Memory
<1>. HIDE DEF c
<1>9. OneLease(a, t)'
  <2>1. OneLease(a, s) /\ t.at \in Working
    BY <1>1, <1>8 DEF Mind, Working
  <2>. QED
    BY <1>1, <1>3, <1>8, <2>1, LeaseCarried
<1>10. ReadNamed(t)' /\ ReadOut(t)' /\ ProposesAtLeaf(t)'
  <2>1. c.n = Len(q) - 1
    BY <1>2, <1>6
  <2>. QED
    BY <1>2, <1>8, <2>1 DEF ReadNamed, ReadOut, ProposesAtLeaf, Buying
<1>11. SeenFinal(t)'
  <2>1. SeenFinal(t)
    BY <1>1, <1>8 DEF Mind, SeenFinal, Knowing
  <2>. QED
    BY <1>5, <2>1, SeenKept
<1>12. PathShown(t)'
  <2>1. Spells(T, s.path)'
    BY <1>1, <1>5, SpellsKept DEF Mind, PathShown
  <2>2. SUFFICES ASSUME NEW k \in 1 .. Len(q)
                 PROVE  \E d \in CallsOf(T)' : /\ d.by = "colony" /\ d.n = k - 1
                                               /\ calls'[d].state = "received"
                                               /\ shown'[d] = q[k]
    BY <1>8 DEF PathShown, Spells
  <2>3. CASE k \in 1 .. Len(s.path)
    <3>1. PICK d \in CallsOf(T)' : /\ d.by = "colony" /\ d.n = k - 1
                                   /\ calls'[d].state = "received"
                                   /\ shown'[d] = s.path[k]
      BY <2>1, <2>3 DEF Spells
    <3>. QED
      BY <1>6, <2>3, <3>1
  <2>4. CASE k = Len(s.path) + 1
    BY <1>2, <1>3, <1>4, <1>6, <2>4
  <2>. QED
    BY <1>6, <2>3, <2>4
<1>13. SentKnown(t)'
  <2>1. SUFFICES ASSUME Holds(s.lease)', NEW d \in Sent(T)' PROVE Passed(t, d)'
    BY <1>8 DEF SentKnown
  <2>2. Holds(s.lease) /\ d \in Sent(T)
    BY <1>1, <1>3, <2>1, LeaseNotRegained DEF Mind, OneLease
  <2>3. Passed(s, d) \/ d = c
    BY <1>1, <2>2 DEF Mind, SentKnown, c
  <2>4. d \in CallId /\ d.n \in Nat /\ d \in DOMAIN calls
    BY <1>1, <2>2, SweepAssumption DEF Sent, CallsOf, TypeOK
  <2>5. CASE d = c
    BY <1>2, <1>3, <1>6, <1>8, <2>5 DEF Passed
  <2>6. CASE Passed(s, d) /\ d # c
    BY <1>3, <1>6, <1>8, <2>4, <2>6 DEF Passed
  <2>. QED
    BY <2>3, <2>5, <2>6
<1>. QED
  BY <1>8, <1>9, <1>10, <1>11, <1>12, <1>13 DEF Mind

\* receive, however late.
LEMMA AnswerInv ==
  ASSUME SweepInv, NEW a \in Agent, NEW outcome \in Outcomes, NEW oversize \in BOOLEAN,
         AnswerRead(a, outcome, oversize)
  PROVE  SweepInv'
<1>1. PICK s : s = sweeper[a]
  OBVIOUS
<1>2. /\ s.at = "tool" /\ Receive(s.call, 0, 0, oversize) /\ UNCHANGED platformTables
      /\ DOMAIN sweeper = Agent /\ TypeOK
      /\ s.call.by = s.by /\ s.by \in {"worker", "colony"}
  BY <1>1, OwnMind DEF AnswerRead, SweepInv, SweepTypeOK, PlatformInv, TreeInv, LedgerInv,
                       Mind, ReadNamed
<1>3. /\ TreeChange /\ UNCHANGED <<granted, candidates, DOMAIN calls>>
      /\ s.call \in DOMAIN calls /\ calls[s.call].state = "dispatched"
      /\ calls'[s.call].state = IF oversize THEN "response_rejected" ELSE "received"
      /\ \A d \in DOMAIN calls \ {s.call} : calls'[d] = calls[d]
  BY <1>2, AnsweredTables
<1>4. /\ ShownKept
      /\ \A c \in DOMAIN shown' : shown'[c] \in Outcomes
      /\ \A c \in DOMAIN calls : c.by = "colony" /\ calls'[c].state = "received" => c \in DOMAIN shown'
  <2>1. CASE UNCHANGED shown /\ (oversize \/ s.by = "worker")
    BY <1>2, <1>3, <2>1 DEF ShownKept, SweepInv, SweepTypeOK
  <2>2. CASE shown' = Put(shown, s.call, outcome)
    BY <1>3, <2>2 DEF ShownKept, SweepInv, SweepTypeOK, Put
  <2>. QED
    BY <1>1, <2>1, <2>2 DEF AnswerRead
<1>5. \E t : Mind(a, t)' /\ sweeper' = [sweeper EXCEPT ![a] = t]
  <2>1. CASE Ends(a, "failed")
    <3>1. PICK t : t = Done(s, "failed")
      OBVIOUS
    <3>2. Mind(a, t)'
      BY <1>1, <1>2, <3>1, AnsweredEnds
    <3>. QED
      BY <1>1, <2>1, <3>1, <3>2 DEF Ends
  <2>2. CASE s.by = "worker" /\ Ends(a, "decide")
    <3>1. PICK t : t = Done(s, "decide")
      OBVIOUS
    <3>2. Mind(a, t)'
      BY <1>1, <1>2, <2>2, <3>1, AnsweredEnds
    <3>. QED
      BY <1>1, <2>2, <3>1, <3>2 DEF Ends
  <2>3. CASE /\ ~oversize /\ s.by = "colony" /\ shown' = Put(shown, s.call, outcome)
             /\ sweeper' = [sweeper EXCEPT ![a].at = "walk", ![a].path = Append(@, outcome)]
    <3>1. PICK t : t = [s EXCEPT !.at = "walk", !.path = Append(@, outcome)]
      OBVIOUS
    <3>2. oversize = FALSE
      BY <2>3
    <3>3. Mind(a, t)'
      BY <1>1, <1>2, <1>4, <2>3, <3>1, <3>2, AnsweredWalks
    <3>4. sweeper' = [sweeper EXCEPT ![a] = t]
      BY <1>1, <2>3, <3>1
    <3>. QED
      BY <3>3, <3>4
  <2>. QED
    BY <1>1, <1>2, <2>1, <2>2, <2>3 DEF AnswerRead
<1>6. PICK t : Mind(a, t)' /\ sweeper' = [sweeper EXCEPT ![a] = t]
  BY <1>5
<1>7. DOMAIN sweeper' = Agent /\ sweeper'[a] = t /\ \A b \in Agent \ {a} : sweeper'[b] = sweeper[b]
  BY <1>2, <1>6
<1>8. PlatformInv' /\ SweepTypeOK' /\ CandidatesAtLeaf'
  BY <1>3, <1>4, <1>7, TablesKept
<1>9. ASSUME NEW b \in Agent \ {a} PROVE Mind(b, sweeper[b])'
  <2>1. PICK u : u = sweeper[b]
    OBVIOUS
  <2>2. Mind(b, u)'
    BY <1>1, <1>2, <1>4, <2>1, AnsweredOthers
  <2>. QED
    BY <1>7, <2>1, <2>2
<1>10. Mind(a, sweeper[a])'
  BY <1>6, <1>7
<1>11. ReadOnce'
  BY <1>2, AnsweredReads
<1>. QED
  BY <1>8, <1>9, <1>10, <1>11 DEF SweepInv

-----------------------------------------------------------------------------
\* Invariance

\* Before any sweep.
LEMMA SweepInitInv == SweepInit => SweepInv
<1>1. SUFFICES ASSUME SweepInit PROVE SweepInv
  OBVIOUS
<1>2. /\ PlatformInv /\ sweeper = [a \in Agent |-> Between] /\ shown = [c \in {} |-> None]
      /\ calls = [c \in {} |-> None] /\ granted = {} /\ candidates = [c \in {} |-> None]
  BY <1>1, PlatformInitInv DEF SweepInit, PlatformInit, PlatformInitOf, InitOf
<1>3. SweepTypeOK /\ CandidatesAtLeaf
  BY <1>2 DEF SweepTypeOK, CandidatesAtLeaf
<1>4. ReadOnce
  BY <1>2 DEF ReadOnce, Sent, CallsOf
<1>5. ASSUME NEW a \in Agent PROVE Mind(a, sweeper[a])
  <2>1. Mind(a, Between)
    BY <1>2, BetweenRecord
       DEF Mind, OneLease, ReadNamed, ReadOut, SeenFinal, PathShown, ProposesAtLeaf, SentKnown,
           Knowing, Buying, Working
  <2>. QED
    BY <1>2, <2>1
<1>. QED
  BY <1>2, <1>3, <1>4, <1>5 DEF SweepInv

\* Nothing happens.
LEMMA SweepStutter == ASSUME SweepInv, UNCHANGED sweepVars PROVE SweepInv'
<1>1. UNCHANGED <<vars, meta, decisions, shown, sweeper, candidates>>
  BY DEF sweepVars, sweepTables, platformVars, platformTables
<1>. QED
  BY <1>1, CalmNothing, EnvironmentInv DEF vars, SweepInv, PlatformInv, TreeInv, LedgerInv

\* One process.
LEMMA SweepStepInv == ASSUME SweepInv, NEW a \in Agent, SweepStep(a) PROVE SweepInv'
<1>1. CASE \E by \in {"worker", "colony"} : Start(a, by)
  BY <1>1, StartStep, CalmStepInv
<1>2. CASE Choose(a) \/ Finish(a) \/ ClaimItem(a) \/ ReadRecords(a)
  BY <1>2, ChooseStep, FinishStep, ClaimStep, ReadStep, CalmStepInv
<1>3. CASE WorkerLooks(a) \/ WorkerDecides(a)
  BY <1>3, WorkerLooksStep, WorkerDecidesStep, CalmStepInv
<1>4. CASE ColonyLooks(a) \/ Stops(a) \/ Reuses(a) \/ Buys(a) \/ Hints(a)
  BY <1>4, ColonyLooksStep, StopsStep, ReusesStep, BuysStep, HintStep, CalmStepInv
<1>5. CASE RenewLease(a) \/ ReserveRead(a)
  BY <1>5, RenewStep, ReserveStep, CalmStepInv
<1>6. CASE DispatchRead(a)
  BY <1>6, DispatchInv
<1>7. CASE \E outcome \in Outcomes, oversize \in BOOLEAN : AnswerRead(a, outcome, oversize)
  BY <1>7, AnswerInv
<1>8. CASE ToolRaises(a)
  BY <1>8, FailStep, CalmStepInv DEF ToolRaises, Working
<1>9. CASE \E loss \in Losses : ProposeRead(a, loss)
  BY <1>9, ProposeStep, CalmStepInv
<1>10. CASE AbstainItem(a) \/ CommitItem(a) \/ HandleRejected(a) \/ ReleaseItem(a) \/ Die(a)
  BY <1>10, AbstainStep, CommitStep, RejectedStep, ReleaseStep, DieStep, CalmStepInv
<1>. QED
  BY <1>1, <1>2, <1>3, <1>4, <1>5, <1>6, <1>7, <1>8, <1>9, <1>10 DEF SweepStep

\* Every step.
LEMMA SweepNextInv == SweepInv /\ [SweepNext]_sweepVars => SweepInv'
<1>1. SUFFICES ASSUME SweepInv, [SweepNext]_sweepVars PROVE SweepInv'
  OBVIOUS
<1>2. CASE UNCHANGED sweepVars
  BY <1>1, <1>2, SweepStutter
<1>3. CASE \E a \in Agent : SweepStep(a)
  BY <1>1, <1>3, SweepStepInv
<1>4. CASE \/ \E w \in DOMAIN work : Expire(w) /\ UNCHANGED <<platformTables, sweepTables>>
           \/ \E w \in held : MarkElapses(w) /\ UNCHANGED sweepTables
           \/ Cancel /\ UNCHANGED <<platformTables, sweepTables>>
  BY <1>1, <1>4, EnvironmentCalm, EnvironmentInv
<1>. QED
  BY <1>1, <1>2, <1>3, <1>4 DEF SweepNext

\* Every state that workers and colonies reach together, whatever expires, is lost or
\* answers late, satisfies SweepInv.
THEOREM SweepInvariance == SweepSpec => []SweepInv
BY SweepInitInv, SweepNextInv, PTL DEF SweepSpec

\* Nothing is read twice, whoever claims the work next.
THEOREM ReadsAreOnce == SweepSpec => []ReadOnce
<1>1. SweepInv => ReadOnce
  BY DEF SweepInv
<1>. QED
  BY <1>1, SweepInvariance, PTL

\* A process that is between two items holds no lease that still stands.
THEOREM NothingLeftHeld == SweepSpec => []LeavesNothing
<1>1. SweepInv => LeavesNothing
  BY DEF SweepInv, Mind, OneLease, LeavesNothing, Working
<1>. QED
  BY <1>1, SweepInvariance, PTL

\* A colony's proposal stands at the end of a complete walk, whoever paid for the reads.
LEMMA CandidateWalked == SweepInv => ProposedAtLeaf
<1>1. SUFFICES ASSUME SweepInv, NEW c \in DOMAIN candidates, c.by = "colony"
               PROVE  LET At_(k) == CHOOSE d \in Sent(c.work) : d.n = k
                          path == [k \in 1 .. c.n + 1 |-> shown[At_(k - 1)]]
                      IN path \in DOMAIN Leaves /\ Leaves[path] \in {"accept", "reject"}
  BY DEF ProposedAtLeaf
<1>. DEFINE w == c.work
            At_(k) == CHOOSE d \in Sent(w) : d.n = k
            path == [k \in 1 .. c.n + 1 |-> shown[At_(k - 1)]]
<1>2. c \in DOMAIN calls /\ w \in DOMAIN work /\ AtLeaf(c)
  BY <1>1 DEF SweepInv, SweepTypeOK, CandidatesAtLeaf, PlatformInv, TreeInv, LedgerInv, TypeOK
<1>3. PICK h \in DOMAIN Leaves : /\ Leaves[h] \in {"accept", "reject"}
                                 /\ Len(h) = c.n + 1
                                 /\ Spells(w, h)
  BY <1>2 DEF AtLeaf
<1>4. ASSUME NEW k \in 1 .. Len(h) PROVE shown[At_(k - 1)] = h[k]
  <2>1. PICK d \in CallsOf(w) : /\ d.by = "colony" /\ d.n = k - 1
                                /\ calls[d].state = "received" /\ shown[d] = h[k]
    BY <1>3 DEF Spells
  <2>2. d \in Sent(w)
    BY <2>1 DEF Sent
  <2>3. \A e \in Sent(w) : e.n = k - 1 => e = d
    BY <1>1, <1>2, <2>1, <2>2 DEF SweepInv, ReadOnce
  <2>4. At_(k - 1) = d
    BY <2>1, <2>2, <2>3
  <2>. QED
    BY <2>1, <2>4
<1>5. h \in Seq({"no", "yes"})
  BY TreeAssumption
<1>6. path = h
  <2>1. h = [k \in 1 .. Len(h) |-> h[k]]
    BY <1>5
  <2>. HIDE DEF At_
  <2>. QED
    BY <1>3, <1>4, <2>1
<1>. QED
  BY <1>3, <1>6

\* So every proposal of a colony is backed by the receipts of one complete history.
THEOREM ProposalsAtLeaves == SweepSpec => []ProposedAtLeaf
BY CandidateWalked, SweepInvariance, PTL

\* The sweeps are callers of the work-tree layer like any other: what it promises of
\* budgets, ends and leases holds under them.
THEOREM SweepKeepsTree ==
  SweepSpec => [](/\ BudgetTree
                  /\ GraphWellFounded
                  /\ DoneMeansDecided
                  /\ DoneIsSettled
                  /\ NewestLeaseFenced)
<1>1. SweepInv => /\ BudgetTree
                  /\ GraphWellFounded
                  /\ DoneMeansDecided
                  /\ DoneIsSettled
                  /\ NewestLeaseFenced
  BY DEF SweepInv, PlatformInv, TreeInv, LedgerInv, BudgetTree
<1>. QED
  BY <1>1, SweepInvariance, PTL
=============================================================================
