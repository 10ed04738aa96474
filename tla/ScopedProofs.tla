---------------------------- MODULE ScopedProofs ----------------------------
(***************************************************************************)
(* Theorems about ScopedPlatform: the work tree over the evidence layer.   *)
(*                                                                         *)
(* What the work-tree layer adds to the ledger (TreeInv) and what the      *)
(* evidence layer does to it are proved where they belong; here the two    *)
(* meet.  A tree goes down together because children inherit the           *)
(* inspection of their parent (Inherits), an update supersedes every open  *)
(* work it outdates, and a cancelled work has no superseded parent         *)
(* (RunMatchesWork).  As in the evidence layer an update bumps epochs      *)
(* under unknown calls, so UnknownBlocksRetry is not among the invariants: *)
(* TreeInv has UnknownNotOffered.                                          *)
(***************************************************************************)
EXTENDS ScopedPlatform, PlatformProofs, EvidenceProofs

\* Children inspect what their parent inspects, or nothing as it does.
Inherits ==
  \A w \in DOMAIN work :
    LET p == meta[w].parent IN
    p # None =>
      /\ w \in DOMAIN inspections <=> p \in DOMAIN inspections
      /\ p \in DOMAIN inspections => inspections[w] = inspections[p]

ScopedInv ==
  /\ TreeInv
  /\ ArtifactsBacked
  /\ EvidenceTypeOK
  /\ Inherits
  /\ HolderMayRead
  /\ TreeClosedTogether

-----------------------------------------------------------------------------
\* The steps of the composition

\* A work is leased only to somebody who may read its source.
ClaimsChecked ==
  \/ UNCHANGED granted
  \/ \E a \in Agent, w \in DOMAIN work : Claim(a, w) /\ Current(w, a)

\* A work is decided only by somebody who may read its source.
DecisionsChecked ==
  \A w \in DOMAIN decisions' \ DOMAIN decisions : Current(w, decisions'[w].publisher)

SameSources == UNCHANGED <<sources, inspections>>

ScopedStep == OwnTreeStep /\ ClaimsChecked /\ DecisionsChecked

ScopedEnd ==
  \E w \in DOMAIN work, a \in Agent : \E rows, freed :
    /\ EndsFrom(rows, w, a, freed)
    /\ Terminate(rows, w, a, freed)
    /\ Current(w, a)

\* A step that claims, publishes and decides nothing has nothing to check.
LEMMA PlainScopedStep ==
  ASSUME [LedgerNext]_vars, UNCHANGED <<artifacts, granted, meta, decisions>>,
         DOMAIN calls' = DOMAIN calls
  PROVE  ScopedStep
BY PlainTreeStep DEF ScopedStep, ClaimsChecked, DecisionsChecked

\* The steps that use no lease and decide nothing.
LEMMA FreeSteps ==
  ASSUME TypeOK,
         \/ UNCHANGED scopedVars
         \/ \E w \in DOMAIN work : Expire(w) /\ UNCHANGED platformTables
         \/ RecoverFreely
         \/ \E c \in DOMAIN calls, p \in Tokens, q \in Tokens, o \in BOOLEAN :
              Receive(c, p, q, o) /\ UNCHANGED platformTables
         \/ Cancel /\ UNCHANGED platformTables
         \/ \E w \in held : MarkElapses(w)
         \/ \E l \in granted : Renew(l)
         \/ \E w \in DOMAIN work, ahead \in BOOLEAN : MarkNoEntry(w, ahead)
         \/ \E l \in granted, c \in DOMAIN calls, loss \in Losses : Propose(l, c, loss)
         \/ \E w \in DOMAIN work, p \in Agent : CommitWaits(w, p)
  PROVE  ScopedStep
<1>. USE DEF platformTables
<1>1. CASE UNCHANGED scopedVars
  BY <1>1, PlainScopedStep DEF scopedVars, vars
<1>2. ASSUME NEW w \in DOMAIN work, Expire(w) /\ UNCHANGED platformTables PROVE ScopedStep
  BY <1>2, PlainScopedStep DEF Expire, LedgerNext
<1>3. CASE RecoverFreely
  BY <1>3, PlainScopedStep, AbandonedCalls DEF RecoverFreely, Recover, LedgerNext
<1>4. ASSUME NEW c \in DOMAIN calls, NEW p \in Tokens, NEW q \in Tokens, NEW o \in BOOLEAN,
             Receive(c, p, q, o) /\ UNCHANGED platformTables
      PROVE  ScopedStep
  BY <1>4, PlainScopedStep, ReceiveIsLedger DEF Receive, Settle
<1>5. CASE Cancel /\ UNCHANGED platformTables
  BY <1>5, PlainScopedStep, AbandonedCalls DEF Cancel, LedgerNext
<1>6. ASSUME NEW w \in held, MarkElapses(w) PROVE ScopedStep
  BY <1>6, PlainScopedStep DEF MarkElapses, vars
<1>7. ASSUME NEW l \in granted, Renew(l) PROVE ScopedStep
  BY <1>7, PlainScopedStep DEF Renew, vars
<1>8. ASSUME NEW w \in DOMAIN work, NEW ahead \in BOOLEAN, MarkNoEntry(w, ahead)
      PROVE  ScopedStep
  BY <1>8, PlainScopedStep DEF MarkNoEntry, vars
<1>9. ASSUME NEW l \in granted, NEW c \in DOMAIN calls, NEW loss \in Losses,
             Propose(l, c, loss)
      PROVE  ScopedStep
  BY <1>9, PlainScopedStep DEF Propose, vars
<1>10. ASSUME NEW w \in DOMAIN work, NEW p \in Agent, CommitWaits(w, p) PROVE ScopedStep
  BY <1>10, PlainScopedStep DEF CommitWaits, vars
<1>. HIDE DEF platformTables
<1>. QED
  BY <1>1, <1>2, <1>3, <1>4, <1>5, <1>6, <1>7, <1>8, <1>9, <1>10

\* The steps that claim or use a lease and end nothing without an artifact.
LEMMA LeaseSteps ==
  ASSUME TypeOK,
         \/ \E a \in Agent, w \in DOMAIN work : ScopedClaim(a, w)
         \/ \E l \in granted, c \in CallId, p \in Tokens, m \in Tokens : ReserveCapped(l, c, p, m)
         \/ \E l \in granted, c \in DOMAIN calls : Dispatch(l, c) /\ UNCHANGED platformTables
         \/ \E l \in granted, c \in DOMAIN calls : PublishSettled(l, c)
         \/ \E a \in Agent, c \in DOMAIN calls : PublishReceivedSettled(a, c)
         \/ \E p \in Agent, c \in DOMAIN calls, loss \in Losses :
              CommitPublishes(p, c, loss) /\ DecidedNow(calls[c].work, p)
  PROVE  ScopedStep
<1>. USE DEF platformTables
<1>1. ASSUME NEW a \in Agent, NEW w \in DOMAIN work, ScopedClaim(a, w) PROVE ScopedStep
  <2>1. ClaimAvailable(a, w) /\ Claim(a, w) /\ Current(w, a)
    BY <1>1 DEF ScopedClaim, ClaimAvailable
  <2>2. OwnTreeStep
    BY <2>1, PlainTreeStep, AbandonedCalls DEF ClaimAvailable, Claim, LedgerNext
  <2>3. UNCHANGED decisions
    BY <2>1 DEF ClaimAvailable
  <2>. QED
    BY <2>1, <2>2, <2>3 DEF ScopedStep, ClaimsChecked, DecisionsChecked
<1>2. ASSUME NEW l \in granted, NEW c \in CallId, NEW p \in Tokens, NEW m \in Tokens,
             ReserveCapped(l, c, p, m)
      PROVE  ScopedStep
  BY <1>2, ReserveTreeStep
  DEF ReserveCapped, Reserve, ScopedStep, ClaimsChecked, DecisionsChecked
<1>3. ASSUME NEW l \in granted, NEW c \in DOMAIN calls,
             Dispatch(l, c) /\ UNCHANGED platformTables
      PROVE  ScopedStep
  BY <1>3, PlainScopedStep, DispatchedRow DEF LedgerNext
<1>4. ASSUME NEW l \in granted, NEW c \in DOMAIN calls, PublishSettled(l, c) PROVE ScopedStep
  BY <1>4, PublishTreeStep
  DEF PublishSettled, Publish, RecordArtifact, ScopedStep, ClaimsChecked, DecisionsChecked
<1>5. ASSUME NEW a \in Agent, NEW c \in DOMAIN calls, PublishReceivedSettled(a, c)
      PROVE  ScopedStep
  <2>1. /\ PublishHeld(a, c) \/ PublishReclaimed(a, c)
        /\ UNCHANGED <<meta, decisions>>
    BY <1>5 DEF PublishReceivedSettled
  <2>2. UNCHANGED granted
    BY <2>1 DEF PublishHeld, PublishReclaimed, RecordArtifact
  <2>. QED
    BY <2>1, <2>2, ReceivedTreeStep DEF ScopedStep, ClaimsChecked, DecisionsChecked
<1>6. ASSUME NEW p \in Agent, NEW c \in DOMAIN calls, NEW loss \in Losses,
             CommitPublishes(p, c, loss) /\ DecidedNow(calls[c].work, p)
      PROVE  ScopedStep
  <2>. DEFINE w == calls[c].work
              row == [decision |-> "publish", call |-> c, publisher |-> p]
  <2>1. Current(w, p) /\ decisions' = Put(decisions, w, row)
    BY <1>6 DEF DecidedNow, CommitPublishes
  <2>2. UNCHANGED granted
    BY <1>6 DEF CommitPublishes, PublishHeld, PublishReclaimed, RecordArtifact, vars
  <2>3. DecisionsChecked
    BY <2>1 DEF DecisionsChecked, Put
  <2>. QED
    BY <1>6, <2>2, <2>3, CommitTreeStep DEF ScopedStep, ClaimsChecked
<1>. HIDE DEF platformTables
<1>. QED
  BY <1>1, <1>2, <1>3, <1>4, <1>5, <1>6

\* Abstentions, by the holder or by the rule.
LEMMA EndSteps ==
  ASSUME TypeOK,
         \/ \E l \in granted : Abstain(l) /\ HeldNow(l)
         \/ \E w \in DOMAIN work, p \in Agent : CommitAbstains(w, p) /\ DecidedNow(w, p)
  PROVE  ScopedEnd
<1>1. ASSUME NEW l \in granted, Abstain(l) /\ HeldNow(l) PROVE ScopedEnd
  <2>1. /\ l.work \in DOMAIN work /\ l.owner \in Agent
        /\ run.status = "running" /\ work[l.work].status = "leased"
        /\ Terminate(work, l.work, l.owner, {})
        /\ Current(l.work, l.owner)
    BY <1>1 DEF Abstain, Holds, TypeOK, Lease, HeldNow
  <2>2. EndsFrom(work, l.work, l.owner, {})
    BY <2>1 DEF EndsFrom
  <2>. QED
    BY <2>1, <2>2 DEF ScopedEnd
<1>2. ASSUME NEW w \in DOMAIN work, NEW p \in Agent, CommitAbstains(w, p) /\ DecidedNow(w, p)
      PROVE  ScopedEnd
  <2>. DEFINE claimed == [RecoveredWork EXCEPT ![w] = Leased(@, p)]
  <2>1. run.status = "running" /\ Current(w, p)
    BY <1>2 DEF CommitAbstains, DecidedNow
  <2>2. CASE RecoveredWork[w].status = "leased" /\ Terminate(RecoveredWork, w, p, Expired)
    <3>1. EndsFrom(RecoveredWork, w, p, Expired)
      BY <2>1, <2>2 DEF EndsFrom
    <3>. QED
      BY <2>1, <2>2, <3>1 DEF ScopedEnd
  <2>3. CASE Claimable(p, w, RecoveredWork) /\ Terminate(claimed, w, p, Expired)
    <3>1. EndsFrom(claimed, w, p, Expired)
      BY <2>1, <2>3 DEF EndsFrom
    <3>. QED
      BY <2>1, <2>3, <3>1 DEF ScopedEnd
  <2>. QED
    BY <1>2, <2>2, <2>3 DEF CommitAbstains
<1>. QED
  BY <1>1, <1>2

\* Every step of the composition is of a kind one of its layers knows.
LEMMA ScopedSteps ==
  ASSUME TypeOK, EvidenceTypeOK, [ScopedNext]_scopedVars
  PROVE  \/ ScopedStep /\ SameSources
         \/ ScopedEnd /\ SameSources
         \/ \E l \in granted : Release(l) /\ SameSources
         \/ \E l \in granted, kids \in Offers : ScopedDecompose(l, kids)
         \/ Update /\ UNCHANGED platformTables
<1>1. UNCHANGED evidenceTables => SameSources
  BY DEF evidenceTables, SameSources
<1>2. CASE UNCHANGED scopedVars
  BY <1>1, <1>2, FreeSteps DEF scopedVars
<1>3. CASE /\ \/ \E w \in DOMAIN work : Expire(w) /\ UNCHANGED platformTables
              \/ RecoverFreely
              \/ \E c \in DOMAIN calls, p \in Tokens, q \in Tokens, o \in BOOLEAN :
                   Receive(c, p, q, o) /\ UNCHANGED platformTables
              \/ Cancel /\ UNCHANGED platformTables
              \/ \E w \in held : MarkElapses(w)
           /\ UNCHANGED evidenceTables
  BY <1>1, <1>3, FreeSteps
<1>4. CASE \E a \in Agent, w \in DOMAIN work : ScopedClaim(a, w)
  BY <1>4, LeaseSteps DEF ScopedClaim, SameSources
<1>5. ASSUME NEW l \in granted,
             /\ \/ \E c \in CallId, p \in Tokens, m \in Tokens : ReserveCapped(l, c, p, m)
                \/ \E c \in DOMAIN calls : Dispatch(l, c) /\ UNCHANGED platformTables
                \/ \E c \in DOMAIN calls : PublishSettled(l, c)
                \/ \E c \in DOMAIN calls, loss \in Losses : Propose(l, c, loss)
                \/ Release(l)
                \/ Renew(l)
                \/ Abstain(l)
             /\ HeldNow(l)
      PROVE  (ScopedStep \/ ScopedEnd \/ Release(l)) /\ SameSources
  <2>1. SameSources
    BY <1>1, <1>5 DEF HeldNow
  <2>2. CASE \E c \in CallId, p \in Tokens, m \in Tokens : ReserveCapped(l, c, p, m)
    BY <2>1, <2>2, LeaseSteps
  <2>3. CASE \E c \in DOMAIN calls : Dispatch(l, c) /\ UNCHANGED platformTables
    BY <2>1, <2>3, LeaseSteps
  <2>4. CASE \E c \in DOMAIN calls : PublishSettled(l, c)
    BY <2>1, <2>4, LeaseSteps
  <2>5. CASE \E c \in DOMAIN calls, loss \in Losses : Propose(l, c, loss)
    BY <2>1, <2>5, FreeSteps
  <2>6. CASE Renew(l)
    BY <2>1, <2>6, FreeSteps
  <2>7. CASE Abstain(l)
    BY <1>5, <2>1, <2>7, EndSteps
  <2>. QED
    BY <1>5, <2>1, <2>2, <2>3, <2>4, <2>5, <2>6, <2>7
<1>6. ASSUME NEW a \in Agent, NEW c \in DOMAIN calls,
             PublishReceivedSettled(a, c) /\ DecidedNow(calls[c].work, a)
      PROVE  ScopedStep /\ SameSources
  BY <1>6, LeaseSteps DEF DecidedNow, SameSources
<1>7. ASSUME NEW w \in DOMAIN work, NEW p \in Agent,
             (CommitWaits(w, p) \/ CommitAbstains(w, p)) /\ DecidedNow(w, p)
      PROVE  (ScopedStep \/ ScopedEnd) /\ SameSources
  BY <1>7, FreeSteps, EndSteps DEF DecidedNow, SameSources
<1>8. ASSUME NEW p \in Agent, NEW c \in DOMAIN calls, NEW loss \in Losses,
             CommitPublishes(p, c, loss) /\ DecidedNow(calls[c].work, p)
      PROVE  ScopedStep /\ SameSources
  BY <1>8, LeaseSteps DEF DecidedNow, SameSources
<1>9. ASSUME NEW w \in DOMAIN work, NEW ahead \in BOOLEAN, ScopedMark(w, ahead)
      PROVE  ScopedStep /\ SameSources
  BY <1>1, <1>9, FreeSteps DEF ScopedMark
<1>10. ASSUME NEW s \in DOMAIN sources, NEW v \in 1 .. MaxVersion, NEW R \in SUBSET Agent,
              NEW f \in Fingerprint, SourceUpdate(s, v, R, f) /\ UNCHANGED platformTables
       PROVE  Update /\ UNCHANGED platformTables
  <2>1. v \in Nat \ {0}
    BY SourceAssumption
  <2>. QED
    BY <1>10, <2>1 DEF Update
<1>. QED
  BY <1>2, <1>3, <1>4, <1>5, <1>6, <1>7, <1>8, <1>9, <1>10 DEF ScopedNext

-----------------------------------------------------------------------------
\* Leases

\* Only claim leaves a lease of a new epoch, and it hands it out.
LEMMA NothingClaimed ==
  ASSUME LedgerInv, [LedgerNext]_vars, UNCHANGED granted,
         NEW w \in DOMAIN work, work'[w].status = "leased"
  PROVE  work'[w].epoch = work[w].epoch
<1>1. TypeOK
  BY DEF LedgerInv
<1>2. CASE UNCHANGED vars
  BY <1>2 DEF vars
<1>3. ASSUME NEW v \in DOMAIN work, Expire(v) PROVE work'[w].epoch = work[w].epoch
  BY <1>1, <1>3 DEF Expire, TypeOK, Row
<1>4. CASE Recover
  BY <1>1, <1>4, RecoveredRows DEF Recover
<1>5. ASSUME NEW a \in Agent, NEW v \in DOMAIN work, Claim(a, v) PROVE FALSE
  <2>. DEFINE lease == [work |-> v, owner |-> a, epoch |-> work[v].epoch + 1]
  <2>1. lease \in granted
    BY <1>5 DEF Claim
  <2>2. lease.epoch <= work[lease.work].epoch
    BY <2>1 DEF LedgerInv, GrantsBounded
  <2>3. lease.epoch = work[v].epoch + 1 /\ lease.work = v /\ work[v].epoch \in Nat
    BY <1>1 DEF TypeOK, Row
  <2>. QED
    BY <2>2, <2>3
<1>6. ASSUME NEW l \in granted, NEW c \in CallId, NEW p \in Nat, NEW m \in Nat,
             Reserve(l, c, p, m)
      PROVE  work'[w].epoch = work[w].epoch
  BY <1>6 DEF Reserve
<1>7. ASSUME NEW l \in granted, NEW c \in DOMAIN calls, Dispatch(l, c)
      PROVE  work'[w].epoch = work[w].epoch
  BY <1>7 DEF Dispatch
<1>8. ASSUME NEW c \in DOMAIN calls, NEW n \in Nat, NEW o \in BOOLEAN,
             n <= calls[c].prompt + calls[c].maximum, Settle(c, n, o)
      PROVE  work'[w].epoch = work[w].epoch
  BY <1>1, <1>8, SettledRows
<1>9. ASSUME NEW v \in DOMAIN work, NEW a \in Agent, NEW c \in DOMAIN calls, Published(v, a, c)
      PROVE  work'[w].epoch = work[w].epoch
  <2>1. PICK rows, freed : /\ EndsFrom(rows, v, a, freed)
                           /\ RecordArtifact(rows, v, a, c, freed)
    BY <1>9 DEF Published
  <2>2. Ended(rows, v, freed)
    BY <2>1 DEF RecordArtifact, Ended
  <2>3. w # v
    BY <2>1, <2>2, EndedTables
  <2>. QED
    BY <2>1, <2>2, <2>3, EndedOthers
<1>10. CASE Cancel
  BY <1>1, <1>10, CancelledRows
<1>. QED
  BY <1>2, <1>3, <1>4, <1>5, <1>6, <1>7, <1>8, <1>9, <1>10 DEF LedgerNext

\* The rows a claim leaves.
LEMMA ClaimedRows ==
  ASSUME LedgerInv, NEW a \in Agent, NEW w \in DOMAIN work, Claim(a, w)
  PROVE  /\ work'[w].owner = a
         /\ \A v \in DOMAIN work \ {w} : work'[v].epoch = work[v].epoch
<1>1. TypeOK
  BY DEF LedgerInv
<1>2. work' = [RecoveredWork EXCEPT ![w] = Leased(RecoveredWork[w], a)]
  BY DEF Claim
<1>. QED
  BY <1>1, <1>2, RecoveredRows, LeasedRow DEF TypeOK

\* A step under the layer's checks leaves leases with those who may read only.
LEMMA HolderKept ==
  ASSUME LedgerInv, LedgerInv', HolderMayRead, SameSources, NEW E, RowsKept(E),
         \A w \in DOMAIN work :
           work'[w].status = "leased" =>
             work'[w].epoch = work[w].epoch \/ Current(w, work'[w].owner)
  PROVE  HolderMayRead'
<1>1. SUFFICES ASSUME NEW w \in DOMAIN work, work'[w].status = "leased"
               PROVE  Current(w, work'[w].owner)
  BY DEF HolderMayRead, RowsKept, SameSources, Current
<1>2. CASE work'[w].epoch = work[w].epoch
  <2>1. work'[w].owner # None
    BY <1>1 DEF LedgerInv, OwnersLease, RowsKept
  <2>2. work'[w].owner = work[w].owner
    BY <1>2, <2>1 DEF RowsKept
  <2>3. work[w].status = "leased"
    BY <2>1, <2>2 DEF LedgerInv, OwnersLease
  <2>. QED
    BY <2>2, <2>3 DEF HolderMayRead
<1>. QED
  BY <1>1, <1>2

\* A claim was checked, and a lease that was not claimed now was there before.
LEMMA StepHolder ==
  ASSUME LedgerInv, LedgerInv', HolderMayRead, SameSources, ScopedStep
  PROVE  HolderMayRead'
<1>1. RowsKept(Fresh)
  BY StepKeeps DEF ScopedStep, OwnTreeStep, TreeStep
<1>2. ASSUME NEW w \in DOMAIN work, work'[w].status = "leased"
      PROVE  work'[w].epoch = work[w].epoch \/ Current(w, work'[w].owner)
  <2>1. CASE UNCHANGED granted
    BY <1>2, <2>1, NothingClaimed DEF ScopedStep, OwnTreeStep, TreeStep
  <2>2. ASSUME NEW a \in Agent, NEW v \in DOMAIN work, Claim(a, v) /\ Current(v, a)
        PROVE  work'[w].epoch = work[w].epoch \/ Current(w, work'[w].owner)
    BY <2>2, ClaimedRows
  <2>. QED
    BY <2>1, <2>2 DEF ScopedStep, ClaimsChecked
<1>. QED
  BY <1>1, <1>2, HolderKept

-----------------------------------------------------------------------------
\* The tree

\* The tree and what it inspects only change in a decomposition.
LEMMA SameInherits ==
  ASSUME Inherits, UNCHANGED <<meta, inspections>>, DOMAIN work' = DOMAIN work
  PROVE  Inherits'
BY DEF Inherits

\* A cancelled work has no superseded neighbour.
LEMMA NoneSuperseded ==
  ASSUME LedgerInv, NEW w \in DOMAIN work, NEW p \in DOMAIN work, work[w].status = "cancelled"
  PROVE  work[p].status \in {"done", "cancelled"}
BY DEF LedgerInv, TypeOK, Run, RunStatus, RunMatchesWork

\* A tree that went down together stays down.
LEMMA TogetherKept ==
  ASSUME LedgerInv', PlatformTypeOK, TreeClosedTogether, UNCHANGED meta, NEW E, RowsKept(E)
  PROVE  TreeClosedTogether'
<1>1. SUFFICES ASSUME NEW w \in DOMAIN work, meta[w].parent # None,
                      work'[meta[w].parent].status = "superseded"
               PROVE  work'[w].status \in {"superseded", "done"}
  BY DEF TreeClosedTogether, RowsKept
<1>. DEFINE p == meta[w].parent
<1>2. p \in DOMAIN work /\ DOMAIN work' = DOMAIN work
  BY <1>1 DEF PlatformTypeOK, RowsKept
<1>3. work[p].status = "superseded"
  BY <1>1, <1>2 DEF RowsKept
<1>4. work[w].status \in Closed
  BY <1>1, <1>3 DEF TreeClosedTogether, Closed
<1>5. work'[w].status \in Closed
  BY <1>4 DEF RowsKept
<1>6. work'[w].status # "cancelled"
  <2>1. ASSUME work'[w].status = "cancelled" PROVE work'[p].status \in {"done", "cancelled"}
    BY <1>2, <2>1 DEF LedgerInv, TypeOK, Run, RunStatus, RunMatchesWork
  <2>. QED
    BY <1>1, <2>1
<1>. QED
  BY <1>5, <1>6 DEF Closed

-----------------------------------------------------------------------------
\* source_update over a tree

\* An update keeps the invariant of the work tree.
LEMMA UpdatedTree ==
  ASSUME TreeInv, EvidenceTypeOK, NEW s \in DOMAIN sources, NEW v \in Nat \ {0},
         NEW R \in SUBSET Agent, NEW f \in Fingerprint, SourceUpdate(s, v, R, f),
         UNCHANGED platformTables
  PROVE  TreeInv' /\ (ArtifactsBacked => ArtifactsBacked')
<1>1. /\ LedgerInv /\ PlatformTypeOK /\ CapsConserved /\ SpendWithinCaps
      /\ GraphWellFounded /\ DecisionsPublished /\ DoneMeansDecided /\ DoneIsSettled
      /\ TypeOK
  BY DEF TreeInv, LedgerInv
<1>2. PICK hit, stale : Fences(s, v, R, f, hit, stale)
  BY <1>1, UpdatedRows
<1>3. /\ calls' = Abandon(hit)
      /\ UNCHANGED <<artifacts, meta, decisions>>
      /\ DOMAIN work' = DOMAIN work
      /\ \A w \in DOMAIN work : work'[w].dependencies = work[w].dependencies
  BY <1>2 DEF Fences, platformTables
<1>4. ASSUME NEW w \in DOMAIN work PROVE work'[w].status = "done" <=> work[w].status = "done"
  BY <1>2 DEF Fences, Closed
<1>5. CallsKept /\ DOMAIN calls' = DOMAIN calls
  BY <1>1, <1>3, AbandonKeepsCalls, AbandonedCalls
<1>6. LedgerInv'
  BY <1>1, UpdatedLedger
<1>7. ArtifactsBacked => ArtifactsBacked'
  <2>1. \A w \in DOMAIN artifacts : w \in DOMAIN work
    BY <1>1 DEF TypeOK
  <2>2. \A c \in DOMAIN calls :
          calls[c].state = "received" =>
            calls'[c].state = "received" /\ calls'[c].work = calls[c].work
    BY <1>5 DEF CallsKept, Unsettled
  <2>. QED
    BY <1>1, <1>3, <1>4, <1>5, <2>1, <2>2 DEF ArtifactsBacked
<1>8. PlatformTypeOK'
  BY <1>1, <1>3 DEF PlatformTypeOK
<1>9. CapsConserved' /\ GraphWellFounded'
  BY <1>1, <1>3, SameCaps, SameGraph
<1>10. SpendWithinCaps'
  BY <1>1, <1>3, <1>5, <1>6, SameSpendKept DEF LedgerInv
<1>11. DecisionsPublished' /\ DoneMeansDecided'
  BY <1>1, <1>3, <1>4 DEF DecisionsPublished, DoneMeansDecided
<1>12. DoneIsSettled'
  <2>. DEFINE E == {}
  <2>1. /\ \A w \in E : Settled(w)
        /\ \A w \in DOMAIN work :
             work'[w].status = "done" => work[w].status = "done" \/ w \in E
    BY <1>4
  <2>. HIDE DEF E
  <2>. QED
    BY <1>1, <1>5, <1>6, <2>1, SettledKept
<1>. QED
  BY <1>6, <1>7, <1>8, <1>9, <1>10, <1>11, <1>12 DEF TreeInv

\* An update takes the work of those who lost access, and all it outdates, children
\* with their parent.
LEMMA UpdatedScope ==
  ASSUME LedgerInv, PlatformTypeOK, EvidenceTypeOK, Inherits, HolderMayRead, TreeClosedTogether,
         NEW s \in DOMAIN sources, NEW v \in Nat \ {0},
         NEW R \in SUBSET Agent, NEW f \in Fingerprint, SourceUpdate(s, v, R, f),
         UNCHANGED platformTables
  PROVE  Inherits' /\ HolderMayRead' /\ TreeClosedTogether'
<1>1. TypeOK /\ LedgerInv'
  BY UpdatedLedger DEF LedgerInv
<1>2. PICK hit, stale : Fences(s, v, R, f, hit, stale)
  BY <1>1, UpdatedRows
<1>3. UNCHANGED <<meta, inspections>> /\ DOMAIN work' = DOMAIN work
  BY <1>2 DEF Fences, platformTables
<1>4. Inherits'
  BY <1>3, SameInherits
<1>5. HolderMayRead'
  <2>1. SUFFICES ASSUME NEW w \in DOMAIN work, work'[w].status = "leased"
                 PROVE  Current(w, work[w].owner)' /\ work'[w] = work[w]
    BY <1>3 DEF HolderMayRead
  <2>2. w \notin hit
    BY <1>1, <1>2, <1>3, <2>1 DEF Fences, LedgerInv, OwnersLease
  <2>3. work'[w] = work[w]
    BY <1>2, <2>2 DEF Fences
  <2>4. work[w].status = "leased" /\ Current(w, work[w].owner)
    BY <2>1, <2>3 DEF HolderMayRead
  <2>. QED
    BY <1>2, <2>2, <2>3, <2>4, UpdatedLease
<1>6. TreeClosedTogether'
  <2>1. SUFFICES ASSUME NEW w \in DOMAIN work, meta[w].parent # None,
                        work'[meta[w].parent].status = "superseded"
                 PROVE  work'[w].status \in {"superseded", "done"}
    BY <1>3 DEF TreeClosedTogether
  <2>. DEFINE p == meta[w].parent
  <2>2. p \in DOMAIN work
    BY <2>1 DEF PlatformTypeOK
  <2>3. CASE p \in hit
    <3>1. p \in DOMAIN inspections /\ p \in stale /\ work[p].status \notin Closed
      BY <1>2, <2>1, <2>2, <2>3 DEF Fences
    <3>2. /\ inspections[p].source = s
          /\ Stale(p, v, f)
          /\ w \in DOMAIN inspections /\ inspections[w] = inspections[p]
      BY <1>2, <2>1, <3>1 DEF Fences, Inherits
    <3>3. Stale(w, v, f)
      BY <3>2 DEF Stale
    <3>4. CASE work[w].status \notin Closed
      BY <1>2, <3>2, <3>3, <3>4 DEF Fences
    <3>5. CASE work[w].status \in Closed
      <4>1. work[w].status # "cancelled"
        BY <2>2, <3>1, NoneSuperseded DEF Closed
      <4>2. w \notin hit
        BY <1>2, <3>5 DEF Fences
      <4>. QED
        BY <1>2, <3>5, <4>1, <4>2 DEF Fences, Closed
    <3>. QED
      BY <3>4, <3>5
  <2>4. CASE p \notin hit
    <3>1. work[p].status = "superseded"
      BY <1>2, <2>1, <2>2, <2>4 DEF Fences
    <3>2. work[w].status \in {"superseded", "done"}
      BY <2>1, <3>1 DEF TreeClosedTogether
    <3>3. w \notin hit
      BY <1>2, <3>2 DEF Fences, Closed
    <3>. QED
      BY <1>2, <3>2, <3>3 DEF Fences
  <2>. QED
    BY <2>3, <2>4
<1>. QED
  BY <1>4, <1>5, <1>6

-----------------------------------------------------------------------------
\* Decomposition under an inspection

\* Children inherit the inspection, and no reader is lost.
LEMMA ScopedDecomposed ==
  ASSUME ScopedInv, NEW l \in granted, NEW kids, Valid(kids), ScopedDecompose(l, kids)
  PROVE  EvidenceTypeOK' /\ Inherits' /\ HolderMayRead' /\ TreeClosedTogether'
<1>. DEFINE w == l.work
            K == DOMAIN kids
<1>1. /\ TreeInv /\ TypeOK /\ LedgerInv /\ PlatformTypeOK /\ EvidenceTypeOK /\ Inherits
      /\ HolderMayRead /\ TreeClosedTogether
  BY DEF ScopedInv, TreeInv, LedgerInv
<1>2. /\ Decompose(l, kids)
      /\ inspections' = Inherited(w, kids)
      /\ UNCHANGED sources
  BY DEF ScopedDecompose
<1>3. /\ Holds(l)
      /\ w \in DOMAIN work
      /\ K \cap DOMAIN work = {} /\ K \subseteq Work
      /\ DOMAIN work' = DOMAIN work \cup K
      /\ \A k \in K : work'[k].status = "ready"
      /\ work'[w].status = "ready"
      /\ \A v \in DOMAIN work \ {w} : work'[v] = work[v]
  BY <1>1, <1>2, DecomposedRows
<1>4. /\ \A k \in K : meta'[k].parent = w
      /\ \A v \in DOMAIN work : meta'[v].parent = meta[v].parent
  BY <1>1, <1>2, DecomposedCaps
<1>5. /\ DOMAIN inspections \subseteq DOMAIN work
      /\ \A v \in DOMAIN work : v \in DOMAIN inspections' <=> v \in DOMAIN inspections
      /\ \A v \in DOMAIN inspections : inspections'[v] = inspections[v]
      /\ \A k \in K : /\ k \in DOMAIN inspections' <=> w \in DOMAIN inspections
                      /\ w \in DOMAIN inspections => inspections'[k] = inspections[w]
  BY <1>1, <1>2, <1>3 DEF EvidenceTypeOK, Inherited
<1>6. work[w].status = "leased"
  BY <1>3 DEF Holds
<1>7. EvidenceTypeOK'
  <2>1. inspections' \in [DOMAIN inspections' -> InspectionRow]
    BY <1>1, <1>2 DEF EvidenceTypeOK, Inherited
  <2>2. DOMAIN inspections' \subseteq DOMAIN work'
    BY <1>1, <1>2, <1>3 DEF EvidenceTypeOK, Inherited
  <2>. QED
    BY <1>1, <1>2, <2>1, <2>2 DEF EvidenceTypeOK
<1>8. Inherits'
  <2>1. ASSUME NEW v \in DOMAIN work, meta[v].parent # None
        PROVE  LET p == meta[v].parent IN
               /\ v \in DOMAIN inspections' <=> p \in DOMAIN inspections'
               /\ p \in DOMAIN inspections' => inspections'[v] = inspections'[p]
    <3>1. meta[v].parent \in DOMAIN work
      BY <1>1, <2>1 DEF PlatformTypeOK
    <3>. QED
      BY <1>1, <1>5, <2>1, <3>1 DEF Inherits
  <2>2. ASSUME NEW k \in K
        PROVE  /\ k \in DOMAIN inspections' <=> w \in DOMAIN inspections'
               /\ w \in DOMAIN inspections' => inspections'[k] = inspections'[w]
    BY <1>3, <1>5
  <2>. QED
    BY <1>3, <1>4, <2>1, <2>2 DEF Inherits
<1>9. HolderMayRead'
  <2>1. SUFFICES ASSUME NEW v \in DOMAIN work \ {w}, work[v].status = "leased"
                 PROVE  Current(v, work[v].owner)'
    BY <1>3 DEF HolderMayRead
  <2>2. Current(v, work[v].owner)
    BY <1>1, <2>1 DEF HolderMayRead
  <2>3. work'[v] = work[v]
    BY <1>3
  <2>. QED
    BY <1>2, <1>5, <2>1, <2>2, <2>3 DEF Current
<1>10. TreeClosedTogether'
  <2>1. SUFFICES ASSUME NEW v \in DOMAIN work', meta'[v].parent # None,
                        work'[meta'[v].parent].status = "superseded"
                 PROVE  work'[v].status \in {"superseded", "done"}
    BY DEF TreeClosedTogether
  <2>2. v \in DOMAIN work
    BY <1>3, <1>4, <2>1
  <2>. DEFINE p == meta[v].parent
  <2>3. p \in DOMAIN work \ {w} /\ meta'[v].parent = p
    BY <1>1, <1>3, <1>4, <2>1, <2>2 DEF PlatformTypeOK
  <2>4. work[p].status = "superseded"
    BY <1>3, <2>1, <2>3
  <2>5. work[v].status \in {"superseded", "done"}
    BY <1>1, <1>4, <2>1, <2>2, <2>3, <2>4 DEF TreeClosedTogether
  <2>. QED
    BY <1>3, <1>6, <2>2, <2>5
<1>. QED
  BY <1>7, <1>8, <1>9, <1>10

-----------------------------------------------------------------------------
\* Invariance

\* A checked end is an end.
LEMMA EndIsTerminated == ASSUME ScopedEnd PROVE Terminated
BY DEF ScopedEnd, Terminated

\* create.
LEMMA ScopedInitInv == ScopedInit => ScopedInv
<1>1. SUFFICES ASSUME ScopedInit PROVE ScopedInv
  OBVIOUS
<1>2. TreeInv /\ ArtifactsBacked
  BY <1>1, PlatformInitInv DEF ScopedInit, PlatformInv
<1>3. /\ DOMAIN work = DOMAIN Declaration
      /\ \A w \in DOMAIN work : work[w].status = "ready" /\ meta[w].parent = None
  BY <1>1 DEF ScopedInit, PlatformInit, PlatformInitOf, InitOf
<1>4. EvidenceTypeOK
  BY <1>1, <1>3, SourceAssumption DEF ScopedInit, EvidenceTypeOK
<1>5. Inherits /\ HolderMayRead /\ TreeClosedTogether
  BY <1>3 DEF Inherits, HolderMayRead, TreeClosedTogether
<1>. QED
  BY <1>2, <1>4, <1>5 DEF ScopedInv

\* Every step.
LEMMA ScopedNextInv == ScopedInv /\ [ScopedNext]_scopedVars => ScopedInv'
<1>1. SUFFICES ASSUME ScopedInv, [ScopedNext]_scopedVars PROVE ScopedInv'
  OBVIOUS
<1>2. /\ TreeInv /\ TypeOK /\ LedgerInv /\ PlatformTypeOK /\ EvidenceTypeOK /\ Inherits
      /\ ArtifactsBacked /\ HolderMayRead /\ TreeClosedTogether
  BY <1>1 DEF ScopedInv, TreeInv, LedgerInv
<1>3. ASSUME TreeInv', ArtifactsBacked', NEW E, RowsKept(E), UNCHANGED meta, SameSources, HolderMayRead'
      PROVE  ScopedInv'
  <2>1. DOMAIN work' = DOMAIN work /\ LedgerInv'
    BY <1>3 DEF RowsKept, TreeInv
  <2>2. EvidenceTypeOK' /\ Inherits'
    BY <1>2, <1>3, <2>1, SameInherits DEF SameSources, EvidenceTypeOK
  <2>3. TreeClosedTogether'
    BY <1>2, <1>3, <2>1, TogetherKept
  <2>. QED
    BY <1>3, <2>2, <2>3 DEF ScopedInv
<1>4. CASE ScopedStep /\ SameSources
  <2>1. TreeInv' /\ LedgerInv' /\ ArtifactsBacked'
    BY <1>2, <1>4, TreeStepKeeps, BackedKept DEF ScopedStep, OwnTreeStep, TreeInv
  <2>2. RowsKept(Fresh) /\ UNCHANGED meta
    BY <1>2, <1>4, StepKeeps DEF ScopedStep, OwnTreeStep, TreeStep
  <2>3. HolderMayRead'
    BY <1>2, <1>4, <2>1, StepHolder
  <2>. QED
    BY <1>3, <1>4, <2>1, <2>2, <2>3
<1>5. CASE ScopedEnd /\ SameSources
  <2>1. TreeInv' /\ LedgerInv' /\ ArtifactsBacked'
    BY <1>2, <1>5, EndIsTerminated, TerminatedKeeps, BackedKept DEF TreeInv
  <2>2. PICK w \in DOMAIN work, a \in Agent :
          \E rows, freed : /\ EndsFrom(rows, w, a, freed)
                          /\ Terminate(rows, w, a, freed)
    BY <1>5 DEF ScopedEnd
  <2>3. PICK rows, freed : /\ EndsFrom(rows, w, a, freed)
                           /\ Terminate(rows, w, a, freed)
    BY <2>2
  <2>4. Ended(rows, w, freed) /\ UNCHANGED meta
    BY <2>3 DEF Terminate, Ended
  <2>5. RowsKept({w})
    BY <1>2, <2>3, <2>4, EndKeeps
  <2>6. ASSUME NEW v \in DOMAIN work, work'[v].status = "leased"
        PROVE  work'[v].epoch = work[v].epoch
    <3>1. v # w
      BY <1>2, <2>3, <2>4, <2>6, EndedTables
    <3>. QED
      BY <1>2, <2>3, <2>4, <3>1, EndedOthers
  <2>7. HolderMayRead'
    BY <1>2, <1>5, <2>1, <2>5, <2>6, HolderKept
  <2>. QED
    BY <1>3, <1>5, <2>1, <2>4, <2>5, <2>7
<1>6. ASSUME NEW l \in granted, Release(l) /\ SameSources PROVE ScopedInv'
  <2>1. TreeInv' /\ LedgerInv' /\ ArtifactsBacked' /\ RowsKept({})
    BY <1>2, <1>6, ReleaseKeeps, BackedKept DEF TreeInv
  <2>2. UNCHANGED meta /\ \A v \in DOMAIN work : work'[v].epoch = work[v].epoch
    BY <1>2, <1>6, ReleasedRows
  <2>3. HolderMayRead'
    BY <1>2, <1>6, <2>1, <2>2, HolderKept
  <2>. QED
    BY <1>3, <1>6, <2>1, <2>2, <2>3
<1>7. ASSUME NEW l \in granted, NEW kids \in Offers, ScopedDecompose(l, kids)
      PROVE  ScopedInv'
  <2>1. Valid(kids)
    BY OfferAssumption DEF Valid
  <2>2. Decompose(l, kids)
    BY <1>7 DEF ScopedDecompose
  <2>3. TreeInv'
    BY <1>2, <2>1, <2>2, DecomposeKeeps
  <2>4. ArtifactsBacked'
    BY <1>2, <2>1, <2>2, BackedKept DEF Split
  <2>5. EvidenceTypeOK' /\ Inherits' /\ HolderMayRead' /\ TreeClosedTogether'
    BY <1>1, <1>7, <2>1, ScopedDecomposed
  <2>. QED
    BY <2>3, <2>4, <2>5 DEF ScopedInv
<1>8. CASE Update /\ UNCHANGED platformTables
  <2>1. PICK s \in DOMAIN sources, v \in Nat \ {0}, R \in SUBSET Agent, f \in Fingerprint :
          SourceUpdate(s, v, R, f)
    BY <1>8 DEF Update
  <2>2. TreeInv' /\ ArtifactsBacked' /\ EvidenceTypeOK'
    BY <1>2, <1>8, <2>1, UpdatedTree, UpdatedTypes
  <2>3. Inherits' /\ HolderMayRead' /\ TreeClosedTogether'
    BY <1>2, <1>8, <2>1, UpdatedScope
  <2>. QED
    BY <2>2, <2>3 DEF ScopedInv
<1>. QED
  BY <1>1, <1>2, <1>4, <1>5, <1>6, <1>7, <1>8, ScopedSteps

\* Every reachable state of the composition satisfies ScopedInv: the host may announce a
\* new version or new readers between any two steps of the tree.
THEOREM ScopedInvariance == ScopedSpec => []ScopedInv
BY ScopedInitInv, ScopedNextInv, PTL DEF ScopedSpec

\* Whoever holds a lease may read the source it is about.
THEOREM HoldersRead == ScopedSpec => []HolderMayRead
<1>1. ScopedInv => HolderMayRead
  BY DEF ScopedInv
<1>. QED
  BY <1>1, ScopedInvariance, PTL

\* An update that outdates a work closes everything it was decomposed into.
THEOREM TreesCloseTogether == ScopedSpec => []TreeClosedTogether
<1>1. ScopedInv => TreeClosedTogether
  BY DEF ScopedInv
<1>. QED
  BY <1>1, ScopedInvariance, PTL

\* The budget of a tree, its graph, its decisions and the base ledger's leases are as
\* sound under updates as without them.
THEOREM ScopedKeepsTree ==
  ScopedSpec => [](/\ BudgetTree
                   /\ GraphWellFounded
                   /\ DoneMeansDecided
                   /\ DoneIsSettled
                   /\ HeldOverArtifacts
                   /\ UnknownNotOffered
                   /\ NewestLeaseFenced)
<1>1. ScopedInv => /\ BudgetTree
                   /\ GraphWellFounded
                   /\ DoneMeansDecided
                   /\ DoneIsSettled
                   /\ HeldOverArtifacts
                   /\ UnknownNotOffered
                   /\ NewestLeaseFenced
  BY DEF ScopedInv, TreeInv, LedgerInv, BudgetTree
<1>. QED
  BY <1>1, ScopedInvariance, PTL

-----------------------------------------------------------------------------
\* Decisions

\* A step decides nothing, or the one who decides may read before and after it.
LEMMA StepDecides ==
  ASSUME ScopedInv, [ScopedNext]_scopedVars
  PROVE  \A w \in DOMAIN decisions' \ DOMAIN decisions : (Current(w, decisions[w].publisher))'
<1>1. TypeOK /\ EvidenceTypeOK
  BY DEF ScopedInv, TreeInv, LedgerInv
<1>2. ASSUME SameSources, DecisionsChecked
      PROVE  \A w \in DOMAIN decisions' \ DOMAIN decisions : (Current(w, decisions[w].publisher))'
  BY <1>2 DEF SameSources, DecisionsChecked, Current
<1>3. CASE ScopedStep /\ SameSources
  BY <1>2, <1>3 DEF ScopedStep
<1>4. CASE ScopedEnd /\ SameSources
  <2>1. PICK w \in DOMAIN work, a \in Agent :
          \E rows, freed : /\ EndsFrom(rows, w, a, freed)
                          /\ Terminate(rows, w, a, freed)
                          /\ Current(w, a)
    BY <1>4 DEF ScopedEnd
  <2>2. /\ decisions' = Put(decisions, w, [decision |-> "abstain", publisher |-> a])
        /\ Current(w, a)
    BY <2>1 DEF Terminate
  <2>3. DecisionsChecked
    BY <2>2 DEF DecisionsChecked, Put
  <2>. QED
    BY <1>2, <1>4, <2>3
<1>5. UNCHANGED decisions =>
        \A w \in DOMAIN decisions' \ DOMAIN decisions : (Current(w, decisions[w].publisher))'
  OBVIOUS
<1>6. (\E l \in granted : Release(l) /\ SameSources) => UNCHANGED decisions
  BY DEF Release, platformTables
<1>7. (\E l \in granted, kids \in Offers : ScopedDecompose(l, kids)) => UNCHANGED decisions
  BY DEF ScopedDecompose, Decompose
<1>8. Update /\ UNCHANGED platformTables => UNCHANGED decisions
  BY DEF platformTables
<1>. QED
  BY <1>1, <1>3, <1>4, <1>5, <1>6, <1>7, <1>8, ScopedSteps

\* A work ends by publication, abstention or commit only at the hand of somebody who may
\* read what it inspects at that moment.
THEOREM DecidersRead == ScopedSpec => DeciderMayRead
<1>1. ScopedInv /\ [ScopedNext]_scopedVars =>
        [\A w \in DOMAIN decisions' \ DOMAIN decisions :
           (Current(w, decisions[w].publisher))']_scopedVars
  BY StepDecides
<1>. QED
  BY <1>1, ScopedInvariance, PTL DEF ScopedSpec, DeciderMayRead

-----------------------------------------------------------------------------
\* The composition keeps the abstract promise of the base ledger.
THEOREM ScopedRefinement == ScopedSpec => EffectsAtMostOnce
<1>1. ScopedInit => Effects!Init
  BY InitEffects DEF ScopedInit, PlatformInit, PlatformInitOf, Init
<1>2. ScopedInv /\ [ScopedNext]_scopedVars => [Effects!Next]_(Effects!vars)
  <2>. SUFFICES ASSUME ScopedInv, [ScopedNext]_scopedVars
                PROVE  [Effects!Next]_(Effects!vars)
    OBVIOUS
  <2>1. TreeInv /\ ArtifactsBacked /\ TypeOK /\ EvidenceTypeOK
    BY DEF ScopedInv, TreeInv, LedgerInv
  <2>2. CASE ScopedStep
    BY <2>1, <2>2, TreeEffects DEF ScopedStep
  <2>3. CASE ScopedEnd
    BY <2>1, <2>3, EndIsTerminated, TreeEffects
  <2>4. ASSUME NEW l \in granted, Release(l) PROVE [Effects!Next]_(Effects!vars)
    BY <2>1, <2>4, TreeEffects
  <2>5. ASSUME NEW l \in granted, NEW kids \in Offers, ScopedDecompose(l, kids)
        PROVE  [Effects!Next]_(Effects!vars)
    <3>1. Valid(kids)
      BY OfferAssumption DEF Valid
    <3>2. Split
      BY <2>5, <3>1 DEF ScopedDecompose, Split
    <3>. QED
      BY <2>1, <3>2, TreeEffects
  <2>6. CASE Update
    BY <2>1, <2>6, WithdrawEffects DEF Update, SourceUpdate
  <2>. QED
    BY <2>1, <2>2, <2>3, <2>4, <2>5, <2>6, ScopedSteps
<1>. QED
  BY <1>1, <1>2, ScopedInvariance, PTL DEF ScopedSpec, EffectsAtMostOnce, Effects!Spec
=============================================================================
