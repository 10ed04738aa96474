--------------------------- MODULE PlatformProofs ---------------------------
(***************************************************************************)
(* Theorems about Platform, for any tree of work and any limits.           *)
(*                                                                         *)
(* A step of the layer is a step of the base ledger under the layer's      *)
(* checks (TreeStep), a decomposition, a release, or an end without an     *)
(* artifact (Terminated).  The first keeps LedgerInv because every base    *)
(* step does; the other three are dealt with here.  TreeInv adds to        *)
(* LedgerInv what relates the tables of the two layers.                    *)
(***************************************************************************)
EXTENDS Platform, SessionProofs

MetaRow == [parent : Work \cup {None}, depth : Nat, caps : Caps, original : Caps]

PlatformTypeOK ==
  /\ IsFiniteSet(DOMAIN work)
  /\ DOMAIN meta = DOMAIN work
  /\ meta \in [DOMAIN work -> MetaRow]
  /\ \A w \in DOMAIN work : meta[w].parent \in DOMAIN work \cup {None}
  /\ DOMAIN decisions \subseteq DOMAIN work
  /\ \A w \in DOMAIN decisions : decisions[w].decision \in {"publish", "abstain"}

\* A recorded publication has its artifact.
DecisionsPublished ==
  \A w \in DOMAIN decisions :
    decisions[w].decision = "publish" => w \in DOMAIN artifacts

TreeInv ==
  /\ LedgerInv
  /\ PlatformTypeOK
  /\ CapsConserved
  /\ SpendWithinCaps
  /\ GraphWellFounded
  /\ DecisionsPublished
  /\ DoneMeansDecided
  /\ DoneIsSettled

PlatformInv == TreeInv /\ ArtifactsBacked /\ UnknownBlocksRetry

-----------------------------------------------------------------------------
\* The steps of the layer

\* A base step: a reservation was affordable, a publication found no unknown call,
\* and a recorded decision to publish is about the artifact there is.
TreeStep ==
  /\ [LedgerNext]_vars
  /\ UNCHANGED meta
  /\ \/ DOMAIN calls' = DOMAIN calls
     \/ \E l \in granted, c \in CallId, p \in Nat, m \in Nat :
          Reserve(l, c, p, m) /\ Affordable(l.work, [calls |-> 1, tokens |-> p + m])
  /\ \A w \in Fresh : Settled(w)
  /\ \/ UNCHANGED decisions
     \/ \E w \in DOMAIN work, p \in Agent :
          /\ w \notin DOMAIN decisions /\ w \in DOMAIN artifacts'
          /\ decisions' = Put(decisions, w, [decision |-> "publish",
                                             call |-> artifacts'[w].call,
                                             publisher |-> p])

\* Work is published from receipts of its own only.
OwnTreeStep == TreeStep /\ OwnReceipts

\* What decompose validates of the children it is given.
Valid(kids) ==
  IsFiniteSet(DOMAIN kids) /\ DOMAIN kids \subseteq Work /\ kids \in [DOMAIN kids -> Child]

Split == \E l \in granted : \E kids : Valid(kids) /\ Decompose(l, kids)

\* Work is abstained from.
Terminated ==
  \E w \in DOMAIN work, a \in Agent : \E rows, freed :
    EndsFrom(rows, w, a, freed) /\ Terminate(rows, w, a, freed)

\* A base step that neither reserves nor publishes nor decides.
LEMMA PlainTreeStep ==
  ASSUME [LedgerNext]_vars, UNCHANGED <<artifacts, meta, decisions>>,
         DOMAIN calls' = DOMAIN calls
  PROVE  OwnTreeStep
BY OldReceipts DEF OwnTreeStep, TreeStep, Fresh

\* reserve, with the room the work has left.
LEMMA ReserveTreeStep ==
  ASSUME TypeOK, NEW l \in granted, NEW c \in CallId, NEW p \in Tokens, NEW m \in Tokens,
         ReserveCapped(l, c, p, m)
  PROVE  OwnTreeStep
<1>1. /\ Reserve(l, c, p, m)
      /\ Affordable(l.work, [calls |-> 1, tokens |-> p + m])
      /\ UNCHANGED <<meta, decisions>>
  BY DEF ReserveCapped, platformTables
<1>2. LedgerNext /\ UNCHANGED artifacts
  BY <1>1, ReserveIsLedger
<1>3. p \in Nat /\ m \in Nat
  BY LimitAssumption
<1>. QED
  BY <1>1, <1>2, <1>3, OldReceipts DEF OwnTreeStep, TreeStep, Fresh

\* publish of settled work.
LEMMA PublishTreeStep ==
  ASSUME TypeOK, NEW l \in granted, NEW c \in DOMAIN calls, PublishSettled(l, c)
  PROVE  OwnTreeStep
<1>1. /\ Publish(l, c)
      /\ Settled(l.work)
      /\ UNCHANGED <<meta, decisions>>
  BY DEF PublishSettled, platformTables
<1>2. LedgerNext /\ OwnReceipts /\ Fresh = {l.work}
  BY <1>1, PublishIsLedger
<1>3. DOMAIN calls' = DOMAIN calls
  BY <1>1, AbandonedCalls DEF Publish, RecordArtifact
<1>. QED
  BY <1>1, <1>2, <1>3 DEF OwnTreeStep, TreeStep

\* publish_received, alone or as the second half of commit.
LEMMA ReceivedTreeStep ==
  ASSUME TypeOK, NEW a \in Agent, NEW c \in DOMAIN calls,
         PublishHeld(a, c) \/ PublishReclaimed(a, c), UNCHANGED meta,
         \/ UNCHANGED decisions
         \/ /\ calls[c].work \notin DOMAIN decisions
            /\ decisions' = Put(decisions, calls[c].work,
                                [decision |-> "publish", call |-> c, publisher |-> a])
  PROVE  OwnTreeStep
<1>. DEFINE w == calls[c].work
<1>1. /\ LedgerNext /\ OwnReceipts /\ Fresh = {w} /\ Settled(w)
      /\ artifacts'[w] = [call |-> c, publisher |-> a]
  BY PublishReceivedIsLedger DEF Settled
<1>2. DOMAIN calls' = DOMAIN calls
  BY AbandonedCalls DEF PublishHeld, PublishReclaimed, RecordArtifact
<1>3. w \in DOMAIN work /\ w \in DOMAIN artifacts' /\ artifacts'[w].call = c
  BY <1>1 DEF TypeOK, Fresh
<1>. QED
  BY <1>1, <1>2, <1>3 DEF OwnTreeStep, TreeStep

\* commit of a candidate, also of one already published.
LEMMA CommitTreeStep ==
  ASSUME TypeOK, NEW p \in Agent, NEW c \in DOMAIN calls, NEW loss, CommitPublishes(p, c, loss)
  PROVE  OwnTreeStep
<1>. DEFINE w == calls[c].work
<1>1. /\ w \notin DOMAIN decisions
      /\ decisions' = Put(decisions, w, [decision |-> "publish", call |-> c, publisher |-> p])
      /\ UNCHANGED meta
      /\ w \in DOMAIN work
  BY DEF CommitPublishes, Undecided, TypeOK
<1>2. CASE PublishHeld(p, c) \/ PublishReclaimed(p, c)
  BY <1>1, <1>2, ReceivedTreeStep
<1>3. CASE PublishedFrom(w, c) /\ UNCHANGED vars
  <2>1. /\ w \in DOMAIN artifacts' /\ artifacts'[w].call = c
        /\ DOMAIN calls' = DOMAIN calls
        /\ UNCHANGED <<vars, artifacts>>
    BY <1>3 DEF PublishedFrom, vars
  <2>2. OwnReceipts /\ Fresh = {}
    BY <2>1, OldReceipts DEF Fresh
  <2>. QED
    BY <1>1, <2>1, <2>2 DEF OwnTreeStep, TreeStep
<1>. QED
  BY <1>2, <1>3 DEF CommitPublishes

\* abstain ends the work of a lease.
LEMMA AbstainTerminates ==
  ASSUME TypeOK, NEW l \in granted, Abstain(l)
  PROVE  Terminated
<1>1. /\ l.work \in DOMAIN work /\ l.owner \in Agent
      /\ run.status = "running" /\ work[l.work].status = "leased"
      /\ Terminate(work, l.work, l.owner, {})
  BY DEF Abstain, Holds, TypeOK, Lease
<1>2. EndsFrom(work, l.work, l.owner, {})
  BY <1>1 DEF EndsFrom
<1>. QED
  BY <1>1, <1>2 DEF Terminated

\* So does commit when its rule chose nothing, over a lease of its own.
LEMMA CommitTerminates ==
  ASSUME NEW w \in DOMAIN work, NEW p \in Agent, CommitAbstains(w, p)
  PROVE  Terminated
<1>. DEFINE claimed == [RecoveredWork EXCEPT ![w] = Leased(@, p)]
<1>1. run.status = "running"
  BY DEF CommitAbstains
<1>2. CASE RecoveredWork[w].status = "leased" /\ Terminate(RecoveredWork, w, p, Expired)
  <2>1. EndsFrom(RecoveredWork, w, p, Expired)
    BY <1>1, <1>2 DEF EndsFrom
  <2>. QED
    BY <1>2, <2>1 DEF Terminated
<1>3. CASE Claimable(p, w, RecoveredWork) /\ Terminate(claimed, w, p, Expired)
  <2>1. EndsFrom(claimed, w, p, Expired)
    BY <1>1, <1>3 DEF EndsFrom
  <2>. QED
    BY <1>3, <2>1 DEF Terminated
<1>. QED
  BY <1>2, <1>3 DEF CommitAbstains

\* Every step is one of the four kinds.
LEMMA PlatformSteps ==
  ASSUME TypeOK, [PlatformNext]_platformVars
  PROVE  \/ OwnTreeStep
         \/ Split
         \/ \E l \in granted : Release(l)
         \/ Terminated
<1>. USE DEF platformTables
<1>1. CASE UNCHANGED platformVars
  BY <1>1, PlainTreeStep DEF platformVars, vars
<1>2. ASSUME NEW w \in DOMAIN work, Expire(w) /\ UNCHANGED platformTables PROVE OwnTreeStep
  BY <1>2, PlainTreeStep DEF Expire, LedgerNext
<1>3. CASE RecoverFreely
  BY <1>3, PlainTreeStep, AbandonedCalls DEF RecoverFreely, Recover, LedgerNext
<1>4. ASSUME NEW a \in Agent, NEW w \in DOMAIN work, ClaimAvailable(a, w) PROVE OwnTreeStep
  BY <1>4, PlainTreeStep, AbandonedCalls DEF ClaimAvailable, Claim, LedgerNext
<1>5. ASSUME NEW l \in granted, NEW c \in CallId, NEW p \in Tokens, NEW m \in Tokens,
             ReserveCapped(l, c, p, m)
      PROVE  OwnTreeStep
  BY <1>5, ReserveTreeStep
<1>6. ASSUME NEW l \in granted, NEW c \in DOMAIN calls,
             Dispatch(l, c) /\ UNCHANGED platformTables
      PROVE  OwnTreeStep
  BY <1>6, PlainTreeStep, DispatchedRow DEF LedgerNext
<1>7. ASSUME NEW c \in DOMAIN calls, NEW p \in Tokens, NEW q \in Tokens, NEW o \in BOOLEAN,
             Receive(c, p, q, o) /\ UNCHANGED platformTables
      PROVE  OwnTreeStep
  BY <1>7, PlainTreeStep, ReceiveIsLedger DEF Receive, Settle
<1>8. ASSUME NEW l \in granted, NEW c \in DOMAIN calls, PublishSettled(l, c) PROVE OwnTreeStep
  BY <1>8, PublishTreeStep
<1>9. ASSUME NEW a \in Agent, NEW c \in DOMAIN calls, PublishReceivedSettled(a, c)
      PROVE  OwnTreeStep
  BY <1>9, ReceivedTreeStep DEF PublishReceivedSettled
<1>10. CASE Cancel /\ UNCHANGED platformTables
  BY <1>10, PlainTreeStep, AbandonedCalls DEF Cancel, LedgerNext
<1>11. ASSUME NEW l \in granted, Renew(l) PROVE OwnTreeStep
  BY <1>11, PlainTreeStep DEF Renew, vars
<1>12. ASSUME NEW l \in granted, Abstain(l) PROVE Terminated
  BY <1>12, AbstainTerminates
<1>13. ASSUME NEW w \in DOMAIN work, NEW ahead \in BOOLEAN, MarkNoEntry(w, ahead)
       PROVE  OwnTreeStep
  BY <1>13, PlainTreeStep DEF MarkNoEntry, vars
<1>14. ASSUME NEW w \in held, MarkElapses(w) PROVE OwnTreeStep
  BY <1>14, PlainTreeStep DEF MarkElapses, vars
<1>15. ASSUME NEW l \in granted, NEW c \in DOMAIN calls, NEW loss \in Losses,
              Propose(l, c, loss)
       PROVE  OwnTreeStep
  BY <1>15, PlainTreeStep DEF Propose, vars
<1>16. ASSUME NEW w \in DOMAIN work, NEW p \in Agent, CommitWaits(w, p) PROVE OwnTreeStep
  BY <1>16, PlainTreeStep DEF CommitWaits, vars
<1>17. ASSUME NEW w \in DOMAIN work, NEW p \in Agent, CommitAbstains(w, p) PROVE Terminated
  BY <1>17, CommitTerminates
<1>18. ASSUME NEW p \in Agent, NEW c \in DOMAIN calls, NEW loss \in Losses,
              CommitPublishes(p, c, loss)
       PROVE  OwnTreeStep
  BY <1>18, CommitTreeStep
<1>19. \A kids \in Offers : Valid(kids)
  BY OfferAssumption DEF Valid
<1>. HIDE DEF platformTables
<1>. QED
  BY <1>1, <1>2, <1>3, <1>4, <1>5, <1>6, <1>7, <1>8, <1>9, <1>10, <1>11, <1>12, <1>13,
     <1>14, <1>15, <1>16, <1>17, <1>18, <1>19 DEF PlatformNext, Split

-----------------------------------------------------------------------------
\* Spending

\* A work has finitely many calls.
LEMMA FiniteCallsOf ==
  ASSUME TypeOK, NEW w
  PROVE  IsFiniteSet(CallsOf(w)) /\ CallsOf(w) \subseteq DOMAIN calls
BY FiniteCalls, FS_Subset DEF CallsOf

\* What it spent is a number.
LEMMA SpentNat ==
  ASSUME TypeOK, NEW w
  PROVE  SpentOn(w) \in Nat /\ Cardinality(CallsOf(w)) \in Nat
<1>. DEFINE f == [c \in CallsOf(w) |-> Charge(calls[c])]
<1>1. f \in [CallsOf(w) -> Nat]
  BY FiniteCallsOf, ChargeNat DEF TypeOK
<1>2. SpentOn(w) = SumFunction(f)
  BY DEF SpentOn
<1>. HIDE DEF f
<1>. QED
  BY <1>1, <1>2, FiniteCallsOf, TotalNat, FS_CardinalityType

\* Work without calls has spent nothing.
LEMMA NothingSpent ==
  ASSUME NEW w, CallsOf(w) = {}
  PROVE  SpentOn(w) = 0 /\ Cardinality(CallsOf(w)) = 0
BY TotalEmpty, FS_EmptySet DEF SpentOn

\* The same calls, none dearer than before.
LEMMA SpentLess ==
  ASSUME TypeOK, TypeOK', CallsKept, DOMAIN calls' = DOMAIN calls, NEW w
  PROVE  /\ CallsOf(w)' = CallsOf(w)
         /\ SpentOn(w)' \in Nat
         /\ SpentOn(w)' <= SpentOn(w)
<1>1. CallsOf(w)' = CallsOf(w)
  BY DEF CallsOf, CallsKept
<1>. DEFINE f == [c \in CallsOf(w) |-> Charge(calls[c])]
            g == [c \in CallsOf(w) |-> Charge(calls'[c])]
<1>2. f \in [CallsOf(w) -> Nat] /\ g \in [CallsOf(w) -> Nat]
  BY FiniteCallsOf, ChargeNat DEF TypeOK
<1>3. \A c \in CallsOf(w) : g[c] <= f[c]
  BY FiniteCallsOf DEF CallsKept
<1>4. SpentOn(w) = SumFunction(f) /\ SpentOn(w)' = SumFunction(g)
  BY <1>1 DEF SpentOn
<1>. HIDE DEF f, g
<1>. QED
  BY <1>1, <1>2, <1>3, <1>4, FiniteCallsOf, TotalMonotone, TotalNat

\* A reservation is charged to its work and to no other.
LEMMA SpentMore ==
  ASSUME TypeOK, NEW l \in granted, NEW c \in CallId, NEW p \in Nat, NEW m \in Nat,
         Reserve(l, c, p, m), NEW w
  PROVE  /\ w = l.work => /\ SpentOn(w)' = p + m + SpentOn(w)
                          /\ Cardinality(CallsOf(w)') = Cardinality(CallsOf(w)) + 1
         /\ w # l.work => /\ SpentOn(w)' = SpentOn(w)
                          /\ CallsOf(w)' = CallsOf(w)
<1>1. /\ c \notin DOMAIN calls
      /\ DOMAIN calls' = DOMAIN calls \cup {c}
      /\ calls' \in [DOMAIN calls \cup {c} -> Call]
      /\ calls'[c].work = l.work
      /\ Charge(calls'[c]) = p + m
      /\ \A d \in DOMAIN calls : calls'[d] = calls[d]
  BY ReservedRow
<1>. DEFINE S == CallsOf(w)
            f == [d \in S |-> Charge(calls[d])]
            g == [d \in CallsOf(w)' |-> Charge(calls'[d])]
<1>2. f \in [S -> Nat] /\ IsFiniteSet(S)
  BY FiniteCallsOf, ChargeNat DEF TypeOK
<1>3. SpentOn(w) = SumFunction(f) /\ SpentOn(w)' = SumFunction(g)
  BY DEF SpentOn
<1>4. ASSUME w = l.work
      PROVE  /\ SpentOn(w)' = p + m + SpentOn(w)
             /\ Cardinality(CallsOf(w)') = Cardinality(S) + 1
  <2>1. CallsOf(w)' = S \cup {c} /\ c \notin S
    BY <1>1, <1>4 DEF CallsOf
  <2>2. g \in [S \cup {c} -> Nat]
    BY <1>1, <2>1, ChargeNat DEF CallsOf
  <2>3. g[c] = p + m /\ \A d \in S : g[d] = f[d]
    BY <1>1, <2>1 DEF CallsOf
  <2>4. SumFunction(f) \in Nat
    <3>. HIDE DEF S, f
    <3>. QED
      BY <1>2, TotalNat
  <2>5. SumFunction(g) = (p + m) + SumFunction(f)
    <3>. HIDE DEF S, f, g
    <3>. QED
      BY <1>2, <2>1, <2>2, <2>3, TotalInsert
  <2>6. Cardinality(CallsOf(w)') = Cardinality(S) + 1
    BY <1>2, <2>1, FS_AddElement
  <2>. HIDE DEF S, f, g
  <2>. QED
    BY <1>3, <2>4, <2>5, <2>6
<1>5. ASSUME w # l.work
      PROVE  /\ SpentOn(w)' = SpentOn(w)
             /\ CallsOf(w)' = CallsOf(w)
  <2>1. CallsOf(w)' = S
    BY <1>1, <1>5 DEF CallsOf
  <2>2. g = f
    BY <1>1, <2>1 DEF CallsOf
  <2>. QED
    BY <1>3, <2>1, <2>2
<1>. QED
  BY <1>4, <1>5

\* Where no call is added, no cap moved.
LEMMA SameSpendKept ==
  ASSUME TypeOK, TypeOK', PlatformTypeOK, SpendWithinCaps, CallsKept,
         DOMAIN calls' = DOMAIN calls, DOMAIN work' = DOMAIN work, UNCHANGED meta
  PROVE  SpendWithinCaps'
<1>1. SUFFICES ASSUME NEW w \in DOMAIN work
               PROVE  /\ Cardinality(CallsOf(w)') <= meta[w].caps.calls
                      /\ SpentOn(w)' <= meta[w].caps.tokens
  BY DEF SpendWithinCaps
<1>2. /\ Cardinality(CallsOf(w)) <= meta[w].caps.calls
      /\ SpentOn(w) <= meta[w].caps.tokens
      /\ meta[w].caps.calls \in Nat /\ meta[w].caps.tokens \in Nat
  BY DEF SpendWithinCaps, PlatformTypeOK, MetaRow, Caps
<1>3. SpentOn(w) \in Nat
  BY SpentNat
<1>. QED
  BY <1>2, <1>3, SpentLess

\* Calls and tokens stay within the caps: only a reservation adds to them, and it was checked.
LEMMA SpendKept ==
  ASSUME TreeInv, TypeOK', TreeStep
  PROVE  SpendWithinCaps'
<1>. USE DEF TreeInv, LedgerInv
<1>1. RowsKept(Fresh) /\ CallsKept
  BY StepKeeps DEF TreeStep
<1>2. DOMAIN work' = DOMAIN work /\ meta' = meta
  BY <1>1 DEF RowsKept, TreeStep
<1>3. CASE DOMAIN calls' = DOMAIN calls
  BY <1>1, <1>2, <1>3, SameSpendKept
<1>4. ASSUME NEW l \in granted, NEW c \in CallId, NEW p \in Nat, NEW m \in Nat,
             Reserve(l, c, p, m), Affordable(l.work, [calls |-> 1, tokens |-> p + m]),
             NEW w \in DOMAIN work
      PROVE  /\ Cardinality(CallsOf(w)') <= meta[w].caps.calls
             /\ SpentOn(w)' <= meta[w].caps.tokens
  <2>1. /\ Cardinality(CallsOf(w)) <= meta[w].caps.calls
        /\ SpentOn(w) <= meta[w].caps.tokens
        /\ meta[w].caps.calls \in Nat /\ meta[w].caps.tokens \in Nat
    BY DEF SpendWithinCaps, PlatformTypeOK, MetaRow, Caps
  <2>2. SpentOn(w) \in Nat /\ Cardinality(CallsOf(w)) \in Nat
    BY SpentNat
  <2>3. CASE w = l.work
    <3>1. /\ 1 + Cardinality(CallsOf(w)) <= meta[w].caps.calls
          /\ p + m + SpentOn(w) <= meta[w].caps.tokens
      BY <1>4, <2>3 DEF Affordable
    <3>2. /\ SpentOn(w)' = p + m + SpentOn(w)
          /\ Cardinality(CallsOf(w)') = Cardinality(CallsOf(w)) + 1
      BY <1>4, <2>3, SpentMore
    <3>. QED
      BY <2>1, <2>2, <3>1, <3>2
  <2>4. CASE w # l.work
    BY <1>4, <2>1, <2>4, SpentMore
  <2>. QED
    BY <2>3, <2>4
<1>. QED
  BY <1>2, <1>3, <1>4 DEF TreeStep, SpendWithinCaps

-----------------------------------------------------------------------------
\* What a step keeps of the tree

\* While no dependencies change, the graph stays well founded.
LEMMA SameGraph ==
  ASSUME GraphWellFounded, DOMAIN work' = DOMAIN work,
         \A w \in DOMAIN work : work'[w].dependencies = work[w].dependencies
  PROVE  GraphWellFounded'
<1>1. [w \in DOMAIN work' |-> work'[w].dependencies] = [w \in DOMAIN work |-> work[w].dependencies]
  OBVIOUS
<1>. QED
  BY <1>1 DEF GraphWellFounded, Acyclic

\* While no caps move, they stay conserved.
LEMMA SameCaps ==
  ASSUME CapsConserved, UNCHANGED meta
  PROVE  CapsConserved'
BY DEF CapsConserved

\* No call of unknown outcome is buried.
LEMMA SettledKept ==
  ASSUME LedgerInv, LedgerInv', DoneIsSettled, CallsKept,
         NEW E, \A w \in E : Settled(w),
         \A w \in DOMAIN work : work'[w].status = "done" => work[w].status = "done" \/ w \in E
  PROVE  DoneIsSettled'
<1>1. SUFFICES ASSUME NEW c \in DOMAIN calls',
                      work'[calls'[c].work].status = "done",
                      calls'[c].state \in Unsettled
               PROVE  FALSE
  BY DEF DoneIsSettled
<1>2. calls'[c].state = "dispatched"
  BY <1>1 DEF LedgerInv, ReservationsBacked, Unsettled
<1>3. c \in DOMAIN calls
  BY <1>2 DEF CallsKept
<1>. DEFINE w == calls[c].work
<1>4. w \in DOMAIN work /\ calls'[c].work = w
  BY <1>3 DEF CallsKept, LedgerInv, TypeOK
<1>5. CASE calls[c].state = "dispatched"
  <2>1. work[w].status # "done"
    BY <1>3, <1>5 DEF DoneIsSettled, Unsettled
  <2>2. w \in E
    BY <1>1, <1>4, <2>1
  <2>. QED
    BY <1>3, <1>5, <2>2 DEF Settled, Unknown
<1>6. CASE calls[c].state = "reserved" /\ UNCHANGED work
  BY <1>1, <1>3, <1>4, <1>6 DEF LedgerInv, ReservationsBacked
<1>. QED
  BY <1>2, <1>3, <1>5, <1>6 DEF CallsKept

\* A checked step of base code keeps the tree.
LEMMA TreeStepKeeps ==
  ASSUME TreeInv, TreeStep
  PROVE  TreeInv'
<1>1. /\ LedgerInv /\ PlatformTypeOK /\ CapsConserved
      /\ GraphWellFounded /\ DecisionsPublished /\ DoneMeansDecided /\ DoneIsSettled
  BY DEF TreeInv
<1>2. LedgerInv'
  BY <1>1, LedgerKept DEF TreeStep
<1>3. RowsKept(Fresh) /\ CallsKept /\ ArtifactsKept /\ TypeOK
  BY <1>1, StepKeeps DEF TreeStep, LedgerInv
<1>5. /\ DOMAIN work' = DOMAIN work /\ UNCHANGED meta
      /\ \A w \in DOMAIN work :
           /\ work'[w].dependencies = work[w].dependencies
           /\ work'[w].status = "done" <=> work[w].status = "done" \/ w \in Fresh
  BY <1>3 DEF RowsKept, TreeStep
<1>6. /\ DOMAIN decisions' \subseteq DOMAIN work
      /\ \A w \in DOMAIN decisions' :
           \/ w \in DOMAIN decisions /\ decisions'[w] = decisions[w]
           \/ /\ w \notin DOMAIN decisions /\ w \in DOMAIN artifacts'
              /\ decisions'[w].decision = "publish"
              /\ decisions'[w].call = artifacts'[w].call
  <2>1. CASE UNCHANGED decisions
    BY <1>1, <2>1 DEF PlatformTypeOK
  <2>2. ASSUME NEW v \in DOMAIN work, NEW p \in Agent,
               v \notin DOMAIN decisions, v \in DOMAIN artifacts',
               decisions' = Put(decisions, v, [decision |-> "publish",
                                               call |-> artifacts'[v].call,
                                               publisher |-> p])
        PROVE  /\ DOMAIN decisions' \subseteq DOMAIN work
               /\ \A w \in DOMAIN decisions' :
                    \/ w \in DOMAIN decisions /\ decisions'[w] = decisions[w]
                    \/ /\ w \notin DOMAIN decisions /\ w \in DOMAIN artifacts'
                       /\ decisions'[w].decision = "publish"
                       /\ decisions'[w].call = artifacts'[w].call
    <3>1. DOMAIN decisions' = DOMAIN decisions \cup {v}
      BY <2>2 DEF Put
    <3>2. \A w \in DOMAIN decisions : w # v /\ decisions'[w] = decisions[w]
      BY <2>2 DEF Put
    <3>3. decisions'[v].decision = "publish" /\ decisions'[v].call = artifacts'[v].call
      BY <2>2 DEF Put
    <3>. QED
      BY <1>1, <2>2, <3>1, <3>2, <3>3 DEF PlatformTypeOK
  <2>. QED
    BY <2>1, <2>2 DEF TreeStep
<1>7. DOMAIN decisions \subseteq DOMAIN decisions'
  BY DEF TreeStep, Put
<1>8. PlatformTypeOK'
  BY <1>1, <1>5, <1>6 DEF PlatformTypeOK
<1>9. CapsConserved' /\ GraphWellFounded'
  BY <1>1, <1>5, SameCaps, SameGraph
<1>10. SpendWithinCaps'
  BY <1>2, SpendKept DEF LedgerInv
<1>11. DecisionsPublished'
  BY <1>1, <1>3, <1>6 DEF DecisionsPublished, ArtifactsKept
<1>12. DoneMeansDecided'
  <2>1. SUFFICES ASSUME NEW w \in DOMAIN work
                 PROVE  /\ work'[w].status = "done" <=>
                             \/ w \in DOMAIN artifacts'
                             \/ w \in DOMAIN decisions' /\ decisions'[w].decision = "abstain"
                        /\ w \in DOMAIN artifacts' /\ w \in DOMAIN decisions' =>
                             /\ decisions'[w].decision = "publish"
                             /\ decisions'[w].call = artifacts'[w].call
    BY <1>5 DEF DoneMeansDecided
  <2>2. w \in DOMAIN decisions => decisions'[w] = decisions[w]
    BY <1>6, <1>7
  <2>3. w \in DOMAIN artifacts' <=> w \in DOMAIN artifacts \/ w \in Fresh
    BY <1>3 DEF ArtifactsKept, Fresh
  <2>4. w \in Fresh => work[w].status # "done" /\ w \notin DOMAIN artifacts
    BY <1>3 DEF ArtifactsKept, Fresh
  <2>5. w \in DOMAIN artifacts => artifacts'[w] = artifacts[w]
    BY <1>3 DEF ArtifactsKept
  <2>6. work[w].status = "done" <=>
          \/ w \in DOMAIN artifacts
          \/ w \in DOMAIN decisions /\ decisions[w].decision = "abstain"
    BY <1>1 DEF DoneMeansDecided
  <2>7. w \in DOMAIN artifacts /\ w \in DOMAIN decisions =>
          /\ decisions[w].decision = "publish"
          /\ decisions[w].call = artifacts[w].call
    BY <1>1 DEF DoneMeansDecided
  <2>8. w \in DOMAIN decisions \cap Fresh => FALSE
    BY <1>1, <2>4, <2>6 DEF DecisionsPublished, PlatformTypeOK
  <2>9. work'[w].status = "done" <=>
          \/ w \in DOMAIN artifacts'
          \/ w \in DOMAIN decisions' /\ decisions'[w].decision = "abstain"
    BY <1>5, <1>6, <1>7, <2>2, <2>3, <2>6
  <2>10. ASSUME w \in DOMAIN artifacts', w \in DOMAIN decisions'
         PROVE  /\ decisions'[w].decision = "publish"
                /\ decisions'[w].call = artifacts'[w].call
    BY <1>6, <2>3, <2>5, <2>7, <2>8, <2>10
  <2>. QED
    BY <2>9, <2>10
<1>13. DoneIsSettled'
  BY <1>1, <1>2, <1>3, <1>5, SettledKept DEF TreeStep
<1>. QED
  BY <1>2, <1>8, <1>9, <1>10, <1>11, <1>12, <1>13 DEF TreeInv

-----------------------------------------------------------------------------
\* Work that ends without an artifact

\* An end without an artifact keeps the tree.
LEMMA TerminatedKeeps ==
  ASSUME TreeInv, Terminated
  PROVE  TreeInv'
<1>1. PICK w \in DOMAIN work, a \in Agent :
        \E rows, freed : EndsFrom(rows, w, a, freed) /\ Terminate(rows, w, a, freed)
  BY DEF Terminated
<1>2. PICK rows, freed : EndsFrom(rows, w, a, freed) /\ Terminate(rows, w, a, freed)
  BY <1>1
<1>3. /\ Settled(w)
      /\ Ended(rows, w, freed)
      /\ decisions' = Put(decisions, w, [decision |-> "abstain", publisher |-> a])
      /\ UNCHANGED <<artifacts, meta>>
  BY <1>2 DEF Terminate, Ended
<1>4. /\ LedgerInv /\ PlatformTypeOK /\ CapsConserved /\ SpendWithinCaps
      /\ GraphWellFounded /\ DecisionsPublished /\ DoneMeansDecided /\ DoneIsSettled
  BY DEF TreeInv
<1>5. TypeOK /\ artifacts \in [DOMAIN artifacts -> Artifact]
  BY <1>4 DEF LedgerInv, TypeOK
<1>6. LedgerInv'
  BY <1>2, <1>3, <1>4, <1>5, EndLedger
<1>7. RowsKept({w}) /\ CallsKept
  BY <1>2, <1>3, <1>4, EndKeeps
<1>10. /\ DOMAIN work' = DOMAIN work
       /\ \A v \in DOMAIN work :
            /\ work'[v].dependencies = work[v].dependencies
            /\ work'[v].status = "done" <=> work[v].status = "done" \/ v = w
  BY <1>7 DEF RowsKept
<1>11. /\ DOMAIN decisions' = DOMAIN decisions \cup {w}
       /\ decisions'[w].decision = "abstain"
       /\ \A v \in DOMAIN decisions \ {w} : decisions'[v] = decisions[v]
  BY <1>3 DEF Put
<1>12. DOMAIN calls' = DOMAIN calls
  BY <1>3, <1>5, AbandonedCalls DEF Ended
<1>13. w \notin DOMAIN artifacts
  <2>1. work[w].status \in {"ready", "leased"}
    BY <1>2, <1>4, EndingRows
  <2>. QED
    BY <1>4, <2>1 DEF DoneMeansDecided
<1>14. PlatformTypeOK'
  BY <1>3, <1>4, <1>10, <1>11 DEF PlatformTypeOK
<1>15. CapsConserved' /\ GraphWellFounded'
  BY <1>3, <1>4, <1>10, SameCaps, SameGraph
<1>16. SpendWithinCaps'
  BY <1>3, <1>4, <1>5, <1>6, <1>7, <1>10, <1>12, SameSpendKept DEF LedgerInv
<1>17. DecisionsPublished'
  BY <1>3, <1>4, <1>11 DEF DecisionsPublished
<1>18. DoneMeansDecided'
  <2>1. ASSUME NEW v \in DOMAIN work, v # w
        PROVE  /\ work'[v].status = "done" <=>
                    \/ v \in DOMAIN artifacts'
                    \/ v \in DOMAIN decisions' /\ decisions'[v].decision = "abstain"
               /\ v \in DOMAIN artifacts' /\ v \in DOMAIN decisions' =>
                    /\ decisions'[v].decision = "publish"
                    /\ decisions'[v].call = artifacts'[v].call
    BY <1>3, <1>4, <1>10, <1>11, <2>1 DEF DoneMeansDecided
  <2>2. /\ work'[w].status = "done" /\ w \notin DOMAIN artifacts'
        /\ w \in DOMAIN decisions' /\ decisions'[w].decision = "abstain"
    BY <1>3, <1>10, <1>11, <1>13
  <2>. QED
    BY <1>10, <2>1, <2>2 DEF DoneMeansDecided
<1>19. DoneIsSettled'
  BY <1>3, <1>4, <1>6, <1>7, <1>10, SettledKept
<1>. QED
  BY <1>6, <1>14, <1>15, <1>16, <1>17, <1>18, <1>19 DEF TreeInv

-----------------------------------------------------------------------------
\* A lease given back

\* The rows Release leaves.
LEMMA ReleasedRows ==
  ASSUME TypeOK, NEW l \in granted, Release(l)
  PROVE  /\ Holds(l)
         /\ l.work \in DOMAIN work
         /\ calls' = Abandon({l.work})
         /\ UNCHANGED <<run, artifacts, granted, meta, decisions>>
         /\ DOMAIN work' = DOMAIN work
         /\ work' \in [DOMAIN work -> Row]
         /\ work'[l.work].status = IF Settled(l.work) THEN "ready" ELSE "uncertain"
         /\ work'[l.work].owner = None
         /\ work'[l.work].epoch = work[l.work].epoch
         /\ work'[l.work].dependencies = work[l.work].dependencies
         /\ \A v \in DOMAIN work \ {l.work} : work'[v] = work[v]
<1>. DEFINE s == IF Settled(l.work) THEN "ready" ELSE "uncertain"
<1>1. /\ Holds(l)
      /\ l.work \in DOMAIN work
      /\ calls' = Abandon({l.work})
      /\ UNCHANGED <<run, artifacts, granted, meta, decisions>>
      /\ work' = [work EXCEPT ![l.work] = Free(@, s)]
  BY DEF Release, Holds, platformTables
<1>2. s \in WorkStatus /\ work[l.work] \in Row
  BY <1>1 DEF WorkStatus, TypeOK
<1>. HIDE DEF s
<1>3. /\ Free(work[l.work], s) \in Row
      /\ Free(work[l.work], s).status = s
      /\ Free(work[l.work], s).owner = None
      /\ Free(work[l.work], s).epoch = work[l.work].epoch
      /\ Free(work[l.work], s).dependencies = work[l.work].dependencies
  BY <1>2, FreedRow
<1>4. work' \in [DOMAIN work -> Row] /\ DOMAIN work' = DOMAIN work
  BY <1>1, <1>3 DEF TypeOK
<1>5. work'[l.work] = Free(work[l.work], s)
  BY <1>1 DEF TypeOK
<1>6. \A v \in DOMAIN work \ {l.work} : work'[v] = work[v]
  BY <1>1 DEF TypeOK
<1>7. s = IF Settled(l.work) THEN "ready" ELSE "uncertain"
  BY DEF s
<1>. QED
  BY <1>1, <1>3, <1>4, <1>5, <1>6, <1>7

\* release gives reservations back and waits for what is unknown.
LEMMA ReleaseLedger ==
  ASSUME LedgerInv, NEW l \in granted, Release(l)
  PROVE  LedgerInv'
<1>. DEFINE w == l.work
<1>1. TypeOK
  BY DEF LedgerInv
<1>2. /\ Holds(l)
      /\ w \in DOMAIN work
      /\ calls' = Abandon({w})
      /\ UNCHANGED <<run, artifacts, granted>>
      /\ DOMAIN work' = DOMAIN work
      /\ work' \in [DOMAIN work -> Row]
      /\ work'[w].status = IF Settled(w) THEN "ready" ELSE "uncertain"
      /\ work'[w].owner = None
      /\ work'[w].epoch = work[w].epoch
      /\ work'[w].dependencies = work[w].dependencies
      /\ \A v \in DOMAIN work \ {w} : work'[v] = work[v]
  BY <1>1, ReleasedRows
<1>3. work[w].status = "leased" /\ run.status = "running"
  BY <1>2 DEF Holds
<1>4. /\ DOMAIN calls' = DOMAIN calls
      /\ calls' \in [DOMAIN calls -> Call]
      /\ \A c \in DOMAIN calls :
           /\ calls'[c].work = calls[c].work
           /\ calls'[c].epoch = calls[c].epoch
           /\ calls'[c].state =
                IF calls[c].work \in {w} /\ calls[c].state = "reserved"
                THEN "abandoned" ELSE calls[c].state
  BY <1>1, <1>2, AbandonedCalls
<1>5. \A v : Unknown(v)' <=> Unknown(v)
  BY <1>1, <1>2, UnknownKept
<1>6. TypeOK'
  BY <1>1, <1>2, <1>4 DEF TypeOK
<1>7. ReservationsBacked'
  <2>1. SUFFICES ASSUME NEW c \in DOMAIN calls', calls'[c].state = "reserved"
                 PROVE  /\ run'.status = "running"
                        /\ work'[calls'[c].work].status = "leased"
                        /\ work'[calls'[c].work].epoch = calls'[c].epoch
    BY DEF ReservationsBacked
  <2>2. c \in DOMAIN calls /\ calls'[c].work = calls[c].work /\ calls'[c].epoch = calls[c].epoch
    BY <1>4
  <2>3. calls[c].state = "reserved" /\ calls[c].work # w
    BY <1>4, <2>1, <2>2
  <2>4. calls[c].work \in DOMAIN work
    BY <1>1, <2>2 DEF TypeOK
  <2>5. work'[calls[c].work] = work[calls[c].work]
    BY <1>2, <2>3, <2>4
  <2>. QED
    BY <1>2, <2>2, <2>3, <2>5 DEF LedgerInv, ReservationsBacked
<1>8. UnknownNotOffered'
  <2>1. SUFFICES ASSUME NEW c \in DOMAIN calls, calls[c].state = "dispatched"
                 PROVE  /\ work'[calls[c].work].status # "ready"
                        /\ work'[calls[c].work].status = "leased" =>
                             work'[calls[c].work].epoch = calls[c].epoch
    BY <1>4 DEF UnknownNotOffered
  <2>2. CASE calls[c].work = w
    BY <1>2, <2>1, <2>2 DEF Settled, Unknown
  <2>3. CASE calls[c].work # w
    BY <1>1, <1>2, <2>1, <2>3 DEF LedgerInv, TypeOK, UnknownNotOffered
  <2>. QED
    BY <2>2, <2>3
<1>9. UncertainIsUnknown'
  BY <1>2, <1>5 DEF LedgerInv, UncertainIsUnknown, Settled
<1>10. GrantsBounded'
  BY <1>2 DEF LedgerInv, GrantsBounded
<1>11. OwnersLease'
  BY <1>2 DEF LedgerInv, OwnersLease
<1>12. NewestLeaseFenced'
  BY <1>2 DEF LedgerInv, NewestLeaseFenced, Holds
<1>13. HeldOverArtifacts'
  BY <1>2, <1>3 DEF LedgerInv, HeldOverArtifacts
<1>14. RunMatchesWork'
  BY <1>2, <1>3 DEF LedgerInv, RunMatchesWork
<1>15. WithinBudget'
  BY <1>1, <1>2, <1>4, <1>6, AbandonedCheaper, CheaperKeepsBudget DEF LedgerInv
<1>. QED
  BY <1>6, <1>7, <1>8, <1>9, <1>10, <1>11, <1>12, <1>13, <1>14, <1>15 DEF LedgerInv

\* So does a release.
LEMMA ReleaseKeeps ==
  ASSUME TreeInv, NEW l \in granted, Release(l)
  PROVE  TreeInv' /\ RowsKept({}) /\ CallsKept
<1>1. /\ LedgerInv /\ PlatformTypeOK /\ CapsConserved /\ SpendWithinCaps
      /\ GraphWellFounded /\ DecisionsPublished /\ DoneMeansDecided /\ DoneIsSettled
  BY DEF TreeInv
<1>2. TypeOK
  BY <1>1 DEF LedgerInv
<1>3. /\ Holds(l)
      /\ calls' = Abandon({l.work})
      /\ UNCHANGED <<run, artifacts, granted, meta, decisions>>
      /\ DOMAIN work' = DOMAIN work
      /\ work'[l.work].status = IF Settled(l.work) THEN "ready" ELSE "uncertain"
      /\ work'[l.work].owner = None
      /\ work'[l.work].epoch = work[l.work].epoch
      /\ work'[l.work].dependencies = work[l.work].dependencies
      /\ \A v \in DOMAIN work \ {l.work} : work'[v] = work[v]
  BY <1>2, ReleasedRows
<1>4. work[l.work].status = "leased"
  BY <1>3 DEF Holds
<1>5. LedgerInv'
  BY <1>1, ReleaseLedger
<1>6. RowsKept({})
  BY <1>3, <1>4, SameRowsKept
<1>7. CallsKept /\ DOMAIN calls' = DOMAIN calls
  BY <1>2, <1>3, AbandonKeepsCalls, AbandonedCalls
<1>10. \A v \in DOMAIN work :
         /\ work'[v].dependencies = work[v].dependencies
         /\ work'[v].status = "done" <=> work[v].status = "done"
  BY <1>6 DEF RowsKept
<1>11. PlatformTypeOK'
  BY <1>1, <1>3 DEF PlatformTypeOK
<1>12. CapsConserved' /\ GraphWellFounded'
  BY <1>1, <1>3, <1>10, SameCaps, SameGraph
<1>13. SpendWithinCaps'
  BY <1>1, <1>2, <1>3, <1>5, <1>7, SameSpendKept DEF LedgerInv
<1>14. DecisionsPublished' /\ DoneMeansDecided'
  BY <1>1, <1>3, <1>10 DEF DecisionsPublished, DoneMeansDecided
<1>15. DoneIsSettled'
  <2>. DEFINE E == {}
  <2>1. /\ \A w \in E : Settled(w)
        /\ \A w \in DOMAIN work :
             work'[w].status = "done" => work[w].status = "done" \/ w \in E
    BY <1>10
  <2>. HIDE DEF E
  <2>. QED
    BY <1>1, <1>5, <1>7, <2>1, SettledKept
<1>. QED
  BY <1>5, <1>6, <1>7, <1>11, <1>12, <1>13, <1>14, <1>15 DEF TreeInv

-----------------------------------------------------------------------------
\* Leases

\* What a transaction that does not decompose does to the tables.
BaseStep == TreeStep \/ (\E l \in granted : Release(l)) \/ Terminated

\* A row of a lease that stands after a step was leased before it, or is claimed by it.
LEMMA StandingRow ==
  ASSUME TypeOK, BaseStep, NEW w \in DOMAIN work,
         run'.enabled, run'.status = "running",
         work'[w].status = "leased", ~work'[w].lapsed
  PROVE  /\ UNCHANGED run
         /\ work'[w] = work[w] \/ work'[w].epoch = work[w].epoch + 1
<1>. DEFINE Goal == UNCHANGED run /\ (work'[w] = work[w] \/ work'[w].epoch = work[w].epoch + 1)
<1>1. CASE UNCHANGED vars
  BY <1>1 DEF vars
<1>2. ASSUME NEW v \in DOMAIN work, Expire(v) PROVE Goal
  BY <1>2 DEF Expire, TypeOK, Row
<1>3. CASE Recover
  BY <1>3, RecoveredRows DEF Recover
<1>4. ASSUME NEW a \in Agent, NEW v \in DOMAIN work, Claim(a, v) PROVE Goal
  <2>1. RecoveredWork[v] \in Row /\ RecoveredWork[v].epoch = work[v].epoch
    BY RecoveredRows
  <2>2. work' = [RecoveredWork EXCEPT ![v] = Leased(RecoveredWork[v], a)] /\ UNCHANGED run
    BY <1>4 DEF Claim
  <2>3. Leased(RecoveredWork[v], a).epoch = work[v].epoch + 1
    BY <2>1, LeasedRow
  <2>. QED
    BY <2>2, <2>3, RecoveredRows
<1>5. ASSUME NEW l \in granted, NEW c \in CallId, NEW p \in Nat, NEW m \in Nat, Reserve(l, c, p, m)
      PROVE  Goal
  BY <1>5 DEF Reserve
<1>6. ASSUME NEW l \in granted, NEW c \in DOMAIN calls, Dispatch(l, c) PROVE Goal
  BY <1>6 DEF Dispatch
<1>7. ASSUME NEW c \in DOMAIN calls, NEW n \in Nat, NEW o \in BOOLEAN, Settle(c, n, o) PROVE Goal
  BY <1>7 DEF Settle, TypeOK, Row
<1>8. ASSUME NEW v \in DOMAIN work, NEW a \in Agent, NEW rows, NEW freed,
             EndsFrom(rows, v, a, freed), Ended(rows, v, freed)
      PROVE  Goal
  <2>1. /\ work' = [rows EXCEPT ![v] = Free(rows[v], "done")]
        /\ run' = IF LastOpen(rows, v) THEN [run EXCEPT !.status = "completed"] ELSE run
    BY <1>8 DEF Ended
  <2>2. DOMAIN rows = DOMAIN work /\ rows[v] \in Row
        /\ \A u \in DOMAIN work \ {v} : rows[u] = work[u] \/ rows[u] = RecoveredWork[u]
    <3>1. CASE rows = work
      BY <3>1 DEF TypeOK
    <3>2. CASE rows = RecoveredWork
      BY <3>2, RecoveredRows
    <3>3. CASE rows = [RecoveredWork EXCEPT ![v] = Leased(RecoveredWork[v], a)]
      BY <3>3, RecoveredRows, LeasedRow
    <3>. QED
      BY <1>8, <3>1, <3>2, <3>3 DEF EndsFrom
  <2>3. work'[v].status = "done"
    BY <2>1, <2>2, FreedRow DEF WorkStatus
  <2>4. UNCHANGED run
    BY <2>1 DEF TypeOK, Run
  <2>. QED
    BY <2>1, <2>2, <2>3, <2>4, RecoveredRows
<1>9. CASE Cancel
  BY <1>9 DEF Cancel
<1>10. ASSUME NEW v \in DOMAIN work, NEW a \in Agent, NEW c \in DOMAIN calls, Published(v, a, c)
       PROVE  Goal
  BY <1>8, <1>10 DEF Published, RecordArtifact, Ended
<1>11. CASE Terminated
  BY <1>8, <1>11 DEF Terminated, Terminate, Ended
<1>12. ASSUME NEW l \in granted, Release(l) PROVE Goal
  <2>1. UNCHANGED run /\ l.work \in DOMAIN work
        /\ work' = [work EXCEPT ![l.work] = Free(work[l.work], IF Settled(l.work) THEN "ready" ELSE "uncertain")]
    BY <1>12 DEF Release, Holds
  <2>2. work'[l.work].status # "leased"
    BY <1>12, ReleasedRows
  <2>. QED
    BY <2>1, <2>2 DEF TypeOK
<1>. QED
  BY <1>1, <1>2, <1>3, <1>4, <1>5, <1>6, <1>7, <1>9, <1>10, <1>11, <1>12
     DEF BaseStep, TreeStep, LedgerNext

\* A lease that stands after a step stood before it.
LEMMA StandsStill ==
  ASSUME TypeOK, GrantsBounded, BaseStep, NEW l \in granted, Holds(l)'
  PROVE  Holds(l)
<1>. DEFINE w == l.work
<1>1. w \in DOMAIN work /\ l.epoch \in Nat /\ work[w].epoch \in Nat /\ l.epoch <= work[w].epoch
  BY DEF GrantsBounded, TypeOK, Lease, Row
<1>2. /\ run'.enabled /\ run'.status = "running"
      /\ work'[w].owner = l.owner /\ work'[w].epoch = l.epoch /\ work'[w].status = "leased"
      /\ work'[w].generation = run'.generation /\ ~work'[w].lapsed
  BY DEF Holds
<1>3. UNCHANGED run /\ (work'[w] = work[w] \/ work'[w].epoch = work[w].epoch + 1)
  BY <1>1, <1>2, StandingRow
<1>4. work'[w] = work[w]
  BY <1>1, <1>2, <1>3
<1>. QED
  BY <1>1, <1>2, <1>3, <1>4 DEF Holds

\* Leases are never taken back from the record.
LEMMA GrantsGrow ==
  ASSUME BaseStep
  PROVE  granted \subseteq granted'
<1>1. CASE [LedgerNext]_vars
  BY <1>1 DEF LedgerNext, vars, Expire, Recover, Claim, Reserve, Dispatch, Settle, Published,
              RecordArtifact, Cancel
<1>2. CASE \E l \in granted : Release(l)
  BY <1>2 DEF Release
<1>3. CASE Terminated
  BY <1>3 DEF Terminated, Terminate
<1>. QED
  BY <1>1, <1>2, <1>3 DEF BaseStep, TreeStep

-----------------------------------------------------------------------------
\* Work cut into children

\* A gift is an amount.
LEMMA GivenNat ==
  ASSUME NEW kids, Valid(kids)
  PROVE  Given(kids).calls \in Nat /\ Given(kids).tokens \in Nat
<1>. DEFINE K == DOMAIN kids
            f == [k \in K |-> kids[k].calls]
            g == [k \in K |-> kids[k].tokens]
<1>1. IsFiniteSet(K) /\ kids \in [K -> Child]
  BY DEF Valid
<1>2. f \in [K -> Nat] /\ g \in [K -> Nat]
  BY <1>1 DEF Child
<1>3. Given(kids).calls = SumFunction(f) /\ Given(kids).tokens = SumFunction(g)
  BY DEF Given
<1>. HIDE DEF K, f, g
<1>. QED
  BY <1>1, <1>2, <1>3, TotalNat

\* The rows Decompose leaves.
LEMMA DecomposedRows ==
  ASSUME TypeOK, NEW l \in granted, NEW kids, Valid(kids), Decompose(l, kids)
  PROVE  /\ Holds(l)
         /\ l.work \in DOMAIN work
         /\ IsFiniteSet(DOMAIN kids) /\ DOMAIN kids \cap DOMAIN work = {}
         /\ DOMAIN kids \subseteq Work
         /\ UNCHANGED <<run, calls, artifacts, granted, decisions>>
         /\ DOMAIN work' = DOMAIN work \cup DOMAIN kids
         /\ work' \in [DOMAIN work' -> Row]
         /\ \A k \in DOMAIN kids :
              work'[k].status = "ready" /\ work'[k].owner = None /\ work'[k].epoch = 0
         /\ work'[l.work].status = "ready"
         /\ work'[l.work].owner = None
         /\ work'[l.work].epoch = work[l.work].epoch
         /\ \A v \in DOMAIN work \ {l.work} : work'[v] = work[v]
         /\ [v \in DOMAIN work' |-> work'[v].dependencies] = GraphWith(l.work, kids)
<1>. DEFINE w == l.work
            graph == GraphWith(w, kids)
            row(v) ==
              IF v \in DOMAIN kids
              THEN [status |-> "ready", owner |-> None, epoch |-> 0, lapsed |-> FALSE,
                    generation |-> run.generation,
                    dependencies |-> kids[v].dependencies, agents |-> kids[v].agents]
              ELSE IF v = w THEN [Free(work[w], "ready") EXCEPT !.dependencies = graph[w]]
              ELSE work[v]
<1>1. /\ Holds(l)
      /\ w \in DOMAIN work
      /\ DOMAIN kids \cap DOMAIN work = {}
      /\ UNCHANGED <<run, calls, artifacts, granted, decisions>>
      /\ work' = [v \in DOMAIN graph |-> row(v)]
  BY DEF Decompose, Holds
<1>2. IsFiniteSet(DOMAIN kids) /\ DOMAIN kids \subseteq Work /\ kids \in [DOMAIN kids -> Child]
  BY DEF Valid
<1>3. /\ DOMAIN graph = DOMAIN work \cup DOMAIN kids
      /\ graph[w] = work[w].dependencies \cup DOMAIN kids
      /\ \A k \in DOMAIN kids : graph[k] = kids[k].dependencies
      /\ \A v \in DOMAIN work \ {w} : graph[v] = work[v].dependencies
  BY <1>1 DEF GraphWith
<1>. HIDE DEF graph
<1>4. /\ Free(work[w], "ready") \in Row
      /\ Free(work[w], "ready").status = "ready"
      /\ Free(work[w], "ready").owner = None
      /\ Free(work[w], "ready").epoch = work[w].epoch
  BY <1>1, FreedRow DEF TypeOK, WorkStatus
<1>5. graph[w] \in SUBSET Work
  BY <1>1, <1>2, <1>3 DEF TypeOK, Row
<1>6. /\ row(w) \in Row
      /\ row(w).status = "ready"
      /\ row(w).owner = None
      /\ row(w).epoch = work[w].epoch
      /\ row(w).dependencies = graph[w]
  <2>1. row(w) = [Free(work[w], "ready") EXCEPT !.dependencies = graph[w]]
    BY <1>1
  <2>. HIDE DEF row
  <2>. QED
    BY <1>4, <1>5, <2>1 DEF Row
<1>7. ASSUME NEW k \in DOMAIN kids
      PROVE  /\ row(k) \in Row
             /\ row(k).status = "ready" /\ row(k).owner = None /\ row(k).epoch = 0
             /\ row(k).dependencies = graph[k]
  <2>1. kids[k].dependencies \in SUBSET Work /\ kids[k].agents \in SUBSET Agent
    BY <1>2 DEF Child
  <2>2. run.generation \in Nat
    BY DEF TypeOK, Run
  <2>. QED
    BY <1>3, <2>1, <2>2 DEF Row, WorkStatus
<1>8. ASSUME NEW v \in DOMAIN work \ {w}
      PROVE  row(v) = work[v] /\ row(v) \in Row /\ row(v).dependencies = graph[v]
  BY <1>1, <1>3 DEF TypeOK
<1>. HIDE DEF row
<1>9. work' \in [DOMAIN work' -> Row] /\ DOMAIN work' = DOMAIN work \cup DOMAIN kids
  BY <1>1, <1>3, <1>6, <1>7, <1>8
<1>10. \A v \in DOMAIN graph : work'[v] = row(v)
  BY <1>1
<1>11. \A v \in DOMAIN graph : work'[v].dependencies = graph[v]
  BY <1>3, <1>6, <1>7, <1>8, <1>10
<1>12. [v \in DOMAIN work' |-> work'[v].dependencies] = graph
  <2>1. graph = [v \in DOMAIN graph |-> graph[v]]
    BY DEF graph, GraphWith
  <2>2. DOMAIN work' = DOMAIN graph
    BY <1>1
  <2>. QED
    BY <1>11, <2>1, <2>2
<1>13. graph = GraphWith(l.work, kids)
  BY DEF graph
<1>. QED
  BY <1>1, <1>2, <1>3, <1>6, <1>7, <1>8, <1>9, <1>10, <1>12, <1>13

\* New rows and a row given up keep the invariant of the base ledger.
LEMMA DecomposeLedger ==
  ASSUME TreeInv, NEW l \in granted, NEW kids, Valid(kids), Decompose(l, kids)
  PROVE  LedgerInv'
<1>. DEFINE w == l.work
<1>1. LedgerInv /\ TypeOK
  BY DEF TreeInv, LedgerInv
<1>2. /\ Holds(l)
      /\ w \in DOMAIN work
      /\ DOMAIN kids \cap DOMAIN work = {}
      /\ DOMAIN kids \subseteq Work
      /\ UNCHANGED <<run, calls, artifacts, granted>>
      /\ DOMAIN work' = DOMAIN work \cup DOMAIN kids
      /\ work' \in [DOMAIN work' -> Row]
      /\ \A k \in DOMAIN kids :
           work'[k].status = "ready" /\ work'[k].owner = None /\ work'[k].epoch = 0
      /\ work'[w].status = "ready"
      /\ work'[w].owner = None
      /\ work'[w].epoch = work[w].epoch
      /\ \A v \in DOMAIN work \ {w} : work'[v] = work[v]
  BY <1>1, DecomposedRows
<1>3. work[w].status = "leased" /\ run.status = "running"
  BY <1>2 DEF Holds
<1>4. \A c \in DOMAIN calls : calls[c].work = w => calls[c].state \notin Unsettled
  BY DEF Decompose, CallsOf
<1>5. \A c \in DOMAIN calls : calls[c].work \in DOMAIN work
  BY <1>1 DEF TypeOK
<1>6. TypeOK'
  BY <1>1, <1>2 DEF TypeOK
<1>7. ReservationsBacked'
  <2>1. SUFFICES ASSUME NEW c \in DOMAIN calls, calls[c].state = "reserved"
                 PROVE  /\ run.status = "running"
                        /\ work'[calls[c].work].status = "leased"
                        /\ work'[calls[c].work].epoch = calls[c].epoch
    BY <1>2 DEF ReservationsBacked
  <2>2. calls[c].work # w
    BY <1>4, <2>1 DEF Unsettled
  <2>3. work'[calls[c].work] = work[calls[c].work]
    BY <1>2, <1>5, <2>2
  <2>. QED
    BY <1>1, <2>1, <2>3 DEF LedgerInv, ReservationsBacked
<1>8. UnknownNotOffered'
  <2>1. SUFFICES ASSUME NEW c \in DOMAIN calls, calls[c].state = "dispatched"
                 PROVE  /\ work'[calls[c].work].status # "ready"
                        /\ work'[calls[c].work].status = "leased" =>
                             work'[calls[c].work].epoch = calls[c].epoch
    BY <1>2 DEF UnknownNotOffered
  <2>2. calls[c].work # w
    BY <1>4, <2>1 DEF Unsettled
  <2>3. work'[calls[c].work] = work[calls[c].work]
    BY <1>2, <1>5, <2>2
  <2>. QED
    BY <1>1, <2>1, <2>3 DEF LedgerInv, UnknownNotOffered
<1>9. UncertainIsUnknown'
  <2>1. \A v : Unknown(v)' <=> Unknown(v)
    BY <1>2 DEF Unknown
  <2>. QED
    BY <1>1, <1>2, <2>1 DEF LedgerInv, UncertainIsUnknown
<1>10. GrantsBounded'
  BY <1>1, <1>2 DEF LedgerInv, GrantsBounded
<1>11. OwnersLease'
  BY <1>1, <1>2 DEF LedgerInv, OwnersLease
<1>12. NewestLeaseFenced'
  <2>1. ASSUME NEW m \in granted, Holds(m)' PROVE Holds(m)
    <3>1. m.work \in DOMAIN work /\ work'[m.work].status = "leased"
      BY <1>1, <2>1 DEF Holds, LedgerInv, GrantsBounded
    <3>2. work'[m.work] = work[m.work]
      BY <1>2, <3>1
    <3>. QED
      BY <1>2, <2>1, <3>1, <3>2 DEF Holds
  <2>. QED
    BY <1>1, <1>2, <2>1 DEF LedgerInv, NewestLeaseFenced
<1>13. HeldOverArtifacts'
  <2>1. w \notin DOMAIN artifacts /\ DOMAIN artifacts \subseteq DOMAIN work
    BY <1>1, <1>2, <1>3 DEF TreeInv, DoneMeansDecided, TypeOK
  <2>. QED
    BY <1>1, <1>2, <2>1 DEF LedgerInv, HeldOverArtifacts
<1>14. RunMatchesWork'
  BY <1>1, <1>2, <1>3 DEF LedgerInv, RunMatchesWork
<1>15. WithinBudget'
  <2>1. calls' = calls
    BY <1>2
  <2>. QED
    BY <1>1, <2>1 DEF LedgerInv, WithinBudget, Spent
<1>. QED
  BY <1>6, <1>7, <1>8, <1>9, <1>10, <1>11, <1>12, <1>13, <1>14, <1>15 DEF LedgerInv

\* The caps Decompose leaves.
LEMMA DecomposedCaps ==
  ASSUME TreeInv, NEW l \in granted, NEW kids, Valid(kids), Decompose(l, kids)
  PROVE  /\ meta' \in [DOMAIN work \cup DOMAIN kids -> MetaRow]
         /\ DOMAIN meta' = DOMAIN work \cup DOMAIN kids
         /\ \A k \in DOMAIN kids :
              /\ meta'[k].parent = l.work
              /\ meta'[k].caps = [calls |-> kids[k].calls, tokens |-> kids[k].tokens]
              /\ meta'[k].original = meta'[k].caps
         /\ meta'[l.work].parent = meta[l.work].parent
         /\ meta'[l.work].original = meta[l.work].original
         /\ meta'[l.work].caps = Less(meta[l.work].caps, Given(kids))
         /\ \A v \in DOMAIN work \ {l.work} : meta'[v] = meta[v]
         /\ Affordable(l.work, Given(kids))
<1>. DEFINE w == l.work
            gift == Given(kids)
            row(v) ==
              IF v \in DOMAIN kids
              THEN LET caps == [calls |-> kids[v].calls, tokens |-> kids[v].tokens]
                   IN [parent |-> w, depth |-> meta[w].depth + 1,
                       caps |-> caps, original |-> caps]
              ELSE IF v = w THEN [meta[w] EXCEPT !.caps = Less(@, gift)]
              ELSE meta[v]
<1>1. /\ w \in DOMAIN work
      /\ DOMAIN kids \cap DOMAIN work = {}
      /\ Affordable(w, gift)
      /\ meta' = [v \in DOMAIN GraphWith(w, kids) |-> row(v)]
  BY DEF Decompose, Holds
<1>2. DOMAIN GraphWith(w, kids) = DOMAIN work \cup DOMAIN kids
  BY DEF GraphWith
<1>3. gift.calls \in Nat /\ gift.tokens \in Nat
  BY GivenNat
<1>4. kids \in [DOMAIN kids -> Child] /\ DOMAIN kids \subseteq Work
  BY DEF Valid
<1>5. TypeOK /\ meta \in [DOMAIN work -> MetaRow] /\ DOMAIN work \subseteq Work
  BY DEF TreeInv, LedgerInv, PlatformTypeOK, TypeOK
<1>. HIDE DEF gift
<1>6. Less(meta[w].caps, gift) \in Caps
  <2>1. Cardinality(CallsOf(w)) \in Nat /\ SpentOn(w) \in Nat
    BY <1>5, SpentNat
  <2>2. meta[w].caps.calls \in Nat /\ meta[w].caps.tokens \in Nat
    BY <1>1, <1>5 DEF MetaRow, Caps
  <2>3. /\ gift.calls + Cardinality(CallsOf(w)) <= meta[w].caps.calls
        /\ gift.tokens + SpentOn(w) <= meta[w].caps.tokens
    BY <1>1 DEF Affordable
  <2>. QED
    BY <1>3, <2>1, <2>2, <2>3 DEF Less, Caps
<1>7. /\ row(w) \in MetaRow
      /\ row(w).parent = meta[w].parent
      /\ row(w).original = meta[w].original
      /\ row(w).caps = Less(meta[w].caps, gift)
  <2>1. row(w) = [meta[w] EXCEPT !.caps = Less(@, gift)] /\ meta[w] \in MetaRow
    BY <1>1, <1>5
  <2>. HIDE DEF row
  <2>. QED
    BY <1>6, <2>1 DEF MetaRow
<1>8. ASSUME NEW k \in DOMAIN kids
      PROVE  /\ row(k) \in MetaRow
             /\ row(k).parent = w
             /\ row(k).caps = [calls |-> kids[k].calls, tokens |-> kids[k].tokens]
             /\ row(k).original = row(k).caps
  <2>1. kids[k].calls \in Nat /\ kids[k].tokens \in Nat
    BY <1>4 DEF Child
  <2>2. meta[w].depth + 1 \in Nat /\ w \in Work
    BY <1>1, <1>5 DEF MetaRow
  <2>. QED
    BY <2>1, <2>2 DEF MetaRow, Caps
<1>9. ASSUME NEW v \in DOMAIN work \ {w}
      PROVE  row(v) = meta[v] /\ row(v) \in MetaRow
  BY <1>1, <1>5
<1>. HIDE DEF row
<1>10. meta' = [v \in DOMAIN work \cup DOMAIN kids |-> row(v)]
  BY <1>1, <1>2
<1>11. \A v \in DOMAIN work \cup DOMAIN kids : row(v) \in MetaRow
  BY <1>7, <1>8, <1>9
<1>12. /\ meta' \in [DOMAIN work \cup DOMAIN kids -> MetaRow]
       /\ DOMAIN meta' = DOMAIN work \cup DOMAIN kids
       /\ \A v \in DOMAIN work \cup DOMAIN kids : meta'[v] = row(v)
  BY <1>10, <1>11
<1>13. gift = Given(kids)
  BY DEF gift
<1>. QED
  BY <1>1, <1>7, <1>8, <1>9, <1>12, <1>13

\* What the parent loses its children have.
LEMMA DecomposeConserves ==
  ASSUME TreeInv, NEW l \in granted, NEW kids, Valid(kids), Decompose(l, kids)
  PROVE  CapsConserved'
<1>. DEFINE w == l.work
            K == DOMAIN kids
            Below(v) == {u \in DOMAIN meta : meta[u].parent = v}
            After(v) == {u \in DOMAIN meta' : meta'[u].parent = v}
<1>1. TypeOK /\ PlatformTypeOK /\ CapsConserved
  BY DEF TreeInv, LedgerInv
<1>2. /\ w \in DOMAIN work
      /\ IsFiniteSet(K) /\ K \cap DOMAIN work = {} /\ K \subseteq Work
  BY <1>1, DecomposedRows
<1>3. /\ meta' \in [DOMAIN work \cup K -> MetaRow]
      /\ DOMAIN meta' = DOMAIN work \cup K
      /\ \A k \in K :
           /\ meta'[k].parent = w
           /\ meta'[k].caps = [calls |-> kids[k].calls, tokens |-> kids[k].tokens]
           /\ meta'[k].original = meta'[k].caps
      /\ meta'[w].parent = meta[w].parent
      /\ meta'[w].original = meta[w].original
      /\ meta'[w].caps = Less(meta[w].caps, Given(kids))
      /\ \A v \in DOMAIN work \ {w} : meta'[v] = meta[v]
  BY DecomposedCaps
<1>4. /\ IsFiniteSet(DOMAIN work) /\ DOMAIN meta = DOMAIN work
      /\ meta \in [DOMAIN work -> MetaRow]
      /\ \A v \in DOMAIN work : meta[v].parent \in DOMAIN work \cup {None}
  BY <1>1 DEF PlatformTypeOK
<1>5. None \notin K
  BY <1>2, DeclarationAssumption
<1>9. \A u \in DOMAIN work : meta'[u].parent = meta[u].parent /\ meta'[u].original = meta[u].original
  BY <1>3
<1>10. ASSUME NEW v PROVE After(v) = Below(v) \cup {k \in K : v = w}
  BY <1>2, <1>3, <1>4, <1>9
<1>6. ASSUME NEW v \in DOMAIN work
      PROVE  /\ meta[v].caps.calls + SumFunction([u \in Below(v) |-> meta[u].original.calls])
                  = meta[v].original.calls
             /\ meta[v].caps.tokens + SumFunction([u \in Below(v) |-> meta[u].original.tokens])
                  = meta[v].original.tokens
  BY <1>1, <1>4 DEF CapsConserved
<1>7. ASSUME NEW v \in DOMAIN work \cup K
      PROVE  /\ meta'[v].caps.calls + SumFunction([u \in After(v) |-> meta'[u].original.calls])
                  = meta'[v].original.calls
             /\ meta'[v].caps.tokens + SumFunction([u \in After(v) |-> meta'[u].original.tokens])
                  = meta'[v].original.tokens
  <2>1. CASE v \in DOMAIN work \ {w}
    <3>1. After(v) = Below(v)
      BY <1>10, <2>1
    <3>2. \A u \in Below(v) : meta'[u].original = meta[u].original
      BY <1>3, <1>4
    <3>3. /\ [u \in After(v) |-> meta'[u].original.calls] = [u \in Below(v) |-> meta[u].original.calls]
          /\ [u \in After(v) |-> meta'[u].original.tokens] = [u \in Below(v) |-> meta[u].original.tokens]
      <4>. HIDE DEF After, Below
      <4>. QED
        BY <3>1, <3>2
    <3>4. meta'[v] = meta[v]
      BY <1>3, <2>1
    <3>. QED
      BY <1>6, <2>1, <3>3, <3>4
  <2>2. CASE v = w
    <3>. DEFINE S == Below(w)
                fc == [u \in S |-> meta[u].original.calls]
                ft == [u \in S |-> meta[u].original.tokens]
                gc == [k \in K |-> kids[k].calls]
                gt == [k \in K |-> kids[k].tokens]
                hc == [u \in After(w) |-> meta'[u].original.calls]
                ht == [u \in After(w) |-> meta'[u].original.tokens]
    <3>1. After(w) = S \cup K
      BY <1>10
    <3>2. IsFiniteSet(S) /\ S \subseteq DOMAIN work /\ S \cap K = {}
      BY <1>2, <1>4, FS_Subset
    <3>3. \A u \in S : meta'[u].original = meta[u].original
      BY <1>3, <1>4
    <3>4. \A k \in K : /\ meta'[k].original.calls = kids[k].calls
                       /\ meta'[k].original.tokens = kids[k].tokens
      <4>1. ASSUME NEW k \in K
            PROVE  /\ meta'[k].original.calls = kids[k].calls
                   /\ meta'[k].original.tokens = kids[k].tokens
        <5>1. meta'[k].original = [calls |-> kids[k].calls, tokens |-> kids[k].tokens]
          BY <1>3
        <5>. QED
          BY <5>1
      <4>. QED
        BY <4>1
    <3>5. fc \in [S -> Nat] /\ ft \in [S -> Nat]
      BY <1>4 DEF MetaRow, Caps
    <3>6. kids \in [K -> Child]
      BY DEF Valid
    <3>7. gc \in [K -> Nat] /\ gt \in [K -> Nat]
      BY <3>6 DEF Child
    <3>8. meta[w].caps.calls \in Nat /\ meta[w].caps.tokens \in Nat
      BY <1>2, <1>4 DEF MetaRow, Caps
    <3>9. /\ meta'[w].caps.calls = meta[w].caps.calls - SumFunction(gc)
          /\ meta'[w].caps.tokens = meta[w].caps.tokens - SumFunction(gt)
      BY <1>3 DEF Less, Given
    <3>10. /\ meta[w].caps.calls + SumFunction(fc) = meta[w].original.calls
           /\ meta[w].caps.tokens + SumFunction(ft) = meta[w].original.tokens
      BY <1>2, <1>6
    <3>. HIDE DEF S, After
    <3>11. /\ hc \in [S \cup K -> Nat] /\ ht \in [S \cup K -> Nat]
           /\ \A u \in S : hc[u] = fc[u] /\ ht[u] = ft[u]
           /\ \A k \in K : hc[k] = gc[k] /\ ht[k] = gt[k]
      <4>1. \A u \in S : hc[u] = fc[u] /\ ht[u] = ft[u]
        BY <3>1, <3>3
      <4>2. \A k \in K : hc[k] = gc[k] /\ ht[k] = gt[k]
        BY <3>1, <3>4
      <4>3. DOMAIN hc = S \cup K /\ DOMAIN ht = S \cup K
        BY <3>1
      <4>4. \A u \in S \cup K : hc[u] \in Nat /\ ht[u] \in Nat
        <5>. HIDE DEF hc, ht, fc, ft, gc, gt
        <5>. QED
          BY <3>5, <3>7, <4>1, <4>2
      <4>5. hc = [u \in S \cup K |-> hc[u]] /\ ht = [u \in S \cup K |-> ht[u]]
        BY <3>1
      <4>. HIDE DEF hc, ht, fc, ft, gc, gt
      <4>. QED
        BY <4>1, <4>2, <4>4, <4>5
    <3>. HIDE DEF K, fc, ft, gc, gt, hc, ht
    <3>12. meta'[w].caps.calls + SumFunction(hc) = meta'[w].original.calls
      <4>1. (meta[w].caps.calls - SumFunction(gc)) + SumFunction(hc) = meta[w].original.calls
        <5>1. IsFiniteSet(S) /\ IsFiniteSet(K) /\ S \cap K = {}
          BY <1>2, <3>2
        <5>2. fc \in [S -> Nat] /\ gc \in [K -> Nat] /\ hc \in [S \cup K -> Nat]
          BY <3>5, <3>7, <3>11
        <5>3. (\A u \in S : hc[u] = fc[u]) /\ (\A k \in K : hc[k] = gc[k])
          BY <3>11
        <5>4. SumFunction(hc) = SumFunction(fc) + SumFunction(gc)
          BY <5>1, <5>2, <5>3, TotalUnion
        <5>5. SumFunction(fc) \in Nat /\ SumFunction(gc) \in Nat
          BY <5>1, <5>2, TotalNat
        <5>. QED
          BY <3>8, <3>10, <5>4, <5>5
      <4>. QED
        BY <1>3, <3>9, <4>1
    <3>13. meta'[w].caps.tokens + SumFunction(ht) = meta'[w].original.tokens
      <4>1. (meta[w].caps.tokens - SumFunction(gt)) + SumFunction(ht) = meta[w].original.tokens
        <5>1. IsFiniteSet(S) /\ IsFiniteSet(K) /\ S \cap K = {}
          BY <1>2, <3>2
        <5>2. ft \in [S -> Nat] /\ gt \in [K -> Nat] /\ ht \in [S \cup K -> Nat]
          BY <3>5, <3>7, <3>11
        <5>3. (\A u \in S : ht[u] = ft[u]) /\ (\A k \in K : ht[k] = gt[k])
          BY <3>11
        <5>4. SumFunction(ht) = SumFunction(ft) + SumFunction(gt)
          BY <5>1, <5>2, <5>3, TotalUnion
        <5>5. SumFunction(ft) \in Nat /\ SumFunction(gt) \in Nat
          BY <5>1, <5>2, TotalNat
        <5>. QED
          BY <3>8, <3>10, <5>4, <5>5
      <4>. QED
        BY <1>3, <3>9, <4>1
    <3>. QED
      BY <2>2, <3>12, <3>13 DEF hc, ht
  <2>3. CASE v \in K
    <3>1. After(v) = {}
      <4>1. Below(v) = {}
        BY <1>2, <1>4, <1>5, <2>3
      <4>2. v # w
        BY <1>2, <2>3
      <4>. HIDE DEF After, Below
      <4>. QED
        BY <1>10, <4>1, <4>2
    <3>2. /\ SumFunction([u \in After(v) |-> meta'[u].original.calls]) = 0
          /\ SumFunction([u \in After(v) |-> meta'[u].original.tokens]) = 0
      BY <3>1, TotalEmpty
    <3>3. meta'[v].caps.calls \in Nat /\ meta'[v].caps.tokens \in Nat
      BY <1>3, <2>3 DEF MetaRow, Caps
    <3>4. meta'[v].original = meta'[v].caps
      BY <1>3, <2>3
    <3>. HIDE DEF After
    <3>. QED
      BY <3>2, <3>3, <3>4
  <2>. QED
    BY <2>1, <2>2, <2>3
<1>. QED
  BY <1>3, <1>7 DEF CapsConserved

\* A work keeps enough for what it spent; its children have spent nothing.
LEMMA DecomposeSpend ==
  ASSUME TreeInv, NEW l \in granted, NEW kids, Valid(kids), Decompose(l, kids)
  PROVE  SpendWithinCaps'
<1>. DEFINE w == l.work
<1>1. TypeOK /\ SpendWithinCaps /\ PlatformTypeOK
  BY DEF TreeInv, LedgerInv
<1>2. /\ w \in DOMAIN work /\ DOMAIN kids \cap DOMAIN work = {}
      /\ UNCHANGED calls
      /\ DOMAIN work' = DOMAIN work \cup DOMAIN kids
  BY <1>1, DecomposedRows
<1>3. /\ \A k \in DOMAIN kids :
           meta'[k].caps = [calls |-> kids[k].calls, tokens |-> kids[k].tokens]
      /\ meta'[w].caps = Less(meta[w].caps, Given(kids))
      /\ \A v \in DOMAIN work \ {w} : meta'[v] = meta[v]
      /\ Affordable(w, Given(kids))
  BY DecomposedCaps
<1>4. \A v : CallsOf(v)' = CallsOf(v) /\ SpentOn(v)' = SpentOn(v)
  BY <1>2 DEF CallsOf, SpentOn
<1>5. ASSUME NEW v \in DOMAIN work \cup DOMAIN kids
      PROVE  /\ Cardinality(CallsOf(v)) <= meta'[v].caps.calls
             /\ SpentOn(v) <= meta'[v].caps.tokens
  <2>1. CASE v \in DOMAIN work \ {w}
    BY <1>1, <1>3, <2>1 DEF SpendWithinCaps
  <2>2. CASE v = w
    <3>1. Given(kids).calls \in Nat /\ Given(kids).tokens \in Nat
      BY GivenNat
    <3>2. Cardinality(CallsOf(w)) \in Nat /\ SpentOn(w) \in Nat
      BY <1>1, SpentNat
    <3>3. meta[w].caps.calls \in Nat /\ meta[w].caps.tokens \in Nat
      BY <1>1, <1>2 DEF PlatformTypeOK, MetaRow, Caps
    <3>4. /\ Given(kids).calls + Cardinality(CallsOf(w)) <= meta[w].caps.calls
          /\ Given(kids).tokens + SpentOn(w) <= meta[w].caps.tokens
      BY <1>3 DEF Affordable
    <3>5. /\ meta'[w].caps.calls = meta[w].caps.calls - Given(kids).calls
          /\ meta'[w].caps.tokens = meta[w].caps.tokens - Given(kids).tokens
      BY <1>3 DEF Less
    <3>. QED
      BY <2>2, <3>1, <3>2, <3>3, <3>4, <3>5
  <2>3. CASE v \in DOMAIN kids
    <3>1. CallsOf(v) = {}
      BY <1>1, <1>2, <2>3 DEF CallsOf, TypeOK
    <3>2. kids[v].calls \in Nat /\ kids[v].tokens \in Nat
      BY <2>3 DEF Valid, Child
    <3>3. meta'[v].caps.calls = kids[v].calls /\ meta'[v].caps.tokens = kids[v].tokens
      <4>1. meta'[v].caps = [calls |-> kids[v].calls, tokens |-> kids[v].tokens]
        BY <1>3, <2>3
      <4>. QED
        BY <4>1
    <3>. QED
      BY <3>1, <3>2, <3>3, NothingSpent
  <2>. QED
    BY <2>1, <2>2, <2>3
<1>. QED
  BY <1>2, <1>4, <1>5 DEF SpendWithinCaps

\* So does a decomposition.
LEMMA DecomposeKeeps ==
  ASSUME TreeInv, NEW l \in granted, NEW kids, Valid(kids), Decompose(l, kids)
  PROVE  TreeInv' /\ (UnknownBlocksRetry => UnknownBlocksRetry')
<1>. DEFINE w == l.work
            K == DOMAIN kids
<1>1. /\ LedgerInv /\ PlatformTypeOK /\ DecisionsPublished
      /\ DoneMeansDecided /\ DoneIsSettled /\ TypeOK
  BY DEF TreeInv, LedgerInv
<1>2. /\ Holds(l)
      /\ w \in DOMAIN work
      /\ IsFiniteSet(K) /\ K \cap DOMAIN work = {}
      /\ UNCHANGED <<run, calls, artifacts, granted, decisions>>
      /\ DOMAIN work' = DOMAIN work \cup K
      /\ \A k \in K : work'[k].status = "ready"
      /\ work'[w].status = "ready"
      /\ \A v \in DOMAIN work \ {w} : work'[v] = work[v]
      /\ [v \in DOMAIN work' |-> work'[v].dependencies] = GraphWith(w, kids)
  BY <1>1, DecomposedRows
<1>3. /\ meta' \in [DOMAIN work \cup K -> MetaRow]
      /\ DOMAIN meta' = DOMAIN work \cup K
      /\ \A k \in K : meta'[k].parent = w
      /\ meta'[w].parent = meta[w].parent
      /\ \A v \in DOMAIN work \ {w} : meta'[v] = meta[v]
  BY DecomposedCaps
<1>4. /\ work[w].status = "leased"
      /\ \A c \in DOMAIN calls : calls[c].work = w => calls[c].state \notin Unsettled
      /\ Admissible(GraphWith(w, kids))
  BY <1>2 DEF Holds, Decompose, CallsOf
<1>5. /\ \A c \in DOMAIN calls : calls[c].work \in DOMAIN work
      /\ DOMAIN artifacts \subseteq DOMAIN work
      /\ DOMAIN decisions \subseteq DOMAIN work
  BY <1>1 DEF TypeOK, PlatformTypeOK
<1>6. LedgerInv' /\ CapsConserved' /\ SpendWithinCaps'
  BY DecomposeLedger, DecomposeConserves, DecomposeSpend
<1>8. PlatformTypeOK'
  <2>1. IsFiniteSet(DOMAIN work')
    <3>1. IsFiniteSet(DOMAIN work)
      BY <1>1 DEF PlatformTypeOK
    <3>2. IsFiniteSet(DOMAIN work \cup K)
      BY <1>2, <3>1, FS_Union
    <3>. QED
      BY <1>2, <3>2
  <2>2. \A v \in DOMAIN work' : meta'[v].parent \in DOMAIN work' \cup {None}
    BY <1>1, <1>2, <1>3 DEF PlatformTypeOK
  <2>. QED
    BY <1>1, <1>2, <1>3, <2>1, <2>2 DEF PlatformTypeOK
<1>9. GraphWellFounded'
  BY <1>2, <1>4 DEF GraphWellFounded, Admissible, Acyclic
<1>10. DecisionsPublished'
  BY <1>1, <1>2 DEF DecisionsPublished
<1>11. DoneMeansDecided'
  <2>1. ASSUME NEW v \in DOMAIN work \ {w}
        PROVE  /\ work'[v].status = "done" <=>
                    \/ v \in DOMAIN artifacts'
                    \/ v \in DOMAIN decisions' /\ decisions'[v].decision = "abstain"
               /\ v \in DOMAIN artifacts' /\ v \in DOMAIN decisions' =>
                    /\ decisions'[v].decision = "publish"
                    /\ decisions'[v].call = artifacts'[v].call
    BY <1>1, <1>2 DEF DoneMeansDecided
  <2>2. /\ work'[w].status # "done" /\ w \notin DOMAIN artifacts
        /\ ~(w \in DOMAIN decisions /\ decisions[w].decision = "abstain")
    BY <1>1, <1>2, <1>4 DEF DoneMeansDecided
  <2>3. ASSUME NEW k \in K
        PROVE  work'[k].status # "done" /\ k \notin DOMAIN artifacts /\ k \notin DOMAIN decisions
    BY <1>2, <1>5
  <2>. QED
    BY <1>2, <2>1, <2>2, <2>3 DEF DoneMeansDecided
<1>12. DoneIsSettled'
  BY <1>1, <1>2, <1>5 DEF DoneIsSettled
<1>13. UnknownBlocksRetry => UnknownBlocksRetry'
  <2>1. SUFFICES ASSUME UnknownBlocksRetry, NEW c \in DOMAIN calls,
                        calls[c].state = "dispatched"
                 PROVE  /\ work'[calls[c].work].status # "ready"
                        /\ work'[calls[c].work].epoch = calls[c].epoch
    BY <1>2 DEF UnknownBlocksRetry
  <2>2. work'[calls[c].work] = work[calls[c].work]
    BY <1>2, <1>4, <1>5, <2>1 DEF Unsettled
  <2>. QED
    BY <2>1, <2>2 DEF UnknownBlocksRetry
<1>. QED
  BY <1>6, <1>8, <1>9, <1>10, <1>11, <1>12, <1>13 DEF TreeInv

\* An artifact goes on naming a settled receipt of its own work.
LEMMA BackedKept ==
  ASSUME TreeInv, ArtifactsBacked,
         OwnTreeStep \/ Split \/ (\E l \in granted : Release(l)) \/ Terminated
  PROVE  ArtifactsBacked'
<1>1. LedgerInv /\ TypeOK /\ PlatformTypeOK
  BY DEF TreeInv, LedgerInv
<1>2. CASE OwnTreeStep
  <2>1. RowsKept(Fresh) /\ CallsKept /\ ArtifactsKept
    BY <1>1, <1>2, StepKeeps DEF OwnTreeStep, TreeStep
  <2>. QED
    BY <1>1, <1>2, <2>1, ReceiptsKept DEF OwnTreeStep
<1>3. ASSUME NEW l \in granted, NEW kids, Valid(kids), Decompose(l, kids)
      PROVE  ArtifactsBacked'
  <2>1. /\ Holds(l)
        /\ UNCHANGED <<calls, artifacts>>
        /\ \A v \in DOMAIN work \ {l.work} : work'[v] = work[v]
    BY <1>1, <1>3, DecomposedRows
  <2>2. l.work \notin DOMAIN artifacts /\ DOMAIN artifacts \subseteq DOMAIN work
    BY <1>1, <2>1 DEF ArtifactsBacked, Holds, TypeOK
  <2>. QED
    BY <2>1, <2>2 DEF ArtifactsBacked
<1>4. ASSUME NEW E, RowsKept(E), CallsKept, UNCHANGED artifacts PROVE ArtifactsBacked'
  <2>1. ArtifactsKept /\ Fresh \subseteq E /\ OwnReceipts
    BY <1>4, SameArtifactsKept, OldReceipts
  <2>. QED
    BY <1>1, <1>4, <2>1, ReceiptsKept
<1>5. ASSUME NEW l \in granted, Release(l) PROVE ArtifactsBacked'
  <2>. DEFINE E == {}
  <2>1. RowsKept(E) /\ CallsKept /\ UNCHANGED artifacts
    BY <1>5, ReleaseKeeps DEF Release
  <2>. HIDE DEF E
  <2>. QED
    BY <1>4, <2>1
<1>6. CASE Terminated
  <2>1. PICK w \in DOMAIN work, a \in Agent :
          \E rows, freed : EndsFrom(rows, w, a, freed) /\ Terminate(rows, w, a, freed)
    BY <1>6 DEF Terminated
  <2>2. RowsKept({w}) /\ CallsKept /\ UNCHANGED artifacts
    BY <1>1, <2>1, EndKeeps DEF Terminate, Ended
  <2>. QED
    BY <1>4, <2>2
<1>. QED
  BY <1>2, <1>3, <1>5, <1>6 DEF Split

-----------------------------------------------------------------------------
\* Invariance

\* What create() leaves, of work items and caps it accepts.
LEMMA InitTree ==
  ASSUME NEW declaration, NEW budgets,
         DOMAIN declaration \subseteq Work, DOMAIN declaration # {},
         IsFiniteSet(DOMAIN declaration),
         \A w \in DOMAIN declaration :
           declaration[w] \in [dependencies : SUBSET DOMAIN declaration,
                               agents : (SUBSET Agent) \ {{}}],
         \A S \in (SUBSET DOMAIN declaration) \ {{}} :
           \E w \in S : declaration[w].dependencies \cap S = {},
         budgets \in [DOMAIN declaration -> Caps],
         PlatformInitOf(declaration, budgets)
  PROVE  PlatformInv
<1>. DEFINE D == DOMAIN declaration
<1>1. /\ InitOf(declaration)
      /\ meta = [w \in D |->
                   [parent |-> None, depth |-> 0, caps |-> budgets[w], original |-> budgets[w]]]
      /\ decisions = [w \in {} |-> None]
  BY DEF PlatformInitOf
<1>2. LedgerInv /\ UnknownBlocksRetry
  BY <1>1, InitLedger
<1>3. /\ DOMAIN work = D
      /\ \A w \in D : work[w].status = "ready" /\ work[w].dependencies = declaration[w].dependencies
      /\ calls = [c \in {} |-> None] /\ artifacts = [w \in {} |-> None]
  BY <1>1 DEF InitOf
<1>4. DOMAIN calls = {} /\ DOMAIN artifacts = {} /\ DOMAIN decisions = {}
  BY <1>1, <1>3
<1>5. ArtifactsBacked /\ DecisionsPublished /\ DoneMeansDecided /\ DoneIsSettled
  BY <1>3, <1>4 DEF ArtifactsBacked, DecisionsPublished, DoneMeansDecided, DoneIsSettled
<1>6. ASSUME NEW w \in D
      PROVE  /\ meta[w] \in MetaRow /\ meta[w].parent = None
             /\ meta[w].original = meta[w].caps
             /\ meta[w].caps.calls \in Nat /\ meta[w].caps.tokens \in Nat
  <2>1. meta[w] = [parent |-> None, depth |-> 0, caps |-> budgets[w], original |-> budgets[w]]
    BY <1>1
  <2>2. budgets[w] \in Caps
    OBVIOUS
  <2>. QED
    BY <2>1, <2>2 DEF MetaRow, Caps
<1>7. DOMAIN meta = D /\ meta \in [D -> MetaRow]
  <2>1. DOMAIN meta = D
    BY <1>1
  <2>2. meta = [w \in D |-> meta[w]]
    BY <1>1
  <2>. QED
    BY <1>6, <2>1, <2>2
<1>8. PlatformTypeOK
  BY <1>3, <1>4, <1>6, <1>7 DEF PlatformTypeOK
<1>9. CapsConserved
  <2>1. SUFFICES ASSUME NEW w \in D
                 PROVE  /\ meta[w].caps.calls
                             + SumFunction([v \in {u \in D : meta[u].parent = w} |->
                                              meta[v].original.calls])
                             = meta[w].original.calls
                        /\ meta[w].caps.tokens
                             + SumFunction([v \in {u \in D : meta[u].parent = w} |->
                                              meta[v].original.tokens])
                             = meta[w].original.tokens
    BY <1>7 DEF CapsConserved
  <2>2. w # None
    BY DeclarationAssumption
  <2>3. {u \in D : meta[u].parent = w} = {}
    BY <1>6, <2>2
  <2>4. /\ SumFunction([v \in {u \in D : meta[u].parent = w} |-> meta[v].original.calls]) = 0
        /\ SumFunction([v \in {u \in D : meta[u].parent = w} |-> meta[v].original.tokens]) = 0
    BY <2>3, TotalEmpty
  <2>. QED
    BY <1>6, <2>4
<1>10. SpendWithinCaps
  <2>1. \A w : CallsOf(w) = {}
    BY <1>4 DEF CallsOf
  <2>. QED
    BY <1>3, <1>6, <2>1, NothingSpent DEF SpendWithinCaps
<1>11. GraphWellFounded
  <2>1. [w \in DOMAIN work |-> work[w].dependencies] = [w \in D |-> declaration[w].dependencies]
    BY <1>3
  <2>2. \A w \in D : declaration[w].dependencies \subseteq D
    OBVIOUS
  <2>. QED
    BY <2>1, <2>2 DEF GraphWellFounded, Acyclic
<1>. QED
  BY <1>2, <1>5, <1>8, <1>9, <1>10, <1>11 DEF PlatformInv, TreeInv

\* create.
LEMMA PlatformInitInv == PlatformInit => PlatformInv
BY InitTree, DeclarationAssumption, BudgetAssumption DEF PlatformInit

\* Every kind of step.
LEMMA PlatformStepInv ==
  ASSUME PlatformInv, OwnTreeStep \/ Split \/ (\E l \in granted : Release(l)) \/ Terminated
  PROVE  PlatformInv'
<1>1. TreeInv /\ ArtifactsBacked /\ UnknownBlocksRetry /\ LedgerInv /\ TypeOK
  BY DEF PlatformInv, TreeInv, LedgerInv
<1>2. ArtifactsBacked'
  BY <1>1, BackedKept
<1>3. CASE OwnTreeStep
  <2>1. TreeInv' /\ LedgerInv'
    BY <1>1, <1>3, TreeStepKeeps DEF TreeInv, OwnTreeStep
  <2>2. CallsKept /\ RowsKept(Fresh)
    BY <1>1, <1>3, StepKeeps DEF OwnTreeStep, TreeStep
  <2>. QED
    BY <1>1, <1>2, <2>1, <2>2, RetryBlocked DEF PlatformInv
<1>4. ASSUME NEW l \in granted, NEW kids, Valid(kids), Decompose(l, kids) PROVE PlatformInv'
  BY <1>1, <1>2, <1>4, DecomposeKeeps DEF PlatformInv
<1>5. ASSUME NEW l \in granted, Release(l) PROVE PlatformInv'
  <2>1. TreeInv' /\ LedgerInv' /\ CallsKept /\ RowsKept({})
    BY <1>1, <1>5, ReleaseKeeps DEF TreeInv
  <2>. QED
    BY <1>1, <1>2, <2>1, RetryBlocked DEF PlatformInv
<1>6. CASE Terminated
  <2>1. TreeInv' /\ LedgerInv'
    BY <1>1, <1>6, TerminatedKeeps DEF TreeInv
  <2>2. PICK w \in DOMAIN work, a \in Agent :
          \E rows, freed : EndsFrom(rows, w, a, freed) /\ Terminate(rows, w, a, freed)
    BY <1>6 DEF Terminated
  <2>3. CallsKept /\ RowsKept({w})
    BY <1>1, <2>2, EndKeeps DEF Terminate, Ended
  <2>. QED
    BY <1>1, <1>2, <2>1, <2>3, RetryBlocked DEF PlatformInv
<1>. QED
  BY <1>3, <1>4, <1>5, <1>6 DEF Split

\* Every step.
LEMMA PlatformNextInv == PlatformInv /\ [PlatformNext]_platformVars => PlatformInv'
<1>1. SUFFICES ASSUME PlatformInv, [PlatformNext]_platformVars PROVE PlatformInv'
  OBVIOUS
<1>. QED
  BY <1>1, PlatformSteps, PlatformStepInv DEF PlatformInv, TreeInv, LedgerInv

\* Every reachable state of the work-tree layer satisfies PlatformInv, however work is
\* cut up, leased, given back, published, abstained from and decided.
THEOREM PlatformInvariance == PlatformSpec => []PlatformInv
BY PlatformInitInv, PlatformNextInv, PTL DEF PlatformSpec

\* No subtree ever spends more, in calls or in tokens, than its root was given.
THEOREM SubtreeBudget == PlatformSpec => []BudgetTree
<1>1. PlatformInv => BudgetTree
  BY DEF PlatformInv, TreeInv, LedgerInv, BudgetTree
<1>. QED
  BY <1>1, PlatformInvariance, PTL

\* Decomposition never creates a cycle or an undeclared dependency.
THEOREM GraphStaysWellFounded == PlatformSpec => []GraphWellFounded
<1>1. PlatformInv => GraphWellFounded
  BY DEF PlatformInv, TreeInv
<1>. QED
  BY <1>1, PlatformInvariance, PTL

\* Work ends with an artifact or with a recorded abstention, and a recorded
\* publication names the receipt behind the artifact.
THEOREM DecisionsAgree == PlatformSpec => []DoneMeansDecided
<1>1. PlatformInv => DoneMeansDecided
  BY DEF PlatformInv, TreeInv
<1>. QED
  BY <1>1, PlatformInvariance, PTL

\* No work ends over a call whose outcome is open.
THEOREM NothingBuried == PlatformSpec => []DoneIsSettled
<1>1. PlatformInv => DoneIsSettled
  BY DEF PlatformInv, TreeInv
<1>. QED
  BY <1>1, PlatformInvariance, PTL

\* Work is held and published only over published dependencies, the children it was
\* decomposed into included.
THEOREM HeldOverPublished == PlatformSpec => []HeldOverArtifacts
<1>1. PlatformInv => HeldOverArtifacts
  BY DEF PlatformInv, TreeInv, LedgerInv
<1>. QED
  BY <1>1, PlatformInvariance, PTL

\* What the base ledger promises of reservations, retries, leases and the run row
\* holds below the layer too.
THEOREM PlatformKeepsLedger ==
  PlatformSpec => [](/\ ReservationsBacked
                     /\ UnknownBlocksRetry
                     /\ NewestLeaseFenced
                     /\ RunMatchesWork)
<1>1. PlatformInv => /\ ReservationsBacked
                     /\ UnknownBlocksRetry
                     /\ NewestLeaseFenced
                     /\ RunMatchesWork
  BY DEF PlatformInv, TreeInv, LedgerInv
<1>. QED
  BY <1>1, PlatformInvariance, PTL

-----------------------------------------------------------------------------
\* The steps of the layer under the mapping of Effects.
LEMMA TreeEffects ==
  ASSUME TreeInv, ArtifactsBacked,
         OwnTreeStep \/ Split \/ (\E l \in granted : Release(l)) \/ Terminated
  PROVE  [Effects!Next]_(Effects!vars)
<1>1. TypeOK
  BY DEF TreeInv, LedgerInv
<1>2. CASE OwnTreeStep
  BY <1>1, <1>2, StepEffects DEF OwnTreeStep, TreeStep
<1>3. CASE Split
  <2>1. UNCHANGED <<run, calls, artifacts>>
    BY <1>3 DEF Split, Decompose
  <2>2. \A c \in CallId : EffectOf(c)' = EffectOf(c)
    BY <2>1 DEF EffectOf
  <2>. QED
    BY <2>1, <2>2, SilentEffects
<1>4. ASSUME NEW l \in granted, Release(l) PROVE [Effects!Next]_(Effects!vars)
  BY <1>1, <1>4, WithdrawEffects DEF Release
<1>5. CASE Terminated
  BY <1>1, <1>5, EndEffects DEF Terminated, Terminate, Ended
<1>. QED
  BY <1>2, <1>3, <1>4, <1>5

\* Whatever the layer adds, no call is executed twice, no work is published twice or
\* from an unknown outcome, and a stopped run starts nothing.
THEOREM PlatformRefinement == PlatformSpec => EffectsAtMostOnce
<1>1. PlatformInit => Effects!Init
  BY InitEffects DEF PlatformInit, PlatformInitOf, Init
<1>2. PlatformInv /\ [PlatformNext]_platformVars => [Effects!Next]_(Effects!vars)
  BY TreeEffects, PlatformSteps DEF PlatformInv, TreeInv, LedgerInv
<1>. QED
  BY <1>1, <1>2, PlatformInvariance, PTL DEF PlatformSpec, EffectsAtMostOnce, Effects!Spec
=============================================================================
