------------------------ MODULE OrchestrationProofs ------------------------
(***************************************************************************)
(* Theorems about Orchestration, for any workflows, answers and limits.    *)
(*                                                                         *)
(* A step is a base step, a release, an end without an artifact or a       *)
(* decomposition, as in the layer below, and writes some of the tables of  *)
(* this layer.  A result may be published from the receipts of other work, *)
(* so neither ArtifactsBacked nor the refinement of EffectOnce is among    *)
(* what the ledger keeps here; TreeInv is.                                 *)
(***************************************************************************)
EXTENDS Orchestration, PlatformProofs

Decision == {"tool", "submit", "abstain", "decompose", "rejected"}

Ruling == [call : CallId, decision : Decision]

\* What may be stored as the answer of a call of w.
Reply(w) == Answers[w] \cup [kind : {"result"}, verdict : Verdicts]

\* The tables agree on which work and which calls there are; a call belongs to the work
\* of its key, an answer to a settled receipt, a derivation to an artifact.
OrchTypeOK ==
  /\ DOMAIN tasks = DOMAIN work
  /\ \A w \in DOMAIN work : tasks[w] \in TaskRow
  /\ DOMAIN bindings = DOMAIN calls
  /\ \A c \in DOMAIN calls : calls[c].work = c.work
  /\ DOMAIN answers = {c \in DOMAIN calls : calls[c].state = "received"}
  /\ \A c \in DOMAIN answers : answers[c] \in Reply(c.work)
  /\ rulings \in [DOMAIN work -> Seq(Ruling)]
  /\ DOMAIN derived = DOMAIN artifacts

\* What is ruled on is a settled call of the work.
RuledSettled ==
  \A w \in DOMAIN work : \A c \in Consumed(w) :
    c \in CallsOf(w) /\ calls[c].state \in {"received", "response_rejected"}

\* A tool call was made from a receipt of its task that asks for the tool.
ToolsFromReceipts ==
  \A t \in DOMAIN calls :
    LET m == bindings[t].source IN
    m # None =>
      /\ m \in DOMAIN answers /\ m.work = t.work
      /\ answers[m] = [kind |-> "tool", tool |-> bindings[t].tool]

\* Each of them was paid for with a receipt.
ToolsPaid ==
  \A w \in DOMAIN work : Cardinality(ToolCalls(w)) <= Cardinality(RuledAs(w, "tool"))

\* What a decision says happened.
Happened(w, c, d) ==
  /\ d = "tool" => ToolCalls(w) # {}
  /\ d = "submit" => w \in DOMAIN artifacts /\ artifacts[w].call = c
  /\ d = "abstain" => w \notin DOMAIN artifacts
  /\ d = "decompose" => Children(w) # {}

DecisionsDone ==
  \A w \in DOMAIN rulings : \A i \in DOMAIN rulings[w] :
    Happened(w, rulings[w][i].call, rulings[w][i].decision)

\* A parent depends on its children.
ChildrenAwaited ==
  \A k \in DOMAIN meta : meta[k].parent # None => k \in work[meta[k].parent].dependencies

\* No step is reserved that the task does not declare.
StepsDeclared ==
  \A c \in DOMAIN calls : c.kind = "model" => c.step < tasks[c.work].steps

OrchInv ==
  /\ TreeInv
  /\ OrchTypeOK
  /\ RuledSettled
  /\ ToolsFromReceipts
  /\ ToolsPaid
  /\ ChildrenAwaited
  /\ StepsDeclared
  /\ ReceiptConsumedOnce
  /\ DecisionsDone
  /\ LimitsKept
  /\ ChildrenNarrower
  /\ ParentCanJoin
  /\ DerivedFromReceipts

-----------------------------------------------------------------------------
\* The steps

\* Some reservations are given up, and nothing else happens to the calls.
IdleCalls ==
  /\ DOMAIN calls' = DOMAIN calls
  /\ \A c \in DOMAIN calls :
       calls'[c].state # calls[c].state =>
         calls[c].state = "reserved" /\ calls'[c].state = "abandoned"

\* A transaction that neither reserves, starts, settles, publishes nor decomposes.
IdleTables == IdleCalls /\ UNCHANGED <<artifacts, meta, tasks, bindings, answers, derived>>

\* A late or timely answer of a call that was dispatched.
AnswerStored(c, oversize, answer) ==
  /\ \E n \in Nat : n <= calls[c].prompt + calls[c].maximum /\ Settle(c, n, oversize)
  /\ answers' = Stored(c, oversize, answer)
  /\ UNCHANGED <<meta, decisions, tasks, bindings, rulings, derived>>

\* Giving reservations up leaves the calls idle.
LEMMA AbandonIsIdle ==
  ASSUME TypeOK, NEW W, calls' = Abandon(W)
  PROVE  IdleCalls
BY AbandonedCalls DEF IdleCalls

\* The transactions that write no table of this layer.
LEMMA SilentSteps ==
  ASSUME TypeOK,
         \/ UNCHANGED orchestrationVars
         \/ \E w \in DOMAIN work : Expire(w) /\ UNCHANGED <<platformTables, orchestrationTables>>
         \/ RecoverFreely /\ UNCHANGED orchestrationTables
         \/ \E a \in Agent, w \in DOMAIN work :
              ClaimAvailable(a, w) /\ UNCHANGED orchestrationTables
         \/ Cancel /\ UNCHANGED <<platformTables, orchestrationTables>>
         \/ \E l \in granted : Release(l) /\ UNCHANGED orchestrationTables
         \/ \E c \in DOMAIN calls : RecordViolation(c)
  PROVE  BaseStep /\ IdleTables /\ UNCHANGED rulings
<1>. USE DEF platformTables, orchestrationTables
<1>1. UNCHANGED calls => IdleCalls
  BY DEF IdleCalls
<1>2. CASE UNCHANGED orchestrationVars
  BY <1>1, <1>2, PlainTreeStep
  DEF orchestrationVars, platformVars, vars, OwnTreeStep, BaseStep, IdleTables
<1>3. ASSUME NEW w \in DOMAIN work, Expire(w), UNCHANGED <<platformTables, orchestrationTables>>
      PROVE  BaseStep /\ IdleTables /\ UNCHANGED rulings
  <2>1. UNCHANGED <<calls, artifacts>> /\ LedgerNext
    BY <1>3 DEF Expire, LedgerNext
  <2>. QED
    BY <1>1, <1>3, <2>1, PlainTreeStep DEF OwnTreeStep, BaseStep, IdleTables
<1>4. CASE RecoverFreely /\ UNCHANGED orchestrationTables
  <2>1. LedgerNext /\ calls' = Abandon(Expired) /\ UNCHANGED <<artifacts, meta, decisions>>
    BY <1>4 DEF RecoverFreely, Recover, LedgerNext
  <2>2. IdleCalls
    BY <2>1, AbandonIsIdle
  <2>. QED
    BY <1>4, <2>1, <2>2, PlainTreeStep DEF OwnTreeStep, BaseStep, IdleTables, IdleCalls
<1>5. ASSUME NEW a \in Agent, NEW w \in DOMAIN work, ClaimAvailable(a, w),
             UNCHANGED orchestrationTables
      PROVE  BaseStep /\ IdleTables /\ UNCHANGED rulings
  <2>1. LedgerNext /\ calls' = Abandon(Expired) /\ UNCHANGED <<artifacts, meta, decisions>>
    BY <1>5 DEF ClaimAvailable, Claim, LedgerNext
  <2>2. IdleCalls
    BY <2>1, AbandonIsIdle
  <2>. QED
    BY <1>5, <2>1, <2>2, PlainTreeStep DEF OwnTreeStep, BaseStep, IdleTables, IdleCalls
<1>6. CASE Cancel /\ UNCHANGED <<platformTables, orchestrationTables>>
  <2>1. LedgerNext /\ calls' = Abandon(OpenWork) /\ UNCHANGED <<artifacts, meta, decisions>>
    BY <1>6 DEF Cancel, LedgerNext
  <2>2. IdleCalls
    BY <2>1, AbandonIsIdle
  <2>. QED
    BY <1>6, <2>1, <2>2, PlainTreeStep DEF OwnTreeStep, BaseStep, IdleTables, IdleCalls
<1>7. ASSUME NEW l \in granted, Release(l), UNCHANGED orchestrationTables
      PROVE  BaseStep /\ IdleTables /\ UNCHANGED rulings
  <2>1. calls' = Abandon({l.work}) /\ UNCHANGED <<artifacts, meta>>
    BY <1>7 DEF Release
  <2>2. IdleCalls
    BY <2>1, AbandonIsIdle
  <2>. QED
    BY <1>7, <2>1, <2>2 DEF BaseStep, IdleTables
<1>8. ASSUME NEW c \in DOMAIN calls, RecordViolation(c)
      PROVE  BaseStep /\ IdleTables /\ UNCHANGED rulings
  <2>1. UNCHANGED <<vars, calls, artifacts, meta, decisions, tasks, bindings, answers, derived>>
    BY <1>8 DEF RecordViolation, platformVars, vars
  <2>. QED
    BY <1>1, <1>8, <2>1, PlainTreeStep DEF OwnTreeStep, BaseStep, IdleTables, RecordViolation
<1>. HIDE DEF platformTables, orchestrationTables
<1>. QED
  BY <1>2, <1>3, <1>4, <1>5, <1>6, <1>7, <1>8

\* The receipt c is ruled on as d, the first and only time; new work has no rulings.
Rules(c, d) ==
  /\ c \in CallsOf(c.work)
  /\ calls[c].state \in {"received", "response_rejected"}
  /\ c.work \in DOMAIN work
  /\ c \notin Consumed(c.work)
  /\ work[c.work].status # "done"
  /\ d \in {"submit", "abstain"} => work'[c.work].status = "done"
  /\ rulings' = [w \in DOMAIN work' |-> rulings'[w]]
  /\ rulings'[c.work] = Append(rulings[c.work], [call |-> c, decision |-> d])
  /\ \A w \in DOMAIN work \ {c.work} : rulings'[w] = rulings[w]
  /\ \A w \in DOMAIN work' \ DOMAIN work : rulings'[w] = <<>>

\* A ruling inside a transaction that adds no work.
LEMMA RuledRules ==
  ASSUME OrchTypeOK, NEW c \in DOMAIN calls, NEW d,
         calls[c].state \in {"received", "response_rejected"},
         c.work \in DOMAIN work, c \notin Consumed(c.work), work[c.work].status # "done",
         d \in {"submit", "abstain"} => work'[c.work].status = "done",
         DOMAIN work' = DOMAIN work, rulings' = Ruled(c, d)
  PROVE  Rules(c, d)
BY DEF OrchTypeOK, Rules, Ruled, CallsOf

\* The holder's work is open.
LEMMA HolderOpen ==
  ASSUME TypeOK, OrchTypeOK, NEW l, Holds(l), NEW c \in CallsOf(l.work)
  PROVE  /\ c \in DOMAIN calls /\ c.work = l.work
         /\ l.work \in DOMAIN work
         /\ work[l.work].status = "leased"
BY DEF Holds, CallsOf, OrchTypeOK

\* record_rejection.
LEMMA RejectionStep ==
  ASSUME TypeOK, OrchTypeOK, NEW l \in granted, NEW c \in DOMAIN calls, RecordRejection(l, c)
  PROVE  /\ BaseStep /\ IdleTables
         /\ Rules(c, "rejected")
         /\ Cardinality(RuledAs(c.work, "rejected")) < tasks[c.work].rejections
<1>1. /\ Holds(l) /\ c \in CallsOf(l.work)
      /\ calls[c].state \in {"received", "response_rejected"}
      /\ c \notin Consumed(l.work)
      /\ Cardinality(RuledAs(l.work, "rejected")) < tasks[l.work].rejections
      /\ rulings' = Ruled(c, "rejected")
      /\ UNCHANGED <<vars, work, calls, artifacts, meta, decisions, tasks, bindings, answers, derived>>
  BY DEF RecordRejection, Rejectable, platformVars, platformTables, vars
<1>2. c.work = l.work /\ l.work \in DOMAIN work /\ work[l.work].status = "leased"
  BY <1>1, HolderOpen
<1>3. BaseStep
  BY <1>1, PlainTreeStep DEF OwnTreeStep, BaseStep
<1>4. IdleTables
  BY <1>1 DEF IdleTables, IdleCalls
<1>5. Rules(c, "rejected")
  BY <1>1, <1>2, RuledRules
<1>. QED
  BY <1>1, <1>2, <1>3, <1>4, <1>5

\* abstain_task.
LEMMA AbstainStep ==
  ASSUME TreeInv, OrchTypeOK, NEW l \in granted, NEW c \in DOMAIN calls \cup {None},
         AbstainTask(l, c)
  PROVE  /\ BaseStep /\ IdleTables
         /\ IF c = None THEN UNCHANGED rulings ELSE Rules(c, "abstain")
<1>1. /\ Abstain(l) /\ Holds(l)
      /\ l.work \in DOMAIN work /\ l.owner \in Agent
      /\ run.status = "running" /\ work[l.work].status = "leased"
      /\ Terminate(work, l.work, l.owner, {})
      /\ UNCHANGED <<tasks, bindings, answers, derived>>
  BY DEF AbstainTask, Abstain, Holds, TreeInv, LedgerInv, TypeOK, Lease
<1>2. LedgerInv /\ TypeOK
  BY DEF TreeInv, LedgerInv
<1>3. BaseStep
  BY <1>1, <1>2, AbstainTerminates DEF BaseStep
<1>4. DOMAIN work' = DOMAIN work /\ work'[l.work].status = "done"
  <2>1. EndsFrom(work, l.work, l.owner, {}) /\ Ended(work, l.work, {})
    BY <1>1 DEF EndsFrom, Terminate, Ended
  <2>. QED
    BY <1>1, <1>2, <2>1, EndedTables
<1>5. IdleTables
  BY <1>1, <1>2, AbandonIsIdle DEF Terminate, IdleTables
<1>6. ASSUME c # None PROVE Rules(c, "abstain")
  <2>1. /\ c \in DOMAIN calls /\ c \in CallsOf(l.work)
        /\ calls[c].state = "received" /\ c \notin Consumed(l.work)
        /\ rulings' = Ruled(c, "abstain")
    BY <1>6 DEF AbstainTask, Receipt
  <2>2. c.work = l.work
    BY <1>1, <1>2, <2>1, HolderOpen
  <2>. QED
    BY <1>1, <1>4, <2>1, <2>2, RuledRules
<1>7. c = None => UNCHANGED rulings
  BY DEF AbstainTask
<1>. QED
  BY <1>3, <1>5, <1>6, <1>7

\* A reservation at this layer is one of the layer below.
LEMMA CappedStep ==
  ASSUME NEW l \in granted, NEW c \in CallId, NEW p \in Nat, NEW m \in Nat,
         ReserveCapped(l, c, p, m)
  PROVE  BaseStep /\ Reserve(l, c, p, m) /\ UNCHANGED <<meta, artifacts, decisions>>
<1>1. /\ Reserve(l, c, p, m)
      /\ Affordable(l.work, [calls |-> 1, tokens |-> p + m])
      /\ UNCHANGED <<meta, decisions>>
  BY DEF ReserveCapped, platformTables
<1>2. LedgerNext /\ UNCHANGED artifacts
  BY <1>1 DEF LedgerNext, Reserve
<1>3. TreeStep
  BY <1>1, <1>2 DEF TreeStep, Fresh
<1>. QED
  BY <1>1, <1>2, <1>3 DEF BaseStep

\* reserve_bounded.
LEMMA ReserveModelStep ==
  ASSUME NEW l \in granted, NEW c \in CallId, NEW inputs, ReserveBounded(l, c, inputs)
  PROVE  /\ BaseStep
         /\ \E p \in Nat, m \in Nat : Reserve(l, c, p, m)
         /\ UNCHANGED <<meta, artifacts, decisions, tasks, answers, rulings, derived>>
         /\ c.kind = "model" /\ c.work = l.work /\ c.step < tasks[c.work].steps
         /\ tasks[c.work].kind = "model"
         /\ bindings' = Put(bindings, c, [inputs |-> inputs, source |-> None, tool |-> None])
BY CappedStep, AnswerAssumption DEF ReserveBounded, Admitted

\* reserve_tool_call, of a new call or of one that was answered before.
LEMMA ReserveToolStep ==
  ASSUME TypeOK, OrchTypeOK, NEW l \in granted, NEW c \in CallId, NEW s \in DOMAIN answers,
         NEW m \in DOMAIN answers, NEW t \in Tool, NEW inputs,
         ReserveToolCall(l, c, s, m, t, inputs)
  PROVE  /\ BaseStep
         /\ UNCHANGED <<meta, artifacts, decisions, tasks, answers, derived>>
         /\ c.kind = "tool" /\ c.work = l.work /\ s.work = l.work /\ m.work = l.work
         /\ tasks[c.work].kind = "model" /\ t \in tasks[c.work].tools
         /\ answers[m].kind = "tool" /\ answers[m].tool = t
         /\ Rules(s, "tool")
         /\ \/ /\ \E p \in Nat, n \in Nat : Reserve(l, c, p, n)
               /\ bindings' = Put(bindings, c, [inputs |-> inputs, source |-> m, tool |-> t])
            \/ UNCHANGED <<calls, bindings>> /\ c \in CallsOf(c.work) /\ bindings[c].source = m
<1>. DEFINE b == [inputs |-> inputs, source |-> m, tool |-> t]
<1>1. /\ c.kind = "tool" /\ Holds(l)
      /\ s \in CallsOf(l.work) /\ calls[s].state = "received" /\ s \notin Consumed(l.work)
      /\ rulings' = Ruled(s, "tool")
      /\ UNCHANGED <<tasks, answers, derived>>
      /\ \/ ReserveCapped(l, c, 0, 0) /\ bindings' = Put(bindings, c, b)
         \/ Repeated(l, c, b) /\ UNCHANGED <<platformVars, bindings>>
  BY DEF ReserveToolCall, Receipt
<1>2. /\ c.work = l.work /\ answers[m].kind = "tool" /\ answers[m].tool = t
      /\ m \in CallsOf(c.work)
      /\ tasks[c.work].kind = "model" /\ t \in tasks[c.work].tools
  BY <1>1 DEF ReserveToolCall, Admitted, AdmitTool
<1>3. /\ s.work = l.work /\ m.work = l.work /\ s \in DOMAIN calls
      /\ l.work \in DOMAIN work /\ work[l.work].status = "leased"
  BY <1>1, <1>2, HolderOpen DEF CallsOf, OrchTypeOK
<1>4. b.source = m
  OBVIOUS
<1>. HIDE DEF b
<1>5. CASE ReserveCapped(l, c, 0, 0) /\ bindings' = Put(bindings, c, b)
  <2>1. BaseStep /\ Reserve(l, c, 0, 0) /\ UNCHANGED <<meta, artifacts, decisions>>
    BY <1>5, CappedStep
  <2>2. UNCHANGED work
    BY <2>1 DEF Reserve
  <2>3. Rules(s, "tool")
    BY <1>1, <1>3, <2>2, RuledRules
  <2>. QED
    BY <1>1, <1>2, <1>3, <1>5, <2>1, <2>3 DEF b
<1>6. CASE Repeated(l, c, b) /\ UNCHANGED <<platformVars, bindings>>
  <2>1. BaseStep /\ UNCHANGED <<meta, artifacts, decisions, work, calls>>
    BY <1>6, PlainTreeStep DEF platformVars, vars, OwnTreeStep, BaseStep, LedgerNext, platformTables
  <2>2. Rules(s, "tool")
    BY <1>1, <1>3, <2>1, RuledRules
  <2>3. c \in CallsOf(c.work) /\ bindings[c].source = m
    BY <1>2, <1>4, <1>6 DEF Repeated
  <2>. QED
    BY <1>1, <1>2, <1>3, <1>6, <2>1, <2>2, <2>3
<1>. QED
  BY <1>1, <1>5, <1>6

\* dispatch, after a second look.
LEMMA DispatchStep ==
  ASSUME TypeOK, OrchTypeOK, NEW l \in granted, NEW c \in DOMAIN calls, DispatchAdmitted(l, c)
  PROVE  /\ BaseStep
         /\ Dispatch(l, c)
         /\ UNCHANGED <<meta, artifacts, decisions, tasks, bindings, answers, rulings, derived>>
         /\ c.work = l.work
         /\ IF c.kind = "model" THEN AdmitModel(c) ELSE AdmitTool(c, bindings[c])
<1>1. /\ Dispatch(l, c)
      /\ UNCHANGED <<meta, artifacts, decisions, tasks, bindings, answers, rulings, derived>>
      /\ Admitted(l, c, bindings[c])
  BY DEF DispatchAdmitted, platformTables, orchestrationTables, Dispatch
<1>2. LedgerNext /\ DOMAIN calls' = DOMAIN calls
  BY <1>1, DispatchedRow DEF LedgerNext
<1>3. BaseStep
  BY <1>1, <1>2, PlainTreeStep DEF OwnTreeStep, BaseStep
<1>. QED
  BY <1>1, <1>3 DEF Admitted

\* receive under either accounting.
LEMMA AnswerStep ==
  ASSUME TypeOK, NEW c \in DOMAIN calls, NEW n \in Nat, NEW o \in BOOLEAN, NEW answer,
         n <= calls[c].prompt + calls[c].maximum, Settle(c, n, o),
         answers' = Stored(c, o, answer),
         UNCHANGED <<platformTables, tasks, bindings, rulings, derived, violated>>
  PROVE  BaseStep /\ AnswerStored(c, o, answer) /\ UNCHANGED artifacts
<1>1. LedgerNext /\ UNCHANGED <<artifacts, meta, decisions>>
  BY DEF LedgerNext, platformTables, Settle
<1>2. DOMAIN calls' = DOMAIN calls
  BY SettledRows
<1>3. BaseStep
  BY <1>1, <1>2, PlainTreeStep DEF OwnTreeStep, BaseStep
<1>. QED
  BY <1>1, <1>3 DEF AnswerStored

\* The usage of a model's answer was compared with what was reserved.
LEMMA ModelAnswerStep ==
  ASSUME TypeOK, NEW c \in DOMAIN calls, NEW u \in Reports, NEW o \in BOOLEAN, NEW answer,
         ReceiveModel(c, u[1], u[2], o, answer)
  PROVE  BaseStep /\ AnswerStored(c, o, answer) /\ UNCHANGED artifacts
<1>1. u[1] \in Nat /\ u[2] \in Nat
  BY AnswerAssumption
<1>2. calls[c].prompt \in Nat /\ calls[c].maximum \in Nat
  BY DEF TypeOK, Call
<1>3. /\ u[1] <= calls[c].prompt /\ u[2] <= calls[c].maximum
      /\ Settle(c, u[1] + u[2], o) /\ answers' = Stored(c, o, answer)
      /\ UNCHANGED <<platformTables, tasks, bindings, rulings, derived, violated>>
  BY DEF ReceiveModel
<1>. DEFINE n == u[1] + u[2]
<1>4. n \in Nat /\ n <= calls[c].prompt + calls[c].maximum
  BY <1>1, <1>2, <1>3
<1>5. Settle(c, n, o)
  BY <1>3
<1>. HIDE DEF n
<1>. QED
  BY <1>3, <1>4, <1>5, AnswerStep

\* A tool reports none.
LEMMA ToolAnswerStep ==
  ASSUME TypeOK, NEW c \in DOMAIN calls, NEW o \in BOOLEAN, NEW v, ReceiveTool(c, o, v)
  PROVE  /\ BaseStep /\ AnswerStored(c, o, [kind |-> "result", verdict |-> v])
         /\ UNCHANGED artifacts
<1>1. calls[c].prompt \in Nat /\ calls[c].maximum \in Nat
  BY DEF TypeOK, Call
<1>2. /\ Settle(c, 0, o) /\ answers' = Stored(c, o, [kind |-> "result", verdict |-> v])
      /\ UNCHANGED <<platformTables, tasks, bindings, rulings, derived, violated>>
  BY DEF ReceiveTool, Receive
<1>. QED
  BY <1>1, <1>2, AnswerStep

\* w is published, as derived from the receipt c.
Derives(w, kind, c, lineage, accepted) ==
  /\ w \in DOMAIN work /\ w \notin DOMAIN artifacts
  /\ work[w].status # "done" /\ work'[w].status = "done"
  /\ DOMAIN artifacts' = DOMAIN artifacts \cup {w}
  /\ artifacts'[w].call = c
  /\ VerifiedDerivation(w, kind, c, lineage)
  /\ IdleCalls
  /\ derived' = Put(derived, w, [kind |-> kind, lineage |-> lineage, accepted |-> accepted])
  /\ UNCHANGED <<meta, tasks, bindings, answers>>
  /\ IF kind = "output" THEN Rules(c, "submit") ELSE UNCHANGED rulings

\* publish_derived, from a lease of the agent's own or one the transaction makes.
LEMMA DerivedStep ==
  ASSUME TreeInv, OrchTypeOK, NEW a \in Agent, NEW w \in DOMAIN work, NEW kind,
         NEW c \in DOMAIN calls, NEW lineage, NEW accepted,
         PublishDerived(a, w, kind, c, lineage, accepted)
  PROVE  BaseStep /\ Derives(w, kind, c, lineage, accepted)
<1>. DEFINE claimed == [RecoveredWork EXCEPT ![w] = Leased(@, a)]
<1>1. LedgerInv /\ TypeOK
  BY DEF TreeInv, LedgerInv
<1>2. /\ run.status = "running" /\ w \notin DOMAIN artifacts
      /\ \A d \in CallsOf(w) : calls[d].state \notin Unsettled
      /\ VerifiedDerivation(w, kind, c, lineage)
      /\ calls[c].state = "received"
      /\ UNCHANGED <<meta, decisions, tasks, bindings, answers>>
      /\ derived' = Put(derived, w, [kind |-> kind, lineage |-> lineage, accepted |-> accepted])
      /\ rulings' = IF kind = "output" THEN Ruled(c, "submit") ELSE rulings
  BY DEF PublishDerived, VerifiedDerivation
<1>3. PICK rows : EndsFrom(rows, w, a, Expired) /\ RecordArtifact(rows, w, a, c, Expired)
  <2>1. CASE RecoveredWork[w].status = "leased" /\ RecordArtifact(RecoveredWork, w, a, c, Expired)
    BY <1>2, <2>1 DEF EndsFrom
  <2>2. CASE Claimable(a, w, RecoveredWork) /\ RecordArtifact(claimed, w, a, c, Expired)
    <3>1. EndsFrom(claimed, w, a, Expired)
      BY <1>2, <2>2 DEF EndsFrom
    <3>. QED
      BY <2>2, <3>1
  <2>. QED
    BY <2>1, <2>2 DEF PublishDerived
<1>4. Published(w, a, c) /\ Ended(rows, w, Expired)
  BY <1>2, <1>3 DEF Published, RecordArtifact, Ended
<1>5. LedgerNext
  BY <1>4 DEF LedgerNext
<1>6. /\ artifacts' = Put(artifacts, w, [call |-> c, publisher |-> a])
      /\ calls' = Abandon(Expired \cup {w})
  BY <1>3 DEF RecordArtifact
<1>7. /\ DOMAIN artifacts' = DOMAIN artifacts \cup {w}
      /\ artifacts'[w].call = c
      /\ Fresh = {w}
  BY <1>2, <1>6 DEF Put, Fresh
<1>8. IdleCalls
  BY <1>1, <1>6, AbandonIsIdle
<1>9. DOMAIN work' = DOMAIN work /\ work'[w].status = "done"
  BY <1>1, <1>3, <1>4, EndedTables
<1>10. work[w].status # "done"
  <2>1. ArtifactsKept
    BY <1>1, <1>5, StepKeeps
  <2>. QED
    BY <1>7, <2>1 DEF ArtifactsKept, Fresh
<1>11. Settled(w)
  BY <1>2 DEF Settled, Unknown, CallsOf, Unsettled
<1>12. TreeStep
  BY <1>2, <1>5, <1>7, <1>8, <1>11 DEF TreeStep, IdleCalls
<1>13. kind = "output" => Rules(c, "submit")
  <2>1. ASSUME kind = "output"
        PROVE  c.work = w /\ c \notin Consumed(w) /\ rulings' = Ruled(c, "submit")
    BY <1>2, <2>1 DEF VerifiedDerivation
  <2>. QED
    BY <1>2, <1>9, <1>10, <2>1, RuledRules
<1>14. kind # "output" => UNCHANGED rulings
  BY <1>2
<1>. QED
  BY <1>2, <1>7, <1>8, <1>9, <1>10, <1>12, <1>13, <1>14 DEF BaseStep, Derives

\* What the layer below is asked to make of admitted children.
OfferOf(w, kids) ==
  [k \in DOMAIN kids |->
     [dependencies |-> ChildTask(tasks[w], kids[k]).dependencies, agents |-> tasks[w].agents,
      calls |-> kids[k].calls, tokens |-> kids[k].tokens]]

\* The children kids of w are admitted.
Admits(w, c, kids) ==
  /\ w \in DOMAIN work /\ work[w].status = "leased"
  /\ c.work = w
  /\ DOMAIN kids # {} /\ DOMAIN kids \cap DOMAIN work = {}
  /\ RuledAs(w, "decompose") = {}
  /\ Narrow(tasks[w], kids)
  /\ \A k \in DOMAIN kids : ChildTask(tasks[w], kids[k]) \in TaskRow
  /\ KeepsReserve(w, Given(OfferOf(w, kids)))
  /\ DOMAIN tasks' = DOMAIN kids \cup DOMAIN tasks
  /\ \A k \in DOMAIN kids : tasks'[k] = ChildTask(tasks[w], kids[k])
  /\ \A v \in DOMAIN tasks \ DOMAIN kids : tasks'[v] = tasks[v]
  /\ Rules(c, "decompose")
  /\ UNCHANGED <<bindings, answers, derived>>

\* admit_children.
LEMMA ChildrenStep ==
  ASSUME TypeOK, OrchTypeOK, NEW l \in granted, NEW c \in DOMAIN calls, NEW kids,
         IsFiniteSet(DOMAIN kids), DOMAIN kids \subseteq Work, AdmitChildren(l, c, kids)
  PROVE  /\ Valid(OfferOf(l.work, kids))
         /\ Decompose(l, OfferOf(l.work, kids))
         /\ Admits(l.work, c, kids)
<1>. DEFINE w == l.work
            row == tasks[w]
            rows == [k \in DOMAIN kids |-> ChildTask(row, kids[k])]
            offer == OfferOf(w, kids)
<1>1. /\ DOMAIN kids # {}
      /\ Holds(l)
      /\ Receipt(l, c)
      /\ RuledAs(w, "decompose") = {}
      /\ Narrow(row, kids)
      /\ \A k \in DOMAIN kids : ValidTask(rows[k])
      /\ tasks' = [v \in DOMAIN tasks \cup DOMAIN kids |->
                     IF v \in DOMAIN kids THEN rows[v] ELSE tasks[v]]
      /\ rulings' = [v \in DOMAIN rulings \cup DOMAIN kids |->
                       IF v \in DOMAIN kids THEN <<>> ELSE Ruled(c, "decompose")[v]]
      /\ UNCHANGED <<bindings, answers, derived>>
  BY DEF AdmitChildren
<1>2. \A k \in DOMAIN kids : rows[k].calls = kids[k].calls /\ rows[k].tokens = kids[k].tokens
  BY DEF ChildTask
<1>3. offer = [k \in DOMAIN kids |->
                 [dependencies |-> rows[k].dependencies, agents |-> row.agents,
                  calls |-> rows[k].calls, tokens |-> rows[k].tokens]]
  BY <1>2 DEF OfferOf
<1>4. KeepsReserve(w, Given(offer)) /\ Decompose(l, offer)
  BY <1>3 DEF AdmitChildren
<1>5. \A k \in DOMAIN kids : ChildTask(row, kids[k]) \in TaskRow /\ row.agents # {}
  BY <1>1 DEF ValidTask, ChildTask
<1>6. Valid(offer)
  <2>1. ASSUME NEW k \in DOMAIN kids PROVE offer[k] \in Child
    BY <1>5 DEF OfferOf, TaskRow, ChildTask, Child
  <2>. QED
    BY <2>1 DEF Valid, OfferOf
<1>7. /\ c \in CallsOf(w) /\ c.work = w /\ w \in DOMAIN work /\ work[w].status = "leased"
      /\ calls[c].state = "received" /\ c \notin Consumed(w)
  BY <1>1, HolderOpen DEF Receipt
<1>8. DOMAIN kids \cap DOMAIN work = {} /\ DOMAIN work' = DOMAIN work \cup DOMAIN kids
  BY <1>4 DEF Decompose, OfferOf, GraphWith
<1>9. /\ DOMAIN tasks' = DOMAIN kids \cup DOMAIN tasks
      /\ \A k \in DOMAIN kids : tasks'[k] = ChildTask(row, kids[k])
      /\ \A v \in DOMAIN tasks \ DOMAIN kids : tasks'[v] = tasks[v]
  BY <1>1
<1>10. Rules(c, "decompose")
  <2>1. rulings \in [DOMAIN work -> Seq(Ruling)]
    BY DEF OrchTypeOK
  <2>2. /\ rulings' = [v \in DOMAIN work' |-> rulings'[v]]
        /\ rulings'[w] = Append(rulings[w], [call |-> c, decision |-> "decompose"])
        /\ \A v \in DOMAIN work \ {w} : rulings'[v] = rulings[v]
        /\ \A k \in DOMAIN kids : rulings'[k] = <<>>
    BY <1>1, <1>7, <1>8, <2>1 DEF Ruled
  <2>. QED
    BY <1>7, <1>8, <2>2 DEF Rules
<1>. QED
  BY <1>1, <1>4, <1>5, <1>6, <1>7, <1>8, <1>9, <1>10 DEF Admits

-----------------------------------------------------------------------------
\* What every step keeps

\* Of the tables below: nothing is forgotten, terminal work stays so.
Frame ==
  /\ TreeInv' /\ CallsKept /\ ArtifactsKept
  /\ DOMAIN work \subseteq DOMAIN work'
  /\ \A w \in DOMAIN work :
       /\ work[w].status = "done" => work'[w].status = "done"
       /\ work[w].dependencies \subseteq work'[w].dependencies
       /\ meta'[w].parent = meta[w].parent

\* Of the tables of this layer.
TablesKept ==
  /\ \A w \in DOMAIN tasks : w \in DOMAIN tasks' /\ tasks'[w] = tasks[w]
  /\ \A c \in DOMAIN bindings : c \in DOMAIN bindings' /\ bindings'[c] = bindings[c]
  /\ \A c \in DOMAIN answers : c \in DOMAIN answers' /\ answers'[c] = answers[c]

\* Rulings are appended to, and what the new one says happens.
RulingsKept ==
  \/ UNCHANGED rulings /\ DOMAIN work' = DOMAIN work
  \/ \E c \in DOMAIN calls, d \in Decision : Rules(c, d) /\ Happened(c.work, c, d)'

\* A base step keeps the tables below, and the tree as it is.
LEMMA BaseFrame ==
  ASSUME TreeInv, BaseStep
  PROVE  Frame /\ DOMAIN work' = DOMAIN work /\ UNCHANGED meta
<1>1. LedgerInv /\ TypeOK /\ PlatformTypeOK
  BY DEF TreeInv, LedgerInv
<1>2. ASSUME TreeInv', CallsKept, ArtifactsKept, UNCHANGED meta, NEW E, RowsKept(E)
      PROVE  Frame /\ DOMAIN work' = DOMAIN work /\ UNCHANGED meta
  BY <1>2 DEF Frame, RowsKept
<1>3. CASE TreeStep
  <2>1. TreeInv' /\ UNCHANGED meta
    BY <1>3, TreeStepKeeps DEF TreeStep
  <2>2. RowsKept(Fresh) /\ CallsKept /\ ArtifactsKept
    BY <1>1, <1>3, StepKeeps DEF TreeStep
  <2>. QED
    BY <1>2, <2>1, <2>2
<1>4. ASSUME NEW l \in granted, Release(l)
      PROVE  Frame /\ DOMAIN work' = DOMAIN work /\ UNCHANGED meta
  <2>. DEFINE E == {}
  <2>1. TreeInv' /\ RowsKept(E) /\ CallsKept
    BY <1>4, ReleaseKeeps
  <2>2. UNCHANGED <<meta, artifacts>>
    BY <1>1, <1>4, ReleasedRows
  <2>. HIDE DEF E
  <2>. QED
    BY <1>2, <2>1, <2>2, SameArtifactsKept
<1>5. CASE Terminated
  <2>1. TreeInv'
    BY <1>5, TerminatedKeeps
  <2>2. PICK w \in DOMAIN work, a \in Agent :
          \E rows, freed : EndsFrom(rows, w, a, freed) /\ Terminate(rows, w, a, freed)
    BY <1>5 DEF Terminated
  <2>. DEFINE E == {w}
  <2>3. CallsKept /\ RowsKept(E) /\ UNCHANGED <<meta, artifacts>>
    BY <1>1, <2>2, EndKeeps DEF Terminate, Ended
  <2>. HIDE DEF E
  <2>. QED
    BY <1>2, <2>1, <2>3, SameArtifactsKept
<1>. QED
  BY <1>3, <1>4, <1>5 DEF BaseStep

\* A decomposition keeps them too, and adds children that depend on what they name.
LEMMA SplitFrame ==
  ASSUME TreeInv, NEW l \in granted, NEW kids, Valid(kids), Decompose(l, kids)
  PROVE  /\ Frame
         /\ UNCHANGED <<calls, artifacts>>
         /\ DOMAIN work' = DOMAIN work \cup DOMAIN kids
         /\ \A k \in DOMAIN kids : meta'[k].parent = l.work
         /\ DOMAIN kids \subseteq work'[l.work].dependencies
         /\ \A v \in DOMAIN work \ {l.work} : meta'[v] = meta[v]
         /\ meta'[l.work].caps = Less(meta[l.work].caps, Given(kids))
<1>1. LedgerInv /\ TypeOK /\ PlatformTypeOK
  BY DEF TreeInv, LedgerInv
<1>. DEFINE w == l.work
<1>2. /\ Holds(l) /\ w \in DOMAIN work
      /\ UNCHANGED <<calls, artifacts>>
      /\ DOMAIN work' = DOMAIN work \cup DOMAIN kids
      /\ \A v \in DOMAIN work \ {w} : work'[v] = work[v]
      /\ [v \in DOMAIN work' |-> work'[v].dependencies] = GraphWith(w, kids)
      /\ DOMAIN kids \cap DOMAIN work = {}
  BY <1>1, DecomposedRows
<1>3. /\ \A k \in DOMAIN kids : meta'[k].parent = w
      /\ meta'[w].parent = meta[w].parent
      /\ meta'[w].caps = Less(meta[w].caps, Given(kids))
      /\ \A v \in DOMAIN work \ {w} : meta'[v] = meta[v]
  BY DecomposedCaps
<1>4. TreeInv'
  BY DecomposeKeeps
<1>5. CallsKept /\ ArtifactsKept
  BY <1>1, <1>2, SameCallsKept, SameArtifactsKept
<1>6. work[w].status = "leased"
  BY <1>2 DEF Holds
<1>7. work'[w].dependencies = work[w].dependencies \cup DOMAIN kids
  <2>1. work'[w].dependencies = GraphWith(w, kids)[w]
    BY <1>2
  <2>. QED
    BY <1>2, <2>1 DEF GraphWith
<1>8. Frame
  BY <1>2, <1>3, <1>4, <1>5, <1>6, <1>7 DEF Frame
<1>. QED
  BY <1>2, <1>3, <1>7, <1>8

-----------------------------------------------------------------------------
\* Rulings

\* The rulings of the work that is ruled on are one longer.
LEMMA RuledRow ==
  ASSUME OrchTypeOK, NEW c, NEW d, Rules(c, d)
  PROVE  /\ c.work \in DOMAIN work
         /\ DOMAIN rulings'[c.work] = DOMAIN rulings[c.work] \cup {Len(rulings[c.work]) + 1}
         /\ Len(rulings[c.work]) + 1 \notin DOMAIN rulings[c.work]
         /\ Len(rulings'[c.work]) = Len(rulings[c.work]) + 1
         /\ \A i \in DOMAIN rulings[c.work] : rulings'[c.work][i] = rulings[c.work][i]
         /\ rulings'[c.work][Len(rulings[c.work]) + 1] = [call |-> c, decision |-> d]
<1>. DEFINE r == rulings[c.work]
            x == [call |-> c, decision |-> d]
<1>1. c.work \in DOMAIN work /\ rulings'[c.work] = Append(r, x)
  BY DEF Rules
<1>2. r \in Seq(Ruling)
  BY <1>1 DEF OrchTypeOK
<1>3. r \in Seq(Ruling \cup {x}) /\ x \in Ruling \cup {x}
  BY <1>2
<1>. HIDE DEF r, x
<1>4. /\ DOMAIN Append(r, x) = 1 .. Len(r) + 1
      /\ Len(Append(r, x)) = Len(r) + 1
      /\ \A i \in 1 .. Len(r) : Append(r, x)[i] = r[i]
      /\ Append(r, x)[Len(r) + 1] = x
      /\ DOMAIN r = 1 .. Len(r) /\ Len(r) \in Nat
  BY <1>3
<1>5. DOMAIN Append(r, x) = DOMAIN r \cup {Len(r) + 1} /\ Len(r) + 1 \notin DOMAIN r
  BY <1>4
<1>6. /\ DOMAIN rulings'[c.work] = DOMAIN r \cup {Len(r) + 1}
      /\ Len(r) + 1 \notin DOMAIN r
      /\ Len(rulings'[c.work]) = Len(r) + 1
      /\ \A i \in DOMAIN r : rulings'[c.work][i] = r[i]
      /\ rulings'[c.work][Len(r) + 1] = x
  BY <1>1, <1>4, <1>5
<1>. QED
  BY <1>1, <1>6 DEF r, x

\* The table of rulings stays one.
LEMMA RuledTyped ==
  ASSUME OrchTypeOK, NEW c \in CallId, NEW d \in Decision, Rules(c, d),
         DOMAIN work \subseteq DOMAIN work'
  PROVE  rulings' \in [DOMAIN work' -> Seq(Ruling)]
<1>1. rulings \in [DOMAIN work -> Seq(Ruling)]
  BY DEF OrchTypeOK
<1>2. [call |-> c, decision |-> d] \in Ruling
  BY DEF Ruling
<1>3. Append(rulings[c.work], [call |-> c, decision |-> d]) \in Seq(Ruling)
  BY <1>1, <1>2 DEF Rules
<1>4. ASSUME NEW w \in DOMAIN work' PROVE rulings'[w] \in Seq(Ruling)
  <2>1. CASE w = c.work
    <3>1. rulings'[w] = Append(rulings[c.work], [call |-> c, decision |-> d])
      BY <2>1 DEF Rules
    <3>. QED
      BY <1>3, <3>1
  <2>2. CASE w \in DOMAIN work \ {c.work}
    <3>1. rulings'[w] = rulings[w]
      BY <2>2 DEF Rules
    <3>. QED
      BY <1>1, <2>2, <3>1
  <2>3. CASE w \in DOMAIN work' \ DOMAIN work
    <3>1. rulings'[w] = <<>>
      BY <2>3 DEF Rules
    <3>. QED
      BY <3>1
  <2>. QED
    BY <2>1, <2>2, <2>3
<1>. QED
  BY <1>4 DEF Rules
\* What a ruling finds ruled on before it is another receipt, of work still open.
LEMMA OnceKept ==
  ASSUME OrchTypeOK, ReceiptConsumedOnce, Frame, RulingsKept
  PROVE  ReceiptConsumedOnce'
<1>1. rulings \in [DOMAIN work -> Seq(Ruling)] /\ DOMAIN rulings = DOMAIN work
  BY DEF OrchTypeOK
<1>2. CASE UNCHANGED rulings
  BY <1>1, <1>2 DEF ReceiptConsumedOnce, RuledAs, Frame
<1>3. ASSUME NEW c \in DOMAIN calls, NEW d \in Decision, Rules(c, d)
      PROVE  ReceiptConsumedOnce'
  <2>. DEFINE v == c.work
              n == Len(rulings[v]) + 1
  <2>1. /\ v \in DOMAIN work
        /\ DOMAIN rulings'[v] = DOMAIN rulings[v] \cup {n} /\ n \notin DOMAIN rulings[v]
        /\ Len(rulings'[v]) = n
        /\ \A i \in DOMAIN rulings[v] : rulings'[v][i] = rulings[v][i]
        /\ rulings'[v][n] = [call |-> c, decision |-> d]
    BY <1>3, RuledRow
  <2>2. \A i \in DOMAIN rulings[v] : rulings[v][i].call # c
    BY <1>3 DEF Rules, Consumed
  <2>3. work[v].status # "done"
    BY <1>3 DEF Rules
  <2>4. \A i \in DOMAIN rulings[v] : rulings[v][i].decision \notin {"submit", "abstain"}
    BY <1>1, <2>1, <2>3 DEF ReceiptConsumedOnce, RuledAs
  <2>5. d \in {"submit", "abstain"} => work'[v].status = "done"
    BY <1>3 DEF Rules
  <2>6. ASSUME NEW i \in DOMAIN rulings'[v], NEW j \in DOMAIN rulings'[v],
               rulings'[v][i].call = rulings'[v][j].call
        PROVE  i = j
    <3>1. \A k \in DOMAIN rulings[v] : rulings'[v][k].call # c
      BY <2>1, <2>2
    <3>2. rulings'[v][n].call = c
      BY <2>1
    <3>3. CASE i \in DOMAIN rulings[v] /\ j \in DOMAIN rulings[v]
      BY <1>1, <2>1, <2>6, <3>3 DEF ReceiptConsumedOnce
    <3>. QED
      BY <2>1, <2>6, <3>1, <3>2, <3>3
  <2>7. ASSUME NEW i \in DOMAIN rulings'[v], rulings'[v][i].decision \in {"submit", "abstain"}
        PROVE  i = Len(rulings'[v]) /\ work'[v].status = "done"
    <3>1. i = n
      BY <2>1, <2>4, <2>7
    <3>. QED
      BY <2>1, <2>5, <2>7, <3>1
  <2>8. DOMAIN rulings' = DOMAIN work'
    BY <1>3 DEF Rules
  <2>9. ASSUME NEW w \in DOMAIN work, w # v
        PROVE  rulings'[w] = rulings[w] /\ (work[w].status = "done" => work'[w].status = "done")
    BY <1>3, <2>9 DEF Rules, Frame
  <2>10. \A w \in DOMAIN work' \ DOMAIN work : rulings'[w] = <<>>
    BY <1>3 DEF Rules
  <2>11. ASSUME NEW w \in DOMAIN work', w # v
         PROVE  /\ \A i, j \in DOMAIN rulings'[w] :
                     rulings'[w][i].call = rulings'[w][j].call => i = j
                /\ \A i \in DOMAIN rulings'[w] : rulings'[w][i].decision \in {"submit", "abstain"} =>
                     i = Len(rulings'[w]) /\ work'[w].status = "done"
    <3>1. CASE w \in DOMAIN work
      BY <1>1, <2>9, <2>11, <3>1 DEF ReceiptConsumedOnce, RuledAs
    <3>2. CASE w \notin DOMAIN work
      BY <2>10, <2>11, <3>2
    <3>. QED
      BY <3>1, <3>2
  <2>. HIDE DEF v, n
  <2>. QED
    BY <2>6, <2>7, <2>8, <2>11 DEF ReceiptConsumedOnce, RuledAs
<1>. QED
  BY <1>2, <1>3 DEF RulingsKept

\* A ruling is on a settled call of the work, and settled calls stay so.
LEMMA RuledSettledKept ==
  ASSUME OrchTypeOK, RuledSettled, Frame, RulingsKept, OrchTypeOK'
  PROVE  RuledSettled'
<1>1. /\ DOMAIN rulings = DOMAIN work /\ DOMAIN rulings' = DOMAIN work'
      /\ \A c \in DOMAIN calls : calls[c].work = c.work
      /\ \A c \in DOMAIN calls' : calls'[c].work = c.work
  BY DEF OrchTypeOK
<1>2. ASSUME NEW w \in DOMAIN work, NEW c \in CallsOf(w),
             calls[c].state \in {"received", "response_rejected"}
      PROVE  c \in CallsOf(w)' /\ calls'[c].state \in {"received", "response_rejected"}
  BY <1>1, <1>2 DEF Frame, CallsKept, CallsOf, Unsettled
<1>3. \A w \in DOMAIN work : \A c \in Consumed(w) :
        c \in CallsOf(w)' /\ calls'[c].state \in {"received", "response_rejected"}
  BY <1>2 DEF RuledSettled
<1>4. CASE UNCHANGED rulings /\ DOMAIN work' = DOMAIN work
  BY <1>3, <1>4 DEF RuledSettled, Consumed
<1>5. ASSUME NEW c \in DOMAIN calls, NEW d \in Decision, Rules(c, d)
      PROVE  RuledSettled'
  <2>1. c \in CallsOf(c.work)' /\ calls'[c].state \in {"received", "response_rejected"}
    BY <1>2, <1>5 DEF Rules
  <2>2. Consumed(c.work)' \subseteq Consumed(c.work) \cup {c}
    <3>. DEFINE v == c.work
                n == Len(rulings[v]) + 1
    <3>1. /\ DOMAIN rulings'[v] = DOMAIN rulings[v] \cup {n}
          /\ \A i \in DOMAIN rulings[v] : rulings'[v][i] = rulings[v][i]
          /\ rulings'[v][n] = [call |-> c, decision |-> d]
      BY <1>5, RuledRow
    <3>. HIDE DEF v, n
    <3>2. Consumed(v)' \subseteq Consumed(v) \cup {c}
      BY <3>1 DEF Consumed
    <3>. QED
      BY <3>2 DEF v, Consumed
  <2>3. \A w \in DOMAIN work \ {c.work} : Consumed(w)' = Consumed(w)
    BY <1>5 DEF Rules, Consumed
  <2>4. \A w \in DOMAIN work' \ DOMAIN work : Consumed(w)' = {}
    BY <1>5 DEF Rules, Consumed
  <2>5. ASSUME NEW w \in DOMAIN work', NEW b \in Consumed(w)'
        PROVE  b \in CallsOf(w)' /\ calls'[b].state \in {"received", "response_rejected"}
    BY <1>3, <2>1, <2>2, <2>3, <2>4, <2>5
  <2>. QED
    BY <2>5 DEF RuledSettled
<1>. QED
  BY <1>4, <1>5 DEF RulingsKept

\* What a decision said happened stays so.
LEMMA HappenedStays ==
  ASSUME TreeInv, OrchTypeOK, OrchTypeOK', Frame, TablesKept, NEW w \in DOMAIN work, NEW c, NEW d,
         Happened(w, c, d), d = "abstain" => work[w].status = "done"
  PROVE  Happened(w, c, d)'
<1>1. /\ DOMAIN bindings = DOMAIN calls /\ DOMAIN bindings' = DOMAIN calls'
      /\ \A t \in DOMAIN calls : calls[t].work = t.work
      /\ \A t \in DOMAIN calls' : calls'[t].work = t.work
  BY DEF OrchTypeOK
<1>2. CallsOf(w) \subseteq CallsOf(w)'
  BY <1>1 DEF TablesKept, CallsOf
<1>3. \A t \in CallsOf(w) : bindings'[t] = bindings[t]
  BY <1>1 DEF TablesKept, CallsOf
<1>4. d = "tool" => ToolCalls(w)' # {}
  BY <1>2, <1>3 DEF Happened, ToolCalls
<1>5. d = "submit" => w \in DOMAIN artifacts' /\ artifacts'[w].call = c
  BY DEF Happened, Frame, ArtifactsKept
<1>6. d = "abstain" => w \notin DOMAIN artifacts'
  BY DEF Happened, Frame, ArtifactsKept, Fresh
<1>7. Children(w) \subseteq Children(w)'
  BY DEF Children, Frame, TreeInv, PlatformTypeOK
<1>8. d = "decompose" => Children(w)' # {}
  BY <1>7 DEF Happened
<1>. QED
  BY <1>4, <1>5, <1>6, <1>8 DEF Happened

\* Every decision is backed in the transaction that records it, and ever after.
LEMMA DoneKept ==
  ASSUME TreeInv, OrchTypeOK, OrchTypeOK', ReceiptConsumedOnce, DecisionsDone,
         Frame, TablesKept, RulingsKept
  PROVE  DecisionsDone'
<1>1. DOMAIN rulings = DOMAIN work /\ DOMAIN rulings' = DOMAIN work'
  BY DEF OrchTypeOK
<1>2. ASSUME NEW w \in DOMAIN work, NEW i \in DOMAIN rulings[w], NEW c, NEW d,
             rulings[w][i].call = c, rulings[w][i].decision = d
      PROVE  Happened(w, c, d)'
  <2>1. Happened(w, c, d)
    BY <1>1, <1>2 DEF DecisionsDone
  <2>2. d = "abstain" => work[w].status = "done"
    BY <1>1, <1>2 DEF ReceiptConsumedOnce, RuledAs
  <2>. QED
    BY <2>1, <2>2, HappenedStays
<1>3. ASSUME \A w \in DOMAIN work' : \A i \in DOMAIN rulings'[w] : \A c, d :
               rulings'[w][i].call = c /\ rulings'[w][i].decision = d => Happened(w, c, d)'
      PROVE  DecisionsDone'
  BY <1>1, <1>3 DEF DecisionsDone, Happened, Children, ToolCalls, CallsOf
<1>4. CASE UNCHANGED rulings /\ DOMAIN work' = DOMAIN work
  BY <1>2, <1>3, <1>4
<1>5. ASSUME NEW b \in DOMAIN calls, NEW e \in Decision, Rules(b, e), Happened(b.work, b, e)'
      PROVE  DecisionsDone'
  <2>. DEFINE v == b.work
              n == Len(rulings[v]) + 1
  <2>1. /\ v \in DOMAIN work
        /\ DOMAIN rulings'[v] = DOMAIN rulings[v] \cup {n}
        /\ \A i \in DOMAIN rulings[v] : rulings'[v][i] = rulings[v][i]
        /\ rulings'[v][n] = [call |-> b, decision |-> e]
    BY <1>5, RuledRow
  <2>2. \A w \in DOMAIN work \ {v} : rulings'[w] = rulings[w]
    BY <1>5 DEF Rules
  <2>3. \A w \in DOMAIN work' \ DOMAIN work : rulings'[w] = <<>>
    BY <1>5 DEF Rules
  <2>4. Happened(v, b, e)'
    BY <1>5
  <2>. HIDE DEF v, n
  <2>5. ASSUME NEW w \in DOMAIN work', NEW i \in DOMAIN rulings'[w], NEW c, NEW d,
               rulings'[w][i].call = c, rulings'[w][i].decision = d
        PROVE  Happened(w, c, d)'
    <3>1. CASE w \in DOMAIN work /\ i \in DOMAIN rulings[w]
      <4>1. rulings'[w][i] = rulings[w][i]
        BY <2>1, <2>2, <3>1
      <4>. QED
        BY <1>2, <2>5, <3>1, <4>1
    <3>2. CASE w = v /\ i = n
      <4>1. c = b /\ d = e
        BY <2>1, <2>5, <3>2
      <4>. QED
        BY <2>4, <3>2, <4>1
    <3>3. (w \in DOMAIN work /\ i \in DOMAIN rulings[w]) \/ (w = v /\ i = n)
      BY <2>1, <2>2, <2>3, <2>5
    <3>. QED
      BY <3>1, <3>2, <3>3
  <2>. QED
    BY <1>3, <2>5
<1>. QED
  BY <1>4, <1>5 DEF RulingsKept
-----------------------------------------------------------------------------
\* The kinds of steps

\* Calls other than c are left alone, and c stays a call of its work.
OnlyCall(c) ==
  /\ DOMAIN calls' = DOMAIN calls \cup {c}
  /\ calls'[c].work = c.work
  /\ \A d \in DOMAIN calls \ {c} : calls'[d] = calls[d]

Silent == BaseStep /\ IdleTables /\ UNCHANGED rulings

Rejecting(c) ==
  /\ BaseStep /\ IdleTables /\ Rules(c, "rejected")
  /\ Cardinality(RuledAs(c.work, "rejected")) < tasks[c.work].rejections

Abstaining(c) == BaseStep /\ IdleTables /\ Rules(c, "abstain")

\* The tool call was answered before, and costs one more receipt.
Repeating(c) == BaseStep /\ IdleTables /\ Rules(c, "tool") /\ ToolCalls(c.work) # {}

\* The call c is reserved, bound to b.
Reserving(c, b) ==
  /\ BaseStep
  /\ c \in CallId \ DOMAIN calls
  /\ c.work \in DOMAIN work /\ work[c.work].status = "leased"
  /\ OnlyCall(c) /\ calls'[c].state = "reserved"
  /\ bindings' = Put(bindings, c, b)
  /\ UNCHANGED <<work, meta, artifacts, tasks, answers, derived>>

ReservingModel(c) ==
  /\ \E inputs : Reserving(c, [inputs |-> inputs, source |-> None, tool |-> None])
  /\ c.kind = "model" /\ c.step < tasks[c.work].steps
  /\ tasks[c.work].kind = "model"
  /\ UNCHANGED rulings

ReservingTool(c, s, m, t) ==
  /\ \E inputs : Reserving(c, [inputs |-> inputs, source |-> m, tool |-> t])
  /\ c.kind = "tool" /\ s.work = c.work /\ m.work = c.work
  /\ tasks[c.work].kind = "model" /\ t \in tasks[c.work].tools
  /\ s \in DOMAIN answers
  /\ m \in DOMAIN answers /\ answers[m] = [kind |-> "tool", tool |-> t]
  /\ Rules(s, "tool")

Starting(c) ==
  /\ BaseStep
  /\ c \in DOMAIN calls /\ calls[c].state = "reserved"
  /\ c.work \in DOMAIN work /\ work[c.work].status = "leased"
  /\ OnlyCall(c) /\ calls'[c].state = "dispatched"
  /\ IF c.kind = "model" THEN AdmitModel(c) ELSE AdmitTool(c, bindings[c])
  /\ UNCHANGED <<work, meta, artifacts, tasks, bindings, answers, rulings, derived>>

Answering(c, oversize, answer) ==
  /\ BaseStep
  /\ c \in DOMAIN calls /\ calls[c].state = "dispatched"
  /\ OnlyCall(c) /\ calls'[c].state = IF oversize THEN "response_rejected" ELSE "received"
  /\ answer \in Reply(c.work) /\ answers' = Stored(c, oversize, answer)
  /\ UNCHANGED <<meta, artifacts, tasks, bindings, rulings, derived>>

Deriving(w, kind, c, lineage, accepted) == BaseStep /\ Derives(w, kind, c, lineage, accepted)

Admitting(c, kids) ==
  \E l \in granted :
    /\ Valid(OfferOf(l.work, kids))
    /\ Decompose(l, OfferOf(l.work, kids))
    /\ Admits(l.work, c, kids)

OrchStep ==
  \/ Silent
  \/ \E c \in DOMAIN calls : Rejecting(c) \/ Abstaining(c) \/ Repeating(c) \/ Starting(c)
  \/ \E c \in CallId : ReservingModel(c)
  \/ \E c \in CallId, s, m \in DOMAIN answers, t \in Tool : ReservingTool(c, s, m, t)
  \/ \E c \in DOMAIN calls, o \in BOOLEAN : \E answer \in Reply(c.work) : Answering(c, o, answer)
  \/ \E c \in DOMAIN calls : \E w, kind, lineage, accepted : Deriving(w, kind, c, lineage, accepted)
  \/ \E c \in DOMAIN calls : \E kids : Admitting(c, kids)

\* A reservation of the layer below.
LEMMA ReservingStep ==
  ASSUME TypeOK, OrchTypeOK, NEW l \in granted, NEW c \in CallId, NEW p \in Nat, NEW m \in Nat,
         Reserve(l, c, p, m), BaseStep, c.work = l.work, NEW b, bindings' = Put(bindings, c, b),
         UNCHANGED <<meta, artifacts, tasks, answers, derived>>
  PROVE  Reserving(c, b)
<1>1. /\ c \notin DOMAIN calls
      /\ Holds(l)
      /\ UNCHANGED <<work, artifacts>>
      /\ DOMAIN calls' = DOMAIN calls \cup {c}
      /\ calls'[c].work = l.work
      /\ calls'[c].state = "reserved"
      /\ \A d \in DOMAIN calls : calls'[d] = calls[d]
  BY ReservedRow
<1>2. l.work \in DOMAIN work /\ work[l.work].status = "leased"
  BY <1>1 DEF Holds
<1>. QED
  BY <1>1, <1>2 DEF Reserving, OnlyCall

\* reserve_bounded is a reservation.
LEMMA BoundedStep ==
  ASSUME TypeOK, OrchTypeOK, NEW l \in granted, NEW c \in CallId, NEW inputs,
         ReserveBounded(l, c, inputs)
  PROVE  ReservingModel(c)
<1>1. /\ BaseStep
      /\ \E p \in Nat, m \in Nat : Reserve(l, c, p, m)
      /\ UNCHANGED <<meta, artifacts, tasks, answers, rulings, derived>>
      /\ c.kind = "model" /\ c.work = l.work /\ c.step < tasks[c.work].steps
      /\ tasks[c.work].kind = "model"
      /\ bindings' = Put(bindings, c, [inputs |-> inputs, source |-> None, tool |-> None])
  BY ReserveModelStep
<1>2. Reserving(c, [inputs |-> inputs, source |-> None, tool |-> None])
  BY <1>1, ReservingStep
<1>. QED
  BY <1>1, <1>2 DEF ReservingModel

\* So is reserve_tool_call, of a tool a receipt asks for, unless it was answered before.
LEMMA ToolCallStep ==
  ASSUME TypeOK, OrchTypeOK, NEW l \in granted, NEW c \in CallId, NEW inputs,
         NEW s \in DOMAIN answers, NEW m \in DOMAIN answers, NEW t \in Tool,
         ReserveToolCall(l, c, s, m, t, inputs)
  PROVE  ReservingTool(c, s, m, t) \/ (Repeating(s) /\ c \in DOMAIN calls /\ bindings[c].source = m)
<1>1. /\ BaseStep
      /\ UNCHANGED <<meta, artifacts, tasks, answers, derived>>
      /\ c.kind = "tool" /\ c.work = l.work /\ s.work = l.work /\ m.work = l.work
      /\ tasks[c.work].kind = "model" /\ t \in tasks[c.work].tools
      /\ answers[m].kind = "tool" /\ answers[m].tool = t
      /\ Rules(s, "tool")
      /\ \/ /\ \E p \in Nat, n \in Nat : Reserve(l, c, p, n)
            /\ bindings' = Put(bindings, c, [inputs |-> inputs, source |-> m, tool |-> t])
         \/ UNCHANGED <<calls, bindings>> /\ c \in CallsOf(c.work) /\ bindings[c].source = m
  BY ReserveToolStep
<1>2. CASE UNCHANGED <<calls, bindings>> /\ c \in CallsOf(c.work) /\ bindings[c].source = m
  <2>1. m # None
    BY WorkflowAssumption DEF OrchTypeOK, TypeOK
  <2>2. c \in ToolCalls(s.work)
    BY <1>1, <1>2, <2>1 DEF ToolCalls
  <2>3. IdleTables
    BY <1>1, <1>2 DEF IdleTables, IdleCalls
  <2>. QED
    BY <1>1, <1>2, <2>2, <2>3 DEF Repeating, CallsOf
<1>3. CASE /\ \E p \in Nat, n \in Nat : Reserve(l, c, p, n)
           /\ bindings' = Put(bindings, c, [inputs |-> inputs, source |-> m, tool |-> t])
  <2>1. Reserving(c, [inputs |-> inputs, source |-> m, tool |-> t])
    BY <1>1, <1>3, ReservingStep
  <2>2. answers[m] \in Answers[m.work] /\ m.work \in Work
    <3>1. answers[m] \in Reply(m.work)
      BY DEF OrchTypeOK
    <3>. QED
      BY <1>1, <2>1, <3>1 DEF Reply, Reserving, TypeOK
  <2>3. answers[m] = [kind |-> "tool", tool |-> t]
    BY <1>1, <2>2, AnswerAssumption
  <2>. QED
    BY <1>1, <2>1, <2>3 DEF ReservingTool
<1>. QED
  BY <1>1, <1>2, <1>3

\* dispatch starts a reserved call.
LEMMA StartingStep ==
  ASSUME TypeOK, OrchTypeOK, NEW l \in granted, NEW c \in DOMAIN calls, DispatchAdmitted(l, c)
  PROVE  Starting(c)
<1>1. /\ BaseStep
      /\ Dispatch(l, c)
      /\ UNCHANGED <<meta, artifacts, tasks, bindings, answers, rulings, derived>>
      /\ c.work = l.work
      /\ IF c.kind = "model" THEN AdmitModel(c) ELSE AdmitTool(c, bindings[c])
  BY DispatchStep
<1>2. /\ Holds(l) /\ UNCHANGED work
      /\ calls[c].state = "reserved" /\ calls'[c].work = calls[c].work
      /\ calls[c].work = l.work
      /\ DOMAIN calls' = DOMAIN calls /\ calls'[c].state = "dispatched"
      /\ \A d \in DOMAIN calls \ {c} : calls'[d] = calls[d]
  BY <1>1, DispatchedRow
<1>3. OnlyCall(c)
  BY <1>1, <1>2 DEF OnlyCall
<1>. QED
  BY <1>1, <1>2, <1>3 DEF Starting, Holds

\* An answer in the terms of the table of calls.
LEMMA AnsweringStep ==
  ASSUME TypeOK, OrchTypeOK, NEW c \in DOMAIN calls, NEW o \in BOOLEAN,
         NEW answer \in Reply(c.work), BaseStep, AnswerStored(c, o, answer), UNCHANGED artifacts
  PROVE  Answering(c, o, answer)
<1>1. PICK n \in Nat : n <= calls[c].prompt + calls[c].maximum /\ Settle(c, n, o)
  BY DEF AnswerStored
<1>2. /\ calls[c].state = "dispatched"
      /\ DOMAIN calls' = DOMAIN calls
      /\ calls'[c].work = calls[c].work
      /\ \A d \in DOMAIN calls \ {c} : calls'[d] = calls[d]
  BY <1>1, SettledRows
<1>3. calls'[c].state = IF o THEN "response_rejected" ELSE "received"
  BY <1>1 DEF Settle, TypeOK, Call
<1>4. calls[c].work = c.work
  BY DEF OrchTypeOK
<1>5. OnlyCall(c)
  BY <1>2, <1>4 DEF OnlyCall
<1>. QED
  BY <1>2, <1>3, <1>5 DEF AnswerStored, Answering

\* Every step is of one of the kinds.
LEMMA OrchSteps ==
  ASSUME TreeInv, OrchTypeOK, [OrchestrationNext]_orchestrationVars
  PROVE  OrchStep
<1>1. TypeOK
  BY DEF TreeInv, LedgerInv
<1>2. ASSUME \/ UNCHANGED orchestrationVars
             \/ \E w \in DOMAIN work :
                  Expire(w) /\ UNCHANGED <<platformTables, orchestrationTables>>
             \/ RecoverFreely /\ UNCHANGED orchestrationTables
             \/ \E a \in Agent, w \in DOMAIN work :
                  ClaimAvailable(a, w) /\ UNCHANGED orchestrationTables
             \/ Cancel /\ UNCHANGED <<platformTables, orchestrationTables>>
             \/ \E l \in granted : Release(l) /\ UNCHANGED orchestrationTables
             \/ \E c \in DOMAIN calls : RecordViolation(c)
      PROVE  OrchStep
  <2>1. Silent
    BY <1>1, <1>2, SilentSteps DEF Silent
  <2>. QED
    BY <2>1 DEF OrchStep
<1>3. ASSUME NEW l \in granted, NEW c \in CallId, NEW inputs, ReserveBounded(l, c, inputs)
      PROVE  OrchStep
  BY <1>1, <1>3, BoundedStep DEF OrchStep
<1>4. ASSUME NEW l \in granted, NEW c \in CallId, NEW inputs, NEW s \in DOMAIN answers,
             NEW m \in DOMAIN answers, NEW t \in Tool, ReserveToolCall(l, c, s, m, t, inputs)
      PROVE  OrchStep
  <2>1. s \in DOMAIN calls
    BY DEF OrchTypeOK
  <2>. QED
    BY <1>1, <1>4, <2>1, ToolCallStep DEF OrchStep
<1>5. ASSUME NEW l \in granted, NEW c \in DOMAIN calls, DispatchAdmitted(l, c)
      PROVE  OrchStep
  BY <1>1, <1>5, StartingStep DEF OrchStep
<1>6. ASSUME NEW l \in granted, NEW c \in DOMAIN calls, RecordRejection(l, c)
      PROVE  OrchStep
  <2>1. Rejecting(c)
    BY <1>1, <1>6, RejectionStep DEF Rejecting
  <2>. QED
    BY <2>1 DEF OrchStep
<1>7. ASSUME NEW l \in granted, NEW c \in DOMAIN calls,
             NEW a \in {d \in Answers[l.work] : d.kind = "decompose"}, AdmitChildren(l, c, a.children)
      PROVE  OrchStep
  <2>1. l.work \in Work
    BY <1>1, <1>7 DEF AdmitChildren, Holds, TypeOK
  <2>2. IsFiniteSet(DOMAIN a.children) /\ DOMAIN a.children \subseteq Work
    BY <2>1, AnswerAssumption
  <2>3. Admitting(c, a.children)
    BY <1>1, <1>7, <2>2, ChildrenStep DEF Admitting
  <2>. QED
    BY <2>3 DEF OrchStep
<1>8. ASSUME NEW l \in granted, NEW c \in DOMAIN calls \cup {None}, AbstainTask(l, c)
      PROVE  OrchStep
  <2>1. /\ BaseStep /\ IdleTables
        /\ IF c = None THEN UNCHANGED rulings ELSE Rules(c, "abstain")
    BY <1>8, AbstainStep
  <2>2. Silent \/ (c \in DOMAIN calls /\ Abstaining(c))
    BY <2>1 DEF Silent, Abstaining
  <2>. QED
    BY <2>2 DEF OrchStep
<1>9. ASSUME NEW c \in DOMAIN calls, NEW u \in Reports, NEW o \in BOOLEAN,
             NEW a \in Answers[c.work], ReceiveModel(c, u[1], u[2], o, a)
      PROVE  OrchStep
  <2>1. a \in Reply(c.work)
    BY DEF Reply
  <2>2. Answering(c, o, a)
    BY <1>1, <1>9, <2>1, ModelAnswerStep, AnsweringStep
  <2>. QED
    BY <2>1, <2>2 DEF OrchStep
<1>10. ASSUME NEW c \in DOMAIN calls, NEW o \in BOOLEAN, NEW v \in Verdicts, ReceiveTool(c, o, v)
       PROVE  OrchStep
  <2>. DEFINE a == [kind |-> "result", verdict |-> v]
  <2>1. a \in Reply(c.work)
    BY DEF Reply
  <2>2. BaseStep /\ AnswerStored(c, o, a) /\ UNCHANGED artifacts
    BY <1>1, <1>10, ToolAnswerStep
  <2>. HIDE DEF a
  <2>3. Answering(c, o, a)
    BY <1>1, <2>1, <2>2, AnsweringStep
  <2>. QED
    BY <2>1, <2>3 DEF OrchStep
<1>11. ASSUME NEW a \in Agent, NEW c \in DOMAIN calls, NEW accepted, NEW w \in DOMAIN work,
              NEW kind, NEW lineage, PublishDerived(a, w, kind, c, lineage, accepted)
       PROVE  OrchStep
  <2>1. Deriving(w, kind, c, lineage, accepted)
    BY <1>11, DerivedStep DEF Deriving
  <2>. QED
    BY <2>1 DEF OrchStep
<1>12. \A c \in DOMAIN calls : c.work \in DOMAIN work
  BY <1>1 DEF OrchTypeOK, TypeOK
<1>. QED
  BY <1>2, <1>3, <1>4, <1>5, <1>6, <1>7, <1>8, <1>9, <1>10, <1>11, <1>12 DEF OrchestrationNext

\* OrchTypeOK but for the rulings.
OtherTables ==
  /\ DOMAIN tasks = DOMAIN work
  /\ \A w \in DOMAIN work : tasks[w] \in TaskRow
  /\ DOMAIN bindings = DOMAIN calls
  /\ \A c \in DOMAIN calls : calls[c].work = c.work
  /\ DOMAIN answers = {c \in DOMAIN calls : calls[c].state = "received"}
  /\ \A c \in DOMAIN answers : answers[c] \in Reply(c.work)
  /\ DOMAIN derived = DOMAIN artifacts

\* With the rulings kept, the others are what there is to check.
LEMMA TablesTyped ==
  ASSUME TypeOK, OrchTypeOK, Frame, RulingsKept, OtherTables'
  PROVE  OrchTypeOK'
<1>1. rulings' \in [DOMAIN work' -> Seq(Ruling)]
  <2>1. CASE UNCHANGED rulings /\ DOMAIN work' = DOMAIN work
    BY <2>1 DEF OrchTypeOK
  <2>2. ASSUME NEW c \in DOMAIN calls, NEW d \in Decision, Rules(c, d)
        PROVE  rulings' \in [DOMAIN work' -> Seq(Ruling)]
    <3>1. c \in CallId /\ DOMAIN work \subseteq DOMAIN work'
      BY DEF TypeOK, Frame
    <3>. QED
      BY <2>2, <3>1, RuledTyped
  <2>. QED
    BY <2>1, <2>2 DEF RulingsKept
<1>. QED
  BY <1>1 DEF OrchTypeOK, OtherTables, Reply

\* A transaction that is idle but for the rulings.
LEMMA IdleFrame ==
  ASSUME TreeInv, OrchTypeOK, BaseStep, IdleTables
  PROVE  Frame /\ TablesKept /\ OtherTables' /\ DOMAIN work' = DOMAIN work
<1>1. TypeOK /\ LedgerInv
  BY DEF TreeInv, LedgerInv
<1>2. Frame /\ DOMAIN work' = DOMAIN work
  BY BaseFrame
<1>3. /\ DOMAIN calls' = DOMAIN calls
      /\ \A c \in DOMAIN calls : (calls'[c].state = "received") <=> (calls[c].state = "received")
      /\ UNCHANGED <<artifacts, tasks, bindings, answers, derived>>
  BY DEF IdleTables, IdleCalls
<1>4. \A c \in DOMAIN calls : calls'[c].work = calls[c].work
  BY <1>2 DEF Frame, CallsKept
<1>5. TablesKept
  BY <1>3 DEF TablesKept
<1>6. OtherTables'
  BY <1>2, <1>3, <1>4 DEF OrchTypeOK, OtherTables, Reply
<1>. QED
  BY <1>2, <1>5, <1>6

\* Open work has no artifact.
LEMMA OpenUnpublished ==
  ASSUME TreeInv, NEW w \in DOMAIN work, work[w].status # "done"
  PROVE  w \notin DOMAIN artifacts
BY DEF TreeInv, DoneMeansDecided

\* An idle step makes no tool call.
LEMMA IdleToolCalls ==
  ASSUME TreeInv, OrchTypeOK, BaseStep, IdleTables, NEW w
  PROVE  ToolCalls(w)' = ToolCalls(w)
<1>1. DOMAIN calls' = DOMAIN calls /\ UNCHANGED bindings
  BY DEF IdleTables, IdleCalls
<1>2. \A c \in DOMAIN calls : calls'[c].work = calls[c].work
  BY IdleFrame DEF Frame, CallsKept
<1>. QED
  BY <1>1, <1>2 DEF ToolCalls, CallsOf

\* What each kind of step keeps.
LEMMA SilentFrame ==
  ASSUME TreeInv, OrchTypeOK,
         Silent \/ \E c \in DOMAIN calls : Rejecting(c) \/ Abstaining(c) \/ Repeating(c)
  PROVE  Frame /\ TablesKept /\ RulingsKept /\ OtherTables'
<1>1. BaseStep /\ IdleTables
  BY DEF Silent, Rejecting, Abstaining, Repeating
<1>2. Frame /\ TablesKept /\ OtherTables' /\ DOMAIN work' = DOMAIN work
  BY <1>1, IdleFrame
<1>3. CASE Silent
  BY <1>2, <1>3 DEF Silent, RulingsKept
<1>4. ASSUME NEW c \in DOMAIN calls, Rejecting(c) PROVE RulingsKept
  BY <1>4 DEF Rejecting, RulingsKept, Happened, Decision
<1>5. ASSUME NEW c \in DOMAIN calls, Abstaining(c) PROVE RulingsKept
  <2>1. Rules(c, "abstain") /\ UNCHANGED artifacts
    BY <1>5 DEF Abstaining, IdleTables
  <2>2. c.work \notin DOMAIN artifacts'
    BY <2>1, OpenUnpublished DEF Rules
  <2>. QED
    BY <2>1, <2>2 DEF RulingsKept, Happened, Decision
<1>6. ASSUME NEW c \in DOMAIN calls, Repeating(c) PROVE RulingsKept
  <2>1. Rules(c, "tool") /\ IdleTables /\ ToolCalls(c.work) # {}
    BY <1>6 DEF Repeating
  <2>2. ToolCalls(c.work)' = ToolCalls(c.work)
    BY <1>1, <1>6, IdleToolCalls
  <2>3. Happened(c.work, c, "tool")'
    BY <2>1, <2>2 DEF Happened
  <2>. QED
    BY <2>1, <2>3 DEF RulingsKept, Decision
<1>. QED
  BY <1>2, <1>3, <1>4, <1>5, <1>6

\* A reservation adds a binding.
LEMMA ReservingFrame ==
  ASSUME TreeInv, OrchTypeOK, NEW c \in CallId, NEW b, Reserving(c, b)
  PROVE  /\ Frame /\ TablesKept /\ OtherTables' /\ DOMAIN work' = DOMAIN work
         /\ c \in CallsOf(c.work)' /\ bindings'[c] = b
<1>1. Frame /\ DOMAIN work' = DOMAIN work
  BY BaseFrame DEF Reserving
<1>2. /\ c \notin DOMAIN calls
      /\ DOMAIN calls' = DOMAIN calls \cup {c}
      /\ calls'[c].work = c.work /\ calls'[c].state = "reserved"
      /\ \A d \in DOMAIN calls : calls'[d] = calls[d]
      /\ DOMAIN bindings' = DOMAIN bindings \cup {c}
      /\ bindings'[c] = b
      /\ \A d \in DOMAIN bindings : d # c => bindings'[d] = bindings[d]
      /\ UNCHANGED <<artifacts, tasks, answers, derived>>
  BY DEF Reserving, OnlyCall, Put
<1>3. OtherTables'
  BY <1>1, <1>2 DEF OrchTypeOK, OtherTables, Reply
<1>4. TablesKept
  BY <1>2 DEF OrchTypeOK, TablesKept
<1>. QED
  BY <1>1, <1>2, <1>3, <1>4 DEF CallsOf

\* A dispatch or an answer.
LEMMA CallFrame ==
  ASSUME TreeInv, OrchTypeOK, NEW c \in DOMAIN calls,
         \/ Starting(c)
         \/ \E o \in BOOLEAN : \E answer \in Reply(c.work) : Answering(c, o, answer)
  PROVE  Frame /\ TablesKept /\ RulingsKept /\ OtherTables'
<1>1. BaseStep /\ UNCHANGED <<artifacts, tasks, bindings, rulings, derived>>
  BY DEF Starting, Answering
<1>2. Frame /\ DOMAIN work' = DOMAIN work
  BY <1>1, BaseFrame
<1>3. /\ DOMAIN calls' = DOMAIN calls
      /\ calls'[c].work = c.work
      /\ \A d \in DOMAIN calls \ {c} : calls'[d] = calls[d]
      /\ calls[c].state \in {"reserved", "dispatched"}
  BY DEF Starting, Answering, OnlyCall
<1>4. /\ DOMAIN answers' = {d \in DOMAIN calls' : calls'[d].state = "received"}
      /\ \A d \in DOMAIN answers : d # c /\ d \in DOMAIN answers' /\ answers'[d] = answers[d]
      /\ \A d \in DOMAIN answers' : answers'[d] \in Reply(d.work)
  <2>1. /\ DOMAIN answers = {d \in DOMAIN calls : calls[d].state = "received"}
        /\ \A d \in DOMAIN answers : answers[d] \in Reply(d.work)
    BY DEF OrchTypeOK
  <2>2. CASE Starting(c)
    <3>1. UNCHANGED answers /\ calls'[c].state = "dispatched"
      BY <2>2 DEF Starting
    <3>. QED
      BY <1>3, <2>1, <3>1
  <2>3. ASSUME NEW o \in BOOLEAN, NEW answer \in Reply(c.work), Answering(c, o, answer)
        PROVE  <1>4!:
    <3>1. /\ answers' = Stored(c, o, answer)
          /\ calls'[c].state = IF o THEN "response_rejected" ELSE "received"
      BY <2>3 DEF Answering
    <3>2. CASE o
      BY <1>3, <2>1, <3>1, <3>2 DEF Stored
    <3>3. CASE ~o
      <4>1. answers' = Put(answers, c, answer) /\ calls'[c].state = "received"
        BY <3>1, <3>3 DEF Stored
      <4>. QED
        BY <1>3, <2>1, <4>1 DEF Put
    <3>. QED
      BY <3>2, <3>3
  <2>. QED
    BY <2>2, <2>3
<1>5. OtherTables'
  BY <1>1, <1>2, <1>3, <1>4 DEF OrchTypeOK, OtherTables, Reply
<1>. QED
  BY <1>1, <1>2, <1>4, <1>5 DEF TablesKept, RulingsKept

\* A derivation is recorded with its artifact.
LEMMA DerivingFrame ==
  ASSUME TreeInv, OrchTypeOK, NEW w, NEW kind, NEW c \in DOMAIN calls, NEW lineage, NEW accepted,
         Deriving(w, kind, c, lineage, accepted)
  PROVE  Frame /\ TablesKept /\ RulingsKept /\ OtherTables'
<1>1. Frame /\ DOMAIN work' = DOMAIN work
  BY BaseFrame DEF Deriving
<1>2. /\ DOMAIN artifacts' = DOMAIN artifacts \cup {w}
      /\ artifacts'[w].call = c
      /\ VerifiedDerivation(w, kind, c, lineage)
      /\ IdleCalls
      /\ DOMAIN derived' = DOMAIN derived \cup {w}
      /\ UNCHANGED <<tasks, bindings, answers>>
      /\ IF kind = "output" THEN Rules(c, "submit") ELSE UNCHANGED rulings
  BY DEF Deriving, Derives, Put
<1>3. /\ DOMAIN calls' = DOMAIN calls
      /\ \A d \in DOMAIN calls : (calls'[d].state = "received") <=> (calls[d].state = "received")
  BY <1>2 DEF IdleCalls
<1>4. \A d \in DOMAIN calls : calls'[d].work = calls[d].work
  BY <1>1 DEF Frame, CallsKept
<1>5. OtherTables'
  BY <1>1, <1>2, <1>3, <1>4 DEF OrchTypeOK, OtherTables, Reply
<1>6. kind = "output" => c.work = w
  BY <1>2 DEF VerifiedDerivation
<1>7. RulingsKept
  BY <1>1, <1>2, <1>6 DEF RulingsKept, Happened, Decision
<1>. QED
  BY <1>1, <1>2, <1>5, <1>7 DEF TablesKept

\* Children come with their tasks, and empty rulings.
LEMMA AdmittingFrame ==
  ASSUME TreeInv, OrchTypeOK, NEW c \in DOMAIN calls, NEW kids, Admitting(c, kids)
  PROVE  Frame /\ TablesKept /\ RulingsKept /\ OtherTables'
<1>1. PICK l \in granted :
        /\ Valid(OfferOf(l.work, kids))
        /\ Decompose(l, OfferOf(l.work, kids))
        /\ Admits(l.work, c, kids)
  BY DEF Admitting
<1>. DEFINE w == l.work
            offer == OfferOf(w, kids)
<1>2. DOMAIN offer = DOMAIN kids
  BY DEF OfferOf
<1>3. Valid(offer) /\ Decompose(l, offer)
  BY <1>1
<1>. HIDE DEF offer
<1>4. /\ Frame
      /\ UNCHANGED <<calls, artifacts>>
      /\ DOMAIN work' = DOMAIN work \cup DOMAIN kids
      /\ \A k \in DOMAIN kids : meta'[k].parent = w
  BY <1>2, <1>3, SplitFrame
<1>5. /\ DOMAIN kids # {} /\ DOMAIN kids \cap DOMAIN work = {}
      /\ \A k \in DOMAIN kids : ChildTask(tasks[w], kids[k]) \in TaskRow
      /\ DOMAIN tasks' = DOMAIN kids \cup DOMAIN tasks
      /\ \A k \in DOMAIN kids : tasks'[k] = ChildTask(tasks[w], kids[k])
      /\ \A v \in DOMAIN tasks \ DOMAIN kids : tasks'[v] = tasks[v]
      /\ c.work = w /\ Rules(c, "decompose")
      /\ UNCHANGED <<bindings, answers, derived>>
  BY <1>1 DEF Admits
<1>6. \A v \in DOMAIN work : tasks'[v] = tasks[v]
  BY <1>5 DEF OrchTypeOK
<1>7. \A v \in DOMAIN work' : tasks'[v] \in TaskRow
  BY <1>4, <1>5, <1>6 DEF OrchTypeOK
<1>8. OtherTables'
  BY <1>4, <1>5, <1>7 DEF OrchTypeOK, OtherTables, Reply
<1>9. TablesKept
  BY <1>5, <1>6 DEF OrchTypeOK, TablesKept
<1>10. Children(w)' # {}
  <2>1. PICK k \in DOMAIN kids : TRUE
    BY <1>5
  <2>2. k \in DOMAIN meta'
    BY <1>4 DEF Frame, TreeInv, PlatformTypeOK
  <2>. QED
    BY <1>4, <2>2 DEF Children
<1>11. Happened(c.work, c, "decompose")'
  BY <1>5, <1>10 DEF Happened
<1>12. RulingsKept
  BY <1>5, <1>11 DEF RulingsKept, Decision
<1>. QED
  BY <1>4, <1>8, <1>9, <1>12

\* So every step keeps the tables, and their types.
LEMMA OrchFrame ==
  ASSUME TreeInv, OrchTypeOK, OrchStep
  PROVE  Frame /\ TablesKept /\ RulingsKept /\ OrchTypeOK'
<1>1. ASSUME Frame, TablesKept, RulingsKept, OtherTables'
      PROVE  Frame /\ TablesKept /\ RulingsKept /\ OrchTypeOK'
  BY <1>1, TablesTyped DEF TreeInv, LedgerInv
<1>2. CASE Silent \/ \E c \in DOMAIN calls : Rejecting(c) \/ Abstaining(c) \/ Repeating(c)
  BY <1>1, <1>2, SilentFrame
<1>3. ASSUME NEW c \in CallId, ReservingModel(c)
      PROVE  Frame /\ TablesKept /\ RulingsKept /\ OrchTypeOK'
  <2>1. UNCHANGED rulings
    BY <1>3 DEF ReservingModel
  <2>2. PICK inputs : Reserving(c, [inputs |-> inputs, source |-> None, tool |-> None])
    BY <1>3 DEF ReservingModel
  <2>3. Frame /\ TablesKept /\ OtherTables' /\ DOMAIN work' = DOMAIN work
    BY <2>2, ReservingFrame
  <2>. QED
    BY <1>1, <2>1, <2>3 DEF RulingsKept
<1>4. ASSUME NEW c \in CallId, NEW s \in DOMAIN answers, NEW m \in DOMAIN answers, NEW t \in Tool,
             ReservingTool(c, s, m, t)
      PROVE  Frame /\ TablesKept /\ RulingsKept /\ OrchTypeOK'
  <2>1. Rules(s, "tool") /\ s.work = c.work
    BY <1>4 DEF ReservingTool
  <2>2. PICK inputs : Reserving(c, [inputs |-> inputs, source |-> m, tool |-> t])
    BY <1>4 DEF ReservingTool
  <2>. DEFINE b == [inputs |-> inputs, source |-> m, tool |-> t]
  <2>3. b.source = m /\ Reserving(c, b)
    BY <2>2
  <2>. HIDE DEF b
  <2>4. /\ Frame /\ TablesKept /\ OtherTables'
        /\ c \in CallsOf(c.work)' /\ bindings'[c] = b
    BY <2>3, ReservingFrame
  <2>5. m # None
    BY WorkflowAssumption DEF OrchTypeOK, TreeInv, LedgerInv, TypeOK
  <2>6. Happened(s.work, s, "tool")'
    <3>1. c \in ToolCalls(s.work)'
      BY <2>1, <2>3, <2>4, <2>5 DEF ToolCalls
    <3>. QED
      BY <3>1 DEF Happened
  <2>7. s \in DOMAIN calls
    BY DEF OrchTypeOK
  <2>8. RulingsKept
    BY <2>1, <2>6, <2>7 DEF RulingsKept, Decision
  <2>. QED
    BY <1>1, <2>4, <2>8
<1>5. ASSUME NEW c \in DOMAIN calls,
             \/ Starting(c)
             \/ \E o \in BOOLEAN : \E answer \in Reply(c.work) : Answering(c, o, answer)
      PROVE  Frame /\ TablesKept /\ RulingsKept /\ OrchTypeOK'
  BY <1>1, <1>5, CallFrame
<1>6. ASSUME NEW w, NEW kind, NEW c \in DOMAIN calls, NEW lineage, NEW accepted,
             Deriving(w, kind, c, lineage, accepted)
      PROVE  Frame /\ TablesKept /\ RulingsKept /\ OrchTypeOK'
  BY <1>1, <1>6, DerivingFrame
<1>7. ASSUME NEW c \in DOMAIN calls, NEW kids, Admitting(c, kids)
      PROVE  Frame /\ TablesKept /\ RulingsKept /\ OrchTypeOK'
  BY <1>1, <1>7, AdmittingFrame
<1>. QED
  BY <1>2, <1>3, <1>4, <1>5, <1>6, <1>7 DEF OrchStep
-----------------------------------------------------------------------------
\* Calls and receipts

\* Calls appear by reservation only.
LEMMA NewCalls ==
  ASSUME TreeInv, OrchTypeOK, OrchStep
  PROVE  \/ DOMAIN calls' = DOMAIN calls
         \/ \E c \in CallId : ReservingModel(c)
         \/ \E c \in CallId, s, m \in DOMAIN answers, t \in Tool : ReservingTool(c, s, m, t)
<1>1. CASE Silent \/ \E c \in DOMAIN calls : Rejecting(c) \/ Abstaining(c) \/ Repeating(c)
  BY <1>1 DEF Silent, Rejecting, Abstaining, Repeating, IdleTables, IdleCalls
<1>2. ASSUME NEW c \in DOMAIN calls,
             \/ Starting(c)
             \/ \E o \in BOOLEAN : \E answer \in Reply(c.work) : Answering(c, o, answer)
      PROVE  DOMAIN calls' = DOMAIN calls
  BY <1>2 DEF Starting, Answering, OnlyCall
<1>3. ASSUME NEW w, NEW kind, NEW c \in DOMAIN calls, NEW lineage, NEW accepted,
             Deriving(w, kind, c, lineage, accepted)
      PROVE  DOMAIN calls' = DOMAIN calls
  BY <1>3 DEF Deriving, Derives, IdleCalls
<1>4. ASSUME NEW c \in DOMAIN calls, NEW kids, Admitting(c, kids)
      PROVE  DOMAIN calls' = DOMAIN calls
  BY <1>4 DEF Admitting, Decompose
<1>. QED
  BY <1>1, <1>2, <1>3, <1>4 DEF OrchStep

\* The reserved call is the new one.
LEMMA ReservedCall ==
  ASSUME OrchTypeOK, NEW c \in CallId, NEW b, Reserving(c, b)
  PROVE  /\ c \notin DOMAIN calls /\ DOMAIN calls' = DOMAIN calls \cup {c}
         /\ bindings'[c] = b
         /\ \A d \in DOMAIN calls : bindings'[d] = bindings[d] /\ calls'[d] = calls[d]
BY DEF OrchTypeOK, Reserving, OnlyCall, Put

\* What was ruled stays so.
LEMMA EntriesKept ==
  ASSUME OrchTypeOK, RulingsKept, NEW w \in DOMAIN work, NEW i \in DOMAIN rulings[w]
  PROVE  i \in DOMAIN rulings'[w] /\ rulings'[w][i] = rulings[w][i]
<1>1. ASSUME NEW c \in DOMAIN calls, NEW d \in Decision, Rules(c, d)
      PROVE  i \in DOMAIN rulings'[w] /\ rulings'[w][i] = rulings[w][i]
  <2>1. CASE w = c.work
    BY <1>1, <2>1, RuledRow
  <2>2. CASE w # c.work
    <3>1. rulings'[w] = rulings[w]
      BY <1>1, <2>2 DEF Rules
    <3>. QED
      BY <3>1
  <2>. QED
    BY <2>1, <2>2
<1>. QED
  BY <1>1 DEF RulingsKept

\* The rulings on record are finitely many; new work has none.
LEMMA FiniteRulings ==
  ASSUME OrchTypeOK, NEW w \in DOMAIN work, NEW d
  PROVE  IsFiniteSet(RuledAs(w, d)) /\ Cardinality(RuledAs(w, d)) \in Nat
<1>1. rulings[w] \in Seq(Ruling)
  BY DEF OrchTypeOK
<1>2. DOMAIN rulings[w] = 1 .. Len(rulings[w]) /\ Len(rulings[w]) \in Nat
  BY <1>1
<1>3. IsFiniteSet(DOMAIN rulings[w])
  BY <1>2, FS_Interval
<1>. QED
  BY <1>3, FS_Subset, FS_CardinalityType DEF RuledAs

\* The rulings of a kind.
LEMMA RuledSets ==
  ASSUME OrchTypeOK, NEW c, NEW d, Rules(c, d), NEW e
  PROVE  /\ \A w \in DOMAIN work : e # d \/ w # c.work => RuledAs(w, e)' = RuledAs(w, e)
         /\ RuledAs(c.work, d)' = RuledAs(c.work, d) \cup {Len(rulings[c.work]) + 1}
<1>. DEFINE v == c.work
            n == Len(rulings[v]) + 1
<1>1. /\ DOMAIN rulings'[v] = DOMAIN rulings[v] \cup {n}
      /\ n \notin DOMAIN rulings[v]
      /\ \A i \in DOMAIN rulings[v] : rulings'[v][i] = rulings[v][i]
      /\ rulings'[v][n] = [call |-> c, decision |-> d]
  BY RuledRow
<1>2. \A w \in DOMAIN work \ {v} : rulings'[w] = rulings[w]
  BY DEF Rules
<1>3. rulings'[v][n].decision = d
  BY <1>1
<1>. HIDE DEF v, n
<1>4. e # d => RuledAs(v, e)' = RuledAs(v, e)
  BY <1>1, <1>3 DEF RuledAs
<1>5. RuledAs(v, d)' = RuledAs(v, d) \cup {n}
  BY <1>1, <1>3 DEF RuledAs
<1>6. \A w \in DOMAIN work \ {v} : RuledAs(w, e)' = RuledAs(w, e)
  BY <1>2 DEF RuledAs
<1>. QED
  BY <1>4, <1>5, <1>6 DEF v, n, RuledAs


\* A tool call asks for what its receipt says, and answers stay as they are.
LEMMA ToolsKept ==
  ASSUME TreeInv, OrchTypeOK, ToolsFromReceipts, OrchStep, TablesKept
  PROVE  ToolsFromReceipts'
<1>1. \A t \in DOMAIN calls : t \in DOMAIN bindings /\ bindings'[t] = bindings[t]
  BY DEF OrchTypeOK, TablesKept
<1>2. ASSUME NEW t \in DOMAIN calls, NEW m, m = bindings'[t].source, m # None
      PROVE  /\ m \in DOMAIN answers' /\ m.work = t.work
             /\ answers'[m] = [kind |-> "tool", tool |-> bindings'[t].tool]
  <2>1. /\ m \in DOMAIN answers /\ m.work = t.work
        /\ answers[m] = [kind |-> "tool", tool |-> bindings[t].tool]
    BY <1>1, <1>2 DEF ToolsFromReceipts
  <2>. QED
    BY <1>1, <2>1 DEF TablesKept
<1>3. CASE DOMAIN calls' = DOMAIN calls
  BY <1>2, <1>3 DEF ToolsFromReceipts
<1>4. ASSUME NEW c \in CallId, ReservingModel(c) PROVE ToolsFromReceipts'
  <2>1. PICK inputs : Reserving(c, [inputs |-> inputs, source |-> None, tool |-> None])
    BY <1>4 DEF ReservingModel
  <2>. DEFINE b == [inputs |-> inputs, source |-> None, tool |-> None]
  <2>2. b.source = None /\ Reserving(c, b)
    BY <2>1
  <2>. HIDE DEF b
  <2>3. DOMAIN calls' = DOMAIN calls \cup {c} /\ bindings'[c].source = None
    BY <2>2, ReservedCall
  <2>. QED
    BY <1>2, <2>3 DEF ToolsFromReceipts
<1>5. ASSUME NEW c \in CallId, NEW s \in DOMAIN answers, NEW m \in DOMAIN answers, NEW t \in Tool,
             ReservingTool(c, s, m, t)
      PROVE  ToolsFromReceipts'
  <2>1. PICK inputs : Reserving(c, [inputs |-> inputs, source |-> m, tool |-> t])
    BY <1>5 DEF ReservingTool
  <2>. DEFINE b == [inputs |-> inputs, source |-> m, tool |-> t]
  <2>2. b.source = m /\ b.tool = t /\ Reserving(c, b)
    BY <2>1
  <2>. HIDE DEF b
  <2>3. /\ DOMAIN calls' = DOMAIN calls \cup {c}
        /\ bindings'[c].source = m /\ bindings'[c].tool = t
    BY <2>2, ReservedCall
  <2>4. m.work = c.work /\ answers[m] = [kind |-> "tool", tool |-> t]
    BY <1>5 DEF ReservingTool
  <2>5. m \in DOMAIN answers' /\ answers'[m] = [kind |-> "tool", tool |-> t]
    BY <2>4 DEF TablesKept
  <2>. QED
    BY <1>2, <2>3, <2>4, <2>5 DEF ToolsFromReceipts
<1>. QED
  BY <1>3, <1>4, <1>5, NewCalls

\* Tool calls appear with the ruling that pays for them.
LEMMA NewToolCalls ==
  ASSUME TreeInv, OrchTypeOK, OrchStep, Frame, TablesKept, OrchTypeOK', NEW w
  PROVE  \/ ToolCalls(w)' = ToolCalls(w)
         \/ \E c \in CallId, s \in DOMAIN answers :
              /\ Rules(s, "tool") /\ s.work = w
              /\ ToolCalls(w)' \subseteq ToolCalls(w) \cup {c}
<1>1. \A t \in DOMAIN calls : /\ t \in DOMAIN bindings /\ bindings'[t] = bindings[t]
                              /\ t \in DOMAIN calls' /\ calls'[t].work = t.work
                              /\ calls[t].work = t.work
  BY DEF OrchTypeOK, TablesKept, Frame, CallsKept
<1>2. CASE DOMAIN calls' = DOMAIN calls
  BY <1>1, <1>2 DEF ToolCalls, CallsOf
<1>3. ASSUME NEW c \in CallId, NEW b, Reserving(c, b)
      PROVE  /\ ToolCalls(w)' \subseteq ToolCalls(w) \cup {c}
             /\ c.work # w \/ b.source = None => ToolCalls(w)' = ToolCalls(w)
  <2>1. DOMAIN calls' = DOMAIN calls \cup {c} /\ c \notin DOMAIN calls /\ bindings'[c] = b
    BY <1>3, ReservedCall
  <2>2. calls'[c].work = c.work
    BY <2>1 DEF OrchTypeOK
  <2>. QED
    BY <1>1, <2>1, <2>2 DEF ToolCalls, CallsOf
<1>4. ASSUME NEW c \in CallId, ReservingModel(c) PROVE ToolCalls(w)' = ToolCalls(w)
  <2>1. PICK inputs : Reserving(c, [inputs |-> inputs, source |-> None, tool |-> None])
    BY <1>4 DEF ReservingModel
  <2>2. [inputs |-> inputs, source |-> None, tool |-> None].source = None
    OBVIOUS
  <2>. QED
    BY <1>3, <2>1, <2>2
<1>5. ASSUME NEW c \in CallId, NEW s \in DOMAIN answers, NEW m \in DOMAIN answers, NEW t \in Tool,
             ReservingTool(c, s, m, t)
      PROVE  \/ ToolCalls(w)' = ToolCalls(w)
             \/ /\ Rules(s, "tool") /\ s.work = w
                /\ ToolCalls(w)' \subseteq ToolCalls(w) \cup {c}
  <2>1. \E b : Reserving(c, b)
    BY <1>5 DEF ReservingTool
  <2>2. Rules(s, "tool") /\ s.work = c.work
    BY <1>5 DEF ReservingTool
  <2>. QED
    BY <1>3, <2>1, <2>2
<1>. QED
  BY <1>2, <1>4, <1>5, NewCalls

\* So each of them is paid for.
LEMMA PaidKept ==
  ASSUME TreeInv, OrchTypeOK, ToolsPaid, OrchStep, Frame, TablesKept, RulingsKept, OrchTypeOK'
  PROVE  ToolsPaid'
<1>. SUFFICES ASSUME NEW w \in DOMAIN work'
              PROVE  Cardinality(ToolCalls(w)') <= Cardinality(RuledAs(w, "tool")')
  BY DEF ToolsPaid, ToolCalls, RuledAs, CallsOf
<1>1. TypeOK
  BY DEF TreeInv, LedgerInv
<1>2. IsFiniteSet(ToolCalls(w)) /\ Cardinality(ToolCalls(w)) \in Nat
  BY <1>1, FiniteCallsOf, FS_Subset, FS_CardinalityType DEF ToolCalls
<1>3. IsFiniteSet(RuledAs(w, "tool")') /\ Cardinality(RuledAs(w, "tool")') \in Nat
  <2>1. rulings'[w] \in Seq(Ruling)
    BY DEF OrchTypeOK
  <2>2. DOMAIN rulings'[w] = 1 .. Len(rulings'[w]) /\ Len(rulings'[w]) \in Nat
    BY <2>1
  <2>3. IsFiniteSet(DOMAIN rulings'[w])
    BY <2>2, FS_Interval
  <2>4. RuledAs(w, "tool")' \subseteq DOMAIN rulings'[w]
    BY DEF RuledAs
  <2>. QED
    BY <2>3, <2>4, FS_Subset, FS_CardinalityType
<1>4. CASE w \notin DOMAIN work
  <2>1. \A c \in DOMAIN calls : calls[c].work # w
    BY <1>1, <1>4 DEF TypeOK
  <2>2. ToolCalls(w) = {}
    BY <2>1 DEF ToolCalls, CallsOf
  <2>3. ~ \E s : Rules(s, "tool") /\ s.work = w
    BY <1>4 DEF Rules
  <2>4. ToolCalls(w)' = {}
    BY <2>2, <2>3, NewToolCalls
  <2>. QED
    BY <1>3, <2>4, FS_EmptySet
<1>5. CASE w \in DOMAIN work
  <2>1. Cardinality(ToolCalls(w)) <= Cardinality(RuledAs(w, "tool"))
    BY <1>5 DEF ToolsPaid
  <2>2. IsFiniteSet(RuledAs(w, "tool")) /\ Cardinality(RuledAs(w, "tool")) \in Nat
    BY <1>5, FiniteRulings
  <2>3. RuledAs(w, "tool") \subseteq RuledAs(w, "tool")'
    BY <1>5, EntriesKept DEF RuledAs
  <2>4. CASE ToolCalls(w)' = ToolCalls(w)
    <3>1. Cardinality(RuledAs(w, "tool")) <= Cardinality(RuledAs(w, "tool")')
      BY <1>3, <2>3, FS_Subset
    <3>. QED
      BY <1>2, <1>3, <2>1, <2>2, <2>4, <3>1
  <2>5. ASSUME NEW c \in CallId, NEW s \in DOMAIN answers, Rules(s, "tool"), s.work = w,
               ToolCalls(w)' \subseteq ToolCalls(w) \cup {c}
        PROVE  Cardinality(ToolCalls(w)') <= Cardinality(RuledAs(w, "tool")')
    <3>. DEFINE S == RuledAs(w, "tool")
                R == RuledAs(w, "tool")'
                T == ToolCalls(w)
                U == ToolCalls(w)'
                n == Len(rulings[w]) + 1
    <3>1. R = S \cup {n}
      BY <2>5, RuledSets DEF RuledAs
    <3>2. n \notin S
      <4>1. n \notin DOMAIN rulings[w]
        BY <1>5, <2>5, RuledRow
      <4>. QED
        BY <4>1 DEF RuledAs
    <3>3. /\ IsFiniteSet(S) /\ Cardinality(S) \in Nat
          /\ IsFiniteSet(T) /\ Cardinality(T) \in Nat /\ Cardinality(T) <= Cardinality(S)
          /\ U \subseteq T \cup {c}
      BY <1>2, <2>1, <2>2, <2>5
    <3>. HIDE DEF S, R, T, U, n
    <3>4. Cardinality(R) = Cardinality(S) + 1
      BY <3>1, <3>2, <3>3, FS_AddElement
    <3>5. /\ IsFiniteSet(T \cup {c})
          /\ Cardinality(T \cup {c}) <= Cardinality(T) + 1
      <4>1. IsFiniteSet(T) /\ Cardinality(T) \in Nat
        BY <3>3
      <4>2. /\ IsFiniteSet(T \cup {c})
            /\ Cardinality(T \cup {c}) = IF c \in T THEN Cardinality(T) ELSE Cardinality(T) + 1
        BY <4>1, FS_AddElement
      <4>. QED
        BY <4>1, <4>2
    <3>6. Cardinality(T \cup {c}) \in Nat
      BY <3>5, FS_CardinalityType
    <3>7. IsFiniteSet(U) /\ Cardinality(U) <= Cardinality(T \cup {c})
      BY <3>3, <3>5, FS_Subset
    <3>8. Cardinality(U) \in Nat
      BY <3>7, FS_CardinalityType
    <3>9. Cardinality(U) <= Cardinality(R)
      BY <3>3, <3>4, <3>5, <3>6, <3>7, <3>8
    <3>. QED
      BY <3>9 DEF U, R
  <2>. QED
    BY <2>4, <2>5, NewToolCalls
<1>. QED
  BY <1>4, <1>5

\* What a decision says is backed, and a tool call is asked and paid for.
LEMMA BackedDecisions ==
  ASSUME OrchInv
  PROVE  DecisionsBacked
<1>. USE DEF OrchInv
<1>1. DOMAIN rulings = DOMAIN work
  BY DEF OrchTypeOK
<1>2. ASSUME NEW w \in DOMAIN work, NEW i \in DOMAIN rulings[w], NEW c, NEW d,
             c = rulings[w][i].call, d = rulings[w][i].decision
      PROVE  /\ d = "tool" => ToolCalls(w) # {}
             /\ d = "submit" => w \in DOMAIN artifacts /\ artifacts[w].call = c
             /\ d = "abstain" => w \in DOMAIN decisions /\ w \notin DOMAIN artifacts
             /\ d = "decompose" => Children(w) # {}
  <2>1. Happened(w, c, d)
    BY <1>1, <1>2 DEF DecisionsDone
  <2>2. ASSUME d = "abstain" PROVE w \in DOMAIN decisions
    <3>1. work[w].status = "done"
      BY <1>1, <1>2, <2>2 DEF ReceiptConsumedOnce, RuledAs
    <3>. QED
      BY <2>1, <2>2, <3>1 DEF Happened, TreeInv, DoneMeansDecided
  <2>. QED
    BY <2>1, <2>2 DEF Happened
<1>3. ASSUME NEW w \in DOMAIN work, NEW t \in ToolCalls(w), NEW m, m = bindings[t].source
      PROVE  /\ m \in CallsOf(w) /\ m \in DOMAIN answers
             /\ answers[m] = [kind |-> "tool", tool |-> bindings[t].tool]
  <2>1. t \in DOMAIN calls /\ t.work = w /\ m # None
    BY <1>3 DEF ToolCalls, CallsOf, OrchTypeOK
  <2>. QED
    BY <1>3, <2>1 DEF ToolsFromReceipts, CallsOf, OrchTypeOK
<1>4. \A w \in DOMAIN work : Cardinality(ToolCalls(w)) <= Cardinality(RuledAs(w, "tool"))
  BY DEF ToolsPaid
<1>. QED
  BY <1>1, <1>2, <1>3, <1>4 DEF DecisionsBacked
-----------------------------------------------------------------------------
\* Limits

\* Work appears by decomposition only.
LEMMA NewWork ==
  ASSUME TreeInv, OrchTypeOK, OrchStep
  PROVE  \/ DOMAIN work' = DOMAIN work /\ UNCHANGED meta
         \/ \E c \in DOMAIN calls : \E kids : Admitting(c, kids)
<1>1. CASE BaseStep
  BY <1>1, BaseFrame
<1>2. OrchStep => BaseStep \/ \E c \in DOMAIN calls : \E kids : Admitting(c, kids)
  BY DEF OrchStep, Silent, Rejecting, Abstaining, Repeating, Starting, Answering, ReservingModel,
         ReservingTool, Reserving, Deriving
<1>. QED
  BY <1>1, <1>2

\* The steps on record of w: at most one open or settled call each.
ModelSteps(w) ==
  {c \in CallsOf(w) : c.kind = "model" /\ calls[c].state \in {"received", "dispatched"}}

\* Calls start by dispatch only.
LEMMA Started ==
  ASSUME TreeInv, OrchTypeOK, OrchStep
  PROVE  \/ \E c \in DOMAIN calls : Starting(c)
         \/ \A d \in DOMAIN calls' :
              \/ calls'[d].state = "reserved" /\ (d \in DOMAIN calls => calls[d].state = "reserved")
              \/ /\ d \in DOMAIN calls
                 /\ calls'[d].state \in Used <=> calls[d].state \in Used
                 /\ calls'[d].state \in {"received", "dispatched"} =>
                      calls[d].state \in {"received", "dispatched"}
<1>. DEFINE Quiet(d) ==
              \/ calls'[d].state = "reserved" /\ (d \in DOMAIN calls => calls[d].state = "reserved")
              \/ /\ d \in DOMAIN calls
                 /\ calls'[d].state \in Used <=> calls[d].state \in Used
                 /\ calls'[d].state \in {"received", "dispatched"} =>
                      calls[d].state \in {"received", "dispatched"}
<1>. DEFINE AllQuiet == \A d \in DOMAIN calls' : Quiet(d)
<1>1. ASSUME IdleCalls PROVE AllQuiet
  BY <1>1 DEF IdleCalls, Used
<1>2. ASSUME Silent \/ \E c \in DOMAIN calls : Rejecting(c) \/ Abstaining(c) \/ Repeating(c)
      PROVE  AllQuiet
  BY <1>1, <1>2 DEF Silent, Rejecting, Abstaining, Repeating, IdleTables
<1>3. ASSUME NEW c \in CallId, NEW b, Reserving(c, b) PROVE AllQuiet
  BY <1>3 DEF Reserving, OnlyCall
<1>4. ASSUME NEW c \in DOMAIN calls, NEW o \in BOOLEAN, NEW answer \in Reply(c.work),
             Answering(c, o, answer)
      PROVE  AllQuiet
  <2>1. Quiet(c)
    BY <1>4 DEF Answering, Used
  <2>2. \A d \in DOMAIN calls' \ {c} : d \in DOMAIN calls /\ calls'[d] = calls[d]
    BY <1>4 DEF Answering, OnlyCall
  <2>. QED
    BY <2>1, <2>2
<1>5. ASSUME NEW w, NEW kind, NEW c \in DOMAIN calls, NEW lineage, NEW accepted,
             Deriving(w, kind, c, lineage, accepted)
      PROVE  AllQuiet
  BY <1>1, <1>5 DEF Deriving, Derives
<1>6. ASSUME NEW c \in DOMAIN calls, NEW kids, Admitting(c, kids)
      PROVE  AllQuiet
  BY <1>6 DEF Admitting, Decompose
<1>7. ASSUME NEW c \in CallId,
             ReservingModel(c) \/ \E s, m \in DOMAIN answers, t \in Tool : ReservingTool(c, s, m, t)
      PROVE  AllQuiet
  <2>1. \E b : Reserving(c, b)
    BY <1>7 DEF ReservingModel, ReservingTool
  <2>. QED
    BY <1>3, <2>1
<1>. HIDE DEF AllQuiet
<1>8. (\E c \in DOMAIN calls : Starting(c)) \/ AllQuiet
  BY <1>2, <1>4, <1>5, <1>6, <1>7 DEF OrchStep
<1>. QED
  BY <1>8 DEF AllQuiet

\* The calls that count, after a step that starts none.
LEMMA QuietSets ==
  ASSUME TreeInv, OrchTypeOK, OrchTypeOK', CallsKept, OrchStep,
         ~ \E c \in DOMAIN calls : Starting(c), NEW w, NEW kind
  PROVE  /\ CallsUsed(w, kind)' = CallsUsed(w, kind)
         /\ ModelSteps(w)' \subseteq ModelSteps(w)
<1>1. \A d \in DOMAIN calls' :
        \/ calls'[d].state = "reserved" /\ (d \in DOMAIN calls => calls[d].state = "reserved")
        \/ /\ d \in DOMAIN calls
           /\ calls'[d].state \in Used <=> calls[d].state \in Used
           /\ calls'[d].state \in {"received", "dispatched"} =>
                calls[d].state \in {"received", "dispatched"}
  BY Started
<1>2. /\ \A d \in DOMAIN calls : calls[d].work = d.work /\ d \in DOMAIN calls'
      /\ \A d \in DOMAIN calls' : calls'[d].work = d.work
  BY DEF OrchTypeOK, CallsKept
<1>3. "reserved" \notin Used
  BY DEF Used
<1>4. CallsUsed(w, kind)' = CallsUsed(w, kind)
  BY <1>1, <1>2, <1>3 DEF CallsUsed, CallsOf, Used
<1>5. ModelSteps(w)' \subseteq ModelSteps(w)
  BY <1>1, <1>2 DEF ModelSteps, CallsOf
<1>. QED
  BY <1>4, <1>5

\* The calls that count, after a dispatch.
LEMMA DispatchSets ==
  ASSUME OrchTypeOK, NEW c, Starting(c), NEW w, NEW kind
  PROVE  /\ CallsUsed(w, kind)' =
              IF c.work = w /\ c.kind = kind THEN CallsUsed(w, kind) \cup {c} ELSE CallsUsed(w, kind)
         /\ ModelSteps(w)' =
              IF c.work = w /\ c.kind = "model" THEN ModelSteps(w) \cup {c} ELSE ModelSteps(w)
         /\ c \notin CallsUsed(w, kind)
<1>1. /\ c \in DOMAIN calls /\ calls[c].state = "reserved" /\ DOMAIN calls' = DOMAIN calls
      /\ calls'[c].state = "dispatched" /\ calls'[c].work = c.work /\ calls[c].work = c.work
      /\ \A d \in DOMAIN calls \ {c} : calls'[d] = calls[d]
  BY DEF Starting, OnlyCall, OrchTypeOK
<1>2. \A d \in DOMAIN calls : d \in CallsOf(w)' <=> d \in CallsOf(w)
  BY <1>1 DEF CallsOf
<1>3. CallsOf(w) \subseteq DOMAIN calls /\ CallsOf(w)' \subseteq DOMAIN calls
      /\ (c \in CallsOf(w) <=> c.work = w)
  BY <1>1 DEF CallsOf
<1>4. c \notin CallsUsed(w, kind) /\ c \notin ModelSteps(w)
  BY <1>1 DEF CallsUsed, Used, ModelSteps
<1>5. \A d : d \in CallsUsed(w, kind)' <=>
               d \in CallsUsed(w, kind) \/ (d = c /\ c.work = w /\ c.kind = kind)
  BY <1>1, <1>2, <1>3 DEF CallsUsed, Used
<1>6. \A d : d \in ModelSteps(w)' <=>
               d \in ModelSteps(w) \/ (d = c /\ c.work = w /\ c.kind = "model")
  BY <1>1, <1>2, <1>3 DEF ModelSteps
<1>. QED
  BY <1>4, <1>5, <1>6

\* Rejections and decompositions are recorded by the transactions of their name.
LEMMA Decided ==
  ASSUME TreeInv, OrchTypeOK, OrchStep, NEW e \in {"rejected", "decompose"}
  PROVE  \/ e = "rejected" /\ \E c \in DOMAIN calls : Rejecting(c)
         \/ e = "decompose" /\ \E c \in DOMAIN calls : \E kids : Admitting(c, kids)
         \/ \A w \in DOMAIN work : RuledAs(w, e)' = RuledAs(w, e)
<1>1. ASSUME UNCHANGED rulings PROVE \A w \in DOMAIN work : RuledAs(w, e)' = RuledAs(w, e)
  BY <1>1 DEF RuledAs
<1>2. ASSUME NEW c, NEW d, Rules(c, d), d # e
      PROVE  \A w \in DOMAIN work : RuledAs(w, e)' = RuledAs(w, e)
  BY <1>2, RuledSets DEF RuledAs
<1>3. CASE Silent
  BY <1>1, <1>3 DEF Silent
<1>4. ASSUME NEW c \in DOMAIN calls, Rejecting(c), e # "rejected"
      PROVE  \A w \in DOMAIN work : RuledAs(w, e)' = RuledAs(w, e)
  <2>1. Rules(c, "rejected")
    BY <1>4 DEF Rejecting
  <2>. QED
    BY <1>2, <1>4, <2>1
<1>5. ASSUME NEW c \in DOMAIN calls, Abstaining(c)
      PROVE  \A w \in DOMAIN work : RuledAs(w, e)' = RuledAs(w, e)
  <2>1. Rules(c, "abstain")
    BY <1>5 DEF Abstaining
  <2>. QED
    BY <1>2, <2>1
<1>6. ASSUME NEW c, NEW s, NEW m, NEW t, ReservingTool(c, s, m, t)
      PROVE  \A w \in DOMAIN work : RuledAs(w, e)' = RuledAs(w, e)
  <2>1. Rules(s, "tool")
    BY <1>6 DEF ReservingTool
  <2>. QED
    BY <1>2, <2>1
<1>7. ASSUME NEW w, NEW kind, NEW c \in DOMAIN calls, NEW lineage, NEW accepted,
             Deriving(w, kind, c, lineage, accepted)
      PROVE  \A v \in DOMAIN work : RuledAs(v, e)' = RuledAs(v, e)
  <2>1. Rules(c, "submit") \/ UNCHANGED rulings
    BY <1>7 DEF Deriving, Derives
  <2>. QED
    BY <1>1, <1>2, <2>1
<1>8. ASSUME NEW c \in DOMAIN calls, NEW kids, Admitting(c, kids), e # "decompose"
      PROVE  \A w \in DOMAIN work : RuledAs(w, e)' = RuledAs(w, e)
  <2>1. Rules(c, "decompose")
    BY <1>8 DEF Admitting, Admits
  <2>. QED
    BY <1>2, <1>8, <2>1
<1>9. ASSUME NEW c \in DOMAIN calls,
             Starting(c) \/ \E o, answer : Answering(c, o, answer)
      PROVE  \A w \in DOMAIN work : RuledAs(w, e)' = RuledAs(w, e)
  BY <1>1, <1>9 DEF Starting, Answering
<1>10. ASSUME NEW c, ReservingModel(c)
       PROVE  \A w \in DOMAIN work : RuledAs(w, e)' = RuledAs(w, e)
  BY <1>1, <1>10 DEF ReservingModel
<1>11. ASSUME NEW c \in DOMAIN calls, Repeating(c)
      PROVE  \A w \in DOMAIN work : RuledAs(w, e)' = RuledAs(w, e)
  <2>1. Rules(c, "tool")
    BY <1>11 DEF Repeating
  <2>. QED
    BY <1>2, <2>1
<1>. QED
  BY <1>3, <1>4, <1>5, <1>6, <1>7, <1>8, <1>9, <1>10, <1>11 DEF OrchStep

\* Calls of distinct steps below n are at most n.
LEMMA DistinctSteps ==
  ASSUME NEW S, NEW n \in Nat, \A c \in S : c.step \in Nat /\ c.step < n,
         \A c, d \in S : c.step = d.step => c = d
  PROVE  Cardinality(S) <= n
<1>. DEFINE T == 0 .. n - 1
            f == [c \in S |-> c.step]
<1>1. IsFiniteSet(T) /\ Cardinality(T) = n
  BY FS_Interval
<1>2. f \in [S -> T] /\ \A c, d \in S : f[c] = f[d] => c = d
  OBVIOUS
<1>3. f \in Injection(S, T)
  BY <1>2 DEF Injection, IsInjective
<1>. HIDE DEF f, T
<1>4. Cardinality(S) <= Cardinality(T)
  BY <1>1, <1>3, FS_Injection
<1>. QED
  BY <1>1, <1>4
\* What an admission of children writes.
Grown(w, kids) ==
  /\ w \in DOMAIN work /\ work[w].status = "leased"
  /\ DOMAIN work' = DOMAIN work \cup DOMAIN kids
  /\ DOMAIN kids \cap DOMAIN work = {}
  /\ UNCHANGED <<calls, artifacts>>
  /\ \A k \in DOMAIN kids : meta'[k].parent = w
  /\ DOMAIN kids \subseteq work'[w].dependencies
  /\ \A v \in DOMAIN work \ {w} : meta'[v] = meta[v]
  /\ meta'[w].caps = Less(meta[w].caps, Given(OfferOf(w, kids)))
  /\ \A k \in DOMAIN kids : tasks'[k] = ChildTask(tasks[w], kids[k])
  /\ Narrow(tasks[w], kids)
  /\ KeepsReserve(w, Given(OfferOf(w, kids)))

\* admit_children, in one piece.
LEMMA AdmittedChildren ==
  ASSUME TreeInv, OrchTypeOK, NEW c, NEW kids, Admitting(c, kids)
  PROVE  /\ Grown(c.work, kids) /\ Rules(c, "decompose")
         /\ Valid(OfferOf(c.work, kids))
<1>1. PICK l \in granted :
        /\ Valid(OfferOf(l.work, kids))
        /\ Decompose(l, OfferOf(l.work, kids))
        /\ Admits(l.work, c, kids)
  BY DEF Admitting
<1>. DEFINE w == l.work
            offer == OfferOf(w, kids)
<1>2. DOMAIN offer = DOMAIN kids
  BY DEF OfferOf
<1>3. Valid(offer) /\ Decompose(l, offer)
  BY <1>1
<1>. HIDE DEF offer
<1>4. /\ UNCHANGED <<calls, artifacts>>
      /\ DOMAIN work' = DOMAIN work \cup DOMAIN kids
      /\ \A k \in DOMAIN kids : meta'[k].parent = w
      /\ DOMAIN kids \subseteq work'[w].dependencies
      /\ \A v \in DOMAIN work \ {w} : meta'[v] = meta[v]
      /\ meta'[w].caps = Less(meta[w].caps, Given(offer))
  BY <1>2, <1>3, SplitFrame
<1>5. /\ w \in DOMAIN work /\ work[w].status = "leased" /\ c.work = w
      /\ DOMAIN kids \cap DOMAIN work = {}
      /\ \A k \in DOMAIN kids : tasks'[k] = ChildTask(tasks[w], kids[k])
      /\ Narrow(tasks[w], kids)
      /\ KeepsReserve(w, Given(offer))
      /\ Rules(c, "decompose")
  BY <1>1 DEF Admits, offer
<1>6. Grown(w, kids)
  BY <1>4, <1>5 DEF Grown, offer
<1>. QED
  BY <1>3, <1>5, <1>6 DEF offer

\* No call is reserved for a step the task does not have.
LEMMA StepsKept ==
  ASSUME TreeInv, OrchTypeOK, StepsDeclared, OrchStep, TablesKept, OrchTypeOK'
  PROVE  StepsDeclared'
<1>1. \A c \in DOMAIN calls : c.work \in DOMAIN tasks
  BY DEF TreeInv, LedgerInv, TypeOK, OrchTypeOK
<1>2. \A c \in DOMAIN calls : c.kind = "model" => c.step < tasks'[c.work].steps
  BY <1>1 DEF StepsDeclared, TablesKept
<1>3. CASE DOMAIN calls' = DOMAIN calls
  BY <1>2, <1>3 DEF StepsDeclared
<1>4. ASSUME NEW c \in CallId, NEW b, Reserving(c, b),
             c.kind = "model" => c.step < tasks[c.work].steps
      PROVE  StepsDeclared'
  <2>1. DOMAIN calls' = DOMAIN calls \cup {c} /\ c.work \in DOMAIN tasks
    BY <1>4, ReservedCall DEF Reserving, OrchTypeOK
  <2>2. c.kind = "model" => c.step < tasks'[c.work].steps
    BY <1>4, <2>1 DEF TablesKept
  <2>. QED
    BY <1>2, <2>1, <2>2 DEF StepsDeclared
<1>5. ASSUME NEW c \in CallId,
             ReservingModel(c) \/ \E s, m \in DOMAIN answers, t \in Tool : ReservingTool(c, s, m, t)
      PROVE  StepsDeclared'
  <2>1. \E b : Reserving(c, b)
    BY <1>5 DEF ReservingModel, ReservingTool
  <2>2. c.kind = "model" => c.step < tasks[c.work].steps
    BY <1>5 DEF ReservingModel, ReservingTool
  <2>. QED
    BY <1>4, <2>1, <2>2
<1>. QED
  BY <1>3, <1>5, NewCalls

\* A parent depends on its children from the transaction that admits them.
LEMMA AwaitedKept ==
  ASSUME TreeInv, OrchTypeOK, ChildrenAwaited, OrchStep, Frame
  PROVE  ChildrenAwaited'
<1>1. /\ DOMAIN meta = DOMAIN work /\ DOMAIN meta' = DOMAIN work'
      /\ \A w \in DOMAIN work : meta[w].parent \in DOMAIN work \cup {None}
  BY DEF Frame, TreeInv, PlatformTypeOK
<1>2. ASSUME NEW k \in DOMAIN work, meta'[k].parent # None
      PROVE  k \in work'[meta'[k].parent].dependencies
  <2>1. meta'[k].parent = meta[k].parent /\ meta[k].parent \in DOMAIN work
    BY <1>1, <1>2 DEF Frame
  <2>2. k \in work[meta[k].parent].dependencies
    BY <1>1, <1>2, <2>1 DEF ChildrenAwaited
  <2>. QED
    BY <2>1, <2>2 DEF Frame
<1>3. CASE DOMAIN work' = DOMAIN work
  BY <1>1, <1>2, <1>3 DEF ChildrenAwaited
<1>4. ASSUME NEW c \in DOMAIN calls, NEW kids, Admitting(c, kids)
      PROVE  ChildrenAwaited'
  <2>1. Grown(c.work, kids)
    BY <1>4, AdmittedChildren
  <2>2. ASSUME NEW k \in DOMAIN kids
        PROVE  k \in work'[meta'[k].parent].dependencies
    BY <2>1 DEF Grown
  <2>3. DOMAIN work' = DOMAIN work \cup DOMAIN kids
    BY <2>1 DEF Grown
  <2>. QED
    BY <1>1, <1>2, <2>2, <2>3 DEF ChildrenAwaited
<1>. QED
  BY <1>3, <1>4, NewWork

\* Children stay children.
LEMMA ChildrenGrow ==
  ASSUME TreeInv, Frame, NEW w
  PROVE  Children(w) \subseteq Children(w)'
BY DEF Children, Frame, TreeInv, PlatformTypeOK

\* A child declared within its parent stays so: what is declared does not change.
LEMMA NarrowerKept ==
  ASSUME TreeInv, OrchTypeOK, ChildrenNarrower, OrchStep, Frame, TablesKept, OrchTypeOK'
  PROVE  ChildrenNarrower'
<1>. DEFINE Within(k, p) ==
              /\ tasks'[k].tools \subseteq tasks'[p].tools
              /\ tasks'[k].agents = tasks'[p].agents
              /\ tasks'[k].steps <= tasks'[p].steps /\ tasks'[k].toolCalls <= tasks'[p].toolCalls
              /\ tasks'[k].reads \subseteq tasks'[p].reads \cup Children(p)'
              /\ tasks'[k].maxChildren = 0
<1>1. /\ DOMAIN meta = DOMAIN work /\ DOMAIN meta' = DOMAIN work'
      /\ \A w \in DOMAIN work : meta[w].parent \in DOMAIN work \cup {None}
      /\ DOMAIN tasks = DOMAIN work /\ DOMAIN tasks' = DOMAIN work'
  BY DEF Frame, TreeInv, PlatformTypeOK, OrchTypeOK
<1>2. ASSUME NEW k \in DOMAIN work, NEW p, p = meta'[k].parent, p # None
      PROVE  Within(k, p)
  <2>1. p = meta[k].parent /\ p \in DOMAIN work
    BY <1>1, <1>2 DEF Frame
  <2>2. /\ tasks[k].tools \subseteq tasks[p].tools
        /\ tasks[k].agents = tasks[p].agents
        /\ tasks[k].steps <= tasks[p].steps /\ tasks[k].toolCalls <= tasks[p].toolCalls
        /\ tasks[k].reads \subseteq tasks[p].reads \cup Children(p)
        /\ tasks[k].maxChildren = 0
    BY <1>1, <1>2, <2>1 DEF ChildrenNarrower
  <2>3. tasks'[k] = tasks[k] /\ tasks'[p] = tasks[p]
    BY <1>1, <2>1 DEF TablesKept
  <2>4. Children(p) \subseteq Children(p)'
    BY ChildrenGrow
  <2>. QED
    BY <2>2, <2>3, <2>4
<1>3. ASSUME \A k \in DOMAIN work' : \A p : p = meta'[k].parent /\ p # None => Within(k, p)
      PROVE  ChildrenNarrower'
  BY <1>1, <1>3 DEF ChildrenNarrower, Children
<1>4. CASE DOMAIN work' = DOMAIN work
  BY <1>2, <1>3, <1>4
<1>5. ASSUME NEW c \in DOMAIN calls, NEW kids, Admitting(c, kids)
      PROVE  ChildrenNarrower'
  <2>. DEFINE w == c.work
  <2>1. Grown(w, kids)
    BY <1>5, AdmittedChildren
  <2>2. ASSUME NEW k \in DOMAIN kids PROVE Within(k, w)
    <3>1. /\ tasks'[w] = tasks[w] /\ tasks'[k] = ChildTask(tasks[w], kids[k])
          /\ DOMAIN kids \subseteq DOMAIN meta'
          /\ \A j \in DOMAIN kids : meta'[j].parent = w
      BY <1>1, <2>1 DEF Grown, TablesKept
    <3>2. /\ kids[k].steps <= tasks[w].steps /\ kids[k].toolCalls <= tasks[w].toolCalls
          /\ kids[k].tools \subseteq tasks[w].tools
          /\ kids[k].dependencies \subseteq DOMAIN kids
          /\ kids[k].reads \subseteq tasks[w].reads \cup kids[k].dependencies
      BY <2>1 DEF Grown, Narrow
    <3>3. DOMAIN kids \subseteq Children(w)'
      BY <3>1 DEF Children
    <3>4. /\ tasks'[k].tools = kids[k].tools /\ tasks'[k].agents = tasks[w].agents
          /\ tasks'[k].steps = kids[k].steps /\ tasks'[k].toolCalls = kids[k].toolCalls
          /\ tasks'[k].reads = kids[k].reads /\ tasks'[k].maxChildren = 0
      BY <3>1 DEF ChildTask
    <3>. QED
      BY <3>1, <3>2, <3>3, <3>4
  <2>3. DOMAIN work' = DOMAIN work \cup DOMAIN kids /\ \A k \in DOMAIN kids : meta'[k].parent = w
    BY <2>1 DEF Grown
  <2>. HIDE DEF w, Within
  <2>. QED
    BY <1>2, <1>3, <2>2, <2>3
<1>. QED
  BY <1>4, <1>5, NewWork
\* New work has no calls; old work keeps its declaration.
LEMMA OldOrIdle ==
  ASSUME TreeInv, OrchTypeOK, TablesKept, OrchTypeOK', NEW w \in DOMAIN tasks'
  PROVE  /\ tasks'[w] \in TaskRow
         /\ \/ w \in DOMAIN tasks /\ w \in DOMAIN work /\ tasks'[w] = tasks[w]
            \/ w \notin DOMAIN work /\ CallsOf(w) = {}
<1>1. /\ DOMAIN tasks = DOMAIN work /\ DOMAIN tasks' = DOMAIN work'
      /\ \A v \in DOMAIN work' : tasks'[v] \in TaskRow
  BY DEF OrchTypeOK
<1>2. \A c \in DOMAIN calls : calls[c].work \in DOMAIN work
  BY DEF TreeInv, LedgerInv, TypeOK
<1>3. w \notin DOMAIN work => CallsOf(w) = {}
  BY <1>2 DEF CallsOf
<1>. QED
  BY <1>1, <1>3 DEF TablesKept

\* No step twice: dispatch looks again at what is open or settled.
LEMMA StepsDistinct ==
  ASSUME TreeInv, OrchTypeOK, LimitsKept, OrchStep, Frame, TablesKept, OrchTypeOK',
         NEW w \in DOMAIN tasks'
  PROVE  \A c, d \in ModelSteps(w)' : c.step = d.step => c = d
<1>1. \A c, d \in ModelSteps(w) : c.step = d.step => c = d
  <2>1. CASE w \in DOMAIN tasks
    <3>1. ModelSteps(w) = CallsUsed(w, "model") \ {c \in DOMAIN calls : calls[c].state = "response_rejected"}
      BY DEF ModelSteps, CallsUsed, Used, CallsOf
    <3>. QED
      BY <2>1, <3>1 DEF LimitsKept
  <2>2. CASE CallsOf(w) = {}
    BY <2>2 DEF ModelSteps
  <2>. QED
    BY <2>1, <2>2, OldOrIdle
<1>2. ASSUME ~ \E c \in DOMAIN calls : Starting(c)
      PROVE  ModelSteps(w)' \subseteq ModelSteps(w)
  BY <1>2, QuietSets DEF Frame
<1>3. ASSUME NEW c \in DOMAIN calls, Starting(c), c.work = w, c.kind = "model"
      PROVE  \A d \in ModelSteps(w) : c.step = d.step => c = d
  <2>1. AdmitModel(c)
    BY <1>3 DEF Starting
  <2>. QED
    BY <1>3, <2>1 DEF AdmitModel, ModelSteps
<1>4. ASSUME NEW c \in DOMAIN calls, Starting(c)
      PROVE  \A b, d \in ModelSteps(w)' : b.step = d.step => b = d
  <2>1. ModelSteps(w)' =
          IF c.work = w /\ c.kind = "model" THEN ModelSteps(w) \cup {c} ELSE ModelSteps(w)
    BY <1>4, DispatchSets
  <2>. QED
    BY <1>1, <1>3, <1>4, <2>1
<1>. QED
  BY <1>1, <1>2, <1>4

\* Tool calls are counted at dispatch.
LEMMA ToolsCounted ==
  ASSUME TreeInv, OrchTypeOK, LimitsKept, OrchStep, Frame, TablesKept, OrchTypeOK',
         NEW w \in DOMAIN tasks'
  PROVE  Cardinality(CallsUsed(w, "tool")') <= tasks'[w].toolCalls
<1>1. TypeOK
  BY DEF TreeInv, LedgerInv
<1>2. IsFiniteSet(CallsUsed(w, "tool"))
  BY <1>1, FiniteCallsOf, FS_Subset DEF CallsUsed
<1>3. Cardinality(CallsUsed(w, "tool")) \in Nat
  BY <1>2, FS_CardinalityType
<1>4. tasks'[w].toolCalls \in Nat
  BY OldOrIdle DEF TaskRow
<1>5. Cardinality(CallsUsed(w, "tool")) <= tasks'[w].toolCalls
  <2>1. CASE w \in DOMAIN tasks /\ tasks'[w] = tasks[w]
    BY <2>1 DEF LimitsKept
  <2>2. CASE CallsOf(w) = {}
    <3>1. CallsUsed(w, "tool") = {}
      BY <2>2 DEF CallsUsed
    <3>. QED
      BY <1>4, <3>1, FS_EmptySet
  <2>. QED
    BY <2>1, <2>2, OldOrIdle
<1>6. CASE ~ \E c \in DOMAIN calls : Starting(c)
  <2>1. CallsUsed(w, "tool")' = CallsUsed(w, "tool")
    BY <1>6, QuietSets DEF Frame
  <2>. QED
    BY <1>5, <2>1
<1>7. ASSUME NEW c \in DOMAIN calls, Starting(c)
      PROVE  Cardinality(CallsUsed(w, "tool")') <= tasks'[w].toolCalls
  <2>1. /\ CallsUsed(w, "tool")' =
             IF c.work = w /\ c.kind = "tool" THEN CallsUsed(w, "tool") \cup {c}
             ELSE CallsUsed(w, "tool")
        /\ c \notin CallsUsed(w, "tool")
    BY <1>7, DispatchSets
  <2>2. CASE c.work = w /\ c.kind = "tool"
    <3>1. AdmitTool(c, bindings[c]) /\ w \in DOMAIN tasks
      BY <1>7, <2>2 DEF Starting, OrchTypeOK
    <3>2. CallsUsed(w, "tool") \ {c} = CallsUsed(w, "tool") /\ tasks'[w] = tasks[w]
      BY <2>1, <3>1 DEF TablesKept
    <3>3. Cardinality(CallsUsed(w, "tool") \ {c}) < tasks[w].toolCalls
      BY <2>2, <3>1 DEF AdmitTool
    <3>. DEFINE S == CallsUsed(w, "tool")
                n == tasks'[w].toolCalls
    <3>4. CallsUsed(w, "tool")' = S \cup {c}
      BY <2>1, <2>2
    <3>5. /\ IsFiniteSet(S) /\ Cardinality(S) \in Nat /\ n \in Nat
          /\ c \notin S /\ Cardinality(S) < n
      BY <1>2, <1>3, <1>4, <2>1, <3>2, <3>3
    <3>. HIDE DEF S, n
    <3>6. Cardinality(S \cup {c}) = Cardinality(S) + 1
      BY <3>5, FS_AddElement
    <3>7. Cardinality(S \cup {c}) <= n
      BY <3>5, <3>6
    <3>. QED
      BY <3>4, <3>7 DEF n
  <2>3. CASE ~(c.work = w /\ c.kind = "tool")
    BY <1>5, <2>1, <2>3
  <2>. QED
    BY <2>2, <2>3
<1>. QED
  BY <1>6, <1>7

\* Rejections are counted before one more is recorded.
LEMMA RejectionsCounted ==
  ASSUME TreeInv, OrchTypeOK, LimitsKept, OrchStep, TablesKept, RulingsKept, OrchTypeOK',
         NEW w \in DOMAIN tasks'
  PROVE  Cardinality(RuledAs(w, "rejected")') <= tasks'[w].rejections
<1>1. tasks'[w].rejections \in Nat
  BY OldOrIdle DEF TaskRow
<1>2. CASE w \notin DOMAIN work
  <2>1. rulings'[w] = <<>>
    <3>1. w \in DOMAIN work'
      BY DEF OrchTypeOK
    <3>. QED
      BY <1>2, <3>1 DEF RulingsKept, Rules
  <2>2. RuledAs(w, "rejected")' = {}
    BY <2>1 DEF RuledAs
  <2>. QED
    BY <1>1, <2>2, FS_EmptySet
<1>3. CASE w \in DOMAIN work
  <2>1. tasks'[w] = tasks[w] /\ w \in DOMAIN tasks
    BY <1>3, OldOrIdle
  <2>2. Cardinality(RuledAs(w, "rejected")) <= tasks[w].rejections
    BY <2>1 DEF LimitsKept
  <2>3. CASE RuledAs(w, "rejected")' = RuledAs(w, "rejected")
    BY <2>1, <2>2, <2>3
  <2>4. ASSUME NEW c \in DOMAIN calls, Rejecting(c)
        PROVE  Cardinality(RuledAs(w, "rejected")') <= tasks'[w].rejections
    <3>1. Rules(c, "rejected") /\ Cardinality(RuledAs(c.work, "rejected")) < tasks[c.work].rejections
      BY <2>4 DEF Rejecting
    <3>2. /\ \A v \in DOMAIN work : v # c.work => RuledAs(v, "rejected")' = RuledAs(v, "rejected")
          /\ RuledAs(c.work, "rejected")' =
               RuledAs(c.work, "rejected") \cup {Len(rulings[c.work]) + 1}
      BY <3>1, RuledSets
    <3>3. CASE w # c.work
      <4>1. RuledAs(w, "rejected")' = RuledAs(w, "rejected")
        BY <1>3, <3>2, <3>3 DEF RuledAs
      <4>. QED
        BY <2>1, <2>2, <4>1
    <3>4. CASE w = c.work
      <4>. DEFINE S == RuledAs(c.work, "rejected")
                  n == Len(rulings[c.work]) + 1
      <4>1. RuledAs(w, "rejected")' = S \cup {n}
        BY <3>2, <3>4 DEF RuledAs
      <4>2. IsFiniteSet(S) /\ Cardinality(S) \in Nat
        BY <1>3, <3>4, FiniteRulings
      <4>3. Cardinality(S) < tasks'[w].rejections
        BY <2>1, <3>1, <3>4
      <4>. HIDE DEF S, n
      <4>4. Cardinality(S \cup {n}) <= Cardinality(S) + 1
        BY <4>2, FS_AddElement
      <4>5. IsFiniteSet(S \cup {n}) /\ Cardinality(S \cup {n}) \in Nat
        BY <4>2, FS_AddElement, FS_CardinalityType
      <4>6. Cardinality(S \cup {n}) <= tasks'[w].rejections
        BY <1>1, <4>2, <4>3, <4>4, <4>5
      <4>. QED
        BY <4>1, <4>6
    <3>. QED
      BY <3>3, <3>4
  <2>5. (\E c \in DOMAIN calls : Rejecting(c)) \/ RuledAs(w, "rejected")' = RuledAs(w, "rejected")
    <3>1. \/ \E c \in DOMAIN calls : Rejecting(c)
          \/ \A v \in DOMAIN work : RuledAs(v, "rejected")' = RuledAs(v, "rejected")
      BY Decided DEF RuledAs
    <3>. QED
      BY <1>3, <3>1 DEF RuledAs
  <2>. QED
    BY <2>3, <2>4, <2>5
<1>. QED
  BY <1>2, <1>3

\* The declared limits, whatever was lost, late or tried again.
LEMMA LimitsStay ==
  ASSUME TreeInv, OrchTypeOK, LimitsKept, OrchStep, Frame, TablesKept, RulingsKept,
         OrchTypeOK', StepsDeclared'
  PROVE  LimitsKept'
<1>1. ASSUME NEW w \in DOMAIN tasks'
      PROVE  Cardinality(ModelSteps(w)') <= tasks'[w].steps
  <2>1. tasks'[w].steps \in Nat
    BY <1>1, OldOrIdle DEF TaskRow
  <2>2. \A c \in ModelSteps(w)' : c \in DOMAIN calls' /\ c.kind = "model" /\ c.work = w
    BY DEF ModelSteps, CallsOf, OrchTypeOK
  <2>3. \A c \in ModelSteps(w)' : c.step \in Nat /\ c.step < tasks'[w].steps
    <3>1. DOMAIN calls' \subseteq CallId
      BY DEF Frame, TreeInv, LedgerInv, TypeOK
    <3>. QED
      BY <2>2, <3>1, WorkflowAssumption DEF StepsDeclared
  <2>4. \A c, d \in ModelSteps(w)' : c.step = d.step => c = d
    BY <1>1, StepsDistinct
  <2>. DEFINE S == ModelSteps(w)'
              n == tasks'[w].steps
  <2>5. /\ n \in Nat /\ \A c \in S : c.step \in Nat /\ c.step < n
        /\ \A c, d \in S : c.step = d.step => c = d
    BY <2>1, <2>3, <2>4
  <2>. HIDE DEF S, n
  <2>6. Cardinality(S) <= n
    BY <2>5, DistinctSteps
  <2>. QED
    BY <2>6 DEF S, n
<1>2. ASSUME NEW w
      PROVE  (CallsUsed(w, "model") \ {c \in DOMAIN calls : calls[c].state = "response_rejected"})'
               = ModelSteps(w)'
  BY DEF ModelSteps, CallsUsed, Used, CallsOf
<1>3. ASSUME NEW w \in DOMAIN tasks'
      PROVE  /\ \A c, d \in ModelSteps(w)' : c.step = d.step => c = d
             /\ Cardinality(CallsUsed(w, "tool")') <= tasks'[w].toolCalls
             /\ Cardinality(RuledAs(w, "rejected")') <= tasks'[w].rejections
  BY StepsDistinct, ToolsCounted, RejectionsCounted
<1>. QED
  BY <1>1, <1>2, <1>3 DEF LimitsKept
-----------------------------------------------------------------------------
\* The reserve of a join

\* The reserve of w survives: what ParentCanJoin says of it.
JoinReserved(w) ==
  /\ tasks[w].steps - Cardinality(CallsUsed(w, "model")) >= tasks[w].reserve.steps
  /\ meta[w].caps.calls - Cardinality(CallsOf(w)) >= tasks[w].reserve.calls
  /\ meta[w].caps.tokens - SpentOn(w) >= tasks[w].reserve.tokens

\* The numbers it is about.
LEMMA ReserveTyped ==
  ASSUME TreeInv, OrchTypeOK, NEW w \in DOMAIN work
  PROVE  /\ tasks[w].steps \in Nat /\ tasks[w].reserve \in [steps : Nat, calls : Nat, tokens : Nat]
         /\ meta[w].caps.calls \in Nat /\ meta[w].caps.tokens \in Nat
         /\ Cardinality(CallsOf(w)) \in Nat /\ SpentOn(w) \in Nat
         /\ Cardinality(CallsUsed(w, "model")) \in Nat
<1>1. TypeOK
  BY DEF TreeInv, LedgerInv
<1>2. tasks[w] \in TaskRow /\ meta[w] \in MetaRow
  BY DEF TreeInv, PlatformTypeOK, OrchTypeOK
<1>3. IsFiniteSet(CallsUsed(w, "model"))
  BY <1>1, FiniteCallsOf, FS_Subset DEF CallsUsed
<1>. QED
  BY <1>1, <1>2, <1>3, SpentNat, FS_CardinalityType DEF TaskRow, MetaRow, Caps

\* What is given away was set against the reserve.
LEMMA AdmittedReserve ==
  ASSUME TreeInv, OrchTypeOK, TablesKept, NEW c \in DOMAIN calls, NEW kids, Admitting(c, kids)
  PROVE  JoinReserved(c.work)'
<1>. DEFINE w == c.work
            gift == Given(OfferOf(w, kids))
<1>1. Grown(w, kids) /\ Valid(OfferOf(w, kids))
  BY AdmittedChildren
<1>2. gift.calls \in Nat /\ gift.tokens \in Nat
  BY <1>1, GivenNat
<1>3. /\ w \in DOMAIN work /\ UNCHANGED calls
      /\ meta'[w].caps = Less(meta[w].caps, gift)
      /\ KeepsReserve(w, gift)
  BY <1>1 DEF Grown
<1>4. tasks'[w] = tasks[w]
  BY <1>3 DEF TablesKept, OrchTypeOK
<1>5. /\ CallsOf(w)' = CallsOf(w)
      /\ CallsUsed(w, "model")' = CallsUsed(w, "model")
      /\ SpentOn(w)' = SpentOn(w)
  BY <1>3 DEF CallsOf, CallsUsed, SpentOn
<1>6. meta'[w].caps.calls = meta[w].caps.calls - gift.calls
  BY <1>3 DEF Less
<1>7. meta'[w].caps.tokens = meta[w].caps.tokens - gift.tokens
  BY <1>3 DEF Less
<1>. HIDE DEF gift, w
<1>8. /\ tasks[w].steps \in Nat /\ tasks[w].reserve \in [steps : Nat, calls : Nat, tokens : Nat]
      /\ meta[w].caps.calls \in Nat /\ meta[w].caps.tokens \in Nat
      /\ Cardinality(CallsOf(w)) \in Nat /\ SpentOn(w) \in Nat
      /\ Cardinality(CallsUsed(w, "model")) \in Nat
  BY <1>3, ReserveTyped
<1>9. tasks[w].steps - Cardinality(CallsUsed(w, "model")) >= tasks[w].reserve.steps
  BY <1>3 DEF KeepsReserve
<1>10. meta[w].caps.calls - gift.calls - Cardinality(CallsOf(w)) >= tasks[w].reserve.calls
  <2>1. meta[w].caps.calls - Cardinality(CallsOf(w)) - gift.calls >= tasks[w].reserve.calls
    BY <1>3 DEF KeepsReserve
  <2>. QED
    BY <1>2, <1>8, <2>1
<1>11. meta[w].caps.tokens - gift.tokens - SpentOn(w) >= tasks[w].reserve.tokens
  <2>1. meta[w].caps.tokens - SpentOn(w) - gift.tokens >= tasks[w].reserve.tokens
    BY <1>3 DEF KeepsReserve
  <2>. QED
    BY <1>2, <1>8, <2>1
<1>12. JoinReserved(w)'
  BY <1>4, <1>5, <1>6, <1>7, <1>9, <1>10, <1>11 DEF JoinReserved
<1>. QED
  BY <1>12 DEF w, JoinReserved, CallsOf, CallsUsed, SpentOn

\* Work that waits for a child is not leased, so nothing is started on it.
LEMMA WaitingNotLeased ==
  ASSUME TreeInv, ChildrenAwaited, NEW w \in DOMAIN work, ~(Children(w) \subseteq DOMAIN artifacts)
  PROVE  work[w].status # "leased"
<1>1. Children(w) \subseteq work[w].dependencies
  <2>1. w # None
    BY DeclarationAssumption DEF TreeInv, LedgerInv, TypeOK
  <2>. QED
    BY <2>1 DEF Children, ChildrenAwaited
<1>. QED
  BY <1>1 DEF TreeInv, LedgerInv, HeldOverArtifacts

\* And so it spends nothing.
LEMMA WaitingSpendsNothing ==
  ASSUME TreeInv, OrchTypeOK, OrchTypeOK', TreeInv', CallsKept, OrchStep,
         NEW w \in DOMAIN work, work[w].status # "leased"
  PROVE  /\ CallsUsed(w, "model")' = CallsUsed(w, "model")
         /\ CallsOf(w)' = CallsOf(w)
         /\ SpentOn(w)' \in Nat /\ SpentOn(w)' <= SpentOn(w)
<1>1. TypeOK /\ TypeOK'
  BY DEF TreeInv, LedgerInv
<1>2. CallsUsed(w, "model")' = CallsUsed(w, "model")
  <2>1. CASE ~ \E c \in DOMAIN calls : Starting(c)
    BY <2>1, QuietSets
  <2>2. ASSUME NEW c \in DOMAIN calls, Starting(c)
        PROVE  CallsUsed(w, "model")' = CallsUsed(w, "model")
    <3>1. c.work # w
      BY <2>2 DEF Starting
    <3>. QED
      BY <2>2, <3>1, DispatchSets
  <2>. QED
    BY <2>1, <2>2
<1>3. CallsOf(w)' = CallsOf(w)
  <2>1. CASE DOMAIN calls' = DOMAIN calls
    BY <2>1 DEF CallsOf, CallsKept
  <2>2. ASSUME NEW c \in CallId, NEW b, Reserving(c, b)
        PROVE  CallsOf(w)' = CallsOf(w)
    <3>1. c.work # w /\ calls'[c].work = c.work
      BY <2>2 DEF Reserving, OnlyCall
    <3>2. DOMAIN calls' = DOMAIN calls \cup {c}
      BY <2>2, ReservedCall
    <3>. QED
      BY <3>1, <3>2 DEF CallsOf, CallsKept
  <2>3. ASSUME NEW c \in CallId,
               ReservingModel(c) \/ \E s, m \in DOMAIN answers, t \in Tool : ReservingTool(c, s, m, t)
        PROVE  CallsOf(w)' = CallsOf(w)
    <3>1. \E b : Reserving(c, b)
      BY <2>3 DEF ReservingModel, ReservingTool
    <3>. QED
      BY <2>2, <3>1
  <2>. QED
    BY <2>1, <2>3, NewCalls
<1>4. SpentOn(w)' \in Nat /\ SpentOn(w)' <= SpentOn(w)
  <2>. DEFINE f == [c \in CallsOf(w) |-> Charge(calls[c])]
              g == [c \in CallsOf(w) |-> Charge(calls'[c])]
  <2>1. CallsOf(w) \subseteq DOMAIN calls /\ CallsOf(w) \subseteq DOMAIN calls'
    BY <1>1, FiniteCallsOf DEF CallsKept
  <2>2. f \in [CallsOf(w) -> Nat] /\ g \in [CallsOf(w) -> Nat]
    BY <1>1, <2>1, ChargeNat DEF TypeOK
  <2>3. \A c \in CallsOf(w) : g[c] <= f[c]
    BY <2>1 DEF CallsKept
  <2>4. SpentOn(w) = SumFunction(f) /\ SpentOn(w)' = SumFunction(g)
    BY <1>3 DEF SpentOn
  <2>. HIDE DEF f, g
  <2>. QED
    BY <1>1, <2>2, <2>3, <2>4, FiniteCallsOf, TotalMonotone, TotalNat
<1>. QED
  BY <1>2, <1>3, <1>4

\* The promise of a join is kept while any child is out.
LEMMA JoinKept ==
  ASSUME TreeInv, OrchTypeOK, ChildrenAwaited, ParentCanJoin, OrchStep, Frame, TablesKept,
         RulingsKept, OrchTypeOK'
  PROVE  ParentCanJoin'
<1>1. /\ DOMAIN meta = DOMAIN work /\ DOMAIN meta' = DOMAIN work'
      /\ DOMAIN tasks = DOMAIN work /\ DOMAIN tasks' = DOMAIN work'
  BY DEF Frame, TreeInv, PlatformTypeOK, OrchTypeOK
<1>2. ASSUME \A w \in DOMAIN work' :
               RuledAs(w, "decompose")' # {} /\ ~(Children(w)' \subseteq DOMAIN artifacts')
                 => JoinReserved(w)'
      PROVE  ParentCanJoin'
  BY <1>1, <1>2 DEF ParentCanJoin, JoinReserved, RuledAs, Children, CallsOf, CallsUsed, SpentOn
<1>3. ASSUME NEW w \in DOMAIN work', RuledAs(w, "decompose")' # {}
      PROVE  w \in DOMAIN work
  <2>1. w \notin DOMAIN work => rulings'[w] = <<>>
    BY DEF RulingsKept, Rules
  <2>. QED
    BY <1>3, <2>1 DEF RuledAs
<1>4. ASSUME NEW w \in DOMAIN work, RuledAs(w, "decompose") # {},
             Children(w)' \subseteq Children(w), meta'[w] = meta[w],
             ~(Children(w)' \subseteq DOMAIN artifacts')
      PROVE  JoinReserved(w)'
  <2>1. ~(Children(w) \subseteq DOMAIN artifacts)
    BY <1>4 DEF Frame, ArtifactsKept
  <2>2. work[w].status # "leased"
    BY <2>1, WaitingNotLeased
  <2>3. JoinReserved(w)
    BY <1>1, <1>4, <2>1 DEF ParentCanJoin, JoinReserved
  <2>4. /\ CallsUsed(w, "model")' = CallsUsed(w, "model")
        /\ CallsOf(w)' = CallsOf(w)
        /\ SpentOn(w)' \in Nat /\ SpentOn(w)' <= SpentOn(w)
    BY <2>2, WaitingSpendsNothing DEF Frame
  <2>5. tasks'[w] = tasks[w]
    BY <1>1 DEF TablesKept
  <2>6. /\ tasks[w].reserve \in [steps : Nat, calls : Nat, tokens : Nat]
        /\ meta[w].caps.tokens \in Nat /\ SpentOn(w) \in Nat
    BY ReserveTyped
  <2>7. meta[w].caps.tokens - SpentOn(w)' >= tasks[w].reserve.tokens
    BY <2>3, <2>4, <2>6 DEF JoinReserved
  <2>8. /\ tasks[w].steps - Cardinality(CallsUsed(w, "model")) >= tasks[w].reserve.steps
        /\ meta[w].caps.calls - Cardinality(CallsOf(w)) >= tasks[w].reserve.calls
    BY <2>3 DEF JoinReserved
  <2>. QED
    BY <1>4, <2>4, <2>5, <2>7, <2>8 DEF JoinReserved
<1>5. CASE DOMAIN work' = DOMAIN work /\ UNCHANGED meta
  <2>1. ASSUME NEW w \in DOMAIN work, RuledAs(w, "decompose")' # {},
               ~ \E c \in DOMAIN calls : \E kids : Admitting(c, kids)
        PROVE  RuledAs(w, "decompose") # {}
    <3>1. \A v \in DOMAIN work : RuledAs(v, "decompose")' = RuledAs(v, "decompose")
      BY <2>1, Decided DEF RuledAs
    <3>. QED
      BY <2>1, <3>1 DEF RuledAs
  <2>2. ~ \E c \in DOMAIN calls : \E kids : Admitting(c, kids)
    <3>1. SUFFICES ASSUME NEW c \in DOMAIN calls, NEW kids, Admitting(c, kids) PROVE FALSE
      OBVIOUS
    <3>2. Grown(c.work, kids)
      BY <3>1, AdmittedChildren
    <3>3. DOMAIN kids # {}
      BY <3>1 DEF Admitting, Admits
    <3>. QED
      BY <1>5, <3>2, <3>3 DEF Grown
  <2>3. \A w : Children(w)' = Children(w)
    BY <1>5 DEF Children
  <2>4. ASSUME NEW w \in DOMAIN work', RuledAs(w, "decompose")' # {},
               ~(Children(w)' \subseteq DOMAIN artifacts')
        PROVE  JoinReserved(w)'
    <3>1. w \in DOMAIN work /\ RuledAs(w, "decompose") # {} /\ meta'[w] = meta[w]
      BY <1>5, <2>1, <2>2, <2>4
    <3>2. Children(w)' \subseteq Children(w)
      BY <1>5 DEF Children
    <3>. QED
      BY <1>4, <2>4, <3>1, <3>2
  <2>. QED
    BY <1>2, <2>4
<1>6. ASSUME NEW c \in DOMAIN calls, NEW kids, Admitting(c, kids)
      PROVE  ParentCanJoin'
  <2>1. Grown(c.work, kids) /\ Rules(c, "decompose")
    BY <1>6, AdmittedChildren
  <2>2. JoinReserved(c.work)'
    BY <1>6, AdmittedReserve
  <2>3. ASSUME NEW w \in DOMAIN work, w # c.work
        PROVE  /\ Children(w)' \subseteq Children(w)
               /\ meta'[w] = meta[w]
               /\ RuledAs(w, "decompose")' = RuledAs(w, "decompose")
    <3>1. Children(w)' \subseteq Children(w)
      <4>1. /\ DOMAIN work' = DOMAIN work \cup DOMAIN kids
            /\ \A k \in DOMAIN kids : meta'[k].parent = c.work
        BY <2>1 DEF Grown
      <4>2. \A k \in DOMAIN work : meta'[k].parent = meta[k].parent
        BY DEF Frame
      <4>. QED
        BY <1>1, <2>3, <4>1, <4>2 DEF Children
    <3>2. RuledAs(w, "decompose")' = RuledAs(w, "decompose")
      <4>1. rulings'[w] = rulings[w]
        BY <2>1, <2>3 DEF Rules
      <4>. QED
        BY <4>1 DEF RuledAs
    <3>. QED
      BY <2>1, <2>3, <3>1, <3>2 DEF Grown
  <2>4. ASSUME NEW w \in DOMAIN work', RuledAs(w, "decompose")' # {},
               ~(Children(w)' \subseteq DOMAIN artifacts')
        PROVE  JoinReserved(w)'
    <3>1. CASE w = c.work
      BY <2>2, <3>1 DEF JoinReserved, CallsOf, CallsUsed, SpentOn
    <3>2. CASE w # c.work
      <4>1. w \in DOMAIN work
        BY <1>3, <2>4
      <4>2. /\ Children(w)' \subseteq Children(w)
            /\ meta'[w] = meta[w]
            /\ RuledAs(w, "decompose")' = RuledAs(w, "decompose")
        BY <2>3, <3>2, <4>1
      <4>. QED
        BY <1>4, <2>4, <4>1, <4>2
    <3>. QED
      BY <3>1, <3>2
  <2>. QED
    BY <1>2, <2>4
<1>. QED
  BY <1>5, <1>6, NewWork
-----------------------------------------------------------------------------
\* Provenance

\* Derivations are recorded by publish_derived only.
LEMMA NewDerived ==
  ASSUME OrchStep
  PROVE  \/ UNCHANGED derived
         \/ \E c \in DOMAIN calls : \E w, kind, lineage, accepted :
              Deriving(w, kind, c, lineage, accepted)
<1>1. ASSUME NEW c, NEW b, Reserving(c, b) PROVE UNCHANGED derived
  BY <1>1 DEF Reserving
<1>2. ASSUME NEW c, NEW kids, Admitting(c, kids) PROVE UNCHANGED derived
  BY <1>2 DEF Admitting, Admits
<1>3. ASSUME NEW c, NEW s, NEW m, NEW t, ReservingModel(c) \/ ReservingTool(c, s, m, t)
      PROVE  UNCHANGED derived
  <2>1. \E b : Reserving(c, b)
    BY <1>3 DEF ReservingModel, ReservingTool
  <2>. QED
    BY <1>1, <2>1
<1>4. CASE \/ Silent
           \/ \E c \in DOMAIN calls : Rejecting(c) \/ Abstaining(c) \/ Repeating(c) \/ Starting(c)
  BY <1>4 DEF Silent, Rejecting, Abstaining, Repeating, IdleTables, Starting
<1>5. ASSUME NEW c, NEW o, NEW answer, Answering(c, o, answer) PROVE UNCHANGED derived
  BY <1>5 DEF Answering
<1>. QED
  BY <1>2, <1>3, <1>4, <1>5 DEF OrchStep

\* What is published is derived from settled receipts, and they do not change.
LEMMA ProvenanceKept ==
  ASSUME TreeInv, OrchTypeOK, DerivedFromReceipts, OrchStep, Frame, TablesKept, OrchTypeOK'
  PROVE  DerivedFromReceipts'
<1>. DEFINE Traced(w) ==
              /\ artifacts'[w].call \in derived'[w].lineage
              /\ \A c \in derived'[w].lineage : c \in DOMAIN answers'
              /\ derived'[w].kind = "output" =>
                   /\ derived'[w].lineage = {artifacts'[w].call}
                   /\ answers'[artifacts'[w].call].kind = "submit"
              /\ derived'[w].kind # "output" =>
                   \A c \in derived'[w].lineage : c.work \in tasks'[w].dependencies
<1>1. /\ DOMAIN derived = DOMAIN artifacts /\ DOMAIN tasks = DOMAIN work
      /\ DOMAIN answers = {c \in DOMAIN calls : calls[c].state = "received"}
      /\ DOMAIN artifacts \subseteq DOMAIN work
  BY DEF OrchTypeOK, TreeInv, LedgerInv, TypeOK
<1>2. ASSUME NEW w \in DOMAIN derived, derived'[w] = derived[w] PROVE Traced(w)
  <2>1. artifacts'[w] = artifacts[w] /\ tasks'[w] = tasks[w]
    BY <1>1 DEF Frame, ArtifactsKept, TablesKept
  <2>2. /\ artifacts[w].call \in derived[w].lineage
        /\ \A c \in derived[w].lineage : c \in DOMAIN answers
        /\ derived[w].kind = "output" =>
             derived[w].lineage = {artifacts[w].call} /\ answers[artifacts[w].call].kind = "submit"
        /\ derived[w].kind # "output" =>
             \A c \in derived[w].lineage : c.work \in tasks[w].dependencies
    BY DEF DerivedFromReceipts
  <2>3. \A c \in DOMAIN answers : c \in DOMAIN answers' /\ answers'[c] = answers[c]
    BY DEF TablesKept
  <2>. QED
    BY <1>2, <2>1, <2>2, <2>3
<1>3. ASSUME \A w \in DOMAIN derived' : Traced(w) PROVE DerivedFromReceipts'
  BY <1>3 DEF DerivedFromReceipts
<1>4. CASE UNCHANGED derived
  BY <1>2, <1>3, <1>4
<1>5. ASSUME NEW c \in DOMAIN calls, NEW w, NEW kind, NEW lineage, NEW accepted,
             Deriving(w, kind, c, lineage, accepted)
      PROVE  DerivedFromReceipts'
  <2>1. /\ derived' = Put(derived, w, [kind |-> kind, lineage |-> lineage, accepted |-> accepted])
        /\ artifacts'[w].call = c
        /\ VerifiedDerivation(w, kind, c, lineage)
        /\ w \in DOMAIN work /\ w \notin DOMAIN artifacts
    BY <1>5 DEF Deriving, Derives
  <2>2. /\ DOMAIN derived' = DOMAIN derived \cup {w}
        /\ derived'[w].kind = kind /\ derived'[w].lineage = lineage
        /\ \A v \in DOMAIN derived : derived'[v] = derived[v]
    BY <1>1, <2>1 DEF Put
  <2>3. \A d \in DOMAIN answers : d \in DOMAIN answers' /\ answers'[d] = answers[d]
    BY DEF TablesKept
  <2>4. tasks'[w] = tasks[w]
    BY <1>1, <2>1 DEF TablesKept
  <2>5. c \in DOMAIN answers
    BY <1>1, <2>1 DEF VerifiedDerivation
  <2>6. kind = "output" => lineage = {c} /\ answers[c].kind = "submit"
    <3>1. kind = "output" => lineage = {c} /\ Parsed(tasks[w], answers[c]).kind = "submit"
      BY <2>1 DEF VerifiedDerivation
    <3>2. Parsed(tasks[w], answers[c]).kind = "submit" => answers[c].kind = "submit"
      BY DEF Parsed
    <3>. QED
      BY <3>1, <3>2
  <2>7. kind # "output" => /\ c \in lineage
                           /\ \A d \in lineage : d \in DOMAIN answers /\ d.work \in tasks[w].dependencies
    BY <1>1, <2>1 DEF VerifiedDerivation
  <2>8. Traced(w)
    BY <2>1, <2>2, <2>3, <2>4, <2>5, <2>6, <2>7
  <2>9. \A v \in DOMAIN derived : Traced(v)
    BY <1>2, <2>2
  <2>. HIDE DEF Traced
  <2>. QED
    BY <1>3, <2>2, <2>8, <2>9
<1>. QED
  BY <1>4, <1>5, NewDerived

-----------------------------------------------------------------------------
\* The invariant

\* What create() leaves.
LEMMA OrchInitInv == OrchestrationInit => OrchInv
<1>1. SUFFICES ASSUME OrchestrationInit PROVE OrchInv
  OBVIOUS
<1>. DEFINE D == DOMAIN tasks
            declaration == DeclaredWork(tasks)
            budgets == DeclaredBudgets(tasks)
<1>2. /\ tasks \in Workflows
      /\ PlatformInitOf(declaration, budgets)
      /\ bindings = [c \in {} |-> None]
      /\ answers = [c \in {} |-> None]
      /\ rulings = [w \in D |-> <<>>]
      /\ derived = [w \in {} |-> None]
  BY <1>1 DEF OrchestrationInit
<1>3. /\ D \subseteq Work /\ D # {} /\ IsFiniteSet(D)
      /\ \A w \in D : ValidTask(tasks[w])
      /\ Admissible([w \in D |-> tasks[w].dependencies])
  BY <1>2, WorkflowAssumption DEF ValidWorkflow
<1>4. \A w \in D : tasks[w] \in TaskRow /\ tasks[w].agents # {}
  BY <1>3 DEF ValidTask
<1>5. /\ DOMAIN declaration = D /\ DOMAIN budgets = D
      /\ \A w \in D : declaration[w] = [dependencies |-> tasks[w].dependencies,
                                         agents |-> tasks[w].agents]
      /\ \A w \in D : budgets[w] = [calls |-> tasks[w].calls, tokens |-> tasks[w].tokens]
      /\ budgets = [w \in D |-> budgets[w]]
  BY DEF DeclaredWork, DeclaredBudgets
<1>6. /\ \A w \in D : tasks[w].dependencies \subseteq D
      /\ \A S \in (SUBSET D) \ {{}} : \E w \in S : tasks[w].dependencies \cap S = {}
  BY <1>3 DEF Admissible, Acyclic
<1>7. \A w \in D : declaration[w] \in [dependencies : SUBSET D, agents : (SUBSET Agent) \ {{}}]
  BY <1>4, <1>5, <1>6 DEF TaskRow
<1>8. budgets \in [D -> Caps]
  BY <1>4, <1>5 DEF TaskRow, Caps
<1>9. \A S \in (SUBSET D) \ {{}} : \E w \in S : declaration[w].dependencies \cap S = {}
  <2>1. \A w \in D : declaration[w].dependencies = tasks[w].dependencies
    BY <1>5
  <2>. HIDE DEF declaration
  <2>. QED
    BY <1>6, <2>1
<1>10. TreeInv
  <2>. HIDE DEF declaration, budgets
  <2>1. PlatformInv
    BY <1>2, <1>3, <1>5, <1>7, <1>8, <1>9, InitTree
  <2>. QED
    BY <2>1 DEF PlatformInv
<1>11. /\ DOMAIN work = D /\ DOMAIN calls = {} /\ DOMAIN artifacts = {}
       /\ DOMAIN meta = D /\ \A w \in D : meta[w].parent = None
  BY <1>2, <1>5 DEF PlatformInitOf, InitOf
<1>12. \A w : CallsOf(w) = {} /\ (w \in D => \A d : RuledAs(w, d) = {})
  BY <1>2, <1>11 DEF CallsOf, RuledAs
<1>13. rulings \in [D -> Seq(Ruling)]
  BY <1>2
<1>14. OrchTypeOK
  BY <1>2, <1>4, <1>11, <1>13 DEF OrchTypeOK
<1>15. RuledSettled /\ ReceiptConsumedOnce /\ DecisionsDone
  BY <1>2, <1>11 DEF RuledSettled, Consumed, ReceiptConsumedOnce, RuledAs, DecisionsDone
<1>16. ToolsFromReceipts /\ StepsDeclared /\ DerivedFromReceipts
  BY <1>2, <1>11 DEF ToolsFromReceipts, StepsDeclared, DerivedFromReceipts
<1>17. ChildrenAwaited /\ ChildrenNarrower
  BY <1>11 DEF ChildrenAwaited, ChildrenNarrower
<1>18. ParentCanJoin
  BY <1>12 DEF ParentCanJoin
<1>19. LimitsKept
  <2>1. \A w, kind : CallsUsed(w, kind) = {}
    BY <1>12 DEF CallsUsed
  <2>2. Cardinality({}) = 0
    BY FS_EmptySet
  <2>3. ASSUME NEW w \in D
        PROVE  /\ tasks[w].steps \in Nat /\ tasks[w].toolCalls \in Nat /\ tasks[w].rejections \in Nat
               /\ RuledAs(w, "rejected") = {}
    BY <1>4, <1>12 DEF TaskRow
  <2>4. \A w : CallsUsed(w, "model") \ {c \in DOMAIN calls : calls[c].state = "response_rejected"} = {}
    BY <2>1
  <2>. QED
    BY <2>1, <2>2, <2>3, <2>4 DEF LimitsKept
<1>20. ToolsPaid
  <2>1. \A w \in D : ToolCalls(w) = {} /\ RuledAs(w, "tool") = {}
    BY <1>12 DEF ToolCalls
  <2>. HIDE DEF D
  <2>2. Cardinality({}) = 0
    BY FS_EmptySet
  <2>3. \A w \in D : Cardinality(ToolCalls(w)) <= Cardinality(RuledAs(w, "tool"))
    BY <2>1, <2>2
  <2>. QED
    BY <1>11, <2>3 DEF ToolsPaid
<1>. QED
  BY <1>10, <1>14, <1>15, <1>16, <1>17, <1>18, <1>19, <1>20 DEF OrchInv

\* Every step.
LEMMA OrchNextInv == OrchInv /\ [OrchestrationNext]_orchestrationVars => OrchInv'
<1>1. SUFFICES ASSUME OrchInv, [OrchestrationNext]_orchestrationVars PROVE OrchInv'
  OBVIOUS
<1>. USE DEF OrchInv
<1>2. OrchStep
  BY <1>1, OrchSteps
<1>3. Frame /\ TablesKept /\ RulingsKept /\ OrchTypeOK'
  BY <1>1, <1>2, OrchFrame
<1>4. TreeInv'
  BY <1>3 DEF Frame
<1>5. RuledSettled' /\ ReceiptConsumedOnce'
  BY <1>1, <1>3, RuledSettledKept, OnceKept
<1>6. ToolsFromReceipts' /\ ToolsPaid'
  BY <1>1, <1>2, <1>3, ToolsKept, PaidKept
<1>7. DecisionsDone'
  BY <1>1, <1>3, DoneKept
<1>8. ChildrenAwaited' /\ ChildrenNarrower' /\ ParentCanJoin'
  BY <1>1, <1>2, <1>3, AwaitedKept, NarrowerKept, JoinKept
<1>9. StepsDeclared'
  BY <1>1, <1>2, <1>3, StepsKept
<1>10. LimitsKept'
  BY <1>1, <1>2, <1>3, <1>9, LimitsStay
<1>11. DerivedFromReceipts'
  BY <1>1, <1>2, <1>3, ProvenanceKept
<1>. QED
  BY <1>3, <1>4, <1>5, <1>6, <1>7, <1>8, <1>9, <1>10, <1>11

\* Every reachable state of the orchestration ledger satisfies OrchInv, in whatever
\* order its one caller uses leases and receipts it was ever given.
THEOREM OrchestrationInvariance == OrchestrationSpec => []OrchInv
BY OrchInitInv, OrchNextInv, PTL DEF OrchestrationSpec

\* However leases are lost and answers late, a receipt is consumed by one decision, and
\* nothing is recorded after a task published its own output or abstained.
THEOREM ReceiptsOnce == OrchestrationSpec => []ReceiptConsumedOnce
<1>1. OrchInv => ReceiptConsumedOnce
  BY DEF OrchInv
<1>. QED
  BY <1>1, OrchestrationInvariance, PTL

\* What a decision says happened did happen; however the host mixes receipts up, a tool
\* call is of the tool a receipt asked for, and costs a receipt of its own.
THEOREM DecisionsAreBacked == OrchestrationSpec => []DecisionsBacked
<1>1. OrchInv => DecisionsBacked
  BY BackedDecisions
<1>. QED
  BY <1>1, OrchestrationInvariance, PTL

\* No task makes more model steps, tool calls or rejections than declared, nor one step twice.
THEOREM LimitsHold == OrchestrationSpec => []LimitsKept
<1>1. OrchInv => LimitsKept
  BY DEF OrchInv
<1>. QED
  BY <1>1, OrchestrationInvariance, PTL

\* Delegation never widens what a task may do, and leaves its parent what the join needs.
THEOREM DelegationStaysBounded == OrchestrationSpec => []DelegationBounded
<1>1. OrchInv => DelegationBounded
  BY DEF OrchInv, DelegationBounded
<1>. QED
  BY <1>1, OrchestrationInvariance, PTL

\* Every artifact is derived from settled receipts: its own output, or declared inputs.
THEOREM NothingFabricated == OrchestrationSpec => []DerivedFromReceipts
<1>1. OrchInv => DerivedFromReceipts
  BY DEF OrchInv
<1>. QED
  BY <1>1, OrchestrationInvariance, PTL

\* The budgets of the tree below hold under the orchestration too.
THEOREM OrchestrationBudget == OrchestrationSpec => []BudgetTree
<1>1. OrchInv => BudgetTree
  BY DEF OrchInv, TreeInv, LedgerInv, BudgetTree
<1>. QED
  BY <1>1, OrchestrationInvariance, PTL
=============================================================================
