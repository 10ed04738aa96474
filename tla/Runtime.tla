------------------------------ MODULE Runtime ------------------------------
(***************************************************************************)
(* The workflow runtime: class Runtime of runner/runtime.py, started by    *)
(* start_run and resumed by resume_run, over the orchestration ledger.     *)
(*                                                                         *)
(* A runner is one process inside Runtime.run.  Its record holds what the  *)
(* process keeps in memory: the place it is at, the pair it selected, its  *)
(* lease, the call it works on, and the history run() reports from.  Every *)
(* ledger transaction of a step is an action of its own, so leases expire, *)
(* other runners work and the process dies between any two of them.  Time  *)
(* and cancellation are the environment's, and so are what the transport   *)
(* and the tools answer, and when.                                         *)
(*                                                                         *)
(* An action that writes has two outcomes: the transaction commits, or it  *)
(* raises (it is not enabled) and _classify names the status.              *)
(***************************************************************************)
EXTENDS Orchestration

CONSTANTS
  Runner,       \* processes that run the workflow
  Sweeps,       \* max_sweeps, or None for the default
  MaxRestarts,  \* bound of the model: crashes of all runners together
  Defers,       \* whether the allocation policy may refuse ready work
  Briefs        \* \subseteq BOOLEAN: whether a prompt may exceed its bound

ASSUME RuntimeAssumption ==
  /\ MaxEpoch >= MaxOperations   \* the model's bound never binds: claims are counted
  /\ MaxRestarts \in Nat
  /\ Defers \in BOOLEAN /\ Briefs \in (SUBSET BOOLEAN) \ {{}}
  /\ None # "success"            \* a process that has not ended reports nothing

\* Every logical key a runner may come to hashes to an identity: a step a task declares,
\* and one attempt more than there are claims to abandon one under.
ASSUME KeyAssumption ==
  \A spec \in Workflows : \A v \in DOMAIN spec : \A n \in 0 .. spec[v].steps - 1 :
    [work : Work, kind : {"model", "tool"}, step : {n}, attempt : 0 .. MaxOperations + 1]
      \subseteq CallId

VARIABLES
  runner,   \* what each process has in memory
  frozen,   \* the context each model request was frozen from
  restarts  \* crashes so far

runtimeVars == <<orchestrationVars, runner, frozen, restarts>>

-----------------------------------------------------------------------------
\* What a step derives from the ledger

\* _state: the next step, and the receipt not yet consumed.
StepOf(w) ==
  LET steps == {c.step : c \in CallsUsed(w, "model")} IN
  IF steps = {} THEN 0 ELSE Max(steps) + 1

Pending(w) ==
  {c \in CallsOf(w) : /\ c.kind = "model"
                      /\ calls[c].state \in {"received", "response_rejected"}
                      /\ c \notin Consumed(w)}

Remaining(row, seen, ruled) ==
  LET Of(kind) == {c \in seen : c.kind = kind /\ calls[c].state \in Used} IN
  [steps |-> row.steps - Cardinality(Of("model")),
   toolCalls |-> row.toolCalls - Cardinality(Of("tool")),
   rejections |-> row.rejections - Cardinality({d \in ruled : d.decision = "rejected"})]

RulingsOf(w) == {rulings[w][i] : i \in DOMAIN rulings[w]}

\* _attempt: the first key no abandoned reservation occupies.
KeyOf(w, kind, step) ==
  LET key(n) == [work |-> w, kind |-> kind, step |-> step, attempt |-> n]
      given_up == {n \in 0 .. MaxOperations :
                     key(n) \in DOMAIN calls /\ calls[key(n)].state = "abandoned"}
  IN key(Min((0 .. MaxOperations + 1) \ given_up))

\* _tool_result.
Delivered(c, seen) ==
  LET settled == {t \in seen : bindings[t].source = c /\ calls[t].state = "received"} IN
  IF settled = {} THEN "unsettled" ELSE answers[CHOOSE t \in settled : TRUE].verdict

\* Mutant: the budget left is shown as of now, not as of the calls seen.
ContextOfNow(w, step, seen, ruled) ==
  [inputs |-> Readable(w, step), refused |-> {}, turns |-> {},
   receipts |-> {c \in seen : calls[c].state = "received"},
   remaining |-> Remaining(tasks[w], CallsOf(w), ruled)]

\* frozen_model_request with _conversation: from the calls in seen and the
\* decisions in ruled, up to a step.
Context(w, step, seen, ruled) ==
  LET asked == {c \in seen : c.kind = "model" /\ c.step < step}
      Turn(c, d) == <<c, d.decision, IF d.decision = "tool" THEN Delivered(c, seen) ELSE None>>
  IN [inputs |-> Readable(w, step),
      refused |-> {c \in asked : calls[c].state = "response_rejected"},
      turns |-> UNION {{Turn(c, d) : d \in {e \in ruled : e.call = c}} :
                         c \in {b \in asked : calls[b].state = "received"}},
      receipts |-> {c \in seen : calls[c].state = "received"},
      remaining |-> Remaining(tasks[w], seen, ruled)]

\* evaluate_rule: the last settled verdict of the checker in the review.
Evidence(w) ==
  {t \in CallsOf(tasks[w].rule.review) :
     /\ t.kind = "tool" /\ bindings[t].tool = tasks[w].rule.checker
     /\ calls[t].state = "received" /\ answers[t].verdict \in {"pass", "fail"}}

LastEvidence(w) == CHOOSE t \in Evidence(w) : \A u \in Evidence(w) : u.step <= t.step

-----------------------------------------------------------------------------
\* The runner's own state

Idle == [at |-> "idle", task |-> None, agent |-> None, lease |-> None, call |-> None,
         status |-> None, sweeps |-> 0, stalled |-> {}, last |-> [w \in {} |-> None],
         erred |-> FALSE, outcome |-> None]

Stalling == {"unavailable", "blocked_unknown", "budget_exhausted", "lost", "error"}

\* run's bookkeeping of one step record.
Told(s, status) ==
  [Idle EXCEPT !.sweeps = s.sweeps,
               !.last = Put(s.last, s.task, status),
               !.erred = s.erred \/ status = "error",
               !.stalled = IF status \in Stalling THEN s.stalled \cup {s.task} ELSE s.stalled]

To(r, at) == runner' = [runner EXCEPT ![r].at = at]
With(r, at, c) == runner' = [runner EXCEPT ![r] = [@ EXCEPT !.at = at, !.call = c]]
Tell(r, status) == runner' = [runner EXCEPT ![r] = Told(@, status)]
Return(r, status) ==
  runner' = [runner EXCEPT ![r] = [@ EXCEPT !.at = "release", !.status = status]]

\* _classify: the ledger first, then the exception.
Classified(l, status) ==
  IF Holds(l) /\ ~Settled(l.work) THEN "blocked_unknown" ELSE status

\* The lease is gone, or the transaction ran into a budget.
Refusal(l) == IF Holds(l) THEN "budget_exhausted" ELSE "lost"

Keep == UNCHANGED <<frozen, restarts>>

\* A transaction that raised leaves the ledger as it was.
Raises(r, status) ==
  /\ Return(r, Classified(runner[r].lease, status))
  /\ UNCHANGED orchestrationVars
  /\ Keep

-----------------------------------------------------------------------------
\* run and _select_work

DefaultSweeps ==
  LET declared == {w \in DOMAIN tasks : meta[w].parent = None}
      Steps(w) == (tasks[w].steps + tasks[w].toolCalls + 2) * (1 + tasks[w].maxChildren)
  IN Cardinality(declared) + 2 + MapThenSumSet(Steps, {w \in declared : tasks[w].kind = "model"})

Bound == IF Sweeps = None THEN DefaultSweeps ELSE Sweeps

Pairs(r) == {p \in Agent \X DOMAIN work : p[2] \in ReadyWork(p[1]) \ runner[r].stalled}

\* The pair of one turn of the loop.
Chosen(s, a, w) ==
  [s EXCEPT !.at = "chosen", !.agent = a, !.task = w, !.sweeps = s.sweeps + 1]

\* Any pair: which one is the allocation policy's decision.
Select(r) ==
  /\ runner[r].at = "idle"
  /\ runner[r].sweeps < Bound
  /\ \E p \in Pairs(r) :
       runner' = [runner EXCEPT ![r] = Chosen(@, p[1], p[2])]
  /\ UNCHANGED orchestrationVars /\ Keep

\* _outcome's status of one task.
TaskStatus(s, w) ==
  IF w \in DOMAIN artifacts THEN "published"
  ELSE IF w \in DOMAIN decisions THEN "abstained"
  ELSE IF run.status = "cancelled" THEN "cancelled"
  ELSE IF ~Settled(w) \/ work[w].status = "uncertain" THEN "blocked_unknown"
  ELSE IF w \in Blocked THEN "dependency_failed"
  ELSE IF w \in DOMAIN s.last THEN s.last[w]
  ELSE "pending"

\* Mutant: that ready work was passed over is no reason to report anything.
OutcomeUndeferred(s, deferred) ==
  LET statuses == {TaskStatus(s, w) : w \in DOMAIN work} IN
  IF run.status = "cancelled" THEN "cancelled"
  ELSE IF "blocked_unknown" \in statuses THEN "blocked_unknown"
  ELSE IF "budget_exhausted" \in statuses THEN "budget_exhausted"
  ELSE IF s.erred \/ Blocked # {} \/ "pending" \in statuses THEN "error"
  ELSE IF "abstained" \in statuses THEN "abstained" ELSE "success"

\* _outcome, in the order of its tests.
Outcome(s, deferred) ==
  LET statuses == {TaskStatus(s, w) : w \in DOMAIN work} IN
  IF run.status = "cancelled" THEN "cancelled"
  ELSE IF "blocked_unknown" \in statuses THEN "blocked_unknown"
  ELSE IF "budget_exhausted" \in statuses THEN "budget_exhausted"
  ELSE IF Blocked # {} THEN "dependency_failed"
  ELSE IF s.erred \/ deferred \/ "pending" \in statuses THEN "error"
  ELSE IF "abstained" \in statuses THEN "abstained"
  ELSE IF \E w \in DOMAIN derived : ~derived[w].accepted THEN "rejected"
  ELSE "success"

\* The loop ends: at its bound, or with nothing selected.  Ready work that was
\* not selected counts as deferred, stalled or not.
End(r) ==
  LET s == runner[r]
      cut == s.sweeps >= Bound
      deferred == ~cut /\ \E a \in Agent : ReadyWork(a) # {}
  IN
  /\ s.at = "idle"
  /\ cut \/ Pairs(r) = {} \/ Defers
  /\ runner' = [runner EXCEPT ![r] =
       [@ EXCEPT !.at = "ended", !.outcome = Outcome(s, deferred),
                 !.status = IF cut THEN "cut" ELSE "empty"]]
  /\ UNCHANGED orchestrationVars /\ Keep

-----------------------------------------------------------------------------
\* step

\* claim is outside step's try: at the control budget it raises out of run.
Claiming(r) ==
  LET s == runner[r]
      host == tasks[s.task].kind = "host"
  IN
  /\ s.at = "chosen"
  /\ host => Evidence(s.task) = {}
  /\ IF Claims(s.agent, s.task)
     THEN \/ /\ ClaimAvailable(s.agent, s.task)
             /\ UNCHANGED orchestrationTables
             /\ runner' = [runner EXCEPT ![r] =
                  [@ EXCEPT !.at = IF host THEN "giveup" ELSE "claimed",
                            !.lease = [work |-> s.task, owner |-> s.agent,
                                       epoch |-> work[s.task].epoch + 1]]]
          \/ /\ operations = MaxOperations
             /\ IF host THEN Tell(r, "budget_exhausted") ELSE To(r, "raised")
             /\ UNCHANGED orchestrationVars
     ELSE /\ Tell(r, "unavailable")
          /\ (RecoverFreely \/ (Expired = {} /\ UNCHANGED platformVars))
          /\ UNCHANGED orchestrationTables
  /\ Keep

\* Mutant: the receipt of an earlier step is not looked for.
ExaminingAfresh(r) ==
  LET s == runner[r] IN
  /\ s.at = "claimed"
  /\ With(r, "infer", KeyOf(s.task, "model", StepOf(s.task)))
  /\ UNCHANGED orchestrationVars /\ Keep

\* work_calls, decisions and _state, and which way step goes.  work_calls is
\* fenced; a fresh lease finds no open call.
Examining(r) ==
  LET s == runner[r]
      row == tasks[s.task]
      left == Remaining(row, CallsOf(s.task), RulingsOf(s.task))
  IN
  /\ s.at = "claimed"
  /\ IF ~Holds(s.lease) THEN Return(r, "lost")
     ELSE IF Pending(s.task) # {}
     THEN With(r, "consume", CHOOSE c \in Pending(s.task) : \A d \in Pending(s.task) : d.step <= c.step)
     ELSE IF left.steps <= 0 THEN To(r, "giveup")
     ELSE IF \/ meta[s.task].caps.calls - Cardinality(CallsOf(s.task)) < 1
             \/ meta[s.task].caps.tokens - SpentOn(s.task) < PromptBound + MaxNew
     THEN Return(r, "budget_exhausted")
     ELSE \E fits \in Briefs :
            IF fits THEN With(r, "infer", KeyOf(s.task, "model", StepOf(s.task)))
                    ELSE To(r, "giveup")
  /\ UNCHANGED orchestrationVars /\ Keep

\* _infer up to its reservation.
Freezing(r) ==
  LET s == runner[r]
      c == s.call
      op == ReserveBounded(s.lease, c, Readable(s.task, c.step))
  IN
  /\ s.at = "infer"
  /\ \/ /\ op
        /\ frozen' = Put(frozen, c,
             [seen |-> CallsOf(s.task),
              context |-> Context(s.task, c.step, CallsOf(s.task), RulingsOf(s.task))])
        /\ To(r, "reserved")
        /\ UNCHANGED restarts
     \/ ~ENABLED op /\ Raises(r, Refusal(s.lease))

\* Mutant: a dispatch that raises is tried again.
DispatchingAgain(r) ==
  LET op == DispatchAdmitted(runner[r].lease, runner[r].call) IN
  /\ runner[r].at = "reserved"
  /\ op /\ To(r, "sent") /\ Keep

Dispatching(r) ==
  LET s == runner[r]
      op == DispatchAdmitted(s.lease, s.call)
  IN
  /\ s.at = "reserved"
  /\ \/ op /\ To(r, "sent") /\ Keep
     \/ ~ENABLED op /\ Raises(r, Refusal(s.lease))

\* The transport answers and extract accepts it: receive settles the usage, or
\* a usage above the bound is recorded and the call stays dispatched.
Answered(r) ==
  LET s == runner[r]
      c == s.call
  IN
  /\ s.at = "sent" /\ c.kind = "model"
  /\ \E u \in Reports, oversize \in BOOLEAN, answer \in Answers[c.work] :
       IF u[1] > PromptBound \/ u[2] > MaxNew
       THEN RecordViolation(c) /\ Return(r, "blocked_unknown")
       ELSE /\ ReceiveModel(c, u[1], u[2], oversize, answer)
            /\ Return(r, IF oversize THEN "response_rejected" ELSE "inferred")
  /\ Keep

\* The tool answers.  A result over the byte bound settles, and receive raises.
ToolAnswered(r) ==
  LET s == runner[r] IN
  /\ s.at = "sent" /\ s.call.kind = "tool"
  /\ \E oversize \in BOOLEAN, verdict \in Verdicts :
       /\ ReceiveTool(s.call, oversize, verdict)
       /\ Return(r, IF oversize THEN "error" ELSE "tool")
  /\ Keep

\* The transport, or a tool, fails: nothing is known of the call.
Unanswered(r) ==
  /\ runner[r].at = "sent"
  /\ Raises(r, "error")

-----------------------------------------------------------------------------
\* _consume

\* The exception of a transaction that looks at the receipt before the lease.
StaleReceipt(l, c) == IF c \in Consumed(l.work) THEN "error" ELSE Refusal(l)

Submitting(r) ==
  LET s == runner[r]
      c == s.call
      op == PublishDerived(s.agent, s.task, "output", c, {c}, TRUE)
      short == /\ operations = MaxOperations /\ c \notin Consumed(s.task)
               /\ run.status = "running" /\ Claimable(s.agent, s.task, RecoveredWork)
  IN
  \/ op /\ Return(r, "published") /\ Keep
  \/ /\ ~ENABLED op
     /\ Raises(r, IF s.task \in DOMAIN artifacts /\ artifacts[s.task].call = c /\ run.enabled
                  THEN "published" ELSE IF short THEN "budget_exhausted" ELSE "error")

\* What the receipt proposes, as far as it can be parsed.
Proposal(s) ==
  IF calls[s.call].state = "response_rejected" THEN [kind |-> "oversize"]
  ELSE Parsed(tasks[s.task], answers[s.call])

\* By the kind of the proposal; a refusal is a transaction of its own.
Consuming(r) ==
  LET s == runner[r]
      c == s.call
      l == s.lease
      proposal == Proposal(s)
      row == tasks[s.task]
      left == Remaining(row, CallsOf(s.task), RulingsOf(s.task))
      end == AbstainTask(l, c)
      reserve == ReserveToolCall(l, KeyOf(s.task, "tool", c.step), c, c, proposal.tool,
                                 Readable(s.task, c.step + 1))
  IN
  /\ s.at = "consume"
  /\ CASE proposal.kind = "submit" -> Submitting(r)
       [] proposal.kind = "abstain" ->
            \/ end /\ Return(r, "abstained") /\ Keep
            \/ ~ENABLED end /\ Raises(r, StaleReceipt(l, c))
       [] proposal.kind = "decompose" ->
            \/ AdmitChildren(l, c, proposal.children) /\ Return(r, "decomposed") /\ Keep
            \/ /\ ~ENABLED AdmitChildren(l, c, proposal.children)
               /\ IF Holds(l) THEN To(r, "refuse") /\ UNCHANGED orchestrationVars /\ Keep
                  ELSE Raises(r, "lost")
       [] proposal.kind = "tool" ->
            IF left.toolCalls <= 0 THEN To(r, "refuse") /\ UNCHANGED orchestrationVars /\ Keep
            ELSE IF meta[s.task].caps.calls - Cardinality(CallsOf(s.task)) < 1
            THEN Raises(r, "budget_exhausted")
            ELSE \/ /\ reserve
                    /\ With(r, "reserved", KeyOf(s.task, "tool", c.step))
                    /\ Keep
                 \/ ~ENABLED reserve /\ Raises(r, StaleReceipt(l, c))
       [] OTHER ->
            To(r, "refuse") /\ UNCHANGED orchestrationVars /\ Keep

\* _reject, and the record_rejection of an oversize response, which is outside it.
Refusing(r) ==
  LET s == runner[r] IN
  /\ s.at = "refuse"
  /\ \/ RecordRejection(s.lease, s.call) /\ Return(r, "rejected") /\ Keep
     \/ /\ ~Rejectable(s.lease, s.call)
        /\ IF Holds(s.lease) /\ calls[s.call].state = "received"
           THEN To(r, "giveup") /\ UNCHANGED orchestrationVars /\ Keep
           ELSE Raises(r, Refusal(s.lease))

\* abstain_task without a receipt: at a limit, or for want of evidence.
GivingUp(r) ==
  LET s == runner[r]
      op == AbstainTask(s.lease, None)
  IN
  /\ s.at = "giveup"
  /\ \/ op /\ Return(r, "abstained") /\ Keep
     \/ ~ENABLED op /\ Raises(r, Refusal(s.lease))

\* The finally of step: _release, or recovery once the lease is gone.
Releasing(r) ==
  LET s == runner[r] IN
  /\ s.at = "release"
  /\ Tell(r, s.status)
  /\ IF Holds(s.lease) THEN Release(s.lease)
     ELSE RecoverFreely \/ (Expired = {} /\ UNCHANGED platformVars)
  /\ UNCHANGED orchestrationTables
  /\ Keep

-----------------------------------------------------------------------------

\* _finalize with evidence: the checker's verdict decides.
Finalizing(r) ==
  LET s == runner[r]
      e == LastEvidence(s.task)
      c == artifacts[tasks[s.task].rule.candidate].call
      op == PublishDerived(Host, s.task, "result", e, {e, c}, answers[e].verdict = "pass")
  IN
  /\ s.at = "chosen" /\ tasks[s.task].kind = "host" /\ Evidence(s.task) # {}
  /\ \/ op /\ Tell(r, "published")
     \/ /\ ~ENABLED op
        /\ Tell(r, IF s.task \in DOMAIN artifacts /\ run.enabled THEN "published"
                   ELSE IF run.status = "running" /\ Claimable(Host, s.task, RecoveredWork)
                   THEN "budget_exhausted" ELSE "error")
        /\ UNCHANGED orchestrationVars
  /\ Keep

-----------------------------------------------------------------------------
\* resume_run starts a process over the same ledger.  The one in place r died,
\* wherever it was; one in another place may still be at work.
Resume(r) ==
  /\ restarts < MaxRestarts
  /\ restarts' = restarts + 1
  /\ runner' = Put(runner, r, Idle)
  /\ UNCHANGED <<orchestrationVars, frozen>>

Step(r) ==
  \/ Select(r) \/ End(r) \/ Claiming(r) \/ Examining(r) \/ Freezing(r) \/ Dispatching(r)
  \/ Answered(r) \/ ToolAnswered(r) \/ Unanswered(r) \/ Consuming(r) \/ Refusing(r)
  \/ GivingUp(r) \/ Finalizing(r) \/ Releasing(r)

RuntimeInit ==
  /\ OrchestrationInit
  /\ \E r \in Runner : runner = [x \in {r} |-> Idle]
  /\ frozen = [c \in {} |-> None]
  /\ restarts = 0

Elapse(w) ==
  /\ Expire(w)
  /\ UNCHANGED <<platformTables, orchestrationTables, runner, frozen, restarts>>

Cancelled ==
  /\ Cancel
  /\ UNCHANGED <<platformTables, orchestrationTables, runner, frozen, restarts>>

RuntimeNext ==
  \/ \E r \in DOMAIN runner : Step(r)
  \/ \E r \in Runner : Resume(r)
  \/ \E w \in DOMAIN work : Elapse(w)
  \/ Cancelled

RuntimeSpec == RuntimeInit /\ [][RuntimeNext]_runtimeVars

\* The process runs on; a provider answers or times out, a tool returns or raises.
\* Nobody has to crash or to cancel, and no lease has to expire.
FairRuntimeSpec ==
  RuntimeSpec /\ \A r \in Runner : WF_runtimeVars(r \in DOMAIN runner /\ Step(r))

-----------------------------------------------------------------------------
\* Properties

\* What run reports as success, "every task published its declared artifact"
\* (runtime.py:751), is what the ledger holds.  The sweep bound breaks it.
SuccessMeansPublished ==
  \A r \in DOMAIN runner : runner[r].outcome = "success" => DOMAIN work \subseteq DOMAIN artifacts

\* When the only runner ends because nothing was left to select, it reports success
\* only over a finished and accepted workflow: after lost leases, unknown calls, a
\* cancellation and exhausted budgets as well.
SuccessWhenFinished ==
  \A r \in DOMAIN runner :
    DOMAIN runner = {r} /\ runner[r].outcome = "success" /\ runner[r].status = "empty" =>
      /\ DOMAIN work \subseteq DOMAIN artifacts
      /\ \A w \in DOMAIN derived : derived[w].accepted

\* No proposal runs twice: wherever processes lose their lease or die between the
\* receipt, its tool call and the answer, a receipt has a tool call exactly if it was
\* consumed as one, the only one there will be, and of its own step.
ProposalsRunOnce ==
  \A w \in DOMAIN rulings : \A c \in CallsOf(w) :
    LET runs == {t \in CallsOf(w) : bindings[t].source = c} IN
    /\ Cardinality(runs) <= 1
    /\ runs # {} <=> \E i \in RuledAs(w, "tool") : rulings[w][i].call = c
    /\ \A t \in runs : t.step = c.step

\* The sweep loop stops: no failure of a transaction, of a transport or of a tool,
\* no lost lease and no cancellation leaves a step that can go nowhere.
RunEnds == <>[](\A r \in DOMAIN runner : runner[r].at \in {"ended", "raised"})
=============================================================================
