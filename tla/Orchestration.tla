--------------------------- MODULE Orchestration ---------------------------
(***************************************************************************)
(* The orchestration ledger: OrchestrationMixin of runner/orchestration.py *)
(* over the work-tree layer (class OrchestrationSession), with the task    *)
(* declarations and the proposals of runner/contracts.py.  A model receipt *)
(* is data: it is consumed by one admitted transition (a tool call, a      *)
(* submitted output, an abstention, a decomposition) or by a rejection.    *)
(*                                                                         *)
(* A call identity is the record of its logical key: call_identity hashes  *)
(* exactly that key.  A request is the part of its binding the ledger      *)
(* compares: the inputs (by producer; one artifact per work) and, for a    *)
(* tool, the receipt and the tool.  A receipt is the proposal it carries,  *)
(* or the verdict of a tool.                                               *)
(*                                                                         *)
(* The trusted host is the only caller.  OrchestrationNext lets it call    *)
(* the methods the runner calls on this ledger, at any time, with any      *)
(* lease it was ever given and with any receipts, those of a tool call     *)
(* mixed up included: nothing but the ledger's own checks keeps the        *)
(* properties.  A request has the kind its method is for, and the inherited*)
(* methods nothing in runner/ calls here (reserve, decompose, renew,       *)
(* mark_no_entry, and admit_children with a join_reserve of its own) are   *)
(* left out.  Candidates play no part: propose, commit, publish and        *)
(* publish_received refuse a receipt, which has no artifact to propose.    *)
(***************************************************************************)
EXTENDS Platform, SequencesExt

CONSTANTS
  Host,         \* contracts.HOST_AGENT
  Workflows,    \* the validated spec["tasks"] create may be given: [id -> task row]
  Tool,         \* tool names
  Answers,      \* proposals a model may answer with, by work
  Verdicts,     \* results a tool may return
  PromptBound,  \* model["prompt_token_bound"]
  MaxNew,       \* model["max_new_tokens"]
  Reports       \* <<prompt, completion>> usages a provider may report

Now == -1       \* before_step=None

\* What task_limits, decomposition_config and rule_spec make of a task's fields.
TaskRow ==
  [kind : {"model", "host"}, agents : SUBSET Agent, tools : SUBSET Tool,
   dependencies : SUBSET Work, reads : SUBSET Work,
   steps : Nat, toolCalls : Nat, rejections : Nat, calls : Nat, tokens : Nat,
   maxChildren : Nat, reserve : [steps : Nat, calls : Nat, tokens : Nat],
   rule : {None} \cup [candidate : Work, review : Work, checker : Tool]]

\* task_spec and the per-task part of workflow_spec, over canonical rows.
ValidTask(row) ==
  /\ row \in TaskRow
  /\ row.reads \subseteq row.dependencies
  /\ row.agents # {}
  /\ IF row.kind = "host"
     THEN /\ row.agents = {Host}
          /\ row.calls = 0 /\ row.tokens = 0
          /\ row.rule.candidate # row.rule.review
          /\ {row.rule.candidate, row.rule.review} \subseteq row.reads
     ELSE /\ Host \notin row.agents
          /\ row.steps >= 1 /\ row.calls >= 1
          /\ row.maxChildren > 0 => row.reserve.steps >= 1 /\ row.reserve.calls >= 1

\* workflow_spec across tasks, but for the graph.
ValidWorkflow(spec) ==
  \A w \in DOMAIN spec :
    LET row == spec[w] IN
    /\ ValidTask(row)
    /\ row.kind = "model" => /\ row.calls <= MaxCalls /\ row.tokens <= TokenCap
                             /\ row.maxChildren <= MaxChildren
    /\ row.kind = "host" =>
         LET target == spec[row.rule.review] IN
         target.kind = "model" /\ row.rule.checker \in target.tools

\* create: the rows the platform is made from.
DeclaredWork(spec) ==
  [w \in DOMAIN spec |-> [dependencies |-> spec[w].dependencies, agents |-> spec[w].agents]]

DeclaredBudgets(spec) ==
  [w \in DOMAIN spec |-> [calls |-> spec[w].calls, tokens |-> spec[w].tokens]]

ASSUME WorkflowAssumption ==
  /\ \A spec \in Workflows :
       /\ DOMAIN spec \subseteq Work /\ DOMAIN spec # {} /\ IsFiniteSet(DOMAIN spec)
       /\ ValidWorkflow(spec)
       /\ Admissible([w \in DOMAIN spec |-> spec[w].dependencies])
  /\ None \notin CallId
  /\ \A c \in CallId : /\ c.work \in Work /\ c.kind \in {"model", "tool"}
                       /\ c.step \in Nat /\ c.attempt \in Nat

\* The declared bounds and reported usages are counts; an answer that calls a tool is
\* the tool it names, one that proposes children is a list of them.
ASSUME AnswerAssumption ==
  /\ PromptBound \in Nat /\ MaxNew \in Nat
  /\ Reports \subseteq Nat \X Nat
  /\ DOMAIN Answers = Work
  /\ \A w \in Work : \A answer \in Answers[w] :
       /\ answer.kind = "tool" => answer = [kind |-> "tool", tool |-> answer.tool]
       /\ answer.kind = "decompose" => /\ IsFiniteSet(DOMAIN answer.children)
                                       /\ DOMAIN answer.children \subseteq Work

VARIABLES
  tasks,     \* orchestration_tasks_v2, by work
  bindings,  \* the binding of each reserved request
  answers,   \* the response of each received call
  rulings,   \* orchestration_decisions_v1: per work, in order
  derived,   \* orchestration_artifacts_v1, by work
  violated   \* calls with a violation in orchestration_accounting_v1

orchestrationTables == <<tasks, bindings, answers, rulings, derived, violated>>
orchestrationVars == <<platformVars, orchestrationTables>>

-----------------------------------------------------------------------------
\* Reads

\* The rows of _decisions that a predicate of the decision selects.
RuledAs(w, d) == {i \in DOMAIN rulings[w] : rulings[w][i].decision = d}

Consumed(w) == {rulings[w][i].call : i \in DOMAIN rulings[w]}

Children(w) == {k \in DOMAIN meta : meta[k].parent = w}

\* Declared reads, and the children once admitted before the step asked about.
EffectiveReads(w, before) ==
  tasks[w].reads \cup
    (IF \E i \in RuledAs(w, "decompose") : before = Now \/ rulings[w][i].call.step < before
     THEN Children(w) ELSE {})

\* _artifact_rows: one artifact per producer that has published.
Readable(w, before) == EffectiveReads(w, before) \cap DOMAIN artifacts

\* Mutant: the receipt is not looked up among the recorded decisions.
ReceiptUnlooked(l, c) == c \in CallsOf(l.work) /\ calls[c].state = "received"

\* A settled receipt of the lease's own task that nothing consumed.
Receipt(l, c) ==
  /\ c \in CallsOf(l.work)
  /\ calls[c].state = "received"
  /\ c \notin Consumed(l.work)

Used == {"received", "dispatched", "response_rejected"}

CallsUsed(w, kind) == {c \in CallsOf(w) : c.kind = kind /\ calls[c].state \in Used}

\* parse_proposal: what the task's schemas make of an answer.
Parsed(row, answer) ==
  LET refused ==
        \/ answer.kind = "tool" /\ answer.tool \notin row.tools
        \/ /\ answer.kind = "decompose"
           /\ \/ Cardinality(DOMAIN answer.children) \notin 1 .. row.maxChildren
              \/ \E k \in DOMAIN answer.children : ~(answer.children[k].tools \subseteq row.tools)
  IN IF refused THEN [kind |-> "invalid"] ELSE answer

-----------------------------------------------------------------------------
\* Admission

\* One unresolved or settled call per model step.
AdmitModel(c) ==
  \A d \in CallsOf(c.work) \ {c} :
    d.kind = "model" /\ d.step = c.step =>
      calls[d].state \notin {"received", "dispatched", "reserved"}

\* The receipt proposes exactly this tool, and the limit has room.
AdmitTool(c, b) ==
  /\ b.tool \in tasks[c.work].tools
  /\ b.source \in CallsOf(c.work) /\ calls[b.source].state = "received"
  /\ answers[b.source].kind = "tool" /\ answers[b.source].tool = b.tool
  /\ Cardinality(CallsUsed(c.work, "tool") \ {c}) < tasks[c.work].toolCalls

\* _reservation_request, run at reservation and again at dispatch.
Admitted(l, c, b) ==
  LET row == tasks[l.work] IN
  /\ c.work = l.work
  /\ l.owner \in row.agents
  /\ row.kind = "model"
  /\ c.step < row.steps
  /\ IF c.kind = "model" THEN AdmitModel(c) ELSE AdmitTool(c, b)
  /\ b.inputs \subseteq Readable(l.work, Now)

Ruled(c, d) == [rulings EXCEPT ![c.work] = Append(@, [call |-> c, decision |-> d])]

\* reserve_bounded: the declared bound is reserved, not a promise.
ReserveBounded(l, c, inputs) ==
  LET b == [inputs |-> inputs, source |-> None, tool |-> None] IN
  /\ c.kind = "model"
  /\ Holds(l)
  /\ Admitted(l, c, b)
  /\ ReserveCapped(l, c, PromptBound, MaxNew)
  /\ bindings' = Put(bindings, c, b)
  /\ UNCHANGED <<tasks, answers, rulings, derived, violated>>

\* _reserve over a settled call of the same identity: it is returned if it was for the
\* same request.
Repeated(l, c, b) ==
  /\ c \in CallsOf(l.work)
  /\ calls[c].state = "received"
  /\ bindings[c] = b

\* Mutant: the consumption of the receipt is left to a transaction of its own.
ReserveUnrecorded(l, c, source, model, tool, inputs) ==
  LET b == [inputs |-> inputs, source |-> model, tool |-> tool] IN
  /\ c.kind = "tool"
  /\ Holds(l)
  /\ Receipt(l, source)
  /\ Admitted(l, c, b)
  /\ ReserveCapped(l, c, 0, 0) /\ bindings' = Put(bindings, c, b)
  /\ UNCHANGED <<tasks, answers, rulings, derived, violated>>

\* The tool call and the receipt it consumes, in one transaction.  The ledger compares
\* neither the receipt consumed with the one the request was made from (model) nor
\* their steps: the caller says which are which.
ReserveToolCall(l, c, source, model, tool, inputs) ==
  LET b == [inputs |-> inputs, source |-> model, tool |-> tool] IN
  /\ c.kind = "tool"
  /\ Holds(l)
  /\ Receipt(l, source)
  /\ Admitted(l, c, b)
  /\ \/ ReserveCapped(l, c, 0, 0) /\ bindings' = Put(bindings, c, b)
     \/ Repeated(l, c, b) /\ UNCHANGED <<platformVars, bindings>>
  /\ rulings' = Ruled(source, "tool")
  /\ UNCHANGED <<tasks, answers, derived, violated>>

\* Mutant: the admission of the reservation is trusted at dispatch.
DispatchUnchecked(l, c) ==
  /\ Dispatch(l, c)
  /\ UNCHANGED <<platformTables, orchestrationTables>>

\* dispatch runs the admission again, over what has happened since.
DispatchAdmitted(l, c) ==
  /\ Holds(l)
  /\ c \in CallsOf(l.work)
  /\ Admitted(l, c, bindings[c])
  /\ Dispatch(l, c)
  /\ UNCHANGED <<platformTables, orchestrationTables>>

-----------------------------------------------------------------------------
\* Accounting

Stored(c, oversize, answer) == IF oversize THEN answers ELSE Put(answers, c, answer)

\* Mutant: the reported usage is not held against what was reserved.
ReceiveAnyUsage(c, prompt, completion, oversize, answer) ==
  /\ c \in DOMAIN calls /\ c.kind = "model"
  /\ Settle(c, prompt + completion, oversize)
  /\ answers' = Stored(c, oversize, answer)
  /\ UNCHANGED <<platformTables, tasks, bindings, rulings, derived, violated>>

\* receive under bounded_v2, with _settled.
ReceiveModel(c, prompt, completion, oversize, answer) ==
  /\ c \in DOMAIN calls /\ c.kind = "model"
  /\ prompt <= calls[c].prompt
  /\ completion <= calls[c].maximum
  /\ Settle(c, prompt + completion, oversize)
  /\ answers' = Stored(c, oversize, answer)
  /\ UNCHANGED <<platformTables, tasks, bindings, rulings, derived, violated>>

\* receive under exact_v1: tools report no usage.
ReceiveTool(c, oversize, verdict) ==
  /\ c \in DOMAIN calls /\ c.kind = "tool"
  /\ Receive(c, 0, 0, oversize)
  /\ answers' = Stored(c, oversize, [kind |-> "result", verdict |-> verdict])
  /\ UNCHANGED <<platformTables, tasks, bindings, rulings, derived, violated>>

RecordViolation(c) ==
  /\ c \in DOMAIN calls /\ c.kind = "model"
  /\ calls[c].state = "dispatched"
  /\ violated' = violated \cup {c}
  /\ UNCHANGED <<platformVars, tasks, bindings, answers, rulings, derived>>

-----------------------------------------------------------------------------
\* Consumption

\* A settled receipt without a decision, one the byte bound refused included, and room.
Rejectable(l, c) ==
  /\ Holds(l)
  /\ c \in CallsOf(l.work)
  /\ calls[c].state \in {"received", "response_rejected"}
  /\ c \notin Consumed(l.work)
  /\ Cardinality(RuledAs(l.work, "rejected")) < tasks[l.work].rejections

\* record_rejection.
RecordRejection(l, c) ==
  /\ Rejectable(l, c)
  /\ rulings' = Ruled(c, "rejected")
  /\ UNCHANGED <<platformVars, tasks, bindings, answers, derived, violated>>

\* Mutant: the decision commits before the abstention it records.
AbstainLater(l, c) ==
  /\ Holds(l)
  /\ c # None /\ Receipt(l, c)
  /\ rulings' = Ruled(c, "abstain")
  /\ UNCHANGED <<platformVars, tasks, bindings, answers, derived, violated>>

\* abstain_task, over a receipt or, with None, over none.
AbstainTask(l, c) ==
  /\ Abstain(l)
  /\ IF c = None THEN UNCHANGED rulings
     ELSE Receipt(l, c) /\ rulings' = Ruled(c, "abstain")
  /\ UNCHANGED <<tasks, bindings, answers, derived, violated>>

\* Mutant: an output may be derived from any settled answer of the task.
VerifiedLoosely(w, kind, c, lineage) ==
  /\ c \in DOMAIN calls /\ calls[c].state = "received"
  /\ kind = "output" => c.work = w /\ lineage = {c}

\* _verify_derivation: the value is the receipt's own proposal, or it names
\* settled receipts of declared dependencies.
VerifiedDerivation(w, kind, c, lineage) ==
  /\ c \in DOMAIN calls /\ calls[c].state = "received"
  /\ IF kind = "output"
     THEN /\ c.work = w /\ c.kind = "model"
          /\ c \notin Consumed(w)
          /\ Parsed(tasks[w], answers[c]).kind = "submit"
          /\ lineage = {c}
     ELSE /\ c \in lineage
          /\ \A d \in lineage : /\ d \in DOMAIN calls /\ calls[d].state = "received"
                                /\ d.work \in tasks[w].dependencies

\* publish_derived.  _derived_lease takes the caller's own lease or claims, and
\* ignores marks; accepted is what a result says of its candidate.
PublishDerived(a, w, kind, c, lineage, accepted) ==
  /\ run.enabled /\ run.status = "running" /\ a \in work[w].agents
  /\ w \notin DOMAIN artifacts
  /\ \A d \in CallsOf(w) : calls[d].state \notin Unsettled
  /\ VerifiedDerivation(w, kind, c, lineage)
  /\ \/ /\ RecoveredWork[w].status = "leased" /\ RecoveredWork[w].owner = a
        /\ RecordArtifact(RecoveredWork, w, a, c, Expired)
        /\ Count(0)
     \/ /\ Claimable(a, w, RecoveredWork)
        /\ RecordArtifact([RecoveredWork EXCEPT ![w] = Leased(@, a)], w, a, c, Expired)
        /\ Count(1)
  /\ derived' = Put(derived, w, [kind |-> kind, lineage |-> lineage, accepted |-> accepted])
  /\ rulings' = IF kind = "output" THEN Ruled(c, "submit") ELSE rulings
  /\ UNCHANGED <<meta, candidates, held, decisions, tasks, bindings, answers, violated>>

-----------------------------------------------------------------------------
\* Decomposition

\* _child_declaration's checks: nothing wider than the parent.
Narrow(row, kids) ==
  \A k \in DOMAIN kids :
    LET kid == kids[k] IN
    /\ kid.steps <= row.steps /\ kid.toolCalls <= row.toolCalls /\ kid.rejections <= row.rejections
    /\ kid.tools \subseteq row.tools
    /\ kid.dependencies \subseteq DOMAIN kids \ {k}
    /\ kid.reads \subseteq row.reads \cup kid.dependencies

\* _child_declaration's result: it waits for the parent's reads it reads.
ChildTask(row, kid) ==
  [kind |-> "model", agents |-> row.agents, tools |-> kid.tools,
   dependencies |-> kid.dependencies \cup (kid.reads \cap row.reads), reads |-> kid.reads,
   steps |-> kid.steps, toolCalls |-> kid.toolCalls, rejections |-> kid.rejections,
   calls |-> kid.calls, tokens |-> kid.tokens,
   maxChildren |-> 0, reserve |-> [steps |-> 0, calls |-> 0, tokens |-> 0], rule |-> None]

\* Mutant: the reserve of the join is set against nothing given away.
KeepsNothing(w, gift) == TRUE

\* The parent's join reserve survives the gift.
KeepsReserve(w, gift) ==
  /\ tasks[w].steps - Cardinality(CallsUsed(w, "model")) >= tasks[w].reserve.steps
  /\ meta[w].caps.calls - Cardinality(CallsOf(w)) - gift.calls >= tasks[w].reserve.calls
  /\ meta[w].caps.tokens - SpentOn(w) - gift.tokens >= tasks[w].reserve.tokens

\* admit_children: the checks, then the platform's decomposition, atomically.
AdmitChildren(l, c, kids) ==
  LET w == l.work
      row == tasks[w]
      rows == [k \in DOMAIN kids |-> ChildTask(row, kids[k])]
      offer == [k \in DOMAIN kids |->
                  [dependencies |-> rows[k].dependencies, agents |-> row.agents,
                   calls |-> rows[k].calls, tokens |-> rows[k].tokens]]
  IN
  /\ DOMAIN kids # {}
  /\ Holds(l)
  /\ row.maxChildren > 0
  /\ Receipt(l, c)
  /\ RuledAs(w, "decompose") = {}
  /\ Cardinality(Children(w)) + Cardinality(DOMAIN kids) <= row.maxChildren
  /\ Narrow(row, kids)
  /\ \A k \in DOMAIN kids : ValidTask(rows[k])
  /\ KeepsReserve(w, Given(offer))
  /\ Decompose(l, offer)
  /\ tasks' = [v \in DOMAIN tasks \cup DOMAIN kids |->
                 IF v \in DOMAIN kids THEN rows[v] ELSE tasks[v]]
  /\ rulings' = [v \in DOMAIN rulings \cup DOMAIN kids |->
                   IF v \in DOMAIN kids THEN <<>> ELSE Ruled(c, "decompose")[v]]
  /\ UNCHANGED <<bindings, answers, derived, violated>>

\* blocked_work: open work whose dependency ended without an artifact.
Blocked ==
  {w \in DOMAIN work :
     /\ work[w].status # "done"
     /\ \E v \in work[w].dependencies \ DOMAIN artifacts : work[v].status \in {"done", "cancelled"}}

-----------------------------------------------------------------------------
\* create
OrchestrationInit ==
  /\ tasks \in Workflows
  /\ PlatformInitOf(DeclaredWork(tasks), DeclaredBudgets(tasks))
  /\ bindings = [c \in {} |-> None]
  /\ answers = [c \in {} |-> None]
  /\ rulings = [w \in DOMAIN tasks |-> <<>>]
  /\ derived = [w \in {} |-> None]
  /\ violated = {}

OrchestrationNext ==
  \/ \E w \in DOMAIN work : Expire(w) /\ UNCHANGED <<platformTables, orchestrationTables>>
  \/ RecoverFreely /\ UNCHANGED orchestrationTables
  \/ \E a \in Agent, w \in DOMAIN work : ClaimAvailable(a, w) /\ UNCHANGED orchestrationTables
  \/ Cancel /\ UNCHANGED <<platformTables, orchestrationTables>>
  \/ \E l \in granted : Release(l) /\ UNCHANGED orchestrationTables
  \/ \E l \in granted, c \in CallId :
       \E inputs \in SUBSET Readable(l.work, Now) :
         \/ ReserveBounded(l, c, inputs)
         \/ \E s, m \in DOMAIN answers, t \in Tool : ReserveToolCall(l, c, s, m, t, inputs)
  \/ \E l \in granted, c \in DOMAIN calls :
       \/ DispatchAdmitted(l, c)
       \/ RecordRejection(l, c)
       \/ \E a \in {d \in Answers[l.work] : d.kind = "decompose"} : AdmitChildren(l, c, a.children)
  \/ \E l \in granted, c \in DOMAIN calls \cup {None} : AbstainTask(l, c)
  \/ \E c \in DOMAIN calls :
       \/ \E u \in Reports, o \in BOOLEAN, a \in Answers[c.work] : ReceiveModel(c, u[1], u[2], o, a)
       \/ \E o \in BOOLEAN, v \in Verdicts : ReceiveTool(c, o, v)
       \/ RecordViolation(c)
  \/ \E a \in Agent, c \in DOMAIN calls, accepted \in BOOLEAN :
       \/ PublishDerived(a, c.work, "output", c, {c}, TRUE)
       \/ \E w \in DOMAIN work, d \in DOMAIN calls : PublishDerived(a, w, "result", c, {c, d}, accepted)

OrchestrationSpec == OrchestrationInit /\ [][OrchestrationNext]_orchestrationVars

-----------------------------------------------------------------------------
\* Properties

\* However leases are lost and receipts are delivered late, a settled receipt is
\* consumed by at most one decision, and a task that published its own output or
\* abstained over a receipt records nothing after it.
ReceiptConsumedOnce ==
  \A w \in DOMAIN rulings :
    /\ \A i, j \in DOMAIN rulings[w] : rulings[w][i].call = rulings[w][j].call => i = j
    /\ \A i \in RuledAs(w, "submit") \cup RuledAs(w, "abstain") :
         i = Len(rulings[w]) /\ work[w].status = "done"

ToolCalls(w) == {t \in CallsOf(w) : bindings[t].source # None}

\* What a decision says happened did happen, in the same transaction: a tool call
\* was reserved, the output published, the task ended, children admitted.  However the
\* host mixes receipts up, a tool call is of the tool a receipt of the task asked for,
\* and of whatever attempt, it costs a receipt of its own.
DecisionsBacked ==
  \A w \in DOMAIN rulings :
    /\ \A i \in DOMAIN rulings[w] :
         LET c == rulings[w][i].call
             d == rulings[w][i].decision
         IN /\ d = "tool" => ToolCalls(w) # {}
            /\ d = "submit" => w \in DOMAIN artifacts /\ artifacts[w].call = c
            /\ d = "abstain" => w \in DOMAIN decisions /\ w \notin DOMAIN artifacts
            /\ d = "decompose" => Children(w) # {}
    /\ \A t \in ToolCalls(w) :
         LET m == bindings[t].source IN
         /\ m \in CallsOf(w) /\ m \in DOMAIN answers
         /\ answers[m] = [kind |-> "tool", tool |-> bindings[t].tool]
    /\ Cardinality(ToolCalls(w)) <= Cardinality(RuledAs(w, "tool"))

\* Through crashes, abandoned reservations and late answers a task never makes more
\* model steps, tool calls or rejections than declared, and no step twice at once.
\* Open tool reservations are not counted: the second look at dispatch keeps this.
LimitsKept ==
  \A w \in DOMAIN tasks :
    LET model == CallsUsed(w, "model") \ {c \in DOMAIN calls : calls[c].state = "response_rejected"} IN
    /\ Cardinality(model) <= tasks[w].steps
    /\ \A c \in model, d \in model : c.step = d.step => c = d
    /\ Cardinality(CallsUsed(w, "tool")) <= tasks[w].toolCalls
    /\ Cardinality(RuledAs(w, "rejected")) <= tasks[w].rejections

\* A child is never wider than its parent, so a tree of them is never wider than
\* what the workflow declared: tools, limits, executors, and what it may read.
ChildrenNarrower ==
  \A k \in DOMAIN tasks :
    LET p == meta[k].parent IN
    p # None =>
      /\ tasks[k].tools \subseteq tasks[p].tools
      /\ tasks[k].agents = tasks[p].agents
      /\ tasks[k].steps <= tasks[p].steps /\ tasks[k].toolCalls <= tasks[p].toolCalls
      /\ tasks[k].reads \subseteq tasks[p].reads \cup Children(p)
      /\ tasks[k].maxChildren = 0

\* While a parent waits for its children it still has the steps, calls and tokens
\* its declaration reserves for joining them.
ParentCanJoin ==
  \A w \in DOMAIN tasks :
    RuledAs(w, "decompose") # {} /\ ~(Children(w) \subseteq DOMAIN artifacts) =>
      /\ tasks[w].steps - Cardinality(CallsUsed(w, "model")) >= tasks[w].reserve.steps
      /\ meta[w].caps.calls - Cardinality(CallsOf(w)) >= tasks[w].reserve.calls
      /\ meta[w].caps.tokens - SpentOn(w) >= tasks[w].reserve.tokens

\* Nothing is fabricated: an output is the one receipt that proposed it, a result
\* names settled receipts of declared dependencies, its source among them.
DerivedFromReceipts ==
  \A w \in DOMAIN derived :
    LET d == derived[w] IN
    /\ artifacts[w].call \in d.lineage
    /\ \A c \in d.lineage : c \in DOMAIN answers
    /\ IF d.kind = "output"
       THEN d.lineage = {artifacts[w].call} /\ answers[artifacts[w].call].kind = "submit"
       ELSE \A c \in d.lineage : c.work \in tasks[w].dependencies

\* Delegation is bounded both ways, whatever a model asks for and however often it
\* is retried: nothing grows on the way down, and the join keeps what it was promised.
DelegationBounded == ChildrenNarrower /\ ParentCanJoin
=============================================================================
