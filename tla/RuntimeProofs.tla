--------------------------- MODULE RuntimeProofs ---------------------------
(***************************************************************************)
(* Theorems about Runtime and Audit, for any workflow, any number of       *)
(* runners and any number of crashes.                                      *)
(*                                                                         *)
(* Every step of a runner is a step of the ledger below, or none: what the *)
(* ledger keeps, the runtime keeps.  What a runner has in memory goes      *)
(* stale with its lease, so each fact about it is one about a lease that   *)
(* still holds: a step of anybody else that touches the same work takes    *)
(* that lease away.                                                        *)
(***************************************************************************)
EXTENDS Audit, OrchestrationProofs

-----------------------------------------------------------------------------
\* What the ledger keeps besides

\* Whoever was given a lease was declared for the task, and somebody is.
AgentsDeclared ==
  /\ \A w \in DOMAIN work : work[w].agents = tasks[w].agents /\ tasks[w].agents # {}
  /\ \A l \in granted : l.owner \in tasks[l.work].agents

\* What a task reads it waits for.
ReadsAwaited ==
  \A w \in DOMAIN tasks :
    /\ tasks[w].reads \subseteq work[w].dependencies
    /\ tasks[w].kind = "host" =>
         {tasks[w].rule.candidate, tasks[w].rule.review} \subseteq tasks[w].reads

\* The steps of a task have keys, those of an admitted child as well.
KeysGiven ==
  \A w \in DOMAIN tasks : \A n \in 0 .. tasks[w].steps - 1 :
    [work : Work, kind : {"model", "tool"}, step : {n}, attempt : 0 .. MaxOperations + 1]
      \subseteq CallId

\* A call was made under a lease of its work, and a tool call for a receipt.
CallsClaimed ==
  \A c \in DOMAIN calls :
    /\ tasks[c.work].kind = "model"
    /\ \E l \in granted : l.work = c.work /\ l.epoch = calls[c].epoch
    /\ c.kind # "model" => /\ bindings[c].source # None
                           /\ bindings[c].tool \in tasks[c.work].tools

\* A tool call is the one use of a receipt of its own step, and a receipt that is ruled
\* on as a tool call was made into one.
Paired ==
  /\ \A t \in DOMAIN calls :
       LET m == bindings[t].source IN
       m # None =>
         /\ t.step = m.step
         /\ \E i \in DOMAIN rulings[t.work] :
              rulings[t.work][i] = [call |-> m, decision |-> "tool"]
         /\ \A u \in DOMAIN calls : bindings[u].source = m => u = t
  /\ \A w \in DOMAIN work : \A i \in RuledAs(w, "tool") :
       \E t \in CallsOf(w) : bindings[t].source = rulings[w][i].call

\* The lease a row shows.
Shown(w) == [work |-> w, owner |-> work[w].owner, epoch |-> work[w].epoch]

\* A lease of a row was granted, in the present run, and nothing else keeps work from
\* being ready.
LeasesOfRun ==
  /\ held = {}
  /\ run.status = "running" => run.enabled
  /\ \A w \in DOMAIN work :
       /\ work[w].status # "superseded"
       /\ work[w].status = "leased" =>
            work[w].generation = run.generation /\ Shown(w) \in granted

LedgerFacts ==
  /\ OrchInv /\ AgentsDeclared /\ ReadsAwaited /\ KeysGiven /\ CallsClaimed /\ Paired
  /\ LeasesOfRun

-----------------------------------------------------------------------------
\* What the runners keep of the tables

Final == {"received", "response_rejected", "abandoned"}

\* Model calls of w that are under way, or answered and not consumed.
Open(w) ==
  {c \in CallsOf(w) : /\ c.kind = "model"
                      /\ \/ calls[c].state = "dispatched"
                         \/ /\ calls[c].state \in {"received", "response_rejected"}
                            /\ c \notin Consumed(w)}

OpenOnce == \A w \in DOMAIN work : \A c, d \in Open(w) : c = d

\* Only a task that gave up at its rejection limit leaves a receipt.
LeftAtLimit ==
  \A w \in DOMAIN work :
    work[w].status = "done" /\ Open(w) # {} =>
      /\ w \in DOMAIN decisions
      /\ Cardinality(RuledAs(w, "rejected")) = tasks[w].rejections

\* A decision is what its receipt proposes, or a rejection.
Reparsed ==
  \A w \in DOMAIN work : \A d \in RulingsOf(w) :
    /\ d.call.kind = "model"
    /\ calls[d.call].state = "received" =>
         d.decision \in {Parsed(tasks[w], answers[d.call]).kind, "rejected"}

\* A result is the verdict of the last check of what it was made from.
Rederived ==
  \A w \in DOMAIN derived :
    derived[w].kind # "output" =>
      /\ tasks[w].kind = "host"
      /\ Evidence(w) # {}
      /\ derived[w].accepted = (answers[LastEvidence(w)].verdict = "pass")
      /\ derived[w].lineage = {LastEvidence(w), artifacts[tasks[w].rule.candidate].call}

Accounted == violated \subseteq DOMAIN calls /\ AccountingAgrees

\* What a request was frozen from is there, as it was: calls that are over, inputs that
\* are published, and of the model calls those of earlier steps, all consumed.
Rebuilt(c) ==
  LET w == c.work
      seen == frozen[c].seen
  IN
  /\ seen \subseteq CallsOf(w) /\ \A x \in seen : calls[x].state \in Final
  /\ EffectiveReads(w, c.step) \subseteq DOMAIN artifacts
  /\ \A x \in CallsOf(w) :
       x.kind = "model" /\ calls[x].state # "abandoned" =>
         IF x \in seen THEN x.step < c.step /\ x \in Consumed(w) ELSE x = c \/ c.step < x.step
  /\ frozen[c].context = AsOf(c)

FrozenRebuilt ==
  /\ DOMAIN frozen = Model
  /\ \A c \in Model : calls[c].state # "abandoned" => Rebuilt(c)

TableFacts == OpenOnce /\ LeftAtLimit /\ Reparsed /\ Rederived /\ Accounted /\ FrozenRebuilt

-----------------------------------------------------------------------------
\* What a runner has in memory

Working == {"claimed", "infer", "reserved", "sent", "consume", "refuse", "giveup", "release"}
Tasked == Working \cup {"chosen"}

\* A process has these fields in memory.
Memory(s) ==
  s = [at |-> s.at, task |-> s.task, agent |-> s.agent, lease |-> s.lease, call |-> s.call,
       status |-> s.status, sweeps |-> s.sweeps, stalled |-> s.stalled, last |-> s.last,
       erred |-> s.erred, outcome |-> s.outcome]

Remembered ==
  runner = [r \in DOMAIN runner |-> runner[r]] /\ \A r \in DOMAIN runner : Memory(runner[r])

\* The call in memory is one a runner makes at that place.
CallInMind(s) ==
  /\ s.at = "infer" =>
       s.call \in [work : {s.task}, kind : {"model"}, step : Nat, attempt : 0 .. MaxOperations + 1]
  /\ s.at \in {"reserved", "sent"} =>
       s.call \in CallsOf(s.task) /\ calls[s.call].epoch = s.lease.epoch
  /\ s.at = "sent" => s.call \notin violated
  /\ s.at \in {"consume", "refuse"} =>
       /\ s.call \in CallsOf(s.task) /\ s.call.kind = "model"
       /\ calls[s.call].state \in {"received", "response_rejected"}

Placed(s) ==
  /\ s.at \in Tasked \cup {"idle", "ended", "raised"}
  /\ s.at \in Tasked => s.task \in DOMAIN work /\ s.agent \in tasks[s.task].agents
  /\ s.at \in Working => s.lease \in granted /\ s.lease.work = s.task
  /\ s.at # "ended" => s.outcome = None
  /\ CallInMind(s)

\* No call of w is reserved or under way.
Quiet(w) == \A c \in CallsOf(w) : calls[c].state \notin Unsettled

\* What stays true of the task for as long as the lease holds.
Current(s) ==
  LET w == s.task IN
  /\ s.at \in {"claimed", "infer", "consume", "refuse", "giveup"} => Quiet(w)
  /\ s.at = "infer" =>
       \A c \in CallsOf(w) :
         c.kind = "model" /\ calls[c].state # "abandoned" => c.step < s.call.step
  /\ s.at = "infer" \/ (s.at = "reserved" /\ s.call.kind = "model") => Open(w) = {}
  /\ s.at \in {"consume", "refuse"} => s.call \notin Consumed(w)
  /\ s.at = "giveup" =>
       Open(w) = {} \/ Cardinality(RuledAs(w, "rejected")) = tasks[w].rejections

RunnersPlaced ==
  \A r \in DOMAIN runner :
    /\ Placed(runner[r])
    /\ runner[r].at \in Working /\ Holds(runner[r].lease) => Current(runner[r])

LeasesApart ==
  \A q, r \in DOMAIN runner :
    runner[q].at \in Working /\ runner[r].at \in Working /\ runner[q].lease = runner[r].lease =>
      q = r

-----------------------------------------------------------------------------
\* What the only runner has seen

Standing(w) == work[w].status = "leased" /\ ~work[w].lapsed

Met(s) == DOMAIN s.last \cup (IF s.at \in Tasked THEN {s.task} ELSE {})

\* Nobody but it holds a lease of work it has selected before.
OwnStanding ==
  \A r \in DOMAIN runner : DOMAIN runner = {r} =>
    \A w \in Met(runner[r]) :
      /\ w \in DOMAIN work
      /\ Standing(w) => /\ runner[r].at \in Working
                        /\ runner[r].lease.work = w
                        /\ runner[r].lease.epoch = work[w].epoch

RunInv ==
  /\ LedgerFacts /\ TableFacts
  /\ Remembered
  /\ RunnersPlaced /\ LeasesApart
  /\ OwnStanding /\ SuccessWhenFinished

-----------------------------------------------------------------------------
\* The ledger facts

\* Every step but the admission of children is one of the layer below on the same tasks.
LEMMA BaseOrAdmitting ==
  ASSUME OrchStep
  PROVE  \/ BaseStep /\ UNCHANGED tasks
         \/ \E c \in DOMAIN calls : \E kids : Admitting(c, kids)
BY DEF OrchStep, Silent, IdleTables, Rejecting, Abstaining, Repeating, Starting, ReservingModel,
       ReservingTool, Reserving, Answering, Deriving, Derives

\* The rows of a step below: executors stay, a lease is granted in the present run, and
\* whoever is given one is an executor.
BaseRows(w) ==
  /\ w \in DOMAIN work'
  /\ work'[w].agents = work[w].agents
  /\ work'[w].status = "superseded" => work[w].status = "superseded"
  /\ work'[w].status = "leased" =>
       \/ work'[w].generation = run.generation /\ Shown(w)' \in granted'
       \/ /\ work[w].status = "leased" /\ work'[w].generation = work[w].generation
          /\ work'[w].owner = work[w].owner /\ work'[w].epoch = work[w].epoch

RunKept == run' = run \/ run'.status # "running"

Granted ==
  \A l \in granted' : l \in granted \/ (l.work \in DOMAIN work /\ l.owner \in work[l.work].agents)

\* The rows an ending leaves.
LEMMA EndedBaseRows ==
  ASSUME TypeOK, NEW v \in DOMAIN work, NEW a \in Agent, NEW rows, NEW freed,
         EndsFrom(rows, v, a, freed), Ended(rows, v, freed)
  PROVE  /\ \A w \in DOMAIN work : BaseRows(w)
         /\ RunKept /\ Granted
<1>1. /\ work' = [rows EXCEPT ![v] = Free(rows[v], "done")]
      /\ run' = IF LastOpen(rows, v) THEN [run EXCEPT !.status = "completed"] ELSE run
      /\ UNCHANGED granted
  BY DEF Ended
<1>2. /\ DOMAIN rows = DOMAIN work /\ rows[v] \in Row /\ rows[v].agents = work[v].agents
      /\ \A u \in DOMAIN work \ {v} : rows[u] = work[u] \/ rows[u] = RecoveredWork[u]
  <2>1. CASE rows = work
    BY <2>1 DEF TypeOK
  <2>2. CASE rows = RecoveredWork
    BY <2>2, RecoveredRows
  <2>3. CASE rows = [RecoveredWork EXCEPT ![v] = Leased(RecoveredWork[v], a)]
    BY <2>3, RecoveredRows, LeasedRow
  <2>. QED
    BY <2>1, <2>2, <2>3 DEF EndsFrom
<1>3. work'[v].status = "done" /\ work'[v].agents = work[v].agents /\ DOMAIN work' = DOMAIN work
  BY <1>1, <1>2, FreedRow DEF WorkStatus
<1>4. ASSUME NEW u \in DOMAIN work PROVE BaseRows(u)
  BY <1>1, <1>2, <1>3, RecoveredRows DEF BaseRows
<1>5. RunKept
  BY <1>1 DEF TypeOK, Run, RunKept
<1>. QED
  BY <1>1, <1>4, <1>5 DEF Granted

\* The rows of every step below.
LEMMA BaseStepRows ==
  ASSUME TypeOK, BaseStep
  PROVE  /\ \A w \in DOMAIN work : BaseRows(w)
         /\ RunKept /\ Granted
<1>. DEFINE Goal == (\A w \in DOMAIN work : BaseRows(w)) /\ RunKept /\ Granted
<1>. USE DEF RunKept, Granted
<1>1. CASE UNCHANGED vars
  BY <1>1 DEF vars, BaseRows
<1>2. ASSUME NEW v \in DOMAIN work, Expire(v) PROVE Goal
  BY <1>2 DEF Expire, TypeOK, Row, BaseRows
<1>3. CASE Recover
  BY <1>3, RecoveredRows DEF Recover, BaseRows
<1>4. ASSUME NEW a \in Agent, NEW v \in DOMAIN work, Claim(a, v) PROVE Goal
  <2>1. RecoveredWork[v] \in Row /\ RecoveredWork[v].agents = work[v].agents /\ a \in work[v].agents
    BY <1>4, RecoveredRows DEF Claim, Claimable
  <2>2. work' = [RecoveredWork EXCEPT ![v] = Leased(RecoveredWork[v], a)] /\ UNCHANGED run
        /\ granted' = granted \cup {[work |-> v, owner |-> a, epoch |-> work[v].epoch + 1]}
    BY <1>4 DEF Claim
  <2>3. /\ Leased(RecoveredWork[v], a).agents = work[v].agents
        /\ Leased(RecoveredWork[v], a).status = "leased"
        /\ Leased(RecoveredWork[v], a).owner = a
        /\ Leased(RecoveredWork[v], a).epoch = work[v].epoch + 1
    BY <2>1, LeasedRow, RecoveredRows
  <2>4. Leased(RecoveredWork[v], a).generation = run.generation
    BY <2>1 DEF Leased, Row
  <2>5. work'[v] = Leased(RecoveredWork[v], a) /\ v \in DOMAIN work'
    BY <2>2, RecoveredRows
  <2>6. Shown(v)' \in granted'
    BY <2>2, <2>3, <2>5 DEF Shown
  <2>7. BaseRows(v)
    BY <2>2, <2>3, <2>4, <2>5, <2>6 DEF BaseRows
  <2>8. ASSUME NEW u \in DOMAIN work \ {v} PROVE BaseRows(u)
    BY <2>2, RecoveredRows DEF BaseRows
  <2>. QED
    BY <2>1, <2>2, <2>7, <2>8
<1>5. ASSUME NEW l \in granted, NEW c \in CallId, NEW p \in Nat, NEW m \in Nat, Reserve(l, c, p, m)
      PROVE  Goal
  BY <1>5 DEF Reserve, BaseRows
<1>6. ASSUME NEW l \in granted, NEW c \in DOMAIN calls, Dispatch(l, c) PROVE Goal
  BY <1>6 DEF Dispatch, BaseRows
<1>7. ASSUME NEW c \in DOMAIN calls, NEW n \in Nat, NEW o \in BOOLEAN, Settle(c, n, o) PROVE Goal
  BY <1>7 DEF Settle, TypeOK, Row, BaseRows
<1>9. CASE Cancel
  <2>1. DOMAIN work' = DOMAIN work /\ run'.status = "cancelled" /\ UNCHANGED granted
    BY <1>9 DEF Cancel
  <2>2. ASSUME NEW u \in DOMAIN work PROVE BaseRows(u)
    BY <1>9, <2>1, FreedRow DEF Cancel, TypeOK, WorkStatus, BaseRows
  <2>. QED
    BY <2>1, <2>2
<1>10. ASSUME NEW v \in DOMAIN work, NEW a \in Agent, NEW c \in DOMAIN calls, Published(v, a, c)
       PROVE  Goal
  BY <1>10, EndedBaseRows DEF Published, RecordArtifact, Ended
<1>11. CASE Terminated
  BY <1>11, EndedBaseRows DEF Terminated, Terminate, Ended
<1>12. ASSUME NEW l \in granted, Release(l) PROVE Goal
  <2>1. UNCHANGED <<run, granted>> /\ l.work \in DOMAIN work
        /\ work' = [work EXCEPT ![l.work] =
             Free(work[l.work], IF Settled(l.work) THEN "ready" ELSE "uncertain")]
    BY <1>12 DEF Release, Holds
  <2>2. ASSUME NEW u \in DOMAIN work PROVE BaseRows(u)
    BY <2>1, FreedRow DEF TypeOK, WorkStatus, BaseRows
  <2>. QED
    BY <2>1, <2>2
<1>. QED
  BY <1>1, <1>2, <1>3, <1>4, <1>5, <1>6, <1>7, <1>9, <1>10, <1>11, <1>12
     DEF BaseStep, TreeStep, LedgerNext

\* The children c's receipt proposed are admitted, and c's work waits for them.
Brought(c, kids) ==
  /\ c.work \in DOMAIN work /\ DOMAIN kids \cap DOMAIN work = {}
  /\ DOMAIN work' = DOMAIN work \cup DOMAIN kids
  /\ DOMAIN tasks' = DOMAIN work'
  /\ \A k \in DOMAIN kids :
       /\ work'[k].status = "ready"
       /\ work'[k].agents = tasks[c.work].agents
       /\ work'[k].dependencies = ChildTask(tasks[c.work], kids[k]).dependencies
       /\ tasks'[k] = ChildTask(tasks[c.work], kids[k])
  /\ \A v \in DOMAIN work :
       /\ tasks'[v] = tasks[v]
       /\ work'[v].agents = work[v].agents
       /\ \/ work'[v].dependencies = work[v].dependencies
          \/ v = c.work /\ work'[v].dependencies = work[v].dependencies \cup DOMAIN kids
       /\ \/ work'[v] = work[v]
          \/ v = c.work /\ work'[v].status = "ready"
  /\ Narrow(tasks[c.work], kids)
  /\ UNCHANGED <<run, calls, artifacts, granted, decisions, held, bindings, answers, derived>>

\* An admission of children leaves them.
LEMMA AdmittedRows ==
  ASSUME TypeOK, OrchTypeOK, NEW c, NEW kids, Admitting(c, kids)
  PROVE  Brought(c, kids)
<1>1. PICK l \in granted : /\ Valid(OfferOf(l.work, kids))
                           /\ Decompose(l, OfferOf(l.work, kids))
                           /\ Admits(l.work, c, kids)
  BY DEF Admitting
<1>. DEFINE w == l.work
            offer == OfferOf(w, kids)
<1>2. /\ w \in DOMAIN work /\ c.work = w /\ DOMAIN kids \cap DOMAIN work = {}
      /\ Narrow(tasks[w], kids)
      /\ DOMAIN tasks' = DOMAIN kids \cup DOMAIN tasks
      /\ \A k \in DOMAIN kids : tasks'[k] = ChildTask(tasks[w], kids[k])
      /\ \A v \in DOMAIN tasks \ DOMAIN kids : tasks'[v] = tasks[v]
      /\ UNCHANGED <<bindings, answers, derived>>
  BY <1>1 DEF Admits
<1>3. DOMAIN tasks = DOMAIN work
  BY DEF OrchTypeOK
<1>4. /\ DOMAIN offer = DOMAIN kids
      /\ \A k \in DOMAIN kids :
           /\ offer[k].dependencies = ChildTask(tasks[w], kids[k]).dependencies
           /\ offer[k].agents = tasks[w].agents
  BY DEF OfferOf
<1>. HIDE DEF offer
<1>5. /\ work' = [v \in DOMAIN work \cup DOMAIN offer |->
           IF v \in DOMAIN offer
           THEN [status |-> "ready", owner |-> None, epoch |-> 0, lapsed |-> FALSE,
                 generation |-> run.generation,
                 dependencies |-> offer[v].dependencies, agents |-> offer[v].agents]
           ELSE IF v = w
           THEN [Free(work[w], "ready") EXCEPT !.dependencies = GraphWith(w, offer)[w]]
           ELSE work[v]]
      /\ UNCHANGED <<run, calls, artifacts, granted, decisions, held>>
  BY <1>1 DEF Decompose, GraphWith, offer
<1>6. GraphWith(w, offer)[w] = work[w].dependencies \cup DOMAIN kids
  BY <1>2, <1>4 DEF GraphWith
<1>7. /\ Free(work[w], "ready").agents = work[w].agents
      /\ Free(work[w], "ready").status = "ready"
      /\ Free(work[w], "ready") \in Row
  BY <1>2, FreedRow DEF TypeOK, WorkStatus
<1>8. DOMAIN work' = DOMAIN work \cup DOMAIN kids
  BY <1>4, <1>5
<1>9. ASSUME NEW k \in DOMAIN kids
      PROVE  /\ work'[k].status = "ready"
             /\ work'[k].agents = tasks[w].agents
             /\ work'[k].dependencies = ChildTask(tasks[w], kids[k]).dependencies
  BY <1>4, <1>5
<1>10. /\ work'[w].agents = work[w].agents /\ work'[w].status = "ready"
       /\ work'[w].dependencies = work[w].dependencies \cup DOMAIN kids
  BY <1>2, <1>4, <1>5, <1>6, <1>7 DEF Row
<1>11. \A v \in DOMAIN work \ {w} : work'[v] = work[v]
  BY <1>2, <1>4, <1>5
<1>12. Narrow(tasks[c.work], kids)
  BY <1>2
<1>13. ASSUME NEW k \in DOMAIN kids
       PROVE  /\ work'[k].status = "ready"
              /\ work'[k].agents = tasks[c.work].agents
              /\ work'[k].dependencies = ChildTask(tasks[c.work], kids[k]).dependencies
              /\ tasks'[k] = ChildTask(tasks[c.work], kids[k])
  BY <1>2, <1>9
<1>. HIDE DEF w
<1>14. ASSUME NEW v \in DOMAIN work
       PROVE  /\ tasks'[v] = tasks[v]
              /\ work'[v].agents = work[v].agents
              /\ \/ work'[v].dependencies = work[v].dependencies
                 \/ v = c.work /\ work'[v].dependencies = work[v].dependencies \cup DOMAIN kids
              /\ \/ work'[v] = work[v]
                 \/ v = c.work /\ work'[v].status = "ready"
  BY <1>2, <1>3, <1>10, <1>11
<1>. QED
  BY <1>2, <1>3, <1>5, <1>8, <1>12, <1>13, <1>14 DEF Brought

\* Executors stay those of the task.
LEMMA AgentsKept ==
  ASSUME TreeInv, OrchTypeOK, OrchTypeOK', AgentsDeclared, OrchStep
  PROVE  AgentsDeclared'
<1>1. TypeOK /\ GrantsBounded /\ DOMAIN tasks = DOMAIN work /\ DOMAIN tasks' = DOMAIN work'
  BY DEF TreeInv, LedgerInv, OrchTypeOK
<1>2. CASE BaseStep /\ UNCHANGED tasks
  <2>1. DOMAIN work' = DOMAIN work
    BY <1>1, <1>2
  <2>2. (\A w \in DOMAIN work : BaseRows(w)) /\ Granted
    BY <1>1, <1>2, BaseStepRows
  <2>. QED
    BY <1>1, <1>2, <2>1, <2>2 DEF AgentsDeclared, BaseRows, Granted, GrantsBounded
<1>3. ASSUME NEW c \in DOMAIN calls, NEW kids, Admitting(c, kids) PROVE AgentsDeclared'
  <2>1. Brought(c, kids)
    BY <1>1, <1>3, AdmittedRows
  <2>2. \A k \in DOMAIN kids : tasks'[k].agents = tasks[c.work].agents
    BY <2>1 DEF Brought, ChildTask
  <2>. QED
    BY <1>1, <2>1, <2>2 DEF Brought, AgentsDeclared, GrantsBounded
<1>. QED
  BY <1>2, <1>3, BaseOrAdmitting

\* A child waits for what it may read of its parent and for the children it names.
LEMMA ReadsKept ==
  ASSUME TreeInv, OrchTypeOK, OrchTypeOK', ReadsAwaited, OrchStep, Frame
  PROVE  ReadsAwaited'
<1>1. TypeOK /\ DOMAIN tasks = DOMAIN work /\ DOMAIN tasks' = DOMAIN work'
  BY DEF TreeInv, LedgerInv, OrchTypeOK
<1>2. CASE BaseStep /\ UNCHANGED tasks
  BY <1>1, <1>2 DEF ReadsAwaited, Frame
<1>3. ASSUME NEW c \in DOMAIN calls, NEW kids, Admitting(c, kids) PROVE ReadsAwaited'
  <2>. DEFINE row == tasks[c.work]
  <2>0. Brought(c, kids)
    BY <1>1, <1>3, AdmittedRows
  <2>1. ASSUME NEW k \in DOMAIN kids
        PROVE  /\ tasks'[k].kind = "model"
               /\ tasks'[k].reads \subseteq work'[k].dependencies
    <3>1. kids[k].reads \subseteq row.reads \cup kids[k].dependencies
      BY <2>0 DEF Brought, Narrow
    <3>. QED
      BY <2>0, <3>1 DEF Brought, ChildTask
  <2>2. ASSUME NEW v \in DOMAIN work
        PROVE  tasks'[v] = tasks[v] /\ work[v].dependencies \subseteq work'[v].dependencies
    BY <2>0 DEF Brought
  <2>3. DOMAIN tasks' = DOMAIN work \cup DOMAIN kids
    BY <2>0 DEF Brought
  <2>. QED
    BY <1>1, <2>1, <2>2, <2>3 DEF ReadsAwaited
<1>. QED
  BY <1>2, <1>3, BaseOrAdmitting

\* A child has no more steps than its parent.
LEMMA KeysKept ==
  ASSUME TreeInv, OrchTypeOK, OrchTypeOK', KeysGiven, OrchStep
  PROVE  KeysGiven'
<1>1. TypeOK /\ DOMAIN tasks = DOMAIN work /\ DOMAIN tasks' = DOMAIN work'
  BY DEF TreeInv, LedgerInv, OrchTypeOK
<1>2. CASE BaseStep /\ UNCHANGED tasks
  BY <1>2 DEF KeysGiven
<1>3. ASSUME NEW c \in DOMAIN calls, NEW kids, Admitting(c, kids) PROVE KeysGiven'
  <2>0. Brought(c, kids)
    BY <1>1, <1>3, AdmittedRows
  <2>1. ASSUME NEW k \in DOMAIN kids, NEW n \in 0 .. tasks'[k].steps - 1
        PROVE  n \in 0 .. tasks[c.work].steps - 1
    <3>1. tasks'[k].steps = kids[k].steps /\ kids[k].steps <= tasks[c.work].steps
      BY <2>0 DEF Brought, Narrow, ChildTask
    <3>2. tasks'[k].steps \in Nat /\ tasks[c.work].steps \in Nat
      BY <2>0 DEF Brought, OrchTypeOK, TaskRow
    <3>. QED
      BY <3>1, <3>2
  <2>2. \A v \in DOMAIN work : tasks'[v] = tasks[v]
    BY <2>0 DEF Brought
  <2>3. DOMAIN tasks' = DOMAIN work \cup DOMAIN kids /\ c.work \in DOMAIN work
    BY <2>0 DEF Brought
  <2>4. SUFFICES ASSUME NEW w \in DOMAIN tasks', NEW n \in 0 .. tasks'[w].steps - 1
                 PROVE  [work : Work, kind : {"model", "tool"}, step : {n},
                         attempt : 0 .. MaxOperations + 1] \subseteq CallId
    BY DEF KeysGiven
  <2>5. CASE w \in DOMAIN kids
    BY <1>1, <2>1, <2>3, <2>5 DEF KeysGiven
  <2>6. CASE w \in DOMAIN work
    BY <1>1, <2>2, <2>6 DEF KeysGiven
  <2>. QED
    BY <2>3, <2>5, <2>6
<1>. QED
  BY <1>2, <1>3, BaseOrAdmitting

\* A new call is of the lease it was reserved under.
LEMMA ReservedUnder ==
  ASSUME TypeOK, BaseStep, NEW c \in DOMAIN calls' \ DOMAIN calls
  PROVE  \E l \in granted : l.work = calls'[c].work /\ l.epoch = calls'[c].epoch
<1>1. CASE TreeStep
  <2>1. PICK l \in granted, d \in CallId, p \in Nat, m \in Nat : Reserve(l, d, p, m)
    BY <1>1 DEF TreeStep
  <2>2. DOMAIN calls' = DOMAIN calls \cup {d} /\ calls'[d].work = l.work /\ calls'[d].epoch = l.epoch
    BY <2>1, ReservedRow
  <2>3. c = d
    BY <2>2
  <2>. QED
    BY <2>2, <2>3
<1>2. ASSUME NEW l \in granted, Release(l) PROVE FALSE
  BY <1>2, ReleasedRows, AbandonedCalls
<1>3. CASE Terminated
  BY <1>3, AbandonedCalls DEF Terminated, Terminate
<1>. QED
  BY <1>1, <1>2, <1>3 DEF BaseStep

\* A reserved call is claimed under its lease.
LEMMA NewCallClaimed ==
  ASSUME TypeOK, OrchTypeOK, TablesKept, NEW c \in CallId, NEW b, Reserving(c, b),
         tasks[c.work].kind = "model"
  PROVE  /\ DOMAIN calls' = DOMAIN calls \cup {c}
         /\ \A d \in DOMAIN calls : calls'[d] = calls[d]
         /\ bindings'[c] = b /\ \A d \in DOMAIN calls : bindings'[d] = bindings[d]
         /\ \A w \in DOMAIN work : tasks'[w] = tasks[w]
         /\ tasks'[c.work].kind = "model"
         /\ \E l \in granted' : l.work = c.work /\ l.epoch = calls'[c].epoch
<1>1. /\ BaseStep /\ c \notin DOMAIN calls
      /\ DOMAIN calls' = DOMAIN calls \cup {c} /\ calls'[c].work = c.work
      /\ bindings' = Put(bindings, c, b) /\ DOMAIN bindings = DOMAIN calls
      /\ UNCHANGED <<work, tasks>>
  BY DEF Reserving, OnlyCall, OrchTypeOK
<1>2. granted \subseteq granted'
  BY <1>1, GrantsGrow
<1>3. \E l \in granted : l.work = calls'[c].work /\ l.epoch = calls'[c].epoch
  BY <1>1, ReservedUnder
<1>4. bindings'[c] = b /\ \A d \in DOMAIN calls : bindings'[d] = bindings[d]
  BY <1>1 DEF Put
<1>. QED
  BY <1>1, <1>2, <1>3, <1>4 DEF Reserving, OnlyCall

\* Calls are claimed when they are reserved, and stay so.
LEMMA ClaimedKept ==
  ASSUME TreeInv, OrchTypeOK, OrchTypeOK', TablesKept, Frame, CallsClaimed, OrchStep
  PROVE  CallsClaimed'
<1>1. /\ TypeOK /\ DOMAIN tasks = DOMAIN work /\ DOMAIN bindings = DOMAIN calls
      /\ \A c \in DOMAIN calls : c.work \in DOMAIN work
  BY DEF TreeInv, LedgerInv, OrchTypeOK, TypeOK
<1>2. granted \subseteq granted'
  <2>1. ASSUME NEW c \in DOMAIN calls, NEW kids, Admitting(c, kids) PROVE granted \subseteq granted'
    BY <1>1, <2>1, AdmittedRows DEF Brought
  <2>. QED
    BY <2>1, BaseOrAdmitting, GrantsGrow
<1>3. \A c \in DOMAIN calls : c \in DOMAIN calls' /\ calls'[c].epoch = calls[c].epoch
  BY DEF Frame, CallsKept
<1>4. /\ \A w \in DOMAIN work : tasks'[w] = tasks[w]
      /\ \A c \in DOMAIN calls : bindings'[c] = bindings[c]
  BY <1>1 DEF TablesKept
<1>. DEFINE Claimed(c) ==
              /\ tasks[c.work].kind = "model"
              /\ \E l \in granted : l.work = c.work /\ l.epoch = calls[c].epoch
              /\ c.kind # "model" => /\ bindings[c].source # None
                                     /\ bindings[c].tool \in tasks[c.work].tools
<1>5. ASSUME NEW c \in DOMAIN calls PROVE Claimed(c)'
  <2>1. PICK l \in granted : l.work = c.work /\ l.epoch = calls[c].epoch
    BY DEF CallsClaimed
  <2>2. \E k \in granted' : k.work = c.work /\ k.epoch = calls'[c].epoch
    BY <2>1, <1>2, <1>3
  <2>. QED
    BY <1>1, <1>4, <2>2 DEF CallsClaimed
<1>6. CASE DOMAIN calls' = DOMAIN calls
  BY <1>5, <1>6 DEF CallsClaimed
<1>7. ASSUME NEW c \in CallId, ReservingModel(c) PROVE CallsClaimed'
  <2>1. PICK inputs : Reserving(c, [inputs |-> inputs, source |-> None, tool |-> None])
    BY <1>7 DEF ReservingModel
  <2>. DEFINE b == [inputs |-> inputs, source |-> None, tool |-> None]
  <2>2. Reserving(c, b) /\ tasks[c.work].kind = "model" /\ c.kind = "model"
    BY <1>7, <2>1 DEF ReservingModel
  <2>. HIDE DEF b
  <2>3. Claimed(c)' /\ DOMAIN calls' = DOMAIN calls \cup {c}
    BY <1>1, <2>2, NewCallClaimed
  <2>. QED
    BY <1>5, <2>3 DEF CallsClaimed
<1>8. ASSUME NEW c \in CallId, NEW s \in DOMAIN answers, NEW m \in DOMAIN answers, NEW t \in Tool,
             ReservingTool(c, s, m, t)
      PROVE  CallsClaimed'
  <2>1. PICK inputs : Reserving(c, [inputs |-> inputs, source |-> m, tool |-> t])
    BY <1>8 DEF ReservingTool
  <2>. DEFINE b == [inputs |-> inputs, source |-> m, tool |-> t]
  <2>2. /\ Reserving(c, b) /\ b.source = m /\ b.tool = t
        /\ tasks[c.work].kind = "model" /\ t \in tasks[c.work].tools
    BY <1>8, <2>1 DEF ReservingTool
  <2>3. m # None /\ c.work \in DOMAIN work
    BY <2>2, <1>1, WorkflowAssumption DEF OrchTypeOK, TypeOK, Reserving
  <2>. HIDE DEF b
  <2>4. /\ DOMAIN calls' = DOMAIN calls \cup {c}
        /\ bindings'[c] = b /\ tasks'[c.work] = tasks[c.work]
        /\ \E l \in granted' : l.work = c.work /\ l.epoch = calls'[c].epoch
    BY <1>1, <2>2, <2>3, NewCallClaimed
  <2>5. Claimed(c)'
    BY <2>2, <2>3, <2>4
  <2>. QED
    BY <1>5, <2>4, <2>5 DEF CallsClaimed
<1>. QED
  BY <1>6, <1>7, <1>8, NewCalls

\* Nothing here marks work.
LEMMA NothingMarked ==
  ASSUME [OrchestrationNext]_orchestrationVars
  PROVE  UNCHANGED held
<1>. USE DEF platformTables
<1>1. CASE UNCHANGED orchestrationVars
  BY <1>1 DEF orchestrationVars, platformVars
<1>2. CASE \/ \E w \in DOMAIN work : Expire(w) /\ UNCHANGED <<platformTables, orchestrationTables>>
           \/ RecoverFreely /\ UNCHANGED orchestrationTables
           \/ Cancel /\ UNCHANGED <<platformTables, orchestrationTables>>
           \/ \E l \in granted : Release(l) /\ UNCHANGED orchestrationTables
           \/ \E a \in Agent, w \in DOMAIN work :
                ClaimAvailable(a, w) /\ UNCHANGED orchestrationTables
  BY <1>2 DEF RecoverFreely, Release, ClaimAvailable
<1>3. ASSUME NEW l \in granted, NEW c, NEW i, \/ ReserveBounded(l, c, i)
                                              \/ \E s, m, t : ReserveToolCall(l, c, s, m, t, i)
      PROVE  UNCHANGED held
  BY <1>3 DEF ReserveBounded, ReserveToolCall, ReserveCapped, platformVars
<1>4. ASSUME NEW l \in granted, NEW c, \/ DispatchAdmitted(l, c)
                                       \/ RecordRejection(l, c)
                                       \/ \E kids : AdmitChildren(l, c, kids)
                                       \/ AbstainTask(l, c)
      PROVE  UNCHANGED held
  BY <1>4 DEF DispatchAdmitted, RecordRejection, platformVars, AdmitChildren, Decompose,
              AbstainTask, Abstain, Terminate
<1>5. ASSUME NEW c, \/ \E p, q, o, a : ReceiveModel(c, p, q, o, a)
                    \/ \E o, v : ReceiveTool(c, o, v)
                    \/ RecordViolation(c)
      PROVE  UNCHANGED held
  BY <1>5 DEF ReceiveModel, ReceiveTool, RecordViolation, platformVars
<1>6. ASSUME NEW a, NEW w, NEW kind, NEW c, NEW lineage, NEW accepted,
             PublishDerived(a, w, kind, c, lineage, accepted)
      PROVE  UNCHANGED held
  BY <1>6 DEF PublishDerived
<1>. QED
  BY <1>1, <1>2, <1>3, <1>4, <1>5, <1>6 DEF OrchestrationNext

\* A lease is of the run it was made in.
LEMMA LeasesStayOfRun ==
  ASSUME TreeInv, OrchTypeOK, LeasesOfRun, OrchStep, UNCHANGED held
  PROVE  LeasesOfRun'
<1>1. TypeOK
  BY DEF TreeInv, LedgerInv
<1>2. CASE BaseStep
  <2>1. (\A w \in DOMAIN work : BaseRows(w)) /\ RunKept
    BY <1>1, <1>2, BaseStepRows
  <2>2. DOMAIN work' = DOMAIN work /\ LedgerInv'
    BY <1>2, BaseFrame DEF Frame, TreeInv
  <2>3. run'.status = "running" => run' = run
    BY <2>1 DEF RunKept
  <2>4. \A w \in DOMAIN work : work'[w].status = "leased" => run'.status = "running"
    <3>1. run' \in Run /\ RunMatchesWork'
      BY <2>2 DEF LedgerInv, TypeOK
    <3>. QED
      BY <2>2, <3>1 DEF RunMatchesWork, Run, RunStatus
  <2>5. ASSUME NEW w \in DOMAIN work, work'[w].status = "leased"
        PROVE  work'[w].generation = run'.generation /\ Shown(w)' \in granted'
    <3>1. run' = run
      BY <2>3, <2>4, <2>5
    <3>2. CASE work'[w].generation = run.generation /\ Shown(w)' \in granted'
      BY <3>1, <3>2
    <3>3. CASE /\ work[w].status = "leased" /\ work'[w].generation = work[w].generation
               /\ work'[w].owner = work[w].owner /\ work'[w].epoch = work[w].epoch
      <4>1. Shown(w)' = Shown(w)
        BY <3>3 DEF Shown
      <4>. QED
        BY <1>2, <3>1, <3>3, <4>1, GrantsGrow DEF LeasesOfRun
    <3>. QED
      BY <2>1, <2>5, <3>2, <3>3 DEF BaseRows
  <2>. QED
    BY <2>1, <2>2, <2>3, <2>5 DEF LeasesOfRun, BaseRows
<1>3. ASSUME NEW c \in DOMAIN calls, NEW kids, Admitting(c, kids) PROVE LeasesOfRun'
  <2>1. Brought(c, kids)
    BY <1>1, <1>3, AdmittedRows
  <2>2. ASSUME NEW v \in DOMAIN work, work'[v] = work[v] PROVE Shown(v)' = Shown(v)
    BY <2>2 DEF Shown
  <2>. QED
    BY <2>1, <2>2 DEF Brought, LeasesOfRun
<1>. QED
  BY <1>2, <1>3, BaseOrAdmitting

\* What the ledger keeps besides, it keeps in every step.
LEMMA LedgerFactsKept ==
  ASSUME LedgerFacts, [OrchestrationNext]_orchestrationVars, Paired'
  PROVE  LedgerFacts'
<1>1. OrchInv'
  BY OrchNextInv DEF LedgerFacts
<1>2. TreeInv /\ OrchTypeOK /\ TreeInv' /\ OrchTypeOK'
  BY <1>1 DEF LedgerFacts, OrchInv
<1>3. OrchStep /\ Frame /\ TablesKept
  BY <1>2, OrchSteps, OrchFrame
<1>4. UNCHANGED held
  BY NothingMarked
<1>. QED
  BY <1>1, <1>2, <1>3, <1>4, AgentsKept, ReadsKept, KeysKept, ClaimedKept, LeasesStayOfRun
     DEF LedgerFacts

\* create leaves them.
LEMMA LedgerFactsInit == OrchestrationInit => LedgerFacts
<1>. SUFFICES ASSUME OrchestrationInit PROVE LedgerFacts
  OBVIOUS
<1>1. OrchInv
  BY OrchInitInv
<1>2. /\ tasks \in Workflows
      /\ ValidWorkflow(tasks)
      /\ DOMAIN work = DOMAIN tasks
      /\ calls = [c \in {} |-> None] /\ granted = {} /\ held = {}
      /\ run.enabled
      /\ \A w \in DOMAIN tasks :
           /\ work[w].status = "ready"
           /\ work[w].agents = tasks[w].agents
           /\ work[w].dependencies = tasks[w].dependencies
  BY WorkflowAssumption
     DEF OrchestrationInit, PlatformInitOf, InitOf, DeclaredWork, DeclaredBudgets
<1>3. \A w \in DOMAIN tasks : ValidTask(tasks[w])
  BY <1>2 DEF ValidWorkflow
<1>4. AgentsDeclared
  BY <1>2, <1>3 DEF AgentsDeclared, ValidTask
<1>5. ReadsAwaited
  BY <1>2, <1>3 DEF ReadsAwaited, ValidTask
<1>6. KeysGiven
  BY <1>2, KeyAssumption DEF KeysGiven
<1>7. CallsClaimed
  BY <1>2 DEF CallsClaimed
<1>8. LeasesOfRun
  BY <1>2 DEF LeasesOfRun
<1>9. Paired
  <2>1. DOMAIN calls = {} /\ \A w \in DOMAIN work : rulings[w] = <<>>
    BY <1>2 DEF OrchestrationInit
  <2>. QED
    BY <2>1 DEF Paired, RuledAs
<1>. QED
  BY <1>1, <1>4, <1>5, <1>6, <1>7, <1>8, <1>9 DEF LedgerFacts

-----------------------------------------------------------------------------
\* What a step of a runner writes

\* Nothing of what is said about the tables: no call is made, answered or ruled on, no
\* work ends.
Unseen == Silent /\ UNCHANGED <<decisions, violated, frozen>>

\* The runner holds the lease of its task.
Held(r) ==
  LET s == runner[r] IN
  s.lease \in granted /\ s.lease.work = s.task /\ s.task \in DOMAIN work /\ Holds(s.lease)

\* A usage beyond the bound is recorded of the call that was sent.
Noting(r) ==
  LET c == runner[r].call IN
  /\ runner[r].at = "sent"
  /\ c \in DOMAIN calls /\ c.kind = "model" /\ calls[c].state = "dispatched"
  /\ violated' = violated \cup {c}
  /\ Silent /\ UNCHANGED <<calls, decisions, frozen>>

\* A request is frozen and its call reserved.
Asking(r) ==
  LET s == runner[r]
      c == s.call
  IN
  /\ s.at = "infer" /\ Held(r) /\ c.work = s.task
  /\ c \in CallId /\ ReservingModel(c) /\ calls'[c].epoch = s.lease.epoch
  /\ frozen' = Put(frozen, c,
       [seen |-> CallsOf(s.task),
        context |-> Context(s.task, c.step, CallsOf(s.task), RulingsOf(s.task))])
  /\ UNCHANGED <<decisions, violated>>

\* A receipt that proposes a tool call is consumed by it.
Calling(r) ==
  LET s == runner[r]
      c == KeyOf(s.task, "tool", s.call.step)
  IN
  /\ s.at = "consume" /\ Held(r) /\ c.work = s.task /\ Proposal(s).kind = "tool"
  /\ c \in CallId /\ s.call \in DOMAIN answers
  /\ \E t \in Tool : ReservingTool(c, s.call, s.call, t)
  /\ calls'[c].epoch = s.lease.epoch
  /\ UNCHANGED <<decisions, violated, frozen>>

\* A reserved call is sent.
Sending(r) ==
  /\ runner[r].at = "reserved" /\ Held(r)
  /\ runner[r].call \in CallsOf(runner[r].task) /\ Starting(runner[r].call)
  /\ UNCHANGED <<decisions, violated, frozen>>

\* An answer is stored, of a usage within the bound.
Hearing(r) ==
  LET c == runner[r].call IN
  /\ runner[r].at = "sent"
  /\ \E o \in BOOLEAN : \E answer \in Reply(c.work) : Answering(c, o, answer)
  /\ c.kind = "model" => calls'[c].actual <= PromptBound + MaxNew
  /\ UNCHANGED <<decisions, violated, frozen>>

\* The proposed output is published, whoever holds the lease by now.
Publishing(r) ==
  LET s == runner[r] IN
  /\ s.at = "consume" /\ s.task \in DOMAIN work
  /\ s.call \in DOMAIN calls /\ Deriving(s.task, "output", s.call, {s.call}, TRUE)
  /\ UNCHANGED <<decisions, violated, frozen>>

\* The result is published, as the last check has it.
Judging(r) ==
  LET s == runner[r]
      e == LastEvidence(s.task)
      c == artifacts[tasks[s.task].rule.candidate].call
  IN
  /\ s.at = "chosen" /\ s.task \in DOMAIN work
  /\ tasks[s.task].kind = "host" /\ Evidence(s.task) # {} /\ e \in DOMAIN calls
  /\ Deriving(s.task, "result", e, {e, c}, answers[e].verdict = "pass")
  /\ UNCHANGED <<decisions, violated, frozen>>

Abstention(w) ==
  \E a : decisions' = Put(decisions, w, [decision |-> "abstain", publisher |-> a])

\* The task ends over the receipt that proposes to abstain,
Yielding(r) ==
  LET s == runner[r] IN
  /\ s.at = "consume" /\ Held(r) /\ Proposal(s).kind = "abstain"
  /\ s.call \in CallsOf(s.task) /\ Abstaining(s.call)
  /\ Abstention(s.task) /\ UNCHANGED <<violated, frozen>>

\* or over none.
Ending(r) ==
  /\ runner[r].at = "giveup" /\ Held(r)
  /\ Silent
  /\ Abstention(runner[r].task) /\ UNCHANGED <<violated, frozen>>

\* A proposed decomposition is admitted.
Splitting(r) ==
  LET s == runner[r] IN
  /\ s.at = "consume" /\ Held(r) /\ Proposal(s).kind = "decompose"
  /\ s.call \in CallsOf(s.task)
  /\ \E kids : Admitting(s.call, kids)
  /\ UNCHANGED <<decisions, violated, frozen>>

\* A receipt is rejected.
Dismissing(r) ==
  LET s == runner[r] IN
  /\ s.at = "refuse" /\ Held(r)
  /\ s.call \in CallsOf(s.task) /\ Rejecting(s.call)
  /\ UNCHANGED <<decisions, violated, frozen>>

Writes(r) ==
  \/ Noting(r) \/ Asking(r) \/ Calling(r) \/ Sending(r) \/ Hearing(r) \/ Publishing(r)
  \/ Judging(r) \/ Yielding(r) \/ Ending(r) \/ Splitting(r) \/ Dismissing(r)

\* A step of the ledger that writes nothing of it.
Aside == [OrchestrationNext]_orchestrationVars /\ Unseen

\* The steps of the ledger that nobody looks at.
LEMMA AsideSteps ==
  ASSUME TypeOK, UNCHANGED frozen,
         \/ UNCHANGED orchestrationVars
         \/ \E w \in DOMAIN work : Expire(w) /\ UNCHANGED <<platformTables, orchestrationTables>>
         \/ RecoverFreely /\ UNCHANGED orchestrationTables
         \/ \E a \in Agent, w \in DOMAIN work :
              ClaimAvailable(a, w) /\ UNCHANGED orchestrationTables
         \/ Cancel /\ UNCHANGED <<platformTables, orchestrationTables>>
         \/ \E l \in granted : Release(l) /\ UNCHANGED orchestrationTables
  PROVE  Aside
<1>1. Silent
  BY SilentSteps DEF Silent
<1>2. UNCHANGED <<decisions, violated>>
  BY DEF orchestrationVars, platformVars, platformTables, orchestrationTables, RecoverFreely,
         ClaimAvailable, Release
<1>3. [OrchestrationNext]_orchestrationVars
  BY DEF OrchestrationNext
<1>. QED
  BY <1>1, <1>2, <1>3 DEF Aside, Unseen

\* A transaction that raised.
LEMMA RaisedAside ==
  ASSUME TypeOK, NEW r, NEW status, Raises(r, status)
  PROVE  Aside
<1>1. UNCHANGED orchestrationVars /\ UNCHANGED frozen
  BY DEF Raises, Keep
<1>. QED
  BY <1>1, AsideSteps

\* Selecting, ending, examining and waiting in vain write nothing; claiming and
\* releasing nothing but leases.
LEMMA QuietSteps ==
  ASSUME TypeOK, NEW r \in DOMAIN runner, Placed(runner[r]),
         \/ Select(r) \/ End(r) \/ Examining(r) \/ Unanswered(r)
         \/ Claiming(r) \/ Releasing(r)
  PROVE  Aside
<1>1. CASE Select(r) \/ End(r) \/ Examining(r) \/ Unanswered(r)
  BY <1>1, AsideSteps, RaisedAside DEF Select, End, Examining, Unanswered, Keep
<1>2. CASE Claiming(r)
  <2>1. runner[r].at = "chosen" /\ UNCHANGED frozen
    BY <1>2 DEF Claiming, Keep
  <2>2. /\ runner[r].task \in DOMAIN work
        /\ ClaimAvailable(runner[r].agent, runner[r].task) => runner[r].agent \in Agent
    BY <2>1, RecoveredRows DEF Placed, Tasked, ClaimAvailable, Claim, Claimable, TypeOK, Row
  <2>3. \/ ClaimAvailable(runner[r].agent, runner[r].task) /\ UNCHANGED orchestrationTables
        \/ RecoverFreely /\ UNCHANGED orchestrationTables
        \/ UNCHANGED orchestrationVars
    BY <1>2 DEF Claiming, orchestrationVars
  <2>. QED
    BY <2>1, <2>2, <2>3, AsideSteps
<1>3. CASE Releasing(r)
  <2>1. UNCHANGED frozen /\ runner[r].lease \in granted
    BY <1>3 DEF Releasing, Placed, Working, Keep
  <2>2. \/ Release(runner[r].lease) /\ UNCHANGED orchestrationTables
        \/ RecoverFreely /\ UNCHANGED orchestrationTables
        \/ UNCHANGED orchestrationVars
    BY <1>3 DEF Releasing, orchestrationVars
  <2>. QED
    BY <2>1, <2>2, AsideSteps
<1>. QED
  BY <1>1, <1>2, <1>3

\* The steps of the environment.
LEMMA EnvironmentSteps ==
  ASSUME TypeOK, \/ UNCHANGED runtimeVars
                 \/ \E r \in Runner : Resume(r)
                 \/ \E w \in DOMAIN work : Elapse(w)
                 \/ Cancelled
  PROVE  Aside
BY AsideSteps DEF runtimeVars, Resume, Elapse, Cancelled, platformTables, orchestrationTables

\* What is readable before a step is readable now.
LEMMA ReadableNow ==
  ASSUME NEW w, NEW n
  PROVE  Readable(w, n) \subseteq Readable(w, Now)
BY DEF Readable, EffectiveReads

\* _infer's reservation.
LEMMA FreezingSteps ==
  ASSUME LedgerFacts, NEW r \in DOMAIN runner, Placed(runner[r]), Freezing(r)
  PROVE  [OrchestrationNext]_orchestrationVars /\ (Unseen \/ Asking(r))
<1>. DEFINE s == runner[r]
            c == s.call
            inputs == Readable(s.task, c.step)
<1>1. TypeOK /\ OrchTypeOK
  BY DEF LedgerFacts, OrchInv, TreeInv, LedgerInv
<1>2. CASE Raises(r, Refusal(s.lease))
  BY <1>1, <1>2, RaisedAside DEF Aside
<1>3. CASE /\ ReserveBounded(s.lease, c, inputs)
           /\ frozen' = Put(frozen, c,
                [seen |-> CallsOf(s.task),
                 context |-> Context(s.task, c.step, CallsOf(s.task), RulingsOf(s.task))])
  <2>1. s.at = "infer"
    BY DEF Freezing
  <2>2. /\ s.lease \in granted /\ s.lease.work = s.task /\ s.task \in DOMAIN work
        /\ c \in [work : {s.task}, kind : {"model"}, step : Nat, attempt : 0 .. MaxOperations + 1]
    BY <2>1 DEF Placed, Working, Tasked, CallInMind
  <2>3. Holds(s.lease) /\ c.work = s.task /\ c.step < tasks[s.task].steps
    BY <1>3, <2>2 DEF ReserveBounded, Admitted
  <2>4. c \in CallId
    <3>1. /\ s.task \in DOMAIN tasks /\ tasks[s.task].steps \in Nat /\ s.task \in Work
          /\ c.step \in Nat
      BY <1>1, <2>2 DEF OrchTypeOK, TypeOK, TaskRow
    <3>2. c.step \in 0 .. tasks[s.task].steps - 1
      BY <2>3, <3>1
    <3>3. c \in [work : Work, kind : {"model", "tool"}, step : {c.step},
                 attempt : 0 .. MaxOperations + 1]
      BY <2>2, <3>1
    <3>. QED
      BY <3>1, <3>2, <3>3 DEF LedgerFacts, KeysGiven
  <2>5. inputs \subseteq Readable(s.lease.work, Now)
    BY <2>2, ReadableNow
  <2>6. ReservingModel(c) /\ calls'[c].epoch = s.lease.epoch
    <3>1. ReservingModel(c)
      BY <1>1, <1>3, <2>2, <2>4, BoundedStep
    <3>2. \E p \in Nat, m \in Nat : Reserve(s.lease, c, p, m)
      BY <1>3, <2>2, <2>4, ReserveModelStep
    <3>. QED
      BY <1>1, <2>2, <2>4, <3>1, <3>2, ReservedRow
  <2>7. UNCHANGED <<decisions, violated>>
    BY <1>3 DEF ReserveBounded, ReserveCapped, platformTables
  <2>8. OrchestrationNext
    BY <1>3, <2>2, <2>4, <2>5 DEF OrchestrationNext
  <2>. QED
    BY <1>3, <2>1, <2>2, <2>3, <2>4, <2>6, <2>7, <2>8 DEF Asking, Held
<1>. QED
  BY <1>2, <1>3 DEF Freezing

\* dispatch.
LEMMA DispatchingSteps ==
  ASSUME LedgerFacts, NEW r \in DOMAIN runner, Placed(runner[r]), Dispatching(r)
  PROVE  [OrchestrationNext]_orchestrationVars /\ (Unseen \/ Sending(r))
<1>. DEFINE s == runner[r]
<1>1. TypeOK /\ OrchTypeOK
  BY DEF LedgerFacts, OrchInv, TreeInv, LedgerInv
<1>2. CASE Raises(r, Refusal(s.lease))
  BY <1>1, <1>2, RaisedAside DEF Aside
<1>3. CASE DispatchAdmitted(s.lease, s.call) /\ Keep
  <2>1. /\ s.at = "reserved"
        /\ s.lease \in granted /\ s.lease.work = s.task /\ s.task \in DOMAIN work
        /\ s.call \in CallsOf(s.task) /\ s.call \in DOMAIN calls
    BY DEF Dispatching, Placed, Working, Tasked, CallInMind, CallsOf
  <2>2. Holds(s.lease) /\ UNCHANGED <<decisions, violated, frozen>>
    BY <1>3 DEF DispatchAdmitted, platformTables, orchestrationTables, Keep
  <2>3. Starting(s.call)
    BY <1>1, <1>3, <2>1, StartingStep
  <2>4. OrchestrationNext
    BY <1>3, <2>1 DEF OrchestrationNext
  <2>. QED
    BY <2>1, <2>2, <2>3, <2>4 DEF Sending, Held
<1>. QED
  BY <1>2, <1>3 DEF Dispatching

\* receive of a model's answer.
LEMMA AnsweredSteps ==
  ASSUME LedgerFacts, NEW r \in DOMAIN runner, Placed(runner[r]), Answered(r)
  PROVE  [OrchestrationNext]_orchestrationVars /\ (Noting(r) \/ Hearing(r))
<1>. DEFINE c == runner[r].call
<1>1. TypeOK /\ OrchTypeOK
  BY DEF LedgerFacts, OrchInv, TreeInv, LedgerInv
<1>2. runner[r].at = "sent" /\ c.kind = "model" /\ c \in DOMAIN calls /\ UNCHANGED frozen
  BY DEF Answered, Placed, CallInMind, CallsOf, Keep
<1>3. CASE RecordViolation(c)
  <2>1. Silent
    BY <1>1, <1>2, <1>3, SilentSteps DEF Silent
  <2>2. /\ calls[c].state = "dispatched" /\ violated' = violated \cup {c}
        /\ UNCHANGED <<calls, decisions>>
    BY <1>3 DEF RecordViolation, platformVars, vars, platformTables
  <2>3. OrchestrationNext
    BY <1>2, <1>3 DEF OrchestrationNext
  <2>. QED
    BY <1>2, <2>1, <2>2, <2>3 DEF Noting
<1>4. ASSUME NEW u \in Reports, NEW o \in BOOLEAN, NEW answer \in Answers[c.work],
             u[1] <= PromptBound, u[2] <= MaxNew, ReceiveModel(c, u[1], u[2], o, answer)
      PROVE  OrchestrationNext /\ Hearing(r)
  <2>1. answer \in Reply(c.work)
    BY DEF Reply
  <2>2. Answering(c, o, answer)
    BY <1>1, <1>2, <1>4, <2>1, ModelAnswerStep, AnsweringStep
  <2>3. calls'[c].actual = u[1] + u[2]
    BY <1>1, <1>2, <1>4 DEF ReceiveModel, Settle, TypeOK, Call
  <2>4. calls'[c].actual <= PromptBound + MaxNew
    BY <1>4, <2>3, AnswerAssumption
  <2>5. UNCHANGED <<decisions, violated>>
    BY <1>4 DEF ReceiveModel, platformTables
  <2>6. OrchestrationNext
    BY <1>2, <1>4 DEF OrchestrationNext
  <2>. QED
    BY <1>2, <2>1, <2>2, <2>4, <2>5, <2>6 DEF Hearing
<1>5. PICK u \in Reports, o \in BOOLEAN, answer \in Answers[c.work] :
        IF u[1] > PromptBound \/ u[2] > MaxNew THEN RecordViolation(c)
        ELSE ReceiveModel(c, u[1], u[2], o, answer)
  BY DEF Answered
<1>6. u[1] \in Nat /\ u[2] \in Nat /\ PromptBound \in Nat /\ MaxNew \in Nat
  BY AnswerAssumption
<1>. QED
  BY <1>3, <1>4, <1>5, <1>6

\* receive of a tool's result.
LEMMA ToolAnsweredSteps ==
  ASSUME LedgerFacts, NEW r \in DOMAIN runner, Placed(runner[r]), ToolAnswered(r)
  PROVE  [OrchestrationNext]_orchestrationVars /\ Hearing(r)
<1>. DEFINE c == runner[r].call
<1>1. TypeOK /\ OrchTypeOK
  BY DEF LedgerFacts, OrchInv, TreeInv, LedgerInv
<1>2. runner[r].at = "sent" /\ c.kind = "tool" /\ c \in DOMAIN calls /\ UNCHANGED frozen
  BY DEF ToolAnswered, Placed, CallInMind, CallsOf, Keep
<1>3. PICK o \in BOOLEAN, v \in Verdicts : ReceiveTool(c, o, v)
  BY DEF ToolAnswered
<1>. DEFINE answer == [kind |-> "result", verdict |-> v]
<1>4. answer \in Reply(c.work)
  BY DEF Reply
<1>5. BaseStep /\ AnswerStored(c, o, answer) /\ UNCHANGED artifacts
  BY <1>1, <1>2, <1>3, ToolAnswerStep
<1>. HIDE DEF answer
<1>6. Answering(c, o, answer)
  BY <1>1, <1>2, <1>4, <1>5, AnsweringStep
<1>7. UNCHANGED <<decisions, violated>>
  BY <1>3 DEF ReceiveTool, platformTables
<1>8. OrchestrationNext
  BY <1>2, <1>3 DEF OrchestrationNext
<1>. QED
  BY <1>2, <1>4, <1>6, <1>7, <1>8 DEF Hearing

\* _consume, by the kind of the proposal.
LEMMA ConsumingCases ==
  ASSUME NEW r, Consuming(r)
  PROVE  LET s == runner[r]
             c == s.call
             l == s.lease
             k == Proposal(s).kind
         IN
         /\ s.at = "consume"
         /\ \/ k = "submit" /\ Submitting(r)
            \/ k = "abstain" /\ AbstainTask(l, c) /\ Return(r, "abstained") /\ Keep
            \/ k = "abstain" /\ Raises(r, StaleReceipt(l, c))
            \/ /\ k = "decompose" /\ AdmitChildren(l, c, Proposal(s).children)
               /\ Return(r, "decomposed") /\ Keep
            \/ k = "decompose" /\ Raises(r, "lost")
            \/ To(r, "refuse") /\ UNCHANGED orchestrationVars /\ Keep
            \/ k = "tool" /\ Raises(r, "budget_exhausted")
            \/ k = "tool" /\ Raises(r, StaleReceipt(l, c))
            \/ /\ k = "tool"
               /\ ReserveToolCall(l, KeyOf(s.task, "tool", c.step), c, c, Proposal(s).tool,
                                  Readable(s.task, c.step + 1))
               /\ With(r, "reserved", KeyOf(s.task, "tool", c.step))
               /\ Keep
BY DEF Consuming

\* The first key that is free is a key.
LEMMA KeyFound ==
  ASSUME NEW w, NEW kind, NEW n
  PROVE  /\ KeyOf(w, kind, n) \in [work : {w}, kind : {kind}, step : {n},
                                   attempt : 0 .. MaxOperations + 1]
<1>. DEFINE key(i) == [work |-> w, kind |-> kind, step |-> n, attempt |-> i]
            given_up == {i \in 0 .. MaxOperations :
                           key(i) \in DOMAIN calls /\ calls[key(i)].state = "abandoned"}
            left == (0 .. MaxOperations + 1) \ given_up
<1>1. MaxOperations \in Nat
  BY CapacityAssumption
<1>2. left \in SUBSET Nat /\ MaxOperations + 1 \in left
  BY <1>1
<1>3. Min(left) \in left
  BY <1>2, LeastNumber
<1>4. KeyOf(w, kind, n) = key(Min(left))
  BY DEF KeyOf
<1>5. left \subseteq 0 .. MaxOperations + 1
  OBVIOUS
<1>6. \A m \in 0 .. MaxOperations + 1 :
        key(m) \in [work : {w}, kind : {kind}, step : {n}, attempt : 0 .. MaxOperations + 1]
  OBVIOUS
<1>. HIDE DEF left, key
<1>. QED
  BY <1>3, <1>4, <1>5, <1>6

\* And it is the identity of a call, for a step the task has.
LEMMA KeyGiven ==
  ASSUME LedgerFacts, NEW w \in DOMAIN tasks, NEW kind \in {"model", "tool"}, NEW n \in Nat,
         n < tasks[w].steps
  PROVE  KeyOf(w, kind, n) \in CallId
<1>1. w \in Work /\ tasks[w].steps \in Nat
  BY DEF LedgerFacts, OrchInv, TreeInv, LedgerInv, OrchTypeOK, TypeOK, TaskRow
<1>2. n \in 0 .. tasks[w].steps - 1
  BY <1>1
<1>3. KeyOf(w, kind, n) \in [work : Work, kind : {"model", "tool"}, step : {n},
                             attempt : 0 .. MaxOperations + 1]
  BY <1>1, KeyFound
<1>. QED
  BY <1>2, <1>3 DEF LedgerFacts, KeysGiven

\* What may be proposed is the answer, as far as the task allows it.
LEMMA Proposed ==
  ASSUME NEW s, Proposal(s).kind \in {"submit", "abstain", "decompose", "tool"}
  PROVE  /\ calls[s.call].state # "response_rejected"
         /\ Proposal(s) = Parsed(tasks[s.task], answers[s.call])
         /\ Proposal(s) = answers[s.call]
BY DEF Proposal, Parsed

\* What a runner that consumes or refuses has in mind.
LEMMA ReceiptInMind ==
  ASSUME LedgerFacts, NEW r \in DOMAIN runner, Placed(runner[r]),
         runner[r].at \in {"consume", "refuse"}
  PROVE  LET s == runner[r]
             c == s.call
         IN
         /\ s.lease \in granted /\ s.lease.work = s.task
         /\ s.task \in DOMAIN work /\ s.agent \in Agent
         /\ c \in DOMAIN calls /\ c \in CallsOf(s.task) /\ c.work = s.task /\ c.kind = "model"
         /\ calls[c].state \in {"received", "response_rejected"}
         /\ c.step \in Nat
<1>. DEFINE s == runner[r]
            c == s.call
<1>1. /\ s.lease \in granted /\ s.lease.work = s.task
      /\ s.task \in DOMAIN work /\ s.agent \in tasks[s.task].agents
      /\ c \in CallsOf(s.task) /\ c.kind = "model"
      /\ calls[c].state \in {"received", "response_rejected"}
  BY DEF Placed, Working, Tasked, CallInMind
<1>2. tasks[s.task] \in TaskRow
  BY <1>1 DEF LedgerFacts, OrchInv, OrchTypeOK
<1>3. c \in DOMAIN calls /\ c.work = s.task
  BY <1>1 DEF CallsOf, LedgerFacts, OrchInv, OrchTypeOK
<1>4. c.step \in Nat
  BY <1>3, WorkflowAssumption DEF LedgerFacts, OrchInv, TreeInv, LedgerInv, TypeOK
<1>. QED
  BY <1>1, <1>2, <1>3, <1>4 DEF TaskRow

\* A proposed output.
LEMMA SubmittingSteps ==
  ASSUME LedgerFacts, NEW r \in DOMAIN runner, Placed(runner[r]), runner[r].at = "consume",
         Submitting(r)
  PROVE  [OrchestrationNext]_orchestrationVars /\ (Unseen \/ Publishing(r))
<1>. DEFINE s == runner[r]
            c == s.call
            op == PublishDerived(s.agent, s.task, "output", c, {c}, TRUE)
<1>1. TypeOK /\ TreeInv /\ OrchTypeOK
  BY DEF LedgerFacts, OrchInv, TreeInv, LedgerInv
<1>2. s.task \in DOMAIN work /\ s.agent \in Agent /\ c \in DOMAIN calls /\ c.work = s.task
  BY ReceiptInMind
<1>3. CASE op /\ Keep
  <2>1. Deriving(s.task, "output", c, {c}, TRUE)
    BY <1>1, <1>2, <1>3, DerivedStep DEF Deriving
  <2>2. UNCHANGED <<decisions, violated, frozen>>
    BY <1>3 DEF PublishDerived, Keep
  <2>3. OrchestrationNext
    BY <1>2, <1>3 DEF OrchestrationNext
  <2>. QED
    BY <1>2, <2>1, <2>2, <2>3 DEF Publishing
<1>4. CASE \E status : Raises(r, status)
  BY <1>1, <1>4, RaisedAside DEF Aside
<1>. QED
  BY <1>3, <1>4 DEF Submitting

\* admit_children asks for the lease.
LEMMA AdmittedBy ==
  ASSUME NEW l, NEW c, NEW kids, AdmitChildren(l, c, kids)
  PROVE  Holds(l) /\ UNCHANGED violated
BY DEF AdmitChildren

\* A proposed decomposition.
LEMMA SplittingSteps ==
  ASSUME LedgerFacts, NEW r \in DOMAIN runner, Placed(runner[r]), runner[r].at = "consume",
         Proposal(runner[r]).kind = "decompose",
         AdmitChildren(runner[r].lease, runner[r].call, Proposal(runner[r]).children), Keep
  PROVE  OrchestrationNext /\ Splitting(r)
<1>. DEFINE s == runner[r]
            c == s.call
            kids == Proposal(s).children
<1>1. TypeOK /\ TreeInv /\ OrchTypeOK
  BY DEF LedgerFacts, OrchInv, TreeInv, LedgerInv
<1>2. /\ s.lease \in granted /\ s.lease.work = s.task /\ s.task \in DOMAIN work
      /\ c \in DOMAIN calls /\ c \in CallsOf(s.task) /\ c.work = s.task
      /\ calls[c].state \in {"received", "response_rejected"}
  BY ReceiptInMind
<1>3. calls[c].state = "received" /\ Proposal(s) = answers[c]
  BY <1>2, Proposed
<1>4. answers[c] \in Answers[s.task] /\ s.task \in Work
  BY <1>1, <1>2, <1>3 DEF OrchTypeOK, TypeOK, Reply
<1>5. IsFiniteSet(DOMAIN kids) /\ DOMAIN kids \subseteq Work
  BY <1>3, <1>4, AnswerAssumption
<1>6. Admitting(c, kids)
  BY <1>1, <1>2, <1>5, ChildrenStep DEF Admitting
<1>7. Holds(s.lease) /\ UNCHANGED <<decisions, violated, frozen>>
  <2>. HIDE DEF kids
  <2>1. Holds(s.lease) /\ UNCHANGED violated
    BY AdmittedBy
  <2>2. Decompose(s.lease, OfferOf(s.task, kids))
    BY <1>1, <1>2, <1>5, ChildrenStep DEF kids
  <2>. QED
    BY <2>1, <2>2 DEF Decompose, Keep
<1>8. OrchestrationNext
  BY <1>2, <1>3, <1>4 DEF OrchestrationNext
<1>. QED
  BY <1>2, <1>6, <1>7, <1>8 DEF Splitting, Held

\* A proposed tool call.
LEMMA CallingSteps ==
  ASSUME LedgerFacts, NEW r \in DOMAIN runner, Placed(runner[r]), runner[r].at = "consume",
         Proposal(runner[r]).kind = "tool",
         LET s == runner[r] IN
         ReserveToolCall(s.lease, KeyOf(s.task, "tool", s.call.step), s.call, s.call,
                         Proposal(s).tool, Readable(s.task, s.call.step + 1)),
         Keep
  PROVE  OrchestrationNext /\ Calling(r)
<1>. DEFINE s == runner[r]
            c == KeyOf(s.task, "tool", s.call.step)
            tool == Proposal(s).tool
            inputs == Readable(s.task, s.call.step + 1)
<1>1. TypeOK /\ TreeInv /\ OrchTypeOK
  BY DEF LedgerFacts, OrchInv, TreeInv, LedgerInv
<1>2. /\ s.lease \in granted /\ s.lease.work = s.task /\ s.task \in DOMAIN work
      /\ s.call \in DOMAIN calls /\ s.call \in CallsOf(s.task) /\ s.call.work = s.task
      /\ s.call.kind = "model" /\ s.call.step \in Nat
      /\ calls[s.call].state \in {"received", "response_rejected"}
  BY ReceiptInMind
<1>3. calls[s.call].state = "received" /\ s.call \in DOMAIN answers
  BY <1>1, <1>2, Proposed DEF OrchTypeOK
<1>4. s.call.step < tasks[s.task].steps /\ s.task \in DOMAIN tasks
  BY <1>1, <1>2 DEF LedgerFacts, OrchInv, StepsDeclared, OrchTypeOK
<1>5. c \in CallId
  BY <1>2, <1>4, KeyGiven
<1>6. c.work = s.task /\ c.kind = "tool"
  BY KeyFound
<1>. HIDE DEF c
<1>7. /\ Holds(s.lease) /\ tool \in tasks[s.task].tools
      /\ \E p \in Nat, m \in Nat : Reserve(s.lease, c, p, m)
      /\ ~(c \in DOMAIN calls /\ bindings[c].source = s.call)
  <2>. DEFINE b == [inputs |-> inputs, source |-> s.call, tool |-> tool]
  <2>1. /\ Admitted(s.lease, c, b) /\ Holds(s.lease) /\ Receipt(s.lease, s.call)
        /\ ReserveCapped(s.lease, c, 0, 0) \/ Repeated(s.lease, c, b)
    BY DEF ReserveToolCall, c
  <2>2. AdmitTool(c, b) /\ b.tool = tool /\ b.source = s.call
    BY <1>6, <2>1 DEF Admitted
  <2>3. ~(c \in DOMAIN calls /\ bindings[c].source = s.call)
    <3>1. s.call # None
      BY <1>1, <1>2, WorkflowAssumption DEF TypeOK
    <3>2. s.call \notin Consumed(c.work)
      BY <1>2, <1>6, <2>1 DEF Receipt
    <3>3. \A i \in DOMAIN rulings[c.work] : rulings[c.work][i] # [call |-> s.call, decision |-> "tool"]
      BY <3>2 DEF Consumed
    <3>. QED
      BY <3>1, <3>3 DEF LedgerFacts, Paired
  <2>. HIDE DEF b
  <2>4. ~Repeated(s.lease, c, b)
    BY <2>2, <2>3 DEF Repeated, CallsOf
  <2>5. Reserve(s.lease, c, 0, 0)
    BY <2>1, <2>4 DEF ReserveCapped
  <2>. QED
    BY <1>6, <2>1, <2>2, <2>3, <2>5 DEF AdmitTool
<1>8. tool \in Tool
  BY <1>1, <1>2, <1>7 DEF OrchTypeOK, TaskRow
<1>9. inputs \subseteq Readable(s.lease.work, Now)
  BY <1>2, ReadableNow
<1>10. ReserveToolCall(s.lease, c, s.call, s.call, tool, inputs)
  BY DEF c
<1>. HIDE DEF tool, inputs
<1>11. ReservingTool(c, s.call, s.call, tool)
  BY <1>1, <1>2, <1>3, <1>5, <1>7, <1>8, <1>10, ToolCallStep
<1>12. calls'[c].epoch = s.lease.epoch
  BY <1>1, <1>2, <1>5, <1>7, ReservedRow
<1>13. UNCHANGED <<decisions, violated, frozen>>
  BY <1>10 DEF ReserveToolCall, ReserveCapped, platformVars, platformTables, Keep
<1>14. OrchestrationNext
  BY <1>2, <1>3, <1>5, <1>8, <1>9, <1>10 DEF OrchestrationNext
<1>. QED
  BY <1>2, <1>3, <1>5, <1>6, <1>7, <1>8, <1>11, <1>12, <1>13, <1>14 DEF Calling, Held, c

\* A proposed abstention.
LEMMA YieldingSteps ==
  ASSUME LedgerFacts, NEW r \in DOMAIN runner, Placed(runner[r]), runner[r].at = "consume",
         Proposal(runner[r]).kind = "abstain", AbstainTask(runner[r].lease, runner[r].call), Keep
  PROVE  OrchestrationNext /\ Yielding(r)
<1>. DEFINE s == runner[r]
            c == s.call
<1>1. TypeOK /\ TreeInv /\ OrchTypeOK
  BY DEF LedgerFacts, OrchInv, TreeInv, LedgerInv
<1>2. /\ s.lease \in granted /\ s.lease.work = s.task /\ s.task \in DOMAIN work
      /\ c \in DOMAIN calls /\ c \in CallsOf(s.task)
  BY ReceiptInMind
<1>3. c # None
  BY <1>1, <1>2, WorkflowAssumption DEF TypeOK
<1>4. Abstaining(c)
  BY <1>1, <1>2, <1>3, AbstainStep DEF Abstaining
<1>5. Holds(s.lease) /\ Abstention(s.task) /\ UNCHANGED <<violated, frozen>>
  BY <1>2 DEF AbstainTask, Abstain, Terminate, Abstention, Keep
<1>6. OrchestrationNext
  BY <1>2 DEF OrchestrationNext
<1>. QED
  BY <1>2, <1>4, <1>5, <1>6 DEF Yielding, Held

\* _consume.
LEMMA ConsumingSteps ==
  ASSUME LedgerFacts, NEW r \in DOMAIN runner, Placed(runner[r]), Consuming(r)
  PROVE  /\ [OrchestrationNext]_orchestrationVars
         /\ Unseen \/ Calling(r) \/ Publishing(r) \/ Yielding(r) \/ Splitting(r)
<1>1. TypeOK
  BY DEF LedgerFacts, OrchInv, TreeInv, LedgerInv
<1>2. runner[r].at = "consume"
  BY ConsumingCases
<1>3. CASE \E status : Raises(r, status)
  BY <1>1, <1>3, RaisedAside DEF Aside
<1>4. CASE UNCHANGED orchestrationVars /\ Keep
  BY <1>1, <1>4, AsideSteps DEF Aside, Keep
<1>. QED
  BY <1>2, <1>3, <1>4, ConsumingCases, SubmittingSteps, SplittingSteps, CallingSteps, YieldingSteps

\* _reject.
LEMMA RefusingSteps ==
  ASSUME LedgerFacts, NEW r \in DOMAIN runner, Placed(runner[r]), Refusing(r)
  PROVE  [OrchestrationNext]_orchestrationVars /\ (Unseen \/ Dismissing(r))
<1>. DEFINE s == runner[r]
            c == s.call
<1>1. TypeOK /\ TreeInv /\ OrchTypeOK
  BY DEF LedgerFacts, OrchInv, TreeInv, LedgerInv
<1>2. s.at = "refuse"
  BY DEF Refusing
<1>3. /\ s.lease \in granted /\ s.lease.work = s.task /\ s.task \in DOMAIN work
      /\ c \in DOMAIN calls /\ c \in CallsOf(s.task)
  BY <1>2, ReceiptInMind
<1>4. CASE RecordRejection(s.lease, c) /\ Keep
  <2>1. Rejecting(c)
    BY <1>1, <1>3, <1>4, RejectionStep DEF Rejecting
  <2>2. Holds(s.lease)
    BY <1>4 DEF RecordRejection, Rejectable
  <2>3. UNCHANGED <<decisions, violated, frozen>>
    BY <1>4 DEF RecordRejection, platformVars, platformTables, Keep
  <2>4. OrchestrationNext
    BY <1>3, <1>4 DEF OrchestrationNext
  <2>. QED
    BY <1>2, <1>3, <2>1, <2>2, <2>3, <2>4 DEF Dismissing, Held
<1>5. CASE \E status : Raises(r, status)
  BY <1>1, <1>5, RaisedAside DEF Aside
<1>6. CASE UNCHANGED orchestrationVars /\ Keep
  BY <1>1, <1>6, AsideSteps DEF Aside, Keep
<1>. QED
  BY <1>4, <1>5, <1>6 DEF Refusing

\* abstain_task at a limit.
LEMMA GivingUpSteps ==
  ASSUME LedgerFacts, NEW r \in DOMAIN runner, Placed(runner[r]), GivingUp(r)
  PROVE  [OrchestrationNext]_orchestrationVars /\ (Unseen \/ Ending(r))
<1>. DEFINE s == runner[r]
<1>1. TypeOK /\ TreeInv /\ OrchTypeOK
  BY DEF LedgerFacts, OrchInv, TreeInv, LedgerInv
<1>2. s.at = "giveup" /\ s.lease \in granted /\ s.lease.work = s.task /\ s.task \in DOMAIN work
  BY DEF GivingUp, Placed, Working, Tasked
<1>3. CASE AbstainTask(s.lease, None) /\ Keep
  <2>1. Silent
    BY <1>1, <1>2, <1>3, AbstainStep DEF Silent
  <2>2. Holds(s.lease) /\ Abstention(s.task) /\ UNCHANGED <<violated, frozen>>
    BY <1>2, <1>3 DEF AbstainTask, Abstain, Terminate, Abstention, Keep
  <2>3. OrchestrationNext
    BY <1>2, <1>3 DEF OrchestrationNext
  <2>. QED
    BY <1>2, <2>1, <2>2, <2>3 DEF Ending, Held
<1>4. CASE \E status : Raises(r, status)
  BY <1>1, <1>4, RaisedAside DEF Aside
<1>. QED
  BY <1>3, <1>4 DEF GivingUp

\* _finalize.
LEMMA FinalizingSteps ==
  ASSUME LedgerFacts, NEW r \in DOMAIN runner, Placed(runner[r]), Finalizing(r)
  PROVE  [OrchestrationNext]_orchestrationVars /\ (Unseen \/ Judging(r))
<1>. DEFINE s == runner[r]
            e == LastEvidence(s.task)
            c == artifacts[tasks[s.task].rule.candidate].call
            accepted == answers[e].verdict = "pass"
            op == PublishDerived(Host, s.task, "result", e, {e, c}, accepted)
<1>1. TypeOK /\ TreeInv /\ OrchTypeOK
  BY DEF LedgerFacts, OrchInv, TreeInv, LedgerInv
<1>2. /\ s.at = "chosen" /\ s.task \in DOMAIN work
      /\ tasks[s.task].kind = "host" /\ Evidence(s.task) # {} /\ UNCHANGED frozen
  BY DEF Finalizing, Placed, Working, Tasked, Keep
<1>3. CASE op
  <2>. HIDE DEF accepted, e, c
  <2>1. /\ Host \in work[s.task].agents
        /\ VerifiedDerivation(s.task, "result", e, {e, c})
        /\ UNCHANGED <<decisions, violated>>
    BY <1>3 DEF PublishDerived
  <2>2. e \in DOMAIN calls /\ c \in DOMAIN calls
    BY <2>1 DEF VerifiedDerivation
  <2>3. Host \in Agent
    BY <1>1, <1>2, <2>1 DEF TypeOK, Row
  <2>4. accepted \in BOOLEAN
    BY DEF accepted
  <2>5. Deriving(s.task, "result", e, {e, c}, accepted)
    BY <1>1, <1>2, <1>3, <2>2, <2>3, DerivedStep DEF Deriving
  <2>6. OrchestrationNext
    BY <1>2, <1>3, <2>2, <2>3, <2>4 DEF OrchestrationNext
  <2>. QED
    BY <1>2, <2>1, <2>2, <2>5, <2>6 DEF Judging, accepted, e, c
<1>4. CASE UNCHANGED orchestrationVars
  BY <1>1, <1>2, <1>4, AsideSteps DEF Aside
<1>. QED
  BY <1>3, <1>4 DEF Finalizing

\* So a step of a runner is one of the ledger, or none, and writes one of these things.
LEMMA RunnerSteps ==
  ASSUME LedgerFacts, NEW r \in DOMAIN runner, Placed(runner[r]), Step(r)
  PROVE  [OrchestrationNext]_orchestrationVars /\ (Unseen \/ Writes(r))
<1>1. TypeOK
  BY DEF LedgerFacts, OrchInv, TreeInv, LedgerInv
<1>2. CASE Select(r) \/ End(r) \/ Examining(r) \/ Unanswered(r) \/ Claiming(r) \/ Releasing(r)
  BY <1>1, <1>2, QuietSteps DEF Aside
<1>. QED
  BY <1>2, FreezingSteps, DispatchingSteps, AnsweredSteps, ToolAnsweredSteps, ConsumingSteps,
     RefusingSteps, GivingUpSteps, FinalizingSteps DEF Step, Writes

\* The runtime does nothing the ledger does not.
LEMMA RuntimeSteps ==
  ASSUME LedgerFacts, RunnersPlaced, [RuntimeNext]_runtimeVars
  PROVE  /\ [OrchestrationNext]_orchestrationVars
         /\ Unseen \/ \E r \in DOMAIN runner : Step(r) /\ Writes(r)
<1>1. TypeOK
  BY DEF LedgerFacts, OrchInv, TreeInv, LedgerInv
<1>2. ASSUME NEW r \in DOMAIN runner, Step(r)
      PROVE  [OrchestrationNext]_orchestrationVars /\ (Unseen \/ Writes(r))
  BY <1>2, RunnerSteps DEF RunnersPlaced
<1>. QED
  BY <1>1, <1>2, EnvironmentSteps DEF Aside, RuntimeNext

-----------------------------------------------------------------------------
\* What a step leaves alone

\* Nothing is seen to happen to the calls and rulings of w.
Undisturbed(w) ==
  /\ CallsOf(w)' = CallsOf(w)
  /\ \A c \in CallsOf(w) : calls'[c].state # calls[c].state =>
       calls[c].state = "reserved" /\ calls'[c].state = "abandoned"
  /\ rulings'[w] = rulings[w]

\* What is written about one work only.
Touching(r) ==
  \/ Asking(r) \/ Calling(r) \/ Sending(r) \/ Hearing(r)
  \/ Publishing(r) \/ Yielding(r) \/ Splitting(r) \/ Dismissing(r)

\* Idle calls, and the rulings as they were.
LEMMA IdleUndisturbed ==
  ASSUME OrchTypeOK, OrchTypeOK', IdleCalls, NEW w, rulings'[w] = rulings[w]
  PROVE  Undisturbed(w)
<1>1. /\ CallsOf(w)' = {c \in DOMAIN calls' : c.work = w}
      /\ CallsOf(w) = {c \in DOMAIN calls : c.work = w}
  BY DEF CallsOf, OrchTypeOK
<1>. QED
  BY <1>1 DEF IdleCalls, Undisturbed

\* A step about a call of other work.
LEMMA OtherUndisturbed ==
  ASSUME OrchTypeOK, OrchTypeOK', NEW c, OnlyCall(c), NEW w, w # c.work, rulings'[w] = rulings[w]
  PROVE  Undisturbed(w)
<1>1. /\ CallsOf(w)' = {d \in DOMAIN calls' : d.work = w}
      /\ CallsOf(w) = {d \in DOMAIN calls : d.work = w}
  BY DEF CallsOf, OrchTypeOK
<1>. QED
  BY <1>1 DEF OnlyCall, Undisturbed

\* The calls of a work are those with its name in the key.
LEMMA CallsByKey ==
  ASSUME OrchTypeOK, NEW w
  PROVE  CallsOf(w) = {c \in DOMAIN calls : c.work = w}
BY DEF CallsOf, OrchTypeOK

\* Whatever is written, it is about the task of the runner that writes.
LEMMA UndisturbedBy ==
  ASSUME OrchTypeOK, OrchTypeOK', NEW r \in DOMAIN runner, Placed(runner[r]),
         Unseen \/ Writes(r), NEW w \in DOMAIN work
  PROVE  Undisturbed(w) \/ (w = runner[r].task /\ Touching(r))
<1>. DEFINE s == runner[r]
<1>1. CASE Unseen \/ Noting(r) \/ Ending(r)
  <2>1. Silent
    BY <1>1 DEF Unseen, Noting, Ending
  <2>. QED
    BY <2>1, IdleUndisturbed DEF Silent, IdleTables
<1>2. CASE Judging(r)
  <2>1. IdleCalls /\ UNCHANGED rulings
    BY <1>2 DEF Judging, Deriving, Derives
  <2>. QED
    BY <2>1, IdleUndisturbed
<1>3. CASE Asking(r) /\ w # s.task
  <2>1. OnlyCall(s.call) /\ s.call.work = s.task /\ UNCHANGED rulings
    BY <1>3 DEF Asking, ReservingModel, Reserving
  <2>. QED
    BY <1>3, <2>1, OtherUndisturbed
<1>4. CASE Calling(r) /\ w # s.task
  <2>. DEFINE c == KeyOf(s.task, "tool", s.call.step)
  <2>1. PICK t : ReservingTool(c, s.call, s.call, t)
    BY <1>4 DEF Calling
  <2>2. c.work = s.task
    BY <1>4 DEF Calling
  <2>. HIDE DEF c
  <2>3. OnlyCall(c) /\ s.call.work = s.task /\ rulings'[w] = rulings[w]
    BY <1>4, <2>1, <2>2 DEF ReservingTool, Reserving, Rules
  <2>. QED
    BY <1>4, <2>2, <2>3, OtherUndisturbed
<1>5. CASE Sending(r) /\ w # s.task
  <2>1. OnlyCall(s.call) /\ s.call.work = s.task /\ UNCHANGED rulings
    BY <1>5, CallsByKey DEF Sending, Starting
  <2>. QED
    BY <1>5, <2>1, OtherUndisturbed
<1>6. CASE Hearing(r) /\ w # s.task
  <2>1. OnlyCall(s.call) /\ UNCHANGED rulings
    BY <1>6 DEF Hearing, Answering
  <2>2. s.call.work = s.task
    BY <1>6, CallsByKey DEF Hearing, Placed, CallInMind
  <2>. QED
    BY <1>6, <2>1, <2>2, OtherUndisturbed
<1>7. CASE Publishing(r) /\ w # s.task
  <2>1. IdleCalls /\ Rules(s.call, "submit") /\ s.call.work = s.task
    BY <1>7 DEF Publishing, Deriving, Derives, VerifiedDerivation
  <2>. QED
    BY <1>7, <2>1, IdleUndisturbed DEF Rules
<1>8. CASE (Yielding(r) \/ Dismissing(r)) /\ w # s.task
  <2>1. IdleCalls /\ s.call.work = s.task /\ \E d : Rules(s.call, d)
    BY <1>8, CallsByKey DEF Yielding, Dismissing, Abstaining, Rejecting, IdleTables
  <2>. QED
    BY <1>8, <2>1, IdleUndisturbed DEF Rules
<1>9. CASE Splitting(r) /\ w # s.task
  <2>1. PICK kids : Admitting(s.call, kids)
    BY <1>9 DEF Splitting
  <2>2. /\ UNCHANGED calls /\ s.call.work = s.task
        /\ Rules(s.call, "decompose")
    BY <1>9, <2>1, CallsByKey DEF Splitting, Admitting, Admits, Decompose
  <2>3. IdleCalls
    BY <2>2 DEF IdleCalls
  <2>. QED
    BY <1>9, <2>2, <2>3, IdleUndisturbed DEF Rules
<1>. QED
  BY <1>1, <1>2, <1>3, <1>4, <1>5, <1>6, <1>7, <1>8, <1>9 DEF Writes, Touching

\* What is read of a work that nobody disturbs.
LEMMA SameView ==
  ASSUME NEW w, Undisturbed(w)
  PROVE  /\ Consumed(w)' = Consumed(w)
         /\ \A d : RuledAs(w, d)' = RuledAs(w, d)
         /\ Open(w)' = Open(w)
         /\ Quiet(w) => Quiet(w)'
<1>1. Consumed(w)' = Consumed(w) /\ \A d : RuledAs(w, d)' = RuledAs(w, d)
  BY DEF Undisturbed, Consumed, RuledAs
<1>2. Open(w)' = Open(w)
  BY <1>1 DEF Undisturbed, Open
<1>3. Quiet(w) => Quiet(w)'
  BY DEF Undisturbed, Quiet, Unsettled
<1>. QED
  BY <1>1, <1>2, <1>3

\* What is current stays so while nobody disturbs the task.
LEMMA CurrentKept ==
  ASSUME NEW s, Undisturbed(s.task), tasks'[s.task] = tasks[s.task], Current(s)
  PROVE  Current(s)'
<1>1. /\ Consumed(s.task)' = Consumed(s.task)
      /\ RuledAs(s.task, "rejected")' = RuledAs(s.task, "rejected")
      /\ Open(s.task)' = Open(s.task)
      /\ Quiet(s.task) => Quiet(s.task)'
  BY SameView
<1>2. /\ CallsOf(s.task)' = CallsOf(s.task)
      /\ \A c \in CallsOf(s.task) : calls'[c].state # "abandoned" => calls[c].state # "abandoned"
  BY DEF Undisturbed
<1>. QED
  BY <1>1, <1>2 DEF Current

\* No step gives a lease back to whoever lost it.
LEMMA NoneRegained ==
  ASSUME TreeInv, OrchTypeOK, OrchStep, NEW l \in granted, Holds(l)'
  PROVE  Holds(l)
<1>1. TypeOK /\ GrantsBounded
  BY DEF TreeInv, LedgerInv
<1>2. CASE BaseStep
  BY <1>1, <1>2, StandsStill
<1>3. ASSUME NEW c \in DOMAIN calls, NEW kids, Admitting(c, kids) PROVE Holds(l)
  <2>1. Brought(c, kids)
    BY <1>1, <1>3, AdmittedRows
  <2>. QED
    BY <1>1, <2>1 DEF Brought, Holds, GrantsBounded
<1>. QED
  BY <1>2, <1>3, BaseOrAdmitting

\* Two leases of a work that both stand are one.
LEMMA OneLease ==
  ASSUME NewestLeaseFenced, NEW l \in granted, NEW m \in granted, Holds(l),
         l.work = m.work, l.epoch = m.epoch \/ Holds(m)
  PROVE  l = m
BY DEF NewestLeaseFenced, Holds

\* Who holds a lease is not disturbed: only the holder writes about the task, or hears
\* a call of that lease, and who ends the task ends the lease.
LEMMA HoldersUndisturbed ==
  ASSUME LedgerFacts, LedgerFacts', OrchStep, RunnersPlaced, LeasesApart,
         NEW r \in DOMAIN runner, Writes(r),
         NEW q \in DOMAIN runner \ {r}, NEW t, t = runner[q], t.at \in Working, Holds(t.lease)'
  PROVE  Holds(t.lease) /\ Undisturbed(t.task)
<1>. DEFINE s == runner[r]
            w == t.task
<1>1. /\ TypeOK /\ TreeInv /\ OrchTypeOK /\ OrchTypeOK' /\ NewestLeaseFenced /\ UnknownNotOffered
  BY DEF LedgerFacts, OrchInv, TreeInv, LedgerInv
<1>2. /\ Placed(s) /\ Placed(t)
      /\ t.lease \in granted /\ t.lease.work = w /\ w \in DOMAIN work
  BY DEF RunnersPlaced, Placed, Tasked
<1>3. Holds(t.lease)
  BY <1>1, <1>2, NoneRegained
<1>4. SUFFICES ASSUME w = s.task, Touching(r) PROVE FALSE
  BY <1>1, <1>2, <1>3, UndisturbedBy
<1>5. s.at \in Working /\ s.lease \in granted /\ s.lease.work = w
  <2>1. s.at \in Working
    BY <1>4 DEF Touching, Asking, Calling, Sending, Hearing, Publishing, Yielding, Splitting,
                Dismissing, Working
  <2>. QED
    BY <1>2, <1>4, <2>1 DEF Placed
<1>6. s.lease # t.lease
  BY <1>5 DEF LeasesApart
<1>7. ~Held(r)
  BY <1>1, <1>2, <1>3, <1>5, <1>6, OneLease DEF Held
<1>8. CASE Hearing(r)
  <2>1. s.call \in CallsOf(w) /\ calls[s.call].epoch = s.lease.epoch
    BY <1>2, <1>4, <1>8 DEF Hearing, Placed, CallInMind
  <2>2. calls[s.call].state = "dispatched"
    BY <1>8 DEF Hearing, Answering
  <2>3. work[w].epoch = calls[s.call].epoch
    BY <1>1, <1>2, <1>3, <2>1, <2>2 DEF UnknownNotOffered, CallsOf, Holds
  <2>4. t.lease.epoch = s.lease.epoch
    BY <1>2, <1>3, <2>1, <2>3 DEF Holds
  <2>. QED
    BY <1>1, <1>2, <1>3, <1>5, <1>6, <2>4, OneLease
<1>9. CASE Publishing(r)
  BY <1>2, <1>4, <1>9 DEF Publishing, Deriving, Derives, Holds
<1>. QED
  BY <1>4, <1>7, <1>8, <1>9 DEF Touching, Asking, Calling, Sending, Yielding, Splitting, Dismissing

\* The call a runner waits for is its own.
LEMMA OwnCall ==
  ASSUME LedgerFacts, RunnersPlaced, LeasesApart,
         NEW q \in DOMAIN runner, NEW r \in DOMAIN runner,
         runner[q].at \in {"reserved", "sent"}, runner[r].at \in {"reserved", "sent"},
         runner[q].call = runner[r].call
  PROVE  q = r
<1>1. NewestLeaseFenced
  BY DEF LedgerFacts, OrchInv, TreeInv, LedgerInv
<1>2. ASSUME NEW p \in {q, r}
      PROVE  /\ runner[p].at \in Working
             /\ runner[p].lease \in granted
             /\ runner[p].lease.work = calls[runner[p].call].work
             /\ runner[p].lease.epoch = calls[runner[p].call].epoch
  BY DEF RunnersPlaced, Placed, CallInMind, Working, CallsOf
<1>3. runner[q].lease = runner[r].lease
  BY <1>1, <1>2 DEF NewestLeaseFenced
<1>. QED
  BY <1>2, <1>3 DEF LeasesApart

\* What a process has in mind stays where it is, whoever moves.
LEMMA PlacedKept ==
  ASSUME TypeOK, OrchTypeOK, OrchStep, Frame, TablesKept,
         NEW s, Placed(s), s.at = "sent" => s.call \notin violated'
  PROVE  Placed(s)'
<1>1. granted \subseteq granted'
  <2>1. ASSUME NEW c \in DOMAIN calls, NEW kids, Admitting(c, kids) PROVE granted \subseteq granted'
    BY <2>1, AdmittedRows DEF Brought
  <2>. QED
    BY <2>1, BaseOrAdmitting, GrantsGrow
<1>2. DOMAIN work \subseteq DOMAIN work' /\ \A w \in DOMAIN work : tasks'[w] = tasks[w]
  BY DEF Frame, TablesKept, OrchTypeOK
<1>3. ASSUME NEW c \in CallsOf(s.task)
      PROVE  /\ c \in CallsOf(s.task)' /\ calls'[c].epoch = calls[c].epoch
             /\ calls[c].state \notin Unsettled => calls'[c].state = calls[c].state
  BY DEF Frame, CallsKept, CallsOf
<1>4. CallInMind(s)'
  BY <1>3 DEF Placed, CallInMind, Unsettled
<1>. QED
  BY <1>1, <1>2, <1>4 DEF Placed

-----------------------------------------------------------------------------
\* Where a step of a runner takes it

\* The other processes keep what they have in mind.
Moved(r) ==
  /\ DOMAIN runner' = DOMAIN runner
  /\ \A q \in DOMAIN runner \ {r} : runner'[q] = runner[q]
  /\ Remembered'

\* A process keeps its task, and what it will report.
SameTask(s, t) ==
  /\ t.task = s.task /\ t.agent = s.agent /\ t.lease = s.lease
  /\ t.last = s.last /\ t.outcome = s.outcome

\* One process has something else in mind.
LEMMA Rewritten ==
  ASSUME Remembered, NEW r \in DOMAIN runner, NEW t, Memory(t), runner' = [runner EXCEPT ![r] = t]
  PROVE  Moved(r) /\ runner'[r] = t
<1>1. runner' = [q \in DOMAIN runner |-> IF q = r THEN t ELSE runner[q]]
  BY DEF Remembered
<1>2. ASSUME NEW q \in DOMAIN runner PROVE Memory(runner[q])
  BY DEF Remembered
<1>3. /\ DOMAIN runner' = DOMAIN runner /\ runner'[r] = t
      /\ \A q \in DOMAIN runner \ {r} : runner'[q] = runner[q]
  BY <1>1
<1>4. ASSUME NEW q \in DOMAIN runner', NEW x, x = runner'[q] PROVE Memory(x)
  BY <1>2, <1>3, <1>4
<1>5. \A q \in DOMAIN runner' : Memory(runner[q])'
  <2>. SUFFICES ASSUME NEW q \in DOMAIN runner' PROVE Memory(runner[q])'
    OBVIOUS
  <2>. DEFINE x == runner'[q]
  <2>1. Memory(x)
    BY <1>4
  <2>. QED
    BY <2>1 DEF Memory
<1>6. runner' = [q \in DOMAIN runner' |-> runner'[q]]
  BY <1>1
<1>. QED
  BY <1>3, <1>5, <1>6 DEF Moved, Remembered

\* It goes on to another place,
LEMMA ToThere ==
  ASSUME Remembered, NEW r \in DOMAIN runner, NEW at, To(r, at), NEW t, t = runner'[r]
  PROVE  /\ Moved(r) /\ SameTask(runner[r], t)
         /\ t.at = at /\ t.call = runner[r].call /\ t.status = runner[r].status
<1>. DEFINE s == runner[r]
            x == [s EXCEPT !.at = at]
<1>1. Memory(s)
  BY DEF Remembered
<1>2. runner' = [runner EXCEPT ![r] = x]
  BY DEF To
<1>3. Memory(x) /\ SameTask(s, x) /\ x.at = at /\ x.call = s.call /\ x.status = s.status
  BY <1>1 DEF Memory, SameTask
<1>. HIDE DEF x
<1>. QED
  BY <1>2, <1>3, Rewritten

\* with a call,
LEMMA WithThere ==
  ASSUME Remembered, NEW r \in DOMAIN runner, NEW at, NEW c, With(r, at, c), NEW t, t = runner'[r]
  PROVE  Moved(r) /\ SameTask(runner[r], t) /\ t.at = at /\ t.call = c
<1>. DEFINE s == runner[r]
            x == [s EXCEPT !.at = at]
            y == [x EXCEPT !.call = c]
<1>1. Memory(s)
  BY DEF Remembered
<1>2. runner' = [runner EXCEPT ![r] = y]
  BY <1>1 DEF With, Remembered, Memory
<1>3. Memory(x) /\ SameTask(s, x) /\ x.at = at
  BY <1>1 DEF Memory, SameTask
<1>. HIDE DEF x
<1>4. Memory(y) /\ SameTask(s, y) /\ y.at = at /\ y.call = c
  BY <1>3 DEF Memory, SameTask
<1>. HIDE DEF y
<1>. QED
  BY <1>2, <1>4, Rewritten

\* or back to release its lease, with what it has to tell.
LEMMA ReturnThere ==
  ASSUME Remembered, NEW r \in DOMAIN runner, NEW status, Return(r, status), NEW t, t = runner'[r]
  PROVE  Moved(r) /\ SameTask(runner[r], t) /\ t.at = "release"
<1>. DEFINE s == runner[r]
            x == [s EXCEPT !.at = "release"]
            y == [x EXCEPT !.status = status]
<1>1. Memory(s)
  BY DEF Remembered
<1>2. runner' = [runner EXCEPT ![r] = y]
  BY <1>1 DEF Return, Remembered, Memory
<1>3. Memory(x) /\ SameTask(s, x) /\ x.at = "release"
  BY <1>1 DEF Memory, SameTask
<1>. HIDE DEF x
<1>4. Memory(y) /\ SameTask(s, y) /\ y.at = "release"
  BY <1>3 DEF Memory, SameTask
<1>. HIDE DEF y
<1>. QED
  BY <1>2, <1>4, Rewritten

\* It has told about its task, and starts over.
ToldOf(s, t) ==
  /\ t.at = "idle" /\ t.outcome = None
  /\ DOMAIN t.last = DOMAIN s.last \cup {s.task}

\* A process starts with nothing in mind.
LEMMA IdleMemory ==
  Memory(Idle) /\ Idle.at = "idle" /\ Idle.outcome = None /\ DOMAIN Idle.last = {}
BY DEF Memory, Idle

\* What telling leaves in memory.
LEMMA TellThere ==
  ASSUME Remembered, NEW r \in DOMAIN runner, NEW status, Tell(r, status), NEW t, t = runner'[r]
  PROVE  Moved(r) /\ ToldOf(runner[r], t)
<1>. DEFINE s == runner[r]
            last == Put(s.last, s.task, status)
            erred == s.erred \/ status = "error"
            stalled == IF status \in Stalling THEN s.stalled \cup {s.task} ELSE s.stalled
            a == [Idle EXCEPT !.sweeps = s.sweeps]
            b == [a EXCEPT !.last = last]
            c == [b EXCEPT !.erred = erred]
            d == [c EXCEPT !.stalled = stalled]
<1>1. runner' = [runner EXCEPT ![r] = d]
  BY DEF Tell, Told
<1>2. DOMAIN last = DOMAIN s.last \cup {s.task}
  BY DEF Put
<1>. HIDE DEF last, erred, stalled
<1>3. Memory(a) /\ a.at = "idle" /\ a.outcome = None
  BY IdleMemory DEF Memory
<1>. HIDE DEF a
<1>4. Memory(b) /\ b.at = "idle" /\ b.outcome = None /\ b.last = last
  BY <1>3 DEF Memory
<1>. HIDE DEF b
<1>5. Memory(c) /\ c.at = "idle" /\ c.outcome = None /\ c.last = last
  BY <1>4 DEF Memory
<1>. HIDE DEF c
<1>6. Memory(d) /\ ToldOf(s, d)
  BY <1>2, <1>5 DEF Memory, ToldOf
<1>. HIDE DEF d
<1>. QED
  BY <1>1, <1>6, Rewritten

\* It picks work that is ready,
Picks(r, t) ==
  /\ runner[r].at = "idle" /\ t.at = "chosen"
  /\ t.last = runner[r].last /\ t.outcome = runner[r].outcome
  /\ t.agent \in Agent /\ t.task \in ReadyWork(t.agent)
  /\ UNCHANGED orchestrationVars

\* or stops,
Stops(r, t) ==
  /\ t.task = runner[r].task /\ t.last = runner[r].last
  /\ \/ runner[r].at = "idle" /\ t.at = "ended"
     \/ runner[r].at = "chosen" /\ t.at = "raised" /\ t.outcome = runner[r].outcome
  /\ UNCHANGED orchestrationVars

\* or is given a lease,
Takes(r, t) ==
  LET s == runner[r] IN
  /\ s.at = "chosen" /\ t.at = IF tasks[s.task].kind = "host" THEN "giveup" ELSE "claimed"
  /\ t.task = s.task /\ t.agent = s.agent /\ t.last = s.last /\ t.outcome = s.outcome
  /\ t.lease = [work |-> s.task, owner |-> s.agent, epoch |-> work[s.task].epoch + 1]
  /\ ClaimAvailable(s.agent, s.task) /\ UNCHANGED orchestrationTables

\* or tells,
Tells(r, t) == runner[r].at \in {"chosen", "release"} /\ ToldOf(runner[r], t)

\* or looks at the ledger,
Looks(r, t) ==
  LET s == runner[r] IN
  /\ s.at = "claimed" /\ SameTask(s, t) /\ UNCHANGED orchestrationVars
  /\ IF Pending(s.task) # {} THEN t.at = "consume" /\ t.call \in Pending(s.task)
     ELSE \/ t.at = "giveup"
          \/ t.at = "infer" /\ t.call = KeyOf(s.task, "model", StepOf(s.task))

\* or writes to it and goes on with a call,
Sends(r, t) ==
  LET s == runner[r] IN
  /\ SameTask(s, t)
  /\ \/ s.at = "infer" /\ t.at = "reserved" /\ t.call = s.call /\ Asking(r)
     \/ s.at = "reserved" /\ t.at = "sent" /\ t.call = s.call /\ Sending(r)
     \/ /\ s.at = "consume" /\ t.at = "reserved"
        /\ t.call = KeyOf(s.task, "tool", s.call.step) /\ Calling(r)

\* or refuses what it read, or finds that it may not,
Refuses(r, t) ==
  LET s == runner[r] IN
  /\ SameTask(s, t) /\ UNCHANGED orchestrationVars
  /\ \/ s.at = "consume" /\ t.at = "refuse" /\ t.call = s.call
     \/ s.at = "refuse" /\ t.at = "giveup" /\ Holds(s.lease) /\ ~Rejectable(s.lease, s.call)

\* or turns back.
Turns(r, t) ==
  /\ runner[r].at \in Working \ {"release"} /\ t.at = "release" /\ SameTask(runner[r], t)

Moves(r, t) ==
  \/ Picks(r, t) \/ Stops(r, t) \/ Takes(r, t) \/ Tells(r, t)
  \/ Looks(r, t) \/ Sends(r, t) \/ Refuses(r, t) \/ Turns(r, t)

\* A transaction that raised turns back.
LEMMA RaisedTurns ==
  ASSUME Remembered, NEW r \in DOMAIN runner, NEW status, Raises(r, status),
         runner[r].at \in Working \ {"release"}, NEW t, t = runner'[r]
  PROVE  Moved(r) /\ Turns(r, t)
BY ReturnThere DEF Raises, Turns

\* Selecting,
LEMMA SelectingMoves ==
  ASSUME Remembered, NEW r \in DOMAIN runner, Select(r), NEW t, t = runner'[r]
  PROVE  Moved(r) /\ Picks(r, t)
<1>. DEFINE s == runner[r]
<1>1. Memory(s) /\ s.at = "idle" /\ UNCHANGED orchestrationVars
  BY DEF Remembered, Select
<1>2. PICK p \in Pairs(r) :
        runner' = [runner EXCEPT ![r] = Chosen(@, p[1], p[2])]
  BY DEF Select
<1>. DEFINE a == [s EXCEPT !.at = "chosen"]
            b == [a EXCEPT !.agent = p[1]]
            c == [b EXCEPT !.task = p[2]]
            d == [c EXCEPT !.sweeps = s.sweeps + 1]
<1>3. runner' = [runner EXCEPT ![r] = d]
  BY <1>2 DEF Chosen
<1>4. Memory(a) /\ a.at = "chosen" /\ a.last = s.last /\ a.outcome = s.outcome
  BY <1>1 DEF Memory
<1>. HIDE DEF a
<1>5. Memory(b) /\ b.at = "chosen" /\ b.agent = p[1] /\ b.last = s.last /\ b.outcome = s.outcome
  BY <1>4 DEF Memory
<1>. HIDE DEF b
<1>6. /\ Memory(c) /\ c.at = "chosen" /\ c.agent = p[1] /\ c.task = p[2]
      /\ c.last = s.last /\ c.outcome = s.outcome
  BY <1>5 DEF Memory
<1>. HIDE DEF c
<1>7. /\ Memory(d) /\ d.at = "chosen" /\ d.agent = p[1] /\ d.task = p[2]
      /\ d.last = s.last /\ d.outcome = s.outcome
  BY <1>6 DEF Memory
<1>. HIDE DEF d
<1>8. Moved(r) /\ t = d
  BY <1>3, <1>7, Rewritten
<1>9. p[1] \in Agent /\ p[2] \in ReadyWork(p[1])
  BY <1>2 DEF Pairs
<1>. QED
  BY <1>1, <1>7, <1>8, <1>9 DEF Picks

\* ending,
LEMMA EndingMoves ==
  ASSUME Remembered, NEW r \in DOMAIN runner, End(r), NEW t, t = runner'[r]
  PROVE  /\ Moved(r) /\ Stops(r, t)
         /\ LET s == runner[r]
                cut == s.sweeps >= Bound
                deferred == ~cut /\ \E a \in Agent : ReadyWork(a) # {}
            IN /\ t.outcome = Outcome(s, deferred)
               /\ t.status = IF cut THEN "cut" ELSE "empty"
<1>. DEFINE s == runner[r]
            cut == s.sweeps >= Bound
            deferred == ~cut /\ \E a \in Agent : ReadyWork(a) # {}
            outcome == Outcome(s, deferred)
            status == IF cut THEN "cut" ELSE "empty"
            x == [s EXCEPT !.at = "ended"]
            y == [x EXCEPT !.outcome = outcome]
            z == [y EXCEPT !.status = status]
<1>1. Memory(s) /\ s.at = "idle" /\ UNCHANGED orchestrationVars
  BY DEF Remembered, End
<1>2. runner' = [runner EXCEPT ![r] = z]
  BY DEF End
<1>. HIDE DEF outcome, status
<1>3. Memory(x) /\ x.at = "ended" /\ x.task = s.task /\ x.last = s.last
  BY <1>1 DEF Memory
<1>. HIDE DEF x
<1>4. Memory(y) /\ y.at = "ended" /\ y.task = s.task /\ y.last = s.last /\ y.outcome = outcome
  BY <1>3 DEF Memory
<1>. HIDE DEF y
<1>5. /\ Memory(z) /\ z.at = "ended" /\ z.task = s.task /\ z.last = s.last
      /\ z.outcome = outcome /\ z.status = status
  BY <1>4 DEF Memory
<1>. HIDE DEF z
<1>6. Moved(r) /\ t = z
  BY <1>2, <1>5, Rewritten
<1>. QED
  BY <1>1, <1>5, <1>6 DEF Stops, outcome, status

\* A claim that succeeds.
Taken(r) ==
  LET s == runner[r] IN
  /\ s.at = "chosen" /\ ClaimAvailable(s.agent, s.task) /\ UNCHANGED orchestrationTables
  /\ runner' = [runner EXCEPT ![r] =
       [@ EXCEPT !.at = IF tasks[s.task].kind = "host" THEN "giveup" ELSE "claimed",
                 !.lease = [work |-> s.task, owner |-> s.agent,
                            epoch |-> work[s.task].epoch + 1]]]

\* being given a lease,
LEMMA TakingMoves ==
  ASSUME Remembered, NEW r \in DOMAIN runner, Taken(r), NEW t, t = runner'[r]
  PROVE  Moved(r) /\ Takes(r, t)
<1>. DEFINE s == runner[r]
            at == IF tasks[s.task].kind = "host" THEN "giveup" ELSE "claimed"
            lease == [work |-> s.task, owner |-> s.agent, epoch |-> work[s.task].epoch + 1]
            x == [s EXCEPT !.at = at]
            y == [x EXCEPT !.lease = lease]
<1>1. Memory(s)
  BY DEF Remembered
<1>2. /\ runner' = [runner EXCEPT ![r] = y]
      /\ s.at = "chosen" /\ ClaimAvailable(s.agent, s.task) /\ UNCHANGED orchestrationTables
  BY DEF Taken
<1>. HIDE DEF at, lease
<1>3. /\ Memory(x) /\ x.at = at /\ x.task = s.task /\ x.agent = s.agent
      /\ x.last = s.last /\ x.outcome = s.outcome
  BY <1>1 DEF Memory
<1>. HIDE DEF x
<1>4. /\ Memory(y) /\ y.at = at /\ y.task = s.task /\ y.agent = s.agent
      /\ y.last = s.last /\ y.outcome = s.outcome /\ y.lease = lease
  BY <1>3 DEF Memory
<1>. HIDE DEF y
<1>5. Moved(r) /\ t = y
  BY <1>2, <1>4, Rewritten
<1>. QED
  BY <1>2, <1>4, <1>5 DEF Takes, at, lease

\* claiming,
LEMMA ClaimingMoves ==
  ASSUME Remembered, NEW r \in DOMAIN runner, Claiming(r), NEW t, t = runner'[r]
  PROVE  /\ Moved(r) /\ (Takes(r, t) \/ Stops(r, t) \/ Tells(r, t))
         /\ Takes(r, t) \/ UNCHANGED granted
<1>. DEFINE s == runner[r]
<1>1. Memory(s) /\ s.at = "chosen"
  BY DEF Remembered, Claiming
<1>2. CASE Taken(r)
  BY <1>2, TakingMoves
<1>3. CASE To(r, "raised") /\ UNCHANGED orchestrationVars
  BY <1>1, <1>3, ToThere DEF Stops, SameTask, orchestrationVars, platformVars, vars
<1>4. CASE (\E status : Tell(r, status)) /\ UNCHANGED granted
  BY <1>1, <1>4, TellThere DEF Tells
<1>. QED
  BY <1>2, <1>3, <1>4
     DEF Claiming, Taken, RecoverFreely, Recover, orchestrationVars, platformVars, vars

\* Of some calls one is of the last step.
LEMMA LatestCall ==
  ASSUME TypeOK, NEW S \in SUBSET DOMAIN calls, S # {}
  PROVE  /\ IsFiniteSet({c.step : c \in S}) /\ {c.step : c \in S} \in SUBSET Nat
         /\ \E c \in S : \A d \in S : d.step <= c.step
<1>. DEFINE T == {c.step : c \in S}
<1>1. T \in SUBSET Nat /\ T # {}
  BY WorkflowAssumption DEF TypeOK
<1>2. IsFiniteSet(T)
  <2>1. IsFiniteSet(S)
    BY FiniteCalls, FS_Subset
  <2>. DEFINE step == [c \in S |-> c.step]
  <2>2. step \in Surjection(S, T)
    BY DEF Surjection
  <2>. HIDE DEF step
  <2>. QED
    BY <2>1, <2>2, FS_Surjection
<1>3. Max(T) \in T /\ \A n \in T : n <= Max(T)
  <2>. HIDE DEF T
  <2>. QED
    BY <1>1, <1>2, GreatestNumber
<1>. QED
  BY <1>1, <1>2, <1>3

\* examining,
LEMMA ExaminingMoves ==
  ASSUME LedgerFacts, Remembered, NEW r \in DOMAIN runner, Examining(r), NEW t, t = runner'[r]
  PROVE  Moved(r) /\ (Looks(r, t) \/ Turns(r, t))
<1>. DEFINE s == runner[r]
            c == CHOOSE d \in Pending(s.task) : \A e \in Pending(s.task) : e.step <= d.step
<1>1. s.at = "claimed" /\ UNCHANGED orchestrationVars
  BY DEF Examining
<1>2. CASE \E status : Return(r, status)
  BY <1>1, <1>2, ReturnThere DEF Turns, Working
<1>3. CASE Pending(s.task) # {} /\ With(r, "consume", c)
  <2>1. TypeOK /\ Pending(s.task) \subseteq DOMAIN calls
    BY DEF LedgerFacts, OrchInv, TreeInv, LedgerInv, Pending, CallsOf
  <2>2. c \in Pending(s.task)
    BY <1>3, <2>1, LatestCall
  <2>. HIDE DEF c
  <2>. QED
    BY <1>1, <1>3, <2>2, WithThere DEF Looks
<1>4. CASE Pending(s.task) = {} /\ To(r, "giveup")
  BY <1>1, <1>4, ToThere DEF Looks
<1>5. CASE /\ Pending(s.task) = {}
           /\ With(r, "infer", KeyOf(s.task, "model", StepOf(s.task)))
  BY <1>1, <1>5, WithThere DEF Looks
<1>. QED
  BY <1>2, <1>3, <1>4, <1>5 DEF Examining

\* freezing a request,
LEMMA FreezingMoves ==
  ASSUME LedgerFacts, Remembered, NEW r \in DOMAIN runner, Placed(runner[r]), Freezing(r),
         NEW t, t = runner'[r]
  PROVE  Moved(r) /\ (Sends(r, t) \/ Turns(r, t))
<1>. DEFINE s == runner[r]
            c == s.call
<1>1. s.at = "infer"
  BY DEF Freezing
<1>2. CASE \E status : Raises(r, status)
  BY <1>1, <1>2, RaisedTurns DEF Working
<1>3. CASE ReserveBounded(s.lease, c, Readable(s.task, c.step)) /\ To(r, "reserved")
  <2>1. c \notin DOMAIN calls /\ c \in DOMAIN calls'
    BY <1>3 DEF ReserveBounded, ReserveCapped, Reserve, Put
  <2>2. ~Unseen
    BY <2>1 DEF Unseen, Silent, IdleTables, IdleCalls
  <2>3. Asking(r)
    BY <2>2, FreezingSteps
  <2>. QED
    BY <1>1, <1>3, <2>3, ToThere DEF Sends
<1>. QED
  BY <1>2, <1>3 DEF Freezing

\* dispatching,
LEMMA DispatchingMoves ==
  ASSUME LedgerFacts, Remembered, NEW r \in DOMAIN runner, Placed(runner[r]), Dispatching(r),
         NEW t, t = runner'[r]
  PROVE  Moved(r) /\ (Sends(r, t) \/ Turns(r, t))
<1>. DEFINE s == runner[r]
            c == s.call
<1>1. s.at = "reserved"
  BY DEF Dispatching
<1>2. CASE \E status : Raises(r, status)
  BY <1>1, <1>2, RaisedTurns DEF Working
<1>3. CASE DispatchAdmitted(s.lease, c) /\ To(r, "sent")
  <2>1. TypeOK
    BY DEF LedgerFacts, OrchInv, TreeInv, LedgerInv
  <2>2. s.lease \in granted /\ c \in DOMAIN calls /\ Dispatch(s.lease, c)
    BY <1>1, <1>3 DEF DispatchAdmitted, Dispatch, Placed, Working
  <2>3. calls[c].state = "reserved" /\ calls'[c].state = "dispatched"
    BY <2>1, <2>2, DispatchedRow
  <2>4. ~Unseen
    BY <2>2, <2>3 DEF Unseen, Silent, IdleTables, IdleCalls
  <2>5. Sending(r)
    BY <2>4, DispatchingSteps
  <2>. QED
    BY <1>1, <1>3, <2>5, ToThere DEF Sends
<1>. QED
  BY <1>2, <1>3 DEF Dispatching

\* hearing, or not hearing, of a call,
LEMMA HearingMoves ==
  ASSUME Remembered, NEW r \in DOMAIN runner, Answered(r) \/ ToolAnswered(r) \/ Unanswered(r),
         NEW t, t = runner'[r]
  PROVE  Moved(r) /\ Turns(r, t)
<1>1. runner[r].at = "sent" /\ \E status : Return(r, status)
  BY DEF Answered, ToolAnswered, Unanswered, Raises
<1>. QED
  BY <1>1, ReturnThere DEF Turns, Working

\* consuming,
LEMMA ConsumingMoves ==
  ASSUME LedgerFacts, Remembered, NEW r \in DOMAIN runner, Placed(runner[r]), Consuming(r),
         NEW t, t = runner'[r]
  PROVE  Moved(r) /\ (Sends(r, t) \/ Refuses(r, t) \/ Turns(r, t))
<1>. DEFINE s == runner[r]
            c == s.call
            k == KeyOf(s.task, "tool", c.step)
<1>1. s.at = "consume"
  BY ConsumingCases
<1>2. CASE \E status : Return(r, status)
  BY <1>1, <1>2, ReturnThere DEF Turns, Working
<1>3. CASE To(r, "refuse") /\ UNCHANGED orchestrationVars
  BY <1>1, <1>3, ToThere DEF Refuses
<1>4. CASE /\ Proposal(s).kind = "tool"
           /\ ReserveToolCall(s.lease, k, c, c, Proposal(s).tool, Readable(s.task, c.step + 1))
           /\ With(r, "reserved", k) /\ Keep
  <2>1. Calling(r)
    BY <1>1, <1>4, CallingSteps
  <2>. QED
    BY <1>1, <1>4, <2>1, WithThere DEF Sends
<1>5. CASE Submitting(r)
  BY <1>2, <1>5 DEF Submitting, Raises
<1>. QED
  BY <1>2, <1>3, <1>4, <1>5, ConsumingCases DEF Raises

\* refusing,
LEMMA RefusingMoves ==
  ASSUME Remembered, NEW r \in DOMAIN runner, Refusing(r), NEW t, t = runner'[r]
  PROVE  Moved(r) /\ (Refuses(r, t) \/ Turns(r, t))
<1>. DEFINE s == runner[r]
<1>1. s.at = "refuse"
  BY DEF Refusing
<1>2. CASE \E status : Return(r, status)
  BY <1>1, <1>2, ReturnThere DEF Turns, Working
<1>3. CASE /\ To(r, "giveup") /\ UNCHANGED orchestrationVars
           /\ Holds(s.lease) /\ ~Rejectable(s.lease, s.call)
  BY <1>1, <1>3, ToThere DEF Refuses
<1>. QED
  BY <1>2, <1>3 DEF Refusing, Raises

\* giving up and releasing, and finalizing.
LEMMA FinishingMoves ==
  ASSUME Remembered, NEW r \in DOMAIN runner, GivingUp(r) \/ Releasing(r) \/ Finalizing(r),
         NEW t, t = runner'[r]
  PROVE  Moved(r) /\ (Tells(r, t) \/ Turns(r, t))
<1>1. CASE GivingUp(r)
  <2>1. runner[r].at = "giveup" /\ \E status : Return(r, status)
    BY <1>1 DEF GivingUp, Raises
  <2>. QED
    BY <2>1, ReturnThere DEF Turns, Working
<1>2. CASE Releasing(r) \/ Finalizing(r)
  <2>1. runner[r].at \in {"chosen", "release"} /\ \E status : Tell(r, status)
    BY <1>2 DEF Releasing, Finalizing
  <2>. QED
    BY <2>1, TellThere DEF Tells
<1>. QED
  BY <1>1, <1>2

\* So every step of a process is one of these moves, and its own.
LEMMA StepMoves ==
  ASSUME LedgerFacts, Remembered, NEW r \in DOMAIN runner, Placed(runner[r]), Step(r),
         NEW t, t = runner'[r]
  PROVE  Moved(r) /\ Moves(r, t)
BY SelectingMoves, EndingMoves, ClaimingMoves, ExaminingMoves, FreezingMoves, DispatchingMoves,
   HearingMoves, ConsumingMoves, RefusingMoves, FinishingMoves DEF Step, Moves

-----------------------------------------------------------------------------
\* What a process has in mind where it arrives

\* Leases stay granted.
LEMMA GrantsKept ==
  ASSUME TypeOK, OrchTypeOK, OrchStep
  PROVE  granted \subseteq granted'
<1>1. ASSUME NEW c \in DOMAIN calls, NEW kids, Admitting(c, kids) PROVE granted \subseteq granted'
  BY <1>1, AdmittedRows DEF Brought
<1>. QED
  BY <1>1, BaseOrAdmitting, GrantsGrow

\* A process stays with its task.
LEMMA TaskKept ==
  ASSUME TypeOK, OrchTypeOK, OrchStep, Frame, TablesKept, NEW s, Placed(s)
  PROVE  /\ s.at \in Tasked => s.task \in DOMAIN work' /\ s.agent \in tasks'[s.task].agents
         /\ s.at \in Working => s.lease \in granted' /\ s.lease.work = s.task
BY GrantsKept DEF Placed, Frame, TablesKept, OrchTypeOK

\* The next step of a task is a number, after those it has used.
LEMMA NextStep ==
  ASSUME TypeOK, NEW w
  PROVE  StepOf(w) \in Nat /\ \A c \in CallsUsed(w, "model") : c.step < StepOf(w)
<1>. DEFINE S == CallsUsed(w, "model")
            T == {c.step : c \in S}
<1>1. S \in SUBSET DOMAIN calls
  BY DEF CallsUsed, CallsOf
<1>2. StepOf(w) = IF T = {} THEN 0 ELSE Max(T) + 1
  BY DEF StepOf
<1>3. CASE S = {}
  BY <1>2, <1>3
<1>4. CASE S # {}
  <2>1. IsFiniteSet(T) /\ T \in SUBSET Nat /\ T # {}
    <3>. HIDE DEF S
    <3>. QED
      BY <1>1, <1>4, LatestCall
  <2>2. Max(T) \in T /\ \A n \in T : n <= Max(T)
    <3>. HIDE DEF T
    <3>. QED
      BY <2>1, GreatestNumber
  <2>3. ASSUME NEW c \in S PROVE c.step \in T
    OBVIOUS
  <2>. HIDE DEF T, S
  <2>4. Max(T) \in Nat /\ StepOf(w) = Max(T) + 1
    BY <1>2, <2>1, <2>2
  <2>5. ASSUME NEW c \in S PROVE c.step < StepOf(w)
    <3>1. c.step \in Nat /\ c.step <= Max(T)
      BY <2>1, <2>2, <2>3
    <3>. QED
      BY <2>4, <3>1
  <2>. QED
    BY <2>4, <2>5 DEF S
<1>. QED
  BY <1>3, <1>4

\* It is where it may be.
LEMMA MoverPlaced ==
  ASSUME LedgerFacts, LedgerFacts', Accounted, OrchStep, Frame, TablesKept,
         NEW r \in DOMAIN runner, Placed(runner[r]), NEW t, Moves(r, t)
  PROVE  Placed(t)'
<1>. DEFINE s == runner[r]
<1>1. TypeOK /\ OrchTypeOK /\ OrchTypeOK'
  BY DEF LedgerFacts, OrchInv, TreeInv, LedgerInv
<1>2. /\ s.at \in Tasked => s.task \in DOMAIN work' /\ s.agent \in tasks'[s.task].agents
      /\ s.at \in Working => s.lease \in granted' /\ s.lease.work = s.task
      /\ s.at # "ended" => s.outcome = None
  BY <1>1, TaskKept DEF Placed
<1>. USE DEF Working, Tasked
<1>3. CASE Picks(r, t)
  <2>1. t.task \in DOMAIN work /\ t.agent \in tasks[t.task].agents
    BY <1>3 DEF Picks, ReadyWork, LedgerFacts, AgentsDeclared
  <2>2. t.at = "chosen" /\ t.outcome = None /\ UNCHANGED <<work, tasks>>
    BY <1>2, <1>3 DEF Picks, orchestrationVars, platformVars, vars, orchestrationTables
  <2>. QED
    BY <2>1, <2>2 DEF Placed, CallInMind
<1>4. CASE Stops(r, t)
  BY <1>2, <1>4 DEF Stops, Placed, CallInMind
<1>5. CASE Takes(r, t)
  <2>1. t.lease \in granted'
    BY <1>5 DEF Takes, ClaimAvailable, Claim
  <2>. QED
    BY <1>2, <1>5, <2>1 DEF Takes, Placed, CallInMind
<1>6. CASE Tells(r, t)
  BY <1>6 DEF Tells, ToldOf, Placed, CallInMind
<1>7. CASE Looks(r, t)
  <2>1. SameTask(s, t) /\ s.at = "claimed" /\ t.at \in {"consume", "giveup", "infer"}
    BY <1>7 DEF Looks
  <2>2. UNCHANGED calls
    BY <1>7 DEF Looks, orchestrationVars, platformVars, vars
  <2>3. CallInMind(t)'
    <3>1. CASE t.at = "consume"
      BY <1>7, <2>1, <2>2, <3>1 DEF Looks, Pending, CallInMind, CallsOf, SameTask
    <3>2. CASE t.at = "infer"
      <4>1. t.call = KeyOf(s.task, "model", StepOf(s.task))
        BY <1>7, <3>2 DEF Looks
      <4>2. t.call \in [work : {s.task}, kind : {"model"}, step : {StepOf(s.task)},
                        attempt : 0 .. MaxOperations + 1]
        BY <4>1, KeyFound
      <4>. QED
        BY <1>1, <2>1, <3>2, <4>2, NextStep DEF CallInMind, SameTask
    <3>3. CASE t.at = "giveup"
      BY <3>3 DEF CallInMind
    <3>. QED
      BY <2>1, <3>1, <3>2, <3>3
  <2>. QED
    BY <1>2, <2>1, <2>3 DEF Placed, SameTask
<1>8. CASE Sends(r, t)
  <2>1. SameTask(s, t) /\ s.at \in Working /\ t.at \in {"reserved", "sent"}
    BY <1>8 DEF Sends
  <2>2. /\ t.call \in CallsOf(t.task)' /\ calls'[t.call].epoch = t.lease.epoch
        /\ t.at = "sent" => t.call \notin violated'
    <3>1. CASE s.at = "infer" /\ t.at = "reserved" /\ t.call = s.call /\ Asking(r)
      BY <2>1, <3>1 DEF Asking, ReservingModel, Reserving, OnlyCall, CallsOf, SameTask
    <3>2. CASE s.at = "reserved" /\ t.at = "sent" /\ t.call = s.call /\ Sending(r)
      <4>1. /\ s.call \in CallsOf(s.task) /\ calls[s.call].epoch = s.lease.epoch
            /\ calls[s.call].state = "reserved" /\ UNCHANGED violated
        BY <3>2 DEF Sending, Starting, Placed, CallInMind
      <4>2. s.call \notin violated
        BY <4>1 DEF Accounted, AccountingAgrees
      <4>3. t.call = s.call /\ t.task = s.task /\ t.lease = s.lease
        BY <2>1, <3>2 DEF SameTask
      <4>4. t.call \in CallsOf(t.task)' /\ calls'[t.call].epoch = calls[t.call].epoch
        BY <4>1, <4>3 DEF Frame, CallsKept, CallsOf
      <4>. QED
        BY <4>1, <4>2, <4>3, <4>4
    <3>3. CASE /\ s.at = "consume" /\ t.at = "reserved"
               /\ t.call = KeyOf(s.task, "tool", s.call.step) /\ Calling(r)
      <4>1. PICK tool : ReservingTool(t.call, s.call, s.call, tool)
        BY <3>3 DEF Calling
      <4>2. t.call.work = s.task /\ calls'[t.call].epoch = s.lease.epoch
        BY <3>3 DEF Calling
      <4>3. OnlyCall(t.call)
        BY <4>1 DEF ReservingTool, Reserving
      <4>. QED
        BY <2>1, <3>3, <4>2, <4>3 DEF OnlyCall, CallsOf, SameTask
    <3>. QED
      BY <1>8, <3>1, <3>2, <3>3 DEF Sends
  <2>3. CallInMind(t)'
    BY <2>1, <2>2 DEF CallInMind
  <2>. QED
    BY <1>2, <2>1, <2>3 DEF Placed, SameTask
<1>9. CASE Refuses(r, t)
  <2>1. SameTask(s, t) /\ s.at \in {"consume", "refuse"} /\ UNCHANGED calls
    BY <1>9 DEF Refuses, orchestrationVars, platformVars, vars
  <2>2. CallInMind(t)'
    BY <1>9, <2>1 DEF Refuses, Placed, CallInMind, CallsOf, SameTask
  <2>. QED
    BY <1>2, <1>9, <2>1, <2>2 DEF Refuses, Placed, SameTask
<1>10. CASE Turns(r, t)
  BY <1>2, <1>10 DEF Turns, Placed, CallInMind, SameTask
<1>. QED
  BY <1>3, <1>4, <1>5, <1>6, <1>7, <1>8, <1>9, <1>10 DEF Moves

\* A fresh lease finds no call of its work reserved or under way: those of earlier
\* leases are over.
LEMMA FreshQuiet ==
  ASSUME LedgerFacts, LedgerFacts', NEW a, NEW w, ClaimAvailable(a, w)
  PROVE  Quiet(w)' /\ (tasks[w].kind = "host" => CallsOf(w)' = {})
<1>1. /\ TypeOK /\ OrchTypeOK /\ OrchTypeOK' /\ GrantsBounded /\ ReservationsBacked'
  BY DEF LedgerFacts, OrchInv, TreeInv, LedgerInv
<1>2. /\ calls' = Abandon(Expired) /\ Settled(w)
      /\ work' = [RecoveredWork EXCEPT ![w] = Leased(@, a)]
      /\ RecoveredWork[w].status = "ready" /\ a \in RecoveredWork[w].agents
  BY DEF ClaimAvailable, Claim, Claimable
<1>3. CallsOf(w)' = CallsOf(w)
  BY <1>1, <1>2, AbandonedCalls DEF CallsOf
<1>4. ASSUME NEW c \in CallsOf(w) PROVE calls'[c].state \notin Unsettled
  <2>1. c \in DOMAIN calls /\ c.work = w /\ calls[c].work = w /\ w \in DOMAIN work
    BY <1>1 DEF CallsOf, OrchTypeOK, TypeOK
  <2>2. calls'[c].state # "dispatched"
    BY <1>1, <1>2, <2>1, AbandonedCalls DEF Settled, Unknown
  <2>3. calls'[c].epoch = calls[c].epoch /\ calls'[c].work = w
    BY <1>1, <1>2, <2>1, AbandonedCalls
  <2>4. PICK l \in granted : l.work = w /\ l.epoch = calls[c].epoch
    BY <2>1 DEF LedgerFacts, CallsClaimed
  <2>5. /\ RecoveredWork[w] \in Row /\ RecoveredWork[w].epoch = work[w].epoch /\ a \in Agent
        /\ DOMAIN RecoveredWork = DOMAIN work /\ work[w].epoch \in Nat
    BY <1>1, <1>2, <2>1, RecoveredRows DEF Row
  <2>6. work'[w].epoch = work[w].epoch + 1
    BY <1>1, <1>2, <2>1, <2>5, LeasedRow
  <2>7. l.epoch \in Nat /\ l.epoch <= work[w].epoch
    BY <1>1, <2>4 DEF GrantsBounded, TypeOK, Lease
  <2>8. calls'[c].state # "reserved"
    BY <1>1, <1>2, <2>1, <2>3, <2>4, <2>5, <2>6, <2>7, AbandonedCalls DEF ReservationsBacked
  <2>. QED
    BY <2>2, <2>8 DEF Unsettled
<1>5. tasks[w].kind = "host" => CallsOf(w) = {}
  BY <1>1 DEF LedgerFacts, CallsClaimed, CallsOf, OrchTypeOK
<1>. QED
  BY <1>3, <1>4, <1>5 DEF Quiet

\* Nothing happens where nothing is written.
LEMMA StillUndisturbed ==
  ASSUME UNCHANGED orchestrationVars, NEW w
  PROVE  Undisturbed(w) /\ UNCHANGED tasks /\ \A l : Holds(l)' => Holds(l)
BY DEF orchestrationVars, platformVars, vars, orchestrationTables, Undisturbed, CallsOf, Holds

\* A refusal that is refused is one beyond the limit.
LEMMA BeyondLimit ==
  ASSUME LedgerFacts, NEW l, Holds(l), NEW c \in CallsOf(l.work),
         calls[c].state \in {"received", "response_rejected"}, c \notin Consumed(l.work),
         ~Rejectable(l, c)
  PROVE  Cardinality(RuledAs(l.work, "rejected")) = tasks[l.work].rejections
<1>1. OrchTypeOK /\ LimitsKept
  BY DEF LedgerFacts, OrchInv
<1>2. l.work \in DOMAIN work
  BY DEF Holds
<1>3. /\ Cardinality(RuledAs(l.work, "rejected")) \in Nat
      /\ tasks[l.work].rejections \in Nat
  BY <1>1, <1>2, FiniteRulings DEF OrchTypeOK, TaskRow
<1>4. Cardinality(RuledAs(l.work, "rejected")) <= tasks[l.work].rejections
  BY <1>1, <1>2 DEF LimitsKept, OrchTypeOK
<1>5. ~(Cardinality(RuledAs(l.work, "rejected")) < tasks[l.work].rejections)
  BY DEF Rejectable
<1>. QED
  BY <1>3, <1>4, <1>5

\* What it has in mind is current.
LEMMA MoverCurrent ==
  ASSUME LedgerFacts, LedgerFacts', OrchStep, Frame, TablesKept, RunnersPlaced,
         NEW r \in DOMAIN runner, NEW t, Moves(r, t), t.at \in Working, Holds(t.lease)'
  PROVE  Current(t)'
<1>. DEFINE s == runner[r]
<1>1. TypeOK /\ TreeInv /\ OrchTypeOK /\ OrchTypeOK'
  BY DEF LedgerFacts, OrchInv, TreeInv, LedgerInv
<1>2. Placed(s) /\ (s.at \in Working /\ Holds(s.lease) => Current(s))
  BY DEF RunnersPlaced
<1>3. CASE Takes(r, t)
  <2>1. /\ t.at = IF tasks[t.task].kind = "host" THEN "giveup" ELSE "claimed"
        /\ \E a : ClaimAvailable(a, t.task)
    BY <1>3 DEF Takes
  <2>2. Quiet(t.task)' /\ (tasks[t.task].kind = "host" => CallsOf(t.task)' = {})
    BY <2>1, FreshQuiet
  <2>3. t.at = "giveup" => Open(t.task)' = {}
    BY <2>1, <2>2 DEF Open
  <2>. QED
    BY <2>1, <2>2, <2>3 DEF Current
<1>4. CASE Looks(r, t) \/ Refuses(r, t)
  <2>1. SameTask(s, t) /\ UNCHANGED orchestrationVars /\ s.at \in {"claimed", "consume", "refuse"}
    BY <1>4 DEF Looks, Refuses
  <2>2. /\ Undisturbed(t.task) /\ UNCHANGED tasks /\ Holds(t.lease)
    BY <2>1, StillUndisturbed
  <2>3. Current(s) /\ t.task = s.task /\ t.lease = s.lease /\ t.lease.work = t.task
    BY <1>2, <2>1, <2>2 DEF SameTask, Working, Placed
  <2>4. Quiet(t.task)
    BY <2>1, <2>3 DEF Current
  <2>5. ASSUME Pending(t.task) = {} PROVE Open(t.task) = {}
    BY <2>4, <2>5 DEF Pending, Open, Quiet, Unsettled, CallsOf
  <2>6. Current(t)
    <3>1. CASE Looks(r, t) /\ Pending(t.task) # {}
      BY <2>3, <2>4, <3>1 DEF Looks, Pending, Current
    <3>2. CASE Looks(r, t) /\ Pending(t.task) = {} /\ t.at = "giveup"
      BY <2>4, <2>5, <3>2 DEF Current
    <3>3. CASE Looks(r, t) /\ Pending(t.task) = {} /\ t.at = "infer"
      <4>1. t.call = KeyOf(t.task, "model", StepOf(t.task))
        BY <2>3, <3>3 DEF Looks
      <4>2. t.call.step = StepOf(t.task)
        BY <4>1, KeyFound
      <4>3. ASSUME NEW c \in CallsOf(t.task), c.kind = "model", calls[c].state # "abandoned"
            PROVE  c.step < t.call.step
        <5>1. calls[c].state \in CallState
          BY <1>1, <4>3 DEF TypeOK, Call, CallsOf
        <5>2. c \in CallsUsed(t.task, "model")
          BY <2>4, <4>3, <5>1 DEF Quiet, CallsUsed, Used, CallState
        <5>. QED
          BY <1>1, <4>2, <5>2, NextStep
      <4>. QED
        BY <2>4, <2>5, <3>3, <4>3 DEF Current
    <3>4. CASE Refuses(r, t) /\ t.at = "refuse"
      BY <2>3, <2>4, <3>4 DEF Refuses, Current
    <3>5. CASE Refuses(r, t) /\ t.at = "giveup"
      <4>1. /\ s.at = "refuse" /\ ~Rejectable(t.lease, s.call)
            /\ s.call \in CallsOf(t.task) /\ s.call \notin Consumed(t.task)
            /\ calls[s.call].state \in {"received", "response_rejected"}
        BY <1>2, <2>3, <3>5 DEF Refuses, Placed, CallInMind, Current
      <4>2. Cardinality(RuledAs(t.task, "rejected")) = tasks[t.task].rejections
        BY <2>2, <2>3, <4>1, BeyondLimit
      <4>. QED
        BY <2>4, <3>5, <4>2 DEF Current
    <3>. QED
      BY <1>4, <2>3, <3>1, <3>2, <3>3, <3>4, <3>5 DEF Looks, Refuses
  <2>. QED
    BY <2>2, <2>6, CurrentKept
<1>5. CASE Sends(r, t)
  <2>1. CASE s.at = "infer" /\ t.at = "reserved" /\ t.call = s.call /\ Asking(r)
    <3>1. /\ ReservingModel(s.call) /\ Holds(s.lease) /\ s.call.work = s.task
          /\ t.task = s.task
      BY <1>5, <2>1 DEF Asking, Held, Sends, SameTask
    <3>2. Open(t.task) = {}
      BY <1>2, <2>1, <3>1 DEF Current, Working
    <3>3. /\ UNCHANGED rulings /\ OnlyCall(s.call) /\ s.call \notin DOMAIN calls
          /\ calls'[s.call].state = "reserved"
      BY <3>1 DEF ReservingModel, Reserving
    <3>4. Open(t.task)' = {}
      <4>1. ASSUME NEW c \in CallsOf(t.task)', c # s.call
            PROVE  c \in CallsOf(t.task) /\ calls'[c] = calls[c]
        BY <1>1, <3>3, <4>1 DEF OnlyCall, CallsOf
      <4>2. Consumed(t.task)' = Consumed(t.task)
        BY <3>3 DEF Consumed
      <4>. QED
        BY <3>2, <3>3, <4>1, <4>2 DEF Open
    <3>. QED
      BY <2>1, <3>4 DEF Current
  <2>2. CASE s.at = "reserved" /\ t.at = "sent"
    BY <2>2 DEF Current
  <2>3. CASE /\ s.at = "consume" /\ t.at = "reserved"
             /\ t.call = KeyOf(s.task, "tool", s.call.step)
    <3>1. t.call.kind = "tool"
      BY <2>3, KeyFound
    <3>. QED
      BY <2>3, <3>1 DEF Current
  <2>. QED
    BY <1>5, <2>1, <2>2, <2>3 DEF Sends
<1>6. CASE Turns(r, t)
  BY <1>6 DEF Turns, Current
<1>. QED
  BY <1>3, <1>4, <1>5, <1>6 DEF Moves, Picks, Stops, Tells, ToldOf, Working

-----------------------------------------------------------------------------
\* What every process has in mind

\* A step of the ledger, and what the layers below show of it.
LedgerStep == LedgerFacts /\ LedgerFacts' /\ OrchStep /\ Frame /\ TablesKept /\ RulingsKept

\* A ruling of another kind is none of a tool.
LEMMA OtherRuling ==
  ASSUME OrchTypeOK, NEW c, NEW d, d # "tool", Rules(c, d)
  PROVE  \A w \in DOMAIN work : RuledAs(w, "tool")' = RuledAs(w, "tool")
BY RuledSets DEF RuledAs

\* A step that neither makes a tool call nor rules on one.
LEMMA PairsKept ==
  ASSUME LedgerFacts, Frame, TablesKept, RulingsKept, OrchTypeOK',
         UNCHANGED rulings \/ \E c, d : d # "tool" /\ Rules(c, d),
         \A t \in DOMAIN calls' \ DOMAIN calls : bindings'[t].source = None
  PROVE  Paired'
<1>1. /\ OrchTypeOK /\ TypeOK /\ Paired
      /\ \A t \in DOMAIN calls : /\ bindings'[t] = bindings[t]
                                 /\ t \in DOMAIN calls' /\ calls'[t].work = calls[t].work
                                 /\ t.work \in DOMAIN work
  BY DEF LedgerFacts, OrchInv, TreeInv, LedgerInv, OrchTypeOK, TypeOK, TablesKept, Frame, CallsKept
<1>2. ASSUME NEW w \in DOMAIN work', NEW i \in RuledAs(w, "tool")'
      PROVE  w \in DOMAIN work /\ i \in RuledAs(w, "tool") /\ rulings'[w][i] = rulings[w][i]
  <2>1. CASE UNCHANGED rulings
    BY <1>1, <1>2, <2>1 DEF RuledAs, OrchTypeOK
  <2>2. ASSUME NEW c, NEW d, d # "tool", Rules(c, d)
        PROVE  w \in DOMAIN work /\ i \in RuledAs(w, "tool") /\ rulings'[w][i] = rulings[w][i]
    <3>1. CASE w \notin DOMAIN work
      <4>1. rulings'[w] = <<>>
        BY <2>2, <3>1 DEF Rules
      <4>. QED
        BY <1>2, <4>1 DEF RuledAs
    <3>2. CASE w \in DOMAIN work
      <4>1. RuledAs(w, "tool")' = RuledAs(w, "tool")
        <5>1. \A v \in DOMAIN work : RuledAs(v, "tool")' = RuledAs(v, "tool")
          BY <1>1, <2>2, OtherRuling
        <5>. QED
          BY <3>2, <5>1
      <4>2. i \in RuledAs(w, "tool") /\ i \in DOMAIN rulings[w]
        BY <1>2, <4>1 DEF RuledAs
      <4>. QED
        BY <1>1, <3>2, <4>2, EntriesKept
    <3>. QED
      BY <3>1, <3>2
  <2>. QED
    BY <2>1, <2>2
<1>3. ASSUME NEW w \in DOMAIN work', NEW i \in RuledAs(w, "tool")'
      PROVE  \E t \in CallsOf(w)' : bindings'[t].source = rulings'[w][i].call
  <2>1. PICK t \in CallsOf(w) : bindings[t].source = rulings[w][i].call
    BY <1>1, <1>2, <1>3 DEF Paired
  <2>2. t \in CallsOf(w)'
    BY <1>1 DEF CallsOf
  <2>. QED
    BY <1>1, <1>2, <1>3, <2>1, <2>2 DEF CallsOf
<1>4. ASSUME NEW t \in DOMAIN calls', NEW m, m = bindings'[t].source, m # None
      PROVE  /\ t.step = m.step
             /\ \E i \in DOMAIN rulings'[t.work] :
                  rulings'[t.work][i] = [call |-> m, decision |-> "tool"]
             /\ \A u \in DOMAIN calls' : bindings'[u].source = m => u = t
  <2>1. t \in DOMAIN calls /\ m = bindings[t].source /\ t.work \in DOMAIN work
    BY <1>1, <1>4
  <2>2. PICK i \in DOMAIN rulings[t.work] : rulings[t.work][i] = [call |-> m, decision |-> "tool"]
    BY <1>1, <1>4, <2>1 DEF Paired
  <2>3. i \in DOMAIN rulings'[t.work] /\ rulings'[t.work][i] = [call |-> m, decision |-> "tool"]
    BY <1>1, <2>1, <2>2, EntriesKept
  <2>4. \A u \in DOMAIN calls' : bindings'[u].source = m => u \in DOMAIN calls
    BY <1>4
  <2>5. t.step = m.step /\ \A u \in DOMAIN calls : bindings[u].source = m => u = t
    <3>1. bindings[t].source # None
      BY <1>4, <2>1
    <3>2. /\ t.step = bindings[t].source.step
          /\ \A u \in DOMAIN calls : bindings[u].source = bindings[t].source => u = t
      BY <1>1, <2>1, <3>1 DEF Paired
    <3>. QED
      BY <2>1, <3>2
  <2>. QED
    BY <1>1, <2>3, <2>4, <2>5
<1>. QED
  BY <1>3, <1>4 DEF Paired

\* A tool call is made from the receipt it consumes, which nothing was made from before.
LEMMA PairMade ==
  ASSUME LedgerFacts, Frame, TablesKept, RulingsKept, OrchTypeOK',
         NEW c \in CallId, NEW m \in DOMAIN answers, NEW tool, c.step = m.step,
         ReservingTool(c, m, m, tool)
  PROVE  Paired'
<1>1. /\ OrchTypeOK /\ TypeOK /\ Paired
      /\ \A t \in DOMAIN calls : /\ bindings'[t] = bindings[t]
                                 /\ t \in DOMAIN calls' /\ calls'[t].work = calls[t].work
                                 /\ t.work \in DOMAIN work
  BY DEF LedgerFacts, OrchInv, TreeInv, LedgerInv, OrchTypeOK, TypeOK, TablesKept, Frame, CallsKept
<1>2. /\ c \notin DOMAIN calls /\ DOMAIN calls' = DOMAIN calls \cup {c} /\ bindings'[c].source = m
  <2>1. PICK inputs : Reserving(c, [inputs |-> inputs, source |-> m, tool |-> tool])
    BY DEF ReservingTool
  <2>. DEFINE b == [inputs |-> inputs, source |-> m, tool |-> tool]
  <2>2. Reserving(c, b) /\ b.source = m
    BY <2>1
  <2>. HIDE DEF b
  <2>. QED
    BY <1>1, <2>2, ReservedCall
<1>3. m.work = c.work /\ Rules(m, "tool") /\ m \notin Consumed(m.work)
  BY DEF ReservingTool, Rules
<1>4. /\ c.work \in DOMAIN work
      /\ \E i \in DOMAIN rulings'[c.work] : rulings'[c.work][i] = [call |-> m, decision |-> "tool"]
      /\ DOMAIN rulings'[c.work] = DOMAIN rulings[c.work] \cup {Len(rulings[c.work]) + 1}
      /\ rulings'[c.work][Len(rulings[c.work]) + 1] = [call |-> m, decision |-> "tool"]
  <2>1. /\ m.work \in DOMAIN work
        /\ DOMAIN rulings'[m.work] = DOMAIN rulings[m.work] \cup {Len(rulings[m.work]) + 1}
        /\ rulings'[m.work][Len(rulings[m.work]) + 1] = [call |-> m, decision |-> "tool"]
    BY <1>1, <1>3, RuledRow
  <2>. QED
    BY <1>3, <2>1
<1>5. m # None /\ c.work = calls'[c].work
  BY <1>1, <1>2, WorkflowAssumption DEF OrchTypeOK, TypeOK
<1>6. \A t \in DOMAIN calls : bindings[t].source # m
  <2>1. SUFFICES ASSUME NEW t \in DOMAIN calls, bindings[t].source = m PROVE FALSE
    OBVIOUS
  <2>2. PICK i \in DOMAIN rulings[t.work] : rulings[t.work][i] = [call |-> m, decision |-> "tool"]
    BY <1>1, <1>5, <2>1 DEF Paired
  <2>3. m.work = t.work
    BY <1>1, <1>5, <2>1 DEF LedgerFacts, OrchInv, ToolsFromReceipts
  <2>. QED
    BY <1>3, <2>2, <2>3 DEF Consumed
<1>7. ASSUME NEW t \in DOMAIN calls', NEW s, s = bindings'[t].source, s # None
      PROVE  /\ t.step = s.step
             /\ \E i \in DOMAIN rulings'[t.work] :
                  rulings'[t.work][i] = [call |-> s, decision |-> "tool"]
             /\ \A u \in DOMAIN calls' : bindings'[u].source = s => u = t
  <2>1. CASE t = c
    BY <1>1, <1>2, <1>4, <1>6, <1>7, <2>1
  <2>2. CASE t \in DOMAIN calls
    <3>1. s = bindings[t].source /\ s # m
      BY <1>1, <1>6, <1>7, <2>2
    <3>2. PICK i \in DOMAIN rulings[t.work] : rulings[t.work][i] = [call |-> s, decision |-> "tool"]
      BY <1>1, <1>7, <2>2, <3>1 DEF Paired
    <3>3. i \in DOMAIN rulings'[t.work] /\ rulings'[t.work][i] = [call |-> s, decision |-> "tool"]
      BY <1>1, <2>2, <3>2, EntriesKept
    <3>4. t.step = s.step /\ \A u \in DOMAIN calls : bindings[u].source = s => u = t
      BY <1>1, <1>7, <2>2, <3>1 DEF Paired
    <3>. QED
      BY <1>1, <1>2, <3>1, <3>3, <3>4
  <2>. QED
    BY <1>2, <2>1, <2>2
<1>8. ASSUME NEW w \in DOMAIN work', NEW i \in RuledAs(w, "tool")'
      PROVE  \E t \in CallsOf(w)' : bindings'[t].source = rulings'[w][i].call
  <2>1. CASE w = c.work /\ i = Len(rulings[c.work]) + 1
    <3>1. c \in CallsOf(w)'
      BY <1>2, <1>5, <2>1 DEF CallsOf
    <3>. QED
      BY <1>2, <1>4, <2>1, <3>1
  <2>2. CASE w \in DOMAIN work /\ i \in DOMAIN rulings[w]
    <3>1. rulings'[w][i] = rulings[w][i]
      BY <1>1, <2>2, EntriesKept
    <3>2. i \in RuledAs(w, "tool")
      BY <1>8, <2>2, <3>1 DEF RuledAs
    <3>3. PICK t \in CallsOf(w) : bindings[t].source = rulings[w][i].call
      BY <1>1, <2>2, <3>2 DEF Paired
    <3>. QED
      BY <1>1, <3>1, <3>3 DEF CallsOf
  <2>3. (w = c.work /\ i = Len(rulings[c.work]) + 1) \/ (w \in DOMAIN work /\ i \in DOMAIN rulings[w])
    <3>1. w \notin DOMAIN work => rulings'[w] = <<>>
      BY <1>3 DEF Rules
    <3>2. w \in DOMAIN work /\ w # c.work => rulings'[w] = rulings[w]
      BY <1>3 DEF Rules
    <3>. QED
      BY <1>4, <1>8, <3>1, <3>2 DEF RuledAs
  <2>. QED
    BY <2>1, <2>2, <2>3
<1>. QED
  BY <1>7, <1>8 DEF Paired

\* So receipts and tool calls stay paired, whatever a process writes.
LEMMA PairedKept ==
  ASSUME LedgerFacts, OrchStep, Frame, TablesKept, RulingsKept, OrchTypeOK',
         Unseen \/ \E r \in DOMAIN runner : Placed(runner[r]) /\ Writes(r)
  PROVE  Paired'
<1>1. TreeInv /\ OrchTypeOK /\ DOMAIN bindings = DOMAIN calls
  BY DEF LedgerFacts, OrchInv, OrchTypeOK
<1>2. ASSUME UNCHANGED <<rulings, bindings>>, DOMAIN calls' = DOMAIN calls PROVE Paired'
  BY <1>2, PairsKept
<1>3. ASSUME NEW c, NEW d, d # "tool", Rules(c, d), DOMAIN calls' = DOMAIN calls PROVE Paired'
  BY <1>3, PairsKept
<1>4. ASSUME Silent PROVE Paired'
  BY <1>2, <1>4 DEF Silent, IdleTables, IdleCalls
<1>5. ASSUME NEW r \in DOMAIN runner, Asking(r) PROVE Paired'
  <2>. DEFINE c == runner[r].call
  <2>1. c \in CallId /\ ReservingModel(c) /\ UNCHANGED rulings
    BY <1>5 DEF Asking, ReservingModel
  <2>2. PICK inputs : Reserving(c, [inputs |-> inputs, source |-> None, tool |-> None])
    BY <2>1 DEF ReservingModel
  <2>. DEFINE b == [inputs |-> inputs, source |-> None, tool |-> None]
  <2>3. Reserving(c, b) /\ b.source = None
    BY <2>2
  <2>. HIDE DEF b, c
  <2>4. DOMAIN calls' = DOMAIN calls \cup {c} /\ bindings'[c].source = None
    BY <1>1, <2>1, <2>3, ReservedCall
  <2>. QED
    BY <2>1, <2>4, PairsKept
<1>6. ASSUME NEW r \in DOMAIN runner, Calling(r) PROVE Paired'
  <2>. DEFINE s == runner[r]
              c == KeyOf(s.task, "tool", s.call.step)
  <2>1. c.step = s.call.step
    BY KeyFound
  <2>2. c \in CallId /\ s.call \in DOMAIN answers /\ \E t \in Tool : ReservingTool(c, s.call, s.call, t)
    BY <1>6 DEF Calling
  <2>. HIDE DEF c
  <2>. QED
    BY <2>1, <2>2, PairMade
<1>7. ASSUME NEW r \in DOMAIN runner, Sending(r) \/ Hearing(r) PROVE Paired'
  <2>1. /\ UNCHANGED <<rulings, bindings>>
        /\ runner[r].call \in DOMAIN calls /\ OnlyCall(runner[r].call)
    BY <1>7 DEF Sending, Hearing, Starting, Answering
  <2>2. DOMAIN calls' = DOMAIN calls
    BY <2>1 DEF OnlyCall
  <2>. QED
    BY <1>2, <2>1, <2>2
<1>8. ASSUME NEW r \in DOMAIN runner, Publishing(r) \/ Judging(r) PROVE Paired'
  <2>1. DOMAIN calls' = DOMAIN calls /\ UNCHANGED bindings
        /\ (UNCHANGED rulings \/ \E c : Rules(c, "submit"))
    BY <1>8 DEF Publishing, Judging, Deriving, Derives, IdleCalls
  <2>. QED
    BY <1>2, <1>3, <2>1
<1>9. ASSUME NEW r \in DOMAIN runner, Yielding(r) \/ Dismissing(r) PROVE Paired'
  <2>1. DOMAIN calls' = DOMAIN calls /\ \E c, d : d # "tool" /\ Rules(c, d)
    BY <1>9 DEF Yielding, Dismissing, Abstaining, Rejecting, IdleTables, IdleCalls
  <2>. QED
    BY <1>3, <2>1
<1>10. ASSUME NEW r \in DOMAIN runner, Splitting(r) PROVE Paired'
  <2>1. UNCHANGED calls /\ \E c : Rules(c, "decompose")
    BY <1>10 DEF Splitting, Admitting, Admits, Decompose
  <2>. QED
    BY <1>3, <2>1
<1>. QED
  BY <1>4, <1>5, <1>6, <1>7, <1>8, <1>9, <1>10 DEF Unseen, Writes, Noting, Ending

\* Every step of the ledger is one.
LEMMA LedgerSteps ==
  ASSUME LedgerFacts, [OrchestrationNext]_orchestrationVars,
         Unseen \/ \E r \in DOMAIN runner : Placed(runner[r]) /\ Writes(r)
  PROVE  LedgerStep
<1>1. TreeInv /\ OrchTypeOK
  BY DEF LedgerFacts, OrchInv
<1>2. OrchStep /\ Frame /\ TablesKept /\ RulingsKept /\ OrchTypeOK'
  BY <1>1, OrchSteps, OrchFrame
<1>3. Paired'
  BY <1>2, PairedKept
<1>. QED
  BY <1>2, <1>3, LedgerFactsKept DEF LedgerStep

\* The typing that comes with it.
LEMMA StepTyped ==
  ASSUME LedgerStep
  PROVE  /\ TypeOK /\ OrchTypeOK /\ TreeInv /\ TypeOK' /\ OrchTypeOK' /\ TreeInv'
         /\ \A w \in DOMAIN work : w \in DOMAIN work' /\ tasks'[w] = tasks[w]
BY DEF LedgerStep, LedgerFacts, OrchInv, TreeInv, LedgerInv, OrchTypeOK, TablesKept

\* A process is where it may be, and what it holds a lease for is current.
Ready(s) == Placed(s) /\ (s.at \in Working /\ Holds(s.lease) => Current(s))

\* While its task is not disturbed, and its call not noted.
LEMMA ReadyKept ==
  ASSUME LedgerStep, NEW s, Ready(s), s.at = "sent" => s.call \notin violated',
         s.at \in Working /\ Holds(s.lease)' => Undisturbed(s.task)
  PROVE  Ready(s)'
<1>1. Placed(s)'
  BY StepTyped, PlacedKept DEF LedgerStep, Ready
<1>2. ASSUME s.at \in Working, Holds(s.lease)' PROVE Current(s)'
  <2>1. s.lease \in granted /\ s.task \in DOMAIN work
    BY <1>2 DEF Ready, Placed, Tasked
  <2>2. Holds(s.lease)
    BY <1>2, <2>1, StepTyped, NoneRegained DEF LedgerStep
  <2>3. tasks'[s.task] = tasks[s.task]
    BY <2>1, StepTyped
  <2>. QED
    BY <1>2, <2>2, <2>3, CurrentKept DEF Ready
<1>. QED
  BY <1>1, <1>2 DEF Ready

\* Where nothing is seen everything stays.
LEMMA ReadyUnseen ==
  ASSUME LedgerStep, Unseen, NEW s, Ready(s)
  PROVE  Ready(s)'
<1>1. s.at = "sent" => s.call \notin violated'
  BY DEF Unseen, Ready, Placed, CallInMind
<1>2. Undisturbed(s.task)
  BY StepTyped, IdleUndisturbed DEF Unseen, Silent, IdleTables
<1>. QED
  BY <1>1, <1>2, ReadyKept

\* And for the others when one writes.
LEMMA OthersReady ==
  ASSUME LedgerStep, RunnersPlaced, LeasesApart, NEW r \in DOMAIN runner, Writes(r),
         NEW q \in DOMAIN runner \ {r}, NEW t, t = runner[q]
  PROVE  Ready(t)'
<1>1. Ready(t)
  BY DEF RunnersPlaced, Ready
<1>2. ASSUME t.at = "sent" PROVE t.call \notin violated'
  <2>1. t.call \notin violated
    BY <1>1, <1>2 DEF Ready, Placed, CallInMind
  <2>2. CASE Noting(r)
    BY <1>2, <2>1, <2>2, OwnCall DEF Noting, LedgerStep
  <2>. QED
    BY <2>1, <2>2 DEF Writes, Asking, Calling, Sending, Hearing, Publishing, Judging, Yielding,
                      Ending, Splitting, Dismissing
<1>3. ASSUME t.at \in Working, Holds(t.lease)' PROVE Undisturbed(t.task)
  BY <1>3, HoldersUndisturbed DEF LedgerStep
<1>. QED
  BY <1>1, <1>2, <1>3, ReadyKept

\* A lease that is given is nobody else's.
LEMMA MoverApart ==
  ASSUME LedgerFacts, RunnersPlaced, LeasesApart,
         NEW r \in DOMAIN runner, NEW t, Moves(r, t), t.at \in Working,
         NEW q \in DOMAIN runner \ {r}, runner[q].at \in Working
  PROVE  runner[q].lease # t.lease
<1>. DEFINE s == runner[r]
<1>1. CASE Takes(r, t)
  <2>1. t.lease = [work |-> s.task, owner |-> s.agent, epoch |-> work[s.task].epoch + 1]
    BY <1>1 DEF Takes
  <2>2. runner[q].lease \in granted /\ s.task \in DOMAIN work
    BY <1>1 DEF RunnersPlaced, Placed, Takes, Tasked
  <2>3. GrantsBounded /\ TypeOK
    BY DEF LedgerFacts, OrchInv, TreeInv, LedgerInv
  <2>4. work[s.task].epoch \in Nat
    BY <2>2, <2>3 DEF TypeOK, Row
  <2>5. SUFFICES ASSUME runner[q].lease = t.lease PROVE FALSE
    OBVIOUS
  <2>6. work[s.task].epoch + 1 <= work[s.task].epoch
    BY <2>1, <2>2, <2>3, <2>5 DEF GrantsBounded
  <2>. QED
    BY <2>4, <2>6
<1>2. CASE ~Takes(r, t)
  <2>1. t.lease = s.lease /\ s.at \in Working
    BY <1>2 DEF Moves, Picks, Stops, Tells, ToldOf, Looks, Sends, Refuses, Turns, SameTask, Working
  <2>. QED
    BY <2>1 DEF LeasesApart
<1>. QED
  BY <1>1, <1>2

Minds == Remembered /\ RunnersPlaced /\ LeasesApart

\* A step of one process leaves all of them what they are to have in mind.
LEMMA MindsStepped ==
  ASSUME LedgerStep, Accounted, Minds, NEW r \in DOMAIN runner, Step(r), Unseen \/ Writes(r)
  PROVE  Minds'
<1>1. PICK u : u = runner'[r]
  OBVIOUS
<1>2. Placed(runner[r])
  BY DEF Minds, RunnersPlaced
<1>3. Moved(r) /\ Moves(r, u)
  BY <1>1, <1>2, StepMoves DEF LedgerStep, Minds
<1>4. Placed(u)' /\ (u.at \in Working /\ Holds(u.lease)' => Current(u)')
  BY <1>2, <1>3, MoverPlaced, MoverCurrent DEF LedgerStep, Minds
<1>5. ASSUME NEW q \in DOMAIN runner \ {r}, NEW v, v = runner[q]
      PROVE  Ready(v)'
  <2>1. Ready(v)
    BY <1>5 DEF Minds, RunnersPlaced, Ready
  <2>. QED
    BY <1>5, <2>1, ReadyUnseen, OthersReady DEF Minds
<1>6. RunnersPlaced'
  <2>1. ASSUME NEW q \in DOMAIN runner, NEW v, v = runner'[q]
        PROVE  Placed(v)' /\ (v.at \in Working /\ Holds(v.lease)' => Current(v)')
    <3>1. CASE q = r
      BY <1>1, <1>4, <2>1, <3>1
    <3>2. CASE q # r
      BY <1>3, <1>5, <2>1, <3>2 DEF Moved, Ready
    <3>. QED
      BY <3>1, <3>2
  <2>. QED
    BY <1>3, <2>1 DEF Moved, RunnersPlaced
<1>7. LeasesApart'
  <2>1. ASSUME NEW q \in DOMAIN runner \ {r}, runner'[q].at \in Working, u.at \in Working
        PROVE  runner'[q].lease # u.lease
    BY <1>3, <2>1, MoverApart DEF Moved, LedgerStep, Minds
  <2>. QED
    BY <1>1, <1>3, <2>1 DEF Moved, LeasesApart, Minds
<1>. QED
  BY <1>3, <1>6, <1>7 DEF Moved, Minds

\* So do the steps of the environment, and a process that starts.
LEMMA MindsUnmoved ==
  ASSUME LedgerStep, Minds, Unseen, UNCHANGED runner \/ \E r : runner' = Put(runner, r, Idle)
  PROVE  Minds'
<1>1. ASSUME NEW q \in DOMAIN runner, NEW v, v = runner[q] PROVE Ready(v)'
  BY <1>1, ReadyUnseen DEF Minds, RunnersPlaced, Ready
<1>2. CASE UNCHANGED runner
  <2>1. RunnersPlaced'
    BY <1>1, <1>2 DEF RunnersPlaced, Ready
  <2>. QED
    BY <1>2, <2>1 DEF Minds, Remembered, LeasesApart
<1>3. ASSUME NEW r, runner' = Put(runner, r, Idle) PROVE Minds'
  <2>1. /\ DOMAIN runner' = DOMAIN runner \cup {r}
        /\ runner'[r] = Idle /\ \A q \in DOMAIN runner \ {r} : runner'[q] = runner[q]
        /\ runner' = [q \in DOMAIN runner' |-> runner'[q]]
    BY <1>3 DEF Put
  <2>2. PICK i : i = Idle
    OBVIOUS
  <2>3. Memory(i) /\ i.at = "idle" /\ i.outcome = None
    BY <2>2, IdleMemory
  <2>4. Placed(i)'
    BY <2>3 DEF Placed, CallInMind, Tasked, Working
  <2>5. Remembered'
    BY <2>1, <2>2, <2>3 DEF Remembered, Minds
  <2>6. ASSUME NEW q \in DOMAIN runner', NEW v, v = runner'[q]
        PROVE  Placed(v)' /\ (v.at \in Working /\ Holds(v.lease)' => Current(v)')
    BY <1>1, <2>1, <2>2, <2>3, <2>4, <2>6 DEF Ready, Working
  <2>7. RunnersPlaced'
    BY <2>6 DEF RunnersPlaced
  <2>8. LeasesApart'
    BY <2>1, <2>2, <2>3 DEF LeasesApart, Minds, Working
  <2>. QED
    BY <2>5, <2>7, <2>8 DEF Minds
<1>. QED
  BY <1>2, <1>3

-----------------------------------------------------------------------------
\* What is said about the tables

\* A step of the ledger that one process writes with, or nobody.
TableStep ==
  LedgerStep /\ (Unseen \/ \E r \in DOMAIN runner : Ready(runner[r]) /\ Writes(r))

\* A call that is sent, or heard of, is the one the writer has in mind.
Sent(c) == \E r \in DOMAIN runner : Ready(runner[r]) /\ Sending(r) /\ c = runner[r].call
Heard(c) == \E r \in DOMAIN runner : Ready(runner[r]) /\ Hearing(r) /\ c = runner[r].call

Passes(c) ==
  IF c \notin DOMAIN calls THEN calls'[c].state = "reserved"
  ELSE \/ calls'[c].state = calls[c].state
       \/ calls[c].state = "reserved" /\ calls'[c].state = "abandoned"
       \/ calls[c].state = "reserved" /\ calls'[c].state = "dispatched" /\ Sent(c)
       \/ /\ calls[c].state = "dispatched" /\ calls'[c].state \in {"received", "response_rejected"}
          /\ Heard(c)

\* What becomes of a call in a step.
LEMMA CallPasses ==
  ASSUME TableStep, NEW c \in DOMAIN calls'
  PROVE  Passes(c)
<1>1. CASE IdleCalls
  BY <1>1 DEF IdleCalls, Passes
<1>2. ASSUME NEW d, OnlyCall(d), d \notin DOMAIN calls, calls'[d].state = "reserved"
      PROVE  Passes(c)
  BY <1>2 DEF OnlyCall, Passes
<1>3. CASE Unseen
  BY <1>1, <1>3 DEF Unseen, Silent, IdleTables
<1>4. ASSUME NEW r \in DOMAIN runner, Ready(runner[r]), Writes(r) PROVE Passes(c)
  <2>1. CASE Noting(r) \/ Ending(r) \/ Publishing(r) \/ Judging(r) \/ Yielding(r) \/ Dismissing(r)
    BY <1>1, <2>1 DEF Noting, Ending, Publishing, Judging, Yielding, Dismissing, Silent, Deriving,
                      Derives, Abstaining, Rejecting, IdleTables
  <2>2. CASE Asking(r)
    BY <1>2, <2>2 DEF Asking, ReservingModel, Reserving
  <2>3. CASE Calling(r)
    <3>. DEFINE d == KeyOf(runner[r].task, "tool", runner[r].call.step)
    <3>1. PICK t : ReservingTool(d, runner[r].call, runner[r].call, t)
      BY <2>3 DEF Calling
    <3>. HIDE DEF d
    <3>. QED
      BY <1>2, <3>1 DEF ReservingTool, Reserving
  <2>4. CASE Sending(r)
    <3>1. Starting(runner[r].call)
      BY <2>4 DEF Sending
    <3>2. CASE c = runner[r].call
      BY <1>4, <2>4, <3>1, <3>2 DEF Starting, Passes, Sent
    <3>3. CASE c # runner[r].call
      BY <3>1, <3>3 DEF Starting, OnlyCall, Passes
    <3>. QED
      BY <3>2, <3>3
  <2>5. CASE Hearing(r)
    <3>1. PICK o \in BOOLEAN : \E answer \in Reply(runner[r].call.work) :
            Answering(runner[r].call, o, answer)
      BY <2>5 DEF Hearing
    <3>2. CASE c = runner[r].call
      BY <1>4, <2>5, <3>1, <3>2 DEF Answering, Passes, Heard
    <3>3. CASE c # runner[r].call
      BY <3>1, <3>3 DEF Answering, OnlyCall, Passes
    <3>. QED
      BY <3>2, <3>3
  <2>6. CASE Splitting(r)
    <3>1. UNCHANGED calls
      BY <2>6 DEF Splitting, Admitting, Decompose
    <3>. QED
      BY <3>1 DEF Passes
  <2>. QED
    BY <1>4, <2>1, <2>2, <2>3, <2>4, <2>5, <2>6 DEF Writes
<1>. QED
  BY <1>3, <1>4 DEF TableStep

\* Rulings stay.
LEMMA RulingStays ==
  ASSUME LedgerStep, NEW w \in DOMAIN work
  PROVE  /\ Consumed(w) \subseteq Consumed(w)'
         /\ RulingsOf(w) \subseteq RulingsOf(w)'
         /\ work[w].status = "done" => rulings'[w] = rulings[w]
<1>1. OrchTypeOK /\ RulingsKept
  BY StepTyped DEF LedgerStep
<1>2. ASSUME NEW i \in DOMAIN rulings[w]
      PROVE  i \in DOMAIN rulings'[w] /\ rulings'[w][i] = rulings[w][i]
  BY <1>1, EntriesKept
<1>3. work[w].status = "done" => rulings'[w] = rulings[w]
  BY <1>1 DEF RulingsKept, Rules
<1>. QED
  BY <1>2, <1>3 DEF Consumed, RulingsOf

\* Open calls are those that were open, and one that is sent.
LEMMA OpenStays ==
  ASSUME TableStep, NEW w \in DOMAIN work, NEW c \in Open(w)'
  PROVE  c \in Open(w) \/ (c \in CallsOf(w) /\ c.kind = "model" /\ Sent(c))
<1>1. LedgerStep /\ OrchTypeOK /\ OrchTypeOK'
  BY StepTyped DEF TableStep
<1>2. c \in DOMAIN calls' /\ c.work = w /\ c.kind = "model" /\ Passes(c)
  BY <1>1, CallPasses DEF Open, CallsOf, OrchTypeOK
<1>3. c \in DOMAIN calls
  BY <1>2 DEF Open, Passes
<1>4. c \in CallsOf(w)
  BY <1>1, <1>2, <1>3 DEF CallsOf, OrchTypeOK
<1>5. c \notin Consumed(w)' => c \notin Consumed(w)
  BY <1>1, RulingStays
<1>. QED
  BY <1>2, <1>3, <1>4, <1>5 DEF Open, Passes

\* Work that is new has no calls and no rulings, and is not done.
LEMMA NewWorkEmpty ==
  ASSUME LedgerStep, NEW w \in DOMAIN work' \ DOMAIN work
  PROVE  /\ CallsOf(w)' = {} /\ rulings'[w] = <<>>
         /\ work'[w].status # "done" /\ w \notin DOMAIN artifacts'
<1>1. PICK c \in DOMAIN calls : \E kids : Admitting(c, kids)
  BY StepTyped, NewWork DEF LedgerStep
<1>2. PICK kids : Admitting(c, kids)
  BY <1>1
<1>3. Brought(c, kids) /\ Rules(c, "decompose")
  BY <1>2, StepTyped, AdmittedRows DEF Admitting, Admits
<1>4. UNCHANGED <<calls, artifacts>> /\ work'[w].status = "ready"
  BY <1>3 DEF Brought
<1>. QED
  BY <1>3, <1>4, StepTyped DEF TypeOK, CallsOf, Rules

\* The lease of who writes is current.
LEMMA WriterCurrent ==
  ASSUME LedgerStep, NEW s, Ready(s), s.at \in Working, Holds(s.lease)
  PROVE  Current(s) /\ s.task \in DOMAIN work /\ work[s.task].status = "leased"
BY DEF Ready, Placed, Holds, Working, Tasked

\* A model call is sent when no other is open.
LEMMA OpenOnceKept ==
  ASSUME TableStep, OpenOnce
  PROVE  OpenOnce'
<1>1. LedgerStep /\ OrchTypeOK
  BY StepTyped DEF TableStep
<1>2. ASSUME NEW w \in DOMAIN work, NEW c \in Open(w)', NEW d \in Open(w)', c # d
      PROVE  FALSE
  <2>1. ASSUME NEW x \in CallsOf(w), x.kind = "model", Sent(x) PROVE Open(w) = {}
    <3>1. PICK r \in DOMAIN runner : Ready(runner[r]) /\ Sending(r) /\ x = runner[r].call
      BY <2>1 DEF Sent
    <3>2. Current(runner[r]) /\ runner[r].task = w /\ runner[r].at = "reserved"
      BY <1>1, <3>1, WriterCurrent, CallsByKey DEF Sending, Held, Working
    <3>. QED
      BY <2>1, <3>1, <3>2 DEF Current
  <2>2. ASSUME NEW x, NEW y, Sent(x), Sent(y) PROVE x = y
    <3>1. Starting(x) /\ Starting(y)
      BY <2>2 DEF Sent, Sending
    <3>. QED
      BY <3>1 DEF Starting, OnlyCall
  <2>. QED
    BY <1>2, <2>1, <2>2, OpenStays DEF OpenOnce
<1>3. ASSUME NEW w \in DOMAIN work' \ DOMAIN work PROVE Open(w)' = {}
  BY <1>1, <1>3, NewWorkEmpty DEF Open
<1>. QED
  BY <1>2, <1>3 DEF OpenOnce

\* A decision is recorded as its receipt proposes it, or as a rejection.
Proposes(c, d) ==
  /\ c \in DOMAIN calls /\ c.kind = "model"
  /\ calls[c].state = "received" => d \in {Parsed(tasks[c.work], answers[c]).kind, "rejected"}

\* What the writer rules on.
LEMMA RuledBy ==
  ASSUME TableStep
  PROVE  UNCHANGED rulings \/ \E c, d : Rules(c, d) /\ Proposes(c, d)
<1>1. LedgerStep /\ OrchTypeOK
  BY StepTyped DEF TableStep
<1>2. CASE Unseen
  BY <1>2 DEF Unseen, Silent
<1>3. ASSUME NEW r \in DOMAIN runner, Ready(runner[r]), Writes(r)
      PROVE  UNCHANGED rulings \/ \E c, d : Rules(c, d) /\ Proposes(c, d)
  <2>. DEFINE s == runner[r]
              c == s.call
  <2>1. s.at \in {"consume", "refuse"} => c \in CallsOf(s.task) /\ c.kind = "model"
    BY <1>3 DEF Ready, Placed, CallInMind
  <2>2. s.at \in {"consume", "refuse"} => c \in DOMAIN calls /\ c.work = s.task
    BY <1>1, <2>1, CallsByKey
  <2>3. CASE Calling(r)
    <3>. DEFINE t == KeyOf(s.task, "tool", c.step)
    <3>1. PICK tool : ReservingTool(t, c, c, tool)
      BY <2>3 DEF Calling
    <3>2. s.at = "consume" /\ Proposal(s).kind = "tool"
      BY <2>3 DEF Calling
    <3>. HIDE DEF t
    <3>3. Rules(c, "tool")
      BY <3>1 DEF ReservingTool
    <3>4. Proposal(s) = Parsed(tasks[s.task], answers[c])
      BY <3>2, Proposed
    <3>. QED
      BY <2>1, <2>2, <3>2, <3>3, <3>4 DEF Proposes
  <2>4. CASE Publishing(r)
    <3>1. /\ Rules(c, "submit") /\ Parsed(tasks[s.task], answers[c]).kind = "submit"
          /\ s.at = "consume"
      BY <2>4 DEF Publishing, Deriving, Derives, VerifiedDerivation
    <3>. QED
      BY <2>1, <2>2, <3>1 DEF Proposes
  <2>5. CASE Yielding(r)
    <3>1. Rules(c, "abstain") /\ Proposal(s).kind = "abstain" /\ s.at = "consume"
      BY <2>5 DEF Yielding, Abstaining
    <3>. QED
      BY <2>1, <2>2, <3>1, Proposed DEF Proposes
  <2>6. CASE Splitting(r)
    <3>1. Rules(c, "decompose") /\ Proposal(s).kind = "decompose" /\ s.at = "consume"
      BY <2>6 DEF Splitting, Admitting, Admits
    <3>. QED
      BY <2>1, <2>2, <3>1, Proposed DEF Proposes
  <2>7. CASE Dismissing(r)
    <3>1. Rules(c, "rejected") /\ s.at = "refuse"
      BY <2>7 DEF Dismissing, Rejecting
    <3>. QED
      BY <2>1, <2>2, <3>1 DEF Proposes
  <2>8. CASE Noting(r) \/ Ending(r) \/ Asking(r) \/ Sending(r) \/ Hearing(r) \/ Judging(r)
    BY <2>8 DEF Noting, Ending, Asking, Sending, Hearing, Judging, Silent, ReservingModel, Starting,
                Answering, Deriving, Derives
  <2>. QED
    BY <1>3, <2>3, <2>4, <2>5, <2>6, <2>7, <2>8 DEF Writes
<1>. QED
  BY <1>2, <1>3 DEF TableStep

\* A new decision of w is about a receipt of w that nothing had consumed.
LEMMA NewRuling ==
  ASSUME TableStep, NEW w \in DOMAIN work, NEW d \in RulingsOf(w)' \ RulingsOf(w)
  PROVE  /\ Rules(d.call, d.decision) /\ Proposes(d.call, d.decision)
         /\ d.call.work = w /\ d.call \in CallsOf(w) /\ d.call \notin Consumed(w)
         /\ calls[d.call].state \in {"received", "response_rejected"}
<1>1. LedgerStep /\ OrchTypeOK
  BY StepTyped DEF TableStep
<1>2. ~UNCHANGED rulings
  BY DEF RulingsOf
<1>3. PICK c, k : Rules(c, k) /\ Proposes(c, k)
  BY <1>2, RuledBy
<1>4. c.work = w
  BY <1>3 DEF Rules, RulingsOf
<1>5. PICK i \in DOMAIN rulings'[w] : d = rulings'[w][i]
  BY DEF RulingsOf
<1>6. i \notin DOMAIN rulings[w]
  BY <1>1, <1>3, <1>4, <1>5, RuledRow DEF RulingsOf
<1>7. d = [call |-> c, decision |-> k]
  BY <1>1, <1>3, <1>4, <1>5, <1>6, RuledRow
<1>. QED
  BY <1>3, <1>4, <1>7 DEF Rules

\* So decisions parse again.
LEMMA ReparsedKept ==
  ASSUME TableStep, Reparsed
  PROVE  Reparsed'
<1>1. LedgerStep /\ OrchTypeOK /\ OrchTypeOK' /\ RuledSettled
  BY StepTyped DEF TableStep, LedgerStep, LedgerFacts, OrchInv
<1>2. ASSUME NEW w \in DOMAIN work, NEW c \in CallsOf(w),
             calls[c].state \in {"received", "response_rejected"}, calls'[c].state = "received"
      PROVE  calls[c].state = "received" /\ answers'[c] = answers[c] /\ tasks'[w] = tasks[w]
  <2>1. calls[c].state = "received" /\ c \in DOMAIN calls
    BY <1>1, <1>2 DEF LedgerStep, Frame, CallsKept, CallsOf, Unsettled
  <2>. QED
    BY <1>1, <2>1, StepTyped DEF LedgerStep, TablesKept, OrchTypeOK
<1>3. ASSUME NEW w \in DOMAIN work, NEW d \in RulingsOf(w)'
      PROVE  /\ d.call.kind = "model"
             /\ calls'[d.call].state = "received" =>
                  d.decision \in {Parsed(tasks'[w], answers'[d.call]).kind, "rejected"}
  <2>1. CASE d \in RulingsOf(w)
    <3>1. d.call \in Consumed(w)
      BY <2>1 DEF RulingsOf, Consumed
    <3>2. d.call \in CallsOf(w) /\ calls[d.call].state \in {"received", "response_rejected"}
      BY <1>1, <3>1 DEF RuledSettled
    <3>. QED
      BY <1>2, <2>1, <3>2 DEF Reparsed
  <2>2. CASE d \notin RulingsOf(w)
    <3>1. /\ Proposes(d.call, d.decision)
          /\ d.call.work = w /\ d.call \in CallsOf(w)
          /\ calls[d.call].state \in {"received", "response_rejected"}
      BY <1>3, <2>2, NewRuling
    <3>. QED
      BY <1>2, <3>1 DEF Proposes
  <2>. QED
    BY <2>1, <2>2
<1>4. ASSUME NEW w \in DOMAIN work' \ DOMAIN work PROVE RulingsOf(w)' = {}
  BY <1>1, <1>4, NewWorkEmpty DEF RulingsOf
<1>. QED
  BY <1>3, <1>4 DEF Reparsed

\* What is recorded of a usage is recorded of a call under way.
LEMMA AccountedKept ==
  ASSUME TableStep, Accounted
  PROVE  Accounted'
<1>1. LedgerStep /\ OrchTypeOK /\ TypeOK /\ TypeOK' /\ CallsKept
  BY StepTyped DEF TableStep, LedgerStep, Frame
<1>2. ASSUME NEW c \in violated PROVE c \in DOMAIN calls' /\ calls'[c].state = "dispatched"
  <2>1. c \in DOMAIN calls /\ calls[c].state = "dispatched"
    BY <1>2 DEF Accounted, AccountingAgrees
  <2>2. ~Heard(c)
    BY <1>2 DEF Heard, Ready, Placed, CallInMind, Hearing
  <2>3. Passes(c)
    BY <1>1, <2>1, CallPasses DEF CallsKept
  <2>. QED
    BY <1>1, <2>1, <2>2, <2>3 DEF Passes, CallsKept
<1>3. ASSUME NEW c \in violated' \ violated PROVE c \in DOMAIN calls' /\ calls'[c].state = "dispatched"
  BY <1>3 DEF TableStep, Unseen, Writes, Noting, Asking, Calling, Sending, Hearing, Publishing,
              Judging, Yielding, Ending, Splitting, Dismissing
<1>4. ASSUME NEW c \in DOMAIN calls', c.kind = "model", calls'[c].state = "received"
      PROVE  calls'[c].actual <= PromptBound + MaxNew
  <2>1. Passes(c)
    BY <1>4, CallPasses
  <2>2. CASE c \in DOMAIN calls /\ calls[c].state = "received"
    <3>1. calls[c].actual <= PromptBound + MaxNew
      BY <1>4, <2>2 DEF Accounted, AccountingAgrees, Model
    <3>2. Charge(calls'[c]) <= Charge(calls[c])
      BY <1>1, <2>2 DEF CallsKept
    <3>3. calls'[c].actual <= calls[c].actual
      BY <1>4, <2>2, <3>2 DEF Charge, Unsettled
    <3>4. calls[c].actual \in Nat /\ calls'[c].actual \in Nat
      BY <1>1, <1>4, <2>2 DEF TypeOK, Call
    <3>. QED
      BY <3>1, <3>3, <3>4, AnswerAssumption
  <2>3. CASE Heard(c)
    BY <1>4, <2>3 DEF Heard, Hearing
  <2>. QED
    BY <1>4, <2>1, <2>2, <2>3 DEF Passes
<1>. QED
  BY <1>2, <1>3, <1>4 DEF Accounted, AccountingAgrees, Model

\* Decisions stay; and who ends a task is at it.
LEMMA EndedBy ==
  ASSUME TableStep
  PROVE  /\ DOMAIN decisions \subseteq DOMAIN decisions'
         /\ \A w \in DOMAIN work : work[w].status # "done" /\ work'[w].status = "done" =>
              \E r \in DOMAIN runner :
                /\ Ready(runner[r]) /\ w = runner[r].task
                /\ \/ Publishing(r) \/ Judging(r)
                   \/ (Yielding(r) \/ Ending(r)) /\ w \in DOMAIN decisions'
<1>1. /\ LedgerStep /\ TypeOK /\ DoneMeansDecided /\ DoneMeansDecided'
      /\ DOMAIN work \subseteq DOMAIN work'
  BY StepTyped DEF TableStep, TreeInv, LedgerStep, Frame
<1>2. CASE UNCHANGED <<artifacts, decisions>>
  BY <1>1, <1>2 DEF DoneMeansDecided
<1>3. CASE Unseen
  BY <1>2, <1>3 DEF Unseen, Silent, IdleTables
<1>4. ASSUME NEW r \in DOMAIN runner, Ready(runner[r]), Writes(r)
      PROVE  /\ DOMAIN decisions \subseteq DOMAIN decisions'
             /\ \A w \in DOMAIN work : work[w].status # "done" /\ work'[w].status = "done" =>
                  /\ w = runner[r].task
                  /\ \/ Publishing(r) \/ Judging(r)
                     \/ (Yielding(r) \/ Ending(r)) /\ w \in DOMAIN decisions'
  <2>. DEFINE v == runner[r].task
  <2>1. CASE Publishing(r) \/ Judging(r)
    <3>1. DOMAIN artifacts' = DOMAIN artifacts \cup {v} /\ UNCHANGED decisions
      BY <2>1 DEF Publishing, Judging, Deriving, Derives
    <3>. HIDE DEF v
    <3>2. \A w \in DOMAIN work : work[w].status # "done" /\ work'[w].status = "done" => w = v
      BY <1>1, <3>1 DEF DoneMeansDecided
    <3>. QED
      BY <2>1, <3>1, <3>2 DEF v
  <2>2. CASE Yielding(r) \/ Ending(r)
    <3>1. UNCHANGED artifacts /\ Abstention(v)
      BY <2>2 DEF Yielding, Ending, Abstaining, Silent, IdleTables
    <3>. HIDE DEF v
    <3>2. PICK a : decisions' = Put(decisions, v, [decision |-> "abstain", publisher |-> a])
      BY <3>1 DEF Abstention
    <3>3. DOMAIN decisions' = DOMAIN decisions \cup {v}
          /\ \A w \in DOMAIN decisions \ {v} : decisions'[w] = decisions[w]
      BY <3>2 DEF Put
    <3>4. \A w \in DOMAIN work : work[w].status # "done" /\ work'[w].status = "done" => w = v
      BY <1>1, <3>1, <3>3 DEF DoneMeansDecided
    <3>. QED
      BY <2>2, <3>3, <3>4 DEF v
  <2>3. CASE Splitting(r)
    <3>1. UNCHANGED <<artifacts, decisions>>
      BY <2>3 DEF Splitting, Admitting, Decompose
    <3>. QED
      BY <1>2, <3>1, <1>1 DEF DoneMeansDecided
  <2>4. CASE Noting(r) \/ Asking(r) \/ Calling(r) \/ Sending(r) \/ Hearing(r) \/ Dismissing(r)
    <3>1. UNCHANGED <<artifacts, decisions>>
      <4>1. CASE Calling(r)
        <5>. DEFINE t == KeyOf(runner[r].task, "tool", runner[r].call.step)
        <5>1. PICK tool : ReservingTool(t, runner[r].call, runner[r].call, tool)
          BY <4>1 DEF Calling
        <5>. HIDE DEF t
        <5>. QED
          BY <4>1, <5>1 DEF Calling, ReservingTool, Reserving
      <4>. QED
        BY <2>4, <4>1 DEF Noting, Asking, Sending, Hearing, Dismissing, Silent, IdleTables,
                      ReservingModel, Reserving, Starting, Answering, Rejecting
    <3>. QED
      BY <1>1, <3>1 DEF DoneMeansDecided
  <2>. QED
    BY <1>4, <2>1, <2>2, <2>3, <2>4 DEF Writes
<1>. QED
  BY <1>3, <1>2, <1>4 DEF TableStep

\* A receipt is left behind only at the rejection limit.
LEMMA LeftAtLimitKept ==
  ASSUME TableStep, OpenOnce, LeftAtLimit
  PROVE  LeftAtLimit'
<1>1. /\ LedgerStep /\ OrchTypeOK /\ OrchTypeOK' /\ CallsKept
  BY StepTyped DEF TableStep, LedgerStep, Frame
<1>2. ASSUME NEW w \in DOMAIN work, work'[w].status = "done", NEW x \in Open(w)'
      PROVE  /\ w \in DOMAIN decisions'
             /\ Cardinality(RuledAs(w, "rejected")') = tasks'[w].rejections
  <2>1. x \in Open(w)
    <3>1. SUFFICES ASSUME x \in CallsOf(w), Sent(x) PROVE FALSE
      BY <1>2, OpenStays
    <3>2. Starting(x) /\ x.work = w
      BY <1>1, <3>1, CallsByKey DEF Sent, Sending
    <3>. QED
      BY <1>2, <3>2 DEF Starting
  <2>2. tasks'[w] = tasks[w]
    BY <1>1, StepTyped
  <2>3. CASE work[w].status = "done"
    <3>1. w \in DOMAIN decisions /\ Cardinality(RuledAs(w, "rejected")) = tasks[w].rejections
      BY <2>1, <2>3 DEF LeftAtLimit
    <3>2. RuledAs(w, "rejected")' = RuledAs(w, "rejected")
      BY <1>1, <2>3, RulingStays DEF RuledAs
    <3>. QED
      BY <2>2, <3>1, <3>2, EndedBy
  <2>4. CASE work[w].status # "done"
    <3>1. PICK r \in DOMAIN runner :
            /\ Ready(runner[r]) /\ w = runner[r].task
            /\ \/ Publishing(r) \/ Judging(r)
               \/ (Yielding(r) \/ Ending(r)) /\ w \in DOMAIN decisions'
      BY <1>2, <2>4, EndedBy
    <3>. DEFINE c == runner[r].call
    <3>2. ASSUME NEW d, Rules(c, d), runner[r].at = "consume" PROVE FALSE
      <4>1. c \in CallsOf(w) /\ c.kind = "model" /\ c.work = w
        BY <1>1, <3>1, <3>2, CallsByKey DEF Ready, Placed, CallInMind
      <4>. HIDE DEF c
      <4>2. calls[c].state \in {"received", "response_rejected"} /\ c \notin Consumed(w)
        BY <3>2, <4>1 DEF Rules
      <4>3. x = c
        BY <2>1, <4>1, <4>2 DEF OpenOnce, Open
      <4>4. c \in Consumed(w)'
        <5>. DEFINE n == Len(rulings[w]) + 1
        <5>1. n \in DOMAIN rulings'[w] /\ rulings'[w][n] = [call |-> c, decision |-> d]
          BY <1>1, <3>2, <4>1, RuledRow
        <5>. HIDE DEF n
        <5>. QED
          BY <5>1 DEF Consumed
      <4>5. calls'[c].state = calls[c].state
        BY <1>1, <4>1, <4>2 DEF CallsKept, CallsOf, Unsettled
      <4>. QED
        BY <1>2, <4>2, <4>3, <4>4, <4>5 DEF Open
    <3>3. CASE Publishing(r)
      BY <3>2, <3>3 DEF Publishing, Deriving, Derives
    <3>4. CASE Yielding(r)
      BY <3>2, <3>4 DEF Yielding, Abstaining
    <3>5. CASE Judging(r)
      BY <1>1, <2>1, <3>1, <3>5
         DEF Judging, Open, CallsOf, OrchTypeOK, LedgerStep, LedgerFacts, CallsClaimed
    <3>6. CASE Ending(r) /\ w \in DOMAIN decisions'
      <4>1. Current(runner[r]) /\ runner[r].at = "giveup"
        BY <1>1, <3>1, <3>6, WriterCurrent DEF Ending, Held, Working
      <4>2. Cardinality(RuledAs(w, "rejected")) = tasks[w].rejections
        BY <2>1, <3>1, <4>1 DEF Current
      <4>3. RuledAs(w, "rejected")' = RuledAs(w, "rejected")
        BY <3>6 DEF Ending, Silent, RuledAs
      <4>. QED
        BY <2>2, <3>6, <4>2, <4>3
    <3>. QED
      BY <3>1, <3>3, <3>4, <3>5, <3>6
  <2>. QED
    BY <2>3, <2>4
<1>3. ASSUME NEW w \in DOMAIN work' \ DOMAIN work PROVE work'[w].status # "done"
  BY <1>1, <1>3, NewWorkEmpty
<1>. QED
  BY <1>2, <1>3 DEF LeftAtLimit

-----------------------------------------------------------------------------
\* What a result was made from

\* The last check of some is one of them.
LEMMA LastEvidenceFound ==
  ASSUME TypeOK, NEW w, Evidence(w) # {}
  PROVE  LastEvidence(w) \in Evidence(w)
<1>1. Evidence(w) \in SUBSET DOMAIN calls
  BY DEF Evidence, CallsOf
<1>2. \E c \in Evidence(w) : \A d \in Evidence(w) : d.step <= c.step
  BY <1>1, LatestCall
<1>. QED
  BY <1>2 DEF LastEvidence

\* Work that is over makes no calls any more.
LEMMA OverCalls ==
  ASSUME LedgerStep, NEW v \in DOMAIN artifacts
  PROVE  /\ CallsOf(v)' = CallsOf(v)
         /\ \A c \in CallsOf(v) :
              /\ calls'[c].state = calls[c].state
              /\ c \in DOMAIN bindings' /\ bindings'[c] = bindings[c]
              /\ calls[c].state = "received" => answers'[c] = answers[c]
<1>1. /\ OrchTypeOK /\ OrchTypeOK' /\ TypeOK /\ CallsKept /\ OrchStep /\ TreeInv
      /\ DoneMeansDecided /\ DoneIsSettled
  BY StepTyped DEF LedgerStep, Frame, TreeInv
<1>2. v \in DOMAIN work /\ work[v].status = "done"
  BY <1>1 DEF DoneMeansDecided, TypeOK
<1>3. \A c \in CallsOf(v) : c \in DOMAIN calls /\ calls[c].state \notin Unsettled
  BY <1>1, <1>2 DEF DoneIsSettled, CallsOf
<1>4. ASSUME NEW c \in DOMAIN calls' \ DOMAIN calls PROVE c.work # v
  <2>1. ASSUME NEW d \in CallId, NEW b, Reserving(d, b) PROVE d.work # v /\ c = d
    BY <1>2, <1>4, <2>1 DEF Reserving, OnlyCall
  <2>. QED
    BY <1>1, <1>4, <2>1, NewCalls DEF ReservingModel, ReservingTool
<1>5. CallsOf(v)' = CallsOf(v)
  BY <1>1, <1>4, CallsByKey DEF CallsKept, CallsOf, OrchTypeOK
<1>. QED
  BY <1>1, <1>3, <1>5 DEF CallsKept, LedgerStep, TablesKept, OrchTypeOK

\* The checks of a review that is published stay what they are.
LEMMA EvidenceKept ==
  ASSUME LedgerStep, NEW w \in DOMAIN work, tasks[w].rule.review \in DOMAIN artifacts
  PROVE  /\ Evidence(w)' = Evidence(w)
         /\ LastEvidence(w)' = LastEvidence(w)
         /\ Evidence(w) # {} => answers'[LastEvidence(w)] = answers[LastEvidence(w)]
<1>1. TypeOK /\ tasks'[w] = tasks[w]
  BY StepTyped
<1>. PICK v : v = tasks[w].rule.review
  OBVIOUS
<1>2. /\ CallsOf(v)' = CallsOf(v)
      /\ \A c \in CallsOf(v) :
           /\ calls'[c].state = calls[c].state
           /\ c \in DOMAIN bindings' /\ bindings'[c] = bindings[c]
           /\ calls[c].state = "received" => answers'[c] = answers[c]
  BY OverCalls
<1>3. Evidence(w)' = {t \in CallsOf(v)' :
         /\ t.kind = "tool" /\ bindings'[t].tool = tasks[w].rule.checker
         /\ calls'[t].state = "received" /\ answers'[t].verdict \in {"pass", "fail"}}
  <2>1. tasks'[w].rule.review = v
    BY <1>1
  <2>. QED
    BY <1>1, <2>1 DEF Evidence
<1>4. Evidence(w) = {t \in CallsOf(v) :
         /\ t.kind = "tool" /\ bindings[t].tool = tasks[w].rule.checker
         /\ calls[t].state = "received" /\ answers[t].verdict \in {"pass", "fail"}}
  BY DEF Evidence
<1>5. Evidence(w)' = Evidence(w)
  BY <1>2, <1>3, <1>4
<1>6. LastEvidence(w)' = LastEvidence(w)
  BY <1>5 DEF LastEvidence
<1>7. ASSUME Evidence(w) # {} PROVE answers'[LastEvidence(w)] = answers[LastEvidence(w)]
  <2>1. LastEvidence(w) \in Evidence(w)
    BY <1>1, <1>7, LastEvidenceFound
  <2>. QED
    BY <1>2, <1>4, <2>1
<1>. QED
  BY <1>5, <1>6, <1>7

\* Who derives an artifact.
LEMMA DerivedBy ==
  ASSUME TableStep
  PROVE  \/ UNCHANGED derived
         \/ \E r \in DOMAIN runner : Ready(runner[r]) /\ (Publishing(r) \/ Judging(r))
<1>1. CASE Unseen
  BY <1>1 DEF Unseen, Silent, IdleTables
<1>2. ASSUME NEW r \in DOMAIN runner, Ready(runner[r]), Writes(r)
      PROVE  UNCHANGED derived \/ Publishing(r) \/ Judging(r)
  <2>1. CASE Calling(r)
    <3>. DEFINE t == KeyOf(runner[r].task, "tool", runner[r].call.step)
    <3>1. PICK tool : ReservingTool(t, runner[r].call, runner[r].call, tool)
      BY <2>1 DEF Calling
    <3>. HIDE DEF t
    <3>. QED
      BY <3>1 DEF ReservingTool, Reserving
  <2>. QED
    BY <1>2, <2>1 DEF Writes, Noting, Asking, Sending, Hearing, Yielding, Ending, Splitting,
                      Dismissing, Silent, IdleTables, ReservingModel, Reserving, Starting,
                      Answering, Abstaining, Rejecting, Admitting, Admits
<1>. QED
  BY <1>1, <1>2 DEF TableStep

\* A result says what the last check said of its candidate.
Judged(w) ==
  /\ tasks[w].kind = "host"
  /\ Evidence(w) # {}
  /\ derived[w].accepted = (answers[LastEvidence(w)].verdict = "pass")
  /\ derived[w].lineage = {LastEvidence(w), artifacts[tasks[w].rule.candidate].call}

\* The inputs of a result are published before it.
LEMMA JudgedAfter ==
  ASSUME LedgerStep, NEW w \in DOMAIN artifacts', w \in DOMAIN work, tasks[w].kind = "host",
         DOMAIN artifacts' \subseteq DOMAIN artifacts \cup {w}
  PROVE  tasks[w].rule.candidate \in DOMAIN artifacts /\ tasks[w].rule.review \in DOMAIN artifacts
<1>1. /\ HeldOverArtifacts' /\ GraphWellFounded /\ w \in DOMAIN work' /\ DOMAIN tasks = DOMAIN work
      /\ work[w].dependencies \subseteq work'[w].dependencies /\ TypeOK
  BY StepTyped DEF TreeInv, LedgerInv, LedgerStep, Frame, OrchTypeOK
<1>2. {tasks[w].rule.candidate, tasks[w].rule.review} \subseteq work[w].dependencies
  BY <1>1 DEF LedgerStep, LedgerFacts, ReadsAwaited
<1>3. work[w].dependencies \subseteq DOMAIN artifacts'
  BY <1>1 DEF HeldOverArtifacts
<1>4. w \notin work[w].dependencies
  <2>. DEFINE graph == [v \in DOMAIN work |-> work[v].dependencies]
  <2>1. Acyclic(graph)
    BY <1>1 DEF GraphWellFounded
  <2>2. {w} \in (SUBSET DOMAIN graph) \ {{}}
    OBVIOUS
  <2>3. graph[w] \cap {w} = {}
    <3>. HIDE DEF graph
    <3>. QED
      BY <2>1, <2>2 DEF Acyclic
  <2>. QED
    BY <2>3
<1>. QED
  BY <1>2, <1>3, <1>4

\* A judgement stands while its result, its candidate and its checks do.
LEMMA JudgedKept ==
  ASSUME LedgerStep, NEW w \in DOMAIN work, tasks[w].kind = "host", Evidence(w) # {},
         tasks[w].rule.candidate \in DOMAIN artifacts, tasks[w].rule.review \in DOMAIN artifacts,
         derived'[w].accepted = (answers[LastEvidence(w)].verdict = "pass"),
         derived'[w].lineage = {LastEvidence(w), artifacts[tasks[w].rule.candidate].call}
  PROVE  Judged(w)'
<1>1. tasks'[w] = tasks[w] /\ ArtifactsKept
  BY StepTyped DEF LedgerStep, Frame
<1>2. /\ Evidence(w)' = Evidence(w)
      /\ LastEvidence(w)' = LastEvidence(w)
      /\ answers'[LastEvidence(w)] = answers[LastEvidence(w)]
  BY EvidenceKept
<1>3. artifacts'[tasks'[w].rule.candidate] = artifacts[tasks[w].rule.candidate]
  BY <1>1 DEF ArtifactsKept
<1>. QED
  BY <1>1, <1>2, <1>3 DEF Judged

\* Results derive again.
LEMMA RederivedKept ==
  ASSUME TableStep, Rederived
  PROVE  Rederived'
<1>1. /\ LedgerStep /\ OrchTypeOK /\ OrchTypeOK' /\ TypeOK /\ ArtifactsKept /\ HeldOverArtifacts
  BY StepTyped DEF TableStep, LedgerStep, Frame, TreeInv, LedgerInv
<1>2. ASSUME NEW w \in DOMAIN derived, derived[w].kind # "output", derived'[w] = derived[w]
      PROVE  Judged(w)'
  <2>1. Judged(w) /\ w \in DOMAIN artifacts /\ w \in DOMAIN work
    BY <1>1, <1>2 DEF Rederived, Judged, OrchTypeOK, TypeOK
  <2>2. {tasks[w].rule.candidate, tasks[w].rule.review} \subseteq work[w].dependencies
    BY <1>1, <2>1 DEF Judged, LedgerStep, LedgerFacts, ReadsAwaited, OrchTypeOK
  <2>3. work[w].dependencies \subseteq DOMAIN artifacts
    BY <1>1, <2>1 DEF HeldOverArtifacts
  <2>. QED
    BY <1>1, <1>2, <2>1, <2>2, <2>3, JudgedKept DEF Judged
<1>3. CASE UNCHANGED derived
  BY <1>2, <1>3 DEF Rederived, Judged
<1>4. ASSUME NEW r \in DOMAIN runner, Ready(runner[r]), Publishing(r) \/ Judging(r)
      PROVE  Rederived'
  <2>1. PICK v : v = runner[r].task
    OBVIOUS
  <2>2. PICK row : row = derived'[v]
    OBVIOUS
  <2>3. /\ v \in DOMAIN work /\ v \notin DOMAIN derived
        /\ DOMAIN derived' = DOMAIN derived \cup {v}
        /\ \A w \in DOMAIN derived : derived'[w] = derived[w]
        /\ DOMAIN artifacts' = DOMAIN artifacts \cup {v}
    BY <1>1, <1>4, <2>1 DEF Publishing, Judging, Deriving, Derives, Put, OrchTypeOK
  <2>4. CASE Publishing(r)
    <3>1. row.kind = "output"
      BY <2>1, <2>2, <2>4 DEF Publishing, Deriving, Derives, Put
    <3>. QED
      BY <1>2, <2>2, <2>3, <3>1 DEF Rederived, Judged
  <2>5. CASE Judging(r)
    <3>1. /\ tasks[v].kind = "host" /\ Evidence(v) # {}
          /\ row = [kind |-> "result",
                    lineage |-> {LastEvidence(v), artifacts[tasks[v].rule.candidate].call},
                    accepted |-> answers[LastEvidence(v)].verdict = "pass"]
      BY <2>1, <2>2, <2>5 DEF Judging, Deriving, Derives, Put
    <3>2. tasks[v].rule.candidate \in DOMAIN artifacts /\ tasks[v].rule.review \in DOMAIN artifacts
      BY <1>1, <2>3, <3>1, JudgedAfter
    <3>3. derived'[v].accepted = (answers[LastEvidence(v)].verdict = "pass")
      <4>. PICK pass : pass = (answers[LastEvidence(v)].verdict = "pass")
        OBVIOUS
      <4>1. row.accepted = pass
        BY <3>1
      <4>. QED
        BY <2>2, <4>1
    <3>4. derived'[v].lineage = {LastEvidence(v), artifacts[tasks[v].rule.candidate].call}
      BY <2>2, <3>1
    <3>5. Judged(v)'
      BY <1>1, <2>3, <3>1, <3>2, <3>3, <3>4, JudgedKept
    <3>. QED
      BY <1>2, <2>3, <3>5 DEF Rederived, Judged
  <2>. QED
    BY <1>4, <2>4, <2>5
<1>. QED
  BY <1>3, <1>4, DerivedBy

-----------------------------------------------------------------------------
\* What a request was frozen from

\* The decisions of the steps before one.
RuledBefore(w, n) == {d \in RulingsOf(w) : d.call.step < n}

\* What may be read before a step is settled with the decisions before it: children
\* that come later are those of a later decision.
LEMMA ReadsStay ==
  ASSUME LedgerStep, NEW w \in DOMAIN work, NEW n \in Nat,
         RuledBefore(w, n)' = RuledBefore(w, n)
  PROVE  EffectiveReads(w, n)' = EffectiveReads(w, n)
<1>1. /\ TypeOK /\ TreeInv /\ OrchTypeOK /\ OrchTypeOK' /\ OrchStep
      /\ tasks'[w] = tasks[w] /\ n # Now
  BY StepTyped DEF LedgerStep, Now
<1>. DEFINE Decomposed == \E d \in RuledBefore(w, n) : d.decision = "decompose"
<1>2. /\ (\E i \in RuledAs(w, "decompose") : n = Now \/ rulings[w][i].call.step < n) <=> Decomposed
      /\ (\E i \in RuledAs(w, "decompose")' : n = Now \/ rulings'[w][i].call.step < n) <=> Decomposed
  <2>1. RuledBefore(w, n) = {d \in {rulings[w][i] : i \in DOMAIN rulings[w]} : d.call.step < n}
    BY DEF RuledBefore, RulingsOf
  <2>2. RuledBefore(w, n) = {d \in {rulings'[w][i] : i \in DOMAIN rulings'[w]} : d.call.step < n}
    BY DEF RuledBefore, RulingsOf
  <2>3. (\E i \in RuledAs(w, "decompose") : rulings[w][i].call.step < n) <=> Decomposed
    BY <2>1 DEF RuledAs
  <2>4. (\E i \in RuledAs(w, "decompose")' : rulings'[w][i].call.step < n) <=> Decomposed
    BY <2>2 DEF RuledAs
  <2>. QED
    BY <1>1, <2>3, <2>4
<1>3. Decomposed => Children(w)' = Children(w)
  <2>1. CASE UNCHANGED meta
    BY <2>1 DEF Children
  <2>2. ASSUME NEW c, NEW kids, Admitting(c, kids), Decomposed PROVE Children(w)' = Children(w)
    <3>1. Grown(c.work, kids)
      BY <1>1, <2>2, AdmittedChildren
    <3>2. c.work # w
      <4>1. RuledAs(c.work, "decompose") = {}
        BY <2>2 DEF Admitting, Admits
      <4>. QED
        BY <1>2, <2>2, <4>1
    <3>3. /\ DOMAIN meta = DOMAIN work /\ DOMAIN meta' = DOMAIN work'
      BY <1>1, StepTyped DEF TreeInv, PlatformTypeOK
    <3>4. ASSUME NEW k \in DOMAIN meta', meta'[k].parent = w
          PROVE  k \in DOMAIN meta /\ meta[k].parent = w
      BY <1>1, <3>1, <3>2, <3>3, <3>4, StepTyped DEF Grown, LedgerStep, Frame
    <3>5. ASSUME NEW k \in DOMAIN meta, meta[k].parent = w
          PROVE  k \in DOMAIN meta' /\ meta'[k].parent = w
      BY <1>1, <3>3, <3>5, StepTyped DEF LedgerStep, Frame
    <3>. QED
      BY <3>4, <3>5 DEF Children
  <2>. QED
    BY <1>1, <2>1, <2>2, NewWork
<1>. HIDE DEF Decomposed
<1>. QED
  BY <1>1, <1>2, <1>3 DEF EffectiveReads

\* A context made of calls that are over and of published inputs stays what it is.
LEMMA ContextStays ==
  ASSUME LedgerStep, NEW w \in DOMAIN work, NEW n \in Nat, NEW seen, NEW ruled,
         seen \subseteq CallsOf(w), \A x \in seen : calls[x].state \in Final,
         EffectiveReads(w, n)' = EffectiveReads(w, n),
         EffectiveReads(w, n) \subseteq DOMAIN artifacts
  PROVE  Context(w, n, seen, ruled)' = Context(w, n, seen, ruled)
<1>1. /\ OrchTypeOK /\ CallsKept /\ ArtifactsKept /\ TablesKept /\ tasks'[w] = tasks[w]
  BY StepTyped DEF LedgerStep, Frame
<1>2. \A x \in seen : /\ x \in DOMAIN calls /\ calls'[x].state = calls[x].state
                      /\ bindings'[x] = bindings[x]
                      /\ calls[x].state = "received" => answers'[x] = answers[x]
  BY <1>1 DEF CallsOf, CallsKept, Final, Unsettled, TablesKept, OrchTypeOK
<1>3. Readable(w, n)' = Readable(w, n)
  BY <1>1 DEF Readable, ArtifactsKept
<1>4. ASSUME NEW c PROVE Delivered(c, seen)' = Delivered(c, seen)
  <2>. DEFINE S == {t \in seen : bindings[t].source = c /\ calls[t].state = "received"}
  <2>1. S = {t \in seen : bindings'[t].source = c /\ calls'[t].state = "received"}
    BY <1>2
  <2>2. S # {} => (CHOOSE t \in S : TRUE) \in S
    OBVIOUS
  <2>3. S # {} => answers'[CHOOSE t \in S : TRUE] = answers[CHOOSE t \in S : TRUE]
    BY <1>2, <2>2
  <2>4. Delivered(c, seen) = IF S = {} THEN "unsettled" ELSE answers[CHOOSE t \in S : TRUE].verdict
    BY DEF Delivered
  <2>5. Delivered(c, seen)' =
          LET T == {t \in seen : bindings'[t].source = c /\ calls'[t].state = "received"} IN
          IF T = {} THEN "unsettled" ELSE answers'[CHOOSE t \in T : TRUE].verdict
    BY DEF Delivered
  <2>. QED
    BY <2>1, <2>3, <2>4, <2>5
<1>5. Remaining(tasks[w], seen, ruled)' = Remaining(tasks[w], seen, ruled)
  <2>1. ASSUME NEW kind
        PROVE  {c \in seen : c.kind = kind /\ calls'[c].state \in Used}
                 = {c \in seen : c.kind = kind /\ calls[c].state \in Used}
    BY <1>2
  <2>. QED
    BY <1>1, <2>1 DEF Remaining
<1>. DEFINE Turn(c, d) == <<c, d.decision, IF d.decision = "tool" THEN Delivered(c, seen) ELSE None>>
            asked == {c \in seen : c.kind = "model" /\ c.step < n}
            refused == {c \in asked : calls[c].state = "response_rejected"}
            heard == {b \in asked : calls[b].state = "received"}
            of(c) == {e \in ruled : e.call = c}
            turns == UNION {{Turn(c, d) : d \in of(c)} : c \in heard}
            receipts == {c \in seen : calls[c].state = "received"}
<1>6. refused' = refused /\ heard' = heard /\ receipts' = receipts
  BY <1>2
<1>7. turns' = turns
  <2>1. \A c, d : Turn(c, d)' = Turn(c, d)
    BY <1>4
  <2>2. ASSUME NEW x \in turns PROVE x \in turns'
    <3>1. PICK c \in heard : x \in {Turn(c, d) : d \in of(c)}
      OBVIOUS
    <3>2. x \in {Turn(c, d)' : d \in of(c)}
      <4>. HIDE DEF Turn
      <4>. QED
        BY <2>1, <3>1
    <3>. QED
      BY <1>6, <3>1, <3>2
  <2>3. ASSUME NEW x \in turns' PROVE x \in turns
    <3>1. PICK c \in heard' : x \in {Turn(c, d)' : d \in of(c)}
      OBVIOUS
    <3>2. x \in {Turn(c, d) : d \in of(c)}
      <4>. HIDE DEF Turn
      <4>. QED
        BY <2>1, <3>1
    <3>. QED
      BY <1>6, <3>1, <3>2
  <2>. QED
    BY <2>2, <2>3
<1>8. /\ Context(w, n, seen, ruled) =
           [inputs |-> Readable(w, n), refused |-> refused, turns |-> turns,
            receipts |-> receipts, remaining |-> Remaining(tasks[w], seen, ruled)]
      /\ Context(w, n, seen, ruled)' =
           [inputs |-> Readable(w, n)', refused |-> refused', turns |-> turns',
            receipts |-> receipts', remaining |-> Remaining(tasks[w], seen, ruled)']
  BY DEF Context
<1>. HIDE DEF refused, turns, receipts
<1>. QED
  BY <1>3, <1>5, <1>6, <1>7, <1>8

\* A request is rebuilt for as long as model calls are made only for later steps.
LEMMA RebuiltKept ==
  ASSUME TableStep, NEW c \in Model, calls[c].state # "abandoned", Rebuilt(c),
         frozen'[c] = frozen[c],
         \A x \in CallsOf(c.work)' \ CallsOf(c.work) : x.kind = "model" => c.step < x.step
  PROVE  Rebuilt(c)'
<1>. DEFINE w == c.work
            seen == frozen[c].seen
<1>1. /\ LedgerStep /\ TypeOK /\ OrchTypeOK /\ OrchTypeOK' /\ TypeOK' /\ CallsKept /\ ArtifactsKept
  BY StepTyped DEF TableStep, LedgerStep, Frame
<1>2. c \in DOMAIN calls /\ w \in DOMAIN work /\ c \in CallsOf(w)
  BY <1>1, CallsByKey DEF Model, OrchTypeOK, TypeOK
<1>3. \A x \in CallsOf(w)' : x.step \in Nat
  BY <1>1, WorkflowAssumption DEF CallsOf, TypeOK
<1>4. CallsOf(w) \subseteq CallsOf(w)'
  BY <1>1 DEF CallsOf, CallsKept
<1>5. c.step \in Nat
  BY <1>2, <1>3, <1>4
<1>6. RuledBefore(w, c.step)' = RuledBefore(w, c.step)
  <2>1. RulingsOf(w) \subseteq RulingsOf(w)'
    BY <1>1, <1>2, RulingStays
  <2>2. ASSUME NEW d \in RulingsOf(w)' \ RulingsOf(w) PROVE ~(d.call.step < c.step)
    <3>1. /\ Proposes(d.call, d.decision) /\ d.call \in CallsOf(w) /\ d.call \notin Consumed(w)
          /\ calls[d.call].state \in {"received", "response_rejected"}
      BY <1>2, <2>2, NewRuling
    <3>2. d.call = c \/ c.step < d.call.step
      BY <3>1 DEF Rebuilt, Proposes
    <3>. QED
      BY <1>3, <1>4, <1>5, <3>1, <3>2
  <2>. QED
    BY <2>1, <2>2 DEF RuledBefore
<1>7. EffectiveReads(w, c.step)' = EffectiveReads(w, c.step)
  BY <1>1, <1>2, <1>5, <1>6, ReadsStay
<1>8. /\ seen \subseteq CallsOf(w) /\ \A x \in seen : calls[x].state \in Final
      /\ EffectiveReads(w, c.step) \subseteq DOMAIN artifacts
  BY DEF Rebuilt
<1>. PICK ruled : ruled = RuledBefore(w, c.step)
  OBVIOUS
<1>9. AsOf(c)' = AsOf(c)
  <2>. PICK s : s = seen
    OBVIOUS
  <2>1. Context(w, c.step, s, ruled)' = Context(w, c.step, s, ruled)
    BY <1>1, <1>2, <1>5, <1>7, <1>8, ContextStays
  <2>2. AsOf(c) = Context(w, c.step, s, ruled)
    BY DEF AsOf, RuledBefore
  <2>3. AsOf(c)' = Context(w, c.step, s, ruled)'
    <3>1. frozen'[c].seen = s
      OBVIOUS
    <3>2. {d \in RulingsOf(w)' : d.call.step < c.step} = ruled
      BY <1>6 DEF RuledBefore
    <3>. QED
      BY <3>1, <3>2 DEF AsOf
  <2>. QED
    BY <2>1, <2>2, <2>3
<1>10. seen \subseteq CallsOf(w)' /\ \A x \in seen : calls'[x].state \in Final
  BY <1>1, <1>4, <1>8 DEF CallsOf, CallsKept, Final, Unsettled
<1>11. EffectiveReads(w, c.step)' \subseteq DOMAIN artifacts'
  BY <1>1, <1>7, <1>8 DEF ArtifactsKept
<1>12. ASSUME NEW x \in CallsOf(w)', x.kind = "model", calls'[x].state # "abandoned"
       PROVE  IF x \in seen THEN x.step < c.step /\ x \in Consumed(w)' ELSE x = c \/ c.step < x.step
  <2>1. CASE x \in CallsOf(w)
    <3>1. calls[x].state # "abandoned"
      BY <1>1, <1>12, <2>1 DEF CallsOf, CallsKept, Unsettled
    <3>2. Consumed(w) \subseteq Consumed(w)'
      BY <1>1, <1>2, RulingStays
    <3>. QED
      BY <1>12, <2>1, <3>1, <3>2 DEF Rebuilt
  <2>2. CASE x \notin CallsOf(w)
    BY <1>8, <1>12, <2>2
  <2>. QED
    BY <2>1, <2>2
<1>. QED
  <2>1. frozen'[c].context = AsOf(c)'
    BY <1>9 DEF Rebuilt
  <2>. HIDE DEF seen
  <2>2. frozen'[c].seen = seen
    BY DEF seen
  <2>. QED
    BY <1>10, <1>11, <1>12, <2>1, <2>2 DEF Rebuilt

\* A request is frozen from what its task has, all of it over and earlier.
LEMMA AskedRebuilt ==
  ASSUME TableStep, Reparsed, NEW r \in DOMAIN runner, Ready(runner[r]), Asking(r),
         NEW c, c = runner[r].call
  PROVE  /\ Rebuilt(c)' /\ c \notin DOMAIN calls /\ c.kind = "model"
         /\ DOMAIN calls' = DOMAIN calls \cup {c}
         /\ \A x \in CallsOf(c.work) :
              x.kind = "model" /\ calls[x].state # "abandoned" => x.step < c.step
<1>1. /\ LedgerStep /\ TypeOK /\ OrchTypeOK /\ OrchTypeOK' /\ TypeOK' /\ CallsKept /\ ArtifactsKept
      /\ HeldOverArtifacts /\ RuledSettled /\ ChildrenAwaited /\ PlatformTypeOK
  BY StepTyped DEF TableStep, LedgerStep, LedgerFacts, OrchInv, TreeInv, LedgerInv, Frame
<1>. PICK w : w = runner[r].task
  OBVIOUS
<1>2. /\ runner[r].at = "infer" /\ c.work = w /\ w \in DOMAIN work /\ Holds(runner[r].lease)
      /\ ReservingModel(c) /\ c \in CallId
      /\ frozen' = Put(frozen, c, [seen |-> CallsOf(w),
                                   context |-> Context(w, c.step, CallsOf(w), RulingsOf(w))])
  BY DEF Asking, Held
<1>3. Current(runner[r]) /\ work[w].status = "leased"
  BY <1>1, <1>2, WriterCurrent DEF Working
<1>4. /\ Quiet(w) /\ Open(w) = {}
      /\ \A x \in CallsOf(w) : x.kind = "model" /\ calls[x].state # "abandoned" => x.step < c.step
  BY <1>2, <1>3 DEF Current
<1>5. /\ c \notin DOMAIN calls /\ DOMAIN calls' = DOMAIN calls \cup {c} /\ c.kind = "model"
      /\ c.step \in Nat /\ UNCHANGED rulings
  <2>1. PICK b : Reserving(c, b)
    BY <1>2 DEF ReservingModel
  <2>. QED
    BY <1>1, <1>2, <2>1, ReservedCall, WorkflowAssumption DEF ReservingModel
<1>6. CallsOf(w)' = CallsOf(w) \cup {c}
  BY <1>1, <1>2, <1>5, CallsByKey DEF CallsOf, OrchTypeOK
<1>. PICK seen : seen = CallsOf(w)
  OBVIOUS
<1>. PICK ruled : ruled = RulingsOf(w)
  OBVIOUS
<1>7. \A x \in seen : calls[x].state \in Final /\ calls'[x].state \in Final
  BY <1>1, <1>4 DEF CallsOf, Quiet, TypeOK, Call, CallState, Unsettled, Final, CallsKept
<1>8. RulingsOf(w)' = ruled /\ \A d \in ruled : d.call.step < c.step
  <2>1. RulingsOf(w)' = ruled
    BY <1>5 DEF RulingsOf
  <2>2. ASSUME NEW d \in ruled PROVE d.call.step < c.step
    <3>1. d.call \in Consumed(w)
      BY <2>2 DEF RulingsOf, Consumed
    <3>2. d.call \in CallsOf(w) /\ calls[d.call].state \in {"received", "response_rejected"}
      BY <1>1, <1>2, <3>1 DEF RuledSettled
    <3>3. d.call.kind = "model"
      BY <1>2, <2>2 DEF Reparsed
    <3>. QED
      BY <1>4, <3>2, <3>3
  <2>. QED
    BY <2>1, <2>2
<1>9. RuledBefore(w, c.step) = ruled /\ RuledBefore(w, c.step)' = ruled
  BY <1>8 DEF RuledBefore
<1>10. EffectiveReads(w, c.step)' = EffectiveReads(w, c.step)
  BY <1>1, <1>2, <1>5, <1>9, ReadsStay
<1>11. EffectiveReads(w, c.step) \subseteq DOMAIN artifacts
  <2>1. work[w].dependencies \subseteq DOMAIN artifacts
    BY <1>1, <1>2, <1>3 DEF HeldOverArtifacts
  <2>2. tasks[w].reads \subseteq work[w].dependencies
    BY <1>1, <1>2 DEF LedgerStep, LedgerFacts, ReadsAwaited, OrchTypeOK
  <2>3. Children(w) \subseteq work[w].dependencies
    <3>1. w # None
      BY <1>1, <1>2, DeclarationAssumption DEF TypeOK
    <3>. QED
      BY <1>1, <3>1 DEF Children, ChildrenAwaited
  <2>. QED
    BY <2>1, <2>2, <2>3 DEF EffectiveReads
<1>12. Context(w, c.step, seen, ruled)' = Context(w, c.step, seen, ruled)
  BY <1>1, <1>2, <1>5, <1>7, <1>10, <1>11, ContextStays
<1>13. frozen'[c].seen = seen /\ frozen'[c].context = Context(w, c.step, seen, ruled)
  BY <1>2 DEF Put
<1>14. AsOf(c)' = Context(w, c.step, seen, ruled)'
  <2>1. {d \in RulingsOf(w)' : d.call.step < c.step} = ruled
    BY <1>8
  <2>. QED
    BY <1>2, <1>13, <2>1 DEF AsOf
<1>15. ASSUME NEW x \in CallsOf(w)', x.kind = "model", calls'[x].state # "abandoned"
       PROVE  IF x \in seen THEN x.step < c.step /\ x \in Consumed(w)' ELSE x = c \/ c.step < x.step
  <2>1. CASE x \in seen
    <3>1. calls[x].state \in {"received", "response_rejected"} /\ calls[x].state # "abandoned"
      BY <1>1, <1>7, <1>15, <2>1 DEF CallsOf, Final, CallsKept, Unsettled
    <3>2. x \in Consumed(w)
      BY <1>4, <1>15, <2>1, <3>1 DEF Open
    <3>3. x \in Consumed(w)'
      BY <1>5, <3>2 DEF Consumed
    <3>. QED
      BY <1>4, <1>15, <2>1, <3>1, <3>3
  <2>. QED
    BY <1>6, <1>15, <2>1
<1>16. Rebuilt(c)'
  <2>1. EffectiveReads(w, c.step)' \subseteq DOMAIN artifacts'
    BY <1>1, <1>10, <1>11 DEF ArtifactsKept
  <2>2. frozen'[c].context = AsOf(c)'
    BY <1>12, <1>13, <1>14
  <2>. QED
    BY <1>2, <1>6, <1>7, <1>13, <1>15, <2>1, <2>2 DEF Rebuilt
<1>. QED
  BY <1>2, <1>4, <1>5, <1>16

\* Frozen requests stay what they are, and a call is new that is not asked for as a tool's.
LEMMA FrozenBy ==
  ASSUME TableStep
  PROVE  \/ UNCHANGED frozen /\ Model' = Model
         \/ \E r \in DOMAIN runner : Ready(runner[r]) /\ Asking(r)
<1>1. LedgerStep /\ TreeInv /\ OrchTypeOK /\ OrchStep
  BY StepTyped DEF TableStep, LedgerStep
<1>2. CASE Unseen
  BY <1>2 DEF Unseen, Silent, IdleTables, IdleCalls, Model
<1>3. ASSUME NEW r \in DOMAIN runner, Writes(r), ~Asking(r) PROVE UNCHANGED frozen /\ Model' = Model
  <2>1. UNCHANGED frozen
    BY <1>3 DEF Writes, Noting, Calling, Sending, Hearing, Publishing, Judging, Yielding, Ending,
                Splitting, Dismissing
  <2>2. CASE Calling(r)
    <3>. DEFINE t == KeyOf(runner[r].task, "tool", runner[r].call.step)
    <3>1. PICK tool : t \in CallId /\ ReservingTool(t, runner[r].call, runner[r].call, tool)
      BY <2>2 DEF Calling
    <3>. HIDE DEF t
    <3>2. t.kind = "tool" /\ DOMAIN calls' = DOMAIN calls \cup {t}
      BY <1>1, <3>1, ReservedCall DEF ReservingTool
    <3>. QED
      BY <2>1, <3>2 DEF Model
  <2>3. CASE Splitting(r)
    <3>1. PICK kids : Admitting(runner[r].call, kids)
      BY <2>3 DEF Splitting
    <3>2. UNCHANGED calls
      BY <1>1, <3>1, AdmittedChildren DEF Grown
    <3>. QED
      BY <2>1, <3>2 DEF Model
  <2>4. CASE ~Calling(r) /\ ~Splitting(r)
    <3>. DEFINE Same == DOMAIN calls' = DOMAIN calls
    <3>1. ASSUME Sending(r) PROVE Same
      BY <3>1 DEF Sending, Starting, OnlyCall
    <3>2. ASSUME Hearing(r) PROVE Same
      BY <3>2 DEF Hearing, Answering, OnlyCall
    <3>3. ASSUME Noting(r) \/ Ending(r) PROVE Same
      BY <3>3 DEF Noting, Ending, Silent, IdleTables, IdleCalls
    <3>4. ASSUME Publishing(r) \/ Judging(r) PROVE Same
      BY <3>4 DEF Publishing, Judging, Deriving, Derives, IdleCalls
    <3>5. ASSUME Yielding(r) \/ Dismissing(r) PROVE Same
      BY <3>5 DEF Yielding, Dismissing, Abstaining, Rejecting, IdleTables, IdleCalls
    <3>6. Same
      BY <1>3, <2>4, <3>1, <3>2, <3>3, <3>4, <3>5 DEF Writes
    <3>. QED
      BY <2>1, <3>6 DEF Model
  <2>. QED
    BY <2>2, <2>3, <2>4
<1>. QED
  BY <1>2, <1>3 DEF TableStep

\* Every request is rebuilt.
LEMMA FrozenRebuiltKept ==
  ASSUME TableStep, Reparsed, FrozenRebuilt
  PROVE  FrozenRebuilt'
<1>1. /\ LedgerStep /\ OrchTypeOK /\ OrchTypeOK' /\ CallsKept
  BY StepTyped DEF TableStep, LedgerStep, Frame
<1>2. \A c \in Model : calls'[c].state # "abandoned" => calls[c].state # "abandoned"
  BY <1>1 DEF Model, CallsKept, Unsettled
<1>3. CASE UNCHANGED frozen /\ Model' = Model
  <2>1. ASSUME NEW c \in Model, calls'[c].state # "abandoned" PROVE Rebuilt(c)'
    <3>1. calls[c].state # "abandoned" /\ Rebuilt(c)
      BY <1>2, <2>1 DEF FrozenRebuilt
    <3>2. \A x \in CallsOf(c.work)' \ CallsOf(c.work) : x.kind # "model"
      BY <1>1, <1>3 DEF Model, CallsOf, CallsKept
    <3>. QED
      BY <1>3, <2>1, <3>1, <3>2, RebuiltKept
  <2>. QED
    BY <1>3, <2>1 DEF FrozenRebuilt
<1>4. ASSUME NEW r \in DOMAIN runner, Ready(runner[r]), Asking(r) PROVE FrozenRebuilt'
  <2>. PICK n : n = runner[r].call
    OBVIOUS
  <2>1. /\ Rebuilt(n)' /\ n \notin DOMAIN calls /\ n.kind = "model"
        /\ DOMAIN calls' = DOMAIN calls \cup {n}
        /\ \A x \in CallsOf(n.work) :
             x.kind = "model" /\ calls[x].state # "abandoned" => x.step < n.step
    BY <1>4, AskedRebuilt
  <2>2. DOMAIN frozen' = DOMAIN frozen \cup {n} /\ \A c \in DOMAIN frozen \ {n} : frozen'[c] = frozen[c]
    BY <1>4 DEF Asking, Put
  <2>3. Model' = Model \cup {n}
    BY <2>1 DEF Model
  <2>4. ASSUME NEW c \in Model, calls'[c].state # "abandoned" PROVE Rebuilt(c)'
    <3>1. calls[c].state # "abandoned" /\ Rebuilt(c) /\ c # n /\ frozen'[c] = frozen[c]
      BY <1>2, <2>1, <2>2, <2>4 DEF FrozenRebuilt, Model
    <3>2. ASSUME NEW x \in CallsOf(c.work)' \ CallsOf(c.work) PROVE c.step < x.step
      <4>1. x = n
        BY <1>1, <2>1, <3>2 DEF CallsOf, CallsKept
      <4>2. n.work = c.work
        BY <1>1, <3>2, <4>1 DEF CallsOf, OrchTypeOK
      <4>3. c \in CallsOf(n.work) /\ c.kind = "model"
        BY <1>1, <2>4, <4>2 DEF Model, CallsOf, OrchTypeOK
      <4>. QED
        BY <2>1, <3>1, <4>1, <4>3
    <3>. QED
      BY <2>4, <3>1, <3>2, RebuiltKept
  <2>. QED
    BY <2>1, <2>2, <2>3, <2>4 DEF FrozenRebuilt
<1>. QED
  BY <1>3, <1>4, FrozenBy

\* What is said about the tables stays so.
LEMMA TableFactsKept ==
  ASSUME TableStep, TableFacts
  PROVE  TableFacts'
BY OpenOnceKept, LeftAtLimitKept, ReparsedKept, RederivedKept, AccountedKept, FrozenRebuiltKept
   DEF TableFacts

-----------------------------------------------------------------------------
\* What the only runner has seen

\* A step of a runner grants no lease but the one it takes.
LEMMA GrantsStay ==
  ASSUME Remembered, NEW r \in DOMAIN runner, Step(r), NEW t, t = runner'[r]
  PROVE  UNCHANGED granted \/ Takes(r, t)
<1>. USE DEF orchestrationVars, platformVars, vars
<1>1. CASE Select(r) \/ End(r) \/ Examining(r)
  BY <1>1 DEF Select, End, Examining
<1>2. CASE Claiming(r)
  BY <1>2, ClaimingMoves
<1>3. CASE Freezing(r)
  BY <1>3 DEF Freezing, Raises, ReserveBounded, ReserveCapped, Reserve
<1>4. CASE Dispatching(r)
  BY <1>4 DEF Dispatching, Raises, DispatchAdmitted, Dispatch
<1>5. CASE Answered(r) \/ ToolAnswered(r) \/ Unanswered(r)
  <2>1. ASSUME NEW c, NEW n, NEW o, Settle(c, n, o) PROVE UNCHANGED granted
    BY <2>1 DEF Settle
  <2>2. CASE Answered(r)
    <3>1. ASSUME NEW c, RecordViolation(c) PROVE UNCHANGED granted
      BY <3>1 DEF RecordViolation
    <3>2. ASSUME NEW c, NEW p, NEW m, NEW o, NEW answer, ReceiveModel(c, p, m, o, answer)
          PROVE  UNCHANGED granted
      BY <2>1, <3>2 DEF ReceiveModel
    <3>. QED
      BY <2>2, <3>1, <3>2 DEF Answered
  <2>3. CASE ToolAnswered(r)
    BY <2>1, <2>3 DEF ToolAnswered, ReceiveTool, Receive
  <2>4. CASE Unanswered(r)
    BY <2>4 DEF Unanswered, Raises
  <2>. QED
    BY <1>5, <2>2, <2>3, <2>4
<1>6. CASE Consuming(r)
  <2>1. ASSUME Submitting(r) PROVE UNCHANGED granted
    BY <2>1 DEF Submitting, Raises, PublishDerived, RecordArtifact
  <2>2. ASSUME NEW l, NEW c, AbstainTask(l, c) PROVE UNCHANGED granted
    BY <2>2 DEF AbstainTask, Abstain, Terminate
  <2>3. ASSUME NEW l, NEW c, NEW kids, AdmitChildren(l, c, kids) PROVE UNCHANGED granted
    <3>1. PICK offer : Decompose(l, offer)
      BY <2>3 DEF AdmitChildren
    <3>. QED
      BY <3>1 DEF Decompose
  <2>4. ASSUME NEW l, NEW c, NEW s, NEW m, NEW tool, NEW inputs,
               ReserveToolCall(l, c, s, m, tool, inputs)
        PROVE  UNCHANGED granted
    BY <2>4 DEF ReserveToolCall, ReserveCapped, Reserve, platformVars, vars
  <2>. QED
    BY <1>6, <2>1, <2>2, <2>3, <2>4, ConsumingCases DEF Raises
<1>7. CASE Refusing(r)
  BY <1>7 DEF Refusing, Raises, RecordRejection
<1>8. CASE GivingUp(r)
  BY <1>8 DEF GivingUp, Raises, AbstainTask, Abstain, Terminate
<1>9. CASE Finalizing(r)
  BY <1>9 DEF Finalizing, PublishDerived, RecordArtifact
<1>10. CASE Releasing(r)
  BY <1>10 DEF Releasing, Release, RecoverFreely, Recover
<1>. QED
  BY <1>1, <1>2, <1>3, <1>4, <1>5, <1>6, <1>7, <1>8, <1>9, <1>10 DEF Step

\* Who has a lease to release does nothing else.
LEMMA OnlyReleases ==
  ASSUME NEW r, Step(r), runner[r].at = "release"
  PROVE  Releasing(r)
<1>1. ~Select(r) /\ ~End(r) /\ ~Claiming(r) /\ ~Finalizing(r)
  BY DEF Select, End, Claiming, Finalizing
<1>2. ~Examining(r) /\ ~Freezing(r) /\ ~Dispatching(r)
  BY DEF Examining, Freezing, Dispatching
<1>3. ~Answered(r) /\ ~ToolAnswered(r) /\ ~Unanswered(r)
  BY DEF Answered, ToolAnswered, Unanswered
<1>4. ~Consuming(r)
  BY ConsumingCases
<1>5. ~Refusing(r) /\ ~GivingUp(r)
  BY DEF Refusing, GivingUp
<1>. QED
  BY <1>1, <1>2, <1>3, <1>4, <1>5 DEF Step

\* A lease that stands after a step and was granted before it stood before it.
LEMMA StandingKept ==
  ASSUME LedgerStep, NEW w \in DOMAIN work, Standing(w)', Shown(w)' \in granted
  PROVE  work'[w] = work[w]
<1>1. /\ TypeOK /\ OrchTypeOK /\ OrchStep /\ TypeOK' /\ GrantsBounded /\ RunMatchesWork'
      /\ LeasesOfRun' /\ w \in DOMAIN work'
  BY StepTyped DEF LedgerStep, LedgerFacts, TreeInv, LedgerInv
<1>2. work'[w].status = "leased" /\ ~work'[w].lapsed
  BY DEF Standing
<1>3. run'.status = "running" /\ run'.enabled
  BY <1>1, <1>2 DEF RunMatchesWork, LeasesOfRun, TypeOK, Run, RunStatus
<1>4. work'[w].epoch <= work[w].epoch /\ work[w].epoch \in Nat
  BY <1>1 DEF GrantsBounded, Shown, TypeOK, Row
<1>5. CASE BaseStep
  BY <1>1, <1>2, <1>3, <1>4, <1>5, StandingRow
<1>6. ASSUME NEW c, NEW kids, Admitting(c, kids) PROVE work'[w] = work[w]
  BY <1>1, <1>2, <1>6, AdmittedRows DEF Brought
<1>. QED
  BY <1>1, <1>5, <1>6, BaseOrAdmitting

\* Who holds a lease that stands for its task holds it.
LEMMA StandingHeld ==
  ASSUME LedgerFacts, NEW l \in granted, Standing(l.work), l.work \in DOMAIN work,
         l.epoch = work[l.work].epoch
  PROVE  Holds(l)
<1>1. TypeOK /\ NewestLeaseFenced /\ RunMatchesWork /\ LeasesOfRun
  BY DEF LedgerFacts, OrchInv, TreeInv, LedgerInv
<1>2. l = Shown(l.work)
  <2>1. Shown(l.work) \in granted
    BY <1>1 DEF LeasesOfRun, Standing
  <2>. QED
    BY <1>1, <2>1 DEF NewestLeaseFenced, Shown
<1>3. l.owner = work[l.work].owner
  BY <1>2 DEF Shown
<1>4. run.status = "running" /\ run.enabled /\ work[l.work].generation = run.generation
  BY <1>1 DEF RunMatchesWork, LeasesOfRun, Standing, TypeOK, Run, RunStatus
<1>. QED
  BY <1>3, <1>4 DEF Holds, Standing

\* The lease of w, if it stands, is that of the process.
Owned(s, w) ==
  Standing(w) => s.at \in Working /\ s.lease.work = w /\ s.lease.epoch = work[w].epoch

\* Where no lease is granted, a process that goes on with its lease, or has none, owns
\* what it owned.
LEMMA OwnedKept ==
  ASSUME LedgerStep, UNCHANGED granted, NEW s, NEW w \in DOMAIN work, Owned(s, w),
         NEW t, s.at \in Working => t.at \in Working /\ t.lease = s.lease
  PROVE  Owned(t, w)'
<1>1. SUFFICES ASSUME Standing(w)'
      PROVE  t.at \in Working /\ t.lease.work = w /\ t.lease.epoch = work'[w].epoch
  BY DEF Owned
<1>2. LeasesOfRun' /\ w \in DOMAIN work'
  BY StepTyped DEF LedgerStep, LedgerFacts
<1>3. work'[w] = work[w]
  BY <1>1, <1>2, StandingKept DEF LeasesOfRun, Standing
<1>. QED
  BY <1>1, <1>3 DEF Owned, Standing

\* What a step of the only process leaves standing is its own.
LEMMA MoverOwns ==
  ASSUME LedgerStep, Remembered, OwnStanding, NEW r, DOMAIN runner = {r}, Placed(runner[r]),
         Step(r), NEW t, t = runner'[r], NEW w \in Met(t)
  PROVE  w \in DOMAIN work' /\ Owned(t, w)'
<1>. PICK s : s = runner[r]
  OBVIOUS
<1>1. /\ LedgerFacts /\ LedgerFacts' /\ TypeOK /\ OrchTypeOK
      /\ \A v \in DOMAIN work : v \in DOMAIN work'
  BY StepTyped DEF LedgerStep
<1>2. Moves(r, t) /\ (UNCHANGED granted \/ Takes(r, t))
  BY <1>1, StepMoves, GrantsStay
<1>3. \A v \in Met(s) : v \in DOMAIN work /\ Owned(s, v)
  BY DEF OwnStanding, Owned
<1>4. s.at \in Tasked => s.task \in Met(s)
  BY DEF Met
<1>5. CASE Picks(r, t)
  <2>1. w \in DOMAIN s.last \/ w = t.task
    BY <1>5 DEF Picks, Met
  <2>2. w \in DOMAIN work /\ Owned(s, w)
    <3>1. CASE w \in DOMAIN s.last
      BY <1>3, <3>1 DEF Met
    <3>2. CASE w = t.task
      BY <1>5, <3>2 DEF Picks, ReadyWork, Owned, Standing
    <3>. QED
      BY <2>1, <3>1, <3>2
  <2>3. s.at \notin Working /\ UNCHANGED granted
    BY <1>5 DEF Picks, Working, orchestrationVars, platformVars, vars
  <2>. QED
    BY <1>1, <2>2, <2>3, OwnedKept
<1>6. CASE Takes(r, t)
  <2>1. w \in Met(s) /\ s.at = "chosen"
    BY <1>6 DEF Takes, Met, Tasked, Working
  <2>2. w \in DOMAIN work /\ w \in DOMAIN work' /\ ~Standing(w)
    BY <1>1, <1>3, <2>1 DEF Owned, Working
  <2>3. /\ granted' = granted \cup {[work |-> s.task, owner |-> s.agent,
                                     epoch |-> work[s.task].epoch + 1]}
        /\ t.lease = [work |-> s.task, owner |-> s.agent, epoch |-> work[s.task].epoch + 1]
        /\ t.at \in Working
    BY <1>6 DEF Takes, ClaimAvailable, Claim, Working
  <2>4. ASSUME Standing(w)' PROVE t.lease.work = w /\ t.lease.epoch = work'[w].epoch
    <3>1. Shown(w)' \in granted'
      BY <1>1, <2>2, <2>4 DEF LedgerFacts, LeasesOfRun, Standing
    <3>2. Shown(w)' \notin granted
      BY <2>2, <2>4, StandingKept DEF Standing
    <3>3. Shown(w)' = t.lease
      BY <2>3, <3>1, <3>2
    <3>. QED
      BY <3>3 DEF Shown
  <2>. QED
    BY <2>2, <2>3, <2>4 DEF Owned
<1>7. CASE Stops(r, t) /\ UNCHANGED granted
  <2>1. w \in Met(s) /\ s.at \notin Working
    BY <1>7 DEF Stops, Met, Tasked, Working
  <2>. QED
    BY <1>1, <1>3, <1>7, <2>1, OwnedKept
<1>8. CASE Tells(r, t) /\ UNCHANGED granted /\ s.at # "release"
  <2>1. s.at = "chosen"
    BY <1>8 DEF Tells
  <2>2. w \in Met(s)
    BY <1>4, <1>8, <2>1 DEF Tells, ToldOf, Met, Tasked, Working
  <2>. QED
    BY <1>1, <1>3, <1>8, <2>1, <2>2, OwnedKept DEF Working
<1>9. CASE Tells(r, t) /\ UNCHANGED granted /\ s.at = "release"
  <2>1. Releasing(r) /\ w \in Met(s)
    BY <1>4, <1>9, OnlyReleases DEF Tells, ToldOf, Met, Tasked, Working
  <2>2. w \in DOMAIN work /\ w \in DOMAIN work' /\ Owned(s, w)
    BY <1>1, <1>3, <2>1
  <2>3. ~Standing(w)'
    <3>. SUFFICES ASSUME Standing(w)' PROVE FALSE
      OBVIOUS
    <3>1. work'[w] = work[w]
      BY <1>1, <1>9, <2>2, StandingKept DEF LedgerFacts, LeasesOfRun, Standing
    <3>2. Standing(w)
      BY <3>1 DEF Standing
    <3>3. s.lease.work = w /\ s.lease.epoch = work[w].epoch /\ s.lease \in granted
      BY <1>9, <2>2, <3>2 DEF Owned, Placed, Working
    <3>4. Holds(s.lease)
      BY <1>1, <2>2, <3>2, <3>3, StandingHeld
    <3>5. work'[w].status \in {"ready", "uncertain"}
      <4>1. work' = [work EXCEPT ![w] = Free(work[w], IF Settled(w) THEN "ready" ELSE "uncertain")]
        BY <2>1, <3>3, <3>4 DEF Releasing, Release
      <4>. QED
        BY <1>1, <2>2, <4>1, FreedRow DEF TypeOK, WorkStatus
    <3>. QED
      BY <3>5 DEF Standing
  <2>. QED
    BY <2>2, <2>3 DEF Owned
<1>10. CASE (Looks(r, t) \/ Sends(r, t) \/ Refuses(r, t) \/ Turns(r, t)) /\ UNCHANGED granted
  <2>1. t.at \in Working /\ t.lease = s.lease /\ w \in Met(s)
    BY <1>4, <1>10 DEF Looks, Sends, Refuses, Turns, SameTask, Met, Tasked, Working
  <2>. QED
    BY <1>1, <1>3, <1>10, <2>1, OwnedKept
<1>. QED
  BY <1>2, <1>5, <1>6, <1>7, <1>8, <1>9, <1>10 DEF Moves

\* The only process keeps what it holds when it moves,
LEMMA OwnMoved ==
  ASSUME LedgerStep, Minds, OwnStanding, NEW r \in DOMAIN runner, Step(r)
  PROVE  OwnStanding'
<1>. PICK t : t = runner'[r]
  OBVIOUS
<1>1. Placed(runner[r]) /\ Remembered
  BY DEF Minds, RunnersPlaced
<1>2. Moved(r)
  BY <1>1, StepMoves DEF LedgerStep
<1>3. ASSUME NEW q \in DOMAIN runner', DOMAIN runner' = {q}
      PROVE  q = r /\ DOMAIN runner = {r}
  BY <1>2, <1>3 DEF Moved
<1>4. ASSUME DOMAIN runner = {r}, NEW w \in Met(t)
      PROVE  /\ w \in DOMAIN work'
             /\ Standing(w)' =>
                  t.at \in Working /\ t.lease.work = w /\ t.lease.epoch = work'[w].epoch
  BY <1>1, <1>4, MoverOwns DEF Owned
<1>. QED
  BY <1>3, <1>4 DEF OwnStanding

\* and when the environment does, which grants nothing.
LEMMA OwnUnmoved ==
  ASSUME LedgerStep, OwnStanding, UNCHANGED granted,
         UNCHANGED runner \/ \E r : runner' = Put(runner, r, Idle)
  PROVE  OwnStanding'
<1>1. CASE UNCHANGED runner
  <2>1. ASSUME NEW r \in DOMAIN runner, DOMAIN runner = {r}, NEW s, s = runner[r], NEW w \in Met(s)
        PROVE  w \in DOMAIN work' /\ Owned(s, w)'
    <3>1. w \in DOMAIN work /\ Owned(s, w)
      BY <2>1 DEF OwnStanding, Owned
    <3>. QED
      BY <3>1, StepTyped, OwnedKept
  <2>. QED
    BY <1>1, <2>1 DEF OwnStanding, Owned
<1>2. ASSUME NEW r, runner' = Put(runner, r, Idle) PROVE OwnStanding'
  <2>1. /\ DOMAIN runner' = DOMAIN runner \cup {r}
        /\ runner'[r] = Idle
    BY <1>2 DEF Put
  <2>2. Met(Idle) = {}
    BY IdleMemory DEF Met, Tasked, Working
  <2>. QED
    BY <2>1, <2>2 DEF OwnStanding
<1>. QED
  BY <1>1, <1>2

-----------------------------------------------------------------------------
\* What success says

Finished == DOMAIN work \subseteq DOMAIN artifacts /\ \A w \in DOMAIN derived : derived[w].accepted

\* Where nothing is seen a finished workflow stays so.
LEMMA FinishedKept ==
  ASSUME LedgerStep, Unseen, Finished
  PROVE  Finished'
<1>1. UNCHANGED <<artifacts, derived, tasks>>
  BY DEF Unseen, Silent, IdleTables
<1>2. DOMAIN work' = DOMAIN work
  BY <1>1, StepTyped DEF OrchTypeOK
<1>. QED
  BY <1>1, <1>2 DEF Finished

\* What the tests of _outcome have excluded when it is a success.
LEMMA SuccessTested ==
  ASSUME NEW s, NEW deferred \in BOOLEAN, Outcome(s, deferred) = "success"
  PROVE  /\ run.status # "cancelled" /\ Blocked = {} /\ ~deferred
         /\ \A w \in DOMAIN derived : derived[w].accepted
         /\ \A w \in DOMAIN work : TaskStatus(s, w) \notin {"blocked_unknown", "pending", "abstained"}
<1>. DEFINE statuses == {TaskStatus(s, w) : w \in DOMAIN work}
<1>1. /\ run.status # "cancelled" /\ Blocked = {} /\ ~deferred
      /\ "blocked_unknown" \notin statuses /\ "pending" \notin statuses
      /\ "abstained" \notin statuses
      /\ ~\E w \in DOMAIN derived : ~derived[w].accepted
  <2>. HIDE DEF statuses
  <2>1. Outcome(s, deferred) =
          IF run.status = "cancelled" THEN "cancelled"
          ELSE IF "blocked_unknown" \in statuses THEN "blocked_unknown"
          ELSE IF "budget_exhausted" \in statuses THEN "budget_exhausted"
          ELSE IF Blocked # {} THEN "dependency_failed"
          ELSE IF s.erred \/ deferred \/ "pending" \in statuses THEN "error"
          ELSE IF "abstained" \in statuses THEN "abstained"
          ELSE IF \E w \in DOMAIN derived : ~derived[w].accepted THEN "rejected"
          ELSE "success"
    BY DEF Outcome, statuses
  <2>. QED
    BY <2>1
<1>. QED
  BY <1>1

\* Nothing left to select, and nothing to report: then everything is published.  Else
\* take work none of whose inputs are missing: nobody holds it, so it is ready.
LEMMA NothingLeft ==
  ASSUME LedgerFacts, OwnStanding, NEW r \in DOMAIN runner, DOMAIN runner = {r},
         NEW s, s = runner[r], s.at = "idle",
         NEW deferred \in BOOLEAN, Outcome(s, deferred) = "success",
         deferred <=> \E a \in Agent : ReadyWork(a) # {}
  PROVE  Finished
<1>. DEFINE U == DOMAIN work \ DOMAIN artifacts
<1>1. /\ TypeOK /\ GraphWellFounded /\ DoneMeansDecided /\ RunMatchesWork
      /\ AgentsDeclared /\ LeasesOfRun
  BY DEF LedgerFacts, OrchInv, TreeInv, LedgerInv
<1>2. /\ run.status # "cancelled" /\ Blocked = {} /\ ~deferred
      /\ \A w \in DOMAIN derived : derived[w].accepted
      /\ \A w \in DOMAIN work : TaskStatus(s, w) \notin {"blocked_unknown", "pending", "abstained"}
  BY SuccessTested
<1>3. SUFFICES ASSUME U # {} PROVE FALSE
  BY <1>2 DEF Finished
<1>4. PICK w \in U : work[w].dependencies \subseteq DOMAIN artifacts
  <2>. DEFINE graph == [v \in DOMAIN work |-> work[v].dependencies]
  <2>1. PICK w \in U : graph[w] \cap U = {}
    BY <1>1, <1>3 DEF GraphWellFounded, Acyclic
  <2>2. graph[w] \subseteq DOMAIN work
    BY <1>1 DEF GraphWellFounded
  <2>. QED
    BY <2>1, <2>2
<1>5. /\ w \in DOMAIN work /\ w \notin DOMAIN artifacts
      /\ w \notin DOMAIN decisions
      /\ Settled(w) /\ work[w].status # "uncertain" /\ w \in DOMAIN s.last
  BY <1>2, <1>4 DEF TaskStatus
<1>6. work[w].status # "done"
  BY <1>1, <1>5 DEF DoneMeansDecided
<1>7. run.status = "running" /\ run.enabled
  BY <1>1, <1>2, <1>5, <1>6 DEF RunMatchesWork, LeasesOfRun, TypeOK, Run, RunStatus
<1>8. ~Standing(w)
  BY <1>5 DEF OwnStanding, Met, Working
<1>9. work[w].status = "ready" \/ (work[w].status = "leased" /\ work[w].lapsed)
  <2>1. work[w].status \in WorkStatus
    BY <1>1, <1>5 DEF TypeOK, Row
  <2>. QED
    BY <1>1, <1>5, <1>6, <1>7, <1>8, <2>1 DEF WorkStatus, RunMatchesWork, LeasesOfRun, Standing
<1>10. PICK a \in work[w].agents : a \in Agent
  BY <1>1, <1>5 DEF AgentsDeclared, TypeOK, Row
<1>11. w \in ReadyWork(a)
  BY <1>1, <1>4, <1>5, <1>7, <1>9 DEF ReadyWork, LeasesOfRun
<1>. QED
  BY <1>2, <1>10, <1>11

\* Who is idle selects or ends.
LEMMA OnlyEnds ==
  ASSUME NEW r, Step(r), runner[r].at = "idle"
  PROVE  Select(r) \/ End(r)
<1>1. ~Claiming(r) /\ ~Finalizing(r) /\ ~Releasing(r)
  BY DEF Claiming, Finalizing, Releasing
<1>2. ~Examining(r) /\ ~Freezing(r) /\ ~Dispatching(r)
  BY DEF Examining, Freezing, Dispatching
<1>3. ~Answered(r) /\ ~ToolAnswered(r) /\ ~Unanswered(r)
  BY DEF Answered, ToolAnswered, Unanswered
<1>4. ~Consuming(r)
  BY ConsumingCases
<1>5. ~Refusing(r) /\ ~GivingUp(r)
  BY DEF Refusing, GivingUp
<1>. QED
  BY <1>1, <1>2, <1>3, <1>4, <1>5 DEF Step

\* A process that has something to report when it is done did nothing else in its step.
LEMMA ReportsAtEnd ==
  ASSUME LedgerStep, Minds, Minds', NEW r \in DOMAIN runner, Step(r), NEW t, t = runner'[r],
         t.outcome = "success"
  PROVE  End(r)
<1>1. Placed(runner[r]) /\ Remembered
  BY DEF Minds, RunnersPlaced
<1>2. Moved(r) /\ Moves(r, t)
  BY <1>1, StepMoves DEF LedgerStep
<1>3. t.at = "ended"
  <2>1. Placed(t)'
    BY <1>2 DEF Moved, Minds, RunnersPlaced
  <2>. QED
    BY <2>1, RuntimeAssumption DEF Placed
<1>4. runner[r].at = "idle"
  BY <1>2, <1>3 DEF Moves, Picks, Stops, Takes, Tells, ToldOf, Looks, Sends, Refuses, Turns
<1>5. ~Select(r)
  BY <1>1, <1>3, SelectingMoves DEF Picks
<1>. QED
  BY <1>4, <1>5, OnlyEnds

\* A step of the only process reports success over a finished workflow.
LEMMA SuccessMoved ==
  ASSUME LedgerStep, Minds, Minds', OwnStanding, SuccessWhenFinished,
         NEW r \in DOMAIN runner, Step(r)
  PROVE  SuccessWhenFinished'
<1>. PICK t : t = runner'[r]
  OBVIOUS
<1>1. Placed(runner[r]) /\ Remembered
  BY DEF Minds, RunnersPlaced
<1>2. Moved(r)
  BY <1>1, StepMoves DEF LedgerStep
<1>3. ASSUME NEW q \in DOMAIN runner', DOMAIN runner' = {q}
      PROVE  q = r /\ DOMAIN runner = {r}
  BY <1>2, <1>3 DEF Moved
<1>4. ASSUME DOMAIN runner = {r}, t.outcome = "success", t.status = "empty"
      PROVE  Finished'
  <2>. DEFINE cut == runner[r].sweeps >= Bound
              deferred == ~cut /\ \E a \in Agent : ReadyWork(a) # {}
  <2>1. End(r)
    BY <1>4, ReportsAtEnd
  <2>2. runner[r].at = "idle" /\ UNCHANGED orchestrationVars
    BY <2>1 DEF End
  <2>3. t.outcome = Outcome(runner[r], deferred) /\ t.status = IF cut THEN "cut" ELSE "empty"
    BY <1>1, <2>1, EndingMoves
  <2>4. ~cut /\ (deferred <=> \E a \in Agent : ReadyWork(a) # {}) /\ deferred \in BOOLEAN
    BY <1>4, <2>3
  <2>5. Finished
    <3>. HIDE DEF deferred
    <3>. QED
      BY <1>4, <2>2, <2>3, <2>4, NothingLeft DEF LedgerStep
  <2>. QED
    BY <2>2, <2>5 DEF Finished, orchestrationVars, orchestrationTables, platformVars, vars
<1>. QED
  BY <1>3, <1>4 DEF SuccessWhenFinished, Finished

\* Nobody else takes it back.
LEMMA SuccessUnmoved ==
  ASSUME LedgerStep, Unseen, SuccessWhenFinished,
         UNCHANGED runner \/ \E r : runner' = Put(runner, r, Idle)
  PROVE  SuccessWhenFinished'
<1>1. CASE UNCHANGED runner
  BY <1>1, FinishedKept DEF SuccessWhenFinished, Finished
<1>2. ASSUME NEW r, runner' = Put(runner, r, Idle) PROVE SuccessWhenFinished'
  <2>1. /\ DOMAIN runner' = DOMAIN runner \cup {r}
        /\ runner'[r] = Idle
    BY <1>2 DEF Put
  <2>2. Idle.outcome # "success"
    BY IdleMemory, RuntimeAssumption
  <2>. QED
    BY <2>1, <2>2 DEF SuccessWhenFinished
<1>. QED
  BY <1>1, <1>2

-----------------------------------------------------------------------------
\* The inductive invariant

\* Nothing is recorded yet, and the first process has nothing in mind.
LEMMA RunInitInv == RuntimeInit => RunInv
<1>. SUFFICES ASSUME RuntimeInit PROVE RunInv
  OBVIOUS
<1>1. LedgerFacts
  BY LedgerFactsInit DEF RuntimeInit
<1>2. /\ DOMAIN calls = {} /\ DOMAIN artifacts = {} /\ DOMAIN derived = {} /\ DOMAIN decisions = {}
      /\ DOMAIN frozen = {} /\ violated = {}
      /\ DOMAIN work = DOMAIN tasks
      /\ \A w \in DOMAIN work : work[w].status = "ready" /\ rulings[w] = <<>>
  BY DEF RuntimeInit, OrchestrationInit, PlatformInitOf, InitOf, DeclaredWork
<1>3. PICK r \in Runner : runner = [x \in {r} |-> Idle]
  BY DEF RuntimeInit
<1>4. PICK i : i = Idle
  OBVIOUS
<1>5. Memory(i) /\ i.at = "idle" /\ i.outcome = None /\ DOMAIN i.last = {}
  BY <1>4, IdleMemory
<1>6. \A w : Open(w) = {}
  BY <1>2 DEF Open, CallsOf
<1>7. OpenOnce /\ LeftAtLimit
  BY <1>6 DEF OpenOnce, LeftAtLimit
<1>8. Reparsed
  BY <1>2 DEF Reparsed, RulingsOf
<1>9. Rederived /\ Accounted /\ FrozenRebuilt
  BY <1>2 DEF Rederived, Accounted, AccountingAgrees, FrozenRebuilt, Model
<1>10. Remembered
  BY <1>3, <1>4, <1>5 DEF Remembered
<1>11. RunnersPlaced /\ LeasesApart
  BY <1>3, <1>4, <1>5 DEF RunnersPlaced, LeasesApart, Placed, CallInMind, Tasked, Working
<1>12. OwnStanding
  BY <1>3, <1>4, <1>5 DEF OwnStanding, Met, Tasked, Working
<1>13. SuccessWhenFinished
  BY <1>3, <1>4, <1>5, RuntimeAssumption DEF SuccessWhenFinished
<1>. QED
  BY <1>1, <1>7, <1>8, <1>9, <1>10, <1>11, <1>12, <1>13 DEF RunInv, TableFacts

\* A step of a process,
LEMMA ProcessKeeps ==
  ASSUME RunInv, NEW r \in DOMAIN runner, Step(r)
  PROVE  RunInv'
<1>1. /\ LedgerFacts /\ TableFacts /\ Minds /\ OwnStanding /\ SuccessWhenFinished
      /\ Ready(runner[r]) /\ Placed(runner[r]) /\ Accounted
  BY DEF RunInv, Minds, RunnersPlaced, Ready, TableFacts
<1>2. [OrchestrationNext]_orchestrationVars /\ (Unseen \/ Writes(r))
  BY <1>1, RunnerSteps
<1>3. LedgerStep
  BY <1>1, <1>2, LedgerSteps
<1>4. TableStep
  BY <1>1, <1>2, <1>3 DEF TableStep
<1>5. TableFacts' /\ Minds'
  BY <1>1, <1>2, <1>3, <1>4, TableFactsKept, MindsStepped
<1>6. OwnStanding' /\ SuccessWhenFinished'
  BY <1>1, <1>3, <1>5, OwnMoved, SuccessMoved
<1>. QED
  BY <1>3, <1>5, <1>6 DEF RunInv, Minds, LedgerStep

\* and one of the environment.
LEMMA EnvironmentKeeps ==
  ASSUME RunInv, \/ UNCHANGED runtimeVars
                 \/ \E r \in Runner : Resume(r)
                 \/ \E w \in DOMAIN work : Elapse(w)
                 \/ Cancelled
  PROVE  RunInv'
<1>1. LedgerFacts /\ TableFacts /\ Minds /\ OwnStanding /\ SuccessWhenFinished /\ TypeOK
  BY DEF RunInv, Minds, LedgerFacts, OrchInv, TreeInv, LedgerInv
<1>2. [OrchestrationNext]_orchestrationVars /\ Unseen
  BY <1>1, EnvironmentSteps DEF Aside
<1>3. LedgerStep /\ TableStep
  BY <1>1, <1>2, LedgerSteps DEF TableStep
<1>4. UNCHANGED runner \/ \E r : runner' = Put(runner, r, Idle)
  BY DEF runtimeVars, Resume, Elapse, Cancelled
<1>5. UNCHANGED granted
  <2>1. CASE UNCHANGED runtimeVars \/ \E r \in Runner : Resume(r)
    BY <2>1 DEF runtimeVars, Resume, orchestrationVars, platformVars, vars
  <2>2. ASSUME NEW w \in DOMAIN work, Elapse(w) PROVE UNCHANGED granted
    BY <2>2 DEF Elapse, Expire
  <2>3. CASE Cancelled
    BY <2>3 DEF Cancelled, Cancel
  <2>. QED
    BY <2>1, <2>2, <2>3
<1>6. TableFacts' /\ Minds'
  BY <1>1, <1>2, <1>3, <1>4, TableFactsKept, MindsUnmoved
<1>7. OwnStanding' /\ SuccessWhenFinished'
  BY <1>1, <1>2, <1>3, <1>4, <1>5, OwnUnmoved, SuccessUnmoved
<1>. QED
  BY <1>3, <1>6, <1>7 DEF RunInv, Minds, LedgerStep

\* Every step.
LEMMA RunNextInv == RunInv /\ [RuntimeNext]_runtimeVars => RunInv'
BY ProcessKeeps, EnvironmentKeeps DEF RuntimeNext

\* Every reachable state of a run satisfies RunInv, whichever processes work at it at
\* once, wherever they die and however often the run is resumed.
THEOREM RuntimeInvariance == RuntimeSpec => []RunInv
BY RunInitInv, RunNextInv, PTL DEF RuntimeSpec

\* What the processes do to the ledger is what the ledger's own specification allows:
\* the runtime implements it.
THEOREM RuntimeImplements == RuntimeSpec => OrchestrationSpec
<1>1. RuntimeInit => OrchestrationInit
  BY DEF RuntimeInit
<1>2. RunInv /\ [RuntimeNext]_runtimeVars => [OrchestrationNext]_orchestrationVars
  BY RuntimeSteps DEF RunInv
<1>. QED
  BY <1>1, <1>2, RuntimeInvariance, PTL DEF RuntimeSpec, OrchestrationSpec

\* No proposal runs twice: a receipt has a tool call exactly if it was consumed as one,
\* the only one, of its own step, wherever processes lose their lease or die.
THEOREM ProposalsOnce == RuntimeSpec => []ProposalsRunOnce
<1>1. ASSUME RunInv PROVE ProposalsRunOnce
  <2>1. OrchTypeOK /\ TypeOK /\ Paired
    BY <1>1 DEF RunInv, LedgerFacts, OrchInv, TreeInv, LedgerInv
  <2>2. DOMAIN rulings = DOMAIN work
    BY <2>1 DEF OrchTypeOK
  <2>3. ASSUME NEW w \in DOMAIN work, NEW c \in CallsOf(w)
        PROVE  LET runs == {t \in CallsOf(w) : bindings[t].source = c} IN
               /\ Cardinality(runs) <= 1
               /\ runs # {} <=> \E i \in RuledAs(w, "tool") : rulings[w][i].call = c
               /\ \A t \in runs : t.step = c.step
    <3>. DEFINE runs == {t \in CallsOf(w) : bindings[t].source = c}
    <3>0. \A t : t \in runs <=> t \in CallsOf(w) /\ bindings[t].source = c
      OBVIOUS
    <3>. HIDE DEF runs
    <3>1. /\ c # None
          /\ \A t \in CallsOf(w) : t \in DOMAIN calls /\ t.work = w
      BY <2>1, WorkflowAssumption DEF CallsOf, OrchTypeOK, TypeOK
    <3>2. ASSUME NEW t \in runs
          PROVE  /\ t.step = c.step /\ runs = {t}
                 /\ \E i \in RuledAs(w, "tool") : rulings[w][i].call = c
      <4>1. t \in DOMAIN calls /\ t.work = w /\ bindings[t].source = c
        BY <3>0, <3>1, <3>2
      <4>2. PICK i \in DOMAIN rulings[w] : rulings[w][i] = [call |-> c, decision |-> "tool"]
        BY <2>1, <3>1, <4>1 DEF Paired
      <4>3. i \in RuledAs(w, "tool") /\ rulings[w][i].call = c
        BY <4>2 DEF RuledAs
      <4>4. t.step = c.step /\ \A u \in DOMAIN calls : bindings[u].source = c => u = t
        BY <2>1, <3>1, <4>1 DEF Paired
      <4>. QED
        BY <3>0, <3>1, <4>1, <4>3, <4>4
    <3>3. (\E i \in RuledAs(w, "tool") : rulings[w][i].call = c) => runs # {}
      BY <2>1, <3>0 DEF Paired
    <3>4. Cardinality(runs) <= 1
      <4>1. CASE runs = {}
        <5>1. Cardinality(runs) = 0
          BY <4>1, FS_EmptySet
        <5>. QED
          BY <5>1
      <4>2. ASSUME NEW t \in runs PROVE Cardinality(runs) <= 1
        <5>1. Cardinality(runs) = 1
          BY <3>2, FS_Singleton
        <5>. QED
          BY <5>1
      <4>. QED
        BY <4>1, <4>2
    <3>. QED
      BY <3>2, <3>3, <3>4 DEF runs
  <2>. QED
    BY <2>2, <2>3 DEF ProposalsRunOnce
<1>. QED
  BY <1>1, RuntimeInvariance, PTL

\* The only process that ends with nothing left to do reports success over a finished
\* and accepted workflow, whatever happened to leases, calls and budgets before.
THEOREM SuccessIsFinished == RuntimeSpec => []SuccessWhenFinished
<1>1. RunInv => SuccessWhenFinished
  BY DEF RunInv
<1>. QED
  BY <1>1, RuntimeInvariance, PTL

-----------------------------------------------------------------------------
\* The record

\* Who claimed a call was declared for its task.
LEMMA ClaimantsDeclared ==
  ASSUME RunInv
  PROVE  ClaimantDeclared
<1>1. TypeOK /\ OrchTypeOK /\ AgentsDeclared /\ CallsClaimed
  BY DEF RunInv, LedgerFacts, OrchInv, TreeInv, LedgerInv
<1>2. ASSUME NEW c \in Model PROVE Attested(c) # {}
  BY <1>1 DEF Attested, Model, CallsClaimed
<1>3. ASSUME NEW c \in Model, NEW a \in Attested(c) PROVE a \in tasks[c.work].agents
  BY <1>1 DEF Attested, AgentsDeclared
<1>. QED
  BY <1>2, <1>3 DEF ClaimantDeclared

\* Tool calls are of declared tools, for receipts that were received.
LEMMA ToolsAreBound ==
  ASSUME RunInv
  PROVE  ToolsBound
<1>1. OrchTypeOK /\ CallsClaimed /\ ToolsFromReceipts
  BY DEF RunInv, LedgerFacts, OrchInv
<1>2. ASSUME NEW t \in DOMAIN calls \ Model
      PROVE  /\ bindings[t].tool \in tasks[t.work].tools
             /\ calls[bindings[t].source].state = "received"
  <2>1. t \in DOMAIN calls /\ t.kind # "model"
    BY DEF Model
  <2>2. bindings[t].source # None /\ bindings[t].tool \in tasks[t.work].tools
    BY <1>1, <2>1 DEF CallsClaimed
  <2>3. bindings[t].source \in DOMAIN answers
    BY <1>1, <2>1, <2>2 DEF ToolsFromReceipts
  <2>. QED
    BY <1>1, <2>2, <2>3 DEF OrchTypeOK
<1>. QED
  BY <1>2 DEF ToolsBound

\* Decisions are of settled receipts, what these propose or a rejection, one of each.
LEMMA DecisionsParseAgain ==
  ASSUME RunInv
  PROVE  DecisionsReparse
<1>1. OrchTypeOK /\ RuledSettled /\ ReceiptConsumedOnce /\ Reparsed
  BY DEF RunInv, LedgerFacts, OrchInv, TableFacts
<1>2. DOMAIN rulings = DOMAIN work
  BY <1>1 DEF OrchTypeOK
<1>3. ASSUME NEW w \in DOMAIN rulings, NEW i \in DOMAIN rulings[w], NEW d, d = rulings[w][i]
      PROVE  /\ calls[d.call].state \in {"received", "response_rejected"}
             /\ calls[d.call].state = "received" =>
                  d.decision \in {Parsed(tasks[w], answers[d.call]).kind, "rejected"}
             /\ \A j \in DOMAIN rulings[w] : rulings[w][j].call = d.call => i = j
  <2>1. d \in RulingsOf(w) /\ d.call \in Consumed(w)
    BY <1>3 DEF RulingsOf, Consumed
  <2>2. calls[d.call].state \in {"received", "response_rejected"}
    BY <1>1, <1>2, <2>1 DEF RuledSettled
  <2>3. calls[d.call].state = "received" =>
          d.decision \in {Parsed(tasks[w], answers[d.call]).kind, "rejected"}
    BY <1>1, <1>2, <2>1 DEF Reparsed
  <2>4. \A j \in DOMAIN rulings[w] : rulings[w][j].call = d.call => i = j
    BY <1>1, <1>3 DEF ReceiptConsumedOnce
  <2>. QED
    BY <2>2, <2>3, <2>4
<1>. QED
  BY <1>3 DEF DecisionsReparse

\* Artifacts derive again.
LEMMA ArtifactsDeriveAgain ==
  ASSUME RunInv
  PROVE  ArtifactsRederive
<1>1. OrchTypeOK /\ DerivedFromReceipts /\ Rederived
  BY DEF RunInv, LedgerFacts, OrchInv, TableFacts
<1>2. ASSUME NEW w \in DOMAIN derived, NEW c \in derived[w].lineage
      PROVE  c \in DOMAIN calls /\ calls[c].state = "received"
  BY <1>1 DEF DerivedFromReceipts, OrchTypeOK
<1>3. ASSUME NEW w \in DOMAIN derived, derived[w].kind = "output"
      PROVE  Parsed(tasks[w], answers[artifacts[w].call]).kind = "submit"
  <2>1. answers[artifacts[w].call].kind = "submit"
    BY <1>1, <1>3 DEF DerivedFromReceipts
  <2>. QED
    BY <2>1 DEF Parsed
<1>4. ASSUME NEW w \in DOMAIN derived, derived[w].kind # "output"
      PROVE  /\ Evidence(w) # {}
             /\ derived[w].accepted = (answers[LastEvidence(w)].verdict = "pass")
             /\ derived[w].lineage = {LastEvidence(w), artifacts[tasks[w].rule.candidate].call}
  BY <1>1, <1>4 DEF Rederived
<1>. QED
  BY <1>2, <1>3, <1>4 DEF ArtifactsRederive

\* What is done is done by an artifact or a decision, and what has one is done.
LEMMA DoneExplained ==
  ASSUME RunInv, NEW w \in DOMAIN work
  PROVE  work[w].status = "done" <=> w \in DOMAIN artifacts \cup DOMAIN decisions
<1>1. DoneMeansDecided /\ DecisionsPublished /\ PlatformTypeOK
  BY DEF RunInv, LedgerFacts, OrchInv, TreeInv
<1>2. w \in DOMAIN decisions => decisions[w].decision \in {"publish", "abstain"}
  BY <1>1 DEF PlatformTypeOK
<1>. QED
  BY <1>1, <1>2 DEF DoneMeansDecided, DecisionsPublished

\* The record of a run replays: every frozen request is rebuilt from the rows before it,
\* every decision and artifact from the receipt it names, wherever processes crashed.
THEOREM RunsReplay == RuntimeSpec => []RecordReplays
<1>1. ASSUME RunInv PROVE RecordReplays
  <2>1. RequestsRebuild
    BY <1>1 DEF RunInv, TableFacts, FrozenRebuilt, Rebuilt, RequestsRebuild
  <2>2. AccountingAgrees
    BY <1>1 DEF RunInv, TableFacts, Accounted
  <2>3. TerminalExplained
    BY <1>1, DoneExplained DEF TerminalExplained
  <2>. QED
    BY <1>1, <2>1, <2>2, <2>3, ClaimantsDeclared, ToolsAreBound, DecisionsParseAgain,
       ArtifactsDeriveAgain
       DEF RecordReplays
<1>. QED
  BY <1>1, RuntimeInvariance, PTL

\* At most one receipt of a task waits to be consumed, so a restart never asks again; and
\* one of a task that is over is left only at its rejection limit.
THEOREM ReceiptsLeftFew == RuntimeSpec => []OpenReceiptsFew
<1>1. ASSUME RunInv PROVE OpenReceiptsFew
  <2>1. OpenOnce /\ LeftAtLimit /\ OrchTypeOK
    BY <1>1 DEF RunInv, LedgerFacts, OrchInv, TableFacts
  <2>2. ASSUME NEW w \in DOMAIN work PROVE Unconsumed(w) \subseteq Open(w)
    BY <2>1, CallsByKey DEF Unconsumed, Open, Model
  <2>3. ASSUME NEW w \in DOMAIN work PROVE Cardinality(Unconsumed(w)) <= 1
    <3>1. CASE Unconsumed(w) = {}
      BY <3>1, FS_EmptySet
    <3>2. ASSUME NEW c \in Unconsumed(w) PROVE Cardinality(Unconsumed(w)) <= 1
      <4>1. Unconsumed(w) = {c}
        BY <2>1, <2>2, <3>2 DEF OpenOnce
      <4>2. Cardinality({c}) = 1
        BY FS_Singleton
      <4>. QED
        BY <4>1, <4>2
    <3>. QED
      BY <3>1, <3>2
  <2>4. ASSUME NEW w \in DOMAIN work, Unconsumed(w) # {},
               w \in DOMAIN artifacts \cup DOMAIN decisions
        PROVE  w \in DOMAIN decisions /\ Cardinality(RuledAs(w, "rejected")) = tasks[w].rejections
    <3>1. work[w].status = "done" /\ Open(w) # {}
      BY <1>1, <2>2, <2>4, DoneExplained
    <3>. QED
      BY <2>1, <3>1 DEF LeftAtLimit
  <2>. QED
    BY <2>3, <2>4 DEF OpenReceiptsFew
<1>. QED
  BY <1>1, RuntimeInvariance, PTL

\* So everything the ledger promises it promises to the processes as well: budgets hold,
\* a receipt is consumed once, decisions are backed and limits kept, crashes included.
THEOREM RuntimeKeepsLedger ==
  RuntimeSpec => [](BudgetTree /\ ReceiptConsumedOnce /\ DecisionsBacked /\ LimitsKept)
BY RuntimeImplements, OrchestrationBudget, ReceiptsOnce, DecisionsAreBacked, LimitsHold, PTL
=============================================================================
