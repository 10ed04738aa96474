----------------------------- MODULE Decisions -----------------------------
(***************************************************************************)
(* The decision rules an agent is given, each asked one question and       *)
(* checked against a definition of what its answer is meant to be.  The    *)
(* planner of a single read is asked by the inspection that acts on its    *)
(* answer; the other rules are pure, and answer in one step.               *)
(***************************************************************************)
EXTENDS Inspection, TreePlanner, Leases, Commitment, Allocation

CONSTANTS
  Priors, Channels, LossRecords, Costs,  \* inputs of the planner of trees
  Durations,                             \* of stages, and candidates of lifetimes
  Programs, Tick,                        \* stopping programs, and the length of a tick
  Workers, Prices                        \* agents and their costs

VARIABLES
  question,  \* the inputs of the rule that is asked, None while an inspection runs
  answer     \* what it said, as a set that is empty before

decisionVars == <<inspectionVars, question, answer>>

\* An inspection that is not run.
NotRun ==
  /\ EvidenceInit
  /\ insp = [at |-> "skipped", config |-> {}, plan |-> {}, payload |-> "invalid",
             read |-> "none", response |-> "none", error |-> FALSE]
  /\ files = {} /\ receipt = "none" /\ updates = <<>> /\ saved = <<>> /\ result = NoResult

TreeQuestions ==
  [kind : {"tree"}, prior : Priors, losses : LossRecords, cost : Costs,
   channels : [1 .. Horizon -> Channels]]

LeaseQuestions ==
  [kind : {"lease"}, sample : [1 .. 3 -> Durations], extra : SUBSET Durations,
   rate : 0 .. 3, expiry : 0 .. 3]

\* A candidate of some loss, and another nobody would take; polls at stamps, since then
\* whatever the time is now.
WaitQuestions ==
  [kind : {"wait"}, program : Programs, loss : 0 .. 4, stamps : SUBSET (0 .. 2), now : 2 .. 6,
   expected : {{}, {Reader}}]

\* Two rows of the queue with their eligible agents, and a draw for each pair.
WorkQuestions ==
  [kind : {"work"}, prices : [Workers -> Prices], latency : 0 .. 1, exponent : {2},
   eligible : [1 .. 2 -> (SUBSET Workers) \ {{}}], luck : [Workers \X (1 .. 2) -> {0, Draws - 1}]]
  \cup
  [kind : {"work"}, prices : [Workers -> Prices], latency : 0 .. 1, exponent : {0},
   eligible : [1 .. 2 -> (SUBSET Workers) \ {{}}], luck : [Workers \X (1 .. 2) -> {0}]]

DecisionsInit ==
  /\ answer = {}
  /\ \/ question = None /\ InspectionInit
     \/ /\ NotRun
        /\ \/ question \in TreeQuestions
           \/ question \in LeaseQuestions
           \/ question \in WaitQuestions
           \/ question \in WorkQuestions

-----------------------------------------------------------------------------
\* The answers

Asks(kind) == question # None /\ answer = {} /\ question.kind = kind

Answers(a) == answer' = {a} /\ UNCHANGED <<inspectionVars, question>>

AnswerTree ==
  /\ Asks("tree")
  /\ Answers(PlanTree(question.prior, question.channels, question.losses, question.cost, Horizon))

AnswerLease ==
  /\ Asks("lease")
  /\ \E i \in 1 .. 3 : question.sample[i] > 0
  /\ Answers(LeaseTtl(question.sample, question.extra, question.rate, question.expiry))

Rows == <<question.program.abstain + 1, question.loss, question.loss>>

AnswerWait ==
  /\ Asks("wait")
  /\ Answers(WaitingRule(question.program, Rows, question.stamps, question.now, Tick, question.expected))

Queue == [i \in 1 .. 2 |-> [id |-> i, eligible |-> question.eligible[i]]]

Pick(queue, a) ==
  LET capacity == [workers |-> question.prices, latency |-> question.latency, service |-> 1]
  IN SelectWork(queue, capacity, a, question.exponent, question.luck)

AnswerWork ==
  /\ Asks("work")
  /\ Answers([a \in Workers |-> Pick(Queue, a)])

DecisionsNext ==
  \/ question = None /\ InspectionNext /\ UNCHANGED <<question, answer>>
  \/ AnswerTree \/ AnswerLease \/ AnswerWait \/ AnswerWork

DecisionsSpec == DecisionsInit /\ [][DecisionsNext]_decisionVars

Answered(kind) == question # None /\ question.kind = kind /\ answer # {}

The == CHOOSE a \in answer : TRUE

-----------------------------------------------------------------------------
\* Properties

RECURSIVE Trees(_, _)

\* Every policy that reads at most k times from a depth on.
Trees(depth, k) ==
  {Leaf(a) : a \in Range(Actions)} \cup
  IF k = 0 THEN {}
  ELSE {Query(depth, no, yes) : no \in Trees(depth + 1, k - 1), yes \in Trees(depth + 1, k - 1)}

\* The planned tree loses no more than any policy of that many reads at the channels it
\* was planned for (plan_tree claims no more), what certify_joint_corners certifies
\* bounds every world in the declared boxes, one read is what plan_inspection plans,
\* and no shorter horizon than the chosen one is worth as much.
TreeOptimal ==
  Answered("tree") =>
    LET p == question.prior
        channels == question.channels
        losses == question.losses
        cost == question.cost
        plan == The
        risk(tree, world) == TreeRisk(tree, Prior(p), world, losses, cost)
        boxes == [i \in 1 .. Horizon |-> [qLow |-> channels[i].q, qHigh |-> Scale,
                                          rhoLow |-> 0, rhoHigh |-> channels[i].rho]]
        inside(i) == {c \in Channel : c.q >= channels[i].q /\ c.rho <= channels[i].rho}
        worlds == {w \in [1 .. Horizon -> UNION {inside(i) : i \in 1 .. Horizon}] :
                     \A i \in 1 .. Horizon : w[i] \in inside(i)}
        certified == WorstCorner(plan.tree, p, boxes, losses, cost)
        one == PlanTree(p, channels, losses, cost, 1).tree
        single == PlanInspection(p, channels[1], losses, cost)
    IN /\ plan.risk = risk(plan.tree, channels)
       /\ \A tree \in Trees(0, Horizon) : plan.risk <= risk(tree, channels)
       /\ \A w \in worlds : risk(plan.tree, w) <= certified
       /\ one = IF single.purchase THEN Query(0, Leaf(single.negative), Leaf(single.positive))
                ELSE Leaf(single.stop)
       /\ \A k \in 0 .. ChooseHorizon(p, channels, losses, cost, Horizon) - 1 :
            PlanTree(p, channels, losses, cost, k).risk > plan.risk

\* The lifetime is positive and the least of those that lose least, and although
\* lease_ttl searches only what it is offered, nothing between the shortest and the
\* longest of it would lose less.
LeaseMinimal ==
  Answered("lease") =>
    LET offered == {T \in Range(question.sample) \cup question.extra : T > 0}
        loss(T) == LeaseLoss(question.sample, T, question.rate, question.expiry)
    IN /\ The \in offered
       /\ \A T \in Min(offered) .. Max(offered) :
            loss(The) < loss(T) \/ (loss(The) = loss(T) /\ (The <= T \/ T \notin offered))

RECURSIVE StoppingCost(_, _, _, _)

\* What a plan expects to lose that waits exactly in the situations of waits, a
\* situation being a tick and the least loss on hand, abstaining included.
StoppingCost(program, waits, t, best) ==
  LET n == Len(program.support)
      next(loss) == StoppingCost(program, waits, t + 1, loss)
      arrivals == MapThenSumSet(LAMBDA k : next(Min({best, program.support[k]})), 1 .. n)
  IN IF t < program.deadline /\ <<t, best>> \in waits
     THEN program.tick * Unit(program, t) + (Chances - program.arrival) * n * next(best)
            + program.arrival * arrivals
     ELSE best * Unit(program, t)

\* A waiting rule waits exactly when the best plan of waiting from that tick on expects
\* to lose less than stopping does, while a declared source is still to propose and the
\* deadline, counted from the first recorded wait and not in polls, has not come.  It
\* publishes the first of the best candidates, and only one that beats abstaining.
StoppingOptimal ==
  Answered("wait") =>
    LET program == question.program
        best == Min({question.loss, program.abstain})
        t == Min({program.deadline, (question.now - Min(question.stamps)) \div Tick})
        at == IF question.stamps = {} THEN 0 ELSE t
        bests == {Min({b, best}) : b \in Range(program.support) \cup {best}}
        plans == SUBSET ((at .. program.deadline - 1) \X bests)
        cost(waits) == StoppingCost(program, waits, at, best)
        waiting == Min({cost(waits) : waits \in plans})
    IN /\ (The = -1) <=> question.expected # {} /\ waiting < best * Unit(program, at)
       /\ The # -1 => The = IF question.loss < program.abstain THEN 2 ELSE 0

\* Ready work is not left to somebody cheaper by everybody: whatever the declared costs
\* and draws, and however the eligible agents are spread, someone claims; only an
\* eligible agent claims, and a claim is not given up because the backlog grew.
AllocationSound ==
  Answered("work") =>
    /\ \E a \in Workers : The[a] # {}
    /\ \A a \in Workers : \A id \in The[a] : a \in question.eligible[id]
    /\ \A a \in question.eligible[1] \cap question.eligible[2] :
         Pick(<<Queue[1]>>, a) # {} => The[a] # {}
=============================================================================
