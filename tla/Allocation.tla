----------------------------- MODULE Allocation -----------------------------
(***************************************************************************)
(* Which ready work an agent claims: runner/policies.py and the policy     *)
(* plane of runner/runtime_policies.py.  A ready row is a record with its  *)
(* id and the agents eligible for it; a choice is a set, empty for None.   *)
(* The capacity model is a record: workers (cost of each), latency (cost   *)
(* of a tick of delay), service (ticks per item).                          *)
(***************************************************************************)
EXTENDS Integers, FiniteSets, FiniteSetsExt, Sequences, SequencesExt

CONSTANT Draws  \* parts of a declared draw

ASSUME DrawAssumption == Draws \in Nat \ {0}

\* pick_fifo.
PickFifo(ready) == IF ready = <<>> THEN {} ELSE {Head(ready).id}

\* Mutant: workers who may not run the task count as cheaper capacity.
ArgumentsOfAll(capacity, eligible, actor) ==
  LET costs == Range(capacity.workers)
  IN [worker |-> capacity.workers[actor], cheapest |-> Min(costs),
      cheaper |-> Cardinality({n \in DOMAIN capacity.workers :
                                 capacity.workers[n] < capacity.workers[actor]}),
      latency |-> capacity.latency, service |-> capacity.service]

\* _arguments: the cheapest and the number of the cheaper ones among the eligible.
Arguments(capacity, eligible, actor) ==
  LET costs == {capacity.workers[n] : n \in eligible}
      mine == capacity.workers[actor]
  IN [worker |-> mine, cheapest |-> Min(costs),
      cheaper |-> Cardinality({n \in eligible : capacity.workers[n] < mine}),
      latency |-> capacity.latency, service |-> capacity.service]

\* Nobody cheaper to wait for.
Unrivalled(arg) == arg.worker = arg.cheapest \/ arg.cheaper = 0

\* pick_threshold: the delay of the backlog outweighs the extra cost.
PickThreshold(ready, arg) ==
  IF Unrivalled(arg) \/ arg.latency * Len(ready) * arg.service > (arg.worker - arg.cheapest) * arg.cheaper
  THEN PickFifo(ready) ELSE {}

\* pick_response: the draw is below s^n / (s^n + theta^n), with s and theta multiplied
\* by cheaper * latency.
PickResponse(ready, arg, exponent, draw) ==
  IF exponent = 0 THEN PickThreshold(ready, arg)
  ELSE IF Unrivalled(arg) THEN PickFifo(ready)
  ELSE LET high == (Len(ready) * arg.service * arg.latency) ^ exponent
           low == ((arg.worker - arg.cheapest) * arg.cheaper) ^ exponent
       IN IF arg.latency > 0 /\ draw * (high + low) < Draws * high THEN PickFifo(ready) ELSE {}

\* _scan: each row in turn at the head of the whole queue, the first one taken wins.
\* draws holds the declared draw of each pair of an agent and a row.
Scan(ready, capacity, actor, exponent, draws) ==
  LET turned(i) == <<ready[i]>> \o RemoveAt(ready, i)
      pick(i) == PickResponse(turned(i), Arguments(capacity, ready[i].eligible, actor), exponent,
                              draws[actor, ready[i].id])
      taken == {i \in DOMAIN ready : pick(i) # {}}
  IN IF taken = {} THEN {} ELSE pick(Min(taken))

\* select_work over the ready rows this agent may claim.  exponent 0 is the threshold.
SelectWork(queue, capacity, actor, exponent, draws) ==
  Scan(SelectSeq(queue, LAMBDA row : actor \in row.eligible), capacity, actor, exponent, draws)
=============================================================================
