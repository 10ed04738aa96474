----------------------------- MODULE Commitment -----------------------------
(***************************************************************************)
(* Optimal stopping with recall: commit_value and optimal_stopping_rule of *)
(* pheroos_interaction/commitment.py, and the clock that waiting_rule of   *)
(* runner/worker.py gives them.                                            *)
(*                                                                         *)
(* A program is a record: abstain (the loss of abstaining), tick (the cost *)
(* of waiting one), deadline, arrival (the chance that a candidate arrives *)
(* in a tick, in parts of Chances), and support (a sequence of losses, all *)
(* equally likely).  The losses in hand are a set, empty for None.  Values *)
(* after t ticks count parts of Unit(program, t), so that they are exact.  *)
(***************************************************************************)
EXTENDS Integers, FiniteSets, FiniteSetsExt, Sequences, SequencesExt

CONSTANT Chances  \* parts of a probability

ASSUME ChanceAssumption == Chances \in Nat \ {0}

Unit(program, t) == (Chances * Len(program.support)) ^ (program.deadline - t)

\* hold: the best one can do without waiting.
Hold(program, hand) == Min(hand \cup {program.abstain})

RECURSIVE Value(_, _, _)

\* The wait branch: a tick, and then a candidate more or not.
Wait(program, t, hand) ==
  LET n == Len(program.support)
      expect == FoldFunction(+, 0,
                  [k \in 1 .. n |-> Value(program, t + 1, {Min(hand \cup {program.support[k]})})])
  IN program.tick * Unit(program, t)
       + (Chances - program.arrival) * n * Value(program, t + 1, hand)
       + program.arrival * expect

\* value.
Value(program, t, hand) ==
  LET held == Hold(program, hand) * Unit(program, t) IN
  IF t >= program.deadline THEN Hold(program, hand) ELSE Min({held, Wait(program, t, hand)})

\* decide: at or beyond the deadline nobody waits.
Decide(program, t, hand) ==
  LET abstain == program.abstain * Unit(program, t)
      r == Min(hand)
      open == t < program.deadline
      waits == open /\ Wait(program, t, hand) < abstain
  IN IF hand = {} THEN IF waits THEN "no_candidate" ELSE "abstain"
     ELSE IF r <= program.abstain /\ (open => r * Unit(program, t) <= Wait(program, t, hand))
     THEN "publish"
     ELSE IF waits THEN "wait" ELSE "abstain"

\* The rule: rows are the candidates as a sequence of losses in the order of their call
\* ids.  The chosen row, 0 to abstain, or -1 to wait.
StoppingRule(program, rows, elapsed) ==
  IF rows = <<>> THEN 0
  ELSE LET r == Min(Range(rows))
           best == Min({i \in DOMAIN rows : rows[i] = r})
           state == Decide(program, elapsed, {r})
       IN IF state = "publish" /\ r < program.abstain THEN best
          ELSE IF state = "wait" THEN -1 ELSE 0

-----------------------------------------------------------------------------
\* Mutant: every poll is a tick.
ElapsedByPolls(program, stamps, now, tick) == Min({program.deadline, Cardinality(stamps)})

\* waiting_rule: whole ticks since the first recorded wait of the work, at most the
\* deadline; the polls in between do not count.
Elapsed(program, stamps, now, tick) ==
  IF stamps = {} THEN 0
  ELSE Min({program.deadline, Max({0, now - Min(stamps)}) \div tick})

\* The waiting rule at a moment, and the default rule (the least loss, if it is below
\* the loss of abstaining) once every declared source has proposed.
WaitingRule(program, rows, stamps, now, tick, expected) ==
  IF expected = {}
  THEN LET r == Min(Range(rows))
       IN IF rows # <<>> /\ r < program.abstain THEN Min({i \in DOMAIN rows : rows[i] = r}) ELSE 0
  ELSE StoppingRule(program, rows, Elapsed(program, stamps, now, tick))
=============================================================================
