------------------------------ MODULE Planner ------------------------------
(***************************************************************************)
(* The planner of one read: pheroos_interaction/inspection.py, over the    *)
(* joint masses of "the claim H and what was read" and "not H and what was *)
(* read".                                                                  *)
(*                                                                         *)
(* The code's floats are integers here: probabilities count Scale parts,   *)
(* and masses count parts of Whole, which a read divides exactly.  The tie *)
(* tolerance and the margin epsilon (1e-12) are then zero.                 *)
(***************************************************************************)
EXTENDS Integers, FiniteSets, FiniteSetsExt, Sequences, SequencesExt

CONSTANTS
  Scale,    \* parts of a probability
  Whole     \* parts of a mass

ASSUME ScaleAssumption ==
  /\ Scale \in Nat \ {0} /\ Scale % 2 = 0
  /\ Whole \in Nat \ {0} /\ Whole % (Scale * Scale * Scale) = 0

\* ACTIONS, in the order that breaks ties.
Actions == <<"abstain", "reject", "accept">>

\* Reliability q and copy weight rho of a source (Channel.__post_init__).
Channel == {c \in [q : 0 .. Scale, rho : 0 .. Scale] : 2 * c.q >= Scale}

\* A prior as the masses of H and of its negation.
Prior(p) == [h |-> p * (Whole \div Scale), n |-> (Scale - p) * (Whole \div Scale)]

-----------------------------------------------------------------------------
\* Channel.joint: a copy is always positive, an independent read right with weight q.
Joint(mass, channel, positive) ==
  LET q == channel.q
      own == Scale - channel.rho
      copied == IF positive THEN channel.rho * Scale ELSE 0
      part(m, weight) == (m * (copied + own * weight)) \div (Scale * Scale)
  IN [h |-> part(mass.h, IF positive THEN q ELSE Scale - q),
      n |-> part(mass.n, IF positive THEN Scale - q ELSE q)]

\* stop_terms: the joint loss of each action.
StopTerms(mass, losses) ==
  <<(mass.h + mass.n) * losses.abstain, mass.h * losses.reject, mass.n * losses.accept>>

\* _argmin_tie: the first action that is as good as any.
ArgminTie(terms) == Min({i \in 1 .. 3 : terms[i] = Min(Range(terms))})

\* Mutant: decisions are preferred to abstaining.
SharedMapDecided(negative, positive) ==
  LET least == Min(Range(negative)) + Min(Range(positive))
      found == {p \in (1 .. 3) \X (1 .. 3) : negative[p[1]] + positive[p[2]] = least}
      i == Max({p[1] : p \in found})
      j == Max({p[2] : p \in {p \in found : p[1] = i}})
  IN <<least, Actions[i], Actions[j]>>

\* _shared_map: the least loss of the two branches together, with as few decisions as
\* it takes (count), and then greedily the first action in each.
SharedMap(negative, positive) ==
  LET by(terms, k) == IF k = 0 THEN terms[1] ELSE Min({terms[2], terms[3]})
      decided(i) == IF i = 1 THEN 0 ELSE 1
      least == Min(Range(negative)) + Min(Range(positive))
      minima(k) == Min({by(negative, m) + by(positive, k - m) : m \in {m \in {0, 1} : k - m \in {0, 1}}})
      count == Min({k \in 0 .. 2 : minima(k) <= least})
      first == Min({i \in 1 .. 3 : /\ count - decided(i) \in {0, 1}
                                   /\ negative[i] + by(positive, count - decided(i)) <= least})
      second == Min({j \in 1 .. 3 : /\ decided(j) = count - decided(first)
                                    /\ negative[first] + positive[j] <= least})
  IN <<negative[first] + positive[second], Actions[first], Actions[second]>>

-----------------------------------------------------------------------------
\* plan_inspection and apply_plan

PlanInspection(prior, channel, losses, cost) ==
  LET mass == Prior(prior)
      terms == StopTerms(mass, losses)
      stop == ArgminTie(terms)
      screened == cost * Whole >= terms[stop]
      delta == SharedMap(StopTerms(Joint(mass, channel, FALSE), losses),
                         StopTerms(Joint(mass, channel, TRUE), losses))
  IN [stop |-> Actions[stop],
      purchase |-> ~screened /\ terms[stop] > cost * Whole + delta[1],
      negative |-> delta[2], positive |-> delta[3]]

\* An outcome nobody knows abstains.
ApplyPlan(plan, outcome) ==
  IF ~plan.purchase THEN plan.stop
  ELSE IF outcome = "unknown" THEN "abstain"
  ELSE IF outcome = "yes" THEN plan.positive ELSE plan.negative
=============================================================================
