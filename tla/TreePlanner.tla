---------------------------- MODULE TreePlanner ----------------------------
(***************************************************************************)
(* The planner of a tree of reads: pheroos_interaction/sequential.py, over *)
(* the masses and the map of a last read it shares with inspection.py.     *)
(***************************************************************************)
EXTENDS Planner

CONSTANT Horizon  \* reads of the deepest tree

\* Every read on a path divides the masses exactly.
ASSUME HorizonAssumption ==
  Horizon \in Nat \ {0} /\ Whole % (Scale ^ (2 * Horizon + 1)) = 0

-----------------------------------------------------------------------------
\* plan_tree

Leaf(action) == [query |-> FALSE, act |-> action]
Query(depth, negative, positive) ==
  [query |-> TRUE, depth |-> depth, no |-> negative, yes |-> positive]

RECURSIVE Build(_, _, _, _, _, _)

\* build, with the risk of the node (Node.risk): stop, or read at this depth if that
\* lowers the loss by more than it costs.
Build(mass, channels, losses, cost, horizon, depth) ==
  LET terms == StopTerms(mass, losses)
      index == ArgminTie(terms)
      stop == [tree |-> Leaf(Actions[index]), risk |-> terms[index], terms |-> terms]
      price == cost * (mass.h + mass.n)
      kid(positive) ==
        Build(Joint(mass, channels[depth + 1], positive), channels, losses, cost, horizon, depth + 1)
      no == kid(FALSE)
      yes == kid(TRUE)
      shared == SharedMap(no.terms, yes.terms)
      read ==
        IF no.tree.query \/ yes.tree.query
        THEN [tree |-> Query(depth, no.tree, yes.tree), risk |-> price + no.risk + yes.risk, terms |-> terms]
        ELSE [tree |-> Query(depth, Leaf(shared[2]), Leaf(shared[3])), risk |-> price + shared[1], terms |-> terms]
  IN IF depth = horizon \/ price >= stop.risk THEN stop
     ELSE IF stop.risk > read.risk THEN read ELSE stop

PlanTree(prior, channels, losses, cost, horizon) ==
  Build(Prior(prior), channels, losses, cost, horizon, 0)

\* choose_horizon: the smallest horizon that is worth as much as the call cap.
ChooseHorizon(prior, channels, losses, cost, cap) ==
  LET value(k) == PlanTree(prior, channels, losses, cost, k).risk
  IN Min({k \in 0 .. cap : value(k) <= value(cap)})

RECURSIVE TreeRisk(_, _, _, _, _)

\* policy_risk_exact: what a fixed tree loses when the world is these channels.
TreeRisk(tree, mass, channels, losses, cost) ==
  IF ~tree.query
  THEN StopTerms(mass, losses)[CHOOSE i \in 1 .. 3 : Actions[i] = tree.act]
  ELSE LET channel == channels[tree.depth + 1] IN
       cost * (mass.h + mass.n)
         + TreeRisk(tree.no, Joint(mass, channel, FALSE), channels, losses, cost)
         + TreeRisk(tree.yes, Joint(mass, channel, TRUE), channels, losses, cost)

\* Mutant: only the corner the tree was planned at is evaluated.
WorstPlanned(tree, prior, boxes, losses, cost) ==
  TreeRisk(tree, Prior(prior),
           [i \in DOMAIN boxes |-> [q |-> boxes[i].qLow, rho |-> boxes[i].rhoHigh]], losses, cost)

\* certify_joint_corners: the worst of the corners of the declared boxes, each source
\* being read at most once on a path.
WorstCorner(tree, prior, boxes, losses, cost) ==
  LET corners(box) == [q : {box.qLow, box.qHigh}, rho : {box.rhoLow, box.rhoHigh}]
      joint == {c \in [DOMAIN boxes -> UNION {corners(boxes[i]) : i \in DOMAIN boxes}] :
                  \A i \in DOMAIN boxes : c[i] \in corners(boxes[i])}
  IN Max({TreeRisk(tree, Prior(prior), c, losses, cost) : c \in joint})
=============================================================================
