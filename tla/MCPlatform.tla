----------------------------- MODULE MCPlatform -----------------------------
(* Instances of Platform for TLC. *)
EXTENDS Platform, TLC

CONSTANTS a1, a2, root, part, join

\* One task of two agents.
Root == root :> [dependencies |-> {}, agents |-> {a1, a2}]

RootBudget == root :> [calls |-> 3, tokens |-> 6]

Kid(deps, calls_) ==
  [dependencies |-> deps, agents |-> {a1}, calls |-> calls_, tokens |-> 2 * calls_]

\* A child; a child and a second one that reads it; a child that would wait for
\* its own parent.
Parts ==
  {part :> Kid({}, 1),
   part :> Kid({}, 1) @@ join :> Kid({part}, 1),
   part :> Kid({root}, 0)}

OnePart == {part :> Kid({}, 1)}

CallSymmetry == Permutations(CallId)
=============================================================================
