----------------------------- MODULE MCSession -----------------------------
(* Instances of Session for TLC. *)
EXTENDS Session, TLC

CONSTANTS a1, a2, draft, review

\* Two tasks, the second reading the first one's artifact.
Chain ==
  draft :> [dependencies |-> {}, agents |-> {a1, a2}] @@
  review :> [dependencies |-> {draft}, agents |-> {a2}]

CallSymmetry == Permutations(CallId)
=============================================================================
