------------------------------ MODULE MCScoped ------------------------------
(* An instance of ScopedPlatform for TLC. *)
EXTENDS ScopedPlatform, TLC

CONSTANTS a1, a2, root, part, join, s1, old, new

OneScan == root :> [dependencies |-> {}, agents |-> {a1, a2}]

ScanBudget == root :> [calls |-> 2, tokens |-> 4]

\* A child for both agents, and two, which the index has no room for.
Kid(calls_) ==
  [dependencies |-> {}, agents |-> {a1, a2}, calls |-> calls_, tokens |-> 2 * calls_]

Parts == {part :> Kid(1), part :> Kid(0) @@ join :> Kid(0)}

OneSource == s1 :> [version |-> 1, readers |-> {a1, a2}, fingerprint |-> old]

OneInspection ==
  root :> [source |-> s1, version |-> 1, fingerprint |-> old, readers |-> {a1, a2}]

BothSymmetry == Permutations(CallId) \cup Permutations(Agent)
=============================================================================
