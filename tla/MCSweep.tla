------------------------------ MODULE MCSweep ------------------------------
(* An instance of Colonies for TLC. *)
EXTENDS Colonies, TLC

CONSTANTS a1, a2, scan

Scan == scan :> [dependencies |-> {}, agents |-> {a1, a2}]
ScanBudget == scan :> [calls |-> 3, tokens |-> 0]

\* A second read only after a first positive one.
Tree == <<"no">> :> "reject" @@ <<"yes", "no">> :> "abstain" @@ <<"yes", "yes">> :> "accept"

Keys ==
  {Id("worker", scan, e, 0) : e \in 1 .. MaxEpoch} \cup
  {Id("colony", scan, d, n) : d \in 0 .. 1, n \in 0 .. MaxCalls}

AgentSymmetry == Permutations(Agent)
=============================================================================
