----------------------------- MODULE MCEvidence -----------------------------
(* Instances of Evidence for TLC. *)
EXTENDS Evidence, TLC

CONSTANTS a1, a2, scan, rescan, s1, old, new

\* The same source inspected at its first and at its second version.
TwoScans ==
  scan :> [dependencies |-> {}, agents |-> {a1, a2}] @@
  rescan :> [dependencies |-> {}, agents |-> {a1}]

OneSource == s1 :> [version |-> 1, readers |-> {a1, a2}, fingerprint |-> old]

ScanInspections ==
  scan :> [source |-> s1, version |-> 1, fingerprint |-> old, readers |-> {a1, a2}] @@
  rescan :> [source |-> s1, version |-> 2, fingerprint |-> new, readers |-> {a1, a2}]

CallSymmetry == Permutations(CallId)
=============================================================================
