---------------------------- MODULE MCDecisions ----------------------------
(* An instance of Decisions for TLC. *)
EXTENDS Decisions, TLC

CONSTANTS a1, a2, inspect, s1, old, new

OneItem == inspect :> [dependencies |-> {}, agents |-> {a1}]

OneSource == s1 :> [version |-> 1, readers |-> {a1}, fingerprint |-> old]

OneInspection == inspect :> [source |-> s1, version |-> 1, fingerprint |-> old, readers |-> {a1}]

LossSets == {[accept |-> 4, reject |-> 2, abstain |-> 1], [accept |-> 2, reject |-> 4, abstain |-> 2],
             [accept |-> 8, reject |-> 8, abstain |-> 3], [accept |-> 3, reject |-> 3, abstain |-> 2]}

AllConfigs == [prior : 0 .. Scale, channel : Channel, losses : LossSets, cost : {0, 1}]

\* A perfect source, a poor one, and copies of either kind.
SomeChannels == {[q |-> 4, rho |-> 0], [q |-> 3, rho |-> 0], [q |-> 3, rho |-> 2], [q |-> 4, rho |-> 1]}

SomePrograms ==
  [abstain : {3, 6}, tick : {0, 1}, deadline : {1, 2}, arrival : {1, 4},
   support : {<<1, 4>>, <<0, 6>>}]

AgentNames == {"cheap", "mid", "dear"}

\* What the rest of a behaviour depends on.  The action without a read plays no part once
\* the read is bought, nor do the files and what was read of them once the process is done
\* with both.
Relevant ==
  LET bought == {[p EXCEPT !.stop = "abstain"] : p \in insp.plan}
      known == IF Open THEN [insp EXCEPT !.plan = bought] ELSE insp
  IN IF insp.at \in {"snapshot", "saved"}
     THEN <<evidenceVars, [known EXCEPT !.read = "none"], {}, receipt, updates, saved, result,
            question, answer>>
     ELSE <<evidenceVars, known, files, receipt, updates, saved, result, question, answer>>
=============================================================================
