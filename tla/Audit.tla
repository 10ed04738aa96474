------------------------------- MODULE Audit -------------------------------
(***************************************************************************)
(* Offline replay: runner/audit.py.  replay_run is a pure function of the  *)
(* rows of a recorded ledger; each of its checks is an operator here, over *)
(* the ledger a run of Runtime leaves.  The digests, the source identity   *)
(* and the re-validation of the specification text are left out: a record  *)
(* that nobody edits satisfies them.                                       *)
(*                                                                         *)
(* Row order: frozen[c].seen is the set of calls with a lower rowid.       *)
(***************************************************************************)
EXTENDS Runtime

Model == {c \in DOMAIN calls : c.kind = "model"}

\* claim_owner: who the claimed event of this epoch names.
Attested(c) ==
  {l.owner : l \in {g \in granted : g.work = c.work /\ g.epoch = calls[c].epoch}}

\* call_unattested, call_claimant.
ClaimantDeclared ==
  \A c \in Model : Attested(c) # {} /\ Attested(c) \subseteq tasks[c.work].agents

\* _as_of: the context as the rows before the call, and the decisions of earlier
\* steps, make it.
AsOf(c) ==
  Context(c.work, c.step, frozen[c].seen, {d \in RulingsOf(c.work) : d.call.step < c.step})

\* request_rebuild, binding_rebuild; a call never dispatched has no request.
RequestsRebuild ==
  \A c \in {d \in Model : calls[d].state \notin {"reserved", "abandoned"}} :
    frozen[c].context = AsOf(c)

\* tool_declared, tool_receipt_binding.
ToolsBound ==
  \A t \in DOMAIN calls \ Model :
    /\ bindings[t].tool \in tasks[t.work].tools
    /\ calls[bindings[t].source].state = "received"

\* decision:settled, decision:proposal and decision_uniqueness.
DecisionsReparse ==
  \A w \in DOMAIN rulings : \A i \in DOMAIN rulings[w] :
    LET d == rulings[w][i] IN
    /\ calls[d.call].state \in {"received", "response_rejected"}
    /\ calls[d.call].state = "received" =>
         d.decision \in {Parsed(tasks[w], answers[d.call]).kind, "rejected"}
    /\ \A j \in DOMAIN rulings[w] : rulings[w][j].call = d.call => i = j

\* artifact:lineage, :output, :rule and :result_lineage.
ArtifactsRederive ==
  \A w \in DOMAIN derived :
    LET d == derived[w] IN
    /\ \A c \in d.lineage : c \in DOMAIN calls /\ calls[c].state = "received"
    /\ IF d.kind = "output"
       THEN Parsed(tasks[w], answers[artifacts[w].call]).kind = "submit"
       ELSE /\ Evidence(w) # {}
            /\ d.accepted = (answers[LastEvidence(w)].verdict = "pass")
            /\ d.lineage = {LastEvidence(w), artifacts[tasks[w].rule.candidate].call}

\* accounting:unresolved and :bound.
AccountingAgrees ==
  /\ \A c \in violated : calls[c].state = "dispatched"
  /\ \A c \in Model : calls[c].state = "received" => calls[c].actual <= PromptBound + MaxNew

\* terminal:<work>.
TerminalExplained ==
  \A w \in DOMAIN work : work[w].status = "done" => w \in DOMAIN artifacts \cup DOMAIN decisions

Unconsumed(w) ==
  {c \in Model : /\ c.work = w /\ c \notin Consumed(w)
                 /\ calls[c].state \in {"received", "response_rejected"}}

\* decision_missing: one receipt of a task still open, none of a terminal one.
ConsumptionRecorded ==
  \A w \in DOMAIN work : Unconsumed(w) # {} =>
    /\ w \notin DOMAIN artifacts \cup DOMAIN decisions
    /\ Cardinality(Unconsumed(w)) = 1

-----------------------------------------------------------------------------
\* Properties

\* Whatever happened to a run, crashes and lost leases in any place, its record
\* replays: every frozen request is rebuilt from the rows before it, every decision
\* and artifact from the receipt it names.  decision_missing is left to the next.
RecordReplays ==
  /\ ClaimantDeclared /\ RequestsRebuild /\ ToolsBound /\ DecisionsReparse
  /\ ArtifactsRederive /\ AccountingAgrees /\ TerminalExplained

\* The last check of the audit, but for a task that gave up at its rejection limit.
\* In particular a restart never asks again while a receipt waits to be consumed.
OpenReceiptsFew ==
  \A w \in DOMAIN work :
    /\ Cardinality(Unconsumed(w)) <= 1
    /\ Unconsumed(w) # {} /\ w \in DOMAIN artifacts \cup DOMAIN decisions =>
         /\ w \in DOMAIN decisions
         /\ Cardinality(RuledAs(w, "rejected")) = tasks[w].rejections

\* The last check as it stands.  A rejection beyond the limit abstains without a
\* decision for the receipt it refused, and the audit calls the honest record a FAIL.
HonestRunPasses == ConsumptionRecorded
=============================================================================
