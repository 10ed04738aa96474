----------------------------- MODULE Inspection -----------------------------
(***************************************************************************)
(* One optional read of a local source: run_inspection and                 *)
(* replay_inspection of runner/inspection.py, over the evidence ledger.    *)
(*                                                                         *)
(* A run freezes a plan, may buy one read through SessionDriver, and saves *)
(* what happened; a replay recomputes the result from the record alone.    *)
(* While it runs, its source files change, and others who have the ledger  *)
(* open announce updates of the source, cancel, recover and let time pass: *)
(* between the reads of the snapshot too, and after it is saved.           *)
(* A process that dies saves no result, and there is nothing to replay.    *)
(***************************************************************************)
EXTENDS Evidence, Planner

CONSTANTS
  Configs,  \* configurations: prior, channel, losses, cost
  Reader,   \* config["reader"]
  Item,     \* the work "inspect"
  Call1,    \* the call "inspect:1"
  Source    \* config["source_id"]

ASSUME InspectionAssumption ==
  /\ CallId = {Call1} /\ DOMAIN Declaration = {Item} /\ DOMAIN Inspections = {Item}
  /\ DOMAIN Sources = {Source} /\ Inspections[Item].source = Source
  /\ Declaration[Item].agents = {Reader}
  /\ Sources[Source].readers = Agent /\ Inspections[Item].readers = Agent
  /\ Sources[Source].version = Inspections[Item].version
  /\ Sources[Source].fingerprint = Inspections[Item].fingerprint
  /\ 0 \in Tokens

ASSUME ConfigAssumption ==
  Configs \subseteq [prior : 0 .. Scale, channel : Channel, cost : Nat,
                   losses : [accept : Nat, reject : Nat, abstain : Nat]]

VARIABLES
  insp,     \* the process: at, config, plan, payload as frozen, response, error
  files,    \* which of the source's files are as they were frozen
  receipt,  \* the response stored with the call
  updates,  \* the source updates in the journal
  saved,    \* session.json, with the tables that are read so far
  result    \* result.json

inspectionVars == <<evidenceVars, insp, files, receipt, updates, saved, result>>

InspectionLease == [work |-> Item, owner |-> Reader, epoch |-> 1]

NoResult == [status |-> "none", action |-> "none"]

\* The tables of a snapshot in the order they are selected, and what they hold: the
\* response is a column of the calls, updates and control operations are events.
Tables == <<"run", "work", "calls", "artifacts", "events", "sources", "inspections">>

Ledger ==
  [run |-> run, work |-> work, calls |-> [rows |-> calls, response |-> receipt],
   artifacts |-> artifacts, events |-> [updates |-> updates, control |-> control],
   sources |-> sources, inspections |-> inspections]

InspectionInit ==
  /\ EvidenceInit
  /\ \E config \in Configs, payload \in {"yes", "no", "unknown", "invalid"} :
       insp = [at |-> "freeze", config |-> {config}, plan |-> {}, payload |-> payload,
               read |-> "none", response |-> "none", error |-> FALSE]
  /\ files = {"source.json", "value.json"}
  /\ receipt = "none"
  /\ updates = <<>>
  /\ saved = <<>>
  /\ result = NoResult

InspGoes(at) == insp' = [insp EXCEPT !.at = at]

\* Any exception ends in the snapshot.
InspRaises == insp' = [insp EXCEPT !.at = "snapshot", !.error = TRUE]

Kept == UNCHANGED <<files, receipt, updates, saved, result>>

-----------------------------------------------------------------------------
\* run_inspection

\* _config, and plan_inspection at the least favourable corner.
Freeze ==
  /\ insp.at = "freeze"
  /\ insp' = [insp EXCEPT !.at = "frozen",
       !.plan = {PlanInspection(c.prior, c.channel, c.losses, c.cost) : c \in insp.config}]
  /\ Kept /\ UNCHANGED evidenceVars

\* Without a purchase the result is the frozen stop action and nothing is created;
\* otherwise the ledger is.  The plan is all that is used of the configuration.
Create ==
  /\ insp.at = "frozen"
  /\ \E plan \in insp.plan :
       IF plan.purchase
       THEN insp' = [insp EXCEPT !.at = "claim", !.config = {}] /\ UNCHANGED result
       ELSE /\ insp' = [insp EXCEPT !.at = "skipped", !.config = {}]
            /\ result' = [status |-> "SKIPPED", action |-> plan.stop]
  /\ UNCHANGED <<evidenceVars, files, receipt, updates, saved>>

ClaimInspection ==
  /\ insp.at = "claim"
  /\ \/ CountedClaim(Reader, Item) /\ InspGoes("check")
     \/ ~ENABLED CountedClaim(Reader, Item) /\ InspRaises /\ UNCHANGED evidenceVars
  /\ Kept

\* check_current: the declaration is read again, before the read and before publishing.
CheckFiles(at, next) ==
  /\ insp.at = at
  /\ IF "source.json" \in files THEN InspGoes(next) ELSE InspRaises
  /\ Kept /\ UNCHANGED evidenceVars

ReserveInspection ==
  LET op == CurrentReserve(InspectionLease, Call1, 0, 0) IN
  /\ insp.at = "reserve"
  /\ \/ op /\ InspGoes("dispatch")
     \/ ~ENABLED op /\ InspRaises /\ UNCHANGED evidenceVars
  /\ Kept

DispatchInspection ==
  LET op == CurrentDispatch(InspectionLease, Call1) IN
  /\ insp.at = "dispatch"
  /\ \/ op /\ InspGoes("fence")
     \/ ~ENABLED op /\ InspRaises /\ UNCHANGED evidenceVars
  /\ Kept

\* read_binary: the lease and the source once more, then the files.
Fence ==
  /\ insp.at = "fence"
  /\ IF Holds(InspectionLease) /\ Current(Item, Reader) THEN InspGoes("recheck") ELSE InspRaises
  /\ Kept /\ UNCHANGED evidenceVars

\* Mutant: the payload is not compared with the declared fingerprint.
ReadUnchecked ==
  LET raw == IF "value.json" \in files THEN insp.payload ELSE "other" IN
  /\ insp.at = "read"
  /\ IF raw # "invalid" THEN insp' = [insp EXCEPT !.at = "receive", !.read = raw] ELSE InspRaises
  /\ Kept /\ UNCHANGED evidenceVars

\* What was read must have the declared fingerprint and be a bool or null.
ReadSource ==
  LET raw == IF "value.json" \in files THEN insp.payload ELSE "other" IN
  /\ insp.at = "read"
  /\ IF raw \notin {"other", "invalid"}
     THEN insp' = [insp EXCEPT !.at = "receive", !.read = raw] ELSE InspRaises
  /\ Kept /\ UNCHANGED evidenceVars

ReceiveInspection ==
  /\ insp.at = "receive"
  /\ Receive(Call1, 0, 0, FALSE) /\ UNCHANGED evidenceTables
  /\ receipt' = insp.read
  /\ insp' = [insp EXCEPT !.at = "confirm", !.response = insp.read]
  /\ UNCHANGED <<files, updates, saved, result>>

PublishInspection ==
  LET op == CurrentPublishReceived(Reader, Call1) IN
  /\ insp.at = "publish"
  /\ \/ op /\ InspGoes("snapshot")
     \/ ~ENABLED op /\ InspRaises /\ UNCHANGED evidenceVars
  /\ Kept

\* _snapshot_readonly selects one table after the other, outside any transaction.
SelectNext ==
  /\ insp.at = "snapshot"
  /\ \E i \in DOMAIN Tables :
       /\ DOMAIN saved = {Tables[j] : j \in 1 .. i - 1}
       /\ saved' = Put(saved, Tables[i], Ledger[Tables[i]])
  /\ UNCHANGED <<evidenceVars, insp, files, receipt, updates, result>>

\* The call of a snapshot.
CallIs(snapshot, state) ==
  \E c \in DOMAIN snapshot.calls.rows : snapshot.calls.rows[c].state = state

\* _result.
ResultOf(plan, snapshot, response, error) ==
  IF snapshot.run.status = "cancelled" THEN [status |-> "CANCELLED", action |-> "abstain"]
  ELSE IF snapshot.artifacts # <<>> /\ ~error
  THEN [status |-> IF response = "unknown" THEN "UNKNOWN" ELSE "COMPLETE",
        action |-> ApplyPlan(plan, response)]
  ELSE [status |-> IF CallIs(snapshot, "dispatched") THEN "UNKNOWN" ELSE "STOPPED",
        action |-> "abstain"]

\* What is saved comes from the snapshot; a receipt that was stored although the driver
\* raised is taken from there.
SaveResult ==
  /\ insp.at = "snapshot" /\ DOMAIN saved = DOMAIN Ledger
  /\ \E plan \in insp.plan :
       LET response == IF insp.response = "none" /\ CallIs(saved, "received")
                       THEN saved.calls.response ELSE insp.response
       IN result' = ResultOf(plan, saved, response, insp.error)
  /\ InspGoes("saved")
  /\ UNCHANGED <<evidenceVars, files, receipt, updates, saved>>

-----------------------------------------------------------------------------
\* Everybody else, as long as there is a ledger; its files matter until they are read

Open == insp.at \notin {"freeze", "frozen", "skipped"}

FileChanges ==
  /\ Open /\ insp.at \notin {"snapshot", "saved"}
  /\ \E f \in files : files' = files \ {f}
  /\ UNCHANGED <<evidenceVars, insp, receipt, updates, saved, result>>

Announce(version, readers, fingerprint) ==
  /\ Open
  /\ SourceUpdate(Source, version, readers, fingerprint)
  /\ updates' = Append(updates, [version |-> version, readers |-> readers, fingerprint |-> fingerprint])
  /\ UNCHANGED <<insp, files, receipt, saved, result>>

Others ==
  /\ Open
  /\ Expire(Item) \/ Recover \/ Cancel
  /\ UNCHANGED <<evidenceTables, insp>> /\ Kept

InspectionNext ==
  \/ Freeze \/ Create \/ ClaimInspection \/ CheckFiles("check", "reserve")
  \/ ReserveInspection \/ DispatchInspection \/ Fence \/ CheckFiles("recheck", "read")
  \/ ReadSource \/ ReceiveInspection \/ CheckFiles("confirm", "publish")
  \/ PublishInspection \/ SelectNext \/ SaveResult
  \/ FileChanges
  \/ \E v \in 1 .. MaxVersion, R \in SUBSET Agent, f \in Fingerprint : Announce(v, R, f)
  \/ Others

InspectionSpec == InspectionInit /\ [][InspectionNext]_inspectionVars

-----------------------------------------------------------------------------
\* replay_inspection

\* _verify_execution, of the journal: updates only move forward, stay within the frozen
\* readers, and the source row is what the last of them says.
UpdatesReplay ==
  LET history == <<Sources[Source]>> \o updates IN
  /\ \A i \in DOMAIN updates :
       /\ history[i + 1].version >= history[i].version
       /\ history[i + 1].readers \subseteq Sources[Source].readers
       /\ history[i + 1].version = history[i].version => history[i + 1].fingerprint = history[i].fingerprint
  /\ sources[Source] = Last(history)
  /\ inspections = Inspections

\* _verify_execution, of the call and the publication.
ExecutionReplays ==
  /\ \A c \in DOMAIN calls : /\ calls[c].work = Item /\ calls[c].epoch = 1
                             /\ calls[c].prompt + calls[c].maximum + calls[c].actual = 0
  /\ \A w \in DOMAIN artifacts : /\ artifacts[w] = [call |-> Call1, publisher |-> Reader]
                                 /\ calls[Call1].state = "received"

\* replay_inspection: the saved snapshot has to be the ledger still; the response is the
\* ledger's, if the call is settled.
Replay ==
  \A plan \in insp.plan :
    IF plan.purchase
    THEN /\ saved = Ledger
         /\ UpdatesReplay /\ ExecutionReplays /\ control <= MaxControl
         /\ LET response == IF CallIs(saved, "received") THEN receipt ELSE "none"
            IN /\ response # "none" => response \in {"yes", "no", "unknown"}
               /\ result = ResultOf(plan, saved, response, insp.error)
    ELSE result = [status |-> "SKIPPED", action |-> plan.stop] /\ saved = <<>>

-----------------------------------------------------------------------------
\* Properties

\* Whatever happens to the source, its readers, its files and the run while it is read,
\* the record an inspection leaves passes its own replay for as long as the ledger is
\* what was saved of it (a snapshot torn by another's commit never is).  And what the
\* record says is true of the ledger even then: it acts on what was read under the
\* declared version, from files that were as frozen when they were read, and was
\* published; it stopped only if nothing was, and was cancelled only if the run is.
InspectionReplays ==
  /\ insp.at = "skipped" => Replay
  /\ insp.at = "saved" =>
       /\ saved = Ledger => Replay
       /\ result.status = "COMPLETE" => receipt = insp.payload /\ artifacts # <<>>
       /\ result.status = "STOPPED" => artifacts = <<>>
       /\ result.status = "CANCELLED" => run.status = "cancelled"
       /\ result.action \in {"accept", "reject"} => result.status = "COMPLETE"

Both(Op(_)) == Op(TRUE) + Op(FALSE)

\* The loss of answering with one action to each outcome, counted over what is true
\* (H or not), whether the source copies, and whether it is right.
MapLoss(c, negative, positive) ==
  LET weight(h, copies, right) ==
        (IF h THEN c.prior ELSE Scale - c.prior)
          * (IF copies THEN c.channel.rho ELSE Scale - c.channel.rho)
          * (IF right THEN c.channel.q ELSE Scale - c.channel.q)
      action(h, copies, right) == IF copies \/ (h <=> right) THEN positive ELSE negative
      loss(h, act) == IF act = "abstain" THEN c.losses.abstain
                      ELSE IF act = "reject" /\ h THEN c.losses.reject
                      ELSE IF act = "accept" /\ ~h THEN c.losses.accept ELSE 0
      world(h, copies, right) == weight(h, copies, right) * loss(h, action(h, copies, right))
  IN c.cost * Scale * Scale * Scale
       + Both(LAMBDA h : Both(LAMBDA copies : Both(LAMBDA right : world(h, copies, right))))

Decisions(m) == Cardinality({i \in {1, 2} : m[i] # "abstain"})

\* The greedy search of the planner finds the map of least loss and, among those, one
\* with the fewest decisions; it buys the read exactly when that beats every answer
\* without one, and otherwise stops with the best of these.
PlanOptimal ==
  insp.at = "frozen" =>
    \A c \in insp.config, plan \in insp.plan :
      LET Choice == Range(Actions)
          maps == Choice \X Choice
          loss(m) == MapLoss(c, m[1], m[2])
          blind(a) == MapLoss(c, a, a) - c.cost * Scale * Scale * Scale
          best == Min({loss(m) : m \in maps})
          chosen == <<plan.negative, plan.positive>>
      IN /\ loss(chosen) = best
         /\ \A m \in maps : loss(m) = best => Decisions(chosen) <= Decisions(m)
         /\ plan.purchase <=> \A a \in Choice : best < blind(a)
         /\ \A a \in Choice : blind(plan.stop) <= blind(a)
=============================================================================
