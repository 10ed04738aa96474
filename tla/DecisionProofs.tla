--------------------------- MODULE DecisionProofs ---------------------------
(***************************************************************************)
(* Theorems about the inspection of a source and about the rules that      *)
(* decide, for any configuration, source and ledger.                       *)
(*                                                                         *)
(* The record of an inspection is replayed from the ledger, the journal of *)
(* updates and the saved result.  ProcessInv says, for every point of the  *)
(* process, what these hold: at most one lease, of the first epoch, one    *)
(* call of no tokens, a receipt that is what was frozen, and a journal     *)
(* whose last entry is the source's row.  RecordInv says what the saved    *)
(* tables still have in common with a ledger that others go on using.      *)
(* They are inductive only together with the ledger's own invariant, which *)
(* carries over because every step of an inspection is one of Evidence     *)
(* (InspectionIsEvidence).                                                 *)
(*                                                                         *)
(* The planner is exact in its integers: divisions leave nothing, so that  *)
(* the terms it compares are one factor times the losses counted world by  *)
(* world, and its greedy search over the two outcomes is a minimum.        *)
(***************************************************************************)
EXTENDS Inspection, Allocation, EvidenceProofs

\* The plan of a configuration.
PlanOf(c) == PlanInspection(c.prior, c.channel, c.losses, c.cost)

Outcome == {"yes", "no", "unknown"}

\* Before the claim, between the claim and the call, between dispatch and receipt, and
\* between the receipt and the publication.
Starting == {"freeze", "frozen", "claim"}
Claimed == {"check", "reserve"}
Reading == {"fence", "recheck", "read", "receive"}
Settled == {"confirm", "publish"}
Over == {"snapshot", "saved", "skipped"}
Stage == Starting \cup Claimed \cup {"dispatch"} \cup Reading \cup Settled \cup Over

\* The types of the process, the receipt and the journal.
ProcessTypeOK ==
  /\ insp \in [at : Stage, config : SUBSET Configs, plan : SUBSET {PlanOf(c) : c \in Configs},
               payload : Outcome \cup {"invalid"}, read : Outcome \cup {"none"},
               response : Outcome \cup {"none"}, error : BOOLEAN]
  /\ receipt \in Outcome \cup {"none"}
  /\ updates \in Seq(SourceRow)
  /\ control \in Nat

\* One configuration, one plan, and nothing is opened but for a purchase.
OnePlan ==
  /\ insp.at \in {"freeze", "frozen"} => \E c \in Configs : insp.config = {c}
  /\ insp.at = "frozen" => insp.plan = {PlanOf(c) : c \in insp.config}
  /\ insp.at # "freeze" => \E c \in Configs : insp.plan = {PlanOf(c)}
  /\ Open => \A plan \in insp.plan : plan.purchase

\* What the ledger holds at each point of the process: one item, one lease, of the first
\* epoch, one call of no tokens.
LedgerAt ==
  /\ DOMAIN work = {Item}
  /\ inspections = Inspections
  /\ insp.at \in Starting =>
       /\ granted = {}
       /\ work[Item].status # "leased"
       /\ work[Item].status = "ready" => work[Item].epoch = 0
  /\ insp.at \notin Starting \cup Over => granted = {InspectionLease}
  /\ insp.at \in Starting \cup Claimed => DOMAIN calls = {}
  /\ insp.at \in {"dispatch"} \cup Reading \cup Settled => DOMAIN calls = {Call1}
  /\ insp.at \in Reading => calls[Call1].state = "dispatched"
  /\ insp.at \in Settled => calls[Call1].state = "received"
  /\ insp.at \notin Over => DOMAIN artifacts = {}

\* What was read is what was frozen, what was received is what was read.
ReceiptFaithful ==
  /\ insp.at = "receive" => insp.read = insp.payload /\ insp.read \in Outcome
  /\ insp.response # "none" =>
       /\ DOMAIN calls # {} /\ calls[Call1].state = "received"
       /\ receipt = insp.response
  /\ DOMAIN calls # {} /\ calls[Call1].state = "received" =>
       receipt = insp.payload /\ receipt \in Outcome

\* What holds of the process and the ledger it uses.
ProcessInv ==
  /\ ProcessTypeOK
  /\ OnePlan
  /\ LedgerAt
  /\ ReceiptFaithful
  /\ UpdatesReplay
  /\ ExecutionReplays
  /\ control <= MaxControl

\* Nothing is published by a process that raised.
ErrorQuiet ==
  /\ insp.at \notin Over => ~insp.error
  /\ insp.error => DOMAIN artifacts = {}

\* What a snapshot keeps in common with the ledger, whatever others do to that later.
SavedFaithful ==
  /\ insp.at \notin {"snapshot", "saved"} => saved = <<>>
  /\ "run" \in DOMAIN saved => (saved.run.status = "cancelled" => run.status = "cancelled")
  /\ "calls" \in DOMAIN saved =>
       /\ saved.calls.response = receipt
       /\ DOMAIN saved.calls.rows = DOMAIN calls
       /\ \A c \in DOMAIN calls :
            saved.calls.rows[c].state = "received" <=> calls[c].state = "received"
  /\ "artifacts" \in DOMAIN saved => saved.artifacts = artifacts

\* The response of a snapshot.
SavedResponse == IF CallIs(saved, "received") THEN saved.calls.response ELSE "none"

\* The result is the one a replay recomputes of the snapshot.
ResultFaithful ==
  /\ insp.at = "skipped" =>
       \A plan \in insp.plan :
         ~plan.purchase /\ result = [status |-> "SKIPPED", action |-> plan.stop]
  /\ insp.at = "saved" =>
       /\ DOMAIN saved = DOMAIN Ledger
       /\ \A plan \in insp.plan : result = ResultOf(plan, saved, SavedResponse, insp.error)

\* What holds of the record.
RecordInv == ErrorQuiet /\ SavedFaithful /\ ResultFaithful

\* What holds of the ledger, the process and the record.
InspectionInv == EvidenceInv /\ ProcessInv /\ RecordInv

-----------------------------------------------------------------------------
\* The inspection uses the ledger as anybody may

\* The item, the reader, the call and the source are the declared ones.
LEMMA Declared ==
  ASSUME InspectionInv
  PROVE  /\ TypeOK
         /\ Item \in DOMAIN work /\ DOMAIN work = {Item}
         /\ DOMAIN inspections = {Item}
         /\ DOMAIN sources = {Source}
         /\ Reader \in Agent /\ Call1 \in CallId /\ CallId = {Call1}
         /\ 0 \in Tokens /\ 0 \in Nat
<1>1. Declaration[Item].agents \in SUBSET Agent
  BY InspectionAssumption, DeclarationAssumption
<1>. QED
  BY <1>1, InspectionAssumption
     DEF InspectionInv, ProcessInv, EvidenceInv, LedgerInv, EvidenceTypeOK, LedgerAt

\* Every step of an inspection is one of the ledger, or leaves it alone.
LEMMA StepIsEvidence ==
  ASSUME InspectionInv, [InspectionNext]_inspectionVars
  PROVE  [EvidenceNext]_evidenceVars
<1>. USE Declared
<1>1. CASE UNCHANGED inspectionVars
  BY <1>1 DEF inspectionVars, evidenceVars
<1>2. CASE \/ Freeze \/ Create \/ Fence \/ ReadSource \/ SelectNext \/ SaveResult
           \/ FileChanges
           \/ CheckFiles("check", "reserve") \/ CheckFiles("recheck", "read")
           \/ CheckFiles("confirm", "publish")
  BY <1>2 DEF Freeze, Create, Fence, ReadSource, SelectNext, SaveResult, FileChanges, CheckFiles
<1>3. CASE ClaimInspection
  <2>1. CASE CountedClaim(Reader, Item)
    BY <2>1 DEF EvidenceNext
  <2>. QED
    BY <1>3, <2>1 DEF ClaimInspection
<1>4. CASE ReserveInspection
  <2>1. InspectionLease \in granted
    BY <1>4 DEF ReserveInspection, InspectionInv, ProcessInv, LedgerAt, Starting, Over
  <2>2. CASE CurrentReserve(InspectionLease, Call1, 0, 0)
    BY <2>1, <2>2 DEF EvidenceNext
  <2>. QED
    BY <1>4, <2>2 DEF ReserveInspection
<1>5. CASE DispatchInspection
  <2>1. InspectionLease \in granted
    BY <1>5 DEF DispatchInspection, InspectionInv, ProcessInv, LedgerAt, Starting, Over
  <2>2. CASE CurrentDispatch(InspectionLease, Call1)
    <3>1. Call1 \in DOMAIN calls
      BY <2>2 DEF CurrentDispatch, Dispatch
    <3>. QED
      BY <2>1, <2>2, <3>1 DEF EvidenceNext
  <2>. QED
    BY <1>5, <2>2 DEF DispatchInspection
<1>6. CASE ReceiveInspection
  <2>1. Receive(Call1, 0, 0, FALSE) /\ UNCHANGED evidenceTables /\ Call1 \in DOMAIN calls
    BY <1>6 DEF ReceiveInspection, Receive
  <2>. QED
    BY <2>1 DEF EvidenceNext
<1>7. CASE PublishInspection
  <2>1. CASE CurrentPublishReceived(Reader, Call1)
    <3>1. Call1 \in DOMAIN calls
      BY <2>1 DEF CurrentPublishReceived, PublishHeld, PublishReclaimed
    <3>. QED
      BY <2>1, <3>1 DEF EvidenceNext
  <2>. QED
    BY <1>7, <2>1 DEF PublishInspection
<1>8. ASSUME NEW v \in 1 .. MaxVersion, NEW R \in SUBSET Agent, NEW f \in Fingerprint,
             Announce(v, R, f)
      PROVE  EvidenceNext
  BY <1>8 DEF Announce, EvidenceNext
<1>9. CASE Others
  BY <1>9 DEF Others, EvidenceNext
<1>. QED
  BY <1>1, <1>2, <1>3, <1>4, <1>5, <1>6, <1>7, <1>8, <1>9 DEF InspectionNext

-----------------------------------------------------------------------------
\* The journal of updates

\* The journal and the source row agree, entry by entry.
LEMMA JournalEntries ==
  ASSUME NEW x \in SourceRow, NEW u \in Seq(SourceRow)
  PROVE  /\ DOMAIN u = 1 .. Len(u) /\ Len(u) \in Nat
         /\ (<<x>> \o u)[1] = x
         /\ \A i \in 1 .. Len(u) : (<<x>> \o u)[i + 1] = u[i]
         /\ Last(<<x>> \o u) = IF Len(u) = 0 THEN x ELSE u[Len(u)]
<1>1. <<x>> \in Seq(SourceRow) /\ Len(<<x>>) = 1 /\ <<x>>[1] = x
  OBVIOUS
<1>2. Len(<<x>> \o u) = Len(u) + 1
  BY <1>1
<1>3. \A i \in 1 .. Len(u) : (<<x>> \o u)[i + 1] = u[i]
  BY <1>1
<1>4. (<<x>> \o u)[1] = x
  BY <1>1
<1>. QED
  BY <1>2, <1>3, <1>4 DEF Last

\* An announcement is one entry more, and moves forward.
LEMMA JournalGrows ==
  ASSUME InspectionInv, NEW v \in 1 .. MaxVersion, NEW R \in SUBSET Agent, NEW f \in Fingerprint,
         Announce(v, R, f)
  PROVE  UpdatesReplay' /\ updates' \in Seq(SourceRow)
<1>. DEFINE row == [version |-> v, readers |-> R, fingerprint |-> f]
            x == Sources[Source]
<1>1. /\ updates' = Append(updates, row)
      /\ v >= sources[Source].version
      /\ v = sources[Source].version => f = sources[Source].fingerprint
      /\ sources' = [sources EXCEPT ![Source] = row]
      /\ UNCHANGED inspections
  BY DEF Announce, SourceUpdate
<1>2. row \in SourceRow /\ x \in SourceRow /\ updates \in Seq(SourceRow) /\ x.readers = Agent
  <2>1. v \in Nat \ {0}
    BY SourceAssumption
  <2>2. Source \in DOMAIN Sources /\ x.readers = Agent
    BY InspectionAssumption
  <2>. QED
    BY <2>1, <2>2, SourceAssumption DEF SourceRow, InspectionInv, ProcessInv, ProcessTypeOK
<1>3. updates' \in Seq(SourceRow) /\ Len(updates') = Len(updates) + 1
      /\ (\A i \in 1 .. Len(updates) : updates'[i] = updates[i])
      /\ updates'[Len(updates) + 1] = row
  BY <1>1, <1>2
<1>4. sources'[Source] = row
  BY <1>1, Declared
<1>5. /\ \A i \in DOMAIN updates :
           /\ updates[i].version >= (<<x>> \o updates)[i].version
           /\ updates[i].readers \subseteq Agent
           /\ updates[i].version = (<<x>> \o updates)[i].version =>
                updates[i].fingerprint = (<<x>> \o updates)[i].fingerprint
      /\ sources[Source] = Last(<<x>> \o updates)
      /\ inspections = Inspections
  <2>1. DOMAIN updates = 1 .. Len(updates) /\ \A i \in DOMAIN updates : (<<x>> \o updates)[i + 1] = updates[i]
    BY <1>2, JournalEntries
  <2>2. UpdatesReplay
    BY DEF InspectionInv, ProcessInv
  <2>. QED
    BY <1>2, <2>1, <2>2 DEF UpdatesReplay
<1>. DEFINE old == <<x>> \o updates
            new == <<x>> \o updates'
<1>6. /\ \A i \in 1 .. Len(updates) : new[i] = old[i]
      /\ new[Len(updates) + 1] = sources[Source]
      /\ Last(new) = row
      /\ Len(updates) \in Nat
      /\ DOMAIN updates = 1 .. Len(updates)
      /\ DOMAIN updates' = 1 .. Len(updates) + 1
      /\ \A i \in DOMAIN updates' : new[i + 1] = updates'[i]
  <2>1. ASSUME NEW i \in 1 .. Len(updates) PROVE new[i] = old[i]
    <3>1. CASE i = 1
      BY <1>2, <1>3, <3>1, JournalEntries
    <3>2. CASE i # 1
      <4>1. i - 1 \in 1 .. Len(updates) /\ i - 1 \in 1 .. Len(updates') /\ (i - 1) + 1 = i
        BY <1>2, <1>3, <3>2, JournalEntries
      <4>2. new[(i - 1) + 1] = updates'[i - 1] /\ old[(i - 1) + 1] = updates[i - 1]
        BY <1>2, <1>3, <4>1, JournalEntries
      <4>. QED
        BY <1>3, <4>1, <4>2
    <3>. QED
      BY <3>1, <3>2
  <2>2. Len(updates) \in Nat /\ DOMAIN updates = 1 .. Len(updates)
        /\ DOMAIN updates' = 1 .. Len(updates) + 1
    BY <1>2, <1>3, JournalEntries
  <2>3. \A i \in DOMAIN updates' : new[i + 1] = updates'[i]
    BY <1>2, <1>3, JournalEntries
  <2>4. Last(new) = row
    BY <1>2, <1>3, <2>2, JournalEntries
  <2>5. new[Len(updates) + 1] = sources[Source]
    <3>1. CASE Len(updates) = 0
      <4>1. new[1] = x /\ Last(old) = x
        BY <1>2, <1>3, <3>1, JournalEntries
      <4>. QED
        BY <1>5, <3>1, <4>1
    <3>2. CASE Len(updates) # 0
      <4>1. Len(updates) \in DOMAIN updates' /\ Len(updates) \in 1 .. Len(updates)
        BY <2>2, <3>2
      <4>2. new[Len(updates) + 1] = updates[Len(updates)]
        BY <1>3, <2>3, <4>1
      <4>. QED
        BY <1>2, <1>5, <3>2, <4>2, JournalEntries
    <3>. QED
      BY <3>1, <3>2
  <2>. QED
    BY <2>1, <2>2, <2>3, <2>4, <2>5
<1>7. ASSUME NEW i \in DOMAIN updates'
      PROVE  /\ new[i + 1].version >= new[i].version
             /\ new[i + 1].readers \subseteq Agent
             /\ new[i + 1].version = new[i].version => new[i + 1].fingerprint = new[i].fingerprint
  <2>. HIDE DEF old, new
  <2>1. CASE i \in 1 .. Len(updates)
    <3>1. new[i + 1] = updates[i] /\ new[i] = old[i] /\ i \in DOMAIN updates
      BY <1>3, <1>6, <2>1
    <3>. QED
      BY <1>5, <3>1 DEF old
  <2>2. CASE i = Len(updates) + 1
    <3>1. new[i + 1] = row /\ new[i] = sources[Source]
      BY <1>3, <1>6, <2>2
    <3>. QED
      BY <1>1, <3>1
  <2>. QED
    BY <1>6, <2>1, <2>2
<1>. QED
  <2>1. Sources[Source].readers = Agent
    BY <1>2
  <2>. QED
    BY <1>1, <1>3, <1>4, <1>5, <1>6, <1>7, <2>1 DEF UpdatesReplay

-----------------------------------------------------------------------------
\* Steps of the process alone

\* The process, as a record of its parts.
LEMMA ProcessRecord ==
  ASSUME ProcessTypeOK
  PROVE  /\ insp = [at |-> insp.at, config |-> insp.config, plan |-> insp.plan,
                    payload |-> insp.payload, read |-> insp.read,
                    response |-> insp.response, error |-> insp.error]
         /\ insp.at \in Stage /\ insp.config \in SUBSET Configs
         /\ insp.plan \in SUBSET {PlanOf(c) : c \in Configs}
         /\ insp.payload \in Outcome \cup {"invalid"}
         /\ insp.read \in Outcome \cup {"none"}
         /\ insp.response \in Outcome \cup {"none"}
         /\ insp.error \in BOOLEAN
BY DEF ProcessTypeOK

\* The ledger, the journal and the receipt are as they were: so is what is said of them.
LEMMA RecordSame ==
  ASSUME ProcessInv, UNCHANGED <<evidenceVars, receipt, updates>>
  PROVE  UpdatesReplay' /\ ExecutionReplays' /\ control' <= MaxControl
BY DEF ProcessInv, UpdatesReplay, ExecutionReplays, evidenceVars, evidenceTables, vars

\* From the freeze of the plan to the end of the checks, the ledger keeps what the stage
\* before says of it.
Onward(from, to) ==
  \/ from \in Starting \ {"claim"} /\ to \in {"frozen", "claim"}
  \/ from = "check" /\ to = "reserve"
  \/ from \in Reading /\ to \in Reading \cup {"receive"}
  \/ from \in Settled /\ to \in Settled
  \/ to \in Over

\* A step of the process that reads nothing new and receives nothing.
LEMMA ProcessStep ==
  ASSUME InspectionInv, UNCHANGED <<evidenceVars, receipt, updates>>,
         ProcessTypeOK', insp'.payload = insp.payload, insp'.response = insp.response,
         Onward(insp.at, insp'.at),
         insp'.at = "receive" => insp'.read = insp.payload /\ insp'.read \in Outcome
  PROVE  LedgerAt' /\ ReceiptFaithful' /\ UpdatesReplay' /\ ExecutionReplays' /\ control' <= MaxControl
<1>. USE DEF InspectionInv, ProcessInv
<1>1. UpdatesReplay' /\ ExecutionReplays' /\ control' <= MaxControl
  BY RecordSame
<1>2. UNCHANGED <<work, calls, artifacts, granted, inspections, receipt>>
  BY DEF evidenceVars, evidenceTables, vars
<1>3. LedgerAt'
  BY <1>2 DEF LedgerAt, Onward, Starting, Claimed, Reading, Settled, Over
<1>4. ReceiptFaithful'
  BY <1>2 DEF ReceiptFaithful
<1>. QED
  BY <1>1, <1>3, <1>4

\* The plan is made of the configuration.
LEMMA FreezeStep == ASSUME InspectionInv, Freeze PROVE ProcessInv'
<1>. USE DEF InspectionInv, ProcessInv
<1>1. /\ insp.at = "freeze" /\ UNCHANGED <<evidenceVars, files, receipt, updates, result>>
      /\ insp' = [insp EXCEPT !.at = "frozen", !.plan = {PlanOf(c) : c \in insp.config}]
  BY DEF Freeze, Kept, PlanOf
<1>2. PICK c \in Configs : insp.config = {c}
  BY <1>1 DEF OnePlan
<1>3. /\ insp'.at = "frozen" /\ insp'.config = {c} /\ insp'.plan = {PlanOf(c)}
      /\ insp'.payload = insp.payload /\ insp'.response = insp.response
      /\ insp'.read = insp.read /\ insp'.error = insp.error
      /\ insp'.plan = {PlanOf(d) : d \in insp'.config}
  BY <1>1, <1>2, ProcessRecord
<1>4. ProcessTypeOK'
  <2>1. insp' \in [at : Stage, config : SUBSET Configs, plan : SUBSET {PlanOf(d) : d \in Configs},
                   payload : Outcome \cup {"invalid"}, read : Outcome \cup {"none"},
                   response : Outcome \cup {"none"}, error : BOOLEAN]
    BY <1>1, <1>2, <1>3, ProcessRecord DEF Stage, Starting
  <2>. QED
    BY <1>1, <2>1 DEF ProcessTypeOK, evidenceVars, evidenceTables
<1>5. OnePlan'
  BY <1>3 DEF OnePlan, Open
<1>6. Onward(insp.at, insp'.at)
  BY <1>1, <1>3 DEF Onward, Starting
<1>. QED
  BY <1>1, <1>3, <1>4, <1>5, <1>6, ProcessStep

\* Going on, or raising, once the ledger is open.
Moves == \/ \E to \in Stage \ {"freeze", "frozen", "saved", "skipped"} : InspGoes(to)
         \/ InspRaises

Moved ==
  /\ insp' \in [at : Stage, config : SUBSET Configs, plan : SUBSET {PlanOf(d) : d \in Configs},
                payload : Outcome \cup {"invalid"}, read : Outcome \cup {"none"},
                response : Outcome \cup {"none"}, error : BOOLEAN]
  /\ insp'.plan = insp.plan /\ insp'.payload = insp.payload /\ insp'.read = insp.read
  /\ insp'.response = insp.response
  /\ insp'.at \in Stage \ {"freeze", "frozen", "saved", "skipped"}
  /\ InspRaises => insp'.at = "snapshot"

\* Going on keeps the configuration, the plan and what was read.
LEMMA MovedProcess ==
  ASSUME ProcessTypeOK, OnePlan, Open, Moves
  PROVE  Moved /\ OnePlan'
<1>1. ASSUME InspRaises PROVE Moved
  BY <1>1, ProcessRecord DEF Moved, InspRaises, Stage, Over
<1>2. ASSUME NEW to \in Stage \ {"freeze", "frozen", "saved", "skipped"}, InspGoes(to), ~InspRaises
      PROVE  Moved
  BY <1>2, ProcessRecord DEF Moved, InspGoes
<1>3. Moved
  BY <1>1, <1>2 DEF Moves
<1>4. OnePlan'
  BY <1>3 DEF Moved, OnePlan, Open
<1>. QED
  BY <1>3, <1>4

\* Such a step that leaves the ledger alone.
LEMMA MoveStep ==
  ASSUME InspectionInv, Open, Moves, UNCHANGED <<evidenceVars, receipt, updates>>,
         Onward(insp.at, insp'.at), insp'.at # "receive"
  PROVE  ProcessInv'
<1>. USE DEF InspectionInv, ProcessInv
<1>1. ProcessTypeOK'
  BY MovedProcess DEF Moved, ProcessTypeOK, evidenceVars, evidenceTables
<1>. QED
  BY <1>1, MovedProcess, ProcessStep DEF Moved

\* Raising.
LEMMA RaiseStep ==
  ASSUME InspectionInv, Open, InspRaises, UNCHANGED <<evidenceVars, receipt, updates>>
  PROVE  ProcessInv'
BY MovedProcess, MoveStep DEF InspectionInv, ProcessInv, Moves, Moved, Onward, Over

\* The checks of files, of the lease and of the source.
LEMMA CheckStep ==
  ASSUME InspectionInv, NEW at, NEW to, CheckFiles(at, to), to \in Stage,
         <<at, to>> \in {<<"check", "reserve">>, <<"recheck", "read">>, <<"confirm", "publish">>}
  PROVE  ProcessInv'
<1>1. insp.at = at /\ UNCHANGED <<evidenceVars, receipt, updates>>
  BY DEF CheckFiles, Kept
<1>2. Open
  BY <1>1 DEF Open
<1>3. CASE InspRaises
  BY <1>1, <1>2, <1>3, RaiseStep
<1>4. CASE InspGoes(to)
  <2>1. insp'.at = to
    BY <1>4, ProcessRecord DEF InspGoes, InspectionInv, ProcessInv
  <2>. QED
    BY <1>1, <1>2, <1>4, <2>1, MoveStep DEF Moves, Onward, Starting, Reading, Settled, Over
<1>. QED
  BY <1>3, <1>4 DEF CheckFiles

\* The lease and the source are checked before the read.
LEMMA FenceStep == ASSUME InspectionInv, Fence PROVE ProcessInv'
<1>1. insp.at = "fence" /\ UNCHANGED <<evidenceVars, receipt, updates>>
  BY DEF Fence, Kept
<1>2. Open
  BY <1>1 DEF Open
<1>3. CASE InspRaises
  BY <1>1, <1>2, <1>3, RaiseStep
<1>4. CASE InspGoes("recheck")
  <2>1. insp'.at = "recheck"
    BY <1>4, ProcessRecord DEF InspGoes, InspectionInv, ProcessInv
  <2>. QED
    BY <1>1, <1>2, <1>4, <2>1, MoveStep DEF Moves, Onward, Stage, Starting, Reading, Settled, Over
<1>. QED
  BY <1>3, <1>4 DEF Fence

\* What is read is the frozen payload.
LEMMA ReadStep == ASSUME InspectionInv, ReadSource PROVE ProcessInv'
<1>. USE DEF InspectionInv, ProcessInv
<1>. DEFINE raw == IF "value.json" \in files THEN insp.payload ELSE "other"
<1>1. /\ insp.at = "read" /\ UNCHANGED <<evidenceVars, receipt, updates>>
      /\ IF raw \notin {"other", "invalid"}
         THEN insp' = [insp EXCEPT !.at = "receive", !.read = raw] ELSE InspRaises
  BY DEF ReadSource, Kept
<1>2. Open
  BY <1>1 DEF Open
<1>3. CASE InspRaises
  BY <1>1, <1>2, <1>3, RaiseStep
<1>4. CASE raw \notin {"other", "invalid"} /\ insp' = [insp EXCEPT !.at = "receive", !.read = raw]
  <2>1. raw = insp.payload /\ raw \in Outcome
    BY <1>4, ProcessRecord
  <2>2. /\ insp' \in [at : Stage, config : SUBSET Configs, plan : SUBSET {PlanOf(d) : d \in Configs},
                      payload : Outcome \cup {"invalid"}, read : Outcome \cup {"none"},
                      response : Outcome \cup {"none"}, error : BOOLEAN]
        /\ insp'.plan = insp.plan /\ insp'.payload = insp.payload /\ insp'.read = insp.payload
        /\ insp'.response = insp.response /\ insp'.at = "receive"
    BY <1>4, <2>1, ProcessRecord DEF Stage, Reading
  <2>3. ProcessTypeOK'
    BY <1>1, <2>2 DEF ProcessTypeOK, evidenceVars, evidenceTables
  <2>4. OnePlan'
    BY <1>1, <1>2, <2>2 DEF OnePlan, Open
  <2>5. Onward(insp.at, insp'.at)
    BY <1>1, <2>2 DEF Onward, Reading
  <2>. QED
    BY <1>1, <2>1, <2>2, <2>3, <2>4, <2>5, ProcessStep
<1>. QED
  BY <1>1, <1>3, <1>4

\* The ledger is created for a purchase; without one the stop action is the result.
LEMMA CreateStep == ASSUME InspectionInv, Create PROVE ProcessInv'
<1>. USE DEF InspectionInv, ProcessInv
<1>1. insp.at = "frozen" /\ UNCHANGED <<evidenceVars, files, receipt, updates>>
  BY DEF Create
<1>2. PICK c \in Configs : insp.plan = {PlanOf(c)}
  BY <1>1 DEF OnePlan
<1>. DEFINE plan == PlanOf(c)
<1>. HIDE DEF plan
<1>3. insp.plan = {plan}
  BY <1>2 DEF plan
<1>4. IF plan.purchase
      THEN insp' = [insp EXCEPT !.at = "claim", !.config = {}] /\ UNCHANGED result
      ELSE /\ insp' = [insp EXCEPT !.at = "skipped", !.config = {}]
           /\ result' = [status |-> "SKIPPED", action |-> plan.stop]
  BY <1>3 DEF Create
<1>5. /\ insp' \in [at : Stage, config : SUBSET Configs, plan : SUBSET {PlanOf(d) : d \in Configs},
                    payload : Outcome \cup {"invalid"}, read : Outcome \cup {"none"},
                    response : Outcome \cup {"none"}, error : BOOLEAN]
      /\ insp'.plan = insp.plan /\ insp'.payload = insp.payload /\ insp'.read = insp.read
      /\ insp'.response = insp.response
      /\ plan.purchase => insp'.at = "claim"
      /\ ~plan.purchase => insp'.at = "skipped"
  <2>1. CASE plan.purchase
    <3>1. insp' = [insp EXCEPT !.at = "claim", !.config = {}]
      BY <1>4, <2>1
    <3>. QED
      BY <2>1, <3>1, ProcessRecord DEF Stage, Starting
  <2>2. CASE ~plan.purchase
    <3>1. /\ insp' = [insp EXCEPT !.at = "skipped", !.config = {}]
          /\ result' = [status |-> "SKIPPED", action |-> plan.stop]
      BY <1>4, <2>2
    <3>. QED
      BY <2>2, <3>1, ProcessRecord DEF Stage, Over
  <2>. QED
    BY <2>1, <2>2
<1>6. ProcessTypeOK'
  BY <1>1, <1>5 DEF ProcessTypeOK, evidenceVars, evidenceTables
<1>7. OnePlan'
  BY <1>2, <1>3, <1>5 DEF OnePlan, Open
<1>8. Onward(insp.at, insp'.at) /\ insp'.at # "receive"
  BY <1>1, <1>5 DEF Onward, Starting, Over
<1>. QED
  BY <1>1, <1>5, <1>6, <1>7, <1>8, ProcessStep

\* The snapshot is taken and the record saved; the ledger is left alone.
LEMMA SaveStep == ASSUME InspectionInv, SelectNext \/ SaveResult PROVE ProcessInv'
<1>. USE DEF InspectionInv, ProcessInv
<1>1. /\ insp.at = "snapshot" /\ UNCHANGED <<evidenceVars, receipt, updates>>
      /\ insp' = insp \/ insp' = [insp EXCEPT !.at = "saved"]
  BY DEF SelectNext, SaveResult, InspGoes
<1>2. /\ insp' \in [at : Stage, config : SUBSET Configs, plan : SUBSET {PlanOf(d) : d \in Configs},
                    payload : Outcome \cup {"invalid"}, read : Outcome \cup {"none"},
                    response : Outcome \cup {"none"}, error : BOOLEAN]
      /\ insp'.plan = insp.plan /\ insp'.payload = insp.payload /\ insp'.response = insp.response
      /\ insp'.at \in {"snapshot", "saved"}
  BY <1>1, ProcessRecord DEF Stage, Over
<1>3. ProcessTypeOK'
  BY <1>1, <1>2 DEF ProcessTypeOK, evidenceVars, evidenceTables
<1>4. OnePlan'
  BY <1>1, <1>2 DEF OnePlan, Open
<1>5. Onward(insp.at, insp'.at) /\ insp'.at # "receive"
  BY <1>1, <1>2 DEF Onward, Over
<1>. QED
  BY <1>1, <1>2, <1>3, <1>4, <1>5, ProcessStep

\* A source file is changed.
LEMMA FilesStep == ASSUME InspectionInv, FileChanges PROVE ProcessInv'
BY DEF FileChanges, InspectionInv, ProcessInv, ProcessTypeOK, OnePlan, Open, LedgerAt,
       ReceiptFaithful, UpdatesReplay, ExecutionReplays,
       evidenceVars, evidenceTables, vars

-----------------------------------------------------------------------------
\* Steps that use the ledger

\* What none of them touches.
LEMMA UsedLedger ==
  ASSUME InspectionInv, Open, Moves, UNCHANGED <<sources, inspections, updates, receipt>>,
         control' = control \/ (\E n \in {0, 1} : Control(n))
  PROVE  /\ ProcessTypeOK' /\ OnePlan' /\ UpdatesReplay'
         /\ control' <= MaxControl
<1>. USE DEF InspectionInv, ProcessInv
<1>1. control' \in Nat /\ control' <= MaxControl
  BY SourceAssumption DEF Control, ProcessTypeOK
<1>2. ProcessTypeOK'
  BY <1>1, MovedProcess DEF Moved, ProcessTypeOK
<1>3. UpdatesReplay'
  BY DEF UpdatesReplay
<1>. QED
  BY <1>1, <1>2, <1>3, MovedProcess

\* The claim: the first of the item, or none.
LEMMA ClaimStep == ASSUME InspectionInv, ClaimInspection PROVE ProcessInv'
<1>. USE DEF InspectionInv, ProcessInv
<1>. USE Declared
<1>1. insp.at = "claim" /\ UNCHANGED <<files, receipt, updates, saved, result>> /\ Open
  BY DEF ClaimInspection, Kept, Open
<1>2. CASE InspRaises /\ UNCHANGED evidenceVars
  BY <1>1, <1>2, RaiseStep
<1>3. CASE CountedClaim(Reader, Item) /\ InspGoes("check")
  <2>1. /\ Claim(Reader, Item) /\ Control(1) /\ UNCHANGED <<sources, inspections>>
    BY <1>3 DEF CountedClaim
  <2>2. insp'.at = "check" /\ insp'.response = insp.response /\ Moves
    BY <1>3, ProcessRecord DEF InspGoes, Moves, Stage, Claimed
  <2>3. /\ granted = {} /\ work[Item].status # "leased" /\ DOMAIN calls = {} /\ DOMAIN artifacts = {}
        /\ work[Item].status = "ready" => work[Item].epoch = 0
    BY <1>1 DEF LedgerAt, Starting, Over
  <2>4. Item \notin Expired
    BY <2>3 DEF Expired
  <2>5. RecoveredWork[Item] = work[Item] /\ DOMAIN RecoveredWork = {Item}
    BY <2>4, RecoveredRows
  <2>6. work[Item].epoch = 0
    BY <2>1, <2>3, <2>5 DEF Claim, Claimable
  <2>7. granted' = {InspectionLease}
    BY <2>1, <2>3, <2>6 DEF Claim, InspectionLease
  <2>8. DOMAIN work' = {Item} /\ DOMAIN calls' = {} /\ UNCHANGED artifacts
    BY <2>1, <2>3, <2>5, AbandonedCalls DEF Claim
  <2>9. LedgerAt'
    BY <2>1, <2>2, <2>3, <2>7, <2>8
       DEF LedgerAt, Starting, Claimed, Reading, Settled, Over
  <2>10. ReceiptFaithful' /\ ExecutionReplays'
    BY <1>1, <2>2, <2>3, <2>8 DEF ReceiptFaithful, ExecutionReplays
  <2>. QED
    BY <1>1, <2>1, <2>2, <2>9, <2>10, UsedLedger
<1>. QED
  BY <1>2, <1>3 DEF ClaimInspection

\* The only reservation, of no tokens.
LEMMA ReserveStep == ASSUME InspectionInv, ReserveInspection PROVE ProcessInv'
<1>. USE DEF InspectionInv, ProcessInv
<1>. USE Declared
<1>1. insp.at = "reserve" /\ UNCHANGED <<files, receipt, updates, saved, result>> /\ Open
  BY DEF ReserveInspection, Kept, Open
<1>2. CASE InspRaises /\ UNCHANGED evidenceVars
  BY <1>1, <1>2, RaiseStep
<1>3. CASE CurrentReserve(InspectionLease, Call1, 0, 0) /\ InspGoes("dispatch")
  <2>1. /\ Reserve(InspectionLease, Call1, 0, 0) /\ UNCHANGED <<sources, inspections, control>>
    BY <1>3 DEF CurrentReserve, evidenceTables
  <2>2. insp'.at = "dispatch" /\ insp'.response = insp.response /\ Moves
    BY <1>3, ProcessRecord DEF InspGoes, Moves, Stage
  <2>3. granted = {InspectionLease} /\ DOMAIN calls = {} /\ DOMAIN artifacts = {}
    BY <1>1 DEF LedgerAt, Starting, Claimed, Over
  <2>4. calls' = Put(calls, Call1, [work |-> Item, epoch |-> 1, prompt |-> 0, maximum |-> 0,
                                    state |-> "reserved", actual |-> 0])
        /\ UNCHANGED <<run, work, artifacts, granted>>
    BY <2>1 DEF Reserve, InspectionLease
  <2>5. /\ DOMAIN calls' = {Call1}
        /\ calls'[Call1] = [work |-> Item, epoch |-> 1, prompt |-> 0, maximum |-> 0,
                            state |-> "reserved", actual |-> 0]
    BY <2>3, <2>4 DEF Put
  <2>6. LedgerAt'
    BY <2>1, <2>2, <2>3, <2>4, <2>5
       DEF LedgerAt, InspectionLease, Starting, Claimed, Reading, Settled, Over
  <2>7. ReceiptFaithful'
    BY <1>1, <2>2, <2>3, <2>5 DEF ReceiptFaithful
  <2>8. ExecutionReplays'
    BY <2>3, <2>4, <2>5 DEF ExecutionReplays
  <2>. QED
    BY <1>1, <2>1, <2>2, <2>6, <2>7, <2>8, UsedLedger
<1>. QED
  BY <1>2, <1>3 DEF ReserveInspection

\* The call is dispatched once.
LEMMA DispatchStep == ASSUME InspectionInv, DispatchInspection PROVE ProcessInv'
<1>. USE DEF InspectionInv, ProcessInv
<1>. USE Declared
<1>1. insp.at = "dispatch" /\ UNCHANGED <<files, receipt, updates, saved, result>> /\ Open
  BY DEF DispatchInspection, Kept, Open
<1>2. CASE InspRaises /\ UNCHANGED evidenceVars
  BY <1>1, <1>2, RaiseStep
<1>3. CASE CurrentDispatch(InspectionLease, Call1) /\ InspGoes("fence")
  <2>1. /\ Dispatch(InspectionLease, Call1) /\ UNCHANGED <<sources, inspections, control>>
    BY <1>3 DEF CurrentDispatch, evidenceTables
  <2>2. insp'.at = "fence" /\ insp'.response = insp.response /\ Moves
    BY <1>3, ProcessRecord DEF InspGoes, Moves, Stage, Reading
  <2>3. granted = {InspectionLease} /\ DOMAIN calls = {Call1} /\ DOMAIN artifacts = {}
    BY <1>1 DEF LedgerAt, Starting, Over
  <2>4. /\ calls' = [calls EXCEPT ![Call1].state = "dispatched"]
        /\ calls[Call1].state = "reserved" /\ UNCHANGED <<run, work, artifacts, granted>>
        /\ calls[Call1] \in Call
    BY <2>1, <2>3 DEF Dispatch, TypeOK
  <2>5. /\ DOMAIN calls' = {Call1} /\ calls'[Call1].state = "dispatched"
        /\ calls'[Call1].work = calls[Call1].work /\ calls'[Call1].epoch = calls[Call1].epoch
        /\ calls'[Call1].prompt = calls[Call1].prompt /\ calls'[Call1].maximum = calls[Call1].maximum
        /\ calls'[Call1].actual = calls[Call1].actual
    BY <2>3, <2>4 DEF Call
  <2>6. LedgerAt'
    BY <2>1, <2>2, <2>3, <2>4, <2>5
       DEF LedgerAt, InspectionLease, Starting, Claimed, Reading, Settled, Over
  <2>7. ReceiptFaithful'
    BY <1>1, <2>2, <2>3, <2>4, <2>5 DEF ReceiptFaithful
  <2>8. ExecutionReplays'
    BY <2>3, <2>4, <2>5 DEF ExecutionReplays
  <2>. QED
    BY <1>1, <2>1, <2>2, <2>6, <2>7, <2>8, UsedLedger
<1>. QED
  BY <1>2, <1>3 DEF DispatchInspection

\* Abandoned or not, a call keeps its work, its epoch and its missing tokens.
LEMMA CallsReplay ==
  ASSUME TypeOK, ExecutionReplays, calls' = calls \/ \E W : calls' = Abandon(W)
  PROVE  /\ DOMAIN calls' = DOMAIN calls
         /\ \A c \in DOMAIN calls :
              /\ calls'[c].work = Item /\ calls'[c].epoch = 1
              /\ calls'[c].prompt + calls'[c].maximum + calls'[c].actual = 0
              /\ calls[c].state # "reserved" => calls'[c].state = calls[c].state
              /\ calls'[c].state # calls[c].state => calls'[c].state = "abandoned"
<1>1. CASE calls' = calls
  BY <1>1 DEF ExecutionReplays
<1>2. ASSUME NEW W, calls' = Abandon(W), NEW c \in DOMAIN calls
      PROVE  /\ calls'[c].work = Item /\ calls'[c].epoch = 1
             /\ calls'[c].prompt + calls'[c].maximum + calls'[c].actual = 0
             /\ calls[c].state # "reserved" => calls'[c].state = calls[c].state
             /\ calls'[c].state # calls[c].state => calls'[c].state = "abandoned"
  <2>1. calls[c] \in Call
    BY DEF TypeOK
  <2>2. /\ calls[c].work = Item /\ calls[c].epoch = 1
        /\ calls[c].prompt + calls[c].maximum + calls[c].actual = 0
    BY DEF ExecutionReplays
  <2>3. calls'[c] = IF calls[c].work \in W /\ calls[c].state = "reserved"
                    THEN [calls[c] EXCEPT !.state = "abandoned", !.actual = 0]
                    ELSE calls[c]
    BY <1>2 DEF Abandon
  <2>4. calls[c].prompt \in Nat /\ calls[c].maximum \in Nat /\ calls[c].actual \in Nat
    BY <2>1 DEF Call
  <2>. QED
    BY <2>1, <2>2, <2>3, <2>4 DEF Call
<1>3. DOMAIN calls' = DOMAIN calls
  BY AbandonedCalls
<1>. QED
  BY <1>1, <1>2, <1>3

\* The receipt is what was read, and that is what was frozen.
LEMMA ReceiveStep == ASSUME InspectionInv, ReceiveInspection PROVE ProcessInv'
<1>. USE DEF InspectionInv, ProcessInv
<1>. USE Declared
<1>1. /\ insp.at = "receive" /\ UNCHANGED <<files, updates, result>>
      /\ Receive(Call1, 0, 0, FALSE) /\ UNCHANGED evidenceTables
      /\ receipt' = insp.read
      /\ insp' = [insp EXCEPT !.at = "confirm", !.response = insp.read]
  BY DEF ReceiveInspection
<1>2. insp.read = insp.payload /\ insp.read \in Outcome
  BY <1>1 DEF ReceiptFaithful
<1>3. /\ insp' \in [at : Stage, config : SUBSET Configs, plan : SUBSET {PlanOf(d) : d \in Configs},
                    payload : Outcome \cup {"invalid"}, read : Outcome \cup {"none"},
                    response : Outcome \cup {"none"}, error : BOOLEAN]
      /\ insp'.plan = insp.plan /\ insp'.payload = insp.payload
      /\ insp'.response = insp.payload /\ insp'.at = "confirm"
  BY <1>1, <1>2, ProcessRecord DEF Stage, Settled
<1>4. granted = {InspectionLease} /\ DOMAIN calls = {Call1} /\ DOMAIN artifacts = {}
  BY <1>1 DEF LedgerAt, Starting, Reading, Over
<1>5. /\ calls' = [calls EXCEPT ![Call1].state = "received", ![Call1].actual = 0]
      /\ DOMAIN work' = DOMAIN work
      /\ UNCHANGED <<artifacts, granted>>
  <2>1. 0 + 0 = 0
    OBVIOUS
  <2>. QED
    BY <1>1, <2>1 DEF Receive, Settle
<1>6. calls[Call1] \in Call
  BY <1>4 DEF TypeOK
<1>7. /\ DOMAIN calls' = {Call1} /\ calls'[Call1].state = "received"
      /\ calls'[Call1].work = calls[Call1].work /\ calls'[Call1].epoch = calls[Call1].epoch
      /\ calls'[Call1].prompt = calls[Call1].prompt /\ calls'[Call1].maximum = calls[Call1].maximum
      /\ calls'[Call1].actual = 0
  BY <1>4, <1>5, <1>6 DEF Call
<1>8. ProcessTypeOK'
  BY <1>1, <1>2, <1>3 DEF ProcessTypeOK, evidenceTables
<1>9. OnePlan'
  BY <1>1, <1>3 DEF OnePlan, Open
<1>10. LedgerAt'
  BY <1>1, <1>3, <1>4, <1>5, <1>7
     DEF LedgerAt, InspectionLease, evidenceTables, Starting, Claimed, Reading, Settled, Over
<1>11. ReceiptFaithful'
  BY <1>1, <1>2, <1>3, <1>7 DEF ReceiptFaithful
<1>12. ExecutionReplays'
  <2>1. calls[Call1].prompt \in Nat /\ calls[Call1].maximum \in Nat /\ calls[Call1].actual \in Nat
    BY <1>6 DEF Call
  <2>2. /\ calls[Call1].work = Item /\ calls[Call1].epoch = 1
        /\ calls[Call1].prompt + calls[Call1].maximum + calls[Call1].actual = 0
    BY <1>4 DEF ExecutionReplays
  <2>3. calls'[Call1].prompt + calls'[Call1].maximum + calls'[Call1].actual = 0
    BY <1>7, <2>1, <2>2
  <2>. QED
    BY <1>4, <1>5, <1>7, <2>2, <2>3 DEF ExecutionReplays
<1>13. UpdatesReplay' /\ control' <= MaxControl
  BY <1>1 DEF UpdatesReplay, evidenceTables
<1>. QED
  BY <1>8, <1>9, <1>10, <1>11, <1>12, <1>13

\* The publication, by either way, of the call as it was received.
LEMMA PublishStep == ASSUME InspectionInv, PublishInspection PROVE ProcessInv'
<1>. USE DEF InspectionInv, ProcessInv
<1>. USE Declared
<1>1. insp.at = "publish" /\ UNCHANGED <<files, receipt, updates, saved, result>> /\ Open
  BY DEF PublishInspection, Kept, Open
<1>2. CASE InspRaises /\ UNCHANGED evidenceVars
  BY <1>1, <1>2, RaiseStep
<1>3. CASE CurrentPublishReceived(Reader, Call1) /\ InspGoes("snapshot")
  <2>1. /\ PublishHeld(Reader, Call1) \/ PublishReclaimed(Reader, Call1)
        /\ \E n \in {0, 1} : Control(n)
        /\ UNCHANGED <<sources, inspections>>
    BY <1>3 DEF CurrentPublishReceived
  <2>2. insp'.at = "snapshot" /\ insp'.response = insp.response /\ insp'.payload = insp.payload /\ Moves
    BY <1>3, ProcessRecord DEF InspGoes, Moves, Stage, Over
  <2>3. /\ granted = {InspectionLease} /\ DOMAIN calls = {Call1} /\ DOMAIN artifacts = {}
        /\ calls[Call1].state = "received" /\ calls[Call1].work = Item
    BY <1>1 DEF LedgerAt, ExecutionReplays, Starting, Settled, Over
  <2>4. \E rows : DOMAIN rows = {Item} /\ RecordArtifact(rows, Item, Reader, Call1, Expired)
    <3>1. DOMAIN RecoveredWork = {Item}
      BY RecoveredRows
    <3>2. DOMAIN [RecoveredWork EXCEPT ![Item] = Leased(@, Reader)] = {Item}
      BY <3>1
    <3>. QED
      BY <2>1, <2>3, <3>1, <3>2 DEF PublishHeld, PublishReclaimed
  <2>5. /\ artifacts' = Put(artifacts, Item, [call |-> Call1, publisher |-> Reader])
        /\ calls' = Abandon(Expired \cup {Item})
        /\ DOMAIN work' = {Item}
        /\ UNCHANGED granted
    BY <2>4 DEF RecordArtifact
  <2>6. DOMAIN artifacts' = {Item} /\ artifacts'[Item] = [call |-> Call1, publisher |-> Reader]
    BY <2>3, <2>5 DEF Put
  <2>7. /\ DOMAIN calls' = {Call1} /\ calls'[Call1].state = "received"
        /\ calls'[Call1].work = Item /\ calls'[Call1].epoch = 1
        /\ calls'[Call1].prompt + calls'[Call1].maximum + calls'[Call1].actual = 0
    BY <2>3, <2>5, CallsReplay
  <2>8. LedgerAt'
    BY <2>1, <2>2, <2>5 DEF LedgerAt, Starting, Claimed, Reading, Settled, Over
  <2>9. ReceiptFaithful'
    BY <1>1, <2>2, <2>3, <2>7 DEF ReceiptFaithful
  <2>10. ExecutionReplays'
    BY <2>6, <2>7 DEF ExecutionReplays
  <2>. QED
    BY <1>1, <2>1, <2>2, <2>8, <2>9, <2>10, UsedLedger
<1>. QED
  BY <1>2, <1>3 DEF PublishInspection

-----------------------------------------------------------------------------
\* Everybody else

\* Whatever the others do to the rows, while nothing is claimed they offer no lease of
\* another epoch, and of the calls they only abandon the reserved.
LEMMA OutsideStep ==
  ASSUME InspectionInv, Open,
         UNCHANGED <<insp, receipt, artifacts, granted, inspections>>,
         DOMAIN work' = DOMAIN work,
         calls' = calls \/ \E W : calls' = Abandon(W),
         insp.at = "claim" =>
           /\ work'[Item].status # "leased"
           /\ work'[Item].status = "ready" => work'[Item].epoch = 0,
         control' = control \/ (\E n \in {0, 1} : Control(n)),
         updates' \in Seq(SourceRow), UpdatesReplay'
  PROVE  ProcessInv'
<1>. USE DEF InspectionInv, ProcessInv
<1>. USE Declared
<1>1. control' \in Nat /\ control' <= MaxControl
  BY SourceAssumption DEF Control, ProcessTypeOK
<1>2. ProcessTypeOK'
  BY <1>1 DEF ProcessTypeOK
<1>3. OnePlan'
  BY DEF OnePlan, Open
<1>4. /\ DOMAIN calls' = DOMAIN calls
      /\ \A c \in DOMAIN calls :
           /\ calls'[c].work = Item /\ calls'[c].epoch = 1
           /\ calls'[c].prompt + calls'[c].maximum + calls'[c].actual = 0
           /\ calls[c].state # "reserved" => calls'[c].state = calls[c].state
           /\ calls'[c].state # calls[c].state => calls'[c].state = "abandoned"
  BY CallsReplay
<1>5. LedgerAt'
  <2>1. insp.at \in Starting => insp.at = "claim"
    BY DEF Open, Starting
  <2>2. Call1 \in {Call1}
    OBVIOUS
  <2>. QED
    BY <1>4, <2>1, <2>2 DEF LedgerAt
<1>6. ReceiptFaithful'
  <2>1. DOMAIN calls # {} => Call1 \in DOMAIN calls
    BY DEF TypeOK
  <2>. QED
    BY <1>4, <2>1 DEF ReceiptFaithful
<1>7. ExecutionReplays'
  <2>1. \A w \in DOMAIN artifacts : Call1 \in DOMAIN calls
    BY DEF ExecutionReplays, EvidenceInv, DoneMeansPublished, LedgerInv
  <2>. QED
    BY <1>4, <2>1 DEF ExecutionReplays
<1>. QED
  BY <1>1, <1>2, <1>3, <1>5, <1>6, <1>7

\* An announcement fences the item and appends to the journal.
LEMMA AnnounceStep ==
  ASSUME InspectionInv, NEW v \in 1 .. MaxVersion, NEW R \in SUBSET Agent, NEW f \in Fingerprint,
         Announce(v, R, f)
  PROVE  ProcessInv'
<1>. USE Declared
<1>1. /\ Open /\ SourceUpdate(Source, v, R, f)
      /\ UNCHANGED <<insp, files, receipt, saved, result>>
  BY DEF Announce
<1>2. v \in Nat \ {0}
  BY SourceAssumption
<1>3. PICK hit, stale : Fences(Source, v, R, f, hit, stale)
  BY <1>1, <1>2, UpdatedRows
<1>4. /\ calls' = Abandon(hit) /\ DOMAIN work' = DOMAIN work
      /\ UNCHANGED <<artifacts, granted, inspections>>
  BY <1>3 DEF Fences
<1>5. ASSUME insp.at = "claim"
      PROVE  /\ work'[Item].status # "leased"
             /\ work'[Item].status = "ready" => work'[Item].epoch = 0
  <2>1. /\ work[Item].status # "leased"
        /\ work[Item].status = "ready" => work[Item].epoch = 0
    BY <1>5 DEF InspectionInv, ProcessInv, LedgerAt, Starting
  <2>2. work[Item].owner = None
    BY <2>1 DEF InspectionInv, EvidenceInv, LedgerInv, OwnersLease
  <2>3. Item \in hit => Item \in stale
    BY <1>3, <2>2 DEF Fences, Revoked
  <2>. QED
    BY <1>3, <2>1, <2>3 DEF Fences
<1>6. \E n \in {0, 1} : Control(n)
  BY <1>1 DEF SourceUpdate
<1>. QED
  BY <1>1, <1>4, <1>5, <1>6, JournalGrows, OutsideStep

\* The end of a lease, a recovery, a cancellation.
LEMMA OthersStep == ASSUME InspectionInv, Others PROVE ProcessInv'
<1>. USE Declared
<1>1. /\ Open
      /\ Expire(Item) \/ Recover \/ Cancel
      /\ UNCHANGED <<sources, inspections, control, insp, files, receipt, updates, saved, result>>
  BY DEF Others, Kept, evidenceTables
<1>2. updates' \in Seq(SourceRow) /\ UpdatesReplay'
  BY <1>1 DEF InspectionInv, ProcessInv, ProcessTypeOK, UpdatesReplay
<1>3. insp.at = "claim" =>
        /\ work[Item].status # "leased"
        /\ work[Item].status = "ready" => work[Item].epoch = 0
  BY DEF InspectionInv, ProcessInv, LedgerAt, Starting
<1>4. CASE Expire(Item)
  <2>1. /\ work[Item].status = "leased" /\ work' = [work EXCEPT ![Item].lapsed = TRUE]
        /\ UNCHANGED <<calls, artifacts, granted>>
    BY <1>4 DEF Expire
  <2>. QED
    BY <1>1, <1>2, <1>3, <2>1, OutsideStep
<1>5. CASE Recover
  <2>1. /\ work' = RecoveredWork /\ calls' = Abandon(Expired)
        /\ UNCHANGED <<artifacts, granted>> /\ Expired # {}
    BY <1>5 DEF Recover
  <2>2. insp.at # "claim"
    BY <1>3, <2>1 DEF Expired
  <2>3. DOMAIN work' = DOMAIN work
    BY <2>1, RecoveredRows
  <2>. QED
    BY <1>1, <1>2, <2>1, <2>2, <2>3, OutsideStep
<1>6. CASE Cancel
  <2>1. /\ work' = [w \in DOMAIN work |-> IF w \in OpenWork THEN Free(work[w], "cancelled") ELSE work[w]]
        /\ calls' = Abandon(OpenWork)
        /\ UNCHANGED <<artifacts, granted>>
    BY <1>6 DEF Cancel
  <2>2. work[Item] \in Row
    BY DEF TypeOK
  <2>3. /\ DOMAIN work' = DOMAIN work
        /\ work'[Item].status = "cancelled" \/ work'[Item] = work[Item]
    BY <2>1, <2>2 DEF Free, Row
  <2>. QED
    BY <1>1, <1>2, <1>3, <2>1, <2>3, OutsideStep
<1>. QED
  BY <1>1, <1>4, <1>5, <1>6

-----------------------------------------------------------------------------
\* The record

\* Before the snapshot is taken, a step of the process that raises publishes nothing, and
\* nothing else is an error.
ProcessOnly ==
  \/ Freeze \/ Create \/ ClaimInspection \/ CheckFiles("check", "reserve")
  \/ ReserveInspection \/ DispatchInspection \/ Fence \/ CheckFiles("recheck", "read")
  \/ ReadSource \/ ReceiveInspection \/ CheckFiles("confirm", "publish")
  \/ PublishInspection

\* What such a step does to the record.
LEMMA Working ==
  ASSUME InspectionInv, ProcessOnly
  PROVE  /\ insp.at \notin Over /\ saved' = saved /\ insp'.at # "saved"
         /\ insp'.error => InspRaises /\ UNCHANGED artifacts
         /\ InspRaises => insp'.at = "snapshot"
<1>. USE DEF InspectionInv, ProcessInv, RecordInv
<1>1. /\ insp.at \notin Over /\ insp'.at # "saved"
      /\ \/ insp'.error = insp.error
         \/ InspRaises /\ UNCHANGED evidenceVars
  BY ProcessRecord
     DEF ProcessOnly, Over, Freeze, Create, ClaimInspection, CheckFiles, ReserveInspection,
         DispatchInspection, Fence, ReadSource, ReceiveInspection, PublishInspection,
         InspGoes, InspRaises
<1>2. saved' = saved
  BY DEF ProcessOnly, Kept, Freeze, Create, ClaimInspection, CheckFiles, ReserveInspection,
         DispatchInspection, Fence, ReadSource, ReceiveInspection, PublishInspection
<1>3. InspRaises => insp'.at = "snapshot"
  BY ProcessRecord DEF InspRaises
<1>. QED
  BY <1>1, <1>2, <1>3 DEF ErrorQuiet, evidenceVars, vars

\* A step before the snapshot saves nothing but the result of an inspection not bought.
LEMMA WorkingRecord == ASSUME InspectionInv, ProcessOnly PROVE RecordInv'
<1>. USE DEF InspectionInv, ProcessInv, RecordInv
<1>1. saved = <<>> /\ saved' = <<>> /\ DOMAIN artifacts = {}
  BY Working DEF SavedFaithful, Over, LedgerAt
<1>2. ErrorQuiet'
  BY <1>1, Working DEF ErrorQuiet, Over
<1>3. SavedFaithful'
  <2>1. ~("run" \in DOMAIN <<>>) /\ ~("calls" \in DOMAIN <<>>) /\ ~("artifacts" \in DOMAIN <<>>)
    OBVIOUS
  <2>. QED
    BY <1>1, <2>1 DEF SavedFaithful
<1>4. ResultFaithful'
  <2>1. CASE insp'.at # "skipped"
    BY <2>1, Working DEF ResultFaithful
  <2>2. CASE insp'.at = "skipped"
    <3>1. Create
      BY <2>2, Working, ProcessRecord
         DEF ProcessOnly, Over, Freeze, ClaimInspection, CheckFiles, ReserveInspection,
             DispatchInspection, Fence, ReadSource, ReceiveInspection, PublishInspection,
             InspGoes, InspRaises
    <3>2. PICK plan : insp.plan = {plan}
      BY <3>1 DEF Create, OnePlan
    <3>3. IF plan.purchase
          THEN insp' = [insp EXCEPT !.at = "claim", !.config = {}] /\ UNCHANGED result
          ELSE /\ insp' = [insp EXCEPT !.at = "skipped", !.config = {}]
               /\ result' = [status |-> "SKIPPED", action |-> plan.stop]
      BY <3>1, <3>2 DEF Create
    <3>4. ~plan.purchase /\ insp'.plan = {plan}
      BY <2>2, <3>2, <3>3, ProcessRecord
    <3>. QED
      BY <2>2, <3>3, <3>4 DEF ResultFaithful
  <2>. QED
    BY <2>1, <2>2
<1>. QED
  BY <1>2, <1>3, <1>4

\* What others do to the ledger does not belie a snapshot.
LEMMA OutsideRecord ==
  ASSUME InspectionInv, UNCHANGED <<insp, receipt, saved, result, artifacts>>,
         run' = run \/ run'.status = "cancelled",
         calls' = calls \/ \E W : calls' = Abandon(W)
  PROVE  RecordInv'
<1>. USE DEF InspectionInv, ProcessInv, RecordInv
<1>1. /\ DOMAIN calls' = DOMAIN calls
      /\ \A c \in DOMAIN calls : calls'[c].state = "received" <=> calls[c].state = "received"
  BY Declared, CallsReplay
<1>2. ErrorQuiet'
  BY DEF ErrorQuiet
<1>3. SavedFaithful'
  BY <1>1 DEF SavedFaithful
<1>4. ResultFaithful'
  BY DEF ResultFaithful, SavedResponse, Ledger
<1>. QED
  BY <1>2, <1>3, <1>4

\* One more table of the snapshot is what the ledger has now.
LEMMA SelectRecord == ASSUME InspectionInv, SelectNext PROVE RecordInv'
<1>. USE DEF InspectionInv, ProcessInv, RecordInv
<1>1. PICK i \in DOMAIN Tables : saved' = Put(saved, Tables[i], Ledger[Tables[i]])
  BY DEF SelectNext
<1>2. insp.at = "snapshot" /\ UNCHANGED <<evidenceVars, insp, receipt, updates, result>>
  BY DEF SelectNext
<1>. DEFINE t == Tables[i]
<1>3. /\ DOMAIN saved' = DOMAIN saved \cup {t}
      /\ saved'[t] = Ledger[t]
      /\ \A x \in DOMAIN saved : x # t => saved'[x] = saved[x]
  BY <1>1 DEF Put
<1>. HIDE DEF t
<1>4. /\ Ledger["run"] = run /\ Ledger["artifacts"] = artifacts
      /\ Ledger["calls"] = [rows |-> calls, response |-> receipt]
  BY DEF Ledger
<1>5. UNCHANGED <<run, calls, artifacts>>
  BY <1>2 DEF evidenceVars, vars
<1>6. ErrorQuiet' /\ ResultFaithful'
  BY <1>2, <1>5 DEF ErrorQuiet, ResultFaithful
<1>7. "run" \in DOMAIN saved' => (saved'.run.status = "cancelled" => run'.status = "cancelled")
  BY <1>3, <1>4, <1>5 DEF SavedFaithful
<1>8. "calls" \in DOMAIN saved' =>
        /\ saved'.calls.response = receipt'
        /\ DOMAIN saved'.calls.rows = DOMAIN calls'
        /\ \A c \in DOMAIN calls' :
             saved'.calls.rows[c].state = "received" <=> calls'[c].state = "received"
  <2>1. CASE t = "calls"
    BY <1>2, <1>3, <1>4, <1>5, <2>1
  <2>2. CASE t # "calls"
    BY <1>2, <1>3, <1>5, <2>2 DEF SavedFaithful
  <2>. QED
    BY <2>1, <2>2
<1>9. "artifacts" \in DOMAIN saved' => saved'.artifacts = artifacts'
  BY <1>3, <1>4, <1>5 DEF SavedFaithful
<1>. QED
  BY <1>2, <1>6, <1>7, <1>8, <1>9 DEF SavedFaithful

\* The tables of a snapshot are those of the ledger.
LEMMA AllTables ==
  DOMAIN Ledger = {"run", "work", "calls", "artifacts", "events", "sources", "inspections"}
BY DEF Ledger

\* A full snapshot shows a receipt exactly if the ledger has one.
LEMMA SavedReceived ==
  ASSUME InspectionInv, DOMAIN saved = DOMAIN Ledger
  PROVE  CallIs(saved, "received") <=> DOMAIN calls # {} /\ calls[Call1].state = "received"
<1>1. DOMAIN calls \subseteq {Call1}
  BY Declared DEF TypeOK
<1>2. "calls" \in DOMAIN saved
  BY AllTables
<1>. QED
  BY <1>1, <1>2 DEF CallIs, SavedFaithful, InspectionInv, RecordInv

\* The saved result is of the saved snapshot.
LEMMA SaveRecord == ASSUME InspectionInv, SaveResult PROVE RecordInv'
<1>. USE DEF InspectionInv, ProcessInv, RecordInv
<1>1. /\ insp.at = "snapshot" /\ insp' = [insp EXCEPT !.at = "saved"]
      /\ DOMAIN saved = DOMAIN Ledger
      /\ UNCHANGED <<evidenceVars, receipt, saved>>
  BY DEF SaveResult, InspGoes
<1>2. insp'.at = "saved" /\ insp'.plan = insp.plan /\ insp'.error = insp.error
  BY <1>1, ProcessRecord
<1>3. UNCHANGED <<run, calls, artifacts>>
  BY <1>1 DEF evidenceVars, vars
<1>4. ErrorQuiet' /\ SavedFaithful'
  BY <1>1, <1>2, <1>3 DEF ErrorQuiet, SavedFaithful, Over
<1>5. ResultFaithful'
  <2>. DEFINE response == IF insp.response = "none" /\ CallIs(saved, "received")
                          THEN saved.calls.response ELSE insp.response
  <2>1. PICK plan \in insp.plan : result' = ResultOf(plan, saved, response, insp.error)
    BY DEF SaveResult
  <2>2. CallIs(saved, "received") <=> DOMAIN calls # {} /\ calls[Call1].state = "received"
    BY <1>1, SavedReceived
  <2>3. saved.calls.response = receipt
    BY <1>1, AllTables DEF SavedFaithful
  <2>4. response = SavedResponse
    BY <2>2, <2>3 DEF SavedResponse, ReceiptFaithful
  <2>5. insp'.plan = {plan}
    BY <1>1, <1>2, <2>1 DEF OnePlan
  <2>6. DOMAIN Ledger' = DOMAIN Ledger
    BY DEF Ledger
  <2>7. SavedResponse' = SavedResponse
    BY <1>1 DEF SavedResponse
  <2>8. ResultOf(plan, saved, SavedResponse, insp.error)'
          = ResultOf(plan, saved, SavedResponse, insp.error)
    BY <1>1, <1>2, <2>7 DEF ResultOf
  <2>. QED
    BY <1>1, <1>2, <2>1, <2>4, <2>5, <2>6, <2>7, <2>8 DEF ResultFaithful
<1>. QED
  BY <1>4, <1>5

\* Every step keeps what is said of the record.
LEMMA RecordKept == ASSUME InspectionInv, InspectionNext PROVE RecordInv'
<1>1. ASSUME FileChanges PROVE RecordInv'
  <2>1. UNCHANGED <<insp, receipt, saved, result, evidenceVars>>
    BY <1>1 DEF FileChanges
  <2>. QED
    BY <2>1, OutsideRecord DEF evidenceVars, vars
<1>2. ASSUME NEW v \in 1 .. MaxVersion, NEW R \in SUBSET Agent, NEW f \in Fingerprint,
             Announce(v, R, f)
      PROVE  RecordInv'
  <2>1. UNCHANGED <<insp, receipt, saved, result, run, artifacts>> /\ \E W : calls' = Abandon(W)
    BY <1>2 DEF Announce, SourceUpdate
  <2>. QED
    BY <2>1, OutsideRecord
<1>3. ASSUME Others PROVE RecordInv'
  <2>1. /\ UNCHANGED <<insp, receipt, saved, result>>
        /\ Expire(Item) \/ Recover \/ Cancel
    BY <1>3 DEF Others, Kept
  <2>2. /\ UNCHANGED artifacts
        /\ run' = run \/ run'.status = "cancelled"
        /\ calls' = calls \/ \E W : calls' = Abandon(W)
    BY <2>1 DEF Expire, Recover, Cancel
  <2>. QED
    BY <2>1, <2>2, OutsideRecord
<1>. QED
  BY <1>1, <1>2, <1>3, WorkingRecord, SelectRecord, SaveRecord DEF InspectionNext, ProcessOnly

-----------------------------------------------------------------------------
\* Invariance

\* The invariant holds of every initial state.
LEMMA InspectionInitInv == InspectionInit => InspectionInv
<1>. SUFFICES ASSUME InspectionInit PROVE InspectionInv
  OBVIOUS
<1>1. EvidenceInit /\ EvidenceInv
  BY EvidenceInitInv DEF InspectionInit
<1>2. PICK config \in Configs, payload \in {"yes", "no", "unknown", "invalid"} :
        insp = [at |-> "freeze", config |-> {config}, plan |-> {}, payload |-> payload,
                read |-> "none", response |-> "none", error |-> FALSE]
  BY DEF InspectionInit
<1>3. receipt = "none" /\ updates = <<>> /\ saved = <<>> /\ sources = Sources /\ inspections = Inspections /\ control = 0
  BY <1>1 DEF InspectionInit, EvidenceInit
<1>4. /\ DOMAIN work = {Item} /\ DOMAIN calls = {} /\ DOMAIN artifacts = {} /\ granted = {}
      /\ work[Item].status = "ready" /\ work[Item].epoch = 0
  BY <1>1, InspectionAssumption DEF EvidenceInit, Init, InitOf
<1>5. ProcessTypeOK
  BY <1>2, <1>3 DEF ProcessTypeOK, Outcome, Stage, Starting
<1>6. OnePlan
  BY <1>2 DEF OnePlan, Open
<1>7. LedgerAt
  BY <1>2, <1>3, <1>4 DEF LedgerAt, Starting, Claimed, Reading, Settled, Over
<1>8. ReceiptFaithful /\ ExecutionReplays
  BY <1>2, <1>4 DEF ReceiptFaithful, ExecutionReplays
<1>9. UpdatesReplay
  <2>1. Sources[Source] \in SourceRow
    BY SourceAssumption, InspectionAssumption
  <2>2. <<>> \in Seq(SourceRow) /\ Len(<<>>) = 0 /\ DOMAIN <<>> = {}
    OBVIOUS
  <2>3. Last(<<Sources[Source]>> \o updates) = Sources[Source]
    BY <1>3, <2>1, <2>2, JournalEntries
  <2>. QED
    BY <1>3, <2>2, <2>3 DEF UpdatesReplay
<1>10. control <= MaxControl
  BY <1>3, SourceAssumption
<1>11. RecordInv
  <2>1. ~("run" \in DOMAIN <<>>) /\ ~("calls" \in DOMAIN <<>>) /\ ~("artifacts" \in DOMAIN <<>>)
    OBVIOUS
  <2>. QED
    BY <1>2, <1>3, <2>1 DEF RecordInv, ErrorQuiet, SavedFaithful, ResultFaithful
<1>. QED
  BY <1>1, <1>5, <1>6, <1>7, <1>8, <1>9, <1>10, <1>11 DEF InspectionInv, ProcessInv

\* One step for each action of the process and of everybody else.
LEMMA InspectionNextInv ==
  InspectionInv /\ [InspectionNext]_inspectionVars => InspectionInv'
<1>. SUFFICES ASSUME InspectionInv, [InspectionNext]_inspectionVars PROVE InspectionInv'
  OBVIOUS
<1>1. EvidenceInv'
  BY StepIsEvidence, EvidenceNextInv DEF InspectionInv
<1>2. CASE UNCHANGED inspectionVars
  <2>. USE <1>2 DEF InspectionInv, ProcessInv, inspectionVars, evidenceVars, evidenceTables, vars
  <2>1. UpdatesReplay' /\ ExecutionReplays' /\ control' <= MaxControl
    BY RecordSame
  <2>2. ProcessTypeOK' /\ OnePlan' /\ LedgerAt' /\ ReceiptFaithful'
    BY DEF ProcessTypeOK, OnePlan, Open, LedgerAt, ReceiptFaithful
  <2>3. RecordInv'
    BY DEF RecordInv, ErrorQuiet, SavedFaithful, ResultFaithful, SavedResponse, Ledger
  <2>. QED
    BY <1>1, <2>1, <2>2, <2>3
<1>3. ASSUME \/ CheckFiles("check", "reserve")
             \/ CheckFiles("recheck", "read")
             \/ CheckFiles("confirm", "publish")
      PROVE  ProcessInv'
  BY <1>3, CheckStep DEF Stage, Claimed, Reading, Settled
<1>4. ASSUME NEW v \in 1 .. MaxVersion, NEW R \in SUBSET Agent, NEW f \in Fingerprint,
             Announce(v, R, f)
      PROVE  ProcessInv'
  BY <1>4, AnnounceStep
<1>5. InspectionNext => RecordInv'
  BY RecordKept
<1>. QED
  BY <1>1, <1>2, <1>3, <1>4, <1>5, FreezeStep, CreateStep, ClaimStep, ReserveStep, DispatchStep, FenceStep,
     ReadStep, ReceiveStep, PublishStep, SaveStep, FilesStep, OthersStep
     DEF InspectionNext, InspectionInv

\* Throughout an inspection (run_inspection of runner/inspection.py) the ledger, the
\* journal of updates, the receipt and the process agree with each other.
THEOREM InspectionInvariance == InspectionSpec => []InspectionInv
BY InspectionInitInv, InspectionNextInv, PTL DEF InspectionSpec

\* An inspection (run_inspection over CoordinationSession) only does what the evidence
\* ledger lets anybody do: whatever Evidence promises holds while it runs.
THEOREM InspectionIsEvidence == InspectionSpec => EvidenceSpec
<1>1. InspectionInit => EvidenceInit
  BY DEF InspectionInit
<1>2. InspectionInv /\ [InspectionNext]_inspectionVars => [EvidenceNext]_evidenceVars
  BY StepIsEvidence
<1>. QED
  BY <1>1, <1>2, InspectionInvariance, PTL DEF InspectionSpec, EvidenceSpec

\* What was saved is what replay_inspection recomputes, of the ledger it was saved of.
LEMMA SavedReplays ==
  ASSUME InspectionInv, insp.at = "skipped" \/ (insp.at = "saved" /\ saved = Ledger)
  PROVE  Replay
<1>. USE DEF InspectionInv, ProcessInv, RecordInv
<1>. SUFFICES ASSUME NEW plan \in insp.plan
              PROVE  IF plan.purchase
                     THEN /\ saved = Ledger
                          /\ UpdatesReplay /\ ExecutionReplays /\ control <= MaxControl
                          /\ LET response == IF CallIs(saved, "received") THEN receipt ELSE "none"
                             IN /\ response # "none" => response \in {"yes", "no", "unknown"}
                                /\ result = ResultOf(plan, saved, response, insp.error)
                     ELSE result = [status |-> "SKIPPED", action |-> plan.stop] /\ saved = <<>>
  BY DEF Replay
<1>1. CASE insp.at = "skipped"
  BY <1>1 DEF ResultFaithful, SavedFaithful
<1>2. CASE insp.at = "saved" /\ saved = Ledger
  <2>1. plan.purchase
    BY <1>2 DEF OnePlan, Open
  <2>2. saved.calls.response = receipt
    BY <1>2, AllTables DEF SavedFaithful
  <2>3. CallIs(saved, "received") => receipt \in Outcome
    BY <1>2, SavedReceived DEF ReceiptFaithful
  <2>4. result = ResultOf(plan, saved, SavedResponse, insp.error)
    BY <1>2 DEF ResultFaithful
  <2>. QED
    BY <1>2, <2>1, <2>2, <2>3, <2>4 DEF SavedResponse, Outcome
<1>. QED
  BY <1>1, <1>2

\* Whatever happens to the source, its readers, its files and the run while it is read,
\* the record an inspection leaves passes its own replay (replay_inspection of
\* runner/inspection.py) for as long as the ledger is what was saved of it; and however
\* the snapshot is torn or outdated, a completed one acts on the frozen payload and was
\* published, a stopped one published nothing, and a cancelled one was cancelled.
THEOREM RecordsReplay == InspectionSpec => []InspectionReplays
<1>1. InspectionInv => InspectionReplays
  <2>. USE DEF InspectionInv, ProcessInv, RecordInv
  <2>1. ASSUME InspectionInv, insp.at = "saved"
        PROVE  /\ result.status = "COMPLETE" => receipt = insp.payload /\ artifacts # <<>>
               /\ result.status = "STOPPED" => artifacts = <<>>
               /\ result.status = "CANCELLED" => run.status = "cancelled"
               /\ result.action \in {"accept", "reject"} => result.status = "COMPLETE"
    <3>1. PICK plan : plan \in insp.plan /\ plan.purchase
      BY <2>1 DEF OnePlan, Open
    <3>. DEFINE response == SavedResponse
    <3>2. result = ResultOf(plan, saved, response, insp.error)
      BY <2>1, <3>1 DEF ResultFaithful
    <3>. HIDE DEF response
    <3>3. /\ saved.artifacts = artifacts
          /\ saved.run.status = "cancelled" => run.status = "cancelled"
      BY <2>1, AllTables DEF ResultFaithful, SavedFaithful
    <3>4. artifacts = <<>> <=> DOMAIN artifacts = {}
      <4>1. artifacts \in [DOMAIN artifacts -> Artifact]
        BY <2>1, Declared DEF TypeOK
      <4>2. DOMAIN artifacts = {} => artifacts = <<>>
        BY <4>1
      <4>. QED
        BY <4>2
    <3>5. DOMAIN artifacts # {} => calls[Call1].state = "received" /\ DOMAIN calls # {}
      BY <2>1 DEF ExecutionReplays, EvidenceInv, DoneMeansPublished
    <3>6. result.status = "COMPLETE" => receipt = insp.payload /\ artifacts # <<>>
      BY <2>1, <3>2, <3>3, <3>4, <3>5 DEF ResultOf, ReceiptFaithful
    <3>7. result.status = "STOPPED" => artifacts = <<>>
      BY <2>1, <3>2, <3>3, <3>4 DEF ResultOf, ErrorQuiet
    <3>8. result.status = "CANCELLED" => run.status = "cancelled"
      BY <3>2, <3>3 DEF ResultOf
    <3>9. result.action \in {"accept", "reject"} => result.status = "COMPLETE"
      BY <3>1, <3>2 DEF ResultOf, ApplyPlan
    <3>. QED
      BY <3>6, <3>7, <3>8, <3>9
  <2>. QED
    BY <2>1, SavedReplays DEF InspectionReplays
<1>. QED
  BY <1>1, InspectionInvariance, PTL

-----------------------------------------------------------------------------
\* Arithmetic of the planner

\* The least of a set of numbers is its element that is at most every other.
LEMMA MinIs ==
  ASSUME NEW S \in SUBSET Int, NEW x \in S, \A y \in S : x <= y
  PROVE  Min(S) = x
<1>1. Min(S) \in S /\ \A y \in S : Min(S) <= y
  BY DEF Min
<1>2. Min(S) <= x /\ x <= Min(S) /\ Min(S) \in Int
  BY <1>1
<1>. QED
  BY <1>2

\* A positive factor decides no comparison.
LEMMA FactorOut ==
  ASSUME NEW a \in Int, NEW b \in Int, NEW k \in Nat \ {0}
  PROVE  k * a <= k * b <=> a <= b
OBVIOUS

\* A division without remainder.
LEMMA DivExact == ASSUME NEW a \in Nat, NEW b \in Nat \ {0} PROVE (a * b) \div b = a
OBVIOUS

\* A number that leaves no remainder is its quotient times the divisor.
LEMMA DivMultiple ==
  ASSUME NEW a \in Nat, NEW b \in Nat \ {0}, a % b = 0
  PROVE  a = (a \div b) * b /\ a \div b \in Nat
<1>1. a = b * (a \div b) /\ a \div b \in Nat
  OBVIOUS
<1>. QED
  BY <1>1

\* A read divides the masses exactly.
LEMMA WholeDivides == \E k \in Nat \ {0} : Whole = k * (Scale * Scale * Scale)
<1>. DEFINE T == Scale * Scale * Scale
<1>1. Scale \in Nat \ {0} /\ Whole \in Nat \ {0}
  BY ScaleAssumption
<1>2. T \in Nat \ {0} /\ Whole % T = 0
  <2>1. Scale * Scale \in Nat \ {0}
    BY <1>1
  <2>2. T \in Nat \ {0}
    BY <1>1, <2>1
  <2>. QED
    BY <2>2, ScaleAssumption
<1>. HIDE DEF T
<1>3. Whole = (Whole \div T) * T /\ Whole \div T \in Nat
  BY <1>1, <1>2, DivMultiple
<1>4. Whole \div T # 0
  BY <1>1, <1>2, <1>3
<1>. QED
  BY <1>3, <1>4 DEF T

\* The lesser of two.
LEMMA MinPair ==
  ASSUME NEW x \in Int, NEW y \in Int
  PROVE  Min({x, y}) \in {x, y} /\ Min({x, y}) <= x /\ Min({x, y}) <= y
<1>1. CASE x <= y
  BY <1>1, MinIs
<1>2. CASE y <= x
  BY <1>2, MinIs
<1>. QED
  BY <1>1, <1>2

-----------------------------------------------------------------------------
\* The map of the two outcomes

\* Whether an action, by its place, decides.
Decided(i) == IF i = 1 THEN 0 ELSE 1

\* The least of the terms of an outcome with so many decisions.
Least(terms, k) == IF k = 0 THEN terms[1] ELSE Min({terms[2], terms[3]})

\* The least term with and without a decision.
LEMMA LeastOf ==
  ASSUME NEW terms \in [1 .. 3 -> Int]
  PROVE  /\ \A k \in {0, 1} : Least(terms, k) \in Int
         /\ \A i \in 1 .. 3 : Least(terms, Decided(i)) <= terms[i]
         /\ \A k \in {0, 1} : \E i \in 1 .. 3 : Decided(i) = k /\ terms[i] = Least(terms, k)
<1>1. terms[1] \in Int /\ terms[2] \in Int /\ terms[3] \in Int
  OBVIOUS
<1>2. \/ Min({terms[2], terms[3]}) = terms[2] /\ terms[2] <= terms[3]
      \/ Min({terms[2], terms[3]}) = terms[3] /\ terms[3] <= terms[2]
  <2>1. CASE terms[2] <= terms[3]
    BY <1>1, <2>1, MinIs
  <2>2. CASE terms[3] <= terms[2]
    BY <1>1, <2>2, MinIs
  <2>. QED
    BY <1>1, <2>1, <2>2
<1>3. 1 .. 3 = {1, 2, 3}
  OBVIOUS
<1>. QED
  BY <1>1, <1>2, <1>3 DEF Least, Decided

\* The least of the three terms.
LEMMA LeastTerm ==
  ASSUME NEW terms \in [1 .. 3 -> Int]
  PROVE  /\ \E i \in 1 .. 3 : terms[i] = Min(Range(terms))
         /\ \A i \in 1 .. 3 : Min(Range(terms)) <= terms[i]
         /\ Min(Range(terms)) \in Int
<1>1. Range(terms) = {terms[1], terms[2], terms[3]}
      /\ terms[1] \in Int /\ terms[2] \in Int /\ terms[3] \in Int
  BY DEF Range
<1>2. PICK i \in 1 .. 3 : terms[i] <= terms[1] /\ terms[i] <= terms[2] /\ terms[i] <= terms[3]
  BY <1>1
<1>3. Min(Range(terms)) = terms[i]
  <2>1. Range(terms) \in SUBSET Int /\ terms[i] \in Range(terms)
    BY <1>1 DEF Range
  <2>2. \A y \in Range(terms) : terms[i] <= y
    BY <1>1, <1>2
  <2>. QED
    BY <2>1, <2>2, MinIs
<1>4. \A j \in 1 .. 3 : terms[i] <= terms[j]
  <2>1. 1 .. 3 = {1, 2, 3}
    OBVIOUS
  <2>. QED
    BY <1>2, <2>1
<1>. QED
  BY <1>1, <1>3, <1>4

\* The least of a non-empty set of the numbers 1, 2, 3, or of 0, 1, 2.
LEMMA FirstOf ==
  ASSUME NEW S \in SUBSET (0 .. 3), S # {}
  PROVE  Min(S) \in S /\ \A i \in S : Min(S) <= i
<1>1. PICK m \in S : \A i \in S : m <= i
  <2>1. 0 .. 3 = {0, 1, 2, 3}
    OBVIOUS
  <2>2. PICK n \in S : TRUE
    OBVIOUS
  <2>3. CASE 0 \in S
    BY <2>1, <2>3
  <2>4. CASE 0 \notin S /\ 1 \in S
    BY <2>1, <2>4
  <2>5. CASE 0 \notin S /\ 1 \notin S /\ 2 \in S
    BY <2>1, <2>5
  <2>6. CASE 0 \notin S /\ 1 \notin S /\ 2 \notin S
    BY <2>1, <2>2, <2>6
  <2>. QED
    BY <2>3, <2>4, <2>5, <2>6
<1>2. Min(S) = m
  BY <1>1, MinIs
<1>. QED
  BY <1>1, <1>2

\* Whatever the losses of the three actions under the two outcomes, the greedy search of
\* _shared_map (pheroos_interaction/inspection.py) finds the map of least loss and, among
\* those, one that decides as seldom as any.
THEOREM SharedMapBest ==
  ASSUME NEW negative \in [1 .. 3 -> Int], NEW positive \in [1 .. 3 -> Int]
  PROVE  \E i, j \in 1 .. 3 :
           /\ SharedMap(negative, positive) = <<negative[i] + positive[j], Actions[i], Actions[j]>>
           /\ \A k, l \in 1 .. 3 :
                /\ negative[i] + positive[j] <= negative[k] + positive[l]
                /\ negative[i] + positive[j] = negative[k] + positive[l] =>
                     Decided(i) + Decided(j) <= Decided(k) + Decided(l)
<1>. DEFINE least == Min(Range(negative)) + Min(Range(positive))
            sums(k) == {Least(negative, m) + Least(positive, k - m) : m \in {m \in {0, 1} : k - m \in {0, 1}}}
            minima(k) == Min(sums(k))
            counts == {k \in 0 .. 2 : minima(k) <= least}
            count == Min(counts)
            firsts == {i \in 1 .. 3 : /\ count - Decided(i) \in {0, 1}
                                      /\ negative[i] + Least(positive, count - Decided(i)) <= least}
            first == Min(firsts)
            seconds == {j \in 1 .. 3 : /\ Decided(j) = count - Decided(first)
                                       /\ negative[first] + positive[j] <= least}
            second == Min(seconds)
<1>1. SharedMap(negative, positive) = <<negative[first] + positive[second], Actions[first], Actions[second]>>
  BY DEF SharedMap, Least, Decided
<1>2. /\ least \in Int
      /\ \A i, j \in 1 .. 3 : least <= negative[i] + positive[j]
      /\ \E i, j \in 1 .. 3 : least = negative[i] + positive[j]
  <2>. DEFINE a == Min(Range(negative))
              b == Min(Range(positive))
  <2>1. a \in Int /\ (\A i \in 1 .. 3 : a <= negative[i]) /\ (\E i \in 1 .. 3 : negative[i] = a)
    BY LeastTerm
  <2>2. b \in Int /\ (\A j \in 1 .. 3 : b <= positive[j]) /\ (\E j \in 1 .. 3 : positive[j] = b)
    BY LeastTerm
  <2>. HIDE DEF a, b
  <2>3. /\ a + b \in Int
        /\ \A i, j \in 1 .. 3 : a + b <= negative[i] + positive[j]
        /\ \E i, j \in 1 .. 3 : a + b = negative[i] + positive[j]
    BY <2>1, <2>2
  <2>. QED
    BY <2>3 DEF a, b
<1>. HIDE DEF least
\* A count is feasible when some map of least loss decides so often, and only then.
<1>3. ASSUME NEW k \in 0 .. 2
      PROVE  /\ minima(k) <= least => \E i, j \in 1 .. 3 :
                  /\ Decided(i) + Decided(j) = k
                  /\ negative[i] + Least(positive, Decided(j)) <= least
             /\ \A i, j \in 1 .. 3 : Decided(i) + Decided(j) = k => minima(k) <= negative[i] + positive[j]
  <2>1. \A m \in {0, 1} : Least(negative, m) \in Int /\ Least(positive, m) \in Int
    BY LeastOf
  <2>. HIDE DEF sums
  <2>2. \E x, y \in Int : sums(k) = {x, y}
    <3>1. CASE k = 0
      <4>1. sums(k) = {Least(negative, 0) + Least(positive, 0), Least(negative, 0) + Least(positive, 0)}
        BY <3>1 DEF sums
      <4>. QED
        BY <4>1, <2>1
    <3>2. CASE k = 1
      <4>1. sums(k) = {Least(negative, 0) + Least(positive, 1), Least(negative, 1) + Least(positive, 0)}
        BY <3>2 DEF sums
      <4>. QED
        BY <4>1, <2>1
    <3>3. CASE k = 2
      <4>1. sums(k) = {Least(negative, 1) + Least(positive, 1), Least(negative, 1) + Least(positive, 1)}
        BY <3>3 DEF sums
      <4>. QED
        BY <4>1, <2>1
    <3>. QED
      BY <3>1, <3>2, <3>3
  <2>3. minima(k) \in sums(k) /\ minima(k) \in Int /\ \A s \in sums(k) : minima(k) <= s
    BY <2>2, MinPair
  <2>4. minima(k) <= least => \E i, j \in 1 .. 3 :
                  /\ Decided(i) + Decided(j) = k
                  /\ negative[i] + Least(positive, Decided(j)) <= least
    <3>1. PICK m \in {0, 1} : k - m \in {0, 1} /\ minima(k) = Least(negative, m) + Least(positive, k - m)
      BY <2>3 DEF sums
    <3>2. PICK i \in 1 .. 3 : Decided(i) = m /\ negative[i] = Least(negative, m)
      BY LeastOf
    <3>3. PICK j \in 1 .. 3 : Decided(j) = k - m
      BY <3>1, LeastOf
    <3>. QED
      BY <3>1, <3>2, <3>3
  <2>5. ASSUME NEW i \in 1 .. 3, NEW j \in 1 .. 3, Decided(i) + Decided(j) = k
        PROVE  minima(k) <= negative[i] + positive[j]
    <3>1. Decided(i) \in {0, 1} /\ Decided(j) \in {0, 1} /\ k - Decided(i) = Decided(j)
      BY <2>5 DEF Decided
    <3>2. Least(negative, Decided(i)) + Least(positive, Decided(j)) \in sums(k)
      BY <3>1 DEF sums
    <3>3. Least(negative, Decided(i)) <= negative[i] /\ Least(positive, Decided(j)) <= positive[j]
      BY LeastOf
    <3>4. negative[i] \in Int /\ positive[j] \in Int
      OBVIOUS
    <3>. HIDE DEF minima
    <3>. QED
      BY <2>1, <2>3, <3>1, <3>2, <3>3, <3>4
  <2>. QED
    BY <2>4, <2>5
<1>. HIDE DEF minima
<1>4. count \in counts /\ \A k \in counts : count <= k
  <2>1. PICK i \in 1 .. 3, j \in 1 .. 3 : least = negative[i] + positive[j]
    BY <1>2
  <2>2. Decided(i) + Decided(j) \in 0 .. 2
    BY DEF Decided
  <2>3. Decided(i) + Decided(j) \in counts
    BY <1>3, <2>1, <2>2
  <2>4. counts # {} /\ counts \in SUBSET (0 .. 3)
    BY <2>3
  <2>. HIDE DEF counts
  <2>. QED
    BY <2>4, FirstOf
<1>. HIDE DEF count
<1>5. first \in firsts
  <2>1. PICK i \in 1 .. 3, j \in 1 .. 3 : /\ Decided(i) + Decided(j) = count
                                         /\ negative[i] + Least(positive, Decided(j)) <= least
    BY <1>3, <1>4
  <2>2. count - Decided(i) = Decided(j) /\ Decided(j) \in {0, 1}
    BY <2>1 DEF Decided
  <2>3. firsts # {} /\ firsts \in SUBSET (0 .. 3)
    BY <2>1, <2>2
  <2>. HIDE DEF firsts
  <2>. QED
    BY <2>3, FirstOf
<1>. HIDE DEF first
<1>6. second \in seconds
  <2>1. /\ count - Decided(first) \in {0, 1}
        /\ negative[first] + Least(positive, count - Decided(first)) <= least
    BY <1>5
  <2>2. PICK j \in 1 .. 3 : /\ Decided(j) = count - Decided(first)
                            /\ positive[j] = Least(positive, count - Decided(first))
    BY <2>1, LeastOf
  <2>3. seconds # {} /\ seconds \in SUBSET (0 .. 3)
    BY <2>1, <2>2
  <2>. HIDE DEF seconds
  <2>. QED
    BY <2>3, FirstOf
<1>. HIDE DEF second
<1>7. first \in 1 .. 3 /\ second \in 1 .. 3 /\ Decided(first) + Decided(second) = count
  <2>1. Decided(first) \in Int /\ Decided(second) \in Int /\ count \in Int
    BY <1>4 DEF Decided
  <2>. QED
    BY <2>1, <1>5, <1>6
<1>8. negative[first] + positive[second] = least
  <2>1. negative[first] + positive[second] \in Int
    BY <1>7
  <2>2. negative[first] + positive[second] <= least /\ least <= negative[first] + positive[second]
    BY <1>2, <1>6, <1>7
  <2>. QED
    BY <1>2, <2>1, <2>2
<1>9. ASSUME NEW k \in 1 .. 3, NEW l \in 1 .. 3, least = negative[k] + positive[l]
      PROVE  count <= Decided(k) + Decided(l)
  <2>1. Decided(k) + Decided(l) \in 0 .. 2
    BY DEF Decided
  <2>. QED
    BY <1>2, <1>3, <1>4, <1>9, <2>1
<1>. QED
  BY <1>1, <1>2, <1>7, <1>8, <1>9

-----------------------------------------------------------------------------
\* The plan against the losses world by world

\* What a unit of the truth loses by an answer.
LossOf(losses, h, act) ==
  IF act = "abstain" THEN losses.abstain
  ELSE IF act = "reject" /\ h THEN losses.reject
  ELSE IF act = "accept" /\ ~h THEN losses.accept ELSE 0

\* The weights with which the two outcomes are read, of H and of its negation.
Weigh(c, positive) ==
  LET own == Scale - c.channel.rho
      copied == IF positive THEN c.channel.rho * Scale ELSE 0
      wrong == Scale - c.channel.q
  IN [h |-> c.prior * (copied + own * (IF positive THEN c.channel.q ELSE wrong)),
      n |-> (Scale - c.prior) * (copied + own * (IF positive THEN wrong ELSE c.channel.q))]

\* What an answer to an outcome loses, over both truths.
Part(c, positive, act) ==
  Weigh(c, positive).h * LossOf(c.losses, TRUE, act) + Weigh(c, positive).n * LossOf(c.losses, FALSE, act)

\* The numbers of a configuration.
LEMMA ConfigParts ==
  ASSUME NEW c \in Configs
  PROVE  /\ c.prior \in Int /\ Scale - c.prior \in Int
         /\ c.channel.q \in Int /\ c.channel.rho \in Int
         /\ c.cost \in Nat /\ c.losses.abstain \in Nat /\ c.losses.reject \in Nat /\ c.losses.accept \in Nat
         /\ Scale \in Nat \ {0}
         /\ c.prior \in 0 .. Scale /\ c.channel.q \in 0 .. Scale /\ c.channel.rho \in 0 .. Scale
BY ConfigAssumption, ScaleAssumption DEF Channel

\* The loss counted world by world is the price and what each outcome loses.
LEMMA MapLossParts ==
  ASSUME NEW c \in Configs, NEW a, NEW b
  PROVE  MapLoss(c, a, b) = c.cost * Scale * Scale * Scale + (Part(c, FALSE, a) + Part(c, TRUE, b))
<1>. DEFINE p == c.prior
            n == Scale - c.prior
            r == c.channel.rho
            o == Scale - c.channel.rho
            q == c.channel.q
            w == Scale - c.channel.q
            pt == LossOf(c.losses, TRUE, b)
            pf == LossOf(c.losses, FALSE, b)
            nt == LossOf(c.losses, TRUE, a)
            nf == LossOf(c.losses, FALSE, a)
<1>1. p \in Int /\ n \in Int /\ r \in Int /\ o \in Int /\ q \in Int /\ w \in Int /\ Scale \in Int /\ q + w = Scale
  BY ConfigParts
<1>2. pt \in Int /\ pf \in Int /\ nt \in Int /\ nf \in Int
  BY ConfigParts DEF LossOf
<1>3. MapLoss(c, a, b) = c.cost * Scale * Scale * Scale
        + ((((p * r * q) * pt + (p * r * w) * pt) + ((p * o * q) * pt + (p * o * w) * nt))
           + (((n * r * q) * pf + (n * r * w) * pf) + ((n * o * q) * nf + (n * o * w) * pf)))
  BY DEF MapLoss, Both, LossOf
<1>4. Part(c, FALSE, a) + Part(c, TRUE, b)
        = ((p * (0 + o * w)) * nt + (n * (0 + o * q)) * nf)
           + ((p * (r * Scale + o * q)) * pt + (n * (r * Scale + o * w)) * pf)
  BY DEF Part, Weigh
<1>. HIDE DEF p, n, r, o, q, w, pt, pf, nt, nf
<1>5. (((p * r * q) * pt + (p * r * w) * pt) + ((p * o * q) * pt + (p * o * w) * nt))
           + (((n * r * q) * pf + (n * r * w) * pf) + ((n * o * q) * nf + (n * o * w) * pf))
         = ((p * (0 + o * w)) * nt + (n * (0 + o * q)) * nf)
           + ((p * (r * Scale + o * q)) * pt + (n * (r * Scale + o * w)) * pf)
  <2>1. (p * r * q) * pt + (p * r * w) * pt = (p * (r * Scale)) * pt
    BY <1>1, <1>2
  <2>2. (n * r * q) * pf + (n * r * w) * pf = (n * (r * Scale)) * pf
    BY <1>1, <1>2
  <2>. QED
    BY <1>1, <1>2, <2>1, <2>2
<1>. QED
  BY <1>3, <1>4, <1>5

\* The masses after a read are one factor times the weights of the outcome.
LEMMA PlanMasses ==
  ASSUME NEW c \in Configs, NEW k \in Nat \ {0}, Whole = k * (Scale * Scale * Scale)
  PROVE  /\ Prior(c.prior) = [h |-> c.prior * (k * Scale * Scale), n |-> (Scale - c.prior) * (k * Scale * Scale)]
         /\ \A positive \in BOOLEAN : Joint(Prior(c.prior), c.channel, positive)
              = [h |-> k * Weigh(c, positive).h, n |-> k * Weigh(c, positive).n]
<1>1. Scale \in Nat \ {0} /\ k * Scale * Scale \in Nat /\ Scale * Scale \in Nat \ {0}
  BY ConfigParts
<1>2. Whole \div Scale = k * Scale * Scale
  <2>1. Whole = (k * Scale * Scale) * Scale
    BY <1>1
  <2>. QED
    BY <1>1, <2>1, DivExact
<1>3. Prior(c.prior) = [h |-> c.prior * (k * Scale * Scale), n |-> (Scale - c.prior) * (k * Scale * Scale)]
  BY <1>2 DEF Prior
<1>4. ASSUME NEW x \in Nat, NEW v \in Nat
      PROVE  ((x * (k * Scale * Scale)) * v) \div (Scale * Scale) = k * (x * v)
  <2>1. (x * (k * Scale * Scale)) * v = (k * (x * v)) * (Scale * Scale)
    BY <1>1
  <2>2. x * v \in Nat /\ k * (x * v) \in Nat
    OBVIOUS
  <2>. QED
    BY <1>1, <2>1, <2>2, DivExact
<1>5. ASSUME NEW positive \in BOOLEAN
      PROVE  Joint(Prior(c.prior), c.channel, positive) = [h |-> k * Weigh(c, positive).h, n |-> k * Weigh(c, positive).n]
  <2>. DEFINE own == Scale - c.channel.rho
              copied == IF positive THEN c.channel.rho * Scale ELSE 0
              wrong == Scale - c.channel.q
              hv == copied + own * (IF positive THEN c.channel.q ELSE wrong)
              nv == copied + own * (IF positive THEN wrong ELSE c.channel.q)
  <2>1. own \in Nat /\ wrong \in Nat /\ copied \in Nat /\ c.channel.q \in Nat /\ c.prior \in Nat /\ Scale - c.prior \in Nat
    BY ConfigParts
  <2>2. hv \in Nat /\ nv \in Nat
    BY <2>1
  <2>3. Joint(Prior(c.prior), c.channel, positive)
          = [h |-> ((c.prior * (k * Scale * Scale)) * hv) \div (Scale * Scale),
             n |-> (((Scale - c.prior) * (k * Scale * Scale)) * nv) \div (Scale * Scale)]
    BY <1>3 DEF Joint
  <2>4. Weigh(c, positive) = [h |-> c.prior * hv, n |-> (Scale - c.prior) * nv]
    BY DEF Weigh
  <2>. HIDE DEF hv, nv
  <2>5. /\ ((c.prior * (k * Scale * Scale)) * hv) \div (Scale * Scale) = k * (c.prior * hv)
        /\ (((Scale - c.prior) * (k * Scale * Scale)) * nv) \div (Scale * Scale) = k * ((Scale - c.prior) * nv)
    BY <1>4, <2>1, <2>2
  <2>. QED
    BY <2>3, <2>4, <2>5
<1>. QED
  BY <1>3, <1>5

\* So are the terms the planner compares.
LEMMA PlanTerms ==
  ASSUME NEW c \in Configs, NEW k \in Nat \ {0}, Whole = k * (Scale * Scale * Scale)
  PROVE  /\ \A positive \in BOOLEAN :
              /\ StopTerms(Joint(Prior(c.prior), c.channel, positive), c.losses) \in [1 .. 3 -> Int]
              /\ \A i \in 1 .. 3 : StopTerms(Joint(Prior(c.prior), c.channel, positive), c.losses)[i]
                                     = k * Part(c, positive, Actions[i])
         /\ StopTerms(Prior(c.prior), c.losses) \in [1 .. 3 -> Int]
         /\ \A i \in 1 .. 3 : StopTerms(Prior(c.prior), c.losses)[i]
                                = k * (Part(c, FALSE, Actions[i]) + Part(c, TRUE, Actions[i]))
         /\ \A positive \in BOOLEAN, i \in 1 .. 3 : Part(c, positive, Actions[i]) \in Int
<1>. DEFINE A == c.losses.abstain
            R == c.losses.reject
            E == c.losses.accept
<1>0. A \in Int /\ R \in Int /\ E \in Int /\ 1 .. 3 = {1, 2, 3}
  BY ConfigParts
<1>1. ASSUME NEW positive \in BOOLEAN
      PROVE  Weigh(c, positive).h \in Int /\ Weigh(c, positive).n \in Int
  BY ConfigParts DEF Weigh
<1>2. ASSUME NEW positive \in BOOLEAN
      PROVE  /\ Part(c, positive, Actions[1]) = Weigh(c, positive).h * A + Weigh(c, positive).n * A
             /\ Part(c, positive, Actions[2]) = Weigh(c, positive).h * R + Weigh(c, positive).n * 0
             /\ Part(c, positive, Actions[3]) = Weigh(c, positive).h * 0 + Weigh(c, positive).n * E
  BY DEF Part, Actions, LossOf
<1>3. ASSUME NEW mass
      PROVE  StopTerms(mass, c.losses) = <<(mass.h + mass.n) * A, mass.h * R, mass.n * E>>
  BY DEF StopTerms
<1>4. ASSUME NEW positive \in BOOLEAN
      PROVE  /\ StopTerms(Joint(Prior(c.prior), c.channel, positive), c.losses) \in [1 .. 3 -> Int]
             /\ \A i \in 1 .. 3 : StopTerms(Joint(Prior(c.prior), c.channel, positive), c.losses)[i]
                                     = k * Part(c, positive, Actions[i])
             /\ \A i \in 1 .. 3 : Part(c, positive, Actions[i]) \in Int
  <2>. DEFINE x == Weigh(c, positive).h
              y == Weigh(c, positive).n
  <2>1. x \in Int /\ y \in Int
    BY <1>1
  <2>2. Joint(Prior(c.prior), c.channel, positive) = [h |-> k * x, n |-> k * y]
    BY PlanMasses
  <2>3. StopTerms(Joint(Prior(c.prior), c.channel, positive), c.losses) = <<(k * x + k * y) * A, (k * x) * R, (k * y) * E>>
    BY <2>2 DEF StopTerms
  <2>4. /\ Part(c, positive, Actions[1]) = x * A + y * A
        /\ Part(c, positive, Actions[2]) = x * R + y * 0
        /\ Part(c, positive, Actions[3]) = x * 0 + y * E
    BY <1>2
  <2>. HIDE DEF x, y, A, R, E
  <2>5. /\ (k * x + k * y) * A = k * (x * A + y * A) /\ (k * x) * R = k * (x * R + y * 0)
        /\ (k * y) * E = k * (x * 0 + y * E)
    BY <1>0, <2>1
  <2>6. /\ (k * x + k * y) * A \in Int /\ (k * x) * R \in Int /\ (k * y) * E \in Int
        /\ x * A + y * A \in Int /\ x * R + y * 0 \in Int /\ x * 0 + y * E \in Int
    BY <1>0, <2>1
  <2>. QED
    BY <1>0, <2>3, <2>4, <2>5, <2>6
<1>5. /\ StopTerms(Prior(c.prior), c.losses) \in [1 .. 3 -> Int]
      /\ \A i \in 1 .. 3 : StopTerms(Prior(c.prior), c.losses)[i]
                                = k * (Part(c, FALSE, Actions[i]) + Part(c, TRUE, Actions[i]))
  <2>. DEFINE x0 == Weigh(c, FALSE).h
              y0 == Weigh(c, FALSE).n
              x1 == Weigh(c, TRUE).h
              y1 == Weigh(c, TRUE).n
              h == c.prior * (k * Scale * Scale)
              n == (Scale - c.prior) * (k * Scale * Scale)
  <2>1. /\ x0 \in Int /\ y0 \in Int /\ x1 \in Int /\ y1 \in Int
        /\ h = k * (x0 + x1) /\ n = k * (y0 + y1)
    <3>. DEFINE p == c.prior
                m == Scale - c.prior
                r == c.channel.rho
                o == Scale - c.channel.rho
                q == c.channel.q
                w == Scale - c.channel.q
    <3>1. /\ p \in Int /\ m \in Int /\ r \in Int /\ o \in Int /\ q \in Int /\ w \in Int /\ Scale \in Int
          /\ q + w = Scale /\ r + o = Scale
      BY ConfigParts
    <3>2. /\ x0 = p * (0 + o * w) /\ x1 = p * (r * Scale + o * q)
          /\ y0 = m * (0 + o * q) /\ y1 = m * (r * Scale + o * w)
      BY DEF Weigh
    <3>3. h = p * (k * Scale * Scale) /\ n = m * (k * Scale * Scale)
      OBVIOUS
    <3>. HIDE DEF x0, y0, x1, y1, h, n, p, m, r, o, q, w
    <3>4. Scale * Scale = (0 + o * w) + (r * Scale + o * q) /\ Scale * Scale = (0 + o * q) + (r * Scale + o * w)
      <4>1. o * w + o * q = o * Scale /\ r * Scale + o * Scale = Scale * Scale
        <5>1. o * w + o * q = o * (q + w) /\ r * Scale + o * Scale = (r + o) * Scale
          BY <3>1
        <5>. QED
          BY <3>1, <5>1
      <4>. QED
        BY <3>1, <4>1
    <3>5. p * (k * Scale * Scale) = k * (p * (Scale * Scale)) /\ m * (k * Scale * Scale) = k * (m * (Scale * Scale))
      BY <3>1
    <3>6. p * (Scale * Scale) = p * (0 + o * w) + p * (r * Scale + o * q)
      BY <3>1, <3>4
    <3>7. m * (Scale * Scale) = m * (0 + o * q) + m * (r * Scale + o * w)
      BY <3>1, <3>4
    <3>8. p * (0 + o * w) \in Int /\ p * (r * Scale + o * q) \in Int /\ m * (0 + o * q) \in Int /\ m * (r * Scale + o * w) \in Int
      BY <3>1
    <3>. QED
      BY <3>2, <3>3, <3>5, <3>6, <3>7, <3>8
  <2>2. StopTerms(Prior(c.prior), c.losses) = <<(h + n) * A, h * R, n * E>>
    <3>1. Prior(c.prior) = [h |-> h, n |-> n]
      BY PlanMasses
    <3>. QED
      BY <3>1 DEF StopTerms
  <2>3. /\ Part(c, FALSE, Actions[1]) = x0 * A + y0 * A /\ Part(c, TRUE, Actions[1]) = x1 * A + y1 * A
        /\ Part(c, FALSE, Actions[2]) = x0 * R + y0 * 0 /\ Part(c, TRUE, Actions[2]) = x1 * R + y1 * 0
        /\ Part(c, FALSE, Actions[3]) = x0 * 0 + y0 * E /\ Part(c, TRUE, Actions[3]) = x1 * 0 + y1 * E
    BY <1>2
  <2>. HIDE DEF x0, y0, x1, y1, h, n, A, R, E
  <2>4. /\ (h + n) * A = k * ((x0 * A + y0 * A) + (x1 * A + y1 * A))
        /\ h * R = k * ((x0 * R + y0 * 0) + (x1 * R + y1 * 0))
        /\ n * E = k * ((x0 * 0 + y0 * E) + (x1 * 0 + y1 * E))
        /\ (h + n) * A \in Int /\ h * R \in Int /\ n * E \in Int
    BY <1>0, <2>1
  <2>5. /\ (h + n) * A = k * (Part(c, FALSE, Actions[1]) + Part(c, TRUE, Actions[1]))
        /\ h * R = k * (Part(c, FALSE, Actions[2]) + Part(c, TRUE, Actions[2]))
        /\ n * E = k * (Part(c, FALSE, Actions[3]) + Part(c, TRUE, Actions[3]))
    BY <2>3, <2>4
  <2>6. (h + n) * A \in Int /\ h * R \in Int /\ n * E \in Int
    BY <2>4
  <2>. DEFINE f == (h + n) * A
              g == h * R
              e == n * E
  <2>. HIDE DEF f, g, e
  <2>7. StopTerms(Prior(c.prior), c.losses) = <<f, g, e>> /\ f \in Int /\ g \in Int /\ e \in Int
    BY <2>2, <2>6 DEF f, g, e
  <2>8. /\ f = k * (Part(c, FALSE, Actions[1]) + Part(c, TRUE, Actions[1]))
        /\ g = k * (Part(c, FALSE, Actions[2]) + Part(c, TRUE, Actions[2]))
        /\ e = k * (Part(c, FALSE, Actions[3]) + Part(c, TRUE, Actions[3]))
    BY <2>5 DEF f, g, e
  <2>9. /\ StopTerms(Prior(c.prior), c.losses) \in [1 .. 3 -> Int]
        /\ StopTerms(Prior(c.prior), c.losses)[1] = f
        /\ StopTerms(Prior(c.prior), c.losses)[2] = g
        /\ StopTerms(Prior(c.prior), c.losses)[3] = e
    BY <1>0, <2>7
  <2>. QED
    BY <1>0, <2>8, <2>9, Zenon
<1>. QED
  BY <1>4, <1>5

\* Decisions counts the actions that decide.
LEMMA DecisionsCount ==
  ASSUME NEW i \in 1 .. 3, NEW j \in 1 .. 3
  PROVE  Decisions(<<Actions[i], Actions[j]>>) = Decided(i) + Decided(j)
<1>. DEFINE a == Actions[i]
            b == Actions[j]
            D == {n \in {1, 2} : <<a, b>>[n] # "abstain"}
<1>1. (a = "abstain" <=> i = 1) /\ (b = "abstain" <=> j = 1)
  BY DEF Actions
<1>2. D = (IF i = 1 THEN {} ELSE {1}) \cup (IF j = 1 THEN {} ELSE {2})
  BY <1>1
<1>3. /\ Cardinality({}) = 0 /\ Cardinality({1}) = 1 /\ Cardinality({2}) = 1
      /\ Cardinality({1} \cup {2}) = 2
  <2>1. IsFiniteSet({1})
    BY FS_Singleton
  <2>2. 2 \notin {1}
    OBVIOUS
  <2>. QED
    BY <2>1, <2>2, FS_EmptySet, FS_Singleton, FS_AddElement
<1>4. Cardinality(D) = Decided(i) + Decided(j)
  <2>1. CASE i = 1 /\ j = 1
    <3>1. D = {}
      BY <1>2, <2>1
    <3>. QED
      BY <1>3, <2>1, <3>1 DEF Decided
  <2>2. CASE i = 1 /\ j # 1
    <3>1. D = {2}
      BY <1>2, <2>2
    <3>. QED
      BY <1>3, <2>2, <3>1 DEF Decided
  <2>3. CASE i # 1 /\ j = 1
    <3>1. D = {1}
      BY <1>2, <2>3
    <3>. QED
      BY <1>3, <2>3, <3>1 DEF Decided
  <2>4. CASE i # 1 /\ j # 1
    <3>1. D = {1} \cup {2}
      BY <1>2, <2>4
    <3>. QED
      BY <1>3, <2>4, <3>1 DEF Decided
  <2>. QED
    BY <2>1, <2>2, <2>3, <2>4
<1>. QED
  BY <1>4 DEF Decisions

\* The plan of a configuration is the best map, bought exactly when it beats every answer
\* without a read.
LEMMA PlanBest ==
  ASSUME NEW c \in Configs
  PROVE  LET Choice == Range(Actions)
             maps == Choice \X Choice
             loss(m) == MapLoss(c, m[1], m[2])
             blind(a) == MapLoss(c, a, a) - c.cost * Scale * Scale * Scale
             best == Min({loss(m) : m \in maps})
             plan == PlanOf(c)
             chosen == <<plan.negative, plan.positive>>
         IN /\ loss(chosen) = best
            /\ \A m \in maps : loss(m) = best => Decisions(chosen) <= Decisions(m)
            /\ plan.purchase <=> \A a \in Choice : best < blind(a)
            /\ \A a \in Choice : blind(plan.stop) <= blind(a)
<1>1. PICK k \in Nat \ {0} : Whole = k * (Scale * Scale * Scale)
  BY WholeDivides
<1>. DEFINE Choice == Range(Actions)
            maps == Choice \X Choice
            loss(m) == MapLoss(c, m[1], m[2])
            base == c.cost * Scale * Scale * Scale
            blind(a) == MapLoss(c, a, a) - c.cost * Scale * Scale * Scale
            best == Min({loss(m) : m \in maps})
            plan == PlanOf(c)
            chosen == <<plan.negative, plan.positive>>
            terms == StopTerms(Prior(c.prior), c.losses)
            stop == ArgminTie(terms)
            negative == StopTerms(Joint(Prior(c.prior), c.channel, FALSE), c.losses)
            positive == StopTerms(Joint(Prior(c.prior), c.channel, TRUE), c.losses)
            P(a, b) == Part(c, FALSE, a) + Part(c, TRUE, b)
<1>2. /\ negative \in [1 .. 3 -> Int] /\ positive \in [1 .. 3 -> Int] /\ terms \in [1 .. 3 -> Int]
      /\ \A x \in 1 .. 3 : negative[x] = k * Part(c, FALSE, Actions[x]) /\ positive[x] = k * Part(c, TRUE, Actions[x])
      /\ \A x \in 1 .. 3 : terms[x] = k * P(Actions[x], Actions[x])
  BY <1>1, PlanTerms
<1>3. \A x \in 1 .. 3 : /\ Part(c, FALSE, Actions[x]) \in Nat /\ Part(c, TRUE, Actions[x]) \in Nat
  <2>. TAKE x \in 1 .. 3
  <2>1. ASSUME NEW outcome \in BOOLEAN PROVE Part(c, outcome, Actions[x]) \in Nat
    <3>. DEFINE u == Weigh(c, outcome).h
                v == Weigh(c, outcome).n
                f == LossOf(c.losses, TRUE, Actions[x])
                g == LossOf(c.losses, FALSE, Actions[x])
    <3>1. u \in Nat /\ v \in Nat
      <4>. DEFINE own == Scale - c.channel.rho
                  copied == IF outcome THEN c.channel.rho * Scale ELSE 0
                  right == IF outcome THEN c.channel.q ELSE Scale - c.channel.q
                  wrong == IF outcome THEN Scale - c.channel.q ELSE c.channel.q
                  p == c.prior
                  n == Scale - c.prior
      <4>1. own \in Nat /\ copied \in Nat /\ right \in Nat /\ wrong \in Nat /\ p \in Nat /\ n \in Nat
        BY ConfigParts
      <4>2. u = p * (copied + own * right) /\ v = n * (copied + own * wrong)
        BY DEF Weigh
      <4>. HIDE DEF u, v, own, copied, right, wrong, p, n
      <4>. QED
        BY <4>1, <4>2
    <3>2. f \in Nat /\ g \in Nat
      BY ConfigParts DEF LossOf
    <3>3. Part(c, outcome, Actions[x]) = u * f + v * g
      BY DEF Part
    <3>. HIDE DEF u, v, f, g
    <3>. QED
      BY <3>1, <3>2, <3>3
  <2>. QED
    BY <2>1
<1>4. base \in Nat /\ c.cost * Whole = k * base
  <2>1. c.cost \in Nat /\ Scale \in Nat
    BY ConfigParts
  <2>. QED
    BY <1>1, <2>1
<1>5. \A a, b : MapLoss(c, a, b) = base + P(a, b)
  BY MapLossParts
<1>6. Choice = {Actions[x] : x \in 1 .. 3}
  BY DEF Range, Actions
<1>. HIDE DEF base, negative, positive, terms
<1>7. PICK i \in 1 .. 3, j \in 1 .. 3 :
        /\ SharedMap(negative, positive) = <<negative[i] + positive[j], Actions[i], Actions[j]>>
        /\ \A x, y \in 1 .. 3 :
             /\ negative[i] + positive[j] <= negative[x] + positive[y]
             /\ negative[i] + positive[j] = negative[x] + positive[y] => Decided(i) + Decided(j) <= Decided(x) + Decided(y)
  BY <1>2, SharedMapBest
<1>8. stop \in 1 .. 3 /\ \A x \in 1 .. 3 : terms[stop] <= terms[x]
  <2>1. {x \in 1 .. 3 : terms[x] = Min(Range(terms))} # {}
    BY <1>2, LeastTerm
  <2>2. {x \in 1 .. 3 : terms[x] = Min(Range(terms))} \in SUBSET (0 .. 3)
    OBVIOUS
  <2>3. stop \in {x \in 1 .. 3 : terms[x] = Min(Range(terms))}
    BY <2>1, <2>2, FirstOf DEF ArgminTie
  <2>. QED
    BY <1>2, <2>3, LeastTerm
<1>9. /\ plan.negative = Actions[i] /\ plan.positive = Actions[j] /\ plan.stop = Actions[stop]
      /\ plan.purchase <=> /\ ~(c.cost * Whole >= terms[stop])
                           /\ terms[stop] > c.cost * Whole + (negative[i] + positive[j])
  <2>. DEFINE delta == SharedMap(negative, positive)
  <2>1. PlanOf(c) = [stop |-> Actions[stop],
                     purchase |-> ~(c.cost * Whole >= terms[stop]) /\ terms[stop] > c.cost * Whole + delta[1],
                     negative |-> delta[2], positive |-> delta[3]]
    BY Zenon DEF PlanOf, PlanInspection, terms, negative, positive
  <2>2. delta[1] = negative[i] + positive[j] /\ delta[2] = Actions[i] /\ delta[3] = Actions[j]
    BY <1>7
  <2>. DEFINE buy == ~(c.cost * Whole >= terms[stop]) /\ terms[stop] > c.cost * Whole + delta[1]
  <2>3. /\ plan.negative = delta[2] /\ plan.positive = delta[3] /\ plan.stop = Actions[stop]
        /\ plan.purchase = buy
    <3>. DEFINE answer == Actions[stop]
    <3>1. PlanOf(c) = [stop |-> answer, purchase |-> buy, negative |-> delta[2], positive |-> delta[3]]
      BY <2>1
    <3>. HIDE DEF buy, answer, delta
    <3>2. plan.negative = delta[2] /\ plan.positive = delta[3] /\ plan.stop = answer /\ plan.purchase = buy
      BY <3>1
    <3>. QED
      BY <3>2 DEF answer
  <2>. HIDE DEF delta, stop, plan
  <2>. QED
    BY <2>2, <2>3, Zenon
<1>. HIDE DEF stop
<1>10. ASSUME NEW x \in 1 .. 3, NEW y \in 1 .. 3
       PROVE  P(Actions[x], Actions[y]) \in Nat /\ negative[x] + positive[y] = k * P(Actions[x], Actions[y])
  <2>. DEFINE u == Part(c, FALSE, Actions[x])
              v == Part(c, TRUE, Actions[y])
  <2>1. u \in Nat /\ v \in Nat /\ negative[x] = k * u /\ positive[y] = k * v
    BY <1>2, <1>3
  <2>2. P(Actions[x], Actions[y]) = u + v
    OBVIOUS
  <2>. HIDE DEF u, v, P
  <2>. QED
    BY <2>1, <2>2
<1>. HIDE DEF P
<1>11. ASSUME NEW x \in 1 .. 3, NEW y \in 1 .. 3
       PROVE  P(Actions[i], Actions[j]) <= P(Actions[x], Actions[y])
  <2>1. k * P(Actions[i], Actions[j]) <= k * P(Actions[x], Actions[y])
    BY <1>7, <1>10
  <2>. QED
    BY <1>10, <2>1, FactorOut
<1>12. chosen \in maps /\ loss(chosen) = base + P(Actions[i], Actions[j])
  BY <1>5, <1>6, <1>9
<1>13. ASSUME NEW m \in maps
       PROVE  \E x, y \in 1 .. 3 : m = <<Actions[x], Actions[y]>> /\ loss(m) = base + P(Actions[x], Actions[y])
  <2>1. PICK x \in 1 .. 3, y \in 1 .. 3 : m[1] = Actions[x] /\ m[2] = Actions[y] /\ m = <<m[1], m[2]>>
    BY <1>6
  <2>. QED
    BY <1>5, <2>1
<1>14. best = base + P(Actions[i], Actions[j])
  <2>. DEFINE losses == {loss(m) : m \in maps}
              least == base + P(Actions[i], Actions[j])
  <2>1. losses \in SUBSET Int /\ \A v \in losses : least <= v
    BY <1>4, <1>10, <1>11, <1>13
  <2>2. least \in losses
    BY <1>12
  <2>. HIDE DEF losses, least
  <2>3. Min(losses) = least
    BY <2>1, <2>2, MinIs
  <2>. QED
    BY <2>3 DEF losses, least
<1>. HIDE DEF maps, best
<1>15. ASSUME NEW m \in maps, loss(m) = best
       PROVE  Decisions(chosen) <= Decisions(m)
  <2>1. PICK x \in 1 .. 3, y \in 1 .. 3 : m = <<Actions[x], Actions[y]>> /\ loss(m) = base + P(Actions[x], Actions[y])
    BY <1>13
  <2>2. P(Actions[x], Actions[y]) = P(Actions[i], Actions[j])
    <3>. DEFINE u == P(Actions[x], Actions[y])
                v == P(Actions[i], Actions[j])
    <3>1. u \in Nat /\ v \in Nat
      BY <1>10
    <3>2. base + u = base + v
      BY <1>14, <1>15, <2>1
    <3>. HIDE DEF u, v
    <3>3. u = v
      BY <1>4, <3>1, <3>2
    <3>. QED
      BY <3>3 DEF u, v
  <2>3. negative[x] + positive[y] = negative[i] + positive[j]
    BY <1>10, <2>2
  <2>4. Decided(i) + Decided(j) <= Decided(x) + Decided(y)
    BY <1>7, <2>3
  <2>. QED
    BY <1>9, <2>1, <2>4, DecisionsCount
<1>16. ASSUME NEW x \in 1 .. 3
       PROVE  /\ blind(Actions[x]) = P(Actions[x], Actions[x])
              /\ blind(Actions[stop]) <= blind(Actions[x])
  <2>1. \A y \in 1 .. 3 : blind(Actions[y]) = P(Actions[y], Actions[y])
    <3>. TAKE y \in 1 .. 3
    <3>1. P(Actions[y], Actions[y]) \in Nat
      BY <1>10
    <3>2. blind(Actions[y]) = (base + P(Actions[y], Actions[y])) - base
      BY <1>5 DEF base
    <3>. QED
      BY <1>4, <3>1, <3>2
  <2>2. k * P(Actions[stop], Actions[stop]) <= k * P(Actions[x], Actions[x])
    BY <1>2, <1>8 DEF P
  <2>. QED
    BY <1>8, <1>10, <2>1, <2>2, FactorOut
<1>17. plan.purchase <=> \A a \in Choice : best < blind(a)
  <2>. DEFINE u == P(Actions[i], Actions[j])
              v == P(Actions[stop], Actions[stop])
  <2>1. u \in Nat /\ v \in Nat
    BY <1>8, <1>10
  <2>2. terms[stop] = k * v /\ negative[i] + positive[j] = k * u
    BY <1>2, <1>8, <1>10 DEF P
  <2>3. (\A a \in Choice : best < blind(a)) <=> base + u < v
    <3>1. \A x \in 1 .. 3 : blind(Actions[x]) \in Int /\ v <= blind(Actions[x])
      BY <1>8, <1>10, <1>16
    <3>2. blind(Actions[stop]) = v /\ best = base + u
      BY <1>8, <1>14, <1>16
    <3>. HIDE DEF u, v, blind
    <3>. QED
      BY <1>4, <1>6, <1>8, <2>1, <3>1, <3>2
  <2>. HIDE DEF u, v
  <2>4. plan.purchase <=> ~(k * base >= k * v) /\ k * v > k * base + k * u
    BY <1>4, <1>9, <2>2
  <2>5. (k * v > k * base + k * u) <=> base + u < v
    <3>1. k * base + k * u = k * (base + u) /\ base + u \in Int
      BY <1>4, <2>1
    <3>2. k * v <= k * (base + u) <=> v <= base + u
      BY <2>1, <3>1, FactorOut
    <3>3. k * v \in Int /\ k * (base + u) \in Int
      BY <2>1, <3>1
    <3>. QED
      BY <2>1, <3>1, <3>2, <3>3
  <2>6. base + u < v => ~(k * base >= k * v)
    <3>1. k * v <= k * base <=> v <= base
      BY <1>4, <2>1, FactorOut
    <3>2. k * v \in Int /\ k * base \in Int
      BY <1>4, <2>1
    <3>. QED
      BY <1>4, <2>1, <3>1, <3>2
  <2>. QED
    BY <2>3, <2>4, <2>5, <2>6
<1>18. \A a \in Choice : blind(plan.stop) <= blind(a)
  BY <1>6, <1>9, <1>16
<1>. QED
  BY <1>12, <1>14, <1>15, <1>17, <1>18 DEF maps, best

\* The frozen plan of every configuration (plan_inspection) is the map of least loss with
\* the fewest decisions, the read is bought exactly when that beats every answer without
\* it, and otherwise the plan stops with the best of these.
THEOREM PlansOptimal == InspectionSpec => []PlanOptimal
<1>1. InspectionInv => PlanOptimal
  <2>1. ASSUME InspectionInv, insp.at = "frozen", NEW c \in insp.config, NEW plan \in insp.plan
        PROVE  c \in Configs /\ plan = PlanOf(c)
    BY <2>1 DEF InspectionInv, ProcessInv, OnePlan
  <2>. QED
    BY <2>1, PlanBest DEF PlanOptimal
<1>. QED
  BY <1>1, InspectionInvariance, PTL

-----------------------------------------------------------------------------
\* The rule that picks work

\* A set of numbers has a least one, at most every other.
LEMMA LeastNatural ==
  ASSUME NEW S \in SUBSET Nat, S # {}
  PROVE  Min(S) \in S /\ \A n \in S : Min(S) <= n
<1>1. PICK m \in S : \A n \in S : <<n, m>> \notin OpToRel(<, Nat)
  BY NatLessThanWellFounded, WFMin
<1>2. \A n \in S : m <= n
  <2>. TAKE n \in S
  <2>1. ~(n < m)
    BY <1>1 DEF OpToRel
  <2>. QED
    BY <2>1
<1>. QED
  BY <1>2 DEF Min

\* However long the queue, whatever the draws, the threshold or the response (_scan of
\* runner/runtime_policies.py): an agent that no other eligible for some row undercuts
\* takes one of the rows, so ready work is never left to somebody cheaper by everybody.
THEOREM CheapestClaims ==
  ASSUME NEW S, NEW ready \in Seq(S), NEW capacity, NEW actor,
         NEW exponent, NEW draws,
         NEW i \in DOMAIN ready, actor \in ready[i].eligible,
         \A n \in ready[i].eligible : /\ capacity.workers[n] \in Nat
                                     /\ capacity.workers[actor] <= capacity.workers[n]
  PROVE  \E j \in DOMAIN ready : Scan(ready, capacity, actor, exponent, draws) = {ready[j].id}
<1>. DEFINE turned(j) == <<ready[j]>> \o RemoveAt(ready, j)
            arg(j) == Arguments(capacity, ready[j].eligible, actor)
            pick(j) == PickResponse(turned(j), arg(j), exponent, draws[actor, ready[j].id])
            taken == {j \in DOMAIN ready : pick(j) # {}}
<1>1. \A j \in DOMAIN ready : PickFifo(turned(j)) = {ready[j].id}
  <2>. TAKE j \in DOMAIN ready
  <2>1. RemoveAt(ready, j) \in Seq(S) /\ ready[j] \in S
    <3>1. j \in 1 .. Len(ready) /\ Len(ready) \in Nat
      OBVIOUS
    <3>2. SubSeq(ready, 1, j - 1) \in Seq(S) /\ SubSeq(ready, j + 1, Len(ready)) \in Seq(S)
      BY <3>1
    <3>. QED
      BY <3>1, <3>2 DEF RemoveAt
  <2>2. turned(j) # <<>> /\ Head(turned(j)) = ready[j]
    BY <2>1
  <2>. QED
    BY <2>2 DEF PickFifo
<1>. HIDE DEF turned
<1>2. ASSUME NEW j \in DOMAIN ready
      PROVE  pick(j) = {} \/ pick(j) = {ready[j].id}
  BY <1>1 DEF PickResponse, PickThreshold
<1>3. Unrivalled(arg(i))
  <2>. DEFINE costs == {capacity.workers[n] : n \in ready[i].eligible}
  <2>1. costs \in SUBSET Nat /\ capacity.workers[actor] \in costs /\ \A n \in costs : capacity.workers[actor] <= n
    OBVIOUS
  <2>2. Min(costs) \in costs /\ \A n \in costs : Min(costs) <= n
    BY <2>1, LeastNatural
  <2>3. capacity.workers[actor] = Min(costs)
    <3>. HIDE DEF costs
    <3>1. Min(costs) \in Nat /\ capacity.workers[actor] \in Nat
      BY <2>1, <2>2
    <3>. QED
      BY <2>1, <2>2, <3>1
  <2>. QED
    BY <2>3 DEF Unrivalled, Arguments
<1>4. pick(i) = {ready[i].id}
  BY <1>1, <1>3 DEF PickResponse, PickThreshold
<1>. HIDE DEF pick
<1>5. Min(taken) \in taken
  <2>1. taken \in SUBSET Nat /\ taken # {}
    <3>1. DOMAIN ready \in SUBSET Nat
      OBVIOUS
    <3>2. i \in taken
      BY <1>4
    <3>. QED
      BY <3>1, <3>2
  <2>. QED
    BY <2>1, LeastNatural
<1>6. Scan(ready, capacity, actor, exponent, draws) = pick(Min(taken))
  BY <1>4 DEF Scan, pick, turned
<1>. QED
  BY <1>2, <1>5, <1>6
=============================================================================
