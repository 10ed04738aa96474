--------------------------- MODULE EvidenceProofs ---------------------------
(***************************************************************************)
(* Theorems about Evidence, for any sources, inspections and limits.       *)
(*                                                                         *)
(* A step of the layer is either a step of the base ledger whose use of a  *)
(* lease, or whose publication, was checked against the source as it is    *)
(* (AccessChecked), or a source_update.  The first kind keeps LedgerInv    *)
(* because every base step does; the second is dealt with here.  An update *)
(* bumps the epoch of the rows it fences whether or not a call of theirs   *)
(* is unknown, so of the base ledger's properties UnknownBlocksRetry and   *)
(* DependenciesFirst do not carry over: UnknownNotOffered and              *)
(* HeldOverArtifacts say what is left of them, and they suffice.           *)
(***************************************************************************)
EXTENDS Evidence, SessionProofs

EvidenceTypeOK ==
  /\ sources \in [DOMAIN Sources -> SourceRow]
  /\ inspections \in [DOMAIN inspections -> InspectionRow]
  /\ DOMAIN inspections \subseteq DOMAIN work

EvidenceInv ==
  /\ LedgerInv
  /\ DoneMeansPublished
  /\ EvidenceTypeOK
  /\ ReservationsCurrent
  /\ OutdatedIsClosed

-----------------------------------------------------------------------------
\* The steps of the layer

\* A new reservation and a new artifact are of somebody who may read the source.
AccessChecked ==
  /\ \A c \in DOMAIN calls' \ DOMAIN calls :
       Current(calls'[c].work, work[calls'[c].work].owner) /\ UNCHANGED work
  /\ \A w \in Fresh : Current(w, artifacts'[w].publisher) /\ run'.enabled

LedgerStep ==
  /\ [LedgerNext]_vars
  /\ OwnReceipts
  /\ AccessChecked
  /\ UNCHANGED <<sources, inspections>>

Update ==
  \E s \in DOMAIN sources, v \in Nat \ {0}, R \in SUBSET Agent, f \in Fingerprint :
    SourceUpdate(s, v, R, f)

\* A base step that neither reserves nor publishes.
LEMMA PlainStep ==
  ASSUME LedgerNext, UNCHANGED <<artifacts, sources, inspections>>,
         DOMAIN calls' = DOMAIN calls
  PROVE  LedgerStep
BY OldReceipts DEF LedgerStep, AccessChecked, Fresh

\* publish is checked before it records the artifact.
LEMMA PublicationStep ==
  ASSUME TypeOK, NEW l \in granted, NEW c \in DOMAIN calls, CurrentPublish(l, c)
  PROVE  LedgerStep
<1>1. /\ Publish(l, c)
      /\ Current(l.work, l.owner)
      /\ UNCHANGED <<sources, inspections>>
  BY DEF CurrentPublish, evidenceTables
<1>2. /\ LedgerNext /\ OwnReceipts
      /\ Fresh = {l.work}
      /\ artifacts'[l.work] = [call |-> c, publisher |-> l.owner]
  BY <1>1, PublishIsLedger
<1>3. DOMAIN calls' = DOMAIN calls /\ run'.enabled
  BY <1>1, AbandonedCalls DEF Publish, RecordArtifact, Holds, TypeOK, Run
<1>. QED
  BY <1>1, <1>2, <1>3 DEF LedgerStep, AccessChecked

\* So is publish_received, of which the claim is a part.
LEMMA ReceivedStep ==
  ASSUME TypeOK, NEW a \in Agent, NEW c \in DOMAIN calls, CurrentPublishReceived(a, c)
  PROVE  LedgerStep
<1>1. /\ PublishHeld(a, c) \/ PublishReclaimed(a, c)
      /\ Current(calls[c].work, a)
      /\ UNCHANGED <<sources, inspections>>
  BY DEF CurrentPublishReceived
<1>2. /\ LedgerNext /\ OwnReceipts
      /\ Fresh = {calls[c].work}
      /\ artifacts'[calls[c].work] = [call |-> c, publisher |-> a]
  BY <1>1, PublishReceivedIsLedger
<1>3. DOMAIN calls' = DOMAIN calls /\ run'.enabled
  BY <1>1, AbandonedCalls
     DEF PublishHeld, PublishReclaimed, Publishable, RecordArtifact, TypeOK, Run
<1>. QED
  BY <1>1, <1>2, <1>3 DEF LedgerStep, AccessChecked

\* reserve is checked through the lease.
LEMMA ReservationStep ==
  ASSUME TypeOK, NEW l \in granted, NEW c \in CallId, NEW p \in Tokens, NEW m \in Tokens,
         CurrentReserve(l, c, p, m)
  PROVE  LedgerStep
<1>1. /\ Reserve(l, c, p, m)
      /\ Current(l.work, l.owner)
      /\ UNCHANGED <<sources, inspections>>
  BY DEF CurrentReserve, evidenceTables
<1>2. LedgerNext /\ UNCHANGED <<work, artifacts>>
  BY <1>1, ReserveIsLedger DEF Reserve
<1>3. p \in Nat /\ m \in Nat
  BY LimitAssumption
<1>4. /\ DOMAIN calls' = DOMAIN calls \cup {c}
      /\ calls'[c].work = l.work
      /\ work[l.work].owner = l.owner
  BY <1>1, <1>3, ReservedRow DEF Holds
<1>. QED
  BY <1>1, <1>2, <1>4, OldReceipts DEF LedgerStep, AccessChecked, Fresh

\* Every step is a checked step of base code or an update.
LEMMA EvidenceSteps ==
  ASSUME TypeOK, [EvidenceNext]_evidenceVars
  PROVE  LedgerStep \/ Update
<1>1. CASE UNCHANGED evidenceVars
  BY <1>1, OldReceipts
     DEF evidenceVars, evidenceTables, vars, LedgerStep, AccessChecked, Fresh
<1>2. ASSUME NEW w \in DOMAIN work, Expire(w) /\ UNCHANGED evidenceTables PROVE LedgerStep
  BY <1>2, PlainStep DEF Expire, LedgerNext, evidenceTables
<1>3. CASE Recover /\ UNCHANGED evidenceTables
  BY <1>3, PlainStep, AbandonedCalls DEF Recover, LedgerNext, evidenceTables
<1>4. ASSUME NEW a \in Agent, NEW w \in DOMAIN work, CountedClaim(a, w) PROVE LedgerStep
  BY <1>4, PlainStep, AbandonedCalls DEF CountedClaim, Claim, LedgerNext
<1>5. ASSUME NEW l \in granted, NEW c \in CallId, NEW p \in Tokens, NEW m \in Tokens,
             CurrentReserve(l, c, p, m)
      PROVE  LedgerStep
  BY <1>5, ReservationStep
<1>6. ASSUME NEW l \in granted, NEW c \in DOMAIN calls, CurrentDispatch(l, c) PROVE LedgerStep
  BY <1>6, PlainStep, DispatchedRow DEF CurrentDispatch, LedgerNext, evidenceTables
<1>7. ASSUME NEW c \in DOMAIN calls, NEW p \in Tokens, NEW q \in Tokens, NEW o \in BOOLEAN,
             Receive(c, p, q, o) /\ UNCHANGED evidenceTables
      PROVE  LedgerStep
  BY <1>7, PlainStep, ReceiveIsLedger DEF Receive, Settle, evidenceTables
<1>8. ASSUME NEW l \in granted, NEW c \in DOMAIN calls, CurrentPublish(l, c) PROVE LedgerStep
  BY <1>8, PublicationStep
<1>9. ASSUME NEW a \in Agent, NEW c \in DOMAIN calls, CurrentPublishReceived(a, c)
      PROVE  LedgerStep
  BY <1>9, ReceivedStep
<1>10. CASE Cancel /\ UNCHANGED evidenceTables
  BY <1>10, PlainStep, AbandonedCalls DEF Cancel, LedgerNext, evidenceTables
<1>11. CASE \E s \in DOMAIN sources, v \in 1 .. MaxVersion, R \in SUBSET Agent, f \in Fingerprint :
              SourceUpdate(s, v, R, f)
  <2>1. 1 .. MaxVersion \subseteq Nat \ {0}
    BY SourceAssumption
  <2>. QED
    BY <1>11, <2>1 DEF Update
<1>. QED
  BY <1>1, <1>2, <1>3, <1>4, <1>5, <1>6, <1>7, <1>8, <1>9, <1>10, <1>11 DEF EvidenceNext

-----------------------------------------------------------------------------
\* source_update

\* The rows an update leaves: those it fences are superseded, held back or on offer.
Fences(s, v, R, f, hit, stale) ==
  /\ calls' = Abandon(hit)
  /\ UNCHANGED <<run, artifacts, granted, inspections>>
  /\ DOMAIN work' = DOMAIN work
  /\ work' \in [DOMAIN work -> Row]
  /\ hit \subseteq DOMAIN inspections
  /\ \A w \in DOMAIN inspections :
       /\ w \in stale <=> /\ inspections[w].source = s
                          /\ work[w].status \notin Closed
                          /\ Stale(w, v, f)
       /\ w \in hit <=> /\ inspections[w].source = s
                        /\ work[w].status \notin Closed
                        /\ Stale(w, v, f) \/ Revoked(w, R)
  /\ \A w \in DOMAIN work :
       /\ work'[w].dependencies = work[w].dependencies
       /\ w \notin hit => work'[w] = work[w]
       /\ w \in hit =>
            /\ work'[w].owner = None
            /\ work'[w].epoch = work[w].epoch + 1
            /\ w \in stale => work'[w].status = "superseded"
            /\ w \notin stale /\ Unknown(w) => work'[w].status = "uncertain"
            /\ w \notin stale /\ ~Unknown(w) => work'[w].status = "ready"

\* What source_update does to the rows and the calls.
LEMMA UpdatedRows ==
  ASSUME TypeOK, NEW s \in DOMAIN sources, NEW v \in Nat \ {0},
         NEW R \in SUBSET Agent, NEW f \in Fingerprint, SourceUpdate(s, v, R, f)
  PROVE  \E hit, stale : Fences(s, v, R, f, hit, stale)
<1>. DEFINE opened == {w \in DOMAIN inspections :
                         inspections[w].source = s
                         /\ work[w].status \notin {"done", "cancelled", "superseded"}}
            stale == {w \in opened : Stale(w, v, f)}
            hit == {w \in opened : w \in stale \/ Revoked(w, R)}
<1>1. /\ calls' = Abandon(hit)
      /\ work' = Fenced(work, hit, stale)
      /\ UNCHANGED <<run, artifacts, granted, inspections>>
  BY DEF SourceUpdate
<1>2. /\ hit \subseteq DOMAIN inspections
      /\ \A w \in DOMAIN inspections :
           /\ w \in stale <=> /\ inspections[w].source = s
                              /\ work[w].status \notin Closed
                              /\ Stale(w, v, f)
           /\ w \in hit <=> /\ inspections[w].source = s
                            /\ work[w].status \notin Closed
                            /\ Stale(w, v, f) \/ Revoked(w, R)
  BY DEF Closed
<1>. HIDE DEF opened, stale, hit
<1>3. DOMAIN work' = DOMAIN work
  BY <1>1 DEF Fenced
<1>4. ASSUME NEW w \in DOMAIN work
      PROVE  /\ work'[w] \in Row
             /\ work'[w].dependencies = work[w].dependencies
             /\ w \notin hit => work'[w] = work[w]
             /\ w \in hit =>
                  /\ work'[w].owner = None
                  /\ work'[w].epoch = work[w].epoch + 1
                  /\ w \in stale => work'[w].status = "superseded"
                  /\ w \notin stale /\ Unknown(w) => work'[w].status = "uncertain"
                  /\ w \notin stale /\ ~Unknown(w) => work'[w].status = "ready"
  <2>. DEFINE status == IF w \in stale THEN "superseded"
                        ELSE IF Unknown(w) THEN "uncertain" ELSE "ready"
              row == Free(work[w], status)
  <2>1. work[w] \in Row
    BY DEF TypeOK
  <2>2. status \in WorkStatus
    BY DEF WorkStatus
  <2>. HIDE DEF status
  <2>3. /\ row \in Row
        /\ row.status = status /\ row.owner = None /\ row.epoch = work[w].epoch
        /\ row.dependencies = work[w].dependencies
    BY <2>1, <2>2, FreedRow
  <2>4. work'[w] = IF w \in hit THEN [row EXCEPT !.epoch = row.epoch + 1] ELSE work[w]
    BY <1>1 DEF Fenced, status
  <2>. HIDE DEF row
  <2>5. CASE w \in hit
    <3>1. work'[w] = [row EXCEPT !.epoch = row.epoch + 1]
      BY <2>4, <2>5
    <3>2. /\ work'[w].epoch = row.epoch + 1
          /\ work'[w].status = row.status
          /\ work'[w].owner = row.owner
          /\ work'[w].dependencies = row.dependencies
      BY <2>3, <3>1 DEF Row
    <3>3. work'[w] \in Row
      BY <2>3, <3>1 DEF Row
    <3>. QED
      BY <2>3, <2>5, <3>2, <3>3 DEF status
  <2>6. CASE w \notin hit
    BY <2>1, <2>4, <2>6
  <2>. QED
    BY <2>5, <2>6
<1>5. work' \in [DOMAIN work -> Row]
  <2>1. work' = [w \in DOMAIN work |-> work'[w]]
    BY <1>1 DEF Fenced
  <2>. QED
    BY <1>4, <2>1
<1>6. \A w \in DOMAIN work :
        /\ work'[w].dependencies = work[w].dependencies
        /\ w \notin hit => work'[w] = work[w]
        /\ w \in hit =>
             /\ work'[w].owner = None
             /\ work'[w].epoch = work[w].epoch + 1
             /\ w \in stale => work'[w].status = "superseded"
             /\ w \notin stale /\ Unknown(w) => work'[w].status = "uncertain"
             /\ w \notin stale /\ ~Unknown(w) => work'[w].status = "ready"
  BY <1>4
<1>7. Fences(s, v, R, f, hit, stale)
  BY <1>1, <1>2, <1>3, <1>5, <1>6, Zenon DEF Fences
<1>. QED
  BY <1>7

\* An update keeps the invariant of the base ledger.
LEMMA UpdatedLedger ==
  ASSUME LedgerInv, EvidenceTypeOK, NEW s \in DOMAIN sources, NEW v \in Nat \ {0},
         NEW R \in SUBSET Agent, NEW f \in Fingerprint, SourceUpdate(s, v, R, f)
  PROVE  LedgerInv'
<1>0. TypeOK
  BY DEF LedgerInv
<1>a. PICK hit, stale : Fences(s, v, R, f, hit, stale)
  BY <1>0, UpdatedRows
<1>1. /\ calls' = Abandon(hit)
      /\ UNCHANGED <<run, artifacts, granted>>
      /\ DOMAIN work' = DOMAIN work
      /\ work' \in [DOMAIN work -> Row]
      /\ \A w \in hit : w \in DOMAIN work /\ work[w].status \notin Closed
      /\ \A w \in DOMAIN work :
           /\ work'[w].dependencies = work[w].dependencies
           /\ w \notin hit => work'[w] = work[w]
           /\ w \in hit =>
                /\ work'[w].owner = None
                /\ work'[w].epoch = work[w].epoch + 1
                /\ w \in stale => work'[w].status = "superseded"
                /\ w \notin stale /\ Unknown(w) => work'[w].status = "uncertain"
                /\ w \notin stale /\ ~Unknown(w) => work'[w].status = "ready"
  BY <1>a DEF Fences, EvidenceTypeOK
<1>2. /\ hit \subseteq DOMAIN work
      /\ \A w \in hit : /\ work[w].status \in {"ready", "leased", "uncertain"}
                        /\ work'[w].status \in {"superseded", "uncertain", "ready"}
                        /\ work'[w].status = "uncertain" => Unknown(w)
                        /\ work'[w].status = "ready" => ~Unknown(w)
  BY <1>0, <1>1 DEF EvidenceTypeOK, TypeOK, Row, WorkStatus, Closed
<1>3. \A c \in DOMAIN calls :
        /\ calls'[c].work = calls[c].work
        /\ calls'[c].epoch = calls[c].epoch
        /\ calls'[c].state = IF calls[c].work \in hit /\ calls[c].state = "reserved"
                             THEN "abandoned" ELSE calls[c].state
        /\ calls[c].work \in DOMAIN work
  BY <1>0, <1>1, AbandonedCalls DEF TypeOK
<1>4. DOMAIN calls' = DOMAIN calls
  BY <1>0, <1>1, AbandonedCalls
<1>. USE DEF LedgerInv
<1>5. TypeOK'
  BY <1>1, AbandonedCalls DEF TypeOK
<1>6. ReservationsBacked'
  BY <1>1, <1>3, <1>4 DEF ReservationsBacked
<1>7. UnknownNotOffered'
  <2>. SUFFICES ASSUME NEW c \in DOMAIN calls, calls'[c].state = "dispatched"
                PROVE  LET row == work'[calls'[c].work] IN
                       /\ row.status # "ready"
                       /\ row.status = "leased" => row.epoch = calls'[c].epoch
    BY <1>4 DEF UnknownNotOffered
  <2>1. calls[c].state = "dispatched"
    BY <1>3
  <2>2. Unknown(calls[c].work)
    BY <2>1 DEF Unknown
  <2>3. CASE calls[c].work \in hit
    BY <1>2, <1>3, <2>2, <2>3
  <2>4. CASE calls[c].work \notin hit
    BY <1>1, <1>3, <2>1, <2>4 DEF UnknownNotOffered
  <2>. QED
    BY <2>3, <2>4
<1>8. UncertainIsUnknown'
  <2>. SUFFICES ASSUME NEW w \in DOMAIN work, work'[w].status = "uncertain"
                PROVE  Unknown(w)'
    BY <1>1 DEF UncertainIsUnknown
  <2>1. Unknown(w)
    BY <1>1, <1>2 DEF UncertainIsUnknown
  <2>. QED
    BY <1>1, <2>1, UnknownKept
<1>9. GrantsBounded'
  BY <1>1 DEF TypeOK, GrantsBounded, Row, Lease
<1>10. OwnersLease'
  BY <1>1, <1>2 DEF OwnersLease
<1>11. NewestLeaseFenced'
  <2>1. \A l \in granted : Holds(l)' => Holds(l)
    BY <1>1, <1>2 DEF Holds
  <2>. QED
    BY <1>1, <2>1 DEF NewestLeaseFenced
<1>12. HeldOverArtifacts'
  <2>1. \A w \in hit : work'[w].status \in {"leased", "uncertain"} =>
                         work[w].status \in {"leased", "uncertain"}
    <3>. SUFFICES ASSUME NEW w \in hit, Unknown(w) PROVE work[w].status # "ready"
      BY <1>2
    <3>. QED
      BY DEF Unknown, UnknownNotOffered
  <2>2. \A w \in DOMAIN work :
          work'[w].status \in {"leased", "uncertain"} =>
            work[w].status \in {"leased", "uncertain"}
    BY <1>1, <2>1
  <2>. QED
    BY <1>1, <2>2 DEF HeldOverArtifacts
<1>13. RunMatchesWork'
  <2>1. ASSUME NEW w \in DOMAIN work
        PROVE  /\ work'[w].status = "done" <=> work[w].status = "done"
               /\ work'[w].status = "cancelled" <=> work[w].status = "cancelled"
    BY <1>1, <1>2
  <2>. QED
    BY <1>1, <2>1 DEF RunMatchesWork
<1>14. WithinBudget'
  BY <1>1, <1>5, AbandonedCalls, AbandonedCheaper, CheaperKeepsBudget
<1>. QED
  BY <1>5, <1>6, <1>7, <1>8, <1>9, <1>10, <1>11, <1>12, <1>13, <1>14

\* It installs a row of a source and touches no inspection.
LEMMA UpdatedTypes ==
  ASSUME LedgerInv, EvidenceTypeOK, NEW s \in DOMAIN sources, NEW v \in Nat \ {0},
         NEW R \in SUBSET Agent, NEW f \in Fingerprint, SourceUpdate(s, v, R, f)
  PROVE  EvidenceTypeOK'
<1>1. /\ sources' = [sources EXCEPT ![s] = [version |-> v, readers |-> R, fingerprint |-> f]]
      /\ inspections' = inspections
  BY DEF SourceUpdate
<1>2. DOMAIN work' = DOMAIN work
  BY UpdatedRows DEF LedgerInv, Fences
<1>. QED
  BY <1>1, <1>2 DEF EvidenceTypeOK, SourceRow

\* A lease an update does not fence is still of somebody who may read the source.
LEMMA UpdatedLease ==
  ASSUME LedgerInv, EvidenceTypeOK, NEW s \in DOMAIN sources, NEW v \in Nat \ {0},
         NEW R \in SUBSET Agent, NEW f \in Fingerprint, SourceUpdate(s, v, R, f),
         NEW hit, NEW stale, Fences(s, v, R, f, hit, stale),
         NEW w \in DOMAIN work, w \notin hit, work[w].status = "leased",
         Current(w, work[w].owner)
  PROVE  Current(w, work[w].owner)'
<1>1. UNCHANGED inspections
  BY DEF Fences
<1>2. /\ sources' = [sources EXCEPT ![s] = [version |-> v, readers |-> R, fingerprint |-> f]]
      /\ v >= sources[s].version
      /\ v = sources[s].version => f = sources[s].fingerprint
  BY DEF SourceUpdate
<1>3. work'[w] = work[w] /\ work[w].owner # None
  BY DEF Fences, LedgerInv, OwnersLease
<1>4. CASE w \notin DOMAIN inspections
  BY <1>1, <1>3, <1>4 DEF Current
<1>5. CASE w \in DOMAIN inspections /\ inspections[w].source # s
  <2>1. sources'[inspections[w].source] = sources[inspections[w].source]
    BY <1>2, <1>5 DEF EvidenceTypeOK, InspectionRow
  <2>. QED
    BY <1>1, <1>3, <1>5, <2>1 DEF Current
<1>6. CASE w \in DOMAIN inspections /\ inspections[w].source = s
  <2>1. ~Stale(w, v, f) /\ ~Revoked(w, R)
    BY <1>6 DEF Fences, Closed
  <2>2. /\ inspections[w].version = sources[s].version
        /\ inspections[w].fingerprint = sources[s].fingerprint
        /\ work[w].owner \in inspections[w].readers
    BY <1>6 DEF Current
  <2>3. inspections[w].version \in Nat /\ sources[s].version \in Nat
    BY <1>6 DEF EvidenceTypeOK, InspectionRow, SourceRow
  <2>4. inspections[w].version = v /\ inspections[w].fingerprint = f
    BY <1>2, <1>6, <2>1, <2>2, <2>3 DEF Stale
  <2>5. work[w].owner \in R
    BY <1>3, <2>1 DEF Revoked
  <2>6. sources'[s] = [version |-> v, readers |-> R, fingerprint |-> f]
    BY <1>2 DEF EvidenceTypeOK
  <2>. QED
    BY <1>1, <1>3, <1>6, <2>2, <2>4, <2>5, <2>6 DEF Current
<1>. QED
  BY <1>4, <1>5, <1>6

\* A reservation that survives an update is neither outdated nor of somebody who may
\* not read the source any more.
LEMMA UpdatedReservations ==
  ASSUME LedgerInv, EvidenceTypeOK, ReservationsCurrent,
         NEW s \in DOMAIN sources, NEW v \in Nat \ {0},
         NEW R \in SUBSET Agent, NEW f \in Fingerprint, SourceUpdate(s, v, R, f)
  PROVE  ReservationsCurrent'
<1>0. TypeOK
  BY DEF LedgerInv
<1>1. PICK hit, stale : Fences(s, v, R, f, hit, stale)
  BY <1>0, UpdatedRows
<1>2. calls' = Abandon(hit)
  BY <1>1 DEF Fences
<1>3. SUFFICES ASSUME NEW c \in DOMAIN calls, calls'[c].state = "reserved"
               PROVE  Current(calls[c].work, work[calls[c].work].owner)'
  BY <1>0, <1>2, AbandonedCalls DEF ReservationsCurrent
<1>. DEFINE w == calls[c].work
<1>4. /\ calls'[c].work = w
      /\ calls[c].state = "reserved"
      /\ w \notin hit
      /\ w \in DOMAIN work
  BY <1>0, <1>2, <1>3, AbandonedCalls DEF TypeOK
<1>5. work[w].status = "leased"
  BY <1>4 DEF LedgerInv, ReservationsBacked
<1>6. Current(w, work[w].owner)
  BY <1>4 DEF ReservationsCurrent
<1>7. Current(w, work[w].owner)'
  BY <1>1, <1>4, <1>5, <1>6, UpdatedLease
<1>. QED
  BY <1>4, <1>7

\* An update closes what it outdates, and what is closed stays closed.
LEMMA UpdatedClosed ==
  ASSUME LedgerInv, EvidenceTypeOK, OutdatedIsClosed,
         NEW s \in DOMAIN sources, NEW v \in Nat \ {0},
         NEW R \in SUBSET Agent, NEW f \in Fingerprint, SourceUpdate(s, v, R, f)
  PROVE  OutdatedIsClosed'
<1>0. TypeOK
  BY DEF LedgerInv
<1>1. PICK hit, stale : Fences(s, v, R, f, hit, stale)
  BY <1>0, UpdatedRows
<1>2. UNCHANGED inspections
  BY <1>1 DEF Fences
<1>3. /\ sources' = [sources EXCEPT ![s] = [version |-> v, readers |-> R, fingerprint |-> f]]
      /\ v >= sources[s].version
      /\ v = sources[s].version => f = sources[s].fingerprint
  BY DEF SourceUpdate
<1>4. SUFFICES ASSUME NEW w \in DOMAIN inspections
               PROVE  /\ (/\ Outdated(w)'
                          /\ sources'[inspections[w].source] # Sources[inspections[w].source])
                         => work'[w].status \in Closed
                      /\ work'[w].status = "superseded" => Outdated(w)'
  BY <1>2 DEF OutdatedIsClosed, Closed
<1>5. w \in DOMAIN work
  BY DEF EvidenceTypeOK
<1>6. CASE inspections[w].source # s
  <2>1. sources'[inspections[w].source] = sources[inspections[w].source]
    BY <1>3, <1>6 DEF EvidenceTypeOK, InspectionRow
  <2>2. work'[w] = work[w]
    BY <1>1, <1>5, <1>6 DEF Fences
  <2>. QED
    BY <1>2, <2>1, <2>2 DEF OutdatedIsClosed, Outdated, Stale, Closed
<1>7. CASE inspections[w].source = s
  <2>1. sources'[s].version = v /\ sources'[s].fingerprint = f
    BY <1>3 DEF EvidenceTypeOK
  <2>2. Outdated(w)' <=> Stale(w, v, f)
    BY <1>2, <1>7, <2>1 DEF Outdated, Stale
  <2>3. CASE work[w].status \in Closed
    <3>1. work'[w] = work[w]
      BY <1>1, <1>5, <2>3 DEF Fences
    <3>2. Outdated(w) => Stale(w, v, f)
      <4>1. inspections[w].version \in Nat /\ sources[s].version \in Nat
        BY <1>7 DEF EvidenceTypeOK, InspectionRow, SourceRow
      <4>. QED
        BY <1>3, <1>7, <4>1 DEF Outdated, Stale
    <3>. QED
      BY <2>2, <2>3, <3>1, <3>2 DEF OutdatedIsClosed
  <2>4. CASE work[w].status \notin Closed /\ Stale(w, v, f)
    <3>1. work'[w].status = "superseded"
      BY <1>1, <1>5, <1>7, <2>4 DEF Fences
    <3>. QED
      BY <2>2, <2>4, <3>1 DEF Closed
  <2>5. CASE work[w].status \notin Closed /\ ~Stale(w, v, f)
    <3>1. work'[w].status # "superseded"
      BY <1>1, <1>5, <1>7, <2>5 DEF Fences, Closed
    <3>. QED
      BY <2>2, <2>5, <3>1
  <2>. QED
    BY <2>3, <2>4, <2>5
<1>. QED
  BY <1>6, <1>7

\* It leaves what is published alone.
LEMMA UpdatedArtifacts ==
  ASSUME LedgerInv, EvidenceTypeOK, DoneMeansPublished,
         NEW s \in DOMAIN sources, NEW v \in Nat \ {0},
         NEW R \in SUBSET Agent, NEW f \in Fingerprint, SourceUpdate(s, v, R, f)
  PROVE  DoneMeansPublished'
<1>0. TypeOK
  BY DEF LedgerInv
<1>1. PICK hit, stale : Fences(s, v, R, f, hit, stale)
  BY <1>0, UpdatedRows
<1>2. calls' = Abandon(hit) /\ UNCHANGED artifacts /\ DOMAIN work' = DOMAIN work
  BY <1>1 DEF Fences
<1>3. \A w \in DOMAIN work : work'[w].status = "done" <=> work[w].status = "done"
  BY <1>1 DEF Fences, Closed
<1>4. \A c \in DOMAIN calls :
        c \in DOMAIN calls' /\ calls'[c].work = calls[c].work
        /\ (calls[c].state = "received" => calls'[c].state = "received")
  BY <1>0, <1>2, AbandonedCalls
<1>. QED
  BY <1>2, <1>3, <1>4 DEF DoneMeansPublished

-----------------------------------------------------------------------------
\* The steps of the ledger

\* A reservation was checked when it was made, and its lease has stood since.
LEMMA LedgerStepReservations ==
  ASSUME LedgerInv, LedgerInv', ReservationsCurrent, LedgerStep
  PROVE  ReservationsCurrent'
<1>1. RowsKept(Fresh) /\ CallsKept
  BY StepKeeps DEF LedgerStep
<1>2. SUFFICES ASSUME NEW c \in DOMAIN calls', calls'[c].state = "reserved"
               PROVE  Current(calls[c].work, work[calls[c].work].owner)'
  BY DEF ReservationsCurrent
<1>3. \A w, a : Current(w, a)' <=> Current(w, a)
  BY DEF LedgerStep, Current
<1>4. CASE c \notin DOMAIN calls
  BY <1>3, <1>4 DEF LedgerStep, AccessChecked
<1>5. CASE c \in DOMAIN calls
  <2>. DEFINE w == calls[c].work
  <2>1. /\ calls[c].state = "reserved"
        /\ calls'[c].work = w /\ calls'[c].epoch = calls[c].epoch
        /\ w \in DOMAIN work
    BY <1>1, <1>2, <1>5 DEF CallsKept, LedgerInv, TypeOK
  <2>2. /\ work[w].status = "leased" /\ work[w].epoch = calls[c].epoch
    BY <1>5, <2>1 DEF LedgerInv, ReservationsBacked
  <2>3. /\ work'[w].status = "leased" /\ work'[w].epoch = calls[c].epoch
    BY <1>2, <2>1 DEF LedgerInv, ReservationsBacked
  <2>4. work'[w].owner # None
    BY <1>1, <2>1, <2>3 DEF LedgerInv, OwnersLease, RowsKept
  <2>5. work'[w].owner = work[w].owner
    BY <1>1, <2>1, <2>2, <2>3, <2>4 DEF RowsKept
  <2>6. Current(w, work[w].owner)
    BY <1>5, <2>1 DEF ReservationsCurrent
  <2>. QED
    BY <1>3, <2>1, <2>5, <2>6
<1>. QED
  BY <1>4, <1>5

\* Steps that leave the sources alone close nothing as outdated and reopen nothing.
LEMMA SameSourcesClosed ==
  ASSUME EvidenceTypeOK, OutdatedIsClosed, UNCHANGED <<sources, inspections>>,
         NEW E, RowsKept(E)
  PROVE  OutdatedIsClosed'
<1>1. \A w \in DOMAIN inspections :
        /\ work[w].status \in Closed => work'[w].status \in Closed
        /\ work'[w].status = "superseded" => work[w].status = "superseded"
        /\ Outdated(w)' <=> Outdated(w)
  BY DEF RowsKept, EvidenceTypeOK, Outdated, Stale
<1>. QED
  BY <1>1 DEF OutdatedIsClosed, Closed

\* Base code reopens nothing.
LEMMA LedgerStepClosed ==
  ASSUME LedgerInv, EvidenceTypeOK, OutdatedIsClosed, LedgerStep
  PROVE  OutdatedIsClosed'
BY StepKeeps, SameSourcesClosed DEF LedgerStep

\* Nor does it touch the tables of the layer.
LEMMA LedgerStepTypes ==
  ASSUME LedgerInv, EvidenceTypeOK, LedgerStep
  PROVE  EvidenceTypeOK'
<1>1. RowsKept(Fresh) /\ UNCHANGED <<sources, inspections>>
  BY StepKeeps DEF LedgerStep
<1>. QED
  BY <1>1 DEF RowsKept, EvidenceTypeOK

-----------------------------------------------------------------------------
\* Invariance

\* create.
LEMMA EvidenceInitInv == EvidenceInit => EvidenceInv
<1>. SUFFICES ASSUME EvidenceInit PROVE EvidenceInv
  OBVIOUS
<1>1. LedgerInv /\ DoneMeansPublished
  BY InitLedger, DeclarationAssumption DEF EvidenceInit, Init
<1>2. DOMAIN work = DOMAIN Declaration /\ DOMAIN calls = {}
      /\ \A w \in DOMAIN work : work[w].status = "ready"
  BY DEF EvidenceInit, Init, InitOf
<1>3. EvidenceTypeOK
  BY <1>2, SourceAssumption DEF EvidenceInit, EvidenceTypeOK
<1>4. ReservationsCurrent
  BY <1>2 DEF ReservationsCurrent
<1>5. OutdatedIsClosed
  <2>1. sources = Sources /\ \A w \in DOMAIN inspections : work[w].status = "ready"
    BY <1>2, <1>3 DEF EvidenceInit, EvidenceTypeOK
  <2>. QED
    BY <2>1 DEF OutdatedIsClosed
<1>. QED
  BY <1>1, <1>3, <1>4, <1>5 DEF EvidenceInv

\* Every step.
LEMMA EvidenceNextInv == EvidenceInv /\ [EvidenceNext]_evidenceVars => EvidenceInv'
<1>. SUFFICES ASSUME EvidenceInv, [EvidenceNext]_evidenceVars PROVE EvidenceInv'
  OBVIOUS
<1>. USE DEF EvidenceInv
<1>1. TypeOK
  BY DEF LedgerInv
<1>2. CASE LedgerStep
  <2>1. LedgerInv'
    BY <1>2, LedgerKept DEF LedgerStep
  <2>2. DoneMeansPublished'
    BY <1>2, StepKeeps, PublishedStays DEF LedgerStep
  <2>. QED
    BY <1>2, <2>1, <2>2, LedgerStepReservations, LedgerStepClosed, LedgerStepTypes
<1>3. CASE Update
  BY <1>3, UpdatedLedger, UpdatedArtifacts, UpdatedTypes, UpdatedReservations, UpdatedClosed
     DEF Update
<1>. QED
  BY <1>1, <1>2, <1>3, EvidenceSteps

\* Every reachable state of the evidence layer satisfies EvidenceInv, whatever the host
\* announces about the sources and whenever.
THEOREM EvidenceInvariance == EvidenceSpec => []EvidenceInv
BY EvidenceInitInv, EvidenceNextInv, PTL DEF EvidenceSpec

\* No reservation outlives the right to use it: an update of the source takes it away
\* in the same transaction.
THEOREM NoStaleReservation == EvidenceSpec => []ReservationsCurrent
BY EvidenceInvariance, PTL DEF EvidenceInv

\* Outdated inspections are closed by the update that outdates them, and nothing else
\* is ever superseded.
THEOREM UpdatesClose == EvidenceSpec => []OutdatedIsClosed
BY EvidenceInvariance, PTL DEF EvidenceInv

\* Fencing a row by an update does not put work back on offer over an unknown call.
THEOREM NoRetryAfterUpdate == EvidenceSpec => []UnknownNotOffered
BY EvidenceInvariance, PTL DEF EvidenceInv, LedgerInv

\* What the base ledger promises of leases, budget and artifacts survives the updates.
THEOREM EvidenceKeepsLedger ==
  EvidenceSpec => [](/\ ReservationsBacked /\ NewestLeaseFenced
                     /\ WithinBudget /\ DoneMeansPublished)
BY EvidenceInvariance, PTL DEF EvidenceInv, LedgerInv

-----------------------------------------------------------------------------
\* Publication

\* What a step publishes was checked against the sources it leaves.
LEMMA StepPublishes ==
  ASSUME EvidenceInv, [EvidenceNext]_evidenceVars
  PROVE  /\ UNCHANGED artifacts \/ UNCHANGED <<sources, inspections>>
         /\ \A w \in Fresh : Current(w, artifacts'[w].publisher) /\ run'.enabled
<1>1. TypeOK
  BY DEF EvidenceInv, LedgerInv
<1>2. CASE LedgerStep
  BY <1>2 DEF LedgerStep, AccessChecked
<1>3. CASE Update
  BY <1>3 DEF Update, SourceUpdate, Fresh
<1>. QED
  BY <1>1, <1>2, <1>3, EvidenceSteps

\* An inspection is published only while its source is as declared, and by an agent that
\* may read the source then (publish and publish_received of evidence.py).
THEOREM PublicationCurrent == EvidenceSpec => PublishedWhileCurrent
<1>. DEFINE A == \A w \in DOMAIN inspections \cap (DOMAIN artifacts' \ DOMAIN artifacts) :
                   LET source == sources[inspections[w].source] IN
                   /\ <<inspections[w].version, inspections[w].fingerprint>>
                        = <<source.version, source.fingerprint>>
                   /\ (w \in Visible(artifacts[w].publisher))'
<1>1. EvidenceInv /\ [EvidenceNext]_evidenceVars => [A]_evidenceVars
  <2>. SUFFICES ASSUME EvidenceInv, [EvidenceNext]_evidenceVars,
                       NEW w \in DOMAIN inspections \cap (DOMAIN artifacts' \ DOMAIN artifacts)
                PROVE  LET source == sources[inspections[w].source] IN
                       /\ <<inspections[w].version, inspections[w].fingerprint>>
                            = <<source.version, source.fingerprint>>
                       /\ (w \in Visible(artifacts[w].publisher))'
    OBVIOUS
  <2>1. /\ Current(w, artifacts'[w].publisher)
        /\ run'.enabled
        /\ UNCHANGED <<sources, inspections>>
    BY StepPublishes DEF Fresh
  <2>. QED
    BY <2>1 DEF Visible, Current
<1>. QED
  BY <1>1, EvidenceInvariance, PTL DEF EvidenceSpec, PublishedWhileCurrent

-----------------------------------------------------------------------------
\* The evidence layer keeps the abstract promise of the base ledger: an update only
\* withdraws calls that were never dispatched.
THEOREM EvidenceRefinement == EvidenceSpec => EffectsAtMostOnce
<1>1. EvidenceInit => Effects!Init
  BY InitEffects DEF EvidenceInit
<1>2. EvidenceInv /\ [EvidenceNext]_evidenceVars => [Effects!Next]_(Effects!vars)
  <2>. SUFFICES ASSUME EvidenceInv, [EvidenceNext]_evidenceVars
                PROVE  [Effects!Next]_(Effects!vars)
    OBVIOUS
  <2>1. TypeOK /\ ArtifactsBacked
    BY DEF EvidenceInv, LedgerInv, DoneMeansPublished, ArtifactsBacked
  <2>2. CASE LedgerStep
    BY <2>1, <2>2, StepEffects DEF LedgerStep
  <2>3. CASE Update
    BY <2>1, <2>3, WithdrawEffects DEF Update, SourceUpdate
  <2>. QED
    BY <2>1, <2>2, <2>3, EvidenceSteps
<1>. QED
  BY <1>1, <1>2, EvidenceInvariance, PTL DEF EvidenceSpec, EffectsAtMostOnce, Effects!Spec
=============================================================================
