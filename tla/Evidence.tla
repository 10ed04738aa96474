------------------------------ MODULE Evidence ------------------------------
(***************************************************************************)
(* The evidence layer: class CoordinationSession of runner/evidence.py.    *)
(* Work may be the inspection of a source at a declared version and        *)
(* fingerprint.  The host announces new versions and readers of a source   *)
(* with source_update, at any moment; leases, dispatches and publications  *)
(* of an inspection are fenced by the source as it is when they happen.    *)
(*                                                                         *)
(* As in Session one action is one transaction.  What the layer overrides  *)
(* is the base action with the checks of the override.  A request whose    *)
(* tool or arguments are not the declared ones raises at dispatch and is   *)
(* no step; reads of artifacts change nothing and are the set Visible.     *)
(***************************************************************************)
EXTENDS Session

CONSTANTS
  Fingerprint,    \* contents a source may have
  Sources,        \* the sources given to create: [id -> source]
  Inspections,    \* the inspections given to create: [work id -> inspection]
  MaxControl,     \* limits["max_control_operations"]
  MaxVersion      \* bound of the model: versions a source may reach

SourceRow == [version : Nat \ {0}, readers : SUBSET Agent, fingerprint : Fingerprint]

InspectionRow == [source : DOMAIN Sources, version : Nat \ {0},
                  fingerprint : Fingerprint, readers : SUBSET Agent]

ASSUME SourceAssumption ==
  /\ Sources \in [DOMAIN Sources -> SourceRow]
  /\ DOMAIN Inspections \subseteq DOMAIN Declaration
  /\ Inspections \in [DOMAIN Inspections -> InspectionRow]
  /\ MaxControl \in Nat \ {0}
  /\ MaxVersion \in Nat

VARIABLES
  sources,      \* table coordination_sources_v1, by source: SourceRow
  inspections,  \* table coordination_inspections_v1, by work: InspectionRow
  control       \* counted events in the journal

evidenceTables == <<sources, inspections, control>>
evidenceVars == <<vars, evidenceTables>>

-----------------------------------------------------------------------------
\* Helpers

\* _check_control_capacity, and the event it admits.
Control(n) ==
  /\ control + n <= MaxControl
  /\ control' = control + n

\* _inspection_access: a may work on w as its source is now.
Current(w, a) ==
  w \in DOMAIN inspections =>
    LET item == inspections[w]
        source == sources[item.source]
    IN /\ item.version = source.version /\ item.fingerprint = source.fingerprint
       /\ a \in item.readers \cap source.readers

\* Artifacts a may enumerate and read.
Visible(a) ==
  {w \in DOMAIN artifacts :
     /\ run.enabled
     /\ w \in DOMAIN inspections
     /\ Current(w, a)}

\* The source, as updated, is past what w was declared to inspect.
Stale(w, version, fingerprint) ==
  LET item == inspections[w] IN
  \/ item.version < version
  \/ item.version = version /\ item.fingerprint # fingerprint

\* Mutant: nobody asks whether the holder may still read.
RevokedNever(w, readers) == FALSE

Revoked(w, readers) == work[w].owner # None /\ work[w].owner \notin readers

-----------------------------------------------------------------------------
\* Overrides of the base ledger

EvidenceInit ==
  /\ Init
  /\ sources = Sources
  /\ inspections = Inspections
  /\ control = 0

\* claim does not ask for access to the source; using the lease does.
CountedClaim(a, w) ==
  /\ Claim(a, w)
  /\ Control(1)
  /\ UNCHANGED <<sources, inspections>>

CurrentReserve(l, c, prompt, maximum) ==
  /\ Reserve(l, c, prompt, maximum)
  /\ Current(l.work, l.owner)
  /\ UNCHANGED evidenceTables

CurrentDispatch(l, c) ==
  /\ Dispatch(l, c)
  /\ Current(l.work, l.owner)
  /\ UNCHANGED evidenceTables

CurrentPublish(l, c) ==
  /\ Publish(l, c)
  /\ Current(l.work, l.owner)
  /\ UNCHANGED evidenceTables

\* Mutant: a settled receipt is published whatever became of its source.
PublishReceivedAnyway(a, c) ==
  /\ \/ PublishHeld(a, c) /\ Control(0)
     \/ PublishReclaimed(a, c) /\ Control(1)
  /\ UNCHANGED <<sources, inspections>>

\* publish_received over _publication_access; re-claiming is counted.
CurrentPublishReceived(a, c) ==
  /\ Current(calls[c].work, a)
  /\ \/ PublishHeld(a, c) /\ Control(0)
     \/ PublishReclaimed(a, c) /\ Control(1)
  /\ UNCHANGED <<sources, inspections>>

-----------------------------------------------------------------------------
\* Methods of its own

\* Mutant: what is unknown is forgotten with the holder.
FencedAsReady(rows, hit, stale) ==
  [w \in DOMAIN rows |->
     IF w \in hit
     THEN [Free(rows[w], IF w \in stale THEN "superseded" ELSE "ready") EXCEPT !.epoch = @ + 1]
     ELSE rows[w]]

\* Mutant: the unknown call is looked for first.
FencedUnknownFirst(rows, hit, stale) ==
  [w \in DOMAIN rows |->
     IF w \in hit
     THEN [Free(rows[w], IF Unknown(w) THEN "uncertain"
                         ELSE IF w \in stale THEN "superseded" ELSE "ready")
           EXCEPT !.epoch = @ + 1]
     ELSE rows[w]]

\* The rows of hit are fenced: superseded, or taken from a holder who lost access.
Fenced(rows, hit, stale) ==
  [w \in DOMAIN rows |->
     IF w \in hit
     THEN [Free(rows[w], IF w \in stale THEN "superseded"
                         ELSE IF Unknown(w) THEN "uncertain" ELSE "ready")
           EXCEPT !.epoch = @ + 1]
     ELSE rows[w]]

\* source_update, in any state of the run: repeated, or newer, never older.
SourceUpdate(s, version, readers, fingerprint) ==
  LET open == {w \in DOMAIN inspections :
                 inspections[w].source = s
                 /\ work[w].status \notin {"done", "cancelled", "superseded"}}
      stale == {w \in open : Stale(w, version, fingerprint)}
      hit == {w \in open : w \in stale \/ Revoked(w, readers)}
  IN
  /\ version >= sources[s].version
  /\ version = sources[s].version => fingerprint = sources[s].fingerprint
  /\ sources' = [sources EXCEPT
       ![s] = [version |-> version, readers |-> readers, fingerprint |-> fingerprint]]
  /\ calls' = Abandon(hit)
  /\ work' = Fenced(work, hit, stale)
  /\ Control(1)
  /\ UNCHANGED <<run, artifacts, granted, inspections>>

EvidenceNext ==
  \/ \E w \in DOMAIN work : Expire(w) /\ UNCHANGED evidenceTables
  \/ Recover /\ UNCHANGED evidenceTables
  \/ \E a \in Agent, w \in DOMAIN work : CountedClaim(a, w)
  \/ \E l \in granted, c \in CallId, p \in Tokens, m \in Tokens : CurrentReserve(l, c, p, m)
  \/ \E l \in granted, c \in DOMAIN calls : CurrentDispatch(l, c)
  \/ \E c \in DOMAIN calls, p \in Tokens, q \in Tokens, o \in BOOLEAN :
       Receive(c, p, q, o) /\ UNCHANGED evidenceTables
  \/ \E l \in granted, c \in DOMAIN calls : CurrentPublish(l, c)
  \/ \E a \in Agent, c \in DOMAIN calls : CurrentPublishReceived(a, c)
  \/ Cancel /\ UNCHANGED evidenceTables
  \/ \E s \in DOMAIN sources, v \in 1 .. MaxVersion, R \in SUBSET Agent, f \in Fingerprint :
       SourceUpdate(s, v, R, f)

EvidenceSpec == EvidenceInit /\ [][EvidenceNext]_evidenceVars

-----------------------------------------------------------------------------
\* Properties

\* The source of w is past what w was declared to inspect.
Outdated(w) ==
  /\ w \in DOMAIN inspections
  /\ Stale(w, sources[inspections[w].source].version, sources[inspections[w].source].fingerprint)

\* Every reservation could be dispatched now: an update takes with it the
\* reservations of outdated work and of holders who lost access (source_update).
ReservationsCurrent ==
  \A c \in DOMAIN calls :
    calls[c].state = "reserved" => Current(calls[c].work, work[calls[c].work].owner)

\* An update closes the work it outdates, for good: no lease, receipt or late answer
\* brings it back, and nothing else is closed that way.  (create accepts an
\* inspection that is outdated already; the first update of its source closes it.)
OutdatedIsClosed ==
  \A w \in DOMAIN inspections :
    LET s == inspections[w].source IN
    /\ Outdated(w) /\ sources[s] # Sources[s] =>
         work[w].status \in {"superseded", "done", "cancelled"}
    /\ work[w].status = "superseded" => Outdated(w)

\* An inspection is published only while its source is exactly as declared: not
\* after it moved on, and not, for an inspection declared ahead, before it got there.
\* And whoever publishes it may read its source at that moment, by whichever way the
\* artifact is published: the publisher of a new artifact sees it.
PublishedWhileCurrent ==
  [][\A w \in DOMAIN inspections \cap (DOMAIN artifacts' \ DOMAIN artifacts) :
       LET source == sources[inspections[w].source] IN
       /\ <<inspections[w].version, inspections[w].fingerprint>>
            = <<source.version, source.fingerprint>>
       /\ (w \in Visible(artifacts[w].publisher))']_evidenceVars
=============================================================================
