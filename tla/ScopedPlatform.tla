--------------------------- MODULE ScopedPlatform ---------------------------
(***************************************************************************)
(* The work tree over the evidence layer: PlatformMixin composed with      *)
(* CoordinationSession, as platform.py allows and its tests do.  The       *)
(* evidence layer overrides the hooks the tree calls (_lease,              *)
(* _publication_access, _event), so here every use of a lease and every    *)
(* decision asks for the source as it is now, claim does too, children     *)
(* inherit the inspection of their parent, and a claim is counted against  *)
(* both operation budgets.                                                 *)
(***************************************************************************)
EXTENDS Platform, Evidence

CONSTANT MaxIndex  \* limits["max_index_entries"]

ASSUME IndexAssumption == MaxIndex \in Nat /\ Cardinality(DOMAIN Inspections) <= MaxIndex

scopedVars == <<vars, platformTables, evidenceTables>>

-----------------------------------------------------------------------------
\* Both layers of a transaction

ScopedInit ==
  /\ PlatformInit
  /\ sources = Sources
  /\ inspections = Inspections
  /\ control = 0

\* _lease: the holder may work on l.work as its source is now.
HeldNow(l) == Current(l.work, l.owner) /\ UNCHANGED evidenceTables

\* Mutant: a decision is asked for by anybody the work declares.
DecidedAnyway(w, a) ==
  /\ Control(work'[w].epoch - work[w].epoch)
  /\ UNCHANGED <<sources, inspections>>

\* _publication_access; a transaction that claims w is counted for that.
DecidedNow(w, a) ==
  /\ Current(w, a)
  /\ Control(work'[w].epoch - work[w].epoch)
  /\ UNCHANGED <<sources, inspections>>

\* Mutant: as in the base ledger, a claim asks nothing of the source.
ScopedClaimAnyway(a, w) ==
  /\ ClaimAvailable(a, w)
  /\ Control(1)
  /\ UNCHANGED <<sources, inspections>>

\* _available asks for access before claim leases the work.
ScopedClaim(a, w) ==
  /\ ClaimAvailable(a, w)
  /\ Current(w, a)
  /\ Control(1)
  /\ UNCHANGED <<sources, inspections>>

\* Mutant: children are born without an inspection.
InheritedNowhere(w, kids) == inspections

\* The inspections once kids are admitted under w.
Inherited(w, kids) ==
  IF w \in DOMAIN inspections
  THEN [v \in DOMAIN inspections \cup DOMAIN kids |->
          IF v \in DOMAIN kids THEN inspections[w] ELSE inspections[v]]
  ELSE inspections

\* The inspections of kids still fit into the index.
Indexed(w, kids) ==
  w \in DOMAIN inspections =>
    Cardinality(DOMAIN inspections) + Cardinality(DOMAIN kids) <= MaxIndex

ScopedDecompose(l, kids) ==
  /\ Decompose(l, kids)
  /\ Current(l.work, l.owner)
  /\ \A k \in DOMAIN kids : \A a \in kids[k].agents : Current(l.work, a)
  /\ Indexed(l.work, kids)
  /\ inspections' = Inherited(l.work, kids)
  /\ UNCHANGED <<sources, control>>

\* _work: superseded work is not marked either.
ScopedMark(w, ahead) ==
  /\ MarkNoEntry(w, ahead)
  /\ work[w].status # "superseded"
  /\ UNCHANGED evidenceTables

ScopedNext ==
  \/ /\ \/ \E w \in DOMAIN work : Expire(w) /\ UNCHANGED platformTables
        \/ RecoverFreely
        \/ \E c \in DOMAIN calls, p \in Tokens, q \in Tokens, o \in BOOLEAN :
             Receive(c, p, q, o) /\ UNCHANGED platformTables
        \/ Cancel /\ UNCHANGED platformTables
        \/ \E w \in held : MarkElapses(w)
     /\ UNCHANGED evidenceTables
  \/ \E a \in Agent, w \in DOMAIN work : ScopedClaim(a, w)
  \/ \E l \in granted :
       /\ \/ \E c \in CallId, p \in Tokens, m \in Tokens : ReserveCapped(l, c, p, m)
          \/ \E c \in DOMAIN calls : Dispatch(l, c) /\ UNCHANGED platformTables
          \/ \E c \in DOMAIN calls : PublishSettled(l, c)
          \/ \E c \in DOMAIN calls, loss \in Losses : Propose(l, c, loss)
          \/ Release(l)
          \/ Renew(l)
          \/ Abstain(l)
       /\ HeldNow(l)
  \/ \E l \in granted, kids \in Offers : ScopedDecompose(l, kids)
  \/ \E a \in Agent, c \in DOMAIN calls :
       PublishReceivedSettled(a, c) /\ DecidedNow(calls[c].work, a)
  \/ \E w \in DOMAIN work, p \in Agent :
       (CommitWaits(w, p) \/ CommitAbstains(w, p)) /\ DecidedNow(w, p)
  \/ \E p \in Agent, c \in DOMAIN calls, loss \in Losses :
       CommitPublishes(p, c, loss) /\ DecidedNow(calls[c].work, p)
  \/ \E w \in DOMAIN work, ahead \in BOOLEAN : ScopedMark(w, ahead)
  \/ \E s \in DOMAIN sources, v \in 1 .. MaxVersion, R \in SUBSET Agent, f \in Fingerprint :
       SourceUpdate(s, v, R, f) /\ UNCHANGED platformTables

ScopedSpec == ScopedInit /\ [][ScopedNext]_scopedVars

-----------------------------------------------------------------------------
\* Properties

\* Whoever holds work may read its source, so no lease that stands is refused when it
\* is used or released: claim asks, and an update takes the work away at once.
HolderMayRead ==
  \A w \in DOMAIN work : work[w].status = "leased" => Current(w, work[w].owner)

\* A tree goes down together: once an update outdates a work, everything it was
\* decomposed into, at any depth and at any time, is closed or was done before.
TreeClosedTogether ==
  \A w \in DOMAIN work :
    LET p == meta[w].parent IN
    p # None /\ work[p].status = "superseded" =>
      work[w].status \in {"superseded", "done"}

\* A work ends by publication, abstention or commit, directly or through children,
\* only at the hand of somebody who may read what it inspects at that moment.
DeciderMayRead ==
  [][\A w \in DOMAIN decisions' \ DOMAIN decisions :
       (Current(w, decisions[w].publisher))']_scopedVars
=============================================================================
