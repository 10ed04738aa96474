------------------------------ MODULE Session ------------------------------
(***************************************************************************)
(* The durable base ledger: class Session of runner/session.py.            *)
(*                                                                         *)
(* Every public method of the class is one BEGIN IMMEDIATE transaction of  *)
(* one SQLite file: it either commits all its writes or, on any exception, *)
(* rolls all of them back.  Hence one action per method, whose guard is    *)
(* the conjunction of the checks that raise, and no action for a call that *)
(* raises or that answers an identical retry from the stored row.          *)
(*                                                                         *)
(* The callers are processes that share the file and hold Lease values in  *)
(* memory.  A process may be slow, may crash (it then never calls again)   *)
(* and may use a lease long after it was superseded: granted keeps every   *)
(* Lease ever handed out and every action takes any of them.               *)
(*                                                                         *)
(* Abstractions: wall-clock comparisons are the flag lapsed (expires <=    *)
(* clock()); the version column, constant here, is left out; a request or  *)
(* a response is its token counts; the verifier and the byte bounds, which *)
(* only make a transaction raise, are choices of the environment.          *)
(***************************************************************************)
EXTENDS Integers, FiniteSets, FiniteSetsExt

CONSTANTS
  Agent,        \* identities declared for the run
  Work,         \* identities a work row may have
  CallId,       \* identities a call row may have
  None,         \* SQL NULL in an owner column
  Declaration,  \* the work items given to create: [id -> declaration]
  Tokens,       \* token counts requests ask for and responses report
  TokenCap,     \* limits["token_cap"]
  MaxCalls,     \* limits["max_calls"]
  MaxEpoch      \* bound of the model: claims per work row

\* What create() accepts: declared agents, known dependencies, no cycle.  NULL is
\* no identity.
ASSUME DeclarationAssumption ==
  /\ None \notin Agent \cup Work
  /\ DOMAIN Declaration \subseteq Work
  /\ IsFiniteSet(DOMAIN Declaration)
  /\ DOMAIN Declaration # {}
  /\ \A w \in DOMAIN Declaration :
       Declaration[w] \in [dependencies : SUBSET DOMAIN Declaration,
                           agents : (SUBSET Agent) \ {{}}]
  /\ \A S \in (SUBSET DOMAIN Declaration) \ {{}} :
       \E w \in S : Declaration[w].dependencies \cap S = {}

ASSUME LimitAssumption ==
  /\ Tokens \subseteq Nat
  /\ TokenCap \in Nat
  /\ MaxCalls \in Nat \ {0}
  /\ MaxEpoch \in Nat
  /\ IsFiniteSet(CallId)

VARIABLES
  run,        \* the single row of table run
  work,       \* table work, by id
  calls,      \* table calls, by id
  artifacts,  \* table artifacts, by its UNIQUE work_id
  granted     \* every Lease returned to a caller so far

vars == <<run, work, calls, artifacts, granted>>

RunStatus == {"running", "completed", "cancelled"}
\* "superseded" is written by the evidence layer only.
WorkStatus == {"ready", "leased", "uncertain", "done", "cancelled", "superseded"}
Unsettled == {"reserved", "dispatched"}
CallState == Unsettled \cup {"received", "response_rejected", "abandoned"}

Run == [status : RunStatus, enabled : BOOLEAN, generation : Nat]

Row == [status : WorkStatus, owner : Agent \cup {None}, epoch : Nat,
        lapsed : BOOLEAN, generation : Nat,
        dependencies : SUBSET Work, agents : SUBSET Agent]

Call == [work : Work, epoch : Nat, prompt : Nat, maximum : Nat,
         state : CallState, actual : Nat]

Artifact == [call : CallId, publisher : Agent]

Lease == [work : Work, owner : Agent, epoch : Nat]

TypeOK ==
  /\ run \in Run
  /\ work \in [DOMAIN work -> Row]
  /\ DOMAIN work \subseteq Work
  /\ calls \in [DOMAIN calls -> Call]
  /\ DOMAIN calls \subseteq CallId
  /\ \A c \in DOMAIN calls : calls[c].work \in DOMAIN work
  /\ artifacts \in [DOMAIN artifacts -> Artifact]
  /\ DOMAIN artifacts \subseteq DOMAIN work
  /\ granted \subseteq Lease

-----------------------------------------------------------------------------
\* Helpers

\* Table f with row v stored under key x.
Put(f, x, v) == [y \in DOMAIN f \cup {x} |-> IF y = x THEN v ELSE f[y]]

\* SET status=s, owner=NULL, expires=NULL.
Free(row, s) == [row EXCEPT !.status = s, !.owner = None, !.lapsed = FALSE]

\* What a call counts against the token cap.
Charge(call) ==
  IF call.state \in Unsettled THEN call.prompt + call.maximum ELSE call.actual

Spent == SumFunction([c \in DOMAIN calls |-> Charge(calls[c])])

\* Mutant: the epoch is not compared.
HoldsByOwner(l) ==
  /\ run.enabled /\ run.status = "running"
  /\ l.work \in DOMAIN work
  /\ work[l.work].owner = l.owner
  /\ work[l.work].status = "leased"
  /\ work[l.work].generation = run.generation
  /\ ~work[l.work].lapsed

\* _lease: the lease is the current one of an enabled, running run.
Holds(l) ==
  /\ run.enabled /\ run.status = "running"
  /\ l.work \in DOMAIN work
  /\ work[l.work].owner = l.owner
  /\ work[l.work].epoch = l.epoch
  /\ work[l.work].status = "leased"
  /\ work[l.work].generation = run.generation
  /\ ~work[l.work].lapsed

\* A call of w was dispatched and its outcome is not known yet.
Unknown(w) == \E c \in DOMAIN calls : calls[c].work = w /\ calls[c].state = "dispatched"

\* Mutant: only one reservation of the work is settled.
AbandonOne(W) ==
  LET pending == {c \in DOMAIN calls : calls[c].work \in W /\ calls[c].state = "reserved"}
  IN IF pending = {} THEN calls
     ELSE [calls EXCEPT ![CHOOSE c \in pending : TRUE].state = "abandoned"]

\* Mutant: calls that may have run are given up too.
AbandonUnsettled(W) ==
  [c \in DOMAIN calls |->
     IF calls[c].work \in W /\ calls[c].state \in Unsettled
     THEN [calls[c] EXCEPT !.state = "abandoned", !.actual = 0]
     ELSE calls[c]]

\* _abandon, for the work in W.
Abandon(W) ==
  [c \in DOMAIN calls |->
     IF calls[c].work \in W /\ calls[c].state = "reserved"
     THEN [calls[c] EXCEPT !.state = "abandoned", !.actual = 0]
     ELSE calls[c]]

\* _recover: the rows and the calls it leaves.
Expired ==
  {w \in DOMAIN work : /\ run.status = "running"
                       /\ work[w].status = "leased"
                       /\ work[w].lapsed}

\* Mutants: every expired row is ready again, is held back, is called expired.
RecoveredAs(s) ==
  [w \in DOMAIN work |-> IF w \in Expired THEN Free(work[w], s) ELSE work[w]]

RecoveredAsReady == RecoveredAs("ready")
RecoveredAsUncertain == RecoveredAs("uncertain")
RecoveredAsExpired == RecoveredAs("expired")

RecoveredWork ==
  [w \in DOMAIN work |->
     IF w \in Expired
     THEN Free(work[w], IF Unknown(w) THEN "uncertain" ELSE "ready")
     ELSE work[w]]

\* Mutant: dependencies are not looked up.
ClaimableAnyOrder(a, w, rows) ==
  /\ rows[w].status = "ready"
  /\ a \in rows[w].agents
  /\ rows[w].epoch < MaxEpoch

\* _claim_ready's filter; rows are the work rows after _recover.
Claimable(a, w, rows) ==
  /\ rows[w].status = "ready"
  /\ a \in rows[w].agents
  /\ rows[w].dependencies \subseteq DOMAIN artifacts
  /\ rows[w].epoch < MaxEpoch

Leased(row, a) ==
  [row EXCEPT !.status = "leased", !.owner = a, !.epoch = @ + 1,
              !.lapsed = FALSE, !.generation = run.generation]

\* No work but w is left to be done.
LastOpen(rows, w) == \A v \in DOMAIN rows \ {w} : rows[v].status = "done"

\* Mutant: cancellation also overwrites what is done.
AllWork == DOMAIN work

OpenWork == {w \in DOMAIN work : work[w].status # "done"}

-----------------------------------------------------------------------------
\* create, of the given work items
InitOf(declaration) ==
  /\ run = [status |-> "running", enabled |-> TRUE, generation |-> 0]
  /\ work = [w \in DOMAIN declaration |->
               [status |-> "ready", owner |-> None, epoch |-> 0, lapsed |-> FALSE,
                generation |-> 0,
                dependencies |-> declaration[w].dependencies,
                agents |-> declaration[w].agents]]
  /\ calls = [c \in {} |-> None]
  /\ artifacts = [w \in {} |-> None]
  /\ granted = {}

Init == InitOf(Declaration)

\* Time passes the expires column of a leased row.
Expire(w) ==
  /\ work[w].status = "leased"
  /\ ~work[w].lapsed
  /\ work' = [work EXCEPT ![w].lapsed = TRUE]
  /\ UNCHANGED <<run, calls, artifacts, granted>>

\* recover(), and a claim() that finds nothing to lease: it commits too.
Recover ==
  /\ Expired # {}
  /\ work' = RecoveredWork
  /\ calls' = Abandon(Expired)
  /\ UNCHANGED <<run, artifacts, granted>>

\* claim(a), whether or not the caller names w: every row it may return.
Claim(a, w) ==
  /\ run.status = "running" /\ run.enabled
  /\ Claimable(a, w, RecoveredWork)
  /\ work' = [RecoveredWork EXCEPT ![w] = Leased(@, a)]
  /\ calls' = Abandon(Expired)
  /\ granted' = granted \cup {[work |-> w, owner |-> a, epoch |-> work[w].epoch + 1]}
  /\ UNCHANGED <<run, artifacts>>

Reserve(l, c, prompt, maximum) ==
  /\ Holds(l)
  /\ c \notin DOMAIN calls
  /\ Cardinality(DOMAIN calls) < MaxCalls
  /\ Spent + prompt + maximum <= TokenCap
  /\ calls' = Put(calls, c, [work |-> l.work, epoch |-> l.epoch, prompt |-> prompt,
                             maximum |-> maximum, state |-> "reserved", actual |-> 0])
  /\ UNCHANGED <<run, work, artifacts, granted>>

Dispatch(l, c) ==
  /\ Holds(l)
  /\ c \in DOMAIN calls
  /\ calls[c].work = l.work
  /\ calls[c].epoch = l.epoch
  /\ calls[c].state = "reserved"
  /\ calls' = [calls EXCEPT ![c].state = "dispatched"]
  /\ UNCHANGED <<run, work, artifacts, granted>>

\* _settle and the rest of receive, once the reported usage is accepted.
\* oversize is the artifact_bytes test: the usage settles, the response does not.
Settle(c, used, oversize) ==
  LET w == calls[c].work
      others == {d \in DOMAIN calls \ {c} : calls[d].work = w /\ calls[d].state = "dispatched"}
  IN
  /\ calls[c].state = "dispatched"
  /\ calls' = [calls EXCEPT
       ![c].state = IF oversize THEN "response_rejected" ELSE "received",
       ![c].actual = used]
  /\ work' = IF run.status = "running" /\ others = {} /\ work[w].status = "uncertain"
             THEN [work EXCEPT ![w].status = "ready"]
             ELSE work
  /\ UNCHANGED <<run, artifacts, granted>>

\* receive: no lease is asked for, so any process may deliver, at any time.
Receive(c, prompt, completion, oversize) ==
  /\ c \in DOMAIN calls
  /\ prompt = calls[c].prompt
  /\ completion <= calls[c].maximum
  /\ Settle(c, prompt + completion, oversize)

\* _record_artifact, on the rows an earlier part of the transaction left.
RecordArtifact(rows, w, a, c, freed) ==
  /\ w \notin DOMAIN artifacts
  /\ artifacts' = Put(artifacts, w, [call |-> c, publisher |-> a])
  /\ calls' = Abandon(freed \cup {w})
  /\ work' = [rows EXCEPT ![w] = Free(@, "done")]
  /\ run' = IF LastOpen(rows, w) THEN [run EXCEPT !.status = "completed"] ELSE run
  /\ UNCHANGED granted

Publish(l, c) ==
  /\ Holds(l)
  /\ c \in DOMAIN calls
  /\ calls[c].work = l.work
  /\ calls[c].state = "received"
  /\ RecordArtifact(work, l.work, l.owner, c, {})

\* publish_received recovers, claims if need be and publishes in one transaction;
\* the lease it makes stays inside the transaction, so it is not granted.
Publishable(a, c) ==
  /\ calls[c].state = "received"
  /\ run.enabled /\ run.status = "running"
  /\ a \in work[calls[c].work].agents
  /\ ~Unknown(calls[c].work)

\* After recovery the agent still holds the work,
PublishHeld(a, c) ==
  LET w == calls[c].work IN
  /\ c \in DOMAIN calls
  /\ Publishable(a, c)
  /\ RecoveredWork[w].status = "leased" /\ RecoveredWork[w].owner = a
  /\ RecordArtifact(RecoveredWork, w, a, c, Expired)

\* or nobody does and the transaction claims it.
PublishReclaimed(a, c) ==
  LET w == calls[c].work IN
  /\ c \in DOMAIN calls
  /\ Publishable(a, c)
  /\ Claimable(a, w, RecoveredWork)
  /\ RecordArtifact([RecoveredWork EXCEPT ![w] = Leased(@, a)], w, a, c, Expired)

PublishReceived(a, c) == PublishHeld(a, c) \/ PublishReclaimed(a, c)

\* cancel: _stop("cancelled"); a completed run may be cancelled too.
Cancel ==
  /\ run.status # "cancelled"
  /\ run' = [status |-> "cancelled", enabled |-> FALSE, generation |-> run.generation + 1]
  /\ calls' = Abandon(OpenWork)
  /\ work' = [w \in DOMAIN work |-> IF w \in OpenWork THEN Free(work[w], "cancelled") ELSE work[w]]
  /\ UNCHANGED <<artifacts, granted>>

Next ==
  \/ \E w \in DOMAIN work : Expire(w)
  \/ Recover
  \/ \E a \in Agent, w \in DOMAIN work : Claim(a, w)
  \/ \E l \in granted, c \in CallId, p \in Tokens, m \in Tokens : Reserve(l, c, p, m)
  \/ \E l \in granted, c \in DOMAIN calls : Dispatch(l, c)
  \/ \E c \in DOMAIN calls, p \in Tokens, q \in Tokens, o \in BOOLEAN : Receive(c, p, q, o)
  \/ \E l \in granted, c \in DOMAIN calls : Publish(l, c)
  \/ \E a \in Agent, c \in DOMAIN calls : PublishReceived(a, c)
  \/ Cancel

Spec == Init /\ [][Next]_vars

\* Every tool that was started answers in the end, late or not; the layers above
\* state their fairness with this.
Answer(c) ==
  \E p \in Tokens, q \in Tokens, o \in BOOLEAN : c \in DOMAIN calls /\ Receive(c, p, q, o)

-----------------------------------------------------------------------------
\* Properties

\* Whatever was reserved, abandoned, dispatched and settled, in any order and by
\* any number of processes, the run never spends beyond its declared caps.
WithinBudget ==
  /\ Spent <= TokenCap
  /\ Cardinality(DOMAIN calls) <= MaxCalls

\* A reservation lives exactly as long as the lease it was made under: no expiry,
\* publication or cancellation leaves tokens held that nobody can dispatch.
ReservationsBacked ==
  \A c \in DOMAIN calls :
    calls[c].state = "reserved" =>
      /\ run.status = "running"
      /\ work[calls[c].work].status = "leased"
      /\ work[calls[c].work].epoch = calls[c].epoch

\* While the outcome of a dispatched call is unknown its work cannot be leased
\* again: no second worker repeats an effect that may already have happened.
UnknownBlocksRetry ==
  \A c \in DOMAIN calls :
    calls[c].state = "dispatched" =>
      /\ work[calls[c].work].status # "ready"
      /\ work[calls[c].work].epoch = calls[c].epoch

\* In every layer: while a call's outcome is unknown its work is not on offer,
\* although a layer above may have moved the work to a later epoch; a lease that is
\* held is the call's own.
UnknownNotOffered ==
  \A c \in DOMAIN calls :
    LET row == work[calls[c].work] IN
    calls[c].state = "dispatched" =>
      /\ row.status # "ready"
      /\ row.status = "leased" => row.epoch = calls[c].epoch

\* Work is held back as uncertain only for a call whose answer would release it.
UncertainIsUnknown ==
  \A w \in DOMAIN work : work[w].status = "uncertain" => Unknown(w)

\* One lease per work and epoch, and only the newest one passes the fence: a
\* worker that lost its lease can neither reserve, dispatch nor publish.
NewestLeaseFenced ==
  \A l, m \in granted :
    l.work = m.work =>
      /\ l.epoch = m.epoch => l = m
      /\ Holds(l) => m.epoch <= l.epoch

\* Work is done exactly when it has an artifact, and the artifact is backed by a
\* settled receipt of that very work.
DoneMeansPublished ==
  /\ DOMAIN artifacts = {w \in DOMAIN work : work[w].status = "done"}
  /\ \A w \in DOMAIN artifacts :
       /\ artifacts[w].call \in DOMAIN calls
       /\ calls[artifacts[w].call].work = w
       /\ calls[artifacts[w].call].state = "received"

\* Nothing is attempted, not even through publish_received, before the results
\* it depends on exist.
DependenciesFirst ==
  \A w \in DOMAIN work :
    work[w].epoch > 0 => work[w].dependencies \subseteq DOMAIN artifacts

\* In every layer: work is held, and is published, only over published dependencies,
\* the children it was decomposed into included; an abstained one never satisfies it.
HeldOverArtifacts ==
  \A w \in DOMAIN work :
    work[w].status \in {"leased", "uncertain"} \/ w \in DOMAIN artifacts =>
      work[w].dependencies \subseteq DOMAIN artifacts

\* The run row agrees with the work rows: it completes with the last artifact,
\* not before and not later, and a cancelled run leaves nothing open.
RunMatchesWork ==
  /\ run.status = "running" =>
       /\ \A w \in DOMAIN work : work[w].status # "cancelled"
       /\ \E w \in DOMAIN work : work[w].status # "done"
  /\ run.status = "completed" => \A w \in DOMAIN work : work[w].status = "done"
  /\ run.status = "cancelled" => \A w \in DOMAIN work : work[w].status \in {"done", "cancelled"}

\* What the outside world may have seen of a call, read off its row.
EffectIn(state) ==
  CASE state = "reserved" -> "idle"
    [] state = "dispatched" -> "begun"
    [] state = "abandoned" -> "void"
    [] state \in {"received", "response_rejected"} -> "known"

EffectOf(c) == IF c \in DOMAIN calls THEN EffectIn(calls[c].state) ELSE "idle"

Effects ==
  INSTANCE EffectOnce WITH
    effect <- [c \in CallId |-> EffectOf(c)],
    decided <- {<<w, artifacts[w].call>> : w \in DOMAIN artifacts},
    open <- run.status = "running"

\* The abstract promise: a call is executed at most once, work is decided once and
\* from a known outcome, a stopped run starts nothing.
EffectsAtMostOnce == Effects!Spec
=============================================================================
