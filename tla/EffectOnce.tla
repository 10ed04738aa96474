---------------------------- MODULE EffectOnce ----------------------------
(***************************************************************************)
(* What the ledger promises about external effects, with no lease, clock,  *)
(* budget or agent in sight (README.md, "Why PheroOS?": a call is executed *)
(* at most once, an interrupted one stays unknown until its answer comes,  *)
(* a task is decided once, and a stopped run starts nothing new).          *)
(*                                                                         *)
(* effect[c] is what the outside world may have seen of call c: nothing    *)
(* yet (idle), an execution whose outcome is not recorded (begun), one     *)
(* whose outcome is recorded (known), or nothing ever (void).              *)
(***************************************************************************)
CONSTANTS Work, CallId

VARIABLES effect, decided, open

vars == <<effect, decided, open>>

Init ==
  /\ effect = [c \in CallId |-> "idle"]
  /\ decided = {}
  /\ open = TRUE

\* Calls of V, not begun, will never be.
Void(V) ==
  /\ \A c \in V : effect[c] = "idle"
  /\ effect' = [c \in CallId |-> IF c \in V THEN "void" ELSE effect[c]]

Begin(c) ==
  /\ open
  /\ effect[c] = "idle"
  /\ effect' = [effect EXCEPT ![c] = "begun"]
  /\ UNCHANGED <<decided, open>>

\* The outcome of a begun call is recorded, whether or not the run is open.
Learn(c) ==
  /\ effect[c] = "begun"
  /\ effect' = [effect EXCEPT ![c] = "known"]
  /\ UNCHANGED <<decided, open>>

Withdraw(V) == Void(V) /\ UNCHANGED <<decided, open>>

\* Task w is decided by a recorded outcome; the last decision closes the run.
Decide(w, c, V) ==
  /\ open
  /\ effect[c] = "known"
  /\ \A d \in decided : d[1] # w /\ d[2] # c
  /\ decided' = decided \cup {<<w, c>>}
  /\ open' \in {open, FALSE}
  /\ Void(V)

Close(V) ==
  /\ open' = FALSE
  /\ Void(V)
  /\ UNCHANGED decided

Next ==
  \/ \E c \in CallId : Begin(c) \/ Learn(c)
  \/ \E V \in SUBSET CallId : Withdraw(V) \/ Close(V)
  \/ \E w \in Work, c \in CallId, V \in SUBSET CallId : Decide(w, c, V)

Spec == Init /\ [][Next]_vars
=============================================================================
