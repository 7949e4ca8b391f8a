---------------------------- MODULE PoolPromise ----------------------------
(***************************************************************************)
(* What the process pool promises the callers of send_message, without     *)
(* locks, queues, retries or processes: a caller is served once, for as    *)
(* long as it takes, with few enough others at the same time and nobody    *)
(* else on its session; a caller that has its answer or has given up is    *)
(* never served again.                                                     *)
(***************************************************************************)
EXTENDS Integers, FiniteSets

CONSTANTS Callers, Sessions, NoSession, Seats

VARIABLES
  phase,   \* of each caller: "asking", "served" or "over"
  on       \* the session it is served on, NoSession for a fresh one

Init ==
  /\ phase = [c \in Callers |-> "asking"]
  /\ on = [c \in Callers |-> NoSession]

Served == {c \in Callers : phase[c] = "served"}

Serve(c, s) ==
  /\ phase[c] = "asking" /\ Cardinality(Served) < Seats
  /\ s # NoSession => \A d \in Served : on[d] # s
  /\ phase' = [phase EXCEPT ![c] = "served"]
  /\ on' = [on EXCEPT ![c] = s]

\* A caller without a seat has had its answer elsewhere, or has given up.
Finish(c) ==
  /\ phase[c] # "over"
  /\ phase' = [phase EXCEPT ![c] = "over"]
  /\ on' = [on EXCEPT ![c] = NoSession]

Next == \E c \in Callers : Finish(c) \/ \E s \in Sessions \cup {NoSession} : Serve(c, s)

Spec == Init /\ [][Next]_<<phase, on>>
=============================================================================
