---------------------------- MODULE TaskPromise ----------------------------
(***************************************************************************)
(* What the task API promises its callers, without queues, budgets,        *)
(* futures or crashes: a task is accepted or held for a human once, a held *)
(* task starts only by being let through, and a task that is over is over. *)
(***************************************************************************)
CONSTANT Tasks

VARIABLE phase

Phases == {"absent", "held", "going", "over"}

Init == phase = [t \in Tasks |-> "absent"]

Move(t, from, to) == phase[t] = from /\ phase' = [phase EXCEPT ![t] = to]

Accept(t) == Move(t, "absent", "going")
Hold(t)   == Move(t, "absent", "held")
Admit(t)  == Move(t, "held", "going")

\* Closing may take several tasks at once (a restart), and a submission that
\* fails after its row was written closes a task nobody saw going.
Close == \E S \in SUBSET Tasks :
           phase' = [t \in Tasks |-> IF t \in S THEN "over" ELSE phase[t]]

Next == Close \/ \E t \in Tasks : Accept(t) \/ Hold(t) \/ Admit(t)

Spec == Init /\ [][Next]_phase
=============================================================================
