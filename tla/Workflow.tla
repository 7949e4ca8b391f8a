------------------------------ MODULE Workflow ------------------------------
(***************************************************************************)
(* The workflow engine of agents/workflow.py: a pipeline of steps, the     *)
(* loop of build and review around it, and the parallel fan-out.  An       *)
(* execution is a record; the operators below are the code that runs from  *)
(* one await to the next and say what the record is at the next await.     *)
(* SoftwareFactory makes actions of them.                                  *)
(***************************************************************************)
EXTENDS Integers, Sequences, FiniteSets

CONSTANTS
    Runs,           \* requests for a plan, a build or a review
    Agents,
    None,           \* Python's None
    Caps,           \* values of max_total_cost; 0 is unlimited
    Costs,          \* what a turn may cost, in cents
    MaxIterations,  \* review_max_iterations
    HasTests        \* whether test_command is configured

ASSUME WorkflowAssumption ==
    /\ None \notin Agents
    /\ Caps \subseteq Nat
    /\ Costs \subseteq Nat
    /\ MaxIterations \in Nat
    /\ HasTests \in BOOLEAN

VARIABLES
    registry,       \* AgentRegistry._agents: the agents in order of insertion
    wf              \* the execution of each run

Registered == {registry[i] : i \in 1..Len(registry)}

(***************************************************************************)
(* pc: the await the execution is at.  at: index of the pipeline's step.   *)
(* piped: total_cost of the pipeline under way.  total: that of the steps  *)
(* the loop (or the fan-out) has collected.  flying: the parallel steps    *)
(* that have not answered.  saved: the reviewer that run_build_workflow    *)
(* puts back.  said: the first line of the last review.                    *)
(***************************************************************************)
NewRun == [pc |-> "idle", kind |-> "none", cap |-> 0, steps |-> <<>>, reviewer |-> None, at |-> 0,
           iter |-> 0, piped |-> 0, total |-> 0, flying |-> {},
           saved |-> None, said |-> "none", ok |-> FALSE]

\* The run is over: it returned, or an exception went through it.
Over(w) == w.pc \in {"done", "raised"}

\* What is left of a run when its coroutine is gone.
Gone(w, how, success) ==
    [NewRun EXCEPT !.pc = how, !.kind = w.kind, !.cap = w.cap, !.total = w.total,
                   !.flying = w.flying, !.ok = success,
                   !.said = IF success THEN w.said ELSE "none"]

End(w, success) == Gone(w, "done", success)
Raise(w) == Gone(w, "raised", FALSE)

IsOverBudget(w, cost) == w.cap > 0 /\ cost >= w.cap

(***************************************************************************)
(* The loop takes over the pipeline's steps, with their cost.              *)
(***************************************************************************)
Collected(w) == [w EXCEPT !.total = w.total + w.piped, !.piped = 0]

Fails(w) == End(Collected(w), FALSE)

BeginReview(w) ==
    IF w.reviewer \in Registered THEN [w EXCEPT !.pc = "reviewing"] ELSE Fails(w)

PipelineSucceeds(w) ==
    LET v == Collected(w) IN
    IF IsOverBudget(w, v.total) THEN Fails(v)
    ELSE IF HasTests THEN [v EXCEPT !.pc = "testing"]
    ELSE BeginReview(v)

(***************************************************************************)
(* execute_pipeline at the head of its loop, with step i next.  The cap it *)
(* compares with is the whole one, whatever earlier rounds have spent.     *)
(***************************************************************************)
BeginStep(w, i) ==
    IF i > Len(w.steps) THEN PipelineSucceeds(w)
    ELSE IF IsOverBudget(w, w.piped) \/ w.steps[i] \notin Registered THEN Fails(w)
    ELSE [w EXCEPT !.pc = "step", !.at = i]

\* Slip: no look at the cost before a round.
BeginRoundUnchecked(w, n) ==
    IF n > MaxIterations THEN Fails(w) ELSE BeginStep([w EXCEPT !.iter = n], 1)

(***************************************************************************)
(* execute_review_loop at the head of its loop.                            *)
(***************************************************************************)
BeginRound(w, n) ==
    IF n > MaxIterations \/ IsOverBudget(w, w.total) THEN Fails(w)
    ELSE BeginStep([w EXCEPT !.iter = n], 1)

\* An answer to a step of the pipeline, or to the review.
AfterStep(w, cost, error) ==
    LET v == [w EXCEPT !.piped = w.piped + cost]
    IN  IF error THEN Fails(v) ELSE BeginStep(v, w.at + 1)

\* The step's timeout cancels the turn; what it cost is not known.
AfterStepTimeout(w) == Fails(w)

(***************************************************************************)
(* A review says PASS or FAIL on its first line; what the loop looks for   *)
(* is the keyword anywhere in it.                                          *)
(***************************************************************************)
AfterReview(w, cost, error, verdict, found) ==
    LET v == [w EXCEPT !.total = w.total + cost, !.said = verdict] IN
    IF error THEN Fails(v) ELSE IF found THEN End(v, TRUE) ELSE BeginRound(v, w.iter + 1)

(***************************************************************************)
(* execute_parallel: all steps start before any of them can answer, so the *)
(* check of the accumulated cost before a step always finds 0.             *)
(***************************************************************************)
BeginFanOut(w) ==
    LET flying == {i \in 1..Len(w.steps) : w.steps[i] \in Registered}
        v      == [w EXCEPT !.flying = flying, !.ok = (flying = 1..Len(w.steps))]
    IN  IF flying = {} THEN End(v, FALSE) ELSE [v EXCEPT !.pc = "fanout"]

\* Slip: the fan-out waits for a success of every step.
AfterParallelStepStuck(w, i, cost, error) ==
    LET v == [w EXCEPT !.flying = w.flying \ {i}, !.total = w.total + cost, !.ok = w.ok /\ ~error]
    IN  IF v.flying = {} /\ v.ok /\ w.pc = "fanout" THEN End(v, TRUE) ELSE v

AfterParallelStep(w, i, cost, error) ==
    LET v == [w EXCEPT !.flying = w.flying \ {i}, !.total = w.total + cost,
                       !.ok = w.ok /\ ~error]
    IN  IF v.flying = {} /\ w.pc = "fanout" THEN End(v, v.ok) ELSE v

=============================================================================
