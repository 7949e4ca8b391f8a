-------------------------- MODULE SoftwareFactory --------------------------
(***************************************************************************)
(* The software factory (factory/factory.py): plan, build and review, and  *)
(* the daemon's older build workflow, which goes through the factory and   *)
(* changes the reviewer in its shared configuration for as long as it      *)
(* runs.  Agents leave and join the registry meanwhile.                    *)
(***************************************************************************)
EXTENDS Workflow

CONSTANTS
    Loaded,           \* the agents that load_all found, in the order of their names
    Orchestrator,     \* the agent marked as orchestrator
    BuildAgents,      \* albert and luna, in this order, for run_build_workflow
    BuildReviewer,    \* max, its reviewer
    AutoName,             \* the name "auto" in a configuration
    PlannerName, ExecutorNames, ReviewerName,  \* FactoryConfig: names or AutoName
    Presets,          \* the agents of the review presets, names or AutoName
    RequireApproval,  \* require_plan_approval
    Churn             \* the agents that may leave and join

ASSUME FactoryAssumption ==
    /\ Orchestrator \in Agents
    /\ RequireApproval \in BOOLEAN
    /\ ReviewerName # None
    /\ Churn \subseteq Agents

VARIABLES
    reviewerAgent,  \* factory.config.reviewer_agent, shared by all runs
    planFile,       \* the plans written to plans_dir
    taskRow         \* the task submitted for the approval of a plan

vars == <<registry, wf, reviewerAgent, planFile, taskRow>>

Init ==
    /\ registry = Loaded
    /\ wf = [r \in Runs |-> NewRun]
    /\ reviewerAgent = ReviewerName
    /\ planFile = {}
    /\ taskRow = [r \in Runs |-> "none"]

-----------------------------------------------------------------------------
\* Roles

GetOrchestrator == IF Orchestrator \in Registered THEN Orchestrator ELSE None

ResolveAgent(name) ==
    IF name # AutoName THEN IF name \in Registered THEN name ELSE None
    ELSE IF GetOrchestrator # None THEN GetOrchestrator
    ELSE IF registry # <<>> THEN registry[1] ELSE None

ResolvePlanner ==
    LET a == ResolveAgent(PlannerName) IN IF a # None THEN a ELSE GetOrchestrator

NoRepeats(s) ==
    SelectSeq([i \in 1..Len(s) |->
                 IF \E j \in 1..(i - 1) : s[j] = s[i] THEN None ELSE s[i]],
              LAMBDA a : a # None)

ResolveExecutors(names) ==
    LET found == NoRepeats([i \in 1..Len(names) |-> ResolveAgent(names[i])])
    IN  IF found = <<>> THEN <<ResolvePlanner>> ELSE found

ResolveReviewer(executors, name) ==
    LET a      == ResolveAgent(name)
        others == SelectSeq(registry, LAMBDA b : \A i \in 1..Len(executors) : b # executors[i])
    IN  IF a # None THEN a ELSE IF others # <<>> THEN others[1] ELSE executors[1]

Historical == SelectSeq(BuildAgents, LAMBDA a : a \in Registered)

-----------------------------------------------------------------------------
\* The end of a run is part of the step that ends it: the finally of
\* run_build_workflow puts back the reviewer that it found.

Advance(r, w) ==
    /\ wf' = [wf EXCEPT ![r] = w]
    /\ reviewerAgent' = IF Over(w) /\ wf[r].saved # None
                        THEN wf[r].saved ELSE reviewerAgent

\* build() from its second look at the roles to the first await of the loop.
BeginBuild(w, names, reviewer) ==
    LET executors == ResolveExecutors(names) IN
    IF ResolvePlanner = None THEN End(w, FALSE)
    ELSE BeginRound([w EXCEPT !.steps = executors,
                              !.reviewer = ResolveReviewer(executors, reviewer)], 1)

\* A request comes in, by HTTP, by a chat command or by a tag in an answer.
Requested(r, kind, cap) == [wf[r] EXCEPT !.kind = kind, !.cap = cap]

StartPlanner(r) ==
    /\ wf[r].pc = "idle"
    /\ \E kind \in {"plan", "build"}, cap \in Caps :
         LET w == Requested(r, kind, cap) IN
         Advance(r, IF ResolvePlanner = None THEN End(w, FALSE)
                    ELSE [w EXCEPT !.pc = "planning", !.steps = <<ResolvePlanner>>])
    /\ UNCHANGED <<registry, planFile, taskRow>>

\* A planner's answer that ends the run: an error, or one over the cap.
PlannerFails(r) ==
    /\ wf[r].pc = "planning"
    /\ \E cost \in Costs, error \in BOOLEAN :
         /\ error \/ (wf[r].kind = "plan" /\ wf[r].cap > 0 /\ cost > wf[r].cap)
         /\ Advance(r, End([wf[r] EXCEPT !.total = cost], FALSE))
    /\ UNCHANGED <<registry, planFile, taskRow>>

\* submit_task refuses a planner who has left while it was planning.
SubmitPlan(r) == IF wf[r].steps[1] \in Registered THEN {"pending_approval", "rejected", "error"}
                 ELSE {"rejected"}

(***************************************************************************)
(* plan(): the row for the approval comes first, then the file.            *)
(***************************************************************************)
PlannerAnswers(r) ==
    /\ wf[r].kind = "plan"
    /\ wf[r].pc = "planning"
    /\ \E cost \in Costs, written \in BOOLEAN, row \in IF RequireApproval THEN SubmitPlan(r) ELSE {"none"} :
         /\ wf[r].cap = 0 \/ cost <= wf[r].cap
         /\ taskRow' = [taskRow EXCEPT ![r] = row]
         /\ planFile' = IF written /\ row \in {"none", "pending_approval"}
                        THEN planFile \union {r} ELSE planFile
         /\ Advance(r, End([wf[r] EXCEPT !.total = cost], r \in planFile'))
    /\ UNCHANGED registry

\* build(): the inline plan is written without approval, and what it cost is
\* in no total.  A file that cannot be written raises.
AutoPlanAnswers(r) ==
    /\ wf[r].kind = "build"
    /\ wf[r].pc = "planning"
    /\ \/ /\ planFile' = planFile \union {r}
          /\ Advance(r, BeginBuild(wf[r], ExecutorNames, reviewerAgent))
       \/ /\ Advance(r, Raise(wf[r]))
          /\ UNCHANGED planFile
    /\ UNCHANGED <<registry, taskRow>>

\* A build with no plan, or with a plan file that exists inside plans_dir.
StartBuild(r) ==
    /\ wf[r].pc = "idle"
    /\ \E cap \in Caps :
         \/ Advance(r, BeginBuild(Requested(r, "skip", cap), ExecutorNames, reviewerAgent))
         \/ \E p \in Runs \ {r} :
              LET w == Requested(r, "given", cap) IN
              Advance(r, IF p \in planFile THEN BeginBuild(w, ExecutorNames, reviewerAgent)
                         ELSE End(w, FALSE))
    /\ UNCHANGED <<registry, planFile, taskRow>>

(***************************************************************************)
(* run_build_workflow: with skip_plan there is no await between the        *)
(* override and the look at the roles.                                     *)
(***************************************************************************)
StartShim(r) ==
    /\ wf[r].pc = "idle"
    /\ \E cap \in Caps :
         LET max   == BuildReviewer \in Registered
             v     == [Requested(r, "shim", cap) EXCEPT !.saved = IF max THEN reviewerAgent ELSE None]
             w     == IF Historical = <<>> THEN End(v, FALSE)
                      ELSE BeginBuild(v, Historical, IF max THEN BuildReviewer ELSE reviewerAgent)
         IN  /\ wf' = [wf EXCEPT ![r] = w]
             /\ reviewerAgent' = IF max /\ ~Over(w) THEN BuildReviewer ELSE reviewerAgent
    /\ UNCHANGED <<registry, planFile, taskRow>>

-----------------------------------------------------------------------------
\* The review loop at its awaits

StepAnswers(r) ==
    /\ wf[r].pc = "step"
    /\ \/ \E cost \in Costs, error \in BOOLEAN : Advance(r, AfterStep(wf[r], cost, error))
       \/ Advance(r, AfterStepTimeout(wf[r]))
    /\ UNCHANGED <<registry, planFile, taskRow>>

\* The test command ends, fails to start or times out: all go on to the review.
TestsEnd(r) ==
    /\ wf[r].pc = "testing"
    /\ Advance(r, BeginReview(wf[r]))
    /\ UNCHANGED <<registry, planFile, taskRow>>

ReviewAnswers(r) ==
    /\ wf[r].pc = "reviewing"
    /\ \E cost \in Costs, error \in BOOLEAN, verdict \in {"PASS", "FAIL"}, found \in BOOLEAN :
         /\ verdict = "PASS" => found   \* a FAIL may quote tests that "passed"
         /\ Advance(r, AfterReview(wf[r], cost, error, verdict, found))
    /\ UNCHANGED <<registry, planFile, taskRow>>

-----------------------------------------------------------------------------
\* review(): git diff, then one step per preset at once

\* _assign_review_agents: agents that a preset names come first, the other
\* presets go round the agents that are not the orchestrator.
AssignReviewAgents ==
    LET named == SelectSeq(Presets, LAMBDA p : p # AutoName /\ p \in Registered)
        rest  == SelectSeq(Presets, LAMBDA p : p = AutoName \/ p \notin Registered)
        specialists == SelectSeq(registry, LAMBDA a : a # GetOrchestrator)
        pool  == IF specialists = <<>> THEN registry ELSE specialists
    IN  named \o [i \in 1..Len(rest) |-> pool[((i - 1) % Len(pool)) + 1]]

StartReview(r) ==
    /\ wf[r].pc = "idle"
    /\ \E cap \in Caps : Advance(r, [Requested(r, "review", cap) EXCEPT !.pc = "diffing"])
    /\ UNCHANGED <<registry, planFile, taskRow>>

DiffEnds(r) ==
    /\ wf[r].pc = "diffing"
    /\ \E empty \in BOOLEAN :
         Advance(r, IF empty \/ registry = <<>> \/ Presets = <<>> THEN End(wf[r], FALSE)
                    ELSE [wf[r] EXCEPT !.pc = "gather", !.steps = AssignReviewAgents])
    /\ UNCHANGED <<registry, planFile, taskRow>>

\* The tasks of asyncio.gather run when the event loop gets to them.
GatherStarts(r) ==
    /\ wf[r].pc = "gather"
    /\ Advance(r, BeginFanOut(wf[r]))
    /\ UNCHANGED <<registry, planFile, taskRow>>

\* A reviewer of the panel answers, or its step times out at no known cost.
PanelistAnswers(r) ==
    /\ \E i \in wf[r].flying, cost \in Costs, error \in BOOLEAN :
         Advance(r, AfterParallelStep(wf[r], i, cost, error))
    /\ UNCHANGED <<registry, planFile, taskRow>>

-----------------------------------------------------------------------------
(***************************************************************************)
(* A turn raises.  The exception goes through the engine and the factory   *)
(* to the handler; gather passes it on at once and leaves its other steps  *)
(* running.                                                                *)
(***************************************************************************)
TurnRaises(r) ==
    /\ \/ /\ wf[r].pc \in {"planning", "step", "reviewing"}
          /\ Advance(r, Raise(wf[r]))
       \/ \E i \in wf[r].flying :
            Advance(r, Raise([wf[r] EXCEPT !.flying = wf[r].flying \ {i}]))
    /\ UNCHANGED <<registry, planFile, taskRow>>

\* delete_agent and create_agent, by chat command or HTTP.
AgentLeaves(a) ==
    /\ a \in Registered
    /\ registry' = SelectSeq(registry, LAMBDA b : b # a)
    /\ UNCHANGED <<wf, reviewerAgent, planFile, taskRow>>

AgentJoins(a) ==
    /\ a \notin Registered
    /\ registry' = Append(registry, a)
    /\ UNCHANGED <<wf, reviewerAgent, planFile, taskRow>>

RunStep(r) ==
    \/ PlannerFails(r) \/ PlannerAnswers(r) \/ AutoPlanAnswers(r)
    \/ StepAnswers(r) \/ TestsEnd(r) \/ ReviewAnswers(r)
    \/ DiffEnds(r) \/ GatherStarts(r) \/ PanelistAnswers(r) \/ TurnRaises(r)

Next ==
    \/ \E r \in Runs : StartPlanner(r) \/ StartBuild(r) \/ StartShim(r) \/ StartReview(r)
    \/ \E r \in Runs : RunStep(r)
    \/ \E a \in Churn : AgentLeaves(a) \/ AgentJoins(a)

Spec == Init /\ [][Next]_vars

\* Turns, git and the test command are bounded by time-outs of their own.
FairSpec == Spec /\ \A r \in Runs : WF_vars(RunStep(r))


-----------------------------------------------------------------------------
\* Properties

BuildKinds == {"build", "skip", "given", "shim"}

\* The type invariant.
TypeOK ==
    /\ Registered \subseteq Agents
    /\ \A r \in Runs :
         /\ wf[r].pc \in {"idle", "planning", "step", "testing", "reviewing",
                          "diffing", "gather", "fanout", "done", "raised"}
         /\ wf[r].kind \in BuildKinds \union {"none", "plan", "review"}
         /\ wf[r].reviewer \in Agents \union {None}
         /\ wf[r].iter \in 0..MaxIterations
         /\ wf[r].at \in 0..Len(wf[r].steps)
         /\ {wf[r].piped, wf[r].total} \subseteq Nat
         /\ wf[r].flying \subseteq 1..Len(Presets)
         /\ wf[r].said \in {"none", "PASS", "FAIL"}
         /\ wf[r].ok \in BOOLEAN
    /\ reviewerAgent \in Agents \union {AutoName}
    /\ planFile \subseteq Runs
    /\ taskRow \in [Runs -> {"none", "pending_approval", "rejected", "error"}]

Dearest == CHOOSE c \in Costs : \A d \in Costs : d <= c

(***************************************************************************)
(* What a capped build can cost at most (agents/workflow.py:425): the cap  *)
(* stops a pipeline only when that pipeline alone has reached it, so a     *)
(* round that begins just below the cap may spend it once more, and the    *)
(* last step may pass it.                                                  *)
(***************************************************************************)
CostBounded ==
    \A r \in Runs : wf[r].kind \in BuildKinds /\ wf[r].cap > 0 =>
        wf[r].total + wf[r].piped <= 2 * (wf[r].cap - 1) + Dearest

(***************************************************************************)
(* A build that succeeds has kept its cap but for the turn that passed it: *)
(* the check before the review (agents/workflow.py:437) sees to that.      *)
(***************************************************************************)
SuccessWithinCap ==
    \A r \in Runs : wf[r].kind \in BuildKinds /\ wf[r].cap > 0 /\ wf[r].ok =>
        wf[r].total <= wf[r].cap - 1 + Dearest

(***************************************************************************)
(* No plan file of plan() is left without the task that asks for its       *)
(* approval (factory/factory.py:281), although the planner may have left   *)
(* the registry while it planned.                                          *)
(***************************************************************************)
PlanHasTask ==
    RequireApproval =>
        \A r \in planFile : wf[r].kind = "plan" => taskRow[r] = "pending_approval"

(***************************************************************************)
(* A review that returned has no turn of its panel still running           *)
(* (agents/workflow.py:392); one that raised may.                          *)
(***************************************************************************)
NoStrayTurns == \A r \in Runs : wf[r].pc = "done" => wf[r].flying = {}

(***************************************************************************)
(* The override of the reviewer is temporary, and for one build workflow   *)
(* (the comment at core/daemon.py:998): when none is under way the factory *)
(* has its configured reviewer again.  Violated: of two that overlap, the  *)
(* second finds the reviewer of the first and puts it back after it.       *)
(***************************************************************************)
ReviewerRestored ==
    (\A r \in Runs : wf[r].kind = "shim" => Over(wf[r])) => reviewerAgent = ReviewerName

(***************************************************************************)
(* A build passes only if its reviewer said PASS, as the prompt            *)
(* (factory/factory.py:125) arranges with it: PASS or FAIL on the first    *)
(* line, then the evidence.                                                *)
(***************************************************************************)
SuccessIsPass ==
    \A r \in Runs : wf[r].kind \in BuildKinds /\ wf[r].ok => wf[r].said = "PASS"

\* Every run that has started ends.
EveryRunEnds == \A r \in Runs : wf[r].pc # "idle" ~> Over(wf[r])

=============================================================================
