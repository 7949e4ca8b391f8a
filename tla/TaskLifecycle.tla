--------------------------- MODULE TaskLifecycle ---------------------------
(***************************************************************************)
(* The life of a task: the task_queue and approvals tables, the spawned    *)
(* asyncio tasks, and the budget ledger they share.  It composes           *)
(* BudgetStore with TaskAPI (submit, cancel), the HTTP approve and reject  *)
(* handlers, Orchestrator.spawn_task and the daemon's start-up sweeps.     *)
(*                                                                         *)
(* The daemon is one asyncio event loop, so the statements of a handler    *)
(* between two awaits are one step.  SQLite commits inside such a step are *)
(* separate only for a crash: the ...Torn actions are the prefixes of a    *)
(* step that a crash can leave on disk.                                    *)
(***************************************************************************)
EXTENDS BudgetStore

CONSTANTS
  Agents,    \* names of agents with a workspace on disk
  AgentOf,   \* the agent each task is addressed to
  Costs,     \* the costs a model reply can report, in cents
  Env        \* what the environment is allowed to do, see below

ASSUME TaskAssumption ==
  /\ AgentOf \in [Tasks -> Agents]
  /\ Costs \subseteq Nat
  /\ Env \subseteq {"admin",       \* budgets are updated and deleted
                    "rollover",    \* a budget period elapses
                    "late_cancel", \* a cancel reaches a finished task
                    "crash",       \* the process dies at an await
                    "torn",        \* the process dies between two commits
                    "faults",      \* a database write fails and is swallowed
                    "churn"}       \* agents leave and rejoin the registry

VARIABLES
  status,    \* task_queue.status, "none" when there is no row
  resv,      \* metadata._budget_reservations: budgets reserved on
  appr,      \* status of the task's approvals row
  gated,     \* history: tasks created as pending_approval
  run,       \* what the event loop holds for the task
  cost,      \* SpawnedTask.cost
  registry,  \* agents AgentRegistry knows
  up         \* the daemon serves requests

vars == <<status, resv, appr, gated, run, cost, registry, up, budgetVars>>

Terminal == {"completed", "completed_unverified", "failed", "cancelled"}
Queued == {"pending", "running"}
Statuses == {"none", "pending_approval"} \cup Queued \cup Terminal

\* "inline": a chat or heartbeat turn, awaited by its caller and absent from
\* _spawned_tasks.  The other states but "none" are those of _run's future.
Future == {"scheduled", "thinking", "broadcast"}
RunStates == {"none", "inline", "done", "cancelled"} \cup Future

TypeOK ==
  /\ BudgetTypeOK
  /\ status \in [Tasks -> Statuses]
  /\ resv \in [Tasks -> SUBSET Budgets]
  /\ appr \in [Tasks -> {"none", "pending", "approved", "rejected", "stale"}]
  /\ gated \subseteq Tasks
  /\ run \in [Tasks -> RunStates]
  /\ cost \in [Tasks -> Costs \cup {0}]
  /\ registry \subseteq Agents
  /\ up \in BOOLEAN

Init ==
  /\ BudgetInit
  /\ status = [t \in Tasks |-> "none"]
  /\ resv = [t \in Tasks |-> {}]
  /\ appr = [t \in Tasks |-> "none"]
  /\ gated = {}
  /\ run = [t \in Tasks |-> "none"]
  /\ cost = [t \in Tasks |-> 0]
  /\ registry = Agents
  /\ up = TRUE

Set(f, t, v) == [f EXCEPT ![t] = v]

\* What a write in a try block of its own leaves: it may fail, as a whole, and
\* the handler goes on.  Of a loop of such writes any may fail.
Attempt(old, new) == {new} \cup (IF "faults" \in Env THEN {old} ELSE {})
Done(all) == IF "faults" \in Env THEN SUBSET all ELSE {all}

\* UPDATE task_queue ... WHERE id = t, which misses a row that is not there.
Written(t, v) == Attempt(status, IF status[t] = "none" THEN status ELSE Set(status, t, v))

(***************************************************************************)
(* TaskAPI.submit_task as the HTTP API builds it, with a budget store.     *)
(***************************************************************************)
CanSubmit(t) ==
  up /\ status[t] = "none" /\ run[t] = "none" /\ AgentOf[t] \in registry

Reserved(t) == CheckAndReserve(AfterReset(spend), Applicable(t))

\* Rejected, or to be held and the row could not be inserted.
SubmitRejected(t) ==
  /\ CanSubmit(t) /\ EnforceBudget(t, FALSE) # "allowed"
  /\ AutoResetExpired /\ spend' = AfterReset(spend)
  /\ UNCHANGED <<status, resv, appr, gated, run, cost, registry, up, conf>>

\* _handle_approval_required: the row is inserted as pending_approval; an
\* exception from approvals.create is swallowed and leaves no approvals row.
Hold(t) ==
  /\ status' = Set(status, t, "pending_approval")
  /\ gated' = gated \cup {t}
  /\ appr' \in {appr, Set(appr, t, "pending")}
  /\ UNCHANGED <<resv, run, cost, registry, up, conf>>

SubmitHeld(t) ==
  /\ CanSubmit(t) /\ EnforceBudget(t, FALSE) = "approval_required"
  /\ AutoResetExpired /\ spend' = AfterReset(spend)
  /\ Hold(t)

SubmitAllowed(t) ==
  /\ CanSubmit(t) /\ EnforceBudget(t, FALSE) = "allowed"
  /\ AutoResetExpired /\ spend' = Reserved(t)
  /\ resv' = Set(resv, t, Applicable(t))
  /\ status' = Set(status, t, "pending")
  /\ run' = Set(run, t, "scheduled")
  /\ UNCHANGED <<appr, gated, cost, registry, up, conf>>

\* create_task raised: the reservations are handed back, there is no row.
SubmitDbError(t) ==
  /\ CanSubmit(t) /\ EnforceBudget(t, FALSE) = "allowed"
  /\ AutoResetExpired /\ spend' = ReleaseReservations(Reserved(t), Applicable(t))
  /\ UNCHANGED <<status, resv, appr, gated, run, cost, registry, up, conf>>

\* spawn_task raised: handed back as well, but the metadata keeps the list.
SubmitSpawnFails(t) ==
  /\ CanSubmit(t) /\ EnforceBudget(t, FALSE) = "allowed"
  /\ AutoResetExpired /\ spend' = ReleaseReservations(Reserved(t), Applicable(t))
  /\ resv' = Set(resv, t, Applicable(t))
  /\ \E s \in Attempt("pending", "failed") : status' = Set(status, t, s)
  /\ UNCHANGED <<appr, gated, run, cost, registry, up, conf>>

Submit(t) ==
  \/ SubmitRejected(t) \/ SubmitHeld(t) \/ SubmitAllowed(t)
  \/ SubmitDbError(t)  \/ SubmitSpawnFails(t)

(***************************************************************************)
(* Rows that no budget governs: the factory's and the council's TaskAPI    *)
(* has no budget store, [SPAWN] and /spawn call spawn_task directly, chat  *)
(* and heartbeat turns write a running row, [TASK:self] only a row.        *)
(***************************************************************************)
\* A task whose row could not be inserted is spawned all the same.
InternalSpawn(t) ==
  /\ CanSubmit(t)
  /\ status' \in Attempt(status, Set(status, t, "pending"))
  /\ run' = Set(run, t, "scheduled")
  /\ UNCHANGED <<resv, appr, gated, cost, registry, up, budgetVars>>

InternalHold(t) == CanSubmit(t) /\ Hold(t) /\ UNCHANGED <<spend, due, charged>>

InlineTurn(t) ==
  /\ CanSubmit(t)
  /\ status' \in Attempt(status, Set(status, t, "running"))
  /\ run' = Set(run, t, "inline")
  /\ UNCHANGED <<resv, appr, gated, cost, registry, up, budgetVars>>

InlineTurnEnds(t) ==
  /\ run[t] = "inline"
  /\ run' = Set(run, t, "done")
  /\ \E s \in {"completed", "failed"} : status' \in Written(t, s)
  /\ UNCHANGED <<resv, appr, gated, cost, registry, up, budgetVars>>

SelfTask(t) ==
  /\ CanSubmit(t)
  /\ status' = Set(status, t, "pending")
  /\ UNCHANGED <<resv, appr, gated, run, cost, registry, up, budgetVars>>

Internal(t) == InternalSpawn(t) \/ InternalHold(t) \/ InlineTurn(t) \/ SelfTask(t)

(***************************************************************************)
(* The body of spawn_task's _run: three stretches between awaits.          *)
(***************************************************************************)
RunStart(t) ==
  /\ run[t] = "scheduled"
  /\ run' = Set(run, t, "thinking")
  /\ status' \in Written(t, "running")
  /\ UNCHANGED <<resv, appr, gated, cost, registry, up, budgetVars>>

\* Slip: only the success path settles the reservation.
ReconciledOnSuccess(t, outcome, c) ==
  IF outcome = "completed" THEN ApplyActualSpend(spend, resv[t], c) ELSE spend

Reconciled(t, outcome, c) ==
  IF outcome = "completed" /\ c > 0
  THEN ApplyActualSpend(spend, resv[t], c)
  ELSE ReleaseReservations(spend, resv[t])

\* send_to_agent returned (or raised): final status, then reconciliation.
RunReply(t) ==
  /\ run[t] = "thinking"
  /\ run' = Set(run, t, "broadcast")
  /\ \E outcome \in {"completed", "completed_unverified", "failed"},
        c \in Costs \cup {0} :
       /\ status' \in Written(t, outcome)
       /\ cost' = Set(cost, t, c)
       /\ spend' \in Attempt(spend, Reconciled(t, outcome, c))
       /\ charged' = [b \in Budgets |->
                        IF outcome = "completed" /\ b \in resv[t]
                        THEN charged[b] + c ELSE charged[b]]
  /\ UNCHANGED <<resv, appr, gated, registry, up, conf, due>>

\* The awaited hub.budget_update and hub.task_update are over.
RunEnds(t) ==
  /\ run[t] = "broadcast"
  /\ run' = Set(run, t, "done")
  /\ UNCHANGED <<status, resv, appr, gated, cost, registry, up, budgetVars>>

Run(t) == RunStart(t) \/ RunReply(t) \/ RunEnds(t) \/ InlineTurnEnds(t)

(***************************************************************************)
(* The approval handlers.  Everything after `await request.json()` is one  *)
(* step, except that a crash can cut it between commits.                   *)
(***************************************************************************)
CanApprove(t) == up /\ appr[t] = "pending"

\* update_task_metadata runs only when something was reserved.
Stashed(t) == IF Applicable(t) = {} THEN resv ELSE Set(resv, t, Applicable(t))

ApproveRejected(t) ==
  /\ CanApprove(t) /\ EnforceBudget(t, TRUE) = "rejected"
  /\ AutoResetExpired /\ spend' = AfterReset(spend)
  /\ UNCHANGED <<status, resv, appr, gated, run, cost, registry, up, conf>>

\* UPDATE task_queue ... WHERE status = 'pending_approval' hit a row.
UncheckedTransition(t) == TRUE     \* slip: the WHERE clause forgets the status
StillWaits(t) == status[t] = "pending_approval"

\* ApprovalsStore.approve found the task in another state: the approval goes
\* stale, the fresh reservations are released, the metadata keeps them.
ApproveStale(t) ==
  /\ CanApprove(t) /\ EnforceBudget(t, TRUE) = "allowed"
  /\ ~StillWaits(t)
  /\ AutoResetExpired /\ spend' = ReleaseReservations(Reserved(t), Applicable(t))
  /\ resv' = Stashed(t)
  /\ appr' = Set(appr, t, "stale")
  /\ UNCHANGED <<status, gated, run, cost, registry, up, conf>>

\* The agent is looked up after the transition; when it is gone the handler
\* answers "approved" without spawning anything.
ApproveDispatch(t) ==
  /\ CanApprove(t) /\ EnforceBudget(t, TRUE) = "allowed"
  /\ StillWaits(t)
  /\ AutoResetExpired /\ spend' = Reserved(t)
  /\ resv' = Stashed(t)
  /\ appr' = Set(appr, t, "approved")
  /\ status' = Set(status, t, "pending")
  /\ run' = IF AgentOf[t] \in registry THEN Set(run, t, "scheduled") ELSE run
  /\ UNCHANGED <<gated, cost, registry, up, conf>>

ApproveSpawnFails(t) ==
  /\ CanApprove(t) /\ EnforceBudget(t, TRUE) = "allowed"
  /\ StillWaits(t) /\ AgentOf[t] \in registry
  /\ AutoResetExpired /\ spend' = ReleaseReservations(Reserved(t), Applicable(t))
  /\ resv' = Stashed(t)
  /\ appr' = Set(appr, t, "approved")
  /\ \E s \in Attempt("pending", "failed") : status' = Set(status, t, s)
  /\ UNCHANGED <<gated, run, cost, registry, up, conf>>

Approve(t) ==
  \/ ApproveRejected(t) \/ ApproveStale(t)
  \/ ApproveDispatch(t) \/ ApproveSpawnFails(t)

RejectedAlone(t) == status         \* slip: the linked task is forgotten
\* ApprovalsStore.reject cancels the task only while it still waits.
RejectedStatus(t) ==
  IF StillWaits(t) THEN Set(status, t, "cancelled") ELSE status

Reject(t) ==
  /\ up /\ appr[t] = "pending"
  /\ appr' = Set(appr, t, "rejected")
  /\ status' = RejectedStatus(t)
  /\ UNCHANGED <<resv, gated, run, cost, registry, up, budgetVars>>

(***************************************************************************)
(* TaskAPI.cancel_task looks at neither the status of the row nor whether  *)
(* its reservations have been settled.  "late_cancel" lets the environment *)
(* cancel a task that has already finished.                                *)
(***************************************************************************)
CanCancel(t) ==
  /\ up /\ status[t] # "none"
  /\ status[t] \in Terminal => "late_cancel" \in Env

ApprovalUntouched(t) == appr       \* slip: the linked approval is forgotten
ResolvedApproval(t) ==
  IF appr[t] = "pending" THEN Set(appr, t, "rejected") ELSE appr

LeftRunning(t) == run              \* slip: the future is not cancelled
Stopped(t) == IF run[t] \in Future THEN Set(run, t, "cancelled") ELSE run

\* The release, the rejection and the update of the row fail separately.
Cancel(t) ==
  /\ CanCancel(t)
  /\ spend' \in Attempt(spend, ReleaseReservations(spend, resv[t]))
  /\ appr' \in Attempt(appr, ResolvedApproval(t))
  /\ run' = Stopped(t)
  /\ status' \in Attempt(IF appr' # appr THEN RejectedStatus(t) ELSE status,
                        Set(status, t, "cancelled"))
  /\ UNCHANGED <<resv, gated, cost, registry, up, conf, due, charged>>

(***************************************************************************)
(* The agent registry: removal keeps the workspace, so a start-up reloads  *)
(* every agent.                                                            *)
(***************************************************************************)
RemoveAgent(a) ==
  /\ up /\ "churn" \in Env
  /\ registry' = registry \ {a}
  /\ UNCHANGED <<status, resv, appr, gated, run, cost, up, budgetVars>>

CreateAgent(a) ==
  /\ up /\ "churn" \in Env
  /\ registry' = registry \cup {a}
  /\ UNCHANGED <<status, resv, appr, gated, run, cost, up, budgetVars>>

AdminStep(b) ==
  /\ up
  /\ \/ CreateBudget(b)
     \/ "admin" \in Env /\ (UpdateBudget(b) \/ DeleteBudget(b))
  /\ UNCHANGED <<status, resv, appr, gated, run, cost, registry, up>>

ClockStep(b) ==
  /\ "rollover" \in Env /\ PeriodElapses(b)
  /\ UNCHANGED <<status, resv, appr, gated, run, cost, registry, up>>

(***************************************************************************)
(* Death and restart.  A graceful stop is a Crash too: it cancels no       *)
(* spawned task and writes no row before the loop ends.                    *)
(***************************************************************************)
Held(b) == {t \in Tasks : b \in resv[t] /\ status[t] \in Queued}

Dies == up' = FALSE /\ run' = [t \in Tasks |-> "none"]

Crash ==
  /\ up /\ "crash" \in Env
  /\ Dies
  /\ UNCHANGED <<status, resv, appr, gated, cost, registry, budgetVars>>

\* sweep_orphan_tasks fails pending and running rows and hands back what the
\* swept rows had reserved; _mark_stale_tasks then fails what is left of
\* get_pending_tasks(), which includes the pending_approval rows.
SweptTwice == [t \in Tasks |-> IF status[t] = "none" THEN "none" ELSE "failed"]   \* slip
Swept == [t \in Tasks |-> IF status[t] \in Queued THEN "failed" ELSE status[t]]

\* What the first sweep leaves when it goes through, and when it does not.
AfterSweep(swept) == IF swept THEN Swept ELSE status

NothingMarked(swept, M) == status   \* slip: the start-up forgets both sweeps
Requeued(swept, M) ==               \* slip: waiting rows are queued again
  [t \in Tasks |-> IF status[t] = "pending_approval" THEN "pending" ELSE Swept[t]]
MarkedStale(swept, M) ==
  [t \in Tasks |-> IF t \in M /\ AfterSweep(swept)[t] \in Queued \cup {"pending_approval"}
                   THEN "failed" ELSE AfterSweep(swept)[t]]

SweepForgetsLedger(column, R) == column   \* slip: rows are swept, budgets are not
ReleasedBySweep(column, R) ==
  [b \in Budgets |->
     IF Live(b) THEN AtLeastZero(column[b] - MinReservation * Cardinality(Held(b) \cap R))
     ELSE column[b]]

\* The first sweep fails as a whole, a release and a mark one by one.
Restart ==
  /\ ~up
  /\ up' = TRUE
  /\ registry' = Agents
  /\ \E swept \in Attempt(FALSE, TRUE), M \in Done(Tasks), R \in Done(Tasks) :
       /\ status' = MarkedStale(swept, M)
       /\ spend' = IF swept THEN ReleasedBySweep(spend, R) ELSE spend
  /\ UNCHANGED <<resv, appr, gated, run, cost, conf, due, charged>>

(***************************************************************************)
(* A crash between two commits of one handler.  The rows are committed in  *)
(* the order of the code, so each action keeps a proper prefix.            *)
(***************************************************************************)
\* Some reservations are committed, create_task is not.
SubmitTorn(t) ==
  /\ CanSubmit(t) /\ EnforceBudget(t, FALSE) = "allowed"
  /\ \E B \in SUBSET Applicable(t) : spend' = CheckAndReserve(AfterReset(spend), B)
  /\ AutoResetExpired /\ Dies
  /\ UNCHANGED <<status, resv, appr, gated, cost, registry, conf>>

\* The reservations and perhaps the metadata are committed, approve is not.
ApproveTorn(t) ==
  /\ CanApprove(t) /\ EnforceBudget(t, TRUE) = "allowed"
  /\ spend' = Reserved(t) /\ resv' \in {resv, Stashed(t)}
  /\ AutoResetExpired /\ Dies
  /\ UNCHANGED <<status, appr, gated, cost, registry, conf>>

\* The final status is committed, the reconciliation is not.
ReplyTorn(t) ==
  /\ run[t] = "thinking"
  /\ \E outcome \in {"completed", "completed_unverified", "failed"} :
       status' \in Written(t, outcome)
  /\ Dies
  /\ UNCHANGED <<resv, appr, gated, cost, registry, budgetVars>>

\* The release and perhaps the approval are committed, the status is not.
CancelTorn(t) ==
  /\ CanCancel(t)
  /\ spend' \in Attempt(spend, ReleaseReservations(spend, resv[t]))
  /\ \/ UNCHANGED <<appr, status>>
     \/ appr[t] = "pending" /\ appr' = ResolvedApproval(t) /\ status' = RejectedStatus(t)
  /\ Dies
  /\ UNCHANGED <<resv, gated, cost, registry, conf, due, charged>>

\* The sweep is committed, its releases are not.
RestartTorn ==
  /\ ~up
  /\ status' = Swept
  /\ UNCHANGED <<resv, appr, gated, run, cost, registry, up, budgetVars>>

TornStep ==
  /\ "torn" \in Env
  /\ \/ \E t \in Tasks : SubmitTorn(t) \/ ApproveTorn(t) \/ ReplyTorn(t) \/ CancelTorn(t)
     \/ RestartTorn

-----------------------------------------------------------------------------
TaskStep(t) == Submit(t) \/ Internal(t) \/ Run(t) \/ Approve(t) \/ Reject(t) \/ Cancel(t)

Next ==
  \/ \E t \in Tasks : TaskStep(t)
  \/ \E a \in Agents : RemoveAgent(a) \/ CreateAgent(a)
  \/ \E b \in Budgets : AdminStep(b) \/ ClockStep(b)
  \/ Crash \/ Restart \/ TornStep

Spec == Init /\ [][Next]_vars

\* The event loop runs what is ready, a model call ends (process.py and
\* sdk_bridge.py bound it with timeouts), and a dead daemon is restarted.
Fairness ==
  /\ \A t \in Tasks : WF_vars(RunStart(t)) /\ WF_vars(RunReply(t)) /\ WF_vars(RunEnds(t))
  /\ WF_vars(Restart)

FairSpec == Spec /\ Fairness
-----------------------------------------------------------------------------
(***************************************************************************)
(* Safety                                                                  *)
(***************************************************************************)
\* A task that was held for a human runs only after its approvals row was
\* approved: no restart, retry, cancel or race dispatches it otherwise.
GateRespected ==
  \A t \in gated : (run[t] # "none" \/ status[t] \in Queued) => appr[t] = "approved"

\* What budget b owes: a reservation for every queued task that holds one, and
\* what completed tasks have cost.
Owed(b) == MinReservation * Cardinality(Held(b)) + charged[b]

\* current_spend is exactly what is owed: the reservation taken by submit or
\* approve is settled once, by the reply, the cancel or the start-up sweep.
LedgerExact == \A b \in Budgets : Live(b) => spend[b] = Owed(b)

\* While no handler is cut in two, drift has one direction only: a budget is
\* never charged for more than is owed, so it never blocks work it could take.
NeverOverCharged == \A b \in Budgets : Live(b) => spend[b] <= Owed(b)

\* No task is admitted past a budget's cap, counting the real debt of the
\* budget and not the column the code reads.
AdmissionWithinCap ==
  [][\A t \in Tasks, b \in Budgets :
       (t \in Held(b)' /\ t \notin Held(b)) => Owed(b)' <= conf[b].limit]_vars

\* An approvals row that waits for a human has a task that nothing has started
\* and that waits as well, or was failed by a restart, or whose cancel could not
\* resolve the row (which can only go stale then); and a task that waits for a
\* human has an approvals row that waits, if it has one, so it can be let through.
ApprovalMirrorsTask ==
  \A t \in Tasks :
    /\ appr[t] = "pending" =>
         /\ run[t] = "none"
         /\ \/ status[t] \in {"pending_approval", "failed"}
            \/ status[t] = "cancelled" /\ "faults" \in Env
    /\ status[t] = "pending_approval" => appr[t] \in {"pending", "none"}

\* A spawned task whose row says cancelled stays cancelled: its future can no
\* longer write the row.
CancelSticks ==
  [][\A t \in Tasks :
       (status[t] = "cancelled" /\ run[t] # "inline") => status'[t] = "cancelled"]_vars

\* A finished spawned task is not reopened or relabelled.
TerminalSticks ==
  [][\A t \in Tasks :
       (status[t] \in Terminal /\ run[t] # "inline") => status'[t] = status[t]]_vars

\* A future is created for a task once, when its row is new or leaves the gate.
DispatchedOnce ==
  [][\A t \in Tasks :
       (run'[t] = "scheduled" /\ run[t] # "scheduled")
         => /\ status[t] \in {"none", "pending_approval"}
            /\ run[t] = "none"]_vars

\* Seen from outside a task is held, going or over, and over is for good; the
\* statuses of an ended task are one phase, so that a late cancel is a stutter.
Phase(t) == CASE status[t] = "none" -> "absent"
              [] status[t] = "pending_approval" -> "held"
              [] status[t] \in Queued -> "going"
              [] OTHER -> "over"

Promise == INSTANCE TaskPromise WITH phase <- [t \in Tasks |-> Phase(t)]

KeepsPromise == Promise!Spec

\* Every dispatched task reaches a final status, through crashes and cancels.
DispatchSettles ==
  \A t \in Tasks : (run[t] = "scheduled") ~> (status[t] \in Terminal)

(***************************************************************************)
(* What the repository says and the code does not do (see the README).     *)
(***************************************************************************)
\* daemon.py:1174: pending_approval rows are left alone by a start-up.
WaitingSurvivesRestart ==
  [][\A t \in Tasks :
       (~up /\ status[t] = "pending_approval") => status'[t] = "pending_approval"]_vars

\* enforcement.py:13: the actual spend is reconciled after task completion.
CompletionIsCharged ==
  [][\A t \in Tasks, b \in Budgets :
       (/\ run[t] = "thinking" /\ run'[t] = "broadcast"
        /\ status'[t] \in {"completed", "completed_unverified"}
        /\ b \in resv[t] /\ Live(b))
       => spend'[b] - spend[b] = cost'[t] - MinReservation]_vars
=============================================================================
