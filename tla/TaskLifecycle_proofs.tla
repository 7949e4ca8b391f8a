----------------------- MODULE TaskLifecycle_proofs -----------------------
(***************************************************************************)
(* Theorems about TaskLifecycle for every set of tasks, budgets, agents,   *)
(* every money value and every environment Env, torn steps included unless *)
(* a theorem says otherwise: first the rows, then the budgets' ledger.     *)
(***************************************************************************)
EXTENDS TaskLifecycle, FiniteSetTheorems, TLAPS

(***************************************************************************)
(* The ledger's operators keep a spend column a column of naturals: the    *)
(* clamp MAX(0, ...) of budgets.py is what the last two rest on.           *)
(***************************************************************************)
LEMMA ReserveType ==
  ASSUME BudgetTypeOK, NEW column \in [Budgets -> Nat], NEW B
  PROVE  CheckAndReserve(column, B) \in [Budgets -> Nat]
BY BudgetAssumption DEF CheckAndReserve

LEMMA ReleaseType ==
  ASSUME NEW column \in [Budgets -> Nat], NEW B
  PROVE  ReleaseReservations(column, B) \in [Budgets -> Nat]
BY BudgetAssumption DEF ReleaseReservations, AtLeastZero

LEMMA ActualType ==
  ASSUME NEW column \in [Budgets -> Nat], NEW B, NEW c \in Nat
  PROVE  ApplyActualSpend(column, B, c) \in [Budgets -> Nat]
BY BudgetAssumption DEF ApplyActualSpend, AtLeastZero

LEMMA ResetType ==
  ASSUME NEW column \in [Budgets -> Nat]
  PROVE  AfterReset(column) \in [Budgets -> Nat]
BY DEF AfterReset

LEMMA HeldFinite ==
  ASSUME NEW b \in Budgets
  PROVE  IsFiniteSet(Held(b)) /\ Cardinality(Held(b)) \in Nat
<1>1. Held(b) \in SUBSET Tasks
  BY DEF Held
<1>. QED
  BY <1>1, BudgetAssumption, FS_Subset, FS_CardinalityType

LEMMA SweepType ==
  ASSUME NEW column \in [Budgets -> Nat], NEW R
  PROVE  ReleasedBySweep(column, R) \in [Budgets -> Nat]
<1>1. ASSUME NEW b \in Budgets
      PROVE  AtLeastZero(column[b] - MinReservation * Cardinality(Held(b) \cap R)) \in Nat
  <2>. DEFINE n == MinReservation * Cardinality(Held(b) \cap R)
  <2>1. Cardinality(Held(b) \cap R) \in Nat
    BY HeldFinite, FS_Subset, FS_CardinalityType
  <2>2. n \in Nat
    BY <2>1, BudgetAssumption
  <2>. QED
    BY <2>2 DEF AtLeastZero
<1>. QED
  BY <1>1 DEF ReleasedBySweep

LEMMA AutoResetType ==
  ASSUME BudgetTypeOK, AutoResetExpired
  PROVE  due' \in [Budgets -> BOOLEAN] /\ charged' \in [Budgets -> Nat]
BY ResetType DEF BudgetTypeOK, AutoResetExpired

LEMMA ApplicableType ==
  ASSUME NEW t
  PROVE  Applicable(t) \in SUBSET Budgets
BY DEF Applicable
-----------------------------------------------------------------------------
(***************************************************************************)
(* Type correctness.  The actions are taken in the groups of TaskStep; the *)
(* leaves of a group cite the lemma for the ledger operator it applies.    *)
(***************************************************************************)
LEMMA InitType == Init => TypeOK
BY BudgetAssumption DEF Init, BudgetInit, TypeOK, BudgetTypeOK, Missing, Statuses, RunStates

LEMMA ReservedType ==
  ASSUME TypeOK, NEW t
  PROVE  /\ Reserved(t) \in [Budgets -> Nat]
         /\ ReleaseReservations(Reserved(t), Applicable(t)) \in [Budgets -> Nat]
         /\ Stashed(t) \in [Tasks -> SUBSET Budgets]
<1>1. AfterReset(spend) \in [Budgets -> Nat]
  BY ResetType DEF TypeOK, BudgetTypeOK
<1>2. Reserved(t) \in [Budgets -> Nat]
  BY <1>1, ReserveType DEF TypeOK, Reserved
<1>3. Stashed(t) \in [Tasks -> SUBSET Budgets]
  BY ApplicableType DEF TypeOK, Stashed, Set
<1>. QED
  BY <1>2, <1>3, ReleaseType

LEMMA SubmitType ==
  ASSUME TypeOK, NEW t \in Tasks, Submit(t)
  PROVE  TypeOK'
<1>. USE DEF Attempt, Written, Set, Statuses, Queued, Terminal, RunStates, Future
<1>1. AfterReset(spend) \in [Budgets -> Nat]
  BY ResetType DEF TypeOK, BudgetTypeOK
<1>2. CASE SubmitRejected(t)
  BY <1>1, <1>2, AutoResetType DEF SubmitRejected, TypeOK, BudgetTypeOK
<1>3. CASE SubmitHeld(t)
  BY <1>1, <1>3, AutoResetType DEF SubmitHeld, Hold, TypeOK, BudgetTypeOK
<1>4. CASE SubmitAllowed(t)
  BY <1>4, ReservedType, ApplicableType, AutoResetType
     DEF SubmitAllowed, TypeOK, BudgetTypeOK
<1>5. CASE SubmitDbError(t)
  BY <1>5, ReservedType, AutoResetType DEF SubmitDbError, TypeOK, BudgetTypeOK
<1>6. CASE SubmitSpawnFails(t)
  BY <1>6, ReservedType, ApplicableType, AutoResetType
     DEF SubmitSpawnFails, TypeOK, BudgetTypeOK
<1>. QED
  BY <1>2, <1>3, <1>4, <1>5, <1>6 DEF Submit

LEMMA InternalType ==
  ASSUME TypeOK, NEW t \in Tasks, Internal(t)
  PROVE  TypeOK'
BY DEF Internal, InternalSpawn, InternalHold, Hold, InlineTurn, SelfTask, budgetVars,
       TypeOK, BudgetTypeOK, Attempt, Set, Statuses, Queued, RunStates, Future

LEMMA RunType ==
  ASSUME TypeOK, NEW t \in Tasks, Run(t)
  PROVE  TypeOK'
<1>. USE DEF Attempt, Written, Set, Statuses, Queued, Terminal, RunStates, Future
<1>1. CASE RunReply(t)
  <2>1. PICK outcome \in {"completed", "completed_unverified", "failed"},
             c \in Costs \cup {0} :
          /\ status' \in Written(t, outcome)
          /\ cost' = Set(cost, t, c)
          /\ spend' \in Attempt(spend, Reconciled(t, outcome, c))
          /\ charged' = [b \in Budgets |->
                           IF outcome = "completed" /\ b \in resv[t]
                           THEN charged[b] + c ELSE charged[b]]
    BY <1>1 DEF RunReply
  <2>2. c \in Nat
    BY TaskAssumption
  <2>3. spend' \in [Budgets -> Nat]
    BY <2>1, <2>2, ActualType, ReleaseType DEF Reconciled, TypeOK, BudgetTypeOK
  <2>4. charged' \in [Budgets -> Nat]
    BY <2>1, <2>2 DEF TypeOK, BudgetTypeOK
  <2>. QED
    BY <1>1, <2>1, <2>3, <2>4 DEF RunReply, TypeOK, BudgetTypeOK
<1>2. CASE RunStart(t) \/ RunEnds(t) \/ InlineTurnEnds(t)
  BY <1>2 DEF RunStart, RunEnds, InlineTurnEnds, TypeOK, BudgetTypeOK, budgetVars
<1>. QED
  BY <1>1, <1>2 DEF Run

LEMMA ApproveType ==
  ASSUME TypeOK, NEW t \in Tasks, Approve(t)
  PROVE  TypeOK'
<1>. USE DEF Attempt, Written, Set, Statuses, Queued, Terminal, RunStates, Future
<1>1. AfterReset(spend) \in [Budgets -> Nat]
  BY ResetType DEF TypeOK, BudgetTypeOK
<1>2. CASE ApproveRejected(t)
  BY <1>1, <1>2, AutoResetType DEF ApproveRejected, TypeOK, BudgetTypeOK
<1>3. CASE ApproveStale(t)
  BY <1>3, ReservedType, AutoResetType DEF ApproveStale, TypeOK, BudgetTypeOK, StillWaits
<1>4. CASE ApproveDispatch(t)
  BY <1>4, ReservedType, AutoResetType DEF ApproveDispatch, TypeOK, BudgetTypeOK, StillWaits
<1>5. CASE ApproveSpawnFails(t)
  BY <1>5, ReservedType, AutoResetType DEF ApproveSpawnFails, TypeOK, BudgetTypeOK,
     StillWaits
<1>. QED
  BY <1>2, <1>3, <1>4, <1>5 DEF Approve

LEMMA CloseType ==
  ASSUME TypeOK, NEW t \in Tasks, Reject(t) \/ Cancel(t)
  PROVE  TypeOK'
<1>. USE DEF Attempt, Written, Set, Statuses, Queued, Terminal, RunStates, Future
<1>1. CASE Reject(t)
  BY <1>1 DEF Reject, RejectedStatus, TypeOK, BudgetTypeOK, budgetVars, StillWaits
<1>2. CASE Cancel(t)
  <2>1. spend' \in [Budgets -> Nat]
    BY <1>2, ReleaseType DEF Cancel, TypeOK, BudgetTypeOK, Stopped
  <2>2. status' \in [Tasks -> Statuses]
    BY <1>2 DEF Cancel, RejectedStatus, TypeOK
  <2>3. appr' \in [Tasks -> {"none", "pending", "approved", "rejected", "stale"}]
    BY <1>2 DEF Cancel, ResolvedApproval, TypeOK
  <2>4. run' \in [Tasks -> RunStates]
    BY <1>2 DEF Cancel, Stopped, TypeOK
  <2>. QED
    BY <1>2, <2>1, <2>2, <2>3, <2>4 DEF Cancel, TypeOK, BudgetTypeOK
<1>. QED
  BY <1>1, <1>2

LEMMA BudgetStepType ==
  ASSUME TypeOK, NEW b \in Budgets, AdminStep(b) \/ ClockStep(b)
  PROVE  TypeOK'
<1>1. CASE ClockStep(b)
  BY <1>1 DEF ClockStep, PeriodElapses, TypeOK, BudgetTypeOK
<1>2. CASE AdminStep(b)
  <2>1. CASE CreateBudget(b)
    BY <1>2, <2>1 DEF AdminStep, CreateBudget, TypeOK, BudgetTypeOK
  <2>2. CASE UpdateBudget(b)
    <3>1. conf' \in [Budgets -> Row \cup Missing] /\ due' \in [Budgets -> BOOLEAN]
      BY <2>2 DEF UpdateBudget, TypeOK, BudgetTypeOK
    <3>. QED
      BY <1>2, <2>2, <3>1 DEF AdminStep, UpdateBudget, TypeOK, BudgetTypeOK
  <2>3. CASE DeleteBudget(b)
    <3>1. [state |-> "deleted"] \in Missing
      BY DEF Missing
    <3>. QED
      BY <1>2, <2>3, <3>1 DEF AdminStep, DeleteBudget, TypeOK, BudgetTypeOK
  <2>. QED
    BY <1>2, <2>1, <2>2, <2>3 DEF AdminStep
<1>. QED
  BY <1>1, <1>2

LEMMA DaemonType ==
  ASSUME TypeOK, \/ \E a \in Agents : RemoveAgent(a) \/ CreateAgent(a)
                 \/ Crash \/ Restart
  PROVE  TypeOK'
<1>. USE DEF Statuses, Queued, Terminal, RunStates, Future
<1>1. CASE \E a \in Agents : RemoveAgent(a) \/ CreateAgent(a)
  BY <1>1 DEF RemoveAgent, CreateAgent, TypeOK, BudgetTypeOK, budgetVars
<1>2. CASE Crash
  BY <1>2 DEF Crash, Dies, TypeOK, BudgetTypeOK, budgetVars
<1>3. CASE Restart
  <2>1. spend' \in [Budgets -> Nat]
    BY <1>3, SweepType DEF Restart, TypeOK, BudgetTypeOK
  <2>2. status' \in [Tasks -> Statuses]
    BY <1>3 DEF Restart, MarkedStale, AfterSweep, Swept, TypeOK
  <2>. QED
    BY <1>3, <2>1, <2>2 DEF Restart, TypeOK, BudgetTypeOK
<1>. QED
  BY <1>1, <1>2, <1>3

LEMMA TornType ==
  ASSUME TypeOK, TornStep
  PROVE  TypeOK'
<1>. USE DEF Attempt, Written, Set, Statuses, Queued, Terminal, RunStates, Future, Dies
<1>1. AfterReset(spend) \in [Budgets -> Nat]
  BY ResetType DEF TypeOK, BudgetTypeOK
<1>2. ASSUME NEW t \in Tasks, SubmitTorn(t)
      PROVE  TypeOK'
  <2>1. spend' \in [Budgets -> Nat]
    BY <1>1, <1>2, ReserveType DEF SubmitTorn, TypeOK
  <2>. QED
    BY <1>2, <2>1, AutoResetType DEF SubmitTorn, TypeOK, BudgetTypeOK
<1>3. ASSUME NEW t \in Tasks, ApproveTorn(t)
      PROVE  TypeOK'
  <2>1. spend' \in [Budgets -> Nat] /\ resv' \in [Tasks -> SUBSET Budgets]
    BY <1>3, ReservedType DEF ApproveTorn, TypeOK
  <2>. QED
    BY <1>3, <2>1, AutoResetType DEF ApproveTorn, TypeOK, BudgetTypeOK
<1>4. ASSUME NEW t \in Tasks, ReplyTorn(t)
      PROVE  TypeOK'
  BY <1>4 DEF ReplyTorn, TypeOK, BudgetTypeOK, budgetVars
<1>5. ASSUME NEW t \in Tasks, CancelTorn(t)
      PROVE  TypeOK'
  <2>1. spend' \in [Budgets -> Nat]
    BY <1>5, ReleaseType DEF CancelTorn, TypeOK, BudgetTypeOK
  <2>. QED
    BY <1>5, <2>1 DEF CancelTorn, ResolvedApproval, RejectedStatus, TypeOK, BudgetTypeOK,
       StillWaits
<1>6. CASE RestartTorn
  BY <1>6 DEF RestartTorn, Swept, TypeOK, BudgetTypeOK, budgetVars
<1>. QED
  BY <1>2, <1>3, <1>4, <1>5, <1>6 DEF TornStep

LEMMA NextType ==
  ASSUME TypeOK, [Next]_vars
  PROVE  TypeOK'
<1>1. CASE \E t \in Tasks : TaskStep(t)
  BY <1>1, SubmitType, InternalType, RunType, ApproveType, CloseType DEF TaskStep
<1>2. CASE \E b \in Budgets : AdminStep(b) \/ ClockStep(b)
  BY <1>2, BudgetStepType
<1>3. CASE (\E a \in Agents : RemoveAgent(a) \/ CreateAgent(a)) \/ Crash \/ Restart
  BY <1>3, DaemonType
<1>4. CASE TornStep
  BY <1>4, TornType
<1>5. CASE UNCHANGED vars
  BY <1>5 DEF vars, budgetVars, TypeOK, BudgetTypeOK
<1>. QED
  BY <1>1, <1>2, <1>3, <1>4, <1>5 DEF Next

\* Every table column, future and amount keeps its type; in particular no spend
\* column becomes negative, whatever is released twice.
THEOREM TypeCorrect == Spec => []TypeOK
<1>1. TypeOK /\ [Next]_vars => TypeOK'
  BY NextType
<1>. QED
  BY InitType, <1>1, PTL DEF Spec
-----------------------------------------------------------------------------
(***************************************************************************)
(* The inductive invariant of the task life cycle.  GateRespected alone is *)
(* not inductive: a step could start a held task if a task without a row,  *)
(* or one waiting for approval, could own a future, or if a future could   *)
(* outlive the process or be out of step with the row it will write.       *)
(***************************************************************************)
Life(t) ==
  /\ status[t] = "none" => appr[t] = "none" /\ t \notin gated
  /\ status[t] = "pending_approval" => run[t] = "none"
  /\ run[t] = "scheduled" => status[t] \in {"none", "pending"}
  /\ run[t] = "thinking" => status[t] \in {"none"} \cup Queued
  /\ ~up => run[t] = "none"
  /\ appr[t] # "none" => t \in gated
  /\ t \in gated /\ appr[t] # "approved" => run[t] = "none" /\ status[t] \notin Queued

LifeInv == \A t \in Tasks : Life(t)

LEMMA InitLife == Init => LifeInv
BY DEF Init, LifeInv, Life, Queued

\* A step that leaves a task's columns and future alone keeps its part.
LEMMA LifeFrame ==
  ASSUME NEW t, Life(t), UNCHANGED <<status[t], appr[t], gated, run[t], up>>
  PROVE  Life(t)'
BY DEF Life

LEMMA OthersUntouched ==
  ASSUME TypeOK, NEW t \in Tasks, TaskStep(t), NEW u \in Tasks, u # t
  PROVE  /\ UNCHANGED <<status[u], appr[u], run[u], up>>
         /\ (u \in gated)' <=> (u \in gated)
<1>. USE DEF Attempt, Written, Set
<1>1. CASE Submit(t)
  BY <1>1 DEF Submit, SubmitRejected, SubmitHeld, Hold, SubmitAllowed, SubmitDbError,
              SubmitSpawnFails, TypeOK
<1>2. CASE Internal(t)
  BY <1>2 DEF Internal, InternalSpawn, InternalHold, Hold, InlineTurn, SelfTask, TypeOK
<1>3. CASE Run(t)
  BY <1>3 DEF Run, RunStart, RunReply, RunEnds, InlineTurnEnds, TypeOK
<1>4. CASE Approve(t)
  BY <1>4 DEF Approve, ApproveRejected, ApproveStale, ApproveDispatch, ApproveSpawnFails,
              TypeOK, StillWaits
<1>5. CASE Reject(t) \/ Cancel(t)
  BY <1>5 DEF Reject, RejectedStatus, Cancel, ResolvedApproval, TypeOK, StillWaits, Stopped
<1>. QED
  BY <1>1, <1>2, <1>3, <1>4, <1>5 DEF TaskStep

LEMMA TaskStepLife ==
  ASSUME TypeOK, LifeInv, NEW t \in Tasks, TaskStep(t)
  PROVE  LifeInv'
<1>. USE DEF Attempt, Written, Set
<1>1. \A u \in Tasks : Life(u)
  BY DEF LifeInv
<1>3. Life(t)'
  <2>. USE <1>1 DEF Life, Queued, Terminal, Future
  <2>1. CASE Submit(t)
    BY <2>1 DEF Submit, CanSubmit, SubmitRejected, SubmitHeld, Hold, SubmitAllowed,
                SubmitDbError, SubmitSpawnFails, TypeOK
  <2>2. CASE Internal(t)
    BY <2>2 DEF Internal, CanSubmit, InternalSpawn, InternalHold, Hold, InlineTurn,
       SelfTask,
                TypeOK
  <2>3. CASE Run(t)
    BY <2>3 DEF Run, RunStart, RunReply, RunEnds, InlineTurnEnds, TypeOK
  <2>4. CASE Approve(t)
    BY <2>4 DEF Approve, CanApprove, ApproveRejected, ApproveStale, ApproveDispatch,
                ApproveSpawnFails, TypeOK, StillWaits
  <2>5. CASE Reject(t)
    BY <2>5 DEF Reject, RejectedStatus, TypeOK, StillWaits
  <2>6. CASE Cancel(t)
    <3>1. status'[t] \in {status[t], "cancelled"} /\ status[t] # "none"
      BY <2>6 DEF Cancel, CanCancel, RejectedStatus, TypeOK
    <3>2. /\ appr'[t] # appr[t] => appr[t] = "pending" /\ appr'[t] = "rejected"
          /\ UNCHANGED <<gated, up>>
      BY <2>6 DEF Cancel, ResolvedApproval, TypeOK
    <3>3. run'[t] = IF run[t] \in Future THEN "cancelled" ELSE run[t]
      BY <2>6 DEF Cancel, Stopped, TypeOK
    <3>4. appr'[t] # "none" => t \in gated
      BY <1>1, <3>2
    <3>. QED
      BY <1>1, <3>1, <3>2, <3>3, <3>4
  <2>. QED
    BY <2>1, <2>2, <2>3, <2>4, <2>5, <2>6 DEF TaskStep
<1>4. ASSUME NEW u \in Tasks, u # t
      PROVE  Life(u)'
  BY <1>1, <1>4, OthersUntouched DEF Life, Queued
<1>. QED
  BY <1>3, <1>4 DEF LifeInv

LEMMA OtherStepLife ==
  ASSUME TypeOK, LifeInv,
         \/ \E a \in Agents : RemoveAgent(a) \/ CreateAgent(a)
         \/ \E b \in Budgets : AdminStep(b) \/ ClockStep(b)
         \/ Crash \/ Restart \/ UNCHANGED vars
  PROVE  LifeInv'
<1>1. CASE \/ \E a \in Agents : RemoveAgent(a) \/ CreateAgent(a)
           \/ \E b \in Budgets : AdminStep(b) \/ ClockStep(b)
           \/ UNCHANGED vars
  <2>1. UNCHANGED <<status, appr, gated, run, up>>
    BY <1>1 DEF RemoveAgent, CreateAgent, AdminStep, ClockStep, vars
  <2>. QED
    BY <2>1 DEF LifeInv, Life
<1>2. CASE Crash
  BY <1>2 DEF Crash, Dies, LifeInv, Life
<1>3. CASE Restart
  BY <1>3 DEF Restart, MarkedStale, AfterSweep, Swept, LifeInv, Life, Queued, TypeOK
<1>. QED
  BY <1>1, <1>2, <1>3

LEMMA TornStepLife ==
  ASSUME TypeOK, LifeInv, TornStep
  PROVE  LifeInv'
<1>. USE DEF Attempt, Written, Set, LifeInv, Life, Queued, Dies
<1>1. ASSUME NEW t \in Tasks, SubmitTorn(t) \/ ApproveTorn(t)
      PROVE  LifeInv'
  BY <1>1 DEF SubmitTorn, ApproveTorn
<1>2. ASSUME NEW t \in Tasks, ReplyTorn(t)
      PROVE  LifeInv'
  BY <1>2 DEF ReplyTorn, TypeOK
<1>3. ASSUME NEW t \in Tasks, CancelTorn(t)
      PROVE  LifeInv'
  BY <1>3 DEF CancelTorn, CanCancel, ResolvedApproval, RejectedStatus, TypeOK, StillWaits
<1>4. CASE RestartTorn
  BY <1>4 DEF RestartTorn, Swept, TypeOK
<1>. QED
  BY <1>1, <1>2, <1>3, <1>4 DEF TornStep

LEMMA NextLife ==
  ASSUME TypeOK, LifeInv, [Next]_vars
  PROVE  LifeInv'
BY TaskStepLife, OtherStepLife, TornStepLife DEF Next

LEMMA LifeInvariant == Spec => [](TypeOK /\ LifeInv)
<1>1. Init => TypeOK /\ LifeInv
  BY InitType, InitLife
<1>2. TypeOK /\ LifeInv /\ [Next]_vars => (TypeOK /\ LifeInv)'
  BY NextType, NextLife
<1>. QED
  BY <1>1, <1>2, PTL DEF Spec

\* No restart, crash between two commits, retry, cancel or race runs or queues a
\* task that was held for a human, unless its approvals row was approved.
THEOREM GateHolds == Spec => []GateRespected
<1>1. TypeOK /\ LifeInv => GateRespected
  BY DEF TypeOK, LifeInv, Life, GateRespected
<1>. QED
  BY <1>1, LifeInvariant, PTL
-----------------------------------------------------------------------------
(***************************************************************************)
(* The approvals row against the task's row.  LifeInv says that a task     *)
(* whose approval waits was held, owns no future and is not queued: no     *)
(* reply can finish it, and what closes it by hand resolves the approval,  *)
(* unless the database refuses.                                            *)
(***************************************************************************)
Open(t) ==
  /\ appr[t] = "pending" =>
       \/ status[t] \in {"pending_approval", "failed"}
       \/ status[t] = "cancelled" /\ "faults" \in Env
  /\ status[t] = "pending_approval" => appr[t] \in {"pending", "none"}

RowsMirror == \A t \in Tasks : Open(t)

LEMMA InitMirrors == Init => RowsMirror
BY DEF Init, RowsMirror, Open

LEMMA TaskStepMirrors ==
  ASSUME TypeOK, LifeInv, RowsMirror, NEW t \in Tasks, TaskStep(t)
  PROVE  RowsMirror'
<1>. USE DEF Attempt, Written, Set, RowsMirror, Open
<1>1. Open(t)'
  <2>. USE DEF LifeInv, Life, Queued
  <2>1. CASE Submit(t)
    BY <2>1 DEF Submit, CanSubmit, SubmitRejected, SubmitHeld, Hold, SubmitAllowed,
                SubmitDbError, SubmitSpawnFails, TypeOK
  <2>2. CASE Internal(t)
    BY <2>2 DEF Internal, CanSubmit, InternalSpawn, InternalHold, Hold, InlineTurn,
                SelfTask, TypeOK
  <2>3. CASE Run(t)
    BY <2>3 DEF Run, RunStart, RunReply, RunEnds, InlineTurnEnds, TypeOK
  <2>4. CASE Approve(t)
    BY <2>4 DEF Approve, ApproveRejected, ApproveStale, ApproveDispatch,
                ApproveSpawnFails, StillWaits, TypeOK
  <2>5. CASE Reject(t) \/ Cancel(t)
    BY <2>5 DEF Reject, RejectedStatus, StillWaits, Cancel, ResolvedApproval, TypeOK
  <2>. QED
    BY <2>1, <2>2, <2>3, <2>4, <2>5 DEF TaskStep
<1>2. ASSUME NEW u \in Tasks, u # t
      PROVE  Open(u)'
  BY <1>2, OthersUntouched
<1>. QED
  BY <1>1, <1>2

LEMMA OtherStepMirrors ==
  ASSUME TypeOK, LifeInv, RowsMirror,
         \/ \E a \in Agents : RemoveAgent(a) \/ CreateAgent(a)
         \/ \E b \in Budgets : AdminStep(b) \/ ClockStep(b)
         \/ Crash \/ Restart \/ TornStep \/ UNCHANGED vars
  PROVE  RowsMirror'
<1>. USE DEF RowsMirror, Open
<1>1. CASE \/ \E a \in Agents : RemoveAgent(a) \/ CreateAgent(a)
           \/ \E b \in Budgets : AdminStep(b) \/ ClockStep(b)
           \/ Crash \/ UNCHANGED vars
  BY <1>1 DEF RemoveAgent, CreateAgent, AdminStep, ClockStep, Crash, vars
<1>2. CASE Restart \/ RestartTorn
  BY <1>2 DEF Restart, RestartTorn, MarkedStale, AfterSweep, Swept, Queued, TypeOK
<1>3. ASSUME NEW t \in Tasks, SubmitTorn(t) \/ ApproveTorn(t)
      PROVE  RowsMirror'
  BY <1>3 DEF SubmitTorn, ApproveTorn
<1>4. ASSUME NEW t \in Tasks, ReplyTorn(t)
      PROVE  RowsMirror'
  BY <1>4 DEF ReplyTorn, Written, Attempt, Set, LifeInv, Life, Queued, TypeOK
<1>5. ASSUME NEW t \in Tasks, CancelTorn(t)
      PROVE  RowsMirror'
  BY <1>5 DEF CancelTorn, ResolvedApproval, RejectedStatus, StillWaits, Attempt, Set, TypeOK
<1>. QED
  BY <1>1, <1>2, <1>3, <1>4, <1>5 DEF TornStep

\* An approvals row asks for a human only while its task waits, or after a restart
\* has failed the task or a cancel failed to resolve the row; in none of the cases
\* has the task been started; and a waiting task has no approvals row that is closed.
THEOREM ApprovalsMirror == Spec => []ApprovalMirrorsTask
<1>1. TypeOK /\ LifeInv /\ RowsMirror /\ [Next]_vars => RowsMirror'
  BY TaskStepMirrors, OtherStepMirrors DEF Next
<1>2. LifeInv /\ RowsMirror => ApprovalMirrorsTask
  BY DEF LifeInv, Life, RowsMirror, Open, ApprovalMirrorsTask
<1>. QED
  BY InitMirrors, <1>1, <1>2, LifeInvariant, PTL DEF Spec
-----------------------------------------------------------------------------
(***************************************************************************)
(* TaskLifecycle implements TaskPromise: a step of one task moves only its *)
(* phase, every other step leaves phases alone or closes tasks.            *)
(***************************************************************************)
Moves(t) ==
  \/ Phase(t)' \in {Phase(t), "over"}
  \/ Phase(t) \in {"absent", "held"} /\ Phase(t)' = "going"
  \/ Phase(t) = "absent" /\ Phase(t)' = "held"

LEMMA TaskStepMoves ==
  ASSUME TypeOK, LifeInv, NEW t \in Tasks, TaskStep(t)
  PROVE  Moves(t)
<1>. USE DEF Attempt, Written, Set, LifeInv, Life, Phase, Moves, Queued, Terminal, Future
<1>1. CASE Submit(t)
  BY <1>1 DEF Submit, CanSubmit, SubmitRejected, SubmitHeld, Hold, SubmitAllowed,
              SubmitDbError, SubmitSpawnFails, TypeOK
<1>2. CASE Internal(t)
  BY <1>2 DEF Internal, CanSubmit, InternalSpawn, InternalHold, Hold, InlineTurn, SelfTask,
              TypeOK
<1>3. CASE Run(t)
  BY <1>3 DEF Run, RunStart, RunReply, RunEnds, InlineTurnEnds, TypeOK
<1>4. CASE Approve(t)
  BY <1>4 DEF Approve, ApproveRejected, ApproveStale, ApproveDispatch, ApproveSpawnFails,
              TypeOK, StillWaits
<1>5. CASE Reject(t) \/ Cancel(t)
  BY <1>5 DEF Reject, RejectedStatus, Cancel, CanCancel, TypeOK, StillWaits, Stopped
<1>. QED
  BY <1>1, <1>2, <1>3, <1>4, <1>5 DEF TaskStep

LEMMA OtherStepCloses ==
  ASSUME TypeOK, LifeInv,
         \/ \E a \in Agents : RemoveAgent(a) \/ CreateAgent(a)
         \/ \E b \in Budgets : AdminStep(b) \/ ClockStep(b)
         \/ Crash \/ Restart \/ TornStep \/ UNCHANGED vars,
         NEW t \in Tasks
  PROVE  Phase(t)' \in {Phase(t), "over"}
<1>. USE DEF Attempt, Written, Set, LifeInv, Life, Phase, Queued
<1>1. CASE \/ \E a \in Agents : RemoveAgent(a) \/ CreateAgent(a)
           \/ \E b \in Budgets : AdminStep(b) \/ ClockStep(b)
           \/ Crash \/ UNCHANGED vars
  BY <1>1 DEF RemoveAgent, CreateAgent, AdminStep, ClockStep, Crash, vars
<1>2. CASE Restart
  BY <1>2 DEF Restart, MarkedStale, AfterSweep, Swept, TypeOK
<1>3. ASSUME NEW u \in Tasks, SubmitTorn(u) \/ ApproveTorn(u) \/ ReplyTorn(u)
      PROVE  Phase(t)' \in {Phase(t), "over"}
  BY <1>3 DEF SubmitTorn, ApproveTorn, ReplyTorn, TypeOK
<1>4. ASSUME NEW u \in Tasks, CancelTorn(u)
      PROVE  Phase(t)' \in {Phase(t), "over"}
  BY <1>4 DEF CancelTorn, RejectedStatus, TypeOK, StillWaits
<1>5. CASE RestartTorn
  BY <1>5 DEF RestartTorn, Swept, TypeOK
<1>. QED
  BY <1>1, <1>2, <1>3, <1>4, <1>5 DEF TornStep

LEMMA ClosingRefines ==
  ASSUME \A t \in Tasks : Phase(t)' \in {Phase(t), "over"}
  PROVE  Promise!Close
<1>. DEFINE S == {t \in Tasks : Phase(t)' = "over"}
<1>1. \A t \in Tasks : Phase(t)' = IF t \in S THEN "over" ELSE Phase(t)
  OBVIOUS
<1>2. [t \in Tasks |-> Phase(t)]' =
        [t \in Tasks |-> IF t \in S THEN "over" ELSE [u \in Tasks |-> Phase(u)][t]]
  BY <1>1
<1>. QED
  BY <1>2 DEF Promise!Close

LEMMA MoveRefines ==
  ASSUME NEW t \in Tasks, Moves(t), \A u \in Tasks \ {t} : Phase(u)' = Phase(u)
  PROVE  Promise!Next
<1>1. CASE Phase(t)' \in {Phase(t), "over"}
  <2>1. \A u \in Tasks : Phase(u)' \in {Phase(u), "over"}
    BY <1>1
  <2>. QED
    BY <2>1, ClosingRefines DEF Promise!Next
<1>2. [u \in Tasks |-> Phase(u)]' = [[u \in Tasks |-> Phase(u)] EXCEPT ![t] = Phase(t)']
  OBVIOUS
<1>3. CASE Phase(t) \in {"absent", "held"} /\ Phase(t)' = "going"
  BY <1>2, <1>3 DEF Promise!Next, Promise!Accept, Promise!Admit, Promise!Move
<1>4. CASE Phase(t) = "absent" /\ Phase(t)' = "held"
  BY <1>2, <1>4 DEF Promise!Next, Promise!Hold, Promise!Move
<1>. QED
  BY <1>1, <1>3, <1>4 DEF Moves

\* The whole machinery of rows, budgets, approvals, futures, crashes and restarts
\* keeps the promise: a held task starts only by being let through, and a task
\* that is over never starts again.
THEOREM Implements == Spec => KeepsPromise
<1>1. Init => Promise!Init
  <2>1. ASSUME Init, NEW t \in Tasks
        PROVE  Phase(t) = "absent"
    BY <2>1 DEF Init, Phase, Queued
  <2>2. ASSUME Init
        PROVE  [t \in Tasks |-> Phase(t)] = [t \in Tasks |-> "absent"]
    BY <2>1, <2>2
  <2>. QED
    BY <2>2 DEF Promise!Init
<1>2. ASSUME TypeOK, LifeInv, [Next]_vars
      PROVE  [Promise!Next]_[t \in Tasks |-> Phase(t)]
  <2>1. ASSUME NEW t \in Tasks, TaskStep(t)
        PROVE  Promise!Next
    <3>1. \A u \in Tasks \ {t} : Phase(u)' = Phase(u)
      BY <1>2, <2>1, OthersUntouched DEF Phase
    <3>. QED
      BY <1>2, <2>1, <3>1, TaskStepMoves, MoveRefines
  <2>2. CASE \/ \E a \in Agents : RemoveAgent(a) \/ CreateAgent(a)
             \/ \E b \in Budgets : AdminStep(b) \/ ClockStep(b)
             \/ Crash \/ Restart \/ TornStep \/ UNCHANGED vars
    BY <1>2, <2>2, OtherStepCloses, ClosingRefines DEF Promise!Next
  <2>. QED
    BY <1>2, <2>1, <2>2 DEF Next
<1>. QED
  BY <1>1, <1>2, LifeInvariant, PTL DEF Spec, KeepsPromise, Promise!Spec
-----------------------------------------------------------------------------
(***************************************************************************)
(* Action properties from the same invariant.                              *)
(***************************************************************************)
\* A cancelled row stays cancelled: the cancelled future cannot write it, and
\* neither can an approval, a restart or the second half of a torn handler.
THEOREM CancelledStays == Spec => CancelSticks
<1>1. ASSUME TypeOK, LifeInv, [Next]_vars, NEW t \in Tasks,
             status[t] = "cancelled", run[t] # "inline"
      PROVE  status'[t] = "cancelled"
  <2>. USE DEF Attempt, Written, LifeInv, Life, Set, Queued
  <2>1. ASSUME NEW u \in Tasks, TaskStep(u), u # t
        PROVE  status'[t] = status[t]
    BY <1>1, <2>1, OthersUntouched
  <2>2. CASE Submit(t) \/ Internal(t)
    BY <1>1, <2>2 DEF Submit, CanSubmit, SubmitRejected, SubmitHeld, SubmitAllowed,
       SubmitDbError,
                 SubmitSpawnFails, Internal, InternalSpawn, InternalHold, InlineTurn, SelfTask
  <2>3. CASE Run(t)
    BY <1>1, <2>3 DEF Run, RunStart, RunReply, RunEnds, InlineTurnEnds
  <2>4. CASE Approve(t)
    BY <1>1, <2>4 DEF Approve, ApproveRejected, ApproveStale, ApproveDispatch,
       ApproveSpawnFails, StillWaits
  <2>5. CASE Reject(t) \/ Cancel(t)
    BY <1>1, <2>5 DEF Reject, RejectedStatus, Cancel, TypeOK, StillWaits, Stopped
  <2>6. CASE Restart \/ RestartTorn
    BY <1>1, <2>6 DEF Restart, RestartTorn, MarkedStale, AfterSweep, Swept
  <2>7. ASSUME NEW u \in Tasks, SubmitTorn(u) \/ ApproveTorn(u) \/ ReplyTorn(u)
        PROVE  status'[t] = status[t]
    BY <1>1, <2>7 DEF SubmitTorn, ApproveTorn, ReplyTorn, TypeOK
  <2>8. ASSUME NEW u \in Tasks, CancelTorn(u)
        PROVE  status'[t] = status[t]
    BY <1>1, <2>8 DEF CancelTorn, RejectedStatus, TypeOK, StillWaits
  <2>9. CASE \/ \E a \in Agents : RemoveAgent(a) \/ CreateAgent(a)
             \/ \E b \in Budgets : AdminStep(b) \/ ClockStep(b)
             \/ Crash \/ UNCHANGED vars
    BY <1>1, <2>9 DEF RemoveAgent, CreateAgent, AdminStep, ClockStep, Crash, vars
  <2>10. CASE \E u \in Tasks : TaskStep(u)
    BY <1>1, <2>1, <2>2, <2>3, <2>4, <2>5, <2>10 DEF TaskStep
  <2>11. CASE TornStep
    BY <1>1, <2>6, <2>7, <2>8, <2>11 DEF TornStep
  <2>. QED
    BY <1>1, <2>6, <2>9, <2>10, <2>11 DEF Next
<1>2. TypeOK /\ LifeInv /\ [Next]_vars =>
        [\A t \in Tasks : (status[t] = "cancelled" /\ run[t] # "inline")
                            => status'[t] = "cancelled"]_vars
  BY <1>1
<1>. QED
  BY <1>2, LifeInvariant, PTL DEF Spec, CancelSticks

\* A finished spawned task is not reopened or relabelled, by a restart, a torn
\* handler, an approval or a reply.  Only a cancel that reaches a finished task
\* rewrites its status, hence the assumption.
THEOREM FinishedStays ==
  ASSUME "late_cancel" \notin Env
  PROVE  Spec => TerminalSticks
<1>1. ASSUME TypeOK, LifeInv, [Next]_vars, NEW t \in Tasks,
             status[t] \in Terminal, run[t] # "inline"
      PROVE  status'[t] = status[t]
  <2>. USE DEF Attempt, Written, LifeInv, Life, Set, Queued, Terminal
  <2>1. ASSUME NEW u \in Tasks, TaskStep(u), u # t
        PROVE  status'[t] = status[t]
    BY <1>1, <2>1, OthersUntouched
  <2>2. CASE Submit(t) \/ Internal(t)
    BY <1>1, <2>2 DEF Submit, CanSubmit, SubmitRejected, SubmitHeld, SubmitAllowed,
                      SubmitDbError, SubmitSpawnFails, Internal, InternalSpawn,
                      InternalHold, InlineTurn, SelfTask
  <2>3. CASE Run(t)
    BY <1>1, <2>3 DEF Run, RunStart, RunReply, RunEnds, InlineTurnEnds
  <2>4. CASE Approve(t)
    BY <1>1, <2>4 DEF Approve, ApproveRejected, ApproveStale, ApproveDispatch,
                      ApproveSpawnFails, StillWaits
  <2>5. CASE Reject(t) \/ Cancel(t)
    BY <1>1, <2>5 DEF Reject, RejectedStatus, Cancel, CanCancel, StillWaits
  <2>6. CASE Restart \/ RestartTorn
    BY <1>1, <2>6 DEF Restart, RestartTorn, MarkedStale, AfterSweep, Swept
  <2>7. ASSUME NEW u \in Tasks, SubmitTorn(u) \/ ApproveTorn(u) \/ ReplyTorn(u)
        PROVE  status'[t] = status[t]
    BY <1>1, <2>7 DEF SubmitTorn, ApproveTorn, ReplyTorn, TypeOK
  <2>8. ASSUME NEW u \in Tasks, CancelTorn(u)
        PROVE  status'[t] = status[t]
    BY <1>1, <2>8 DEF CancelTorn, RejectedStatus, TypeOK, StillWaits
  <2>9. CASE \/ \E a \in Agents : RemoveAgent(a) \/ CreateAgent(a)
             \/ \E b \in Budgets : AdminStep(b) \/ ClockStep(b)
             \/ Crash \/ UNCHANGED vars
    BY <1>1, <2>9 DEF RemoveAgent, CreateAgent, AdminStep, ClockStep, Crash, vars
  <2>10. CASE \E u \in Tasks : TaskStep(u)
    BY <1>1, <2>1, <2>2, <2>3, <2>4, <2>5, <2>10 DEF TaskStep
  <2>11. CASE TornStep
    BY <1>1, <2>6, <2>7, <2>8, <2>11 DEF TornStep
  <2>. QED
    BY <1>1, <2>6, <2>9, <2>10, <2>11 DEF Next
<1>2. TypeOK /\ LifeInv /\ [Next]_vars =>
        [\A t \in Tasks : (status[t] \in Terminal /\ run[t] # "inline")
                            => status'[t] = status[t]]_vars
  BY <1>1
<1>. QED
  BY <1>2, LifeInvariant, PTL DEF Spec, TerminalSticks

\* A future is created for a task once, for a row that is new or leaves the gate.
THEOREM OneDispatch == Spec => DispatchedOnce
<1>1. ASSUME TypeOK, LifeInv, [Next]_vars, NEW t \in Tasks,
             run'[t] = "scheduled", run[t] # "scheduled"
      PROVE  status[t] \in {"none", "pending_approval"} /\ run[t] = "none"
  <2>. USE DEF Attempt, Written, LifeInv, Life, Set
  <2>1. CASE Submit(t) \/ Internal(t)
    BY <1>1, <2>1 DEF Submit, CanSubmit, SubmitRejected, SubmitHeld, Hold, SubmitAllowed,
                      SubmitDbError, SubmitSpawnFails, Internal, InternalSpawn, InternalHold,
                      InlineTurn, SelfTask, TypeOK
  <2>2. CASE Approve(t)
    BY <1>1, <2>2 DEF Approve, ApproveRejected, ApproveStale, ApproveDispatch,
                      ApproveSpawnFails, StillWaits
  <2>3. CASE Run(t) \/ Reject(t) \/ Cancel(t)
    BY <1>1, <2>3 DEF Run, RunStart, RunReply, RunEnds, InlineTurnEnds, Reject, Cancel,
       TypeOK, Stopped
  <2>4. ASSUME NEW u \in Tasks, TaskStep(u), u # t
        PROVE  FALSE
    BY <1>1, <2>4, OthersUntouched
  <2>5. CASE \/ \E a \in Agents : RemoveAgent(a) \/ CreateAgent(a)
             \/ \E b \in Budgets : AdminStep(b) \/ ClockStep(b)
             \/ Restart \/ UNCHANGED vars
    BY <1>1, <2>5 DEF RemoveAgent, CreateAgent, AdminStep, ClockStep, Restart, vars
  <2>6. CASE Crash \/ TornStep
    BY <1>1, <2>6 DEF Crash, TornStep, SubmitTorn, ApproveTorn, ReplyTorn, CancelTorn,
                      RestartTorn, Dies
  <2>7. CASE \E u \in Tasks : TaskStep(u)
    BY <2>1, <2>2, <2>3, <2>4, <2>7 DEF TaskStep
  <2>. QED
    BY <1>1, <2>5, <2>6, <2>7 DEF Next
<1>2. ASSUME TypeOK, LifeInv, [Next]_vars
      PROVE  \A t \in Tasks : (run'[t] = "scheduled" /\ run[t] # "scheduled")
                => status[t] \in {"none", "pending_approval"} /\ run[t] = "none"
  BY <1>1, <1>2
<1>3. TypeOK /\ LifeInv /\ [Next]_vars =>
        [\A t \in Tasks :
           (run'[t] = "scheduled" /\ run[t] # "scheduled")
             => /\ status[t] \in {"none", "pending_approval"}
                /\ run[t] = "none"]_vars
  BY <1>2
<1>. QED
  BY <1>3, LifeInvariant, PTL DEF Spec, DispatchedOnce

-----------------------------------------------------------------------------
(***************************************************************************)
(* The budget ledger: for every set of tasks and budgets, every scope and  *)
(* every money value, what current_spend owes to reservations and costs.   *)
(* The proof first says what one step does to one budget, in five kinds of *)
(* ledger entry, and then does the arithmetic on the kinds.                *)
(***************************************************************************)

(***************************************************************************)
(* Reservation lists.  A row that has not been dispatched, or that no gate *)
(* has seen, holds none; a budget id that was never used is in none.       *)
(***************************************************************************)
Reserves(t) ==
  /\ status[t] \in {"none", "pending_approval"} => resv[t] = {}
  /\ run[t] = "inline" => resv[t] = {}
  /\ \A b \in resv[t] : conf[b].state # "unused"

Unused(b) == conf[b].state = "unused" => spend[b] = 0 /\ charged[b] = 0

ReserveInv == (\A t \in Tasks : Reserves(t)) /\ (\A b \in Budgets : Unused(b))

\* No handler is cut in two by a crash or loses a write to a failing database.
Whole == "torn" \notin Env /\ "faults" \notin Env

LEMMA Firm ==
  ASSUME Whole, NEW old, NEW new, NEW all
  PROVE  Attempt(old, new) = {new} /\ Done(all) = {all}
BY DEF Whole, Attempt, Done

LEMMA InitReserve == Init => ReserveInv
BY DEF Init, BudgetInit, ReserveInv, Reserves, Unused

LEMMA ApplicableLive ==
  ASSUME NEW t, NEW b \in Applicable(t)
  PROVE  b \in Budgets /\ Live(b) /\ conf[b].state = "live"
BY DEF Applicable, Enabled, Live

\* enforce_budget said "allowed": every applicable budget takes the reservation.
LEMMA ReservedColumn ==
  ASSUME TypeOK, NEW t, NEW skip, EnforceBudget(t, skip) = "allowed", NEW b \in Budgets
  PROVE  /\ Reserved(t)[b] = AfterReset(spend)[b]
                               + (IF b \in Applicable(t) THEN MinReservation ELSE 0)
         /\ ReleaseReservations(Reserved(t), Applicable(t))[b] = AfterReset(spend)[b]
<1>1. AfterReset(spend)[b] \in Nat /\ MinReservation \in Nat
  BY ResetType, BudgetAssumption DEF TypeOK, BudgetTypeOK
<1>2. CASE b \in Applicable(t)
  <2>1. Enabled(b) /\ Live(b) /\ conf[b] \in Row
    BY <1>2 DEF Applicable, Enabled, Live, TypeOK, BudgetTypeOK, Missing
  <2>2. conf[b].limit \in Nat
    BY <2>1, BudgetAssumption DEF Row
  <2>3. AfterReset(spend)[b] + MinReservation <= conf[b].limit
    <3>1. b \notin Exhausted(t)
      BY DEF EnforceBudget
    <3>. QED
      BY <1>1, <1>2, <2>2, <3>1 DEF Exhausted
  <2>4. Reserved(t)[b] = AfterReset(spend)[b] + MinReservation
    BY <1>2, <2>1, <2>3 DEF Reserved, CheckAndReserve
  <2>. QED
    BY <1>1, <1>2, <2>1, <2>4 DEF ReleaseReservations, AtLeastZero
<1>3. CASE b \notin Applicable(t)
  BY <1>1, <1>3 DEF Reserved, CheckAndReserve, ReleaseReservations
<1>. QED
  BY <1>2, <1>3

LEMMA ReserveLists ==
  ASSUME Whole, TypeOK, LifeInv, ReserveInv, NEW t \in Tasks, TaskStep(t), NEW u \in Tasks
  PROVE  Reserves(u)'
<1>. USE DEF Whole, Attempt, Written, ReserveInv, Reserves, Set
<1>1. \A b \in Applicable(t) : conf[b].state # "unused"
  BY ApplicableLive
<1>2. CASE Submit(t)
  <2>1. conf' = conf
    BY <1>2 DEF Submit, SubmitRejected, SubmitHeld, Hold, SubmitAllowed, SubmitDbError,
                SubmitSpawnFails
  <2>2. CASE SubmitRejected(t) \/ SubmitHeld(t) \/ SubmitDbError(t)
    BY <2>1, <2>2 DEF SubmitRejected, SubmitHeld, Hold, SubmitDbError, CanSubmit, TypeOK
  <2>3. CASE SubmitAllowed(t)
    BY <1>1, <2>1, <2>3 DEF SubmitAllowed, TypeOK
  <2>4. CASE SubmitSpawnFails(t)
    <3>1. run[t] = "none"
      BY <2>4 DEF SubmitSpawnFails, CanSubmit, LifeInv, Life
    <3>2. CASE u = t
      BY <1>1, <2>1, <2>4, <3>1, <3>2 DEF SubmitSpawnFails, TypeOK
    <3>3. CASE u # t
      BY <2>1, <2>4, <3>3 DEF SubmitSpawnFails, TypeOK
    <3>. QED
      BY <3>2, <3>3
  <2>. QED
    BY <1>2, <2>2, <2>3, <2>4 DEF Submit
<1>3. CASE Internal(t)
  BY <1>3 DEF Internal, CanSubmit, InternalSpawn, InternalHold, Hold, InlineTurn, SelfTask,
              budgetVars, TypeOK
<1>4. CASE Run(t)
  BY <1>4 DEF Run, RunStart, RunReply, RunEnds, InlineTurnEnds, budgetVars, TypeOK
<1>5. CASE Approve(t)
  <2>1. conf' = conf /\ appr[t] = "pending" /\ run[t] # "inline" /\ status[t] # "none"
    BY <1>5 DEF Approve, ApproveRejected, ApproveStale, ApproveDispatch, ApproveSpawnFails,
                CanApprove, LifeInv, Life, StillWaits
  <2>2. CASE u # t
    BY <1>5, <2>1, <2>2 DEF Approve, ApproveRejected, ApproveStale, ApproveDispatch,
                            ApproveSpawnFails, Stashed, TypeOK, StillWaits
  <2>3. CASE u = t /\ ApproveRejected(t)
    BY <2>1, <2>3 DEF ApproveRejected
  <2>4. CASE u = t /\ (ApproveStale(t) \/ ApproveDispatch(t) \/ ApproveSpawnFails(t))
    <3>1. \A b \in resv'[t] : conf[b].state # "unused"
      BY <1>1, <2>4 DEF ApproveStale, ApproveDispatch, ApproveSpawnFails, Stashed, TypeOK,
         StillWaits
    <3>2. status'[t] \notin {"none", "pending_approval"} /\ run'[t] # "inline"
      BY <2>1, <2>4 DEF ApproveStale, ApproveDispatch, ApproveSpawnFails, TypeOK, StillWaits
    <3>. QED
      BY <2>1, <2>4, <3>1, <3>2
  <2>. QED
    BY <1>5, <2>2, <2>3, <2>4 DEF Approve
<1>6. CASE Reject(t) \/ Cancel(t)
  BY <1>6 DEF Reject, RejectedStatus, Cancel, budgetVars, Future, TypeOK, StillWaits,
     Stopped
<1>. QED
  BY <1>2, <1>3, <1>4, <1>5, <1>6 DEF TaskStep

LEMMA UnusedColumns ==
  ASSUME TypeOK, ReserveInv, NEW t \in Tasks, TaskStep(t), NEW b \in Budgets
  PROVE  Unused(b)'
<1>1. SUFFICES ASSUME conf[b].state = "unused"
               PROVE  spend'[b] = 0 /\ charged'[b] = 0
  <2>1. conf' = conf
    BY DEF TaskStep, Submit, SubmitRejected, SubmitHeld, Hold, SubmitAllowed, SubmitDbError,
           SubmitSpawnFails, Internal, InternalSpawn, InternalHold, InlineTurn, SelfTask,
           Run, RunStart, RunReply, RunEnds, InlineTurnEnds, Approve, ApproveRejected,
           ApproveStale, ApproveDispatch, ApproveSpawnFails, Reject, Cancel, budgetVars
  <2>. QED
    BY <2>1 DEF Unused
<1>2. spend[b] = 0 /\ charged[b] = 0 /\ ~Live(b) /\ ~Enabled(b)
  BY <1>1 DEF ReserveInv, Unused, Live, Enabled
<1>3. AfterReset(spend)[b] = 0 /\ AfterReset(charged)[b] = 0
  BY <1>2 DEF AfterReset
<1>4. \A B : \A col \in [Budgets -> Nat] : ReleaseReservations(col, B)[b] = col[b]
  BY <1>2 DEF ReleaseReservations
<1>5. \A B : CheckAndReserve(AfterReset(spend), B)[b] = 0
  BY <1>2, <1>3 DEF CheckAndReserve
<1>6. b \notin resv[t]
  BY <1>1 DEF ReserveInv, Reserves
<1>7. CASE Submit(t) \/ Approve(t)
  <2>1. Reserved(t)[b] = 0 /\ ReleaseReservations(Reserved(t), Applicable(t))[b] = 0
    BY <1>4, <1>5, ReservedType DEF Reserved
  <2>. QED
    BY <1>2, <1>3, <1>7, <2>1
       DEF Submit, SubmitRejected, SubmitHeld, SubmitAllowed, SubmitDbError, SubmitSpawnFails,
           Approve, ApproveRejected, ApproveStale, ApproveDispatch, ApproveSpawnFails,
           AutoResetExpired, StillWaits
<1>8. CASE Internal(t) \/ RunStart(t) \/ RunEnds(t) \/ InlineTurnEnds(t) \/ Reject(t)
  BY <1>2, <1>8 DEF Internal, InternalSpawn, InternalHold, InlineTurn, SelfTask, RunStart,
                    RunEnds, InlineTurnEnds, Reject, budgetVars
<1>9. CASE RunReply(t)
  BY <1>2, <1>6, <1>9
     DEF RunReply, Attempt, Reconciled, ApplyActualSpend, ReleaseReservations
<1>10. CASE Cancel(t)
  BY <1>2, <1>10 DEF Cancel, Attempt, ReleaseReservations, Stopped
<1>. QED
  BY <1>7, <1>8, <1>9, <1>10 DEF TaskStep, Run

LEMMA NextReserve ==
  ASSUME Whole, TypeOK, LifeInv, ReserveInv, [Next]_vars
  PROVE  ReserveInv'
<1>1. CASE \E t \in Tasks : TaskStep(t)
  BY <1>1, ReserveLists, UnusedColumns DEF ReserveInv
<1>2. ASSUME NEW b \in Budgets, AdminStep(b) \/ ClockStep(b)
      PROVE  ReserveInv'
  <2>1. UNCHANGED <<status, resv, run, spend, charged>>
    BY <1>2 DEF AdminStep, ClockStep, CreateBudget, UpdateBudget, DeleteBudget,
       PeriodElapses
  <2>2. \A d \in Budgets : conf[d].state # "unused" => conf'[d].state # "unused"
    BY <1>2 DEF AdminStep, ClockStep, CreateBudget, UpdateBudget, DeleteBudget,
                PeriodElapses, Row, TypeOK, BudgetTypeOK
  <2>. QED
    BY <2>1, <2>2 DEF ReserveInv, Reserves, Unused, TypeOK
<1>3. CASE (\E a \in Agents : RemoveAgent(a) \/ CreateAgent(a)) \/ UNCHANGED vars
  BY <1>3 DEF RemoveAgent, CreateAgent, vars, budgetVars, ReserveInv, Reserves, Unused
<1>4. CASE Crash
  BY <1>4 DEF Crash, Dies, budgetVars, ReserveInv, Reserves, Unused
<1>5. CASE Restart
  <2>1. \A t \in Tasks : Reserves(t)'
    BY <1>5 DEF Restart, MarkedStale, AfterSweep, Swept, ReserveInv, Reserves
  <2>2. \A b \in Budgets : Unused(b)'
    BY <1>5 DEF Restart, ReleasedBySweep, Live, ReserveInv, Unused
  <2>. QED
    BY <2>1, <2>2 DEF ReserveInv
<1>. QED
  BY <1>1, <1>2, <1>3, <1>4, <1>5 DEF Next, TornStep, Whole
-----------------------------------------------------------------------------
(***************************************************************************)
(* Ledger entries: what a step does to the debt of one live budget.        *)
(***************************************************************************)
Opening(column, b) == AfterReset(column)[b]

\* A period reset, or nothing.
Rests(b) ==
  /\ Held(b)' = Held(b)
  /\ \/ spend'[b] = spend[b] /\ charged'[b] = charged[b]
     \/ spend'[b] = Opening(spend, b) /\ charged'[b] = Opening(charged, b)

\* t takes a reservation.
Takes(b, t) ==
  /\ t \notin Held(b) /\ Held(b)' = Held(b) \cup {t}
  /\ spend'[b] = Opening(spend, b) + MinReservation
  /\ charged'[b] = Opening(charged, b)

\* t gives its reservation up for what it really cost.
Settles(b, t, c) ==
  /\ t \in Held(b) /\ Held(b)' = Held(b) \ {t}
  /\ spend'[b] = AtLeastZero(spend[b] + (c - MinReservation))
  /\ charged'[b] = charged[b] + c

\* A late cancel gives a reservation up a second time.
ReleasesAgain(b) ==
  /\ "late_cancel" \in Env
  /\ Held(b)' = Held(b) /\ charged'[b] = charged[b]
  /\ spend'[b] = AtLeastZero(spend[b] - MinReservation)

\* The start-up sweep.
SweepsAll(b) ==
  /\ Held(b)' = {} /\ charged'[b] = charged[b]
  /\ spend'[b] = AtLeastZero(spend[b] - MinReservation * Cardinality(Held(b)))

Entry(b) ==
  \/ Rests(b) \/ ReleasesAgain(b) \/ SweepsAll(b)
  \/ \E t \in Tasks : Takes(b, t)
  \/ \E t \in Tasks, c \in Nat : Settles(b, t, c)

LEMMA HeldIs ==
  ASSUME NEW b, NEW t \in Tasks
  PROVE  /\ t \in Held(b) <=> b \in resv[t] /\ status[t] \in Queued
         /\ t \in Held(b)' <=> b \in resv'[t] /\ status'[t] \in Queued
BY DEF Held

\* Another task's reservation is not touched by a step of t.
LEMMA HeldOthers ==
  ASSUME TypeOK, NEW t \in Tasks, TaskStep(t), NEW b, NEW u \in Tasks, u # t
  PROVE  u \in Held(b)' <=> u \in Held(b)
<1>1. status'[u] = status[u]
  BY OthersUntouched
<1>2. resv'[u] = resv[u]
  BY DEF TaskStep, Submit, SubmitRejected, SubmitHeld, Hold, SubmitAllowed, SubmitDbError,
         SubmitSpawnFails, Internal, InternalSpawn, InternalHold, InlineTurn, SelfTask,
         Run, RunStart, RunReply, RunEnds, InlineTurnEnds, Approve, ApproveRejected,
         ApproveStale, ApproveDispatch, ApproveSpawnFails, Stashed, Reject, Cancel,
         budgetVars, Set, TypeOK
<1>. QED
  BY <1>1, <1>2, HeldIs

\* So the step leaves Held(b) alone, or adds or removes t.
LEMMA HeldStep ==
  ASSUME TypeOK, NEW t \in Tasks, TaskStep(t), NEW b
  PROVE  /\ (t \in Held(b)' <=> t \in Held(b)) => Held(b)' = Held(b)
         /\ t \in Held(b)' => Held(b)' = Held(b) \cup {t}
         /\ t \notin Held(b)' => Held(b)' = Held(b) \ {t}
<1>1. Held(b) \subseteq Tasks /\ Held(b)' \subseteq Tasks
  BY DEF Held
<1>. QED
  BY <1>1, HeldOthers

LEMMA TaskStepEntry ==
  ASSUME Whole, TypeOK, LifeInv, ReserveInv, NEW t \in Tasks, TaskStep(t),
         NEW b \in Budgets, Live(b)
  PROVE  Entry(b)
<1>. USE DEF Whole, Attempt, Written, Set, Entry, Queued
<1>1. spend[b] \in Nat /\ charged[b] \in Nat /\ MinReservation \in Nat
  BY BudgetAssumption DEF TypeOK, BudgetTypeOK
<1>2. resv[t] \in SUBSET Budgets
  BY DEF TypeOK
<1>0. \A skip : EnforceBudget(t, skip) = "allowed" =>
         ReleaseReservations(Reserved(t), Applicable(t))[b] = AfterReset(spend)[b]
  BY ReservedColumn
<1>3. CASE SubmitRejected(t) \/ SubmitHeld(t) \/ SubmitDbError(t) \/ SubmitSpawnFails(t)
  <2>1. t \notin Held(b) /\ t \notin Held(b)'
    BY <1>3, HeldIs DEF SubmitRejected, SubmitHeld, Hold, SubmitDbError, SubmitSpawnFails,
                        CanSubmit, TypeOK
  <2>2. spend'[b] = Opening(spend, b) /\ charged'[b] = Opening(charged, b)
    BY <1>3, <1>0 DEF SubmitRejected, SubmitHeld, SubmitDbError, SubmitSpawnFails,
                                AutoResetExpired, Opening
  <2>. QED
    BY <2>1, <2>2, HeldStep DEF Rests
<1>4. CASE SubmitAllowed(t)
  <2>1. t \notin Held(b) /\ (t \in Held(b)' <=> b \in Applicable(t))
    BY <1>4, HeldIs DEF SubmitAllowed, CanSubmit, TypeOK
  <2>2. /\ spend'[b] = Opening(spend, b) + (IF b \in Applicable(t) THEN MinReservation ELSE 0)
        /\ charged'[b] = Opening(charged, b) /\ Opening(spend, b) \in Nat
    BY <1>4, ReservedColumn, ResetType DEF SubmitAllowed, AutoResetExpired, Opening, TypeOK,
                                           BudgetTypeOK
  <2>. QED
    BY <2>1, <2>2, HeldStep DEF Rests, Takes
<1>5. CASE Internal(t)
  <2>1. t \notin Held(b) /\ t \notin Held(b)'
    BY <1>5, HeldIs DEF Internal, InternalSpawn, InternalHold, Hold, InlineTurn, SelfTask,
                        CanSubmit, ReserveInv, Reserves, budgetVars, TypeOK
  <2>2. spend' = spend /\ charged' = charged
    BY <1>5 DEF Internal, InternalSpawn, InternalHold, Hold, InlineTurn, SelfTask,
       budgetVars
  <2>. QED
    BY <2>1, <2>2, HeldStep DEF Rests
<1>6. CASE RunStart(t) \/ RunEnds(t) \/ InlineTurnEnds(t) \/ Reject(t)
  <2>1. t \in Held(b)' <=> t \in Held(b)
    BY <1>6, HeldIs DEF RunStart, RunEnds, InlineTurnEnds, Reject, RejectedStatus,
                        LifeInv, Life, ReserveInv, Reserves, TypeOK, StillWaits
  <2>2. spend' = spend /\ charged' = charged
    BY <1>6 DEF RunStart, RunEnds, InlineTurnEnds, Reject, budgetVars
  <2>. QED
    BY <2>1, <2>2, HeldStep DEF Rests
<1>7. CASE RunReply(t)
  <2>1. PICK outcome \in {"completed", "completed_unverified", "failed"},
             c \in Costs \cup {0} :
          /\ status' \in Written(t, outcome)
          /\ spend' = Reconciled(t, outcome, c)
          /\ charged' = [d \in Budgets |-> IF outcome = "completed" /\ d \in resv[t]
                                           THEN charged[d] + c ELSE charged[d]]
    BY <1>7 DEF RunReply
  <2>2. c \in Nat
    BY TaskAssumption
  <2>3. t \notin Held(b)' /\ (t \in Held(b) <=> b \in resv[t])
    BY <1>7, <2>1, HeldIs DEF RunReply, LifeInv, Life, ReserveInv, Reserves, TypeOK
  <2>4. CASE b \notin resv[t]
    BY <2>1, <2>3, <2>4, HeldStep
       DEF Rests, Reconciled, ApplyActualSpend, ReleaseReservations
  <2>5. CASE b \in resv[t] /\ outcome = "completed"
    <3>1. /\ spend'[b] = AtLeastZero(spend[b] + (c - MinReservation))
          /\ charged'[b] = charged[b] + c
      BY <1>1, <2>1, <2>2, <2>5
         DEF Reconciled, ApplyActualSpend, ReleaseReservations, AtLeastZero
    <3>2. Settles(b, t, c)
      BY <2>3, <2>5, <3>1, HeldStep DEF Settles
    <3>. QED
      BY <2>2, <3>2
  <2>6. CASE b \in resv[t] /\ outcome # "completed"
    <3>1. /\ spend'[b] = AtLeastZero(spend[b] + (0 - MinReservation))
          /\ charged'[b] = charged[b] + 0
      BY <1>1, <2>1, <2>6 DEF Reconciled, ReleaseReservations, AtLeastZero
    <3>2. Settles(b, t, 0)
      BY <2>3, <2>6, <3>1, HeldStep DEF Settles
    <3>. QED
      BY <3>2
  <2>. QED
    BY <2>4, <2>5, <2>6
<1>8. CASE ApproveRejected(t) \/ ApproveStale(t) \/ ApproveSpawnFails(t)
  <2>1. t \notin Held(b) /\ t \notin Held(b)'
    BY <1>8, HeldIs DEF ApproveRejected, ApproveStale, ApproveSpawnFails, CanApprove,
                        LifeInv, Life, TypeOK, StillWaits
  <2>2. spend'[b] = Opening(spend, b) /\ charged'[b] = Opening(charged, b)
    BY <1>8, <1>0 DEF ApproveRejected, ApproveStale, ApproveSpawnFails,
                                AutoResetExpired, Opening, StillWaits
  <2>. QED
    BY <2>1, <2>2, HeldStep DEF Rests
<1>9. CASE ApproveDispatch(t)
  <2>1. resv'[t] = Applicable(t)
    BY <1>9 DEF ApproveDispatch, Stashed, ReserveInv, Reserves, TypeOK, StillWaits
  <2>2. t \notin Held(b) /\ (t \in Held(b)' <=> b \in Applicable(t))
    BY <1>9, <2>1, HeldIs DEF ApproveDispatch, TypeOK, StillWaits
  <2>3. /\ spend'[b] = Opening(spend, b) + (IF b \in Applicable(t) THEN MinReservation ELSE 0)
        /\ charged'[b] = Opening(charged, b) /\ Opening(spend, b) \in Nat
    BY <1>9, ReservedColumn, ResetType DEF ApproveDispatch, AutoResetExpired, Opening,
       TypeOK,
                                           BudgetTypeOK, StillWaits
  <2>. QED
    BY <2>2, <2>3, HeldStep DEF Rests, Takes
<1>10. CASE Cancel(t)
  <2>1. t \notin Held(b)' /\ charged' = charged
    BY <1>10, HeldIs DEF Cancel, TypeOK, Stopped
  <2>2. CASE b \notin resv[t]
    BY <1>10, <2>1, <2>2, HeldIs, HeldStep DEF Cancel, ReleaseReservations, Rests, Stopped
  <2>3. CASE b \in resv[t]
    <3>1. spend'[b] = AtLeastZero(spend[b] - MinReservation)
      BY <1>10, <2>3 DEF Cancel, ReleaseReservations, Stopped
    <3>2. CASE status[t] \in Queued
      <4>1. t \in Held(b) /\ Held(b)' = Held(b) \ {t}
        BY <2>1, <2>3, <3>2, HeldIs, HeldStep
      <4>2. spend[b] - MinReservation = spend[b] + (0 - MinReservation)
        BY <1>1
      <4>3. charged'[b] = charged[b] + 0
        BY <1>1, <2>1
      <4>4. Settles(b, t, 0)
        BY <3>1, <4>1, <4>2, <4>3 DEF Settles
      <4>. QED
        BY <4>4
    <3>3. CASE status[t] \notin Queued
      <4>1. status[t] \in Terminal
        BY <1>10, <2>3, <3>3 DEF Cancel, CanCancel, ReserveInv, Reserves, TypeOK, Statuses,
           Stopped
      <4>. QED
        BY <1>10, <2>1, <3>1, <3>3, <4>1, HeldIs, HeldStep
           DEF Cancel, CanCancel, ReleasesAgain, Stopped
    <3>. QED
      BY <3>2, <3>3
  <2>. QED
    BY <2>2, <2>3
<1>. QED
  BY <1>3, <1>4, <1>5, <1>6, <1>7, <1>8, <1>9, <1>10 DEF TaskStep, Submit, Run, Approve

LEMMA NextEntry ==
  ASSUME Whole, TypeOK, LifeInv, ReserveInv, [Next]_vars, NEW b \in Budgets, Live(b)
  PROVE  Entry(b)
<1>1. CASE \E t \in Tasks : TaskStep(t)
  BY <1>1, TaskStepEntry
<1>2. CASE \/ \E a \in Agents : RemoveAgent(a) \/ CreateAgent(a)
           \/ \E d \in Budgets : AdminStep(d) \/ ClockStep(d)
           \/ Crash \/ UNCHANGED vars
  <2>1. UNCHANGED <<status, resv, spend, charged>>
    BY <1>2 DEF RemoveAgent, CreateAgent, AdminStep, ClockStep, CreateBudget, UpdateBudget,
                DeleteBudget, PeriodElapses, Crash, vars, budgetVars
  <2>. QED
    BY <2>1 DEF Entry, Rests, Held
<1>3. CASE Restart
  <2>0. /\ status' = MarkedStale(TRUE, Tasks)
        /\ spend' = ReleasedBySweep(spend, Tasks) /\ charged' = charged
    <3>1. Attempt(FALSE, TRUE) = {TRUE} /\ Done(Tasks) = {Tasks}
      BY Firm
    <3>. QED
      BY <1>3, <3>1 DEF Restart
  <2>1. \A t \in Tasks : status'[t] \notin Queued
    BY <2>0 DEF MarkedStale, AfterSweep, Swept, Queued
  <2>2. Held(b)' = {}
    BY <2>1 DEF Held
  <2>3. spend'[b] = AtLeastZero(spend[b] - MinReservation * Cardinality(Held(b)))
        /\ charged'[b] = charged[b]
    <3>1. Held(b) \cap Tasks = Held(b)
      BY DEF Held
    <3>. QED
      BY <2>0, <3>1 DEF ReleasedBySweep
  <2>. QED
    BY <2>2, <2>3 DEF Entry, SweepsAll
<1>. QED
  BY <1>1, <1>2, <1>3 DEF Next, TornStep, Whole

(***************************************************************************)
(* The arithmetic of the entries.                                          *)
(***************************************************************************)
LEMMA HeldCount ==
  ASSUME NEW b \in Budgets, NEW t
  PROVE  /\ Cardinality(Held(b)) \in Nat
         /\ t \notin Held(b) => Cardinality(Held(b) \cup {t}) = Cardinality(Held(b)) + 1
         /\ t \in Held(b) => /\ Cardinality(Held(b) \ {t}) = Cardinality(Held(b)) - 1
                             /\ Cardinality(Held(b)) >= 1
<1>1. IsFiniteSet(Held(b)) /\ Cardinality(Held(b)) \in Nat
  BY HeldFinite
<1>2. t \in Held(b) => Cardinality(Held(b)) >= 1
  <2>1. t \in Held(b) => Cardinality(Held(b)) # 0
    BY <1>1, FS_EmptySet
  <2>. QED
    BY <1>1, <2>1
<1>3. Cardinality(Held(b) \cup {t}) =
        IF t \in Held(b) THEN Cardinality(Held(b)) ELSE Cardinality(Held(b)) + 1
  BY <1>1, FS_AddElement
<1>4. Cardinality(Held(b) \ {t}) =
        IF t \in Held(b) THEN Cardinality(Held(b)) - 1 ELSE Cardinality(Held(b))
  BY <1>1, FS_RemoveElement
<1>. QED
  BY <1>1, <1>2, <1>3, <1>4

LEMMA Times ==
  ASSUME NEW m \in Nat, NEW n \in Nat
  PROVE  /\ m * (n + 1) = m * n + m
         /\ n >= 1 => m * (n - 1) = m * n - m /\ m * n >= m
         /\ m * n \in Nat /\ m * 0 = 0
<1>1. m * n \in Nat /\ m * 0 = 0
  OBVIOUS
<1>2. m * (n + 1) = m * n + m
  OBVIOUS
<1>3. ASSUME n >= 1
      PROVE  m * (n - 1) = m * n - m /\ m * n >= m
  <2>1. n - 1 \in Nat
    BY <1>3
  <2>2. m * ((n - 1) + 1) = m * (n - 1) + m
    BY <2>1
  <2>3. m * (n - 1) \in Nat /\ (n - 1) + 1 = n
    BY <2>1
  <2>. QED
    BY <2>2, <2>3
<1>. QED
  BY <1>1, <1>2, <1>3

\* A budget that appears in this step is one nobody has reserved on.
LEMMA Appears ==
  ASSUME Whole, TypeOK, ReserveInv, [Next]_vars, NEW b \in Budgets, ~Live(b), Live(b)'
  PROVE  spend'[b] = 0 /\ Owed(b)' = 0
<1>1. CreateBudget(b) /\ UNCHANGED <<status, resv, spend, charged>>
  <2>1. PICK d \in Budgets : AdminStep(d) \/ ClockStep(d)
    <3>1. conf' # conf
      BY DEF Live
    <3>. QED
      BY <3>1 DEF Whole, Next, TaskStep, Submit, SubmitRejected, SubmitHeld, Hold,
         SubmitAllowed,
           SubmitDbError, SubmitSpawnFails, Internal, InternalSpawn, InternalHold, InlineTurn,
           SelfTask, Run, RunStart, RunReply, RunEnds, InlineTurnEnds, Approve,
           ApproveRejected, ApproveStale, ApproveDispatch, ApproveSpawnFails, Reject, Cancel,
           RemoveAgent, CreateAgent, Crash, Restart, TornStep, vars, budgetVars
  <2>2. d = b
    BY <2>1 DEF AdminStep, ClockStep, CreateBudget, UpdateBudget, DeleteBudget,
                PeriodElapses, Live, TypeOK, BudgetTypeOK
  <2>. QED
    BY <2>1, <2>2 DEF AdminStep, ClockStep, CreateBudget, UpdateBudget, DeleteBudget,
                      PeriodElapses, Live
<1>2. spend[b] = 0 /\ charged[b] = 0
  BY <1>1 DEF CreateBudget, ReserveInv, Unused
<1>3. Held(b)' = {}
  BY <1>1 DEF Held, CreateBudget, ReserveInv, Reserves
<1>4. MinReservation * 0 + 0 = 0
  BY Times, BudgetAssumption
<1>. QED
  BY <1>1, <1>2, <1>3, <1>4, FS_EmptySet DEF Owed

LEMMA OpeningIs ==
  ASSUME TypeOK, NEW b \in Budgets
  PROVE  /\ Opening(spend, b) \in Nat /\ Opening(charged, b) \in Nat
         /\ \/ Opening(spend, b) = 0 /\ Opening(charged, b) = 0
            \/ Opening(spend, b) = spend[b] /\ Opening(charged, b) = charged[b]
         /\ ~due[b] => Opening(spend, b) = spend[b] /\ Opening(charged, b) = charged[b]
BY DEF Opening, AfterReset, Expired, TypeOK, BudgetTypeOK

LEMMA EntryNeverOver ==
  ASSUME TypeOK, NEW b \in Budgets, Entry(b), spend[b] <= Owed(b)
  PROVE  spend'[b] <= Owed(b)'
<1>. DEFINE n == Cardinality(Held(b))
            m == MinReservation
<1>1. m \in Nat /\ n \in Nat /\ m * n \in Nat /\ spend[b] \in Nat /\ charged[b] \in Nat
  BY BudgetAssumption, HeldCount, Times DEF TypeOK, BudgetTypeOK
<1>2. Owed(b) = m * n + charged[b] /\ Owed(b)' = m * Cardinality(Held(b)') + charged'[b]
  BY DEF Owed
<1>3. CASE Rests(b)
  BY <1>1, <1>2, <1>3, OpeningIs DEF Rests
<1>4. CASE ReleasesAgain(b)
  BY <1>1, <1>2, <1>4, BudgetAssumption DEF ReleasesAgain, AtLeastZero
<1>5. CASE SweepsAll(b)
  <2>1. Cardinality(Held(b)') = 0 /\ m * 0 = 0
    BY <1>1, <1>5, FS_EmptySet, Times DEF SweepsAll
  <2>. QED
    BY <1>1, <1>2, <1>5, <2>1 DEF SweepsAll, AtLeastZero
<1>6. ASSUME NEW t \in Tasks, Takes(b, t)
      PROVE  spend'[b] <= Owed(b)'
  <2>0. Cardinality(Held(b)') = n + 1
    BY <1>6, HeldCount DEF Takes
  <2>1. m * Cardinality(Held(b)') = m * n + m
    BY <1>1, <2>0, Times
  <2>. QED
    BY <1>1, <1>2, <1>6, <2>1, OpeningIs DEF Takes
<1>7. ASSUME NEW t \in Tasks, NEW c \in Nat, Settles(b, t, c)
      PROVE  spend'[b] <= Owed(b)'
  <2>0. Cardinality(Held(b)') = n - 1 /\ n >= 1
    BY <1>7, HeldCount DEF Settles
  <2>1. m * Cardinality(Held(b)') = m * n - m /\ m * n >= m
    BY <1>1, <2>0, Times
  <2>. QED
    BY <1>1, <1>2, <1>7, <2>1 DEF Settles, AtLeastZero
<1>. QED
  BY <1>3, <1>4, <1>5, <1>6, <1>7 DEF Entry

LEMMA EntryExact ==
  ASSUME TypeOK, NEW b \in Budgets, Entry(b), ~due[b], "late_cancel" \notin Env,
         spend[b] = Owed(b)
  PROVE  spend'[b] = Owed(b)'
<1>. DEFINE n == Cardinality(Held(b))
            m == MinReservation
<1>1. m \in Nat /\ n \in Nat /\ m * n \in Nat /\ spend[b] \in Nat /\ charged[b] \in Nat
  BY BudgetAssumption, HeldCount, Times DEF TypeOK, BudgetTypeOK
<1>2. Owed(b) = m * n + charged[b] /\ Owed(b)' = m * Cardinality(Held(b)') + charged'[b]
  BY DEF Owed
<1>3. CASE Rests(b)
  BY <1>1, <1>2, <1>3, OpeningIs DEF Rests
<1>4. CASE ReleasesAgain(b)
  BY <1>4 DEF ReleasesAgain
<1>5. CASE SweepsAll(b)
  <2>1. Cardinality(Held(b)') = 0 /\ m * 0 = 0
    BY <1>1, <1>5, FS_EmptySet, Times DEF SweepsAll
  <2>. QED
    BY <1>1, <1>2, <1>5, <2>1 DEF SweepsAll, AtLeastZero
<1>6. ASSUME NEW t \in Tasks, Takes(b, t)
      PROVE  spend'[b] = Owed(b)'
  <2>0. Cardinality(Held(b)') = n + 1
    BY <1>6, HeldCount DEF Takes
  <2>1. m * Cardinality(Held(b)') = m * n + m
    BY <1>1, <2>0, Times
  <2>. QED
    BY <1>1, <1>2, <1>6, <2>1, OpeningIs DEF Takes
<1>7. ASSUME NEW t \in Tasks, NEW c \in Nat, Settles(b, t, c)
      PROVE  spend'[b] = Owed(b)'
  <2>0. Cardinality(Held(b)') = n - 1 /\ n >= 1
    BY <1>7, HeldCount DEF Settles
  <2>1. m * Cardinality(Held(b)') = m * n - m /\ m * n >= m
    BY <1>1, <2>0, Times
  <2>. QED
    BY <1>1, <1>2, <1>7, <2>1 DEF Settles, AtLeastZero
<1>. QED
  BY <1>3, <1>4, <1>5, <1>6, <1>7 DEF Entry

(***************************************************************************)
(* The theorems.                                                           *)
(***************************************************************************)
LedgerInv == TypeOK /\ LifeInv /\ ReserveInv

LEMMA LedgerInvariant ==
  ASSUME Whole
  PROVE  Spec => []LedgerInv
<1>1. Init => LedgerInv
  BY InitType, InitLife, InitReserve DEF LedgerInv
<1>2. LedgerInv /\ [Next]_vars => LedgerInv'
  BY NextType, NextLife, NextReserve DEF LedgerInv
<1>. QED
  BY <1>1, <1>2, PTL DEF Spec

\* As long as no crash cuts a handler in two, no budget is ever charged for more
\* than what is owed to it: admin changes, period rollovers, late cancels and
\* crashes at awaits can only make current_spend too small.
THEOREM NeverOverHolds ==
  ASSUME Whole
  PROVE  Spec => []NeverOverCharged
<1>1. Init => NeverOverCharged
  BY DEF Init, BudgetInit, NeverOverCharged, Live
<1>2. ASSUME LedgerInv, NeverOverCharged, [Next]_vars
      PROVE  NeverOverCharged'
  <2>1. SUFFICES ASSUME NEW b \in Budgets, Live(b)'
                 PROVE  spend'[b] <= Owed(b)'
    BY DEF NeverOverCharged
  <2>2. CASE Live(b)
    BY <1>2, <2>2, NextEntry, EntryNeverOver DEF LedgerInv, NeverOverCharged
  <2>3. CASE ~Live(b)
    BY <1>2, <2>1, <2>3, Appears DEF LedgerInv
  <2>. QED
    BY <2>2, <2>3
<1>. QED
  BY <1>1, <1>2, LedgerInvariant, PTL DEF Spec

\* Nothing in the environment can make the ledger drift.
Settled == Whole /\ "late_cancel" \notin Env /\ "rollover" \notin Env

NothingDue == \A b \in Budgets : ~due[b]

LEMMA NextDue ==
  ASSUME Settled, TypeOK, NothingDue, [Next]_vars
  PROVE  NothingDue'
<1>1. CASE \E t \in Tasks : TaskStep(t)
  BY <1>1 DEF TaskStep, Submit, SubmitRejected, SubmitHeld, SubmitAllowed, SubmitDbError,
     SubmitSpawnFails, Internal, InternalSpawn, InternalHold, InlineTurn, SelfTask, Run,
     RunStart, RunReply, RunEnds, InlineTurnEnds, Approve, ApproveRejected, ApproveStale,
     ApproveDispatch, ApproveSpawnFails, Reject, Cancel, budgetVars, AutoResetExpired,
     NothingDue
<1>2. CASE \E b \in Budgets : AdminStep(b) \/ ClockStep(b)
  BY <1>2 DEF AdminStep, ClockStep, CreateBudget, UpdateBudget, DeleteBudget, Settled,
              NothingDue, TypeOK, BudgetTypeOK
<1>3. CASE \/ \E a \in Agents : RemoveAgent(a) \/ CreateAgent(a)
           \/ Crash \/ Restart \/ UNCHANGED vars
  BY <1>3 DEF RemoveAgent, CreateAgent, Crash, Restart, vars, budgetVars, NothingDue
<1>. QED
  BY <1>1, <1>2, <1>3 DEF Next, TornStep, Settled, Whole

\* With no rollover and no cancel of a finished task either, current_spend is
\* exactly what is owed, through concurrent submissions, approvals, replies,
\* cancels, crashes and start-up sweeps.
THEOREM LedgerExactHolds ==
  ASSUME Settled
  PROVE  Spec => []LedgerExact
<1>0. Spec => []LedgerInv
  BY LedgerInvariant DEF Settled
<1>1. Init => LedgerExact /\ NothingDue
  BY DEF Init, BudgetInit, LedgerExact, Live, NothingDue
<1>2. ASSUME LedgerInv, LedgerExact, NothingDue, [Next]_vars
      PROVE  LedgerExact' /\ NothingDue'
  <2>1. NothingDue'
    BY <1>2, NextDue DEF LedgerInv
  <2>2. ASSUME NEW b \in Budgets, Live(b)'
        PROVE  spend'[b] = Owed(b)'
    <3>1. CASE Live(b)
      BY <1>2, <3>1, NextEntry, EntryExact DEF LedgerInv, LedgerExact, Settled, NothingDue
    <3>2. CASE ~Live(b)
      BY <1>2, <2>2, <3>2, Appears DEF LedgerInv, Settled
    <3>. QED
      BY <3>1, <3>2
  <2>. QED
    BY <2>1, <2>2 DEF LedgerExact
<1>. QED
  BY <1>0, <1>1, <1>2, PTL DEF Spec

(***************************************************************************)
(* Admission.  A task joins the holders of a budget only by being let      *)
(* through: a reply, a sweep or a turn no budget governs never adds one.   *)
(***************************************************************************)
LEMMA JoinsWhenAllowed ==
  ASSUME Whole, LedgerInv, NEW t \in Tasks, TaskStep(t), NEW b \in Budgets,
         t \in Held(b)', t \notin Held(b)
  PROVE  /\ b \in Applicable(t) /\ conf' = conf /\ spend'[b] = Reserved(t)[b]
         /\ \E skip \in BOOLEAN : EnforceBudget(t, skip) = "allowed"
<1>. USE DEF Whole, Attempt, Written, LedgerInv, Set, Queued
<1>1. status[t] \notin Queued \/ b \notin resv[t]
  BY HeldIs
<1>2. b \in resv'[t] /\ status'[t] \in Queued
  BY HeldIs
<1>3. CASE Submit(t)
  <2>1. SubmitAllowed(t)
    BY <1>2, <1>3 DEF Submit, CanSubmit, SubmitRejected, SubmitHeld, Hold, SubmitDbError,
                      SubmitSpawnFails, TypeOK
  <2>. QED
    BY <1>2, <2>1 DEF SubmitAllowed, TypeOK
<1>4. CASE Internal(t)
  BY <1>2, <1>4 DEF Internal, CanSubmit, InternalSpawn, InternalHold, Hold, InlineTurn,
                    SelfTask, ReserveInv, Reserves, TypeOK
<1>5. CASE Run(t)
  BY <1>1, <1>2, <1>5 DEF Run, RunStart, RunReply, RunEnds, InlineTurnEnds, LifeInv, Life,
                          TypeOK
<1>6. CASE Approve(t)
  <2>1. ApproveDispatch(t)
    BY <1>2, <1>6 DEF Approve, CanApprove, ApproveRejected, ApproveStale,
                      ApproveSpawnFails, LifeInv, Life, TypeOK
  <2>2. resv[t] = {}
    BY <2>1 DEF ApproveDispatch, StillWaits, ReserveInv, Reserves
  <2>. QED
    BY <1>2, <2>1, <2>2 DEF ApproveDispatch, Stashed, TypeOK
<1>7. CASE Reject(t) \/ Cancel(t)
  BY <1>1, <1>2, <1>7 DEF Reject, RejectedStatus, StillWaits, Cancel, TypeOK
<1>. QED
  BY <1>3, <1>4, <1>5, <1>6, <1>7 DEF TaskStep

LEMMA NobodyJoins ==
  ASSUME LedgerInv, NEW b \in Budgets,
         \/ \E a \in Agents : RemoveAgent(a) \/ CreateAgent(a)
         \/ \E d \in Budgets : AdminStep(d) \/ ClockStep(d)
         \/ Crash \/ Restart \/ UNCHANGED vars
  PROVE  Held(b)' \subseteq Held(b)
<1>1. CASE Restart
  BY <1>1 DEF Held, Restart, MarkedStale, AfterSweep, Swept, Queued
<1>2. CASE \/ \E a \in Agents : RemoveAgent(a) \/ CreateAgent(a)
           \/ \E d \in Budgets : AdminStep(d) \/ ClockStep(d)
           \/ Crash \/ UNCHANGED vars
  BY <1>2 DEF Held, RemoveAgent, CreateAgent, AdminStep, ClockStep, Crash, vars
<1>. QED
  BY <1>1, <1>2

\* No submission or approval, however they interleave with replies, cancels and
\* restarts, commits a budget past its cap: not in the column the gate reads, and
\* not in what the budget really owes.
THEOREM AdmissionHolds ==
  ASSUME Settled
  PROVE  Spec => AdmissionWithinCap
<1>1. ASSUME LedgerInv, LedgerExact', [Next]_vars, NEW t \in Tasks, NEW b \in Budgets,
             t \in Held(b)', t \notin Held(b)
      PROVE  Owed(b)' <= conf[b].limit
  <2>1. PICK u \in Tasks : TaskStep(u)
    BY <1>1, NobodyJoins DEF Next, TornStep, Settled, Whole
  <2>2. u = t
    BY <1>1, <2>1, HeldOthers DEF LedgerInv
  <2>3. /\ b \in Applicable(t) /\ conf' = conf /\ spend'[b] = Reserved(t)[b]
        /\ \E skip \in BOOLEAN : EnforceBudget(t, skip) = "allowed"
    BY <1>1, <2>1, <2>2, JoinsWhenAllowed DEF Settled
  <2>4. Live(b) /\ conf[b].limit \in Nat
    <3>1. Live(b) /\ conf[b] \in Row
      BY <1>1, <2>3, ApplicableLive DEF LedgerInv, TypeOK, BudgetTypeOK, Missing
    <3>. QED
      BY <3>1, BudgetAssumption DEF Row
  <2>5. b \notin Exhausted(t)
    BY <2>3 DEF EnforceBudget
  <2>6. AfterReset(spend)[b] \in Nat /\ MinReservation \in Nat
    BY <1>1, ResetType, BudgetAssumption DEF LedgerInv, TypeOK, BudgetTypeOK
  <2>7. AfterReset(spend)[b] + MinReservation <= conf[b].limit
    BY <2>3, <2>4, <2>5, <2>6 DEF Exhausted
  <2>8. spend'[b] = AfterReset(spend)[b] + MinReservation
    BY <1>1, <2>3, ReservedColumn DEF LedgerInv
  <2>9. spend'[b] = Owed(b)'
    BY <1>1, <2>3, <2>4 DEF LedgerExact, Live
  <2>. QED
    BY <2>7, <2>8, <2>9
<1>2. LedgerInv /\ LedgerExact' /\ [Next]_vars =>
        [\A t \in Tasks, b \in Budgets :
           (t \in Held(b)' /\ t \notin Held(b)) => Owed(b)' <= conf[b].limit]_vars
  BY <1>1
<1>3. Spec => []LedgerInv /\ []LedgerExact
  BY LedgerInvariant, LedgerExactHolds DEF Settled
<1>. QED
  BY <1>2, <1>3, PTL DEF Spec, AdmissionWithinCap
=============================================================================
