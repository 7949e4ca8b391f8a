---------------------------- MODULE BudgetStore ----------------------------
(***************************************************************************)
(* The budgets table and its two readers: BudgetStore (orchestration/      *)
(* budgets.py) and the pre-dispatch gate enforce_budget (orchestration/    *)
(* enforcement.py).  Money is counted in integer cents.  A reservation is  *)
(* always MinReservation: no caller of enforce_budget overrides the        *)
(* default estimate.                                                       *)
(*                                                                         *)
(* The statements of one handler run without an await between them, so an  *)
(* operation here is an operator on the table's spend column that the      *)
(* handlers of TaskLifecycle compose into one step.                        *)
(***************************************************************************)
EXTENDS Integers, FiniteSets

CONSTANTS
  Tasks,           \* ids of task_queue rows (uuids: never reused)
  Budgets,         \* ids of budgets rows (AUTOINCREMENT: never reused)
  Scope,           \* Scope[b]: the tasks whose agent, user or type b's scope names
  MinReservation,  \* MIN_RESERVATION_USD, in cents
  Limits           \* the limit_usd values an administrator uses, in cents

ASSUME BudgetAssumption ==
  /\ IsFiniteSet(Tasks)
  /\ Scope \in [Budgets -> SUBSET Tasks]
  /\ MinReservation \in Nat \ {0}
  /\ Limits \subseteq Nat \ {0}

VARIABLES
  conf,     \* what an administrator writes into a row
  spend,    \* current_spend
  due,      \* reset_at <= now
  charged   \* history: what tasks have really cost b since its period began

budgetVars == <<conf, spend, due, charged>>

\* trips: an approval threshold is set and a reservation reaches it.
\* timed: the period is not 'lifetime', so the row has a reset_at.
Row == [state: {"live"}, limit: Limits, trips: BOOLEAN, enabled: BOOLEAN,
        timed: BOOLEAN]
Missing == [state: {"unused", "deleted"}]

BudgetTypeOK ==
  /\ conf \in [Budgets -> Row \cup Missing]
  /\ spend \in [Budgets -> Nat]
  /\ due \in [Budgets -> BOOLEAN]
  /\ charged \in [Budgets -> Nat]

BudgetInit ==
  /\ conf = [b \in Budgets |-> [state |-> "unused"]]
  /\ spend = [b \in Budgets |-> 0]
  /\ due = [b \in Budgets |-> FALSE]
  /\ charged = [b \in Budgets |-> 0]

Live(b) == conf[b].state = "live"
Enabled(b) == Live(b) /\ conf[b].enabled

NoClamp(n) == n                              \* slip: the MAX is forgotten
AtLeastZero(n) == IF n < 0 THEN 0 ELSE n      \* SQL: MAX(0, n)

(***************************************************************************)
(* Period resets.  get_applicable() resets every enabled row whose period  *)
(* has elapsed before it reads any row, so a reset is a side effect of a   *)
(* submission or an approval, never a step of its own.                     *)
(***************************************************************************)
Expired == {b \in Budgets : Enabled(b) /\ conf[b].timed /\ due[b]}

AfterReset(column) == [b \in Budgets |-> IF b \in Expired THEN 0 ELSE column[b]]

AutoResetExpired ==
  /\ due' = [b \in Budgets |-> due[b] /\ b \notin Expired]
  /\ charged' = AfterReset(charged)

(***************************************************************************)
(* enforce_budget: rejection beats approval beats reservation.             *)
(***************************************************************************)
Applicable(t) == {b \in Budgets : Enabled(b) /\ t \in Scope[b]}

\* Slip: the cap is compared before the reservation is added.
ExhaustedOffByOne(t) == {b \in Applicable(t) : AfterReset(spend)[b] > conf[b].limit}

Exhausted(t) ==
  {b \in Applicable(t) : AfterReset(spend)[b] + MinReservation > conf[b].limit}

NeedsHuman(t) == \E b \in Applicable(t) : conf[b].trips

EnforceBudget(t, skipThreshold) ==
  IF Exhausted(t) # {} THEN "rejected"
  ELSE IF NeedsHuman(t) /\ ~skipThreshold THEN "approval_required"
  ELSE "allowed"

(***************************************************************************)
(* The statements on current_spend.  column is the spend column a handler  *)
(* has computed so far, B the budgets of the reservation list.             *)
(***************************************************************************)
CheckAndReserve(column, B) ==
  [b \in Budgets |->
     IF b \in B /\ Enabled(b) /\ column[b] + MinReservation <= conf[b].limit
     THEN column[b] + MinReservation ELSE column[b]]

ReleaseReservations(column, B) ==
  [b \in Budgets |->
     IF b \in B /\ Live(b) THEN AtLeastZero(column[b] - MinReservation)
     ELSE column[b]]

ApplyActualSpend(column, B, cost) ==
  [b \in Budgets |->
     IF b \in B /\ Live(b) THEN AtLeastZero(column[b] + (cost - MinReservation))
     ELSE column[b]]

(***************************************************************************)
(* Administration, and the clock.                                          *)
(***************************************************************************)
CreateBudget(b) ==
  /\ conf[b].state = "unused"
  /\ \E row \in Row : row.enabled /\ conf' = [conf EXCEPT ![b] = row]
  /\ UNCHANGED <<spend, due, charged>>

\* A new period also writes a fresh reset_at; any other field leaves it alone.
UpdateBudget(b) ==
  /\ Live(b)
  /\ \E row \in Row, newPeriod \in BOOLEAN :
       /\ ~newPeriod => row.timed = conf[b].timed
       /\ conf' = [conf EXCEPT ![b] = row]
       /\ due' = [due EXCEPT ![b] = @ /\ ~newPeriod]
  /\ UNCHANGED <<spend, charged>>

DeleteBudget(b) ==
  /\ Live(b)
  /\ conf' = [conf EXCEPT ![b] = [state |-> "deleted"]]
  /\ UNCHANGED <<spend, due, charged>>

PeriodElapses(b) ==
  /\ Live(b) /\ conf[b].timed /\ ~due[b]
  /\ due' = [due EXCEPT ![b] = TRUE]
  /\ UNCHANGED <<conf, spend, charged>>
=============================================================================
