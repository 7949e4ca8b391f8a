# claude-daemon in TLA+

A verification development for the claude-daemon in `src/`: an asyncio program
that keeps a set of agents, runs Claude Code processes for them, accepts tasks
over HTTP and from schedulers, charges budgets, asks humans for approval, plans,
builds and reviews with several agents, rewrites its own memory at night, and is
restarted by systemd when it dies. The modules here model the parts with control
of their own, TLC checks them on small instances, and TLAPS proves the central
ones for every instance.

Paths below are relative to `src/src/claude_daemon/` unless they start with
`src/`.

## How the program executes, and what a step is

Everything runs on one asyncio event loop in one process, over one SQLite
connection. Two coroutines interleave only at an `await`. A model's action is
therefore the code of one coroutine from one await to the next, with every call
it makes, and concurrency is the order of those actions.

SQLite is written with a `commit()` after each statement or two. For the
coroutines that makes no difference, for a crash it does: between two commits of
one step the process can die, and the disk then holds a prefix of the step. The
`...Torn` actions of `TaskLifecycle` are those prefixes; `KilledSaving` of
`Heartbeats` and `Torn` of `Dreaming` are a death within the write of a file.

## Inventory

| Component | State | Operations | Interacts with | What is hard |
|---|---|---|---|---|
| Task API `orchestration/task_api.py` | `task_queue` rows, metadata with the reservation list | submit, hold, cancel, listings | enforcement, approvals, `Orchestrator.spawn_task` | failures after a commit; a cancel at any await; double release |
| Budgets `orchestration/budgets.py`, `enforcement.py` | `budgets.current_spend`, `reset_at` | reserve, release, apply actual spend, reset on read, administration | submit, approve, cancel, reply, start-up sweep | a reservation is settled by one of five parties; the column is clamped at 0; period resets under open reservations |
| Approvals `orchestration/approvals.py` | `approvals` rows | create, approve, reject, stale | HTTP handlers, cancel | the linked task may have moved on |
| Orchestrator `agents/orchestrator.py` | `_spawned_tasks`, per-agent sessions, the stack of nested turns | spawn_task, send_to_agent, stream_to_agent, tags | process manager, store, hub, discussions, workflows, factory | the final status is written by a future that may be cancelled; turns cause turns, and a platform name handed down is all that stops them |
| Process pool `core/process.py` | `_active`, `_session_locks`, `_semaphore`, `_confirmed_sessions` | send_message, stream_message, drain_all | SDK bridge, CLI processes | locks, permits and processes survive retries, time-outs, cancellations |
| SDK bridge `core/sdk_bridge.py`, `sdk/bridge.js` | a Node child, `_pending`, `_streams`, sessions on both sides | create, send, stream, close, shutdown | process pool | the child dies with requests outstanding; two maps of sessions that must agree on who was told the prompt |
| Daemon `core/daemon.py`, `core/signals.py` | start order, sweeps, crash mark | start, stop, reload | everything | two start-up sweeps over the same rows; a mark that must tell a crash from a stop |
| Registry and workspaces `agents/registry.py`, `agent.py`, `watcher.py`, `bootstrap.py`, `template_merge.py`, `evolution.py` | agents in memory, files on disk, the prompts of warm sessions | create, remove, reload, merge, evolve | everything that resolves an agent | four writers of one file, three copies of it, an agent that is gone while a task waits |
| Scheduler `scheduler/engine.py` | jobs, per-agent locks, failure counts | heartbeats, watches, initiatives, nightly and weekly jobs | orchestrator, store | circuit breaker, overlapping firings |
| Workflows `agents/workflow.py` | workflow records, accumulated cost | pipeline, parallel, review loop | orchestrator, factory | the cost cap under rounds and concurrency |
| Discussions `agents/discussion.py` | transcript, cost, convergence | bilateral, council | orchestrator, store, task API | cap and retry accounting |
| Factory `factory/` | plan files, shared configuration | plan, build, review | workflow engine, task API | phases across requests; a configuration that one run changes for all |
| Store `memory/store.py` | SQLite tables | one method per statement | everything | which row a message belongs to; expiry; costs kept in two places |
| Memory `memory/compactor.py`, `durable.py` | MEMORY.md and its archive, the agents' MEMORY.md and REFLECTIONS.md | REM sleep, deep sleep, compaction, self-assessment | model calls | read, think for minutes, write |
| Learning loop `agents/improvement.py`, `evolution.py` | the improvement plan and its archive | the weekly cycle | memory, workspaces | what is replaced must be kept |
| Goals `orchestration/goals.py` | goals tree | CRUD, cascade | HTTP | orphans |
| HTTP API `integrations/http_api.py` | none of its own | routes | everything | awaits in handlers |
| Adapters, dashboard, CLI, updater, config | client objects, files | pass-through | daemon | the updater drains the process pool |

PROJECT.json lists each component with its files, its modules and its status, and
every hazard at the line where it bites.

## Modules

| Module | Models | State | Actions |
|---|---|---|---|
| `BudgetStore` | `budgets` table, `enforce_budget` | `conf`, `spend`, `due`; history `charged` | create, update, delete, a period elapses; reserve, release and settle are operators on the spend column that the handlers compose |
| `TaskLifecycle` | `task_queue`, `approvals`, `_spawned_tasks`, submit, approve, reject, cancel, `_run`, start-up sweeps; extends `BudgetStore` | `status`, `resv`, `appr`, `run`, `cost`, `registry`, `up`; history `gated` | one action per outcome of each handler, one per stretch between awaits of `_run`, crash, restart, torn prefixes |
| `TaskPromise` | what a client of the API may rely on | `phase` | accept, hold, admit, close |
| `ProcessManager` | `core/process.py` and its drain before `updater/updater.py` | `pc`, `permits`, `semQueue`, `locks`, `holder`, `active`, `os`, `drain` | one per await of send and stream, time-out, cancellation, drain |
| `PoolPromise` | what a caller of send_message may rely on | `phase`, `on` | serve, finish |
| `SdkBridge` | `core/sdk_bridge.py`, `sdk/bridge.js` and the part of `process.py` that uses them | `bridge`, `disabled`, `node` (a Node process with the manager that spawned it), `turn`, `drain` | one per await of a turn, the reader, the Node side, its death, the drain |
| `AgentTurns` | the turns of agents: `send_to_agent`, `_process_delegations` and the scanners it calls, and the turns that discussions, councils, optimizations, plans and builds ask for | `stack` (nested turns per message), `spent` (`agent_metrics`); history `written`, `ran` | a message or a heartbeat begins, a model replies or fails, the next tag is executed, another turn of a meeting, a turn finishes, a stack is cut off |
| `Workflow` | `agents/workflow.py`: pipeline, parallel steps, review loop | `registry`, `wf`; the code between two awaits as operators on an execution's record | none of its own |
| `SoftwareFactory` | `factory/factory.py`, `run_build_workflow`; extends `Workflow` | `reviewerAgent`, `planFile`, `taskRow` | requests, answers of planners, steps, tests, reviews and panels, raises, agents leave and join |
| `Heartbeats` | `scheduler/engine.py`, start, stop and crash detection of `core/daemon.py` | `job`, `lock`, `fails`, `file`, `row`, `daemon`, `today`, `sentinel`, `verdict`; history `missed`, `ended`, `born` | firings, the five ends of a job, a wake-up, start, stop, kill, update, midnight |
| `Conversations` | the `conversations` and `agent_metrics` rows of `memory/store.py` and who asks for them in `agents/orchestrator.py` | `convs`, `turns`, `owner`, `metrics`, `confirmed`, `now`; history `fence` | asking in each way there is, answers, the second metric of a heartbeat, forget, session view, expiry, crash |
| `Workspaces` | `agents/bootstrap.py`, `template_merge.py`, `agent.py`, `watcher.py`, `evolution.py` for one file, SOUL.md | `soul`, `mtime`, `stage`, `identity`, `seen`, `warm`, `cycle`, `shown`; history `edit` | the stages of the start, releases, edits, chat, the poll, sessions, evolution, crash |
| `Dreaming` | `memory/compactor.py`, `durable.py`, `agents/improvement.py` and their jobs | `memory`, `archive`, `dream`, `registry`, `notes`, `pass`, `plan`, `plans`; history `versions`, `met`, `written` | REM sleep in steps, the passes over the agents, the plan, notes, days, deaths |
| `MC...` | | | values for TLC |
| `TaskLifecycle_proofs`, `AgentTurns_proofs`, `ProcessManager_proofs`, `SdkBridge_proofs`, `SoftwareFactory_proofs`, `Heartbeats_proofs`, `Conversations_proofs`, `Dreaming_proofs` | | | theorems |

Composition: `TaskLifecycle` is the task API, the budgets, the approvals, the
orchestrator's futures and the daemon's sweeps in one; `SoftwareFactory` is the
factory on the workflow engine on a changing registry; `SdkBridge` is the pool's
routing, the Python manager and Node. `AgentTurns` counts a workflow's turns,
`Workflow` knows its phases. Two abstract specifications say what a client sees:
`TaskLifecycle` implements `TaskPromise` under `Phase`, and `ProcessManager`
implements `PoolPromise` under `Phase` (a send with a permit is served) and
`ServedOn` (on the session whose lock it holds).

The definitions of `Workspaces` that every module has carry its name (`WorkInit`,
`WorkNext`, `WorkSpec`, `workVars`), because `ProcessManager_proofs` extends both
it and `ProcessManager`: the pool creates the warm sessions, and the files are
what their prompts are made of.

Names follow the code: `EnforceBudget` is `enforce_budget`, `CheckAndReserve`
is `check_and_reserve`, `GetSessionLock` is `_get_session_lock`. A definition
marked "slip" is a plausible wrong version of the one beside it; no action uses
it. It shows that the property named in PROJECT.json would notice the slip.

### TaskLifecycle and the code

* `status[t]` is the row (`"none"`: not inserted). `resv[t]` is
  `metadata._budget_reservations`. `appr[t]` is the approvals row linked to it.
* `run[t]` is the future in `_spawned_tasks`: scheduled, thinking (inside
  `send_to_agent`), broadcast (after the row was written, inside the hub's
  awaits), done or cancelled; `inline` is a chat or heartbeat turn, which has a
  row and no future.
* `SubmitRejected`, `SubmitHeld`, `SubmitAllowed`, `SubmitDbError`,
  `SubmitSpawnFails` are the five ways out of `submit_task` with a budget store.
  `Internal` are the callers that bypass the budgets (factory, council,
  `[SPAWN]`, `[TASK:self]`, chat, heartbeat).
* `Restart` is `start()`: `sweep_orphan_tasks`, the releases, then
  `_mark_stale_tasks`.
* `Env` says what the environment of a run may do: change budgets (`admin`), let
  periods elapse (`rollover`), cancel finished tasks (`late_cancel`), kill the
  process at an await (`crash`) or between commits (`torn`), let writes fail
  (`faults`), remove and recreate agents (`churn`).
* Many handlers wrap a write in a `try` of its own, log its failure and go on.
  `Attempt` is such a write: it may fail, as a whole, and what follows happens all
  the same. The release, the rejection and the status in `cancel_task`, every
  status write of `_run` and its settlement, the insertion of a spawned or an
  inline row, and each part of the start-up sweeps are of this kind. `Done` is a
  loop of them. A failure that leaves the handler as an exception, and what an
  HTTP client is told then, is not modelled, except where `submit_task` handles it.
* The ledger (`LedgerExact`, `NeverOverCharged`, `AdmissionWithinCap`), the
  settlement of a dispatched task and `TerminalSticks` are checked without
  `faults`: a release that failed leaves a reservation that nobody owns, and a
  final status that was not written leaves a row that only the next start ends.

Money is integer cents; the code uses floats, so rounding is not modelled. A
reservation is `MIN_RESERVATION_USD` for every caller. Ids are never reused
(uuid4 and AUTOINCREMENT). The third pass of `enforce_budget` (a reservation
that fails because another request took the rest) cannot be reached on one
event loop and one connection: nothing runs between check and update.

### ProcessManager and the code

A coroutine's `pc` is the await it is at. `active` is keyed by tracking id: the
session, or a uuid the call makes up, for which the call itself stands. `os[c]`
is the call's current CLI process; it may exit at any time or never. The SDK
bridge is one await (`sdk`) that answers or falls back; its inside is
`SdkBridge`. A process is awaited by
`communicate()` under `wait_for` (Python 3.12 semantics: the inner `finally`
runs before `TimeoutError` reaches the handler). The Managed Agents route
returns before any of this state is touched and is left out.

### SdkBridge and the code

One key (agent and model) is modelled; keys share nothing but the process.
`node[n]` holds both ends: the Python manager's `_sessions` (`has`),
`_first_message` (`first`), `_system_prompts` (`know`), `_pending` and `_streams`
(`pend`), and Node's session, its input pipe (`in`), the sends it works on
(`busy`) and its output (`out`). A process is `"dead"` until asyncio knows its
return code and `"reaped"` then, because `is_alive` looks at the return code. A
turn makes each of the requests create, send, close, recreate and resend at most
once; `Request` has the two ends of a write, and `Continue` says for each await
what each outcome leads to. `told` follows the system prompt from the command
into Node's session and into the answer: it is the question `PromptFirst` asks.
`bridge.js` is modelled from `handleCreate`, `handleSend` and `handleClose`: a
line of stdin is one step, a send ends in a later one, and a failure that looks
like a dead session forgets whatever session the key has by then. A creation that
resumes an older session, and is repeated without it when that fails
(`core/sdk_bridge.py:265`), is left out.

### AgentTurns and the code

A message from outside becomes a stack of frames, one per `send_to_agent` that
has not returned. A frame keeps the platform its caller passed, the text so far,
the scanner that is at work (`stage`; 0 while the model thinks), the tags it
found and has not executed (`todo`), the one it executes (`doing`) and how many
turns that one has caused. `Reply` is the code from the model's answer to the
first scan, `NextTag` takes the next match of a `findall` or goes on to the next
scanner, `AnotherTurn` is the loop of a discussion, a council or a build, or the
verification of a delegation and its repetition, `Finish` is the return after
`_process_spawn_tags`. A text is the set of tags in it; each scanner reads the
text that the ones before it have extended.

`Entrances` says whether messages come by `send_to_agent` (platform "outside":
"cli", "api", "spawn" and the like, which the guards treat alike), by a heartbeat
of the scheduler, or by `stream_to_agent`, which scans its own model's words for
delegations and spawns only. The scheduler runs one heartbeat of an agent at a
time (`BeatsFor`), and when its turn is back it records the turn's cost in
`agent_metrics` again (`scheduler/engine.py:462`, after `agents/orchestrator.py:705`):
a frame keeps in `paid` what that will be, and `Finish` adds it. A turn that came
back as an error is not recorded again. The agent of a turn is chosen from those that may take part, so the order
of speakers, retries and early ends of a discussion are among the behaviours.
What is left out: the figures in `[REVIEW]`'s answer, whose parallel turns count
as messages of their own; `[STATUS]` and `[TASK:self]`, which cause no turn; the
limit of three builds and plans in one text, which one tag of a kind cannot
reach. A model writes each tag once, so that executing it twice is the code's
doing.

### Workflow, SoftwareFactory and the code

An execution is a record: `pc` is its await, `at` the step, `piped` the
`total_cost` of the pipeline under way and `total` what the loop has collected.
`BeginRound`, `BeginStep`, `PipelineSucceeds`, `AfterStep`, `AfterReview`,
`BeginFanOut` and `AfterParallelStep` are `execute_review_loop`,
`execute_pipeline` and `execute_parallel` between two awaits, and call each other
as the code does. `SoftwareFactory` makes actions of them: `plan()`, `build()`
with a plan file, without a plan, or with one made on the way, `review()` and the
daemon's `run_build_workflow`, which puts the reviewer "max" into the shared
configuration until it ends. Roles are resolved from the registry of the moment,
and an agent may be gone by the time its step comes. A turn answers, answers with
an error, times out (pipelines and panels) or raises. The checkpoints and their
resumption are left out: nothing in the repository passes a `workflow_id`. What a
review says is `said` (its first line) and whether the keyword is found anywhere.

### Heartbeats and the code

A job is one firing, with a task row of its own; a job that is over stands for a
later firing when its row is over too (`Fires`), so that no row is forgotten. `lock[a]` is an `asyncio.Lock` with the waiters' list that
decides whether `acquire()` returns at once: between a release and the waiter's
turn the lock is free for `locked()`, which is what a watch looks at, and not for
`acquire()`. `FireHeartbeat` looks at the breaker before it waits; `BeatFails`,
`BeatRaises`, `BeatSucceeds` and `BeatDelivered` are the ends of
`_do_agent_heartbeat`, with the counts and their file. Its row is created and
updated by writes whose failure is logged and forgotten (`Created`, `Updated`), so
it may be missing while the heartbeat runs and say "running" when it is over;
`missed` is the set of jobs of whose rows this daemon missed a write. Either
start-up sweep may fail too (`Swept`). `Boots` is `start()` up to
the scheduler, `Started` the crash detection and the mark of the run; the
scheduler already fires in between. `Stop`, `SchedulerStops` and `Exits` are
`stop()`, whose mark comes first. `today` is what the detection finds in today's
log; `Midnight` empties it.

### Conversations and the code

A user_id is the sequence of its parts, since what the code does with it is to
join and split it at colons. `Row` is `get_or_create_conversation`: the row of a
named session, else the newest active one of the user_id, else a new one.
`Ask`, `Spawn`, `Delegate`, `Beat` and `AskAlone` are the callers. `Settle` is what
follows an answer: the message, `update_conversation` with the pointer (or the
IntegrityError of the unique index), the await of the hub and the metric. The
scheduler records the metric of a heartbeat once more when the turn has come back
to it (`BeatReturns`), unless the audit before it raises. The lock that keeps the
heartbeats of one agent apart is in `Heartbeats`; here they may overlap. Stamps
are hours, and `Before` compares them as the code does: as text, "T" against a
blank, so that on the cutoff's own day every stamp is the later one.
`Attributed` and `ByAgent` are the views of `_attribute_session` and
`get_cost_snapshot`.

### Workspaces and the code

SOUL.md is the set of its parts, each with the heading of its section, the line it
begins with and a version that says who wrote it: a section is the part that
begins with its "## " heading and perhaps one that begins with a sub-heading and
goes on to the next section. One sub-heading is enough, since it may stand in every
section. The order of sections is left out: new ones go to the end, where a
sub-heading then belongs to the last section, whichever that is (`Appended`).
Headings are of one line, a text brings no "## " line of its own, and what stands
before the first section is not modelled. `Bootstrap`,
`Merge`, `Load` and `Watch` are the stages of `start()`, the first two agent by
agent. `CheckAll` is a poll of the watcher; `Turn` creates or reuses the warm
session. An evolution is asked for (`Ask` keeps what the model was shown) and
applied to what the file is by then (`Applies`, for one mutation; several are the
same step again). Operations are "append" and "replace". What `Rejected` looks at
and what `Operated` does are two things, as in the code: the check normalises the
heading it is given and compares it with `PROTECTED_SECTIONS`, for a replacement
only; the replacement searches for the line as it was given and strikes everything
from there to the next section, wherever it finds it. The
other files of a workspace are loaded by the same code and left out.

### Dreaming and the code

`dream[d]` is a REM sleep of the weekly job or of `memory dream` on the command
line, a process of its own: read, turn, archive, write. MEMORY.md is a version
and a size in units of the shortest answer that is accepted; `Loss` is the 30 %
rule of `update_memory`, which compares with the file as it is, under the lock. A
pass is the compaction of all agents (night) or their self-assessment (weekly);
an agent's file is a set of notes, of which the answer keeps some. `quiet` says
that no agent came or went during the pass. One assumption is about the clock:
the weekly job ends within its period (`Day`), which the time-outs of its turns
and the number of agents make true of any installation that works.

## Runs

| Run | Instance | Question | Result |
|---|---|---|---|
| `TaskFull` | 2 tasks, 1 budget, a limit of 1 cent, replies of 0 or 2 cents; every environment but `admin`, swallowed failures of writes included | does the gate hold, does a cancel stick, is nothing dispatched twice, do approvals match held tasks, is `TaskPromise` implemented | yes |
| `TaskDrift` | 2 tasks, 1 budget; admin, rollover, late cancel, crash | in which direction does the ledger drift; do approvals match held tasks when no write fails | never above what is owed; yes |
| `TaskLedger` | 2 tasks, a global budget and one that only t1 is charged to; crash; fairness | is the ledger exact, does admission respect caps, does every dispatched task end | yes |
| `ProcSends` | 3 sends, 3 sessions, 2 permits, lock table of 2, 2 attempts, cancellations | permits, session exclusion, `_active`, is `PoolPromise` implemented | all hold |
| `ProcLive` | 2 sends, 1 stream, 1 permit, drains for exit and for update | does every send return, does every drain end | yes |
| `Turns` | 2 messages from outside or of heartbeats, 2 agents; a delegation, a council and a build; one turn of each meeting; costs 0 or 1, a daily budget of 1 | do the platforms keep councils from nesting, is a copied delegation executed again, by how much is a daily budget overdrawn | no nesting, no repetition, one turn of each message and one cost recorded twice |
| `Factory` | 2 runs of any kind, 4 agents of whom the reviewer and a builder come and go, a cap of 3, costs 0 and 2, 2 rounds, tests, approval | what can a capped build cost, does every run end | twice the cap and a turn; yes |
| `Bridge` | 1 send, 1 stream, 1 Node process that may die, fail to start, be drained, be late | is a session ever taken for told, does anybody wait for nothing, does every turn end | no; no; yes |
| `Beats` | 1 agent; 2 heartbeats, a watch, an unlocked job; a breaker that opens at one failure; kills, torn writes, stops, updates, midnights, failing writes of rows | lock, rows, crash detection, waiters | all hold, of rows whose writes were not missed |
| `Conv` | 1 user, 2 agents, 1 spawned task, heartbeats, 2 turns, CLI and SDK answers, 2-hour days, crash | is there one thread, do sessions clash, by how much do shares exceed the total, is the expiry in its window | one; no; by what was recorded twice; yes |
| `Work` | 1 agent, 2 headings of which 1 is protected, a sub-heading, 2 releases, 2 edits, 2 evolutions, crash | do edits survive, does the agent catch up | yes |
| `Dream` | 2 agents of whom 1 exists at first, 2 sizes (one a collapse of the other), 2 versions, 1 note, 2 days, 1 creation or deletion, command line, deaths | is a memory or a plan lost, can the memory collapse | no, unless two dreams overlap; no |

Three properties make an exception that the instance needs: without the cost that is
recorded twice, `DailyBudgetHolds` and `SnapshotWithinTotal` are false in `Turns` and
`Conv`, and without `missed`, `RunningRowsRun` is false in `Beats`.

Some properties are stated in the modules, hold on the same instances and are in
no configuration, because they say less than the ones that are:
`SuccessWithinCap` (a build that succeeds passed its cap by one turn at most),
`PlanHasTask` and `NoStrayTurns` of `SoftwareFactory`, `PausedStaysPaused` of
`Heartbeats`, `CreditedToItsAgent` of `Conversations`, `PassReachesAll` of
`Dreaming`, and the `TypeOK` of `ProcessManager` and of the modules after it in
the table above (`WorkTypeOK` in `Workspaces`). All of these but the `TypeOK` of
`SoftwareFactory` and `Conversations` are proved (below).

### Bounds and why they are enough

Two tasks on one budget are what it takes for one task's release to eat into
another's reservation, and for a cap to be reached by one while the other asks.
A limit of one reservation is used up by one task, a limit of two by both or by one
that cost more than it reserved (`TaskDrift`, `TaskLedger`); `TaskFull` has the first
only, and its questions are not about amounts. Costs 0 and 2 are a free reply, which the code treats as no
reply, and one that is dearer than the reservation. A second budget of narrower
scope makes reservation lists differ. Nothing in these modules counts without
bound: every task is submitted once, and each cost is charged once.

Three sends, two permits and a lock table of two make callers queue, sessions
busy and the table evict; two attempts in a chain of two let a call retry while
another waits. `ProcLive` has a chain longer than the attempts (the sleep after
the last attempt) and one permit (starvation). `Cancels` is a constant because
cancellation multiplies states; `ProcSends` cancels every caller.

A stack gets as deep as there are tags that models still write: each new tag
allows one more level, and the three of `Turns` let a delegate, its verifier, a
councillor or a builder write those that are left, while the other message's
stack is under way. A delegation has up to three turns (the delegate, the
verification and the repetition), so that tags are written after those of an
earlier turn were executed; a council and a build have one each, since a second turn
of a meeting brings no new order of scanners and many more states. A budget of one turn's
cost is used up by the first turn, so that every later one is refused unless it
was under way; two messages have two of them under way, and one of them may be a
heartbeat whose cost is recorded twice. Streams and the tags
for discussions, optimizations, help, plans and spawned tasks are in the module
and in its proofs, not in this instance; with a discussion and an optimization as
well, one message alone has two million states.

Two runs of the factory are enough for an overlap of any two kinds, two build
workflows included. A cap of 3 with costs of 2 is reached in
the middle of a round and of a step. Two rounds are one that begins below the cap
and one that spends it again, which is the worst there is: a third cannot begin.
An uncapped run takes the steps of one whose turns cost nothing, so that the instance
has capped runs only; `BuildsCost` and `SuccessesCost` are proved for every cap.

A send and a stream are the two kinds of turn and can close and recreate each
other's session. `MaxAhead` bounds how far Node's output runs ahead of the
reader; two events are an answer behind the one the reader is at. A second Node
process, creations that fail or time out and starts that overlap (`"create"`,
`"overlap"`) make `PromptFirst` false (below) and are left out of the run.

Two heartbeats and a watch make the lock's list two long; the breaker opens at
one failure, since counting to three adds no order of events. Two turns and one user make every pair of callers of
`Conversations` overlap; a second user touches no row of the first.
The two agents are interchangeable (`AgentsSymmetric`). A day of two
hours and an age of one put stamps on, before and after the cutoff's day within
four hours. `Work` has a section for each part of the question: a protected one
that the first release brings, one that only the second does, and a sub-heading that
may stand in either. In `Dream` the second size is just a
collapse of the first; two versions are one to lose and one that replaces it; two
days let a job of the night run into the next one.

### Fairness

`RunStart`, `RunReply`, `RunEnds`: the event loop runs what is ready, and a
model call returns because `process.py` and `sdk_bridge.py` bound it by
time-outs. `Restart`: systemd's `Restart=` directive. No fairness on crashes,
requests, approvals or clock. In `ProcessManager`, `SendStep` of each send is
weakly fair (ready coroutines run; the bridge, process creation and
`communicate()` are bounded), `AcquirePermit` is (asyncio wakes the first
waiter), and so are the steps of a drain. There is none on `ProcessExits`: a
process may hang for ever, and both liveness properties hold all the same.

`SoftwareFactory`: the steps of a run, since turns, `git diff` and the test
command have time-outs of their own. `SdkBridge`: a turn's own steps, its
time-outs (every await has one) and what the reader tells it of a death, the
reader and Node; none on deaths, drains and cancellations. `Heartbeats`: the run is under `LoopSpec`,
the ends of jobs (bounded turns) and wake-ups (the event loop); `FairSpec` adds
firings (cron), the start (systemd) and the steps of a stop, for the question
whether a breaker resumes. `Workspaces`: the poll only. The other modules have none:
their properties are invariants and action properties.

CHECK_DEADLOCK is FALSE in these configurations: a system whose tasks are all
over, whose callers are all done, or whose bound is reached, really stops.

## Divergences found

Places where the code and the repository's own words, or two parts of the code,
disagree. Where a property is named, it states the words, it is false of the
model, and adding it to the named configuration makes TLC print the steps.

| Words | Code | Property, configuration |
|---|---|---|
| the start-up sweep leaves `pending_approval` rows alone, "they're awaiting a human" (`core/daemon.py:1174`) | the next lines of the start fail the tasks that wait for a human (`core/daemon.py:626`) | `WaitingSurvivesRestart`, `TaskDrift` |
| the actual spend is reconciled after task completion (`orchestration/enforcement.py:13`) | a task that ends as `completed_unverified` costs nothing (`agents/orchestrator.py:1820`) | `CompletionIsCharged`, `TaskDrift` |
| a call that times out kills its process (`core/process.py:857`) | the inner `finally` has forgotten the process by then (858) | `HungProcessKilled`, `ProcLive` |
| two calls never resume one session (`core/process.py:502`) | a stream tests `_active` before an await and writes it after (603) | `NoResumeCollision`, `ProcSends` with two streams on one session |
| delegations nest once, "intercom" stops them (`agents/orchestrator.py:1674`) | nobody passes "intercom" (1700) | `DelegationNestsOnce`, `Turns` with `Tags <- Errands` |
| a build workflow restores the defaults of "johnny's team" "without mutating the shared FactoryConfig" (`core/daemon.py:998`) | it does put "max" into the shared configuration while it runs (999), and of two that overlap the second puts "max" back for good | `ReviewerRestored`, `Factory` |
| PASS or FAIL on the first line decides a review (`factory/factory.py:125`) | the keyword anywhere in the text does (`agents/workflow.py:516`) | `SuccessIsPass`, `Factory` |
| the bridge may fail for any reason and costs no more than the CLI's way (`core/sdk_bridge.py:1`) | `start()` takes the end of Node's output for readiness (126, 248), and the turn raises | `FallsBack`, `Bridge` |
| a paused job resumes on the next success (`src/README.md:1265`) | a breaker that is open lets no heartbeat run, so there is no next success (`scheduler/engine.py:343`) | `BreakerResumes`, `Beats` under `FairSpec` |
| an unclean shutdown is noticed at the start (`src/README.md:1293`) | only today's log is read (`core/daemon.py:653`): a daemon killed on a later day than it started is not noticed | `CrashNoticed`, `Beats` |
| a conversation is resumed (`src/README.md:370`) | with a process per turn the session that answered is taken for a parallel one and not kept (`agents/orchestrator.py:693`) | `FollowUpsResume`, `Conv` with the backend "cli" only |
| `/forget` clears the session on all platforms (`src/README.md:455`) | it archives the rows of the bare user_id (`integrations/telegram.py:380`), the agents' rows are "user:agent" | `ForgetStartsFresh`, `Conv` |
| an edit takes effect on the next message (`src/README.md:1277`) | a warm session keeps the prompt it was created with (`core/process.py:237`) | `PromptIsCurrent`, `Work` |
| protected sections of SOUL.md cannot be removed or replaced (`agents/evolution.py:73`) | the check compares a normalised heading (217), the replacement takes the text from the given line to the next "## " (294), so that a sub-heading passes and the rest of its section goes | `ProtectedKept`, `Work` |
| no data is lost when memory is updated simultaneously (`src/README.md:1266`) | the agents' own files are overwritten without the lock (`memory/compactor.py:399`, 477) | `RewriteDropsOnlyWhatItSaw`, `Dream` |

Others that modelling brought up, described by the hazards and by actions of the
models:

* Tasks. Approving a task whose agent has left the registry answers "approved"
  and leaves a pending row that nobody runs (`integrations/http_api.py:1156`,
  `ApproveDispatch`). Cancelling a chat or heartbeat row does not stop the turn,
  which overwrites "cancelled" (`orchestration/task_api.py:342`,
  `InlineTurnEnds`). Cancelling a finished task relabels it and hands its settled
  reservation back a second time (311, `late_cancel`); `TaskDrift` shows that the
  drift is downward only. A crash between commits, or a release that fails, leaves
  a reservation nobody owns (`...Torn`, `faults`). A cancel whose rejection of the
  approval fails (337) leaves an approval that can only go stale.
* Pool. Streams take no permit, so `max_concurrent` does not bound the processes
  (`core/process.py:620`, `src/README.md:959`). `drain_all` waits for and kills
  only what was in `_active` when it began (896), and its time-out clears entries
  made since (910). The updater's drain keeps nothing closed while the CLI is
  replaced (`updater/updater.py:70`).
* Turns. `stream_to_agent` never checks the daily budget
  (`agents/orchestrator.py:1364`, `src/README.md:1517`); `DailyBudgetHolds` leaves
  streams out for that reason. A verification turn and an optimization obey every
  tag even inside a discussion or a council (813, `agents/workflow.py:593`), so a
  council or a build can start there although the guard at 880-893 means to
  exclude it: the `Loopholes` of `CouncilsDoNotNest`. A `[HELP]`, `[DISCUSS]` or
  `[OPTIMIZE]` tag in a delegate's answer is executed by the delegate and again by
  the delegating turn (1030); delegations escape this because they are looked for
  first (`DelegatedOnce`). The cost of nested turns is in no response's `cost`
  (`agents/discussion.py:384`), so the caps of discussions and workflows do not
  count it.
* Workflows and factory. Each round's pipeline is given the whole cap
  (`agents/workflow.py:426`; a comment there speaks of the remaining one):
  `CostBounded` is the bound that remains. Parallel steps all start before any
  has cost anything, so their cap never bites (348). The plan made inside a build
  is in no total. A build takes a plan file whatever became of its approval
  (`factory/factory.py:411`). With the default configuration the
  orchestrator is planner, executor and reviewer.
* Bridge. With a second Node process, a creation that fails or times out, or two
  starts at once, a session that was never told its prompt is taken for told
  (`core/sdk_bridge.py:320`), because the flag belongs to the manager's map and
  outlives what it speaks of. Constants of `SdkBridge` switch each of these on.
* Scheduler. A heartbeat that raises is not counted by the breaker; the cost of one
  that succeeds is recorded by the turn and again by the scheduler
  (`scheduler/engine.py:462`), which the daily budget adds up and the cost snapshot
  shows (`DailyBudgetHolds`, `SnapshotWithinTotal` say by how much); `_run_async` returns at
  once, so the scheduler's limit of instances prevents no overlap; an initiative
  takes no lock.
* Conversations. `agent_to_agent` looks for context in a row that never has
  messages; an expiry can archive a conversation with a turn in progress; the row
  of a spawned task is attributed by "task:agent", which is no task's id; a client
  that names another conversation's session writes into that conversation, and the
  shares of the cost snapshot may then exceed its total.
* Workspaces. An edit between the load and the watcher's first look is never
  noticed (`Env` "early"; `LoadedCatchesUp` is false with it). The template merge
  names its backups by the second and without the agent, so that those of one
  start overwrite each other. A crash in the bootstrap of a workspace leaves it
  incomplete. A value whose line was deleted is not cleared by a reload.
* Dreaming. A compaction shows the first 2000 characters and replaces the whole
  file; an agent created or deleted during a pass ends it with a RuntimeError; two
  overlapping dreams, the daemon's and the command line's, can lose a version
  (`MemoryRecoverable` excepts them); a plan that could not be generated is
  written as the plan all the same.

## Proofs

The theorems hold for every value of the constants that the modules' `ASSUME`s
admit, with every environment, but for the hypotheses named here. Each rests on an
inductive invariant that TLC checked on the instance of the component's run
before it was proved.

`TaskLifecycle_proofs` (sets of tasks, budgets and agents, limits, costs):

* `TypeCorrect`: the type invariant, from which also that `current_spend` never
  becomes negative.
* `GateHolds`: a gated task runs only after its approval. It is not inductive by
  itself: `LifeInv` adds which statuses allow a future, that no future outlives
  the process, and that a held task has none and is not queued, so that a late
  approval cannot find the task moving.
* `ApprovalsMirror`: an approval waits no longer than its task does, but for the
  start-up sweep, which fails the task and leaves the approval, and for a cancel that
  could not reject it (with `"faults"` only). By `LifeInv` a task
  whose approval waits has no future and is not queued, so that no reply and no
  other sweep can move it.
* `CancelledStays`, `FinishedStays`, `OneDispatch`: action properties, from the
  ties between `run` and `status`. `FinishedStays` assumes that no cancel comes
  late, since a cancel does relabel a task that has finished (under Tasks above).
* `Implements`: the refinement of `TaskPromise`. Every action is a step of the
  promise or a stutter under `Phase`; `LifeInv` rules out what the actions alone
  would allow.
* `NeverOverHolds` under the assumption that no handler is torn and no write is
  swallowed (`Whole`), `LedgerExactHolds`
  without rollovers and late cancels too. `LedgerInv` adds that a row that holds
  reservations and is queued has a future or waits for the sweep, so that each
  settlement happens while the task is in `Held`. One lemma says how
  `Cardinality(Held(b))` changes when one task joins or leaves; the sweep empties
  it.
* `AdmissionHolds`, under the assumptions of the exact ledger: a reservation that is
  admitted leaves the budget owing at most its limit. The code compares its
  column with the limit; what is owed is the column only where the ledger is
  exact, and the actions that admit are the only ones by which a task joins.

`AgentTurns_proofs` (messages, agents and tags, any depth of nesting, both
entrances, all kinds of tags):

* `TurnsTypeCorrect`. The steps push, pop and replace frames. `Moves` says what a
  step may do to one stack, each action is shown to make such a move on one
  stack and none on the others, and the invariants are drawn from `Moves` alone.
  `StackInv` adds to the types that a frame only executes tags it obeys, and that
  only the top frame may still be waiting for its model.
* `CouncilsNeverNest`. The property speaks of two frames far apart, so the
  induction needs what lies between (`ShelterInv`): above a council, a discussion
  or a delegation, until a loophole breaks the chain, every frame is a delegation
  or a discussion. The lemma `NthTurnType` is where the guards of `Obeys` enter.
* `BudgetOverdrawnOnce`. The check happens when a turn is asked for and the cost
  arrives with the answer. `BudgetInv` counts the messages whose top frame waits
  for the agent: what is spent, with what those may still cost, is at most one
  less than the budget plus the dearest turn once per message and once more for the
  cost that the one heartbeat of the agent will have recorded again (`paid`). A turn
  that begins to wait finds the agent below its budget, one message waits for one
  turn, and the scheduler runs one heartbeat of an agent at a time.
* `DelegatesOnce`. An answer is copied into the answers of the turns below it, so
  the tag is seen again by every scanner on the way down. `OnceInv` says that a
  delegation waits in at most one list of tags to do, has been written by then and
  not been run; `Consumes` is what the induction needs of a step: new tags go to one
  list, and what is run leaves it.

`ProcessManager_proofs` (calls, sessions, permits, locks, length of the chain):
`NoPermitIsLost`, `SessionsAreExclusive`, `TableIsExact`, `TypeCorrect`. The
invariant adds that whoever is in the semaphore's queue waits there and is in it
once (`Line`), that only sends queue and an attempt that begins is one of the
chain (`Tries`), and that a send that queues or runs holds the lock of its
session and that a held lock is in the table (`Held`), which is why an eviction
cannot hand out a second lock for a session in use. A cancelled waiter leaves the
queue by `RemoveAt`, whose lemma says that it closes the gap. `TableIsExact` is
about a pool with neither streams nor drains, as `ActiveIsAwaited` says.

`Implements` in the same module is the refinement of `PoolPromise`, with streams
and drains. Each action serves one send, finishes with one or is not seen
(`StaysQuiet`). A seat is free when a permit is (`SeatsLeft`, from `Permits`), and
nobody served is on the session of a send that gets one (`SeatTaken`, from `Held`):
when it is routed the lock is free, and when it leaves the queue it has held it
since it joined. That a send that gave up is never served is `Line`: it has left
the queue.

At its end, for any agents, headings, releases, edits and evolutions, the files of
`Workspaces`: `EditsAlwaysSurvive`. Each writer either adds to a file, which is what a
bootstrap, a merge and an appended mutation do, or replaces the parts that one line
names, which spares the others; a mutation is applied to the file as it is then, not
as it was shown, so the induction needs no memory of what was shown.
`FilesTypeCorrect` has the types and the stages.

`SdkBridge_proofs` (turns, Node processes, faults, time-outs, lag of the reader).
`Serves` is what a turn may do to a node while others wait for it, and each request
and each outcome is shown to serve them.

* `TypeCorrect`, `NobodyWaitsInVain`: `Base` adds to the types that whoever makes a
  request refers to a process that was started, and that what is registered with a
  process that runs is in its pipe, in its work or in its output. All faults are
  allowed, a second process, failing creations and starts that overlap included.
* `PromptComesFirst`, where no creation fails (`"create"`) or is given up on while
  Node runs (`Timeouts`): the two that are known to break it. A second process
  is the property's own exception. The flag `first` is Python's and the session is
  Node's, with a pipe between them, so the invariant speaks of what the pipe holds
  (`Primed`): of the commands after a creation, or all of them when the session is
  blank, the first message has the prompt, and while there is none the flag is
  down. A creation is written when the flag is down because a close pops it, a
  message is written when there is a session because the creation before it
  succeeded, and who starts the process is alone (`Lone`), so no bridge is there
  to set the flag meanwhile.

`SoftwareFactory_proofs` (runs, agents, caps, costs, iterations). The code between
two awaits is a function on the record of one execution (`BeginRound`, `End`, ...),
so the lemmas say what each makes of a record (`Leads`), then the steps follow.

* `BuildsCost`, `SuccessesCost`: a capped build costs less than twice its cap plus
  its dearest turn, a successful one less than its cap plus that. `Spent` adds that
  a round, and each step in it, begins below the cap. They assume that there is a
  dearest cost (`HasDearest`), which the properties speak of.
* `PanelsAreDone`, `PlansAreTasks`.

`Heartbeats_proofs` (agents, jobs, threshold): `AgentsWorkAlone` (`Queues` says that
who is on a lock's list waits for that lock and is on it once, so that a hand-over
wakes one), `RowsTellWhoRuns` (a write that fails puts its job into `missed`, and the
start puts there what no sweep reached), `BreakerSurvives` (`FileTells`: a whole file holds the
counts in memory), `CrashDetection` (`Log` ties what today's log says last to how
the last life ended, a midnight between included), `TypeCorrect`.

`Conversations_proofs` (users, agents, tasks, names of sessions, turns):
`OneThread`, `NoAnswerIsRefused`, `ChatsAreCredited`, `ExpiryIsExact`,
`SharesWithinTotal`. The unique
index can refuse the write that follows an answer; `Owned` says whose session a row
can have (its own, one that a client named when the row was made, or one that Claude
gave a turn of that row), `Resumed` that a turn resumes only a session of its row, so
no answer brings the session of another.

`SharesWithinTotal` is for finitely many agents and for no client naming a session
(with `"named"` it is false, as Conversations says above): the snapshot takes an
agent's metric where there is one and a conversation's cost where there is none, and
reports the larger of the two totals. The row is charged first, the metric comes
after an await, or never, and that of a heartbeat comes twice. `Shares` says that
every turn of an agent is in a conversation of that agent (`Placed`) and that its
metric, with the turns it has yet to count, costs no more than those conversations
and its own heartbeats that were recorded again (`Covered`); no two agents have a
conversation or a heartbeat in common (`SumOfSums`, `SumOfOnes`), so the shares
together are within the conversations' total and the heartbeats recorded again. The
sums are folds over sets. Their unfolding (`SumUnfolds`, `SumTakesOut`) and what
follows from it are proved by well-founded induction in first-order form: `WFMin`
picks a least set for which the claim fails, so no operator has to be instantiated.

`ChatsAreCredited` assumes that no agent is called "spawn", the word the code tests
for. `ExpiryIsExact` compares what the code compares, a stamp with a space against
a cutoff with a "T".

`Dreaming_proofs` (agents, sizes, days, bounds): `NoMemoryIsLost` (`Kept`: until two
dreams overlap there is one, and it has archived what it is about to replace),
`RewritesKeepSize`, `PassesReachAll`, `NoPlanIsLost` (`Weekly`: a plan is stored by the
job of its day once, after which that job is over, so an archive that keeps one a
day overwrites none), `TypeCorrect`.

Model-checked only: the `TypeOK` of `SoftwareFactory`, which goes through
`SelectSeq` with a LAMBDA, and that of `Conversations`, which bounds costs by the
number of turns; and liveness (`DispatchSettles`, `EverySendReturns`, `DrainEnds`,
`EveryRunEnds`, `EveryTurnReturns`, `WaitersAreServed`, `LoadedCatchesUp`), which
with ENABLED is outside the prover's reach. Every invariant and every action
property of the runs is proved.

## Not modelled

* Text: prompt assembly, the regular expressions that find tags, what plans and
  reviews say, summaries, embeddings, the shared brain's search.
* The convergence of a discussion, its cost cap and the action tasks of a
  council: the turns they lead to are among those of `AgentTurns`.
* Which agent a message without a name goes to, which is a score over words.
* Goals: rows with a parent and a cascade of deletes, one statement each.
* The Managed Agents client: a stateless HTTP client of a remote service.
* The chat adapters, the dashboard's JavaScript, the command line's argument
  parsing, the configuration's files: I/O with little control. The dashboard's
  views that the store computes are `ByAgent` and `Attributed`.
* Checkpoints and resumption of workflows: no caller reaches them.
* What Claude, Node and SQLite do inside.

## Plan

1. Task lifecycle, budgets, approvals, process pool, agent turns and their first
   proofs: done.
2. Workflows and factory, bridge, scheduler, conversations, workspaces, dreaming:
   done.
3. Proofs of every invariant, action property and refinement that the runs check:
   done.
4. Proofs left: the `TypeOK` of `Conversations` and of `SoftwareFactory`.
5. If more is modelled: the convergence and the cap of discussions, goals.
