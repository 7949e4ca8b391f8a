----------------------------- MODULE Heartbeats -----------------------------
(***************************************************************************)
(* Scheduled work and the daemon's life (scheduler/engine.py,              *)
(* core/daemon.py): heartbeats and watches that share a lock per agent,    *)
(* the circuit breaker and its file, task rows, and starts, stops, kills   *)
(* and the crash detection that reads today's log.                         *)
(*                                                                         *)
(* A job is one firing of a scheduled entry.  The scheduler's own limit of *)
(* instances does not see it (_run_async returns at once), so firings of   *)
(* one entry overlap; a job that ended may stand for a later firing once   *)
(* its row has ended too.                                                  *)
(***************************************************************************)
EXTENDS Naturals, Sequences, SequencesExt

CONSTANTS
    Agents,
    Jobs,
    AgentOf,
    KindOf,    \* "heartbeat", "watch", or "free": a custom job or an initiative
    MaxFailures,  \* _max_failures
    Env           \* "kill", "torn" (a kill within a write), "stop", "update",
                  \* "midnight", "faults" (calls of the database that fail)

ASSUME HeartbeatsAssumption ==
    /\ MaxFailures \in Nat \ {0}
    /\ AgentOf \in [Jobs -> Agents]
    /\ KindOf \in [Jobs -> {"heartbeat", "watch", "free"}]

VARIABLES
    job,       \* per job: the await it is at
    lock,      \* _agent_locks: whether the lock is held, and who waits for it
    fails,     \* _failure_counts
    file,      \* .circuit_breaker.json
    row,       \* per job: the status of its task_queue row
    missed,    \* history: the jobs of whose rows this daemon missed a write
    daemon,    \* "down", "starting", "up", "stopping", "draining"
    today,     \* the last of the marks "started" and "stopped" in today's log
    sentinel,  \* the update sentinel file
    verdict,   \* what the crash detection said
    ended,     \* history: how the last run ended
    born       \* history: the last run wrote its "started" today

vars == <<job, lock, fails, file, row, missed, daemon, today, sentinel, verdict, ended, born>>

Heartbeat(j) == KindOf[j] = "heartbeat"
Working == {"turn", "deliver"}
Free == [held |-> FALSE, waiters |-> <<>>]
Zero == [a \in Agents |-> 0]

Init ==
    /\ job = [j \in Jobs |-> "idle"]
    /\ lock = [a \in Agents |-> Free]
    /\ fails = Zero
    /\ file = [whole |-> TRUE, counts |-> Zero]
    /\ row = [j \in Jobs |-> "none"]
    /\ missed = {}
    /\ daemon = "down"
    /\ today = "none"
    /\ sentinel = FALSE
    /\ verdict = "none"
    /\ ended = "none"
    /\ born = FALSE

-----------------------------------------------------------------------------
\* Jobs

Broken(a) == fails[a] >= MaxFailures

\* create_task, whose failure is logged: the heartbeat goes on without a row.
Created(j) ==
    \/ /\ row' = [row EXCEPT ![j] = "running"]
       /\ missed' = missed \ {j}
    \/ /\ "faults" \in Env
       /\ row' = [row EXCEPT ![j] = "none"]
       /\ missed' = missed \union {j}

\* update_task_status, whose failure is logged: the row keeps its status.
Updated(j, status) ==
    \/ /\ row' = [row EXCEPT ![j] = IF @ = "none" THEN @ ELSE status]
       /\ UNCHANGED missed
    \/ /\ "faults" \in Env
       /\ missed' = missed \union {j}
       /\ UNCHANGED row

\* The turn of a job begins; the row of a heartbeat is created before.
Begins(j) ==
    /\ job' = [job EXCEPT ![j] = "turn"]
    /\ IF Heartbeat(j) THEN Created(j) ELSE UNCHANGED <<row, missed>>

(***************************************************************************)
(* lock.acquire(): at once when the lock is free and nobody waits for it.  *)
(* A lock that was released and whose next owner has not run yet is free   *)
(* for locked() and not for acquire().                                     *)
(***************************************************************************)
Acquire(j) ==
    LET a == AgentOf[j] IN
    IF ~lock[a].held /\ lock[a].waiters = <<>>
    THEN /\ Begins(j)
         /\ lock' = [lock EXCEPT ![a].held = TRUE]
    ELSE /\ job' = [job EXCEPT ![j] = "waiting"]
         /\ lock' = [lock EXCEPT ![a].waiters = Append(@, j)]
         /\ UNCHANGED <<row, missed>>

Release(j) == [lock EXCEPT ![AgentOf[j]].held = FALSE]

Scheduling == daemon \in {"starting", "up", "stopping"}

\* The breaker is looked at before the lock is waited for.
FireHeartbeat(j) ==
    /\ Scheduling /\ job[j] = "idle" /\ Heartbeat(j)
    /\ ~Broken(AgentOf[j])
    /\ Acquire(j)
    /\ UNCHANGED <<fails, file, daemon, today, sentinel, verdict, ended, born>>

\* A slip for the checks: a watch looks at the lock and does not take it.
FireWatchUnlocked(j) ==
    /\ Scheduling /\ job[j] = "idle" /\ KindOf[j] = "watch"
    /\ ~lock[AgentOf[j]].held
    /\ Begins(j)
    /\ UNCHANGED <<lock, fails, file, daemon, today, sentinel, verdict, ended, born>>

FireWatch(j) ==
    /\ Scheduling /\ job[j] = "idle" /\ KindOf[j] = "watch"
    /\ ~lock[AgentOf[j]].held
    /\ Acquire(j)
    /\ UNCHANGED <<fails, file, daemon, today, sentinel, verdict, ended, born>>

\* Custom jobs and the proactive initiative take no lock.
FireFree(j) ==
    /\ Scheduling /\ job[j] = "idle" /\ KindOf[j] = "free"
    /\ Begins(j)
    /\ UNCHANGED <<lock, fails, file, daemon, today, sentinel, verdict, ended, born>>

\* The waiter that a release woke up runs.
Wake(a) ==
    /\ daemon # "down"
    /\ ~lock[a].held /\ lock[a].waiters # <<>>
    /\ LET j == Head(lock[a].waiters)
       IN  /\ Begins(j)
           /\ lock' = [lock EXCEPT ![a] = [held |-> TRUE, waiters |-> Tail(@.waiters)]]
    /\ UNCHANGED <<fails, file, daemon, today, sentinel, verdict, ended, born>>

\* _save_failure_counts
Save(f) == [whole |-> TRUE, counts |-> f]

\* The answer of a heartbeat is an error: counted, saved, the row failed.
BeatFails(j) ==
    LET a == AgentOf[j]
        f == [fails EXCEPT ![a] = @ + 1] IN
    /\ job[j] = "turn" /\ Heartbeat(j)
    /\ fails' = f
    /\ file' = Save(f)
    /\ Updated(j, "failed")
    /\ job' = [job EXCEPT ![j] = "idle"]
    /\ lock' = Release(j)
    /\ UNCHANGED <<daemon, today, sentinel, verdict, ended, born>>

\* A slip for the checks: a heartbeat that raises keeps the lock.
BeatRaisesHolding(j) ==
    /\ job[j] \in Working /\ Heartbeat(j)
    /\ Updated(j, "failed")
    /\ job' = [job EXCEPT ![j] = "idle"]
    /\ UNCHANGED <<lock, fails, file, daemon, today, sentinel, verdict, ended, born>>

\* It raises, or what follows it in the database does: not counted.
BeatRaises(j) ==
    /\ job[j] \in Working /\ Heartbeat(j)
    /\ Updated(j, "failed")
    /\ job' = [job EXCEPT ![j] = "idle"]
    /\ lock' = Release(j)
    /\ UNCHANGED <<fails, file, daemon, today, sentinel, verdict, ended, born>>

\* It succeeds: the count is dropped and the result is on its way to the
\* alert targets.
BeatSucceeds(j) ==
    LET a == AgentOf[j]
        f == [fails EXCEPT ![a] = 0] IN
    /\ job[j] = "turn" /\ Heartbeat(j)
    /\ fails' = f
    /\ file' = IF fails[a] > 0 THEN Save(f) ELSE file
    /\ job' = [job EXCEPT ![j] = "deliver"]
    /\ UNCHANGED <<lock, row, missed, daemon, today, sentinel, verdict, ended, born>>

BeatDelivered(j) ==
    /\ job[j] = "deliver"
    /\ Updated(j, "completed")
    /\ job' = [job EXCEPT ![j] = "idle"]
    /\ lock' = Release(j)
    /\ UNCHANGED <<fails, file, daemon, today, sentinel, verdict, ended, born>>

\* A watch counts nothing and has no row.
WatchEnds(j) ==
    /\ job[j] = "turn" /\ ~Heartbeat(j)
    /\ job' = [job EXCEPT ![j] = "idle"]
    /\ lock' = IF KindOf[j] = "watch" THEN Release(j) ELSE lock
    /\ UNCHANGED <<fails, file, row, missed, daemon, today, sentinel, verdict, ended, born>>

-----------------------------------------------------------------------------
\* The daemon

\* What a process that ends takes with it.
Lost == /\ job' = [j \in Jobs |-> "idle"]
        /\ lock' = [a \in Agents |-> Free]
        /\ daemon' = "down"

\* A slip for the checks: only the tasks that had not started are swept.
SweepPending(r) == r

\* sweep_orphan_tasks and _mark_stale_tasks: either fails what was left running.
Sweep(r) == [j \in Jobs |-> IF r[j] = "running" THEN "failed" ELSE r[j]]

\* What both leave when the first fails and the second breaks off somewhere.
Swept(r, left) == [j \in Jobs |-> IF j \in left THEN r[j] ELSE Sweep(r)[j]]

\* start(), up to the scheduler and the signal handlers.  It survives the
\* failures of its sweeps.
Boots ==
    /\ daemon = "down"
    /\ daemon' = "starting"
    /\ \E left \in IF "faults" \in Env THEN SUBSET Jobs ELSE {{}} :
         /\ row' = Swept(row, left)
         /\ missed' = {j \in left : row[j] = "running"}
    /\ fails' = IF file.whole THEN file.counts ELSE Zero
    /\ UNCHANGED <<job, lock, file, today, sentinel, verdict, ended, born>>

\* _detect_crash_restart and the mark of this run.
Started ==
    /\ daemon = "starting"
    /\ daemon' = "up"
    /\ verdict' = IF sentinel THEN "update" ELSE IF today = "started" THEN "crash" ELSE "clean"
    /\ sentinel' = FALSE
    /\ today' = "started"
    /\ born' = TRUE
    /\ ended' = "runs"
    /\ UNCHANGED <<job, lock, fails, file, row, missed>>

\* A slip for the checks: the log is not marked.
StopUnmarked ==
    /\ "stop" \in Env
    /\ daemon = "up"
    /\ daemon' = "stopping"
    /\ ended' = "asked"
    /\ UNCHANGED <<job, lock, fails, file, row, missed, today, sentinel, verdict, born>>

\* stop() marks the log first.
Stop ==
    /\ "stop" \in Env
    /\ daemon = "up"
    /\ daemon' = "stopping"
    /\ today' = "stopped"
    /\ ended' = "asked"
    /\ UNCHANGED <<job, lock, fails, file, row, missed, sentinel, verdict, born>>

SchedulerStops ==
    /\ daemon = "stopping"
    /\ daemon' = "draining"
    /\ UNCHANGED <<job, lock, fails, file, row, missed, today, sentinel, verdict, ended, born>>

\* The drain is over or was given up, and the event loop cancels what is left.
Exits ==
    /\ daemon = "draining"
    /\ Lost
    /\ UNCHANGED <<fails, file, row, missed, today, sentinel, verdict, ended, born>>

Killed ==
    /\ "kill" \in Env
    /\ daemon # "down"
    /\ Lost
    /\ ended' = IF daemon = "up" THEN "killed" ELSE ended
    /\ UNCHANGED <<fails, file, row, missed, today, sentinel, verdict, born>>

\* A kill within the write of the breaker file.
KilledSaving(j) ==
    /\ "torn" \in Env
    /\ daemon = "up" /\ job[j] = "turn" /\ Heartbeat(j)
    /\ Lost
    /\ file' = [file EXCEPT !.whole = FALSE]
    /\ ended' = "killed"
    /\ UNCHANGED <<fails, row, missed, today, sentinel, verdict, born>>

\* The update command leaves its sentinel before it sends a signal.
UpdateBegins ==
    /\ "update" \in Env
    /\ daemon # "down"
    /\ sentinel' = TRUE
    /\ UNCHANGED <<job, lock, fails, file, row, missed, daemon, today, verdict, ended, born>>

Midnight ==
    /\ "midnight" \in Env
    /\ today' = "none"
    /\ born' = FALSE
    /\ UNCHANGED <<job, lock, fails, file, row, missed, daemon, sentinel, verdict, ended>>

-----------------------------------------------------------------------------
\* A record that stands for another firing gets a new row, so it is used again
\* only when its row no longer says "running".
Fires(j) == row[j] # "running" /\ (FireHeartbeat(j) \/ FireWatch(j) \/ FireFree(j))
Ends(j) == \/ BeatFails(j) \/ BeatRaises(j) \/ BeatSucceeds(j)
           \/ BeatDelivered(j) \/ WatchEnds(j)

Next ==
    \/ \E j \in Jobs : Fires(j) \/ Ends(j) \/ KilledSaving(j)
    \/ \E a \in Agents : Wake(a)
    \/ Boots \/ Started \/ Stop \/ SchedulerStops \/ Exits \/ Killed
    \/ UpdateBegins \/ Midnight

Spec == Init /\ [][Next]_vars

(***************************************************************************)
(* Turns and deliveries end (ProcessManager), and the event loop wakes who *)
(* is next.                                                                *)
(***************************************************************************)
LoopSpec ==
    /\ Spec
    /\ \A j \in Jobs : WF_vars(Ends(j))
    /\ \A a \in Agents : WF_vars(Wake(a))

(***************************************************************************)
(* The service manager starts the daemon again and the cron entries go on  *)
(* firing.  Nothing is assumed of stops, kills and outcomes.               *)
(***************************************************************************)
FairSpec ==
    /\ LoopSpec
    /\ \A j \in Jobs : WF_vars(Fires(j))
    /\ WF_vars(Boots) /\ WF_vars(Started) /\ WF_vars(SchedulerStops) /\ WF_vars(Exits)

-----------------------------------------------------------------------------
\* Every variable has its type, and who is on a lock's list waits for it.
TypeOK ==
    /\ job \in [Jobs -> {"idle", "waiting"} \union Working]
    /\ \A a \in Agents :
         /\ lock[a].held \in BOOLEAN
         /\ lock[a].waiters \in Seq({j \in Jobs : job[j] = "waiting" /\ AgentOf[j] = a})
    /\ fails \in [Agents -> Nat]
    /\ file \in [whole : BOOLEAN, counts : [Agents -> Nat]]
    /\ row \in [Jobs -> {"none", "running", "completed", "failed"}]
    /\ missed \subseteq Jobs
    /\ daemon \in {"down", "starting", "up", "stopping", "draining"}
    /\ today \in {"none", "started", "stopped"}
    /\ sentinel \in BOOLEAN /\ born \in BOOLEAN
    /\ verdict \in {"none", "update", "crash", "clean"}
    /\ ended \in {"none", "runs", "asked", "killed"}

(***************************************************************************)
(* Heartbeats and watches of one agent never overlap ("Serialised          *)
(* per-agent via the same lock as heartbeats", scheduler/engine.py), also  *)
(* in the moment between a release and the turn of the next waiter, and    *)
(* the lock is held by whoever works under it.                             *)
(***************************************************************************)
LockedWork(a) == {j \in Jobs : AgentOf[j] = a /\ KindOf[j] # "free" /\ job[j] \in Working}

OneAtATime ==
    \A a \in Agents : /\ \A i, j \in LockedWork(a) : i = j
                      /\ lock[a].held <=> LockedWork(a) # {}

(***************************************************************************)
(* While the daemon runs, the rows that say "running" are those of the     *)
(* heartbeats that run, in whatever order firings, failures, kills and     *)
(* restarts come, for every job of whose row no write was missed since     *)
(* the start (scheduler/engine.py:418, 442, 498, 508 log and go on).       *)
(***************************************************************************)
RunningRowsRun ==
    daemon # "down" =>
      \A j \in Jobs \ missed : row[j] = "running" <=> (Heartbeat(j) /\ job[j] \in Working)

(***************************************************************************)
(* What the breaker has counted survives every restart ("a paused job      *)
(* stays paused across daemon restarts", README.md:1265), unless the write *)
(* of its file was cut off.                                                *)
(***************************************************************************)
PausedStaysPaused == [][daemon = "down" /\ daemon' = "starting" /\ file.whole
                          => fails' = fails]_vars

(***************************************************************************)
(* The crash detection accuses nobody who was asked to stop and had marked *)
(* the log, and notices every kill on the day of the start that no update  *)
(* accounts for.                                                           *)
(***************************************************************************)
CrashVerdict ==
    [][daemon = "starting" /\ daemon' = "up" =>
         /\ verdict' = "crash" => ended = "killed"
         /\ ended = "killed" /\ born /\ ~sentinel => verdict' = "crash"]_vars

\* "On startup, detects unclean previous shutdown" (README.md:1293).
CrashNoticed ==
    [][daemon = "starting" /\ daemon' = "up" /\ ended = "killed" /\ ~sentinel
         => verdict' = "crash"]_vars

\* Whoever waits for an agent's lock gets its turn or goes down with the daemon.
WaitersAreServed == \A j \in Jobs : job[j] = "waiting" ~> job[j] # "waiting"

\* "resume automatically on next success" (README.md:1265): a breaker that
\* opened does not stay open for ever.
BreakerResumes == \A a \in Agents : Broken(a) ~> ~Broken(a)
=============================================================================
