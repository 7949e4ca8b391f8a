--------------------------- MODULE ProcessManager ---------------------------
(***************************************************************************)
(* core/process.py: how concurrent coroutines share the Claude CLI.        *)
(* send_message takes a per-session try-lock and a global semaphore, runs  *)
(* one CLI process per attempt and falls back along a model chain when it  *)
(* is rate limited; stream_message takes neither lock nor semaphore and    *)
(* looks only at the _active table; drain_all runs at shutdown.            *)
(*                                                                         *)
(* Between two awaits a coroutine is not interrupted.  The awaits are the  *)
(* values of pc: the SDK bridge, the semaphore queue, the creation of a    *)
(* process, its output, the retry delay, the reaping of a stream.          *)
(***************************************************************************)
EXTENDS Integers, Sequences, FiniteSets, SequencesExt

CONSTANTS
  Sends, Streams,    \* callers of send_message and of stream_message
  Sessions,          \* Claude session ids
  NoSession,
  MaxConcurrent,     \* config.max_concurrent_sessions
  MaxSessionLocks,   \* _MAX_SESSION_LOCKS
  ChainLength,       \* models in the fallback chain
  MaxAttempts,       \* those model_max_retries lets a call try
  Cancels,           \* the sends whose task may be cancelled
  Drains             \* what may follow a drain: "done" (exit), "updating"

Calls == Sends \cup Streams
None == "free"

ASSUME ProcessAssumption ==
  /\ Sends \cap Streams = {} /\ NoSession \notin Sessions
  /\ Calls \cap Sessions = {} /\ None \notin Calls
  /\ MaxConcurrent \in Nat \ {0} /\ MaxSessionLocks \in Nat \ {0}
  /\ ChainLength \in Nat /\ MaxAttempts \in 1..ChainLength
  /\ Cancels \subseteq Sends /\ Drains \subseteq {"done", "updating"}

VARIABLES
  pc,         \* where each coroutine awaits
  sess,       \* the session the call runs on, NoSession for a fresh one
  resumed,    \* the session its CLI process was given with --resume
  attempt,    \* attempts made along the fallback chain
  os,         \* the call's current OS process: "none", "running" or "exited"
  permits,    \* free permits of _semaphore
  semQueue,   \* coroutines waiting for a permit, in order
  locks,      \* keys of _session_locks
  holder,     \* who holds a session's lock
  active,     \* _active: tracking id -> call, or "free"
  confirmed,  \* _confirmed_sessions
  drain,      \* drain_all: "off", "closing", "waiting", or what follows it
  procs       \* the calls whose processes drain_all waits for

callVars == <<pc, sess, resumed, attempt, os>>
semVars == <<permits, semQueue>>
lockVars == <<locks, holder>>
drainVars == <<drain, procs>>
vars == <<callVars, semVars, lockVars, active, confirmed, drainVars>>

Places == {"idle", "sdk", "queued", "spawning", "output", "sleeping", "reaping",
           "done"}
Keys == Sessions \cup Calls      \* a call stands for the uuid it makes up

TypeOK ==
  /\ pc \in [Calls -> Places]
  /\ sess \in [Calls -> Sessions \cup {NoSession}]
  /\ resumed \in [Calls -> Sessions \cup {NoSession}]
  /\ attempt \in [Calls -> 0..MaxAttempts]
  /\ os \in [Calls -> {"none", "running", "exited"}]
  /\ permits \in 0..MaxConcurrent
  /\ semQueue \in Seq(Sends)
  /\ locks \subseteq Sessions
  /\ holder \in [Sessions -> Sends \cup {None}]
  /\ active \in [Keys -> Calls \cup {None}]
  /\ confirmed \subseteq Sessions
  /\ drain \in {"off", "closing", "waiting", "done", "updating"}
  /\ procs \subseteq Calls

\* Earlier calls have left idle locks and confirmed sessions behind.
Init ==
  /\ pc = [c \in Calls |-> "idle"]
  /\ sess = [c \in Calls |-> NoSession]
  /\ resumed = [c \in Calls |-> NoSession]
  /\ attempt = [c \in Calls |-> 0]
  /\ os = [c \in Calls |-> "none"]
  /\ permits = MaxConcurrent
  /\ semQueue = <<>>
  /\ locks \in {L \in SUBSET Sessions : Cardinality(L) <= MaxSessionLocks}
  /\ holder = [s \in Sessions |-> None]
  /\ active = [k \in Keys |-> None]
  /\ confirmed \in SUBSET Sessions
  /\ drain = "off" /\ procs = {}

\* A coroutine reaches its next await.  When the daemon has exited no coroutine
\* moves any more, only the OS processes it leaves behind.
Goto(c, place) == drain # "done" /\ pc' = [pc EXCEPT ![c] = place]

Key(c) == IF sess[c] = NoSession THEN c ELSE sess[c]       \* tracking_id
Popped(c) == [active EXCEPT ![Key(c)] = None]              \* _active.pop

\* Processes gone: their calls' current ones, the only ones that can still run.
Exited(C) ==
  /\ os' = [d \in Calls |-> IF d \in C THEN "exited" ELSE os[d]]
  /\ procs' = procs \ C

\* _build_args: only a session Claude Code has seen is resumed.
Resumable(s) == IF s \in confirmed THEN s ELSE NoSession

\* The result event names a session, which may be resumed from now on.
Confirms == confirmed' \in {confirmed} \cup {confirmed \cup {s} : s \in Sessions}

(***************************************************************************)
(* _get_session_lock: a new key may evict half of the unlocked ones.       *)
(***************************************************************************)
Locked(s) == s \in locks /\ holder[s] # None

\* Slip: the eviction does not look whether a lock is held.
EvictAnyLock(s) ==
  IF s \in locks \/ Cardinality(locks) < MaxSessionLocks
  THEN locks' = locks \cup {s}
  ELSE \E E \in SUBSET locks : /\ Cardinality(E) = Cardinality(locks) \div 2
                               /\ locks' = (locks \ E) \cup {s}

GetSessionLock(s) ==
  IF s \in locks \/ Cardinality(locks) < MaxSessionLocks
  THEN locks' = locks \cup {s}
  ELSE LET idle == {k \in locks : ~Locked(k)}
       IN \E E \in SUBSET idle : /\ Cardinality(E) = Cardinality(idle) \div 2
                                 /\ locks' = (locks \ E) \cup {s}

(***************************************************************************)
(* `async with self._semaphore`: taken at once when a permit is free and   *)
(* nobody waits, otherwise in queue order.  Whoever has a permit goes on   *)
(* to create its process without another await.                            *)
(***************************************************************************)
EnterSemaphore(c, s) ==
  \/ /\ permits > 0 /\ semQueue = <<>>
     /\ permits' = permits - 1
     /\ Goto(c, "spawning")
     /\ resumed' = [resumed EXCEPT ![c] = Resumable(s)]
     /\ UNCHANGED semQueue
  \/ /\ permits = 0 \/ semQueue # <<>>
     /\ semQueue' = Append(semQueue, c)
     /\ Goto(c, "queued")
     /\ UNCHANGED <<permits, resumed>>

\* The CLI part of send_message.  A busy session is not waited for: the call
\* runs on a fresh one.  Nobody therefore ever waits for a session lock.
RouteSend(c, s) ==
  \/ /\ s = NoSession
     /\ sess' = [sess EXCEPT ![c] = NoSession]
     /\ EnterSemaphore(c, NoSession)
     /\ UNCHANGED lockVars
  \/ /\ s # NoSession /\ Locked(s)
     /\ GetSessionLock(s)
     /\ sess' = [sess EXCEPT ![c] = NoSession]
     /\ EnterSemaphore(c, NoSession)
     /\ UNCHANGED holder
  \/ /\ s # NoSession /\ ~Locked(s)
     /\ GetSessionLock(s)
     /\ holder' = [holder EXCEPT ![s] = c]
     /\ sess' = [sess EXCEPT ![c] = s]
     /\ EnterSemaphore(c, s)

\* The CLI part of stream_message: the only check is the _active table, and
\* the entry is written after the process exists, one await later.
RouteStream(c, s) ==
  LET free == IF s # NoSession /\ active[s] # None THEN NoSession ELSE s
  IN /\ sess' = [sess EXCEPT ![c] = free]
     /\ resumed' = [resumed EXCEPT ![c] = Resumable(free)]
     /\ Goto(c, "spawning")
     /\ UNCHANGED <<semVars, lockVars>>

Route(c, s) ==
  \/ c \in Sends /\ RouteSend(c, s)
  \/ c \in Streams /\ RouteStream(c, s)

\* A call first tries a warm SDK session when there is one: the bridge may die
\* and be restarted at any time.  Background work goes on calling during a drain.
Call(c) ==
  /\ pc[c] = "idle"
  /\ \E s \in Sessions \cup {NoSession} :
       \/ Route(c, s)
       \/ /\ Goto(c, "sdk")
          /\ sess' = [sess EXCEPT ![c] = s]
          /\ UNCHANGED <<resumed, semVars, lockVars>>
  /\ UNCHANGED <<attempt, os, active, confirmed, drainVars>>

\* The bridge is asked at most twice before the call falls back to the CLI.
SdkAnswers(c) ==
  /\ pc[c] = "sdk"
  /\ Goto(c, "done")
  /\ Confirms
  /\ UNCHANGED <<sess, resumed, attempt, os, semVars, lockVars, active, drainVars>>

SdkFails(c) ==
  /\ pc[c] = "sdk"
  /\ Route(c, sess[c])
  /\ UNCHANGED <<attempt, os, active, confirmed, drainVars>>

AcquirePermit ==
  /\ semQueue # <<>> /\ permits > 0
  /\ LET c == Head(semQueue)
     IN /\ Goto(c, "spawning")
        /\ resumed' = [resumed EXCEPT ![c] = Resumable(sess[c])]
  /\ semQueue' = Tail(semQueue)
  /\ permits' = permits - 1
  /\ UNCHANGED <<sess, attempt, os, lockVars, active, confirmed, drainVars>>
-----------------------------------------------------------------------------
(***************************************************************************)
(* Processes.                                                              *)
(***************************************************************************)
ProcessCreated(c) ==
  /\ pc[c] = "spawning"
  /\ os' = [os EXCEPT ![c] = "running"]
  /\ active' = [active EXCEPT ![Key(c)] = c]
  /\ attempt' = [attempt EXCEPT ![c] = @ + 1]
  /\ Goto(c, "output")
  /\ UNCHANGED <<sess, resumed, semVars, lockVars, confirmed, drainVars>>

ProcessExits(c) ==
  /\ os[c] = "running"
  /\ Exited({c})
  /\ UNCHANGED <<pc, sess, resumed, attempt, semVars, lockVars, active, confirmed,
                 drain>>

Released(c) == [s \in Sessions |-> IF holder[s] = c THEN None ELSE holder[s]]

\* Leaving `async with semaphore` and `async with lock`.
Leave(c) ==
  /\ Goto(c, "done")
  /\ permits' = permits + 1
  /\ holder' = Released(c)

\* communicate() returned and the answer, or the last model's error, is final.
SendReply(c) ==
  /\ c \in Sends /\ pc[c] = "output" /\ os[c] = "exited"
  /\ active' = Popped(c)
  /\ Leave(c)
  /\ Confirms
  /\ UNCHANGED <<sess, resumed, attempt, os, semQueue, locks, drainVars>>

\* Rate limited with a model left in the chain: sleep, keeping lock and permit,
\* even when no attempt is left.
SendRateLimited(c) ==
  /\ c \in Sends /\ pc[c] = "output" /\ os[c] = "exited"
  /\ attempt[c] < ChainLength
  /\ active' = Popped(c)
  /\ Goto(c, "sleeping")
  /\ Confirms
  /\ UNCHANGED <<sess, resumed, attempt, os, semVars, lockVars, drainVars>>

SendRetry(c) ==
  /\ pc[c] = "sleeping"
  /\ \/ /\ attempt[c] < MaxAttempts
        /\ Goto(c, "spawning")
        /\ resumed' = [resumed EXCEPT ![c] = Resumable(sess[c])]
        /\ UNCHANGED <<permits, holder>>
     \/ /\ attempt[c] = MaxAttempts
        /\ Leave(c)
        /\ UNCHANGED resumed
  /\ UNCHANGED <<sess, attempt, os, semQueue, locks, active, confirmed, drainVars>>

\* Slip: the permit is given back on the normal path only.
SpawnFailsLeaks(c) ==
  /\ pc[c] = "spawning"
  /\ Goto(c, "done")
  /\ UNCHANGED <<sess, resumed, attempt, os, semVars, lockVars, active, confirmed, drainVars>>

SpawnFails(c) ==
  /\ pc[c] = "spawning"
  /\ \/ c \in Sends /\ Leave(c)
     \/ c \in Streams /\ Goto(c, "done") /\ UNCHANGED <<permits, holder>>
  /\ UNCHANGED <<sess, resumed, attempt, os, semQueue, locks, active, confirmed,
                 drainVars>>

\* Slip: the pop is not in the finally clause.
TimeoutKeepsEntry(c) ==
  /\ c \in Sends /\ pc[c] = "output" /\ os[c] = "running"
  /\ Leave(c)
  /\ UNCHANGED <<sess, resumed, attempt, os, semQueue, locks, active, confirmed, drainVars>>

\* wait_for gave up.  The inner finally has already removed the key, whoever
\* wrote it last, so the handler's `if tracking_id in self._active` is false and
\* its kill, wait and second pop are never reached.
Timeout(c) ==
  /\ c \in Sends /\ pc[c] = "output" /\ os[c] = "running"
  /\ active' = Popped(c)
  /\ Leave(c)
  /\ UNCHANGED <<sess, resumed, attempt, os, semQueue, locks, confirmed, drainVars>>

StreamEnds(c) ==
  /\ c \in Streams /\ pc[c] = "output" /\ os[c] = "exited"
  /\ active' = Popped(c)
  /\ Goto(c, "done")
  /\ Confirms
  /\ UNCHANGED <<sess, resumed, attempt, os, semVars, lockVars, drainVars>>

\* The consumer closes the generator: terminate, then kill, and wait.
StreamAborted(c) ==
  /\ c \in Streams /\ pc[c] = "output" /\ os[c] = "running"
  /\ active' = Popped(c)
  /\ Goto(c, "reaping")
  /\ UNCHANGED <<sess, resumed, attempt, os, semVars, lockVars, confirmed, drainVars>>

StreamReaped(c) ==
  /\ pc[c] = "reaping"
  /\ Exited({c})
  /\ Goto(c, "done")
  /\ UNCHANGED <<sess, resumed, attempt, semVars, lockVars, active, confirmed,
                 drain>>

\* Slip: the waiter's place in the queue is not withdrawn.
CancelQueuedStays(c) ==
  /\ pc[c] = "queued"
  /\ Goto(c, "done")
  /\ holder' = Released(c)
  /\ UNCHANGED <<semVars, active>>

(***************************************************************************)
(* The calling task is cancelled.  asyncio withdraws a queued acquire and  *)
(* kills a process it was still creating; a process already running is     *)
(* left alone and only forgotten.                                          *)
(***************************************************************************)
CancelQueued(c) ==
  /\ pc[c] = "queued"
  /\ Goto(c, "done")
  /\ \E i \in 1..Len(semQueue) : semQueue[i] = c /\ semQueue' = RemoveAt(semQueue, i)
  /\ holder' = Released(c)
  /\ UNCHANGED <<permits, active>>

Cancel(c) ==
  /\ \/ pc[c] = "sdk" /\ Goto(c, "done") /\ UNCHANGED <<semVars, holder, active>>
     \/ CancelQueued(c)
     \/ /\ pc[c] \in {"spawning", "sleeping"}
        /\ Leave(c)
        /\ UNCHANGED <<semQueue, active>>
     \/ /\ pc[c] = "output"
        /\ Leave(c)
        /\ active' = Popped(c)
        /\ UNCHANGED semQueue
  /\ UNCHANGED <<sess, resumed, attempt, os, locks, confirmed, drainVars>>
-----------------------------------------------------------------------------
(***************************************************************************)
(* drain_all: shut the bridge down, then wait for, and at the timeout      *)
(* kill, the processes that were in _active at that moment.  It runs when  *)
(* the daemon stops and also before every update of the Claude CLI, after  *)
(* which the daemon goes on.                                               *)
(***************************************************************************)
Tracked == {c \in Calls : \E k \in Keys : active[k] = c}

DrainStarts ==
  /\ drain = "off" /\ Drains # {}
  /\ drain' = "closing"
  /\ UNCHANGED <<callVars, semVars, lockVars, active, confirmed, procs>>

\* With nothing in _active the function returns here.
DrainSnapshot ==
  /\ drain = "closing"
  /\ procs' = {c \in Tracked : os[c] = "running"}
  /\ drain' \in IF Tracked = {} THEN Drains ELSE {"waiting"}
  /\ UNCHANGED <<callVars, semVars, lockVars, active, confirmed>>

DrainFinishes ==
  /\ drain = "waiting" /\ procs = {}
  /\ drain' \in Drains
  /\ UNCHANGED <<callVars, semVars, lockVars, active, confirmed, procs>>

DrainWaitsForever == FALSE            \* slip: gather without wait_for

\* _active.clear() also forgets processes that were created during the wait.
DrainTimeout ==
  /\ drain = "waiting" /\ procs # {}
  /\ Exited(procs)
  /\ active' = [k \in Keys |-> None]
  /\ drain' \in Drains
  /\ UNCHANGED <<pc, sess, resumed, attempt, semVars, lockVars, confirmed>>

\* Updater.check_and_update has run `claude update`, bounded by its own timeout.
UpdateEnds ==
  /\ drain = "updating"
  /\ drain' = "off"
  /\ UNCHANGED <<callVars, semVars, lockVars, active, confirmed, procs>>

Drain == DrainStarts \/ DrainSnapshot \/ DrainFinishes \/ DrainTimeout \/ UpdateEnds
-----------------------------------------------------------------------------
SendStep(c) ==
  \/ SdkAnswers(c) \/ SdkFails(c) \/ ProcessCreated(c) \/ SpawnFails(c)
  \/ SendReply(c) \/ SendRateLimited(c) \/ SendRetry(c) \/ Timeout(c)

StreamStep(c) == StreamEnds(c) \/ StreamAborted(c) \/ StreamReaped(c)

Next ==
  \/ \E c \in Calls : Call(c) \/ SendStep(c) \/ StreamStep(c) \/ ProcessExits(c)
  \/ \E c \in Cancels : Cancel(c)
  \/ AcquirePermit \/ Drain

Spec == Init /\ [][Next]_vars

\* Ready coroutines run, the bridge, the creation of a process and communicate()
\* are bounded by timeouts.  Nothing says that a process ever exits by itself.
Fairness ==
  /\ \A c \in Sends : WF_vars(SendStep(c))
  /\ WF_vars(AcquirePermit)
  /\ WF_vars(DrainSnapshot \/ DrainFinishes \/ DrainTimeout)

FairSpec == Spec /\ Fairness
-----------------------------------------------------------------------------
\* Permits are neither lost nor made up by replies, retries, timeouts and
\* cancellations: what is not free is with a call that is using it.
UsesPermit(c) == c \in Sends /\ pc[c] \in {"spawning", "output", "sleeping"}

PermitsConserved == permits + Cardinality({c \in Sends : UsesPermit(c)}) = MaxConcurrent

\* Two send_message calls never await processes resumed on one session, however
\* the lock table evicts, retries come back and callers are cancelled.
SendsDoNotCollide ==
  \A c, d \in Sends :
    (/\ pc[c] \in {"spawning", "output"} /\ pc[d] \in {"spawning", "output"}
     /\ resumed[c] = resumed[d] /\ resumed[c] # NoSession) => c = d

\* Without streams and drains _active lists exactly the processes somebody is
\* waiting for.
ActiveIsAwaited ==
  (Streams \cup Drains = {}) =>
    \A k \in Keys, c \in Calls :
      (active[k] = c) <=> (pc[c] = "output" /\ Key(c) = k)

\* Every send_message returns: nobody starves in the semaphore's queue behind
\* hung processes, retries or cancelled waiters, unless the daemon stops.
EverySendReturns ==
  \A c \in Sends : (pc[c] # "idle") ~> (pc[c] = "done" \/ drain = "done")

\* A drain ends although no process need ever exit and background work goes on
\* starting new ones.
DrainEnds == (drain = "closing") ~> (drain \in {"done", "updating"})

\* Where PoolPromise sees a send: with a permit it is served, on the session whose
\* lock it holds.
Phase(c) ==
  CASE pc[c] \in {"idle", "sdk", "queued"} -> "asking"
    [] UsesPermit(c) -> "served"
    [] OTHER -> "over"

ServedOn(c) == IF UsesPermit(c) THEN sess[c] ELSE NoSession

Promise ==
  INSTANCE PoolPromise WITH
    Callers <- Sends, Seats <- MaxConcurrent,
    phase <- [c \in Sends |-> Phase(c)], on <- [c \in Sends |-> ServedOn(c)]

\* However locks are evicted, permits queued for, models retried and callers
\* cancelled, every send is served once and undisturbed, or not at all.
KeepsPromise == Promise!Spec

(***************************************************************************)
(* What the repository says and the code does not do (see the README).     *)
(***************************************************************************)
\* process.py:857: a call that timed out has killed its hung process.
HungProcessKilled ==
  [][\A c \in Sends :
       (pc[c] = "output" /\ pc'[c] = "done") => os'[c] = "exited"]_vars

\* process.py:502: a stream on a session with an active process starts fresh
\* instead of colliding on --resume.
NoResumeCollision ==
  \A c, d \in Calls :
    (/\ os[c] = "running" /\ os[d] = "running"
     /\ resumed[c] = resumed[d] /\ resumed[c] # NoSession) => c = d
=============================================================================
