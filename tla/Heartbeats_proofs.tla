------------------------- MODULE Heartbeats_proofs -------------------------
(***************************************************************************)
(* The scheduler and the daemon's life, for every set of agents and jobs,  *)
(* every threshold of the circuit breaker and every environment: the lock  *)
(* of an agent, the rows of its heartbeats, the file of the breaker and    *)
(* the crash detection.                                                    *)
(***************************************************************************)
EXTENDS Heartbeats, SequenceTheorems, TLAPS

(***************************************************************************)
(* The inductive invariant, in parts.                                      *)
(***************************************************************************)
Types ==
  /\ job \in [Jobs -> {"idle", "waiting"} \union Working]
  /\ lock \in [Agents -> [held : BOOLEAN, waiters : Seq(Jobs)]]
  /\ fails \in [Agents -> Nat]
  /\ file \in [whole : BOOLEAN, counts : [Agents -> Nat]]
  /\ row \in [Jobs -> {"none", "running", "completed", "failed"}]
  /\ missed \subseteq Jobs
  /\ daemon \in {"down", "starting", "up", "stopping", "draining"}
  /\ today \in {"none", "started", "stopped"}
  /\ sentinel \in BOOLEAN /\ born \in BOOLEAN
  /\ verdict \in {"none", "update", "crash", "clean"}
  /\ ended \in {"none", "runs", "asked", "killed"}

\* Whoever is on the list of a lock waits for it, and is on the list once.
Listed(l, a, at) ==
  \A k \in 1..Len(l) :
    /\ at[l[k]] = "waiting" /\ AgentOf[l[k]] = a
    /\ \A i \in 1..Len(l) : l[i] = l[k] => i = k

\* A job that takes no lock does not wait, and only a heartbeat delivers.
Queues ==
  /\ \A a \in Agents : Listed(lock[a].waiters, a, job)
  /\ \A j \in Jobs : /\ job[j] = "waiting" => KindOf[j] # "free"
                     /\ job[j] = "deliver" => Heartbeat(j)

\* The lock is held by the one job that works under it.
Holder == OneAtATime

\* No job outlives its process, and the rows tell who runs unless a write was missed.
Rows ==
  /\ daemon = "down" => \A j \in Jobs : job[j] = "idle"
  /\ RunningRowsRun

\* A file that was written to the end holds the counts of the breaker.
FileTells == file.whole => file.counts = fails

\* Today's log and the life of the daemon.
Log ==
  /\ daemon = "up" <=> ended = "runs"
  /\ daemon \in {"stopping", "draining"} => ended = "asked"
  /\ today = "started" => ended \in {"runs", "killed"}
  /\ ended \in {"runs", "killed"} /\ born => today = "started"

IInv == Types /\ Queues /\ Holder /\ Rows /\ FileTells /\ Log

-----------------------------------------------------------------------------
\* Initially every part holds.
LEMMA InitIInv == Init => IInv
<1>. SUFFICES ASSUME Init PROVE IInv
  OBVIOUS
<1>. USE HeartbeatsAssumption DEF Init
<1>1. Types
  <2>1. <<>> \in Seq(Jobs)
    OBVIOUS
  <2>. QED BY <2>1 DEF Types, Free, Zero
<1>2. Queues
  BY DEF Queues, Listed, Free
<1>3. Holder
  BY DEF Holder, OneAtATime, LockedWork, Working, Free
<1>4. Rows
  BY DEF Rows, RunningRowsRun
<1>5. FileTells /\ Log
  BY DEF FileTells, Log
<1>. QED BY <1>1, <1>2, <1>3, <1>4, <1>5 DEF IInv

\* Jobs do not move the daemon, its log or its sentinel.
LEMMA JobsLeaveTheDaemon ==
  ASSUME \/ \E j \in Jobs : Fires(j) \/ Ends(j)
         \/ \E a \in Agents : Wake(a)
  PROVE  UNCHANGED <<daemon, today, sentinel, verdict, ended, born>>
BY DEF Fires, FireHeartbeat, FireWatch, FireFree, Ends, BeatFails, BeatRaises,
       BeatSucceeds, BeatDelivered, WatchEnds, Wake

(***************************************************************************)
(* What a step may do to the jobs and the locks.                           *)
(***************************************************************************)
\* A lock is taken by a job that works from now on.
Takes(j, a, l) ==
  /\ ~lock[a].held
  /\ AgentOf[j] = a /\ KindOf[j] # "free"
  /\ job' = [job EXCEPT ![j] = "turn"]
  /\ lock' = [lock EXCEPT ![a] = [held |-> TRUE, waiters |-> l]]

Runs(j) == IF Heartbeat(j) THEN Created(j) ELSE UNCHANGED <<row, missed>>

\* An idle job finds the lock free and starts.
Enters(j) == /\ job[j] = "idle" /\ lock[AgentOf[j]].waiters = <<>>
             /\ Takes(j, AgentOf[j], <<>>) /\ Runs(j)

\* An idle job joins the list.
Joins(j) == /\ job[j] = "idle" /\ KindOf[j] # "free"
            /\ job' = [job EXCEPT ![j] = "waiting"]
            /\ lock' = [lock EXCEPT ![AgentOf[j]] =
                 [held |-> lock[AgentOf[j]].held,
                  waiters |-> Append(lock[AgentOf[j]].waiters, j)]]
            /\ UNCHANGED <<row, missed>>

\* The first of the list is served.
Served(a) == /\ lock[a].waiters # <<>>
             /\ Takes(Head(lock[a].waiters), a, Tail(lock[a].waiters))
             /\ Runs(Head(lock[a].waiters))

\* A job without a lock works or is done.
Unlocked(j) == /\ KindOf[j] = "free" /\ job[j] \in {"idle", "turn"}
               /\ \E w \in {"idle", "turn"} : job' = [job EXCEPT ![j] = w]
               /\ lock' = lock /\ UNCHANGED <<row, missed>>

\* A job is done and gives the lock back.
Leaves(j) == /\ job[j] \in Working /\ KindOf[j] # "free"
             /\ job' = [job EXCEPT ![j] = "idle"]
             /\ lock' = [lock EXCEPT ![AgentOf[j]] =
                  [held |-> FALSE, waiters |-> lock[AgentOf[j]].waiters]]
             /\ IF Heartbeat(j)
                THEN \E s \in {"completed", "failed"} : Updated(j, s)
                ELSE UNCHANGED <<row, missed>>

\* A heartbeat has its answer and delivers it.
Delivers(j) == /\ job[j] = "turn" /\ Heartbeat(j)
               /\ job' = [job EXCEPT ![j] = "deliver"]
               /\ lock' = lock /\ UNCHANGED <<row, missed>>

JobStep == \/ \E j \in Jobs : \/ Enters(j) \/ Joins(j) \/ Unlocked(j)
                              \/ Leaves(j) \/ Delivers(j)
           \/ \E a \in Agents : Served(a)

\* The daemon goes on, and the jobs with it; rows are swept before a start,
\* and what no sweep reached has missed a write.
DaemonStep ==
  /\ job' = job /\ lock' = lock
  /\ \/ /\ daemon = "down" /\ daemon' = "starting"
        /\ \E left \in SUBSET Jobs : /\ row' = Swept(row, left)
                                    /\ missed' = {j \in left : row[j] = "running"}
     \/ daemon' = daemon /\ UNCHANGED <<row, missed>>
     \/ daemon # "down" /\ daemon' # "down" /\ UNCHANGED <<row, missed>>

\* What a write may do to the rows.
LEMMA Writes ==
  ASSUME Types, NEW j \in Jobs,
         Created(j) \/ \E s \in {"completed", "failed"} : Updated(j, s)
  PROVE  /\ row' \in [Jobs -> {"none", "running", "completed", "failed"}]
         /\ missed' \subseteq Jobs
         /\ \A i \in Jobs : i # j => row'[i] = row[i] /\ (i \in missed' <=> i \in missed)
         /\ Created(j) => j \in missed' \/ row'[j] = "running"
         /\ ~Created(j) => j \in missed' \/ row'[j] # "running"
<1>1. CASE Created(j)
  BY <1>1 DEF Created, Types
<1>2. ASSUME NEW s \in {"completed", "failed"}, Updated(j, s)
      PROVE  /\ row' \in [Jobs -> {"none", "running", "completed", "failed"}]
             /\ missed' \subseteq Jobs
             /\ \A i \in Jobs : i # j => row'[i] = row[i] /\ (i \in missed' <=> i \in missed)
             /\ j \in missed' \/ row'[j] # "running"
  BY <1>2 DEF Updated, Types
<1>3. Created(j) => j \in missed' \/ row'[j] = "running"
  BY DEF Created, Types
<1>. QED BY <1>1, <1>2, <1>3

\* What an update of one field of a lock's record leaves alone.
LEMMA RecordUpdates ==
  ASSUME NEW W, NEW r \in [held : BOOLEAN, waiters : W], NEW x
  PROVE  /\ [r EXCEPT !.held = x] = [held |-> x, waiters |-> r.waiters]
         /\ [r EXCEPT !.waiters = x] = [held |-> r.held, waiters |-> x]
BY SMT

\* Every step runs the jobs of a daemon that is not down, moves the daemon, or
\* ends the process.
LEMMA Steps ==
  ASSUME Types, Queues, Rows, [Next]_vars
  PROVE  \/ JobStep /\ daemon # "down" /\ daemon' = daemon
         \/ DaemonStep
         \/ Lost /\ UNCHANGED <<row, missed>>
<1>. USE HeartbeatsAssumption
<1>l. ASSUME NEW a \in Agents
      PROVE  /\ lock[a] = [held |-> lock[a].held, waiters |-> lock[a].waiters]
             /\ [lock EXCEPT ![a].held = TRUE]
                  = [lock EXCEPT ![a] = [held |-> TRUE, waiters |-> lock[a].waiters]]
             /\ [lock EXCEPT ![a].held = FALSE]
                  = [lock EXCEPT ![a] = [held |-> FALSE, waiters |-> lock[a].waiters]]
             /\ \A j : [lock EXCEPT ![a].waiters = Append(@, j)]
                  = [lock EXCEPT ![a] = [held |-> lock[a].held,
                                         waiters |-> Append(lock[a].waiters, j)]]
  <2>1. lock[a] = [held |-> lock[a].held, waiters |-> lock[a].waiters]
    BY DEF Types
  <2>2. lock[a] \in [held : BOOLEAN, waiters : Seq(Jobs)]
    BY DEF Types
  <2>3. [lock[a] EXCEPT !.held = TRUE] = [held |-> TRUE, waiters |-> lock[a].waiters]
    BY <2>2, RecordUpdates
  <2>4. [lock[a] EXCEPT !.held = FALSE] = [held |-> FALSE, waiters |-> lock[a].waiters]
    BY <2>2, RecordUpdates
  <2>5. ASSUME NEW u
        PROVE  [lock[a] EXCEPT !.waiters = u] = [held |-> lock[a].held, waiters |-> u]
    BY <2>2, RecordUpdates
  <2>. QED BY <2>1, <2>3, <2>4, <2>5
<1>a. ASSUME NEW j \in Jobs, job[j] = "idle", KindOf[j] # "free", Acquire(j)
      PROVE  Enters(j) \/ Joins(j)
  <2>1. AgentOf[j] \in Agents
    OBVIOUS
  <2>2. CASE ~lock[AgentOf[j]].held /\ lock[AgentOf[j]].waiters = <<>>
    BY <1>a, <1>l, <2>1, <2>2 DEF Acquire, Begins, Enters, Takes, Runs
  <2>3. CASE ~(~lock[AgentOf[j]].held /\ lock[AgentOf[j]].waiters = <<>>)
    BY <1>a, <1>l, <2>1, <2>3 DEF Acquire, Joins
  <2>. QED BY <2>2, <2>3
<1>d. \A j \in Jobs : job[j] # "idle" => daemon # "down"
  BY DEF Rows
<1>r. ASSUME NEW j \in Jobs
      PROVE  AgentOf[j] \in Agents /\ Release(j) = [lock EXCEPT ![AgentOf[j]] =
               [held |-> FALSE, waiters |-> lock[AgentOf[j]].waiters]]
  BY <1>l DEF Release
<1>1. ASSUME NEW j \in Jobs, FireHeartbeat(j) PROVE JobStep /\ daemon # "down" /\ daemon' = daemon
  BY <1>1, <1>a DEF FireHeartbeat, Heartbeat, Scheduling, JobStep
<1>2. ASSUME NEW j \in Jobs, FireWatch(j) PROVE JobStep /\ daemon # "down" /\ daemon' = daemon
  BY <1>2, <1>a DEF FireWatch, Scheduling, JobStep
<1>3. ASSUME NEW j \in Jobs, FireFree(j) PROVE JobStep /\ daemon # "down" /\ daemon' = daemon
  BY <1>3 DEF FireFree, Begins, Heartbeat, Scheduling, JobStep, Unlocked
<1>4. ASSUME NEW j \in Jobs, BeatFails(j) PROVE JobStep /\ daemon # "down" /\ daemon' = daemon
  <2>1. Leaves(j)
    BY <1>4, <1>r DEF BeatFails, Leaves, Heartbeat, Working
  <2>. QED BY <1>4, <1>d, <2>1 DEF BeatFails, JobStep
<1>5. ASSUME NEW j \in Jobs, BeatRaises(j) PROVE JobStep /\ daemon # "down" /\ daemon' = daemon
  <2>1. Leaves(j)
    BY <1>5, <1>r DEF BeatRaises, Leaves, Heartbeat
  <2>. QED BY <1>5, <1>d, <2>1 DEF BeatRaises, JobStep, Working
<1>6. ASSUME NEW j \in Jobs, BeatSucceeds(j) PROVE JobStep /\ daemon # "down" /\ daemon' = daemon
  BY <1>6, <1>d DEF BeatSucceeds, Delivers, JobStep
<1>7. ASSUME NEW j \in Jobs, BeatDelivered(j) PROVE JobStep /\ daemon # "down" /\ daemon' = daemon
  <2>1. Leaves(j)
    BY <1>7, <1>r DEF BeatDelivered, Leaves, Heartbeat, Working, Queues
  <2>. QED BY <1>7, <1>d, <2>1 DEF BeatDelivered, JobStep
<1>8. ASSUME NEW j \in Jobs, WatchEnds(j) PROVE JobStep /\ daemon # "down" /\ daemon' = daemon
  <2>1. Leaves(j) \/ Unlocked(j)
    BY <1>8, <1>r DEF WatchEnds, Leaves, Unlocked, Heartbeat, Working
  <2>. QED BY <1>8, <1>d, <2>1 DEF WatchEnds, JobStep
<1>9. ASSUME NEW a \in Agents, Wake(a) PROVE JobStep /\ daemon # "down" /\ daemon' = daemon
  <2>1. lock[a].waiters \in Seq(Jobs) /\ lock[a].waiters # <<>>
    BY <1>9 DEF Wake, Types
  <2>2. Len(lock[a].waiters) > 0 /\ Head(lock[a].waiters) = lock[a].waiters[1]
    BY <2>1, HeadTailProperties
  <2>3. AgentOf[Head(lock[a].waiters)] = a /\ KindOf[Head(lock[a].waiters)] # "free"
    BY <2>1, <2>2, HeadTailProperties DEF Queues, Listed
  <2>4. Served(a)
    BY <1>9, <2>3 DEF Wake, Served, Takes, Runs, Begins
  <2>. QED BY <1>9, <2>4 DEF Wake, JobStep
<1>10. ASSUME Boots \/ Started \/ Stop \/ SchedulerStops \/ UpdateBegins \/ Midnight
       PROVE  DaemonStep
  BY <1>10 DEF Boots, Started, Stop, SchedulerStops, UpdateBegins, Midnight, DaemonStep
<1>11. ASSUME Exits \/ Killed \/ \E j \in Jobs : KilledSaving(j)
       PROVE  Lost /\ UNCHANGED <<row, missed>>
  BY <1>11 DEF Exits, Killed, KilledSaving
<1>12. ASSUME UNCHANGED vars PROVE DaemonStep
  BY <1>12 DEF vars, DaemonStep
<1>. QED
  BY <1>1, <1>2, <1>3, <1>4, <1>5, <1>6, <1>7, <1>8, <1>9, <1>10, <1>11, <1>12
  DEF Next, Fires, Ends

-----------------------------------------------------------------------------
\* Every step keeps the types.
LEMMA TypesNext ==
  ASSUME Types, Queues, Rows, [Next]_vars
  PROVE  Types'
<1>. USE HeartbeatsAssumption
<1>1. /\ job' \in [Jobs -> {"idle", "waiting"} \union Working]
      /\ lock' \in [Agents -> [held : BOOLEAN, waiters : Seq(Jobs)]]
      /\ row' \in [Jobs -> {"none", "running", "completed", "failed"}]
      /\ missed' \subseteq Jobs
  <2>. DEFINE L == [held : BOOLEAN, waiters : Seq(Jobs)]
  <2>1. /\ job \in [Jobs -> {"idle", "waiting"} \union Working]
        /\ lock \in [Agents -> L]
        /\ row \in [Jobs -> {"none", "running", "completed", "failed"}] /\ missed \subseteq Jobs
        /\ \A a \in Agents : lock[a].held \in BOOLEAN /\ lock[a].waiters \in Seq(Jobs)
    BY DEF Types
  <2>2. ASSUME NEW l \in Seq(Jobs), NEW h \in BOOLEAN
        PROVE  [held |-> h, waiters |-> l] \in L
    OBVIOUS
  <2>. HIDE DEF L
  <2>3. ASSUME NEW a \in Agents, NEW l \in Seq(Jobs), NEW h \in BOOLEAN
        PROVE  [lock EXCEPT ![a] = [held |-> h, waiters |-> l]] \in [Agents -> L]
    BY <2>1, <2>2
  <2>4. ASSUME NEW j \in Jobs, NEW s \in {"idle", "waiting", "turn", "deliver"}
        PROVE  [job EXCEPT ![j] = s] \in [Jobs -> {"idle", "waiting"} \union Working]
    BY <2>1 DEF Working
  <2>5. ASSUME NEW j \in Jobs,
               \/ Runs(j)
               \/ UNCHANGED <<row, missed>>
               \/ \E s \in {"completed", "failed"} : Updated(j, s)
        PROVE  row' \in [Jobs -> {"none", "running", "completed", "failed"}] /\ missed' \subseteq Jobs
    BY <2>1, <2>5, Writes DEF Runs
  <2>6. <<>> \in Seq(Jobs) /\ AgentOf \in [Jobs -> Agents] /\ TRUE \in BOOLEAN /\ FALSE \in BOOLEAN
    OBVIOUS
  <2>7. ASSUME NEW j \in Jobs, Enters(j) \/ Unlocked(j) \/ Delivers(j) \/ Leaves(j)
        PROVE  /\ job' \in [Jobs -> {"idle", "waiting"} \union Working]
               /\ lock' \in [Agents -> L]
               /\ row' \in [Jobs -> {"none", "running", "completed", "failed"}]
               /\ missed' \subseteq Jobs
    <3>1. AgentOf[j] \in Agents
      OBVIOUS
    <3>2. CASE Enters(j)
      <4>1. lock' \in [Agents -> L]
        BY <2>3, <2>6, <3>1, <3>2, Zenon DEF Enters, Takes
      <4>. QED BY <2>1, <2>4, <2>5, <3>2, <4>1 DEF Enters, Takes
    <3>3. CASE Unlocked(j) \/ Delivers(j)
      <4>1. job' \in [Jobs -> {"idle", "waiting"} \union Working] /\ lock' = lock
        BY <2>4, <3>3 DEF Unlocked, Delivers
      <4>2. UNCHANGED <<row, missed>>
        BY <3>3 DEF Unlocked, Delivers
      <4>. QED BY <2>1, <2>5, <4>1, <4>2
    <3>4. CASE Leaves(j)
      <4>1. lock' \in [Agents -> L]
        BY <2>1, <2>3, <2>6, <3>1, <3>4, Zenon DEF Leaves
      <4>2. row' \in [Jobs -> {"none", "running", "completed", "failed"}] /\ missed' \subseteq Jobs
        BY <2>1, <2>5, <3>4 DEF Leaves
      <4>. QED BY <2>4, <3>4, <4>1, <4>2 DEF Leaves
    <3>. QED BY <2>7, <3>2, <3>3, <3>4
  <2>8. ASSUME NEW j \in Jobs, Joins(j)
        PROVE  /\ job' \in [Jobs -> {"idle", "waiting"} \union Working]
               /\ lock' \in [Agents -> L]
               /\ row' \in [Jobs -> {"none", "running", "completed", "failed"}]
               /\ missed' \subseteq Jobs
    <3>1. AgentOf[j] \in Agents
      OBVIOUS
    <3>2. Append(lock[AgentOf[j]].waiters, j) \in Seq(Jobs)
      BY <2>1, <3>1
    <3>. QED BY <2>1, <2>3, <2>4, <2>8, <3>1, <3>2, Zenon DEF Joins
  <2>9. ASSUME NEW a \in Agents, Served(a)
        PROVE  /\ job' \in [Jobs -> {"idle", "waiting"} \union Working]
               /\ lock' \in [Agents -> L]
               /\ row' \in [Jobs -> {"none", "running", "completed", "failed"}]
               /\ missed' \subseteq Jobs
    <3>1. Head(lock[a].waiters) \in Jobs /\ Tail(lock[a].waiters) \in Seq(Jobs)
      BY <2>1, <2>9, HeadTailProperties DEF Served
    <3>2. lock' \in [Agents -> L]
      BY <2>3, <2>6, <2>9, <3>1, Zenon DEF Served, Takes
    <3>. QED BY <2>1, <2>4, <2>5, <2>9, <3>1, <3>2 DEF Served, Takes
  <2>10. ASSUME Lost
         PROVE  /\ job' \in [Jobs -> {"idle", "waiting"} \union Working]
                /\ lock' \in [Agents -> L]
    BY <2>2, <2>6, <2>10 DEF Lost, Free
  <2>11. ASSUME NEW left \in SUBSET Jobs
         PROVE  Swept(row, left) \in [Jobs -> {"none", "running", "completed", "failed"}]
    BY <2>1 DEF Swept, Sweep
  <2>12. /\ job' \in [Jobs -> {"idle", "waiting"} \union Working]
         /\ lock' \in [Agents -> L]
         /\ row' \in [Jobs -> {"none", "running", "completed", "failed"}] /\ missed' \subseteq Jobs
    BY <2>1, <2>7, <2>8, <2>9, <2>10, <2>11, Steps DEF JobStep, DaemonStep
  <2>. QED BY <2>12 DEF L
<1>2. fails' \in [Agents -> Nat] /\ file' \in [whole : BOOLEAN, counts : [Agents -> Nat]]
  <2>. DEFINE F == [Agents -> Nat]
  <2>1. fails \in F /\ file \in [whole : BOOLEAN, counts : F]
    BY DEF Types
  <2>2. \A f \in F : Save(f) \in [whole : BOOLEAN, counts : F]
    BY DEF Save
  <2>3. /\ \A a \in Agents : /\ [fails EXCEPT ![a] = fails[a] + 1] \in F
                            /\ [fails EXCEPT ![a] = 0] \in F
        /\ Zero \in F
    BY <2>1 DEF Zero
  <2>4. [file EXCEPT !.whole = FALSE] \in [whole : BOOLEAN, counts : F]
    BY <2>1
  <2>5. ASSUME NEW j \in Jobs, BeatFails(j) \/ BeatSucceeds(j)
        PROVE  fails' \in F /\ file' \in [whole : BOOLEAN, counts : F]
    <3>1. AgentOf[j] \in Agents
      OBVIOUS
    <3>2. CASE BeatFails(j)
      <4>. HIDE DEF F
      <4>. QED BY <2>2, <2>3, <3>1, <3>2 DEF BeatFails
    <3>3. CASE BeatSucceeds(j)
      <4>. HIDE DEF F
      <4>1. fails' \in F
        BY <2>3, <3>1, <3>3 DEF BeatSucceeds
      <4>2. file' = file \/ file' = Save(fails')
        BY <3>3 DEF BeatSucceeds
      <4>. QED BY <2>1, <2>2, <4>1, <4>2
    <3>. QED BY <2>5, <3>2, <3>3
  <2>6. file.counts \in F
    BY <2>1
  <2>7. fails' = fails /\ file' = file => fails' \in F /\ file' \in [whole : BOOLEAN, counts : F]
    BY <2>1
  <2>. HIDE DEF F
  <2>8. fails' \in F /\ file' \in [whole : BOOLEAN, counts : F]
    BY <2>1, <2>3, <2>4, <2>5, <2>6, <2>7
    DEF Next, Fires, FireHeartbeat, FireWatch, FireFree, Ends, BeatRaises, BeatDelivered,
        WatchEnds, Wake, Boots, Started, Stop, SchedulerStops, Exits, Killed, KilledSaving,
        UpdateBegins, Midnight, vars
  <2>. QED BY <2>8 DEF F
<1>3. /\ daemon' \in {"down", "starting", "up", "stopping", "draining"}
      /\ today' \in {"none", "started", "stopped"}
      /\ sentinel' \in BOOLEAN /\ born' \in BOOLEAN
      /\ verdict' \in {"none", "update", "crash", "clean"}
      /\ ended' \in {"none", "runs", "asked", "killed"}
  <2>1. ASSUME \/ \E j \in Jobs : Fires(j) \/ Ends(j)
               \/ \E a \in Agents : Wake(a)
        PROVE  UNCHANGED <<daemon, today, sentinel, verdict, ended, born>>
    BY <2>1, JobsLeaveTheDaemon
  <2>2. CASE Boots \/ Started \/ Stop \/ SchedulerStops \/ UpdateBegins \/ Midnight
    BY <2>2 DEF Types, Boots, Started, Stop, SchedulerStops, UpdateBegins, Midnight
  <2>3. CASE Exits \/ Killed \/ \E j \in Jobs : KilledSaving(j)
    BY <2>3 DEF Types, Exits, Killed, KilledSaving, Lost
  <2>. QED BY <2>1, <2>2, <2>3 DEF Types, Next, vars
<1>. QED BY <1>1, <1>2, <1>3 DEF Types

(***************************************************************************)
(* The lists.                                                              *)
(***************************************************************************)
\* A list stays one when a job that is not on it moves.
LEMMA OthersMove ==
  ASSUME NEW a, NEW l \in Seq(Jobs), NEW S, NEW at \in [Jobs -> S], Listed(l, a, at),
         NEW j \in Jobs, at[j] # "waiting" \/ AgentOf[j] # a, NEW s
  PROVE  Listed(l, a, [at EXCEPT ![j] = s])
<1>1. \A k \in 1..Len(l) : l[k] \in Jobs /\ l[k] # j
  BY DEF Listed
<1>. QED BY <1>1 DEF Listed

\* A job of the agent that did not wait may be put at the end.
LEMMA AppendListed ==
  ASSUME NEW a, NEW l \in Seq(Jobs), NEW S, NEW at \in [Jobs -> S], NEW j \in Jobs,
         Listed(l, a, at), AgentOf[j] = a, at[j] # "waiting"
  PROVE  Listed(Append(l, j), a, [at EXCEPT ![j] = "waiting"])
<1>1. /\ Len(Append(l, j)) = Len(l) + 1 /\ Append(l, j)[Len(l) + 1] = j
      /\ \A k \in 1..Len(l) : Append(l, j)[k] = l[k] /\ l[k] \in Jobs /\ l[k] # j
  BY DEF Listed
<1>. QED BY <1>1 DEF Listed

\* The first may be taken off and go.
LEMMA TailListed ==
  ASSUME NEW a, NEW l \in Seq(Jobs), l # <<>>, NEW S, NEW at \in [Jobs -> S], NEW s,
         Listed(l, a, at)
  PROVE  Listed(Tail(l), a, [at EXCEPT ![Head(l)] = s])
<1>1. /\ Len(Tail(l)) = Len(l) - 1 /\ Head(l) = l[1] /\ Len(l) \in Nat \ {0}
      /\ \A k \in 1..Len(l) - 1 : Tail(l)[k] = l[k + 1]
      /\ \A k \in 1..Len(l) : l[k] \in Jobs
  BY HeadTailProperties
<1>2. ASSUME NEW k \in 1..Len(l) - 1
      PROVE  k + 1 \in 1..Len(l) /\ l[k + 1] # l[1]
  BY <1>1 DEF Listed
<1>. QED BY <1>1, <1>2 DEF Listed

\* Every step keeps the lists.
LEMMA QueuesNext ==
  ASSUME Types, Queues, Rows, Types', [Next]_vars
  PROVE  Queues'
<1>. USE HeartbeatsAssumption
<1>. DEFINE At == {"idle", "waiting"} \union Working
<1>j. job \in [Jobs -> At] /\ \A a \in Agents : lock[a].waiters \in Seq(Jobs)
  BY DEF Types
<1>q. \A a \in Agents : Listed(lock[a].waiters, a, job)
  BY DEF Queues
<1>1. ASSUME NEW j \in Jobs, NEW s \in {"idle", "turn", "deliver"},
             job[j] # "waiting", job' = [job EXCEPT ![j] = s],
             s = "deliver" => Heartbeat(j),
             \A a \in Agents : lock'[a].waiters = lock[a].waiters
      PROVE  Queues'
  <2>1. ASSUME NEW a \in Agents
        PROVE  Listed(lock[a].waiters, a, job')
    BY <1>1, <1>j, <1>q, OthersMove
  <2>. QED BY <1>1, <2>1 DEF Queues, Types, Heartbeat
<1>2. ASSUME NEW j \in Jobs, Joins(j)
      PROVE  Queues'
  <2>1. AgentOf[j] \in Agents
    OBVIOUS
  <2>2. Listed(lock'[AgentOf[j]].waiters, AgentOf[j], job')
    BY <1>2, <1>j, <1>q, <2>1, AppendListed DEF Joins, Types
  <2>3. ASSUME NEW a \in Agents, a # AgentOf[j]
        PROVE  Listed(lock'[a].waiters, a, job')
    BY <1>2, <1>j, <1>q, <2>3, OthersMove DEF Joins, Types
  <2>. QED BY <1>2, <2>2, <2>3 DEF Joins, Queues, Types, Heartbeat
<1>3. ASSUME NEW a \in Agents, Served(a)
      PROVE  Queues'
  <2>1. Head(lock[a].waiters) \in Jobs
    BY <1>3, <1>j DEF Served
  <2>2. Listed(lock'[a].waiters, a, job')
    BY <1>3, <1>j, <1>q, TailListed DEF Served, Takes, Types
  <2>3. ASSUME NEW b \in Agents, b # a
        PROVE  Listed(lock'[b].waiters, b, job')
    BY <1>3, <1>j, <1>q, <2>1, <2>3, OthersMove DEF Served, Takes, Types
  <2>. QED BY <1>3, <2>1, <2>2, <2>3 DEF Served, Takes, Queues, Types, Heartbeat
<1>4. ASSUME JobStep
      PROVE  Queues'
  <2>1. ASSUME NEW j \in Jobs, Enters(j)
        PROVE  Queues'
    BY <1>1, <2>1 DEF Enters, Takes, Types
  <2>2. ASSUME NEW j \in Jobs, Unlocked(j)
        PROVE  Queues'
    BY <1>1, <2>2 DEF Unlocked
  <2>3. ASSUME NEW j \in Jobs, Leaves(j)
        PROVE  Queues'
    BY <1>1, <2>3 DEF Leaves, Working, Types
  <2>4. ASSUME NEW j \in Jobs, Delivers(j)
        PROVE  Queues'
    BY <1>1, <2>4 DEF Delivers
  <2>. QED BY <1>2, <1>3, <1>4, <2>1, <2>2, <2>3, <2>4 DEF JobStep
<1>5. ASSUME DaemonStep
      PROVE  Queues'
  BY <1>5 DEF DaemonStep, Queues, Heartbeat
<1>6. ASSUME Lost
      PROVE  Queues'
  BY <1>6 DEF Lost, Queues, Listed, Free, Heartbeat
<1>. QED BY <1>4, <1>5, <1>6, Steps

(***************************************************************************)
(* The lock, the rows, the file and the log.                               *)
(***************************************************************************)
\* A lock is free when nobody works under it, so that who takes it is alone;
\* and who leaves it was.
LEMMA HolderNext ==
  ASSUME Types, Queues, Holder, Rows, [Next]_vars
  PROVE  Holder'
<1>. USE HeartbeatsAssumption DEF Holder, OneAtATime, LockedWork, Working
<1>t. job \in [Jobs -> {"idle", "waiting", "turn", "deliver"}] /\ DOMAIN lock = Agents
  BY DEF Types
<1>1. ASSUME NEW j \in Jobs, NEW a \in Agents, NEW l, Takes(j, a, l)
      PROVE  Holder'
  <2>1. ASSUME NEW b \in Agents, b # a
        PROVE  LockedWork(b)' = LockedWork(b) /\ lock'[b] = lock[b]
    BY <1>t, <1>1, <2>1 DEF Takes
  <2>2. LockedWork(a)' = {j} /\ lock'[a].held
    BY <1>t, <1>1 DEF Takes
  <2>. QED BY <2>1, <2>2
<1>2. ASSUME NEW j \in Jobs, Leaves(j)
      PROVE  Holder'
  <2>. DEFINE a == AgentOf[j]
  <2>1. a \in Agents /\ j \in LockedWork(a)
    BY <1>2 DEF Leaves
  <2>2. ASSUME NEW b \in Agents, b # a
        PROVE  LockedWork(b)' = LockedWork(b) /\ lock'[b] = lock[b]
    BY <1>t, <1>2, <2>1, <2>2 DEF Leaves
  <2>3. LockedWork(a)' = {} /\ ~lock'[a].held
    BY <1>t, <1>2, <2>1 DEF Leaves
  <2>. QED BY <2>1, <2>2, <2>3
<1>3. ASSUME \A a \in Agents : LockedWork(a)' = LockedWork(a) /\ lock'[a].held = lock[a].held
      PROVE  Holder'
  BY <1>3
<1>4. ASSUME NEW j \in Jobs, Joins(j)
      PROVE  Holder'
  BY <1>t, <1>3, <1>4 DEF Joins
<1>5. ASSUME NEW j \in Jobs, Unlocked(j) \/ Delivers(j)
      PROVE  Holder'
  BY <1>t, <1>3, <1>5 DEF Unlocked, Delivers
<1>6. ASSUME NEW j \in Jobs, Enters(j)
      PROVE  Holder'
  BY <1>1, <1>6 DEF Enters
<1>7. ASSUME NEW a \in Agents, Served(a)
      PROVE  Holder'
  <2>1. Head(lock[a].waiters) \in Jobs
    BY <1>7, HeadTailProperties DEF Served, Types
  <2>. QED BY <1>1, <1>7, <2>1 DEF Served
<1>8. ASSUME DaemonStep
      PROVE  Holder'
  BY <1>8 DEF DaemonStep
<1>9. ASSUME Lost
      PROVE  Holder'
  BY <1>9 DEF Lost, Free
<1>. QED BY <1>2, <1>4, <1>5, <1>6, <1>7, <1>8, <1>9, Steps DEF JobStep

\* A row is written with the job it is about, and swept before a start.
LEMMA RowsNext ==
  ASSUME Types, Queues, Rows, [Next]_vars
  PROVE  Rows'
<1>. USE DEF Rows, RunningRowsRun, Working, Heartbeat
<1>t. /\ job \in [Jobs -> {"idle", "waiting", "turn", "deliver"}]
      /\ row \in [Jobs -> {"none", "running", "completed", "failed"}] /\ missed \subseteq Jobs
  BY DEF Types
<1>1. ASSUME NEW j \in Jobs, daemon # "down", daemon' = daemon,
             Enters(j) \/ Joins(j) \/ Unlocked(j) \/ Delivers(j) \/ Leaves(j)
      PROVE  Rows'
  <2>1. CASE Enters(j)
    BY <1>t, <1>1, <2>1, Writes DEF Enters, Takes, Runs
  <2>2. CASE Joins(j) \/ Unlocked(j)
    BY <1>t, <1>1, <2>2 DEF Joins, Unlocked
  <2>3. CASE Delivers(j)
    BY <1>t, <1>1, <2>3 DEF Delivers
  <2>4. CASE Leaves(j)
    <3>1. ASSUME NEW s \in {"completed", "failed"}, Updated(j, s), Heartbeat(j)
          PROVE  Rows'
      <4>1. job'[j] = "idle" /\ \A i \in Jobs : i # j => job'[i] = job[i]
        BY <1>t, <2>4 DEF Leaves
      <4>2. j \in missed' \/ row'[j] # "running"
        BY <1>t, <3>1 DEF Updated
      <4>3. \A i \in Jobs : i # j => row'[i] = row[i] /\ (i \in missed' <=> i \in missed)
        BY <3>1, Writes
      <4>. QED BY <1>1, <4>1, <4>2, <4>3
    <3>. QED BY <1>t, <1>1, <2>4, <3>1 DEF Leaves
  <2>. QED BY <1>1, <2>1, <2>2, <2>3, <2>4
<1>2. ASSUME NEW a \in Agents, Served(a), daemon # "down", daemon' = daemon
      PROVE  Rows'
  <2>1. Head(lock[a].waiters) \in Jobs
    BY <1>2, HeadTailProperties DEF Served, Types
  <2>. QED BY <1>t, <1>2, <2>1, Writes DEF Served, Takes, Runs
<1>3. ASSUME DaemonStep
      PROVE  Rows'
  BY <1>t, <1>3 DEF DaemonStep, Swept, Sweep
<1>4. ASSUME Lost
      PROVE  Rows'
  BY <1>4 DEF Lost
<1>. QED BY <1>1, <1>2, <1>3, <1>4, Steps DEF JobStep

\* Every count that changes is saved, unless it was zero and is dropped.
LEMMA FileNext ==
  ASSUME Types, FileTells, [Next]_vars
  PROVE  FileTells'
<1>. USE HeartbeatsAssumption DEF FileTells
<1>1. ASSUME NEW j \in Jobs, BeatFails(j)
      PROVE  FileTells'
  BY <1>1 DEF BeatFails, Save
<1>2. ASSUME NEW j \in Jobs, BeatSucceeds(j)
      PROVE  FileTells'
  <2>1. AgentOf[j] \in Agents /\ fails \in [Agents -> Nat]
    BY DEF Types
  <2>2. ~(fails[AgentOf[j]] > 0) => [fails EXCEPT ![AgentOf[j]] = 0] = fails
    BY <2>1
  <2>. QED BY <1>2, <2>2 DEF BeatSucceeds, Save
<1>3. ASSUME NEW j \in Jobs, KilledSaving(j)
      PROVE  FileTells'
  BY <1>3 DEF KilledSaving, Types
<1>. QED
  BY <1>1, <1>2, <1>3
  DEF Next, Fires, FireHeartbeat, FireWatch, FireFree, Ends, BeatRaises, BeatDelivered,
      WatchEnds, Wake, Boots, Started, Stop, SchedulerStops, Exits, Killed, UpdateBegins,
      Midnight, vars

\* The daemon that is up has marked the log, and only a stop marks it again.
LEMMA LogNext ==
  ASSUME Types, Log, [Next]_vars
  PROVE  Log'
<1>1. ASSUME \/ \E j \in Jobs : Fires(j) \/ Ends(j)
             \/ \E a \in Agents : Wake(a)
      PROVE  Log'
  BY <1>1, JobsLeaveTheDaemon DEF Log
<1>2. CASE Boots \/ Started \/ Stop \/ SchedulerStops \/ UpdateBegins \/ Midnight
  BY <1>2 DEF Types, Log, Boots, Started, Stop, SchedulerStops, UpdateBegins, Midnight
<1>3. CASE Exits \/ Killed \/ \E j \in Jobs : KilledSaving(j)
  BY <1>3 DEF Types, Log, Exits, Killed, KilledSaving, Lost
<1>. QED BY <1>1, <1>2, <1>3 DEF Log, Next, vars

\* The invariant is inductive.
LEMMA IInvNext ==
  ASSUME IInv, [Next]_vars
  PROVE  IInv'
BY TypesNext, QueuesNext, HolderNext, RowsNext, FileNext, LogNext DEF IInv

\* It holds in every reachable state.
LEMMA Invariance == Spec => []IInv
<1>. QED BY InitIInv, IInvNext, PTL DEF Spec

-----------------------------------------------------------------------------
(***************************************************************************)
(* The results.                                                            *)
(***************************************************************************)
\* Every variable has its type, and whoever is on a lock's list waits for it.
THEOREM TypeCorrect == Spec => []TypeOK
<1>1. IInv => TypeOK
  <2>. SUFFICES ASSUME IInv PROVE TypeOK
    OBVIOUS
  <2>1. ASSUME NEW a \in Agents
        PROVE  /\ lock[a].held \in BOOLEAN
               /\ lock[a].waiters \in Seq({j \in Jobs : job[j] = "waiting" /\ AgentOf[j] = a})
    <3>1. lock[a].held \in BOOLEAN /\ lock[a].waiters \in Seq(Jobs)
      BY DEF IInv, Types
    <3>2. \A k \in 1..Len(lock[a].waiters) :
            lock[a].waiters[k] \in {j \in Jobs : job[j] = "waiting" /\ AgentOf[j] = a}
      BY <3>1 DEF IInv, Queues, Listed
    <3>. QED BY <3>1, <3>2, SeqDef
  <2>. QED BY <2>1 DEF TypeOK, IInv, Types
<1>. QED BY <1>1, Invariance, PTL

\* Heartbeats and watches of one agent never overlap, also in the moment
\* between a release and the turn of the next waiter, and the lock is held
\* exactly when one of them works (the per-agent lock of scheduler/engine.py).
THEOREM AgentsWorkAlone == Spec => []OneAtATime
<1>1. IInv => OneAtATime
  BY DEF IInv, Holder
<1>. QED BY <1>1, Invariance, PTL

\* While the daemon runs, the rows that say "running" are those of the
\* heartbeats that run, whatever kill or cancellation came before, for every
\* job of whose row no write was missed (scheduler/engine.py:418, 442, 498, 508).
THEOREM RowsTellWhoRuns == Spec => []RunningRowsRun
<1>1. IInv => RunningRowsRun
  BY DEF IInv, Rows
<1>. QED BY <1>1, Invariance, PTL

\* What the breaker counted survives every restart, unless the write of its
\* file was cut off (README.md:1265).
THEOREM BreakerSurvives == Spec => PausedStaysPaused
<1>1. ASSUME IInv, [Next]_vars
      PROVE  [daemon = "down" /\ daemon' = "starting" /\ file.whole => fails' = fails]_vars
  <2>. SUFFICES ASSUME daemon = "down", daemon' = "starting", file.whole
                PROVE  fails' = fails
    OBVIOUS
  <2>1. Boots
    BY <1>1, JobsLeaveTheDaemon
    DEF Next, Started, Stop, SchedulerStops, Exits, Killed, KilledSaving, Lost,
        UpdateBegins, Midnight, vars
  <2>. QED BY <1>1, <2>1 DEF Boots, IInv, FileTells
<1>. QED BY <1>1, Invariance, PTL DEF Spec, PausedStaysPaused

\* The crash detection accuses nobody who was asked to stop and had marked the
\* log, and notices every kill on the day of the start that no update accounts
\* for (_detect_crash_restart).
THEOREM CrashDetection == Spec => CrashVerdict
<1>1. ASSUME IInv, [Next]_vars
      PROVE  [daemon = "starting" /\ daemon' = "up" =>
                /\ verdict' = "crash" => ended = "killed"
                /\ ended = "killed" /\ born /\ ~sentinel => verdict' = "crash"]_vars
  <2>. SUFFICES ASSUME daemon = "starting", daemon' = "up"
                PROVE  /\ verdict' = "crash" => ended = "killed"
                       /\ ended = "killed" /\ born /\ ~sentinel => verdict' = "crash"
    OBVIOUS
  <2>1. Started
    BY <1>1, JobsLeaveTheDaemon
    DEF Next, Boots, Stop, SchedulerStops, Exits, Killed, KilledSaving, Lost,
        UpdateBegins, Midnight, vars
  <2>. QED BY <1>1, <2>1 DEF Started, IInv, Log
<1>. QED BY <1>1, Invariance, PTL DEF Spec, CrashVerdict
=============================================================================
