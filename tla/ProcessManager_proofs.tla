----------------------- MODULE ProcessManager_proofs -----------------------
(***************************************************************************)
(* The process pool, for every set of calls and sessions, every number of  *)
(* permits and locks and every length of the fallback chain: its permits,  *)
(* its session locks and its table of processes.  At the end, the files    *)
(* that its sessions get their prompts from (Workspaces).                  *)
(***************************************************************************)
EXTENDS ProcessManager, Workspaces, FiniteSetTheorems, TLAPS

(***************************************************************************)
(* The inductive invariant, in parts.                                      *)
(***************************************************************************)
Types ==
  /\ pc \in [Calls -> Places]
  /\ sess \in [Calls -> Sessions \cup {NoSession}]
  /\ resumed \in [Calls -> Sessions \cup {NoSession}]
  /\ attempt \in [Calls -> 0..MaxAttempts]
  /\ os \in [Calls -> {"none", "running", "exited"}]
  /\ permits \in Nat
  /\ semQueue \in Seq(Sends)
  /\ locks \subseteq Sessions
  /\ holder \in [Sessions -> Sends \cup {None}]
  /\ active \in [Keys -> Calls \cup {None}]
  /\ confirmed \subseteq Sessions
  /\ drain \in {"off", "closing", "waiting", "done", "updating"}
  /\ procs \subseteq Calls

\* Whoever is in the semaphore's queue waits there, and is in it once.
Queued(q, at) ==
  \A i \in 1..Len(q) : /\ at[q[i]] = "queued"
                       /\ \A j \in 1..Len(q) : q[i] = q[j] => i = j
Line == Queued(semQueue, pc)

\* Only a send waits for a permit or sleeps over a retry, and an attempt that
\* is about to begin is one of those the chain has.
Tries ==
  \A c \in Calls :
    /\ pc[c] \in {"queued", "sleeping"} => c \in Sends
    /\ pc[c] \in {"idle", "sdk", "queued"} => attempt[c] = 0
    /\ pc[c] = "spawning" => attempt[c] < MaxAttempts

\* What is not free is in use.
Users == {c \in Sends : UsesPermit(c)}
Permits == IsFiniteSet(Users) /\ permits + Cardinality(Users) = MaxConcurrent

(***************************************************************************)
(* A lock that is held is in the table, so that an eviction spares it.     *)
(* From the semaphore's queue on a send holds the lock of the session it   *)
(* runs on, and its process resumes no other session.                      *)
(***************************************************************************)
Busy(c) == pc[c] \in {"queued", "spawning", "output", "sleeping"}
Held ==
  /\ \A s \in Sessions : holder[s] # None => s \in locks
  /\ \A c \in Sends : /\ Busy(c) /\ sess[c] # NoSession => holder[sess[c]] = c
                      /\ UsesPermit(c) => resumed[c] \in {sess[c], NoSession}

\* With no drain to follow there is none, and the table is exact.
Listed ==
  /\ Drains = {} => drain = "off"
  /\ ActiveIsAwaited

IInv == Types /\ Line /\ Tries /\ Permits /\ Held /\ Listed

-----------------------------------------------------------------------------
(***************************************************************************)
(* The semaphore's queue.                                                  *)
(***************************************************************************)

\* RemoveAt closes the gap it makes.
LEMMA RemoveAtIs ==
  ASSUME NEW S, NEW q \in Seq(S), NEW i \in 1..Len(q)
  PROVE  /\ RemoveAt(q, i) \in Seq(S)
         /\ Len(RemoveAt(q, i)) = Len(q) - 1
         /\ \A k \in 1..Len(q) - 1 :
              RemoveAt(q, i)[k] = IF k < i THEN q[k] ELSE q[k + 1]
<1> DEFINE front == SubSeq(q, 1, i - 1)
           back == SubSeq(q, i + 1, Len(q))
<1>1. front \in Seq(S) /\ Len(front) = i - 1 /\ \A k \in 1..i - 1 : front[k] = q[k]
  OBVIOUS
<1>2. /\ back \in Seq(S) /\ Len(back) = Len(q) - i
      /\ \A k \in 1..Len(q) - i : back[k] = q[i + k]
  OBVIOUS
<1> HIDE DEF front, back
<1>3. RemoveAt(q, i) = front \o back  BY DEF RemoveAt, front, back
<1>4. RemoveAt(q, i) \in Seq(S) /\ Len(RemoveAt(q, i)) = Len(q) - 1
  BY <1>1, <1>2, <1>3
<1>5. ASSUME NEW k \in 1..Len(q) - 1
      PROVE  RemoveAt(q, i)[k] = IF k < i THEN q[k] ELSE q[k + 1]
  <2>1. RemoveAt(q, i)[k] = IF k <= Len(front) THEN front[k] ELSE back[k - Len(front)]
    BY <1>1, <1>2, <1>3, <1>4
  <2>2. CASE k < i  BY <1>1, <2>1, <2>2
  <2>3. CASE k >= i
    <3>1. k - (i - 1) \in 1..Len(q) - i /\ i + (k - (i - 1)) = k + 1  BY <2>3
    <3> QED  BY <1>1, <1>2, <2>1, <2>3, <3>1
  <2> QED  BY <2>2, <2>3
<1> QED  BY <1>4, <1>5

\* The queue stays as it is while whoever is in it goes on waiting.
LEMMA LineKept ==
  ASSUME Types, Line, semQueue' = semQueue,
         \A d \in Sends : pc[d] = "queued" => pc'[d] = "queued"
  PROVE  Line'
BY DEF Types, Line, Queued

\* A send that did not wait yet joins the queue at its end.
LEMMA LineJoined ==
  ASSUME Types, Line, NEW c \in Sends, pc[c] # "queued",
         pc' = [pc EXCEPT ![c] = "queued"], semQueue' = Append(semQueue, c)
  PROVE  Line'
BY DEF Types, Line, Queued, Calls

\* The head of the queue goes on, and nobody else.
LEMMA LineServed ==
  ASSUME Types, Line, semQueue # <<>>,
         pc' = [pc EXCEPT ![Head(semQueue)] = "spawning"], semQueue' = Tail(semQueue)
  PROVE  Line'
<1>1. /\ Len(semQueue) \in Nat \ {0} /\ Head(semQueue) = semQueue[1]
      /\ Len(semQueue') = Len(semQueue) - 1
      /\ \A i \in 1..Len(semQueue) - 1 : semQueue'[i] = semQueue[i + 1]
      /\ \A i \in 1..Len(semQueue) : semQueue[i] \in Calls
  BY DEF Types, Calls
<1> QED  BY <1>1 DEF Types, Line, Queued

\* A send whose caller gives up leaves the queue wherever it stands.
LEMMA LineLeft ==
  ASSUME Types, Line, NEW i \in 1..Len(semQueue),
         pc' = [pc EXCEPT ![semQueue[i]] = "done"], semQueue' = RemoveAt(semQueue, i)
  PROVE  Line'
<1>1. \A k \in 1..Len(semQueue) : semQueue[k] \in Calls  BY DEF Types, Calls
<1>2. /\ Len(semQueue') = Len(semQueue) - 1
      /\ \A k \in 1..Len(semQueue) - 1 :
           semQueue'[k] = IF k < i THEN semQueue[k] ELSE semQueue[k + 1]
  BY RemoveAtIs DEF Types
<1>3. Len(semQueue) \in Nat  BY DEF Types
<1>4. \A k \in 1..Len(semQueue') :
        \E j \in 1..Len(semQueue) :
          /\ semQueue'[k] = semQueue[j] /\ j # i
          /\ j = IF k < i THEN k ELSE k + 1
  BY <1>2, <1>3
<1>5. \A k \in 1..Len(semQueue') : pc'[semQueue'[k]] = "queued"
  BY <1>1, <1>4 DEF Types, Line, Queued
<1>6. ASSUME NEW k \in 1..Len(semQueue'), NEW j \in 1..Len(semQueue'), semQueue'[k] = semQueue'[j]
      PROVE  k = j
  BY <1>2, <1>3, <1>4, <1>6 DEF Line, Queued
<1> QED  BY <1>5, <1>6 DEF Line, Queued

-----------------------------------------------------------------------------
(***************************************************************************)
(* The permits.                                                            *)
(***************************************************************************)

\* A send that begins to use a permit takes one.
LEMMA PermitTaken ==
  ASSUME Types, Permits, NEW c \in Sends, ~UsesPermit(c), permits > 0,
         pc' = [pc EXCEPT ![c] = "spawning"], permits' = permits - 1
  PROVE  Permits'
<1>1. Users' = Users \cup {c}  BY DEF Users, UsesPermit, Types, Calls
<1>2. c \notin Users  BY DEF Users
<1>3. IsFiniteSet(Users') /\ Cardinality(Users') = Cardinality(Users) + 1
  BY <1>1, <1>2, FS_AddElement DEF Permits
<1>4. Cardinality(Users) \in Nat  BY FS_CardinalityType DEF Permits
<1> QED  BY <1>3, <1>4, ProcessAssumption DEF Permits, Types

\* A send that ends gives its permit back.
LEMMA PermitGiven ==
  ASSUME Types, Permits, NEW c \in Sends, UsesPermit(c),
         pc' = [pc EXCEPT ![c] = "done"], permits' = permits + 1
  PROVE  Permits'
<1>1. Users' = Users \ {c}  BY DEF Users, UsesPermit, Types, Calls
<1>2. c \in Users  BY DEF Users
<1>3. IsFiniteSet(Users') /\ Cardinality(Users') = Cardinality(Users) - 1
  BY <1>1, <1>2, FS_RemoveElement DEF Permits
<1>4. Cardinality(Users) \in Nat  BY FS_CardinalityType DEF Permits
<1> QED  BY <1>3, <1>4, ProcessAssumption DEF Permits, Types

\* Other steps change neither the number nor who uses them.
LEMMA PermitKept ==
  ASSUME Permits, permits' = permits, \A d \in Sends : UsesPermit(d)' <=> UsesPermit(d)
  PROVE  Permits'
<1>1. Users' = Users  BY DEF Users
<1> QED  BY <1>1 DEF Permits

-----------------------------------------------------------------------------
(***************************************************************************)
(* The session locks.                                                      *)
(***************************************************************************)

\* The table takes the new key in and keeps every lock that is held.
LEMMA LockFound ==
  ASSUME Types, NEW s \in Sessions, GetSessionLock(s)
  PROVE  /\ locks' \subseteq Sessions /\ s \in locks'
         /\ \A r \in Sessions : r \in locks /\ holder[r] # None => r \in locks'
BY DEF GetSessionLock, Locked, Types

\* While locks, sessions and holders stay, a send may only stop being busy.
LEMMA HeldKept ==
  ASSUME Held, UNCHANGED <<locks, holder, sess>>,
         \A d \in Sends : /\ Busy(d)' => Busy(d)
                          /\ UsesPermit(d)' => resumed'[d] \in {sess[d], NoSession}
  PROVE  Held'
BY DEF Held

\* The lock a send gives back is its own.
LEMMA HeldLeft ==
  ASSUME Types, Held, NEW c \in Sends, pc' = [pc EXCEPT ![c] = "done"],
         holder' = Released(c), UNCHANGED <<locks, sess, resumed>>
  PROVE  Held'
<1>1. ~Busy(c)' /\ ~UsesPermit(c)'  BY DEF Busy, UsesPermit, Types, Calls
<1>2. ASSUME NEW d \in Sends, d # c
      PROVE  /\ Busy(d)' <=> Busy(d)
             /\ UsesPermit(d)' <=> UsesPermit(d)
  BY <1>2 DEF Busy, UsesPermit, Types, Calls
<1>3. \A s \in Sessions : holder'[s] = IF holder[s] = c THEN None ELSE holder[s]
  BY DEF Released
<1>4. \A d \in Sends : sess[d] # NoSession => sess[d] \in Sessions  BY DEF Types, Calls
<1> QED  BY <1>1, <1>2, <1>3, <1>4 DEF Held

-----------------------------------------------------------------------------
(***************************************************************************)
(* The table of processes.                                                 *)
(***************************************************************************)

\* Nothing changes while nobody begins or ends to await a process.
LEMMA ListedKept ==
  ASSUME Types, Listed, active' = active, Drains = {} => drain' = "off",
         \A d \in Calls : /\ pc'[d] = "output" <=> pc[d] = "output"
                          /\ pc[d] = "output" => sess'[d] = sess[d]
  PROVE  Listed'
BY DEF Listed, ActiveIsAwaited, Key

\* A call that awaits its process no longer takes its own entry away.
LEMMA ListedPopped ==
  ASSUME Types, Listed, NEW c \in Calls, NEW p, pc[c] = "output", p # "output",
         pc' = [pc EXCEPT ![c] = p], active' = Popped(c), UNCHANGED <<sess, drain>>
  PROVE  Listed'
<1> SUFFICES ASSUME Streams \cup Drains = {}, NEW k \in Keys, NEW e \in Calls
             PROVE  active'[k] = e <=> pc'[e] = "output" /\ Key(e)' = k
  BY DEF Listed, ActiveIsAwaited
<1>1. \A d \in Calls, j \in Keys : active[j] = d <=> pc[d] = "output" /\ Key(d) = j
  BY DEF Listed, ActiveIsAwaited
<1>2. \A d \in Calls : Key(d) \in Keys /\ Key(d)' = Key(d)  BY DEF Key, Keys, Types
<1>3. active'[k] = IF k = Key(c) THEN None ELSE active[k]
  BY <1>2 DEF Popped, Types
<1>4. pc'[e] = IF e = c THEN p ELSE pc[e]  BY DEF Types
<1> QED  BY <1>1, <1>2, <1>3, <1>4, ProcessAssumption

\* The entry a call makes when its process exists is free: whoever else runs on
\* its session would hold its lock.
LEMMA ListedCreated ==
  ASSUME Types, Held, Listed, NEW c \in Calls, pc[c] = "spawning",
         pc' = [pc EXCEPT ![c] = "output"], active' = [active EXCEPT ![Key(c)] = c],
         UNCHANGED <<sess, drain>>
  PROVE  Listed'
<1> SUFFICES ASSUME Streams \cup Drains = {}, NEW k \in Keys, NEW e \in Calls
             PROVE  active'[k] = e <=> pc'[e] = "output" /\ Key(e)' = k
  BY DEF Listed, ActiveIsAwaited
<1>1. \A d \in Calls, j \in Keys : active[j] = d <=> pc[d] = "output" /\ Key(d) = j
  BY DEF Listed, ActiveIsAwaited
<1>2. \A d \in Calls : Key(d) \in Keys /\ Key(d)' = Key(d)  BY DEF Key, Keys, Types
<1>3. active'[k] = IF k = Key(c) THEN c ELSE active[k]
  BY <1>2 DEF Types
<1>4. pc'[e] = IF e = c THEN "output" ELSE pc[e]  BY DEF Types
<1>5. Calls = Sends  BY DEF Calls
<1>6. ASSUME e # c, pc[e] = "output", Key(e) = Key(c)
      PROVE  FALSE
  <2>1. sess[e] = sess[c] /\ sess[c] # NoSession
    BY <1>6, ProcessAssumption DEF Key, Types
  <2>2. holder[sess[e]] = e /\ holder[sess[c]] = c
    BY <1>5, <1>6, <2>1 DEF Held, Busy
  <2> QED  BY <1>6, <2>1, <2>2
<1> QED  BY <1>1, <1>2, <1>3, <1>4, <1>6

-----------------------------------------------------------------------------
(***************************************************************************)
(* The steps several actions are made of.                                  *)
(***************************************************************************)

\* A stream is never a send.
LEMMA Apart == ASSUME NEW c \in Streams PROVE c \in Calls /\ c \notin Sends
BY ProcessAssumption DEF Calls

\* What resumes is a confirmed session, or none.
LEMMA ResumableIs ==
  ASSUME Types, NEW s \in Sessions \cup {NoSession}
  PROVE  /\ Resumable(s) \in Sessions \cup {NoSession}
         /\ Resumable(s) \in {s, NoSession}
BY DEF Resumable, Types

\* A send gets to the semaphore with the lock of the session it runs on.
LEMMA RouteSendIs ==
  ASSUME Types, Held, NEW c \in Sends, NEW s \in Sessions \cup {NoSession}, RouteSend(c, s)
  PROVE  \E r \in Sessions \cup {NoSession} :
           /\ sess' = [sess EXCEPT ![c] = r]
           /\ EnterSemaphore(c, r)
           /\ locks' \subseteq Sessions
           /\ \A q \in Sessions : holder'[q] # None => q \in locks'
           /\ \/ r = NoSession /\ holder' = holder
              \/ /\ r \in Sessions /\ holder[r] = None
                 /\ holder' = [holder EXCEPT ![r] = c]
<1>1. CASE s = NoSession /\ sess' = [sess EXCEPT ![c] = NoSession] /\ EnterSemaphore(c, NoSession)
           /\ UNCHANGED lockVars
  BY <1>1 DEF lockVars, Held, Types
<1>2. CASE s # NoSession /\ Locked(s) /\ GetSessionLock(s)
           /\ sess' = [sess EXCEPT ![c] = NoSession] /\ EnterSemaphore(c, NoSession)
           /\ UNCHANGED holder
  BY <1>2, LockFound DEF Held
<1>3. CASE s # NoSession /\ ~Locked(s) /\ GetSessionLock(s)
           /\ holder' = [holder EXCEPT ![s] = c]
           /\ sess' = [sess EXCEPT ![c] = s] /\ EnterSemaphore(c, s)
  <2>1. s \in Sessions  BY <1>3
  <2>2. holder[s] = None  BY <1>3, <2>1 DEF Held, Locked
  <2>3. /\ locks' \subseteq Sessions /\ s \in locks'
        /\ \A r \in Sessions : r \in locks /\ holder[r] # None => r \in locks'
    BY <1>3, <2>1, LockFound
  <2>4. \A q \in Sessions : holder'[q] # None => q \in locks'
    BY <1>3, <2>1, <2>3 DEF Held, Types
  <2> QED  BY <1>3, <2>1, <2>2, <2>3, <2>4
<1> QED  BY <1>1, <1>2, <1>3 DEF RouteSend

\* Where the semaphore leaves a send: with a permit, or in the queue.
LEMMA EnterIs ==
  ASSUME Types, NEW c \in Sends, NEW r \in Sessions \cup {NoSession}, EnterSemaphore(c, r)
  PROVE  \/ /\ permits > 0 /\ permits' = permits - 1 /\ semQueue' = semQueue
            /\ pc' = [pc EXCEPT ![c] = "spawning"]
            /\ resumed' = [resumed EXCEPT ![c] = Resumable(r)]
         \/ /\ permits' = permits /\ semQueue' = Append(semQueue, c)
            /\ pc' = [pc EXCEPT ![c] = "queued"]
            /\ resumed' = resumed
BY DEF EnterSemaphore, Goto

\* A call that had not begun, or whose bridge failed, is routed to the CLI.
LEMMA Routed ==
  ASSUME IInv, NEW c \in Calls, pc[c] \in {"idle", "sdk"},
         NEW s \in Sessions \cup {NoSession}, Route(c, s),
         UNCHANGED <<attempt, os, active, confirmed, drainVars>>
  PROVE  IInv'
<1> USE DEF drainVars
<1>0. Types /\ Line /\ Tries /\ Permits /\ Held /\ Listed  BY DEF IInv
<1>1. CASE c \in Sends /\ RouteSend(c, s)
  <2>1. PICK r \in Sessions \cup {NoSession} :
           /\ sess' = [sess EXCEPT ![c] = r]
           /\ EnterSemaphore(c, r)
           /\ locks' \subseteq Sessions
           /\ \A q \in Sessions : holder'[q] # None => q \in locks'
           /\ \/ r = NoSession /\ holder' = holder
              \/ /\ r \in Sessions /\ holder[r] = None
                 /\ holder' = [holder EXCEPT ![r] = c]
    BY <1>0, <1>1, RouteSendIs
  <2>2. \/ /\ permits > 0 /\ permits' = permits - 1 /\ semQueue' = semQueue
           /\ pc' = [pc EXCEPT ![c] = "spawning"]
           /\ resumed' = [resumed EXCEPT ![c] = Resumable(r)]
        \/ /\ permits' = permits /\ semQueue' = Append(semQueue, c)
           /\ pc' = [pc EXCEPT ![c] = "queued"]
           /\ resumed' = resumed
    BY <1>0, <1>1, <2>1, EnterIs
  <2>3. Resumable(r) \in Sessions \cup {NoSession} /\ Resumable(r) \in {r, NoSession}
    BY <1>0, ResumableIs
  <2>4. Types'
    <3>0. permits \in Nat /\ semQueue \in Seq(Sends)  BY <1>0 DEF Types
    <3>1. permits' \in Nat /\ semQueue' \in Seq(Sends)
      <4>1. Append(semQueue, c) \in Seq(Sends)  BY <1>1, <3>0
      <4>2. permits > 0 => permits - 1 \in Nat  BY <3>0
      <4> QED  BY <2>2, <3>0, <4>1, <4>2
    <3>2. pc' \in [Calls -> Places] /\ resumed' \in [Calls -> Sessions \cup {NoSession}]
      BY <1>0, <2>2, <2>3 DEF Types, Places
    <3>3. /\ sess' \in [Calls -> Sessions \cup {NoSession}]
          /\ holder' \in [Sessions -> Sends \cup {None}]
      BY <1>0, <1>1, <2>1 DEF Types
    <3> QED  BY <1>0, <2>1, <3>1, <3>2, <3>3 DEF Types
  <2>5. Line'
    BY <1>0, <1>1, <2>2, LineKept, LineJoined DEF Types, Calls
  <2>6. Tries'
    BY <1>0, <1>1, <2>2, ProcessAssumption DEF Types, Tries
  <2>7. Permits'
    <3>1. CASE pc' = [pc EXCEPT ![c] = "spawning"]
      BY <1>0, <1>1, <2>2, <3>1, PermitTaken DEF UsesPermit, Types
    <3>2. CASE pc' = [pc EXCEPT ![c] = "queued"]
      BY <1>0, <1>1, <2>2, <3>2, PermitKept DEF UsesPermit, Types, Calls
    <3> QED  BY <2>2, <3>1, <3>2
  <2>8. Held'
    <3>1. ASSUME NEW d \in Sends, d # c
          PROVE  /\ Busy(d)' <=> Busy(d)
                 /\ UsesPermit(d)' <=> UsesPermit(d)
                 /\ sess'[d] = sess[d] /\ resumed'[d] = resumed[d]
      BY <1>0, <2>1, <2>2, <3>1 DEF Busy, UsesPermit, Types, Calls
    <3>2. ASSUME NEW d \in Sends, d # c, Busy(d), sess[d] # NoSession
          PROVE  holder'[sess[d]] = d
      BY <1>0, <2>1, <3>2, ProcessAssumption DEF Held, Types, Calls
    <3>3. /\ sess'[c] = r /\ (r # NoSession => holder'[r] = c)
          /\ UsesPermit(c)' => resumed'[c] \in {r, NoSession}
      BY <1>0, <1>1, <2>1, <2>2, <2>3, ProcessAssumption DEF Types, UsesPermit
    <3> QED  BY <1>0, <2>1, <3>1, <3>2, <3>3 DEF Held
  <2>9. Listed'
    BY <1>0, <2>1, <2>2, ListedKept DEF Types, Listed
  <2> QED  BY <2>4, <2>5, <2>6, <2>7, <2>8, <2>9 DEF IInv
<1>2. CASE c \in Streams /\ RouteStream(c, s)
  <2>1. c \notin Sends  BY <1>2, Apart
  <2>2. PICK f \in Sessions \cup {NoSession} :
          /\ sess' = [sess EXCEPT ![c] = f]
          /\ resumed' = [resumed EXCEPT ![c] = Resumable(f)]
          /\ pc' = [pc EXCEPT ![c] = "spawning"]
          /\ UNCHANGED <<semVars, lockVars>>
    BY <1>2 DEF RouteStream, Goto
  <2>3. Resumable(f) \in Sessions \cup {NoSession}  BY <1>0, ResumableIs
  <2>4. Types'
    BY <1>0, <2>2, <2>3 DEF Types, Places, semVars, lockVars
  <2>5. Line'
    BY <1>0, <2>1, <2>2, LineKept DEF Types, Calls, semVars
  <2>6. Tries'
    BY <1>0, <2>2, ProcessAssumption DEF Types, Tries
  <2>7. Permits'
    BY <1>0, <2>1, <2>2, PermitKept DEF UsesPermit, Types, Calls, semVars
  <2>8. Held'
    BY <1>0, <2>1, <2>2 DEF Held, Busy, UsesPermit, Types, Calls, lockVars
  <2>9. Listed'
    BY <1>0, <2>2, ListedKept DEF Types, Listed
  <2> QED  BY <2>4, <2>5, <2>6, <2>7, <2>8, <2>9 DEF IInv
<1> QED  BY <1>1, <1>2 DEF Route

\* Leaving the semaphore and the lock keeps the types.
LEMMA LeaveTypes ==
  ASSUME Types, NEW c \in Calls, Leave(c), active' \in {active, Popped(c)},
         confirmed' \subseteq Sessions,
         UNCHANGED <<sess, resumed, attempt, os, semQueue, locks, drainVars>>
  PROVE  Types'
<1>1. pc' \in [Calls -> Places] /\ permits' \in Nat
  BY DEF Leave, Goto, Types, Places
<1>2. holder' \in [Sessions -> Sends \cup {None}]  BY DEF Leave, Released, Types
<1>3. active' \in [Keys -> Calls \cup {None}]  BY DEF Popped, Types
<1> QED  BY <1>1, <1>2, <1>3 DEF Types, drainVars

\* A send ends, with an answer or without: permit, lock and entry go together.
LEMMA Leaves ==
  ASSUME IInv, NEW c \in Sends, UsesPermit(c), Leave(c), Types',
         active' = IF pc[c] = "output" THEN Popped(c) ELSE active,
         UNCHANGED <<sess, resumed, attempt, semQueue, locks, drain>>
  PROVE  IInv'
<1>0. Types /\ Line /\ Tries /\ Permits /\ Held /\ Listed  BY DEF IInv
<1>1. /\ pc' = [pc EXCEPT ![c] = "done"] /\ permits' = permits + 1 /\ holder' = Released(c)
      /\ c \in Calls
  BY DEF Leave, Goto, Calls
<1>2. Line'
  BY <1>0, <1>1, LineKept DEF UsesPermit, Types, Calls
<1>3. Tries'
  BY <1>0, <1>1 DEF Types, Tries
<1>4. Permits'  BY <1>0, <1>1, PermitGiven
<1>5. Held'  BY <1>0, <1>1, HeldLeft
<1>6. Listed'
  <2>1. CASE pc[c] = "output"  BY <1>0, <1>1, <2>1, ListedPopped
  <2>2. CASE pc[c] # "output"  BY <1>0, <1>1, <2>2, ListedKept DEF Types, Listed
  <2> QED  BY <2>1, <2>2
<1> QED  BY <1>2, <1>3, <1>4, <1>5, <1>6 DEF IInv

\* A call goes on without touching the semaphore, the locks or the queue.
LEMMA GoesOn ==
  ASSUME IInv, NEW c \in Calls, NEW p, Types', Listed',
         pc' = [pc EXCEPT ![c] = p], pc[c] # "queued",
         p \in {"spawning", "sleeping"} => c \in Sends,
         p \notin {"idle", "sdk", "queued"},
         p = "spawning" => attempt'[c] < MaxAttempts,
         c \in Sends =>
           /\ UsesPermit(c) <=> p \in {"spawning", "output", "sleeping"}
           /\ UsesPermit(c) => resumed'[c] \in {sess[c], NoSession},
         \A d \in Calls : d # c => resumed'[d] = resumed[d] /\ attempt'[d] = attempt[d],
         UNCHANGED <<sess, semVars, lockVars>>
  PROVE  IInv'
<1>0. Types /\ Line /\ Tries /\ Permits /\ Held  BY DEF IInv
<1>1. \A d \in Calls : pc'[d] = IF d = c THEN p ELSE pc[d]  BY <1>0 DEF Types
<1>2. Line'
  BY <1>0, <1>1, LineKept DEF Calls, semVars
<1>3. Tries'
  BY <1>0, <1>1 DEF Tries
<1>4. \A d \in Sends : UsesPermit(d)' <=> UsesPermit(d)
  BY <1>1 DEF UsesPermit, Calls
<1>5. Permits'
  BY <1>0, <1>4, PermitKept DEF semVars
<1>6. Held'
  <2>1. \A d \in Sends : Busy(d)' => Busy(d)
    BY <1>1 DEF Busy, UsesPermit, Calls
  <2>2. \A d \in Sends : UsesPermit(d)' => resumed'[d] \in {sess[d], NoSession}
    BY <1>0, <1>4 DEF Held, Calls
  <2> QED  BY <1>0, <2>1, <2>2, HeldKept DEF lockVars
<1> QED  BY <1>2, <1>3, <1>5, <1>6 DEF IInv

-----------------------------------------------------------------------------
(***************************************************************************)
(* The invariant.                                                          *)
(***************************************************************************)

\* Nobody has called yet, and everything is free.
LEMMA Starts == Init => IInv
<1> SUFFICES ASSUME Init PROVE IInv  OBVIOUS
<1> USE DEF Init
<1>1. Types  BY ProcessAssumption DEF Types, Places
<1>2. Line  BY DEF Line, Queued
<1>3. Tries  BY ProcessAssumption DEF Tries
<1>4. Users = {}  BY DEF Users, UsesPermit, Calls
<1>5. Permits  BY <1>4, FS_EmptySet, ProcessAssumption DEF Permits
<1>6. Held  BY DEF Held, Busy, UsesPermit, Calls
<1>7. Listed  BY ProcessAssumption DEF Listed, ActiveIsAwaited
<1> QED  BY <1>1, <1>2, <1>3, <1>5, <1>6, <1>7 DEF IInv

\* The steps of a call that begins and of its warm session.
LEMMA Begins ==
  ASSUME IInv, NEW c \in Calls, Call(c) \/ SdkFails(c) \/ SdkAnswers(c)
  PROVE  IInv'
<1>0. Types /\ Line /\ Tries /\ Permits /\ Held /\ Listed  BY DEF IInv
<1>1. CASE Call(c)
  <2>1. PICK s \in Sessions \cup {NoSession} :
          \/ Route(c, s)
          \/ /\ Goto(c, "sdk") /\ sess' = [sess EXCEPT ![c] = s]
             /\ UNCHANGED <<resumed, semVars, lockVars>>
    BY <1>1 DEF Call
  <2>2. pc[c] = "idle" /\ UNCHANGED <<attempt, os, active, confirmed, drainVars>>
    BY <1>1 DEF Call
  <2>3. CASE Route(c, s)  BY <2>2, <2>3, Routed
  <2>4. CASE /\ Goto(c, "sdk") /\ sess' = [sess EXCEPT ![c] = s]
             /\ UNCHANGED <<resumed, semVars, lockVars>>
    <3> USE DEF semVars, lockVars, drainVars
    <3>1. pc' = [pc EXCEPT ![c] = "sdk"]  BY <2>4 DEF Goto
    <3>2. Types'  BY <1>0, <2>2, <2>4, <3>1 DEF Types, Places
    <3>3. Line'  BY <1>0, <2>2, <2>4, <3>1, LineKept DEF Types, Calls
    <3>4. Tries'  BY <1>0, <2>2, <3>1 DEF Types, Tries
    <3>5. Permits'  BY <1>0, <2>2, <2>4, <3>1, PermitKept DEF UsesPermit, Types, Calls
    <3>6. Held'
      BY <1>0, <2>2, <2>4, <3>1 DEF Held, Busy, UsesPermit, Types, Calls
    <3>7. Listed'  BY <1>0, <2>2, <2>4, <3>1, ListedKept DEF Types, Listed
    <3> QED  BY <3>2, <3>3, <3>4, <3>5, <3>6, <3>7 DEF IInv
  <2> QED  BY <2>1, <2>3, <2>4
<1>2. CASE SdkFails(c)
  <2>1. sess[c] \in Sessions \cup {NoSession}  BY <1>0 DEF Types
  <2> QED  BY <1>2, <2>1, Routed DEF SdkFails
<1>3. CASE SdkAnswers(c)
  <2>1. pc[c] = "sdk" /\ pc' = [pc EXCEPT ![c] = "done"]  BY <1>3 DEF SdkAnswers, Goto
  <2>2. UNCHANGED <<sess, resumed, attempt, os, semVars, lockVars, active, drainVars>>
    BY <1>3 DEF SdkAnswers
  <2>3. Types'
    BY <1>0, <1>3, <2>1, <2>2
       DEF SdkAnswers, Confirms, Types, Places, semVars, lockVars, drainVars
  <2>4. Listed'  BY <1>0, <2>1, <2>2, ListedKept DEF Types, Listed, drainVars
  <2> QED  BY <1>0, <2>1, <2>2, <2>3, <2>4, GoesOn DEF UsesPermit
<1> QED  BY <1>1, <1>2, <1>3

\* The semaphore's queue moves, or a send in it is cancelled.
LEMMA Queues ==
  ASSUME IInv, AcquirePermit \/ \E c \in Cancels : CancelQueued(c) /\ UNCHANGED
                 <<sess, resumed, attempt, os, locks, confirmed, drainVars>>
  PROVE  IInv'
<1>0. Types /\ Line /\ Tries /\ Permits /\ Held /\ Listed  BY DEF IInv
<1>1. CASE AcquirePermit
  <2> DEFINE c == Head(semQueue)
  <2> USE DEF lockVars, drainVars
  <2>1. /\ semQueue # <<>> /\ permits > 0 /\ permits' = permits - 1
        /\ semQueue' = Tail(semQueue)
        /\ pc' = [pc EXCEPT ![c] = "spawning"]
        /\ resumed' = [resumed EXCEPT ![c] = Resumable(sess[c])]
        /\ UNCHANGED <<sess, attempt, os, lockVars, active, confirmed, drainVars>>
    BY <1>1 DEF AcquirePermit, Goto
  <2>2. c \in Sends /\ c \in Calls /\ c = semQueue[1] /\ 1 \in 1..Len(semQueue)
    BY <1>0, <2>1 DEF Types, Calls
  <2>3. pc[c] = "queued"  BY <1>0, <2>2 DEF Line, Queued
  <2>4. semQueue' \in Seq(Sends)  BY <1>0, <2>1 DEF Types
  <2> HIDE DEF c
  <2>5. /\ Resumable(sess[c]) \in Sessions \cup {NoSession}
        /\ Resumable(sess[c]) \in {sess[c], NoSession}
    BY <1>0, <2>2, ResumableIs DEF Types
  <2>6. Types'
    <3>1. permits' \in Nat  BY <1>0, <2>1 DEF Types
    <3>2. pc' \in [Calls -> Places] /\ resumed' \in [Calls -> Sessions \cup {NoSession}]
      BY <1>0, <2>1, <2>5 DEF Types, Places
    <3> QED  BY <1>0, <2>1, <2>4, <3>1, <3>2 DEF Types
  <2>7. Line'  BY <1>0, <2>1, LineServed DEF c
  <2>8. Tries'
    BY <1>0, <2>1, <2>2, <2>3, ProcessAssumption DEF Types, Tries
  <2>9. Permits'  BY <1>0, <2>1, <2>2, <2>3, PermitTaken DEF UsesPermit
  <2>10. Held'
    BY <1>0, <2>1, <2>2, <2>3, <2>5 DEF Held, Busy, UsesPermit, Types, Calls
  <2>11. Listed'  BY <1>0, <2>1, <2>2, <2>3, ListedKept DEF Types, Listed
  <2> QED  BY <2>6, <2>7, <2>8, <2>9, <2>10, <2>11 DEF IInv
<1>2. CASE \E c \in Cancels : CancelQueued(c) /\ UNCHANGED
             <<sess, resumed, attempt, os, locks, confirmed, drainVars>>
  <2>1. PICK c \in Cancels : CancelQueued(c) /\ UNCHANGED
          <<sess, resumed, attempt, os, locks, confirmed, drainVars>>
    BY <1>2
  <2> USE DEF drainVars
  <2>2. PICK i \in 1..Len(semQueue) : semQueue[i] = c /\ semQueue' = RemoveAt(semQueue, i)
    BY <2>1 DEF CancelQueued
  <2>3. /\ pc[c] = "queued" /\ pc' = [pc EXCEPT ![c] = "done"] /\ holder' = Released(c)
        /\ UNCHANGED <<permits, active>>
    BY <2>1 DEF CancelQueued, Goto
  <2>4. c \in Sends /\ c \in Calls  BY ProcessAssumption DEF Calls
  <2>5. semQueue' \in Seq(Sends)  BY <1>0, <2>2, RemoveAtIs DEF Types
  <2>6. Types'
    BY <1>0, <2>1, <2>3, <2>5 DEF Types, Places, Released
  <2>7. Line'  BY <1>0, <2>2, <2>3, LineLeft
  <2>8. Tries'
    BY <1>0, <2>1, <2>3, <2>4 DEF Types, Tries
  <2>9. Permits'
    BY <1>0, <2>3, <2>4, PermitKept DEF UsesPermit, Types, Calls
  <2>10. Held'  BY <1>0, <2>1, <2>3, <2>4, HeldLeft
  <2>11. Listed'
    BY <1>0, <2>1, <2>3, <2>4, ListedKept DEF Types, Listed
  <2> QED  BY <2>6, <2>7, <2>8, <2>9, <2>10, <2>11 DEF IInv
<1> QED  BY <1>1, <1>2

\* What a send does once it has its permit.
LEMMA Works ==
  ASSUME IInv, NEW c \in Calls,
         ProcessCreated(c) \/ SendReply(c) \/ SendRateLimited(c) \/ SendRetry(c) \/ Timeout(c)
  PROVE  IInv'
<1>0. Types /\ Line /\ Tries /\ Permits /\ Held /\ Listed  BY DEF IInv
<1> USE DEF semVars, lockVars, drainVars
<1>1. CASE ProcessCreated(c)
  <2>1. /\ pc[c] = "spawning" /\ pc' = [pc EXCEPT ![c] = "output"]
        /\ os' = [os EXCEPT ![c] = "running"]
        /\ active' = [active EXCEPT ![Key(c)] = c]
        /\ attempt' = [attempt EXCEPT ![c] = @ + 1]
        /\ UNCHANGED <<sess, resumed, semVars, lockVars, confirmed, drainVars>>
    BY <1>1 DEF ProcessCreated, Goto
  <2>2. Key(c) \in Keys  BY <1>0 DEF Key, Keys, Types
  <2>3. attempt[c] + 1 \in 0..MaxAttempts
    BY <1>0, <2>1, ProcessAssumption DEF Types, Tries
  <2>4. Types'  BY <1>0, <2>1, <2>2, <2>3 DEF Types, Places
  <2>5. Listed'  BY <1>0, <2>1, ListedCreated
  <2>6. c \in Sends => UsesPermit(c) /\ resumed'[c] \in {sess[c], NoSession}
    BY <1>0, <2>1 DEF UsesPermit, Held
  <2>7. \A d \in Calls : d # c => resumed'[d] = resumed[d] /\ attempt'[d] = attempt[d]
    BY <1>0, <2>1 DEF Types
  <2> QED  BY <2>1, <2>4, <2>5, <2>6, <2>7, GoesOn
<1>2. CASE SendReply(c)
  <2>1. Types'
    <3>1. confirmed' \subseteq Sessions  BY <1>0, <1>2 DEF SendReply, Confirms, Types
    <3> QED  BY <1>0, <1>2, <3>1, LeaveTypes DEF SendReply
  <2> QED  BY <1>2, <2>1, Leaves DEF SendReply, UsesPermit
<1>3. CASE SendRateLimited(c)
  <2>1. /\ c \in Sends /\ pc[c] = "output" /\ pc' = [pc EXCEPT ![c] = "sleeping"]
        /\ active' = Popped(c)
        /\ UNCHANGED <<sess, resumed, attempt, os, semVars, lockVars, drainVars>>
    BY <1>3 DEF SendRateLimited, Goto
  <2>2. Types'
    BY <1>0, <1>3, <2>1 DEF SendRateLimited, Popped, Confirms, Types, Places
  <2>3. Listed'  BY <1>0, <2>1, ListedPopped
  <2>4. UsesPermit(c) /\ resumed'[c] \in {sess[c], NoSession}
    BY <1>0, <2>1 DEF UsesPermit, Held
  <2> QED  BY <1>0, <2>1, <2>2, <2>3, <2>4, GoesOn
<1>4. CASE SendRetry(c)
  <2>1. pc[c] = "sleeping" /\ UNCHANGED <<sess, attempt, os, semQueue, locks, active, confirmed, drainVars>>
    BY <1>4 DEF SendRetry
  <2>2. c \in Sends /\ UsesPermit(c)  BY <1>0, <2>1 DEF Tries, UsesPermit
  <2>3. CASE /\ attempt[c] < MaxAttempts /\ Goto(c, "spawning")
             /\ resumed' = [resumed EXCEPT ![c] = Resumable(sess[c])]
             /\ UNCHANGED <<permits, holder>>
    <3>1. /\ Resumable(sess[c]) \in Sessions \cup {NoSession}
          /\ Resumable(sess[c]) \in {sess[c], NoSession}
      BY <1>0, ResumableIs DEF Types
    <3>2. Types'  BY <1>0, <2>1, <2>3, <3>1 DEF Goto, Types, Places
    <3>3. pc' = [pc EXCEPT ![c] = "spawning"]  BY <2>3 DEF Goto
    <3>4. Listed'  BY <1>0, <2>1, <2>3, <3>3, ListedKept DEF Types, Listed
    <3>5. /\ resumed'[c] \in {sess[c], NoSession} /\ attempt'[c] < MaxAttempts
          /\ \A d \in Calls : d # c => resumed'[d] = resumed[d] /\ attempt'[d] = attempt[d]
      BY <1>0, <2>1, <2>3, <3>1 DEF Types
    <3> QED  BY <2>1, <2>2, <2>3, <3>2, <3>3, <3>4, <3>5, GoesOn
  <2>4. CASE attempt[c] = MaxAttempts /\ Leave(c) /\ UNCHANGED resumed
    <3>1. Types'
      BY <1>0, <2>1, <2>4 DEF Leave, Goto, Released, Types, Places
    <3> QED  BY <2>1, <2>2, <2>4, <3>1, Leaves
  <2> QED  BY <1>4, <2>3, <2>4 DEF SendRetry
<1>5. CASE Timeout(c)
  <2>1. Types'
    <3>1. confirmed' \subseteq Sessions  BY <1>0, <1>5 DEF Timeout, Types
    <3> QED  BY <1>0, <1>5, <3>1, LeaveTypes DEF Timeout
  <2> QED  BY <1>5, <2>1, Leaves DEF Timeout, UsesPermit
<1> QED  BY <1>1, <1>2, <1>3, <1>4, <1>5

\* A process that is not created, and the end of a stream.
LEMMA Fails ==
  ASSUME IInv, NEW c \in Calls, SpawnFails(c) \/ StreamStep(c)
  PROVE  IInv'
<1>0. Types /\ Line /\ Tries /\ Permits /\ Held /\ Listed  BY DEF IInv
<1> USE DEF semVars, lockVars, drainVars
<1>1. CASE SpawnFails(c)
  <2>1. /\ pc[c] = "spawning"
        /\ UNCHANGED <<sess, resumed, attempt, os, semQueue, locks, active, confirmed, drainVars>>
    BY <1>1 DEF SpawnFails
  <2>2. CASE c \in Sends /\ Leave(c)
    <3>1. Types'
      BY <1>0, <2>1, <2>2 DEF Leave, Goto, Released, Types, Places
    <3> QED  BY <2>1, <2>2, <3>1, Leaves DEF UsesPermit
  <2>3. CASE c \in Streams /\ Goto(c, "done") /\ UNCHANGED <<permits, holder>>
    <3>1. c \notin Sends  BY <2>3, Apart
    <3>2. pc' = [pc EXCEPT ![c] = "done"]  BY <2>3 DEF Goto
    <3>3. Types'  BY <1>0, <2>1, <2>3, <3>2 DEF Types, Places
    <3>4. Listed'  BY <1>0, <2>1, <3>2, ListedKept DEF Types, Listed
    <3> QED  BY <2>1, <2>3, <3>1, <3>2, <3>3, <3>4, GoesOn
  <2> QED  BY <1>1, <2>2, <2>3 DEF SpawnFails
<1>2. CASE StreamEnds(c)
  <2>1. /\ c \in Streams /\ pc[c] = "output" /\ active' = Popped(c)
        /\ pc' = [pc EXCEPT ![c] = "done"]
        /\ UNCHANGED <<sess, resumed, attempt, os, semVars, lockVars, drainVars>>
    BY <1>2 DEF StreamEnds, Goto
  <2>2. Types'  BY <1>0, <1>2, <2>1 DEF StreamEnds, Popped, Confirms, Types, Places
  <2>3. Listed'  BY <1>0, <2>1, ListedPopped
  <2> QED  BY <2>1, <2>2, <2>3, Apart, GoesOn
<1>3. CASE StreamAborted(c)
  <2>1. /\ c \in Streams /\ pc[c] = "output" /\ active' = Popped(c)
        /\ pc' = [pc EXCEPT ![c] = "reaping"]
        /\ UNCHANGED <<sess, resumed, attempt, os, semVars, lockVars, confirmed, drainVars>>
    BY <1>3 DEF StreamAborted, Goto
  <2>2. Types'  BY <1>0, <2>1 DEF Popped, Types, Places
  <2>3. Listed'  BY <1>0, <2>1, ListedPopped
  <2> QED  BY <2>1, <2>2, <2>3, Apart, GoesOn
<1>4. CASE StreamReaped(c)
  <2>1. /\ pc[c] = "reaping" /\ pc' = [pc EXCEPT ![c] = "done"] /\ Exited({c})
        /\ UNCHANGED <<sess, resumed, attempt, semVars, lockVars, active, confirmed, drain>>
    BY <1>4 DEF StreamReaped, Goto
  <2>2. Types'  BY <1>0, <2>1 DEF Exited, Types, Places
  <2>3. Listed'  BY <1>0, <2>1, ListedKept DEF Types, Listed
  <2> QED  BY <2>1, <2>2, <2>3, GoesOn DEF UsesPermit
<1> QED  BY <1>1, <1>2, <1>3, <1>4 DEF StreamStep

\* A caller that gives up, wherever its call is.
LEMMA Cancelled ==
  ASSUME IInv, NEW c \in Cancels, Cancel(c)
  PROVE  IInv'
<1>0. Types /\ Line /\ Tries /\ Permits /\ Held /\ Listed  BY DEF IInv
<1> USE DEF semVars, lockVars, drainVars
<1>1. c \in Sends /\ c \in Calls  BY ProcessAssumption DEF Calls
<1>2. UNCHANGED <<sess, resumed, attempt, os, locks, confirmed, drainVars>>  BY DEF Cancel
<1>3. CASE pc[c] = "sdk" /\ Goto(c, "done") /\ UNCHANGED <<semVars, holder, active>>
  <2>1. pc' = [pc EXCEPT ![c] = "done"]  BY <1>3 DEF Goto
  <2>2. Types'  BY <1>0, <1>2, <1>3, <2>1 DEF Types, Places
  <2>3. Listed'  BY <1>0, <1>2, <1>3, <2>1, ListedKept DEF Types, Listed
  <2> QED  BY <1>1, <1>2, <1>3, <2>1, <2>2, <2>3, GoesOn DEF UsesPermit
<1>4. CASE CancelQueued(c)  BY <1>2, <1>4, Queues
<1>5. CASE pc[c] \in {"spawning", "sleeping"} /\ Leave(c) /\ UNCHANGED <<semQueue, active>>
  <2>1. Types'  BY <1>0, <1>1, <1>2, <1>5 DEF Leave, Goto, Released, Types, Places
  <2> QED  BY <1>1, <1>2, <1>5, <2>1, Leaves DEF UsesPermit
<1>6. CASE pc[c] = "output" /\ Leave(c) /\ active' = Popped(c) /\ UNCHANGED semQueue
  <2>1. confirmed' \subseteq Sessions  BY <1>0, <1>2 DEF Types
  <2>2. Types'  BY <1>0, <1>1, <1>2, <1>6, <2>1, LeaveTypes
  <2> QED  BY <1>1, <1>2, <1>6, <2>2, Leaves DEF UsesPermit
<1> QED  BY <1>3, <1>4, <1>5, <1>6 DEF Cancel

\* Processes exit and drains come and go; no call moves by it.
LEMMA Drained ==
  ASSUME IInv, Drain \/ \E c \in Calls : ProcessExits(c)
  PROVE  IInv'
<1>0. Types /\ Line /\ Tries /\ Permits /\ Held /\ Listed  BY DEF IInv
<1> USE DEF semVars, lockVars, drainVars, callVars
<1>1. UNCHANGED <<pc, sess, resumed, attempt, semVars, lockVars, confirmed>>
  BY DEF Drain, DrainStarts, DrainSnapshot, DrainFinishes, DrainTimeout, UpdateEnds, ProcessExits
<1>2. Types'
  <2>1. procs' \subseteq Calls /\ os' \in [Calls -> {"none", "running", "exited"}]
    <3>1. CASE \E c \in Calls : ProcessExits(c)
      BY <1>0, <3>1 DEF ProcessExits, Exited, Types
    <3>2. CASE DrainTimeout  BY <1>0, <3>2 DEF DrainTimeout, Exited, Types
    <3>3. CASE DrainStarts \/ DrainSnapshot \/ DrainFinishes \/ UpdateEnds
      BY <1>0, <3>3 DEF DrainStarts, DrainSnapshot, DrainFinishes, UpdateEnds, Tracked, Types
    <3> QED  BY <3>1, <3>2, <3>3 DEF Drain
  <2>2. active' \in [Keys -> Calls \cup {None}]
    BY <1>0 DEF Drain, DrainStarts, DrainSnapshot, DrainFinishes, DrainTimeout, UpdateEnds,
                ProcessExits, Types
  <2>3. drain' \in {"off", "closing", "waiting", "done", "updating"}
    BY <1>0, ProcessAssumption
       DEF Drain, DrainStarts, DrainSnapshot, DrainFinishes, DrainTimeout, UpdateEnds,
           ProcessExits, Types
  <2> QED  BY <1>0, <1>1, <2>1, <2>2, <2>3 DEF Types
<1>3. Line'  BY <1>0, <1>1, LineKept
<1>4. Tries'  BY <1>0, <1>1 DEF Tries
<1>5. Permits'  BY <1>0, <1>1, PermitKept DEF UsesPermit
<1>6. Held'  BY <1>0, <1>1 DEF Held, Busy, UsesPermit
<1>7. Listed'
  <2>1. Drains = {} => drain' = "off" /\ active' = active
    BY <1>0 DEF Listed, Drain, DrainStarts, DrainSnapshot, DrainFinishes, DrainTimeout,
                UpdateEnds, ProcessExits
  <2> QED  BY <1>0, <1>1, <2>1 DEF Listed, ActiveIsAwaited, Key
<1> QED  BY <1>2, <1>3, <1>4, <1>5, <1>6, <1>7 DEF IInv

\* The invariant is inductive.
LEMMA Inductive == IInv /\ [Next]_vars => IInv'
<1> SUFFICES ASSUME IInv, [Next]_vars PROVE IInv'  OBVIOUS
<1>1. CASE \E c \in Calls : Call(c) \/ SendStep(c) \/ StreamStep(c) \/ ProcessExits(c)
  <2>1. PICK c \in Calls : Call(c) \/ SendStep(c) \/ StreamStep(c) \/ ProcessExits(c)
    BY <1>1
  <2>2. CASE Call(c) \/ SdkFails(c) \/ SdkAnswers(c)  BY <2>2, Begins
  <2>3. CASE ProcessCreated(c) \/ SendReply(c) \/ SendRateLimited(c) \/ SendRetry(c) \/ Timeout(c)
    BY <2>3, Works
  <2>4. CASE SpawnFails(c) \/ StreamStep(c)  BY <2>4, Fails
  <2>5. CASE ProcessExits(c)  BY <2>5, Drained
  <2> QED  BY <2>1, <2>2, <2>3, <2>4, <2>5 DEF SendStep
<1>2. CASE \E c \in Cancels : Cancel(c)  BY <1>2, Cancelled
<1>3. CASE AcquirePermit  BY <1>3, Queues
<1>4. CASE Drain  BY <1>4, Drained
<1>5. CASE UNCHANGED vars
  BY <1>5 DEF vars, callVars, semVars, lockVars, drainVars, IInv, Types, Line, Tries, Permits,
              Users, UsesPermit, Held, Busy, Listed, ActiveIsAwaited, Key
<1> QED  BY <1>1, <1>2, <1>3, <1>4, <1>5 DEF Next

\* Every part holds in every reachable state.
LEMMA Invariance == Spec => []IInv
BY Starts, Inductive, PTL DEF Spec

-----------------------------------------------------------------------------
(***************************************************************************)
(* The results.                                                            *)
(***************************************************************************)

\* Every variable has its type; in particular no call tries more models than
\* its retries allow, and the permits stay within the configured number.
THEOREM TypeCorrect == Spec => []TypeOK
<1>1. IInv => TypeOK
  <2>1. ASSUME IInv PROVE Cardinality(Users) \in Nat /\ permits + Cardinality(Users) = MaxConcurrent
    BY <2>1, FS_CardinalityType DEF IInv, Permits
  <2>2. ASSUME IInv PROVE permits \in 0..MaxConcurrent
    BY <2>1, <2>2, ProcessAssumption DEF IInv, Types
  <2> QED  BY <2>2 DEF IInv, Types, TypeOK
<1> QED  BY <1>1, Invariance, PTL

\* Permits are neither lost nor made up.
THEOREM NoPermitIsLost == Spec => []PermitsConserved
<1>1. IInv => PermitsConserved  BY DEF IInv, Permits, Users, PermitsConserved
<1> QED  BY <1>1, Invariance, PTL

\* No two sends await processes that resume one session.
THEOREM SessionsAreExclusive == Spec => []SendsDoNotCollide
<1>1. ASSUME IInv PROVE SendsDoNotCollide
  <2> SUFFICES ASSUME NEW c \in Sends, NEW d \in Sends,
                      pc[c] \in {"spawning", "output"}, pc[d] \in {"spawning", "output"},
                      resumed[c] = resumed[d], resumed[c] # NoSession
               PROVE  c = d
    BY DEF SendsDoNotCollide
  <2>1. UsesPermit(c) /\ UsesPermit(d) /\ Busy(c) /\ Busy(d)  BY DEF UsesPermit, Busy
  <2>2. resumed[c] = sess[c] /\ resumed[d] = sess[d]  BY <1>1, <2>1 DEF IInv, Held
  <2> QED  BY <1>1, <2>1, <2>2 DEF IInv, Held
<1> QED  BY <1>1, Invariance, PTL

\* Without streams and drains the table lists who is awaited, and nobody else.
THEOREM TableIsExact == Spec => []ActiveIsAwaited
<1>1. IInv => ActiveIsAwaited  BY DEF IInv, Listed
<1> QED  BY <1>1, Invariance, PTL

-----------------------------------------------------------------------------
(***************************************************************************)
(* The pool implements PoolPromise: a step serves one send, finishes with  *)
(* one, or is not seen by the promise.                                     *)
(***************************************************************************)
Quiet == \A d \in Sends : Phase(d)' = Phase(d) /\ ServedOn(d)' = ServedOn(d)

Mapped == <<[c \in Sends |-> Phase(c)], [c \in Sends |-> ServedOn(c)]>>

LEMMA QuietStutters == Quiet => UNCHANGED Mapped
BY DEF Quiet, Mapped

\* The promise sees no change while sends stay where they are or go on asking, and
\* while those with a permit keep it and their session.
LEMMA StaysQuiet ==
  ASSUME \A d \in Sends :
           \/ pc'[d] = pc[d] /\ sess'[d] = sess[d]
           \/ {pc[d], pc'[d]} \subseteq {"idle", "sdk", "queued"}
           \/ {pc[d], pc'[d]} \subseteq {"reaping", "done"}
           \/ /\ {pc[d], pc'[d]} \subseteq {"spawning", "output", "sleeping"}
              /\ sess'[d] = sess[d]
  PROVE  Quiet
BY DEF Quiet, Phase, ServedOn, UsesPermit

\* The phases of a send and of one whose place changes.
LEMMA Phases ==
  ASSUME NEW d \in Sends
  PROVE  /\ pc[d] \in {"idle", "sdk", "queued"} => Phase(d) = "asking"
         /\ UsesPermit(d) <=> Phase(d) = "served"
         /\ pc[d] \in {"reaping", "done"} => Phase(d) = "over"
         /\ Phase(d) = "over" => pc[d] \notin {"idle", "sdk", "queued"}
BY DEF Phase, UsesPermit

\* The count in the promise is the one of the pool.
LEMMA SameCount ==
  ASSUME NEW S
  PROVE  Promise!Cardinality(S) = Cardinality(S)
BY DEF Promise!Cardinality, Cardinality

\* Who has a seat has a permit, and while a permit is free so is a seat.
LEMMA SeatsLeft ==
  ASSUME Types, Permits, permits > 0
  PROVE  /\ Promise!Served = Users
         /\ Cardinality(Promise!Served) < MaxConcurrent
<1>1. Promise!Served = Users
  BY DEF Promise!Served, Users, Phase, UsesPermit
<1>2. /\ Cardinality(Users) \in Nat /\ permits \in Nat
      /\ permits + Cardinality(Users) = MaxConcurrent
  BY FS_CardinalityType DEF Permits, Types
<1>3. Cardinality(Users) < MaxConcurrent
  BY <1>2, ProcessAssumption
<1> QED
  BY <1>1, <1>3

\* A send that gets a permit gets a seat, on a session that nobody else has.
LEMMA SeatTaken ==
  ASSUME Types, Permits, Held, NEW c \in Sends, NEW s \in Sessions \cup {NoSession},
         pc[c] \in {"idle", "sdk", "queued"}, permits > 0,
         pc' = [pc EXCEPT ![c] = "spawning"], sess' = [sess EXCEPT ![c] = s],
         s # NoSession => holder[s] \in {c, None}
  PROVE  Promise!Serve(c, s)
<1> DEFINE P == [d \in Sends |-> Phase(d)]
           S == [d \in Sends |-> ServedOn(d)]
<1>0. c \in Calls /\ \A d \in Sends : d \in Calls
  BY DEF Calls
<1>1. Phase(c) = "asking"
  BY Phases
<1>2. ASSUME s # NoSession, NEW d \in Users
      PROVE  S[d] # s
  <2>1. d \in Sends /\ UsesPermit(d) /\ Busy(d) /\ d # c
    BY DEF Users, UsesPermit, Busy
  <2>2. sess[d] = s => holder[s] = d
    BY <1>2, <2>1 DEF Held
  <2>3. d # None
    BY <2>1, ProcessAssumption DEF Calls
  <2> QED
    BY <1>2, <2>1, <2>2, <2>3 DEF ServedOn
<1>3. \A d \in Sends : /\ pc'[d] = IF d = c THEN "spawning" ELSE pc[d]
                       /\ sess'[d] = IF d = c THEN s ELSE sess[d]
  BY <1>0 DEF Types
<1>4. P' = [P EXCEPT ![c] = "served"]
  <2>1. \A d \in Sends : Phase(d)' = IF d = c THEN "served" ELSE Phase(d)
    BY <1>3 DEF Phase, UsesPermit
  <2> QED
    BY <2>1
<1>5. S' = [S EXCEPT ![c] = s]
  BY <1>3 DEF ServedOn, UsesPermit
<1>6. Promise!Served = Users /\ Promise!Cardinality(Promise!Served) < MaxConcurrent
  BY SameCount, SeatsLeft
<1>7. P[c] = "asking"
  BY <1>1
<1> QED
  BY ONLY <1>2, <1>4, <1>5, <1>6, <1>7 DEF Promise!Serve

\* A send that is done leaves its seat, if it had one.
LEMMA SeatLeft ==
  ASSUME Types, NEW c \in Sends, pc[c] \in {"sdk", "queued", "spawning", "output", "sleeping"},
         pc' = [pc EXCEPT ![c] = "done"], sess' = sess
  PROVE  Promise!Finish(c)
<1> DEFINE P == [d \in Sends |-> Phase(d)]
           S == [d \in Sends |-> ServedOn(d)]
<1>0. c \in Calls /\ \A d \in Sends : d \in Calls
  BY DEF Calls
<1>1. Phase(c) # "over"
  BY Phases DEF UsesPermit
<1>3. \A d \in Sends : pc'[d] = IF d = c THEN "done" ELSE pc[d]
  BY <1>0 DEF Types
<1>4. P' = [P EXCEPT ![c] = "over"]
  <2>1. \A d \in Sends : Phase(d)' = IF d = c THEN "over" ELSE Phase(d)
    BY <1>3 DEF Phase, UsesPermit
  <2> QED
    BY <2>1
<1>5. S' = [S EXCEPT ![c] = NoSession]
  <2>1. \A d \in Sends : ServedOn(d)' = IF d = c THEN NoSession ELSE ServedOn(d)
    BY <1>3 DEF ServedOn, UsesPermit
  <2> QED
    BY <2>1
<1>6. P[c] # "over"
  BY <1>1
<1> QED
  BY ONLY <1>4, <1>5, <1>6 DEF Promise!Finish

\* Going to the CLI is a seat, or a place in the queue.
LEMMA RoutingPromised ==
  ASSUME IInv, NEW c \in Calls, pc[c] \in {"idle", "sdk"},
         NEW s \in Sessions \cup {NoSession}, Route(c, s)
  PROVE  Quiet \/ Promise!Next
<1>0. Types /\ Permits /\ Held
  BY DEF IInv
<1>1. CASE c \in Sends /\ RouteSend(c, s)
  <2>1. PICK r \in Sessions \cup {NoSession} :
           /\ sess' = [sess EXCEPT ![c] = r]
           /\ EnterSemaphore(c, r)
           /\ \/ r = NoSession /\ holder' = holder
              \/ /\ r \in Sessions /\ holder[r] = None
                 /\ holder' = [holder EXCEPT ![r] = c]
    BY <1>0, <1>1, RouteSendIs
  <2>2. CASE permits > 0 /\ pc' = [pc EXCEPT ![c] = "spawning"]
    <3>1. Promise!Serve(c, r)
      BY <1>0, <1>1, <2>1, <2>2, SeatTaken
    <3> QED
      BY <1>1, <3>1 DEF Promise!Next
  <2>3. CASE pc' = [pc EXCEPT ![c] = "queued"]
    <3>1. \A d \in Sends : d # c => pc'[d] = pc[d] /\ sess'[d] = sess[d]
      BY <1>0, <2>1, <2>3 DEF Types, Calls
    <3>2. pc'[c] = "queued"
      BY <1>0, <2>3 DEF Types
    <3> QED
      BY <3>1, <3>2, StaysQuiet
  <2> QED
    BY <1>0, <1>1, <2>1, <2>2, <2>3, EnterIs
<1>2. CASE c \in Streams /\ RouteStream(c, s)
  <2>1. \A d \in Sends : pc'[d] = pc[d] /\ sess'[d] = sess[d]
    BY <1>0, <1>2, Apart DEF RouteStream, Goto, Types, Calls
  <2> QED
    BY <2>1, StaysQuiet
<1> QED
  BY <1>1, <1>2 DEF Route

\* The steps of a call, one by one.
LEMMA CallPromised ==
  ASSUME IInv, NEW c \in Calls, Call(c) \/ SendStep(c) \/ StreamStep(c) \/ ProcessExits(c)
  PROVE  Quiet \/ Promise!Next
<1>0. Types /\ Permits /\ Held /\ Tries
  BY DEF IInv
<1>1. CASE Call(c)
  <2>1. PICK s \in Sessions \cup {NoSession} :
          \/ Route(c, s)
          \/ Goto(c, "sdk") /\ sess' = [sess EXCEPT ![c] = s]
    BY <1>1 DEF Call
  <2>2. pc[c] = "idle"
    BY <1>1 DEF Call
  <2>3. CASE Goto(c, "sdk") /\ sess' = [sess EXCEPT ![c] = s]
    <3>1. \A d \in Sends : d # c => pc'[d] = pc[d] /\ sess'[d] = sess[d]
      BY <1>0, <2>3 DEF Goto, Types, Calls
    <3>2. pc'[c] = "sdk"
      BY <1>0, <2>3 DEF Goto, Types
    <3> QED
      BY <2>2, <3>1, <3>2, StaysQuiet
  <2> QED
    BY <2>1, <2>2, <2>3, RoutingPromised
<1>2. CASE SdkFails(c)
  <2>1. sess[c] \in Sessions \cup {NoSession}
    BY <1>0 DEF Types
  <2> QED
    BY <1>2, <2>1, RoutingPromised DEF SdkFails
<1>3. CASE \E p \in {"output", "sleeping", "spawning"} :
             pc[c] \in {"spawning", "output", "sleeping"} /\ Goto(c, p) /\ sess' = sess
  <2>1. PICK p \in {"output", "sleeping", "spawning"} :
             pc[c] \in {"spawning", "output", "sleeping"} /\ Goto(c, p) /\ sess' = sess
    BY <1>3
  <2>2. \A d \in Sends : pc'[d] = IF d = c THEN p ELSE pc[d]
    BY <1>0, <2>1 DEF Goto, Types, Calls
  <2> QED
    BY <2>1, <2>2, StaysQuiet
<1>4. CASE c \in Sends /\ pc[c] \in {"sdk", "spawning", "output", "sleeping"}
           /\ Goto(c, "done") /\ sess' = sess
  <2>1. Promise!Finish(c)
    BY <1>0, <1>4, SeatLeft DEF Goto
  <2> QED
    BY <1>4, <2>1 DEF Promise!Next
<1>5. CASE c \in Streams /\ (\E p \in Places : Goto(c, p)) /\ sess' = sess
  <2>1. \A d \in Sends : pc'[d] = pc[d]
    BY <1>0, <1>5, Apart DEF Goto, Types, Calls
  <2> QED
    BY <1>5, <2>1, StaysQuiet
<1>6. CASE ProcessExits(c)
  BY <1>6, StaysQuiet DEF ProcessExits
<1>7. CASE ProcessCreated(c) \/ SendRateLimited(c)
  BY <1>3, <1>7 DEF ProcessCreated, SendRateLimited
<1>8. CASE SendRetry(c)
  <2>1. c \in Sends /\ pc[c] = "sleeping" /\ sess' = sess
    BY <1>0, <1>8 DEF SendRetry, Tries
  <2> QED
    BY <1>3, <1>4, <1>8, <2>1 DEF SendRetry, Leave
<1>9. CASE SdkAnswers(c)
  <2>1. pc[c] = "sdk" /\ Goto(c, "done") /\ sess' = sess
    BY <1>9 DEF SdkAnswers
  <2> QED
    BY <1>4, <1>5, <2>1 DEF Calls, Places
<1>10. CASE SpawnFails(c)
  BY <1>4, <1>5, <1>10 DEF SpawnFails, Leave, Places
<1>11. CASE SendReply(c) \/ Timeout(c)
  BY <1>4, <1>11 DEF SendReply, Timeout, Leave
<1>12. CASE StreamStep(c)
  <2>1. CASE StreamEnds(c) \/ StreamAborted(c)
    BY <1>5, <2>1 DEF StreamEnds, StreamAborted, Places
  <2>2. CASE StreamReaped(c)
    <3>1. pc[c] = "reaping" /\ sess' = sess /\ pc' = [pc EXCEPT ![c] = "done"]
      BY <2>2 DEF StreamReaped, Goto
    <3>2. \A d \in Sends : pc'[d] = IF d = c THEN "done" ELSE pc[d]
      BY <1>0, <3>1 DEF Types, Calls
    <3> QED
      BY <3>1, <3>2, StaysQuiet
  <2> QED
    BY <1>12, <2>1, <2>2 DEF StreamStep
<1> QED
  BY <1>1, <1>2, <1>6, <1>7, <1>8, <1>9, <1>10, <1>11, <1>12 DEF SendStep

\* The head of the queue takes a seat with the lock it has held since it queued.
LEMMA AcquirePromised ==
  ASSUME IInv, AcquirePermit
  PROVE  Promise!Next
<1> DEFINE c == Head(semQueue)
<1>0. Types /\ Line /\ Permits /\ Held
  BY DEF IInv
<1>1. c \in Sends /\ c = semQueue[1] /\ 1 \in 1..Len(semQueue)
  BY <1>0 DEF AcquirePermit, Types
<1>2. pc[c] = "queued"
  BY <1>0, <1>1 DEF Line, Queued
<1>3. permits > 0 /\ pc' = [pc EXCEPT ![c] = "spawning"] /\ sess' = sess
  BY DEF AcquirePermit, Goto
<1> HIDE DEF c
<1>4. sess[c] \in Sessions \cup {NoSession} /\ sess' = [sess EXCEPT ![c] = sess[c]]
  BY <1>0, <1>1, <1>3 DEF Types, Calls
<1>5. sess[c] # NoSession => holder[sess[c]] = c
  BY <1>0, <1>1, <1>2 DEF Held, Busy
<1>6. Promise!Serve(c, sess[c])
  BY <1>0, <1>1, <1>2, <1>3, <1>4, <1>5, SeatTaken
<1> QED
  BY <1>1, <1>4, <1>6 DEF Promise!Next

LEMMA CancelPromised ==
  ASSUME IInv, NEW c \in Cancels, Cancel(c)
  PROVE  Promise!Next
<1>1. c \in Sends /\ Types
  BY ProcessAssumption DEF IInv
<1>2. /\ pc[c] \in {"sdk", "queued", "spawning", "output", "sleeping"}
      /\ Goto(c, "done") /\ sess' = sess
  BY DEF Cancel, CancelQueued, Leave
<1>3. Promise!Finish(c)
  BY <1>1, <1>2, SeatLeft DEF Goto
<1> QED
  BY <1>1, <1>3 DEF Promise!Next

\* Processes, permits, locks, the queue, retries, cancellations and drains keep
\* what the pool promises: every send is served once and undisturbed, with fewer
\* than max_concurrent_sessions others, or not at all.
THEOREM Implements == Spec => KeepsPromise
<1>1. Init => Promise!Init
  BY ProcessAssumption DEF Init, Promise!Init, Phase, ServedOn, UsesPermit, Calls
<1>2. IInv /\ [Next]_vars =>
        [Promise!Next]_<<[c \in Sends |-> Phase(c)], [c \in Sends |-> ServedOn(c)]>>
  <2> SUFFICES ASSUME IInv, [Next]_vars
               PROVE  Promise!Next \/ UNCHANGED Mapped
    BY DEF Mapped
  <2>1. CASE UNCHANGED vars \/ Drain
    <3>1. pc' = pc /\ sess' = sess
      BY <2>1 DEF vars, callVars, Drain, DrainStarts, DrainSnapshot, DrainFinishes,
                  DrainTimeout, UpdateEnds
    <3> QED
      BY <3>1, StaysQuiet, QuietStutters
  <2> QED
    BY <2>1, CallPromised, AcquirePromised, CancelPromised, QuietStutters DEF Next
<1> QED
  BY <1>1, <1>2, Invariance, PTL DEF Spec, KeepsPromise, Promise!Spec

-----------------------------------------------------------------------------
(***************************************************************************)
(* The files behind the prompts, for every set of agents and of headings   *)
(* and any number of releases, edits and evolutions.                       *)
(***************************************************************************)
Filed ==
  /\ soul = [a \in Agents |-> soul[a]]
  /\ edit = [a \in Agents |-> edit[a]]

\* What a user wrote is in the file: no step undoes it that starts where it is.
FileInv == Filed /\ EditsSurvive

\* A write that keeps what is still a user's undoes nothing.
LEMMA KeepingUndoesNothing ==
  ASSUME FileInv, NEW a \in Agents, NEW f, NEW e,
         Write(a, f), edit' = [edit EXCEPT ![a] = e], e \subseteq f
  PROVE  FileInv'
<1>1. Filed'
  BY DEF FileInv, Filed, Write
<1>2. ASSUME NEW b \in Agents PROVE edit'[b] \subseteq soul'[b]
  <2>1. CASE b = a
    BY <2>1 DEF FileInv, Filed, Write
  <2>2. CASE b # a
    BY <2>2 DEF FileInv, Filed, EditsSurvive, Write
  <2> QED
    BY <2>1, <2>2
<1> QED
  BY <1>1, <1>2 DEF FileInv, EditsSurvive

\* The merge of a template keeps what is there.
LEMMA MergeAdds ==
  ASSUME NEW f
  PROVE  f \subseteq Merged(f)
BY DEF Merged

LEMMA FilesInit == WorkInit => FileInv
BY DEF WorkInit, FileInv, Filed, EditsSurvive

LEMMA StartWrites ==
  ASSUME FileInv, NEW a \in Agents, Bootstrap(a) \/ Merge(a)
  PROVE  FileInv'
<1>1. edit' = [edit EXCEPT ![a] = edit[a]] /\ edit[a] \subseteq soul[a]
  BY DEF Bootstrap, Merge, FileInv, Filed, EditsSurvive
<1>2. CASE UNCHANGED files
  BY <1>2 DEF FileInv, Filed, EditsSurvive, files, Bootstrap, Merge
<1>3. CASE soul[a] = Absent /\ Write(a, Merged(Absent))
  BY <1>1, <1>3, MergeAdds, KeepingUndoesNothing
<1>4. CASE Write(a, Merged(soul[a]))
  <2>1. edit[a] \subseteq Merged(soul[a])
    BY <1>1, MergeAdds
  <2> QED
    BY <1>1, <1>4, <2>1, KeepingUndoesNothing
<1> QED
  BY <1>2, <1>3, <1>4 DEF Bootstrap, Merge

LEMMA UserWrites ==
  ASSUME FileInv, NEW a \in Agents, NEW h \in Headings, UserEdits(a, h)
  PROVE  FileInv'
<1>1. PICK new :
         /\ Write(a, Without(soul[a], h) \cup new)
         /\ edit' = [edit EXCEPT ![a] = Without(edit[a], h) \cup new]
  BY DEF UserEdits
<1>2. Without(edit[a], h) \cup new \subseteq Without(soul[a], h) \cup new
  BY DEF FileInv, EditsSurvive, Without
<1> QED
  BY <1>1, <1>2, KeepingUndoesNothing

LEMMA ChatWrites ==
  ASSUME FileInv, NEW a \in Agents, NEW h \in Headings, ChatReplaces(a, h)
  PROVE  FileInv'
<1>1. PICK S \in SUBSET {Sub} : Write(a, Section(h, S, <<"user", edits>>))
  BY DEF ChatReplaces
<1> DEFINE f == Section(h, S, <<"user", edits>>)
<1> HIDE DEF f
<1>2. soul'[a] = f
  BY <1>1 DEF Write, FileInv, Filed, f
<1>3. edit' = [edit EXCEPT ![a] = f]
  BY <1>2 DEF ChatReplaces
<1> QED
  BY <1>1, <1>3, KeepingUndoesNothing DEF f

\* A replacement takes from the file what it takes from the user's parts of it.
LEMMA EvolutionWrites ==
  ASSUME FileInv, NEW a \in Agents, NEW p \in Proposals, Applies(a, p)
  PROVE  FileInv'
<1> DEFINE e == IF p.op = "replace" THEN edit[a] \ Named(edit[a], p.heading) ELSE edit[a]
<1>1. PICK f \in Operated(soul[a], p) : Write(a, f)
  BY DEF Applies, Base
<1>2. edit' = [edit EXCEPT ![a] = e]
  BY DEF Applies
<1>3. edit[a] \subseteq soul[a] /\ e \subseteq edit[a]
  BY DEF FileInv, EditsSurvive
<1>4. CASE f \in Appended(soul[a], p.heading)
  <2>1. soul[a] \subseteq f
    BY <1>4 DEF Appended
  <2> HIDE DEF e
  <2> QED
    BY <1>1, <1>2, <1>3, <2>1, KeepingUndoesNothing
<1>5. CASE p.op = "replace" /\ soul[a] \ Named(soul[a], p.heading) \subseteq f
  <2>1. e \subseteq f
    BY <1>3, <1>5 DEF Named
  <2> HIDE DEF e
  <2> QED
    BY <1>1, <1>2, <2>1, KeepingUndoesNothing
<1> QED
  BY <1>1, <1>4, <1>5 DEF Operated

\* All the others leave the files alone.
LEMMA NobodyWrites ==
  ASSUME FileInv, UNCHANGED <<files, edit>>
  PROVE  FileInv'
BY DEF FileInv, Filed, EditsSurvive, files

Writers ==
  \/ \E a \in Agents : Bootstrap(a) \/ Merge(a) \/ \E p \in Proposals : Applies(a, p)
  \/ UserSteps

LEMMA OnlyWritersWrite == [WorkNext]_workVars => Writers \/ UNCHANGED <<files, edit>>
BY DEF WorkNext, Writers, workVars, files, Start, Load, Watch, Crash, Release, CheckAll,
       RunEvolution, Turn, SessionEnds, Ask, AppliesNone

LEMMA FilesNext == FileInv /\ [WorkNext]_workVars => FileInv'
BY OnlyWritersWrite, NobodyWrites, StartWrites, UserWrites, ChatWrites, EvolutionWrites
   DEF Writers, UserSteps

LEMMA FilesAlways == WorkSpec => []FileInv
BY FilesInit, FilesNext, PTL DEF WorkSpec

\* What a user wrote stays through every release, restart and evolution, also
\* through a mutation that was asked for before the edit (evolution.py:227).
THEOREM EditsAlwaysSurvive == WorkSpec => []EditsSurvive
<1>1. FileInv => EditsSurvive
  BY DEF FileInv
<1> QED
  BY <1>1, FilesAlways, PTL

\* The types, with what the daemon's stages say about its work.
Versions == {"own", "release", "user", "evolution"} \X Nat
Parts == {s \in Headings \X (Headings \cup {Sub}) \X Versions : s[2] \in {s[1], Sub}}
Files == SUBSET Parts
FileTypes ==
  /\ soul \in [Agents -> Files] /\ identity \in [Agents -> Files]
  /\ warm \in [Agents -> Files] /\ shown \in [Agents -> Files]
  /\ mtime \in [Agents -> Nat] /\ seen \in [Agents -> Nat]
  /\ \A a \in Agents : seen[a] <= mtime[a]
  /\ release \in 1..Len(Templates) /\ edits \in Nat /\ cycles \in Nat
Stages ==
  /\ stage \in {"down", "bootstrap", "merge", "load", "loaded", "running"}
  /\ todo # {} <=> stage \in {"bootstrap", "merge"}
  /\ cycle # {} => stage = "running"

\* Whoever writes a file writes sections with headings of its template, of the
\* user or of a proposal, and the file's time goes up.
LEMMA WrittenFiles ==
  ASSUME FileTypes, NEW a \in Agents, NEW f \in Files, Write(a, f),
         UNCHANGED <<warm, seen, release>>, identity' \in [Agents -> Files],
         shown' \in [Agents -> Files], edits' \in Nat, cycles' \in Nat
  PROVE  FileTypes'
<1>1. soul' \in [Agents -> Files]
  BY DEF FileTypes, Write
<1>2. mtime' \in [Agents -> Nat] /\ \A b \in Agents : mtime[b] <= mtime'[b]
  <2>1. mtime' = [mtime EXCEPT ![a] = mtime[a] + 1] /\ mtime \in [Agents -> Nat]
    BY DEF FileTypes, Write
  <2>2. \A b \in Agents : mtime[b] \in Nat /\ mtime[b] + 1 \in Nat /\ mtime[b] <= mtime[b] + 1
    BY <2>1
  <2>3. \A b \in Agents : mtime'[b] = IF b = a THEN mtime[a] + 1 ELSE mtime[b]
    BY <2>1
  <2> QED
    BY <2>1, <2>2, <2>3
<1>3. \A b \in Agents : seen'[b] <= mtime'[b]
  <2> TAKE b \in Agents
  <2>1. seen'[b] = seen[b] /\ seen[b] \in Nat /\ mtime[b] \in Nat /\ mtime'[b] \in Nat
    BY <1>2 DEF FileTypes
  <2>2. seen[b] <= mtime[b] /\ mtime[b] <= mtime'[b]
    BY <1>2 DEF FileTypes
  <2> QED
    BY <2>1, <2>2
<1> QED
  BY <1>1, <1>2, <1>3 DEF FileTypes

LEMMA SectionType ==
  ASSUME NEW h \in Headings, NEW S \in SUBSET {Sub}, NEW v \in Versions
  PROVE  Section(h, S, v) \in Files
BY DEF Files, Parts, Section

LEMMA MergedType ==
  ASSUME FileTypes, NEW f \in Files
  PROVE  Merged(f) \in Files
<1>1. Template \subseteq Headings
  BY WorkspacesAssumption DEF FileTypes, Template
<1>2. <<"release", release>> \in Versions
  BY WorkspacesAssumption DEF FileTypes, Versions
<1>3. \A h \in Template : Section(h, {}, <<"release", release>>) \in Files
  BY <1>1, <1>2, SectionType
<1> QED
  BY <1>3 DEF Files, Merged

LEMMA OperatedType ==
  ASSUME NEW f \in Files, NEW p \in Proposals, Mutation \in Versions, NEW g \in Operated(f, p)
  PROVE  g \in Files
<1>1. p.heading \in Headings \cup {Sub}
  BY DEF Proposals
<1>2. CASE g \in Appended(f, p.heading)
  <2>1. CASE p.heading \in Headings
    BY <1>2, <2>1, SectionType DEF Appended, Files
  <2>2. CASE p.heading \notin Headings
    BY <1>1, <1>2, <2>2 DEF Appended, Files, Parts, Sections
  <2> QED
    BY <2>1, <2>2
<1>3. CASE g = (f \ Named(f, p.heading))
                 \cup {<<s[1], p.heading, Mutation>> : s \in Named(f, p.heading)}
  <2>1. ASSUME NEW s \in Named(f, p.heading) PROVE <<s[1], p.heading, Mutation>> \in Parts
    BY <1>1, <2>1 DEF Named, Files, Parts
  <2> QED
    BY <1>3, <2>1 DEF Files
<1> QED
  BY <1>2, <1>3 DEF Operated

LEMMA FileTypesInit == WorkInit => FileTypes /\ Stages
<1> SUFFICES ASSUME WorkInit PROVE FileTypes /\ Stages
  OBVIOUS
<1> DEFINE own == CHOOSE h \in Headings : TRUE
<1>1. own \in Headings
  BY WorkspacesAssumption
<1>2. <<"own", 0>> \in Versions
  BY DEF Versions
<1>3. Absent \in Files /\ Section(own, {}, <<"own", 0>>) \in Files
  BY <1>1, <1>2, SectionType DEF Files, Absent
<1>4. soul = [a \in Agents |-> IF a \in Staff THEN Absent ELSE Section(own, {}, <<"own", 0>>)]
  BY DEF WorkInit
<1> HIDE DEF own
<1>5. soul \in [Agents -> Files]
  BY <1>3, <1>4
<1>6. 1 \in 1..Len(Templates)
  BY WorkspacesAssumption
<1> QED
  BY <1>3, <1>5, <1>6 DEF WorkInit, FileTypes, Stages, Cold, NobodyAsked, Absent

LEMMA StagesNext == Stages /\ [WorkNext]_workVars => Stages'
<1> SUFFICES ASSUME Stages, [WorkNext]_workVars PROVE Stages'
  OBVIOUS
<1>1. CASE Start \/ Load \/ Watch \/ Crash \/ Release \/ CheckAll \/ RunEvolution
  BY <1>1, WorkspacesAssumption
     DEF Stages, Start, Load, Watch, Crash, Release, CheckAll, RunEvolution, daemon
<1>2. ASSUME NEW a \in Agents, Bootstrap(a) \/ Merge(a) PROVE Stages'
  BY <1>2, WorkspacesAssumption DEF Stages, Bootstrap, Merge, After
<1>3. ASSUME NEW a \in Agents, Turn(a) \/ SessionEnds(a) \/ Ask(a) \/ AppliesNone(a) PROVE Stages'
  BY <1>3 DEF Stages, Turn, SessionEnds, Ask, AppliesNone, Ends
<1>4. ASSUME NEW a \in Agents, NEW p \in Proposals, Applies(a, p) PROVE Stages'
  BY <1>4 DEF Stages, Applies, Ends
<1>5. CASE UserSteps
  BY <1>5 DEF Stages, UserSteps, UserEdits, ChatReplaces, daemon
<1>6. CASE UNCHANGED workVars
  BY <1>6 DEF Stages, workVars
<1> QED
  BY <1>1, <1>2, <1>3, <1>4, <1>5, <1>6 DEF WorkNext

LEMMA FileTypesNext == FileTypes /\ [WorkNext]_workVars => FileTypes'
<1> SUFFICES ASSUME FileTypes, [WorkNext]_workVars PROVE FileTypes'
  OBVIOUS
<1>0. Absent \in Files /\ <<"user", edits>> \in Versions /\ Mutation \in Versions
  BY DEF Absent, Files, Versions, Mutation, FileTypes
<1>1. CASE Start \/ Load \/ Watch \/ Crash \/ Release \/ CheckAll \/ RunEvolution
  <2>1. CASE Start \/ Load \/ Watch
    BY <2>1 DEF FileTypes, Start, Load, Watch, files, bounds
  <2>2. CASE Crash
    <3>1. /\ [a \in Agents |-> Cold] \in [Agents -> Files]
          /\ [a \in Agents |-> NobodyAsked] \in [Agents -> Files]
      BY <1>0 DEF Cold, NobodyAsked
    <3> QED
      BY <2>2, <3>1 DEF FileTypes, Crash, files, bounds
  <2>3. CASE Release
    BY <2>3, WorkspacesAssumption DEF FileTypes, Release, files, daemon
  <2>4. CASE CheckAll
    BY <2>4 DEF FileTypes, CheckAll, files, bounds
  <2>5. CASE RunEvolution
    BY <2>5 DEF FileTypes, RunEvolution, files
  <2> QED
    BY <1>1, <2>1, <2>2, <2>3, <2>4, <2>5
<1>2. ASSUME NEW a \in Agents, Bootstrap(a) \/ Merge(a) PROVE FileTypes'
  <2>1. Merged(Absent) \in Files /\ Merged(soul[a]) \in Files
    BY <1>0, MergedType DEF FileTypes
  <2>2. CASE UNCHANGED files
    BY <1>2, <2>2 DEF FileTypes, Bootstrap, Merge, files, bounds
  <2>3. CASE Write(a, Merged(Absent)) \/ Write(a, Merged(soul[a]))
    BY <1>2, <2>1, <2>3, WrittenFiles DEF FileTypes, Bootstrap, Merge, bounds
  <2> QED
    BY <1>2, <2>2, <2>3 DEF Bootstrap, Merge
<1>3. ASSUME NEW a \in Agents, Turn(a) \/ SessionEnds(a) \/ Ask(a) \/ AppliesNone(a)
      PROVE  FileTypes'
  BY <1>0, <1>3
     DEF FileTypes, Turn, SessionEnds, Ask, AppliesNone, Ends, files, bounds, Cold, NobodyAsked
<1>4. ASSUME NEW a \in Agents, NEW p \in Proposals, Applies(a, p) PROVE FileTypes'
  <2>1. PICK f \in Operated(soul[a], p) : Write(a, f)
    BY <1>4 DEF Applies, Base
  <2>2. f \in Files
    BY <1>0, <2>1, OperatedType DEF FileTypes
  <2>3. identity' \in [Agents -> Files]
    BY <1>4, <2>1, <2>2 DEF FileTypes, Write, Applies
  <2>4. shown' \in [Agents -> Files]
    BY <1>0, <1>4 DEF FileTypes, Applies, Ends, NobodyAsked
  <2>5. UNCHANGED <<warm, seen, release, edits, cycles>>
    BY <1>4 DEF Applies, bounds
  <2> QED
    BY <2>1, <2>2, <2>3, <2>4, <2>5, WrittenFiles DEF FileTypes
<1>5. ASSUME NEW a \in Agents, NEW h \in Headings, UserEdits(a, h) PROVE FileTypes'
  <2>1. PICK new \in {{}} \cup {Section(h, S, <<"user", edits>>) : S \in SUBSET {Sub}} :
           Write(a, Without(soul[a], h) \cup new)
    BY <1>5 DEF UserEdits
  <2>2. new \in Files
    BY <1>0, <2>1, SectionType DEF Files
  <2>3. Without(soul[a], h) \cup new \in Files
    BY <2>2 DEF FileTypes, Files, Without
  <2>4. UNCHANGED <<warm, seen, release, identity, shown, cycles>> /\ edits' \in Nat
    BY <1>5 DEF FileTypes, UserEdits, daemon
  <2> QED
    BY <2>1, <2>3, <2>4, WrittenFiles DEF FileTypes
<1>6. ASSUME NEW a \in Agents, NEW h \in Headings, ChatReplaces(a, h) PROVE FileTypes'
  <2>1. PICK S \in SUBSET {Sub} : Write(a, Section(h, S, <<"user", edits>>))
    BY <1>6 DEF ChatReplaces
  <2>2. Section(h, S, <<"user", edits>>) \in Files
    BY <1>0, SectionType
  <2>3. identity' \in [Agents -> Files]
    BY <1>6, <2>1, <2>2 DEF FileTypes, Write, ChatReplaces
  <2>4. UNCHANGED <<warm, seen, release, shown, cycles>> /\ edits' \in Nat
    BY <1>6 DEF FileTypes, ChatReplaces
  <2> QED
    BY <2>1, <2>2, <2>3, <2>4, WrittenFiles DEF FileTypes
<1>7. CASE UNCHANGED workVars
  BY <1>7 DEF FileTypes, workVars
<1> QED
  BY <1>1, <1>2, <1>3, <1>4, <1>5, <1>6, <1>7 DEF WorkNext, UserSteps

\* A file has sections of known headings, in whatever copy of it, no copy is of a
\* later time than the file, and an evolution runs only while the daemon does.
THEOREM FilesTypeCorrect == WorkSpec => []WorkTypeOK
<1>1. FileTypes /\ Stages => WorkTypeOK
  BY DEF FileTypes, Stages, WorkTypeOK, Files, Parts, Sections
<1> QED
  BY <1>1, FileTypesInit, FileTypesNext, StagesNext, PTL DEF WorkSpec
=============================================================================
