--------------------------- MODULE Conversations ---------------------------
(***************************************************************************)
(* Conversations (memory/store.py, agents/orchestrator.py, core/daemon.py, *)
(* the chat commands of the integrations): which row of the conversations  *)
(* table a message belongs to, the Claude session it continues, what a     *)
(* forget or the expiry does to it, and the views the dashboard takes.     *)
(*                                                                         *)
(* A user_id is the sequence of its parts: "u:a" is <<u, a>>, the row of a *)
(* spawned task is <<u, "spawn", t, a>>.  Text is left out.                *)
(***************************************************************************)
EXTENDS Integers, Sequences, SequencesExt, FiniteSetsExt

CONSTANTS
    Users,
    Agents,
    Tasks,       \* ids of spawned tasks
    Names,       \* session ids a client may name that no row has
    MaxTurns,    \* bound: turns in a behaviour
    MaxRows,     \* bound: no row is made only to be looked at once there are so many
    MaxAge,      \* max_session_age_hours
    DayHours,    \* hours of a day
    MaxHour,     \* bound: the clock
    Backends,    \* "cli" (a process per turn), "sdk" (a warm session per agent)
    Env          \* "named" (clients name sessions), "legacy" (no agents left),
                 \* "delegate", "spawn", "beat", "peek", "crash"

ASSUME ConversationsAssumption ==
    /\ MaxTurns \in Nat /\ MaxRows \in Nat /\ MaxHour \in Nat
    /\ MaxAge \in Nat \ {0} /\ DayHours \in Nat \ {0}
    /\ Backends \subseteq {"cli", "sdk"}

VARIABLES
    convs,      \* the rows of conversations, by id
    turns,      \* every turn so far
    owner,      \* task_queue.agent_name of the spawned tasks
    metrics,    \* agent_metrics: what each agent has cost
    confirmed,  \* _confirmed_sessions
    now,        \* the hour
    fence       \* history: the rows a user had forgotten up to

vars == <<convs, turns, owner, metrics, confirmed, now, fence>>

Nobody == "nobody"
NoSession == <<>>   \* no session_id

Init ==
    /\ convs = <<>>
    /\ turns = <<>>
    /\ owner = [t \in Tasks |-> Nobody]
    /\ metrics = [a \in Agents |-> 0]
    /\ confirmed = {}
    /\ now = MaxAge
    /\ fence = [u \in Users |-> 0]

-----------------------------------------------------------------------------
\* The table

Open(T, uid) == {i \in DOMAIN T : T[i].uid = uid /\ T[i].status = "active"}
WithSession(T, s) == {i \in DOMAIN T : s # NoSession /\ T[i].session = s}
Newest(T, S) == CHOOSE i \in S : \A j \in S : T[i].last >= T[j].last

\* A slip for the checks: a message that names no session gets a new row.
AlwaysNew(T, uid, s) ==
    IF WithSession(T, s) # {} THEN CHOOSE i \in WithSession(T, s) : TRUE ELSE Len(T) + 1

\* The row get_or_create_conversation answers; the next one when it inserts.
Row(T, uid, s) ==
    IF WithSession(T, s) # {} THEN CHOOSE i \in WithSession(T, s) : TRUE
    ELSE IF Open(T, uid) # {} THEN Newest(T, Open(T, uid)) ELSE Len(T) + 1

GetOrCreate(T, uid, s) ==
    IF Row(T, uid, s) \in DOMAIN T THEN T
    ELSE Append(T, [uid |-> uid, status |-> "active", last |-> now, cost |-> 0,
                    session |-> IF s = NoSession THEN <<"row", Len(T) + 1>> ELSE s])

(***************************************************************************)
(* update_conversation.  The session is written only when there is one;    *)
(* the unique index refuses one that another row has.                      *)
(***************************************************************************)
Clashes(i, s) == WithSession(convs, s) \ {i} # {}
Updated(i, s, cost) ==
    [convs EXCEPT ![i].last = now, ![i].cost = @ + cost,
                  ![i].session = IF s = NoSession THEN @ ELSE s]

Archived(rows) ==
    [i \in DOMAIN convs |->
       IF convs[i].status = "active" /\ i \in rows THEN [convs[i] EXCEPT !.status = "archived"]
       ELSE convs[i]]

-----------------------------------------------------------------------------
\* Turns

(***************************************************************************)
(* A message is stored in its row and sent with the session of that row.   *)
(* The CLI resumes the session if this daemon has seen Claude answer with  *)
(* it and no turn holds it; otherwise Claude starts one of its own.        *)
(***************************************************************************)
Holds(s) == \E n \in DOMAIN turns : turns[n].at = "asked" /\ turns[n].session = s
Resumes(s) == s \in confirmed /\ ~Holds(s)

Answered == {"over", "due", "again"}

\* History: the conversation has been answered, and by nobody else meanwhile.
Follows(i) ==
    /\ \E n \in DOMAIN turns : turns[n].conv = i /\ turns[n].at \in Answered
    /\ \A n \in DOMAIN turns : turns[n].at # "asked"

Begin(T, uid, s, after, a, kind) ==
    LET i  == Row(T, uid, s)
        T2 == GetOrCreate(T, uid, s)
    IN /\ Len(turns) < MaxTurns
       /\ convs' = T2
       /\ turns' = Append(turns, [conv |-> i, agent |-> a, kind |-> kind, at |-> "asked",
                                  named |-> s # NoSession, session |-> T2[i].session,
                                  resumes |-> Resumes(T2[i].session),
                                  follows |-> Follows(i), after |-> after])

NamedSessions ==
    {NoSession} \cup IF "named" \notin Env THEN {}
                     ELSE {<<"client", x>> : x \in Names} \cup {convs[i].session : i \in DOMAIN convs}

\* send_to_agent and stream_to_agent
Ask(u, a) ==
    /\ \E s \in NamedSessions : Begin(convs, <<u, a>>, s, fence[u], a, "chat")
    /\ UNCHANGED <<owner, metrics, confirmed, now, fence>>

\* spawn_task: a user_id of its own
Spawn(u, a, t) ==
    /\ "spawn" \in Env
    /\ owner[t] = Nobody
    /\ Begin(convs, <<u, "spawn", t, a>>, NoSession, 0, a, "spawn")
    /\ owner' = [owner EXCEPT ![t] = a]
    /\ UNCHANGED <<metrics, confirmed, now, fence>>

(***************************************************************************)
(* agent_to_agent looks for the recent conversation of the delegator under *)
(* "agent:from", and then asks under "agent:from:to".                      *)
(***************************************************************************)
Delegate(f, a) ==
    /\ "delegate" \in Env
    /\ Begin(GetOrCreate(convs, <<"agent", f>>, NoSession), <<"agent", f, a>>, NoSession, 0, a,
             "chat")
    /\ UNCHANGED <<owner, metrics, confirmed, now, fence>>

\* handle_message when no agent is left
AskAlone(u) ==
    /\ "legacy" \in Env
    /\ Begin(convs, <<u>>, NoSession, fence[u], Nobody, "alone")
    /\ UNCHANGED <<owner, metrics, confirmed, now, fence>>

\* A heartbeat: the scheduler asks the agent, as one user of all of them.
Beat(a) ==
    /\ "beat" \in Env
    /\ Begin(convs, <<"scheduler", a>>, NoSession, 0, a, "beat")
    /\ UNCHANGED <<owner, metrics, confirmed, now, fence>>

\* The session an answer reports: of the warm session, the resumed one, or new.
Reported(n, backend) ==
    IF backend = "sdk" THEN <<"sdk", turns[n].agent>>
    ELSE IF turns[n].resumes THEN turns[n].session ELSE <<"claude", n>>

\* A slip for the checks: the pointer follows whatever session answered.
FollowPointer(n, s) == s
\* An agent's turn never moves the pointer of its row to another session.
Pointer(n, s) == IF turns[n].kind # "alone" /\ s # turns[n].session THEN NoSession ELSE s

\* hub.auto_parallel is awaited between the row and the metric.
Announced(n, s) == turns[n].kind # "alone" /\ s # NoSession /\ s # turns[n].session

Measured(n, cost) ==
    IF turns[n].kind = "alone" THEN metrics ELSE [metrics EXCEPT ![turns[n].agent] = @ + cost]

\* Where a turn is with its metric: the scheduler owes a heartbeat another one.
Recorded(n) == IF turns[n].kind = "beat" THEN "due" ELSE "over"

(***************************************************************************)
(* The answer: one more message, the row, and the metric.  An error comes  *)
(* without a session and costs nothing.                                    *)
(***************************************************************************)
Settle(n, s, cost) ==
    LET i == turns[n].conv IN
    IF Clashes(i, Pointer(n, s))
    THEN /\ turns' = [turns EXCEPT ![n].at = "raised"]
         /\ UNCHANGED <<convs, metrics>>
    ELSE /\ convs' = Updated(i, Pointer(n, s), cost)
         /\ turns' = [turns EXCEPT ![n].at = IF s = NoSession THEN "failed"
                                              ELSE IF Announced(n, s) THEN "told" ELSE Recorded(n)]
         /\ metrics' = IF Announced(n, s) THEN metrics ELSE Measured(n, cost)

Answer(n, backend) ==
    /\ turns[n].at = "asked"
    /\ turns[n].agent = Nobody => backend = "cli"
    /\ Settle(n, Reported(n, backend), 1)
    /\ confirmed' = confirmed \cup {Reported(n, backend)}
    /\ UNCHANGED <<owner, now, fence>>
AnswerFails(n) ==
    /\ turns[n].at = "asked"
    /\ Settle(n, NoSession, 0)
    /\ UNCHANGED <<owner, confirmed, now, fence>>
Measure(n) ==
    /\ turns[n].at = "told"
    /\ metrics' = Measured(n, 1)
    /\ turns' = [turns EXCEPT ![n].at = Recorded(n)]
    /\ UNCHANGED <<convs, owner, confirmed, now, fence>>

\* The turn of a heartbeat has come back to the scheduler, which records its
\* cost once more, unless something raised in between.
BeatReturns(n) ==
    /\ turns[n].at = "due"
    /\ \/ /\ metrics' = Measured(n, 1)
          /\ turns' = [turns EXCEPT ![n].at = "again"]
       \/ /\ turns' = [turns EXCEPT ![n].at = "over"]
          /\ UNCHANGED metrics
    /\ UNCHANGED <<convs, owner, confirmed, now, fence>>

\* The reader of a stream goes away: the question stays, no answer is stored.
Abandon(n) ==
    /\ turns[n].at = "asked" /\ turns[n].kind = "chat"
    /\ turns' = [turns EXCEPT ![n].at = "lost"]
    /\ UNCHANGED <<convs, owner, metrics, confirmed, now, fence>>

-----------------------------------------------------------------------------
\* The commands and the clock

\* /forget
Forget(u) ==
    /\ convs' = Archived({i \in DOMAIN convs : convs[i].uid = <<u>>})
    /\ fence' = [fence EXCEPT ![u] = Len(convs)]
    /\ fence' # fence
    /\ UNCHANGED <<turns, owner, metrics, confirmed, now>>

\* /session shows the row of the bare user id, and makes it if need be.
Peek(u) ==
    /\ "peek" \in Env /\ Len(convs) < MaxRows
    /\ convs' = GetOrCreate(convs, <<u>>, NoSession)
    /\ convs' # convs
    /\ UNCHANGED <<turns, owner, metrics, confirmed, now, fence>>

(***************************************************************************)
(* cleanup_expired, every six hours and at the end of a deep sleep.        *)
(* last_active is written with a T between date and hour and compared, as  *)
(* text, with a cutoff that has a blank there: on the day of the cutoff    *)
(* every stamp is the greater one.                                         *)
(***************************************************************************)
Day(h) == h \div DayHours
\* A slip for the checks: the dates alone, with the cutoff's own day included.
BeforeOrOn(stamp, cutoff) == Day(stamp) <= Day(cutoff)

Before(stamp, cutoff) == Day(stamp) < Day(cutoff)

Cleanup ==
    /\ convs' = Archived({i \in DOMAIN convs : Before(convs[i].last, now - MaxAge)})
    /\ convs' # convs
    /\ UNCHANGED <<turns, owner, metrics, confirmed, now, fence>>

Hour ==
    /\ now < MaxHour
    /\ now' = now + 1
    /\ UNCHANGED <<convs, turns, owner, metrics, confirmed, fence>>

\* The process dies and another one starts.
Crash ==
    /\ "crash" \in Env
    /\ turns' = [n \in DOMAIN turns |->
                   IF turns[n].at \in {"asked", "told"} THEN [turns[n] EXCEPT !.at = "lost"]
                   ELSE IF turns[n].at = "due" THEN [turns[n] EXCEPT !.at = "over"]
                   ELSE turns[n]]
    /\ turns' # turns
    /\ confirmed' = {}
    /\ UNCHANGED <<convs, owner, metrics, now, fence>>

Next ==
    \/ \E u \in Users :
         \/ Forget(u) \/ Peek(u) \/ AskAlone(u)
         \/ \E a \in Agents :
              \/ Ask(u, a)
              \/ \E t \in Tasks : Spawn(u, a, t)
    \/ \E f, a \in Agents : Delegate(f, a)
    \/ \E a \in Agents : Beat(a)
    \/ \E n \in DOMAIN turns :
         \/ \E b \in Backends : Answer(n, b)
         \/ AnswerFails(n) \/ Measure(n) \/ BeatReturns(n) \/ Abandon(n)
    \/ Cleanup \/ Hour \/ Crash

Spec == Init /\ [][Next]_vars

-----------------------------------------------------------------------------
\* The views

(***************************************************************************)
(* _attribute_session: what follows ":spawn:" is taken for the task id, in *)
(* any other user_id the last part for the agent.                          *)
(***************************************************************************)
SpawnAt(uid) == {k \in 2..Len(uid) - 1 : uid[k] = "spawn"}
TaskPart(uid) == SubSeq(uid, Min(SpawnAt(uid)) + 1, Len(uid))

Attributed(uid) ==
    IF SpawnAt(uid) # {}
    THEN IF \E t \in Tasks : TaskPart(uid) = <<t>>
         THEN owner[CHOOSE t \in Tasks : TaskPart(uid) = <<t>>]
         ELSE Nobody
    ELSE IF Len(uid) > 1 THEN Last(uid) ELSE Nobody

(***************************************************************************)
(* get_cost_snapshot without a window: per agent the metrics, or, for one  *)
(* that has none, what a chat user_id of the agent has cost.               *)
(***************************************************************************)
Cost(rows) == SumFunctionOnSet([i \in DOMAIN convs |-> convs[i].cost], rows)
CostOf(uid) == Cost({i \in DOMAIN convs : convs[i].uid = uid})
ChatIds(a) ==
    {uid \in {convs[i].uid : i \in DOMAIN convs} :
        ~(Len(uid) > 2 /\ uid[2] = "spawn") /\ Len(uid) > 1 /\ Last(uid) = a}
Measures(a) ==
    \E n \in DOMAIN turns : turns[n].agent = a /\ turns[n].at \in Answered \union {"failed"}

\* A slip for the checks: conversations are added to the metrics.
ByAgentTwice(a) ==
    metrics[a] + IF ChatIds(a) = {} THEN 0 ELSE CostOf(CHOOSE uid \in ChatIds(a) : TRUE)

ByAgent(a) ==
    IF Measures(a) THEN metrics[a]
    ELSE IF ChatIds(a) = {} THEN 0 ELSE CostOf(CHOOSE uid \in ChatIds(a) : TRUE)

ConversationTotal == Cost(DOMAIN convs)
MetricsTotal == SumFunctionOnSet(metrics, Agents)
Total == Max({ConversationTotal, MetricsTotal})

-----------------------------------------------------------------------------
\* Properties

TypeOK ==
    /\ \A i \in DOMAIN convs :
         /\ convs[i].status \in {"active", "archived"}
         /\ convs[i].last \in MaxAge..now
         /\ convs[i].cost \in 0..MaxTurns
    /\ \A n \in DOMAIN turns :
         /\ turns[n].conv \in DOMAIN convs
         /\ turns[n].at \in Answered \union {"asked", "told", "failed", "lost", "raised"}
    /\ metrics \in [Agents -> 0..2 * MaxTurns]
    /\ now \in MaxAge..MaxHour

(***************************************************************************)
(* Whatever turns, forgets, expiries and restarts overlap, a user and an   *)
(* agent have at most one open conversation, so that the next message has  *)
(* one thread to go on with (store.py:306).                                *)
(***************************************************************************)
OneOpenThread == \A i \in DOMAIN convs : Cardinality(Open(convs, convs[i].uid)) <= 1

(***************************************************************************)
(* No answer is lost to the unique index on session_id, although every     *)
(* conversation with an agent is answered from that agent's one warm       *)
(* session (store.py:362, orchestrator.py:694).                            *)
(***************************************************************************)
PointersStayUnique == \A n \in DOMAIN turns : turns[n].at # "raised"

\* Heartbeats whose cost the scheduler has recorded once more.
RecordedAgain == {n \in DOMAIN turns : turns[n].at = "again"}

(***************************************************************************)
(* The agents' shares of the cost snapshot exceed its total by nothing but *)
(* the heartbeats that are recorded twice (scheduler/engine.py:462), even  *)
(* when a crash lost the metric of a turn whose conversation was charged   *)
(* (store.py:520: "the single source of truth").  That is so while no      *)
(* client names a session: a turn in another agent's conversation is       *)
(* counted for both until that agent has a metric of its own.              *)
(***************************************************************************)
SnapshotWithinTotal ==
    SumFunctionOnSet([a \in Agents |-> ByAgent(a)], Agents)
        <= Total + Cardinality(RecordedAgain)

(***************************************************************************)
(* A chat shows up under the agent that answers it, a delegated one too    *)
(* (store.py:643).  Spawned turns and turns that name another              *)
(* conversation's session are not covered.                                 *)
(***************************************************************************)
CreditedToItsAgent ==
    \A n \in DOMAIN turns :
        turns[n].kind = "chat" /\ ~turns[n].named =>
            Attributed(convs[turns[n].conv].uid) = turns[n].agent

(***************************************************************************)
(* An expiry archives only conversations that were idle for the configured *)
(* age, and leaves none that was idle for a day more (store.py:390).       *)
(***************************************************************************)
ExpiryInWindow ==
    [][Cleanup =>
         \A i \in DOMAIN convs :
             convs[i].status = "active" =>
                 IF convs'[i].status = "archived" THEN now - convs[i].last > MaxAge
                 ELSE now - convs[i].last < MaxAge + DayHours]_vars

(***************************************************************************)
(* After /forget the next message goes to a conversation that did not      *)
(* exist then (src/README.md:455: "Clear current session across all        *)
(* platforms").  It does not: the command archives the rows of the bare    *)
(* user id, and those of the agents are called "user:agent".               *)
(***************************************************************************)
ForgetStartsFresh ==
    \A n \in DOMAIN turns :
        ~turns[n].named => turns[n].conv > turns[n].after

(***************************************************************************)
(* A message to a conversation that has been answered, at a time when no   *)
(* turn runs, resumes its Claude session (src/README.md:370).  It does not *)
(* in a daemon that starts a process per turn: the session Claude answers  *)
(* with is not the id the row was made with, and a difference is taken for *)
(* a parallel turn whose session is not to be kept (orchestrator.py:692).  *)
(***************************************************************************)
FollowUpsResume == \A n \in DOMAIN turns : turns[n].follows => turns[n].resumes
=============================================================================
