------------------------------ MODULE SdkBridge ------------------------------
(***************************************************************************)
(* The SDK bridge: Node processes that keep warm model sessions            *)
(* (sdk/bridge.js), the Python objects that talk to them over two pipes    *)
(* (core/sdk_bridge.py), and the routing of turns that uses a warm session *)
(* first, recreates it once when it fails and then falls back to the CLI   *)
(* (core/process.py).  One key (agent:model) is modelled; keys share       *)
(* nothing but the Node process.                                           *)
(*                                                                         *)
(* A Node process and the SDKBridgeManager that spawned it are one entry   *)
(* of node; bridge is the one that ProcessManager._sdk_bridge refers to.   *)
(***************************************************************************)
EXTENDS Naturals, Sequences, FiniteSets, SequencesExt

CONSTANTS
    Sends, Streams, \* turns that come by send_to_agent and by stream_to_agent
    MaxNodes,       \* bound on the Node processes that are ever started
    Timeouts,       \* the requests that may time out while Node runs
    Faults,         \* "death" of a Node process, "cancel" of a turn, "drain",
                    \* "create" that fails, "start" that fails, starts that
                    \* "overlap"
    MaxAhead        \* bound on the events that the reader may lag behind

ASSUME BridgeAssumption ==
    /\ Sends \cap Streams = {}
    /\ MaxNodes \in Nat \ {0}
    /\ MaxAhead \in Nat \ {0}

VARIABLES
    bridge,    \* _sdk_bridge: 0 is None
    disabled,  \* _sdk_bridge_disabled
    node,      \* per Node process
    turn,      \* per turn: the await it is at
    drain      \* drain_all's shutdown of the bridge

vars == <<bridge, disabled, node, turn, drain>>

Turns == Sends \union Streams
Nodes == 1..MaxNodes

\* The requests of a turn, each made at most once; also the awaits they are at.
Stages == {"create", "send", "close", "recreate", "resend"}
Ended == {"done", "raised", "cancelled"}

(***************************************************************************)
(* os: "dead" is a process that is gone and whose returncode is not yet    *)
(* known.  ready: start() need wait no longer.  has, first, know: the key  *)
(* is in _sessions, _first_message, _system_prompts.  pend: _pending and   *)
(* _streams.  died: what the reader resolved when it met the end of        *)
(* stdout.  session: Node's session for the key, and whether it was told   *)
(* the system prompt.  busy: the sends Node works on.                      *)
(***************************************************************************)
Unborn == [os |-> "none", has |-> FALSE, first |-> FALSE, know |-> FALSE,
           pend |-> {}, died |-> {}, ready |-> FALSE, eof |-> FALSE,
           session |-> "none", busy |-> {}, in |-> <<>>, out |-> <<>>]

NewTurn == [pc |-> "idle", on |-> 0, full |-> TRUE, told |-> FALSE, how |-> "none"]

Init ==
    /\ bridge = 0
    /\ disabled = FALSE
    /\ node = [n \in Nodes |-> Unborn]
    /\ turn = [c \in Turns |-> NewTurn]
    /\ drain = "no"

-----------------------------------------------------------------------------
\* The Python side of a node

IsAlive(N, n) == n # 0 /\ N[n].os \in {"starting", "up", "dead"}
HasSession(N, n) == IsAlive(N, n) /\ N[n].has

\* A slip for the checks: the first-message flag survives the session.
PopKeepsFlag(N, n) == [N EXCEPT ![n].has = FALSE]

Pop(N, n) == [N EXCEPT ![n].has = FALSE, ![n].first = FALSE]

\* A slip for the checks: the command is written and nobody is registered.
WriteUnregistered(N, n, id, prompt) ==
    [N EXCEPT ![n].in = IF N[n].os = "up" THEN Append(@, [id |-> id, prompt |-> prompt]) ELSE @]

\* _send_command, to a process that runs or to a pipe nobody reads.
Write(N, n, id, prompt) ==
    [N EXCEPT ![n].pend = @ \union {id},
              ![n].in = IF N[n].os = "up" THEN Append(@, [id |-> id, prompt |-> prompt]) ELSE @]

(***************************************************************************)
(* The first message of a session carries the system prompt; the flag is   *)
(* set before the command is written.                                      *)
(***************************************************************************)
WriteSend(N, n, id) ==
    [Write(N, n, id, ~N[n].first /\ N[n].know) EXCEPT ![n].first = TRUE]

FallBack(c) == [turn[c] EXCEPT !.pc = "done", !.how = "cli", !.told = turn[c].full]

(***************************************************************************)
(* A turn makes its next request on whatever _sdk_bridge refers to.  None, *)
(* a dead process and a broken pipe raise, which ends in the fallback and  *)
(* leaves the entry that was registered before.                            *)
(***************************************************************************)
Request(c, stage, N) ==
    LET id == <<c, stage>>
        registered == IF bridge = 0 THEN N ELSE [N EXCEPT ![bridge].pend = @ \union {id}]
        flagged == IF bridge # 0 /\ stage \in {"send", "resend"}
                   THEN [registered EXCEPT ![bridge].first = TRUE] ELSE registered
    IN  \/ /\ IsAlive(N, bridge)
           /\ node' = IF stage \in {"send", "resend"} THEN WriteSend(N, bridge, id)
                      ELSE Write(N, bridge, id, FALSE)
           /\ turn' = [turn EXCEPT ![c].pc = stage, ![c].on = bridge]
        \/ /\ IsAlive(N, bridge) => N[bridge].os = "dead"
           /\ node' = flagged
           /\ turn' = [turn EXCEPT ![c] = FallBack(c)]

-----------------------------------------------------------------------------
\* A turn, from its ensure_agent_session to its answer

(***************************************************************************)
(* ensure_sdk_bridge and the create of a session that is not there.  A     *)
(* start that is under way is not noticed: it begins another one.          *)
(***************************************************************************)
EnsureStarts(c) ==
    /\ turn[c].pc = "idle"
    /\ ~disabled /\ ~IsAlive(node, bridge)
    /\ "overlap" \in Faults \/ \A d \in Turns : turn[d].pc # "start"
    /\ \E n \in Nodes :
         /\ node[n].os = "none" /\ \A m \in 1..(n - 1) : node[m].os # "none"
         /\ node' = [node EXCEPT ![n].os = "starting"]
         /\ turn' = [turn EXCEPT ![c].pc = "start", ![c].on = n]
    /\ UNCHANGED <<bridge, disabled, drain>>

\* create_session hands over the system prompt and writes the command.
Create(c, N, b) ==
    LET id == <<c, "create">>
        M  == [N EXCEPT ![b].know = TRUE] IN
    \/ /\ node' = Write(M, b, id, FALSE)
       /\ turn' = [turn EXCEPT ![c].pc = "create", ![c].on = b]
    \/ /\ N[b].os = "dead"       \* drain() raises and so does the whole turn
       /\ node' = [M EXCEPT ![b].pend = @ \union {id}]
       /\ turn' = [turn EXCEPT ![c].pc = "raised"]

Ensure(c) ==
    /\ turn[c].pc = "idle"
    /\ \/ /\ disabled \/ HasSession(node, bridge)
          /\ turn' = [turn EXCEPT ![c].pc = "search"]
          /\ UNCHANGED node
       \/ /\ ~disabled /\ IsAlive(node, bridge) /\ ~node[bridge].has
          /\ Create(c, node, bridge)
    /\ UNCHANGED <<bridge, disabled, drain>>

\* start() is over: the ready event came, or the reader met the end of
\* stdout, which start() takes for readiness.
BridgeStarted(c) ==
    LET n == turn[c].on IN
    /\ turn[c].pc = "start"
    /\ node[n].ready
    /\ bridge' = n
    /\ \/ IsAlive(node, n) /\ Create(c, node, n)
       \/ /\ node[n].os = "reaped"
          /\ turn' = [turn EXCEPT ![c].pc = "raised"]
          /\ node' = [node EXCEPT ![n].know = TRUE]
    /\ UNCHANGED <<disabled, drain>>

\* No ready event in ten seconds, or no Node or SDK to start.
StartFails(c) ==
    /\ "start" \in Faults
    /\ turn[c].pc = "start"
    /\ ~node[turn[c].on].ready
    /\ disabled' = TRUE
    /\ node' = [node EXCEPT ![turn[c].on].os = "reaped", ![turn[c].on].eof = TRUE]
    /\ turn' = [turn EXCEPT ![c].pc = "search"]
    /\ UNCHANGED <<bridge, drain>>

(***************************************************************************)
(* After the search: a warm session gets the dynamic context only, the CLI *)
(* the whole one.  The context is not computed again for a fallback.       *)
(***************************************************************************)
Route(c) ==
    /\ turn[c].pc = "search"
    /\ IF HasSession(node, bridge)
       THEN /\ node' = WriteSend(node, bridge, <<c, "send">>)
            /\ turn' = [turn EXCEPT ![c].pc = "send", ![c].on = bridge, ![c].full = FALSE]
       ELSE /\ turn' = [turn EXCEPT ![c] = FallBack(c)]
            /\ UNCHANGED node
    /\ UNCHANGED <<bridge, disabled, drain>>

\* After the recreation send_message looks whether there is a session,
\* stream_message does not.
Resend(c, N) ==
    IF c \in Streams \/ HasSession(N, bridge) THEN Request(c, "resend", N)
    ELSE /\ turn' = [turn EXCEPT ![c] = FallBack(c)]
         /\ node' = N

(***************************************************************************)
(* What a turn does with the outcome of the request it waits for:          *)
(* "created", "closed", "ok", "empty", "error", "dead" (an error with      *)
(* sessionDead), "died" (the process), "timeout".                          *)
(***************************************************************************)
SessionDead(c, what) == what = "dead" \/ (what = "died" /\ c \in Streams)

AfterSend(c, N, what) ==
    LET n == turn[c].on IN
    CASE what \in {"ok", "empty"} -> [N EXCEPT ![n].has = TRUE]
      [] SessionDead(c, what)     -> Pop(N, n)
      [] OTHER                    -> N

Continue(c, N, what, told) ==
    LET n == turn[c].on
        created == IF what = "created" THEN [N EXCEPT ![n].has = TRUE] ELSE N
    IN
    \/ /\ turn[c].pc = "create"
       /\ node' = created
       /\ turn' = [turn EXCEPT ![c].pc = "search"]
    \/ /\ turn[c].pc \in {"send", "resend"} /\ what = "ok"
       /\ node' = AfterSend(c, N, what)
       /\ turn' = [turn EXCEPT ![c].pc = "done", ![c].how = "sdk", ![c].told = told]
    \/ /\ turn[c].pc = "send" /\ what # "ok"
       /\ Request(c, "close", AfterSend(c, N, what))
    \/ /\ turn[c].pc = "close"
       /\ Request(c, "recreate", Pop(N, n))
    \/ /\ turn[c].pc = "recreate"
       /\ Resend(c, created)
    \/ /\ turn[c].pc = "resend" /\ what # "ok"
       /\ node' = AfterSend(c, N, what)
       /\ turn' = [turn EXCEPT ![c] = FallBack(c)]

\* The reader takes an event off stdout; nobody waits for it after a time-out
\* or a cancellation.
Dispatch(n) ==
    /\ node[n].out # <<>>
    /\ LET e == Head(node[n].out)
           c == e.id[1]
           N == [node EXCEPT ![n].out = Tail(@), ![n].pend = @ \ {e.id}]
       IN  IF e.id \in node[n].pend /\ turn[c].pc = e.id[2] /\ turn[c].on = n
           THEN Continue(c, N, e.what, e.told)
           ELSE node' = N /\ UNCHANGED turn
    /\ UNCHANGED <<bridge, disabled, drain>>

\* A slip for the checks: close_session waits without a time-out.
TimesOutNotClosing(c) ==
    /\ turn[c].pc \in Stages \ {"close"}
    /\ LET n == turn[c].on
       IN  Continue(c, [node EXCEPT ![n].pend = @ \ {<<c, turn[c].pc>>}], "timeout", FALSE)
    /\ UNCHANGED <<bridge, disabled, drain>>

\* Every wait has its time-out; which ones a running process is too slow for
\* is a parameter.
TimesOut(c) ==
    /\ turn[c].pc \in Stages
    /\ turn[c].pc \in Timeouts \/ node[turn[c].on].os # "up"
    /\ LET n == turn[c].on
       IN  Continue(c, [node EXCEPT ![n].pend = @ \ {<<c, turn[c].pc>>}], "timeout", FALSE)
    /\ UNCHANGED <<bridge, disabled, drain>>

SeesDeath(c) ==
    /\ turn[c].pc \in Stages
    /\ <<c, turn[c].pc>> \in node[turn[c].on].died
    /\ Continue(c, node, "died", FALSE)
    /\ UNCHANGED <<bridge, disabled, drain>>

\* The turn's caller gives up.  A stream cleans up behind itself.
Cancelled(c) ==
    /\ "cancel" \in Faults
    /\ turn[c].pc \in {"search"} \union Stages
    /\ turn' = [turn EXCEPT ![c].pc = "cancelled"]
    /\ node' = IF c \in Streams /\ turn[c].pc \in {"send", "resend"}
               THEN [node EXCEPT ![turn[c].on].pend = @ \ {<<c, turn[c].pc>>}] ELSE node
    /\ UNCHANGED <<bridge, disabled, drain>>

-----------------------------------------------------------------------------
\* The Node side

Emit(nd, id, what, told) ==
    [nd EXCEPT !.out = Append(nd.out, [id |-> id, what |-> what, told |-> told])]

NodeReady(n) ==
    /\ node[n].os = "starting"
    /\ node' = [node EXCEPT ![n].os = "up", ![n].ready = TRUE]
    /\ UNCHANGED <<bridge, disabled, turn, drain>>

\* handleCreate, handleClose and the beginning of handleSend: one line of
\* stdin at a time.
NodeReads(n) ==
    /\ node[n].os = "up"
    /\ node[n].in # <<>> /\ Len(node[n].out) < MaxAhead
    /\ LET cmd   == Head(node[n].in)
           stage == cmd.id[2]
           rest  == [node[n] EXCEPT !.in = Tail(@)]
           told  == cmd.prompt \/ node[n].session = "told"
       IN  node' \in {[node EXCEPT ![n] = nd] : nd \in
             CASE stage \in {"create", "recreate"} ->
                    {Emit([rest EXCEPT !.session = "blank"], cmd.id, "created", FALSE)}
                    \union (IF "create" \in Faults THEN {Emit(rest, cmd.id, "error", FALSE)} ELSE {})
               [] stage = "close" ->
                    {Emit([rest EXCEPT !.session = "none"], cmd.id, "closed", FALSE)}
               [] stage \in {"send", "resend"} /\ node[n].session = "none" ->
                    {Emit(rest, cmd.id, "dead", FALSE)}
               [] OTHER ->
                    {[rest EXCEPT !.session = IF told THEN "told" ELSE "blank",
                                  !.busy = @ \union {<<cmd.id, told>>}]}}
    /\ UNCHANGED <<bridge, disabled, turn, drain>>

\* handleSend ends.  A failure that looks like a dead session forgets the
\* agent's session, whichever that is by now.
NodeAnswers(n) ==
    /\ node[n].os = "up"
    /\ Len(node[n].out) < MaxAhead
    /\ \E b \in node[n].busy, what \in {"ok", "empty", "error", "dead"} :
         LET nd == [node[n] EXCEPT !.busy = @ \ {b},
                                   !.session = IF what = "dead" THEN "none" ELSE @]
         IN  node' = [node EXCEPT ![n] = Emit(nd, b[1], what, b[2])]
    /\ UNCHANGED <<bridge, disabled, turn, drain>>

Lifeless(nd, os) == [nd EXCEPT !.os = os, !.in = <<>>, !.busy = {}, !.session = "none"]

NodeDies(n) ==
    /\ "death" \in Faults
    /\ node[n].os \in {"starting", "up"}
    /\ node' = [node EXCEPT ![n] = Lifeless(@, "dead")]
    /\ UNCHANGED <<bridge, disabled, turn, drain>>

\* asyncio learns the returncode.
Reaped(n) ==
    /\ node[n].os = "dead"
    /\ node' = [node EXCEPT ![n].os = "reaped"]
    /\ UNCHANGED <<bridge, disabled, turn, drain>>

\* The reader meets the end of stdout and resolves what is pending then.
ReaderEnds(n) ==
    /\ node[n].os \in {"dead", "reaped"}
    /\ node[n].out = <<>> /\ ~node[n].eof
    /\ node' = [node EXCEPT ![n].eof = TRUE, ![n].ready = TRUE, ![n].died = node[n].pend]
    /\ UNCHANGED <<bridge, disabled, turn, drain>>

-----------------------------------------------------------------------------
(***************************************************************************)
(* drain_all: the bridge is asked to shut down, killed if it does not      *)
(* answer, its maps are cleared without resolving anybody, its reader is   *)
(* cancelled, and the pool forgets it.  Turns go on meanwhile.             *)
(***************************************************************************)
DrainBegins ==
    /\ "drain" \in Faults
    /\ drain = "no" /\ bridge # 0
    /\ drain' = "shutting"
    /\ UNCHANGED <<bridge, disabled, node, turn>>

DrainEnds ==
    /\ drain = "shutting"
    /\ drain' = "over"
    /\ bridge' = 0
    /\ node' = IF ~IsAlive(node, bridge) THEN node
               ELSE [node EXCEPT ![bridge] = [Unborn EXCEPT !.os = "reaped", !.eof = TRUE,
                                                            !.know = node[bridge].know]]
    /\ UNCHANGED <<disabled, turn>>

-----------------------------------------------------------------------------
TurnStep(c) ==
    EnsureStarts(c) \/ Ensure(c) \/ BridgeStarted(c) \/ StartFails(c) \/ Route(c)

BridgeStep(n) ==
    Dispatch(n) \/ NodeReady(n) \/ NodeReads(n) \/ NodeAnswers(n) \/ Reaped(n) \/ ReaderEnds(n)

Next ==
    \/ \E c \in Turns : TurnStep(c) \/ TimesOut(c) \/ SeesDeath(c) \/ Cancelled(c)
    \/ \E n \in Nodes : BridgeStep(n) \/ NodeDies(n)
    \/ DrainBegins \/ DrainEnds

Spec == Init /\ [][Next]_vars

(***************************************************************************)
(* Every await of a turn has its own time-out in the code, the event loop  *)
(* and Node go on running, and a process that died is noticed.  Nothing is *)
(* assumed of time-outs, deaths, cancellations or failures.                *)
(***************************************************************************)
FairSpec ==
    /\ Spec
    /\ \A c \in Turns : WF_vars(TurnStep(c)) /\ WF_vars(SeesDeath(c)) /\ WF_vars(TimesOut(c))
    /\ \A n \in Nodes : WF_vars(BridgeStep(n))
    /\ WF_vars(DrainEnds)

-----------------------------------------------------------------------------
Ids == Turns \X Stages

\* Every variable has its type, and a process that does not run holds nothing.
TypeOK ==
    /\ bridge \in 0..MaxNodes
    /\ disabled \in BOOLEAN
    /\ drain \in {"no", "shutting", "over"}
    /\ \A c \in Turns :
         /\ turn[c].pc \in {"idle", "start", "search"} \union Stages \union Ended
         /\ turn[c].on \in 0..MaxNodes /\ turn[c].how \in {"none", "sdk", "cli"}
    /\ \A n \in Nodes :
         /\ node[n].os \in {"none", "starting", "up", "dead", "reaped"}
         /\ node[n].session \in {"none", "blank", "told"}
         /\ node[n].pend \subseteq Ids /\ node[n].died \subseteq Ids
         /\ node[n].os # "up" => node[n].session = "none" /\ node[n].busy = {}

(***************************************************************************)
(* As long as one Node process has served all turns and no creation failed *)
(* or timed out, a turn that was answered over the bridge was answered by  *)
(* a session that had been given the agent's system prompt: turns that     *)
(* close and recreate each other's session, late answers, deaths and       *)
(* cancellations never leave a session that Python takes for told and that *)
(* is not ("Inject static system prompt on first message to this session", *)
(* core/sdk_bridge.py).  A second process, or a creation that fails under  *)
(* a stream, does.                                                         *)
(***************************************************************************)
OneNode == \A n \in Nodes : n > 1 => node[n].os = "none"

PromptFirst == OneNode => \A c \in Turns : turn[c].how = "sdk" => turn[c].told

(***************************************************************************)
(* Nobody waits for nothing: a turn that waits for an answer of a process  *)
(* that runs is still registered, and its command, the work on it or its   *)
(* answer is on its way.                                                   *)
(***************************************************************************)
InFlight(n, id) ==
    \/ \E i \in DOMAIN node[n].in : node[n].in[i].id = id
    \/ \E b \in node[n].busy : b[1] = id
    \/ \E i \in DOMAIN node[n].out : node[n].out[i].id = id

PendingIsOwed ==
    \A c \in Turns :
      LET id == <<c, turn[c].pc>> IN
      turn[c].pc \in Stages /\ node[turn[c].on].os = "up"
        => id \in node[turn[c].on].pend /\ InFlight(turn[c].on, id)

\* The bridge may fail for any reason and costs a turn no more than the way
\* over the CLI (the first lines of core/sdk_bridge.py).
FallsBack == \A c \in Turns : turn[c].pc # "raised"

\* A turn is answered, falls back, raises or is cancelled: deaths and
\* concurrent recreations keep no turn waiting beyond its own time-outs.
EveryTurnReturns == \A c \in Turns : turn[c].pc # "idle" ~> turn[c].pc \in Ended
=============================================================================
