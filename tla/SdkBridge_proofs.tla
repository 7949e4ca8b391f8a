-------------------------- MODULE SdkBridge_proofs --------------------------
(***************************************************************************)
(* The SDK bridge, for every set of turns, every number of Node processes  *)
(* and every fault: nobody waits for nothing.  And, for one process whose  *)
(* creations neither fail nor time out: a session that answers was given   *)
(* the system prompt.                                                      *)
(* First, what one node can be; then what a turn's request makes of it;    *)
(* then the steps.                                                         *)
(***************************************************************************)
EXTENDS SdkBridge, SequenceTheorems, TLAPS

Fields == {"os", "has", "first", "know", "pend", "died", "ready", "eof", "session", "busy",
           "in", "out"}
Messages == {"send", "resend"}
Creations == {"create", "recreate"}
Running == {"up", "dead", "reaped"}
Commands == [id : Ids, prompt : BOOLEAN]
Events == [id : Ids, what : {"created", "closed", "ok", "empty", "error", "dead"},
           told : BOOLEAN]

\* What is always so of one node: its types, and that what does not run holds nothing.
Sane(nd) ==
  /\ DOMAIN nd = Fields
  /\ nd.os \in {"none", "starting"} \cup Running
  /\ nd.session \in {"none", "blank", "told"}
  /\ nd.pend \subseteq Ids /\ nd.died \subseteq Ids
  /\ nd.first \in BOOLEAN /\ nd.know \in BOOLEAN
  /\ nd.in \in Seq(Commands) /\ nd.out \in Seq(Events)
  /\ nd.busy \subseteq (Turns \X Messages) \X BOOLEAN
  /\ nd.os # "up" => nd.session = "none" /\ nd.busy = {}
  /\ nd.ready => nd.os \in Running
  /\ nd.os = "up" => nd.ready
  /\ nd.died # {} => nd.os \in {"dead", "reaped"}

\* A node owes an answer to id: somebody is registered for it, and its command,
\* the work on it or the answer is on its way.
Owes(nd, id) ==
  /\ id \in nd.pend
  /\ \/ \E i \in DOMAIN nd.in : nd.in[i].id = id
     \/ \E b \in nd.busy : b[1] = id
     \/ \E i \in DOMAIN nd.out : nd.out[i].id = id

\* What is always so of one turn, when it refers to the bridge b.
TurnFields == {"pc", "on", "full", "told", "how"}
Pcs == {"idle", "start", "search"} \cup Stages \cup Ended
Waits(tn, N, c) ==
  /\ tn.pc \in Stages \cup {"start"} => tn.on \in Nodes
  /\ tn.pc = "start" => N[tn.on].os # "none"
  /\ tn.pc \in Stages =>
       /\ N[tn.on].os \in Running
       /\ N[tn.on].os = "up" => Owes(N[tn.on], <<c, tn.pc>>)
TurnType(tn) ==
  /\ DOMAIN tn = TurnFields /\ tn.pc \in Pcs
  /\ tn.on \in 0..MaxNodes /\ tn.how \in {"none", "sdk", "cli"}

Typed(N) == DOMAIN N = Nodes /\ \A n \in Nodes : Sane(N[n])

Types ==
  /\ bridge \in 0..MaxNodes /\ disabled \in BOOLEAN /\ drain \in {"no", "shutting", "over"}
  /\ DOMAIN turn = Turns /\ \A c \in Turns : TurnType(turn[c])
  /\ Typed(node)

Base ==
  /\ Types
  /\ bridge # 0 => node[bridge].os \in Running
  /\ \A c \in Turns : Waits(turn[c], node, c)

-----------------------------------------------------------------------------
(***************************************************************************)
(* What the code between two awaits makes of one node.                     *)
(***************************************************************************)
Put(nd, id, p) ==
  [nd EXCEPT !.pend = @ \cup {id},
             !.in = IF nd.os = "up" THEN Append(nd.in, [id |-> id, prompt |-> p]) ELSE nd.in]

PutSend(nd, id) == [Put(nd, id, ~nd.first /\ nd.know) EXCEPT !.first = TRUE]

LEMMA WriteIs ==
  ASSUME NEW N, Typed(N), NEW n \in Nodes, NEW id, NEW p
  PROVE  Write(N, n, id, p) = [N EXCEPT ![n] = Put(N[n], id, p)]
BY DEF Write, Put, Typed, Sane, Fields

LEMMA WriteSendIs ==
  ASSUME NEW N, Typed(N), NEW n \in Nodes, NEW id
  PROVE  WriteSend(N, n, id) = [N EXCEPT ![n] = PutSend(N[n], id)]
<1>. DEFINE p == ~N[n].first /\ N[n].know
            W == Write(N, n, id, p)
<1>1. W = [N EXCEPT ![n] = Put(N[n], id, p)]
  BY WriteIs
<1>2. WriteSend(N, n, id) = [W EXCEPT ![n].first = TRUE]
  BY DEF WriteSend
<1>3. PutSend(N[n], id) = [Put(N[n], id, p) EXCEPT !.first = TRUE]
  BY DEF PutSend
<1>. HIDE DEF W, p
<1>. QED BY <1>1, <1>2, <1>3 DEF Typed

\* What a step of the turn c makes of a node: it stays as alive as it was and
\* owes the others what it did.
Serves(c, nd, md) ==
  /\ Sane(md) /\ md.os = nd.os
  /\ \A id : id[1] # c /\ Owes(nd, id) => Owes(md, id)

LEMMA ServesTwice ==
  ASSUME NEW c, NEW x, NEW y, NEW z, Serves(c, x, y), Serves(c, y, z)
  PROVE  Serves(c, x, z)
BY DEF Serves

LEMMA PutServes ==
  ASSUME NEW c, NEW nd, Sane(nd), NEW id \in Ids, NEW p \in BOOLEAN
  PROVE  Serves(c, nd, Put(nd, id, p)) /\ (nd.os = "up" => Owes(Put(nd, id, p), id))
<1>. DEFINE md == Put(nd, id, p)
            cmd == [id |-> id, prompt |-> p]
<1>1. /\ DOMAIN md = Fields /\ md.pend = nd.pend \cup {id}
      /\ md.in = IF nd.os = "up" THEN Append(nd.in, cmd) ELSE nd.in
      /\ md.os = nd.os /\ md.session = nd.session /\ md.died = nd.died /\ md.first = nd.first
      /\ md.know = nd.know /\ md.out = nd.out /\ md.busy = nd.busy /\ md.ready = nd.ready
  BY DEF Put, Sane, Fields
<1>2. cmd \in Commands /\ cmd.id = id
  BY DEF Commands
<1>. HIDE DEF md, cmd
<1>3. md.in \in Seq(Commands)
  BY <1>1, <1>2 DEF Sane
<1>4. Sane(md)
  BY <1>1, <1>3 DEF Sane
<1>5. \A i \in DOMAIN nd.in : i \in DOMAIN md.in /\ md.in[i] = nd.in[i]
  BY <1>1, <1>2 DEF Sane
<1>6. \A x : Owes(nd, x) => Owes(md, x)
  BY <1>1, <1>5 DEF Owes
<1>7. ASSUME nd.os = "up" PROVE Owes(md, id)
  <2>1. Len(nd.in) + 1 \in DOMAIN md.in /\ md.in[Len(nd.in) + 1] = cmd
    BY <1>1, <1>2, <1>7 DEF Sane
  <2>. QED BY <1>1, <1>2, <2>1 DEF Owes
<1>. QED BY <1>1, <1>4, <1>6, <1>7 DEF Serves, md

\* Fields that nobody's answer depends on.
LEMMA FlagsServe ==
  ASSUME NEW c, NEW nd, Sane(nd), NEW md, DOMAIN md = Fields,
         md.first \in BOOLEAN, md.know \in BOOLEAN,
         \A f \in Fields \ {"has", "first", "know"} : md[f] = nd[f]
  PROVE  Serves(c, nd, md) /\ \A id : Owes(nd, id) => Owes(md, id)
<1>1. /\ md.pend = nd.pend /\ md.in = nd.in /\ md.os = nd.os /\ md.session = nd.session
      /\ md.died = nd.died /\ md.out = nd.out /\ md.busy = nd.busy /\ md.ready = nd.ready
  BY DEF Fields
<1>2. \A id : Owes(nd, id) => Owes(md, id)
  BY <1>1 DEF Owes
<1>. QED BY <1>1, <1>2 DEF Serves, Sane

LEMMA PutSendServes ==
  ASSUME NEW c, NEW nd, Sane(nd), NEW id \in Ids
  PROVE  Serves(c, nd, PutSend(nd, id)) /\ (nd.os = "up" => Owes(PutSend(nd, id), id))
<1>. DEFINE md == Put(nd, id, ~nd.first /\ nd.know)
<1>1. Serves(c, nd, md) /\ (nd.os = "up" => Owes(md, id))
  BY PutServes
<1>2. PutSend(nd, id) = [md EXCEPT !.first = TRUE]
  BY DEF PutSend
<1>. HIDE DEF md
<1>3. Serves(c, md, PutSend(nd, id)) /\ \A x : Owes(md, x) => Owes(PutSend(nd, id), x)
  BY <1>1, <1>2, FlagsServe DEF Serves, Sane, Fields
<1>. QED BY <1>1, <1>3, ServesTwice

\* Whoever waits no longer takes his entry with him.
LEMMA LeavesServes ==
  ASSUME NEW c, NEW nd, Sane(nd), NEW s
  PROVE  Serves(c, nd, [nd EXCEPT !.pend = @ \ {<<c, s>>}])
<1>. DEFINE md == [nd EXCEPT !.pend = @ \ {<<c, s>>}]
<1>1. /\ DOMAIN md = Fields /\ md.pend = nd.pend \ {<<c, s>>}
      /\ md.in = nd.in /\ md.os = nd.os /\ md.session = nd.session
      /\ md.died = nd.died /\ md.out = nd.out /\ md.busy = nd.busy /\ md.ready = nd.ready
      /\ md.first = nd.first /\ md.know = nd.know
  BY DEF Sane, Fields
<1>. HIDE DEF md
<1>2. Sane(md)  BY <1>1 DEF Sane
<1>3. ASSUME NEW id, id[1] # c, Owes(nd, id)
      PROVE  Owes(md, id)
  <2>1. id # <<c, s>>  BY <1>3
  <2>. QED BY <1>1, <1>3, <2>1 DEF Owes
<1>. QED BY <1>1, <1>2, <1>3 DEF Serves, md

\* The reader takes an event of c.
LEMMA TakenServes ==
  ASSUME NEW nd, Sane(nd), nd.out # <<>>
  PROVE  LET e == Head(nd.out)
             md == [nd EXCEPT !.out = Tail(@), !.pend = @ \ {e.id}]
         IN  /\ e \in Events /\ e.id = <<e.id[1], e.id[2]>> /\ e.id[1] \in Turns
             /\ Serves(e.id[1], nd, md)
             /\ \A id : id # e.id /\ Owes(nd, id) => Owes(md, id)
<1>. DEFINE e == Head(nd.out)
            md == [nd EXCEPT !.out = Tail(@), !.pend = @ \ {e.id}]
<1>1. /\ DOMAIN md = Fields /\ md.pend = nd.pend \ {e.id} /\ md.out = Tail(nd.out)
      /\ md.in = nd.in /\ md.os = nd.os /\ md.session = nd.session
      /\ md.died = nd.died /\ md.busy = nd.busy /\ md.ready = nd.ready
      /\ md.first = nd.first /\ md.know = nd.know
  BY DEF Sane, Fields
<1>. HIDE DEF md
<1>2. /\ nd.out \in Seq(Events) /\ e \in Events /\ md.out \in Seq(Events) /\ e = nd.out[1]
      /\ \A i \in DOMAIN nd.out : i # 1 => i - 1 \in DOMAIN md.out /\ md.out[i - 1] = nd.out[i]
  BY <1>1 DEF Sane
<1>3. Sane(md)  BY <1>1, <1>2 DEF Sane
<1>4. e.id \in Ids  BY <1>2 DEF Events
<1>. HIDE DEF e
<1>5. ASSUME NEW id, id # e.id, Owes(nd, id)
      PROVE  Owes(md, id)
  BY <1>1, <1>2, <1>5 DEF Owes
<1>. QED BY <1>1, <1>2, <1>3, <1>4, <1>5 DEF Serves, e, md, Ids

-----------------------------------------------------------------------------
(***************************************************************************)
(* What a step of the turn c makes of all nodes, seen from N, and of c.    *)
(***************************************************************************)
Helps(c, N, M) ==
  DOMAIN M = Nodes /\ \A n \in Nodes : Serves(c, N[n], M[n])

Advances(c, N) ==
  /\ Helps(c, N, node')
  /\ \E tn : /\ turn' = [turn EXCEPT ![c] = tn] \/ (turn' = turn /\ tn = turn[c])
            /\ TurnType(tn) /\ Waits(tn, node', c)

LEMMA HelpsOne ==
  ASSUME NEW c, NEW N, Typed(N), NEW n \in Nodes, NEW md, Serves(c, N[n], md)
  PROVE  Helps(c, N, [N EXCEPT ![n] = md]) /\ Typed([N EXCEPT ![n] = md])
BY DEF Helps, Typed, Serves

LEMMA HelpsTwice ==
  ASSUME NEW c, NEW N, NEW M, NEW L, Helps(c, N, M), Helps(c, M, L)
  PROVE  Helps(c, N, L)
BY ServesTwice DEF Helps

LEMMA HelpsTyped ==
  ASSUME NEW c, NEW N, NEW M, Helps(c, N, M)
  PROVE  Typed(M)
BY DEF Helps, Typed, Serves

LEMMA HelpsItself ==
  ASSUME NEW c, NEW N, Typed(N)
  PROVE  Helps(c, N, N)
BY DEF Helps, Typed, Serves

\* The flags that Python keeps of a session.
LEMMA FlagServes ==
  ASSUME NEW c, NEW nd, Sane(nd)
  PROVE  /\ Serves(c, nd, [nd EXCEPT !.has = FALSE, !.first = FALSE])
         /\ Serves(c, nd, [nd EXCEPT !.has = TRUE])
         /\ Serves(c, nd, [nd EXCEPT !.know = TRUE])
         /\ Serves(c, nd, [nd EXCEPT !.first = TRUE])
<1>1. DOMAIN nd = Fields /\ nd.first \in BOOLEAN /\ nd.know \in BOOLEAN
  BY DEF Sane
<1>2. Serves(c, nd, [nd EXCEPT !.has = FALSE, !.first = FALSE])
  <2>. DEFINE md == [nd EXCEPT !.has = FALSE, !.first = FALSE]
  <2>1. /\ DOMAIN md = Fields /\ md.first \in BOOLEAN /\ md.know \in BOOLEAN
        /\ \A f \in Fields \ {"has", "first", "know"} : md[f] = nd[f]
    BY <1>1 DEF Fields
  <2>. HIDE DEF md
  <2>2. Serves(c, nd, md)  BY <2>1, FlagsServe
  <2>. QED BY <2>2 DEF md
<1>3. Serves(c, nd, [nd EXCEPT !.has = TRUE])
  <2>. DEFINE md == [nd EXCEPT !.has = TRUE]
  <2>1. /\ DOMAIN md = Fields /\ md.first \in BOOLEAN /\ md.know \in BOOLEAN
        /\ \A f \in Fields \ {"has", "first", "know"} : md[f] = nd[f]
    BY <1>1 DEF Fields
  <2>. HIDE DEF md
  <2>2. Serves(c, nd, md)  BY <2>1, FlagsServe
  <2>. QED BY <2>2 DEF md
<1>4. Serves(c, nd, [nd EXCEPT !.know = TRUE])
  <2>. DEFINE md == [nd EXCEPT !.know = TRUE]
  <2>1. /\ DOMAIN md = Fields /\ md.first \in BOOLEAN /\ md.know \in BOOLEAN
        /\ \A f \in Fields \ {"has", "first", "know"} : md[f] = nd[f]
    BY <1>1 DEF Fields
  <2>. HIDE DEF md
  <2>2. Serves(c, nd, md)  BY <2>1, FlagsServe
  <2>. QED BY <2>2 DEF md
<1>5. Serves(c, nd, [nd EXCEPT !.first = TRUE])
  <2>. DEFINE md == [nd EXCEPT !.first = TRUE]
  <2>1. /\ DOMAIN md = Fields /\ md.first \in BOOLEAN /\ md.know \in BOOLEAN
        /\ \A f \in Fields \ {"has", "first", "know"} : md[f] = nd[f]
    BY <1>1 DEF Fields
  <2>. HIDE DEF md
  <2>2. Serves(c, nd, md)  BY <2>1, FlagsServe
  <2>. QED BY <2>2 DEF md
<1>. QED BY <1>2, <1>3, <1>4, <1>5

LEMMA FlagsHelp ==
  ASSUME NEW c, NEW N, Typed(N), NEW n \in Nodes
  PROVE  /\ Helps(c, N, Pop(N, n))
         /\ Helps(c, N, [N EXCEPT ![n].has = TRUE])
         /\ Helps(c, N, [N EXCEPT ![n].know = TRUE])
         /\ Helps(c, N, [N EXCEPT ![n].first = TRUE])
<1>1. /\ Pop(N, n) = [N EXCEPT ![n] = [N[n] EXCEPT !.has = FALSE, !.first = FALSE]]
      /\ [N EXCEPT ![n].has = TRUE] = [N EXCEPT ![n] = [N[n] EXCEPT !.has = TRUE]]
      /\ [N EXCEPT ![n].know = TRUE] = [N EXCEPT ![n] = [N[n] EXCEPT !.know = TRUE]]
      /\ [N EXCEPT ![n].first = TRUE] = [N EXCEPT ![n] = [N[n] EXCEPT !.first = TRUE]]
  BY DEF Pop, Typed, Sane, Fields
<1>2. Sane(N[n])  BY DEF Typed
<1>3. /\ Helps(c, N, [N EXCEPT ![n] = [N[n] EXCEPT !.has = FALSE, !.first = FALSE]])
      /\ Helps(c, N, [N EXCEPT ![n] = [N[n] EXCEPT !.has = TRUE]])
  BY <1>2, FlagServes, HelpsOne
<1>4. /\ Helps(c, N, [N EXCEPT ![n] = [N[n] EXCEPT !.know = TRUE]])
      /\ Helps(c, N, [N EXCEPT ![n] = [N[n] EXCEPT !.first = TRUE]])
  BY <1>2, FlagServes, HelpsOne
<1>. QED BY <1>1, <1>3, <1>4

LEMMA PutHelps ==
  ASSUME NEW c, NEW N, Typed(N), NEW n \in Nodes, NEW id \in Ids, NEW p \in BOOLEAN
  PROVE  /\ Helps(c, N, Write(N, n, id, p)) /\ Helps(c, N, WriteSend(N, n, id))
         /\ N[n].os = "up" => /\ Owes(Write(N, n, id, p)[n], id)
                              /\ Owes(WriteSend(N, n, id)[n], id)
<1>1. Sane(N[n])  BY DEF Typed
<1>2. /\ Write(N, n, id, p) = [N EXCEPT ![n] = Put(N[n], id, p)]
      /\ WriteSend(N, n, id) = [N EXCEPT ![n] = PutSend(N[n], id)]
  BY WriteIs, WriteSendIs
<1>3. /\ Serves(c, N[n], Put(N[n], id, p)) /\ (N[n].os = "up" => Owes(Put(N[n], id, p), id))
      /\ Serves(c, N[n], PutSend(N[n], id)) /\ (N[n].os = "up" => Owes(PutSend(N[n], id), id))
  BY <1>1, PutServes, PutSendServes
<1>4. \A md : [N EXCEPT ![n] = md][n] = md  BY DEF Typed
<1>5. /\ Helps(c, N, [N EXCEPT ![n] = Put(N[n], id, p)])
      /\ Helps(c, N, [N EXCEPT ![n] = PutSend(N[n], id)])
  BY <1>3, HelpsOne
<1>6. /\ Write(N, n, id, p)[n] = Put(N[n], id, p)
      /\ WriteSend(N, n, id)[n] = PutSend(N[n], id)
  BY <1>2, <1>4
<1>. QED BY <1>2, <1>3, <1>5, <1>6

LEMMA RegisterHelps ==
  ASSUME NEW c, NEW N, Typed(N), NEW n \in Nodes, NEW id \in Ids
  PROVE  Helps(c, N, [N EXCEPT ![n].pend = @ \cup {id}])
<1>. DEFINE md == [N[n] EXCEPT !.pend = @ \cup {id}]
<1>1. [N EXCEPT ![n].pend = @ \cup {id}] = [N EXCEPT ![n] = md]
  BY DEF Typed, Sane, Fields
<1>2. Sane(N[n])  BY DEF Typed
<1>3. /\ DOMAIN md = Fields /\ md.pend = N[n].pend \cup {id}
      /\ md.in = N[n].in /\ md.os = N[n].os /\ md.session = N[n].session
      /\ md.died = N[n].died /\ md.out = N[n].out /\ md.busy = N[n].busy
      /\ md.ready = N[n].ready /\ md.first = N[n].first /\ md.know = N[n].know
  BY <1>2 DEF Sane, Fields
<1>. HIDE DEF md
<1>4. Serves(c, N[n], md)
  BY <1>2, <1>3 DEF Serves, Sane, Owes
<1>. QED BY <1>1, <1>4, HelpsOne

LEMMA LeavesHelp ==
  ASSUME NEW c, NEW N, Typed(N), NEW n \in Nodes, NEW s
  PROVE  Helps(c, N, [N EXCEPT ![n].pend = @ \ {<<c, s>>}])
<1>1. [N EXCEPT ![n].pend = @ \ {<<c, s>>}]
        = [N EXCEPT ![n] = [N[n] EXCEPT !.pend = @ \ {<<c, s>>}]]
  BY DEF Typed, Sane, Fields
<1>2. Serves(c, N[n], [N[n] EXCEPT !.pend = @ \ {<<c, s>>}])
  BY LeavesServes DEF Typed
<1>. QED BY <1>1, <1>2, HelpsOne

-----------------------------------------------------------------------------
(***************************************************************************)
(* What a turn does next.                                                  *)
(***************************************************************************)
\* A turn that falls back, raises, ends or searches waits for nobody.
LEMMA RestWaits ==
  ASSUME NEW c, NEW N, NEW tn, tn.pc \in {"idle", "search"} \cup Ended
  PROVE  Waits(tn, N, c)
BY DEF Waits, Stages, Ended

LEMMA FallBackWaits ==
  ASSUME NEW c, TurnType(turn[c])
  PROVE  /\ TurnType(FallBack(c))
         /\ \A N : Waits(FallBack(c), N, c)
<1>1. TurnType(FallBack(c)) /\ FallBack(c).pc = "done"
  BY DEF FallBack, TurnType, TurnFields, Pcs, Ended
<1>. QED BY <1>1, RestWaits DEF Ended

LEMMA RequestAdvances ==
  ASSUME NEW c \in Turns, NEW stage \in Stages, NEW N, Typed(N),
         bridge \in 0..MaxNodes, bridge # 0 => N[bridge].os \in Running,
         DOMAIN turn = Turns, TurnType(turn[c]), Request(c, stage, N)
  PROVE  Advances(c, N)
<1>. DEFINE id == <<c, stage>>
<1>1. id \in Ids  BY DEF Ids
<1>2. bridge # 0 => bridge \in Nodes  BY BridgeAssumption DEF Nodes
<1>3. CASE /\ IsAlive(N, bridge)
           /\ node' = IF stage \in Messages THEN WriteSend(N, bridge, id)
                      ELSE Write(N, bridge, id, FALSE)
           /\ turn' = [turn EXCEPT ![c].pc = stage, ![c].on = bridge]
  <2>. DEFINE tn == [turn[c] EXCEPT !.pc = stage, !.on = bridge]
  <2>1. bridge \in Nodes /\ N[bridge].os \in Running  BY <1>2, <1>3 DEF IsAlive
  <2>2. turn' = [turn EXCEPT ![c] = tn]  BY <1>3 DEF TurnType, TurnFields
  <2>3. TurnType(tn) /\ tn.pc = stage /\ tn.on = bridge
    BY DEF TurnType, TurnFields, Pcs
  <2>4. Helps(c, N, node') /\ (N[bridge].os = "up" => Owes(node'[bridge], id))
    BY <1>1, <1>3, <2>1, PutHelps
  <2>5. node'[bridge].os = N[bridge].os
    BY <2>1, <2>4 DEF Helps, Serves
  <2>. HIDE DEF tn
  <2>6. Waits(tn, node', c)
    BY <2>1, <2>3, <2>4, <2>5 DEF Waits, Stages
  <2>. QED BY <2>2, <2>3, <2>4, <2>6 DEF Advances
<1>4. CASE /\ turn' = [turn EXCEPT ![c] = FallBack(c)]
           /\ \/ node' = N
              \/ bridge # 0 /\ node' = [N EXCEPT ![bridge].pend = @ \cup {id}]
              \/ /\ bridge # 0
                 /\ node' = [[N EXCEPT ![bridge].pend = @ \cup {id}] EXCEPT ![bridge].first = TRUE]
  <2>1. Helps(c, N, node')
    <3>1. CASE node' = N  BY <3>1, HelpsItself
    <3>2. CASE bridge # 0 /\ node' = [N EXCEPT ![bridge].pend = @ \cup {id}]
      BY <1>1, <1>2, <3>2, RegisterHelps
    <3>3. CASE /\ bridge # 0
               /\ node' = [[N EXCEPT ![bridge].pend = @ \cup {id}] EXCEPT ![bridge].first = TRUE]
      <4>. DEFINE R == [N EXCEPT ![bridge].pend = @ \cup {id}]
      <4>1. Helps(c, N, R)  BY <1>1, <1>2, <3>3, RegisterHelps
      <4>2. node' = [R EXCEPT ![bridge].first = TRUE]  BY <3>3
      <4>. HIDE DEF R
      <4>3. Typed(R) /\ bridge \in Nodes  BY <1>2, <3>3, <4>1, HelpsTyped
      <4>4. Helps(c, R, node')  BY <4>2, <4>3, FlagsHelp
      <4>. QED BY <4>1, <4>4, HelpsTwice
    <3>. QED BY <1>4, <3>1, <3>2, <3>3
  <2>. QED BY <1>4, <2>1, FallBackWaits DEF Advances
<1>. QED BY <1>3, <1>4 DEF Request, Messages

LEMMA AdvancesFrom ==
  ASSUME NEW c, NEW N, NEW M, Helps(c, N, M), Advances(c, M)
  PROVE  Advances(c, N)
BY HelpsTwice DEF Advances

LEMMA RestAdvances ==
  ASSUME NEW c \in Turns, NEW N, NEW tn, Helps(c, N, node'), turn' = [turn EXCEPT ![c] = tn],
         TurnType(tn), tn.pc \in {"idle", "search"} \cup Ended
  PROVE  Advances(c, N)
BY RestWaits DEF Advances

\* The bridge lives in N as it does in node.
LEMMA StillRuns ==
  ASSUME Base, NEW c, NEW N, Helps(c, node, N)
  PROVE  Typed(N) /\ (bridge # 0 => N[bridge].os \in Running)
<1>1. bridge # 0 => bridge \in Nodes  BY DEF Base, Types, Nodes
<1>. QED BY <1>1, HelpsTyped DEF Base, Helps, Serves

LEMMA AfterSendHelps ==
  ASSUME NEW c \in Turns, NEW N, Typed(N), turn[c].on \in Nodes, NEW what
  PROVE  Helps(c, N, AfterSend(c, N, what))
BY FlagsHelp, HelpsItself DEF AfterSend

LEMMA ContinueAdvances ==
  ASSUME Base, NEW c \in Turns, turn[c].pc \in Stages, NEW N, Helps(c, node, N),
         NEW what, NEW told, Continue(c, N, what, told)
  PROVE  Advances(c, N)
<1>. DEFINE n == turn[c].on
            created == IF what = "created" THEN [N EXCEPT ![n].has = TRUE] ELSE N
            after == AfterSend(c, N, what)
<1>1. /\ n \in Nodes /\ TurnType(turn[c]) /\ DOMAIN turn = Turns /\ bridge \in 0..MaxNodes
  BY DEF Base, Types, Waits
<1>2. Typed(N)  BY StillRuns
<1>3. Helps(c, N, created) /\ Helps(c, N, Pop(N, n)) /\ Helps(c, N, after)
  BY <1>1, <1>2, FlagsHelp, HelpsItself, AfterSendHelps
<1>4. \A M : Helps(c, N, M) => Typed(M) /\ (bridge # 0 => M[bridge].os \in Running)
  BY HelpsTwice, StillRuns
<1>5. ASSUME NEW M, Helps(c, N, M), NEW stage \in Stages, Request(c, stage, M)
      PROVE  Advances(c, N)
  <2>1. Advances(c, M)  BY <1>1, <1>4, <1>5, RequestAdvances
  <2>. QED BY <1>5, <2>1, AdvancesFrom
<1>6. ASSUME NEW M, Helps(c, N, M), node' = M, turn' = [turn EXCEPT ![c] = FallBack(c)]
      PROVE  Advances(c, N)
  BY <1>1, <1>6, FallBackWaits DEF Advances
<1>7. CASE /\ turn[c].pc = "create" /\ node' = created
           /\ turn' = [turn EXCEPT ![c].pc = "search"]
  <2>. DEFINE tn == [turn[c] EXCEPT !.pc = "search"]
  <2>1. turn' = [turn EXCEPT ![c] = tn]  BY <1>1, <1>7 DEF TurnType, TurnFields
  <2>2. TurnType(tn) /\ tn.pc = "search"  BY <1>1 DEF TurnType, TurnFields, Pcs
  <2>. QED BY <1>3, <1>7, <2>1, <2>2, RestAdvances
<1>8. CASE /\ node' = after
           /\ turn' = [turn EXCEPT ![c].pc = "done", ![c].how = "sdk", ![c].told = told]
  <2>. DEFINE tn == [turn[c] EXCEPT !.pc = "done", !.how = "sdk", !.told = told]
  <2>1. turn' = [turn EXCEPT ![c] = tn]  BY <1>1, <1>8 DEF TurnType, TurnFields
  <2>2. TurnType(tn) /\ tn.pc = "done"  BY <1>1 DEF TurnType, TurnFields, Pcs, Ended
  <2>. QED BY <1>3, <1>8, <2>1, <2>2, RestAdvances DEF Ended
<1>9. CASE Request(c, "close", after)
  BY <1>3, <1>5, <1>9 DEF Stages
<1>10. CASE Request(c, "recreate", Pop(N, n))
  BY <1>3, <1>5, <1>10 DEF Stages
<1>11. CASE Resend(c, created)
  <2>. HIDE DEF created
  <2>. QED BY <1>3, <1>5, <1>6, <1>11 DEF Resend, Stages
<1>12. CASE node' = after /\ turn' = [turn EXCEPT ![c] = FallBack(c)]
  BY <1>3, <1>6, <1>12
<1>. QED BY <1>7, <1>8, <1>9, <1>10, <1>11, <1>12 DEF Continue

-----------------------------------------------------------------------------
(***************************************************************************)
(* The steps keep Base.                                                    *)
(***************************************************************************)
LEMMA AdvancedBase ==
  ASSUME Base, NEW c \in Turns, Advances(c, node), bridge' \in 0..MaxNodes,
         bridge' # 0 => node[bridge'].os \in Running, disabled' \in BOOLEAN, drain' = drain
  PROVE  Base'
<1>1. Helps(c, node, node') /\ Typed(node')
  BY HelpsTyped DEF Advances
<1>2. PICK tn : /\ turn' = [turn EXCEPT ![c] = tn] \/ (turn' = turn /\ tn = turn[c])
                /\ TurnType(tn) /\ Waits(tn, node', c)
  BY DEF Advances
<1>3. /\ DOMAIN turn' = Turns /\ turn'[c] = tn
      /\ \A d \in Turns \ {c} : turn'[d] = turn[d]
  BY <1>2 DEF Base, Types
<1>4. Types'
  BY <1>1, <1>2, <1>3 DEF Base, Types, TurnType, Typed
<1>5. (bridge # 0 => node[bridge].os \in Running)'
  BY <1>1 DEF Helps, Serves, Nodes
<1>6. ASSUME NEW d \in Turns
      PROVE  Waits(turn[d], node, d)'
  <2>1. CASE d = c  BY <1>2, <1>3, <2>1
  <2>2. CASE d # c
    <3>1. turn'[d] = turn[d] /\ Waits(turn[d], node, d)  BY <1>3, <2>2 DEF Base
    <3>2. ASSUME NEW m \in Nodes, NEW s
          PROVE  node'[m].os = node[m].os /\ (Owes(node[m], <<d, s>>) => Owes(node'[m], <<d, s>>))
      BY <1>1, <2>2 DEF Helps, Serves
    <3>. QED BY <3>1, <3>2 DEF Waits
  <2>. QED BY <2>1, <2>2
<1>. QED BY <1>4, <1>5, <1>6 DEF Base

LEMMA NodeBase ==
  ASSUME Base, NEW n \in Nodes, NEW md, node' = [node EXCEPT ![n] = md],
         UNCHANGED <<bridge, disabled, turn, drain>>,
         Sane(md), md.os # "none", node[n].os \in Running => md.os \in Running,
         md.os = "up" /\ node[n].os \in Running =>
           node[n].os = "up" /\ \A id : Owes(node[n], id) => Owes(md, id)
  PROVE  Base'
<1>1. Types'
  BY DEF Base, Types, Typed
<1>2. (bridge # 0 => node[bridge].os \in Running)'
  BY DEF Base, Types, Typed, Nodes
<1>3. ASSUME NEW d \in Turns
      PROVE  Waits(turn[d], node, d)'
  <2>1. Waits(turn[d], node, d) /\ DOMAIN node = Nodes  BY DEF Base, Types, Typed
  <2>2. CASE turn[d].on = n  BY <2>1, <2>2 DEF Waits
  <2>3. CASE turn[d].on # n  BY <2>1, <2>3 DEF Waits
  <2>. QED BY <2>2, <2>3
<1>. QED BY <1>1, <1>2, <1>3 DEF Base

LEMMA CreateAdvances ==
  ASSUME Base, NEW c \in Turns, NEW b \in Nodes, node[b].os \in Running, Create(c, node, b)
  PROVE  Advances(c, node)
<1>. DEFINE id == <<c, "create">>
            M == [node EXCEPT ![b].know = TRUE]
<1>1. id \in Ids /\ Typed(node) /\ DOMAIN turn = Turns /\ TurnType(turn[c])
  BY DEF Ids, Stages, Base, Types
<1>2. Helps(c, node, M) /\ Typed(M)
  BY <1>1, FlagsHelp, HelpsTyped
<1>3. CASE node' = Write(M, b, id, FALSE) /\ turn' = [turn EXCEPT ![c].pc = "create", ![c].on = b]
  <2>. DEFINE tn == [turn[c] EXCEPT !.pc = "create", !.on = b]
  <2>1. turn' = [turn EXCEPT ![c] = tn]  BY <1>1, <1>3 DEF TurnType, TurnFields
  <2>2. TurnType(tn) /\ tn.pc = "create" /\ tn.on = b
    BY <1>1 DEF TurnType, TurnFields, Pcs, Stages, Nodes
  <2>. HIDE DEF tn, M
  <2>3. Helps(c, M, node') /\ (M[b].os = "up" => Owes(node'[b], id))
    BY <1>1, <1>2, <1>3, PutHelps
  <2>4. node'[b].os = M[b].os /\ M[b].os = node[b].os
    BY <1>2, <2>3 DEF Helps, Serves
  <2>5. Waits(tn, node', c)
    BY <2>2, <2>3, <2>4 DEF Waits, Stages
  <2>. QED BY <1>2, <2>1, <2>2, <2>3, <2>5, HelpsTwice DEF Advances
<1>4. CASE /\ node' = [M EXCEPT ![b].pend = @ \cup {id}]
           /\ turn' = [turn EXCEPT ![c].pc = "raised"]
  <2>. DEFINE tn == [turn[c] EXCEPT !.pc = "raised"]
  <2>1. turn' = [turn EXCEPT ![c] = tn]  BY <1>1, <1>4 DEF TurnType, TurnFields
  <2>2. TurnType(tn) /\ tn.pc = "raised"  BY <1>1 DEF TurnType, TurnFields, Pcs, Ended
  <2>. HIDE DEF tn, M
  <2>3. Helps(c, M, node')  BY <1>1, <1>2, <1>4, RegisterHelps
  <2>. QED BY <1>2, <2>1, <2>2, <2>3, HelpsTwice, RestAdvances DEF Ended
<1>. QED BY <1>3, <1>4 DEF Create

LEMMA TurnStepBase ==
  ASSUME Base, NEW c \in Turns, TurnStep(c)
  PROVE  Base'
<1>1. /\ Typed(node) /\ DOMAIN turn = Turns /\ TurnType(turn[c]) /\ DOMAIN node = Nodes
      /\ bridge \in 0..MaxNodes /\ disabled \in BOOLEAN
      /\ bridge # 0 => bridge \in Nodes /\ node[bridge].os \in Running
  BY DEF Base, Types, Typed, Nodes
<1>2. CASE EnsureStarts(c)
  <2>. USE <1>2 DEF EnsureStarts
  <2>1. PICK n \in Nodes : /\ node[n].os = "none" /\ node' = [node EXCEPT ![n].os = "starting"]
                           /\ turn' = [turn EXCEPT ![c].pc = "start", ![c].on = n]
    OBVIOUS
  <2>2. Sane(node'[n]) /\ \A m \in Nodes \ {n} : node'[m] = node[m]
    BY <1>1, <2>1 DEF Typed, Sane, Fields, Running
  <2>3. Typed(node') /\ node'[n].os = "starting" /\ \A m \in Nodes : node'[m].os # node[m].os => m = n
    BY <1>1, <2>1, <2>2 DEF Typed, Sane, Fields
  <2>4. /\ TurnType(turn'[c]) /\ turn'[c].pc = "start" /\ turn'[c].on = n /\ DOMAIN turn' = Turns
        /\ \A d \in Turns \ {c} : turn'[d] = turn[d]
    BY <1>1, <2>1 DEF TurnType, TurnFields, Pcs, Nodes
  <2>5. Types'
    BY <2>3, <2>4 DEF Base, Types
  <2>6. ASSUME NEW d \in Turns PROVE Waits(turn[d], node, d)'
    <3>1. CASE d = c  BY <2>3, <2>4, <3>1 DEF Waits, Stages
    <3>2. CASE d # c  BY <2>1, <2>2, <2>3, <2>4, <3>2 DEF Base, Waits, Running
    <3>. QED BY <3>1, <3>2
  <2>7. (bridge # 0 => node[bridge].os \in Running)'
    BY <1>1, <2>1, <2>2 DEF Running
  <2>. QED BY <2>5, <2>6, <2>7 DEF Base
<1>3. CASE Ensure(c)
  <2>. USE <1>3 DEF Ensure
  <2>1. CASE turn' = [turn EXCEPT ![c].pc = "search"] /\ node' = node
    <3>. DEFINE tn == [turn[c] EXCEPT !.pc = "search"]
    <3>1. turn' = [turn EXCEPT ![c] = tn]  BY <1>1, <2>1 DEF TurnType, TurnFields
    <3>2. TurnType(tn) /\ tn.pc = "search"  BY <1>1 DEF TurnType, TurnFields, Pcs
    <3>3. Advances(c, node)  BY <1>1, <2>1, <3>1, <3>2, HelpsItself, RestAdvances
    <3>. QED BY <1>1, <3>3, AdvancedBase
  <2>2. CASE IsAlive(node, bridge) /\ Create(c, node, bridge)
    <3>1. Advances(c, node)  BY <1>1, <2>2, CreateAdvances DEF IsAlive
    <3>. QED BY <1>1, <3>1, AdvancedBase
  <2>. QED BY <2>1, <2>2
<1>4. CASE BridgeStarted(c)
  <2>. DEFINE n == turn[c].on
  <2>. USE <1>4 DEF BridgeStarted
  <2>1. n \in Nodes /\ node[n].os \in Running  BY <1>1 DEF Base, Waits, Typed, Sane
  <2>2. CASE Create(c, node, n)
    <3>1. Advances(c, node)  BY <2>1, <2>2, CreateAdvances
    <3>. QED BY <1>1, <2>1, <3>1, AdvancedBase DEF Nodes
  <2>3. CASE /\ turn' = [turn EXCEPT ![c].pc = "raised"]
             /\ node' = [node EXCEPT ![n].know = TRUE]
    <3>. DEFINE tn == [turn[c] EXCEPT !.pc = "raised"]
    <3>1. turn' = [turn EXCEPT ![c] = tn]  BY <1>1, <2>3 DEF TurnType, TurnFields
    <3>2. TurnType(tn) /\ tn.pc = "raised"  BY <1>1 DEF TurnType, TurnFields, Pcs, Ended
    <3>3. Helps(c, node, node')  BY <1>1, <2>1, <2>3, FlagsHelp
    <3>4. Advances(c, node)  BY <3>1, <3>2, <3>3, RestAdvances DEF Ended
    <3>. QED BY <1>1, <2>1, <3>4, AdvancedBase DEF Nodes
  <2>. QED BY <2>2, <2>3
<1>5. CASE StartFails(c)
  <2>. DEFINE n == turn[c].on
  <2>. USE <1>5 DEF StartFails
  <2>1. n \in Nodes /\ Sane(node[n]) /\ ~node[n].ready /\ node[n].os # "none"
    BY <1>1 DEF Base, Waits, Typed
  <2>. DEFINE md == [node[n] EXCEPT !.os = "reaped", !.eof = TRUE]
  <2>2. node' = [node EXCEPT ![n] = md]
    BY <1>1, <2>1 DEF Sane, Fields
  <2>3. Sane(md) /\ md.os = "reaped"
    BY <2>1 DEF Sane, Fields, Running
  <2>. HIDE DEF md
  <2>4. Typed(node') /\ node'[n].os = "reaped" /\ \A m \in Nodes \ {n} : node'[m] = node[m]
    BY <1>1, <2>1, <2>2, <2>3 DEF Typed
  <2>5. /\ TurnType(turn'[c]) /\ turn'[c].pc = "search" /\ DOMAIN turn' = Turns
        /\ \A d \in Turns \ {c} : turn'[d] = turn[d]
    BY <1>1 DEF TurnType, TurnFields, Pcs
  <2>6. Types'
    BY <2>4, <2>5 DEF Base, Types
  <2>7. ASSUME NEW d \in Turns PROVE Waits(turn[d], node, d)'
    <3>1. CASE d = c
      <4>1. \A N : Waits(turn'[c], N, c)  BY <2>5, RestWaits
      <4>. QED BY <3>1, <4>1
    <3>2. CASE d # c
      <4>1. turn'[d] = turn[d] /\ Waits(turn[d], node, d)  BY <2>5, <3>2 DEF Base
      <4>. HIDE <1>5
      <4>. QED BY <2>4, <4>1 DEF Waits, Running
    <3>. QED BY <3>1, <3>2
  <2>8. (bridge # 0 => node[bridge].os \in Running)'
    BY <1>1, <2>4 DEF Running
  <2>. QED BY <2>6, <2>7, <2>8 DEF Base
<1>6. CASE Route(c)
  <2>. USE <1>6 DEF Route
  <2>1. CASE /\ HasSession(node, bridge)
             /\ node' = WriteSend(node, bridge, <<c, "send">>)
             /\ turn' = [turn EXCEPT ![c].pc = "send", ![c].on = bridge, ![c].full = FALSE]
    <3>. DEFINE tn == [turn[c] EXCEPT !.pc = "send", !.on = bridge, !.full = FALSE]
                id == <<c, "send">>
    <3>1. turn' = [turn EXCEPT ![c] = tn]  BY <1>1, <2>1 DEF TurnType, TurnFields
    <3>2. TurnType(tn) /\ tn.pc = "send" /\ tn.on = bridge
      BY <1>1 DEF TurnType, TurnFields, Pcs, Stages
    <3>3. bridge \in Nodes /\ node[bridge].os \in Running /\ id \in Ids
      BY <1>1, <2>1 DEF HasSession, IsAlive, Ids, Stages
    <3>. HIDE DEF tn
    <3>4. /\ Helps(c, node, node')
          /\ node[bridge].os = "up" => Owes(node'[bridge], id)
      BY <1>1, <2>1, <3>3, PutHelps
    <3>5. node'[bridge].os = node[bridge].os  BY <3>3, <3>4 DEF Helps, Serves
    <3>6. Waits(tn, node', c)  BY <3>2, <3>3, <3>4, <3>5 DEF Waits, Stages
    <3>7. Advances(c, node)  BY <3>1, <3>2, <3>4, <3>6 DEF Advances
    <3>. QED BY <1>1, <3>7, AdvancedBase
  <2>2. CASE turn' = [turn EXCEPT ![c] = FallBack(c)] /\ node' = node
    <3>1. Advances(c, node)  BY <1>1, <2>2, HelpsItself, FallBackWaits DEF Advances
    <3>. QED BY <1>1, <3>1, AdvancedBase
  <2>. QED BY <2>1, <2>2
<1>. QED BY <1>2, <1>3, <1>4, <1>5, <1>6 DEF TurnStep

LEMMA ContinuedBase ==
  ASSUME Base, NEW c \in Turns, turn[c].pc \in Stages, NEW N, Helps(c, node, N),
         NEW what, NEW told, Continue(c, N, what, told), UNCHANGED <<bridge, disabled, drain>>
  PROVE  Base'
<1>1. Advances(c, node)
  BY ContinueAdvances, AdvancesFrom
<1>2. bridge \in 0..MaxNodes /\ disabled \in BOOLEAN /\ (bridge # 0 => node[bridge].os \in Running)
  BY DEF Base, Types
<1>. QED BY <1>1, <1>2, AdvancedBase

\* An outcome that is no answer, and a caller who gives up.
LEMMA GivesUpBase ==
  ASSUME Base, NEW c \in Turns, TimesOut(c) \/ SeesDeath(c) \/ Cancelled(c)
  PROVE  Base'
<1>1. /\ Typed(node) /\ DOMAIN turn = Turns /\ TurnType(turn[c])
      /\ turn[c].pc \in Stages => turn[c].on \in Nodes
      /\ bridge \in 0..MaxNodes /\ disabled \in BOOLEAN
      /\ bridge # 0 => node[bridge].os \in Running
  BY DEF Base, Types, Waits
<1>2. CASE TimesOut(c)
  <2>. DEFINE N == [node EXCEPT ![turn[c].on].pend = @ \ {<<c, turn[c].pc>>}]
  <2>1. Helps(c, node, N)  BY <1>1, <1>2, LeavesHelp DEF TimesOut
  <2>. QED BY <1>2, <2>1, ContinuedBase DEF TimesOut
<1>3. CASE SeesDeath(c)
  BY <1>1, <1>3, HelpsItself, ContinuedBase DEF SeesDeath
<1>4. CASE Cancelled(c)
  <2>. DEFINE tn == [turn[c] EXCEPT !.pc = "cancelled"]
  <2>1. turn' = [turn EXCEPT ![c] = tn]  BY <1>1, <1>4 DEF Cancelled, TurnType, TurnFields
  <2>2. TurnType(tn) /\ tn.pc = "cancelled"  BY <1>1 DEF TurnType, TurnFields, Pcs, Ended
  <2>3. Helps(c, node, node')
    <3>1. CASE node' = node  BY <1>1, <3>1, HelpsItself
    <3>2. CASE /\ turn[c].pc \in {"send", "resend"}
               /\ node' = [node EXCEPT ![turn[c].on].pend = @ \ {<<c, turn[c].pc>>}]
      BY <1>1, <3>2, LeavesHelp DEF Stages
    <3>. QED BY <1>4, <3>1, <3>2 DEF Cancelled
  <2>4. Advances(c, node)  BY <2>1, <2>2, <2>3, RestAdvances DEF Ended
  <2>. QED BY <1>1, <1>4, <2>4, AdvancedBase DEF Cancelled
<1>. QED BY <1>2, <1>3, <1>4

LEMMA DispatchBase ==
  ASSUME Base, NEW n \in Nodes, Dispatch(n)
  PROVE  Base'
<1>. DEFINE e == Head(node[n].out)
            c == e.id[1]
            md == [node[n] EXCEPT !.out = Tail(@), !.pend = @ \ {e.id}]
            N == [node EXCEPT ![n].out = Tail(@), ![n].pend = @ \ {e.id}]
<1>1. Typed(node) /\ Sane(node[n]) /\ node[n].out # <<>>
  BY DEF Base, Types, Typed, Dispatch
<1>2. /\ e \in Events /\ e.id = <<c, e.id[2]>> /\ c \in Turns
      /\ Serves(c, node[n], md)
      /\ \A id : id # e.id /\ Owes(node[n], id) => Owes(md, id)
  BY <1>1, TakenServes
<1>3. N = [node EXCEPT ![n] = md]
  BY <1>1 DEF Typed, Sane, Fields
<1>4. /\ \/ /\ e.id \in node[n].pend /\ turn[c].pc = e.id[2] /\ turn[c].on = n
            /\ Continue(c, N, e.what, e.told)
         \/ /\ ~(e.id \in node[n].pend /\ turn[c].pc = e.id[2] /\ turn[c].on = n)
            /\ node' = N /\ UNCHANGED turn
      /\ UNCHANGED <<bridge, disabled, drain>>
  BY DEF Dispatch
<1>. HIDE DEF md
<1>5. Helps(c, node, N)
  BY <1>1, <1>2, <1>3, HelpsOne
<1>6. e.id \in Ids
  <2>. HIDE DEF e
  <2>. QED BY <1>2 DEF Events
<1>. HIDE DEF e, c, N
<1>7. CASE e.id \in node[n].pend /\ turn[c].pc = e.id[2] /\ turn[c].on = n /\ Continue(c, N, e.what, e.told)
  <2>1. turn[c].pc \in Stages  BY <1>2, <1>6, <1>7 DEF Ids
  <2>. QED BY <1>2, <1>4, <1>5, <1>7, <2>1, ContinuedBase
<1>8. CASE /\ ~(e.id \in node[n].pend /\ turn[c].pc = e.id[2] /\ turn[c].on = n)
           /\ node' = N /\ UNCHANGED turn
  <2>1. Waits(turn[c], node, c) /\ DOMAIN turn = Turns /\ TurnType(turn[c])
    BY <1>2 DEF Base, Types
  <2>2. \A m \in Nodes : N[m].os = node[m].os
    BY <1>5 DEF Helps, Serves
  <2>3. Waits(turn[c], node', c)
    <3>1. CASE turn[c].on = n /\ turn[c].pc = e.id[2]
      <4>1. e.id \notin node[n].pend  BY <1>8, <3>1
      <4>2. ~Owes(node[n], <<c, turn[c].pc>>)  BY <1>2, <3>1, <4>1 DEF Owes
      <4>3. node[n].os = "up" => turn[c].pc \notin Stages  BY <2>1, <3>1, <4>2 DEF Waits
      <4>. QED BY <1>8, <2>1, <2>2, <3>1, <4>3 DEF Waits
    <3>2. CASE turn[c].on = n /\ turn[c].pc # e.id[2]
      <4>1. <<c, turn[c].pc>> # e.id  BY <1>2, <3>2
      <4>2. node'[n] = md  BY <1>1, <1>3, <1>8 DEF Typed
      <4>3. Owes(node[n], <<c, turn[c].pc>>) => Owes(node'[n], <<c, turn[c].pc>>)
        BY <1>2, <4>1, <4>2
      <4>. QED BY <1>8, <2>1, <2>2, <3>2, <4>3 DEF Waits
    <3>3. CASE turn[c].on # n
      <4>1. \A m \in Nodes : m # n => node'[m] = node[m]  BY <1>1, <1>3, <1>8 DEF Typed
      <4>. QED BY <2>1, <3>3, <4>1 DEF Waits
    <3>. QED BY <3>1, <3>2, <3>3
  <2>4. Advances(c, node)  BY <1>5, <1>8, <2>1, <2>3 DEF Advances
  <2>5. bridge \in 0..MaxNodes /\ disabled \in BOOLEAN /\ (bridge # 0 => node[bridge].os \in Running)
    BY DEF Base, Types
  <2>. QED BY <1>2, <1>4, <2>4, <2>5, AdvancedBase
<1>. QED BY <1>4, <1>7, <1>8

\* Node puts an event behind the others.
LEMMA EmitIs ==
  ASSUME NEW nd, Sane(nd), NEW id \in Ids,
         NEW what \in {"created", "closed", "ok", "empty", "error", "dead"}, NEW told \in BOOLEAN
  PROVE  /\ Sane(Emit(nd, id, what, told)) /\ Emit(nd, id, what, told).os = nd.os
         /\ \A x : Owes(nd, x) \/ (x = id /\ id \in nd.pend) => Owes(Emit(nd, id, what, told), x)
<1>. DEFINE md == Emit(nd, id, what, told)
            e == [id |-> id, what |-> what, told |-> told]
<1>1. /\ DOMAIN md = Fields /\ md.out = Append(nd.out, e) /\ md.pend = nd.pend
      /\ md.in = nd.in /\ md.os = nd.os /\ md.session = nd.session
      /\ md.died = nd.died /\ md.busy = nd.busy /\ md.ready = nd.ready
      /\ md.first = nd.first /\ md.know = nd.know
  BY DEF Emit, Sane, Fields
<1>2. e \in Events /\ e.id = id  BY DEF Events
<1>. HIDE DEF md, e
<1>3. md.out \in Seq(Events)  BY <1>1, <1>2 DEF Sane
<1>4. Sane(md)  BY <1>1, <1>3 DEF Sane
<1>5. /\ \A i \in DOMAIN nd.out : i \in DOMAIN md.out /\ md.out[i] = nd.out[i]
      /\ Len(nd.out) + 1 \in DOMAIN md.out /\ md.out[Len(nd.out) + 1] = e
  BY <1>1, <1>2 DEF Sane
<1>6. \A x : Owes(nd, x) => Owes(md, x)
  BY <1>1, <1>5 DEF Owes
<1>7. id \in nd.pend => Owes(md, id)
  BY <1>1, <1>2, <1>5 DEF Owes
<1>. QED BY <1>1, <1>4, <1>6, <1>7 DEF md

\* What Node makes of the line it reads, x being its session afterwards.
Takes(nd, x) == [nd EXCEPT !.in = Tail(@), !.session = x]

ReadAs(nd, md) ==
  LET cmd  == Head(nd.in)
      told == cmd.prompt \/ nd.session = "told"
  IN  \/ /\ cmd.id[2] \in Creations
         /\ \/ md = Emit(Takes(nd, "blank"), cmd.id, "created", FALSE)
            \/ "create" \in Faults /\ md = Emit(Takes(nd, nd.session), cmd.id, "error", FALSE)
      \/ /\ cmd.id[2] = "close"
         /\ md = Emit(Takes(nd, "none"), cmd.id, "closed", FALSE)
      \/ /\ cmd.id[2] \in Messages /\ nd.session = "none"
         /\ md = Emit(Takes(nd, "none"), cmd.id, "dead", FALSE)
      \/ /\ cmd.id[2] \in Messages /\ nd.session # "none"
         /\ md = [Takes(nd, IF told THEN "told" ELSE "blank") EXCEPT
                    !.busy = @ \cup {<<cmd.id, told>>}]

LEMMA ReadsAs ==
  ASSUME Base, NEW n \in Nodes, NodeReads(n)
  PROVE  /\ node[n].os = "up" /\ node[n].in # <<>> /\ UNCHANGED <<bridge, disabled, turn, drain>>
         /\ \E md : ReadAs(node[n], md) /\ node' = [node EXCEPT ![n] = md]
<1>1. Sane(node[n])  BY DEF Base, Types, Typed
<1>2. node[n].os = "up" /\ node[n].in # <<>> /\ UNCHANGED <<bridge, disabled, turn, drain>>
  BY DEF NodeReads
<1>. DEFINE nd   == node[n]
            cmd  == Head(nd.in)
            rest == [nd EXCEPT !.in = Tail(@)]
            told == cmd.prompt \/ nd.session = "told"
<1>3. cmd.id[2] \in Stages
  <2>1. cmd \in Commands  BY <1>1, <1>2 DEF Sane
  <2>. QED BY <2>1 DEF Commands, Ids
<1>. DEFINE blank == Emit([rest EXCEPT !.session = "blank"], cmd.id, "created", FALSE)
            error == Emit(rest, cmd.id, "error", FALSE)
            none  == Emit([rest EXCEPT !.session = "none"], cmd.id, "closed", FALSE)
            dead  == Emit(rest, cmd.id, "dead", FALSE)
            works == [rest EXCEPT !.session = IF told THEN "told" ELSE "blank",
                                  !.busy = @ \cup {<<cmd.id, told>>}]
<1>4. PICK md : /\ node' = [node EXCEPT ![n] = md]
                /\ md \in CASE cmd.id[2] \in {"create", "recreate"} ->
                                 {blank} \cup (IF "create" \in Faults THEN {error} ELSE {})
                            [] cmd.id[2] = "close" -> {none}
                            [] cmd.id[2] \in {"send", "resend"} /\ nd.session = "none" -> {dead}
                            [] OTHER -> {works}
  BY DEF NodeReads
<1>5. /\ rest = Takes(nd, nd.session)
      /\ [rest EXCEPT !.session = "blank"] = Takes(nd, "blank")
      /\ [rest EXCEPT !.session = "none"] = Takes(nd, "none")
  BY <1>1 DEF Takes, Sane, Fields
<1>6. /\ blank = Emit(Takes(nd, "blank"), cmd.id, "created", FALSE)
      /\ error = Emit(Takes(nd, nd.session), cmd.id, "error", FALSE)
      /\ none = Emit(Takes(nd, "none"), cmd.id, "closed", FALSE)
      /\ dead = Emit(Takes(nd, nd.session), cmd.id, "dead", FALSE)
  <2>. HIDE DEF nd, cmd, told
  <2>. QED BY <1>5
<1>7. works = [Takes(nd, IF told THEN "told" ELSE "blank") EXCEPT !.busy = @ \cup {<<cmd.id, told>>}]
  BY <1>1 DEF Takes, Sane, Fields
<1>8. ReadAs(nd, md)
  <2>. HIDE DEF rest, told, cmd, nd, blank, error, none, dead, works
  <2>1. CASE cmd.id[2] \in {"create", "recreate"}
    <3>. DEFINE S == {blank} \cup (IF "create" \in Faults THEN {error} ELSE {})
    <3>2. md \in S  BY <1>4, <2>1, Zenon
    <3>1. md = blank \/ ("create" \in Faults /\ md = error)  BY <3>2
    <3>. QED BY <1>6, <2>1, <3>1 DEF ReadAs, Creations, cmd
  <2>2. CASE cmd.id[2] = "close"
    <3>2. ~(cmd.id[2] \in {"create", "recreate"})  BY <2>2
    <3>1. md = none  BY <1>4, <2>2, <3>2, Zenon
    <3>. QED BY <1>6, <2>2, <3>1 DEF ReadAs, cmd
  <2>3. CASE cmd.id[2] \in Messages /\ nd.session = "none"
    <3>1. md = dead  BY <1>4, <2>3 DEF Messages
    <3>. QED BY <1>6, <2>3, <3>1 DEF ReadAs, cmd
  <2>4. CASE cmd.id[2] \in Messages /\ nd.session # "none"
    <3>1. md = works  BY <1>4, <2>4 DEF Messages
    <3>. QED BY <1>7, <2>4, <3>1 DEF ReadAs, cmd, told
  <2>. QED BY <1>3, <2>1, <2>2, <2>3, <2>4 DEF Stages, Messages
<1>. QED BY <1>2, <1>4, <1>8

LEMMA TakesIs ==
  ASSUME NEW nd, Sane(nd), nd.os = "up", nd.in # <<>>, NEW x \in {"none", "blank", "told"}
  PROVE  /\ Sane(Takes(nd, x)) /\ Takes(nd, x).os = "up"
         /\ \A id : Owes(nd, id) =>
              Owes(Takes(nd, x), id) \/ (id = Head(nd.in).id /\ id \in Takes(nd, x).pend)
<1>. DEFINE r == Takes(nd, x)
<1>1. /\ nd.in \in Seq(Commands) /\ Tail(nd.in) \in Seq(Commands) /\ Head(nd.in) = nd.in[1]
      /\ \A i \in DOMAIN nd.in : i # 1 => i - 1 \in DOMAIN Tail(nd.in) /\ Tail(nd.in)[i - 1] = nd.in[i]
  BY DEF Sane
<1>2. /\ DOMAIN r = Fields /\ r.session = x /\ r.in = Tail(nd.in)
      /\ r.out = nd.out /\ r.pend = nd.pend /\ r.os = nd.os
      /\ r.died = nd.died /\ r.busy = nd.busy /\ r.ready = nd.ready
      /\ r.first = nd.first /\ r.know = nd.know
  BY DEF Takes, Sane, Fields
<1>. HIDE DEF r
<1>3. Sane(r) /\ r.os = "up"  BY <1>1, <1>2 DEF Sane
<1>4. ASSUME NEW id, Owes(nd, id)
      PROVE  Owes(r, id) \/ (id = Head(nd.in).id /\ id \in r.pend)
  <2>1. id \in r.pend  BY <1>2, <1>4 DEF Owes
  <2>2. CASE \E i \in DOMAIN nd.in : nd.in[i].id = id
    <3>1. PICK i \in DOMAIN nd.in : nd.in[i].id = id  BY <2>2
    <3>2. CASE i = 1  BY <1>1, <2>1, <3>1, <3>2
    <3>3. CASE i # 1
      <4>1. i - 1 \in DOMAIN r.in /\ r.in[i - 1].id = id  BY <1>1, <1>2, <3>1, <3>3
      <4>. QED BY <2>1, <4>1 DEF Owes
    <3>. QED BY <3>2, <3>3
  <2>3. CASE \E b \in nd.busy : b[1] = id  BY <1>2, <2>1, <2>3 DEF Owes
  <2>4. CASE \E i \in DOMAIN nd.out : nd.out[i].id = id  BY <1>2, <2>1, <2>4 DEF Owes
  <2>. QED BY <1>4, <2>2, <2>3, <2>4 DEF Owes
<1>5. r = Takes(nd, x)  BY DEF r
<1>. QED BY <1>3, <1>4, <1>5

LEMMA ReadSane ==
  ASSUME NEW nd, Sane(nd), nd.os = "up", nd.in # <<>>, NEW md, ReadAs(nd, md)
  PROVE  Sane(md) /\ md.os = "up" /\ \A id : Owes(nd, id) => Owes(md, id)
<1>. DEFINE cmd == Head(nd.in)
            told == cmd.prompt \/ nd.session = "told"
<1>1. cmd.id \in Ids /\ cmd.id \in Turns \X Stages /\ told \in BOOLEAN
  <2>1. cmd \in Commands  BY DEF Sane
  <2>. HIDE DEF cmd
  <2>. QED BY <2>1 DEF Commands, Ids
<1>2. nd.session \in {"none", "blank", "told"}  BY DEF Sane
<1>3. ASSUME NEW x \in {"none", "blank", "told"},
             NEW what \in {"created", "closed", "ok", "empty", "error", "dead"},
             md = Emit(Takes(nd, x), cmd.id, what, FALSE)
      PROVE  Sane(md) /\ md.os = "up" /\ \A id : Owes(nd, id) => Owes(md, id)
  <2>. DEFINE r == Takes(nd, x)
  <2>1. /\ Sane(r) /\ r.os = "up"
        /\ \A id : Owes(nd, id) => (Owes(r, id) \/ (id = cmd.id /\ id \in r.pend))
    BY TakesIs
  <2>2. md = Emit(r, cmd.id, what, FALSE)  BY <1>3
  <2>. HIDE DEF r, cmd
  <2>3. /\ Sane(md) /\ md.os = r.os
        /\ \A y : Owes(r, y) \/ (y = cmd.id /\ cmd.id \in r.pend) => Owes(md, y)
    BY <1>1, <2>1, <2>2, EmitIs
  <2>. QED BY <2>1, <2>3
<1>4. CASE /\ cmd.id[2] \in Messages
           /\ md = [Takes(nd, IF told THEN "told" ELSE "blank") EXCEPT
                      !.busy = @ \cup {<<cmd.id, told>>}]
  <2>. DEFINE x == IF told THEN "told" ELSE "blank"
              r == Takes(nd, x)
  <2>1. x \in {"none", "blank", "told"}  OBVIOUS
  <2>. HIDE DEF x
  <2>2. /\ Sane(r) /\ r.os = "up"
        /\ \A id : Owes(nd, id) => (Owes(r, id) \/ (id = cmd.id /\ id \in r.pend))
    BY <2>1, TakesIs
  <2>3. md = [r EXCEPT !.busy = @ \cup {<<cmd.id, told>>}]  BY <1>4 DEF x
  <2>. HIDE DEF r, cmd, told
  <2>4. /\ DOMAIN md = Fields /\ md.session = r.session
        /\ md.in = r.in /\ md.busy = r.busy \cup {<<cmd.id, told>>}
        /\ md.out = r.out /\ md.pend = r.pend /\ md.os = r.os
        /\ md.died = r.died /\ md.ready = r.ready
        /\ md.first = r.first /\ md.know = r.know
    BY <2>2, <2>3 DEF Sane, Fields
  <2>5. <<cmd.id, told>> \in (Turns \X Messages) \X BOOLEAN  BY <1>1, <1>4
  <2>6. Sane(md) /\ md.os = "up"  BY <2>2, <2>4, <2>5 DEF Sane
  <2>7. <<cmd.id, told>> \in md.busy /\ <<cmd.id, told>>[1] = cmd.id  BY <2>4
  <2>8. ASSUME NEW id, Owes(nd, id) PROVE Owes(md, id)
    <3>1. CASE Owes(r, id)  BY <2>4, <3>1 DEF Owes
    <3>2. CASE id = cmd.id /\ id \in r.pend  BY <2>4, <2>7, <3>2 DEF Owes
    <3>. QED BY <2>2, <2>8, <3>1, <3>2
  <2>. QED BY <2>6, <2>8
<1>. QED BY <1>2, <1>3, <1>4 DEF ReadAs

\* handleSend ends.
Answers(nd, b, what) ==
  [nd EXCEPT !.busy = @ \ {b}, !.session = IF what = "dead" THEN "none" ELSE @]

LEMMA AnswerSane ==
  ASSUME NEW nd, Sane(nd), nd.os = "up", NEW b \in nd.busy,
         NEW what \in {"ok", "empty", "error", "dead"}
  PROVE  /\ Sane(Emit(Answers(nd, b, what), b[1], what, b[2]))
         /\ Emit(Answers(nd, b, what), b[1], what, b[2]).os = "up"
         /\ \A id : Owes(nd, id) => Owes(Emit(Answers(nd, b, what), b[1], what, b[2]), id)
<1>. DEFINE r == Answers(nd, b, what)
            id == b[1]
            told == b[2]
            md == Emit(r, id, what, told)
<1>1. /\ DOMAIN r = Fields /\ r.session \in {nd.session, "none"} /\ r.in = nd.in
      /\ r.out = nd.out /\ r.pend = nd.pend /\ r.os = nd.os
      /\ r.died = nd.died /\ r.busy = nd.busy \ {b} /\ r.ready = nd.ready
      /\ r.first = nd.first /\ r.know = nd.know
  BY DEF Answers, Sane, Fields
<1>. HIDE DEF r
<1>2. id \in Ids /\ told \in BOOLEAN
  BY DEF Sane, Ids, Messages, Stages
<1>3. Sane(r)  BY <1>1 DEF Sane
<1>4. ASSUME NEW x, Owes(nd, x)
      PROVE  Owes(r, x) \/ (x = id /\ x \in r.pend)
  <2>1. x \in r.pend  BY <1>1, <1>4 DEF Owes
  <2>2. CASE \E a \in nd.busy : a[1] = x
    <3>1. PICK a \in nd.busy : a[1] = x  BY <2>2
    <3>2. CASE a = b  BY <2>1, <3>1, <3>2
    <3>3. CASE a # b
      <4>1. a \in r.busy  BY <1>1, <3>1, <3>3
      <4>. QED BY <2>1, <3>1, <4>1 DEF Owes
    <3>. QED BY <3>2, <3>3
  <2>3. CASE ~\E a \in nd.busy : a[1] = x  BY <1>1, <1>4, <2>1, <2>3 DEF Owes
  <2>. QED BY <2>2, <2>3
<1>. HIDE DEF id, told
<1>5. what \in {"created", "closed", "ok", "empty", "error", "dead"}
  OBVIOUS
<1>6. /\ Sane(md) /\ md.os = r.os
      /\ \A x : Owes(r, x) \/ (x = id /\ id \in r.pend) => Owes(md, x)
  <2>1. CASE told = TRUE   BY <1>2, <1>3, <1>5, <2>1, EmitIs
  <2>2. CASE told = FALSE  BY <1>2, <1>3, <1>5, <2>2, EmitIs
  <2>. QED BY <1>2, <2>1, <2>2
<1>. HIDE DEF md
<1>7. Sane(md) /\ md.os = "up" /\ \A x : Owes(nd, x) => Owes(md, x)
  BY <1>1, <1>4, <1>6
<1>8. md = Emit(Answers(nd, b, what), b[1], what, b[2])  BY DEF md, r, id, told
<1>. QED BY <1>7, <1>8

\* A process becomes ready, is noticed to be gone, or goes.
Changes(n, md) ==
  \/ NodeReady(n) /\ md = [node[n] EXCEPT !.os = "up", !.ready = TRUE]
  \/ Reaped(n) /\ md = [node[n] EXCEPT !.os = "reaped"]
  \/ ReaderEnds(n) /\ md = [node[n] EXCEPT !.eof = TRUE, !.ready = TRUE, !.died = node[n].pend]
  \/ NodeDies(n) /\ md = Lifeless(node[n], "dead")

LEMMA NodeChanges ==
  ASSUME Base, NEW n \in Nodes, NodeReady(n) \/ Reaped(n) \/ ReaderEnds(n) \/ NodeDies(n)
  PROVE  \E md : /\ Changes(n, md) /\ node' = [node EXCEPT ![n] = md]
                 /\ Sane(md) /\ md.os # "none"
                 /\ node[n].os \in Running => md.os \in Running /\ md.os # "up"
<1>1. Typed(node) /\ Sane(node[n])  BY DEF Base, Types, Typed
<1>. USE <1>1 DEF Running
<1>2. CASE NodeReady(n)
  <2>. DEFINE md == [node[n] EXCEPT !.os = "up", !.ready = TRUE]
  <2>1. node' = [node EXCEPT ![n] = md]  BY <1>2 DEF NodeReady, Typed, Sane, Fields
  <2>2. Sane(md) /\ md.os = "up" /\ node[n].os = "starting"
    BY <1>2 DEF NodeReady, Sane, Fields
  <2>. QED BY <1>2, <2>1, <2>2 DEF Changes
<1>3. CASE Reaped(n)
  <2>. DEFINE md == [node[n] EXCEPT !.os = "reaped"]
  <2>1. node' = [node EXCEPT ![n] = md]  BY <1>3 DEF Reaped, Typed, Sane, Fields
  <2>2. Sane(md) /\ md.os = "reaped"  BY <1>3 DEF Reaped, Sane, Fields
  <2>. QED BY <1>3, <2>1, <2>2 DEF Changes
<1>4. CASE ReaderEnds(n)
  <2>. DEFINE md == [node[n] EXCEPT !.eof = TRUE, !.ready = TRUE, !.died = node[n].pend]
  <2>1. node' = [node EXCEPT ![n] = md]  BY <1>4 DEF ReaderEnds, Typed, Sane, Fields
  <2>2. Sane(md) /\ md.os \in {"dead", "reaped"}  BY <1>4 DEF ReaderEnds, Sane, Fields
  <2>. QED BY <1>4, <2>1, <2>2 DEF Changes
<1>5. CASE NodeDies(n)
  <2>. DEFINE md == Lifeless(node[n], "dead")
  <2>1. node' = [node EXCEPT ![n] = md]  BY <1>5 DEF NodeDies
  <2>2. /\ DOMAIN md = Fields /\ md.os = "dead" /\ md.session = "none" /\ md.busy = {}
        /\ md.in = <<>> /\ md.out = node[n].out /\ md.pend = node[n].pend
        /\ md.died = node[n].died /\ md.ready = node[n].ready
        /\ md.first = node[n].first /\ md.know = node[n].know
    BY DEF Lifeless, Sane, Fields
  <2>. HIDE DEF md
  <2>3. Sane(md)  BY <2>2 DEF Sane
  <2>. QED BY <1>5, <2>1, <2>2, <2>3 DEF Changes, md
<1>. QED BY <1>2, <1>3, <1>4, <1>5

LEMMA BridgeStepBase ==
  ASSUME Base, NEW n \in Nodes, BridgeStep(n) \/ NodeDies(n)
  PROVE  Base'
<1>1. Typed(node) /\ Sane(node[n]) /\ DOMAIN node = Nodes  BY DEF Base, Types, Typed
<1>2. CASE Dispatch(n)  BY <1>2, DispatchBase
<1>3. CASE NodeReady(n) \/ Reaped(n) \/ ReaderEnds(n) \/ NodeDies(n)
  <2>1. PICK md : /\ node' = [node EXCEPT ![n] = md] /\ Sane(md) /\ md.os # "none"
                  /\ node[n].os \in Running => md.os \in Running /\ md.os # "up"
    BY <1>3, NodeChanges
  <2>2. UNCHANGED <<bridge, disabled, turn, drain>>
    BY <1>3 DEF NodeReady, Reaped, ReaderEnds, NodeDies
  <2>. QED BY <2>1, <2>2, NodeBase
<1>4. CASE NodeReads(n)
  <2>1. /\ node[n].os = "up" /\ node[n].in # <<>> /\ UNCHANGED <<bridge, disabled, turn, drain>>
        /\ \E md : ReadAs(node[n], md) /\ node' = [node EXCEPT ![n] = md]
    BY <1>4, ReadsAs
  <2>2. PICK md : ReadAs(node[n], md) /\ node' = [node EXCEPT ![n] = md]
    BY <2>1
  <2>3. Sane(md) /\ md.os = "up" /\ \A id : Owes(node[n], id) => Owes(md, id)
    BY <1>1, <2>1, <2>2, ReadSane
  <2>. QED BY <2>1, <2>2, <2>3, NodeBase DEF Running
<1>5. CASE NodeAnswers(n)
  <2>. USE <1>5 DEF NodeAnswers
  <2>1. PICK b \in node[n].busy, what \in {"ok", "empty", "error", "dead"} :
          node' = [node EXCEPT ![n] = Emit(Answers(node[n], b, what), b[1], what, b[2])]
    BY DEF Answers
  <2>. DEFINE md == Emit(Answers(node[n], b, what), b[1], what, b[2])
  <2>2. Sane(md) /\ md.os = "up" /\ \A id : Owes(node[n], id) => Owes(md, id)
    BY <1>1, AnswerSane
  <2>. HIDE DEF md
  <2>3. node' = [node EXCEPT ![n] = md]  BY <2>1 DEF md
  <2>. QED BY <2>2, <2>3, NodeBase DEF Running
<1>. QED BY <1>2, <1>3, <1>4, <1>5 DEF BridgeStep

LEMMA DrainBase ==
  ASSUME Base, DrainBegins \/ DrainEnds
  PROVE  Base'
<1>1. CASE DrainBegins
  BY <1>1 DEF DrainBegins, Base, Types, Waits
<1>2. CASE DrainEnds /\ ~IsAlive(node, bridge)
  BY <1>2, BridgeAssumption DEF DrainEnds, Base, Types, Waits
<1>3. CASE DrainEnds /\ IsAlive(node, bridge)
  <2>. DEFINE md == [Unborn EXCEPT !.os = "reaped", !.eof = TRUE, !.know = node[bridge].know]
  <2>1. bridge \in Nodes /\ Typed(node) /\ Sane(node[bridge]) /\ DOMAIN node = Nodes
    BY <1>3 DEF IsAlive, Base, Types, Typed, Nodes
  <2>2. node' = [node EXCEPT ![bridge] = md] /\ bridge' = 0 /\ UNCHANGED <<disabled, turn>>
        /\ drain' = "over"
    BY <1>3 DEF DrainEnds
  <2>3. /\ DOMAIN md = Fields /\ md.session = "none" /\ md.os = "reaped"
        /\ md.in = <<>> /\ md.busy = {} /\ md.out = <<>> /\ md.pend = {}
        /\ md.died = {} /\ md.ready = FALSE /\ md.first = FALSE /\ md.know = node[bridge].know
    BY DEF Unborn, Fields
  <2>. HIDE DEF md
  <2>4. Sane(md)
    <3>1. node[bridge].know \in BOOLEAN  BY <2>1 DEF Sane
    <3>2. <<>> \in Seq(Commands) /\ <<>> \in Seq(Events)  OBVIOUS
    <3>. QED BY <2>3, <3>1, <3>2 DEF Sane, Running
  <2>5. Typed(node') /\ node'[bridge].os = "reaped" /\ \A m \in Nodes \ {bridge} : node'[m] = node[m]
    BY <2>1, <2>2, <2>3, <2>4 DEF Typed
  <2>6. Types'
    BY <2>2, <2>5, BridgeAssumption DEF Base, Types
  <2>7. ASSUME NEW d \in Turns PROVE Waits(turn[d], node, d)'
    <3>1. turn'[d] = turn[d] /\ Waits(turn[d], node, d)  BY <2>2 DEF Base
    <3>. QED BY <2>5, <3>1 DEF Waits, Running
  <2>. QED BY <2>2, <2>6, <2>7 DEF Base
<1>. QED BY <1>1, <1>2, <1>3

LEMMA InitBase == Init => Base
<1>. SUFFICES ASSUME Init PROVE Base
  OBVIOUS
<1>1. Sane(Unborn)
  BY DEF Unborn, Sane, Fields, Running
<1>2. TurnType(NewTurn) /\ NewTurn.pc = "idle"
  BY BridgeAssumption DEF NewTurn, TurnType, TurnFields, Pcs
<1>3. \A c : Waits(NewTurn, node, c)
  BY <1>2, RestWaits
<1>. HIDE DEF Unborn, NewTurn
<1>4. Typed(node)  BY <1>1 DEF Init, Typed
<1>5. \A c \in Turns : turn[c] = NewTurn  BY DEF Init
<1>6. Types
  <2>1. \A c \in Turns : TurnType(turn[c])  BY <1>2, <1>5
  <2>2. DOMAIN turn = Turns  BY DEF Init
  <2>3. bridge = 0 /\ disabled = FALSE /\ drain = "no"  BY DEF Init
  <2>4. bridge \in 0..MaxNodes /\ drain \in {"no", "shutting", "over"}
    BY <2>3, BridgeAssumption
  <2>5. disabled \in BOOLEAN  BY <2>3
  <2>. QED BY <1>4, <2>1, <2>2, <2>4, <2>5 DEF Types
<1>. QED BY <1>3, <1>5, <1>6 DEF Init, Base

LEMMA NextBase == Base /\ [Next]_vars => Base'
<1>. SUFFICES ASSUME Base, [Next]_vars PROVE Base'
  OBVIOUS
<1>1. CASE UNCHANGED vars
  BY <1>1 DEF vars, Base, Types, Waits
<1>. QED
  BY <1>1, TurnStepBase, GivesUpBase, BridgeStepBase, DrainBase DEF Next

LEMMA BaseHolds == Spec => []Base
BY InitBase, NextBase, PTL DEF Spec

-----------------------------------------------------------------------------
\* Every variable has its type, and a process that does not run has neither a
\* session nor work.
THEOREM TypeCorrect == Spec => []TypeOK
<1>1. Base => TypeOK
  BY DEF Base, Types, Typed, Sane, TurnType, Pcs, Running, TypeOK
<1>. QED BY <1>1, BaseHolds, PTL

\* Nobody waits for nothing: a turn that waits for a process that runs is
\* registered, and its command, the work on it or its answer is on its way,
\* whoever dies, is late, is drained or gives up (core/sdk_bridge.py).
THEOREM NobodyWaitsInVain == Spec => []PendingIsOwed
<1>1. Base => PendingIsOwed
  BY DEF Base, Waits, Owes, Running, PendingIsOwed, InFlight
<1>. QED BY <1>1, BaseHolds, PTL

-----------------------------------------------------------------------------
(***************************************************************************)
(* The system prompt.  Of the commands that Node has not read yet, those   *)
(* after a creation, or all of them when the session is blank, have the    *)
(* prompt with the first message.  If there is no message among them, the  *)
(* first one to come will carry it, since first is not set.                *)
(***************************************************************************)
Prompts(q, i, j) == \E k \in i..j : q[k].prompt /\ q[k].id[2] \in Messages

Blank(nd, i) == IF i = 0 THEN nd.session = "blank" ELSE nd.in[i].id[2] \in Creations

Primed(nd) ==
  \A i \in 0..Len(nd.in) : Blank(nd, i) =>
    /\ ~nd.first \/ Prompts(nd.in, i + 1, Len(nd.in))
    /\ \A j \in i + 1..Len(nd.in) : nd.in[j].id[2] \in Messages => Prompts(nd.in, i + 1, j)

Faithful(nd) ==
  /\ \A b \in nd.busy : b[2]
  /\ \A i \in DOMAIN nd.out :
       /\ nd.out[i].what = "ok" => nd.out[i].told
       /\ nd.out[i].id[2] \in Creations => nd.out[i].what = "created"
  /\ nd.os = "up" => (nd.first => nd.has) /\ Primed(nd)
  /\ nd.os \notin Running => nd.in = <<>> /\ ~nd.first

\* What the one node is, when b is the bridge.
Clean(N, b) ==
  /\ Faithful(N[1])
  /\ b # 0 => N[b].know
  /\ b = 0 /\ N[1].os = "up" => ~N[1].first

Heard(T) == \A c \in Turns : T[c].how = "sdk" => T[c].told

\* Who starts the one node is alone and before the bridge.
Lone(T, b) ==
  \A c, d \in Turns : T[c].pc = "start" => b = 0 /\ (T[d].pc = "start" => c = d)

Told == OneNode => Clean(node, bridge) /\ Heard(turn) /\ Lone(turn, bridge)

LEMMA OneIsNode == 1 \in Nodes
BY BridgeAssumption DEF Nodes

\* One node alone, and all that refers to one refers to it.
LEMMA TheNode ==
  ASSUME Base, OneNode
  PROVE  /\ bridge \in {0, 1}
         /\ \A n \in Nodes : node[n].os # "none" => n = 1
         /\ \A c \in Turns : turn[c].pc \in Stages \cup {"start"} => turn[c].on = 1
<1>1. \A n \in Nodes : node[n].os # "none" => n = 1
  BY DEF OneNode, Nodes
<1>2. bridge # 0 => bridge \in Nodes /\ node[bridge].os # "none"
  BY DEF Base, Types, Nodes, Running
<1>3. \A c \in Turns : turn[c].pc \in Stages \cup {"start"} =>
        turn[c].on \in Nodes /\ node[turn[c].on].os # "none"
  BY DEF Base, Waits, Running
<1>. QED BY <1>1, <1>2, <1>3

-----------------------------------------------------------------------------
(***************************************************************************)
(* What the code between two awaits makes of the one node.                 *)
(***************************************************************************)
LEMMA CleanKept ==
  ASSUME NEW N, NEW b, Clean(N, b), b \in {0, 1}, NEW M,
         M[1].os = N[1].os, M[1].in = N[1].in, M[1].out = N[1].out, M[1].busy = N[1].busy,
         M[1].session = N[1].session, N[1].know => M[1].know,
         M[1].first => N[1].os \in Running,
         N[1].os = "up" /\ M[1].first => N[1].first /\ M[1].has
  PROVE  Clean(M, b)
<1>1. Faithful(M[1])
  <2>1. N[1].os = "up" => Primed(M[1])
    BY DEF Clean, Faithful, Primed, Blank
  <2>. QED BY <2>1 DEF Clean, Faithful
<1>2. b # 0 => M[b].know
  BY DEF Clean
<1>. QED BY <1>1, <1>2 DEF Clean

LEMMA FlagsClean ==
  ASSUME NEW N, Typed(N), NEW b \in {0, 1}, Clean(N, b), NEW id, NEW X
  PROVE  /\ Clean(Pop(N, 1), b) /\ ~Pop(N, 1)[1].first
         /\ Pop(N, 1)[1].know = N[1].know /\ Pop(N, 1)[1].os = N[1].os
         /\ N[1].os \in Running => Clean([N EXCEPT ![1].has = TRUE], b)
         /\ [N EXCEPT ![1].has = TRUE][1].has
         /\ Clean([N EXCEPT ![1].know = TRUE], b)
         /\ [N EXCEPT ![1].know = TRUE][1].know
         /\ Clean([N EXCEPT ![1].pend = X], b)
         /\ N[1].os \in Running \ {"up"} =>
              Clean([[N EXCEPT ![1].pend = X] EXCEPT ![1].first = TRUE], b)
<1>. USE OneIsNode
<1>1. DOMAIN N = Nodes /\ Sane(N[1]) /\ Faithful(N[1])
  BY DEF Typed, Clean
<1>2. /\ N[1].first => N[1].os \in Running
      /\ N[1].os = "up" /\ N[1].first => N[1].has
  BY <1>1 DEF Faithful
<1>3. /\ Clean(Pop(N, 1), b) /\ ~Pop(N, 1)[1].first
      /\ Pop(N, 1)[1].know = N[1].know /\ Pop(N, 1)[1].os = N[1].os
  <2>. DEFINE M == Pop(N, 1)
  <2>1. /\ M[1].os = N[1].os /\ M[1].in = N[1].in /\ M[1].out = N[1].out
        /\ M[1].busy = N[1].busy /\ M[1].session = N[1].session /\ M[1].know = N[1].know
        /\ M[1].first = FALSE
    BY <1>1 DEF Pop, Sane, Fields
  <2>. HIDE DEF M
  <2>2. Clean(M, b)  BY <1>2, <2>1, CleanKept
  <2>. QED BY <2>1, <2>2 DEF M
<1>4. /\ Clean([N EXCEPT ![1].has = TRUE], b)
      /\ [N EXCEPT ![1].has = TRUE][1].has
  <2>. DEFINE M == [N EXCEPT ![1].has = TRUE]
  <2>1. /\ M[1].os = N[1].os /\ M[1].in = N[1].in /\ M[1].out = N[1].out
        /\ M[1].busy = N[1].busy /\ M[1].session = N[1].session /\ M[1].know = N[1].know
        /\ M[1].first = N[1].first /\ M[1].has = TRUE
    BY <1>1 DEF Sane, Fields
  <2>. HIDE DEF M
  <2>2. Clean(M, b)  BY <1>2, <2>1, CleanKept
  <2>. QED BY <2>1, <2>2 DEF M
<1>5. /\ Clean([N EXCEPT ![1].know = TRUE], b)
      /\ [N EXCEPT ![1].know = TRUE][1].know
  <2>. DEFINE M == [N EXCEPT ![1].know = TRUE]
  <2>1. /\ M[1].os = N[1].os /\ M[1].in = N[1].in /\ M[1].out = N[1].out
        /\ M[1].busy = N[1].busy /\ M[1].session = N[1].session /\ M[1].know = TRUE
        /\ M[1].first = N[1].first /\ M[1].has = N[1].has
    BY <1>1 DEF Sane, Fields
  <2>. HIDE DEF M
  <2>2. Clean(M, b)  BY <1>2, <2>1, CleanKept
  <2>. QED BY <2>1, <2>2 DEF M
<1>6. Clean([N EXCEPT ![1].pend = X], b)
  <2>. DEFINE M == [N EXCEPT ![1].pend = X]
  <2>1. /\ M[1].os = N[1].os /\ M[1].in = N[1].in /\ M[1].out = N[1].out
        /\ M[1].busy = N[1].busy /\ M[1].session = N[1].session /\ M[1].know = N[1].know
        /\ M[1].first = N[1].first /\ M[1].has = N[1].has
    BY <1>1 DEF Sane, Fields
  <2>. HIDE DEF M
  <2>2. Clean(M, b)  BY <1>2, <2>1, CleanKept
  <2>. QED BY <2>2 DEF M
<1>7. ASSUME N[1].os \in Running \ {"up"}
      PROVE  Clean([[N EXCEPT ![1].pend = X] EXCEPT ![1].first = TRUE], b)
  <2>. DEFINE M == [[N EXCEPT ![1].pend = X] EXCEPT ![1].first = TRUE]
  <2>1. /\ M[1].os = N[1].os /\ M[1].in = N[1].in /\ M[1].out = N[1].out
        /\ M[1].busy = N[1].busy /\ M[1].session = N[1].session /\ M[1].know = N[1].know
    BY <1>1 DEF Sane, Fields
  <2>. HIDE DEF M
  <2>2. Clean(M, b)  BY <1>7, <2>1, CleanKept
  <2>. QED BY <2>2 DEF M
<1>. QED BY <1>3, <1>4, <1>5, <1>6, <1>7

\* A command is put behind the others: a creation when first is not set, a message
\* with the prompt unless first is set.
LEMMA PutPrimed ==
  ASSUME NEW q \in Seq(Commands), NEW nd, NEW md, NEW cmd \in Commands,
         nd.in = q, md.in = Append(q, cmd), md.session = nd.session, Primed(nd),
         nd.first \in BOOLEAN,
         \/ cmd.id[2] \in Messages /\ (cmd.prompt <=> ~nd.first)
         \/ cmd.id[2] \notin Messages /\ md.first = nd.first /\ (cmd.id[2] \in Creations => ~nd.first)
  PROVE  Primed(md)
<1>. DEFINE u == md.in
            n == Len(q)
<1>1. /\ n \in Nat /\ u \in Seq(Commands) /\ Len(u) = n + 1 /\ u[n + 1] = cmd
      /\ \A k \in 1..n : u[k] = q[k]
  OBVIOUS
<1>. HIDE DEF u, n
<1>2. n = Len(q)  BY DEF n
<1>3. \A i \in Nat, j \in 0..n : Prompts(q, i + 1, j) => Prompts(u, i + 1, j) /\ Prompts(u, i + 1, n + 1)
  <2>. SUFFICES ASSUME NEW i \in Nat, NEW j \in 0..n, Prompts(q, i + 1, j)
                PROVE  Prompts(u, i + 1, j) /\ Prompts(u, i + 1, n + 1)
    OBVIOUS
  <2>1. PICK k \in i + 1..j : q[k].prompt /\ q[k].id[2] \in Messages  BY DEF Prompts
  <2>2. u[k] = q[k] /\ k \in i + 1..n + 1  BY <1>1, <2>1
  <2>. QED BY <2>1, <2>2 DEF Prompts
<1>4. ASSUME NEW i \in 0..n + 1, Blank(md, i)
      PROVE  /\ ~md.first \/ Prompts(u, i + 1, n + 1)
             /\ \A j \in i + 1..n + 1 : u[j].id[2] \in Messages => Prompts(u, i + 1, j)
  <2>1. CASE i = n + 1
    <3>1. cmd.id[2] \in Creations  BY <1>1, <1>4, <2>1 DEF Blank, u
    <3>. QED BY <1>1, <2>1, <3>1 DEF Creations, Messages
  <2>2. CASE i \in 0..n
    <3>1. Blank(nd, i)  BY <1>1, <1>4, <2>2 DEF Blank, u
    <3>2. /\ ~nd.first \/ Prompts(q, i + 1, n)
          /\ \A j \in i + 1..n : q[j].id[2] \in Messages => Prompts(q, i + 1, j)
      BY <1>2, <2>2, <3>1 DEF Primed
    <3>3. \A j \in i + 1..n : u[j].id[2] \in Messages => Prompts(u, i + 1, j)
      BY <1>1, <1>3, <2>2, <3>2
    <3>4. ~nd.first \/ Prompts(u, i + 1, n + 1)  BY <1>1, <1>3, <2>2, <3>2
    <3>5. CASE cmd.id[2] \in Messages
      <4>1. ~nd.first => Prompts(u, i + 1, n + 1)
        <5>1. n + 1 \in i + 1..n + 1  BY <1>1, <2>2
        <5>. QED BY <1>1, <3>5, <5>1 DEF Prompts, Messages
      <4>. QED BY <1>1, <2>2, <3>3, <3>4, <4>1
    <3>6. CASE cmd.id[2] \notin Messages
      BY <1>1, <2>2, <3>3, <3>4, <3>6
    <3>. QED BY <3>5, <3>6
  <2>. QED BY <1>1, <2>1, <2>2
<1>. QED BY <1>1, <1>4 DEF Primed, u

LEMMA PutFaithful ==
  ASSUME NEW nd, Sane(nd), Faithful(nd), nd.os \in Running, NEW c \in Turns, NEW s \in Stages,
         NEW p \in BOOLEAN,
         nd.os = "up" =>
           \/ s \in Messages /\ (p <=> ~nd.first)
           \/ s = "close"
           \/ s \in Creations /\ ~nd.first,
         NEW f \in BOOLEAN, f /\ nd.os = "up" => nd.has,
         s \notin Messages => f = nd.first
  PROVE  Faithful([Put(nd, <<c, s>>, p) EXCEPT !.first = f])
<1>. DEFINE cmd == [id |-> <<c, s>>, prompt |-> p]
            md == [Put(nd, <<c, s>>, p) EXCEPT !.first = f]
<1>1. /\ md.in = IF nd.os = "up" THEN Append(nd.in, cmd) ELSE nd.in
      /\ md.os = nd.os /\ md.session = nd.session /\ md.first = f /\ md.has = nd.has
      /\ md.out = nd.out /\ md.busy = nd.busy
  BY DEF Put, Sane, Fields
<1>2. cmd \in Commands /\ cmd.id[2] = s /\ cmd.prompt = p
  BY DEF Commands, Ids
<1>. HIDE DEF md, cmd
<1>3. ASSUME nd.os = "up" PROVE Primed(md)
  <2>1. nd.in \in Seq(Commands) /\ nd.first \in BOOLEAN /\ Primed(nd)
    BY <1>3 DEF Sane, Faithful
  <2>2. md.in = Append(nd.in, cmd)  BY <1>1, <1>3
  <2>3. \/ cmd.id[2] \in Messages /\ (cmd.prompt <=> ~nd.first)
        \/ /\ cmd.id[2] \notin Messages /\ md.first = nd.first
           /\ cmd.id[2] \in Creations => ~nd.first
    BY <1>1, <1>2, <1>3 DEF Messages, Creations
  <2>. QED BY <1>1, <1>2, <2>1, <2>2, <2>3, PutPrimed
<1>4. Faithful(md)
  BY <1>1, <1>3 DEF Faithful
<1>. QED BY <1>4 DEF md

LEMMA PutClean ==
  ASSUME NEW N, Typed(N), Clean(N, 1), N[1].os \in Running, NEW c \in Turns
  PROVE  /\ Clean(Write(N, 1, <<c, "close">>, FALSE), 1)
         /\ (N[1].os = "up" => ~N[1].first) =>
              \A s \in Creations : Clean(Write(N, 1, <<c, s>>, FALSE), 1)
         /\ (N[1].os = "up" => N[1].has) =>
              \A s \in Messages : Clean(WriteSend(N, 1, <<c, s>>), 1)
<1>. USE OneIsNode
<1>1. Sane(N[1]) /\ Faithful(N[1]) /\ N[1].know /\ DOMAIN N = Nodes
  BY DEF Typed, Clean
<1>2. ASSUME NEW md, Faithful(md), md.know
      PROVE  Clean([N EXCEPT ![1] = md], 1)
  BY <1>1, <1>2 DEF Clean
<1>3. ASSUME NEW s \in Stages, NEW p
      PROVE  /\ Put(N[1], <<c, s>>, p) = [Put(N[1], <<c, s>>, p) EXCEPT !.first = N[1].first]
             /\ Put(N[1], <<c, s>>, p).know /\ PutSend(N[1], <<c, s>>).know
  BY <1>1 DEF Put, PutSend, Sane, Fields
<1>4. N[1].first \in BOOLEAN /\ (N[1].first /\ N[1].os = "up" => N[1].has)
  BY <1>1 DEF Sane, Faithful
<1>5. ASSUME NEW s \in Stages, s = "close" \/ (s \in Creations /\ (N[1].os = "up" => ~N[1].first))
      PROVE  Clean(Write(N, 1, <<c, s>>, FALSE), 1)
  <2>1. s \notin Messages  BY <1>5 DEF Messages, Creations
  <2>2. CASE N[1].first = TRUE
    <3>1. Faithful([Put(N[1], <<c, s>>, FALSE) EXCEPT !.first = TRUE])
      BY <1>1, <1>4, <1>5, <2>1, <2>2, PutFaithful
    <3>2. Faithful(Put(N[1], <<c, s>>, FALSE)) /\ Put(N[1], <<c, s>>, FALSE).know
      BY <1>3, <2>2, <3>1
    <3>3. Clean([N EXCEPT ![1] = Put(N[1], <<c, s>>, FALSE)], 1)  BY <1>2, <3>2
    <3>4. Write(N, 1, <<c, s>>, FALSE) = [N EXCEPT ![1] = Put(N[1], <<c, s>>, FALSE)]
      BY <1>1 DEF Write, Put, Sane, Fields
    <3>. QED BY <3>3, <3>4
  <2>3. CASE N[1].first = FALSE
    <3>1. Faithful([Put(N[1], <<c, s>>, FALSE) EXCEPT !.first = FALSE])
      BY <1>1, <1>4, <1>5, <2>1, <2>3, PutFaithful
    <3>2. Faithful(Put(N[1], <<c, s>>, FALSE)) /\ Put(N[1], <<c, s>>, FALSE).know
      BY <1>3, <2>3, <3>1
    <3>3. Clean([N EXCEPT ![1] = Put(N[1], <<c, s>>, FALSE)], 1)  BY <1>2, <3>2
    <3>4. Write(N, 1, <<c, s>>, FALSE) = [N EXCEPT ![1] = Put(N[1], <<c, s>>, FALSE)]
      BY <1>1 DEF Write, Put, Sane, Fields
    <3>. QED BY <3>3, <3>4
  <2>. QED BY <1>4, <2>2, <2>3
<1>6. ASSUME NEW s \in Messages, N[1].os = "up" => N[1].has
      PROVE  Clean(WriteSend(N, 1, <<c, s>>), 1)
  <2>. DEFINE p == ~N[1].first /\ N[1].know
  <2>1. s \in Stages  BY DEF Messages, Stages
  <2>2. p \in BOOLEAN /\ (p <=> ~N[1].first)  BY <1>1
  <2>. HIDE DEF p
  <2>3. Faithful([Put(N[1], <<c, s>>, p) EXCEPT !.first = TRUE])
    <3>1. CASE p = TRUE  BY <1>1, <1>6, <2>1, <2>2, <3>1, PutFaithful
    <3>2. CASE p = FALSE  BY <1>1, <1>6, <2>1, <2>2, <3>2, PutFaithful
    <3>. QED BY <2>2, <3>1, <3>2
  <2>4. Faithful(PutSend(N[1], <<c, s>>))  BY <2>3 DEF PutSend, p
  <2>5. PutSend(N[1], <<c, s>>).know  BY <1>3, <2>1
  <2>6. Clean([N EXCEPT ![1] = PutSend(N[1], <<c, s>>)], 1)  BY <1>2, <2>4, <2>5
  <2>. QED BY <2>6, WriteSendIs
<1>. QED BY <1>5, <1>6 DEF Stages, Creations, Messages

\* The turn c does not begin a start, and is told what it hears.
Hears(c) ==
  \E tn : /\ turn' = [turn EXCEPT ![c] = tn]
          /\ tn.how = "sdk" => tn.told
          /\ tn.pc # "start"

LEMMA RequestClean ==
  ASSUME NEW c \in Turns, NEW stage \in Stages, NEW N, Typed(N),
         bridge \in {0, 1}, bridge # 0 => N[1].os \in Running, Clean(N, bridge),
         stage \in Creations /\ N[1].os = "up" => ~N[1].first,
         stage \in Messages /\ N[1].os = "up" => N[1].has,
         TurnType(turn[c]), DOMAIN turn = Turns, turn[c].how = "sdk" => turn[c].told,
         Request(c, stage, N)
  PROVE  Clean(node', bridge) /\ Hears(c)
<1>. DEFINE id == <<c, stage>>
<1>. USE OneIsNode
<1>1. CASE /\ IsAlive(N, bridge)
           /\ node' = IF stage \in Messages THEN WriteSend(N, bridge, id)
                      ELSE Write(N, bridge, id, FALSE)
           /\ turn' = [turn EXCEPT ![c].pc = stage, ![c].on = bridge]
  <2>. DEFINE tn == [turn[c] EXCEPT !.pc = stage, !.on = bridge]
  <2>1. bridge = 1 /\ N[1].os \in Running  BY <1>1 DEF IsAlive
  <2>2. turn' = [turn EXCEPT ![c] = tn]  BY <1>1 DEF TurnType, TurnFields
  <2>3. tn.pc = stage /\ tn.how = turn[c].how /\ tn.told = turn[c].told
    BY DEF TurnType, TurnFields
  <2>4. Hears(c)  BY <2>2, <2>3 DEF Hears, Stages
  <2>5. Clean(node', 1)
    <3>1. CASE stage \in Messages  BY <1>1, <2>1, <3>1, PutClean
    <3>2. CASE stage \in Creations
      BY <1>1, <2>1, <3>2, PutClean DEF Creations, Messages
    <3>3. CASE stage = "close"
      BY <1>1, <2>1, <3>3, PutClean DEF Messages
    <3>. QED BY <3>1, <3>2, <3>3 DEF Stages, Creations, Messages
  <2>. QED BY <2>1, <2>4, <2>5
<1>2. CASE /\ IsAlive(N, bridge) => N[bridge].os = "dead"
           /\ turn' = [turn EXCEPT ![c] = FallBack(c)]
           /\ \/ bridge = 0 /\ node' = N
              \/ bridge # 0 /\ node' = [N EXCEPT ![bridge].pend = @ \cup {id}]
              \/ /\ bridge # 0
                 /\ node' = [[N EXCEPT ![bridge].pend = @ \cup {id}] EXCEPT ![bridge].first = TRUE]
  <2>1. FallBack(c).how = "cli" /\ FallBack(c).pc = "done"
    BY DEF FallBack, TurnType, TurnFields
  <2>2. Hears(c)  BY <1>2, <2>1 DEF Hears
  <2>3. Clean(node', bridge)
    <3>1. CASE bridge = 0  BY <1>2, <3>1
    <3>2. CASE bridge = 1
      <4>1. N[1].os \in Running \ {"up"}  BY <1>2, <3>2 DEF IsAlive, Running
      <4>2. /\ Clean([N EXCEPT ![1].pend = @ \cup {id}], 1)
            /\ Clean([[N EXCEPT ![1].pend = @ \cup {id}] EXCEPT ![1].first = TRUE], 1)
        BY <3>2, <4>1, FlagsClean
      <4>. QED BY <1>2, <3>2, <4>2
    <3>. QED BY <3>1, <3>2
  <2>. QED BY <2>2, <2>3
<1>. QED BY <1>1, <1>2 DEF Request, Messages

-----------------------------------------------------------------------------
(***************************************************************************)
(* What a turn makes of the outcome of its request keeps the one node      *)
(* clean.                                                                  *)
(***************************************************************************)
LEMMA ContinueTold ==
  ASSUME Base, OneNode, Told, NEW c \in Turns, turn[c].pc \in Stages,
         NEW N, Helps(c, node, N), Clean(N, bridge),
         NEW what, NEW told, what = "ok" => told,
         turn[c].pc \in Creations /\ N[1].os = "up" => what = "created",
         Continue(c, N, what, told)
  PROVE  Clean(node', bridge) /\ Hears(c)
<1>. USE OneIsNode
<1>. DEFINE created == IF what = "created" THEN [N EXCEPT ![1].has = TRUE] ELSE N
            after == AfterSend(c, N, what)
<1>1. /\ turn[c].on = 1 /\ bridge \in {0, 1} /\ TurnType(turn[c]) /\ DOMAIN turn = Turns
      /\ turn[c].how = "sdk" => turn[c].told
  BY TheNode DEF Base, Types, Told, Heard
<1>2. Typed(N) /\ N[1].os \in Running /\ (bridge # 0 => N[1].os \in Running)
  <2>1. node[1].os \in Running  BY <1>1 DEF Base, Waits
  <2>. QED BY <2>1, HelpsTyped DEF Helps, Serves
<1>3. /\ Clean(created, bridge) /\ Typed(created) /\ created[1].os = N[1].os
      /\ what = "created" => created[1].has
  <2>1. Helps(c, N, created)  BY <1>2, FlagsHelp, HelpsItself
  <2>2. Clean(created, bridge) /\ (what = "created" => created[1].has)  BY <1>1, <1>2, FlagsClean
  <2>. QED BY <2>1, <2>2, HelpsTyped DEF Helps, Serves
<1>4. /\ Clean(Pop(N, 1), bridge) /\ Typed(Pop(N, 1)) /\ Pop(N, 1)[1].os = N[1].os
      /\ ~Pop(N, 1)[1].first
  <2>1. Helps(c, N, Pop(N, 1))  BY <1>2, FlagsHelp
  <2>2. Clean(Pop(N, 1), bridge) /\ ~Pop(N, 1)[1].first  BY <1>1, <1>2, FlagsClean
  <2>. QED BY <2>1, <2>2, HelpsTyped DEF Helps, Serves
<1>5. Clean(after, bridge) /\ Typed(after) /\ after[1].os = N[1].os
  <2>1. Helps(c, N, after)  BY <1>1, <1>2, AfterSendHelps
  <2>2. after \in {N, Pop(N, 1), [N EXCEPT ![1].has = TRUE]}  BY <1>1 DEF AfterSend
  <2>3. Clean(after, bridge)
    BY <1>1, <1>2, <1>4, <2>2, FlagsClean
  <2>. QED BY <2>1, <2>3, HelpsTyped DEF Helps, Serves
<1>6. \A tn : turn' = [turn EXCEPT ![c] = tn] /\ tn.how = turn[c].how /\ tn.told = turn[c].told
                /\ tn.pc # "start" => Hears(c)
  BY <1>1 DEF Hears
<1>7. turn' = [turn EXCEPT ![c] = FallBack(c)] => Hears(c)
  <2>1. FallBack(c).how = "cli" /\ FallBack(c).pc = "done"
    BY <1>1 DEF FallBack, TurnType, TurnFields
  <2>. QED BY <2>1 DEF Hears
<1>. HIDE DEF created, after
<1>8. CASE /\ node' = created
           /\ turn' = [turn EXCEPT ![c].pc = "search"]
  <2>. DEFINE tn == [turn[c] EXCEPT !.pc = "search"]
  <2>1. turn' = [turn EXCEPT ![c] = tn]  BY <1>1, <1>8 DEF TurnType, TurnFields
  <2>2. tn.pc = "search" /\ tn.how = turn[c].how /\ tn.told = turn[c].told
    BY <1>1 DEF TurnType, TurnFields
  <2>. QED BY <1>3, <1>6, <1>8, <2>1, <2>2
<1>9. CASE /\ node' = after /\ what = "ok"
           /\ turn' = [turn EXCEPT ![c].pc = "done", ![c].how = "sdk", ![c].told = told]
  <2>. DEFINE tn == [turn[c] EXCEPT !.pc = "done", !.how = "sdk", !.told = told]
  <2>1. turn' = [turn EXCEPT ![c] = tn]  BY <1>1, <1>9 DEF TurnType, TurnFields
  <2>2. tn.pc = "done" /\ tn.told = told  BY <1>1 DEF TurnType, TurnFields
  <2>. QED BY <1>5, <1>9, <2>1, <2>2 DEF Hears
<1>10. CASE Request(c, "close", after)
  BY <1>1, <1>2, <1>5, <1>10, RequestClean DEF Stages, Creations, Messages
<1>11. CASE Request(c, "recreate", Pop(N, 1))
  BY <1>1, <1>2, <1>4, <1>11, RequestClean DEF Stages, Creations, Messages
<1>12. CASE turn[c].pc = "recreate" /\ Request(c, "resend", created)
  <2>1. N[1].os = "up" => created[1].has  BY <1>3, <1>12 DEF Creations
  <2>. QED BY <1>1, <1>2, <1>3, <1>12, <2>1, RequestClean DEF Stages, Creations, Messages
<1>13. CASE node' = created /\ turn' = [turn EXCEPT ![c] = FallBack(c)]
  BY <1>3, <1>7, <1>13
<1>14. CASE node' = after /\ turn' = [turn EXCEPT ![c] = FallBack(c)]
  BY <1>5, <1>7, <1>14
<1>. QED
  BY <1>1, <1>8, <1>9, <1>10, <1>11, <1>12, <1>13, <1>14 DEF Continue, Resend, created, after

\* A process that was started is never a slot again.
LEMMA OneBefore ==
  ASSUME OneNode', \A n \in Nodes : node'[n].os = "none" => node[n].os = "none"
  PROVE  OneNode
BY DEF OneNode

LEMMA HelpedOneBefore ==
  ASSUME OneNode', NEW c, Helps(c, node, node')
  PROVE  OneNode
BY OneBefore DEF Helps, Serves

\* What a turn's step has to show.
LEMMA HeardTold ==
  ASSUME Base, OneNode, Told, NEW c \in Turns, Hears(c), bridge' = bridge,
         Clean(node', bridge)
  PROVE  Told'
<1>1. PICK tn : turn' = [turn EXCEPT ![c] = tn] /\ (tn.how = "sdk" => tn.told) /\ tn.pc # "start"
  BY DEF Hears
<1>2. turn'[c] = tn /\ \A d \in Turns \ {c} : turn'[d] = turn[d]
  BY <1>1 DEF Base, Types
<1>3. Heard(turn) /\ Lone(turn, bridge)  BY DEF Told
<1>4. Heard(turn')  BY <1>1, <1>2, <1>3 DEF Heard
<1>5. Lone(turn', bridge)  BY <1>1, <1>2, <1>3 DEF Lone
<1>. QED BY <1>4, <1>5 DEF Told

LEMMA CreateClean ==
  ASSUME Base, NEW c \in Turns, turn[c].how = "sdk" => turn[c].told,
         Clean([node EXCEPT ![1].know = TRUE], 1), node[1].os \in Running,
         node[1].os = "up" => ~node[1].first, Create(c, node, 1)
  PROVE  Clean(node', 1) /\ Hears(c)
<1>. USE OneIsNode
<1>. DEFINE id == <<c, "create">>
            M == [node EXCEPT ![1].know = TRUE]
<1>1. Typed(node) /\ DOMAIN turn = Turns /\ TurnType(turn[c])
  BY DEF Base, Types
<1>2. Typed(M) /\ M[1].os = node[1].os /\ M[1].first = node[1].first
  <2>1. Helps(c, node, M)  BY <1>1, FlagsHelp
  <2>2. M[1].first = node[1].first  BY <1>1 DEF Typed, Sane, Fields
  <2>. QED BY <2>1, <2>2, HelpsTyped DEF Helps, Serves
<1>3. CASE node' = Write(M, 1, id, FALSE) /\ turn' = [turn EXCEPT ![c].pc = "create", ![c].on = 1]
  <2>. DEFINE tn == [turn[c] EXCEPT !.pc = "create", !.on = 1]
  <2>1. turn' = [turn EXCEPT ![c] = tn]  BY <1>1, <1>3 DEF TurnType, TurnFields
  <2>2. tn.pc = "create" /\ tn.how = turn[c].how /\ tn.told = turn[c].told
    BY <1>1 DEF TurnType, TurnFields
  <2>3. Hears(c)  BY <2>1, <2>2 DEF Hears
  <2>. HIDE DEF M
  <2>4. Clean(node', 1)  BY <1>2, <1>3, PutClean DEF Creations, M
  <2>. QED BY <2>3, <2>4
<1>4. CASE /\ node[1].os = "dead" /\ node' = [M EXCEPT ![1].pend = @ \cup {id}]
           /\ turn' = [turn EXCEPT ![c].pc = "raised"]
  <2>. DEFINE tn == [turn[c] EXCEPT !.pc = "raised"]
  <2>1. turn' = [turn EXCEPT ![c] = tn]  BY <1>1, <1>4 DEF TurnType, TurnFields
  <2>2. tn.pc = "raised" /\ tn.how = turn[c].how /\ tn.told = turn[c].told
    BY <1>1 DEF TurnType, TurnFields
  <2>3. Hears(c)  BY <2>1, <2>2 DEF Hears
  <2>4. Clean(M, 1)  OBVIOUS
  <2>. HIDE DEF M
  <2>5. Clean(node', 1)  BY <1>2, <1>4, <2>4, FlagsClean
  <2>. QED BY <2>3, <2>5
<1>. QED BY <1>3, <1>4 DEF Create

-----------------------------------------------------------------------------
(***************************************************************************)
(* The steps keep Told.                                                    *)
(***************************************************************************)
\* Creations neither fail nor are given up on while Node runs.
Creates == "create" \notin Faults /\ Creations \cap Timeouts = {}

LEMMA TurnStepTold ==
  ASSUME Base, Told, NEW c \in Turns, TurnStep(c), OneNode'
  PROVE  Told'
<1>. USE OneIsNode
<1>1. /\ Typed(node) /\ DOMAIN turn = Turns /\ TurnType(turn[c]) /\ DOMAIN node = Nodes
      /\ Sane(node[1])
  BY DEF Base, Types, Typed
<1>2. OneNode => /\ bridge \in {0, 1} /\ Clean(node, bridge) /\ Heard(turn) /\ Lone(turn, bridge)
                 /\ turn[c].how = "sdk" => turn[c].told
                 /\ bridge # 0 => node[1].os \in Running
  BY TheNode DEF Told, Heard, Base
<1>3. CASE EnsureStarts(c)
  <2>. USE <1>3 DEF EnsureStarts
  <2>1. PICK n \in Nodes : /\ node[n].os = "none" /\ node' = [node EXCEPT ![n].os = "starting"]
                           /\ turn' = [turn EXCEPT ![c].pc = "start", ![c].on = n]
    OBVIOUS
  <2>. HIDE <1>3
  <2>2. node'[n].os = "starting" /\ \A m \in Nodes \ {n} : node'[m] = node[m]
    BY <1>1, <2>1 DEF Typed, Sane, Fields
  <2>3. n = 1 /\ OneNode
    BY <2>1, <2>2 DEF OneNode, Nodes
  <2>4. \A m \in Nodes : node[m].os = "none"
    BY <2>1, <2>3 DEF OneNode, Nodes
  <2>5. bridge = 0 /\ \A d \in Turns : turn[d].pc # "start"
    BY <1>2, <2>3, <2>4 DEF Base, Waits, Running
  <2>6. Clean(node', bridge)
    <3>1. Faithful(node[1]) /\ node[1].os \notin Running
      BY <1>2, <2>3, <2>4 DEF Clean, Running
    <3>2. /\ node'[1].busy = node[1].busy /\ node'[1].out = node[1].out
          /\ node'[1].in = node[1].in /\ node'[1].first = node[1].first
          /\ node'[1].os = "starting"
      BY <1>1, <2>1, <2>3 DEF Sane, Fields
    <3>3. Faithful(node'[1])  BY <3>1, <3>2 DEF Faithful, Running
    <3>. QED BY <2>5, <3>2, <3>3 DEF Clean
  <2>7. /\ turn'[c].how = turn[c].how /\ turn'[c].told = turn[c].told
        /\ \A d \in Turns \ {c} : turn'[d] = turn[d]
    BY <1>1, <2>1 DEF TurnType, TurnFields
  <2>8. Heard(turn')  BY <1>2, <2>3, <2>7 DEF Heard
  <2>9. Lone(turn', bridge)  BY <2>5, <2>7 DEF Lone
  <2>10. bridge' = bridge  BY <1>3
  <2>. QED BY <2>6, <2>8, <2>9, <2>10 DEF Told
<1>4. CASE Ensure(c)
  <2>. USE <1>4 DEF Ensure
  <2>1. CASE turn' = [turn EXCEPT ![c].pc = "search"] /\ node' = node
    <3>. DEFINE tn == [turn[c] EXCEPT !.pc = "search"]
    <3>1. OneNode  BY <2>1 DEF OneNode
    <3>2. turn' = [turn EXCEPT ![c] = tn]  BY <1>1, <2>1 DEF TurnType, TurnFields
    <3>3. tn.pc = "search" /\ tn.how = turn[c].how /\ tn.told = turn[c].told
      BY <1>1 DEF TurnType, TurnFields
    <3>4. Hears(c)  BY <1>2, <3>1, <3>2, <3>3 DEF Hears
    <3>. QED BY <1>2, <2>1, <3>1, <3>4, HeardTold
  <2>2. CASE IsAlive(node, bridge) /\ ~node[bridge].has /\ Create(c, node, bridge)
    <3>1. bridge \in Nodes /\ node[bridge].os \in Running
      BY <2>2 DEF Base, Types, IsAlive, Nodes
    <3>2. Advances(c, node)  BY <2>2, <3>1, CreateAdvances
    <3>3. OneNode  BY <3>2, HelpedOneBefore DEF Advances
    <3>4. bridge = 1 /\ Clean([node EXCEPT ![1].know = TRUE], 1)
      BY <1>1, <1>2, <2>2, <3>3, FlagsClean DEF IsAlive
    <3>5. node[1].os = "up" => ~node[1].first
      BY <1>2, <2>2, <3>3, <3>4 DEF Clean, Faithful
    <3>6. Clean(node', 1) /\ Hears(c)
      BY <1>2, <2>2, <3>1, <3>3, <3>4, <3>5, CreateClean
    <3>. QED BY <3>3, <3>4, <3>6, HeardTold
  <2>. QED BY <2>1, <2>2
<1>5. CASE BridgeStarted(c)
  <2>. DEFINE n == turn[c].on
  <2>. USE <1>5 DEF BridgeStarted
  <2>1. n \in Nodes /\ node[n].os \in Running
    BY <1>1 DEF Base, Waits, Typed, Sane
  <2>2. Helps(c, node, node')
    <3>1. CASE Create(c, node, n)  BY <2>1, <3>1, CreateAdvances DEF Advances
    <3>2. CASE node' = [node EXCEPT ![n].know = TRUE]  BY <1>1, <2>1, <3>2, FlagsHelp
    <3>. QED BY <3>1, <3>2
  <2>3. OneNode  BY <2>2, HelpedOneBefore
  <2>4. n = 1 /\ bridge = 0 /\ bridge' = 1 /\ \A d \in Turns : turn[d].pc = "start" => d = c
    BY <1>2, <2>3, TheNode DEF Lone
  <2>. DEFINE M == [node EXCEPT ![1].know = TRUE]
  <2>5. Clean(M, 1)
    <3>1. Clean(M, 0) /\ M[1].know  BY <1>1, <1>2, <2>3, <2>4, FlagsClean
    <3>. HIDE DEF M
    <3>. QED BY <3>1 DEF Clean
  <2>6. node[1].os = "up" => ~node[1].first
    BY <1>2, <2>3, <2>4 DEF Clean
  <2>7. Clean(node', 1) /\ Hears(c)
    <3>1. CASE Create(c, node, n)
      BY <1>2, <2>1, <2>3, <2>4, <2>5, <2>6, <3>1, CreateClean
    <3>2. CASE turn' = [turn EXCEPT ![c].pc = "raised"] /\ node' = [node EXCEPT ![n].know = TRUE]
      <4>. DEFINE tn == [turn[c] EXCEPT !.pc = "raised"]
      <4>1. turn' = [turn EXCEPT ![c] = tn]  BY <1>1, <3>2 DEF TurnType, TurnFields
      <4>2. tn.pc = "raised" /\ tn.how = turn[c].how /\ tn.told = turn[c].told
        BY <1>1 DEF TurnType, TurnFields
      <4>3. Hears(c)  BY <1>2, <2>3, <4>1, <4>2 DEF Hears
      <4>. QED BY <2>4, <2>5, <3>2, <4>3
    <3>. QED BY <3>1, <3>2
  <2>8. PICK tn : turn' = [turn EXCEPT ![c] = tn] /\ (tn.how = "sdk" => tn.told) /\ tn.pc # "start"
    BY <2>7 DEF Hears
  <2>9. turn'[c] = tn /\ \A d \in Turns \ {c} : turn'[d] = turn[d]
    BY <1>1, <2>8
  <2>10. Heard(turn')  BY <1>2, <2>3, <2>8, <2>9 DEF Heard
  <2>11. Lone(turn', 1)  BY <2>4, <2>8, <2>9 DEF Lone
  <2>. QED BY <2>4, <2>7, <2>10, <2>11 DEF Told
<1>6. CASE StartFails(c)
  <2>. DEFINE n == turn[c].on
  <2>. USE <1>6 DEF StartFails
  <2>1. n \in Nodes /\ node[n].os # "none" /\ Sane(node[n])
    BY <1>1 DEF Base, Waits, Typed
  <2>2. node'[n].os = "reaped" /\ \A m \in Nodes \ {n} : node'[m] = node[m]
    BY <1>1, <2>1 DEF Sane, Fields
  <2>3. OneNode
    <3>1. \A m \in Nodes : node'[m].os = "none" => node[m].os = "none"  BY <2>2
    <3>. QED BY <3>1, OneBefore
  <2>4. n = 1 /\ bridge = 0 /\ bridge' = 0
    BY <1>2, <2>3, TheNode DEF Lone
  <2>5. Clean(node', 0)
    <3>1. Faithful(node[1])  BY <1>2, <2>3 DEF Clean
    <3>2. node'[1].busy = node[1].busy /\ node'[1].out = node[1].out /\ node'[1].os = "reaped"
      BY <1>1, <2>4 DEF Sane, Fields
    <3>. QED BY <3>1, <3>2 DEF Clean, Faithful, Running
  <2>6. Hears(c)
    <3>. DEFINE tn == [turn[c] EXCEPT !.pc = "search"]
    <3>1. turn' = [turn EXCEPT ![c] = tn]  BY <1>1 DEF TurnType, TurnFields
    <3>2. tn.pc = "search" /\ tn.how = turn[c].how /\ tn.told = turn[c].told
      BY <1>1 DEF TurnType, TurnFields
    <3>. QED BY <1>2, <2>3, <3>1, <3>2 DEF Hears
  <2>. QED BY <2>3, <2>4, <2>5, <2>6, HeardTold
<1>7. CASE Route(c)
  <2>. USE <1>7 DEF Route
  <2>1. CASE /\ HasSession(node, bridge)
             /\ node' = WriteSend(node, bridge, <<c, "send">>)
             /\ turn' = [turn EXCEPT ![c].pc = "send", ![c].on = bridge, ![c].full = FALSE]
    <3>. DEFINE tn == [turn[c] EXCEPT !.pc = "send", !.on = bridge, !.full = FALSE]
    <3>1. turn' = [turn EXCEPT ![c] = tn]  BY <1>1, <2>1 DEF TurnType, TurnFields
    <3>2. tn.pc = "send" /\ tn.how = turn[c].how /\ tn.told = turn[c].told
      BY <1>1 DEF TurnType, TurnFields
    <3>3. bridge \in Nodes /\ <<c, "send">> \in Ids
      BY <2>1 DEF Base, Types, HasSession, IsAlive, Nodes, Ids, Stages
    <3>4. Helps(c, node, node')  BY <1>1, <2>1, <3>3, PutHelps
    <3>5. OneNode  BY <3>4, HelpedOneBefore
    <3>6. bridge = 1 /\ node[1].has  BY <1>2, <2>1, <3>5 DEF HasSession, IsAlive
    <3>7. Clean(node', bridge)
      <4>1. node' = WriteSend(node, 1, <<c, "send">>)  BY <2>1, <3>6
      <4>2. Clean(node, 1) /\ node[1].os \in Running  BY <1>2, <3>5, <3>6
      <4>. HIDE <1>7
      <4>3. \A s \in Messages : Clean(WriteSend(node, 1, <<c, s>>), 1)
        BY <1>1, <3>6, <4>2, PutClean
      <4>. QED BY <3>6, <4>1, <4>3 DEF Messages
    <3>8. Hears(c)  BY <1>2, <3>1, <3>2, <3>5 DEF Hears
    <3>. QED BY <3>5, <3>7, <3>8, HeardTold
  <2>2. CASE turn' = [turn EXCEPT ![c] = FallBack(c)] /\ node' = node
    <3>1. FallBack(c).how = "cli" /\ FallBack(c).pc = "done"
      BY <1>1 DEF FallBack, TurnType, TurnFields
    <3>2. Hears(c)  BY <2>2, <3>1 DEF Hears
    <3>3. OneNode  BY <2>2 DEF OneNode
    <3>. QED BY <1>2, <2>2, <3>2, <3>3, HeardTold
  <2>. QED BY <2>1, <2>2
<1>. QED BY <1>3, <1>4, <1>5, <1>6, <1>7 DEF TurnStep

\* The outcomes that are no answers.
LEMMA GivesUpTold ==
  ASSUME Base, Told, Creates, NEW c \in Turns, TimesOut(c) \/ SeesDeath(c) \/ Cancelled(c),
         OneNode'
  PROVE  Told'
<1>. USE OneIsNode
<1>1. /\ Typed(node) /\ DOMAIN turn = Turns /\ TurnType(turn[c])
      /\ turn[c].pc \in Stages => turn[c].on \in Nodes
  BY DEF Base, Types, Waits
<1>2. OneNode => /\ bridge \in {0, 1} /\ Clean(node, bridge)
                 /\ turn[c].pc \in Stages => turn[c].on = 1
                 /\ turn[c].how = "sdk" => turn[c].told
  BY TheNode DEF Told, Heard
<1>3. ASSUME turn[c].pc \in Stages, NEW N, Helps(c, node, N), NEW what, what # "ok",
             Continue(c, N, what, FALSE), bridge' = bridge, OneNode => Clean(N, bridge),
             OneNode /\ turn[c].pc \in Creations => N[1].os # "up"
      PROVE  Told'
  <2>1. Helps(c, node, node')
    <3>1. Advances(c, N)  BY <1>3, ContinueAdvances
    <3>. QED BY <1>3, <3>1, HelpsTwice DEF Advances
  <2>2. OneNode  BY <2>1, HelpedOneBefore
  <2>3. Clean(node', bridge) /\ Hears(c)  BY <1>3, <2>2, ContinueTold
  <2>. QED BY <1>3, <2>2, <2>3, HeardTold
<1>4. CASE TimesOut(c)
  <2>. DEFINE N == [node EXCEPT ![turn[c].on].pend = @ \ {<<c, turn[c].pc>>}]
  <2>. USE <1>4 DEF TimesOut
  <2>1. Helps(c, node, N)  BY <1>1, LeavesHelp
  <2>2. OneNode => Clean(N, bridge)  BY <1>1, <1>2, FlagsClean
  <2>3. OneNode /\ turn[c].pc \in Creations => node[1].os # "up"
    BY <1>2 DEF Creates, Creations
  <2>4. \A m \in Nodes : N[m].os = node[m].os  BY <2>1 DEF Helps, Serves
  <2>5. Continue(c, N, "timeout", FALSE)  OBVIOUS
  <2>. HIDE DEF N
  <2>. QED BY <1>3, <2>1, <2>2, <2>3, <2>4, <2>5
<1>5. CASE SeesDeath(c)
  <2>. USE <1>5 DEF SeesDeath
  <2>1. node[turn[c].on].os \in {"dead", "reaped"}
    BY <1>1 DEF Typed, Sane
  <2>2. Helps(c, node, node)  BY <1>1, HelpsItself
  <2>. QED BY <1>2, <1>3, <2>1, <2>2
<1>6. CASE Cancelled(c)
  <2>. DEFINE tn == [turn[c] EXCEPT !.pc = "cancelled"]
  <2>. USE <1>6 DEF Cancelled
  <2>1. turn' = [turn EXCEPT ![c] = tn]  BY <1>1 DEF TurnType, TurnFields
  <2>2. tn.pc = "cancelled" /\ tn.how = turn[c].how /\ tn.told = turn[c].told
    BY <1>1 DEF TurnType, TurnFields
  <2>3. CASE node' = node
    <3>1. OneNode  BY <2>3 DEF OneNode
    <3>2. Hears(c)  BY <1>2, <2>1, <2>2, <3>1 DEF Hears
    <3>. QED BY <1>2, <2>3, <3>1, <3>2, HeardTold
  <2>4. CASE /\ turn[c].pc \in {"send", "resend"}
             /\ node' = [node EXCEPT ![turn[c].on].pend = @ \ {<<c, turn[c].pc>>}]
    <3>. HIDE <1>6
    <3>1. Helps(c, node, node')
      <4>1. turn[c].on \in Nodes  BY <1>1, <2>4 DEF Stages
      <4>2. Helps(c, node, [node EXCEPT ![turn[c].on].pend = @ \ {<<c, turn[c].pc>>}])
        BY <1>1, <4>1, LeavesHelp
      <4>. QED BY <2>4, <4>2
    <3>2. OneNode  BY <3>1, HelpedOneBefore
    <3>3. Hears(c)  BY <1>2, <2>1, <2>2, <3>2 DEF Hears
    <3>4. Clean(node', bridge)
      <4>1. turn[c].on = 1 /\ bridge \in {0, 1} /\ Clean(node, bridge)
        BY <1>2, <2>4, <3>2 DEF Stages
      <4>2. \A X : Clean([node EXCEPT ![1].pend = X], bridge)  BY <1>1, <4>1, FlagsClean
      <4>. QED BY <2>4, <4>1, <4>2
    <3>5. bridge' = bridge  BY <1>6
    <3>. QED BY <3>2, <3>3, <3>4, <3>5, HeardTold
  <2>. QED BY <2>3, <2>4
<1>. QED BY <1>4, <1>5, <1>6

\* A step of a process itself.
LEMMA NodeTold ==
  ASSUME Base, Told, NEW n \in Nodes, NEW md, node' = [node EXCEPT ![n] = md],
         UNCHANGED <<bridge, turn>>, OneNode', md.os # "none",
         OneNode /\ n = 1 =>
           /\ Faithful(md) /\ md.know = node[1].know
           /\ md.os = "up" => ~md.first \/ (node[1].os = "up" /\ md.first = node[1].first)
  PROVE  Told'
<1>. USE OneIsNode
<1>1. DOMAIN node = Nodes  BY DEF Base, Types, Typed
<1>2. node'[n] = md /\ \A m \in Nodes \ {n} : node'[m] = node[m]  BY <1>1
<1>3. \A m \in Nodes : node'[m].os = "none" => node[m].os = "none"  BY <1>2
<1>4. OneNode  BY <1>3, OneBefore
<1>5. Clean(node, bridge) /\ Heard(turn) /\ Lone(turn, bridge) /\ bridge \in {0, 1}
  BY <1>4, TheNode DEF Told
<1>6. Clean(node', bridge)
  BY <1>2, <1>4, <1>5 DEF Clean
<1>. QED BY <1>5, <1>6 DEF Told

LEMMA TakenFaithful ==
  ASSUME NEW nd, Sane(nd), Faithful(nd), nd.out # <<>>, NEW X
  PROVE  Faithful([nd EXCEPT !.out = Tail(@), !.pend = X])
<1>. DEFINE md == [nd EXCEPT !.out = Tail(@), !.pend = X]
<1>1. /\ md.busy = nd.busy /\ md.out = Tail(nd.out) /\ md.in = nd.in /\ md.os = nd.os
      /\ md.first = nd.first /\ md.has = nd.has /\ md.session = nd.session
  BY DEF Sane, Fields
<1>. HIDE DEF md
<1>2. \A i \in DOMAIN md.out : i + 1 \in DOMAIN nd.out /\ md.out[i] = nd.out[i + 1]
  BY <1>1 DEF Sane
<1>3. \A i \in DOMAIN md.out :
        /\ md.out[i].what = "ok" => md.out[i].told
        /\ md.out[i].id[2] \in Creations => md.out[i].what = "created"
  BY <1>2 DEF Faithful
<1>4. Primed(nd) => Primed(md)  BY <1>1 DEF Primed, Blank
<1>5. Faithful(md)  BY <1>1, <1>3, <1>4 DEF Faithful
<1>. QED BY <1>5 DEF md

LEMMA DispatchTold ==
  ASSUME Base, Told, NEW n \in Nodes, Dispatch(n), OneNode'
  PROVE  Told'
<1>. USE OneIsNode
<1>. DEFINE e == Head(node[n].out)
            c == e.id[1]
            md == [node[n] EXCEPT !.out = Tail(@), !.pend = @ \ {e.id}]
            N == [node EXCEPT ![n].out = Tail(@), ![n].pend = @ \ {e.id}]
<1>1. Typed(node) /\ Sane(node[n]) /\ node[n].out # <<>> /\ DOMAIN node = Nodes
  BY DEF Base, Types, Typed, Dispatch
<1>2. /\ e \in Events /\ e.id = <<c, e.id[2]>> /\ c \in Turns
      /\ Serves(c, node[n], md)
      /\ \A id : id # e.id /\ Owes(node[n], id) => Owes(md, id)
  BY <1>1, TakenServes
<1>3. N = [node EXCEPT ![n] = md]
  BY <1>1 DEF Typed, Sane, Fields
<1>4. /\ \/ /\ e.id \in node[n].pend /\ turn[c].pc = e.id[2] /\ turn[c].on = n
            /\ Continue(c, N, e.what, e.told)
         \/ node' = N /\ UNCHANGED turn
      /\ UNCHANGED <<bridge, disabled, drain>>
  BY DEF Dispatch
<1>5. e.id[2] \in Stages /\ e = node[n].out[1] /\ 1 \in DOMAIN node[n].out
  <2>1. e = node[n].out[1] /\ 1 \in DOMAIN node[n].out  BY <1>1 DEF Sane
  <2>. HIDE DEF e
  <2>. QED BY <1>2, <2>1 DEF Events, Ids
<1>6. Faithful(node[n]) => /\ Faithful(md)
                           /\ e.what = "ok" => e.told
                           /\ e.id[2] \in Creations => e.what = "created"
  <2>1. Faithful(node[n]) => Faithful(md)  BY <1>1, TakenFaithful
  <2>. HIDE DEF e, md
  <2>. QED BY <1>5, <2>1 DEF Faithful
<1>7. md.os = node[n].os /\ md.know = node[n].know /\ md.first = node[n].first
  BY <1>1 DEF Sane, Fields
<1>. HIDE DEF md
<1>8. Helps(c, node, N)
  <2>. HIDE DEF e, c, N
  <2>. QED BY <1>1, <1>2, <1>3, HelpsOne
<1>9. OneNode => Clean(N, bridge)
  <2>1. N[n] = md /\ \A m \in Nodes \ {n} : N[m] = node[m]  BY <1>1, <1>3
  <2>2. OneNode => Clean(node, bridge) /\ bridge \in {0, 1}  BY TheNode DEF Told
  <2>. HIDE DEF N
  <2>. QED BY <1>6, <1>7, <2>1, <2>2 DEF Clean
<1>. HIDE DEF e, c, N
<1>10. CASE e.id \in node[n].pend /\ turn[c].pc = e.id[2] /\ turn[c].on = n /\ Continue(c, N, e.what, e.told)
  <2>1. turn[c].pc \in Stages  BY <1>5, <1>10
  <2>2. Helps(c, node, node')
    <3>1. Advances(c, N)  BY <1>2, <1>8, <1>10, <2>1, ContinueAdvances
    <3>. QED BY <1>8, <3>1, HelpsTwice DEF Advances
  <2>3. OneNode  BY <2>2, HelpedOneBefore
  <2>4. n = 1 /\ Faithful(node[n])
    BY <1>2, <1>10, <2>1, <2>3, TheNode DEF Told, Clean
  <2>5. Clean(node', bridge) /\ Hears(c)
    BY <1>2, <1>6, <1>8, <1>9, <1>10, <2>1, <2>3, <2>4, ContinueTold
  <2>. QED BY <1>2, <1>4, <2>3, <2>5, HeardTold
<1>11. CASE node' = N /\ UNCHANGED turn
  <2>1. OneNode  BY <1>8, <1>11, HelpedOneBefore
  <2>. QED BY <1>4, <1>9, <1>11, <2>1 DEF Told
<1>. QED BY <1>4, <1>10, <1>11

\* Node reads a line: of what is left, the part after a creation is as primed as
\* it was, and the whole of it when the session is blank.
LEMMA TailPrimed ==
  ASSUME NEW nd, nd.in \in Seq(Commands), nd.in # <<>>, Primed(nd),
         NEW md, md.in = Tail(nd.in), md.first = nd.first,
         md.session = "blank" => nd.in[1].id[2] \in Creations
  PROVE  Primed(md)
<1>. DEFINE q == nd.in
            u == md.in
            n == Len(u)
<1>1. /\ n \in Nat /\ Len(q) = n + 1 /\ \A k \in 1..n : u[k] = q[k + 1]
  OBVIOUS
<1>. HIDE DEF q, u, n
<1>2. n = Len(u) /\ q = nd.in /\ u = md.in  BY DEF n, q, u
<1>3. ASSUME NEW i \in 0..n, NEW j \in 0..n, Prompts(q, i + 2, j + 1)
      PROVE  Prompts(u, i + 1, j)
  <2>1. PICK k \in i + 2..j + 1 : q[k].prompt /\ q[k].id[2] \in Messages  BY <1>3 DEF Prompts
  <2>2. k - 1 \in i + 1..j /\ k - 1 \in 1..n /\ (k - 1) + 1 = k  BY <1>1, <2>1
  <2>3. u[k - 1] = q[k]  BY <1>1, <2>2
  <2>. QED BY <2>1, <2>2, <2>3 DEF Prompts
<1>4. ASSUME NEW i \in 0..n, Blank(md, i)
      PROVE  /\ ~md.first \/ Prompts(u, i + 1, n)
             /\ \A j \in i + 1..n : u[j].id[2] \in Messages => Prompts(u, i + 1, j)
  <2>1. i + 1 \in 0..n + 1 /\ Blank(nd, i + 1)
    <3>1. CASE i = 0  BY <1>1, <1>4, <3>1 DEF Blank
    <3>2. CASE i # 0  BY <1>1, <1>2, <1>4, <3>2 DEF Blank
    <3>. QED BY <3>1, <3>2
  <2>2. /\ ~nd.first \/ Prompts(q, (i + 1) + 1, n + 1)
        /\ \A j \in (i + 1) + 1..n + 1 : q[j].id[2] \in Messages => Prompts(q, (i + 1) + 1, j)
    BY <1>1, <1>2, <2>1 DEF Primed
  <2>3. (i + 1) + 1 = i + 2  BY <1>1
  <2>4. ~md.first \/ Prompts(u, i + 1, n)
    <3>1. n \in 0..n  BY <1>1
    <3>2. Prompts(q, i + 2, n + 1) => Prompts(u, i + 1, n)  BY <1>3, <3>1
    <3>. QED BY <2>2, <2>3, <3>2
  <2>5. ASSUME NEW j \in i + 1..n, u[j].id[2] \in Messages
        PROVE  Prompts(u, i + 1, j)
    <3>1. j + 1 \in i + 2..n + 1 /\ j \in 0..n /\ q[j + 1] = u[j]  BY <1>1, <2>5
    <3>2. Prompts(q, i + 2, j + 1)  BY <2>2, <2>3, <2>5, <3>1
    <3>. QED BY <1>3, <3>1, <3>2
  <2>. QED BY <2>4, <2>5
<1>. QED BY <1>2, <1>4 DEF Primed

LEMMA EmitFaithful ==
  ASSUME NEW nd, Sane(nd), Faithful(nd), NEW id \in Ids,
         NEW what \in {"created", "closed", "ok", "empty", "error", "dead"}, NEW told \in BOOLEAN,
         what = "ok" => told, id[2] \in Creations => what = "created"
  PROVE  Faithful(Emit(nd, id, what, told))
<1>. DEFINE md == Emit(nd, id, what, told)
            e == [id |-> id, what |-> what, told |-> told]
<1>1. /\ md.out = Append(nd.out, e) /\ md.in = nd.in /\ md.os = nd.os
      /\ md.session = nd.session /\ md.busy = nd.busy /\ md.first = nd.first /\ md.has = nd.has
  BY DEF Emit, Sane, Fields
<1>2. e \in Events /\ e.id = id /\ e.what = what /\ e.told = told  BY DEF Events
<1>. HIDE DEF md, e
<1>3. \A i \in DOMAIN md.out : md.out[i] = e \/ (i \in DOMAIN nd.out /\ md.out[i] = nd.out[i])
  BY <1>1, <1>2 DEF Sane
<1>4. Primed(nd) => Primed(md)  BY <1>1 DEF Primed, Blank
<1>5. \A i \in DOMAIN md.out :
        /\ md.out[i].what = "ok" => md.out[i].told
        /\ md.out[i].id[2] \in Creations => md.out[i].what = "created"
  BY <1>2, <1>3 DEF Faithful
<1>6. Faithful(md)  BY <1>1, <1>4, <1>5 DEF Faithful
<1>. QED BY <1>6 DEF md

LEMMA TakesFaithful ==
  ASSUME NEW nd, Sane(nd), Faithful(nd), nd.os = "up", nd.in # <<>>,
         NEW x \in {"none", "blank", "told"}, x = "blank" => Head(nd.in).id[2] \in Creations
  PROVE  /\ Faithful(Takes(nd, x)) /\ Takes(nd, x).know = nd.know
         /\ Takes(nd, x).first = nd.first /\ Takes(nd, x).os = "up"
         /\ DOMAIN Takes(nd, x) = Fields
<1>. DEFINE r == Takes(nd, x)
<1>1. /\ DOMAIN r = Fields /\ r.session = x /\ r.in = Tail(nd.in)
      /\ r.out = nd.out /\ r.os = nd.os /\ r.busy = nd.busy
      /\ r.first = nd.first /\ r.know = nd.know /\ r.has = nd.has
  BY DEF Takes, Sane, Fields
<1>. HIDE DEF r
<1>2. Primed(r)
  <2>1. nd.in \in Seq(Commands) /\ Head(nd.in) = nd.in[1] /\ Primed(nd)
    BY DEF Sane, Faithful
  <2>. QED BY <1>1, <2>1, TailPrimed
<1>3. Faithful(r)  BY <1>1, <1>2 DEF Faithful, Running
<1>. QED BY <1>1, <1>3 DEF r

LEMMA ReadFaithful ==
  ASSUME NEW nd, Sane(nd), Faithful(nd), nd.os = "up", nd.in # <<>>, "create" \notin Faults,
         NEW md, ReadAs(nd, md)
  PROVE  Faithful(md) /\ md.know = nd.know /\ md.first = nd.first
<1>. DEFINE cmd == Head(nd.in)
            told == cmd.prompt \/ nd.session = "told"
<1>1. cmd.id \in Ids /\ cmd = nd.in[1] /\ Len(nd.in) \in Nat /\ Len(nd.in) >= 1
  <2>1. cmd \in Commands /\ cmd = nd.in[1] /\ Len(nd.in) \in Nat /\ Len(nd.in) >= 1
    BY DEF Sane
  <2>. HIDE DEF cmd
  <2>. QED BY <2>1 DEF Commands
<1>2. nd.session \in {"none", "blank", "told"}  BY DEF Sane
<1>. HIDE DEF cmd
<1>3. ASSUME NEW x \in {"none", "blank", "told"}, x = "blank" => cmd.id[2] \in Creations,
             NEW what \in {"created", "closed", "dead"},
             cmd.id[2] \in Creations => what = "created",
             md = Emit(Takes(nd, x), cmd.id, what, FALSE)
      PROVE  Faithful(md) /\ md.know = nd.know /\ md.first = nd.first
  <2>. DEFINE r == Takes(nd, x)
  <2>1. Sane(r)  BY TakesIs
  <2>2. Faithful(r) /\ r.know = nd.know /\ r.first = nd.first
    BY <1>3, TakesFaithful DEF cmd
  <2>3. md = Emit(r, cmd.id, what, FALSE)  BY <1>3
  <2>. HIDE DEF r
  <2>4. Faithful(md)  BY <1>1, <1>3, <2>1, <2>2, <2>3, EmitFaithful
  <2>5. md.know = r.know /\ md.first = r.first  BY <2>1, <2>3 DEF Emit, Sane, Fields
  <2>. QED BY <2>2, <2>4, <2>5
<1>4. CASE /\ cmd.id[2] \in Messages /\ nd.session # "none"
           /\ md = [Takes(nd, IF told THEN "told" ELSE "blank") EXCEPT
                      !.busy = @ \cup {<<cmd.id, told>>}]
  <2>1. told
    <3>1. CASE nd.session = "blank"
      <4>1. Blank(nd, 0) /\ Primed(nd) /\ 0 \in 0..Len(nd.in)
        BY <1>1, <3>1 DEF Blank, Faithful
      <4>2. \A j \in 0 + 1..Len(nd.in) : nd.in[j].id[2] \in Messages => Prompts(nd.in, 0 + 1, j)
        BY <4>1 DEF Primed
      <4>3. Prompts(nd.in, 1, 1)  BY <1>1, <1>4, <4>2
      <4>. QED BY <1>1, <4>3 DEF Prompts
    <3>2. CASE nd.session = "told"  BY <3>2
    <3>. QED BY <1>2, <1>4, <3>1, <3>2
  <2>. DEFINE r == Takes(nd, "told")
  <2>2. /\ Faithful(r) /\ r.know = nd.know /\ r.first = nd.first /\ r.os = "up"
        /\ DOMAIN r = Fields
    BY TakesFaithful
  <2>3. md = [r EXCEPT !.busy = @ \cup {<<cmd.id, TRUE>>}]
    <3>1. told = TRUE  BY <1>1, <2>1 DEF cmd, Sane, Commands
    <3>. QED BY <1>4, <3>1
  <2>. HIDE DEF r, told
  <2>4. /\ md.session = r.session /\ md.in = r.in /\ md.busy = r.busy \cup {<<cmd.id, TRUE>>}
        /\ md.out = r.out /\ md.os = r.os /\ md.first = r.first /\ md.know = r.know
        /\ md.has = r.has
    BY <2>2, <2>3 DEF Fields
  <2>5. Primed(r) => Primed(md)  BY <2>4 DEF Primed, Blank
  <2>6. \A b \in md.busy : b[2]
    <3>1. \A b \in r.busy : b[2]  BY <2>2 DEF Faithful
    <3>2. ASSUME NEW b, b = <<cmd.id, TRUE>> PROVE b[2]  BY <3>2
    <3>. QED BY <2>4, <3>1, <3>2, Zenon
  <2>7. Faithful(md)  BY <2>2, <2>4, <2>5, <2>6 DEF Faithful, Running
  <2>. QED BY <2>2, <2>4, <2>7
<1>5. CASE cmd.id[2] \in Creations /\ md = Emit(Takes(nd, "blank"), cmd.id, "created", FALSE)
  BY <1>3, <1>5
<1>6. CASE cmd.id[2] = "close" /\ md = Emit(Takes(nd, "none"), cmd.id, "closed", FALSE)
  BY <1>3, <1>6 DEF Creations
<1>7. CASE cmd.id[2] \in Messages /\ md = Emit(Takes(nd, "none"), cmd.id, "dead", FALSE)
  BY <1>3, <1>7 DEF Creations, Messages
<1>. QED BY <1>4, <1>5, <1>6, <1>7 DEF ReadAs, cmd

LEMMA AnswerFaithful ==
  ASSUME NEW nd, Sane(nd), Faithful(nd), nd.os = "up", NEW b \in nd.busy,
         NEW what \in {"ok", "empty", "error", "dead"}
  PROVE  /\ Faithful(Emit(Answers(nd, b, what), b[1], what, b[2]))
         /\ Emit(Answers(nd, b, what), b[1], what, b[2]).know = nd.know
         /\ Emit(Answers(nd, b, what), b[1], what, b[2]).first = nd.first
<1>. DEFINE r == Answers(nd, b, what)
<1>1. /\ DOMAIN r = Fields /\ r.session \in {nd.session, "none"} /\ r.in = nd.in
      /\ r.out = nd.out /\ r.pend = nd.pend /\ r.os = nd.os /\ r.has = nd.has
      /\ r.died = nd.died /\ r.busy = nd.busy \ {b} /\ r.ready = nd.ready
      /\ r.first = nd.first /\ r.know = nd.know
  BY DEF Answers, Sane, Fields
<1>. HIDE DEF r
<1>2. Sane(r)  BY <1>1 DEF Sane
<1>3. Primed(nd) => Primed(r)  BY <1>1 DEF Primed, Blank
<1>4. Faithful(r)  BY <1>1, <1>3 DEF Faithful
<1>5. b[1] \in Ids /\ b[1][2] \in Messages /\ b[2] = TRUE
  BY DEF Sane, Ids, Messages, Stages, Faithful
<1>6. Faithful(Emit(r, b[1], what, TRUE))
  BY <1>2, <1>4, <1>5, EmitFaithful DEF Messages, Creations
<1>7. /\ Emit(r, b[1], what, b[2]).know = r.know
      /\ Emit(r, b[1], what, b[2]).first = r.first
  BY <1>1 DEF Emit, Fields
<1>. QED BY <1>1, <1>5, <1>6, <1>7 DEF r

LEMMA BridgeStepTold ==
  ASSUME Base, Told, Creates, NEW n \in Nodes, BridgeStep(n) \/ NodeDies(n), OneNode'
  PROVE  Told'
<1>. USE OneIsNode
<1>1. /\ Typed(node) /\ Sane(node[n]) /\ DOMAIN node = Nodes
      /\ OneNode => Faithful(node[1])
  BY DEF Base, Types, Typed, Told, Clean
<1>2. CASE Dispatch(n)  BY <1>2, DispatchTold
<1>3. CASE NodeReady(n) \/ Reaped(n) \/ ReaderEnds(n) \/ NodeDies(n)
  <2>1. PICK md : Changes(n, md) /\ node' = [node EXCEPT ![n] = md] /\ md.os # "none"
    BY <1>3, NodeChanges
  <2>2. UNCHANGED <<bridge, turn>>
    BY <1>3 DEF NodeReady, Reaped, ReaderEnds, NodeDies
  <2>3. ASSUME Faithful(node[n])
        PROVE  Faithful(md) /\ md.know = node[n].know /\ (md.os = "up" => ~md.first)
    <3>1. CASE NodeReady(n) /\ md = [node[n] EXCEPT !.os = "up", !.ready = TRUE]
      <4>1. /\ md.os = "up" /\ md.know = node[n].know /\ md.first = node[n].first
            /\ md.in = node[n].in /\ md.out = node[n].out /\ md.busy = node[n].busy
        BY <1>1, <3>1 DEF Sane, Fields
      <4>2. md.in = <<>> /\ ~md.first
        BY <2>3, <3>1, <4>1 DEF NodeReady, Faithful, Running
      <4>3. Primed(md)  BY <4>2 DEF Primed
      <4>. QED BY <2>3, <4>1, <4>2, <4>3 DEF Faithful, Running
    <3>2. CASE Reaped(n) /\ md = [node[n] EXCEPT !.os = "reaped"]
      <4>1. /\ md.os = "reaped" /\ md.know = node[n].know
            /\ md.out = node[n].out /\ md.busy = node[n].busy
        BY <1>1, <3>2 DEF Sane, Fields
      <4>. QED BY <2>3, <4>1 DEF Faithful, Running
    <3>3. CASE ReaderEnds(n) /\ md = [node[n] EXCEPT !.eof = TRUE, !.ready = TRUE, !.died = node[n].pend]
      <4>1. /\ md.os = node[n].os /\ md.know = node[n].know
            /\ md.out = node[n].out /\ md.busy = node[n].busy
        BY <1>1, <3>3 DEF Sane, Fields
      <4>2. md.os \in {"dead", "reaped"}  BY <3>3, <4>1 DEF ReaderEnds
      <4>. QED BY <2>3, <4>1, <4>2 DEF Faithful, Running
    <3>4. CASE NodeDies(n) /\ md = Lifeless(node[n], "dead")
      <4>1. md.os = "dead" /\ md.know = node[n].know /\ md.out = node[n].out /\ md.busy = {}
        BY <1>1, <3>4 DEF Lifeless, Sane, Fields
      <4>. QED BY <2>3, <4>1 DEF Faithful, Running
    <3>. QED BY <2>1, <3>1, <3>2, <3>3, <3>4 DEF Changes
  <2>. QED BY <1>1, <2>1, <2>2, <2>3, NodeTold
<1>4. CASE NodeReads(n)
  <2>1. /\ node[n].os = "up" /\ node[n].in # <<>> /\ UNCHANGED <<bridge, disabled, turn, drain>>
        /\ \E md : ReadAs(node[n], md) /\ node' = [node EXCEPT ![n] = md]
    BY <1>4, ReadsAs
  <2>2. PICK md : ReadAs(node[n], md) /\ node' = [node EXCEPT ![n] = md]
    BY <2>1
  <2>3. md.os = "up"  BY <1>1, <2>1, <2>2, ReadSane
  <2>4. Faithful(node[n]) => Faithful(md) /\ md.know = node[n].know /\ md.first = node[n].first
    BY <1>1, <2>1, <2>2, ReadFaithful DEF Creates
  <2>. QED BY <1>1, <2>1, <2>2, <2>3, <2>4, NodeTold
<1>5. CASE NodeAnswers(n)
  <2>1. PICK b \in node[n].busy, what \in {"ok", "empty", "error", "dead"} :
          node' = [node EXCEPT ![n] = Emit(Answers(node[n], b, what), b[1], what, b[2])]
    BY <1>5 DEF NodeAnswers, Answers
  <2>. DEFINE md == Emit(Answers(node[n], b, what), b[1], what, b[2])
  <2>2. node[n].os = "up" /\ UNCHANGED <<bridge, turn>>  BY <1>5 DEF NodeAnswers
  <2>3. md.os = "up"  BY <1>1, <2>2, AnswerSane
  <2>4. Faithful(node[n]) => Faithful(md) /\ md.know = node[n].know /\ md.first = node[n].first
    BY <1>1, <2>2, AnswerFaithful
  <2>5. node' = [node EXCEPT ![n] = md]  BY <2>1
  <2>. HIDE DEF md
  <2>. QED BY <1>1, <2>2, <2>3, <2>4, <2>5, NodeTold
<1>. QED BY <1>2, <1>3, <1>4, <1>5 DEF BridgeStep

LEMMA DrainTold ==
  ASSUME Base, Told, DrainBegins \/ DrainEnds, OneNode'
  PROVE  Told'
<1>. USE OneIsNode
<1>1. Typed(node) /\ DOMAIN node = Nodes  BY DEF Base, Types, Typed
<1>2. CASE DrainBegins
  BY <1>2 DEF DrainBegins, Told, OneNode
<1>3. CASE DrainEnds /\ ~IsAlive(node, bridge)
  <2>1. node' = node /\ bridge' = 0 /\ turn' = turn /\ OneNode  BY <1>3 DEF DrainEnds, OneNode
  <2>2. bridge \in {0, 1} /\ Clean(node, bridge) /\ Heard(turn)  BY <2>1, TheNode DEF Told
  <2>3. Clean(node, 0)  BY <1>3, <2>2 DEF Clean, IsAlive
  <2>4. Lone(turn, 0)
    <3>1. Lone(turn, bridge)  BY <2>1 DEF Told
    <3>. QED BY <3>1 DEF Lone
  <2>. QED BY <2>1, <2>2, <2>3, <2>4 DEF Told
<1>4. CASE DrainEnds /\ IsAlive(node, bridge)
  <2>. DEFINE md == [Unborn EXCEPT !.os = "reaped", !.eof = TRUE, !.know = node[bridge].know]
  <2>1. bridge \in Nodes  BY <1>4 DEF IsAlive, Base, Types, Nodes
  <2>2. node' = [node EXCEPT ![bridge] = md] /\ bridge' = 0 /\ turn' = turn
    BY <1>4 DEF DrainEnds
  <2>3. md.os = "reaped" /\ md.busy = {} /\ md.out = <<>>  BY DEF Unborn
  <2>. HIDE DEF md
  <2>4. node'[bridge] = md /\ \A m \in Nodes \ {bridge} : node'[m] = node[m]  BY <1>1, <2>1, <2>2
  <2>5. OneNode
    <3>1. \A m \in Nodes : node'[m].os = "none" => node[m].os = "none"  BY <2>3, <2>4
    <3>. QED BY <3>1, OneBefore
  <2>6. bridge = 1 /\ Heard(turn) /\ Lone(turn, bridge)
    BY <1>4, <2>5, TheNode DEF Told, IsAlive
  <2>7. Clean(node', 0)  BY <2>3, <2>4, <2>6 DEF Clean, Faithful, Running
  <2>8. Lone(turn, 0)  BY <2>6 DEF Lone
  <2>. QED BY <2>2, <2>6, <2>7, <2>8 DEF Told
<1>. QED BY <1>2, <1>3, <1>4

LEMMA InitTold == Init => Told
<1>. SUFFICES ASSUME Init PROVE Told
  OBVIOUS
<1>1. node[1] = Unborn /\ bridge = 0  BY OneIsNode DEF Init
<1>2. Clean(node, bridge)
  BY <1>1 DEF Clean, Faithful, Unborn, Running
<1>3. \A c \in Turns : turn[c].how = "none" /\ turn[c].pc = "idle"
  BY DEF Init, NewTurn
<1>. QED BY <1>2, <1>3 DEF Told, Heard, Lone

LEMMA NextTold == Base /\ Told /\ Creates /\ [Next]_vars => Told'
<1>. SUFFICES ASSUME Base, Told, Creates, [Next]_vars PROVE Told'
  OBVIOUS
<1>1. CASE UNCHANGED vars
  BY <1>1 DEF vars, Told, OneNode
<1>2. CASE ~OneNode'
  BY <1>2 DEF Told
<1>3. CASE Next /\ OneNode'
  BY <1>3, TurnStepTold, GivesUpTold, BridgeStepTold, DrainTold DEF Next
<1>. QED BY <1>1, <1>2, <1>3

\* A session that answered a turn had been given the agent's system prompt
\* ("Inject static system prompt on first message to this session",
\* core/sdk_bridge.py), as long as one Node process has served all turns, no
\* creation fails and none is given up on while Node runs: whatever turns, in
\* whatever number, close and recreate each other's session, and whenever Node
\* dies, starts fail or the bridge is drained.
THEOREM PromptComesFirst ==
  ASSUME "create" \notin Faults, {"create", "recreate"} \cap Timeouts = {}
  PROVE  Spec => []PromptFirst
<1>1. Creates  BY DEF Creates, Creations
<1>2. Base /\ Told /\ [Next]_vars => (Base /\ Told)'
  BY <1>1, NextBase, NextTold
<1>3. Init => Base /\ Told  BY InitBase, InitTold
<1>4. Told => PromptFirst  BY DEF Told, Heard, PromptFirst
<1>. QED BY <1>2, <1>3, <1>4, PTL DEF Spec
=============================================================================
