------------------------- MODULE AgentTurns_proofs -------------------------
(***************************************************************************)
(* Turns that cause turns: for every set of agents, messages and tags, and *)
(* every budget, how deep councils can nest and how far an agent's daily   *)
(* budget can be overdrawn.                                                *)
(* The proof first says what a step may do to the stack of one message     *)
(* (Moves), then draws the invariants from that alone.                     *)
(***************************************************************************)
EXTENDS AgentTurns, FiniteSetTheorems, SequenceTheorems, TLAPS

(***************************************************************************)
(* What a frame on the stack is known to be.                               *)
(***************************************************************************)
\* Every tag that the turn executes or is going to is one it obeys, and it
\* executes none before its model has answered, which a refused one never has.
Proper(f) ==
  /\ \A t \in f.todo \cup {f.doing} :
       t # NoTag => KindOf[t] # "spawn" /\ Obeys(ScannerOf(t), f.platform)
  /\ f.doing # NoTag => f.stage > 0
  /\ f.stage > 0 => ~f.refused

\* Only the turn on top may still be waiting for its model.
Answered(s) == \A k \in 1..Len(s) - 1 : s[k].stage > 0

\* Only a heartbeat's own turn has a cost that is recorded again.
Reckoned(s) == \A k \in 1..Len(s) : s[k].paid # 0 => k = 1 /\ s[k].platform = "heartbeat"

StackInv ==
  \A m \in Messages :
    /\ \A k \in 1..Len(stack[m]) : Proper(stack[m][k])
    /\ Answered(stack[m]) /\ Reckoned(stack[m])

\* What a turn keeps for as long as it lasts.
Same(f, g) == f.platform = g.platform /\ f.agent = g.agent /\ f.refused = g.refused

\* The platforms on which no council may be convened.
Sheltered == {"council", "discussion", "delegation"}

\* The platforms a turn on platform p may give to the turns it causes.
MayCause(p, q) ==
  /\ q # "stream"
  /\ p \in Sheltered => q \in {"delegation", "discussion"} \cup Loopholes

\* s becomes u when a turn on it is begun, caused, goes on, or is over.
Moves(s, u) ==
  /\ u \in Seq(Frame)
  /\ \A k \in 1..Len(u) : Proper(u[k])
  /\ Answered(u) /\ Reckoned(u)
  /\ Len(u) <= Len(s) + 1
  /\ \A k \in 1..Len(u) : k <= Len(s) => Same(u[k], s[k])
  /\ Len(u) = Len(s) + 1 =>
       /\ u[Len(u)] = Turn(u[Len(u)].agent, u[Len(u)].platform)
       /\ IF s = <<>> THEN u[Len(u)].platform \in Entrances
          ELSE MayCause(s[Len(s)].platform, u[Len(u)].platform)
  /\ Len(u) \in 1..Len(s) => u[Len(u)].stage > 0

(***************************************************************************)
(* Stacks as sequences.                                                    *)
(***************************************************************************)
LEMMA TopAndBelow ==
  ASSUME TypeOK, NEW m \in Messages, Busy(m)
  PROVE  /\ Len(stack[m]) \in Nat \ {0} /\ stack[m] \in Seq(Frame)
         /\ Top(m) \in Frame /\ Top(m) = stack[m][Len(stack[m])]
         /\ Below(m) \in Seq(Frame) /\ Len(Below(m)) = Len(stack[m]) - 1
         /\ \A k \in 1..Len(stack[m]) - 1 : Below(m)[k] = stack[m][k]
<1>1. stack[m] \in Seq(Frame) /\ stack[m] # <<>>
  BY DEF TypeOK, Busy
<1>2. Len(stack[m]) \in Nat \ {0} /\ \A k \in 1..Len(stack[m]) : stack[m][k] \in Frame
  BY <1>1, EmptySeq, ElementOfSeq
<1>3. /\ Below(m) \in Seq(Frame) /\ Len(Below(m)) = Len(stack[m]) - 1
      /\ \A k \in 1..Len(stack[m]) - 1 : Below(m)[k] = stack[m][k]
  <2>. DEFINE n == Len(stack[m]) - 1
  <2>1. n \in Int /\ \A i \in 1..n : stack[m][i] \in Frame
    BY <1>2
  <2>2. /\ SubSeq(stack[m], 1, n) \in Seq(Frame)
        /\ Len(SubSeq(stack[m], 1, n)) = IF 1 <= n THEN n - 1 + 1 ELSE 0
        /\ \A i \in 1..n - 1 + 1 : SubSeq(stack[m], 1, n)[i] = stack[m][1 + i - 1]
    <3>. HIDE DEF n
    <3>. QED BY <2>1, SubSeqProperties
  <2>. QED
    BY <1>2, <2>2 DEF Below
<1>. QED
  BY <1>1, <1>2, <1>3 DEF Top

LEMMA WithNewTop ==
  ASSUME TypeOK, NEW m \in Messages, Busy(m), NEW f \in Frame
  PROVE  LET u == Append(Below(m), f)
         IN /\ u \in Seq(Frame) /\ Len(u) = Len(stack[m]) /\ u[Len(u)] = f
            /\ \A k \in 1..Len(u) - 1 : u[k] = stack[m][k]
<1>. DEFINE b == Below(m)
<1>1. /\ b \in Seq(Frame) /\ Len(b) = Len(stack[m]) - 1 /\ Len(stack[m]) \in Nat \ {0}
      /\ \A k \in 1..Len(stack[m]) - 1 : b[k] = stack[m][k]
  BY TopAndBelow
<1>2. /\ Append(b, f) \in Seq(Frame) /\ Len(Append(b, f)) = Len(b) + 1
      /\ \A i \in 1..Len(b) : Append(b, f)[i] = b[i]
      /\ Append(b, f)[Len(b) + 1] = f
  <2>. HIDE DEF b
  <2>. QED BY <1>1, AppendProperties
<1>. QED
  BY <1>1, <1>2

LEMMA WithCall ==
  ASSUME TypeOK, NEW m \in Messages, Busy(m), NEW f \in Frame, NEW g \in Frame
  PROVE  LET u == Below(m) \o <<f, g>>
         IN /\ u \in Seq(Frame) /\ Len(u) = Len(stack[m]) + 1
            /\ u[Len(u)] = g /\ u[Len(u) - 1] = f
            /\ \A k \in 1..Len(u) - 2 : u[k] = stack[m][k]
<1>. DEFINE b == Below(m)
            c == <<f, g>>
<1>1. /\ b \in Seq(Frame) /\ Len(b) = Len(stack[m]) - 1 /\ Len(stack[m]) \in Nat \ {0}
      /\ \A k \in 1..Len(stack[m]) - 1 : b[k] = stack[m][k]
  BY TopAndBelow
<1>2. c \in Seq(Frame) /\ Len(c) = 2 /\ c[1] = f /\ c[2] = g
  OBVIOUS
<1>3. /\ b \o c \in Seq(Frame) /\ Len(b \o c) = Len(b) + Len(c)
      /\ \A i \in 1..Len(b) + Len(c) :
           (b \o c)[i] = IF i <= Len(b) THEN b[i] ELSE c[i - Len(b)]
  <2>. HIDE DEF b, c
  <2>. QED BY <1>1, <1>2, ConcatProperties
<1>. HIDE DEF b, c
<1>4. /\ b \o c \in Seq(Frame) /\ Len(b \o c) = Len(stack[m]) + 1
      /\ (b \o c)[Len(stack[m]) + 1] = g /\ (b \o c)[Len(stack[m])] = f
      /\ \A k \in 1..Len(stack[m]) - 1 : (b \o c)[k] = stack[m][k]
  BY <1>1, <1>2, <1>3
<1>. QED
  BY <1>1, <1>4 DEF b, c

(***************************************************************************)
(* Frames.                                                                 *)
(***************************************************************************)
LEMMA ScannersType == Len(Scanners) = 6
BY DEF Scanners

LEMMA TurnType ==
  ASSUME NEW a \in Agents, NEW p \in Platforms
  PROVE  /\ Turn(a, p) \in Frame /\ Proper(Turn(a, p))
         /\ Turn(a, p).platform = p /\ Turn(a, p).agent = a /\ Turn(a, p).stage = 0
         /\ Turn(a, p).refused = (p # "stream" /\ OverBudget(a)) /\ Turn(a, p).paid = 0
<1>1. OverBudget(a) \in BOOLEAN
  BY DEF OverBudget
<1>. QED
  BY <1>1, ScannersType, TurnAssumption DEF Turn, NewTurn, Frame, Proper, Costs

LEMMA SettledType ==
  ASSUME NEW f \in Frame, NEW more \in Appended(f)
  PROVE  LET g == Settled(f, more)
         IN /\ g \in Frame /\ g.doing = NoTag /\ g.answer = {} /\ g.turns = 0
            /\ g.platform = f.platform /\ g.agent = f.agent
            /\ g.stage = f.stage /\ g.todo = f.todo
            /\ Same(g, f) /\ g.paid = f.paid
<1>1. more \subseteq Tags
  BY DEF Appended, Frame
<1>. QED
  BY <1>1 DEF Settled, Frame, Same

LEMMA FoundProper ==
  ASSUME NEW f \in Frame, NEW i \in 1..Len(Scanners), NEW t \in Found(f, i)
  PROVE  t \in Tags /\ KindOf[t] # "spawn" /\ Obeys(ScannerOf(t), f.platform)
<1>1. t \in Tags /\ ScannerOf(t) = Scanners[i] /\ Obeys(Scanners[i], f.platform)
  BY DEF Found, Frame
<1>2. i \in 1..6
  BY ScannersType
<1>. QED
  BY <1>1, <1>2 DEF ScannerOf, Scanners

\* Who is called, on which platform: the one fact about nesting.
LEMMA NthTurnType ==
  ASSUME NEW f \in Frame, NEW t \in Tags, NEW n,
         KindOf[t] # "spawn", Obeys(ScannerOf(t), f.platform),
         NEW turn \in NthTurn(f, t, n)
  PROVE  /\ turn \in Frame /\ Proper(turn) /\ turn = Turn(turn.agent, turn.platform)
         /\ MayCause(f.platform, turn.platform) /\ turn.paid = 0
<1>1. KindOf[t] \in Kinds /\ TargetOf[t] \in Agents /\ f.agent \in Agents
      /\ f.platform \in Platforms
  BY TurnAssumption DEF Frame
<1>2. \E a \in Agents, p \in Platforms : turn = Turn(a, p) /\ MayCause(f.platform, p)
  <2>1. CASE KindOf[t] = "delegate" /\ n = 2
    <3>1. turn = Turn(f.agent, "verification")
      BY <2>1 DEF NthTurn
    <3>. QED
      BY <1>1, <3>1 DEF MayCause, Platforms, Loopholes
  <2>2. CASE KindOf[t] = "help" \/ (KindOf[t] = "delegate" /\ n # 2)
    <3>1. turn = Turn(TargetOf[t], "delegation")
      BY <2>2 DEF NthTurn
    <3>. QED
      BY <1>1, <3>1 DEF MayCause, Platforms
  <2>3. CASE KindOf[t] = "discuss"
    <3>1. \E a \in {f.agent, TargetOf[t]} : turn = Turn(a, "discussion")
      BY <2>3 DEF NthTurn
    <3>. QED
      BY <1>1, <3>1 DEF MayCause, Platforms
  <2>4. CASE KindOf[t] = "council"
    <3>1. \E a \in Agents : turn = Turn(a, "council")
      BY <2>4 DEF NthTurn
    <3>2. f.platform \notin Sheltered
      BY <2>4 DEF Obeys, ScannerOf, Sheltered
    <3>. QED
      BY <3>1, <3>2 DEF MayCause, Platforms
  <2>5. CASE KindOf[t] = "optimize"
    <3>1. turn = Turn(TargetOf[t], "optimization")
      BY <2>5 DEF NthTurn
    <3>. QED
      BY <1>1, <3>1 DEF MayCause, Platforms, Loopholes
  <2>6. CASE KindOf[t] \in {"plan", "build"}
    <3>1. \E a \in Agents : turn = Turn(a, f.platform)
      BY <2>6 DEF NthTurn
    <3>2. f.platform \notin Sheltered /\ f.platform # "stream"
      BY <2>6 DEF Obeys, ScannerOf, Sheltered
    <3>. QED
      BY <1>1, <3>1, <3>2 DEF MayCause
  <2>. QED
    BY <1>1, <2>1, <2>2, <2>3, <2>4, <2>5, <2>6 DEF Kinds
<1>. QED
  BY <1>2, TurnType

(***************************************************************************)
(* Moves, action by action.                                                *)
(***************************************************************************)
\* Only the stack of m changes, and it makes a move.
OnlyMoves(m) ==
  /\ stack' \in [Messages -> Seq(Frame)]
  /\ \A n \in Messages \ {m} : stack'[n] = stack[n]
  /\ Moves(stack[m], stack'[m])

LEMMA StackSet ==
  ASSUME TypeOK, NEW m \in Messages, NEW u, stack' = [stack EXCEPT ![m] = u],
         Moves(stack[m], u)
  PROVE  OnlyMoves(m)
BY DEF TypeOK, OnlyMoves, Moves

\* A turn goes on.
LEMMA NewTopMoves ==
  ASSUME TypeOK, StackInv, NEW m \in Messages, Busy(m), NEW f \in Frame, Proper(f),
         Same(f, Top(m)), f.stage > 0,
         f.paid # 0 => Len(stack[m]) = 1 /\ f.platform = "heartbeat"
  PROVE  Moves(stack[m], Append(Below(m), f))
<1>. DEFINE u == Append(Below(m), f)
            s == stack[m]
<1>1. /\ u \in Seq(Frame) /\ Len(u) = Len(s) /\ u[Len(u)] = f
      /\ \A k \in 1..Len(u) - 1 : u[k] = s[k]
  BY WithNewTop
<1>2. Len(s) \in Nat \ {0} /\ Top(m) = s[Len(s)]
  BY TopAndBelow
<1>3. (\A k \in 1..Len(s) : Proper(s[k])) /\ (\A k \in 1..Len(s) - 1 : s[k].stage > 0)
  BY DEF StackInv, Answered
<1>5. /\ \A k \in 1..Len(s) : s[k].paid # 0 => k = 1 /\ s[k].platform = "heartbeat"
      /\ f.paid # 0 => Len(s) = 1 /\ f.platform = "heartbeat"
      /\ Same(f, s[Len(s)])
  BY <1>2 DEF StackInv, Reckoned
<1>. HIDE DEF u, s
<1>6. Reckoned(u)
  BY <1>1, <1>2, <1>5 DEF Reckoned
<1>7. \A k \in 1..Len(u) : Same(u[k], s[k])
  BY <1>1, <1>2, <1>5 DEF Same
<1>4. Moves(s, u)
  BY <1>1, <1>2, <1>3, <1>6, <1>7 DEF Moves, Answered
<1>. QED
  BY <1>4 DEF u, s

\* A turn causes another.
LEMMA CallMoves ==
  ASSUME TypeOK, StackInv, NEW m \in Messages, Busy(m), NEW f \in Frame, Proper(f),
         Same(f, Top(m)), f.stage > 0, f.doing # NoTag, Call(m, f),
         f.paid # 0 => Len(stack[m]) = 1 /\ f.platform = "heartbeat"
  PROVE  OnlyMoves(m) /\ stack'[m] # <<>>
<1>. DEFINE s == stack[m]
<1>1. f.doing \in Tags /\ KindOf[f.doing] # "spawn" /\ Obeys(ScannerOf(f.doing), f.platform)
  BY DEF Proper, Frame
<1>2. PICK turn \in NthTurn(f, f.doing, f.turns + 1) :
        stack' = [stack EXCEPT ![m] = Below(m) \o <<[f EXCEPT !.turns = @ + 1], turn>>]
  BY DEF Call
<1>3. /\ turn \in Frame /\ Proper(turn) /\ turn = Turn(turn.agent, turn.platform)
      /\ MayCause(f.platform, turn.platform) /\ turn.paid = 0
  BY <1>1, NthTurnType
<1>. DEFINE g == [f EXCEPT !.turns = @ + 1]
            u == Below(m) \o <<g, turn>>
<1>4. g \in Frame /\ Proper(g) /\ Same(g, f) /\ g.stage > 0 /\ g.paid = f.paid
  BY DEF Frame, Proper, Same
<1>5. /\ u \in Seq(Frame) /\ Len(u) = Len(s) + 1 /\ u[Len(u)] = turn /\ u[Len(u) - 1] = g
      /\ \A k \in 1..Len(u) - 2 : u[k] = s[k]
  <2>. HIDE DEF g
  <2>. QED BY <1>3, <1>4, WithCall
<1>6. Len(s) \in Nat \ {0} /\ Top(m) = s[Len(s)] /\ s # <<>>
  BY TopAndBelow DEF Busy
<1>7. (\A k \in 1..Len(s) : Proper(s[k])) /\ (\A k \in 1..Len(s) - 1 : s[k].stage > 0)
  BY DEF StackInv, Answered
<1>8. stack' = [stack EXCEPT ![m] = u]
  BY <1>2
<1>12. /\ \A k \in 1..Len(s) : s[k].paid # 0 => k = 1 /\ s[k].platform = "heartbeat"
       /\ f.paid # 0 => Len(s) = 1 /\ f.platform = "heartbeat"
       /\ Same(f, s[Len(s)])
  BY <1>6 DEF StackInv, Reckoned
<1>. HIDE DEF g, u, s
<1>13. Reckoned(u)
  BY <1>3, <1>4, <1>5, <1>6, <1>12 DEF Reckoned, Same
<1>14. \A k \in 1..Len(s) : Same(u[k], s[k])
  BY <1>4, <1>5, <1>6, <1>12 DEF Same
<1>15. f.platform = s[Len(s)].platform
  BY <1>12 DEF Same
<1>9. Moves(s, u)
  BY <1>3, <1>4, <1>5, <1>6, <1>7, <1>13, <1>14, <1>15 DEF Moves, Answered
<1>10. OnlyMoves(m)
  BY <1>8, <1>9, StackSet DEF s
<1>11. u # <<>> /\ stack'[m] = u
  BY <1>5, <1>6, <1>8 DEF TypeOK
<1>. QED
  BY <1>10, <1>11

\* A turn is over.
LEMMA ReturnMoves ==
  ASSUME TypeOK, StackInv, NEW m \in Messages, Busy(m), NEW text \in SUBSET Tags,
         Return(m, text)
  PROVE  OnlyMoves(m) /\ Len(stack'[m]) = Len(stack[m]) - 1
<1>. DEFINE s == stack[m]
            rest == Below(m)
            n == Len(rest)
<1>1. /\ Len(s) \in Nat \ {0} /\ s \in Seq(Frame) /\ rest \in Seq(Frame) /\ n = Len(s) - 1
      /\ \A k \in 1..n : rest[k] = s[k]
  BY TopAndBelow
<1>2. (\A k \in 1..Len(s) : Proper(s[k])) /\ (\A k \in 1..Len(s) - 1 : s[k].stage > 0)
  BY DEF StackInv, Answered
<1>6. \A k \in 1..Len(s) : s[k].paid # 0 => k = 1 /\ s[k].platform = "heartbeat"
  BY DEF StackInv, Reckoned
<1>3. \A k \in 1..n : rest[k] \in Frame
  BY <1>1
<1>4. CASE rest = <<>> \/ Top(m).platform = "verification"
  <2>1. stack' = [stack EXCEPT ![m] = rest]
    BY <1>4 DEF Return
  <2>2. Moves(s, rest)
    <3>. HIDE DEF rest, s
    <3>. QED BY <1>1, <1>2, <1>6 DEF Moves, Answered, Reckoned, Same
  <2>. QED
    BY <1>1, <2>1, <2>2, StackSet DEF TypeOK
<1>5. CASE ~(rest = <<>> \/ Top(m).platform = "verification")
  <2>. DEFINE g == [rest[n] EXCEPT !.answer = text]
              u == [rest EXCEPT ![n] = g]
  <2>1. stack' = [stack EXCEPT ![m] = u]
    BY <1>5 DEF Return
  <2>2. n \in 1..n /\ rest[n] \in Frame /\ rest[n] = s[n]
    BY <1>1, <1>3, <1>5, EmptySeq
  <2>3. g \in Frame /\ Same(g, s[n]) /\ g.stage = s[n].stage
        /\ g.todo = s[n].todo /\ g.doing = s[n].doing /\ g.paid = s[n].paid
    <3>. HIDE DEF n, rest, s
    <3>. QED BY <2>2 DEF Frame, Same
  <2>4. Proper(g)
    BY <1>1, <1>2, <2>2, <2>3 DEF Proper, Same
  <2>5. u \in Seq(Frame) /\ Len(u) = n
        /\ \A k \in 1..n : u[k] = IF k = n THEN g ELSE rest[k]
    <3>. HIDE DEF g, n
    <3>. QED BY <1>1, <2>2, <2>3, ExceptSeq DEF n
  <2>. HIDE DEF g, u, rest, s, n
  <2>6. n \in Nat /\ n < Len(s)
    BY <1>1
  <2>7. u[n] = g
    BY <2>2, <2>5
  <2>8. \A k \in 1..n - 1 : u[k] = s[k]
    <3>. TAKE k \in 1..n - 1
    <3>1. k \in 1..n /\ k # n
      BY <2>6
    <3>. QED
      BY <1>1, <2>5, <3>1
  <2>9. \A k \in 1..n : /\ Proper(u[k]) /\ Same(u[k], s[k]) /\ u[k].stage > 0
                        /\ u[k].paid # 0 => k = 1 /\ u[k].platform = "heartbeat"
    <3>. TAKE k \in 1..n
    <3>1. CASE k = n
      <4>1. s[n].stage > 0 /\ (s[n].paid # 0 => n = 1 /\ s[n].platform = "heartbeat")
        <5>1. n \in 1..Len(s) - 1 /\ n \in 1..Len(s)
          BY <1>1, <2>2, <2>6
        <5>. QED
          BY <1>2, <1>6, <5>1
      <4>2. u[k] = g /\ s[k] = s[n]
        BY <2>7, <3>1
      <4>. QED
        BY <2>3, <2>4, <3>1, <4>1, <4>2 DEF Same
    <3>2. CASE k # n
      BY <1>1, <1>2, <1>6, <2>6, <2>8, <3>2 DEF Same
    <3>. QED
      BY <3>1, <3>2
  <2>10. Moves(s, u)
    BY <1>1, <2>2, <2>5, <2>6, <2>9 DEF Moves, Answered, Reckoned
  <2>11. OnlyMoves(m)
    BY <2>1, <2>10, StackSet DEF s
  <2>. QED
    BY <1>1, <2>1, <2>5, <2>11 DEF TypeOK, s
<1>. QED
  BY <1>4, <1>5

(***************************************************************************)
(* What each action does to a stack and to the money.                      *)
(***************************************************************************)
\* m has asked agent a for a turn and waits for the model.
Pending(m, a) ==
  Busy(m) /\ Top(m).stage = 0 /\ ~Top(m).refused /\ Top(m).agent = a

\* m is a heartbeat of a that was let through, so its cost is recorded again.
Beating(m, a) == BeatsFor(m, a) /\ ~stack[m][1].refused

\* Only a turn that was waiting, and is not any more, costs something, or a
\* heartbeat that is over.
Pays(m) ==
  \/ spent' = spent
  \/ /\ Len(stack'[m]) <= Len(stack[m])
     /\ Pending(m, Top(m).agent)
     /\ \E c \in Costs : spent' = [spent EXCEPT ![Top(m).agent] = @ + c]
  \/ /\ Beating(m, Top(m).agent) /\ Len(stack'[m]) = 0
     /\ \E c \in Costs : spent' = [spent EXCEPT ![Top(m).agent] = @ + c]

\* A heartbeat begins when its agent has no other.
Alone(m) ==
  ~Busy(m) => \A a \in Agents : BeatsFor(m, a)' => \A n \in Messages : ~BeatsFor(n, a)

LEMMA TopProper ==
  ASSUME TypeOK, StackInv, NEW m \in Messages, Busy(m)
  PROVE  /\ Proper(Top(m)) /\ Top(m) \in Frame
         /\ Top(m).paid # 0 => Len(stack[m]) = 1 /\ Top(m).platform = "heartbeat"
<1>1. Len(stack[m]) \in Nat \ {0} /\ Top(m) \in Frame /\ Top(m) = stack[m][Len(stack[m])]
  BY TopAndBelow
<1>2. Proper(Top(m))
  BY <1>1 DEF StackInv
<1>3. \A k \in 1..Len(stack[m]) :
        stack[m][k].paid # 0 => k = 1 /\ stack[m][k].platform = "heartbeat"
  BY DEF StackInv, Reckoned
<1>4. Len(stack[m]) \in 1..Len(stack[m])
  BY <1>1
<1>5. Top(m).paid # 0 => Len(stack[m]) = 1 /\ Top(m).platform = "heartbeat"
  BY ONLY <1>1, <1>3, <1>4
<1>. QED
  BY <1>1, <1>2, <1>5

LEMMA BeginStep ==
  ASSUME TypeOK, StackInv, NEW m \in Messages, Begin(m)
  PROVE  OnlyMoves(m) /\ Pays(m) /\ Alone(m)
<1>1. PICK a \in Agents, p \in Entrances :
        /\ p = "heartbeat" => \A n \in Messages : ~BeatsFor(n, a)
        /\ stack' = [stack EXCEPT ![m] = <<Turn(a, p)>>]
  BY DEF Begin
<1>2. p \in Platforms
  BY TurnAssumption DEF Platforms
<1>. DEFINE f == Turn(a, p)
            u == <<f>>
<1>3. f \in Frame /\ Proper(f) /\ f.platform = p /\ f.agent = a /\ f.paid = 0
  BY <1>2, TurnType
<1>4. stack[m] = <<>> /\ Len(stack[m]) = 0
  BY DEF Begin, Busy
<1>5. f = Turn(f.agent, f.platform)
  BY <1>3
<1>6. Moves(stack[m], u)
  <2>. HIDE DEF f
  <2>1. u \in Seq(Frame) /\ Len(u) = 1 /\ u[1] = f
    BY <1>3
  <2>. QED
    BY <1>3, <1>4, <1>5, <2>1 DEF Moves, Answered, Reckoned
<1>7. Alone(m)
  <2>1. stack'[m] = u
    BY <1>1 DEF TypeOK
  <2>. HIDE DEF f
  <2>2. stack'[m][1] = f
    BY <2>1
  <2>. QED
    BY <1>1, <1>3, <2>2 DEF Alone, BeatsFor
<1>. QED
  BY <1>1, <1>6, <1>7, StackSet DEF Begin, Pays

LEMMA ReplyStep ==
  ASSUME TypeOK, StackInv, NEW m \in Messages, Reply(m)
  PROVE  OnlyMoves(m) /\ Pays(m) /\ Alone(m) /\ written' \subseteq Tags
<1>1. Busy(m) /\ Top(m).stage = 0 /\ ~Top(m).refused
  BY DEF Reply
<1>2. PICK W \in SUBSET (Tags \ written), c \in Costs :
        LET f == [Top(m) EXCEPT !.stage = 1, !.text = W,
                                !.paid = IF Outermost(m) THEN c ELSE 0]
        IN /\ SetTop(m, [f EXCEPT !.todo = Found(f, 1)])
           /\ written' = written \cup W
           /\ spent' = [spent EXCEPT ![f.agent] = @ + c]
  BY DEF Reply
<1>. DEFINE d == IF Outermost(m) THEN c ELSE 0
            f == [Top(m) EXCEPT !.stage = 1, !.text = W, !.paid = d]
            g == [f EXCEPT !.todo = Found(f, 1)]
<1>3. Top(m) \in Frame /\ Proper(Top(m))
  BY <1>1, TopProper
<1>4. /\ f \in Frame /\ f.stage = 1 /\ Same(f, Top(m)) /\ f.platform = Top(m).platform
      /\ f.doing = Top(m).doing /\ f.agent = Top(m).agent /\ f.paid = d
  <2>1. W \in SUBSET Tags /\ 1 \in 0..Len(Scanners) /\ d \in Costs
    BY ScannersType, TurnAssumption DEF Costs
  <2>. HIDE DEF d
  <2>. QED
    BY <1>3, <2>1 DEF Frame, Same
<1>5. Found(f, 1) \subseteq Tags
      /\ \A t \in Found(f, 1) : KindOf[t] # "spawn" /\ Obeys(ScannerOf(t), f.platform)
  <2>. HIDE DEF f
  <2>. QED BY <1>4, FoundProper, ScannersType
<1>6. /\ g \in Frame /\ g.stage = 1 /\ Same(g, Top(m)) /\ Proper(g) /\ g.paid = d
  <2>. HIDE DEF f
  <2>1. g \in Frame /\ g.stage = 1 /\ Same(g, f) /\ g.paid = f.paid
        /\ g.todo = Found(f, 1) /\ g.doing = f.doing
    BY <1>4, <1>5 DEF Frame, Same
  <2>. QED
    BY <1>1, <1>3, <1>4, <1>5, <2>1 DEF Proper, Same
<1>7. Moves(stack[m], Append(Below(m), g))
  <2>1. d # 0 => Len(stack[m]) = 1 /\ Top(m).platform = "heartbeat"
    BY DEF Outermost
  <2>. HIDE DEF g, d
  <2>2. g.paid # 0 => Len(stack[m]) = 1 /\ g.platform = "heartbeat"
    BY <1>6, <2>1 DEF Same
  <2>. QED BY <1>1, <1>6, <2>2, NewTopMoves
<1>8. stack' = [stack EXCEPT ![m] = Append(Below(m), g)]
  BY <1>2 DEF SetTop
<1>9. OnlyMoves(m)
  BY <1>7, <1>8, StackSet
<1>10. Len(stack'[m]) = Len(stack[m])
  <2>1. Len(Append(Below(m), g)) = Len(stack[m])
    <3>. HIDE DEF g
    <3>. QED BY <1>1, <1>6, WithNewTop
  <2>. QED
    BY <1>8, <2>1 DEF TypeOK
<1>11. Pays(m)
  <2>1. spent' = [spent EXCEPT ![Top(m).agent] = @ + c]
    BY <1>2, <1>4
  <2>2. Len(stack'[m]) <= Len(stack[m])
    BY <1>10, <1>1, TopAndBelow
  <2>. QED
    BY <1>1, <2>1, <2>2 DEF Pays, Pending
<1>. QED
  BY <1>1, <1>2, <1>9, <1>11 DEF TypeOK, Alone

LEMMA ReplyFailsStep ==
  ASSUME TypeOK, StackInv, NEW m \in Messages, ReplyFails(m)
  PROVE  OnlyMoves(m) /\ Pays(m) /\ Alone(m)
<1>1. Busy(m) /\ Top(m).stage = 0 /\ Return(m, {})
  BY DEF ReplyFails
<1>2. OnlyMoves(m) /\ Len(stack'[m]) = Len(stack[m]) - 1
  BY <1>1, ReturnMoves
<1>3. PICK c \in Costs :
        spent' = IF Top(m).refused THEN spent ELSE [spent EXCEPT ![Top(m).agent] = @ + c]
  BY DEF ReplyFails
<1>4. Len(stack'[m]) <= Len(stack[m])
  BY <1>1, <1>2, TopAndBelow
<1>. QED
  BY <1>1, <1>2, <1>3, <1>4 DEF Pays, Pending, Alone

LEMMA AnotherTurnStep ==
  ASSUME TypeOK, StackInv, NEW m \in Messages, AnotherTurn(m)
  PROVE  OnlyMoves(m) /\ Pays(m) /\ Alone(m)
<1>1. Busy(m) /\ Top(m).doing # NoTag /\ Call(m, Top(m)) /\ spent' = spent
  BY DEF AnotherTurn
<1>2. /\ Top(m) \in Frame /\ Proper(Top(m)) /\ Top(m).stage > 0 /\ Same(Top(m), Top(m))
      /\ Top(m).paid # 0 => Len(stack[m]) = 1 /\ Top(m).platform = "heartbeat"
  BY <1>1, TopProper DEF Proper, Same
<1>3. OnlyMoves(m)
  BY <1>1, <1>2, CallMoves
<1>. QED
  BY <1>1, <1>3 DEF Pays, Alone

LEMMA NextTagStep ==
  ASSUME TypeOK, StackInv, NEW m \in Messages, NextTag(m)
  PROVE  OnlyMoves(m) /\ Pays(m) /\ Alone(m) /\ ran' \in [Tags -> Nat]
<1>1. Busy(m) /\ Top(m).stage > 0 /\ spent' = spent
  BY DEF NextTag
<1>2. /\ Top(m) \in Frame /\ Proper(Top(m))
      /\ Top(m).paid # 0 => Len(stack[m]) = 1 /\ Top(m).platform = "heartbeat"
  BY <1>1, TopProper
<1>3. PICK more \in Appended(Top(m)), i \in 1..Len(Scanners) :
        LET f == Settled(Top(m), more)
            S == IF i = f.stage THEN f.todo ELSE Found(f, i)
        IN \E t \in NextOf(S) :
             LET g == [f EXCEPT !.stage = i, !.todo = S \ {t}, !.doing = t]
             IN /\ IF MostTurns(g, t) = 0 THEN SetTop(m, g) ELSE Call(m, g)
                /\ ran' = Times({t})
  BY DEF NextTag
<1>. DEFINE f == Settled(Top(m), more)
            S == IF i = f.stage THEN f.todo ELSE Found(f, i)
<1>4. /\ f \in Frame /\ f.platform = Top(m).platform /\ f.todo = Top(m).todo
      /\ Same(f, Top(m)) /\ f.paid = Top(m).paid
  BY <1>2, SettledType
<1>5. S \subseteq Tags
      /\ \A t \in S : KindOf[t] # "spawn" /\ Obeys(ScannerOf(t), f.platform)
  <2>1. CASE S = f.todo
    <3>1. f.todo \subseteq Tags
      BY <1>4 DEF Frame
    <3>. QED
      BY <1>2, <1>4, <2>1, <3>1, TurnAssumption DEF Proper
  <2>2. CASE S = Found(f, i)
    <3>. HIDE DEF f
    <3>. QED BY <1>4, <2>2, FoundProper
  <2>. QED
    BY <2>1, <2>2
<1>6. PICK t \in NextOf(S) :
        LET g == [f EXCEPT !.stage = i, !.todo = S \ {t}, !.doing = t]
        IN /\ IF MostTurns(g, t) = 0 THEN SetTop(m, g) ELSE Call(m, g)
           /\ ran' = Times({t})
  BY <1>3
<1>. DEFINE g == [f EXCEPT !.stage = i, !.todo = S \ {t}, !.doing = t]
<1>7. t \in S /\ t \in Tags /\ t # NoTag
  BY <1>5, TurnAssumption DEF NextOf
<1>8. /\ g \in Frame /\ g.platform = f.platform /\ g.stage = i /\ g.doing = t
      /\ g.todo = S \ {t} /\ Same(g, f) /\ g.paid = f.paid
  <2>. HIDE DEF f, S
  <2>1. i \in 0..Len(Scanners) /\ S \ {t} \in SUBSET Tags
    BY <1>5, ScannersType
  <2>. QED
    BY <1>4, <1>7, <2>1 DEF Frame, Same
<1>9. Proper(g) /\ g.stage > 0
  <2>. HIDE DEF f, S, g
  <2>1. i > 0
    BY ScannersType
  <2>. QED
    BY <1>1, <1>2, <1>4, <1>5, <1>7, <1>8, <2>1 DEF Proper, Same
<1>12. /\ Same(g, Top(m))
       /\ g.paid # 0 => Len(stack[m]) = 1 /\ g.platform = "heartbeat"
  <2>. HIDE DEF f, S, g
  <2>. QED
    BY <1>2, <1>4, <1>8 DEF Same
<1>10. OnlyMoves(m)
  <2>1. CASE SetTop(m, g)
    <3>1. Moves(stack[m], Append(Below(m), g))
      <4>. HIDE DEF g
      <4>. QED BY <1>1, <1>4, <1>8, <1>9, <1>12, NewTopMoves
    <3>. QED
      BY <2>1, <3>1, StackSet DEF SetTop
  <2>2. CASE Call(m, g)
    <3>. HIDE DEF g
    <3>. QED BY <1>1, <1>4, <1>7, <1>8, <1>9, <1>12, <2>2, CallMoves
  <2>. QED
    BY <1>6, <2>1, <2>2
<1>11. ran' \in [Tags -> Nat]
  BY <1>6 DEF Times, TypeOK
<1>. QED
  BY <1>1, <1>10, <1>11 DEF Pays, Alone

LEMMA FinishStep ==
  ASSUME TypeOK, StackInv, NEW m \in Messages, Finish(m)
  PROVE  OnlyMoves(m) /\ Pays(m) /\ Alone(m) /\ ran' \in [Tags -> Nat]
<1>1. Busy(m) /\ Top(m).stage > 0
  BY DEF Finish
<1>2. /\ Top(m) \in Frame /\ ~Top(m).refused
      /\ Top(m).paid # 0 => Len(stack[m]) = 1 /\ Top(m).platform = "heartbeat"
  BY <1>1, TopProper DEF Proper
<1>3. PICK more \in Appended(Top(m)) :
        LET f == Settled(Top(m), more)
        IN /\ ran' = Times({t \in f.text : KindOf[t] = "spawn"})
           /\ Return(m, f.text)
           /\ spent' = [spent EXCEPT ![f.agent] = @ + f.paid]
  BY DEF Finish
<1>. DEFINE f == Settled(Top(m), more)
<1>4. f.text \in SUBSET Tags /\ f.agent = Top(m).agent /\ f.paid = Top(m).paid
  <2>1. f \in Frame /\ Same(f, Top(m)) /\ f.paid = Top(m).paid
    BY <1>2, SettledType
  <2>. QED
    BY <2>1 DEF Frame, Same
<1>. HIDE DEF f
<1>5. OnlyMoves(m) /\ Len(stack'[m]) = Len(stack[m]) - 1
  BY <1>1, <1>3, <1>4, ReturnMoves DEF f
<1>6. ran' \in [Tags -> Nat]
  BY <1>3 DEF Times, TypeOK
<1>7. spent' = [spent EXCEPT ![Top(m).agent] = @ + Top(m).paid]
  BY <1>3, <1>4 DEF f
<1>8. Pays(m)
  <2>1. CASE Top(m).paid = 0
    <3>1. spent \in [Agents -> Nat] /\ Top(m).agent \in Agents
      BY <1>2 DEF TypeOK, Frame
    <3>2. spent' = spent
      BY <1>7, <2>1, <3>1
    <3>. QED
      BY <3>2 DEF Pays
  <2>2. CASE Top(m).paid # 0
    <3>1. Len(stack[m]) = 1 /\ Top(m).platform = "heartbeat" /\ Top(m) = stack[m][1]
      BY <1>2, <2>2 DEF Top
    <3>2. Beating(m, Top(m).agent) /\ Len(stack'[m]) = 0 /\ Top(m).paid \in Costs
      BY <1>1, <1>2, <1>5, <3>1 DEF Beating, BeatsFor, Frame
    <3>. QED
      BY <1>7, <3>2 DEF Pays
  <2>. QED
    BY <2>1, <2>2
<1>. QED
  BY <1>1, <1>5, <1>6, <1>8 DEF Alone

LEMMA CutOffStep ==
  ASSUME TypeOK, StackInv, NEW m \in Messages, CutOff(m)
  PROVE  OnlyMoves(m) /\ Pays(m) /\ Alone(m)
<1>. DEFINE s == stack[m]
<1>1. s \in Seq(Frame) /\ Len(s) \in Nat /\ \A k \in 1..Len(s) : s[k] \in Frame
  BY DEF TypeOK
<1>2. PICK n \in 0..Len(s) - 1 :
        stack' = [stack EXCEPT ![m] =
                    [k \in 1..n |-> IF k < n THEN s[k]
                                    ELSE [s[n] EXCEPT !.turns = MaxTurns, !.answer = {}]]]
  BY DEF CutOff
<1>. DEFINE g == [s[n] EXCEPT !.turns = MaxTurns, !.answer = {}]
            u == [k \in 1..n |-> IF k < n THEN s[k] ELSE g]
<1>3. (\A k \in 1..Len(s) : Proper(s[k])) /\ (\A k \in 1..Len(s) - 1 : s[k].stage > 0)
  BY DEF StackInv, Answered
<1>8. \A k \in 1..Len(s) : s[k].paid # 0 => k = 1 /\ s[k].platform = "heartbeat"
  BY DEF StackInv, Reckoned
<1>9. Busy(m)
  BY <1>1, <1>2, EmptySeq DEF Busy
<1>4. n \in Nat /\ n < Len(s) /\ stack' = [stack EXCEPT ![m] = u]
  BY <1>1, <1>2
<1>. HIDE DEF s
<1>5. \A k \in 1..n : /\ u[k] \in Frame /\ Proper(u[k]) /\ u[k].stage > 0 /\ Same(u[k], s[k])
                      /\ u[k].paid # 0 => k = 1 /\ u[k].platform = "heartbeat"
  <2>. TAKE k \in 1..n
  <2>1. /\ s[k] \in Frame /\ Proper(s[k]) /\ s[k].stage > 0
        /\ s[k].paid # 0 => k = 1 /\ s[k].platform = "heartbeat"
    BY <1>1, <1>3, <1>4, <1>8
  <2>2. CASE k < n
    BY <2>1, <2>2 DEF Same
  <2>3. CASE k = n
    <3>1. /\ g \in Frame /\ g.stage = s[n].stage /\ Same(g, s[n])
          /\ g.todo = s[n].todo /\ g.doing = s[n].doing /\ g.paid = s[n].paid
      BY <2>1, <2>3, TurnAssumption DEF Frame, Same
    <3>2. Proper(g)
      BY <2>1, <2>3, <3>1 DEF Proper, Same
    <3>3. u[k] = g
      BY <2>3, <1>4
    <3>. HIDE DEF g, u
    <3>. QED
      BY <2>1, <2>3, <3>1, <3>2, <3>3 DEF Same
  <2>. QED
    BY <1>4, <2>2, <2>3
<1>6. u \in Seq(Frame) /\ Len(u) = n
  <2>1. \A k \in 1..n : (IF k < n THEN s[k] ELSE g) \in Frame
    BY <1>5
  <2>. HIDE DEF g
  <2>. QED
    BY <1>4, <2>1
<1>7. Moves(s, u)
  <2>. HIDE DEF u
  <2>. QED BY <1>1, <1>4, <1>5, <1>6 DEF Moves, Answered, Reckoned
<1>. QED
  BY <1>4, <1>7, <1>9, StackSet DEF s, CutOff, Pays, Alone

(***************************************************************************)
(* Every step is a move on one stack, or costs grow old.                   *)
(***************************************************************************)
LEMMA EveryStep ==
  ASSUME TypeOK, StackInv, Next
  PROVE  \/ /\ \E m \in Messages : OnlyMoves(m) /\ Pays(m) /\ Alone(m)
            /\ written' \subseteq Tags /\ ran' \in [Tags -> Nat]
         \/ Age
<1>1. CASE Age
  BY <1>1
<1>2. ASSUME NEW m \in Messages, Begin(m)
      PROVE  OnlyMoves(m) /\ Pays(m) /\ Alone(m) /\ written' = written /\ ran' = ran
  BY <1>2, BeginStep DEF Begin
<1>3. ASSUME NEW m \in Messages, Reply(m)
      PROVE  OnlyMoves(m) /\ Pays(m) /\ Alone(m) /\ written' \subseteq Tags /\ ran' = ran
  BY <1>3, ReplyStep DEF Reply
<1>4. ASSUME NEW m \in Messages, ReplyFails(m)
      PROVE  OnlyMoves(m) /\ Pays(m) /\ Alone(m) /\ written' = written /\ ran' = ran
  BY <1>4, ReplyFailsStep DEF ReplyFails
<1>5. ASSUME NEW m \in Messages, AnotherTurn(m)
      PROVE  OnlyMoves(m) /\ Pays(m) /\ Alone(m) /\ written' = written /\ ran' = ran
  BY <1>5, AnotherTurnStep DEF AnotherTurn
<1>6. ASSUME NEW m \in Messages, NextTag(m)
      PROVE  OnlyMoves(m) /\ Pays(m) /\ Alone(m) /\ written' = written /\ ran' \in [Tags -> Nat]
  BY <1>6, NextTagStep DEF NextTag
<1>7. ASSUME NEW m \in Messages, Finish(m)
      PROVE  OnlyMoves(m) /\ Pays(m) /\ Alone(m) /\ written' = written /\ ran' \in [Tags -> Nat]
  BY <1>7, FinishStep DEF Finish
<1>8. ASSUME NEW m \in Messages, CutOff(m)
      PROVE  OnlyMoves(m) /\ Pays(m) /\ Alone(m) /\ written' = written /\ ran' = ran
  BY <1>8, CutOffStep DEF CutOff
<1>. QED
  BY <1>1, <1>2, <1>3, <1>4, <1>5, <1>6, <1>7, <1>8 DEF Next, TypeOK

LEMMA PaysType ==
  ASSUME TypeOK, StackInv, NEW m \in Messages, Pays(m)
  PROVE  /\ spent' \in [Agents -> Nat]
         /\ \A a \in Agents :
              \/ spent'[a] = spent[a]
              \/ spent'[a] <= spent[a] + MaxCost /\ Pending(m, a)
              \/ spent'[a] <= spent[a] + MaxCost /\ Beating(m, a) /\ Len(stack'[m]) = 0
<1>1. spent \in [Agents -> Nat] /\ MaxCost \in Nat
  BY TurnAssumption DEF TypeOK
<1>2. CASE spent' = spent
  BY <1>1, <1>2
<1>3. CASE /\ Pending(m, Top(m).agent) \/ (Beating(m, Top(m).agent) /\ Len(stack'[m]) = 0)
           /\ \E c \in Costs : spent' = [spent EXCEPT ![Top(m).agent] = @ + c]
  <2>1. PICK c \in Costs : spent' = [spent EXCEPT ![Top(m).agent] = @ + c]
    BY <1>3
  <2>2. Top(m).agent \in Agents
    <3>1. Busy(m)
      BY <1>3 DEF Pending, Beating, BeatsFor
    <3>. QED
      BY <3>1, TopProper DEF Frame
  <2>3. c \in Nat /\ c <= MaxCost
    BY <1>1 DEF Costs
  <2>4. \A a \in Agents \ {Top(m).agent} : spent'[a] = spent[a]
    BY <1>1, <2>1
  <2>5. spent'[Top(m).agent] <= spent[Top(m).agent] + MaxCost /\ spent' \in [Agents -> Nat]
    BY <1>1, <2>1, <2>2, <2>3
  <2>. QED
    BY <1>3, <2>4, <2>5
<1>. QED
  BY <1>2, <1>3 DEF Pays

LEMMA TypeStep ==
  ASSUME TypeOK, StackInv, [Next]_vars
  PROVE  TypeOK' /\ StackInv'
<1>1. CASE vars' = vars
  <2>1. stack' = stack /\ written' = written /\ ran' = ran /\ spent' = spent
    BY <1>1 DEF vars
  <2>. QED
    BY <2>1 DEF TypeOK, StackInv
<1>2. CASE Age
  <2>1. spent' \in [Agents -> Nat]
    BY <1>2 DEF Age, TypeOK
  <2>. QED
    BY <1>2, <2>1 DEF Age, TypeOK, StackInv
<1>3. CASE /\ \E m \in Messages : OnlyMoves(m) /\ Pays(m) /\ Alone(m)
           /\ written' \subseteq Tags /\ ran' \in [Tags -> Nat]
  <2>1. PICK m \in Messages : OnlyMoves(m) /\ Pays(m)
    BY <1>3
  <2>2. spent' \in [Agents -> Nat]
    BY <2>1, PaysType
  <2>3. TypeOK'
    BY <1>3, <2>1, <2>2 DEF TypeOK, OnlyMoves
  <2>4. StackInv'
    BY <2>1 DEF StackInv, OnlyMoves, Moves
  <2>. QED
    BY <2>3, <2>4
<1>. QED
  BY <1>1, <1>2, <1>3, EveryStep

LEMMA InitType == Init => TypeOK /\ StackInv
<1>. SUFFICES ASSUME Init PROVE TypeOK /\ StackInv
  OBVIOUS
<1>1. TypeOK
  BY DEF Init, TypeOK
<1>2. \A m \in Messages : stack[m] = <<>> /\ Len(stack[m]) = 0
  BY DEF Init
<1>. QED
  BY <1>1, <1>2 DEF StackInv, Answered, Reckoned

\* Stacks, tags and costs have their types, whatever the turns do to each other.
THEOREM TurnsTypeCorrect == Spec => []TypeOK
<1>1. Spec => [](TypeOK /\ StackInv)
  BY InitType, TypeStep, PTL DEF Spec
<1>. QED
  BY <1>1, PTL

(***************************************************************************)
(* Councils.  On a sheltered platform, everything above is sheltered and   *)
(* no council, until a loophole breaks the chain.                          *)
(***************************************************************************)
Unbroken(s, i, j) == \A k \in i..j : s[k].platform \notin Loopholes

ShelterInv ==
  \A m \in Messages : \A i, j \in 1..Len(stack[m]) :
    i < j /\ stack[m][i].platform \in Sheltered /\ Unbroken(stack[m], i, j)
      => stack[m][j].platform \in {"delegation", "discussion"}

LEMMA ShelterMove ==
  ASSUME TypeOK, ShelterInv, NEW m \in Messages, OnlyMoves(m),
         NEW i \in 1..Len(stack'[m]), NEW j \in 1..Len(stack'[m]), i < j,
         stack'[m][i].platform \in Sheltered, Unbroken(stack'[m], i, j)
  PROVE  stack'[m][j].platform \in {"delegation", "discussion"}
<1>. DEFINE s == stack[m]
            u == stack'[m]
<1>1. Len(s) \in Nat /\ Len(u) \in Nat /\ Moves(s, u)
  BY DEF TypeOK, OnlyMoves
<1>2. \A p, q \in 1..Len(s) :
        p < q /\ s[p].platform \in Sheltered /\ Unbroken(s, p, q)
          => s[q].platform \in {"delegation", "discussion"}
  BY DEF ShelterInv
<1>. HIDE DEF s, u
<1>3. \A k \in 1..Len(u) : k <= Len(s) => u[k].platform = s[k].platform
  BY <1>1 DEF Moves, Same
<1>4. i \in 1..Len(u) /\ j \in 1..Len(u) /\ u[i].platform \in Sheltered
      /\ \A k \in i..j : u[k].platform \notin Loopholes
  BY DEF Unbroken, u
<1>5. CASE j <= Len(s)
  <2>1. Unbroken(s, i, j)
    BY <1>1, <1>3, <1>4, <1>5 DEF Unbroken
  <2>. QED
    BY <1>1, <1>2, <1>3, <1>4, <1>5, <2>1 DEF u
<1>6. CASE j > Len(s)
  <2>1. j = Len(u) /\ Len(u) = Len(s) + 1 /\ Len(s) > 0 /\ i \in 1..Len(s)
    BY <1>1, <1>4, <1>6 DEF Moves
  <2>2. MayCause(s[Len(s)].platform, u[j].platform)
    BY <1>1, <2>1, EmptySeq DEF Moves
  <2>3. s[Len(s)].platform \in Sheltered
    <3>1. CASE i = Len(s)
      BY <1>3, <1>4, <2>1, <3>1
    <3>2. CASE i < Len(s)
      <4>1. Unbroken(s, i, Len(s))
        BY <1>1, <1>3, <1>4, <2>1 DEF Unbroken
      <4>2. s[i].platform \in Sheltered
        BY <1>3, <1>4, <2>1
      <4>3. Len(s) \in 1..Len(s)
        BY <1>1, <2>1
      <4>4. s[Len(s)].platform \in {"delegation", "discussion"}
        BY <1>2, <2>1, <3>2, <4>1, <4>2, <4>3
      <4>. QED
        BY <4>4 DEF Sheltered
    <3>. QED
      BY <2>1, <3>1, <3>2
  <2>4. u[j].platform \notin Loopholes
    BY <1>1, <1>4
  <2>. QED
    BY <2>2, <2>3, <2>4 DEF MayCause, u
<1>. QED
  BY <1>1, <1>4, <1>5, <1>6

LEMMA ShelterStep ==
  ASSUME TypeOK, StackInv, ShelterInv, [Next]_vars
  PROVE  ShelterInv'
<1>1. CASE stack' = stack
  BY <1>1 DEF ShelterInv, Unbroken
<1>2. ASSUME NEW m \in Messages, OnlyMoves(m)
      PROVE  ShelterInv'
  <2>. SUFFICES ASSUME NEW n \in Messages, NEW i \in 1..Len(stack'[n]),
                       NEW j \in 1..Len(stack'[n]), i < j,
                       stack'[n][i].platform \in Sheltered, Unbroken(stack'[n], i, j)
                PROVE  stack'[n][j].platform \in {"delegation", "discussion"}
    BY DEF ShelterInv, Unbroken
  <2>1. CASE n = m
    BY <1>2, <2>1, ShelterMove
  <2>2. CASE n # m
    <3>1. stack'[n] = stack[n]
      BY <1>2, <2>2 DEF OnlyMoves
    <3>. QED
      BY <3>1 DEF ShelterInv
  <2>. QED
    BY <2>1, <2>2
<1>. QED
  BY <1>1, <1>2, EveryStep DEF vars, Age

\* For any agents, tags and depth of recursion, no council is convened above a
\* council, a discussion or a delegation, except through a loophole.
THEOREM CouncilsNeverNest == Spec => []CouncilsDoNotNest
<1>1. Init => ShelterInv
  BY DEF Init, ShelterInv
<1>2. ShelterInv => CouncilsDoNotNest
  BY DEF ShelterInv, CouncilsDoNotNest, Above, Unbroken, Sheltered
<1>3. Spec => [](TypeOK /\ StackInv /\ ShelterInv)
  BY <1>1, InitType, TypeStep, ShelterStep, PTL DEF Spec
<1>. QED
  BY <1>2, <1>3, PTL

(***************************************************************************)
(* Money.  A message that waits has had its agent's budget looked at, so   *)
(* what it may still cost is reserved out of the overdraft, and so is what *)
(* the agent's one heartbeat will cost again when it is over.              *)
(***************************************************************************)
BeatInv ==
  /\ \A a \in Agents, m, n \in Messages : BeatsFor(m, a) /\ BeatsFor(n, a) => m = n
  /\ \A m \in Messages : Len(stack[m]) > 0 => stack[m][1].platform \in Entrances

Waiting(a) == {m \in Messages : Pending(m, a)}
Again(a) == IF \E m \in Messages : Beating(m, a) THEN MaxCost ELSE 0
AgainAtMost == IF "heartbeat" \in Entrances THEN MaxCost ELSE 0

BudgetInv ==
  DailyBudget > 0 /\ "stream" \notin Entrances =>
    \A a \in Agents :
      spent[a] + MaxCost * Cardinality(Waiting(a)) + Again(a)
        <= DailyBudget - 1 + MaxCost * Cardinality(Messages) + AgainAtMost

\* What happens to the turn that came from outside.
LEMMA BottomMoves ==
  ASSUME TypeOK, NEW m \in Messages, OnlyMoves(m), Len(stack'[m]) > 0
  PROVE  \/ Len(stack[m]) > 0 /\ Same(stack'[m][1], stack[m][1])
         \/ /\ Len(stack[m]) = 0 /\ ~Busy(m) /\ Len(stack'[m]) = 1
            /\ stack'[m][1].platform \in Entrances /\ stack'[m][1].stage = 0
<1>. DEFINE s == stack[m]
            u == stack'[m]
<1>1. Len(s) \in Nat /\ Len(u) \in Nat /\ Moves(s, u) /\ s \in Seq(Frame)
  BY DEF TypeOK, OnlyMoves
<1>2. CASE Len(s) > 0
  <2>. HIDE DEF s, u
  <2>1. 1 \in 1..Len(u) /\ 1 <= Len(s)
    BY <1>1, <1>2 DEF u
  <2>. QED
    BY <1>1, <1>2, <2>1 DEF Moves, s, u
<1>3. CASE Len(s) = 0
  <2>1. s = <<>>
    BY <1>1, <1>3, EmptySeq
  <2>5. Len(u) > 0
    OBVIOUS
  <2>. HIDE DEF s, u
  <2>2. Len(u) = 1
    <3>1. Len(u) <= Len(s) + 1
      BY <1>1 DEF Moves
    <3>2. \A i, j \in Nat : i = 0 /\ j > 0 /\ j <= i + 1 => j = 1
      OBVIOUS
    <3>. QED
      BY ONLY Len(s) \in Nat, Len(u) \in Nat, <1>3, <2>5, <3>1, <3>2
  <2>3. u[1] = Turn(u[1].agent, u[1].platform) /\ u[1].platform \in Entrances
    BY <1>1, <1>3, <2>1, <2>2 DEF Moves
  <2>4. u[1].stage = 0
    BY <2>3 DEF Turn, NewTurn
  <2>. QED
    BY <1>3, <2>1, <2>2, <2>3, <2>4 DEF Busy, s, u
<1>. QED
  BY <1>1, <1>2, <1>3

LEMMA BeatMove ==
  ASSUME TypeOK, StackInv, BeatInv, NEW m \in Messages, OnlyMoves(m), Alone(m)
  PROVE  BeatInv'
<1>1. stack' \in [Messages -> Seq(Frame)] /\ Len(stack[m]) \in Nat
  BY DEF OnlyMoves, TypeOK
<1>2. \A k \in Messages \ {m}, a \in Agents : BeatsFor(k, a)' <=> BeatsFor(k, a)
  BY DEF OnlyMoves, BeatsFor, Busy
<1>3. ASSUME NEW a \in Agents, BeatsFor(m, a)'
      PROVE  BeatsFor(m, a) \/ \A n \in Messages : ~BeatsFor(n, a)
  <2>1. CASE Busy(m)
    <3>1. Len(stack'[m]) > 0 /\ Len(stack[m]) > 0
      BY <1>1, <1>3, <2>1, EmptySeq DEF BeatsFor, Busy, TypeOK
    <3>. QED
      BY <1>3, <2>1, <3>1, BottomMoves DEF BeatsFor, Same
  <2>2. CASE ~Busy(m)
    BY <1>3, <2>2 DEF Alone
  <2>. QED
    BY <2>1, <2>2
<1>4. ASSUME NEW a \in Agents, NEW k \in Messages, NEW n \in Messages,
             BeatsFor(k, a)', BeatsFor(n, a)'
      PROVE  k = n
  BY <1>2, <1>3, <1>4 DEF BeatInv
<1>5. ASSUME NEW k \in Messages, Len(stack'[k]) > 0
      PROVE  stack'[k][1].platform \in Entrances
  <2>1. CASE k = m
    BY <1>5, <2>1, BottomMoves DEF BeatInv, Same
  <2>2. CASE k # m
    BY <1>5, <2>2 DEF BeatInv, OnlyMoves
  <2>. QED
    BY <2>1, <2>2
<1>. QED
  BY <1>4, <1>5 DEF BeatInv

LEMMA BeatStep ==
  ASSUME TypeOK, StackInv, BeatInv, [Next]_vars
  PROVE  BeatInv'
<1>1. CASE stack' = stack
  BY <1>1 DEF BeatInv, BeatsFor, Busy
<1>. QED
  BY <1>1, BeatMove, EveryStep DEF vars, Age

LEMMA TimesMonotone ==
  ASSUME NEW c \in Nat, NEW x \in Nat, NEW y \in Nat, x <= y
  PROVE  c * x \in Nat /\ c * y \in Nat /\ c * x <= c * y
<1>1. PICK d \in Nat : y = x + d
  <2>1. y - x \in Nat /\ y = x + (y - x)
    OBVIOUS
  <2>. QED
    BY <2>1
<1>2. c * (x + d) = c * x + c * d /\ c * x \in Nat /\ c * d \in Nat
  OBVIOUS
<1>. QED
  BY <1>1, <1>2

LEMMA WaitingFinite ==
  ASSUME NEW S \in SUBSET Messages
  PROVE  /\ IsFiniteSet(S) /\ Cardinality(S) \in Nat
         /\ Cardinality(S) <= Cardinality(Messages) /\ Cardinality(Messages) \in Nat
<1>1. IsFiniteSet(Messages)
  BY TurnAssumption
<1>. QED
  BY <1>1, FS_Subset, FS_CardinalityType

\* A turn that begins to wait was asked for within the budget.
LEMMA AskedWithinBudget ==
  ASSUME TypeOK, "stream" \notin Entrances, DailyBudget > 0, NEW m \in Messages,
         OnlyMoves(m), Pays(m), NEW a \in Agents, Pending(m, a)'
  PROVE  spent' = spent /\ spent[a] < DailyBudget
<1>. DEFINE s == stack[m]
            u == stack'[m]
<1>1. Len(s) \in Nat /\ Len(u) \in Nat /\ Moves(s, u)
  BY DEF TypeOK, OnlyMoves
<1>2. /\ u # <<>> /\ u[Len(u)].stage = 0 /\ ~u[Len(u)].refused /\ u[Len(u)].agent = a
  BY DEF Pending, Busy, Top
<1>3. Len(u) = Len(s) + 1
  <2>1. Len(u) > 0
    BY <1>1, <1>2, EmptySeq DEF Moves
  <2>2. Len(u) \notin 1..Len(s)
    BY <1>1, <1>2 DEF Moves
  <2>. QED
    BY <1>1, <2>1, <2>2 DEF Moves
<1>4. u[Len(u)] \in Frame
  BY <1>1, <1>3 DEF Moves
<1>5. u[Len(u)] = Turn(a, u[Len(u)].platform) /\ u[Len(u)].platform # "stream"
  BY <1>1, <1>2, <1>3 DEF Moves, MayCause
<1>6. ~OverBudget(a)
  <2>1. u[Len(u)].platform \in Platforms
    BY <1>4 DEF Frame
  <2>2. Turn(a, u[Len(u)].platform).refused =
          (u[Len(u)].platform # "stream" /\ OverBudget(a))
    BY <2>1, TurnType
  <2>. QED
    BY <1>2, <1>5, <2>2
<1>7. spent' = spent
  BY <1>1, <1>3 DEF Pays
<1>8. spent[a] \in Nat /\ DailyBudget \in Nat
  BY TurnAssumption DEF TypeOK
<1>. QED
  BY <1>6, <1>7, <1>8 DEF OverBudget

\* What is recorded again is recorded again once, and only of a heartbeat that
\* begins to wait is there more to record again.
LEMMA AgainMove ==
  ASSUME TypeOK, StackInv, BeatInv, NEW m \in Messages, OnlyMoves(m), Alone(m), NEW a \in Agents
  PROVE  /\ Again(a) \in {0, MaxCost} /\ Again(a)' \in {0, MaxCost}
         /\ Again(a)' # 0 => AgainAtMost = MaxCost
         /\ Again(a)' = MaxCost => MaxCost = 0 \/ Again(a) = MaxCost \/ Pending(m, a)'
         /\ Beating(m, a) /\ Len(stack'[m]) = 0 => Again(a) = MaxCost /\ Again(a)' = 0
<1>1. BeatInv' /\ stack' \in [Messages -> Seq(Frame)]
  <2>1. stack' \in [Messages -> Seq(Frame)] /\ Len(stack[m]) \in Nat
    BY DEF OnlyMoves, TypeOK
  <2>. QED
    BY <2>1, BeatMove
<1>2. ASSUME NEW n \in Messages, Beating(n, a)'
      PROVE  AgainAtMost = MaxCost /\ Len(stack'[n]) > 0
  <2>1. Len(stack'[n]) > 0 /\ stack'[n][1].platform = "heartbeat"
    BY <1>1, <1>2, EmptySeq DEF Beating, BeatsFor, Busy
  <2>. QED
    BY <1>1, <2>1 DEF BeatInv, AgainAtMost
<1>3. ASSUME NEW n \in Messages, Beating(n, a)'
      PROVE  Beating(n, a) \/ Pending(m, a)'
  <2>1. CASE n # m
    BY <1>3, <2>1 DEF OnlyMoves, Beating, BeatsFor, Busy
  <2>2. CASE n = m /\ Len(stack[m]) > 0
    <3>1. Same(stack'[m][1], stack[m][1]) /\ Busy(m)
      BY <1>2, <1>3, <2>2, BottomMoves DEF Busy
    <3>. QED
      BY <1>3, <2>2, <3>1 DEF Beating, BeatsFor, Same
  <2>3. CASE n = m /\ ~(Len(stack[m]) > 0)
    <3>1. Len(stack'[m]) = 1 /\ stack'[m][1].stage = 0
      BY <1>2, <1>3, <2>3, BottomMoves
    <3>. QED
      BY <1>3, <2>3, <3>1 DEF Beating, BeatsFor, Pending, Top, Busy
  <2>. QED
    BY <2>1, <2>2, <2>3
<1>4. ASSUME Beating(m, a), Len(stack'[m]) = 0
      PROVE  \A n \in Messages : ~Beating(n, a)'
  <2>. SUFFICES ASSUME NEW n \in Messages, Beating(n, a)' PROVE FALSE
    OBVIOUS
  <2>1. n # m
    BY <1>2, <1>4
  <2>2. Beating(n, a)
    BY <2>1 DEF OnlyMoves, Beating, BeatsFor, Busy
  <2>. QED
    BY <1>4, <2>1, <2>2 DEF BeatInv, Beating
<1>. QED
  BY <1>2, <1>3, <1>4 DEF Again

LEMMA BudgetMove ==
  ASSUME TypeOK, StackInv, BeatInv, BudgetInv, "stream" \notin Entrances, DailyBudget > 0,
         NEW m \in Messages, OnlyMoves(m), Pays(m), Alone(m), NEW a \in Agents
  PROVE  spent'[a] + MaxCost * Cardinality(Waiting(a)') + Again(a)'
           <= DailyBudget - 1 + MaxCost * Cardinality(Messages) + AgainAtMost
<1>. DEFINE W == Waiting(a)
            X == Waiting(a)'
            N == Cardinality(Messages)
            b == Again(a)
            c == Again(a)'
            w == MaxCost * Cardinality(W)
            x == MaxCost * Cardinality(X)
            B == MaxCost * N
<1>1. /\ spent[a] \in Nat /\ spent'[a] \in Nat /\ MaxCost \in Nat /\ DailyBudget \in Nat
      /\ \/ spent'[a] = spent[a]
         \/ spent'[a] <= spent[a] + MaxCost /\ Pending(m, a)
         \/ spent'[a] <= spent[a] + MaxCost /\ Beating(m, a) /\ Len(stack'[m]) = 0
  BY TurnAssumption, PaysType DEF TypeOK
<1>2. /\ W \in SUBSET Messages /\ X \in SUBSET Messages
      /\ \A n \in Messages \ {m} : n \in X <=> n \in W
      /\ m \in W <=> Pending(m, a)
      /\ m \in X <=> Pending(m, a)'
  BY DEF Waiting, Pending, Busy, Top, OnlyMoves
<1>3. spent[a] + w + b <= DailyBudget - 1 + B + AgainAtMost
  BY DEF BudgetInv
<1>4. /\ b \in {0, MaxCost} /\ c \in {0, MaxCost} /\ AgainAtMost \in {0, MaxCost}
      /\ c # 0 => AgainAtMost = MaxCost
      /\ c = MaxCost => MaxCost = 0 \/ b = MaxCost \/ Pending(m, a)'
      /\ Beating(m, a) /\ Len(stack'[m]) = 0 => b = MaxCost /\ c = 0
  BY AgainMove DEF AgainAtMost
<1>. HIDE DEF W, X, b, c
<1>5. /\ IsFiniteSet(W) /\ IsFiniteSet(X) /\ Cardinality(W) \in Nat /\ Cardinality(X) \in Nat
      /\ Cardinality(X) <= N /\ N \in Nat
  BY <1>2, WaitingFinite
<1>. HIDE DEF N
<1>6. w \in Nat /\ x \in Nat /\ B \in Nat /\ x <= B
  BY <1>1, <1>5, TimesMonotone
<1>7. CASE m \in X
  <2>1. spent'[a] <= DailyBudget - 1
    <3>1. spent' = spent /\ spent[a] < DailyBudget
      BY <1>2, <1>7, AskedWithinBudget
    <3>. QED
      BY <1>1, <3>1
  <2>2. c <= AgainAtMost
    BY <1>1, <1>4
  <2>. HIDE DEF x, B
  <2>3. spent'[a] + x + c <= DailyBudget - 1 + B + AgainAtMost
    BY <1>1, <1>4, <1>6, <2>1, <2>2
  <2>. QED
    BY <2>3 DEF x, B, X, N, c
<1>8. CASE m \notin X
  <2>1. c <= b
    BY <1>1, <1>2, <1>4, <1>8
  <2>2. x <= w
    <3>1. X \subseteq W
      BY <1>2, <1>8
    <3>2. Cardinality(X) <= Cardinality(W)
      BY <1>5, <3>1, FS_Subset
    <3>. QED
      BY <1>1, <1>5, <3>2, TimesMonotone
  <2>3. Pending(m, a) => x + MaxCost <= w
    <3>. SUFFICES ASSUME Pending(m, a) PROVE x + MaxCost <= w
      OBVIOUS
    <3>1. X \subseteq W \ {m} /\ IsFiniteSet(W \ {m})
          /\ Cardinality(W \ {m}) = Cardinality(W) - 1
      BY <1>2, <1>5, <1>8, FS_RemoveElement
    <3>2. Cardinality(X) + 1 <= Cardinality(W)
      BY <1>5, <3>1, FS_Subset
    <3>3. MaxCost * (Cardinality(X) + 1) <= w
      BY <1>1, <1>5, <3>2, TimesMonotone
    <3>4. MaxCost * (Cardinality(X) + 1) = x + MaxCost
      BY <1>1, <1>5
    <3>. QED
      BY <3>3, <3>4
  <2>4. spent'[a] + x + c <= spent[a] + w + b
    <3>. HIDE DEF x, w
    <3>1. CASE spent'[a] = spent[a]
      BY <1>1, <1>4, <1>6, <2>1, <2>2, <3>1
    <3>2. CASE spent'[a] <= spent[a] + MaxCost /\ Pending(m, a)
      BY <1>1, <1>4, <1>6, <2>1, <2>3, <3>2
    <3>3. CASE spent'[a] <= spent[a] + MaxCost /\ Beating(m, a) /\ Len(stack'[m]) = 0
      BY <1>1, <1>4, <1>6, <2>2, <3>3
    <3>. QED
      BY <1>1, <3>1, <3>2, <3>3
  <2>. HIDE DEF x, w, B
  <2>5. spent'[a] + x + c <= DailyBudget - 1 + B + AgainAtMost
    BY <1>1, <1>3, <1>4, <1>6, <2>4
  <2>. QED
    BY <2>5 DEF x, B, X, N, c
<1>. QED
  BY <1>7, <1>8

LEMMA BudgetStep ==
  ASSUME TypeOK, StackInv, BeatInv, BudgetInv, [Next]_vars
  PROVE  BudgetInv'
<1>. SUFFICES ASSUME DailyBudget > 0, "stream" \notin Entrances, NEW a \in Agents
              PROVE  spent'[a] + MaxCost * Cardinality(Waiting(a)') + Again(a)'
                       <= DailyBudget - 1 + MaxCost * Cardinality(Messages) + AgainAtMost
  BY DEF BudgetInv
<1>1. ASSUME NEW m \in Messages, OnlyMoves(m), Pays(m), Alone(m)
      PROVE  spent'[a] + MaxCost * Cardinality(Waiting(a)') + Again(a)'
               <= DailyBudget - 1 + MaxCost * Cardinality(Messages) + AgainAtMost
  BY <1>1, BudgetMove
<1>2. CASE stack' = stack /\ spent' \in [Agents -> Nat] /\ spent'[a] <= spent[a]
  <2>. DEFINE w == MaxCost * Cardinality(Waiting(a))
              B == MaxCost * Cardinality(Messages)
  <2>1. Waiting(a)' = Waiting(a) /\ Again(a)' = Again(a)
    BY <1>2 DEF Waiting, Again, Beating, BeatsFor, Pending, Busy, Top
  <2>2. /\ Cardinality(Waiting(a)) \in Nat /\ Cardinality(Messages) \in Nat
        /\ MaxCost \in Nat /\ DailyBudget \in Nat
    BY WaitingFinite, TurnAssumption DEF Waiting
  <2>3. w \in Nat /\ B \in Nat /\ Again(a) \in Nat /\ AgainAtMost \in Nat
    BY <2>2 DEF Again, AgainAtMost
  <2>4. spent[a] + w + Again(a) <= DailyBudget - 1 + B + AgainAtMost
    BY DEF BudgetInv
  <2>5. spent[a] \in Nat /\ spent'[a] \in Nat
    BY <1>2 DEF TypeOK
  <2>. HIDE DEF w, B
  <2>6. spent'[a] + w + Again(a) <= DailyBudget - 1 + B + AgainAtMost
    BY <1>2, <2>2, <2>3, <2>4, <2>5
  <2>. QED
    BY <2>1, <2>6 DEF w, B
<1>3. CASE Age
  <2>1. stack' = stack /\ spent' \in [Agents -> Nat] /\ spent'[a] <= spent[a]
    BY <1>3 DEF Age, TypeOK
  <2>. QED
    BY <1>2, <2>1
<1>4. CASE vars' = vars
  <2>1. stack' = stack /\ spent' = spent
    BY <1>4 DEF vars
  <2>2. spent \in [Agents -> Nat] /\ spent[a] <= spent[a]
    BY DEF TypeOK
  <2>. QED
    BY <1>2, <2>1, <2>2
<1>. QED
  BY <1>1, <1>3, <1>4, EveryStep

\* For any number of messages and agents, any tags and any depth of recursion,
\* an agent's budget is overdrawn by at most one turn of each message and by one
\* cost that is recorded twice, that of its heartbeat (scheduler/engine.py:462).
THEOREM BudgetOverdrawnOnce == Spec => []DailyBudgetHolds
<1>0. Init => BeatInv
  BY DEF Init, BeatInv, BeatsFor, Busy
<1>1. Init => BudgetInv
  <2>. SUFFICES ASSUME Init, DailyBudget > 0, NEW a \in Agents
                PROVE  spent[a] + MaxCost * Cardinality(Waiting(a)) + Again(a)
                         <= DailyBudget - 1 + MaxCost * Cardinality(Messages) + AgainAtMost
    BY DEF BudgetInv
  <2>1. Waiting(a) = {} /\ spent[a] = 0 /\ Again(a) = 0
    BY DEF Init, Waiting, Pending, Again, Beating, BeatsFor, Busy
  <2>2. /\ Cardinality({}) = 0 /\ Cardinality(Messages) \in Nat /\ MaxCost \in Nat
        /\ DailyBudget \in Nat
    BY FS_EmptySet, WaitingFinite, TurnAssumption
  <2>3. MaxCost * 0 = 0 /\ MaxCost * Cardinality(Messages) \in Nat /\ AgainAtMost \in Nat
    BY <2>2 DEF AgainAtMost
  <2>. QED
    BY <2>1, <2>2, <2>3
<1>2. TypeOK /\ BudgetInv => DailyBudgetHolds
  <2>. SUFFICES ASSUME TypeOK, BudgetInv, DailyBudget > 0, "stream" \notin Entrances,
                       NEW a \in Agents
                PROVE  spent[a] <= DailyBudget - 1 + UnderWay
    BY DEF DailyBudgetHolds
  <2>. DEFINE w == MaxCost * Cardinality(Waiting(a))
              B == MaxCost * Cardinality(Messages)
  <2>1. /\ Cardinality(Waiting(a)) \in Nat /\ Cardinality(Messages) \in Nat
        /\ MaxCost \in Nat /\ DailyBudget \in Nat /\ spent[a] \in Nat
    BY WaitingFinite, TurnAssumption DEF Waiting, TypeOK
  <2>2. w \in Nat /\ B \in Nat /\ Again(a) \in Nat /\ AgainAtMost \in Nat
    BY <2>1 DEF Again, AgainAtMost
  <2>3. UnderWay = B + AgainAtMost
    <3>1. MaxCost * (Cardinality(Messages) + 1) = B + MaxCost /\ MaxCost * 0 = 0
          /\ MaxCost * (Cardinality(Messages) + 0) = B
      BY <2>1
    <3>. HIDE DEF B
    <3>. QED
      BY <2>1, <2>2, <3>1 DEF UnderWay, AgainAtMost
  <2>4. spent[a] + w + Again(a) <= DailyBudget - 1 + B + AgainAtMost
    BY DEF BudgetInv
  <2>. HIDE DEF w, B
  <2>. QED
    BY <2>1, <2>2, <2>3, <2>4
<1>3. Spec => [](TypeOK /\ StackInv /\ BeatInv /\ BudgetInv)
  BY <1>0, <1>1, InitType, TypeStep, BeatStep, BudgetStep, PTL DEF Spec
<1>. QED
  BY <1>2, <1>3, PTL
-----------------------------------------------------------------------------
(***************************************************************************)
(* Delegations.  A tag is in the text of its own turn and, once that turn  *)
(* is over, in the texts of all the turns around it; what keeps it from    *)
(* being executed again is that only a fresh answer is searched for        *)
(* delegations.  So the invariant follows a tag from the model's answer to *)
(* the one list it waits in, and from there to its execution.              *)
(***************************************************************************)
\* The k-th turn of m still has to execute t.
Waits(t, m, k) == k \in 1..Len(stack[m]) /\ t \in stack[m][k].todo

OnceInv ==
  \A t \in Tags : KindOf[t] = "delegate" =>
    /\ ran[t] <= 1
    /\ t \notin written => ran[t] = 0
    /\ \A m \in Messages, k \in Nat : Waits(t, m, k) => t \in written /\ ran[t] = 0
    /\ \A m, n \in Messages, k, j \in Nat :
         Waits(t, m, k) /\ Waits(t, n, j) => m = n /\ k = j

\* A step of m writes the tags W, which wait at the top of its stack, and executes
\* the delegations X, which waited there; no other list gains a delegation.
Consumes(m, W, X) ==
  /\ W \subseteq Tags \ written /\ written' = written \cup W
  /\ \A t \in X : Waits(t, m, Len(stack[m]))
  /\ \A t \in Tags : KindOf[t] = "delegate" =>
       ran'[t] = IF t \in X THEN ran[t] + 1 ELSE ran[t]
  /\ \A n \in Messages \ {m} : stack'[n] = stack[n]
  /\ \A t \in Tags, k \in Nat : KindOf[t] = "delegate" /\ Waits(t, m, k)' =>
       \/ Waits(t, m, k) /\ (k = Len(stack[m]) => t \notin X)
       \/ t \in W /\ k = Len(stack[m])

LEMMA ConsumesOnce ==
  ASSUME TypeOK, OnceInv, NEW m \in Messages, NEW W, NEW X, Consumes(m, W, X)
  PROVE  OnceInv'
<1>1. SUFFICES ASSUME NEW t \in Tags, KindOf[t] = "delegate"
               PROVE  /\ ran'[t] <= 1
                      /\ t \notin written' => ran'[t] = 0
                      /\ \A n \in Messages, k \in Nat :
                           Waits(t, n, k)' => t \in written' /\ ran'[t] = 0
                      /\ \A n, p \in Messages, k, j \in Nat :
                           Waits(t, n, k)' /\ Waits(t, p, j)' => n = p /\ k = j
  BY DEF OnceInv
<1>2. /\ ran[t] <= 1 /\ ran[t] \in Nat
      /\ t \notin written => ran[t] = 0
      /\ \A n \in Messages, k \in Nat : Waits(t, n, k) => t \in written /\ ran[t] = 0
      /\ \A n, p \in Messages, k, j \in Nat :
           Waits(t, n, k) /\ Waits(t, p, j) => n = p /\ k = j
  BY <1>1 DEF OnceInv, TypeOK
<1>3. /\ t \in W => t \notin written /\ t \in written'
      /\ t \in written => t \in written'
      /\ t \in X => Waits(t, m, Len(stack[m]))
      /\ ran'[t] = IF t \in X THEN ran[t] + 1 ELSE ran[t]
      /\ \A n \in Messages \ {m}, k \in Nat : Waits(t, n, k)' <=> Waits(t, n, k)
      /\ \A k \in Nat : Waits(t, m, k)' =>
           \/ Waits(t, m, k) /\ (k = Len(stack[m]) => t \notin X)
           \/ t \in W /\ k = Len(stack[m])
  BY <1>1 DEF Consumes, Waits
<1>4. Len(stack[m]) \in Nat
  BY DEF TypeOK
<1>5. t \in X => ran[t] = 0 /\ t \in written
  BY <1>2, <1>3, <1>4
<1>6. ASSUME NEW n \in Messages, NEW k \in Nat, Waits(t, n, k)'
      PROVE  /\ t \in written' /\ ran'[t] = 0 /\ t \notin X
             /\ Waits(t, n, k) \/ (t \in W /\ n = m /\ k = Len(stack[m]))
  <2>1. CASE n = m
    <3>1. \/ Waits(t, m, k) /\ (k = Len(stack[m]) => t \notin X)
          \/ t \in W /\ k = Len(stack[m])
      BY <1>3, <1>6, <2>1
    <3>2. t \notin X
      BY <1>2, <1>3, <1>4, <1>5, <3>1
    <3>. QED
      BY <1>2, <1>3, <2>1, <3>1, <3>2
  <2>2. CASE n # m
    <3>1. Waits(t, n, k)
      BY <1>3, <1>6, <2>2
    <3>2. t \notin X
      BY <1>2, <1>3, <1>4, <2>2, <3>1
    <3>. QED
      BY <1>2, <1>3, <3>1, <3>2
  <2>. QED
    BY <2>1, <2>2
<1>7. ASSUME NEW n \in Messages, NEW p \in Messages, NEW k \in Nat, NEW j \in Nat,
             Waits(t, n, k)', Waits(t, p, j)'
      PROVE  n = p /\ k = j
  BY <1>2, <1>3, <1>6, <1>7
<1>8. ran'[t] <= 1
  BY <1>2, <1>3, <1>5
<1>9. t \notin written' => ran'[t] = 0
  BY <1>2, <1>3, <1>5
<1>. QED
  BY <1>6, <1>7, <1>8, <1>9

(***************************************************************************)
(* What each action does to the lists of tags that wait.                   *)
(***************************************************************************)
LEMMA ReturnTodo ==
  ASSUME TypeOK, StackInv, NEW m \in Messages, Busy(m), NEW text \in SUBSET Tags,
         Return(m, text), NEW k \in 1..Len(stack'[m])
  PROVE  k \in 1..Len(stack[m]) /\ stack'[m][k].todo = stack[m][k].todo
<1>. DEFINE rest == Below(m)
            n == Len(rest)
<1>1. /\ Len(stack[m]) \in Nat \ {0} /\ rest \in Seq(Frame) /\ n = Len(stack[m]) - 1
      /\ \A j \in 1..n : rest[j] = stack[m][j]
  BY TopAndBelow
<1>2. Len(stack'[m]) = n
  BY <1>1, ReturnMoves
<1>3. k \in 1..n /\ k \in 1..Len(stack[m]) /\ rest[k] \in Frame
  BY <1>1, <1>2
<1>4. stack'[m] = rest \/ stack'[m] = [rest EXCEPT ![n].answer = text]
  BY DEF Return, TypeOK
<1>5. stack'[m][k].todo = rest[k].todo
  <2>. HIDE DEF rest, n
  <2>1. CASE stack'[m] = rest
    BY <2>1
  <2>2. CASE stack'[m] = [rest EXCEPT ![n].answer = text]
    BY <1>1, <1>3, <2>2 DEF Frame, n
  <2>. QED
    BY <1>4, <2>1, <2>2
<1>. QED
  BY <1>1, <1>3, <1>5

LEMMA NewTopTodo ==
  ASSUME TypeOK, NEW m \in Messages, Busy(m), NEW f \in Frame, SetTop(m, f),
         NEW k \in 1..Len(stack'[m])
  PROVE  /\ \A n \in Messages \ {m} : stack'[n] = stack[n]
         /\ k \in 1..Len(stack[m])
         /\ stack'[m][k].todo = IF k = Len(stack[m]) THEN f.todo ELSE stack[m][k].todo
<1>. DEFINE u == Append(Below(m), f)
<1>1. /\ u \in Seq(Frame) /\ Len(u) = Len(stack[m]) /\ u[Len(u)] = f
      /\ \A j \in 1..Len(u) - 1 : u[j] = stack[m][j]
  BY WithNewTop
<1>2. stack'[m] = u /\ \A n \in Messages \ {m} : stack'[n] = stack[n]
  BY DEF SetTop, TypeOK
<1>3. Len(stack[m]) \in Nat
  BY DEF TypeOK
<1>. HIDE DEF u
<1>. QED
  BY <1>1, <1>2, <1>3

LEMMA CallTodo ==
  ASSUME TypeOK, NEW m \in Messages, Busy(m), NEW f \in Frame, Proper(f),
         f.doing # NoTag, Call(m, f), NEW k \in 1..Len(stack'[m])
  PROVE  /\ \A n \in Messages \ {m} : stack'[n] = stack[n]
         /\ k \in 1..Len(stack[m]) + 1
         /\ stack'[m][k].todo = IF k = Len(stack[m]) + 1 THEN {}
                                ELSE IF k = Len(stack[m]) THEN f.todo
                                ELSE stack[m][k].todo
<1>1. f.doing \in Tags /\ KindOf[f.doing] # "spawn" /\ Obeys(ScannerOf(f.doing), f.platform)
  BY DEF Proper, Frame
<1>2. PICK turn \in NthTurn(f, f.doing, f.turns + 1) :
        stack' = [stack EXCEPT ![m] = Below(m) \o <<[f EXCEPT !.turns = @ + 1], turn>>]
  BY DEF Call
<1>3. turn \in Frame /\ turn = Turn(turn.agent, turn.platform)
  BY <1>1, NthTurnType
<1>4. turn.todo = {}
  BY <1>3 DEF Turn, NewTurn
<1>. DEFINE g == [f EXCEPT !.turns = @ + 1]
            u == Below(m) \o <<g, turn>>
<1>5. g \in Frame /\ g.todo = f.todo
  BY DEF Frame
<1>6. /\ u \in Seq(Frame) /\ Len(u) = Len(stack[m]) + 1
      /\ u[Len(u)] = turn /\ u[Len(u) - 1] = g
      /\ \A j \in 1..Len(u) - 2 : u[j] = stack[m][j]
  <2>. HIDE DEF g
  <2>. QED BY <1>3, <1>5, WithCall
<1>7. stack'[m] = u /\ \A n \in Messages \ {m} : stack'[n] = stack[n]
  BY <1>2 DEF TypeOK
<1>8. Len(stack[m]) \in Nat
  BY DEF TypeOK
<1>. DEFINE n == Len(stack[m])
<1>9. n \in Nat /\ k \in 1..n + 1 /\ u[n + 1] = turn /\ u[n] = g
      /\ \A j \in 1..n - 1 : u[j] = stack[m][j]
  <2>. HIDE DEF g, u
  <2>1. Len(u) = n + 1 /\ n \in Nat  BY <1>6, <1>8
  <2>. HIDE DEF n
  <2>2. Len(u) - 1 = n /\ Len(u) - 2 = n - 1  BY <2>1
  <2>3. u[n + 1] = turn  BY <1>6, <2>1
  <2>4. u[n] = g /\ \A j \in 1..n - 1 : u[j] = stack[m][j]  BY <1>6, <2>2
  <2>5. k \in 1..n + 1  BY <1>7, <2>1
  <2>. QED BY <2>1, <2>3, <2>4, <2>5
<1>. HIDE DEF g, u, n
<1>10. u[k].todo = IF k = n + 1 THEN {} ELSE IF k = n THEN f.todo ELSE stack[m][k].todo
  <2>1. CASE k = n + 1
    BY <1>4, <1>9, <2>1
  <2>2. CASE k = n
    BY <1>5, <1>9, <2>2
  <2>3. CASE k # n + 1 /\ k # n
    <3>1. k \in 1..n - 1
      BY <1>9, <2>3
    <3>. QED
      BY <1>9, <2>3, <3>1
  <2>. QED
    BY <2>1, <2>2, <2>3
<1>. QED
  BY <1>7, <1>9, <1>10 DEF n

\* A step that only begins, resumes, ends or cuts off turns.
LEMMA QuietConsumes ==
  ASSUME TypeOK, NEW m \in Messages, written' = written,
         \A t \in Tags : KindOf[t] = "delegate" => ran'[t] = ran[t],
         \A n \in Messages \ {m} : stack'[n] = stack[n],
         \A k \in 1..Len(stack'[m]) :
            stack'[m][k].todo = {}
            \/ (k \in 1..Len(stack[m]) /\ stack'[m][k].todo = stack[m][k].todo)
  PROVE  Consumes(m, {}, {})
BY DEF Consumes, Waits

LEMMA BeginConsumes ==
  ASSUME TypeOK, StackInv, NEW m \in Messages, Begin(m)
  PROVE  Consumes(m, {}, {})
<1>1. PICK a \in Agents, p \in Entrances : stack' = [stack EXCEPT ![m] = <<Turn(a, p)>>]
  BY DEF Begin
<1>2. stack'[m] = <<Turn(a, p)>> /\ \A n \in Messages \ {m} : stack'[n] = stack[n]
  BY <1>1 DEF TypeOK
<1>3. \A k \in 1..Len(stack'[m]) : stack'[m][k].todo = {}
  BY <1>2 DEF Turn, NewTurn
<1>. QED
  BY <1>2, <1>3, QuietConsumes DEF Begin

LEMMA ReplyConsumes ==
  ASSUME TypeOK, StackInv, NEW m \in Messages, Reply(m)
  PROVE  \E W : Consumes(m, W, {})
<1>1. Busy(m) /\ ran' = ran
  BY DEF Reply
<1>2. PICK W \in SUBSET (Tags \ written), c \in Costs :
        LET f == [Top(m) EXCEPT !.stage = 1, !.text = W,
                                !.paid = IF Outermost(m) THEN c ELSE 0]
        IN /\ SetTop(m, [f EXCEPT !.todo = Found(f, 1)])
           /\ written' = written \cup W
  BY DEF Reply
<1>. DEFINE d == IF Outermost(m) THEN c ELSE 0
            f == [Top(m) EXCEPT !.stage = 1, !.text = W, !.paid = d]
            g == [f EXCEPT !.todo = Found(f, 1)]
<1>3. Top(m) \in Frame
  BY <1>1, TopProper
<1>4. f \in Frame /\ f.text = W
  <2>1. W \in SUBSET Tags /\ 1 \in 0..Len(Scanners) /\ d \in Costs
    BY ScannersType, TurnAssumption DEF Costs
  <2>. HIDE DEF d
  <2>. QED
    BY <1>3, <2>1 DEF Frame
<1>5. Found(f, 1) \subseteq W
  <2>. HIDE DEF f
  <2>. QED BY <1>4 DEF Found
<1>6. g \in Frame /\ g.todo \subseteq W
  <2>. HIDE DEF f
  <2>1. Found(f, 1) \in SUBSET Tags
    BY <1>5
  <2>. QED
    BY <1>4, <1>5, <2>1 DEF Frame
<1>. HIDE DEF g
<1>7. SetTop(m, g)
  BY <1>2 DEF g
<1>8. Consumes(m, W, {})
  <2>1. \A k \in 1..Len(stack'[m]) :
          /\ k \in 1..Len(stack[m])
          /\ stack'[m][k].todo = IF k = Len(stack[m]) THEN g.todo ELSE stack[m][k].todo
    BY <1>1, <1>6, <1>7, NewTopTodo
  <2>2. \A n \in Messages \ {m} : stack'[n] = stack[n]
    BY <1>7 DEF SetTop, TypeOK
  <2>. QED
    BY <1>1, <1>2, <1>6, <2>1, <2>2 DEF Consumes, Waits
<1>. QED
  BY <1>8

LEMMA NextTagConsumes ==
  ASSUME TypeOK, StackInv, NEW m \in Messages, NextTag(m)
  PROVE  \E X : Consumes(m, {}, X)
<1>1. Busy(m) /\ Top(m).stage > 0 /\ written' = written
  BY DEF NextTag
<1>2. Top(m) \in Frame /\ Proper(Top(m)) /\ Top(m) = stack[m][Len(stack[m])]
      /\ Len(stack[m]) \in Nat \ {0}
  BY <1>1, TopProper, TopAndBelow
<1>3. PICK more \in Appended(Top(m)), i \in 1..Len(Scanners) :
        LET f == Settled(Top(m), more)
            S == IF i = f.stage THEN f.todo ELSE Found(f, i)
        IN /\ IF f.todo # {} THEN i = f.stage
              ELSE i \in Later(f) /\ \A j \in Later(f) : i <= j
           /\ \E t \in NextOf(S) :
                LET g == [f EXCEPT !.stage = i, !.todo = S \ {t}, !.doing = t]
                IN /\ IF MostTurns(g, t) = 0 THEN SetTop(m, g) ELSE Call(m, g)
                   /\ ran' = Times({t})
  BY DEF NextTag
<1>. DEFINE f == Settled(Top(m), more)
            S == IF i = f.stage THEN f.todo ELSE Found(f, i)
<1>4. /\ f \in Frame /\ ~f.refused /\ f.platform = Top(m).platform /\ f.todo = Top(m).todo
      /\ f.stage = Top(m).stage
  BY <1>1, <1>2, SettledType DEF Proper, Same
<1>5. S \subseteq Tags
      /\ \A t \in S : KindOf[t] # "spawn" /\ Obeys(ScannerOf(t), f.platform)
  <2>1. CASE S = f.todo
    <3>1. f.todo \subseteq Tags
      BY <1>4 DEF Frame
    <3>. QED
      BY <1>2, <1>4, <2>1, <3>1, TurnAssumption DEF Proper
  <2>2. CASE S = Found(f, i)
    <3>. HIDE DEF f
    <3>. QED BY <1>4, <2>2, FoundProper
  <2>. QED
    BY <2>1, <2>2
<1>6. \A t \in S : KindOf[t] = "delegate" => t \in Top(m).todo
  <2>1. CASE f.todo # {}
    BY <1>3, <1>4, <2>1
  <2>2. CASE f.todo = {}
    <3>1. i \in Later(f)
      BY <1>3, <2>2
    <3>2. i \in (f.stage + 1)..6 /\ f.stage \in Nat /\ f.stage > 0
      <4>. HIDE DEF f
      <4>. QED BY <1>1, <1>4, <3>1, ScannersType DEF Later, Frame
    <3>3. i \in 2..6 /\ S = Found(f, i)
      BY <3>2
    <3>4. Scanners[i] # "delegate"
      BY <3>3 DEF Scanners
    <3>. HIDE DEF f
    <3>. QED
      BY <3>3, <3>4 DEF Found, ScannerOf
  <2>. QED
    BY <2>1, <2>2
<1>7. PICK t \in NextOf(S) :
        LET g == [f EXCEPT !.stage = i, !.todo = S \ {t}, !.doing = t]
        IN /\ IF MostTurns(g, t) = 0 THEN SetTop(m, g) ELSE Call(m, g)
           /\ ran' = Times({t})
  BY <1>3
<1>. DEFINE g == [f EXCEPT !.stage = i, !.todo = S \ {t}, !.doing = t]
            X == IF KindOf[t] = "delegate" THEN {t} ELSE {}
<1>8. t \in S /\ t \in Tags /\ t # NoTag
  BY <1>5, TurnAssumption DEF NextOf
<1>9. /\ g \in Frame /\ g.platform = f.platform /\ g.stage = i /\ g.doing = t
      /\ g.todo = S \ {t} /\ g.refused = f.refused
  <2>. HIDE DEF f, S
  <2>1. i \in 0..Len(Scanners) /\ S \ {t} \in SUBSET Tags
    BY <1>5, ScannersType
  <2>. QED
    BY <1>4, <1>8, <2>1 DEF Frame
<1>10. Proper(g)
  <2>. HIDE DEF f, S, g
  <2>1. i > 0
    BY ScannersType
  <2>. QED
    BY <1>4, <1>5, <1>8, <1>9, <2>1 DEF Proper
<1>. HIDE DEF f, S, g
<1>11. SetTop(m, g) \/ Call(m, g)
  BY <1>7 DEF g
<1>12. \A k \in 1..Len(stack'[m]) :
         \/ stack'[m][k].todo = {}
         \/ k = Len(stack[m]) /\ stack'[m][k].todo = S \ {t}
         \/ k \in 1..Len(stack[m]) - 1 /\ stack'[m][k].todo = stack[m][k].todo
  <2>. TAKE k \in 1..Len(stack'[m])
  <2>1. CASE SetTop(m, g)
    BY <1>1, <1>2, <1>9, <2>1, NewTopTodo
  <2>2. CASE Call(m, g)
    <3>. HIDE DEF X
    <3>0. g \in Frame /\ g.doing # NoTag
      BY <1>8, <1>9
    <3>1. /\ k \in 1..Len(stack[m]) + 1
          /\ stack'[m][k].todo = IF k = Len(stack[m]) + 1 THEN {}
                                 ELSE IF k = Len(stack[m]) THEN g.todo
                                 ELSE stack[m][k].todo
      BY <1>1, <1>10, <2>2, <3>0, CallTodo
    <3>. QED
      BY <1>2, <1>9, <3>1
  <2>. QED
    BY <1>11, <2>1, <2>2
<1>13. \A n \in Messages \ {m} : stack'[n] = stack[n]
  BY <1>11 DEF SetTop, Call, TypeOK
<1>14. \A u \in Tags : KindOf[u] = "delegate" =>
         ran'[u] = IF u \in X THEN ran[u] + 1 ELSE ran[u]
  BY <1>7 DEF Times
<1>. QED
  <2>1. \A u \in X : Waits(u, m, Len(stack[m]))
    BY <1>2, <1>6, <1>8 DEF Waits
  <2>2. \A u \in Tags, k \in Nat : KindOf[u] = "delegate" /\ Waits(u, m, k)' =>
          Waits(u, m, k) /\ (k = Len(stack[m]) => u \notin X)
    <3>. TAKE u \in Tags, k \in Nat
    <3>. HAVE KindOf[u] = "delegate" /\ Waits(u, m, k)'
    <3>1. k \in 1..Len(stack'[m]) /\ u \in stack'[m][k].todo
      BY DEF Waits
    <3>2. CASE k = Len(stack[m]) /\ stack'[m][k].todo = S \ {t}
      BY <1>2, <1>6, <3>1, <3>2 DEF Waits
    <3>3. CASE k \in 1..Len(stack[m]) - 1 /\ stack'[m][k].todo = stack[m][k].todo
      BY <1>2, <3>1, <3>3 DEF Waits
    <3>. QED
      BY <1>12, <3>1, <3>2, <3>3
  <2>. HIDE DEF X
  <2>. QED
    BY <1>1, <1>13, <1>14, <2>1, <2>2 DEF Consumes

LEMMA FinishConsumes ==
  ASSUME TypeOK, StackInv, NEW m \in Messages, Finish(m)
  PROVE  Consumes(m, {}, {})
<1>1. Busy(m) /\ written' = written
  BY DEF Finish
<1>2. Top(m) \in Frame
  BY <1>1, TopProper
<1>3. PICK more \in Appended(Top(m)) :
        LET f == Settled(Top(m), more)
        IN /\ ran' = Times({t \in f.text : KindOf[t] = "spawn"})
           /\ Return(m, f.text)
  BY DEF Finish
<1>4. Settled(Top(m), more).text \in SUBSET Tags
  <2>1. Settled(Top(m), more) \in Frame
    BY <1>2, SettledType
  <2>. QED
    BY <2>1 DEF Frame
<1>5. \A t \in Tags : KindOf[t] = "delegate" => ran'[t] = ran[t]
  BY <1>3 DEF Times
<1>6. \A n \in Messages \ {m} : stack'[n] = stack[n]
  BY <1>3 DEF Return, TypeOK
<1>7. \A k \in 1..Len(stack'[m]) :
        k \in 1..Len(stack[m]) /\ stack'[m][k].todo = stack[m][k].todo
  BY <1>1, <1>3, <1>4, ReturnTodo
<1>. QED
  BY <1>1, <1>5, <1>6, <1>7, QuietConsumes

LEMMA ReplyFailsConsumes ==
  ASSUME TypeOK, StackInv, NEW m \in Messages, ReplyFails(m)
  PROVE  Consumes(m, {}, {})
<1>1. Busy(m) /\ Return(m, {}) /\ written' = written /\ ran' = ran
  BY DEF ReplyFails
<1>2. \A n \in Messages \ {m} : stack'[n] = stack[n]
  BY <1>1 DEF Return, TypeOK
<1>3. \A k \in 1..Len(stack'[m]) :
        k \in 1..Len(stack[m]) /\ stack'[m][k].todo = stack[m][k].todo
  BY <1>1, ReturnTodo
<1>. QED
  BY <1>1, <1>2, <1>3, QuietConsumes

LEMMA AnotherTurnConsumes ==
  ASSUME TypeOK, StackInv, NEW m \in Messages, AnotherTurn(m)
  PROVE  Consumes(m, {}, {})
<1>1. Busy(m) /\ Top(m).doing # NoTag /\ Call(m, Top(m)) /\ written' = written /\ ran' = ran
  BY DEF AnotherTurn
<1>2. /\ Top(m) \in Frame /\ Proper(Top(m)) /\ Top(m) = stack[m][Len(stack[m])]
      /\ Len(stack[m]) \in Nat \ {0}
  BY <1>1, TopProper, TopAndBelow
<1>3. \A n \in Messages \ {m} : stack'[n] = stack[n]
  BY <1>1 DEF Call, TypeOK
<1>4. ASSUME NEW k \in 1..Len(stack'[m])
      PROVE  \/ stack'[m][k].todo = {}
             \/ k \in 1..Len(stack[m]) /\ stack'[m][k].todo = stack[m][k].todo
  <2>1. /\ k \in 1..Len(stack[m]) + 1
        /\ stack'[m][k].todo = IF k = Len(stack[m]) + 1 THEN {}
                               ELSE IF k = Len(stack[m]) THEN Top(m).todo
                               ELSE stack[m][k].todo
    BY <1>1, <1>2, CallTodo
  <2>. QED
    BY <1>2, <2>1
<1>. QED
  BY <1>1, <1>3, <1>4, QuietConsumes

LEMMA CutOffConsumes ==
  ASSUME TypeOK, StackInv, NEW m \in Messages, CutOff(m)
  PROVE  Consumes(m, {}, {})
<1>. DEFINE s == stack[m]
<1>1. s \in Seq(Frame) /\ Len(s) \in Nat /\ \A k \in 1..Len(s) : s[k] \in Frame
  BY DEF TypeOK
<1>2. PICK n \in 0..Len(s) - 1 :
        stack' = [stack EXCEPT ![m] =
                    [k \in 1..n |-> IF k < n THEN s[k]
                                    ELSE [s[n] EXCEPT !.turns = MaxTurns, !.answer = {}]]]
  BY DEF CutOff
<1>. DEFINE g == [s[n] EXCEPT !.turns = MaxTurns, !.answer = {}]
            u == [k \in 1..n |-> IF k < n THEN s[k] ELSE g]
<1>3. stack'[m] = u /\ \A p \in Messages \ {m} : stack'[p] = stack[p]
  BY <1>2 DEF TypeOK
<1>4. n \in Nat /\ n < Len(s) /\ (n > 0 => s[n] \in Frame)
  BY <1>1, <1>2
<1>5. Len(stack'[m]) = n
  <2>1. stack'[m] \in Seq(Frame)
    BY CutOffStep DEF OnlyMoves
  <2>2. DOMAIN stack'[m] = 1..n
    BY <1>3
  <2>. QED
    BY <1>4, <2>1, <2>2, LenProperties
<1>6. ASSUME NEW k \in 1..n
      PROVE  k \in 1..Len(s) /\ u[k].todo = s[k].todo
  <2>. HIDE DEF s
  <2>1. CASE k < n
    BY <1>4, <2>1
  <2>2. CASE k = n
    <3>1. g.todo = s[n].todo
      BY <1>4, <2>2 DEF Frame
    <3>2. u[k] = g
      BY <2>2, <1>4
    <3>. HIDE DEF u, g
    <3>. QED
      BY <1>4, <2>2, <3>1, <3>2
  <2>. QED
    BY <1>4, <2>1, <2>2
<1>. HIDE DEF u
<1>. QED
  BY <1>3, <1>5, <1>6, QuietConsumes DEF CutOff

\* However deep the turns nest and however often an answer is copied into the
\* answers around it, no delegation is executed twice.
THEOREM DelegatesOnce == Spec => []DelegatedOnce
<1>1. Init => OnceInv
  BY DEF Init, OnceInv, Waits
<1>2. ASSUME TypeOK, StackInv, OnceInv, [Next]_vars
      PROVE  OnceInv'
  <2>1. CASE Age \/ UNCHANGED vars
    BY <1>2, <2>1 DEF Age, vars, OnceInv, Waits
  <2>2. ASSUME NEW m \in Messages, \E W, X : Consumes(m, W, X)
        PROVE  OnceInv'
    BY <1>2, <2>2, ConsumesOnce
  <2>3. ASSUME NEW m \in Messages,
               \/ Begin(m) \/ Reply(m) \/ ReplyFails(m) \/ AnotherTurn(m) \/ NextTag(m)
               \/ Finish(m) \/ CutOff(m)
        PROVE  \E W, X : Consumes(m, W, X)
    BY <1>2, <2>3, BeginConsumes, ReplyConsumes, ReplyFailsConsumes, AnotherTurnConsumes,
       NextTagConsumes, FinishConsumes, CutOffConsumes
  <2>. QED
    BY <1>2, <2>1, <2>2, <2>3 DEF Next
<1>3. OnceInv => DelegatedOnce
  BY DEF OnceInv, DelegatedOnce
<1>4. Spec => [](TypeOK /\ StackInv /\ OnceInv)
  BY <1>1, <1>2, InitType, TypeStep, PTL DEF Spec
<1>. QED
  BY <1>3, <1>4, PTL
=============================================================================
