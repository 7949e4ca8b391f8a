----------------------------- MODULE AgentTurns -----------------------------
(***************************************************************************)
(* agents/orchestrator.py: a turn of an agent and the turns it causes.     *)
(* send_to_agent asks a model; _process_delegations then scans the answer  *)
(* for tags, executes them, and appends what came back to the answer.      *)
(* Most tags are calls of send_to_agent again, so a message from outside   *)
(* becomes a stack of turns, each with the platform that its caller gave   *)
(* it and that decides which tags are obeyed.                              *)
(*                                                                         *)
(* A text is the set of tags in it.  A turn's frame returns to its caller  *)
(* in a step of its own, where the code goes on at once: other messages    *)
(* can run in between, which adds behaviours and removes none.             *)
(***************************************************************************)
EXTENDS Integers, Sequences, FiniteSets

CONSTANTS
  Messages,      \* calls from outside: users, heartbeats, spawned tasks
  Entrances,     \* how they come: send_to_agent, stream_to_agent or a heartbeat job
  Agents,
  Tags,          \* the tags that models may write, each written once
  KindOf,        \* what a tag asks for
  TargetOf,      \* the agent it names
  MaxTurns,      \* turns of a discussion, a council or a build
  MaxCost,       \* of a turn
  DailyBudget,   \* config.per_agent_daily_budget, 0 for unlimited
  NoTag

Scanners == <<"delegate", "help", "discuss", "council", "optimize", "factory">>
Kinds == {"delegate", "help", "discuss", "council", "optimize", "plan", "build", "spawn"}

ASSUME TurnAssumption ==
  /\ KindOf \in [Tags -> Kinds] /\ TargetOf \in [Tags -> Agents]
  /\ NoTag \notin Tags
  /\ IsFiniteSet(Messages) /\ Entrances \subseteq {"outside", "stream", "heartbeat"}
  /\ MaxTurns \in Nat \ {0} /\ DailyBudget \in Nat /\ MaxCost \in Nat

VARIABLES
  stack,     \* per message: the turns that are under way, outermost first
  written,   \* tags some model has written
  ran,       \* how often each tag was executed
  spent      \* agent_metrics: cost of each agent in the last 24 hours

vars == <<stack, written, ran, spent>>

Costs == 0..MaxCost

Platforms == {"outside", "stream", "heartbeat", "delegation", "verification",
              "discussion", "council", "optimization"}

\* stage 0: the model is thinking; stage n: the n-th scanner's tags are executed.
\* paid: what the scheduler will record again when the turn is over.
Frame == [platform: Platforms, agent: Agents, refused: BOOLEAN,
          stage: 0..Len(Scanners), todo: SUBSET Tags,
          doing: Tags \cup {NoTag}, turns: Nat, paid: Costs,
          answer: SUBSET Tags, text: SUBSET Tags]

TypeOK ==
  /\ stack \in [Messages -> Seq(Frame)]
  /\ written \subseteq Tags
  /\ ran \in [Tags -> Nat]
  /\ spent \in [Agents -> Nat]

Init ==
  /\ stack = [m \in Messages |-> <<>>]
  /\ written = {}
  /\ ran = [t \in Tags |-> 0]
  /\ spent = [a \in Agents |-> 0]

(***************************************************************************)
(* The stack of a message.                                                 *)
(***************************************************************************)
Busy(m) == stack[m] # <<>>
Top(m) == stack[m][Len(stack[m])]
Below(m) == SubSeq(stack[m], 1, Len(stack[m]) - 1)

SetTop(m, f) == stack' = [stack EXCEPT ![m] = Append(Below(m), f)]

\* _check_agent_budget
OverBudget(a) == DailyBudget > 0 /\ spent[a] >= DailyBudget

NewTurn(a, platform, refused) ==
  [platform |-> platform, agent |-> a, refused |-> refused, stage |-> 0,
   todo |-> {}, doing |-> NoTag, turns |-> 0, paid |-> 0, answer |-> {}, text |-> {}]

\* Slip: a turn that another turn causes is taken to be paid for already.
OuterTurnsChecked(a, platform) ==
  NewTurn(a, platform, platform \in {"outside", "heartbeat"} /\ OverBudget(a))

\* send_to_agent: the budget is looked at once, when the turn is asked for;
\* stream_to_agent does not look at it.
Turn(a, platform) == NewTurn(a, platform, platform # "stream" /\ OverBudget(a))

\* The turn on top returns text to the turn below it; the answer to a
\* verification is read, not kept.
Return(m, text) ==
  stack' = [stack EXCEPT ![m] =
    LET rest == Below(m)
    IN IF rest = <<>> \/ Top(m).platform = "verification" THEN rest
       ELSE [rest EXCEPT ![Len(rest)].answer = text]]

\* m is a heartbeat of a, which holds a's lock in the scheduler.
BeatsFor(m, a) ==
  Busy(m) /\ stack[m][1].platform = "heartbeat" /\ stack[m][1].agent = a

Begin(m) ==
  /\ ~Busy(m)
  /\ \E a \in Agents, p \in Entrances :
       /\ p = "heartbeat" => \A n \in Messages : ~BeatsFor(n, a)
       /\ stack' = [stack EXCEPT ![m] = <<Turn(a, p)>>]
  /\ UNCHANGED <<written, ran, spent>>

\* Old costs leave the window of a day.
Age ==
  /\ \E a \in Agents : \E c \in 0..spent[a] : spent' = [spent EXCEPT ![a] = c]
  /\ UNCHANGED <<stack, written, ran>>

-----------------------------------------------------------------------------
(***************************************************************************)
(* Which tags a turn obeys, and which turns they cause.                    *)
(***************************************************************************)
\* Slip: the guard forgets delegated turns.
ObeysDelegated(scanner, platform) ==
  scanner = "delegate" \/ platform \notin {"stream", "discussion", "council"}

\* The guards name a platform "intercom" too, which no caller passes; a stream
\* looks for delegations only.
Obeys(scanner, platform) ==
  \/ scanner = "delegate"
  \/ /\ platform \notin {"stream", "discussion", "council"}
     /\ scanner \in {"council", "factory"} => platform # "delegation"

ScannerOf(t) == IF KindOf[t] \in {"plan", "build"} THEN "factory" ELSE KindOf[t]

\* Slip: delegations are looked for last, when the answer has grown.
DelegatesLast(f, i) ==
  LET scanner == IF i = Len(Scanners) THEN "delegate" ELSE Scanners[i + 1]
  IN {t \in f.text : ScannerOf(t) = scanner /\ Obeys(scanner, f.platform)}

\* findall over the answer, with everything earlier scanners appended to it.
Found(f, i) ==
  {t \in f.text : ScannerOf(t) = Scanners[i] /\ Obeys(Scanners[i], f.platform)}

\* Plans are made before builds are run.
NextOf(S) == {t \in S : KindOf[t] = "build" => \A u \in S : KindOf[u] = "build"}

Later(f) == {i \in (f.stage + 1)..Len(Scanners) : Found(f, i) # {}}

\* How many turns a tag may cause.  A delegation with acceptance criteria is
\* verified by the delegating agent, and repeated once when that fails, unless
\* the delegating turn is a stream, a delegation or a verification; a discussion
\* with oneself is rejected.
MostTurns(f, t) ==
  CASE KindOf[t] = "delegate" ->
         IF f.platform \in {"stream", "delegation", "verification"} THEN 1 ELSE 3
    [] KindOf[t] = "discuss" -> IF TargetOf[t] = f.agent THEN 0 ELSE MaxTurns
    [] KindOf[t] \in {"council", "build"} -> MaxTurns
    [] OTHER -> 1

\* The n-th turn for tag t: its speaker is one of the agents that may take part.
NthTurn(f, t, n) ==
  LET turns(platform, A) == {Turn(a, platform) : a \in A}
  IN CASE KindOf[t] = "delegate" -> IF n = 2 THEN turns("verification", {f.agent})
                                     ELSE turns("delegation", {TargetOf[t]})
       [] KindOf[t] = "help" -> turns("delegation", {TargetOf[t]})
       [] KindOf[t] = "discuss" -> turns("discussion", {f.agent, TargetOf[t]})
       [] KindOf[t] = "council" -> turns("council", Agents)
       [] KindOf[t] = "optimize" -> turns("optimization", {TargetOf[t]})
       [] OTHER -> turns(f.platform, Agents)

\* What is appended of the last answer: all of it, a beginning, or of a build
\* only the figures.
Appended(f) ==
  IF f.doing = NoTag THEN {{}}
  ELSE CASE KindOf[f.doing] = "build" -> {{}}
         [] KindOf[f.doing] \in {"optimize", "plan"} -> SUBSET f.answer
         [] OTHER -> {f.answer}

\* The frame when the tag it was executing is done.  A stream scans what its
\* model wrote only.
Settled(f, more) ==
  [f EXCEPT !.doing = NoTag, !.turns = 0, !.answer = {},
            !.text = IF f.platform = "stream" THEN @ ELSE @ \cup more]

(***************************************************************************)
(* The steps of a turn.                                                    *)
(***************************************************************************)
Times(S) == [t \in Tags |-> IF t \in S THEN ran[t] + 1 ELSE ran[t]]

\* The turn on top, now f, causes the next turn for the tag it executes.
Call(m, f) ==
  \E turn \in NthTurn(f, f.doing, f.turns + 1) :
    stack' = [stack EXCEPT ![m] = Below(m) \o <<[f EXCEPT !.turns = @ + 1], turn>>]

\* A heartbeat's own turn, not one that a build in it causes.
Outermost(m) == Len(stack[m]) = 1 /\ Top(m).platform = "heartbeat"

\* The model answers: the cost is recorded before any tag is looked at.
Reply(m) ==
  /\ Busy(m) /\ Top(m).stage = 0 /\ ~Top(m).refused
  /\ \E W \in SUBSET (Tags \ written), c \in Costs :
       LET f == [Top(m) EXCEPT !.stage = 1, !.text = W,
                               !.paid = IF Outermost(m) THEN c ELSE 0]
       IN /\ SetTop(m, [f EXCEPT !.todo = Found(f, 1)])
          /\ written' = written \cup W
          /\ spent' = [spent EXCEPT ![f.agent] = @ + c]
  /\ UNCHANGED ran

\* The model fails or the agent was over budget: no tag is looked at.
ReplyFails(m) ==
  /\ Busy(m) /\ Top(m).stage = 0
  /\ Return(m, {})
  /\ \E c \in Costs :
       spent' = IF Top(m).refused THEN spent ELSE [spent EXCEPT ![Top(m).agent] = @ + c]
  /\ UNCHANGED <<written, ran>>

\* Another turn of a discussion, a council or a build, or the verification of a
\* delegation and what follows it.
AnotherTurn(m) ==
  /\ Busy(m) /\ Top(m).doing # NoTag
  /\ Top(m).turns < MostTurns(Top(m), Top(m).doing)
  /\ Call(m, Top(m))
  /\ UNCHANGED <<written, ran, spent>>

\* The next tag of this scanner, or the first of the next that finds any.
NextTag(m) ==
  /\ Busy(m) /\ Top(m).stage > 0
  /\ \E more \in Appended(Top(m)), i \in 1..Len(Scanners) :
       LET f == Settled(Top(m), more)
           S == IF i = f.stage THEN f.todo ELSE Found(f, i)
       IN /\ IF f.todo # {} THEN i = f.stage
             ELSE i \in Later(f) /\ \A j \in Later(f) : i <= j
          /\ \E t \in NextOf(S) :
               LET g == [f EXCEPT !.stage = i, !.todo = S \ {t}, !.doing = t]
               IN /\ IF MostTurns(g, t) = 0 THEN SetTop(m, g) ELSE Call(m, g)
                  /\ ran' = Times({t})
  /\ UNCHANGED <<written, spent>>

\* Nothing is left to wait for: background tasks are spawned, whatever the
\* platform, and the answer with all that was appended goes to the caller; of a
\* heartbeat that is the scheduler, which records the turn's cost once more.
Finish(m) ==
  /\ Busy(m) /\ Top(m).stage > 0
  /\ \E more \in Appended(Top(m)) :
       LET f == Settled(Top(m), more)
       IN /\ f.todo = {} /\ Later(f) = {}
          /\ ran' = Times({t \in f.text : KindOf[t] = "spawn"})
          /\ Return(m, f.text)
          /\ spent' = [spent EXCEPT ![f.agent] = @ + f.paid]
  /\ UNCHANGED written

\* The message is cancelled, or a step of a build times out: the turns above
\* are given up wherever they are, and with them the cost of the last.
CutOff(m) ==
  /\ \E n \in 0..Len(stack[m]) - 1 :
       /\ n > 0 => stack[m][n].doing # NoTag /\ KindOf[stack[m][n].doing] = "build"
       /\ stack' = [stack EXCEPT ![m] =
            [k \in 1..n |-> IF k < n THEN stack[m][k]
                            ELSE [stack[m][n] EXCEPT !.turns = MaxTurns, !.answer = {}]]]
  /\ UNCHANGED <<written, ran, spent>>

Next ==
  \/ \E m \in Messages :
       Begin(m) \/ Reply(m) \/ ReplyFails(m) \/ AnotherTurn(m) \/ NextTag(m)
         \/ Finish(m) \/ CutOff(m)
  \/ Age

Spec == Init /\ [][Next]_vars
-----------------------------------------------------------------------------
\* A verification and an optimization obey every tag, wherever they run.
Loopholes == {"verification", "optimization"}

\* In the stack of m, a turn on platform p has one on platform q above it, and
\* between them no turn on a platform of breaks.
Above(m, p, q, breaks) ==
  \E i, j \in 1..Len(stack[m]) :
    /\ i < j /\ stack[m][i].platform = p /\ stack[m][j].platform = q
    /\ \A k \in i..j : stack[m][k].platform \notin breaks

\* No council is convened by a council, a discussion or a delegation, however
\* many turns lie between them, except through an optimization or a verification.
CouncilsDoNotNest ==
  \A m \in Messages, p \in {"council", "discussion", "delegation"} :
    ~Above(m, p, "council", Loopholes)

\* A delegation is executed once, though its tag is copied into the answers of
\* all the turns around it.
DelegatedOnce == \A t \in Tags : KindOf[t] = "delegate" => ran[t] <= 1

\* What can be spent on an agent by turns that were let through: a turn of each
\* message, and the second record of the one heartbeat it may have.
UnderWay ==
  MaxCost * (Cardinality(Messages) + (IF "heartbeat" \in Entrances THEN 1 ELSE 0))

\* An agent's daily budget stops the recursion: unless streams take part, it is
\* overdrawn by the turns that were under way together, one per message, and by
\* one cost that is recorded twice, never by nested turns.
DailyBudgetHolds ==
  DailyBudget > 0 /\ "stream" \notin Entrances =>
    \A a \in Agents : spent[a] <= DailyBudget - 1 + UnderWay

(***************************************************************************)
(* What the repository says and the code does not do (see the README).     *)
(***************************************************************************)
\* orchestrator.py:1674: a delegate's own delegations and requests for help do
\* not run as delegations again.
DelegationNestsOnce == \A m \in Messages : ~Above(m, "delegation", "delegation", {})
=============================================================================
