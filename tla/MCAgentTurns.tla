---------------------------- MODULE MCAgentTurns ----------------------------
(***************************************************************************)
(* A small instance of AgentTurns for TLC.                                 *)
(***************************************************************************)
EXTENDS AgentTurns, TLC

CONSTANTS m1, m2, a1, a2, none

\* A tag is written as the kind of thing it asks for and the agent it names.
KindOfTag == [t \in Tags |-> t[1]]
TargetOfTag == [t \in Tags |-> t[2]]

\* A tag for one turn, which is verified and may be repeated, a meeting, and a
\* build, whose turns may be given up together and take over how the message came.
Meetings == {<<"delegate", a2>>, <<"council", a1>>, <<"build", a1>>}

\* Tags that send a turn to another agent, for a look at how they nest.
Errands == {<<"delegate", a2>>, <<"help", a1>>}

MessagesSymmetric == Permutations(Messages)
=============================================================================
