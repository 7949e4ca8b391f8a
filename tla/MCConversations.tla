-------------------------- MODULE MCConversations --------------------------
(***************************************************************************)
(* Small instances of Conversations for TLC.                               *)
(***************************************************************************)
EXTENDS Conversations, TLC

CONSTANTS u1, u2, a1, a2, t1

\* The one choice among agents is ByAgent's of a conversation, and
\* SnapshotWithinTotal holds whichever it takes (SharesWithinTotal).
AgentsSymmetric == Permutations(Agents)
=============================================================================
