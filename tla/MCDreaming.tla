----------------------------- MODULE MCDreaming -----------------------------
(***************************************************************************)
(* Instances of Dreaming for TLC.                                          *)
(***************************************************************************)
EXTENDS Dreaming

CONSTANTS a1, a2

AllAgents == {a1, a2}
FirstAgents == {a1}
\* A memory, and one that the first would be a collapse of
TwoSizes == {1, 4}
=============================================================================
