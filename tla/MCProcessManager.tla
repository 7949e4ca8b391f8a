-------------------------- MODULE MCProcessManager --------------------------
(***************************************************************************)
(* Small instances of ProcessManager for TLC.                              *)
(***************************************************************************)
EXTENDS ProcessManager, TLC

CONSTANTS c1, c2, c3, m1, m2, s1, s2, s3, fresh

\* Sends, streams and sessions are interchangeable among themselves.
CallsSymmetric == Permutations(Sends) \cup Permutations(Streams) \cup Permutations(Sessions)
=============================================================================
