---------------------------- MODULE MCWorkspaces ----------------------------
(***************************************************************************)
(* Small instances of Workspaces for TLC.                                  *)
(***************************************************************************)
EXTENDS Workspaces, TLC

CONSTANTS a1, a2, identityHeading, style, sub

TwoReleases == <<{identityHeading}, {identityHeading, style}>>
=============================================================================
