------------------------- MODULE MCSoftwareFactory -------------------------
(* Instances of SoftwareFactory for TLC. *)
EXTENDS SoftwareFactory

CONSTANTS r1, r2, albert, luna, max_, johnny

SortedNames == <<albert, johnny, luna, max_>>
AlbertAndLuna == <<albert, luna>>
DefaultExecutors == <<AutoName>>
Panel == <<max_, AutoName>>
=============================================================================
