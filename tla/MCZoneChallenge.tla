--------------------------- MODULE MCZoneChallenge ---------------------------
(***************************************************************************)
(* Instances of ZoneChallenge: two server processes share the clone, two   *)
(* names live in one zone file, and a third has no zone.                   *)
(***************************************************************************)
EXTENDS ZoneChallenge, TLC

CONSTANTS r1, r2, r3, p1, p2, n1, n2, n3, z1

\* r1 and r2 are served by the same process.
MCProcOf == [r \in Requests |-> IF r = r3 THEN p2 ELSE p1]
MCZoneOf == [n \in Names |-> IF n = n3 THEN NoZone ELSE z1]

\* The two requests of p1 can change places, and so can the two names of z1.
MCSymmetry == Permutations({r1, r2}) \cup Permutations({n1, n2})
==============================================================================
