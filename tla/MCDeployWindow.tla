---------------------------- MODULE MCDeployWindow ---------------------------
(***************************************************************************)
(* Instances of DeployWindow: every window of a four-slot day that is ever *)
(* open, on every set of days of the week.                                 *)
(***************************************************************************)
EXTENDS DeployWindow

DaySets  == SUBSET (1..7) \ {{}}
Openable == {win \in [start : 0..3, end : 0..3, days : DaySets] : win.start # win.end}
==============================================================================
