--------------------------- MODULE MCDeployManager ---------------------------
(***************************************************************************)
(* Instances of DeployManager: a window within a day, one past midnight on *)
(* Mondays only, and a target without a window.                            *)
(***************************************************************************)
EXTENDS DeployManager

MCTargets  == {"day", "night", "always"}
MCWindowOf == [t \in MCTargets |->
    CASE t = "day"    -> [start |-> 1, end |-> 2, days |-> 1..7]
      [] t = "night"  -> [start |-> 2, end |-> 1, days |-> {1}]
      [] t = "always" -> NoWindow]
MCDomainsOf == {<<"a", "a">>, <<"a", "b">>}
MCSelections == {{"night"}, {"always", "day"}}
MCLastStart == [day |-> 0, slot |-> 1]
MCJobName  == [x \in MCTargets \X {"a", "b"} |-> x]
==============================================================================
