----------------------------- MODULE DeployTarget ----------------------------
(***************************************************************************)
(* What DeployTarget.deploy promises its callers, for a device that serves *)
(* one certificate: each call installs its own certificate at most once,   *)
(* and answers "ok" only when it has. An error or a lost answer promises   *)
(* nothing: the device may have taken the certificate, or may still do so. *)
(***************************************************************************)
CONSTANTS Calls, NoCall

VARIABLES
    stage,   \* of a call: "new", "open" or "done"
    res,     \* its answer
    took,    \* the calls whose certificate was installed
    active   \* the call whose certificate the device serves

targetVars == <<stage, res, took, active>>

Init ==
    /\ stage = [c \in Calls |-> "new"] /\ res = [c \in Calls |-> "none"]
    /\ took = {} /\ active = NoCall

Open(c) ==
    /\ stage[c] = "new"
    /\ stage' = [stage EXCEPT ![c] = "open"]
    /\ UNCHANGED <<res, took, active>>

\* The device takes the certificate, perhaps after the caller has given up.
Install(c) ==
    /\ stage[c] # "new" /\ c \notin took
    /\ took' = took \cup {c} /\ active' = c
    /\ UNCHANGED <<stage, res>>

AnswerOk(c) ==
    /\ stage[c] = "open" /\ c \in took
    /\ stage' = [stage EXCEPT ![c] = "done"]
    /\ res' = [res EXCEPT ![c] = "ok"]
    /\ UNCHANGED <<took, active>>

AnswerError(c) ==
    /\ stage[c] = "open"
    /\ stage' = [stage EXCEPT ![c] = "done"]
    /\ res' = [res EXCEPT ![c] = "error"]
    /\ UNCHANGED <<took, active>>

\* The server dies with every call that is under way.
Crash ==
    /\ stage' = [c \in Calls |-> IF stage[c] = "open" THEN "done" ELSE stage[c]]
    /\ res' = [c \in Calls |-> IF stage[c] = "open" THEN "lost" ELSE res[c]]
    /\ UNCHANGED <<took, active>>

Next ==
    \/ \E c \in Calls : Open(c) \/ Install(c) \/ AnswerOk(c) \/ AnswerError(c)
    \/ Crash

Spec == Init /\ [][Next]_targetVars
==============================================================================
