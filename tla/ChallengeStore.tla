---------------------------- MODULE ChallengeStore ---------------------------
(***************************************************************************)
(* What POST /acme/auth and POST /acme/cleanup promise their callers: one  *)
(* store of challenge values, on which every request takes effect at one   *)
(* moment between its arrival and its answer.                              *)
(***************************************************************************)
CONSTANTS Requests, Names, Values, NoTxt

VARIABLES
    arg,    \* what a request asks for: its op, name and value
    stage,  \* "new", "open", "took" (effect) or "done" (answer fixed)
    res,    \* the answer
    store   \* the TXT value of every challenge name

absVars == <<arg, stage, res, store>>

Body == [op : {"auth"}, name : Names, val : Values]
          \cup [op : {"cleanup"}, name : Names, val : {NoTxt}]

Init ==
    /\ arg \in [Requests -> Body]
    /\ stage = [r \in Requests |-> "new"]
    /\ res = [r \in Requests |-> "none"]
    /\ store = [n \in Names |-> NoTxt]

Open(r) ==
    /\ stage[r] = "new"
    /\ stage' = [stage EXCEPT ![r] = "open"]
    /\ UNCHANGED <<arg, res, store>>

\* The request sets or removes the value of its own name, and of no other.
TakeEffect(r) ==
    /\ stage[r] = "open"
    /\ store' = [store EXCEPT ![arg[r].name] = arg[r].val]
    /\ stage' = [stage EXCEPT ![r] = "took"]
    /\ UNCHANGED <<arg, res>>

Answer(r, answer) ==
    /\ stage' = [stage EXCEPT ![r] = "done"]
    /\ res' = [res EXCEPT ![r] = answer]
    /\ UNCHANGED <<arg, store>>

\* "ok" only after the effect, or when the store already said so.
AnswerOk(r) ==
    /\ \/ stage[r] = "took"
       \/ stage[r] = "open" /\ store[arg[r].name] = arg[r].val
    /\ Answer(r, "ok")

\* "skipped" only for a cleanup that finds nothing to remove.
AnswerSkipped(r) ==
    /\ stage[r] = "open" /\ arg[r].op = "cleanup" /\ store[arg[r].name] = NoTxt
    /\ Answer(r, "skipped")

\* A busy lock answers before any effect; an error, before or after.
AnswerFailed(r) ==
    \/ stage[r] = "open" /\ Answer(r, "locked")
    \/ stage[r] \in {"open", "took"} /\ Answer(r, "error")

\* A process dies with the requests R it is serving: they get no answer, also
\* where it was fixed already.
Lose(R) ==
    /\ R # {} /\ \A r \in R : stage[r] # "new"
    /\ stage' = [r \in Requests |-> IF r \in R THEN "done" ELSE stage[r]]
    /\ res' = [r \in Requests |-> IF r \in R THEN "lost" ELSE res[r]]
    /\ UNCHANGED <<arg, store>>

Next ==
    \/ \E r \in Requests : \/ Open(r) \/ TakeEffect(r) \/ AnswerOk(r)
                           \/ AnswerSkipped(r) \/ AnswerFailed(r)
    \/ \E R \in SUBSET Requests : Lose(R)

Spec == Init /\ [][Next]_absVars
==============================================================================
