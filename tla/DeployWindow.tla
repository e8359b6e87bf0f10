----------------------------- MODULE DeployWindow ----------------------------
(***************************************************************************)
(* The deferral that renewals and deployments build on the window          *)
(* functions: an operation asked for outside its window becomes a date     *)
(* job. The renewal's job asks for the window again when it fires, the     *)
(* deployment's job does not.                                              *)
(***************************************************************************)
EXTENDS WindowTime

CONSTANTS
    Windows,      \* the configured windows to consider
    MaxDay        \* bound: the clock stops at the end of this day

ASSUME WindowsAssumption ==
    /\ MaxDay \in Nat /\ Windows \subseteq Window
    /\ \A w \in Windows : w.start # w.end /\ w.days # {}

(***************************************************************************)
(* One operation that is subject to the window.                            *)
(***************************************************************************)
VARIABLES
    w,      \* its window
    kind,   \* "renew" or "deploy"
    now,    \* the clock
    state,  \* "idle", "deferred" or "ran"
    due     \* when it runs: the job's run_date, or the time it ran

vars == <<w, kind, now, state, due>>

Init ==
    /\ w \in Windows /\ kind \in {"renew", "deploy"}
    /\ now = [day |-> 0, slot |-> 0]
    /\ state = "idle" /\ due = now

\* Seeded fault: the window is not consulted.
AttemptAtOnce ==
    state' = "ran" /\ due' = now /\ UNCHANGED <<w, kind, now>>

\* _run_renew and DeployManager.deploy: run it now, or add (or replace) the job.
Attempt ==
    /\ \/ is_within_window(w, now) /\ state' = "ran" /\ due' = now
       \/ /\ ~is_within_window(w, now)
          /\ state' = "deferred" /\ due' = next_window_start(w, now)
    /\ UNCHANGED <<w, kind, now>>

\* The request, or the periodic check, that asks for the operation, in the first
\* week (bound).
Ask == state = "idle" /\ now.day < 7 /\ Attempt

\* The scheduler runs a job when its run_date comes: _run_renew once more, or
\* _deferred_deploy, which deploys whatever the time is.
FireRenew == kind = "renew" /\ state = "deferred" /\ now = due /\ Attempt

FireDeploy ==
    /\ kind = "deploy" /\ state = "deferred" /\ now = due
    /\ state' = "ran" /\ UNCHANGED <<w, kind, now, due>>

Fire == FireRenew \/ FireDeploy

\* Time passes; a job that is due runs before it does.
Tick ==
    /\ ~(state = "deferred" /\ now = due)
    /\ now.slot < SlotsPerDay - 1 \/ now.day < MaxDay
    /\ now' = After(now)
    /\ UNCHANGED <<w, kind, state, due>>

\* The operation has run, or the clock has come to its bound.
Done == (state = "ran" \/ now = [day |-> MaxDay, slot |-> SlotsPerDay - 1]) /\ UNCHANGED vars

Next == Ask \/ Fire \/ Tick \/ Done

Spec == Init /\ [][Next]_vars

\* The scheduler's clock runs and its jobs fire; nobody has to ask.
FairSpec == Spec /\ WF_vars(Tick) /\ WF_vars(Fire)

(***************************************************************************)
(* Properties.                                                             *)
(***************************************************************************)
\* The slots in which a window is open, as a set: all but those from its end
\* to its start.
OpenSlots(win) ==
    IF Wraps(win) THEN Slots \ (win.end)..(win.start - 1)
    ELSE {s \in Slots : win.start <= s} \ (win.end)..SlotsPerDay

\* The operation only ever runs on an allowed day in an open slot, also when it
\* was put off and its job does not look at the window.
RunsInWindow ==
    state = "ran" => isoweekday(due.day) \in w.days /\ due.slot \in OpenSlots(w)

\* A job that fires finds the window open: it is not put off a second time.
DeferredOnce ==
    [][state = "deferred" => state' = "ran" \/ due' = due]_vars

\* A window within one day: the job's date is the nearest opening, however the
\* days of the week lie.
NearestSameDay ==
    state = "deferred" /\ now # due /\ ~Wraps(w) => ~is_within_window(w, now)

\* A deferred operation runs before the week is over.
DeferredRuns == state = "deferred" ~> state = "ran"
==============================================================================
