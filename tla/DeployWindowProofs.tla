-------------------------- MODULE DeployWindowProofs -------------------------
(***************************************************************************)
(* Theorems about DeployWindow for every set of usable windows, every      *)
(* granularity of the clock and every bound on it.                         *)
(***************************************************************************)
EXTENDS DeployWindow, WindowTimeProofs

DWType ==
    /\ w \in Windows /\ kind \in {"renew", "deploy"}
    /\ now \in Time /\ due \in Time
    /\ state \in {"idle", "deferred", "ran"}

\* The job's date is the opening after the time at which it was put off, and has
\* not passed; an operation that ran did so in its window.
DWInv ==
    /\ DWType
    /\ state = "deferred" =>
          /\ is_within_window(w, due) /\ ~Before(due, now)
          /\ \E t \in Time : due = next_window_start(w, t) /\ ~Before(now, t)
    /\ state = "ran" => is_within_window(w, due)

\* What the proofs use of a configured window.
LEMMA WindowUsable ==
    ASSUME DWType
    PROVE  w \in Window /\ Usable(w)
BY WindowsAssumption DEF DWType, Usable

\* The common decision of renewals and deployments keeps the invariant.
LEMMA AttemptKeeps ==
    ASSUME DWInv, Attempt
    PROVE  DWInv'
<1> DEFINE u == next_window_start(w, now)
<1>1. w \in Window /\ Usable(w) /\ now \in Time
  BY WindowUsable DEF DWInv, DWType
<1>2. u \in Time /\ is_within_window(w, u) /\ (u = now \/ Before(now, u))
  BY <1>1, NextStartIsOpen
<1>3. ~Before(u, now) /\ ~Before(now, now)
  BY <1>1, <1>2 DEF Before, Time, Slots
<1>4. CASE is_within_window(w, now) /\ state' = "ran" /\ due' = now
  BY <1>4 DEF Attempt, DWInv, DWType
<1>5. CASE ~is_within_window(w, now) /\ state' = "deferred" /\ due' = u
  BY <1>1, <1>2, <1>3, <1>5 DEF Attempt, DWInv, DWType
<1> QED BY <1>4, <1>5 DEF Attempt

\* One slot further, the date of a job has still not passed.
LEMMA TickKeeps ==
    ASSUME DWInv, Tick
    PROVE  DWInv'
<1>1. now \in Time /\ due \in Time
  BY DEF DWInv, DWType
<1>2. now' \in Time /\ ~Before(now', now)
  BY <1>1, SlotsAssumption DEF Tick, After, Time, Slots, Before
<1>3. state = "deferred" => ~Before(due, now')
  BY <1>1, SlotsAssumption DEF DWInv, Tick, After, Time, Slots, Before
<1>4. ASSUME NEW t \in Time, ~Before(now, t) PROVE ~Before(now', t)
  BY <1>1, <1>4, SlotsAssumption DEF Tick, After, Time, Slots, Before
<1> QED BY <1>2, <1>3, <1>4 DEF DWInv, DWType, Tick

\* DWInv is inductive.
LEMMA DWStep ==
    ASSUME DWInv, [Next]_vars
    PROVE  DWInv'
<1>1. CASE Ask
  BY <1>1, AttemptKeeps DEF Ask
<1>2. CASE FireRenew
  BY <1>2, AttemptKeeps DEF FireRenew
<1>3. CASE FireDeploy
  BY <1>3 DEF FireDeploy, DWInv, DWType
<1>4. CASE Tick
  BY <1>4, TickKeeps
<1>5. CASE UNCHANGED vars
  BY <1>5 DEF DWInv, DWType, vars
<1> QED BY <1>1, <1>2, <1>3, <1>4, <1>5 DEF Next, Fire, Done

LEMMA DWHolds == Spec => []DWInv
<1>1. Init => DWInv
  BY SlotsAssumption DEF Init, DWInv, DWType, Time, Slots
<1> QED BY <1>1, DWStep, PTL DEF Spec

\* _run_renew and the deployments: an operation only ever runs on an allowed day
\* in an open slot of its window, also when its job does not look at the window.
THEOREM RunsOnlyInWindow == Spec => []RunsInWindow
<1>1. DWInv => RunsInWindow
  <2> SUFFICES ASSUME DWInv, state = "ran"
               PROVE  isoweekday(due.day) \in w.days /\ due.slot \in OpenSlots(w)
    BY DEF RunsInWindow
  <2>1. is_within_window(w, due) /\ due.slot \in Slots /\ w.start \in Slots /\ w.end \in Slots
    BY WindowUsable DEF DWInv, DWType, Time, Window
  <2> QED BY <2>1, SlotsAssumption DEF is_within_window, OpenSlots, Wraps, Slots
<1> QED BY <1>1, DWHolds, PTL

\* A window within a day: while the job waits, the window is never open.
THEOREM NearestForSameDay == Spec => []NearestSameDay
<1>1. DWInv => NearestSameDay
  <2> SUFFICES ASSUME DWInv, state = "deferred", now # due, ~Wraps(w)
               PROVE  ~is_within_window(w, now)
    BY DEF NearestSameDay
  <2>1. PICK t \in Time : due = next_window_start(w, t) /\ ~Before(now, t)
    BY DEF DWInv
  <2>2. now \in Time /\ due \in Time /\ ~Before(due, now)
    BY DEF DWInv, DWType
  <2>3. Before(now, due)
    BY <2>2 DEF Before, Time, Slots
  <2>4. w \in Window /\ Usable(w)
    BY WindowUsable DEF DWInv
  <2> QED BY <2>1, <2>2, <2>3, <2>4, NearestWithinDay
<1> QED BY <1>1, DWHolds, PTL

\* A job that fires finds the window open: nothing is put off twice.
THEOREM PutOffOnce == Spec => DeferredOnce
<1>1. DWInv /\ [Next]_vars => [state = "deferred" => state' = "ran" \/ due' = due]_vars
  <2> SUFFICES ASSUME DWInv, Next, state = "deferred"
               PROVE  state' = "ran" \/ due' = due
    BY DEF vars
  <2>1. is_within_window(w, due)
    BY DEF DWInv
  <2>2. CASE FireRenew
    BY <2>1, <2>2 DEF FireRenew, Attempt
  <2> QED BY <2>2 DEF Next, Ask, Fire, FireDeploy, Tick, Done, vars
<1> QED BY <1>1, DWHolds, PTL DEF Spec, DeferredOnce
==============================================================================
