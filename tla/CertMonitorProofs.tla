-------------------------- MODULE CertMonitorProofs --------------------------
(***************************************************************************)
(* Theorems about CertMonitor for any domains, thresholds, number of       *)
(* threads and faults.                                                     *)
(***************************************************************************)
EXTENDS CertMonitor, TLAPS

\* The days left that a check still has to look at.
Todos == UNION {[seen -> 0..Lifetime] : seen \in SUBSET Domains}

\* A check with one certificate fewer.
LEMMA TodoShrinks ==
    ASSUME todo \in Todos, NEW d
    PROVE  [e \in DOMAIN todo \ {d} |-> todo[e]] \in Todos
<1>1. PICK seen \in SUBSET Domains : todo \in [seen -> 0..Lifetime]
  BY DEF Todos
<1>2. [e \in DOMAIN todo \ {d} |-> todo[e]] \in [seen \ {d} -> 0..Lifetime]
  BY <1>1
<1> QED BY <1>2 DEF Todos

LEMMA NothingTodo == Nothing \in Todos
<1>1. Nothing \in [{} -> 0..Lifetime]
  BY DEF Nothing
<1> QED BY <1>1 DEF Todos

\* Starting or putting off a renewal keeps the types.
LEMMA RunRenewType ==
    ASSUME TypeOK, NEW by \in Threads, NEW d \in Domains, run_renew(by, d)
    PROVE  jobs' \in SUBSET Domains /\ runs' \in SUBSET [by : Threads, domain : Domains]
BY DEF TypeOK, run_renew, Starts

\* Every action keeps the types: the inductive step of TypeOK.
LEMMA TypeStep ==
    ASSUME TypeOK, [Next]_vars
    PROVE  TypeOK'
<1> USE MonitorAssumption
<1>0. todo \in Todos
  BY DEF TypeOK, Todos
<1>1. CASE LoadCerts
  <2>1. PICK seen \in SUBSET Domains : todo' = [d \in seen |-> left[d]]
    BY <1>1 DEF LoadCerts
  <2>2. todo' \in [seen -> 0..Lifetime]
    BY <2>1 DEF TypeOK
  <2>3. todo' \in Todos
    BY <2>2 DEF Todos
  <2> QED BY <1>1, <2>3 DEF LoadCerts, TypeOK, Todos, pool
<1>2. CASE CheckEnds
  BY <1>2, NothingTodo DEF CheckEnds, TypeOK, Todos, pool
<1>3. ASSUME NEW d \in Domains, check_day_threshold(d) PROVE TypeOK'
  <2>1. todo' \in Todos
    BY <1>0, <1>3, TodoShrinks DEF check_day_threshold
  <2>2. sent' \in [Domains -> SUBSET warn_days]
    BY <1>3 DEF check_day_threshold, TypeOK, NewWarnings
  <2>3. renewing' \subseteq Domains /\ jobs' \in SUBSET Domains
           /\ runs' \in SUBSET [by : Threads, domain : Domains]
    BY <1>3, RunRenewType DEF check_day_threshold, TypeOK, Threads
  <2> QED BY <1>3, <2>1, <2>2, <2>3 DEF check_day_threshold, TypeOK, Todos
<1>4. ASSUME NEW x \in queued, TakeJob(x) PROVE TypeOK'
  <2>1. x.domain \in Domains
    BY DEF TypeOK
  <2>2. jobs' \in SUBSET Domains /\ runs' \in SUBSET [by : Threads, domain : Domains]
    BY <1>4, <2>1, RunRenewType DEF TakeJob, TypeOK, Threads
  <2> QED BY <1>4, <2>1, <2>2 DEF TakeJob, TypeOK
<1>5. ASSUME NEW d \in Domains, acme_renew(d) PROVE TypeOK'
  <2>1. jobs' \in SUBSET Domains /\ runs' \in SUBSET [by : Threads, domain : Domains]
    BY <1>5, RunRenewType DEF acme_renew, Threads
  <2> QED BY <1>5, <2>1 DEF acme_renew, TypeOK
<1>6. ASSUME NEW x, RenewSucceeds(x) PROVE TypeOK'
  <2>1. left' \in [Domains -> 0..Lifetime]
    BY <1>6 DEF RenewSucceeds, TypeOK
  <2> QED BY <1>6, <2>1 DEF RenewSucceeds, TypeOK, pool
<1>7. ASSUME NEW x, RenewFails(x) PROVE TypeOK'
  BY <1>7 DEF RenewFails, TypeOK, pool
<1>8. CASE StartProcess /\ UNCHANGED <<faults, left, open>>
  BY <1>8, NothingTodo DEF StartProcess, TypeOK, Todos
<1>9. ASSUME NEW x, RenewRaises(x) PROVE TypeOK'
  <2>1. CASE x.by # "check" /\ UNCHANGED <<phase, checking, todo, sent, renewing, pool>>
    BY <1>9, <2>1 DEF RenewRaises, StartProcess, TypeOK, pool
  <2>2. CASE phase # "starting" /\ x.by = "check"
    BY <1>9, <2>2, NothingTodo DEF RenewRaises, TypeOK, Todos, pool
  <2> QED BY <1>8, <1>9, <2>1, <2>2 DEF RenewRaises
<1>10. CASE stop
  BY <1>10 DEF stop, ShutsDown, TypeOK
<1>11. CASE DayPasses
  <2>1. left' \in [Domains -> 0..Lifetime]
    BY <1>11 DEF DayPasses, TypeOK
  <2> QED BY <1>11, <2>1 DEF DayPasses, TypeOK, pool
<1>12. CASE OpenWindow
  <2> DEFINE taken == {x.domain : x \in queued} \cup {x.domain : x \in {y \in runs : y.by = "job"}}
             due   == jobs \ taken
  <2>1. PICK soon \in SUBSET due :
           queued' = queued \cup {[domain |-> d, free |-> d \in soon] : d \in due}
    BY <1>12 DEF OpenWindow
  <2> HIDE DEF taken
  <2>2. \A d \in due : [domain |-> d, free |-> d \in soon] \in [domain : Domains, free : BOOLEAN]
    BY <2>1 DEF TypeOK
  <2>3. queued' \subseteq [domain : Domains, free : BOOLEAN]
    BY <2>1, <2>2 DEF TypeOK
  <2> QED BY <1>12, <2>3 DEF OpenWindow, TypeOK
<1>13. CASE CloseWindow
  BY <1>13 DEF CloseWindow, TypeOK, pool
<1>14. CASE UNCHANGED vars
  BY <1>14 DEF vars, pool, TypeOK
<1>15. CASE stop_in_run_renew
  <2>1. /\ phase' = "stopping" /\ jobs' = {}
        /\ UNCHANGED <<faults, left, missed, runs, open>>
    BY <1>15 DEF stop_in_run_renew, ShutsDown
  <2>2. CASE queued' \subseteq queued /\ UNCHANGED <<checking, todo, sent, renewing>>
    BY <2>1, <2>2 DEF TypeOK
  <2>3. ASSUME NEW d \in DOMAIN todo,
               renewing' = renewing \cup {d}, sent' = [sent EXCEPT ![d] = @ \cup NewWarnings(d, todo[d])],
               checking' = FALSE, todo' = Nothing, queued' = queued
        PROVE  TypeOK'
    <3>1. d \in Domains
      BY <1>0 DEF Todos
    <3>2. sent' \in [Domains -> SUBSET warn_days]
      BY <2>3 DEF TypeOK, NewWarnings
    <3> QED BY <2>1, <2>3, <3>1, <3>2, NothingTodo DEF TypeOK, Todos
  <2> QED BY <1>15, <2>2, <2>3 DEF stop_in_run_renew
<1> QED
  BY <1>1, <1>2, <1>3, <1>4, <1>5, <1>6, <1>7, <1>8, <1>9, <1>10, <1>11, <1>12, <1>13, <1>14, <1>15
  DEF Next, CheckThread, Commands, Exit, Restart

LEMMA TypeInit == Init => TypeOK
BY MonitorAssumption, NothingTodo DEF Init, TypeOK, Todos

\* Every variable of the monitor keeps its type, for any domains and faults.
THEOREM TypeCorrect == Spec => []TypeOK
BY TypeInit, TypeStep, PTL DEF Spec

\* Jobs, jobs in the pool and commands for d: there is at most one of them, and
\* none before d is in _renewing.
Queued(d)  == {x \in queued : x.domain = d}
Running(d) == {x \in runs : x.domain = d}

AtMostOne(S) == \A x, y \in S : x = y

OneFor(d) ==
    /\ AtMostOne(Queued(d)) /\ AtMostOne(Running(d))
    /\ Queued(d) = {} \/ Running(d) = {}
    /\ d \in jobs => Queued(d) = {} /\ Running(d) = {}
    /\ d \in jobs \/ Queued(d) # {} \/ Running(d) # {} => d \in renewing

MonitorInv == TypeOK /\ \A d \in Domains \ Manual : OneFor(d)

\* Something that is started or put off for e while nothing is held for it.
LEMMA RunRenewKeeps ==
    ASSUME NEW by \in Threads, NEW e \in Domains, run_renew(by, e),
           NEW d \in Domains, OneFor(d), queued' \subseteq queued,
           renewing \subseteq renewing',
           d = e => /\ d \in renewing' /\ d \notin jobs
                    /\ Running(d) = {} /\ Queued(d)' = {}
    PROVE  OneFor(d)'
<1>1. Queued(d)' \subseteq Queued(d)
  BY DEF Queued
<1>2. CASE jobs' = jobs /\ runs' = runs \cup {[by |-> by, domain |-> e]}
  <2>1. Running(d)' = IF d = e THEN {[by |-> by, domain |-> e]} ELSE Running(d)
    BY <1>2 DEF Running
  <2> QED BY <1>1, <1>2, <2>1 DEF OneFor, AtMostOne
<1>3. CASE jobs' = jobs \cup {e} /\ runs' = runs
  <2>1. Running(d)' = Running(d)
    BY <1>3 DEF Running
  <2> QED BY <1>1, <1>3, <2>1 DEF OneFor, AtMostOne
<1> QED BY <1>2, <1>3 DEF run_renew, Starts

\* Steps that only take jobs and commands away.
LEMMA FewerKeeps ==
    ASSUME NEW d \in Domains, OneFor(d), jobs' \subseteq jobs, queued' \subseteq queued,
           runs' \subseteq runs, renewing' = renewing
    PROVE  OneFor(d)'
BY DEF OneFor, AtMostOne, Queued, Running

LEMMA StartKeeps ==
    ASSUME StartProcess, NEW d \in Domains
    PROVE  OneFor(d)'
BY DEF StartProcess, OneFor, AtMostOne, Queued, Running

\* MonitorInv is inductive.
LEMMA MonitorStep ==
    ASSUME MonitorInv, [Next]_vars
    PROVE  MonitorInv'
<1> SUFFICES ASSUME NEW d \in Domains \ Manual PROVE OneFor(d)'
  BY TypeStep DEF MonitorInv
<1>0. OneFor(d) /\ TypeOK
  BY DEF MonitorInv
<1>1. CASE LoadCerts \/ CheckEnds \/ DayPasses \/ CloseWindow \/ UNCHANGED vars
  BY <1>0, <1>1, FewerKeeps DEF LoadCerts, CheckEnds, DayPasses, CloseWindow, vars, pool
<1>2. ASSUME NEW e \in Domains, check_day_threshold(e) PROVE OneFor(d)'
  <2>1. queued' = queued /\ Queued(d)' = Queued(d)
    BY <1>2 DEF check_day_threshold, Queued
  <2>2. CASE e \notin renewing /\ renewing' = renewing \cup {e} /\ run_renew("check", e)
    BY <1>0, <2>1, <2>2, RunRenewKeeps DEF OneFor, Threads
  <2>3. CASE UNCHANGED <<renewing, jobs, runs>>
    BY <1>0, <2>1, <2>3, FewerKeeps
  <2> QED BY <1>2, <2>2, <2>3 DEF check_day_threshold
<1>3. ASSUME NEW x \in queued, TakeJob(x) PROVE OneFor(d)'
  <2>1. x.domain \in Domains /\ queued' = queued \ {x} /\ renewing' = renewing
    BY <1>0, <1>3 DEF TakeJob, TypeOK
  <2>2. CASE run_renew("job", x.domain)
    <3>1. ASSUME d = x.domain
          PROVE  d \in renewing /\ d \notin jobs /\ Running(d) = {} /\ Queued(d)' = {}
      BY <1>0, <2>1, <3>1 DEF OneFor, AtMostOne, Queued
    <3> QED BY <1>0, <2>1, <2>2, <3>1, RunRenewKeeps DEF Threads
  <2>3. CASE UNCHANGED <<runs, jobs>>
    BY <1>0, <2>1, <2>3, FewerKeeps
  <2> QED BY <1>3, <2>2, <2>3 DEF TakeJob
<1>4. ASSUME NEW e \in Domains, acme_renew(e) PROVE OneFor(d)'
  BY <1>0, <1>4, RunRenewKeeps DEF acme_renew, Threads
<1>5. ASSUME NEW x, RenewSucceeds(x) \/ RenewFails(x) PROVE OneFor(d)'
  BY <1>0, <1>5, FewerKeeps DEF RenewSucceeds, RenewFails, pool
<1>6. ASSUME NEW x, RenewRaises(x) PROVE OneFor(d)'
  <2>1. CASE StartProcess
    BY <2>1, StartKeeps
  <2>2. CASE runs' = runs \ {x} /\ UNCHANGED <<renewing, pool>>
    BY <1>0, <2>2, FewerKeeps DEF pool
  <2> QED BY <1>6, <2>1, <2>2 DEF RenewRaises
<1>7. CASE stop
  BY <1>0, <1>7, FewerKeeps DEF stop, ShutsDown
<1>8. CASE Exit \/ Restart
  BY <1>8, StartKeeps DEF Exit, Restart
<1>9. CASE OpenWindow
  <2> DEFINE taken == {x.domain : x \in queued} \cup {x.domain : x \in {y \in runs : y.by = "job"}}
             due   == jobs \ taken
  <2>1. PICK soon \in SUBSET due :
           queued' = queued \cup {[domain |-> e, free |-> e \in soon] : e \in due}
    BY <1>9 DEF OpenWindow
  <2>2. due \subseteq jobs /\ jobs' = {} /\ runs' = runs /\ renewing' = renewing
    BY <1>9 DEF OpenWindow
  <2> HIDE DEF due
  <2>3. Queued(d)' = IF d \in due THEN Queued(d) \cup {[domain |-> d, free |-> d \in soon]}
                     ELSE Queued(d)
    BY <2>1 DEF Queued
  <2>4. Running(d)' = Running(d)
    BY <2>2 DEF Running
  <2> QED BY <1>0, <2>2, <2>3, <2>4 DEF OneFor, AtMostOne
<1>10. CASE stop_in_run_renew
  <2>1. /\ jobs' = {} /\ runs' = runs /\ queued' \subseteq queued /\ renewing \subseteq renewing'
    BY <1>10 DEF stop_in_run_renew, ShutsDown
  <2> QED BY <1>0, <2>1 DEF OneFor, AtMostOne, Queued, Running
<1> QED
  BY <1>1, <1>2, <1>3, <1>4, <1>5, <1>6, <1>7, <1>8, <1>9, <1>10
  DEF Next, CheckThread, Commands

\* _renewing, and the way in which a job takes over what a check put off, keep
\* two commands from running for a domain that clients do not renew by hand.
THEOREM OneRenewalAtATime == Spec => []NoConcurrentRenewals
<1>1. Init => MonitorInv
  BY TypeInit DEF Init, MonitorInv, OneFor, AtMostOne, Queued, Running
<1>2. MonitorInv => NoConcurrentRenewals
  <2> SUFFICES ASSUME MonitorInv, NEW x \in runs, x.domain \notin Manual
               PROVE  /\ \A y \in runs : x.domain = y.domain => x = y
                      /\ x.domain \notin jobs /\ \A y \in queued : y.domain # x.domain
    BY DEF NoConcurrentRenewals
  <2>1. OneFor(x.domain) /\ x \in Running(x.domain)
    BY DEF MonitorInv, TypeOK, Running
  <2> QED BY <2>1 DEF OneFor, AtMostOne, Queued, Running
<1> QED BY <1>1, <1>2, MonitorStep, PTL DEF Spec
==============================================================================
