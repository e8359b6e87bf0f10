-------------------------- MODULE DeployManagerProofs ------------------------
(***************************************************************************)
(* Theorems about DeployManager for any requests, targets, windows, job    *)
(* names, numbers of threads and faults.                                   *)
(***************************************************************************)
EXTENDS DeployManager, WindowTimeProofs, FiniteSetTheorems

AllJobs == InPool \cup {jobs[n] : n \in DOMAIN jobs}

\* A deferred deployment is due when its target's window is open.
LEMMA DueOpen ==
    ASSUME TypeOK, NEW r \in Requests, NEW t \in Targets, ~Open(r, t)
    PROVE  /\ Due(r, t) \in Time /\ WindowOf[t] # NoWindow
           /\ is_within_window(WindowOf[t], Due(r, t))
<1>1. WindowOf[t] # NoWindow /\ WindowOf[t] \in Window /\ Usable(WindowOf[t])
  BY ManagerAssumption DEF Open, Usable
<1>2. at[r] \in Time
  BY DEF TypeOK
<1> QED BY <1>1, <1>2, NextStartIsOpen DEF Due

\* Every variable keeps its type, and the pool stays finite.
TypeInv == TypeOK /\ IsFiniteSet(running)

\* Steps of requests keep the types.
LEMMA TypeStepRequest ==
    ASSUME TypeInv, NEW r \in Requests, Start(r) \/ Serve(r)
    PROVE  TypeInv'
<1>0. domain[r] \in Domains
  BY DEF TypeInv, TypeOK
<1>1. CASE Start(r)
  BY <1>1 DEF Start, TypeInv, TypeOK, jobVars, devVars, NameOf, JobId
<1>2. CASE Return(r)
  BY <1>2 DEF Return, TypeInv, TypeOK, jobVars, devVars, NameOf, JobId
<1>3. CASE EndOk(r) \/ EndError(r)
  <2>1. call[r] \in Targets
    BY <1>3 DEF EndOk, EndError, TypeInv, TypeOK
  <2>2. on' \in [Targets \X Domains -> Requests \cup {0}]
    BY <1>0, <1>3, <2>1 DEF EndOk, EndError, Installs, TypeInv, TypeOK
  <2>3. /\ answer' \in [Pairs -> {"none", "ok", "error", "deferred"}]
        /\ todo' \in [Requests -> SUBSET Targets]
        /\ call' \in [Requests -> Targets \cup {NoTarget}]
    <3>1. PICK a \in {"ok", "error"} : Answers(r, a)
      BY <1>3 DEF EndOk, EndError
    <3>2. <<r, call[r]>> \in Pairs
      BY <2>1 DEF Pairs
    <3> QED BY <3>1, <3>2 DEF Answers, TypeInv, TypeOK
  <2>4. late' \subseteq Pairs
    BY <1>3, <2>1 DEF EndOk, EndError, TypeInv, TypeOK, Pairs
  <2> QED BY <1>3, <2>2, <2>3, <2>4 DEF EndOk, EndError, TypeInv, TypeOK, jobVars, NameOf, JobId
<1>4. ASSUME NEW t \in Targets, Begin(r, t) PROVE TypeInv'
  BY <1>4 DEF Begin, TypeInv, TypeOK, jobVars, devVars, NameOf, JobId
<1>5. ASSUME NEW t \in Targets, Defer(r, t) PROVE TypeInv'
  <2> DEFINE n   == JobId(r, t)
             job == [req |-> r, target |-> t, due |-> Due(r, t)]
  <2>1. /\ jobs' = [m \in DOMAIN jobs \cup {n} |-> IF m = n THEN job ELSE jobs[m]]
        /\ fate' = IF n \in DOMAIN jobs
                   THEN [fate EXCEPT ![<<jobs[n].req, jobs[n].target>>] = "replaced"]
                   ELSE fate
    BY <1>5 DEF Defer
  <2>2. Due(r, t) \in Time
    BY <1>5, DueOpen DEF Defer, TypeInv
  <2>3. job \in Job /\ NameOf(job) = n
    BY <2>2 DEF Job, NameOf
  <2>4. domain' = domain
    BY <1>5 DEF Defer
  <2>5. \A m \in DOMAIN jobs' : jobs'[m] \in Job /\ NameOf(jobs[m])' = m
    BY <2>1, <2>3, <2>4 DEF TypeInv, TypeOK, NameOf, JobId
  <2>6. fate' \in [Pairs -> {"none", "ran", "missed", "replaced", "lost"}]
    BY <2>1 DEF TypeInv, TypeOK
  <2>7. /\ answer' \in [Pairs -> {"none", "ok", "error", "deferred"}]
        /\ todo' \in [Requests -> SUBSET Targets]
    BY <1>5 DEF Defer, TypeInv, TypeOK, Pairs
  <2> QED BY <1>5, <2>5, <2>6, <2>7 DEF Defer, devVars, TypeInv, TypeOK
<1> QED BY <1>1, <1>2, <1>3, <1>4, <1>5 DEF Serve

\* Steps of the scheduler and of the targets keep the types.
LEMMA TypeStepScheduler ==
    ASSUME TypeInv,
           \/ \E n \in DOMAIN jobs : Submit(n)
           \/ \E x \in waiting : TakeJob(x)
           \/ \E j \in running : _deferred_deploy(j)
           \/ \E x \in late : Lands(x)
    PROVE  TypeInv'
<1>1. ASSUME NEW n \in DOMAIN jobs, Submit(n) PROVE TypeInv'
  <2>1. jobs[n] \in Job
    BY DEF TypeInv, TypeOK
  <2>2. /\ waiting' \subseteq [job : Job, free : BOOLEAN]
        /\ fate' \in [Pairs -> {"none", "ran", "missed", "replaced", "lost"}]
    <3>1. [job |-> jobs[n], free |-> Cardinality(InPool) < Workers] \in [job : Job, free : BOOLEAN]
      BY <2>1
    <3>2. waiting' \in {waiting, waiting \cup
                           {[job |-> jobs[n], free |-> Cardinality(InPool) < Workers]}}
      BY <1>1 DEF Submit
    <3>3. fate' \in [Pairs -> {"none", "ran", "missed", "replaced", "lost"}]
      BY <1>1, <2>1 DEF Submit, Settle, TypeInv, TypeOK
    <3> QED BY <3>1, <3>2, <3>3 DEF TypeInv, TypeOK
  <2>3. \A m \in DOMAIN jobs' : jobs'[m] \in Job /\ NameOf(jobs[m])' = m
    BY <1>1 DEF Submit, reqVars, TypeInv, TypeOK, NameOf, JobId
  <2> QED BY <1>1, <2>2, <2>3 DEF Submit, reqVars, devVars, TypeInv, TypeOK
<1>2. ASSUME NEW x \in waiting, TakeJob(x) PROVE TypeInv'
  <2>1. x.job \in Job
    BY DEF TypeInv, TypeOK
  <2>2. /\ running' \subseteq Job
        /\ fate' \in [Pairs -> {"none", "ran", "missed", "replaced", "lost"}]
    BY <1>2, <2>1 DEF TakeJob, Settle, TypeInv, TypeOK
  <2>3. IsFiniteSet(running') /\ Cardinality(running') <= Workers
    <3>1. Cardinality(running) \in Nat /\ Cardinality(running) < Workers /\ Workers \in Nat
      BY <1>2, FS_CardinalityType, ManagerAssumption DEF TakeJob, TypeInv
    <3>2. CASE running' = running
      BY <3>1, <3>2 DEF TypeInv
    <3>3. CASE running' = running \cup {x.job}
      <4>1. /\ IsFiniteSet(running \cup {x.job})
            /\ Cardinality(running \cup {x.job}) <= Cardinality(running) + 1
        <5>1. PICK j : j = x.job
          OBVIOUS
        <5>2. /\ IsFiniteSet(running \cup {j})
              /\ Cardinality(running \cup {j}) = Cardinality(running)
                    \/ Cardinality(running \cup {j}) = Cardinality(running) + 1
          BY FS_AddElement DEF TypeInv
        <5> QED BY <3>1, <5>1, <5>2
      <4>2. Cardinality(running \cup {x.job}) \in Nat
        BY <4>1, FS_CardinalityType
      <4> QED BY <3>1, <3>3, <4>1, <4>2
    <3> QED BY <1>2, <3>2, <3>3 DEF TakeJob
  <2> QED BY <1>2, <2>2, <2>3 DEF TakeJob, reqVars, devVars, TypeInv, TypeOK, NameOf, JobId
<1>3. ASSUME NEW j \in running, _deferred_deploy(j) PROVE TypeInv'
  <2>1. j \in Job /\ domain[j.req] \in Domains
    BY DEF TypeInv, TypeOK, Job
  <2>4. j.req \in Requests /\ j.target \in Targets /\ <<j.req, j.target>> \in Pairs
    BY <2>1 DEF Job, Pairs
  <2>2. /\ on' \in [Targets \X Domains -> Requests \cup {0}]
        /\ late' \subseteq Pairs
        /\ fate' \in [Pairs -> {"none", "ran", "missed", "replaced", "lost"}]
    <3>1. on' \in [Targets \X Domains -> Requests \cup {0}]
      BY <1>3, <2>1, <2>4 DEF _deferred_deploy, Installs, TypeInv, TypeOK
    <3>2. late' \subseteq Pairs
      BY <1>3, <2>4 DEF _deferred_deploy, TypeInv, TypeOK
    <3>3. fate' \in [Pairs -> {"none", "ran", "missed", "replaced", "lost"}]
      BY <1>3 DEF _deferred_deploy, Settle, TypeInv, TypeOK
    <3> QED BY <3>1, <3>2, <3>3
  <2>3. IsFiniteSet(running') /\ Cardinality(running') <= Workers
    <3>1. /\ Cardinality(running) \in Nat /\ Workers \in Nat
          /\ IsFiniteSet(running \ {j}) /\ Cardinality(running \ {j}) = Cardinality(running) - 1
      BY FS_RemoveElement, FS_CardinalityType, ManagerAssumption DEF TypeInv
    <3> QED BY <1>3, <3>1 DEF _deferred_deploy, TypeInv, TypeOK
  <2> QED BY <1>3, <2>2, <2>3 DEF _deferred_deploy, reqVars, TypeInv, TypeOK, NameOf, JobId
<1>4. ASSUME NEW x \in late, Lands(x) PROVE TypeInv'
  <2>1. x \in Pairs /\ x[1] \in Requests /\ x[2] \in Targets /\ domain[x[1]] \in Domains
    BY DEF TypeInv, TypeOK, Pairs
  <2>2. on' \in [Targets \X Domains -> Requests \cup {0}] /\ late' \subseteq Pairs
    BY <1>4, <2>1 DEF Lands, Installs, TypeInv, TypeOK
  <2> QED BY <1>4, <2>2 DEF Lands, reqVars, jobVars, TypeInv, TypeOK, NameOf, JobId
<1> QED BY <1>1, <1>2, <1>3, <1>4

\* Every action keeps the types.
LEMMA TypeStep ==
    ASSUME TypeInv, [Next]_vars
    PROVE  TypeInv'
<1>1. CASE Tick
  <2>1. now' \in Time
    BY <1>1, SlotsAssumption DEF Tick, After, TypeInv, TypeOK, Time, Slots
  <2> QED BY <1>1, <2>1 DEF Tick, reqVars, jobVars, devVars, TypeInv, TypeOK, NameOf, JobId
<1>2. CASE Restart
  <2>1. IsFiniteSet(running') /\ Cardinality(running') <= Workers /\ running' = {}
    BY <1>2, FS_EmptySet, ManagerAssumption DEF Restart
  <2>2. fate' \in [Pairs -> {"none", "ran", "missed", "replaced", "lost"}]
    BY <1>2 DEF Restart, TypeInv, TypeOK
  <2>3. /\ pc' \in [Requests -> {"new", "busy", "done", "lost"}]
        /\ call' \in [Requests -> Targets \cup {NoTarget}]
        /\ waiting' = {} /\ DOMAIN jobs' = {} /\ serving' \in BOOLEAN
    BY <1>2 DEF Restart, TypeInv, TypeOK
  <2>4. late' \subseteq Pairs
    BY <1>2 DEF Restart, TypeInv, TypeOK, Pairs, Job
  <2> QED BY <1>2, <2>1, <2>2, <2>3, <2>4 DEF Restart, TypeInv, TypeOK
<1>4. CASE Close
  <2>1. /\ fate' \in [Pairs -> {"none", "ran", "missed", "replaced", "lost"}]
        /\ DOMAIN jobs' = {} /\ serving' \in BOOLEAN
    BY <1>4 DEF Close, TypeInv, TypeOK
  <2> QED BY <1>4, <2>1 DEF Close, reqVars, devVars, TypeInv, TypeOK
<1>3. CASE UNCHANGED vars
  BY <1>3 DEF vars, reqVars, jobVars, devVars, TypeInv, TypeOK, NameOf, JobId
<1> QED BY <1>1, <1>2, <1>3, <1>4, TypeStepRequest, TypeStepScheduler DEF Next, Done

LEMMA TypeInit == Init => TypeInv
<1> SUFFICES ASSUME Init PROVE TypeInv
  OBVIOUS
<1>1. now \in Time
  BY SlotsAssumption DEF Init, Time, Slots
<1>2. IsFiniteSet(running) /\ Cardinality(running) <= Workers
  BY FS_EmptySet, ManagerAssumption DEF Init
<1> QED BY <1>1, <1>2, ManagerAssumption DEF Init, TypeInv, TypeOK, Pairs

\* Every variable keeps its type: the pool never runs more jobs than it has threads.
THEOREM TypeCorrect == Spec => []TypeOK
<1>1. TypeInv => TypeOK
  BY DEF TypeInv
<1> QED BY <1>1, TypeInit, TypeStep, PTL DEF Spec

(***************************************************************************)
(* The jobs in the scheduler's hands, the requests and their order.        *)
(***************************************************************************)
JobOK(j) ==
    /\ j \in Job /\ WindowOf[j.target] # NoWindow
    /\ is_within_window(WindowOf[j.target], j.due)
    /\ answer[<<j.req, j.target>>] = "deferred"

ReqOK(r) ==
    /\ call[r] # NoTarget => pc[r] = "busy" /\ call[r] \in todo[r]
    /\ \A t \in Targets :
          /\ answer[<<r, t>>] = "deferred" => t \notin todo[r] /\ pc[r] # "new"
          /\ fate[<<r, t>>] # "none" => answer[<<r, t>>] = "deferred"

\* Requests start in their order, and one that is busy met those that came later.
OrderOK(r, q) == r < q /\ pc[q] # "new" =>
    pc[r] # "new" /\ (pc[r] = "busy" => <<r, q>> \in met)

ManagerInv ==
    /\ TypeInv
    /\ \A j \in AllJobs : JobOK(j)
    /\ \A r \in Requests : ReqOK(r)
    /\ \A r, q \in Requests : OrderOK(r, q)

\* A step adds no job but the one of Defer.
LEMMA JobSets ==
    ASSUME [Next]_vars
    PROVE  \/ AllJobs' \subseteq AllJobs
           \/ \E r \in Requests, t \in Targets :
                 /\ Defer(r, t)
                 /\ AllJobs' \subseteq AllJobs \cup
                       {[req |-> r, target |-> t, due |-> Due(r, t)]}
<1>1. ASSUME NEW r \in Requests, NEW t \in Targets, Defer(r, t)
      PROVE  AllJobs' \subseteq AllJobs \cup {[req |-> r, target |-> t, due |-> Due(r, t)]}
  BY <1>1 DEF Defer, AllJobs, InPool
<1>2. ASSUME NEW n \in DOMAIN jobs, Submit(n) PROVE AllJobs' \subseteq AllJobs
  <2>1. \A x \in waiting' : x.job \in AllJobs
    <3> DEFINE new == [job |-> jobs[n], free |-> Cardinality(InPool) < Workers]
    <3>1. new.job = jobs[n] /\ waiting' \in {waiting, waiting \cup {new}}
      BY <1>2 DEF Submit
    <3> HIDE DEF new
    <3> QED BY <3>1 DEF AllJobs, InPool
  <2>2. \A m \in DOMAIN jobs' : jobs'[m] \in AllJobs
    BY <1>2 DEF Submit, AllJobs
  <2> QED BY <1>2, <2>1, <2>2 DEF Submit, AllJobs, InPool
<1>3. ASSUME NEW x \in waiting, TakeJob(x) PROVE AllJobs' \subseteq AllJobs
  BY <1>3 DEF TakeJob, AllJobs, InPool
<1>4. ASSUME NEW j \in running, _deferred_deploy(j) PROVE AllJobs' \subseteq AllJobs
  BY <1>4 DEF _deferred_deploy, AllJobs, InPool
<1>5. CASE Restart
  BY <1>5 DEF Restart, AllJobs, InPool
<1>6. ASSUME NEW r \in Requests,
             Start(r) \/ EndOk(r) \/ EndError(r) \/ Return(r) \/ \E t \in Targets : Begin(r, t)
      PROVE  AllJobs' \subseteq AllJobs
  BY <1>6 DEF Start, EndOk, EndError, Return, Begin, jobVars, devVars, AllJobs, InPool
<1>7. CASE Tick \/ (\E x \in late : Lands(x)) \/ UNCHANGED vars
  BY <1>7 DEF Tick, Lands, vars, jobVars, AllJobs, InPool
<1>8. CASE Close
  BY <1>8 DEF Close, AllJobs, InPool
<1> QED BY <1>1, <1>2, <1>3, <1>4, <1>5, <1>6, <1>7, <1>8 DEF Next, Serve, Done

\* What a step of a request does to the request.
LEMMA RequestMoves ==
    ASSUME ManagerInv, NEW r \in Requests, Start(r) \/ Serve(r)
    PROVE  /\ domain' = domain /\ now' = now
           /\ \A q \in Requests \ {r} : pc'[q] = pc[q] /\ todo'[q] = todo[q] /\ call'[q] = call[q]
           /\ \A q \in Requests \ {r}, t \in Targets : answer'[<<q, t>>] = answer[<<q, t>>]
           /\ \A t \in Targets : answer[<<r, t>>] = "deferred" => answer'[<<r, t>>] = "deferred"
           /\ met \subseteq met' /\ (Start(r) \/ (met' = met /\ pc[r] = "busy"))
           /\ pc'[r] # "new" /\ todo'[r] \subseteq todo[r]
<1>0. /\ TypeOK /\ ReqOK(r)
      /\ pc \in [Requests -> {"new", "busy", "done", "lost"}]
      /\ todo \in [Requests -> SUBSET Targets]
      /\ call \in [Requests -> Targets \cup {NoTarget}]
      /\ answer \in [Pairs -> {"none", "ok", "error", "deferred"}]
  BY DEF ManagerInv, TypeInv, TypeOK
<1>1. CASE Start(r)
  BY <1>0, <1>1 DEF Start
<1>2. CASE Return(r)
  BY <1>0, <1>2 DEF Return
<1>3. CASE EndOk(r) \/ EndError(r)
  <2>1. /\ call[r] \in Targets /\ call[r] \in todo[r] /\ pc[r] = "busy"
        /\ answer[<<r, call[r]>>] # "deferred"
    BY <1>0, <1>3 DEF EndOk, EndError, ReqOK
  <2>2. PICK a : Answers(r, a)
    BY <1>3 DEF EndOk, EndError
  <2>3. /\ \A q \in Requests \ {r} : todo'[q] = todo[q] /\ call'[q] = call[q]
        /\ todo'[r] \subseteq todo[r]
    BY <1>0, <2>2 DEF Answers
  <2>4. \A q \in Requests, t \in Targets :
           <<q, t>> # <<r, call[r]>> => answer'[<<q, t>>] = answer[<<q, t>>]
    BY <1>0, <2>2 DEF Answers, Pairs
  <2> QED BY <1>3, <2>1, <2>3, <2>4 DEF EndOk, EndError
<1>4. ASSUME NEW t \in Targets, Begin(r, t)
      PROVE  /\ \A q \in Requests \ {r} : call'[q] = call[q]
             /\ pc[r] = "busy" /\ UNCHANGED <<domain, now, pc, todo, answer, met>>
  BY <1>0, <1>4 DEF Begin, Reaches
<1>5. ASSUME NEW t \in Targets, Defer(r, t)
      PROVE  /\ \A q \in Requests \ {r} : todo'[q] = todo[q]
             /\ todo'[r] \subseteq todo[r]
             /\ \A q \in Requests, u \in Targets :
                   answer'[<<q, u>>] = IF q = r /\ u = t THEN "deferred" ELSE answer[<<q, u>>]
             /\ pc[r] = "busy" /\ UNCHANGED <<domain, now, pc, call, met>>
  BY <1>0, <1>5 DEF Defer, Reaches, Pairs
<1>6. CASE \E t \in Targets : Defer(r, t) \/ Begin(r, t)
  BY <1>4, <1>5, <1>6
<1> QED BY <1>1, <1>2, <1>3, <1>6 DEF Serve

\* An answer "deferred" is never taken back.
LEMMA DeferredStays ==
    ASSUME ManagerInv, [Next]_vars, NEW r \in Requests, NEW t \in Targets,
           answer[<<r, t>>] = "deferred"
    PROVE  answer'[<<r, t>>] = "deferred"
<1>1. ASSUME NEW q \in Requests, Start(q) \/ Serve(q) PROVE answer'[<<r, t>>] = "deferred"
  BY <1>1, RequestMoves
<1>2. CASE ~\E q \in Requests : Start(q) \/ Serve(q)
  BY <1>2 DEF Next, Submit, TakeJob, _deferred_deploy, Tick, Restart, Close, Lands, Done,
             vars, reqVars
<1> QED BY <1>1, <1>2

\* Only what was deferred comes to an end as a deferred deployment.
LEMMA FateOfDeferred ==
    ASSUME ManagerInv, [Next]_vars, NEW r \in Requests, NEW t \in Targets,
           fate'[<<r, t>>] # fate[<<r, t>>]
    PROVE  answer[<<r, t>>] = "deferred"
<1>0. fate \in [Pairs -> {"none", "ran", "missed", "replaced", "lost"}] /\ <<r, t>> \in Pairs
  BY DEF ManagerInv, TypeInv, TypeOK, Pairs
<1>1. ASSUME NEW j \in AllJobs, NEW what, Settle(j, what) PROVE answer[<<r, t>>] = "deferred"
  <2>1. fate' = [fate EXCEPT ![<<j.req, j.target>>] = what] /\ JobOK(j)
    BY <1>1 DEF Settle, ManagerInv
  <2>2. <<r, t>> = <<j.req, j.target>>
    BY <1>0, <2>1
  <2> QED BY <2>1, <2>2 DEF JobOK
<1>2. ASSUME NEW n \in DOMAIN jobs, Submit(n) PROVE answer[<<r, t>>] = "deferred"
  <2>1. jobs[n] \in AllJobs
    BY DEF AllJobs
  <2> QED BY <1>1, <1>2, <2>1 DEF Submit
<1>3. ASSUME NEW x \in waiting, TakeJob(x) PROVE answer[<<r, t>>] = "deferred"
  <2>1. x.job \in AllJobs
    BY DEF AllJobs, InPool
  <2> QED BY <1>1, <1>3, <2>1 DEF TakeJob
<1>4. ASSUME NEW j \in running, _deferred_deploy(j) PROVE answer[<<r, t>>] = "deferred"
  BY <1>1, <1>4 DEF _deferred_deploy, AllJobs, InPool
<1>5. ASSUME NEW q \in Requests, NEW u \in Targets, Defer(q, u)
      PROVE  answer[<<r, t>>] = "deferred"
  <2> DEFINE n == JobId(q, u)
  <2>1. n \in DOMAIN jobs /\ Settle(jobs[n], "replaced")
    BY <1>5 DEF Defer, Settle
  <2>2. jobs[n] \in AllJobs
    BY <2>1 DEF AllJobs
  <2> QED BY <1>1, <2>1, <2>2
<1>6. CASE Restart
  BY <1>0, <1>6 DEF Restart
<1>7. CASE Close
  <2>1. PICK n \in DOMAIN jobs : <<jobs[n].req, jobs[n].target>> = <<r, t>>
    BY <1>0, <1>7 DEF Close
  <2>2. JobOK(jobs[n])
    BY DEF ManagerInv, AllJobs
  <2> QED BY <2>1, <2>2 DEF JobOK
<1> QED BY <1>2, <1>3, <1>4, <1>5, <1>6, <1>7
        DEF Next, Serve, Start, EndOk, EndError, Return, Begin, Tick, Close, Lands, Done, vars

\* ManagerInv is inductive.
LEMMA ManagerInvStep ==
    ASSUME ManagerInv, [Next]_vars
    PROVE  ManagerInv'
<1>0. TypeInv /\ TypeInv' /\ TypeOK
  BY TypeStep DEF ManagerInv, TypeInv
<1>1. ASSUME NEW j \in AllJobs' PROVE JobOK(j)'
  <2>1. CASE j \in AllJobs
    <3>1. JobOK(j) /\ j.req \in Requests /\ j.target \in Targets
      BY <2>1 DEF ManagerInv, JobOK, Job
    <3> QED BY <3>1, DeferredStays DEF JobOK
  <2>2. CASE j \notin AllJobs
    <3>1. PICK r \in Requests, t \in Targets :
             Defer(r, t) /\ j = [req |-> r, target |-> t, due |-> Due(r, t)]
      BY <2>2, JobSets
    <3>2. ~Open(r, t) /\ answer'[<<r, t>>] = "deferred"
      BY <1>0, <3>1 DEF Defer, TypeOK, Pairs
    <3>3. /\ Due(r, t) \in Time /\ WindowOf[t] # NoWindow
          /\ is_within_window(WindowOf[t], Due(r, t))
      BY <1>0, <3>2, DueOpen
    <3>4. j \in Job /\ j.req = r /\ j.target = t /\ j.due = Due(r, t)
      BY <3>1, <3>3 DEF Job
    <3> QED BY <3>2, <3>3, <3>4 DEF JobOK
  <2> QED BY <2>1, <2>2
<1>2. ASSUME NEW r \in Requests PROVE ReqOK(r)'
  <2>1. \A t \in Targets : fate'[<<r, t>>] # "none" => answer'[<<r, t>>] = "deferred"
    BY FateOfDeferred, DeferredStays DEF ManagerInv, ReqOK
  <2>2. CASE Start(r)
    BY <1>0, <2>1, <2>2 DEF Start, ManagerInv, ReqOK, TypeOK
  <2>3. CASE Return(r)
    <3>1. pc'[r] = "done" /\ todo[r] = {} /\ UNCHANGED <<todo, call, answer>>
      BY <1>0, <2>3 DEF Return, TypeOK
    <3> QED BY <2>1, <3>1 DEF ManagerInv, ReqOK
  <2>4. CASE EndOk(r) \/ EndError(r)
    <3>1. call'[r] = NoTarget /\ pc'[r] = "busy"
      BY <1>0, <2>4 DEF EndOk, EndError, Answers, TypeOK, ManagerInv, ReqOK
    <3>2. PICK a \in {"ok", "error"} : Answers(r, a)
      BY <2>4 DEF EndOk, EndError
    <3>3. \A t \in Targets : answer'[<<r, t>>] = "deferred" => answer[<<r, t>>] = "deferred"
      BY <1>0, <3>2 DEF Answers, TypeOK, Pairs
    <3>4. todo'[r] \subseteq todo[r]
      BY <1>0, <3>2 DEF Answers, TypeOK
    <3> QED BY <2>1, <3>1, <3>3, <3>4 DEF ManagerInv, ReqOK
  <2>5. ASSUME NEW t \in Targets, Begin(r, t) PROVE ReqOK(r)'
    <3>1. /\ call'[r] = t /\ pc[r] = "busy" /\ t \in todo[r]
          /\ UNCHANGED <<pc, todo, answer>>
      BY <1>0, <2>5 DEF Begin, Reaches, TypeOK
    <3> QED BY <2>1, <3>1 DEF ManagerInv, ReqOK
  <2>6. ASSUME NEW t \in Targets, Defer(r, t) PROVE ReqOK(r)'
    <3>1. /\ call[r] = NoTarget /\ pc[r] = "busy" /\ UNCHANGED <<pc, call>>
          /\ todo'[r] = todo[r] \ {t}
          /\ \A u \in Targets \ {t} : answer'[<<r, u>>] = answer[<<r, u>>]
      BY <1>0, <2>6 DEF Defer, Reaches, TypeOK, Pairs
    <3> QED BY <2>1, <3>1 DEF ManagerInv, ReqOK
  <2>7. ASSUME NEW q \in Requests \ {r}, Start(q) \/ Serve(q) PROVE ReqOK(r)'
    BY <2>1, <2>7, RequestMoves DEF ManagerInv, ReqOK
  <2>8. CASE Restart
    BY <1>0, <2>1, <2>8 DEF Restart, ManagerInv, ReqOK, TypeOK
  <2>9. CASE \/ \E n \in DOMAIN jobs : Submit(n)
             \/ \E x \in waiting : TakeJob(x)
             \/ \E j \in running : _deferred_deploy(j)
             \/ \E x \in late : Lands(x)
             \/ Tick \/ Close \/ UNCHANGED vars
    <3>1. UNCHANGED <<pc, todo, call, answer>>
      BY <2>9 DEF Submit, TakeJob, _deferred_deploy, Lands, Tick, Close, reqVars, vars
    <3> QED BY <2>1, <3>1 DEF ManagerInv, ReqOK
  <2> QED BY <2>2, <2>3, <2>4, <2>5, <2>6, <2>7, <2>8, <2>9 DEF Next, Serve, Done
<1>3. ASSUME NEW r \in Requests, NEW q \in Requests, r < q, pc'[q] # "new"
      PROVE  pc'[r] # "new" /\ (pc'[r] = "busy" => <<r, q>> \in met')
  <2>1. CASE Start(q)
    <3>1. pc[r] # "new" /\ pc'[r] = pc[r] /\ r # q
      BY <1>0, <1>3, <2>1, ManagerAssumption DEF Start, TypeOK
    <3>2. pc[r] = "busy" => <<r, q>> \in met'
      BY <2>1 DEF Start, UnderWay
    <3> QED BY <3>1, <3>2
  <2>2. ASSUME NEW p \in Requests, Start(p), p # q
        PROVE  pc'[r] # "new" /\ (pc'[r] = "busy" => <<r, q>> \in met')
    <3>1. pc'[q] = pc[q] /\ pc[p] = "new" /\ met \subseteq met'
          /\ \A s \in Requests \ {p} : pc'[s] = pc[s]
      BY <1>0, <2>2 DEF Start, TypeOK
    <3>2. pc[r] # "new" /\ (pc[r] = "busy" => <<r, q>> \in met)
      BY <1>3, <3>1 DEF ManagerInv, OrderOK
    <3> QED BY <3>1, <3>2
  <2>3. ASSUME NEW p \in Requests, Serve(p)
        PROVE  pc'[r] # "new" /\ (pc'[r] = "busy" => <<r, q>> \in met')
    <3>1. /\ met \subseteq met' /\ pc'[p] # "new" /\ (Start(p) \/ pc[p] = "busy")
          /\ \A s \in Requests \ {p} : pc'[s] = pc[s]
      BY <2>3, RequestMoves
    <3>2. CASE pc[p] = "busy"
      BY <1>3, <3>1, <3>2 DEF ManagerInv, OrderOK
    <3> QED BY <2>1, <2>2, <3>1, <3>2
  <2>4. CASE Restart
    BY <1>0, <1>3, <2>4 DEF Restart, ManagerInv, OrderOK, TypeOK
  <2>5. CASE \/ \E n \in DOMAIN jobs : Submit(n)
             \/ \E x \in waiting : TakeJob(x)
             \/ \E j \in running : _deferred_deploy(j)
             \/ \E x \in late : Lands(x)
             \/ Tick \/ Close \/ UNCHANGED vars
    <3>1. pc' = pc /\ met' = met
      BY <2>5 DEF Submit, TakeJob, _deferred_deploy, Lands, Tick, Close, reqVars, vars
    <3> QED BY <1>3, <3>1 DEF ManagerInv, OrderOK
  <2> QED BY <2>1, <2>2, <2>3, <2>4, <2>5 DEF Next, Done
<1> QED BY <1>0, <1>1, <1>2, <1>3 DEF ManagerInv, OrderOK

LEMMA ManagerInvInit == Init => ManagerInv
<1> SUFFICES ASSUME Init PROVE ManagerInv
  OBVIOUS
<1>1. AllJobs = {}
  BY DEF Init, AllJobs, InPool
<1>2. \A r \in Requests : ReqOK(r)
  BY DEF Init, ReqOK, Pairs
<1> QED BY <1>1, <1>2, TypeInit DEF Init, ManagerInv, OrderOK

\* A job of the scheduler only starts while its target's window is open, although
\* it does not look: its due time lies in the window, and a late job is dropped.
THEOREM JobsInWindow == Spec => JobsStartInWindow
<1> DEFINE A == \A j \in running' \ running : is_within_window(WindowOf[j.target], now)
<1>1. ManagerInv /\ [Next]_vars => [A]_vars
  <2> SUFFICES ASSUME ManagerInv, [Next]_vars, NEW j \in running' \ running
               PROVE  is_within_window(WindowOf[j.target], now)
    OBVIOUS
  <2>1. PICK x \in waiting : TakeJob(x)
    BY DEF Next, Start, Serve, EndOk, EndError, Return, Defer, Begin, Submit, _deferred_deploy,
           Tick, Restart, Close, Lands, Done, vars, jobVars
  <2>2. j = x.job /\ x.job.due = now
    BY <2>1 DEF TakeJob
  <2>3. JobOK(x.job)
    BY DEF ManagerInv, AllJobs, InPool
  <2> QED BY <2>2, <2>3 DEF JobOK
<1> QED BY <1>1, ManagerInvInit, ManagerInvStep, PTL DEF Spec, JobsStartInWindow

(***************************************************************************)
(* What becomes of deferred deployments, when the names of jobs tell every *)
(* target and domain apart.                                                *)
(***************************************************************************)
NamesTellApart == \A x, y \in Targets \X Domains : JobName[x] = JobName[y] => x = y

\* A job stays in the scheduler's hands, or its deployment comes to an end.
LEMMA JobsKept ==
    ASSUME ManagerInv, [Next]_vars, NEW j \in AllJobs
    PROVE  j \in AllJobs' \/ fate'[<<j.req, j.target>>] # "none"
<1>0. /\ fate \in [Pairs -> {"none", "ran", "missed", "replaced", "lost"}]
      /\ <<j.req, j.target>> \in Pairs /\ answer[<<j.req, j.target>>] = "deferred"
  BY DEF ManagerInv, TypeInv, TypeOK, Pairs, JobOK, Job
<1>1. ASSUME NEW what, what # "none", Settle(j, what) PROVE fate'[<<j.req, j.target>>] # "none"
  BY <1>0, <1>1 DEF Settle
<1>2. ASSUME NEW n \in DOMAIN jobs, Submit(n)
      PROVE  j \in AllJobs' \/ fate'[<<j.req, j.target>>] # "none"
  <2> DEFINE new == [job |-> jobs[n], free |-> Cardinality(InPool) < Workers]
  <2>1. /\ jobs' = [m \in DOMAIN jobs \ {n} |-> jobs[m]] /\ running' = running
        /\ waiting' = waiting \cup {new} \/ (waiting' = waiting /\ Settle(jobs[n], "missed"))
        /\ new.job = jobs[n]
    BY <1>2 DEF Submit
  <2> HIDE DEF new
  <2>2. CASE j \in InPool
    BY <2>1, <2>2 DEF InPool, AllJobs
  <2>3. ASSUME NEW m \in DOMAIN jobs, j = jobs[m], m # n PROVE j \in AllJobs'
    BY <2>1, <2>3 DEF AllJobs
  <2>4. CASE j = jobs[n]
    BY <1>1, <2>1, <2>4 DEF AllJobs, InPool
  <2> QED BY <2>2, <2>3, <2>4 DEF AllJobs
<1>3. ASSUME NEW x \in waiting, TakeJob(x)
      PROVE  j \in AllJobs' \/ fate'[<<j.req, j.target>>] # "none"
  <2>1. CASE j = x.job
    BY <1>1, <1>3, <2>1 DEF TakeJob, AllJobs, InPool
  <2>2. CASE j # x.job
    BY <1>3, <2>2 DEF TakeJob, AllJobs, InPool
  <2> QED BY <2>1, <2>2
<1>4. ASSUME NEW k \in running, _deferred_deploy(k)
      PROVE  j \in AllJobs' \/ fate'[<<j.req, j.target>>] # "none"
  <2>1. CASE j = k
    BY <1>1, <1>4, <2>1 DEF _deferred_deploy
  <2>2. CASE j # k
    BY <1>4, <2>2 DEF _deferred_deploy, AllJobs, InPool
  <2> QED BY <2>1, <2>2
<1>5. ASSUME NEW r \in Requests, NEW t \in Targets, Defer(r, t)
      PROVE  j \in AllJobs' \/ fate'[<<j.req, j.target>>] # "none"
  <2> DEFINE n == JobId(r, t)
  <2>1. /\ UNCHANGED <<waiting, running>>
        /\ \A m \in DOMAIN jobs \ {n} : m \in DOMAIN jobs' /\ jobs'[m] = jobs[m]
        /\ n \in DOMAIN jobs => Settle(jobs[n], "replaced")
    BY <1>5 DEF Defer, Settle
  <2> HIDE DEF n
  <2>2. CASE j \in InPool
    BY <2>1, <2>2 DEF InPool, AllJobs
  <2>3. CASE \E m \in DOMAIN jobs \ {n} : j = jobs[m]
    BY <2>1, <2>3 DEF AllJobs
  <2>4. CASE n \in DOMAIN jobs /\ j = jobs[n]
    BY <1>1, <2>1, <2>4
  <2> QED BY <2>2, <2>3, <2>4 DEF AllJobs
<1>6. CASE Restart
  BY <1>0, <1>6 DEF Restart
<1>7. ASSUME UNCHANGED jobVars PROVE j \in AllJobs'
  BY <1>7 DEF jobVars, AllJobs, InPool
<1>8. CASE Close
  <2>1. CASE j \in InPool
    BY <1>8, <2>1 DEF Close, InPool, AllJobs
  <2>2. CASE \E n \in DOMAIN jobs : j = jobs[n]
    BY <1>0, <1>8, <2>2 DEF Close
  <2> QED BY <2>1, <2>2 DEF AllJobs
<1> QED BY <1>2, <1>3, <1>4, <1>5, <1>6, <1>7, <1>8
        DEF Next, Serve, Start, EndOk, EndError, Return, Begin, Tick, Close, Lands, Done, vars

\* A deployment is replaced only by the step that defers another one.
LEMMA Replaces ==
    ASSUME ManagerInv, [Next]_vars, NEW r \in Requests, NEW t \in Targets,
           fate'[<<r, t>>] # fate[<<r, t>>]
    PROVE  /\ fate'[<<r, t>>] # "none"
           /\ fate'[<<r, t>>] = "replaced" =>
                 \E s \in Requests, u \in Targets :
                    /\ Defer(s, u) /\ JobId(s, u) \in DOMAIN jobs
                    /\ jobs[JobId(s, u)].req = r /\ jobs[JobId(s, u)].target = t
<1>0. fate \in [Pairs -> {"none", "ran", "missed", "replaced", "lost"}] /\ <<r, t>> \in Pairs
  BY DEF ManagerInv, TypeInv, TypeOK, Pairs
<1>1. ASSUME NEW j, NEW what, Settle(j, what)
      PROVE  fate'[<<r, t>>] = what /\ j.req = r /\ j.target = t
  BY <1>0, <1>1 DEF Settle
<1>2. ASSUME NEW n \in DOMAIN jobs, Submit(n) PROVE fate'[<<r, t>>] = "missed"
  BY <1>1, <1>2 DEF Submit
<1>3. ASSUME NEW x \in waiting, TakeJob(x) PROVE fate'[<<r, t>>] = "missed"
  BY <1>1, <1>3 DEF TakeJob
<1>4. ASSUME NEW j \in running, _deferred_deploy(j) PROVE fate'[<<r, t>>] = "ran"
  BY <1>1, <1>4 DEF _deferred_deploy
<1>5. ASSUME NEW s \in Requests, NEW u \in Targets, Defer(s, u)
      PROVE  /\ fate'[<<r, t>>] = "replaced" /\ JobId(s, u) \in DOMAIN jobs
             /\ jobs[JobId(s, u)].req = r /\ jobs[JobId(s, u)].target = t
  <2>1. JobId(s, u) \in DOMAIN jobs /\ Settle(jobs[JobId(s, u)], "replaced")
    BY <1>5 DEF Defer, Settle
  <2> QED BY <1>1, <2>1
<1>6. CASE Restart \/ Close
  BY <1>0, <1>6 DEF Restart, Close
<1> QED BY <1>2, <1>3, <1>4, <1>5, <1>6
        DEF Next, Serve, Start, EndOk, EndError, Return, Begin, Tick, Close, Lands, Done, vars

\* An answer "deferred" is given by the step that adds the job.
LEMMA DeferredByDefer ==
    ASSUME ManagerInv, [Next]_vars, NEW r \in Requests, NEW t \in Targets,
           answer'[<<r, t>>] = "deferred", answer[<<r, t>>] # "deferred"
    PROVE  Defer(r, t)
<1>0. answer \in [Pairs -> {"none", "ok", "error", "deferred"}] /\ <<r, t>> \in Pairs
  BY DEF ManagerInv, TypeInv, TypeOK, Pairs
<1>1. ASSUME NEW q \in Requests, NEW a \in {"ok", "error"}, Answers(q, a) PROVE FALSE
  BY <1>0, <1>1 DEF Answers
<1>2. ASSUME NEW q \in Requests, NEW u \in Targets, Defer(q, u) PROVE Defer(r, t)
  <2>1. <<q, u>> = <<r, t>>
    BY <1>0, <1>2 DEF Defer
  <2> QED BY <1>2, <2>1
<1> QED BY <1>1, <1>2
        DEF Next, Serve, Start, EndOk, EndError, Return, Begin, Submit, TakeJob,
            _deferred_deploy, Restart, Tick, Close, Lands, Done, vars, reqVars, devVars

\* The two requests of a replaced job: the same domain, and the later one newer
\* unless they met.
LEMMA ReplacedByNewer ==
    ASSUME NamesTellApart, ManagerInv, NEW r \in Requests, NEW t \in Targets,
           NEW s \in Requests, NEW u \in Targets, Defer(s, u),
           JobId(s, u) \in DOMAIN jobs, jobs[JobId(s, u)].req = r, jobs[JobId(s, u)].target = t
    PROVE  u = t /\ s # r /\ domain[s] = domain[r] /\ (s > r \/ <<s, r>> \in met)
<1>1. jobs[JobId(s, u)] \in AllJobs
  BY DEF AllJobs
<1>2. answer[<<r, t>>] = "deferred"
  BY <1>1 DEF ManagerInv, JobOK
<1>3. JobName[<<t, domain[r]>>] = JobName[<<u, domain[s]>>]
  BY DEF ManagerInv, TypeInv, TypeOK, NameOf, JobId
<1>4. domain[r] \in Domains /\ domain[s] \in Domains
  BY DEF ManagerInv, TypeInv, TypeOK
<1>5. u = t /\ domain[s] = domain[r]
  BY <1>3, <1>4 DEF NamesTellApart
<1>6. u \in todo[s] /\ pc[s] = "busy"
  BY DEF Defer, Reaches
<1>7. s # r
  BY <1>2, <1>5, <1>6 DEF ManagerInv, ReqOK
<1>8. s > r \/ <<s, r>> \in met
  <2>1. CASE s < r
    <3>1. pc[r] # "new"
      BY <1>1, <1>2 DEF ManagerInv, ReqOK
    <3> QED BY <1>6, <2>1, <3>1 DEF ManagerInv, OrderOK
  <2> QED BY <1>7, <2>1, ManagerAssumption
<1> QED BY <1>5, <1>7, <1>8

Accounted(r, t) == answer[<<r, t>>] = "deferred" =>
    /\ fate[<<r, t>>] = "none" => \E j \in AllJobs : j.req = r /\ j.target = t
    /\ fate[<<r, t>>] = "replaced" =>
          \E s \in Requests \ {r} :
              /\ answer[<<s, t>>] = "deferred" /\ domain[s] = domain[r]
              /\ s > r \/ <<s, r>> \in met

AccountInv == ManagerInv /\ \A r \in Requests, t \in Targets : Accounted(r, t)

\* AccountInv is inductive.
LEMMA AccountStep ==
    ASSUME NamesTellApart, AccountInv, [Next]_vars
    PROVE  AccountInv'
<1>0. ManagerInv /\ ManagerInv' /\ domain' = domain /\ met \subseteq met'
  <2>1. domain' = domain
    BY DEF Next, Serve, Start, EndOk, EndError, Return, Begin, Defer, Submit, TakeJob,
           _deferred_deploy, Restart, Tick, Close, Lands, Done, vars, reqVars, devVars
  <2>2. met \subseteq met'
    BY DEF Next, Serve, Start, EndOk, EndError, Return, Begin, Defer, Submit, TakeJob,
           _deferred_deploy, Restart, Tick, Close, Lands, Done, vars
  <2> QED BY <2>1, <2>2, ManagerInvStep DEF AccountInv
<1>1. ASSUME NEW r \in Requests, NEW t \in Targets, answer'[<<r, t>>] = "deferred"
      PROVE  Accounted(r, t)'
  <2>1. CASE answer[<<r, t>>] # "deferred"
    <3>1. Defer(r, t)
      BY <1>0, <1>1, <2>1, DeferredByDefer
    <3>2. fate[<<r, t>>] = "none" /\ fate'[<<r, t>>] = fate[<<r, t>>]
      BY <1>0, <2>1, FateOfDeferred DEF ManagerInv, ReqOK
    <3> DEFINE n == JobId(r, t)
    <3>3. n \in DOMAIN jobs' /\ jobs'[n].req = r /\ jobs'[n].target = t
      BY <3>1 DEF Defer
    <3>4. jobs'[n] \in AllJobs'
      BY <3>3 DEF AllJobs
    <3> QED BY <3>2, <3>3, <3>4 DEF Accounted
  <2>2. CASE answer[<<r, t>>] = "deferred"
    <3>1. ASSUME fate'[<<r, t>>] = "none"
          PROVE  \E j \in AllJobs' : j.req = r /\ j.target = t
      <4>1. fate[<<r, t>>] = "none"
        BY <1>0, <3>1, Replaces
      <4>2. PICK j \in AllJobs : j.req = r /\ j.target = t
        BY <2>2, <4>1 DEF AccountInv, Accounted
      <4> QED BY <1>0, <3>1, <4>2, JobsKept
    <3>2. ASSUME fate'[<<r, t>>] = "replaced"
          PROVE  \E s \in Requests \ {r} :
                    /\ answer'[<<s, t>>] = "deferred" /\ domain'[s] = domain'[r]
                    /\ s > r \/ <<s, r>> \in met'
      <4>1. CASE fate[<<r, t>>] = "replaced"
        <5>1. PICK s \in Requests \ {r} :
                 /\ answer[<<s, t>>] = "deferred" /\ domain[s] = domain[r]
                 /\ s > r \/ <<s, r>> \in met
          BY <2>2, <4>1 DEF AccountInv, Accounted
        <5>2. answer'[<<s, t>>] = "deferred"
          BY <1>0, <5>1, DeferredStays
        <5> QED BY <1>0, <5>1, <5>2
      <4>2. CASE fate[<<r, t>>] # "replaced"
        <5>1. PICK s \in Requests, u \in Targets :
                 /\ Defer(s, u) /\ JobId(s, u) \in DOMAIN jobs
                 /\ jobs[JobId(s, u)].req = r /\ jobs[JobId(s, u)].target = t
          BY <1>0, <3>2, <4>2, Replaces
        <5>2. u = t /\ s # r /\ domain[s] = domain[r] /\ (s > r \/ <<s, r>> \in met)
          BY <1>0, <5>1, ReplacedByNewer
        <5>3. answer'[<<s, t>>] = "deferred"
          <6>1. answer' = [answer EXCEPT ![<<s, u>>] = "deferred"] /\ <<s, u>> \in DOMAIN answer
            BY <1>0, <5>1 DEF Defer, ManagerInv, TypeInv, TypeOK, Pairs
          <6> QED BY <5>2, <6>1
        <5> QED BY <1>0, <5>2, <5>3
      <4> QED BY <4>1, <4>2
    <3> QED BY <3>1, <3>2 DEF Accounted
  <2> QED BY <2>1, <2>2
<1> QED BY <1>0, <1>1 DEF AccountInv, Accounted

\* When the names of jobs tell all targets and domains apart, a deployment that
\* was answered "deferred" is with the scheduler until it ends, and is replaced
\* only by one of its own domain and target, newer unless the requests met.
THEOREM NoneForgotten == ASSUME NamesTellApart PROVE Spec => []DeferredAccounted
<1>1. Init => AccountInv
  BY ManagerInvInit DEF Init, AccountInv, Accounted, Pairs
<1>2. AccountInv /\ [Next]_vars => AccountInv'
  BY AccountStep
<1>3. AccountInv => DeferredAccounted
  BY DEF AccountInv, Accounted, DeferredAccounted, AllJobs
<1> QED BY <1>1, <1>2, <1>3, PTL DEF Spec

(***************************************************************************)
(* The dates of jobs, and the certificates on the targets.                 *)
(***************************************************************************)
\* The time that a request has read is not in the future.
TimeOK(r) == pc[r] # "new" => ~Before(now, at[r])

\* A job that is still to come keeps the date that its request computed; it is
\* in the scheduler's table or, once due, in the pool, and in one of them only.
JobDue(j) ==
    /\ j.due = Due(j.req, j.target) /\ fate[<<j.req, j.target>>] # "replaced"
    /\ j \in InPool => ~Before(now, j.due) /\ \A n \in DOMAIN jobs : jobs[n] # j

\* A certificate on a target came with a request for that domain.
OnOK(t, d) == on[<<t, d>>] # 0 => pc[on[<<t, d>>]] # "new" /\ domain[on[<<t, d>>]] = d

DateInv ==
    /\ ManagerInv
    /\ \A r \in Requests : TimeOK(r) /\ (call[r] # NoTarget => Open(r, call[r]))
    /\ \A j \in AllJobs : JobDue(j)
    /\ \A t \in Targets, d \in Domains : OnOK(t, d)
    /\ \A x \in late : pc[x[1]] # "new"

\* What no step changes.
LEMMA Lasting ==
    ASSUME ManagerInv, [Next]_vars
    PROVE  /\ domain' = domain /\ met \subseteq met' /\ (now' = now \/ Tick)
           /\ \A r \in Requests :
                 /\ pc[r] # "new" => at'[r] = at[r] /\ pc'[r] # "new"
                 /\ pc[r] = "new" => pc'[r] = "new" \/ Start(r)
<1>0. /\ at \in [Requests -> Time]
      /\ pc \in [Requests -> {"new", "busy", "done", "lost"}]
  BY DEF ManagerInv, TypeInv, TypeOK
<1>1. ASSUME NEW q \in Requests, Start(q)
      PROVE  /\ domain' = domain /\ met \subseteq met' /\ now' = now
             /\ pc[q] = "new" /\ pc'[q] # "new"
             /\ \A r \in Requests \ {q} : at'[r] = at[r] /\ pc'[r] = pc[r]
  BY <1>0, <1>1 DEF Start
<1>2. ASSUME NEW q \in Requests, Return(q)
      PROVE  /\ UNCHANGED <<domain, met, now, at>> /\ pc[q] = "busy" /\ pc'[q] = "done"
             /\ \A r \in Requests \ {q} : pc'[r] = pc[r]
  BY <1>0, <1>2 DEF Return
<1>3. CASE Restart \/ Close
  BY <1>0, <1>3 DEF Restart, Close, reqVars
<1>4. CASE Tick
  BY <1>4 DEF Tick, reqVars
<1>5. ASSUME NEW q \in Requests, EndOk(q) \/ EndError(q) \/ \E t \in Targets : Begin(q, t) \/ Defer(q, t)
      PROVE  UNCHANGED <<domain, met, now, at, pc>>
  BY <1>5 DEF EndOk, EndError, Begin, Defer
<1>6. CASE \/ \E n \in DOMAIN jobs : Submit(n)
           \/ \E x \in waiting : TakeJob(x)
           \/ \E j \in running : _deferred_deploy(j)
           \/ \E x \in late : Lands(x)
           \/ UNCHANGED vars
  BY <1>6 DEF Submit, TakeJob, _deferred_deploy, Lands, reqVars, vars
<1>7. CASE \E r \in Requests : Start(r)
  BY <1>1, <1>7
<1>8. CASE \E r \in Requests : Return(r)
  BY <1>2, <1>8
<1>9. CASE \E r \in Requests : EndOk(r) \/ EndError(r) \/ \E t \in Targets : Begin(r, t) \/ Defer(r, t)
  BY <1>5, <1>9
<1> QED BY <1>3, <1>4, <1>6, <1>7, <1>8, <1>9 DEF Next, Serve, Done

\* A job in the scheduler's table was there before, or a request has just put it there.
LEMMA JobsFrom ==
    ASSUME [Next]_vars, NEW m \in DOMAIN jobs'
    PROVE  \/ m \in DOMAIN jobs /\ jobs'[m] = jobs[m]
           \/ \E r \in Requests, t \in Targets :
                 /\ Defer(r, t) /\ m = JobId(r, t)
                 /\ jobs'[m] = [req |-> r, target |-> t, due |-> Due(r, t)]
<1>1. ASSUME NEW r \in Requests, NEW t \in Targets, Defer(r, t)
      PROVE  \/ m \in DOMAIN jobs /\ jobs'[m] = jobs[m]
             \/ m = JobId(r, t) /\ jobs'[m] = [req |-> r, target |-> t, due |-> Due(r, t)]
  BY <1>1 DEF Defer
<1>2. ASSUME NEW n \in DOMAIN jobs, Submit(n) PROVE m \in DOMAIN jobs /\ jobs'[m] = jobs[m]
  BY <1>2 DEF Submit
<1>3. CASE Restart \/ Close
  BY <1>3 DEF Restart, Close
<1>4. CASE UNCHANGED jobs
  BY <1>4
<1> QED BY <1>1, <1>2, <1>3, <1>4
        DEF Next, Serve, Start, EndOk, EndError, Return, Begin, TakeJob, _deferred_deploy,
            Tick, Close, Lands, Done, vars, jobVars, devVars

\* A job in the pool was there before, or it has just been submitted.
LEMMA PoolFrom ==
    ASSUME [Next]_vars
    PROVE  \/ InPool' \subseteq InPool
           \/ \E n \in DOMAIN jobs :
                 /\ Submit(n) /\ InPool' \subseteq InPool \cup {jobs[n]}
                 /\ \A k \in InPool : NameOf(k) # n
<1>1. ASSUME NEW n \in DOMAIN jobs, Submit(n)
      PROVE  \/ InPool' \subseteq InPool
             \/ InPool' \subseteq InPool \cup {jobs[n]} /\ \A k \in InPool : NameOf(k) # n
  <2> DEFINE new == [job |-> jobs[n], free |-> Cardinality(InPool) < Workers]
  <2>1. /\ new.job = jobs[n] /\ running' = running
        /\ waiting' = waiting \/ (waiting' = waiting \cup {new} /\ \A k \in InPool : NameOf(k) # n)
    BY <1>1 DEF Submit
  <2> HIDE DEF new
  <2>2. CASE waiting' = waiting
    BY <2>1, <2>2 DEF InPool
  <2>3. CASE waiting' = waiting \cup {new} /\ \A k \in InPool : NameOf(k) # n
    <3>1. \A x \in waiting' : x.job \in InPool \cup {jobs[n]}
      BY <2>1, <2>3 DEF InPool
    <3> QED BY <2>1, <2>3, <3>1 DEF InPool
  <2> QED BY <2>1, <2>2, <2>3
<1>2. ASSUME NEW x \in waiting, TakeJob(x) PROVE InPool' \subseteq InPool
  BY <1>2 DEF TakeJob, InPool
<1>3. ASSUME NEW j \in running, _deferred_deploy(j) PROVE InPool' \subseteq InPool
  BY <1>3 DEF _deferred_deploy, InPool
<1>4. CASE Restart
  BY <1>4 DEF Restart, InPool
<1>5. CASE UNCHANGED <<waiting, running>>
  BY <1>5 DEF InPool
<1> QED BY <1>1, <1>2, <1>3, <1>4, <1>5
        DEF Next, Serve, Start, EndOk, EndError, Return, Begin, Defer, Tick, Close, Lands, Done, vars, jobVars, devVars

\* A call that was given up is one of a request or of a job.
LEMMA LateFrom ==
    ASSUME ManagerInv, [Next]_vars, NEW r \in Requests, NEW t \in Targets,
           <<r, t>> \in late', <<r, t>> \notin late
    PROVE  \/ call[r] = t /\ pc[r] = "busy"
           \/ \E j \in running : j.req = r /\ j.target = t
<1>0. NoTarget \notin Targets /\ call \in [Requests -> Targets \cup {NoTarget}]
  BY ManagerAssumption DEF ManagerInv, TypeInv, TypeOK
<1>1. ASSUME call[r] = t PROVE pc[r] = "busy"
  BY <1>0, <1>1 DEF ManagerInv, ReqOK
<1>2. ASSUME NEW q \in Requests, EndError(q) PROVE call[r] = t
  BY <1>2 DEF EndError
<1>3. ASSUME NEW j \in running, _deferred_deploy(j)
      PROVE  j.req = r /\ j.target = t
  BY <1>3 DEF _deferred_deploy
<1>4. CASE Restart
  <2>1. \/ <<r, t>> \in {x \in Pairs : call[x[1]] = x[2]}
        \/ <<r, t>> \in {<<j.req, j.target>> : j \in running}
    BY <1>4 DEF Restart
  <2> QED BY <1>1, <2>1
<1>5. late' \subseteq late \/ (\E q \in Requests : EndError(q))
      \/ (\E j \in running : _deferred_deploy(j)) \/ Restart
  BY DEF Next, Serve, Start, EndOk, Return, Begin, Defer, Submit, TakeJob, Tick, Close, Lands,
         Done, vars, devVars
<1> QED BY <1>1, <1>2, <1>3, <1>4, <1>5

\* A certificate is installed by the request's own call, by its job, or by a
\* call of it that was given up.
LEMMA OnFrom ==
    ASSUME ManagerInv, [Next]_vars, NEW t \in Targets, NEW d \in Domains,
           on'[<<t, d>>] # on[<<t, d>>]
    PROVE  \/ \E r \in Requests :
                 /\ call[r] = t /\ domain[r] = d /\ on'[<<t, d>>] = r /\ pc[r] = "busy"
           \/ \E j \in running :
                 /\ j.target = t /\ domain[j.req] = d /\ on'[<<t, d>>] = j.req
           \/ <<on'[<<t, d>>], t>> \in late /\ domain[on'[<<t, d>>]] = d
<1>0. on \in [Targets \X Domains -> Requests \cup {0}] /\ NoTarget \notin Targets
  BY ManagerAssumption DEF ManagerInv, TypeInv, TypeOK
<1>1. ASSUME NEW r \in Requests, NEW u, Installs(r, u)
      PROVE  u = t /\ domain[r] = d /\ on'[<<t, d>>] = r
  BY <1>0, <1>1 DEF Installs
<1>2. ASSUME NEW r \in Requests, EndOk(r) \/ EndError(r)
      PROVE  call[r] = t /\ domain[r] = d /\ on'[<<t, d>>] = r /\ pc[r] = "busy"
  <2>1. Installs(r, call[r]) /\ call[r] # NoTarget
    BY <1>2 DEF EndOk, EndError
  <2> QED BY <1>1, <2>1 DEF ManagerInv, ReqOK
<1>3. ASSUME NEW j \in running, _deferred_deploy(j)
      PROVE  j.target = t /\ domain[j.req] = d /\ on'[<<t, d>>] = j.req
  <2>1. Installs(j.req, j.target) /\ j.req \in Requests
    BY <1>3 DEF _deferred_deploy, ManagerInv, TypeInv, TypeOK, Job
  <2> QED BY <1>1, <2>1
<1>4. ASSUME NEW x \in late, Lands(x)
      PROVE  <<on'[<<t, d>>], t>> \in late /\ domain[on'[<<t, d>>]] = d
  <2>1. PICK r \in Requests, u \in Targets : x = <<r, u>>
    BY DEF ManagerInv, TypeInv, TypeOK, Pairs
  <2>2. Installs(r, u)
    BY <1>4, <2>1 DEF Lands
  <2> QED BY <1>1, <2>1, <2>2
<1> QED BY <1>2, <1>3, <1>4
        DEF Next, Serve, Start, Return, Begin, Defer, Submit, TakeJob, Restart, Tick, Close,
            Done, vars, devVars

\* A request and a target have one job at most.
LEMMA OneJob ==
    ASSUME DateInv, NEW j \in AllJobs, NEW k \in AllJobs, j.req = k.req, j.target = k.target
    PROVE  j = k
<1>1. j \in Job /\ k \in Job /\ j.due = k.due
  BY DEF DateInv, ManagerInv, JobOK, JobDue
<1> QED BY <1>1 DEF Job

\* A request defers a target once: the job that it adds is its first for it.
LEMMA DeferredOnce ==
    ASSUME ManagerInv, NEW r \in Requests, NEW t \in Targets, Defer(r, t)
    PROVE  /\ answer[<<r, t>>] # "deferred" /\ at' = at /\ InPool' = InPool
           /\ \A j \in AllJobs : ~(j.req = r /\ j.target = t)
<1>1. t \in todo[r] /\ at' = at /\ InPool' = InPool
  BY DEF Defer, Reaches, InPool
<1>2. answer[<<r, t>>] # "deferred"
  BY <1>1 DEF ManagerInv, ReqOK
<1> QED BY <1>1, <1>2 DEF ManagerInv, JobOK

\* DateInv is inductive.
LEMMA DateStep ==
    ASSUME DateInv, [Next]_vars
    PROVE  DateInv'
<1>0. /\ ManagerInv /\ ManagerInv' /\ TypeOK /\ TypeOK'
      /\ domain' = domain /\ met \subseteq met' /\ (now' = now \/ Tick)
      /\ now \in Time /\ now' \in Time
  <2>1. ManagerInv /\ ManagerInv'
    BY ManagerInvStep DEF DateInv
  <2> QED BY <2>1, Lasting DEF ManagerInv, TypeInv, TypeOK
<1>1. ASSUME NEW r \in Requests
      PROVE  /\ pc[r] # "new" => at'[r] = at[r] /\ pc'[r] # "new"
             /\ pc[r] = "new" => pc'[r] = "new" \/ Start(r)
             /\ at[r] \in Time
  BY <1>0, Lasting DEF TypeOK
<1>2. ASSUME NEW due \in Time, ~Before(now, due) PROVE ~Before(now', due)
  <2>1. CASE now' = now
    BY <1>2, <2>1
  <2>2. CASE Tick
    <3>1. now' = After(now)
      BY <2>2 DEF Tick
    <3>2. ~Before(now', now)
      BY <1>0, <3>1, TimeOrder
    <3> QED BY <1>0, <1>2, <3>2, TimeOrder
  <2> QED BY <1>0, <2>1, <2>2
<1>3. ASSUME NEW r \in Requests PROVE TimeOK(r)'
  <2>1. CASE pc[r] # "new"
    BY <1>1, <1>2, <2>1 DEF DateInv, TimeOK
  <2>2. CASE Start(r)
    <3>1. at'[r] = now /\ now' = now
      BY <1>0, <2>2 DEF Start, TypeOK
    <3> QED BY <1>0, <3>1, TimeOrder DEF TimeOK
  <2> QED BY <1>1, <2>1, <2>2 DEF TimeOK
<1>4. ASSUME NEW r \in Requests, call'[r] # NoTarget PROVE Open(r, call[r])'
  <2>1. CASE \E t \in Targets : Begin(r, t)
    <3>1. PICK t \in Targets : Begin(r, t)
      BY <2>1
    <3>2. call'[r] = t /\ Open(r, t) /\ at' = at
      BY <1>0, <3>1 DEF Begin, TypeOK
    <3> QED BY <3>2 DEF Open
  <2>2. CASE call'[r] = call[r]
    <3>1. Open(r, call[r]) /\ pc[r] # "new"
      BY <1>0, <1>4, <2>2 DEF DateInv, ManagerInv, ReqOK
    <3> QED BY <1>1, <2>2, <3>1 DEF Open
  <2>3. ASSUME NEW q \in Requests, EndOk(q) \/ EndError(q) PROVE call'[r] \in {call[r], NoTarget}
    BY <1>0, <2>3 DEF EndOk, EndError, Answers, TypeOK
  <2>4. ASSUME NEW q \in Requests \ {r}, NEW t \in Targets, Begin(q, t) PROVE call'[r] = call[r]
    BY <1>0, <2>4 DEF Begin, TypeOK
  <2>5. CASE Restart
    BY <1>4, <2>5 DEF Restart
  <2> QED BY <1>4, <2>1, <2>2, <2>3, <2>4, <2>5
          DEF Next, Serve, Start, Return, Defer, Submit, TakeJob, _deferred_deploy, Tick, Close,
              Lands, Done,
              vars, reqVars, devVars
<1>5. ASSUME NEW r \in Requests, NEW t \in Targets, Defer(r, t)
      PROVE  /\ answer[<<r, t>>] # "deferred" /\ at' = at /\ InPool' = InPool
             /\ \A j \in AllJobs : ~(j.req = r /\ j.target = t)
  BY <1>0, <1>5, DeferredOnce
<1>6. ASSUME NEW j \in AllJobs', j \in AllJobs PROVE JobDue(j)'
  <2>1. JobOK(j) /\ JobDue(j) /\ j \in Job /\ j.req \in Requests /\ j.target \in Targets /\ j.due \in Time
    BY <1>0, <1>6 DEF DateInv, ManagerInv, JobOK, Job
  <2>2. j.due = Due(j.req, j.target)'
    <3>1. pc[j.req] # "new"
      BY <1>0, <2>1 DEF ManagerInv, JobOK, ReqOK
    <3> QED BY <1>1, <2>1, <3>1 DEF JobDue, Due
  <2>3. fate'[<<j.req, j.target>>] # "replaced"
    <3>1. SUFFICES ASSUME fate'[<<j.req, j.target>>] = "replaced" PROVE FALSE
      OBVIOUS
    <3>2. fate'[<<j.req, j.target>>] # fate[<<j.req, j.target>>]
      BY <2>1, <3>1 DEF JobDue
    <3>3. PICK s \in Requests, u \in Targets :
             /\ Defer(s, u) /\ JobId(s, u) \in DOMAIN jobs
             /\ jobs[JobId(s, u)].req = j.req /\ jobs[JobId(s, u)].target = j.target
      BY <1>0, <2>1, <3>1, <3>2, Replaces
    <3> DEFINE n == JobId(s, u)
    <3>4. jobs[n] = j
      <4>1. jobs[n] \in AllJobs
        BY <3>3 DEF AllJobs
      <4> QED BY <1>6, <3>3, <4>1, OneJob
    <3>5. j \notin InPool'
      BY <1>5, <2>1, <3>3, <3>4 DEF JobDue
    <3>6. ASSUME NEW m \in DOMAIN jobs', jobs'[m] = j PROVE FALSE
      <4>1. CASE m # n
        <5>1. m \in DOMAIN jobs /\ jobs[m] = j
          BY <3>3, <3>6, <4>1 DEF Defer
        <5>2. NameOf(jobs[m]) = m /\ NameOf(jobs[n]) = n
          BY <1>0, <3>3, <5>1 DEF TypeOK
        <5> QED BY <3>4, <4>1, <5>1, <5>2
      <4>2. CASE m = n
        <5>1. j.req = s /\ j.target = u
          BY <3>3, <3>6, <4>2 DEF Defer
        <5> QED BY <1>5, <1>6, <3>3, <5>1
      <4> QED BY <4>1, <4>2
    <3> QED BY <3>5, <3>6 DEF AllJobs
  <2>4. ASSUME j \in InPool' PROVE ~Before(now, j.due)' /\ \A m \in DOMAIN jobs' : jobs'[m] # j
    <3>1. CASE j \in InPool
      <4>1. ~Before(now', j.due)
        BY <1>2, <2>1, <3>1 DEF JobDue
      <4>2. ASSUME NEW m \in DOMAIN jobs', jobs'[m] = j PROVE FALSE
        <5>1. CASE m \in DOMAIN jobs /\ jobs'[m] = jobs[m]
          BY <2>1, <3>1, <4>2, <5>1 DEF JobDue
        <5>2. ASSUME NEW r \in Requests, NEW t \in Targets, Defer(r, t),
                     jobs'[m] = [req |-> r, target |-> t, due |-> Due(r, t)]
              PROVE  FALSE
          <6>1. j.req = r /\ j.target = t
            BY <4>2, <5>2
          <6> QED BY <1>5, <1>6, <5>2, <6>1
        <5> QED BY <5>1, <5>2, JobsFrom
      <4> QED BY <4>1, <4>2
    <3>2. CASE j \notin InPool
      <4>1. PICK n \in DOMAIN jobs : Submit(n) /\ j = jobs[n]
        BY <2>4, <3>2, PoolFrom
      <4>2. ~Before(now, j.due)
        BY <4>1 DEF Submit
      <4>3. ASSUME NEW m \in DOMAIN jobs', jobs'[m] = j PROVE FALSE
        <5>1. m \in DOMAIN jobs /\ m # n /\ jobs[m] = jobs[n]
          BY <4>1, <4>3 DEF Submit
        <5>2. NameOf(jobs[m]) = m /\ NameOf(jobs[n]) = n
          BY <1>0, <5>1 DEF TypeOK
        <5> QED BY <5>1, <5>2
      <4> QED BY <1>2, <2>1, <4>2, <4>3
    <3> QED BY <3>1, <3>2
  <2> QED BY <2>2, <2>3, <2>4 DEF JobDue
<1>7. ASSUME NEW j \in AllJobs', j \notin AllJobs PROVE JobDue(j)'
  <2>1. PICK r \in Requests, t \in Targets :
           Defer(r, t) /\ j = [req |-> r, target |-> t, due |-> Due(r, t)]
    BY <1>7, JobSets
  <2>2. j.due = Due(r, t) /\ j.req = r /\ j.target = t
    BY <2>1
  <2>3. Due(r, t)' = Due(r, t) /\ j \notin InPool'
    BY <1>5, <1>7, <2>1 DEF Due, AllJobs
  <2>4. fate'[<<r, t>>] # "replaced"
    <3>1. answer[<<r, t>>] # "deferred"
      BY <1>5, <2>1
    <3>2. fate'[<<r, t>>] = fate[<<r, t>>]
      BY <1>0, <3>1, FateOfDeferred
    <3> QED BY <1>0, <3>1, <3>2 DEF ManagerInv, ReqOK
  <2> QED BY <2>2, <2>3, <2>4 DEF JobDue
<1>8. ASSUME NEW t \in Targets, NEW d \in Domains PROVE OnOK(t, d)'
  <2>1. CASE on'[<<t, d>>] = on[<<t, d>>]
    <3>1. on[<<t, d>>] \in Requests \cup {0}
      BY <1>0 DEF TypeOK
    <3> QED BY <1>0, <1>1, <2>1, <3>1 DEF DateInv, OnOK
  <2>2. CASE on'[<<t, d>>] # on[<<t, d>>]
    <3>1. CASE \E r \in Requests :
                  call[r] = t /\ domain[r] = d /\ on'[<<t, d>>] = r /\ pc[r] = "busy"
      BY <1>0, <1>1, <3>1 DEF OnOK
    <3>2. CASE \E j \in running :
                  j.target = t /\ domain[j.req] = d /\ on'[<<t, d>>] = j.req
      <4>1. PICK j \in running : j.target = t /\ domain[j.req] = d /\ on'[<<t, d>>] = j.req
        BY <3>2
      <4>2. j.req \in Requests /\ pc[j.req] # "new"
        <5>1. JobOK(j)
          BY <1>0 DEF ManagerInv, AllJobs, InPool
        <5> QED BY <1>0, <5>1 DEF ManagerInv, JobOK, ReqOK, Job
      <4> QED BY <1>0, <1>1, <4>1, <4>2 DEF OnOK
    <3>3. CASE <<on'[<<t, d>>], t>> \in late /\ domain[on'[<<t, d>>]] = d
      <4>1. PICK r : r = on'[<<t, d>>]
        OBVIOUS
      <4>2. r \in Requests /\ pc[r] # "new"
        BY <1>0, <3>3, <4>1 DEF DateInv, TypeOK, Pairs
      <4> QED BY <1>0, <1>1, <3>3, <4>1, <4>2 DEF OnOK
    <3> QED BY <1>0, <2>2, <3>1, <3>2, <3>3, OnFrom
  <2> QED BY <2>1, <2>2
<1>9. ASSUME NEW x \in late' PROVE pc'[x[1]] # "new"
  <2>1. PICK r \in Requests, t \in Targets : x = <<r, t>>
    BY <1>0 DEF TypeOK, Pairs
  <2>2. CASE x \in late
    BY <1>1, <2>1, <2>2 DEF DateInv
  <2>3. CASE call[r] = t /\ pc[r] = "busy"
    BY <1>1, <2>1, <2>3
  <2>4. CASE \E j \in running : j.req = r /\ j.target = t
    <3>1. PICK j \in running : j.req = r /\ j.target = t
      BY <2>4
    <3>2. JobOK(j)
      BY <1>0 DEF ManagerInv, AllJobs, InPool
    <3>3. pc[r] # "new"
      BY <1>0, <3>1, <3>2 DEF ManagerInv, JobOK, ReqOK
    <3> QED BY <1>1, <2>1, <3>3
  <2> QED BY <1>0, <2>1, <2>2, <2>3, <2>4, LateFrom
<1> QED BY <1>0, <1>3, <1>4, <1>6, <1>7, <1>8, <1>9 DEF DateInv

LEMMA DateInit == Init => DateInv
<1> SUFFICES ASSUME Init PROVE DateInv
  OBVIOUS
<1>1. AllJobs = {}
  BY DEF Init, AllJobs, InPool
<1>2. \A t \in Targets, d \in Domains : OnOK(t, d)
  BY DEF Init, OnOK
<1> QED BY <1>1, <1>2, ManagerInvInit DEF Init, DateInv, TimeOK

(***************************************************************************)
(* Which certificate stays on a target. Of two requests for the same       *)
(* domain that did not meet, the newer one cannot get to a target while a  *)
(* job of the older one is still to come: it finds the window closed, its  *)
(* own job takes the place of the older one or, once that is in the pool,  *)
(* is not handed to a thread beside it. So it has not called the target    *)
(* either, and no call of it that was given up can land there.             *)
(***************************************************************************)
\* s came after the request of job j, which was not under way then, and their
\* window lies within a day.
Behind(j, s) ==
    /\ j.req < s /\ domain[s] = domain[j.req] /\ pc[s] # "new" /\ <<j.req, s>> \notin met
    /\ ~Wraps(WindowOf[j.target])

KeptBack(j, s) ==
    /\ ~Before(at[s], at[j.req]) /\ Before(at[s], j.due)
    /\ on[<<j.target, domain[s]>>] # s /\ <<s, j.target>> \notin late
    /\ \A k \in InPool : ~(k.req = s /\ k.target = j.target)

StaysInv == DateInv /\ \A j \in AllJobs, s \in Requests : Behind(j, s) => KeptBack(j, s)

\* A request that is kept back found the window closed.
LEMMA KeptOut ==
    ASSUME DateInv, NEW j \in AllJobs, NEW s \in Requests, Behind(j, s), KeptBack(j, s)
    PROVE  ~Open(s, j.target)
<1>1. /\ j.target \in Targets /\ j.req \in Requests /\ WindowOf[j.target] # NoWindow
      /\ j.due = next_window_start(WindowOf[j.target], at[j.req])
  BY DEF DateInv, ManagerInv, JobOK, JobDue, Due, Job
<1>2. WindowOf[j.target] \in Window /\ Usable(WindowOf[j.target])
  BY <1>1, ManagerAssumption DEF Usable
<1>3. at[s] \in Time /\ at[j.req] \in Time
  BY <1>1 DEF DateInv, ManagerInv, TypeInv, TypeOK
<1>4. ~is_within_window(WindowOf[j.target], at[s])
  BY <1>1, <1>2, <1>3, NearestWithinDay DEF Behind, KeptBack
<1> QED BY <1>1, <1>4 DEF Open

\* StaysInv is inductive.
LEMMA StaysStep ==
    ASSUME StaysInv, [Next]_vars
    PROVE  StaysInv'
<1>0. /\ DateInv /\ DateInv' /\ ManagerInv /\ TypeOK
      /\ domain' = domain /\ met \subseteq met'
  BY DateStep, Lasting DEF StaysInv, DateInv, ManagerInv, TypeInv
<1>1. SUFFICES ASSUME NEW j \in AllJobs', NEW s \in Requests, Behind(j, s)'
               PROVE  KeptBack(j, s)'
  BY <1>0 DEF StaysInv
<1>2. j.req < s /\ domain[s] = domain[j.req] /\ <<j.req, s>> \notin met /\ <<j.req, s>> \notin met'
  BY <1>0, <1>1 DEF Behind
<1>3. j \in AllJobs
  <2>1. SUFFICES ASSUME j \notin AllJobs PROVE FALSE
    OBVIOUS
  <2>2. PICK r \in Requests, t \in Targets :
           Defer(r, t) /\ j = [req |-> r, target |-> t, due |-> Due(r, t)]
    BY <2>1, JobSets
  <2>3. j.req = r /\ pc[r] = "busy" /\ pc[s] # "new"
    BY <1>1, <2>2 DEF Defer, Reaches, Behind
  <2> QED BY <1>0, <1>2, <2>3 DEF ManagerInv, OrderOK
<1>4. /\ j \in Job /\ j.req \in Requests /\ j.target \in Targets /\ j.due \in Time
      /\ JobDue(j) /\ pc[j.req] # "new"
  <2>1. JobOK(j) /\ JobDue(j)
    BY <1>0, <1>3 DEF DateInv, ManagerInv
  <2> QED BY <1>0, <2>1 DEF ManagerInv, JobOK, ReqOK, Job
<1>5. at'[j.req] = at[j.req] /\ now \in Time /\ at[j.req] \in Time /\ ~Before(now, at[j.req])
  BY <1>0, <1>4, Lasting DEF TypeOK, DateInv, TimeOK
<1>6. on[<<j.target, domain[s]>>] \in Requests \cup {0} /\ 0 \notin Requests /\ domain[s] \in Domains
  BY <1>0, <1>4, ManagerAssumption DEF TypeOK
\* s begins: the job is not due yet.
<1>7. CASE pc[s] = "new"
  <2>1. Start(s)
    BY <1>0, <1>1, <1>7, Lasting DEF Behind
  <2>2. ~UnderWay(j.req) /\ at'[s] = now /\ UNCHANGED <<jobs, waiting, running, on>>
    BY <1>0, <1>2, <1>4, <2>1 DEF Start, TypeOK, jobVars, devVars
  <2>3. Before(now, j.due)
    <3>1. j \notin InPool
      BY <2>2 DEF UnderWay, InPool
    <3>2. PICK n \in DOMAIN jobs : j = jobs[n]
      BY <1>3, <3>1 DEF AllJobs
    <3> QED BY <2>2, <3>2 DEF UnderWay
  <2>4. on[<<j.target, domain[s]>>] # s
    BY <1>0, <1>4, <1>6, <1>7 DEF DateInv, OnOK
  <2>5. \A k \in InPool : k.req # s
    <3>1. ASSUME NEW k \in InPool, k.req = s PROVE FALSE
      <4>1. JobOK(k)
        BY <1>0 DEF ManagerInv, AllJobs
      <4> QED BY <1>0, <1>7, <3>1, <4>1 DEF ManagerInv, JobOK, ReqOK, Job
    <3> QED BY <3>1
  <2>6. InPool' = InPool
    BY <2>2 DEF InPool
  <2>7. <<s, j.target>> \notin late /\ late' = late
    BY <1>0, <1>7, <2>1 DEF DateInv, Start, devVars
  <2> QED BY <1>0, <1>5, <2>2, <2>3, <2>4, <2>5, <2>6, <2>7 DEF KeptBack
\* s has begun before: it does not get to the target.
<1>8. CASE pc[s] # "new"
  <2>1. Behind(j, s) /\ KeptBack(j, s) /\ at'[s] = at[s]
    BY <1>0, <1>1, <1>2, <1>3, <1>8, Lasting DEF Behind, StaysInv
  <2>4. call[s] # j.target
    <3>1. SUFFICES ASSUME call[s] = j.target PROVE FALSE
      OBVIOUS
    <3>2. Open(s, j.target)
      BY <1>0, <1>4, <3>1, ManagerAssumption DEF DateInv
    <3> QED BY <1>0, <1>3, <2>1, <3>2, KeptOut
  <2>5. ASSUME NEW k \in running, k.target = j.target, k.req = s PROVE FALSE
    BY <2>1, <2>5 DEF KeptBack, InPool
  <2>2. on'[<<j.target, domain[s]>>] # s
    <3>1. SUFFICES ASSUME on'[<<j.target, domain[s]>>] = s PROVE FALSE
      OBVIOUS
    <3>2. on'[<<j.target, domain[s]>>] # on[<<j.target, domain[s]>>]
      BY <2>1, <3>1 DEF KeptBack
    <3>3. <<s, j.target>> \notin late
      BY <2>1 DEF KeptBack
    <3> QED BY <1>0, <1>4, <1>6, <2>4, <2>5, <3>1, <3>2, <3>3, OnFrom
  <2>6. <<s, j.target>> \notin late'
    <3>1. <<s, j.target>> \notin late
      BY <2>1 DEF KeptBack
    <3> QED BY <1>0, <1>4, <2>4, <2>5, <3>1, LateFrom
  <2>3. ASSUME NEW k \in InPool', k.req = s, k.target = j.target PROVE FALSE
    <3>1. CASE k \in InPool
      BY <2>1, <2>3, <3>1 DEF KeptBack
    <3>2. CASE k \notin InPool
      <4>1. PICK n \in DOMAIN jobs :
               Submit(n) /\ k = jobs[n] /\ \A i \in InPool : NameOf(i) # n
        BY <2>3, <3>2, PoolFrom
      <4>2. NameOf(j) = n
        <5>1. NameOf(jobs[n]) = n
          BY <1>0, <4>1 DEF TypeOK
        <5> QED BY <1>2, <2>3, <4>1, <5>1 DEF NameOf, JobId
      <4>3. j \notin InPool
        BY <4>1, <4>2
      <4>4. PICK m \in DOMAIN jobs : j = jobs[m]
        BY <1>3, <4>3 DEF AllJobs
      <4>5. m = n
        BY <1>0, <4>2, <4>4 DEF TypeOK
      <4> QED BY <1>2, <1>4, <2>3, <4>1, <4>4, <4>5, ManagerAssumption
    <3> QED BY <3>1, <3>2
  <2> QED BY <1>0, <1>5, <2>1, <2>2, <2>3, <2>6 DEF KeptBack
<1> QED BY <1>7, <1>8

\* An older certificate takes the place of a newer one only if the requests met,
\* if the older one's call had been given up and its target carries it out late,
\* or if the target's window runs past midnight.
THEOREM NewestNotReplaced == Spec => NewestStays
<1> DEFINE A == \A t \in Targets, d \in Domains :
          LET old == on'[<<t, d>>]  new == on[<<t, d>>]
          IN old < new => \/ <<old, new>> \in met
                          \/ <<old, t>> \in late
                          \/ (WindowOf[t] # NoWindow /\ Wraps(WindowOf[t]))
<1>1. StaysInv /\ [Next]_vars => [A]_vars
  <2> SUFFICES ASSUME StaysInv, [Next]_vars, NEW t \in Targets, NEW d \in Domains,
                      on'[<<t, d>>] < on[<<t, d>>]
               PROVE  \/ <<on'[<<t, d>>], on[<<t, d>>]>> \in met
                      \/ <<on'[<<t, d>>], t>> \in late
                      \/ (WindowOf[t] # NoWindow /\ Wraps(WindowOf[t]))
    OBVIOUS
  <2> DEFINE s == on[<<t, d>>]
  <2>1. DateInv /\ ManagerInv /\ TypeOK /\ TypeOK'
    BY DateStep DEF StaysInv, DateInv, ManagerInv, TypeInv
  <2>2. /\ s \in Requests \cup {0} /\ on'[<<t, d>>] \in Requests \cup {0}
        /\ Requests \subseteq Nat \ {0}
    <3>1. /\ on \in [Targets \X Domains -> Requests \cup {0}]
          /\ on' \in [Targets \X Domains -> Requests \cup {0}]
      BY <2>1 DEF TypeOK
    <3> QED BY <3>1, ManagerAssumption
  <2>3. s \in Requests /\ on'[<<t, d>>] # s
    <3> DEFINE o == on'[<<t, d>>]
    <3>1. s \in Requests \cup {0} /\ o \in Requests \cup {0} /\ o < s
      BY <2>2
    <3> HIDE DEF s, o
    <3>2. s \in Nat /\ o \in Nat /\ 0 \notin Requests
      BY <3>1, ManagerAssumption
    <3>3. s # 0 /\ o # s
      BY <3>1, <3>2
    <3> QED BY <3>1, <3>3 DEF s, o
  <2>4. pc[s] # "new" /\ domain[s] = d
    BY <2>1, <2>2, <2>3 DEF DateInv, OnOK
  <2>5. ASSUME NEW r \in Requests, on'[<<t, d>>] = r, pc[r] = "busy" PROVE <<r, s>> \in met
    BY <2>1, <2>3, <2>4, <2>5 DEF ManagerInv, OrderOK
  <2>6. ASSUME NEW j \in running, j.target = t, domain[j.req] = d, on'[<<t, d>>] = j.req
        PROVE  \/ <<j.req, s>> \in met
               \/ (WindowOf[t] # NoWindow /\ Wraps(WindowOf[t]))
    <3>1. j \in AllJobs /\ WindowOf[t] # NoWindow
      BY <2>1, <2>6 DEF AllJobs, InPool, ManagerInv, JobOK
    <3>2. Behind(j, s) => KeptBack(j, s)
      BY <2>3, <3>1 DEF StaysInv
    <3> QED BY <2>3, <2>4, <2>6, <3>1, <3>2 DEF Behind, KeptBack
  <2> QED BY <2>1, <2>3, <2>5, <2>6, OnFrom
<1>2. Init => StaysInv
  BY DateInit DEF Init, StaysInv, AllJobs, InPool
<1> QED BY <1>1, <1>2, StaysStep, PTL DEF Spec, NewestStays

(***************************************************************************)
(* Which jobs are dropped as late. A job goes to the pool in the slot in   *)
(* which it is due, unless its request came to its target after a call;    *)
(* a thread that was free for it takes it in that slot. If none was, the   *)
(* jobs in the pool were more than its threads, and all due by then.       *)
(***************************************************************************)
\* The request has called a target itself, which takes time.
Called(r) == \E u \in Targets : answer[<<r, u>>] \in {"ok", "error"}

\* An answered target is not to be reached again.
AnswerOK(r) == \A t \in Targets : answer[<<r, t>>] # "none" => t \notin todo[r]

\* Before its first call a request takes no time.
Fresh(r) == pc[r] = "busy" /\ call[r] = NoTarget => at[r] = now \/ Called(r)

\* The deferred deployments that were due by a date and have left the
\* scheduler's table for the pool.
LeftBy(due) == {x \in Pairs :
    /\ answer[x] = "deferred" /\ fate[x] # "replaced" /\ ~Before(due, Due(x[1], x[2]))
    /\ \A n \in DOMAIN jobs : <<jobs[n].req, jobs[n].target>> # x}

Crowded(r, t) == Workers < Cardinality(LeftBy(Due(r, t)))

SameName(r, t) == \E s \in Requests \ {r} :
    answer[<<s, t>>] = "deferred" /\ JobId(s, t) = JobId(r, t)

Deferred == {x \in Pairs : answer[x] = "deferred"}

LateInv ==
    /\ DateInv
    /\ IsFiniteSet(waiting) /\ IsFiniteSet(Deferred)
    /\ \A r \in Requests : AnswerOK(r) /\ Fresh(r)
    /\ \A n \in DOMAIN jobs : ~Before(jobs[n].due, now) \/ Called(jobs[n].req)
    /\ \A x \in waiting :
          \/ Called(x.job.req)
          \/ x.free /\ x.job.due = now
          \/ ~x.free /\ Crowded(x.job.req, x.job.target)
    /\ \A r \in Requests, t \in Targets :
          fate[<<r, t>>] = "missed" => Called(r) \/ SameName(r, t) \/ Crowded(r, t)

\* An answer is given once.
LEMMA AnswerKept ==
    ASSUME LateInv, [Next]_vars, NEW r \in Requests
    PROVE  /\ AnswerOK(r)'
           /\ \A t \in Targets :
                 answer[<<r, t>>] # "none" => answer'[<<r, t>>] = answer[<<r, t>>]
<1>0. /\ TypeOK /\ AnswerOK(r) /\ \A q \in Requests : ReqOK(q)
      /\ todo \in [Requests -> SUBSET Targets] /\ call \in [Requests -> Targets \cup {NoTarget}]
      /\ answer \in [Pairs -> {"none", "ok", "error", "deferred"}]
  BY DEF LateInv, DateInv, ManagerInv, TypeInv, TypeOK
<1>1. ASSUME NEW q \in Requests, NEW u \in todo[q], NEW a,
             answer' = [answer EXCEPT ![<<q, u>>] = a], todo' = [todo EXCEPT ![q] = @ \ {u}]
      PROVE  /\ AnswerOK(r)'
             /\ \A t \in Targets :
                   answer[<<r, t>>] # "none" => answer'[<<r, t>>] = answer[<<r, t>>]
  <2>1. \A t \in Targets : <<r, t>> # <<q, u>> => answer'[<<r, t>>] = answer[<<r, t>>]
    BY <1>0, <1>1 DEF Pairs
  <2>2. todo'[r] \subseteq todo[r] /\ (q = r => u \notin todo'[r])
    BY <1>0, <1>1
  <2> QED BY <1>0, <1>1, <2>1, <2>2 DEF AnswerOK
<1>2. ASSUME NEW q \in Requests, EndOk(q) \/ EndError(q)
      PROVE  \E u \in todo[q], a \in {"ok", "error"} :
                /\ answer' = [answer EXCEPT ![<<q, u>>] = a]
                /\ todo' = [todo EXCEPT ![q] = @ \ {u}]
  <2>1. call[q] \in todo[q]
    BY <1>0, <1>2 DEF EndOk, EndError, ReqOK
  <2> QED BY <1>2, <2>1 DEF EndOk, EndError, Answers
<1>3. ASSUME NEW q \in Requests, NEW t \in Targets, Defer(q, t)
      PROVE  /\ t \in todo[q] /\ answer' = [answer EXCEPT ![<<q, t>>] = "deferred"]
             /\ todo' = [todo EXCEPT ![q] = @ \ {t}]
  BY <1>3 DEF Defer, Reaches
<1>4. CASE UNCHANGED <<answer, todo>>
  BY <1>0, <1>4 DEF AnswerOK
<1>5. CASE \E q \in Requests : EndOk(q) \/ EndError(q)
  BY <1>1, <1>2, <1>5
<1>6. CASE \E q \in Requests, t \in Targets : Defer(q, t)
  <2>1. PICK q \in Requests, t \in Targets : Defer(q, t)
    BY <1>6
  <2>2. /\ t \in todo[q] /\ answer' = [answer EXCEPT ![<<q, t>>] = "deferred"]
        /\ todo' = [todo EXCEPT ![q] = @ \ {t}]
    BY <1>3, <2>1
  <2> QED BY <1>1, <2>2
<1> QED BY <1>4, <1>5, <1>6
        DEF Next, Serve, Start, Return, Begin, Submit, TakeJob, _deferred_deploy, Restart, Tick, Close, Lands, Done, vars, reqVars, devVars

\* The deferred deployments and the jobs in the pool stay finitely many.
LEMMA FiniteStep ==
    ASSUME LateInv, [Next]_vars
    PROVE  IsFiniteSet(waiting') /\ IsFiniteSet(Deferred')
<1>1. IsFiniteSet(waiting) /\ IsFiniteSet(Deferred) /\ ManagerInv
  BY DEF LateInv, DateInv
<1>2. IsFiniteSet(waiting')
  <2>1. waiting' \subseteq waiting \/ \E x : waiting' \subseteq waiting \cup {x}
    BY DEF Next, Serve, Start, EndOk, EndError, Return, Begin, Defer, Submit, TakeJob,
           _deferred_deploy, Restart, Tick, Close, Lands, Done, vars, jobVars, devVars
  <2>2. ASSUME NEW x, waiting' \subseteq waiting \cup {x} PROVE IsFiniteSet(waiting')
    <3>1. IsFiniteSet(waiting \cup {x})
      BY <1>1, FS_AddElement
    <3> QED BY <2>2, <3>1, FS_Subset
  <2>3. CASE waiting' \subseteq waiting
    BY <1>1, <2>3, FS_Subset
  <2> QED BY <2>1, <2>2, <2>3
<1>3. IsFiniteSet(Deferred')
  <2>1. CASE \E x \in Deferred' : x \notin Deferred
    <3>1. PICK r \in Requests, t \in Targets : <<r, t>> \in Deferred' /\ <<r, t>> \notin Deferred
      BY <2>1 DEF Deferred, Pairs
    <3>2. Defer(r, t)
      BY <1>1, <3>1, DeferredByDefer DEF Deferred
    <3>3. answer' = [answer EXCEPT ![<<r, t>>] = "deferred"]
      BY <3>2 DEF Defer
    <3>4. Deferred' \subseteq Deferred \cup {<<r, t>>}
      <4>1. answer \in [Pairs -> {"none", "ok", "error", "deferred"}]
        BY <1>1 DEF ManagerInv, TypeInv, TypeOK
      <4> QED BY <3>3, <4>1 DEF Deferred
    <3>5. IsFiniteSet(Deferred \cup {<<r, t>>})
      BY <1>1, FS_AddElement
    <3> QED BY <3>4, <3>5, FS_Subset
  <2>2. CASE Deferred' \subseteq Deferred
    BY <1>1, <2>2, FS_Subset
  <2> QED BY <2>1, <2>2
<1> QED BY <1>2, <1>3

\* What has left the scheduler's table is not put there again, nor replaced.
LEMMA LeftStays ==
    ASSUME LateInv, [Next]_vars, NEW due
    PROVE  LeftBy(due) \subseteq LeftBy(due)'
<1>0. DateInv /\ ManagerInv /\ TypeOK
  BY DEF LateInv, DateInv, ManagerInv, TypeInv
<1>1. SUFFICES ASSUME NEW r \in Requests, NEW t \in Targets, <<r, t>> \in LeftBy(due)
               PROVE  <<r, t>> \in LeftBy(due)'
  BY DEF LeftBy, Pairs
<1>2. /\ answer[<<r, t>>] = "deferred" /\ fate[<<r, t>>] # "replaced" /\ ~Before(due, Due(r, t))
      /\ \A n \in DOMAIN jobs : ~(jobs[n].req = r /\ jobs[n].target = t)
  BY <1>1 DEF LeftBy
<1>3. answer'[<<r, t>>] = "deferred"
  BY <1>0, <1>2, DeferredStays
<1>4. fate'[<<r, t>>] # "replaced"
  BY <1>0, <1>2, Replaces
<1>5. Due(r, t)' = Due(r, t)
  <2>1. pc[r] # "new"
    BY <1>0, <1>2 DEF ManagerInv, ReqOK
  <2> QED BY <1>0, <2>1, Lasting DEF Due
<1>6. ASSUME NEW m \in DOMAIN jobs', jobs'[m].req = r, jobs'[m].target = t PROVE FALSE
  <2>1. CASE m \in DOMAIN jobs /\ jobs'[m] = jobs[m]
    BY <1>2, <1>6, <2>1
  <2>2. ASSUME NEW q \in Requests, NEW u \in Targets, Defer(q, u),
               jobs'[m] = [req |-> q, target |-> u, due |-> Due(q, u)]
        PROVE  FALSE
    <3>1. q = r /\ u = t
      BY <1>6, <2>2
    <3> QED BY <1>0, <1>2, <2>2, <3>1, DeferredOnce
  <2> QED BY <2>1, <2>2, JobsFrom
<1>7. <<r, t>> \in Pairs /\ <<r, t>>[1] = r /\ <<r, t>>[2] = t
  BY DEF Pairs
<1>8. \A m \in DOMAIN jobs' : <<jobs'[m].req, jobs'[m].target>> # <<r, t>>
  BY <1>6
<1> QED BY <1>2, <1>3, <1>4, <1>5, <1>7, <1>8 DEF LeftBy

\* A crowd stays one.
LEMMA CrowdedStays ==
    ASSUME LateInv, [Next]_vars, NEW r \in Requests, NEW t \in Targets,
           answer[<<r, t>>] = "deferred", Crowded(r, t)
    PROVE  Crowded(r, t)'
<1>0. PICK due : due = Due(r, t)
  OBVIOUS
<1>1. Due(r, t)' = due
  <2>1. pc[r] # "new"
    BY DEF LateInv, DateInv, ManagerInv, ReqOK
  <2> QED BY <1>0, <2>1, Lasting DEF Due, LateInv, DateInv
<1>2. LeftBy(due) \subseteq LeftBy(due)'
  BY LeftStays
<1>3. IsFiniteSet(LeftBy(due)')
  <2>1. LeftBy(due)' \subseteq Deferred'
    BY DEF LeftBy, Deferred
  <2> QED BY <2>1, FiniteStep, FS_Subset
<1>4. IsFiniteSet(LeftBy(due)) /\ Cardinality(LeftBy(due)) <= Cardinality(LeftBy(due)')
  BY <1>2, <1>3, FS_Subset
<1>5. Cardinality(LeftBy(due)) \in Nat /\ Cardinality(LeftBy(due)') \in Nat
  BY <1>3, <1>4, FS_CardinalityType
<1>6. Workers < Cardinality(LeftBy(due))
  BY <1>0 DEF Crowded
<1>7. Workers < Cardinality(LeftBy(due)')
  BY <1>4, <1>5, <1>6, ManagerAssumption
<1> QED BY <1>1, <1>7 DEF Crowded

\* A job that finds no thread free in the slot in which it is due is one of
\* more jobs than threads that were due by then.
LEMMA PoolFull ==
    ASSUME LateInv, NEW n \in DOMAIN jobs, NEW j, j = jobs[n], Submit(n), UNCHANGED fate,
           j.due = now, ~(Cardinality(InPool) < Workers)
    PROVE  Crowded(j.req, j.target)'
<1> DEFINE P == InPool \cup {j}
           f == [k \in P |-> <<k.req, k.target>>]
<1>0. /\ DateInv /\ ManagerInv /\ TypeOK /\ [Next]_vars
      /\ j \in AllJobs /\ P \subseteq AllJobs
  BY DEF LateInv, DateInv, ManagerInv, TypeInv, AllJobs, Next
<1>1. /\ UNCHANGED <<answer, at, fate>>
      /\ \A m \in DOMAIN jobs' : m \in DOMAIN jobs \ {n} /\ jobs'[m] = jobs[m]
  BY DEF Submit, reqVars
<1>2. ASSUME NEW k \in P
      PROVE  /\ k \in Job /\ answer[<<k.req, k.target>>] = "deferred"
             /\ fate[<<k.req, k.target>>] # "replaced"
             /\ Due(k.req, k.target) = k.due /\ ~Before(now, k.due)
             /\ \A m \in DOMAIN jobs \ {n} : jobs[m] # k
  <2>1. JobOK(k) /\ JobDue(k) /\ j \in Job
    BY <1>0 DEF DateInv, ManagerInv, JobOK
  <2>2. ~Before(now, k.due)
    <3>1. now \in Time /\ ~Before(now, now)
      BY <1>0, TimeOrder DEF TypeOK
    <3> QED BY <2>1, <3>1 DEF JobDue
  <2>3. \A m \in DOMAIN jobs \ {n} : jobs[m] # k
    <3>1. \A m \in DOMAIN jobs : NameOf(jobs[m]) = m
      BY <1>0 DEF TypeOK
    <3>2. CASE k = jobs[n]
      BY <3>1, <3>2
    <3>3. CASE k \in InPool
      BY <2>1, <3>3 DEF JobDue
    <3> QED BY <3>2, <3>3
  <2> QED BY <2>1, <2>2, <2>3 DEF JobOK, JobDue
<1>3. ASSUME NEW k \in P PROVE f[k] \in LeftBy(now)'
  <2>1. k.req \in Requests /\ k.target \in Targets
    BY <1>2 DEF Job
  <2>2. Due(k.req, k.target)' = k.due
    BY <1>1, <1>2 DEF Due
  <2>3. ASSUME NEW m \in DOMAIN jobs'
        PROVE  <<jobs'[m].req, jobs'[m].target>> # <<k.req, k.target>>
    <3>1. m \in DOMAIN jobs \ {n} /\ jobs'[m] = jobs[m]
      BY <1>1
    <3>2. jobs[m] # k /\ jobs[m] \in AllJobs /\ k \in AllJobs
      BY <1>0, <1>2, <3>1 DEF AllJobs
    <3> QED BY <1>0, <3>1, <3>2, OneJob
  <2>4. now' = now
    BY DEF Submit
  <2>5. /\ <<k.req, k.target>> \in Pairs
        /\ <<k.req, k.target>>[1] = k.req /\ <<k.req, k.target>>[2] = k.target
    BY <2>1 DEF Pairs
  <2> QED BY <1>1, <1>2, <2>2, <2>3, <2>4, <2>5 DEF LeftBy
<1>4. IsFiniteSet(InPool) /\ j \notin InPool
  <2>1. j \notin InPool
    BY <1>0 DEF DateInv, JobDue
  <2> DEFINE W == {x.job : x \in waiting}
             g == [x \in waiting |-> x.job]
  <2>2. g \in Surjection(waiting, W)
    BY DEF Surjection
  <2>3. IsFiniteSet(W)
    <3> HIDE DEF g, W
    <3> QED BY <2>2, FS_Surjection DEF LateInv
  <2>4. IsFiniteSet(running \cup W)
    <3>1. IsFiniteSet(running)
      BY <1>0 DEF ManagerInv, TypeInv
    <3> HIDE DEF W
    <3> QED BY <2>3, <3>1, FS_Union
  <2> QED BY <2>1, <2>4 DEF InPool
<1>5. IsFiniteSet(P) /\ Workers < Cardinality(P)
  <2>1. IsFiniteSet(P) /\ Cardinality(P) = Cardinality(InPool) + 1
    BY <1>4, FS_AddElement
  <2>2. Cardinality(InPool) \in Nat
    BY <1>4, FS_CardinalityType
  <2> QED BY <2>1, <2>2, ManagerAssumption
<1>6. IsFiniteSet(LeftBy(now)')
  <2>1. LeftBy(now)' \subseteq Deferred'
    BY DEF LeftBy, Deferred
  <2>2. IsFiniteSet(Deferred')
    BY <1>0, FiniteStep
  <2> QED BY <2>1, <2>2, FS_Subset
<1>7. f \in Injection(P, LeftBy(now)')
  <2>1. f \in [P -> LeftBy(now)']
    BY <1>3
  <2>2. ASSUME NEW k \in P, NEW i \in P, f[k] = f[i] PROVE k = i
    <3>1. k.req = i.req /\ k.target = i.target
      BY <2>2
    <3> QED BY <1>0, <3>1, OneJob
  <2> HIDE DEF f, P
  <2> QED BY <2>1, <2>2 DEF Injection, IsInjective
<1>8. Cardinality(P) <= Cardinality(LeftBy(now)')
  <2> HIDE DEF f, P
  <2> QED BY <1>6, <1>7, FS_Injection
<1>9. Cardinality(P) \in Nat /\ Cardinality(LeftBy(now)') \in Nat
  BY <1>5, <1>6, FS_CardinalityType
<1>10. Workers < Cardinality(LeftBy(now)')
  <2> HIDE DEF P
  <2> QED BY <1>5, <1>8, <1>9, ManagerAssumption
<1>11. Due(j.req, j.target)' = now'
  <2>1. Due(j.req, j.target) = now /\ now' = now
    BY <1>2 DEF Submit
  <2> QED BY <1>1, <2>1 DEF Due
<1> QED BY <1>10, <1>11 DEF Crowded

\* A job is dropped because one of its name is in the pool, or by a thread that
\* comes to it too late.
LEMMA MissedBy ==
    ASSUME ManagerInv, [Next]_vars, NEW r \in Requests, NEW t \in Targets,
           fate'[<<r, t>>] = "missed", fate[<<r, t>>] # "missed"
    PROVE  \/ \E n \in DOMAIN jobs, k \in InPool :
                 jobs[n].req = r /\ jobs[n].target = t /\ NameOf(k) = n
           \/ \E x \in waiting :
                 x.job.req = r /\ x.job.target = t /\ (x.job.due # now \/ ~x.free)
<1>0. fate \in [Pairs -> {"none", "ran", "missed", "replaced", "lost"}] /\ <<r, t>> \in Pairs
  BY DEF ManagerInv, TypeInv, TypeOK, Pairs
<1>1. ASSUME NEW j, NEW what, Settle(j, what)
      PROVE  what = "missed" /\ j.req = r /\ j.target = t
  BY <1>0, <1>1 DEF Settle
<1>2. ASSUME NEW n \in DOMAIN jobs, Submit(n)
      PROVE  jobs[n].req = r /\ jobs[n].target = t /\ \E k \in InPool : NameOf(k) = n
  BY <1>1, <1>2 DEF Submit
<1>3. ASSUME NEW x \in waiting, TakeJob(x)
      PROVE  x.job.req = r /\ x.job.target = t /\ (x.job.due # now \/ ~x.free)
  BY <1>1, <1>3 DEF TakeJob
<1>4. ASSUME NEW j \in running, _deferred_deploy(j) PROVE FALSE
  BY <1>1, <1>4 DEF _deferred_deploy
<1>5. ASSUME NEW s \in Requests, NEW u \in Targets, Defer(s, u) PROVE FALSE
  <2>1. Settle(jobs[JobId(s, u)], "replaced")
    BY <1>5 DEF Defer, Settle
  <2> QED BY <1>1, <2>1
<1>6. CASE Restart \/ Close
  BY <1>0, <1>6 DEF Restart, Close
<1> QED BY <1>2, <1>3, <1>4, <1>5, <1>6
        DEF Next, Serve, Start, EndOk, EndError, Return, Begin, Tick, Lands, Done, vars

\* LateInv is inductive.
LEMMA LateStep ==
    ASSUME NamesTellApart, LateInv, [Next]_vars
    PROVE  LateInv'
<1>0. /\ DateInv /\ DateInv' /\ ManagerInv /\ TypeOK /\ TypeOK'
      /\ domain' = domain /\ (now' = now \/ Tick) /\ now \in Time
  BY DateStep, Lasting DEF LateInv, DateInv, ManagerInv, TypeInv, TypeOK
<1>1. ASSUME NEW r \in Requests, Called(r) PROVE Called(r)'
  BY <1>1, AnswerKept DEF Called
<1>2. ASSUME NEW j \in AllJobs
      PROVE  /\ j \in Job /\ j.req \in Requests /\ j.target \in Targets /\ j.due \in Time
             /\ answer[<<j.req, j.target>>] = "deferred" /\ JobDue(j)
  BY <1>0, <1>2 DEF DateInv, ManagerInv, JobOK, Job
<1>3. ASSUME NEW r \in Requests PROVE Fresh(r)'
  <2>1. SUFFICES ASSUME pc'[r] = "busy", call'[r] = NoTarget
                 PROVE  at'[r] = now' \/ Called(r)'
    BY DEF Fresh
  <2>2. CASE Start(r)
    BY <1>0, <2>2 DEF Start, TypeOK
  <2>3. CASE EndOk(r) \/ EndError(r)
    <3>1. PICK a \in {"ok", "error"} : answer' = [answer EXCEPT ![<<r, call[r]>>] = a]
      BY <2>3 DEF EndOk, EndError, Answers
    <3>2. call[r] \in Targets /\ <<r, call[r]>> \in Pairs
      BY <1>0, <2>3 DEF EndOk, EndError, TypeOK, Pairs
    <3>3. answer'[<<r, call[r]>>] \in {"ok", "error"}
      BY <1>0, <3>1, <3>2 DEF TypeOK
    <3> QED BY <3>2, <3>3 DEF Called
  <2>4. CASE Tick
    <3>1. UNCHANGED <<pc, call>>
      BY <2>4 DEF Tick, reqVars
    <3> QED BY <2>1, <2>4, <3>1 DEF Tick
  <2>5. CASE pc[r] = "busy" /\ call[r] = NoTarget /\ ~Tick
    <3>1. at'[r] = at[r] /\ now' = now
      BY <1>0, <2>5, Lasting
    <3> QED BY <1>1, <2>5, <3>1 DEF LateInv, Fresh
  <2>6. ASSUME NEW q \in Requests \ {r}, Start(q) \/ Serve(q)
        PROVE  pc[r] = "busy" /\ call[r] = NoTarget
    BY <1>0, <2>1, <2>6, RequestMoves
  <2>7. ~Return(r)
    BY <1>0, <2>1 DEF Return, TypeOK
  <2>10. ASSUME NEW t \in Targets, Begin(r, t) \/ Defer(r, t)
         PROVE  pc[r] = "busy" /\ call[r] = NoTarget
    BY <2>10 DEF Begin, Defer, Reaches
  <2>8. CASE Restart
    BY <1>0, <2>1, <2>8 DEF Restart, TypeOK
  <2>9. CASE \/ \E n \in DOMAIN jobs : Submit(n)
             \/ \E x \in waiting : TakeJob(x)
             \/ \E j \in running : _deferred_deploy(j)
             \/ \E x \in late : Lands(x)
             \/ Close \/ UNCHANGED vars
    <3>1. UNCHANGED <<pc, call, at, now>>
      BY <2>9 DEF Submit, TakeJob, _deferred_deploy, Lands, Close, reqVars, vars
    <3> QED BY <1>1, <2>1, <3>1 DEF LateInv, Fresh
  <2> QED BY <2>2, <2>3, <2>4, <2>5, <2>6, <2>7, <2>8, <2>9, <2>10 DEF Next, Serve, Done
<1>4. ASSUME NEW m \in DOMAIN jobs'
      PROVE  ~Before(jobs'[m].due, now') \/ Called(jobs[m].req)'
  <2>1. CASE m \in DOMAIN jobs /\ jobs'[m] = jobs[m]
    <3>1. jobs[m].req \in Requests /\ jobs[m].due \in Time
      BY <1>0, <2>1 DEF TypeOK, Job
    <3>2. PICK r \in Requests : r = jobs[m].req
      BY <3>1
    <3>3. CASE Called(jobs[m].req)
      BY <1>1, <2>1, <3>2, <3>3 DEF Called
    <3>4. CASE ~Before(jobs[m].due, now)
      <4>1. CASE Tick
        <5>1. Before(now, jobs[m].due) /\ now' = After(now)
          BY <2>1, <4>1 DEF Tick
        <5> QED BY <1>0, <2>1, <3>1, <5>1, TimeOrder
      <4> QED BY <1>0, <2>1, <3>4, <4>1
    <3> QED BY <2>1, <3>3, <3>4 DEF LateInv
  <2>2. ASSUME NEW r \in Requests, NEW t \in Targets, Defer(r, t),
               jobs'[m] = [req |-> r, target |-> t, due |-> Due(r, t)]
        PROVE  ~Before(jobs'[m].due, now') \/ Called(jobs[m].req)'
    <3>1. pc[r] = "busy" /\ call[r] = NoTarget /\ ~Open(r, t) /\ now' = now
      BY <2>2 DEF Defer, Reaches
    <3>2. CASE Called(r)
      <4>1. Called(r)' /\ jobs'[m].req = r
        BY <1>1, <2>2, <3>2
      <4> QED BY <4>1 DEF Called
    <3>3. CASE at[r] = now
      <4>1. WindowOf[t] \in Window /\ Usable(WindowOf[t])
        BY <3>1, ManagerAssumption DEF Open, Usable
      <4>2. /\ Due(r, t) \in Time /\ (Due(r, t) = now \/ Before(now, Due(r, t)))
        BY <1>0, <3>3, <4>1, NextStartIsOpen DEF Due
      <4>3. ~Before(Due(r, t), now)
        BY <1>0, <4>2, TimeOrder
      <4> QED BY <2>2, <3>1, <4>3
    <3> QED BY <3>1, <3>2, <3>3 DEF LateInv, Fresh
  <2> QED BY <2>1, <2>2, JobsFrom
<1>5. ASSUME NEW x \in waiting', x \in waiting
      PROVE  \/ Called(x.job.req)'
             \/ x.free /\ x.job.due = now'
             \/ ~x.free /\ Crowded(x.job.req, x.job.target)'
  <2>1. x.job \in AllJobs
    BY <1>5 DEF AllJobs, InPool
  <2>2. /\ x.job.req \in Requests /\ x.job.target \in Targets
        /\ answer[<<x.job.req, x.job.target>>] = "deferred"
    BY <1>2, <2>1
  <2>3. CASE Called(x.job.req)
    BY <1>1, <2>2, <2>3
  <2>4. CASE x.free /\ x.job.due = now
    BY <1>0, <1>5, <2>4 DEF Tick
  <2>5. CASE ~x.free /\ Crowded(x.job.req, x.job.target)
    BY <2>2, <2>5, CrowdedStays
  <2> QED BY <1>5, <2>3, <2>4, <2>5 DEF LateInv
<1>6. ASSUME NEW x \in waiting', x \notin waiting
      PROVE  \/ Called(x.job.req)'
             \/ x.free /\ x.job.due = now'
             \/ ~x.free /\ Crowded(x.job.req, x.job.target)'
  <2>1. PICK n \in DOMAIN jobs : Submit(n)
    BY <1>6 DEF Next, Serve, Start, EndOk, EndError, Return, Begin, Defer, TakeJob,
           _deferred_deploy, Restart, Tick, Close, Lands, Done, vars, jobVars, devVars
  <2>2. PICK j : j = jobs[n]
    OBVIOUS
  <2>3. /\ x = [job |-> j, free |-> Cardinality(InPool) < Workers]
        /\ UNCHANGED fate /\ now' = now /\ ~Before(now, j.due)
    BY <1>6, <2>1, <2>2 DEF Submit
  <2>4. x.job = j /\ x.free = (Cardinality(InPool) < Workers)
    BY <2>3
  <2>5. j \in AllJobs
    BY <2>2 DEF AllJobs
  <2>6. j.req \in Requests /\ j.due \in Time
    BY <1>2, <2>5
  <2>7. CASE Called(j.req)
    BY <1>1, <2>4, <2>6, <2>7
  <2>8. CASE ~Before(j.due, now)
    <3>1. j.due = now
      BY <1>0, <2>3, <2>6, <2>8, TimeOrder
    <3>2. CASE Cardinality(InPool) < Workers
      BY <2>3, <2>4, <3>1, <3>2
    <3>3. CASE ~(Cardinality(InPool) < Workers)
      <4>1. Crowded(j.req, j.target)'
        BY <2>1, <2>2, <2>3, <3>1, <3>3, PoolFull
      <4> QED BY <2>4, <3>3, <4>1
    <3> QED BY <3>2, <3>3
  <2> QED BY <2>2, <2>7, <2>8 DEF LateInv
<1>7. ASSUME NEW r \in Requests, NEW t \in Targets, SameName(r, t) PROVE SameName(r, t)'
  BY <1>0, <1>7, DeferredStays DEF SameName, JobId
<1>8. ASSUME NEW r \in Requests, NEW t \in Targets, fate'[<<r, t>>] = "missed"
      PROVE  Called(r)' \/ SameName(r, t)' \/ Crowded(r, t)'
  <2>1. answer[<<r, t>>] = "deferred"
    <3>1. CASE fate'[<<r, t>>] # fate[<<r, t>>]
      BY <1>0, <3>1, FateOfDeferred
    <3>2. CASE fate'[<<r, t>>] = fate[<<r, t>>]
      BY <1>0, <1>8, <3>2 DEF ManagerInv, ReqOK
    <3> QED BY <3>1, <3>2
  <2>2. Called(r) \/ SameName(r, t) \/ Crowded(r, t)
    <3>1. CASE fate[<<r, t>>] = "missed"
      BY <3>1 DEF LateInv
    <3>2. CASE \E n \in DOMAIN jobs, k \in InPool :
                  jobs[n].req = r /\ jobs[n].target = t /\ NameOf(k) = n
      <4>1. PICK n \in DOMAIN jobs, k \in InPool :
               jobs[n].req = r /\ jobs[n].target = t /\ NameOf(k) = n
        BY <3>2
      <4>2. k \in AllJobs /\ jobs[n] \in AllJobs
        BY DEF AllJobs
      <4>3. NameOf(jobs[n]) = n
        BY <1>0 DEF TypeOK
      <4>4. JobName[<<k.target, domain[k.req]>>] = JobName[<<t, domain[r]>>]
        BY <4>1, <4>3 DEF NameOf, JobId
      <4>5. k.req \in Requests /\ k.target \in Targets /\ domain \in [Requests -> Domains]
        BY <1>0, <1>2, <4>2 DEF TypeOK
      <4>6. k.target = t /\ domain[k.req] = domain[r]
        BY <4>4, <4>5 DEF NamesTellApart
      <4>7. k # jobs[n]
        BY <1>2, <4>2 DEF JobDue
      <4>8. k.req # r
        BY <1>0, <4>1, <4>2, <4>6, <4>7, OneJob
      <4>9. answer[<<k.req, t>>] = "deferred" /\ JobId(k.req, t) = JobId(r, t)
        BY <1>2, <4>2, <4>6 DEF JobId
      <4> QED BY <4>5, <4>8, <4>9 DEF SameName
    <3>3. CASE \E x \in waiting :
                  x.job.req = r /\ x.job.target = t /\ (x.job.due # now \/ ~x.free)
      BY <3>3 DEF LateInv
    <3> QED BY <1>0, <1>8, <3>1, <3>2, <3>3, MissedBy
  <2> QED BY <1>1, <1>7, <2>1, <2>2, CrowdedStays
<1>9. \A r \in Requests : AnswerOK(r)'
  BY AnswerKept
<1> QED BY <1>0, <1>3, <1>4, <1>5, <1>6, <1>8, <1>9, FiniteStep DEF LateInv

LEMMA LateInit == Init => LateInv
<1> SUFFICES ASSUME Init PROVE LateInv
  OBVIOUS
<1>1. /\ Deferred = {} /\ waiting = {} /\ DOMAIN jobs = {}
      /\ \A r \in Requests, t \in Targets : answer[<<r, t>>] = "none" /\ fate[<<r, t>>] = "none"
      /\ \A r \in Requests : pc[r] = "new"
  BY DEF Init, Deferred, Pairs
<1>2. IsFiniteSet(waiting) /\ IsFiniteSet(Deferred)
  BY <1>1, FS_EmptySet
<1> QED BY <1>1, <1>2, DateInit DEF LateInv, AnswerOK, Fresh

\* When the names of jobs tell all targets and domains apart, a deferred
\* deployment is dropped as late only in the three cases that the property names.
THEOREM OnlyLateOnesMissed == ASSUME NamesTellApart PROVE Spec => []MissedOnlyWhenLate
<1>1. LateInv => MissedOnlyWhenLate
  <2> SUFFICES ASSUME LateInv, NEW r \in Requests, NEW t \in Targets, Crowded(r, t)
               PROVE  Workers < Cardinality({x \in Pairs :
                         /\ answer[x] = "deferred" /\ fate[x] # "replaced"
                         /\ ~Before(Due(r, t), Due(x[1], x[2]))})
    BY DEF LateInv, MissedOnlyWhenLate, Called, SameName
  <2> DEFINE C == {x \in Pairs :
                     /\ answer[x] = "deferred" /\ fate[x] # "replaced"
                     /\ ~Before(Due(r, t), Due(x[1], x[2]))}
             L == LeftBy(Due(r, t))
  <2>1. L \subseteq C /\ C \subseteq Deferred
    BY DEF LeftBy, Deferred
  <2>2. IsFiniteSet(C)
    <3> HIDE DEF C, L
    <3> QED BY <2>1, FS_Subset DEF LateInv
  <2>3. IsFiniteSet(L) /\ Cardinality(L) <= Cardinality(C)
    <3> HIDE DEF C, L
    <3> QED BY <2>1, <2>2, FS_Subset
  <2>4. Cardinality(L) \in Nat /\ Cardinality(C) \in Nat
    BY <2>2, <2>3, FS_CardinalityType
  <2>5. Workers < Cardinality(L)
    BY DEF Crowded
  <2> HIDE DEF C, L
  <2>6. Workers < Cardinality(C)
    BY <2>3, <2>4, <2>5, ManagerAssumption
  <2> QED BY <2>6 DEF C
<1>2. LateInv /\ [Next]_vars => LateInv'
  BY LateStep
<1> QED BY <1>1, <1>2, LateInit, PTL DEF Spec
==============================================================================
