---------------------------- MODULE DeployManager ----------------------------
(***************************************************************************)
(* DeployManager: requests that deploy a certificate to the targets, at    *)
(* once or through date jobs at the opening of a target's window, and the  *)
(* scheduler with its thread pool that runs those jobs.                    *)
(*                                                                         *)
(* Requests are numbered in the order in which they arrive; the number     *)
(* also stands for the certificate that a request carries, so that a       *)
(* greater number is a newer certificate.                                  *)
(***************************************************************************)
EXTENDS WindowTime, FiniteSets

CONSTANTS
    Requests,   \* 1..n
    Domains, DomainsOf,   \* ... and the ways in which requests may have them
    Selections,           \* the sets of targets that requests ask for
    Targets, WindowOf,    \* a target's deploy_window (or the default), or NoWindow
    NoWindow, NoTarget,
    JobName,    \* f"deploy-{target}-{domain}", which need not tell pairs apart
    Workers,    \* threads of the scheduler's pool (10)
    Faults,     \* "device" (a deployment fails), "restart" (the process ends)
    LastStart,  \* bound: no request arrives after this time
    MaxDay      \* bound: the clock stops at the end of this day

ASSUME ManagerAssumption ==
    /\ Requests \subseteq Nat \ {0}
    /\ WindowOf \in [Targets -> Window \cup {NoWindow}]
    /\ \A t \in Targets : WindowOf[t] # NoWindow =>
          WindowOf[t].start # WindowOf[t].end /\ WindowOf[t].days # {}
    /\ DomainsOf \subseteq [Requests -> Domains] /\ Selections \subseteq SUBSET Targets
    /\ NoTarget \notin Targets
    /\ DOMAIN JobName = Targets \X Domains /\ Workers \in Nat \ {0}
    /\ Faults \subseteq {"device", "restart"}
    /\ LastStart \in Time /\ MaxDay \in Nat

VARIABLES
    now,      \* the clock
    domain,   \* the domain of a request's certificate
    pc,       \* of a request: "new", "busy" or "done"
    at,       \* the time it read when it started
    todo,     \* the targets it has not come to yet
    call,     \* the target it is deploying to
    answer,   \* its result for every target
    jobs,     \* the scheduler's date jobs, by name
    waiting,  \* jobs handed to the pool, and whether a thread was free for them
    running,  \* jobs that a thread of the pool is running
    on,       \* the certificate on a target, per domain (0: none)
    late,     \* calls that failed and that the target may yet carry out
    serving,  \* the manager is not closed
    fate,     \* history: what became of a deferred deployment
    met       \* history: <<r, s>>: r, or a job of it, was under way when s began

reqVars == <<domain, pc, at, todo, call, answer>>
jobVars == <<jobs, waiting, running>>
devVars == <<on, late>>
vars    == <<now, reqVars, jobVars, devVars, serving, fate, met>>

Pairs == Requests \X Targets
Job   == [req : Requests, target : Targets, due : Time]

Init ==
    /\ now = [day |-> 0, slot |-> 0]
    /\ domain \in DomainsOf
    /\ pc = [r \in Requests |-> "new"] /\ at = [r \in Requests |-> now]
    /\ todo \in [Requests -> Selections]
    /\ call = [r \in Requests |-> NoTarget]
    /\ answer = [x \in Pairs |-> "none"] /\ fate = answer
    /\ jobs = [n \in {} |-> now] /\ waiting = {} /\ running = {}
    /\ on = [x \in Targets \X Domains |-> 0] /\ late = {}
    /\ serving = TRUE /\ met = {}

(***************************************************************************)
(* A request.                                                              *)
(***************************************************************************)
\* The request is being served, or a job of it is due, in the pool or running.
UnderWay(r) ==
    \/ pc[r] = "busy"
    \/ \E j \in running \cup {x.job : x \in waiting} : j.req = r
    \/ \E n \in DOMAIN jobs : jobs[n].req = r /\ ~Before(now, jobs[n].due)

\* deploy is called for some of the targets, and reads the clock, once.
Start(r) ==
    /\ serving /\ pc[r] = "new" /\ ~Before(LastStart, now)
    /\ \A s \in Requests : s < r => pc[s] # "new"
    /\ pc' = [pc EXCEPT ![r] = "busy"] /\ at' = [at EXCEPT ![r] = now]
    /\ met' = met \cup {<<s, r>> : s \in {s \in Requests : UnderWay(s)}}
    /\ UNCHANGED <<now, domain, todo, call, answer, jobVars, devVars, serving, fate>>

\* The loop comes to t, which is open or closed at the time that was read.
Reaches(r, t) == pc[r] = "busy" /\ call[r] = NoTarget /\ t \in todo[r]
Open(r, t)    == WindowOf[t] # NoWindow => is_within_window(WindowOf[t], at[r])
Due(r, t)     == next_window_start(WindowOf[t], at[r])

\* Seeded fault: the job's name leaves the domain out.
JobIdByTarget(r, t) == <<t>>

\* Seeded fault: a name of its own for every job.
JobIdUnique(r, t) == <<r, t>>

JobId(r, t) == JobName[<<t, domain[r]>>]

\* Seeded fault: the answer is given but no job is added.
DeferUnscheduled(r, t) ==
    /\ Reaches(r, t) /\ ~Open(r, t)
    /\ todo' = [todo EXCEPT ![r] = @ \ {t}]
    /\ answer' = [answer EXCEPT ![<<r, t>>] = "deferred"]
    /\ UNCHANGED <<now, domain, pc, at, call, jobVars, devVars, serving, fate, met>>

\* Closed: a date job, in the place of one of the same name.
Defer(r, t) ==
    /\ Reaches(r, t) /\ ~Open(r, t)
    /\ todo' = [todo EXCEPT ![r] = @ \ {t}]
    /\ answer' = [answer EXCEPT ![<<r, t>>] = "deferred"]
    /\ LET n   == JobId(r, t)
           job == [req |-> r, target |-> t, due |-> Due(r, t)]
       IN /\ jobs' = [m \in DOMAIN jobs \cup {n} |-> IF m = n THEN job ELSE jobs[m]]
          /\ fate' = IF n \in DOMAIN jobs
                     THEN [fate EXCEPT ![<<jobs[n].req, jobs[n].target>>] = "replaced"]
                     ELSE fate
    /\ UNCHANGED <<now, domain, pc, at, call, waiting, running, devVars, serving, met>>

\* Open: the request's own thread calls the target.
Begin(r, t) ==
    /\ Reaches(r, t) /\ Open(r, t)
    /\ call' = [call EXCEPT ![r] = t]
    /\ UNCHANGED <<now, domain, pc, at, todo, answer, jobVars, devVars, serving, fate, met>>

Installs(r, t) == on' = [on EXCEPT ![<<t, domain[r]>>] = r]

Answers(r, result) ==
    /\ answer' = [answer EXCEPT ![<<r, call[r]>>] = result]
    /\ todo' = [todo EXCEPT ![r] = @ \ {call[r]}]
    /\ call' = [call EXCEPT ![r] = NoTarget]

EndOk(r) ==
    /\ call[r] # NoTarget /\ Installs(r, call[r]) /\ Answers(r, "ok")
    /\ UNCHANGED <<now, domain, pc, at, jobVars, late, serving, fate, met>>

\* Seeded fault: an exception of a target ends the request.
EndErrorEscapes(r) ==
    /\ "device" \in Faults /\ call[r] # NoTarget
    /\ pc' = [pc EXCEPT ![r] = "done"]
    /\ call' = [call EXCEPT ![r] = NoTarget]
    /\ UNCHANGED <<now, domain, at, todo, answer, jobVars, devVars, serving, fate, met>>

\* Seeded fault: a status that DeployResult does not have.
EndErrorFailed(r) ==
    /\ "device" \in Faults /\ call[r] # NoTarget
    /\ Answers(r, "failed")
    /\ UNCHANGED <<now, domain, pc, at, jobVars, devVars, serving, fate, met>>

\* The target raises or returns an error. If only the answer was lost, or the
\* call timed out, the device may carry it out all the same, then or later.
EndError(r) ==
    /\ "device" \in Faults /\ call[r] # NoTarget
    /\ late' = late \cup {<<r, call[r]>>}
    /\ Answers(r, "error")
    /\ UNCHANGED <<now, domain, pc, at, jobVars, on, serving, fate, met>>

\* A target carries out a call that was given up.
Lands(x) ==
    /\ x \in late /\ late' = late \ {x} /\ Installs(x[1], x[2])
    /\ UNCHANGED <<now, reqVars, jobVars, serving, fate, met>>

Return(r) ==
    /\ pc[r] = "busy" /\ todo[r] = {} /\ pc' = [pc EXCEPT ![r] = "done"]
    /\ UNCHANGED <<now, domain, at, todo, call, answer, jobVars, devVars, serving, fate, met>>

(***************************************************************************)
(* The scheduler.                                                          *)
(***************************************************************************)
Settle(j, what) == fate' = [fate EXCEPT ![<<j.req, j.target>>] = what]
NameOf(j)       == JobId(j.req, j.target)
InPool          == running \cup {x.job : x \in waiting}

\* A job that is due goes to the pool, unless one of its name is still there
\* (max_instances).
Submit(n) ==
    /\ n \in DOMAIN jobs /\ ~Before(now, jobs[n].due)
    /\ jobs' = [m \in DOMAIN jobs \ {n} |-> jobs[m]]
    /\ \/ /\ \A j \in InPool : NameOf(j) # n
          /\ waiting' = waiting \cup
                {[job |-> jobs[n], free |-> Cardinality(InPool) < Workers]}
          /\ UNCHANGED fate
       \/ /\ \E j \in InPool : NameOf(j) = n
          /\ Settle(jobs[n], "missed") /\ UNCHANGED waiting
    /\ UNCHANGED <<now, reqVars, running, devVars, serving, met>>

\* Seeded fault: no misfire_grace_time, a job starts however late it is.
TakeJobLate(x) ==
    /\ x \in waiting /\ waiting' = waiting \ {x} /\ Cardinality(running) < Workers
    /\ running' = running \cup {x.job}
    /\ UNCHANGED <<now, reqVars, jobs, devVars, serving, fate, met>>

\* Seeded fault: no grace at all, a job that a free thread takes at once is late.
TakeJobNoGrace(x) ==
    /\ x \in waiting /\ waiting' = waiting \ {x} /\ Cardinality(running) < Workers
    /\ \/ x.job.due = now /\ running' = running \cup {x.job} /\ UNCHANGED fate
       \/ Settle(x.job, "missed") /\ UNCHANGED running
    /\ UNCHANGED <<now, reqVars, jobs, devVars, serving, met>>

\* A thread takes the job if it is not late: misfire_grace_time is a second, so
\* that a job which had to wait for a thread may or may not be.
TakeJob(x) ==
    /\ x \in waiting /\ waiting' = waiting \ {x} /\ Cardinality(running) < Workers
    /\ \/ x.job.due = now /\ running' = running \cup {x.job} /\ UNCHANGED fate
       \/ /\ x.job.due # now \/ ~x.free
          /\ Settle(x.job, "missed") /\ UNCHANGED running
    /\ UNCHANGED <<now, reqVars, jobs, devVars, serving, met>>

\* _deferred_deploy: the target is called with the PEMs of the request. The call
\* fails as one of a request does, and also because close took its client away.
_deferred_deploy(j) ==
    /\ j \in running /\ running' = running \ {j}
    /\ \/ Installs(j.req, j.target) /\ UNCHANGED late
       \/ /\ "device" \in Faults \/ ~serving
          /\ late' = late \cup {<<j.req, j.target>>} /\ UNCHANGED on
    /\ Settle(j, "ran")
    /\ UNCHANGED <<now, reqVars, jobs, waiting, serving, met>>

\* Time passes, except that jobs that are due have gone to the pool and to a free
\* thread, and that a request takes no time but in its calls.
Tick ==
    /\ \A r \in Requests : pc[r] = "busy" => call[r] # NoTarget
    /\ \A n \in DOMAIN jobs : Before(now, jobs[n].due)
    /\ \A x \in waiting : ~x.free
    /\ Before(now, [day |-> MaxDay, slot |-> SlotsPerDay - 1])
    /\ now' = After(now)
    /\ UNCHANGED <<reqVars, jobVars, devVars, serving, fate, met>>

\* close, once the server has answered its requests: the table of jobs goes with
\* the scheduler, but shutdown(wait=False) leaves to the pool what it has.
Close ==
    /\ "restart" \in Faults /\ serving /\ \A r \in Requests : pc[r] # "busy"
    /\ serving' = FALSE /\ jobs' = [n \in {} |-> now]
    /\ fate' = [x \in Pairs |->
          IF \E n \in DOMAIN jobs : <<jobs[n].req, jobs[n].target>> = x THEN "lost" ELSE fate[x]]
    /\ UNCHANGED <<now, reqVars, waiting, running, devVars, met>>

\* The process ends, closed or killed, and starts again without requests and
\* without jobs. A target may yet carry out the calls that were cut off.
Restart ==
    /\ "restart" \in Faults /\ serving' = TRUE
    /\ pc' = [r \in Requests |-> IF pc[r] = "busy" THEN "lost" ELSE pc[r]]
    /\ call' = [r \in Requests |-> NoTarget]
    /\ jobs' = [n \in {} |-> now] /\ waiting' = {} /\ running' = {}
    /\ fate' = [x \in Pairs |-> IF answer[x] = "deferred" /\ fate[x] = "none"
                                THEN "lost" ELSE fate[x]]
    /\ late' = late \cup {x \in Pairs : call[x[1]] = x[2]}
                    \cup {<<j.req, j.target>> : j \in running}
    /\ UNCHANGED <<now, domain, at, todo, answer, on, met>>

Done == now = [day |-> MaxDay, slot |-> SlotsPerDay - 1] /\ UNCHANGED vars

\* The steps of a request that has started.
Serve(r) ==
    \/ EndOk(r) \/ EndError(r) \/ Return(r)
    \/ \E t \in Targets : Defer(r, t) \/ Begin(r, t)

Next ==
    \/ \E r \in Requests : Start(r) \/ Serve(r)
    \/ \E n \in DOMAIN jobs : Submit(n)
    \/ \E x \in waiting : TakeJob(x)
    \/ \E j \in running : _deferred_deploy(j)
    \/ \E x \in late : Lands(x)
    \/ Tick \/ Close \/ Restart \/ Done

Spec == Init /\ [][Next]_vars

\* The clock, the scheduler and the threads run, and a deployment ends (it has a
\* timeout). Nobody owes requests, restarts or late answers.
FairSpec ==
    /\ Spec
    /\ \A r \in Requests : WF_vars(Serve(r))
    /\ WF_vars(Tick) /\ WF_vars(\E n \in DOMAIN jobs : Submit(n))
    /\ WF_vars(\E x \in waiting : TakeJob(x))
    /\ WF_vars(\E j \in running : _deferred_deploy(j))

(***************************************************************************)
(* Properties.                                                             *)
(***************************************************************************)
\* Every variable keeps its type.
TypeOK ==
    /\ now \in Time /\ domain \in [Requests -> Domains] /\ at \in [Requests -> Time]
    /\ pc \in [Requests -> {"new", "busy", "done", "lost"}]
    /\ todo \in [Requests -> SUBSET Targets] /\ call \in [Requests -> Targets \cup {NoTarget}]
    /\ answer \in [Pairs -> {"none", "ok", "error", "deferred"}]
    /\ fate \in [Pairs -> {"none", "ran", "missed", "replaced", "lost"}]
    /\ \A n \in DOMAIN jobs : jobs[n] \in Job /\ NameOf(jobs[n]) = n
    /\ waiting \subseteq [job : Job, free : BOOLEAN]
    /\ running \subseteq Job /\ Cardinality(running) <= Workers
    /\ on \in [Targets \X Domains -> Requests \cup {0}]
    /\ late \subseteq Pairs /\ serving \in BOOLEAN
    /\ met \subseteq Requests \X Requests

\* A deployment that was answered "deferred" is in the scheduler's hands until
\* it ends, and gives way only to a deployment of the same domain to the same
\* target, newer than itself unless the two requests overlapped.
DeferredAccounted == \A r \in Requests, t \in Targets :
    answer[<<r, t>>] = "deferred" =>
        /\ fate[<<r, t>>] = "none" =>
              \E j \in InPool \cup {jobs[n] : n \in DOMAIN jobs} : j.req = r /\ j.target = t
        /\ fate[<<r, t>>] = "replaced" =>
              \E s \in Requests \ {r} :
                  /\ answer[<<s, t>>] = "deferred" /\ domain[s] = domain[r]
                  /\ s > r \/ <<s, r>> \in met

\* An older certificate takes the place of a newer one only if the two were
\* deployed at the same time, or if the older one's call had failed and its
\* target carries it out after all, or through a window that runs past midnight,
\* for which next_window_start may pass over the nearest opening.
NewestStays ==
    [][\A t \in Targets, d \in Domains :
          LET old == on'[<<t, d>>]  new == on[<<t, d>>]
          IN old < new => \/ <<old, new>> \in met
                          \/ <<old, t>> \in late
                          \/ (WindowOf[t] # NoWindow /\ Wraps(WindowOf[t]))]_vars

\* A job only ever starts while the window of its target is open, although it
\* does not look at it: late jobs are dropped.
JobsStartInWindow ==
    [][\A j \in running' \ running : is_within_window(WindowOf[j.target], now)]_vars

\* A job is dropped as late only when more jobs than threads were due by then,
\* when the last job of its name was still running, or when its request came to
\* it after a deployment that may have lasted into the window.
MissedOnlyWhenLate == \A r \in Requests, t \in Targets :
    fate[<<r, t>>] = "missed" =>
        \/ Workers < Cardinality({x \in Pairs :
              /\ answer[x] = "deferred" /\ fate[x] # "replaced"
              /\ ~Before(Due(r, t), Due(x[1], x[2]))})
        \/ \E s \in Requests \ {r} : answer[<<s, t>>] = "deferred" /\ JobId(s, t) = JobId(r, t)
        \/ \E u \in Targets : answer[<<r, u>>] \in {"ok", "error"}

\* Whatever its targets do, a request that is being served goes on to the others
\* and returns with an answer for every one, unless the process ends.
EveryTargetAnswered == \A r \in Requests, T \in Selections :
    (pc[r] = "busy" /\ todo[r] = T)
        ~> \/ pc[r] = "lost"
           \/ pc[r] = "done" /\ \A t \in T : answer[<<r, t>>] # "none"

\* Deferred deployments do not stay deferred.
DeferredEnds == \A r \in Requests :
    (\E t \in Targets : answer[<<r, t>>] = "deferred")
        ~> \A t \in Targets : answer[<<r, t>>] = "deferred" => fate[<<r, t>>] # "none"
==============================================================================
