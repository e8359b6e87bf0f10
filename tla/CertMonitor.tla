----------------------------- MODULE CertMonitor -----------------------------
(***************************************************************************)
(* The certificate monitor: a periodic check reads the days left of every  *)
(* certificate from Vault, sends warnings, and runs the renewal command,   *)
(* at once or as a date job when the deploy window is closed. The first    *)
(* check runs inside the server's startup. The command calls the server    *)
(* back (POST /acme/auth, /acme/cleanup, /acme/deploy) and so needs it to  *)
(* accept requests. POST /acme/renew runs the same command by hand.        *)
(***************************************************************************)
EXTENDS Integers, FiniteSets

CONSTANTS
    Domains,      \* domains with a certificate in Vault
    Lifetime,     \* days left of a new certificate
    InitialLeft,  \* days left when the server first starts
    warn_days, renew_threshold, renew_percentage,  \* MonitorConfig; 0%: not set
    Manual,       \* domains that clients renew by POST /acme/renew
    Workers,      \* threads of the scheduler's pool (10)
    FaultSets     \* what may happen in a behaviour: "vault" (reads fail), "renew"
                  \* (the command fails), "missing" (it cannot be started), "stop"
                  \* (an orderly shutdown), "restart" (a sudden one)

AllFaults == {"vault", "renew", "missing", "stop", "restart"}

ASSUME MonitorAssumption ==
    /\ Lifetime \in Nat \ {0} /\ InitialLeft \in 0..Lifetime
    /\ warn_days \subseteq Nat /\ renew_threshold \in Nat /\ renew_percentage \in 0..100
    /\ Manual \subseteq Domains /\ Workers \in Nat \ {0}
    /\ FaultSets \subseteq SUBSET AllFaults

VARIABLES
    faults,    \* the faults of this behaviour
    left,      \* days left of the certificate in Vault
    phase,     \* "starting" (lifespan, before yield), "serving", or "stopping"
               \* (_scheduler is None, threads of its pool may go on)
    checking,  \* run_check is under way
    todo,      \* ... and the days left it read of the domains still to look at
    sent,      \* _sent_warnings
    renewing,  \* _renewing
    jobs,      \* domains with a pending date job renew-<domain>
    queued,    \* jobs handed to the pool, and whether a thread was free for them
    runs,      \* renewal commands that are running, and the thread that waits
    open,      \* is_within_window(deploy_window, now)
    missed     \* history: domains with a job that was dropped as misfired, since
               \* the server started

pool == <<jobs, queued, missed>>
vars == <<faults, left, phase, checking, todo, sent, renewing, pool, runs, open>>

Nothing == [d \in {} |-> 0]
Threads == {"check", "job", "request"}

Init ==
    /\ faults \in FaultSets
    /\ left = [d \in Domains |-> InitialLeft]
    /\ phase = "starting" /\ checking = FALSE /\ todo = Nothing
    /\ sent = [d \in Domains |-> {}]
    /\ renewing = {} /\ jobs = {} /\ queued = {} /\ runs = {}
    /\ missed = {}
    /\ open \in BOOLEAN

\* should_renew, for a certificate with n days left of Lifetime.
should_renew(n) ==
    n <= renew_threshold \/ n * 100 <= renew_percentage * Lifetime

\* The check thread is waiting for a command.
Waiting == \E x \in runs : x.by = "check"

\* Threads of the pool that are taken: by jobs, and by a check after the first.
InPool == Cardinality({x \in runs : x.by = "job"})
            + (IF checking /\ phase # "starting" THEN 1 ELSE 0)

\* Seeded fault: a certificate without an expiry date counts with -1 days left.
LoadCertsUndated ==
    /\ ~checking /\ checking' = TRUE
    /\ todo' = [d \in Domains |-> -1]
    /\ UNCHANGED <<faults, left, phase, sent, renewing, pool, runs, open>>

\* The interval trigger finds a free thread, or the startup calls run_check:
\* _load_certs_from_vault. A failed listing gives no certificates, a failed
\* read leaves one out.
LoadCerts ==
    /\ ~checking /\ checking' = TRUE
    /\ phase = "starting" \/ (phase = "serving" /\ InPool < Workers)
    /\ \E seen \in SUBSET Domains :
          /\ seen = Domains \/ "vault" \in faults
          /\ todo' = [d \in seen |-> left[d]]
    /\ UNCHANGED <<faults, left, phase, sent, renewing, pool, runs, open>>

Starts(by, d) == runs' = runs \cup {[by |-> by, domain |-> d]} /\ UNCHANGED jobs

\* Seeded fault: the job looks at _renewing, in which it finds itself.
run_renew_rechecked(by, d) ==
    \/ open /\ by # "job" /\ Starts(by, d)
    \/ open /\ by = "job" /\ UNCHANGED <<runs, jobs>>
    \/ ~open /\ jobs' = jobs \cup {d} /\ UNCHANGED runs

\* Seeded fault: outside the window the renewal is put off to the next check,
\* which finds the domain in _renewing.
run_renew_skipped(by, d) ==
    /\ IF open THEN runs' = runs \cup {[by |-> by, domain |-> d]} ELSE UNCHANGED runs
    /\ UNCHANGED jobs

\* _run_renew: start the command and wait for it, or leave a date job. After
\* stop() there is no scheduler to leave it with, and no look at the window.
run_renew(by, d) ==
    \/ (open \/ phase = "stopping") /\ Starts(by, d)
    \/ ~open /\ phase # "stopping" /\ jobs' = jobs \cup {d} /\ UNCHANGED runs

\* Seeded fault: the threshold itself is left out.
NewWarningsStrict(d, n) == {t \in warn_days : n < t} \ sent[d]

\* The warnings that are due and not yet sent; a post that fails counts too.
NewWarnings(d, n) == {t \in warn_days : n <= t} \ sent[d]

\* Seeded fault: _renewing is not looked at.
check_day_threshold_always(d) ==
    /\ checking /\ ~Waiting /\ d \in DOMAIN todo
    /\ sent' = [sent EXCEPT ![d] = @ \cup NewWarnings(d, todo[d])]
    /\ \/ should_renew(todo[d]) /\ renewing' = renewing \cup {d} /\ run_renew("check", d)
       \/ ~should_renew(todo[d]) /\ UNCHANGED <<renewing, jobs, runs>>
    /\ todo' = [e \in DOMAIN todo \ {d} |-> todo[e]]
    /\ UNCHANGED <<faults, left, phase, checking, queued, missed, open>>

\* _check_day_threshold, for the next certificate of the check.
check_day_threshold(d) ==
    /\ checking /\ ~Waiting /\ d \in DOMAIN todo
    /\ sent' = [sent EXCEPT ![d] = @ \cup NewWarnings(d, todo[d])]
    /\ \/ /\ should_renew(todo[d]) /\ d \notin renewing
          /\ renewing' = renewing \cup {d}
          /\ run_renew("check", d)
       \/ /\ ~(should_renew(todo[d]) /\ d \notin renewing)
          /\ UNCHANGED <<renewing, jobs, runs>>
    /\ todo' = [e \in DOMAIN todo \ {d} |-> todo[e]]
    /\ UNCHANGED <<faults, left, phase, checking, queued, missed, open>>

\* run_check returns; the first time, that ends the startup.
CheckEnds ==
    /\ checking /\ ~Waiting /\ DOMAIN todo = {}
    /\ checking' = FALSE /\ todo' = Nothing
    /\ phase' = IF phase = "starting" THEN "serving" ELSE phase
    /\ UNCHANGED <<faults, left, sent, renewing, pool, runs, open>>

\* A thread takes a job that was handed to the pool, and _run_renew asks for the
\* window once more. A job that had to wait for a thread may be more than a
\* second late (misfire_grace_time) and is dropped.
TakeJob(x) ==
    /\ x \in queued /\ queued' = queued \ {x} /\ InPool < Workers
    /\ \/ (x.free \/ open) /\ run_renew("job", x.domain) /\ UNCHANGED missed
       \/ ~x.free /\ missed' = missed \cup {x.domain} /\ UNCHANGED <<runs, jobs>>
    /\ UNCHANGED <<faults, left, phase, checking, todo, sent, renewing, open>>

\* POST /acme/renew.
acme_renew(d) ==
    /\ d \in Manual /\ phase = "serving"
    /\ [by |-> "request", domain |-> d] \notin runs
    /\ run_renew("request", d)
    /\ UNCHANGED <<faults, left, phase, checking, todo, sent, renewing, queued, missed, open>>

\* The command succeeds: its callbacks were served, and stored the certificate.
RenewSucceeds(x) ==
    /\ x \in runs /\ phase = "serving"
    /\ runs' = runs \ {x}
    /\ left' = [left EXCEPT ![x.domain] = Lifetime]
    /\ UNCHANGED <<faults, phase, checking, todo, sent, renewing, pool, open>>

\* Seeded fault: subprocess.run without a timeout.
RenewFailsUntimed(x) ==
    /\ x \in runs /\ "renew" \in faults /\ phase = "serving"
    /\ runs' = runs \ {x}
    /\ UNCHANGED <<faults, left, phase, checking, todo, sent, renewing, pool, open>>

\* The command fails or is killed by renew_timeout; it always does while nobody
\* answers its callbacks.
RenewFails(x) ==
    /\ x \in runs /\ (phase # "serving" \/ "renew" \in faults)
    /\ runs' = runs \ {x}
    /\ UNCHANGED <<faults, left, phase, checking, todo, sent, renewing, pool, open>>

\* The process ends and is started again: everything the monitor knew is gone.
StartProcess ==
    /\ phase' = "starting" /\ checking' = FALSE /\ todo' = Nothing
    /\ sent' = [d \in Domains |-> {}]
    /\ renewing' = {} /\ jobs' = {} /\ queued' = {} /\ runs' = {}
    /\ missed' = {}

\* subprocess.run raises something _run_renew does not catch (no such command):
\* a request answers 500, a job is over, a check is given up with the domains
\* it had left, and the first check takes the startup with it.
RenewRaises(x) ==
    /\ x \in runs /\ "missing" \in faults
    /\ \/ /\ x.by # "check"
          /\ runs' = runs \ {x}
          /\ UNCHANGED <<phase, checking, todo, sent, renewing, pool>>
       \/ /\ x.by = "check" /\ phase # "starting"
          /\ runs' = runs \ {x}
          /\ checking' = FALSE /\ todo' = Nothing
          /\ UNCHANGED <<phase, sent, renewing, pool>>
       \/ x.by = "check" /\ phase = "starting" /\ StartProcess
    /\ UNCHANGED <<faults, left, open>>

\* The server shuts down, after its last request: pending jobs are dropped.
ShutsDown ==
    /\ "stop" \in faults /\ phase = "serving"
    /\ \A x \in runs : x.by # "request"
    /\ phase' = "stopping" /\ jobs' = {}

\* stop() does not wait for the pool, whose threads go on with what they have.
stop ==
    /\ ShutsDown
    /\ UNCHANGED <<faults, left, checking, todo, sent, renewing, queued, missed, runs, open>>

\* stop() comes between the look that _run_renew takes at _scheduler and its
\* use, outside the window: add_job is called on None and raises. The check is
\* given up with the domains it had left, or the job is over.
stop_in_run_renew ==
    /\ ShutsDown /\ ~open
    /\ \/ \E d \in DOMAIN todo :
             /\ checking /\ ~Waiting /\ should_renew(todo[d]) /\ d \notin renewing
             /\ renewing' = renewing \cup {d}
             /\ sent' = [sent EXCEPT ![d] = @ \cup NewWarnings(d, todo[d])]
             /\ checking' = FALSE /\ todo' = Nothing /\ UNCHANGED queued
       \/ \E x \in queued :
             /\ InPool < Workers /\ queued' = queued \ {x}
             /\ UNCHANGED <<checking, todo, sent, renewing>>
    /\ UNCHANGED <<faults, left, missed, runs, open>>

\* ... and the process ends with the last of them.
Exit ==
    /\ phase = "stopping" /\ ~checking /\ queued = {} /\ runs = {}
    /\ StartProcess
    /\ UNCHANGED <<faults, left, open>>

(***************************************************************************)
(* The environment.                                                        *)
(***************************************************************************)
DayPasses ==
    /\ \E d \in Domains : left[d] > 0
    /\ left' = [d \in Domains |-> IF left[d] > 0 THEN left[d] - 1 ELSE 0]
    /\ UNCHANGED <<faults, phase, checking, todo, sent, renewing, pool, runs, open>>

\* The window opens, which is the time of every pending job: the scheduler hands
\* them to the pool, where some of them find a free thread. A job that has the
\* name of one still in the pool is dropped.
OpenWindow ==
    /\ ~open /\ open' = TRUE
    /\ LET taken == {x.domain : x \in queued} \cup {x.domain : x \in {y \in runs : y.by = "job"}}
           due   == jobs \ taken
       IN \E soon \in SUBSET due :
             /\ Cardinality(soon) <= Workers - InPool
             /\ soon = due \/ Cardinality(soon) = Workers - InPool
             /\ queued' = queued \cup {[domain |-> d, free |-> d \in soon] : d \in due}
    /\ jobs' = {}
    /\ UNCHANGED <<faults, left, phase, checking, todo, sent, renewing, missed, runs>>

\* The window closes; jobs that found a thread have started.
CloseWindow ==
    /\ open /\ open' = FALSE
    /\ \A x \in queued : ~x.free
    /\ UNCHANGED <<faults, left, phase, checking, todo, sent, renewing, pool, runs>>

Restart ==
    /\ "restart" \in faults /\ StartProcess
    /\ UNCHANGED <<faults, left, open>>

CheckThread ==
    \/ LoadCerts \/ CheckEnds
    \/ \E d \in Domains : check_day_threshold(d)

Commands == \E by \in Threads, d \in Domains :
    LET x == [by |-> by, domain |-> d] IN RenewSucceeds(x) \/ RenewFails(x) \/ RenewRaises(x)

Next ==
    \/ CheckThread \/ Commands
    \/ \E d \in Domains : acme_renew(d)
    \/ \E x \in queued : TakeJob(x)
    \/ stop \/ stop_in_run_renew \/ Exit
    \/ DayPasses \/ OpenWindow \/ CloseWindow \/ Restart

Spec == Init /\ [][Next]_vars

\* The interval trigger finds a thread for its check again and again, a thread
\* keeps running, a command ends (renew_timeout), the window opens again and
\* again, and a job in the pool gets its thread in the end. Nobody owes days,
\* requests or restarts.
FairSpec ==
    /\ Spec
    /\ SF_vars(CheckThread) /\ WF_vars(OpenWindow)
    /\ \A by \in Threads, d \in Domains :
          WF_vars(RenewSucceeds([by |-> by, domain |-> d]) \/ RenewFails([by |-> by, domain |-> d]))
    /\ \A d \in Domains, free \in BOOLEAN : SF_vars(TakeJob([domain |-> d, free |-> free]))

(***************************************************************************)
(* Properties.                                                             *)
(***************************************************************************)
\* Every variable keeps its type.
TypeOK ==
    /\ faults \in FaultSets /\ left \in [Domains -> 0..Lifetime]
    /\ phase \in {"starting", "serving", "stopping"}
    /\ checking \in BOOLEAN /\ todo \in UNION {[seen -> 0..Lifetime] : seen \in SUBSET Domains}
    /\ sent \in [Domains -> SUBSET warn_days]
    /\ renewing \subseteq Domains /\ jobs \subseteq Domains
    /\ missed \subseteq Domains
    /\ queued \subseteq [domain : Domains, free : BOOLEAN]
    /\ runs \subseteq [by : Threads, domain : Domains] /\ open \in BOOLEAN

\* _renewing prevents concurrent renewals: no two commands for one domain, as
\* long as clients leave it alone. A command never runs beside a job for it.
NoConcurrentRenewals ==
    \A x \in runs : x.domain \notin Manual =>
        /\ \A y \in runs : x.domain = y.domain => x = y
        /\ x.domain \notin jobs /\ \A y \in queued : y.domain # x.domain

\* Outside the window operations are deferred to the next opening: no command
\* starts while the window is closed.
RenewsInWindow == [][runs' \subseteq runs \/ open]_vars

NoFaults == faults = {}

\* The startup ends: the check that it waits for may wait for a command that
\* waits for the server, but not for ever.
StartupEnds == NoFaults /\ phase = "starting" ~> phase = "serving"

\* A certificate that is due while the server runs, and that no check tried to
\* renew yet, is renewed, at once or by the job left for the next opening, if
\* that job is not dropped because other jobs took the threads of the pool.
FirstRenewal == \A d \in Domains :
    NoFaults /\ phase = "serving" /\ d \notin renewing /\ should_renew(left[d])
        ~> ~should_renew(left[d]) \/ d \in missed

\* A certificate within a warning threshold is warned about, or renewed first.
Warned == \A d \in Domains, t \in warn_days :
    NoFaults /\ left[d] <= t ~> t \in sent[d] \/ left[d] > t

\* A renewal put off to the window's next opening is then started, or dropped
\* because other jobs took the threads of the pool.
DeferredRenewalRuns == \A d \in Domains :
    NoFaults /\ d \in jobs ~> d \in missed \/ \E x \in runs : x.domain = d
==============================================================================
