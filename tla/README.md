# cert-renew in TLA+

`cert-renew` is a FastAPI webhook for ACME DNS-01 challenges: it writes challenge
records into Bind zone files kept in a git repository (or sends them with nsupdate),
waits for DNS propagation, stores issued certificates in HashiCorp Vault, hands them
to F5, Ivanti and Exchange targets, and runs a renewal command for certificates that
are about to expire. One uvicorn process serves it; its endpoints are synchronous and
run in a thread pool, beside the threads of two APScheduler schedulers.

This directory models that service, checks the models with TLC, and proves the main
safety results about each of its parts with TLAPS.

## Inventory

| Part | State | Operations | Talks to |
|---|---|---|---|
| Challenge endpoints (`main.py`, `git_handler.py`, `zone_handler.py`) | the clone in `work_dir`, `repo.lock` | `acme_auth`, `acme_cleanup`: lock, clone or pull, edit a zone, commit, push, unlock | the zone repository, which CI/CD pushes to as well |
| Propagation (`dns_probe.py`) | a loop's local variables | `check_propagation` | nameservers |
| Deploy windows (`config.py`) | none | `is_within_window`, `next_window_start` | used by monitor and deployments |
| Certificate store (`vault_handler.py`) | one Vault secret per domain, a cached client and its token | `store_cert`, `update_cert_targets`, the reads of `deploy_cert_to_targets` | Vault |
| Monitor (`cert_monitor.py`) | `_sent_warnings`, `_renewing`, the date jobs and threads of its scheduler | `run_check`, `_run_renew`, `acme_renew` | Vault, the renewal command, which calls the service back |
| Deployment manager (`targets/manager.py`) | the date jobs and threads of its scheduler | `deploy`, `_deferred_deploy`, `close` | the targets |
| Targets (`targets/f5.py`, `ivanti.py`, `exchange.py`) | HTTP clients, cached passwords | one `deploy` per provider | the devices |
| nsupdate backend (`dns_update.py`) | none | add, remove | a DNS server |
| Auth, rate limits, metrics, health, dashboard | counters | – | – |

What is hard here: threads that share one clone and one Vault client, a lock that is granted
to processes, git operations that fail half way or are rejected, crashes between write,
commit and push, git commands that hang, tokens that expire between two reads, jobs that
carry old arguments or come too late for their thread pool, deployments that overlap on one
device, requests that a device carries out after its caller gave up, and a startup that
waits for a command that waits for the server. What makes each part correct is stated as the
properties below; `PROJECT.json` lists the hazards at their lines.

## Modules

| Module | Models |
|---|---|
| `ChallengeStore` | the promise of auth and cleanup: atomic operations on one store of challenge values |
| `ZoneChallenge` | the git backend of auth and cleanup, with CI/CD, hooks, failures of transport and disk, and crashes; implements `ChallengeStore` |
| `WindowTime` | `is_within_window` and `next_window_start` |
| `DeployWindow` | one operation that is put off until its window opens; extends `WindowTime` |
| `Propagation` | `check_propagation` and the choice of nameservers by its two callers |
| `CertStore` | the Vault secret of one domain under concurrent stores, routing updates and deployments |
| `CertMonitor` | checks, warnings, renewals, the scheduler's pool, startup, shutdown and restart |
| `DeployManager` | requests and deferred deployments to several targets, with the scheduler that runs them; extends `WindowTime` |
| `DeployTarget` | the promise of a target's `deploy` for a device with one certificate |
| `DeviceDeploy` | the three providers and their devices, request by request; Ivanti and Exchange implement `DeployTarget` |
| `...Proofs` | theorems about the module of that name, and their proofs |
| `MC...` | values for the constants of the runs |

Definitions named as a seeded fault in their comment (`PushForced`, `PullResets`, ...)
are used by no specification: each is a plausible bug of the definition it precedes,
kept to show that the properties notice it.

### ZoneChallenge

A request is a thread at a position (`pc`): `new`, `lock`, `sync`, `read`, `write`,
`commit`, `push`, `release`, `done`. One action stands for one call of the handler:
`Acquire` and `LockTimeout` for `lock.acquire`, `Clone`, `Pull`, `PullConflict` and
`SyncFails` for `clone_or_pull`, `ReadZone`, `WriteZone` and `WriteFails` for
`add_txt_record` and `remove_txt_record`, `Commit`, `CommitFails`, `Push` and `PushFails`
for `commit_and_push`, `Release` for the `finally` block. An edit that fails leaves the file
as it was, complete, or cut short (`Torn`: `Zone.to_file` opens the file before it prints
into it); a commit that fails leaves the edit in the working tree. A zone file is reduced to
its challenge records, a version number for everything else in it, and whether its text is
already in the form `Zone.to_file` prints (only then does writing an unchanged record leave
the tree clean).

External behaviour, from the libraries the code calls:

- `InterProcessLock` is a POSIX record lock. It excludes other processes and no thread
  of its own process, and unlocking drops it for all of them. The constant `Threaded`
  says whether a process may be given a request while it serves another. It is the load
  that a run puts on the service, not a setting of the program: `TRUE` allows every
  load, `FALSE` only those in which clients take turns. The theorems do not use it.
- `git pull --rebase` refuses a dirty tree, an unfinished rebase and a broken clone. A
  replay of local commits over a remote change of the same file may or may not conflict.
- `origin.push()` of GitPython does not raise when the remote rejects the branch, be it
  because the remote moved, by a hook, or because the branch is protected (`"reject"`).
- Nothing ends a git command whose remote hangs: the code sets no timeout.

`base` is the last commit that clone and remote have in common, `unpushed` the zones that
local commits changed since. A crash inside `Zone.to_file` is not told apart from one before
or after it; an error inside it is (`WriteFails`). The zone of a name is the constant
`ZoneOf`: the set of zone files does not change there.

### Propagation

The variables of `check_propagation`, one action per loop part, a clock that also counts
the queries, and nameservers that start and stop returning the value at any time.
`matched` and `pending` are sets; the order of the lists is not modelled. The configured
list may be empty, which `config.py` does not rule out. `QueryRaises` is what
`_check_single_ns` does not catch: a TXT value that is no UTF-8, or a configured entry
that is no address. `Nameservers` are
the addresses that occur in requests and configuration, of which `Valid` are those that
`validate_nameserver` accepts.

### WindowTime and DeployWindow

Time is a day and a slot in the window's own zone; changes of the UTC offset are not
modelled. The code's minutes are slots, and its loop over fourteen days is `AllowedFrom`.
`Attempt` is the common decision of `_run_renew` and `DeployManager.deploy`. The renewal's
job decides again when it fires, the deployment's job does not. Windows with `start = end`
or no day are never open and are left out.

### CertStore

One secret. Its PEM fields and the dates in its metadata are represented by the
certificate they come from, so that a mixture shows. Authentication, read and write are
separate steps of a request; the client's token ages and dies in between. A KV v2 write
replaces the secret. PEMs that do not parse and `vault.skip` are left out.

### CertMonitor

A check reads the days left of all certificates and then handles one after the other,
waiting for each command it starts. Commands succeed only while the server accepts
requests. `RenewRaises` is a command that cannot be started. Checks do not overlap (the
scheduler runs one instance of the job; that the startup's check ends before the first
interval is taken for granted), a certificate past its end counts as 0 days, and a
restart ends the commands with the process.

Renewals that were put off are all due at the window's opening. `OpenWindow` hands them
to the pool, of which `Workers` threads serve jobs and later checks; a job that finds no
thread (`free = FALSE`) may be more than a second late when it gets one, and is then
dropped (`TakeJob`, `missed`). `stop` is the shutdown: it forgets the scheduler and does
not wait for its threads, and `Exit` ends the process with the last of them. `_run_renew`
looks at `_scheduler` twice; `stop_in_run_renew` is a shutdown that falls in between.

### DeployManager

A request is `new`, `busy` or `done`, and its loop takes the targets in any order. It reads
the clock when it starts (`at`), so that a target it comes to later is judged by a time that
has passed. A deployment is `Begin` and `EndOk` or `EndError`; what happens in between is
`DeviceDeploy`. A call that failed, timed out or was cut off may still be carried out by its
target, at any later time or never (`late`, `Lands`). Requests are numbered as they arrive,
and the number stands for the certificate, so that "newer" is a greater number.

APScheduler is modelled from how the code uses it: a date job is kept under its name and
replaced by the next of that name; when it is due it is handed to the pool unless a job
of its name is still there (`max_instances`); a thread drops it if it is more than a
second late (`misfire_grace_time`). A job that found a thread free is not late, one that
waited may be. Jobs are in memory only (`Restart`). `Close` is the orderly shutdown: it drops
the jobs that are not due and leaves those of the pool to their threads, whose clients
it takes away (`serving`).

### DeviceDeploy

Calls run side by side without a lock. A call's position is the request it sends next;
`Applies` is what the device does with one. A request is answered and applied, refused
(`Refused`), or lost in transport (`TransportFails`): then the call ends and the request
stays in `late`, from where it may be applied at any later time or never (`Lands`). An
object on the F5 holds the certificate of one call and the key of one call. A PFX on the
Exchange server is the call's own or not: each has its own random password, so only its own
call can import it. A profile's reference may be the literal `none`, which every deployment
takes over, or missing or empty (`Empty`), which none does. `Contains` stands for Python's
substring test on names, of which only transitivity is assumed; a domain with a `*` cannot
be a file name.

`DeployTarget` says what is left of `deploy` for its callers: the certificate is
installed at most once and "ok" is only said after that; an error says nothing.

## Runs

| Run | Expectation | Shows |
|---|---|---|
| `zone_exclusive` | pass | three requests, two processes, one zone with two names, one CI/CD push, all faults, clients that take turns (`Threaded = FALSE`): `Exclusive`, `OkIsKept`, `ForeignEditsPreserved`, `ImplementsStore` |
| `zone_threads` | pass | `Threaded = TRUE`, git that fails or hangs, edits that fail, crashes, a name without a zone: `LockNotLeaked`, `EveryRequestEnds`, `LeftoverStays` |
| `zone_unpushed` | violation | without any fault: CI/CD pushes in between, the push is rejected and answered "ok" (`AuthOkIsPublished`) |
| `zone_threads_overlap` | violation | two threads of one process in the clone (`Exclusive`) |
| `window` | pass | all windows: `RunsInWindow`, `DeferredOnce`, `DeferredRuns`; windows within a day: `NearestSameDay` |
| `propagation` | pass | `PropagatedInOneRound`, `SomebodyAsked`, `ReportComplete`, `HeldAtMost`, `Returns` |
| `certstore` | pass | `DatesMatchCert`, `PairFromVault` under concurrent requests, token expiry, Vault failures and restarts |
| `certstore_patch` | violation | a routing update loses the stored certificate (`PatchKeepsCert`) |
| `monitor` | pass | all faults, manual renewals of another domain, one thread: `NoConcurrentRenewals`; without faults: `FirstRenewal`, `DeferredRenewalRuns`, `Warned`, `StartupEnds` |
| `deploy` | pass | two requests for one or two domains, windows by day, past midnight and none, one thread, devices that fail or answer late, shutdowns and restarts: `DeferredAccounted`, `MissedOnlyWhenLate`, `NewestStays`, `JobsStartInWindow`, `EveryTargetAnswered`, `DeferredEnds` |
| `devices` | pass | three overlapping calls for a domain and its wildcard on each provider, all faults: `PairsMatch`, `ProfilesFollowTheirName`, `NoFileLeft`, `ImplementsTarget` |
| `monitor_stop` | violation | a check that the shutdown overtook starts its command in a closed window (`RenewsInWindow`) |

A run that ends in a violation contradicts a sentence of the repository, which its
finding in `PROJECT.json` quotes. Some of these properties have a weaker form that does
hold: a record that was answered "ok" may be missing on the remote (`AuthOkIsPublished`)
but is then in a commit that the next push takes along (`OkIsKept`), if requests do not
overlap.

### Divergences

Where the code does something other than the repository says, and no run is spent on
it, the models still do what the code does:

- With threads in the clone, a zone that was parsed before another thread's pull is
  written after it, and the push takes back what CI/CD pushed (`ZoneChallenge` with
  `Threaded = TRUE`; `ForeignEditsPreserved` and `ImplementsStore` hold as long as requests
  do not meet in the clone).
- A crash or an error between writing a zone and committing it leaves a dirty tree. `git
  pull --rebase` refuses it, so that every later request fails, `/acme/cleanup` too, until
  somebody repairs the clone (`LeftoverStays`: the edit goes nowhere in the meantime).
- A push that a hook or a protected branch refuses is answered "ok" as well as one that
  the remote rejects because it moved (`AuthOkIsPublished`); later requests find the record
  in the clone and answer "ok" without a push.
- With an empty list of nameservers in the configuration and none in the request,
  `/acme/wait-for-propagation` answers "propagated" at once, without a query
  (`SomebodyAsked` says that this is the only way).
- `pending` is not "nameservers that never matched" but those that did not match in the
  last round; `timeout` is not the "maximum total polling time", since queries and the
  last sleep are not counted (`HeldAtMost` bounds what can be added); with
  `poll_interval = 0` the call polls until the record is everywhere (`Returns`); a
  nameserver that is listed twice may be reported as matched and pending (`ReportComplete`).
- `store_cert` writes metadata without `targets`, so that routing set in advance of the
  first deployment is lost with it; an empty `target_names` list reaches no target; and
  without a usable Vault client, as after a restart, the stored routing is not read and
  every target is used (`CertStore`).
- `POST /acme/renew` does not look at `_renewing` and may run its command beside the
  monitor's for the same domain (`Manual` in `CertMonitor`).
- A certificate that is due when the server starts is renewed before the server accepts
  the command's callbacks; the command fails and the domain stays in `_renewing`. A
  command that does not exist takes the startup with it (`RenewRaises`).
- A window past midnight is open after midnight on its allowed days, but the job's date
  is always an evening: asked for on a closed day, the hours after the next midnight are
  missed ("Return the nearest datetime when the window opens", `config.py:72`). Windows
  within a day get the nearest opening (`NearestSameDay`). A deployment that waits for
  the evening can therefore overwrite a newer one that was done at once after midnight
  (`NewestStays` excepts overnight windows).
- Deferred work is dropped when more jobs than threads are due at one opening and some
  come a second late (`missed` in `CertMonitor`, `MissedOnlyWhenLate` in `DeployManager`);
  a renewal dropped so is never tried again. A deployment put off behind a slow one may be
  given a date that has passed, and is then dropped at once; and a target it comes to
  after its window has closed is still deployed to, since the clock is read once.
- Job names join a target and a domain with `-`, which may occur in both: two pairs can
  have one name, and one deferred deployment then replaces the other. The run has
  distinct names; `JobIdByTarget` shows what `DeferredAccounted` says otherwise.
- A renewal is tried once per domain and process, as `docs/monitoring.md` says: one whose
  command failed is not tried again before the next start (`FirstRenewal` is about the first).
- An older certificate comes back when a call that was given up is carried out after a
  newer deployment (`NewestStays` names it as one of three ways).
- `docs/targets/f5.md` has profiles without a certificate matched by every domain. The code
  matches those whose reference is `none`, and not those where it is missing or empty.
- An F5 whose profiles cannot be listed gets an "ok" without any profile updated, and a
  profile whose reference is `none` is given that of any domain that is deployed. Deploying
  `example.com` moves the profiles of `wildcard.example.com`, whose name contains it, to
  `example.com`: a profile may move to the name of any domain that its first reference
  contains, and to no other (`ProfilesFollowTheirName`).
- An Exchange import that fails leaves the PFX on the server; a deployment for a wildcard
  domain fails, since `*` is no character of a file name.
- A zone file for the challenge itself (`_acme-challenge.example.com.zone`, a delegated
  challenge) is never found: the prefix is dropped first, and the record is written into
  `example.com.zone`, where nobody asks for it. The `*` is dropped to find the zone only:
  the record of `_acme-challenge.*.example.com` has the `*` in its name.
- The git backend keeps one TXT value per name: an order for a domain and its wildcard
  overwrites its first value by its second, and a cleanup removes whichever is there.

### Bounds

- Three requests: two of one process and one of another, so that every pair of
  in-process and cross-process interleavings occurs, with a third request to find what
  the two left behind. Two names in one zone file, so that edits meet in one file.
  `MaxCi = 1` CI/CD push: a rejected push, the rebase and a conflict need one.
  `zone_exclusive` uses the symmetry of the two requests of one process and of the two
  names (956,000 states); `zone_threads`, which checks liveness, uses none.
- Four slots per day give same-day and overnight windows a closed slot before, between
  and after; all 127 sets of weekdays; the operation is asked for in the first week and
  `MaxDay = 14` leaves a full week to wait.
- Two valid nameservers and an invalid one, one listed twice, and configurations with two,
  an invalid one and none; timeouts from 0 (no round)
  to several rounds, intervals of 0, shorter and longer than the timeout, queries of up
  to one second. `MaxClock = 15` lies above every bound `HeldAtMost` states here.
- Two certificates, two targets, a name that is no target, three requests at a time.
- Two domains, one of them also renewed by hand, certificates of two days that are due
  with one day left, and one thread, so that two jobs at one opening meet a full pool.
- `deploy`: two requests (an older and a newer certificate), for the overnight target or
  for the other two; one day of three slots, so that each window has an opening and a closed
  slot; requests arrive in the first two slots (`LastStart`), and the clock runs on for their
  jobs; one thread, so that any two jobs compete for it. No deployment waits here while a
  newer one is done at once after midnight: that `NewestStays` must except overnight
  windows is seen in its proof (`NearestWithinDay`), not in this run.
- `devices`: three calls: two that overlap and one that finds what they left. One profile,
  which may refer to either name, to another, to `none`, or to nothing at all.

### Fairness

`ZoneChallenge`: a thread takes its next step on this machine (`Local`). Git commands that
wait for the remote owe nothing (`Remote`): the code sets no timeout, and `EveryRequestEnds`
excepts the one request that hangs in them. Arrivals, CI/CD and crashes owe nothing either.
`CertStore`: a request goes on, its calls to Vault end. `Propagation`: the loop runs on;
nameservers owe nothing.
`DeployWindow`: the clock runs and due jobs are fired. `CertMonitor`: the interval
trigger keeps finding a thread for a check, a command ends (`renew_timeout` kills it), the
window opens again and again, and a job in the pool gets its thread in the end (strong
fairness: checks and other jobs take the thread in between). `DeployManager`: requests
that have begun, the clock, the scheduler and the pool's threads go on, and a call to a
target ends, since it has a timeout. Days, requests, devices and restarts owe nothing.

## Proofs

Each theorem holds for every value of the constants that satisfies the module's named
assumptions (any number of requests, domains, targets, threads, any windows, any faults),
while its run shows the same property on one instance. All safety proofs go the same way: an
invariant that is inductive, one step per action, and a last step that combines them.

### ZoneChallenge

| Theorem | States | Argument |
|---|---|---|
| `TypeCorrect` | `Spec => []TypeOK` | one step per action; `RebasedType` for what a rebase builds |
| `LockFreed` | `Spec => []LockNotLeaked` | the property with `TypeOK` is inductive: `Release` and `Crash` are the only ways out of the critical section |
| `CloneExclusive` | `Spec => ([]ThreadsExclusive => []Exclusive)` | `LockInv`: whoever is in the critical section belongs to the owner of the lock |
| `LeftoverKept` | `Spec => LeftoverStays` | `AbsentInv`: without a clone there is nothing to leave over; with one a dirty tree makes `PullRefused` true, and nobody gets past `sync` |
| `ForeignEditsKept` | `Spec => ([]Exclusive => ForeignEditsPreserved)` | `DataInv`, below |
| `Refinement` | `Spec => ([]Exclusive => ImplementsStore)` | `StoreInv = DataInv` and `CommitInv`, below |
| `OkKept` | `Spec => ([]Exclusive => []OkIsKept)` | `KeptInv = StoreInv` and: from its commit to its answer a request's record is in `head` |
| `PublishedUndisturbed` | `Undisturbed` implies `Spec => ([]Exclusive => []AuthOkIsPublished)` | `QuietInv`: the clone is at the remote's revision, and only the request at `push` has something to push; with `KeptInv` |

None of these theorems assumes anything about how a process serves its requests. They are
about single behaviours of the deployed, threaded service: `CloneExclusive` says what the file
lock is good for, namely that only two threads of one process can meet in the clone, and
the four after it what a behaviour keeps in which they do not. `zone_threads_overlap` shows
that they can. What is shown of a behaviour in which they do ends where they meet.

`ForeignEditsPreserved` is not inductive: whether a push is harmless depends on what
`head` was built from. `DataInv` adds that the remote equals `base` when its revision
is the clone's and that only this clone changes challenge records there (`RemoteInv`),
that `head` and the tree hold the version of the rest that `base` has (`RestInv`), and
what a request knows of the tree at its position (`EditInv`): clean until it writes, what
it parsed still being there, then different from `head` in its own record only. `EditInv`
is where exclusion is needed. For the refinement the store is `StoreOf(head)`: `Commit`
is the moment a request takes effect, and clone, pull, push and CI/CD must leave it
unchanged. `CommitInv` says that `head` has other records than `base` only in the zones
with local commits, and that nothing is committed before there is a clone.

`AuthOkIsPublished` is what `zone_unpushed` refutes. `PublishedUndisturbed` says what it takes
to get it: `Undisturbed` is no push by others, no refused push, no lost connection, no
failing local operation and no crash (zone files that do not parse are allowed). A push
that does not come about leaves a local commit behind, and a later request that finds its
record there answers "ok" without a push.

### Windows

| Theorem | States | Argument |
|---|---|---|
| `NextStartIsOpen` | `next_window_start` is a time from now on, at most a week and a day ahead, at which `is_within_window` holds | every weekday comes within seven days (`WeekdayComes`), and `AllowedFrom` is the first allowed one (`AllowedFromFirst`) |
| `NearestWithinDay` | no time before it is open, if the window does not run past midnight | the days in between are not allowed, and on its own day the window starts with it |
| `RunsOnlyInWindow`, `NearestForSameDay`, `PutOffOnce` | `Spec => []RunsInWindow`, `[]NearestSameDay`, `DeferredOnce` | `DWInv`: what is deferred is due at `next_window_start` of an earlier time, its date is open and has not passed |

They are about any number of slots a day, so also about the code's 1440 minutes.

### Propagation

| Theorem | States | Argument |
|---|---|---|
| `ValidatedRange` | `Validated` returns a sequence of exactly the valid nameservers of a list | below |
| `OneRound`, `NotVacuous`, `AllReported` | `Spec => []PropagatedInOneRound`, `[]SomebodyAsked`, `[]ReportComplete` | `RoundInv`: `matched` is what was seen in this round and, with `pending`, is what was asked in it |
| `HeldBounded` | `Spec => []HeldAtMost` | `HeldInv`: after `k` whole rounds `elapsed` is `k` intervals and `clock` at most `k` times `RoundTime`, and there are at most `Rounds` of them (`RoundFits`) |

`Validated` is a recursive function over the list. The library's induction theorems cannot
be used here, so what it returns is proved by the least prefix for which it would not hold
(`NatMin`, from the pigeonhole principle for finite sets). The bound of `HeldAtMost` is a
product of two variables, which the SMT solver does not reason about: `NextProduct` and
`ProductGrows` reduce it to a sum, and the division is used only through `RoundFits`: a
round that begins before `timeout` is one of `Rounds`.

### CertStore

| Theorem | States | Argument |
|---|---|---|
| `TypeCorrect` | `Spec => []TypeOK` | with `PlaceOK`: which request may be at which position |
| `DatesBelong` | `Spec => []DatesMatchCert` | `Whole(secret)`: `store_cert` writes certificate, key and dates at once, and `update_cert_targets` no certificate at all |
| `PairsFromVault` | `Spec => []PairFromVault` | `PairInv`: chain and key belong together in the secret, in what a request has read of it, and in what a deployment has handed over |

### CertMonitor

| Theorem | States | Argument |
|---|---|---|
| `TypeCorrect` | `Spec => []TypeOK` | one step per action |
| `OneRenewalAtATime` | `Spec => []NoConcurrentRenewals` | `MonitorInv`: a domain has at most one of a command, a job and a job in the pool, and only if it is in `_renewing`, where a check looks first |

### DeployManager

| Theorem | States | Argument |
|---|---|---|
| `TypeCorrect` | `Spec => []TypeOK` | with: the running jobs are a finite set, which the pool's bound counts |
| `JobsInWindow` | `Spec => JobsStartInWindow` | `ManagerInv`: a job that starts starts at its date, since late ones are dropped; that date is open by `NextStartIsOpen` |
| `NoneForgotten` | if `JobName` tells pairs apart, `Spec => []DeferredAccounted` | `AccountInv`: a deferred deployment without a fate has a job, kept under its own name; only a later `Defer` of that name takes its place |
| `NewestNotReplaced` | `Spec => NewestStays` | `StaysInv`, below |
| `OnlyLateOnesMissed` | if `JobName` tells pairs apart, `Spec => []MissedOnlyWhenLate` | `LateInv`, below |

Both rest on `DateInv`: a job's date is `next_window_start` of the time its request read, no
request has read a time that is still to come, and a call under way to a target found its
window open. For `NewestStays`, `StaysInv` says of a job and a newer request for the same
domain that came after it: until the job's date the window stays closed (`NearestWithinDay`,
which is why overnight windows are excepted), so that the newer request is put off too and,
since it uses the same job name, takes the job's place. As long as the job is there, the
newer certificate is neither on the target nor in the pool.

For `MissedOnlyWhenLate`, `LateInv` says that a waiting job that found a thread free is due
now, and that one that did not belongs to a crowd: `LeftBy` its date, the deployments that
were due by then and have left the scheduler's table, outnumber the threads. The pool's
jobs are mapped one to one into that set (`PoolFull`), which only grows.

### DeviceDeploy

| Theorem | States | Argument |
|---|---|---|
| `TypeCorrect` | `Spec => []TypeOK` | one step per request of each provider |
| `PairsBelong` | `Spec => []PairsMatch` | `PairInv`: calls under way for one object have met; one that is between its uploads finds its own certificate, has met another, or finds that of a call that was given up |
| `ProfilesFollow` | `Spec => []ProfilesFollowTheirName` | `ProfileInv`: whatever a call is about to move, now or in a late request, had a first reference that contains its domain; containment is transitive |
| `CleansUp` | `Spec => []NoFileLeft` | `FileInv`, with what `CallInv` says of late requests: their calls are over and were not answered "ok" |
| `Implements` | `Spec => ImplementsTarget` | `InstInv`: a call installs once, before it can answer "ok"; each request is a step or a stutter of `DeployTarget` |

All of them rest on `CallInv`, which says what is known of a call at each position.

### What is only model-checked

Liveness, which needs fairness (`EveryRequestEnds`, `DeferredRuns`, `Returns`,
`FirstRenewal`, `DeferredRenewalRuns`, `Warned`, `StartupEnds`, `DeferredEnds`), and the
runs that end in a violation. Every other property of a run is stated by a theorem.

## Not modelled

- The nsupdate backend. `requirements.txt` pins dnspython 2.8.0, whose `Message.use_tsig`
  looks a key up by its `dns.name.Name`, while `_build_keyring` in `dns_update.py` has `str`
  keys, so that every call raises before a message is sent. What is left of a request is a
  lock taken and released with an error, which `ZoneChallenge` has (`SyncFails`).
- Authentication, rate limits, metrics, status list, health and dashboard: they keep no
  state that another part reads.
- How a name leads to its zone file: `ZoneOf` stands for `_resolve_zone_path`, and the set of
  zone files does not change.
- Configuration and request models: what they admit is the range of the constants.
- PFX conversion, time zones and changes of the UTC offset: libraries.
- The shell hooks and packaging: clients and descriptions of the deployment.

## Plan

1. Done: a module, runs and theorems for the challenge service, the windows, propagation,
   the certificate store, the monitor, the deployment manager and the targets.
2. The zone of a name from its labels (`_resolve_zone_path`), with zone files that owners add and
   remove between auth and cleanup: a cleanup then works in another zone than its auth,
   is answered "skipped" and leaves the record behind.
3. A composition of `CertMonitor` and `CertStore`: a renewal that stores its certificate, and a
   check that reads the dates a routing update left behind.
4. Theorems about both, starting with the types and the invariants of the components, which
   the composition should keep.
