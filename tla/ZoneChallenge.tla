---------------------------- MODULE ZoneChallenge ----------------------------
(***************************************************************************)
(* The git backend of POST /acme/auth and POST /acme/cleanup: requests     *)
(* served by the threads of one or more server processes take the file     *)
(* lock, bring the shared clone up to date, edit one zone file, commit and *)
(* push, while the CI/CD of the zone repository pushes its own edits.      *)
(***************************************************************************)
EXTENDS Naturals

CONSTANTS
    Requests,  \* the HTTP requests of a behaviour, each served once
    Procs,     \* server processes sharing work_dir (clone and repo.lock)
    ProcOf,    \* the process whose thread pool serves a request
    Threaded,  \* TRUE: a process may serve several requests at a time
    Names,     \* challenge names, _acme-challenge.<domain>
    Zones,     \* zone files under zone_path
    ZoneOf,    \* the zone file _resolve_zone_path finds for a name
    Values,    \* validation tokens ("" for a request without one)
    NoTxt,     \* the name has no TXT record
    NoZone,    \* no zone file matches the name
    NoProc,    \* nobody holds repo.lock
    Faults,    \* which can happen: "net" (git's transport fails), "reject" (a
               \* hook or a protected branch refuses a push), "parse" (dnspython
               \* rejects a zone file), "io" (a local file or git operation
               \* raises), "crash" (of a server process)
    MaxCi      \* bound: number of CI/CD pushes

ASSUME ConstantsAssumption ==
    /\ ProcOf \in [Requests -> Procs]
    /\ ZoneOf \in [Names -> Zones \cup {NoZone}]
    /\ NoTxt \notin Values /\ NoZone \notin Zones /\ NoProc \notin Procs
    /\ Faults \subseteq {"net", "reject", "parse", "io", "crash"}
    /\ Threaded \in BOOLEAN /\ MaxCi \in Nat

VARIABLES
    pc, arg, res, buf,        \* per request: position, body, answer, parsed zone
    owner,                    \* process holding the lock on repo.lock
    clone, tree, head, base,  \* the clone: its state, working tree, HEAD, origin
    baseRev, unpushed,        \* revision of base; zones changed by local commits
    remote, remoteRev         \* the remote branch and its revision

reqVars   == <<pc, arg, res, buf>>
cloneVars == <<clone, tree, head, base, baseRev, unpushed>>
vars      == <<reqVars, owner, cloneVars, remote, remoteRev>>

(***************************************************************************)
(* A zone file: its challenge records, the version of everything else in   *)
(* it (which only CI/CD edits; 0 when the file is cut short), and whether  *)
(* the text is the one that dnspython's Zone.to_file prints, so that       *)
(* printing it again changes nothing.                                      *)
(***************************************************************************)
File    == [txt : [Names -> Values \cup {NoTxt}], rest : Nat, canon : BOOLEAN]
Content == [Zones -> File]
Body    == [op : {"auth"}, name : Names, val : Values]
             \cup [op : {"cleanup"}, name : Names, val : {NoTxt}]

\* Seeded fault: no rdataset.clear(), the new value joins the old one.
WithTxtAppended(f, n, v) == [f EXCEPT !.txt[n] = {@, v}, !.canon = TRUE]

WithTxt(f, n, v) == [f EXCEPT !.txt[n] = v, !.canon = TRUE]

\* A zone file that Zone.to_file has opened, and so truncated, and not filled.
Torn == [txt |-> [n \in Names |-> NoTxt], rest |-> 0, canon |-> FALSE]

\* Positions at which a request's thread is between lock.acquire and lock.release.
Critical == {"sync", "read", "write", "commit", "push", "release"}
InFlight == Critical \cup {"lock"}

Init ==
    /\ pc = [r \in Requests |-> "new"]
    /\ arg \in [Requests -> Body]
    /\ res = [r \in Requests |-> "none"]
    /\ remote \in [Zones -> [txt : {[n \in Names |-> NoTxt]}, rest : {1}, canon : BOOLEAN]]
    /\ buf = [r \in Requests |-> [txt |-> [n \in Names |-> NoTxt], rest |-> 1, canon |-> TRUE]]
    /\ owner = NoProc
    /\ clone = "absent" /\ unpushed = {}
    /\ tree = remote /\ head = remote /\ base = remote
    /\ baseRev = 0 /\ remoteRev = 0

(***************************************************************************)
(* Steps of a request.                                                     *)
(***************************************************************************)
Goto(r, next)     == pc' = [pc EXCEPT ![r] = next] /\ res' = res
Leave(r, answer)  == /\ pc' = [pc EXCEPT ![r] = "release"]
                     /\ res' = [res EXCEPT ![r] = answer]

\* A thread of the pool picks the request up.
Arrive(r) ==
    /\ pc[r] = "new"
    /\ Threaded \/ \A s \in Requests : ProcOf[s] = ProcOf[r] => pc[s] \notin InFlight
    /\ Goto(r, "lock")
    /\ UNCHANGED <<arg, buf, owner, cloneVars, remote, remoteRev>>

\* Seeded fault: the lock is not taken.
AcquireUnlocked(r) ==
    /\ pc[r] = "lock"
    /\ owner' = ProcOf[r]
    /\ Goto(r, "sync")
    /\ UNCHANGED <<arg, buf, cloneVars, remote, remoteRev>>

\* InterProcessLock.acquire: a POSIX record lock, which the kernel grants to
\* the process, so that it excludes other processes and no thread of this one.
Acquire(r) ==
    /\ pc[r] = "lock"
    /\ owner \in {NoProc, ProcOf[r]}
    /\ owner' = ProcOf[r]
    /\ Goto(r, "sync")
    /\ UNCHANGED <<arg, buf, cloneVars, remote, remoteRev>>

\* acquire gives up after 30 seconds: HTTP 423.
LockTimeout(r) ==
    /\ pc[r] = "lock"
    /\ owner \notin {NoProc, ProcOf[r]}
    /\ pc' = [pc EXCEPT ![r] = "done"]
    /\ res' = [res EXCEPT ![r] = "locked"]
    /\ UNCHANGED <<arg, buf, owner, cloneVars, remote, remoteRev>>

\* clone_or_pull, first time: Repo.clone_from.
Clone(r) ==
    /\ pc[r] = "sync" /\ clone = "absent"
    /\ clone' = "ok" /\ unpushed' = {}
    /\ tree' = remote /\ head' = remote /\ base' = remote /\ baseRev' = remoteRev
    /\ Goto(r, "read")
    /\ UNCHANGED <<arg, buf, owner, remote, remoteRev>>

\* Seeded fault: rebase.autoStash, which pulls over uncommitted changes.
PullAutostashed == clone \in {"partial", "rebasing"}

\* git pull --rebase refuses to start in a broken clone, during an unfinished
\* rebase, or with uncommitted changes; GitPython raises.
PullRefused == clone \in {"partial", "rebasing"} \/ (clone = "ok" /\ tree # head)

\* Zones that a local commit and the remote both changed since the last sync.
Overlap == {z \in unpushed : remote[z] # base[z]}

\* A local commit replayed on the remote's version of a zone file.
Replayed(z) ==
    [txt   |-> [n \in Names |-> IF head[z].txt[n] # base[z].txt[n]
                                THEN head[z].txt[n] ELSE remote[z].txt[n]],
     rest  |-> IF head[z].rest # base[z].rest THEN head[z].rest ELSE remote[z].rest,
     canon |-> head[z].canon /\ remote[z].canon]

Rebased == [z \in Zones |-> IF z \notin unpushed THEN remote[z]
                            ELSE IF z \in Overlap THEN Replayed(z) ELSE head[z]]

\* Seeded fault: reset --hard to the remote branch in place of a rebase.
PullResets(r) ==
    /\ pc[r] = "sync" /\ clone = "ok"
    /\ head' = remote /\ tree' = remote /\ base' = remote /\ baseRev' = remoteRev
    /\ Goto(r, "read")
    /\ UNCHANGED <<arg, buf, owner, clone, unpushed, remote, remoteRev>>

\* clone_or_pull, existing clone: the local commits are replayed cleanly.
Pull(r) ==
    /\ pc[r] = "sync" /\ clone = "ok" /\ ~PullRefused
    /\ head' = Rebased /\ tree' = Rebased
    /\ base' = remote /\ baseRev' = remoteRev
    /\ Goto(r, "read")
    /\ UNCHANGED <<arg, buf, owner, clone, unpushed, remote, remoteRev>>

\* The replay stops on a conflict: git leaves the rebase open, GitPython raises.
PullConflict(r) ==
    /\ pc[r] = "sync" /\ clone = "ok" /\ ~PullRefused
    /\ Overlap # {}
    /\ clone' = "rebasing"
    /\ Leave(r, "error")
    /\ UNCHANGED <<arg, buf, owner, tree, head, base, baseRev, unpushed, remote, remoteRev>>

\* Another thread of the process has made the directory of the clone and is
\* still filling it: neither Repo() nor clone_from accepts it.
CloneUnderWay(r) ==
    /\ clone = "absent"
    /\ \E s \in Requests \ {r} : ProcOf[s] = ProcOf[r] /\ pc[s] = "sync"

\* Seeded fault: clone_or_pull called outside the try block.
SyncFailsUncaught(r) ==
    /\ pc[r] = "sync" /\ (PullRefused \/ CloneUnderWay(r) \/ Faults \cap {"net", "io"} # {})
    /\ pc' = [pc EXCEPT ![r] = "done"]
    /\ res' = [res EXCEPT ![r] = "error"]
    /\ UNCHANGED <<arg, buf, owner, cloneVars, remote, remoteRev>>

\* Seeded fault: a failed pull is tried again for ever.
SyncRetried(r) ==
    /\ pc[r] = "sync" /\ (PullRefused \/ CloneUnderWay(r) \/ Faults \cap {"net", "io"} # {})
    /\ Goto(r, "lock")
    /\ UNCHANGED <<arg, buf, owner, cloneVars, remote, remoteRev>>

\* clone_or_pull raises and changes nothing: refused, or the transport failed.
SyncFails(r) ==
    /\ pc[r] = "sync"
    /\ PullRefused \/ CloneUnderWay(r) \/ Faults \cap {"net", "io"} # {}
    /\ Leave(r, "error")
    /\ UNCHANGED <<arg, buf, owner, cloneVars, remote, remoteRev>>

\* add_txt_record and remove_txt_record up to Zone.from_file: resolve the zone
\* file and parse it, or stop where there is nothing to edit or no way to.
ReadZone(r) ==
    LET z == ZoneOf[arg[r].name] IN
    /\ pc[r] = "read"
    /\ \/ /\ z = NoZone
          /\ Leave(r, IF arg[r].op = "auth" THEN "error" ELSE "skipped")
          /\ UNCHANGED buf
       \/ /\ z # NoZone /\ ("parse" \in Faults \/ tree[z].rest = 0)
          /\ Leave(r, "error")
          /\ UNCHANGED buf
       \/ /\ z # NoZone /\ arg[r].op = "cleanup" /\ tree[z].txt[arg[r].name] = NoTxt
          /\ Leave(r, "skipped")
          /\ UNCHANGED buf
       \/ /\ z # NoZone /\ (arg[r].op = "auth" \/ tree[z].txt[arg[r].name] # NoTxt)
          /\ buf' = [buf EXCEPT ![r] = tree[z]]
          /\ Goto(r, "write")
    /\ UNCHANGED <<arg, owner, cloneVars, remote, remoteRev>>

\* Replace or delete the rdataset in the parsed zone, then Zone.to_file.
WriteZone(r) ==
    LET z == ZoneOf[arg[r].name] IN
    /\ pc[r] = "write"
    /\ tree' = [tree EXCEPT ![z] = WithTxt(buf[r], arg[r].name, arg[r].val)]
    /\ Goto(r, "commit")
    /\ UNCHANGED <<arg, buf, owner, clone, head, base, baseRev, unpushed, remote, remoteRev>>

\* The edit raises: before the file is opened (rdataset.add), while it is being
\* written, or once it is complete.
WriteFails(r) ==
    LET z == ZoneOf[arg[r].name] IN
    /\ pc[r] = "write" /\ "io" \in Faults
    /\ \E f \in {tree[z], Torn, WithTxt(buf[r], arg[r].name, arg[r].val)} :
         tree' = [tree EXCEPT ![z] = f]
    /\ Leave(r, "error")
    /\ UNCHANGED <<arg, buf, owner, clone, head, base, baseRev, unpushed, remote, remoteRev>>

\* Seeded fault: index.commit without index.add.
CommitUnstaged(r) ==
    /\ pc[r] = "commit"
    /\ Goto(r, "push")
    /\ UNCHANGED <<arg, buf, owner, cloneVars, remote, remoteRev>>

\* commit_and_push up to index.commit; a clean tree ends the call, unpushed
\* commits or not.
Commit(r) ==
    /\ pc[r] = "commit"
    /\ \/ tree = head /\ Leave(r, "ok") /\ UNCHANGED <<head, unpushed>>
       \/ /\ tree # head
          /\ head' = tree
          /\ unpushed' = unpushed \cup {z \in Zones : tree[z] # head[z]}
          /\ Goto(r, "push")
    /\ UNCHANGED <<arg, buf, owner, clone, tree, base, baseRev, remote, remoteRev>>

\* is_dirty, index.add or index.commit raises (index.lock taken, a hook, a full
\* disk): the edit stays in the working tree, not committed.
CommitFails(r) ==
    /\ pc[r] = "commit" /\ "io" \in Faults
    /\ Leave(r, "error")
    /\ UNCHANGED <<arg, buf, owner, cloneVars, remote, remoteRev>>

\* The remote takes the branch when it is a fast-forward of its own.
FastForward == baseRev = remoteRev
Advance     == /\ remote' = head /\ base' = head
               /\ remoteRev' = remoteRev + 1 /\ baseRev' = remoteRev + 1
               /\ unpushed' = {}

\* Seeded fault: push --force.
PushForced(r) ==
    /\ pc[r] = "push" /\ Advance /\ Leave(r, "ok")
    /\ UNCHANGED <<arg, buf, owner, clone, tree, head>>

\* origin.push(): done, or rejected, because the remote moved, by a hook or for a
\* protected branch. GitPython reports a rejection in the list it returns, which
\* commit_and_push does not look at.
Push(r) ==
    /\ pc[r] = "push"
    /\ \/ FastForward /\ Advance
       \/ /\ ~FastForward \/ "reject" \in Faults
          /\ UNCHANGED <<remote, remoteRev, base, baseRev, unpushed>>
    /\ Leave(r, "ok")
    /\ UNCHANGED <<arg, buf, owner, clone, tree, head>>

\* origin.push() loses the connection and raises, before or after the remote
\* took the branch; or a post-commit hook raises and there is no push.
PushFails(r) ==
    /\ pc[r] = "push" /\ Faults \cap {"net", "io"} # {}
    /\ \/ "net" \in Faults /\ FastForward /\ Advance
       \/ UNCHANGED <<remote, remoteRev, base, baseRev, unpushed>>
    /\ Leave(r, "error")
    /\ UNCHANGED <<arg, buf, owner, clone, tree, head>>

\* finally: lock.release(), and the answer goes out. Unlocking drops the
\* process's record lock whichever of its threads took it.
Release(r) ==
    /\ pc[r] = "release"
    /\ owner' = IF owner = ProcOf[r] THEN NoProc ELSE owner
    /\ Goto(r, "done")
    /\ UNCHANGED <<arg, buf, cloneVars, remote, remoteRev>>

(***************************************************************************)
(* The environment.                                                        *)
(***************************************************************************)
\* CI/CD or an operator pushes an edit of a zone file, by hand or generated.
Edited(f, c) == [txt |-> f.txt, rest |-> f.rest + 1, canon |-> c]

CiPush(z) ==
    /\ remote[z].rest <= MaxCi
    /\ \E c \in BOOLEAN : /\ c => remote[z].canon
                          /\ remote' = [remote EXCEPT ![z] = Edited(@, c)]
    /\ remoteRev' = remoteRev + 1
    /\ UNCHANGED <<reqVars, owner, cloneVars>>

\* A server process dies: its requests are cut off, the kernel drops its lock,
\* a clone under way is left incomplete and a rebase under way unfinished.
Crash(p) ==
    LET cut == {r \in Requests : ProcOf[r] = p /\ pc[r] \in InFlight} IN
    /\ "crash" \in Faults /\ cut # {}
    /\ pc' = [r \in Requests |-> IF r \in cut THEN "done" ELSE pc[r]]
    /\ res' = [r \in Requests |-> IF r \in cut THEN "lost" ELSE res[r]]
    /\ owner' = IF owner = p THEN NoProc ELSE owner
    /\ \/ UNCHANGED clone
       \/ /\ \E r \in cut : pc[r] = "sync"
          /\ \/ clone = "absent" /\ clone' = "partial"
             \/ clone = "ok" /\ ~PullRefused /\ clone' = "rebasing"
    /\ UNCHANGED <<arg, buf, tree, head, base, baseRev, unpushed, remote, remoteRev>>

\* Every request has been answered or cut off.
AllDone == (\A r \in Requests : pc[r] = "done") /\ UNCHANGED vars

\* The steps that end when git and the remote are done with each other. The code
\* sets no timeout on git, so that nothing says that they ever are.
Remote(r) ==
    \/ Clone(r) \/ Pull(r) \/ PullConflict(r) \/ SyncFails(r)
    \/ Push(r) \/ PushFails(r)

\* The steps a thread takes on this machine.
Local(r) ==
    \/ Acquire(r) \/ LockTimeout(r) \/ ReadZone(r) \/ WriteZone(r) \/ WriteFails(r)
    \/ Commit(r) \/ CommitFails(r) \/ Release(r)

Next ==
    \/ \E r \in Requests : Arrive(r) \/ Local(r) \/ Remote(r)
    \/ \E z \in Zones : CiPush(z)
    \/ \E p \in Procs : Crash(p)
    \/ AllDone

Spec == Init /\ [][Next]_vars

\* A thread takes its next step on this machine; acquire polls, so it also gives
\* up when the lock stays taken. The remote, arrivals, CI/CD and crashes owe
\* nothing.
FairSpec == Spec /\ \A r \in Requests : WF_vars(Local(r))

(***************************************************************************)
(* Properties.                                                             *)
(***************************************************************************)
\* Every variable keeps its type.
TypeOK ==
    /\ pc \in [Requests -> {"new", "lock", "done"} \cup Critical]
    /\ arg \in [Requests -> Body]
    /\ res \in [Requests -> {"none", "ok", "skipped", "error", "locked", "lost"}]
    /\ buf \in [Requests -> File]
    /\ owner \in Procs \cup {NoProc}
    /\ clone \in {"absent", "partial", "ok", "rebasing"}
    /\ tree \in Content /\ head \in Content /\ base \in Content /\ remote \in Content
    /\ baseRev \in Nat /\ remoteRev \in Nat /\ unpushed \subseteq Zones

\* Two threads of one process are never inside the critical section together:
\* what the file lock, which the kernel grants to the process, cannot see to.
ThreadsExclusive ==
    \A r, s \in Requests :
        pc[r] \in Critical /\ pc[s] \in Critical /\ ProcOf[r] = ProcOf[s] => r = s

\* _lock_path: two requests never operate on the clone at the same time.
Exclusive ==
    \A r, s \in Requests : pc[r] \in Critical /\ pc[s] \in Critical => r = s

\* The lock is held only on behalf of a request that is being served: no answer,
\* error or crash leaves repo.lock taken, so 423 always means another operation.
LockNotLeaked ==
    owner # NoProc => \E r \in Requests : ProcOf[r] = owner /\ pc[r] \in Critical

\* A push of this service never takes back what CI/CD pushed: nobody's version
\* of the rest of a zone file goes down on the remote.
ForeignEditsPreserved ==
    [][\A z \in Zones : remote'[z].rest >= remote[z].rest]_vars

\* An edit in the working tree that no request is going to commit: whoever made
\* it failed between Zone.to_file and index.commit, or was cut off there.
Leftover ==
    tree # head /\ \A r \in Requests : pc[r] \notin {"read", "write", "commit"}

\* Such an edit is neither published nor dropped by later requests, whichever
\* threads serve them: clone_or_pull refuses each of them with an error.
LeftoverStays ==
    [][Leftover =>
        /\ Leftover' /\ tree' = tree /\ head' = head
        /\ \A r \in Requests : pc[r] = "sync" /\ pc'[r] # "sync"
                                 => res'[r] \in {"error", "lost"}]_vars

\* When the answer is "ok", the record is as asked for on the remote, or in a local
\* commit that the next push takes along: a rejected push loses nothing.
OkIsKept ==
    \A r \in Requests : pc[r] = "release" /\ res[r] = "ok" =>
        LET n == arg[r].name
            z == ZoneOf[n]
        IN  \/ remote[z].txt[n] = arg[r].val
            \/ head[z].txt[n] = arg[r].val /\ z \in unpushed

\* acme_auth, step 5: when the answer is "ok", the TXT record is on the remote.
AuthOkIsPublished ==
    \A r \in Requests :
        pc[r] = "release" /\ res[r] = "ok" /\ arg[r].op = "auth"
            => remote[ZoneOf[arg[r].name]].txt[arg[r].name] = arg[r].val

\* A git command that hangs holds up its own request only: every other one that
\* is being served is answered, with 423 if need be, or cut off by a crash.
EveryRequestEnds ==
    \A r \in Requests :
        pc[r] \in InFlight ~> (pc[r] = "done" \/ [](pc[r] \in {"sync", "push"}))

(***************************************************************************)
(* The promise of the endpoints, as ChallengeStore states it: the store is *)
(* what HEAD of the clone says of every name.                              *)
(***************************************************************************)
StoreOf(content) ==
    [n \in Names |-> IF ZoneOf[n] = NoZone THEN NoTxt ELSE content[ZoneOf[n]].txt[n]]

StageOf(position) ==
    CASE position = "new"                 -> "new"
      [] position = "push"                -> "took"
      [] position \in {"release", "done"} -> "done"
      [] OTHER                            -> "open"

Abstract == INSTANCE ChallengeStore
    WITH store <- StoreOf(head), stage <- [r \in Requests |-> StageOf(pc[r])]

\* The requests behave as atomic operations on one store of challenges.
ImplementsStore == Abstract!Spec
==============================================================================
