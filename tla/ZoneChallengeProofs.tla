------------------------- MODULE ZoneChallengeProofs -------------------------
(***************************************************************************)
(* Theorems about ZoneChallenge for every number of requests, processes,   *)
(* names and zones, every fault and any number of CI/CD pushes.            *)
(***************************************************************************)
EXTENDS ZoneChallenge, TLAPS

\* The record operations keep zone files well-formed.
LEMMA WithTxtType ==
    ASSUME NEW f \in File, NEW n \in Names, NEW v \in Values \cup {NoTxt}
    PROVE  WithTxt(f, n, v) \in File
BY DEF WithTxt, File

\* A rebase builds well-formed zone files out of HEAD, the base and the remote.
LEMMA RebasedType ==
    ASSUME TypeOK
    PROVE  Rebased \in Content
<1>1. ASSUME NEW z \in Zones PROVE Replayed(z) \in File
  <2>1. head[z] \in File /\ base[z] \in File /\ remote[z] \in File
    BY DEF TypeOK, Content
  <2>2. [n \in Names |-> IF head[z].txt[n] # base[z].txt[n]
                         THEN head[z].txt[n] ELSE remote[z].txt[n]]
           \in [Names -> Values \cup {NoTxt}]
    BY <2>1 DEF File
  <2> QED BY <2>1, <2>2 DEF Replayed, File
<1>2. ASSUME NEW z \in Zones PROVE head[z] \in File /\ remote[z] \in File
  BY DEF TypeOK, Content
<1> QED BY <1>1, <1>2 DEF Rebased, Content

\* Every action keeps the types: the inductive step of TypeOK.
LEMMA TypeStep ==
    ASSUME TypeOK, [Next]_vars
    PROVE  TypeOK'
<1> USE ConstantsAssumption
<1>1. ASSUME NEW r \in Requests, Arrive(r) PROVE TypeOK'
  BY <1>1 DEF TypeOK, Arrive, Goto, cloneVars, Critical
<1>2. ASSUME NEW r \in Requests, Acquire(r) PROVE TypeOK'
  BY <1>2 DEF TypeOK, Acquire, Goto, cloneVars, Critical
<1>3. ASSUME NEW r \in Requests, LockTimeout(r) PROVE TypeOK'
  BY <1>3 DEF TypeOK, LockTimeout, cloneVars, Critical
<1>4. ASSUME NEW r \in Requests, Clone(r) PROVE TypeOK'
  BY <1>4 DEF TypeOK, Clone, Goto, Critical
<1>5. ASSUME NEW r \in Requests, Pull(r) PROVE TypeOK'
  BY <1>5, RebasedType DEF TypeOK, Pull, Goto, Critical
<1>6. ASSUME NEW r \in Requests, PullConflict(r) PROVE TypeOK'
  BY <1>6 DEF TypeOK, PullConflict, Leave, Critical
<1>7. ASSUME NEW r \in Requests, SyncFails(r) PROVE TypeOK'
  BY <1>7 DEF TypeOK, SyncFails, Leave, cloneVars, Critical
<1>8. ASSUME NEW r \in Requests, ReadZone(r) PROVE TypeOK'
  <2> DEFINE z == ZoneOf[arg[r].name]
  <2>1. arg[r].name \in Names
    BY DEF TypeOK, Body
  <2>2. z # NoZone => tree[z] \in File
    BY <2>1 DEF TypeOK, Content
  <2>3. buf' \in [Requests -> File]
    BY <1>8, <2>2 DEF ReadZone, TypeOK
  <2> QED BY <1>8, <2>3 DEF TypeOK, ReadZone, Goto, Leave, cloneVars, Critical
<1>9. ASSUME NEW r \in Requests, WriteZone(r) PROVE TypeOK'
  <2>1. arg[r].name \in Names /\ arg[r].val \in Values \cup {NoTxt}
    BY DEF TypeOK, Body
  <2>2. WithTxt(buf[r], arg[r].name, arg[r].val) \in File
    BY <2>1, WithTxtType DEF TypeOK
  <2>3. tree' \in Content
    BY <1>9, <2>2 DEF WriteZone, TypeOK, Content
  <2> QED BY <1>9, <2>3 DEF TypeOK, WriteZone, Goto, Critical
<1>9a. ASSUME NEW r \in Requests, WriteFails(r) PROVE TypeOK'
  <2>1. arg[r].name \in Names /\ arg[r].val \in Values \cup {NoTxt}
    BY DEF TypeOK, Body
  <2>2. PICK f \in {tree[ZoneOf[arg[r].name]], Torn, WithTxt(buf[r], arg[r].name, arg[r].val)} :
          tree' = [tree EXCEPT ![ZoneOf[arg[r].name]] = f]
    BY <1>9a DEF WriteFails
  <2>3. WithTxt(buf[r], arg[r].name, arg[r].val) \in File /\ Torn \in File
    BY <2>1, WithTxtType DEF TypeOK, Torn, File
  <2>4. tree' \in Content
    BY <2>2, <2>3 DEF TypeOK, Content
  <2> QED BY <1>9a, <2>4 DEF TypeOK, WriteFails, Leave, Critical
<1>9b. ASSUME NEW r \in Requests, CommitFails(r) PROVE TypeOK'
  BY <1>9b DEF TypeOK, CommitFails, Leave, cloneVars, Critical
<1>10. ASSUME NEW r \in Requests, Commit(r) PROVE TypeOK'
  BY <1>10 DEF TypeOK, Commit, Goto, Leave, Critical
<1>11. ASSUME NEW r \in Requests, Push(r) PROVE TypeOK'
  BY <1>11 DEF TypeOK, Push, Advance, Leave, Critical
<1>12. ASSUME NEW r \in Requests, PushFails(r) PROVE TypeOK'
  BY <1>12 DEF TypeOK, PushFails, Advance, Leave, Critical
<1>13. ASSUME NEW r \in Requests, Release(r) PROVE TypeOK'
  BY <1>13 DEF TypeOK, Release, Goto, cloneVars, Critical
<1>14. ASSUME NEW z \in Zones, CiPush(z) PROVE TypeOK'
  <2>1. PICK c \in BOOLEAN : remote' = [remote EXCEPT ![z] = Edited(@, c)]
    BY <1>14 DEF CiPush
  <2>2. remote[z] \in File
    BY DEF TypeOK, Content
  <2>3. Edited(remote[z], c) \in File
    BY <2>2 DEF Edited, File
  <2>4. remote' \in Content
    BY <2>1, <2>3 DEF TypeOK, Content
  <2> QED BY <1>14, <2>4 DEF TypeOK, CiPush, reqVars, cloneVars
<1>15. ASSUME NEW p \in Procs, Crash(p) PROVE TypeOK'
  BY <1>15 DEF TypeOK, Crash
<1>16. CASE UNCHANGED vars
  BY <1>16 DEF TypeOK, vars, reqVars, cloneVars
<1> QED
  BY <1>1, <1>2, <1>3, <1>4, <1>5, <1>6, <1>7, <1>8, <1>9, <1>9a, <1>9b, <1>10, <1>11,
     <1>12, <1>13, <1>14, <1>15, <1>16 DEF Next, Local, Remote, AllDone

\* The initial states are well-typed.
LEMMA TypeInit == Init => TypeOK
BY ConstantsAssumption DEF Init, TypeOK, Content, File

\* Every variable keeps its type in every behaviour of the service.
THEOREM TypeCorrect == Spec => []TypeOK
<1>1. Init => TypeOK
  BY TypeInit
<1>2. TypeOK /\ [Next]_vars => TypeOK'
  BY TypeStep
<1> QED BY <1>1, <1>2, PTL DEF Spec

(***************************************************************************)
(* The lock.                                                               *)
(***************************************************************************)
\* The steps of a request between acquire and release.
Inside(r) ==
    \/ Clone(r) \/ Pull(r) \/ PullConflict(r) \/ SyncFails(r) \/ ReadZone(r)
    \/ WriteZone(r) \/ WriteFails(r) \/ Commit(r) \/ CommitFails(r) \/ Push(r)
    \/ PushFails(r)

\* A step of the request inside the critical section moves only that request.
LEMMA CriticalMoves ==
    ASSUME NEW r \in Requests, Inside(r)
    PROVE  /\ owner' = owner /\ pc[r] \in Critical
           /\ \E q \in Critical : pc' = [pc EXCEPT ![r] = q]
<1>1. owner' = owner /\ pc[r] \in Critical
  BY DEF Inside, Clone, Pull, PullConflict, SyncFails, ReadZone, WriteZone, WriteFails,
         Commit, CommitFails, Push, PushFails, Critical
<1>2. \E q \in Critical : pc' = [pc EXCEPT ![r] = q]
  BY DEF Inside, Clone, Pull, PullConflict, SyncFails, ReadZone, WriteZone, WriteFails,
         Commit, CommitFails, Push, PushFails, Goto, Leave, Critical
<1> QED BY <1>1, <1>2

\* No answer, error or crash leaves repo.lock taken, threads or not.
THEOREM LockFreed == Spec => []LockNotLeaked
<1> DEFINE Inv == TypeOK /\ LockNotLeaked
<1>1. Init => Inv
  BY TypeInit DEF Init, LockNotLeaked
<1>2. Inv /\ [Next]_vars => Inv'
  <2> SUFFICES ASSUME TypeOK, LockNotLeaked, [Next]_vars PROVE LockNotLeaked'
    BY TypeStep
  <2> USE ConstantsAssumption DEF LockNotLeaked, Critical, InFlight
  <2>1. ASSUME NEW r \in Requests, Arrive(r) PROVE LockNotLeaked'
    BY <2>1 DEF TypeOK, Arrive, Goto
  <2>2. ASSUME NEW r \in Requests, Acquire(r) PROVE LockNotLeaked'
    BY <2>2 DEF TypeOK, Acquire, Goto
  <2>3. ASSUME NEW r \in Requests, LockTimeout(r) PROVE LockNotLeaked'
    BY <2>3 DEF TypeOK, LockTimeout
  <2>4. ASSUME NEW r \in Requests, Inside(r) PROVE LockNotLeaked'
    BY <2>4, CriticalMoves DEF TypeOK
  <2>5. ASSUME NEW r \in Requests, Release(r) PROVE LockNotLeaked'
    BY <2>5 DEF TypeOK, Release, Goto
  <2>6. ASSUME NEW z \in Zones, CiPush(z) PROVE LockNotLeaked'
    BY <2>6 DEF CiPush, reqVars
  <2>7. ASSUME NEW p \in Procs, Crash(p) PROVE LockNotLeaked'
    BY <2>7 DEF TypeOK, Crash
  <2>8. CASE UNCHANGED vars
    BY <2>8 DEF vars, reqVars
  <2> QED BY <2>1, <2>2, <2>3, <2>4, <2>5, <2>6, <2>7, <2>8
             DEF Next, Local, Remote, Inside, AllDone
<1> QED BY <1>1, <1>2, PTL DEF Spec

\* A request between acquire and release has the lock for its process.
LockInv == \A r \in Requests : pc[r] \in Critical => owner = ProcOf[r]

\* Every action keeps LockInv, unless a release drops the lock under another
\* thread of the process.
LEMMA LockStep ==
    ASSUME TypeOK, LockInv, ThreadsExclusive, [Next]_vars
    PROVE  LockInv'
<1> USE ConstantsAssumption DEF LockInv, Critical, InFlight
<1>1. ASSUME NEW r \in Requests, Arrive(r) PROVE LockInv'
  BY <1>1 DEF TypeOK, Arrive, Goto
<1>2. ASSUME NEW r \in Requests, Acquire(r) PROVE LockInv'
  BY <1>2 DEF TypeOK, Acquire, Goto
<1>3. ASSUME NEW r \in Requests, LockTimeout(r) PROVE LockInv'
  BY <1>3 DEF TypeOK, LockTimeout
<1>4. ASSUME NEW r \in Requests, Inside(r) PROVE LockInv'
  BY <1>4, CriticalMoves DEF TypeOK
<1>5. ASSUME NEW r \in Requests, Release(r) PROVE LockInv'
  BY <1>5 DEF TypeOK, Release, Goto, ThreadsExclusive
<1>6. ASSUME NEW z \in Zones, CiPush(z) PROVE LockInv'
  BY <1>6 DEF CiPush, reqVars
<1>7. ASSUME NEW p \in Procs, Crash(p) PROVE LockInv'
  BY <1>7 DEF TypeOK, Crash
<1>8. CASE UNCHANGED vars
  BY <1>8 DEF vars, reqVars
<1> QED BY <1>1, <1>2, <1>3, <1>4, <1>5, <1>6, <1>7, <1>8
           DEF Next, Local, Remote, Inside, AllDone

\* Two requests are never inside the critical section together, whatever fails
\* or crashes, unless two threads of one process are: the lock lets nothing else
\* through, and a lock among the threads of a process is all that it lacks.
THEOREM CloneExclusive == Spec => ([]ThreadsExclusive => []Exclusive)
<1>1. Init => TypeOK /\ LockInv
  BY TypeInit DEF Init, LockInv, Critical
<1>2. ThreadsExclusive /\ (TypeOK /\ LockInv) /\ [Next]_vars => (TypeOK /\ LockInv)'
  BY TypeStep, LockStep
<1>3. ThreadsExclusive /\ TypeOK /\ LockInv => Exclusive
  BY DEF LockInv, ThreadsExclusive, Exclusive
<1> QED BY <1>1, <1>2, <1>3, PTL DEF Spec

(***************************************************************************)
(* The working tree, threads or not.                                       *)
(***************************************************************************)
\* There is no edit before there is a clone, and nobody to make one.
AbsentInv ==
    clone = "absent" =>
        /\ tree = head
        /\ \A r \in Requests : pc[r] \notin {"read", "write", "commit", "push"}

\* Every action keeps AbsentInv.
LEMMA AbsentStep ==
    ASSUME TypeOK, AbsentInv, [Next]_vars
    PROVE  AbsentInv'
<1> USE DEF AbsentInv, TypeOK
<1>1. ASSUME NEW r \in Requests, Arrive(r) \/ Acquire(r) \/ LockTimeout(r) \/ Release(r)
      PROVE  AbsentInv'
  BY <1>1 DEF Arrive, Acquire, LockTimeout, Release, Goto, cloneVars
<1>2. ASSUME NEW r \in Requests, Clone(r) \/ Pull(r) \/ PullConflict(r) \/ SyncFails(r)
      PROVE  AbsentInv'
  BY <1>2 DEF Clone, Pull, PullConflict, SyncFails, Goto, Leave, cloneVars
<1>3. ASSUME NEW r \in Requests,
             \/ ReadZone(r) \/ WriteZone(r) \/ WriteFails(r) \/ Commit(r) \/ CommitFails(r)
             \/ Push(r) \/ PushFails(r)
      PROVE  AbsentInv'
  <2>1. clone' = clone /\ pc[r] \in {"read", "write", "commit", "push"}
    BY <1>3 DEF ReadZone, WriteZone, WriteFails, Commit, CommitFails, Push, PushFails, cloneVars
  <2> QED BY <2>1
<1>4. ASSUME NEW z \in Zones, CiPush(z) PROVE AbsentInv'
  BY <1>4 DEF CiPush, reqVars, cloneVars
<1>5. ASSUME NEW p \in Procs, Crash(p) PROVE AbsentInv'
  BY <1>5 DEF Crash
<1>6. CASE UNCHANGED vars
  BY <1>6 DEF vars, reqVars, cloneVars
<1> QED BY <1>1, <1>2, <1>3, <1>4, <1>5, <1>6 DEF Next, Local, Remote, AllDone

\* An edit that a failed or crashed request leaves behind is neither published
\* nor dropped: it stays in the working tree, where clone_or_pull refuses every
\* later request, of any thread of any process, with an error.
THEOREM LeftoverKept == Spec => LeftoverStays
<1> DEFINE Inv  == TypeOK /\ AbsentInv
           Stay == Leftover =>
                     /\ Leftover' /\ tree' = tree /\ head' = head
                     /\ \A r \in Requests : pc[r] = "sync" /\ pc'[r] # "sync"
                                              => res'[r] \in {"error", "lost"}
<1>1. Init => Inv
  BY TypeInit DEF Init, AbsentInv
<1>2. Inv /\ [Next]_vars => Inv'
  BY TypeStep, AbsentStep
<1>3. Inv /\ [Next]_vars => [Stay]_vars
  <2> SUFFICES ASSUME TypeOK, AbsentInv, Leftover, Next PROVE Stay
    OBVIOUS
  <2> USE DEF Leftover, TypeOK
  <2>1. ASSUME NEW r \in Requests, Arrive(r) \/ Acquire(r) \/ LockTimeout(r) \/ Release(r)
        PROVE  Stay
    BY <2>1 DEF Arrive, Acquire, LockTimeout, Release, Goto, cloneVars
  <2>2. ASSUME NEW r \in Requests, Clone(r) \/ Pull(r) \/ PullConflict(r) PROVE FALSE
    BY <2>2 DEF Clone, Pull, PullConflict, PullRefused, AbsentInv
  <2>3. ASSUME NEW r \in Requests, SyncFails(r) PROVE Stay
    BY <2>3 DEF SyncFails, Leave, cloneVars
  <2>4. ASSUME NEW r \in Requests,
               \/ ReadZone(r) \/ WriteZone(r) \/ WriteFails(r) \/ Commit(r) \/ CommitFails(r)
        PROVE  FALSE
    BY <2>4 DEF ReadZone, WriteZone, WriteFails, Commit, CommitFails
  <2>5. ASSUME NEW r \in Requests, Push(r) \/ PushFails(r) PROVE Stay
    BY <2>5 DEF Push, PushFails, Leave
  <2>6. ASSUME NEW z \in Zones, CiPush(z) PROVE Stay
    BY <2>6 DEF CiPush, reqVars, cloneVars
  <2>7. ASSUME NEW p \in Procs, Crash(p) PROVE Stay
    BY <2>7 DEF Crash
  <2>8. CASE AllDone
    BY <2>8 DEF AllDone, vars, reqVars, cloneVars
  <2> QED BY <2>1, <2>2, <2>3, <2>4, <2>5, <2>6, <2>7, <2>8 DEF Next, Local, Remote
<1> QED BY <1>1, <1>2, <1>3, PTL DEF Spec, LeftoverStays

(***************************************************************************)
(* The contents of the clone and of the remote. The service does not keep  *)
(* its threads from overlapping (run zone_threads_overlap). The theorems   *)
(* below are about all its behaviours in which no two requests have been   *)
(* inside together, whatever the threads, and so about every behaviour up  *)
(* to the first overlap: nothing else breaks these properties.             *)
(***************************************************************************)
\* The remote is at the clone's base revision only with the base's contents,
\* and only this clone changes challenge records on the remote.
RemoteInv ==
    /\ baseRev <= remoteRev
    /\ baseRev = remoteRev => base = remote
    /\ \A z \in Zones : base[z].txt = remote[z].txt

\* Local commits leave the rest of a zone file alone.
RestInv == \A z \in Zones : head[z].rest = base[z].rest

\* What a request knows of the working tree at each position: clean until it
\* writes, then different from HEAD in its own record only.
EditInv ==
    \A r \in Requests :
        LET n == arg[r].name
            z == ZoneOf[n]
        IN  /\ pc[r] \in {"read", "write"} => tree = head
            /\ pc[r] = "write" => z \in Zones /\ buf[r] = tree[z]
            /\ pc[r] = "commit" =>
                 /\ z \in Zones
                 /\ tree[z].txt = [head[z].txt EXCEPT ![n] = arg[r].val]
                 /\ tree[z].rest = head[z].rest
                 /\ \A y \in Zones \ {z} : tree[y] = head[y]

DataInv == TypeOK /\ RemoteInv /\ RestInv /\ EditInv

\* A rebase takes over what the remote says beside the records, and keeps what
\* HEAD says of the records.
LEMMA RebasedKeeps ==
    ASSUME TypeOK, RemoteInv, RestInv, NEW z \in Zones
    PROVE  Rebased[z].rest = remote[z].rest /\ (z \in unpushed => Rebased[z].txt = head[z].txt)
<1>1. head[z] \in File /\ base[z] \in File /\ remote[z] \in File
  BY DEF TypeOK, Content
<1>2. head[z].rest = base[z].rest /\ base[z].txt = remote[z].txt
  BY DEF RestInv, RemoteInv
<1>3. CASE z \notin unpushed
  BY <1>3 DEF Rebased
<1>4. CASE z \in unpushed /\ remote[z] = base[z]
  BY <1>2, <1>4 DEF Rebased, Overlap
<1>5. CASE z \in unpushed /\ remote[z] # base[z]
  <2>1. Rebased[z] = Replayed(z)
    BY <1>5 DEF Rebased, Overlap
  <2>2. Replayed(z).rest = remote[z].rest
    BY <1>2 DEF Replayed
  <2>3. \A n \in Names : Replayed(z).txt[n] = head[z].txt[n]
    BY <1>2 DEF Replayed
  <2>4. Replayed(z).txt = head[z].txt
    BY <1>1, <2>3 DEF Replayed, File
  <2> QED BY <2>1, <2>2, <2>4
<1> QED BY <1>3, <1>4, <1>5

\* While a request is in the critical section no other one is, before or after
\* its step.
LEMMA AloneInside ==
    ASSUME Exclusive, TypeOK, NEW r \in Requests, Inside(r)
    PROVE  \A s \in Requests \ {r} : pc[s] \notin Critical /\ pc'[s] \notin Critical
<1>1. PICK q \in Critical : pc' = [pc EXCEPT ![r] = q]
  BY CriticalMoves
<1>2. pc[r] \in Critical
  BY CriticalMoves
<1> QED BY <1>1, <1>2 DEF Exclusive, TypeOK

\* Every action keeps RemoteInv, RestInv and EditInv.
LEMMA DataStep ==
    ASSUME Exclusive, DataInv, [Next]_vars
    PROVE  DataInv'
<1> DEFINE Goal == RemoteInv' /\ RestInv' /\ EditInv'
<1> SUFFICES Goal
  BY TypeStep DEF DataInv
<1> USE ConstantsAssumption
<1>0. TypeOK /\ RemoteInv /\ RestInv /\ EditInv
  BY DEF DataInv
<1>a. ASSUME cloneVars' = cloneVars, remote' = remote, remoteRev' = remoteRev,
             arg' = arg, buf' = buf,
             \A s \in Requests : \/ pc'[s] = pc[s]
                                 \/ pc'[s] \in {"lock", "sync", "release", "done"}
      PROVE  Goal
  <2>1. RemoteInv' /\ RestInv'
    BY <1>a, <1>0 DEF RemoteInv, RestInv, cloneVars
  <2>2. EditInv'
    BY <1>a, <1>0 DEF EditInv, cloneVars
  <2> QED BY <2>1, <2>2
<1>1. ASSUME NEW r \in Requests, Arrive(r) \/ Acquire(r) PROVE Goal
  <2>1. \A s \in Requests : pc'[s] = pc[s] \/ pc'[s] \in {"lock", "sync"}
    BY <1>1, <1>0 DEF Arrive, Acquire, Goto, TypeOK
  <2> QED BY <1>1, <2>1, <1>a DEF Arrive, Acquire
<1>2. ASSUME NEW r \in Requests,
             LockTimeout(r) \/ Release(r) \/ SyncFails(r) \/ CommitFails(r)
      PROVE  Goal
  BY <1>2, <1>0, <1>a DEF LockTimeout, Release, SyncFails, CommitFails, Goto, Leave, TypeOK
<1>3. ASSUME NEW r \in Requests, Clone(r) PROVE Goal
  <2>1. \A s \in Requests \ {r} : pc'[s] \notin Critical
    BY <1>3, <1>0, AloneInside DEF Inside
  <2>2. pc'[r] = "read"
    BY <1>3, <1>0 DEF Clone, Goto, TypeOK
  <2>3. EditInv'
    BY <1>3, <2>1, <2>2 DEF Clone, EditInv, Critical
  <2>4. RemoteInv' /\ RestInv'
    BY <1>3, <1>0 DEF Clone, RemoteInv, RestInv, TypeOK
  <2> QED BY <2>3, <2>4
<1>4. ASSUME NEW r \in Requests, Pull(r) PROVE Goal
  <2>1. \A s \in Requests \ {r} : pc'[s] \notin Critical
    BY <1>4, <1>0, AloneInside DEF Inside
  <2>2. pc'[r] = "read"
    BY <1>4, <1>0 DEF Pull, Goto, TypeOK
  <2>3. EditInv'
    BY <1>4, <2>1, <2>2 DEF Pull, EditInv, Critical
  <2>4. RemoteInv'
    BY <1>4, <1>0 DEF Pull, RemoteInv, TypeOK
  <2>5. RestInv'
    BY <1>4, <1>0, RebasedKeeps DEF Pull, RestInv
  <2> QED BY <2>3, <2>4, <2>5
<1>5. ASSUME NEW r \in Requests, PullConflict(r) PROVE Goal
  <2>1. RemoteInv' /\ RestInv'
    BY <1>5, <1>0 DEF PullConflict, RemoteInv, RestInv
  <2>2. EditInv'
    BY <1>5, <1>0 DEF PullConflict, Leave, EditInv, TypeOK
  <2> QED BY <2>1, <2>2
<1>6. ASSUME NEW r \in Requests, ReadZone(r) PROVE Goal
  <2>1. \A s \in Requests \ {r} : pc'[s] \notin Critical
    BY <1>6, <1>0, AloneInside DEF Inside
  <2>2. RemoteInv' /\ RestInv'
    BY <1>6, <1>0 DEF ReadZone, RemoteInv, RestInv, cloneVars
  <2>3. arg[r].name \in Names
    BY <1>0 DEF TypeOK, Body
  <2>4. CASE pc' = [pc EXCEPT ![r] = "release"]
    <3>1. pc'[r] = "release"
      BY <2>4, <1>0 DEF TypeOK
    <3>2. EditInv'
      BY <2>1, <3>1 DEF EditInv, Critical
    <3> QED BY <2>2, <3>2
  <2>5. CASE pc' = [pc EXCEPT ![r] = "write"] /\ ZoneOf[arg[r].name] # NoZone
             /\ buf' = [buf EXCEPT ![r] = tree[ZoneOf[arg[r].name]]]
    <3>0. pc[r] = "read"
      BY <1>6 DEF ReadZone
    <3>a. tree = head
      BY <1>0, <3>0 DEF EditInv
    <3>1. ZoneOf[arg[r].name] \in Zones
      BY <2>3, <2>5
    <3>2. pc'[r] = "write" /\ buf'[r] = tree[ZoneOf[arg[r].name]]
      BY <2>5, <1>0 DEF TypeOK
    <3>3. tree' = tree /\ head' = head /\ arg' = arg
      BY <1>6 DEF ReadZone, cloneVars
    <3>4. EditInv'
      BY <2>1, <3>a, <3>1, <3>2, <3>3 DEF EditInv, Critical
    <3> QED BY <2>2, <3>4
  <2> QED BY <1>6, <2>2, <2>4, <2>5 DEF ReadZone, Goto, Leave
<1>7. ASSUME NEW r \in Requests, WriteZone(r) PROVE Goal
  <2> DEFINE n == arg[r].name
             z == ZoneOf[n]
  <2>1. \A s \in Requests \ {r} : pc'[s] \notin Critical
    BY <1>7, <1>0, AloneInside DEF Inside
  <2>2. pc'[r] = "commit" /\ arg' = arg /\ head' = head
    BY <1>7, <1>0 DEF WriteZone, Goto, TypeOK
  <2>3. z \in Zones /\ tree = head /\ buf[r] = head[z] /\ head[z] \in File
    BY <1>7, <1>0 DEF WriteZone, EditInv, TypeOK, Content
  <2>4. tree' = [head EXCEPT ![z] = WithTxt(head[z], n, arg[r].val)]
    BY <1>7, <2>3 DEF WriteZone
  <2>5. /\ tree'[z].txt = [head[z].txt EXCEPT ![n] = arg[r].val]
        /\ tree'[z].rest = head[z].rest
        /\ \A y \in Zones \ {z} : tree'[y] = head[y]
    BY <2>3, <2>4, <1>0 DEF WithTxt, TypeOK, Content, File
  <2>6. EditInv'
    BY <2>1, <2>2, <2>3, <2>5 DEF EditInv, Critical
  <2>7. RemoteInv' /\ RestInv'
    BY <1>7, <1>0, <2>3, <2>5 DEF WriteZone, RemoteInv, RestInv
  <2> QED BY <2>6, <2>7
<1>7a. ASSUME NEW r \in Requests, WriteFails(r) PROVE Goal
  <2>1. \A s \in Requests \ {r} : pc'[s] \notin Critical
    BY <1>7a, <1>0, AloneInside DEF Inside
  <2>2. pc'[r] = "release"
    BY <1>7a, <1>0 DEF WriteFails, Leave, TypeOK
  <2>3. EditInv'
    BY <2>1, <2>2 DEF EditInv, Critical
  <2>4. RemoteInv' /\ RestInv'
    BY <1>7a, <1>0 DEF WriteFails, RemoteInv, RestInv
  <2> QED BY <2>3, <2>4
<1>8. ASSUME NEW r \in Requests, Commit(r) PROVE Goal
  <2>1. \A s \in Requests \ {r} : pc'[s] \notin Critical
    BY <1>8, <1>0, AloneInside DEF Inside
  <2>2. pc'[r] \in {"push", "release"}
    BY <1>8, <1>0 DEF Commit, Goto, Leave, TypeOK
  <2>3. EditInv'
    BY <2>1, <2>2 DEF EditInv, Critical
  <2>4. \A z \in Zones : tree[z].rest = head[z].rest
    BY <1>8, <1>0 DEF Commit, EditInv
  <2>5. head' \in {head, tree} /\ base' = base /\ baseRev' = baseRev
        /\ remote' = remote /\ remoteRev' = remoteRev
    BY <1>8 DEF Commit
  <2>6. RemoteInv' /\ RestInv'
    BY <2>4, <2>5, <1>0 DEF RemoteInv, RestInv
  <2> QED BY <2>3, <2>6
<1>9. ASSUME NEW r \in Requests, Push(r) \/ PushFails(r) PROVE Goal
  <2>1. \A s \in Requests \ {r} : pc'[s] \notin Critical
    BY <1>9, <1>0, AloneInside DEF Inside
  <2>2. pc'[r] = "release"
    BY <1>9, <1>0 DEF Push, PushFails, Leave, TypeOK
  <2>3. EditInv'
    BY <2>1, <2>2 DEF EditInv, Critical
  <2>4. RemoteInv' /\ RestInv'
    BY <1>9, <1>0 DEF Push, PushFails, Advance, FastForward, RemoteInv, RestInv, TypeOK
  <2> QED BY <2>3, <2>4
<1>10. ASSUME NEW z \in Zones, CiPush(z) PROVE Goal
  <2>1. PICK c \in BOOLEAN : remote' = [remote EXCEPT ![z] = Edited(@, c)]
    BY <1>10 DEF CiPush
  <2>2. \A y \in Zones : remote'[y].txt = remote[y].txt
    BY <2>1, <1>0 DEF Edited, TypeOK, Content
  <2>3. RemoteInv'
    BY <1>10, <1>0, <2>2 DEF CiPush, RemoteInv, cloneVars, TypeOK
  <2>4. RestInv' /\ EditInv'
    BY <1>10, <1>0 DEF CiPush, RestInv, EditInv, cloneVars, reqVars
  <2> QED BY <2>3, <2>4
<1>11. ASSUME NEW p \in Procs, Crash(p) PROVE Goal
  <2>1. \A s \in Requests : pc'[s] = pc[s] \/ pc'[s] = "done"
    BY <1>11 DEF Crash
  <2>2. RemoteInv' /\ RestInv'
    BY <1>11, <1>0 DEF Crash, RemoteInv, RestInv
  <2>3. EditInv'
    BY <1>11, <1>0, <2>1 DEF Crash, EditInv
  <2> QED BY <2>2, <2>3
<1>12. CASE UNCHANGED vars
  BY <1>12, <1>a DEF vars, reqVars
<1> QED
  BY <1>1, <1>2, <1>3, <1>4, <1>5, <1>6, <1>7, <1>7a, <1>8, <1>9, <1>10, <1>11, <1>12
     DEF Next, Local, Remote, AllDone

\* DataInv holds before the first request.
LEMMA DataInit == Init => DataInv
<1> SUFFICES ASSUME Init PROVE DataInv
  OBVIOUS
<1>1. TypeOK
  BY TypeInit
<1>2. RemoteInv /\ RestInv
  BY <1>1 DEF Init, RemoteInv, RestInv, TypeOK
<1>3. EditInv
  BY DEF Init, EditInv
<1> QED BY <1>1, <1>2, <1>3 DEF DataInv

\* A step takes nothing back of what CI/CD pushed.
LEMMA RestGrows ==
    ASSUME DataInv, Next
    PROVE  \A z \in Zones : remote'[z].rest >= remote[z].rest
<1> DEFINE Grows == \A z \in Zones : remote'[z].rest >= remote[z].rest
<1>0. \A z \in Zones : remote[z].rest \in Nat
  BY DEF DataInv, TypeOK, Content, File
<1>1. ASSUME remote' = remote PROVE Grows
  BY <1>0, <1>1
<1>2. ASSUME FastForward, Advance PROVE Grows
  BY <1>0, <1>2 DEF FastForward, Advance, DataInv, RemoteInv, RestInv
<1>3. ASSUME NEW r \in Requests, Push(r) \/ PushFails(r) PROVE Grows
  BY <1>1, <1>2, <1>3 DEF Push, PushFails
<1>4. ASSUME NEW y \in Zones, CiPush(y) PROVE Grows
  BY <1>0, <1>4 DEF CiPush, Edited, DataInv, TypeOK, Content
<1>5. ASSUME NEW r \in Requests,
             \/ Arrive(r) \/ Acquire(r) \/ LockTimeout(r) \/ Clone(r) \/ Pull(r)
             \/ PullConflict(r) \/ SyncFails(r) \/ ReadZone(r) \/ WriteZone(r)
             \/ WriteFails(r) \/ Commit(r) \/ CommitFails(r) \/ Release(r)
      PROVE  remote' = remote
  BY <1>5 DEF Arrive, Acquire, LockTimeout, Clone, Pull, PullConflict, SyncFails,
              ReadZone, WriteZone, WriteFails, Commit, CommitFails, Release
<1>6. ASSUME (\E p \in Procs : Crash(p)) \/ AllDone PROVE remote' = remote
  BY <1>6 DEF Crash, AllDone, vars
<1> QED BY <1>1, <1>3, <1>4, <1>5, <1>6 DEF Next, Local, Remote

\* No push of the service takes back what CI/CD pushed, although the clone lags
\* behind the remote and edits, commits and pushes fail at any point, unless two
\* requests have been inside the critical section together.
THEOREM ForeignEditsKept == Spec => ([]Exclusive => ForeignEditsPreserved)
<1>1. Init => DataInv
  BY DataInit
<1>2. Exclusive /\ DataInv /\ [Next]_vars => DataInv'
  BY DataStep
<1>3. DataInv /\ [Next]_vars => [\A z \in Zones : remote'[z].rest >= remote[z].rest]_vars
  BY RestGrows
<1> QED BY <1>1, <1>2, <1>3, PTL DEF Spec, ForeignEditsPreserved

(***************************************************************************)
(* The git backend implements ChallengeStore.                              *)
(***************************************************************************)

\* HEAD differs from the base in the records of zones with local commits only,
\* and nothing is committed before there is a clone.
CommitInv ==
    /\ \A z \in Zones \ unpushed : head[z].txt = base[z].txt
    /\ clone = "absent" =>
         /\ unpushed = {}
         /\ \A r \in Requests : pc[r] \notin {"read", "write", "commit", "push"}

StoreInv == DataInv /\ CommitInv

\* Every action keeps CommitInv.
LEMMA CommitStep ==
    ASSUME Exclusive, StoreInv, [Next]_vars
    PROVE  StoreInv'
<1> SUFFICES CommitInv'
  BY DataStep DEF StoreInv
<1> USE ConstantsAssumption
<1>0. TypeOK /\ RemoteInv /\ RestInv /\ CommitInv
  BY DEF StoreInv, DataInv
<1>1. ASSUME NEW r \in Requests,
             \/ Arrive(r) \/ Acquire(r) \/ LockTimeout(r) \/ PullConflict(r)
             \/ SyncFails(r) \/ CommitFails(r) \/ Release(r)
      PROVE  CommitInv'
  BY <1>1, <1>0 DEF Arrive, Acquire, LockTimeout, PullConflict, SyncFails, CommitFails,
                    Release, Goto, Leave, CommitInv, cloneVars, TypeOK
<1>2. ASSUME NEW r \in Requests, ReadZone(r) \/ WriteZone(r) \/ WriteFails(r)
      PROVE  CommitInv'
  BY <1>2, <1>0 DEF ReadZone, WriteZone, WriteFails, Goto, Leave, CommitInv, cloneVars, TypeOK
<1>3. ASSUME NEW r \in Requests, Clone(r) PROVE CommitInv'
  BY <1>3 DEF Clone, CommitInv
<1>4. ASSUME NEW r \in Requests, Pull(r) PROVE CommitInv'
  <2>1. \A z \in Zones \ unpushed : head'[z] = base'[z]
    BY <1>4 DEF Pull, Rebased
  <2> QED BY <1>4, <2>1 DEF Pull, CommitInv
<1>5. ASSUME NEW r \in Requests, Commit(r) PROVE CommitInv'
  BY <1>5, <1>0 DEF Commit, Goto, Leave, CommitInv, TypeOK
<1>6. ASSUME NEW r \in Requests, Push(r) \/ PushFails(r) PROVE CommitInv'
  BY <1>6, <1>0 DEF Push, PushFails, Advance, Leave, CommitInv, TypeOK
<1>7. ASSUME NEW z \in Zones, CiPush(z) PROVE CommitInv'
  BY <1>7, <1>0 DEF CiPush, CommitInv, cloneVars, reqVars
<1>8. ASSUME NEW p \in Procs, Crash(p) PROVE CommitInv'
  BY <1>8, <1>0 DEF Crash, CommitInv
<1>9. CASE UNCHANGED vars
  BY <1>9, <1>0 DEF CommitInv, vars, reqVars, cloneVars
<1> QED BY <1>1, <1>2, <1>3, <1>4, <1>5, <1>6, <1>7, <1>8, <1>9
           DEF Next, Local, Remote, AllDone

\* A clone or a rebase changes no record of the store.
LEMMA SyncKeepsStore ==
    ASSUME StoreInv, NEW r \in Requests, Clone(r) \/ Pull(r)
    PROVE  StoreOf(head') = StoreOf(head)
<1>1. ASSUME NEW z \in Zones PROVE head'[z].txt = head[z].txt
  <2>0. RemoteInv /\ CommitInv /\ TypeOK /\ RestInv
    BY DEF StoreInv, DataInv
  <2>1. CASE Clone(r)
    BY <2>0, <2>1 DEF Clone, CommitInv, RemoteInv
  <2>2. CASE Pull(r) /\ z \in unpushed
    BY <2>0, <2>2, RebasedKeeps DEF Pull
  <2>3. CASE Pull(r) /\ z \notin unpushed
    BY <2>0, <2>3 DEF Pull, Rebased, CommitInv, RemoteInv
  <2> QED BY <2>1, <2>2, <2>3
<1>2. ASSUME NEW n \in Names
      PROVE  StoreOf(head')[n] = StoreOf(head)[n]
  <2>1. ZoneOf[n] \in Zones \cup {NoZone}
    BY ConstantsAssumption
  <2> QED BY <1>1, <2>1 DEF StoreOf
<1> QED BY <1>2 DEF StoreOf

\* A commit changes the record of the request's own name, to the value it asked
\* for, and no other.
LEMMA CommitSetsRecord ==
    ASSUME StoreInv, NEW r \in Requests, Commit(r)
    PROVE  /\ StoreOf(head') = [StoreOf(head) EXCEPT ![arg[r].name] = arg[r].val]
           /\ tree = head => StoreOf(head)[arg[r].name] = arg[r].val
<1> DEFINE n == arg[r].name
           z == ZoneOf[n]
<1>0. n \in Names
  BY DEF StoreInv, DataInv, TypeOK, Body
<1>1. /\ z \in Zones /\ head[z].txt \in [Names -> Values \cup {NoTxt}]
      /\ tree[z].txt = [head[z].txt EXCEPT ![n] = arg[r].val]
      /\ \A y \in Zones \ {z} : tree[y] = head[y]
  BY DEF Commit, StoreInv, DataInv, EditInv, TypeOK, Content, File
<1>2. head' = tree
  BY DEF Commit
<1>3. ASSUME NEW m \in Names
      PROVE  StoreOf(head')[m] = IF m = n THEN arg[r].val ELSE StoreOf(head)[m]
  <2>1. ZoneOf[m] \in Zones \cup {NoZone} /\ NoZone \notin Zones
    BY ConstantsAssumption
  <2> QED BY <1>0, <1>1, <1>2, <2>1 DEF StoreOf
<1>4. StoreOf(head') = [StoreOf(head) EXCEPT ![n] = arg[r].val]
  BY <1>0, <1>3 DEF StoreOf
<1>5. tree = head => StoreOf(head)[n] = arg[r].val
  BY <1>0, <1>1, <1>2, ConstantsAssumption DEF StoreOf
<1> QED BY <1>4, <1>5

Stages == [r \in Requests |-> StageOf(pc[r])]

\* When one request moves, its stage is the only one that may change.
LEMMA StageMoves ==
    ASSUME TypeOK, NEW r \in Requests, NEW q, pc' = [pc EXCEPT ![r] = q]
    PROVE  /\ Stages' = [Stages EXCEPT ![r] = StageOf(q)]
           /\ pc'[r] = q
<1>1. pc'[r] = q /\ \A s \in Requests \ {r} : pc'[s] = pc[s]
  BY DEF TypeOK
<1>2. ASSUME NEW s \in Requests
      PROVE  Stages'[s] = IF s = r THEN StageOf(q) ELSE Stages[s]
  BY <1>1 DEF Stages
<1> QED BY <1>1, <1>2 DEF Stages

\* The steps of the service that are no step of the store.
LEMMA Stutters ==
    ASSUME TypeOK, NEW r \in Requests, NEW q, pc' = [pc EXCEPT ![r] = q],
           StageOf(pc'[r]) = StageOf(pc[r]), arg' = arg, res' = res,
           StoreOf(head') = StoreOf(head)
    PROVE  UNCHANGED Abstract!absVars
<1>1. Stages' = Stages
  BY StageMoves DEF Stages
<1> QED BY <1>1 DEF Abstract!absVars, Stages

\* A request that leaves with an answer answers in the store too.
LEMMA LeaveAnswers ==
    ASSUME TypeOK, NEW r \in Requests, NEW a, Leave(r, a), arg' = arg,
           StoreOf(head') = StoreOf(head)
    PROVE  Abstract!Answer(r, a)
<1>1. pc' = [pc EXCEPT ![r] = "release"] /\ res' = [res EXCEPT ![r] = a]
  BY DEF Leave
<1>2. Stages' = [Stages EXCEPT ![r] = StageOf("release")]
  BY <1>1, StageMoves
<1>3. StageOf("release") = "done"
  BY DEF StageOf
<1> QED BY <1>1, <1>2, <1>3 DEF Abstract!Answer, Stages

\* Every step of the service is a step of the store or leaves it alone.
LEMMA StepSimulated ==
    ASSUME StoreInv, [Next]_vars
    PROVE  [Abstract!Next]_(Abstract!absVars)
<1> DEFINE Goal == [Abstract!Next]_(Abstract!absVars)
<1> USE ConstantsAssumption
<1>0. TypeOK /\ EditInv
  BY DEF StoreInv, DataInv
<1>a. ASSUME NEW r \in Requests, pc[r] \in {"lock", "sync", "read", "write", "commit"}
      PROVE  StageOf(pc[r]) = "open" /\ Stages[r] = "open"
  BY <1>a DEF StageOf, Stages
<1>b. ASSUME head' = head PROVE StoreOf(head') = StoreOf(head)
  BY <1>b DEF StoreOf
<1>c. ASSUME NEW r \in Requests, Abstract!AnswerFailed(r) PROVE Goal
  BY <1>c DEF Abstract!Next
<1>1. ASSUME NEW r \in Requests, Arrive(r) PROVE Goal
  <2>1. pc' = [pc EXCEPT ![r] = "lock"] /\ pc[r] = "new" /\ head' = head
    BY <1>1 DEF Arrive, Goto, cloneVars
  <2>2. Stages' = [Stages EXCEPT ![r] = "open"] /\ Stages[r] = "new"
    <3>1. StageOf("lock") = "open" /\ StageOf("new") = "new"
      BY DEF StageOf
    <3>2. Stages' = [Stages EXCEPT ![r] = StageOf("lock")]
      BY <2>1, <1>0, StageMoves
    <3> QED BY <2>1, <3>1, <3>2 DEF Stages
  <2>3. Abstract!Open(r)
    BY <1>1, <2>1, <2>2, <1>b DEF Abstract!Open, Stages, Arrive, Goto
  <2> QED BY <2>3 DEF Abstract!Next
<1>2. ASSUME NEW r \in Requests, Acquire(r) PROVE Goal
  <2>1. pc' = [pc EXCEPT ![r] = "sync"] /\ pc[r] = "lock" /\ head' = head
    BY <1>2 DEF Acquire, Goto, cloneVars
  <2>2. StageOf(pc'[r]) = StageOf(pc[r])
    BY <2>1, <1>0, StageMoves DEF StageOf
  <2> QED BY <1>2, <1>0, <2>1, <2>2, <1>b, Stutters DEF Acquire, Goto
<1>3. ASSUME NEW r \in Requests, LockTimeout(r) PROVE Goal
  <2>1. pc' = [pc EXCEPT ![r] = "done"] /\ pc[r] = "lock" /\ head' = head
    BY <1>3 DEF LockTimeout, cloneVars
  <2>2. Stages' = [Stages EXCEPT ![r] = "done"] /\ Stages[r] = "open"
    BY <2>1, <1>0, StageMoves DEF StageOf, Stages
  <2>3. Abstract!Answer(r, "locked")
    BY <1>3, <2>1, <2>2, <1>b DEF Abstract!Answer, Stages, LockTimeout
  <2> QED BY <2>2, <2>3, <1>c DEF Abstract!AnswerFailed, Stages
<1>4. ASSUME NEW r \in Requests, Clone(r) \/ Pull(r) PROVE Goal
  <2>1. pc' = [pc EXCEPT ![r] = "read"] /\ pc[r] = "sync" /\ arg' = arg /\ res' = res
    BY <1>4 DEF Clone, Pull, Goto
  <2>2. StageOf(pc'[r]) = StageOf(pc[r])
    BY <2>1, <1>0, StageMoves DEF StageOf
  <2>3. StoreOf(head') = StoreOf(head)
    BY <1>4, SyncKeepsStore
  <2> QED BY <1>0, <2>1, <2>2, <2>3, Stutters
<1>5. ASSUME NEW r \in Requests, PullConflict(r) \/ SyncFails(r) PROVE Goal
  <2>1. Leave(r, "error") /\ pc[r] = "sync" /\ arg' = arg /\ head' = head
    BY <1>5 DEF PullConflict, SyncFails, cloneVars
  <2>2. Abstract!Answer(r, "error")
    BY <1>0, <2>1, <1>b, LeaveAnswers
  <2> QED BY <2>1, <2>2, <1>a, <1>c DEF Abstract!AnswerFailed, Stages
<1>6. ASSUME NEW r \in Requests, ReadZone(r) PROVE Goal
  <2>1. pc[r] = "read" /\ arg' = arg /\ head' = head /\ tree = head
    BY <1>6, <1>0 DEF ReadZone, EditInv, cloneVars
  <2>2. arg[r].name \in Names
    BY <1>0 DEF TypeOK, Body
  <2>3. CASE Leave(r, "error")
    <3>1. Abstract!Answer(r, "error")
      BY <1>0, <2>1, <2>3, <1>b, LeaveAnswers
    <3> QED BY <2>1, <3>1, <1>a, <1>c DEF Abstract!AnswerFailed, Stages
  <2>4. CASE Leave(r, "skipped") /\ arg[r].op = "cleanup"
             /\ StoreOf(head)[arg[r].name] = NoTxt
    <3>1. Abstract!Answer(r, "skipped")
      BY <1>0, <2>1, <2>4, <1>b, LeaveAnswers
    <3>2. Abstract!AnswerSkipped(r)
      BY <2>1, <2>4, <3>1, <1>a DEF Abstract!AnswerSkipped, Stages
    <3> QED BY <3>2 DEF Abstract!Next
  <2>5. CASE Goto(r, "write")
    <3>1. StageOf(pc'[r]) = StageOf(pc[r])
      BY <1>0, <2>1, <2>5, StageMoves DEF StageOf, Goto
    <3> QED BY <1>0, <2>1, <2>5, <3>1, <1>b, Stutters DEF Goto
  <2>6. arg[r].op \in {"auth", "cleanup"}
    BY <1>0 DEF TypeOK, Body
  <2> QED BY <1>6, <2>1, <2>2, <2>3, <2>4, <2>5, <2>6 DEF ReadZone, StoreOf
<1>7. ASSUME NEW r \in Requests, WriteZone(r) PROVE Goal
  <2>1. pc' = [pc EXCEPT ![r] = "commit"] /\ pc[r] = "write" /\ head' = head
    BY <1>7 DEF WriteZone, Goto
  <2>2. StageOf(pc'[r]) = StageOf(pc[r])
    BY <2>1, <1>0, StageMoves DEF StageOf
  <2> QED BY <1>7, <1>0, <2>1, <2>2, <1>b, Stutters DEF WriteZone, Goto
<1>7a. ASSUME NEW r \in Requests, WriteFails(r) \/ CommitFails(r) PROVE Goal
  <2>1. Leave(r, "error") /\ pc[r] \in {"write", "commit"} /\ arg' = arg /\ head' = head
    BY <1>7a DEF WriteFails, CommitFails, cloneVars
  <2>2. Abstract!Answer(r, "error")
    BY <1>0, <2>1, <1>b, LeaveAnswers
  <2> QED BY <2>1, <2>2, <1>a, <1>c DEF Abstract!AnswerFailed, Stages
<1>8. ASSUME NEW r \in Requests, Commit(r) PROVE Goal
  <2>1. pc[r] = "commit" /\ arg' = arg
    BY <1>8 DEF Commit
  <2>2. CASE tree = head /\ Leave(r, "ok") /\ head' = head
    <3>1. Abstract!Answer(r, "ok")
      BY <1>0, <2>1, <2>2, <1>b, LeaveAnswers
    <3>2. Abstract!AnswerOk(r)
      BY <1>8, <2>1, <2>2, <3>1, <1>a, CommitSetsRecord DEF Abstract!AnswerOk, Stages
    <3> QED BY <3>2 DEF Abstract!Next
  <2>3. CASE Goto(r, "push")
    <3>1. Stages' = [Stages EXCEPT ![r] = "took"] /\ Stages[r] = "open"
      BY <1>0, <1>a, <2>1, <2>3, StageMoves DEF StageOf, Goto
    <3>2. Abstract!TakeEffect(r)
      BY <1>8, <2>1, <2>3, <3>1, CommitSetsRecord DEF Abstract!TakeEffect, Stages, Goto
    <3> QED BY <3>2 DEF Abstract!Next
  <2> QED BY <1>8, <2>2, <2>3 DEF Commit
<1>9. ASSUME NEW r \in Requests, Push(r) \/ PushFails(r) PROVE Goal
  <2>1. pc[r] = "push" /\ arg' = arg /\ head' = head /\ (Leave(r, "ok") \/ Leave(r, "error"))
    BY <1>9 DEF Push, PushFails
  <2>2. Stages[r] = "took"
    BY <2>1 DEF StageOf, Stages
  <2>3. Abstract!Answer(r, "ok") \/ Abstract!Answer(r, "error")
    BY <1>0, <2>1, <1>b, LeaveAnswers
  <2>4. Abstract!AnswerOk(r) \/ Abstract!AnswerFailed(r)
    BY <2>2, <2>3 DEF Abstract!AnswerOk, Abstract!AnswerFailed, Stages
  <2> QED BY <2>4 DEF Abstract!Next
<1>10. ASSUME NEW r \in Requests, Release(r) PROVE Goal
  <2>1. pc' = [pc EXCEPT ![r] = "done"] /\ pc[r] = "release" /\ head' = head
    BY <1>10 DEF Release, Goto, cloneVars
  <2>2. StageOf(pc'[r]) = StageOf(pc[r])
    BY <2>1, <1>0, StageMoves DEF StageOf
  <2> QED BY <1>10, <1>0, <2>1, <2>2, <1>b, Stutters DEF Release, Goto
<1>11. ASSUME NEW z \in Zones, CiPush(z) PROVE Goal
  BY <1>11 DEF CiPush, reqVars, cloneVars, Abstract!absVars, StoreOf, StageOf
<1>12. ASSUME NEW p \in Procs, Crash(p) PROVE Goal
  <2> DEFINE cut == {r \in Requests : ProcOf[r] = p /\ pc[r] \in InFlight}
  <2>1. /\ cut # {}
        /\ pc' = [r \in Requests |-> IF r \in cut THEN "done" ELSE pc[r]]
        /\ res' = [r \in Requests |-> IF r \in cut THEN "lost" ELSE res[r]]
        /\ arg' = arg /\ head' = head
    BY <1>12 DEF Crash
  <2>2. \A r \in cut : Stages[r] # "new"
    BY DEF StageOf, Stages, InFlight, Critical
  <2>3. Stages' = [r \in Requests |-> IF r \in cut THEN "done" ELSE Stages[r]]
    <3>1. PICK R \in SUBSET Requests : R = cut
      OBVIOUS
    <3>2. \A r \in Requests : pc'[r] = IF r \in R THEN "done" ELSE pc[r]
      BY <2>1, <3>1
    <3>3. Stages' = [r \in Requests |-> IF r \in R THEN "done" ELSE Stages[r]]
      BY <3>2 DEF StageOf, Stages
    <3> QED BY <3>1, <3>3
  <2>4. Abstract!Lose(cut)
    BY <2>1, <2>2, <2>3, <1>b DEF Abstract!Lose, Stages
  <2>5. cut \in SUBSET Requests
    OBVIOUS
  <2> QED BY <2>4, <2>5 DEF Abstract!Next
<1>13. CASE UNCHANGED vars
  BY <1>13 DEF vars, reqVars, cloneVars, Abstract!absVars, StoreOf, StageOf
<1> QED
  BY <1>1, <1>2, <1>3, <1>4, <1>5, <1>6, <1>7, <1>7a, <1>8, <1>9, <1>10, <1>11, <1>12,
     <1>13 DEF Next, Local, Remote, AllDone

\* Auth and cleanup requests are atomic operations on one store of challenges,
\* whatever fails or crashes and whatever CI/CD pushes, unless two of them have
\* been inside the critical section together: each takes effect at most once
\* between arrival and answer, "ok" only if it did, and "skipped" only if there
\* was nothing to do.
THEOREM Refinement == Spec => ([]Exclusive => ImplementsStore)
<1>1. Init => StoreInv /\ Abstract!Init
  <2> SUFFICES ASSUME Init PROVE CommitInv /\ Abstract!Init
    BY DataInit DEF StoreInv
  <2>1. CommitInv
    BY DEF Init, CommitInv
  <2>2. StoreOf(head) = [n \in Names |-> NoTxt]
    BY ConstantsAssumption DEF Init, StoreOf
  <2>3. [r \in Requests |-> StageOf(pc[r])] = [r \in Requests |-> "new"]
    BY DEF Init, StageOf
  <2>4. arg \in [Requests -> Abstract!Body]
    BY DEF Init, Body, Abstract!Body
  <2> QED BY <2>1, <2>2, <2>3, <2>4 DEF Init, Abstract!Init
<1>2. Exclusive /\ StoreInv /\ [Next]_vars => StoreInv'
  BY CommitStep
<1>3. StoreInv /\ [Next]_vars => [Abstract!Next]_(Abstract!absVars)
  BY StepSimulated
<1> QED BY <1>1, <1>2, <1>3, PTL DEF Spec, ImplementsStore, Abstract!Spec

(***************************************************************************)
(* What an answer "ok" is worth.                                           *)
(***************************************************************************)
\* From its commit to the end of its answer, a request's record is in HEAD.
KeptOK(r) == pc[r] = "push" \/ (pc[r] = "release" /\ res[r] = "ok") =>
    ZoneOf[arg[r].name] \in Zones /\ head[ZoneOf[arg[r].name]].txt[arg[r].name] = arg[r].val

KeptInv == StoreInv /\ \A r \in Requests : KeptOK(r)

\* KeptInv is inductive: nobody else touches the clone between commit and answer.
LEMMA KeptStep ==
    ASSUME Exclusive, KeptInv, [Next]_vars
    PROVE  KeptInv'
<1>0. StoreInv /\ StoreInv' /\ TypeOK
  BY CommitStep DEF KeptInv, StoreInv, DataInv
<1>1. ASSUME NEW r \in Requests, Inside(r), KeptOK(r)' PROVE KeptInv'
  BY <1>0, <1>1, AloneInside DEF KeptInv, KeptOK, Critical
<1>2. ASSUME NEW r \in Requests, Arrive(r) \/ Acquire(r) \/ LockTimeout(r) \/ Release(r)
      PROVE  KeptInv'
  BY <1>0, <1>2 DEF Arrive, Acquire, LockTimeout, Release, Goto, cloneVars, KeptInv, KeptOK, TypeOK
<1>3. ASSUME NEW r \in Requests,
             \/ Clone(r) \/ Pull(r) \/ PullConflict(r) \/ SyncFails(r) \/ ReadZone(r)
             \/ WriteZone(r) \/ WriteFails(r) \/ CommitFails(r) \/ PushFails(r)
      PROVE  KeptOK(r)'
  BY <1>0, <1>3 DEF Clone, Pull, PullConflict, SyncFails, ReadZone, WriteZone,
                    WriteFails, CommitFails, PushFails, Goto, Leave, KeptOK, TypeOK
<1>4. ASSUME NEW r \in Requests, Commit(r) PROVE KeptOK(r)'
  <2> DEFINE n == arg[r].name
             z == ZoneOf[n]
  <2>1. z \in Zones /\ tree[z].txt = [head[z].txt EXCEPT ![n] = arg[r].val]
    BY <1>0, <1>4 DEF Commit, StoreInv, DataInv, EditInv
  <2>2. n \in Names /\ head[z].txt \in [Names -> Values \cup {NoTxt}]
    BY <1>0, <2>1 DEF TypeOK, Content, File, Body
  <2>3. head'[z].txt[n] = arg[r].val /\ arg' = arg
    BY <1>4, <2>1, <2>2 DEF Commit
  <2> QED BY <2>1, <2>3 DEF KeptOK
<1>5. ASSUME NEW r \in Requests, Push(r) PROVE KeptOK(r)'
  BY <1>5 DEF Push, KeptInv, KeptOK
<1>6. ASSUME NEW z \in Zones, CiPush(z) PROVE KeptInv'
  BY <1>0, <1>6 DEF CiPush, reqVars, cloneVars, KeptInv, KeptOK
<1>7. ASSUME NEW p \in Procs, Crash(p) PROVE KeptInv'
  BY <1>0, <1>7 DEF Crash, KeptInv, KeptOK
<1>8. CASE UNCHANGED vars
  BY <1>0, <1>8 DEF vars, reqVars, cloneVars, KeptInv, KeptOK
<1> QED BY <1>1, <1>2, <1>3, <1>4, <1>5, <1>6, <1>7, <1>8
           DEF Next, Local, Remote, AllDone, Inside

\* What KeptInv says of HEAD is true of the remote, but for local commits.
LEMMA KeptIsKept == ASSUME KeptInv PROVE OkIsKept
<1> SUFFICES ASSUME NEW r \in Requests, pc[r] = "release", res[r] = "ok"
             PROVE  LET n == arg[r].name
                        z == ZoneOf[n]
                    IN  \/ remote[z].txt[n] = arg[r].val
                        \/ head[z].txt[n] = arg[r].val /\ z \in unpushed
  BY DEF OkIsKept
<1> QED BY DEF KeptInv, KeptOK, StoreInv, CommitInv, DataInv, RemoteInv

\* KeptInv holds before the first request.
LEMMA KeptInit == Init => KeptInv
<1> SUFFICES ASSUME Init PROVE CommitInv /\ \A r \in Requests : KeptOK(r)
  BY DataInit DEF KeptInv, StoreInv
<1> QED BY DEF Init, CommitInv, KeptOK

\* A request answered "ok" has its record on the remote or in a local commit
\* that the next push takes along: no rejected push, no rebase and no other
\* request loses it before the answer, unless two requests have been inside the
\* critical section together.
THEOREM OkKept == Spec => ([]Exclusive => []OkIsKept)
<1>1. Init => KeptInv
  BY KeptInit
<1>2. Exclusive /\ KeptInv /\ [Next]_vars => KeptInv'
  BY KeptStep
<1>3. KeptInv => OkIsKept
  BY KeptIsKept
<1> QED BY <1>1, <1>2, <1>3, PTL DEF Spec

\* Nobody else pushes, the remote refuses nothing that is a fast-forward, no
\* connection is lost, no process dies and no hook or disk fails.
Undisturbed == MaxCi = 0 /\ Faults \subseteq {"parse"}

\* The clone is at the remote's revision, and what is not pushed yet belongs to
\* the request that is about to push.
QuietInv ==
    /\ baseRev = remoteRev /\ \A z \in Zones : remote[z].rest > 0
    /\ unpushed # {} => \E r \in Requests : pc[r] = "push"

\* In an undisturbed service every push is a fast-forward.
LEMMA QuietStep ==
    ASSUME Exclusive, Undisturbed, DataInv, QuietInv, [Next]_vars
    PROVE  QuietInv'
<1> USE DEF QuietInv
<1>0. TypeOK
  BY DEF DataInv
<1>a. (\A z \in Zones : remote[z].rest > 0) => (\A z \in Zones : remote'[z].rest > 0)
  <2>1. CASE Next
    <3>1. \A z \in Zones : remote'[z].rest >= remote[z].rest
      BY <2>1, RestGrows
    <3>2. \A z \in Zones : remote[z].rest \in Nat /\ remote'[z].rest \in Nat
      BY <1>0, TypeStep DEF TypeOK, Content, File
    <3> QED BY <3>1, <3>2
  <2>2. CASE UNCHANGED vars
    BY <2>2 DEF vars
  <2> QED BY <2>1, <2>2
<1>1. ASSUME NEW r \in Requests,
             \/ Arrive(r) \/ Acquire(r) \/ LockTimeout(r) \/ Release(r)
             \/ SyncFails(r) \/ ReadZone(r) \/ WriteZone(r) \/ PullConflict(r)
      PROVE  QuietInv'
  <2>1. baseRev' = baseRev /\ remoteRev' = remoteRev /\ unpushed' = unpushed
    BY <1>1 DEF Arrive, Acquire, LockTimeout, Release, SyncFails, ReadZone, WriteZone,
                PullConflict, cloneVars
  <2>2. pc[r] # "push" /\ \A s \in Requests \ {r} : pc'[s] = pc[s]
    BY <1>0, <1>1 DEF Arrive, Acquire, LockTimeout, Release, SyncFails, ReadZone, WriteZone,
                PullConflict, Goto, Leave, TypeOK
  <2> QED BY <1>a, <2>1, <2>2
<1>2. ASSUME NEW r \in Requests, Clone(r) \/ Pull(r) PROVE QuietInv'
  <2>1. \A s \in Requests : pc[s] # "push"
    BY <1>2 DEF Clone, Pull, Exclusive, Critical
  <2> QED BY <1>a, <1>2, <2>1 DEF Clone, Pull
<1>3. ASSUME NEW r \in Requests, Commit(r) PROVE QuietInv'
  <2>1. \A s \in Requests : pc[s] # "push"
    BY <1>3 DEF Commit, Exclusive, Critical
  <2>2. unpushed' = unpushed \/ pc'[r] = "push"
    BY <1>0, <1>3 DEF Commit, Goto, TypeOK
  <2> QED BY <1>a, <1>3, <2>1, <2>2 DEF Commit
<1>4. ASSUME NEW r \in Requests, Push(r) PROVE QuietInv'
  BY <1>a, <1>4 DEF Push, FastForward, Advance, Undisturbed
<1>5. ASSUME NEW r \in Requests, PushFails(r) \/ WriteFails(r) \/ CommitFails(r) PROVE FALSE
  BY <1>5 DEF PushFails, WriteFails, CommitFails, Undisturbed
<1>6. ASSUME NEW z \in Zones, CiPush(z) PROVE FALSE
  <2>1. remote[z].rest \in Nat
    BY <1>0 DEF TypeOK, Content, File
  <2> QED BY <1>6, <2>1 DEF CiPush, Undisturbed
<1>7. ASSUME NEW p \in Procs, Crash(p) PROVE FALSE
  BY <1>7 DEF Crash, Undisturbed
<1>8. CASE UNCHANGED vars
  BY <1>a, <1>8 DEF vars, reqVars, cloneVars
<1> QED BY <1>1, <1>2, <1>3, <1>4, <1>5, <1>6, <1>7, <1>8 DEF Next, Local, Remote, AllDone

\* Step 5 of acme_auth in an undisturbed service: any number of requests of any
\* number of processes, also with zone files that do not parse, answer "ok" only
\* when the record is on the remote, unless two of them have been inside the
\* critical section together.
THEOREM PublishedUndisturbed ==
    ASSUME Undisturbed
    PROVE  Spec => ([]Exclusive => []AuthOkIsPublished)
<1>1. Init => KeptInv /\ QuietInv
  BY KeptInit DEF Init, QuietInv
<1>2. Exclusive /\ (KeptInv /\ QuietInv) /\ [Next]_vars => (KeptInv /\ QuietInv)'
  BY KeptStep, QuietStep DEF KeptInv, StoreInv, DataInv
<1>3. Exclusive /\ KeptInv /\ QuietInv => AuthOkIsPublished
  <2> SUFFICES ASSUME Exclusive, KeptInv, QuietInv, NEW r \in Requests, pc[r] = "release", res[r] = "ok"
               PROVE  remote[ZoneOf[arg[r].name]].txt[arg[r].name] = arg[r].val
    BY DEF AuthOkIsPublished
  <2>1. \A s \in Requests : pc[s] # "push"
    BY DEF Exclusive, Critical
  <2>2. unpushed = {}
    BY <2>1 DEF QuietInv
  <2> QED BY <2>2, KeptIsKept DEF OkIsKept
<1> QED BY <1>1, <1>2, <1>3, PTL DEF Spec
==============================================================================
