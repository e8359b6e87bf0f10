----------------------------- MODULE Propagation -----------------------------
(***************************************************************************)
(* check_propagation, as POST /acme/wait-for-propagation and the end of    *)
(* POST /acme/auth run it: rounds of queries to every nameserver, a sleep  *)
(* between rounds, until a round finds the TXT record everywhere or the    *)
(* sleeps add up to the timeout. Meanwhile the nameservers change what     *)
(* they answer, and queries take time of their own.                        *)
(***************************************************************************)
EXTENDS Integers, Sequences, SequencesExt

CONSTANTS
    Nameservers, \* valid or not
    Requested,   \* the nameserver lists a request may carry (sequences)
    Configurations, \* the lists that dns.nameservers may be; also an empty one,
                    \* and Public, which stands in for a missing dns section
    Public,      \* the fallback of acme_auth, 8.8.8.8 and 1.1.1.1
    Valid,       \* the nameservers that validate_nameserver accepts
    Timeouts,    \* the timeouts a request or the configuration may give
    Intervals,   \* the poll intervals a request or the configuration may give
    QueryTime,   \* the longest a query takes (resolver.lifetime = 3)
    MaxClock     \* bound: the clock counts up to here

ASSUME PropagationAssumption ==
    /\ Timeouts \subseteq Nat /\ Intervals \subseteq Nat
    /\ QueryTime \in Nat /\ MaxClock \in Nat
    /\ Requested \subseteq Seq(Nameservers) /\ Configurations \subseteq Seq(Nameservers)
    /\ Public \in Seq(Nameservers) \ {<<>>}

\* The valid nameservers of the first i entries of a list.
ValidOf(list) ==
    LET kept[i \in 0..Len(list)] ==
            IF i = 0 THEN <<>>
            ELSE IF list[i] \in Valid THEN Append(kept[i - 1], list[i]) ELSE kept[i - 1]
    IN  kept

Validated(list) == ValidOf(list)[Len(list)]

\* Seeded fault: no fallback when no nameserver of the request is valid.
WaitServersUnchecked(req, default) == Validated(IF req = <<>> THEN default ELSE req)

\* acme_wait_for_propagation: the request's list or the configured one, without
\* the invalid ones; the configured list as it stands when none is left.
WaitServers(req, default) ==
    LET asked == Validated(IF req = <<>> THEN default ELSE req)
    IN  IF asked = <<>> THEN default ELSE asked

\* acme_auth with wait_for_propagation: the valid nameservers of the
\* configuration, or the public ones.
AuthServers(default) ==
    IF Validated(default) = <<>> THEN Public ELSE Validated(default)

VARIABLES
    pc,                         \* "head", "query", "sleep", "done" or "raised"
    configured,                 \* dns.nameservers
    nameservers, timeout, poll_interval,  \* arguments
    elapsed, matched, pending,  \* the function's own variables
    next,                       \* index of the next nameserver of the round
    visible,                    \* nameservers that now return the expected value
    clock,                      \* the time that really passed
    roundSeen                   \* history: who matched in this round

args == <<configured, nameservers, timeout, poll_interval>>
vars == <<pc, args, elapsed, matched, pending, next, visible, clock, roundSeen>>

Servers == Range(nameservers)

\* The clock after d more seconds.
Later(d) == IF clock + d > MaxClock THEN MaxClock ELSE clock + d

Init ==
    /\ pc = "head"
    /\ configured \in Configurations
    /\ nameservers \in {WaitServers(req, configured) : req \in Requested}
                          \cup {AuthServers(configured)}
    /\ timeout \in Timeouts /\ poll_interval \in Intervals
    /\ elapsed = 0 /\ matched = {} /\ pending = Servers
    /\ next = 1
    /\ visible = {} /\ clock = 0
    /\ roundSeen = {}

\* Seeded fault: matched and pending are not reset for the round.
RoundKeepsMatched ==
    /\ pc = "head" /\ elapsed < timeout
    /\ pc' = "query" /\ next' = 1 /\ pending' = {} /\ roundSeen' = {}
    /\ UNCHANGED <<args, elapsed, matched, visible, clock>>

\* while elapsed < timeout: a new round.
Round ==
    /\ pc = "head" /\ elapsed < timeout
    /\ pc' = "query" /\ next' = 1
    /\ matched' = {} /\ pending' = {} /\ roundSeen' = {}
    /\ UNCHANGED <<args, elapsed, visible, clock>>

\* The loop is over: whatever the last round found, elapsed = timeout.
Expired ==
    /\ pc = "head" /\ elapsed >= timeout
    /\ pc' = "done" /\ elapsed' = timeout
    /\ UNCHANGED <<args, matched, pending, next, visible, clock, roundSeen>>

\* Seeded fault: a nameserver that fails to answer is put in neither list.
QueryErrorIgnored ==
    /\ pc = "query" /\ next <= Len(nameservers)
    /\ \E d \in 0..QueryTime : clock' = Later(d)
    /\ LET ns == nameservers[next] IN
         \/ ns \in visible /\ matched' = matched \cup {ns} /\ roundSeen' = roundSeen \cup {ns}
         \/ ns \notin visible /\ UNCHANGED <<matched, roundSeen>>
    /\ next' = next + 1
    /\ UNCHANGED <<pc, args, elapsed, pending, visible>>

\* _check_single_ns for the next nameserver: an error or another value is
\* "pending".
Query ==
    /\ pc = "query" /\ next <= Len(nameservers)
    /\ \E d \in 0..QueryTime : clock' = Later(d)
    /\ LET ns == nameservers[next] IN
         \/ /\ ns \in visible /\ UNCHANGED pending
            /\ matched' = matched \cup {ns} /\ roundSeen' = roundSeen \cup {ns}
         \/ /\ ns \notin visible /\ pending' = pending \cup {ns}
            /\ UNCHANGED <<matched, roundSeen>>
    /\ next' = next + 1
    /\ UNCHANGED <<pc, args, elapsed, visible>>

\* The query raises what _check_single_ns does not catch, a TXT value that is no
\* UTF-8 or a configured entry that is no address: the call ends without report.
QueryRaises ==
    /\ pc = "query" /\ next <= Len(nameservers)
    /\ \E d \in 0..QueryTime : clock' = Later(d)
    /\ pc' = "raised"
    /\ UNCHANGED <<args, elapsed, matched, pending, next, visible, roundSeen>>

\* End of the round: return at once when nobody is pending.
RoundEnd ==
    /\ pc = "query" /\ next > Len(nameservers)
    /\ pc' = IF pending = {} THEN "done" ELSE "sleep"
    /\ UNCHANGED <<args, elapsed, matched, pending, next, visible,
                   clock, roundSeen>>

\* Seeded fault: elapsed is not advanced.
SleepUncounted ==
    /\ pc = "sleep"
    /\ clock' = Later(poll_interval)
    /\ pc' = "head"
    /\ UNCHANGED <<args, elapsed, matched, pending, next, visible, roundSeen>>

\* time.sleep(poll_interval); elapsed += poll_interval.
Sleep ==
    /\ pc = "sleep"
    /\ clock' = Later(poll_interval)
    /\ elapsed' = elapsed + poll_interval
    /\ pc' = "head"
    /\ UNCHANGED <<args, matched, pending, next, visible, roundSeen>>

\* A nameserver starts or stops returning the value: propagation, caches that
\* expire, anycast instances that disagree.
Flap(ns) ==
    /\ pc \notin {"done", "raised"}
    /\ visible' = IF ns \in visible THEN visible \ {ns} ELSE visible \cup {ns}
    /\ UNCHANGED <<pc, args, elapsed, matched, pending, next, clock, roundSeen>>

Returned == pc \in {"done", "raised"} /\ UNCHANGED vars

Loop == Round \/ Expired \/ Query \/ QueryRaises \/ RoundEnd \/ Sleep

Next == Loop \/ (\E ns \in Servers : Flap(ns)) \/ Returned

Spec == Init /\ [][Next]_vars

\* The thread that serves the request keeps running.
FairSpec == Spec /\ WF_vars(Loop)

(***************************************************************************)
(* Properties.                                                             *)
(***************************************************************************)
\* The endpoint's status.
Propagated == pc = "done" /\ pending = {}

\* "propagated" means that one round found the value on every nameserver, not
\* that each of them had it at some time.
PropagatedInOneRound == Propagated => roundSeen = Servers

\* "propagated" is the answer of a call that found the value nowhere in one case
\* only: the configuration lists no nameserver. No request brings it about.
SomebodyAsked == Propagated /\ roundSeen = {} => configured = <<>>

\* Every nameserver is reported, and as matched or as pending, not as both: only
\* one that is listed twice may change its answer in between.
ReportComplete ==
    pc = "done" => /\ matched \cup pending = Servers
                   /\ IsInjective(nameservers) => matched \cap pending = {}

\* The call ends when it sleeps at all; a poll_interval of 0 may go on for ever.
Returns == poll_interval > 0 ~> pc \in {"done", "raised"}

\* Only sleeps are counted, so a call may outlive its timeout; but it never holds
\* its thread for longer than the rounds that fit into the timeout can take.
HeldAtMost ==
    LET rounds == (timeout + poll_interval - 1) \div poll_interval
    IN  poll_interval > 0 =>
            clock <= rounds * (poll_interval + QueryTime * Len(nameservers))
==============================================================================
