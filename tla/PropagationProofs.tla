--------------------------- MODULE PropagationProofs -------------------------
(***************************************************************************)
(* Theorems about Propagation for any nameservers, timeouts, intervals and *)
(* durations of queries.                                                   *)
(***************************************************************************)
EXTENDS Propagation, FiniteSetTheorems, TLAPS

(***************************************************************************)
(* The lists of nameservers. ValidOf is a recursive function: that it is   *)
(* one, and what it returns, is proved by way of a least counterexample.   *)
(***************************************************************************)
\* A set of naturals has a least element.
LEMMA NatMin ==
    ASSUME NEW T \in SUBSET Nat, T # {}
    PROVE  \E m \in T : \A k \in T : m <= k
<1> SUFFICES ASSUME \A m \in T : \E k \in T : k < m PROVE FALSE
  OBVIOUS
<1>1. PICK n \in T : TRUE
  OBVIOUS
<1> DEFINE U == {x \in 0..n : \E t \in T : t <= x}
           f == [x \in U |-> x - 1]
<1>2. n \in U /\ IsFiniteSet(U)
  <2>1. IsFiniteSet(0..n)
    BY <1>1, FS_Interval
  <2> QED BY <1>1, <2>1, FS_Subset
<1>3. ASSUME NEW x \in U PROVE x - 1 \in U \ {n}
  <2>1. PICK t \in T, k \in T : t <= x /\ k < t
    OBVIOUS
  <2> QED BY <1>1, <2>1
<1> HIDE DEF U
<1>4. IsFiniteSet(U \ {n}) /\ Cardinality(U \ {n}) = Cardinality(U) - 1
  BY <1>2, FS_RemoveElement
<1>5. Cardinality(U) \in Nat
  BY <1>2, FS_CardinalityType
<1>6. f \in [U -> U \ {n}]
  BY <1>3
<1>7. \A x, y \in U : f[x] = f[y] => x = y
  <2>1. U \subseteq Int
    BY DEF U
  <2> QED BY <2>1
<1>8. Cardinality(U \ {n}) < Cardinality(U)
  BY <1>4, <1>5
<1> HIDE DEF f
<1>9. \E x, y \in U : x # y /\ f[x] = f[y]
  BY <1>2, <1>4, <1>6, <1>8, FS_PigeonHole
<1> QED BY <1>7, <1>9

\* ValidOf satisfies its recursive definition.
LEMMA ValidOfDef ==
    ASSUME NEW list \in Seq(Nameservers)
    PROVE  ValidOf(list) = [i \in 0..Len(list) |->
              IF i = 0 THEN <<>>
              ELSE IF list[i] \in Valid THEN Append(ValidOf(list)[i - 1], list[i])
                   ELSE ValidOf(list)[i - 1]]
<1> DEFINE Body(g, i) == IF i = 0 THEN <<>>
              ELSE IF list[i] \in Valid THEN Append(g[i - 1], list[i]) ELSE g[i - 1]
           n == Len(list)
           Exists(m) == \E g : g = [i \in 0..m |-> Body(g, i)]
           Bad == {m \in 0..n : ~Exists(m)}
<1>1. Exists(0)
  <2> DEFINE g == [i \in 0..0 |-> <<>>]
  <2>1. g = [i \in 0..0 |-> Body(g, i)]
    OBVIOUS
  <2> QED BY <2>1
<1>2. ASSUME NEW m \in 0..n, Exists(m) PROVE Exists(m + 1)
  <2>1. PICK g : g = [i \in 0..m |-> Body(g, i)]
    BY <1>2
  <2> DEFINE h == [i \in 0..(m + 1) |-> IF i = m + 1 THEN Body(g, i) ELSE g[i]]
  <2>2. ASSUME NEW i \in 0..(m + 1) PROVE h[i] = Body(h, i)
    <3>1. CASE i = 0
      BY <2>1, <3>1
    <3>2. CASE i # 0 /\ i \in 0..m
      <4>1. i - 1 \in 0..m /\ h[i - 1] = g[i - 1] /\ h[i] = g[i]
        BY <3>2
      <4>2. g[i] = Body(g, i)
        BY <2>1, <3>2
      <4> QED BY <3>2, <4>1, <4>2
    <3>3. CASE i = m + 1
      <4>1. i - 1 \in 0..m /\ h[i - 1] = g[i - 1] /\ h[i] = Body(g, i)
        BY <3>3
      <4> QED BY <3>3, <4>1
    <3> QED BY <3>1, <3>2, <3>3
  <2>3. h = [i \in 0..(m + 1) |-> Body(h, i)]
    BY <2>2
  <2> QED BY <2>3
<1>3. n \in Nat
  OBVIOUS
<1>4. Bad = {}
  <2> HIDE DEF Exists
  <2>1. SUFFICES ASSUME Bad # {} PROVE FALSE
    OBVIOUS
  <2>2. Bad \in SUBSET Nat
    BY <1>3
  <2>3. PICK m \in Bad : \A k \in Bad : m <= k
    <3> HIDE DEF Bad
    <3> QED BY <2>1, <2>2, NatMin
  <2>4. m \in 0..n /\ m # 0 /\ ~Exists(m)
    BY <1>1, <2>3
  <2>5. m - 1 \in 0..n /\ m - 1 \notin Bad
    BY <1>3, <2>3, <2>4
  <2>6. Exists(m - 1)
    BY <2>5
  <2>7. Exists((m - 1) + 1)
    BY <1>2, <2>5, <2>6
  <2>8. (m - 1) + 1 = m
    BY <2>4
  <2> QED BY <2>4, <2>7, <2>8
<1>5. Exists(n)
  <2> HIDE DEF Exists
  <2> QED BY <1>3, <1>4
<1>6. ValidOf(list) = CHOOSE g : g = [i \in 0..n |-> Body(g, i)]
  BY DEF ValidOf
<1> QED BY <1>5, <1>6

LEMMA RangeAppend ==
    ASSUME NEW S, NEW seq \in Seq(S), NEW e \in S
    PROVE  Range(Append(seq, e)) = Range(seq) \cup {e}
<1> DEFINE n == Len(seq)
           new == Append(seq, e)
<1>1. /\ n \in Nat /\ DOMAIN seq = 1..n /\ DOMAIN new = 1..(n + 1)
      /\ new[n + 1] = e /\ \A i \in 1..n : new[i] = seq[i]
  OBVIOUS
<1> HIDE DEF n, new
<1>2. 1..(n + 1) = 1..n \cup {n + 1}
  BY <1>1
<1>3. Range(new) = Range(seq) \cup {e}
  BY <1>1, <1>2 DEF Range
<1> QED BY <1>3 DEF new

\* Validated returns a list of nameservers: the valid ones among those it is given.
THEOREM ValidatedRange ==
    ASSUME NEW list \in Seq(Nameservers)
    PROVE  /\ Validated(list) \in Seq(Nameservers)
           /\ Range(Validated(list)) = Range(list) \cap Valid
<1> DEFINE n == Len(list)
           seq(i) == ValidOf(list)[i]
           Good(i) == /\ seq(i) \in Seq(Nameservers)
                      /\ Range(seq(i)) = {list[k] : k \in 1..i} \cap Valid
           Bad == {i \in 0..n : ~Good(i)}
<1>1. n \in Nat /\ Bad \in SUBSET Nat
  OBVIOUS
<1>2. ASSUME NEW i \in 0..n
      PROVE  seq(i) = IF i = 0 THEN <<>>
                      ELSE IF list[i] \in Valid THEN Append(seq(i - 1), list[i]) ELSE seq(i - 1)
  BY ValidOfDef
<1> HIDE DEF seq
<1>3. Good(0)
  <2>1. seq(0) = <<>>
    BY <1>1, <1>2
  <2>2. Range(<<>>) = {} /\ <<>> \in Seq(Nameservers)
    BY DEF Range
  <2>3. {list[k] : k \in 1..0} = {}
    OBVIOUS
  <2> QED BY <2>1, <2>2, <2>3
<1>4. ASSUME NEW i \in 1..n, Good(i - 1) PROVE Good(i)
  <2>1. list[i] \in Nameservers
    BY <1>1
  <2>2. {list[k] : k \in 1..i} = {list[k] : k \in 1..(i - 1)} \cup {list[i]}
    BY <1>1
  <2>3. CASE list[i] \in Valid
    <3>1. seq(i) = Append(seq(i - 1), list[i])
      BY <1>2, <2>3
    <3>2. seq(i) \in Seq(Nameservers)
      BY <1>4, <2>1, <3>1
    <3>3. Range(seq(i)) = Range(seq(i - 1)) \cup {list[i]}
      BY <1>4, <2>1, <3>1, RangeAppend
    <3> QED BY <1>4, <2>2, <2>3, <3>2, <3>3
  <2>4. CASE list[i] \notin Valid
    <3>1. seq(i) = seq(i - 1)
      BY <1>2, <2>4
    <3> QED BY <1>4, <2>2, <2>4, <3>1
  <2> QED BY <2>3, <2>4
<1>5. Bad = {}
  <2>1. SUFFICES ASSUME Bad # {} PROVE FALSE
    OBVIOUS
  <2> HIDE DEF Good
  <2>2. PICK i \in Bad : \A k \in Bad : i <= k
    <3> HIDE DEF Bad
    <3> QED BY <1>1, <2>1, NatMin
  <2>3. i \in 1..n /\ ~Good(i)
    BY <1>1, <1>3, <2>2
  <2>4. Good(i - 1)
    BY <1>1, <2>2, <2>3
  <2> QED BY <1>4, <2>3, <2>4
<1>6. Good(n)
  <2> HIDE DEF Good
  <2> QED BY <1>1, <1>5
<1>7. Range(list) = {list[k] : k \in 1..n}
  BY DEF Range
<1> QED BY <1>6, <1>7 DEF Validated, seq

(***************************************************************************)
(* What a round has asked and seen.                                        *)
(***************************************************************************)
\* The nameserver lists that a call may start with.
Lists(default) == {WaitServers(req, default) : req \in Requested} \cup {AuthServers(default)}

\* The nameservers that the round has asked.
Asked == {nameservers[i] : i \in 1..(next - 1)}

\* Every nameserver of a set is in one of the two lists, and in one only if no
\* nameserver occurs twice.
Reported(set) ==
    /\ matched \cup pending = set /\ matched = roundSeen
    /\ IsInjective(nameservers) => matched \cap pending = {}

RoundInv ==
    /\ Len(nameservers) \in Nat /\ DOMAIN nameservers = 1..Len(nameservers)
    /\ Len(nameservers) = 0 => configured = <<>>
    /\ pc \in {"head", "query", "sleep", "done", "raised"}
    /\ next \in 1..(Len(nameservers) + 1)
    /\ pc = "query" => Reported(Asked)
    /\ pc \in {"head", "sleep", "done"} => Reported(Servers)

\* Only where the configuration lists no nameserver does a call start with an
\* empty list: what a request says, or what is invalid, falls back to it.
LEMMA ListsNonEmpty ==
    ASSUME NEW default \in Configurations
    PROVE  \A list \in Lists(default) :
              list \in Seq(Nameservers) /\ (list = <<>> => default = <<>>)
<1>1. /\ default \in Seq(Nameservers)
      /\ Public \in Seq(Nameservers) /\ Public # <<>>
  BY PropagationAssumption
<1>2. ASSUME NEW req \in Requested
      PROVE  /\ WaitServers(req, default) \in Seq(Nameservers)
             /\ WaitServers(req, default) = <<>> => default = <<>>
  <2>1. req \in Seq(Nameservers)
    BY PropagationAssumption
  <2> QED BY <1>1, <2>1, ValidatedRange DEF WaitServers
<1>3. AuthServers(default) \in Seq(Nameservers) /\ AuthServers(default) # <<>>
  BY <1>1, ValidatedRange DEF AuthServers
<1> QED BY <1>2, <1>3 DEF Lists

LEMMA RoundInit == Init => RoundInv
<1> SUFFICES ASSUME Init PROVE RoundInv
  OBVIOUS
<1>1. nameservers \in Seq(Nameservers) /\ (nameservers = <<>> => configured = <<>>)
  BY ListsNonEmpty DEF Init, Lists
<1>2. /\ Len(nameservers) \in Nat /\ DOMAIN nameservers = 1..Len(nameservers)
      /\ Len(nameservers) = 0 => nameservers = <<>>
  BY <1>1
<1> QED BY <1>1, <1>2 DEF Init, RoundInv, Reported

\* RoundInv is inductive.
LEMMA RoundStep ==
    ASSUME RoundInv, [Next]_vars
    PROVE  RoundInv'
<1>1. CASE Round
  <2>1. Asked' = {}
    BY <1>1 DEF Round, Asked
  <2> QED BY <1>1, <2>1 DEF Round, RoundInv, Reported, args
<1>2. CASE Query
  <2> DEFINE ns == nameservers[next]
  <2>1. Asked' = Asked \cup {ns} /\ next \in DOMAIN nameservers
    BY <1>2 DEF Query, Asked, RoundInv, args
  <2>2. IsInjective(nameservers) => ns \notin Asked
    BY <2>1 DEF Asked, IsInjective, RoundInv
  <2>3. /\ Reported(Asked) /\ pc = "query" /\ pc' = pc
        /\ nameservers' = nameservers /\ configured' = configured
    BY <1>2 DEF Query, RoundInv, args
  <2>4. \/ UNCHANGED pending /\ matched' = matched \cup {ns} /\ roundSeen' = roundSeen \cup {ns}
        \/ pending' = pending \cup {ns} /\ UNCHANGED <<matched, roundSeen>>
    BY <1>2 DEF Query
  <2>5. Reported(Asked)'
    BY <2>1, <2>2, <2>3, <2>4 DEF Reported
  <2>6. next' \in 1..(Len(nameservers) + 1)
    BY <1>2 DEF Query, RoundInv
  <2> QED BY <2>3, <2>5, <2>6 DEF RoundInv
<1>3. CASE RoundEnd
  <2>1. Asked = Servers
    BY <1>3 DEF RoundEnd, Asked, Servers, Range, RoundInv
  <2> QED BY <1>3, <2>1 DEF RoundEnd, RoundInv, Reported, Servers, args
<1>4. CASE Expired \/ Sleep \/ QueryRaises
  BY <1>4 DEF Expired, Sleep, QueryRaises, RoundInv, Reported, Servers, args
<1>5. CASE (\E ns \in Servers : Flap(ns)) \/ UNCHANGED vars
  BY <1>5 DEF Flap, vars, RoundInv, Reported, Asked, Servers, args
<1> QED BY <1>1, <1>2, <1>3, <1>4, <1>5 DEF Next, Loop, Returned

\* "propagated" means that every nameserver returned the value in one and the
\* same round, however their answers changed before and during it.
THEOREM OneRound == Spec => []PropagatedInOneRound
<1>1. RoundInv => PropagatedInOneRound
  BY DEF RoundInv, Reported, PropagatedInOneRound, Propagated
<1> QED BY <1>1, RoundInit, RoundStep, PTL DEF Spec

\* A call that found the value nowhere answers "propagated" in one case only:
\* the configuration lists no nameserver. No nameservers of a request, valid or
\* not, empty the list, and acme_auth asks the public ones even then.
THEOREM NotVacuous == Spec => []SomebodyAsked
<1>1. RoundInv => SomebodyAsked
  <2> SUFFICES ASSUME RoundInv, Propagated, roundSeen = {} PROVE configured = <<>>
    BY DEF SomebodyAsked
  <2>1. Servers = {}
    BY DEF RoundInv, Reported, Propagated
  <2>2. Len(nameservers) = 0
    <3>1. ASSUME Len(nameservers) # 0 PROVE nameservers[1] \in Servers
      BY <3>1 DEF RoundInv, Servers, Range
    <3> QED BY <2>1, <3>1
  <2> QED BY <2>2 DEF RoundInv
<1> QED BY <1>1, RoundInit, RoundStep, PTL DEF Spec

\* The answer accounts for every nameserver of the call, and for one that is
\* listed once in one way only.
THEOREM AllReported == Spec => []ReportComplete
<1>1. RoundInv => ReportComplete
  BY DEF RoundInv, Reported, ReportComplete
<1> QED BY <1>1, RoundInit, RoundStep, PTL DEF Spec

(***************************************************************************)
(* How long a call may hold its thread.                                    *)
(***************************************************************************)
\* What a round may take, and the rounds that fit into the timeout.
RoundTime == poll_interval + QueryTime * Len(nameservers)
Rounds == (timeout + poll_interval - 1) \div poll_interval

\* After k whole rounds: elapsed counts the k sleeps, and the clock is at most k
\* rounds ahead, plus what the round under way has taken.
HeldAfter(k) ==
    /\ pc \in {"head", "query", "sleep"} => elapsed = k * poll_interval
    /\ pc = "head" => k <= Rounds /\ clock <= k * RoundTime
    /\ pc = "query" => /\ k + 1 <= Rounds
                       /\ clock <= k * RoundTime + QueryTime * (next - 1)
    /\ pc = "sleep" => /\ k + 1 <= Rounds
                       /\ clock <= k * RoundTime + QueryTime * Len(nameservers)
    /\ pc \in {"done", "raised"} => clock <= Rounds * RoundTime

HeldInv ==
    /\ timeout \in Nat /\ poll_interval \in Nat /\ clock \in Nat /\ elapsed \in Nat
    /\ poll_interval > 0 => \E k \in Nat : HeldAfter(k)

\* Products of naturals: the facts that the solvers need spelt out.
LEMMA NextProduct ==
    ASSUME NEW k \in Int, NEW c \in Int
    PROVE  (k + 1) * c = k * c + c /\ k * c \in Int
OBVIOUS

LEMMA ProductIsNat ==
    ASSUME NEW k \in Nat, NEW c \in Nat
    PROVE  k * c \in Nat
OBVIOUS

LEMMA ProductGrows ==
    ASSUME NEW j \in Nat, NEW k \in Nat, NEW c \in Nat, j <= k
    PROVE  j * c <= k * c
<1>1. (k - j) * c \in Nat
  BY ProductIsNat
<1>2. k * c = j * c + (k - j) * c
  OBVIOUS
<1> QED BY <1>1, <1>2, ProductIsNat

\* A round that may start is one of those that fit into the timeout.
LEMMA RoundFits ==
    ASSUME NEW k \in Nat, NEW p \in Nat, p > 0, NEW t \in Nat, k * p < t
    PROVE  k + 1 <= (t + p - 1) \div p
<1> DEFINE q == (t + p - 1) \div p
<1>1. q \in Int /\ t + p - 1 < (q + 1) * p
  OBVIOUS
<1>2. (k + 1) * p <= t + p - 1
  BY NextProduct
<1>3. SUFFICES ASSUME q <= k PROVE FALSE
  BY <1>1
<1>4. q >= 0
  BY <1>1
<1>5. (q + 1) * p <= (k + 1) * p
  BY <1>1, <1>3, <1>4, ProductGrows
<1> QED BY <1>1, <1>2, <1>5, ProductIsNat


\* The clock stops at its bound, and goes on by no more than the call takes.
LEMMA LaterBound ==
    ASSUME clock \in Nat, NEW d \in Nat
    PROVE  Later(d) \in Nat /\ Later(d) <= clock + d
BY PropagationAssumption DEF Later

\* HeldInv is inductive.
LEMMA HeldStep ==
    ASSUME RoundInv, HeldInv, [Next]_vars
    PROVE  HeldInv'
<1> DEFINE q == QueryTime
           n == Len(nameservers)
<1>1. q \in Nat /\ n \in Nat /\ RoundTime \in Nat /\ args' = args
  <2>1. args' = args
    BY DEF Next, Loop, Round, Expired, Query, QueryRaises, RoundEnd, Sleep,
           Flap, Returned, vars
  <2>2. QueryTime \in Nat /\ Len(nameservers) \in Nat
    BY PropagationAssumption DEF RoundInv
  <2> QED BY <2>1, <2>2, ProductIsNat DEF HeldInv, RoundTime
<1>2. timeout' = timeout /\ poll_interval' = poll_interval /\ nameservers' = nameservers
  BY <1>1 DEF args
<1>3. Rounds' = Rounds /\ RoundTime' = RoundTime
  BY <1>2 DEF Rounds, RoundTime
<1>4. timeout' \in Nat /\ poll_interval' \in Nat /\ clock' \in Nat /\ elapsed' \in Nat
  <2>1. /\ clock' = clock \/ (\E d \in Nat : clock' = Later(d))
        /\ elapsed' \in {elapsed, timeout, elapsed + poll_interval}
    BY <1>1 DEF Next, Loop, Round, Expired, Query, QueryRaises, RoundEnd, Sleep,
           Flap, Returned, vars, HeldInv
  <2>2. clock' \in Nat
    BY <2>1, LaterBound DEF HeldInv
  <2> QED BY <1>2, <2>1, <2>2 DEF HeldInv
<1>5. ASSUME poll_interval > 0 PROVE \E k \in Nat : HeldAfter(k)'
  <2>1. PICK k \in Nat : HeldAfter(k)
    BY <1>5 DEF HeldInv
  <2>2. /\ k * poll_interval \in Nat /\ k * RoundTime \in Nat
        /\ (k + 1) * poll_interval = k * poll_interval + poll_interval
        /\ (k + 1) * RoundTime = k * RoundTime + RoundTime
    BY <1>1, ProductIsNat, NextProduct DEF HeldInv
  <2>3. Rounds \in Int
    BY <1>5 DEF Rounds, HeldInv
  <2>4. ASSUME NEW m \in Nat, m <= Rounds PROVE m * RoundTime <= Rounds * RoundTime
    BY <1>1, <2>3, <2>4, ProductGrows
  <2>5. CASE Round
    <3>1. k + 1 <= Rounds
      BY <1>5, <2>1, <2>5, RoundFits DEF Round, HeldAfter, HeldInv, Rounds
    <3>2. QueryTime * (1 - 1) = 0
      BY <1>1
    <3>3. HeldAfter(k)'
      BY <1>1, <1>2, <1>3, <2>1, <2>2, <2>5, <3>1, <3>2 DEF Round, HeldAfter, HeldInv
    <3> QED BY <3>3
  <2>6. CASE Query
    <3>1. PICK d \in 0..QueryTime : clock' = Later(d)
      BY <2>6 DEF Query
    <3>2. clock' <= clock + QueryTime
      BY <1>1, <3>1, LaterBound DEF HeldInv
    <3>3. next \in Nat /\ next' = next + 1
      BY <2>6 DEF Query, RoundInv
    <3>4. QueryTime * (next' - 1) = QueryTime * (next - 1) + QueryTime
      BY <1>1, <3>3
    <3>5. QueryTime * (next - 1) \in Int
      BY <1>1, <3>3
    <3>6. k + 1 <= Rounds /\ clock <= k * RoundTime + QueryTime * (next - 1)
      BY <2>1, <2>6 DEF Query, HeldAfter
    <3>7. clock' <= k * RoundTime + QueryTime * (next' - 1)
      BY <1>1, <1>4, <2>2, <3>2, <3>4, <3>5, <3>6 DEF HeldInv
    <3>8. pc' = "query" /\ elapsed' = k * poll_interval'
      BY <1>2, <2>1, <2>6 DEF Query, HeldAfter
    <3>9. HeldAfter(k)'
      BY <1>3, <3>6, <3>7, <3>8 DEF HeldAfter
    <3> QED BY <3>9
  <2>6a. CASE QueryRaises
    <3>1. PICK d \in 0..QueryTime : clock' = Later(d)
      BY <2>6a DEF QueryRaises
    <3>2. clock' <= clock + QueryTime
      BY <1>1, <3>1, LaterBound DEF HeldInv
    <3>3. next \in Nat /\ next <= Len(nameservers)
      BY <2>6a DEF QueryRaises, RoundInv
    <3>4. k + 1 <= Rounds /\ clock <= k * RoundTime + QueryTime * (next - 1)
      BY <2>1, <2>6a DEF QueryRaises, HeldAfter
    <3>5. /\ QueryTime * (next - 1) + QueryTime = next * QueryTime
          /\ QueryTime * Len(nameservers) = Len(nameservers) * QueryTime
          /\ QueryTime * (next - 1) \in Int /\ Len(nameservers) * QueryTime \in Int
      BY <1>1, <3>3
    <3>6. next * QueryTime <= Len(nameservers) * QueryTime
      BY <1>1, <3>3, ProductGrows
    <3>6a. Len(nameservers) * QueryTime <= RoundTime
      BY <1>1, <3>5 DEF RoundTime, HeldInv
    <3>6b. QueryTime * (next - 1) + QueryTime <= RoundTime
      BY <1>1, <3>5, <3>6, <3>6a
    <3>7. clock' <= (k + 1) * RoundTime
      BY <1>1, <1>4, <2>2, <3>2, <3>4, <3>5, <3>6b DEF HeldInv
    <3>8. (k + 1) * RoundTime <= Rounds * RoundTime
      BY <2>4, <3>4
    <3>9. clock' <= Rounds * RoundTime
      BY <1>1, <1>4, <2>2, <2>3, <3>7, <3>8 DEF HeldInv
    <3>10. HeldAfter(k)'
      BY <1>3, <2>6a, <3>9 DEF QueryRaises, HeldAfter
    <3> QED BY <3>10
  <2>7. CASE RoundEnd
    <3>1. next = Len(nameservers) + 1
      BY <2>7 DEF RoundEnd, RoundInv
    <3>2. /\ k + 1 <= Rounds /\ clock <= k * RoundTime + QueryTime * Len(nameservers)
          /\ elapsed = k * poll_interval
      BY <1>1, <2>1, <2>7, <3>1 DEF RoundEnd, HeldAfter
    <3>3. clock <= (k + 1) * RoundTime
      BY <1>1, <2>2, <3>2, ProductIsNat DEF RoundTime, HeldInv
    <3>4. (k + 1) * RoundTime <= Rounds * RoundTime
      BY <2>4, <3>2
    <3>5. clock <= Rounds * RoundTime
      BY <1>1, <2>2, <2>3, <3>3, <3>4 DEF HeldInv
    <3>6. HeldAfter(k)'
      BY <1>2, <1>3, <2>7, <3>2, <3>5 DEF RoundEnd, HeldAfter
    <3> QED BY <3>6
  <2>8. CASE Sleep
    <3>1. clock' <= clock + poll_interval
      BY <2>8, LaterBound DEF Sleep, HeldInv
    <3>2. k + 1 <= Rounds /\ clock <= k * RoundTime + QueryTime * Len(nameservers)
      BY <2>1, <2>8 DEF Sleep, HeldAfter
    <3>3. clock' <= (k + 1) * RoundTime
      BY <1>1, <1>4, <2>2, <3>1, <3>2, ProductIsNat DEF RoundTime, HeldInv
    <3>4. elapsed' = (k + 1) * poll_interval
      BY <2>1, <2>2, <2>8 DEF Sleep, HeldAfter
    <3>5. HeldAfter(k + 1)'
      BY <1>2, <1>3, <2>8, <3>2, <3>3, <3>4 DEF Sleep, HeldAfter
    <3> QED BY <3>5
  <2>9. CASE Expired
    <3>1. k * RoundTime <= Rounds * RoundTime
      BY <2>1, <2>4, <2>9 DEF Expired, HeldAfter
    <3>2. clock <= Rounds * RoundTime
      BY <1>1, <2>1, <2>2, <2>3, <2>9, <3>1 DEF Expired, HeldAfter, HeldInv
    <3>3. HeldAfter(k)'
      BY <1>3, <2>9, <3>2 DEF Expired, HeldAfter
    <3> QED BY <3>3
  <2>10. CASE (\E ns \in Servers : Flap(ns)) \/ UNCHANGED vars
    <3>1. HeldAfter(k)'
      BY <1>2, <1>3, <2>1, <2>10 DEF Flap, vars, HeldAfter
    <3> QED BY <3>1
  <2> QED BY <2>5, <2>6, <2>6a, <2>7, <2>8, <2>9, <2>10 DEF Next, Loop, Returned
<1> QED BY <1>2, <1>4, <1>5 DEF HeldInv

LEMMA HeldInit ==
    ASSUME RoundInv, Init
    PROVE  HeldInv
<1>1. timeout \in Nat /\ poll_interval \in Nat /\ clock = 0 /\ elapsed = 0 /\ pc = "head"
  BY PropagationAssumption DEF Init
<1>2. ASSUME poll_interval > 0 PROVE HeldAfter(0)
  <2>1. Rounds \in Nat
    BY <1>1, <1>2 DEF Rounds
  <2>2. RoundTime \in Nat
    BY <1>1, PropagationAssumption, ProductIsNat DEF RoundTime, RoundInv
  <2> QED BY <1>1, <2>1, <2>2 DEF HeldAfter
<1> QED BY <1>1, <1>2 DEF HeldInv

\* A call that sleeps between its rounds holds its thread for no longer than the
\* rounds that fit into its timeout: only the sleeps count, and each comes with
\* at most one round of queries.
THEOREM HeldBounded == Spec => []HeldAtMost
<1>1. RoundInv /\ HeldInv => HeldAtMost
  <2> SUFFICES ASSUME RoundInv, HeldInv, poll_interval > 0
               PROVE  clock <= Rounds * RoundTime
    BY DEF HeldAtMost, Rounds, RoundTime
  <2>1. PICK k \in Nat : HeldAfter(k)
    BY DEF HeldInv
  <2>2. QueryTime * Len(nameservers) \in Nat
    BY PropagationAssumption, ProductIsNat DEF RoundInv
  <2>3. RoundTime \in Nat /\ Rounds \in Int
    BY <2>2 DEF RoundTime, Rounds, HeldInv
  <2>4. k * RoundTime \in Nat /\ (k + 1) * RoundTime = k * RoundTime + RoundTime
    BY <2>3, ProductIsNat, NextProduct
  <2>5. ASSUME NEW m \in Nat, m <= Rounds PROVE m * RoundTime <= Rounds * RoundTime
    BY <2>3, <2>5, ProductGrows
  <2>6. CASE pc \in {"done", "raised"}
    BY <2>1, <2>6 DEF HeldAfter
  <2>7. CASE pc = "head"
    <3>1. k * RoundTime <= Rounds * RoundTime
      BY <2>1, <2>5, <2>7 DEF HeldAfter
    <3> QED BY <2>1, <2>3, <2>4, <2>7, <3>1 DEF HeldAfter, HeldInv
  <2>8. CASE pc \in {"query", "sleep"}
    <3>1. clock <= k * RoundTime + QueryTime * Len(nameservers) /\ k + 1 <= Rounds
      <4>1. CASE pc = "sleep"
        BY <2>1, <4>1 DEF HeldAfter
      <4>2. CASE pc = "query"
        <5>1. next - 1 \in Nat /\ next - 1 <= Len(nameservers) /\ Len(nameservers) \in Nat
          BY DEF RoundInv
        <5>2. (next - 1) * QueryTime <= Len(nameservers) * QueryTime
          BY <5>1, ProductGrows, PropagationAssumption
        <5>3. QueryTime * (next - 1) <= QueryTime * Len(nameservers)
          BY <5>1, <5>2, PropagationAssumption
        <5>4. QueryTime * (next - 1) \in Nat
          BY <5>1, ProductIsNat, PropagationAssumption
        <5> QED BY <2>1, <2>2, <2>4, <4>2, <5>3, <5>4 DEF HeldAfter, HeldInv
      <4> QED BY <2>8, <4>1, <4>2
    <3>2. clock <= (k + 1) * RoundTime
      BY <2>2, <2>4, <3>1 DEF RoundTime, HeldInv
    <3>3. (k + 1) * RoundTime <= Rounds * RoundTime
      BY <2>5, <3>1
    <3> QED BY <2>3, <2>4, <3>2, <3>3 DEF HeldInv
  <2> QED BY <2>6, <2>7, <2>8 DEF RoundInv
<1> QED BY <1>1, RoundInit, RoundStep, HeldInit, HeldStep, PTL DEF Spec

==============================================================================
