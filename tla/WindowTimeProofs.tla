--------------------------- MODULE WindowTimeProofs --------------------------
(***************************************************************************)
(* What the window functions compute, for every window, every time and     *)
(* every granularity of the clock (the code's day has 1440 minutes).       *)
(***************************************************************************)
EXTENDS WindowTime, TLAPS

\* Times are in a linear order, in which After(t) is the next one.
LEMMA TimeOrder ==
    ASSUME NEW s \in Time, NEW t \in Time, NEW u \in Time
    PROVE  /\ ~Before(t, t) /\ (Before(s, t) \/ Before(t, s) \/ s = t)
           /\ Before(s, t) => ~Before(t, s)
           /\ ~Before(s, t) /\ ~Before(t, u) => ~Before(s, u)
           /\ ~Before(s, t) /\ Before(s, u) => Before(t, u)
           /\ Before(s, t) /\ ~Before(u, t) => Before(s, u)
           /\ After(t) \in Time /\ Before(t, After(t))
           /\ Before(s, t) => ~Before(t, After(s))
<1>1. /\ s.day \in Nat /\ t.day \in Nat /\ u.day \in Nat
      /\ s.slot \in Slots /\ t.slot \in Slots /\ u.slot \in Slots
      /\ (s.day = t.day /\ s.slot = t.slot => s = t)
  BY DEF Time
<1>2. /\ After(t) \in Time /\ Before(t, After(t))
      /\ Before(s, t) => ~Before(t, After(s))
  BY <1>1, SlotsAssumption DEF After, Before, Slots, Time
<1> QED BY <1>1, <1>2 DEF Before, Slots

\* Every day of the week comes within seven days.
LEMMA WeekdayComes ==
    ASSUME NEW d \in Nat, NEW k \in 1..7
    PROVE  \E i \in 0..6 : isoweekday(d + i) = k
<1>1. d % 7 \in 0..6
  OBVIOUS
<1> DEFINE r == d % 7
           i == IF k - 1 >= r THEN k - 1 - r ELSE k + 6 - r
<1>2. i \in 0..6
  BY <1>1
<1>3. (d + i) % 7 = k - 1
  BY <1>1, <1>2
<1> QED BY <1>2, <1>3 DEF isoweekday

\* The loop over fourteen days finds the first day the window applies to.
LEMMA AllowedFromFirst ==
    ASSUME NEW w \in Window, w.days # {}, NEW d \in Nat
    PROVE  /\ AllowedFrom(w, d) \in Nat /\ AllowedFrom(w, d) \in d..(d + 6)
           /\ isoweekday(AllowedFrom(w, d)) \in w.days
           /\ \A f \in d..(AllowedFrom(w, d) - 1) : isoweekday(f) \notin w.days
<1> DEFINE P(e) == /\ isoweekday(e) \in w.days
                   /\ \A f \in d..(e - 1) : isoweekday(f) \notin w.days
           A(i) == isoweekday(d + i) \in w.days
<1>1. PICK k \in w.days : k \in 1..7
  BY DEF Window
<1>2. PICK j \in 0..6 : A(j)
  BY <1>1, WeekdayComes
<1>3. \E i \in 0..6 : A(i) /\ \A m \in 0..(i - 1) : ~A(m)
  <2> HIDE DEF A
  <2>1. A(0) \/ A(1) \/ A(2) \/ A(3) \/ A(4) \/ A(5) \/ A(6)
    BY <1>2
  <2> QED BY <2>1
<1>4. PICK i \in 0..6 : A(i) /\ \A m \in 0..(i - 1) : ~A(m)
  BY <1>3
<1>5. P(d + i)
  <2>1. ASSUME NEW f \in d..(d + i - 1) PROVE isoweekday(f) \notin w.days
    <3>1. f - d \in 0..(i - 1) /\ d + (f - d) = f
      OBVIOUS
    <3> QED BY <1>4, <3>1
  <2> QED BY <1>4, <2>1
<1>6. AllowedFrom(w, d) = CHOOSE e \in d..(d + 13) : P(e)
  BY <1>2 DEF AllowedFrom
<1> DEFINE e == AllowedFrom(w, d)
<1>7. e \in d..(d + 13) /\ P(e)
  <2>1. \E x \in d..(d + 13) : P(x)
    BY <1>5
  <2> HIDE DEF P
  <2> QED BY <1>6, <2>1
<1>8. e <= d + i
  <2>1. CASE e > d + i
    <3>1. d + i \in d..(e - 1)
      BY <1>7, <2>1
    <3> QED BY <3>1, <1>5, <1>7
  <2> QED BY <2>1, <1>7
<1> QED BY <1>7, <1>8

\* A window that can be open at all.
Usable(w) == w.start # w.end /\ w.days # {}

\* next_window_start gives a time from t on at which the window is open, within
\* a week and a day: an operation that is put off comes to an open window.
THEOREM NextStartIsOpen ==
    ASSUME NEW w \in Window, Usable(w), NEW t \in Time
    PROVE  LET u == next_window_start(w, t) IN
             /\ u \in Time /\ is_within_window(w, u)
             /\ u = t \/ Before(t, u)
             /\ u.day <= t.day + 7
<1>1. CASE is_within_window(w, t)
  BY <1>1 DEF next_window_start, Time
<1>2. CASE ~is_within_window(w, t)
  <2> DEFINE d == IF Wraps(w) \/ t.slot < w.start THEN t.day ELSE t.day + 1
             u == next_window_start(w, t)
  <2>1. d \in Nat /\ t.slot \in Slots /\ w.start \in Slots /\ w.end \in Slots
    BY DEF Time, Window
  <2>2. u = [day |-> AllowedFrom(w, d), slot |-> w.start]
    BY <1>2 DEF next_window_start
  <2>3. u.day \in d..(d + 6) /\ u.day \in Nat /\ isoweekday(u.day) \in w.days
    <3>1. w.days # {} /\ d \in Nat
      BY <2>1 DEF Usable
    <3>2. /\ AllowedFrom(w, d) \in Nat /\ AllowedFrom(w, d) \in d..(d + 6)
          /\ isoweekday(AllowedFrom(w, d)) \in w.days
      BY <3>1, AllowedFromFirst
    <3> HIDE DEF d, u
    <3>3. u.day = AllowedFrom(w, d)
      BY <2>2
    <3> QED BY <3>2, <3>3
  <2>4. u \in Time
    BY <2>1, <2>2, <2>3 DEF Time
  <2>5. is_within_window(w, u)
    <3>1. u.slot = w.start
      BY <2>2
    <3> QED BY <2>1, <2>3, <3>1 DEF is_within_window, Wraps, Usable, Slots
  <2>6. Before(t, u)
    <3>1. CASE t.day < u.day
      BY <3>1 DEF Before
    <3>2. CASE t.day = u.day
      <4>1. Wraps(w) \/ t.slot < w.start
        BY <2>1, <2>3, <3>2, <2>4 DEF Time
      <4>2. t.slot < w.start
        BY <4>1, <1>2, <2>1, <2>3, <3>2 DEF is_within_window, Wraps, Slots
      <4> QED BY <4>2, <3>2, <2>2 DEF Before
    <3> QED BY <3>1, <3>2, <2>1, <2>3, <2>4 DEF Time
  <2>7. u.day <= t.day + 7
    BY <2>1, <2>3 DEF Time
  <2> QED BY <2>4, <2>5, <2>6, <2>7
<1> QED BY <1>1, <1>2

\* For a window within a day, no opening is passed over: it is closed at every
\* time from t on that is earlier than next_window_start.
THEOREM NearestWithinDay ==
    ASSUME NEW w \in Window, Usable(w), ~Wraps(w), NEW t \in Time, NEW s \in Time,
           ~Before(s, t), Before(s, next_window_start(w, t))
    PROVE  ~is_within_window(w, s)
<1>1. ~is_within_window(w, t)
  BY DEF next_window_start
<1> DEFINE d == IF t.slot < w.start THEN t.day ELSE t.day + 1
           u == next_window_start(w, t)
<1>2. u = [day |-> AllowedFrom(w, d), slot |-> w.start]
  BY <1>1 DEF next_window_start
<1>3. /\ t.day \in Nat /\ s.day \in Nat /\ d \in Nat
      /\ t.slot \in Slots /\ s.slot \in Slots /\ w.start \in Slots /\ w.end \in Slots
  BY DEF Time, Window
<1>4. u.day \in Nat /\ \A f \in d..(u.day - 1) : isoweekday(f) \notin w.days
  BY <1>2, <1>3, AllowedFromFirst DEF Usable
<1>5. CASE s.day < d
  <2>1. s.day = t.day /\ t.slot >= w.start /\ s.slot >= t.slot
    BY <1>3, <1>5, SlotsAssumption DEF Before, Slots
  <2>2. isoweekday(t.day) \notin w.days \/ t.slot >= w.end
    BY <1>1, <1>3, <2>1 DEF is_within_window, Slots
  <2> QED BY <2>1, <2>2, <1>3 DEF is_within_window, Slots
<1>6. CASE s.day \in d..(u.day - 1)
  BY <1>4, <1>6 DEF is_within_window
<1>7. CASE s.day = u.day
  BY <1>2, <1>7, <1>3, <1>4 DEF Before, is_within_window, Slots
<1> QED BY <1>2, <1>3, <1>4, <1>5, <1>6, <1>7 DEF Before
==============================================================================
