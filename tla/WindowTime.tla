------------------------------ MODULE WindowTime -----------------------------
(***************************************************************************)
(* is_within_window and next_window_start, in the window's own time zone.  *)
(* A time is a day and a slot of the day; day 0 is a Monday.               *)
(***************************************************************************)
EXTENDS Integers

CONSTANT SlotsPerDay  \* granularity of the clock (the code's is one minute)

Slots    == 0..(SlotsPerDay - 1)
Window   == [start : Slots, end : Slots, days : SUBSET (1..7)]
Time     == [day : Nat, slot : Slots]

ASSUME SlotsAssumption == SlotsPerDay \in Nat \ {0}

isoweekday(day) == (day % 7) + 1

\* The window runs past midnight.
Wraps(w) == w.start > w.end

\* The window is open at t: an allowed day, and its start <= t < end, or outside
\* end <= t < start when it runs past midnight.
is_within_window(w, t) ==
    /\ isoweekday(t.day) \in w.days
    /\ IF Wraps(w) THEN t.slot >= w.start \/ t.slot < w.end
                   ELSE w.start <= t.slot /\ t.slot < w.end

\* The first day from d on that the window applies to; after fourteen tries
\* the loop gives up with the day it has come to.
AllowedFrom(w, d) ==
    IF \E i \in 0..13 : isoweekday(d + i) \in w.days
    THEN CHOOSE e \in d..(d + 13) :
            /\ isoweekday(e) \in w.days
            /\ \A f \in d..(e - 1) : isoweekday(f) \notin w.days
    ELSE d + 14

\* Seeded fault: the opening of the same day, even when it has passed.
next_window_start_today(w, t) ==
    IF is_within_window(w, t) THEN t
    ELSE [day |-> AllowedFrom(w, t.day), slot |-> w.start]

\* Seeded fault: the days of the week are not looked at.
next_window_start_anyday(w, t) ==
    IF is_within_window(w, t) THEN t
    ELSE [day  |-> IF Wraps(w) \/ t.slot < w.start THEN t.day ELSE t.day + 1,
          slot |-> w.start]

next_window_start(w, t) ==
    IF is_within_window(w, t) THEN t
    ELSE [day  |-> AllowedFrom(w, IF Wraps(w) \/ t.slot < w.start
                                  THEN t.day ELSE t.day + 1),
          slot |-> w.start]

\* A time is earlier than another.
Before(s, t) == s.day < t.day \/ (s.day = t.day /\ s.slot < t.slot)

\* The next slot.
After(t) == IF t.slot < SlotsPerDay - 1 THEN [day |-> t.day, slot |-> t.slot + 1]
            ELSE [day |-> t.day + 1, slot |-> 0]
==============================================================================
