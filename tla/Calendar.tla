------------------------------ MODULE Calendar ------------------------------
(***************************************************************************)
(* The calendar of framework7.js: a strip of months of which one is in the *)
(* window.  A change of month moves the strip at once and mends it, by     *)
(* dropping the months far away and adding the missing neighbour, when the *)
(* transition ends; taps that come before that work on the strip as it is. *)
(*                                                                         *)
(* Months are counted from some January, which is 0, and the place of a    *)
(* month is its distance from the window.  One date can be chosen; of a    *)
(* date only its month is kept.  The transition of the strip ends before   *)
(* that of the picker that is closed, and so before the calendar is opened *)
(* again.                                                                  *)
(***************************************************************************)
EXTENDS Integers, FiniteSets, Sequences

CONSTANTS
    MinMonth, MaxMonth, \* the months of minDate and maxDate
    Today               \* the month of today

CalendarAssumption ==
    MinMonth \in Int /\ MaxMonth \in Int /\ Today \in MinMonth .. MaxMonth

MaxStrip == 5   \* bounds the taps within one transition

VARIABLES c     \* the calendar

NotMoving == [dir |-> "none", both |-> FALSE]

(* monthHTML *)
Month(m, slot) == [m |-> m, slot |-> slot, class |-> "none"]

-----------------------------------------------------------------------------
(* setMonthsTranslate: the first three months get their places and classes *)
SetMonthsTranslate(q) ==
    [i \in DOMAIN q |->
        IF i <= 3 THEN [q[i] EXCEPT !.slot = i - 2, !.class = <<"prev", "current", "next">>[i]]
        ELSE [q[i] EXCEPT !.class = "none"]]

(* layout, with the month of the value or today in the middle *)
Layout(s) ==
    LET m == IF s.value = {} THEN Today ELSE CHOOSE x \in s.value : TRUE
    IN  [s EXCEPT !.months = SetMonthsTranslate([i \in 1 .. 3 |-> Month(m + i - 2, i - 2)]),
                  !.cur = m]

Init ==
    c = [opened |-> FALSE,
         value  |-> {},         \* the month of p.value, if any
         months |-> <<>>,
         cur    |-> Today,      \* currentMonth and currentYear
         moving |-> NotMoving,  \* animating, with the arguments of the onMonthChangeEnd to come
         touched |-> FALSE, moved |-> FALSE,
         astray |-> FALSE]      \* history, see MonthShown

(* updateCurrentMonthYear and onMonthChangeStart *)
OnMonthChangeStart(s, dir) ==
    LET n == Len(s.months)
        k == IF dir = "next" THEN n ELSE 1
        l == IF dir = "next" THEN n - 1 ELSE 2
    IN  [s EXCEPT !.cur = s.months[k].m,
                  !.months = [i \in 1 .. n |-> [@[i] EXCEPT !.class =
                      CASE i = k -> "current"
                        [] i = l -> IF dir = "next" THEN "prev" ELSE "next"
                        [] OTHER -> "none"]]]

(* the months of the strip at these places, the others are removed *)
Keep(q, at) ==
    [n \in 1 .. Cardinality(at) |-> q[CHOOSE i \in at : Cardinality({j \in at : j < i}) = n - 1]]

OnMonthChangeEnd(s) ==
    LET kept == Keep(s.months, {i \in DOMAIN s.months :
                    /\ s.months[i].class # "none"
                    /\ s.moving.both => s.months[i].class = "current"})
        q == IF s.moving.both THEN <<Month(s.cur - 1, 0)>> \o kept \o <<Month(s.cur + 1, 0)>>
             ELSE IF s.moving.dir = "next" THEN Append(kept, Month(s.cur + 1, 0))
             ELSE <<Month(s.cur - 1, 0)>> \o kept
    IN  [s EXCEPT !.moving = NotMoving, !.months = SetMonthsTranslate(q)]

(* monthsTranslate goes down by one for the next month, up for the previous *)
Shift(q, by) == [i \in DOMAIN q |-> [q[i] EXCEPT !.slot = @ + by]]

(* the strip begins to move; only the first move waits for the transition *)
Moving(s, dir, both, strip) ==
    OnMonthChangeStart(
        [s EXCEPT !.months = strip,
                  !.moving = IF @ # NotMoving THEN @ ELSE [dir |-> dir, both |-> both],
                  !.astray = @ \/ /\ s.moving # NotMoving
                                  /\ s.moving.dir # dir \/ (both /\ ~s.moving.both)],
        dir)

SameMonth(m, n) == m % 12 = n % 12

(* addValue, of a calendar for one date *)
AddValue(s, m) == [s EXCEPT !.value = {m}]

(* NextOfThree is a mutant: the strip always holds the next month already. *)
NextOfThree(s) ==
    IF s.months[Len(s.months)].m > MaxMonth THEN s
    ELSE Moving(s, "next", FALSE, Shift(s.months, -1))

NextMonth(s) ==
    LET last == s.months[Len(s.months)].m
        strip == Shift(s.months, -1)
    IN  IF last > MaxMonth THEN s
        ELSE Moving(s, "next", FALSE,
                    IF SameMonth(last, s.cur) THEN Append(strip, Month(last + 1, 0)) ELSE strip)

PrevMonth(s) ==
    LET first == Head(s.months).m
        strip == Shift(s.months, 1)
    IN  IF first < MinMonth THEN s
        ELSE Moving(s, "prev", FALSE,
                    IF SameMonth(first, s.cur) THEN <<Month(first - 1, 0)>> \o strip ELSE strip)

SetYearMonth(s, m) ==
    LET quiet == s.moving = NotMoving
        forth == Shift(IF quiet THEN SubSeq(s.months, 1, Len(s.months) - 1) ELSE s.months, -1)
        back == Shift(IF quiet THEN Tail(s.months) ELSE s.months, 1)
    IN  IF m \notin MinMonth .. MaxMonth THEN s
        ELSE IF m > s.cur THEN Moving(s, "next", TRUE, Append(forth, Month(m, 0)))
        ELSE Moving(s, "prev", TRUE, <<Month(m, 0)>> \o back)

-----------------------------------------------------------------------------
(* a tap, with one finger, on an open calendar; one that is astray is not *)
(* followed further                                                       *)
Tap == c.opened /\ ~c.touched /\ ~c.astray /\ Len(c.months) < MaxStrip

TapMonth == Tap /\ (c' = NextMonth(c) \/ c' = PrevMonth(c))
TapYear == Tap /\ (c' = SetYearMonth(c, c.cur + 12) \/ c' = SetYearMonth(c, c.cur - 12))

(* handleDayClick: a day of a month in sight, or one of its neighbours' days *)
(* that fill its first and last week                                         *)
DayClick(i, by) ==
    /\ Tap
    /\ c.moving = NotMoving => c.months[i].slot = 0
    /\ c.months[i].m + by \in MinMonth .. MaxMonth
    /\ LET s == CASE by = 1 -> NextMonth(c) [] by = -1 -> PrevMonth(c) [] OTHER -> c
       IN  c' = AddValue(s, c.months[i].m + by)

TouchStart == c.opened /\ ~c.touched /\ ~c.astray /\ c' = [c EXCEPT !.touched = TRUE]

(* handleTouchMove, to the side; and across it or while the strip moves *)
TouchMove == c.touched /\ c.moving = NotMoving /\ c' = [c EXCEPT !.moved = TRUE]
TouchLost == c.touched /\ ~c.moved /\ c' = [c EXCEPT !.touched = FALSE]

(* handleTouchEnd: by distance and speed *)
TouchEnd ==
    /\ c.touched
    /\ LET s == [c EXCEPT !.touched = FALSE, !.moved = FALSE]
       IN  \/ c' = s
           \/ c.moved /\ (c' = NextMonth(s) \/ c' = PrevMonth(s))

(* the transition of the strip ends *)
TransitionEnd == c.moving # NotMoving /\ c' = OnMonthChangeEnd(c)

Open ==
    /\ ~c.opened /\ c.moving = NotMoving
    /\ c' = [Layout(c) EXCEPT !.opened = TRUE, !.touched = FALSE, !.moved = FALSE, !.astray = FALSE]

Close == c.opened /\ ~c.touched /\ c' = [c EXCEPT !.opened = FALSE]

Next ==
    \/ TapMonth \/ TapYear
    \/ \E i \in DOMAIN c.months, by \in {-1, 0, 1} : DayClick(i, by)
    \/ TouchStart \/ TouchMove \/ TouchLost \/ TouchEnd
    \/ TransitionEnd \/ Open \/ Close

-----------------------------------------------------------------------------
(* However fast the taps, the swipes and the choice of days follow each      *)
(* other, the month in the window is the one the toolbar names; at rest its  *)
(* neighbours are on both sides of it; and a date beyond minDate or maxDate  *)
(* is at most one month away.  But for one case, in which the code loses     *)
(* step until the calendar is opened again (astray): a change in the other   *)
(* direction, or of the year after one of the month, within one transition.  *)
MonthShown ==
    c.opened /\ ~c.astray =>
        /\ \E i \in DOMAIN c.months : c.months[i].slot = 0
        /\ \A i \in DOMAIN c.months : c.months[i].slot = 0 => c.months[i].m = c.cur
        /\ c.cur \in MinMonth - 1 .. MaxMonth + 1
        /\ c.moving = NotMoving =>
               \A i \in DOMAIN c.months :
                   /\ Len(c.months) = 3
                   /\ c.months[i].m = c.cur + i - 2 /\ c.months[i].slot = i - 2
=============================================================================
