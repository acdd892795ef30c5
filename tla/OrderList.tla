------------------------------ MODULE OrderList ------------------------------
(***************************************************************************)
(* The list of orders of dsaordhtml.html with its three tabs.  It grows as *)
(* it is scrolled: the event infinite starts a timer, the timer asks for   *)
(* the rows from the date of the last row on, and the answer is appended   *)
(* to the list of whatever tab and page is shown when it comes.            *)
(***************************************************************************)
EXTENDS Naturals, Sequences

CONSTANTS
    Tab,        \* saordtype
    MaxRows,    \* bound on the orders of a tab, one for each date 1 .. MaxRows
    PerAnswer,  \* how many of them an answer holds
    MaxCalls    \* bound on the calls without an answer

OrderListAssumption == MaxRows \in Nat /\ PerAnswer \in Nat

VARIABLES l     \* the list

(* hjloaddata, with the condition of the tab and the date of the last row *)
LoadData(s) ==
    [s EXCEPT !.spinner = TRUE,
              !.calls = Append(@, [tab |-> s.tab, from |-> s.last, stale |-> FALSE])]

Init ==
    \E t \in Tab :
        l = LoadData([tab     |-> t,
                      last    |-> 0,        \* lastdata, 1900-01-01
                      loading |-> FALSE,
                      timer   |-> FALSE,    \* the 2000 ms of infinite
                      calls   |-> <<>>,     \* those without an answer
                      shown   |-> {},       \* the rows of the list
                      spinner |-> FALSE,    \* infinite-scroll-preloader
                      away    |-> FALSE,    \* another page is the active one
                      astray  |-> FALSE])   \* history: an answer went elsewhere

Asks(s) == Len(s.calls) + (IF s.timer THEN 1 ELSE 0)

-----------------------------------------------------------------------------
(* handleInfiniteScroll near the end of the list, and the document's handler *)
Infinite ==
    /\ ~l.away /\ ~l.loading /\ Asks(l) < MaxCalls
    /\ l' = [l EXCEPT !.loading = TRUE, !.timer = TRUE]

Timer == l.timer /\ l' = LoadData([l EXCEPT !.timer = FALSE, !.loading = FALSE])

(* KeepDate is a mutant: the next tab begins where the last one ended. *)
KeepDate(s, t) ==
    LoadData([s EXCEPT !.tab = t, !.shown = {}, !.astray = FALSE,
                       !.calls = [n \in DOMAIN @ |-> [@[n] EXCEPT !.stale = TRUE]]])

(* a tap on ac-1, ac-2 or ac-3: the list is emptied *)
ShowTab(s, t) ==
    LoadData([s EXCEPT !.tab = t, !.shown = {}, !.astray = FALSE, !.last = 0,
                       !.calls = [n \in DOMAIN @ |-> [@[n] EXCEPT !.stale = TRUE]]])

TapTab(t) == ~l.away /\ Asks(l) < MaxCalls /\ l' = ShowTab(l, t)

(* show_list opens an order on another page, and back *)
ShowList == ~l.away /\ l' = [l EXCEPT !.away = TRUE]
Back == l.away /\ l' = [l EXCEPT !.away = FALSE]

(* the calls that are still on the way without this one *)
CallsBut(n) == SubSeq(l.calls, 1, n - 1) \o SubSeq(l.calls, n + 1, Len(l.calls))

(* The success callback of hjloaddata: a call of any age may be the next. *)
Answer(n) ==
    LET c == l.calls[n]
        rows == {r \in 1 .. MaxRows : c.from <= r /\ r < c.from + PerAnswer + (IF c.from = 0 THEN 1 ELSE 0)}
    IN  l' = [l EXCEPT !.calls = CallsBut(n), !.spinner = FALSE,
                       !.last = IF rows = {} THEN @ ELSE CHOOSE r \in rows : \A q \in rows : q <= r,
                       !.shown = IF l.away THEN @ ELSE @ \cup ({c.tab} \X rows),
                       !.astray = @ \/ l.away \/ c.stale]

(* Its error callback. *)
Fail(n) == l' = [l EXCEPT !.calls = CallsBut(n), !.spinner = FALSE]

Next ==
    \/ Infinite \/ Timer \/ ShowList \/ Back
    \/ \E t \in Tab : TapTab(t)
    \/ \E n \in DOMAIN l.calls : Answer(n) \/ Fail(n)

-----------------------------------------------------------------------------
(* The list shows orders of its tab only, and with an order all the earlier  *)
(* ones, up to the date from which the next call will ask, however loads of  *)
(* the same list overlap, fail, or are answered out of order.  The exception *)
(* is an answer to a call of an earlier tab, or one that comes while another *)
(* page is shown: it is appended to what is shown, and moves the date on.    *)
(* Nor does the list show that it waits when it does not.                    *)
ListComplete ==
    /\ ~l.astray => \E m \in l.last .. MaxRows : l.shown = {l.tab} \X (1 .. m)
    /\ l.spinner => l.calls # <<>>
=============================================================================
