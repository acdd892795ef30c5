------------------------------- MODULE Swipes -------------------------------
(***************************************************************************)
(* The gestures on the rows of a list: swipeout (a row is swiped open and  *)
(* shows its delete button), sortable (a row is dragged to another place)  *)
(* and the tabs, which share app.allowSwipeout and app.swipeoutOpenedEl.   *)
(*                                                                         *)
(* Rows have actions on the right only, one finger is on the page at a     *)
(* time, and it does not go down on a row that is deleted, which collapses *)
(* within 300 ms; so the row of a touch stays in the page until it ends.   *)
(***************************************************************************)
EXTENDS Naturals, FiniteSets, Sequences

CONSTANTS
    Row,    \* the rows
    None    \* no row: undefined, or beside the list

SwipesAssumption == None \notin Row /\ IsFiniteSet(Row)

VARIABLES r     \* the list and the gestures

Range(q) == {q[i] : i \in DOMAIN q}
Once(q) == \A i, j \in DOMAIN q : q[i] = q[j] => i = j
Rows(s) == Range(s.rows)

(* elements of the DOM: x is removed, x is inserted at a place *)
PlaceOf(q, x) == CHOOSE i \in DOMAIN q : q[i] = x
Without(q, x) == [i \in 1 .. Len(q) - 1 |-> q[IF i < PlaceOf(q, x) THEN i ELSE i + 1]]
Insert(q, at, x) ==
    [i \in 1 .. Len(q) + 1 |-> IF i < at THEN q[i] ELSE IF i = at THEN x ELSE q[i - 1]]

InitialRows == CHOOSE q \in [1 .. Cardinality(Row) -> Row] : Once(q) /\ Range(q) = Row

Init ==
    r = [rows     |-> InitialRows,
         opened   |-> {},       \* class swipeout-opened
         el       |-> None,     \* app.swipeoutOpenedEl
         deleting |-> {},       \* class deleting
         deleted  |-> {},       \* history: rows whose delete was tapped
         allow    |-> TRUE,     \* app.allowSwipeout
         closing  |-> {},       \* rows with an onSwipeoutClose to come
         editing  |-> FALSE,    \* class sortable-opened
         finger   |-> FALSE,    \* a finger is down
         on       |-> None,     \* the row it went down on
         part     |-> "content",
         touched  |-> FALSE,    \* initSwipeout: isTouched
         moved    |-> FALSE,    \*   isMoved
         swiped   |-> None,     \*   swipeOutEl
         dragged  |-> FALSE,    \* initSortable: isTouched
         sorting  |-> None,     \*   sortingEl
         after    |-> None]     \*   insertAfter or insertBefore

-----------------------------------------------------------------------------
(* swipeoutClose; the row may not be open any more *)
SwipeoutClose(s, x) ==
    IF x \notin s.opened THEN s
    ELSE [s EXCEPT !.allow = FALSE, !.opened = @ \ {x}, !.closing = @ \cup {x},
                   !.el = IF @ = x THEN None ELSE @]

SwipeoutDelete(s, x) ==
    [s EXCEPT !.el = None, !.deleting = @ \cup {x}, !.deleted = @ \cup {x}]

(* KeepOpen is a mutant: a touch elsewhere does not close the open row. *)
KeepOpen(s, x) == s

(* the first handler of touchstart *)
CloseOther(s, x) == IF s.el \notin {None, x} THEN SwipeoutClose(s, s.el) ELSE s

(* handleTouchStart of initSwipeout *)
SwipeStart(s) == IF ~s.allow \/ s.on = None THEN s ELSE [s EXCEPT !.touched = TRUE, !.moved = FALSE]

(* handleTouchStart of initSortable *)
SortStart(s) ==
    IF s.part # "handle" THEN s
    ELSE [s EXCEPT !.dragged = TRUE, !.sorting = s.on, !.after = None, !.allow = FALSE]

TouchStart(x, part) ==
    /\ ~r.finger /\ x \notin r.deleting
    /\ x = None => part = "content"
    /\ part = "handle" => r.editing
    /\ r' = SortStart(SwipeStart(CloseOther([r EXCEPT !.finger = TRUE, !.on = x, !.part = part], x)))

(* handleTouchMove of initSwipeout, a move to the side *)
SwipeMove ==
    /\ r.finger /\ r.on # None /\ r.touched /\ (r.moved \/ ~r.editing)
    /\ r' = IF r.moved THEN r
            ELSE [r EXCEPT !.moved = TRUE, !.swiped = r.on, !.opened = @ \ {r.on}]

(* up or down, or to a side without actions: not a swipe *)
NoSwipe ==
    /\ r.finger /\ r.touched /\ ~r.moved
    /\ r' = [r EXCEPT !.touched = FALSE]

(* handleTouchMove of initSortable: the dragged row is over another *)
SortMove(x) ==
    /\ r.finger /\ r.dragged /\ r.part = "handle"
    /\ x \in Rows(r) \ {r.sorting}
    /\ r' = [r EXCEPT !.after = x, !.touched = FALSE]

(* handleTouchEnd of initSwipeout: open or closed by distance and speed, *)
(* and beyond the actions the button swipeout-overswipe is clicked       *)
SwipeEnd(s, open, over) ==
    LET q == [s EXCEPT !.touched = FALSE, !.moved = FALSE]
    IN  IF ~s.touched \/ ~s.moved \/ s.on = None THEN q
        ELSE IF ~open THEN [q EXCEPT !.el = None]
        ELSE LET p == [q EXCEPT !.el = s.swiped, !.opened = @ \cup {s.swiped}]
             IN  IF over THEN SwipeoutDelete(p, s.swiped) ELSE p

(* the row goes to the place of the one it is over *)
Drop(s) == Insert(Without(s.rows, s.sorting), PlaceOf(s.rows, s.after), s.sorting)

(* handleTouchEnd of initSortable; a place that is gone throws *)
SortEnd(s) ==
    IF s.part # "handle" THEN s
    ELSE IF s.after # None /\ s.after \notin Rows(s) THEN [s EXCEPT !.allow = TRUE]
    ELSE [s EXCEPT !.allow = TRUE, !.dragged = FALSE, !.after = None,
                   !.rows = IF s.after = None THEN @ ELSE Drop(s)]

TouchEnd ==
    /\ r.finger
    /\ \E open, over \in BOOLEAN :
           r' = SortEnd(SwipeEnd([r EXCEPT !.finger = FALSE], open, over))

(* A tap on the button of the open row, and one that only closes it. *)
TapDelete == r.el # None /\ ~r.finger /\ r.el \in Rows(r) /\ r' = SwipeoutDelete(r, r.el)
TapClose == r.el # None /\ ~r.finger /\ r.el \in Rows(r) /\ r' = SwipeoutClose(r, r.el)

(* onSwipeoutClose, from the transition or after 500 ms *)
OnSwipeoutClose(x) ==
    /\ x \in r.closing
    /\ r' = [r EXCEPT !.closing = @ \ {x}, !.allow = TRUE]

(* The transition of a deleted row ends: it leaves the page. *)
RowGone(x) ==
    /\ x \in r.deleting
    /\ r' = [r EXCEPT !.deleting = @ \ {x}, !.rows = Without(@, x)]

(* sortableToggle *)
SortableToggle == ~r.finger /\ r' = [r EXCEPT !.editing = ~@]

(* showTab: "Return swipeouts in hidden tabs" *)
ShowTab == ~r.finger /\ r' = [r EXCEPT !.allow = TRUE]

Next ==
    \/ \E x \in Rows(r) \cup {None}, part \in {"content", "handle"} : TouchStart(x, part)
    \/ SwipeMove \/ NoSwipe \/ \E x \in Row : SortMove(x)
    \/ TouchEnd \/ TapDelete \/ TapClose
    \/ \E x \in Row : OnSwipeoutClose(x) \/ RowGone(x)
    \/ SortableToggle \/ ShowTab

-----------------------------------------------------------------------------
(* Of the rows that stay at most one is open, the one that the next touch   *)
(* beside it closes; and whatever row leaves the page while another is      *)
(* swiped or dragged, the rows are those that were not deleted, each once.  *)
OneRowOpen ==
    /\ \A x \in (r.opened \ r.deleting) \cap Rows(r) : r.el = x
    /\ Rows(r) = Row \ (r.deleted \ r.deleting)
    /\ Once(r.rows)
=============================================================================
