------------------------------- MODULE Panels -------------------------------
(***************************************************************************)
(* The two side panels of framework7.js, opened and closed by taps and     *)
(* dragged by a finger.  A panel that covers moves itself; one that is     *)
(* revealed lies still, and the views, which both panels share, move.      *)
(* What was begun is completed by listeners that wait for the end of a     *)
(* transition, and a drag to the edge leaves its listener without one.     *)
(***************************************************************************)
EXTENDS Naturals, FiniteSets

VARIABLES d     \* the panels

Side == {"left", "right"}

Init ==
    \E effect \in [Side -> {"cover", "reveal"}], swipe \in Side, follow, onlyClose \in BOOLEAN :
        d = [effect    |-> effect,
             swipe     |-> swipe,       \* params.swipePanel
             follow    |-> follow,      \* not params.swipePanelNoFollow
             onlyClose |-> onlyClose,   \* params.swipePanelOnlyClose
             active    |-> {},          \* panels with class active
             shown     |-> {},          \* panels that are displayed
             body      |-> {},          \* the classes with-panel-... of the body
             closing   |-> FALSE,       \* its class panel-closing
             allow     |-> TRUE,        \* app.allowPanelOpen
             listeners |-> {},          \* what waits for a transition
             moving    |-> {},          \* elements with a transition that runs
             touch     |-> "none",      \* isTouched, isMoved
             side      |-> swipe,       \* the panel that is or was touched
             opened    |-> FALSE,       \* it was active when it was touched
             late      |-> FALSE]       \* history: a listener met a later gesture

Target(s, p) == IF s.effect[p] = "reveal" THEN "views" ELSE p
Wait(s, kind, p) == [s EXCEPT !.listeners = @ \cup {[on |-> Target(s, p), kind |-> kind, side |-> p]}]
Returning(s) == \E l \in s.listeners : l.kind = "reset"
Move(s, p) == [s EXCEPT !.moving = @ \cup {Target(s, p)}]

-----------------------------------------------------------------------------
(* closePanel; the finger moves the panel where the places are dragged *)
ClosePanel(s) ==
    IF s.active = {} THEN s
    ELSE LET p == CHOOSE q \in s.active : TRUE
         IN  Wait([s EXCEPT !.active = {}, !.allow = FALSE, !.closing = TRUE, !.body = @ \ {p}],
                  "closed", p)

CloseMoves(s) == IF s.active = {} THEN s ELSE Move(ClosePanel(s), CHOOSE q \in s.active : TRUE)

(* openPanel *)
OpenPanel(s, p) ==
    IF ~s.allow \/ p \in s.active THEN s
    ELSE Wait([CloseMoves(s) EXCEPT !.allow = FALSE, !.shown = @ \cup {p},
                                    !.active = @ \cup {p}, !.body = @ \cup {p},
                                    !.late = @ \/ Returning(s)],
              "opened", p)

OpenMoves(s, p) == IF ~s.allow \/ p \in s.active THEN s ELSE Move(OpenPanel(s, p), p)

(* CloseAnyway is a mutant: a panel that was opened again is hidden. *)
CloseAnyway(s, p) == [s EXCEPT !.shown = @ \ {p}, !.closing = FALSE, !.allow = TRUE]

Closed(s, p) ==
    IF p \in s.active THEN s
    ELSE [s EXCEPT !.shown = @ \ {p}, !.closing = FALSE, !.allow = TRUE]

(* the listeners of one element; in whatever order, they do the same *)
Fire(s, on) ==
    LET now == {l \in s.listeners : l.on = on}
        rest == [s EXCEPT !.listeners = @ \ now, !.moving = @ \ {on}]
        Has(kind) == \E l \in now : l.kind = kind
        a == IF Has("opened") THEN [rest EXCEPT !.allow = TRUE] ELSE rest
        b == IF [on |-> on, kind |-> "closed", side |-> "left"] \in now THEN Closed(a, "left") ELSE a
        c == IF [on |-> on, kind |-> "closed", side |-> "right"] \in now THEN Closed(b, "right") ELSE b
    IN  IF Has("reset") THEN [c EXCEPT !.allow = TRUE, !.closing = FALSE, !.shown = @ \ {s.side}] ELSE c

-----------------------------------------------------------------------------
Idle == d.touch # "moved"

(* A tap on a link open-panel. *)
TapOpen(p) == Idle /\ d' = [OpenMoves(d, p) EXCEPT !.touch = "none"]

(* A tap on a link close-panel or on the panel-overlay. *)
TapClose == Idle /\ d.active # {} /\ d' = [CloseMoves(d) EXCEPT !.touch = "none"]

(* handleTouchStart; swipePanelCloseOpposite is on *)
TouchStart ==
    /\ d.allow /\ d.touch = "none"
    /\ d.active = {} => ~d.onlyClose
    /\ LET p == IF d.active = {} THEN d.swipe ELSE CHOOSE q \in d.active : TRUE
       IN  d' = [d EXCEPT !.touch = "touched", !.side = p, !.opened = p \in d.active]

(* handleTouchMove: scrolling, or the wrong way *)
TouchDrop == d.touch = "touched" /\ d' = [d EXCEPT !.touch = "none"]

TouchMove ==
    /\ d.touch = "touched"
    /\ IF d.follow
       THEN d' = [d EXCEPT !.touch = "moved",
                           !.moving = @ \ {d.side, Target(d, d.side)},
                           !.late = @ \/ Returning(d),
                           !.shown = IF d.opened THEN @ ELSE @ \cup {d.side}]
       ELSE d' = [IF d.opened THEN CloseMoves(d) ELSE OpenMoves(d, d.side) EXCEPT !.touch = "none"]

(* handleTouchEnd: where the panel was dragged to, and whether it is to stay *)
Hide(s) == [s EXCEPT !.shown = @ \ {s.side}]
Free(s) == [s EXCEPT !.allow = TRUE]

Swap(s, edge) ==
    LET t == IF s.opened THEN ClosePanel(Free(s)) ELSE OpenPanel(Free(s), s.side)
    IN  IF ~edge THEN Move(t, s.side)
        ELSE IF s.opened THEN Free(Hide([t EXCEPT !.closing = FALSE])) ELSE Free(t)

Reset(s, edge) ==
    IF s.opened THEN LET t == OpenPanel(Free(s), s.side) IN IF edge THEN t ELSE Move(t, s.side)
    ELSE IF edge THEN Free(Hide(ClosePanel(s)))
    ELSE Move(Wait([ClosePanel(s) EXCEPT !.closing = TRUE], "reset", s.side), s.side)

TouchEnd(place) ==
    /\ d.touch # "none"
    /\ LET s == [d EXCEPT !.touch = "none"]
       IN  IF d.touch = "touched" THEN d' = s
           ELSE CASE place = "between"                 -> d' \in {Swap(s, FALSE), Reset(s, FALSE)}
                  [] place = "opened" /\ d.opened      -> d' = Reset(s, TRUE)
                  [] place = "opened" /\ ~d.opened     -> d' = Swap(s, TRUE)
                  [] place = "closed" /\ d.opened      -> d' = Swap(s, TRUE)
                  [] place = "closed" /\ ~d.opened     -> d' = Reset(s, TRUE)

TransitionEnd(on) == on \in d.moving /\ d' = Fire(d, on)

Next ==
    \/ \E p \in Side : TapOpen(p)
    \/ TapClose \/ TouchStart \/ TouchDrop \/ TouchMove
    \/ \E place \in {"closed", "between", "opened"} : TouchEnd(place)
    \/ \E on \in Side \cup {"views"} : TransitionEnd(on)

-----------------------------------------------------------------------------
(* One panel at most is active, the body is laid out for it, and when       *)
(* nothing moves the panel that is active is the one that is displayed and  *)
(* the panels may be opened again: no listener hides a panel that was       *)
(* opened since, and none keeps a panel that was closed.  The exception is  *)
(* a panel opened or touched while another returns from a short drag, whose *)
(* listener hides whatever panel was touched last.                          *)
PanelsAgree ==
    /\ Cardinality(d.active) <= 1
    /\ d.body = d.active
    /\ d.moving = {} /\ Idle /\ ~d.late => d.shown = d.active /\ ~d.closing /\ d.allow
=============================================================================
