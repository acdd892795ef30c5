---------------------------- MODULE PullToRefresh ----------------------------
(***************************************************************************)
(* Pull to refresh of framework7.js, on a page that scrolls natively and   *)
(* on one with the JavaScript scroller of older devices.  The page has a   *)
(* handler of the event refresh, which calls done when its data is there;  *)
(* then the class refreshing goes, with a transition or after a timeout.   *)
(***************************************************************************)
EXTENDS Naturals

CONSTANTS MaxRunning    \* bound on the refreshes that are not done

VARIABLES p     \* the content that is pulled

Init ==
    \E js \in BOOLEAN :
        p = [js         |-> js,         \* useJSScroller
             touch      |-> "none",     \* isTouched, isMoved
             refresh    |-> FALSE,      \* the pull was long enough
             pulled     |-> FALSE,      \* the content has a transform of its own
             mark       |-> "none",     \* class pull-up or pull-down
             refreshing |-> FALSE,      \* class refreshing
             moving     |-> FALSE,      \* a transition runs
             waits      |-> FALSE,      \* pullToRefreshDone waits for its end
             running    |-> 0,          \* handlers that have not called done
             removing   |-> FALSE,      \* the timeout of pullToRefreshDoneJS
             locked     |-> FALSE,      \* ptrLock of the scroller
             twice      |-> FALSE]      \* history: a refresh began during another

(* The event refresh reaches the handler of the page. *)
Trigger(s) ==
    [s EXCEPT !.refreshing = TRUE, !.running = @ + 1, !.twice = @ \/ s.running > 0]

(* WithoutEnd is a mutant: the marks of the pull are not taken off. *)
WithoutEnd(s) == [s EXCEPT !.refreshing = FALSE, !.moving = @ \/ (s.refreshing /\ ~s.pulled)]

PullToRefreshDone(s) ==
    [s EXCEPT !.refreshing = FALSE, !.waits = TRUE,
              !.moving = @ \/ (s.refreshing /\ ~s.pulled)]

PullToRefreshDoneJS(s) == [s EXCEPT !.removing = TRUE]

-----------------------------------------------------------------------------
TouchStart == ~p.js /\ p.touch = "none" /\ p' = [p EXCEPT !.touch = "touched"]

(* handleTouchMove: sideways, or scrolled too far *)
TouchDrop == p.touch = "touched" /\ p' = [p EXCEPT !.touch = "none"]

(* down by less or more than the trigger distance, or up *)
TouchMove(way) ==
    /\ p.touch # "none"
    /\ p' = [p EXCEPT !.touch = "moved",
                      !.refresh = way = "far",
                      !.pulled = @ \/ way # "up",
                      !.moving = @ /\ way = "up",
                      !.mark = CASE way = "far"  -> "pull-up"
                                 [] way = "near" -> "pull-down"
                                 [] way = "up"   -> "none"]

TouchEnd ==
    /\ p.touch # "none" /\ p.running < MaxRunning
    /\ LET s == [p EXCEPT !.touch = "none", !.pulled = FALSE, !.moving = @ \/ p.pulled]
       IN  p' = IF p.touch = "touched" THEN [p EXCEPT !.touch = "none"]
                ELSE IF p.refresh THEN Trigger(s)
                ELSE [s EXCEPT !.mark = IF @ = "pull-down" THEN "none" ELSE @]

(* pullToRefreshTrigger, by the page *)
PullToRefreshTrigger ==
    /\ ~p.refreshing /\ p.running < MaxRunning
    /\ p' = [Trigger(p) EXCEPT !.moving = @ \/ (~p.js /\ ~p.pulled)]

(* done, from a later event than the one that began the refresh *)
Done ==
    /\ p.running > 0
    /\ p' = LET s == [p EXCEPT !.running = @ - 1]
            IN  IF p.js THEN PullToRefreshDoneJS(s) ELSE PullToRefreshDone(s)

TransitionEnd ==
    /\ p.moving
    /\ p' = [p EXCEPT !.moving = FALSE, !.waits = FALSE, !.mark = IF p.waits THEN "none" ELSE @]

(* handleScroll, with the JavaScript scroller *)
Scroll(far) ==
    /\ p.js /\ ~p.refreshing
    /\ p' = [p EXCEPT !.mark = IF far THEN "pull-up" ELSE "pull-down"]

(* resetPosition of the scroller sends ptr, handleRefresh takes it *)
Ptr ==
    /\ p.js /\ ~p.locked /\ p.running < MaxRunning
    /\ p' = IF p.refreshing THEN [p EXCEPT !.locked = TRUE]
            ELSE Trigger([p EXCEPT !.locked = TRUE, !.mark = "none"])

Unlock == p.locked /\ p' = [p EXCEPT !.locked = FALSE]

Timeout == p.removing /\ p' = [p EXCEPT !.removing = FALSE, !.refreshing = FALSE]

Next ==
    \/ TouchStart \/ TouchDrop \/ TouchEnd
    \/ \E way \in {"far", "near", "up"} : TouchMove(way)
    \/ PullToRefreshTrigger \/ Done \/ TransitionEnd
    \/ \E far \in BOOLEAN : Scroll(far)
    \/ Ptr \/ Unlock \/ Timeout

-----------------------------------------------------------------------------
(* The content never shows a refresh that is not running, and shows the one  *)
(* that is, unless a second was pulled before the first was done (a finger   *)
(* is not refused while class refreshing is there, and the first done takes  *)
(* the class of both).  When nothing runs or moves, no mark of a pull is     *)
(* left, wherever the finger was when done was called.                       *)
PullSettles ==
    /\ p.refreshing => p.running > 0 \/ p.removing
    /\ p.running > 0 /\ ~p.twice => p.refreshing
    /\ ~p.js /\ p.running = 0 /\ ~p.moving /\ p.touch # "moved" => p.mark = "none"
=============================================================================
