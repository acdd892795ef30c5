-------------------------------- MODULE Taps --------------------------------
(***************************************************************************)
(* Fast clicks: the click that the browser sends some time after a touch   *)
(* is replaced by one that framework7.js sends when the finger goes up.    *)
(* The handlers of touchstart, touchmove, touchend and click share a few   *)
(* variables that outlive a touch; what the browser does of its own accord *)
(* (its click, the click of a label on its input) comes between them.      *)
(*                                                                         *)
(* The device is the WebView of Android.  The highlight (active-state),    *)
(* taphold and the branches for iOS are left out.                          *)
(***************************************************************************)
EXTENDS Naturals

CONSTANT Nothing    \* no element: null, or the body for the focus

(* One element of each sort: a link, a text field, a label with a check    *)
(* box, a select, and one of class no-fastclick.                           *)
Element == {"link", "field", "label", "select", "plain"}

TapsAssumption == Nothing \notin Element

VARIABLES t     \* the variables of initFastClicks, the browser and a tap

Init ==
    t = [fingers |-> 0,
         el      |-> Nothing,   \* what the fingers are on
         track   |-> FALSE,     \* trackClick
         target  |-> Nothing,   \* targetElement
         needs   |-> FALSE,     \* needsFastClick
         timer   |-> FALSE,     \* needsFastClickTimeOut is running
         moved   |-> FALSE,     \* isMoved
         recent  |-> FALSE,     \* lastClickTime is less than 50 ms ago
         focus   |-> Nothing,   \* document.activeElement
         native  |-> Nothing,   \* the browser's click to come
         slid    |-> FALSE,     \* history of the tap: beyond the threshold,
         single  |-> TRUE,      \*   one finger only, not held, no cancel,
         soon    |-> FALSE,     \*   too soon after the last,
         clicks  |-> 0,         \*   clicks let through,
         toggles |-> 0]         \*   changes of the check box

IsFormElement(el) == el \in {"field", "select", "label", "checkbox"}
TargetNeedsFastClick(el) == el # "plain"

(* androidNeedsBlur: a touch beside the focused field takes the focus away *)
AndroidNeedsBlur(s, el) ==
    s.focus \notin {el, Nothing} /\ el \notin {"field", "select"}

(* targetNeedsFocus; a select of Android opens of itself *)
TargetNeedsFocus(s, el) == s.focus # el /\ el = "field"

(* targetNeedsPrevent: the click of a label reaches its input *)
TargetNeedsPrevent(el) == el # "label"

-----------------------------------------------------------------------------
(* whether handleClick lets a click on el through *)
AllowClick(s, el, forwarded) ==
    \/ s.track
    \/ s.target = Nothing /\ ~IsFormElement(el)
    \/ ~s.needs
    \/ s.target # Nothing /\ s.focus = s.target
    \/ forwarded

(* handleClick, on the way down; a click that is let through is counted, a *)
(* check box changes unless its click is prevented                         *)
HandleClick(s, el, forwarded) ==
    LET allow == AllowClick(s, el, forwarded)
        default == allow \/ (s.target # Nothing /\ ~TargetNeedsPrevent(s.target) /\ ~s.moved)
    IN  [s EXCEPT !.track = FALSE,
                  !.target = IF allow /\ ~s.track THEN @ ELSE Nothing,
                  !.timer = @ \/ ~s.track,
                  !.clicks = IF allow /\ el # "checkbox" THEN @ + 1 ELSE @,
                  !.toggles = IF default /\ el = "checkbox" THEN @ + 1 ELSE @]

(* a click on a label is followed by one on its input *)
Click(s, el, forwarded) ==
    IF el = "label" THEN HandleClick(HandleClick(s, el, forwarded), "checkbox", FALSE)
    ELSE HandleClick(s, el, forwarded)

(* handleTouchStart; the browser's click is there before the next touch *)
TouchStart(el) ==
    /\ t.fingers = 0 /\ t.native = Nothing
    /\ LET s == [t EXCEPT !.fingers = 1, !.el = el, !.moved = FALSE, !.timer = FALSE,
                          !.needs = TargetNeedsFastClick(el), !.slid = FALSE,
                          !.single = TRUE, !.soon = FALSE, !.clicks = 0, !.toggles = 0]
       IN  t' = IF ~s.needs THEN [s EXCEPT !.track = FALSE]
                ELSE [s EXCEPT !.track = TRUE, !.target = el,
                               !.focus = IF AndroidNeedsBlur(s, el) THEN Nothing ELSE @]

(* A second finger on the same element: handleTouchStart returns early. *)
SecondFinger ==
    /\ t.fingers = 1
    /\ t' = [t EXCEPT !.fingers = 2, !.moved = FALSE, !.single = FALSE]

(* MoveIgnored is a mutant: the touch is still tracked. *)
MoveIgnored == t.fingers > 0 /\ ~t.slid /\ t.clicks = 0 /\ t' = [t EXCEPT !.slid = TRUE, !.moved = TRUE]

(* handleTouchMove, the first time beyond fastClicksDistanceThreshold; after *)
(* the click of a first finger there is nothing left to do                  *)
TouchMove ==
    /\ t.fingers > 0 /\ ~t.slid /\ t.clicks = 0
    /\ t' = IF ~t.track THEN [t EXCEPT !.slid = TRUE]
            ELSE [t EXCEPT !.slid = TRUE, !.track = FALSE, !.target = Nothing, !.moved = TRUE]

(* The touchend is not prevented: a click of the browser's will come, if it *)
(* takes the touch for a tap.  Its threshold is larger than that of         *)
(* framework7.js, which leaves the elements that it does not track alone.   *)
NativeClick(s) ==
    \/ /\ s.single /\ ~(s.slid /\ s.el = "plain")
       /\ t' = [s EXCEPT !.native = s.el]
    \/ t' = [s EXCEPT !.single = FALSE]

(* handleTouchEnd: focus and blur, then the click; a select gets mousedown *)
SendClick(s) ==
    LET f == IF TargetNeedsFocus(s, s.target) THEN s.target
             ELSE IF s.target # s.focus /\ s.target # "label" THEN Nothing
             ELSE s.focus
        r == [s EXCEPT !.recent = TRUE, !.track = FALSE, !.focus = f]
    IN  IF s.target = "select" THEN [r EXCEPT !.clicks = @ + 1]
        ELSE Click(r, s.target, TRUE)

TouchEnd ==
    /\ t.fingers > 0
    /\ LET s == [t EXCEPT !.fingers = @ - 1]
       IN  \/ ~t.track /\ t.needs /\ t' = s
           \/ ~t.track /\ ~t.needs /\ NativeClick(s)
           \/ t.track /\ t.focus = t.el /\ NativeClick(s)
           \/ t.track /\ t.focus # t.el /\ t.recent /\ t' = [s EXCEPT !.soon = TRUE]
           \/ t.track /\ t.focus # t.el /\ ~t.recent /\ t' = SendClick(s)

(* handleTouchCancel *)
TouchCancel ==
    /\ t.fingers > 0
    /\ t' = [t EXCEPT !.fingers = 0, !.track = FALSE, !.target = Nothing, !.single = FALSE]

(* The browser's click. *)
Native ==
    /\ t.native # Nothing
    /\ t' = Click([t EXCEPT !.native = Nothing], t.native, FALSE)

NeedsFastClickTimeOut ==
    /\ t.timer
    /\ t' = [t EXCEPT !.timer = FALSE, !.needs = FALSE]

(* 50 ms have passed since the last click. *)
Later == t.recent /\ t' = [t EXCEPT !.recent = FALSE]

Next ==
    \/ \E el \in Element : TouchStart(el)
    \/ SecondFinger \/ TouchMove \/ TouchEnd \/ TouchCancel
    \/ Native \/ NeedsFastClickTimeOut \/ Later

-----------------------------------------------------------------------------
(* A tap gives one click, sent by framework7.js or by the browser but not by *)
(* both, and a label changes its check box once; a touch that has moved on a *)
(* tracked element gives none, and so does one that comes too soon.          *)
TapOnce ==
    /\ t.clicks <= 1 /\ t.toggles <= 1
    /\ t.slid => t.clicks = 0 /\ t.toggles = 0
    /\ (t.fingers = 0 /\ t.native = Nothing /\ t.el # Nothing
            /\ t.single /\ ~t.slid /\ ~t.soon)
          => t.clicks = 1 /\ (t.el = "label" => t.toggles = 1)
=============================================================================
