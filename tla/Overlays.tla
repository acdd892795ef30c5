------------------------------ MODULE Overlays ------------------------------
(***************************************************************************)
(* What is laid over the pages of a business document: alerts and          *)
(* preloaders (class modal, one at a time, the others in modalStack), and  *)
(* the sheets: popover, popup, actions, login screen and picker.           *)
(*                                                                         *)
(* The handlers of a document show a preloader, call the native side and   *)
(* hide the preloader when the answer comes.  hidePreloader closes         *)
(* whatever modal is shown, and every modal and popover shares one         *)
(* overlay, so that answers, taps and transitions in any order matter.     *)
(***************************************************************************)
EXTENDS Naturals, FiniteSets, Sequences

CONSTANTS
    Papers,     \* what the handlers of the documents do, see below
    MaxModals   \* bound on the elements of class modal in the DOM

Sheet == {"popover", "popup", "actions", "login", "picker"}
Ending == {"hide", "hideAlert", "alertHide"}
Id == 1 .. MaxModals

OverlaysAssumption ==
    /\ MaxModals \in Nat
    /\ \A d \in Papers :
          /\ d.sheets \subseteq Sheet   \* the sheets it has links to
          /\ d.asks \in BOOLEAN         \* asks from a page, with a preloader
          /\ d.bare \in BOOLEAN         \* asks from a page, without one
          /\ d.menu \in {"none", "closeFirst", "showFirst"} \* asks from its popover
          /\ d.endings \subseteq Ending /\ d.endings # {} \* what an answer does

VARIABLES o     \* the document, its overlays and its unanswered calls

Init ==
    \E d \in Papers :
        o = [paper    |-> d,
             kind     |-> [i \in Id |-> "none"],   \* .modal: alert or preloader
             class    |-> [i \in Id |-> "none"],   \* modal-in, modal-out
             stack    |-> <<>>,                    \* app.modalStack
             sheet    |-> [k \in Sheet |-> "none"],
             over     |-> FALSE,                   \* .modal-overlay is visible
             popOver  |-> FALSE,                   \* .popup-overlay is visible
             asked    |-> 0]                       \* calls without an answer

In(s) == {i \in Id : s.class[i] = "in"}
Absent(s) == {i \in Id : s.class[i] = "none"}

-----------------------------------------------------------------------------
(* OpenUnstacked is a mutant: modalStack is not looked at. *)
OpenUnstacked(s, i) == [s EXCEPT !.class[i] = "in", !.over = TRUE]

(* openModal, for an element of class modal *)
OpenModal(s, i) ==
    IF In(s) # {}
    THEN [s EXCEPT !.stack = Append(@, i), !.class[i] = "stacked"]
    ELSE [s EXCEPT !.class[i] = "in", !.over = TRUE]

(* KeepStack is a mutant. *)
KeepStack(s) == s

(* modalStackClearQueue *)
ModalStackClearQueue(s) ==
    IF s.stack = <<>> THEN s
    ELSE OpenModal([s EXCEPT !.stack = Tail(@)], Head(s.stack))

(* closeModal, for all elements of class modal that a selector matches *)
CloseModal(s, ids) ==
    IF ids = {} THEN s
    ELSE ModalStackClearQueue(
            [s EXCEPT !.over = FALSE,
                      !.class = [i \in Id |-> IF i \in ids THEN "out" ELSE @[i]]])

(* app.modal: a new element at the end of the body *)
Modal(s, kind) ==
    LET i == CHOOSE j \in Absent(s) : TRUE
    IN  OpenModal([s EXCEPT !.kind[i] = kind], i)

Alert(s) == Modal(s, "alert")
ShowPreloader(s) == Modal(s, "preloader")
HidePreloader(s) == CloseModal(s, In(s))

(* openModal, for a sheet *)
OpenSheet(s, k) ==
    [s EXCEPT !.sheet[k] = "in",
              !.over = @ \/ k \in {"popover", "actions"},
              !.popOver = @ \/ k = "popup"]

(* closeModal, for a sheet that the selector matches; no transition for a popover *)
CloseSheet(s, k) ==
    [s EXCEPT !.sheet[k] = IF k = "popover" THEN "none" ELSE "out",
              !.over = @ /\ k \in {"popup", "picker"},
              !.popOver = @ /\ k # "popup"]

CloseShown(s, k) == IF s.sheet[k] = "in" THEN CloseSheet(s, k) ELSE s

(* the callbacks of a call, in the orders the documents have them *)
End(s, e) ==
    CASE e = "hide"      -> HidePreloader(s)
      [] e = "hideAlert" -> Alert(HidePreloader(s))
      [] e = "alertHide" -> HidePreloader(Alert(s))

-----------------------------------------------------------------------------
(* Every unanswered call may need room for an alert. *)
Room(n) == Cardinality(Absent(o)) >= o.asked + n

(* A tap on a link that opens a sheet. *)
TapOpen(k) ==
    /\ k \in o.paper.sheets /\ o.sheet[k] # "in"
    /\ ~o.over /\ ~o.popOver
    /\ o' = OpenSheet(o, k)

(* A tap on a link of the sheet that closes it. *)
TapClose(k) ==
    /\ o.sheet[k] = "in" /\ k # "actions"
    /\ o' = CloseSheet(o, k)

(* A button of app.actions, also while they are on their way out, and its *)
(* onClick, which may show an alert, over which no other one is asked for; *)
(* a button with close: false leaves the actions.                         *)
ActionsButton(closes, alerts) ==
    /\ o.sheet["actions"] # "none" /\ (alerts => In(o) = {} /\ Room(1))
    /\ LET s == IF closes THEN CloseSheet(o, "actions") ELSE o
       IN  o' = IF alerts THEN Alert(s) ELSE s

(* A tap beside what is shown: modalCloseByOutside is off. *)
TapOverlay ==
    /\ o.over
    /\ o' = CloseShown(CloseShown(o, "actions"), "popover")

TapPopupOverlay ==
    /\ o.popOver /\ ~o.over
    /\ o' = CloseShown(o, "popup")

(* OK on an alert, also on one that is on its way out. *)
TapButton(i) ==
    /\ o.kind[i] = "alert" /\ o.class[i] \in {"in", "out"}
    /\ o' = CloseModal(o, {i})

(* A form of the page is sent: check_submit, link-saord, finditem_submit. *)
Send ==
    /\ o.paper.asks /\ ~o.over /\ ~o.popOver /\ Room(2)
    /\ o' = [ShowPreloader(o) EXCEPT !.asked = @ + 1]

(* The same with a field that is empty. *)
SendEmpty ==
    /\ o.paper.asks /\ ~o.over /\ ~o.popOver /\ Room(2)
    /\ o' = Alert(HidePreloader(ShowPreloader(o)))

(* show_list: a call without a preloader. *)
SendBare ==
    /\ o.paper.bare /\ ~o.over /\ ~o.popOver /\ Room(1)
    /\ o' = [o EXCEPT !.asked = @ + 1]

(* An item of the popover: onSave closes the popover, then shows the *)
(* preloader; getLocation does so the other way round.               *)
SendFromMenu ==
    /\ o.sheet["popover"] = "in" /\ Room(2)
    /\ \/ /\ o.paper.menu = "closeFirst"
          /\ o' = [ShowPreloader(CloseSheet(o, "popover")) EXCEPT !.asked = @ + 1]
       \/ /\ o.paper.menu = "showFirst"
          /\ o' = [CloseSheet(ShowPreloader(o), "popover") EXCEPT !.asked = @ + 1]

(* The success or the error callback of a call. *)
Answer ==
    /\ o.asked > 0
    /\ \E e \in o.paper.endings : o' = [End(o, e) EXCEPT !.asked = @ - 1]

(* The transition of a modal that closes ends: the element is removed. *)
ModalGone(i) ==
    /\ o.class[i] = "out"
    /\ o' = [o EXCEPT !.class[i] = "none", !.kind[i] = "none"]

SheetGone(k) ==
    /\ o.sheet[k] = "out"
    /\ o' = [o EXCEPT !.sheet[k] = "none"]

TapAlert == \E i \in Id : o.class[i] = "in" /\ TapButton(i)
Gone == (\E i \in Id : ModalGone(i)) \/ (\E k \in Sheet : SheetGone(k))

Next ==
    \/ \E k \in Sheet : TapOpen(k) \/ TapClose(k)
    \/ \E closes, alerts \in BOOLEAN : ActionsButton(closes, alerts)
    \/ TapOverlay \/ TapPopupOverlay
    \/ \E i \in Id : TapButton(i)
    \/ Send \/ SendEmpty \/ SendBare \/ SendFromMenu
    \/ Answer
    \/ Gone

Spec == Init /\ [][Next]_o

-----------------------------------------------------------------------------
(* At most one modal is shown, whatever is tapped twice or answered late,  *)
(* and modals wait only behind one that is shown: none of them is lost and *)
(* none waits twice (openModal pushes, closeModal shifts once per call).   *)
OneModal ==
    /\ Cardinality(In(o)) <= 1
    /\ o.stack # <<>> => In(o) # {}
    /\ {o.stack[n] : n \in DOMAIN o.stack} = {i \in Id : o.class[i] = "stacked"}
    /\ \A m, n \in DOMAIN o.stack : o.stack[m] = o.stack[n] => m = n

(* The overlay is there whenever a modal is. *)
Covered == In(o) # {} => o.over

PreloaderThere == \E i \in Id : o.kind[i] = "preloader" /\ o.class[i] \in {"in", "stacked"}

=============================================================================
