------------------------------ MODULE PageParts ------------------------------
(***************************************************************************)
(* The parts of a page of a business document, side by side: each behaviour*)
(* is one of one part, which keeps the variable w as its own; the router   *)
(* has three.  The parts share no state but the DOM below different        *)
(* elements; what they do to each other goes through the events of their   *)
(* own actions.                                                            *)
(***************************************************************************)
EXTENDS DocumentParts

CONSTANTS
    Item, NoItem, RowsBefore, RowsToRender,         \* VirtualList
    Group, PickerRows, Unlisted,                    \* Picker
    Image, Bare,                                    \* LazyImages
    Inline, Home, Select, Missing, Documents, MaxDepth \* Router

VARIABLES doc, view, touch    \* the router's

List == INSTANCE VirtualList WITH v <- w
Pick == INSTANCE Picker WITH k <- w, Rows <- PickerRows
Lazy == INSTANCE LazyImages WITH g <- w
Route == INSTANCE Router

ASSUME PagePartsAssumption ==
    /\ List!VirtualListAssumption
    /\ Pick!PickerAssumption
    /\ Lazy!LazyImagesAssumption
    /\ Route!RouterAssumption

router == <<doc, view, touch>>
vars == <<part, w, doc, view, touch>>

InitOfOne ==
    \/ part = "overlays" /\ Overlay!Init
    \/ part = "startup" /\ Start!Init
    \/ part = "taps" /\ Tap!Init
    \/ part = "virtualList" /\ List!Init
    \/ part = "swipes" /\ Swipe!Init
    \/ part = "calendar" /\ Month!Init
    \/ part = "picker" /\ Pick!Init
    \/ part = "panels" /\ Panel!Init
    \/ part = "forms" /\ Form!Init
    \/ part = "orderList" /\ Order!Init
    \/ part = "pull" /\ Pull!Init
    \/ part = "searchbar" /\ Bar!Init
    \/ part = "images" /\ Lazy!Init

Init ==
    \/ InitOfOne /\ doc = "none" /\ view = "none" /\ touch = "none"
    \/ part = "router" /\ w = "none" /\ Route!Init

NextOfOne ==
    \/ part = "overlays" /\ Overlay!Next
    \/ part = "startup" /\ Start!Next
    \/ part = "taps" /\ Tap!Next
    \/ part = "virtualList" /\ List!Next
    \/ part = "swipes" /\ Swipe!Next
    \/ part = "calendar" /\ Month!Next
    \/ part = "picker" /\ Pick!Next
    \/ part = "panels" /\ Panel!Next
    \/ part = "forms" /\ Form!Next
    \/ part = "orderList" /\ Order!Next
    \/ part = "pull" /\ Pull!Next
    \/ part = "searchbar" /\ Bar!Next
    \/ part = "images" /\ Lazy!Next

Next ==
    /\ UNCHANGED part
    /\ \/ NextOfOne /\ UNCHANGED router
       \/ part = "router" /\ Route!Next /\ UNCHANGED w

(* Calls are answered, alerts are read, transitions end, and what a page   *)
(* is made of is loaded.                                                   *)
Fairness ==
    /\ WF_vars(part = "overlays" /\ Overlay!Answer /\ UNCHANGED <<part, router>>)
    /\ WF_vars(part = "overlays" /\ Overlay!TapAlert /\ UNCHANGED <<part, router>>)
    /\ WF_vars(part = "overlays" /\ Overlay!Gone /\ UNCHANGED <<part, router>>)
    /\ WF_vars(part = "startup" /\ Start!Loading /\ UNCHANGED <<part, router>>)
    /\ WF_vars(part = "startup" /\ Start!BackMessage /\ UNCHANGED <<part, router>>)
    /\ WF_vars(part = "router" /\ Route!Settle /\ UNCHANGED <<part, w>>)
    /\ WF_vars(part = "router" /\ Route!Lift /\ UNCHANGED <<part, w>>)

Spec == Init /\ [][Next]_vars /\ Fairness

-----------------------------------------------------------------------------
(* At most one modal is shown, and no alert or preloader that waits for its *)
(* turn is lost or waits twice (modalStack).                                *)
OneModal == part = "overlays" => Overlay!OneModal

(* A preloader goes when its call is answered, and the modals behind it get *)
(* their turn, in a document in which the overlay keeps taps off the page   *)
(* as long as a modal is shown (hidePreloader, closeModal).                 *)
PreloaderGoes ==
    [](part = "overlays" => Overlay!Covered) =>
        /\ (part = "overlays" /\ Overlay!PreloaderThere)
               ~> (part = "overlays" /\ ~Overlay!PreloaderThere)
        /\ (part = "overlays" /\ w.stack # <<>>) ~> (part = "overlays" /\ w.stack = <<>>)

(* "deviceready" reaches the document once and not too early, and the back  *)
(* key is the page's exactly while it has a handler (cordova/channel).      *)
ReadyOnce == part = "startup" => Start!ReadyOnce

(* "deviceready" reaches the document.                                      *)
ReadyComes ==
    [](part = "startup" => ~w.broken /\ Start!Alive) => (part = "startup" ~> (part = "startup" /\ w.readied = 1))

(* What the finger does is taken for what it is: a tap gives one click      *)
(* (initFastClicks); one row at most is swiped open, and the next touch     *)
(* closes it; one side panel at most is active, and displayed when nothing  *)
(* moves.                                                                   *)
TouchesAgree ==
    /\ part = "taps" => Tap!TapOnce
    /\ part = "swipes" => Swipe!OneRowOpen
    /\ part = "panels" => Panel!PanelsAgree

(* What is picked, written or stored is what is shown: the month of the     *)
(* calendar, the columns of the picker and the input they fill, a form that *)
(* is built again from what was stored, and a list that is searched.        *)
FieldsFollow ==
    /\ part = "calendar" => Month!MonthShown
    /\ part = "picker" => Pick!FieldFollows
    /\ part = "forms" => Form!FormKept
    /\ part = "searchbar" => Bar!ListMatches

(* A list shows what it has and what it asked for: the items at the place   *)
(* of the rows of a virtual list, the orders of a tab without a gap, a      *)
(* refresh exactly while it runs, and the images that have been in sight.   *)
ListsComplete ==
    /\ part = "virtualList" => List!RightRows
    /\ part = "orderList" => Order!ListComplete
    /\ part = "pull" => Pull!PullSettles
    /\ part = "images" => Lazy!NoneLeftOver

(* No page of a view is lost, and whenever a page change is allowed the     *)
(* url, the page on the screen, the view's history and the browser's agree. *)
PagesAgree ==
    part = "router" => Route!ShownIsTop /\ Route!PagesKept /\ Route!BrowserInStep

(* allowPageChange, the lock of all navigation, is always released, and a   *)
(* back key pressed while a page slides in is not lost.                     *)
NavigationGoesOn ==
    /\ (part = "router" /\ ~view.allow) ~> (part = "router" /\ view.allow)
    /\ (part = "router" /\ view.queue # <<>> /\ view.moving # Route!Still)
           ~> (part = "router" /\ view.queue = <<>>)
=============================================================================
