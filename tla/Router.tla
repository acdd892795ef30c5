------------------------------- MODULE Router -------------------------------
(***************************************************************************)
(* The navigation of the business documents: one Framework7 view with      *)
(* inline pages (domCache), preloaded previous page, animated transitions  *)
(* and, where the document asks for it, the browser's history.             *)
(*                                                                         *)
(* A page is its name, and also its url: '#name' for an inline page, and   *)
(* '#content-n' for the page of a smart select, of which there is at most  *)
(* one.  Navigation is a chain of synchronous calls that ends by starting  *)
(* an animation; such a chain is an operator on the record "view", and the *)
(* event that starts it is an action.  Navbars follow their pages and are  *)
(* left out.                                                               *)
(***************************************************************************)
EXTENDS Naturals, FiniteSets, Sequences

CONSTANTS
    Inline,     \* names of the inline pages of the document
    Home,       \* the inline page that is shown first
    Select,     \* the page of a smart select, made when it is opened
    Missing,    \* the name of no page
    Documents,  \* what the documents have and ask for, see below
    MaxDepth    \* bound on the length of the view's history

Page == Inline \cup {Select}

RouterAssumption ==
    /\ Home \in Inline
    /\ Select \notin Inline
    /\ Missing \notin Page
    /\ \A d \in Documents :
          /\ d.pushState \in BOOLEAN           \* uses the browser's history
          /\ d.backKey \in {"router", "browser"} \* who handles the back key
          /\ d.links \subseteq Inline \X (Inline \cup {Missing})
          /\ d.selects \subseteq Inline        \* pages with a smart select
          \* no way along the links comes back to where it began
          /\ \A S \in SUBSET Inline :
                S # {} => \E p \in S : \A q \in S : <<q, p>> \notin d.links
          \* left to the browser: one page, with smart selects
          /\ d.backKey = "browser" => d.links = {}
    /\ MaxDepth \in Nat \ {0}

VARIABLES
    doc,        \* the document that is loaded
    view,       \* the view, the pages in the DOM and the browser's history
    touch       \* the finger on the page: swipe back

vars == <<doc, view, touch>>

Still == [kind |-> "none"]
NoTouch == [state |-> "none"]

Init ==
    /\ doc \in Documents
    /\ view = [allow   |-> TRUE,            \* view.allowPageChange
               url     |-> Home,            \* view.url
               active  |-> Home,            \* view.activePage.name
               history |-> <<Home>>,        \* view.history
               shown   |-> <<Home>>,        \* .page:not(.cached), DOM order
               cached  |-> Inline \ {Home}, \* .page.cached
               ready   |-> {Home},          \* f7PageInitialized
               on      |-> [p \in Page |-> "none"], \* class page-on-...
               moving  |-> Still,           \* the animation under way
               queue   |-> <<>>,            \* app.pushStateQueue
               entries |-> <<Home>>,        \* window.history, oldest first
               at      |-> 1,               \* index of its current entry
               pending |-> 0]               \* calls of history.back()
    /\ touch = NoTouch

Within(q) == {q[i] : i \in DOMAIN q}
Upto(q, n) == [i \in 1 .. n |-> q[i]]
Front(q) == Upto(q, Len(q) - 1)
Last(q) == q[Len(q)]

(* elements of the DOM: p is removed, p is inserted before another *)
PlaceOf(q, p) == CHOOSE i \in DOMAIN q : q[i] = p
Without(q, p) ==
    IF p \notin Within(q) THEN q
    ELSE [i \in 1 .. Len(q) - 1 |-> q[IF i < PlaceOf(q, p) THEN i ELSE i + 1]]
Insert(q, p, next) ==
    LET at == PlaceOf(q, next)
    IN  [i \in 1 .. Len(q) + 1 |-> IF i < at THEN q[i] ELSE IF i = at THEN p ELSE q[i - 1]]

InDOM(v) == Within(v.shown) \cup v.cached

(* the url router.back goes to; Missing stands for undefined *)
Previous(h) == IF Len(h) > 1 THEN h[Len(h) - 1] ELSE Missing

(* pageAnimCallback 'before': the view's active page *)
Activate(v, p) == [v EXCEPT !.active = p]

(* pageInitCallback, initPage: widgets are set up and handlers called once *)
PageInit(v, p) == [v EXCEPT !.ready = @ \cup {p}]

(* animatePages: both pages lose their place until the animation ends *)
AnimatePages(v, kind, new, old) ==
    [v EXCEPT !.on = [@ EXCEPT ![new] = "none", ![old] = "none"],
              !.moving = [kind |-> kind, new |-> new, old |-> old]]

-----------------------------------------------------------------------------
(* GoBackNever is a mutant. *)
GoBackNever(v, push) == v

(* router._back: history.back() if there is a state to go back from *)
GoBackInBrowser(v, push) ==
    IF doc.pushState /\ push /\ v.at > 1
    THEN [v EXCEPT !.pending = @ + 1] ELSE v

(* _back: animateBack, the page "new" slides in from the left *)
AnimateBack(v, new, old) == AnimatePages(Activate(v, new), "back", new, old)

(* _back with a page on the left *)
BackSimple(v, push) ==
    AnimateBack([GoBackInBrowser(v, push) EXCEPT !.url = Previous(v.history)],
                Last(Front(v.shown)), Last(v.shown))

(* _back, setPages: a cached page is put before the one that leaves *)
SetPages(v, p) ==
    AnimateBack(PageInit([v EXCEPT !.shown = Insert(@, p, Last(@)), !.cached = @ \ {p}], p),
                p, Last(v.shown))

(* _back without a page on the left: the previous url names a cached page *)
BackToCached(v, push) ==
    LET url == Previous(v.history)
        w == [GoBackInBrowser(v, push) EXCEPT !.url = url]
    IN  IF url \notin InDOM(v) THEN [w EXCEPT !.allow = TRUE]
        ELSE SetPages(w, url)

(* BackKeepsLock is a mutant: the early return forgets allowPageChange. *)
BackKeepsLock(v, push) ==
    IF ~v.allow THEN v
    ELSE LET w == [v EXCEPT !.allow = FALSE]
         IN  IF Len(v.shown) > 1 THEN BackSimple(w, push)
             ELSE IF Previous(v.history) = Missing THEN w
             ELSE BackToCached(w, push)

(* router.back *)
Back(v, push) ==
    IF ~v.allow THEN v
    ELSE LET w == [v EXCEPT !.allow = FALSE]
         IN  IF Len(v.shown) > 1 THEN BackSimple(w, push)
             ELSE IF Previous(v.history) = Missing THEN v
             ELSE BackToCached(w, push)

(* DropCompletely is a mutant: without the domCache branch of afterBack. *)
DropCompletely(v, old, new) ==
    [v EXCEPT !.shown = Without(@, old), !.ready = @ \ {old},
              !.on = [@ EXCEPT ![new] = "center"],
              !.allow = TRUE, !.moving = Still, !.history = Front(@)]

(* afterBack: the old page is cached or removed, the history shortened *)
DropOld(v, old, new) ==
    LET h == Front(v.history)
        gone == {old} \ Inline
    IN  [v EXCEPT !.shown = Without(@, old),
                  !.ready = @ \ gone,
                  !.cached = {p \in @ \cup {old} : p \in Inline \/
                                (p # old /\ p \in Within(h))},
                  !.on = [@ EXCEPT ![new] = "center"],
                  !.allow = TRUE,
                  !.moving = Still,
                  !.history = h]

(* PreloadNothing is a mutant: nothing to swipe back to. *)
PreloadNothing(v, new) == v

(* afterBack: the page before it is put on the left again *)
Preload(v, new) ==
    LET p == Previous(v.history)
    IN  IF p = Missing THEN v
        ELSE [v EXCEPT !.shown = Insert(Without(@, p), p, new),
                       !.cached = @ \ {p},
                       !.on = [@ EXCEPT ![p] = "left"]]

-----------------------------------------------------------------------------
(* _load: all pages but the last are cached, the new one is appended *)
ShowOnTop(v, p) ==
    LET old == Last(v.shown)
    IN  [v EXCEPT !.shown = <<old, p>>, !.cached = InDOM(v) \ {old, p}]

(* _load: afterwards the new page is initialised and slides in *)
SlideIn(v, p) ==
    AnimatePages(Activate(PageInit(ShowOnTop(v, p), p), p), "load", p, Last(v.shown))

(* _load: history.pushState drops what was in front *)
PushEntry(v, p, push) ==
    IF doc.pushState /\ push
    THEN [v EXCEPT !.entries = Append(Upto(@, v.at), p), !.at = @ + 1]
    ELSE v

(* router.load; a page that does not exist or is active is not loaded *)
Load(v, p, push) ==
    IF ~v.allow \/ p \notin Page \/ p = v.active THEN v
    ELSE LET w == [PushEntry(v, p, push) EXCEPT !.allow = FALSE, !.url = p,
                                                !.history = Append(@, p)]
         IN  SlideIn(w, p)

(* pushStateClearQueue takes the last entry; its back has no pushState: false *)
PushStateClearQueue(v) ==
    IF v.queue = <<>> THEN v
    ELSE LET w == [v EXCEPT !.queue = Front(@)]
         IN  IF Last(v.queue) = "back" THEN Back(w, TRUE)
             ELSE Load(w, Last(v.queue), FALSE)

AfterBack(v, old, new) ==
    Preload(PushStateClearQueue(DropOld(v, old, new)), new)

(* _load: afterAnimation *)
AfterLoad(v, new, old) ==
    PushStateClearQueue(
        [v EXCEPT !.allow = TRUE,
                  !.moving = Still,
                  !.on = [@ EXCEPT ![new] = "center", ![old] = "left"]])

(* handlePopState: the entry that is current now against the view's url *)
HandlePopState(v) ==
    LET url == IF v.at = 1 THEN v.history[1] ELSE v.entries[v.at]
    IN  IF url = v.url THEN v
        ELSE IF url \in Within(v.history)
             THEN IF v.allow THEN Back(v, FALSE)
                  ELSE [v EXCEPT !.queue = Append(@, "back")]
             ELSE IF v.allow THEN Load(v, url, FALSE)
                  ELSE [v EXCEPT !.queue = <<url>> \o @]

-----------------------------------------------------------------------------
(* A tap on a link, handled by handleClicks. *)
Follow(p) ==
    /\ touch.state # "moved" /\ view.pending = 0
    /\ <<view.active, p>> \in doc.links
    /\ Len(view.history) < MaxDepth
    /\ view' = Load(view, p, TRUE)
    /\ UNCHANGED <<doc, touch>>

(* A tap on a smart select: smartSelectOpen loads a page made for it. *)
OpenSelect ==
    /\ touch.state # "moved" /\ view.pending = 0
    /\ view.active \in doc.selects
    /\ Len(view.history) < MaxDepth
    /\ view' = Load(view, Select, TRUE)
    /\ UNCHANGED <<doc, touch>>

(* An option of the smart select is tapped (data-back-on-select). *)
Choose ==
    /\ touch.state # "moved" /\ view.pending = 0
    /\ Select \in view.ready /\ view.active = Select
    /\ view' = Back(view, TRUE)
    /\ UNCHANGED <<doc, touch>>

(* A link of class back, a script of the document when an answer has come, *)
(* or the back key where the document handles it.                          *)
GoBack ==
    /\ touch.state # "moved" /\ view.pending = 0
    /\ view' = Back(view, TRUE)
    /\ UNCHANGED <<doc, touch>>

(* The back key where the document leaves it to the browser. *)
BackKey ==
    /\ doc.backKey = "browser"
    /\ touch.state # "moved" /\ view.pending = 0
    /\ view.at > 1
    /\ view' = [view EXCEPT !.pending = @ + 1]
    /\ UNCHANGED <<doc, touch>>

(* The browser has gone back one entry, if there is one, and says so. *)
(* That takes a few milliseconds: no animation ends and no tap arrives *)
(* meanwhile (the conjuncts view.pending = 0).                         *)
PopState ==
    /\ view.pending > 0
    /\ view' = LET w == [view EXCEPT !.pending = @ - 1]
               IN  IF view.at = 1 THEN w
                   ELSE HandlePopState([w EXCEPT !.at = @ - 1])
    /\ UNCHANGED <<doc, touch>>

(* The animation of a transition ends. *)
AnimationEnd ==
    /\ view.pending = 0
    /\ \/ /\ view.moving.kind = "load"
          /\ view' = AfterLoad(view, view.moving.new, view.moving.old)
       \/ /\ view.moving.kind = "back"
          /\ view' = AfterBack(view, view.moving.old, view.moving.new)
    /\ UNCHANGED <<doc, touch>>

-----------------------------------------------------------------------------
(* view.handleTouchStart *)
TouchStart ==
    /\ touch = NoTouch
    /\ touch' = [state |-> "touched"]
    /\ UNCHANGED <<doc, view>>

OnLeft == {i \in DOMAIN view.shown : view.on[view.shown[i]] = "left"}

(* view.handleTouchMove: the first move decides whether this is a swipe; *)
(* p is the page under the finger.                                      *)
TouchMove(p) ==
    /\ touch.state = "touched"
    /\ view.pending = 0
    /\ \E i \in DOMAIN view.shown : view.shown[i] = p /\ i \notin OnLeft
    /\ \/ touch' = NoTouch       \* a scroll, or not from the border
       \/ \E i \in OnLeft : touch' = [state |-> "moved", active |-> p,
                                     previous |-> view.shown[i]]
    /\ UNCHANGED <<doc, view>>

(* view.handleTouchEnd: far is whether the finger went far enough *)
TouchEnd(far) ==
    /\ \/ /\ touch.state = "touched" \/ (touch.state = "moved" /\ ~far)
          /\ touch' = NoTouch
          /\ UNCHANGED view
       \/ /\ touch.state = "moved"
          /\ touch' = [touch EXCEPT !.state = IF far THEN "back" ELSE "reset"]
          /\ view' = [view EXCEPT
                        !.allow = FALSE,
                        !.url = IF far THEN Previous(view.history) ELSE @,
                        !.active = IF far THEN touch.previous ELSE @,
                        !.on = IF far THEN [@ EXCEPT ![touch.active] = "right",
                                               ![touch.previous] = "center"]
                                      ELSE @]
    /\ UNCHANGED doc

(* The transition after a swipe ends. *)
TransitionEnd ==
    /\ touch.state \in {"back", "reset"} /\ view.pending = 0
    /\ view' = IF touch.state = "reset" THEN [view EXCEPT !.allow = TRUE]
               ELSE LET w == IF doc.pushState THEN [view EXCEPT !.pending = @ + 1]
                             ELSE view
                    IN  AfterBack([w EXCEPT !.allow = TRUE],
                                  touch.active, touch.previous)
    /\ touch' = NoTouch
    /\ UNCHANGED doc

Navigate == (\E p \in Page \cup {Missing} : Follow(p)) \/ OpenSelect \/ Choose \/ GoBack \/ BackKey
Lift == \E far \in BOOLEAN : TouchEnd(far)
Swipe == TouchStart \/ (\E p \in Page : TouchMove(p)) \/ Lift
Settle == PopState \/ AnimationEnd \/ TransitionEnd

Next == Navigate \/ Swipe \/ Settle

Spec == Init /\ [][Next]_vars

-----------------------------------------------------------------------------
Idle == view.allow /\ view.pending = 0 /\ touch.state # "moved"

(* Whenever a page change is allowed, the url, the active page, the top of  *)
(* the history and the page on the screen are the same, and the page that a *)
(* swipe back would uncover is the one that router.back would go to         *)
(* (afterBack, _load and handleTouchEnd update them in different orders).   *)
ShownIsTop ==
    Idle => LET h == view.history IN
        /\ view.url = Last(h) /\ view.active = Last(h)
        /\ view.shown = IF Len(h) = 1 THEN h ELSE <<Previous(h), Last(h)>>
        /\ view.on[Last(h)] \in {"none", "center"}
        /\ Len(h) > 1 => view.on[Previous(h)] = "left"

(* With domCache no inline page is ever lost or in the DOM twice, the page *)
(* of a smart select is there only while it is in the history, at most two  *)
(* pages are out of the cache, and a page that can be seen has been         *)
(* initialised, also one that afterBack puts back without pageInitCallback. *)
PagesKept ==
    /\ Inline \subseteq InDOM(view)
    /\ Select \in InDOM(view) => Select \in Within(view.history)
    /\ Len(view.shown) \in {1, 2}
    /\ Len(view.shown) = 2 => view.shown[1] # view.shown[2]
    /\ \A i \in DOMAIN view.shown : /\ view.shown[i] \notin view.cached
                                  /\ view.shown[i] \in view.ready

(* When nothing is under way or queued the browser's history up to its *)
(* current entry is the view's: the back key and the back link agree.  *)
BrowserInStep ==
    (Idle /\ doc.pushState /\ view.queue = <<>>)
        => Upto(view.entries, view.at) = view.history

(* allowPageChange, the lock of all navigation, is always released, and a *)
(* back key pressed while a page slides in is not lost.                    *)
NavigationGoesOn ==
    /\ ~view.allow ~> view.allow
    /\ (view.queue # <<>> /\ view.moving # Still) ~> view.queue = <<>>
=============================================================================
