------------------------------- MODULE Startup -------------------------------
(***************************************************************************)
(* The start of a page: the channels of cordova.js and how init, the       *)
(* platform, the plugin loader and the document subscribe to them and fire *)
(* them, until "deviceready" reaches the document and its handler for the  *)
(* back key tells the native side to leave that key to the page.           *)
(*                                                                         *)
(* A function that a channel holds may subscribe and fire in its turn: Run *)
(* is any call, Call one that comes of it.  The list of plugins of this    *)
(* repository is empty; the loader is modelled for any list.               *)
(***************************************************************************)
EXTENDS Naturals, FiniteSets, Sequences

CONSTANTS
    Plugin,     \* modules that cordova_plugins.js may list
    Handler     \* the document's handlers for the back key

Channel == {"dom", "native", "plugins", "cordova", "deviceready", "backbutton"}
Sticky == Channel \ {"backbutton"}
Own == {"init", "ready", "show", "onDeviceReady"}

StartupAssumption == Handler # {} /\ Handler \cap Own = {}

VARIABLES s     \* the page

(* The two calls of channel.join *)
Joined == [init |-> <<"native", "plugins">>, ready |-> <<"cordova", "dom">>]

-----------------------------------------------------------------------------
(* what the handler of "deviceready" subscribes: onBackKeyDown *)
OnBackKeyDown == CHOOSE h \in Handler : TRUE

(* modulemapper.mapModules: the modules get their names on window *)
MapModules(p) == [p EXCEPT !.mapped = p.listed]

(* require: the factory runs once; a module that is not defined throws *)
CanRequire(p, modules) == modules \subseteq p.defined

(* platform.bootstrap: exec("overrideBackbutton", [numHandlers == 1]) *)
OnHasSubscribersChange(p, c) ==
    IF c # "backbutton" THEN p
    ELSE [p EXCEPT !.override = (Cardinality(p.handlers[c]) = 1)]

(* The handler is held, once for each guid. *)
Hold(p, c, f) ==
    IF f \in p.handlers[c] THEN p
    ELSE LET q == [p EXCEPT !.handlers[c] = @ \cup {f}]
         IN  IF Cardinality(q.handlers[c]) = 1 THEN OnHasSubscribersChange(q, c) ELSE q

(* Channel.subscribe: called at once if the channel has fired, else held *)
Subscribing(p, c, f, Do(_, _)) == IF c \in p.fired THEN Do(p, f) ELSE Hold(p, c, f)

(* channel.join: f is subscribed to each of the channels *)
Joining(p, f, Do(_, _)) ==
    Subscribing(Subscribing([p EXCEPT !.count[f] = Len(Joined[f])], Joined[f][1], f, Do),
                Joined[f][2], f, Do)

(* The handlers in turn; those for the back key are alike, and a channel    *)
(* has one other at most.                                                   *)
Each(p, fs, Do(_, _)) ==
    LET q == IF fs \cap Handler = {} THEN p ELSE [p EXCEPT !.pressed = 0]
    IN  IF fs \cap Own = {} THEN q ELSE Do(q, CHOOSE f \in fs \cap Own : TRUE)

(* Channel.fire: a sticky channel remembers it and forgets its handlers *)
Firing(p, c, Do(_, _)) ==
    LET q == Each([p EXCEPT !.fired = @ \cup ({c} \cap Sticky)], p.handlers[c], Do)
    IN  IF c \in Sticky THEN [q EXCEPT !.handlers[c] = {}] ELSE q

(* the function given to join is called when its count is 0 *)
Countdown(p, f) == [p EXCEPT !.count[f] = @ - 1]

(* what fires nothing; "backbutton" is not sticky *)
Call(p, f) ==
    CASE f = "ready" ->
            LET q == Countdown(p, f)
            IN  IF q.count[f] # 0 THEN q ELSE [q EXCEPT !.timers = Append(@, "deviceready")]
      [] f = "show" -> [p EXCEPT !.open = TRUE]
      [] f = "onDeviceReady" -> Hold([p EXCEPT !.readied = @ + 1], "backbutton", OnBackKeyDown)

(* "init" fires "cordova" and joins, the only one that does *)
RunInit(p) ==
    LET q == Countdown(p, "init")
    IN  IF q.count["init"] # 0 THEN q
        ELSE Joining(Firing(MapModules(q), "cordova", Call), "ready", Call)

Run(p, f) == IF f = "init" THEN RunInit(p) ELSE Call(p, f)

(* SubscribeOnly is a mutant: what has fired is not called again. *)
SubscribeOnly(p, c, f) == [p EXCEPT !.handlers[c] = @ \cup {f}]

Subscribe(p, c, f) == Subscribing(p, c, f, Run)

Unsubscribe(p, c, f) ==
    IF f \notin p.handlers[c] THEN p
    ELSE LET q == [p EXCEPT !.handlers[c] = @ \ {f}]
         IN  IF q.handlers[c] = {} THEN OnHasSubscribersChange(q, c) ELSE q

Fire(p, c) == Firing(p, c, Run)

(* JoinAny is a mutant: one channel is enough. *)
JoinAny(p, f) ==
    Subscribe(Subscribe([p EXCEPT !.count[f] = 1], Joined[f][1], f), Joined[f][2], f)

Join(p, f) == Joining(p, f, Run)

-----------------------------------------------------------------------------
(* Loaded: cordova/init has run up to its end; bootstrap has called         *)
(* exec.init, which fires onNativeReady; the plugin loader waits for its    *)
(* timer.  The document may still be loading or not.                        *)
Start ==
    [fired    |-> {},
     handlers |-> [c \in Channel |-> {}],
     count    |-> [f \in {"init", "ready"} |-> 0],
     timers   |-> <<"load">>,   \* setTimeout(.., 0), in order
     listed   |-> {},           \* the modules in cordova/plugin_list
     scripts  |-> {},           \* scripts that are being loaded
     defined  |-> {},           \* define.moduleMap
     mapped   |-> {},           \* modules with a name on window
     broken   |-> FALSE,        \* the plugin loader has thrown
     loaded   |-> FALSE,        \* the document's onload has run
     open     |-> FALSE,        \* the message channel is open
     readied  |-> 0,            \* calls of the document's onDeviceReady
     override |-> FALSE,        \* CoreAndroid: the page gets the back key
     pressed  |-> 0,            \* back keys on their way to the page
     left     |-> FALSE]        \* a back key has closed the page

Init ==
    \E early \in BOOLEAN :
        LET p == Fire(Subscribe(Start, "cordova", "show"), "native")
        IN  s = Join(IF early THEN Fire(p, "dom") ELSE p, "init")

Alive == ~s.left

(* the document is interactive *)
DOMContentLoaded ==
    /\ Alive /\ "dom" \notin s.fired
    /\ s' = Fire(s, "dom")

(* onload of the body: document.addEventListener("deviceready", ...), which *)
(* cordova has replaced                                                     *)
OnLoad ==
    /\ Alive /\ "dom" \in s.fired /\ ~s.loaded
    /\ s' = Subscribe([s EXCEPT !.loaded = TRUE], "deviceready", "onDeviceReady")

(* fireDocumentEvent, its timer; or pluginloader.load: the list is a script *)
Timer ==
    /\ Alive /\ s.timers # <<>>
    /\ LET p == [s EXCEPT !.timers = Tail(@)]
       IN  s' = IF Head(s.timers) = "load" THEN [p EXCEPT !.scripts = {"list"}]
                ELSE Fire(p, Head(s.timers))

(* onScriptLoadingComplete: a module that its script has not defined throws *)
FinishLoading(p) ==
    IF CanRequire(p, p.listed) THEN Fire(p, "plugins") ELSE [p EXCEPT !.broken = TRUE]

(* handlePluginsObject *)
ListLoaded ==
    /\ Alive /\ "list" \in s.scripts
    /\ \E modules \in SUBSET Plugin :
          s' = IF modules = {} THEN Fire([s EXCEPT !.scripts = {}], "plugins")
               ELSE [s EXCEPT !.scripts = modules, !.listed = modules]

(* The list cannot be loaded: injectIfNecessary calls its callback. *)
ListFailed ==
    /\ Alive /\ "list" \in s.scripts
    /\ s' = Fire([s EXCEPT !.scripts = {}], "plugins")

(* scriptLoadedCallback, also for a script that failed *)
ScriptLoaded(m) ==
    /\ Alive /\ m \in s.scripts \ {"list"}
    /\ \E ok \in BOOLEAN :
          LET p == [s EXCEPT !.scripts = @ \ {m},
                             !.defined = IF ok THEN @ \cup {m} ELSE @]
          IN  s' = IF p.scripts = {} THEN FinishLoading(p) ELSE p

(* The document adds a handler for the back key, or takes one away. *)
AddBackKey(h) ==
    /\ Alive /\ s.readied > 0
    /\ s' = Subscribe(s, "backbutton", h)

RemoveBackKey(h) ==
    /\ Alive /\ s.readied > 0
    /\ s' = Unsubscribe(s, "backbutton", h)

(* The back key: a message for the page if it has asked for the key. *)
PressBack ==
    /\ Alive /\ s.pressed = 0
    /\ s' = IF s.override THEN [s EXCEPT !.pressed = 1] ELSE [s EXCEPT !.left = TRUE]

(* onMessageFromNative: fireDocumentEvent('backbutton') *)
BackMessage ==
    /\ Alive /\ s.open /\ s.pressed = 1
    /\ s' = [s EXCEPT !.pressed = 2, !.timers = Append(@, "backbutton")]

Next ==
    \/ DOMContentLoaded \/ OnLoad \/ Timer
    \/ ListLoaded \/ ListFailed
    \/ \E m \in Plugin : ScriptLoaded(m)
    \/ \E h \in Handler : AddBackKey(h) \/ RemoveBackKey(h)
    \/ PressBack \/ BackMessage

Loading == DOMContentLoaded \/ OnLoad \/ Timer \/ ListLoaded \/ ListFailed
              \/ (\E m \in Plugin : ScriptLoaded(m))

-----------------------------------------------------------------------------
(* "deviceready" reaches the document once, whenever its onload runs, and   *)
(* not before the page is parsed, the plugins have their names and the      *)
(* channel to the native side is open; the native side leaves the back key  *)
(* to the page exactly while the page has a handler for it.                 *)
ReadyOnce ==
    /\ s.readied <= 1
    /\ s.readied = 1 => /\ {"native", "plugins", "cordova", "dom"} \subseteq s.fired
                        /\ s.open /\ s.mapped = s.listed /\ s.scripts = {}
    /\ s.override <=> s.handlers["backbutton"] # {}
=============================================================================
