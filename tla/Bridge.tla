------------------------------- MODULE Bridge -------------------------------
(***************************************************************************)
(* The calls of a business document to the native side: hjbusiness.js,     *)
(* cordova/exec and the callbacks of cordova.js on the thread of the page, *)
(* HjBusiness.java behind them, and the way back: NativeToJsMessageQueue   *)
(* with its online/offline events, on the UI thread and the threads of the *)
(* asynchronous actions.                                                   *)
(*                                                                         *)
(* A result is delivered in one of two ways: exec() returns what is in the *)
(* queue when the call comes back, or an online/offline event of the       *)
(* WebView makes the page poll.  An event is only fired when the state of  *)
(* the network, as told to the WebView, changes: the native side keeps in  *)
(* "online" what it must tell next, and flips it when the page has polled. *)
(*                                                                         *)
(* MAX_PAYLOAD_SIZE is 500 MB: all of the queue goes at once, and the '*'  *)
(* that says that there is more is left out.                               *)
(***************************************************************************)
EXTENDS Naturals, Sequences

CONSTANTS
    Actions,    \* the actions the document calls, see below
    Channel,    \* callback id of CoreAndroid's messageChannel
    MaxCalls,   \* bound on the calls
    MaxEvents   \* bound on the events sent through the channel

Id == 1 .. MaxCalls
Callback == Id \cup {Channel}

ASSUME BridgeAssumption ==
    /\ MaxCalls \in Nat /\ MaxEvents \in Nat
    /\ Channel \notin Nat
       \* sync: answers before execute returns;  load: hjloaddata from the net,
       \* answers later with the data that "keys" names;  task: answers later;
       \* none: returns and never answers (backhome, f4keyscan, failed upload)
    /\ Actions \subseteq {"sync", "load", "task", "none"}

VARIABLES
    callbacks,  \* page: cordova.callbacks
    messages,   \* page: messagesFromNative, its batches in a row
    ticks,      \* page: scheduled calls of processMessages
    exec,       \* page and native: the call of exec() under way
    calls,      \* page: calls so far
    context,    \* HjBusiness: field callbackContext
    keys,       \* HjBusiness: field keys, as the call that set it
    tasks,      \* HjBusiness: asynchronous actions under way
    finished,   \* CallbackContext.finished
    queue,      \* NativeToJsMessageQueue.queue
    paused,     \* NativeToJsMessageQueue.paused
    online,     \* OnlineEventsBridgeMode.online
    ignore,     \* OnlineEventsBridgeMode.ignoreNextFlush
    ui,         \* "available" runnables posted to the UI thread
    net,        \* WebView: the state told by setNetworkAvailable
    events,     \* WebView: online/offline events on their way to the page
    overlap,    \* history: an action was executed while another had to answer
    sent,       \* history: all results put in the queue
    heard       \* history: all results that reached callbackFromNative

page == <<callbacks, messages, ticks, calls>>
plugin == <<context, keys, tasks>>
mode == <<online, ignore, net, events>>
vars == <<page, exec, plugin, finished, queue, paused, ui, mode, overlap, sent, heard>>

Idle == [step |-> "idle"]
NoCall == 0

(* Init: the page has run androidExec.init and its channel is open.  gap_init *)
(* has reset the mode, in the WebView or in one left offline by the last page. *)
Init ==
    /\ callbacks = {Channel} /\ messages = <<>> /\ ticks = 0
    /\ exec = Idle /\ calls = 0
    /\ context = NoCall /\ keys = NoCall /\ tasks = {}
    /\ finished = {}
    /\ queue = <<>> /\ paused = FALSE /\ ui = 0
    /\ online = FALSE /\ ignore = TRUE /\ net = TRUE /\ events \in {0, 1}
    /\ overlap = FALSE /\ sent = <<>> /\ heard = <<>>

-----------------------------------------------------------------------------
(* sendPluginResult: a context that is finished takes no second result.    *)
(* Then enqueueMessage: the mode is told unless the queue is paused.       *)
Send(to, of) ==
    IF to \in finished THEN UNCHANGED <<finished, queue, sent, ui>>
    ELSE LET m == [to |-> to, of |-> of]
         IN  /\ finished' = IF to = Channel THEN finished ELSE finished \cup {to}
             /\ queue' = Append(queue, m)
             /\ sent' = Append(sent, m)
             /\ ui' = IF paused THEN ui ELSE ui + 1

(* androidExec, jsExec: pauses the queue; execute stores the context and   *)
(* does the action up to where it returns.                                 *)
Exec(a) ==
    /\ exec = Idle
    /\ calls' = calls + 1
    /\ callbacks' = callbacks \cup {calls'}
    /\ exec' = [step |-> "execute", action |-> a, id |-> calls']
    /\ paused' = TRUE
    /\ UNCHANGED <<messages, ticks, plugin, finished, queue, ui, mode, sent, heard, overlap>>

(* the methods of HjBusiness in the page, as the document calls them *)
Call(a) == calls < MaxCalls /\ Exec(a)

(* KeepContext is a mutant: a context that is there is not replaced. *)
KeepContext == IF context = NoCall THEN exec.id ELSE context

(* execute: this.callbackContext = callbackContext *)
NewContext == exec.id

Execute ==
    /\ exec.step = "execute"
    /\ context' = NewContext
    /\ overlap' = (overlap \/ tasks # {})
    /\ keys' = IF exec.action = "load" THEN exec.id ELSE keys
    /\ tasks' = IF exec.action \in {"load", "task"}
                THEN tasks \cup {[id |-> exec.id, action |-> exec.action]} ELSE tasks
    /\ IF exec.action = "sync" THEN Send(exec.id, exec.id)
       ELSE UNCHANGED <<finished, queue, sent, ui>>
    /\ exec' = [step |-> "pop"]
    /\ UNCHANGED <<page, paused, mode, heard>>

(* jsExec: popAndEncode(false) *)
Pop ==
    /\ exec.step = "pop"
    /\ exec' = [step |-> "resume", ret |-> queue]
    /\ queue' = <<>>
    /\ UNCHANGED <<page, plugin, finished, paused, ui, mode, sent, heard, overlap>>

(* ResumeSilently is a mutant. *)
ResumeSilently ==
    /\ exec.step = "resume"
    /\ paused' = FALSE /\ ui' = ui
    /\ messages' = messages \o exec.ret
    /\ ticks' = IF exec.ret = <<>> THEN ticks ELSE ticks + 1
    /\ exec' = Idle
    /\ UNCHANGED <<callbacks, calls, plugin, finished, queue, mode, sent, heard, overlap>>

(* jsExec: setPaused(false) tells the mode what came meanwhile; androidExec *)
(* keeps what was returned for the next tick.                               *)
Resume ==
    /\ exec.step = "resume"
    /\ paused' = FALSE
    /\ ui' = IF queue = <<>> THEN ui ELSE ui + 1
    /\ messages' = messages \o exec.ret
    /\ ticks' = IF exec.ret = <<>> THEN ticks ELSE ticks + 1
    /\ exec' = Idle
    /\ UNCHANGED <<callbacks, calls, plugin, finished, queue, mode, sent, heard, overlap>>

-----------------------------------------------------------------------------
(* An asynchronous action answers, on a thread of its own, through the     *)
(* field and not through the context it was called with.  A location may   *)
(* answer more than once, an upload or a photo that fails not at all.      *)
Answer ==
    \E t \in tasks :
        /\ Send(context, IF t.action = "load" THEN keys ELSE t.id)
        /\ \/ tasks' = tasks \ {t}
           \/ t.action = "task" /\ tasks' = tasks
        /\ UNCHANGED <<page, exec, context, keys, paused, mode, heard, overlap>>

GiveUp ==
    \E t \in tasks :
        /\ tasks' = tasks \ {t}
        /\ UNCHANGED <<page, exec, context, keys, finished, queue, paused, ui,
                       mode, sent, heard, overlap>>

(* The back key and the other events of CoreAndroid: the callback is kept. *)
FireEvent ==
    /\ Len(SelectSeq(sent, LAMBDA m : m.to = Channel)) < MaxEvents
    /\ Send(Channel, Channel)
    /\ UNCHANGED <<page, exec, plugin, paused, mode, heard, overlap>>

(* onNativeToJsMessageAvailable, on the UI thread *)
Available ==
    /\ ui > 0
    /\ ui' = ui - 1
    /\ IF queue = <<>> THEN UNCHANGED mode
       ELSE /\ ignore' = FALSE
            /\ net' = online
            /\ events' = IF net = online THEN events ELSE events + 1
            /\ UNCHANGED online
    /\ UNCHANGED <<page, exec, plugin, finished, queue, paused, sent, heard, overlap>>

-----------------------------------------------------------------------------
(* callbackFromNative: a callback that is not kept is forgotten *)
CallBack(m) ==
    /\ heard' = Append(heard, m)
    /\ callbacks' = IF m.to = Channel THEN callbacks ELSE callbacks \ {m.to}

(* PollAhead is a mutant: what was polled is put before what waits. *)
PollAhead(wait, new) == new \o wait

(* pollOnce: messagesFromNative.push *)
Polled(wait, new) == wait \o new

(* processMessages: one message, then a tick for the others *)
Process(ms, n) ==
    /\ CallBack(Head(ms))
    /\ messages' = Tail(ms)
    /\ ticks' = IF Tail(ms) = <<>> THEN n ELSE n + 1

(* An online or offline event: pollOnce(true), notifyOfFlush, popAndEncode, *)
(* and what came is processed at once.                                      *)
Poll ==
    /\ exec = Idle /\ events > 0
    /\ events' = events - 1
    /\ online' = IF ignore THEN online ELSE ~online
    /\ queue' = <<>>
    /\ IF queue = <<>> THEN UNCHANGED <<page, heard>>
       ELSE Process(Polled(messages, queue), ticks) /\ UNCHANGED calls
    /\ UNCHANGED <<exec, plugin, finished, paused, ui, ignore, net, sent, overlap>>

(* A scheduled processMessages. *)
Tick ==
    /\ exec = Idle /\ ticks > 0
    /\ IF messages = <<>>
       THEN ticks' = ticks - 1 /\ UNCHANGED <<callbacks, messages, heard>>
       ELSE Process(messages, ticks - 1)
    /\ UNCHANGED <<calls, exec, plugin, finished, queue, paused, ui, mode, sent, overlap>>

Next ==
    \/ \E a \in Actions : Call(a)
    \/ Execute \/ Pop \/ Resume
    \/ Answer \/ GiveUp \/ FireEvent \/ Available
    \/ Poll \/ Tick

Spec == Init /\ [][Next]_vars

(* The threads of the page and of the UI go on; nothing makes a user call *)
(* or an asynchronous action answer.                                      *)
FairSpec ==
    /\ Spec
    /\ WF_vars(Execute) /\ WF_vars(Pop) /\ WF_vars(Resume)
    /\ WF_vars(Available) /\ WF_vars(Poll) /\ WF_vars(Tick)

-----------------------------------------------------------------------------
Returned == IF exec.step = "resume" THEN exec.ret ELSE <<>>

(* No result is lost, doubled or overtaken by another between the native    *)
(* queue and the callbacks, though exec() returns some of them and a poll    *)
(* fetches others while earlier ones wait for their tick.                    *)
InOrder == sent = heard \o messages \o Returned \o queue

(* A result reaches its callback even if no other call is made, in a page   *)
(* whose first event (from the reset of the mode) comes before any result:  *)
(* the flips of "online" keep in step with the events of the WebView.       *)
ResultsArrive ==
    [](events > 0 /\ ignore => ui = 0) =>
        (Len(heard) < Len(sent)) ~> (Len(heard) = Len(sent))

(* A callback gets the result of its own call, "depending upon the result   *)
(* of the action" as the comment on androidExec has it, as long as no action *)
(* is executed while another has still to answer: HjBusiness answers through *)
(* one field, whose context is that of the action executed last.             *)
OwnAnswer == ~overlap => \A i \in DOMAIN heard : heard[i].to = heard[i].of
=============================================================================
