--------------------------- MODULE PushConnection ---------------------------
(***************************************************************************)
(* The push connection: websocket/HjHTTPNotificationManager.java (a long   *)
(* HTTP response read by a listener thread), service/IMChatService.java    *)
(* (which starts, stops and restarts it and handles its packets on the     *)
(* main thread) and the login flag that activity/LoginTask, LogoutTask and *)
(* ActivitySupport write.                                                  *)
(* The manager is a singleton with one flag, stoped, that is neither       *)
(* synchronized nor volatile; listener threads may outlive a stop(), since *)
(* stop() only writes the flag.  An exception without a message throws     *)
(* again in connectServer's catch block (e.getMessage().toString()) and    *)
(* ends the process; so does a thread that connects before the manager has *)
(* a URL.  The polling alarm is addressed to ReConnectReceiver, which      *)
(* AndroidManifest.xml does not declare: its ticks reach nobody.           *)
(***************************************************************************)
EXTENDS Naturals, Sequences

CONSTANTS Listeners,   \* listener threads that may exist at a time
          MaxInbox     \* packets that may wait for the main thread

ASSUME PushAssumption == MaxInbox \in Nat

VARIABLES
  stoped,      \* HjHTTPNotificationManager.stoped
  pc,          \* where each listener thread is: see Places
  chunk,       \* what its message has become; "part": nothing complete
  inbox,       \* packets posted to IMChatService's handler
  forceExit,   \* the preference isForceExit: somebody is logged in
  service,     \* IMChatService; sticky: killed, to be started again
  kicked,      \* the main thread is about to stop it, the flag is cleared
  leaving,     \* LogoutTask runs
  alarm,       \* the repeating alarm of PollingUtils is set
  httpClient,  \* an HTTP client has been made in this process
  url,         \* the manager has its URL and its listener, in this process
  manager      \* IMChatService.notificationManager # null: the running
               \* service has been started with a login

process == <<httpClient, url>>
session == <<forceExit, service, manager, kicked, leaving, alarm>>
vars == <<stoped, pc, chunk, inbox, process, session>>

\* born: start() made the thread; init: it saw isForceExit; post: it is in
\* httpClient.execute; read: blocked in read(); got: back from read(); offer:
\* has a valid packet; deliver: about to call onNotification; fail: about to
\* run errorResponse; end: left the loop.
Connected == {"post", "read", "got", "offer", "deliver", "fail", "end"}
Places == {"none", "born", "init"} \cup Connected

Packets == {"data", "offline"}
Chunks == Packets \cup {"part", "logout"}

TypeOK ==
    /\ stoped \in BOOLEAN /\ forceExit \in BOOLEAN
    /\ leaving \in BOOLEAN /\ alarm \in BOOLEAN
    /\ kicked \in BOOLEAN /\ httpClient \in BOOLEAN
    /\ url \in BOOLEAN /\ manager \in BOOLEAN
    /\ service \in {"off", "on", "stopping", "sticky"}
    /\ pc \in [Listeners -> Places]
    /\ chunk \in [Listeners -> Chunks]
    /\ inbox \in Seq(Packets) /\ Len(inbox) <= MaxInbox

Init ==
    /\ stoped = TRUE
    /\ pc = [w \in Listeners |-> "none"]
    /\ chunk = [w \in Listeners |-> "part"]
    /\ inbox = <<>>
    /\ forceExit = FALSE /\ service = "off" /\ leaving = FALSE
    /\ kicked = FALSE /\ alarm = FALSE
    /\ httpClient = FALSE /\ url = FALSE /\ manager = FALSE
-----------------------------------------------------------------------------
Go(w, from, to) == pc[w] = from /\ pc' = [pc EXCEPT ![w] = to]

\* msg = "", or the loop is left.
Cleared(w) == chunk' = [chunk EXCEPT ![w] = "part"]

\* start(): one more thread, unless stoped is FALSE.  It is the thread, not
\* start(), that will write the flag.  (Listeners bounds the threads.)
start == IF stoped THEN \E w \in Listeners : Go(w, "none", "born")
                   ELSE UNCHANGED pc

\* run(): the thread looks at the login flag once.  RunAnyway is a mutant.
RunAnyway(w) ==
    /\ Go(w, "born", "init")
    /\ UNCHANGED <<stoped, chunk, inbox, process, session>>
run(w) ==
    /\ IF forceExit THEN Go(w, "born", "init") ELSE Go(w, "born", "none")
    /\ UNCHANGED <<stoped, chunk, inbox, process, session>>

\* initHttpClient(), then connectServer() up to httpClient.execute.
\* ConnectUnflagged is a mutant.
ConnectUnflagged(w) ==
    /\ Go(w, "init", "post")
    /\ url
    /\ httpClient' = TRUE
    /\ UNCHANGED <<stoped, chunk, inbox, url, session>>
connectServer(w) ==
    /\ Go(w, "init", "post")
    /\ stoped' = FALSE
    /\ url
    /\ httpClient' = TRUE
    /\ UNCHANGED <<chunk, inbox, url, session>>

\* initHttpClient() failed and there is no client of an earlier thread: the
\* thread ends without a word to anybody.
InitFails(w) ==
    /\ ~httpClient
    /\ Go(w, "init", "none")
    /\ UNCHANGED <<stoped, chunk, inbox, process, session>>

\* The process is killed by the system, or by an exception that nobody catches.
\* What is on disk stays: the login flag and the alarm; the system remembers
\* the service.
Die ==
    /\ stoped' = TRUE
    /\ pc' = [w \in Listeners |-> "none"]
    /\ chunk' = [w \in Listeners |-> "part"]
    /\ inbox' = <<>>
    /\ kicked' = FALSE /\ leaving' = FALSE
    /\ httpClient' = FALSE /\ url' = FALSE /\ manager' = FALSE
    /\ service' = IF service \in {"on", "sticky"} THEN "sticky" ELSE "off"
    /\ UNCHANGED <<forceExit, alarm>>

\* new HttpPost(null): a broadcast made this thread, in a process in which the
\* service has not been started with a login.
NoUrl(w) == ~url /\ pc[w] = "init" /\ Die

Accepted(w) ==
    /\ Go(w, "post", "read")
    /\ UNCHANGED <<stoped, chunk, inbox, process, session>>

\* read() returns: c is what the message built so far has become.
Read(w, c) ==
    /\ Go(w, "read", "got")
    /\ chunk' = [chunk EXCEPT ![w] = c]
    /\ UNCHANGED <<stoped, inbox, process, session>>

\* A status that is not 200, or an exception with a message.
Breaks(w) ==
    /\ Go(w, "post", "fail") \/ Go(w, "read", "fail")
    /\ UNCHANGED <<stoped, chunk, inbox, process, session>>

\* read() returns -1.
EndOfStream(w) ==
    /\ Go(w, "read", "end")
    /\ UNCHANGED <<stoped, chunk, inbox, process, session>>

\* The tests of the loop's body: stoped, "logout", a valid packet.
\* LookUnvalidated is a mutant.
LookUnvalidated(w) ==
    /\ \/ (stoped \/ chunk[w] = "logout") /\ Go(w, "got", "end") /\ Cleared(w)
       \/ /\ ~stoped /\ chunk[w] # "logout"
          /\ Go(w, "got", "offer") /\ UNCHANGED chunk
    /\ UNCHANGED <<stoped, inbox, process, session>>
Look(w) ==
    /\ \/ (stoped \/ chunk[w] = "logout") /\ Go(w, "got", "end") /\ Cleared(w)
       \/ /\ ~stoped /\ chunk[w] = "part"
          /\ Go(w, "got", "read") /\ UNCHANGED chunk
       \/ /\ ~stoped /\ chunk[w] \in Packets
          /\ Go(w, "got", "offer") /\ UNCHANGED chunk
    /\ UNCHANGED <<stoped, inbox, process, session>>

\* if (listener != null && !stoped).  OfferAnyway is a mutant.
OfferAnyway(w) ==
    /\ Go(w, "offer", "deliver")
    /\ UNCHANGED <<stoped, chunk, inbox, process, session>>
Offer(w) ==
    /\ \/ stoped /\ Go(w, "offer", "read") /\ Cleared(w)
       \/ ~stoped /\ Go(w, "offer", "deliver") /\ UNCHANGED chunk
    /\ UNCHANGED <<stoped, inbox, process, session>>

onNotification(w) ==
    /\ Len(inbox) < MaxInbox
    /\ Go(w, "deliver", "read")
    /\ inbox' = Append(inbox, chunk[w])
    /\ Cleared(w)
    /\ UNCHANGED <<stoped, process, session>>

\* errorResponse(): onError is ignored by the handler, then stop().
errorResponse(w) ==
    /\ Go(w, "fail", "end")
    /\ stoped' = TRUE
    /\ UNCHANGED <<chunk, inbox, process, session>>

\* The last line of connectServer.  EndSilently is a mutant.
EndSilently(w) ==
    /\ Go(w, "end", "none")
    /\ UNCHANGED <<stoped, chunk, inbox, process, session>>
End(w) ==
    /\ Go(w, "end", "none")
    /\ stoped' = TRUE
    /\ UNCHANGED <<chunk, inbox, process, session>>

Listen(w) ==
    \/ run(w) \/ connectServer(w) \/ InitFails(w) \/ NoUrl(w)
    \/ Accepted(w) \/ Look(w) \/ Offer(w)
    \/ \E c \in Chunks : Read(w, c)
    \/ Breaks(w) \/ EndOfStream(w)
    \/ onNotification(w) \/ errorResponse(w) \/ End(w)
-----------------------------------------------------------------------------
\* LoginTask, on a thread of its own: the session is written and the login
\* flag set.
Login ==
    /\ ~forceExit /\ ~leaving
    /\ forceExit' = TRUE
    /\ UNCHANGED <<stoped, pc, chunk, inbox, process,
                   service, manager, kicked, leaving, alarm>>

\* The service is started by MainActivity.onCreate, which does not look at the
\* login flag: it follows a login, or a click on a notification that an earlier
\* start has left behind.  Or the system starts the killed service again.
\* Then onStart: initChatManager, startPollingService.
onStart ==
    /\ ~kicked /\ service # "stopping"
    /\ forceExit \/ alarm
    /\ IF forceExit THEN start ELSE UNCHANGED pc
    /\ url' = (url \/ (forceExit /\ stoped))
    /\ manager' = (manager \/ forceExit)
    /\ service' = "on"
    /\ alarm' = TRUE
    /\ UNCHANGED <<stoped, chunk, inbox, httpClient, forceExit, kicked, leaving>>

\* The service's receiver: the network came back or the screen went on.
reConnect ==
    /\ ~kicked /\ service \in {"on", "stopping"}
    /\ stoped /\ start
    /\ UNCHANGED <<stoped, chunk, inbox, process, session>>

Stopping == CASE service = "on" -> "stopping"
              [] service = "sticky" -> "off"
              [] OTHER -> service

\* A service that has never seen a login leaves the listener alone.
\* stopPollingService cancels the PendingIntent of a service, which is not
\* the broadcast that the alarm was set with: alarm stays.  DestroyOnly is a
\* mutant: no service stops the listener.
DestroyOnly ==
    /\ ~kicked /\ service = "stopping"
    /\ service' = "off" /\ manager' = FALSE
    /\ UNCHANGED <<stoped, pc, chunk, inbox, process,
                   forceExit, kicked, leaving, alarm>>
onDestroy ==
    /\ ~kicked /\ service = "stopping"
    /\ service' = "off" /\ manager' = FALSE
    /\ stoped' = (stoped \/ manager)
    /\ UNCHANGED <<pc, chunk, inbox, process, forceExit, kicked, leaving, alarm>>

\* LogoutTask.doInBackground, and a second or more later onPostExecute.
Logout ==
    /\ ~leaving
    /\ leaving' = TRUE
    /\ service' = Stopping
    /\ UNCHANGED <<stoped, pc, chunk, inbox, process,
                   forceExit, manager, kicked, alarm>>

LoggedOut ==
    /\ ~kicked /\ leaving
    /\ leaving' = FALSE
    /\ forceExit' = FALSE
    /\ UNCHANGED <<stoped, pc, chunk, inbox, process,
                   service, manager, kicked, alarm>>

\* The session turned out invalid, or a broadcast said that the account is
\* used elsewhere, and the dialog is confirmed: ActivitySupport.isForcedExit
\* stops the service, then clears the flag.  (A process that dies in between
\* is in the state of one that dies after Logout.)
isForcedExit ==
    /\ ~kicked /\ ~leaving
    /\ forceExit' = FALSE
    /\ service' = Stopping
    /\ UNCHANGED <<stoped, pc, chunk, inbox, process,
                   manager, kicked, leaving, alarm>>

\* The handler takes a packet; "offline" means another device logged in.  It
\* clears the login flag, on disk, and then stops the service: stopService is
\* a step of its own, the process may die before.  HandleStopOnly is a mutant:
\* the login flag survives.
HandleStopOnly ==
    /\ ~kicked /\ inbox # <<>>
    /\ inbox' = Tail(inbox)
    /\ kicked' = (Head(inbox) = "offline")
    /\ UNCHANGED <<stoped, pc, chunk, process,
                   forceExit, service, manager, leaving, alarm>>
handleMessage ==
    /\ ~kicked /\ inbox # <<>>
    /\ inbox' = Tail(inbox)
    /\ kicked' = (Head(inbox) = "offline")
    /\ forceExit' = (forceExit /\ ~kicked')
    /\ UNCHANGED <<stoped, pc, chunk, process, service, manager, leaving, alarm>>

stopService ==
    /\ kicked
    /\ kicked' = FALSE
    /\ service' = Stopping
    /\ UNCHANGED <<stoped, pc, chunk, inbox, process,
                   forceExit, manager, leaving, alarm>>

ProcessDies == Die

Main == \/ Login \/ onStart \/ reConnect \/ onDestroy \/ Logout \/ LoggedOut
        \/ isForcedExit \/ handleMessage \/ stopService \/ ProcessDies

Next == (\E w \in Listeners : Listen(w)) \/ Main

Spec == Init /\ [][Next]_vars

\* Threads run on and the main thread empties its queue; a post only waits
\* for the bound MaxInbox, which the code has not, hence strong fairness.
\* Making a client does not fail for ever.  Nothing is assumed of the server
\* (it may never answer) nor of the user.
Goes(w) == run(w) \/ Look(w) \/ Offer(w) \/ errorResponse(w) \/ End(w)
FairSpec ==
    /\ Spec
    /\ WF_vars(handleMessage \/ stopService) /\ SF_vars(onDestroy)
    /\ \A w \in Listeners :
          /\ WF_vars(Goes(w)) /\ SF_vars(onNotification(w))
          /\ SF_vars(connectServer(w) \/ NoUrl(w))

\* And the screen goes on, or the network comes back, again and again.
TriggeredSpec == FairSpec /\ WF_vars(reConnect)
-----------------------------------------------------------------------------
\* The flag is never left FALSE with nobody to clear it: somebody between the
\* first and the last line of connectServer will, so a dead connection is
\* always seen by isStoped (HjHTTPNotificationManager.java:144,209).
FlagHasListener == ~stoped => \E w \in Listeners : pc[w] \in Connected

\* When the manager is stopped, and no thread is on its way to connect or
\* past its last test, nothing is delivered until start() makes a thread,
\* however many old threads still read (HjHTTPNotificationManager.java:176-194).
Quiet == stoped /\ \A w \in Listeners : pc[w] \notin {"born", "init", "deliver"}

Started == \E w \in Listeners : pc'[w] = "born"
StaysQuiet == Quiet' /\ Len(inbox') <= Len(inbox)

QuietUntilStart == [][Quiet /\ ~Started => StaysQuiet]_vars

\* Nobody is logged in, the manager is stopped and no thread is between its
\* look at the login flag and its connection: no thread connects any more until
\* the next login, also not one that start() made before the logout, and also
\* if the service runs on without a login, because the process died between the
\* two steps of a kick (IMChatService.java:352-355) and the system started it
\* again, or because MainActivity did (HjHTTPNotificationManager.java:86-94,
\* LogoutTask.java:49-62,81, IMChatService.java:114-133).
Out == ~forceExit /\ stoped /\ \A w \in Listeners : pc[w] # "init"

LoggedOutStaysOut == [][Out /\ ~forceExit' => Out']_vars

\* A kick that finds the service running closes its connection, also when the
\* user logs out or in meanwhile, the process dies before the service is
\* stopped, or other packets wait; unless the service was started before the
\* login it is kicked out of and not again since: that one leaves the
\* connection alone (IMChatService.java:345-357,99-120).
KickStops == kicked /\ service = "on" /\ manager ~> stoped

\* If triggers keep coming, a running service with a login whose connection is
\* down gets a listener, unless old threads that never end fill the bound
\* (IMChatService.java:727-767).
Full == \A w \in Listeners : pc[w] # "none"
Reconnects ==
    service = "on" /\ forceExit /\ stoped ~>
        ~stoped \/ service # "on" \/ ~forceExit \/ Full

\* A packet that says the account is used elsewhere logs this device out,
\* unless the process dies first (IMChatService.java:345-357).
KickTakesEffect ==
    \A w \in Listeners :
        pc[w] = "deliver" /\ chunk[w] = "offline" ~>
            ~forceExit \/ \A v \in Listeners : pc[v] = "none"

\* "## connection is normal, no need create again ##"
\* (HjHTTPNotificationManager.java:82): one listener at a time.
OneListener ==
    \A w, v \in Listeners :
        pc[w] \in Connected /\ pc[v] \in Connected => w = v

\* "reconnects recursively until the connection stands" (the comment of
\* IMChatService.reConnect, IMChatService.java:756): a running service with a
\* login whose listener has just stopped, its connection broken, gets another.
Broken == /\ service = "on" /\ forceExit /\ stoped
          /\ \E w \in Listeners : pc[w] = "end"

ReconnectsUntilConnected == Broken ~> ~stoped \/ service # "on" \/ ~forceExit
=============================================================================
