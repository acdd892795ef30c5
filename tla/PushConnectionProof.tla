------------------------ MODULE PushConnectionProof ------------------------
(***************************************************************************)
(* Proofs about PushConnection, for any set of listener threads and any    *)
(* bound on the handler's queue.                                           *)
(***************************************************************************)
EXTENDS PushConnection, TLAPS

\* Only a valid packet is on its way to the handler.
Validated == \A w \in Listeners :
                 pc[w] \in {"offer", "deliver"} => chunk[w] \in Packets

IInv == TypeOK /\ Validated /\ FlagHasListener

\* The program starts disconnected, logged out and without a service.
LEMMA InitIInv == Init => IInv
  <1>. SUFFICES ASSUME Init PROVE IInv
    OBVIOUS
  <1>1. inbox \in Seq(Packets) /\ Len(inbox) = 0
    BY DEF Init
  <1>2. TypeOK
    <2>1. pc \in [Listeners -> Places] /\ chunk \in [Listeners -> Chunks]
      BY DEF Init, Places, Chunks
    <2>2. stoped \in BOOLEAN /\ forceExit \in BOOLEAN
      BY Zenon DEF Init
    <2>3. /\ leaving \in BOOLEAN /\ alarm \in BOOLEAN
          /\ kicked \in BOOLEAN /\ httpClient \in BOOLEAN
          /\ url \in BOOLEAN /\ manager \in BOOLEAN
      BY Zenon DEF Init
    <2>4. service \in {"off", "on", "stopping", "sticky"}
      BY DEF Init
    <2>. QED  BY <1>1, <2>1, <2>2, <2>3, <2>4, PushAssumption DEF TypeOK
  <1>3. Validated
    BY DEF Init, Validated
  <1>4. stoped
    BY DEF Init
  <1>. QED
    BY <1>2, <1>3, <1>4 DEF IInv, FlagHasListener

\* A move of one listener keeps the type of pc and the other listeners.
LEMMA GoMoves ==
    ASSUME TypeOK, NEW w \in Listeners, NEW a, NEW b \in Places, Go(w, a, b)
    PROVE  /\ pc[w] = a /\ pc'[w] = b
           /\ pc' \in [Listeners -> Places]
           /\ \A v \in Listeners : v # w => pc'[v] = pc[v]
  BY DEF TypeOK, Go

\* A message that is cleared keeps the type of chunk and the other messages.
LEMMA ClearedPart ==
    ASSUME TypeOK, NEW w \in Listeners, Cleared(w)
    PROVE  /\ chunk' \in [Listeners -> Chunks]
           /\ \A v \in Listeners : v # w => chunk'[v] = chunk[v]
  BY DEF TypeOK, Cleared, Chunks

\* start() either leaves the threads alone or makes one of them.
LEMMA StartMoves ==
    ASSUME TypeOK, start
    PROVE  /\ pc' \in [Listeners -> Places]
           /\ \A v \in Listeners : pc'[v] # pc[v] =>
                 pc[v] = "none" /\ pc'[v] = "born"
  <1>1. CASE stoped
    <2>1. PICK w \in Listeners : Go(w, "none", "born")
      BY <1>1 DEF start
    <2>. QED  BY <2>1, GoMoves DEF Places
  <1>2. CASE ~stoped
    BY <1>2 DEF start, TypeOK
  <1>. QED  BY <1>1, <1>2

\* A process that dies leaves no thread, no packet and the flag at TRUE.
LEMMA DieIInv == ASSUME IInv, Die PROVE IInv'
  <1>. USE PushAssumption
           DEF IInv, TypeOK, FlagHasListener, Validated, process, session
  <1>1. inbox' \in Seq(Packets) /\ Len(inbox') <= MaxInbox
    BY DEF Die
  <1>2. pc' \in [Listeners -> Places] /\ chunk' \in [Listeners -> Chunks]
    BY DEF Die, Places, Chunks
  <1>3. Validated'
    BY DEF Die
  <1>. QED  BY <1>1, <1>2, <1>3 DEF Die
-----------------------------------------------------------------------------
\* No step of a listener thread breaks the invariant.
LEMMA ListenIInv ==
    ASSUME IInv, NEW w \in Listeners, Listen(w)
    PROVE  IInv'
  <1>. USE PushAssumption, GoMoves
           DEF IInv, TypeOK, FlagHasListener, Validated, process, session
  <1>. "end" \in Connected /\ "fail" \in Connected /\ "read" \in Connected
    BY DEF Connected
  <1>1. CASE run(w)
    BY <1>1 DEF run, Places, Connected
  <1>2. CASE connectServer(w)
    <2>1. pc' \in [Listeners -> Places] /\ pc'[w] = "post"
      BY <1>2 DEF connectServer, Places, Connected
    <2>2. Validated'
      BY <1>2, <2>1 DEF connectServer, Places, Connected
    <2>. QED  BY <1>2, <2>1, <2>2 DEF connectServer, Places, Connected
  <1>3. CASE Accepted(w)
    BY <1>3 DEF Accepted, Places, Connected
  <1>4. CASE Look(w)
    <2>1. CASE Go(w, "got", "end") /\ Cleared(w)
      BY <1>4, <2>1, ClearedPart DEF Look, Places, Connected
    <2>2. CASE Go(w, "got", "read") /\ UNCHANGED chunk
      BY <1>4, <2>2 DEF Look, Places, Connected
    <2>3. CASE /\ chunk[w] \in Packets
               /\ Go(w, "got", "offer") /\ UNCHANGED chunk
      BY <1>4, <2>3 DEF Look, Places, Connected
    <2>. QED  BY <1>4, <2>1, <2>2, <2>3 DEF Look
  <1>5. CASE Offer(w)
    <2>1. CASE Go(w, "offer", "read") /\ Cleared(w)
      BY <1>5, <2>1, ClearedPart DEF Offer, Places, Connected
    <2>2. CASE Go(w, "offer", "deliver") /\ UNCHANGED chunk
      BY <1>5, <2>2 DEF Offer, Places, Connected
    <2>. QED  BY <1>5, <2>1, <2>2 DEF Offer
  <1>6. ASSUME NEW c \in Chunks, Read(w, c)
        PROVE  IInv'
    BY <1>6 DEF Read, Places, Connected
  <1>7. CASE Breaks(w)
    BY <1>7 DEF Breaks, Places, Connected
  <1>8. CASE EndOfStream(w)
    BY <1>8 DEF EndOfStream, Places, Connected
  <1>9. CASE onNotification(w)
    <2>1. inbox' \in Seq(Packets) /\ Len(inbox') <= MaxInbox
      BY <1>9 DEF onNotification, Go
    <2>. QED  BY <1>9, <2>1, ClearedPart DEF onNotification, Places, Connected
  <1>10. CASE errorResponse(w)
    BY <1>10 DEF errorResponse, Places, Connected
  <1>11. CASE End(w)
    BY <1>11 DEF End, Places, Connected
  <1>12. CASE InitFails(w)
    BY <1>12 DEF InitFails, Places, Connected
  <1>13. CASE NoUrl(w)
    BY <1>13, DieIInv DEF NoUrl
  <1>. QED
    BY <1>1, <1>2, <1>3, <1>4, <1>5, <1>6, <1>7, <1>8, <1>9, <1>10, <1>11,
       <1>12, <1>13
    DEF Listen

\* No event of the main thread breaks the invariant.
LEMMA MainIInv ==
    ASSUME IInv, Main
    PROVE  IInv'
  <1>. USE PushAssumption
           DEF IInv, TypeOK, FlagHasListener, Validated, process, session
  <1>1. CASE Login
    BY <1>1 DEF Login
  <1>2. CASE onStart
    <2>1. /\ pc' \in [Listeners -> Places]
          /\ \A v \in Listeners : pc'[v] # pc[v] =>
                pc[v] = "none" /\ pc'[v] = "born"
      BY <1>2, StartMoves DEF onStart
    <2>. QED  BY <1>2, <2>1 DEF onStart, Connected
  <1>3. CASE reConnect
    BY <1>3, StartMoves DEF reConnect, Connected
  <1>4. CASE onDestroy
    BY <1>4 DEF onDestroy
  <1>5. CASE Logout
    BY <1>5 DEF Logout, Stopping
  <1>6. CASE LoggedOut
    BY <1>6 DEF LoggedOut
  <1>7. CASE isForcedExit
    BY <1>7 DEF isForcedExit, Stopping
  <1>8. CASE handleMessage
    <2>1. inbox' \in Seq(Packets) /\ Len(inbox') <= MaxInbox
      BY <1>8 DEF handleMessage
    <2>. QED  BY <1>8, <2>1 DEF handleMessage
  <1>9. CASE ProcessDies
    BY <1>9, DieIInv DEF ProcessDies
  <1>10. CASE stopService
    BY <1>10 DEF stopService, Stopping
  <1>. QED
    BY <1>1, <1>2, <1>3, <1>4, <1>5, <1>6, <1>7, <1>8, <1>9, <1>10 DEF Main

\* The invariant on which the theorems below rest: types, only valid packets on
\* their way, and a flag that never outlives its listener.
THEOREM PushInvariant == Spec => []IInv
  <1>1. IInv /\ [Next]_vars => IInv'
    <2>. SUFFICES ASSUME IInv, [Next]_vars PROVE IInv'
      OBVIOUS
    <2>1. ASSUME NEW w \in Listeners, Listen(w) PROVE IInv'
      BY <2>1, ListenIInv
    <2>2. CASE Main
      BY <2>2, MainIInv
    <2>3. CASE UNCHANGED vars
      BY <2>3 DEF vars, process, session, IInv, TypeOK, FlagHasListener, Validated
    <2>. QED  BY <2>1, <2>2, <2>3 DEF Next
  <1>. QED  BY <1>1, InitIInv, PTL DEF Spec

\* The handler's queue holds at most MaxInbox packets, all of them valid ones.
THEOREM PushTypeOK == Spec => []TypeOK
  <1>1. IInv => TypeOK
    BY DEF IInv
  <1>. QED  BY <1>1, PushInvariant, PTL

\* The manager's flag is never left FALSE by threads that are gone, so a dead
\* connection is always seen as stopped and can be started again.
THEOREM FlagNeverOrphaned == Spec => []FlagHasListener
  <1>1. IInv => FlagHasListener
    BY DEF IInv
  <1>. QED  BY <1>1, PushInvariant, PTL

\* After stop(), once no thread is about to connect or to deliver, nothing is
\* delivered until the next start(), however many old threads still read.
THEOREM StopIsQuiet == Spec => QuietUntilStart
  <1>1. ASSUME IInv, Next, Quiet, ~Started
        PROVE  StaysQuiet
    <2>. USE <1>1 DEF IInv, Quiet, Started, StaysQuiet
    <2>0. inbox \in Seq(Packets) /\ Len(inbox) \in Nat
      BY DEF TypeOK
    <2>1. ASSUME NEW w \in Listeners, Listen(w)
          PROVE  StaysQuiet
      <3>. USE <2>0, GoMoves DEF process, session, Places, Connected
      <3>1. CASE Accepted(w)
        BY <3>1 DEF Accepted
      <3>2. CASE Look(w)
        BY <3>2 DEF Look
      <3>3. CASE Offer(w)
        BY <3>3 DEF Offer
      <3>4. ASSUME NEW c \in Chunks, Read(w, c)
            PROVE  StaysQuiet
        BY <3>4 DEF Read
      <3>5. CASE Breaks(w)
        BY <3>5 DEF Breaks
      <3>6. CASE EndOfStream(w)
        BY <3>6 DEF EndOfStream
      <3>7. CASE errorResponse(w)
        BY <3>7 DEF errorResponse
      <3>8. CASE End(w)
        BY <3>8 DEF End
      <3>9. /\ ~run(w) /\ ~connectServer(w)
            /\ ~InitFails(w) /\ ~NoUrl(w) /\ ~onNotification(w)
        BY DEF run, connectServer, InitFails, NoUrl, onNotification, Go
      <3>. QED
        BY <2>1, <3>1, <3>2, <3>3, <3>4, <3>5, <3>6, <3>7, <3>8, <3>9
        DEF Listen
    <2>2. CASE Main
      <3>1. ASSUME start \/ UNCHANGED pc
            PROVE  \A v \in Listeners : pc'[v] = pc[v]
        BY <3>1, StartMoves
      <3>2. CASE onStart
        BY <3>1, <3>2, <2>0 DEF onStart
      <3>3. CASE reConnect
        BY <3>1, <3>3, <2>0 DEF reConnect, process, session
      <3>4. CASE handleMessage
        BY <3>4, <2>0 DEF handleMessage
      <3>5. CASE ProcessDies
        BY <3>5, <2>0 DEF ProcessDies, Die
      <3>6. CASE \/ Login \/ onDestroy \/ Logout \/ LoggedOut
                 \/ isForcedExit \/ stopService
        <4>1. pc' = pc /\ inbox' = inbox
          BY <3>6 DEF Login, onDestroy, Logout, LoggedOut, isForcedExit,
                      stopService
        <4>2. stoped'
          BY <3>6 DEF Login, onDestroy, Logout, LoggedOut, isForcedExit,
                      stopService
        <4>. QED  BY <4>1, <4>2, <2>0
      <3>. QED  BY <2>2, <3>2, <3>3, <3>4, <3>5, <3>6 DEF Main
    <2>. QED  BY <1>1, <2>1, <2>2 DEF Next
  <1>2. ASSUME IInv, [Next]_vars
        PROVE  [Quiet /\ ~Started => StaysQuiet]_vars
    BY <1>1, <1>2
  <1>. QED  BY <1>2, PushInvariant, PTL DEF Spec, QuietUntilStart

\* After a logout, once no thread is between its look at the login flag and
\* its connection, no thread connects until the next login.
THEOREM LogoutIsFinal == Spec => LoggedOutStaysOut
  <1>1. ASSUME IInv, Next, Out, ~forceExit'
        PROVE  Out'
    <2>. USE <1>1 DEF IInv, Out
    <2>1. ASSUME NEW w \in Listeners, Listen(w)
          PROVE  Out'
      <3>. USE GoMoves DEF process, session, Places, Connected
      <3>1. CASE Accepted(w)
        BY <3>1 DEF Accepted
      <3>2. CASE Look(w)
        BY <3>2 DEF Look
      <3>3. CASE Offer(w)
        BY <3>3 DEF Offer
      <3>4. ASSUME NEW c \in Chunks, Read(w, c)
            PROVE  Out'
        BY <3>4 DEF Read
      <3>5. CASE Breaks(w)
        BY <3>5 DEF Breaks
      <3>6. CASE EndOfStream(w)
        BY <3>6 DEF EndOfStream
      <3>7. CASE errorResponse(w)
        BY <3>7 DEF errorResponse
      <3>8. CASE End(w)
        BY <3>8 DEF End
      <3>9. CASE run(w)
        BY <3>9 DEF run
      <3>10. CASE onNotification(w)
        BY <3>10 DEF onNotification
      <3>11. ~connectServer(w) /\ ~InitFails(w) /\ ~NoUrl(w)
        BY DEF connectServer, InitFails, NoUrl, Go
      <3>. QED
        BY <2>1, <3>1, <3>2, <3>3, <3>4, <3>5, <3>6, <3>7, <3>8, <3>9,
           <3>10, <3>11
        DEF Listen
    <2>2. CASE Main
      <3>1. ASSUME start \/ UNCHANGED pc
            PROVE  \A v \in Listeners : pc'[v] # "init"
        BY <3>1, StartMoves
      <3>2. CASE onStart
        BY <3>1, <3>2 DEF onStart
      <3>3. CASE reConnect
        BY <3>1, <3>3 DEF reConnect, process, session
      <3>4. CASE ProcessDies
        BY <3>4 DEF ProcessDies, Die
      <3>5. CASE \/ Login \/ onDestroy \/ Logout \/ LoggedOut
                 \/ isForcedExit \/ handleMessage \/ stopService
        BY <3>5 DEF Login, onDestroy, Logout, LoggedOut, isForcedExit,
                    handleMessage, stopService
      <3>. QED  BY <2>2, <3>2, <3>3, <3>4, <3>5 DEF Main
    <2>. QED  BY <1>1, <2>1, <2>2 DEF Next
  <1>2. ASSUME IInv, [Next]_vars
        PROVE  [Out /\ ~forceExit' => Out']_vars
    BY <1>1, <1>2
  <1>. QED  BY <1>2, PushInvariant, PTL DEF Spec, LoggedOutStaysOut
=============================================================================
