------------------------------ MODULE Contacts ------------------------------
(***************************************************************************)
(* One user's contacts: the contact table and the table of friend requests *)
(* (temporary contacts) of dao/QiXinBaseDao.java, written by several       *)
(* threads without a common lock: the main thread that handles pushed      *)
(* packets (service/IMChatService.java), the one DML thread of             *)
(* db/SQLiteWorker.java that runs what the activities post, the threads of *)
(* the user's requests, and the lists that activity/LoginTask.java fetches *)
(* at a login.  (fragment/ContactFragment.java would fetch them again, but *)
(* MainActivity has its tab commented out: nobody makes one.)  Every DAO   *)
(* call is a transaction of its own, here an "op".  The server and the     *)
(* other users are external.  A packet stays with the server until it is   *)
(* acknowledged, so it comes again when the process dies before.           *)
(***************************************************************************)
EXTENDS Naturals, Sequences

CONSTANTS Peers,     \* the other users
          Requests,  \* what this user does: "answer", "search", "ask", ...
          Mates,     \* those that share a group with this user
          MaxPush,   \* packets that may wait at the server
          MaxOps     \* ops in dml at which no more is posted

ASSUME ContactsAssumption ==
    Mates \subseteq Peers /\ MaxPush \in Nat /\ MaxOps \in Nat

VARIABLES
  contact,   \* ctlm1355: "none" without a row, else the flag
  temp,      \* ctlm13550: in/out: who asked whom; done: accepted
  todo,      \* what the main thread still has to write for one packet
  dml,       \* what waits in SQLiteWorker.dmlQueue
  refresh,   \* LoginTask: idle, or a list of the server to be written
  fetched,   \* that list
  call       \* the request the user has under way, one at a time

VARIABLES
  friends,   \* the server's opinion of who is a friend
  asked,     \* requests the server holds, <<from, to>> without this user
  push       \* packets to this device

local == <<contact, temp>>
server == <<friends, asked, push>>
fetch == <<refresh, fetched>>
vars == <<contact, temp, todo, dml, refresh, fetched, call,
          friends, asked, push>>

Ops == {"shift", "friend", "unfriend", "mate", "asksMe", "askedThem",
        "already", "accept", "untemp", "ack"}
Kinds == {"add", "agree", "refuse", "remove", "group"}
NoCall == [what |-> "none"]

Init ==
    /\ contact = [p \in Peers |-> "none"]
    /\ temp = [p \in Peers |-> "none"]
    /\ todo = <<>> /\ dml = <<>>
    /\ refresh = "idle" /\ fetched = {} /\ call = NoCall
    /\ friends \in SUBSET Peers /\ asked = {} /\ push = <<>>
-----------------------------------------------------------------------------
\* The DAO: what one op leaves in each table.

Op(o, p) == [op |-> o, who |-> p]

\* shiftTempContactInfoById copies every row of the temporary table.  An
\* update of the flag touches existing rows only.
ContactAfter(o) ==
    CASE o.op = "shift" ->
           [p \in Peers |-> IF temp[p] # "none" THEN "Y" ELSE contact[p]]
      [] o.op = "friend" -> [contact EXCEPT ![o.who] = "Y"]
      [] o.op = "unfriend" /\ contact[o.who] # "none" ->
           [contact EXCEPT ![o.who] = "N"]
      [] o.op = "mate" -> [contact EXCEPT ![o.who] = "N"]
      [] OTHER -> contact

Accepted(r) == CASE r = "in" -> "inDone" [] r = "out" -> "outDone" [] OTHER -> r

\* replaceTempContactInfo, updateTempContactStatus, deleteTempContactInfoById.
TempAfter(o) ==
    CASE o.op = "asksMe" -> [temp EXCEPT ![o.who] = "in"]
      [] o.op = "askedThem" -> [temp EXCEPT ![o.who] = "out"]
      [] o.op = "already" -> [temp EXCEPT ![o.who] = "outDone"]
      [] o.op = "accept" -> [temp EXCEPT ![o.who] = Accepted(@)]
      [] o.op = "untemp" -> [temp EXCEPT ![o.who] = "none"]
      [] OTHER -> temp

Write(o) ==
    /\ contact' = ContactAfter(o)
    /\ temp' = TempAfter(o)
-----------------------------------------------------------------------------
\* The main thread.

\* processPacketIQ: what it reads decides what it writes.  setContactFlag
\* writes back the row it has read; without a row it writes one without an id,
\* which the table refuses.  A packet about a group lists members (here one)
\* and all of them are written with flag N, friend or not.
Plan(k, p) ==
    CASE k = "add" -> <<Op("asksMe", p)>>
      [] k = "agree" /\ temp[p] # "none" ->
           <<Op("shift", p), Op("accept", p)>>
      [] k = "remove" /\ contact[p] # "none" -> <<Op("unfriend", p)>>
      [] k = "group" -> <<Op("mate", p)>>
      [] OTHER -> <<>>

\* The last op is sendIqResponses.  AckFirst is a mutant:
\* the answer goes out before the writing.
AckFirst ==
    /\ push # <<>> /\ todo = <<>>
    /\ LET k == Head(push).kind p == Head(push).from
       IN  todo' = <<Op("ack", p)>> \o Plan(k, p)
    /\ UNCHANGED <<local, dml, fetch, call, server>>
handleMessage ==
    /\ push # <<>> /\ todo = <<>>
    /\ LET k == Head(push).kind p == Head(push).from
       IN  todo' = Append(Plan(k, p), Op("ack", p))
    /\ UNCHANGED <<local, dml, fetch, call, server>>

MainWrites ==
    /\ todo # <<>> /\ Head(todo).op # "ack"
    /\ Write(Head(todo))
    /\ todo' = Tail(todo)
    /\ UNCHANGED <<dml, fetch, call, server>>

\* The answer may be lost; nobody looks at its result.
Acknowledge(arrives) ==
    /\ todo # <<>> /\ Head(todo).op = "ack"
    /\ todo' = Tail(todo)
    /\ push' = IF arrives THEN Tail(push) ELSE push
    /\ UNCHANGED <<local, dml, fetch, call, friends, asked>>

\* SQLiteWorker's DML thread takes the ops in the order they were posted.
WorkerWrites ==
    /\ dml # <<>>
    /\ Write(Head(dml))
    /\ dml' = Tail(dml)
    /\ UNCHANGED <<todo, fetch, call, server>>
-----------------------------------------------------------------------------
\* What the user does: a screen reads the tables and sends a request, the
\* server answers it, and the screen's thread posts to the worker.

Offers(what, p) ==
    CASE what = "answer" -> temp[p] = "in"
      [] what = "search" -> temp[p] \in {"in", "inDone"}
      [] what = "ask" -> temp[p] \notin {"in", "inDone"}
      [] OTHER -> contact[p] = "Y"

Request(what, p) ==
    /\ call = NoCall /\ Offers(what, p)
    /\ call' = [what |-> what, who |-> p, at |-> "sent"]
    /\ UNCHANGED <<local, todo, dml, fetch, server>>

Done(what, at, p) == call = [what |-> what, who |-> p, at |-> at]

Served(what, p, done) ==
    /\ Done(what, "sent", p)
    /\ call' = [call EXCEPT !.at = IF done THEN "yes" ELSE "no"]
    /\ UNCHANGED <<local, todo, dml, fetch, push>>

ServeAnswer(p) ==
    /\ \E what \in {"answer", "search"} : Served(what, p, <<"in", p>> \in asked)
    /\ friends' = IF <<"in", p>> \in asked THEN friends \cup {p} ELSE friends
    /\ asked' = asked \ {<<"in", p>>}

ServeAsk(p) ==
    /\ Served("ask", p, p \notin friends)
    /\ asked' = IF p \in friends THEN asked ELSE asked \cup {<<"out", p>>}
    /\ UNCHANGED friends

ServeRemove(p) ==
    /\ Served("remove", p, p \in friends)
    /\ friends' = friends \ {p}
    /\ UNCHANGED asked

ServeCheck(p) == Served("check", p, TRUE) /\ UNCHANGED <<friends, asked>>

\* A request without an answer, or with another error, changes nothing here.
CallFails ==
    /\ call # NoCall
    /\ call' = NoCall
    /\ UNCHANGED <<local, todo, dml, fetch, server>>

Post(ops) ==
    /\ Len(dml) < MaxOps
    /\ dml' = dml \o ops
    /\ call' = NoCall
    /\ UNCHANGED <<todo, fetch, server>>

\* AllVerfifyFriendsActivity.addFriend; "no" says that there is nothing (any
\* more) to answer.
Answered(p) ==
    /\ Done("answer", "yes", p)
    /\ Post(<<Op("accept", p), Op("shift", p)>>)
    /\ UNCHANGED local

AnsweredBefore(p) ==
    /\ Done("answer", "no", p)
    /\ temp' = TempAfter(Op("accept", p))
    /\ Post(<<Op("shift", p)>>)
    /\ UNCHANGED contact

\* addFriend of FriendsActivity, AddingFriendActivity and
\* SearchQiXinFriendsretActivity, when the other one has asked already: the
\* status is written at once, the contact is left to the worker.
AnsweredBySearch(p) ==
    /\ Done("search", "yes", p)
    /\ temp' = TempAfter(Op("accept", p))
    /\ Post(<<Op("shift", p)>>)
    /\ UNCHANGED contact

\* ... and when not.
Asked(p) ==
    /\ Done("ask", "yes", p)
    /\ Post(<<Op("askedThem", p)>>)
    /\ UNCHANGED local

\* The other one is a friend already.  FriendFirst is a mutant: the order of
\* the two writes.
FriendFirst(p) ==
    /\ Done("ask", "no", p)
    /\ Post(<<Op("friend", p), Op("already", p)>>)
    /\ UNCHANGED local
AskedFriend(p) ==
    /\ Done("ask", "no", p)
    /\ Post(<<Op("already", p), Op("friend", p)>>)
    /\ UNCHANGED local

\* FriendsActivity.removeFriend; "no" says that this is no friend.
Removed(p) ==
    /\ Done("remove", "yes", p)
    /\ Post(<<Op("unfriend", p), Op("untemp", p)>>)
    /\ UNCHANGED local

RemovedBefore(p) ==
    /\ Done("remove", "no", p)
    /\ Post(<<Op("unfriend", p)>>)
    /\ UNCHANGED local

\* FriendsActivity.sendCheckUserInfo: the details of somebody who was a
\* friend when the screen was opened, written at once with flag Y.
Checked(p) ==
    /\ Done("check", "yes", p)
    /\ contact' = [contact EXCEPT ![p] = "Y"]
    /\ call' = NoCall
    /\ UNCHANGED <<temp, todo, dml, fetch, server>>

\* The long click of AllVerfifyFriendsActivity.
DeleteRequest(p) ==
    /\ temp[p] \in {"in", "inDone"}
    /\ Len(dml) < MaxOps
    /\ dml' = Append(dml, Op("untemp", p))
    /\ UNCHANGED <<local, todo, fetch, call, server>>
-----------------------------------------------------------------------------
\* LoginTask.login: the contact list, written with flag Y, then the members of
\* the groups, written with flag N; nothing takes the friends out of that list,
\* and nothing is assumed of the server that made it.
FetchFriends ==
    /\ refresh = "idle"
    /\ refresh' = "friends" /\ fetched' = friends
    /\ UNCHANGED <<local, todo, dml, call, server>>

FetchMates ==
    /\ refresh = "stored"
    /\ refresh' = "mates"
    /\ \E list \in SUBSET Mates : fetched' = list
    /\ UNCHANGED <<local, todo, dml, call, server>>

\* A request that fails skips its list and goes on with the next one.
FetchFails ==
    /\ refresh \in {"idle", "stored"}
    /\ refresh' = IF refresh = "idle" THEN "stored" ELSE "idle"
    /\ UNCHANGED <<local, todo, dml, fetched, call, server>>

\* replaceFriendInfos(list, flag).
replaceFriendInfos(flag) ==
    [p \in Peers |-> IF p \in fetched THEN flag ELSE contact[p]]

StoreFriends ==
    /\ refresh = "friends"
    /\ contact' = replaceFriendInfos("Y")
    /\ refresh' = "stored" /\ fetched' = {}
    /\ UNCHANGED <<temp, todo, dml, call, server>>

StoreMates ==
    /\ refresh = "mates"
    /\ contact' = replaceFriendInfos("N")
    /\ refresh' = "idle" /\ fetched' = {}
    /\ UNCHANGED <<temp, todo, dml, call, server>>

\* What is not in the database is gone; the packet was not acknowledged.
ProcessDies ==
    /\ todo' = <<>> /\ dml' = <<>>
    /\ refresh' = "idle" /\ fetched' = {}
    /\ call' = NoCall
    /\ UNCHANGED <<local, server>>
-----------------------------------------------------------------------------
\* The server and the other users.

Send(k, p) ==
    /\ Len(push) < MaxPush
    /\ push' = Append(push, [kind |-> k, from |-> p])
    /\ UNCHANGED <<local, todo, dml, fetch, call>>

PeerAsks(p) ==
    /\ p \notin friends
    /\ Send("add", p)
    /\ asked' = asked \cup {<<"in", p>>}
    /\ UNCHANGED friends

PeerAnswers(p) ==
    /\ <<"out", p>> \in asked
    /\ asked' = asked \ {<<"out", p>>}
    /\ \/ Send("agree", p) /\ friends' = friends \cup {p}
       \/ Send("refuse", p) /\ UNCHANGED friends

\* Somebody makes or enlarges a group that p and this user are in.
Grouped(p) ==
    /\ p \in Mates
    /\ Send("group", p)
    /\ UNCHANGED <<friends, asked>>

PeerRemoves(p) ==
    /\ p \in friends
    /\ Send("remove", p)
    /\ friends' = friends \ {p}
    /\ UNCHANGED asked

User(p) ==
    \/ \E what \in Requests : Request(what, p)
    \/ Answered(p) \/ AnsweredBefore(p) \/ AnsweredBySearch(p)
    \/ Asked(p) \/ AskedFriend(p) \/ Removed(p) \/ RemovedBefore(p)
    \/ Checked(p) \/ DeleteRequest(p)
Serve(p) == ServeAnswer(p) \/ ServeAsk(p) \/ ServeRemove(p) \/ ServeCheck(p)
Peer(p) == PeerAsks(p) \/ PeerAnswers(p) \/ PeerRemoves(p) \/ Grouped(p)
Threads == handleMessage \/ MainWrites \/ Acknowledge(TRUE) \/ WorkerWrites
Refresh ==
    FetchFriends \/ StoreFriends \/ FetchMates \/ StoreMates \/ FetchFails

Next ==
    \/ Threads \/ Refresh \/ Acknowledge(FALSE) \/ CallFails \/ ProcessDies
    \/ \E p \in Peers : User(p) \/ Serve(p) \/ Peer(p)

Spec == Init /\ [][Next]_vars

\* The threads run on, an answer reaches the server every now and then, and the
\* process does not die for ever.  Nothing is assumed of the user and his logins.
FairSpec ==
    /\ Spec
    /\ WF_vars(handleMessage) /\ WF_vars(MainWrites) /\ WF_vars(WorkerWrites)
    /\ SF_vars(Acknowledge(TRUE))
    /\ <>[][~ProcessDies]_vars
-----------------------------------------------------------------------------
\* Types; a packet that is being handled is the server's oldest and its answer
\* is what comes last (handleMessage), and only lists under way are kept.
TypeOK ==
    /\ contact \in [Peers -> {"none", "Y", "N"}]
    /\ temp \in [Peers -> {"none", "in", "inDone", "out", "outDone"}]
    /\ todo \in Seq([op : Ops, who : Peers])
    /\ dml \in Seq([op : Ops \ {"ack"}, who : Peers])
    /\ refresh \in {"idle", "friends", "stored", "mates"}
    /\ fetched \subseteq Peers /\ friends \subseteq Peers
    /\ call \in {NoCall} \cup
                [what : Requests, who : Peers, at : {"sent", "yes", "no"}]
    /\ asked \subseteq {"in", "out"} \X Peers
    /\ push \in Seq([kind : Kinds, from : Peers]) /\ Len(push) <= MaxPush
    /\ todo # <<>> =>
          push # <<>> /\ todo[Len(todo)] = Op("ack", Head(push).from)

\* Nobody gets into the contacts without grounds: whoever becomes one asked or
\* was asked (a row in the table of requests), or the server listed him, or he
\* was one when his details were requested (QiXinBaseDao.replaceFriendInfos and
\* shiftTempContactInfoById and their callers).
StrangersStayOut ==
    [][\A p \in Peers :
         contact[p] # "Y" /\ contact'[p] = "Y" =>
            \/ temp[p] # "none"
            \/ refresh = "friends" /\ p \in fetched
            \/ Done("check", "yes", p)]_vars

\* The consent of a peer that waits while his request is on file is not lost,
\* whatever dies or is delivered again on the way: he becomes a contact, unless
\* the user deletes the request meanwhile (IMChatService.processPacketIQ,
\* FEATURE_CONTACT_AGREE).  A consent that is read before the worker has filed
\* the request is ignored: only a later login shows that friend.
Waiting(k, p) ==
    todo = <<>> /\ \E i \in DOMAIN push : push[i] = [kind |-> k, from |-> p]
AgreedArrives ==
    \A p \in Peers :
        Waiting("agree", p) /\ temp[p] # "none" ~>
            (contact[p] = "Y" \/ temp[p] = "none")

\* The removal that a contact of this device has sent is not lost either: he
\* does leave the contacts, though the worker and the user's requests write him
\* back in between, or the process dies (IMChatService.processPacketIQ,
\* FEATURE_REMOVE_CONTACT; ContactBusiness.setContactFlag).
RemovalArrives ==
    \A p \in Peers :
        Waiting("remove", p) /\ contact[p] = "Y" ~> contact[p] # "Y"

\* QiXinBaseDao.java:1651: shiftTempContactInfoById moves the temporary contact
\* with the given id into the contacts.  The code copies all of them.
Shifting(p) ==
    \/ WorkerWrites /\ Head(dml) = Op("shift", p)
    \/ MainWrites /\ Head(todo) = Op("shift", p)
OnlyTheNamed ==
    [][\A p \in Peers : Shifting(p) =>
         \A q \in Peers \ {p} : contact'[q] = contact[q]]_vars
=============================================================================
