-------------------------------- MODULE Chat --------------------------------
(***************************************************************************)
(* The chat with one friend: its rows in the table of messages (ctlm1356   *)
(* of dao/QiXinBaseDao.java), the screen that shows them                   *)
(* (activity/im/ChatActivity.java), the tasks that send what the screen    *)
(* shows as under way (activity/im/reSendMsg.java), and the service that   *)
(* stores what the friend writes (service/IMChatService.java).             *)
(*                                                                         *)
(* The list on the screen, message_pool, holds objects (ChatHisBean) that  *)
(* are read from the table or made when a message is written.  The tasks   *)
(* keep a reference to one of them and write its status and the row's.  A  *)
(* row may be on the screen as several objects; an object is a pair of the *)
(* message and a copy number.  Sending starts when the list is laid out:   *)
(* getView makes a task for every object that is under way, each time it   *)
(* is called.  All tasks of the app run one after the other (AsyncTask).   *)
(*                                                                         *)
(* The activity's methods, the service and the receivers run on the main   *)
(* thread, one step each.  A chat has at most one page of messages (ten),  *)
(* so that loading it loads all rows.  A group's chat differs in the       *)
(* columns of its queries.                                                 *)
(***************************************************************************)
EXTENDS Integers, Sequences

CONSTANTS
    Text,       \* messages this user may write: text, ...
    File,       \* ... and those with an attachment: pictures, audio, places
    Theirs,     \* messages of the friend
    Scenes,     \* which of them are still to come
    MaxTasks,   \* bound on the tasks in the executor's queue
    MaxCopies,  \* bound on the objects of one row
    MaxCasts    \* bound on the broadcasts on their way

Mine == Text \cup File
Object == Mine \X (1 .. MaxCopies)

ASSUME ChatAssumption ==
    /\ Text \cap File = {} /\ Mine \cap Theirs = {}
    /\ Scenes \subseteq SUBSET (Mine \cup Theirs)
    /\ MaxTasks \in Nat /\ MaxCasts \in Nat
    /\ MaxCopies \in Nat \ {0}

VARIABLES
    own,        \* ctlm1356: flag_send of this user's rows
    inbox,      \* ctlm1356: flag_read of the friend's rows
    friend,     \* the contact has flag Y
    screen,     \* the activity: "closed", "paused", "shown"
    pool,       \* message_pool: this user's objects
    seen,       \* message_pool: the friend's messages
    bean,       \* status of the objects in use; left: posts they still owe
    tasks,      \* the executor's queue, the running task first
    owed,       \* the callback of an upload that has not written its status yet
    casts,      \* broadcasts for ContacterReceiver
    acks        \* threads of sendMsgResponses

VARIABLES       \* the server
    accepted,   \* messages of this user it has taken
    theirs,     \* those of the friend: "unsaid", "waiting", "acked"
    dropped     \* acknowledged ones that the service did not keep, or that
                \* were deleted with the chat

rows == <<own, inbox, friend>>
list == <<pool, seen, bean>>
server == <<accepted, theirs, dropped>>
work == <<tasks, owed>>
vars == <<own, inbox, friend, screen, pool, seen, bean, tasks, owed, casts,
          acks, accepted, theirs, dropped>>

Sending == {"ing", "success", "fail",
            "file_send_ing", "file_send_success", "file_send_fail"}
NoRow == {"unsent", "gone"}
Stage == {"queued", "posting", "taken", "uploading", "ended"}
Removal == "removal"

(* The messages that are not in the scene were deleted with an earlier chat. *)
Init == \E scene \in Scenes :
    /\ own = [m \in Mine |-> IF m \in scene THEN "unsent" ELSE "gone"]
    /\ inbox = [t \in Theirs |-> "none"]
    /\ friend = TRUE /\ screen = "closed"
    /\ pool = {} /\ seen = {} /\ bean = [b \in {} |-> "none"]
    /\ tasks = <<>> /\ owed = {} /\ casts = <<>> /\ acks = {}
    /\ accepted = Mine \ scene /\ dropped = Theirs \ scene
    /\ theirs = [t \in Theirs |-> IF t \in scene THEN "unsaid" ELSE "acked"]
-----------------------------------------------------------------------------
(* Objects *)

Tasked == {tasks[i].bean : i \in DOMAIN tasks}
Kept == Tasked \cup {c.bean : c \in owed}

(* an object of m that is none of used *)
AllFresh(used) == \A m \in Mine : \E k \in 1 .. MaxCopies : <<m, k>> \notin used
Fresh(m, used) ==
    <<m, CHOOSE k \in 1 .. MaxCopies : <<m, k>> \notin used>>

(* queryEnterpriseInfos: an object has the status of its row *)
Loaded(status) == [send |-> status, left |-> IF status = "ing" THEN 1 ELSE 0]

(* the objects of the rows in table, besides those of used *)
Objects(table, used) ==
    {Fresh(m, used) : m \in {n \in Mine : table[n] \notin NoRow}}

(* What message_pool and its objects are when the rows of table are shown; *)
(* those that no task and no callback keeps are garbage.                   *)
Show(table) ==
    LET new == Objects(table, Kept) IN
    /\ pool' = new
    /\ bean' = [b \in new \cup Kept |->
                   IF b \in Kept THEN bean[b] ELSE Loaded(table[b[1]])]

ForgetList ==
    /\ pool' = {} /\ seen' = {}
    /\ bean' = [b \in Kept |-> bean[b]]

(* f for the objects that are used by queue, by callbacks or by the list *)
Trim(f, queue, callbacks) ==
    [b \in pool \cup {queue[i].bean : i \in DOMAIN queue}
                \cup {c.bean : c \in callbacks} |-> f[b]]
-----------------------------------------------------------------------------
(* The activity *)

AllRead == [t \in Theirs |-> IF inbox[t] = "none" THEN "none" ELSE "Y"]

(* updateSingleChatSendFlag: what an earlier screen left under way failed *)
Fail(status) ==
    CASE status = "ing" -> "fail"
      [] status = "file_send_ing" -> "file_send_fail"
      [] OTHER -> status
Failed == [m \in Mine |-> Fail(own[m])]

Stored(table) == (\E m \in Mine : table[m] \notin NoRow)
                     \/ \E t \in Theirs : inbox[t] # "none"

(* onResume: the receivers are registered, everything counts as read, and *)
(* the list is loaded, unless there is nothing to load.                   *)
ShowChat(table) ==
    /\ AllFresh(Kept)
    /\ screen' = "shown"
    /\ own' = table /\ inbox' = AllRead
    /\ IF Stored(table)
       THEN Show(table) /\ seen' = {t \in Theirs : inbox[t] # "none"}
       ELSE UNCHANGED list
    /\ UNCHANGED <<friend, work, casts, acks, server>>

(* onCreate and onResume, or onNewIntent and onResume *)
OpenChat == screen # "shown" /\ ShowChat(Failed)

onResume == screen = "paused" /\ ShowChat(own)

(* Receivers are unregistered, what was on its way to them is lost. *)
Leave ==
    /\ inbox' = AllRead
    /\ casts' = <<>>

onPause ==
    /\ screen = "shown"
    /\ screen' = "paused"
    /\ Leave
    /\ UNCHANGED <<own, friend, list, work, acks, server>>

onDestroy ==
    /\ screen = "paused"
    /\ screen' = "closed"
    /\ ForgetList
    /\ UNCHANGED <<rows, work, casts, acks, server>>

(* sendMsg, sendPicMessage, sendVoiceMessage, sendLocationMessage *)
sendMsg(m) ==
    /\ screen = "shown" /\ own[m] = "unsent"
    /\ own' = [own EXCEPT ![m] = "ing"]
    /\ pool' = pool \cup {<<m, 1>>}
    /\ bean' = [b \in DOMAIN bean \cup {<<m, 1>>} |->
                   IF b = <<m, 1>> THEN Loaded("ing") ELSE bean[b]]
    /\ UNCHANGED <<inbox, friend, screen, seen, work, casts, acks, server>>

NewTask(b) ==
    /\ Len(tasks) < MaxTasks
    /\ tasks' = Append(tasks, [bean |-> b, at |-> "queued"])

(* ChatListTypeAdapter.bindView, at any layout of the list *)
getView(b) ==
    /\ screen = "shown" /\ b \in pool
    /\ bean[b].send \in {"ing", "file_send_ing"}
    /\ NewTask(b)
    /\ UNCHANGED <<rows, screen, list, owed, casts, acks, server>>

(* showResendDialog.  The mark that opens it belongs to a view of the list,  *)
(* which a task may mark as failed after the view was given to another row:  *)
(* any object may be asked for again.  A text is under way again whatever    *)
(* its status was, of a file what failed is taken up again.  The row keeps   *)
(* its status until the task ends.                                           *)
Again(b) ==
    CASE bean[b].send = "fail" \/ (b[1] \in Text /\ bean[b].send = "success") ->
            [send |-> "ing", left |-> bean[b].left + 1]
      [] bean[b].send = "file_send_fail" ->
            [bean[b] EXCEPT !.send = "file_send_ing"]
      [] OTHER -> bean[b]

Resend(b) ==
    /\ screen = "shown" /\ b \in pool
    /\ NewTask(b)
    /\ bean' = [bean EXCEPT ![b] = Again(b)]
    /\ UNCHANGED <<rows, screen, pool, seen, owed, casts, acks, server>>
-----------------------------------------------------------------------------
(* The tasks *)

Running(at) == tasks # <<>> /\ Head(tasks).at = at
Object1 == Head(tasks).bean
Message1 == Object1[1]
Goes(at) == tasks' = <<[Head(tasks) EXCEPT !.at = at]>> \o Tail(tasks)
Idle == UNCHANGED <<inbox, friend, screen, pool, seen, casts, acks, theirs, dropped>>
Step == Idle /\ UNCHANGED owed

(* saveData: the object, then the row, if it is still there *)
Written(b, status) ==
    own' = [own EXCEPT ![b[1]] = IF @ \in NoRow THEN @ ELSE status]
Marked(b, status) == [bean EXCEPT ![b].send = status]

Save(status, at) ==
    /\ Written(Object1, status)
    /\ bean' = Marked(Object1, status)
    /\ Goes(at)

TaskEnds(f) ==
    /\ tasks' = Tail(tasks)
    /\ bean' = Trim(f, Tail(tasks), owed)

SaveLast(status) ==
    /\ Written(Object1, status)
    /\ TaskEnds(Marked(Object1, status))

(* doInBackground: what is not under way any more is left alone.  TaskBlind *)
(* is a mutant that does not look.                                          *)
TaskPosts(guard) ==
    /\ Running("queued") /\ guard
    /\ Goes("posting")
    /\ bean' = [bean EXCEPT ![Object1].left = @ - 1]
    /\ Step /\ UNCHANGED <<own, accepted>>

TaskBlind == TaskPosts(bean[Object1].send \in {"ing", "success"})
TaskStarts == TaskPosts(bean[Object1].send = "ing")

TaskUploads ==
    /\ Running("queued") /\ bean[Object1].send = "file_send_ing"
    /\ Goes("uploading")
    /\ Step /\ UNCHANGED <<own, bean, accepted>>

TaskIdle ==
    /\ Running("queued") /\ bean[Object1].send \notin {"ing", "file_send_ing"}
    /\ TaskEnds(bean)
    /\ Step /\ UNCHANGED <<own, accepted>>

(* HJWebSocketManager.sendMsg, sendFileChatMsg *)
ServerTakes ==
    /\ Running("posting")
    /\ accepted' = accepted \cup {Message1}
    /\ Goes("taken")
    /\ Step /\ UNCHANGED <<own, bean>>

(* AnsweredAnyhow is a mutant: whatever is answered counts as sent *)
AnswerSaved ==
    /\ IF Message1 \in File THEN Save("file_send_ing", "uploading")
                            ELSE SaveLast("success")
    /\ Step /\ UNCHANGED accepted
AnsweredAnyhow == (Running("posting") \/ Running("taken")) /\ AnswerSaved
Answered == Running("taken") /\ AnswerSaved

(* Refused, not arrived, or the answer is lost.  FailsOnScreen is a mutant  *)
(* that does not write the row.                                            *)
FailsOnScreen ==
    /\ Running("posting") \/ Running("taken")
    /\ TaskEnds(Marked(Object1, "fail"))
    /\ Step /\ UNCHANGED <<own, accepted>>
PostFails ==
    /\ Running("posting") \/ Running("taken")
    /\ SaveLast("fail")
    /\ Step /\ UNCHANGED accepted

(* AttachFileProcessor calls back, always on the same thread; offline it    *)
(* never does (HttpClientManager.open).  First fileSend is set, for the     *)
(* task's loop to end, then the status is written.                          *)
UploadEnds(success) ==
    /\ Running("uploading") /\ owed = {}
    /\ Goes("ended")
    /\ owed' = {[bean |-> Object1,
                 send |-> IF success THEN "file_send_success" ELSE "file_send_fail"]}
    /\ Idle /\ UNCHANGED <<own, bean, accepted>>

UploadSaved(c) ==
    /\ owed' = owed \ {c}
    /\ Written(c.bean, c.send)
    /\ bean' = Trim(Marked(c.bean, c.send), tasks, owed')
    /\ Idle /\ UNCHANGED <<tasks, accepted>>

(* the loop on fileSend, a field that is not volatile, sees the new value *)
LoopEnds ==
    /\ Running("ended")
    /\ TaskEnds(bean)
    /\ Step /\ UNCHANGED <<own, accepted>>
-----------------------------------------------------------------------------
(* The service, and the broadcasts *)

Cast(c) ==
    casts' = IF screen = "shown" THEN Append(casts, c) ELSE casts

(* processPacketMsg.  QuietWhileShown is a mutant: no broadcast for the *)
(* chat that is on the screen.                                          *)
QuietWhileShown(t) == UNCHANGED casts
Announce(t) == Cast(t)

(* KeepUnlessShown is a mutant: what the screen shows anyway is not stored *)
KeepUnlessShown(t) ==
    IF friend /\ screen # "shown" THEN [inbox EXCEPT ![t] = "N"] ELSE inbox
Keep(t) == IF friend THEN [inbox EXCEPT ![t] = "N"] ELSE inbox

processPacketMsg(t) ==
    /\ theirs[t] = "waiting" /\ t \notin acks
    /\ Len(casts) < MaxCasts
    /\ inbox' = Keep(t)
    /\ dropped' = IF friend THEN dropped ELSE dropped \cup {t}
    /\ Announce(t)
    /\ acks' = acks \cup {t}
    /\ UNCHANGED <<own, friend, screen, list, work, accepted, theirs>>

(* a message that is not acknowledged comes again *)
Acknowledge(t, arrives) ==
    /\ t \in acks
    /\ acks' = acks \ {t}
    /\ theirs' = IF arrives THEN [theirs EXCEPT ![t] = "acked"] ELSE theirs
    /\ UNCHANGED <<rows, screen, list, work, casts, accepted, dropped>>

(* ContacterReceiver *)
ReceiveMessage ==
    /\ casts # <<>> /\ Head(casts) # Removal
    /\ seen' = seen \cup {Head(casts)}
    /\ casts' = Tail(casts)
    /\ UNCHANGED <<rows, screen, pool, bean, work, acks, server>>

(* ... finish() *)
ReceiveRemoval ==
    /\ casts # <<>> /\ Head(casts) = Removal
    /\ screen' = "closed"
    /\ Leave /\ ForgetList
    /\ UNCHANGED <<own, friend, work, acks, server>>

(* refalshContent, when the members of some group change: it is to add what *)
(* is unread, and adds every row of this user as well.                      *)
refalshContent ==
    LET used == DOMAIN bean
        new == Objects(own, used)
    IN  /\ screen = "shown"
        /\ AllFresh(used)
        /\ pool' = pool \cup new
        /\ seen' = seen \cup {t \in Theirs : inbox[t] = "N"}
        /\ bean' = [b \in used \cup new |->
                       IF b \in used THEN bean[b] ELSE Loaded(own[b[1]])]
        /\ UNCHANGED <<rows, screen, work, casts, acks, server>>

(* deleteSingleMsgById *)
DeleteRows ==
    /\ own' = [m \in Mine |-> IF own[m] = "unsent" THEN "unsent" ELSE "gone"]
    /\ inbox' = [t \in Theirs |-> "none"]
    /\ dropped' = dropped \cup {t \in Theirs : inbox[t] # "none"}

(* processPacketIQ, FEATURE_REMOVE_CONTACT: the friend ends the friendship.  *)
(* A screen that onNewIntent has opened does not listen to removals; the    *)
(* model does not tell how it was opened.                                   *)
RemoveFriend ==
    /\ friend /\ Len(casts) < MaxCasts
    /\ friend' = FALSE
    /\ DeleteRows
    /\ Cast(Removal) \/ UNCHANGED casts
    /\ UNCHANGED <<screen, list, work, acks, accepted, theirs>>

(* ImFragment: the user deletes the chat in the list of chats *)
DeleteChat ==
    /\ screen # "shown"
    /\ DeleteRows
    /\ UNCHANGED <<friend, screen, list, work, casts, acks, accepted, theirs>>

(* the friend writes *)
Say(t) ==
    /\ theirs[t] = "unsaid"
    /\ theirs' = [theirs EXCEPT ![t] = "waiting"]
    /\ UNCHANGED <<rows, screen, list, work, casts, acks, accepted, dropped>>

(* only the table and the server remain *)
ProcessDies ==
    /\ screen' = "closed"
    /\ pool' = {} /\ seen' = {} /\ bean' = [b \in {} |-> "none"]
    /\ tasks' = <<>> /\ owed' = {} /\ casts' = <<>> /\ acks' = {}
    /\ UNCHANGED <<rows, server>>
-----------------------------------------------------------------------------
Screen == OpenChat \/ onResume \/ onPause \/ onDestroy
Post == ServerTakes \/ Answered \/ PostFails
Task == TaskStarts \/ TaskUploads \/ TaskIdle \/ Post
Upload ==
    \/ \E success \in BOOLEAN : UploadEnds(success)
    \/ \E c \in owed : UploadSaved(c)
    \/ LoopEnds
Service ==
    \/ \E t \in Theirs : \/ processPacketMsg(t)
                         \/ \E arrives \in BOOLEAN : Acknowledge(t, arrives)
                         \/ Say(t)
    \/ ReceiveMessage \/ ReceiveRemoval \/ refalshContent
    \/ RemoveFriend \/ DeleteChat

Next ==
    \/ Screen \/ Task \/ Upload \/ Service \/ ProcessDies
    \/ \E m \in Mine : sendMsg(m)
    \/ \E b \in Object : getView(b) \/ Resend(b)

Spec == Init /\ [][Next]_vars

(* The user comes back to the chat, a list on the screen is laid out some   *)
(* time, tasks go on and requests are answered or time out.  Nothing makes  *)
(* an upload call back.                                                     *)
FairSpec ==
    /\ Spec
    /\ WF_vars(OpenChat \/ onResume)
    /\ \A m \in Mine : SF_vars(\E k \in 1 .. MaxCopies : getView(<<m, k>>))
    /\ WF_vars(Task)
-----------------------------------------------------------------------------
(* Types; the objects in use are those of the list and of the tasks, only *)
(* the first task runs, and broadcasts are on their way to a screen only.  *)
TypeOK ==
    /\ own \in [Mine -> Sending \cup NoRow]
    /\ inbox \in [Theirs -> {"none", "N", "Y"}]
    /\ friend \in BOOLEAN
    /\ screen \in {"closed", "paused", "shown"}
    /\ pool \subseteq Object /\ seen \subseteq Theirs
    /\ tasks \in Seq([bean : Object, at : Stage])
    /\ \A i \in DOMAIN tasks : i # 1 => tasks[i].at = "queued"
    /\ bean \in [pool \cup Kept -> [send : Sending, left : Int]]
    /\ owed \subseteq [bean : Object, send : {"file_send_success", "file_send_fail"}]
    /\ casts \in Seq(Theirs \cup {Removal})
    /\ casts # <<>> => screen = "shown"
    /\ acks \subseteq Theirs
    /\ accepted \subseteq Mine /\ dropped \subseteq Theirs
    /\ theirs \in [Theirs -> {"unsaid", "waiting", "acked"}]

(* A row that says that a message was sent tells the truth: the server has *)
(* it, whatever was shown, resent or restarted meanwhile (saveData).       *)
SentIsSent ==
    \A m \in Mine : own[m] \notin NoRow \cup {"ing", "fail"} => m \in accepted

(* However often the list is laid out, and however many tasks that makes,  *)
(* an object of the list is posted once when it is written or loaded, and  *)
(* once for each time the user asks for it (reSendMsg.sendMsg).            *)
PostedOnce == \A b \in DOMAIN bean : bean[b].left >= 0

(* What the friend says is heard.  What the server was told is here is     *)
(* here, unless it was deleted or came from somebody who is no friend; and *)
(* what is stored is on the screen, if that is open, or about to be shown  *)
(* (processPacketMsg, onResume, ContacterReceiver).                        *)
AckedIsKept(t) == theirs[t] = "acked" => inbox[t] # "none" \/ t \in dropped
StoredIsShown(t) ==
    screen = "shown" /\ inbox[t] # "none" =>
        t \in seen \/ \E i \in DOMAIN casts : casts[i] = t
FriendIsHeard == \A t \in Theirs : AckedIsKept(t) /\ StoredIsShown(t)

(* No message is under way for ever: it is sent, marked as failed or       *)
(* deleted, as long as no upload holds up the tasks behind it (a row is    *)
(* under way only once, when it is written; initIfFriendChat, bindView,    *)
(* reSendMsg).                                                             *)
UnderWayEnds ==
    []<>(~Running("uploading") /\ ~Running("ended")) =>
        <>[](\A m \in Mine : own[m] # "ing")
=============================================================================
