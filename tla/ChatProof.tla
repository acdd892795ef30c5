----------------------------- MODULE ChatProof -----------------------------
(***************************************************************************)
(* Proofs about Chat, for any messages, any number of tasks and of objects *)
(* of a row.  SentIsSent depends on what the objects and the tasks say, as *)
(* a task writes the row from its object; PostedOnce on there being a post *)
(* left for every object that is under way and not being posted.           *)
(***************************************************************************)
EXTENDS Chat, SequenceTheorems, TLAPS

Job == [bean : Object, at : Stage]

\* What says that a message was sent tells the truth: rows, objects, tasks.
SentInv ==
    /\ SentIsSent
    /\ \A b \in DOMAIN bean : bean[b].send \notin {"ing", "fail"} => b[1] \in accepted
    /\ \A i \in DOMAIN tasks :
          tasks[i].at \in {"taken", "uploading"} => tasks[i].bean[1] \in accepted
    /\ \A c \in owed : c.bean[1] \in accepted

Posts(b) == (Running("posting") \/ Running("taken")) /\ Object1 = b

\* An object under way that is not being posted still has a post left.
PostInv ==
    /\ PostedOnce
    /\ \A b \in DOMAIN bean : bean[b].send = "ing" /\ ~Posts(b) => bean[b].left > 0

IInv == TypeOK /\ SentInv /\ PostInv

-----------------------------------------------------------------------------
\* What Goes and the end of a task make of the queue.
LEMMA Queues ==
    ASSUME NEW S, NEW q \in Seq(S), q # <<>>
    PROVE  /\ Head(q) = q[1] /\ Head(q) \in S /\ 1 \in DOMAIN q
           /\ Tail(q) \in Seq(S)
           /\ \A i \in DOMAIN Tail(q) : i + 1 \in DOMAIN q /\ i + 1 # 1 /\ Tail(q)[i] = q[i + 1]
           /\ \A x \in S : LET r == <<x>> \o Tail(q) IN
                 /\ r \in Seq(S) /\ r # <<>> /\ Head(r) = x /\ r[1] = x /\ DOMAIN r = DOMAIN q
                 /\ \A i \in DOMAIN q : i # 1 => r[i] = q[i]
<1>1. /\ Len(q) \in Nat \ {0} /\ DOMAIN q = 1 .. Len(q) /\ Head(q) = q[1] /\ Head(q) \in S
      /\ Tail(q) \in Seq(S) /\ Len(Tail(q)) = Len(q) - 1
      /\ DOMAIN Tail(q) = 1 .. Len(q) - 1
      /\ \A i \in 1 .. Len(q) - 1 : Tail(q)[i] = q[i + 1]
  BY HeadTailProperties, LenProperties, EmptySeq
<1>2. ASSUME NEW x \in S
      PROVE  LET r == <<x>> \o Tail(q) IN
                 /\ r \in Seq(S) /\ r # <<>> /\ Head(r) = x /\ r[1] = x /\ DOMAIN r = DOMAIN q
                 /\ \A i \in DOMAIN q : i # 1 => r[i] = q[i]
  <2> DEFINE r == <<x>> \o Tail(q)
  <2>1. <<x>> \in Seq(S) /\ Len(<<x>>) = 1 /\ <<x>>[1] = x
    OBVIOUS
  <2>2. r \in Seq(S) /\ Len(r) = Len(q) /\ DOMAIN r = DOMAIN q
    BY <1>1, <2>1, ConcatProperties, LenProperties
  <2>3. r[1] = x /\ r # <<>> /\ Head(r) = r[1]
    BY <1>1, <2>1, <2>2, ConcatProperties, LenProperties, EmptySeq, HeadTailProperties
  <2>4. ASSUME NEW i \in DOMAIN q, i # 1  PROVE r[i] = q[i]
    <3>1. i \in Nat /\ i - 1 \in 1 .. Len(q) - 1 /\ i \in 1 .. 1 + (Len(q) - 1) /\ i > 1
      BY <1>1, <2>4
    <3>2. r[i] = Tail(q)[i - 1]
      BY <1>1, <2>1, <3>1, ConcatProperties
    <3> QED
      BY <1>1, <3>1, <3>2
  <2> QED
    BY <2>2, <2>3, <2>4
<1> QED
  BY <1>1, <1>2

\* A task that is made waits at the end of the queue.
LEMMA AppendedTask ==
    ASSUME NEW S, NEW q \in Seq(S), NEW x \in S
    PROVE  LET r == Append(q, x) IN
           /\ r \in Seq(S) /\ r # <<>>
           /\ \A i \in DOMAIN r : (i \in DOMAIN q /\ r[i] = q[i]) \/ (i \notin DOMAIN q /\ r[i] = x)
           /\ DOMAIN q \subseteq DOMAIN r
           /\ \E i \in DOMAIN r : r[i] = x
           /\ q # <<>> => Head(r) = Head(q)
           /\ q = <<>> => Head(r) = x
<1> DEFINE r == Append(q, x)
<1>1. /\ Len(q) \in Nat /\ DOMAIN q = 1 .. Len(q) /\ r \in Seq(S) /\ Len(r) = Len(q) + 1
      /\ DOMAIN r = 1 .. Len(q) + 1 /\ r[Len(q) + 1] = x
      /\ \A i \in 1 .. Len(q) : r[i] = q[i]
  BY AppendProperties, LenProperties
<1>2. r # <<>> /\ Head(r) = r[1]
  BY <1>1, EmptySeq, HeadTailProperties
<1>3. q # <<>> => Head(q) = q[1] /\ Len(q) # 0
  BY <1>1, EmptySeq, HeadTailProperties
<1>4. q = <<>> => Len(q) = 0
  OBVIOUS
<1> QED
  BY <1>1, <1>2, <1>3, <1>4

\* The object of the task that runs.
LEMMA RunningObject ==
    ASSUME TypeOK, tasks # <<>>
    PROVE  /\ Object1 \in Object /\ Object1 \in DOMAIN bean /\ Message1 \in Mine
           /\ Object1 \in Tasked
           /\ Head(tasks) \in Job /\ Head(tasks) = tasks[1] /\ 1 \in DOMAIN tasks
<1>1. tasks \in Seq(Job)
  BY DEF TypeOK, Job
<1>2. Head(tasks) = tasks[1] /\ Head(tasks) \in Job /\ 1 \in DOMAIN tasks
  BY <1>1, Queues
<1>3. Object1 \in Tasked
  BY <1>2 DEF Tasked, Object1
<1> QED
  BY <1>2, <1>3 DEF TypeOK, Kept, Object1, Message1, Object, Job

\* The running task goes on.
LEMMA TaskGoes ==
    ASSUME TypeOK, tasks # <<>>, NEW at \in Stage, Goes(at)
    PROVE  /\ tasks' \in Seq(Job) /\ tasks' # <<>> /\ DOMAIN tasks' = DOMAIN tasks
           /\ Head(tasks') = tasks'[1] /\ tasks'[1] = [bean |-> Object1, at |-> at]
           /\ \A i \in DOMAIN tasks : i # 1 => tasks'[i] = tasks[i]
           /\ Tasked' = Tasked
<1> DEFINE x == [Head(tasks) EXCEPT !.at = at]
<1>1. tasks \in Seq(Job) /\ tasks' = <<x>> \o Tail(tasks)
  BY DEF TypeOK, Job, Goes
<1>2. Head(tasks) \in Job /\ x \in Job /\ x = [bean |-> Object1, at |-> at]
      /\ Head(tasks) = tasks[1] /\ 1 \in DOMAIN tasks
  BY RunningObject DEF Job, Object1
<1> HIDE DEF x
<1>3. /\ tasks' \in Seq(Job) /\ tasks' # <<>> /\ DOMAIN tasks' = DOMAIN tasks
      /\ Head(tasks') = tasks'[1] /\ tasks'[1] = x
      /\ \A i \in DOMAIN tasks : i # 1 => tasks'[i] = tasks[i]
  BY <1>1, <1>2, Queues
<1>4. \A i \in DOMAIN tasks : tasks'[i].bean = tasks[i].bean
  BY <1>2, <1>3 DEF Object1
<1> QED
  BY <1>2, <1>3, <1>4 DEF Tasked

\* The running task ends.
LEMMA QueueAdvances ==
    ASSUME TypeOK, tasks # <<>>, tasks' = Tail(tasks)
    PROVE  /\ tasks' \in Seq(Job)
           /\ \A i \in DOMAIN tasks' : tasks'[i].at = "queued"
           /\ \A at : Running(at)' => at = "queued"
           /\ owed' = owed => Kept' \subseteq Kept
           /\ \A f : owed' = owed => Trim(f, Tail(tasks), owed) = [b \in pool \cup Kept' |-> f[b]]
<1>1. tasks \in Seq(Job)
  BY DEF TypeOK, Job
<1>2. /\ tasks' \in Seq(Job)
      /\ \A i \in DOMAIN tasks' : i + 1 \in DOMAIN tasks /\ i + 1 # 1 /\ tasks'[i] = tasks[i + 1]
  BY <1>1, Queues
<1>3. \A i \in DOMAIN tasks' : tasks'[i].at = "queued"
  BY <1>2 DEF TypeOK
<1>4. tasks' # <<>> => Head(tasks') = tasks'[1] /\ 1 \in DOMAIN tasks'
  BY <1>2, Queues
<1>5. owed' = owed => Kept' \subseteq Kept
  BY <1>2 DEF Kept, Tasked
<1>6. \A f : owed' = owed => Trim(f, Tail(tasks), owed) = [b \in pool \cup Kept' |-> f[b]]
  <2>1. owed' = owed => pool \cup {Tail(tasks)[i].bean : i \in DOMAIN Tail(tasks)}
                             \cup {c.bean : c \in owed} = pool \cup Kept'
    BY DEF Tasked, Kept
  <2> QED
    BY <2>1 DEF Trim
<1>7. \A at : Running(at)' => at = "queued"
  BY <1>3, <1>4 DEF Running
<1> QED
  BY <1>2, <1>3, <1>5, <1>6, <1>7

\* A task is made for an object.
LEMMA TaskMade ==
    ASSUME TypeOK, NEW b \in Object, NewTask(b)
    PROVE  /\ tasks' \in Seq(Job)
           /\ \A i \in DOMAIN tasks' :
                 (i \in DOMAIN tasks /\ tasks'[i] = tasks[i]) \/ tasks'[i].at = "queued"
           /\ Tasked' = Tasked \cup {b}
           /\ \A c : Posts(c)' <=> Posts(c)
<1> DEFINE x == [bean |-> b, at |-> "queued"]
<1>1. tasks \in Seq(Job) /\ tasks' = Append(tasks, x) /\ x \in Job
  BY DEF TypeOK, Job, NewTask, Stage
<1>2. x.bean = b /\ x.at = "queued"
  OBVIOUS
<1> HIDE DEF x
<1>3. /\ tasks' \in Seq(Job) /\ tasks' # <<>>
      /\ \A i \in DOMAIN tasks' :
            (i \in DOMAIN tasks /\ tasks'[i] = tasks[i]) \/ (i \notin DOMAIN tasks /\ tasks'[i] = x)
      /\ DOMAIN tasks \subseteq DOMAIN tasks'
      /\ \E i \in DOMAIN tasks' : tasks'[i] = x
      /\ tasks # <<>> => Head(tasks') = Head(tasks)
      /\ tasks = <<>> => Head(tasks') = x
  BY <1>1, AppendedTask
<1>4. Tasked' = Tasked \cup {b}
  <2>1. \A i \in DOMAIN tasks' : tasks'[i].bean \in Tasked \cup {b}
    BY <1>2, <1>3 DEF Tasked
  <2>2. \A i \in DOMAIN tasks : \E j \in DOMAIN tasks' : tasks'[j].bean = tasks[i].bean
    BY <1>3
  <2>3. \E j \in DOMAIN tasks' : tasks'[j].bean = b
    BY <1>2, <1>3
  <2> QED
    BY <2>1, <2>2, <2>3 DEF Tasked
<1>5. \A c : Posts(c)' <=> Posts(c)
  BY <1>2, <1>3 DEF Posts, Running, Object1
<1> QED
  BY <1>2, <1>3, <1>4, <1>5

\* An unused object of a row.
LEMMA FreshObject ==
    ASSUME NEW used, AllFresh(used), NEW m \in Mine
    PROVE  Fresh(m, used) \in Object /\ Fresh(m, used)[1] = m
BY DEF AllFresh, Fresh, Object

-----------------------------------------------------------------------------
\* Rows that tell the truth.
RowsTrue(table) ==
    \A m \in Mine : table[m] \notin NoRow \cup {"ing", "fail"} => m \in accepted

Records == [send : Sending, left : Int]

\* The objects are those that were there, and some that were read from table.
ReadFrom(table) ==
    /\ pool' \subseteq Object
    /\ bean' \in [pool' \cup Kept' -> Records]
    /\ \A b \in DOMAIN bean' :
          \/ b \in DOMAIN bean /\ bean'[b] = bean[b]
          \/ b[1] \in Mine /\ table[b[1]] \notin NoRow /\ bean'[b] = Loaded(table[b[1]])

LEMMA NewObjects ==
    ASSUME NEW table \in [Mine -> Sending \cup NoRow], NEW used, AllFresh(used)
    PROVE  /\ Objects(table, used) \subseteq Object
           /\ \A b \in Objects(table, used) :
                 /\ b[1] \in Mine /\ table[b[1]] \notin NoRow
                 /\ Loaded(table[b[1]]) \in Records
<1>1. ASSUME NEW m \in Mine, table[m] \notin NoRow
      PROVE  /\ Fresh(m, used) \in Object /\ Fresh(m, used)[1] = m
             /\ Loaded(table[m]) \in Records
  BY <1>1, FreshObject DEF Loaded, Records
<1> QED
  BY <1>1 DEF Objects

\* A list that is loaded.
LEMMA Shows ==
    ASSUME TypeOK, NEW table \in [Mine -> Sending \cup NoRow], AllFresh(Kept),
           Show(table), UNCHANGED work
    PROVE  ReadFrom(table)
<1> DEFINE new == Objects(table, Kept)
<1>1. Kept' = Kept
  BY DEF Kept, Tasked, work
<1>2. /\ new \subseteq Object
      /\ \A b \in new : /\ b[1] \in Mine /\ table[b[1]] \notin NoRow
                        /\ Loaded(table[b[1]]) \in Records
  BY NewObjects
<1>3. /\ pool' = new
      /\ bean' = [b \in new \cup Kept |-> IF b \in Kept THEN bean[b] ELSE Loaded(table[b[1]])]
  BY DEF Show
<1>4. bean \in [pool \cup Kept -> Records]
  BY DEF TypeOK, Records
<1> HIDE DEF new
<1> QED
  BY <1>1, <1>2, <1>3, <1>4 DEF ReadFrom

\* A list that is left.
LEMMA Forgets ==
    ASSUME TypeOK, ForgetList, UNCHANGED work, NEW table
    PROVE  ReadFrom(table)
<1>1. bean \in [pool \cup Kept -> Records] /\ Kept' = Kept
  BY DEF TypeOK, Records, Kept, Tasked, work
<1> QED
  BY <1>1 DEF ForgetList, ReadFrom

LEMMA Stays ==
    ASSUME TypeOK, UNCHANGED <<pool, bean, work>>, NEW table
    PROVE  ReadFrom(table)
<1>1. bean \in [pool \cup Kept -> Records] /\ Kept' = Kept /\ pool \subseteq Object
  BY DEF TypeOK, Records, Kept, Tasked, work
<1> QED
  BY <1>1 DEF ReadFrom

\* Reading the table keeps what the objects are known to say.
LEMMA ReadingKeeps ==
    ASSUME IInv, NEW table, RowsTrue(table), RowsTrue(own'), ReadFrom(table),
           UNCHANGED work, accepted' = accepted
    PROVE  SentInv' /\ PostInv'
<1>1. \A b : Posts(b)' <=> Posts(b)
  BY DEF Posts, Running, Object1, work
<1>2. bean \in [pool \cup Kept -> Records]
  BY DEF IInv, TypeOK, Records
<1>3. ASSUME NEW b \in DOMAIN bean'
      PROVE  /\ bean'[b].send \notin {"ing", "fail"} => b[1] \in accepted
             /\ bean'[b].left >= 0
             /\ bean'[b].send = "ing" /\ ~Posts(b) => bean'[b].left > 0
  <2>1. CASE b \in DOMAIN bean /\ bean'[b] = bean[b]
    BY <2>1 DEF IInv, SentInv, PostInv, PostedOnce
  <2>2. CASE b[1] \in Mine /\ table[b[1]] \notin NoRow /\ bean'[b] = Loaded(table[b[1]])
    <3>1. bean'[b].send = table[b[1]] /\ bean'[b].left = IF table[b[1]] = "ing" THEN 1 ELSE 0
      BY <2>2 DEF Loaded
    <3> QED
      BY <2>2, <3>1 DEF RowsTrue
  <2> QED
    BY <2>1, <2>2, <1>3 DEF ReadFrom
<1>4. SentIsSent'
  BY DEF SentIsSent, RowsTrue
<1>5. SentInv'
  BY <1>3, <1>4 DEF SentInv, IInv, work
<1>6. PostInv'
  BY <1>1, <1>3 DEF PostInv, PostedOnce
<1> QED
  BY <1>5, <1>6

-----------------------------------------------------------------------------
\* The screen: it reads the table, or forgets what it has read.
LEMMA ScreenStep ==
    ASSUME IInv, Screen
    PROVE  IInv'
<1>0. TypeOK /\ RowsTrue(own) /\ own \in [Mine -> Sending \cup NoRow]
      /\ AllRead \in [Theirs -> {"none", "N", "Y"}]
  BY DEF IInv, SentInv, SentIsSent, RowsTrue, TypeOK, AllRead
<1>1. ASSUME NEW table \in [Mine -> Sending \cup NoRow], RowsTrue(table), ShowChat(table)
      PROVE  IInv'
  <2>1. AllFresh(Kept) /\ own' = table /\ UNCHANGED <<friend, work, casts, acks, server>>
        /\ screen' = "shown" /\ inbox' = AllRead
    BY <1>1 DEF ShowChat
  <2>2. CASE Stored(table)
    <3>1. Show(table) /\ seen' \subseteq Theirs
      BY <1>1, <2>2 DEF ShowChat
    <3>2. ReadFrom(table)
      BY <1>0, <2>1, <3>1, Shows
    <3>3. TypeOK'
      BY <1>0, <2>1, <3>1, <3>2 DEF TypeOK, ReadFrom, Records, work, server
    <3> QED
      BY <1>1, <2>1, <3>2, <3>3, ReadingKeeps DEF IInv, server
  <2>3. CASE ~Stored(table)
    <3>1. UNCHANGED list
      BY <1>1, <2>3 DEF ShowChat
    <3>2. ReadFrom(table)
      BY <1>0, <2>1, <3>1, Stays DEF list
    <3>3. TypeOK'
      BY <1>0, <2>1, <3>1, <3>2 DEF TypeOK, ReadFrom, Records, work, server, list
    <3> QED
      BY <1>1, <2>1, <3>2, <3>3, ReadingKeeps DEF IInv, server
  <2> QED
    BY <2>2, <2>3
<1>2. CASE OpenChat
  <2>1. Failed \in [Mine -> Sending \cup NoRow]
    BY <1>0 DEF Failed, Fail, Sending
  <2>2. RowsTrue(Failed)
    BY <1>0 DEF RowsTrue, Failed, Fail, NoRow
  <2> QED
    BY <1>1, <1>2, <2>1, <2>2 DEF OpenChat
<1>3. CASE onResume
  BY <1>0, <1>1, <1>3 DEF onResume
<1>4. CASE onPause
  <2>1. ReadFrom(own)
    BY <1>0, <1>4, Stays DEF onPause, list
  <2>2. /\ inbox' = AllRead /\ casts' = <<>> /\ screen' = "paused"
        /\ UNCHANGED <<own, friend, seen, work, acks, accepted, theirs, dropped>>
    BY <1>4 DEF onPause, Leave, list, server
  <2>3. TypeOK'
    BY <1>0, <2>1, <2>2 DEF TypeOK, ReadFrom, Records, work
  <2> QED
    BY <1>0, <2>1, <2>2, <2>3, ReadingKeeps DEF IInv
<1>5. CASE onDestroy
  <2>1. ReadFrom(own)
    BY <1>0, <1>5, Forgets DEF onDestroy
  <2>2. TypeOK'
    BY <1>0, <1>5, <2>1 DEF onDestroy, ForgetList, TypeOK, ReadFrom, Records, work, rows, server
  <2> QED
    BY <1>0, <1>5, <2>1, <2>2, ReadingKeeps DEF onDestroy, IInv, rows, server
<1> QED
  BY <1>2, <1>3, <1>4, <1>5 DEF Screen

\* The service, the broadcasts and the process's death.
LEMMA ServiceStep ==
    ASSUME IInv, Service
    PROVE  IInv'
<1>0. TypeOK /\ RowsTrue(own) /\ own \in [Mine -> Sending \cup NoRow]
      /\ AllRead \in [Theirs -> {"none", "N", "Y"}]
  BY DEF IInv, SentInv, SentIsSent, RowsTrue, TypeOK, AllRead
<1>1. \A c \in Theirs \cup {Removal} : Cast(c) =>
          /\ casts' \in Seq(Theirs \cup {Removal})
          /\ casts' # <<>> => screen = "shown"
  BY <1>0, AppendedTask DEF Cast, TypeOK
<1>2. casts # <<>> => /\ Head(casts) \in Theirs \cup {Removal}
                      /\ Tail(casts) \in Seq(Theirs \cup {Removal})
  BY <1>0, Queues DEF TypeOK
<1>3. ASSUME NEW t \in Theirs, processPacketMsg(t)  PROVE IInv'
  <2>1. ReadFrom(own)
    BY <1>0, <1>3, Stays DEF processPacketMsg, list
  <2>2. TypeOK'
    BY <1>0, <1>1, <1>3, <2>1
       DEF processPacketMsg, Keep, Announce, TypeOK, ReadFrom, Records, work, list
  <2> QED
    BY <1>0, <1>3, <2>1, <2>2, ReadingKeeps DEF processPacketMsg, IInv
<1>4. ASSUME NEW t \in Theirs, NEW arrives \in BOOLEAN, Acknowledge(t, arrives)  PROVE IInv'
  <2>1. ReadFrom(own)
    BY <1>0, <1>4, Stays DEF Acknowledge, list
  <2>2. TypeOK'
    BY <1>0, <1>4, <2>1 DEF Acknowledge, TypeOK, ReadFrom, Records, work, rows, list
  <2> QED
    BY <1>0, <1>4, <2>1, <2>2, ReadingKeeps DEF Acknowledge, IInv, rows
<1>5. ASSUME NEW t \in Theirs, Say(t)  PROVE IInv'
  <2>1. ReadFrom(own)
    BY <1>0, <1>5, Stays DEF Say, list
  <2>2. TypeOK'
    BY <1>0, <1>5, <2>1 DEF Say, TypeOK, ReadFrom, Records, work, rows, list
  <2> QED
    BY <1>0, <1>5, <2>1, <2>2, ReadingKeeps DEF Say, IInv, rows
<1>6. CASE ReceiveMessage
  <2>1. ReadFrom(own)
    BY <1>0, <1>6, Stays DEF ReceiveMessage
  <2>2. TypeOK'
    BY <1>0, <1>2, <1>6, <2>1 DEF ReceiveMessage, TypeOK, ReadFrom, Records, work, rows, server
  <2> QED
    BY <1>0, <1>6, <2>1, <2>2, ReadingKeeps DEF ReceiveMessage, IInv, rows, server
<1>7. CASE ReceiveRemoval
  <2>1. ReadFrom(own)
    BY <1>0, <1>7, Forgets DEF ReceiveRemoval
  <2>2. TypeOK'
    BY <1>0, <1>7, <2>1 DEF ReceiveRemoval, Leave, ForgetList, TypeOK, ReadFrom, Records, work, server
  <2> QED
    BY <1>0, <1>7, <2>1, <2>2, ReadingKeeps DEF ReceiveRemoval, IInv, server
<1>8. CASE refalshContent
  <2> DEFINE used == DOMAIN bean
             new == Objects(own, used)
  <2>1. /\ AllFresh(used) /\ pool' = pool \cup new
        /\ bean' = [b \in used \cup new |-> IF b \in used THEN bean[b] ELSE Loaded(own[b[1]])]
    BY <1>8 DEF refalshContent
  <2>2. /\ new \subseteq Object
        /\ \A b \in new : /\ b[1] \in Mine /\ own[b[1]] \notin NoRow
                          /\ Loaded(own[b[1]]) \in Records
    BY <1>0, <2>1, NewObjects
  <2>3. /\ bean \in [pool \cup Kept -> Records] /\ used = pool \cup Kept /\ Kept' = Kept
        /\ pool \subseteq Object
    BY <1>0, <1>8 DEF TypeOK, Records, refalshContent, Kept, Tasked, work
  <2> HIDE DEF new, used
  <2>4. ReadFrom(own)
    BY <2>1, <2>2, <2>3 DEF ReadFrom, used
  <2>5. TypeOK'
    BY <1>0, <1>8, <2>4 DEF refalshContent, TypeOK, ReadFrom, Records, work, rows, server
  <2> QED
    BY <1>0, <1>8, <2>4, <2>5, ReadingKeeps DEF refalshContent, IInv, rows, server
<1>9. ASSUME DeleteRows
      PROVE  /\ own' \in [Mine -> Sending \cup NoRow] /\ RowsTrue(own')
             /\ inbox' \in [Theirs -> {"none", "N", "Y"}] /\ dropped' \subseteq Theirs
  BY <1>0, <1>9 DEF DeleteRows, RowsTrue, NoRow, TypeOK
<1>10. CASE RemoveFriend
  <2>1. ReadFrom(own)
    BY <1>0, <1>10, Stays DEF RemoveFriend, list
  <2>2. TypeOK'
    BY <1>0, <1>1, <1>9, <1>10, <2>1 DEF RemoveFriend, TypeOK, ReadFrom, Records, work, list
  <2> QED
    BY <1>0, <1>9, <1>10, <2>1, <2>2, ReadingKeeps DEF RemoveFriend, IInv
<1>11. CASE DeleteChat
  <2>1. ReadFrom(own)
    BY <1>0, <1>11, Stays DEF DeleteChat, list
  <2>2. TypeOK'
    BY <1>0, <1>9, <1>11, <2>1 DEF DeleteChat, TypeOK, ReadFrom, Records, work, list
  <2> QED
    BY <1>0, <1>9, <1>11, <2>1, <2>2, ReadingKeeps DEF DeleteChat, IInv
<1> QED
  BY <1>3, <1>4, <1>5, <1>6, <1>7, <1>8, <1>10, <1>11 DEF Service

-----------------------------------------------------------------------------
\* A message that is written, and the tasks that are made for objects.
LEMMA WritingStep ==
    ASSUME IInv, ChatAssumption
    PROVE  /\ \A m \in Mine : sendMsg(m) => IInv'
           /\ \A b \in Object : getView(b) \/ Resend(b) => IInv'
<1>0. TypeOK /\ RowsTrue(own) /\ bean \in [pool \cup Kept -> Records]
  BY DEF IInv, SentInv, SentIsSent, RowsTrue, TypeOK, Records
<1>1. ASSUME NEW m \in Mine, sendMsg(m)  PROVE IInv'
  <2> DEFINE o == <<m, 1>>
  <2>1. /\ own' = [own EXCEPT ![m] = "ing"] /\ pool' = pool \cup {o}
        /\ bean' = [b \in DOMAIN bean \cup {o} |-> IF b = o THEN Loaded("ing") ELSE bean[b]]
        /\ UNCHANGED <<inbox, friend, screen, seen, work, casts, acks, server>>
    BY <1>1 DEF sendMsg
  <2>2. o \in Object /\ o[1] = m /\ Loaded("ing") \in Records /\ "ing" \in Sending
    BY DEF ChatAssumption, Object, Loaded, Records, Sending
  <2>3. own' \in [Mine -> Sending \cup NoRow] /\ RowsTrue(own') /\ own'[m] = "ing"
        /\ "ing" \notin NoRow
    BY <1>0, <2>1, <2>2 DEF RowsTrue, NoRow, TypeOK
  <2>4. Kept' = Kept /\ pool \subseteq Object
    BY <1>0, <2>1 DEF Kept, Tasked, work, TypeOK
  <2> HIDE DEF o
  <2>5. ReadFrom(own')
    BY <1>0, <2>1, <2>2, <2>3, <2>4 DEF ReadFrom
  <2>6. TypeOK'
    BY <1>0, <2>1, <2>3, <2>5 DEF TypeOK, ReadFrom, Records, work, server
  <2> QED
    BY <2>1, <2>3, <2>5, <2>6, ReadingKeeps DEF IInv, server
<1>2. ASSUME NEW b \in Object, b \in pool, NewTask(b), NEW r \in Records,
             bean' = [bean EXCEPT ![b] = r],
             r.send \notin {"ing", "fail"} => b[1] \in accepted, r.left >= 0,
             r.send = "ing" /\ ~Posts(b) => r.left > 0,
             UNCHANGED <<rows, screen, pool, seen, owed, casts, acks, server>>
      PROVE  IInv'
  <2>1. /\ tasks' \in Seq(Job)
        /\ \A i \in DOMAIN tasks' :
              (i \in DOMAIN tasks /\ tasks'[i] = tasks[i]) \/ tasks'[i].at = "queued"
        /\ Kept' = Kept \cup {b}
        /\ \A c : Posts(c)' <=> Posts(c)
    BY <1>0, <1>2, TaskMade DEF Kept
  <2>2. /\ bean' \in [pool \cup Kept' -> Records]
        /\ \A c \in DOMAIN bean' : bean'[c] = IF c = b THEN r ELSE bean[c]
        /\ DOMAIN bean' = DOMAIN bean
    BY <1>0, <1>2, <2>1
  <2>3. TypeOK'
    <3>1. \A i \in DOMAIN tasks' : i # 1 => tasks'[i].at = "queued"
      BY <1>0, <2>1 DEF TypeOK
    <3> QED
      BY <1>0, <1>2, <2>1, <2>2, <3>1 DEF TypeOK, Records, Job, rows, server
  <2>4. SentInv'
    <3>1. \A i \in DOMAIN tasks' :
             tasks'[i].at \in {"taken", "uploading"} => tasks'[i].bean[1] \in accepted'
      BY <1>2, <2>1 DEF IInv, SentInv, server
    <3>2. \A c \in DOMAIN bean' : bean'[c].send \notin {"ing", "fail"} => c[1] \in accepted'
      BY <1>2, <2>2 DEF IInv, SentInv, server
    <3> QED
      BY <1>2, <3>1, <3>2 DEF IInv, SentInv, SentIsSent, rows, server
  <2>5. PostInv'
    BY <1>2, <2>1, <2>2 DEF IInv, PostInv, PostedOnce
  <2> QED
    BY <2>3, <2>4, <2>5 DEF IInv
<1>3. ASSUME NEW b \in Object, getView(b)  PROVE IInv'
  <2>1. b \in pool /\ b \in DOMAIN bean /\ bean[b] \in Records /\ NewTask(b)
        /\ bean' = [bean EXCEPT ![b] = bean[b]]
        /\ UNCHANGED <<rows, screen, pool, seen, owed, casts, acks, server>>
    BY <1>0, <1>3 DEF getView, list
  <2>2. /\ bean[b].send \notin {"ing", "fail"} => b[1] \in accepted
        /\ bean[b].left >= 0
        /\ bean[b].send = "ing" /\ ~Posts(b) => bean[b].left > 0
    BY <2>1 DEF IInv, SentInv, PostInv, PostedOnce
  <2> QED
    BY <1>2, <2>1, <2>2
<1>4. ASSUME NEW b \in Object, Resend(b)  PROVE IInv'
  <2>1. b \in pool /\ b \in DOMAIN bean /\ bean[b] \in Records /\ NewTask(b)
        /\ bean' = [bean EXCEPT ![b] = Again(b)]
        /\ UNCHANGED <<rows, screen, pool, seen, owed, casts, acks, server>>
    BY <1>0, <1>4 DEF Resend
  <2>2. /\ bean[b].left \in Int /\ bean[b].left >= 0
        /\ bean[b].send \notin {"ing", "fail"} => b[1] \in accepted
        /\ bean[b].send = "ing" /\ ~Posts(b) => bean[b].left > 0
    BY <2>1 DEF IInv, SentInv, PostInv, PostedOnce, Records
  <2>3. PICK r \in Records :
          /\ bean' = [bean EXCEPT ![b] = r]
          /\ \/ r.send = "ing" /\ r.left > 0
             \/ r.send = "file_send_ing" /\ b[1] \in accepted
             \/ r = bean[b]
          /\ r.left >= 0
    <3>1. CASE bean[b].send = "fail" \/ (b[1] \in Text /\ bean[b].send = "success")
      <4> DEFINE n == bean[b].left + 1
                 r == [send |-> "ing", left |-> n]
      <4>1. n \in Int /\ n > 0 /\ n >= 0
        BY <2>2
      <4>2. bean' = [bean EXCEPT ![b] = r]
        <5>1. bean[b].send # "file_send_fail"
          BY <3>1
        <5>2. Again(b) = r
          BY <3>1, <5>1, Zenon DEF Again
        <5> QED
          BY <2>1, <5>2
      <4> HIDE DEF n
      <4>3. r \in Records /\ r.send = "ing" /\ r.left = n
        BY <4>1 DEF Records, Sending
      <4> HIDE DEF r
      <4> QED
        BY <2>1, <4>1, <4>2, <4>3
    <3>2. CASE bean[b].send = "file_send_fail"
      <4> DEFINE r == [bean[b] EXCEPT !.send = "file_send_ing"]
      <4>1. b[1] \in accepted /\ bean[b].left >= 0
        BY <2>2, <3>2
      <4>2. bean' = [bean EXCEPT ![b] = r]
        <5>1. bean[b].send # "fail" /\ bean[b].send # "success"
          BY <3>2
        <5>2. Again(b) = r
          BY <3>2, <5>1, Zenon DEF Again
        <5> QED
          BY <2>1, <5>2
      <4>3. r \in Records /\ r.send = "file_send_ing" /\ r.left = bean[b].left
        BY <2>1 DEF Records, Sending
      <4> HIDE DEF r
      <4> QED
        BY <2>1, <4>1, <4>2, <4>3
    <3>3. CASE /\ ~(bean[b].send = "fail" \/ (b[1] \in Text /\ bean[b].send = "success"))
               /\ bean[b].send # "file_send_fail"
      <4>1. Again(b) = bean[b]
        BY <3>3, Zenon DEF Again
      <4> QED
        BY <2>1, <2>2, <4>1
    <3> QED
      BY <3>1, <3>2, <3>3
  <2>4. /\ r.send \notin {"ing", "fail"} => b[1] \in accepted
        /\ r.send = "ing" /\ ~Posts(b) => r.left > 0
    BY <2>2, <2>3
  <2> QED
    BY <1>2, <2>1, <2>3, <2>4
<1> QED
  BY <1>1, <1>3, <1>4

-----------------------------------------------------------------------------
\* A step of the running task: the queue stays, and its object is written.
LEMMA TaskContinues ==
    ASSUME IInv, tasks # <<>>, NEW at \in Stage, Goes(at), NEW r \in Records,
           bean' = [bean EXCEPT ![Object1] = r],
           own' \in [Mine -> Sending \cup NoRow], accepted' \subseteq Mine,
           accepted \subseteq accepted',
           \A m \in Mine : own'[m] = own[m] \/ (m = Message1 /\ own'[m] = r.send),
           r.send \notin {"ing", "fail"} \/ at \in {"taken", "uploading"} => Message1 \in accepted',
           r.left >= 0, r.send = "ing" => r.left > 0 \/ at \in {"posting", "taken"},
           Idle,
           \/ owed' = owed
           \/ /\ owed = {} /\ Message1 \in accepted
              /\ \E send \in {"file_send_success", "file_send_fail"} :
                    owed' = {[bean |-> Object1, send |-> send]}
    PROVE  IInv'
<1>0. TypeOK /\ bean \in [pool \cup Kept -> Records]
  BY DEF IInv, TypeOK, Records
<1>1. /\ tasks' \in Seq(Job) /\ tasks' # <<>> /\ DOMAIN tasks' = DOMAIN tasks
      /\ Head(tasks') = tasks'[1] /\ tasks'[1] = [bean |-> Object1, at |-> at]
      /\ \A i \in DOMAIN tasks : i # 1 => tasks'[i] = tasks[i]
      /\ Kept' = Kept
  BY <1>0, TaskGoes, RunningObject DEF Kept
<1>2. /\ Object1 \in DOMAIN bean /\ Object1 \in Object /\ Message1 \in Mine
      /\ Head(tasks) = tasks[1] /\ 1 \in DOMAIN tasks
  BY <1>0, RunningObject
<1>3. /\ bean' \in [pool \cup Kept -> Records] /\ DOMAIN bean' = DOMAIN bean
      /\ \A b \in DOMAIN bean : bean'[b] = IF b = Object1 THEN r ELSE bean[b]
  BY <1>0, <1>2
<1>4. TypeOK'
  <2>1. \A i \in DOMAIN tasks' : i # 1 => tasks'[i].at = "queued"
    BY <1>0, <1>1 DEF TypeOK
  <2> QED
    BY <1>0, <1>1, <1>2, <1>3, <2>1 DEF TypeOK, Idle, Records, Job
<1>5. SentInv'
  <2>1. SentIsSent'
    BY <1>2 DEF IInv, SentInv, SentIsSent
  <2>2. \A b \in DOMAIN bean' : bean'[b].send \notin {"ing", "fail"} => b[1] \in accepted'
    BY <1>3 DEF IInv, SentInv, Message1
  <2>3. \A i \in DOMAIN tasks' :
           tasks'[i].at \in {"taken", "uploading"} => tasks'[i].bean[1] \in accepted'
    BY <1>1 DEF IInv, SentInv, Message1
  <2>4. \A c \in owed' : c.bean[1] \in accepted'
    BY DEF IInv, SentInv, Message1
  <2> QED
    BY <2>1, <2>2, <2>3, <2>4 DEF SentInv
<1>6. PostInv'
  <2>1. \A b : Posts(b)' <=> at \in {"posting", "taken"} /\ b = Object1
    BY <1>1 DEF Posts, Running, Object1
  <2>2. \A b : Posts(b) => b = Object1
    BY DEF Posts
  <2> QED
    BY <1>3, <2>1, <2>2 DEF IInv, PostInv, PostedOnce
<1> QED
  BY <1>4, <1>5, <1>6 DEF IInv

\* The running task ends; its object, if it is still in use, is written last.
LEMMA TaskFinishes ==
    ASSUME IInv, tasks # <<>>, tasks' = Tail(tasks), NEW r \in Records,
           bean' = Trim([bean EXCEPT ![Object1] = r], Tail(tasks), owed),
           own' \in [Mine -> Sending \cup NoRow], accepted' = accepted,
           \A m \in Mine : own'[m] = own[m] \/ (m = Message1 /\ own'[m] = r.send),
           r.send \notin {"ing", "fail"} => Message1 \in accepted,
           r.left >= 0, r.send = "ing" => r.left > 0,
           Step
    PROVE  IInv'
<1>0. TypeOK /\ bean \in [pool \cup Kept -> Records]
  BY DEF IInv, TypeOK, Records
<1>1. /\ tasks' \in Seq(Job)
      /\ \A i \in DOMAIN tasks' : tasks'[i].at = "queued"
      /\ \A at : Running(at)' => at = "queued"
      /\ Kept' \subseteq Kept
      /\ bean' = [b \in pool \cup Kept' |-> [bean EXCEPT ![Object1] = r][b]]
  BY <1>0, QueueAdvances DEF Step
<1>2. Object1 \in DOMAIN bean /\ Message1 \in Mine
  BY <1>0, RunningObject
<1>3. /\ bean' \in [pool \cup Kept' -> Records] /\ DOMAIN bean' \subseteq DOMAIN bean
      /\ \A b \in DOMAIN bean' : bean'[b] = IF b = Object1 THEN r ELSE bean[b]
  BY <1>0, <1>1, <1>2
<1>4. TypeOK'
  BY <1>0, <1>1, <1>3 DEF TypeOK, Step, Idle, Records, Job
<1>5. SentInv'
  <2>1. SentIsSent'
    BY <1>2 DEF IInv, SentInv, SentIsSent
  <2>2. \A b \in DOMAIN bean' : bean'[b].send \notin {"ing", "fail"} => b[1] \in accepted'
    BY <1>3 DEF IInv, SentInv, Message1
  <2> QED
    BY <1>1, <2>1, <2>2 DEF IInv, SentInv, Step
<1>6. PostInv'
  <2>1. \A b : ~Posts(b)'
    BY <1>1 DEF Posts
  <2>2. \A b : Posts(b) => b = Object1
    BY DEF Posts
  <2> QED
    BY <1>3, <2>1, <2>2 DEF IInv, PostInv, PostedOnce
<1> QED
  BY <1>4, <1>5, <1>6 DEF IInv

\* The callback of an upload writes its object, and its row.
LEMMA CallbackStep ==
    ASSUME IInv, NEW c \in owed, UploadSaved(c)
    PROVE  IInv'
<1> DEFINE o == c.bean
           s == c.send
           r == [bean[o] EXCEPT !.send = s]
<1>0. TypeOK /\ bean \in [pool \cup Kept -> Records]
  BY DEF IInv, TypeOK, Records
<1>1. /\ o \in Object /\ o[1] \in Mine /\ o[1] \in accepted /\ o \in DOMAIN bean
      /\ s \in Sending /\ s \notin {"ing", "fail"}
  BY <1>0 DEF TypeOK, IInv, SentInv, Kept, Object, Sending
<1>2. /\ owed' = owed \ {c} /\ own' = [own EXCEPT ![o[1]] = IF @ \in NoRow THEN @ ELSE s]
      /\ bean' = Trim([bean EXCEPT ![o] = r], tasks, owed') /\ Idle
      /\ UNCHANGED <<tasks, accepted>>
  BY <1>0, <1>1 DEF UploadSaved, Written, Marked
<1>3. r \in Records /\ r.send = s /\ r.left = bean[o].left
  BY <1>0, <1>1 DEF Records
<1>4. Kept' \subseteq Kept /\ bean' = [b \in pool \cup Kept' |-> [bean EXCEPT ![o] = r][b]]
  <2>1. pool \cup {tasks[i].bean : i \in DOMAIN tasks} \cup {d.bean : d \in owed'} = pool \cup Kept'
    BY <1>2 DEF Tasked, Kept
  <2>2. Kept' \subseteq Kept
    BY <1>2 DEF Tasked, Kept
  <2> QED
    BY <1>2, <2>1, <2>2 DEF Trim
<1> HIDE DEF o, s, r
<1>5. /\ bean' \in [pool \cup Kept' -> Records] /\ DOMAIN bean' \subseteq DOMAIN bean
      /\ \A b \in DOMAIN bean' : bean'[b] = IF b = o THEN r ELSE bean[b]
  BY <1>0, <1>1, <1>3, <1>4
<1>6. TypeOK'
  BY <1>0, <1>1, <1>2, <1>5 DEF TypeOK, Idle, Records
<1>7. SentInv'
  <2>1. SentIsSent'
    BY <1>0, <1>1, <1>2 DEF TypeOK, IInv, SentInv, SentIsSent
  <2>2. \A b \in DOMAIN bean' : bean'[b].send \notin {"ing", "fail"} => b[1] \in accepted'
    BY <1>1, <1>2, <1>5 DEF IInv, SentInv
  <2> QED
    BY <1>2, <2>1, <2>2 DEF IInv, SentInv
<1>8. PostInv'
  <2>1. \A b : Posts(b)' <=> Posts(b)
    BY <1>2 DEF Posts, Running, Object1
  <2> QED
    BY <1>1, <1>3, <1>5, <2>1 DEF IInv, PostInv, PostedOnce
<1> QED
  BY <1>6, <1>7, <1>8 DEF IInv

\* The tasks.  A task that posts has a post left, as nothing else is posted.
LEMMA TaskStep ==
    ASSUME IInv, Task \/ LoopEnds \/ \E success \in BOOLEAN : UploadEnds(success)
    PROVE  IInv'
<1> DEFINE old == bean[Object1]
<1>0. TypeOK /\ own \in [Mine -> Sending \cup NoRow] /\ accepted \subseteq Mine
      /\ bean \in [DOMAIN bean -> Records]
  BY DEF IInv, TypeOK, Records
<1>1. tasks # <<>>
  BY DEF Task, TaskStarts, TaskPosts, TaskUploads, TaskIdle, Post, ServerTakes, Answered,
         PostFails, UploadEnds, LoopEnds, Running
<1>2. /\ Object1 \in DOMAIN bean /\ Message1 \in Mine /\ old \in Records
      /\ Head(tasks) = tasks[1] /\ 1 \in DOMAIN tasks
      /\ bean = [bean EXCEPT ![Object1] = old]
  BY <1>0, <1>1, RunningObject
<1>3. /\ old.send \notin {"ing", "fail"} => Message1 \in accepted
      /\ Running("taken") \/ Running("uploading") => Message1 \in accepted
      /\ old.left \in Int /\ old.left >= 0
      /\ old.send = "ing" => old.left > 0 \/ Running("posting") \/ Running("taken")
  BY <1>2 DEF IInv, SentInv, PostInv, PostedOnce, Posts, Running, Object1, Message1, Records
<1>4. \A status \in Sending :
        /\ [old EXCEPT !.send = status] \in Records
        /\ [old EXCEPT !.send = status].send = status
        /\ [old EXCEPT !.send = status].left = old.left
        /\ Marked(Object1, status) = [bean EXCEPT ![Object1] = [old EXCEPT !.send = status]]
  BY <1>2 DEF Records, Marked
<1>5. \A status \in Sending : Written(Object1, status) =>
        /\ own' \in [Mine -> Sending \cup NoRow]
        /\ \A m \in Mine : own'[m] = own[m] \/ (m = Message1 /\ own'[m] = status)
  BY <1>0, <1>2 DEF Written, Message1
<1>6. ASSUME NEW status \in Sending, NEW at \in Stage, Save(status, at), Step, accepted' = accepted,
             Running("taken") \/ Running("uploading"), status # "ing"
      PROVE  IInv'
  <2> DEFINE r == [old EXCEPT !.send = status]
  <2>1. r \in Records /\ r.send = status /\ r.left = old.left
        /\ bean' = [bean EXCEPT ![Object1] = r] /\ Goes(at)
        /\ own' \in [Mine -> Sending \cup NoRow]
        /\ \A m \in Mine : own'[m] = own[m] \/ (m = Message1 /\ own'[m] = status)
    BY <1>4, <1>5, <1>6 DEF Save
  <2> HIDE DEF r
  <2> QED
    BY <1>0, <1>1, <1>3, <1>6, <2>1, TaskContinues DEF Step
<1>7. ASSUME NEW status \in Sending, SaveLast(status), Step, accepted' = accepted,
             status # "ing", status # "fail" => Running("taken")
      PROVE  IInv'
  <2> DEFINE r == [old EXCEPT !.send = status]
  <2>1. r \in Records /\ r.send = status /\ r.left = old.left /\ tasks' = Tail(tasks)
        /\ bean' = Trim([bean EXCEPT ![Object1] = r], Tail(tasks), owed)
        /\ own' \in [Mine -> Sending \cup NoRow]
        /\ \A m \in Mine : own'[m] = own[m] \/ (m = Message1 /\ own'[m] = status)
    BY <1>4, <1>5, <1>7 DEF SaveLast, TaskEnds
  <2> HIDE DEF r
  <2> QED
    BY <1>1, <1>3, <1>7, <2>1, TaskFinishes
<1>8. ASSUME TaskEnds(bean), Step,
             UNCHANGED <<own, accepted>>, ~Running("posting"), ~Running("taken")
      PROVE  IInv'
  <2> HIDE DEF old
  <2> QED
    BY <1>0, <1>1, <1>2, <1>3, <1>8, TaskFinishes DEF TaskEnds
<1>9. \A at : Running(at) => Head(tasks).at = at
  BY DEF Running
<1>10. CASE TaskStarts
  <2> DEFINE n == old.left - 1
             r == [old EXCEPT !.left = n]
  <2>1. Goes("posting") /\ bean' = [bean EXCEPT ![Object1] = r] /\ Step
        /\ UNCHANGED <<own, accepted>> /\ old.send = "ing" /\ Head(tasks).at = "queued"
    BY <1>2, <1>10 DEF TaskStarts, TaskPosts, Running, Records
  <2>2. n \in Int /\ n >= 0
    BY <1>3, <2>1 DEF Running
  <2> HIDE DEF n
  <2>3. r \in Records /\ r.send = "ing" /\ r.left = n
    BY <1>2, <2>1, <2>2 DEF Records
  <2> HIDE DEF r, old
  <2>4. "posting" \in Stage
    BY DEF Stage
  <2> QED
    BY <1>0, <1>1, <2>1, <2>2, <2>3, <2>4, TaskContinues DEF Step
<1>11. CASE TaskUploads
  <2>1. Goes("uploading") /\ Step /\ UNCHANGED <<own, bean, accepted>> /\ old.send = "file_send_ing"
    BY <1>11 DEF TaskUploads
  <2> HIDE DEF old
  <2>2. "uploading" \in Stage
    BY DEF Stage
  <2> QED
    BY <1>0, <1>1, <1>2, <1>3, <2>1, <2>2, TaskContinues DEF Step
<1>12. CASE TaskIdle
  BY <1>8, <1>9, <1>12 DEF TaskIdle
<1>13. CASE ServerTakes
  <2>1. Goes("taken") /\ Step /\ UNCHANGED <<own, bean>> /\ accepted' = accepted \cup {Message1}
    BY <1>13 DEF ServerTakes
  <2> HIDE DEF old
  <2>2. "taken" \in Stage
    BY DEF Stage
  <2> QED
    BY <1>0, <1>1, <1>2, <1>3, <2>1, <2>2, TaskContinues DEF Step
<1>14. CASE Answered
  BY <1>6, <1>7, <1>14 DEF Answered, AnswerSaved, Sending, Stage
<1>15. CASE PostFails
  BY <1>7, <1>15 DEF PostFails, Sending
<1>16. ASSUME NEW success \in BOOLEAN, UploadEnds(success)  PROVE IInv'
  <2>1. /\ Goes("ended") /\ owed = {} /\ Idle /\ UNCHANGED <<own, bean, accepted>>
        /\ Running("uploading") /\ Head(tasks).at = "uploading"
        /\ \E send \in {"file_send_success", "file_send_fail"} :
              owed' = {[bean |-> Object1, send |-> send]}
    BY <1>16 DEF UploadEnds, Running
  <2> HIDE DEF old
  <2>2. "ended" \in Stage /\ ~Running("posting") /\ ~Running("taken")
    BY <2>1 DEF Stage, Running
  <2> QED
    BY <1>0, <1>1, <1>2, <1>3, <2>1, <2>2, TaskContinues
<1>17. CASE LoopEnds
  BY <1>8, <1>9, <1>17 DEF LoopEnds
<1> QED
  BY <1>10, <1>11, <1>12, <1>13, <1>14, <1>15, <1>16, <1>17 DEF Task, Post

LEMMA Initially ==
    ASSUME Init
    PROVE  IInv
<1>1. /\ own \in [Mine -> NoRow] /\ inbox \in [Theirs -> {"none"}] /\ friend \in BOOLEAN
      /\ screen = "closed" /\ pool = {} /\ seen = {} /\ DOMAIN bean = {}
      /\ bean = [b \in {} |-> "none"]
      /\ tasks = <<>> /\ owed = {} /\ casts = <<>> /\ acks = {}
      /\ accepted \subseteq Mine /\ dropped \subseteq Theirs
      /\ theirs \in [Theirs -> {"unsaid", "acked"}]
  BY DEF Init, NoRow
<1>2. Kept = {}
  BY <1>1 DEF Kept, Tasked
<1>3. TypeOK
  BY <1>1, <1>2 DEF TypeOK
<1> QED
  BY <1>1, <1>3 DEF IInv, SentInv, SentIsSent, PostInv, PostedOnce

LEMMA Inductive ==
    ASSUME IInv, [Next]_vars, ChatAssumption
    PROVE  IInv'
<1>1. CASE UNCHANGED vars
  BY <1>1 DEF vars, IInv, TypeOK, Kept, Tasked, SentInv, SentIsSent, PostInv, PostedOnce, Posts,
              Running, Object1
<1>2. CASE ProcessDies
  <2>1. /\ screen' = "closed" /\ pool' = {} /\ seen' = {} /\ bean' = [b \in {} |-> "none"]
        /\ tasks' = <<>> /\ owed' = {} /\ casts' = <<>> /\ acks' = {}
        /\ UNCHANGED <<own, inbox, friend, accepted, theirs, dropped>>
    BY <1>2 DEF ProcessDies, rows, server
  <2>2. Kept' = {}
    BY <2>1 DEF Kept, Tasked
  <2>3. TypeOK'
    BY <2>1, <2>2 DEF IInv, TypeOK
  <2>4. SentInv' /\ PostInv'
    BY <2>1 DEF IInv, SentInv, SentIsSent, PostInv, PostedOnce
  <2> QED
    BY <2>3, <2>4 DEF IInv
<1> QED
  BY <1>1, <1>2, ScreenStep, ServiceStep, WritingStep, TaskStep, CallbackStep DEF Next, Upload

LEMMA Invariance == Spec => []IInv
<1>1. Init => IInv
  BY Initially
<1>2. IInv /\ [Next]_vars => IInv'
  BY Inductive, ChatAssumption
<1> QED
  BY <1>1, <1>2, PTL DEF Spec

\* Types of the chat, for any messages and any number of tasks and objects;
\* only the first of the tasks runs (reSendMsg, ChatActivity).
THEOREM ChatTypeOK == Spec => []TypeOK
<1>1. IInv => TypeOK
  BY DEF IInv
<1> QED
  BY <1>1, Invariance, PTL

\* A row that says that its message was sent tells the truth, whatever was
\* shown, resent, deleted or restarted meanwhile (reSendMsg.saveData).
THEOREM ChatSentIsSent == Spec => []SentIsSent
<1>1. IInv => SentIsSent
  BY DEF IInv, SentInv
<1> QED
  BY <1>1, Invariance, PTL

\* An object is posted once when it is written or loaded, and once for each
\* time the user asks for it, however many tasks are made (getView).
THEOREM ChatPostedOnce == Spec => []PostedOnce
<1>1. IInv => PostedOnce
  BY DEF IInv, PostInv
<1> QED
  BY <1>1, Invariance, PTL

-----------------------------------------------------------------------------
\* What is about to be acknowledged is kept as well.
HeardInv ==
    /\ FriendIsHeard
    /\ \A t \in acks : inbox[t] # "none" \/ t \in dropped

Announced(t) == \E i \in DOMAIN casts : casts[i] = t

LEMMA HeardNext ==
    ASSUME TypeOK, HeardInv, Next
    PROVE  HeardInv'
<1>0. /\ inbox \in [Theirs -> {"none", "N", "Y"}] /\ theirs \in [Theirs -> {"unsaid", "waiting", "acked"}]
      /\ acks \subseteq Theirs /\ casts \in Seq(Theirs \cup {Removal})
      /\ \A t \in Theirs : AllRead[t] = "none" <=> inbox[t] = "none"
  BY DEF TypeOK, AllRead
<1>1. \A t \in Theirs : AckedIsKept(t) /\ StoredIsShown(t)
  BY DEF HeardInv, FriendIsHeard
\* steps that neither take the rows of the friend nor what is shown of them
<1>2. ASSUME inbox' \in {inbox, AllRead}, UNCHANGED <<theirs, acks, dropped>>,
             \A t \in Theirs :
                inbox[t] # "none" /\ screen' = "shown" => t \in seen' \/ Announced(t)'
      PROVE  HeardInv'
  BY <1>0, <1>1, <1>2 DEF HeardInv, FriendIsHeard, AckedIsKept, StoredIsShown, Announced
<1>3. UNCHANGED casts => \A t : Announced(t)' = Announced(t)
  BY DEF Announced
<1>4. \A t \in Theirs : inbox[t] # "none" /\ screen = "shown" => t \in seen \/ Announced(t)
  BY <1>1 DEF StoredIsShown, Announced
<1>5. ASSUME NEW table, ShowChat(table)  PROVE HeardInv'
  BY <1>2, <1>5 DEF ShowChat, Stored, server
<1>6. CASE Screen
  BY <1>2, <1>5, <1>6 DEF Screen, OpenChat, onResume, onPause, onDestroy, Leave, rows, server
<1>7. ASSUME UNCHANGED <<inbox, screen, seen, casts, acks, theirs, dropped>>
      PROVE  HeardInv'
  BY <1>2, <1>3, <1>4, <1>7
<1>8. CASE (\E m \in Mine : sendMsg(m)) \/ \E b \in Object : getView(b) \/ Resend(b)
  BY <1>7, <1>8 DEF sendMsg, getView, Resend, rows, list, server
<1>9. CASE Task \/ Upload
  BY <1>7, <1>9 DEF Task, TaskStarts, TaskPosts, TaskUploads, TaskIdle, Post, ServerTakes,
                    Answered, AnswerSaved, PostFails, Upload, UploadEnds, UploadSaved, LoopEnds,
                    Step, Idle
<1>10. CASE ProcessDies
  BY <1>0, <1>1, <1>10 DEF ProcessDies, rows, server, HeardInv, FriendIsHeard, AckedIsKept,
                           StoredIsShown
<1>11. \A c \in Theirs \cup {Removal} : Cast(c) =>
          /\ \A t : Announced(t) => Announced(t)'
          /\ screen = "shown" => Announced(c)'
  <2>1. ASSUME NEW c \in Theirs \cup {Removal}, casts' = Append(casts, c)
        PROVE  /\ \A t : Announced(t) => Announced(t)'
               /\ Announced(c)'
    BY <1>0, <2>1, AppendedTask DEF Announced
  <2> QED
    BY <1>3, <2>1 DEF Cast
<1>12. ASSUME NEW t \in Theirs, processPacketMsg(t)  PROVE HeardInv'
  <2>1. /\ inbox' = (IF friend THEN [inbox EXCEPT ![t] = "N"] ELSE inbox)
        /\ dropped' = (IF friend THEN dropped ELSE dropped \cup {t})
        /\ acks' = acks \cup {t} /\ Cast(t)
        /\ UNCHANGED <<screen, seen, theirs>>
    BY <1>12 DEF processPacketMsg, Keep, Announce, list
  <2>2. \A u \in Theirs : screen = "shown" /\ inbox'[u] # "none" => u \in seen' \/ Announced(u)'
    BY <1>0, <1>4, <1>11, <2>1
  <2>3. \A u \in Theirs : inbox[u] # "none" \/ u \in dropped => inbox'[u] # "none" \/ u \in dropped'
    BY <1>0, <2>1
  <2>4. inbox'[t] # "none" \/ t \in dropped'
    BY <1>0, <2>1
  <2> QED
    BY <1>0, <1>1, <2>1, <2>2, <2>3, <2>4
       DEF HeardInv, FriendIsHeard, AckedIsKept, StoredIsShown, Announced
<1>13. ASSUME NEW t \in Theirs, NEW arrives \in BOOLEAN, Acknowledge(t, arrives)  PROVE HeardInv'
  <2>1. /\ t \in acks /\ acks' = acks \ {t}
        /\ theirs' \in {theirs, [theirs EXCEPT ![t] = "acked"]}
        /\ UNCHANGED <<inbox, screen, seen, casts, dropped>>
    BY <1>13 DEF Acknowledge, rows, list
  <2> QED
    BY <1>0, <1>1, <2>1 DEF HeardInv, FriendIsHeard, AckedIsKept, StoredIsShown
<1>14. ASSUME NEW t \in Theirs, Say(t)  PROVE HeardInv'
  <2>1. theirs' = [theirs EXCEPT ![t] = "waiting"] /\ UNCHANGED <<inbox, screen, seen, casts, acks, dropped>>
    BY <1>14 DEF Say, rows, list
  <2> QED
    BY <1>0, <1>1, <2>1 DEF HeardInv, FriendIsHeard, AckedIsKept, StoredIsShown
<1>15. CASE ReceiveMessage
  <2>1. seen' = seen \cup {Head(casts)} /\ casts # <<>> /\ casts' = Tail(casts)
        /\ UNCHANGED <<inbox, screen, theirs, acks, dropped>>
    BY <1>15 DEF ReceiveMessage, rows, server
  <2>2. \A i \in DOMAIN casts : casts[i] = Head(casts) \/ \E j \in DOMAIN casts' : casts'[j] = casts[i]
    <3>1. /\ Len(casts) \in Nat \ {0} /\ DOMAIN casts = 1 .. Len(casts) /\ Head(casts) = casts[1]
          /\ DOMAIN casts' = 1 .. Len(casts) - 1
          /\ \A i \in 1 .. Len(casts) - 1 : casts'[i] = casts[i + 1]
      BY <1>0, <2>1, HeadTailProperties, LenProperties, EmptySeq
    <3>2. ASSUME NEW i \in DOMAIN casts, i # 1
          PROVE  i - 1 \in DOMAIN casts' /\ casts'[i - 1] = casts[i]
      BY <3>1, <3>2
    <3> QED
      BY <3>1, <3>2
  <2> QED
    BY <1>2, <1>4, <2>1, <2>2 DEF Announced
<1>16. CASE ReceiveRemoval
  BY <1>2, <1>16 DEF ReceiveRemoval, Leave, server
<1>17. CASE refalshContent
  BY <1>2, <1>3, <1>4, <1>17 DEF refalshContent, rows, server
<1>18. CASE RemoveFriend \/ DeleteChat
  <2>1. /\ \A t \in Theirs : inbox'[t] = "none"
        /\ dropped' = dropped \cup {t \in Theirs : inbox[t] # "none"}
        /\ UNCHANGED <<acks, theirs>>
    BY <1>18 DEF RemoveFriend, DeleteChat, DeleteRows
  <2> QED
    BY <1>0, <1>1, <2>1 DEF HeardInv, FriendIsHeard, AckedIsKept, StoredIsShown
<1> QED
  BY <1>6, <1>8, <1>9, <1>10, <1>12, <1>13, <1>14, <1>15, <1>16, <1>17, <1>18 DEF Next, Service

\* What the server was told is here is here, unless it was deleted or came
\* from somebody who is no friend, and what is stored is on the screen or
\* about to be shown, for any messages (processPacketMsg, ContacterReceiver).
THEOREM ChatFriendIsHeard == Spec => []FriendIsHeard
<1>1. Init => HeardInv
  BY DEF Init, HeardInv, FriendIsHeard, AckedIsKept, StoredIsShown
<1>2. TypeOK /\ HeardInv /\ [Next]_vars => HeardInv'
  <2>1. UNCHANGED vars /\ HeardInv => HeardInv'
    BY DEF vars, HeardInv, FriendIsHeard, AckedIsKept, StoredIsShown
  <2> QED
    BY <2>1, HeardNext
<1>3. HeardInv => FriendIsHeard
  BY DEF HeardInv
<1> QED
  BY <1>1, <1>2, <1>3, ChatTypeOK, PTL DEF Spec

=============================================================================
