--------------------------- MODULE ContactsProof ---------------------------
(***************************************************************************)
(* Proofs about Contacts, for any set of peers and requests and any bounds *)
(* on the server's and the worker's queues.                                *)
(***************************************************************************)
EXTENDS Contacts, TLAPS

\* What the main thread writes for a packet.
MainOps == {"shift", "unfriend", "mate", "asksMe", "accept", "ack"}
MainWritesThese == todo \in Seq([op : MainOps, who : Peers])

\* The answer comes last.
AnswerIsLast == \A i \in DOMAIN todo : todo[i].op = "ack" => i = Len(todo)

\* A post that makes somebody a contact follows the filing of his request, and
\* once that is done the row stays until the post itself has run.
FriendFiled ==
    \A i \in DOMAIN dml : dml[i].op = "friend" =>
        IF i = 1 THEN temp[dml[1].who] # "none"
                 ELSE dml[i - 1] = Op("already", dml[i].who)

IInv == TypeOK /\ MainWritesThese /\ AnswerIsLast /\ FriendFiled

Flags == {"none", "Y", "N"}
Rows == {"none", "in", "inDone", "out", "outDone"}

\* A sequence that is not empty has a first element and a rest.
LEMMA HeadTail ==
    ASSUME NEW S, NEW s \in Seq(S), s # <<>>
    PROVE  /\ Head(s) \in S /\ Head(s) = s[1] /\ 1 \in DOMAIN s
           /\ Tail(s) \in Seq(S) /\ Len(Tail(s)) = Len(s) - 1
           /\ \A i \in DOMAIN Tail(s) :
                 i + 1 \in DOMAIN s /\ Tail(s)[i] = s[i + 1]
  OBVIOUS

\* A sequence over a set is one over a larger set.
LEMMA SeqGrows ==
    ASSUME NEW S, NEW T, S \subseteq T, NEW s \in Seq(S)
    PROVE  s \in Seq(T)
  OBVIOUS

\* What a sequence over a set holds.
LEMMA SeqHolds ==
    ASSUME NEW S, NEW s \in Seq(S)
    PROVE  \A i \in DOMAIN s : s[i] \in S
  OBVIOUS

\* The main thread's ops are ops.
LEMMA MainOpsAreOps ==
    [op : MainOps, who : Peers] \subseteq [op : Ops, who : Peers]
  BY DEF MainOps, Ops

\* An op leaves a flag and a row for everybody, and only the removal of a
\* request takes a row away.
LEMMA AfterOp ==
    ASSUME TypeOK, NEW o \in [op : Ops, who : Peers]
    PROVE  /\ ContactAfter(o) \in [Peers -> Flags]
           /\ TempAfter(o) \in [Peers -> Rows]
           /\ \A p \in Peers : o.op # "untemp" /\ temp[p] # "none" =>
                 TempAfter(o)[p] # "none"
           /\ \A p \in Peers : o = Op("already", p) => TempAfter(o)[p] # "none"
  <1>1. o.op \in Ops /\ o.who \in Peers
    OBVIOUS
  <1>2. ContactAfter(o) \in [Peers -> Flags]
    BY <1>1 DEF TypeOK, ContactAfter, Flags
  <1>3. \A r \in Rows :
           Accepted(r) \in Rows /\ (r # "none" => Accepted(r) # "none")
    BY DEF Accepted, Rows
  <1>4. TempAfter(o) \in [Peers -> Rows]
    BY <1>1, <1>3 DEF TypeOK, TempAfter, Rows
  <1>5. ASSUME NEW p \in Peers, o.op # "untemp", temp[p] # "none"
        PROVE  TempAfter(o)[p] # "none"
    BY <1>1, <1>3, <1>5 DEF TypeOK, TempAfter, Rows
  <1>6. ASSUME NEW p \in Peers, o = Op("already", p)
        PROVE  TempAfter(o)[p] # "none"
    BY <1>1, <1>6 DEF TypeOK, TempAfter, Op
  <1>. QED  BY <1>2, <1>4, <1>5, <1>6

\* Everything is empty at the start.
LEMMA InitIInv == Init => IInv
  BY ContactsAssumption
  DEF Init, IInv, TypeOK, MainWritesThese, AnswerIsLast, FriendFiled, NoCall
-----------------------------------------------------------------------------
\* The handling of a packet keeps the invariant: what is planned ends with the
\* packet's own answer.
LEMMA HandleIInv == ASSUME IInv, handleMessage PROVE IInv'
  <1>. DEFINE k == Head(push).kind  p == Head(push).from
  <1>1. k \in Kinds /\ p \in Peers
    <2>1. push \in Seq([kind : Kinds, from : Peers]) /\ push # <<>>
      BY DEF IInv, TypeOK, handleMessage
    <2>2. Head(push) \in [kind : Kinds, from : Peers]
      BY <2>1, HeadTail
    <2>. QED  BY <2>2
  <1>2. /\ Plan(k, p) \in Seq([op : MainOps, who : Peers])
        /\ \A i \in DOMAIN Plan(k, p) : Plan(k, p)[i].op # "ack"
    <2>. HIDE DEF k, p
    <2>1. CASE k = "add"
      BY <1>1, <2>1 DEF Plan, Op, MainOps
    <2>2. CASE k = "agree" /\ temp[p] # "none"
      BY <1>1, <2>2 DEF Plan, Op, MainOps
    <2>3. CASE k = "remove" /\ contact[p] # "none"
      BY <1>1, <2>3 DEF Plan, Op, MainOps
    <2>4. CASE k = "group"
      BY <1>1, <2>4 DEF Plan, Op, MainOps
    <2>5. CASE /\ k # "add"
               /\ ~(k = "agree" /\ temp[p] # "none")
               /\ ~(k = "remove" /\ contact[p] # "none")
               /\ k # "group"
      <3>1. Plan(k, p) = <<>>
        BY <2>5, Zenon DEF Plan
      <3>. QED  BY <3>1
    <2>. QED  BY <2>1, <2>2, <2>3, <2>4, <2>5
  <1>3. /\ todo' = Append(Plan(k, p), Op("ack", p))
        /\ Op("ack", p) \in [op : MainOps, who : Peers]
    BY <1>1 DEF handleMessage, Op, MainOps
  <1>4. /\ todo' \in Seq([op : MainOps, who : Peers])
        /\ todo'[Len(todo')] = Op("ack", p)
        /\ AnswerIsLast'
    <2>. HIDE DEF k, p
    <2>. QED  BY <1>2, <1>3 DEF AnswerIsLast
  <1>5. todo' \in Seq([op : Ops, who : Peers])
    BY <1>4, SeqGrows, MainOpsAreOps
  <1>. QED
    BY <1>4, <1>5
    DEF IInv, TypeOK, MainWritesThese, FriendFiled, handleMessage,
        local, fetch, server

\* Writing the next op of the packet keeps it: no row is taken away.
LEMMA MainWritesIInv == ASSUME IInv, MainWrites PROVE IInv'
  <1>. DEFINE o == Head(todo)
  <1>1. o \in [op : MainOps, who : Peers] /\ o \in [op : Ops, who : Peers]
    <2>1. todo \in Seq([op : MainOps, who : Peers]) /\ todo # <<>>
      BY DEF IInv, MainWritesThese, MainWrites
    <2>. QED  BY <2>1, HeadTail, MainOpsAreOps
  <1>2. o.op # "untemp"
    BY <1>1 DEF MainOps
  <1>3. /\ contact' \in [Peers -> Flags] /\ temp' \in [Peers -> Rows]
        /\ \A p \in Peers : temp[p] # "none" => temp'[p] # "none"
    BY <1>1, <1>2, AfterOp DEF IInv, MainWrites, Write
  <1>4. /\ todo' \in Seq([op : MainOps, who : Peers])
        /\ todo' \in Seq([op : Ops, who : Peers])
        /\ todo' # <<>> => todo'[Len(todo')] = todo[Len(todo)]
        /\ AnswerIsLast'
    <2>1. todo \in Seq([op : MainOps, who : Peers]) /\ todo # <<>>
      BY DEF IInv, MainWritesThese, MainWrites
    <2>2. /\ todo' \in Seq([op : MainOps, who : Peers])
          /\ Len(todo') = Len(todo) - 1
          /\ \A i \in DOMAIN todo' :
                i + 1 \in DOMAIN todo /\ todo'[i] = todo[i + 1]
      BY <2>1, HeadTail DEF MainWrites
    <2>3. todo' \in Seq([op : Ops, who : Peers])
      BY <2>2, SeqGrows, MainOpsAreOps
    <2>4. AnswerIsLast'
      BY <2>1, <2>2 DEF IInv, AnswerIsLast
    <2>5. todo' # <<>> => todo'[Len(todo')] = todo[Len(todo)]
      BY <2>1, <2>2
    <2>. QED  BY <2>2, <2>3, <2>4, <2>5
  <1>5. TypeOK'
    BY <1>3, <1>4
    DEF IInv, TypeOK, MainWrites, fetch, server, Flags, Rows
  <1>6. FriendFiled'
    <2>1. \A i \in DOMAIN dml : dml[i].who \in Peers
      <3>1. dml \in Seq([op : Ops \ {"ack"}, who : Peers])
        BY DEF IInv, TypeOK
      <3>2. \A i \in DOMAIN dml : dml[i] \in [op : Ops \ {"ack"}, who : Peers]
        BY <3>1, SeqHolds
      <3>. QED  BY <3>2
    <2>. QED  BY <1>3, <2>1 DEF IInv, FriendFiled, MainWrites
  <1>. QED  BY <1>4, <1>5, <1>6 DEF IInv, MainWritesThese

\* The answer is the last op, so nothing is left to write.
LEMMA AcknowledgeIInv ==
    ASSUME IInv, NEW arrives \in BOOLEAN, Acknowledge(arrives)
    PROVE  IInv'
  <1>1. todo # <<>> /\ Head(todo) = todo[1] /\ 1 \in DOMAIN todo
    BY DEF IInv, TypeOK, Acknowledge
  <1>2. Len(todo) = 1
    BY <1>1 DEF IInv, AnswerIsLast, Acknowledge
  <1>3. todo' = <<>>
    BY <1>1, <1>2 DEF Acknowledge, IInv, TypeOK
  <1>4. push' \in Seq([kind : Kinds, from : Peers]) /\ Len(push') <= MaxPush
    BY <1>1, ContactsAssumption DEF IInv, TypeOK, Acknowledge
  <1>. QED
    BY <1>3, <1>4
    DEF IInv, TypeOK, MainWritesThese, AnswerIsLast, FriendFiled, Acknowledge,
        local, fetch
-----------------------------------------------------------------------------
\* The worker's next op keeps it: what files a request leaves a row for the op
\* behind it.
LEMMA WorkerIInv == ASSUME IInv, WorkerWrites PROVE IInv'
  <1>. DEFINE o == Head(dml)
  <1>1. dml \in Seq([op : Ops \ {"ack"}, who : Peers]) /\ dml # <<>>
    BY DEF IInv, TypeOK, WorkerWrites
  <1>2. /\ o \in [op : Ops \ {"ack"}, who : Peers]
        /\ o = dml[1] /\ 1 \in DOMAIN dml
        /\ dml' \in Seq([op : Ops \ {"ack"}, who : Peers])
        /\ \A i \in DOMAIN dml' : i + 1 \in DOMAIN dml /\ dml'[i] = dml[i + 1]
    BY <1>1, HeadTail DEF WorkerWrites
  <1>3. o \in [op : Ops, who : Peers]
    BY <1>2
  <1>4. /\ contact' \in [Peers -> Flags] /\ temp' \in [Peers -> Rows]
        /\ \A p \in Peers : o = Op("already", p) => temp'[p] # "none"
    BY <1>3, AfterOp DEF IInv, WorkerWrites, Write
  <1>5. TypeOK'
    BY <1>2, <1>4 DEF IInv, TypeOK, WorkerWrites, fetch, server, Flags, Rows
  <1>6. FriendFiled'
    <2>1. \A i \in DOMAIN dml : dml[i] \in [op : Ops \ {"ack"}, who : Peers]
      BY <1>1, SeqHolds
    <2>2. SUFFICES ASSUME NEW i \in DOMAIN dml', dml'[i].op = "friend"
                   PROVE  IF i = 1 THEN temp'[dml'[1].who] # "none"
                                   ELSE dml'[i - 1] = Op("already", dml'[i].who)
      BY DEF FriendFiled
    <2>3. i \in Nat \ {0} /\ i + 1 \in DOMAIN dml /\ dml'[i] = dml[i + 1]
      BY <1>2
    <2>4. dml[i] = Op("already", dml[i + 1].who) /\ dml[i + 1].who \in Peers
      BY <2>1, <2>2, <2>3 DEF IInv, FriendFiled
    <2>5. CASE i = 1
      BY <1>2, <1>4, <2>3, <2>4, <2>5
    <2>6. CASE i # 1
      <3>1. i - 1 \in DOMAIN dml'
        BY <1>2, <2>3, <2>6
      <3>. QED  BY <1>2, <2>3, <2>4, <2>6, <3>1
    <2>. QED  BY <2>5, <2>6
  <1>. QED
    BY <1>5, <1>6 DEF IInv, MainWritesThese, AnswerIsLast, WorkerWrites

\* A post of the user's request keeps it, when it files before it makes a
\* contact and takes no row away at once.
LEMMA PostIInv ==
    ASSUME IInv, NEW ops \in Seq([op : Ops \ {"ack"}, who : Peers]), Post(ops),
           \A i \in DOMAIN ops : ops[i].op = "friend" =>
              i > 1 /\ ops[i - 1] = Op("already", ops[i].who),
           UNCHANGED contact, temp' \in [Peers -> Rows],
           \A p \in Peers : temp[p] # "none" => temp'[p] # "none"
    PROVE  IInv'
  <1>1. dml \in Seq([op : Ops \ {"ack"}, who : Peers])
    BY DEF IInv, TypeOK
  <1>2. /\ dml' = dml \o ops
        /\ dml' \in Seq([op : Ops \ {"ack"}, who : Peers])
    BY <1>1 DEF Post
  <1>3. /\ Len(dml) \in Nat /\ DOMAIN dml = 1 .. Len(dml)
        /\ Len(ops) \in Nat /\ DOMAIN ops = 1 .. Len(ops)
        /\ DOMAIN dml' = 1 .. Len(dml) + Len(ops)
        /\ \A i \in 1 .. Len(dml) : dml'[i] = dml[i]
        /\ \A i \in 1 .. Len(ops) : dml'[Len(dml) + i] = ops[i]
    BY <1>1, <1>2
  <1>4. \A i \in DOMAIN dml : dml[i].who \in Peers
    <2>1. \A i \in DOMAIN dml : dml[i] \in [op : Ops \ {"ack"}, who : Peers]
      BY <1>1, SeqHolds
    <2>. QED  BY <2>1
  <1>5. TypeOK'
    BY <1>2 DEF IInv, TypeOK, Post, fetch, server, Rows
  <1>6. FriendFiled'
    <2>1. SUFFICES ASSUME NEW i \in DOMAIN dml', dml'[i].op = "friend"
                   PROVE  IF i = 1 THEN temp'[dml'[1].who] # "none"
                                   ELSE dml'[i - 1] = Op("already", dml'[i].who)
      BY DEF FriendFiled
    <2>2. CASE i <= Len(dml)
      <3>1. i \in DOMAIN dml /\ dml'[i] = dml[i]
        BY <1>3, <2>2
      <3>2. i # 1 => dml'[i - 1] = dml[i - 1]
        BY <1>3, <2>2
      <3>. QED  BY <1>4, <2>1, <3>1, <3>2 DEF IInv, FriendFiled
    <2>3. CASE i > Len(dml)
      <3>. DEFINE j == i - Len(dml)
      <3>1. j \in DOMAIN ops /\ dml'[i] = ops[j] /\ i = Len(dml) + j
        BY <1>3, <2>3
      <3>2. j > 1 /\ ops[j - 1] = Op("already", ops[j].who)
        BY <2>1, <3>1
      <3>3. dml'[i - 1] = ops[j - 1] /\ i # 1
        BY <1>3, <3>1, <3>2
      <3>. QED  BY <3>1, <3>2, <3>3
    <2>. QED  BY <1>3, <2>2, <2>3
  <1>. QED
    BY <1>5, <1>6 DEF IInv, MainWritesThese, AnswerIsLast, Post
-----------------------------------------------------------------------------
\* No step of the user or of his requests breaks the invariant.
LEMMA UserIInv == ASSUME IInv, NEW p \in Peers, User(p) PROVE IInv'
  <1>. DEFINE Posts == Seq([op : Ops \ {"ack"}, who : Peers])
  <1>1. /\ contact \in [Peers -> Flags] /\ temp \in [Peers -> Rows]
        /\ dml \in Posts
    BY DEF IInv, TypeOK, Flags, Rows
  <1>2. /\ TempAfter(Op("accept", p)) \in [Peers -> Rows]
        /\ \A q \in Peers : temp[q] # "none" =>
              TempAfter(Op("accept", p))[q] # "none"
    <2>1. /\ Op("accept", p) \in [op : Ops, who : Peers]
          /\ Op("accept", p).op # "untemp"
      BY DEF Op, Ops
    <2>. QED  BY <2>1, AfterOp DEF IInv
  <1>3. ASSUME NEW what \in Requests, Request(what, p)
        PROVE  IInv'
    BY <1>3
    DEF IInv, TypeOK, MainWritesThese, AnswerIsLast, FriendFiled, Request,
        local, fetch, server
  <1>4. CASE Answered(p)
    <2>. DEFINE ops == <<Op("accept", p), Op("shift", p)>>
    <2>1. ops \in Posts /\ \A i \in DOMAIN ops : ops[i].op # "friend"
      BY DEF Op, Ops
    <2>2. Post(ops) /\ UNCHANGED <<contact, temp>>
      BY <1>4 DEF Answered, local
    <2>. HIDE DEF ops
    <2>. QED  BY <1>1, <2>1, <2>2, PostIInv
  <1>5. CASE AnsweredBefore(p) \/ AnsweredBySearch(p)
    <2>. DEFINE ops == <<Op("shift", p)>>
    <2>1. ops \in Posts /\ \A i \in DOMAIN ops : ops[i].op # "friend"
      BY DEF Op, Ops
    <2>2. Post(ops) /\ UNCHANGED contact /\ temp' = TempAfter(Op("accept", p))
      BY <1>5 DEF AnsweredBefore, AnsweredBySearch
    <2>. HIDE DEF ops
    <2>. QED  BY <1>2, <2>1, <2>2, PostIInv
  <1>6. CASE Asked(p)
    <2>. DEFINE ops == <<Op("askedThem", p)>>
    <2>1. ops \in Posts /\ \A i \in DOMAIN ops : ops[i].op # "friend"
      BY DEF Op, Ops
    <2>2. Post(ops) /\ UNCHANGED <<contact, temp>>
      BY <1>6 DEF Asked, local
    <2>. HIDE DEF ops
    <2>. QED  BY <1>1, <2>1, <2>2, PostIInv
  <1>7. CASE AskedFriend(p)
    <2>. DEFINE ops == <<Op("already", p), Op("friend", p)>>
    <2>1. /\ ops \in Posts
          /\ \A i \in DOMAIN ops : ops[i].op = "friend" =>
                i > 1 /\ ops[i - 1] = Op("already", ops[i].who)
      BY DEF Op, Ops
    <2>2. Post(ops) /\ UNCHANGED <<contact, temp>>
      BY <1>7 DEF AskedFriend, local
    <2>. HIDE DEF ops
    <2>. QED  BY <1>1, <2>1, <2>2, PostIInv
  <1>8. CASE Removed(p)
    <2>. DEFINE ops == <<Op("unfriend", p), Op("untemp", p)>>
    <2>1. ops \in Posts /\ \A i \in DOMAIN ops : ops[i].op # "friend"
      BY DEF Op, Ops
    <2>2. Post(ops) /\ UNCHANGED <<contact, temp>>
      BY <1>8 DEF Removed, local
    <2>. HIDE DEF ops
    <2>. QED  BY <1>1, <2>1, <2>2, PostIInv
  <1>9. CASE RemovedBefore(p)
    <2>. DEFINE ops == <<Op("unfriend", p)>>
    <2>1. ops \in Posts /\ \A i \in DOMAIN ops : ops[i].op # "friend"
      BY DEF Op, Ops
    <2>2. Post(ops) /\ UNCHANGED <<contact, temp>>
      BY <1>9 DEF RemovedBefore, local
    <2>. HIDE DEF ops
    <2>. QED  BY <1>1, <2>1, <2>2, PostIInv
  <1>10. CASE Checked(p)
    BY <1>1, <1>10
    DEF IInv, TypeOK, MainWritesThese, AnswerIsLast, FriendFiled, Checked,
        fetch, server
  <1>11. CASE DeleteRequest(p)
    <2>1. /\ dml' \in Posts /\ Len(dml) \in Nat
          /\ DOMAIN dml = 1 .. Len(dml) /\ DOMAIN dml' = 1 .. Len(dml) + 1
          /\ \A i \in 1 .. Len(dml) : dml'[i] = dml[i]
          /\ dml'[Len(dml) + 1].op # "friend"
      BY <1>1, <1>11 DEF DeleteRequest, Op, Ops
    <2>2. FriendFiled'
      BY <1>1, <1>11, <2>1 DEF IInv, FriendFiled, DeleteRequest, local
    <2>. QED
      BY <1>11, <2>1, <2>2
      DEF IInv, TypeOK, MainWritesThese, AnswerIsLast, DeleteRequest,
          local, fetch, server
  <1>. QED
    BY <1>3, <1>4, <1>5, <1>6, <1>7, <1>8, <1>9, <1>10, <1>11 DEF User

\* Nor does a step of the server or of another user.
LEMMA ServerIInv ==
    ASSUME IInv, NEW p \in Peers, Serve(p) \/ Peer(p)
    PROVE  IInv'
  <1>1. ASSUME NEW k \in Kinds, Send(k, p)
        PROVE  /\ push' \in Seq([kind : Kinds, from : Peers])
               /\ Len(push') <= MaxPush
               /\ todo # <<>> => push' # <<>> /\ Head(push') = Head(push)
    <2>1. /\ push \in Seq([kind : Kinds, from : Peers])
          /\ [kind |-> k, from |-> p] \in [kind : Kinds, from : Peers]
          /\ todo # <<>> => push # <<>>
      BY DEF IInv, TypeOK
    <2>. QED  BY <1>1, <2>1, ContactsAssumption DEF Send
  <1>2. ASSUME NEW k \in Kinds, Send(k, p),
               friends' \subseteq Peers, asked' \subseteq {"in", "out"} \X Peers
        PROVE  IInv'
    BY <1>1, <1>2
    DEF IInv, TypeOK, MainWritesThese, AnswerIsLast, FriendFiled, Send,
        local, fetch
  <1>3. /\ friends \subseteq Peers /\ asked \subseteq {"in", "out"} \X Peers
        /\ {"add", "agree", "refuse", "remove", "group"} \subseteq Kinds
    BY DEF IInv, TypeOK, Kinds
  <1>4. CASE PeerAsks(p)
    BY <1>2, <1>3, <1>4 DEF PeerAsks
  <1>5. CASE PeerAnswers(p)
    BY <1>2, <1>3, <1>5 DEF PeerAnswers
  <1>6. CASE PeerRemoves(p)
    BY <1>2, <1>3, <1>6 DEF PeerRemoves
  <1>7. CASE Grouped(p)
    BY <1>2, <1>3, <1>7 DEF Grouped
  <1>8. CASE Serve(p)
    <2>1. PICK what, done : Served(what, p, done)
      BY <1>8 DEF Serve, ServeAnswer, ServeAsk, ServeRemove, ServeCheck
    <2>2. friends' \subseteq Peers /\ asked' \subseteq {"in", "out"} \X Peers
      <3>1. CASE ServeAnswer(p)
        BY <1>3, <3>1 DEF ServeAnswer
      <3>2. CASE ServeAsk(p)
        BY <1>3, <3>2 DEF ServeAsk
      <3>3. CASE ServeRemove(p)
        BY <1>3, <3>3 DEF ServeRemove
      <3>4. CASE ServeCheck(p)
        BY <1>3, <3>4 DEF ServeCheck
      <3>. QED  BY <1>8, <3>1, <3>2, <3>3, <3>4 DEF Serve
    <2>3. call' \in {NoCall} \cup
             [what : Requests, who : Peers, at : {"sent", "yes", "no"}]
      BY <2>1 DEF IInv, TypeOK, Served, Done, NoCall
    <2>. QED
      BY <2>1, <2>2, <2>3
      DEF IInv, TypeOK, MainWritesThese, AnswerIsLast, FriendFiled, Served,
          local, fetch
  <1>. QED  BY <1>4, <1>5, <1>6, <1>7, <1>8 DEF Peer

\* Nor the login's thread, nor what fails.
LEMMA RefreshIInv ==
    ASSUME IInv, Refresh \/ CallFails \/ ProcessDies
    PROVE  IInv'
  <1>. USE ContactsAssumption
           DEF IInv, TypeOK, MainWritesThese, AnswerIsLast, FriendFiled,
               local, fetch, server
  <1>1. CASE FetchFriends
    BY <1>1 DEF FetchFriends
  <1>2. CASE FetchMates
    BY <1>2 DEF FetchMates
  <1>3. CASE FetchFails
    BY <1>3 DEF FetchFails
  <1>4. CASE StoreFriends
    BY <1>4 DEF StoreFriends, replaceFriendInfos
  <1>5. CASE StoreMates
    BY <1>5 DEF StoreMates, replaceFriendInfos
  <1>6. CASE CallFails
    BY <1>6 DEF CallFails
  <1>7. CASE ProcessDies
    BY <1>7 DEF ProcessDies
  <1>. QED  BY <1>1, <1>2, <1>3, <1>4, <1>5, <1>6, <1>7 DEF Refresh

\* So every step keeps the invariant.
LEMMA StepIInv == IInv /\ [Next]_vars => IInv'
  <1>. SUFFICES ASSUME IInv, [Next]_vars PROVE IInv'
    OBVIOUS
  <1>1. CASE Threads \/ Acknowledge(FALSE)
    BY <1>1, HandleIInv, MainWritesIInv, AcknowledgeIInv, WorkerIInv DEF Threads
  <1>2. CASE Refresh \/ CallFails \/ ProcessDies
    BY <1>2, RefreshIInv
  <1>3. ASSUME NEW p \in Peers, User(p) \/ Serve(p) \/ Peer(p)
        PROVE  IInv'
    BY <1>3, UserIInv, ServerIInv
  <1>4. CASE UNCHANGED vars
    BY <1>4
    DEF vars, IInv, TypeOK, MainWritesThese, AnswerIsLast, FriendFiled
  <1>. QED  BY <1>1, <1>2, <1>3, <1>4 DEF Next
-----------------------------------------------------------------------------
\* The inductive invariant holds in every state of every behaviour of the
\* contacts' threads.
THEOREM ContactsInvariant == Spec => []IInv
  BY InitIInv, StepIInv, PTL DEF Spec

\* The types, and that a packet under way is the server's oldest, answered
\* last (IMChatService.processPacketIQ).
THEOREM ContactsTypes == Spec => []TypeOK
  BY ContactsInvariant, PTL DEF IInv

\* Only an op that copies the requests or makes a contact puts somebody in.
LEMMA OpGrounds ==
    ASSUME TypeOK, NEW o \in [op : Ops, who : Peers], NEW p \in Peers,
           contact[p] # "Y", ContactAfter(o)[p] = "Y"
    PROVE  \/ o.op = "shift" /\ temp[p] # "none"
           \/ o.op = "friend" /\ o.who = p
  <1>1. contact \in [Peers -> Flags] /\ o.who \in Peers
    BY DEF TypeOK, Flags
  <1>2. CASE o.op = "shift"
    BY <1>2 DEF ContactAfter
  <1>3. CASE o.op = "friend"
    BY <1>1, <1>3 DEF ContactAfter
  <1>4. CASE o.op = "unfriend" /\ contact[o.who] # "none"
    BY <1>1, <1>4 DEF ContactAfter
  <1>5. CASE o.op = "mate"
    BY <1>1, <1>5 DEF ContactAfter
  <1>6. CASE /\ o.op # "shift" /\ o.op # "friend" /\ o.op # "mate"
             /\ ~(o.op = "unfriend" /\ contact[o.who] # "none")
    <2>1. ContactAfter(o) = contact
      BY <1>6, Zenon DEF ContactAfter
    <2>. QED  BY <2>1
  <1>. QED  BY <1>2, <1>3, <1>4, <1>5, <1>6

\* Nobody gets into the contacts without grounds, whatever the order in which
\* the main thread, the worker and a login write, and whenever the process
\* dies (QiXinBaseDao.shiftTempContactInfoById, replaceFriendInfos).
THEOREM NoStrangers == Spec => StrangersStayOut
  <1>. DEFINE Grounds ==
         \A p \in Peers : contact[p] # "Y" /\ contact'[p] = "Y" =>
            \/ temp[p] # "none"
            \/ refresh = "friends" /\ p \in fetched
            \/ Done("check", "yes", p)
  <1>1. IInv /\ [Next]_vars => [Grounds]_vars
    <2>1. SUFFICES ASSUME IInv, Next, NEW p \in Peers,
                          contact[p] # "Y", contact'[p] = "Y"
                   PROVE  \/ temp[p] # "none"
                          \/ refresh = "friends" /\ p \in fetched
                          \/ Done("check", "yes", p)
      BY DEF Grounds
    <2>2. CASE MainWrites
      <3>1. Head(todo) \in [op : MainOps, who : Peers]
        <4>1. todo \in Seq([op : MainOps, who : Peers]) /\ todo # <<>>
          BY <2>1, <2>2 DEF IInv, MainWritesThese, MainWrites
        <4>. QED  BY <4>1, HeadTail
      <3>2. /\ Head(todo) \in [op : Ops, who : Peers]
            /\ Head(todo).op # "friend"
        BY <3>1, MainOpsAreOps DEF MainOps
      <3>. QED  BY <2>1, <2>2, <3>2, OpGrounds DEF IInv, MainWrites, Write
    <2>3. CASE WorkerWrites
      <3>1. /\ dml \in Seq([op : Ops \ {"ack"}, who : Peers]) /\ dml # <<>>
        BY <2>1, <2>3 DEF IInv, TypeOK, WorkerWrites
      <3>2. /\ Head(dml) \in [op : Ops \ {"ack"}, who : Peers]
            /\ Head(dml) = dml[1] /\ 1 \in DOMAIN dml
        BY <3>1, HeadTail
      <3>3. Head(dml) \in [op : Ops, who : Peers]
        BY <3>2
      <3>4. Head(dml).op = "friend" => temp[Head(dml).who] # "none"
        BY <2>1, <3>2 DEF IInv, FriendFiled
      <3>5. ContactAfter(Head(dml))[p] = "Y"
        BY <2>1, <2>3 DEF WorkerWrites, Write
      <3>. QED  BY <2>1, <3>3, <3>4, <3>5, OpGrounds DEF IInv
    <2>4. CASE StoreFriends
      BY <2>1, <2>4 DEF StoreFriends, replaceFriendInfos
    <2>5. CASE StoreMates
      BY <2>1, <2>5 DEF StoreMates, replaceFriendInfos
    <2>6. ASSUME NEW q \in Peers, Checked(q)
          PROVE  Done("check", "yes", p)
      BY <2>1, <2>6 DEF Checked, IInv, TypeOK
    <2>7. contact' # contact
      BY <2>1
    <2>8. CASE handleMessage \/ \E b \in BOOLEAN : Acknowledge(b)
      BY <2>7, <2>8 DEF handleMessage, Acknowledge, local
    <2>9. CASE FetchFriends \/ FetchMates \/ FetchFails
      BY <2>7, <2>9 DEF FetchFriends, FetchMates, FetchFails, local
    <2>10. CASE CallFails \/ ProcessDies
      BY <2>7, <2>10 DEF CallFails, ProcessDies, local
    <2>11. ASSUME NEW q \in Peers, Serve(q) \/ Peer(q)
           PROVE  FALSE
      BY <2>7, <2>11
      DEF Serve, ServeAnswer, ServeAsk, ServeRemove, ServeCheck, Served,
          Peer, PeerAsks, PeerAnswers, PeerRemoves, Grouped, Send, local
    <2>12. ASSUME NEW q \in Peers, User(q), ~Checked(q)
           PROVE  FALSE
      BY <2>7, <2>12
      DEF User, Request, Answered, AnsweredBefore, AnsweredBySearch, Asked,
          AskedFriend, Removed, RemovedBefore, DeleteRequest, local
    <2>. QED
      BY <2>1, <2>2, <2>3, <2>4, <2>5, <2>6, <2>8, <2>9, <2>10, <2>11, <2>12
      DEF Next, Threads, Refresh
  <1>. QED
    BY <1>1, ContactsInvariant, PTL DEF Spec, StrangersStayOut
=============================================================================
