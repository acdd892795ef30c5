---------------------------- MODULE BridgeProof ----------------------------
(***************************************************************************)
(* Proofs about Bridge, for any bound on the calls and on the events.      *)
(* InOrder and OwnAnswer follow from one inductive invariant: where the    *)
(* results wait, what the fields of HjBusiness hold, and, as long as no    *)
(* two actions overlapped, whose context the single field is.              *)
(***************************************************************************)
EXTENDS Bridge, SequenceTheorems, TLAPS

Address == Nat \cup {Channel}
Message == [to : Address, of : Address]

\* The places in which results wait are sequences; exec holds one as well
\* while the call comes back.
Places ==
    /\ sent \in Seq(Message) /\ heard \in Seq(Message)
    /\ messages \in Seq(Message) /\ queue \in Seq(Message)
    /\ Returned \in Seq(Message)

\* A call under way, the tasks and the fields of HjBusiness name calls.
Names ==
    /\ calls \in Nat
    /\ exec.step = "execute" => exec.id \in Nat
    /\ context \in Nat /\ keys \in Nat
    /\ \A t \in tasks : t.id \in Nat

\* What is stored in the single field is the context of the only action that
\* has to answer, until two of them overlap.
OneTask ==
    ~overlap =>
        /\ \A t \in tasks : t.id = context /\ (t.action = "load" => keys = t.id)
        /\ \A i \in DOMAIN sent : sent[i].to = sent[i].of

IInv == Places /\ Names /\ InOrder /\ OneTask

-----------------------------------------------------------------------------
\* What is appended to the queue is appended to the whole way.
LEMMA WayAppend ==
    ASSUME NEW w \in Seq(Message), NEW q \in Seq(Message), NEW m \in Message
    PROVE  Append(w \o q, m) = w \o Append(q, m)
<1>1. Append(w \o q, m) = (w \o q) \o <<m>>
  BY AppendIsConcat, ConcatProperties
<1>2. (w \o q) \o <<m>> = w \o (q \o <<m>>)
  BY ConcatAssociative
<1>3. q \o <<m>> = Append(q, m)
  BY AppendIsConcat
<1> QED
  BY <1>1, <1>2, <1>3

\* Hearing the first message that waits leaves the way as it is.
LEMMA WayHead ==
    ASSUME NEW h \in Seq(Message), NEW p \in Seq(Message), p # <<>>
    PROVE  Append(h, Head(p)) \o Tail(p) = h \o p
<1>1. Head(p) \in Message /\ Tail(p) \in Seq(Message) /\ <<Head(p)>> \in Seq(Message)
  BY HeadTailProperties
<1>2. Append(h, Head(p)) = h \o <<Head(p)>>
  BY <1>1, AppendIsConcat
<1>3. (h \o <<Head(p)>>) \o Tail(p) = h \o (<<Head(p)>> \o Tail(p))
  BY <1>1, ConcatAssociative
<1>4. <<Head(p)>> \o Tail(p) = p
  BY <1>1, HeadTailProperties
<1> QED
  BY <1>2, <1>3, <1>4

\* A result that is sent goes to the end of the queue and of the history, and
\* carries the call it belongs to.
LEMMA SendKeeps ==
    ASSUME Places, InOrder, NEW to \in Address, NEW of \in Address, Send(to, of),
           UNCHANGED <<heard, messages>>, Returned' \in Seq(Message), Returned' = Returned
    PROVE  /\ Places' /\ InOrder'
           /\ (\A i \in DOMAIN sent : sent[i].to = sent[i].of) /\ to = of
              => \A i \in DOMAIN sent' : sent'[i].to = sent'[i].of
<1>1. CASE to \in finished
  BY <1>1 DEF Send, Places, InOrder
<1>2. CASE to \notin finished
  <2>1. PICK m \in Message : m = [to |-> to, of |-> of]
    BY DEF Message
  <2>2. queue' = Append(queue, m) /\ sent' = Append(sent, m)
    BY <1>2, <2>1 DEF Send
  <2>3. Places'
    BY <2>1, <2>2, AppendProperties DEF Places
  <2>4. InOrder'
    <3> DEFINE w == heard \o messages \o Returned
    <3>1. w \in Seq(Message) /\ queue \in Seq(Message) /\ w' = w
      BY ConcatProperties DEF Places
    <3>2. sent = w \o queue
      BY DEF InOrder
    <3> HIDE DEF w
    <3>3. Append(w \o queue, m) = w \o Append(queue, m)
      BY <3>1, WayAppend
    <3>4. sent' = w' \o queue'
      BY <2>2, <3>1, <3>2, <3>3
    <3> QED
      BY <3>4 DEF InOrder, w
  <2>5. ASSUME \A i \in DOMAIN sent : sent[i].to = sent[i].of, to = of,
               NEW i \in DOMAIN sent'
        PROVE  sent'[i].to = sent'[i].of
    <3>1. m.to = m.of
      BY <2>1, <2>5
    <3>2. sent \in Seq(Message) /\ DOMAIN sent = 1 .. Len(sent) /\ Len(sent) \in Nat
      BY LenProperties DEF Places
    <3>3. /\ DOMAIN sent' = 1 .. Len(sent) + 1
          /\ \A j \in 1 .. Len(sent) : sent'[j] = sent[j]
          /\ sent'[Len(sent) + 1] = m
      BY <2>1, <2>2, <3>2, AppendProperties
    <3>4. i \in 1 .. Len(sent) \/ i = Len(sent) + 1
      BY <2>5, <3>2, <3>3
    <3> QED
      BY <2>5, <3>1, <3>2, <3>3, <3>4
  <2> QED
    BY <2>3, <2>4, <2>5
<1> QED
  BY <1>1, <1>2

-----------------------------------------------------------------------------
LEMMA InitIInv == Init => IInv
<1> SUFFICES ASSUME Init PROVE IInv
  OBVIOUS
<1>1. Returned = <<>> /\ <<>> \in Seq(Message) /\ tasks = {} /\ sent = <<>>
  BY EmptySeq DEF Init, Returned, Idle
<1>2. Places
  BY <1>1 DEF Init, Places
<1>3. Names
  BY DEF Init, Names, Idle, NoCall
<1>4. InOrder
  BY <1>1, ConcatEmptySeq DEF Init, InOrder
<1>5. OneTask
  BY <1>1 DEF OneTask
<1> QED
  BY <1>2, <1>3, <1>4, <1>5 DEF IInv

LEMMA CallKeeps ==
    ASSUME IInv, NEW a \in Actions, Call(a)
    PROVE  IInv'
<1>1. Returned = <<>> /\ Returned' = <<>>
  BY DEF Call, Exec, Returned, Idle
<1>2. Places' /\ InOrder'
  BY <1>1 DEF IInv, Places, InOrder, Call, Exec, mode, plugin
<1>3. Names' /\ OneTask'
  BY DEF IInv, Names, OneTask, Call, Exec, plugin
<1> QED
  BY <1>2, <1>3 DEF IInv

LEMMA ExecuteKeeps ==
    ASSUME IInv, Execute
    PROVE  IInv'
<1>1. Returned = <<>> /\ Returned' = <<>>
  BY DEF Execute, Returned
<1>2. exec.id \in Nat /\ exec.id \in Address
  BY DEF IInv, Names, Execute, Address
<1>3. UNCHANGED <<heard, messages>>
  BY DEF Execute, page
<1>4. Names'
  BY <1>2 DEF IInv, Names, Execute, NewContext, page
<1>5. /\ Places' /\ InOrder'
      /\ (\A i \in DOMAIN sent : sent[i].to = sent[i].of)
         => \A i \in DOMAIN sent' : sent'[i].to = sent'[i].of
  <2>1. CASE Send(exec.id, exec.id)
    BY <1>1, <1>2, <1>3, <2>1, SendKeeps, EmptySeq DEF IInv
  <2>2. CASE UNCHANGED <<queue, sent>>
    BY <1>1, <1>3, <2>2 DEF IInv, Places, InOrder
  <2> QED
    BY <2>1, <2>2 DEF Execute
<1>6. OneTask'
  <2> SUFFICES ASSUME ~overlap'
               PROVE  /\ \A t \in tasks' : t.id = context' /\ (t.action = "load" => keys' = t.id)
                      /\ \A i \in DOMAIN sent' : sent'[i].to = sent'[i].of
    BY DEF OneTask
  <2>1. ~overlap /\ tasks = {}
    BY DEF Execute
  <2>2. tasks' \subseteq {[id |-> exec.id, action |-> exec.action]} /\ context' = exec.id
    BY <2>1 DEF Execute, NewContext
  <2>3. exec.action = "load" => keys' = exec.id
    BY DEF Execute
  <2> QED
    BY <1>5, <2>1, <2>2, <2>3 DEF IInv, OneTask
<1> QED
  BY <1>4, <1>5, <1>6 DEF IInv

LEMMA PopKeeps ==
    ASSUME IInv, Pop
    PROVE  IInv'
<1>1. Returned = <<>> /\ Returned' = queue /\ queue' = <<>>
  BY DEF Pop, Returned
<1>2. UNCHANGED <<heard, messages, sent, overlap, plugin, calls>>
  BY DEF Pop, page
<1>3. Places'
  BY <1>1, <1>2, EmptySeq DEF IInv, Places
<1>4. InOrder'
  <2>1. heard \o messages \in Seq(Message) /\ queue \in Seq(Message)
    BY ConcatProperties DEF IInv, Places
  <2>2. (heard \o messages) \o <<>> = heard \o messages
    BY <2>1, ConcatEmptySeq
  <2>3. ((heard \o messages) \o queue) \o <<>> = (heard \o messages) \o queue
    BY <2>1, ConcatEmptySeq, ConcatProperties
  <2> QED
    BY <1>1, <1>2, <2>2, <2>3 DEF IInv, InOrder
<1>5. Names' /\ OneTask'
  BY <1>2 DEF IInv, Names, OneTask, Pop, plugin
<1> QED
  BY <1>3, <1>4, <1>5 DEF IInv

LEMMA ResumeKeeps ==
    ASSUME IInv, Resume
    PROVE  IInv'
<1>1. Returned = exec.ret /\ Returned' = <<>> /\ messages' = messages \o Returned
  BY DEF Resume, Returned, Idle
<1>2. UNCHANGED <<heard, queue, sent, overlap, plugin, calls>>
  BY DEF Resume, page
<1>3. messages' \in Seq(Message)
  BY <1>1, ConcatProperties DEF IInv, Places
<1>4. Places'
  BY <1>1, <1>2, <1>3, EmptySeq DEF IInv, Places
<1>5. InOrder'
  <2>1. heard \in Seq(Message) /\ messages \in Seq(Message) /\ Returned \in Seq(Message)
    BY DEF IInv, Places
  <2>2. heard \o messages' = (heard \o messages) \o Returned
    <3>1. (heard \o messages) \o Returned = heard \o (messages \o Returned)
      BY <2>1, ConcatAssociative
    <3> QED
      BY <1>1, <3>1
  <2>3. (heard \o messages') \o <<>> = heard \o messages'
    BY <1>3, <2>1, ConcatProperties, ConcatEmptySeq
  <2> QED
    BY <1>1, <1>2, <2>2, <2>3 DEF IInv, InOrder
<1>6. Names' /\ OneTask'
  BY <1>2 DEF IInv, Names, OneTask, Resume, Idle, plugin
<1> QED
  BY <1>4, <1>5, <1>6 DEF IInv

\* The task that answers is the one whose context is in the field, unless
\* actions overlapped.
LEMMA AnswerKeeps ==
    ASSUME IInv, Answer
    PROVE  IInv'
<1>1. PICK t \in tasks :
        /\ Send(context, IF t.action = "load" THEN keys ELSE t.id)
        /\ tasks' \subseteq tasks
        /\ UNCHANGED <<page, exec, context, keys, paused, mode, heard, overlap>>
  BY DEF Answer
<1> DEFINE of == IF t.action = "load" THEN keys ELSE t.id
<1>2. context \in Address /\ of \in Address
  BY DEF IInv, Names, Address
<1>3. UNCHANGED <<heard, messages, calls>> /\ Returned' = Returned
  BY <1>1 DEF page, Returned
<1>4. /\ Places' /\ InOrder'
      /\ (\A i \in DOMAIN sent : sent[i].to = sent[i].of) /\ context = of
         => \A i \in DOMAIN sent' : sent'[i].to = sent'[i].of
  <2>1. Send(context, of)
    BY <1>1
  <2>2. Returned' \in Seq(Message)
    BY <1>3 DEF IInv, Places
  <2> HIDE DEF of
  <2> QED
    BY <1>2, <1>3, <2>1, <2>2, SendKeeps DEF IInv
<1>5. Names'
  BY <1>1, <1>3 DEF IInv, Names
<1>6. OneTask'
  BY <1>1, <1>4 DEF IInv, OneTask
<1> QED
  BY <1>4, <1>5, <1>6 DEF IInv

LEMMA FireEventKeeps ==
    ASSUME IInv, FireEvent
    PROVE  IInv'
<1>1. Channel \in Address
  BY DEF Address
<1>2. UNCHANGED <<heard, messages, calls, overlap, plugin, exec>> /\ Returned' = Returned
  BY DEF FireEvent, page, Returned
<1>3. /\ Places' /\ InOrder'
      /\ (\A i \in DOMAIN sent : sent[i].to = sent[i].of)
         => \A i \in DOMAIN sent' : sent'[i].to = sent'[i].of
  <2>1. Send(Channel, Channel)
    BY DEF FireEvent
  <2>2. Returned' \in Seq(Message)
    BY <1>2 DEF IInv, Places
  <2> QED
    BY <1>1, <1>2, <2>1, <2>2, SendKeeps DEF IInv
<1>4. Names' /\ OneTask'
  BY <1>2, <1>3 DEF IInv, Names, OneTask, plugin
<1> QED
  BY <1>3, <1>4 DEF IInv

\* Neither the end of a task nor the UI thread touches what is on its way.
LEMMA OthersKeep ==
    ASSUME IInv, GiveUp \/ Available \/ UNCHANGED vars
    PROVE  IInv'
<1>1. /\ UNCHANGED <<sent, heard, messages, queue, exec, calls, context, keys, overlap>>
      /\ tasks' \subseteq tasks
  <2>1. CASE GiveUp
    BY <2>1 DEF GiveUp, page
  <2>2. CASE Available
    BY <2>2 DEF Available, page, plugin
  <2>3. CASE UNCHANGED vars
    BY <2>3 DEF vars, page, plugin
  <2> QED
    BY <2>1, <2>2, <2>3
<1>2. Returned' = Returned
  BY <1>1 DEF Returned
<1>3. Places' /\ InOrder'
  BY <1>1, <1>2 DEF IInv, Places, InOrder
<1>4. Names' /\ OneTask'
  BY <1>1 DEF IInv, Names, OneTask
<1> QED
  BY <1>3, <1>4 DEF IInv

LEMMA PollKeeps ==
    ASSUME IInv, Poll
    PROVE  IInv'
<1>1. /\ Returned = <<>> /\ Returned' = <<>> /\ queue' = <<>>
      /\ UNCHANGED <<sent, exec, calls, plugin, overlap>>
  BY DEF Poll, Returned, Idle, page, Process, CallBack
<1>2. Names' /\ OneTask'
  BY <1>1 DEF IInv, Names, OneTask, plugin
<1>3. CASE queue = <<>>
  BY <1>1, <1>2, <1>3 DEF IInv, Places, InOrder, Poll, page
<1>4. CASE queue # <<>>
  <2> DEFINE w == messages \o queue
  <2>1. w \in Seq(Message) /\ w # <<>> /\ heard \in Seq(Message)
    BY <1>4, ConcatProperties, EmptySeq, LenProperties DEF IInv, Places
  <2>2. heard' = Append(heard, Head(w)) /\ messages' = Tail(w)
    BY <1>4 DEF Poll, Process, CallBack, Polled
  <2>3. heard' \in Seq(Message) /\ messages' \in Seq(Message)
    BY <2>1, <2>2, AppendProperties, HeadTailProperties
  <2>4. heard' \o messages' = heard \o w
    <3> HIDE DEF w
    <3> QED
      BY <2>1, <2>2, WayHead
  <2>5. sent = heard \o w
    <3>1. heard \o messages \in Seq(Message) /\ messages \in Seq(Message) /\ queue \in Seq(Message)
      BY ConcatProperties DEF IInv, Places
    <3>2. (heard \o messages) \o <<>> = heard \o messages
      BY <3>1, ConcatEmptySeq
    <3>3. (heard \o messages) \o queue = heard \o (messages \o queue)
      BY <2>1, <3>1, ConcatAssociative
    <3> QED
      BY <1>1, <3>2, <3>3 DEF IInv, InOrder
  <2>6. Places'
    BY <1>1, <2>3, EmptySeq DEF IInv, Places
  <2>7. InOrder'
    <3>1. heard' \o messages' \in Seq(Message)
      BY <2>3, ConcatProperties
    <3>2. (heard' \o messages') \o <<>> = heard' \o messages'
      BY <3>1, ConcatEmptySeq
    <3>3. sent' = heard' \o messages' \o <<>> \o <<>>
      BY <1>1, <2>4, <2>5, <3>2
    <3> QED
      BY <1>1, <3>3 DEF InOrder
  <2> QED
    BY <1>2, <2>6, <2>7 DEF IInv
<1> QED
  BY <1>3, <1>4

LEMMA TickKeeps ==
    ASSUME IInv, Tick
    PROVE  IInv'
<1>1. /\ Returned' = Returned
      /\ UNCHANGED <<sent, queue, exec, calls, plugin, overlap>>
  BY DEF Tick, Returned
<1>2. Names' /\ OneTask'
  BY <1>1 DEF IInv, Names, OneTask, plugin
<1>3. CASE messages = <<>>
  BY <1>1, <1>2, <1>3 DEF IInv, Places, InOrder, Tick
<1>4. CASE messages # <<>>
  <2>1. heard' = Append(heard, Head(messages)) /\ messages' = Tail(messages)
    BY <1>4 DEF Tick, Process, CallBack
  <2>2. heard \in Seq(Message) /\ messages \in Seq(Message)
    BY DEF IInv, Places
  <2>3. heard' \in Seq(Message) /\ messages' \in Seq(Message)
    BY <1>4, <2>1, <2>2, AppendProperties, HeadTailProperties
  <2>4. heard' \o messages' = heard \o messages
    BY <1>4, <2>1, <2>2, WayHead
  <2>5. Places'
    BY <1>1, <2>3 DEF IInv, Places
  <2>6. InOrder'
    BY <1>1, <2>4 DEF IInv, InOrder
  <2> QED
    BY <1>2, <2>5, <2>6 DEF IInv
<1> QED
  BY <1>3, <1>4

LEMMA StepIInv == IInv /\ [Next]_vars => IInv'
<1> SUFFICES ASSUME IInv, [Next]_vars PROVE IInv'
  OBVIOUS
<1>1. ASSUME NEW a \in Actions, Call(a) PROVE IInv'
  BY <1>1, CallKeeps
<1>2. CASE Execute
  BY <1>2, ExecuteKeeps
<1>3. CASE Pop
  BY <1>3, PopKeeps
<1>4. CASE Resume
  BY <1>4, ResumeKeeps
<1>5. CASE Answer
  BY <1>5, AnswerKeeps
<1>6. CASE FireEvent
  BY <1>6, FireEventKeeps
<1>7. CASE GiveUp \/ Available \/ UNCHANGED vars
  BY <1>7, OthersKeep
<1>8. CASE Poll
  BY <1>8, PollKeeps
<1>9. CASE Tick
  BY <1>9, TickKeeps
<1> QED
  BY <1>1, <1>2, <1>3, <1>4, <1>5, <1>6, <1>7, <1>8, <1>9 DEF Next

\* What is on the way stays in front of what follows it.
LEMMA InFront ==
    ASSUME NEW w \in Seq(Message), NEW q \in Seq(Message), NEW i \in DOMAIN w
    PROVE  w \o q \in Seq(Message) /\ i \in DOMAIN (w \o q) /\ (w \o q)[i] = w[i]
<1>1. /\ w \o q \in Seq(Message) /\ Len(w) \in Nat /\ Len(q) \in Nat
      /\ DOMAIN w = 1 .. Len(w) /\ DOMAIN (w \o q) = 1 .. Len(w \o q)
      /\ Len(w \o q) = Len(w) + Len(q)
  BY ConcatProperties, LenProperties
<1>2. i \in 1 .. Len(w) + Len(q) /\ i <= Len(w)
  BY <1>1
<1> QED
  BY <1>1, <1>2, ConcatProperties

LEMMA OwnAnswerFollows == IInv => OwnAnswer
<1> SUFFICES ASSUME IInv, ~overlap, NEW i \in DOMAIN heard
             PROVE  heard[i].to = heard[i].of
  BY DEF OwnAnswer
<1> DEFINE m == heard \o messages
           r == m \o Returned
<1>1. heard \in Seq(Message) /\ messages \in Seq(Message)
      /\ Returned \in Seq(Message) /\ queue \in Seq(Message)
  BY DEF IInv, Places
<1>2. sent = r \o queue
  BY DEF IInv, InOrder
<1>3. m \in Seq(Message) /\ i \in DOMAIN m /\ m[i] = heard[i]
  BY <1>1, InFront
<1> HIDE DEF m
<1>4. r \in Seq(Message) /\ i \in DOMAIN r /\ r[i] = m[i]
  BY <1>1, <1>3, InFront
<1> HIDE DEF r
<1>5. i \in DOMAIN sent /\ sent[i] = heard[i]
  BY <1>1, <1>2, <1>3, <1>4, InFront
<1> QED
  BY <1>5 DEF IInv, OneTask

-----------------------------------------------------------------------------
(* No result is lost, doubled or overtaken between the native queue and the  *)
(* callbacks, whatever the number of calls and events.                       *)
THEOREM ResultsInOrder == Spec => []InOrder
<1>1. IInv => InOrder
  BY DEF IInv
<1> QED
  BY <1>1, InitIInv, StepIInv, PTL DEF Spec

(* While no two actions of the plugin overlap, every result goes to the      *)
(* callback of the call it is a result of.                                   *)
THEOREM AnswersOwnCall == Spec => []OwnAnswer
  BY InitIInv, StepIInv, OwnAnswerFollows, PTL DEF Spec
=============================================================================
