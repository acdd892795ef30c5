------------------------- MODULE DocumentPartsProof -------------------------
(***************************************************************************)
(* What the parts of a document keep true, for every value of their        *)
(* constants: for each part an inductive invariant of its own state, with  *)
(* a lemma that Init implies it, one that every step keeps it, and one     *)
(* that the part's property follows from it.  PagePartsProof puts them     *)
(* together.  The names of what belongs to one part begin with that part's.*)
(***************************************************************************)
EXTENDS DocumentParts, FiniteSetTheorems, SequenceTheorems, TLAPS

-----------------------------------------------------------------------------
(* Overlays: one modal at a time, the others wait on the stack. *)
\* Each instance has a copy of the library's operators.
LEMMA OverlaysCardinality == \A S : Overlay!Cardinality(S) = Cardinality(S)
  BY DEF Overlay!Cardinality, Cardinality

OverlaysKind == {"none", "alert", "preloader"}
OverlaysClass == {"none", "in", "out", "stacked"}

OverlaysState ==
    [paper : Papers, kind : [Overlay!Id -> OverlaysKind], class : [Overlay!Id -> OverlaysClass],
     stack : Seq(Overlay!Id),
     sheet : [Overlay!Sheet -> {"none", "in", "out"}], over : BOOLEAN, popOver : BOOLEAN,
     asked : Nat]

\* The stack holds what is marked as stacked, i apart, and nothing twice.
OverlaysStacks(s, X) ==
    /\ \A i \in Overlay!Id : (\E n \in DOMAIN s.stack : s.stack[n] = i)
                        <=> s.class[i] = "stacked" /\ i \notin X
    /\ \A m, n \in DOMAIN s.stack : s.stack[m] = s.stack[n] => m = n

OverlaysOne(s) == \A i, j \in Overlay!Id : s.class[i] = "in" /\ s.class[j] = "in" => i = j

OverlaysGood(s) ==
    /\ s \in OverlaysState /\ OverlaysOne(s) /\ OverlaysStacks(s, {})
    /\ s.stack # <<>> => Overlay!In(s) # {}

OverlaysFree(s) == Cardinality(Overlay!Absent(s))

OverlaysIInv == OverlaysGood(w) /\ OverlaysFree(w) >= w.asked

-----------------------------------------------------------------------------
\* An element that is opened is shown, or waits behind the one that is.
LEMMA OverlaysOpenGood ==
    ASSUME NEW s \in OverlaysState, OverlaysOne(s), NEW i \in Overlay!Id, s.class[i] # "in",
           OverlaysStacks(s, {i})
    PROVE  /\ OverlaysGood(Overlay!OpenModal(s, i))
           /\ Overlay!Absent(Overlay!OpenModal(s, i)) = Overlay!Absent(s) \ {i}
           /\ Overlay!OpenModal(s, i).asked = s.asked
<1>1. CASE Overlay!In(s) = {}
  <2> DEFINE t == [s EXCEPT !.class[i] = "in", !.over = TRUE]
  <2>1. Overlay!OpenModal(s, i) = t
    BY <1>1 DEF Overlay!OpenModal
  <2>2. t \in OverlaysState /\ t.class = [s.class EXCEPT ![i] = "in"] /\ t.stack = s.stack
        /\ t.asked = s.asked /\ s.class \in [Overlay!Id -> OverlaysClass]
    BY DEF OverlaysState, OverlaysClass
  <2> HIDE DEF t
  <2>3. OverlaysOne(t) /\ OverlaysStacks(t, {}) /\ Overlay!In(t) # {}
    BY <1>1, <2>2 DEF OverlaysOne, OverlaysStacks, Overlay!In
  <2>4. Overlay!Absent(t) = Overlay!Absent(s) \ {i}
    BY <2>2 DEF Overlay!Absent
  <2> QED
    BY <2>1, <2>2, <2>3, <2>4 DEF OverlaysGood
<1>2. CASE Overlay!In(s) # {}
  <2> DEFINE t == [s EXCEPT !.stack = Append(@, i), !.class[i] = "stacked"]
  <2>1. Overlay!OpenModal(s, i) = t
    BY <1>2 DEF Overlay!OpenModal
  <2>2. /\ s.stack \in Seq(Overlay!Id) /\ Len(s.stack) \in Nat /\ DOMAIN s.stack = 1 .. Len(s.stack)
        /\ Append(s.stack, i) \in Seq(Overlay!Id) /\ s.class \in [Overlay!Id -> OverlaysClass]
    BY AppendProperties, LenProperties DEF OverlaysState
  <2>3. t \in OverlaysState /\ t.class = [s.class EXCEPT ![i] = "stacked"]
        /\ t.stack = Append(s.stack, i) /\ t.asked = s.asked
    BY <2>2 DEF OverlaysState, OverlaysClass
  <2>4. /\ DOMAIN t.stack = 1 .. Len(s.stack) + 1
        /\ \A n \in 1 .. Len(s.stack) : t.stack[n] = s.stack[n]
        /\ t.stack[Len(s.stack) + 1] = i
    BY <2>2, <2>3, AppendProperties, LenProperties
  <2> HIDE DEF t
  <2>5. OverlaysOne(t) /\ Overlay!In(t) # {}
    BY <1>2, <2>2, <2>3 DEF OverlaysOne, Overlay!In
  <2>6. OverlaysStacks(t, {})
    <3>1. \A j \in Overlay!Id : t.class[j] = "stacked" <=> s.class[j] = "stacked" \/ j = i
      BY <2>2, <2>3
    <3>2. \A n \in DOMAIN s.stack : s.stack[n] # i
      BY DEF OverlaysStacks
    <3>3. \A j \in Overlay!Id : (\E n \in DOMAIN t.stack : t.stack[n] = j)
                           <=> (\E n \in DOMAIN s.stack : s.stack[n] = j) \/ j = i
      BY <2>2, <2>4
    <3>4. ASSUME NEW m \in DOMAIN t.stack, NEW n \in DOMAIN t.stack, t.stack[m] = t.stack[n]
          PROVE  m = n
      <4>1. m \in Nat /\ n \in Nat /\ (m \in DOMAIN s.stack \/ m = Len(s.stack) + 1)
            /\ (n \in DOMAIN s.stack \/ n = Len(s.stack) + 1)
        BY <2>2, <2>4
      <4>2. CASE m \in DOMAIN s.stack /\ n \in DOMAIN s.stack
        <5>1. s.stack[m] = s.stack[n]
          BY <2>2, <2>4, <3>4, <4>2
        <5> QED
          BY <4>2, <5>1 DEF OverlaysStacks
      <4>3. CASE m \in DOMAIN s.stack /\ n = Len(s.stack) + 1
        BY <2>2, <2>4, <3>2, <3>4, <4>3
      <4>4. CASE n \in DOMAIN s.stack /\ m = Len(s.stack) + 1
        BY <2>2, <2>4, <3>2, <3>4, <4>4
      <4> QED
        BY <4>1, <4>2, <4>3, <4>4
    <3> QED
      BY <3>1, <3>3, <3>4 DEF OverlaysStacks
  <2>7. Overlay!Absent(t) = Overlay!Absent(s) \ {i}
    BY <2>2, <2>3 DEF Overlay!Absent
  <2> QED
    BY <2>1, <2>3, <2>5, <2>6, <2>7 DEF OverlaysGood
<1> QED
  BY <1>1, <1>2

\* When modals are closed the next one of the stack gets its turn.
LEMMA OverlaysClearQueueGood ==
    ASSUME NEW s \in OverlaysState, OverlaysOne(s), OverlaysStacks(s, {})
    PROVE  /\ OverlaysGood(Overlay!ModalStackClearQueue(s))
           /\ Overlay!Absent(Overlay!ModalStackClearQueue(s)) = Overlay!Absent(s)
           /\ Overlay!ModalStackClearQueue(s).asked = s.asked
<1>1. CASE s.stack = <<>>
  BY <1>1 DEF Overlay!ModalStackClearQueue, OverlaysGood
<1>2. CASE s.stack # <<>>
  <2> DEFINE i == Head(s.stack)
             t == [s EXCEPT !.stack = Tail(@)]
  <2>1. Overlay!ModalStackClearQueue(s) = Overlay!OpenModal(t, i)
    BY <1>2 DEF Overlay!ModalStackClearQueue
  <2>2. /\ s.stack \in Seq(Overlay!Id) /\ i \in Overlay!Id /\ Tail(s.stack) \in Seq(Overlay!Id)
        /\ Len(s.stack) \in Nat /\ Len(s.stack) # 0 /\ DOMAIN s.stack = 1 .. Len(s.stack)
        /\ i = s.stack[1] /\ Len(Tail(s.stack)) = Len(s.stack) - 1
        /\ \A n \in 1 .. Len(s.stack) - 1 : Tail(s.stack)[n] = s.stack[n + 1]
    BY <1>2, HeadTailProperties, LenProperties, EmptySeq DEF OverlaysState
  <2>3. t \in OverlaysState /\ t.class = s.class /\ t.stack = Tail(s.stack) /\ t.asked = s.asked
    BY <2>2 DEF OverlaysState
  <2>4. DOMAIN t.stack = 1 .. Len(s.stack) - 1
        /\ \A n \in 1 .. Len(s.stack) - 1 : t.stack[n] = s.stack[n + 1]
    BY <2>2, <2>3, LenProperties
  <2>5. s.class[i] = "stacked"
    BY <2>2 DEF OverlaysStacks
  <2> HIDE DEF t, i
  <2>6. /\ OverlaysOne(t) /\ t.class[i] # "in" /\ i \notin Overlay!Absent(s)
        /\ Overlay!Absent(t) = Overlay!Absent(s)
    BY <2>3, <2>5 DEF OverlaysOne, Overlay!Absent
  <2>7. \A m, n \in DOMAIN t.stack : t.stack[m] = t.stack[n] => m = n
    <3> SUFFICES ASSUME NEW m \in DOMAIN t.stack, NEW n \in DOMAIN t.stack,
                        t.stack[m] = t.stack[n]
                 PROVE  m = n
      OBVIOUS
    <3>1. m \in 1 .. Len(s.stack) - 1 /\ n \in 1 .. Len(s.stack) - 1
      BY <2>4
    <3>2. m \in Nat /\ n \in Nat /\ m + 1 \in 1 .. Len(s.stack) /\ n + 1 \in 1 .. Len(s.stack)
      BY <2>2, <3>1
    <3>3. s.stack[m + 1] = s.stack[n + 1]
      BY <2>4, <3>1
    <3>4. m + 1 = n + 1
      BY <2>2, <3>2, <3>3 DEF OverlaysStacks
    <3> QED
      BY <3>2, <3>4
  <2>8. \A j \in Overlay!Id : (\E n \in DOMAIN t.stack : t.stack[n] = j)
                         <=> t.class[j] = "stacked" /\ j \notin {i}
    <3> TAKE j \in Overlay!Id
    <3>1. ASSUME NEW n \in DOMAIN t.stack, t.stack[n] = j
          PROVE  t.class[j] = "stacked" /\ j # i
      <4>1. n \in Nat /\ n # 0 /\ n + 1 \in DOMAIN s.stack /\ s.stack[n + 1] = j
            /\ 1 \in DOMAIN s.stack
        BY <2>2, <2>4, <3>1
      <4>2. j # i
        BY <2>2, <4>1 DEF OverlaysStacks
      <4> QED
        BY <2>3, <4>1, <4>2 DEF OverlaysStacks
    <3>2. ASSUME t.class[j] = "stacked", j # i
          PROVE  \E n \in DOMAIN t.stack : t.stack[n] = j
      <4>1. PICK n \in DOMAIN s.stack : s.stack[n] = j
        BY <2>3, <3>2 DEF OverlaysStacks
      <4>2. n # 1
        BY <2>2, <3>2, <4>1
      <4>3. n - 1 \in 1 .. Len(s.stack) - 1 /\ (n - 1) + 1 = n
        BY <2>2, <4>2
      <4> QED
        BY <2>4, <4>1, <4>3
    <3> QED
      BY <3>1, <3>2
  <2>9. OverlaysStacks(t, {i})
    BY <2>7, <2>8 DEF OverlaysStacks
  <2>10. OverlaysGood(Overlay!OpenModal(t, i))
         /\ Overlay!Absent(Overlay!OpenModal(t, i)) = Overlay!Absent(t) \ {i}
         /\ Overlay!OpenModal(t, i).asked = t.asked
    <3>1. i \in Overlay!Id
      BY <2>2
    <3> QED
      BY <2>3, <2>6, <2>9, <3>1, OverlaysOpenGood
  <2>11. Overlay!Absent(t) \ {i} = Overlay!Absent(s)
    BY <2>6
  <2> QED
    BY <2>1, <2>3, <2>10, <2>11
<1> QED
  BY <1>1, <1>2

\* closeModal, for modals that do not wait.
LEMMA OverlaysCloseGood ==
    ASSUME NEW s, OverlaysGood(s), NEW ids \in SUBSET Overlay!Id,
           \A i \in ids : s.class[i] \in {"in", "out"}
    PROVE  /\ OverlaysGood(Overlay!CloseModal(s, ids))
           /\ Overlay!Absent(Overlay!CloseModal(s, ids)) = Overlay!Absent(s)
           /\ Overlay!CloseModal(s, ids).asked = s.asked
<1>1. CASE ids = {}
  BY <1>1 DEF Overlay!CloseModal
<1>2. CASE ids # {}
  <2> DEFINE c == [i \in Overlay!Id |-> IF i \in ids THEN "out" ELSE s.class[i]]
             t == [s EXCEPT !.over = FALSE, !.class = c]
  <2>1. Overlay!CloseModal(s, ids) = Overlay!ModalStackClearQueue(t)
    BY <1>2 DEF Overlay!CloseModal
  <2>2. s \in OverlaysState /\ c \in [Overlay!Id -> OverlaysClass]
    BY DEF OverlaysGood, OverlaysState, OverlaysClass
  <2>3. t \in OverlaysState /\ t.class = c /\ t.stack = s.stack /\ t.asked = s.asked
    BY <2>2 DEF OverlaysState
  <2>4. \A i \in Overlay!Id : t.class[i] = IF i \in ids THEN "out" ELSE s.class[i]
    BY <2>3
  <2> HIDE DEF t, c
  <2>5. OverlaysOne(t)
    BY <2>4 DEF OverlaysGood, OverlaysOne
  <2>6. OverlaysStacks(t, {})
    <3>1. \A i \in Overlay!Id : t.class[i] = "stacked" <=> s.class[i] = "stacked"
      BY <2>4
    <3> QED
      BY <2>3, <3>1 DEF OverlaysGood, OverlaysStacks
  <2>7. Overlay!Absent(t) = Overlay!Absent(s)
    BY <2>4 DEF Overlay!Absent
  <2> QED
    BY <2>1, <2>3, <2>5, <2>6, <2>7, OverlaysClearQueueGood
<1> QED
  BY <1>1, <1>2

LEMMA OverlaysHidePreloaderGood ==
    ASSUME NEW s, OverlaysGood(s)
    PROVE  /\ OverlaysGood(Overlay!HidePreloader(s))
           /\ Overlay!Absent(Overlay!HidePreloader(s)) = Overlay!Absent(s)
           /\ Overlay!HidePreloader(s).asked = s.asked
<1>1. Overlay!In(s) \in SUBSET Overlay!Id /\ \A i \in Overlay!In(s) : s.class[i] \in {"in", "out"}
  BY DEF Overlay!In
<1> QED
  BY <1>1, OverlaysCloseGood DEF Overlay!HidePreloader

\* There are finitely many elements.
LEMMA OverlaysFreeFinite ==
    ASSUME Overlay!OverlaysAssumption, NEW s
    PROVE  IsFiniteSet(Overlay!Absent(s)) /\ OverlaysFree(s) \in Nat /\ (OverlaysFree(s) # 0 => Overlay!Absent(s) # {})
<1>1. IsFiniteSet(Overlay!Id)
  BY FS_Interval DEF Overlay!Id, Overlay!OverlaysAssumption
<1>2. Overlay!Absent(s) \in SUBSET Overlay!Id
  BY DEF Overlay!Absent
<1>3. IsFiniteSet(Overlay!Absent(s))
  BY <1>1, <1>2, FS_Subset
<1> QED
  BY <1>3, FS_CardinalityType, FS_EmptySet DEF OverlaysFree

\* app.modal takes one of the elements that are not in use.
LEMMA OverlaysModalGood ==
    ASSUME Overlay!OverlaysAssumption, NEW s, OverlaysGood(s), OverlaysFree(s) # 0,
           NEW kind \in OverlaysKind
    PROVE  /\ OverlaysGood(Overlay!Modal(s, kind))
           /\ OverlaysFree(Overlay!Modal(s, kind)) = OverlaysFree(s) - 1
           /\ Overlay!Modal(s, kind).asked = s.asked
<1> DEFINE i == CHOOSE j \in Overlay!Absent(s) : TRUE
           t == [s EXCEPT !.kind[i] = kind]
<1>1. i \in Overlay!Absent(s) /\ i \in Overlay!Id /\ s.class[i] = "none"
  BY OverlaysFreeFinite DEF Overlay!Absent
<1>2. Overlay!Modal(s, kind) = Overlay!OpenModal(t, i)
  BY DEF Overlay!Modal
<1> HIDE DEF i
<1>3. s \in OverlaysState
  BY DEF OverlaysGood
<1>4. t \in OverlaysState /\ t.class = s.class /\ t.stack = s.stack /\ t.asked = s.asked
  BY <1>1, <1>3 DEF OverlaysState, OverlaysKind
<1> HIDE DEF t
<1>5. OverlaysOne(t) /\ OverlaysStacks(t, {i}) /\ Overlay!Absent(t) = Overlay!Absent(s)
  BY <1>1, <1>4 DEF OverlaysGood, OverlaysOne, OverlaysStacks, Overlay!Absent
<1>6. OverlaysGood(Overlay!OpenModal(t, i))
      /\ Overlay!Absent(Overlay!OpenModal(t, i)) = Overlay!Absent(s) \ {i}
      /\ Overlay!OpenModal(t, i).asked = s.asked
  BY <1>1, <1>4, <1>5, OverlaysOpenGood
<1>7. OverlaysFree(Overlay!OpenModal(t, i)) = OverlaysFree(s) - 1
  BY <1>1, <1>6, OverlaysFreeFinite, FS_RemoveElement DEF OverlaysFree
<1> QED
  BY <1>2, <1>6, <1>7

LEMMA OverlaysAlertGood ==
    ASSUME Overlay!OverlaysAssumption, NEW s, OverlaysGood(s), OverlaysFree(s) # 0
    PROVE  /\ OverlaysGood(Overlay!Alert(s))
           /\ OverlaysFree(Overlay!Alert(s)) = OverlaysFree(s) - 1
           /\ Overlay!Alert(s).asked = s.asked
           /\ OverlaysGood(Overlay!ShowPreloader(s))
           /\ OverlaysFree(Overlay!ShowPreloader(s)) = OverlaysFree(s) - 1
           /\ Overlay!ShowPreloader(s).asked = s.asked
  BY OverlaysModalGood DEF Overlay!Alert, Overlay!ShowPreloader, OverlaysKind

\* Sheets and calls leave the modals alone.
LEMMA OverlaysSameGood ==
    ASSUME NEW s, OverlaysGood(s), NEW t \in OverlaysState, t.class = s.class, t.stack = s.stack
    PROVE  OverlaysGood(t) /\ Overlay!Absent(t) = Overlay!Absent(s)
           /\ OverlaysFree(t) = OverlaysFree(s)
  BY DEF OverlaysGood, OverlaysOne, OverlaysStacks, Overlay!In, Overlay!Absent, OverlaysFree

LEMMA OverlaysSheetGood ==
    ASSUME NEW s, OverlaysGood(s), NEW k \in Overlay!Sheet
    PROVE  /\ OverlaysGood(Overlay!OpenSheet(s, k))
           /\ OverlaysFree(Overlay!OpenSheet(s, k)) = OverlaysFree(s)
           /\ Overlay!OpenSheet(s, k).asked = s.asked
           /\ OverlaysGood(Overlay!CloseSheet(s, k))
           /\ OverlaysFree(Overlay!CloseSheet(s, k)) = OverlaysFree(s)
           /\ Overlay!CloseSheet(s, k).asked = s.asked
           /\ OverlaysGood(Overlay!CloseShown(s, k))
           /\ OverlaysFree(Overlay!CloseShown(s, k)) = OverlaysFree(s)
           /\ Overlay!CloseShown(s, k).asked = s.asked
<1>1. s \in OverlaysState
  BY DEF OverlaysGood
<1>2. /\ Overlay!OpenSheet(s, k) \in OverlaysState /\ Overlay!OpenSheet(s, k).class = s.class
      /\ Overlay!OpenSheet(s, k).stack = s.stack /\ Overlay!OpenSheet(s, k).asked = s.asked
  BY <1>1 DEF Overlay!OpenSheet, OverlaysState
<1>3. /\ Overlay!CloseSheet(s, k) \in OverlaysState /\ Overlay!CloseSheet(s, k).class = s.class
      /\ Overlay!CloseSheet(s, k).stack = s.stack /\ Overlay!CloseSheet(s, k).asked = s.asked
  BY <1>1 DEF Overlay!CloseSheet, OverlaysState
<1>4. /\ OverlaysGood(Overlay!OpenSheet(s, k))
      /\ OverlaysFree(Overlay!OpenSheet(s, k)) = OverlaysFree(s)
      /\ OverlaysGood(Overlay!CloseSheet(s, k))
      /\ OverlaysFree(Overlay!CloseSheet(s, k)) = OverlaysFree(s)
  BY <1>2, <1>3, OverlaysSameGood
<1> QED
  BY <1>2, <1>3, <1>4 DEF Overlay!CloseShown

\* A call begins or is answered: only the count of the calls changes.
LEMMA OverlaysAskedGood ==
    ASSUME NEW s, OverlaysGood(s), NEW n \in Nat
    PROVE  /\ OverlaysGood([s EXCEPT !.asked = n])
           /\ OverlaysFree([s EXCEPT !.asked = n]) = OverlaysFree(s)
           /\ [s EXCEPT !.asked = n].asked = n
<1> DEFINE t == [s EXCEPT !.asked = n]
<1>1. t \in OverlaysState /\ t.class = s.class /\ t.stack = s.stack /\ t.asked = n
  BY DEF OverlaysGood, OverlaysState
<1> HIDE DEF t
<1>2. OverlaysGood(t) /\ OverlaysFree(t) = OverlaysFree(s)
  BY <1>1, OverlaysSameGood
<1> QED
  BY <1>1, <1>2 DEF t

-----------------------------------------------------------------------------
LEMMA OverlaysInitIInv == Overlay!OverlaysAssumption /\ Overlay!Init => OverlaysIInv
<1> SUFFICES ASSUME Overlay!OverlaysAssumption, Overlay!Init PROVE OverlaysIInv
  OBVIOUS
<1>1. w \in OverlaysState /\ w.class = [i \in Overlay!Id |-> "none"] /\ w.stack = <<>>
      /\ w.asked = 0
  BY EmptySeq DEF Overlay!Init, OverlaysState, OverlaysKind, OverlaysClass
<1>2. OverlaysOne(w) /\ OverlaysStacks(w, {})
  BY <1>1 DEF OverlaysOne, OverlaysStacks
<1>3. OverlaysGood(w)
  BY <1>1, <1>2 DEF OverlaysGood
<1>4. OverlaysFree(w) >= w.asked
  BY <1>1, OverlaysFreeFinite
<1> QED
  BY <1>3, <1>4 DEF OverlaysIInv

LEMMA OverlaysSheetsKeep ==
    ASSUME Overlay!OverlaysAssumption, OverlaysIInv,
           \/ \E k \in Overlay!Sheet : Overlay!TapOpen(k) \/ Overlay!TapClose(k)
           \/ Overlay!TapOverlay \/ Overlay!TapPopupOverlay
    PROVE  OverlaysIInv'
<1>1. OverlaysGood(w) /\ OverlaysFree(w) \in Nat /\ w.asked \in Nat
  BY OverlaysFreeFinite DEF OverlaysIInv, OverlaysGood, OverlaysState
<1>2. ASSUME NEW t, w' = t, OverlaysGood(t), OverlaysFree(t) = OverlaysFree(w), t.asked = w.asked
      PROVE  OverlaysIInv'
  BY <1>1, <1>2 DEF OverlaysIInv
<1>3. ASSUME NEW k \in Overlay!Sheet, Overlay!TapOpen(k) PROVE OverlaysIInv'
  BY <1>1, <1>2, <1>3, OverlaysSheetGood DEF Overlay!TapOpen
<1>4. ASSUME NEW k \in Overlay!Sheet, Overlay!TapClose(k) PROVE OverlaysIInv'
  BY <1>1, <1>2, <1>4, OverlaysSheetGood DEF Overlay!TapClose
<1>5. CASE Overlay!TapPopupOverlay
  BY <1>1, <1>2, <1>5, OverlaysSheetGood DEF Overlay!TapPopupOverlay, Overlay!Sheet
<1>6. CASE Overlay!TapOverlay
  <2> DEFINE s == Overlay!CloseShown(w, "actions")
             t == Overlay!CloseShown(s, "popover")
  <2>1. OverlaysGood(s) /\ OverlaysFree(s) = OverlaysFree(w) /\ s.asked = w.asked
    BY <1>1, OverlaysSheetGood DEF Overlay!Sheet
  <2>2. w' = t
    BY <1>6 DEF Overlay!TapOverlay
  <2> HIDE DEF s
  <2>3. OverlaysGood(t) /\ OverlaysFree(t) = OverlaysFree(s) /\ t.asked = s.asked
    BY <2>1, OverlaysSheetGood DEF Overlay!Sheet
  <2> QED
    BY <1>2, <2>1, <2>2, <2>3
<1> QED
  BY <1>3, <1>4, <1>5, <1>6

\* A button of the actions, with the room for the alert that it shows.
LEMMA OverlaysActionsKeep ==
    ASSUME Overlay!OverlaysAssumption, OverlaysIInv, NEW closes \in BOOLEAN, NEW alerts \in BOOLEAN,
           Overlay!ActionsButton(closes, alerts)
    PROVE  OverlaysIInv'
<1> DEFINE s == IF closes THEN Overlay!CloseSheet(w, "actions") ELSE w
<1>1. OverlaysGood(w) /\ OverlaysFree(w) \in Nat /\ w.asked \in Nat /\ OverlaysFree(w) >= w.asked
  BY OverlaysFreeFinite DEF OverlaysIInv, OverlaysGood, OverlaysState
<1>2. OverlaysGood(s) /\ OverlaysFree(s) = OverlaysFree(w) /\ s.asked = w.asked
  BY <1>1, OverlaysSheetGood DEF Overlay!Sheet
<1>3. w' = IF alerts THEN Overlay!Alert(s) ELSE s
  BY DEF Overlay!ActionsButton
<1>4. alerts => OverlaysFree(w) >= w.asked + 1
  BY OverlaysCardinality DEF Overlay!ActionsButton, Overlay!Room, OverlaysFree
<1> HIDE DEF s
<1>5. CASE alerts
  <2>1. OverlaysFree(s) # 0
    BY <1>1, <1>2, <1>4, <1>5
  <2>2. OverlaysGood(Overlay!Alert(s)) /\ OverlaysFree(Overlay!Alert(s)) = OverlaysFree(s) - 1
        /\ Overlay!Alert(s).asked = s.asked
    BY <1>2, <2>1, OverlaysAlertGood
  <2> QED
    BY <1>1, <1>2, <1>3, <1>4, <1>5, <2>2 DEF OverlaysIInv
<1>6. CASE ~alerts
  BY <1>1, <1>2, <1>3, <1>6 DEF OverlaysIInv
<1> QED
  BY <1>5, <1>6

LEMMA OverlaysButtonKeeps ==
    ASSUME Overlay!OverlaysAssumption, OverlaysIInv, NEW i \in Overlay!Id, Overlay!TapButton(i)
    PROVE  OverlaysIInv'
<1>1. OverlaysGood(w) /\ {i} \in SUBSET Overlay!Id /\ \A j \in {i} : w.class[j] \in {"in", "out"}
  BY DEF OverlaysIInv, Overlay!TapButton
<1>2. OverlaysGood(Overlay!CloseModal(w, {i}))
      /\ Overlay!Absent(Overlay!CloseModal(w, {i})) = Overlay!Absent(w)
      /\ Overlay!CloseModal(w, {i}).asked = w.asked
  BY <1>1, OverlaysCloseGood
<1>3. w' = Overlay!CloseModal(w, {i})
  BY DEF Overlay!TapButton
<1> QED
  BY <1>2, <1>3 DEF OverlaysIInv, OverlaysFree

\* A call begins: one modal now, and room for one more when it is answered.
LEMMA OverlaysSendKeeps ==
    ASSUME Overlay!OverlaysAssumption, OverlaysIInv,
           Overlay!Send \/ Overlay!SendBare \/ Overlay!SendFromMenu \/ Overlay!SendEmpty
    PROVE  OverlaysIInv'
<1>1. OverlaysGood(w) /\ OverlaysFree(w) \in Nat /\ w.asked \in Nat
  BY OverlaysFreeFinite DEF OverlaysIInv, OverlaysGood, OverlaysState
<1>2. Overlay!Room(1) => OverlaysFree(w) >= w.asked + 1
  BY OverlaysCardinality DEF Overlay!Room, OverlaysFree
<1>3. Overlay!Room(2) => OverlaysFree(w) >= w.asked + 2
  BY OverlaysCardinality DEF Overlay!Room, OverlaysFree
<1>4. ASSUME NEW s, OverlaysGood(s), s.asked = w.asked, OverlaysFree(s) >= w.asked + 1,
             w' = [s EXCEPT !.asked = @ + 1]
      PROVE  OverlaysIInv'
  <2>1. s.asked + 1 \in Nat
    BY <1>1, <1>4
  <2>2. OverlaysGood(w') /\ OverlaysFree(w') = OverlaysFree(s) /\ w'.asked = s.asked + 1
    BY <1>4, <2>1, OverlaysAskedGood
  <2> QED
    BY <1>4, <2>2 DEF OverlaysIInv
<1>5. CASE Overlay!SendBare
  BY <1>1, <1>2, <1>4, <1>5 DEF Overlay!SendBare
<1>6. CASE Overlay!Send
  <2>1. OverlaysFree(w) # 0 /\ OverlaysFree(w) - 1 >= w.asked + 1
    BY <1>1, <1>3, <1>6 DEF Overlay!Send
  <2>2. OverlaysGood(Overlay!ShowPreloader(w))
        /\ OverlaysFree(Overlay!ShowPreloader(w)) = OverlaysFree(w) - 1
        /\ Overlay!ShowPreloader(w).asked = w.asked
    BY <1>1, <2>1, OverlaysAlertGood
  <2> QED
    BY <1>4, <1>6, <2>1, <2>2 DEF Overlay!Send
<1>7. CASE Overlay!SendFromMenu
  <2>1. OverlaysFree(w) # 0 /\ OverlaysFree(w) - 1 >= w.asked + 1
    BY <1>1, <1>3, <1>7 DEF Overlay!SendFromMenu
  <2> DEFINE c == Overlay!CloseSheet(w, "popover")
             p == Overlay!ShowPreloader(w)
  <2>2. OverlaysGood(c) /\ OverlaysFree(c) = OverlaysFree(w) /\ c.asked = w.asked
    BY <1>1, OverlaysSheetGood DEF Overlay!Sheet
  <2>3. OverlaysGood(p) /\ OverlaysFree(p) = OverlaysFree(w) - 1 /\ p.asked = w.asked
    BY <1>1, <2>1, OverlaysAlertGood
  <2>4. w' = [Overlay!ShowPreloader(c) EXCEPT !.asked = @ + 1]
        \/ w' = [Overlay!CloseSheet(p, "popover") EXCEPT !.asked = @ + 1]
    BY <1>7 DEF Overlay!SendFromMenu
  <2> HIDE DEF c, p
  <2>5. OverlaysGood(Overlay!ShowPreloader(c))
        /\ OverlaysFree(Overlay!ShowPreloader(c)) = OverlaysFree(c) - 1
        /\ Overlay!ShowPreloader(c).asked = c.asked
    BY <2>1, <2>2, OverlaysAlertGood
  <2>6. OverlaysGood(Overlay!CloseSheet(p, "popover"))
        /\ OverlaysFree(Overlay!CloseSheet(p, "popover")) = OverlaysFree(p)
        /\ Overlay!CloseSheet(p, "popover").asked = p.asked
    BY <2>3, OverlaysSheetGood DEF Overlay!Sheet
  <2>7. CASE w' = [Overlay!ShowPreloader(c) EXCEPT !.asked = @ + 1]
    BY <1>4, <2>1, <2>2, <2>5, <2>7
  <2>8. CASE w' = [Overlay!CloseSheet(p, "popover") EXCEPT !.asked = @ + 1]
    BY <1>4, <2>1, <2>3, <2>6, <2>8
  <2> QED
    BY <2>4, <2>7, <2>8
<1>8. CASE Overlay!SendEmpty
  <2> DEFINE p == Overlay!ShowPreloader(w)
             h == Overlay!HidePreloader(p)
  <2>1. OverlaysFree(w) # 0 /\ OverlaysFree(w) - 1 # 0 /\ (OverlaysFree(w) - 1) - 1 >= w.asked
    BY <1>1, <1>3, <1>8 DEF Overlay!SendEmpty
  <2>2. OverlaysGood(p) /\ OverlaysFree(p) = OverlaysFree(w) - 1 /\ p.asked = w.asked
    BY <1>1, <2>1, OverlaysAlertGood
  <2>3. w' = Overlay!Alert(h)
    BY <1>8 DEF Overlay!SendEmpty
  <2> HIDE DEF p
  <2>4. OverlaysGood(h) /\ OverlaysFree(h) = OverlaysFree(p) /\ h.asked = p.asked
    BY <2>2, OverlaysHidePreloaderGood DEF OverlaysFree
  <2> HIDE DEF h
  <2>5. OverlaysGood(Overlay!Alert(h)) /\ OverlaysFree(Overlay!Alert(h)) = OverlaysFree(h) - 1
        /\ Overlay!Alert(h).asked = h.asked
    BY <2>1, <2>2, <2>4, OverlaysAlertGood
  <2> QED
    BY <2>1, <2>2, <2>3, <2>4, <2>5 DEF OverlaysIInv
<1> QED
  BY <1>5, <1>6, <1>7, <1>8

\* The ending of a call shows at most one alert, for which there was room.
LEMMA OverlaysEndGood ==
    ASSUME Overlay!OverlaysAssumption, NEW s, OverlaysGood(s), OverlaysFree(s) # 0,
           NEW e \in Overlay!Ending
    PROVE  /\ OverlaysGood(Overlay!End(s, e))
           /\ OverlaysFree(Overlay!End(s, e)) >= OverlaysFree(s) - 1
           /\ Overlay!End(s, e).asked = s.asked
<1> DEFINE h == Overlay!HidePreloader(s)
           a == Overlay!Alert(s)
<1>1. OverlaysGood(h) /\ OverlaysFree(h) = OverlaysFree(s) /\ h.asked = s.asked
  BY OverlaysHidePreloaderGood DEF OverlaysFree
<1>2. OverlaysGood(a) /\ OverlaysFree(a) = OverlaysFree(s) - 1 /\ a.asked = s.asked
  BY OverlaysAlertGood
<1>3. OverlaysFree(s) \in Nat
  BY OverlaysFreeFinite
<1>4. Overlay!End(s, e) = h \/ Overlay!End(s, e) = Overlay!Alert(h)
      \/ Overlay!End(s, e) = Overlay!HidePreloader(a)
  BY DEF Overlay!End, Overlay!Ending
<1> HIDE DEF h, a
<1>5. OverlaysGood(Overlay!Alert(h)) /\ OverlaysFree(Overlay!Alert(h)) = OverlaysFree(h) - 1
      /\ Overlay!Alert(h).asked = h.asked
  BY <1>1, OverlaysAlertGood
<1>6. OverlaysGood(Overlay!HidePreloader(a))
      /\ OverlaysFree(Overlay!HidePreloader(a)) = OverlaysFree(a)
      /\ Overlay!HidePreloader(a).asked = a.asked
  BY <1>2, OverlaysHidePreloaderGood DEF OverlaysFree
<1>7. CASE Overlay!End(s, e) = h
  BY <1>1, <1>3, <1>7
<1>8. CASE Overlay!End(s, e) = Overlay!Alert(h)
  BY <1>1, <1>3, <1>5, <1>8
<1>9. CASE Overlay!End(s, e) = Overlay!HidePreloader(a)
  BY <1>2, <1>3, <1>6, <1>9
<1> QED
  BY <1>4, <1>7, <1>8, <1>9

LEMMA OverlaysAnswerKeeps ==
    ASSUME Overlay!OverlaysAssumption, OverlaysIInv, Overlay!Answer
    PROVE  OverlaysIInv'
<1>1. OverlaysGood(w) /\ w.asked \in Nat /\ w.asked > 0 /\ OverlaysFree(w) >= w.asked
      /\ w.paper \in Papers
      /\ OverlaysFree(w) \in Nat /\ OverlaysFree(w) # 0
  BY OverlaysFreeFinite DEF OverlaysIInv, OverlaysGood, OverlaysState, Overlay!Answer
<1>2. PICK e \in w.paper.endings : w' = [Overlay!End(w, e) EXCEPT !.asked = @ - 1]
  BY DEF Overlay!Answer
<1>3. e \in Overlay!Ending
  BY <1>1, <1>2 DEF Overlay!OverlaysAssumption
<1> DEFINE t == Overlay!End(w, e)
<1>4. OverlaysGood(t) /\ OverlaysFree(t) >= OverlaysFree(w) - 1 /\ t.asked = w.asked
      /\ OverlaysFree(t) \in Nat
  BY <1>1, <1>3, OverlaysEndGood, OverlaysFreeFinite
<1>5. w' = [t EXCEPT !.asked = @ - 1]
  BY <1>2
<1> HIDE DEF t
<1>6. t.asked - 1 \in Nat /\ OverlaysFree(t) >= t.asked - 1
  BY <1>1, <1>4
<1>7. OverlaysGood(w') /\ OverlaysFree(w') = OverlaysFree(t) /\ w'.asked = t.asked - 1
  BY <1>4, <1>5, <1>6, OverlaysAskedGood
<1> QED
  BY <1>6, <1>7 DEF OverlaysIInv

\* A transition ends: an element is free again.
LEMMA OverlaysGoneKeeps ==
    ASSUME Overlay!OverlaysAssumption, OverlaysIInv, Overlay!Gone
    PROVE  OverlaysIInv'
<1>1. w \in OverlaysState /\ OverlaysOne(w) /\ OverlaysStacks(w, {}) /\ OverlaysGood(w)
      /\ w.asked \in Nat
      /\ OverlaysFree(w) \in Nat /\ OverlaysFree(w) >= w.asked
  BY OverlaysFreeFinite DEF OverlaysIInv, OverlaysGood, OverlaysState
<1>2. ASSUME NEW i \in Overlay!Id, Overlay!ModalGone(i) PROVE OverlaysIInv'
  <2>1. /\ w' \in OverlaysState /\ w'.class = [w.class EXCEPT ![i] = "none"]
        /\ w'.stack = w.stack /\ w'.asked = w.asked /\ w.class \in [Overlay!Id -> OverlaysClass]
    BY <1>1, <1>2 DEF Overlay!ModalGone, OverlaysState, OverlaysClass, OverlaysKind
  <2>2. w.class[i] = "out"
    BY <1>2 DEF Overlay!ModalGone
  <2>3. \A j \in Overlay!Id : w'.class[j] = IF j = i THEN "none" ELSE w.class[j]
    BY <2>1
  <2>4. OverlaysOne(w') /\ Overlay!In(w') = Overlay!In(w)
    BY <1>1, <2>2, <2>3 DEF OverlaysOne, Overlay!In
  <2>5. OverlaysStacks(w', {})
    <3>1. \A j \in Overlay!Id : w'.class[j] = "stacked" <=> w.class[j] = "stacked"
      BY <2>2, <2>3
    <3> QED
      BY <1>1, <2>1, <3>1 DEF OverlaysStacks
  <2>6. OverlaysGood(w')
    BY <1>1, <2>1, <2>4, <2>5 DEF OverlaysGood
  <2>7. Overlay!Absent(w') = Overlay!Absent(w) \cup {i} /\ i \notin Overlay!Absent(w)
    BY <2>2, <2>3 DEF Overlay!Absent
  <2>8. OverlaysFree(w') = OverlaysFree(w) + 1
    BY <2>7, OverlaysFreeFinite, FS_AddElement DEF OverlaysFree
  <2> QED
    BY <1>1, <2>1, <2>6, <2>8 DEF OverlaysIInv
<1>3. ASSUME NEW k \in Overlay!Sheet, Overlay!SheetGone(k) PROVE OverlaysIInv'
  <2>1. /\ w' \in OverlaysState /\ w'.class = w.class /\ w'.stack = w.stack /\ w'.asked = w.asked
    BY <1>1, <1>3 DEF Overlay!SheetGone, OverlaysState
  <2>2. OverlaysGood(w') /\ OverlaysFree(w') = OverlaysFree(w)
    BY <1>1, <2>1, OverlaysSameGood
  <2> QED
    BY <1>1, <2>1, <2>2 DEF OverlaysIInv
<1> QED
  BY <1>2, <1>3 DEF Overlay!Gone

LEMMA OverlaysStepIInv == Overlay!OverlaysAssumption /\ OverlaysIInv /\ [Overlay!Next]_w => OverlaysIInv'
<1> SUFFICES ASSUME Overlay!OverlaysAssumption, OverlaysIInv, [Overlay!Next]_w PROVE OverlaysIInv'
  OBVIOUS
<1>1. CASE (\E k \in Overlay!Sheet : Overlay!TapOpen(k) \/ Overlay!TapClose(k)) \/ Overlay!TapOverlay \/ Overlay!TapPopupOverlay
  BY <1>1, OverlaysSheetsKeep
<1>2. CASE \E closes, alerts \in BOOLEAN : Overlay!ActionsButton(closes, alerts)
  BY <1>2, OverlaysActionsKeep
<1>3. CASE \E i \in Overlay!Id : Overlay!TapButton(i)
  BY <1>3, OverlaysButtonKeeps
<1>4. CASE Overlay!Send \/ Overlay!SendBare \/ Overlay!SendFromMenu \/ Overlay!SendEmpty
  BY <1>4, OverlaysSendKeeps
<1>5. CASE Overlay!Answer
  BY <1>5, OverlaysAnswerKeeps
<1>6. CASE Overlay!Gone
  BY <1>6, OverlaysGoneKeeps
<1>7. CASE UNCHANGED w
  BY <1>7 DEF OverlaysIInv
<1> QED
  BY <1>1, <1>2, <1>3, <1>4, <1>5, <1>6, <1>7 DEF Overlay!Next

LEMMA OverlaysOneModalFollows == Overlay!OverlaysAssumption /\ OverlaysIInv => Overlay!OneModal
<1> SUFFICES ASSUME Overlay!OverlaysAssumption, OverlaysIInv PROVE Overlay!OneModal
  OBVIOUS
<1>1. OverlaysGood(w)
  BY DEF OverlaysIInv
<1>2. IsFiniteSet(Overlay!In(w))
  <2>1. IsFiniteSet(Overlay!Id)
    BY FS_Interval DEF Overlay!Id, Overlay!OverlaysAssumption
  <2>2. Overlay!In(w) \in SUBSET Overlay!Id
    BY DEF Overlay!In
  <2> QED
    BY <2>1, <2>2, FS_Subset
<1>3. Cardinality(Overlay!In(w)) <= 1
  <2>1. CASE Overlay!In(w) = {}
    BY <2>1, FS_EmptySet
  <2>2. CASE Overlay!In(w) # {}
    <3>1. PICK i : i \in Overlay!In(w)
      BY <2>2
    <3>2. Overlay!In(w) = {i}
      BY <1>1, <3>1 DEF Overlay!In, OverlaysGood, OverlaysOne
    <3>3. Cardinality(Overlay!In(w)) = 1
      BY <3>2, FS_Singleton
    <3> QED
      BY <3>3
  <2> QED
    BY <2>1, <2>2
<1>4. w.stack # <<>> => Overlay!In(w) # {}
  BY <1>1 DEF OverlaysGood
<1>5. {w.stack[n] : n \in DOMAIN w.stack} = {i \in Overlay!Id : w.class[i] = "stacked"}
  <2>1. w.stack \in Seq(Overlay!Id)
    BY <1>1 DEF OverlaysGood, OverlaysState
  <2>2. \A n \in DOMAIN w.stack : w.stack[n] \in Overlay!Id
    BY <2>1, LenProperties
  <2>3. \A i \in Overlay!Id : (\E n \in DOMAIN w.stack : w.stack[n] = i) <=> w.class[i] = "stacked"
    BY <1>1 DEF OverlaysGood, OverlaysStacks
  <2> QED
    BY <2>2, <2>3
<1>6. \A m, n \in DOMAIN w.stack : w.stack[m] = w.stack[n] => m = n
  BY <1>1 DEF OverlaysGood, OverlaysStacks
<1> QED
  BY <1>3, <1>4, <1>5, <1>6, OverlaysCardinality DEF Overlay!OneModal

-----------------------------------------------------------------------------
(* Startup: the lists of cordova/channel and the timers that were asked for. *)
LEMMA StartCardinality == \A S : Start!Cardinality(S) = Cardinality(S)
  BY DEF Start!Cardinality, Cardinality

StartTimer == {"load", "deviceready", "backbutton"}

\* The lists a page waits with, and the channels that have fired.
StartState ==
    [fired : SUBSET Start!Sticky,
     handlers : [Start!Channel -> SUBSET (Handler \cup Start!Own)],
     count : [{"init", "ready"} -> Int], timers : Seq(StartTimer),
     listed : SUBSET Plugin, scripts : SUBSET (Plugin \cup {"list"}),
     defined : SUBSET (Plugin \cup {"list"}),
     mapped : SUBSET Plugin, broken : BOOLEAN, loaded : BOOLEAN, open : BOOLEAN, readied : Nat,
     override : BOOLEAN, pressed : 0 .. 2, left : BOOLEAN]

StartQueued(p, x) == \E n \in DOMAIN p.timers : p.timers[n] = x

\* The plugins are still to come: "init" waits for them.
StartBefore(p) ==
    /\ p.fired \subseteq {"native", "dom"} /\ "native" \in p.fired
    /\ p.handlers["plugins"] = {"init"} /\ p.count["init"] = 1
    /\ p.handlers["cordova"] = {"show"} /\ p.handlers["dom"] = {}
    /\ p.readied = 0 /\ ~StartQueued(p, "deviceready")

StartPlugged(p) ==
    /\ {"native", "plugins", "cordova"} \subseteq p.fired
    /\ p.open /\ p.mapped = p.listed /\ p.scripts = {} /\ ~StartQueued(p, "load")

\* Only the document is still to come: "ready" waits for it.
StartParsing(p) ==
    /\ StartPlugged(p) /\ "dom" \notin p.fired
    /\ p.handlers["dom"] = {"ready"} /\ p.count["ready"] = 1
    /\ p.readied = 0 /\ ~StartQueued(p, "deviceready") /\ "deviceready" \notin p.fired

StartReady(p) == StartPlugged(p) /\ "dom" \in p.fired /\ p.handlers["dom"] = {}

\* The document's handler waits for "deviceready" or has been called.
StartOnce(p) ==
    /\ p.handlers["deviceready"] \subseteq {"onDeviceReady"}
    /\ p.handlers["deviceready"] # {} => p.loaded /\ p.readied = 0
    /\ p.readied <= 1 /\ (p.readied = 1 => p.loaded)

\* The native side knows whether the page has a handler for the back key.
StartBackKey(p) ==
    /\ p.handlers["backbutton"] \subseteq Handler /\ IsFiniteSet(p.handlers["backbutton"])
    /\ p.override <=> p.handlers["backbutton"] # {}

StartGood(p) ==
    /\ p \in StartState /\ StartOnce(p) /\ StartBackKey(p)
    /\ StartBefore(p) \/ StartParsing(p) \/ StartReady(p)

\* The loader is started once, by a timer that is the first in its queue.
StartLoads(p) ==
    /\ p.scripts # {} => ~StartQueued(p, "load")
    /\ \A n \in DOMAIN p.timers : p.timers[n] = "load" => n = 1

StartIInv == StartGood(w) /\ StartLoads(w)

\* What the handler of the back key and the message for it leave alone.
StartSame(p, q) ==
    /\ q.fired = p.fired /\ q.count = p.count /\ q.timers = p.timers
    /\ \A c \in Start!Channel \ {"backbutton"} : q.handlers[c] = p.handlers[c]
    /\ q.open = p.open /\ q.mapped = p.mapped /\ q.listed = p.listed
    /\ q.scripts = p.scripts /\ q.readied = p.readied /\ q.loaded = p.loaded

-----------------------------------------------------------------------------
\* A timer that is appended comes after the ones that wait.
LEMMA StartAppend ==
    ASSUME NEW p \in StartState, NEW x \in StartTimer,
           NEW q, q.timers = Append(p.timers, x)
    PROVE  /\ q.timers \in Seq(StartTimer)
           /\ \A y : StartQueued(q, y) <=> StartQueued(p, y) \/ y = x
           /\ x # "load" => \A n \in DOMAIN q.timers : q.timers[n] = "load" => p.timers[n] = "load" /\ n \in DOMAIN p.timers
<1>1. p.timers \in Seq(StartTimer)
  BY DEF StartState
<1>2. /\ Len(p.timers) \in Nat /\ DOMAIN p.timers = 1 .. Len(p.timers)
      /\ q.timers \in Seq(StartTimer)
      /\ DOMAIN q.timers = 1 .. Len(p.timers) + 1 /\ q.timers[Len(p.timers) + 1] = x
      /\ \A n \in 1 .. Len(p.timers) : q.timers[n] = p.timers[n]
  BY <1>1, AppendProperties, LenProperties
<1>3. \A n \in DOMAIN q.timers : n \in DOMAIN p.timers \/ n = Len(p.timers) + 1
  BY <1>2
<1>4. Len(p.timers) + 1 \in DOMAIN q.timers /\ \A n \in DOMAIN p.timers : n \in DOMAIN q.timers
  BY <1>2
<1>5. ASSUME NEW y PROVE StartQueued(q, y) <=> StartQueued(p, y) \/ y = x
  <2>1. ASSUME StartQueued(q, y) PROVE StartQueued(p, y) \/ y = x
    BY <1>2, <1>3, <2>1 DEF StartQueued
  <2>2. ASSUME StartQueued(p, y) PROVE StartQueued(q, y)
    BY <1>2, <1>4, <2>2 DEF StartQueued
  <2>3. StartQueued(q, x)
    BY <1>2, <1>4 DEF StartQueued
  <2> QED
    BY <2>1, <2>2, <2>3
<1>6. ASSUME x # "load", NEW n \in DOMAIN q.timers, q.timers[n] = "load"
      PROVE  p.timers[n] = "load" /\ n \in DOMAIN p.timers
  BY <1>2, <1>3, <1>6
<1> QED
  BY <1>2, <1>5, <1>6

\* The first timer is taken, the others keep their order.
LEMMA StartTake ==
    ASSUME NEW p \in StartState, p.timers # <<>>, NEW q, q.timers = Tail(p.timers)
    PROVE  /\ q.timers \in Seq(StartTimer)
           /\ Head(p.timers) \in StartTimer /\ StartQueued(p, Head(p.timers))
           /\ Head(p.timers) = p.timers[1] /\ 1 \in DOMAIN p.timers
           /\ \A y : StartQueued(q, y) => StartQueued(p, y)
           /\ \A n \in DOMAIN q.timers : n + 1 \in DOMAIN p.timers /\ q.timers[n] = p.timers[n + 1] /\ n + 1 # 1
<1>1. p.timers \in Seq(StartTimer)
  BY DEF StartState
<1>2. /\ Len(p.timers) \in Nat /\ Len(p.timers) # 0 /\ DOMAIN p.timers = 1 .. Len(p.timers)
      /\ Head(p.timers) = p.timers[1] /\ Head(p.timers) \in StartTimer
      /\ q.timers \in Seq(StartTimer) /\ Len(q.timers) = Len(p.timers) - 1
      /\ DOMAIN q.timers = 1 .. Len(q.timers)
      /\ \A n \in 1 .. Len(q.timers) : q.timers[n] = p.timers[n + 1]
  BY <1>1, HeadTailProperties, LenProperties, EmptySeq
<1>3. \A n \in DOMAIN q.timers : n + 1 \in DOMAIN p.timers /\ q.timers[n] = p.timers[n + 1] /\ n + 1 # 1
  BY <1>2
<1>4. 1 \in DOMAIN p.timers
  BY <1>2
<1>5. \A y : StartQueued(q, y) => StartQueued(p, y)
  BY <1>3 DEF StartQueued
<1> QED
  BY <1>2, <1>3, <1>4, <1>5 DEF StartQueued

\* "dom" before the plugins are there, and after: "ready" waited for it.
LEMMA StartDom ==
    ASSUME NEW p, StartGood(p), StartLoads(p), "dom" \notin p.fired
    PROVE  StartGood(Start!Fire(p, "dom")) /\ StartLoads(Start!Fire(p, "dom"))
<1>1. p \in StartState /\ "dom" \in Start!Channel /\ "dom" \in Start!Sticky /\ ~StartReady(p)
  BY DEF StartGood, StartReady, Start!Channel, Start!Sticky
<1>2. CASE StartBefore(p)
  <2> DEFINE q == [p EXCEPT !.fired = @ \cup {"dom"}, !.handlers["dom"] = {}]
  <2>1. Start!Fire(p, "dom") = q
    <3>1. {} \cap Handler = {} /\ {} \cap Start!Own = {} /\ p.handlers["dom"] = {}
      BY <1>2 DEF StartBefore
    <3>2. Start!Each([p EXCEPT !.fired = @ \cup {"dom"}], p.handlers["dom"], Start!Run)
             = [p EXCEPT !.fired = @ \cup {"dom"}]
      BY <3>1 DEF Start!Each
    <3>3. {"dom"} \cap Start!Sticky = {"dom"}
      BY <1>1
    <3> QED
      BY <1>1, <3>2, <3>3 DEF Start!Fire, Start!Firing, StartState
  <2>2. /\ q.fired = p.fired \cup {"dom"} /\ q.handlers = [p.handlers EXCEPT !["dom"] = {}]
        /\ q.count = p.count /\ q.timers = p.timers /\ q.scripts = p.scripts
        /\ q.readied = p.readied /\ q.loaded = p.loaded /\ q.override = p.override
        /\ q \in StartState
    BY <1>1 DEF StartState
  <2> HIDE DEF q
  <2>3. StartBefore(q)
    BY <1>1, <1>2, <2>2 DEF StartBefore, StartQueued, Start!Channel, StartState
  <2>4. StartOnce(q) /\ StartBackKey(q) /\ StartLoads(q)
    BY <1>1, <2>2 DEF StartState, StartGood, StartOnce, StartBackKey, StartLoads, StartQueued,
       Start!Channel
  <2> QED
    BY <2>1, <2>2, <2>3, <2>4 DEF StartGood
<1>3. CASE StartParsing(p)
  <2> DEFINE q == [p EXCEPT !.fired = @ \cup {"dom"}, !.handlers["dom"] = {}, !.count["ready"] = 0,
                            !.timers = Append(@, "deviceready")]
  <2>1. Start!Fire(p, "dom") = q
    <3> HIDE DEF q
    <3> DEFINE r == [p EXCEPT !.fired = @ \cup {"dom"}]
    <3>1. r \in StartState /\ r.handlers = p.handlers /\ r.count = p.count
      BY <1>1 DEF StartState
    <3>2. /\ {"ready"} \cap Handler = {} /\ {"ready"} \cap Start!Own # {}
          /\ (CHOOSE f \in {"ready"} \cap Start!Own : TRUE) = "ready"
      BY DocumentPartsAssumption DEF Start!StartupAssumption, Start!Own
    <3>3. Start!Each(r, p.handlers["dom"], Start!Run) = Start!Run(r, "ready")
      BY <1>3, <3>2 DEF Start!Each, StartParsing
    <3>4. Start!Run(r, "ready") = [r EXCEPT !.count["ready"] = 0, !.timers = Append(@, "deviceready")]
      <4> DEFINE t == Start!Countdown(r, "ready")
      <4>0. r.count["ready"] - 1 = 0
        BY <1>3, <3>1 DEF StartParsing
      <4>1. t = [r EXCEPT !.count["ready"] = 0] /\ t.count["ready"] = 0
        BY <3>1, <4>0 DEF Start!Countdown, StartState
      <4>2. Start!Run(r, "ready") = [t EXCEPT !.timers = Append(@, "deviceready")]
        BY <4>1 DEF Start!Run, Start!Call
      <4> QED
        BY <3>1, <4>1, <4>2 DEF StartState
    <3>5. Start!Fire(p, "dom") = [Start!Run(r, "ready") EXCEPT !.handlers["dom"] = {}]
      BY <1>1, <3>3 DEF Start!Fire, Start!Firing
    <3> DEFINE C == [p.count EXCEPT !["ready"] = 0]
               H == [p.handlers EXCEPT !["dom"] = {}]
               T == Append(p.timers, "deviceready")
               t == [r EXCEPT !.count = C, !.timers = T]
    <3>6. Start!Run(r, "ready") = t
      BY <1>1, <3>1, <3>4 DEF StartState
    <3>7. q = [p EXCEPT !.fired = @ \cup {"dom"}, !.handlers = H, !.count = C, !.timers = T]
      BY <1>1 DEF StartState, q
    <3> HIDE DEF C, H, T
    <3>8. t.handlers = p.handlers
      BY <1>1 DEF StartState
    <3>9. [t EXCEPT !.handlers["dom"] = {}] = [t EXCEPT !.handlers = H]
      BY <3>8 DEF H
    <3>10. [t EXCEPT !.handlers = H]
              = [p EXCEPT !.fired = @ \cup {"dom"}, !.handlers = H, !.count = C, !.timers = T]
      BY <1>1 DEF StartState
    <3> HIDE DEF t
    <3> QED
      BY <3>5, <3>6, <3>7, <3>9, <3>10
  <2>2. /\ q.fired = p.fired \cup {"dom"} /\ q.handlers = [p.handlers EXCEPT !["dom"] = {}]
        /\ q.timers = Append(p.timers, "deviceready")
        /\ q.open = p.open /\ q.mapped = p.mapped /\ q.listed = p.listed /\ q.scripts = p.scripts
        /\ q.readied = p.readied /\ q.loaded = p.loaded /\ q.override = p.override
    BY <1>1 DEF StartState
  <2> HIDE DEF q
  <2>3. q.timers \in Seq(StartTimer) /\ "deviceready" \in StartTimer
    BY <1>1, <2>2, StartAppend DEF StartTimer
  <2>4. q \in StartState
    <3>1. p.fired \cup {"dom"} \in SUBSET Start!Sticky
      BY <1>1 DEF StartState
    <3>2. [p.handlers EXCEPT !["dom"] = {}] \in [Start!Channel -> SUBSET (Handler \cup Start!Own)]
      BY <1>1 DEF StartState
    <3>3. [p.count EXCEPT !["ready"] = 0] \in [{"init", "ready"} -> Int]
      BY <1>1 DEF StartState
    <3>4. Append(p.timers, "deviceready") \in Seq(StartTimer)
      BY <2>2, <2>3
    <3> QED
      BY <1>1, <3>1, <3>2, <3>3, <3>4 DEF StartState, q
  <2>5. /\ \A y : StartQueued(q, y) <=> StartQueued(p, y) \/ y = "deviceready"
        /\ \A n \in DOMAIN q.timers : q.timers[n] = "load" => p.timers[n] = "load" /\ n \in DOMAIN p.timers
    BY <1>1, <2>2, <2>3, StartAppend
  <2>6. StartReady(q) /\ StartLoads(q)
    BY <1>1, <1>3, <2>2, <2>5 DEF StartParsing, StartPlugged, StartReady, StartState, StartLoads
  <2>7. StartOnce(q) /\ StartBackKey(q)
    BY <1>1, <2>2 DEF StartState, StartGood, StartOnce, StartBackKey, Start!Channel
  <2> QED
    BY <2>1, <2>4, <2>6, <2>7 DEF StartGood
<1> QED
  BY <1>1, <1>2, <1>3 DEF StartGood

\* The last plugin is there: "init" runs, which fires "cordova" and joins it
\* with "dom" for "ready".
LEMMA StartJoinsReady ==
    ASSUME NEW p \in StartState, "cordova" \in p.fired, p.handlers["dom"] = {}
    PROVE  LET q == Start!Joining(p, "ready", Start!Call)
           IN  /\ q \in StartState /\ q.fired = p.fired
               /\ \A c \in Start!Channel \ {"dom"} : q.handlers[c] = p.handlers[c]
               /\ q.open = p.open /\ q.mapped = p.mapped /\ q.listed = p.listed
               /\ q.scripts = p.scripts /\ q.readied = p.readied
               /\ q.loaded = p.loaded /\ q.override = p.override
               /\ "dom" \in p.fired => q.timers = Append(p.timers, "deviceready") /\ q.handlers["dom"] = {}
               /\ "dom" \notin p.fired => /\ q.timers = p.timers /\ q.handlers["dom"] = {"ready"}
                                          /\ q.count["ready"] = 1
<1> DEFINE a == [p EXCEPT !.count["ready"] = 2]
           b == [p EXCEPT !.count["ready"] = 1]
<1>1. a \in StartState /\ b \in StartState /\ a.count["ready"] = 2 /\ b.count["ready"] = 1
  <2>1. ASSUME NEW i \in Int
        PROVE  /\ [p EXCEPT !.count["ready"] = i] \in StartState
               /\ [p EXCEPT !.count["ready"] = i].count["ready"] = i
    <3>1. [p.count EXCEPT !["ready"] = i] \in [{"init", "ready"} -> Int]
      BY DEF StartState
    <3>2. [p EXCEPT !.count["ready"] = i].count = [p.count EXCEPT !["ready"] = i]
      BY DEF StartState
    <3>3. [p.count EXCEPT !["ready"] = i]["ready"] = i
      BY DEF StartState
    <3>4. [p EXCEPT !.count["ready"] = i] \in StartState
      BY <3>1 DEF StartState
    <3> QED
      BY <3>2, <3>3, <3>4
  <2> QED
    BY <2>1
<1>2. /\ b.fired = p.fired /\ b.handlers = p.handlers /\ b.open = p.open /\ b.mapped = p.mapped
      /\ b.listed = p.listed /\ b.scripts = p.scripts /\ b.readied = p.readied
      /\ b.loaded = p.loaded /\ b.override = p.override /\ b.timers = p.timers
      /\ a.fired = p.fired
  BY DEF StartState
<1>3. Start!Call(a, "ready") = b
  <2>1. Start!Countdown(a, "ready") = b
    <3>1. a.count["ready"] - 1 = 1
      BY <1>1
    <3>2. Start!Countdown(a, "ready") = [a EXCEPT !.count["ready"] = 1]
      BY <3>1 DEF Start!Countdown
    <3> QED
      BY <3>2 DEF StartState
  <2> HIDE DEF a, b
  <2> QED
    BY <1>1, <2>1 DEF Start!Call
<1>4. Start!Joining(p, "ready", Start!Call) = Start!Subscribing(b, "dom", "ready", Start!Call)
  <2>1. Start!Joined["ready"][1] = "cordova" /\ Start!Joined["ready"][2] = "dom"
        /\ Len(Start!Joined["ready"]) = 2
    BY DEF Start!Joined
  <2>2. Start!Subscribing(a, "cordova", "ready", Start!Call) = b
    BY <1>2, <1>3 DEF Start!Subscribing
  <2> QED
    BY <2>1, <2>2 DEF Start!Joining
<1> HIDE DEF a
<1>5. CASE "dom" \in p.fired
  <2> DEFINE q == [b EXCEPT !.count["ready"] = 0, !.timers = Append(@, "deviceready")]
  <2>1. Start!Joining(p, "ready", Start!Call) = q
    <3>1. b.count["ready"] - 1 = 0
      BY <1>1
    <3>2. Start!Countdown(b, "ready") = [b EXCEPT !.count["ready"] = 0]
      BY <3>1 DEF Start!Countdown
    <3>3. [b EXCEPT !.count["ready"] = 0].count["ready"] = 0
      BY <1>1 DEF StartState
    <3>4. Start!Call(b, "ready") = [[b EXCEPT !.count["ready"] = 0] EXCEPT !.timers = Append(@, "deviceready")]
      BY <3>2, <3>3 DEF Start!Call
    <3> HIDE DEF b
    <3>5. Start!Call(b, "ready") = q
      BY <1>1, <3>4 DEF StartState
    <3> QED
      BY <1>2, <1>4, <1>5, <3>5 DEF Start!Subscribing
  <2> HIDE DEF b
  <2>2. /\ q.fired = b.fired /\ q.handlers = b.handlers /\ q.open = b.open /\ q.mapped = b.mapped
        /\ q.listed = b.listed /\ q.scripts = b.scripts /\ q.readied = b.readied
        /\ q.loaded = b.loaded /\ q.override = b.override
        /\ q.timers = Append(b.timers, "deviceready")
    BY <1>1 DEF StartState
  <2>3. q \in StartState
    <3>1. [b.count EXCEPT !["ready"] = 0] \in [{"init", "ready"} -> Int]
      BY <1>1 DEF StartState
    <3>2. Append(b.timers, "deviceready") \in Seq(StartTimer)
      BY <1>1, AppendProperties DEF StartState, StartTimer
    <3> QED
      BY <1>1, <3>1, <3>2 DEF StartState
  <2> HIDE DEF q
  <2> QED
    BY <1>2, <1>5, <2>1, <2>2, <2>3
<1>6. CASE "dom" \notin p.fired
  <2> HIDE DEF b
  <2> DEFINE q == [b EXCEPT !.handlers["dom"] = {"ready"}]
  <2>1. /\ q.fired = b.fired /\ q.handlers = [b.handlers EXCEPT !["dom"] = {"ready"}]
        /\ q.open = b.open
        /\ q.mapped = b.mapped /\ q.count = b.count
        /\ q.listed = b.listed /\ q.scripts = b.scripts /\ q.readied = b.readied
        /\ q.loaded = b.loaded /\ q.override = b.override /\ q.timers = b.timers
    BY <1>1 DEF StartState
  <2>2. q \in StartState
    <3>1. [b.handlers EXCEPT !["dom"] = {"ready"}] \in [Start!Channel -> SUBSET (Handler \cup Start!Own)]
      BY <1>1 DEF StartState, Start!Own
    <3> QED
      BY <1>1, <3>1 DEF StartState
  <2>3. q.handlers["dom"] = {"ready"} /\ \A c \in Start!Channel \ {"dom"} : q.handlers[c] = b.handlers[c]
    BY <1>1, <2>1 DEF StartState, Start!Channel
  <2>4. Start!Hold(b, "dom", "ready") = q
    <3>1. "ready" \notin b.handlers["dom"] /\ b.handlers["dom"] \cup {"ready"} = {"ready"}
      BY <1>2
    <3>2. [b EXCEPT !.handlers["dom"] = @ \cup {"ready"}] = q
      BY <3>1
    <3> HIDE DEF q
    <3> QED
      BY <3>1, <3>2 DEF Start!Hold, Start!OnHasSubscribersChange
  <2> HIDE DEF q
  <2>5. Start!Joining(p, "ready", Start!Call) = q
    BY <1>2, <1>4, <1>6, <2>4 DEF Start!Subscribing
  <2> QED
    <3>1. /\ q \in StartState /\ q.fired = p.fired
          /\ \A c \in Start!Channel \ {"dom"} : q.handlers[c] = p.handlers[c]
          /\ q.open = p.open /\ q.mapped = p.mapped /\ q.listed = p.listed
          /\ q.scripts = p.scripts /\ q.readied = p.readied
          /\ q.loaded = p.loaded /\ q.override = p.override
      BY <1>2, <2>1, <2>2, <2>3
    <3>2. q.timers = p.timers /\ q.handlers["dom"] = {"ready"} /\ q.count["ready"] = 1
      BY <1>1, <1>2, <2>1, <2>3
    <3> QED
      BY <1>6, <2>5, <3>1, <3>2
<1> QED
  BY <1>5, <1>6

LEMMA StartPlugins ==
    ASSUME NEW p, StartGood(p), StartLoads(p), "plugins" \notin p.fired,
           p.scripts = {}, ~StartQueued(p, "load")
    PROVE  StartGood(Start!Fire(p, "plugins")) /\ StartLoads(Start!Fire(p, "plugins"))
<1>1. p \in StartState /\ StartBefore(p)
  BY DEF StartGood, StartReady, StartParsing, StartPlugged
<1> DEFINE m == [p EXCEPT !.fired = @ \cup {"plugins"}, !.count["init"] = 0, !.mapped = p.listed]
           f == [m EXCEPT !.fired = @ \cup {"cordova"}, !.open = TRUE, !.handlers["cordova"] = {}]
           j == Start!Joining(f, "ready", Start!Call)
           q == [j EXCEPT !.handlers["plugins"] = {}]
<1>2. /\ m.fired = p.fired \cup {"plugins"} /\ m.handlers = p.handlers /\ m.mapped = p.listed
      /\ m.listed = p.listed /\ m.scripts = p.scripts /\ m.readied = p.readied
      /\ m.loaded = p.loaded /\ m.override = p.override /\ m.timers = p.timers
      /\ m \in StartState
  <2>1. p.fired \cup {"plugins"} \in SUBSET Start!Sticky
    BY <1>1 DEF StartState, Start!Sticky, Start!Channel
  <2>2. [p.count EXCEPT !["init"] = 0] \in [{"init", "ready"} -> Int]
    BY <1>1 DEF StartState
  <2> QED
    BY <1>1, <2>1, <2>2 DEF StartState
<1>3. Start!Firing(m, "cordova", Start!Call) = f
  <2> HIDE DEF m
  <2> DEFINE r == [m EXCEPT !.fired = @ \cup {"cordova"}]
  <2>1. /\ {"show"} \cap Handler = {} /\ {"show"} \cap Start!Own # {}
        /\ (CHOOSE x \in {"show"} \cap Start!Own : TRUE) = "show"
    BY DocumentPartsAssumption DEF Start!StartupAssumption, Start!Own
  <2>2. m.handlers["cordova"] = {"show"} /\ {"cordova"} \cap Start!Sticky = {"cordova"}
    BY <1>1, <1>2 DEF StartBefore, Start!Sticky, Start!Channel
  <2>3. Start!Each(r, {"show"}, Start!Call) = [r EXCEPT !.open = TRUE]
    BY <2>1 DEF Start!Each, Start!Call
  <2>4. Start!Firing(m, "cordova", Start!Call) = [[r EXCEPT !.open = TRUE] EXCEPT !.handlers["cordova"] = {}]
    BY <2>2, <2>3 DEF Start!Firing, Start!Sticky, Start!Channel
  <2> QED
    BY <1>2, <2>4 DEF StartState
<1>4. Start!Fire(p, "plugins") = q
  <2> HIDE DEF f
  <2> DEFINE r == [p EXCEPT !.fired = @ \cup {"plugins"}]
  <2>1. /\ {"init"} \cap Handler = {} /\ {"init"} \cap Start!Own # {}
        /\ (CHOOSE x \in {"init"} \cap Start!Own : TRUE) = "init"
    BY DocumentPartsAssumption DEF Start!StartupAssumption, Start!Own
  <2>2. p.handlers["plugins"] = {"init"} /\ {"plugins"} \cap Start!Sticky = {"plugins"}
    BY <1>1 DEF StartBefore, Start!Sticky, Start!Channel
  <2>3. r.count = p.count /\ r.count["init"] - 1 = 0
    BY <1>1 DEF StartState, StartBefore
  <2>4. Start!Countdown(r, "init") = [r EXCEPT !.count["init"] = 0]
    BY <2>3 DEF Start!Countdown
  <2>5. [r EXCEPT !.count["init"] = 0].count["init"] = 0
    BY <1>1 DEF StartState
  <2>6. Start!MapModules(Start!Countdown(r, "init")) = m
    BY <1>1, <2>4 DEF StartState, Start!MapModules
  <2> HIDE DEF m, r
  <2>7. Start!RunInit(r) = j
    BY <1>3, <2>4, <2>5, <2>6 DEF Start!RunInit
  <2>8. Start!Each(r, {"init"}, Start!Run) = j
    BY <2>1, <2>7 DEF Start!Each, Start!Run
  <2> QED
    BY <2>2, <2>8 DEF Start!Fire, Start!Firing, Start!Sticky, Start!Channel, r
<1>5. /\ f.fired = m.fired \cup {"cordova"} /\ f.handlers = [m.handlers EXCEPT !["cordova"] = {}]
      /\ f.mapped = m.mapped /\ f.listed = m.listed /\ f.scripts = m.scripts
      /\ f.readied = m.readied /\ f.loaded = m.loaded /\ f.override = m.override
      /\ f.timers = m.timers /\ f.open = TRUE /\ f \in StartState
  <2> HIDE DEF m
  <2>1. m.fired \cup {"cordova"} \in SUBSET Start!Sticky
    BY <1>2 DEF StartState, Start!Sticky, Start!Channel
  <2>2. [m.handlers EXCEPT !["cordova"] = {}] \in [Start!Channel -> SUBSET (Handler \cup Start!Own)]
    BY <1>2 DEF StartState
  <2> QED
    BY <1>2, <2>1, <2>2 DEF StartState
<1> HIDE DEF m, f
<1>6. /\ f.handlers["dom"] = {} /\ "cordova" \in f.fired
      /\ f.handlers["deviceready"] = p.handlers["deviceready"]
      /\ f.handlers["backbutton"] = p.handlers["backbutton"]
  BY <1>1, <1>2, <1>5 DEF StartState, StartBefore, Start!Channel
<1>7. /\ j \in StartState /\ j.fired = f.fired
      /\ \A c \in Start!Channel \ {"dom"} : j.handlers[c] = f.handlers[c]
      /\ j.open = f.open /\ j.mapped = f.mapped /\ j.listed = f.listed
      /\ j.scripts = f.scripts /\ j.readied = f.readied
      /\ j.loaded = f.loaded /\ j.override = f.override
      /\ "dom" \in f.fired => j.timers = Append(f.timers, "deviceready") /\ j.handlers["dom"] = {}
      /\ "dom" \notin f.fired => /\ j.timers = f.timers /\ j.handlers["dom"] = {"ready"}
                                 /\ j.count["ready"] = 1
  BY <1>5, <1>6, StartJoinsReady
<1> HIDE DEF j
<1>8. /\ q \in StartState /\ q.fired = j.fired /\ q.handlers = [j.handlers EXCEPT !["plugins"] = {}]
      /\ q.open = j.open /\ q.mapped = j.mapped /\ q.listed = j.listed /\ q.count = j.count
      /\ q.scripts = j.scripts /\ q.readied = j.readied /\ q.timers = j.timers
      /\ q.loaded = j.loaded /\ q.override = j.override
  BY <1>7 DEF StartState
<1> HIDE DEF q
<1>9. /\ q.handlers["dom"] = j.handlers["dom"]
      /\ q.handlers["deviceready"] = p.handlers["deviceready"]
      /\ q.handlers["backbutton"] = p.handlers["backbutton"]
  BY <1>6, <1>7, <1>8 DEF StartState, Start!Channel
<1>10. /\ q.fired = p.fired \cup {"plugins", "cordova"} /\ q.open /\ q.mapped = q.listed
       /\ q.scripts = {}
       /\ q.readied = p.readied /\ q.loaded = p.loaded /\ q.override = p.override
  BY <1>2, <1>5, <1>7, <1>8
<1>11. StartOnce(q) /\ StartBackKey(q)
  BY <1>9, <1>10 DEF StartGood, StartOnce, StartBackKey
<1>12. CASE "dom" \in p.fired
  <2>1. q.timers = Append(p.timers, "deviceready") /\ "deviceready" \in StartTimer
    BY <1>2, <1>5, <1>7, <1>8, <1>12 DEF StartTimer
  <2>2. /\ \A y : StartQueued(q, y) <=> StartQueued(p, y) \/ y = "deviceready"
        /\ \A n \in DOMAIN q.timers : q.timers[n] = "load" => p.timers[n] = "load" /\ n \in DOMAIN p.timers
    BY <1>1, <2>1, StartAppend
  <2>3. StartReady(q)
    BY <1>1, <1>2, <1>5, <1>7, <1>9, <1>10, <1>12, <2>2 DEF StartReady, StartPlugged, StartBefore
  <2>4. StartLoads(q)
    BY <1>10, <2>2 DEF StartLoads
  <2> QED
    BY <1>4, <1>8, <1>11, <2>3, <2>4 DEF StartGood
<1>13. CASE "dom" \notin p.fired
  <2>1. q.timers = p.timers /\ q.handlers["dom"] = {"ready"} /\ q.count["ready"] = 1
    BY <1>2, <1>5, <1>7, <1>8, <1>9, <1>13
  <2>2. StartParsing(q)
    BY <1>1, <1>10, <1>13, <2>1 DEF StartParsing, StartPlugged, StartBefore, StartQueued
  <2>3. StartLoads(q)
    BY <1>10, <2>1 DEF StartLoads, StartQueued
  <2> QED
    BY <1>4, <1>8, <1>11, <2>2, <2>3 DEF StartGood
<1> QED
  BY <1>12, <1>13

LEMMA StartTimersState ==
    ASSUME NEW p \in StartState, NEW x \in Seq(StartTimer)
    PROVE  [p EXCEPT !.timers = x] \in StartState
  BY DEF StartState

LEMMA StartPressedState ==
    ASSUME NEW p \in StartState, NEW n \in 0 .. 2
    PROVE  LET q == [p EXCEPT !.pressed = n]
           IN  /\ q \in StartState /\ StartSame(p, q) /\ q.handlers = p.handlers
               /\ q.override = p.override
  BY DEF StartState, StartSame

LEMMA StartFrame ==
    ASSUME NEW p, StartGood(p), StartLoads(p), NEW q \in StartState, StartSame(p, q),
           StartBackKey(q)
    PROVE  StartGood(q) /\ StartLoads(q)
<1>1. /\ q.handlers["dom"] = p.handlers["dom"] /\ q.handlers["plugins"] = p.handlers["plugins"]
      /\ q.handlers["cordova"] = p.handlers["cordova"]
      /\ q.handlers["deviceready"] = p.handlers["deviceready"]
  BY DEF StartSame, Start!Channel
<1>2. StartLoads(q) /\ \A x : StartQueued(q, x) <=> StartQueued(p, x)
  BY DEF StartLoads, StartSame, StartQueued
<1>3. StartOnce(q)
  BY <1>1 DEF StartGood, StartOnce, StartSame
<1>4. StartBefore(p) => StartBefore(q)
  BY <1>1, <1>2 DEF StartBefore, StartSame
<1>5. StartPlugged(p) => StartPlugged(q)
  BY <1>2 DEF StartPlugged, StartSame
<1>6. (StartParsing(p) => StartParsing(q)) /\ (StartReady(p) => StartReady(q))
  BY <1>1, <1>2, <1>5 DEF StartParsing, StartReady, StartSame
<1> QED
  BY <1>2, <1>3, <1>4, <1>6 DEF StartGood

\* A handler for the back key: the first one tells the native side.
LEMMA StartHold ==
    ASSUME NEW p \in StartState, StartBackKey(p), NEW h \in Handler
    PROVE  LET q == Start!Hold(p, "backbutton", h)
           IN  q \in StartState /\ StartSame(p, q) /\ StartBackKey(q)
<1>1. p.handlers \in [Start!Channel -> SUBSET (Handler \cup Start!Own)]
      /\ "backbutton" \in Start!Channel
  BY DEF StartState, Start!Channel
<1> DEFINE H == p.handlers["backbutton"] \cup {h}
           a == [p EXCEPT !.handlers["backbutton"] = H]
           b == [a EXCEPT !.override = (Cardinality(H) = 1)]
<1>2. CASE h \in p.handlers["backbutton"]
  BY <1>2 DEF Start!Hold, StartSame
<1>3. CASE h \notin p.handlers["backbutton"]
  <2>1. [p.handlers EXCEPT !["backbutton"] = H] \in [Start!Channel -> SUBSET (Handler \cup Start!Own)]
    BY <1>1
  <2>2. a \in StartState /\ a.handlers = [p.handlers EXCEPT !["backbutton"] = H] /\ StartSame(p, a)
        /\ a.override = p.override /\ a.handlers["backbutton"] = H
    <3>1. a.handlers = [p.handlers EXCEPT !["backbutton"] = H]
      BY DEF StartState
    <3>2. a \in StartState
      BY <2>1 DEF StartState
    <3>3. \A c \in Start!Channel \ {"backbutton"} : a.handlers[c] = p.handlers[c]
      BY <1>1, <3>1
    <3>4. StartSame(p, a) /\ a.override = p.override
      BY <3>3 DEF StartSame, StartState
    <3> QED
      BY <1>1, <3>1, <3>2, <3>4
  <2>3. Start!Hold(p, "backbutton", h) = IF Cardinality(H) = 1 THEN b ELSE a
    <3> HIDE DEF H
    <3>1. a.handlers["backbutton"] = H
      BY <2>2
    <3> HIDE DEF a
    <3> QED
      BY <1>3, <3>1, StartCardinality DEF Start!Hold, Start!OnHasSubscribersChange, a, H
  <2>4. IsFiniteSet(H) /\ H \subseteq Handler /\ H # {}
    BY FS_AddElement DEF StartBackKey
  <2>5. CASE Cardinality(H) = 1
    <3> HIDE DEF a, H
    <3>1. b \in StartState /\ StartSame(a, b) /\ b.handlers = a.handlers /\ b.override = TRUE
      BY <2>2, <2>5 DEF StartState, StartSame
    <3> HIDE DEF b
    <3>2. StartSame(p, b)
      BY <2>2, <3>1 DEF StartSame
    <3> QED
      BY <2>2, <2>3, <2>4, <2>5, <3>1, <3>2 DEF StartBackKey
  <2>6. CASE Cardinality(H) # 1
    <3>1. p.handlers["backbutton"] # {}
      BY <2>6, FS_Singleton
    <3> HIDE DEF a, H
    <3> QED
      BY <2>2, <2>3, <2>4, <2>6, <3>1 DEF StartBackKey
  <2> QED
    BY <2>5, <2>6
<1> QED
  BY <1>2, <1>3

\* The last handler that goes gives the back key to the native side.
LEMMA StartUnsubscribe ==
    ASSUME NEW p \in StartState, StartBackKey(p), NEW h \in Handler
    PROVE  LET q == Start!Unsubscribe(p, "backbutton", h)
           IN  q \in StartState /\ StartSame(p, q) /\ StartBackKey(q)
<1>1. p.handlers \in [Start!Channel -> SUBSET (Handler \cup Start!Own)]
      /\ "backbutton" \in Start!Channel
  BY DEF StartState, Start!Channel
<1> DEFINE H == p.handlers["backbutton"] \ {h}
           a == [p EXCEPT !.handlers["backbutton"] = H]
           b == [a EXCEPT !.override = FALSE]
<1>2. CASE h \notin p.handlers["backbutton"]
  BY <1>2 DEF Start!Unsubscribe, StartSame
<1>3. CASE h \in p.handlers["backbutton"]
  <2>1. [p.handlers EXCEPT !["backbutton"] = H] \in [Start!Channel -> SUBSET (Handler \cup Start!Own)]
    BY <1>1
  <2>2. a \in StartState /\ a.handlers = [p.handlers EXCEPT !["backbutton"] = H] /\ StartSame(p, a)
        /\ a.override = p.override /\ a.handlers["backbutton"] = H
    <3>1. a.handlers = [p.handlers EXCEPT !["backbutton"] = H]
      BY DEF StartState
    <3>2. a \in StartState
      BY <2>1 DEF StartState
    <3>3. \A c \in Start!Channel \ {"backbutton"} : a.handlers[c] = p.handlers[c]
      BY <1>1, <3>1
    <3>4. StartSame(p, a) /\ a.override = p.override
      BY <3>3 DEF StartSame, StartState
    <3> QED
      BY <1>1, <3>1, <3>2, <3>4
  <2>3. Start!Unsubscribe(p, "backbutton", h) = IF H = {} THEN b ELSE a
    <3>1. a.handlers["backbutton"] = H
      BY <2>2
    <3>2. Start!Unsubscribe(p, "backbutton", h)
             = IF H = {} THEN Start!OnHasSubscribersChange(a, "backbutton") ELSE a
      BY <1>3, <3>1 DEF Start!Unsubscribe
    <3> HIDE DEF a
    <3>3. H = {} => Start!OnHasSubscribersChange(a, "backbutton") = b
      <4>1. H = {} => Cardinality(a.handlers["backbutton"]) # 1
        BY <3>1, FS_EmptySet
      <4> QED
        BY <4>1, StartCardinality DEF Start!OnHasSubscribersChange
    <3> QED
      BY <3>2, <3>3
  <2>4. IsFiniteSet(H) /\ H \subseteq Handler /\ p.override = TRUE
    BY <1>3, FS_RemoveElement DEF StartBackKey, StartState
  <2>5. CASE H = {}
    <3> HIDE DEF a, H
    <3>1. b \in StartState /\ StartSame(a, b) /\ b.handlers = a.handlers /\ b.override = FALSE
      BY <2>2, <2>5 DEF StartState, StartSame
    <3> HIDE DEF b
    <3>2. StartSame(p, b)
      BY <2>2, <3>1 DEF StartSame
    <3> QED
      BY <2>2, <2>3, <2>4, <2>5, <3>1, <3>2 DEF StartBackKey
  <2>6. CASE H # {}
    <3> HIDE DEF a, H
    <3> QED
      BY <2>2, <2>3, <2>4, <2>6 DEF StartBackKey
  <2> QED
    BY <2>5, <2>6
<1> QED
  BY <1>2, <1>3

\* The document's handler of "deviceready" is called.
LEMMA StartCalled ==
    ASSUME NEW p \in StartState, StartReady(p), StartLoads(p), StartBackKey(p),
           p.loaded, p.readied = 0, p.handlers["deviceready"] \subseteq {"onDeviceReady"}
    PROVE  LET q == [Start!Run(p, "onDeviceReady") EXCEPT !.handlers["deviceready"] = {}]
           IN  /\ StartGood(q) /\ StartLoads(q)
               /\ p.handlers["deviceready"] = {} => q = Start!Run(p, "onDeviceReady")
<1> DEFINE a == [p EXCEPT !.readied = 1]
           h == Start!Hold(a, "backbutton", Start!OnBackKeyDown)
           q == [h EXCEPT !.handlers["deviceready"] = {}]
<1>1. Start!Run(p, "onDeviceReady") = h
  <2>1. p.readied + 1 = 1
    OBVIOUS
  <2> QED
    BY <2>1 DEF Start!Run, Start!Call
<1>2. Start!OnBackKeyDown \in Handler
  BY DocumentPartsAssumption DEF Start!StartupAssumption, Start!OnBackKeyDown
<1>3. /\ a \in StartState /\ a.handlers = p.handlers /\ a.timers = p.timers /\ a.fired = p.fired
      /\ a.open = p.open /\ a.mapped = p.mapped /\ a.listed = p.listed /\ a.scripts = p.scripts
      /\ a.readied = 1 /\ a.loaded = p.loaded /\ a.override = p.override
  BY DEF StartState
<1> HIDE DEF a
<1>4. StartBackKey(a)
  BY <1>3 DEF StartBackKey
<1>5. h \in StartState /\ StartSame(a, h) /\ StartBackKey(h)
  BY <1>2, <1>3, <1>4, StartHold
<1> HIDE DEF h
<1>6. /\ q \in StartState /\ q.handlers = [h.handlers EXCEPT !["deviceready"] = {}]
      /\ q.timers = h.timers /\ q.fired = h.fired /\ q.open = h.open /\ q.mapped = h.mapped
      /\ q.listed = h.listed /\ q.scripts = h.scripts /\ q.readied = h.readied
      /\ q.loaded = h.loaded /\ q.override = h.override
  BY <1>5 DEF StartState
<1> HIDE DEF q
<1>7. /\ q.handlers["deviceready"] = {} /\ q.handlers["backbutton"] = h.handlers["backbutton"]
      /\ q.handlers["dom"] = p.handlers["dom"]
  BY <1>3, <1>5, <1>6 DEF StartState, StartSame, Start!Channel
<1>8. StartLoads(q) /\ \A x : StartQueued(q, x) <=> StartQueued(p, x)
  BY <1>3, <1>5, <1>6 DEF StartLoads, StartSame, StartQueued
<1>9. StartReady(q)
  BY <1>3, <1>5, <1>6, <1>7, <1>8 DEF StartReady, StartPlugged, StartSame
<1>10. StartOnce(q)
  BY <1>3, <1>5, <1>6, <1>7 DEF StartOnce, StartSame
<1>11. StartBackKey(q)
  BY <1>5, <1>6, <1>7 DEF StartBackKey
<1>12. p.handlers["deviceready"] = {} => q = h
  <2> SUFFICES ASSUME p.handlers["deviceready"] = {} PROVE q = h
    OBVIOUS
  <2>1. h.handlers["deviceready"] = {}
    BY <1>3, <1>5 DEF StartSame, Start!Channel
  <2>2. [h.handlers EXCEPT !["deviceready"] = {}] = h.handlers
    BY <1>5, <2>1 DEF StartState
  <2> QED
    BY <1>5, <2>2 DEF StartState, q
<1> QED
  BY <1>1, <1>6, <1>8, <1>9, <1>10, <1>11, <1>12 DEF StartGood, q

LEMMA StartDeviceReady ==
    ASSUME NEW p, StartGood(p), StartLoads(p), StartReady(p)
    PROVE  StartGood(Start!Fire(p, "deviceready")) /\ StartLoads(Start!Fire(p, "deviceready"))
<1> DEFINE r == [p EXCEPT !.fired = @ \cup {"deviceready"}]
<1>1. p \in StartState /\ p.handlers["deviceready"] \subseteq {"onDeviceReady"} /\ StartBackKey(p)
  BY DEF StartGood, StartOnce
<1>2. /\ r \in StartState /\ r.handlers = p.handlers /\ r.timers = p.timers
      /\ r.fired = p.fired \cup {"deviceready"}
      /\ r.open = p.open /\ r.mapped = p.mapped /\ r.listed = p.listed /\ r.scripts = p.scripts
      /\ r.readied = p.readied /\ r.loaded = p.loaded /\ r.override = p.override
  <2>1. p.fired \cup {"deviceready"} \in SUBSET Start!Sticky
    BY <1>1 DEF StartState, Start!Sticky, Start!Channel
  <2> QED
    BY <1>1, <2>1 DEF StartState
<1>3. Start!Fire(p, "deviceready")
        = [Start!Each(r, p.handlers["deviceready"], Start!Run) EXCEPT !.handlers["deviceready"] = {}]
  <2>1. "deviceready" \in Start!Sticky /\ {"deviceready"} \cap Start!Sticky = {"deviceready"}
    BY DEF Start!Sticky, Start!Channel
  <2> QED
    BY <2>1 DEF Start!Fire, Start!Firing
<1> HIDE DEF r
<1>4. StartReady(r) /\ StartLoads(r) /\ StartBackKey(r)
  BY <1>1, <1>2 DEF StartReady, StartPlugged, StartLoads, StartBackKey, StartQueued
<1>5. CASE p.handlers["deviceready"] = {"onDeviceReady"}
  <2>1. /\ {"onDeviceReady"} \cap Handler = {} /\ {"onDeviceReady"} \cap Start!Own # {}
        /\ (CHOOSE x \in {"onDeviceReady"} \cap Start!Own : TRUE) = "onDeviceReady"
    BY DocumentPartsAssumption DEF Start!StartupAssumption, Start!Own
  <2>2. Start!Each(r, {"onDeviceReady"}, Start!Run) = Start!Run(r, "onDeviceReady")
    BY <2>1 DEF Start!Each
  <2>3. r.loaded /\ r.readied = 0
    BY <1>2, <1>5 DEF StartGood, StartOnce
  <2> QED
    BY <1>2, <1>3, <1>4, <1>5, <2>2, <2>3, StartCalled
<1>6. CASE p.handlers["deviceready"] = {}
  <2> DEFINE q == [r EXCEPT !.handlers["deviceready"] = {}]
  <2>1. Start!Each(r, {}, Start!Run) = r
    BY DEF Start!Each
  <2>2. Start!Fire(p, "deviceready") = q
    BY <1>3, <1>6, <2>1
  <2>3. /\ q \in StartState /\ q.fired = r.fired
        /\ q.handlers = [r.handlers EXCEPT !["deviceready"] = {}]
        /\ q.timers = r.timers /\ q.open = r.open /\ q.mapped = r.mapped
        /\ q.listed = r.listed /\ q.scripts = r.scripts /\ q.readied = r.readied
        /\ q.loaded = r.loaded /\ q.override = r.override
    BY <1>2 DEF StartState
  <2> HIDE DEF q
  <2>4. /\ q.handlers["deviceready"] = {} /\ q.handlers["dom"] = p.handlers["dom"]
        /\ q.handlers["backbutton"] = p.handlers["backbutton"]
    BY <1>2, <2>3 DEF StartState, Start!Channel
  <2>5. StartReady(q) /\ StartLoads(q)
    BY <1>2, <1>4, <2>3, <2>4 DEF StartReady, StartPlugged, StartLoads, StartQueued
  <2>6. StartOnce(q) /\ StartBackKey(q)
    BY <1>1, <1>2, <2>3, <2>4 DEF StartGood, StartOnce, StartBackKey
  <2> QED
    BY <2>2, <2>3, <2>5, <2>6 DEF StartGood
<1> QED
  BY <1>1, <1>5, <1>6

LEMMA StartBackButton ==
    ASSUME NEW p, StartGood(p), StartLoads(p)
    PROVE  StartGood(Start!Fire(p, "backbutton")) /\ StartLoads(Start!Fire(p, "backbutton"))
<1> DEFINE q == Start!Fire(p, "backbutton")
           r == [p EXCEPT !.pressed = 0]
<1>1. p \in StartState /\ StartBackKey(p)
  BY DEF StartGood
<1>2. q = p \/ q = r
  <2>1. [p EXCEPT !.fired = @ \cup ({"backbutton"} \cap Start!Sticky)] = p
    <3>1. p.fired \cup ({"backbutton"} \cap Start!Sticky) = p.fired
      BY DEF Start!Sticky
    <3> QED
      BY <1>1, <3>1 DEF StartState
  <2>2. p.handlers["backbutton"] \cap Start!Own = {} /\ "backbutton" \notin Start!Sticky
    BY <1>1, DocumentPartsAssumption DEF Start!StartupAssumption, StartBackKey, Start!Sticky
  <2>3. q = Start!Each(p, p.handlers["backbutton"], Start!Run)
    BY <2>1, <2>2 DEF Start!Fire, Start!Firing
  <2> QED
    BY <2>2, <2>3 DEF Start!Each
<1>3. r \in StartState /\ StartSame(p, r) /\ r.handlers = p.handlers /\ r.override = p.override
  BY <1>1 DEF StartState, StartSame
<1> HIDE DEF q, r
<1>4. StartBackKey(r)
  BY <1>1, <1>3 DEF StartBackKey
<1>5. StartGood(r) /\ StartLoads(r)
  BY <1>3, <1>4, StartFrame
<1> QED
  BY <1>2, <1>5 DEF q

LEMMA StartTimers == StartIInv /\ Start!Timer => StartIInv'
<1> SUFFICES ASSUME StartIInv, Start!Timer PROVE StartIInv'
  OBVIOUS
<1> DEFINE p == [w EXCEPT !.timers = Tail(@)]
<1>1. StartGood(w) /\ StartLoads(w) /\ w \in StartState /\ w.timers # <<>>
  BY DEF StartIInv, StartGood, Start!Timer
<1>2. /\ p.timers = Tail(w.timers) /\ p.fired = w.fired /\ p.count = w.count
      /\ p.handlers = w.handlers
      /\ p.open = w.open /\ p.mapped = w.mapped /\ p.listed = w.listed /\ p.scripts = w.scripts
      /\ p.readied = w.readied /\ p.loaded = w.loaded /\ p.override = w.override
  BY <1>1 DEF StartState
<1>4. w' = IF Head(w.timers) = "load" THEN [p EXCEPT !.scripts = {"list"}] ELSE Start!Fire(p, Head(w.timers))
  BY DEF Start!Timer
<1> HIDE DEF p
<1>5. /\ Head(w.timers) \in StartTimer /\ StartQueued(w, Head(w.timers))
      /\ \A y : StartQueued(p, y) => StartQueued(w, y)
      /\ \A n \in DOMAIN p.timers : n + 1 \in DOMAIN w.timers /\ p.timers[n] = w.timers[n + 1] /\ n + 1 # 1
      /\ p.timers \in Seq(StartTimer)
  BY <1>1, <1>2, StartTake
<1>3. p \in StartState
  BY <1>1, <1>2, <1>5, StartTimersState DEF p
<1>6. \A n \in DOMAIN p.timers : p.timers[n] # "load"
  BY <1>1, <1>5 DEF StartLoads
<1>7. StartLoads(p)
  BY <1>6 DEF StartLoads, StartQueued
<1>8. /\ StartBefore(w) => StartBefore(p)
      /\ StartParsing(w) => StartParsing(p)
      /\ StartReady(w) => StartReady(p)
  BY <1>2, <1>5 DEF StartBefore, StartParsing, StartReady, StartPlugged
<1>9. StartGood(p)
  BY <1>1, <1>2, <1>3, <1>8 DEF StartGood, StartOnce, StartBackKey
<1>10. CASE Head(w.timers) = "load"
  <2> DEFINE q == [p EXCEPT !.scripts = {"list"}]
  <2>1. q \in StartState /\ q.timers = p.timers /\ q.fired = p.fired /\ q.count = p.count
        /\ q.handlers = p.handlers /\ q.scripts = {"list"}
        /\ q.readied = p.readied /\ q.loaded = p.loaded /\ q.override = p.override
    BY <1>3 DEF StartState
  <2>2. StartBefore(p)
    BY <1>1, <1>5, <1>8, <1>10 DEF StartGood, StartParsing, StartReady, StartPlugged
  <2> HIDE DEF q
  <2>3. StartBefore(q) /\ StartLoads(q) /\ StartOnce(q) /\ StartBackKey(q)
    BY <1>6, <1>9, <2>1, <2>2
       DEF StartBefore, StartLoads, StartOnce, StartBackKey, StartQueued, StartGood
  <2>4. w' = q
    BY <1>4, <1>10 DEF q
  <2> QED
    BY <2>1, <2>3, <2>4 DEF StartIInv, StartGood
<1>11. CASE Head(w.timers) = "deviceready"
  <2>1. StartReady(p)
    BY <1>1, <1>5, <1>8, <1>11 DEF StartGood, StartBefore, StartParsing
  <2> QED
    BY <1>4, <1>7, <1>9, <1>11, <2>1, StartDeviceReady DEF StartIInv
<1>12. CASE Head(w.timers) = "backbutton"
  BY <1>4, <1>7, <1>9, <1>12, StartBackButton DEF StartIInv
<1> QED
  BY <1>5, <1>10, <1>11, <1>12 DEF StartTimer

LEMMA StartOnLoad == StartIInv /\ Start!OnLoad => StartIInv'
<1> SUFFICES ASSUME StartIInv, Start!OnLoad PROVE StartIInv'
  OBVIOUS
<1> DEFINE p == [w EXCEPT !.loaded = TRUE]
           q == [p EXCEPT !.handlers["deviceready"] = {"onDeviceReady"}]
<1>1. /\ StartGood(w) /\ StartLoads(w) /\ w \in StartState /\ ~w.loaded
      /\ w.readied = 0 /\ w.handlers["deviceready"] = {}
  BY DEF StartIInv, StartGood, Start!OnLoad, StartOnce, StartState
<1>2. /\ p.timers = w.timers /\ p.fired = w.fired /\ p.count = w.count /\ p.handlers = w.handlers
      /\ p.open = w.open /\ p.mapped = w.mapped /\ p.listed = w.listed /\ p.scripts = w.scripts
      /\ p.readied = w.readied /\ p.loaded = TRUE /\ p.override = w.override /\ p \in StartState
  BY <1>1 DEF StartState
<1>3. w' = Start!Subscribe(p, "deviceready", "onDeviceReady")
  BY DEF Start!OnLoad
<1> HIDE DEF p
<1>4. /\ StartLoads(p) /\ StartBackKey(p)
      /\ StartBefore(w) => StartBefore(p)
      /\ StartParsing(w) => StartParsing(p)
      /\ StartReady(w) => StartReady(p)
  BY <1>1, <1>2 DEF StartGood, StartLoads, StartBackKey, StartBefore, StartParsing, StartReady,
                    StartPlugged, StartQueued
<1>5. CASE "deviceready" \in p.fired
  <2>1. StartReady(p)
    BY <1>1, <1>2, <1>4, <1>5 DEF StartGood, StartBefore, StartParsing
  <2>2. w' = Start!Run(p, "onDeviceReady")
    BY <1>3, <1>5 DEF Start!Subscribe, Start!Subscribing
  <2>3. LET r == [Start!Run(p, "onDeviceReady") EXCEPT !.handlers["deviceready"] = {}]
        IN  StartGood(r) /\ StartLoads(r) /\ r = Start!Run(p, "onDeviceReady")
    BY <1>1, <1>2, <1>4, <2>1, StartCalled
  <2> QED
    BY <2>2, <2>3 DEF StartIInv
<1>6. CASE "deviceready" \notin p.fired
  <2>1. w' = q
    <3>1. p.handlers["deviceready"] \cup {"onDeviceReady"} = {"onDeviceReady"}
      BY <1>1, <1>2
    <3>2. "onDeviceReady" \notin p.handlers["deviceready"]
      BY <1>1, <1>2
    <3>3. w' = Start!Hold(p, "deviceready", "onDeviceReady")
      BY <1>3, <1>6 DEF Start!Subscribe, Start!Subscribing
    <3> QED
      BY <3>1, <3>2, <3>3 DEF Start!Hold, Start!OnHasSubscribersChange
  <2>2. /\ q.handlers = [p.handlers EXCEPT !["deviceready"] = {"onDeviceReady"}]
        /\ q.timers = p.timers /\ q.fired = p.fired /\ q.count = p.count
        /\ q.open = p.open /\ q.mapped = p.mapped /\ q.listed = p.listed /\ q.scripts = p.scripts
        /\ q.readied = p.readied /\ q.loaded = p.loaded /\ q.override = p.override
    BY <1>2 DEF StartState
  <2>3. q \in StartState
    <3>1. [p.handlers EXCEPT !["deviceready"] = {"onDeviceReady"}]
             \in [Start!Channel -> SUBSET (Handler \cup Start!Own)]
      BY <1>2 DEF StartState, Start!Own
    <3> QED
      BY <1>2, <3>1 DEF StartState
  <2> HIDE DEF q
  <2>4. /\ q.handlers["deviceready"] = {"onDeviceReady"}
        /\ \A c \in Start!Channel \ {"deviceready"} : q.handlers[c] = p.handlers[c]
    BY <1>2, <2>2 DEF StartState, Start!Channel
  <2>5. /\ q.handlers["dom"] = p.handlers["dom"] /\ q.handlers["plugins"] = p.handlers["plugins"]
        /\ q.handlers["cordova"] = p.handlers["cordova"]
        /\ q.handlers["backbutton"] = p.handlers["backbutton"]
    BY <2>4 DEF Start!Channel
  <2>6. StartLoads(q) /\ StartBackKey(q) /\ StartOnce(q)
    BY <1>1, <1>2, <1>4, <2>2, <2>4, <2>5 DEF StartLoads, StartBackKey, StartOnce, StartQueued
  <2>7. StartBefore(q) \/ StartParsing(q) \/ StartReady(q)
    BY <1>1, <1>4, <2>2, <2>5
       DEF StartGood, StartBefore, StartParsing, StartReady, StartPlugged, StartQueued
  <2> QED
    BY <2>1, <2>3, <2>6, <2>7 DEF StartIInv, StartGood
<1> QED
  BY <1>5, <1>6

\* Scripts that come and go while the plugins are still to come.
LEMMA StartScripts ==
    ASSUME StartIInv, w.scripts # {}, NEW scripts \in SUBSET (Plugin \cup {"list"}),
           NEW listed \in SUBSET Plugin, NEW defined \in SUBSET (Plugin \cup {"list"})
    PROVE  LET q == [w EXCEPT !.scripts = scripts, !.listed = listed, !.defined = defined]
           IN  /\ StartGood(q) /\ StartLoads(q) /\ ~StartQueued(q, "load")
               /\ "plugins" \notin q.fired /\ q \in StartState /\ q.scripts = scripts
<1> DEFINE q == [w EXCEPT !.scripts = scripts, !.listed = listed, !.defined = defined]
<1>1. /\ w \in StartState /\ StartBefore(w) /\ StartOnce(w) /\ StartBackKey(w) /\ StartLoads(w)
      /\ ~StartQueued(w, "load")
  BY DEF StartIInv, StartGood, StartParsing, StartReady, StartPlugged, StartLoads
<1>2. /\ q \in StartState /\ q.timers = w.timers /\ q.fired = w.fired /\ q.count = w.count
      /\ q.handlers = w.handlers /\ q.scripts = scripts
      /\ q.readied = w.readied /\ q.loaded = w.loaded /\ q.override = w.override
  BY <1>1 DEF StartState
<1> HIDE DEF q
<1>3. /\ StartBefore(q) /\ StartLoads(q) /\ StartOnce(q) /\ StartBackKey(q)
      /\ ~StartQueued(q, "load") /\ "plugins" \notin q.fired
  BY <1>1, <1>2 DEF StartBefore, StartLoads, StartOnce, StartBackKey, StartQueued
<1> QED
  BY <1>2, <1>3 DEF StartGood, q

LEMMA StartPluginsLoad ==
    ASSUME StartIInv,
           Start!ListLoaded \/ Start!ListFailed \/ \E m \in Plugin : Start!ScriptLoaded(m)
    PROVE  StartIInv'
<1>1. w \in StartState /\ w.scripts # {}
  BY DEF StartIInv, StartGood, Start!ListLoaded, Start!ListFailed, Start!ScriptLoaded
<1>2. w.listed \in SUBSET Plugin /\ w.defined \in SUBSET (Plugin \cup {"list"})
      /\ w.scripts \in SUBSET (Plugin \cup {"list"})
  BY <1>1 DEF StartState
<1>3. ASSUME w' = Start!Fire([w EXCEPT !.scripts = {}], "plugins") PROVE StartIInv'
  <2> DEFINE q == [w EXCEPT !.scripts = {}, !.listed = w.listed, !.defined = w.defined]
  <2>1. [w EXCEPT !.scripts = {}] = q
    BY <1>1 DEF StartState
  <2>2. StartGood(q) /\ StartLoads(q) /\ ~StartQueued(q, "load") /\ "plugins" \notin q.fired
        /\ q.scripts = {}
    BY <1>1, <1>2, StartScripts
  <2> HIDE DEF q
  <2> QED
    BY <1>3, <2>1, <2>2, StartPlugins DEF StartIInv
<1>4. CASE Start!ListFailed
  BY <1>3, <1>4 DEF Start!ListFailed
<1>5. CASE Start!ListLoaded
  <2>1. PICK modules \in SUBSET Plugin :
           w' = IF modules = {} THEN Start!Fire([w EXCEPT !.scripts = {}], "plugins")
                ELSE [w EXCEPT !.scripts = modules, !.listed = modules]
    BY <1>5 DEF Start!ListLoaded
  <2>2. CASE modules = {}
    BY <1>3, <2>1, <2>2
  <2>3. CASE modules # {}
    <3> DEFINE q == [w EXCEPT !.scripts = modules, !.listed = modules, !.defined = w.defined]
    <3>1. w' = q
      BY <1>1, <2>1, <2>3 DEF StartState
    <3>2. StartGood(q) /\ StartLoads(q)
      BY <1>1, <1>2, StartScripts
    <3> HIDE DEF q
    <3> QED
      BY <3>1, <3>2 DEF StartIInv
  <2> QED
    BY <2>2, <2>3
<1>6. ASSUME NEW m \in Plugin, Start!ScriptLoaded(m) PROVE StartIInv'
  <2>1. PICK ok \in BOOLEAN :
           LET p == [w EXCEPT !.scripts = @ \ {m}, !.defined = IF ok THEN @ \cup {m} ELSE @]
           IN  w' = IF p.scripts = {} THEN Start!FinishLoading(p) ELSE p
    BY <1>6 DEF Start!ScriptLoaded
  <2> DEFINE defined == IF ok THEN w.defined \cup {m} ELSE w.defined
             p == [w EXCEPT !.scripts = w.scripts \ {m}, !.listed = w.listed, !.defined = defined]
  <2>2. defined \in SUBSET (Plugin \cup {"list"})
        /\ w.scripts \ {m} \in SUBSET (Plugin \cup {"list"})
    BY <1>2
  <2>3. [w EXCEPT !.scripts = @ \ {m}, !.defined = IF ok THEN @ \cup {m} ELSE @] = p
    BY <1>1 DEF StartState
  <2>4. /\ StartGood(p) /\ StartLoads(p) /\ ~StartQueued(p, "load") /\ "plugins" \notin p.fired
        /\ p \in StartState
    <3> HIDE DEF defined
    <3> QED
      BY <1>1, <1>2, <2>2, StartScripts
  <2>5. w' = IF p.scripts = {} THEN Start!FinishLoading(p) ELSE p
    BY <2>1, <2>3
  <2> HIDE DEF p
  <2>6. CASE p.scripts # {}
    BY <2>4, <2>5, <2>6 DEF StartIInv
  <2>7. CASE p.scripts = {} /\ w' = Start!Fire(p, "plugins")
    BY <2>4, <2>7, StartPlugins DEF StartIInv
  <2>8. CASE w' = [p EXCEPT !.broken = TRUE]
    <3> DEFINE q == [p EXCEPT !.broken = TRUE]
    <3>1. q \in StartState /\ StartSame(p, q) /\ q.handlers = p.handlers /\ q.override = p.override
      BY <2>4 DEF StartState, StartSame
    <3> HIDE DEF q
    <3>2. StartBackKey(q)
      BY <2>4, <3>1 DEF StartGood, StartBackKey
    <3>3. StartGood(q) /\ StartLoads(q)
      BY <2>4, <3>1, <3>2, StartFrame
    <3> QED
      BY <2>8, <3>3 DEF StartIInv, q
  <2> QED
    BY <2>5, <2>6, <2>7, <2>8 DEF Start!FinishLoading
<1> QED
  BY <1>4, <1>5, <1>6

LEMMA StartBackKeys ==
    ASSUME StartIInv,
           \/ \E h \in Handler : Start!AddBackKey(h) \/ Start!RemoveBackKey(h)
           \/ Start!PressBack \/ Start!BackMessage
    PROVE  StartIInv'
<1>1. /\ w \in StartState /\ StartGood(w) /\ StartLoads(w) /\ StartBackKey(w)
      /\ w.timers \in Seq(StartTimer) /\ 1 \in 0 .. 2 /\ 2 \in 0 .. 2
  BY DEF StartIInv, StartGood, StartState
<1>2. ASSUME NEW h \in Handler, Start!AddBackKey(h) PROVE StartIInv'
  <2>1. "backbutton" \notin w.fired
    BY <1>1 DEF StartState, Start!Sticky
  <2>2. w' = Start!Hold(w, "backbutton", h)
    BY <1>2, <2>1 DEF Start!AddBackKey, Start!Subscribe, Start!Subscribing
  <2>3. w' \in StartState /\ StartSame(w, w') /\ StartBackKey(w')
    BY <1>1, <2>2, StartHold
  <2> QED
    BY <1>1, <2>3, StartFrame DEF StartIInv
<1>3. ASSUME NEW h \in Handler, Start!RemoveBackKey(h) PROVE StartIInv'
  <2>1. w' \in StartState /\ StartSame(w, w') /\ StartBackKey(w')
    BY <1>1, <1>3, StartUnsubscribe DEF Start!RemoveBackKey
  <2> QED
    BY <1>1, <2>1, StartFrame DEF StartIInv
<1>4. CASE Start!PressBack
  <2>1. w' \in StartState /\ StartSame(w, w') /\ w'.handlers = w.handlers
        /\ w'.override = w.override
    <3>1. CASE w' = [w EXCEPT !.pressed = 1]
      BY <1>1, <3>1, StartPressedState
    <3>2. CASE w' = [w EXCEPT !.left = TRUE]
      BY <1>1, <3>2 DEF StartState, StartSame
    <3> QED
      BY <1>4, <3>1, <3>2 DEF Start!PressBack
  <2>2. StartBackKey(w')
    BY <1>1, <2>1 DEF StartBackKey
  <2> QED
    BY <1>1, <2>1, <2>2, StartFrame DEF StartIInv
<1>5. CASE Start!BackMessage
  <2>1. /\ w'.timers = Append(w.timers, "backbutton") /\ w'.fired = w.fired /\ w'.count = w.count
        /\ w'.handlers = w.handlers /\ w'.open = w.open /\ w'.mapped = w.mapped
        /\ w'.listed = w.listed /\ w'.scripts = w.scripts /\ w'.readied = w.readied
        /\ w'.loaded = w.loaded /\ w'.override = w.override
    BY <1>1, <1>5 DEF Start!BackMessage, StartState
  <2>2. /\ w'.timers \in Seq(StartTimer)
        /\ \A y : StartQueued(w', y) <=> StartQueued(w, y) \/ y = "backbutton"
        /\ \A n \in DOMAIN w'.timers : w'.timers[n] = "load" => w.timers[n] = "load" /\ n \in DOMAIN w.timers
    BY <1>1, <2>1, StartAppend DEF StartTimer
  <2>3. w' \in StartState
    <3>1. w' = [w EXCEPT !.pressed = 2, !.timers = Append(@, "backbutton")]
      BY <1>5 DEF Start!BackMessage
    <3>2. Append(w.timers, "backbutton") \in Seq(StartTimer)
      BY <2>1, <2>2
    <3>3. [w EXCEPT !.pressed = 2] \in StartState
      BY <1>1, StartPressedState
    <3>4. w' = [[w EXCEPT !.pressed = 2] EXCEPT !.timers = Append(w.timers, "backbutton")]
      BY <1>1, <3>1 DEF StartState
    <3> QED
      BY <3>2, <3>3, <3>4, StartTimersState
  <2>4. StartOnce(w') /\ StartBackKey(w') /\ StartLoads(w')
    BY <1>1, <2>1, <2>2 DEF StartGood, StartOnce, StartBackKey, StartLoads
  <2>5. StartBefore(w') \/ StartParsing(w') \/ StartReady(w')
    BY <1>1, <2>1, <2>2 DEF StartGood, StartBefore, StartParsing, StartReady, StartPlugged
  <2> QED
    BY <2>3, <2>4, <2>5 DEF StartIInv, StartGood
<1> QED
  BY <1>2, <1>3, <1>4, <1>5

LEMMA StartStepIInv == StartIInv /\ [Start!Next]_w => StartIInv'
<1> SUFFICES ASSUME StartIInv, [Start!Next]_w PROVE StartIInv'
  OBVIOUS
<1>1. CASE Start!DOMContentLoaded
  BY <1>1, StartDom DEF StartIInv, Start!DOMContentLoaded
<1>2. CASE UNCHANGED w
  BY <1>2 DEF StartIInv
<1> QED
  BY <1>1, <1>2, StartOnLoad, StartTimers, StartPluginsLoad, StartBackKeys DEF Start!Next

\* cordova.js is loaded: "show" and "init" wait, and "native" has fired.
LEMMA StartInitIInv == Start!Init => StartIInv
<1> DEFINE a == [Start!Start EXCEPT !.handlers["cordova"] = {"show"}]
           b == [a EXCEPT !.fired = {"native"}]
           c == [b EXCEPT !.fired = {"native", "dom"}]
           D(p) == [p EXCEPT !.count["init"] = 1, !.handlers["plugins"] = {"init"}]
<1>1. /\ a.fired = {} /\ a.timers = <<"load">> /\ a.scripts = {} /\ a.readied = 0
      /\ a.loaded = FALSE
      /\ a.override = FALSE /\ a.count = [f \in {"init", "ready"} |-> 0]
      /\ a.handlers = [x \in Start!Channel |-> IF x = "cordova" THEN {"show"} ELSE {}]
      /\ a \in StartState
  <2>0. 0 \in 0 .. 2 /\ [f \in {"init", "ready"} |-> 0] \in [{"init", "ready"} -> Int]
    OBVIOUS
  <2>1. <<"load">> \in Seq(StartTimer)
    BY DEF StartTimer
  <2>2. [[x \in Start!Channel |-> {}] EXCEPT !["cordova"] = {"show"}]
           = [x \in Start!Channel |-> IF x = "cordova" THEN {"show"} ELSE {}]
    BY DEF Start!Channel
  <2>3. [x \in Start!Channel |-> IF x = "cordova" THEN {"show"} ELSE {}]
           \in [Start!Channel -> SUBSET (Handler \cup Start!Own)]
    BY DEF Start!Own
  <2>4. a.handlers = [[x \in Start!Channel |-> {}] EXCEPT !["cordova"] = {"show"}]
    BY DEF Start!Start
  <2>5. /\ a.fired = {} /\ a.timers = <<"load">> /\ a.scripts = {} /\ a.readied = 0
        /\ a.loaded = FALSE
        /\ a.override = FALSE /\ a.count = [f \in {"init", "ready"} |-> 0]
    BY DEF Start!Start
  <2>6. Start!Start \in StartState
    <3>1. [x \in Start!Channel |-> {}] \in [Start!Channel -> SUBSET (Handler \cup Start!Own)]
      OBVIOUS
    <3> QED
      BY <2>0, <2>1, <3>1 DEF Start!Start, StartState
  <2>7. a \in StartState
    <3>1. [Start!Start.handlers EXCEPT !["cordova"] = {"show"}]
             \in [Start!Channel -> SUBSET (Handler \cup Start!Own)]
      BY <2>6 DEF StartState, Start!Own
    <3> QED
      BY <2>6, <3>1 DEF StartState
  <2> HIDE DEF a
  <2> QED
    BY <2>2, <2>4, <2>5, <2>7
<1>2. Start!Subscribe(Start!Start, "cordova", "show") = a
  <2>1. Start!Start.fired = {} /\ Start!Start.handlers["cordova"] = {}
    BY DEF Start!Start, Start!Channel
  <2>2. {} \cup {"show"} = {"show"}
    OBVIOUS
  <2> QED
    BY <2>1, <2>2 DEF Start!Subscribe, Start!Subscribing, Start!Hold, Start!OnHasSubscribersChange
<1> HIDE DEF a
<1>3. ASSUME NEW p \in StartState, NEW x \in {"native", "dom"}, p.handlers[x] = {}
      PROVE  Start!Fire(p, x) = [p EXCEPT !.fired = @ \cup {x}]
  <2>1. {x} \cap Start!Sticky = {x} /\ x \in Start!Sticky /\ x \in Start!Channel
    BY DEF Start!Sticky, Start!Channel
  <2> DEFINE r == [p EXCEPT !.fired = @ \cup {x}]
  <2>2. r.handlers = p.handlers /\ r \in StartState
    BY <2>1 DEF StartState
  <2> HIDE DEF r
  <2>3. Start!Each(r, p.handlers[x], Start!Run) = r
    BY <1>3 DEF Start!Each
  <2>4. Start!Fire(p, x) = [r EXCEPT !.handlers[x] = {}]
    BY <2>1, <2>3 DEF Start!Fire, Start!Firing, r
  <2>5. [r.handlers EXCEPT ![x] = {}] = r.handlers
    BY <1>3, <2>1, <2>2 DEF StartState
  <2> QED
    BY <2>2, <2>4, <2>5 DEF StartState, r
<1> DEFINE Started(p) ==
              /\ p \in StartState /\ p.handlers = a.handlers /\ p.timers = <<"load">>
              /\ p.fired \subseteq {"native", "dom"} /\ "native" \in p.fired
              /\ p.scripts = {} /\ p.readied = 0 /\ p.loaded = FALSE /\ p.override = FALSE
<1>4. Started(b) /\ Start!Fire(a, "native") = b
  <2>1. a.handlers["native"] = {}
    BY <1>1 DEF Start!Channel
  <2>2. Start!Fire(a, "native") = [a EXCEPT !.fired = @ \cup {"native"}]
    BY <1>1, <1>3, <2>1
  <2> QED
    BY <1>1, <2>2 DEF StartState, Start!Sticky, Start!Channel
<1>5. Started(c) /\ Start!Fire(b, "dom") = c
  <2>1. b.handlers["dom"] = {} /\ b.fired \cup {"dom"} = {"native", "dom"}
    BY <1>1, <1>4 DEF Start!Channel, StartState
  <2> HIDE DEF b
  <2>2. Start!Fire(b, "dom") = [b EXCEPT !.fired = @ \cup {"dom"}]
    BY <1>4, <1>3, <2>1
  <2> QED
    BY <1>4, <2>1, <2>2 DEF StartState, Start!Sticky, Start!Channel
<1> HIDE DEF b, c
<1>6. ASSUME NEW p \in {b, c} PROVE Start!Join(p, "init") = D(p)
  <2>1. /\ p \in StartState /\ "native" \in p.fired /\ "plugins" \notin p.fired
        /\ p.handlers = a.handlers
    BY <1>4, <1>5
  <2> DEFINE e == [p EXCEPT !.count["init"] = 2]
             g == [p EXCEPT !.count["init"] = 1]
  <2>2. /\ e.fired = p.fired /\ e.count["init"] = 2
        /\ g.fired = p.fired /\ g.count["init"] = 1 /\ g.handlers = a.handlers
    BY <2>1 DEF StartState
  <2>3. Start!RunInit(e) = g
    <3>1. e.count["init"] - 1 = 1
      BY <2>2
    <3>2. Start!Countdown(e, "init") = [e EXCEPT !.count["init"] = 1]
      BY <3>1 DEF Start!Countdown
    <3>3. [e EXCEPT !.count["init"] = 1] = g
      BY <2>1 DEF StartState
    <3> HIDE DEF e, g
    <3> QED
      BY <2>2, <3>2, <3>3 DEF Start!RunInit
  <2>4. Start!Joined["init"][1] = "native" /\ Start!Joined["init"][2] = "plugins"
        /\ Len(Start!Joined["init"]) = 2
    BY DEF Start!Joined
  <2> HIDE DEF g
  <2>5. Start!Subscribing(e, "native", "init", Start!Run) = g
    BY <2>1, <2>2, <2>3 DEF Start!Subscribing, Start!Run
  <2>6. Start!Join(p, "init") = Start!Hold(g, "plugins", "init")
    BY <2>1, <2>2, <2>4, <2>5 DEF Start!Join, Start!Joining, Start!Subscribing
  <2>7. Start!Hold(g, "plugins", "init") = [g EXCEPT !.handlers["plugins"] = {"init"}]
    <3>1. g.handlers["plugins"] = {} /\ {} \cup {"init"} = {"init"}
      BY <1>1, <2>2 DEF Start!Channel
    <3> QED
      BY <3>1 DEF Start!Hold, Start!OnHasSubscribersChange
  <2> QED
    BY <2>6, <2>7 DEF g
<1>7. ASSUME NEW p \in {b, c} PROVE StartGood(D(p)) /\ StartLoads(D(p))
  <2> DEFINE q == D(p)
  <2>1. /\ p \in StartState /\ p.fired \subseteq {"native", "dom"} /\ "native" \in p.fired
        /\ p.handlers = a.handlers /\ p.timers = <<"load">>
        /\ p.scripts = {} /\ p.readied = 0 /\ p.loaded = FALSE /\ p.override = FALSE
    BY <1>4, <1>5
  <2>2. /\ q.fired = p.fired /\ q.handlers = [p.handlers EXCEPT !["plugins"] = {"init"}]
        /\ q.count = [p.count EXCEPT !["init"] = 1] /\ q.timers = <<"load">>
        /\ q.scripts = {} /\ q.readied = 0 /\ q.loaded = FALSE /\ q.override = FALSE
    BY <2>1 DEF StartState
  <2>3. q \in StartState
    <3>1. [p.handlers EXCEPT !["plugins"] = {"init"}] \in [Start!Channel -> SUBSET (Handler \cup Start!Own)]
      BY <2>1 DEF StartState, Start!Own
    <3>2. [p.count EXCEPT !["init"] = 1] \in [{"init", "ready"} -> Int]
      BY <2>1 DEF StartState
    <3> QED
      BY <2>1, <3>1, <3>2 DEF StartState
  <2>4. /\ q.handlers["plugins"] = {"init"} /\ q.handlers["cordova"] = {"show"}
        /\ q.handlers["dom"] = {} /\ q.handlers["deviceready"] = {} /\ q.handlers["backbutton"] = {}
        /\ q.count["init"] = 1
    BY <1>1, <2>1, <2>2 DEF Start!Channel, StartState
  <2>5. DOMAIN <<"load">> = {1} /\ <<"load">>[1] = "load"
    OBVIOUS
  <2> HIDE DEF q
  <2>6. StartBefore(q) /\ StartLoads(q)
    <3>1. \A n \in DOMAIN q.timers : n = 1 /\ q.timers[n] = "load"
      BY <2>2, <2>5
    <3>2. ~StartQueued(q, "deviceready")
      BY <3>1 DEF StartQueued
    <3> QED
      BY <2>1, <2>2, <2>4, <3>1, <3>2 DEF StartBefore, StartLoads
  <2>7. StartOnce(q) /\ StartBackKey(q)
    <3>1. StartOnce(q)
      BY <2>2, <2>4 DEF StartOnce
    <3>2. IsFiniteSet({})
      BY FS_EmptySet
    <3> QED
      BY <2>2, <2>4, <3>1, <3>2 DEF StartBackKey
  <2> QED
    BY <2>3, <2>6, <2>7 DEF StartGood, q
<1>8. Start!Init => w = D(b) \/ w = D(c)
  BY <1>2, <1>4, <1>5, <1>6 DEF Start!Init
<1> QED
  BY <1>7, <1>8 DEF StartIInv

LEMMA StartReadyFollows == StartIInv => Start!ReadyOnce
<1> SUFFICES ASSUME StartIInv PROVE Start!ReadyOnce
  OBVIOUS
<1>1. StartGood(w) /\ StartOnce(w) /\ StartBackKey(w)
  BY DEF StartIInv, StartGood
<1>2. w.readied = 1 => StartReady(w)
  BY <1>1 DEF StartGood, StartBefore, StartParsing
<1> QED
  BY <1>1, <1>2 DEF Start!ReadyOnce, StartOnce, StartBackKey, StartReady, StartPlugged

-----------------------------------------------------------------------------
(* Taps: what has come of the touch so far. *)
TapsState ==
    [fingers : 0 .. 2, el : Tap!Element \cup {Nothing}, track : BOOLEAN,
     target : Tap!Element \cup {Nothing}, needs : BOOLEAN, timer : BOOLEAN, moved : BOOLEAN,
     recent : BOOLEAN, focus : {"field", Nothing}, native : Tap!Element \cup {Nothing},
     slid : BOOLEAN, single : BOOLEAN, soon : BOOLEAN, clicks : 0 .. 1, toggles : 0 .. 1]

\* As long as a touch is tracked, nothing has come of it.
TapsTracked(s) ==
    s.fingers > 0 /\ s.track =>
        /\ s.target = s.el /\ s.el # "plain" /\ s.needs /\ ~s.moved /\ ~s.slid
        /\ s.clicks = 0 /\ s.toggles = 0

\* A finger that is down: what has given no click is tracked still, has moved,
\* or is left to the browser.
TapsDown(s) ==
    s.fingers > 0 =>
        /\ s.el # Nothing /\ s.native = Nothing
        /\ s.clicks = 0 => s.toggles = 0 /\ ~s.timer /\ (s.needs <=> s.el # "plain")
        /\ s.single => s.fingers = 1 /\ s.clicks = 0 /\ s.toggles = 0
        /\ s.single /\ ~s.slid => (s.track <=> s.el # "plain")
        /\ s.slid => ~s.track

\* The browser's click is to come only where framework7.js sends none.
TapsNative(s) ==
    s.native # Nothing =>
        /\ s.native = s.el /\ s.clicks = 0 /\ s.toggles = 0 /\ ~s.slid /\ s.fingers = 0
        /\ (s.el = "plain" /\ ~s.needs /\ ~s.track) \/ (s.el = "field" /\ s.track)

TapsSlid(s) == s.slid => s.clicks = 0 /\ s.toggles = 0

TapsDone(s) ==
    s.fingers = 0 /\ s.native = Nothing /\ s.el # Nothing /\ s.single /\ ~s.slid /\ ~s.soon
        => s.clicks = 1 /\ (s.el = "label" => s.toggles = 1)

TapsGood(s) ==
    /\ s \in TapsState /\ TapsTracked(s) /\ TapsDown(s) /\ TapsNative(s)
    /\ TapsSlid(s) /\ TapsDone(s)

TapsIInv == TapsGood(w)

\* The provers are given these, to see that a changed field keeps its type.
LEMMA TapsNumbers == 0 \in 0 .. 2 /\ 1 \in 0 .. 2 /\ 2 \in 0 .. 2 /\ 0 \in 0 .. 1 /\ 1 \in 0 .. 1
  OBVIOUS

-----------------------------------------------------------------------------
\* What TouchStart and HandleClick make of a state.
LEMMA TapsFreshFirst ==
    ASSUME NEW q \in TapsState, NEW el \in Tap!Element, NEW n \in BOOLEAN
    PROVE  [q EXCEPT !.fingers = 1, !.el = el, !.moved = FALSE, !.timer = FALSE, !.needs = n]
               \in TapsState
  BY TapsNumbers DEF TapsState

LEMMA TapsFreshThen ==
    ASSUME NEW q \in TapsState
    PROVE  [q EXCEPT !.slid = FALSE, !.single = TRUE, !.soon = FALSE, !.clicks = 0, !.toggles = 0]
               \in TapsState
  BY TapsNumbers DEF TapsState

LEMMA TapsFresh ==
    ASSUME NEW q \in TapsState, NEW el \in Tap!Element, NEW n \in BOOLEAN
    PROVE  [q EXCEPT !.fingers = 1, !.el = el, !.moved = FALSE, !.timer = FALSE, !.needs = n,
                     !.slid = FALSE, !.single = TRUE, !.soon = FALSE, !.clicks = 0, !.toggles = 0]
               \in TapsState
<1> DEFINE h == [q EXCEPT !.fingers = 1, !.el = el, !.moved = FALSE, !.timer = FALSE, !.needs = n]
           s == [h EXCEPT !.slid = FALSE, !.single = TRUE, !.soon = FALSE, !.clicks = 0, !.toggles = 0]
<1>1. h \in TapsState
  BY TapsFreshFirst
<1>2. s \in TapsState
  <2> HIDE DEF h
  <2> QED
    BY <1>1, TapsFreshThen
<1> QED
  BY <1>2

LEMMA TapsHandled ==
    ASSUME NEW q \in TapsState, NEW g \in Tap!Element \cup {Nothing}, NEW m \in BOOLEAN,
           NEW n \in 0 .. 1, NEW i \in 0 .. 1
    PROVE  [q EXCEPT !.track = FALSE, !.target = g, !.timer = m, !.clicks = n, !.toggles = i]
               \in TapsState
  BY DEF TapsState

LEMMA TapsInitIInv == Tap!Init => TapsIInv
<1> SUFFICES ASSUME Tap!Init PROVE TapsGood(w)
  BY DEF TapsIInv
<1>1. w \in TapsState
  BY TapsNumbers DEF Tap!Init, TapsState
<1>2. TapsTracked(w) /\ TapsDown(w) /\ TapsNative(w) /\ TapsSlid(w) /\ TapsDone(w)
  BY DEF Tap!Init, TapsTracked, TapsDown, TapsNative, TapsSlid, TapsDone
<1> QED
  BY <1>1, <1>2 DEF TapsGood

LEMMA TapsTouchStart ==
    ASSUME TapsGood(w), NEW el \in Tap!Element, Tap!TouchStart(el)
    PROVE  TapsGood(w')
<1>1. w \in TapsState /\ w.native = Nothing /\ el # Nothing
  BY DocumentPartsAssumption DEF TapsGood, Tap!TouchStart, Tap!TapsAssumption
<1> DEFINE n == Tap!TargetNeedsFastClick(el)
           s == [w EXCEPT !.fingers = 1, !.el = el, !.moved = FALSE, !.timer = FALSE,
                          !.needs = n, !.slid = FALSE,
                          !.single = TRUE, !.soon = FALSE, !.clicks = 0, !.toggles = 0]
<1>2. /\ s \in TapsState /\ s.fingers = 1 /\ s.el = el /\ ~s.moved /\ ~s.timer /\ ~s.slid
      /\ s.single
      /\ s.clicks = 0 /\ s.toggles = 0 /\ s.native = Nothing /\ (s.needs <=> el # "plain")
  <2>1. n \in BOOLEAN /\ (n <=> el # "plain")
    BY DEF Tap!TargetNeedsFastClick
  <2> HIDE DEF n
  <2>2. s \in TapsState
    BY <1>1, <2>1, TapsFresh
  <2>3. /\ s.fingers = 1 /\ s.el = el /\ ~s.moved /\ ~s.timer /\ ~s.slid /\ s.single
        /\ s.clicks = 0 /\ s.toggles = 0 /\ s.native = Nothing /\ s.needs = n
    BY <1>1 DEF TapsState
  <2> HIDE DEF s
  <2> QED
    BY <2>1, <2>2, <2>3
<1>3. w' = IF ~s.needs THEN [s EXCEPT !.track = FALSE]
           ELSE [s EXCEPT !.track = TRUE, !.target = el,
                          !.focus = IF Tap!AndroidNeedsBlur(s, el) THEN Nothing ELSE @]
  BY DEF Tap!TouchStart
<1> HIDE DEF s
<1>4. /\ w' \in TapsState /\ w'.fingers = 1 /\ w'.el = el /\ ~w'.moved /\ ~w'.timer /\ ~w'.slid
      /\ w'.single /\ w'.clicks = 0 /\ w'.toggles = 0 /\ w'.native = Nothing
      /\ (w'.needs <=> el # "plain") /\ (w'.track <=> el # "plain")
      /\ w'.track => w'.target = el
  <2>1. CASE s.needs
    <3> DEFINE f == IF Tap!AndroidNeedsBlur(s, el) THEN Nothing ELSE s.focus
    <3>1. f \in {"field", Nothing}
      BY <1>2 DEF TapsState
    <3>2. w' = [s EXCEPT !.track = TRUE, !.target = el, !.focus = f]
      BY <1>2, <1>3, <2>1
    <3> HIDE DEF f
    <3> QED
      BY TapsNumbers, <1>2, <2>1, <3>1, <3>2 DEF TapsState
  <2>2. CASE ~s.needs
    BY TapsNumbers, <1>2, <1>3, <2>2 DEF TapsState
  <2> QED
    BY <2>1, <2>2
<1> QED
  BY <1>1, <1>4 DEF TapsGood, TapsTracked, TapsDown, TapsNative, TapsSlid, TapsDone

\* The click that framework7.js sends: one, and one change of a check box.
LEMMA TapsSendClick ==
    ASSUME TapsGood(w), w.fingers > 0, w.track, w.focus # w.el,
           w' = Tap!SendClick([w EXCEPT !.fingers = @ - 1])
    PROVE  TapsGood(w')
<1> DEFINE s == [w EXCEPT !.fingers = @ - 1]
           f == IF Tap!TargetNeedsFocus(s, s.target) THEN s.target
                ELSE IF s.target # s.focus /\ s.target # "label" THEN Nothing
                ELSE s.focus
           r == [s EXCEPT !.recent = TRUE, !.track = FALSE, !.focus = f]
<1>1. /\ w \in TapsState /\ w.target = w.el /\ w.needs /\ ~w.moved /\ ~w.slid /\ w.clicks = 0
      /\ w.toggles = 0 /\ w.el # "plain" /\ w.native = Nothing /\ w.el # Nothing
      /\ w.el \in Tap!Element /\ (w.single => w.fingers = 1) /\ w.fingers - 1 \in 0 .. 1
  BY DEF TapsGood, TapsTracked, TapsDown, TapsState
<1>2. /\ s \in TapsState /\ s.fingers = w.fingers - 1 /\ s.target = w.el /\ s.el = w.el /\ s.needs
      /\ ~s.moved /\ ~s.slid /\ s.clicks = 0 /\ s.toggles = 0 /\ s.native = Nothing
      /\ s.single = w.single
  BY TapsNumbers, <1>1 DEF TapsState
<1>3. w' = IF s.target = "select" THEN [r EXCEPT !.clicks = @ + 1] ELSE Tap!Click(r, s.target, TRUE)
  BY DEF Tap!SendClick
<1> HIDE DEF s
<1>4. f \in {"field", Nothing}
  BY TapsNumbers, <1>2 DEF TapsState, Tap!TargetNeedsFocus
<1> HIDE DEF f
<1>5. /\ r \in TapsState /\ r.fingers = w.fingers - 1 /\ r.target = w.el /\ r.el = w.el /\ r.needs
      /\ ~r.moved /\ ~r.slid /\ r.clicks = 0 /\ r.toggles = 0 /\ r.native = Nothing
      /\ r.single = w.single /\ ~r.track
  BY TapsNumbers, <1>2, <1>4 DEF TapsState
<1> HIDE DEF r
<1>6. ASSUME NEW q \in TapsState, q.fingers = w.fingers - 1, q.el = w.el, q.clicks = 1,
             ~q.slid, q.native = Nothing, q.single = w.single, ~q.track,
             q.el = "label" => q.toggles = 1
      PROVE  TapsGood(q)
  BY <1>1, <1>6 DEF TapsGood, TapsTracked, TapsDown, TapsNative, TapsSlid, TapsDone
<1>7. CASE w.el = "select"
  <2>1. w' = [r EXCEPT !.clicks = 1]
    BY <1>2, <1>3, <1>5, <1>7
  <2> QED
    BY TapsNumbers, <1>5, <1>6, <1>7, <2>1 DEF TapsState
<1> DEFINE h == Tap!HandleClick(r, w.el, TRUE)
<1>8. /\ h \in TapsState /\ h.fingers = r.fingers /\ h.el = r.el /\ h.clicks = 1 /\ h.toggles = 0
      /\ ~h.slid /\ ~h.moved /\ h.native = Nothing /\ h.single = r.single /\ ~h.track
      /\ h.target = r.target /\ h.focus = r.focus
  <2> DEFINE g == IF ~r.track THEN r.target ELSE Nothing
  <2>1. g = r.target
    BY <1>5
  <2>2. h = [r EXCEPT !.track = FALSE, !.target = r.target, !.timer = TRUE, !.clicks = 1, !.toggles = 0]
    <3>1. Tap!AllowClick(r, w.el, TRUE) /\ w.el # "checkbox"
      BY <1>1 DEF Tap!AllowClick, Tap!Element
    <3>2. (r.timer \/ ~r.track) = TRUE /\ r.clicks + 1 = 1 /\ g = r.target
      BY <1>5, <2>1
    <3> QED
      BY <1>5, <3>1, <3>2 DEF Tap!HandleClick
  <2> HIDE DEF h
  <2> QED
    BY TapsNumbers, <1>5, <2>2 DEF TapsState
<1>9. CASE w.el \notin {"select", "label"}
  <2>1. w' = h
    BY <1>2, <1>3, <1>9 DEF Tap!Click
  <2> HIDE DEF h
  <2> QED
    BY <1>5, <1>6, <1>8, <1>9, <2>1
<1>10. CASE w.el = "label"
  <2>1. w' = Tap!HandleClick(h, "checkbox", FALSE)
    BY <1>2, <1>3, <1>10 DEF Tap!Click
  <2> HIDE DEF h
  <2>2. h.target # Nothing /\ ~Tap!TargetNeedsPrevent(h.target)
    BY <1>1, <1>5, <1>8, <1>10 DEF Tap!TargetNeedsPrevent
  <2>3. /\ w' \in TapsState /\ w'.fingers = h.fingers /\ w'.el = h.el /\ w'.clicks = 1
        /\ w'.toggles = 1
        /\ ~w'.slid /\ w'.native = Nothing /\ w'.single = h.single /\ ~w'.track
    <3> DEFINE allow == Tap!AllowClick(h, "checkbox", FALSE)
               g == IF allow /\ ~h.track THEN h.target ELSE Nothing
    <3>1. g \in Tap!Element \cup {Nothing} /\ h.timer \in BOOLEAN
      BY <1>8 DEF TapsState
    <3>2. w' = [h EXCEPT !.track = FALSE, !.target = g, !.timer = TRUE, !.clicks = 1, !.toggles = 1]
      <4>1. (h.timer \/ ~h.track) = TRUE /\ h.toggles + 1 = 1 /\ h.clicks = 1
        BY <1>8
      <4>2. allow \/ (h.target # Nothing /\ ~Tap!TargetNeedsPrevent(h.target) /\ ~h.moved)
        BY <1>8, <2>2
      <4> HIDE DEF allow
      <4> QED
        BY <1>8, <2>1, <4>1, <4>2 DEF Tap!HandleClick, allow
    <3> HIDE DEF g
    <3> QED
      <4>1. h \in TapsState
        BY <1>8
      <4> HIDE DEF h
      <4>2. w' \in TapsState
        <5>1. TRUE \in BOOLEAN /\ 1 \in 0 .. 1
          OBVIOUS
        <5>2. [h EXCEPT !.track = FALSE, !.target = g, !.timer = TRUE, !.clicks = 1, !.toggles = 1]
                  \in TapsState
          BY TapsHandled, <3>1, <4>1, <5>1
        <5> QED
          BY <3>2, <5>2
      <4>3. /\ w'.fingers = h.fingers /\ w'.el = h.el /\ w'.clicks = 1 /\ w'.toggles = 1
            /\ ~w'.track
            /\ w'.slid = h.slid /\ w'.native = h.native /\ w'.single = h.single
        BY <3>2, <4>1 DEF TapsState
      <4> QED
        BY <1>8, <4>2, <4>3
  <2> QED
    BY <1>5, <1>6, <1>8, <2>3
<1> QED
  BY <1>7, <1>9, <1>10

LEMMA TapsTouchEnd == TapsGood(w) /\ Tap!TouchEnd => TapsGood(w')
<1> SUFFICES ASSUME TapsGood(w), Tap!TouchEnd PROVE TapsGood(w')
  OBVIOUS
<1> DEFINE s == [w EXCEPT !.fingers = @ - 1]
<1>1. /\ w \in TapsState /\ w.fingers > 0 /\ w.native = Nothing /\ w.fingers - 1 \in 0 .. 1
      /\ w.el # Nothing
      /\ w.el \in Tap!Element
  BY DEF TapsGood, Tap!TouchEnd, TapsDown, TapsState
<1>2. /\ s \in TapsState /\ s.fingers = w.fingers - 1 /\ s.target = w.target /\ s.el = w.el
      /\ s.track = w.track /\ s.needs = w.needs /\ s.timer = w.timer /\ s.moved = w.moved
      /\ s.slid = w.slid /\ s.clicks = w.clicks /\ s.toggles = w.toggles /\ s.native = w.native
      /\ s.single = w.single /\ s.soon = w.soon /\ s.focus = w.focus
  BY TapsNumbers, <1>1 DEF TapsState
<1>3. CASE ~w.track /\ w.needs /\ w' = s
  BY <1>1, <1>2, <1>3 DEF TapsGood, TapsTracked, TapsDown, TapsNative, TapsSlid, TapsDone
<1>4. ASSUME Tap!NativeClick(s), \/ ~w.track /\ ~w.needs
                                 \/ w.track /\ w.focus = w.el
      PROVE  TapsGood(w')
  <2>1. CASE s.single /\ ~(s.slid /\ s.el = "plain") /\ w' = [s EXCEPT !.native = s.el]
    <3>1. w.fingers = 1 /\ w.clicks = 0 /\ w.toggles = 0 /\ w.single /\ ~w.slid
      BY <1>1, <1>2, <1>4, <2>1 DEF TapsGood, TapsDown, TapsTracked
    <3>2. (w.el = "plain" /\ ~w.needs /\ ~w.track) \/ (w.el = "field" /\ w.track)
      BY <1>1, <1>4, <3>1 DEF TapsGood, TapsDown, TapsState
    <3>3. /\ w' \in TapsState /\ w'.fingers = 0 /\ w'.target = w.target /\ w'.el = w.el
          /\ w'.track = w.track /\ w'.needs = w.needs /\ w'.native = w.el
          /\ w'.slid = w.slid /\ w'.clicks = 0 /\ w'.toggles = 0
      <4> HIDE DEF s
      <4> QED
        BY TapsNumbers, <1>2, <2>1, <3>1 DEF TapsState
    <3> QED
      BY <1>1, <3>1, <3>2, <3>3 DEF TapsGood, TapsTracked, TapsDown, TapsNative, TapsSlid, TapsDone
  <2>2. CASE w' = [s EXCEPT !.single = FALSE]
    <3>1. /\ w' \in TapsState /\ w'.fingers = w.fingers - 1 /\ w'.target = w.target /\ w'.el = w.el
          /\ w'.track = w.track /\ w'.needs = w.needs /\ w'.timer = w.timer /\ w'.moved = w.moved
          /\ w'.slid = w.slid /\ w'.clicks = w.clicks /\ w'.toggles = w.toggles
          /\ w'.native = w.native /\ ~w'.single
      <4> HIDE DEF s
      <4> QED
        BY TapsNumbers, <1>2, <2>2 DEF TapsState
    <3> QED
      BY <1>1, <3>1 DEF TapsGood, TapsTracked, TapsDown, TapsNative, TapsSlid, TapsDone
  <2> QED
    BY <1>4, <2>1, <2>2 DEF Tap!NativeClick
<1>5. CASE w.track /\ w' = [s EXCEPT !.soon = TRUE]
  <2>1. /\ w' \in TapsState /\ w'.fingers = w.fingers - 1 /\ w'.target = w.target /\ w'.el = w.el
        /\ w'.track = w.track /\ w'.needs = w.needs /\ w'.timer = w.timer /\ w'.moved = w.moved
        /\ w'.slid = w.slid /\ w'.clicks = w.clicks /\ w'.toggles = w.toggles
        /\ w'.native = w.native /\ w'.single = w.single /\ w'.soon
    <3> HIDE DEF s
    <3> QED
      BY TapsNumbers, <1>2, <1>5 DEF TapsState
  <2> QED
    BY <1>1, <2>1 DEF TapsGood, TapsTracked, TapsDown, TapsNative, TapsSlid, TapsDone
<1>6. CASE w.track /\ w.focus # w.el /\ w' = Tap!SendClick(s)
  BY <1>1, <1>6, TapsSendClick
<1> HIDE DEF s
<1> QED
  BY <1>3, <1>4, <1>5, <1>6 DEF Tap!TouchEnd, s

LEMMA TapsNativeComes == TapsGood(w) /\ Tap!Native => TapsGood(w')
<1> SUFFICES ASSUME TapsGood(w), Tap!Native PROVE TapsGood(w')
  OBVIOUS
<1> DEFINE s == [w EXCEPT !.native = Nothing]
<1>1. /\ w \in TapsState /\ w.native # Nothing /\ w.native = w.el /\ w.clicks = 0 /\ w.toggles = 0
      /\ ~w.slid /\ w.fingers = 0 /\ w.el \in {"plain", "field"} /\ (w.track \/ ~w.needs)
  BY DEF TapsGood, TapsNative, Tap!Native
<1>2. /\ s \in TapsState /\ s.fingers = 0 /\ s.el = w.el /\ s.track = w.track /\ s.needs = w.needs
      /\ ~s.slid /\ s.clicks = 0 /\ s.toggles = 0 /\ s.native = Nothing
  BY TapsNumbers, <1>1 DEF TapsState
<1>3. w' = Tap!HandleClick(s, w.el, FALSE)
  BY <1>1 DEF Tap!Native, Tap!Click
<1> HIDE DEF s
<1>4. /\ w' \in TapsState /\ w'.fingers = 0 /\ w'.el = w.el /\ ~w'.slid /\ w'.clicks = 1
      /\ w'.native = Nothing
  <2> DEFINE g == IF ~s.track THEN s.target ELSE Nothing
             m == s.timer \/ ~s.track
  <2>1. Tap!AllowClick(s, w.el, FALSE) /\ w.el # "checkbox"
    BY <1>1, <1>2 DEF Tap!AllowClick
  <2>2. g \in Tap!Element \cup {Nothing} /\ m \in BOOLEAN
    BY <1>2 DEF TapsState
  <2>3. w' = [s EXCEPT !.track = FALSE, !.target = g, !.timer = m, !.clicks = 1, !.toggles = 0]
    BY <1>2, <1>3, <2>1 DEF Tap!HandleClick, TapsState
  <2> HIDE DEF g, m
  <2> QED
    <3>1. w' \in TapsState
      BY TapsNumbers, TapsHandled, <1>2, <2>2, <2>3
    <3>2. s \in TapsState
      BY <1>2
    <3>3. /\ w'.fingers = s.fingers /\ w'.el = s.el /\ w'.slid = s.slid /\ w'.clicks = 1
          /\ w'.native = s.native
      BY <2>3, <3>2 DEF TapsState
    <3> QED
      BY <1>2, <3>1, <3>3
<1> QED
  BY <1>1, <1>4 DEF TapsGood, TapsTracked, TapsDown, TapsNative, TapsSlid, TapsDone

LEMMA TapsOthers ==
    ASSUME TapsGood(w), \/ Tap!SecondFinger \/ Tap!TouchMove \/ Tap!TouchCancel
                        \/ Tap!NeedsFastClickTimeOut \/ Tap!Later
    PROVE  TapsGood(w')
<1>1. w \in TapsState
  BY DEF TapsGood
<1>2. CASE Tap!SecondFinger
  <2>1. /\ w' \in TapsState /\ w.fingers = 1 /\ w'.fingers = 2 /\ w'.target = w.target
        /\ w'.el = w.el
        /\ w'.track = w.track /\ w'.needs = w.needs /\ w'.timer = w.timer /\ ~w'.moved
        /\ w'.slid = w.slid /\ w'.clicks = w.clicks /\ w'.toggles = w.toggles
        /\ w'.native = w.native /\ ~w'.single
    BY TapsNumbers, <1>1, <1>2 DEF TapsState, Tap!SecondFinger
  <2> QED
    BY <2>1 DEF TapsGood, TapsTracked, TapsDown, TapsNative, TapsSlid, TapsDone
<1>3. CASE Tap!TouchMove
  <2>1. /\ w' \in TapsState /\ w.fingers > 0 /\ w.clicks = 0 /\ w'.fingers = w.fingers
        /\ w'.el = w.el
        /\ ~w'.track /\ w'.needs = w.needs /\ w'.timer = w.timer
        /\ w'.slid /\ w'.clicks = w.clicks /\ w'.toggles = w.toggles
        /\ w'.native = w.native /\ w'.single = w.single
    <3>1. CASE w.track
      <4>1. w' = [w EXCEPT !.slid = TRUE, !.track = FALSE, !.target = Nothing, !.moved = TRUE]
        BY <1>3, <3>1 DEF Tap!TouchMove
      <4>2. w' \in TapsState
        BY TapsNumbers, <1>1, <4>1 DEF TapsState
      <4> QED
        BY TapsNumbers, <1>1, <1>3, <4>1, <4>2 DEF TapsState, Tap!TouchMove
    <3>2. CASE ~w.track
      BY TapsNumbers, <1>1, <1>3, <3>2 DEF TapsState, Tap!TouchMove
    <3> QED
      BY TapsNumbers, <1>1, <3>1, <3>2 DEF TapsState
  <2> QED
    BY <2>1 DEF TapsGood, TapsTracked, TapsDown, TapsNative, TapsSlid, TapsDone
<1>4. CASE Tap!TouchCancel
  <2>1. /\ w' \in TapsState /\ w.fingers > 0 /\ w'.fingers = 0 /\ ~w'.track
        /\ w'.slid = w.slid /\ w'.clicks = w.clicks /\ w'.toggles = w.toggles
        /\ w'.native = w.native /\ ~w'.single
    BY TapsNumbers, <1>1, <1>4 DEF TapsState, Tap!TouchCancel
  <2> QED
    BY <2>1 DEF TapsGood, TapsTracked, TapsDown, TapsNative, TapsSlid, TapsDone
<1>5. CASE Tap!NeedsFastClickTimeOut
  <2>1. /\ w' \in TapsState /\ w'.fingers = w.fingers /\ w'.target = w.target /\ w'.el = w.el
        /\ w'.track = w.track /\ ~w'.needs /\ w.timer /\ w'.moved = w.moved
        /\ w'.slid = w.slid /\ w'.clicks = w.clicks /\ w'.toggles = w.toggles
        /\ w'.native = w.native /\ w'.single = w.single /\ w'.soon = w.soon
    BY TapsNumbers, <1>1, <1>5 DEF TapsState, Tap!NeedsFastClickTimeOut
  <2> QED
    BY <2>1 DEF TapsGood, TapsTracked, TapsDown, TapsNative, TapsSlid, TapsDone
<1>6. CASE Tap!Later
  <2>1. /\ w' \in TapsState /\ w'.fingers = w.fingers /\ w'.target = w.target /\ w'.el = w.el
        /\ w'.track = w.track /\ w'.needs = w.needs /\ w'.timer = w.timer /\ w'.moved = w.moved
        /\ w'.slid = w.slid /\ w'.clicks = w.clicks /\ w'.toggles = w.toggles
        /\ w'.native = w.native /\ w'.single = w.single /\ w'.soon = w.soon
    BY TapsNumbers, <1>1, <1>6 DEF TapsState, Tap!Later
  <2> QED
    BY <2>1 DEF TapsGood, TapsTracked, TapsDown, TapsNative, TapsSlid, TapsDone
<1> QED
  BY <1>2, <1>3, <1>4, <1>5, <1>6

LEMMA TapsStepIInv == TapsIInv /\ [Tap!Next]_w => TapsIInv'
<1> SUFFICES ASSUME TapsGood(w), [Tap!Next]_w PROVE TapsGood(w')
  BY DEF TapsIInv
<1>1. CASE UNCHANGED w
  BY <1>1
<1> QED
  BY <1>1, TapsTouchStart, TapsTouchEnd, TapsNativeComes, TapsOthers DEF Tap!Next

LEMMA TapsOnceFollows == TapsIInv => Tap!TapOnce
  BY DEF TapsIInv, TapsGood, TapsState, TapsSlid, TapsDone, Tap!TapOnce

-----------------------------------------------------------------------------
(* Swipes: the row the finger is on and the rows that are open. *)
SwipesRow == Row \cup {None}

SwipesState ==
    [rows : Seq(Row), opened : SUBSET Row, el : SwipesRow, deleting : SUBSET Row,
     deleted : SUBSET Row, allow : BOOLEAN, closing : SUBSET Row, editing : BOOLEAN,
     finger : BOOLEAN, on : SwipesRow, part : {"content", "handle"}, touched : BOOLEAN,
     moved : BOOLEAN, swiped : SwipesRow, dragged : BOOLEAN, sorting : SwipesRow,
     after : SwipesRow]

\* The rows on the page are those that were not deleted, each once.
SwipesRows(s) ==
    /\ Swipe!Once(s.rows)
    /\ s.deleting \subseteq s.deleted /\ s.deleting \subseteq Swipe!Rows(s)
    /\ Swipe!Rows(s) = Row \ (s.deleted \ s.deleting)

\* A row that is open and stays is the one that is known to be, and the one
\* that the finger is on.
SwipesOne(s) ==
    \A x \in (s.opened \ s.deleting) \cap Swipe!Rows(s) : s.el = x /\ (s.finger => s.on = x)

SwipesFinger(s) ==
    /\ ~s.finger => ~s.touched /\ ~s.moved
    /\ s.finger /\ s.on # None => s.on \in Swipe!Rows(s) \ s.deleting
    /\ s.moved => s.swiped = s.on /\ s.on # None /\ s.on \notin s.opened

SwipesSorting(s) ==
    s.finger /\ s.part = "handle" => s.on # None /\ s.sorting = s.on /\ s.after # s.sorting

SwipesGood(s) == s \in SwipesState /\ SwipesRows(s) /\ SwipesOne(s) /\ SwipesFinger(s)

SwipesIInv == SwipesGood(w) /\ SwipesSorting(w)

-----------------------------------------------------------------------------
LEMMA SwipesPlaceOf ==
    ASSUME NEW q \in Seq(Row), NEW x \in Swipe!Range(q)
    PROVE  Swipe!PlaceOf(q, x) \in 1 .. Len(q) /\ q[Swipe!PlaceOf(q, x)] = x
<1>1. DOMAIN q = 1 .. Len(q)
  OBVIOUS
<1>2. \E i \in DOMAIN q : q[i] = x
  BY DEF Swipe!Range
<1> QED
  BY <1>1, <1>2 DEF Swipe!PlaceOf

LEMMA SwipesWithout ==
    ASSUME NEW q \in Seq(Row), Swipe!Once(q), NEW x \in Swipe!Range(q)
    PROVE  LET t == Swipe!Without(q, x)
           IN  t \in Seq(Row) /\ Swipe!Once(t) /\ Swipe!Range(t) = Swipe!Range(q) \ {x}
                              /\ Len(t) = Len(q) - 1
<1> DEFINE a == Swipe!PlaceOf(q, x)
           n == Len(q)
           t == Swipe!Without(q, x)
<1>1. n \in Nat /\ DOMAIN q = 1 .. n /\ (\A i \in 1 .. n : q[i] \in Row)
  OBVIOUS
<1>2. a \in 1 .. n /\ q[a] = x
  BY SwipesPlaceOf
<1>3. t = [i \in 1 .. n - 1 |-> q[IF i < a THEN i ELSE i + 1]]
  BY DEF Swipe!Without
<1> HIDE DEF a, n, t
<1>4. n - 1 \in Nat
  BY <1>1, <1>2
<1>5. \A i \in 1 .. n - 1 : i < a => t[i] = q[i] /\ i \in 1 .. n
  BY <1>1, <1>3
<1>6. \A i \in 1 .. n - 1 : ~(i < a) => t[i] = q[i + 1] /\ i + 1 \in 1 .. n
  BY <1>1, <1>3
<1>7. t \in [1 .. n - 1 -> Row]
  BY <1>1, <1>3, <1>5, <1>6
<1>8. t \in Seq(Row) /\ DOMAIN t = 1 .. n - 1 /\ Len(t) = n - 1
  BY <1>4, <1>7
<1>9. \A i, j \in 1 .. n : q[i] = q[j] => i = j
  BY <1>1 DEF Swipe!Once
<1>10. Swipe!Once(t)
  <2> SUFFICES ASSUME NEW i \in 1 .. n - 1, NEW j \in 1 .. n - 1, t[i] = t[j] PROVE i = j
    BY <1>8 DEF Swipe!Once
  <2>1. CASE i < a /\ j < a
    BY <1>5, <1>9, <2>1
  <2>2. CASE ~(i < a) /\ ~(j < a)
    <3>1. i + 1 = j + 1
      BY <1>6, <1>9, <2>2
    <3> QED
      BY <1>1, <3>1
  <2>3. CASE i < a /\ ~(j < a)
    <3>1. i = j + 1
      BY <1>5, <1>6, <1>9, <2>3
    <3> QED
      BY <1>1, <1>2, <2>3, <3>1
  <2>4. CASE ~(i < a) /\ j < a
    <3>1. i + 1 = j
      BY <1>5, <1>6, <1>9, <2>4
    <3> QED
      BY <1>1, <1>2, <2>4, <3>1
  <2> QED
    BY <2>1, <2>2, <2>3, <2>4
<1>11. ASSUME NEW y \in Swipe!Range(t) PROVE y \in Swipe!Range(q) \ {x}
  <2>1. PICK i \in 1 .. n - 1 : t[i] = y
    BY <1>8, <1>11 DEF Swipe!Range
  <2>2. CASE i < a
    <3>1. y = q[i] /\ i \in 1 .. n /\ i # a
      BY <1>1, <1>2, <1>5, <2>1, <2>2
    <3> QED
      BY <1>1, <1>2, <1>9, <3>1 DEF Swipe!Range
  <2>3. CASE ~(i < a)
    <3>1. y = q[i + 1] /\ i + 1 \in 1 .. n /\ i + 1 # a
      BY <1>1, <1>2, <1>6, <2>1, <2>3
    <3> QED
      BY <1>1, <1>2, <1>9, <3>1 DEF Swipe!Range
  <2> QED
    BY <2>2, <2>3
<1>12. ASSUME NEW y \in Swipe!Range(q) \ {x} PROVE y \in Swipe!Range(t)
  <2>1. PICK i \in 1 .. n : q[i] = y /\ i # a
    BY <1>1, <1>2, <1>12 DEF Swipe!Range
  <2>2. CASE i < a
    <3>1. i \in 1 .. n - 1 /\ t[i] = y
      BY <1>1, <1>2, <1>5, <2>1, <2>2
    <3> QED
      BY <1>8, <3>1 DEF Swipe!Range
  <2>3. CASE ~(i < a)
    <3>1. i - 1 \in 1 .. n - 1 /\ ~(i - 1 < a)
      BY <1>1, <1>2, <2>1, <2>3
    <3>2. t[i - 1] = y
      BY <1>1, <1>6, <2>1, <3>1
    <3> QED
      BY <1>8, <3>1, <3>2 DEF Swipe!Range
  <2> QED
    BY <2>2, <2>3
<1> QED
  BY <1>8, <1>10, <1>11, <1>12 DEF t, n

LEMMA SwipesInsert ==
    ASSUME NEW q \in Seq(Row), Swipe!Once(q), NEW x \in Row, x \notin Swipe!Range(q),
           NEW at \in 1 .. Len(q) + 1
    PROVE  LET t == Swipe!Insert(q, at, x)
           IN  t \in Seq(Row) /\ Swipe!Once(t) /\ Swipe!Range(t) = Swipe!Range(q) \cup {x}
<1> DEFINE n == Len(q)
           t == Swipe!Insert(q, at, x)
<1>1. n \in Nat /\ DOMAIN q = 1 .. n /\ (\A i \in 1 .. n : q[i] \in Row /\ q[i] # x) /\ at \in 1 .. n + 1
  BY DEF Swipe!Range
<1>2. t = [i \in 1 .. n + 1 |-> IF i < at THEN q[i] ELSE IF i = at THEN x ELSE q[i - 1]]
  BY DEF Swipe!Insert
<1> HIDE DEF n, t
<1>3. n + 1 \in Nat
  BY <1>1
<1>4. \A i \in 1 .. n + 1 : i < at => t[i] = q[i] /\ i \in 1 .. n
  BY <1>1, <1>2
<1>5. \A i \in 1 .. n + 1 : i > at => t[i] = q[i - 1] /\ i - 1 \in 1 .. n
  BY <1>1, <1>2
<1>6. t[at] = x
  BY <1>1, <1>2
<1>7. t \in [1 .. n + 1 -> Row]
  BY <1>1, <1>2, <1>4, <1>5
<1>8. t \in Seq(Row) /\ DOMAIN t = 1 .. n + 1
  BY <1>3, <1>7
<1>9. \A i, j \in 1 .. n : q[i] = q[j] => i = j
  BY <1>1 DEF Swipe!Once
<1>10. ASSUME NEW i \in 1 .. n + 1 PROVE i < at \/ i = at \/ i > at
  BY <1>1
<1>11. Swipe!Once(t)
  <2> SUFFICES ASSUME NEW i \in 1 .. n + 1, NEW j \in 1 .. n + 1, t[i] = t[j] PROVE i = j
    BY <1>8 DEF Swipe!Once
  <2>1. CASE i = at \/ j = at
    BY <1>1, <1>4, <1>5, <1>6, <1>10, <2>1
  <2>2. CASE i < at /\ j < at
    BY <1>4, <1>9, <2>2
  <2>3. CASE i > at /\ j > at
    <3>1. i - 1 = j - 1
      BY <1>5, <1>9, <2>3
    <3> QED
      BY <1>1, <3>1
  <2>4. CASE i < at /\ j > at
    <3>1. i = j - 1
      BY <1>4, <1>5, <1>9, <2>4
    <3> QED
      BY <1>1, <2>4, <3>1
  <2>5. CASE i > at /\ j < at
    <3>1. i - 1 = j
      BY <1>4, <1>5, <1>9, <2>5
    <3> QED
      BY <1>1, <2>5, <3>1
  <2> QED
    BY <1>10, <2>1, <2>2, <2>3, <2>4, <2>5
<1>12. ASSUME NEW y \in Swipe!Range(t) PROVE y \in Swipe!Range(q) \cup {x}
  <2>1. PICK i \in 1 .. n + 1 : t[i] = y
    BY <1>8, <1>12 DEF Swipe!Range
  <2> QED
    BY <1>1, <1>4, <1>5, <1>6, <1>10, <2>1 DEF Swipe!Range
<1>13. ASSUME NEW y \in Swipe!Range(q) \cup {x} PROVE y \in Swipe!Range(t)
  <2>1. CASE y = x
    BY <1>1, <1>6, <1>8, <2>1 DEF Swipe!Range
  <2>2. CASE y \in Swipe!Range(q)
    <3>1. PICK i \in 1 .. n : q[i] = y
      BY <1>1, <2>2 DEF Swipe!Range
    <3>2. CASE i < at
      <4>1. i \in 1 .. n + 1 /\ t[i] = y
        BY <1>1, <1>4, <3>1, <3>2
      <4> QED
        BY <1>8, <4>1 DEF Swipe!Range
    <3>3. CASE ~(i < at)
      <4>1. i + 1 \in 1 .. n + 1 /\ i + 1 > at /\ (i + 1) - 1 = i
        BY <1>1, <3>1, <3>3
      <4>2. t[i + 1] = y
        BY <1>5, <3>1, <4>1
      <4> QED
        BY <1>8, <4>1, <4>2 DEF Swipe!Range
    <3> QED
      BY <3>2, <3>3
  <2> QED
    BY <1>13, <2>1, <2>2
<1> QED
  BY <1>8, <1>11, <1>12, <1>13 DEF t

\* removing a row and putting it at the place of another
LEMMA SwipesDrop ==
    ASSUME NEW s \in SwipesState, SwipesRows(s), s.sorting \in Swipe!Rows(s),
           s.after \in Swipe!Rows(s)
    PROVE  LET t == Swipe!Drop(s)
           IN  t \in Seq(Row) /\ Swipe!Once(t) /\ Swipe!Range(t) = Swipe!Rows(s)
<1> DEFINE q == Swipe!Without(s.rows, s.sorting)
           at == Swipe!PlaceOf(s.rows, s.after)
           t == Swipe!Drop(s)
<1>1. s.rows \in Seq(Row) /\ Swipe!Once(s.rows) /\ Swipe!Rows(s) = Swipe!Range(s.rows)
  BY DEF SwipesState, SwipesRows, Swipe!Rows
<1>2. s.sorting \in Row
  BY <1>1 DEF SwipesRows
<1>3. /\ q \in Seq(Row) /\ Swipe!Once(q) /\ Swipe!Range(q) = Swipe!Range(s.rows) \ {s.sorting}
      /\ Len(q) = Len(s.rows) - 1
  BY <1>1, SwipesWithout
<1>4. at \in 1 .. Len(s.rows)
  BY <1>1, SwipesPlaceOf
<1>5. t = Swipe!Insert(q, at, s.sorting)
  BY DEF Swipe!Drop
<1> HIDE DEF q, at, t
<1>6. at \in 1 .. Len(q) + 1
  BY <1>1, <1>3, <1>4
<1>7. t \in Seq(Row) /\ Swipe!Once(t) /\ Swipe!Range(t) = Swipe!Range(q) \cup {s.sorting}
  BY <1>2, <1>3, <1>5, <1>6, SwipesInsert
<1> QED
  BY <1>1, <1>3, <1>7 DEF t

-----------------------------------------------------------------------------
\* What does not concern the rows that are open.
SwipesSameRows(s, t) == t.rows = s.rows /\ t.deleting = s.deleting /\ t.deleted = s.deleted

LEMMA SwipesKeepRows ==
    ASSUME NEW s, SwipesRows(s), NEW t, SwipesSameRows(s, t)
    PROVE  SwipesRows(t) /\ Swipe!Rows(t) = Swipe!Rows(s)
BY DEF SwipesRows, SwipesSameRows, Swipe!Rows

LEMMA SwipesClose ==
    ASSUME NEW s \in SwipesState, NEW x \in Row
    PROVE  LET t == Swipe!SwipeoutClose(s, x)
           IN  /\ t \in SwipesState /\ SwipesSameRows(s, t)
               /\ t.opened = s.opened \ {x} /\ t.el \in {s.el, None}
               /\ t.el # s.el => s.el = x
               /\ t.editing = s.editing /\ t.finger = s.finger /\ t.on = s.on /\ t.part = s.part
               /\ t.touched = s.touched /\ t.moved = s.moved /\ t.swiped = s.swiped
               /\ t.sorting = s.sorting /\ t.after = s.after
<1> DEFINE el == IF s.el = x THEN None ELSE s.el
           t == [s EXCEPT !.allow = FALSE, !.opened = s.opened \ {x}, !.closing = s.closing \cup {x},
                          !.el = el]
<1>1. CASE x \notin s.opened
  BY <1>1 DEF Swipe!SwipeoutClose, SwipesSameRows, SwipesState
<1>2. CASE x \in s.opened
  <2>1. Swipe!SwipeoutClose(s, x) = t
    BY <1>2 DEF Swipe!SwipeoutClose
  <2>2. el \in SwipesRow /\ el \in {s.el, None} /\ (el # s.el => s.el = x)
    BY DEF SwipesState, SwipesRow
  <2> HIDE DEF el
  <2>3. t \in SwipesState
    BY <2>2 DEF SwipesState
  <2>4. t.rows = s.rows /\ t.deleting = s.deleting /\ t.deleted = s.deleted
    BY DEF SwipesState
  <2>5. t.opened = s.opened \ {x} /\ t.el = el /\ t.editing = s.editing /\ t.finger = s.finger
    BY DEF SwipesState
  <2>6. t.on = s.on /\ t.part = s.part /\ t.touched = s.touched /\ t.moved = s.moved
    BY DEF SwipesState
  <2>7. t.swiped = s.swiped /\ t.sorting = s.sorting /\ t.after = s.after
    BY DEF SwipesState
  <2> HIDE DEF t
  <2> QED
    BY <2>1, <2>2, <2>3, <2>4, <2>5, <2>6, <2>7 DEF SwipesSameRows
<1> QED
  BY <1>1, <1>2

\* The row is deleted: it will leave the page.
LEMMA SwipesDelete ==
    ASSUME NEW s, SwipesGood(s), ~s.finger, NEW x \in Swipe!Rows(s),
           \A y \in (s.opened \ s.deleting) \cap Swipe!Rows(s) : y = x
    PROVE  LET t == Swipe!SwipeoutDelete(s, x)
           IN  SwipesGood(t) /\ ~t.finger
<1> DEFINE t == [s EXCEPT !.el = None, !.deleting = s.deleting \cup {x}, !.deleted = s.deleted \cup {x}]
<1>1. s \in SwipesState /\ SwipesRows(s) /\ x \in Row /\ ~s.touched /\ ~s.moved
  BY DEF SwipesGood, SwipesRows, SwipesFinger
<1>2. t \in SwipesState
  BY <1>1 DEF SwipesState, SwipesRow
<1>3. t.rows = s.rows /\ t.deleting = s.deleting \cup {x} /\ t.deleted = s.deleted \cup {x}
  BY <1>1 DEF SwipesState
<1>4. t.opened = s.opened /\ t.finger = s.finger /\ t.touched = s.touched /\ t.moved = s.moved
  BY <1>1 DEF SwipesState
<1> HIDE DEF t
<1>5. Swipe!Rows(t) = Swipe!Rows(s)
  BY <1>3 DEF Swipe!Rows
<1>6. SwipesRows(t)
  BY <1>1, <1>3, <1>5 DEF SwipesRows
<1>7. SwipesOne(t)
  BY <1>3, <1>4, <1>5 DEF SwipesOne
<1>8. SwipesFinger(t) /\ ~t.finger
  BY <1>1, <1>4 DEF SwipesFinger
<1> QED
  BY <1>2, <1>6, <1>7, <1>8 DEF SwipesGood, Swipe!SwipeoutDelete, t

\* The finger goes down on x: the row that is open elsewhere is closed.
LEMMA SwipesTouchStart ==
    ASSUME SwipesIInv, NEW x \in Swipe!Rows(w) \cup {None},
           NEW piece \in {"content", "handle"}, Swipe!TouchStart(x, piece)
    PROVE  SwipesIInv'
<1> DEFINE a == [w EXCEPT !.finger = TRUE, !.on = x, !.part = piece]
           b == Swipe!CloseOther(a, x)
           c == Swipe!SwipeStart(b)
<1>1. /\ w \in SwipesState /\ SwipesRows(w) /\ SwipesOne(w) /\ ~w.touched /\ ~w.moved
      /\ x \notin w.deleting /\ (x = None => piece = "content") /\ w' = Swipe!SortStart(c)
  BY DEF SwipesIInv, SwipesGood, SwipesFinger, Swipe!TouchStart
<1>2. x \in SwipesRow
  BY <1>1 DEF SwipesRows, SwipesRow
<1>3. a \in SwipesState
  BY <1>1, <1>2 DEF SwipesState
<1>4. SwipesSameRows(w, a)
  BY <1>1 DEF SwipesState, SwipesSameRows
<1>5. a.opened = w.opened /\ a.el = w.el /\ a.finger = TRUE /\ a.on = x /\ a.part = piece
  BY <1>1, <1>2 DEF SwipesState
<1>6. a.touched = w.touched /\ a.moved = w.moved
  BY <1>1 DEF SwipesState
<1> HIDE DEF a
<1>7. /\ b \in SwipesState /\ SwipesSameRows(a, b)
      /\ b.finger = TRUE /\ b.on = x /\ b.part = piece /\ ~b.moved
      /\ \A y \in (b.opened \ b.deleting) \cap Swipe!Rows(b) : b.el = y /\ x = y
  <2>1. CASE a.el \in {None, x}
    <3>1. b = a
      BY <2>1 DEF Swipe!CloseOther
    <3>2. Swipe!Rows(a) = Swipe!Rows(w) /\ a.deleting = w.deleting
      BY <1>4 DEF SwipesSameRows, Swipe!Rows
    <3>3. None \notin Swipe!Rows(w)
      BY <1>1, DocumentPartsAssumption DEF SwipesRows, Swipe!SwipesAssumption
    <3> QED
      BY <1>1, <1>3, <1>5, <1>6, <2>1, <3>1, <3>2, <3>3 DEF SwipesOne, SwipesSameRows
  <2>2. CASE a.el \notin {None, x}
    <3>1. b = Swipe!SwipeoutClose(a, a.el) /\ a.el \in Row
      BY <1>3, <2>2 DEF Swipe!CloseOther, SwipesState, SwipesRow
    <3> HIDE DEF b
    <3>2. /\ b \in SwipesState /\ SwipesSameRows(a, b)
          /\ b.opened = a.opened \ {a.el}
          /\ b.finger = a.finger /\ b.on = a.on /\ b.part = a.part /\ b.moved = a.moved
      BY <1>3, <3>1, SwipesClose
    <3>3. Swipe!Rows(b) = Swipe!Rows(w) /\ b.deleting = w.deleting
      BY <1>4, <3>2 DEF SwipesSameRows, Swipe!Rows
    <3> QED
      BY <1>1, <1>5, <1>6, <3>2, <3>3 DEF SwipesOne
  <2> QED
    BY <2>1, <2>2
<1> HIDE DEF b
<1>8. /\ c \in SwipesState /\ SwipesSameRows(b, c)
      /\ c.finger = TRUE /\ c.on = x /\ c.part = piece /\ ~c.moved
      /\ c.opened = b.opened /\ c.el = b.el
  <2>1. CASE ~b.allow \/ b.on = None
    <3>1. c = b
      BY <2>1 DEF Swipe!SwipeStart
    <3> QED
      BY <1>7, <3>1 DEF SwipesSameRows
  <2>2. CASE ~(~b.allow \/ b.on = None)
    <3>1. c = [b EXCEPT !.touched = TRUE, !.moved = FALSE]
      BY <2>2 DEF Swipe!SwipeStart
    <3> HIDE DEF c
    <3>2. c \in SwipesState
      BY <1>7, <3>1 DEF SwipesState
    <3>3. SwipesSameRows(b, c)
      BY <1>7, <3>1 DEF SwipesState, SwipesSameRows
    <3>4. /\ c.finger = b.finger /\ c.on = b.on /\ c.part = b.part /\ c.moved = FALSE
          /\ c.opened = b.opened /\ c.el = b.el
      BY <1>7, <3>1 DEF SwipesState
    <3> QED
      BY <1>7, <3>2, <3>3, <3>4
  <2> QED
    BY <2>1, <2>2
<1> HIDE DEF c
<1>9. /\ w' \in SwipesState /\ SwipesSameRows(c, w')
      /\ w'.finger = TRUE /\ w'.on = x /\ w'.part = piece /\ ~w'.moved
      /\ w'.opened = c.opened /\ w'.el = c.el
      /\ piece = "handle" => w'.sorting = x /\ w'.after = None
  <2>1. CASE piece # "handle"
    <3>1. w' = c
      BY <1>1, <1>8, <2>1 DEF Swipe!SortStart
    <3> QED
      BY <1>8, <2>1, <3>1 DEF SwipesSameRows
  <2>2. CASE piece = "handle"
    <3>1. w' = [c EXCEPT !.dragged = TRUE, !.sorting = x, !.after = None, !.allow = FALSE]
      BY <1>1, <1>8, <2>2 DEF Swipe!SortStart
    <3>2. w' \in SwipesState
      BY <1>2, <1>8, <3>1 DEF SwipesState, SwipesRow
    <3>3. SwipesSameRows(c, w')
      BY <1>8, <3>1 DEF SwipesState, SwipesSameRows
    <3>4. /\ w'.finger = c.finger /\ w'.on = c.on /\ w'.part = c.part /\ w'.moved = c.moved
          /\ w'.opened = c.opened /\ w'.el = c.el
      BY <1>8, <3>1 DEF SwipesState
    <3>5. w'.sorting = x /\ w'.after = None
      BY <1>8, <3>1 DEF SwipesState
    <3> QED
      BY <1>8, <3>2, <3>3, <3>4, <3>5
  <2> QED
    BY <2>1, <2>2
<1>10. /\ SwipesSameRows(w, w') /\ SwipesRows(w') /\ Swipe!Rows(w') = Swipe!Rows(w)
       /\ Swipe!Rows(w') = Swipe!Rows(b) /\ w'.deleting = b.deleting /\ w'.deleting = w.deleting
  <2>1. SwipesSameRows(w, w') /\ SwipesSameRows(b, w')
    BY <1>4, <1>7, <1>8, <1>9 DEF SwipesSameRows
  <2> QED
    BY <1>1, <2>1, SwipesKeepRows DEF SwipesSameRows, Swipe!Rows
<1>11. SwipesOne(w')
  BY <1>7, <1>8, <1>9, <1>10 DEF SwipesOne
<1>12. SwipesFinger(w')
  BY <1>1, <1>9, <1>10 DEF SwipesFinger
<1>13. SwipesSorting(w')
  <2>1. piece = "handle" => x \in Row
    BY <1>1, <1>2 DEF SwipesRow
  <2> QED
    BY <1>9, <2>1, DocumentPartsAssumption DEF SwipesSorting, Swipe!SwipesAssumption
<1> QED
  BY <1>9, <1>10, <1>11, <1>12, <1>13 DEF SwipesIInv, SwipesGood

\* A step that leaves the rows, those that are open and the finger alone.
LEMMA SwipesKeep ==
    ASSUME SwipesIInv, NEW t \in SwipesState, SwipesSameRows(w, t), t.opened \subseteq w.opened,
           t.el = w.el, t.finger = w.finger, t.on = w.on, t.part = w.part,
           ~w.finger => ~t.touched /\ ~t.moved,
           t.moved => (w.moved /\ t.swiped = w.swiped) \/ (t.swiped = t.on /\ t.on # None /\ t.on \notin t.opened),
           t.finger /\ t.part = "handle" => t.sorting = w.sorting /\ t.after # t.sorting
    PROVE  SwipesGood(t) /\ SwipesSorting(t)
<1>1. w \in SwipesState /\ SwipesRows(w) /\ SwipesOne(w) /\ SwipesFinger(w) /\ SwipesSorting(w)
  BY DEF SwipesIInv, SwipesGood
<1>2. SwipesRows(t) /\ Swipe!Rows(t) = Swipe!Rows(w) /\ t.deleting = w.deleting
  BY <1>1, SwipesKeepRows DEF SwipesSameRows
<1>3. SwipesOne(t)
  BY <1>1, <1>2 DEF SwipesOne
<1>4. SwipesFinger(t)
  BY <1>1, <1>2 DEF SwipesFinger
<1>5. SwipesSorting(t)
  BY <1>1 DEF SwipesSorting
<1> QED
  BY <1>2, <1>3, <1>4, <1>5 DEF SwipesGood

LEMMA SwipesMove == SwipesIInv /\ (Swipe!SwipeMove \/ Swipe!NoSwipe) => SwipesIInv'
<1> SUFFICES ASSUME SwipesIInv, Swipe!SwipeMove \/ Swipe!NoSwipe PROVE SwipesIInv'
  OBVIOUS
<1>1. w \in SwipesState /\ SwipesFinger(w) /\ SwipesSorting(w) /\ w.finger
  BY DEF SwipesIInv, SwipesGood, Swipe!SwipeMove, Swipe!NoSwipe
<1>2. CASE Swipe!SwipeMove /\ w.moved
  BY <1>2 DEF Swipe!SwipeMove, SwipesIInv, SwipesGood
<1>3. CASE Swipe!SwipeMove /\ ~w.moved
  <2>1. w' = [w EXCEPT !.moved = TRUE, !.swiped = w.on, !.opened = w.opened \ {w.on}] /\ w.on # None
    BY <1>3 DEF Swipe!SwipeMove
  <2>2. w' \in SwipesState
    BY <1>1, <2>1 DEF SwipesState
  <2>3. SwipesSameRows(w, w')
    BY <1>1, <2>1 DEF SwipesState, SwipesSameRows
  <2>4. w'.opened = w.opened \ {w.on} /\ w'.el = w.el /\ w'.finger = w.finger /\ w'.on = w.on
    BY <1>1, <2>1 DEF SwipesState
  <2>5. w'.part = w.part /\ w'.swiped = w.on /\ w'.sorting = w.sorting /\ w'.after = w.after
    BY <1>1, <2>1 DEF SwipesState
  <2> QED
    BY <1>1, <2>1, <2>2, <2>3, <2>4, <2>5, SwipesKeep DEF SwipesIInv, SwipesSorting
<1>4. CASE Swipe!NoSwipe
  <2>1. w' = [w EXCEPT !.touched = FALSE]
    BY <1>4 DEF Swipe!NoSwipe
  <2>2. w' \in SwipesState
    BY <1>1, <2>1 DEF SwipesState
  <2>3. SwipesSameRows(w, w')
    BY <1>1, <2>1 DEF SwipesState, SwipesSameRows
  <2>4. w'.opened = w.opened /\ w'.el = w.el /\ w'.finger = w.finger /\ w'.on = w.on
    BY <1>1, <2>1 DEF SwipesState
  <2>5. w'.part = w.part /\ w'.swiped = w.swiped /\ w'.sorting = w.sorting /\ w'.after = w.after
    BY <1>1, <2>1 DEF SwipesState
  <2>6. w'.moved = w.moved
    BY <1>1, <2>1 DEF SwipesState
  <2> QED
    BY <1>1, <2>2, <2>3, <2>4, <2>5, <2>6, SwipesKeep DEF SwipesIInv, SwipesSorting
<1> QED
  BY <1>2, <1>3, <1>4

LEMMA SwipesSortMove ==
    ASSUME SwipesIInv, NEW x \in Row, Swipe!SortMove(x)
    PROVE  SwipesIInv'
<1>1. /\ w \in SwipesState /\ w.finger /\ x # w.sorting
      /\ w' = [w EXCEPT !.after = x, !.touched = FALSE]
  BY DEF SwipesIInv, SwipesGood, Swipe!SortMove
<1>2. w' \in SwipesState
  BY <1>1 DEF SwipesState, SwipesRow
<1>3. SwipesSameRows(w, w')
  BY <1>1 DEF SwipesState, SwipesSameRows
<1>4. w'.opened = w.opened /\ w'.el = w.el /\ w'.finger = w.finger /\ w'.on = w.on
  BY <1>1 DEF SwipesState
<1>5. w'.part = w.part /\ w'.swiped = w.swiped /\ w'.sorting = w.sorting /\ w'.after = x
  BY <1>1 DEF SwipesState
<1>6. w'.moved = w.moved
  BY <1>1 DEF SwipesState
<1> QED
  BY <1>1, <1>2, <1>3, <1>4, <1>5, <1>6, SwipesKeep DEF SwipesIInv

\* The swipe ends: the row is open, closed, or deleted.
LEMMA SwipesSwipeEnd ==
    ASSUME SwipesIInv, w.finger, NEW open \in BOOLEAN, NEW over \in BOOLEAN
    PROVE  LET t == Swipe!SwipeEnd([w EXCEPT !.finger = FALSE], open, over)
           IN  /\ SwipesGood(t) /\ ~t.finger /\ Swipe!Rows(t) = Swipe!Rows(w)
               /\ t.part = w.part /\ t.sorting = w.sorting /\ t.after = w.after
<1> DEFINE s == [w EXCEPT !.finger = FALSE]
           q == [s EXCEPT !.touched = FALSE, !.moved = FALSE]
           p == [q EXCEPT !.el = s.swiped, !.opened = q.opened \cup {s.swiped}]
           t == Swipe!SwipeEnd(s, open, over)
<1>1. w \in SwipesState /\ SwipesRows(w) /\ SwipesOne(w) /\ SwipesFinger(w)
  BY DEF SwipesIInv, SwipesGood
<1>2. s \in SwipesState /\ s.moved = w.moved /\ s.on = w.on /\ s.swiped = w.swiped
  BY <1>1 DEF SwipesState
<1>3. q \in SwipesState
  BY <1>1 DEF SwipesState
<1>4. SwipesSameRows(w, q)
  BY <1>1 DEF SwipesSameRows, SwipesState
<1>5. q.opened = w.opened /\ q.el = w.el /\ q.finger = FALSE /\ q.touched = FALSE /\ q.moved = FALSE
  BY <1>1 DEF SwipesState
<1>6. q.part = w.part /\ q.sorting = w.sorting /\ q.after = w.after
  BY <1>1 DEF SwipesState
<1>7. t = IF ~s.touched \/ ~s.moved \/ s.on = None THEN q
          ELSE IF ~open THEN [q EXCEPT !.el = None]
          ELSE IF over THEN Swipe!SwipeoutDelete(p, s.swiped) ELSE p
  BY DEF Swipe!SwipeEnd
<1> HIDE DEF q, s, t
<1>8. SwipesRows(q) /\ Swipe!Rows(q) = Swipe!Rows(w) /\ q.deleting = w.deleting
  BY <1>1, <1>4, SwipesKeepRows DEF SwipesSameRows
<1>9. SwipesGood(q)
  <2>1. SwipesOne(q) /\ SwipesFinger(q)
    BY <1>1, <1>5, <1>8 DEF SwipesOne, SwipesFinger
  <2> QED
    BY <1>3, <1>8, <2>1 DEF SwipesGood
<1>10. CASE ~s.touched \/ ~s.moved \/ s.on = None
  BY <1>5, <1>6, <1>7, <1>8, <1>9, <1>10 DEF t, s
<1>11. CASE s.touched /\ s.moved /\ s.on # None
  <2>1. /\ w.moved /\ w.on # None /\ w.swiped = w.on /\ w.on \notin w.opened
        /\ w.on \in Swipe!Rows(w) \ w.deleting /\ s.swiped = w.on
    BY <1>1, <1>2, <1>11 DEF SwipesFinger
  <2>2. w.on \in Row
    BY <1>1, <2>1 DEF SwipesRows
  <2>3. (w.opened \ w.deleting) \cap Swipe!Rows(w) = {}
    BY <1>1, <2>1 DEF SwipesOne
  <2>4. CASE ~open
    <3> DEFINE u == [q EXCEPT !.el = None]
    <3>1. t = u
      BY <1>7, <1>11, <2>4
    <3>2. u \in SwipesState
      BY <1>3 DEF SwipesState, SwipesRow
    <3>3. SwipesSameRows(q, u)
      BY <1>3 DEF SwipesState, SwipesSameRows
    <3>4. u.opened = q.opened /\ u.finger = q.finger /\ u.touched = q.touched /\ u.moved = q.moved
      BY <1>3 DEF SwipesState
    <3>5. u.part = q.part /\ u.sorting = q.sorting /\ u.after = q.after
      BY <1>3 DEF SwipesState
    <3> HIDE DEF u
    <3>6. SwipesRows(u) /\ Swipe!Rows(u) = Swipe!Rows(w) /\ u.deleting = w.deleting
      BY <1>8, <3>3, SwipesKeepRows DEF SwipesSameRows
    <3>7. SwipesOne(u) /\ SwipesFinger(u)
      BY <1>5, <2>3, <3>4, <3>6 DEF SwipesOne, SwipesFinger
    <3> QED
      BY <1>5, <1>6, <3>1, <3>2, <3>4, <3>5, <3>6, <3>7 DEF SwipesGood, t, s
  <2>5. CASE open
    <3>1. p \in SwipesState
      BY <1>3, <2>1, <2>2 DEF SwipesState, SwipesRow
    <3>2. SwipesSameRows(q, p)
      BY <1>3 DEF SwipesState, SwipesSameRows
    <3>3. /\ p.opened = q.opened \cup {w.on} /\ p.el = w.on
          /\ p.finger = q.finger /\ p.touched = q.touched /\ p.moved = q.moved
      BY <1>3, <2>1 DEF SwipesState
    <3>4. p.part = q.part /\ p.sorting = q.sorting /\ p.after = q.after
      BY <1>3 DEF SwipesState
    <3> HIDE DEF p
    <3>5. SwipesRows(p) /\ Swipe!Rows(p) = Swipe!Rows(w) /\ p.deleting = w.deleting
      BY <1>8, <3>2, SwipesKeepRows DEF SwipesSameRows
    <3>6. SwipesOne(p) /\ SwipesFinger(p)
      BY <1>5, <2>3, <3>3, <3>5 DEF SwipesOne, SwipesFinger
    <3>7. SwipesGood(p) /\ ~p.finger
      BY <1>5, <3>1, <3>3, <3>5, <3>6 DEF SwipesGood
    <3>8. CASE ~over
      BY <1>6, <1>7, <1>11, <2>5, <3>4, <3>5, <3>7, <3>8 DEF t, s
    <3>9. CASE over
      <4>1. t = Swipe!SwipeoutDelete(p, w.on)
        BY <1>7, <1>11, <2>1, <2>5, <3>9
      <4>2. \A y \in (p.opened \ p.deleting) \cap Swipe!Rows(p) : y = w.on
        BY <1>5, <2>3, <3>3, <3>5
      <4>3. SwipesGood(t) /\ ~t.finger
        BY <2>1, <3>5, <3>7, <4>1, <4>2, SwipesDelete
      <4>4. t.rows = p.rows /\ t.part = p.part /\ t.sorting = p.sorting /\ t.after = p.after
        BY <3>1, <4>1 DEF Swipe!SwipeoutDelete, SwipesState
      <4>5. Swipe!Rows(t) = Swipe!Rows(p)
        BY <4>4 DEF Swipe!Rows
      <4> QED
        BY <1>6, <3>4, <3>5, <4>3, <4>4, <4>5 DEF t, s
    <3> QED
      BY <3>8, <3>9
  <2> QED
    BY <2>4, <2>5
<1>12. s.touched \in BOOLEAN /\ s.moved \in BOOLEAN
  BY <1>2 DEF SwipesState
<1> QED
  BY <1>10, <1>11 DEF s

LEMMA SwipesTouchEnd == SwipesIInv /\ Swipe!TouchEnd => SwipesIInv'
<1> SUFFICES ASSUME SwipesIInv, Swipe!TouchEnd PROVE SwipesIInv'
  OBVIOUS
<1>1. w.finger
  BY DEF Swipe!TouchEnd
<1>2. PICK open \in BOOLEAN, over \in BOOLEAN :
          w' = Swipe!SortEnd(Swipe!SwipeEnd([w EXCEPT !.finger = FALSE], open, over))
  BY DEF Swipe!TouchEnd
<1> DEFINE s == Swipe!SwipeEnd([w EXCEPT !.finger = FALSE], open, over)
<1>3. /\ SwipesGood(s) /\ ~s.finger /\ Swipe!Rows(s) = Swipe!Rows(w)
      /\ s.part = w.part /\ s.sorting = w.sorting /\ s.after = w.after
  BY <1>1, SwipesSwipeEnd
<1>4. w' = Swipe!SortEnd(s)
  BY <1>2
<1> HIDE DEF s
<1>5. s \in SwipesState /\ SwipesRows(s) /\ SwipesOne(s) /\ SwipesFinger(s)
  BY <1>3 DEF SwipesGood
<1>6. CASE s.part # "handle"
  <2>1. w' = s
    BY <1>4, <1>6 DEF Swipe!SortEnd
  <2> QED
    BY <1>3, <2>1 DEF SwipesIInv, SwipesSorting
<1>7. CASE s.part = "handle" /\ s.after # None /\ s.after \notin Swipe!Rows(s)
  <2>1. w' = [s EXCEPT !.allow = TRUE]
    BY <1>4, <1>7 DEF Swipe!SortEnd
  <2>2. w' \in SwipesState
    BY <1>5, <2>1 DEF SwipesState
  <2>3. SwipesSameRows(s, w')
    BY <1>5, <2>1 DEF SwipesState, SwipesSameRows
  <2>4. /\ w'.opened = s.opened /\ w'.el = s.el /\ w'.finger = s.finger
        /\ w'.touched = s.touched /\ w'.moved = s.moved
    BY <1>5, <2>1 DEF SwipesState
  <2>5. SwipesRows(w') /\ Swipe!Rows(w') = Swipe!Rows(s) /\ w'.deleting = s.deleting
    BY <1>5, <2>3, SwipesKeepRows DEF SwipesSameRows
  <2>6. SwipesOne(w') /\ SwipesFinger(w') /\ SwipesSorting(w')
    BY <1>3, <1>5, <2>4, <2>5 DEF SwipesOne, SwipesFinger, SwipesSorting
  <2> QED
    BY <2>2, <2>5, <2>6 DEF SwipesIInv, SwipesGood
<1>8. CASE s.part = "handle" /\ (s.after = None \/ s.after \in Swipe!Rows(s))
  <2> DEFINE rows == IF s.after = None THEN s.rows ELSE Swipe!Drop(s)
  <2>1. w' = [s EXCEPT !.allow = TRUE, !.dragged = FALSE, !.after = None, !.rows = rows]
    BY <1>4, <1>8 DEF Swipe!SortEnd
  <2>2. s.sorting \in Swipe!Rows(s)
    BY <1>1, <1>3, <1>8 DEF SwipesIInv, SwipesGood, SwipesFinger, SwipesSorting
  <2>3. rows \in Seq(Row) /\ Swipe!Once(rows) /\ Swipe!Range(rows) = Swipe!Rows(s)
    <3>1. CASE s.after = None
      BY <1>5, <3>1 DEF SwipesRows, SwipesState, Swipe!Rows
    <3>2. CASE s.after # None
      BY <1>5, <1>8, <2>2, <3>2, SwipesDrop
    <3> QED
      BY <3>1, <3>2
  <2> HIDE DEF rows
  <2>4. w' \in SwipesState
    BY <1>5, <2>1, <2>3 DEF SwipesState, SwipesRow
  <2>5. w'.rows = rows /\ w'.deleting = s.deleting /\ w'.deleted = s.deleted
    BY <1>5, <2>1 DEF SwipesState
  <2>6. /\ w'.opened = s.opened /\ w'.el = s.el /\ w'.finger = s.finger
        /\ w'.touched = s.touched /\ w'.moved = s.moved
    BY <1>5, <2>1 DEF SwipesState
  <2>7. Swipe!Rows(w') = Swipe!Rows(s)
    BY <2>3, <2>5 DEF Swipe!Rows
  <2>8. SwipesRows(w')
    BY <1>5, <2>3, <2>5, <2>7 DEF SwipesRows
  <2>9. SwipesOne(w') /\ SwipesFinger(w') /\ SwipesSorting(w')
    BY <1>3, <1>5, <2>5, <2>6, <2>7 DEF SwipesOne, SwipesFinger, SwipesSorting
  <2> QED
    BY <2>4, <2>8, <2>9 DEF SwipesIInv, SwipesGood
<1> QED
  BY <1>6, <1>7, <1>8

\* A tap on the open row deletes or closes it.
LEMMA SwipesTap == SwipesIInv /\ (Swipe!TapDelete \/ Swipe!TapClose) => SwipesIInv'
<1> SUFFICES ASSUME SwipesIInv, Swipe!TapDelete \/ Swipe!TapClose PROVE SwipesIInv'
  OBVIOUS
<1>1. /\ w \in SwipesState /\ SwipesRows(w) /\ SwipesOne(w) /\ SwipesFinger(w) /\ ~w.finger
      /\ w.el \in Swipe!Rows(w) /\ w.el \in Row
  BY DEF SwipesIInv, SwipesGood, SwipesRows, Swipe!TapDelete, Swipe!TapClose
<1>2. CASE Swipe!TapDelete
  <2>1. w' = Swipe!SwipeoutDelete(w, w.el)
    BY <1>2 DEF Swipe!TapDelete
  <2>2. SwipesGood(w') /\ ~w'.finger
    BY <1>1, <2>1, SwipesDelete DEF SwipesOne, SwipesIInv
  <2> QED
    BY <2>2 DEF SwipesIInv, SwipesSorting
<1>3. CASE Swipe!TapClose
  <2>1. w' = Swipe!SwipeoutClose(w, w.el)
    BY <1>3 DEF Swipe!TapClose
  <2>2. /\ w' \in SwipesState /\ SwipesSameRows(w, w')
        /\ w'.opened = w.opened \ {w.el} /\ w'.finger = w.finger
        /\ w'.touched = w.touched /\ w'.moved = w.moved
    BY <1>1, <2>1, SwipesClose
  <2>3. SwipesRows(w') /\ Swipe!Rows(w') = Swipe!Rows(w) /\ w'.deleting = w.deleting
    BY <1>1, <2>2, SwipesKeepRows DEF SwipesSameRows
  <2>4. SwipesOne(w') /\ SwipesFinger(w') /\ SwipesSorting(w')
    BY <1>1, <2>2, <2>3 DEF SwipesOne, SwipesFinger, SwipesSorting
  <2> QED
    BY <2>2, <2>3, <2>4 DEF SwipesIInv, SwipesGood
<1> QED
  BY <1>2, <1>3

\* A deleted row leaves the page.
LEMMA SwipesRowGone ==
    ASSUME SwipesIInv, NEW x \in Row, Swipe!RowGone(x)
    PROVE  SwipesIInv'
<1> DEFINE rows == Swipe!Without(w.rows, x)
<1>1. /\ w \in SwipesState /\ SwipesRows(w) /\ SwipesOne(w) /\ SwipesFinger(w) /\ SwipesSorting(w)
      /\ x \in w.deleting /\ x \in Swipe!Rows(w) /\ x \in w.deleted
  BY DEF SwipesIInv, SwipesGood, SwipesRows, Swipe!RowGone
<1>2. w' = [w EXCEPT !.deleting = w.deleting \ {x}, !.rows = rows]
  BY DEF Swipe!RowGone
<1>3. rows \in Seq(Row) /\ Swipe!Once(rows) /\ Swipe!Range(rows) = Swipe!Rows(w) \ {x}
  <2>1. w.rows \in Seq(Row) /\ Swipe!Once(w.rows) /\ Swipe!Rows(w) = Swipe!Range(w.rows)
    BY <1>1 DEF SwipesState, SwipesRows, Swipe!Rows
  <2> QED
    BY <1>1, <2>1, SwipesWithout
<1> HIDE DEF rows
<1>4. w' \in SwipesState
  BY <1>1, <1>2, <1>3 DEF SwipesState
<1>5. w'.rows = rows /\ w'.deleting = w.deleting \ {x} /\ w'.deleted = w.deleted
  BY <1>1, <1>2 DEF SwipesState
<1>6. w'.opened = w.opened /\ w'.el = w.el /\ w'.finger = w.finger /\ w'.on = w.on
  BY <1>1, <1>2 DEF SwipesState
<1>7. /\ w'.part = w.part /\ w'.swiped = w.swiped /\ w'.sorting = w.sorting /\ w'.after = w.after
      /\ w'.touched = w.touched /\ w'.moved = w.moved
  BY <1>1, <1>2 DEF SwipesState
<1>8. Swipe!Rows(w') = Swipe!Rows(w) \ {x}
  BY <1>3, <1>5 DEF Swipe!Rows
<1>9. SwipesRows(w')
  BY <1>1, <1>3, <1>5, <1>8 DEF SwipesRows
<1>10. SwipesOne(w')
  BY <1>1, <1>5, <1>6, <1>8 DEF SwipesOne
<1>11. SwipesFinger(w')
  BY <1>1, <1>5, <1>6, <1>7, <1>8 DEF SwipesFinger
<1>12. SwipesSorting(w')
  BY <1>1, <1>6, <1>7 DEF SwipesSorting
<1> QED
  BY <1>4, <1>9, <1>10, <1>11, <1>12 DEF SwipesIInv, SwipesGood

\* A row has closed, the list is put in order or not, another tab is shown.
LEMMA SwipesOther ==
    ASSUME SwipesIInv,
           (\E x \in Row : Swipe!OnSwipeoutClose(x)) \/ Swipe!SortableToggle \/ Swipe!ShowTab
    PROVE  SwipesIInv'
<1>1. w \in SwipesState /\ SwipesFinger(w) /\ SwipesSorting(w)
  BY DEF SwipesIInv, SwipesGood
<1>2. PICK allow \in BOOLEAN, closing \in SUBSET Row, editing \in BOOLEAN :
          w' = [w EXCEPT !.allow = allow, !.closing = closing, !.editing = editing]
  <2>1. w.allow \in BOOLEAN /\ w.closing \in SUBSET Row /\ w.editing \in BOOLEAN
    BY <1>1 DEF SwipesState
  <2>2. ASSUME NEW x \in Row, Swipe!OnSwipeoutClose(x)
        PROVE  w' = [w EXCEPT !.allow = TRUE, !.closing = w.closing \ {x}, !.editing = w.editing]
    BY <1>1, <2>2 DEF Swipe!OnSwipeoutClose, SwipesState
  <2>3. ASSUME Swipe!SortableToggle
        PROVE  w' = [w EXCEPT !.allow = w.allow, !.closing = w.closing, !.editing = ~w.editing]
    BY <1>1, <2>3 DEF Swipe!SortableToggle, SwipesState
  <2>4. ASSUME Swipe!ShowTab
        PROVE  w' = [w EXCEPT !.allow = TRUE, !.closing = w.closing, !.editing = w.editing]
    BY <1>1, <2>4 DEF Swipe!ShowTab, SwipesState
  <2>5. \A x \in Row : w.closing \ {x} \in SUBSET Row
    BY <2>1
  <2>6. (~w.editing) \in BOOLEAN
    OBVIOUS
  <2> QED
    BY <2>1, <2>2, <2>3, <2>4, <2>5, <2>6
<1>3. w' \in SwipesState
  BY <1>1, <1>2 DEF SwipesState
<1>4. SwipesSameRows(w, w')
  BY <1>1, <1>2 DEF SwipesState, SwipesSameRows
<1>5. w'.opened = w.opened /\ w'.el = w.el /\ w'.finger = w.finger /\ w'.on = w.on
  BY <1>1, <1>2 DEF SwipesState
<1>6. w'.part = w.part /\ w'.swiped = w.swiped /\ w'.sorting = w.sorting /\ w'.after = w.after
  BY <1>1, <1>2 DEF SwipesState
<1>7. w'.touched = w.touched /\ w'.moved = w.moved
  BY <1>1, <1>2 DEF SwipesState
<1> QED
  BY <1>1, <1>3, <1>4, <1>5, <1>6, <1>7, SwipesKeep DEF SwipesIInv, SwipesFinger, SwipesSorting

-----------------------------------------------------------------------------
LEMMA SwipesInitialRows ==
    /\ Swipe!InitialRows \in Seq(Row)
    /\ Swipe!Once(Swipe!InitialRows) /\ Swipe!Range(Swipe!InitialRows) = Row
<1> DEFINE n == Cardinality(Row)
<1>1. Swipe!Cardinality(Row) = n
  BY DEF Swipe!Cardinality, Cardinality
<1>2. IsFiniteSet(Row)
  BY DocumentPartsAssumption DEF Swipe!SwipesAssumption, Swipe!IsFiniteSet, IsFiniteSet
<1>3. n \in Nat
  BY <1>2, FS_CardinalityType
<1>4. PICK q : q \in Bijection(1 .. n, Row)
  BY <1>2, FS_CardinalityType DEF ExistsBijection
<1> HIDE DEF n
<1>5. q \in [1 .. n -> Row] /\ Swipe!Once(q) /\ Swipe!Range(q) = Row
  <2>1. q \in [1 .. n -> Row] /\ (\A i, j \in 1 .. n : q[i] = q[j] => i = j)
    BY <1>4 DEF Bijection, Injection, IsInjective
  <2>2. \A x \in Row : \E i \in 1 .. n : q[i] = x
    BY <1>4 DEF Bijection, Surjection
  <2> QED
    BY <2>1, <2>2 DEF Swipe!Once, Swipe!Range
<1>6. /\ Swipe!InitialRows \in [1 .. n -> Row]
      /\ Swipe!Once(Swipe!InitialRows) /\ Swipe!Range(Swipe!InitialRows) = Row
  BY <1>1, <1>5 DEF Swipe!InitialRows
<1>7. Swipe!InitialRows \in Seq(Row)
  BY <1>3, <1>6
<1> QED
  BY <1>6, <1>7

LEMMA SwipesInitIInv == Swipe!Init => SwipesIInv
<1> SUFFICES ASSUME Swipe!Init PROVE SwipesIInv
  OBVIOUS
<1>1. w \in SwipesState
  BY SwipesInitialRows DEF Swipe!Init, SwipesState, SwipesRow
<1>2. /\ w.rows = Swipe!InitialRows /\ w.opened = {} /\ w.deleting = {} /\ w.deleted = {}
      /\ w.finger = FALSE /\ w.touched = FALSE /\ w.moved = FALSE
  BY DEF Swipe!Init
<1>3. Swipe!Rows(w) = Row /\ Swipe!Once(w.rows)
  BY <1>2, SwipesInitialRows DEF Swipe!Rows
<1>4. SwipesRows(w) /\ SwipesOne(w) /\ SwipesFinger(w) /\ SwipesSorting(w)
  BY <1>2, <1>3 DEF SwipesRows, SwipesOne, SwipesFinger, SwipesSorting
<1> QED
  BY <1>1, <1>4 DEF SwipesIInv, SwipesGood

LEMMA SwipesStepIInv == SwipesIInv /\ [Swipe!Next]_w => SwipesIInv'
<1> SUFFICES ASSUME SwipesIInv, [Swipe!Next]_w PROVE SwipesIInv'
  OBVIOUS
<1>1. ASSUME NEW x \in Swipe!Rows(w) \cup {None}, NEW piece \in {"content", "handle"},
             Swipe!TouchStart(x, piece)
      PROVE  SwipesIInv'
  BY <1>1, SwipesTouchStart
<1>2. CASE Swipe!SwipeMove \/ Swipe!NoSwipe
  BY <1>2, SwipesMove
<1>3. ASSUME NEW x \in Row, Swipe!SortMove(x) PROVE SwipesIInv'
  BY <1>3, SwipesSortMove
<1>4. CASE Swipe!TouchEnd
  BY <1>4, SwipesTouchEnd
<1>5. CASE Swipe!TapDelete \/ Swipe!TapClose
  BY <1>5, SwipesTap
<1>6. ASSUME NEW x \in Row, Swipe!RowGone(x) PROVE SwipesIInv'
  BY <1>6, SwipesRowGone
<1>7. CASE (\E x \in Row : Swipe!OnSwipeoutClose(x)) \/ Swipe!SortableToggle \/ Swipe!ShowTab
  BY <1>7, SwipesOther
<1>8. CASE UNCHANGED w
  BY <1>8 DEF SwipesIInv
<1> QED
  BY <1>1, <1>2, <1>3, <1>4, <1>5, <1>6, <1>7, <1>8 DEF Swipe!Next

LEMMA SwipesOneRowFollows == SwipesIInv => Swipe!OneRowOpen
BY DEF SwipesIInv, SwipesGood, SwipesRows, SwipesOne, Swipe!OneRowOpen

-----------------------------------------------------------------------------
(* Calendar: the strip of months, at rest and while it moves. *)
CalendarMonth == [m : Int, slot : Int, class : {"none", "prev", "current", "next"}]
CalendarMoving == [dir : {"none", "prev", "next"}, both : BOOLEAN]

CalendarState ==
    [opened : BOOLEAN, value : SUBSET Int, months : Seq(CalendarMonth), cur : Int,
     moving : CalendarMoving, touched : BOOLEAN, moved : BOOLEAN, astray : BOOLEAN]

\* The classes after a move: the month in the window and the one that left it.
CalendarRight(q) ==
    \A i \in 1 .. Len(q) : q[i].class = IF i = Len(q) THEN "current" ELSE IF i = Len(q) - 1 THEN "prev" ELSE "none"
CalendarLeft(q) ==
    \A i \in 1 .. Len(q) : q[i].class = IF i = 1 THEN "current" ELSE IF i = 2 THEN "next" ELSE "none"

\* The strip at rest, and while it moves to one side: the month in the window is
\* at that end, and unless a year was skipped the month before it is next to it.
CalendarAtRest(s) ==
    Len(s.months) = 3 /\ \A i \in 1 .. Len(s.months) : s.months[i].m = s.cur + i - 2 /\ s.months[i].slot = i - 2
CalendarAhead(s) ==
    /\ s.months[Len(s.months)].m = s.cur
    /\ ~s.moving.both => s.months[Len(s.months) - 1].m = s.cur - 1
    /\ \A i \in 1 .. Len(s.months) : s.months[i].slot = i - Len(s.months)
    /\ CalendarRight(s.months)
CalendarBack(s) ==
    /\ s.months[1].m = s.cur
    /\ ~s.moving.both => s.months[2].m = s.cur + 1
    /\ \A i \in 1 .. Len(s.months) : s.months[i].slot = i - 1
    /\ CalendarLeft(s.months)

CalendarStrip(s) ==
    /\ s.cur \in MinMonth - 1 .. MaxMonth + 1
    /\ s.moving = Month!NotMoving => CalendarAtRest(s)
    /\ s.moving.dir = "next" => CalendarAhead(s)
    /\ s.moving.dir = "prev" => CalendarBack(s)

CalendarTyped(s) ==
    /\ s \in CalendarState
    /\ \A x, y \in s.value : x = y
    /\ s.value \subseteq MinMonth .. MaxMonth
    /\ s.moving.dir = "none" => s.moving = Month!NotMoving
    /\ s.opened \/ s.moving # Month!NotMoving => Len(s.months) >= 3
    /\ s.moving # Month!NotMoving => CalendarRight(s.months) \/ CalendarLeft(s.months)
    /\ s.touched => s.opened

CalendarGood(s) == CalendarTyped(s) /\ (s.opened /\ ~s.astray => CalendarStrip(s))

CalendarIInv == CalendarGood(w)

-----------------------------------------------------------------------------
LEMMA CalendarCardinality == \A S : Month!Cardinality(S) = Cardinality(S)
  BY DEF Month!Cardinality, Cardinality

LEMMA CalendarConstants == MinMonth \in Int /\ MaxMonth \in Int /\ Today \in MinMonth .. MaxMonth
  BY DocumentPartsAssumption DEF Month!CalendarAssumption

\* updateCurrentMonthYear and onMonthChangeStart: the month at one end is the
\* current one, and the classes are those of a move to that side.
LEMMA CalendarStart ==
    ASSUME NEW s \in CalendarState, NEW dir \in {"prev", "next"}, Len(s.months) >= 3
    PROVE  LET r == Month!OnMonthChangeStart(s, dir)
               n == Len(s.months)
           IN  /\ r \in CalendarState /\ Len(r.months) = n
               /\ r.cur = s.months[IF dir = "next" THEN n ELSE 1].m
               /\ \A i \in 1 .. n : r.months[i].m = s.months[i].m /\ r.months[i].slot = s.months[i].slot
               /\ dir = "next" => CalendarRight(r.months)
               /\ dir = "prev" => CalendarLeft(r.months)
               /\ r.opened = s.opened /\ r.value = s.value /\ r.moving = s.moving
               /\ r.touched = s.touched /\ r.moved = s.moved /\ r.astray = s.astray
<1> DEFINE n == Len(s.months)
           k == IF dir = "next" THEN n ELSE 1
           l == IF dir = "next" THEN n - 1 ELSE 2
           class(i) == CASE i = k -> "current"
                         [] i = l -> IF dir = "next" THEN "prev" ELSE "next"
                         [] OTHER -> "none"
           q == [i \in 1 .. n |-> [s.months[i] EXCEPT !.class = class(i)]]
           r == [s EXCEPT !.cur = s.months[k].m, !.months = q]
<1>1. s.months \in Seq(CalendarMonth) /\ n \in Nat /\ n >= 3 /\ k \in 1 .. n /\ l \in 1 .. n
      /\ k # l
  BY DEF CalendarState
<1>2. r = Month!OnMonthChangeStart(s, dir)
  BY DEF Month!OnMonthChangeStart
<1>3. ASSUME NEW i \in 1 .. n
      PROVE  /\ class(i) \in {"none", "prev", "current", "next"}
             /\ class(i) = IF i = k THEN "current"
                           ELSE IF i = l THEN (IF dir = "next" THEN "prev" ELSE "next")
                           ELSE "none"
  BY <1>1
<1> HIDE DEF class
<1>4. ASSUME NEW i \in 1 .. n
      PROVE  /\ q[i] \in CalendarMonth /\ q[i].m = s.months[i].m /\ q[i].slot = s.months[i].slot
             /\ q[i].class = class(i)
  <2>1. s.months[i] \in CalendarMonth
    BY <1>1
  <2>2. q[i] = [s.months[i] EXCEPT !.class = class(i)]
    OBVIOUS
  <2> QED
    BY <1>3, <2>1, <2>2 DEF CalendarMonth
<1>5. q = [i \in 1 .. n |-> q[i]]
  OBVIOUS
<1> HIDE DEF q
<1>6. q \in Seq(CalendarMonth) /\ Len(q) = n
  <2>1. q \in [1 .. n -> CalendarMonth]
    BY <1>4, <1>5
  <2> QED
    BY <1>1, <2>1
<1>7. s.months[k].m \in Int
  <2> HIDE DEF k
  <2>1. s.months[k] \in CalendarMonth
    BY <1>1
  <2> QED
    BY <2>1 DEF CalendarMonth
<1>8. r \in CalendarState
  <2> HIDE DEF k
  <2> QED
    BY <1>6, <1>7 DEF CalendarState
<1>9. /\ r.months = q /\ r.cur = s.months[k].m
      /\ r.opened = s.opened /\ r.value = s.value /\ r.moving = s.moving
      /\ r.touched = s.touched /\ r.moved = s.moved /\ r.astray = s.astray
  <2> HIDE DEF k
  <2> QED
    BY DEF CalendarState
<1> HIDE DEF r
<1>10. dir = "next" => CalendarRight(q)
  BY <1>1, <1>3, <1>4, <1>6 DEF CalendarRight
<1>11. dir = "prev" => CalendarLeft(q)
  BY <1>1, <1>3, <1>4, <1>6 DEF CalendarLeft
<1> QED
  BY <1>2, <1>4, <1>6, <1>8, <1>9, <1>10, <1>11

CalendarAstray(s, dir, both) ==
    s.moving # Month!NotMoving /\ (s.moving.dir # dir \/ (both /\ ~s.moving.both))

CalendarMoved(s, dir, both, strip, r) ==
    /\ r \in CalendarState /\ Len(r.months) = Len(strip)
    /\ dir = "next" => r.cur = strip[Len(strip)].m /\ CalendarRight(r.months)
    /\ dir = "prev" => r.cur = strip[1].m /\ CalendarLeft(r.months)
    /\ \A i \in 1 .. Len(strip) : r.months[i].m = strip[i].m /\ r.months[i].slot = strip[i].slot
    /\ r.opened = s.opened /\ r.value = s.value
    /\ r.touched = s.touched /\ r.moved = s.moved
    /\ r.moving = IF s.moving # Month!NotMoving THEN s.moving ELSE [dir |-> dir, both |-> both]
    /\ r.astray <=> s.astray \/ CalendarAstray(s, dir, both)

\* The strip begins to move, or goes on.
LEMMA CalendarMoves ==
    ASSUME NEW s \in CalendarState, NEW dir \in {"prev", "next"}, NEW both \in BOOLEAN,
           NEW strip \in Seq(CalendarMonth), Len(strip) >= 3
    PROVE  CalendarMoved(s, dir, both, strip, Month!Moving(s, dir, both, strip))
<1> DEFINE moving == IF s.moving # Month!NotMoving THEN s.moving ELSE [dir |-> dir, both |-> both]
           astray == s.astray \/ CalendarAstray(s, dir, both)
           t == [s EXCEPT !.months = strip, !.moving = moving, !.astray = astray]
<1>1. Month!OnMonthChangeStart(t, dir) = Month!Moving(s, dir, both, strip)
  BY DEF Month!Moving, CalendarAstray
<1>2. moving \in CalendarMoving /\ astray \in BOOLEAN
  BY DEF CalendarState, CalendarMoving
<1>3. astray <=> s.astray \/ CalendarAstray(s, dir, both)
  OBVIOUS
<1> HIDE DEF astray
<1>4. t \in CalendarState
  <2> HIDE DEF moving
  <2> QED
    BY <1>2 DEF CalendarState
<1>5. /\ t.months = strip /\ t.moving = moving /\ t.astray = astray /\ t.opened = s.opened
      /\ t.value = s.value /\ t.touched = s.touched /\ t.moved = s.moved
  <2> HIDE DEF moving
  <2> QED
    BY DEF CalendarState
<1> HIDE DEF t
<1> DEFINE r == Month!OnMonthChangeStart(t, dir)
<1>6. LET n == Len(t.months)
      IN  /\ r \in CalendarState /\ Len(r.months) = n
          /\ r.cur = t.months[IF dir = "next" THEN n ELSE 1].m
          /\ \A i \in 1 .. n : r.months[i].m = t.months[i].m /\ r.months[i].slot = t.months[i].slot
          /\ dir = "next" => CalendarRight(r.months)
          /\ dir = "prev" => CalendarLeft(r.months)
          /\ r.opened = t.opened /\ r.value = t.value /\ r.moving = t.moving
          /\ r.touched = t.touched /\ r.moved = t.moved /\ r.astray = t.astray
  BY <1>4, <1>5, CalendarStart
<1> HIDE DEF r
<1>7. Month!Moving(s, dir, both, strip) = r
  BY <1>1 DEF r
<1> QED
  BY <1>3, <1>5, <1>6, <1>7 DEF CalendarMoved

\* It stays of its type, whatever the strip it is given.
LEMMA CalendarMovesTyped ==
    ASSUME NEW s, CalendarTyped(s), s.opened, NEW dir \in {"prev", "next"}, NEW both \in BOOLEAN,
           NEW strip \in Seq(CalendarMonth), Len(strip) >= 3
    PROVE  CalendarTyped(Month!Moving(s, dir, both, strip))
<1> DEFINE r == Month!Moving(s, dir, both, strip)
<1>1. s \in CalendarState
  BY DEF CalendarTyped
<1>2. /\ r \in CalendarState /\ Len(r.months) = Len(strip)
      /\ CalendarRight(r.months) \/ CalendarLeft(r.months)
      /\ r.opened = s.opened /\ r.value = s.value /\ r.touched = s.touched
      /\ r.moving = IF s.moving # Month!NotMoving THEN s.moving ELSE [dir |-> dir, both |-> both]
  <2>1. CalendarMoved(s, dir, both, strip, r)
    BY <1>1, CalendarMoves
  <2> HIDE DEF r
  <2> QED
    BY <2>1 DEF CalendarMoved
<1> HIDE DEF r
<1>3. r.moving.dir # "none"
  BY <1>1, <1>2 DEF CalendarTyped, CalendarState, CalendarMoving
<1>4. /\ \A x, y \in r.value : x = y
      /\ r.value \subseteq MinMonth .. MaxMonth
      /\ r.touched => r.opened
  BY <1>2 DEF CalendarTyped
<1>5. /\ r \in CalendarState
      /\ r.moving.dir = "none" => r.moving = Month!NotMoving
      /\ r.opened \/ r.moving # Month!NotMoving => Len(r.months) >= 3
      /\ r.moving # Month!NotMoving => CalendarRight(r.months) \/ CalendarLeft(r.months)
  BY <1>2, <1>3
<1>6. CalendarTyped(r)
  BY <1>4, <1>5 DEF CalendarTyped
<1> QED
  BY <1>6 DEF r

-----------------------------------------------------------------------------
\* The strip moves by a month or a year, as it is allowed to.
LEMMA CalendarShift ==
    ASSUME NEW q \in Seq(CalendarMonth), NEW by \in Int
    PROVE  /\ Month!Shift(q, by) \in Seq(CalendarMonth) /\ Len(Month!Shift(q, by)) = Len(q)
           /\ \A i \in 1 .. Len(q) : /\ Month!Shift(q, by)[i].m = q[i].m
                                   /\ Month!Shift(q, by)[i].slot = q[i].slot + by
<1> DEFINE r == Month!Shift(q, by)
<1>1. r = [i \in 1 .. Len(q) |-> [q[i] EXCEPT !.slot = @ + by]] /\ Len(q) \in Nat
  BY DEF Month!Shift
<1> HIDE DEF r
<1>2. ASSUME NEW i \in 1 .. Len(q)
      PROVE  r[i] \in CalendarMonth /\ r[i].m = q[i].m /\ r[i].slot = q[i].slot + by
  <2>1. q[i] \in CalendarMonth /\ r[i] = [q[i] EXCEPT !.slot = @ + by]
    BY <1>1
  <2>2. q[i].slot + by \in Int
    BY <2>1 DEF CalendarMonth
  <2> QED
    BY <2>1, <2>2 DEF CalendarMonth
<1>3. r \in [1 .. Len(q) -> CalendarMonth]
  <2>1. DOMAIN r = 1 .. Len(q) /\ r = [i \in 1 .. Len(q) |-> r[i]]
    BY <1>1
  <2> QED
    BY <1>2, <2>1
<1> QED
  BY <1>1, <1>2, <1>3 DEF r

LEMMA CalendarMonthTyped ==
    ASSUME NEW m \in Int
    PROVE  /\ Month!Month(m, 0) \in CalendarMonth
           /\ Month!Month(m, 0).m = m /\ Month!Month(m, 0).slot = 0
  BY DEF Month!Month, CalendarMonth

\* The strip is in step with the month in the window.
CalendarFits(s, dir, both, strip) ==
    /\ dir = "next" =>
           /\ strip[Len(strip)].m \in MinMonth - 1 .. MaxMonth + 1
           /\ \A i \in 1 .. Len(strip) : strip[i].slot = i - Len(strip)
           /\ ~both /\ ~s.moving.both => strip[Len(strip) - 1].m = strip[Len(strip)].m - 1
    /\ dir = "prev" =>
           /\ strip[1].m \in MinMonth - 1 .. MaxMonth + 1
           /\ \A i \in 1 .. Len(strip) : strip[i].slot = i - 1
           /\ ~both /\ ~s.moving.both => strip[2].m = strip[1].m + 1

CalendarKept(s, r) == CalendarGood(r) /\ r.opened = s.opened /\ r.value = s.value

LEMMA CalendarMovesGood ==
    ASSUME NEW s, CalendarGood(s), s.opened, NEW dir \in {"prev", "next"}, NEW both \in BOOLEAN,
           NEW strip \in Seq(CalendarMonth), Len(strip) >= 3,
           ~s.astray /\ ~CalendarAstray(s, dir, both) => CalendarFits(s, dir, both, strip)
    PROVE  CalendarKept(s, Month!Moving(s, dir, both, strip))
<1> DEFINE r == Month!Moving(s, dir, both, strip)
           n == Len(strip)
<1>1. s \in CalendarState /\ CalendarTyped(s)
  BY DEF CalendarGood, CalendarTyped
<1>2. CalendarTyped(r)
  BY <1>1, CalendarMovesTyped
<1>3. CalendarMoved(s, dir, both, strip, r)
  BY <1>1, CalendarMoves
<1> HIDE DEF r
<1>4. /\ r.opened = s.opened /\ r.value = s.value /\ Len(r.months) = n
      /\ \A i \in 1 .. n : r.months[i].m = strip[i].m /\ r.months[i].slot = strip[i].slot
      /\ r.moving = IF s.moving # Month!NotMoving THEN s.moving ELSE [dir |-> dir, both |-> both]
      /\ n \in Nat /\ n >= 3
  BY <1>3 DEF CalendarMoved
<1>5. /\ dir = "next" => r.cur = strip[n].m /\ CalendarRight(r.months)
      /\ dir = "prev" => r.cur = strip[1].m /\ CalendarLeft(r.months)
  BY <1>3 DEF CalendarMoved
<1>6. ASSUME ~r.astray PROVE CalendarStrip(r)
  <2>1. ~s.astray /\ ~CalendarAstray(s, dir, both)
    BY <1>3, <1>6 DEF CalendarMoved
  <2>2. CalendarFits(s, dir, both, strip)
    BY <2>1
  <2>3. /\ r.moving.dir = dir /\ r.moving # Month!NotMoving
        /\ ~r.moving.both => ~both /\ ~s.moving.both
    BY <1>4, <2>1 DEF CalendarAstray, Month!NotMoving
  <2> HIDE DEF n
  <2>4. CASE dir = "next"
    <3>1. /\ strip[n].m \in MinMonth - 1 .. MaxMonth + 1
          /\ \A i \in 1 .. n : strip[i].slot = i - n
          /\ ~both /\ ~s.moving.both => strip[n - 1].m = strip[n].m - 1
      BY <2>2, <2>4 DEF CalendarFits, n
    <3>2. n \in 1 .. n /\ n - 1 \in 1 .. n
      BY <1>4
    <3>3. CalendarAhead(r)
      BY <1>4, <1>5, <2>3, <2>4, <3>1, <3>2 DEF CalendarAhead
    <3> QED
      BY <1>5, <2>3, <2>4, <3>1, <3>3 DEF CalendarStrip
  <2>5. CASE dir = "prev"
    <3>1. /\ strip[1].m \in MinMonth - 1 .. MaxMonth + 1
          /\ \A i \in 1 .. n : strip[i].slot = i - 1
          /\ ~both /\ ~s.moving.both => strip[2].m = strip[1].m + 1
      BY <2>2, <2>5 DEF CalendarFits, n
    <3>2. 1 \in 1 .. n /\ 2 \in 1 .. n
      BY <1>4
    <3>3. CalendarBack(r)
      BY <1>4, <1>5, <2>3, <2>5, <3>1, <3>2 DEF CalendarBack
    <3> QED
      BY <1>5, <2>3, <2>5, <3>1, <3>3 DEF CalendarStrip
  <2> QED
    BY <2>4, <2>5
<1> QED
  BY <1>2, <1>4, <1>6 DEF CalendarGood, CalendarKept, r

\* nextMonth: the month after the window's is the last of the strip, or is added.
LEMMA CalendarNextMonth ==
    ASSUME NEW s, CalendarGood(s), s.opened
    PROVE  CalendarKept(s, Month!NextMonth(s))
<1> DEFINE r == Month!NextMonth(s)
           n == Len(s.months)
           last == s.months[n].m
           shift == Month!Shift(s.months, -1)
           same == Month!SameMonth(last, s.cur)
           next == Month!Month(last + 1, 0)
           strip == IF same THEN Append(shift, next) ELSE shift
<1>1. /\ s \in CalendarState /\ s.months \in Seq(CalendarMonth) /\ n \in Nat /\ n >= 3
      /\ s.cur \in Int /\ MinMonth \in Int /\ MaxMonth \in Int
  BY CalendarConstants DEF CalendarGood, CalendarTyped, CalendarState
<1>2. r = IF last > MaxMonth THEN s ELSE Month!Moving(s, "next", FALSE, strip)
  BY DEF Month!NextMonth
<1>3. last \in Int
  <2>1. s.months[n] \in CalendarMonth
    BY <1>1
  <2> QED
    BY <2>1 DEF CalendarMonth
<1> HIDE DEF r
<1>4. CASE last > MaxMonth
  BY <1>2, <1>4 DEF r, CalendarKept
<1>5. CASE ~(last > MaxMonth)
  <2>1. shift \in Seq(CalendarMonth) /\ Len(shift) = n
        /\ \A i \in 1 .. n : shift[i].m = s.months[i].m /\ shift[i].slot = s.months[i].slot + (-1)
    <3>1. -1 \in Int
      OBVIOUS
    <3> QED
      BY <1>1, <3>1, CalendarShift
  <2>2. next \in CalendarMonth /\ next.m = last + 1 /\ next.slot = 0
    BY <1>3, CalendarMonthTyped
  <2>3. PICK dir \in {"prev", "next"}, both \in BOOLEAN : dir = "next" /\ both = FALSE
    OBVIOUS
  <2>4. strip \in Seq(CalendarMonth) /\ Len(strip) >= 3
    <3> HIDE DEF shift, next, same
    <3>1. Append(shift, next) \in Seq(CalendarMonth) /\ Len(Append(shift, next)) = n + 1
      BY <2>1, <2>2
    <3> QED
      BY <1>1, <2>1, <3>1
  <2>5. same <=> last % 12 = s.cur % 12
    BY DEF Month!SameMonth
  <2> HIDE DEF shift, next, same, strip
  <2>6. ASSUME ~s.astray, ~CalendarAstray(s, dir, both) PROVE CalendarFits(s, dir, both, strip)
    <3>1. CalendarStrip(s) /\ (s.moving = Month!NotMoving \/ s.moving.dir = "next")
      BY <2>3, <2>6 DEF CalendarGood, CalendarAstray
    <3>2. CASE s.moving = Month!NotMoving
      <4>1. n = 3 /\ (\A i \in 1 .. n : s.months[i].m = s.cur + i - 2 /\ s.months[i].slot = i - 2)
            /\ s.cur \in MinMonth - 1 .. MaxMonth + 1
        BY <3>1, <3>2 DEF CalendarStrip, CalendarAtRest
      <4>2. last = s.cur + 1 /\ s.months[2].m = s.cur
        BY <1>1, <4>1
      <4>3. (s.cur + 1) % 12 # s.cur % 12
        BY <1>1
      <4>4. strip = shift
        BY <2>5, <4>2, <4>3 DEF strip
      <4>5. Len(strip) = 3 /\ strip[3].m = s.cur + 1 /\ strip[2].m = s.cur
            /\ \A i \in 1 .. 3 : strip[i].slot = i - 3
        <5>1. Len(strip) = 3 /\ \A i \in 1 .. 3 : strip[i].m = s.months[i].m
                               /\ strip[i].slot = s.months[i].slot + (-1)
          BY <2>1, <4>1, <4>4
        <5>2. \A i \in 1 .. 3 : s.months[i].m = s.cur + i - 2 /\ s.months[i].slot = i - 2
          BY <4>1
        <5>3. 3 \in 1 .. 3 /\ 2 \in 1 .. 3
          OBVIOUS
        <5>4. \A i \in 1 .. 3 : strip[i].slot = i - 3
          BY <5>1, <5>2
        <5>5. strip[3].m = s.cur + 3 - 2 /\ strip[2].m = s.cur + 2 - 2
          BY <5>1, <5>2, <5>3
        <5> QED
          BY <1>1, <5>1, <5>4, <5>5
      <4>6. s.cur + 1 \in MinMonth - 1 .. MaxMonth + 1
        BY <1>1, <1>5, <4>1, <4>2
      <4> QED
        BY <1>1, <2>3, <4>5, <4>6 DEF CalendarFits
    <3>3. CASE s.moving.dir = "next"
      <4>1. /\ last = s.cur /\ (\A i \in 1 .. n : s.months[i].slot = i - n)
            /\ s.cur \in MinMonth - 1 .. MaxMonth + 1
        BY <3>1, <3>3 DEF CalendarStrip, CalendarAhead
      <4>2. strip = Append(shift, next)
        BY <2>5, <4>1 DEF strip
      <4>3. Len(strip) = n + 1 /\ strip[n + 1] = next /\ \A i \in 1 .. n : strip[i] = shift[i]
        BY <1>1, <2>1, <2>2, <4>2
      <4>4. ASSUME NEW i \in 1 .. n + 1 PROVE strip[i].slot = i - (n + 1)
        <5>1. CASE i = n + 1
          BY <1>1, <2>2, <4>3, <5>1
        <5>2. CASE i # n + 1
          <6>1. i \in 1 .. n
            BY <1>1, <5>2
          <6>2. strip[i].slot = (i - n) + (-1)
            BY <2>1, <4>1, <4>3, <6>1
          <6> QED
            BY <1>1, <6>1, <6>2
        <5> QED
          BY <5>1, <5>2
      <4>5. strip[n + 1].m = s.cur + 1 /\ strip[n].m = s.cur
        <5>1. n \in 1 .. n
          BY <1>1
        <5> QED
          BY <2>1, <2>2, <4>1, <4>3, <5>1
      <4>6. s.cur + 1 \in MinMonth - 1 .. MaxMonth + 1
        BY <1>1, <1>5, <4>1
      <4>7. Len(strip) - 1 = n
        BY <1>1, <4>3
      <4> QED
        BY <1>1, <2>3, <4>3, <4>4, <4>5, <4>6, <4>7 DEF CalendarFits
    <3> QED
      BY <3>1, <3>2, <3>3
  <2> DEFINE t == Month!Moving(s, dir, both, strip)
  <2>7. CalendarKept(s, t)
    <3>1. ~s.astray /\ ~CalendarAstray(s, dir, both) => CalendarFits(s, dir, both, strip)
      BY <2>6
    <3> QED
      BY <2>4, <3>1, CalendarMovesGood
  <2>8. r = t
    BY <1>2, <1>5, <2>3
  <2> HIDE DEF t
  <2> QED
    BY <2>7, <2>8 DEF r
<1> QED
  BY <1>4, <1>5

\* prevMonth: the month before the window's is the first of the strip, or is added.
LEMMA CalendarPrevMonth ==
    ASSUME NEW s, CalendarGood(s), s.opened
    PROVE  CalendarKept(s, Month!PrevMonth(s))
<1> DEFINE r == Month!PrevMonth(s)
           n == Len(s.months)
           first == Head(s.months).m
           shift == Month!Shift(s.months, 1)
           same == Month!SameMonth(first, s.cur)
           prev == Month!Month(first - 1, 0)
           strip == IF same THEN <<prev>> \o shift ELSE shift
<1>1. /\ s \in CalendarState /\ s.months \in Seq(CalendarMonth) /\ n \in Nat /\ n >= 3
      /\ s.cur \in Int /\ MinMonth \in Int /\ MaxMonth \in Int
  BY CalendarConstants DEF CalendarGood, CalendarTyped, CalendarState
<1>2. r = IF first < MinMonth THEN s ELSE Month!Moving(s, "prev", FALSE, strip)
  BY DEF Month!PrevMonth
<1>3. first \in Int /\ first = s.months[1].m
  <2>1. s.months[1] \in CalendarMonth /\ Head(s.months) = s.months[1]
    BY <1>1
  <2> QED
    BY <2>1 DEF CalendarMonth
<1> HIDE DEF r, first
<1>4. CASE first < MinMonth
  BY <1>2, <1>4 DEF r, CalendarKept
<1>5. CASE ~(first < MinMonth)
  <2>1. shift \in Seq(CalendarMonth) /\ Len(shift) = n
        /\ \A i \in 1 .. n : shift[i].m = s.months[i].m /\ shift[i].slot = s.months[i].slot + 1
    BY <1>1, CalendarShift
  <2>2. prev \in CalendarMonth /\ prev.m = first - 1 /\ prev.slot = 0
    BY <1>3, CalendarMonthTyped
  <2>3. PICK dir \in {"prev", "next"}, both \in BOOLEAN : dir = "prev" /\ both = FALSE
    OBVIOUS
  <2> HIDE DEF shift, prev, same
  <2>4. /\ <<prev>> \o shift \in Seq(CalendarMonth) /\ Len(<<prev>> \o shift) = n + 1
        /\ (<<prev>> \o shift)[1] = prev
        /\ \A i \in 2 .. n + 1 : (<<prev>> \o shift)[i] = shift[i - 1]
    <3>1. <<prev>> \in Seq(CalendarMonth) /\ Len(<<prev>>) = 1 /\ <<prev>>[1] = prev
      BY <2>2
    <3>2. <<prev>> \o shift \in Seq(CalendarMonth) /\ Len(<<prev>> \o shift) = 1 + n
      BY <2>1, <3>1, ConcatProperties
    <3>3. \A i \in 1 .. 1 + n : (<<prev>> \o shift)[i] = IF i <= 1 THEN <<prev>>[i] ELSE shift[i - 1]
      BY <2>1, <3>1, ConcatProperties
    <3> QED
      BY <1>1, <3>1, <3>2, <3>3
  <2>5. strip \in Seq(CalendarMonth) /\ Len(strip) >= 3
    BY <1>1, <2>1, <2>4
  <2>6. same <=> first % 12 = s.cur % 12
    BY DEF Month!SameMonth, same
  <2> HIDE DEF strip
  <2>7. ASSUME ~s.astray, ~CalendarAstray(s, dir, both) PROVE CalendarFits(s, dir, both, strip)
    <3>1. CalendarStrip(s) /\ (s.moving = Month!NotMoving \/ s.moving.dir = "prev")
      BY <2>3, <2>7 DEF CalendarGood, CalendarAstray
    <3>2. CASE s.moving = Month!NotMoving
      <4>1. n = 3 /\ (\A i \in 1 .. n : s.months[i].m = s.cur + i - 2 /\ s.months[i].slot = i - 2)
            /\ s.cur \in MinMonth - 1 .. MaxMonth + 1
        BY <3>1, <3>2 DEF CalendarStrip, CalendarAtRest
      <4>2. first = s.cur - 1 /\ s.months[2].m = s.cur
        BY <1>1, <1>3, <4>1
      <4>3. (s.cur - 1) % 12 # s.cur % 12
        BY <1>1
      <4>4. strip = shift
        BY <2>6, <4>2, <4>3 DEF strip
      <4>5. Len(strip) = 3 /\ strip[1].m = s.cur - 1 /\ strip[2].m = s.cur
        <5>1. Len(strip) = 3 /\ \A i \in 1 .. 3 : strip[i].m = s.months[i].m
                               /\ strip[i].slot = s.months[i].slot + 1
          BY <2>1, <4>1, <4>4
        <5>2. \A i \in 1 .. 3 : s.months[i].m = s.cur + i - 2 /\ s.months[i].slot = i - 2
          BY <4>1
        <5>3. 1 \in 1 .. 3 /\ 2 \in 1 .. 3
          OBVIOUS
        <5>4. strip[1].m = s.cur + 1 - 2 /\ strip[2].m = s.cur + 2 - 2
          BY <5>1, <5>2, <5>3
        <5> QED
          BY <1>1, <5>1, <5>4
      <4>6. ASSUME NEW i \in 1 .. 3 PROVE strip[i].slot = i - 1
        <5>1. i \in 1 .. n /\ i \in Int
          BY <4>1
        <5>2. strip[i].slot = (i - 2) + 1
          BY <2>1, <4>1, <4>4, <5>1
        <5> QED
          BY <5>1, <5>2
      <4>7. s.cur - 1 \in MinMonth - 1 .. MaxMonth + 1
        <5>1. s.cur - 1 >= MinMonth
          BY <1>1, <1>3, <1>5, <4>2
        <5> QED
          BY <1>1, <4>1, <5>1
      <4> QED
        BY <1>1, <2>3, <4>5, <4>6, <4>7 DEF CalendarFits
    <3>3. CASE s.moving.dir = "prev"
      <4>1. /\ first = s.cur /\ (\A i \in 1 .. n : s.months[i].slot = i - 1)
            /\ s.cur \in MinMonth - 1 .. MaxMonth + 1
        BY <1>3, <3>1, <3>3 DEF CalendarStrip, CalendarBack
      <4>2. strip = <<prev>> \o shift
        BY <2>6, <4>1 DEF strip
      <4>3. ASSUME NEW i \in 1 .. n + 1 PROVE strip[i].slot = i - 1
        <5>1. CASE i = 1
          BY <2>2, <2>4, <4>2, <5>1
        <5>2. CASE i # 1
          <6>1. i \in 2 .. n + 1 /\ i - 1 \in 1 .. n
            BY <1>1, <5>2
          <6>2. strip[i].slot = (i - 1) - 1 + 1
            BY <2>1, <2>4, <4>1, <4>2, <6>1
          <6> QED
            BY <1>1, <6>1, <6>2
        <5> QED
          BY <5>1, <5>2
      <4>4. strip[1].m = s.cur - 1 /\ strip[2].m = s.cur
        <5>1. 2 \in 2 .. n + 1 /\ 2 - 1 = 1 /\ 1 \in 1 .. n
          BY <1>1
        <5>2. strip[2] = shift[2 - 1]
          BY <2>4, <4>2, <5>1
        <5>3. strip[2].m = s.months[1].m
          BY <2>1, <5>1, <5>2
        <5>4. strip[1].m = first - 1
          BY <2>2, <2>4, <4>2
        <5> QED
          BY <1>1, <1>3, <4>1, <5>3, <5>4
      <4>5. s.cur - 1 \in MinMonth - 1 .. MaxMonth + 1
        <5>1. s.cur - 1 >= MinMonth - 1
          BY <1>1, <1>3, <1>5, <4>1
        <5> QED
          BY <1>1, <4>1, <5>1
      <4>6. Len(strip) = n + 1 /\ strip[2].m = strip[1].m + 1
        BY <1>1, <2>4, <4>2, <4>4
      <4>7. dir = "prev"
        BY <2>3
      <4> QED
        BY <4>3, <4>4, <4>5, <4>6, <4>7 DEF CalendarFits
    <3> QED
      BY <3>1, <3>2, <3>3
  <2> DEFINE t == Month!Moving(s, dir, both, strip)
  <2>8. CalendarKept(s, t)
    <3>1. ~s.astray /\ ~CalendarAstray(s, dir, both) => CalendarFits(s, dir, both, strip)
      BY <2>7
    <3> QED
      BY <2>5, <3>1, CalendarMovesGood
  <2>9. r = t
    BY <1>2, <1>5, <2>3
  <2> HIDE DEF t
  <2> QED
    BY <2>8, <2>9 DEF r
<1> QED
  BY <1>4, <1>5

\* A tap on the year: its month is put next to the one in the window.
LEMMA CalendarSetYearMonth ==
    ASSUME NEW s, CalendarGood(s), s.opened, NEW m \in Int
    PROVE  CalendarKept(s, Month!SetYearMonth(s, m))
<1> DEFINE r == Month!SetYearMonth(s, m)
           n == Len(s.months)
           new == Month!Month(m, 0)
           quiet == s.moving = Month!NotMoving
           front == IF quiet THEN SubSeq(s.months, 1, n - 1) ELSE s.months
           tail == IF quiet THEN Tail(s.months) ELSE s.months
           forth == Month!Shift(front, -1)
           back == Month!Shift(tail, 1)
<1>1. /\ s \in CalendarState /\ s.months \in Seq(CalendarMonth) /\ n \in Nat /\ n >= 3
      /\ s.cur \in Int /\ MinMonth \in Int /\ MaxMonth \in Int
  BY CalendarConstants DEF CalendarGood, CalendarTyped, CalendarState
<1>2. r = IF m \notin MinMonth .. MaxMonth THEN s
          ELSE IF m > s.cur THEN Month!Moving(s, "next", TRUE, Append(forth, new))
          ELSE Month!Moving(s, "prev", TRUE, <<new>> \o back)
  BY DEF Month!SetYearMonth
<1>3. new \in CalendarMonth /\ new.m = m /\ new.slot = 0
  BY CalendarMonthTyped
<1>4. m \in MinMonth .. MaxMonth => m \in MinMonth - 1 .. MaxMonth + 1
  BY <1>1
<1>5. /\ front \in Seq(CalendarMonth) /\ tail \in Seq(CalendarMonth)
      /\ Len(front) = IF quiet THEN n - 1 ELSE n
      /\ Len(tail) = IF quiet THEN n - 1 ELSE n
      /\ \A i \in 1 .. Len(front) : front[i] = s.months[i]
      /\ \A i \in 1 .. Len(tail) : tail[i] = s.months[IF quiet THEN i + 1 ELSE i]
  <2>1. CASE quiet
    <3>1. Tail(s.months) \in Seq(CalendarMonth) /\ Len(Tail(s.months)) = n - 1
          /\ \A i \in 1 .. n - 1 : Tail(s.months)[i] = s.months[i + 1]
      BY <1>1
    <3>2. SubSeq(s.months, 1, n - 1) \in Seq(CalendarMonth)
          /\ Len(SubSeq(s.months, 1, n - 1)) = n - 1
          /\ \A i \in 1 .. n - 1 : SubSeq(s.months, 1, n - 1)[i] = s.months[i]
      BY <1>1
    <3> QED
      BY <2>1, <3>1, <3>2
  <2>2. CASE ~quiet
    BY <1>1, <2>2
  <2> QED
    BY <2>1, <2>2
<1> HIDE DEF r, front, tail, new
<1> DEFINE k == Len(front)
<1>6. /\ k \in Nat /\ k >= 2 /\ k <= n /\ Len(front) = k /\ Len(tail) = k
      /\ forth \in Seq(CalendarMonth) /\ Len(forth) = k
      /\ back \in Seq(CalendarMonth) /\ Len(back) = k
      /\ \A i \in 1 .. k : forth[i].slot = front[i].slot + (-1)
      /\ \A i \in 1 .. k : back[i].slot = tail[i].slot + 1
  <2>1. k \in Nat /\ k >= 2 /\ k <= n /\ Len(front) = k /\ Len(tail) = k /\ 1 \in Int /\ -1 \in Int
    BY <1>1, <1>5
  <2>2. /\ forth \in Seq(CalendarMonth) /\ Len(forth) = k
        /\ \A i \in 1 .. k : forth[i].slot = front[i].slot + (-1)
    BY <1>5, <2>1, CalendarShift
  <2>3. /\ back \in Seq(CalendarMonth) /\ Len(back) = k
        /\ \A i \in 1 .. k : back[i].slot = tail[i].slot + 1
    BY <1>5, <2>1, CalendarShift
  <2> QED
    BY <2>1, <2>2, <2>3
<1> HIDE DEF forth, back, k
<1>7. /\ Append(forth, new) \in Seq(CalendarMonth) /\ Len(Append(forth, new)) = k + 1
      /\ Append(forth, new)[k + 1] = new
      /\ \A i \in 1 .. k : Append(forth, new)[i] = forth[i]
  BY <1>3, <1>6
<1>8. /\ <<new>> \o back \in Seq(CalendarMonth) /\ Len(<<new>> \o back) = k + 1
      /\ (<<new>> \o back)[1] = new
      /\ \A i \in 2 .. k + 1 : (<<new>> \o back)[i] = back[i - 1]
  <2>1. <<new>> \in Seq(CalendarMonth) /\ Len(<<new>>) = 1 /\ <<new>>[1] = new
    BY <1>3
  <2>2. <<new>> \o back \in Seq(CalendarMonth) /\ Len(<<new>> \o back) = 1 + k
    BY <1>6, <2>1, ConcatProperties
  <2>3. \A i \in 1 .. 1 + k : (<<new>> \o back)[i] = IF i <= 1 THEN <<new>>[i] ELSE back[i - 1]
    BY <1>6, <2>1, ConcatProperties
  <2> QED
    BY <1>6, <2>1, <2>2, <2>3
<1>9. PICK both \in BOOLEAN : both = TRUE
  OBVIOUS
<1>10. CASE m \notin MinMonth .. MaxMonth
  BY <1>2, <1>10 DEF r, CalendarKept
<1>11. CASE m \in MinMonth .. MaxMonth /\ m > s.cur
  <2> DEFINE strip == Append(forth, new)
  <2>1. PICK dir \in {"prev", "next"} : dir = "next"
    OBVIOUS
  <2>2. strip \in Seq(CalendarMonth) /\ Len(strip) >= 3
    BY <1>6, <1>7
  <2>3. ASSUME ~s.astray, ~CalendarAstray(s, dir, both) PROVE CalendarFits(s, dir, both, strip)
    <3>1. CalendarStrip(s) /\ (quiet \/ s.moving.dir = "next")
      BY <2>1, <2>3 DEF CalendarGood, CalendarAstray
    <3>2. ASSUME NEW i \in 1 .. k PROVE forth[i].slot = i - (k + 1)
      <4>1. i \in 1 .. n /\ front[i] = s.months[i] /\ i \in Int
        <5>1. i \in 1 .. n /\ i \in Int
          BY <1>1, <1>6
        <5> QED
          BY <1>5, <1>6, <5>1
      <4>2. CASE quiet
        <5>1. n = 3 /\ s.months[i].slot = i - 2 /\ k = 2
          BY <1>5, <3>1, <4>1, <4>2 DEF CalendarStrip, CalendarAtRest, k
        <5> QED
          BY <1>6, <4>1, <5>1
      <4>3. CASE ~quiet
        <5>1. k = n /\ s.months[i].slot = i - n
          BY <1>5, <3>1, <4>1, <4>3 DEF CalendarStrip, CalendarAhead, k
        <5> QED
          BY <1>6, <4>1, <5>1
      <4> QED
        BY <4>2, <4>3
    <3>3. ASSUME NEW i \in 1 .. k + 1 PROVE strip[i].slot = i - (k + 1)
      <4>1. CASE i = k + 1
        BY <1>3, <1>6, <1>7, <4>1
      <4>2. CASE i # k + 1
        <5>1. i \in 1 .. k
          BY <1>6, <4>2
        <5> QED
          BY <1>7, <3>2, <5>1
      <4> QED
        BY <4>1, <4>2
    <3> HIDE DEF strip
    <3>4. Len(strip) = k + 1 /\ strip[k + 1].m = m
      BY <1>3, <1>7 DEF strip
    <3> QED
      BY <1>4, <1>9, <1>11, <2>1, <3>3, <3>4 DEF CalendarFits
  <2> DEFINE t == Month!Moving(s, dir, both, strip)
  <2>4. r = t
    BY <1>2, <1>9, <1>11, <2>1
  <2> HIDE DEF strip
  <2>5. CalendarKept(s, t)
    <3>1. ~s.astray /\ ~CalendarAstray(s, dir, both) => CalendarFits(s, dir, both, strip)
      BY <2>3
    <3> QED
      BY <2>2, <3>1, CalendarMovesGood
  <2> HIDE DEF t
  <2> QED
    BY <2>4, <2>5 DEF r
<1>12. CASE m \in MinMonth .. MaxMonth /\ ~(m > s.cur)
  <2> DEFINE strip == <<new>> \o back
  <2>1. PICK dir \in {"prev", "next"} : dir = "prev"
    OBVIOUS
  <2>2. strip \in Seq(CalendarMonth) /\ Len(strip) >= 3
    BY <1>6, <1>8
  <2>3. ASSUME ~s.astray, ~CalendarAstray(s, dir, both) PROVE CalendarFits(s, dir, both, strip)
    <3>1. CalendarStrip(s) /\ (quiet \/ s.moving.dir = "prev")
      BY <2>1, <2>3 DEF CalendarGood, CalendarAstray
    <3>2. ASSUME NEW i \in 1 .. k PROVE back[i].slot = i
      <4>1. i \in Int /\ tail[i] = s.months[IF quiet THEN i + 1 ELSE i]
            /\ back[i].slot = tail[i].slot + 1
        <5>1. i \in Int
          OBVIOUS
        <5>2. tail[i] = s.months[IF quiet THEN i + 1 ELSE i]
          BY <1>5, <1>6
        <5>3. back[i].slot = tail[i].slot + 1
          BY <1>6
        <5> QED
          BY <5>1, <5>2, <5>3
      <4>2. CASE quiet
        <5>1. n = 3 /\ k = 2
          BY <1>5, <3>1, <4>2 DEF CalendarStrip, CalendarAtRest, k
        <5>2. i + 1 \in 1 .. n
          BY <3>2, <5>1
        <5>3. s.months[i + 1].slot = (i + 1) - 2
          BY <3>1, <4>2, <5>2 DEF CalendarStrip, CalendarAtRest
        <5> QED
          BY <4>1, <4>2, <5>3
      <4>3. CASE ~quiet
        <5>1. k = n
          BY <1>5, <4>3 DEF k
        <5>2. s.months[i].slot = i - 1
          BY <3>1, <3>2, <4>3, <5>1 DEF CalendarStrip, CalendarBack
        <5> QED
          BY <4>1, <4>3, <5>2
      <4> QED
        BY <4>2, <4>3
    <3>3. ASSUME NEW i \in 1 .. k + 1 PROVE strip[i].slot = i - 1
      <4>1. CASE i = 1
        BY <1>3, <1>8, <4>1
      <4>2. CASE i # 1
        <5>1. i \in 2 .. k + 1 /\ i - 1 \in 1 .. k
          BY <1>6, <4>2
        <5> QED
          BY <1>8, <3>2, <5>1
      <4> QED
        BY <4>1, <4>2
    <3> HIDE DEF strip
    <3>4. Len(strip) = k + 1 /\ strip[1].m = m
      BY <1>3, <1>8 DEF strip
    <3> QED
      BY <1>4, <1>9, <1>12, <2>1, <3>3, <3>4 DEF CalendarFits
  <2> DEFINE t == Month!Moving(s, dir, both, strip)
  <2>4. r = t
    BY <1>2, <1>9, <1>12, <2>1
  <2> HIDE DEF strip
  <2>5. CalendarKept(s, t)
    <3>1. ~s.astray /\ ~CalendarAstray(s, dir, both) => CalendarFits(s, dir, both, strip)
      BY <2>3
    <3> QED
      BY <2>2, <3>1, CalendarMovesGood
  <2> HIDE DEF t
  <2> QED
    BY <2>4, <2>5 DEF r
<1> QED
  BY <1>10, <1>11, <1>12

\* What else a step changes: the date that is chosen, and the finger.
LEMMA CalendarSame ==
    ASSUME NEW s, CalendarGood(s), NEW t \in CalendarState, t.months = s.months, t.cur = s.cur,
           t.moving = s.moving, t.astray = s.astray, t.opened => s.opened,
           \A x, y \in t.value : x = y, t.value \subseteq MinMonth .. MaxMonth,
           t.touched => t.opened
    PROVE  CalendarGood(t)
<1>1. CalendarTyped(s)
  BY DEF CalendarGood
<1>2. CalendarTyped(t)
  BY <1>1 DEF CalendarTyped
<1>3. CalendarStrip(s) => CalendarStrip(t)
  BY DEF CalendarStrip, CalendarAtRest, CalendarAhead, CalendarBack
<1> QED
  BY <1>2, <1>3 DEF CalendarGood

\* handleDayClick: the date is chosen, in the month that is shown then.
LEMMA CalendarDayClick ==
    ASSUME CalendarGood(w), NEW i \in DOMAIN w.months, NEW by \in {-1, 0, 1}, Month!DayClick(i, by)
    PROVE  CalendarGood(w')
<1> DEFINE s == CASE by = 1 -> Month!NextMonth(w) [] by = -1 -> Month!PrevMonth(w) [] OTHER -> w
           m == w.months[i].m + by
<1>1. w.opened /\ m \in MinMonth .. MaxMonth /\ w' = Month!AddValue(s, m)
  BY DEF Month!DayClick, Month!Tap
<1>2. CalendarGood(s) /\ s.opened = w.opened
  <2>1. CalendarKept(w, Month!NextMonth(w)) /\ CalendarKept(w, Month!PrevMonth(w))
    BY <1>1, CalendarNextMonth, CalendarPrevMonth
  <2> QED
    BY <2>1 DEF CalendarKept
<1> HIDE DEF s, m
<1>3. s \in CalendarState /\ w' = [s EXCEPT !.value = {m}]
  BY <1>1, <1>2 DEF CalendarGood, CalendarTyped, Month!AddValue
<1>4. m \in Int
  BY <1>1, CalendarConstants
<1>5. w' \in CalendarState
  BY <1>3, <1>4 DEF CalendarState
<1>6. w'.months = s.months /\ w'.cur = s.cur /\ w'.moving = s.moving /\ w'.astray = s.astray
  BY <1>3 DEF CalendarState
<1>7. w'.value = {m} /\ w'.opened = s.opened /\ w'.touched = s.touched
  BY <1>3 DEF CalendarState
<1>8. w'.touched => w'.opened
  BY <1>2, <1>7 DEF CalendarGood, CalendarTyped
<1> QED
  BY <1>1, <1>2, <1>5, <1>6, <1>7, <1>8, CalendarSame

\* The finger on the strip, which may leave it at the next or the previous month.
CalendarTouches == Month!TouchStart \/ Month!TouchMove \/ Month!TouchLost \/ Month!TouchEnd
\/ Month!Close

LEMMA CalendarTouch == CalendarGood(w) /\ CalendarTouches => CalendarGood(w')
<1> SUFFICES ASSUME CalendarGood(w), CalendarTouches PROVE CalendarGood(w')
  OBVIOUS
<1>1. /\ w \in CalendarState /\ w.opened \in BOOLEAN /\ w.touched \in BOOLEAN /\ w.moved \in BOOLEAN
      /\ \A x, y \in w.value : x = y
      /\ w.value \subseteq MinMonth .. MaxMonth /\ (w.touched => w.opened)
  BY DEF CalendarGood, CalendarTyped, CalendarState
<1>2. ASSUME NEW opened \in BOOLEAN, NEW touched \in BOOLEAN, NEW moved \in BOOLEAN,
             opened => w.opened, touched => opened
      PROVE  LET t == [w EXCEPT !.opened = opened, !.touched = touched, !.moved = moved]
             IN  CalendarGood(t) /\ t.opened = opened
  <2> DEFINE t == [w EXCEPT !.opened = opened, !.touched = touched, !.moved = moved]
  <2>1. t \in CalendarState
    BY <1>1 DEF CalendarState
  <2>2. t.months = w.months /\ t.cur = w.cur /\ t.moving = w.moving /\ t.astray = w.astray
    BY <1>1 DEF CalendarState
  <2>3. t.value = w.value /\ t.opened = opened /\ t.touched = touched
    BY <1>1 DEF CalendarState
  <2> HIDE DEF t
  <2>4. CalendarGood(t)
    BY <1>1, <1>2, <2>1, <2>2, <2>3, CalendarSame
  <2> QED
    BY <2>3, <2>4 DEF t
<1>3. CASE Month!TouchStart
  <2>1. w.opened /\ w' = [w EXCEPT !.opened = w.opened, !.touched = TRUE, !.moved = w.moved]
    BY <1>1, <1>3 DEF Month!TouchStart, CalendarState
  <2>2. PICK touched \in BOOLEAN : touched = TRUE
    OBVIOUS
  <2> QED
    BY <1>1, <1>2, <2>1, <2>2
<1>4. CASE Month!TouchMove
  <2>1. w' = [w EXCEPT !.opened = w.opened, !.touched = w.touched, !.moved = TRUE]
    BY <1>1, <1>4 DEF Month!TouchMove, CalendarState
  <2>2. PICK moved \in BOOLEAN : moved = TRUE
    OBVIOUS
  <2> QED
    BY <1>1, <1>2, <2>1, <2>2
<1>5. CASE Month!TouchLost
  <2>1. w' = [w EXCEPT !.opened = w.opened, !.touched = FALSE, !.moved = w.moved]
    BY <1>1, <1>5 DEF Month!TouchLost, CalendarState
  <2>2. PICK touched \in BOOLEAN : touched = FALSE
    OBVIOUS
  <2> QED
    BY <1>1, <1>2, <2>1, <2>2
<1>6. CASE Month!TouchEnd
  <2> DEFINE s == [w EXCEPT !.touched = FALSE, !.moved = FALSE]
  <2>1. w.touched /\ (w' = s \/ w' = Month!NextMonth(s) \/ w' = Month!PrevMonth(s))
    BY <1>6 DEF Month!TouchEnd
  <2>2. s = [w EXCEPT !.opened = w.opened, !.touched = FALSE, !.moved = FALSE]
    BY <1>1 DEF CalendarState
  <2>3. PICK down \in BOOLEAN : down = FALSE
    OBVIOUS
  <2> HIDE DEF s
  <2>4. CalendarGood(s) /\ s.opened
    BY <1>1, <1>2, <2>1, <2>2, <2>3
  <2>5. CalendarKept(s, Month!NextMonth(s)) /\ CalendarKept(s, Month!PrevMonth(s))
    BY <2>4, CalendarNextMonth, CalendarPrevMonth
  <2> QED
    BY <2>1, <2>4, <2>5 DEF CalendarKept
<1>7. CASE Month!Close
  <2>1. ~w.touched /\ w' = [w EXCEPT !.opened = FALSE, !.touched = w.touched, !.moved = w.moved]
    BY <1>1, <1>7 DEF Month!Close, CalendarState
  <2>2. PICK opened \in BOOLEAN : opened = FALSE
    OBVIOUS
  <2> QED
    BY <1>1, <1>2, <2>1, <2>2
<1> QED
  BY <1>3, <1>4, <1>5, <1>6, <1>7 DEF CalendarTouches

-----------------------------------------------------------------------------
LEMMA CalendarSequence ==
    ASSUME NEW n \in Nat, NEW r \in [1 .. n -> CalendarMonth]
    PROVE  r \in Seq(CalendarMonth) /\ Len(r) = n
  OBVIOUS

\* Of two places the months are kept in their order.
LEMMA CalendarKeepOne ==
    ASSUME NEW q, NEW a \in Int
    PROVE  Month!Keep(q, {a}) = [n \in 1 .. 1 |-> q[a]]
<1>1. Cardinality({a}) = 1 /\ Cardinality({}) = 0
  BY FS_Singleton, FS_EmptySet
<1>2. {j \in {a} : j < a} = {}
  OBVIOUS
<1>3. (CHOOSE i \in {a} : Month!Cardinality({j \in {a} : j < i}) = 1 - 1) = a
  BY <1>1, <1>2, CalendarCardinality
<1> DEFINE at(n) == CHOOSE i \in {a} : Month!Cardinality({j \in {a} : j < i}) = n - 1
<1>4. Month!Keep(q, {a}) = [n \in 1 .. 1 |-> q[at(n)]]
  BY <1>1, CalendarCardinality DEF Month!Keep
<1>5. \A n \in 1 .. 1 : at(n) = a
  <2>1. \A n \in 1 .. 1 : n = 1
    OBVIOUS
  <2> QED
    BY <1>3, <2>1
<1> HIDE DEF at
<1> QED
  BY <1>4, <1>5

LEMMA CalendarKeepTwo ==
    ASSUME NEW q, NEW a \in Int, NEW b \in Int, a < b
    PROVE  Month!Keep(q, {a, b}) = [n \in 1 .. 2 |-> q[IF n = 1 THEN a ELSE b]]
<1> DEFINE at(n) == CHOOSE i \in {a, b} : Month!Cardinality({j \in {a, b} : j < i}) = n - 1
<1>1. Cardinality({a}) = 1 /\ Cardinality({}) = 0
  BY FS_Singleton, FS_EmptySet
<1>2. Cardinality({a, b}) = 2
  <2>0. b \notin {a} /\ {a, b} = {a} \cup {b}
    OBVIOUS
  <2>1. IsFiniteSet({a})
    BY FS_Singleton
  <2>2. Cardinality({a} \cup {b}) = Cardinality({a}) + 1
    BY <2>0, <2>1, FS_AddElement
  <2>3. 1 + 1 = 2
    OBVIOUS
  <2> QED
    BY <1>1, <2>0, <2>2, <2>3
<1>3. {j \in {a, b} : j < a} = {} /\ {j \in {a, b} : j < b} = {a}
  OBVIOUS
<1>4. Month!Cardinality({j \in {a, b} : j < a}) = 0 /\ Month!Cardinality({j \in {a, b} : j < b}) = 1
  BY <1>1, <1>3, CalendarCardinality
<1>5. at(1) = a /\ at(2) = b
  BY <1>4
<1>6. Month!Keep(q, {a, b}) = [n \in 1 .. 2 |-> q[at(n)]]
  BY <1>2, CalendarCardinality DEF Month!Keep
<1> HIDE DEF at
<1>7. \A n \in 1 .. 2 : at(n) = IF n = 1 THEN a ELSE b
  BY <1>5
<1> QED
  BY <1>6, <1>7

\* setMonthsTranslate of a strip of three.
LEMMA CalendarTranslate ==
    ASSUME NEW q \in Seq(CalendarMonth), Len(q) = 3
    PROVE  LET r == Month!SetMonthsTranslate(q)
           IN  /\ r \in Seq(CalendarMonth) /\ Len(r) = Len(q)
               /\ \A i \in 1 .. Len(q) : r[i].m = q[i].m /\ r[i].slot = i - 2
<1> DEFINE r == Month!SetMonthsTranslate(q)
           class == <<"prev", "current", "next">>
<1>1. r = [i \in 1 .. Len(q) |-> IF i <= 3 THEN [q[i] EXCEPT !.slot = i - 2, !.class = class[i]]
                                 ELSE [q[i] EXCEPT !.class = "none"]]
  BY DEF Month!SetMonthsTranslate
<1>2. \A i \in 1 .. 3 : class[i] \in {"none", "prev", "current", "next"}
  OBVIOUS
<1> HIDE DEF r, class
<1>3. ASSUME NEW i \in 1 .. Len(q)
      PROVE  r[i] \in CalendarMonth /\ r[i].m = q[i].m /\ r[i].slot = i - 2
  <2>1. i \in 1 .. 3 /\ i <= 3 /\ i - 2 \in Int
    BY <1>3
  <2>2. q[i] \in CalendarMonth
    BY <1>3
  <2>3. r[i] = [q[i] EXCEPT !.slot = i - 2, !.class = class[i]]
    BY <1>1, <1>3, <2>1
  <2> QED
    BY <1>2, <2>1, <2>2, <2>3 DEF CalendarMonth
<1>4. r \in [1 .. Len(q) -> CalendarMonth]
  <2>1. DOMAIN r = 1 .. Len(q) /\ r = [i \in 1 .. Len(q) |-> r[i]]
    BY <1>1
  <2> QED
    BY <1>3, <2>1
<1>5. Len(q) \in Nat
  OBVIOUS
<1>6. r \in Seq(CalendarMonth) /\ Len(r) = Len(q)
  BY <1>4, <1>5, CalendarSequence
<1> QED
  BY <1>3, <1>6 DEF r

CalendarJoined(p, q, r) ==
    /\ r \in Seq(CalendarMonth) /\ Len(r) = Len(p) + Len(q)
    /\ Len(p) >= 1 => r[1] = p[1]
    /\ Len(p) >= 2 => r[2] = p[2]
    /\ Len(p) = 1 /\ Len(q) >= 1 => r[2] = q[1]
    /\ Len(p) = 1 /\ Len(q) >= 2 => r[3] = q[2]
    /\ Len(p) = 2 /\ Len(q) >= 1 => r[3] = q[1]

LEMMA CalendarJoin ==
    ASSUME NEW p \in Seq(CalendarMonth), NEW q \in Seq(CalendarMonth)
    PROVE  CalendarJoined(p, q, p \o q)
<1>1. Len(p) \in Nat /\ Len(q) \in Nat
  OBVIOUS
<1>2. p \o q \in Seq(CalendarMonth) /\ Len(p \o q) = Len(p) + Len(q)
  BY ConcatProperties
<1>3. \A i \in 1 .. Len(p) + Len(q) : (p \o q)[i] = IF i <= Len(p) THEN p[i] ELSE q[i - Len(p)]
  BY ConcatProperties
<1> DEFINE n == Len(p)
           r == p \o q
<1> HIDE DEF n, r
<1>4. \A i \in 1 .. n + Len(q) : r[i] = IF i <= n THEN p[i] ELSE q[i - n]
  BY <1>3 DEF n, r
<1>5. n >= 1 => r[1] = p[1]
  BY <1>1, <1>4 DEF n
<1>6. n >= 2 => r[2] = p[2]
  BY <1>1, <1>4 DEF n
<1>7. n = 1 /\ Len(q) >= 1 => r[2] = q[1]
  BY <1>1, <1>4
<1>8. n = 1 /\ Len(q) >= 2 => r[3] = q[2]
  BY <1>1, <1>4
<1>9. n = 2 /\ Len(q) >= 1 => r[3] = q[1]
  BY <1>1, <1>4
<1> QED
  BY <1>2, <1>5, <1>6, <1>7, <1>8, <1>9 DEF n, r, CalendarJoined

\* The months that onMonthChangeEnd keeps: the one in the window, and unless a
\* year was skipped the one that left it.
CalendarRemains(q, both, kept) ==
    /\ kept \in Seq(CalendarMonth)
    /\ both => /\ Len(kept) = 1
               /\ CalendarRight(q) => kept[1] = q[Len(q)]
               /\ CalendarLeft(q) => kept[1] = q[1]
    /\ ~both => /\ Len(kept) = 2
                /\ CalendarRight(q) => kept[1] = q[Len(q) - 1] /\ kept[2] = q[Len(q)]
                /\ CalendarLeft(q) => kept[1] = q[1] /\ kept[2] = q[2]

CalendarPlaces(q, both) == {i \in DOMAIN q : q[i].class # "none" /\ (both => q[i].class = "current")}

LEMMA CalendarEndOfMove ==
    ASSUME NEW q \in Seq(CalendarMonth), Len(q) >= 3, NEW both \in BOOLEAN,
           CalendarRight(q) \/ CalendarLeft(q)
    PROVE  CalendarRemains(q, both, Month!Keep(q, CalendarPlaces(q, both)))
<1> DEFINE n == Len(q)
           P == CalendarPlaces(q, both)
           kept == Month!Keep(q, P)
<1>1. n \in Nat /\ n >= 3 /\ n - 1 \in Int /\ 1 \in Int /\ 2 \in Int /\ n \in Int
      /\ DOMAIN q = 1 .. n
  OBVIOUS
<1>2. q[1] \in CalendarMonth /\ q[2] \in CalendarMonth /\ q[n - 1] \in CalendarMonth
      /\ q[n] \in CalendarMonth
  <2>1. 1 \in 1 .. n /\ 2 \in 1 .. n /\ n - 1 \in 1 .. n /\ n \in 1 .. n
    BY <1>1
  <2> QED
    BY <2>1
<1>3. ASSUME NEW x \in CalendarMonth, kept = [i \in 1 .. 1 |-> x]
      PROVE  kept \in Seq(CalendarMonth) /\ Len(kept) = 1 /\ kept[1] = x
  <2>1. kept \in [1 .. 1 -> CalendarMonth] /\ 1 \in Nat
    BY <1>3
  <2> HIDE DEF kept
  <2>2. kept \in Seq(CalendarMonth) /\ Len(kept) = 1
    BY <2>1, CalendarSequence
  <2> QED
    BY <1>3, <2>2
<1>4. ASSUME NEW x \in CalendarMonth, NEW y \in CalendarMonth,
             kept = [i \in 1 .. 2 |-> IF i = 1 THEN x ELSE y]
      PROVE  kept \in Seq(CalendarMonth) /\ Len(kept) = 2 /\ kept[1] = x /\ kept[2] = y
  <2>1. kept \in [1 .. 2 -> CalendarMonth] /\ 2 \in Nat
    BY <1>4
  <2> HIDE DEF kept
  <2>2. kept \in Seq(CalendarMonth) /\ Len(kept) = 2
    BY <2>1, CalendarSequence
  <2> QED
    BY <1>4, <2>2
<1>0. ASSUME CalendarRight(q)
      PROVE  \A i \in 1 .. n : q[i].class = IF i = n THEN "current" ELSE IF i = n - 1 THEN "prev" ELSE "none"
  BY <1>0 DEF CalendarRight
<1>00. ASSUME CalendarLeft(q)
       PROVE  \A i \in 1 .. n : q[i].class = IF i = 1 THEN "current" ELSE IF i = 2 THEN "next" ELSE "none"
  BY <1>00 DEF CalendarLeft
<1>01. P = {i \in 1 .. n : q[i].class # "none" /\ (both => q[i].class = "current")}
  BY <1>1 DEF CalendarPlaces
<1> HIDE DEF n, P
<1>5. CASE CalendarRight(q)
  <2>0. ~CalendarLeft(q)
    <3>1. 1 \in 1 .. n
      BY <1>1
    <3>2. q[1].class # "current"
      BY <1>0, <1>1, <1>5, <3>1
    <3> QED
      BY <1>00, <3>1, <3>2
  <2>1. CASE both
    <3>1. P = {n}
      BY <1>0, <1>01, <1>1, <1>5, <2>1
    <3>2. Month!Keep(q, {n}) = [i \in 1 .. 1 |-> q[n]]
      <4>1. n \in Int
        BY <1>1
      <4> QED
        BY <4>1, CalendarKeepOne
    <3> HIDE DEF kept
    <3>3. kept \in Seq(CalendarMonth) /\ Len(kept) = 1 /\ kept[1] = q[n]
      BY <1>2, <1>3, <3>1, <3>2 DEF kept
    <3>4. CalendarRemains(q, both, kept)
      BY <2>0, <2>1, <3>3 DEF CalendarRemains, n
    <3> QED
      BY <3>4 DEF kept, P
  <2>2. CASE ~both
    <3>1. P = {n - 1, n}
      BY <1>0, <1>01, <1>1, <1>5, <2>2
    <3>2. n - 1 < n
      BY <1>1
    <3>3. kept = [i \in 1 .. 2 |-> q[IF i = 1 THEN n - 1 ELSE n]]
      BY <1>1, <3>1, <3>2, CalendarKeepTwo
    <3>4. kept = [i \in 1 .. 2 |-> IF i = 1 THEN q[n - 1] ELSE q[n]]
      BY <3>3
    <3> HIDE DEF kept
    <3>5. kept \in Seq(CalendarMonth) /\ Len(kept) = 2 /\ kept[1] = q[n - 1] /\ kept[2] = q[n]
      BY <1>2, <1>4, <3>4 DEF kept
    <3>6. CalendarRemains(q, both, kept)
      BY <2>0, <2>2, <3>5 DEF CalendarRemains, n
    <3> QED
      BY <3>6 DEF kept, P
  <2> QED
    BY <2>1, <2>2
<1>6. CASE CalendarLeft(q)
  <2>0. ~CalendarRight(q)
    <3>1. 1 \in 1 .. n
      BY <1>1
    <3>2. q[1].class = "current"
      BY <1>00, <1>6, <3>1
    <3>3. CalendarRight(q) => q[1].class # "current"
      BY <1>0, <1>1, <3>1
    <3> QED
      BY <3>2, <3>3
  <2>1. CASE both
    <3>1. P = {1}
      BY <1>00, <1>01, <1>1, <1>6, <2>1
    <3>2. kept = [i \in 1 .. 1 |-> q[1]]
      BY <1>1, <3>1, CalendarKeepOne
    <3> HIDE DEF kept
    <3>3. kept \in Seq(CalendarMonth) /\ Len(kept) = 1 /\ kept[1] = q[1]
      BY <1>2, <1>3, <3>2 DEF kept
    <3>4. CalendarRemains(q, both, kept)
      BY <2>0, <2>1, <3>3 DEF CalendarRemains, n
    <3> QED
      BY <3>4 DEF kept, P
  <2>2. CASE ~both
    <3>1. P = {1, 2}
      BY <1>00, <1>01, <1>1, <1>6, <2>2
    <3>2. 1 < 2
      OBVIOUS
    <3>3. kept = [i \in 1 .. 2 |-> q[IF i = 1 THEN 1 ELSE 2]]
      BY <1>1, <3>1, <3>2, CalendarKeepTwo
    <3>4. kept = [i \in 1 .. 2 |-> IF i = 1 THEN q[1] ELSE q[2]]
      BY <3>3
    <3> HIDE DEF kept
    <3>5. kept \in Seq(CalendarMonth) /\ Len(kept) = 2 /\ kept[1] = q[1] /\ kept[2] = q[2]
      BY <1>2, <1>4, <3>4 DEF kept
    <3>6. CalendarRemains(q, both, kept)
      BY <2>0, <2>2, <3>5 DEF CalendarRemains, n
    <3> QED
      BY <3>6 DEF kept, P
  <2> QED
    BY <2>1, <2>2
<1> QED
  BY <1>5, <1>6

\* The transition of the strip ends: three months again, and those on both sides
\* of the window's are its neighbours.
LEMMA CalendarEnd ==
    ASSUME NEW s, CalendarGood(s), s.moving # Month!NotMoving
    PROVE  CalendarGood(Month!OnMonthChangeEnd(s))
<1> DEFINE months == s.months
           n == Len(months)
           both == s.moving.both
           kept == Month!Keep(months, CalendarPlaces(months, both))
           before == <<Month!Month(s.cur - 1, 0)>>
           after == <<Month!Month(s.cur + 1, 0)>>
           q == IF both THEN before \o kept \o after
                ELSE IF s.moving.dir = "next" THEN Append(kept, Month!Month(s.cur + 1, 0))
                ELSE before \o kept
           strip == Month!SetMonthsTranslate(q)
           r == [s EXCEPT !.moving = Month!NotMoving, !.months = strip]
<1>1. /\ s \in CalendarState /\ months \in Seq(CalendarMonth) /\ n \in Nat /\ n >= 3
      /\ s.cur \in Int /\ both \in BOOLEAN /\ s.moving.dir \in {"none", "prev", "next"}
      /\ s.moving.dir # "none"
      /\ CalendarRight(months) \/ CalendarLeft(months)
      /\ CalendarTyped(s)
  BY DEF CalendarGood, CalendarTyped, CalendarState, CalendarMoving
<1>2. r = Month!OnMonthChangeEnd(s)
  BY DEF Month!OnMonthChangeEnd, CalendarPlaces
<1>3. CalendarRemains(months, both, kept)
  BY <1>1, CalendarEndOfMove
<1>4. /\ before \in Seq(CalendarMonth) /\ Len(before) = 1 /\ before[1].m = s.cur - 1
      /\ after \in Seq(CalendarMonth) /\ Len(after) = 1 /\ after[1].m = s.cur + 1
      /\ Append(kept, Month!Month(s.cur + 1, 0)) = kept \o after
  <2>1. s.cur - 1 \in Int /\ s.cur + 1 \in Int
    BY <1>1
  <2>2. /\ Month!Month(s.cur - 1, 0) \in CalendarMonth /\ Month!Month(s.cur - 1, 0).m = s.cur - 1
        /\ Month!Month(s.cur + 1, 0) \in CalendarMonth /\ Month!Month(s.cur + 1, 0).m = s.cur + 1
    BY <2>1, CalendarMonthTyped
  <2> HIDE DEF kept
  <2>3. kept \in Seq(CalendarMonth)
    BY <1>3 DEF CalendarRemains
  <2>4. Append(kept, Month!Month(s.cur + 1, 0)) = kept \o after
    BY <2>2, <2>3, AppendIsConcat
  <2> QED
    BY <2>2, <2>4
<1> HIDE DEF kept, before, after, r
<1>5. /\ q \in Seq(CalendarMonth) /\ Len(q) = 3
      /\ both => q[1].m = s.cur - 1 /\ q[2] = kept[1] /\ q[3].m = s.cur + 1
      /\ ~both /\ s.moving.dir = "next" => q[1] = kept[1] /\ q[2] = kept[2] /\ q[3].m = s.cur + 1
      /\ ~both /\ s.moving.dir # "next" => q[1].m = s.cur - 1 /\ q[2] = kept[1] /\ q[3] = kept[2]
  <2>1. CASE both
    <3>1. kept \in Seq(CalendarMonth) /\ Len(kept) = 1
      BY <1>3, <2>1 DEF CalendarRemains
    <3>2. /\ before \o kept \in Seq(CalendarMonth) /\ Len(before \o kept) = 2
          /\ (before \o kept)[1] = before[1] /\ (before \o kept)[2] = kept[1]
      <4>1. CalendarJoined(before, kept, before \o kept)
        BY <1>4, <3>1, CalendarJoin
      <4> QED
        BY <1>4, <3>1, <4>1 DEF CalendarJoined
    <3> DEFINE b == before \o kept
    <3> HIDE DEF b
    <3>3. /\ b \o after \in Seq(CalendarMonth) /\ Len(b \o after) = 3
          /\ (b \o after)[1] = b[1] /\ (b \o after)[2] = b[2] /\ (b \o after)[3] = after[1]
      <4>1. b \in Seq(CalendarMonth) /\ Len(b) = 2
        BY <3>2 DEF b
      <4>2. CalendarJoined(b, after, b \o after)
        BY <1>4, <4>1, CalendarJoin
      <4> QED
        BY <1>4, <4>1, <4>2 DEF CalendarJoined
    <3>4. q = b \o after
      BY <2>1 DEF b
    <3> HIDE DEF q
    <3> QED
      BY <1>4, <2>1, <3>2, <3>3, <3>4 DEF b
  <2>2. CASE ~both /\ s.moving.dir = "next"
    <3>1. kept \in Seq(CalendarMonth) /\ Len(kept) = 2
      BY <1>3, <2>2 DEF CalendarRemains
    <3>2. /\ kept \o after \in Seq(CalendarMonth) /\ Len(kept \o after) = 3
          /\ (kept \o after)[1] = kept[1] /\ (kept \o after)[2] = kept[2]
          /\ (kept \o after)[3] = after[1]
      <4>1. CalendarJoined(kept, after, kept \o after)
        BY <1>4, <3>1, CalendarJoin
      <4> QED
        BY <1>4, <3>1, <4>1 DEF CalendarJoined
    <3>3. q = kept \o after
      BY <1>4, <2>2
    <3> HIDE DEF q
    <3> QED
      BY <1>4, <2>2, <3>2, <3>3
  <2>3. CASE ~both /\ s.moving.dir # "next"
    <3>1. kept \in Seq(CalendarMonth) /\ Len(kept) = 2
      BY <1>3, <2>3 DEF CalendarRemains
    <3>2. /\ before \o kept \in Seq(CalendarMonth) /\ Len(before \o kept) = 3
          /\ (before \o kept)[1] = before[1] /\ (before \o kept)[2] = kept[1]
          /\ (before \o kept)[3] = kept[2]
      <4>1. CalendarJoined(before, kept, before \o kept)
        BY <1>4, <3>1, CalendarJoin
      <4> QED
        BY <1>4, <3>1, <4>1 DEF CalendarJoined
    <3>3. q = before \o kept
      BY <2>3
    <3> HIDE DEF q
    <3> QED
      BY <1>4, <2>3, <3>2, <3>3
  <2> QED
    BY <2>1, <2>2, <2>3
<1> HIDE DEF q
<1>6. /\ strip \in Seq(CalendarMonth) /\ Len(strip) = Len(q)
      /\ \A i \in 1 .. Len(q) : strip[i].m = q[i].m /\ strip[i].slot = i - 2
  BY <1>5, CalendarTranslate
<1> HIDE DEF strip
<1>7. r \in CalendarState
  BY <1>1, <1>6 DEF r, CalendarState, CalendarMoving, Month!NotMoving
<1>8. /\ r.months = strip /\ r.moving = Month!NotMoving /\ r.cur = s.cur /\ r.opened = s.opened
      /\ r.value = s.value /\ r.touched = s.touched /\ r.astray = s.astray
  BY <1>1 DEF r, CalendarState
<1>9. CalendarTyped(r)
  <2>1. /\ \A x, y \in r.value : x = y
        /\ r.value \subseteq MinMonth .. MaxMonth
        /\ r.touched => r.opened
    BY <1>1, <1>8 DEF CalendarTyped
  <2>2. Len(r.months) = Len(q) /\ r.moving = Month!NotMoving
    BY <1>6, <1>8
  <2>3. Len(r.months) >= 3
    BY <1>5, <2>2
  <2> QED
    BY <1>7, <2>1, <2>2, <2>3 DEF CalendarTyped
<1>10. ASSUME CalendarStrip(s) PROVE CalendarAtRest(r)
  <2>1. /\ s.moving.dir = "next" => CalendarAhead(s)
        /\ s.moving.dir = "prev" => CalendarBack(s)
    BY <1>10 DEF CalendarStrip
  <2>2. q[1].m = s.cur - 1 /\ q[2].m = s.cur /\ q[3].m = s.cur + 1
    <3>1. CASE s.moving.dir = "next"
      <4>1. CalendarRight(months) /\ months[n].m = s.cur /\ (~both => months[n - 1].m = s.cur - 1)
        BY <2>1, <3>1 DEF CalendarAhead
      <4> QED
        BY <1>3, <1>5, <3>1, <4>1 DEF CalendarRemains
    <3>2. CASE s.moving.dir = "prev"
      <4>1. CalendarLeft(months) /\ months[1].m = s.cur /\ (~both => months[2].m = s.cur + 1)
        BY <2>1, <3>2 DEF CalendarBack
      <4> QED
        BY <1>3, <1>5, <3>2, <4>1 DEF CalendarRemains
    <3> QED
      BY <1>1, <3>1, <3>2
  <2>3. ASSUME NEW i \in 1 .. 3 PROVE strip[i].m = s.cur + i - 2 /\ strip[i].slot = i - 2
    <3>1. i = 1 \/ i = 2 \/ i = 3
      OBVIOUS
    <3> QED
      BY <1>1, <1>5, <1>6, <2>2, <3>1
  <2> QED
    BY <1>5, <1>6, <1>8, <2>3 DEF CalendarAtRest
<1>11. ASSUME CalendarStrip(s) PROVE CalendarStrip(r)
  <2>1. CalendarAtRest(r) /\ r.cur \in MinMonth - 1 .. MaxMonth + 1
    BY <1>8, <1>10, <1>11 DEF CalendarStrip
  <2>2. r.moving.dir = "none"
    BY <1>8 DEF Month!NotMoving
  <2> QED
    BY <2>1, <2>2 DEF CalendarStrip
<1>12. CalendarGood(r)
  BY <1>8, <1>9, <1>11 DEF CalendarGood
<1> QED
  BY <1>2, <1>12

\* The calendar opens, with the month of the value or of today in the window.
LEMMA CalendarOpen == CalendarGood(w) /\ Month!Open => CalendarGood(w')
<1> SUFFICES ASSUME CalendarGood(w), Month!Open PROVE CalendarGood(w')
  OBVIOUS
<1> DEFINE m == IF w.value = {} THEN Today ELSE CHOOSE x \in w.value : TRUE
           months == [i \in 1 .. 3 |-> Month!Month(m + i - 2, i - 2)]
           strip == Month!SetMonthsTranslate(months)
           s == [w EXCEPT !.months = strip, !.cur = m]
<1>1. /\ w \in CalendarState /\ CalendarTyped(w) /\ w.moving = Month!NotMoving
      /\ w' = [Month!Layout(w) EXCEPT !.opened = TRUE, !.touched = FALSE, !.moved = FALSE, !.astray = FALSE]
  BY DEF Month!Open, CalendarGood, CalendarTyped
<1>2. m \in MinMonth .. MaxMonth /\ m \in Int
  <2>1. Today \in MinMonth .. MaxMonth /\ MinMonth \in Int /\ MaxMonth \in Int
    BY CalendarConstants
  <2>2. w.value # {} => (CHOOSE x \in w.value : TRUE) \in w.value
    OBVIOUS
  <2>3. w.value \subseteq MinMonth .. MaxMonth
    BY <1>1 DEF CalendarTyped
  <2> QED
    BY <2>1, <2>2, <2>3
<1>3. Month!Layout(w) = s
  BY DEF Month!Layout
<1> HIDE DEF m
<1>4. months \in Seq(CalendarMonth) /\ Len(months) = 3 /\ \A i \in 1 .. 3 : months[i].m = m + i - 2
  <2>1. ASSUME NEW i \in 1 .. 3 PROVE months[i] \in CalendarMonth /\ months[i].m = m + i - 2
    <3>1. m + i - 2 \in Int /\ i - 2 \in Int
      BY <1>2
    <3>2. months[i] = Month!Month(m + i - 2, i - 2)
      OBVIOUS
    <3> QED
      BY <3>1, <3>2 DEF Month!Month, CalendarMonth
  <2>2. months \in [1 .. 3 -> CalendarMonth] /\ 3 \in Nat
    BY <2>1
  <2> HIDE DEF months
  <2> QED
    BY <2>1, <2>2, CalendarSequence
<1> HIDE DEF months
<1>5. /\ strip \in Seq(CalendarMonth) /\ Len(strip) = Len(months)
      /\ \A i \in 1 .. Len(months) : strip[i].m = months[i].m /\ strip[i].slot = i - 2
  BY <1>4, CalendarTranslate
<1> HIDE DEF strip
<1>6. s \in CalendarState
  BY <1>1, <1>2, <1>5 DEF CalendarState
<1>7. s.months = strip /\ s.cur = m /\ s.moving = w.moving /\ s.value = w.value
  BY <1>1 DEF CalendarState
<1> HIDE DEF s
<1>8. w' = [s EXCEPT !.opened = TRUE, !.touched = FALSE, !.moved = FALSE, !.astray = FALSE]
  BY <1>1, <1>3
<1>9. w' \in CalendarState
  BY <1>6, <1>8 DEF CalendarState
<1>10. w'.months = s.months /\ w'.cur = s.cur /\ w'.moving = s.moving /\ w'.value = s.value
       /\ w'.touched = FALSE
  BY <1>6, <1>8 DEF CalendarState
<1>11. w'.months = strip /\ w'.cur = m /\ w'.moving = Month!NotMoving /\ w'.value = w.value
       /\ w'.touched = FALSE
  BY <1>1, <1>7, <1>10
<1>12. CalendarTyped(w')
  <2>1. /\ \A x, y \in w'.value : x = y
        /\ w'.value \subseteq MinMonth .. MaxMonth
    BY <1>1, <1>11 DEF CalendarTyped
  <2>2. Len(w'.months) = Len(months)
    BY <1>5, <1>11
  <2>3. Len(w'.months) >= 3
    BY <1>4, <2>2
  <2> QED
    BY <1>9, <1>11, <2>1, <2>3 DEF CalendarTyped
<1>13. CalendarAtRest(w')
  <2>1. Len(w'.months) = 3
    <3>1. Len(w'.months) = Len(months)
      BY <1>5, <1>11
    <3> QED
      BY <1>4, <3>1
  <2>2. \A i \in 1 .. 3 : strip[i].m = m + i - 2 /\ strip[i].slot = i - 2
    BY <1>4, <1>5
  <2> QED
    BY <1>11, <2>1, <2>2 DEF CalendarAtRest
<1>14. CalendarStrip(w')
  <2>1. w'.cur \in MinMonth - 1 .. MaxMonth + 1
    BY <1>2, <1>11, CalendarConstants
  <2>2. w'.moving.dir = "none"
    BY <1>11 DEF Month!NotMoving
  <2> QED
    BY <1>13, <2>1, <2>2 DEF CalendarStrip
<1> QED
  BY <1>12, <1>14 DEF CalendarGood

LEMMA CalendarInitIInv == Month!Init => CalendarIInv
<1> SUFFICES ASSUME Month!Init PROVE CalendarIInv
  OBVIOUS
<1>1. Today \in Int
  BY CalendarConstants
<1>2. w \in CalendarState
  BY <1>1 DEF Month!Init, CalendarState, CalendarMoving, Month!NotMoving
<1>3. w.value = {} /\ ~w.opened /\ w.moving = Month!NotMoving /\ ~w.touched
  BY DEF Month!Init
<1> QED
  BY <1>2, <1>3 DEF CalendarIInv, CalendarGood, CalendarTyped

LEMMA CalendarStepIInv == CalendarIInv /\ [Month!Next]_w => CalendarIInv'
<1> SUFFICES ASSUME CalendarGood(w), [Month!Next]_w PROVE CalendarGood(w')
  BY DEF CalendarIInv
<1>1. CASE Month!TapMonth
  <2>1. w.opened /\ (w' = Month!NextMonth(w) \/ w' = Month!PrevMonth(w))
    BY <1>1 DEF Month!TapMonth, Month!Tap
  <2>2. CalendarKept(w, Month!NextMonth(w)) /\ CalendarKept(w, Month!PrevMonth(w))
    BY <2>1, CalendarNextMonth, CalendarPrevMonth
  <2> QED
    BY <2>1, <2>2 DEF CalendarKept
<1>2. CASE Month!TapYear
  <2>1. w.opened
        /\ (w' = Month!SetYearMonth(w, w.cur + 12) \/ w' = Month!SetYearMonth(w, w.cur - 12))
    BY <1>2 DEF Month!TapYear, Month!Tap
  <2>2. w.cur + 12 \in Int /\ w.cur - 12 \in Int
    BY DEF CalendarGood, CalendarTyped, CalendarState
  <2>3. CalendarKept(w, Month!SetYearMonth(w, w.cur + 12))
        /\ CalendarKept(w, Month!SetYearMonth(w, w.cur - 12))
    BY <2>1, <2>2, CalendarSetYearMonth
  <2> QED
    BY <2>1, <2>3 DEF CalendarKept
<1>3. CASE \E i \in DOMAIN w.months, by \in {-1, 0, 1} : Month!DayClick(i, by)
  BY <1>3, CalendarDayClick
<1>4. CASE CalendarTouches
  BY <1>4, CalendarTouch
<1>5. CASE Month!TransitionEnd
  BY <1>5, CalendarEnd DEF Month!TransitionEnd
<1>6. CASE Month!Open
  BY <1>6, CalendarOpen
<1>7. CASE UNCHANGED w
  BY <1>7
<1> QED
  BY <1>1, <1>2, <1>3, <1>4, <1>5, <1>6, <1>7 DEF Month!Next, CalendarTouches

LEMMA CalendarMonthShownFollows == CalendarIInv => Month!MonthShown
<1> SUFFICES ASSUME CalendarIInv, w.opened, ~w.astray
             PROVE  /\ \E i \in DOMAIN w.months : w.months[i].slot = 0
                    /\ \A i \in DOMAIN w.months : w.months[i].slot = 0 => w.months[i].m = w.cur
                    /\ w.cur \in MinMonth - 1 .. MaxMonth + 1
                    /\ w.moving = Month!NotMoving =>
                           \A i \in DOMAIN w.months :
                               /\ Len(w.months) = 3
                               /\ w.months[i].m = w.cur + i - 2 /\ w.months[i].slot = i - 2
  BY DEF Month!MonthShown
<1> DEFINE q == w.months
           n == Len(q)
<1>1. /\ q \in Seq(CalendarMonth) /\ n \in Nat /\ n >= 3 /\ DOMAIN q = 1 .. n /\ w.cur \in Int
      /\ CalendarStrip(w) /\ w.moving.dir \in {"none", "prev", "next"}
      /\ w.moving.dir = "none" => w.moving = Month!NotMoving
  BY DEF CalendarIInv, CalendarGood, CalendarTyped, CalendarState, CalendarMoving
<1>2. w.cur \in MinMonth - 1 .. MaxMonth + 1
  BY <1>1 DEF CalendarStrip
<1>3. w.moving = Month!NotMoving => n = 3 /\ \A i \in 1 .. n : q[i].m = w.cur + i - 2 /\ q[i].slot = i - 2
  BY <1>1 DEF CalendarStrip, CalendarAtRest
<1>4. /\ w.moving.dir = "next" => q[n].m = w.cur /\ \A i \in 1 .. n : q[i].slot = i - n
      /\ w.moving.dir = "prev" => q[1].m = w.cur /\ \A i \in 1 .. n : q[i].slot = i - 1
  BY <1>1 DEF CalendarStrip, CalendarAhead, CalendarBack
<1> HIDE DEF q, n
<1>5. PICK k \in 1 .. n : q[k].m = w.cur /\ \A i \in 1 .. n : q[i].slot = i - k
  <2>1. CASE w.moving = Month!NotMoving
    <3>1. 2 \in 1 .. n /\ q[2].m = w.cur /\ \A i \in 1 .. n : q[i].slot = i - 2
      BY <1>1, <1>3, <2>1
    <3> QED
      BY <3>1
  <2>2. CASE w.moving.dir = "next"
    <3>1. n \in 1 .. n
      BY <1>1
    <3> QED
      BY <1>4, <2>2, <3>1
  <2>3. CASE w.moving.dir = "prev"
    <3>1. 1 \in 1 .. n
      BY <1>1
    <3> QED
      BY <1>4, <2>3, <3>1
  <2> QED
    BY <1>1, <2>1, <2>2, <2>3
<1>6. q[k].slot = 0 /\ \A i \in 1 .. n : q[i].slot = 0 => i = k
  BY <1>1, <1>5
<1>7. /\ \E i \in DOMAIN q : q[i].slot = 0
      /\ \A i \in DOMAIN q : q[i].slot = 0 => q[i].m = w.cur
  BY <1>1, <1>5, <1>6
<1>8. w.moving = Month!NotMoving =>
          \A i \in DOMAIN q : Len(q) = 3 /\ q[i].m = w.cur + i - 2 /\ q[i].slot = i - 2
  BY <1>1, <1>3 DEF n
<1> QED
  BY <1>2, <1>7, <1>8 DEF q

-----------------------------------------------------------------------------
(* Panels: what will still hide the panels that are displayed and not active. *)
PanelsKind == {"opened", "closed", "reset"}
PanelsElement == {"left", "right", "views"}

PanelsState ==
    [effect : [Panel!Side -> {"cover", "reveal"}], swipe : Panel!Side, follow : BOOLEAN,
     onlyClose : BOOLEAN, active : SUBSET Panel!Side, shown : SUBSET Panel!Side,
     body : SUBSET Panel!Side, closing : BOOLEAN, allow : BOOLEAN,
     listeners : SUBSET [on : PanelsElement, kind : PanelsKind, side : Panel!Side],
     moving : SUBSET PanelsElement, touch : {"none", "touched", "moved"}, side : Panel!Side,
     opened : BOOLEAN, late : BOOLEAN]

\* A listener waits on the element that its panel moves.
PanelsTyped(s) == s \in PanelsState /\ \A l \in s.listeners : l.on = Panel!Target(s, l.side)

PanelsHas(s, kind, p) == [on |-> Panel!Target(s, p), kind |-> kind, side |-> p] \in s.listeners
PanelsMoves(s, p) == Panel!Target(s, p) \in s.moving
PanelsCloses(s, p) == p \notin s.active /\ PanelsMoves(s, p) /\ PanelsHas(s, "closed", p)
PanelsReturns(s) == \E p \in Panel!Side : PanelsHas(s, "reset", p)

PanelsActive(s) ==
    /\ s.active = {} \/ \E p \in Panel!Side : s.active = {p}
    /\ s.body = s.active
    /\ ~s.late => s.active \subseteq s.shown

\* A finger is down only when the panels may be opened, and on the active one.
PanelsTouched(s) ==
    s.touch # "none" => /\ s.allow
                        /\ IF s.opened THEN s.active = {s.side}
                           ELSE s.active = {} /\ s.side = s.swipe

\* A panel that is displayed and not active is dragged, or will be hidden.
PanelsShown(s) ==
    \A p \in s.shown \ s.active :
        \/ s.touch = "moved" /\ s.side = p
        \/ PanelsMoves(s, p) /\ PanelsHas(s, "reset", p)
        \/ /\ PanelsCloses(s, p)
           /\ s.allow => Panel!Target(s, "left") # Panel!Target(s, "right")

\* What keeps the panels from being opened ends with a transition.
PanelsLocked(s) ==
    ~s.allow => \E p \in Panel!Side :
                    PanelsCloses(s, p) \/ (PanelsMoves(s, p) /\ PanelsHas(s, "opened", p))

PanelsClosing(s) ==
    s.closing => \/ PanelsReturns(s)
                 \/ \E p \in Panel!Side :
                        /\ PanelsCloses(s, p)
                        /\ s.allow => /\ s.active # {}
                                      /\ Panel!Target(s, "left") # Panel!Target(s, "right")

PanelsReturning(s) ==
    PanelsReturns(s) =>
        /\ s.active = {} /\ s.side = s.swipe /\ PanelsMoves(s, s.swipe)
        /\ \A p \in Panel!Side : PanelsHas(s, "reset", p) => p = s.swipe

\* What was opened and is not active was closed.
PanelsOpened(s) ==
    \A p \in Panel!Side : PanelsHas(s, "opened", p) /\ p \notin s.active => PanelsHas(s, "closed", p)

PanelsGood(s) ==
    /\ PanelsTyped(s) /\ PanelsActive(s) /\ PanelsTouched(s) /\ PanelsOpened(s)
    /\ ~s.late => PanelsShown(s) /\ PanelsLocked(s) /\ PanelsClosing(s) /\ PanelsReturning(s)

PanelsIInv == PanelsGood(w)

-----------------------------------------------------------------------------
\* What does not change, and what a change of the listeners and of what moves
\* leaves alone.
PanelsFrame(s, t) ==
    /\ t.swipe = s.swipe /\ t.side = s.side /\ t.opened = s.opened
    /\ \A p \in Panel!Side : Panel!Target(t, p) = Panel!Target(s, p)

PanelsLook(s, t) ==
    /\ t.active = s.active /\ t.shown = s.shown /\ t.body = s.body
    /\ t.closing = s.closing /\ t.allow = s.allow /\ t.late = s.late /\ t.touch = s.touch

PanelsListen(s, t, kind, p) ==
    \A k \in PanelsKind, q \in Panel!Side :
        PanelsHas(t, k, q) <=> PanelsHas(s, k, q) \/ (k = kind /\ q = p)

PanelsWaits(s, t) ==
    \A k \in PanelsKind, q \in Panel!Side : PanelsHas(t, k, q) <=> PanelsHas(s, k, q)

PanelsStill(s, t) == \A q \in Panel!Side : PanelsMoves(t, q) <=> PanelsMoves(s, q)

LEMMA PanelsWait ==
    ASSUME NEW s, PanelsTyped(s), NEW k \in PanelsKind, NEW p \in Panel!Side
    PROVE  LET t == Panel!Wait(s, k, p)
           IN  /\ PanelsTyped(t) /\ PanelsFrame(s, t) /\ PanelsLook(s, t)
               /\ PanelsListen(s, t, k, p) /\ PanelsStill(s, t)
<1> DEFINE l == [on |-> Panel!Target(s, p), kind |-> k, side |-> p]
           t == Panel!Wait(s, k, p)
<1>1. s \in PanelsState /\ \A m \in s.listeners : m.on = Panel!Target(s, m.side)
  BY DEF PanelsTyped
<1>2. l \in [on : PanelsElement, kind : PanelsKind, side : Panel!Side]
      /\ l.on = Panel!Target(s, l.side)
  BY <1>1 DEF Panel!Target, Panel!Side, PanelsElement
<1>3. t = [s EXCEPT !.listeners = s.listeners \cup {l}]
  BY DEF Panel!Wait
<1> HIDE DEF t
<1>4. t \in PanelsState
  BY <1>1, <1>2, <1>3 DEF PanelsState
<1>5. t.effect = s.effect /\ t.listeners = s.listeners \cup {l} /\ t.moving = s.moving
  BY <1>1, <1>3 DEF PanelsState
<1>6. \A q : Panel!Target(t, q) = Panel!Target(s, q)
  BY <1>5 DEF Panel!Target
<1>7. PanelsTyped(t)
  BY <1>1, <1>2, <1>4, <1>5, <1>6 DEF PanelsTyped
<1>8. PanelsFrame(s, t) /\ PanelsLook(s, t)
  BY <1>1, <1>3, <1>6 DEF PanelsState, PanelsFrame, PanelsLook
<1>9. PanelsListen(s, t, k, p)
  <2> SUFFICES ASSUME NEW j \in PanelsKind, NEW q \in Panel!Side
               PROVE  PanelsHas(t, j, q) <=> PanelsHas(s, j, q) \/ (j = k /\ q = p)
    BY DEF PanelsListen
  <2>1. [on |-> Panel!Target(s, q), kind |-> j, side |-> q] = l <=> j = k /\ q = p
    OBVIOUS
  <2> QED
    BY <1>5, <1>6, <2>1 DEF PanelsHas
<1>10. PanelsStill(s, t)
  BY <1>5, <1>6 DEF PanelsStill, PanelsMoves
<1> QED
  BY <1>7, <1>8, <1>9, <1>10 DEF t

LEMMA PanelsMove ==
    ASSUME NEW s, PanelsTyped(s), NEW p \in Panel!Side
    PROVE  LET t == Panel!Move(s, p)
           IN  /\ PanelsTyped(t) /\ PanelsFrame(s, t) /\ PanelsLook(s, t) /\ PanelsWaits(s, t)
               /\ \A q \in Panel!Side : PanelsMoves(t, q) <=>
                      PanelsMoves(s, q) \/ Panel!Target(s, q) = Panel!Target(s, p)
<1> DEFINE t == Panel!Move(s, p)
<1>1. s \in PanelsState /\ \A m \in s.listeners : m.on = Panel!Target(s, m.side)
  BY DEF PanelsTyped
<1>2. Panel!Target(s, p) \in PanelsElement
  BY <1>1 DEF Panel!Target, Panel!Side, PanelsElement
<1>3. t = [s EXCEPT !.moving = s.moving \cup {Panel!Target(s, p)}]
  BY DEF Panel!Move
<1> HIDE DEF t
<1>4. t \in PanelsState
  BY <1>1, <1>2, <1>3 DEF PanelsState
<1>5. /\ t.effect = s.effect /\ t.listeners = s.listeners
      /\ t.moving = s.moving \cup {Panel!Target(s, p)}
  BY <1>1, <1>3 DEF PanelsState
<1>6. \A q : Panel!Target(t, q) = Panel!Target(s, q)
  BY <1>5 DEF Panel!Target
<1>7. PanelsTyped(t)
  BY <1>1, <1>4, <1>5, <1>6 DEF PanelsTyped
<1>8. PanelsFrame(s, t) /\ PanelsLook(s, t)
  BY <1>1, <1>3, <1>6 DEF PanelsState, PanelsFrame, PanelsLook
<1>9. PanelsWaits(s, t)
  BY <1>5, <1>6 DEF PanelsWaits, PanelsHas
<1> QED
  BY <1>5, <1>6, <1>7, <1>8, <1>9 DEF t, PanelsMoves

\* A change of anything else.
LEMMA PanelsChange ==
    ASSUME NEW s, PanelsTyped(s), NEW t \in PanelsState, t.effect = s.effect,
           t.listeners = s.listeners, t.moving = s.moving
    PROVE  /\ PanelsTyped(t) /\ PanelsWaits(s, t) /\ PanelsStill(s, t)
           /\ \A p \in Panel!Side : Panel!Target(t, p) = Panel!Target(s, p)
<1>1. \A q : Panel!Target(t, q) = Panel!Target(s, q)
  BY DEF Panel!Target
<1> QED
  BY <1>1 DEF PanelsTyped, PanelsWaits, PanelsStill, PanelsHas, PanelsMoves

\* closePanel closes the active panel.
PanelsClosed(s, t, p) ==
    /\ PanelsTyped(t) /\ PanelsFrame(s, t) /\ PanelsListen(s, t, "closed", p)
    /\ t.active = {} /\ t.shown = s.shown /\ t.body = s.body \ {p}
    /\ t.closing = TRUE /\ t.allow = FALSE /\ t.late = s.late

LEMMA PanelsClose ==
    ASSUME NEW s, PanelsTyped(s), NEW p \in Panel!Side, s.active = {p}
    PROVE  LET t == Panel!ClosePanel(s)
           IN  PanelsClosed(s, t, p) /\ PanelsStill(s, t) /\ t.touch = s.touch
<1> DEFINE u == [s EXCEPT !.active = {}, !.allow = FALSE, !.closing = TRUE, !.body = s.body \ {p}]
           t == Panel!ClosePanel(s)
<1>1. (CHOOSE q \in s.active : TRUE) = p
  OBVIOUS
<1>2. t = Panel!Wait(u, "closed", p)
  BY <1>1 DEF Panel!ClosePanel
<1>3. s \in PanelsState
  BY DEF PanelsTyped
<1> HIDE DEF t
<1>4. u \in PanelsState
  BY <1>3 DEF PanelsState
<1>5. /\ u.effect = s.effect /\ u.listeners = s.listeners /\ u.moving = s.moving
      /\ u.active = {} /\ u.allow = FALSE /\ u.closing = TRUE /\ u.body = s.body \ {p}
  BY <1>3 DEF PanelsState
<1>6. /\ u.shown = s.shown /\ u.late = s.late
      /\ u.swipe = s.swipe /\ u.side = s.side /\ u.opened = s.opened /\ u.touch = s.touch
  BY <1>3 DEF PanelsState
<1> HIDE DEF u
<1>7. /\ PanelsTyped(u) /\ PanelsWaits(s, u) /\ PanelsStill(s, u)
      /\ \A q \in Panel!Side : Panel!Target(u, q) = Panel!Target(s, q)
  BY <1>4, <1>5, PanelsChange
<1>8. "closed" \in PanelsKind
  BY DEF PanelsKind
<1>9. /\ PanelsTyped(t) /\ PanelsFrame(u, t) /\ PanelsLook(u, t)
      /\ PanelsListen(u, t, "closed", p) /\ PanelsStill(u, t)
  BY <1>2, <1>7, <1>8, PanelsWait
<1>10. /\ PanelsFrame(s, t) /\ PanelsListen(s, t, "closed", p) /\ PanelsStill(s, t)
       /\ t.touch = s.touch
  BY <1>6, <1>7, <1>9 DEF PanelsFrame, PanelsLook, PanelsListen, PanelsWaits, PanelsStill
<1> QED
  BY <1>5, <1>6, <1>9, <1>10 DEF PanelsClosed, PanelsLook, t

LEMMA PanelsCloseMoves ==
    ASSUME NEW s, PanelsTyped(s), NEW p \in Panel!Side, s.active = {p}
    PROVE  LET t == Panel!CloseMoves(s)
           IN  /\ PanelsClosed(s, t, p) /\ t.touch = s.touch
               /\ \A q \in Panel!Side : PanelsMoves(t, q) <=>
                      PanelsMoves(s, q) \/ Panel!Target(s, q) = Panel!Target(s, p)
<1> DEFINE u == Panel!ClosePanel(s)
           t == Panel!CloseMoves(s)
<1>1. (CHOOSE q \in s.active : TRUE) = p
  OBVIOUS
<1>2. t = Panel!Move(u, p)
  BY <1>1 DEF Panel!CloseMoves
<1>3. PanelsClosed(s, u, p) /\ PanelsStill(s, u) /\ u.touch = s.touch
  BY PanelsClose
<1> HIDE DEF t, u
<1>4. /\ PanelsTyped(t) /\ PanelsFrame(u, t) /\ PanelsLook(u, t) /\ PanelsWaits(u, t)
      /\ \A q \in Panel!Side : PanelsMoves(t, q) <=>
             PanelsMoves(u, q) \/ Panel!Target(u, q) = Panel!Target(u, p)
  BY <1>2, <1>3, PanelsMove DEF PanelsClosed
<1>5. PanelsFrame(s, t) /\ PanelsListen(s, t, "closed", p)
  BY <1>3, <1>4 DEF PanelsClosed, PanelsFrame, PanelsListen, PanelsWaits
<1>6. PanelsClosed(s, t, p) /\ t.touch = s.touch
  BY <1>3, <1>4, <1>5 DEF PanelsClosed, PanelsLook
<1> QED
  BY <1>3, <1>4, <1>6 DEF PanelsClosed, PanelsFrame, PanelsStill, t

PanelsNoneActive(s, c) ==
    /\ PanelsTyped(c) /\ PanelsFrame(s, c)
    /\ c.active = {} /\ c.shown = s.shown /\ c.body = {} /\ c.late = s.late
    /\ c.touch = s.touch
    /\ c.closing <=> s.closing \/ s.active # {}
    /\ \A k \in PanelsKind, q \in Panel!Side :
           PanelsHas(c, k, q) <=> PanelsHas(s, k, q) \/ (k = "closed" /\ q \in s.active)
    /\ \A q \in Panel!Side : PanelsMoves(c, q) <=>
           \/ PanelsMoves(s, q)
           \/ \E o \in s.active : Panel!Target(s, q) = Panel!Target(s, o)

\* The active panel and p begin to move.
PanelsSlides(s, t, p) ==
    \A q \in Panel!Side : PanelsMoves(t, q) <=>
        \/ PanelsMoves(s, q)
        \/ \E o \in s.active \cup {p} : Panel!Target(s, q) = Panel!Target(s, o)

\* openPanel closes the panel that is active, if any.
PanelsOpen(s, t, p) ==
    /\ PanelsTyped(t) /\ PanelsFrame(s, t)
    /\ t.active = {p} /\ t.shown = s.shown \cup {p} /\ t.body = {p} /\ t.allow = FALSE
    /\ t.closing <=> s.closing \/ s.active # {}
    /\ t.late <=> s.late \/ PanelsReturns(s)
    /\ \A k \in PanelsKind, q \in Panel!Side :
           PanelsHas(t, k, q) <=> \/ PanelsHas(s, k, q)
                                  \/ k = "opened" /\ q = p
                                  \/ k = "closed" /\ q \in s.active

LEMMA PanelsReturningIs ==
    ASSUME NEW s, PanelsTyped(s)
    PROVE  Panel!Returning(s) \in BOOLEAN /\ (Panel!Returning(s) <=> PanelsReturns(s))
<1>1. \A l \in s.listeners : l = [on |-> Panel!Target(s, l.side), kind |-> l.kind, side |-> l.side]
  BY DEF PanelsTyped, PanelsState
<1>2. \A l \in s.listeners : l.side \in Panel!Side
  BY DEF PanelsTyped, PanelsState
<1>3. ASSUME NEW l \in s.listeners, l.kind = "reset" PROVE PanelsReturns(s)
  BY <1>1, <1>2, <1>3 DEF PanelsReturns, PanelsHas
<1>4. ASSUME NEW q \in Panel!Side, PanelsHas(s, "reset", q) PROVE Panel!Returning(s)
  BY <1>4 DEF Panel!Returning, PanelsHas
<1>5. Panel!Returning(s) <=> PanelsReturns(s)
  BY <1>3, <1>4 DEF Panel!Returning, PanelsReturns
<1> QED
  BY <1>5 DEF Panel!Returning

LEMMA PanelsOpenPanel ==
    ASSUME NEW s, PanelsTyped(s), PanelsActive(s), NEW p \in Panel!Side, s.allow, p \notin s.active
    PROVE  LET t == Panel!OpenPanel(s, p)
           IN  /\ PanelsOpen(s, t, p) /\ t.touch = s.touch
               /\ \A q \in Panel!Side : PanelsMoves(t, q) <=>
                      \/ PanelsMoves(s, q)
                      \/ \E o \in s.active : Panel!Target(s, q) = Panel!Target(s, o)
<1> DEFINE c == Panel!CloseMoves(s)
           late == s.late \/ Panel!Returning(s)
           u == [c EXCEPT !.allow = FALSE, !.shown = c.shown \cup {p}, !.active = c.active \cup {p},
                          !.body = c.body \cup {p}, !.late = c.late \/ Panel!Returning(s)]
           t == Panel!OpenPanel(s, p)
<1>1. t = Panel!Wait(u, "opened", p)
  BY DEF Panel!OpenPanel
<1>2. Panel!Returning(s) \in BOOLEAN /\ (Panel!Returning(s) <=> PanelsReturns(s))
  BY PanelsReturningIs
<1>3. PanelsNoneActive(s, c)
  <2>1. CASE s.active = {}
    <3>1. c = s /\ s.body = {}
      BY <2>1 DEF Panel!CloseMoves, PanelsActive
    <3> HIDE DEF c
    <3> QED
      BY <2>1, <3>1 DEF PanelsFrame, PanelsNoneActive
  <2>2. ASSUME NEW o \in Panel!Side, s.active = {o}
        PROVE  PanelsNoneActive(s, c)
    <3>1. /\ PanelsClosed(s, c, o) /\ c.touch = s.touch
          /\ \A q \in Panel!Side : PanelsMoves(c, q) <=>
                 PanelsMoves(s, q) \/ Panel!Target(s, q) = Panel!Target(s, o)
      BY <2>2, PanelsCloseMoves
    <3>2. s.body = {o}
      BY <2>2 DEF PanelsActive
    <3> HIDE DEF c
    <3> QED
      BY <2>2, <3>1, <3>2 DEF PanelsClosed, PanelsListen, PanelsNoneActive
  <2> QED
    BY <2>1, <2>2 DEF PanelsActive
<1> HIDE DEF c, t
<1> USE DEF PanelsNoneActive
<1>4. c \in PanelsState /\ c.late \in BOOLEAN
  BY <1>3 DEF PanelsTyped, PanelsState
<1>5. u \in PanelsState
  <2>1. (c.late \/ Panel!Returning(s)) \in BOOLEAN
    BY <1>4
  <2> QED
    BY <1>4 DEF PanelsState
<1>6. /\ u.effect = c.effect /\ u.listeners = c.listeners /\ u.moving = c.moving
      /\ u.active = {p} /\ u.allow = FALSE /\ u.body = {p} /\ u.shown = s.shown \cup {p}
  BY <1>3, <1>4 DEF PanelsState
<1>7. /\ u.closing = c.closing /\ (u.late <=> s.late \/ PanelsReturns(s))
      /\ u.swipe = c.swipe /\ u.side = c.side /\ u.opened = c.opened /\ u.touch = c.touch
  BY <1>2, <1>3, <1>4 DEF PanelsState
<1> HIDE DEF u
<1>8. /\ PanelsTyped(u) /\ PanelsWaits(c, u) /\ PanelsStill(c, u)
      /\ \A q \in Panel!Side : Panel!Target(u, q) = Panel!Target(c, q)
  BY <1>3, <1>5, <1>6, PanelsChange
<1>9. "opened" \in PanelsKind
  BY DEF PanelsKind
<1>10. /\ PanelsTyped(t) /\ PanelsFrame(u, t) /\ PanelsLook(u, t)
       /\ PanelsListen(u, t, "opened", p) /\ PanelsStill(u, t)
  BY <1>1, <1>8, <1>9, PanelsWait
<1>11. PanelsFrame(s, t)
  BY <1>3, <1>7, <1>8, <1>10 DEF PanelsFrame
<1>12. \A k \in PanelsKind, q \in Panel!Side :
           PanelsHas(t, k, q) <=> \/ PanelsHas(s, k, q)
                                  \/ k = "opened" /\ q = p
                                  \/ k = "closed" /\ q \in s.active
  BY <1>3, <1>8, <1>10 DEF PanelsListen, PanelsWaits
<1>13. t.closing <=> s.closing \/ s.active # {}
  BY <1>3, <1>7, <1>10 DEF PanelsLook
<1>14. PanelsOpen(s, t, p) /\ t.touch = s.touch
  BY <1>3, <1>6, <1>7, <1>10, <1>11, <1>12, <1>13 DEF PanelsOpen, PanelsLook
<1> QED
  BY <1>3, <1>8, <1>10, <1>14 DEF PanelsStill, t

LEMMA PanelsOpenMoves ==
    ASSUME NEW s, PanelsTyped(s), PanelsActive(s), NEW p \in Panel!Side, s.allow, p \notin s.active
    PROVE  LET t == Panel!OpenMoves(s, p)
           IN  PanelsOpen(s, t, p) /\ PanelsSlides(s, t, p) /\ t.touch = s.touch
<1> DEFINE u == Panel!OpenPanel(s, p)
           t == Panel!OpenMoves(s, p)
<1>1. t = Panel!Move(u, p)
  BY DEF Panel!OpenMoves
<1>2. /\ PanelsOpen(s, u, p) /\ u.touch = s.touch
      /\ \A q \in Panel!Side : PanelsMoves(u, q) <=>
             \/ PanelsMoves(s, q)
             \/ \E o \in s.active : Panel!Target(s, q) = Panel!Target(s, o)
  BY PanelsOpenPanel
<1> HIDE DEF t, u
<1>3. /\ PanelsTyped(t) /\ PanelsFrame(u, t) /\ PanelsLook(u, t) /\ PanelsWaits(u, t)
      /\ \A q \in Panel!Side : PanelsMoves(t, q) <=>
             PanelsMoves(u, q) \/ Panel!Target(u, q) = Panel!Target(u, p)
  BY <1>1, <1>2, PanelsMove DEF PanelsOpen
<1>4. PanelsOpen(s, t, p) /\ t.touch = s.touch
  BY <1>2, <1>3 DEF PanelsOpen, PanelsFrame, PanelsLook, PanelsWaits
<1>5. PanelsSlides(s, t, p)
  BY <1>2, <1>3 DEF PanelsOpen, PanelsFrame, PanelsSlides
<1> QED
  BY <1>4, <1>5 DEF t

-----------------------------------------------------------------------------
\* A panel may be displayed without a listener only if it is being dragged, or p.
PanelsFree(s, p) ==
    /\ PanelsTyped(s) /\ PanelsActive(s) /\ PanelsOpened(s) /\ s.allow
    /\ ~s.late => /\ PanelsClosing(s) /\ PanelsReturning(s)
                  /\ \A q \in (s.shown \ s.active) \ {p} :
                         \/ PanelsMoves(s, q) /\ PanelsHas(s, "reset", q)
                         \/ PanelsCloses(s, q) /\ Panel!Target(s, "left") # Panel!Target(s, "right")

LEMMA PanelsOpenGood ==
    ASSUME NEW s, NEW p \in Panel!Side, PanelsFree(s, p), p \notin s.active,
           NEW t, PanelsOpen(s, t, p), PanelsSlides(s, t, p), t.touch = "none"
    PROVE  PanelsGood(t)
<1> USE DEF Panel!Side, PanelsKind
<1>1. /\ PanelsTyped(t) /\ t.active = {p} /\ t.shown = s.shown \cup {p} /\ t.body = {p}
      /\ ~t.allow /\ (t.late <=> s.late \/ PanelsReturns(s))
  BY DEF PanelsOpen
<1>2. PanelsActive(t) /\ PanelsTouched(t)
  BY <1>1 DEF PanelsActive, PanelsTouched
<1>3. \A k \in PanelsKind, q \in Panel!Side :
          PanelsHas(t, k, q) <=> \/ PanelsHas(s, k, q)
                                 \/ k = "opened" /\ q = p
                                 \/ k = "closed" /\ q \in s.active
  BY DEF PanelsOpen
<1>4. PanelsOpened(t)
  BY <1>1, <1>3 DEF PanelsOpened, PanelsFree
<1>5. \A q \in Panel!Side : PanelsMoves(t, q) <=>
          \/ PanelsMoves(s, q)
          \/ \E o \in s.active \cup {p} : Panel!Target(s, q) = Panel!Target(s, o)
  BY DEF PanelsSlides
<1>6. ASSUME ~t.late
      PROVE  PanelsShown(t) /\ PanelsLocked(t) /\ PanelsClosing(t) /\ PanelsReturning(t)
  <2>1. ~s.late /\ ~PanelsReturns(s) /\ PanelsFree(s, p)
    BY <1>1, <1>6
  <2>2. ~PanelsReturns(t)
    BY <1>3, <2>1 DEF PanelsReturns
  <2>3. PanelsMoves(t, p) /\ PanelsHas(t, "opened", p)
    BY <1>3, <1>5
  <2>4. \A q \in Panel!Side : q \in s.active => PanelsCloses(t, q)
    BY <1>1, <1>3, <1>5 DEF PanelsCloses
  <2>5. \A q \in Panel!Side : q # p /\ PanelsCloses(s, q) => PanelsCloses(t, q)
    BY <1>1, <1>3, <1>5 DEF PanelsCloses
  <2>6. PanelsShown(t)
    <3>1. ASSUME NEW q \in t.shown \ t.active PROVE PanelsCloses(t, q)
      <4>1. q \in Panel!Side /\ q # p /\ q \in s.shown
        BY <1>1, <3>1 DEF PanelsTyped, PanelsState
      <4>2. ~PanelsHas(s, "reset", q)
        BY <2>1, <4>1 DEF PanelsReturns
      <4> QED
        BY <2>1, <2>4, <2>5, <4>1, <4>2 DEF PanelsFree
    <3> QED
      BY <1>1, <3>1 DEF PanelsShown
  <2>7. PanelsLocked(t)
    BY <2>3 DEF PanelsLocked
  <2>8. PanelsClosing(t)
    <3>1. ASSUME t.closing PROVE \E q \in Panel!Side : PanelsCloses(t, q)
      <4>1. CASE s.active # {}
        BY <2>4, <4>1 DEF PanelsFree, PanelsActive
      <4>2. CASE s.active = {}
        <5>1. s.closing
          BY <3>1, <4>2 DEF PanelsOpen
        <5> QED
          BY <2>1, <4>2, <5>1 DEF PanelsFree, PanelsClosing
      <4> QED
        BY <4>1, <4>2
    <3> QED
      BY <1>1, <3>1 DEF PanelsClosing
  <2>9. PanelsReturning(t)
    BY <2>2 DEF PanelsReturning
  <2> QED
    BY <2>6, <2>7, <2>8, <2>9
<1> QED
  BY <1>1, <1>2, <1>4, <1>6 DEF PanelsGood

LEMMA PanelsCloseGood ==
    ASSUME NEW s, NEW p \in Panel!Side, PanelsActive(s), PanelsOpened(s), s.active = {p},
           ~s.late => PanelsReturning(s) /\ \A q \in s.shown \ s.active : PanelsCloses(s, q),
           NEW t, PanelsClosed(s, t, p), t.touch = "none", PanelsTyped(s),
           \A q \in Panel!Side : PanelsMoves(t, q) <=>
               PanelsMoves(s, q) \/ Panel!Target(s, q) = Panel!Target(s, p)
    PROVE  PanelsGood(t)
<1> USE DEF Panel!Side, PanelsKind
<1>1. /\ PanelsTyped(t) /\ t.active = {} /\ t.shown = s.shown /\ t.body = {} /\ t.closing
      /\ ~t.allow /\ t.late = s.late
  BY DEF PanelsClosed, PanelsActive
<1>2. PanelsActive(t) /\ PanelsTouched(t)
  BY <1>1 DEF PanelsActive, PanelsTouched
<1>3. \A k \in PanelsKind, q \in Panel!Side :
          PanelsHas(t, k, q) <=> PanelsHas(s, k, q) \/ (k = "closed" /\ q = p)
  BY DEF PanelsClosed, PanelsListen
<1>4. PanelsOpened(t)
  BY <1>1, <1>3 DEF PanelsOpened
<1>5. PanelsCloses(t, p)
  BY <1>1, <1>3 DEF PanelsCloses
<1>6. ASSUME ~t.late
      PROVE  PanelsShown(t) /\ PanelsLocked(t) /\ PanelsClosing(t) /\ PanelsReturning(t)
  <2>1. ~s.late /\ ~PanelsReturns(s)
    BY <1>1, <1>6 DEF PanelsReturning
  <2>2. ~PanelsReturns(t)
    BY <1>3, <2>1 DEF PanelsReturns
  <2>3. \A q \in Panel!Side : PanelsCloses(s, q) => PanelsCloses(t, q)
    BY <1>1, <1>3 DEF PanelsCloses
  <2>4. \A q \in t.shown \ t.active : PanelsCloses(t, q)
    <3> SUFFICES ASSUME NEW q \in t.shown \ t.active, q # p PROVE PanelsCloses(t, q)
      BY <1>5
    <3>1. q \in Panel!Side /\ q \in s.shown \ s.active
      BY <1>1 DEF PanelsTyped, PanelsState
    <3> QED
      BY <2>1, <2>3, <3>1
  <2>5. PanelsShown(t)
    BY <1>1, <2>4 DEF PanelsShown
  <2>6. PanelsLocked(t) /\ PanelsClosing(t) /\ PanelsReturning(t)
    BY <1>1, <1>5, <2>2 DEF PanelsLocked, PanelsClosing, PanelsReturning
  <2> QED
    BY <2>5, <2>6
<1> QED
  BY <1>1, <1>2, <1>4, <1>6 DEF PanelsGood

\* The finger is lifted, or goes down.
LEMMA PanelsSameGood ==
    ASSUME NEW s, PanelsGood(s), s.touch # "moved",
           NEW t, PanelsTyped(t), PanelsWaits(s, t), PanelsStill(s, t), PanelsTouched(t),
           \A p \in Panel!Side : Panel!Target(t, p) = Panel!Target(s, p),
           t.active = s.active, t.shown = s.shown, t.body = s.body, t.swipe = s.swipe,
           t.closing = s.closing, t.allow = s.allow, t.late = s.late,
           t.side = s.side \/ (t.active = {} /\ t.side = t.swipe) \/ t.active = {t.side}
    PROVE  PanelsGood(t)
<1> USE DEF Panel!Side, PanelsKind
<1>1. \A k \in PanelsKind, q \in Panel!Side : PanelsHas(t, k, q) <=> PanelsHas(s, k, q)
  BY DEF PanelsWaits
<1>2. \A q \in Panel!Side : PanelsMoves(t, q) <=> PanelsMoves(s, q)
  BY DEF PanelsStill
<1>3. \A q \in Panel!Side : PanelsCloses(t, q) <=> PanelsCloses(s, q)
  BY <1>1, <1>2 DEF PanelsCloses
<1>4. PanelsReturns(t) <=> PanelsReturns(s)
  BY <1>1 DEF PanelsReturns
<1>5. PanelsActive(t) /\ PanelsOpened(t)
  BY <1>1 DEF PanelsGood, PanelsActive, PanelsOpened
<1>6. ASSUME ~t.late
      PROVE  PanelsShown(t) /\ PanelsLocked(t) /\ PanelsClosing(t) /\ PanelsReturning(t)
  <2>1. PanelsShown(s) /\ PanelsLocked(s) /\ PanelsClosing(s) /\ PanelsReturning(s)
    BY <1>6 DEF PanelsGood
  <2>2. PanelsShown(t)
    <3> SUFFICES ASSUME NEW p \in t.shown \ t.active
                 PROVE  \/ PanelsMoves(t, p) /\ PanelsHas(t, "reset", p)
                        \/ /\ PanelsCloses(t, p)
                           /\ t.allow => Panel!Target(t, "left") # Panel!Target(t, "right")
      BY DEF PanelsShown
    <3>1. p \in Panel!Side
      BY DEF PanelsTyped, PanelsState
    <3> QED
      BY <1>1, <1>2, <1>3, <2>1, <3>1 DEF PanelsShown
  <2>3. PanelsLocked(t)
    BY <1>1, <1>2, <1>3, <2>1 DEF PanelsLocked
  <2>4. PanelsClosing(t)
    BY <1>3, <1>4, <2>1 DEF PanelsClosing
  <2>5. PanelsReturning(t)
    <3> SUFFICES ASSUME PanelsReturns(t)
                 PROVE  /\ t.active = {} /\ t.side = t.swipe /\ PanelsMoves(t, t.swipe)
                        /\ \A p \in Panel!Side : PanelsHas(t, "reset", p) => p = t.swipe
      BY DEF PanelsReturning
    <3>1. t.swipe \in Panel!Side
      BY DEF PanelsTyped, PanelsState
    <3> QED
      BY <1>1, <1>2, <1>4, <2>1, <3>1 DEF PanelsReturning
  <2> QED
    BY <2>2, <2>3, <2>4, <2>5
<1> QED
  BY <1>5, <1>6 DEF PanelsGood

\* A tap, or a drag that does not follow the finger, opens or closes a panel.
LEMMA PanelsTaps ==
    ASSUME PanelsGood(w), w.touch # "moved"
    PROVE  /\ \A p \in Panel!Side : PanelsGood([Panel!OpenMoves(w, p) EXCEPT !.touch = "none"])
           /\ PanelsGood([Panel!CloseMoves(w) EXCEPT !.touch = "none"])
<1>1. PanelsTyped(w) /\ w \in PanelsState /\ PanelsActive(w)
  BY DEF PanelsGood, PanelsTyped
<1>2. ASSUME NEW t, PanelsTyped(t)
      PROVE  LET u == [t EXCEPT !.touch = "none"]
             IN  /\ PanelsTyped(u) /\ PanelsFrame(t, u) /\ PanelsWaits(t, u) /\ PanelsStill(t, u)
                 /\ u.active = t.active /\ u.shown = t.shown /\ u.body = t.body
                 /\ u.closing = t.closing /\ u.allow = t.allow /\ u.late = t.late
                 /\ u.touch = "none"
  <2> DEFINE u == [t EXCEPT !.touch = "none"]
  <2>1. t \in PanelsState
    BY <1>2 DEF PanelsTyped
  <2>2. u \in PanelsState /\ u.effect = t.effect /\ u.listeners = t.listeners /\ u.moving = t.moving
    BY <2>1 DEF PanelsState
  <2>3. /\ u.active = t.active /\ u.shown = t.shown /\ u.body = t.body
        /\ u.closing = t.closing /\ u.allow = t.allow /\ u.late = t.late
        /\ u.touch = "none"
    BY <2>1 DEF PanelsState
  <2>4. u.swipe = t.swipe /\ u.side = t.side /\ u.opened = t.opened
    BY <2>1 DEF PanelsState
  <2> HIDE DEF u
  <2>5. /\ PanelsTyped(u) /\ PanelsWaits(t, u) /\ PanelsStill(t, u)
        /\ \A p \in Panel!Side : Panel!Target(u, p) = Panel!Target(t, p)
    BY <1>2, <2>2, PanelsChange
  <2> QED
    BY <2>3, <2>4, <2>5 DEF PanelsFrame, u
<1>3. PanelsGood([w EXCEPT !.touch = "none"])
  <2> DEFINE u == [w EXCEPT !.touch = "none"]
  <2>1. /\ PanelsTyped(u) /\ PanelsFrame(w, u) /\ PanelsWaits(w, u) /\ PanelsStill(w, u)
        /\ u.active = w.active /\ u.shown = w.shown /\ u.body = w.body
        /\ u.closing = w.closing /\ u.allow = w.allow /\ u.late = w.late
        /\ u.touch = "none"
    BY <1>1, <1>2
  <2> HIDE DEF u
  <2>2. PanelsGood(u)
    BY <2>1, PanelsSameGood DEF PanelsFrame, PanelsTouched
  <2> QED
    BY <2>2 DEF u
<1>4. ASSUME NEW p \in Panel!Side PROVE PanelsGood([Panel!OpenMoves(w, p) EXCEPT !.touch = "none"])
  <2> DEFINE t == Panel!OpenMoves(w, p)
             u == [t EXCEPT !.touch = "none"]
  <2>1. CASE ~w.allow \/ p \in w.active
    BY <1>3, <2>1 DEF Panel!OpenMoves
  <2>2. CASE w.allow /\ p \notin w.active
    <3>1. PanelsOpen(w, t, p) /\ PanelsSlides(w, t, p)
      BY <1>1, <2>2, PanelsOpenMoves
    <3> HIDE DEF t
    <3>2. /\ PanelsTyped(u) /\ PanelsFrame(t, u) /\ PanelsWaits(t, u) /\ PanelsStill(t, u)
          /\ u.active = t.active /\ u.shown = t.shown /\ u.body = t.body
          /\ u.closing = t.closing /\ u.allow = t.allow /\ u.late = t.late
          /\ u.touch = "none"
      BY <1>2, <3>1 DEF PanelsOpen
    <3> HIDE DEF u
    <3>3. PanelsOpen(w, u, p) /\ PanelsSlides(w, u, p)
      BY <3>1, <3>2 DEF PanelsOpen, PanelsSlides, PanelsFrame, PanelsWaits, PanelsStill
    <3>4. PanelsFree(w, p)
      BY <2>2 DEF PanelsFree, PanelsGood, PanelsShown
    <3>5. PanelsGood(u)
      BY <2>2, <3>2, <3>3, <3>4, PanelsOpenGood
    <3> QED
      BY <3>5 DEF t, u
  <2> QED
    BY <2>1, <2>2
<1>5. PanelsGood([Panel!CloseMoves(w) EXCEPT !.touch = "none"])
  <2> DEFINE t == Panel!CloseMoves(w)
             u == [t EXCEPT !.touch = "none"]
  <2>1. CASE w.active = {}
    BY <1>3, <2>1 DEF Panel!CloseMoves
  <2>2. ASSUME NEW p \in Panel!Side, w.active = {p} PROVE PanelsGood(u)
    <3>1. /\ PanelsClosed(w, t, p)
          /\ \A q \in Panel!Side : PanelsMoves(t, q) <=>
                 PanelsMoves(w, q) \/ Panel!Target(w, q) = Panel!Target(w, p)
      BY <1>1, <2>2, PanelsCloseMoves
    <3> HIDE DEF t
    <3>2. /\ PanelsTyped(u) /\ PanelsFrame(t, u) /\ PanelsWaits(t, u) /\ PanelsStill(t, u)
          /\ u.active = t.active /\ u.shown = t.shown /\ u.body = t.body
          /\ u.closing = t.closing /\ u.allow = t.allow /\ u.late = t.late
          /\ u.touch = "none"
      BY <1>2, <3>1 DEF PanelsClosed
    <3> HIDE DEF u
    <3>3. /\ PanelsClosed(w, u, p)
          /\ \A q \in Panel!Side : PanelsMoves(u, q) <=>
                 PanelsMoves(w, q) \/ Panel!Target(w, q) = Panel!Target(w, p)
      BY <3>1, <3>2 DEF PanelsClosed, PanelsListen, PanelsFrame, PanelsWaits, PanelsStill
    <3>4. ~w.late => PanelsReturning(w) /\ \A q \in w.shown \ w.active : PanelsCloses(w, q)
      <4> SUFFICES ASSUME ~w.late, NEW q \in w.shown \ w.active PROVE PanelsCloses(w, q)
        BY DEF PanelsGood
      <4>1. ~PanelsReturns(w) /\ PanelsShown(w)
        BY <2>2 DEF PanelsGood, PanelsReturning
      <4>2. q \in Panel!Side
        BY <1>1 DEF PanelsState
      <4> QED
        BY <4>1, <4>2 DEF PanelsShown, PanelsReturns
    <3>5. PanelsGood(u)
      BY <1>1, <2>2, <3>2, <3>3, <3>4, PanelsCloseGood DEF PanelsGood
    <3> QED
      BY <3>5
  <2> QED
    BY <2>1, <2>2, <1>1 DEF PanelsActive
<1> QED
  BY <1>4, <1>5

-----------------------------------------------------------------------------
LEMMA PanelsTouchStart == PanelsGood(w) /\ (Panel!TouchStart \/ Panel!TouchDrop) => PanelsGood(w')
<1> SUFFICES ASSUME PanelsGood(w), Panel!TouchStart \/ Panel!TouchDrop PROVE PanelsGood(w')
  OBVIOUS
<1>1. PanelsTyped(w) /\ w \in PanelsState /\ PanelsActive(w)
  BY DEF PanelsGood, PanelsTyped
<1>2. PICK touch \in {"none", "touched"}, p \in Panel!Side, opened \in BOOLEAN :
          /\ w' = [w EXCEPT !.touch = touch, !.side = p, !.opened = opened]
          /\ w.touch # "moved"
          /\ touch = "touched" => w.allow /\ IF opened THEN w.active = {p} ELSE w.active = {} /\ p = w.swipe
          /\ p = w.side \/ (w.active = {} /\ p = w.swipe) \/ w.active = {p}
  <2>1. CASE Panel!TouchStart
    <3> DEFINE p == IF w.active = {} THEN w.swipe ELSE CHOOSE q \in w.active : TRUE
               opened == p \in w.active
    <3>1. w' = [w EXCEPT !.touch = "touched", !.side = p, !.opened = opened] /\ w.touch = "none"
          /\ w.allow
      BY <2>1 DEF Panel!TouchStart
    <3>2. p \in Panel!Side /\ IF opened THEN w.active = {p} ELSE w.active = {} /\ p = w.swipe
      BY <1>1 DEF PanelsActive, PanelsState
    <3>3. opened \in BOOLEAN
      OBVIOUS
    <3> HIDE DEF p, opened
    <3> QED
      BY <3>1, <3>2, <3>3
  <2>2. CASE Panel!TouchDrop
    <3>1. w' = [w EXCEPT !.touch = "none"] /\ w.touch = "touched"
      BY <2>2 DEF Panel!TouchDrop
    <3>2. w' = [w EXCEPT !.touch = "none", !.side = w.side, !.opened = w.opened]
      BY <1>1, <3>1 DEF PanelsState
    <3>3. w.side \in Panel!Side /\ w.opened \in BOOLEAN
      BY <1>1 DEF PanelsState
    <3> QED
      BY <3>1, <3>2, <3>3
  <2> QED
    BY <2>1, <2>2
<1>3. w' \in PanelsState /\ w'.touch = touch /\ w'.side = p /\ w'.opened = opened
  BY <1>1, <1>2 DEF PanelsState
<1>4. w'.effect = w.effect /\ w'.listeners = w.listeners /\ w'.moving = w.moving
      /\ w'.swipe = w.swipe
  BY <1>1, <1>2 DEF PanelsState
<1>5. /\ w'.active = w.active /\ w'.shown = w.shown /\ w'.body = w.body
      /\ w'.closing = w.closing /\ w'.allow = w.allow /\ w'.late = w.late
  BY <1>1, <1>2 DEF PanelsState
<1>6. /\ PanelsTyped(w') /\ PanelsWaits(w, w') /\ PanelsStill(w, w')
      /\ \A q \in Panel!Side : Panel!Target(w', q) = Panel!Target(w, q)
  BY <1>1, <1>3, <1>4, PanelsChange
<1>7. PanelsTouched(w')
  BY <1>2, <1>3, <1>4, <1>5 DEF PanelsTouched
<1>8. w'.side = w.side \/ (w'.active = {} /\ w'.side = w'.swipe) \/ w'.active = {w'.side}
  BY <1>2, <1>3, <1>4, <1>5
<1>9. w.touch # "moved"
  BY <1>2
<1> QED
  BY <1>4, <1>5, <1>6, <1>7, <1>8, <1>9, PanelsSameGood

\* A drag interrupts the transitions of the panel that follows the finger.
LEMMA PanelsTouchMove == PanelsGood(w) /\ Panel!TouchMove => PanelsGood(w')
<1> SUFFICES ASSUME PanelsGood(w), Panel!TouchMove PROVE PanelsGood(w')
  OBVIOUS
<1>1. PanelsTyped(w) /\ w \in PanelsState /\ PanelsActive(w) /\ w.touch = "touched"
      /\ w.side \in Panel!Side
  BY DEF PanelsGood, PanelsTyped, Panel!TouchMove, PanelsState
<1>2. CASE ~w.follow
  BY <1>1, <1>2, PanelsTaps DEF Panel!TouchMove
<1>3. CASE w.follow
  <2> DEFINE late == w.late \/ Panel!Returning(w)
             moving == w.moving \ {w.side, Panel!Target(w, w.side)}
             shown == IF w.opened THEN w.shown ELSE w.shown \cup {w.side}
  <2>1. w' = [w EXCEPT !.touch = "moved", !.moving = moving, !.late = late, !.shown = shown]
    BY <1>3 DEF Panel!TouchMove
  <2>2. late \in BOOLEAN /\ moving \in SUBSET PanelsElement /\ shown \in SUBSET Panel!Side
    BY <1>1 DEF PanelsState
  <2>3. late <=> w.late \/ PanelsReturns(w)
    BY <1>1, PanelsReturningIs
  <2>4. moving = w.moving \ {w.side, Panel!Target(w, w.side)}
        /\ shown \subseteq w.shown \cup {w.side}
        /\ w.shown \subseteq shown
    OBVIOUS
  <2> HIDE DEF late, moving, shown
  <2>5. w' \in PanelsState
    BY <1>1, <2>1, <2>2 DEF PanelsState
  <2>6. w'.effect = w.effect /\ w'.listeners = w.listeners /\ w'.moving = moving /\ w'.shown = shown
    BY <1>1, <2>1 DEF PanelsState
  <2>7. w'.active = w.active /\ w'.body = w.body /\ w'.closing = w.closing /\ w'.allow = w.allow
    BY <1>1, <2>1 DEF PanelsState
  <2>8. /\ w'.late = late /\ w'.swipe = w.swipe /\ w'.side = w.side /\ w'.opened = w.opened
        /\ w'.touch = "moved"
    BY <1>1, <2>1 DEF PanelsState
  <2>9. \A q : Panel!Target(w', q) = Panel!Target(w, q)
    BY <2>6 DEF Panel!Target
  <2>10. PanelsTyped(w') /\ PanelsWaits(w, w')
    BY <1>1, <2>5, <2>6, <2>9 DEF PanelsTyped, PanelsWaits, PanelsHas
  <2>11. /\ w.allow /\ PanelsTouched(w') /\ PanelsActive(w')
         /\ w.active = {w.side} \/ w.active = {}
    BY <1>1, <2>3, <2>4, <2>6, <2>7, <2>8 DEF PanelsGood, PanelsTouched, PanelsActive
  <2>12. PanelsOpened(w')
    BY <2>7, <2>10 DEF PanelsGood, PanelsOpened, PanelsWaits, PanelsKind
  <2>13. ASSUME ~w'.late
         PROVE  PanelsShown(w') /\ PanelsLocked(w') /\ PanelsClosing(w') /\ PanelsReturning(w')
    <3>1. /\ ~PanelsReturns(w) /\ ~PanelsReturns(w')
          /\ PanelsShown(w) /\ PanelsClosing(w)
      BY <2>3, <2>8, <2>10, <2>13 DEF PanelsGood, PanelsReturns, PanelsWaits, PanelsKind
    <3>2. ASSUME NEW q \in Panel!Side, q # w.side, PanelsCloses(w, q),
                 Panel!Target(w, "left") # Panel!Target(w, "right")
          PROVE  PanelsCloses(w', q)
      <4>1. Panel!Target(w, q) # Panel!Target(w, w.side)
        BY <1>1, <3>2 DEF Panel!Side
      <4>2. Panel!Target(w, q) # w.side
        BY <1>1, <3>2 DEF Panel!Target, Panel!Side
      <4>3. PanelsMoves(w', q)
        BY <2>4, <2>6, <2>9, <3>2, <4>1, <4>2 DEF PanelsCloses, PanelsMoves
      <4> QED
        BY <2>7, <2>10, <3>2, <4>3 DEF PanelsCloses, PanelsWaits, PanelsKind
    <3>3. PanelsShown(w')
      <4> SUFFICES ASSUME NEW q \in w'.shown \ w'.active, q # w.side
                   PROVE  PanelsCloses(w', q)
                          /\ Panel!Target(w', "left") # Panel!Target(w', "right")
        BY <2>8 DEF PanelsShown
      <4>1. q \in w.shown \ w.active /\ q \in Panel!Side
        BY <2>2, <2>4, <2>6, <2>7
      <4>2. PanelsCloses(w, q) /\ Panel!Target(w, "left") # Panel!Target(w, "right")
        BY <1>1, <2>11, <3>1, <4>1 DEF PanelsShown, PanelsReturns
      <4> QED
        BY <2>9, <3>2, <4>1, <4>2
    <3>4. PanelsClosing(w')
      <4> SUFFICES ASSUME w.closing
                   PROVE  \E q \in Panel!Side :
                              /\ PanelsCloses(w', q)
                              /\ w'.active # {}
                              /\ Panel!Target(w', "left") # Panel!Target(w', "right")
        BY <2>7 DEF PanelsClosing
      <4>1. PICK q \in Panel!Side :
                /\ PanelsCloses(w, q)
                /\ w.active # {} /\ Panel!Target(w, "left") # Panel!Target(w, "right")
        BY <2>11, <3>1 DEF PanelsClosing
      <4>2. q # w.side
        BY <2>11, <4>1 DEF PanelsCloses
      <4> QED
        BY <2>7, <2>9, <3>2, <4>1, <4>2
    <3> QED
      BY <2>7, <2>11, <3>1, <3>3, <3>4 DEF PanelsLocked, PanelsReturning
  <2> QED
    BY <2>10, <2>11, <2>12, <2>13 DEF PanelsGood
<1> QED
  BY <1>2, <1>3

-----------------------------------------------------------------------------
\* What has moved on, and is displayed, will still be hidden.
LEMMA PanelsStillShown ==
    ASSUME NEW s, NEW p \in Panel!Side, PanelsFree(s, p), ~s.late,
           ~PanelsReturns(s) \/ s.swipe = p,
           NEW t, PanelsTyped(t), t.shown \ t.active \subseteq (s.shown \ s.active) \ {p},
           \A q \in Panel!Side : Panel!Target(t, q) = Panel!Target(s, q),
           \A q \in Panel!Side : PanelsMoves(s, q) => PanelsMoves(t, q),
           \A k \in PanelsKind, q \in Panel!Side : PanelsHas(s, k, q) => PanelsHas(t, k, q)
    PROVE  PanelsShown(t)
<1> SUFFICES ASSUME NEW q \in t.shown \ t.active
             PROVE  PanelsCloses(t, q) /\ Panel!Target(t, "left") # Panel!Target(t, "right")
  BY DEF PanelsShown
<1>1. q \in Panel!Side /\ q \in (s.shown \ s.active) \ {p}
  BY DEF PanelsTyped, PanelsState
<1>2. PanelsCloses(s, q) /\ Panel!Target(s, "left") # Panel!Target(s, "right")
  <2>1. ~PanelsHas(s, "reset", q)
    BY <1>1 DEF PanelsFree, PanelsReturning, PanelsReturns
  <2> QED
    BY <1>1, <2>1 DEF PanelsFree
<1> QED
  BY <1>1, <1>2 DEF PanelsCloses, PanelsKind, Panel!Side

PanelsDropped(s) == [Panel!ClosePanel(s) EXCEPT !.closing = FALSE]

\* A drag of the active panel ends.
LEMMA PanelsSwapOpened ==
    ASSUME NEW f, NEW p \in Panel!Side, PanelsFree(f, p), f.active = {p}, f.side = p,
           f.touch = "none"
    PROVE  /\ PanelsGood(Panel!Move(Panel!ClosePanel(f), p))
           /\ PanelsGood(Panel!Free(Panel!Hide(PanelsDropped(f))))
<1> DEFINE c == Panel!ClosePanel(f)
           m == Panel!Move(c, p)
           h == [[[c EXCEPT !.closing = FALSE] EXCEPT !.shown = c.shown \ {p}] EXCEPT !.allow = TRUE]
<1>1. /\ PanelsTyped(f) /\ PanelsActive(f) /\ PanelsOpened(f) /\ f.body = {p}
      /\ ~f.late => /\ PanelsReturning(f) /\ ~PanelsReturns(f)
                    /\ \A q \in f.shown \ f.active : PanelsCloses(f, q)
  <2>1. PanelsTyped(f) /\ PanelsActive(f) /\ PanelsOpened(f) /\ f.body = {p}
    BY DEF PanelsFree, PanelsActive
  <2>2. ASSUME ~f.late PROVE PanelsReturning(f) /\ ~PanelsReturns(f)
    BY <2>2 DEF PanelsFree, PanelsReturning
  <2>3. ASSUME ~f.late, NEW q \in f.shown \ f.active PROVE PanelsCloses(f, q)
    <3>1. q \in Panel!Side /\ q # p
      BY <2>1 DEF PanelsTyped, PanelsState
    <3> QED
      BY <2>2, <2>3, <3>1 DEF PanelsFree, PanelsReturns
  <2> QED
    BY <2>1, <2>2, <2>3
<1>2. PanelsClosed(f, c, p) /\ PanelsStill(f, c) /\ c.touch = "none"
  BY <1>1, PanelsClose
<1>3. c.side = p /\ c \in PanelsState
  BY <1>2 DEF PanelsClosed, PanelsFrame, PanelsTyped
<1>4. Panel!Free(Panel!Hide([c EXCEPT !.closing = FALSE])) = h
  BY <1>3 DEF Panel!Free, Panel!Hide, PanelsState
<1> HIDE DEF c
<1>5. /\ PanelsTyped(m) /\ PanelsFrame(c, m) /\ PanelsLook(c, m) /\ PanelsWaits(c, m)
      /\ \A q \in Panel!Side : PanelsMoves(m, q) <=>
             PanelsMoves(c, q) \/ Panel!Target(c, q) = Panel!Target(c, p)
  BY <1>2, PanelsMove DEF PanelsClosed
<1> HIDE DEF m
<1>6. /\ PanelsClosed(f, m, p) /\ m.touch = "none"
      /\ \A q \in Panel!Side : PanelsMoves(m, q) <=>
             PanelsMoves(f, q) \/ Panel!Target(f, q) = Panel!Target(f, p)
  BY <1>2, <1>5 DEF PanelsClosed, PanelsListen, PanelsFrame, PanelsLook, PanelsWaits, PanelsStill
<1>7. PanelsGood(m)
  BY <1>1, <1>6, PanelsCloseGood
<1>8. PanelsGood(h)
  <2>1. h \in PanelsState
    BY <1>3 DEF PanelsState
  <2>2. h.effect = c.effect /\ h.listeners = c.listeners /\ h.moving = c.moving
    BY <1>3 DEF PanelsState
  <2>3. h.active = c.active /\ h.body = c.body /\ h.late = c.late /\ h.touch = c.touch
    BY <1>3 DEF PanelsState
  <2>4. h.closing = FALSE /\ h.allow = TRUE /\ h.shown = c.shown \ {p}
    BY <1>3 DEF PanelsState
  <2> HIDE DEF h
  <2>5. /\ PanelsTyped(h) /\ PanelsWaits(c, h) /\ PanelsStill(c, h)
        /\ \A q \in Panel!Side : Panel!Target(h, q) = Panel!Target(c, q)
    BY <1>2, <2>1, <2>2, PanelsChange DEF PanelsClosed
  <2>6. h.active = {} /\ h.body = {} /\ h.shown = f.shown \ {p} /\ h.late = f.late
        /\ h.touch = "none"
    BY <1>1, <1>2, <2>3, <2>4 DEF PanelsClosed
  <2>7. PanelsActive(h) /\ PanelsTouched(h)
    BY <2>6 DEF PanelsActive, PanelsTouched
  <2>8. \A k \in PanelsKind, q \in Panel!Side :
            PanelsHas(h, k, q) <=> PanelsHas(f, k, q) \/ (k = "closed" /\ q = p)
    BY <1>2, <2>5 DEF PanelsClosed, PanelsListen, PanelsWaits
  <2>9. PanelsOpened(h)
    BY <1>1, <2>6, <2>8 DEF PanelsOpened, PanelsKind
  <2>10. ASSUME ~h.late
         PROVE  PanelsShown(h) /\ PanelsLocked(h) /\ PanelsClosing(h) /\ PanelsReturning(h)
    <3>1. ~f.late /\ ~PanelsReturns(f) /\ ~PanelsReturns(h)
      BY <1>1, <2>6, <2>8, <2>10 DEF PanelsReturns, PanelsKind
    <3>2. h.shown \ h.active \subseteq (f.shown \ f.active) \ {p}
      BY <2>6
    <3>3. /\ \A q \in Panel!Side : Panel!Target(h, q) = Panel!Target(f, q)
          /\ \A q \in Panel!Side : PanelsMoves(f, q) => PanelsMoves(h, q)
          /\ \A k \in PanelsKind, q \in Panel!Side : PanelsHas(f, k, q) => PanelsHas(h, k, q)
      BY <1>2, <2>5, <2>8 DEF PanelsClosed, PanelsFrame, PanelsStill
    <3>4. PanelsShown(h)
      BY <2>5, <3>1, <3>2, <3>3, PanelsStillShown
    <3> QED
      BY <2>4, <3>1, <3>4 DEF PanelsLocked, PanelsClosing, PanelsReturning
  <2> QED
    BY <2>5, <2>7, <2>9, <2>10 DEF PanelsGood
<1> QED
  BY <1>4, <1>7, <1>8 DEF c, m, PanelsDropped

LEMMA PanelsResetOpened ==
    ASSUME NEW f, NEW p \in Panel!Side, PanelsFree(f, p), f.active = {p}, f.touch = "none"
    PROVE  PanelsGood(f) /\ PanelsGood(Panel!Move(f, p))
<1> DEFINE m == Panel!Move(f, p)
<1>1. /\ PanelsTyped(f) /\ PanelsActive(f) /\ PanelsTouched(f) /\ PanelsOpened(f) /\ f.allow
      /\ ~f.late => PanelsClosing(f) /\ PanelsReturning(f) /\ ~PanelsReturns(f)
  BY DEF PanelsFree, PanelsTouched, PanelsReturning
<1>2. ~f.late => PanelsShown(f)
  BY <1>1, PanelsStillShown
<1>3. PanelsGood(f)
  BY <1>1, <1>2 DEF PanelsGood, PanelsLocked
<1>4. /\ PanelsTyped(m) /\ PanelsFrame(f, m) /\ PanelsLook(f, m) /\ PanelsWaits(f, m)
      /\ \A q \in Panel!Side : PanelsMoves(f, q) => PanelsMoves(m, q)
  BY <1>1, PanelsMove
<1> HIDE DEF m
<1>5. PanelsActive(m) /\ PanelsTouched(m) /\ PanelsOpened(m) /\ m.allow
  BY <1>1, <1>4 DEF PanelsActive, PanelsTouched, PanelsOpened, PanelsLook, PanelsWaits, PanelsKind
<1>6. ASSUME ~m.late
      PROVE  PanelsShown(m) /\ PanelsLocked(m) /\ PanelsClosing(m) /\ PanelsReturning(m)
  <2>1. ~f.late /\ ~PanelsReturns(f) /\ ~PanelsReturns(m)
    BY <1>1, <1>4, <1>6 DEF PanelsReturns, PanelsLook, PanelsWaits, PanelsKind
  <2>2. PanelsShown(m)
    BY <1>4, <2>1, PanelsStillShown DEF PanelsFrame, PanelsLook, PanelsWaits
  <2>3. \A q \in Panel!Side : PanelsCloses(f, q) => PanelsCloses(m, q)
    BY <1>4 DEF PanelsCloses, PanelsLook, PanelsWaits, PanelsKind
  <2>4. PanelsClosing(m)
    BY <1>1, <1>4, <2>1, <2>3 DEF PanelsClosing, PanelsLook, PanelsFrame, Panel!Side
  <2> QED
    BY <1>5, <2>1, <2>2, <2>4 DEF PanelsLocked, PanelsReturning
<1>7. PanelsGood(m)
  BY <1>4, <1>5, <1>6 DEF PanelsGood
<1> QED
  BY <1>3, <1>7 DEF m

\* A drag of a panel that was not active ends with the panel opened.
LEMMA PanelsSwapClosed ==
    ASSUME NEW f, NEW p \in Panel!Side, PanelsFree(f, p), f.active = {}, f.touch = "none"
    PROVE  /\ PanelsGood(Panel!Move(Panel!OpenPanel(f, p), p))
           /\ PanelsGood(Panel!Free(Panel!OpenPanel(f, p)))
<1>1. PanelsTyped(f) /\ PanelsActive(f) /\ f.allow /\ p \notin f.active /\ PanelsOpened(f)
  BY DEF PanelsFree
<1>2. PanelsGood(Panel!Move(Panel!OpenPanel(f, p), p))
  <2> DEFINE t == Panel!OpenMoves(f, p)
  <2>1. t = Panel!Move(Panel!OpenPanel(f, p), p)
    BY <1>1 DEF Panel!OpenMoves
  <2>2. PanelsOpen(f, t, p) /\ PanelsSlides(f, t, p) /\ t.touch = "none"
    BY <1>1, PanelsOpenMoves
  <2> HIDE DEF t
  <2>3. PanelsGood(t)
    BY <1>1, <2>2, PanelsOpenGood
  <2> QED
    BY <2>1, <2>3
<1>3. PanelsGood(Panel!Free(Panel!OpenPanel(f, p)))
  <2> DEFINE u == Panel!OpenPanel(f, p)
             t == [u EXCEPT !.allow = TRUE]
  <2>1. Panel!Free(Panel!OpenPanel(f, p)) = t
    BY DEF Panel!Free
  <2>2. /\ PanelsOpen(f, u, p) /\ u.touch = "none"
        /\ \A q \in Panel!Side : PanelsMoves(u, q) <=>
               \/ PanelsMoves(f, q)
               \/ \E o \in f.active : Panel!Target(f, q) = Panel!Target(f, o)
    BY <1>1, PanelsOpenPanel
  <2> HIDE DEF u
  <2>3. u \in PanelsState /\ PanelsTyped(u)
    BY <2>2 DEF PanelsOpen, PanelsTyped
  <2>4. t \in PanelsState
    BY <2>3 DEF PanelsState
  <2>5. t.effect = u.effect /\ t.listeners = u.listeners /\ t.moving = u.moving
    BY <2>3 DEF PanelsState
  <2>6. t.active = u.active /\ t.body = u.body /\ t.late = u.late /\ t.touch = u.touch
    BY <2>3 DEF PanelsState
  <2>7. t.closing = u.closing /\ t.allow = TRUE /\ t.shown = u.shown
    BY <2>3 DEF PanelsState
  <2> HIDE DEF t
  <2>8. /\ PanelsTyped(t) /\ PanelsWaits(u, t) /\ PanelsStill(u, t)
        /\ \A q \in Panel!Side : Panel!Target(t, q) = Panel!Target(u, q)
    BY <2>3, <2>4, <2>5, PanelsChange
  <2>9. /\ t.active = {p} /\ t.shown = f.shown \cup {p} /\ t.body = {p} /\ t.touch = "none"
        /\ (t.closing <=> f.closing) /\ (t.late <=> f.late \/ PanelsReturns(f))
    BY <1>1, <2>2, <2>6, <2>7 DEF PanelsOpen
  <2>10. \A k \in PanelsKind, q \in Panel!Side :
             PanelsHas(t, k, q) <=> PanelsHas(f, k, q) \/ (k = "opened" /\ q = p)
    BY <2>2, <2>8 DEF PanelsOpen, PanelsWaits
  <2>11. PanelsActive(t) /\ PanelsTouched(t) /\ PanelsOpened(t)
    BY <1>1, <2>9, <2>10 DEF PanelsActive, PanelsTouched, PanelsOpened, PanelsKind
  <2>12. ASSUME ~t.late
         PROVE  PanelsShown(t) /\ PanelsLocked(t) /\ PanelsClosing(t) /\ PanelsReturning(t)
    <3>1. ~f.late /\ ~PanelsReturns(f) /\ ~PanelsReturns(t)
      BY <2>9, <2>10, <2>12 DEF PanelsReturns, PanelsKind
    <3>2. t.shown \ t.active \subseteq (f.shown \ f.active) \ {p}
      BY <2>9
    <3>3. /\ \A q \in Panel!Side : Panel!Target(t, q) = Panel!Target(f, q)
          /\ \A q \in Panel!Side : PanelsMoves(f, q) => PanelsMoves(t, q)
          /\ \A k \in PanelsKind, q \in Panel!Side : PanelsHas(f, k, q) => PanelsHas(t, k, q)
      BY <2>2, <2>8, <2>10 DEF PanelsOpen, PanelsFrame, PanelsStill
    <3>4. PanelsShown(t)
      BY <2>8, <3>1, <3>2, <3>3, PanelsStillShown
    <3>5. ~f.closing
      BY <1>1, <3>1 DEF PanelsFree, PanelsClosing
    <3> QED
      BY <2>7, <2>9, <3>1, <3>4, <3>5 DEF PanelsLocked, PanelsClosing, PanelsReturning
  <2> QED
    BY <2>1, <2>8, <2>11, <2>12 DEF PanelsGood
<1> QED
  BY <1>2, <1>3

\* It ends with the panel hidden, or on its way back.
LEMMA PanelsResetClosed ==
    ASSUME NEW f, NEW p \in Panel!Side, PanelsFree(f, p), f.active = {}, f.touch = "none",
           f.side = p, f.swipe = p
    PROVE  /\ PanelsGood(Panel!Free(Panel!Hide(f)))
           /\ PanelsGood(Panel!Move(Panel!Wait([f EXCEPT !.closing = TRUE], "reset", p), p))
<1>1. PanelsTyped(f) /\ f \in PanelsState /\ PanelsActive(f) /\ f.allow /\ PanelsOpened(f)
      /\ f.body = {}
  BY DEF PanelsFree, PanelsTyped, PanelsActive
<1>2. PanelsGood(Panel!Free(Panel!Hide(f)))
  <2> DEFINE t == [[f EXCEPT !.shown = f.shown \ {p}] EXCEPT !.allow = TRUE]
  <2>1. Panel!Free(Panel!Hide(f)) = t
    BY DEF Panel!Free, Panel!Hide
  <2>2. t \in PanelsState
    BY <1>1 DEF PanelsState
  <2>3. t.effect = f.effect /\ t.listeners = f.listeners /\ t.moving = f.moving /\ t.swipe = f.swipe
    BY <1>1 DEF PanelsState
  <2>4. /\ t.active = f.active /\ t.body = f.body /\ t.late = f.late /\ t.touch = f.touch
        /\ t.side = f.side
    BY <1>1 DEF PanelsState
  <2>5. t.closing = f.closing /\ t.allow = TRUE /\ t.shown = f.shown \ {p}
    BY <1>1 DEF PanelsState
  <2> HIDE DEF t
  <2>6. /\ PanelsTyped(t) /\ PanelsWaits(f, t) /\ PanelsStill(f, t)
        /\ \A q \in Panel!Side : Panel!Target(t, q) = Panel!Target(f, q)
    BY <1>1, <2>2, <2>3, PanelsChange
  <2>7. PanelsActive(t) /\ PanelsTouched(t) /\ PanelsOpened(t)
    BY <1>1, <2>4, <2>6 DEF PanelsActive, PanelsTouched, PanelsOpened, PanelsWaits, PanelsKind
  <2>8. ASSUME ~t.late
        PROVE  PanelsShown(t) /\ PanelsLocked(t) /\ PanelsClosing(t) /\ PanelsReturning(t)
    <3>1. PanelsClosing(f) /\ PanelsReturning(f) /\ (PanelsReturns(t) <=> PanelsReturns(f)) /\ ~f.late
      BY <2>4, <2>6, <2>8 DEF PanelsFree, PanelsReturns, PanelsWaits, PanelsKind
    <3>2. t.shown \ t.active \subseteq (f.shown \ f.active) \ {p}
      BY <2>4, <2>5
    <3>3. PanelsShown(t)
      BY <2>6, <3>1, <3>2, PanelsStillShown DEF PanelsWaits, PanelsStill
    <3>4. PanelsClosing(t)
      BY <1>1, <2>5, <3>1 DEF PanelsClosing
    <3>5. PanelsReturning(t)
      BY <2>3, <2>4, <2>6, <3>1 DEF PanelsReturning, PanelsWaits, PanelsStill, PanelsKind
    <3> QED
      BY <2>5, <3>3, <3>4, <3>5 DEF PanelsLocked
  <2> QED
    BY <2>1, <2>6, <2>7, <2>8 DEF PanelsGood
<1>3. PanelsGood(Panel!Move(Panel!Wait([f EXCEPT !.closing = TRUE], "reset", p), p))
  <2> DEFINE a == [f EXCEPT !.closing = TRUE]
             b == Panel!Wait(a, "reset", p)
             t == Panel!Move(b, p)
  <2>1. a \in PanelsState
    BY <1>1 DEF PanelsState
  <2>2. a.effect = f.effect /\ a.listeners = f.listeners /\ a.moving = f.moving /\ a.swipe = f.swipe
    BY <1>1 DEF PanelsState
  <2>3. /\ a.active = f.active /\ a.body = f.body /\ a.late = f.late /\ a.touch = f.touch
        /\ a.side = f.side /\ a.opened = f.opened
    BY <1>1 DEF PanelsState
  <2>4. a.closing = TRUE /\ a.allow = f.allow /\ a.shown = f.shown
    BY <1>1 DEF PanelsState
  <2> HIDE DEF a
  <2>5. /\ PanelsTyped(a) /\ PanelsWaits(f, a) /\ PanelsStill(f, a)
        /\ \A q \in Panel!Side : Panel!Target(a, q) = Panel!Target(f, q)
    BY <1>1, <2>1, <2>2, PanelsChange
  <2>6. /\ PanelsTyped(b) /\ PanelsFrame(a, b) /\ PanelsLook(a, b)
        /\ PanelsListen(a, b, "reset", p) /\ PanelsStill(a, b)
    BY <2>5, PanelsWait DEF PanelsKind
  <2> HIDE DEF b
  <2>7. /\ PanelsTyped(t) /\ PanelsFrame(b, t) /\ PanelsLook(b, t) /\ PanelsWaits(b, t)
        /\ \A q \in Panel!Side : PanelsMoves(t, q) <=>
               PanelsMoves(b, q) \/ Panel!Target(b, q) = Panel!Target(b, p)
    BY <2>6, PanelsMove
  <2> HIDE DEF t
  <2>8. /\ t.active = {} /\ t.body = {} /\ t.late = f.late /\ t.touch = "none" /\ t.allow
        /\ t.shown = f.shown /\ t.side = p /\ t.swipe = p
    BY <1>1, <2>2, <2>3, <2>4, <2>6, <2>7 DEF PanelsFrame, PanelsLook
  <2>9. /\ \A k \in PanelsKind, q \in Panel!Side :
               PanelsHas(t, k, q) <=> PanelsHas(f, k, q) \/ (k = "reset" /\ q = p)
        /\ \A q \in Panel!Side : PanelsMoves(f, q) => PanelsMoves(t, q)
        /\ \A q \in Panel!Side : Panel!Target(t, q) = Panel!Target(f, q)
        /\ PanelsMoves(t, p)
    BY <2>5, <2>6, <2>7 DEF PanelsFrame, PanelsListen, PanelsWaits, PanelsStill
  <2>10. PanelsActive(t) /\ PanelsTouched(t) /\ PanelsOpened(t)
    BY <1>1, <2>8, <2>9 DEF PanelsActive, PanelsTouched, PanelsOpened, PanelsKind
  <2>11. ASSUME ~t.late
         PROVE  PanelsShown(t) /\ PanelsLocked(t) /\ PanelsClosing(t) /\ PanelsReturning(t)
    <3>1. ~f.late /\ PanelsReturning(f) /\ PanelsHas(t, "reset", p) /\ PanelsReturns(t)
      BY <2>8, <2>9, <2>11 DEF PanelsFree, PanelsReturns, PanelsKind
    <3>2. PanelsShown(t)
      <4> SUFFICES ASSUME NEW q \in t.shown \ t.active, q # p
                   PROVE  PanelsCloses(t, q) /\ Panel!Target(t, "left") # Panel!Target(t, "right")
        BY <2>9, <3>1 DEF PanelsShown
      <4>1. q \in Panel!Side /\ q \in (f.shown \ f.active) \ {p}
        BY <1>1, <2>8 DEF PanelsState
      <4>2. ~PanelsHas(f, "reset", q)
        BY <3>1, <4>1 DEF PanelsReturning, PanelsReturns
      <4>3. PanelsCloses(f, q) /\ Panel!Target(f, "left") # Panel!Target(f, "right")
        BY <3>1, <4>1, <4>2 DEF PanelsFree
      <4> QED
        BY <2>8, <2>9, <4>1, <4>3 DEF PanelsCloses, PanelsKind, Panel!Side
    <3>3. PanelsReturning(t)
      <4>1. \A q \in Panel!Side : PanelsHas(t, "reset", q) => q = p
        BY <2>9, <3>1 DEF PanelsReturning, PanelsReturns, PanelsKind
      <4> QED
        BY <2>8, <2>9, <4>1 DEF PanelsReturning
    <3> QED
      BY <2>8, <3>1, <3>2, <3>3 DEF PanelsLocked, PanelsClosing
  <2>12. PanelsGood(t)
    BY <2>7, <2>10, <2>11 DEF PanelsGood
  <2> QED
    BY <2>12 DEF a, b, t
<1> QED
  BY <1>2, <1>3

LEMMA PanelsTouchEnd ==
    ASSUME PanelsGood(w), NEW place \in {"closed", "between", "opened"}, Panel!TouchEnd(place)
    PROVE  PanelsGood(w')
<1> DEFINE s == [w EXCEPT !.touch = "none"]
           p == w.side
<1>1. /\ PanelsTyped(w) /\ w \in PanelsState /\ PanelsActive(w) /\ PanelsOpened(w)
      /\ w.touch # "none"
      /\ w.allow = TRUE /\ p \in Panel!Side
      /\ IF w.opened THEN w.active = {p} ELSE w.active = {} /\ p = w.swipe
  BY DEF PanelsGood, PanelsTyped, PanelsTouched, PanelsState, Panel!TouchEnd
<1>2. s \in PanelsState /\ s.effect = w.effect /\ s.listeners = w.listeners /\ s.moving = w.moving
  BY <1>1 DEF PanelsState
<1>3. /\ s.active = w.active /\ s.shown = w.shown /\ s.body = w.body
      /\ s.closing = w.closing /\ s.allow = TRUE /\ s.late = w.late
  BY <1>1 DEF PanelsState
<1>4. s.swipe = w.swipe /\ s.side = p /\ s.opened = w.opened /\ s.touch = "none"
      /\ s.opened \in BOOLEAN
  BY <1>1 DEF PanelsState
<1>5. Panel!Free(s) = s
  BY <1>2, <1>3 DEF Panel!Free, PanelsState
<1>7. w.touch = "touched" => w' = s
  BY DEF Panel!TouchEnd
<1> HIDE DEF s
<1>8. /\ PanelsTyped(s) /\ PanelsWaits(w, s) /\ PanelsStill(w, s)
      /\ \A q \in Panel!Side : Panel!Target(s, q) = Panel!Target(w, q)
  BY <1>1, <1>2, PanelsChange
<1>9. CASE w' = s /\ w.touch # "moved"
  <2>1. PanelsTouched(s) /\ s.side = w.side
    BY <1>4 DEF PanelsTouched
  <2>2. PanelsGood(s)
    BY <1>1, <1>3, <1>4, <1>8, <1>9, <2>1, PanelsSameGood
  <2> QED
    BY <1>9, <2>2
<1>10. PanelsFree(s, p)
  <2>1. PanelsActive(s) /\ PanelsOpened(s) /\ s.allow
    BY <1>1, <1>3, <1>8 DEF PanelsActive, PanelsOpened, PanelsWaits, PanelsKind
  <2>2. ASSUME ~s.late
        PROVE  /\ PanelsClosing(s) /\ PanelsReturning(s)
               /\ \A q \in (s.shown \ s.active) \ {p} :
                      \/ PanelsMoves(s, q) /\ PanelsHas(s, "reset", q)
                      \/ PanelsCloses(s, q) /\ Panel!Target(s, "left") # Panel!Target(s, "right")
    <3>1. PanelsShown(w) /\ PanelsClosing(w) /\ PanelsReturning(w)
      BY <1>3, <2>2 DEF PanelsGood
    <3>2. \A q \in Panel!Side : PanelsCloses(s, q) <=> PanelsCloses(w, q)
      BY <1>3, <1>8 DEF PanelsCloses, PanelsWaits, PanelsStill, PanelsKind
    <3>3. /\ PanelsReturns(s) <=> PanelsReturns(w)
          /\ \A q \in Panel!Side : PanelsHas(s, "reset", q) <=> PanelsHas(w, "reset", q)
      BY <1>8 DEF PanelsReturns, PanelsWaits, PanelsKind
    <3>4. PanelsClosing(s)
      BY <1>1, <1>3, <1>8, <3>1, <3>2, <3>3 DEF PanelsClosing, Panel!Side
    <3>5. PanelsReturning(s)
      <4>1. w.swipe \in Panel!Side
        BY <1>1 DEF PanelsState
      <4> QED
        BY <1>3, <1>4, <1>8, <3>1, <3>3, <4>1 DEF PanelsReturning, PanelsStill
    <3>6. ASSUME NEW q \in (s.shown \ s.active) \ {p}
          PROVE  \/ PanelsMoves(s, q) /\ PanelsHas(s, "reset", q)
                 \/ PanelsCloses(s, q) /\ Panel!Target(s, "left") # Panel!Target(s, "right")
      <4>1. q \in Panel!Side /\ q \in w.shown \ w.active /\ w.side # q
        BY <1>2, <1>3, <3>6 DEF PanelsState
      <4>2. \/ PanelsMoves(w, q) /\ PanelsHas(w, "reset", q)
            \/ PanelsCloses(w, q) /\ Panel!Target(w, "left") # Panel!Target(w, "right")
        BY <1>1, <3>1, <4>1 DEF PanelsShown
      <4> QED
        BY <1>8, <3>2, <3>3, <4>1, <4>2 DEF PanelsStill, Panel!Side
    <3> QED
      BY <3>4, <3>5, <3>6
  <2> QED
    BY <1>8, <2>1, <2>2 DEF PanelsFree
<1>11. CASE w' \in {Panel!Swap(s, FALSE), Panel!Swap(s, TRUE)} /\ s.opened
  <2>1. s.active = {p}
    BY <1>1, <1>3, <1>4, <1>11
  <2>2. /\ Panel!Swap(s, FALSE) = Panel!Move(Panel!ClosePanel(s), p)
        /\ Panel!Swap(s, TRUE) = Panel!Free(Panel!Hide(PanelsDropped(s)))
    BY <1>4, <1>5, <1>11 DEF Panel!Swap, PanelsDropped
  <2>3. /\ PanelsGood(Panel!Move(Panel!ClosePanel(s), p))
        /\ PanelsGood(Panel!Free(Panel!Hide(PanelsDropped(s))))
    BY <1>1, <1>4, <1>10, <2>1, PanelsSwapOpened
  <2> QED
    BY <1>11, <2>2, <2>3
<1>12. CASE w' \in {Panel!Swap(s, FALSE), Panel!Swap(s, TRUE)} /\ ~s.opened
  <2>1. s.active = {}
    BY <1>1, <1>3, <1>4, <1>12
  <2>2. /\ Panel!Swap(s, FALSE) = Panel!Move(Panel!OpenPanel(s, p), p)
        /\ Panel!Swap(s, TRUE) = Panel!Free(Panel!OpenPanel(s, p))
    BY <1>4, <1>5, <1>12 DEF Panel!Swap
  <2> QED
    BY <1>1, <1>4, <1>10, <1>12, <2>1, <2>2, PanelsSwapClosed
<1>13. CASE w' \in {Panel!Reset(s, FALSE), Panel!Reset(s, TRUE)} /\ s.opened
  <2>1. s.active = {p}
    BY <1>1, <1>3, <1>4, <1>13
  <2>2. Panel!OpenPanel(s, p) = s
    BY <2>1 DEF Panel!OpenPanel
  <2>3. Panel!Reset(s, FALSE) = Panel!Move(s, p) /\ Panel!Reset(s, TRUE) = s
    BY <1>4, <1>5, <1>13, <2>2 DEF Panel!Reset
  <2> QED
    BY <1>1, <1>4, <1>10, <1>13, <2>1, <2>3, PanelsResetOpened
<1>14. CASE w' \in {Panel!Reset(s, FALSE), Panel!Reset(s, TRUE)} /\ ~s.opened
  <2>1. s.active = {} /\ s.swipe = p
    BY <1>1, <1>3, <1>4, <1>14
  <2>2. Panel!ClosePanel(s) = s
    BY <2>1 DEF Panel!ClosePanel
  <2>3. /\ Panel!Reset(s, FALSE) = Panel!Move(Panel!Wait([s EXCEPT !.closing = TRUE], "reset", p), p)
        /\ Panel!Reset(s, TRUE) = Panel!Free(Panel!Hide(s))
    BY <1>4, <1>14, <2>2 DEF Panel!Reset
  <2> QED
    BY <1>1, <1>4, <1>10, <1>14, <2>1, <2>3, PanelsResetClosed
<1>15. w.touch = "touched" \/ w.touch = "moved"
  BY <1>1 DEF PanelsState
<1>16. w.touch = "moved" => w' \in {Panel!Swap(s, FALSE), Panel!Swap(s, TRUE)}
                              \/ w' \in {Panel!Reset(s, FALSE), Panel!Reset(s, TRUE)}
  BY DEF Panel!TouchEnd, s
<1> QED
  BY <1>7, <1>9, <1>11, <1>12, <1>13, <1>14, <1>15, <1>16

-----------------------------------------------------------------------------
\* What a transition that ends calls of the listeners.
PanelsFired(s, on, k, q) == PanelsHas(s, k, q) /\ Panel!Target(s, q) = on
PanelsHides(s, on, q) == PanelsFired(s, on, "closed", q) /\ q \notin s.active
PanelsResets(s, on) == \E q \in Panel!Side : PanelsFired(s, on, "reset", q)

PanelsSame(s, t) ==
    /\ t \in PanelsState /\ t.effect = s.effect /\ t.swipe = s.swipe /\ t.active = s.active
    /\ t.body = s.body /\ t.touch = s.touch /\ t.side = s.side /\ t.opened = s.opened
    /\ t.late = s.late

PanelsHidden(s, t, p, c) ==
    /\ \A q : q \in t.shown <=> q \in s.shown /\ ~(c /\ q = p)
    /\ t.closing <=> s.closing /\ ~c
    /\ t.allow <=> s.allow \/ c

LEMMA PanelsClosedOne ==
    ASSUME NEW s \in PanelsState, NEW p \in Panel!Side, NEW fired \in BOOLEAN
    PROVE  LET t == IF fired THEN Panel!Closed(s, p) ELSE s
           IN  /\ PanelsSame(s, t) /\ t.listeners = s.listeners /\ t.moving = s.moving
               /\ PanelsHidden(s, t, p, fired /\ p \notin s.active)
<1> DEFINE t == IF fired THEN Panel!Closed(s, p) ELSE s
           u == [s EXCEPT !.shown = s.shown \ {p}, !.closing = FALSE, !.allow = TRUE]
<1>1. CASE fired /\ p \notin s.active
  <2>1. t = u
    BY <1>1 DEF Panel!Closed
  <2>2. u \in PanelsState /\ u.shown = s.shown \ {p} /\ u.closing = FALSE /\ u.allow = TRUE
    BY DEF PanelsState
  <2>3. u.effect = s.effect /\ u.swipe = s.swipe /\ u.active = s.active /\ u.listeners = s.listeners
    BY DEF PanelsState
  <2>4. u.body = s.body /\ u.touch = s.touch /\ u.side = s.side /\ u.moving = s.moving
    BY DEF PanelsState
  <2>5. u.opened = s.opened /\ u.late = s.late
    BY DEF PanelsState
  <2> HIDE DEF u
  <2> QED
    BY <1>1, <2>1, <2>2, <2>3, <2>4, <2>5 DEF PanelsSame, PanelsHidden
<1>2. CASE ~(fired /\ p \notin s.active)
  <2>1. t = s
    BY <1>2 DEF Panel!Closed
  <2> HIDE DEF t
  <2> QED
    BY <1>2, <2>1 DEF PanelsSame, PanelsHidden, t
<1> QED
  BY <1>1, <1>2

PanelsEnded(s, on, r) ==
    /\ PanelsTyped(r) /\ PanelsSame(s, r)
    /\ \A q \in Panel!Side : Panel!Target(r, q) = Panel!Target(s, q)
    /\ \A k \in PanelsKind, q \in Panel!Side :
           PanelsHas(r, k, q) <=> PanelsHas(s, k, q) /\ Panel!Target(s, q) # on
    /\ \A q \in Panel!Side : PanelsMoves(r, q) <=> PanelsMoves(s, q) /\ Panel!Target(s, q) # on
    /\ \A q \in Panel!Side : q \in r.shown <=>
           q \in s.shown /\ ~PanelsHides(s, on, q) /\ ~(PanelsResets(s, on) /\ q = s.side)
    /\ r.closing <=> /\ s.closing /\ ~PanelsResets(s, on)
                     /\ \A q \in Panel!Side : ~PanelsHides(s, on, q)
    /\ r.allow <=> \/ s.allow \/ PanelsResets(s, on)
                   \/ \E q \in Panel!Side : PanelsHides(s, on, q) \/ PanelsFired(s, on, "opened", q)

LEMMA PanelsFire ==
    ASSUME NEW s, PanelsTyped(s), NEW on
    PROVE  PanelsEnded(s, on, Panel!Fire(s, on))
<1> DEFINE now == {l \in s.listeners : l.on = on}
           Has(kind) == \E l \in now : l.kind = kind
           Left == [on |-> on, kind |-> "closed", side |-> "left"] \in now
           Right == [on |-> on, kind |-> "closed", side |-> "right"] \in now
           rest == [s EXCEPT !.listeners = s.listeners \ now, !.moving = s.moving \ {on}]
           a == IF Has("opened") THEN [rest EXCEPT !.allow = TRUE] ELSE rest
           b == IF Left THEN Panel!Closed(a, "left") ELSE a
           c == IF Right THEN Panel!Closed(b, "right") ELSE b
           r == IF Has("reset")
                THEN [c EXCEPT !.allow = TRUE, !.closing = FALSE, !.shown = c.shown \ {c.side}] ELSE c
           f == Panel!Fire(s, on)
<1>1. f = IF Has("reset")
          THEN [c EXCEPT !.allow = TRUE, !.closing = FALSE, !.shown = c.shown \ {s.side}] ELSE c
  BY DEF Panel!Fire
<1>2. s \in PanelsState /\ now \subseteq s.listeners /\ (\A l \in s.listeners : l.on = Panel!Target(s, l.side))
  BY DEF PanelsTyped
<1>3. \A l \in s.listeners : /\ l \in [on : PanelsElement, kind : PanelsKind, side : Panel!Side]
                             /\ l = [on |-> Panel!Target(s, l.side), kind |-> l.kind, side |-> l.side]
  BY <1>2 DEF PanelsState
<1>4. \A k : Has(k) <=> \E q \in Panel!Side : PanelsFired(s, on, k, q)
  <2>1. ASSUME NEW k, NEW l \in now, l.kind = k PROVE \E q \in Panel!Side : PanelsFired(s, on, k, q)
    <3>1. l.side \in Panel!Side /\ PanelsFired(s, on, k, l.side)
      BY <1>2, <1>3, <2>1 DEF PanelsFired, PanelsHas
    <3> QED
      BY <3>1
  <2>2. ASSUME NEW k, NEW q \in Panel!Side, PanelsFired(s, on, k, q) PROVE Has(k)
    <3>1. [on |-> Panel!Target(s, q), kind |-> k, side |-> q] \in now
      BY <2>2 DEF PanelsFired, PanelsHas
    <3> QED
      BY <3>1
  <2> QED
    BY <2>1, <2>2
<1>5. /\ Left \in BOOLEAN /\ Right \in BOOLEAN
      /\ Left <=> PanelsFired(s, on, "closed", "left")
      /\ Right <=> PanelsFired(s, on, "closed", "right")
  <2>1. ASSUME NEW q \in Panel!Side
        PROVE  [on |-> on, kind |-> "closed", side |-> q] \in now <=> PanelsFired(s, on, "closed", q)
    BY <1>2 DEF PanelsFired, PanelsHas
  <2> QED
    BY <2>1 DEF Panel!Side
<1> DEFINE op == Has("opened")
           re == Has("reset")
<1>6. /\ op \in BOOLEAN /\ (op <=> \E q \in Panel!Side : PanelsFired(s, on, "opened", q))
      /\ re \in BOOLEAN /\ (re <=> PanelsResets(s, on))
  BY <1>4 DEF PanelsResets
<1>7. rest \in PanelsState /\ rest.listeners = s.listeners \ now /\ rest.moving = s.moving \ {on}
  BY <1>2 DEF PanelsState
<1>8. rest.shown = s.shown /\ rest.closing = s.closing /\ rest.allow = s.allow
  BY <1>2 DEF PanelsState
<1>9. PanelsSame(s, rest)
  <2>1. rest.effect = s.effect /\ rest.swipe = s.swipe /\ rest.active = s.active
        /\ rest.body = s.body
    BY <1>2 DEF PanelsState
  <2>2. rest.touch = s.touch /\ rest.side = s.side /\ rest.opened = s.opened /\ rest.late = s.late
    BY <1>2 DEF PanelsState
  <2> QED
    BY <1>7, <2>1, <2>2 DEF PanelsSame
<1> HIDE DEF rest
<1>10. /\ PanelsSame(s, a) /\ a.listeners = s.listeners \ now /\ a.moving = s.moving \ {on}
       /\ a.shown = s.shown /\ a.closing = s.closing /\ (a.allow <=> s.allow \/ op)
  <2> DEFINE u == [rest EXCEPT !.allow = TRUE]
  <2>1. u \in PanelsState /\ u.listeners = rest.listeners /\ u.moving = rest.moving
    BY <1>7 DEF PanelsState
  <2>2. u.shown = rest.shown /\ u.closing = rest.closing /\ u.allow = TRUE
    BY <1>7 DEF PanelsState
  <2>3. u.effect = rest.effect /\ u.swipe = rest.swipe /\ u.active = rest.active
        /\ u.body = rest.body
    BY <1>7 DEF PanelsState
  <2>4. u.touch = rest.touch /\ u.side = rest.side /\ u.opened = rest.opened /\ u.late = rest.late
    BY <1>7 DEF PanelsState
  <2> HIDE DEF u
  <2>5. a = IF op THEN u ELSE rest
    BY DEF u
  <2> HIDE DEF a, op
  <2> QED
    BY <1>6, <1>7, <1>8, <1>9, <2>1, <2>2, <2>3, <2>4, <2>5 DEF PanelsSame
<1> HIDE DEF a, op
<1>11. /\ PanelsSame(a, b) /\ b.listeners = a.listeners /\ b.moving = a.moving
       /\ PanelsHidden(a, b, "left", Left /\ "left" \notin a.active)
  BY <1>5, <1>10, PanelsClosedOne DEF PanelsSame, Panel!Side
<1> HIDE DEF b
<1>12. /\ PanelsSame(b, c) /\ c.listeners = b.listeners /\ c.moving = b.moving
       /\ PanelsHidden(b, c, "right", Right /\ "right" \notin b.active)
  BY <1>5, <1>11, PanelsClosedOne DEF PanelsSame, Panel!Side
<1> HIDE DEF c, Left, Right
<1>13. /\ PanelsSame(s, c) /\ c.listeners = s.listeners \ now /\ c.moving = s.moving \ {on}
  BY <1>10, <1>11, <1>12 DEF PanelsSame
<1>14. /\ \A q \in Panel!Side : q \in c.shown <=> q \in s.shown /\ ~PanelsHides(s, on, q)
       /\ c.closing <=> s.closing /\ \A q \in Panel!Side : ~PanelsHides(s, on, q)
       /\ c.allow <=> \/ s.allow \/ \E q \in Panel!Side : PanelsHides(s, on, q)
                      \/ \E q \in Panel!Side : PanelsFired(s, on, "opened", q)
  <2>1. a.active = s.active /\ b.active = s.active
    BY <1>10, <1>11 DEF PanelsSame
  <2>2. /\ Left /\ "left" \notin a.active <=> PanelsHides(s, on, "left")
        /\ Right /\ "right" \notin b.active <=> PanelsHides(s, on, "right")
    BY <1>5, <2>1 DEF PanelsHides
  <2>3. \A q \in Panel!Side : q \in c.shown <=> q \in s.shown /\ ~PanelsHides(s, on, q)
    BY <1>10, <1>11, <1>12, <2>2 DEF PanelsHidden, Panel!Side
  <2>4. c.closing <=> s.closing /\ ~PanelsHides(s, on, "left") /\ ~PanelsHides(s, on, "right")
    BY <1>10, <1>11, <1>12, <2>2 DEF PanelsHidden
  <2>5. c.allow <=> s.allow \/ op \/ PanelsHides(s, on, "left") \/ PanelsHides(s, on, "right")
    BY <1>10, <1>11, <1>12, <2>2 DEF PanelsHidden
  <2> QED
    BY <1>6, <2>3, <2>4, <2>5 DEF Panel!Side
<1>15. /\ PanelsSame(c, f) /\ f.listeners = c.listeners /\ f.moving = c.moving
       /\ \A q : q \in f.shown <=> q \in c.shown /\ ~(re /\ q = s.side)
       /\ f.closing <=> c.closing /\ ~re
       /\ f.allow <=> c.allow \/ re
  <2> DEFINE u == [c EXCEPT !.allow = TRUE, !.closing = FALSE, !.shown = c.shown \ {s.side}]
  <2>1. c \in PanelsState
    BY <1>13 DEF PanelsSame
  <2>2. u \in PanelsState /\ u.listeners = c.listeners /\ u.moving = c.moving
    BY <2>1 DEF PanelsState
  <2>3. u.shown = c.shown \ {s.side} /\ u.closing = FALSE /\ u.allow = TRUE
    BY <2>1 DEF PanelsState
  <2>4. u.effect = c.effect /\ u.swipe = c.swipe /\ u.active = c.active /\ u.body = c.body
    BY <2>1 DEF PanelsState
  <2>5. u.touch = c.touch /\ u.side = c.side /\ u.opened = c.opened /\ u.late = c.late
    BY <2>1 DEF PanelsState
  <2> HIDE DEF u
  <2>6. f = IF re THEN u ELSE c
    BY <1>1 DEF u
  <2> HIDE DEF f, re
  <2> QED
    BY <1>6, <2>1, <2>2, <2>3, <2>4, <2>5, <2>6 DEF PanelsSame
<1> HIDE DEF f, re
<1>16. /\ PanelsSame(s, f) /\ f.listeners = s.listeners \ now /\ f.moving = s.moving \ {on}
  BY <1>13, <1>15 DEF PanelsSame
<1>17. \A q : Panel!Target(f, q) = Panel!Target(s, q)
  BY <1>16 DEF PanelsSame, Panel!Target
<1>18. PanelsTyped(f)
  BY <1>2, <1>16, <1>17 DEF PanelsTyped, PanelsSame
<1>19. /\ \A k \in PanelsKind, q \in Panel!Side :
              PanelsHas(f, k, q) <=> PanelsHas(s, k, q) /\ Panel!Target(s, q) # on
       /\ \A q \in Panel!Side : PanelsMoves(f, q) <=> PanelsMoves(s, q) /\ Panel!Target(s, q) # on
  BY <1>16, <1>17 DEF PanelsHas, PanelsMoves
<1>20. \A q \in Panel!Side : q \in f.shown <=>
           q \in s.shown /\ ~PanelsHides(s, on, q) /\ ~(PanelsResets(s, on) /\ q = s.side)
  BY <1>6, <1>14, <1>15
<1>21. /\ f.closing <=> /\ s.closing /\ ~PanelsResets(s, on)
                        /\ \A q \in Panel!Side : ~PanelsHides(s, on, q)
       /\ f.allow <=> \/ s.allow \/ PanelsResets(s, on)
                      \/ \E q \in Panel!Side : PanelsHides(s, on, q) \/ PanelsFired(s, on, "opened", q)
  BY <1>6, <1>14, <1>15
<1> QED
  BY <1>16, <1>17, <1>18, <1>19, <1>20, <1>21 DEF PanelsEnded, f

LEMMA PanelsEndedGood ==
    ASSUME NEW s, PanelsGood(s), NEW on, NEW r, PanelsEnded(s, on, r)
    PROVE  PanelsGood(r)
<1> USE DEF PanelsKind
<1>1. /\ PanelsTyped(s) /\ PanelsTyped(r) /\ s \in PanelsState
      /\ r.swipe = s.swipe /\ r.active = s.active /\ r.body = s.body /\ r.touch = s.touch
      /\ r.side = s.side /\ r.opened = s.opened /\ r.late = s.late
  BY DEF PanelsGood, PanelsEnded, PanelsSame, PanelsTyped
<1>2. \A q \in Panel!Side : Panel!Target(r, q) = Panel!Target(s, q)
  BY DEF PanelsEnded
<1>3. \A k \in PanelsKind, q \in Panel!Side :
          PanelsHas(r, k, q) <=> PanelsHas(s, k, q) /\ Panel!Target(s, q) # on
  BY DEF PanelsEnded
<1>4. \A q \in Panel!Side : PanelsMoves(r, q) <=> PanelsMoves(s, q) /\ Panel!Target(s, q) # on
  BY DEF PanelsEnded
<1>5. \A q \in Panel!Side : q \in r.shown <=>
          q \in s.shown /\ ~PanelsHides(s, on, q) /\ ~(PanelsResets(s, on) /\ q = s.side)
  BY DEF PanelsEnded
<1>6. r.closing => s.closing /\ ~PanelsResets(s, on) /\ \A q \in Panel!Side : ~PanelsHides(s, on, q)
  BY DEF PanelsEnded
<1>7. r.allow <=> \/ s.allow \/ PanelsResets(s, on)
                  \/ \E q \in Panel!Side : PanelsHides(s, on, q) \/ PanelsFired(s, on, "opened", q)
  BY DEF PanelsEnded
<1>8. \A q \in Panel!Side : PanelsCloses(s, q) => PanelsHides(s, on, q) \/ PanelsCloses(r, q)
  BY <1>1, <1>3, <1>4 DEF PanelsCloses, PanelsHides, PanelsFired
<1>9. PanelsReturns(r) => PanelsReturns(s)
  BY <1>3 DEF PanelsReturns
<1>10. s.active \subseteq Panel!Side /\ s.side \in Panel!Side /\ s.swipe \in Panel!Side
  BY <1>1 DEF PanelsState
<1>11. PanelsActive(r)
  <2>1. ASSUME ~s.late, NEW q \in s.active PROVE q \in r.shown
    <3>1. q \in s.shown /\ q \in Panel!Side
      BY <1>10, <2>1 DEF PanelsGood, PanelsActive
    <3>2. ~PanelsHides(s, on, q)
      BY <2>1 DEF PanelsHides
    <3>3. ~PanelsResets(s, on)
      BY <2>1 DEF PanelsGood, PanelsReturning, PanelsReturns, PanelsResets, PanelsFired
    <3> QED
      BY <1>5, <3>1, <3>2, <3>3
  <2> QED
    BY <1>1, <2>1 DEF PanelsGood, PanelsActive
<1>12. PanelsTouched(r)
  BY <1>1, <1>7 DEF PanelsGood, PanelsTouched
<1>13. PanelsOpened(r)
  BY <1>1, <1>3 DEF PanelsGood, PanelsOpened
<1>14. ASSUME ~r.late
       PROVE  PanelsShown(r) /\ PanelsLocked(r) /\ PanelsClosing(r) /\ PanelsReturning(r)
  <2>1. /\ PanelsShown(s) /\ PanelsLocked(s) /\ PanelsClosing(s) /\ PanelsReturning(s)
    BY <1>1, <1>14 DEF PanelsGood
  <2>2. PanelsReturns(s) =>
            /\ s.active = {} /\ s.side = s.swipe /\ PanelsMoves(s, s.swipe)
            /\ \A q \in Panel!Side : PanelsHas(s, "reset", q) => q = s.swipe
    BY <2>1 DEF PanelsReturning
  <2>3. PanelsShown(r)
    <3> SUFFICES ASSUME NEW q \in r.shown \ r.active
                 PROVE  \/ r.touch = "moved" /\ r.side = q
                        \/ PanelsMoves(r, q) /\ PanelsHas(r, "reset", q)
                        \/ /\ PanelsCloses(r, q)
                           /\ r.allow => Panel!Target(r, "left") # Panel!Target(r, "right")
      BY DEF PanelsShown
    <3>1. q \in Panel!Side
      BY <1>1 DEF PanelsTyped, PanelsState
    <3>2. /\ q \in s.shown \ s.active /\ ~PanelsHides(s, on, q)
          /\ ~(PanelsResets(s, on) /\ q = s.side)
      BY <1>1, <1>5, <3>1
    <3>3. CASE s.touch = "moved" /\ s.side = q
      BY <1>1, <3>3
    <3>4. CASE PanelsMoves(s, q) /\ PanelsHas(s, "reset", q)
      <4>1. q = s.side
        BY <2>2, <3>1, <3>4 DEF PanelsReturns
      <4>2. Panel!Target(s, q) # on
        BY <3>1, <3>2, <3>4, <4>1 DEF PanelsResets, PanelsFired
      <4> QED
        BY <1>3, <1>4, <3>1, <3>4, <4>2
    <3>5. CASE PanelsCloses(s, q) /\ (s.allow => Panel!Target(s, "left") # Panel!Target(s, "right"))
      <4>1. PanelsCloses(r, q)
        BY <1>8, <3>1, <3>2, <3>5
      <4>2. Panel!Target(s, q) # on
        BY <3>1, <3>2, <3>5 DEF PanelsCloses, PanelsHides, PanelsFired
      <4>3. ASSUME r.allow, ~s.allow PROVE Panel!Target(s, "left") # Panel!Target(s, "right")
        <5>1. PICK o \in Panel!Side : Panel!Target(s, o) = on
          BY <1>7, <4>3 DEF PanelsResets, PanelsHides, PanelsFired
        <5> QED
          BY <3>1, <4>2, <5>1 DEF Panel!Side
      <4> QED
        BY <1>2, <3>5, <4>1, <4>3 DEF Panel!Side
    <3> QED
      BY <2>1, <3>2, <3>3, <3>4, <3>5 DEF PanelsShown
  <2>4. PanelsLocked(r)
    <3> SUFFICES ASSUME ~r.allow
                 PROVE  \E p \in Panel!Side :
                            PanelsCloses(r, p) \/ (PanelsMoves(r, p) /\ PanelsHas(r, "opened", p))
      BY DEF PanelsLocked
    <3>1. PICK p \in Panel!Side : PanelsCloses(s, p)
          \/ (PanelsMoves(s, p) /\ PanelsHas(s, "opened", p))
      BY <1>7, <2>1 DEF PanelsLocked
    <3>2. ~PanelsHides(s, on, p) /\ ~PanelsFired(s, on, "opened", p)
      BY <1>7
    <3>3. PanelsMoves(s, p) /\ PanelsHas(s, "opened", p) => Panel!Target(s, p) # on
      BY <3>2 DEF PanelsFired
    <3> QED
      BY <1>3, <1>4, <1>8, <3>1, <3>2, <3>3
  <2>5. PanelsClosing(r)
    <3> SUFFICES ASSUME r.closing
                 PROVE  \/ PanelsReturns(r)
                        \/ \E p \in Panel!Side :
                               /\ PanelsCloses(r, p)
                               /\ r.allow => /\ r.active # {}
                                             /\ Panel!Target(r, "left") # Panel!Target(r, "right")
      BY DEF PanelsClosing
    <3>1. s.closing /\ ~PanelsResets(s, on) /\ \A q \in Panel!Side : ~PanelsHides(s, on, q)
      BY <1>6
    <3>2. CASE PanelsReturns(s)
      <4>1. PICK p \in Panel!Side : PanelsHas(s, "reset", p)
        BY <3>2 DEF PanelsReturns
      <4>2. Panel!Target(s, p) # on
        BY <3>1, <4>1 DEF PanelsResets, PanelsFired
      <4> QED
        BY <1>3, <4>1, <4>2 DEF PanelsReturns
    <3>3. ASSUME NEW p \in Panel!Side, PanelsCloses(s, p),
                 s.allow => s.active # {} /\ Panel!Target(s, "left") # Panel!Target(s, "right")
          PROVE  /\ PanelsCloses(r, p)
                 /\ r.allow => r.active # {} /\ Panel!Target(r, "left") # Panel!Target(r, "right")
      <4>1. PanelsCloses(r, p) /\ Panel!Target(s, p) # on
        BY <1>8, <3>1, <3>3 DEF PanelsCloses, PanelsHides, PanelsFired
      <4>2. ASSUME r.allow, ~s.allow
            PROVE  s.active # {} /\ Panel!Target(s, "left") # Panel!Target(s, "right")
        <5>1. PICK o \in Panel!Side : PanelsFired(s, on, "opened", o)
          BY <1>7, <3>1, <4>2
        <5>2. Panel!Target(s, o) = on /\ PanelsHas(s, "opened", o)
          BY <5>1 DEF PanelsFired
        <5>3. s.active # {}
          <6> SUFFICES ASSUME s.active = {} PROVE FALSE
            OBVIOUS
          <6>1. PanelsHas(s, "closed", o)
            BY <5>2 DEF PanelsGood, PanelsOpened
          <6> QED
            BY <3>1, <5>2, <6>1 DEF PanelsHides, PanelsFired
        <5> QED
          BY <4>1, <5>2, <5>3 DEF Panel!Side
      <4> QED
        BY <1>1, <1>2, <3>3, <4>1, <4>2 DEF Panel!Side
    <3> QED
      BY <2>1, <3>1, <3>2, <3>3 DEF PanelsClosing
  <2>6. PanelsReturning(r)
    <3> SUFFICES ASSUME PanelsReturns(r)
                 PROVE  /\ r.active = {} /\ r.side = r.swipe /\ PanelsMoves(r, r.swipe)
                        /\ \A p \in Panel!Side : PanelsHas(r, "reset", p) => p = r.swipe
      BY DEF PanelsReturning
    <3>1. PICK p \in Panel!Side : PanelsHas(s, "reset", p) /\ Panel!Target(s, p) # on
      BY <1>3 DEF PanelsReturns
    <3>2. p = s.swipe
      BY <1>9, <2>2, <3>1
    <3> QED
      BY <1>1, <1>3, <1>4, <1>9, <1>10, <2>2, <3>1, <3>2
  <2> QED
    BY <2>3, <2>4, <2>5, <2>6
<1> QED
  BY <1>1, <1>11, <1>12, <1>13, <1>14 DEF PanelsGood

-----------------------------------------------------------------------------
LEMMA PanelsInitIInv == Panel!Init => PanelsIInv
<1> SUFFICES ASSUME Panel!Init PROVE PanelsGood(w)
  BY DEF PanelsIInv
<1>1. PICK effect \in [Panel!Side -> {"cover", "reveal"}], swipe \in Panel!Side,
           follow \in BOOLEAN, onlyClose \in BOOLEAN :
          w = [effect |-> effect, swipe |-> swipe, follow |-> follow, onlyClose |-> onlyClose,
               active |-> {}, shown |-> {}, body |-> {}, closing |-> FALSE, allow |-> TRUE,
               listeners |-> {}, moving |-> {}, touch |-> "none", side |-> swipe,
               opened |-> FALSE, late |-> FALSE]
  BY DEF Panel!Init
<1>2. w \in PanelsState
  BY <1>1 DEF PanelsState
<1>3. /\ w.active = {} /\ w.shown = {} /\ w.body = {} /\ w.closing = FALSE /\ w.allow = TRUE
      /\ w.listeners = {} /\ w.touch = "none"
  BY <1>1
<1>4. \A k, p : ~PanelsHas(w, k, p)
  BY <1>3 DEF PanelsHas
<1>5. PanelsTyped(w) /\ PanelsActive(w) /\ PanelsTouched(w) /\ PanelsOpened(w)
  BY <1>2, <1>3, <1>4 DEF PanelsTyped, PanelsActive, PanelsTouched, PanelsOpened
<1>6. PanelsShown(w) /\ PanelsLocked(w) /\ PanelsClosing(w) /\ PanelsReturning(w)
  BY <1>3, <1>4 DEF PanelsShown, PanelsLocked, PanelsClosing, PanelsReturning, PanelsReturns
<1> QED
  BY <1>5, <1>6 DEF PanelsGood

LEMMA PanelsStepIInv == PanelsIInv /\ [Panel!Next]_w => PanelsIInv'
<1> SUFFICES ASSUME PanelsGood(w), [Panel!Next]_w PROVE PanelsGood(w')
  BY DEF PanelsIInv
<1>1. CASE \E p \in Panel!Side : Panel!TapOpen(p)
  BY <1>1, PanelsTaps DEF Panel!TapOpen, Panel!Idle
<1>2. CASE Panel!TapClose
  BY <1>2, PanelsTaps DEF Panel!TapClose, Panel!Idle
<1>3. CASE Panel!TouchStart \/ Panel!TouchDrop
  BY <1>3, PanelsTouchStart
<1>4. CASE Panel!TouchMove
  BY <1>4, PanelsTouchMove
<1>5. CASE \E place \in {"closed", "between", "opened"} : Panel!TouchEnd(place)
  BY <1>5, PanelsTouchEnd
<1>6. ASSUME NEW on \in Panel!Side \cup {"views"}, Panel!TransitionEnd(on) PROVE PanelsGood(w')
  <2>1. w' = Panel!Fire(w, on)
    BY <1>6 DEF Panel!TransitionEnd
  <2>2. PanelsEnded(w, on, w')
    BY <2>1, PanelsFire DEF PanelsGood
  <2> QED
    BY <2>2, PanelsEndedGood
<1>7. CASE UNCHANGED w
  BY <1>7
<1> QED
  BY <1>1, <1>2, <1>3, <1>4, <1>5, <1>6, <1>7 DEF Panel!Next

LEMMA PanelsAgreeFollows == PanelsIInv => Panel!PanelsAgree
<1> SUFFICES ASSUME PanelsGood(w) PROVE Panel!PanelsAgree
  BY DEF PanelsIInv
<1>1. PanelsTyped(w) /\ PanelsActive(w)
  BY DEF PanelsGood
<1>2. Cardinality(w.active) <= 1
  <2>1. CASE w.active = {}
    BY <2>1, FS_EmptySet
  <2>2. ASSUME NEW p, w.active = {p} PROVE Cardinality(w.active) <= 1
    <3>1. Cardinality({p}) = 1
      BY FS_Singleton
    <3> QED
      BY <2>2, <3>1
  <2> QED
    BY <1>1, <2>1, <2>2 DEF PanelsActive
<1>3. Panel!Cardinality(w.active) = Cardinality(w.active)
  BY DEF Panel!Cardinality, Cardinality
<1>4. ASSUME w.moving = {}, Panel!Idle, ~w.late
      PROVE  w.shown = w.active /\ ~w.closing /\ w.allow
  <2>1. \A p \in Panel!Side : ~PanelsMoves(w, p)
    BY <1>4 DEF PanelsMoves
  <2>2. /\ PanelsShown(w) /\ PanelsLocked(w) /\ PanelsClosing(w) /\ PanelsReturning(w)
        /\ w.active \subseteq w.shown
    BY <1>4 DEF PanelsGood, PanelsActive
  <2>3. w.shown \subseteq Panel!Side /\ w.swipe \in Panel!Side
    BY <1>1 DEF PanelsTyped, PanelsState
  <2>4. \A p \in Panel!Side : ~PanelsCloses(w, p)
    BY <2>1 DEF PanelsCloses
  <2>5. w.touch # "moved"
    BY <1>4 DEF Panel!Idle
  <2>6. w.shown = w.active
    BY <2>1, <2>2, <2>3, <2>4, <2>5 DEF PanelsShown
  <2>7. ~PanelsReturns(w)
    BY <2>1, <2>2, <2>3 DEF PanelsReturning
  <2> QED
    BY <2>1, <2>2, <2>4, <2>6, <2>7 DEF PanelsLocked, PanelsClosing
<1> QED
  BY <1>1, <1>2, <1>3, <1>4 DEF Panel!PanelsAgree, PanelsActive

-----------------------------------------------------------------------------
(* Forms: what the page was built from and what is stored of it. *)
\* What formFromJSON makes of a stored form.
FormsShown(default, v) == [v EXCEPT !.text = IF @ = Empty THEN default.text ELSE @]

FormsChosen(default, v) == default.choice # {} => v.choice # {}

\* The form and what is stored of it.
FormsStored ==
    \/ w.kept = {} /\ w.local = {} /\ w.memory = {}
    \/ \E v \in Form!Values :
          /\ w.kept = {v} /\ w.local = {Form!FormToJSON(v)} /\ w.memory \subseteq w.local
          /\ FormsChosen(w.default, v)
          /\ w.ajax = "change" => w.sent = w.local

FormsFormState ==
    [default : Form!Values, ajax : {"none", "submit", "change"}, page : BOOLEAN,
     values : Form!Values,
     memory : SUBSET {Form!FormToJSON(v) : v \in Form!Values},
     local : SUBSET {Form!FormToJSON(v) : v \in Form!Values},
     sent : SUBSET {Form!FormToJSON(v) : v \in Form!Values}, kept : SUBSET Form!Values,
     fresh : BOOLEAN]

FormsFresh ==
    w.fresh => w.values = IF w.kept = {} THEN w.default
                          ELSE FormsShown(w.default, CHOOSE v \in w.kept : TRUE)

FormsIInv ==
    /\ w \in FormsFormState /\ FormsStored /\ FormsFresh
    /\ FormsChosen(w.default, w.values)

-----------------------------------------------------------------------------
\* A form that is filled from what was stored of a form v: the choice is not
\* missing from v, or is not missing from the form that is filled either.
LEMMA FormsBackFromJSON ==
    ASSUME Form!FormsAssumption, NEW u \in Form!Values, NEW v \in Form!Values
    PROVE  /\ Form!FormFromJSON(u, Form!FormToJSON(v)) \in Form!Values
           /\ Form!FormFromJSON(u, Form!FormToJSON(v)).choice # {} <=> u.choice # {} \/ v.choice # {}
           /\ (u.choice # {} => v.choice # {}) => Form!FormFromJSON(u, Form!FormToJSON(v)) = FormsShown(u, v)
<1> DEFINE j == Form!FormToJSON(v)
           r == Form!FormFromJSON(u, j)
<1>1. /\ DOMAIN j = {"text", "boxes"} \cup {n \in {"choice"} : v[n] # {}}
      /\ j["text"] = v["text"] /\ j["boxes"] = v["boxes"]
      /\ v["choice"] # {} => "choice" \in DOMAIN j /\ j["choice"] = v["choice"]
      /\ v["choice"] = {} => "choice" \notin DOMAIN j
  BY DEF Form!FormToJSON
<1>2. DOMAIN u = {"text", "boxes", "choice"}
  BY DEF Form!Values
<1>3. v.boxes # Empty /\ v.choice # Empty
  BY DEF Form!Values, Form!FormsAssumption
<1>4. r = [text |-> IF v.text = Empty THEN u.text ELSE v.text, boxes |-> v.boxes,
           choice |-> IF v.choice = {} THEN u.choice ELSE v.choice]
  BY <1>1, <1>2, <1>3 DEF Form!FormFromJSON
<1> HIDE DEF r, j
<1> QED
  BY <1>4 DEF Form!Values, FormsShown, r, j

\* Any field that is shown is one of a form, so that it can be stored.
LEMMA FormsFillKeepsChoice ==
    ASSUME Form!FormsAssumption, w \in FormsFormState, FormsChosen(w.default, w.values),
           NEW v \in Form!Values
    PROVE  /\ Form!FormFromJSON(w.values, Form!FormToJSON(v)) \in Form!Values
           /\ FormsChosen(w.default, Form!FormFromJSON(w.values, Form!FormToJSON(v)))
<1>1. w.values \in Form!Values
  BY DEF FormsFormState
<1> QED
  BY <1>1, FormsBackFromJSON DEF FormsChosen

LEMMA FormsInitIInv == Form!FormsAssumption /\ Form!Init => FormsIInv
  BY DEF Form!Init, FormsIInv, FormsFormState, FormsStored, FormsFresh, FormsChosen

\* A page is built from the local storage, which outlives the memory.
LEMMA FormsBuildKeeps ==
    ASSUME Form!FormsAssumption, FormsIInv, Form!InitFormsStorage
    PROVE  FormsIInv'
<1>1. w \in FormsFormState /\ w.default \in Form!Values
  BY DEF FormsIInv, FormsFormState
<1>2. CASE w.kept = {} /\ w.local = {} /\ w.memory = {}
  <2>1. w' = [w EXCEPT !.page = TRUE, !.fresh = TRUE, !.values = w.default]
    BY <1>2 DEF Form!InitFormsStorage, Form!FormGetData
  <2> QED
    BY <1>1, <1>2, <2>1 DEF FormsIInv, FormsFormState, FormsStored, FormsFresh, FormsChosen
<1>3. ASSUME NEW v \in Form!Values, w.kept = {v}, w.local = {Form!FormToJSON(v)},
             w.memory \subseteq w.local, FormsChosen(w.default, v),
             w.ajax = "change" => w.sent = w.local
      PROVE  FormsIInv'
  <2> DEFINE r == Form!FormFromJSON(w.default, Form!FormToJSON(v))
  <2>1. w' = [w EXCEPT !.page = TRUE, !.fresh = TRUE, !.values = r]
    <3>1. Form!FormGetData(w) = {Form!FormToJSON(v)}
      BY <1>3 DEF Form!FormGetData
    <3>2. (CHOOSE j \in Form!FormGetData(w) : TRUE) = Form!FormToJSON(v)
      BY <3>1
    <3>3. Form!FormGetData(w) # {}
      BY <3>1
    <3> QED
      BY <3>2, <3>3 DEF Form!InitFormsStorage
  <2>2. r \in Form!Values /\ r = FormsShown(w.default, v) /\ FormsChosen(w.default, r)
    BY <1>1, <1>3, FormsBackFromJSON DEF FormsChosen
  <2> HIDE DEF r
  <2>3. w' \in FormsFormState /\ w'.default = w.default /\ w'.ajax = w.ajax /\ w'.values = r
        /\ w'.kept = w.kept /\ w'.local = w.local /\ w'.memory = w.memory /\ w'.sent = w.sent
    BY <1>1, <2>1, <2>2 DEF FormsFormState
  <2>4. (CHOOSE u \in w'.kept : TRUE) = v /\ w'.kept # {}
    BY <1>3, <2>3
  <2>5. FormsStored'
    BY <1>3, <2>3 DEF FormsStored
  <2>6. FormsFresh'
    BY <2>2, <2>3, <2>4 DEF FormsFresh
  <2> QED
    BY <2>2, <2>3, <2>5, <2>6 DEF FormsIInv
<1> QED
  BY <1>2, <1>3 DEF FormsIInv, FormsStored

\* A change and a sending store the form, in memory and in the local storage,
\* and send it if the form is sent on every change.
LEMMA FormsStoreKeeps ==
    ASSUME Form!FormsAssumption, FormsIInv, NEW v \in Form!Values, FormsChosen(w.default, v),
           NEW event \in {"change", "submit"},
           w' = Form!AjaxSubmit(Form!StoreForm([w EXCEPT !.values = v]), event)
    PROVE  FormsIInv'
<1> DEFINE j == Form!FormToJSON(v)
           s == [w EXCEPT !.values = v, !.memory = {j}, !.local = {j}, !.kept = {v}, !.fresh = FALSE]
<1>1. w \in FormsFormState /\ j \in {Form!FormToJSON(u) : u \in Form!Values}
  BY DEF FormsIInv
<1>2. Form!StoreForm([w EXCEPT !.values = v]) = s
  BY <1>1 DEF Form!StoreForm, Form!FormStoreData, FormsFormState
<1> HIDE DEF j
<1>3. /\ s \in FormsFormState /\ s.default = w.default /\ s.ajax = w.ajax /\ s.values = v
      /\ s.memory = {j} /\ s.local = {j} /\ s.kept = {v} /\ s.fresh = FALSE
  BY <1>1 DEF FormsFormState
<1> HIDE DEF s
<1>4. w' = s \/ w' = [s EXCEPT !.sent = {j}]
  BY <1>2, <1>3 DEF Form!AjaxSubmit, j
<1>5. w.ajax = "change" => w' = [s EXCEPT !.sent = {j}]
  BY <1>2, <1>3 DEF Form!AjaxSubmit, j
<1>6. /\ w' \in FormsFormState /\ w'.default = w.default /\ w'.ajax = w.ajax /\ w'.values = v
      /\ w'.memory = {j} /\ w'.local = {j} /\ w'.kept = {v} /\ w'.fresh = FALSE
      /\ w.ajax = "change" => w'.sent = {j}
  BY <1>1, <1>3, <1>4, <1>5 DEF FormsFormState
<1>7. FormsStored'
  BY <1>6 DEF FormsStored, j
<1>8. FormsFresh'
  BY <1>6 DEF FormsFresh
<1> QED
  BY <1>6, <1>7, <1>8 DEF FormsIInv

LEMMA FormsOthersKeep ==
    ASSUME Form!FormsAssumption, FormsIInv,
           \/ Form!Delete \/ Form!PageBeforeRemove \/ Form!Reload
           \/ \E t \in Text \cup {Empty} : Form!Type(t)
           \/ \E v \in Form!Values : Form!Fill(Form!FormToJSON(v))
    PROVE  FormsIInv'
<1>1. w \in FormsFormState /\ w.values \in Form!Values /\ FormsChosen(w.default, w.values)
  BY DEF FormsIInv, FormsFormState
<1>2. CASE Form!Delete
  <2>1. w' = [w EXCEPT !.memory = {}, !.local = {}, !.kept = {}, !.fresh = FALSE]
    BY <1>1, <1>2 DEF Form!Delete, Form!FormDeleteData, FormsFormState
  <2> QED
    BY <1>1, <2>1 DEF FormsIInv, FormsFormState, FormsStored, FormsFresh, FormsChosen
<1>3. CASE Form!PageBeforeRemove \/ Form!Reload
  <2>1. /\ w' \in FormsFormState /\ w'.default = w.default /\ w'.ajax = w.ajax
        /\ w'.values = w.values /\ w'.kept = w.kept /\ w'.local = w.local
        /\ w'.memory \subseteq w.memory /\ w'.sent = w.sent /\ w'.fresh = FALSE
    <3>1. CASE Form!PageBeforeRemove
      BY <1>1, <3>1 DEF Form!PageBeforeRemove, FormsFormState
    <3>2. CASE Form!Reload
      BY <1>1, <3>2 DEF Form!Reload, FormsFormState
    <3> QED
      BY <1>3, <3>1, <3>2
  <2>2. FormsStored'
    BY <2>1 DEF FormsIInv, FormsStored
  <2>3. FormsFresh'
    BY <2>1 DEF FormsFresh
  <2> QED
    BY <1>1, <2>1, <2>2, <2>3 DEF FormsIInv
<1>4. ASSUME NEW u \in Form!Values, FormsChosen(w.default, u),
             w' = [w EXCEPT !.values = u, !.fresh = FALSE]
      PROVE  FormsIInv'
  <2>1. /\ w' \in FormsFormState /\ w'.default = w.default /\ w'.ajax = w.ajax /\ w'.values = u
        /\ w'.kept = w.kept /\ w'.local = w.local /\ w'.memory = w.memory
        /\ w'.sent = w.sent /\ w'.fresh = FALSE
    BY <1>1, <1>4 DEF FormsFormState
  <2>2. FormsStored'
    BY <2>1 DEF FormsIInv, FormsStored
  <2>3. FormsFresh'
    BY <2>1 DEF FormsFresh
  <2> QED
    BY <1>4, <2>1, <2>2, <2>3 DEF FormsIInv
<1>5. ASSUME NEW t \in Text \cup {Empty}, Form!Type(t) PROVE FormsIInv'
  <2>1. [w.values EXCEPT !.text = t] \in Form!Values
        /\ FormsChosen(w.default, [w.values EXCEPT !.text = t])
    BY <1>1 DEF Form!Values, FormsChosen
  <2>2. w' = [w EXCEPT !.values = [w.values EXCEPT !.text = t], !.fresh = FALSE]
    BY <1>1, <1>5 DEF Form!Type
  <2> QED
    BY <1>4, <2>1, <2>2
<1>6. ASSUME NEW v \in Form!Values, Form!Fill(Form!FormToJSON(v)) PROVE FormsIInv'
  BY <1>1, <1>4, <1>6, FormsFillKeepsChoice DEF Form!Fill
<1> QED
  BY <1>2, <1>3, <1>5, <1>6

LEMMA FormsStepIInv == Form!FormsAssumption /\ FormsIInv /\ [Form!Next]_w => FormsIInv'
<1> SUFFICES ASSUME Form!FormsAssumption, FormsIInv, [Form!Next]_w PROVE FormsIInv'
  OBVIOUS
<1>1. w \in FormsFormState /\ w.values \in Form!Values /\ FormsChosen(w.default, w.values)
  BY DEF FormsIInv, FormsFormState
<1>2. CASE Form!InitFormsStorage
  BY <1>2, FormsBuildKeeps
<1>3. CASE Form!Submit
  <2>1. [w EXCEPT !.values = w.values] = w
    BY <1>1 DEF FormsFormState
  <2> QED
    BY <1>1, <1>3, <2>1, FormsStoreKeeps DEF Form!Submit
<1>4. ASSUME NEW v \in Form!Values, Form!Change(v) PROVE FormsIInv'
  <2>1. FormsChosen(w.default, v)
    BY <1>1, <1>4 DEF Form!Change, FormsChosen
  <2> QED
    BY <1>4, <2>1, FormsStoreKeeps DEF Form!Change
<1>5. CASE \/ Form!Delete \/ Form!PageBeforeRemove \/ Form!Reload
           \/ \E t \in Text \cup {Empty} : Form!Type(t)
           \/ \E v \in Form!Values : Form!Fill(Form!FormToJSON(v))
  BY <1>5, FormsOthersKeep
<1>6. CASE UNCHANGED w
  BY <1>6 DEF FormsIInv, FormsStored, FormsFresh, FormsChosen
<1> QED
  BY <1>2, <1>3, <1>4, <1>5, <1>6 DEF Form!Next

LEMMA FormsFormKeptFollows == FormsIInv => Form!FormKept
<1> SUFFICES ASSUME FormsIInv PROVE Form!FormKept
  OBVIOUS
<1> DEFINE was == IF w.kept = {} THEN w.default ELSE CHOOSE v \in w.kept : TRUE
<1>1. w.default \in Form!Values /\ \A v \in w.kept : v \in Form!Values
  BY DEF FormsIInv, FormsFormState
<1>2. was \in Form!Values
  BY <1>1
<1>3. w.kept = {} => FormsShown(w.default, was) = w.default
  BY <1>1, <1>2 DEF FormsShown, Form!Values
<1>4. w.fresh => w.values = FormsShown(w.default, was)
  BY <1>3 DEF FormsIInv, FormsFresh
<1>5. w.ajax = "change" /\ w.local # {} => w.sent = w.local
  BY DEF FormsIInv, FormsStored
<1> QED
  BY <1>4, <1>5 DEF Form!FormKept, FormsShown

-----------------------------------------------------------------------------
(* OrderList: the orders up to the last one are shown, calls ask for those after it. *)
OrdersCall == [tab : Tab, from : 0 .. MaxRows, stale : BOOLEAN]

OrdersState ==
    [tab : Tab, last : 0 .. MaxRows, loading : BOOLEAN, timer : BOOLEAN, calls : Seq(OrdersCall),
     shown : SUBSET (Tab \X (1 .. MaxRows)), spinner : BOOLEAN, away : BOOLEAN, astray : BOOLEAN]

\* The orders up to m are shown, and every call of this tab asks for some from
\* among them or right after on.
OrdersUpTo(s, m) ==
    /\ s.shown = {s.tab} \X (1 .. m)
    /\ \A n \in DOMAIN s.calls : ~s.calls[n].stale => s.calls[n].tab = s.tab /\ s.calls[n].from <= m

OrdersGood(s) ==
    /\ s \in OrdersState
    /\ s.spinner => s.calls # <<>>
    /\ ~s.astray => \E m \in s.last .. MaxRows : OrdersUpTo(s, m)

OrdersIInv == OrdersGood(w)

-----------------------------------------------------------------------------
\* What is left of a sequence without one of its elements.
LEMMA OrdersWithoutOne ==
    ASSUME NEW S, NEW q \in Seq(S), NEW n \in DOMAIN q
    PROVE  LET r == SubSeq(q, 1, n - 1) \o SubSeq(q, n + 1, Len(q))
           IN  r \in Seq(S) /\ \A i \in DOMAIN r : \E j \in DOMAIN q : r[i] = q[j]
<1> DEFINE a == SubSeq(q, 1, n - 1)
           b == SubSeq(q, n + 1, Len(q))
           m == Len(q)
<1>1. m \in Nat /\ n \in 1 .. m /\ DOMAIN q = 1 .. m
  OBVIOUS
<1>2. a \in Seq(S) /\ Len(a) = n - 1
  BY <1>1
<1>3. \A i \in 1 .. n - 1 : a[i] = q[i]
  BY <1>1
<1>4. b \in Seq(S) /\ Len(b) = m - n
  BY <1>1
<1>5. \A i \in 1 .. m - n : b[i] = q[n + i]
  <2>1. \A i \in 1 .. m - n : n + 1 + i - 1 = n + i
    BY <1>1
  <2> QED
    BY <1>1, <2>1
<1> HIDE DEF a, b, m
<1>7. a \o b \in Seq(S) /\ DOMAIN (a \o b) = 1 .. m - 1
  <2>1. a \o b \in Seq(S) /\ Len(a \o b) = Len(a) + Len(b)
    BY <1>2, <1>4, ConcatProperties
  <2>2. Len(a) + Len(b) = m - 1
    BY <1>1, <1>2, <1>4
  <2> QED
    BY <2>1, <2>2
<1>8. ASSUME NEW i \in 1 .. m - 1 PROVE \E j \in DOMAIN q : (a \o b)[i] = q[j]
  <2>1. i \in 1 .. Len(a) + Len(b)
    BY <1>1, <1>2, <1>4
  <2>2. (a \o b)[i] = IF i <= Len(a) THEN a[i] ELSE b[i - Len(a)]
    BY <1>2, <1>4, <2>1, ConcatProperties
  <2>3. CASE i <= Len(a)
    <3>1. i \in 1 .. n - 1 /\ i \in 1 .. m
      BY <1>1, <1>2, <2>3
    <3> QED
      BY <1>1, <1>3, <2>2, <2>3, <3>1
  <2>4. CASE ~(i <= Len(a))
    <3>1. i - Len(a) \in 1 .. m - n /\ n + (i - Len(a)) \in 1 .. m
      BY <1>1, <1>2, <2>4
    <3> QED
      BY <1>1, <1>5, <2>2, <2>4, <3>1
  <2> QED
    BY <2>3, <2>4
<1> QED
  BY <1>7, <1>8 DEF a, b

LEMMA OrdersCallsBut ==
    ASSUME w.calls \in Seq(OrdersCall), NEW n \in DOMAIN w.calls
    PROVE  /\ Order!CallsBut(n) \in Seq(OrdersCall)
           /\ \A i \in DOMAIN Order!CallsBut(n) :
                 \E j \in DOMAIN w.calls : Order!CallsBut(n)[i] = w.calls[j]
  BY OrdersWithoutOne DEF Order!CallsBut

\* One more call: hjloaddata asks from the last date on.
LEMMA OrdersLoadData ==
    ASSUME NEW s, s \in OrdersState, ~s.astray => \E m \in s.last .. MaxRows : OrdersUpTo(s, m)
    PROVE  OrdersGood(Order!LoadData(s))
<1> DEFINE c == [tab |-> s.tab, from |-> s.last, stale |-> FALSE]
           r == [s EXCEPT !.spinner = TRUE, !.calls = Append(@, c)]
<1>1. c \in OrdersCall /\ s.calls \in Seq(OrdersCall)
  BY DEF OrdersCall, OrdersState
<1>2. c.tab = s.tab /\ c.from = s.last
  OBVIOUS
<1> HIDE DEF c
<1>3. Append(s.calls, c) \in Seq(OrdersCall) /\ Append(s.calls, c) # <<>>
  BY <1>1
<1>4. /\ r \in OrdersState /\ r.calls = Append(s.calls, c) /\ r.astray = s.astray /\ r.last = s.last
      /\ r.shown = s.shown /\ r.tab = s.tab
  BY <1>3 DEF OrdersState
<1>5. Order!LoadData(s) = r
  BY DEF Order!LoadData, c
<1> HIDE DEF r
<1>6. ASSUME NEW m \in s.last .. MaxRows, OrdersUpTo(s, m) PROVE OrdersUpTo(r, m)
  <2>1. ASSUME NEW n \in DOMAIN r.calls, ~r.calls[n].stale
        PROVE  r.calls[n].tab = r.tab /\ r.calls[n].from <= m
    <3>1. CASE n \in DOMAIN s.calls
      BY <1>1, <1>4, <1>6, <2>1, <3>1 DEF OrdersUpTo
    <3>2. CASE n \notin DOMAIN s.calls
      <4>1. r.calls[n] = c
        BY <1>1, <1>4, <2>1, <3>2
      <4>2. s.last <= m
        BY DEF OrdersState
      <4> QED
        BY <1>2, <1>4, <4>1, <4>2
    <3> QED
      BY <3>1, <3>2
  <2> QED
    BY <1>4, <1>6, <2>1 DEF OrdersUpTo
<1> QED
  BY <1>3, <1>4, <1>5, <1>6 DEF OrdersGood

LEMMA OrdersInitIInv == Order!Init => OrdersIInv
<1> SUFFICES ASSUME Order!Init PROVE OrdersGood(w)
  BY DEF OrdersIInv
<1>1. PICK t \in Tab :
          w = Order!LoadData([tab |-> t, last |-> 0, loading |-> FALSE, timer |-> FALSE,
                              calls |-> <<>>, shown |-> {}, spinner |-> FALSE, away |-> FALSE,
                              astray |-> FALSE])
  BY DEF Order!Init
<1> DEFINE s == [tab |-> t, last |-> 0, loading |-> FALSE, timer |-> FALSE,
                 calls |-> <<>>, shown |-> {}, spinner |-> FALSE, away |-> FALSE,
                 astray |-> FALSE]
<1>2. MaxRows \in Nat /\ 0 \in 0 .. MaxRows
  BY DocumentPartsAssumption DEF Order!OrderListAssumption
<1>3. s \in OrdersState
  BY <1>2 DEF OrdersState
<1>4. OrdersUpTo(s, 0)
  BY DEF OrdersUpTo
<1>5. s.last = 0
  OBVIOUS
<1> HIDE DEF s
<1>6. OrdersGood(Order!LoadData(s))
  BY <1>2, <1>3, <1>4, <1>5, OrdersLoadData
<1> QED
  BY <1>1, <1>6 DEF s

\* An answer: what it brings follows what is shown, or goes astray.
LEMMA OrdersAnswer ==
    ASSUME OrdersGood(w), NEW n \in DOMAIN w.calls, Order!Answer(n)
    PROVE  OrdersGood(w')
<1> DEFINE c == w.calls[n]
           top == c.from + PerAnswer + (IF c.from = 0 THEN 1 ELSE 0)
           rows == {r \in 1 .. MaxRows : c.from <= r /\ r < top}
           calls == Order!CallsBut(n)
           last == IF rows = {} THEN w.last ELSE CHOOSE r \in rows : \A q \in rows : q <= r
           shown == IF w.away THEN w.shown ELSE w.shown \cup ({c.tab} \X rows)
           astray == w.astray \/ w.away \/ c.stale
<1>1. w' = [w EXCEPT !.calls = calls, !.spinner = FALSE, !.last = last, !.shown = shown,
                     !.astray = astray]
  BY DEF Order!Answer
<1>2. w \in OrdersState /\ MaxRows \in Nat /\ PerAnswer \in Nat
  BY DocumentPartsAssumption DEF OrdersGood, Order!OrderListAssumption
<1>3. w.calls \in Seq(OrdersCall) /\ c \in OrdersCall
  BY <1>2 DEF OrdersState
<1>4. c.from \in 0 .. MaxRows /\ c.tab \in Tab /\ c.stale \in BOOLEAN /\ top \in Nat
  BY <1>2, <1>3 DEF OrdersCall
<1>5. calls \in Seq(OrdersCall) /\ \A i \in DOMAIN calls : \E j \in DOMAIN w.calls : calls[i] = w.calls[j]
  BY <1>3, OrdersCallsBut
<1>6. rows # {} => last \in rows /\ \A q \in 1 .. MaxRows : q \in rows <=> c.from <= q /\ q <= last
  <2> DEFINE m == CHOOSE r \in rows : \A q \in rows : q <= r
             max == IF top - 1 <= MaxRows THEN top - 1 ELSE MaxRows
  <2> HIDE DEF c, top
  <2>1. SUFFICES ASSUME NEW r \in rows PROVE m \in rows /\ \A q \in 1 .. MaxRows : q \in rows <=> c.from <= q /\ q <= m
    OBVIOUS
  <2>2. r \in 1 .. MaxRows /\ c.from <= r /\ r < top
    OBVIOUS
  <2>3. max \in rows /\ \A q \in rows : q <= max
    BY <1>2, <1>4, <2>2
  <2> HIDE DEF max
  <2>4. m \in rows /\ \A q \in rows : q <= m
    BY <2>3
  <2> HIDE DEF m
  <2>5. ASSUME NEW q \in 1 .. MaxRows PROVE q \in rows <=> c.from <= q /\ q <= m
    BY <1>2, <1>4, <2>4
  <2> QED
    BY <2>4, <2>5
<1>7. rows = {} => last = w.last
  OBVIOUS
<1>8. rows \subseteq 1 .. MaxRows /\ w.last \in 0 .. MaxRows
  BY <1>2 DEF OrdersState
<1> HIDE DEF c, top, rows, calls, last
<1>9. last \in 0 .. MaxRows
  <2>1. CASE rows = {}
    BY <1>7, <1>8, <2>1
  <2>2. CASE rows # {}
    <3>1. last \in 1 .. MaxRows
      BY <1>6, <1>8, <2>2
    <3> QED
      BY <1>2, <3>1
  <2> QED
    BY <2>1, <2>2
<1>10. shown \in SUBSET (Tab \X (1 .. MaxRows)) /\ astray \in BOOLEAN
  BY <1>2, <1>4, <1>8 DEF OrdersState
<1>11. w' \in OrdersState
  <2> HIDE DEF shown, astray
  <2> QED
    BY <1>1, <1>2, <1>5, <1>9, <1>10 DEF OrdersState
<1>12. /\ w'.calls = calls /\ w'.last = last /\ w'.shown = shown /\ w'.astray = astray
       /\ ~w'.spinner
       /\ w'.tab = w.tab
  <2> HIDE DEF shown, astray
  <2> QED
    BY <1>1, <1>2 DEF OrdersState
<1>13. ASSUME ~astray PROVE \E m \in last .. MaxRows : OrdersUpTo(w', m)
  <2>1. ~w.astray /\ ~w.away /\ ~c.stale
    BY <1>13
  <2>2. PICK m \in w.last .. MaxRows : OrdersUpTo(w, m)
    BY <2>1 DEF OrdersGood
  <2>3. c.tab = w.tab /\ c.from <= m
    BY <2>1, <2>2 DEF OrdersUpTo, c
  <2>4. m \in 0 .. MaxRows /\ w.last <= m
    BY <1>8, <2>2
  <2>5. w'.shown = {w.tab} \X ((1 .. m) \cup rows)
    BY <1>12, <2>1, <2>2, <2>3 DEF OrdersUpTo
  <2>6. ASSUME NEW k \in last .. MaxRows, m <= k, (1 .. m) \cup rows = 1 .. k
        PROVE  OrdersUpTo(w', k)
    <3>1. ASSUME NEW i \in DOMAIN calls, ~calls[i].stale
          PROVE  calls[i].tab = w.tab /\ calls[i].from <= k
      <4>1. PICK j \in DOMAIN w.calls : calls[i] = w.calls[j]
        BY <1>5, <3>1
      <4>2. w.calls[j] \in OrdersCall
        BY <1>3
      <4>3. calls[i].tab = w.tab /\ calls[i].from <= m /\ calls[i].from \in 0 .. MaxRows
        BY <2>2, <3>1, <4>1, <4>2 DEF OrdersUpTo, OrdersCall
      <4>4. k \in Int
        BY <1>9, <2>6
      <4> QED
        BY <2>4, <2>6, <4>3, <4>4
    <3> QED
      BY <1>12, <2>5, <2>6, <3>1 DEF OrdersUpTo
  <2>7. CASE rows = {}
    BY <1>7, <2>2, <2>4, <2>6, <2>7
  <2>8. CASE rows # {} /\ last <= m
    <3>1. rows \subseteq 1 .. m
      <4> SUFFICES ASSUME NEW q \in rows PROVE q \in 1 .. m
        OBVIOUS
      <4>1. q \in 1 .. MaxRows /\ q <= last
        BY <1>6, <1>8, <2>8
      <4> QED
        BY <1>2, <1>9, <2>4, <2>8, <4>1
    <3>2. (1 .. m) \cup rows = 1 .. m
      BY <3>1
    <3>3. m \in last .. MaxRows
      BY <1>2, <1>9, <2>4, <2>8
    <3> QED
      BY <1>9, <2>4, <2>6, <3>2, <3>3
  <2>9. CASE rows # {} /\ last > m
    <3>1. ASSUME NEW q PROVE q \in (1 .. m) \cup rows <=> q \in 1 .. last
      <4>1. ASSUME q \in rows PROVE q \in 1 .. last
        <5>1. q \in 1 .. MaxRows /\ q <= last
          BY <1>6, <1>8, <2>9, <4>1
        <5> QED
          BY <1>2, <1>9, <5>1
      <4>2. ASSUME q \in 1 .. m PROVE q \in 1 .. last
        BY <1>2, <1>9, <2>4, <2>9, <4>2
      <4>3. ASSUME q \in 1 .. last, q \notin 1 .. m PROVE q \in rows
        <5>1. q \in 1 .. MaxRows /\ c.from <= q /\ q <= last
          BY <1>2, <1>4, <1>9, <2>3, <2>4, <4>3
        <5> QED
          BY <1>6, <2>9, <5>1
      <4> QED
        BY <4>1, <4>2, <4>3
    <3>2. (1 .. m) \cup rows = 1 .. last
      BY <3>1
    <3> QED
      BY <1>9, <2>4, <2>6, <2>9, <3>2
  <2> QED
    BY <1>9, <2>4, <2>7, <2>8, <2>9
<1> QED
  BY <1>11, <1>12, <1>13 DEF OrdersGood

LEMMA OrdersFail ==
    ASSUME OrdersGood(w), NEW n \in DOMAIN w.calls, Order!Fail(n)
    PROVE  OrdersGood(w')
<1> DEFINE calls == Order!CallsBut(n)
<1>1. w' = [w EXCEPT !.calls = calls, !.spinner = FALSE] /\ w \in OrdersState
  BY DEF Order!Fail, OrdersGood
<1>2. calls \in Seq(OrdersCall) /\ \A i \in DOMAIN calls : \E j \in DOMAIN w.calls : calls[i] = w.calls[j]
  BY <1>1, OrdersCallsBut DEF OrdersState
<1> HIDE DEF calls
<1>3. w' \in OrdersState
  BY <1>1, <1>2 DEF OrdersState
<1>4. /\ w'.calls = calls /\ w'.last = w.last /\ w'.shown = w.shown /\ w'.astray = w.astray
      /\ ~w'.spinner /\ w'.tab = w.tab
  BY <1>1 DEF OrdersState
<1>5. ASSUME NEW m, OrdersUpTo(w, m) PROVE OrdersUpTo(w', m)
  <2>1. ASSUME NEW i \in DOMAIN calls, ~calls[i].stale
        PROVE  calls[i].tab = w.tab /\ calls[i].from <= m
    <3>1. PICK j \in DOMAIN w.calls : calls[i] = w.calls[j]
      BY <1>2, <2>1
    <3> QED
      BY <1>5, <2>1, <3>1 DEF OrdersUpTo
  <2> QED
    BY <1>4, <1>5, <2>1 DEF OrdersUpTo
<1> QED
  BY <1>3, <1>4, <1>5 DEF OrdersGood

\* Another tab: what is under way is stale from then on.
LEMMA OrdersTapTab == ASSUME OrdersGood(w), NEW t \in Tab, Order!TapTab(t) PROVE OrdersGood(w')
<1> DEFINE calls == [n \in DOMAIN w.calls |-> [w.calls[n] EXCEPT !.stale = TRUE]]
           s == [w EXCEPT !.tab = t, !.shown = {}, !.astray = FALSE, !.last = 0, !.calls = calls]
<1>1. w \in OrdersState /\ w.calls \in Seq(OrdersCall) /\ MaxRows \in Nat /\ 0 \in 0 .. MaxRows
  BY DocumentPartsAssumption DEF OrdersGood, OrdersState, Order!OrderListAssumption
<1>2. ASSUME NEW n \in DOMAIN w.calls PROVE calls[n] \in OrdersCall /\ calls[n].stale
  <2>1. w.calls[n] \in OrdersCall
    BY <1>1
  <2> QED
    BY <2>1 DEF OrdersCall
<1>3. calls \in Seq(OrdersCall) /\ \A n \in DOMAIN calls : calls[n].stale
  <2>1. DOMAIN calls = 1 .. Len(w.calls) /\ Len(w.calls) \in Nat
    BY <1>1
  <2>2. calls \in [1 .. Len(w.calls) -> OrdersCall]
    <3>1. \A n \in DOMAIN w.calls : [w.calls[n] EXCEPT !.stale = TRUE] \in OrdersCall
      BY <1>2
    <3> QED
      BY <2>1, <3>1
  <2> HIDE DEF calls
  <2> QED
    BY <1>2, <2>1, <2>2, IsASeq
<1>4. w' = Order!LoadData(s)
  BY DEF Order!TapTab, Order!ShowTab
<1> HIDE DEF calls
<1>5. s \in OrdersState /\ s.shown = {} /\ s.last = 0 /\ s.calls = calls
  BY <1>1, <1>3 DEF OrdersState
<1> HIDE DEF s
<1>6. OrdersUpTo(s, 0)
  BY <1>3, <1>5 DEF OrdersUpTo
<1> QED
  BY <1>1, <1>4, <1>5, <1>6, OrdersLoadData

LEMMA OrdersOthers ==
    ASSUME OrdersGood(w), Order!Infinite \/ Order!Timer \/ Order!ShowList \/ Order!Back
    PROVE  OrdersGood(w')
<1>1. w \in OrdersState
  BY DEF OrdersGood
<1>2. CASE Order!Timer
  <2> DEFINE s == [w EXCEPT !.timer = FALSE, !.loading = FALSE]
  <2>1. w' = Order!LoadData(s)
    BY <1>2 DEF Order!Timer
  <2>2. /\ s \in OrdersState /\ s.calls = w.calls /\ s.last = w.last /\ s.shown = w.shown
        /\ s.astray = w.astray /\ s.tab = w.tab
    BY <1>1 DEF OrdersState
  <2> HIDE DEF s
  <2>3. \A m : OrdersUpTo(w, m) => OrdersUpTo(s, m)
    BY <2>2 DEF OrdersUpTo
  <2> QED
    BY <2>1, <2>2, <2>3, OrdersLoadData DEF OrdersGood
<1>3. CASE Order!Infinite \/ Order!ShowList \/ Order!Back
  <2>1. /\ w' \in OrdersState /\ w'.calls = w.calls /\ w'.last = w.last /\ w'.shown = w.shown
        /\ w'.astray = w.astray /\ w'.tab = w.tab /\ w'.spinner = w.spinner
    BY <1>1, <1>3 DEF OrdersState, Order!Infinite, Order!ShowList, Order!Back
  <2>2. \A m : OrdersUpTo(w, m) => OrdersUpTo(w', m)
    BY <2>1 DEF OrdersUpTo
  <2> QED
    BY <2>1, <2>2 DEF OrdersGood
<1> QED
  BY <1>2, <1>3

LEMMA OrdersStepIInv == OrdersIInv /\ [Order!Next]_w => OrdersIInv'
<1> SUFFICES ASSUME OrdersGood(w), [Order!Next]_w PROVE OrdersGood(w')
  BY DEF OrdersIInv
<1>1. CASE UNCHANGED w
  BY <1>1
<1> QED
  BY <1>1, OrdersAnswer, OrdersFail, OrdersTapTab, OrdersOthers DEF Order!Next

LEMMA OrdersCompleteFollows == OrdersIInv => Order!ListComplete
  BY DEF OrdersIInv, OrdersGood, OrdersUpTo, Order!ListComplete

-----------------------------------------------------------------------------
(* PullToRefresh: what the finger and the refresh have left marked. *)
PullsState ==
    [js : BOOLEAN, touch : {"none", "touched", "moved"}, refresh : BOOLEAN, pulled : BOOLEAN,
     mark : {"none", "pull-up", "pull-down"}, refreshing : BOOLEAN, moving : BOOLEAN,
     waits : BOOLEAN, running : Nat, removing : BOOLEAN, locked : BOOLEAN, twice : BOOLEAN]

\* With the JavaScript scroller no finger pulls, and refreshes do not overlap.
PullsScroller(s) ==
    s.js => /\ s.touch = "none" /\ s.running <= 1
            /\ s.refreshing <=> s.running > 0 \/ s.removing
            /\ s.running > 0 => ~s.removing

\* Without it a mark outlives the finger only until the refresh is done and
\* the transition, for whose end pullToRefreshDone waits, is over.
PullsNative(s) ==
    ~s.js => /\ ~s.removing
             /\ s.refreshing => s.running > 0
             /\ ~s.twice => s.running <= 1 /\ (s.running > 0 => s.refreshing)
             /\ s.touch # "moved" => ~s.pulled
             /\ s.touch = "moved" /\ s.mark = "pull-up" => s.refresh
             /\ s.touch # "moved" /\ s.mark # "none" => s.refreshing \/ (s.moving /\ s.waits)

PullsGood(s) == s \in PullsState /\ PullsScroller(s) /\ PullsNative(s)

PullsIInv == PullsGood(w)

-----------------------------------------------------------------------------
\* What a move of the finger and a refresh that begins make of a state.
LEMMA PullsMoved ==
    ASSUME NEW s \in PullsState, NEW refresh \in BOOLEAN, NEW pulled \in BOOLEAN,
           NEW moving \in BOOLEAN, NEW mark \in {"none", "pull-up", "pull-down"}
    PROVE  [s EXCEPT !.touch = "moved", !.refresh = refresh, !.pulled = pulled,
                     !.moving = moving, !.mark = mark] \in PullsState
  BY DEF PullsState

LEMMA PullsTriggered ==
    ASSUME NEW s \in PullsState, NEW twice \in BOOLEAN
    PROVE  [s EXCEPT !.refreshing = TRUE, !.running = @ + 1, !.twice = twice] \in PullsState
<1>1. s.running + 1 \in Nat
  BY DEF PullsState
<1> QED
  BY <1>1 DEF PullsState

LEMMA PullsInitIInv == Pull!Init => PullsIInv
<1> SUFFICES ASSUME NEW js \in BOOLEAN,
                    w = [js         |-> js,
                         touch      |-> "none",
                         refresh    |-> FALSE,
                         pulled     |-> FALSE,
                         mark       |-> "none",
                         refreshing |-> FALSE,
                         moving     |-> FALSE,
                         waits      |-> FALSE,
                         running    |-> 0,
                         removing   |-> FALSE,
                         locked     |-> FALSE,
                         twice      |-> FALSE]
             PROVE  PullsGood(w)
  BY DEF Pull!Init, PullsIInv
<1> QED
  BY DEF PullsGood, PullsState, PullsScroller, PullsNative

\* The finger, without the JavaScript scroller.
LEMMA PullsFinger ==
    ASSUME PullsGood(w), \/ Pull!TouchStart \/ Pull!TouchDrop \/ Pull!TouchEnd
                         \/ \E way \in {"far", "near", "up"} : Pull!TouchMove(way)
    PROVE  PullsGood(w')
<1>1. w \in PullsState /\ ~w.js
  BY DEF PullsGood, PullsScroller, PullsState, Pull!TouchStart, Pull!TouchDrop, Pull!TouchEnd,
     Pull!TouchMove
<1>2. CASE Pull!TouchStart
  BY <1>1, <1>2 DEF PullsGood, PullsState, PullsScroller, PullsNative, Pull!TouchStart
<1>3. CASE Pull!TouchDrop
  BY <1>1, <1>3 DEF PullsGood, PullsState, PullsScroller, PullsNative, Pull!TouchDrop
<1>4. ASSUME NEW way \in {"far", "near", "up"}, Pull!TouchMove(way) PROVE PullsGood(w')
  <2> DEFINE mark == CASE way = "far"  -> "pull-up"
                       [] way = "near" -> "pull-down"
                       [] way = "up"   -> "none"
             refresh == way = "far"
             pulled == w.pulled \/ way # "up"
             moving == w.moving /\ way = "up"
  <2>1. w' = [w EXCEPT !.touch = "moved", !.refresh = refresh, !.pulled = pulled,
                       !.moving = moving, !.mark = mark]
    BY <1>4 DEF Pull!TouchMove
  <2>2. /\ mark \in {"none", "pull-up", "pull-down"} /\ refresh \in BOOLEAN /\ pulled \in BOOLEAN
        /\ moving \in BOOLEAN /\ (mark = "pull-up" => refresh)
    OBVIOUS
  <2> HIDE DEF mark, refresh, pulled, moving
  <2>3. w' \in PullsState
    BY <1>1, <2>1, <2>2, PullsMoved
  <2>4. /\ w'.touch = "moved" /\ w'.mark = mark /\ w'.refresh = refresh /\ w'.js = w.js
        /\ w'.removing = w.removing /\ w'.refreshing = w.refreshing /\ w'.twice = w.twice
        /\ w'.running = w.running
    BY <1>1, <2>1 DEF PullsState
  <2> QED
    BY <1>1, <2>2, <2>3, <2>4 DEF PullsGood, PullsScroller, PullsNative
<1>5. CASE Pull!TouchEnd
  <2> DEFINE moving == w.moving \/ w.pulled
             s == [w EXCEPT !.touch = "none", !.pulled = FALSE, !.moving = moving]
  <2>1. moving \in BOOLEAN
    BY <1>1 DEF PullsState
  <2>2. w' = IF w.touch = "touched" THEN [w EXCEPT !.touch = "none"]
             ELSE IF w.refresh THEN Pull!Trigger(s)
             ELSE [s EXCEPT !.mark = IF @ = "pull-down" THEN "none" ELSE @]
    BY <1>5 DEF Pull!TouchEnd
  <2>3. CASE w.touch = "touched"
    BY <1>1, <2>2, <2>3 DEF PullsGood, PullsState, PullsScroller, PullsNative
  <2> HIDE DEF moving
  <2>4. /\ s \in PullsState /\ s.touch = "none" /\ ~s.pulled /\ s.mark = w.mark /\ s.js = w.js
        /\ s.running = w.running /\ s.refreshing = w.refreshing /\ s.twice = w.twice
        /\ s.removing = w.removing
    BY <1>1, <2>1 DEF PullsState
  <2> HIDE DEF s
  <2>5. CASE w.touch = "moved" /\ w.refresh
    <3>1. w' = Pull!Trigger(s)
      BY <2>2, <2>5
    <3> DEFINE twice == s.twice \/ s.running > 0
    <3>2. twice \in BOOLEAN
      BY <2>4 DEF PullsState
    <3>3. w' = [s EXCEPT !.refreshing = TRUE, !.running = @ + 1, !.twice = twice]
      BY <3>1 DEF Pull!Trigger
    <3>4. ~twice => s.running = 0
      BY <2>4 DEF PullsState
    <3> HIDE DEF twice
    <3>5. w' \in PullsState
      BY <2>4, <3>2, <3>3, PullsTriggered
    <3>6. /\ w'.touch = "none" /\ ~w'.pulled /\ w'.js = w.js /\ w'.removing = w.removing
          /\ w'.refreshing /\ w'.twice = twice /\ w'.running = w.running + 1
      BY <1>1, <2>4, <3>3 DEF PullsState
    <3>7. w.running \in Nat
      BY <1>1 DEF PullsState
    <3> QED
      BY <1>1, <2>4, <3>4, <3>5, <3>6, <3>7 DEF PullsGood, PullsScroller, PullsNative
  <2>6. CASE w.touch = "moved" /\ ~w.refresh
    <3> DEFINE mark == IF s.mark = "pull-down" THEN "none" ELSE s.mark
    <3>1. mark = "none"
      BY <1>1, <2>4, <2>6 DEF PullsGood, PullsNative, PullsState
    <3>2. w' = [s EXCEPT !.mark = "none"]
      BY <2>2, <2>6, <3>1
    <3> QED
      BY <1>1, <2>4, <2>6, <3>2 DEF PullsGood, PullsState, PullsScroller, PullsNative
  <2> QED
    BY <1>5, <1>1, <2>3, <2>5, <2>6 DEF Pull!TouchEnd, PullsState
<1> QED
  BY <1>2, <1>3, <1>4, <1>5

\* A refresh begins and ends.
LEMMA PullsRefresh ==
    ASSUME PullsGood(w), Pull!PullToRefreshTrigger \/ Pull!Done \/ Pull!Ptr \/ Pull!Timeout
    PROVE  PullsGood(w')
<1>1. w \in PullsState
  BY DEF PullsGood
<1>2. CASE Pull!PullToRefreshTrigger
  <2> DEFINE twice == w.twice \/ w.running > 0
             moving == w.moving \/ (~w.js /\ ~w.pulled)
  <2>1. twice \in BOOLEAN /\ moving \in BOOLEAN /\ (~twice => w.running = 0)
    BY <1>1 DEF PullsState
  <2> DEFINE s == [w EXCEPT !.refreshing = TRUE, !.running = @ + 1, !.twice = twice]
  <2>2. w' = [s EXCEPT !.moving = moving]
    BY <1>1, <1>2 DEF Pull!PullToRefreshTrigger, Pull!Trigger, PullsState
  <2>3. ~w.refreshing
    BY <1>2 DEF Pull!PullToRefreshTrigger
  <2> HIDE DEF twice, moving
  <2>4. w' \in PullsState
    <3>1. s \in PullsState
      BY <1>1, <2>1, PullsTriggered
    <3> HIDE DEF s
    <3> QED
      BY <2>1, <2>2, <3>1 DEF PullsState
  <2>5. /\ w'.touch = w.touch /\ w'.pulled = w.pulled /\ w'.js = w.js /\ w'.removing = w.removing
        /\ w'.refreshing /\ w'.twice = twice /\ w'.running = w.running + 1
        /\ w'.mark = w.mark /\ w'.refresh = w.refresh
    BY <1>1, <2>2 DEF PullsState
  <2>6. w.running \in Nat
    BY <1>1 DEF PullsState
  <2>7. PullsScroller(w')
    BY <2>1, <2>3, <2>5, <2>6 DEF PullsGood, PullsScroller
  <2>8. PullsNative(w')
    BY <2>1, <2>3, <2>5, <2>6 DEF PullsGood, PullsNative
  <2> QED
    BY <2>4, <2>7, <2>8 DEF PullsGood
<1>3. CASE Pull!Done
  <2>1. w.running > 0 /\ w.running - 1 \in Nat
    BY <1>1, <1>3 DEF Pull!Done, PullsState
  <2>2. CASE w.js
    <3>1. w' = [w EXCEPT !.running = @ - 1, !.removing = TRUE]
      BY <1>1, <1>3, <2>2 DEF Pull!Done, Pull!PullToRefreshDoneJS, PullsState
    <3>2. w' \in PullsState
      BY <1>1, <2>1, <3>1 DEF PullsState
    <3>3. /\ w'.touch = w.touch /\ w'.js = w.js /\ w'.removing /\ w'.refreshing = w.refreshing
          /\ w'.running = w.running - 1 /\ w.running \in Nat
      BY <1>1, <3>1 DEF PullsState
    <3> QED
      BY <2>1, <2>2, <3>2, <3>3 DEF PullsGood, PullsScroller, PullsNative
  <2>3. CASE ~w.js
    <3> DEFINE moving == w.moving \/ (w.refreshing /\ ~w.pulled)
    <3>1. moving \in BOOLEAN
      BY <1>1 DEF PullsState
    <3>2. w' = [w EXCEPT !.running = @ - 1, !.refreshing = FALSE, !.waits = TRUE, !.moving = moving]
      BY <1>1, <1>3, <2>3 DEF Pull!Done, Pull!PullToRefreshDone, PullsState
    <3>3. (w.refreshing /\ ~w.pulled => moving) /\ (w.moving => moving)
      OBVIOUS
    <3> HIDE DEF moving
    <3>4. w' \in PullsState
      BY <1>1, <2>1, <3>1, <3>2 DEF PullsState
    <3>5. /\ w'.touch = w.touch /\ w'.pulled = w.pulled /\ w'.js = w.js /\ w'.removing = w.removing
          /\ ~w'.refreshing /\ w'.twice = w.twice /\ w'.running = w.running - 1
          /\ w'.mark = w.mark /\ w'.refresh = w.refresh /\ w'.waits /\ w'.moving = moving
          /\ w.running \in Nat
      BY <1>1, <3>2 DEF PullsState
    <3> QED
      BY <2>1, <2>3, <3>3, <3>4, <3>5 DEF PullsGood, PullsScroller, PullsNative
  <2> QED
    BY <2>2, <2>3
<1>4. CASE Pull!Ptr
  <2>1. w.js
    BY <1>4 DEF Pull!Ptr
  <2>2. CASE w.refreshing
    BY <1>1, <1>4, <2>1, <2>2 DEF Pull!Ptr, PullsGood, PullsState, PullsScroller, PullsNative
  <2>3. CASE ~w.refreshing
    <3> DEFINE twice == w.twice \/ w.running > 0
    <3>1. twice \in BOOLEAN
      BY <1>1 DEF PullsState
    <3> DEFINE s == [w EXCEPT !.locked = TRUE, !.mark = "none"]
    <3>2. w' = [s EXCEPT !.refreshing = TRUE, !.running = @ + 1, !.twice = twice]
      BY <1>1, <1>4, <2>3 DEF Pull!Ptr, Pull!Trigger, PullsState
    <3> HIDE DEF twice
    <3>3. w' \in PullsState
      <4>1. s \in PullsState
        BY <1>1 DEF PullsState
      <4> HIDE DEF s
      <4> QED
        BY <3>1, <3>2, <4>1, PullsTriggered
    <3>4. /\ w'.touch = w.touch /\ w'.js = w.js /\ w'.removing = w.removing /\ w'.refreshing
          /\ w'.running = w.running + 1 /\ w.running \in Nat
      BY <1>1, <3>2 DEF PullsState
    <3> QED
      BY <2>1, <2>3, <3>3, <3>4 DEF PullsGood, PullsScroller, PullsNative
  <2> QED
    BY <2>2, <2>3
<1>5. CASE Pull!Timeout
  BY <1>1, <1>5 DEF Pull!Timeout, PullsGood, PullsState, PullsScroller, PullsNative
<1> QED
  BY <1>2, <1>3, <1>4, <1>5

LEMMA PullsOthers ==
    ASSUME PullsGood(w), \/ Pull!TransitionEnd \/ Pull!Unlock
                         \/ \E far \in BOOLEAN : Pull!Scroll(far)
    PROVE  PullsGood(w')
<1>1. w \in PullsState
  BY DEF PullsGood
<1>2. CASE Pull!TransitionEnd
  <2>1. w' \in PullsState
    BY <1>1, <1>2 DEF Pull!TransitionEnd, PullsState
  <2>2. /\ w'.touch = w.touch /\ w'.pulled = w.pulled /\ w'.js = w.js /\ w'.removing = w.removing
        /\ w'.refreshing = w.refreshing /\ w'.twice = w.twice /\ w'.running = w.running
        /\ w'.refresh = w.refresh /\ ((w'.mark = w.mark /\ ~w.waits) \/ w'.mark = "none")
    BY <1>1, <1>2 DEF Pull!TransitionEnd, PullsState
  <2> QED
    BY <2>1, <2>2 DEF PullsGood, PullsScroller, PullsNative
<1>3. CASE Pull!Unlock
  BY <1>1, <1>3 DEF Pull!Unlock, PullsGood, PullsState, PullsScroller, PullsNative
<1>4. ASSUME NEW far \in BOOLEAN, Pull!Scroll(far) PROVE PullsGood(w')
  BY <1>1, <1>4 DEF Pull!Scroll, PullsGood, PullsState, PullsScroller, PullsNative
<1> QED
  BY <1>2, <1>3, <1>4

LEMMA PullsStepIInv == PullsIInv /\ [Pull!Next]_w => PullsIInv'
<1> SUFFICES ASSUME PullsGood(w), [Pull!Next]_w PROVE PullsGood(w')
  BY DEF PullsIInv
<1>1. CASE UNCHANGED w
  BY <1>1
<1> QED
  BY <1>1, PullsFinger, PullsRefresh, PullsOthers DEF Pull!Next

LEMMA PullsSettlesFollows == PullsIInv => Pull!PullSettles
  BY DEF PullsIInv, PullsGood, PullsState, PullsScroller, PullsNative, Pull!PullSettles

-----------------------------------------------------------------------------
(* Searchbar: what the last search has left of the list. *)
SearchQuery == Query \cup {NoQuery}

SearchState ==
    [rows : SUBSET Entry, virtual : BOOLEAN, shown : SUBSET Entry, active : BOOLEAN,
     notEmpty : BOOLEAN, overlay : BOOLEAN, notFound : BOOLEAN, input : SearchQuery,
     previous : SearchQuery \cup {Never}, timer : BOOLEAN, astray : BOOLEAN, again : BOOLEAN]

\* While no timer runs the text of the input is what was searched for last, but
\* for an empty one before the first search and after a search that was cancelled.
SearchSettled(s) ==
    ~s.timer => s.previous = s.input \/ (s.input = NoQuery /\ s.previous = Never)

\* What the last search has left: the rows that match, and the message.
SearchFound(s) ==
    /\ s.previous = Never => s.shown = s.rows /\ ~s.notFound /\ ~s.astray
    /\ ~s.astray /\ s.previous # Never =>
           /\ s.shown = s.rows \cap Bar!Matches(s.previous)
           /\ s.notFound <=> s.shown = {} /\ ~(s.virtual /\ s.previous = NoQuery)
    /\ s.previous \in {Never, NoQuery} => s.shown = s.rows

\* How the bar looks.
SearchLook(s) ==
    /\ s.again => s.previous \in Query
    /\ ~s.again => /\ s.active /\ s.previous \in {Never, NoQuery} => (s.overlay <=> s.active)
                   /\ s.active /\ s.previous \in Query => ~s.overlay
                   /\ s.notEmpty <=> s.previous \in Query
    /\ ~s.active => ~s.overlay /\ s.input = NoQuery
    /\ s.previous \in Query /\ ~s.active => s.again

SearchGood(s) == s \in SearchState /\ SearchSettled(s) /\ SearchFound(s) /\ SearchLook(s)

SearchIInv == SearchGood(w)

-----------------------------------------------------------------------------
LEMMA SearchFiltered ==
    ASSUME NEW s \in SearchState, NEW found \in SUBSET Entry, NEW notFound \in BOOLEAN
    PROVE  [s EXCEPT !.shown = found, !.astray = FALSE, !.again = FALSE, !.notFound = notFound]
               \in SearchState
  BY DEF SearchState

LEMMA SearchOff ==
    ASSUME NEW s \in SearchState, NEW again \in BOOLEAN
    PROVE  [s EXCEPT !.overlay = FALSE, !.again = again, !.timer = TRUE] \in SearchState
  BY DEF SearchState

LEMMA SearchMatches ==
    \A x \in SearchQuery : Bar!Matches(x) \subseteq Entry /\ (x = NoQuery => Bar!Matches(x) = Entry)
  BY DocumentPartsAssumption DEF SearchQuery, Bar!Matches, Bar!SearchbarAssumption

LEMMA SearchNames == /\ NoQuery \notin Query /\ Never \notin Query /\ Never # NoQuery
                     /\ \A x \in SearchQuery : x \in Query <=> x # NoQuery
  BY DocumentPartsAssumption DEF SearchQuery, Bar!SearchbarAssumption

LEMMA SearchInitIInv == Bar!Init => SearchIInv
<1> SUFFICES ASSUME NEW rows \in SUBSET Entry, NEW virtual \in BOOLEAN,
                    w = [rows     |-> rows,
                         virtual  |-> virtual,
                         shown    |-> rows,
                         active   |-> FALSE,
                         notEmpty |-> FALSE,
                         overlay  |-> FALSE,
                         notFound |-> FALSE,
                         input    |-> NoQuery,
                         previous |-> Never,
                         timer    |-> FALSE,
                         astray   |-> FALSE,
                         again    |-> FALSE]
             PROVE  SearchGood(w)
  BY DEF Bar!Init, SearchIInv
<1>1. w \in SearchState
  BY DEF SearchState, SearchQuery
<1>2. SearchSettled(w) /\ SearchFound(w) /\ SearchLook(w)
  BY SearchNames DEF SearchSettled, SearchFound, SearchLook
<1> QED
  BY <1>1, <1>2 DEF SearchGood

\* enable
LEMMA SearchEnable ==
    ASSUME NEW s, s \in SearchState, SearchFound(s), SearchLook(s)
    PROVE  LET t == Bar!Enable(s)
           IN  /\ t \in SearchState /\ SearchFound(t) /\ SearchLook(t) /\ t.active
               /\ t.previous = s.previous /\ t.input = s.input /\ t.timer = s.timer
<1> DEFINE overlay == s.overlay \/ ~s.active
           t == [s EXCEPT !.overlay = overlay, !.active = TRUE]
<1>1. overlay \in BOOLEAN
  BY DEF SearchState
<1>2. t \in SearchState
  <2> HIDE DEF overlay
  <2> QED
    BY <1>1 DEF SearchState
<1>3. /\ t.overlay = overlay /\ t.active /\ t.previous = s.previous /\ t.input = s.input
      /\ t.timer = s.timer /\ t.notEmpty = s.notEmpty /\ t.again = s.again
      /\ t.shown = s.shown /\ t.rows = s.rows /\ t.notFound = s.notFound /\ t.astray = s.astray
      /\ t.virtual = s.virtual
  BY DEF SearchState
<1>4. t = Bar!Enable(s)
  BY DEF Bar!Enable
<1>5. overlay <=> s.overlay \/ ~s.active
  OBVIOUS
<1> HIDE DEF t, overlay
<1>6. SearchFound(t)
  BY <1>3 DEF SearchFound
<1>7. SearchLook(t)
  BY <1>3, <1>5 DEF SearchLook
<1> QED
  BY <1>2, <1>3, <1>4, <1>6, <1>7

\* search, for another query than the last one
LEMMA SearchSearch ==
    ASSUME NEW s, s \in SearchState, SearchFound(s), SearchLook(s), NEW x \in SearchQuery,
           x # s.previous, NEW internal \in BOOLEAN, ~internal \/ s.active \/ x = NoQuery
    PROVE  LET q == Bar!Search(s, x, internal)
           IN  /\ q \in SearchState /\ SearchFound(q) /\ SearchLook(q)
               /\ q.previous = x /\ q.input = x /\ q.timer = s.timer
<1> DEFINE on == IF internal \/ s.active THEN s ELSE Bar!Enable(s)
           overlay == IF on.active THEN x = NoQuery ELSE on.overlay
           notEmpty == x # NoQuery
           t == [on EXCEPT !.previous = x, !.input = x, !.notEmpty = notEmpty, !.overlay = overlay]
           found == t.rows \cap Bar!Matches(x)
           notFound == found = {} /\ ~(t.virtual /\ x = NoQuery)
           q == [t EXCEPT !.shown = found, !.astray = FALSE, !.again = FALSE, !.notFound = notFound]
<1>1. q = Bar!Search(s, x, internal)
  BY DEF Bar!Search, Bar!Filter
<1>2. /\ on \in SearchState /\ SearchLook(on) /\ on.timer = s.timer
      /\ ~on.active => x = NoQuery
  BY SearchEnable
<1> HIDE DEF on
<1>3. overlay \in BOOLEAN /\ notEmpty \in BOOLEAN /\ (notEmpty <=> x # NoQuery)
      /\ (on.active => (overlay <=> x = NoQuery)) /\ (~on.active => ~overlay)
  BY <1>2 DEF SearchState, SearchLook
<1> HIDE DEF overlay, notEmpty
<1>4. /\ t \in SearchState /\ t.previous = x /\ t.input = x /\ t.notEmpty = notEmpty
      /\ t.overlay = overlay /\ t.timer = s.timer /\ t.active = on.active
  <2>1. t \in SearchState
    BY <1>2, <1>3 DEF SearchState
  <2> QED
    BY <1>2, <2>1 DEF SearchState
<1> HIDE DEF t
<1>5. found \in SUBSET Entry /\ notFound \in BOOLEAN /\ (x = NoQuery => found = t.rows)
      /\ found = t.rows \cap Bar!Matches(x)
  BY <1>4, SearchMatches DEF SearchState
<1>6. notFound <=> found = {} /\ ~(t.virtual /\ x = NoQuery)
  OBVIOUS
<1> HIDE DEF found, notFound
<1>7. q \in SearchState
  BY <1>4, <1>5, SearchFiltered
<1>8. /\ q.previous = x /\ q.input = x /\ q.notEmpty = notEmpty /\ q.overlay = overlay
      /\ q.timer = s.timer /\ q.active = on.active /\ q.shown = found /\ q.notFound = notFound
      /\ ~q.astray /\ ~q.again /\ q.rows = t.rows /\ q.virtual = t.virtual
  BY <1>4 DEF SearchState
<1> HIDE DEF q
<1>9. SearchFound(q)
  BY <1>5, <1>6, <1>8, SearchNames DEF SearchFound
<1>10. SearchLook(q)
  BY <1>2, <1>3, <1>8, SearchNames DEF SearchLook
<1> QED
  BY <1>1, <1>7, <1>8, <1>9, <1>10

LEMMA SearchTimer == SearchGood(w) /\ Bar!Timer => SearchGood(w')
<1> SUFFICES ASSUME SearchGood(w), Bar!Timer PROVE SearchGood(w')
  OBVIOUS
<1> DEFINE q == Bar!Search(w, w.input, TRUE)
<1>1. w' = [q EXCEPT !.timer = FALSE] /\ w \in SearchState /\ w.input \in SearchQuery
  BY DEF Bar!Timer, SearchGood, SearchState
<1>2. q \in SearchState /\ SearchFound(q) /\ SearchLook(q) /\ q.previous = q.input
  <2>1. CASE w.input = w.previous
    <3>1. q = w
      BY <2>1 DEF Bar!Search
    <3> QED
      BY <2>1, <3>1 DEF SearchGood
  <2>2. CASE w.input # w.previous
    <3>1. /\ SearchFound(w) /\ SearchLook(w) /\ TRUE \in BOOLEAN
          /\ ~TRUE \/ w.active \/ w.input = NoQuery
      BY DEF SearchGood, SearchLook
    <3> DEFINE x == w.input
    <3>2. x \in SearchQuery /\ x # w.previous /\ (w.active \/ x = NoQuery)
      BY <1>1, <2>2, <3>1
    <3>3. PICK internal \in BOOLEAN : internal = TRUE
      OBVIOUS
    <3>4. q = Bar!Search(w, x, internal)
      BY <3>3
    <3> HIDE DEF x, q
    <3> QED
      BY <1>1, <3>1, <3>2, <3>4, SearchSearch
  <2> QED
    BY <2>1, <2>2
<1> HIDE DEF q
<1>3. w' \in SearchState
  BY <1>1, <1>2 DEF SearchState
<1>4. /\ w'.overlay = q.overlay /\ w'.active = q.active /\ w'.previous = q.previous
      /\ w'.input = q.input /\ w'.notEmpty = q.notEmpty /\ w'.again = q.again
      /\ w'.shown = q.shown /\ w'.rows = q.rows /\ w'.notFound = q.notFound
      /\ w'.astray = q.astray /\ w'.virtual = q.virtual
  BY <1>1, <1>2 DEF SearchState
<1>5. SearchFound(w') /\ SearchLook(w')
  BY <1>2, <1>4 DEF SearchFound, SearchLook
<1> QED
  BY <1>2, <1>3, <1>4, <1>5 DEF SearchGood, SearchSettled

LEMMA SearchSearchFor ==
    ASSUME SearchGood(w), NEW x \in SearchQuery, Bar!SearchFor(x)
    PROVE  SearchGood(w')
<1>1. CASE x = w.previous
  BY <1>1 DEF Bar!SearchFor, Bar!Search
<1>2. CASE x # w.previous
  <2> DEFINE q == Bar!Search(w, x, FALSE)
  <2>1. /\ w \in SearchState /\ SearchFound(w) /\ SearchLook(w) /\ FALSE \in BOOLEAN
        /\ ~FALSE \/ w.active \/ x = NoQuery
    BY DEF SearchGood
  <2>2. q \in SearchState /\ SearchFound(q) /\ SearchLook(q) /\ q.previous = x /\ q.input = x
    BY <1>2, <2>1, SearchSearch
  <2> HIDE DEF q
  <2>3. w' = q
    BY DEF Bar!SearchFor, q
  <2> QED
    BY <2>2, <2>3 DEF SearchGood, SearchSettled
<1> QED
  BY <1>1, <1>2

\* The input is given a text, and the timer is started.
LEMMA SearchInput ==
    ASSUME NEW s, s \in SearchState, SearchFound(s), SearchLook(s), NEW x \in SearchQuery, s.active
    PROVE  LET t == Bar!HandleInput([s EXCEPT !.input = x])
           IN  t \in SearchState /\ SearchFound(t) /\ SearchLook(t) /\ t.timer
<1> DEFINE t == [s EXCEPT !.input = x, !.timer = TRUE]
<1>1. t \in SearchState
  BY DEF SearchState
<1>2. /\ t.overlay = s.overlay /\ t.active = s.active /\ t.previous = s.previous
      /\ t.timer /\ t.notEmpty = s.notEmpty /\ t.again = s.again
      /\ t.shown = s.shown /\ t.rows = s.rows /\ t.notFound = s.notFound /\ t.astray = s.astray
      /\ t.virtual = s.virtual
  BY DEF SearchState
<1>3. t = Bar!HandleInput([s EXCEPT !.input = x])
  BY DEF Bar!HandleInput
<1> HIDE DEF t
<1>4. SearchFound(t)
  BY <1>2 DEF SearchFound
<1>5. SearchLook(t)
  BY <1>2 DEF SearchLook
<1> QED
  BY <1>1, <1>2, <1>3, <1>4, <1>5

LEMMA SearchCancel == SearchGood(w) /\ Bar!Cancel => SearchGood(w')
<1> SUFFICES ASSUME SearchGood(w), Bar!Cancel PROVE SearchGood(w')
  OBVIOUS
<1> DEFINE again == w.again \/ w.previous \in Query
<1>1. w \in SearchState /\ again \in BOOLEAN /\ (again <=> w.again \/ w.previous \in Query)
  BY DEF SearchGood, SearchState
<1>2. w' = [w EXCEPT !.input = NoQuery, !.active = FALSE, !.notEmpty = FALSE,
                     !.overlay = FALSE, !.again = again, !.timer = TRUE]
  BY DEF Bar!Cancel, Bar!Disable, Bar!HandleInput
<1> HIDE DEF again
<1>3. w' \in SearchState
  <2> DEFINE s == [w EXCEPT !.input = NoQuery, !.active = FALSE, !.notEmpty = FALSE]
  <2>1. NoQuery \in SearchQuery
    BY DEF SearchQuery
  <2>2. s \in SearchState
    BY <1>1, <2>1 DEF SearchState
  <2>3. w' = [s EXCEPT !.overlay = FALSE, !.again = again, !.timer = TRUE]
    BY <1>2
  <2> HIDE DEF s
  <2> QED
    BY <1>1, <2>2, <2>3, SearchOff
<1>4. /\ w'.input = NoQuery /\ ~w'.active /\ ~w'.notEmpty /\ ~w'.overlay /\ w'.again = again
      /\ w'.timer
      /\ w'.previous = w.previous /\ w'.shown = w.shown /\ w'.rows = w.rows
      /\ w'.notFound = w.notFound /\ w'.astray = w.astray /\ w'.virtual = w.virtual
  BY <1>1, <1>2 DEF SearchState
<1>5. SearchFound(w')
  BY <1>4 DEF SearchGood, SearchFound
<1>6. SearchLook(w')
  BY <1>1, <1>4 DEF SearchGood, SearchLook
<1> QED
  BY <1>3, <1>4, <1>5, <1>6 DEF SearchGood, SearchSettled

LEMMA SearchChangeRows ==
    ASSUME SearchGood(w), NEW x \in Entry, Bar!ChangeRows(x)
    PROVE  SearchGood(w')
<1> DEFINE filtered == w.virtual /\ w.previous \in Query
           rows == IF x \in w.rows THEN w.rows \ {x} ELSE w.rows \cup {x}
           shown == IF x \in w.rows THEN w.shown \ {x}
                    ELSE IF filtered THEN w.shown ELSE w.shown \cup {x}
           astray == w.astray \/ w.previous # Never
<1>1. w' = [w EXCEPT !.rows = rows, !.shown = shown, !.astray = astray] /\ w \in SearchState
  BY DEF Bar!ChangeRows, SearchGood
<1>2. rows \in SUBSET Entry /\ shown \in SUBSET Entry /\ astray \in BOOLEAN
  BY <1>1 DEF SearchState
<1>3. /\ w.previous # Never => astray
      /\ w.previous \in {Never, NoQuery} => shown = rows
      /\ w.previous = Never => ~astray
  BY <1>1, SearchNames DEF SearchGood, SearchFound
<1> HIDE DEF rows, shown, astray
<1>4. w' \in SearchState
  BY <1>1, <1>2 DEF SearchState
<1>5. /\ w'.rows = rows /\ w'.shown = shown /\ w'.astray = astray /\ w'.input = w.input
      /\ w'.active = w.active /\ w'.notEmpty = w.notEmpty /\ w'.overlay = w.overlay
      /\ w'.again = w.again /\ w'.timer = w.timer /\ w'.previous = w.previous
      /\ w'.notFound = w.notFound /\ w'.virtual = w.virtual
  BY <1>1 DEF SearchState
<1>6. SearchFound(w')
  BY <1>3, <1>5 DEF SearchGood, SearchFound
<1>7. SearchLook(w')
  BY <1>5 DEF SearchGood, SearchLook
<1>8. SearchSettled(w')
  BY <1>5 DEF SearchGood, SearchSettled
<1> QED
  BY <1>4, <1>6, <1>7, <1>8 DEF SearchGood

LEMMA SearchStepIInv == SearchIInv /\ [Bar!Next]_w => SearchIInv'
<1> SUFFICES ASSUME SearchGood(w), [Bar!Next]_w PROVE SearchGood(w')
  BY DEF SearchIInv
<1>1. CASE UNCHANGED w
  BY <1>1
<1>2. CASE Bar!Focus
  BY <1>2, SearchEnable DEF Bar!Focus, SearchGood, SearchSettled
<1>3. CASE Bar!Clear
  <2> DEFINE s == Bar!HandleInput([w EXCEPT !.input = NoQuery])
  <2>1. w' = Bar!Enable(s) /\ w.active /\ NoQuery \in SearchQuery
    BY <1>3 DEF Bar!Clear, SearchQuery
  <2>2. s \in SearchState /\ SearchFound(s) /\ SearchLook(s) /\ s.timer
    BY <2>1, SearchInput DEF SearchGood
  <2> HIDE DEF s
  <2> QED
    BY <2>1, <2>2, SearchEnable DEF SearchGood, SearchSettled
<1>4. ASSUME NEW x \in Query \cup {NoQuery}, Bar!Type(x) PROVE SearchGood(w')
  BY <1>4, SearchInput DEF Bar!Type, SearchGood, SearchSettled, SearchQuery
<1> QED
  BY <1>1, <1>2, <1>3, <1>4, SearchTimer, SearchCancel, SearchSearchFor, SearchChangeRows
     DEF Bar!Next, SearchQuery

LEMMA SearchListFollows == SearchIInv => Bar!ListMatches
<1> SUFFICES ASSUME SearchGood(w), ~w.timer PROVE Bar!ListMatches
  BY DEF SearchIInv, Bar!ListMatches
<1>1. w \in SearchState /\ w.input \in SearchQuery
  BY DEF SearchGood, SearchState
<1>2. w.previous = w.input \/ (w.input = NoQuery /\ w.previous = Never)
  BY DEF SearchGood, SearchSettled
<1>3. ~w.again => /\ w.notEmpty <=> w.input # NoQuery
                  /\ w.overlay <=> w.active /\ w.input = NoQuery
  BY <1>1, <1>2, SearchNames DEF SearchGood, SearchLook, SearchState
<1>4. w.input # NoQuery => w.active
  BY DEF SearchGood, SearchLook
<1>5. ~w.astray \/ w.input = NoQuery => w.shown = w.rows \cap Bar!Matches(w.input)
  <2>1. w.rows \subseteq Entry
    BY <1>1 DEF SearchState
  <2>2. CASE w.input = NoQuery
    <3>1. w.shown = w.rows /\ Bar!Matches(w.input) = Entry
      BY <1>1, <1>2, <2>2, SearchMatches DEF SearchGood, SearchFound
    <3> QED
      BY <2>1, <3>1
  <2>3. CASE w.input # NoQuery
    BY <1>1, <1>2, <2>3, SearchNames DEF SearchGood, SearchFound
  <2> QED
    BY <2>2, <2>3
<1>6. ~w.astray /\ w.previous # Never =>
          (w.notFound <=> w.shown = {} /\ ~(w.virtual /\ w.input = NoQuery))
  BY <1>2 DEF SearchGood, SearchFound
<1> QED
  BY <1>3, <1>4, <1>5, <1>6 DEF Bar!ListMatches
=============================================================================
