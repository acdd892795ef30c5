--------------------------- MODULE PagePartsProof ---------------------------
(***************************************************************************)
(* Theorems about the parts of a page, for every value of their constants. *)
(* A behaviour is one of one part, and each part's inductive invariant is  *)
(* one of its own state: those of the parts in DocumentParts come from     *)
(* DocumentPartsProof, the others are here.                                *)
(***************************************************************************)
EXTENDS PageParts, DocumentPartsProof

-----------------------------------------------------------------------------
(* Picker: the columns and the value of the input. *)
PickerItem == Group \cup (Group \X (1 .. PickerRows))
PickerList == {Pick!Groups} \cup {Pick!Values(x) : x \in Group}
PickerCol ==
    [values : PickerList, active : Nat, lit : Nat, value : SUBSET PickerItem, ready : BOOLEAN]
PickerState ==
    [opened : BOOLEAN, initialized : BOOLEAN, params : SUBSET Pick!Asked,
     cols : [1 .. 2 -> PickerCol],
     value : SUBSET (PickerItem \X PickerItem), field : SUBSET (PickerItem \X PickerItem),
     touched : 0 .. 2, moved : BOOLEAN]

PickerSize == Cardinality(Group)

\* The group whose values the second column has, while the first is at row a.
PickerOf(a) == Pick!Groups[IF a = 0 THEN 1 ELSE a]

\* The columns are at the rows a and b, of which the rows l and m are marked in
\* the page; and the value of the picker, and of the input, is what they hold.
PickerFirst(s, a, l) ==
    /\ s.cols[1].values = Pick!Groups /\ s.cols[1].active = a /\ s.cols[1].lit = l
    /\ s.cols[1].value = IF a = 0 THEN {} ELSE {Pick!Groups[a]}
PickerSecond(s, g, b, m, held) ==
    /\ s.cols[2].values = Pick!Values(g) /\ s.cols[2].active = b /\ s.cols[2].lit = m
    /\ s.cols[2].value = held
PickerHeld(g, b) == IF b = 0 THEN {} ELSE {<<g, b>>}
PickerTold(s, a, b) ==
    /\ s.field = s.value
    /\ s.value = IF a = 0 \/ b = 0 THEN {} ELSE {<<Pick!Groups[a], <<Pick!Groups[a], b>>>>}

PickerAt(s, a, l, b, m) ==
    /\ s \in PickerState /\ a \in 0 .. PickerSize /\ b \in 0 .. PickerRows
    /\ PickerFirst(s, a, l)
    /\ PickerSecond(s, PickerOf(a), b, m, PickerHeld(PickerOf(a), b))
    /\ PickerTold(s, a, b)

\* What no column changes.
PickerSame(s, r) ==
    /\ r.opened = s.opened /\ r.initialized = s.initialized /\ r.params = s.params
    /\ r.touched = s.touched /\ r.moved = s.moved
    /\ r.cols[1].ready = s.cols[1].ready /\ r.cols[2].ready = s.cols[2].ready

PickerGood(s) == \E a \in 0 .. PickerSize, b \in 0 .. PickerRows : PickerAt(s, a, a, b, b)

PickerUsed(s) ==
    /\ s.initialized => s.cols[1].ready /\ s.cols[2].ready
    /\ ~s.initialized => ~s.opened /\ s.cols[1].active = 0 /\ s.cols[2].active = 0
    /\ s.touched # 0 => s.opened

PickerIInv == PickerGood(w) /\ PickerUsed(w)

-----------------------------------------------------------------------------
LEMMA PickerConstants ==
    /\ PickerSize \in Nat \ {0} /\ PickerRows \in Nat \ {0}
    /\ Pick!Groups \in [1 .. PickerSize -> Group]
    /\ \A x \in Group : \E n \in 1 .. PickerSize : Pick!Groups[n] = x
<1> DEFINE n == PickerSize
           Fits(q) == \A x \in Group : \E m \in DOMAIN q : q[m] = x
<1>1. IsFiniteSet(Group) /\ Group # {} /\ PickerRows \in Nat \ {0}
  <2>1. Pick!IsFiniteSet(Group) <=> IsFiniteSet(Group)
    BY DEF Pick!IsFiniteSet, IsFiniteSet
  <2> QED
    BY <2>1, PagePartsAssumption DEF Pick!PickerAssumption
<1>2. n \in Nat /\ n # 0
  BY <1>1, FS_CardinalityType, FS_EmptySet DEF PickerSize
<1>3. ExistsBijection(1 .. n, Group)
  BY <1>1, FS_CardinalityType DEF PickerSize
<1>4. PICK q \in [1 .. n -> Group] : Fits(q)
  <2>1. PICK q \in Bijection(1 .. n, Group) : TRUE
    BY <1>3 DEF ExistsBijection
  <2>2. q \in Surjection(1 .. n, Group)
    BY <2>1 DEF Bijection
  <2>3. q \in [1 .. n -> Group] /\ \A x \in Group : \E m \in 1 .. n : q[m] = x
    BY <2>2 DEF Surjection
  <2>4. DOMAIN q = 1 .. n
    BY <2>3
  <2> QED
    BY <2>3, <2>4
<1>5. Pick!Cardinality(Group) = n
  BY DEF Pick!Cardinality, Cardinality, PickerSize
<1>6. Pick!Groups = CHOOSE q2 \in [1 .. n -> Group] : Fits(q2)
  BY <1>5 DEF Pick!Groups
<1>7. Pick!Groups \in [1 .. n -> Group] /\ Fits(Pick!Groups)
  <2> HIDE DEF Fits, n
  <2> QED
    BY <1>4, <1>6
<1>8. \A x \in Group : \E m \in 1 .. n : Pick!Groups[m] = x
  BY <1>7
<1> QED
  BY <1>1, <1>2, <1>7, <1>8

LEMMA PickerValues ==
    ASSUME NEW g \in Group
    PROVE  /\ DOMAIN Pick!Values(g) = 1 .. PickerRows
           /\ \A n \in 1 .. PickerRows : Pick!Values(g)[n] = <<g, n>> /\ <<g, n>> \in PickerItem
           /\ Pick!Values(g) \in PickerList
  BY DEF Pick!Values, PickerItem, PickerList

LEMMA PickerOfTyped == \A a \in 0 .. PickerSize : PickerOf(a) \in Group
<1> SUFFICES ASSUME NEW a \in 0 .. PickerSize PROVE PickerOf(a) \in Group
  OBVIOUS
<1>1. (IF a = 0 THEN 1 ELSE a) \in 1 .. PickerSize
  BY PickerConstants
<1> QED
  BY <1>1, PickerConstants DEF PickerOf

\* A column takes a row, or only shows it.
PickerTaken(s, r, i, row, held) ==
    /\ r \in PickerState
    /\ r.cols[i].values = s.cols[i].values /\ r.cols[i].active = row /\ r.cols[i].lit = row
    /\ r.cols[i].value = held
    /\ \A j \in 1 .. 2 : j # i => r.cols[j] = s.cols[j]
    /\ r.value = s.value /\ r.field = s.field
    /\ PickerSame(s, r)

LEMMA PickerLight ==
    ASSUME NEW s \in PickerState, NEW i \in 1 .. 2, NEW row \in Nat
    PROVE  PickerTaken(s, Pick!Light(s, i, row), i, row, s.cols[i].value)
<1> DEFINE col == [s.cols[i] EXCEPT !.active = row, !.lit = row]
           cols == [s.cols EXCEPT ![i] = col]
           r == [s EXCEPT !.cols = cols]
<1>1. Pick!Light(s, i, row) = r
  BY DEF Pick!Light, PickerState, PickerCol
<1>2. s.cols \in [1 .. 2 -> PickerCol] /\ s.cols[i] \in PickerCol
  BY DEF PickerState
<1>3. col \in PickerCol
  BY <1>2 DEF PickerCol
<1>4. /\ col.values = s.cols[i].values /\ col.active = row /\ col.lit = row
      /\ col.value = s.cols[i].value /\ col.ready = s.cols[i].ready
  BY <1>2 DEF PickerCol
<1> HIDE DEF col
<1>5. cols \in [1 .. 2 -> PickerCol] /\ cols[i] = col /\ \A j \in 1 .. 2 : j # i => cols[j] = s.cols[j]
  BY <1>2, <1>3
<1> HIDE DEF cols
<1>6. r \in PickerState
  BY <1>5 DEF PickerState
<1>7. /\ r.cols = cols /\ r.opened = s.opened /\ r.initialized = s.initialized
      /\ r.params = s.params
      /\ r.value = s.value /\ r.field = s.field /\ r.touched = s.touched /\ r.moved = s.moved
  BY DEF PickerState
<1> HIDE DEF r
<1>8. \A j \in 1 .. 2 : r.cols[j].ready = s.cols[j].ready
  BY <1>4, <1>5, <1>7
<1>9. PickerSame(s, r)
  BY <1>7, <1>8 DEF PickerSame
<1> QED
  BY <1>1, <1>4, <1>5, <1>6, <1>7, <1>9 DEF PickerTaken

LEMMA PickerTake ==
    ASSUME NEW s \in PickerState, NEW i \in 1 .. 2, NEW row \in Nat,
           s.cols[i].values[row] \in PickerItem
    PROVE  PickerTaken(s, Pick!Take(s, i, row), i, row, {s.cols[i].values[row]})
<1> DEFINE t == Pick!Light(s, i, row)
           held == {s.cols[i].values[row]}
           col == [t.cols[i] EXCEPT !.value = held]
           cols == [t.cols EXCEPT ![i] = col]
           r == [t EXCEPT !.cols = cols]
<1>1. PickerTaken(s, t, i, row, s.cols[i].value)
  BY PickerLight
<1>2. Pick!Take(s, i, row) = [t EXCEPT !.cols[i].value = held]
  BY DEF Pick!Take
<1> HIDE DEF t
<1>3. t \in PickerState
  BY <1>1 DEF PickerTaken
<1>4. Pick!Take(s, i, row) = r
  BY <1>2, <1>3 DEF PickerState, PickerCol
<1>5. t.cols \in [1 .. 2 -> PickerCol] /\ t.cols[i] \in PickerCol
  BY <1>3 DEF PickerState
<1>6. held \subseteq PickerItem
  OBVIOUS
<1> HIDE DEF held
<1>7. col \in PickerCol
  BY <1>5, <1>6 DEF PickerCol
<1>8. /\ col.values = t.cols[i].values /\ col.active = t.cols[i].active /\ col.lit = t.cols[i].lit
      /\ col.value = held /\ col.ready = t.cols[i].ready
  BY <1>5 DEF PickerCol
<1> HIDE DEF col
<1>9. cols \in [1 .. 2 -> PickerCol] /\ cols[i] = col /\ \A j \in 1 .. 2 : j # i => cols[j] = t.cols[j]
  BY <1>5, <1>7
<1> HIDE DEF cols
<1>10. r \in PickerState
  BY <1>3, <1>9 DEF PickerState
<1>11. /\ r.cols = cols /\ r.opened = t.opened /\ r.initialized = t.initialized
       /\ r.params = t.params
       /\ r.value = t.value /\ r.field = t.field /\ r.touched = t.touched /\ r.moved = t.moved
  BY <1>3 DEF PickerState
<1> HIDE DEF r
<1>12. /\ t.cols[i].values = s.cols[i].values /\ t.cols[i].active = row /\ t.cols[i].lit = row
       /\ \A j \in 1 .. 2 : j # i => t.cols[j] = s.cols[j]
       /\ t.value = s.value /\ t.field = s.field /\ PickerSame(s, t)
  BY <1>1 DEF PickerTaken
<1>13. \A j \in 1 .. 2 : r.cols[j].ready = t.cols[j].ready
  BY <1>8, <1>9, <1>11
<1>14. PickerSame(s, r)
  BY <1>11, <1>12, <1>13 DEF PickerSame
<1>15. PickerTaken(s, r, i, row, held)
  BY <1>8, <1>9, <1>10, <1>11, <1>12, <1>14 DEF PickerTaken
<1> QED
  BY <1>4, <1>15 DEF held

\* updateValue: the value of the picker and the input, if every column has one.
PickerTells(s, r) ==
    /\ r \in PickerState /\ r.cols = s.cols /\ PickerSame(s, r)
    /\ \A x, y : s.cols[1].value = {x} /\ s.cols[2].value = {y} => r.value = {<<x, y>>} /\ r.field = {<<x, y>>}
    /\ s.cols[1].value = {} \/ s.cols[2].value = {} => r.value = s.value /\ r.field = s.field

LEMMA PickerUpdateValue ==
    ASSUME NEW s \in PickerState
    PROVE  PickerTells(s, Pick!UpdateValue(s))
<1> DEFINE now == {<<a, b>> : a \in s.cols[1].value, b \in s.cols[2].value}
           r == Pick!UpdateValue(s)
<1>1. r = IF now = {} THEN s ELSE [s EXCEPT !.value = now, !.field = now]
  BY DEF Pick!UpdateValue
<1>2. \A x, y : s.cols[1].value = {x} /\ s.cols[2].value = {y} => now = {<<x, y>>}
  OBVIOUS
<1>3. s.cols[1].value = {} \/ s.cols[2].value = {} => now = {}
  OBVIOUS
<1>4. now \subseteq PickerItem \X PickerItem
  <2>1. s.cols[1] \in PickerCol /\ s.cols[2] \in PickerCol
    BY DEF PickerState
  <2>2. s.cols[1].value \subseteq PickerItem /\ s.cols[2].value \subseteq PickerItem
    BY <2>1 DEF PickerCol
  <2> QED
    BY <2>2
<1> HIDE DEF r, now
<1>5. CASE now = {}
  <2>1. r = s
    BY <1>1, <1>5
  <2>2. \A x, y : ~(s.cols[1].value = {x} /\ s.cols[2].value = {y})
    BY <1>2, <1>5
  <2> QED
    BY <2>1, <2>2 DEF r, PickerTells, PickerSame
<1>6. CASE now # {}
  <2>1. r = [s EXCEPT !.value = now, !.field = now]
    BY <1>1, <1>6
  <2>2. r \in PickerState
    BY <1>4, <2>1 DEF PickerState
  <2>3. r.value = now /\ r.field = now /\ r.cols = s.cols
    BY <2>1 DEF PickerState
  <2>4. r.opened = s.opened /\ r.initialized = s.initialized /\ r.params = s.params
        /\ r.touched = s.touched /\ r.moved = s.moved
    BY <2>1 DEF PickerState
  <2>5. PickerSame(s, r)
    BY <2>3, <2>4 DEF PickerSame
  <2> QED
    BY <1>2, <1>3, <1>6, <2>2, <2>3, <2>5 DEF r, PickerTells
<1> QED
  BY <1>5, <1>6

\* A row of the second column is picked.
LEMMA PickerUpdateSecond ==
    ASSUME NEW s, NEW a, NEW l, NEW b, NEW m, PickerAt(s, a, l, b, m), NEW row \in 1 .. PickerRows
    PROVE  PickerAt(Pick!UpdateSecond(s, row), a, l, row, row)
           /\ PickerSame(s, Pick!UpdateSecond(s, row))
<1> DEFINE g == PickerOf(a)
           t == Pick!Take(s, 2, row)
           u == Pick!UpdateValue(t)
           r == Pick!UpdateSecond(s, row)
<1>1. /\ s \in PickerState /\ a \in 0 .. PickerSize /\ b \in 0 .. PickerRows
      /\ PickerFirst(s, a, l) /\ PickerSecond(s, g, b, m, PickerHeld(g, b)) /\ PickerTold(s, a, b)
  BY DEF PickerAt
<1>2. r = IF s.cols[2].active = row THEN t ELSE u
  BY DEF Pick!UpdateSecond
<1>3. g \in Group /\ row \in Nat /\ row # 0 /\ 2 \in 1 .. 2
  BY <1>1, PickerOfTyped, PickerConstants
<1> HIDE DEF g
<1>4. s.cols[2].values = Pick!Values(g) /\ s.cols[2].values[row] = <<g, row>>
      /\ s.cols[2].values[row] \in PickerItem
  BY <1>1, <1>3, PickerValues DEF PickerSecond
<1>5. PickerTaken(s, t, 2, row, {s.cols[2].values[row]})
  BY <1>1, <1>3, <1>4, PickerTake
<1> HIDE DEF t
<1>6. /\ t \in PickerState /\ t.cols[1] = s.cols[1] /\ PickerSecond(t, g, row, row, {<<g, row>>})
      /\ t.value = s.value /\ t.field = s.field /\ PickerSame(s, t)
  BY <1>4, <1>5 DEF PickerTaken, PickerSecond
<1>7. PickerFirst(t, a, l)
  BY <1>1, <1>6 DEF PickerFirst
<1>8. PickerHeld(g, row) = {<<g, row>>}
  BY <1>3 DEF PickerHeld
<1>9. CASE s.cols[2].active = row
  <2>1. b = row
    BY <1>1, <1>9 DEF PickerSecond
  <2>2. PickerTold(t, a, row)
    BY <1>1, <1>6, <2>1 DEF PickerTold
  <2>3. PickerAt(t, a, l, row, row)
    BY <1>1, <1>3, <1>6, <1>7, <1>8, <2>2 DEF PickerAt, g
  <2> QED
    BY <1>2, <1>6, <1>9, <2>3
<1>10. CASE s.cols[2].active # row
  <2>1. PickerTells(t, u)
    BY <1>6, PickerUpdateValue
  <2> HIDE DEF u
  <2>2. /\ u \in PickerState /\ u.cols = t.cols /\ PickerSame(t, u)
        /\ \A x, y : t.cols[1].value = {x} /\ t.cols[2].value = {y} => u.value = {<<x, y>>} /\ u.field = {<<x, y>>}
        /\ t.cols[1].value = {} => u.value = t.value /\ u.field = t.field
    BY <2>1 DEF PickerTells
  <2>3. PickerFirst(u, a, l) /\ PickerSecond(u, g, row, row, {<<g, row>>})
    BY <1>6, <1>7, <2>2 DEF PickerFirst, PickerSecond
  <2>4. PickerTold(u, a, row)
    <3>1. t.cols[2].value = {<<g, row>>}
      BY <1>6 DEF PickerSecond
    <3>2. CASE a = 0
      <4>1. t.cols[1].value = {} /\ s.value = {} /\ s.field = s.value
        BY <1>1, <1>7, <3>2 DEF PickerFirst, PickerTold
      <4> QED
        BY <1>6, <2>2, <3>2, <4>1 DEF PickerTold
    <3>3. CASE a # 0
      <4>1. t.cols[1].value = {Pick!Groups[a]} /\ g = Pick!Groups[a]
        BY <1>7, <3>3 DEF PickerFirst, PickerOf, g
      <4>2. u.value = {<<Pick!Groups[a], <<g, row>>>>} /\ u.field = {<<Pick!Groups[a], <<g, row>>>>}
        BY <2>2, <3>1, <4>1
      <4> QED
        BY <1>3, <3>3, <4>1, <4>2 DEF PickerTold
    <3> QED
      BY <3>2, <3>3
  <2>5. PickerAt(u, a, l, row, row)
    BY <1>1, <1>3, <1>8, <2>2, <2>3, <2>4 DEF PickerAt, g
  <2>6. PickerSame(s, u)
    BY <1>6, <2>2 DEF PickerSame
  <2> QED
    BY <1>2, <1>10, <2>5, <2>6
<1> QED
  BY <1>9, <1>10

\* A row of the first column is picked: if it is another one, the second column
\* gets the values of it and is at its first row.
LEMMA PickerUpdateFirst ==
    ASSUME NEW s, NEW a, NEW l, NEW b, NEW m, PickerAt(s, a, l, b, m), NEW row \in 1 .. PickerSize,
           s.cols[2].ready \/ (a = 0 /\ b = 0 /\ row = 1)
    PROVE  LET r == Pick!UpdateFirst(s, row)
           IN  /\ PickerSame(s, r)
               /\ a = row \/ ~s.cols[2].ready => PickerAt(r, row, row, b, m)
               /\ a # row /\ s.cols[2].ready => PickerAt(r, row, row, 1, 1)
<1> DEFINE t == Pick!Take(s, 1, row)
           v == Pick!OnChange(t)
           u == Pick!UpdateValue(v)
           r == Pick!UpdateFirst(s, row)
           x == Pick!Groups[row]
<1>1. /\ s \in PickerState /\ a \in 0 .. PickerSize /\ b \in 0 .. PickerRows
      /\ PickerFirst(s, a, l) /\ PickerSecond(s, PickerOf(a), b, m, PickerHeld(PickerOf(a), b))
      /\ PickerTold(s, a, b)
  BY DEF PickerAt
<1>2. r = IF s.cols[1].active = row THEN t ELSE u
  BY DEF Pick!UpdateFirst
<1>3. x \in Group /\ x \in PickerItem /\ row \in Nat /\ row # 0 /\ row \in 0 .. PickerSize
      /\ 1 \in 1 .. 2
  BY PickerConstants DEF PickerItem
<1>4. PickerOf(row) = x
  BY <1>3 DEF PickerOf
<1>5. s.cols[1].values = Pick!Groups /\ s.cols[1].active = a /\ s.cols[1].values[row] = x
  BY <1>1 DEF PickerFirst
<1> HIDE DEF x
<1>6. PickerTaken(s, t, 1, row, {x})
  BY <1>1, <1>3, <1>5, PickerTake
<1> HIDE DEF t
<1>7. /\ t \in PickerState /\ t.cols[2] = s.cols[2] /\ t.cols[1].values = Pick!Groups
      /\ t.cols[1].active = row /\ t.cols[1].lit = row /\ t.cols[1].value = {x}
      /\ t.value = s.value /\ t.field = s.field /\ PickerSame(s, t)
  BY <1>5, <1>6 DEF PickerTaken
<1>8. PickerFirst(t, row, row)
  BY <1>3, <1>7 DEF PickerFirst, x
<1>9. t.cols[2].ready = s.cols[2].ready
  BY <1>7
<1>10. CASE a = row
  <2>1. r = t
    BY <1>2, <1>5, <1>10
  <2>2. PickerSecond(t, PickerOf(row), b, m, PickerHeld(PickerOf(row), b)) /\ PickerTold(t, row, b)
    BY <1>1, <1>7, <1>10 DEF PickerSecond, PickerTold
  <2>3. PickerAt(t, row, row, b, m)
    BY <1>1, <1>3, <1>7, <1>8, <2>2 DEF PickerAt
  <2> HIDE DEF r
  <2> QED
    BY <1>7, <1>10, <2>1, <2>3 DEF r
<1>11. CASE a # row /\ ~s.cols[2].ready
  <2>1. v = t /\ r = u /\ a = 0 /\ b = 0 /\ row = 1
    BY <1>2, <1>5, <1>9, <1>11 DEF Pick!OnChange
  <2>2. PickerTells(t, u)
    BY <1>7, <2>1, PickerUpdateValue
  <2> HIDE DEF u, v, r
  <2>3. /\ u \in PickerState /\ u.cols = t.cols /\ PickerSame(t, u)
    BY <2>2 DEF PickerTells
  <2>4. PickerOf(a) = PickerOf(row)
    BY <2>1 DEF PickerOf
  <2>5. PickerFirst(u, row, row)
        /\ PickerSecond(u, PickerOf(row), b, m, PickerHeld(PickerOf(row), b))
    BY <1>1, <1>7, <1>8, <2>3, <2>4 DEF PickerFirst, PickerSecond
  <2>6. u.value = t.value /\ u.field = t.field
    BY <1>1, <1>7, <2>1, <2>2 DEF PickerTells, PickerSecond, PickerHeld
  <2>7. PickerTold(u, row, b)
    BY <1>1, <1>7, <2>1, <2>6 DEF PickerTold
  <2>8. PickerAt(u, row, row, b, m)
    BY <1>1, <1>3, <2>3, <2>5, <2>7 DEF PickerAt
  <2>9. PickerSame(s, u)
    BY <1>7, <2>3 DEF PickerSame
  <2> QED
    BY <1>11, <2>1, <2>8, <2>9 DEF r
<1>12. CASE a # row /\ s.cols[2].ready
  <2> DEFINE p == [t EXCEPT !.cols[2].values = Pick!Values(x)]
             q == Pick!Take(p, 2, 1)
  <2>1. v = Pick!UpdateSecond(p, 1)
    <3>1. (CHOOSE y \in t.cols[1].value : TRUE) = x
      BY <1>7
    <3> QED
      BY <1>9, <1>12, <3>1 DEF Pick!OnChange
  <2>2. v = IF p.cols[2].active = 1 THEN q ELSE Pick!UpdateValue(q)
    BY <2>1 DEF Pick!UpdateSecond
  <2>3. r = u
    BY <1>2, <1>5, <1>12
  <2> DEFINE col == [t.cols[2] EXCEPT !.values = Pick!Values(x)]
             cols == [t.cols EXCEPT ![2] = col]
  <2>4. t.cols \in [1 .. 2 -> PickerCol] /\ t.cols[2] \in PickerCol
    BY <1>7 DEF PickerState
  <2>5. p = [t EXCEPT !.cols = cols]
    BY <1>7 DEF PickerState, PickerCol
  <2> HIDE DEF p
  <2>6. col \in PickerCol /\ col.values = Pick!Values(x) /\ col.ready = t.cols[2].ready
    BY <1>3, <2>4, PickerValues DEF PickerCol
  <2> HIDE DEF col
  <2>7. cols \in [1 .. 2 -> PickerCol] /\ cols[2] = col /\ cols[1] = t.cols[1]
    BY <2>4, <2>6
  <2> HIDE DEF cols
  <2>8. p \in PickerState
    BY <1>7, <2>5, <2>7 DEF PickerState
  <2>9. /\ p.cols = cols /\ p.opened = t.opened /\ p.initialized = t.initialized
        /\ p.params = t.params
        /\ p.touched = t.touched /\ p.moved = t.moved
    BY <1>7, <2>5 DEF PickerState
  <2>10. p.cols[2].values = Pick!Values(x) /\ p.cols[1] = t.cols[1] /\ PickerSame(t, p)
    BY <2>6, <2>7, <2>9 DEF PickerSame
  <2>11. 1 \in Nat /\ 2 \in 1 .. 2 /\ p.cols[2].values[1] = <<x, 1>>
         /\ p.cols[2].values[1] \in PickerItem
    <3>1. 1 \in 1 .. PickerRows
      BY PickerConstants
    <3>2. \A n \in 1 .. PickerRows : p.cols[2].values[n] = <<x, n>> /\ <<x, n>> \in PickerItem
      BY <1>3, <2>10, PickerValues
    <3>3. p.cols[2].values[1] = <<x, 1>> /\ <<x, 1>> \in PickerItem
      BY <3>1, <3>2
    <3> QED
      BY <3>3
  <2>12. PickerTaken(p, q, 2, 1, {p.cols[2].values[1]})
    BY <2>8, <2>11, PickerTake
  <2> HIDE DEF q
  <2>13. /\ q \in PickerState /\ q.cols[1] = t.cols[1] /\ PickerSecond(q, x, 1, 1, {<<x, 1>>})
         /\ PickerSame(p, q)
    BY <2>10, <2>11, <2>12 DEF PickerTaken, PickerSecond
  <2>14. v \in PickerState /\ v.cols = q.cols /\ PickerSame(q, v)
    <3>1. PickerTells(q, Pick!UpdateValue(q))
      BY <2>13, PickerUpdateValue
    <3>2. PickerSame(q, q)
      BY DEF PickerSame
    <3> HIDE DEF v
    <3> QED
      BY <2>2, <2>13, <3>1, <3>2 DEF PickerTells
  <2> HIDE DEF v
  <2>15. PickerTells(v, u)
    BY <2>14, PickerUpdateValue
  <2> HIDE DEF u
  <2>16. /\ u \in PickerState /\ u.cols = q.cols /\ PickerSame(v, u)
         /\ \A y, z : q.cols[1].value = {y} /\ q.cols[2].value = {z} => u.value = {<<y, z>>} /\ u.field = {<<y, z>>}
    BY <2>14, <2>15 DEF PickerTells
  <2>17. q.cols[1].value = {x} /\ q.cols[2].value = {<<x, 1>>}
    BY <1>7, <2>13 DEF PickerSecond
  <2>18. u.value = {<<x, <<x, 1>>>>} /\ u.field = {<<x, <<x, 1>>>>}
    BY <2>16, <2>17
  <2>19. PickerTold(u, row, 1)
    BY <1>3, <2>18 DEF PickerTold, x
  <2>20. PickerFirst(u, row, row) /\ PickerSecond(u, x, 1, 1, {<<x, 1>>})
    BY <1>8, <2>13, <2>16 DEF PickerFirst, PickerSecond
  <2>21. PickerHeld(x, 1) = {<<x, 1>>} /\ 1 \in 0 .. PickerRows
    BY PickerConstants DEF PickerHeld
  <2>22. PickerAt(u, row, row, 1, 1)
    BY <1>3, <1>4, <2>16, <2>19, <2>20, <2>21 DEF PickerAt
  <2>23. PickerSame(s, u)
    BY <1>7, <2>10, <2>13, <2>14, <2>16 DEF PickerSame
  <2> HIDE DEF r
  <2> QED
    BY <1>12, <2>3, <2>22, <2>23 DEF r
<1> QED
  BY <1>10, <1>11, <1>12

\* An update of a column that is at the row that is marked in it.
LEMMA PickerUpdates ==
    ASSUME NEW s, PickerGood(s), s.cols[2].ready, NEW i \in Pick!Cols,
           NEW row \in DOMAIN s.cols[i].values
    PROVE  PickerGood(Pick!UpdateItems(s, i, row)) /\ PickerSame(s, Pick!UpdateItems(s, i, row))
<1>1. PICK a \in 0 .. PickerSize, b \in 0 .. PickerRows : PickerAt(s, a, a, b, b)
  BY DEF PickerGood
<1>2. /\ PickerFirst(s, a, a) /\ PickerSecond(s, PickerOf(a), b, b, PickerHeld(PickerOf(a), b))
      /\ PickerOf(a) \in Group /\ 1 \in 0 .. PickerRows
  BY <1>1, PickerOfTyped, PickerConstants DEF PickerAt
<1>3. CASE i = 1
  <2>1. row \in 1 .. PickerSize /\ row \in 0 .. PickerSize
    BY <1>2, <1>3, PickerConstants DEF PickerFirst
  <2> DEFINE r == Pick!UpdateFirst(s, row)
  <2>2. /\ PickerSame(s, r)
        /\ a = row => PickerAt(r, row, row, b, b)
        /\ a # row => PickerAt(r, row, row, 1, 1)
    BY <1>1, <2>1, PickerUpdateFirst
  <2> HIDE DEF r
  <2>3. PickerGood(r)
    BY <1>1, <1>2, <2>1, <2>2 DEF PickerGood
  <2> QED
    BY <1>3, <2>2, <2>3 DEF Pick!UpdateItems, r
<1>4. CASE i = 2
  <2>1. row \in 1 .. PickerRows /\ row \in 0 .. PickerRows
    BY <1>2, <1>4, PickerValues, PickerConstants DEF PickerSecond
  <2> DEFINE r == Pick!UpdateSecond(s, row)
  <2>2. PickerSame(s, r) /\ PickerAt(r, a, a, row, row)
    BY <1>1, <2>1, PickerUpdateSecond
  <2> HIDE DEF r
  <2>3. PickerGood(r)
    BY <1>1, <2>1, <2>2 DEF PickerGood
  <2> QED
    BY <1>4, <2>2, <2>3 DEF Pick!UpdateItems, r
<1> QED
  BY <1>3, <1>4 DEF Pick!Cols

\* setValue of the columns: each takes the row of its part, if it has one.
LEMMA PickerSetFirst ==
    ASSUME NEW s, NEW a, NEW l, NEW b, NEW m, PickerAt(s, a, l, b, m), s.cols[2].ready, NEW x
    PROVE  LET r == Pick!SetColumn(s, 1, x)
           IN  /\ PickerSame(s, r)
               /\ x \notin Group => r = s
               /\ x \in Group => \E n \in 1 .. PickerSize :
                      /\ Pick!Groups[n] = x
                      /\ PickerAt(r, n, n, b, m) \/ PickerAt(r, n, n, 1, 1)
<1> DEFINE n == Pick!RowOf(s, 1, x)
           t == Pick!UpdateFirst(s, n)
           r == Pick!SetColumn(s, 1, x)
<1>1. s.cols[1].values = Pick!Groups
  BY DEF PickerAt, PickerFirst
<1>2. DOMAIN Pick!Groups = 1 .. PickerSize /\ \A k \in 1 .. PickerSize : Pick!Groups[k] \in Group
  BY PickerConstants
<1>3. r = IF Pick!Has(s, 1, x) THEN t ELSE s
  BY DEF Pick!SetColumn, Pick!UpdateItems
<1>4. Pick!Has(s, 1, x) <=> x \in Group
  BY <1>1, <1>2, PickerConstants DEF Pick!Has
<1> HIDE DEF r, t
<1>5. CASE x \notin Group
  BY <1>3, <1>4, <1>5 DEF r, PickerSame
<1>6. CASE x \in Group
  <2>1. n \in 1 .. PickerSize /\ Pick!Groups[n] = x
    <3>1. n = CHOOSE k \in 1 .. PickerSize : Pick!Groups[k] = x
      BY <1>1, <1>2 DEF Pick!RowOf
    <3> HIDE DEF n
    <3> QED
      BY <1>6, <3>1, PickerConstants
  <2> HIDE DEF n
  <2>2. /\ PickerSame(s, t)
        /\ a = n => PickerAt(t, n, n, b, m)
        /\ a # n => PickerAt(t, n, n, 1, 1)
    BY <2>1, PickerUpdateFirst DEF t
  <2> QED
    BY <1>3, <1>4, <1>6, <2>1, <2>2 DEF r
<1> QED
  BY <1>5, <1>6

LEMMA PickerSetSecond ==
    ASSUME NEW s, NEW a, NEW l, NEW b, NEW m, PickerAt(s, a, l, b, m), NEW x
    PROVE  LET r == Pick!SetColumn(s, 2, x)
           IN  /\ PickerSame(s, r)
               /\ r = s \/ \E n \in 1 .. PickerRows : PickerAt(r, a, l, n, n)
               /\ (\E n \in 1 .. PickerRows : x = <<PickerOf(a), n>>) =>
                      \E n \in 1 .. PickerRows : PickerAt(r, a, l, n, n)
<1> DEFINE n == Pick!RowOf(s, 2, x)
           t == Pick!UpdateSecond(s, n)
           r == Pick!SetColumn(s, 2, x)
           g == PickerOf(a)
<1>1. s.cols[2].values = Pick!Values(g) /\ g \in Group
  BY PickerOfTyped DEF PickerAt, PickerSecond
<1> HIDE DEF g
<1>2. DOMAIN Pick!Values(g) = 1 .. PickerRows /\ \A k \in 1 .. PickerRows : Pick!Values(g)[k] = <<g, k>>
  BY <1>1, PickerValues
<1>3. r = IF Pick!Has(s, 2, x) THEN t ELSE s
  BY DEF Pick!SetColumn, Pick!UpdateItems
<1>4. Pick!Has(s, 2, x) <=> \E k \in 1 .. PickerRows : x = <<g, k>>
  BY <1>1, <1>2 DEF Pick!Has
<1> HIDE DEF r, t
<1>5. CASE ~Pick!Has(s, 2, x)
  BY <1>3, <1>4, <1>5 DEF r, g, PickerSame
<1>6. CASE Pick!Has(s, 2, x)
  <2>1. n \in 1 .. PickerRows
    <3>1. n = CHOOSE k \in 1 .. PickerRows : Pick!Values(g)[k] = x
      BY <1>1, <1>2 DEF Pick!RowOf
    <3> HIDE DEF n
    <3> QED
      BY <1>2, <1>4, <1>6, <3>1
  <2> HIDE DEF n
  <2>2. PickerSame(s, t) /\ PickerAt(t, a, l, n, n)
    BY <2>1, PickerUpdateSecond DEF t
  <2> QED
    BY <1>3, <1>6, <2>1, <2>2 DEF r
<1> QED
  BY <1>5, <1>6

\* p.setValue of a picker that is at rest.
LEMMA PickerSetBoth ==
    ASSUME NEW s, PickerGood(s), s.cols[2].ready, NEW x
    PROVE  PickerGood(Pick!SetBoth(s, x)) /\ PickerSame(s, Pick!SetBoth(s, x))
<1> DEFINE t == Pick!SetColumn(s, 1, x[1])
           r == Pick!SetColumn(t, 2, x[2])
<1>1. PICK a \in 0 .. PickerSize, b \in 0 .. PickerRows : PickerAt(s, a, a, b, b)
  BY DEF PickerGood
<1>2. /\ PickerSame(s, t)
      /\ x[1] \notin Group => t = s
      /\ x[1] \in Group => \E n \in 1 .. PickerSize :
             /\ Pick!Groups[n] = x[1]
             /\ PickerAt(t, n, n, b, b) \/ PickerAt(t, n, n, 1, 1)
  BY <1>1, PickerSetFirst
<1> HIDE DEF t
<1>3. \A n \in 1 .. PickerSize : n \in 0 .. PickerSize
  OBVIOUS
<1>4. 1 \in 0 .. PickerRows /\ \A n \in 1 .. PickerRows : n \in 0 .. PickerRows
  BY PickerConstants
<1>5. PICK n \in 0 .. PickerSize, m \in 0 .. PickerRows : PickerAt(t, n, n, m, m)
  BY <1>1, <1>2, <1>3, <1>4
<1>6. PickerSame(t, r) /\ (r = t \/ \E k \in 1 .. PickerRows : PickerAt(r, n, n, k, k))
  BY <1>5, PickerSetSecond
<1> HIDE DEF r
<1>7. PickerGood(r)
  BY <1>4, <1>5, <1>6 DEF PickerGood
<1>8. PickerSame(s, r)
  BY <1>2, <1>6 DEF PickerSame
<1> QED
  BY <1>7, <1>8 DEF Pick!SetBoth, r, t

\* resizeCols: the columns show the rows of the values they have.
LEMMA PickerShow ==
    ASSUME NEW s, PickerGood(s), NEW i \in 1 .. 2
    PROVE  PickerGood(Pick!ShowColumn(s, i)) /\ PickerSame(s, Pick!ShowColumn(s, i))
<1> DEFINE x == CHOOSE y \in s.cols[i].value : TRUE
           n == Pick!RowOf(s, i, x)
           t == Pick!Light(s, i, n)
           r == Pick!ShowColumn(s, i)
<1>1. PICK a \in 0 .. PickerSize, b \in 0 .. PickerRows : PickerAt(s, a, a, b, b)
  BY DEF PickerGood
<1> DEFINE g == PickerOf(a)
<1>2. /\ s \in PickerState /\ PickerFirst(s, a, a) /\ PickerSecond(s, g, b, b, PickerHeld(g, b))
      /\ PickerTold(s, a, b) /\ g \in Group
  BY <1>1, PickerOfTyped DEF PickerAt
<1>3. r = IF s.cols[i].value # {} /\ Pick!Has(s, i, x) THEN t ELSE s
  BY DEF Pick!ShowColumn
<1> HIDE DEF r
<1>4. CASE ~(s.cols[i].value # {} /\ Pick!Has(s, i, x))
  BY <1>3, <1>4 DEF r, PickerSame
<1>5. CASE s.cols[i].value # {} /\ Pick!Has(s, i, x) /\ i = 1
  <2>1. a \in 1 .. PickerSize /\ x = Pick!Groups[a]
    BY <1>2, <1>5 DEF PickerFirst
  <2> HIDE DEF x
  <2>2. n \in 1 .. PickerSize /\ Pick!Groups[n] = x
    <3>1. DOMAIN Pick!Groups = 1 .. PickerSize
      BY PickerConstants
    <3>2. n = CHOOSE k \in 1 .. PickerSize : Pick!Groups[k] = x
      BY <1>2, <1>5, <3>1 DEF Pick!RowOf, PickerFirst
    <3> HIDE DEF n
    <3> QED
      BY <2>1, <3>2
  <2> HIDE DEF n
  <2>3. n \in Nat /\ n # 0 /\ n \in 0 .. PickerSize /\ a # 0
    BY <2>1, <2>2
  <2>4. PickerTaken(s, t, 1, n, s.cols[1].value)
    BY <1>2, <1>5, <2>3, PickerLight
  <2> HIDE DEF t
  <2>5. PickerOf(n) = g
    BY <2>1, <2>2, <2>3 DEF PickerOf
  <2>6. /\ t \in PickerState /\ t.cols[2] = s.cols[2] /\ t.cols[1].values = Pick!Groups
        /\ t.cols[1].active = n /\ t.cols[1].lit = n /\ t.cols[1].value = {Pick!Groups[n]}
        /\ t.value = s.value /\ t.field = s.field /\ PickerSame(s, t)
    BY <1>2, <2>1, <2>2, <2>3, <2>4 DEF PickerTaken, PickerFirst
  <2>7. PickerFirst(t, n, n) /\ PickerSecond(t, PickerOf(n), b, b, PickerHeld(PickerOf(n), b))
    BY <1>2, <2>3, <2>5, <2>6 DEF PickerFirst, PickerSecond
  <2>8. PickerTold(t, n, b)
    BY <1>2, <2>1, <2>2, <2>3, <2>6 DEF PickerTold
  <2>9. PickerAt(t, n, n, b, b)
    BY <1>1, <2>3, <2>6, <2>7, <2>8 DEF PickerAt
  <2> QED
    BY <1>3, <1>5, <2>3, <2>6, <2>9 DEF PickerGood, r
<1>6. CASE s.cols[i].value # {} /\ Pick!Has(s, i, x) /\ i = 2
  <2>1. b \in 1 .. PickerRows /\ x = <<g, b>>
    BY <1>2, <1>6 DEF PickerSecond, PickerHeld
  <2> HIDE DEF x, g
  <2>2. n = b
    <3>1. DOMAIN Pick!Values(g) = 1 .. PickerRows /\ \A k \in 1 .. PickerRows : Pick!Values(g)[k] = <<g, k>>
      BY <1>2, PickerValues
    <3>2. n = CHOOSE k \in 1 .. PickerRows : Pick!Values(g)[k] = x
      BY <1>2, <1>6, <3>1 DEF Pick!RowOf, PickerSecond
    <3> HIDE DEF n
    <3>3. n \in 1 .. PickerRows /\ Pick!Values(g)[n] = x
      BY <2>1, <3>1, <3>2
    <3> QED
      BY <2>1, <3>1, <3>3
  <2> HIDE DEF n
  <2>3. b \in Nat
    BY <2>1, PickerConstants
  <2>4. PickerTaken(s, t, 2, b, s.cols[2].value)
    BY <1>2, <1>6, <2>2, <2>3, PickerLight
  <2> HIDE DEF t
  <2>6. /\ t \in PickerState /\ t.cols[1] = s.cols[1] /\ t.cols[2].values = s.cols[2].values
        /\ t.cols[2].active = b /\ t.cols[2].lit = b /\ t.cols[2].value = s.cols[2].value
        /\ t.value = s.value /\ t.field = s.field /\ PickerSame(s, t)
    BY <2>4 DEF PickerTaken
  <2>7. PickerFirst(t, a, a) /\ PickerSecond(t, g, b, b, PickerHeld(g, b)) /\ PickerTold(t, a, b)
    BY <1>2, <2>6 DEF PickerFirst, PickerSecond, PickerTold
  <2>9. PickerAt(t, a, a, b, b)
    BY <1>1, <2>6, <2>7 DEF PickerAt, g
  <2> QED
    BY <1>1, <1>3, <1>6, <2>6, <2>9 DEF PickerGood, r
<1> QED
  BY <1>4, <1>5, <1>6

\* initPickerCol: no row of the new page is marked, and the column is ready.
PickerStays(s, r) ==
    /\ r.opened = s.opened /\ r.initialized = s.initialized /\ r.params = s.params
    /\ r.value = s.value /\ r.touched = s.touched /\ r.moved = s.moved

PickerPage(s, i) == [s EXCEPT !.cols[i].lit = 0, !.cols[i].ready = TRUE]

LEMMA PickerNewPage ==
    ASSUME NEW s, NEW a, NEW l, NEW b, NEW m, PickerAt(s, a, l, b, m), NEW i \in 1 .. 2
    PROVE  /\ PickerStays(s, PickerPage(s, i)) /\ PickerPage(s, i).cols[i].ready
           /\ i = 1 => /\ PickerAt(PickerPage(s, i), a, 0, b, m)
                       /\ PickerPage(s, i).cols[2].ready = s.cols[2].ready
           /\ i = 2 => /\ PickerAt(PickerPage(s, i), a, l, b, 0)
                       /\ PickerPage(s, i).cols[1].ready = s.cols[1].ready
<1> DEFINE col == [s.cols[i] EXCEPT !.lit = 0, !.ready = TRUE]
           cols == [s.cols EXCEPT ![i] = col]
           r == [s EXCEPT !.cols = cols]
<1>1. /\ s \in PickerState /\ PickerFirst(s, a, l) /\ PickerTold(s, a, b)
      /\ PickerSecond(s, PickerOf(a), b, m, PickerHeld(PickerOf(a), b))
      /\ a \in 0 .. PickerSize /\ b \in 0 .. PickerRows
  BY DEF PickerAt
<1>2. s.cols \in [1 .. 2 -> PickerCol] /\ s.cols[i] \in PickerCol
  BY <1>1 DEF PickerState
<1>3. r = PickerPage(s, i)
  BY <1>1 DEF PickerState, PickerCol, PickerPage
<1>4. /\ col \in PickerCol /\ col.values = s.cols[i].values /\ col.active = s.cols[i].active
      /\ col.lit = 0 /\ col.value = s.cols[i].value /\ col.ready = TRUE
  BY <1>2 DEF PickerCol
<1> HIDE DEF col
<1>5. cols \in [1 .. 2 -> PickerCol] /\ cols[i] = col /\ \A j \in 1 .. 2 : j # i => cols[j] = s.cols[j]
  BY <1>2, <1>4
<1> HIDE DEF cols
<1>6. r \in PickerState
  BY <1>1, <1>5 DEF PickerState
<1>7. /\ r.cols = cols /\ r.opened = s.opened /\ r.initialized = s.initialized
      /\ r.params = s.params
      /\ r.value = s.value /\ r.field = s.field /\ r.touched = s.touched /\ r.moved = s.moved
  BY <1>1 DEF PickerState
<1> HIDE DEF r
<1>8. PickerTold(r, a, b) /\ PickerStays(s, r)
  BY <1>1, <1>7 DEF PickerTold, PickerStays
<1>9. CASE i = 1
  <2>1. r.cols[1] = col /\ r.cols[2] = s.cols[2]
    BY <1>5, <1>7, <1>9
  <2>2. PickerFirst(r, a, 0) /\ PickerSecond(r, PickerOf(a), b, m, PickerHeld(PickerOf(a), b))
    BY <1>1, <1>4, <1>9, <2>1 DEF PickerFirst, PickerSecond
  <2>3. PickerAt(r, a, 0, b, m)
    BY <1>1, <1>6, <1>8, <2>2 DEF PickerAt
  <2> QED
    BY <1>3, <1>4, <1>8, <1>9, <2>1, <2>3
<1>10. CASE i = 2
  <2>1. r.cols[2] = col /\ r.cols[1] = s.cols[1]
    BY <1>5, <1>7, <1>10
  <2>2. PickerFirst(r, a, l) /\ PickerSecond(r, PickerOf(a), b, 0, PickerHeld(PickerOf(a), b))
    BY <1>1, <1>4, <1>10, <2>1 DEF PickerFirst, PickerSecond
  <2>3. PickerAt(r, a, l, b, 0)
    BY <1>1, <1>6, <1>8, <2>2 DEF PickerAt
  <2> QED
    BY <1>3, <1>4, <1>8, <1>10, <2>1, <2>3
<1>11. i = 1 \/ i = 2
  OBVIOUS
<1> QED
  BY <1>9, <1>10, <1>11, Zenon

\* The finger, and the picker that is opened and closed, change no column.
PickerAside(s, r, initialized, opened, touched, moved) ==
    /\ r.cols = s.cols /\ r.initialized = initialized /\ r.opened = opened
    /\ r.touched = touched /\ r.moved = moved

LEMMA PickerFinger ==
    ASSUME NEW s, PickerGood(s), NEW opened \in BOOLEAN, NEW touched \in 0 .. 2,
           NEW moved \in BOOLEAN,
           NEW r, r = [s EXCEPT !.opened = opened, !.touched = touched, !.moved = moved]
    PROVE  PickerGood(r) /\ PickerAside(s, r, s.initialized, opened, touched, moved)
<1>1. PICK a \in 0 .. PickerSize, b \in 0 .. PickerRows : PickerAt(s, a, a, b, b)
  BY DEF PickerGood
<1>2. s \in PickerState
  BY <1>1 DEF PickerAt
<1>3. r \in PickerState
  BY <1>2 DEF PickerState
<1>4. r.cols = s.cols /\ r.initialized = s.initialized /\ r.opened = opened /\ r.touched = touched
      /\ r.moved = moved
  BY <1>2 DEF PickerState
<1>5. r.value = s.value /\ r.field = s.field
  BY <1>2 DEF PickerState
<1>6. PickerAt(r, a, a, b, b)
  BY <1>1, <1>3, <1>4, <1>5 DEF PickerAt, PickerFirst, PickerSecond, PickerTold
<1> QED
  BY <1>4, <1>6 DEF PickerGood, PickerAside

LEMMA PickerOpened ==
    ASSUME NEW s, PickerGood(s), s.cols[1].ready, s.cols[2].ready,
           w' = [s EXCEPT !.opened = TRUE, !.initialized = TRUE, !.touched = 0, !.moved = FALSE]
    PROVE  PickerIInv'
<1>1. PICK a \in 0 .. PickerSize, b \in 0 .. PickerRows : PickerAt(s, a, a, b, b)
  BY DEF PickerGood
<1>2. s \in PickerState
  BY <1>1 DEF PickerAt
<1>3. w' \in PickerState
  <2>1. PICK on \in BOOLEAN, off \in BOOLEAN : (on <=> TRUE) /\ (off <=> FALSE)
    OBVIOUS
  <2>2. PICK zero \in 0 .. 2 : zero = 0
    OBVIOUS
  <2>3. w' = [s EXCEPT !.opened = on, !.initialized = on, !.touched = zero, !.moved = off]
    BY <2>1, <2>2
  <2> QED
    BY <1>2, <2>3 DEF PickerState
<1>4. w'.cols = s.cols /\ w'.initialized /\ w'.touched = 0 /\ w'.value = s.value
      /\ w'.field = s.field
  BY <1>2 DEF PickerState
<1> DEFINE r == w'
<1> HIDE DEF r
<1>5. PickerAt(r, a, a, b, b)
  BY <1>1, <1>3, <1>4 DEF PickerAt, PickerFirst, PickerSecond, PickerTold, r
<1>6. PickerGood(r) /\ PickerUsed(r)
  BY <1>4, <1>5 DEF PickerGood, PickerUsed, r
<1> QED
  BY <1>6 DEF PickerIInv, r

LEMMA PickerKept ==
    ASSUME NEW s, PickerUsed(s), s.initialized, PickerGood(w'), PickerSame(s, w')
    PROVE  PickerIInv'
  BY DEF PickerIInv, PickerUsed, PickerSame

\* The first column of the new page is marked again, and then the second.
LEMMA PickerOpen == PickerIInv /\ Pick!Open => PickerIInv'
<1> SUFFICES ASSUME PickerIInv, Pick!Open PROVE PickerIInv'
  OBVIOUS
<1> DEFINE told == IF w.initialized THEN w.value ELSE w.params
           s == PickerPage(w, 1)
           s1 == Pick!InitPickerCol(w, 1, told = {})
           s2 == PickerPage(s1, 2)
           t == Pick!InitPickerCol(s1, 2, told = {})
           x == CHOOSE y \in told : TRUE
           u == IF told = {} THEN t ELSE Pick!SetBoth(t, x)
<1>1. ~w.opened
      /\ w' = [u EXCEPT !.opened = TRUE, !.initialized = TRUE, !.touched = 0, !.moved = FALSE]
  BY DEF Pick!Open
<1>2. s1 = IF told = {} THEN Pick!UpdateItems(s, 1, 1) ELSE s
  BY DEF Pick!InitPickerCol, PickerPage
<1>3. t = IF told = {} THEN Pick!UpdateItems(s2, 2, 1) ELSE s2
  BY DEF Pick!InitPickerCol, PickerPage
<1>4. PICK a \in 0 .. PickerSize, b \in 0 .. PickerRows : PickerAt(w, a, a, b, b)
  BY DEF PickerIInv, PickerGood
<1>5. /\ PickerTold(w, a, b) /\ w.cols[1].active = a /\ w.cols[2].active = b
      /\ 1 \in 1 .. PickerSize /\ 1 \in 1 .. PickerRows /\ 1 \in 1 .. 2 /\ 2 \in 1 .. 2
  BY <1>4, PickerConstants DEF PickerAt, PickerFirst, PickerSecond
<1>6. /\ w.initialized => w.cols[2].ready
      /\ ~w.initialized => a = 0 /\ b = 0
  BY <1>5 DEF PickerIInv, PickerUsed
<1>7. /\ PickerStays(w, s) /\ s.cols[1].ready /\ PickerAt(s, a, 0, b, b)
      /\ s.cols[2].ready = w.cols[2].ready
  <2>1. PICK i \in 1 .. 2 : i = 1
    OBVIOUS
  <2>2. /\ PickerStays(w, PickerPage(w, i)) /\ PickerPage(w, i).cols[i].ready
        /\ i = 1 => /\ PickerAt(PickerPage(w, i), a, 0, b, b)
                    /\ PickerPage(w, i).cols[2].ready = w.cols[2].ready
    BY <1>4, PickerNewPage
  <2> QED
    BY <2>1, <2>2
<1> HIDE DEF s, s2, t, u, s1
<1>8. CASE told = {}
  <2>1. s1 = Pick!UpdateFirst(s, 1)
    BY <1>2, <1>8 DEF Pick!UpdateItems
  <2>2. s.cols[2].ready \/ (a = 0 /\ b = 0 /\ 1 = 1)
    BY <1>6, <1>7
  <2>3. PICK one \in 1 .. PickerSize : one = 1
    BY <1>5
  <2>4. /\ PickerSame(s, Pick!UpdateFirst(s, one))
        /\ a = one \/ ~s.cols[2].ready => PickerAt(Pick!UpdateFirst(s, one), one, one, b, b)
        /\ a # one /\ s.cols[2].ready => PickerAt(Pick!UpdateFirst(s, one), one, one, 1, 1)
    BY <1>7, <2>2, <2>3, PickerUpdateFirst
  <2>5. PICK c \in 0 .. PickerRows : PickerSame(s, s1) /\ PickerAt(s1, one, one, c, c)
    <3>1. 1 \in 0 .. PickerRows
      BY PickerConstants
    <3> QED
      BY <2>1, <2>3, <2>4, <3>1
  <2>6. PickerStays(s1, s2) /\ s2.cols[2].ready /\ PickerAt(s2, one, one, c, 0)
        /\ s2.cols[1].ready = s1.cols[1].ready
    <3>1. PICK i \in 1 .. 2 : i = 2
      OBVIOUS
    <3>2. /\ PickerStays(s1, PickerPage(s1, i)) /\ PickerPage(s1, i).cols[i].ready
          /\ i = 2 => /\ PickerAt(PickerPage(s1, i), one, one, c, 0)
                      /\ PickerPage(s1, i).cols[1].ready = s1.cols[1].ready
      BY <2>5, PickerNewPage
    <3> QED
      BY <3>1, <3>2 DEF s2
  <2>7. PICK row \in 1 .. PickerRows : row = 1
    BY <1>5
  <2>8. PickerAt(Pick!UpdateSecond(s2, row), one, one, row, row)
        /\ PickerSame(s2, Pick!UpdateSecond(s2, row))
    BY <2>6, PickerUpdateSecond
  <2>9. t = Pick!UpdateSecond(s2, row) /\ u = t
    BY <1>3, <1>8, <2>7 DEF Pick!UpdateItems, u
  <2>10. PickerAt(u, one, one, row, row) /\ u.cols[1].ready /\ u.cols[2].ready
    BY <1>7, <2>5, <2>6, <2>8, <2>9 DEF PickerSame
  <2>11. PickerGood(u)
    <3>1. one \in 0 .. PickerSize /\ row \in 0 .. PickerRows
      OBVIOUS
    <3> QED
      BY <2>10, <3>1 DEF PickerGood
  <2> QED
    BY <1>1, <2>10, <2>11, PickerOpened
<1>9. CASE told # {}
  <2>1. s1 = s /\ t = s2 /\ u = Pick!SetBoth(t, x)
    BY <1>2, <1>3, <1>9 DEF u
  <2>2. /\ PickerStays(s1, s2) /\ s2.cols[2].ready /\ PickerAt(s2, a, 0, b, 0)
        /\ s2.cols[1].ready = s1.cols[1].ready
    <3>1. PICK i \in 1 .. 2 : i = 2
      OBVIOUS
    <3>2. /\ PickerStays(s1, PickerPage(s1, i)) /\ PickerPage(s1, i).cols[i].ready
          /\ i = 2 => /\ PickerAt(PickerPage(s1, i), a, 0, b, 0)
                      /\ PickerPage(s1, i).cols[1].ready = s1.cols[1].ready
      BY <1>7, <2>1, PickerNewPage
    <3> QED
      BY <3>1, <3>2 DEF s2
  <2> DEFINE p == Pick!SetColumn(t, 1, x[1])
             q == Pick!SetColumn(p, 2, x[2])
  <2>3. u = q
    BY <2>1 DEF Pick!SetBoth
  <2> HIDE DEF x
  <2>4. /\ PickerSame(t, p)
        /\ x[1] \notin Group => p = t
        /\ x[1] \in Group => \E n \in 1 .. PickerSize :
               /\ Pick!Groups[n] = x[1]
               /\ PickerAt(p, n, n, b, 0) \/ PickerAt(p, n, n, 1, 1)
    BY <2>1, <2>2, PickerSetFirst
  <2> HIDE DEF p
  <2>5. PICK n \in 0 .. PickerSize, c \in 0 .. PickerRows, m \in 0 .. PickerRows :
            /\ PickerAt(p, n, n, c, m)
            /\ m = c \/ \E k \in 1 .. PickerRows : x[2] = <<PickerOf(n), k>>
    <3>1. CASE w.initialized
      <4>1. a # 0 /\ b # 0 /\ x = <<Pick!Groups[a], <<Pick!Groups[a], b>>>>
        BY <1>5, <1>9, <3>1 DEF PickerTold, x
      <4>2. x[1] \in Group
        BY <4>1, PickerConstants
      <4>3. PICK n \in 1 .. PickerSize :
               /\ Pick!Groups[n] = x[1]
               /\ PickerAt(p, n, n, b, 0) \/ PickerAt(p, n, n, 1, 1)
        BY <2>4, <4>2
      <4>4. n # 0 /\ n \in 0 .. PickerSize /\ 1 \in 0 .. PickerRows /\ 0 \in 0 .. PickerRows
            /\ b \in 1 .. PickerRows
        BY <4>1, PickerConstants
      <4>5. PickerOf(n) = Pick!Groups[a] /\ x[2] = <<Pick!Groups[a], b>>
        BY <4>1, <4>3, <4>4 DEF PickerOf
      <4>6. \E k \in 1 .. PickerRows : x[2] = <<PickerOf(n), k>>
        BY <4>4, <4>5
      <4> QED
        BY <4>3, <4>4, <4>6
    <3>2. CASE ~w.initialized
      <4>1. a = 0 /\ b = 0
        BY <1>6, <3>2
      <4>2. CASE x[1] \notin Group
        BY <2>1, <2>2, <2>4, <4>1, <4>2
      <4>3. CASE x[1] \in Group
        <5>1. PICK n \in 1 .. PickerSize : PickerAt(p, n, n, b, 0) \/ PickerAt(p, n, n, 1, 1)
          BY <2>4, <4>3
        <5>2. n \in 0 .. PickerSize /\ 1 \in 0 .. PickerRows
          BY PickerConstants
        <5> QED
          BY <4>1, <5>1, <5>2
      <4> QED
        BY <4>2, <4>3
    <3> QED
      BY <3>1, <3>2
  <2>6. /\ PickerSame(p, q)
        /\ q = p \/ \E k \in 1 .. PickerRows : PickerAt(q, n, n, k, k)
        /\ (\E k \in 1 .. PickerRows : x[2] = <<PickerOf(n), k>>) =>
               \E k \in 1 .. PickerRows : PickerAt(q, n, n, k, k)
    BY <2>5, PickerSetSecond
  <2> HIDE DEF q
  <2>7. PickerGood(q)
    <3>1. \A k \in 1 .. PickerRows : k \in 0 .. PickerRows
      OBVIOUS
    <3>2. (q = p /\ PickerAt(p, n, n, c, c)) \/ \E k \in 1 .. PickerRows : PickerAt(q, n, n, k, k)
      BY <2>5, <2>6
    <3> QED
      BY <2>5, <3>1, <3>2 DEF PickerGood
  <2>8. q.cols[1].ready /\ q.cols[2].ready
    BY <1>7, <2>1, <2>2, <2>4, <2>6 DEF PickerSame
  <2> QED
    BY <1>1, <2>3, <2>7, <2>8, PickerOpened
<1> QED
  BY <1>8, <1>9

\* The finger and the close of the page change no column.
LEMMA PickerOthers == PickerIInv /\ (Pick!Close \/ \E i \in Pick!Cols : Pick!TouchStart(i)) => PickerIInv'
<1> SUFFICES ASSUME PickerIInv, Pick!Close \/ \E i \in Pick!Cols : Pick!TouchStart(i) PROVE PickerIInv'
  OBVIOUS
<1>1. PICK opened \in BOOLEAN, touched \in 0 .. 2, moved \in BOOLEAN :
          /\ w' = [w EXCEPT !.opened = opened, !.touched = touched, !.moved = moved]
          /\ w.opened /\ (touched # 0 => opened)
  <2>1. w \in PickerState
    BY DEF PickerIInv, PickerGood, PickerAt
  <2>2. CASE Pick!Close
    <3>1. w.opened /\ w' = [w EXCEPT !.opened = FALSE, !.touched = 0, !.moved = FALSE]
      BY <2>2 DEF Pick!Close
    <3>2. PICK off \in BOOLEAN : off <=> FALSE
      OBVIOUS
    <3>3. PICK zero \in 0 .. 2 : zero = 0
      OBVIOUS
    <3>4. w' = [w EXCEPT !.opened = off, !.touched = zero, !.moved = off] /\ (zero # 0 => off)
      BY <3>1, <3>2, <3>3
    <3> QED
      BY <3>1, <3>4
  <2>3. CASE \E i \in Pick!Cols : Pick!TouchStart(i)
    <3>1. PICK i \in 1 .. 2 : w.opened /\ w' = [w EXCEPT !.touched = i]
      BY <2>3 DEF Pick!TouchStart, Pick!Cols
    <3>2. w' = [w EXCEPT !.opened = w.opened, !.touched = i, !.moved = w.moved]
      BY <2>1, <3>1 DEF PickerState
    <3>3. w.opened \in BOOLEAN /\ w.moved \in BOOLEAN /\ i \in 0 .. 2
      BY <2>1 DEF PickerState
    <3> QED
      BY <3>1, <3>2, <3>3
  <2> QED
    BY <2>2, <2>3
<1>2. PickerGood(w') /\ PickerAside(w, w', w.initialized, opened, touched, moved)
  BY <1>1, PickerFinger DEF PickerIInv
<1> QED
  BY <1>1, <1>2 DEF PickerIInv, PickerUsed, PickerAside

LEMMA PickerInitIInv == Pick!Init => PickerIInv
<1> SUFFICES ASSUME Pick!Init PROVE PickerIInv
  OBVIOUS
<1>1. PICK first \in {{}} \cup {{a} : a \in Pick!Asked} :
          w = [opened |-> FALSE, initialized |-> FALSE, params |-> first,
               cols |-> <<Pick!Col(Pick!Groups), Pick!Col(Pick!Values(Pick!Groups[1]))>>,
               value |-> {}, field |-> {}, touched |-> 0, moved |-> FALSE]
  BY DEF Pick!Init
<1> DEFINE one == Pick!Col(Pick!Groups)
           two == Pick!Col(Pick!Values(Pick!Groups[1]))
<1>2. Pick!Groups[1] \in Group
  BY PickerConstants
<1>3. one \in PickerCol /\ two \in PickerCol
  BY <1>2, PickerValues DEF Pick!Col, PickerCol, PickerList
<1>4. /\ one.values = Pick!Groups /\ one.active = 0 /\ one.lit = 0 /\ one.value = {}
      /\ two.values = Pick!Values(Pick!Groups[1]) /\ two.active = 0 /\ two.lit = 0 /\ two.value = {}
  BY DEF Pick!Col
<1> HIDE DEF one, two
<1>5. <<one, two>> \in [1 .. 2 -> PickerCol]
  BY <1>3
<1>6. first \subseteq Pick!Asked
  OBVIOUS
<1>7. w \in PickerState
  BY <1>1, <1>5, <1>6 DEF PickerState, one, two
<1>8. w.cols[1] = one /\ w.cols[2] = two /\ w.value = {} /\ w.field = {} /\ ~w.initialized
      /\ ~w.opened /\ w.touched = 0
  BY <1>1 DEF one, two
<1>9. PickerFirst(w, 0, 0) /\ PickerTold(w, 0, 0)
  BY <1>4, <1>8 DEF PickerFirst, PickerTold
<1>10. PickerSecond(w, PickerOf(0), 0, 0, PickerHeld(PickerOf(0), 0))
  BY <1>4, <1>8 DEF PickerSecond, PickerHeld, PickerOf
<1>11. 0 \in 0 .. PickerSize /\ 0 \in 0 .. PickerRows
  BY PickerConstants
<1>12. PickerAt(w, 0, 0, 0, 0)
  BY <1>7, <1>9, <1>10, <1>11 DEF PickerAt
<1> QED
  BY <1>4, <1>8, <1>11, <1>12 DEF PickerIInv, PickerGood, PickerUsed

LEMMA PickerStepIInv == PickerIInv /\ [Pick!Next]_w => PickerIInv'
<1> SUFFICES ASSUME PickerIInv, [Pick!Next]_w PROVE PickerIInv'
  OBVIOUS
<1>1. /\ w \in PickerState /\ PickerGood(w) /\ PickerUsed(w)
      /\ w.opened => w.initialized
      /\ w.initialized => w.cols[2].ready
      /\ w.touched \in 0 .. 2 /\ (w.touched # 0 => w.opened)
  BY DEF PickerIInv, PickerGood, PickerAt, PickerUsed, PickerState
<1>2. CASE Pick!Open
  BY <1>2, PickerOpen
<1>3. CASE Pick!Close \/ \E i \in Pick!Cols : Pick!TouchStart(i)
  BY <1>3, PickerOthers
<1>4. CASE Pick!Resize
  <2> DEFINE t == Pick!ShowColumn(w, 1)
             u == Pick!ShowColumn(t, 2)
  <2>1. w.initialized /\ w' = u /\ 1 \in 1 .. 2 /\ 2 \in 1 .. 2
    BY <1>1, <1>4 DEF Pick!Resize
  <2>2. PickerGood(t) /\ PickerSame(w, t)
    BY <1>1, <2>1, PickerShow
  <2> HIDE DEF t
  <2>3. PickerGood(u) /\ PickerSame(t, u)
    BY <2>1, <2>2, PickerShow
  <2> HIDE DEF u
  <2>4. PickerSame(w, u)
    BY <2>2, <2>3 DEF PickerSame
  <2> QED
    BY <1>1, <2>1, <2>3, <2>4, PickerKept
<1>5. CASE \E a \in Pick!Asked : Pick!SetValue(a)
  <2>1. PICK a \in Pick!Asked : w.initialized /\ w' = Pick!SetBoth(w, a)
    BY <1>5 DEF Pick!SetValue
  <2>2. PickerGood(w') /\ PickerSame(w, w')
    BY <1>1, <2>1, PickerSetBoth
  <2> QED
    BY <1>1, <2>1, <2>2, PickerKept
<1>6. CASE \E i \in Pick!Cols : \E row \in DOMAIN w.cols[i].values : Pick!Click(i, row)
  <2>1. PICK i \in Pick!Cols : \E row \in DOMAIN w.cols[i].values : Pick!Click(i, row)
    BY <1>6
  <2>2. PICK row \in DOMAIN w.cols[i].values : w.opened /\ w' = Pick!UpdateItems(w, i, row)
    BY <2>1 DEF Pick!Click
  <2>3. PickerGood(w') /\ PickerSame(w, w')
    BY <1>1, <2>2, PickerUpdates
  <2> QED
    BY <1>1, <2>2, <2>3, PickerKept
<1>7. CASE \E row \in 1 .. Len(Pick!Groups) + PickerRows : Pick!TouchMove(row)
  <2> DEFINE u(row) == Pick!UpdateItems(w, w.touched, row)
  <2>1. PICK row \in 1 .. Len(Pick!Groups) + PickerRows :
            w.touched # 0 /\ row \in DOMAIN w.cols[w.touched].values
            /\ w' = [u(row) EXCEPT !.moved = TRUE]
    BY <1>7 DEF Pick!TouchMove
  <2>2. w.touched \in Pick!Cols /\ w.opened /\ w.cols[2].ready
    BY <1>1, <2>1 DEF Pick!Cols
  <2>3. PickerGood(u(row)) /\ PickerSame(w, u(row))
    BY <1>1, <2>1, <2>2, PickerUpdates
  <2> DEFINE s == u(row)
  <2> HIDE DEF u
  <2>4. w' = [s EXCEPT !.opened = s.opened, !.touched = s.touched, !.moved = TRUE]
    <3>1. s \in PickerState
      BY <2>3 DEF PickerGood, PickerAt
    <3> QED
      BY <2>1, <3>1 DEF PickerState
  <2> HIDE DEF s
  <2>5. PickerUsed(s) /\ PickerGood(s) /\ s.initialized /\ s.opened = w.opened
        /\ s.touched = w.touched
    <3>1. PickerGood(s) /\ PickerSame(w, s)
      BY <2>3 DEF s
    <3>2. s.initialized /\ s.opened = w.opened /\ s.touched = w.touched
      BY <1>1, <2>2, <3>1 DEF PickerSame
    <3>3. PickerUsed(s)
      BY <1>1, <3>1, <3>2 DEF PickerUsed, PickerSame
    <3> QED
      BY <3>1, <3>2, <3>3
  <2>6. PICK moved \in BOOLEAN : moved = TRUE
    OBVIOUS
  <2>7. s.opened \in BOOLEAN /\ s.touched \in 0 .. 2
    BY <1>1, <2>5 DEF PickerState
  <2>8. PickerGood(w') /\ PickerAside(s, w', s.initialized, s.opened, s.touched, moved)
    BY <2>4, <2>5, <2>6, <2>7, PickerFinger
  <2> QED
    BY <2>5, <2>8 DEF PickerIInv, PickerUsed, PickerAside
<1>8. CASE Pick!TouchEnd
  <2> DEFINE s == [w EXCEPT !.touched = 0, !.moved = FALSE]
  <2>1. /\ w.touched # 0 /\ w.opened
        /\ w' = s \/ \E row \in DOMAIN w.cols[w.touched].values : w' = Pick!UpdateItems(s, w.touched, row)
    BY <1>1, <1>8 DEF Pick!TouchEnd
  <2>2. s = [w EXCEPT !.opened = w.opened, !.touched = 0, !.moved = FALSE]
    BY <1>1 DEF PickerState
  <2> HIDE DEF s
  <2>11. PICK moved \in BOOLEAN : moved <=> FALSE
    OBVIOUS
  <2>12. PICK touched \in 0 .. 2 : touched = 0
    OBVIOUS
  <2>3. touched = 0 /\ moved = FALSE
    BY <2>11, <2>12
  <2>4. w.opened \in BOOLEAN
    BY <1>1 DEF PickerState
  <2>5. PickerGood(s) /\ PickerAside(w, s, w.initialized, w.opened, touched, moved)
    BY <1>1, <2>2, <2>3, <2>4, PickerFinger
  <2>6. PickerUsed(s) /\ s.cols = w.cols /\ s.initialized
    BY <1>1, <2>1, <2>3, <2>5 DEF PickerUsed, PickerAside
  <2>7. CASE w' = s
    BY <2>5, <2>6, <2>7 DEF PickerIInv
  <2>8. CASE w' # s
    <3>1. PICK row \in DOMAIN w.cols[w.touched].values : w' = Pick!UpdateItems(s, w.touched, row)
      BY <2>1, <2>8
    <3>2. w.touched \in Pick!Cols /\ s.cols[2].ready
      BY <1>1, <2>1, <2>6 DEF Pick!Cols, PickerUsed
    <3>3. row \in DOMAIN s.cols[w.touched].values
      BY <2>6
    <3>4. PickerGood(w') /\ PickerSame(s, w')
      BY <2>5, <3>1, <3>2, <3>3, PickerUpdates
    <3> QED
      BY <2>6, <3>4, PickerKept
  <2> QED
    BY <2>7, <2>8
<1>9. CASE UNCHANGED w
  <2>1. PickerGood(w') /\ PickerSame(w, w')
    BY <1>1, <1>9 DEF PickerSame
  <2> QED
    BY <1>1, <1>9 DEF PickerIInv
<1> QED
  BY <1>2, <1>3, <1>4, <1>5, <1>6, <1>7, <1>8, <1>9 DEF Pick!Next

LEMMA PickerFieldFollows == PickerIInv => Pick!FieldFollows
<1> SUFFICES ASSUME PickerIInv PROVE Pick!FieldFollows
  OBVIOUS
<1>1. PICK a \in 0 .. PickerSize, b \in 0 .. PickerRows : PickerAt(w, a, a, b, b)
  BY DEF PickerIInv, PickerGood
<1>2. /\ PickerFirst(w, a, a) /\ PickerSecond(w, PickerOf(a), b, b, PickerHeld(PickerOf(a), b))
      /\ PickerTold(w, a, b)
      /\ PickerOf(a) \in Group
  BY <1>1, PickerOfTyped DEF PickerAt
<1>3. ASSUME NEW x \in w.value
      PROVE  /\ \E n \in 1 .. PickerRows : x[2] = Pick!Values(x[1])[n]
             /\ \A i \in Pick!Cols : w.cols[i].value = {x[i]}
             /\ w.opened => \A i \in Pick!Cols :
                    w.cols[i].lit # 0 /\ w.cols[i].values[w.cols[i].lit] = x[i]
  <2>1. a # 0 /\ b # 0 /\ x = <<Pick!Groups[a], <<Pick!Groups[a], b>>>>
    BY <1>2 DEF PickerTold
  <2> DEFINE g == Pick!Groups[a]
  <2>2. PickerOf(a) = g /\ g \in Group /\ b \in 1 .. PickerRows
    BY <1>2, <2>1 DEF PickerOf
  <2> HIDE DEF g
  <2>3. x[1] = g /\ x[2] = <<g, b>>
    BY <2>1 DEF g
  <2>4. Pick!Values(g)[b] = <<g, b>>
    BY <2>2, PickerValues
  <2>5. w.cols[1].value = {g} /\ w.cols[1].lit = a /\ w.cols[1].values[a] = g
    BY <1>2, <2>1 DEF PickerFirst, g
  <2>6. w.cols[2].value = {<<g, b>>} /\ w.cols[2].lit = b /\ w.cols[2].values[b] = <<g, b>>
    BY <1>2, <2>1, <2>2, <2>4 DEF PickerSecond, PickerHeld
  <2>7. \A i \in Pick!Cols : i = 1 \/ i = 2
    BY DEF Pick!Cols
  <2>8. \A i \in Pick!Cols : w.cols[i].value = {x[i]} /\ w.cols[i].lit # 0 /\ w.cols[i].values[w.cols[i].lit] = x[i]
    BY <2>1, <2>3, <2>5, <2>6, <2>7
  <2> QED
    BY <2>2, <2>3, <2>4, <2>8
<1>4. ASSUME w.value = {} PROVE \E i \in Pick!Cols : w.cols[i].value = {}
  <2>1. a = 0 \/ b = 0
    BY <1>2, <1>4 DEF PickerTold
  <2>2. w.cols[1].value = {} \/ w.cols[2].value = {}
    BY <1>2, <2>1 DEF PickerFirst, PickerSecond, PickerHeld
  <2> QED
    BY <2>2 DEF Pick!Cols
<1>5. w.field = w.value
  BY <1>2 DEF PickerTold
<1> QED
  BY <1>3, <1>4, <1>5 DEF Pick!FieldFollows

-----------------------------------------------------------------------------
(* VirtualList: no item twice, and a cache that is renumbered with the items. *)
ListsRow == [index : List!Index, shows : Item]

ListsState ==
    [items : Seq(Item), searching : BOOLEAN, filtered : Seq(Item),
     cache : [List!Index -> Item \cup {NoItem}], top : Nat, from : Nat,
     rows : Seq(ListsRow), astray : BOOLEAN]

\* A row of the cache shows the item that has its index.
ListsSame(cache, items) ==
    \A i \in List!Index : cache[i] # NoItem =>
        i \in 0 .. Len(items) - 1 /\ cache[i] = items[i + 1]

\* The list can be rendered: no item is listed twice, a search has found items
\* that are still there, and the cache has been renumbered.
ListsReady(s) ==
    /\ s \in ListsState
    /\ List!Distinct(s.items) /\ List!Distinct(s.filtered)
    /\ List!Within(s.filtered) \subseteq List!Within(s.items)
    /\ ~s.searching => s.filtered = <<>>
    /\ ~s.astray => ListsSame(s.cache, s.items)

\* The rows in the page are those of the items around the top of the screen.
ListsShown(s) ==
    /\ \A n \in DOMAIN s.rows :
           /\ s.rows[n].shows = List!Listed(s)[s.from + n]
           /\ s.items[s.rows[n].index + 1] = s.rows[n].shows
    /\ List!Listed(s) # <<>> => \E n \in DOMAIN s.rows : s.from + n = s.top + 1

ListsTop(s) == List!Listed(s) # <<>> => s.top < Len(List!Listed(s))

ListsGood(s) == ListsReady(s) /\ (~s.astray => ListsShown(s))

ListsIInv == ListsGood(w)

-----------------------------------------------------------------------------
LEMMA ListsItems == PagePartsAssumption =>
    /\ IsFiniteSet(Item) /\ NoItem \notin Item /\ RowsBefore \in Nat
    /\ RowsToRender \in Nat /\ RowsBefore < RowsToRender
    /\ List!MaxItems = Cardinality(Item) /\ List!MaxItems \in Nat
<1> SUFFICES ASSUME PagePartsAssumption
             PROVE  /\ IsFiniteSet(Item) /\ NoItem \notin Item /\ RowsBefore \in Nat
                    /\ RowsToRender \in Nat /\ RowsBefore < RowsToRender
                    /\ List!MaxItems = Cardinality(Item) /\ List!MaxItems \in Nat
  OBVIOUS
<1>1. IsFiniteSet(Item)
  BY DEF PagePartsAssumption, List!VirtualListAssumption, List!IsFiniteSet, IsFiniteSet
<1>2. List!MaxItems = Cardinality(Item)
  BY DEF List!MaxItems, List!Cardinality, Cardinality
<1>3. Cardinality(Item) \in Nat
  BY <1>1, FS_CardinalityType
<1> QED
  BY <1>1, <1>2, <1>3 DEF PagePartsAssumption, List!VirtualListAssumption

\* There is an index for every item of a list that has none twice.
LEMMA ListsLength ==
    ASSUME PagePartsAssumption, NEW q \in Seq(Item), List!Distinct(q)
    PROVE  Len(q) \in Nat /\ Len(q) <= List!MaxItems
<1>1. q \in [1 .. Len(q) -> Item] /\ Len(q) \in Nat
  BY LenProperties
<1>2. q \in Injection(1 .. Len(q), Item)
  BY <1>1 DEF List!Distinct, Injection, IsInjective
<1>3. IsFiniteSet(Item)
  BY ListsItems
<1>4. Cardinality(1 .. Len(q)) <= Cardinality(Item)
  BY <1>2, <1>3, FS_Injection
<1>5. Cardinality(1 .. Len(q)) = Len(q)
  <2>1. PICK one \in Int : one = 1
    OBVIOUS
  <2>2. Len(q) \in Int
    BY <1>1
  <2>3. Cardinality(one .. Len(q)) = IF one > Len(q) THEN 0 ELSE Len(q) - one + 1
    BY <2>2, FS_Interval
  <2> QED
    BY <2>1, <2>3, <1>1
<1> QED
  BY <1>1, <1>4, <1>5, ListsItems

LEMMA ListsIndexOf ==
    ASSUME NEW q \in Seq(Item), NEW x \in List!Within(q)
    PROVE  /\ List!IndexOf(q, x) \in 0 .. Len(q) - 1
           /\ q[List!IndexOf(q, x) + 1] = x
<1>1. DOMAIN q = 1 .. Len(q) /\ Len(q) \in Nat
  BY LenProperties
<1>2. \E n \in DOMAIN q : q[n] = x
  BY DEF List!Within
<1> DEFINE at == CHOOSE n \in DOMAIN q : q[n] = x
<1>3. at \in DOMAIN q /\ q[at] = x
  BY <1>2
<1>4. List!IndexOf(q, x) = at - 1
  BY DEF List!IndexOf
<1> HIDE DEF at
<1>5. at - 1 \in 0 .. Len(q) - 1 /\ (at - 1) + 1 = at
  BY <1>1, <1>3
<1> QED
  BY <1>3, <1>4, <1>5

\* What splice does, with an item taken out or put in.
LEMMA ListsSpliced ==
    ASSUME NEW q \in Seq(Item), List!Distinct(q), NEW i \in 0 .. Len(q) - 1
    PROVE  /\ List!Splice(q, i) \in Seq(Item) /\ Len(List!Splice(q, i)) = Len(q) - 1
           /\ \A n \in 1 .. Len(q) - 1 :
                  List!Splice(q, i)[n] = IF n <= i THEN q[n] ELSE q[n + 1]
           /\ List!Distinct(List!Splice(q, i))
           /\ q[i + 1] \in Item
           /\ List!Within(List!Splice(q, i)) = List!Within(q) \ {q[i + 1]}
<1> DEFINE p == [n \in 1 .. Len(q) - 1 |-> IF n <= i THEN q[n] ELSE q[n + 1]]
<1>1. /\ Len(q) \in Nat \ {0} /\ DOMAIN q = 1 .. Len(q) /\ \A n \in 1 .. Len(q) : q[n] \in Item
      /\ i + 1 \in 1 .. Len(q)
  BY LenProperties
<1>2. List!Splice(q, i) = p
  BY DEF List!Splice
<1>3. \A n \in 1 .. Len(q) - 1 : n \in 1 .. Len(q) /\ n + 1 \in 1 .. Len(q)
  BY <1>1
<1>4. p \in [1 .. Len(q) - 1 -> Item] /\ Len(q) - 1 \in Nat
  BY <1>1, <1>3
<1>5. p \in Seq(Item) /\ Len(p) = Len(q) - 1 /\ DOMAIN p = 1 .. Len(q) - 1
  BY <1>4
<1>6. \A n \in 1 .. Len(q) - 1 : p[n] = IF n <= i THEN q[n] ELSE q[n + 1]
  OBVIOUS
<1> HIDE DEF p
<1>7. List!Distinct(p)
  <2> SUFFICES ASSUME NEW m \in 1 .. Len(q) - 1, NEW n \in 1 .. Len(q) - 1, p[m] = p[n]
               PROVE  m = n
    BY <1>5 DEF List!Distinct
  <2> DEFINE a == IF m <= i THEN m ELSE m + 1
             b == IF n <= i THEN n ELSE n + 1
  <2>1. a \in 1 .. Len(q) /\ b \in 1 .. Len(q) /\ q[a] = q[b]
    BY <1>3, <1>6
  <2>2. a = b
    BY <2>1, <1>1 DEF List!Distinct
  <2> QED
    BY <2>2
<1>8. List!Within(p) \subseteq List!Within(q) \ {q[i + 1]}
  <2> SUFFICES ASSUME NEW n \in 1 .. Len(q) - 1
               PROVE  p[n] \in List!Within(q) /\ p[n] # q[i + 1]
    BY <1>5 DEF List!Within
  <2> DEFINE a == IF n <= i THEN n ELSE n + 1
  <2>1. a \in 1 .. Len(q) /\ p[n] = q[a] /\ a # i + 1
    BY <1>3, <1>6
  <2> HIDE DEF a
  <2> QED
    BY <2>1, <1>1 DEF List!Within, List!Distinct
<1>9. List!Within(q) \ {q[i + 1]} \subseteq List!Within(p)
  <2> SUFFICES ASSUME NEW n \in 1 .. Len(q), q[n] # q[i + 1] PROVE q[n] \in List!Within(p)
    BY <1>1 DEF List!Within
  <2> DEFINE a == IF n <= i THEN n ELSE n - 1
  <2>1. n # i + 1
    OBVIOUS
  <2>2. a \in 1 .. Len(q) - 1 /\ (IF a <= i THEN a ELSE a + 1) = n
    BY <2>1, <1>1
  <2>3. p[a] = q[n]
    BY <2>2, <1>6
  <2> HIDE DEF a
  <2> QED
    BY <2>2, <2>3, <1>5 DEF List!Within
<1> QED
  BY <1>1, <1>2, <1>5, <1>6, <1>7, <1>8, <1>9

LEMMA ListsInserted ==
    ASSUME NEW q \in Seq(Item), List!Distinct(q), NEW i \in 0 .. Len(q),
           NEW x \in Item \ List!Within(q)
    PROVE  /\ List!Insert(q, i, x) \in Seq(Item) /\ Len(List!Insert(q, i, x)) = Len(q) + 1
           /\ \A n \in 1 .. Len(q) + 1 :
                  List!Insert(q, i, x)[n] =
                      IF n <= i THEN q[n] ELSE IF n = i + 1 THEN x ELSE q[n - 1]
           /\ List!Distinct(List!Insert(q, i, x))
           /\ List!Within(List!Insert(q, i, x)) = List!Within(q) \cup {x}
<1> DEFINE p == [n \in 1 .. Len(q) + 1 |->
                    IF n <= i THEN q[n] ELSE IF n = i + 1 THEN x ELSE q[n - 1]]
<1>1. /\ Len(q) \in Nat /\ DOMAIN q = 1 .. Len(q) /\ \A n \in 1 .. Len(q) : q[n] \in Item
      /\ i + 1 \in 1 .. Len(q) + 1
  BY LenProperties
<1>2. List!Insert(q, i, x) = p
  BY DEF List!Insert
<1>3. \A n \in 1 .. Len(q) + 1 : (n <= i => n \in 1 .. Len(q))
          /\ (~(n <= i) /\ n # i + 1 => n - 1 \in 1 .. Len(q))
  BY <1>1
<1>4. p \in [1 .. Len(q) + 1 -> Item] /\ Len(q) + 1 \in Nat
  BY <1>1, <1>3
<1>5. p \in Seq(Item) /\ Len(p) = Len(q) + 1 /\ DOMAIN p = 1 .. Len(q) + 1
  BY <1>4
<1>6. \A n \in 1 .. Len(q) + 1 :
          p[n] = IF n <= i THEN q[n] ELSE IF n = i + 1 THEN x ELSE q[n - 1]
  OBVIOUS
<1> HIDE DEF p
<1>7. \A n \in 1 .. Len(q) : q[n] # x
  BY <1>1 DEF List!Within
<1>8. List!Distinct(p)
  <2>1. p[i + 1] = x
    BY <1>1, <1>6
  <2>2. ASSUME NEW n \in 1 .. Len(q) + 1, n # i + 1
        PROVE  \E b \in 1 .. Len(q) : p[n] = q[b] /\ n = IF b <= i THEN b ELSE b + 1
    <3>1. n \in Int /\ i \in Int
      BY <1>1
    <3>2. CASE n <= i
      <4>1. n \in 1 .. Len(q) /\ p[n] = q[n]
        BY <3>2, <1>3, <1>6
      <4> QED
        BY <3>2, <4>1
    <3>3. CASE ~(n <= i)
      <4> DEFINE b == n - 1
      <4>1. b \in 1 .. Len(q) /\ p[n] = q[b]
        BY <2>2, <3>3, <1>3, <1>6
      <4>2. ~(b <= i) /\ b + 1 = n
        BY <2>2, <3>1, <3>3
      <4> HIDE DEF b
      <4> QED
        BY <4>1, <4>2
    <3> QED
      BY <3>2, <3>3
  <2>3. ASSUME NEW n \in 1 .. Len(q) + 1, n # i + 1 PROVE p[n] # x
    <3>1. PICK b \in 1 .. Len(q) : p[n] = q[b]
      BY <2>2, <2>3
    <3> QED
      BY <3>1, <1>7
  <2> SUFFICES ASSUME NEW m \in 1 .. Len(q) + 1, NEW n \in 1 .. Len(q) + 1, p[m] = p[n]
               PROVE  m = n
    BY <1>5 DEF List!Distinct
  <2>4. CASE m = i + 1 \/ n = i + 1
    BY <2>1, <2>3, <2>4
  <2>5. CASE m # i + 1 /\ n # i + 1
    <3>1. PICK a \in 1 .. Len(q) : p[m] = q[a] /\ m = IF a <= i THEN a ELSE a + 1
      BY <2>2, <2>5
    <3>2. PICK b \in 1 .. Len(q) : p[n] = q[b] /\ n = IF b <= i THEN b ELSE b + 1
      BY <2>2, <2>5
    <3>3. a = b
      BY <3>1, <3>2, <1>1 DEF List!Distinct
    <3> QED
      BY <3>1, <3>2, <3>3
  <2> QED
    BY <2>4, <2>5
<1>9. List!Within(p) \subseteq List!Within(q) \cup {x}
  <2> SUFFICES ASSUME NEW n \in 1 .. Len(q) + 1 PROVE p[n] \in List!Within(q) \cup {x}
    BY <1>5 DEF List!Within
  <2> QED
    BY <1>1, <1>3, <1>6 DEF List!Within
<1>10. List!Within(q) \cup {x} \subseteq List!Within(p)
  <2>1. ASSUME NEW n \in 1 .. Len(q) PROVE q[n] \in List!Within(p)
    <3> DEFINE a == IF n <= i THEN n ELSE n + 1
    <3>1. a \in 1 .. Len(q) + 1 /\ p[a] = q[n]
      BY <1>1, <1>6
    <3> HIDE DEF a
    <3> QED
      BY <3>1, <1>5 DEF List!Within
  <2>2. p[i + 1] = x
    BY <1>1, <1>6
  <2> QED
    BY <2>1, <2>2, <1>1, <1>5 DEF List!Within
<1> QED
  BY <1>2, <1>5, <1>6, <1>8, <1>9, <1>10

LEMMA ListsWithout ==
    ASSUME NEW q \in Seq(Item), List!Distinct(q), NEW x \in Item
    PROVE  /\ List!Without(q, x) \in Seq(Item) /\ List!Distinct(List!Without(q, x))
           /\ List!Within(List!Without(q, x)) = List!Within(q) \ {x}
           /\ q = <<>> => List!Without(q, x) = <<>>
<1>1. CASE x \notin List!Within(q)
  BY <1>1 DEF List!Without
<1>2. CASE x \in List!Within(q)
  <2>1. /\ List!IndexOf(q, x) \in 0 .. Len(q) - 1
        /\ q[List!IndexOf(q, x) + 1] = x
    BY <1>2, ListsIndexOf
  <2>2. List!Without(q, x) = List!Splice(q, List!IndexOf(q, x))
    BY <1>2 DEF List!Without
  <2>3. q # <<>>
    BY <1>2 DEF List!Within
  <2> QED
    BY <2>1, <2>2, <2>3, ListsSpliced
<1> QED
  BY <1>1, <1>2

\* Rendering puts the items at the top of the screen into the page.
LEMMA ListsRendered ==
    ASSUME PagePartsAssumption, NEW s, ListsReady(s), ListsTop(s)
    PROVE  ListsGood(List!Render(s))
<1> DEFINE shown == List!Listed(s)
           first == IF s.top < RowsBefore THEN 0 ELSE s.top - RowsBefore
           last == IF first + RowsToRender < Len(shown) THEN first + RowsToRender ELSE Len(shown)
           rows == [n \in 1 .. last - first |-> List!RowOf(s, shown[first + n])]
           cache == [i \in List!Index |->
                        IF \E r \in List!Within(rows) : r.index = i
                        THEN (CHOOSE r \in List!Within(rows) : r.index = i).shows ELSE s.cache[i]]
<1>1. /\ s \in ListsState /\ s.items \in Seq(Item) /\ s.filtered \in Seq(Item)
      /\ s.searching \in BOOLEAN /\ s.top \in Nat /\ s.astray \in BOOLEAN
      /\ s.cache \in [List!Index -> Item \cup {NoItem}]
  BY DEF ListsReady, ListsState
<1>2. /\ shown \in Seq(Item) /\ List!Within(shown) \subseteq List!Within(s.items)
      /\ Len(shown) \in Nat /\ DOMAIN shown = 1 .. Len(shown)
  <2>1. /\ shown \in Seq(Item) /\ List!Within(shown) \subseteq List!Within(s.items)
    BY <1>1 DEF ListsReady, List!Listed
  <2> QED
    BY <2>1, LenProperties
<1>17. shown # <<>> => s.top < Len(shown)
  BY DEF ListsTop
<1>18. List!Render(s) = [s EXCEPT !.from = first, !.rows = rows, !.cache = cache]
  BY DEF List!Render
<1> HIDE DEF shown
<1>3. /\ NoItem \notin Item /\ RowsBefore \in Nat /\ RowsToRender \in Nat
      /\ RowsBefore < RowsToRender /\ List!MaxItems \in Nat /\ Len(s.items) \in Nat
      /\ Len(s.items) <= List!MaxItems
  BY <1>1, ListsItems, ListsLength DEF ListsReady
<1>4. first \in Nat /\ first <= s.top /\ s.top <= first + RowsBefore
  BY <1>1, <1>3
<1> HIDE DEF first
<1>20. Len(shown) \in Nat /\ first \in Nat
  BY <1>2, <1>4
<1>21. RowsToRender \in Nat /\ RowsBefore \in Nat /\ RowsBefore < RowsToRender
  BY <1>3
<1>5. last \in Nat /\ last <= Len(shown) /\ (last = first + RowsToRender \/ last = Len(shown))
  BY <1>20, <1>21
<1> HIDE DEF last
<1>6. ASSUME NEW n \in 1 .. last - first
      PROVE  shown[first + n] \in List!Within(s.items) /\ shown[first + n] \in Item
  <2>1. first + n \in 1 .. Len(shown)
    BY <1>5, <1>20
  <2>2. shown[first + n] \in List!Within(shown)
    BY <2>1, <1>2 DEF List!Within
  <2>3. shown[first + n] \in Item
    BY <2>1, <1>2
  <2> QED
    BY <2>2, <2>3, <1>2
<1>7. ASSUME NEW x \in List!Within(s.items), x \in Item
      PROVE  /\ List!RowOf(s, x) \in ListsRow
             /\ s.items[List!RowOf(s, x).index + 1] = x
             /\ List!RowOf(s, x).index \in 0 .. Len(s.items) - 1
             /\ ~s.astray => List!RowOf(s, x).shows = x
  <2> DEFINE i == List!IndexOf(s.items, x)
  <2>1. i \in 0 .. Len(s.items) - 1 /\ s.items[i + 1] = x
    BY <1>1, ListsIndexOf
  <2>2. List!RowOf(s, x) = [index |-> i, shows |-> IF s.cache[i] # NoItem THEN s.cache[i] ELSE x]
    BY DEF List!RowOf
  <2> HIDE DEF i
  <2>3. i \in List!Index
    BY <2>1, <1>3 DEF List!Index
  <2>4. s.cache[i] \in Item \cup {NoItem}
    BY <2>3, <1>1
  <2>5. ASSUME ~s.astray, s.cache[i] # NoItem PROVE s.cache[i] = x
    BY <2>1, <2>3, <2>5 DEF ListsReady, ListsSame
  <2> QED
    BY <2>1, <2>2, <2>3, <2>4, <2>5, <1>7 DEF ListsRow
<1>8. /\ DOMAIN rows = 1 .. last - first
      /\ \A n \in 1 .. last - first : rows[n] = List!RowOf(s, shown[first + n])
  OBVIOUS
<1> HIDE DEF rows
<1>9. \A n \in 1 .. last - first :
          /\ rows[n] \in ListsRow
          /\ s.items[rows[n].index + 1] = shown[first + n]
          /\ rows[n].index \in 0 .. Len(s.items) - 1
          /\ ~s.astray => rows[n].shows = shown[first + n]
  BY <1>6, <1>7, <1>8
<1>10. rows \in Seq(ListsRow)
  <2> DEFINE m == IF last - first < 0 THEN 0 ELSE last - first
  <2>1. m \in Nat /\ 1 .. last - first = 1 .. m
    BY <1>4, <1>5
  <2> HIDE DEF m
  <2>2. rows = [n \in 1 .. last - first |-> List!RowOf(s, shown[first + n])]
    BY DEF rows
  <2>3. rows \in [1 .. m -> ListsRow]
    BY <2>1, <2>2, <1>8, <1>9
  <2> QED
    BY <2>1, <2>3
<1>11. ASSUME NEW i \in List!Index
       PROVE  /\ cache[i] \in Item \cup {NoItem}
              /\ ~s.astray /\ cache[i] # NoItem =>
                    i \in 0 .. Len(s.items) - 1 /\ cache[i] = s.items[i + 1]
  <2>1. CASE \E r \in List!Within(rows) : r.index = i
    <3> DEFINE r == CHOOSE r \in List!Within(rows) : r.index = i
    <3>1. r \in List!Within(rows) /\ r.index = i
      BY <2>1
    <3>2. cache[i] = r.shows
      BY <2>1
    <3> HIDE DEF r, cache
    <3>3. PICK n \in 1 .. last - first : r = rows[n]
      BY <3>1, <1>8 DEF List!Within
    <3>4. r.shows \in Item
      BY <3>3, <1>9 DEF ListsRow
    <3> QED
      BY <3>1, <3>2, <3>3, <3>4, <1>9
  <2>2. CASE ~(\E r \in List!Within(rows) : r.index = i)
    <3>1. cache[i] = s.cache[i]
      BY <2>2
    <3> HIDE DEF cache
    <3> QED
      BY <3>1, <1>1 DEF ListsReady, ListsSame
  <2> QED
    BY <2>1, <2>2
<1>12. cache \in [List!Index -> Item \cup {NoItem}]
  BY <1>11
<1> HIDE DEF cache
<1> DEFINE t == List!Render(s)
<1>13. t \in ListsState
  BY <1>1, <1>4, <1>18, <1>10, <1>12 DEF ListsState, t
<1>14. /\ t.items = s.items /\ t.searching = s.searching /\ t.filtered = s.filtered
       /\ t.cache = cache /\ t.top = s.top /\ t.from = first /\ t.rows = rows
       /\ t.astray = s.astray
  BY <1>1, <1>18 DEF ListsState, t
<1> HIDE DEF t
<1>15. ListsReady(t)
  <2>1. ~s.astray => ListsSame(cache, s.items)
    BY <1>11 DEF ListsSame
  <2> QED
    BY <2>1, <1>13, <1>14 DEF ListsReady
<1>16. List!Listed(t) = shown
  BY <1>14 DEF shown, List!Listed
<1>19. ASSUME ~s.astray PROVE ListsShown(t)
  <2>1. \A n \in DOMAIN t.rows :
           /\ t.rows[n].shows = shown[first + n]
           /\ t.items[t.rows[n].index + 1] = t.rows[n].shows
    BY <1>8, <1>9, <1>14, <1>19
  <2>2. ASSUME shown # <<>> PROVE \E n \in DOMAIN t.rows : first + n = s.top + 1
    <3>1. s.top < Len(shown)
      BY <2>2, <1>17
    <3>2. s.top + 1 <= last
      <4>1. s.top \in Nat
        BY <1>1
      <4> QED
        BY <3>1, <4>1, <1>4, <1>5, <1>20, <1>21
    <3>3. s.top + 1 - first \in 1 .. last - first /\ first + (s.top + 1 - first) = s.top + 1
      BY <3>2, <1>1, <1>4, <1>5
    <3> QED
      BY <3>3, <1>8, <1>14
  <2> QED
    BY <2>1, <2>2, <1>14, <1>16 DEF ListsShown
<1> QED
  BY <1>14, <1>15, <1>19 DEF ListsGood, t

\* After every change of the items the top of the screen is at one of them.
LEMMA ListsUpdated ==
    ASSUME PagePartsAssumption, NEW s, ListsReady(s)
    PROVE  ListsGood(List!Update(s))
<1> DEFINE rows == Len(List!Listed(s))
           top == IF s.top < rows THEN s.top ELSE IF rows = 0 THEN 0 ELSE rows - 1
           t == [s EXCEPT !.top = top]
<1>1. s \in ListsState /\ s.top \in Nat /\ List!Listed(s) \in Seq(Item)
  BY DEF ListsReady, ListsState, List!Listed
<1>2. rows \in Nat /\ (List!Listed(s) # <<>> => rows # 0)
  BY <1>1, EmptySeq, LenProperties
<1>3. List!Update(s) = List!Render(t)
  BY DEF List!Update
<1> HIDE DEF rows
<1>4. top \in Nat /\ (List!Listed(s) # <<>> => top < rows)
  BY <1>1, <1>2
<1> HIDE DEF top
<1>5. t \in ListsState
  BY <1>1, <1>4 DEF ListsState
<1>6. /\ t.items = s.items /\ t.searching = s.searching /\ t.filtered = s.filtered
      /\ t.cache = s.cache /\ t.top = top /\ t.astray = s.astray
  BY <1>1 DEF ListsState
<1> HIDE DEF t
<1>7. ListsReady(t)
  BY <1>5, <1>6 DEF ListsReady
<1>8. List!Listed(t) = List!Listed(s)
  BY <1>6 DEF List!Listed
<1>9. ListsTop(t)
  BY <1>4, <1>6, <1>8 DEF rows, ListsTop
<1> QED
  BY <1>3, <1>7, <1>9, ListsRendered

LEMMA ListsNoRows ==
    ASSUME NEW items
    PROVE  List!NoRows \in [List!Index -> Item \cup {NoItem}] /\ ListsSame(List!NoRows, items)
  BY DEF List!NoRows, ListsSame

LEMMA ListsInitIInv == PagePartsAssumption /\ List!Init => ListsIInv
<1> SUFFICES ASSUME PagePartsAssumption, List!Init PROVE ListsGood(w)
  BY DEF ListsIInv
<1> DEFINE s == [items |-> <<>>, searching |-> FALSE, filtered |-> <<>>, cache |-> List!NoRows,
                 top |-> 0, from |-> 0, rows |-> <<>>, astray |-> FALSE]
<1>1. w = List!Update(s)
  BY DEF List!Init
<1>2. List!NoRows \in [List!Index -> Item \cup {NoItem}] /\ ListsSame(List!NoRows, <<>>)
  BY ListsNoRows
<1>3. <<>> \in Seq(Item) /\ <<>> \in Seq(ListsRow) /\ List!Distinct(<<>>)
  BY DEF List!Distinct
<1>4. s \in ListsState
  BY <1>2, <1>3 DEF ListsState
<1>5. /\ s.items = <<>> /\ s.filtered = <<>> /\ s.searching = FALSE
      /\ s.cache = List!NoRows /\ s.astray = FALSE
  OBVIOUS
<1> HIDE DEF s
<1>6. ListsReady(s)
  BY <1>2, <1>3, <1>4, <1>5 DEF ListsReady
<1> QED
  BY <1>1, <1>6, ListsUpdated

LEMMA ListsTyped ==
    ASSUME ListsGood(w)
    PROVE  /\ w \in ListsState /\ w.items \in Seq(Item) /\ w.filtered \in Seq(Item)
           /\ w.searching \in BOOLEAN /\ w.cache \in [List!Index -> Item \cup {NoItem}]
           /\ w.astray \in BOOLEAN /\ w.top \in Nat
           /\ List!Distinct(w.items) /\ List!Distinct(w.filtered)
           /\ List!Within(w.filtered) \subseteq List!Within(w.items)
           /\ ~w.searching => w.filtered = <<>>
           /\ ~w.astray => ListsSame(w.cache, w.items)
  BY DEF ListsGood, ListsReady, ListsState

LEMMA ListsScroll ==
    ASSUME PagePartsAssumption, ListsGood(w), NEW y, List!Scroll(y)
    PROVE  ListsGood(w')
<1> DEFINE t == [w EXCEPT !.top = y]
<1>1. w' = List!Render(t) /\ y \in 0 .. Len(List!Listed(w)) - 1
  BY DEF List!Scroll
<1>2. /\ w \in ListsState /\ List!Listed(w) \in Seq(Item)
  BY ListsTyped DEF List!Listed
<1>3. y \in Nat /\ y < Len(List!Listed(w))
  <2>1. Len(List!Listed(w)) \in Nat
    BY <1>2, LenProperties
  <2> QED
    BY <2>1, <1>1
<1>4. t \in ListsState
  BY <1>2, <1>3 DEF ListsState
<1>5. /\ t.items = w.items /\ t.searching = w.searching /\ t.filtered = w.filtered
      /\ t.cache = w.cache /\ t.top = y /\ t.astray = w.astray
  BY <1>2 DEF ListsState
<1> HIDE DEF t
<1>6. ListsReady(t)
  BY <1>4, <1>5, ListsTyped DEF ListsReady
<1>7. ListsTop(t)
  <2>1. List!Listed(t) = List!Listed(w)
    BY <1>5 DEF List!Listed
  <2> QED
    BY <2>1, <1>3, <1>5 DEF ListsTop
<1> QED
  BY <1>1, <1>6, <1>7, ListsRendered

\* An item is put in at an index that the rows in the cache are moved up from.
LEMMA ListsMovedUp ==
    ASSUME PagePartsAssumption, ListsGood(w), NEW i \in 0 .. Len(w.items),
           NEW x \in List!New(w)
    PROVE  ListsReady([w EXCEPT !.items = List!Insert(@, i, x),
                                !.cache = List!ShiftFrom(@, i)])
<1> DEFINE items == List!Insert(w.items, i, x)
           cache == List!ShiftFrom(w.cache, i)
<1>1. /\ w \in ListsState /\ w.items \in Seq(Item) /\ List!Distinct(w.items)
      /\ x \in Item \ List!Within(w.items) /\ w.cache \in [List!Index -> Item \cup {NoItem}]
  BY ListsTyped DEF List!New
<1>2. /\ items \in Seq(Item) /\ Len(items) = Len(w.items) + 1
      /\ \A n \in 1 .. Len(w.items) + 1 :
             items[n] = IF n <= i THEN w.items[n] ELSE IF n = i + 1 THEN x ELSE w.items[n - 1]
      /\ List!Distinct(items) /\ List!Within(items) = List!Within(w.items) \cup {x}
  BY <1>1, ListsInserted
<1>3. Len(w.items) \in Nat /\ List!MaxItems \in Nat
  BY <1>1, LenProperties, ListsItems
<1> HIDE DEF items
<1>4. ASSUME NEW j \in List!Index
      PROVE  /\ cache[j] \in Item \cup {NoItem}
             /\ ~w.astray /\ cache[j] # NoItem =>
                    j \in 0 .. Len(items) - 1 /\ cache[j] = items[j + 1]
  <2>1. cache[j] = IF j > i THEN w.cache[j - 1] ELSE NoItem
    BY DEF List!ShiftFrom
  <2> HIDE DEF cache
  <2>2. CASE ~(j > i)
    BY <2>1, <2>2
  <2>3. CASE j > i
    <3>1. j - 1 \in List!Index /\ j \in Int
      BY <1>3, <2>3 DEF List!Index
    <3>2. cache[j] = w.cache[j - 1] /\ w.cache[j - 1] \in Item \cup {NoItem}
      BY <1>1, <2>1, <2>3, <3>1
    <3>3. ASSUME ~w.astray, cache[j] # NoItem
          PROVE  j \in 0 .. Len(items) - 1 /\ cache[j] = items[j + 1]
      <4>1. j - 1 \in 0 .. Len(w.items) - 1 /\ w.cache[j - 1] = w.items[(j - 1) + 1]
        BY <3>1, <3>2, <3>3, ListsTyped DEF ListsSame
      <4>2. j + 1 \in 1 .. Len(w.items) + 1 /\ ~(j + 1 <= i) /\ j + 1 # i + 1
            /\ (j + 1) - 1 = (j - 1) + 1
        BY <4>1, <3>1, <2>3, <1>3
      <4>3. items[j + 1] = w.items[(j - 1) + 1]
        BY <4>2, <1>2
      <4>4. j \in 0 .. Len(items) - 1
        BY <4>1, <3>1, <1>2, <1>3
      <4> QED
        BY <4>1, <4>3, <4>4, <3>2
    <3> QED
      BY <3>2, <3>3
  <2> QED
    BY <2>2, <2>3
<1>5. cache \in [List!Index -> Item \cup {NoItem}]
  <2>1. cache = [j \in List!Index |-> IF j > i THEN w.cache[j - 1] ELSE NoItem]
    BY DEF List!ShiftFrom
  <2> HIDE DEF cache
  <2> QED
    BY <2>1, <1>4
<1> HIDE DEF cache
<1>6. ~w.astray => ListsSame(cache, items)
  BY <1>4 DEF ListsSame
<1> DEFINE t == [w EXCEPT !.items = items, !.cache = cache]
<1>7. t \in ListsState
  BY <1>1, <1>2, <1>5 DEF ListsState
<1>8. /\ t.items = items /\ t.searching = w.searching /\ t.filtered = w.filtered
      /\ t.cache = cache /\ t.astray = w.astray
  BY <1>1 DEF ListsState
<1> HIDE DEF t
<1>9. ListsReady(t)
  <2>1. List!Within(w.filtered) \subseteq List!Within(items)
    BY <1>2, ListsTyped
  <2> QED
    BY <2>1, <1>2, <1>6, <1>7, <1>8, ListsTyped DEF ListsReady
<1> QED
  BY <1>9 DEF t, items, cache

\* appendItems, prependItems and insertItemBefore.
LEMMA ListsAdded ==
    ASSUME PagePartsAssumption, ListsGood(w), NEW x, NEW i,
           List!AppendItem(x) \/ List!PrependItem(x) \/ List!InsertItemBefore(i, x)
    PROVE  ListsGood(w')
<1>1. /\ w \in ListsState /\ w.items \in Seq(Item) /\ List!Distinct(w.items)
      /\ Len(w.items) \in Nat /\ DOMAIN w.items = 1 .. Len(w.items)
  BY ListsTyped, LenProperties
<1>2. CASE List!AppendItem(x)
  <2> DEFINE items == Append(w.items, x)
             t == [w EXCEPT !.items = items]
  <2>1. w' = List!Update(t) /\ x \in Item \ List!Within(w.items)
    BY <1>2 DEF List!AppendItem, List!New
  <2>2. /\ items \in Seq(Item) /\ Len(items) = Len(w.items) + 1
        /\ items[Len(w.items) + 1] = x
        /\ \A n \in 1 .. Len(w.items) : items[n] = w.items[n]
        /\ DOMAIN items = 1 .. Len(w.items) + 1
    BY <1>1, <2>1, AppendProperties
  <2> HIDE DEF items
  <2>3. \A n \in 1 .. Len(w.items) + 1 : n = Len(w.items) + 1 \/ n \in 1 .. Len(w.items)
    BY <1>1
  <2>4. List!Distinct(items)
    <3>1. \A n \in 1 .. Len(w.items) : w.items[n] # x
      BY <1>1, <2>1 DEF List!Within
    <3> SUFFICES ASSUME NEW m \in 1 .. Len(w.items) + 1, NEW n \in 1 .. Len(w.items) + 1,
                        items[m] = items[n]
                 PROVE  m = n
      BY <2>2 DEF List!Distinct
    <3>2. (m = Len(w.items) + 1 \/ m \in 1 .. Len(w.items))
          /\ (n = Len(w.items) + 1 \/ n \in 1 .. Len(w.items))
      BY <2>3
    <3> QED
      BY <3>1, <3>2, <2>2, <1>1 DEF List!Distinct
  <2>5. List!Within(w.items) \subseteq List!Within(items)
    <3> SUFFICES ASSUME NEW n \in 1 .. Len(w.items) PROVE w.items[n] \in List!Within(items)
      BY <1>1 DEF List!Within
    <3>1. n \in 1 .. Len(w.items) + 1 /\ items[n] = w.items[n]
      BY <1>1, <2>2
    <3> QED
      BY <3>1, <2>2 DEF List!Within
  <2>6. ~w.astray => ListsSame(w.cache, items)
    <3> SUFFICES ASSUME ~w.astray, NEW j \in List!Index, w.cache[j] # NoItem
                 PROVE  j \in 0 .. Len(items) - 1 /\ w.cache[j] = items[j + 1]
      BY DEF ListsSame
    <3>1. j \in 0 .. Len(w.items) - 1 /\ w.cache[j] = w.items[j + 1]
      BY ListsTyped DEF ListsSame
    <3>2. j + 1 \in 1 .. Len(w.items) /\ j \in 0 .. Len(items) - 1
      BY <3>1, <1>1, <2>2
    <3> QED
      BY <3>1, <3>2, <2>2
  <2>7. t \in ListsState
    BY <1>1, <2>2 DEF ListsState
  <2>8. /\ t.items = items /\ t.searching = w.searching /\ t.filtered = w.filtered
        /\ t.cache = w.cache /\ t.astray = w.astray
    BY <1>1 DEF ListsState
  <2> HIDE DEF t
  <2>9. List!Within(w.filtered) \subseteq List!Within(items)
    BY <2>5, ListsTyped
  <2>10. ListsReady(t)
    BY <2>2, <2>4, <2>6, <2>7, <2>8, <2>9, ListsTyped DEF ListsReady
  <2> QED
    BY <2>1, <2>10, ListsUpdated
<1>3. CASE List!PrependItem(x)
  <2>1. PICK none \in 0 .. Len(w.items) : none = 0
    BY <1>1
  <2>2. x \in List!New(w)
        /\ w' = List!Update([w EXCEPT !.items = List!Insert(@, none, x),
                                      !.cache = List!ShiftFrom(@, none)])
    BY <1>3, <2>1 DEF List!PrependItem
  <2>3. ListsReady([w EXCEPT !.items = List!Insert(@, none, x),
                             !.cache = List!ShiftFrom(@, none)])
    BY <2>2, ListsMovedUp
  <2> QED
    BY <2>2, <2>3, ListsUpdated
<1>4. CASE List!InsertItemBefore(i, x)
  <2>1. i \in 0 .. Len(w.items) /\ x \in List!New(w)
        /\ w' = List!Update([w EXCEPT !.items = List!Insert(@, i, x),
                                      !.cache = List!ShiftFrom(@, i)])
    BY <1>1, <1>4 DEF List!InsertItemBefore
  <2>2. ListsReady([w EXCEPT !.items = List!Insert(@, i, x), !.cache = List!ShiftFrom(@, i)])
    BY <2>1, ListsMovedUp
  <2> QED
    BY <2>1, <2>2, ListsUpdated
<1> QED
  BY <1>2, <1>3, <1>4

LEMMA ListsGreatest ==
    ASSUME NEW a \in Int, NEW b \in Int, NEW c \in Int, NEW S \in SUBSET {a, b, c}, S # {}
    PROVE  \E j \in S : \A i \in S : i <= j
<1> DEFINE Tops(j) == j \in S /\ \A i \in {a, b, c} : i \in S => i <= j
<1>1. \E j \in {a, b, c} : Tops(j)
  <2>1. CASE a \in S
    <3>1. Tops(a) \/ (b \in S /\ b > a) \/ (c \in S /\ c > a)
      BY <2>1
    <3>2. (b \in S /\ b > a) => Tops(b) \/ (c \in S /\ c > b)
      BY <2>1
    <3>3. (c \in S /\ c > a) => Tops(c) \/ (b \in S /\ b > c)
      BY <2>1
    <3>4. (b \in S /\ b > a /\ c \in S /\ c > b) => Tops(c)
      OBVIOUS
    <3>5. (c \in S /\ c > a /\ b \in S /\ b > c) => Tops(b)
      OBVIOUS
    <3> QED
      BY <3>1, <3>2, <3>3, <3>4, <3>5
  <2>2. CASE a \notin S /\ b \in S
    <3>1. Tops(b) \/ (c \in S /\ c > b)
      BY <2>2
    <3>2. (c \in S /\ c > b) => Tops(c)
      BY <2>2
    <3> QED
      BY <3>1, <3>2
  <2>3. CASE a \notin S /\ b \notin S
    <3>1. c \in S
      BY <2>3
    <3>2. Tops(c)
      BY <2>3, <3>1
    <3> QED
      BY <3>2
  <2> QED
    BY <2>1, <2>2, <2>3
<1> QED
  BY <1>1

\* replaceItem and replaceAllItems.
LEMMA ListsReplaced ==
    ASSUME PagePartsAssumption, ListsGood(w), NEW i, NEW x, List!ReplaceItem(i, x)
    PROVE  ListsGood(w')
<1>1. /\ w \in ListsState /\ w.items \in Seq(Item) /\ List!Distinct(w.items)
      /\ Len(w.items) \in Nat /\ DOMAIN w.items = 1 .. Len(w.items)
      /\ w.cache \in [List!Index -> Item \cup {NoItem}]
  BY ListsTyped, LenProperties
<1> DEFINE items == [w.items EXCEPT ![i + 1] = x]
           cache == [w.cache EXCEPT ![i] = NoItem]
           t == [w EXCEPT !.items = items, !.cache = cache]
<1>2. /\ x \in Item \ List!Within(w.items) /\ i \in 0 .. Len(w.items) - 1 /\ ~w.searching
      /\ w' = List!Update(t)
  BY DEF List!ReplaceItem, List!New
<1>3. /\ i + 1 \in 1 .. Len(w.items)
      /\ items \in Seq(Item) /\ Len(items) = Len(w.items) /\ DOMAIN items = 1 .. Len(w.items)
      /\ items[i + 1] = x /\ \A n \in 1 .. Len(w.items) : n # i + 1 => items[n] = w.items[n]
  BY <1>1, <1>2
<1>4. cache \in [List!Index -> Item \cup {NoItem}]
      /\ \A j \in List!Index : cache[j] = IF j = i THEN NoItem ELSE w.cache[j]
  BY <1>1
<1> HIDE DEF items, cache
<1>5. List!Distinct(items)
  <2>1. \A n \in 1 .. Len(w.items) : w.items[n] # x
    BY <1>1, <1>2 DEF List!Within
  <2> SUFFICES ASSUME NEW m \in 1 .. Len(w.items), NEW n \in 1 .. Len(w.items),
                      items[m] = items[n]
               PROVE  m = n
    BY <1>3 DEF List!Distinct
  <2> QED
    BY <2>1, <1>1, <1>3 DEF List!Distinct
<1>6. ~w.astray => ListsSame(cache, items)
  <2> SUFFICES ASSUME ~w.astray, NEW j \in List!Index, cache[j] # NoItem
               PROVE  j \in 0 .. Len(items) - 1 /\ cache[j] = items[j + 1]
    BY DEF ListsSame
  <2>1. j # i /\ cache[j] = w.cache[j]
    BY <1>4
  <2>2. j \in 0 .. Len(w.items) - 1 /\ w.cache[j] = w.items[j + 1]
    BY <2>1, ListsTyped DEF ListsSame
  <2>3. j + 1 \in 1 .. Len(w.items) /\ j + 1 # i + 1
    BY <2>1, <2>2, <1>1, <1>2
  <2> QED
    BY <2>1, <2>2, <2>3, <1>3
<1>7. w.filtered = <<>> /\ List!Within(w.filtered) \subseteq List!Within(items)
  BY <1>2, ListsTyped DEF List!Within
<1>8. t \in ListsState
  BY <1>1, <1>3, <1>4 DEF ListsState
<1>9. /\ t.items = items /\ t.searching = w.searching /\ t.filtered = w.filtered
      /\ t.cache = cache /\ t.astray = w.astray
  BY <1>1 DEF ListsState
<1> HIDE DEF t
<1>10. ListsReady(t)
  BY <1>3, <1>5, <1>6, <1>7, <1>8, <1>9, ListsTyped DEF ListsReady
<1> QED
  BY <1>2, <1>10, ListsUpdated

LEMMA ListsReplacedAll ==
    ASSUME PagePartsAssumption, ListsGood(w), NEW q \in List!Lists, List!ReplaceAllItems(q)
    PROVE  ListsGood(w')
<1> DEFINE t == [w EXCEPT !.items = q, !.searching = FALSE, !.filtered = <<>>,
                          !.cache = List!NoRows, !.astray = FALSE]
<1>1. w' = List!Update(t)
  BY DEF List!ReplaceAllItems
<1>2. q \in Seq(Item) /\ List!Distinct(q)
  BY ListsItems DEF List!Lists
<1>3. List!NoRows \in [List!Index -> Item \cup {NoItem}] /\ ListsSame(List!NoRows, q)
  BY ListsNoRows
<1>4. <<>> \in Seq(Item) /\ List!Distinct(<<>>) /\ List!Within(<<>>) \subseteq List!Within(q)
  BY DEF List!Distinct, List!Within
<1>5. w \in ListsState
  BY ListsTyped
<1>6. t \in ListsState
  BY <1>2, <1>3, <1>4, <1>5 DEF ListsState
<1>7. /\ t.items = q /\ t.searching = FALSE /\ t.filtered = <<>>
      /\ t.cache = List!NoRows /\ t.astray = FALSE
  BY <1>5 DEF ListsState
<1> HIDE DEF t
<1>8. ListsReady(t)
  BY <1>2, <1>3, <1>4, <1>6, <1>7 DEF ListsReady
<1> QED
  BY <1>1, <1>8, ListsUpdated

\* moveItem: a row of the cache goes where its item goes, if that is further down.
LEMMA ListsMovedCache ==
    ASSUME NEW cache \in [List!Index -> Item \cup {NoItem}], List!MaxItems \in Nat,
           NEW old \in 0 .. List!MaxItems, NEW new \in 0 .. List!MaxItems
    PROVE  /\ List!Moved(cache, old, new) \in [List!Index -> Item \cup {NoItem}]
           /\ old < new => \A k \in List!Index : List!Moved(cache, old, new)[k] # NoItem =>
                  \E j \in 0 .. List!MaxItems :
                      /\ cache[j] # NoItem /\ List!Moved(cache, old, new)[k] = cache[j]
                      /\ \/ (j < old \/ j > new) /\ k = j
                         \/ j = old /\ k = new
                         \/ old < j /\ j <= new /\ k = j - 1
<1> DEFINE left == IF old < new THEN old ELSE new
           right == IF old < new THEN new ELSE old
           shift == IF old < new THEN -1 ELSE 1
           goes(j) == IF j < left \/ j > right THEN j
                      ELSE IF j = left THEN right ELSE j + shift
           from(k) == {j \in 0 .. List!MaxItems : cache[j] # NoItem /\ goes(j) = k}
           last(S) == CHOOSE j \in S : \A i \in S : i <= j
           moved == List!Moved(cache, old, new)
<1>1. moved = [k \in List!Index |-> IF from(k) = {} THEN NoItem ELSE cache[last(from(k))]]
  BY DEF List!Moved
<1>2. \A j \in 0 .. List!MaxItems : j \in List!Index /\ cache[j] \in Item \cup {NoItem}
  BY DEF List!Index
<1> HIDE DEF moved, goes
<1>3. ASSUME NEW k \in List!Index
      PROVE  \/ moved[k] = NoItem
             \/ last(from(k)) \in from(k) /\ moved[k] = cache[last(from(k))]
  <2>1. moved[k] = IF from(k) = {} THEN NoItem ELSE cache[last(from(k))]
    BY <1>1
  <2>2. ASSUME from(k) # {} PROVE last(from(k)) \in from(k)
    <3> DEFINE S == from(k)
    <3>1. k \in Int /\ left \in Int /\ k - shift \in Int
      BY DEF List!Index
    <3>2. S \in SUBSET {k, left, k - shift} /\ S # {}
      <4> SUFFICES ASSUME NEW j \in 0 .. List!MaxItems, goes(j) = k
                   PROVE  j \in {k, left, k - shift}
        BY <2>2
      <4> QED
        BY <3>1 DEF goes
    <3> HIDE DEF S
    <3>3. \E j \in S : \A i \in S : i <= j
      <4> HIDE DEF left, shift
      <4> QED
        BY <3>1, <3>2, ListsGreatest
    <3>4. last(S) \in S
      BY <3>3
    <3> QED
      BY <3>4 DEF S
  <2> QED
    BY <2>1, <2>2
<1>4. moved \in [List!Index -> Item \cup {NoItem}]
  <2>1. ASSUME NEW k \in List!Index PROVE moved[k] \in Item \cup {NoItem}
    <3>1. CASE moved[k] = NoItem
      BY <3>1
    <3>2. CASE last(from(k)) \in from(k) /\ moved[k] = cache[last(from(k))]
      BY <3>2, <1>2
    <3> QED
      BY <3>1, <3>2, <1>3
  <2> HIDE DEF last, from
  <2> QED
    BY <2>1, <1>1
<1>5. ASSUME old < new, NEW k \in List!Index, moved[k] # NoItem
      PROVE  \E j \in 0 .. List!MaxItems :
                 /\ cache[j] # NoItem /\ moved[k] = cache[j]
                 /\ \/ (j < old \/ j > new) /\ k = j
                    \/ j = old /\ k = new
                    \/ old < j /\ j <= new /\ k = j - 1
  <2>1. last(from(k)) \in from(k) /\ moved[k] = cache[last(from(k))]
    BY <1>3, <1>5
  <2> DEFINE j == last(from(k))
  <2>2. j \in 0 .. List!MaxItems /\ cache[j] # NoItem /\ goes(j) = k /\ moved[k] = cache[j]
    BY <2>1
  <2> HIDE DEF j, from, last
  <2>3. goes(j) = IF j < old \/ j > new THEN j ELSE IF j = old THEN new ELSE j - 1
    BY <2>2, <1>5 DEF goes
  <2>4. \/ (j < old \/ j > new) /\ k = j
        \/ j = old /\ k = new
        \/ old < j /\ j <= new /\ k = j - 1
    BY <2>2, <2>3, <1>5
  <2> QED
    BY <2>2, <2>4
<1> QED
  BY <1>4, <1>5 DEF moved

LEMMA ListsMoved ==
    ASSUME PagePartsAssumption, ListsGood(w), NEW old, NEW new, List!MoveItem(old, new)
    PROVE  ListsGood(w')
<1> DEFINE n == Len(w.items)
           x == w.items[old + 1]
           less == List!Splice(w.items, old)
           items == List!Insert(less, new, x)
           cache == List!Moved(w.cache, old, new)
           astray == w.astray \/ old > new
           t == [w EXCEPT !.items = items, !.cache = cache, !.astray = astray]
<1>1. /\ w \in ListsState /\ w.items \in Seq(Item) /\ List!Distinct(w.items)
      /\ w.cache \in [List!Index -> Item \cup {NoItem}]
      /\ n \in Nat /\ n <= List!MaxItems /\ List!MaxItems \in Nat
  BY ListsTyped, ListsItems, ListsLength
<1>2. /\ old \in 0 .. n - 1 /\ new \in 0 .. n - 1 /\ old # new
      /\ w' = List!Update(t)
  BY DEF List!MoveItem, List!At
<1>3. /\ less \in Seq(Item) /\ Len(less) = n - 1 /\ List!Distinct(less) /\ x \in Item
      /\ \A k \in 1 .. n - 1 : less[k] = IF k <= old THEN w.items[k] ELSE w.items[k + 1]
      /\ List!Within(less) = List!Within(w.items) \ {x}
  BY <1>1, <1>2, ListsSpliced
<1>4. x \in List!Within(w.items)
  <2>1. old + 1 \in DOMAIN w.items
    BY <1>1, <1>2, LenProperties
  <2> QED
    BY <2>1 DEF List!Within
<1> HIDE DEF less, x
<1>5. /\ items \in Seq(Item) /\ Len(items) = n /\ List!Distinct(items)
      /\ \A k \in 1 .. n : items[k] = IF k <= new THEN less[k]
                                      ELSE IF k = new + 1 THEN x ELSE less[k - 1]
      /\ List!Within(items) = List!Within(w.items)
  <2>1. new \in 0 .. Len(less) /\ x \in Item \ List!Within(less) /\ (n - 1) + 1 = n
    BY <1>1, <1>2, <1>3
  <2>2. /\ items \in Seq(Item) /\ Len(items) = Len(less) + 1 /\ List!Distinct(items)
        /\ \A k \in 1 .. Len(less) + 1 :
               items[k] = IF k <= new THEN less[k]
                          ELSE IF k = new + 1 THEN x ELSE less[k - 1]
        /\ List!Within(items) = List!Within(less) \cup {x}
    BY <2>1, <1>3, ListsInserted
  <2> HIDE DEF items
  <2> QED
    BY <2>1, <2>2, <1>3, <1>4
<1>6. old \in 0 .. List!MaxItems /\ new \in 0 .. List!MaxItems
  BY <1>1, <1>2
<1>7. cache \in [List!Index -> Item \cup {NoItem}]
  BY <1>1, <1>6, ListsMovedCache
<1> HIDE DEF items
<1>8. ~astray => ListsSame(cache, items)
  <2> SUFFICES ASSUME ~astray, NEW k \in List!Index, cache[k] # NoItem
               PROVE  k \in 0 .. n - 1 /\ cache[k] = items[k + 1]
    BY <1>5 DEF ListsSame
  <2>1. old < new /\ ~w.astray
    BY <1>2
  <2>2. PICK j \in 0 .. List!MaxItems :
            /\ w.cache[j] # NoItem /\ cache[k] = w.cache[j]
            /\ \/ (j < old \/ j > new) /\ k = j
               \/ j = old /\ k = new
               \/ old < j /\ j <= new /\ k = j - 1
    BY <2>1, <1>1, <1>6, ListsMovedCache
  <2>3. j \in List!Index
    BY <1>1 DEF List!Index
  <2>4. j \in 0 .. n - 1 /\ w.cache[j] = w.items[j + 1]
    BY <2>1, <2>2, <2>3, ListsTyped DEF ListsSame
  <2> HIDE DEF cache
  <2>5. k \in 0 .. n - 1 /\ k + 1 \in 1 .. n
    <3>1. \/ (j < old \/ j > new) /\ k = j
          \/ j = old /\ k = new
          \/ old < j /\ j <= new /\ k = j - 1
      BY <2>2
    <3>2. j \in 0 .. n - 1 /\ old \in 0 .. n - 1 /\ new \in 0 .. n - 1 /\ n \in Nat
      BY <2>4, <1>1, <1>2
    <3> HIDE DEF n
    <3>3. k \in 0 .. n - 1
      BY <3>1, <3>2
    <3> QED
      BY <3>2, <3>3
  <2>6. items[k + 1] = w.items[j + 1]
    <3>1. CASE j < old /\ k = j
      <4>1. k + 1 <= new /\ k + 1 \in 1 .. n - 1 /\ k + 1 <= old
        BY <3>1, <2>1, <2>4, <1>1, <1>2
      <4> QED
        BY <4>1, <3>1, <2>5, <1>3, <1>5
    <3>2. CASE j > new /\ k = j
      <4>1. ~(k + 1 <= new) /\ k + 1 # new + 1 /\ k \in 1 .. n - 1 /\ ~(k <= old)
            /\ (k + 1) - 1 = k
        BY <3>2, <2>1, <2>4, <1>1, <1>2
      <4>2. items[k + 1] = less[k]
        BY <4>1, <2>5, <1>5
      <4>3. less[k] = w.items[k + 1]
        BY <4>1, <1>3
      <4> QED
        BY <4>2, <4>3, <3>2
    <3>3. CASE j = old /\ k = new
      <4>1. ~(k + 1 <= new)
        BY <3>3, <1>2
      <4>2. items[k + 1] = x
        BY <4>1, <3>3, <2>5, <1>5
      <4> QED
        BY <4>2, <3>3 DEF x
    <3>4. CASE old < j /\ j <= new /\ k = j - 1
      <4>1. k + 1 <= new /\ k + 1 \in 1 .. n - 1 /\ ~(k + 1 <= old) /\ (k + 1) + 1 = j + 1
        BY <3>4, <2>1, <2>4, <1>1, <1>2
      <4>2. items[k + 1] = less[k + 1]
        BY <4>1, <2>5, <1>5
      <4>3. less[k + 1] = w.items[(k + 1) + 1]
        BY <4>1, <1>3
      <4> QED
        BY <4>1, <4>2, <4>3
    <3> QED
      BY <3>1, <3>2, <3>3, <3>4, <2>2
  <2> QED
    BY <2>2, <2>4, <2>5, <2>6
<1>9. astray \in BOOLEAN
  BY ListsTyped
<1> HIDE DEF cache, astray
<1>10. t \in ListsState
  BY <1>1, <1>5, <1>7, <1>9 DEF ListsState
<1>11. /\ t.items = items /\ t.searching = w.searching /\ t.filtered = w.filtered
       /\ t.cache = cache /\ t.astray = astray
  BY <1>1 DEF ListsState
<1> HIDE DEF t
<1>12. ListsReady(t)
  BY <1>5, <1>8, <1>10, <1>11, ListsTyped DEF ListsReady
<1> QED
  BY <1>2, <1>12, ListsUpdated

\* deleteItems: the rows behind the item are moved down, and a search loses it.
LEMMA ListsDeletedAt ==
    ASSUME PagePartsAssumption, NEW s, ListsReady(s), NEW i \in 0 .. Len(s.items) - 1
    PROVE  /\ ListsReady(List!DeleteAt(s, i))
           /\ Len(List!DeleteAt(s, i).items) = Len(s.items) - 1
<1> DEFINE n == Len(s.items)
           x == s.items[i + 1]
           items == List!Splice(s.items, i)
           filtered == List!Without(s.filtered, x)
           cache == [j \in List!Index |->
                        IF j < i THEN s.cache[j]
                        ELSE IF j < List!MaxItems THEN s.cache[j + 1] ELSE NoItem]
           t == [s EXCEPT !.items = items, !.filtered = filtered, !.cache = cache]
<1>1. /\ s \in ListsState /\ s.items \in Seq(Item) /\ s.filtered \in Seq(Item)
      /\ List!Distinct(s.items) /\ List!Distinct(s.filtered)
      /\ s.cache \in [List!Index -> Item \cup {NoItem}]
      /\ n \in Nat /\ n <= List!MaxItems /\ List!MaxItems \in Nat
  BY ListsItems, ListsLength DEF ListsReady, ListsState
<1>2. /\ items \in Seq(Item) /\ Len(items) = n - 1 /\ List!Distinct(items) /\ x \in Item
      /\ \A k \in 1 .. n - 1 : items[k] = IF k <= i THEN s.items[k] ELSE s.items[k + 1]
      /\ List!Within(items) = List!Within(s.items) \ {x}
  BY <1>1, ListsSpliced
<1>3. List!DeleteAt(s, i) = t
  BY DEF List!DeleteAt, List!At
<1> HIDE DEF x, items
<1>4. /\ filtered \in Seq(Item) /\ List!Distinct(filtered)
      /\ List!Within(filtered) = List!Within(s.filtered) \ {x}
      /\ s.filtered = <<>> => filtered = <<>>
  BY <1>1, <1>2, ListsWithout
<1> HIDE DEF filtered
<1>5. ASSUME NEW j \in List!Index
      PROVE  /\ cache[j] \in Item \cup {NoItem}
             /\ ~s.astray /\ cache[j] # NoItem =>
                    j \in 0 .. n - 2 /\ cache[j] = items[j + 1]
  <2>1. cache[j] = IF j < i THEN s.cache[j]
                   ELSE IF j < List!MaxItems THEN s.cache[j + 1] ELSE NoItem
    OBVIOUS
  <2> HIDE DEF cache
  <2>2. j \in Int /\ i \in Int
    BY <1>1 DEF List!Index
  <2>3. CASE j < i
    <3>1. cache[j] = s.cache[j] /\ s.cache[j] \in Item \cup {NoItem}
      BY <1>1, <2>1, <2>3
    <3>2. ASSUME ~s.astray, cache[j] # NoItem
          PROVE  j \in 0 .. n - 2 /\ cache[j] = items[j + 1]
      <4>1. j \in 0 .. n - 1 /\ s.cache[j] = s.items[j + 1]
        BY <3>1, <3>2 DEF ListsReady, ListsSame
      <4>2. j \in 0 .. n - 2 /\ j + 1 \in 1 .. n - 1 /\ j + 1 <= i
        BY <4>1, <2>2, <2>3, <1>1
      <4>3. items[j + 1] = s.items[j + 1]
        BY <4>2, <1>2
      <4> QED
        BY <3>1, <4>1, <4>2, <4>3
    <3> QED
      BY <3>1, <3>2
  <2>4. CASE ~(j < i) /\ j < List!MaxItems
    <3>1. j + 1 \in List!Index
      BY <2>2, <2>4, <1>1 DEF List!Index
    <3>2. cache[j] = s.cache[j + 1] /\ s.cache[j + 1] \in Item \cup {NoItem}
      BY <1>1, <2>1, <2>4, <3>1
    <3>3. ASSUME ~s.astray, cache[j] # NoItem
          PROVE  j \in 0 .. n - 2 /\ cache[j] = items[j + 1]
      <4>1. j + 1 \in 0 .. n - 1 /\ s.cache[j + 1] = s.items[(j + 1) + 1]
        BY <3>1, <3>2, <3>3 DEF ListsReady, ListsSame
      <4>2. j \in 0 .. n - 2 /\ j + 1 \in 1 .. n - 1 /\ ~(j + 1 <= i)
        BY <4>1, <2>2, <2>4, <1>1
      <4>3. items[j + 1] = s.items[(j + 1) + 1]
        BY <4>2, <1>2
      <4> QED
        BY <3>2, <4>1, <4>2, <4>3
    <3> QED
      BY <3>2, <3>3
  <2>5. CASE ~(j < i) /\ ~(j < List!MaxItems)
    BY <2>1, <2>5
  <2> QED
    BY <2>3, <2>4, <2>5
<1>6. cache \in [List!Index -> Item \cup {NoItem}]
  BY <1>5
<1>7. ~s.astray => ListsSame(cache, items)
  <2>1. Len(items) - 1 = n - 2
    BY <1>1, <1>2
  <2> HIDE DEF cache, n
  <2> QED
    BY <2>1, <1>5 DEF ListsSame
<1> HIDE DEF cache
<1>8. List!Within(filtered) \subseteq List!Within(items)
  BY <1>2, <1>4 DEF ListsReady
<1>9. t \in ListsState
  BY <1>1, <1>2, <1>4, <1>6 DEF ListsState
<1>10. /\ t.items = items /\ t.searching = s.searching /\ t.filtered = filtered
       /\ t.cache = cache /\ t.astray = s.astray
  BY <1>1 DEF ListsState
<1> HIDE DEF t
<1>11. ListsReady(t)
  BY <1>2, <1>4, <1>7, <1>8, <1>9, <1>10 DEF ListsReady
<1> QED
  BY <1>2, <1>3, <1>10, <1>11

LEMMA ListsDeleted ==
    ASSUME PagePartsAssumption, ListsGood(w), NEW i, NEW j,
           List!DeleteItem(i) \/ List!DeleteItems(i, j)
    PROVE  ListsGood(w')
<1>1. ListsReady(w) /\ Len(w.items) \in Nat
  BY ListsTyped, LenProperties DEF ListsGood
<1>2. i \in 0 .. Len(w.items) - 1
  BY DEF List!DeleteItem, List!DeleteItems
<1> DEFINE once == List!DeleteAt(w, i)
<1>3. ListsReady(once) /\ Len(once.items) = Len(w.items) - 1
  BY <1>1, <1>2, ListsDeletedAt
<1>4. CASE List!DeleteItem(i)
  <2>1. w' = List!Update(once)
    BY <1>4 DEF List!DeleteItem
  <2> QED
    BY <2>1, <1>3, ListsUpdated
<1>5. CASE List!DeleteItems(i, j)
  <2> DEFINE k == IF j > i THEN j - 1 ELSE j
  <2>1. j \in 0 .. Len(w.items) - 1 /\ i # j
        /\ w' = List!Update(List!DeleteAt(once, k))
    BY <1>5 DEF List!DeleteItems, List!DeleteTwo
  <2> HIDE DEF once
  <2>2. k \in 0 .. Len(once.items) - 1
    BY <2>1, <1>1, <1>2, <1>3
  <2> HIDE DEF k
  <2>3. ListsReady(List!DeleteAt(once, k))
    BY <2>2, <1>3, ListsDeletedAt
  <2> QED
    BY <2>1, <2>3, ListsUpdated
<1> QED
  BY <1>4, <1>5

\* filterItems: the items that were found are listed in their order.
LEMMA ListsFiltered ==
    ASSUME PagePartsAssumption, ListsGood(w), NEW found, List!FilterItems(found)
    PROVE  ListsGood(w')
<1> DEFINE n == Len(w.items)
<1>1. /\ w \in ListsState /\ w.items \in Seq(Item) /\ List!Distinct(w.items)
      /\ n \in Nat /\ List!MaxItems \in Nat /\ DOMAIN w.items = 1 .. n
      /\ \A k \in 1 .. n : w.items[k] \in Item
  BY ListsTyped, ListsItems, LenProperties
<1>2. found \subseteq 0 .. n - 1
  BY DEF List!FilterItems
<1>3. PICK f \in List!Ascending(found) :
          w' = List!Update([w EXCEPT !.searching = TRUE, !.top = 0,
                                     !.filtered = [k \in DOMAIN f |-> w.items[f[k] + 1]]])
  BY DEF List!FilterItems, List!At
<1>4. Cardinality(found) \in Nat
  <2>1. n - 1 \in Int
    BY <1>1
  <2>2. PICK zero \in Int : zero = 0
    OBVIOUS
  <2>3. IsFiniteSet(zero .. n - 1)
    BY <2>1, FS_Interval
  <2>4. IsFiniteSet(found)
    BY <1>2, <2>2, <2>3, FS_Subset
  <2> QED
    BY <2>4, FS_CardinalityType
<1>5. /\ f \in [1 .. Cardinality(found) -> found] /\ DOMAIN f = 1 .. Cardinality(found)
      /\ \A k, m \in 1 .. Cardinality(found) : k < m => f[k] < f[m]
  BY DEF List!Ascending, List!Cardinality, Cardinality
<1> DEFINE c == Cardinality(found)
           filtered == [k \in DOMAIN f |-> w.items[f[k] + 1]]
           t == [w EXCEPT !.searching = TRUE, !.top = 0, !.filtered = filtered]
<1> HIDE DEF c
<1>6. \A k \in 1 .. c : f[k] \in 0 .. n - 1 /\ f[k] + 1 \in 1 .. n
  <2> SUFFICES ASSUME NEW k \in 1 .. c PROVE f[k] \in 0 .. n - 1 /\ f[k] + 1 \in 1 .. n
    OBVIOUS
  <2>1. f[k] \in found
    BY <1>5 DEF c
  <2>2. f[k] \in 0 .. n - 1
    BY <2>1, <1>2
  <2> HIDE DEF n
  <2> QED
    BY <2>2, <1>1
<1>7. DOMAIN filtered = 1 .. c /\ \A k \in 1 .. c : filtered[k] = w.items[f[k] + 1]
  BY <1>5 DEF c
<1>8. filtered \in Seq(Item)
  <2>1. filtered \in [1 .. c -> Item]
    BY <1>1, <1>5, <1>6 DEF c
  <2> QED
    BY <2>1, <1>4 DEF c
<1> HIDE DEF filtered
<1>9. List!Distinct(filtered)
  <2> SUFFICES ASSUME NEW k \in 1 .. c, NEW m \in 1 .. c, filtered[k] = filtered[m]
               PROVE  k = m
    BY <1>7 DEF List!Distinct
  <2>1. f[k] + 1 = f[m] + 1
    BY <1>1, <1>6, <1>7 DEF List!Distinct
  <2>2. f[k] = f[m] /\ f[k] \in Int /\ k \in Int /\ m \in Int
    BY <2>1, <1>6
  <2> QED
    BY <2>2, <1>5 DEF c
<1>10. List!Within(filtered) \subseteq List!Within(w.items)
  BY <1>1, <1>6, <1>7 DEF List!Within
<1>11. t \in ListsState
  BY <1>1, <1>8 DEF ListsState
<1>12. /\ t.items = w.items /\ t.searching = TRUE /\ t.filtered = filtered
       /\ t.cache = w.cache /\ t.astray = w.astray
  BY <1>1 DEF ListsState
<1>13. w' = List!Update(t)
  BY <1>3 DEF filtered
<1> HIDE DEF t
<1>14. ListsReady(t)
  BY <1>8, <1>9, <1>10, <1>11, <1>12, ListsTyped DEF ListsReady
<1> QED
  BY <1>13, <1>14, ListsUpdated

LEMMA ListsOthers ==
    ASSUME PagePartsAssumption, ListsGood(w), List!ResetFilter \/ List!ClearCache
    PROVE  ListsGood(w')
<1>1. w \in ListsState
  BY ListsTyped
<1>2. CASE List!ResetFilter
  <2> DEFINE t == [w EXCEPT !.searching = FALSE, !.filtered = <<>>]
  <2>1. w' = List!Update(t)
    BY <1>2 DEF List!ResetFilter
  <2>2. /\ <<>> \in Seq(Item) /\ List!Distinct(<<>>)
        /\ List!Within(<<>>) \subseteq List!Within(w.items)
    BY DEF List!Distinct, List!Within
  <2>3. t \in ListsState
    BY <1>1, <2>2 DEF ListsState
  <2>4. /\ t.items = w.items /\ t.searching = FALSE /\ t.filtered = <<>>
        /\ t.cache = w.cache /\ t.astray = w.astray
    BY <1>1 DEF ListsState
  <2> HIDE DEF t
  <2>5. ListsReady(t)
    BY <2>2, <2>3, <2>4, ListsTyped DEF ListsReady
  <2> QED
    BY <2>1, <2>5, ListsUpdated
<1>3. CASE List!ClearCache
  <2>1. w' = [w EXCEPT !.cache = List!NoRows]
    BY <1>3 DEF List!ClearCache
  <2>2. /\ List!NoRows \in [List!Index -> Item \cup {NoItem}]
        /\ ListsSame(List!NoRows, w.items)
    BY ListsNoRows
  <2>3. w' \in ListsState
    BY <1>1, <2>1, <2>2 DEF ListsState
  <2>4. /\ w'.items = w.items /\ w'.searching = w.searching /\ w'.filtered = w.filtered
        /\ w'.cache = List!NoRows /\ w'.astray = w.astray /\ w'.top = w.top
        /\ w'.from = w.from /\ w'.rows = w.rows
    BY <1>1, <2>1 DEF ListsState
  <2>5. ListsReady(w')
    BY <2>2, <2>3, <2>4, ListsTyped DEF ListsReady
  <2>6. List!Listed(w') = List!Listed(w)
    BY <2>4 DEF List!Listed
  <2>7. ~w.astray => ListsShown(w)
    BY DEF ListsGood
  <2>8. ~w'.astray => ListsShown(w')
    BY <2>4, <2>6, <2>7 DEF ListsShown
  <2> QED
    BY <2>5, <2>8 DEF ListsGood
<1> QED
  BY <1>2, <1>3

LEMMA ListsStepIInv ==
    PagePartsAssumption /\ ListsIInv /\ [List!Next]_w => ListsIInv'
<1> SUFFICES ASSUME PagePartsAssumption, ListsGood(w), [List!Next]_w PROVE ListsGood(w')
  BY DEF ListsIInv
<1>1. CASE UNCHANGED w
  BY <1>1
<1>2. ASSUME NEW x \in Item, List!AppendItem(x) \/ List!PrependItem(x) PROVE ListsGood(w')
  BY <1>2, ListsAdded
<1>3. ASSUME NEW i \in 0 .. List!MaxItems, NEW x \in Item, List!InsertItemBefore(i, x)
      PROVE  ListsGood(w')
  BY <1>3, ListsAdded
<1>4. ASSUME NEW i \in 0 .. List!MaxItems, NEW x \in Item, List!ReplaceItem(i, x)
      PROVE  ListsGood(w')
  BY <1>4, ListsReplaced
<1>5. ASSUME NEW q \in List!Lists, List!ReplaceAllItems(q) PROVE ListsGood(w')
  BY <1>5, ListsReplacedAll
<1>6. ASSUME NEW i \in 0 .. List!MaxItems, NEW j \in 0 .. List!MaxItems, List!MoveItem(i, j)
      PROVE  ListsGood(w')
  BY <1>6, ListsMoved
<1>7. ASSUME NEW i \in 0 .. List!MaxItems, NEW j \in 0 .. List!MaxItems,
             List!DeleteItem(i) \/ List!DeleteItems(i, j)
      PROVE  ListsGood(w')
  BY <1>7, ListsDeleted
<1>8. ASSUME NEW i \in 0 .. List!MaxItems, List!Scroll(i) PROVE ListsGood(w')
  BY <1>8, ListsScroll
<1>9. ASSUME NEW found \in SUBSET (0 .. List!MaxItems), List!FilterItems(found)
      PROVE  ListsGood(w')
  BY <1>9, ListsFiltered
<1>10. CASE List!ResetFilter \/ List!ClearCache
  BY <1>10, ListsOthers
<1> QED
  BY <1>1, <1>2, <1>3, <1>4, <1>5, <1>6, <1>7, <1>8, <1>9, <1>10 DEF List!Next

LEMMA ListsRightRowsFollows == ListsIInv => List!RightRows
  BY DEF ListsIInv, ListsGood, ListsReady, ListsSame, ListsShown, List!RightRows, List!At

-----------------------------------------------------------------------------
(* LazyImages: in sequence one image loads, and the others wait behind it. *)
ImagesState ==
    [sequential : BOOLEAN, lazy : SUBSET Image, loads : [Image -> Nat],
     waiting : Seq(Image), busy : BOOLEAN, asked : SUBSET Image]

\* An image that was in sight, and is still lazy, loads or waits.
ImagesKept(asked, lazy, loads, waiting) ==
    \A x \in asked \ Bare : x \in lazy => loads[x] > 0 \/ x \in Lazy!Waiting(waiting)

\* In sequence imageIsLoading says whether the one image that may load does,
\* and none waits unless it does.
ImagesInTurn(busy, loads, waiting) ==
    \/ busy /\ \E one \in Image : loads = [x \in Image |-> IF x = one THEN 1 ELSE 0]
    \/ ~busy /\ waiting = <<>> /\ loads = [x \in Image |-> 0]

ImagesGood(s) ==
    /\ s \in ImagesState
    /\ ImagesKept(s.asked, s.lazy, s.loads, s.waiting)
    /\ IF s.sequential THEN ImagesInTurn(s.busy, s.loads, s.waiting) ELSE s.waiting = <<>>

ImagesIInv == ImagesGood(w)

-----------------------------------------------------------------------------
\* Who waits when one more does, when the first one goes, and behind others.
LEMMA ImagesAppended ==
    ASSUME NEW q \in Seq(Image), NEW x \in Image
    PROVE  Lazy!Waiting(Append(q, x)) = Lazy!Waiting(q) \cup {x}
<1>1. Len(Append(q, x)) = Len(q) + 1 /\ Append(q, x)[Len(q) + 1] = x
      /\ \A n \in 1 .. Len(q) : Append(q, x)[n] = q[n]
  BY AppendProperties
<1>2. DOMAIN q = 1 .. Len(q) /\ DOMAIN Append(q, x) = 1 .. Len(q) + 1 /\ Len(q) \in Nat
  BY <1>1
<1> QED
  BY <1>1, <1>2 DEF Lazy!Waiting

LEMMA ImagesTail ==
    ASSUME NEW q \in Seq(Image), q # <<>>
    PROVE  /\ Head(q) \in Image /\ Tail(q) \in Seq(Image)
           /\ Lazy!Waiting(q) = Lazy!Waiting(Tail(q)) \cup {Head(q)}
<1>1. Head(q) \in Image /\ Tail(q) \in Seq(Image) /\ Head(q) = q[1] /\ Len(q) \in Nat \ {0}
  BY EmptySeq, HeadTailProperties
<1>2. Len(Tail(q)) = Len(q) - 1 /\ \A n \in 1 .. Len(q) - 1 : Tail(q)[n] = q[n + 1]
  BY HeadTailProperties
<1>3. DOMAIN q = 1 .. Len(q) /\ DOMAIN Tail(q) = 1 .. Len(q) - 1
  BY <1>1, <1>2
<1>4. ASSUME NEW n \in 1 .. Len(q) PROVE q[n] \in Lazy!Waiting(Tail(q)) \cup {Head(q)}
  <2>1. CASE n = 1
    BY <2>1, <1>1
  <2>2. CASE n # 1
    <3>1. n - 1 \in 1 .. Len(q) - 1 /\ (n - 1) + 1 = n
      BY <2>2, <1>1
    <3> QED
      BY <3>1, <1>2, <1>3 DEF Lazy!Waiting
  <2> QED
    BY <2>1, <2>2
<1>5. Lazy!Waiting(Tail(q)) \cup {Head(q)} \subseteq Lazy!Waiting(q)
  <2>1. ASSUME NEW n \in 1 .. Len(q) - 1 PROVE Tail(q)[n] \in Lazy!Waiting(q)
    <3>1. n + 1 \in 1 .. Len(q)
      BY <1>1
    <3> QED
      BY <3>1, <1>2, <1>3 DEF Lazy!Waiting
  <2>2. 1 \in 1 .. Len(q)
    BY <1>1
  <2> QED
    BY <2>1, <2>2, <1>1, <1>3 DEF Lazy!Waiting
<1>6. Lazy!Waiting(q) \subseteq Lazy!Waiting(Tail(q)) \cup {Head(q)}
  BY <1>4, <1>3 DEF Lazy!Waiting
<1> QED
  BY <1>1, <1>5, <1>6

LEMMA ImagesOrdered ==
    ASSUME IsFiniteSet(Image), NEW S \in SUBSET Image, NEW later \in Lazy!Orders(S)
    PROVE  later \in Seq(Image) /\ Lazy!Waiting(later) = S /\ (S = {} => later = <<>>)
<1>1. IsFiniteSet(S)
  BY FS_Subset
<1>2. Cardinality(S) \in Nat
  BY <1>1, FS_CardinalityType
<1>3. later \in [1 .. Cardinality(S) -> S] /\ Lazy!Waiting(later) = S
  BY DEF Lazy!Orders, Lazy!Cardinality, Cardinality
<1>4. later \in Seq(S)
  BY <1>2, <1>3
<1>5. later \in Seq(Image)
  BY <1>4
<1>6. ASSUME S = {} PROVE later = <<>>
  <2>1. Len(later) = 0
    <3>1. ~(Len(later) > 0)
      <4> SUFFICES ASSUME Len(later) > 0 PROVE FALSE
        OBVIOUS
      <4>1. 1 \in 1 .. Len(later) /\ DOMAIN later = 1 .. Len(later)
        BY <1>4, LenProperties
      <4> QED
        BY <4>1, <1>4, <1>6
    <3> QED
      BY <3>1, <1>4, LenProperties
  <2> QED
    BY <2>1, <1>4, EmptySeq
<1> QED
  BY <1>3, <1>5, <1>6

LEMMA ImagesConcat ==
    ASSUME NEW q \in Seq(Image), NEW later \in Seq(Image)
    PROVE  /\ q \o later \in Seq(Image)
           /\ Lazy!Waiting(q \o later) = Lazy!Waiting(q) \cup Lazy!Waiting(later)
<1>1. /\ q \o later \in Seq(Image) /\ Len(q \o later) = Len(q) + Len(later)
      /\ \A n \in 1 .. Len(q) + Len(later) :
             (q \o later)[n] = IF n <= Len(q) THEN q[n] ELSE later[n - Len(q)]
      /\ Len(q) \in Nat /\ Len(later) \in Nat
  BY ConcatProperties, LenProperties
<1>2. /\ DOMAIN q = 1 .. Len(q) /\ DOMAIN later = 1 .. Len(later)
      /\ DOMAIN (q \o later) = 1 .. Len(q) + Len(later)
  BY <1>1, LenProperties
<1>3. ASSUME NEW n \in 1 .. Len(q) + Len(later)
      PROVE  (q \o later)[n] \in Lazy!Waiting(q) \cup Lazy!Waiting(later)
  <2>1. CASE n <= Len(q)
    <3>1. n \in 1 .. Len(q) /\ (q \o later)[n] = q[n]
      BY <2>1, <1>1
    <3> QED
      BY <3>1, <1>2 DEF Lazy!Waiting
  <2>2. CASE ~(n <= Len(q))
    <3>1. n - Len(q) \in 1 .. Len(later) /\ (q \o later)[n] = later[n - Len(q)]
      BY <2>2, <1>1
    <3> QED
      BY <3>1, <1>2 DEF Lazy!Waiting
  <2> QED
    BY <2>1, <2>2
<1>4. ASSUME NEW n \in 1 .. Len(q) PROVE q[n] \in Lazy!Waiting(q \o later)
  <2>1. n \in 1 .. Len(q) + Len(later) /\ (q \o later)[n] = q[n]
    BY <1>1
  <2> QED
    BY <2>1, <1>2 DEF Lazy!Waiting
<1>5. ASSUME NEW n \in 1 .. Len(later) PROVE later[n] \in Lazy!Waiting(q \o later)
  <2>1. Len(q) + n \in 1 .. Len(q) + Len(later) /\ (q \o later)[Len(q) + n] = later[n]
    BY <1>1
  <2> QED
    BY <2>1, <1>2 DEF Lazy!Waiting
<1>6. Lazy!Waiting(q \o later) \subseteq Lazy!Waiting(q) \cup Lazy!Waiting(later)
  BY <1>2, <1>3 DEF Lazy!Waiting
<1>7. Lazy!Waiting(q) \cup Lazy!Waiting(later) \subseteq Lazy!Waiting(q \o later)
  BY <1>2, <1>4, <1>5 DEF Lazy!Waiting
<1> QED
  BY <1>1, <1>6, <1>7

LEMMA ImagesInitIInv == Lazy!Init => ImagesIInv
<1> SUFFICES ASSUME NEW sequential \in BOOLEAN,
                    w = [sequential |-> sequential,
                         lazy    |-> Image,
                         loads   |-> [x \in Image |-> 0],
                         waiting |-> <<>>,
                         busy    |-> FALSE,
                         asked   |-> {}]
             PROVE  ImagesGood(w)
  BY DEF Lazy!Init, ImagesIInv
<1>1. <<>> \in Seq(Image) /\ [x \in Image |-> 0] \in [Image -> Nat]
  OBVIOUS
<1>2. w \in ImagesState
  BY <1>1 DEF ImagesState
<1> QED
  BY <1>2 DEF ImagesGood, ImagesKept, ImagesInTurn

\* The images in sight are loaded or wait.
LEMMA ImagesSeen ==
    ASSUME PagePartsAssumption, ImagesGood(w), NEW sight \in SUBSET Image,
           Lazy!LazyHandler(sight)
    PROVE  ImagesGood(w')
<1> DEFINE wanted == (sight \cap w.lazy) \ Bare
           now == IF ~w.sequential THEN {wanted}
                  ELSE IF w.busy \/ wanted = {} THEN {{}}
                  ELSE {{x} : x \in wanted}
<1>1. PICK first \in now : \E later \in Lazy!Orders((wanted \ first) \ Lazy!Waiting(w.waiting)) :
          w' = [w EXCEPT !.busy = @ \/ first # {},
                         !.loads = [x \in Image |-> IF x \in first THEN @[x] + 1 ELSE @[x]],
                         !.waiting = @ \o later,
                         !.asked = @ \cup sight]
  BY DEF Lazy!LazyHandler
<1> DEFINE rest == (wanted \ first) \ Lazy!Waiting(w.waiting)
           loads == [x \in Image |-> IF x \in first THEN w.loads[x] + 1 ELSE w.loads[x]]
<1>2. PICK later \in Lazy!Orders(rest) :
          w' = [w EXCEPT !.busy = @ \/ first # {},
                         !.loads = loads,
                         !.waiting = @ \o later,
                         !.asked = @ \cup sight]
  BY <1>1
<1>3. /\ w \in ImagesState /\ w.loads \in [Image -> Nat] /\ w.waiting \in Seq(Image)
      /\ w.lazy \in SUBSET Image /\ w.asked \in SUBSET Image
      /\ w.busy \in BOOLEAN /\ w.sequential \in BOOLEAN
  BY DEF ImagesGood, ImagesState
<1>4. first \subseteq wanted /\ wanted \subseteq Image /\ rest \in SUBSET Image
  BY <1>3
<1>5. IsFiniteSet(Image)
  BY DEF PagePartsAssumption, Lazy!LazyImagesAssumption, Lazy!IsFiniteSet, IsFiniteSet
<1>6. /\ later \in Seq(Image) /\ Lazy!Waiting(later) = rest
      /\ rest = {} => later = <<>>
  BY <1>2, <1>4, <1>5, ImagesOrdered
<1>7. /\ w.waiting \o later \in Seq(Image)
      /\ Lazy!Waiting(w.waiting \o later) = Lazy!Waiting(w.waiting) \cup rest
  <2>1. /\ w.waiting \o later \in Seq(Image)
        /\ Lazy!Waiting(w.waiting \o later) = Lazy!Waiting(w.waiting) \cup Lazy!Waiting(later)
    BY <1>3, <1>6, ImagesConcat
  <2> QED
    BY <2>1, <1>6
<1>8. loads \in [Image -> Nat] /\ (\A x \in Image : loads[x] >= w.loads[x])
                               /\ (\A x \in first : loads[x] > 0)
  BY <1>3, <1>4
<1>9. (w.busy \/ first # {}) \in BOOLEAN /\ w.asked \cup sight \in SUBSET Image
  BY <1>3
<1> HIDE DEF loads
<1>10. w' \in ImagesState
  BY <1>2, <1>3, <1>7, <1>8, <1>9 DEF ImagesState
<1>11. /\ w'.sequential = w.sequential /\ w'.lazy = w.lazy /\ w'.loads = loads
       /\ w'.waiting = w.waiting \o later /\ w'.asked = w.asked \cup sight
       /\ w'.busy = (w.busy \/ first # {})
  BY <1>2, <1>3 DEF ImagesState
<1>12. ImagesKept(w'.asked, w'.lazy, w'.loads, w'.waiting)
  <2> SUFFICES ASSUME NEW x \in (w.asked \cup sight) \ Bare, x \in w.lazy,
                      ~(loads[x] > 0)
               PROVE  x \in Lazy!Waiting(w.waiting) \cup rest
    BY <1>7, <1>11 DEF ImagesKept
  <2>1. x \in Image /\ x \notin first
    BY <1>3, <1>8
  <2>2. CASE x \in w.asked
    <3>1. ~(w.loads[x] > 0)
      BY <2>1, <1>3, <1>8
    <3> QED
      BY <2>2, <3>1 DEF ImagesGood, ImagesKept
  <2>3. CASE x \in sight
    BY <2>1, <2>3
  <2> QED
    BY <2>2, <2>3
<1>13. CASE ~w.sequential
  <2>1. w.waiting = <<>> /\ first = wanted
    BY <1>13 DEF ImagesGood
  <2>2. later = <<>>
    BY <2>1, <1>6
  <2>3. w'.waiting = <<>>
    BY <2>1, <2>2, <1>11
  <2> QED
    BY <2>3, <1>10, <1>11, <1>12, <1>13 DEF ImagesGood
<1>14. CASE w.sequential /\ w.busy
  <2>1. first = {} /\ \E one \in Image : w.loads = [x \in Image |-> IF x = one THEN 1 ELSE 0]
    BY <1>14 DEF ImagesGood, ImagesInTurn
  <2>2. loads = w.loads
    BY <2>1, <1>3 DEF loads
  <2>3. w'.busy /\ w'.loads = w.loads
    BY <2>2, <1>11, <1>14
  <2>4. ImagesInTurn(w'.busy, w'.loads, w'.waiting)
    BY <2>1, <2>3 DEF ImagesInTurn
  <2> QED
    BY <2>4, <1>10, <1>11, <1>12, <1>14 DEF ImagesGood
<1>15. CASE w.sequential /\ ~w.busy /\ wanted = {}
  <2>1. first = {} /\ w.waiting = <<>> /\ w.loads = [x \in Image |-> 0]
    BY <1>15 DEF ImagesGood, ImagesInTurn
  <2>2. loads = w.loads
    BY <2>1, <1>3 DEF loads
  <2>3. later = <<>>
    BY <1>6, <1>15
  <2>4. /\ ~w'.busy /\ w'.waiting = w.waiting \o later
        /\ w'.loads = [x \in Image |-> 0]
    BY <2>1, <2>2, <1>11, <1>15
  <2>5. ImagesInTurn(w'.busy, w'.loads, w'.waiting)
    BY <2>1, <2>3, <2>4 DEF ImagesInTurn
  <2> QED
    BY <2>5, <1>10, <1>11, <1>12, <1>15 DEF ImagesGood
<1>16. CASE w.sequential /\ ~w.busy /\ wanted # {}
  <2>1. PICK one \in wanted : first = {one}
    BY <1>16
  <2>2. w.loads = [x \in Image |-> 0] /\ one \in Image
    BY <1>4, <1>16 DEF ImagesGood, ImagesInTurn
  <2>3. loads = [x \in Image |-> IF x = one THEN 1 ELSE 0]
    BY <2>1, <2>2 DEF loads
  <2>4. ImagesInTurn(w'.busy, w'.loads, w'.waiting)
    BY <2>1, <2>2, <2>3, <1>11 DEF ImagesInTurn
  <2> QED
    BY <2>4, <1>10, <1>11, <1>12, <1>16 DEF ImagesGood
<1> QED
  BY <1>13, <1>14, <1>15, <1>16

\* An image has come: the next one of the sequence loads.
LEMMA ImagesLoaded ==
    ASSUME ImagesGood(w), NEW x \in Image, Lazy!OnLoad(x)
    PROVE  ImagesGood(w')
<1> DEFINE s == [w EXCEPT !.loads[x] = @ - 1, !.lazy = @ \ {x}]
           less == [w.loads EXCEPT ![x] = @ - 1]
<1>1. w.loads[x] > 0 /\ w' = Lazy!LoadNext(s)
  BY DEF Lazy!OnLoad
<1>2. /\ w \in ImagesState /\ w.loads \in [Image -> Nat] /\ w.waiting \in Seq(Image)
      /\ w.lazy \in SUBSET Image /\ w.asked \in SUBSET Image
      /\ w.busy \in BOOLEAN /\ w.sequential \in BOOLEAN
  BY DEF ImagesGood, ImagesState
<1>3. less \in [Image -> Nat] /\ \A y \in Image : y # x => less[y] = w.loads[y]
  BY <1>1, <1>2
<1> HIDE DEF less
<1>4. s \in ImagesState
  BY <1>2, <1>3 DEF ImagesState, less
<1>5. /\ s.sequential = w.sequential /\ s.lazy = w.lazy \ {x} /\ s.loads = less
      /\ s.waiting = w.waiting /\ s.asked = w.asked /\ s.busy = w.busy
  BY <1>2 DEF ImagesState, less
<1> HIDE DEF s
<1>6. ImagesKept(s.asked, s.lazy, s.loads, s.waiting)
  <2> SUFFICES ASSUME NEW y \in w.asked \ Bare, y \in w.lazy, y # x, ~(less[y] > 0)
               PROVE  y \in Lazy!Waiting(w.waiting)
    BY <1>5 DEF ImagesKept
  <2>1. y \in Image /\ ~(w.loads[y] > 0)
    BY <1>2, <1>3
  <2> QED
    BY <2>1 DEF ImagesGood, ImagesKept
<1>7. CASE ~w.sequential
  <2>1. w' = s
    BY <1>1, <1>5, <1>7 DEF Lazy!LoadNext
  <2>2. s.waiting = <<>>
    BY <1>5, <1>7 DEF ImagesGood
  <2> QED
    BY <2>1, <2>2, <1>4, <1>5, <1>6, <1>7 DEF ImagesGood
<1>8. CASE w.sequential
  <2>1. less = [y \in Image |-> 0]
    <3>1. PICK one \in Image : w.loads = [y \in Image |-> IF y = one THEN 1 ELSE 0]
      BY <1>1, <1>8 DEF ImagesGood, ImagesInTurn
    <3>2. x = one
      BY <3>1, <1>1
    <3> QED
      BY <3>1, <3>2 DEF less
  <2>2. CASE w.waiting = <<>>
    <3>1. w' = [s EXCEPT !.busy = FALSE]
      BY <1>1, <1>5, <1>8, <2>2 DEF Lazy!LoadNext
    <3>2. w' \in ImagesState
      BY <3>1, <1>4 DEF ImagesState
    <3>3. /\ w'.sequential = s.sequential /\ w'.lazy = s.lazy /\ w'.loads = s.loads
          /\ w'.waiting = s.waiting /\ w'.asked = s.asked /\ ~w'.busy
      BY <3>1, <1>4 DEF ImagesState
    <3>4. ImagesInTurn(w'.busy, w'.loads, w'.waiting)
      BY <3>3, <2>1, <2>2, <1>5 DEF ImagesInTurn
    <3> QED
      BY <3>2, <3>3, <3>4, <1>5, <1>6, <1>8 DEF ImagesGood
  <2>3. CASE w.waiting # <<>>
    <3> DEFINE next == Head(s.waiting)
               n == [s EXCEPT !.busy = FALSE, !.waiting = Tail(@)]
    <3>1. /\ next \in Image /\ Tail(s.waiting) \in Seq(Image)
          /\ Lazy!Waiting(s.waiting) = Lazy!Waiting(Tail(s.waiting)) \cup {next}
      BY <1>2, <1>5, <2>3, ImagesTail
    <3>2. w' = Lazy!LoadImage(n, next)
      BY <1>1, <1>5, <1>8, <2>3 DEF Lazy!LoadNext
    <3>3. n \in ImagesState
      BY <3>1, <1>4 DEF ImagesState
    <3>4. /\ n.sequential = s.sequential /\ n.lazy = s.lazy /\ n.loads = s.loads
          /\ n.waiting = Tail(s.waiting) /\ n.asked = s.asked /\ n.busy = FALSE
      BY <1>4 DEF ImagesState
    <3> HIDE DEF n, next
    <3>5. w' = [n EXCEPT !.busy = TRUE, !.loads[next] = @ + 1]
      BY <3>2, <3>4 DEF Lazy!LoadImage
    <3> DEFINE loads == [n.loads EXCEPT ![next] = @ + 1]
    <3>6. loads = [y \in Image |-> IF y = next THEN 1 ELSE 0]
      BY <3>1, <3>4, <2>1, <1>5
    <3>7. loads \in [Image -> Nat]
      <4>1. n.loads \in [Image -> Nat] /\ n.loads[next] + 1 \in Nat
        BY <3>1, <3>3 DEF ImagesState
      <4> QED
        BY <4>1
    <3> HIDE DEF loads
    <3>8. w' \in ImagesState
      BY <3>3, <3>5, <3>7 DEF ImagesState, loads
    <3>9. /\ w'.sequential = s.sequential /\ w'.lazy = s.lazy /\ w'.loads = loads
          /\ w'.waiting = Tail(s.waiting) /\ w'.asked = s.asked /\ w'.busy = TRUE
      BY <3>3, <3>4, <3>5 DEF ImagesState, loads
    <3>10. ImagesInTurn(w'.busy, w'.loads, w'.waiting)
      BY <3>1, <3>6, <3>9 DEF ImagesInTurn
    <3>11. ImagesKept(w'.asked, w'.lazy, w'.loads, w'.waiting)
      <4> SUFFICES ASSUME NEW y \in s.asked \ Bare, y \in s.lazy, ~(loads[y] > 0)
                   PROVE  y \in Lazy!Waiting(Tail(s.waiting))
        BY <3>9 DEF ImagesKept
      <4>1. y \in Image /\ y # next
        BY <1>2, <1>5, <3>6
      <4>2. ~(s.loads[y] > 0)
        BY <4>1, <1>5, <2>1
      <4>3. y \in Lazy!Waiting(s.waiting)
        BY <4>2, <1>6 DEF ImagesKept
      <4> QED
        BY <4>1, <4>3, <3>1
    <3> QED
      BY <3>8, <3>9, <3>10, <3>11, <1>5, <1>8 DEF ImagesGood
  <2> QED
    BY <2>2, <2>3
<1> QED
  BY <1>2, <1>7, <1>8

LEMMA ImagesStepIInv ==
    PagePartsAssumption /\ ImagesIInv /\ [Lazy!Next]_w => ImagesIInv'
<1> SUFFICES ASSUME PagePartsAssumption, ImagesGood(w), [Lazy!Next]_w PROVE ImagesGood(w')
  BY DEF ImagesIInv
<1>1. CASE UNCHANGED w
  BY <1>1
<1> QED
  BY <1>1, ImagesSeen, ImagesLoaded DEF Lazy!Next

\* In sequence the images that load are one or none.
LEMMA ImagesNoneLeftFollows == ImagesIInv => Lazy!NoneLeftOver
<1> SUFFICES ASSUME ImagesGood(w) PROVE Lazy!NoneLeftOver
  BY DEF ImagesIInv
<1>1. /\ w.loads \in [Image -> Nat] /\ w.sequential \in BOOLEAN
      /\ w.busy \in BOOLEAN
  BY DEF ImagesGood, ImagesState
<1>2. \A x \in w.asked \ Bare :
          x \in w.lazy => w.loads[x] > 0 \/ x \in Lazy!Waiting(w.waiting)
  BY DEF ImagesGood, ImagesKept
<1>3. w.waiting # <<>> => \E x \in Image : w.loads[x] > 0
  <2> SUFFICES ASSUME w.waiting # <<>> PROVE \E x \in Image : w.loads[x] > 0
    OBVIOUS
  <2>1. PICK one \in Image : w.loads = [x \in Image |-> IF x = one THEN 1 ELSE 0]
    BY DEF ImagesGood, ImagesInTurn
  <2>2. w.loads[one] > 0
    BY <2>1
  <2> QED
    BY <2>2
<1>4. ASSUME w.sequential
      PROVE  /\ Cardinality({x \in Image : w.loads[x] > 0}) <= 1
             /\ \A x \in Image : w.loads[x] <= 1
  <2>1. CASE w.busy
    <3>1. PICK one \in Image : w.loads = [x \in Image |-> IF x = one THEN 1 ELSE 0]
      BY <1>4, <2>1 DEF ImagesGood, ImagesInTurn
    <3>2. {x \in Image : w.loads[x] > 0} = {one}
      BY <3>1
    <3>3. Cardinality({one}) = 1
      BY FS_Singleton
    <3> QED
      BY <3>1, <3>2, <3>3
  <2>2. CASE ~w.busy
    <3>1. w.loads = [x \in Image |-> 0]
      BY <1>4, <2>2 DEF ImagesGood, ImagesInTurn
    <3>2. {x \in Image : w.loads[x] > 0} = {}
      BY <3>1
    <3>3. Cardinality({}) = 0
      BY FS_EmptySet
    <3> QED
      BY <3>1, <3>2, <3>3
  <2> QED
    BY <2>1, <2>2
<1> QED
  BY <1>1, <1>2, <1>3, <1>4 DEF Lazy!NoneLeftOver, Lazy!Cardinality, Cardinality

-----------------------------------------------------------------------------
(* Router: the pages along the history, and how far the browser is from it. *)
RouterMoving == {Route!Still} \cup [kind : {"load", "back"}, new : Route!Page, old : Route!Page]
RouterState ==
    [allow : BOOLEAN, url : Route!Page, active : Route!Page, history : Seq(Route!Page),
     shown : Seq(Route!Page), cached : SUBSET Route!Page, ready : SUBSET Route!Page,
     on : [Route!Page -> {"none", "left", "center", "right"}], moving : RouterMoving,
     queue : Seq(Route!Page \cup {"back"}), entries : Seq(Route!Page), at : Nat, pending : Nat]

\* The view's history: from the first page along links, each page once, with a
\* smart select at most at its end.
RouterPath(d, h) ==
    /\ h \in Seq(Route!Page) /\ Len(h) > 0 /\ h[1] = Home
    /\ \A i \in 1 .. Len(h) - 1 :
           h[i] \in Inline /\ (<<h[i], h[i + 1]>> \in d.links \/ h[i + 1] = Select)
    /\ \A i, j \in 1 .. Len(h) : h[i] = h[j] => i = j
    /\ d.backKey = "browser" => Len(h) <= 2

RouterTop(v) == v.history[Len(v.history)]
RouterBelow(v) == v.history[Len(v.history) - 1]
RouterDeep(v) == Len(v.history) > 1

\* The page on top is out of the cache, and so is the one below it.
RouterPages(v) ==
    /\ v.shown = IF RouterDeep(v) THEN <<RouterBelow(v), RouterTop(v)>> ELSE v.history
    /\ v.cached = (Inline \cup ({Select} \cap {RouterTop(v)})) \ Route!Within(v.shown)
    /\ Route!Within(v.history) \subseteq v.ready

\* What the browser has gone through up to the current entry.
RouterEntries(d, v) ==
    /\ v.at > 0
    /\ d.pushState => /\ v.at <= Len(v.entries)
                      /\ \A i \in 1 .. Len(v.history) : i <= v.at => v.entries[i] = v.history[i]
    /\ ~d.pushState => v.at = 1 /\ v.pending = 0 /\ v.queue = <<>>

\* The browser's history against the view's: as long, one entry longer or about
\* to be, shorter, and shorter with a back that waits for an animation to end.
RouterEven(v) == v.at = Len(v.history) /\ v.pending = 0 /\ v.queue = <<>>
RouterAhead(v) == v.at = Len(v.history) + 1 /\ v.pending = 1 /\ v.queue = <<>>
RouterLeaving(v) == v.at = Len(v.history) /\ v.pending = 1 /\ v.queue = <<>>
RouterBehind(v) == v.at = Len(v.history) - 1 /\ v.pending = 0 /\ v.queue = <<>>
RouterWaiting(v) == v.at = Len(v.history) - 1 /\ v.pending = 0 /\ v.queue = <<"back">>

\* Where a step of navigation has got to, and how the two histories may differ
\* meanwhile; with "browser" the back key is pressed at any time.
RouterFinger == {Route!NoTouch, [state |-> "touched"]}
RouterAtTop(v) == v.url = RouterTop(v) /\ v.active = RouterTop(v)
RouterAtBelow(v) == RouterDeep(v) /\ v.url = RouterBelow(v) /\ v.active = RouterBelow(v)
RouterRest(v) ==
    /\ v.moving = Route!Still /\ RouterAtTop(v)
    /\ v.on[RouterTop(v)] \in {"none", "center"}
    /\ RouterDeep(v) => v.on[RouterBelow(v)] = "left"
RouterSlide(v) == v.on[RouterTop(v)] = "none" /\ v.on[RouterBelow(v)] = "none"

RouterStill(d, v, t) ==
    /\ v.allow /\ RouterRest(v) /\ t \in RouterFinger
    /\ d.pushState => \/ RouterEven(v) \/ RouterAhead(v)
                      \/ d.backKey = "browser" /\ (RouterLeaving(v) \/ RouterWaiting(v))
RouterMoved(d, v, t) ==
    /\ v.allow /\ RouterRest(v) /\ RouterDeep(v)
    /\ t = [state |-> "moved", active |-> RouterTop(v), previous |-> RouterBelow(v)]
    /\ d.pushState => RouterEven(v) \/ (d.backKey = "browser" /\ RouterWaiting(v))
RouterReset(d, v, t) ==
    /\ ~v.allow /\ RouterRest(v) /\ RouterDeep(v)
    /\ t = [state |-> "reset", active |-> RouterTop(v), previous |-> RouterBelow(v)]
    /\ d.pushState => \/ RouterEven(v)
                      \/ d.backKey = "browser" /\ (RouterLeaving(v) \/ RouterWaiting(v))
RouterSwiped(d, v, t) ==
    /\ ~v.allow /\ v.moving = Route!Still /\ RouterAtBelow(v)
    /\ t = [state |-> "back", active |-> RouterTop(v), previous |-> RouterBelow(v)]
    /\ d.pushState => \/ RouterEven(v)
                      \/ /\ d.backKey = "browser"
                         /\ RouterLeaving(v) \/ RouterBehind(v) \/ RouterWaiting(v)
RouterLoading(d, v, t) ==
    /\ ~v.allow /\ RouterDeep(v) /\ RouterAtTop(v) /\ RouterSlide(v) /\ t \in RouterFinger
    /\ v.moving = [kind |-> "load", new |-> RouterTop(v), old |-> RouterBelow(v)]
    /\ d.pushState => \/ RouterEven(v)
                      \/ d.backKey = "browser" /\ (RouterLeaving(v) \/ RouterWaiting(v))
RouterBack(d, v, t) ==
    /\ ~v.allow /\ RouterAtBelow(v) /\ RouterSlide(v) /\ t \in RouterFinger
    /\ v.moving = [kind |-> "back", new |-> RouterBelow(v), old |-> RouterTop(v)]
    /\ d.pushState => \/ RouterLeaving(v) \/ RouterBehind(v)
                      \/ d.backKey = "browser" /\ RouterWaiting(v)

RouterMode(d, v, t) ==
    \/ RouterStill(d, v, t) \/ RouterMoved(d, v, t) \/ RouterReset(d, v, t)
    \/ RouterSwiped(d, v, t) \/ RouterLoading(d, v, t) \/ RouterBack(d, v, t)
RouterWell(d, v) ==
    v \in RouterState /\ RouterPath(d, v.history) /\ RouterPages(v) /\ RouterEntries(d, v)
RouterGood(d, v, t) == d \in Documents /\ RouterWell(d, v) /\ RouterMode(d, v, t)

RouterIInv == RouterGood(doc, view, touch)

-----------------------------------------------------------------------------
LEMMA RouterDocs == PagePartsAssumption =>
    /\ Route!Page = Inline \cup {Select} /\ Home \in Inline
    /\ Select \notin Inline /\ Missing \notin Route!Page
    /\ \A d \in Documents :
          /\ d.pushState \in BOOLEAN
          /\ d.links \subseteq Inline \X (Inline \cup {Missing}) /\ d.selects \subseteq Inline
          /\ d.backKey = "browser" => d.links = {}
    /\ \A d \in Documents, S \in SUBSET Inline :
          S # {} => \E p \in S : \A q \in S : <<q, p>> \notin d.links
  BY DEF PagePartsAssumption, Route!RouterAssumption, Route!Page

\* Sequences of pages.
LEMMA RouterUpto == ASSUME NEW S, NEW q \in Seq(S), NEW n \in Nat, n <= Len(q)
    PROVE  /\ Route!Upto(q, n) \in Seq(S) /\ Len(Route!Upto(q, n)) = n
           /\ \A i \in 1 .. n : Route!Upto(q, n)[i] = q[i]
<1>1. Route!Upto(q, n) \in [1 .. n -> S]
  BY DEF Route!Upto
<1>2. Route!Upto(q, n) \in Seq(S)
  BY <1>1
<1> QED
  BY <1>1, <1>2 DEF Route!Upto

LEMMA RouterFront == ASSUME NEW S, NEW q \in Seq(S), Len(q) > 1
    PROVE  /\ Route!Front(q) \in Seq(S) /\ Len(Route!Front(q)) = Len(q) - 1
           /\ \A i \in 1 .. Len(q) - 1 : Route!Front(q)[i] = q[i]
<1>1. Len(q) - 1 \in Nat /\ Len(q) - 1 <= Len(q)
  OBVIOUS
<1> QED
  BY <1>1, RouterUpto DEF Route!Front

LEMMA RouterAppend == ASSUME NEW S, NEW q \in Seq(S), NEW e \in S
    PROVE  /\ Append(q, e) \in Seq(S) /\ Len(Append(q, e)) = Len(q) + 1
           /\ Append(q, e)[Len(q) + 1] = e
           /\ \A i \in 1 .. Len(q) : Append(q, e)[i] = q[i]
  OBVIOUS

LEMMA RouterPathTyped == ASSUME NEW d, NEW h, RouterPath(d, h)
    PROVE  h \in Seq(Route!Page) /\ Len(h) \in Nat /\ Len(h) > 0
  BY DEF RouterPath

\* Without its last page a history is one, too.
LEMMA RouterPathFront == ASSUME NEW d, NEW h, RouterPath(d, h), Len(h) > 1
    PROVE  RouterPath(d, Route!Front(h))
<1> DEFINE f == Route!Front(h)
           n == Len(h)
<1>1. h \in Seq(Route!Page) /\ n \in Nat /\ n > 1
  BY RouterPathTyped
<1>2. f \in Seq(Route!Page) /\ Len(f) = n - 1 /\ \A i \in 1 .. n - 1 : f[i] = h[i]
  BY <1>1, RouterFront
<1>3. /\ h[1] = Home
      /\ \A i \in 1 .. n - 1 :
             h[i] \in Inline /\ (<<h[i], h[i + 1]>> \in d.links \/ h[i + 1] = Select)
      /\ \A i, j \in 1 .. n : h[i] = h[j] => i = j
      /\ d.backKey = "browser" => n <= 2
  BY DEF RouterPath
<1> HIDE DEF f, n
<1>4. \A i \in 1 .. n - 2 : /\ i \in 1 .. n - 1 /\ i + 1 \in 1 .. n - 1
                            /\ f[i] = h[i] /\ f[i + 1] = h[i + 1]
  BY <1>1, <1>2
<1>5. \A i \in 1 .. Len(f) - 1 :
          f[i] \in Inline /\ (<<f[i], f[i + 1]>> \in d.links \/ f[i + 1] = Select)
  <2> TAKE i \in 1 .. Len(f) - 1
  <2>1. i \in 1 .. n - 2
    BY <1>1, <1>2
  <2> QED
    BY <2>1, <1>3, <1>4
<1>6. \A i, j \in 1 .. Len(f) : f[i] = f[j] => i = j
  <2> TAKE i, j \in 1 .. Len(f)
  <2>1. i \in 1 .. n - 1 /\ j \in 1 .. n - 1 /\ i \in 1 .. n /\ j \in 1 .. n
    BY <1>1, <1>2
  <2> QED
    BY <2>1, <1>2, <1>3
<1>7. Len(f) > 0 /\ f[1] = Home /\ (d.backKey = "browser" => Len(f) <= 2)
  BY <1>1, <1>2, <1>3
<1> QED
  BY <1>2, <1>5, <1>6, <1>7 DEF RouterPath, f

\* No way leads back to a page of the history, since links have no cycle.
LEMMA RouterPathNew ==
    ASSUME PagePartsAssumption, NEW d \in Documents, NEW h, RouterPath(d, h),
           NEW p, <<h[Len(h)], p>> \in d.links, p \in Inline
    PROVE  \A k \in 1 .. Len(h) : h[k] # p
<1> DEFINE n == Len(h)
<1> SUFFICES ASSUME NEW k \in 1 .. n, h[k] = p PROVE FALSE
  OBVIOUS
<1> DEFINE S == {h[i] : i \in k .. n}
<1>1. n \in Nat /\ n > 0 /\ k \in Nat /\ k > 0
  BY RouterPathTyped
<1>2. \A i \in 1 .. n - 1 :
          h[i] \in Inline /\ (<<h[i], h[i + 1]>> \in d.links \/ h[i + 1] = Select)
  BY DEF RouterPath
<1>3. Select \notin Inline /\ h[n] \in Inline
  BY RouterDocs
<1>4. \A i \in 1 .. n : h[i] \in Inline
  <2> TAKE i \in 1 .. n
  <2>1. i = n \/ i \in 1 .. n - 1
    BY <1>1
  <2> QED
    BY <2>1, <1>2, <1>3
<1> HIDE DEF n
<1>5. S \in SUBSET Inline
  <2> SUFFICES ASSUME NEW i \in k .. n PROVE h[i] \in Inline
    OBVIOUS
  <2>1. i \in 1 .. n
    BY <1>1
  <2> QED
    BY <2>1, <1>4
<1>6. h[k] \in S /\ h[n] \in S
  BY <1>1
<1>7. \A q \in S : \E o \in S : <<o, q>> \in d.links
  <2> SUFFICES ASSUME NEW i \in k .. n PROVE \E o \in S : <<o, h[i]>> \in d.links
    OBVIOUS
  <2>1. CASE i = k
    BY <2>1, <1>6 DEF n
  <2>2. CASE i > k
    <3>1. i - 1 \in k .. n /\ i - 1 \in 1 .. n - 1 /\ i \in 1 .. n /\ (i - 1) + 1 = i
      BY <2>2, <1>1
    <3>2. h[i] # Select
      BY <3>1, <1>3, <1>4
    <3>3. <<h[i - 1], h[i]>> \in d.links
      BY <3>1, <3>2, <1>2
    <3> QED
      BY <3>1, <3>3
  <2>3. i = k \/ i > k
    BY <1>1
  <2> QED
    BY <2>1, <2>2, <2>3
<1> HIDE DEF S
<1> QED
  BY <1>5, <1>6, <1>7, RouterDocs

\* A page is loaded that a link or a smart select of the last one leads to.
RouterWay(d, o, p) == \/ <<o, p>> \in d.links /\ p \in Inline
                      \/ o \in d.selects /\ p = Select

LEMMA RouterPathAppend ==
    ASSUME PagePartsAssumption, NEW d \in Documents, NEW h, RouterPath(d, h),
           NEW p, RouterWay(d, h[Len(h)], p)
    PROVE  /\ RouterPath(d, Append(h, p)) /\ p \in Route!Page /\ h[Len(h)] \in Inline
           /\ \A k \in 1 .. Len(h) : h[k] # p
           /\ d.backKey = "browser" => Len(h) = 1
<1> DEFINE n == Len(h)
           a == Append(h, p)
<1>1. h \in Seq(Route!Page) /\ n \in Nat /\ n > 0
  BY RouterPathTyped
<1>2. /\ h[1] = Home
      /\ \A i \in 1 .. n - 1 :
             h[i] \in Inline /\ (<<h[i], h[i + 1]>> \in d.links \/ h[i + 1] = Select)
      /\ \A i, j \in 1 .. n : h[i] = h[j] => i = j
      /\ d.backKey = "browser" => n <= 2
  BY DEF RouterPath
<1>3. p \in Route!Page /\ h[n] \in Inline /\ Select \notin Inline
  BY RouterDocs DEF RouterWay
<1>4. \A k \in 1 .. n : h[k] # p
  <2>1. CASE <<h[n], p>> \in d.links /\ p \in Inline
    BY <2>1, RouterPathNew
  <2>2. CASE p = Select
    <3> TAKE k \in 1 .. n
    <3>1. k = n \/ k \in 1 .. n - 1
      BY <1>1
    <3> QED
      BY <3>1, <2>2, <1>2, <1>3
  <2> QED
    BY <2>1, <2>2 DEF RouterWay
<1>5. <<h[n], p>> \in d.links \/ p = Select
  BY DEF RouterWay
<1> HIDE DEF n
<1>61. ASSUME d.backKey = "browser", n = 2 PROVE FALSE
  <2>2. 1 \in 1 .. n - 1 /\ d.links = {}
    BY <1>61, RouterDocs
  <2>3. h[1 + 1] = Select
    BY <2>2, <1>2
  <2> QED
    BY <1>61, <2>3, <1>3
<1>62. n <= 2 => n = 1 \/ n = 2
  BY <1>1
<1>6. d.backKey = "browser" => n = 1
  BY <1>61, <1>62, <1>2
<1>7. a \in Seq(Route!Page) /\ Len(a) = n + 1 /\ a[n + 1] = p
      /\ \A i \in 1 .. n : a[i] = h[i]
  BY <1>1, <1>3, RouterAppend DEF n
<1> HIDE DEF a, n
<1>8. \A i \in 1 .. Len(a) - 1 :
          a[i] \in Inline /\ (<<a[i], a[i + 1]>> \in d.links \/ a[i + 1] = Select)
  <2> TAKE i \in 1 .. Len(a) - 1
  <2>1. i \in 1 .. n /\ (i = n \/ (i \in 1 .. n - 1 /\ i + 1 \in 1 .. n))
    BY <1>1, <1>7
  <2> QED
    BY <2>1, <1>2, <1>3, <1>5, <1>7
<1>9. \A i, j \in 1 .. Len(a) : a[i] = a[j] => i = j
  <2> TAKE i, j \in 1 .. Len(a)
  <2>1. (i \in 1 .. n \/ i = n + 1) /\ (j \in 1 .. n \/ j = n + 1)
    BY <1>1, <1>7
  <2> QED
    BY <2>1, <1>2, <1>4, <1>7
<1>10. Len(a) > 0 /\ 1 \in 1 .. n /\ (d.backKey = "browser" => Len(a) <= 2)
  BY <1>1, <1>6, <1>7
<1>11. a[1] = Home
  BY <1>2, <1>7, <1>10
<1> QED
  BY <1>3, <1>4, <1>6, <1>7, <1>8, <1>9, <1>10, <1>11 DEF RouterPath, a, n

\* The pages that are out of the cache: one, or two with the last one on top.
LEMMA RouterOne == ASSUME NEW a
    PROVE  /\ Route!Within(<<a>>) = {a} /\ Route!Last(<<a>>) = a
           /\ \A p : p # a => Route!Without(<<a>>, p) = <<a>> /\ Route!Insert(<<a>>, p, a) = <<p, a>>
<1>1. Route!Within(<<a>>) = {a}
  BY DEF Route!Within
<1>2. Route!Last(<<a>>) = a
  BY DEF Route!Last
<1>3. Route!PlaceOf(<<a>>, a) = 1
  BY DEF Route!PlaceOf
<1>4. ASSUME NEW p, p # a
      PROVE  Route!Without(<<a>>, p) = <<a>> /\ Route!Insert(<<a>>, p, a) = <<p, a>>
  <2>1. Route!Without(<<a>>, p) = <<a>>
    BY <1>1, <1>4 DEF Route!Without
  <2>2. Route!Insert(<<a>>, p, a)
            = [i \in 1 .. 2 |-> IF i < 1 THEN <<a>>[i] ELSE IF i = 1 THEN p ELSE <<a>>[i - 1]]
    BY <1>3 DEF Route!Insert
  <2>3. Route!Insert(<<a>>, p, a) = <<p, a>>
    BY <2>2
  <2> QED
    BY <2>1, <2>3
<1> QED
  BY <1>1, <1>2, <1>4

LEMMA RouterTwo == ASSUME NEW a, NEW b, a # b
    PROVE  /\ Route!Within(<<a, b>>) = {a, b} /\ Route!Last(<<a, b>>) = b
           /\ Route!Last(Route!Front(<<a, b>>)) = a /\ Route!Without(<<a, b>>, b) = <<a>>
<1>1. Route!Within(<<a, b>>) = {a, b}
  BY DEF Route!Within
<1>2. Route!Last(<<a, b>>) = b
  BY DEF Route!Last
<1>3. Route!Front(<<a, b>>) = [i \in 1 .. 1 |-> <<a, b>>[i]]
  BY DEF Route!Front, Route!Upto
<1>4. Route!Front(<<a, b>>) = <<a>>
  BY <1>3
<1>5. Route!Last(Route!Front(<<a, b>>)) = a
  BY <1>4 DEF Route!Last
<1>6. Route!PlaceOf(<<a, b>>, b) = 2
  <2>1. \A i \in DOMAIN <<a, b>> : <<a, b>>[i] = b <=> i = 2
    OBVIOUS
  <2>2. 2 \in DOMAIN <<a, b>>
    OBVIOUS
  <2> QED
    BY <2>1, <2>2 DEF Route!PlaceOf
<1>7. Route!Without(<<a, b>>, b) = [i \in 1 .. 1 |-> <<a, b>>[IF i < 2 THEN i ELSE i + 1]]
  BY <1>1, <1>6 DEF Route!Without
<1>8. Route!Without(<<a, b>>, b) = <<a>>
  BY <1>7
<1> QED
  BY <1>1, <1>2, <1>5, <1>8

LEMMA RouterEnds ==
    ASSUME PagePartsAssumption, NEW d, NEW v, RouterPath(d, v.history)
    PROVE  /\ v.history \in Seq(Route!Page) /\ Len(v.history) \in Nat /\ Len(v.history) > 0
           /\ RouterTop(v) \in Route!Page /\ v.history[1] = Home
           /\ RouterDeep(v) => /\ RouterBelow(v) \in Inline /\ RouterBelow(v) \in Route!Page
                               /\ RouterBelow(v) # RouterTop(v)
           /\ Route!Previous(v.history) = IF RouterDeep(v) THEN RouterBelow(v) ELSE Missing
<1> DEFINE h == v.history
           n == Len(h)
<1>1. h \in Seq(Route!Page) /\ n \in Nat /\ n > 0 /\ h[1] = Home
      /\ (\A i \in 1 .. n - 1 : h[i] \in Inline) /\ \A i, j \in 1 .. n : h[i] = h[j] => i = j
  BY RouterPathTyped DEF RouterPath
<1> HIDE DEF n
<1>2. n \in 1 .. n /\ (n > 1 => n - 1 \in 1 .. n - 1 /\ n - 1 \in 1 .. n /\ n - 1 # n)
  BY <1>1
<1>3. h[n] \in Route!Page
  BY <1>1, <1>2 DEF n
<1>4. n > 1 => h[n - 1] \in Inline /\ h[n - 1] # h[n]
  BY <1>1, <1>2
<1>5. n > 1 => h[n - 1] \in Route!Page
  BY <1>4 DEF Route!Page
<1>6. Route!Previous(v.history) = IF n > 1 THEN h[n - 1] ELSE Missing
  BY DEF Route!Previous, n
<1> QED
  BY <1>1, <1>3, <1>4, <1>5, <1>6 DEF RouterTop, RouterBelow, RouterDeep, n

\* What a page stack has in the DOM, whatever moves.
LEMMA RouterStack ==
    ASSUME PagePartsAssumption, NEW d, NEW v, RouterPath(d, v.history), RouterPages(v)
    PROVE  /\ RouterDeep(v) => v.shown = <<RouterBelow(v), RouterTop(v)>> /\ Len(v.shown) = 2
           /\ ~RouterDeep(v) => v.shown = <<RouterTop(v)>> /\ Len(v.shown) = 1
                                /\ RouterTop(v) = Home /\ Len(v.history) = 1
           /\ Route!Last(v.shown) = RouterTop(v)
<1>0. v.history \in Seq(Route!Page) /\ Len(v.history) \in Nat /\ Len(v.history) > 0
      /\ v.history[1] = Home
  BY RouterEnds
<1>1. CASE RouterDeep(v)
  <2>1. v.shown = <<RouterBelow(v), RouterTop(v)>>
    BY <1>1 DEF RouterPages
  <2>2. RouterBelow(v) # RouterTop(v)
    BY <1>1, RouterEnds
  <2>3. Route!Last(<<RouterBelow(v), RouterTop(v)>>) = RouterTop(v)
    BY <2>2, RouterTwo
  <2> QED
    BY <2>1, <2>3, <1>1
<1>2. CASE ~RouterDeep(v)
  <2> DEFINE n == Len(v.history)
  <2>0. n = 1
    <3>1. n \in Nat /\ n > 0 /\ ~(n > 1)
      BY <1>0, <1>2 DEF RouterDeep
    <3> HIDE DEF n
    <3> QED
      BY <3>1
  <2>1. v.shown = v.history /\ Len(v.history) = 1
    BY <2>0, <1>2 DEF RouterPages
  <2>2. v.history = <<Home>> /\ RouterTop(v) = Home
    BY <2>1, <1>0 DEF RouterTop
  <2> QED
    BY <2>1, <2>2, <1>2, RouterOne
<1> QED
  BY <1>1, <1>2

-----------------------------------------------------------------------------
\* What a chain of calls leaves as it is when no page comes or goes.
RouterSame(v, r) ==
    r.history = v.history /\ r.shown = v.shown /\ r.cached = v.cached
    /\ r.ready = v.ready /\ r.entries = v.entries

LEMMA RouterSameWell ==
    ASSUME NEW d, NEW v, NEW r \in RouterState, RouterSame(v, r),
           RouterPath(d, v.history), RouterPages(v), RouterEntries(d, v), r.at = v.at,
           d.pushState \/ (r.pending = v.pending /\ r.queue = v.queue)
    PROVE  /\ RouterWell(d, r) /\ RouterTop(r) = RouterTop(v)
           /\ RouterBelow(r) = RouterBelow(v) /\ (RouterDeep(r) <=> RouterDeep(v))
<1>1. RouterTop(r) = RouterTop(v) /\ RouterBelow(r) = RouterBelow(v)
      /\ (RouterDeep(r) <=> RouterDeep(v))
  BY DEF RouterSame, RouterTop, RouterBelow, RouterDeep
<1>2. RouterPages(r)
  BY <1>1 DEF RouterPages, RouterSame
<1>3. RouterEntries(d, r)
  BY DEF RouterEntries, RouterSame
<1>4. RouterPath(d, r.history)
  BY DEF RouterSame
<1> QED
  BY <1>1, <1>2, <1>3, <1>4 DEF RouterWell

\* _back: the page below slides in, nothing comes or goes until it is there.
RouterBacks(v, push, r) ==
    /\ r \in RouterState /\ RouterSame(v, r) /\ ~r.allow
    /\ r.url = RouterBelow(v) /\ r.active = RouterBelow(v)
    /\ r.on[RouterTop(v)] = "none" /\ r.on[RouterBelow(v)] = "none"
    /\ r.moving = [kind |-> "back", new |-> RouterBelow(v), old |-> RouterTop(v)]
    /\ r.queue = v.queue /\ r.at = v.at
    /\ r.pending = IF doc.pushState /\ push /\ v.at > 1 THEN v.pending + 1 ELSE v.pending

LEMMA RouterBackFields ==
    ASSUME PagePartsAssumption, doc \in Documents, NEW v \in RouterState,
           RouterPath(doc, v.history), RouterPages(v), v.allow, NEW push \in BOOLEAN
    PROVE  /\ RouterDeep(v) => RouterBacks(v, push, Route!Back(v, push))
           /\ ~RouterDeep(v) => Route!Back(v, push) = v
<1>1. CASE RouterDeep(v)
  <2> DEFINE b == RouterBelow(v)
             t == RouterTop(v)
             u == [v EXCEPT !.allow = FALSE]
             g == Route!GoBackInBrowser(u, push)
             x == [g EXCEPT !.url = b]
             r == Route!AnimateBack(x, b, t)
  <2>1. b \in Route!Page /\ t \in Route!Page /\ b # t /\ Route!Previous(v.history) = b
    BY <1>1, RouterEnds
  <2>2. v.shown = <<b, t>> /\ Len(v.shown) = 2 /\ Route!Last(v.shown) = t
    BY <1>1, RouterStack
  <2>3. Route!Last(Route!Front(v.shown)) = b
    <3> HIDE DEF b, t
    <3> QED
      BY <2>1, <2>2, RouterTwo
  <2>4. u \in RouterState /\ RouterSame(v, u) /\ ~u.allow /\ u.queue = v.queue
        /\ u.at = v.at /\ u.pending = v.pending /\ u.on = v.on
    BY DEF RouterState, RouterSame
  <2>5. Route!Back(v, push) = Route!BackSimple(u, push)
    BY <2>2, <2>4 DEF Route!Back, RouterSame
  <2>6. Route!BackSimple(u, push) = r
    BY <2>1, <2>2, <2>3, <2>4 DEF Route!BackSimple, RouterSame
  <2> HIDE DEF u
  <2>7. g \in RouterState /\ RouterSame(v, g) /\ ~g.allow /\ g.queue = v.queue /\ g.at = v.at
        /\ g.on = v.on
        /\ g.pending = IF doc.pushState /\ push /\ v.at > 1 THEN v.pending + 1 ELSE v.pending
    <3>1. CASE doc.pushState /\ push /\ u.at > 1
      <4>1. g = [u EXCEPT !.pending = @ + 1]
        BY <3>1 DEF Route!GoBackInBrowser
      <4> QED
        <5> HIDE DEF g
        <5>1. g \in RouterState
          <6>1. u.pending + 1 \in Nat
            BY <2>4 DEF RouterState
          <6> QED
            BY <4>1, <6>1, <2>4 DEF RouterState
        <5>2. g.pending = v.pending + 1
          BY <4>1, <2>4 DEF RouterState
        <5>3. RouterSame(v, g) /\ ~g.allow /\ g.queue = v.queue /\ g.at = v.at
              /\ g.on = v.on
          BY <4>1, <2>4 DEF RouterState, RouterSame
        <5>4. doc.pushState /\ push /\ v.at > 1
          BY <3>1, <2>4
        <5> QED
          BY <5>1, <5>2, <5>3, <5>4
    <3>2. CASE ~(doc.pushState /\ push /\ u.at > 1)
      <4>1. g = u
        BY <3>2 DEF Route!GoBackInBrowser
      <4> QED
        BY <4>1, <3>2, <2>4
    <3> QED
      BY <3>1, <3>2
  <2> HIDE DEF g, b, t
  <2>8. x \in RouterState /\ RouterSame(v, x) /\ ~x.allow /\ x.queue = v.queue /\ x.at = v.at
        /\ x.on = v.on /\ x.url = b /\ x.pending = g.pending
    BY <2>1, <2>7 DEF RouterState, RouterSame
  <2> HIDE DEF x
  <2>9. r = [[x EXCEPT !.active = b] EXCEPT
                !.on = [@ EXCEPT ![b] = "none", ![t] = "none"],
                !.moving = [kind |-> "back", new |-> b, old |-> t]]
    BY DEF Route!AnimateBack, Route!AnimatePages, Route!Activate
  <2>10. [kind |-> "back", new |-> b, old |-> t] \in RouterMoving
    BY <2>1 DEF RouterMoving
  <2> HIDE DEF r
  <2>11. r \in RouterState
    BY <2>1, <2>8, <2>9, <2>10 DEF RouterState
  <2>12. /\ RouterSame(v, r) /\ ~r.allow /\ r.url = b /\ r.active = b
         /\ r.moving = [kind |-> "back", new |-> b, old |-> t]
         /\ r.queue = v.queue /\ r.at = v.at /\ r.pending = g.pending
    BY <2>1, <2>8, <2>9 DEF RouterState, RouterSame
  <2>13. r.on[t] = "none" /\ r.on[b] = "none"
    BY <2>1, <2>8, <2>9 DEF RouterState
  <2>14. RouterBacks(v, push, r)
    BY <2>7, <2>11, <2>12, <2>13 DEF RouterBacks, b, t
  <2> QED
    BY <2>5, <2>6, <2>14, <1>1
<1>2. CASE ~RouterDeep(v)
  <2>1. Len(v.shown) = 1 /\ Len(v.history) = 1
    BY <1>2, RouterStack
  <2>2. Route!Previous(v.history) = Missing
    BY <1>2, RouterEnds
  <2> DEFINE u == [v EXCEPT !.allow = FALSE]
  <2>3. u.shown = v.shown /\ u.history = v.history
    BY DEF RouterState
  <2>4. ~(Len(u.shown) > 1)
    <3> HIDE DEF u
    <3>1. Len(u.shown) = 1
      BY <2>1, <2>3
    <3> QED
      BY <3>1
  <2> QED
    BY <2>2, <2>3, <2>4, <1>2 DEF Route!Back
<1> QED
  BY <1>1, <1>2

LEMMA RouterBackLocked == ASSUME NEW v, ~v.allow, NEW push PROVE Route!Back(v, push) = v
  BY DEF Route!Back

\* _load: the new page slides in over the one on top.
RouterLoads(v, p, r) ==
    /\ r \in RouterState /\ ~r.allow /\ r.url = p /\ r.active = p
    /\ r.history = Append(v.history, p) /\ r.shown = <<RouterTop(v), p>>
    /\ r.cached = (Route!Within(v.shown) \cup v.cached) \ {RouterTop(v), p}
    /\ r.ready = v.ready \cup {p}
    /\ r.on[p] = "none" /\ r.on[RouterTop(v)] = "none"
    /\ r.moving = [kind |-> "load", new |-> p, old |-> RouterTop(v)]
    /\ r.queue = v.queue /\ r.pending = v.pending
    /\ r.at = IF doc.pushState THEN v.at + 1 ELSE v.at
    /\ r.entries = IF doc.pushState THEN Append(Route!Upto(v.entries, v.at), p) ELSE v.entries

LEMMA RouterLoadFields ==
    ASSUME PagePartsAssumption, doc \in Documents, NEW v \in RouterState,
           RouterPath(doc, v.history), RouterPages(v), RouterEntries(doc, v),
           v.allow, NEW p \in Route!Page, p # v.active
    PROVE  RouterLoads(v, p, Route!Load(v, p, TRUE))
<1> DEFINE t == RouterTop(v)
           e == Route!PushEntry(v, p, TRUE)
           u == [e EXCEPT !.allow = FALSE, !.url = p, !.history = Append(@, p)]
           r == Route!SlideIn(u, p)
<1>1. t \in Route!Page /\ v.history \in Seq(Route!Page) /\ Route!Last(v.shown) = t
  BY RouterEnds, RouterStack
<1>2. Route!Load(v, p, TRUE) = r
  BY DEF Route!Load
<1>3. /\ e \in RouterState /\ RouterSame([v EXCEPT !.entries = e.entries], e)
      /\ e.at = (IF doc.pushState THEN v.at + 1 ELSE v.at)
      /\ e.entries = (IF doc.pushState THEN Append(Route!Upto(v.entries, v.at), p)
                                       ELSE v.entries)
      /\ e.history = v.history /\ e.shown = v.shown /\ e.cached = v.cached
      /\ e.ready = v.ready /\ e.on = v.on /\ e.queue = v.queue /\ e.pending = v.pending
  <2>1. CASE doc.pushState
    <3> DEFINE q == Route!Upto(v.entries, v.at)
    <3>1. v.at \in Nat /\ v.entries \in Seq(Route!Page) /\ v.at <= Len(v.entries)
      BY <2>1 DEF RouterState, RouterEntries
    <3>2. q \in Seq(Route!Page)
      BY <3>1, RouterUpto
    <3>3. e = [v EXCEPT !.entries = Append(q, p), !.at = @ + 1]
      BY <2>1 DEF Route!PushEntry
    <3> HIDE DEF q, e
    <3>4. Append(q, p) \in Seq(Route!Page) /\ v.at + 1 \in Nat
      BY <3>1, <3>2
    <3>5. e \in RouterState
      BY <3>3, <3>4 DEF RouterState
    <3> QED
      BY <3>3, <3>5, <2>1 DEF RouterState, RouterSame, q
  <2>2. CASE ~doc.pushState
    <3>1. e = v
      BY <2>2 DEF Route!PushEntry
    <3> HIDE DEF e
    <3> QED
      BY <3>1, <2>2 DEF RouterState, RouterSame
  <2> QED
    BY <2>1, <2>2
<1> HIDE DEF e
<1>4. /\ u \in RouterState /\ ~u.allow /\ u.url = p /\ u.history = Append(v.history, p)
      /\ u.shown = v.shown /\ u.cached = v.cached /\ u.ready = v.ready /\ u.on = v.on
      /\ u.queue = v.queue /\ u.pending = v.pending /\ u.at = e.at /\ u.entries = e.entries
  <2>1. Append(v.history, p) \in Seq(Route!Page)
    BY <1>1
  <2>2. u = [e EXCEPT !.allow = FALSE, !.url = p, !.history = Append(v.history, p)]
    BY <1>3
  <2> HIDE DEF u
  <2>3. u \in RouterState
    BY <1>3, <2>1, <2>2 DEF RouterState
  <2> QED
    BY <1>3, <2>2, <2>3 DEF RouterState
<1> HIDE DEF u
<1> DEFINE s == Route!ShowOnTop(u, p)
           c == (Route!Within(v.shown) \cup v.cached) \ {t, p}
           a == Route!Activate(Route!PageInit(s, p), p)
<1>5. s = [u EXCEPT !.shown = <<t, p>>, !.cached = c]
  BY <1>1, <1>4 DEF Route!ShowOnTop, Route!InDOM
<1>6. c \in SUBSET Route!Page /\ <<t, p>> \in Seq(Route!Page)
  <2>1. v.shown \in Seq(Route!Page) /\ v.cached \in SUBSET Route!Page
    BY DEF RouterState
  <2>2. Route!Within(v.shown) \subseteq Route!Page
    BY <2>1 DEF Route!Within
  <2> QED
    BY <1>1, <2>1, <2>2
<1> HIDE DEF s, c
<1>7. /\ s \in RouterState /\ ~s.allow /\ s.url = p /\ s.history = Append(v.history, p)
      /\ s.shown = <<t, p>> /\ s.cached = c /\ s.ready = v.ready /\ s.on = v.on
      /\ s.queue = v.queue /\ s.pending = v.pending /\ s.at = e.at /\ s.entries = e.entries
  <2>1. s \in RouterState
    BY <1>4, <1>5, <1>6 DEF RouterState
  <2> QED
    BY <1>4, <1>5, <2>1 DEF RouterState
<1>8. a = [[s EXCEPT !.ready = @ \cup {p}] EXCEPT !.active = p]
  BY DEF Route!Activate, Route!PageInit
<1> HIDE DEF a
<1>9. /\ a \in RouterState /\ ~a.allow /\ a.url = p /\ a.history = Append(v.history, p)
      /\ a.shown = <<t, p>> /\ a.cached = c /\ a.ready = v.ready \cup {p} /\ a.on = v.on
      /\ a.active = p
      /\ a.queue = v.queue /\ a.pending = v.pending /\ a.at = e.at /\ a.entries = e.entries
  <2>1. a \in RouterState
    BY <1>7, <1>8 DEF RouterState
  <2> QED
    BY <1>7, <1>8, <2>1 DEF RouterState
<1>10. r = [a EXCEPT !.on = [@ EXCEPT ![p] = "none", ![t] = "none"],
                     !.moving = [kind |-> "load", new |-> p, old |-> t]]
  BY <1>1, <1>4 DEF Route!SlideIn, Route!AnimatePages, a, s
<1>11. [kind |-> "load", new |-> p, old |-> t] \in RouterMoving
  BY <1>1 DEF RouterMoving
<1> HIDE DEF r
<1>12. r \in RouterState
  BY <1>1, <1>9, <1>10, <1>11 DEF RouterState
<1>13. r.on[p] = "none" /\ r.on[t] = "none"
  BY <1>1, <1>9, <1>10 DEF RouterState
<1>14. /\ ~r.allow /\ r.url = p /\ r.history = Append(v.history, p)
       /\ r.shown = <<t, p>> /\ r.cached = c /\ r.ready = v.ready \cup {p}
       /\ r.active = p /\ r.moving = [kind |-> "load", new |-> p, old |-> t]
       /\ r.queue = v.queue /\ r.pending = v.pending /\ r.at = e.at /\ r.entries = e.entries
  BY <1>9, <1>10, <1>12 DEF RouterState
<1>15. RouterLoads(v, p, r)
  BY <1>3, <1>12, <1>13, <1>14 DEF RouterLoads, t, c
<1> QED
  BY <1>2, <1>15

-----------------------------------------------------------------------------
\* A queue has one call of router.back at most.
RouterQueue(d, q) == q = <<>> \/ (q = <<"back">> /\ d.backKey = "browser")

LEMMA RouterOneBack ==
    ASSUME NEW q, q = <<"back">>
    PROVE  Route!Front(q) = <<>> /\ Route!Last(q) = "back" /\ q # <<>>
<1>1. q \in Seq({"back"}) /\ Len(q) = 1
  OBVIOUS
<1> DEFINE f == Route!Front(q)
<1>2. f = Route!Upto(q, 0)
  BY <1>1 DEF Route!Front
<1>3. f \in Seq({"back"}) /\ Len(f) = 0
  <2>1. PICK n : n = 0
    OBVIOUS
  <2>2. n \in Nat /\ n <= Len(q)
    BY <1>1, <2>1
  <2>3. Route!Upto(q, n) \in Seq({"back"}) /\ Len(Route!Upto(q, n)) = n
    BY <1>1, <2>2, RouterUpto
  <2> QED
    BY <1>2, <2>1, <2>3
<1> HIDE DEF f
<1>4. f = <<>>
  BY <1>3, EmptySeq
<1>5. Route!Last(q) = "back"
  BY DEF Route!Last
<1>6. q # <<>>
  BY <1>1
<1> QED
  BY <1>4, <1>5, <1>6 DEF f

\* afterBack: the page on top is gone, the one below it is preloaded again.
RouterDone(v, r) ==
    /\ r \in RouterState /\ r.allow /\ r.moving = Route!Still
    /\ r.history = Route!Front(v.history) /\ RouterPages(r)
    /\ RouterTop(r) = RouterBelow(v)
    /\ r.on[RouterTop(r)] = "center" /\ (RouterDeep(r) => r.on[RouterBelow(r)] = "left")
    /\ r.queue = <<>> /\ r.url = v.url /\ r.active = v.active
    /\ r.entries = v.entries /\ r.at = v.at /\ r.pending = v.pending

LEMMA RouterBackDone ==
    ASSUME PagePartsAssumption, doc \in Documents, NEW v \in RouterState,
           RouterPath(doc, v.history), RouterPages(v), RouterDeep(v),
           RouterQueue(doc, v.queue)
    PROVE  RouterDone(v, Route!AfterBack(v, RouterTop(v), RouterBelow(v)))
<1> DEFINE b == RouterBelow(v)
           t == RouterTop(v)
           h == Route!Front(v.history)
           x == Route!DropOld(v, t, b)
           y == Route!PushStateClearQueue(x)
           r == Route!Preload(y, b)
<1>1. /\ b \in Inline /\ b \in Route!Page /\ t \in Route!Page /\ b # t
      /\ v.history \in Seq(Route!Page) /\ Len(v.history) \in Nat /\ Len(v.history) > 1
  BY RouterEnds DEF RouterDeep
<1>2. v.shown = <<b, t>> /\ Route!Without(v.shown, t) = <<b>> /\ Route!Within(v.shown) = {b, t}
  <2>1. v.shown = <<b, t>>
    BY RouterStack
  <2> HIDE DEF b, t
  <2> QED
    BY <1>1, <2>1, RouterTwo
<1>3. /\ RouterPath(doc, h) /\ h \in Seq(Route!Page) /\ Len(h) = Len(v.history) - 1
      /\ \A i \in 1 .. Len(v.history) - 1 : h[i] = v.history[i]
  BY <1>1, RouterPathFront, RouterFront
<1>4. h[Len(h)] = b /\ Len(h) \in Nat /\ Len(h) > 0
  <2> DEFINE n == Len(v.history)
  <2>1. n - 1 \in 1 .. n - 1 /\ n - 1 > 0 /\ n - 1 \in Nat
    BY <1>1
  <2>2. h[n - 1] = v.history[n - 1]
    BY <2>1, <1>3
  <2> QED
    BY <2>1, <2>2, <1>3 DEF RouterBelow
<1> HIDE DEF b, t, h
<1> DEFINE gone == {t} \ Inline
           c == {p \in v.cached \cup {t} : p \in Inline \/ (p # t /\ p \in Route!Within(h))}
<1>5. x = [v EXCEPT !.shown = <<b>>, !.ready = @ \ gone, !.cached = c,
                    !.on = [@ EXCEPT ![b] = "center"], !.allow = TRUE,
                    !.moving = Route!Still, !.history = h]
  BY <1>2 DEF Route!DropOld, h
<1>6. c = Inline \ {b}
  <2>1. v.cached = (Inline \cup ({Select} \cap {t})) \ {b, t}
    BY <1>2 DEF RouterPages, t
  <2>2. \A p \in v.cached \cup {t} : p \in Inline \/ p = t
    BY <2>1
  <2>3. c = {p \in v.cached \cup {t} : p \in Inline}
    BY <2>2
  <2>4. t \in Inline \/ t = Select
    BY <1>1 DEF Route!Page
  <2> HIDE DEF c
  <2> QED
    BY <2>1, <2>3, <2>4, <1>1
<1>7. Inline \ {b} \in SUBSET Route!Page /\ Route!Still \in RouterMoving
      /\ <<b>> \in Seq(Route!Page)
  BY <1>1 DEF Route!Page, RouterMoving
<1> HIDE DEF x, c
<1>8. x \in RouterState
  BY <1>1, <1>3, <1>5, <1>6, <1>7 DEF RouterState
<1>9. /\ x.shown = <<b>> /\ x.cached = Inline \ {b} /\ x.ready = v.ready \ gone /\ x.allow
      /\ x.moving = Route!Still /\ x.history = h /\ x.queue = v.queue /\ x.url = v.url
      /\ x.active = v.active /\ x.entries = v.entries /\ x.at = v.at /\ x.pending = v.pending
  BY <1>5, <1>6 DEF RouterState
<1>10. x.on[b] = "center"
  BY <1>1, <1>5 DEF RouterState
<1>11. Route!Within(h) \subseteq x.ready
  <2>1. Route!Within(v.history) \subseteq v.ready
    BY DEF RouterPages
  <2> SUFFICES ASSUME NEW i \in DOMAIN h PROVE h[i] \in x.ready
    BY DEF Route!Within
  <2> DEFINE n == Len(v.history)
  <2>2. i \in 1 .. n - 1 /\ i \in 1 .. n /\ n \in 1 .. n /\ i # n
    BY <1>1, <1>3, <1>4
  <2>3. h[i] = v.history[i] /\ v.history[n] = t
    BY <1>3, <2>2 DEF t, RouterTop
  <2>4. v.history[i] \in v.ready
    BY <2>1, <2>2, <1>1 DEF Route!Within
  <2>5. v.history[i] # v.history[n]
    BY <2>2 DEF RouterPath
  <2> QED
    BY <2>3, <2>4, <2>5, <1>9
<1>12. /\ y \in RouterState /\ y.shown = <<b>> /\ y.cached = Inline \ {b} /\ y.ready = x.ready
       /\ y.allow /\ y.moving = Route!Still /\ y.history = h /\ y.queue = <<>> /\ y.url = v.url
       /\ y.active = v.active /\ y.entries = v.entries /\ y.at = v.at /\ y.pending = v.pending
       /\ y.on = x.on
  <2>1. CASE v.queue = <<>>
    <3>1. y = x
      BY <2>1, <1>9 DEF Route!PushStateClearQueue
    <3> HIDE DEF y
    <3> QED
      BY <2>1, <3>1, <1>8, <1>9
  <2>2. CASE v.queue = <<"back">> /\ doc.backKey = "browser"
    <3> DEFINE z == [x EXCEPT !.queue = <<>>]
    <3>1. x.queue # <<>> /\ Route!Front(x.queue) = <<>> /\ Route!Last(x.queue) = "back"
      BY <2>2, <1>9, RouterOneBack
    <3>2. y = Route!Back(z, TRUE)
      BY <3>1 DEF Route!PushStateClearQueue
    <3> HIDE DEF z, y
    <3>3. <<>> \in Seq(Route!Page \cup {"back"})
      OBVIOUS
    <3>4. z \in RouterState
      BY <1>8, <3>3 DEF RouterState, z
    <3>5. /\ z.shown = <<b>> /\ z.cached = Inline \ {b} /\ z.ready = x.ready
          /\ z.allow /\ z.moving = Route!Still /\ z.history = h /\ z.queue = <<>>
          /\ z.url = v.url /\ z.active = v.active /\ z.entries = v.entries /\ z.at = v.at
          /\ z.pending = v.pending /\ z.on = x.on
      BY <1>8, <1>9 DEF RouterState, z
    <3>6. Route!Previous(h) = Missing
      <4> DEFINE n == Len(v.history)
                 m == Len(h)
      <4>1. n <= 2
        BY <2>2 DEF RouterPath
      <4>2. n \in Nat /\ m = n - 1 /\ m \in Nat
        BY <1>1, <1>3, <1>4
      <4> HIDE DEF n, m
      <4>3. ~(m > 1)
        BY <4>1, <4>2
      <4> QED
        BY <4>3 DEF Route!Previous, m
    <3> DEFINE u == [z EXCEPT !.allow = FALSE]
    <3>7. u.shown = <<b>> /\ u.history = h
      BY <3>4, <3>5 DEF RouterState
    <3>8. Route!Back(z, TRUE) = IF Len(u.shown) > 1 THEN Route!BackSimple(u, TRUE)
                                ELSE IF Route!Previous(u.history) = Missing THEN z
                                     ELSE Route!BackToCached(u, TRUE)
      BY <3>5, <3>7 DEF Route!Back
    <3> HIDE DEF u
    <3>9. ~(Len(u.shown) > 1)
      <4>1. Len(<<b>>) = 1
        OBVIOUS
      <4>2. Len(u.shown) = 1
        BY <3>7, <4>1
      <4> QED
        BY <4>2
    <3>10. y = z
      BY <3>2, <3>6, <3>7, <3>8, <3>9
    <3> QED
      BY <3>4, <3>5, <3>10
  <2> QED
    BY <2>1, <2>2 DEF RouterQueue
<1> HIDE DEF y
<1>13. /\ RouterTop(y) = b
       /\ Route!Previous(y.history) = IF RouterDeep(y) THEN RouterBelow(y) ELSE Missing
       /\ RouterDeep(y) => /\ RouterBelow(y) \in Inline /\ RouterBelow(y) \in Route!Page
                           /\ RouterBelow(y) # b
  <2>1. RouterTop(y) = b
    BY <1>4, <1>12 DEF RouterTop
  <2>2. RouterPath(doc, y.history)
    BY <1>3, <1>12
  <2> QED
    BY <2>1, <2>2, RouterEnds
<1>14. CASE RouterDeep(y)
  <2> DEFINE p == RouterBelow(y)
  <2>0. p \in Inline /\ p \in Route!Page /\ p # b /\ p # Missing
        /\ Route!Previous(y.history) = p
    BY <1>13, <1>14, RouterDocs
  <2> HIDE DEF p
  <2>1. Route!Insert(Route!Without(y.shown, p), p, b) = <<p, b>>
    BY <2>0, <1>12, RouterOne
  <2>2. r = [y EXCEPT !.shown = <<p, b>>, !.cached = @ \ {p}, !.on = [@ EXCEPT ![p] = "left"]]
    BY <2>0, <2>1 DEF Route!Preload
  <2> HIDE DEF r
  <2>3. r \in RouterState
    <3>1. <<p, b>> \in Seq(Route!Page)
      BY <2>0, <1>1
    <3> QED
      BY <2>0, <2>2, <3>1, <1>12 DEF RouterState
  <2>4. /\ r.shown = <<p, b>> /\ r.cached = (Inline \ {b}) \ {p} /\ r.ready = x.ready /\ r.allow
        /\ r.moving = Route!Still /\ r.history = h /\ r.queue = <<>> /\ r.url = v.url
        /\ r.active = v.active /\ r.entries = v.entries /\ r.at = v.at /\ r.pending = v.pending
    BY <2>2, <1>12 DEF RouterState
  <2>5. r.on[b] = "center" /\ r.on[p] = "left"
    BY <2>0, <2>2, <1>1, <1>10, <1>12 DEF RouterState
  <2>6. RouterTop(r) = b /\ RouterBelow(r) = p /\ RouterDeep(r)
    <3>1. r.history = y.history
      BY <2>4, <1>12
    <3> QED
      BY <3>1, <1>13, <1>14 DEF RouterTop, RouterBelow, RouterDeep, p
  <2>7. RouterPages(r)
    <3>1. Route!Within(r.shown) = {p, b}
      BY <2>0, <2>4, RouterTwo
    <3>2. r.cached = (Inline \cup ({Select} \cap {b})) \ {p, b}
      BY <2>4, <1>1
    <3>3. Route!Within(r.history) \subseteq r.ready
      BY <2>4, <1>11
    <3> QED
      BY <2>4, <2>6, <3>1, <3>2, <3>3 DEF RouterPages
  <2>8. RouterDone(v, r)
    BY <2>3, <2>4, <2>5, <2>6, <2>7 DEF RouterDone, b, h
  <2> QED
    BY <2>8 DEF Route!AfterBack, r, y, x, t, b
<1>15. CASE ~RouterDeep(y)
  <2>1. r = y
    BY <1>13, <1>15 DEF Route!Preload
  <2> HIDE DEF r
  <2>2. y.history = <<b>>
    <3>1. Len(h) = 1
      <4> DEFINE m == Len(h)
      <4>1. m \in Nat /\ m > 0 /\ ~(m > 1)
        BY <1>4, <1>12, <1>15 DEF RouterDeep
      <4> HIDE DEF m
      <4>2. m = 1
        BY <4>1
      <4> QED
        BY <4>2 DEF m
    <3>2. h[1] = b
      BY <3>1, <1>4
    <3>3. h = <<b>>
      BY <3>1, <3>2, <1>3
    <3> QED
      BY <3>3, <1>12
  <2>3. RouterPages(y)
    <3>1. Route!Within(y.shown) = {b}
      BY <1>12, RouterOne
    <3>2. y.cached = (Inline \cup ({Select} \cap {b})) \ {b}
      BY <1>12, <1>1
    <3>3. Route!Within(y.history) \subseteq y.ready
      BY <1>11, <1>12
    <3> QED
      BY <2>2, <3>1, <3>2, <3>3, <1>12, <1>13, <1>15 DEF RouterPages
  <2>4. y.on[RouterTop(y)] = "center"
    BY <1>10, <1>12, <1>13
  <2>5. RouterDone(v, y)
    BY <2>3, <2>4, <1>12, <1>13, <1>15 DEF RouterDone, b, h
  <2> QED
    BY <2>1, <2>5 DEF Route!AfterBack, r, y, x, t, b
<1> QED
  BY <1>14, <1>15

LEMMA RouterDoneWell ==
    ASSUME PagePartsAssumption, doc \in Documents, NEW v, RouterPath(doc, v.history),
           RouterEntries(doc, v), RouterDeep(v), NEW r, RouterDone(v, r),
           v.queue = <<>> \/ doc.pushState
    PROVE  RouterWell(doc, r) /\ Len(r.history) = Len(v.history) - 1
<1> DEFINE n == Len(v.history)
           h == Route!Front(v.history)
<1>1. v.history \in Seq(Route!Page) /\ n \in Nat /\ n > 1
  BY RouterPathTyped DEF RouterDeep
<1>2. Len(h) = n - 1 /\ \A i \in 1 .. n - 1 : h[i] = v.history[i]
  BY <1>1, RouterFront
<1>3. RouterPath(doc, h)
  BY <1>1, RouterPathFront
<1>4. r.history = h /\ r.entries = v.entries /\ r.at = v.at /\ r.pending = v.pending
      /\ r.queue = <<>> /\ r \in RouterState /\ RouterPages(r)
  BY DEF RouterDone
<1> HIDE DEF n, h
<1>5. \A i \in 1 .. n - 1 : i \in 1 .. n
  BY <1>1
<1>6. RouterEntries(doc, r)
  <2>1. CASE doc.pushState
    <3>1. v.at > 0 /\ v.at <= Len(v.entries)
          /\ \A i \in 1 .. n : i <= v.at => v.entries[i] = v.history[i]
      BY <2>1 DEF RouterEntries, n
    <3>2. \A i \in 1 .. Len(r.history) : i <= r.at => r.entries[i] = r.history[i]
      BY <3>1, <1>2, <1>4, <1>5
    <3> QED
      BY <2>1, <3>1, <3>2, <1>4 DEF RouterEntries
  <2>2. CASE ~doc.pushState
    BY <2>2, <1>4 DEF RouterEntries
  <2> QED
    BY <2>1, <2>2
<1> QED
  BY <1>2, <1>3, <1>4, <1>6 DEF RouterWell, n

\* When router.back may be called, and where it leaves the histories.
RouterMayBack(d, v, push) ==
    d.pushState => \/ RouterEven(v) /\ push
                   \/ RouterBehind(v) /\ (~push \/ d.backKey = "browser")
                   \/ RouterWaiting(v) /\ d.backKey = "browser"

LEMMA RouterBackMode ==
    ASSUME PagePartsAssumption, doc \in Documents, NEW v, RouterWell(doc, v), v.allow,
           RouterRest(v), RouterDeep(v), NEW t \in RouterFinger, NEW push \in BOOLEAN,
           RouterMayBack(doc, v, push)
    PROVE  RouterGood(doc, Route!Back(v, push), t)
<1> DEFINE r == Route!Back(v, push)
           n == Len(v.history)
<1>1. v \in RouterState /\ RouterPath(doc, v.history) /\ RouterPages(v) /\ RouterEntries(doc, v)
  BY DEF RouterWell
<1>2. RouterBacks(v, push, r)
  BY <1>1, RouterBackFields
<1> HIDE DEF r
<1>3. /\ r \in RouterState /\ RouterSame(v, r) /\ r.at = v.at /\ r.queue = v.queue
      /\ r.pending = IF doc.pushState /\ push /\ v.at > 1 THEN v.pending + 1 ELSE v.pending
  BY <1>2 DEF RouterBacks
<1>4. doc.pushState \/ (r.pending = v.pending /\ r.queue = v.queue)
  BY <1>3
<1>5. /\ RouterWell(doc, r) /\ RouterTop(r) = RouterTop(v)
      /\ RouterBelow(r) = RouterBelow(v) /\ RouterDeep(r)
  BY <1>1, <1>3, <1>4, RouterSameWell
<1>6. n \in Nat /\ n > 1 /\ Len(r.history) = n
      /\ (doc.backKey = "browser" => n <= 2)
  BY <1>1, <1>3, RouterPathTyped DEF RouterDeep, RouterSame, RouterPath
<1>7. ASSUME doc.pushState
      PROVE  RouterLeaving(r) \/ RouterBehind(r) \/ (doc.backKey = "browser" /\ RouterWaiting(r))
  <2> HIDE DEF n
  <2>0. n <= 2 => n - 1 = 1 /\ ~(n - 1 > 1)
    BY <1>6
  <2>1. CASE RouterEven(v) /\ push
    <3>1. v.at = n /\ v.pending = 0 /\ v.queue = <<>>
      BY <2>1 DEF RouterEven, n
    <3>2. r.at = n /\ r.pending = 1 /\ r.queue = <<>>
      BY <2>1, <3>1, <1>3, <1>6, <1>7
    <3> QED
      BY <3>2, <1>6 DEF RouterLeaving
  <2>2. CASE RouterBehind(v) /\ (~push \/ doc.backKey = "browser")
    <3>1. v.at = n - 1 /\ v.pending = 0 /\ v.queue = <<>>
      BY <2>2 DEF RouterBehind, n
    <3>2. ~(doc.pushState /\ push /\ v.at > 1)
      BY <2>0, <2>2, <3>1, <1>6
    <3>3. r.at = n - 1 /\ r.pending = 0 /\ r.queue = <<>>
      BY <3>1, <3>2, <1>3
    <3> QED
      BY <3>3, <1>6 DEF RouterBehind
  <2>3. CASE RouterWaiting(v) /\ doc.backKey = "browser"
    <3>1. v.at = n - 1 /\ v.pending = 0 /\ v.queue = <<"back">>
      BY <2>3 DEF RouterWaiting, n
    <3>2. ~(doc.pushState /\ push /\ v.at > 1)
      BY <2>0, <2>3, <3>1, <1>6
    <3>3. r.at = n - 1 /\ r.pending = 0 /\ r.queue = <<"back">>
      BY <3>1, <3>2, <1>3
    <3> QED
      BY <2>3, <3>3, <1>6 DEF RouterWaiting
  <2> QED
    BY <2>1, <2>2, <2>3, <1>7 DEF RouterMayBack
<1>8. RouterBack(doc, r, t)
  <2>1. ~r.allow /\ RouterAtBelow(r) /\ RouterSlide(r)
        /\ r.moving = [kind |-> "back", new |-> RouterBelow(r), old |-> RouterTop(r)]
    BY <1>2, <1>5 DEF RouterBacks, RouterAtBelow, RouterSlide
  <2> QED
    BY <2>1, <1>7 DEF RouterBack
<1> QED
  BY <1>5, <1>8 DEF RouterGood, RouterMode, r

\* router.load of a page that a link or a smart select leads to.
LEMMA RouterLoadMode ==
    ASSUME PagePartsAssumption, doc \in Documents, NEW v, RouterWell(doc, v), v.allow,
           RouterRest(v), NEW t \in RouterFinger, NEW p, RouterWay(doc, RouterTop(v), p),
           doc.pushState => RouterEven(v)
    PROVE  RouterGood(doc, Route!Load(v, p, TRUE), t)
<1> DEFINE r == Route!Load(v, p, TRUE)
           n == Len(v.history)
           o == RouterTop(v)
<1>1. v \in RouterState /\ RouterPath(doc, v.history) /\ RouterPages(v) /\ RouterEntries(doc, v)
  BY DEF RouterWell
<1>2. /\ RouterPath(doc, Append(v.history, p)) /\ p \in Route!Page /\ o \in Inline
      /\ \A k \in 1 .. n : v.history[k] # p
  BY <1>1, RouterPathAppend DEF RouterTop
<1>3. n \in Nat /\ n > 0 /\ v.history \in Seq(Route!Page) /\ n \in 1 .. n
  BY <1>1, RouterPathTyped
<1>4. o # p
  BY <1>2, <1>3 DEF RouterTop
<1>5. RouterLoads(v, p, r)
  <2>1. p # v.active
    BY <1>4 DEF RouterRest, RouterAtTop
  <2> QED
    BY <2>1, <1>1, <1>2, RouterLoadFields
<1> HIDE DEF r
<1>6. /\ r.history = Append(v.history, p) /\ Len(r.history) = n + 1
      /\ r.history[n + 1] = p /\ \A i \in 1 .. n : r.history[i] = v.history[i]
  <2>1. r.history = Append(v.history, p)
    BY <1>5 DEF RouterLoads
  <2> QED
    BY <2>1, <1>2, <1>3, RouterAppend
<1> HIDE DEF n
<1>7. RouterTop(r) = p /\ RouterBelow(r) = o /\ RouterDeep(r)
  <2>1. (n + 1) - 1 = n /\ n + 1 > 1
    BY <1>3
  <2> QED
    BY <2>1, <1>3, <1>6 DEF RouterTop, RouterBelow, RouterDeep, n
<1>8. RouterPages(r)
  <2>1. r.shown = <<o, p>> /\ Route!Within(r.shown) = {o, p}
    <3>1. r.shown = <<o, p>>
      BY <1>5 DEF RouterLoads
    <3> HIDE DEF o
    <3> QED
      BY <3>1, <1>4, RouterTwo
  <2>2. Route!Within(v.shown) \subseteq Inline /\ o \in Route!Within(v.shown)
    <3>1. CASE RouterDeep(v)
      <4>1. v.shown = <<RouterBelow(v), o>> /\ RouterBelow(v) \in Inline /\ RouterBelow(v) # o
        BY <3>1, <1>1, RouterStack, RouterEnds
      <4> HIDE DEF o
      <4> QED
        BY <4>1, <1>2, RouterTwo
    <3>2. CASE ~RouterDeep(v)
      <4>1. v.shown = <<o>>
        BY <3>2, <1>1, RouterStack
      <4> HIDE DEF o
      <4> QED
        BY <4>1, <1>2, RouterOne
    <3> QED
      BY <3>1, <3>2
  <2>3. r.cached = (Route!Within(v.shown) \cup v.cached) \ {o, p}
    BY <1>5 DEF RouterLoads
  <2>4. v.cached = Inline \ Route!Within(v.shown)
    <3>1. v.cached = (Inline \cup ({Select} \cap {o})) \ Route!Within(v.shown)
      BY <1>1 DEF RouterPages
    <3>2. Select # o
      BY <1>2, RouterDocs
    <3> QED
      BY <3>1, <3>2
  <2>5. r.cached = (Inline \cup ({Select} \cap {p})) \ {o, p}
    BY <2>2, <2>3, <2>4
  <2>6. Route!Within(r.history) \subseteq r.ready
    <3>1. r.ready = v.ready \cup {p}
      BY <1>5 DEF RouterLoads
    <3>2. Route!Within(v.history) \subseteq v.ready
      BY <1>1 DEF RouterPages
    <3>3. DOMAIN r.history = 1 .. n + 1 /\ DOMAIN v.history = 1 .. n
      BY <1>2, <1>3, <1>6 DEF RouterPath, n
    <3>4. \A i \in 1 .. n : v.history[i] \in v.ready
      BY <3>2, <3>3 DEF Route!Within
    <3>5. \A i \in 1 .. n + 1 : i \in 1 .. n \/ i = n + 1
      BY <1>3
    <3> QED
      BY <3>1, <3>3, <3>4, <3>5, <1>6 DEF Route!Within
  <2> QED
    BY <2>1, <2>5, <2>6, <1>7 DEF RouterPages
<1>9. RouterEntries(doc, r) /\ (doc.pushState => RouterEven(r))
  <2>1. CASE doc.pushState
    <3> DEFINE q == Route!Upto(v.entries, n)
    <3>1. v.at = n /\ v.pending = 0 /\ v.queue = <<>>
      BY <2>1 DEF RouterEven, n
    <3>2. n <= Len(v.entries) /\ \A i \in 1 .. n : v.entries[i] = v.history[i]
      <4>1. v.at <= Len(v.entries)
            /\ \A i \in 1 .. n : i <= v.at => v.entries[i] = v.history[i]
        BY <2>1, <1>1 DEF RouterEntries, n
      <4>2. \A i \in 1 .. n : i <= n
        BY <1>3
      <4> QED
        BY <3>1, <4>1, <4>2
    <3>3. v.entries \in Seq(Route!Page)
      BY <1>1 DEF RouterState
    <3>4. q \in Seq(Route!Page) /\ Len(q) = n /\ \A i \in 1 .. n : q[i] = v.entries[i]
      BY <3>2, <3>3, <1>3, RouterUpto
    <3>5. r.entries = Append(q, p) /\ r.at = n + 1 /\ r.pending = 0 /\ r.queue = <<>>
      BY <2>1, <3>1, <1>5 DEF RouterLoads
    <3> HIDE DEF q
    <3>6. Len(r.entries) = n + 1 /\ r.entries[n + 1] = p
          /\ \A i \in 1 .. n : r.entries[i] = q[i]
      BY <3>4, <3>5, <1>2, RouterAppend
    <3>7. \A i \in 1 .. n + 1 : r.entries[i] = r.history[i]
      <4> TAKE i \in 1 .. n + 1
      <4>1. CASE i \in 1 .. n
        <5>1. r.entries[i] = q[i] /\ q[i] = v.entries[i] /\ v.entries[i] = v.history[i]
          BY <4>1, <3>2, <3>4, <3>6
        <5> QED
          BY <4>1, <5>1, <1>6
      <4>2. CASE i = n + 1
        BY <4>2, <3>6, <1>6
      <4>3. i \in 1 .. n \/ i = n + 1
        BY <1>3
      <4> QED
        BY <4>1, <4>2, <4>3
    <3>8. n + 1 > 0 /\ n + 1 <= n + 1
      BY <1>3
    <3> QED
      BY <2>1, <3>5, <3>6, <3>7, <3>8, <1>6 DEF RouterEntries, RouterEven
  <2>2. CASE ~doc.pushState
    <3>1. r.at = v.at /\ r.pending = v.pending /\ r.queue = v.queue
      BY <2>2, <1>5 DEF RouterLoads
    <3> QED
      BY <2>2, <3>1, <1>1 DEF RouterEntries
  <2> QED
    BY <2>1, <2>2
<1>10. RouterWell(doc, r)
  <2>1. r \in RouterState /\ RouterPath(doc, r.history)
    BY <1>2, <1>5, <1>6 DEF RouterLoads
  <2> QED
    BY <2>1, <1>8, <1>9 DEF RouterWell
<1>11. RouterLoading(doc, r, t)
  BY <1>5, <1>7, <1>9 DEF RouterLoads, RouterLoading, RouterAtTop, RouterSlide
<1> QED
  BY <1>10, <1>11 DEF RouterGood, RouterMode, r

\* The animation of router.load ends; a back that was queued starts then.
LEMMA RouterLoadedMode ==
    ASSUME PagePartsAssumption, doc \in Documents, NEW v, RouterWell(doc, v), NEW t,
           RouterLoading(doc, v, t), v.pending = 0
    PROVE  RouterGood(doc, Route!AfterLoad(v, RouterTop(v), RouterBelow(v)), t)
<1> DEFINE a == RouterTop(v)
           b == RouterBelow(v)
           u == [v EXCEPT !.allow = TRUE, !.moving = Route!Still,
                          !.on = [@ EXCEPT ![a] = "center", ![b] = "left"]]
           r == Route!PushStateClearQueue(u)
<1>1. v \in RouterState /\ RouterPath(doc, v.history) /\ RouterPages(v) /\ RouterEntries(doc, v)
  BY DEF RouterWell
<1>2. RouterDeep(v) /\ RouterAtTop(v) /\ t \in RouterFinger
      /\ (doc.pushState => RouterEven(v) \/ (doc.backKey = "browser" /\ RouterWaiting(v)))
  BY DEF RouterLoading, RouterLeaving
<1>3. a \in Route!Page /\ b \in Route!Page /\ a # b
  BY <1>1, <1>2, RouterEnds
<1>4. Route!AfterLoad(v, a, b) = r
  BY DEF Route!AfterLoad
<1> HIDE DEF u, a, b
<1>5. u \in RouterState
  <2>1. Route!Still \in RouterMoving
    BY DEF RouterMoving
  <2> QED
    BY <1>1, <1>3, <2>1 DEF RouterState, u
<1>6. /\ RouterSame(v, u) /\ u.allow /\ u.moving = Route!Still /\ u.url = v.url
      /\ u.active = v.active /\ u.queue = v.queue /\ u.at = v.at /\ u.pending = v.pending
  BY <1>1 DEF RouterState, RouterSame, u
<1>7. u.on[a] = "center" /\ u.on[b] = "left"
  BY <1>1, <1>3 DEF RouterState, u
<1>8. CASE v.queue = <<>>
  <2>1. r = u
    BY <1>6, <1>8 DEF Route!PushStateClearQueue
  <2> HIDE DEF r
  <2>2. /\ RouterWell(doc, u) /\ RouterTop(u) = a /\ RouterBelow(u) = b /\ RouterDeep(u)
    BY <1>1, <1>2, <1>5, <1>6, RouterSameWell DEF a, b
  <2>3. RouterRest(u)
    BY <1>2, <1>6, <1>7, <2>2 DEF RouterRest, RouterAtTop, a
  <2>4. doc.pushState => RouterEven(u)
    <3>1. <<"back">> # <<>>
      BY RouterOneBack
    <3>2. doc.pushState => RouterEven(v)
      BY <1>2, <1>8, <3>1 DEF RouterWaiting
    <3> QED
      BY <3>2, <1>6 DEF RouterEven, RouterSame
  <2>5. RouterStill(doc, u, t)
    BY <1>2, <1>6, <2>3, <2>4 DEF RouterStill
  <2>6. RouterGood(doc, r, t)
    BY <2>1, <2>2, <2>5 DEF RouterGood, RouterMode
  <2> QED
    BY <1>4, <2>6 DEF a, b
<1>9. CASE v.queue # <<>>
  <2>1. doc.pushState /\ doc.backKey = "browser" /\ RouterWaiting(v)
    BY <1>1, <1>2, <1>9 DEF RouterEntries, RouterEven
  <2>2. u.queue = <<"back">>
    BY <1>6, <2>1 DEF RouterWaiting
  <2> DEFINE z == [u EXCEPT !.queue = <<>>]
  <2>3. r = Route!Back(z, TRUE)
    BY <2>2, RouterOneBack DEF Route!PushStateClearQueue
  <2> HIDE DEF z, r
  <2>4. z \in RouterState
    <3>1. <<>> \in Seq(Route!Page \cup {"back"})
      OBVIOUS
    <3> QED
      BY <1>5, <3>1 DEF RouterState, z
  <2>5. /\ RouterSame(v, z) /\ z.allow /\ z.moving = Route!Still /\ z.url = v.url
        /\ z.active = v.active /\ z.queue = <<>> /\ z.at = v.at /\ z.pending = v.pending
        /\ z.on = u.on
    BY <1>5, <1>6 DEF RouterState, RouterSame, z
  <2>6. /\ RouterWell(doc, z) /\ RouterTop(z) = a /\ RouterBelow(z) = b /\ RouterDeep(z)
    BY <1>1, <1>2, <2>1, <2>4, <2>5, RouterSameWell DEF a, b
  <2>7. RouterRest(z)
    BY <1>2, <1>7, <2>5, <2>6 DEF RouterRest, RouterAtTop, a
  <2>8. RouterBehind(z)
    BY <2>1, <2>5 DEF RouterBehind, RouterWaiting, RouterSame
  <2>9. RouterMayBack(doc, z, TRUE)
    BY <2>1, <2>8 DEF RouterMayBack
  <2>10. RouterGood(doc, r, t)
    BY <1>2, <2>3, <2>5, <2>6, <2>7, <2>9, RouterBackMode
  <2> QED
    BY <1>4, <2>10 DEF a, b
<1> QED
  BY <1>8, <1>9

\* Fields that an event of the browser leaves as they are.
RouterHeld(v, u) ==
    /\ u \in RouterState /\ RouterSame(v, u) /\ u.allow = v.allow /\ u.url = v.url
    /\ u.active = v.active /\ u.on = v.on /\ u.moving = v.moving

LEMMA RouterHeldModes == ASSUME NEW v, NEW u, RouterHeld(v, u)
    PROVE  /\ RouterTop(u) = RouterTop(v) /\ RouterBelow(u) = RouterBelow(v)
           /\ RouterDeep(u) <=> RouterDeep(v)
           /\ RouterRest(u) <=> RouterRest(v)
           /\ RouterAtTop(u) <=> RouterAtTop(v)
           /\ RouterAtBelow(u) <=> RouterAtBelow(v)
           /\ RouterSlide(u) <=> RouterSlide(v)
           /\ Len(u.history) = Len(v.history) /\ u.allow = v.allow /\ u.moving = v.moving
<1>1. RouterTop(u) = RouterTop(v) /\ RouterBelow(u) = RouterBelow(v)
      /\ (RouterDeep(u) <=> RouterDeep(v))
  BY DEF RouterHeld, RouterSame, RouterTop, RouterBelow, RouterDeep
<1>2. (RouterAtTop(u) <=> RouterAtTop(v)) /\ (RouterAtBelow(u) <=> RouterAtBelow(v))
  BY <1>1 DEF RouterHeld, RouterAtTop, RouterAtBelow
<1>3. (RouterRest(u) <=> RouterRest(v)) /\ (RouterSlide(u) <=> RouterSlide(v))
  BY <1>1, <1>2 DEF RouterHeld, RouterRest, RouterSlide
<1> QED
  BY <1>1, <1>2, <1>3 DEF RouterHeld, RouterSame

\* How the browser's history may stand against the view's in each mode.
LEMMA RouterModePending ==
    ASSUME NEW v, NEW t, RouterMode(doc, v, t), doc.pushState, v.pending > 0
    PROVE  \/ RouterAhead(v) /\ RouterStill(doc, v, t)
           \/ RouterLeaving(v)
<1>1. ~RouterEven(v) /\ ~RouterWaiting(v) /\ ~RouterBehind(v)
  <2>1. ~(0 > 0)
    OBVIOUS
  <2> QED
    BY <2>1 DEF RouterEven, RouterWaiting, RouterBehind
<1> QED
  BY <1>1 DEF RouterMode, RouterStill, RouterMoved, RouterReset, RouterSwiped,
              RouterLoading, RouterBack

\* The browser has gone back from the entry of the page on top: a link or a swipe
\* has done so before, or the key was pressed and the view has to follow.
LEMMA RouterBackEntry ==
    ASSUME PagePartsAssumption, doc \in Documents, NEW v, RouterWell(doc, v), NEW t,
           RouterMode(doc, v, t), doc.pushState, RouterLeaving(v), NEW u, RouterHeld(v, u),
           RouterWell(doc, u), RouterDeep(v), RouterBehind(u),
           Route!HandlePopState(u) = IF RouterBelow(v) = u.url THEN u
               ELSE IF u.allow THEN Route!Back(u, FALSE)
                    ELSE [u EXCEPT !.queue = Append(@, "back")]
    PROVE  RouterGood(doc, Route!HandlePopState(u), t)
<1> DEFINE r == Route!HandlePopState(u)
<1>1. /\ RouterTop(u) = RouterTop(v) /\ RouterBelow(u) = RouterBelow(v) /\ RouterDeep(u)
      /\ (RouterRest(u) <=> RouterRest(v))
      /\ (RouterAtTop(u) <=> RouterAtTop(v)) /\ (RouterAtBelow(u) <=> RouterAtBelow(v))
      /\ (RouterSlide(u) <=> RouterSlide(v)) /\ u.allow = v.allow /\ u.moving = v.moving
      /\ Len(u.history) = Len(v.history)
  BY RouterHeldModes
<1>2. u.url = v.url /\ u \in RouterState
  BY DEF RouterHeld
<1>3. RouterBelow(v) # RouterTop(v)
  BY RouterEnds DEF RouterWell
<1>4. ~RouterEven(v) /\ ~RouterWaiting(v) /\ ~RouterBehind(v) /\ ~RouterAhead(v)
  <2>1. Len(v.history) \in Nat
    BY RouterPathTyped DEF RouterWell
  <2>2. v.pending = 1 /\ v.at = Len(v.history)
    BY DEF RouterLeaving
  <2> QED
    BY <2>1, <2>2 DEF RouterEven, RouterWaiting, RouterBehind, RouterAhead
<1>5. CASE RouterStill(doc, v, t)
  <2>1. RouterAtTop(v) /\ v.allow /\ t \in RouterFinger /\ RouterRest(v)
    BY <1>5 DEF RouterStill, RouterRest
  <2>2. r = Route!Back(u, FALSE)
    BY <2>1, <1>1, <1>2, <1>3 DEF RouterAtTop
  <2>3. RouterMayBack(doc, u, FALSE)
    BY DEF RouterMayBack
  <2> HIDE DEF r
  <2>4. u.allow /\ RouterRest(u)
    BY <1>1, <2>1
  <2>5. RouterGood(doc, Route!Back(u, FALSE), t)
    BY <1>1, <2>1, <2>3, <2>4, RouterBackMode
  <2> QED
    BY <2>2, <2>5 DEF r
<1>6. CASE RouterReset(doc, v, t) \/ RouterLoading(doc, v, t)
  <2>1. RouterAtTop(v) /\ ~v.allow /\ doc.backKey = "browser"
    BY <1>4, <1>6 DEF RouterReset, RouterLoading, RouterRest
  <2>2. r = [u EXCEPT !.queue = Append(@, "back")]
    BY <2>1, <1>1, <1>2, <1>3 DEF RouterAtTop
  <2>3. u.queue = <<>> /\ u.pending = 0 /\ u.at = Len(u.history) - 1
    BY DEF RouterBehind
  <2> HIDE DEF r
  <2>4. r = [u EXCEPT !.queue = <<"back">>]
    <3>1. Append(u.queue, "back") = <<"back">>
      BY <2>3
    <3> QED
      BY <2>2, <3>1
  <2>5. r \in RouterState
    <3>1. <<"back">> \in Seq(Route!Page \cup {"back"})
      OBVIOUS
    <3> QED
      BY <2>4, <3>1, <1>2 DEF RouterState
  <2>6. RouterHeld(u, r) /\ r.queue = <<"back">> /\ r.at = u.at /\ r.pending = u.pending
    BY <2>4, <2>5, <1>2 DEF RouterState, RouterHeld, RouterSame
  <2>7. RouterWell(doc, r)
    BY <2>5, <2>6, RouterSameWell DEF RouterWell, RouterHeld
  <2>8. /\ RouterTop(r) = RouterTop(v) /\ RouterBelow(r) = RouterBelow(v) /\ RouterDeep(r)
        /\ (RouterRest(r) <=> RouterRest(v))
        /\ (RouterAtTop(r) <=> RouterAtTop(v)) /\ (RouterSlide(r) <=> RouterSlide(v))
        /\ r.allow = v.allow /\ r.moving = v.moving /\ Len(r.history) = Len(u.history)
    <3>1. /\ RouterTop(r) = RouterTop(u) /\ RouterBelow(r) = RouterBelow(u)
          /\ (RouterDeep(r) <=> RouterDeep(u)) /\ (RouterRest(r) <=> RouterRest(u))
          /\ (RouterAtTop(r) <=> RouterAtTop(u)) /\ (RouterSlide(r) <=> RouterSlide(u))
          /\ r.allow = u.allow /\ r.moving = u.moving /\ Len(r.history) = Len(u.history)
      BY <2>6, RouterHeldModes
    <3> QED
      BY <3>1, <1>1
  <2>9. RouterWaiting(r)
    BY <2>3, <2>6, <2>8 DEF RouterWaiting
  <2>10. CASE RouterReset(doc, v, t)
    <3>1. RouterReset(doc, r, t)
      BY <2>1, <2>8, <2>9, <2>10 DEF RouterReset
    <3> QED
      BY <3>1, <2>7 DEF RouterGood, RouterMode, r
  <2>11. CASE RouterLoading(doc, v, t)
    <3>1. RouterLoading(doc, r, t)
      BY <2>1, <2>8, <2>9, <2>11 DEF RouterLoading
    <3> QED
      BY <3>1, <2>7 DEF RouterGood, RouterMode, r
  <2> QED
    BY <1>6, <2>10, <2>11
<1>7. CASE RouterSwiped(doc, v, t)
  <2>1. r = u
    BY <1>2, <1>7 DEF RouterSwiped, RouterAtBelow
  <2>2. RouterSwiped(doc, u, t)
    BY <1>1, <1>4, <1>7 DEF RouterSwiped
  <2> QED
    BY <2>1, <2>2 DEF RouterGood, RouterMode
<1>8. CASE RouterBack(doc, v, t)
  <2>1. r = u
    BY <1>2, <1>8 DEF RouterBack, RouterAtBelow
  <2>2. RouterBack(doc, u, t)
    BY <1>1, <1>8 DEF RouterBack
  <2> QED
    BY <2>1, <2>2 DEF RouterGood, RouterMode
<1>9. ~RouterMoved(doc, v, t)
  BY <1>4 DEF RouterMoved
<1> QED
  BY <1>5, <1>6, <1>7, <1>8, <1>9 DEF RouterMode

\* The browser says that it has gone back.
RouterPopped(v) ==
    LET x == [v EXCEPT !.pending = @ - 1]
    IN  IF v.at = 1 THEN x ELSE Route!HandlePopState([x EXCEPT !.at = @ - 1])

LEMMA RouterPopMode ==
    ASSUME PagePartsAssumption, doc \in Documents, NEW v, RouterWell(doc, v), NEW t,
           RouterMode(doc, v, t), v.pending > 0
    PROVE  RouterGood(doc, RouterPopped(v), t)
<1> DEFINE x == [v EXCEPT !.pending = @ - 1]
           u == [x EXCEPT !.at = @ - 1]
           n == Len(v.history)
           r == RouterPopped(v)
<1>1. /\ v \in RouterState /\ RouterPath(doc, v.history) /\ RouterPages(v)
      /\ RouterEntries(doc, v)
  BY DEF RouterWell
<1>2. doc.pushState
  <2>1. ~(0 > 0)
    OBVIOUS
  <2> QED
    BY <2>1, <1>1 DEF RouterEntries
<1>3. (RouterAhead(v) /\ RouterStill(doc, v, t)) \/ RouterLeaving(v)
  BY <1>2, RouterModePending
<1>4. n \in Nat /\ n > 0 /\ v.history \in Seq(Route!Page)
  BY <1>1, RouterPathTyped
<1>5. v.pending = 1 /\ v.queue = <<>> /\ (v.at = n + 1 \/ v.at = n) /\ v.at \in Nat
  BY <1>1, <1>3 DEF RouterAhead, RouterLeaving, RouterState
<1>6. r = IF v.at = 1 THEN x ELSE Route!HandlePopState(u)
  BY DEF RouterPopped
<1> HIDE DEF x, r, n
<1>7. x \in RouterState /\ RouterHeld(v, x) /\ x.at = v.at /\ x.queue = <<>> /\ x.pending = 0
  <2>1. x = [v EXCEPT !.pending = 0]
    BY <1>5 DEF x
  <2>2. x \in RouterState
    BY <1>1, <2>1 DEF RouterState
  <2> QED
    BY <1>1, <1>5, <2>1, <2>2 DEF RouterState, RouterHeld, RouterSame
<1>8. CASE v.at = 1
  <2>1. RouterLeaving(v) /\ n = 1
    <3>1. n + 1 # 1
      BY <1>4
    <3>2. ~RouterAhead(v)
      BY <1>8, <3>1 DEF RouterAhead, n
    <3> QED
      BY <1>3, <1>8, <3>2 DEF RouterLeaving, n
  <2>2. ~RouterDeep(v)
    BY <2>1 DEF RouterDeep, n
  <2>3. RouterWell(doc, x)
    BY <1>1, <1>2, <1>7, RouterSameWell DEF RouterHeld
  <2>4. RouterStill(doc, v, t)
    BY <2>2 DEF RouterMode, RouterMoved, RouterReset, RouterSwiped, RouterLoading,
                RouterBack, RouterAtBelow
  <2>5. RouterEven(x)
    BY <2>1, <1>7, <1>8, RouterHeldModes DEF RouterEven, n
  <2>6. RouterStill(doc, x, t)
    BY <2>4, <2>5, <1>7, RouterHeldModes DEF RouterStill
  <2> QED
    BY <2>3, <2>6, <1>6, <1>8 DEF RouterGood, RouterMode, r
<1>9. CASE v.at # 1
  <2>1. v.at - 1 \in Nat /\ v.at - 1 > 0 /\ v.at - 1 <= n /\ v.at - 1 \in 1 .. n
        /\ v.at - 1 <= v.at
    BY <1>4, <1>5, <1>9
  <2> DEFINE m == v.at - 1
  <2>2. u = [x EXCEPT !.at = m]
    BY <1>7
  <2> HIDE DEF u, m
  <2>3. m \in Nat /\ m > 0 /\ m <= n /\ m \in 1 .. n
    BY <2>1 DEF m
  <2>4. u \in RouterState
    BY <1>7, <2>2, <2>3 DEF RouterState
  <2>5. RouterHeld(v, u) /\ u.at = m /\ u.queue = <<>> /\ u.pending = 0
    BY <1>7, <2>2, <2>4 DEF RouterState, RouterHeld, RouterSame
  <2>6. /\ v.at <= Len(v.entries)
        /\ \A i \in 1 .. n : i <= v.at => v.entries[i] = v.history[i]
    BY <1>1, <1>2 DEF RouterEntries, n
  <2>7. RouterWell(doc, u)
    <3>1. u.history = v.history /\ u.entries = v.entries
      BY <2>5 DEF RouterHeld, RouterSame
    <3>2. RouterPages(u)
      BY <1>1, <2>5, RouterHeldModes DEF RouterPages, RouterHeld, RouterSame
    <3>3. m <= Len(v.entries)
      <4>1. Len(v.entries) \in Nat
        BY <1>1 DEF RouterState
      <4> QED
        BY <4>1, <2>1, <2>3, <2>6, <1>5 DEF m
    <3>4. \A i \in 1 .. n : i <= m => v.entries[i] = v.history[i]
      <4> TAKE i \in 1 .. n
      <4>1. i <= m => i <= v.at
        BY <1>4, <1>5, <2>3 DEF m
      <4> QED
        BY <4>1, <2>6
    <3>5. RouterEntries(doc, u)
      BY <1>2, <2>3, <2>5, <3>1, <3>3, <3>4 DEF RouterEntries, n
    <3> QED
      BY <1>1, <2>4, <3>1, <3>2, <3>5 DEF RouterWell
  <2>8. v.entries[m] = v.history[m] /\ v.history[m] \in Route!Within(v.history)
    <3>1. m <= v.at
      BY <2>1 DEF m
    <3>2. DOMAIN v.history = 1 .. n
      BY <1>4 DEF n
    <3> QED
      BY <2>3, <2>6, <3>1, <3>2 DEF Route!Within
  <2>9. Route!HandlePopState(u) = IF v.history[m] = u.url THEN u
            ELSE IF u.allow THEN Route!Back(u, FALSE)
                 ELSE [u EXCEPT !.queue = Append(@, "back")]
    <3>1. u.history = v.history /\ u.entries = v.entries
      BY <2>5 DEF RouterHeld, RouterSame
    <3>2. (IF u.at = 1 THEN u.history[1] ELSE u.entries[u.at]) = v.history[m]
      BY <3>1, <2>5, <2>8
    <3> QED
      BY <2>8, <3>1, <3>2 DEF Route!HandlePopState
  <2>10. CASE v.at = n + 1
    <3>1. RouterAhead(v) /\ RouterStill(doc, v, t)
      <4>1. n + 1 # n
        BY <1>4
      <4> QED
        BY <4>1, <1>3, <2>10 DEF RouterLeaving, n
    <3>2. m = n
      BY <1>4, <2>10 DEF m
    <3>3. v.history[m] = u.url
      BY <3>1, <3>2, <2>5 DEF RouterStill, RouterRest, RouterAtTop, RouterTop, RouterHeld, n
    <3>4. r = u
      BY <3>3, <1>6, <1>9, <2>9
    <3>5. RouterEven(u)
      BY <3>2, <2>5, RouterHeldModes DEF RouterEven, n
    <3>6. RouterStill(doc, u, t)
      BY <3>1, <3>5, <2>5, RouterHeldModes DEF RouterStill
    <3> QED
      BY <3>4, <3>6, <2>7 DEF RouterGood, RouterMode, r
  <2>11. CASE v.at = n
    <3>1. RouterLeaving(v)
      <4>1. n + 1 # n
        BY <1>4
      <4> QED
        BY <4>1, <1>3, <2>11 DEF RouterAhead, n
    <3>2. m = n - 1 /\ n > 1
      BY <1>4, <1>9, <2>11, <2>3 DEF m
    <3>3. RouterDeep(v) /\ RouterBelow(v) = v.history[m]
      BY <3>2 DEF RouterDeep, RouterBelow, n
    <3>4. RouterBehind(u)
      BY <3>2, <2>5, RouterHeldModes DEF RouterBehind, n
    <3>5. RouterGood(doc, Route!HandlePopState(u), t)
      BY <1>2, <2>5, <2>7, <2>9, <3>1, <3>3, <3>4, RouterBackEntry
    <3> QED
      BY <3>5, <1>6, <1>9 DEF r
  <2> QED
    BY <2>10, <2>11, <1>5
<1> QED
  BY <1>8, <1>9

-----------------------------------------------------------------------------
LEMMA RouterWellFacts ==
    ASSUME PagePartsAssumption, NEW d, NEW v, RouterWell(d, v)
    PROVE  /\ v \in RouterState /\ RouterPath(d, v.history) /\ RouterPages(v)
           /\ RouterEntries(d, v) /\ v.history \in Seq(Route!Page)
           /\ Len(v.history) \in Nat /\ Len(v.history) > 0 /\ v.at \in Nat /\ v.pending \in Nat
           /\ d.backKey = "browser" => Len(v.history) <= 2
  BY RouterPathTyped DEF RouterWell, RouterPath, RouterState

\* A page change is allowed between two transitions, unless a finger moves the page.
LEMMA RouterAllowed ==
    ASSUME NEW v, NEW t, RouterMode(doc, v, t), v.allow, t.state # "moved"
    PROVE  RouterStill(doc, v, t)
  BY DEF RouterMode, RouterMoved, RouterReset, RouterSwiped, RouterLoading, RouterBack

LEMMA RouterNavigate ==
    ASSUME PagePartsAssumption, NEW v, NEW t, RouterGood(doc, v, t), t.state # "moved",
           v.pending = 0, NEW p, RouterWay(doc, v.active, p)
    PROVE  RouterGood(doc, Route!Load(v, p, TRUE), t)
<1>1. doc \in Documents /\ RouterWell(doc, v) /\ RouterMode(doc, v, t)
  BY DEF RouterGood
<1>2. CASE ~v.allow
  <2>1. Route!Load(v, p, TRUE) = v
    BY <1>2 DEF Route!Load
  <2> QED
    BY <2>1
<1>3. CASE v.allow
  <2>1. RouterStill(doc, v, t)
    BY <1>1, <1>3, RouterAllowed
  <2>2. v.allow /\ RouterRest(v) /\ t \in RouterFinger /\ v.active = RouterTop(v)
    BY <2>1 DEF RouterStill, RouterRest, RouterAtTop
  <2>3. doc.backKey = "browser" => Len(v.history) = 1
    BY <1>1, <2>2, RouterPathAppend, RouterWellFacts DEF RouterTop
  <2>4. doc.pushState => RouterEven(v)
    <3> SUFFICES ASSUME doc.pushState PROVE RouterEven(v)
      OBVIOUS
    <3>1. ~RouterAhead(v) /\ ~RouterLeaving(v)
      BY DEF RouterAhead, RouterLeaving
    <3>2. ASSUME doc.backKey = "browser" PROVE ~RouterWaiting(v)
      <4>1. Len(v.history) - 1 = 0
        BY <2>3, <3>2
      <4>2. v.at > 0
        BY <1>1 DEF RouterWell, RouterEntries
      <4>3. v.at # 0
        BY <4>2
      <4> QED
        BY <4>1, <4>3 DEF RouterWaiting
    <3> QED
      BY <2>1, <3>1, <3>2 DEF RouterStill
  <2> QED
    BY <1>1, <2>2, <2>4, RouterLoadMode
<1> QED
  BY <1>2, <1>3

LEMMA RouterGoBack ==
    ASSUME PagePartsAssumption, NEW v, NEW t, RouterGood(doc, v, t), t.state # "moved",
           v.pending = 0
    PROVE  RouterGood(doc, Route!Back(v, TRUE), t)
<1>1. doc \in Documents /\ RouterWell(doc, v) /\ RouterMode(doc, v, t)
  BY DEF RouterGood
<1>2. CASE ~v.allow
  <2>1. Route!Back(v, TRUE) = v
    BY <1>2, RouterBackLocked
  <2> QED
    BY <2>1
<1>3. CASE v.allow /\ ~RouterDeep(v)
  <2>1. v \in RouterState /\ RouterPath(doc, v.history) /\ RouterPages(v)
    BY <1>1 DEF RouterWell
  <2>2. Route!Back(v, TRUE) = v
    BY <1>1, <1>3, <2>1, RouterBackFields
  <2> QED
    BY <2>2
<1>4. CASE v.allow /\ RouterDeep(v)
  <2>1. RouterStill(doc, v, t)
    BY <1>1, <1>4, RouterAllowed
  <2>2. RouterRest(v) /\ t \in RouterFinger
    BY <2>1 DEF RouterStill
  <2>3. RouterMayBack(doc, v, TRUE)
    <3>1. ~RouterAhead(v) /\ ~RouterLeaving(v)
      BY DEF RouterAhead, RouterLeaving
    <3> QED
      BY <2>1, <3>1 DEF RouterStill, RouterMayBack
  <2> QED
    BY <1>1, <1>4, <2>2, <2>3, RouterBackMode
<1> QED
  BY <1>2, <1>3, <1>4

\* The browser is asked to go back by its key: it has been, if there is no entry.
LEMMA RouterBackKey ==
    ASSUME PagePartsAssumption, NEW v, NEW t, RouterGood(doc, v, t), t.state # "moved",
           v.pending = 0, doc.backKey = "browser", v.at > 1
    PROVE  RouterGood(doc, [v EXCEPT !.pending = @ + 1], t)
<1> DEFINE u == [v EXCEPT !.pending = @ + 1]
           n == Len(v.history)
<1>1. doc \in Documents /\ RouterWell(doc, v) /\ RouterMode(doc, v, t)
  BY DEF RouterGood
<1>2. /\ v \in RouterState /\ RouterPath(doc, v.history) /\ RouterPages(v)
      /\ RouterEntries(doc, v) /\ n \in Nat /\ v.at \in Nat
      /\ (doc.backKey = "browser" => n <= 2)
  BY <1>1, RouterWellFacts
<1>3. doc.pushState
  <2>1. ~(1 > 1)
    OBVIOUS
  <2> QED
    BY <1>2, <2>1 DEF RouterEntries
<1>4. ~RouterBehind(v) /\ ~RouterWaiting(v) /\ ~RouterAhead(v) /\ ~RouterLeaving(v)
  <2> HIDE DEF n
  <2>1. v.at # n - 1
    BY <1>2
  <2> QED
    BY <2>1 DEF RouterBehind, RouterWaiting, RouterAhead, RouterLeaving, n
<1>5. u = [v EXCEPT !.pending = 1]
  OBVIOUS
<1> HIDE DEF u
<1>6. u \in RouterState
  BY <1>2, <1>5 DEF RouterState
<1>7. RouterHeld(v, u) /\ u.at = v.at /\ u.queue = v.queue /\ u.pending = 1
  BY <1>2, <1>5, <1>6 DEF RouterState, RouterHeld, RouterSame
<1>8. RouterWell(doc, u)
  BY <1>2, <1>3, <1>6, <1>7, RouterSameWell DEF RouterHeld
<1>9. RouterEven(v) => RouterLeaving(u)
  BY <1>7 DEF RouterEven, RouterLeaving, RouterHeld, RouterSame
<1>10. CASE RouterStill(doc, v, t)
  <2>1. RouterStill(doc, u, t)
    BY <1>3, <1>4, <1>7, <1>9, <1>10, RouterHeldModes DEF RouterStill
  <2> QED
    BY <1>1, <1>8, <2>1 DEF RouterGood, RouterMode, u
<1>11. CASE RouterReset(doc, v, t)
  <2>1. RouterReset(doc, u, t)
    BY <1>3, <1>4, <1>7, <1>9, <1>11, RouterHeldModes DEF RouterReset
  <2> QED
    BY <1>1, <1>8, <2>1 DEF RouterGood, RouterMode, u
<1>12. CASE RouterSwiped(doc, v, t)
  <2>1. RouterSwiped(doc, u, t)
    BY <1>3, <1>4, <1>7, <1>9, <1>12, RouterHeldModes DEF RouterSwiped
  <2> QED
    BY <1>1, <1>8, <2>1 DEF RouterGood, RouterMode, u
<1>13. CASE RouterLoading(doc, v, t)
  <2>1. RouterLoading(doc, u, t)
    BY <1>3, <1>4, <1>7, <1>9, <1>13, RouterHeldModes DEF RouterLoading
  <2> QED
    BY <1>1, <1>8, <2>1 DEF RouterGood, RouterMode, u
<1>14. ~RouterBack(doc, v, t) /\ ~RouterMoved(doc, v, t)
  BY <1>3, <1>4 DEF RouterBack, RouterMoved
<1> QED
  BY <1>1, <1>10, <1>11, <1>12, <1>13, <1>14 DEF RouterMode

\* The page on top has gone, by a back or by a swipe.
LEMMA RouterGone ==
    ASSUME PagePartsAssumption, doc \in Documents, NEW v, RouterWell(doc, v), RouterDeep(v),
           RouterQueue(doc, v.queue), v.queue = <<>> \/ doc.pushState,
           RouterAtBelow(v), NEW t \in RouterFinger,
           NEW r, r = Route!AfterBack(v, RouterTop(v), RouterBelow(v)),
           doc.pushState => \/ v.pending = 0 /\ v.at = Len(v.history) - 1
                            \/ v.pending = 1 /\ v.at = Len(v.history)
                            \/ v.pending = 1 /\ v.at = Len(v.history) - 1 /\ doc.backKey = "browser"
    PROVE  RouterGood(doc, r, t)
<1> DEFINE n == Len(v.history)
<1>1. v \in RouterState /\ RouterPath(doc, v.history) /\ RouterPages(v) /\ RouterEntries(doc, v)
      /\ n \in Nat
  BY RouterWellFacts
<1>2. RouterDone(v, r)
  BY <1>1, RouterBackDone
<1>3. RouterWell(doc, r) /\ Len(r.history) = n - 1
  BY <1>1, <1>2, RouterDoneWell
<1>4. r.queue = <<>> /\ r.at = v.at /\ r.pending = v.pending /\ r.allow
  BY <1>2 DEF RouterDone
<1>5. RouterRest(r)
  BY <1>2 DEF RouterDone, RouterRest, RouterAtTop, RouterAtBelow
<1>6. n = (n - 1) + 1
  BY <1>1
<1>7. doc.pushState => \/ RouterEven(r) \/ RouterAhead(r)
                       \/ doc.backKey = "browser" /\ RouterLeaving(r)
  BY <1>3, <1>4, <1>6 DEF RouterEven, RouterAhead, RouterLeaving
<1>8. RouterStill(doc, r, t)
  BY <1>4, <1>5, <1>7 DEF RouterStill
<1> QED
  BY <1>3, <1>8 DEF RouterGood, RouterMode

-----------------------------------------------------------------------------
LEMMA RouterInitIInv == PagePartsAssumption /\ Route!Init => RouterIInv
<1> SUFFICES ASSUME PagePartsAssumption, Route!Init PROVE RouterIInv
  OBVIOUS
<1>1. doc \in Documents /\ touch = Route!NoTouch
  BY DEF Route!Init
<1>2. Home \in Inline /\ Inline \subseteq Route!Page /\ Home \in Route!Page /\ Select \notin Inline
  BY RouterDocs
<1>3. /\ view.allow /\ view.url = Home /\ view.active = Home /\ view.history = <<Home>>
      /\ view.shown = <<Home>> /\ view.cached = Inline \ {Home} /\ view.ready = {Home}
      /\ view.on = [p \in Route!Page |-> "none"] /\ view.moving = Route!Still
      /\ view.queue = <<>> /\ view.entries = <<Home>> /\ view.at = 1 /\ view.pending = 0
  BY DEF Route!Init
<1>4. view \in RouterState
  <2>1. <<Home>> \in Seq(Route!Page) /\ <<>> \in Seq(Route!Page \cup {"back"})
    BY <1>2
  <2>2. Route!Still \in RouterMoving
    BY DEF RouterMoving
  <2> QED
    BY <1>2, <2>1, <2>2 DEF Route!Init, RouterState
<1>5. RouterTop(view) = Home /\ ~RouterDeep(view) /\ Len(view.history) = 1
  BY <1>3 DEF RouterTop, RouterDeep
<1>6. RouterPath(doc, view.history)
  <2>1. <<Home>> \in Seq(Route!Page) /\ Len(<<Home>>) = 1 /\ <<Home>>[1] = Home
    BY <1>2
  <2> QED
    BY <1>3, <2>1 DEF RouterPath
<1>7. RouterPages(view)
  <2>1. Route!Within(view.shown) = {Home} /\ Route!Within(view.history) = {Home}
    BY <1>3, RouterOne
  <2>2. view.cached = (Inline \cup ({Select} \cap {Home})) \ {Home}
    BY <1>2, <1>3
  <2> QED
    BY <1>3, <1>5, <2>1, <2>2 DEF RouterPages
<1>8. RouterEntries(doc, view)
  <2>1. Len(view.entries) = 1 /\ \A i \in 1 .. 1 : view.entries[i] = view.history[i]
    BY <1>3
  <2> QED
    BY <1>3, <1>5, <2>1 DEF RouterEntries
<1>9. RouterStill(doc, view, touch)
  <2>1. RouterRest(view)
    BY <1>2, <1>3, <1>5 DEF RouterRest, RouterAtTop
  <2>2. RouterEven(view)
    BY <1>3, <1>5 DEF RouterEven
  <2>3. touch \in RouterFinger
    BY <1>1 DEF RouterFinger
  <2> QED
    BY <1>3, <2>1, <2>2, <2>3 DEF RouterStill
<1> QED
  BY <1>1, <1>4, <1>6, <1>7, <1>8, <1>9 DEF RouterIInv, RouterGood, RouterWell, RouterMode

\* What the finger is when a page is not moved by it.
LEMMA RouterFingers == ASSUME NEW t
    PROVE  /\ t \in RouterFinger => t.state \in {"none", "touched"}
           /\ t \in RouterFinger /\ t.state = "none" => t = Route!NoTouch
           /\ t = Route!NoTouch => t.state = "none"
  BY DEF RouterFinger, Route!NoTouch

LEMMA RouterLiftFinger ==
    ASSUME NEW v, NEW t, RouterGood(doc, v, t), t \in RouterFinger, NEW s \in RouterFinger
    PROVE  RouterGood(doc, v, s)
<1>1. ~RouterMoved(doc, v, t) /\ ~RouterReset(doc, v, t) /\ ~RouterSwiped(doc, v, t)
  BY RouterFingers DEF RouterMoved, RouterReset, RouterSwiped
<1>2. RouterStill(doc, v, t) => RouterStill(doc, v, s)
  BY DEF RouterStill
<1>3. RouterLoading(doc, v, t) => RouterLoading(doc, v, s)
  BY DEF RouterLoading
<1>4. RouterBack(doc, v, t) => RouterBack(doc, v, s)
  BY DEF RouterBack
<1> QED
  BY <1>1, <1>2, <1>3, <1>4 DEF RouterGood, RouterMode

\* The first move of a finger that swipes: the page on top moves, with the one below.
LEMMA RouterMoves ==
    ASSUME PagePartsAssumption, NEW v, NEW t, RouterGood(doc, v, t), t.state = "touched",
           v.pending = 0, NEW i \in DOMAIN v.shown, NEW j \in DOMAIN v.shown,
           v.on[v.shown[j]] = "left", v.on[v.shown[i]] # "left",
           NEW s, s = [state |-> "moved", active |-> v.shown[i], previous |-> v.shown[j]]
    PROVE  RouterGood(doc, v, s)
<1>1. doc \in Documents /\ RouterWell(doc, v) /\ RouterMode(doc, v, t)
  BY DEF RouterGood
<1>2. RouterPath(doc, v.history) /\ RouterPages(v)
  BY <1>1 DEF RouterWell
<1> DEFINE a == RouterTop(v)
           b == RouterBelow(v)
<1>3. RouterStill(doc, v, t) \/ RouterLoading(doc, v, t) \/ RouterBack(doc, v, t)
  BY <1>1 DEF RouterMode, RouterMoved, RouterReset, RouterSwiped
<1>4. CASE ~RouterDeep(v)
  <2>1. v.shown = <<a>>
    BY <1>2, <1>4, RouterStack
  <2> HIDE DEF a
  <2>2. i = 1 /\ j = 1
    BY <2>1
  <2> QED
    BY <2>2
<1>5. CASE RouterDeep(v)
  <2>1. v.shown = <<b, a>>
    BY <1>2, <1>5, RouterStack
  <2>2. (i = 1 \/ i = 2) /\ (j = 1 \/ j = 2) /\ v.shown[1] = b /\ v.shown[2] = a
    <3> HIDE DEF a, b
    <3> QED
      BY <2>1
  <2>3. v.on[a] # "left"
    <3>1. RouterStill(doc, v, t) => v.on[a] \in {"none", "center"}
      BY DEF RouterStill, RouterRest
    <3>2. RouterLoading(doc, v, t) \/ RouterBack(doc, v, t) => v.on[a] = "none"
      BY DEF RouterLoading, RouterBack, RouterSlide
    <3> QED
      BY <1>3, <3>1, <3>2
  <2>4. i = 2 /\ j = 1 /\ v.on[b] = "left"
    BY <2>2, <2>3
  <2>5. ~RouterLoading(doc, v, t) /\ ~RouterBack(doc, v, t)
    BY <2>4 DEF RouterLoading, RouterBack, RouterSlide
  <2>6. RouterStill(doc, v, t)
    BY <1>3, <2>5
  <2>7. s = [state |-> "moved", active |-> a, previous |-> b]
    BY <2>2, <2>4
  <2>8. doc.pushState => RouterEven(v) \/ (doc.backKey = "browser" /\ RouterWaiting(v))
    <3>1. ~RouterAhead(v) /\ ~RouterLeaving(v)
      BY DEF RouterAhead, RouterLeaving
    <3> QED
      BY <2>6, <3>1 DEF RouterStill
  <2>9. RouterMoved(doc, v, s)
    BY <1>5, <2>6, <2>7, <2>8 DEF RouterStill, RouterMoved
  <2> QED
    BY <1>1, <2>9 DEF RouterGood, RouterMode
<1> QED
  BY <1>4, <1>5

\* The finger is lifted: a short way back, back to the page on top, or all the way.
LEMMA RouterShort ==
    ASSUME NEW v, NEW t, RouterGood(doc, v, t), t.state = "moved",
           NEW s, s = Route!NoTouch
    PROVE  RouterGood(doc, v, s)
<1>1. RouterMoved(doc, v, t)
  BY RouterFingers DEF RouterGood, RouterMode, RouterStill, RouterReset, RouterSwiped,
                       RouterLoading, RouterBack
<1>2. s \in RouterFinger
  BY DEF RouterFinger
<1>3. RouterStill(doc, v, s)
  BY <1>1, <1>2 DEF RouterMoved, RouterStill
<1> QED
  BY <1>3 DEF RouterGood, RouterMode

LEMMA RouterLifted ==
    ASSUME PagePartsAssumption, NEW v, NEW t, RouterGood(doc, v, t), t.state = "moved",
           NEW far \in BOOLEAN,
           NEW s, s = [t EXCEPT !.state = IF far THEN "back" ELSE "reset"],
           NEW r, r = [v EXCEPT
                        !.allow = FALSE,
                        !.url = IF far THEN Route!Previous(v.history) ELSE @,
                        !.active = IF far THEN t.previous ELSE @,
                        !.on = IF far THEN [@ EXCEPT ![t.active] = "right",
                                                     ![t.previous] = "center"] ELSE @]
    PROVE  RouterGood(doc, r, s)
<1> DEFINE a == RouterTop(v)
           b == RouterBelow(v)
<1>1. doc \in Documents /\ RouterWell(doc, v) /\ RouterMoved(doc, v, t)
  BY RouterFingers DEF RouterGood, RouterMode, RouterStill, RouterReset, RouterSwiped,
                       RouterLoading, RouterBack
<1>2. v \in RouterState /\ RouterPath(doc, v.history) /\ RouterPages(v) /\ RouterEntries(doc, v)
  BY <1>1 DEF RouterWell
<1>3. RouterDeep(v) /\ RouterRest(v) /\ t.active = a /\ t.previous = b
      /\ t = [state |-> "moved", active |-> a, previous |-> b]
      /\ (doc.pushState => RouterEven(v) \/ (doc.backKey = "browser" /\ RouterWaiting(v)))
  BY <1>1 DEF RouterMoved
<1>4. a \in Route!Page /\ b \in Route!Page /\ Route!Previous(v.history) = b
  BY <1>2, <1>3, RouterEnds
<1>5. CASE far
  <2> HIDE DEF a, b
  <2>1. r = [v EXCEPT !.allow = FALSE, !.url = b, !.active = b,
                      !.on = [v.on EXCEPT ![a] = "right", ![b] = "center"]]
    BY <1>3, <1>4, <1>5
  <2>2. s = [state |-> "back", active |-> a, previous |-> b]
    BY <1>3, <1>5
  <2>3. r \in RouterState
    <3> DEFINE f == [v.on EXCEPT ![a] = "right", ![b] = "center"]
    <3>1. f \in [Route!Page -> {"none", "left", "center", "right"}]
      BY <1>2, <1>4 DEF RouterState
    <3>2. r = [v EXCEPT !.allow = FALSE, !.url = b, !.active = b, !.on = f]
      BY <2>1
    <3> HIDE DEF f
    <3> QED
      BY ONLY <1>2, <1>4, <3>1, <3>2 DEF RouterState
  <2>4. /\ RouterSame(v, r) /\ ~r.allow /\ r.url = b /\ r.active = b /\ r.moving = v.moving
        /\ r.queue = v.queue /\ r.at = v.at /\ r.pending = v.pending
    BY <1>2, <2>1, <2>3 DEF RouterState, RouterSame
  <2>5. /\ RouterWell(doc, r) /\ RouterTop(r) = a /\ RouterBelow(r) = b /\ RouterDeep(r)
    <3>1. /\ r \in RouterState /\ RouterSame(v, r) /\ r.at = v.at
          /\ doc.pushState \/ (r.pending = v.pending /\ r.queue = v.queue)
          /\ RouterPath(doc, v.history) /\ RouterPages(v) /\ RouterEntries(doc, v)
      BY <1>2, <2>3, <2>4
    <3>2. /\ RouterWell(doc, r) /\ RouterTop(r) = RouterTop(v)
          /\ RouterBelow(r) = RouterBelow(v) /\ (RouterDeep(r) <=> RouterDeep(v))
      BY ONLY <3>1, RouterSameWell
    <3> QED
      BY <1>3, <3>2 DEF a, b
  <2>6. (RouterEven(v) => RouterEven(r)) /\ (RouterWaiting(v) => RouterWaiting(r))
    BY <2>4 DEF RouterEven, RouterWaiting, RouterSame
  <2>7. RouterAtBelow(r) /\ r.moving = Route!Still
    BY <1>3, <2>4, <2>5 DEF RouterAtBelow, RouterRest
  <2>8. RouterSwiped(doc, r, s)
    BY <1>3, <2>2, <2>4, <2>5, <2>6, <2>7 DEF RouterSwiped
  <2> QED
    BY <1>1, <2>5, <2>8 DEF RouterGood, RouterMode
<1>6. CASE ~far
  <2> HIDE DEF a, b
  <2>1. r = [v EXCEPT !.allow = FALSE]
    <3>1. r = [v EXCEPT !.allow = FALSE, !.url = @, !.active = @, !.on = @]
      BY <1>6
    <3> QED
      BY <3>1, <1>2 DEF RouterState
  <2>2. s = [state |-> "reset", active |-> a, previous |-> b]
    BY <1>3, <1>6
  <2>3. r \in RouterState
    BY <1>2, <2>1 DEF RouterState
  <2>4. /\ RouterSame(v, r) /\ ~r.allow /\ r.url = v.url /\ r.active = v.active
        /\ r.moving = v.moving /\ r.on = v.on
        /\ r.queue = v.queue /\ r.at = v.at /\ r.pending = v.pending
    BY <1>2, <2>1, <2>3 DEF RouterState, RouterSame
  <2>5. /\ RouterWell(doc, r) /\ RouterTop(r) = a /\ RouterBelow(r) = b /\ RouterDeep(r)
    <3>1. /\ r \in RouterState /\ RouterSame(v, r) /\ r.at = v.at
          /\ doc.pushState \/ (r.pending = v.pending /\ r.queue = v.queue)
          /\ RouterPath(doc, v.history) /\ RouterPages(v) /\ RouterEntries(doc, v)
      BY <1>2, <2>3, <2>4
    <3>2. /\ RouterWell(doc, r) /\ RouterTop(r) = RouterTop(v)
          /\ RouterBelow(r) = RouterBelow(v) /\ (RouterDeep(r) <=> RouterDeep(v))
      BY ONLY <3>1, RouterSameWell
    <3> QED
      BY <1>3, <3>2 DEF a, b
  <2>6. (RouterEven(v) => RouterEven(r)) /\ (RouterWaiting(v) => RouterWaiting(r))
    BY <2>4 DEF RouterEven, RouterWaiting, RouterSame
  <2>7. RouterRest(r)
    BY <1>3, <2>4, <2>5 DEF RouterRest, RouterAtTop, a, b
  <2>8. RouterReset(doc, r, s)
    BY <1>3, <2>2, <2>4, <2>5, <2>6, <2>7 DEF RouterReset
  <2> QED
    BY <1>1, <2>5, <2>8 DEF RouterGood, RouterMode
<1> QED
  BY <1>5, <1>6

\* The transition after a swipe ends.
RouterTransit(v, t) ==
    IF t.state = "reset" THEN [v EXCEPT !.allow = TRUE]
    ELSE LET u == IF doc.pushState THEN [v EXCEPT !.pending = @ + 1] ELSE v
         IN  Route!AfterBack([u EXCEPT !.allow = TRUE], t.active, t.previous)

LEMMA RouterTransitMode ==
    ASSUME PagePartsAssumption, NEW v, NEW t, RouterGood(doc, v, t),
           t.state \in {"back", "reset"}, v.pending = 0,
           NEW s, s = Route!NoTouch
    PROVE  RouterGood(doc, RouterTransit(v, t), s)
<1>1. doc \in Documents /\ RouterWell(doc, v) /\ RouterMode(doc, v, t) /\ s \in RouterFinger
  BY DEF RouterGood, RouterFinger
<1>2. /\ v \in RouterState /\ RouterPath(doc, v.history) /\ RouterPages(v)
      /\ RouterEntries(doc, v)
  BY <1>1 DEF RouterWell
<1>3. ~RouterAhead(v) /\ ~RouterLeaving(v)
  BY DEF RouterAhead, RouterLeaving
<1>4. RouterReset(doc, v, t) \/ RouterSwiped(doc, v, t)
  BY <1>1, RouterFingers DEF RouterMode, RouterStill, RouterMoved, RouterLoading, RouterBack
<1>5. CASE RouterReset(doc, v, t)
  <2> DEFINE u == [v EXCEPT !.allow = TRUE]
  <2>1. RouterTransit(v, t) = u
    BY <1>5 DEF RouterReset, RouterTransit
  <2> HIDE DEF u
  <2>2. u \in RouterState
    BY <1>2 DEF RouterState, u
  <2>3. /\ RouterSame(v, u) /\ u.allow /\ u.url = v.url /\ u.active = v.active
        /\ u.moving = v.moving /\ u.on = v.on
        /\ u.queue = v.queue /\ u.at = v.at /\ u.pending = v.pending
    BY <1>2 DEF RouterState, RouterSame, u
  <2>4. doc.pushState \/ (u.pending = v.pending /\ u.queue = v.queue)
    BY <2>3
  <2>5. /\ RouterWell(doc, u) /\ RouterTop(u) = RouterTop(v)
        /\ RouterBelow(u) = RouterBelow(v) /\ (RouterDeep(u) <=> RouterDeep(v))
    BY <1>2, <2>2, <2>3, <2>4, RouterSameWell
  <2>6. RouterRest(u)
    BY <1>5, <2>3, <2>5 DEF RouterReset, RouterRest, RouterAtTop
  <2>7. (RouterEven(v) => RouterEven(u)) /\ (RouterWaiting(v) => RouterWaiting(u))
    BY <2>3 DEF RouterEven, RouterWaiting, RouterSame
  <2>8. RouterStill(doc, u, s)
    BY <1>1, <1>3, <1>5, <2>3, <2>6, <2>7 DEF RouterReset, RouterStill
  <2> QED
    BY <1>1, <2>1, <2>5, <2>8 DEF RouterGood, RouterMode
<1>6. CASE RouterSwiped(doc, v, t)
  <2> DEFINE x == IF doc.pushState THEN [v EXCEPT !.pending = @ + 1] ELSE v
             u == [x EXCEPT !.allow = TRUE]
             n == Len(v.history)
  <2>1. /\ RouterDeep(v) /\ RouterAtBelow(v) /\ t.state = "back"
        /\ t.active = RouterTop(v) /\ t.previous = RouterBelow(v)
        /\ doc.pushState => RouterEven(v) \/ (doc.backKey = "browser" /\
                                              (RouterBehind(v) \/ RouterWaiting(v)))
    <3>1. t = [state |-> "back", active |-> RouterTop(v), previous |-> RouterBelow(v)]
      BY <1>6 DEF RouterSwiped
    <3>2. t.state = "back" /\ t.active = RouterTop(v) /\ t.previous = RouterBelow(v)
      BY <3>1
    <3>3. RouterAtBelow(v) /\ RouterDeep(v)
      BY <1>6 DEF RouterSwiped, RouterAtBelow
    <3>4. doc.pushState => RouterEven(v) \/ (doc.backKey = "browser" /\
                                              (RouterBehind(v) \/ RouterWaiting(v)))
      BY <1>3, <1>6 DEF RouterSwiped
    <3> QED
      BY <3>2, <3>3, <3>4
  <2>2. RouterTransit(v, t) = Route!AfterBack(u, RouterTop(v), RouterBelow(v))
    BY <2>1 DEF RouterTransit
  <2> HIDE DEF x, u
  <2>3. x \in RouterState /\ RouterSame(v, x) /\ x.url = v.url /\ x.active = v.active
        /\ x.queue = v.queue /\ x.at = v.at
        /\ x.pending = IF doc.pushState THEN 1 ELSE 0
    <3>1. CASE doc.pushState
      <4>1. x = [v EXCEPT !.pending = 1]
        BY <3>1 DEF x
      <4>2. x \in RouterState
        BY <1>2, <4>1 DEF RouterState
      <4> QED
        BY <1>2, <3>1, <4>1, <4>2 DEF RouterState, RouterSame
    <3>2. CASE ~doc.pushState
      <4>1. x = v
        BY <3>2 DEF x
      <4> QED
        BY <1>2, <3>2, <4>1 DEF RouterSame
    <3> QED
      BY <3>1, <3>2
  <2>4. u \in RouterState
    BY <2>3 DEF RouterState, u
  <2>5. /\ RouterSame(v, u) /\ u.url = v.url /\ u.active = v.active
        /\ u.queue = v.queue /\ u.at = v.at /\ u.pending = IF doc.pushState THEN 1 ELSE 0
    BY <2>3 DEF RouterState, RouterSame, u
  <2>6. doc.pushState \/ (u.pending = v.pending /\ u.queue = v.queue)
    BY <2>5
  <2>7. /\ RouterWell(doc, u) /\ RouterTop(u) = RouterTop(v)
        /\ RouterBelow(u) = RouterBelow(v) /\ RouterDeep(u)
    BY <1>2, <2>1, <2>4, <2>5, <2>6, RouterSameWell
  <2>8. RouterAtBelow(u)
    BY <2>1, <2>5, <2>7 DEF RouterAtBelow
  <2>9. RouterQueue(doc, u.queue) /\ (u.queue = <<>> \/ doc.pushState)
    <3>1. CASE doc.pushState
      BY <2>1, <2>5, <3>1 DEF RouterQueue, RouterEven, RouterBehind, RouterWaiting
    <3>2. CASE ~doc.pushState
      BY <1>2, <2>5, <3>2 DEF RouterQueue, RouterEntries
    <3> QED
      BY <3>1, <3>2
  <2>10. doc.pushState =>
             \/ u.pending = 1 /\ u.at = Len(u.history)
             \/ u.pending = 1 /\ u.at = Len(u.history) - 1 /\ doc.backKey = "browser"
    BY <2>1, <2>5 DEF RouterSame, RouterEven, RouterBehind, RouterWaiting
  <2>11. RouterGood(doc, RouterTransit(v, t), s)
    <3> DEFINE r == RouterTransit(v, t)
    <3>1. r = Route!AfterBack(u, RouterTop(u), RouterBelow(u))
      BY <2>2, <2>7
    <3> HIDE DEF r
    <3>2. RouterGood(doc, r, s)
      BY <1>1, <2>7, <2>8, <2>9, <2>10, <3>1, RouterGone
    <3> QED
      BY <3>2 DEF r
  <2> QED
    BY <2>11
<1> QED
  BY <1>4, <1>5, <1>6

\* The animation of router.back ends.
LEMMA RouterBackedMode ==
    ASSUME PagePartsAssumption, doc \in Documents, NEW v, RouterWell(doc, v), NEW t,
           RouterBack(doc, v, t), v.pending = 0
    PROVE  RouterGood(doc, Route!AfterBack(v, RouterTop(v), RouterBelow(v)), t)
<1> DEFINE r == Route!AfterBack(v, RouterTop(v), RouterBelow(v))
<1>1. RouterAtBelow(v) /\ RouterDeep(v) /\ t \in RouterFinger
      /\ (doc.pushState => RouterBehind(v) \/ (doc.backKey = "browser" /\ RouterWaiting(v)))
  BY DEF RouterBack, RouterAtBelow, RouterLeaving
<1>2. RouterQueue(doc, v.queue) /\ (v.queue = <<>> \/ doc.pushState)
  <2>1. CASE doc.pushState
    BY <1>1, <2>1 DEF RouterQueue, RouterBehind, RouterWaiting
  <2>2. CASE ~doc.pushState
    BY <2>2 DEF RouterQueue, RouterEntries, RouterWell
  <2> QED
    BY <2>1, <2>2
<1>3. doc.pushState => v.pending = 0 /\ v.at = Len(v.history) - 1
  BY <1>1 DEF RouterBehind, RouterWaiting
<1> HIDE DEF r
<1>4. r = Route!AfterBack(v, RouterTop(v), RouterBelow(v))
  BY DEF r
<1>5. RouterGood(doc, r, t)
  BY <1>1, <1>2, <1>3, <1>4, RouterGone
<1> QED
  BY <1>5 DEF r

LEMMA RouterStepIInv ==
    PagePartsAssumption /\ RouterIInv /\ [Route!Next]_Route!vars => RouterIInv'
<1> SUFFICES ASSUME PagePartsAssumption, RouterIInv, [Route!Next]_Route!vars PROVE RouterIInv'
  OBVIOUS
<1>1. RouterGood(doc, view, touch) /\ doc \in Documents /\ RouterWell(doc, view)
      /\ RouterMode(doc, view, touch)
  BY DEF RouterIInv, RouterGood
<1>2. ASSUME NEW p \in Route!Page \cup {Missing}, Route!Follow(p) PROVE RouterIInv'
  <2>1. /\ touch.state # "moved" /\ view.pending = 0 /\ <<view.active, p>> \in doc.links
        /\ view' = Route!Load(view, p, TRUE) /\ doc' = doc /\ touch' = touch
    BY <1>2 DEF Route!Follow
  <2>2. CASE p \in Inline
    <3>1. RouterWay(doc, view.active, p)
      BY <2>1, <2>2 DEF RouterWay
    <3>2. RouterGood(doc, Route!Load(view, p, TRUE), touch)
      BY <1>1, <2>1, <3>1, RouterNavigate
    <3> QED
      BY <2>1, <3>2 DEF RouterIInv
  <2>3. CASE p \notin Inline
    <3>1. p \in Inline \cup {Missing}
      BY <1>1, <2>1, RouterDocs
    <3>2. p \notin Route!Page
      BY <2>3, <3>1, RouterDocs
    <3>3. Route!Load(view, p, TRUE) = view
      BY <3>2 DEF Route!Load
    <3> QED
      BY <1>1, <2>1, <3>3 DEF RouterIInv
  <2> QED
    BY <2>2, <2>3
<1>3. ASSUME Route!OpenSelect PROVE RouterIInv'
  <2>1. /\ touch.state # "moved" /\ view.pending = 0 /\ view.active \in doc.selects
        /\ view' = Route!Load(view, Select, TRUE) /\ doc' = doc /\ touch' = touch
    BY <1>3 DEF Route!OpenSelect
  <2>2. RouterWay(doc, view.active, Select)
    BY <2>1 DEF RouterWay
  <2>3. RouterGood(doc, Route!Load(view, Select, TRUE), touch)
    BY <1>1, <2>1, <2>2, RouterNavigate
  <2> QED
    BY <2>1, <2>3 DEF RouterIInv
<1>4. ASSUME Route!Choose \/ Route!GoBack PROVE RouterIInv'
  <2>1. /\ touch.state # "moved" /\ view.pending = 0
        /\ view' = Route!Back(view, TRUE) /\ doc' = doc /\ touch' = touch
    BY <1>4 DEF Route!Choose, Route!GoBack
  <2>2. RouterGood(doc, Route!Back(view, TRUE), touch)
    BY <1>1, <2>1, RouterGoBack
  <2> QED
    BY <2>1, <2>2 DEF RouterIInv
<1>5. ASSUME Route!BackKey PROVE RouterIInv'
  <2>1. /\ doc.backKey = "browser" /\ touch.state # "moved" /\ view.pending = 0 /\ view.at > 1
        /\ view' = [view EXCEPT !.pending = @ + 1] /\ doc' = doc /\ touch' = touch
    BY <1>5 DEF Route!BackKey
  <2>2. RouterGood(doc, [view EXCEPT !.pending = @ + 1], touch)
    BY <1>1, <2>1, RouterBackKey
  <2> QED
    BY <2>1, <2>2 DEF RouterIInv
<1>6. ASSUME Route!PopState PROVE RouterIInv'
  <2>1. view.pending > 0 /\ view' = RouterPopped(view) /\ doc' = doc /\ touch' = touch
    BY <1>6 DEF Route!PopState, RouterPopped
  <2>2. RouterGood(doc, RouterPopped(view), touch)
    BY <1>1, <2>1, RouterPopMode
  <2> QED
    BY <2>1, <2>2 DEF RouterIInv
<1>7. ASSUME Route!AnimationEnd PROVE RouterIInv'
  <2>1. view.pending = 0 /\ doc' = doc /\ touch' = touch
    BY <1>7 DEF Route!AnimationEnd
  <2>2. CASE /\ view.moving.kind = "load"
             /\ view' = Route!AfterLoad(view, view.moving.new, view.moving.old)
    <3>1. RouterLoading(doc, view, touch)
      BY <1>1, <2>2 DEF RouterMode, RouterStill, RouterMoved, RouterReset, RouterSwiped,
                        RouterBack, RouterRest, Route!Still
    <3>2. view.moving.new = RouterTop(view) /\ view.moving.old = RouterBelow(view)
      BY <3>1 DEF RouterLoading
    <3>3. RouterGood(doc, Route!AfterLoad(view, RouterTop(view), RouterBelow(view)), touch)
      BY <1>1, <2>1, <3>1, RouterLoadedMode
    <3> QED
      BY <2>1, <2>2, <3>2, <3>3 DEF RouterIInv
  <2>3. CASE /\ view.moving.kind = "back"
             /\ view' = Route!AfterBack(view, view.moving.old, view.moving.new)
    <3>1. RouterBack(doc, view, touch)
      BY <1>1, <2>3 DEF RouterMode, RouterStill, RouterMoved, RouterReset, RouterSwiped,
                        RouterLoading, RouterRest, Route!Still
    <3>2. view.moving.old = RouterTop(view) /\ view.moving.new = RouterBelow(view)
      BY <3>1 DEF RouterBack
    <3>3. RouterGood(doc, Route!AfterBack(view, RouterTop(view), RouterBelow(view)), touch)
      BY <1>1, <2>1, <3>1, RouterBackedMode
    <3> QED
      BY <2>1, <2>3, <3>2, <3>3 DEF RouterIInv
  <2> QED
    BY <1>7, <2>2, <2>3 DEF Route!AnimationEnd
<1>8. ASSUME Route!TouchStart PROVE RouterIInv'
  <2>1. touch = Route!NoTouch /\ touch' = [state |-> "touched"] /\ doc' = doc /\ view' = view
    BY <1>8 DEF Route!TouchStart
  <2>2. touch \in RouterFinger /\ touch' \in RouterFinger
    BY <2>1 DEF RouterFinger
  <2>3. RouterGood(doc, view, touch')
    BY <1>1, <2>2, RouterLiftFinger
  <2> QED
    BY <2>1, <2>3 DEF RouterIInv
<1>9. ASSUME NEW p \in Route!Page, Route!TouchMove(p) PROVE RouterIInv'
  <2>1. touch.state = "touched" /\ view.pending = 0 /\ doc' = doc /\ view' = view
    BY <1>9 DEF Route!TouchMove
  <2>2. CASE touch' = Route!NoTouch
    <3>1. touch \in RouterFinger /\ touch' \in RouterFinger
      BY <1>1, <2>1, <2>2 DEF RouterFinger, RouterMode, RouterStill, RouterMoved, RouterReset,
                              RouterSwiped, RouterLoading, RouterBack
    <3>2. RouterGood(doc, view, touch')
      BY <1>1, <3>1, RouterLiftFinger
    <3> QED
      BY <2>1, <3>2 DEF RouterIInv
  <2>3. ASSUME NEW j \in Route!OnLeft,
               touch' = [state |-> "moved", active |-> p, previous |-> view.shown[j]]
        PROVE  RouterIInv'
    <3>1. PICK i \in DOMAIN view.shown : view.shown[i] = p /\ i \notin Route!OnLeft
      BY <1>9 DEF Route!TouchMove
    <3>2. view.on[view.shown[i]] # "left"
      BY <3>1 DEF Route!OnLeft
    <3>3. j \in DOMAIN view.shown /\ view.on[view.shown[j]] = "left"
      BY DEF Route!OnLeft
    <3>4. touch' = [state |-> "moved", active |-> view.shown[i], previous |-> view.shown[j]]
      BY <2>3, <3>1
    <3>5. RouterGood(doc, view, touch')
      BY <1>1, <2>1, <3>2, <3>3, <3>4, RouterMoves
    <3> QED
      BY <2>1, <3>5 DEF RouterIInv
  <2> QED
    BY <1>9, <2>2, <2>3 DEF Route!TouchMove
<1>10. ASSUME NEW far \in BOOLEAN, Route!TouchEnd(far) PROVE RouterIInv'
  <2>1. doc' = doc
    BY <1>10 DEF Route!TouchEnd
  <2>2. CASE touch.state = "touched" /\ touch' = Route!NoTouch /\ view' = view
    <3>1. touch \in RouterFinger /\ touch' \in RouterFinger
      BY <1>1, <2>2 DEF RouterFinger, RouterMode, RouterStill, RouterMoved, RouterReset,
                        RouterSwiped, RouterLoading, RouterBack
    <3>2. RouterGood(doc, view, touch')
      BY <1>1, <3>1, RouterLiftFinger
    <3> QED
      BY <2>1, <2>2, <3>2 DEF RouterIInv
  <2>3. CASE touch.state = "moved" /\ touch' = Route!NoTouch /\ view' = view
    <3>1. RouterGood(doc, view, touch')
      BY <1>1, <2>3, RouterShort
    <3> QED
      BY <2>1, <2>3, <3>1 DEF RouterIInv
  <2>4. CASE /\ touch.state = "moved"
             /\ touch' = [touch EXCEPT !.state = IF far THEN "back" ELSE "reset"]
             /\ view' = [view EXCEPT
                        !.allow = FALSE,
                        !.url = IF far THEN Route!Previous(view.history) ELSE @,
                        !.active = IF far THEN touch.previous ELSE @,
                        !.on = IF far THEN [@ EXCEPT ![touch.active] = "right",
                                                     ![touch.previous] = "center"] ELSE @]
    <3>1. RouterGood(doc, view', touch')
      BY <1>1, <2>4, RouterLifted
    <3> QED
      BY <2>1, <3>1 DEF RouterIInv
  <2> QED
    BY <1>10, <2>2, <2>3, <2>4 DEF Route!TouchEnd
<1>11. ASSUME Route!TransitionEnd PROVE RouterIInv'
  <2>1. /\ touch.state \in {"back", "reset"} /\ view.pending = 0
        /\ view' = RouterTransit(view, touch) /\ touch' = Route!NoTouch /\ doc' = doc
    BY <1>11 DEF Route!TransitionEnd, RouterTransit
  <2>2. RouterGood(doc, RouterTransit(view, touch), touch')
    BY <1>1, <2>1, RouterTransitMode
  <2> QED
    BY <2>1, <2>2 DEF RouterIInv
<1>12. ASSUME UNCHANGED Route!vars PROVE RouterIInv'
  BY <1>1, <1>12 DEF RouterIInv, Route!vars
<1> QED
  BY <1>2, <1>3, <1>4, <1>5, <1>6, <1>7, <1>8, <1>9, <1>10, <1>11, <1>12
  DEF Route!Next, Route!Navigate, Route!Swipe, Route!Lift, Route!Settle

\* Nothing under way, the url, the pages and both histories agree.
LEMMA RouterAgreeFollows ==
    PagePartsAssumption /\ RouterIInv
        => Route!ShownIsTop /\ Route!PagesKept /\ Route!BrowserInStep
<1> SUFFICES ASSUME PagePartsAssumption, RouterIInv
             PROVE  Route!ShownIsTop /\ Route!PagesKept /\ Route!BrowserInStep
  OBVIOUS
<1> DEFINE h == view.history
           n == Len(h)
           a == RouterTop(view)
           b == RouterBelow(view)
<1>1. doc \in Documents /\ RouterWell(doc, view) /\ RouterMode(doc, view, touch)
  BY DEF RouterIInv, RouterGood
<1>2. /\ view \in RouterState /\ RouterPath(doc, h) /\ RouterPages(view)
      /\ RouterEntries(doc, view) /\ n \in Nat /\ n > 0 /\ h \in Seq(Route!Page)
  BY <1>1, RouterWellFacts
<1>3. ASSUME Route!Idle
      PROVE  /\ RouterRest(view)
             /\ doc.pushState => RouterEven(view) \/ RouterWaiting(view)
  <2>1. RouterStill(doc, view, touch)
    BY <1>1, <1>3, RouterAllowed DEF Route!Idle
  <2>2. ~RouterAhead(view) /\ ~RouterLeaving(view)
    BY <1>3 DEF RouterAhead, RouterLeaving, Route!Idle
  <2> QED
    BY <2>1, <2>2 DEF RouterStill
<1>4. a \in Route!Page /\ (n > 1 => b # a /\ b \in Route!Page)
      /\ (n > 1 => Route!Previous(h) = b) /\ Route!Last(h) = a
  BY <1>2, RouterEnds DEF RouterDeep, Route!Last, RouterTop
<1>5. Route!ShownIsTop
  <2> SUFFICES ASSUME Route!Idle
               PROVE  /\ view.url = Route!Last(h) /\ view.active = Route!Last(h)
                      /\ view.shown = IF n = 1 THEN h ELSE <<Route!Previous(h), Route!Last(h)>>
                      /\ view.on[Route!Last(h)] \in {"none", "center"}
                      /\ n > 1 => view.on[Route!Previous(h)] = "left"
    BY DEF Route!ShownIsTop
  <2>1. RouterRest(view)
    BY <1>3
  <2>2. view.url = Route!Last(h) /\ view.active = Route!Last(h)
        /\ view.on[Route!Last(h)] \in {"none", "center"}
    BY <2>1, <1>4 DEF RouterRest, RouterAtTop
  <2>3. n > 1 => view.on[Route!Previous(h)] = "left"
    BY <2>1, <1>4 DEF RouterRest, RouterDeep
  <2>4. view.shown = IF n = 1 THEN h ELSE <<Route!Previous(h), Route!Last(h)>>
    <3>1. view.shown = IF n > 1 THEN <<b, a>> ELSE h
      BY <1>2 DEF RouterPages, RouterDeep
    <3> HIDE DEF n
    <3>2. n > 1 <=> n # 1
      BY <1>2
    <3> QED
      BY <3>1, <3>2, <1>4
  <2> QED
    BY <2>2, <2>3, <2>4
<1>6. Route!PagesKept
  <2> DEFINE c == view.cached
  <2>1. c = (Inline \cup ({Select} \cap {a})) \ Route!Within(view.shown)
        /\ Route!Within(h) \subseteq view.ready
    BY <1>2 DEF RouterPages
  <2>2. Route!Within(view.shown) \subseteq Route!Within(h) /\ a \in Route!Within(h)
        /\ (Len(view.shown) = 1 \/ (Len(view.shown) = 2 /\ view.shown[1] # view.shown[2]))
    <3>1. n \in DOMAIN h /\ (n > 1 => n - 1 \in DOMAIN h) /\ (~(n > 1) => n = 1)
      <4>1. DOMAIN h = 1 .. n
        BY <1>2
      <4> HIDE DEF n
      <4> QED
        BY <1>2, <4>1
    <3>2. a \in Route!Within(h) /\ (n > 1 => b \in Route!Within(h))
      BY <3>1 DEF Route!Within, RouterTop, RouterBelow
    <3>3. CASE n > 1
      <4>1. view.shown = <<b, a>>
        BY <1>2, <3>3 DEF RouterPages, RouterDeep
      <4>2. b # a
        BY <1>4, <3>3
      <4> HIDE DEF a, b
      <4>3. Route!Within(view.shown) = {b, a} /\ Len(view.shown) = 2
            /\ view.shown[1] = b /\ view.shown[2] = a
        BY <4>1, <4>2, RouterTwo
      <4> QED
        BY <3>2, <3>3, <4>2, <4>3
    <3>4. CASE ~(n > 1)
      <4>1. view.shown = h /\ n = 1
        BY <1>2, <3>1, <3>4 DEF RouterPages, RouterDeep
      <4> QED
        BY <3>2, <4>1
    <3> QED
      BY <3>3, <3>4
  <2> HIDE DEF c, a
  <2>3. Inline \subseteq Route!InDOM(view)
    BY <2>1 DEF Route!InDOM, c
  <2>4. Select \in Route!InDOM(view) => Select \in Route!Within(h)
    <3>1. Select \notin Inline
      BY RouterDocs
    <3> QED
      BY <2>1, <2>2, <3>1 DEF Route!InDOM, c
  <2>5. \A i \in DOMAIN view.shown : /\ view.shown[i] \notin view.cached
                                     /\ view.shown[i] \in view.ready
    <3> TAKE i \in DOMAIN view.shown
    <3>1. view.shown[i] \in Route!Within(view.shown)
      BY DEF Route!Within
    <3> QED
      BY <2>1, <2>2, <3>1 DEF c
  <2> QED
    BY <2>2, <2>3, <2>4, <2>5 DEF Route!PagesKept
<1>7. Route!BrowserInStep
  <2> SUFFICES ASSUME Route!Idle, doc.pushState, view.queue = <<>>
               PROVE  Route!Upto(view.entries, view.at) = h
    BY DEF Route!BrowserInStep
  <2> DEFINE e == view.entries
  <2>1. view.at = n
    <3>1. <<"back">> # <<>>
      BY RouterOneBack
    <3> QED
      BY <1>3, <3>1 DEF RouterEven, RouterWaiting
  <2>2. n <= Len(e) /\ \A i \in 1 .. n : i <= n => e[i] = h[i]
    BY <1>2, <2>1 DEF RouterEntries
  <2>3. e \in Seq(Route!Page)
    BY <1>2 DEF RouterState
  <2> HIDE DEF n, e
  <2>4. \A i \in 1 .. n : e[i] = h[i]
    <3>1. \A i \in 1 .. n : i <= n
      BY <1>2
    <3> QED
      BY <2>2, <3>1
  <2>5. Route!Upto(e, n) = [i \in 1 .. n |-> h[i]]
    BY <2>4 DEF Route!Upto
  <2>6. h = [i \in 1 .. n |-> h[i]]
    <3>1. h \in [1 .. n -> Route!Page]
      BY <1>2 DEF n
    <3> QED
      BY <3>1
  <2> QED
    BY <2>1, <2>5, <2>6 DEF e
<1> QED
  BY <1>5, <1>6, <1>7

-----------------------------------------------------------------------------
\* What each part keeps true of its own state.
PartIInv ==
    /\ part = "overlays" => OverlaysIInv
    /\ part = "startup" => StartIInv
    /\ part = "taps" => TapsIInv
    /\ part = "swipes" => SwipesIInv
    /\ part = "calendar" => CalendarIInv
    /\ part = "panels" => PanelsIInv
    /\ part = "forms" => FormsIInv
    /\ part = "orderList" => OrdersIInv
    /\ part = "pull" => PullsIInv
    /\ part = "searchbar" => SearchIInv
    /\ part = "picker" => PickerIInv
    /\ part = "virtualList" => ListsIInv
    /\ part = "images" => ImagesIInv
    /\ part = "router" => RouterIInv

\* Every behaviour starts in a state that its part's invariant allows.
LEMMA PartsInit == Init => PartIInv
<1> SUFFICES ASSUME Init PROVE PartIInv
  OBVIOUS
<1>1. part = "overlays" => OverlaysIInv
  BY DocumentPartsAssumption, OverlaysInitIInv DEF Init, InitOfOne
<1>2. part = "startup" => StartIInv
  BY StartInitIInv DEF Init, InitOfOne
<1>3. part = "taps" => TapsIInv
  BY TapsInitIInv DEF Init, InitOfOne
<1>4. part = "swipes" => SwipesIInv
  BY DocumentPartsAssumption, SwipesInitIInv DEF Init, InitOfOne
<1>5. part = "calendar" => CalendarIInv
  BY CalendarInitIInv DEF Init, InitOfOne
<1>6. part = "panels" => PanelsIInv
  BY PanelsInitIInv DEF Init, InitOfOne
<1>7. part = "forms" => FormsIInv
  BY DocumentPartsAssumption, FormsInitIInv DEF Init, InitOfOne
<1>8. part = "orderList" => OrdersIInv
  BY OrdersInitIInv DEF Init, InitOfOne
<1>9. part = "pull" => PullsIInv
  BY PullsInitIInv DEF Init, InitOfOne
<1>10. part = "searchbar" => SearchIInv
  BY SearchInitIInv DEF Init, InitOfOne
<1>11. part = "picker" => PickerIInv
  BY PickerInitIInv DEF Init, InitOfOne
<1>12. part = "virtualList" => ListsIInv
  BY PagePartsAssumption, ListsInitIInv DEF Init, InitOfOne
<1>13. part = "images" => ImagesIInv
  BY PagePartsAssumption, ImagesInitIInv DEF Init, InitOfOne
<1>14. part = "router" => RouterIInv
  BY PagePartsAssumption, RouterInitIInv DEF Init, InitOfOne
<1> QED
  BY <1>1, <1>2, <1>3, <1>4, <1>5, <1>6, <1>7, <1>8, <1>9, <1>10, <1>11, <1>12, <1>13, <1>14 DEF PartIInv

\* A step is one of the part that the behaviour is about, or leaves that part
\* alone; which part it is does not change.
LEMMA PartsStep == PartIInv /\ [Next]_vars => PartIInv'
<1> SUFFICES ASSUME PartIInv, [Next]_vars PROVE PartIInv'
  OBVIOUS
<1>1. part' = part
  BY DEF Next, vars
<1>2. ASSUME part = "overlays" PROVE OverlaysIInv'
  <2>1. OverlaysIInv /\ [Overlay!Next]_w
    BY <1>2 DEF PartIInv, Next, NextOfOne, vars
  <2> QED
    BY <2>1, DocumentPartsAssumption, OverlaysStepIInv
<1>3. ASSUME part = "startup" PROVE StartIInv'
  <2>1. StartIInv /\ [Start!Next]_w
    BY <1>3 DEF PartIInv, Next, NextOfOne, vars
  <2> QED
    BY <2>1, StartStepIInv
<1>4. ASSUME part = "taps" PROVE TapsIInv'
  <2>1. TapsIInv /\ [Tap!Next]_w
    BY <1>4 DEF PartIInv, Next, NextOfOne, vars
  <2> QED
    BY <2>1, TapsStepIInv
<1>5. ASSUME part = "swipes" PROVE SwipesIInv'
  <2>1. SwipesIInv /\ [Swipe!Next]_w
    BY <1>5 DEF PartIInv, Next, NextOfOne, vars
  <2> QED
    BY <2>1, DocumentPartsAssumption, SwipesStepIInv
<1>6. ASSUME part = "calendar" PROVE CalendarIInv'
  <2>1. CalendarIInv /\ [Month!Next]_w
    BY <1>6 DEF PartIInv, Next, NextOfOne, vars
  <2> QED
    BY <2>1, CalendarStepIInv
<1>7. ASSUME part = "panels" PROVE PanelsIInv'
  <2>1. PanelsIInv /\ [Panel!Next]_w
    BY <1>7 DEF PartIInv, Next, NextOfOne, vars
  <2> QED
    BY <2>1, PanelsStepIInv
<1>8. ASSUME part = "forms" PROVE FormsIInv'
  <2>1. FormsIInv /\ [Form!Next]_w
    BY <1>8 DEF PartIInv, Next, NextOfOne, vars
  <2> QED
    BY <2>1, DocumentPartsAssumption, FormsStepIInv
<1>9. ASSUME part = "orderList" PROVE OrdersIInv'
  <2>1. OrdersIInv /\ [Order!Next]_w
    BY <1>9 DEF PartIInv, Next, NextOfOne, vars
  <2> QED
    BY <2>1, OrdersStepIInv
<1>10. ASSUME part = "pull" PROVE PullsIInv'
  <2>1. PullsIInv /\ [Pull!Next]_w
    BY <1>10 DEF PartIInv, Next, NextOfOne, vars
  <2> QED
    BY <2>1, PullsStepIInv
<1>11. ASSUME part = "searchbar" PROVE SearchIInv'
  <2>1. SearchIInv /\ [Bar!Next]_w
    BY <1>11 DEF PartIInv, Next, NextOfOne, vars
  <2> QED
    BY <2>1, SearchStepIInv
<1>12. ASSUME part = "picker" PROVE PickerIInv'
  <2>1. PickerIInv /\ [Pick!Next]_w
    BY <1>12 DEF PartIInv, Next, NextOfOne, vars
  <2> QED
    BY <2>1, PickerStepIInv
<1>13. ASSUME part = "virtualList" PROVE ListsIInv'
  <2>1. ListsIInv /\ [List!Next]_w
    BY <1>13 DEF PartIInv, Next, NextOfOne, vars
  <2> QED
    BY <2>1, PagePartsAssumption, ListsStepIInv
<1>14. ASSUME part = "images" PROVE ImagesIInv'
  <2>1. ImagesIInv /\ [Lazy!Next]_w
    BY <1>14 DEF PartIInv, Next, NextOfOne, vars
  <2> QED
    BY <2>1, PagePartsAssumption, ImagesStepIInv
<1>15. ASSUME part = "router" PROVE RouterIInv'
  <2>1. RouterIInv /\ [Route!Next]_Route!vars
    BY <1>15 DEF PartIInv, Next, NextOfOne, vars, router, Route!vars
  <2> QED
    BY <2>1, PagePartsAssumption, RouterStepIInv
<1> QED
  BY <1>1, <1>2, <1>3, <1>4, <1>5, <1>6, <1>7, <1>8, <1>9, <1>10, <1>11, <1>12, <1>13, <1>14, <1>15 DEF PartIInv

(* Every state of every part satisfies the part's invariant, for any papers, *)
(* plugins, forms, tabs, queries and the other constants of the parts.       *)
THEOREM PartsInvariant == Spec => []PartIInv
  BY PartsInit, PartsStep, PTL DEF Spec

(* One modal at most is shown, whatever calls are sent and answered while the *)
(* others wait, and none that waits is lost or waits twice.                   *)
THEOREM OneModalAlways == Spec => []OneModal
<1>1. PartIInv => OneModal
  BY DocumentPartsAssumption, OverlaysOneModalFollows DEF PartIInv, OneModal
<1> QED
  BY <1>1, PartsInvariant, PTL

(* "deviceready" reaches the document once and not before the plugins, however *)
(* they and the document come in, and the back key is the page's exactly while *)
(* it has a handler for it.                                                    *)
THEOREM ReadyOnceAlways == Spec => []ReadyOnce
<1>1. PartIInv => ReadyOnce
  BY StartReadyFollows DEF PartIInv, ReadyOnce
<1> QED
  BY <1>1, PartsInvariant, PTL

(* A tap gives one click, one row at most is open, and one side panel at most *)
(* is active, however the fingers, the timers and the transitions interleave. *)
THEOREM TouchesAgreeAlways == Spec => []TouchesAgree
<1>1. PartIInv => TouchesAgree
  BY DocumentPartsAssumption, TapsOnceFollows, SwipesOneRowFollows, PanelsAgreeFollows DEF PartIInv, TouchesAgree
<1> QED
  BY <1>1, PartsInvariant, PTL

(* What is picked, written, stored or searched for is what is shown, however *)
(* fast the taps, the searches and the answers follow each other.            *)
THEOREM FieldsFollowAlways == Spec => []FieldsFollow
<1>1. PartIInv => FieldsFollow
  BY DocumentPartsAssumption, CalendarMonthShownFollows, PickerFieldFollows, FormsFormKeptFollows, SearchListFollows DEF PartIInv, FieldsFollow
<1> QED
  BY <1>1, PartsInvariant, PTL

(* A touch gives one click, whoever sends it: framework7.js or the browser. *)
THEOREM TapOnceAlways == Spec => [](part = "taps" => Tap!TapOnce)
<1>1. PartIInv => (part = "taps" => Tap!TapOnce)
  BY TapsOnceFollows DEF PartIInv
<1> QED
  BY <1>1, PartsInvariant, PTL

(* One side panel at most is active, and displayed when nothing moves. *)
THEOREM PanelsAgreeAlways == Spec => [](part = "panels" => Panel!PanelsAgree)
<1>1. PartIInv => (part = "panels" => Panel!PanelsAgree)
  BY PanelsAgreeFollows DEF PartIInv
<1> QED
  BY <1>1, PartsInvariant, PTL

(* One row at most is swiped open, and the next touch closes it. *)
THEOREM OneRowOpenAlways == Spec => [](part = "swipes" => Swipe!OneRowOpen)
<1>1. PartIInv => (part = "swipes" => Swipe!OneRowOpen)
  BY DocumentPartsAssumption, SwipesOneRowFollows DEF PartIInv
<1> QED
  BY <1>1, PartsInvariant, PTL

(* The month in the window is the one that the toolbar of the calendar names, *)
(* and at rest its neighbours are on both sides of it.                        *)
THEOREM MonthShownAlways == Spec => [](part = "calendar" => Month!MonthShown)
<1>1. PartIInv => (part = "calendar" => Month!MonthShown)
  BY CalendarMonthShownFollows DEF PartIInv
<1> QED
  BY <1>1, PartsInvariant, PTL

(* The columns of a picker and the input they fill follow each other. *)
THEOREM FieldFollowsAlways == Spec => [](part = "picker" => Pick!FieldFollows)
<1>1. PartIInv => (part = "picker" => Pick!FieldFollows)
  BY PickerFieldFollows DEF PartIInv
<1> QED
  BY <1>1, PartsInvariant, PTL

(* A page that is built again shows the form as it was stored, but for the *)
(* texts that were empty, and no choice is missing that was made.          *)
THEOREM FormKeptAlways == Spec => [](part = "forms" => Form!FormKept)
<1>1. PartIInv => (part = "forms" => Form!FormKept)
  BY DocumentPartsAssumption, FormsFormKeptFollows DEF PartIInv
<1> QED
  BY <1>1, PartsInvariant, PTL

(* At rest a list that is searched shows the rows that match the input. *)
THEOREM ListMatchesAlways == Spec => [](part = "searchbar" => Bar!ListMatches)
<1>1. PartIInv => (part = "searchbar" => Bar!ListMatches)
  BY SearchListFollows DEF PartIInv
<1> QED
  BY <1>1, PartsInvariant, PTL

(* The orders of a tab are shown without a gap, for any number of calls on *)
(* the way and in whatever order they are answered.                        *)
THEOREM ListCompleteAlways == Spec => [](part = "orderList" => Order!ListComplete)
<1>1. PartIInv => (part = "orderList" => Order!ListComplete)
  BY OrdersCompleteFollows DEF PartIInv
<1> QED
  BY <1>1, PartsInvariant, PTL

(* What is marked as a refresh is one, and a mark goes when it is done. *)
THEOREM PullSettlesAlways == Spec => [](part = "pull" => Pull!PullSettles)
<1>1. PartIInv => (part = "pull" => Pull!PullSettles)
  BY PullsSettlesFollows DEF PartIInv
<1> QED
  BY <1>1, PartsInvariant, PTL

(* A list shows what it has and what it asked for: rows, orders, refreshes and *)
(* images, through any series of the modelled operations, answers and scrolls,  *)
(* as far as each of the four properties says (a virtual list in which a row    *)
(* has been moved up, and an order list that took another tab's answer, are     *)
(* excepted; items replaced during a search and three or more deleted at once   *)
(* are not modelled).                                                           *)
THEOREM ListsCompleteAlways == Spec => []ListsComplete
<1>1. PartIInv => ListsComplete
  BY PagePartsAssumption, ListsRightRowsFollows, OrdersCompleteFollows, PullsSettlesFollows, ImagesNoneLeftFollows DEF PartIInv, ListsComplete
<1> QED
  BY <1>1, PartsInvariant, PTL

(* The rows of a virtual list, and those in its cache, are those of the items *)
(* at their indices, after any series of the modelled calls, unless a row has *)
(* been moved up.  Two uses of the list's calls are not modelled, and break   *)
(* it: replaceItem while filtered, and deleteItems of three indices or more.  *)
THEOREM RightRowsAlways == Spec => [](part = "virtualList" => List!RightRows)
<1>1. PartIInv => (part = "virtualList" => List!RightRows)
  BY PagePartsAssumption, ListsRightRowsFollows DEF PartIInv
<1> QED
  BY <1>1, PartsInvariant, PTL

(* No image that was in sight is left over, and in sequence one loads at a time. *)
THEOREM NoneLeftOverAlways == Spec => [](part = "images" => Lazy!NoneLeftOver)
<1>1. PartIInv => (part = "images" => Lazy!NoneLeftOver)
  BY PagePartsAssumption, ImagesNoneLeftFollows DEF PartIInv
<1> QED
  BY <1>1, PartsInvariant, PTL

(* No page of a view is lost, and whenever a page change is allowed the url, *)
(* the page on the screen, the view's history and the browser's agree, for   *)
(* any pages and links without a cycle and however fast the taps, the swipes *)
(* and the back keys follow each other.                                      *)
THEOREM PagesAgreeAlways == Spec => []PagesAgree
<1>1. PartIInv => PagesAgree
  BY PagePartsAssumption, RouterAgreeFollows DEF PartIInv, PagesAgree
<1> QED
  BY <1>1, PartsInvariant, PTL
=============================================================================
