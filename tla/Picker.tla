------------------------------- MODULE Picker -------------------------------
(***************************************************************************)
(* The picker of framework7.js on an input, with two columns of which the  *)
(* second depends on the first: onChange of the first column gives the     *)
(* second the values of what was picked, as the method replaceValues is    *)
(* there for.  The page of a picker is built anew each time it is opened,  *)
(* while the columns, params.cols, keep what they hold.                    *)
(*                                                                         *)
(* Rows of a column count from 1; 0 is undefined.  The places of a column  *)
(* that is dragged are counted in rows.  updateValuesOnMomentum is off.    *)
(***************************************************************************)
EXTENDS Naturals, FiniteSets, Sequences

CONSTANTS
    Group,      \* the values of the first column
    Rows,       \* the values of the second column for each of them
    Unlisted    \* a value that is in no column

PickerAssumption ==
    /\ IsFiniteSet(Group) /\ Group # {}
    /\ Rows \in Nat \ {0}
    /\ Unlisted \notin Group /\ Unlisted \notin Group \X (1 .. Rows)

VARIABLES k     \* the picker

Cols == {1, 2}
Groups == CHOOSE q \in [1 .. Cardinality(Group) -> Group] : \A x \in Group : \E n \in DOMAIN q : q[n] = x
Values(x) == [n \in 1 .. Rows |-> <<x, n>>]

(* what a program or params.value may ask for *)
Asked == (Group \cup {Unlisted}) \X ((Group \X (1 .. Rows)) \cup {Unlisted})

Col(values) ==
    [values |-> values,
     active |-> 0,      \* col.activeIndex
     lit    |-> 0,      \* the row with class picker-selected
     value  |-> {},     \* col.value, if defined
     ready  |-> FALSE]  \* initPickerCol has given it its methods

Init ==
    \E first \in {{}} \cup {{a} : a \in Asked} :
        k = [opened      |-> FALSE,
             initialized |-> FALSE,
             params      |-> first,     \* params.value
             cols        |-> <<Col(Groups), Col(Values(Groups[1]))>>,
             value       |-> {},        \* p.value, if defined
             field       |-> {},        \* the text of the input
             touched     |-> 0,         \* the column with isTouched
             moved       |-> FALSE]     \* its isMoved

-----------------------------------------------------------------------------
(* updateValue: not before every column has a value *)
UpdateValue(s) ==
    LET now == {<<a, b>> : a \in s.cols[1].value, b \in s.cols[2].value}
    IN  IF now = {} THEN s ELSE [s EXCEPT !.value = now, !.field = now]

(* updateItems without the callbacks *)
Light(s, i, row) == [s EXCEPT !.cols[i].active = row, !.cols[i].lit = row]

(* updateItems: the row is the active one, and its value that of the column *)
Take(s, i, row) == [Light(s, i, row) EXCEPT !.cols[i].value = {s.cols[i].values[row]}]

UpdateSecond(s, row) ==
    IF s.cols[2].active = row THEN Take(s, 2, row) ELSE UpdateValue(Take(s, 2, row))

(* onChange of the first column: replaceValues of the second *)
OnChange(s) ==
    IF ~s.cols[2].ready THEN s
    ELSE UpdateSecond([s EXCEPT !.cols[2].values = Values(CHOOSE x \in s.cols[1].value : TRUE)], 1)

(* EarlyUpdate is a mutant: the input is told before the second column is. *)
EarlyUpdate(s, row) ==
    IF s.cols[1].active = row THEN Take(s, 1, row) ELSE OnChange(UpdateValue(Take(s, 1, row)))

UpdateFirst(s, row) ==
    IF s.cols[1].active = row THEN Take(s, 1, row) ELSE UpdateValue(OnChange(Take(s, 1, row)))

UpdateItems(s, i, row) == IF i = 1 THEN UpdateFirst(s, row) ELSE UpdateSecond(s, row)

(* setValue of a column, with its row and without the callbacks *)
RowOf(s, i, x) == CHOOSE n \in DOMAIN s.cols[i].values : s.cols[i].values[n] = x
Has(s, i, x) == \E n \in DOMAIN s.cols[i].values : s.cols[i].values[n] = x
SetColumn(s, i, x) == IF Has(s, i, x) THEN UpdateItems(s, i, RowOf(s, i, x)) ELSE s
ShowColumn(s, i) ==
    LET x == CHOOSE y \in s.cols[i].value : TRUE
    IN  IF s.cols[i].value # {} /\ Has(s, i, x) THEN Light(s, i, RowOf(s, i, x)) ELSE s

(* setValue of the picker *)
SetBoth(s, a) == SetColumn(SetColumn(s, 1, a[1]), 2, a[2])

(* initPickerCol on the new page *)
InitPickerCol(s, i, updateItems) ==
    LET t == [s EXCEPT !.cols[i].lit = 0, !.cols[i].ready = TRUE]
    IN  IF updateItems THEN UpdateItems(t, i, 1) ELSE t

-----------------------------------------------------------------------------
Open ==
    /\ ~k.opened
    /\ LET told == IF k.initialized THEN k.value ELSE k.params
           t == InitPickerCol(InitPickerCol(k, 1, told = {}), 2, told = {})
           u == IF told = {} THEN t ELSE SetBoth(t, CHOOSE a \in told : TRUE)
       IN  k' = [u EXCEPT !.opened = TRUE, !.initialized = TRUE, !.touched = 0, !.moved = FALSE]

(* onPickerClose: the columns lose their events *)
Close == k.opened /\ k' = [k EXCEPT !.opened = FALSE, !.touched = 0, !.moved = FALSE]

(* p.setValue, by the program; the columns outlive the page *)
SetValue(a) == k.initialized /\ k' = SetBoth(k, a)

(* handleClick on a row *)
Click(i, row) == k.opened /\ k.touched = 0 /\ k' = UpdateItems(k, i, row)

TouchStart(i) == k.opened /\ k.touched = 0 /\ k' = [k EXCEPT !.touched = i]
TouchMove(row) ==
    /\ k.touched # 0 /\ row \in DOMAIN k.cols[k.touched].values
    /\ k' = [UpdateItems(k, k.touched, row) EXCEPT !.moved = TRUE]

(* handleTouchEnd: the row where the momentum takes it *)
TouchEnd ==
    /\ k.touched # 0
    /\ LET s == [k EXCEPT !.touched = 0, !.moved = FALSE]
       IN  IF ~k.moved THEN k' = s
           ELSE \E row \in DOMAIN k.cols[k.touched].values : k' = UpdateItems(s, k.touched, row)

(* resizeCols *)
Resize == k.opened /\ k' = ShowColumn(ShowColumn(k, 1), 2)

Next ==
    \/ Open \/ Close \/ Resize
    \/ \E a \in Asked : SetValue(a)
    \/ \E i \in Cols : TouchStart(i) \/ \E row \in DOMAIN k.cols[i].values : Click(i, row)
    \/ \E row \in 1 .. Len(Groups) + Rows : TouchMove(row)
    \/ TouchEnd

-----------------------------------------------------------------------------
(* In whatever order rows are dragged and clicked, the program sets values,  *)
(* the page is resized, and the picker closed and opened again: the text of  *)
(* the input is what the columns hold and show, and its second part belongs  *)
(* to its first.  A params.value with an unlisted part leaves its column     *)
(* without a value, and the input without a text until a row is picked.      *)
FieldFollows ==
    /\ k.field = k.value
    /\ \A a \in k.value :
           /\ \E n \in 1 .. Rows : a[2] = Values(a[1])[n]
           /\ \A i \in Cols : k.cols[i].value = {a[i]}
           /\ k.opened => \A i \in Cols :
                  k.cols[i].lit # 0 /\ k.cols[i].values[k.cols[i].lit] = a[i]
    /\ k.value = {} /\ k.initialized => \E i \in Cols : k.cols[i].value = {}
=============================================================================
