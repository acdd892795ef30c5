----------------------------- MODULE VirtualList -----------------------------
(***************************************************************************)
(* The virtual list of framework7.js: of a long list only the rows near    *)
(* the screen are in the page.  Rows are kept in a cache by the index of    *)
(* their item, so that every operation on the items has to renumber it,    *)
(* and a search puts a list of its own before the items.                   *)
(*                                                                         *)
(* Indices start at 0, as in the code.  Rows have one height and the list  *)
(* one column; heights and positions are counted in rows.                  *)
(***************************************************************************)
EXTENDS Integers, FiniteSets, Sequences

CONSTANTS
    Item,           \* the items
    NoItem,         \* no row in the cache
    RowsBefore,     \* rows that are rendered before the first on the screen
    RowsToRender    \* rows that are rendered in all

VirtualListAssumption ==
    /\ IsFiniteSet(Item) /\ NoItem \notin Item
    /\ RowsBefore \in Nat /\ RowsToRender \in Nat /\ RowsBefore < RowsToRender

MaxItems == Cardinality(Item)
Index == -1 .. MaxItems

VARIABLES v     \* the list

NoRows == [i \in Index |-> NoItem]

Within(q) == {q[n] : n \in DOMAIN q}
Distinct(q) == \A m, n \in DOMAIN q : q[m] = q[n] => m = n
Lists == {q \in UNION {[1 .. n -> Item] : n \in 0 .. MaxItems} : Distinct(q)}

At(q, i) == q[i + 1]
IndexOf(q, x) == IF x \in Within(q) THEN (CHOOSE n \in DOMAIN q : q[n] = x) - 1 ELSE -1
Splice(q, i) == [n \in 1 .. Len(q) - 1 |-> IF n <= i THEN q[n] ELSE q[n + 1]]
Insert(q, i, x) ==
    [n \in 1 .. Len(q) + 1 |-> IF n <= i THEN q[n] ELSE IF n = i + 1 THEN x ELSE q[n - 1]]
Without(q, x) == IF x \in Within(q) THEN Splice(q, IndexOf(q, x)) ELSE q
New(s) == Item \ Within(s.items)

-----------------------------------------------------------------------------
Listed(s) == IF s.searching THEN s.filtered ELSE s.items

(* render: a row of the cache is taken for the index of the item *)
RowOf(s, x) ==
    LET i == IndexOf(s.items, x)
    IN  [index |-> i, shows |-> IF s.cache[i] # NoItem THEN s.cache[i] ELSE x]

Render(s) ==
    LET list == Listed(s)
        from == IF s.top < RowsBefore THEN 0 ELSE s.top - RowsBefore
        to == IF from + RowsToRender < Len(list) THEN from + RowsToRender ELSE Len(list)
        rows == [n \in 1 .. to - from |-> RowOf(s, list[from + n])]
    IN  [s EXCEPT !.from = from, !.rows = rows,
                  !.cache = [i \in Index |->
                      IF \E r \in Within(rows) : r.index = i
                      THEN (CHOOSE r \in Within(rows) : r.index = i).shows ELSE @[i]]]

(* update: setListSize; the browser keeps the scroll position in the list *)
Update(s) ==
    LET rows == Len(Listed(s))
    IN  Render([s EXCEPT !.top = IF @ < rows THEN @ ELSE IF rows = 0 THEN 0 ELSE rows - 1])

Init == v = Update([items |-> <<>>, searching |-> FALSE, filtered |-> <<>>,
                    cache |-> NoRows, top |-> 0, from |-> 0, rows |-> <<>>,
                    astray |-> FALSE])  \* a row has been moved up, see RightRows

Scroll(y) == y \in 0 .. Len(Listed(v)) - 1 /\ v' = Render([v EXCEPT !.top = y])

(* appendItems *)
AppendItem(x) == x \in New(v) /\ v' = Update([v EXCEPT !.items = Append(@, x)])

(* the rows from index i on are one further; those before leave the cache *)
ShiftFrom(cache, i) ==
    [j \in Index |-> IF j > i THEN cache[j - 1] ELSE NoItem]

PrependItem(x) ==
    /\ x \in New(v)
    /\ v' = Update([v EXCEPT !.items = Insert(@, 0, x), !.cache = ShiftFrom(@, 0)])

(* insertItemBefore, between two items *)
InsertItemBefore(i, x) ==
    /\ x \in New(v) /\ i \in 1 .. Len(v.items) - 1
    /\ v' = Update([v EXCEPT !.items = Insert(@, i, x), !.cache = ShiftFrom(@, i)])

(* Not while a search is on: the code would look the old item up in            *)
(* filteredItems and render it under index -1.                                 *)
ReplaceItem(i, x) ==
    /\ x \in New(v) /\ i \in 0 .. Len(v.items) - 1 /\ ~v.searching
    /\ v' = Update([v EXCEPT !.items[i + 1] = x, !.cache[i] = NoItem])

ReplaceAllItems(q) ==
    /\ q # v.items
    /\ v' = Update([v EXCEPT !.items = q, !.searching = FALSE, !.filtered = <<>>,
                             !.cache = NoRows, !.astray = FALSE])

(* moveItem: how the cache is renumbered, later indices last *)
Moved(cache, old, new) ==
    LET left == IF old < new THEN old ELSE new
        right == IF old < new THEN new ELSE old
        shift == IF old < new THEN -1 ELSE 1
        goes(j) == IF j < left \/ j > right THEN j
                   ELSE IF j = left THEN right ELSE j + shift
        from(k) == {j \in 0 .. MaxItems : cache[j] # NoItem /\ goes(j) = k}
        last(S) == CHOOSE j \in S : \A i \in S : i <= j
    IN  [k \in Index |-> IF from(k) = {} THEN NoItem ELSE cache[last(from(k))]]

MoveItem(old, new) ==
    /\ {old, new} \subseteq 0 .. Len(v.items) - 1 /\ old # new
    /\ v' = Update([v EXCEPT !.items = Insert(Splice(@, old), new, At(@, old)),
                             !.cache = Moved(@, old, new),
                             !.astray = @ \/ old > new])

(* KeepRows is a mutant: the cache is not renumbered. *)
KeepRows(s, i) ==
    [s EXCEPT !.items = Splice(@, i),
              !.filtered = Without(@, At(s.items, i))]

(* deleteItems, one index *)
DeleteAt(s, i) ==
    [s EXCEPT !.items = Splice(@, i),
              !.filtered = Without(@, At(s.items, i)),
              !.cache = [j \in Index |-> IF j < i THEN @[j]
                                         ELSE IF j < MaxItems THEN @[j + 1] ELSE NoItem]]

(* deleteItems, two indices: the second is shifted if it is the larger.  (Of *)
(* three or more that are not sorted the code shifts too many: not modelled.) *)
DeleteTwo(s, i, j) == DeleteAt(DeleteAt(s, i), IF j > i THEN j - 1 ELSE j)

DeleteItem(i) == i \in 0 .. Len(v.items) - 1 /\ v' = Update(DeleteAt(v, i))

DeleteItems(i, j) ==
    /\ {i, j} \subseteq 0 .. Len(v.items) - 1 /\ i # j
    /\ v' = Update(DeleteTwo(v, i, j))

Ascending(S) ==
    {f \in [1 .. Cardinality(S) -> S] : \A m, n \in DOMAIN f : m < n => f[m] < f[n]}

(* filterItems, from the search bar: the indices it found, in their order *)
FilterItems(found) ==
    /\ found \subseteq 0 .. Len(v.items) - 1
    /\ \E f \in Ascending(found) :
           v' = Update([v EXCEPT !.searching = TRUE, !.top = 0,
                                !.filtered = [n \in DOMAIN f |-> At(v.items, f[n])]])

ResetFilter ==
    /\ v.searching
    /\ v' = Update([v EXCEPT !.searching = FALSE, !.filtered = <<>>])

ClearCache == v.cache # NoRows /\ v' = [v EXCEPT !.cache = NoRows]

Next ==
    \/ \E x \in Item : AppendItem(x) \/ PrependItem(x)
    \/ \E i \in 0 .. MaxItems, x \in Item : InsertItemBefore(i, x) \/ ReplaceItem(i, x)
    \/ \E q \in Lists : ReplaceAllItems(q)
    \/ \E i, j \in 0 .. MaxItems : MoveItem(i, j) \/ DeleteItems(i, j)
    \/ \E i \in 0 .. MaxItems : Scroll(i) \/ DeleteItem(i)
    \/ \E found \in SUBSET (0 .. MaxItems) : FilterItems(found)
    \/ ResetFilter \/ ClearCache

-----------------------------------------------------------------------------
(* The rows in the page, and those in the cache that will be, show the item  *)
(* that is at their place, and carry the index under which swipeoutDelete    *)
(* and sorting find it: the cache has been renumbered with the items by each *)
(* of a series of the operations above, of which ReplaceItem and DeleteItems *)
(* are narrower than the code's.  A row that has been moved up may leave a   *)
(* stale one behind (moveItem renumbers the cache as if it moved down).      *)
RightRows ==
    ~v.astray =>
        /\ \A n \in DOMAIN v.rows :
              LET r == v.rows[n] IN
              /\ r.shows = Listed(v)[v.from + n]
              /\ At(v.items, r.index) = r.shows
        /\ \A i \in Index : v.cache[i] # NoItem =>
              i \in 0 .. Len(v.items) - 1 /\ v.cache[i] = At(v.items, i)
        /\ Listed(v) # <<>> => \E n \in DOMAIN v.rows : v.from + n = v.top + 1
=============================================================================
