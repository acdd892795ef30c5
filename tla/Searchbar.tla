------------------------------ MODULE Searchbar ------------------------------
(***************************************************************************)
(* The search bar of framework7.js over a list.  What is typed is read and *)
(* searched for in a timer of its own, while the bar is cleared, switched  *)
(* off, or given a query by the program; the class of the bar, the         *)
(* overlay, the list and the two messages are changed by each of them.     *)
(*                                                                         *)
(* The device is not iOS: enable and disable do not wait.  A query is      *)
(* trimmed, and matches the rows that Found gives; a list that has the     *)
(* page search by itself (externalSearch) is left out, and so is Ignore.   *)
(***************************************************************************)
EXTENDS Naturals

CONSTANTS
    Query,      \* what is searched for
    NoQuery,    \* the empty query
    Never,      \* no query yet
    Entry,      \* the rows
    Found       \* the rows that match a query

SearchbarAssumption ==
    /\ NoQuery \notin Query /\ Never \notin Query \cup {NoQuery}
    /\ Found \in [Query -> SUBSET Entry]

VARIABLES b     \* the bar, its overlay, and the list

Matches(x) == IF x = NoQuery THEN Entry ELSE Found[x]

Init ==
    \E rows \in SUBSET Entry, virtual \in BOOLEAN :
        b = [rows     |-> rows,     \* the items of the list
             virtual  |-> virtual,  \* class virtual-list
             shown    |-> rows,     \* rows without class hidden-by-searchbar
             active   |-> FALSE,    \* s.active, class searchbar-active
             notEmpty |-> FALSE,    \* class searchbar-not-empty
             overlay  |-> FALSE,    \* class searchbar-overlay-active
             notFound |-> FALSE,    \* s.notFound is shown, and s.found not
             input    |-> NoQuery,
             previous |-> Never,    \* previousQuery
             timer    |-> FALSE,    \* handleInput has a timer
             astray   |-> FALSE,    \* history: rows came or went since the search
             again    |-> FALSE]    \* history: cancelled and not searched since

-----------------------------------------------------------------------------
(* enable: the overlay only if the bar was not active *)
Enable(s) == [s EXCEPT !.overlay = @ \/ ~s.active, !.active = TRUE]

(* handleInput, the listener of change and of the keys *)
HandleInput(s) == [s EXCEPT !.timer = TRUE]

(* disable *)
Disable(s) ==
    HandleInput([s EXCEPT !.input = NoQuery, !.active = FALSE, !.notEmpty = FALSE,
                          !.overlay = FALSE, !.again = @ \/ s.previous \in Query])

(* search: the list is filtered; a virtual one that is not searched in is *)
(* reset, and never without a find                                        *)
Filter(s, x) ==
    LET found == s.rows \cap Matches(x)
    IN  [s EXCEPT !.shown = found, !.astray = FALSE, !.again = FALSE,
                  !.notFound = found = {} /\ ~(s.virtual /\ x = NoQuery)]

(* search, by the timer (internal) or by the program *)
Search(s, x, internal) ==
    IF x = s.previous THEN s
    ELSE LET on == IF internal \/ s.active THEN s ELSE Enable(s)
             t == [on EXCEPT !.previous = x, !.input = x, !.notEmpty = (x # NoQuery),
                             !.overlay = IF on.active THEN x = NoQuery ELSE @]
         IN  Filter(t, x)

-----------------------------------------------------------------------------
(* The input gets the focus. *)
Focus == b' = Enable(b)

Type(x) == b.active /\ x # b.input /\ b' = HandleInput([b EXCEPT !.input = x])

(* searchbar-clear: change, then focus *)
Clear == b.active /\ b' = Enable(HandleInput([b EXCEPT !.input = NoQuery]))

(* The cancel button, or a tap on the overlay. *)
Cancel == b.active /\ b' = Disable(b)

(* ForgottenQuery is a mutant: the timer does not search. *)
ForgottenQuery == b.timer /\ b' = [b EXCEPT !.timer = FALSE]

(* handleInput, its timer; of several the first finds what the last would *)
Timer == b.timer /\ b' = [Search(b, b.input, TRUE) EXCEPT !.timer = FALSE]

(* s.search, by the program *)
SearchFor(x) == b' = Search(b, x, FALSE)

(* The program adds a row, as loaddata does, or takes one away; a virtual  *)
(* list shows a new row only if it is not filtered.  The row is not        *)
(* searched: a search of the same query returns early.                     *)
ChangeRows(x) ==
    LET filtered == b.virtual /\ b.previous \in Query
    IN  b' = [b EXCEPT !.rows = IF x \in @ THEN @ \ {x} ELSE @ \cup {x},
                       !.shown = IF x \in b.rows THEN @ \ {x}
                                 ELSE IF filtered THEN @ ELSE @ \cup {x},
                       !.astray = @ \/ b.previous # Never]

Next ==
    \/ Focus \/ Clear \/ Cancel \/ Timer
    \/ \E x \in Query \cup {NoQuery} : Type(x) \/ SearchFor(x)
    \/ \E x \in Entry : ChangeRows(x)

-----------------------------------------------------------------------------
(* Once the timers have run the list shows what matches the text of the     *)
(* input, whoever typed, cleared, cancelled or searched in between, the     *)
(* message says whether there is a find, and the overlay is over the list   *)
(* exactly while the bar is active and empty.  What comes or goes later is  *)
(* not searched, nor counted, until the query changes (astray); and a query *)
(* that is cancelled and typed again before the timer runs is not taken for *)
(* a new one, so that the bar looks as if it were empty (again).            *)
ListMatches ==
    ~b.timer =>
        /\ ~b.again => /\ b.notEmpty <=> b.input # NoQuery
                       /\ b.overlay <=> b.active /\ b.input = NoQuery
        /\ b.input # NoQuery => b.active
        /\ ~b.astray \/ b.input = NoQuery => b.shown = b.rows \cap Matches(b.input)
        /\ ~b.astray /\ b.previous # Never =>
               (b.notFound <=> b.shown = {} /\ ~(b.virtual /\ b.input = NoQuery))
=============================================================================
