----------------------------- MODULE LazyImages -----------------------------
(***************************************************************************)
(* The images of class lazy on a page: those in sight are loaded, all at   *)
(* once or one after the other (imagesLazyLoadSequential), the others when *)
(* they are scrolled into sight.  An image that does not load counts as    *)
(* loaded.                                                                 *)
(***************************************************************************)
EXTENDS Naturals, FiniteSets, Sequences

CONSTANTS
    Image,      \* the images
    Bare        \* those without data-src and data-background

MaxLoads == 2   \* bounds the loads of one image under way

VARIABLES g     \* the images and their loader

LazyImagesAssumption == IsFiniteSet(Image) /\ Bare \subseteq Image

Init ==
    \E sequential \in BOOLEAN :
        g = [sequential |-> sequential,
             lazy    |-> Image,     \* class lazy
             loads   |-> [x \in Image |-> 0], \* new Image() without onload yet
             waiting |-> <<>>,      \* imagesSequence
             busy    |-> FALSE,     \* imageIsLoading
             asked   |-> {}]        \* history: lazyHandler has seen them

-----------------------------------------------------------------------------
Waiting(q) == {q[n] : n \in DOMAIN q}
Orders(S) == {q \in [1 .. Cardinality(S) -> S] : Waiting(q) = S}

(* loadImage *)
LoadImage(s, x) ==
    IF s.sequential /\ s.busy
    THEN [s EXCEPT !.waiting = IF x \in Waiting(@) THEN @ ELSE Append(@, x)]
    ELSE [s EXCEPT !.busy = TRUE, !.loads[x] = @ + 1]

(* lazyHandler, after a scroll, a resize, and when the page has come: the   *)
(* images in sight are loaded, in an order that the page may have; one      *)
(* without an address is left alone.  In sequence the first of them loads   *)
(* when none does, and the others wait.                                     *)
LazyHandler(sight) ==
    LET wanted == (sight \cap g.lazy) \ Bare
        now == IF ~g.sequential THEN {wanted}
               ELSE IF g.busy \/ wanted = {} THEN {{}}
               ELSE {{x} : x \in wanted}
    IN  /\ \A x \in sight : g.loads[x] < MaxLoads
        /\ \E first \in now :
               \E later \in Orders((wanted \ first) \ Waiting(g.waiting)) :
                   g' = [g EXCEPT !.busy = @ \/ first # {},
                                  !.loads = [x \in Image |-> IF x \in first THEN @[x] + 1 ELSE @[x]],
                                  !.waiting = @ \o later,
                                  !.asked = @ \cup sight]

(* ForgetNext is a mutant: the next image waits for the next scroll. *)
ForgetNext(s) == [s EXCEPT !.busy = FALSE]

(* onLoad: the next one of the sequence *)
LoadNext(s) ==
    IF ~s.sequential THEN s
    ELSE IF s.waiting = <<>> THEN [s EXCEPT !.busy = FALSE]
    ELSE LoadImage([s EXCEPT !.busy = FALSE, !.waiting = Tail(@)], Head(s.waiting))

OnLoad(x) ==
    /\ g.loads[x] > 0
    /\ g' = LoadNext([g EXCEPT !.loads[x] = @ - 1, !.lazy = @ \ {x}])

Next ==
    \/ \E sight \in SUBSET Image : LazyHandler(sight)
    \/ \E x \in Image : OnLoad(x)

-----------------------------------------------------------------------------
(* No image that was in sight is left over: it is loaded, is loading, or    *)
(* waits behind one that is; and in sequence only one loads at a time,      *)
(* although the one that loads may be queued once more.                     *)
NoneLeftOver ==
    /\ \A x \in g.asked \ Bare :
           x \in g.lazy => g.loads[x] > 0 \/ x \in Waiting(g.waiting)
    /\ g.waiting # <<>> => \E x \in Image : g.loads[x] > 0
    /\ g.sequential => /\ Cardinality({x \in Image : g.loads[x] > 0}) <= 1
                       /\ \A x \in Image : g.loads[x] <= 1
=============================================================================
