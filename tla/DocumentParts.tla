---------------------------- MODULE DocumentParts ----------------------------
(***************************************************************************)
(* The parts of a document that PageParts starts from: the modals and the  *)
(* start, what the finger taps, swipes, drags and pulls, the months of a   *)
(* calendar, and the fields and lists of the business documents.  A        *)
(* behaviour is one of one part.                                           *)
(***************************************************************************)
EXTENDS Naturals, Integers

CONSTANTS
    Papers, MaxModals,                  \* Overlays
    Plugin, Handler,                    \* Startup
    Nothing,                            \* Taps
    Row, None,                          \* Swipes
    MinMonth, MaxMonth, Today,          \* Calendar
    Text, Empty, Box, Choice,           \* Forms
    Tab, MaxRows, PerAnswer, MaxCalls,  \* OrderList
    MaxRunning,                         \* PullToRefresh
    Query, NoQuery, Never, Entry, Found \* Searchbar

VARIABLES
    part,   \* the part this behaviour is about
    w       \* its state

Overlay == INSTANCE Overlays WITH o <- w
Start == INSTANCE Startup WITH s <- w
Tap == INSTANCE Taps WITH t <- w
Swipe == INSTANCE Swipes WITH r <- w
Month == INSTANCE Calendar WITH c <- w
Panel == INSTANCE Panels WITH d <- w
Form == INSTANCE Forms WITH f <- w
Order == INSTANCE OrderList WITH l <- w
Pull == INSTANCE PullToRefresh WITH p <- w
Bar == INSTANCE Searchbar WITH b <- w

ASSUME DocumentPartsAssumption ==
    /\ Overlay!OverlaysAssumption
    /\ Start!StartupAssumption
    /\ Tap!TapsAssumption
    /\ Swipe!SwipesAssumption
    /\ Month!CalendarAssumption
    /\ Form!FormsAssumption
    /\ Order!OrderListAssumption
    /\ Bar!SearchbarAssumption
=============================================================================
