----------------------------- MODULE MCPageParts -----------------------------
(***************************************************************************)
(* The documents of the repository, as the overlays and the router see     *)
(* them: one more has every sheet of framework7.js; the inline pages are a *)
(* tree, with smart selects on some of them, with the browser's history or *)
(* without, with a handler for the back key or none (dsaord.html,          *)
(* dsaordhtml.html, newterminal.html).                                     *)
(***************************************************************************)
EXTENDS PageParts

CONSTANTS home, pageA, pageB, pageC

SomePapers == {
    \* dsaord.html
    [sheets |-> {"popover"}, asks |-> TRUE, bare |-> FALSE, menu |-> "closeFirst",
     endings |-> {"hide", "alertHide"}],
    \* dsaordhtml.html
    [sheets |-> {}, asks |-> TRUE, bare |-> TRUE, menu |-> "none",
     endings |-> {"hide", "hideAlert"}],
    \* index.html
    [sheets |-> {"popover"}, asks |-> FALSE, bare |-> FALSE, menu |-> "showFirst",
     endings |-> {"hide"}],
    [sheets |-> {"popover", "popup", "actions", "login", "picker"}, asks |-> FALSE,
     bare |-> FALSE, menu |-> "none", endings |-> {"hide"}]}

SomeDocuments ==
    {[pushState |-> FALSE, backKey |-> "router",
      links |-> {<<home, pageA>>, <<home, pageB>>}, selects |-> {home, pageA}],
     [pushState |-> TRUE, backKey |-> "router",
      links |-> {<<home, pageA>>, <<pageA, pageB>>, <<pageA, pageC>>, <<home, Missing>>},
      selects |-> {pageC}],
     [pushState |-> TRUE, backKey |-> "browser",
      links |-> {}, selects |-> {home}]}

(* Two queries that share a row, of which one finds more. *)
SomeFound == [q \in {"a", "ab"} |-> IF q = "a" THEN {"apple", "abbey"} ELSE {"abbey"}]
=============================================================================
