-------------------------------- MODULE Forms --------------------------------
(***************************************************************************)
(* A form of class store-data of framework7.js: what it holds is stored,   *)
(* in memory and in the local storage, on every change, and a page that is *)
(* built again is filled from there.  It may have a class that sends it as *)
(* well.  One text, one group of checkboxes and one of radio buttons stand *)
(* for all fields; an empty text and a group without a choice are not the  *)
(* same to formFromJSON as a group of boxes of which none is checked.      *)
(***************************************************************************)
EXTENDS Naturals

CONSTANTS
    Text,       \* texts that are not empty
    Empty,      \* the empty text
    Box,        \* checkboxes of one name; options of a multiple select alike
    Choice      \* radio buttons of one name

\* the empty text is no other value of a field
FormsAssumption ==
    Empty \notin Text /\ \A v \in (SUBSET Box) \cup (SUBSET Choice) : v # Empty

VARIABLES f     \* the form, what is stored, and what the server was sent

Values == [text : Text \cup {Empty}, boxes : SUBSET Box,
           choice : {{}} \cup {{c} : c \in Choice}]

Init ==
    \E default \in Values, ajax \in {"none", "submit", "change"} :
        f = [default |-> default,   \* what the page is delivered with
             ajax    |-> ajax,      \* class ajax-submit, ajax-submit-onchange
             page    |-> FALSE,     \* the page is in the DOM
             values  |-> default,
             memory  |-> {},        \* app.formsData, one form or none
             local   |-> {},        \* localStorage
             sent    |-> {},        \* the last that was sent
             kept    |-> {},        \* history: the form when it was last stored
             fresh   |-> FALSE]     \* history: built, and untouched since

-----------------------------------------------------------------------------
(* formToJSON: a group of radio buttons without a choice has no entry *)
FormToJSON(v) ==
    [name \in {"text", "boxes"} \cup {n \in {"choice"} : v[n] # {}} |-> v[name]]

(* formFromJSON passes over what is missing or empty, but not over [] *)
FormFromJSON(v, j) ==
    [name \in DOMAIN v |-> IF name \in DOMAIN j /\ j[name] # Empty THEN j[name] ELSE v[name]]

FormStoreData(s, j) == [s EXCEPT !.memory = {j}, !.local = {j}]

(* ForgetMemory is a mutant: the local storage keeps what was deleted. *)
ForgetMemory(s) == [s EXCEPT !.memory = {}]

FormDeleteData(s) == [s EXCEPT !.memory = {}, !.local = {}]

FormGetData(s) == IF s.local # {} THEN s.local ELSE s.memory

(* the listener of initFormsStorage on the form, on change and on submit *)
StoreForm(s) == [FormStoreData(s, FormToJSON(s.values)) EXCEPT !.kept = {s.values}, !.fresh = FALSE]

(* the listener on the document *)
AjaxSubmit(s, event) ==
    IF s.ajax = "none" \/ (event = "change" /\ s.ajax # "change") THEN s
    ELSE [s EXCEPT !.sent = {FormToJSON(s.values)}]

-----------------------------------------------------------------------------
(* initFormsStorage, when a page is built *)
InitFormsStorage ==
    /\ ~f.page
    /\ f' = [f EXCEPT !.page = TRUE, !.fresh = TRUE,
                      !.values = IF FormGetData(f) = {} THEN f.default
                                 ELSE FormFromJSON(f.default, CHOOSE j \in FormGetData(f) : TRUE)]

(* A text is typed; the event change comes when the field is left. *)
Type(t) == f.page /\ f' = [f EXCEPT !.values.text = t, !.fresh = FALSE]

(* A choice cannot be taken back. *)
Change(v) ==
    /\ f.page
    /\ v.choice = {} => f.values.choice = {}
    /\ f' = AjaxSubmit(StoreForm([f EXCEPT !.values = v]), "change")

Submit == f.page /\ f' = AjaxSubmit(StoreForm(f), "submit")

(* The document fills the form, as onAdd does; this is no event change. *)
Fill(j) == f.page /\ f' = [f EXCEPT !.values = FormFromJSON(f.values, j), !.fresh = FALSE]

Delete == f' = [FormDeleteData(f) EXCEPT !.kept = {}, !.fresh = FALSE]

(* pageBeforeRemove *)
PageBeforeRemove == f.page /\ f' = [f EXCEPT !.page = FALSE, !.fresh = FALSE]

(* The document is loaded again. *)
Reload == f' = [f EXCEPT !.page = FALSE, !.fresh = FALSE, !.memory = {}]

Next ==
    \/ InitFormsStorage \/ Submit \/ Delete \/ PageBeforeRemove \/ Reload
    \/ \E t \in Text \cup {Empty} : Type(t)
    \/ \E v \in Values : Change(v) \/ Fill(FormToJSON(v))

-----------------------------------------------------------------------------
(* A page that is built again, in the same document or a later one, shows   *)
(* the form as it was when it was last changed or sent, or as delivered if  *)
(* that was deleted; only a text that was emptied shows its default again.  *)
(* A form that is sent on every change was sent what is stored.             *)
FormKept ==
    LET was == IF f.kept = {} THEN f.default ELSE CHOOSE v \in f.kept : TRUE
    IN  /\ f.fresh =>
              f.values = [was EXCEPT !.text = IF @ = Empty THEN f.default.text ELSE @]
        /\ f.ajax = "change" /\ f.local # {} => f.sent = f.local
=============================================================================
