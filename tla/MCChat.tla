------------------------------- MODULE MCChat -------------------------------
(***************************************************************************)
(* A chat for TLC: two texts that queue up, a text and a message of the     *)
(* friend, or a message with an attachment.                                *)
(***************************************************************************)
EXTENDS Chat

CONSTANTS t1, t2, f1, x1

SomeScenes == {{t1, t2}, {t1, x1}, {f1}}
=============================================================================
