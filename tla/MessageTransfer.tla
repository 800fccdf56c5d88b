--------------------------- MODULE MessageTransfer ---------------------------
(***************************************************************************)
(* What the EAP-EDHOC wrapper promises the two EDHOC ends: a message of    *)
(* any length the buffers hold comes across in pieces, in order, each one  *)
(* new, and is handed on whole with the last of them and not before.       *)
(***************************************************************************)
EXTENDS Integers

CONSTANT MaxMsg         \* longest message

VARIABLES
    len,        \* length of the message
    pos,        \* how much of it has come across
    delivered   \* the whole message has been handed on

vars == <<len, pos, delivered>>

Init ==
    /\ len \in 1..MaxMsg
    /\ pos = 0
    /\ delivered = FALSE

(* Another piece, never an empty one. *)
Piece ==
    /\ pos' \in (pos + 1)..len
    /\ delivered' = (pos' = len)
    /\ UNCHANGED len

Spec == Init /\ [][Piece]_vars /\ WF_vars(Piece)
=============================================================================
