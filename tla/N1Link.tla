------------------------------- MODULE N1Link -------------------------------
(***************************************************************************)
(* The N1 path between SMF and UE through AMF and gNB: the 5GSM messages   *)
(* under way, for all PDU sessions of the UE.  One NGAP association and    *)
(* one radio link carry them, so each direction keeps its order.           *)
(***************************************************************************)
EXTENDS Integers, Sequences, SequencesExt, Eap

CONSTANT Psis       \* the PDU sessions that need secondary authentication

VARIABLES
    nasDl,      \* commands and results towards the UE
    nasUl       \* completes and 5GSM statuses towards the SMF

n1Vars == <<nasDl, nasUl>>

N1Init == nasDl = << >> /\ nasUl = << >>

Command(p, eap) == [kind |-> "command", psi |-> p, eap |-> eap]

Result(p, verdict) == [kind |-> "result", psi |-> p, verdict |-> verdict]

Complete(p, eap) == [kind |-> "complete", psi |-> p, eap |-> eap]

Status(p) == [kind |-> "status", psi |-> p]

(* A message of the given kind is next in line. *)
Waiting(chan, kind) == chan # << >> /\ Head(chan).kind = kind

(* The AMF has no NG context for the UE any more (OGS_NOTFOUND): the command
   is gone, and the SMF does not act on the error. *)
LoseCommand ==
    /\ Waiting(nasDl, "command")
    /\ nasDl' = Tail(nasDl)
    /\ UNCHANGED nasUl
=============================================================================
