------------------------------ MODULE RadiusLink ------------------------------
(***************************************************************************)
(* RADIUS between the EAP relay and the DN-AAA: UDP, one fresh socket per  *)
(* exchange.  A request whose socket has been closed is still served; its  *)
(* answer reaches nobody.                                                  *)
(***************************************************************************)
EXTENDS Integers, Sequences, SequencesExt, Eap

CONSTANTS NoState, NoRsp        \* no State attribute; no answer yet

ASSUME StateAssumption == NoState \notin [sid: Nat, trip: Nat]

VARIABLES
    radiusReq,      \* Access-Requests the DN-AAA has not served yet
    radiusRsp       \* the answer in the open socket, or NoRsp

radiusVars == <<radiusReq, radiusRsp>>

RadiusInit == radiusReq = << >> /\ radiusRsp = NoRsp

AccessRequest(state, eap) == [state |-> state, eap |-> eap, open |-> TRUE]

(* The State attribute: which session, and at which of its round trips. *)
StateAttr(sid, trip) == [sid |-> sid, trip |-> trip]

AccessChallenge(state, eap) == [result |-> "challenge", state |-> state, eap |-> eap]

AccessAccept == [result |-> "accept", state |-> NoState]

AccessReject == [result |-> "reject", state |-> NoState]

Closed(queue) == [i \in DOMAIN queue |-> [queue[i] EXCEPT !.open = FALSE]]

NoneOpen(queue) == \A i \in DOMAIN queue : ~queue[i].open

(* A datagram to the DN-AAA is lost. *)
LoseAccessRequest ==
    /\ \E i \in DOMAIN radiusReq : radiusReq' = RemoveAt(radiusReq, i)
    /\ UNCHANGED radiusRsp
=============================================================================
