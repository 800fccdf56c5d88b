------------------------------ MODULE RelayLink ------------------------------
(***************************************************************************)
(* The UDP side-channel between the SMF and the EAP relay in the UPF.  The *)
(* SMF opens a socket per exchange; requests queue in the relay's one      *)
(* socket even when the SMF has given up on them.                          *)
(***************************************************************************)
EXTENDS RadiusLink

VARIABLES
    relayReq,       \* requests the relay has not read yet
    relayRsp        \* the answer in the SMF's open socket, or NoRsp

relayLinkVars == <<relayReq, relayRsp>>

RelayLinkInit == relayReq = << >> /\ relayRsp = NoRsp

RelayRequest(state, eap) == [state |-> state, eap |-> eap, open |-> TRUE]

RelayError == [result |-> "error", state |-> NoState]

(* A datagram to the relay is lost. *)
LoseRelayRequest ==
    /\ \E i \in DOMAIN relayReq : relayReq' = RemoveAt(relayReq, i)
    /\ UNCHANGED relayRsp
=============================================================================
