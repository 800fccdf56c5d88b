----------------------------- MODULE UpfEapRelay -----------------------------
(***************************************************************************)
(* The EAP relay thread of the UPF (eap-relay.c): one request at a time,   *)
(* one RADIUS exchange per request, no retransmission.                     *)
(***************************************************************************)
EXTENDS RelayLink

VARIABLE relayCur       \* "idle", or "open"/"closed": a RADIUS exchange is under
                        \* way for a requester that still waits or has given up

relayVars == <<relayCur>>

RelayInit == relayCur = "idle"

(* process_req up to the sendto of radius_exchange. *)
RelayRead ==
    /\ relayCur = "idle"
    /\ relayReq # << >>
    /\ relayReq' = Tail(relayReq)
    /\ relayCur' = IF Head(relayReq).open THEN "open" ELSE "closed"
    /\ radiusReq' = Append(radiusReq, AccessRequest(Head(relayReq).state, Head(relayReq).eap))
    /\ UNCHANGED <<relayRsp, radiusRsp>>

(* write_response and the sendto of relay_main. *)
RelayAnswer(rsp) ==
    /\ relayRsp' = IF relayCur = "open" THEN rsp ELSE relayRsp
    /\ relayCur' = "idle"
    /\ UNCHANGED relayReq

(* The answer is verified and parsed: result, State and EAP are passed on. *)
RelayForward ==
    /\ radiusRsp # NoRsp
    /\ RelayAnswer(radiusRsp)
    /\ radiusRsp' = NoRsp
    /\ UNCHANGED radiusReq

(* Two seconds without an answer: the socket is closed. *)
RelayTimeout ==
    /\ relayCur # "idle"
    /\ radiusRsp = NoRsp
    /\ RelayAnswer(RelayError)
    /\ radiusReq' = Closed(radiusReq)
    /\ UNCHANGED radiusRsp

(* No answer can come any more. *)
RelayStarved == relayCur # "idle" /\ radiusRsp = NoRsp /\ NoneOpen(radiusReq)

RelayNext == RelayRead \/ RelayForward
=============================================================================
