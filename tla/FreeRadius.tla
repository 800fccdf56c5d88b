----------------------------- MODULE FreeRadius -----------------------------
(***************************************************************************)
(* How FreeRADIUS receives Access-Requests from a client that retransmits  *)
(* (process.c).  Every request is kept under its source port, identifier   *)
(* and authenticator until cleanup_delay after its reply: a copy of it is  *)
(* ignored while there is no reply and answered with the same reply after  *)
(* that.  A worker runs the request through the EAP module; a reject is    *)
(* held back for reject_delay.                                             *)
(***************************************************************************)
EXTENDS RlmEapEdhoc

CONSTANTS
    MaxRequests,        \* bound: different Access-Requests of the client
    NoKey               \* no worker is running a request

Keys == 1..MaxRequests

ASSUME FreeRadiusAssumption == MaxRequests \in Nat /\ NoKey \notin Keys

VARIABLES
    udpIn,      \* datagrams for the server: [key, sock, state, eap]
    udpOut,     \* replies for the client: [key, sock, rsp]
    request,    \* request[k]: the REQUEST with key k and how far it is
    running     \* the request a worker runs

serverVars == <<request, running, aaaVars, radiusVars>>

udpVars == <<udpIn, udpOut>>

NoRequest == [status |-> "none", packet |-> NoKey, reply |-> NoRsp]

ServerInit ==
    /\ AaaInit /\ RadiusInit
    /\ udpIn = << >> /\ udpOut = << >>
    /\ request = [k \in Keys |-> NoRequest]
    /\ running = NoKey

Datagram(key, sock, state, eap) == [key |-> key, sock |-> sock, state |-> state, eap |-> eap]

Reply(packet, rsp) == [key |-> packet.key, sock |-> packet.sock, rsp |-> rsp]

-----------------------------------------------------------------------------
(* request_receive in the main thread: a new request is queued for a worker. *)
ReceiveNew ==
    /\ udpIn # << >>
    /\ LET d == Head(udpIn) IN
           /\ request[d.key].status \in {"none", "cleaned"}
           /\ request' = [request EXCEPT ![d.key] =
                             [status |-> "queued", packet |-> d, reply |-> NoRsp]]
    /\ udpIn' = Tail(udpIn)
    /\ UNCHANGED <<udpOut, running, aaaVars, radiusVars>>

(* Mutant: no list of live requests; every copy is processed. *)
ReceiveDupProcessed ==
    /\ udpIn # << >>
    /\ LET d == Head(udpIn) IN
           /\ request[d.key].status \notin {"none", "cleaned", "running"}
           /\ request' = [request EXCEPT ![d.key] =
                             [status |-> "queued", packet |-> d, reply |-> NoRsp]]
    /\ udpIn' = Tail(udpIn)
    /\ UNCHANGED <<udpOut, running, aaaVars, radiusVars>>

(* Mutant: copies are always ignored. *)
ReceiveDupIgnored ==
    /\ udpIn # << >>
    /\ request[Head(udpIn).key].status \notin {"none", "cleaned"}
    /\ udpIn' = Tail(udpIn)
    /\ UNCHANGED <<udpOut, request, running, aaaVars, radiusVars>>

(* FR_ACTION_DUP: request_dup, request_response_delay, request_cleanup_delay. *)
ReceiveDup ==
    /\ udpIn # << >>
    /\ LET r == request[Head(udpIn).key] IN
           /\ r.status \notin {"none", "cleaned"}
           /\ udpOut' = IF r.status = "replied" THEN Append(udpOut, Reply(r.packet, r.reply))
                                                ELSE udpOut
    /\ udpIn' = Tail(udpIn)
    /\ UNCHANGED <<request, running, aaaVars, radiusVars>>

(* A worker takes any queued request.  Workers are modelled one at a time: a
   session is taken out of the table under a lock, so of two requests with one
   State the second finds nothing, whether it waits or runs beside the first. *)
RunRequest(k) ==
    /\ running = NoKey
    /\ request[k].status = "queued"
    /\ request' = [request EXCEPT ![k].status = "running"]
    /\ running' = k
    /\ radiusReq' = <<AccessRequest(request[k].packet.state, request[k].packet.eap)>>
    /\ UNCHANGED <<udpVars, aaaVars, radiusRsp>>

(* request->handle: the EAP module. *)
HandleRequest ==
    /\ running # NoKey
    /\ AaaNext
    /\ UNCHANGED <<udpVars, request, running>>

(* request_finish: the reply is sent, or a reject held back. *)
request_finish ==
    /\ radiusRsp # NoRsp
    /\ LET delayed == radiusRsp.result = "reject" IN
           /\ request' = [request EXCEPT ![running].reply = radiusRsp,
                             ![running].status = IF delayed THEN "delayed" ELSE "replied"]
           /\ udpOut' = IF delayed THEN udpOut
                        ELSE Append(udpOut, Reply(request[running].packet, radiusRsp))
    /\ running' = NoKey
    /\ radiusRsp' = NoRsp
    /\ UNCHANGED <<udpIn, aaaVars, radiusReq>>

(* request_response_delay: reject_delay is over. *)
SendDelayed(k) ==
    /\ request[k].status = "delayed"
    /\ request' = [request EXCEPT ![k].status = "replied"]
    /\ udpOut' = Append(udpOut, Reply(request[k].packet, request[k].reply))
    /\ UNCHANGED <<udpIn, running, aaaVars, radiusVars>>

(* request_cleanup_delay: the request and its reply are forgotten. *)
Cleanup(k) ==
    /\ request[k].status = "replied"
    /\ request' = [request EXCEPT ![k] = [NoRequest EXCEPT !.status = "cleaned"]]
    /\ UNCHANGED <<udpVars, running, aaaVars, radiusVars>>

ServerNext ==
    \/ ReceiveNew \/ ReceiveDup
    \/ HandleRequest \/ request_finish
    \/ \E k \in Keys : RunRequest(k) \/ SendDelayed(k)
=============================================================================
