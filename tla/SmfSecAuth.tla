----------------------------- MODULE SmfSecAuth -----------------------------
(***************************************************************************)
(* Secondary authentication in the SMF (gsm-sm.c, radius-client.c): a PDU  *)
(* session resource set up on the RAN starts it after a short timer, and   *)
(* each EAP packet from the UE is exchanged with the relay for the next    *)
(* command or the result.  The exchange blocks the SMF's only event loop.  *)
(***************************************************************************)
EXTENDS N1Link, RelayLink

CONSTANTS
    NoPsi,          \* no session: the event loop is free
    MaxSetups       \* bound: PDU session resource setup responses

ASSUME SmfAssumption == NoPsi \notin Psis /\ MaxSetups \in Nat

VARIABLES
    smf,            \* smf[p]: sess->sec_auth, and its start events in the queue
    smfWait,        \* the session whose exchange blocks the event loop
    smfSetups       \* setup responses so far

smfVars == <<smf, smfWait, smfSetups>>

SmfInit ==
    /\ smf = [p \in Psis |-> [inProgress |-> FALSE, state |-> NoState,
                              timer |-> FALSE, starts |-> 0]]
    /\ smfWait = NoPsi
    /\ smfSetups = 0

-----------------------------------------------------------------------------
(* PDU_RES_SETUP_RSP: the RAN has set the session up, for the first time or
   again after it was idle. *)
SmfSetupResponse(p) ==
    /\ smfWait = NoPsi
    /\ smfSetups < MaxSetups
    /\ smfSetups' = smfSetups + 1
    /\ smf' = [smf EXCEPT ![p].timer = @ \/ ~smf[p].inProgress]
    /\ UNCHANGED <<smfWait, n1Vars, relayLinkVars>>

(* The timer runs out and queues an event; meanwhile others may be handled. *)
smf_timer_sec_auth_start(p) ==
    /\ smfWait = NoPsi
    /\ smf[p].timer
    /\ smf' = [smf EXCEPT ![p].timer = FALSE, ![p].starts = @ + 1]
    /\ UNCHANGED <<smfWait, smfSetups, n1Vars, relayLinkVars>>

(* smf_eap_relay_exchange up to its recvfrom. *)
Exchange(p, state, eap) ==
    /\ relayReq' = Append(relayReq, RelayRequest(state, eap))
    /\ smfWait' = p
    /\ UNCHANGED <<smfSetups, relayRsp>>

(* Mutant: in_progress is not looked at. *)
StartAnyway(p) ==
    /\ smfWait = NoPsi
    /\ smf[p].starts > 0
    /\ smf' = [smf EXCEPT ![p].starts = @ - 1, ![p].inProgress = TRUE, ![p].state = NoState]
    /\ Exchange(p, NoState, Identity(1))
    /\ UNCHANGED n1Vars

smf_start_secondary_auth(p) ==
    /\ smfWait = NoPsi
    /\ smf[p].starts > 0
    /\ ~smf[p].inProgress
    /\ smf' = [smf EXCEPT ![p].starts = @ - 1, ![p].inProgress = TRUE, ![p].state = NoState]
    /\ Exchange(p, NoState, Identity(1))
    /\ UNCHANGED n1Vars

SmfStartIgnored(p) ==
    /\ smfWait = NoPsi
    /\ smf[p].starts > 0
    /\ smf[p].inProgress
    /\ smf' = [smf EXCEPT ![p].starts = @ - 1]
    /\ UNCHANGED <<smfWait, smfSetups, n1Vars, relayLinkVars>>

(* The handler does not ask whether an authentication is in progress. *)
smf_handle_secondary_auth_complete(p) ==
    /\ smfWait = NoPsi
    /\ Waiting(nasUl, "complete") /\ Head(nasUl).psi = p
    /\ nasUl' = Tail(nasUl)
    /\ Exchange(p, smf[p].state, Head(nasUl).eap)
    /\ UNCHANGED <<smf, nasDl>>

(* A 5GSM STATUS is an unknown message: an error to the AMF, nothing else. *)
SmfUnknownMessage(p) ==
    /\ smfWait = NoPsi
    /\ Waiting(nasUl, "status") /\ Head(nasUl).psi = p
    /\ nasUl' = Tail(nasUl)
    /\ UNCHANGED <<smfVars, nasDl, relayLinkVars>>

-----------------------------------------------------------------------------
(* Mutant: in_progress is not cleared. *)
FinishInProgress(p, verdict) ==
    /\ smf' = [smf EXCEPT ![p].state = NoState]
    /\ nasDl' = Append(nasDl, Result(p, verdict))
    /\ smfWait' = NoPsi
    /\ UNCHANGED <<smfSetups, nasUl>>

(* The rest of smf_sec_auth_relay_and_deliver, once recvfrom returns. *)
SmfFinish(p, verdict) ==
    /\ smf' = [smf EXCEPT ![p].inProgress = FALSE, ![p].state = NoState]
    /\ nasDl' = Append(nasDl, Result(p, verdict))
    /\ smfWait' = NoPsi
    /\ UNCHANGED <<smfSetups, nasUl>>

(* Mutant: the State of the first challenge is kept. *)
ChallengeKeepsState(p) ==
    /\ smfWait = p
    /\ relayRsp # NoRsp
    /\ relayRsp.result = "challenge"
    /\ smf' = [smf EXCEPT ![p].state = IF @ = NoState THEN relayRsp.state ELSE @]
    /\ nasDl' = Append(nasDl, Command(p, relayRsp.eap))
    /\ smfWait' = NoPsi
    /\ relayRsp' = NoRsp
    /\ UNCHANGED <<smfSetups, nasUl, relayReq>>

SmfChallenge(p) ==
    /\ smfWait = p
    /\ relayRsp # NoRsp
    /\ relayRsp.result = "challenge"
    /\ smf' = [smf EXCEPT ![p].state = relayRsp.state]
    /\ nasDl' = Append(nasDl, Command(p, relayRsp.eap))
    /\ smfWait' = NoPsi
    /\ relayRsp' = NoRsp
    /\ UNCHANGED <<smfSetups, nasUl, relayReq>>

SmfVerdict(p) ==
    /\ smfWait = p
    /\ relayRsp # NoRsp
    /\ relayRsp.result \in {"accept", "reject", "error"}
    /\ SmfFinish(p, relayRsp.result)
    /\ relayRsp' = NoRsp
    /\ UNCHANGED relayReq

(* Mutant: no SO_RCVTIMEO, recvfrom waits for ever. *)
NoTimeout(p) == FALSE /\ UNCHANGED <<smfVars, n1Vars, relayLinkVars>>

(* Mutant: the exchanges share a socket, which a timeout leaves open. *)
TimeoutKeepsSocket(p) ==
    /\ smfWait = p
    /\ relayRsp = NoRsp
    /\ SmfFinish(p, "error")
    /\ UNCHANGED relayLinkVars

(* Two seconds without an answer: the socket is closed and the session fails. *)
SmfTimeout(p) ==
    /\ smfWait = p
    /\ relayRsp = NoRsp
    /\ SmfFinish(p, "error")
    /\ relayReq' = Closed(relayReq)
    /\ UNCHANGED relayRsp

SmfNext ==
    \E p \in Psis :
        \/ smf_timer_sec_auth_start(p)
        \/ smf_start_secondary_auth(p) \/ SmfStartIgnored(p)
        \/ smf_handle_secondary_auth_complete(p) \/ SmfUnknownMessage(p)
        \/ SmfChallenge(p) \/ SmfVerdict(p)
=============================================================================
