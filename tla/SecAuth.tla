------------------------------- MODULE SecAuth -------------------------------
(***************************************************************************)
(* Secondary authentication end to end: UE, SMF, EAP relay and DN-AAA over *)
(* the N1 path, the relay side-channel and RADIUS, with the timeouts and   *)
(* losses the code provides for (or fails to).                             *)
(***************************************************************************)
EXTENDS UeNasSm, SmfSecAuth, UpfEapRelay, RlmEapEdhoc, FiniteSets

CONSTANT MaxFaults      \* bound: timeouts, losses and expiries

ASSUME FaultsAssumption == MaxFaults \in Nat

VARIABLE faults         \* how many there have been

vars == <<ueVars, smfVars, relayVars, aaaVars,
          n1Vars, relayLinkVars, radiusVars, faults>>

Init ==
    /\ UeInit /\ SmfInit /\ RelayInit /\ AaaInit
    /\ N1Init /\ RelayLinkInit /\ RadiusInit
    /\ faults = 0

-----------------------------------------------------------------------------
(* Each part moves by itself; the links are what they share. *)
UeStep ==
    /\ UeNext
    /\ UNCHANGED <<smfVars, relayVars, aaaVars, relayLinkVars, radiusVars, faults>>

SmfStep ==
    /\ SmfNext
    /\ UNCHANGED <<ueVars, relayVars, aaaVars, radiusVars, faults>>

RelayStep ==
    /\ RelayNext
    /\ UNCHANGED <<ueVars, smfVars, aaaVars, n1Vars, faults>>

AaaStep ==
    /\ AaaNext
    /\ UNCHANGED <<ueVars, smfVars, relayVars, n1Vars, relayLinkVars, faults>>

(* The RAN, at any time. *)
RanStep ==
    /\ \E p \in Psis : SmfSetupResponse(p)
    /\ UNCHANGED <<ueVars, relayVars, aaaVars, radiusVars, faults>>

(* The SMF's two-second wait ends; a relay exchange it covers goes unheard. *)
SmfGivesUp ==
    /\ \E p \in Psis : SmfTimeout(p)
    /\ relayCur' = IF relayCur = "open" THEN "closed" ELSE relayCur
    /\ UNCHANGED <<ueVars, aaaVars, radiusVars>>

RelayGivesUp ==
    /\ RelayTimeout
    /\ UNCHANGED <<ueVars, smfVars, aaaVars, n1Vars>>

(* No answer can reach the SMF any more, or only the relay's own error. *)
SmfStarved ==
    /\ smfWait # NoPsi
    /\ relayRsp = NoRsp
    /\ NoneOpen(relayReq)
    /\ relayCur = "open" => RelayStarved

(* The timeouts nothing can avert. *)
TimeoutStep ==
    /\ (SmfStarved /\ SmfGivesUp) \/ (RelayStarved /\ RelayGivesUp)
    /\ UNCHANGED faults

(* A timeout that races its answer, a lost datagram or command, an expiry. *)
FaultStep ==
    /\ faults < MaxFaults
    /\ faults' = faults + 1
    /\ \/ ~SmfStarved /\ SmfGivesUp
       \/ ~RelayStarved /\ RelayGivesUp
       \/ LoseCommand /\ UNCHANGED <<ueVars, smfVars, relayVars, aaaVars, relayLinkVars, radiusVars>>
       \/ LoseRelayRequest /\ UNCHANGED <<ueVars, smfVars, relayVars, aaaVars, n1Vars, radiusVars>>
       \/ LoseAccessRequest /\ UNCHANGED <<ueVars, smfVars, relayVars, aaaVars, n1Vars, relayLinkVars>>
       \/ \E s \in Sids : Expire(s) /\ UNCHANGED <<ueVars, smfVars, relayVars, n1Vars, relayLinkVars>>

Next == UeStep \/ SmfStep \/ RelayStep \/ AaaStep \/ RanStep \/ TimeoutStep \/ FaultStep

(* Every process serves what is in front of it, and a socket wait ends. *)
Fairness ==
    /\ WF_vars(UeStep) /\ WF_vars(SmfStep) /\ WF_vars(RelayStep) /\ WF_vars(AaaStep)
    /\ WF_vars(TimeoutStep)

Spec == Init /\ [][Next]_vars /\ Fairness
-----------------------------------------------------------------------------
(* Types *)

Msgs == [type: MsgTypes, eph: Nat, sid: {0} \cup Sids] \cup {NoMsg, Junk}

Runs == [msg: Msgs, off: 0..MaxMsg, len: 0..MaxMsg]

Wires == [start: BOOLEAN, lenFlag: BOOLEAN, more: BOOLEAN, total: 0..MaxMsg, data: Runs]

Ins == [len: 0..MaxMsg, pos: 0..MaxMsg, data: Runs]

Outs == [msg: Msgs, len: 0..MaxMsg, pos: 0..MaxMsg]

Ctxs == [eph: Nat, sid: {0} \cup Sids, done: BOOLEAN]

Packets == [kind: {"identity"}, id: {1}] \cup [kind: {"edhoc"}, id: Nat, wire: Wires]

States == [sid: Sids, trip: Nat] \cup {NoState}

Requests == [state: States, eap: Packets, open: BOOLEAN]

Responses ==
    [result: {"challenge"}, state: States, eap: Packets]
      \cup [result: {"accept", "reject", "error"}, state: {NoState}] \cup {NoRsp}

(* No answer is not an answer. *)
ASSUME RspAssumption ==
    NoRsp \notin [result: {"challenge"}, state: States, eap: Packets]
                  \cup [result: {"accept", "reject", "error"}, state: {NoState}]

(* Every variable of the four parts and the three links keeps its type; in
   particular no buffer outgrows E4_MAX_MSG. *)
TypeOK ==
    /\ <<ueCreds, ueProvisioned>> \in BOOLEAN \X BOOLEAN
    /\ ueRound \in {-1, 1, 2, 3} /\ ueCtx \in Ctxs /\ ueIn \in Ins /\ ueOut \in Outs
    /\ ueEph \in Nat /\ ueKeys \subseteq Nat \X Sids /\ ueConfirmed \subseteq ueKeys
    /\ smf \in [Psis -> [inProgress: BOOLEAN, state: States, timer: BOOLEAN, starts: Nat]]
    /\ smfWait \in Psis \cup {NoPsi} /\ smfSetups \in 0..MaxSetups
    /\ relayCur \in {"idle", "open", "closed"}
    /\ aaa \in [Sids -> [status: {"none", "listed", "success", "failed", "expired"},
                         trip: Nat, id: Nat, mode: {0, 3, 4}, round: 0..2,
                         in: Ins, out: Outs, ctx: Ctxs]]
    /\ aaaNext \in 1..(MaxSids + 1)
    /\ nasDl \in Seq([kind: {"command"}, psi: Psis, eap: Packets]
                       \cup [kind: {"result"}, psi: Psis, verdict: {"accept", "reject", "error"}])
    /\ nasUl \in Seq([kind: {"complete"}, psi: Psis, eap: Packets]
                       \cup [kind: {"status"}, psi: Psis])
    /\ relayReq \in Seq(Requests) /\ relayRsp \in Responses
    /\ radiusReq \in Seq(Requests) /\ radiusRsp \in Responses
    /\ faults \in 0..MaxFaults

-----------------------------------------------------------------------------
(* Safety *)

(* The DN-AAA sends EAP-Success, with the MSK in the MPPE keys, only for a
   session whose key the UE holds and has seen confirmed by message_4; and a
   UE that has finished (round 3) shares its key with a DN-AAA session that
   has verified message_3.  The UE's one context is shared by all sessions and
   any empty wire counts as the final acknowledgement, so this depends on what
   the UE answers when sessions interleave. *)
KeyAgreement ==
    /\ \A s \in Sids : aaa[s].status = "success" => Msk(aaa[s].ctx) \in ueConfirmed
    /\ ueRound = 3 => \E s \in Sids : aaa[s].ctx.done /\ Msk(aaa[s].ctx) = Msk(ueCtx)

Commands(p) == {i \in DOMAIN nasDl : nasDl[i].kind = "command" /\ nasDl[i].psi = p}

Answers(p) == {i \in DOMAIN nasUl : nasUl[i].psi = p}

(* Whose turn it is in the authentication of session p. *)
Turns(p) ==
    Cardinality(Commands(p)) + Cardinality(Answers(p)) + (IF smfWait = p THEN 1 ELSE 0)

(* EAP is lock-step: an authentication in progress has at most one packet
   under way, and one that is over has none.  This is what makes it safe that
   smf_handle_secondary_auth_complete never looks at in_progress: no late or
   second Authentication Complete can reach a session that has ended. *)
OneTurn == \A p \in Psis : Turns(p) <= IF smf[p].inProgress THEN 1 ELSE 0

(* Stuck: in progress, and nobody's turn. *)
Stalled(p) == smf[p].inProgress /\ Turns(p) = 0

(* The State the SMF holds while the UE has the turn is the one the DN-AAA
   waits for, and so is the EAP identifier of the packet under way, unless the
   DN-AAA let the session expire: a timeout never leaves the SMF with the State
   of a round trip the DN-AAA has moved past. *)
StateIsCurrent ==
    \A p \in Psis :
        smf[p].inProgress /\ smfWait # p =>
            LET st == smf[p].state IN
            /\ st # NoState
            /\ aaa[st.sid].trip = st.trip
            /\ aaa[st.sid].status \in {"listed", "expired"}
            /\ \A i \in Commands(p) : nasDl[i].eap.id = aaa[st.sid].id
            /\ \A i \in Answers(p) :
                   nasUl[i].kind = "complete" => nasUl[i].eap.id = aaa[st.sid].id

(* DN-AAA sessions waiting for a packet that no SMF session will send. *)
Orphans ==
    {s \in Sids : /\ aaa[s].status = "listed"
                  /\ \A p \in Psis : smf[p].inProgress /\ smf[p].state # NoState
                                        => smf[p].state.sid # s}

(* Each of them is owed to a timeout or a loss, except the one the exchange
   under way may have just created: failures and rejects leave none behind. *)
OrphansArePaidFor ==
    Cardinality(Orphans) <= faults + IF smfWait = NoPsi THEN 0 ELSE 1

(* The EAP-Success the SMF is about to take for its session was granted to the
   DN-AAA session whose State it holds: the blocking exchanges of all sessions
   go through one relay, and the late answer to one that was given up is never
   read as the answer to the next. *)
VerdictIsOwn ==
    smfWait # NoPsi /\ relayRsp # NoRsp /\ relayRsp.result = "accept" =>
        /\ smf[smfWait].state # NoState
        /\ aaa[smf[smfWait].state.sid].status = "success"

(* No handshake comes near FreeRADIUS's limit on round trips. *)
TripsToSpare == \A s \in Sids : aaa[s].trip < MaxTrips

-----------------------------------------------------------------------------
(* What a step may never do *)

(* An authentication gets stuck in one of two ways only: the UE answered with a
   5GSM STATUS, which the SMF does not know, or the command was lost.  Relay
   and RADIUS timeouts, losses and expiries all end it instead. *)
StallCauses ==
    [][\A p \in Psis :
          ~Stalled(p) /\ Stalled(p)' =>
              \/ nasUl # << >> /\ Head(nasUl) = Status(p) /\ nasUl' = Tail(nasUl)
              \/ Waiting(nasDl, "command") /\ Head(nasDl).psi = p
                    /\ nasDl' = Tail(nasDl) /\ nasUl' = nasUl]_vars

-----------------------------------------------------------------------------
(* Liveness *)

(* The blocking exchange ends: the SMF's event loop always comes back. *)
ExchangeEnds == smfWait # NoPsi ~> smfWait = NoPsi

(* A failure at the DN-AAA (a rejected message, a broken fragment, too many
   trips) ends the authentication at the SMF as well. *)
FailureReported ==
    \A p \in Psis, s \in Sids :
        smf[p].inProgress /\ smf[p].state # NoState /\ smf[p].state.sid = s
            /\ aaa[s].status = "failed"
                ~> ~smf[p].inProgress

Auth ==
    INSTANCE AuthService WITH
        Keys <- (0..MaxSids) \X Sids,
        session <- [p \in Psis |-> IF Stalled(p) THEN "stuck"
                                   ELSE IF smf[p].inProgress THEN "running" ELSE "idle"],
        confirmed <- ueConfirmed,
        granted <- {Msk(aaa[s].ctx) : s \in {t \in Sids : aaa[t].status = "success"}}

(* UE, SMF, relay and DN-AAA with all their messages, timeouts and losses
   implement the authentication service: in particular no run of a session
   goes on for ever, whatever the rounds and retries it is made of. *)
ImplementsAuthService == Auth!Spec

(* With the credentials in place and nothing lost, a session that no other
   setup gets in the way of is authenticated: the DN-AAA grants access, the UE
   has finished. *)
Authenticates ==
    (\E p \in Psis : smf[p].timer) /\ ueCreds
        ~> \/ (\E s \in Sids : aaa[s].status = "success") /\ ueRound = 3
           \/ faults > 0 \/ smfSetups > 1

(* "reset for a possible retry": a session whose handshake the UE has reset
   with a 5GSM STATUS is tried again or ended. *)
RetryAfterReset ==
    \A p \in Psis :
        ueRound = -1 /\ (\E i \in DOMAIN nasUl : nasUl[i] = Status(p)) /\ ueCreds
            ~> ~smf[p].inProgress
=============================================================================
