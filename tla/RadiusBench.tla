----------------------------- MODULE RadiusBench -----------------------------
(***************************************************************************)
(* The benchmark peer (e2e_radius_bench.c) against FreeRADIUS: an EDHOC    *)
(* initiator that speaks RADIUS itself, one handshake after the other, and *)
(* resends a request until it has a reply.  It drops datagrams on purpose  *)
(* to emulate a lossy network, and takes whatever arrives in its socket    *)
(* for the reply to the request it sent last.                              *)
(***************************************************************************)
EXTENDS FreeRadius, FiniteSets

CONSTANTS
    Methods,            \* the methods to run: 4, or a classical one
    MaxHandshakes,      \* iters
    MaxRetx,            \* g_max_retx: resends of one request
    MaxDrops,           \* bound: datagrams dropped on purpose
    MaxFaults           \* bound: late replies, real losses, early cleanups

ASSUME BenchAssumption ==
    /\ Methods \subseteq 0..4
    /\ {MaxHandshakes, MaxRetx, MaxDrops, MaxFaults} \subseteq Nat

Handshakes == 1..MaxHandshakes

VARIABLES
    pc,         \* "idle", "send" or "recv"
    hs,         \* the handshake under way; it is also its socket and ephemeral key
    eng,        \* eng_t: method, step, in, out and context
    state,      \* the State of the last challenge
    eap,        \* the EAP response being sent
    key,        \* rad_id and authenticator of the request being sent
    tries,      \* sends of it so far
    result,     \* result[h]: how handshake h ended, and the context it left
    drops, faults

engVars == <<eng, state, eap, key>>

peerVars == <<pc, hs, engVars, tries, result, drops, faults>>

vars == <<peerVars, udpVars, serverVars>>

NewEngine(method, h) ==
    [method |-> method, step |-> 0, in |-> NoIn, out |-> NoOut,
     ctx |-> edhoc4_init_initiator(h)]

NoResult == [status |-> "none", ctx |-> NoCtx]

Init ==
    /\ ServerInit
    /\ pc = "idle" /\ hs = 0 /\ eng = NewEngine(4, 0)
    /\ state = NoState /\ eap = Identity(1) /\ key = 0 /\ tries = 0
    /\ result = [h \in Handshakes |-> NoResult]
    /\ drops = 0 /\ faults = 0

-----------------------------------------------------------------------------
(* run_handshake up to its first rad_exchange: a new engine and a new socket. *)
StartHandshake(method) ==
    /\ pc = "idle"
    /\ hs < MaxHandshakes /\ key < MaxRequests
    /\ hs' = hs + 1
    /\ eng' = NewEngine(method, hs + 1)
    /\ state' = NoState
    /\ eap' = Identity(1)
    /\ key' = key + 1
    /\ tries' = 0
    /\ pc' = "send"
    /\ UNCHANGED <<result, drops, faults, udpVars, serverVars>>

EndHandshake(status) ==
    /\ result' = [result EXCEPT ![hs] = [status |-> status, ctx |-> eng.ctx]]
    /\ pc' = "idle"
    /\ UNCHANGED <<hs, engVars, tries>>

(* rad_exchange *)
Send ==
    /\ pc = "send" /\ tries <= MaxRetx
    /\ udpIn' = Append(udpIn, Datagram(key, hs, state, eap))
    /\ pc' = "recv"
    /\ UNCHANGED <<hs, engVars, tries, result, drops, faults, udpOut, serverVars>>

(* drop_out: neither sent nor waited for. *)
DropOut ==
    /\ pc = "send" /\ tries <= MaxRetx
    /\ drops < MaxDrops
    /\ drops' = drops + 1
    /\ tries' = tries + 1
    /\ UNCHANGED <<pc, hs, engVars, result, faults, udpVars, serverVars>>

GiveUp ==
    /\ pc = "send" /\ tries > MaxRetx
    /\ EndHandshake("fail")
    /\ UNCHANGED <<drops, faults, udpVars, serverVars>>

(* A reply to the socket of an earlier handshake goes nowhere. *)
Unreachable ==
    /\ udpOut # << >> /\ (pc = "idle" \/ Head(udpOut).sock # hs)
    /\ udpOut' = Tail(udpOut)
    /\ UNCHANGED <<peerVars, udpIn, serverVars>>

Readable == pc = "recv" /\ udpOut # << >> /\ Head(udpOut).sock = hs

Retry == pc' = "send" /\ tries' = tries + 1

(* drop_in: read, and dropped. *)
DropIn ==
    /\ Readable
    /\ drops < MaxDrops
    /\ drops' = drops + 1
    /\ udpOut' = Tail(udpOut)
    /\ Retry
    /\ UNCHANGED <<hs, engVars, result, faults, udpIn, serverVars>>

(* Some reply is still to come. *)
Awaited ==
    \/ \E n \in DOMAIN udpOut : udpOut[n].sock = hs
    \/ \E n \in DOMAIN udpIn : udpIn[n].sock = hs
    \/ \E k \in Keys : /\ request[k].status \in {"queued", "running", "delayed"}
                       /\ request[k].packet.sock = hs

(* Mutant: the socket has no receive timeout. *)
TimeoutUnset == FALSE

(* Two seconds without a reply: the request is sent again, the reply may come yet. *)
Timeout ==
    /\ pc = "recv" /\ ~Readable
    /\ Retry
    /\ UNCHANGED <<hs, engVars, result, drops, udpVars, serverVars>>

-----------------------------------------------------------------------------
(* eng_react *)

Reaction(status, wire, engine) == [status |-> status, wire |-> wire, eng |-> engine]

Wrong(e) == Reaction("error", Ack, e)

(* eng_queue_outgoing *)
Emit(e, m, len) ==
    Reaction("ok", QueueWire(m, len), [e EXCEPT !.out = QueueOut(m, len)])

(* message_1, whatever the challenge carried. *)
ReactStart(e) ==
    IF e.method = 4
    THEN Emit([e EXCEPT !.step = 1], EdhocMsg("msg1", e.ctx.eph, 0), Msg1Len)
    ELSE Emit([e EXCEPT !.step = 1], EdhocMsg("classic1", e.ctx.eph, 0), Classic1Len)

ReactMsg2(e, data) ==
    IF e.method = 4
    THEN LET ctx == edhoc4_i_handle_msg2(e.ctx, data)
         IN  IF edhoc4_i_handle_msg2_ok(e.ctx, data)
             THEN Emit([e EXCEPT !.step = 2, !.ctx = ctx],
                       EdhocMsg("msg3", ctx.eph, ctx.sid), Msg3Len)
             ELSE Wrong(e)
    ELSE LET ctx == edhoc03_i_handle_msg2(e.ctx, data)
         IN  IF edhoc03_i_handle_msg2_ok(e.ctx, data)
             THEN Emit([e EXCEPT !.step = 2, !.ctx = ctx],
                       EdhocMsg("classic3", ctx.eph, ctx.sid), Classic3Len)
             ELSE Wrong(e)

(* message_4; a classical engine has no context of method 4 and fails. *)
ReactMsg4(e, data) ==
    IF e.method = 4 /\ edhoc4_i_handle_msg4_ok(e.ctx, data)
    THEN Reaction("ok", Ack, [e EXCEPT !.step = 3, !.ctx = edhoc4_i_handle_msg4(e.ctx)])
    ELSE Wrong(e)

eng_react(e, wire) ==
    LET r  == ParseEdhocWire(e.in, wire)
        e1 == [e EXCEPT !.in = r.in]
    IN  IF Pending(e.out)
        THEN Reaction("ok", EncodeEdhocFragment(e.out), [e EXCEPT !.out = AaaAdvance(e.out)])
        ELSE CASE r.status = "error" -> Wrong(e1)
               [] r.status = "ack"   -> Reaction("ok", Ack, e1)
               [] r.status = "msg"   ->
                      CASE e.step = 0 -> ReactStart(e1)
                        [] e.step = 1 -> ReactMsg2(e1, r.msg)
                        [] e.step = 2 -> ReactMsg4(e1, r.msg)
                        [] OTHER      -> Wrong(e1)

-----------------------------------------------------------------------------
(* The rest of the loop of run_handshake, on the reply read. *)
Read ==
    /\ Readable
    /\ udpOut' = Tail(udpOut)
    /\ UNCHANGED <<drops, faults, udpIn, serverVars>>

ReadVerdict ==
    /\ Read
    /\ Head(udpOut).rsp.result \in {"accept", "reject"}
    /\ EndHandshake(IF Head(udpOut).rsp.result = "accept" THEN "pass" ELSE "fail")

Reacted == eng_react(eng, Head(udpOut).rsp.eap.wire)

(* The next request, under the State and the EAP identifier just read. *)
ReadChallenge ==
    /\ Read
    /\ Head(udpOut).rsp.result = "challenge"
    /\ Reacted.status = "ok"
    /\ key < MaxRequests
    /\ state' = Head(udpOut).rsp.state
    /\ eng' = Reacted.eng
    /\ eap' = EdhocPacket(Head(udpOut).rsp.eap.id, Reacted.wire)
    /\ key' = key + 1
    /\ tries' = 0
    /\ pc' = "send"
    /\ UNCHANGED <<hs, result>>

ReadBadChallenge ==
    /\ Read
    /\ Head(udpOut).rsp.result = "challenge"
    /\ Reacted.status = "error"
    /\ EndHandshake("fail")

-----------------------------------------------------------------------------
PeerStep ==
    \/ \E method \in Methods : StartHandshake(method)
    \/ Send \/ GiveUp \/ Unreachable
    \/ ReadVerdict \/ ReadChallenge \/ ReadBadChallenge
    \/ ~Awaited /\ Timeout /\ UNCHANGED faults

ServerStep == ServerNext /\ UNCHANGED peerVars

DropStep == DropOut \/ DropIn

LoseRequest ==
    /\ udpIn # << >>
    /\ udpIn' = Tail(udpIn)
    /\ UNCHANGED <<udpOut, serverVars, pc, hs, engVars, tries, result, drops>>

LoseReply ==
    /\ udpOut # << >>
    /\ udpOut' = Tail(udpOut)
    /\ UNCHANGED <<udpIn, serverVars, pc, hs, engVars, tries, result, drops>>

(* A reply later than the timeout, a real loss, a retransmission so late that
   the server has forgotten the request. *)
FaultStep ==
    /\ faults < MaxFaults
    /\ faults' = faults + 1
    /\ \/ Awaited /\ Timeout
       \/ LoseRequest \/ LoseReply
       \/ \E k \in Keys : k = key /\ Cleanup(k)
                            /\ UNCHANGED <<pc, hs, engVars, tries, result, drops>>

Next == PeerStep \/ ServerStep \/ DropStep \/ FaultStep

(* Peer and server go on; nothing has to be dropped or lost. *)
Fairness == WF_vars(PeerStep) /\ WF_vars(ServerStep)

Spec == Init /\ [][Next]_vars /\ Fairness

-----------------------------------------------------------------------------
Created == {s \in Sids : aaa[s].status # "none"}

(* A handshake the benchmark counts as passed is one both ends completed: the
   peer has verified the server, the server the peer, and they exported one
   key.  The peer matches no identifier and no authenticator, so the
   Access-Accept it reads might belong to anything in flight. *)
PassMeansKey ==
    \A h \in Handshakes :
        result[h].status = "pass" =>
            /\ result[h].ctx.done
            /\ \E s \in Sids : /\ aaa[s].status = "success" /\ aaa[s].ctx.done
                              /\ Msk(aaa[s].ctx) = Msk(result[h].ctx)

(* However often a request is resent, the server opens one session for each
   handshake, unless it has forgotten the request in between. *)
OneSessionPerHandshake == Cardinality(Created) <= hs + faults

(* With losses on purpose only, fewer than the resends allow, every handshake
   passes: each lost reply is had again from the server. *)
AllPass == \A h \in Handshakes : hs = h ~> result[h].status = "pass" \/ faults > 0

(* A late reply or a loss may fail a handshake but never hangs it. *)
HandshakesEnd == pc # "idle" ~> pc = "idle"
=============================================================================
