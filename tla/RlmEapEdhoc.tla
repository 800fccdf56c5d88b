----------------------------- MODULE RlmEapEdhoc -----------------------------
(***************************************************************************)
(* The DN-AAA: the EAP-EDHOC module (rlm_eap_edhoc.c) inside FreeRADIUS's  *)
(* EAP session table.  FreeRADIUS takes the session out of its table when  *)
(* an Access-Request carries the State and EAP identifier of the session's *)
(* last challenge, runs mod_process, and puts it back with a new State if  *)
(* the answer is another EAP-Request; otherwise the session is gone.       *)
(***************************************************************************)
EXTENDS Edhoc, RadiusLink

CONSTANTS
    MaxSids,        \* bound: EAP sessions the DN-AAA may create
    MaxTrips,       \* FreeRADIUS aborts a session that has made this many trips
    HaveCreds03     \* have03: credentials for the classical methods are configured

ASSUME AaaAssumption ==
    MaxSids \in Nat \ {0} /\ MaxTrips \in Nat \ {0} /\ HaveCreds03 \in BOOLEAN

Sids == 1..MaxSids

VARIABLES aaa,      \* aaa[s]: the eap_handler_t and edhoc_session_t of session s
          aaaNext   \* the next session to create

aaaVars == <<aaa, aaaNext>>

(* status: "none" not created yet, "listed" in the table, else how it ended. *)
NoSession ==
    [status |-> "none", trip |-> 0, id |-> 0, mode |-> 0, round |-> 0,
     in |-> NoIn, out |-> NoOut, ctx |-> NoCtx]

AaaInit == aaa = [s \in Sids |-> NoSession] /\ aaaNext = 1

-----------------------------------------------------------------------------
(* The answer goes to the requester's socket, if that is still open. *)
Answer(i, rsp) ==
    /\ radiusReq' = RemoveAt(radiusReq, i)
    /\ radiusRsp' = IF radiusReq[i].open THEN rsp ELSE radiusRsp

(* Mutant: any State and identifier of the session will do. *)
MatchesAnyTrip(req, s) ==
    /\ req.state # NoState
    /\ req.state.sid = s
    /\ aaa[s].status = "listed"

(* eaplist_find: State and EAP identifier must be those of the last challenge. *)
Matches(req, s) ==
    /\ req.state # NoState
    /\ req.state.sid = s
    /\ aaa[s].status = "listed"
    /\ aaa[s].trip = req.state.trip
    /\ aaa[s].id = req.eap.id

(* Another EAP-Request: back into the table, one trip on, under a new State. *)
Challenge(i, s, sess, wire) ==
    LET trip == sess.trip + 1
        id   == sess.id + 1
    IN  /\ aaa' = [aaa EXCEPT ![s] = [sess EXCEPT !.trip = trip, !.id = id]]
        /\ Answer(i, AccessChallenge(StateAttr(s, trip), EdhocPacket(id, wire)))
        /\ UNCHANGED aaaNext

Conclude(i, s, sess, status, rsp) ==
    /\ aaa' = [aaa EXCEPT ![s] = [sess EXCEPT !.status = status]]
    /\ Answer(i, rsp)
    /\ UNCHANGED aaaNext

(* Mutant: the session of a failed method stays in the table. *)
FailKeepsListed(i, s, sess) == Conclude(i, s, sess, "listed", AccessReject)

Fail(i, s, sess) == Conclude(i, s, sess, "failed", AccessReject)

-----------------------------------------------------------------------------
(* mod_session_init: an identity opens a session, whatever State it carries. *)
mod_session_init(i) ==
    /\ radiusReq[i].eap.kind = "identity"
    /\ aaaNext \in Sids
    /\ aaa' = [aaa EXCEPT ![aaaNext] =
                  [NoSession EXCEPT !.status = "listed", !.id = radiusReq[i].eap.id + 1]]
    /\ aaaNext' = aaaNext + 1
    /\ Answer(i, AccessChallenge(StateAttr(aaaNext, 0),
                                 EdhocPacket(radiusReq[i].eap.id + 1, StartWire)))

(* A response no listed session is waiting for; a session it names stays put. *)
RejectUnknown(i) ==
    /\ radiusReq[i].eap.kind = "edhoc"
    /\ \A s \in Sids : ~Matches(radiusReq[i], s)
    /\ Answer(i, AccessReject)
    /\ UNCHANGED aaaVars

(* More than 50 round trips: the session is freed. *)
AbortTrips(i, s) ==
    /\ Matches(radiusReq[i], s)
    /\ aaa[s].trip >= MaxTrips
    /\ Fail(i, s, aaa[s])

(* mod_process is reached with session s and the request's wire. *)
Processing(i, s) == Matches(radiusReq[i], s) /\ aaa[s].trip < MaxTrips

(* Bytes left to send: whatever came is taken for an acknowledgement. *)
SendNextFragment(i, s) ==
    /\ Processing(i, s)
    /\ Pending(aaa[s].out)
    /\ Challenge(i, s, [aaa[s] EXCEPT !.out = AaaAdvance(aaa[s].out)],
                 EncodeEdhocFragment(aaa[s].out))

(* edhoc_consume_incoming: its verdict, and the session with its buffer. *)
Consumed(i, s) == ParseEdhocWire(aaa[s].in, radiusReq[i].eap.wire)

Receiving(i, s, status) ==
    /\ Processing(i, s)
    /\ ~Pending(aaa[s].out)
    /\ Consumed(i, s).status = status

After(i, s) == [aaa[s] EXCEPT !.in = Consumed(i, s).in]

Got(i, s) == Consumed(i, s).msg

FailParse(i, s) == Receiving(i, s, "error") /\ Fail(i, s, After(i, s))

AckFragment(i, s) == Receiving(i, s, "ack") /\ Challenge(i, s, After(i, s), Ack)

(* Round 0: message_1 decides the mode, 4 or (below) 3, and is answered with
   message_2. *)
ProcessMsg1(i, s) ==
    LET ctx == edhoc4_r_handle_msg1(edhoc4_init_responder(s), Got(i, s))
        m2  == EdhocMsg("msg2", ctx.eph, ctx.sid)
    IN  /\ Receiving(i, s, "msg")
        /\ aaa[s].round = 0
        /\ edhoc4_r_handle_msg1_ok(Got(i, s))
        /\ Challenge(i, s, [After(i, s) EXCEPT !.mode = 4, !.round = 1, !.ctx = ctx,
                                               !.out = QueueOut(m2, Msg2Len)],
                     QueueWire(m2, Msg2Len))

(* A message_1 of the length of a classical one chooses methods 0 to 3. *)
ProcessClassic1(i, s) ==
    LET ctx == edhoc03_r_handle_msg1(edhoc4_init_responder(s), Got(i, s))
        m2  == EdhocMsg("classic2", ctx.eph, ctx.sid)
    IN  /\ Receiving(i, s, "msg")
        /\ aaa[s].round = 0
        /\ HaveCreds03
        /\ edhoc03_r_handle_msg1_ok(Got(i, s))
        /\ Challenge(i, s, [After(i, s) EXCEPT !.mode = 3, !.round = 1, !.ctx = ctx,
                                               !.out = QueueOut(m2, Classic2Len)],
                     QueueWire(m2, Classic2Len))

(* Round 1: message_3 yields the keys and is answered with message_4. *)
ProcessMsg3(i, s) ==
    LET ctx == edhoc4_r_handle_msg3(aaa[s].ctx)
        m4  == EdhocMsg("msg4", ctx.eph, ctx.sid)
    IN  /\ Receiving(i, s, "msg")
        /\ aaa[s].round = 1 /\ aaa[s].mode = 4
        /\ edhoc4_r_handle_msg3_ok(aaa[s].ctx, Got(i, s))
        /\ Challenge(i, s, [After(i, s) EXCEPT !.round = 2, !.ctx = ctx,
                                               !.out = QueueOut(m4, Msg4Len)],
                     QueueWire(m4, Msg4Len))

(* The classical message_3 is answered with success at once. *)
SucceedClassic(i, s) ==
    /\ Receiving(i, s, "msg")
    /\ aaa[s].round = 1 /\ aaa[s].mode = 3
    /\ edhoc03_r_handle_msg3_ok(aaa[s].ctx, Got(i, s))
    /\ Conclude(i, s, [After(i, s) EXCEPT !.ctx = edhoc03_r_handle_msg3(aaa[s].ctx)],
                "success", AccessAccept)

(* Mutant: an empty message is taken for the final acknowledgement in any round. *)
SucceedInAnyRound(i, s) ==
    /\ Receiving(i, s, "msg")
    /\ Got(i, s).len = 0
    /\ Conclude(i, s, After(i, s), "success", AccessAccept)

(* Round 2: the empty acknowledgement of message_4 is answered with success. *)
Succeed(i, s) ==
    /\ Receiving(i, s, "msg")
    /\ aaa[s].round = 2
    /\ Got(i, s).len = 0
    /\ aaa[s].ctx.done
    /\ Conclude(i, s, After(i, s), "success", AccessAccept)

(* Any other message is a failure of the round it arrives in. *)
FailRound(i, s) ==
    /\ Receiving(i, s, "msg")
    /\ CASE aaa[s].round = 0 ->
                /\ ~edhoc4_r_handle_msg1_ok(Got(i, s))
                /\ ~(HaveCreds03 /\ edhoc03_r_handle_msg1_ok(Got(i, s)))
         [] aaa[s].round = 1 ->
                IF aaa[s].mode = 3 THEN ~edhoc03_r_handle_msg3_ok(aaa[s].ctx, Got(i, s))
                                   ELSE ~edhoc4_r_handle_msg3_ok(aaa[s].ctx, Got(i, s))
         [] aaa[s].round = 2 -> Got(i, s).len # 0 \/ ~aaa[s].ctx.done
    /\ Fail(i, s, After(i, s))

mod_process(i, s) ==
    \/ SendNextFragment(i, s)
    \/ FailParse(i, s) \/ AckFragment(i, s)
    \/ ProcessMsg1(i, s) \/ ProcessClassic1(i, s) \/ ProcessMsg3(i, s)
    \/ SucceedClassic(i, s) \/ Succeed(i, s) \/ FailRound(i, s)

(* eaplist_expire: a session nobody has answered for timer_expire seconds. *)
Expire(s) ==
    /\ aaa[s].status = "listed"
    /\ aaa' = [aaa EXCEPT ![s].status = "expired"]
    /\ UNCHANGED <<aaaNext, radiusVars>>

AaaNext ==
    \E i \in DOMAIN radiusReq :
        \/ mod_session_init(i)
        \/ RejectUnknown(i)
        \/ \E s \in Sids : AbortTrips(i, s) \/ mod_process(i, s)
=============================================================================
