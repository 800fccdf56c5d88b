-------------------------------- MODULE Edhoc --------------------------------
(***************************************************************************)
(* EDHOC method 4 (edhoc4.c) and the classical methods 0 to 3 (edhoc03.c)  *)
(* as the protocol sees them: a message says which initiator ephemeral key *)
(* it answers and which responder session made it.  Decryption, MAC and    *)
(* signature of messages 2 to 4 succeed exactly on the whole, unaltered    *)
(* message of the run the context belongs to, because every key is derived *)
(* from both contributions through the transcript hashes TH2 to TH4:       *)
(* module EdhocKeys checks that on the key schedules themselves.           *)
(***************************************************************************)
EXTENDS EdhocFrag

CONSTANTS
    Msg1Len, Msg2Len, Msg3Len, Msg4Len,         \* bytes of each message
    Classic1Len, Classic2Len, Classic3Len       \* and of methods 0 to 3

(* edhoc4_i_make_msg1, edhoc4_r_handle_msg1 ... fail with E4_ERR_BUF on a
   message the buffers of E4_MAX_MSG bytes cannot hold. *)
ASSUME MsgLenAssumption ==
    {Msg1Len, Msg2Len, Msg3Len, Msg4Len, Classic1Len, Classic2Len, Classic3Len}
        \subseteq 1..MaxMsg

MsgTypes == {"msg1", "msg2", "msg3", "msg4", "classic1", "classic2", "classic3"}

MsgLen(t) == CASE t = "msg1" -> Msg1Len
               [] t = "msg2" -> Msg2Len
               [] t = "msg3" -> Msg3Len
               [] t = "msg4" -> Msg4Len
               [] t = "classic1" -> Classic1Len
               [] t = "classic2" -> Classic2Len
               [] t = "classic3" -> Classic3Len

(* Ephemeral keys and responder sessions are numbered from 1. *)
EdhocMsg(t, eph, sid) == [type |-> t, eph |-> eph, sid |-> sid]

Whole(data, t) ==
    /\ data.msg \notin {NoMsg, Junk}
    /\ data.msg.type = t
    /\ data.off = 0 /\ data.len = MsgLen(t)

-----------------------------------------------------------------------------
(* A context: the initiator's ephemeral key, the responder's session once
   known, and the done flag. *)
NoCtx == [eph |-> 0, sid |-> 0, done |-> FALSE]

edhoc4_init_initiator(eph) == [NoCtx EXCEPT !.eph = eph]

edhoc4_init_responder(sid) == [NoCtx EXCEPT !.sid = sid]

Ours(ctx, m) == m.eph = ctx.eph /\ m.sid = ctx.sid

(* derive_prk_out_and_msk: the exported key, fixed by both contributions. *)
Msk(ctx) == <<ctx.eph, ctx.sid>>

(* Each handler: when it returns E4_OK, and the context it leaves. *)
edhoc4_r_handle_msg1_ok(data) == Whole(data, "msg1")

edhoc4_r_handle_msg1(ctx, data) == [ctx EXCEPT !.eph = data.msg.eph]

edhoc4_i_handle_msg2_ok(ctx, data) == Whole(data, "msg2") /\ data.msg.eph = ctx.eph

(* The initiator has its keys here but is not done before message_4. *)
edhoc4_i_handle_msg2(ctx, data) == [ctx EXCEPT !.sid = data.msg.sid]

edhoc4_r_handle_msg3_ok(ctx, data) == Whole(data, "msg3") /\ Ours(ctx, data.msg)

edhoc4_r_handle_msg3(ctx) == [ctx EXCEPT !.done = TRUE]

edhoc4_i_handle_msg4_ok(ctx, data) == Whole(data, "msg4") /\ Ours(ctx, data.msg)

edhoc4_i_handle_msg4(ctx) == [ctx EXCEPT !.done = TRUE]

(* Methods 0 to 3: message_1 is not protected, message_2 completes the
   initiator, and message_3, with no message_4 to follow, the responder. *)
edhoc03_r_handle_msg1_ok(data) == Whole(data, "classic1")

edhoc03_r_handle_msg1(ctx, data) == [ctx EXCEPT !.eph = data.msg.eph]

edhoc03_i_handle_msg2_ok(ctx, data) == Whole(data, "classic2") /\ data.msg.eph = ctx.eph

edhoc03_i_handle_msg2(ctx, data) == [ctx EXCEPT !.sid = data.msg.sid, !.done = TRUE]

edhoc03_r_handle_msg3_ok(ctx, data) == Whole(data, "classic3") /\ Ours(ctx, data.msg)

edhoc03_r_handle_msg3(ctx) == [ctx EXCEPT !.done = TRUE]
=============================================================================
