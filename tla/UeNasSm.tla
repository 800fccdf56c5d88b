------------------------------- MODULE UeNasSm -------------------------------
(***************************************************************************)
(* The UE's 5GSM layer (UERANSIM NasSm) as EDHOC initiator: what it does   *)
(* with each PDU Session Authentication Command and Result.  The EDHOC     *)
(* context, the round and both fragment buffers are members of NasSm: one  *)
(* of each per UE, shared by all its PDU sessions, and no message says     *)
(* which authentication they belong to.                                    *)
(***************************************************************************)
EXTENDS Edhoc, N1Link

VARIABLES
    ueCreds,        \* ue.creds and server.pub are readable
    ueProvisioned,  \* m_edhocProvisioned
    ueRound,        \* m_edhocRound: -1, 1, 2 or 3
    ueCtx,          \* m_edhocCtx
    ueIn,           \* m_edhocIn, m_edhocInLen, m_edhocInPos
    ueOut,          \* m_edhocOut, m_edhocOutLen, m_edhocOutPos
    ueEph,          \* ephemeral keys drawn so far
    ueKeys,         \* history: the keys the UE has derived
    ueConfirmed     \* history: those message_4 has confirmed

ueVars == <<ueCreds, ueProvisioned, ueRound, ueCtx, ueIn, ueOut, ueEph, ueKeys,
            ueConfirmed>>

UeInit ==
    /\ ueCreds \in BOOLEAN
    /\ ueProvisioned = FALSE
    /\ ueRound = -1
    /\ ueCtx = NoCtx
    /\ ueIn = NoIn
    /\ ueOut = NoOut
    /\ ueEph = 0
    /\ ueKeys = {}
    /\ ueConfirmed = {}

-----------------------------------------------------------------------------
ueWire == Head(nasDl).eap.wire

(* The Authentication Complete repeats the identifier of the command. *)
ueReply(wire) ==
    /\ nasDl' = Tail(nasDl)
    /\ nasUl' = Append(nasUl, Complete(Head(nasDl).psi, EdhocPacket(Head(nasDl).eap.id, wire)))

sendSmCause ==
    /\ nasDl' = Tail(nasDl)
    /\ nasUl' = Append(nasUl, Status(Head(nasDl).psi))

(* The credentials cannot be read: nothing but a 5GSM STATUS. *)
UeNotProvisioned ==
    /\ Waiting(nasDl, "command")
    /\ ~ueProvisioned /\ ~ueCreds
    /\ sendSmCause
    /\ UNCHANGED ueVars

(* ensureEdhocProvisioned has succeeded, now or before. *)
ensureEdhocProvisioned ==
    /\ Waiting(nasDl, "command")
    /\ ueProvisioned \/ ueCreds
    /\ ueProvisioned' = TRUE
    /\ UNCHANGED ueCreds

(* Bytes left to send: the command, whatever it holds, asks for the next ones. *)
UeContinueResponse ==
    /\ ensureEdhocProvisioned
    /\ Pending(ueOut)
    /\ ueReply(EncodeEdhocFragment(ueOut))
    /\ ueOut' = UeAdvance(ueOut)
    /\ UNCHANGED <<ueRound, ueCtx, ueIn, ueEph, ueKeys, ueConfirmed>>

UeInvalidStart ==
    /\ ensureEdhocProvisioned
    /\ ~Pending(ueOut)
    /\ ueRound < 0
    /\ ueWire # StartWire
    /\ sendSmCause
    /\ UNCHANGED <<ueRound, ueCtx, ueIn, ueOut, ueEph, ueKeys, ueConfirmed>>

UeStart ==
    LET m1 == NewOut(EdhocMsg("msg1", ueEph + 1, 0), Msg1Len)
    IN  /\ ensureEdhocProvisioned
        /\ ~Pending(ueOut)
        /\ ueRound < 0
        /\ ueWire = StartWire
        /\ ueEph' = ueEph + 1
        /\ ueCtx' = edhoc4_init_initiator(ueEph + 1)
        /\ ueRound' = 1
        /\ ueOut' = UeAdvance(m1)
        /\ ueReply(EncodeEdhocFragment(m1))
        /\ UNCHANGED <<ueIn, ueKeys, ueConfirmed>>

-----------------------------------------------------------------------------
ueParsed == ParseEdhocWire(ueIn, ueWire)

UeReceiving(status) ==
    /\ ensureEdhocProvisioned
    /\ ~Pending(ueOut)
    /\ ueRound > 0
    /\ ueParsed.status = status

(* The buffer keeps what it had: only a protocol error clears it. *)
UeParseError ==
    /\ UeReceiving("error")
    /\ ueIn' = ueParsed.in
    /\ sendSmCause
    /\ UNCHANGED <<ueRound, ueCtx, ueOut, ueEph, ueKeys, ueConfirmed>>

UeAckFragment ==
    /\ UeReceiving("ack")
    /\ ueIn' = ueParsed.in
    /\ ueReply(Ack)
    /\ UNCHANGED <<ueRound, ueCtx, ueOut, ueEph, ueKeys, ueConfirmed>>

(* Round 1: message_2 yields the keys and is answered with message_3. *)
UeHandleMsg2 ==
    LET ctx == edhoc4_i_handle_msg2(ueCtx, ueParsed.msg)
        m3  == NewOut(EdhocMsg("msg3", ctx.eph, ctx.sid), Msg3Len)
    IN  /\ UeReceiving("msg")
        /\ ueRound = 1
        /\ edhoc4_i_handle_msg2_ok(ueCtx, ueParsed.msg)
        /\ ueRound' = 2
        /\ ueCtx' = ctx
        /\ ueKeys' = ueKeys \cup {Msk(ctx)}
        /\ ueIn' = ueParsed.in
        /\ ueOut' = UeAdvance(m3)
        /\ ueReply(EncodeEdhocFragment(m3))
        /\ UNCHANGED <<ueEph, ueConfirmed>>

(* Mutant: the final acknowledgement is not sent. *)
UeHandleMsg4Silent ==
    /\ UeReceiving("msg")
    /\ ueRound = 2
    /\ edhoc4_i_handle_msg4_ok(ueCtx, ueParsed.msg)
    /\ ueRound' = 3
    /\ ueCtx' = edhoc4_i_handle_msg4(ueCtx)
    /\ ueConfirmed' = ueConfirmed \cup {Msk(ueCtx)}
    /\ ueIn' = ueParsed.in
    /\ nasDl' = Tail(nasDl)
    /\ UNCHANGED <<nasUl, ueOut, ueEph, ueKeys>>

(* Round 2: message_4 completes the handshake. *)
UeHandleMsg4 ==
    /\ UeReceiving("msg")
    /\ ueRound = 2
    /\ edhoc4_i_handle_msg4_ok(ueCtx, ueParsed.msg)
    /\ ueRound' = 3
    /\ ueCtx' = edhoc4_i_handle_msg4(ueCtx)
    /\ ueConfirmed' = ueConfirmed \cup {Msk(ueCtx)}
    /\ ueIn' = ueParsed.in
    /\ ueReply(Ack)
    /\ UNCHANGED <<ueOut, ueEph, ueKeys>>

(* Round 3 is never left: every further message is acknowledged. *)
UeAckWhenDone ==
    /\ UeReceiving("msg")
    /\ ueRound = 3
    /\ ueIn' = ueParsed.in
    /\ ueReply(Ack)
    /\ UNCHANGED <<ueRound, ueCtx, ueOut, ueEph, ueKeys, ueConfirmed>>

(* Mutant: reset to the DN-AAA's first round, which is none of the UE's. *)
ProtocolErrorToRoundZero ==
    /\ UeReceiving("msg")
    /\ \/ ueRound = 1 /\ ~edhoc4_i_handle_msg2_ok(ueCtx, ueParsed.msg)
       \/ ueRound = 2 /\ ~edhoc4_i_handle_msg4_ok(ueCtx, ueParsed.msg)
    /\ ueRound' = 0
    /\ ueIn' = NoIn
    /\ ueOut' = NoOut
    /\ sendSmCause
    /\ UNCHANGED <<ueCtx, ueEph, ueKeys, ueConfirmed>>

(* A message EDHOC does not accept: everything but the context is reset. *)
UeProtocolError ==
    /\ UeReceiving("msg")
    /\ \/ ueRound = 1 /\ ~edhoc4_i_handle_msg2_ok(ueCtx, ueParsed.msg)
       \/ ueRound = 2 /\ ~edhoc4_i_handle_msg4_ok(ueCtx, ueParsed.msg)
    /\ ueRound' = -1
    /\ ueIn' = NoIn
    /\ ueOut' = NoOut
    /\ sendSmCause
    /\ UNCHANGED <<ueCtx, ueEph, ueKeys, ueConfirmed>>

(* Mutant: a result readies the UE for another handshake. *)
ResultResets ==
    /\ Waiting(nasDl, "result")
    /\ nasDl' = Tail(nasDl)
    /\ ueRound' = -1 /\ ueIn' = NoIn /\ ueOut' = NoOut
    /\ UNCHANGED <<nasUl, ueCreds, ueProvisioned, ueCtx, ueEph, ueKeys, ueConfirmed>>

(* A result is logged; it neither ends nor resets the handshake. *)
receivePduSessionAuthenticationResult ==
    /\ Waiting(nasDl, "result")
    /\ nasDl' = Tail(nasDl)
    /\ UNCHANGED <<nasUl, ueVars>>

receivePduSessionAuthenticationCommand ==
    \/ UeNotProvisioned
    \/ UeContinueResponse
    \/ UeInvalidStart \/ UeStart
    \/ UeParseError \/ UeAckFragment
    \/ UeHandleMsg2 \/ UeHandleMsg4 \/ UeAckWhenDone
    \/ UeProtocolError

UeNext ==
    receivePduSessionAuthenticationCommand \/ receivePduSessionAuthenticationResult
=============================================================================
