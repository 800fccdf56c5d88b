---------------------------- MODULE FragTransfer ----------------------------
(***************************************************************************)
(* One EDHOC message crossing the fragmentation wrapper, for every length. *)
(* EAP is lock-step: the sender emits a wire, the receiver answers with an *)
(* empty acknowledgement, and only then does the next fragment follow.     *)
(* "up" is UE to DN-AAA, "down" is DN-AAA to UE; the two senders differ in *)
(* how they start and in what they keep when they are done.                *)
(***************************************************************************)
EXTENDS EdhocFrag

CONSTANT Msg        \* the message sent

ASSUME MsgAssumption == Msg # NoMsg /\ Msg # Junk

VARIABLES
    dir,        \* direction of the transfer
    len,        \* length of the message
    out,        \* what the sender still has to send
    wire,       \* the wire in flight, meaningful when phase = "wire"
    in,         \* the receiver's reassembly buffer
    phase,      \* "start", "wire", "ack", "done" or "error"
    got,        \* what the receiver handed on
    sent        \* number of wires emitted

vars == <<dir, len, out, wire, in, phase, got, sent>>

Dirs == {"up", "down"}

Init ==
    /\ dir \in Dirs
    /\ len \in 1..MaxMsg
    /\ out = NoOut
    /\ wire = Ack
    /\ in = NoIn
    /\ phase = "start"
    /\ got = Empty
    /\ sent = 0

(* The UE stores every message in m_edhocOut and encodes from there. *)
UeSendFirst ==
    /\ dir = "up" /\ phase = "start"
    /\ wire' = EncodeEdhocFragment(NewOut(Msg, len))
    /\ out' = UeAdvance(NewOut(Msg, len))
    /\ phase' = "wire"
    /\ sent' = sent + 1
    /\ UNCHANGED <<dir, len, in, got>>

(* The DN-AAA stores only what does not fit one wire. *)
AaaSendFirst ==
    /\ dir = "down" /\ phase = "start"
    /\ wire' = QueueWire(Msg, len)
    /\ out' = QueueOut(Msg, len)
    /\ phase' = "wire"
    /\ sent' = sent + 1
    /\ UNCHANGED <<dir, len, in, got>>

(* An acknowledgement reaches a sender with bytes left. *)
SendNext ==
    /\ phase = "ack"
    /\ Pending(out)
    /\ wire' = EncodeEdhocFragment(out)
    /\ out' = IF dir = "up" THEN UeAdvance(out) ELSE AaaAdvance(out)
    /\ phase' = "wire"
    /\ sent' = sent + 1
    /\ UNCHANGED <<dir, len, in, got>>

Receive ==
    /\ phase = "wire"
    /\ LET r == ParseEdhocWire(in, wire)
       IN  /\ in' = r.in
           /\ got' = r.msg
           /\ phase' = CASE r.status = "ack"   -> "ack"
                         [] r.status = "msg"   -> "done"
                         [] r.status = "error" -> "error"
    /\ UNCHANGED <<dir, len, out, wire, sent>>

Next == UeSendFirst \/ AaaSendFirst \/ SendNext \/ Receive

(* Both ends answer every packet they are given, so each step is taken. *)
Fairness == WF_vars(Next)

Spec == Init /\ [][Next]_vars /\ Fairness

-----------------------------------------------------------------------------
RunType == [msg: {Msg, NoMsg}, off: 0..MaxMsg, len: 0..MaxMsg]

WireType ==
    [start: BOOLEAN, lenFlag: BOOLEAN, more: BOOLEAN, total: 0..MaxMsg, data: RunType]

InType == [len: 0..MaxMsg, pos: 0..MaxMsg, data: RunType]

OutType == [msg: {Msg, NoMsg}, len: 0..MaxMsg, pos: 0..MaxMsg]

(* Every variable keeps its type; the buffers stay within E4_MAX_MSG. *)
TypeOK ==
    /\ dir \in Dirs /\ len \in 1..MaxMsg
    /\ out \in OutType /\ wire \in WireType /\ in \in InType
    /\ phase \in {"start", "wire", "ack", "done", "error"}
    /\ got \in RunType
    /\ sent \in Nat

(* ParseEdhocWire / edhoc_consume_incoming hand on a message only when it is
   the sender's whole message, in order and with nothing missing, whatever its
   length relative to the two capacities. *)
Reassembled == phase = "done" => got = Slice(Msg, 0, len)

(* No wire the sender produces is rejected: no announced total, overflow or
   short last fragment ever trips the receiver's checks. *)
NeverRejected == phase # "error"

(* The receiver asks for more only while the sender has more: a fragment that
   says MORE is never the last, so an acknowledgement never finds the sender
   with nothing to send (there it would be taken for a message of its own). *)
AckMeansPending == phase = "ack" => Pending(out)

(* No wire is longer than E4_EDHOC_FRAG_WIRE_MAX, the first one's total included. *)
WireFits == phase = "wire" => WireLen(wire) <= WireMax

(* What k wires can carry: a first fragment and k - 1 later ones. *)
Capacity(k) ==
    IF k = 0 THEN 0 ELSE EDHOC_FRAG_FIRST_CAP + (k - 1) * EDHOC_FRAG_NEXT_CAP

(* The number of wires, and with it of EAP round trips, is the least that the
   capacities allow: every fragment but the last is full. *)
FragmentCount ==
    phase = "done" => len <= Capacity(sent) /\ (sent > 1 => Capacity(sent - 1) < len)

(* The receiver's position; its buffer is empty again once it is done. *)
Arrived == IF phase = "done" THEN len ELSE in.pos

Transfer ==
    INSTANCE MessageTransfer WITH
        pos <- Arrived,
        delivered <- (phase = "done" /\ got = Slice(Msg, 0, len))

(* The wrapper of both ends, acknowledgements and all, is a message transfer:
   every wire received brings the next bytes of the message, the message is
   handed on with the last of them, and it always comes to that. *)
ImplementsTransfer == Transfer!Spec
=============================================================================
