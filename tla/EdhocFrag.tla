------------------------------ MODULE EdhocFrag ------------------------------
(***************************************************************************)
(* The EAP-EDHOC fragmentation wrapper both ends share (edhoc4.h): how a   *)
(* message is cut into wires of at most WireMax bytes, and how wires are   *)
(* put together again.  The UE (UERANSIM transport.cpp) and the DN-AAA     *)
(* (rlm_eap_edhoc.c) each carry their own copy of both directions.         *)
(*                                                                         *)
(* Bytes are not modelled one by one.  A run of bytes is [msg, off, len]:  *)
(* the len bytes of message msg that start at offset off.  Joining runs    *)
(* that are not consecutive bytes of one message gives Junk.               *)
(***************************************************************************)
EXTENDS Integers

CONSTANTS
    WireMax,    \* E4_EDHOC_FRAG_WIRE_MAX: longest wire
    HdrLen,     \* E4_EDHOC_FRAG_HDR_LEN: the flag byte
    LenLen,     \* E4_EDHOC_FRAG_LEN_LEN: the total length of the first fragment
    MaxMsg,     \* E4_MAX_MSG: size of every message buffer
    NoMsg,      \* the message of an empty run of bytes
    Junk        \* bytes that are no part of one message

(***************************************************************************)
(* A first fragment carries at least one byte, and the two-byte total      *)
(* (htons of a uint16_t) can express every length a buffer can hold.       *)
(***************************************************************************)
ASSUME FragAssumption ==
    /\ HdrLen \in Nat /\ LenLen \in Nat
    /\ WireMax \in Nat /\ WireMax > HdrLen + LenLen
    /\ MaxMsg \in Nat \ {0} /\ MaxMsg < 65536
    /\ NoMsg # Junk

EDHOC_FRAG_FIRST_CAP == WireMax - HdrLen - LenLen

EDHOC_FRAG_NEXT_CAP == WireMax - HdrLen

-----------------------------------------------------------------------------
(* Runs of bytes *)

Empty == [msg |-> NoMsg, off |-> 0, len |-> 0]

Slice(m, off, len) ==
    IF len = 0 THEN Empty ELSE [msg |-> m, off |-> off, len |-> len]

Join(a, b) ==
    IF b.len = 0 THEN a
    ELSE IF a.len = 0 THEN b
    ELSE IF a.msg = b.msg /\ a.off + a.len = b.off
         THEN [a EXCEPT !.len = a.len + b.len]
         ELSE [msg |-> Junk, off |-> 0, len |-> a.len + b.len]

-----------------------------------------------------------------------------
(* Wires: the type-data of an EAP-EDHOC packet *)

Wire(lenFlag, more, total, data) ==
    [start |-> FALSE, lenFlag |-> lenFlag, more |-> more,
     total |-> total, data |-> data]

FirstWire(total, data) == Wire(TRUE, TRUE, total, data)     \* LEN and MORE set

MoreWire(data) == Wire(FALSE, TRUE, 0, data)                \* MORE set

LastWire(data) == Wire(FALSE, FALSE, 0, data)               \* no flag

Ack == LastWire(Empty)                                      \* the byte 0x00

StartWire == [Ack EXCEPT !.start = TRUE]                    \* the byte 0x01

WireLen(w) == HdrLen + (IF w.lenFlag THEN LenLen ELSE 0) + w.data.len

-----------------------------------------------------------------------------
(* Sending: out = [msg, len, pos], the message being sent and how far *)

NoOut == [msg |-> NoMsg, len |-> 0, pos |-> 0]

NewOut(m, len) == [msg |-> m, len |-> len, pos |-> 0]

Pending(out) == out.pos < out.len

Remaining(out) == out.len - out.pos

(* Mutants: the first fragment's length field forgotten, or reserved in every
   fragment; one RADIUS attribute's worth per fragment. *)
FragCapAlwaysNext(out) == EDHOC_FRAG_NEXT_CAP

FragCapAlwaysFirst(out) == EDHOC_FRAG_FIRST_CAP

FragCapOneAttribute(out) == IF WireMax < 253 THEN WireMax ELSE 253

FragCap(out) == IF out.pos = 0 THEN EDHOC_FRAG_FIRST_CAP ELSE EDHOC_FRAG_NEXT_CAP

FragLen(out) == IF Remaining(out) < FragCap(out) THEN Remaining(out) ELSE FragCap(out)

(* Mutant: always the message's first bytes. *)
EncodeFromStart(out) ==
    LET data == Slice(out.msg, 0, FragLen(out))
    IN  IF Remaining(out) <= FragLen(out) THEN LastWire(data)
        ELSE IF out.pos = 0 THEN FirstWire(out.len % 65536, data)
        ELSE MoreWire(data)

(* Only the first of several fragments announces the total, cast to uint16_t. *)
EncodeEdhocFragment(out) ==
    LET data == Slice(out.msg, out.pos, FragLen(out))
    IN  IF Remaining(out) <= FragLen(out) THEN LastWire(data)
        ELSE IF out.pos = 0 THEN FirstWire(out.len % 65536, data)
        ELSE MoreWire(data)

(* Mutant: the position is not moved. *)
UeAdvanceForgotten(out) == out

(* The UE keeps the finished message: pos = len. *)
UeAdvance(out) == [out EXCEPT !.pos = out.pos + FragLen(out)]

(* The DN-AAA forgets it. *)
AaaAdvance(out) ==
    IF out.pos + FragLen(out) >= out.len THEN NoOut ELSE UeAdvance(out)

(* edhoc_queue_outgoing: a message that fits goes out at once, unbuffered. *)
QueueWire(m, len) ==
    IF len <= EDHOC_FRAG_FIRST_CAP THEN LastWire(Slice(m, 0, len))
    ELSE EncodeEdhocFragment(NewOut(m, len))

QueueOut(m, len) ==
    IF len <= EDHOC_FRAG_FIRST_CAP THEN NoOut ELSE AaaAdvance(NewOut(m, len))

-----------------------------------------------------------------------------
(* Receiving: in = [len, pos, data], the announced total and the bytes so far *)

NoIn == [len |-> 0, pos |-> 0, data |-> Empty]

(* A total of zero, beyond the buffer, or other than the one announced before. *)
BadTotal(in, w) ==
    /\ w.lenFlag
    /\ w.total = 0 \/ w.total > MaxMsg \/ (in.len # 0 /\ in.len # w.total)

Announced(in, w) ==
    IF w.lenFlag /\ in.len = 0
    THEN [len |-> w.total, pos |-> 0, data |-> Empty] ELSE in

Stored(in, w) ==
    [len |-> in.len, pos |-> in.pos + w.data.len, data |-> Join(in.data, w.data)]

Parsed(status, in, msg) == [status |-> status, in |-> in, msg |-> msg]

(* Mutant: a buffer filled exactly counts as overflow. *)
ParseOverflowAtEnd(in, w) ==
    LET in1 == Announced(in, w)
        in2 == Stored(in1, w)
    IN  IF BadTotal(in, w) THEN Parsed("error", in, Empty)
        ELSE IF in1.len = 0
             THEN IF w.more THEN Parsed("error", in1, Empty)
                            ELSE Parsed("msg", in1, w.data)
        ELSE IF in2.pos >= in1.len THEN Parsed("error", in1, Empty)
        ELSE IF w.more THEN Parsed("ack", in2, Empty)
        ELSE Parsed("msg", NoIn, in2.data)

(***************************************************************************)
(* One wire.  "error": rejected, and the buffer keeps whatever was already *)
(* stored, the announced total included; "ack": more is to come; "msg": a  *)
(* complete message is handed on.                                          *)
(***************************************************************************)
ParseEdhocWire(in, w) ==
    LET in1 == Announced(in, w)
        in2 == Stored(in1, w)
    IN  IF BadTotal(in, w) THEN Parsed("error", in, Empty)
        ELSE IF in1.len = 0
             THEN IF w.more THEN Parsed("error", in1, Empty)
                            ELSE Parsed("msg", in1, w.data)
        ELSE IF in2.pos > in1.len THEN Parsed("error", in1, Empty)
        ELSE IF w.more THEN Parsed("ack", in2, Empty)
        ELSE IF in2.pos # in2.len THEN Parsed("error", in2, Empty)
        ELSE Parsed("msg", NoIn, in2.data)
=============================================================================
