------------------------- MODULE FragTransferProofs -------------------------
(***************************************************************************)
(* For every WireMax, HdrLen, LenLen and MaxMsg that FragAssumption allows *)
(* and every message length: a transfer is never rejected and delivers the *)
(* message.                                                                *)
(***************************************************************************)
EXTENDS FragTransfer, TLAPS

(* The sender of n bytes about to send from offset p, the receiver that has
   stored the first p, and the sender once it has sent a fragment. *)
OutAt(n, p) == [msg |-> Msg, len |-> n, pos |-> p]

InAt(n, p) ==
    IF p = 0 THEN NoIn ELSE [len |-> n, pos |-> p, data |-> Slice(Msg, 0, p)]

OutAfter(o) == IF dir = "up" THEN UeAdvance(o) ELSE AaaAdvance(o)

(***************************************************************************)
(* The inductive invariant ties both ends to one offset, the receiver's    *)
(* in.pos: the wire in flight is the fragment from that offset, and the    *)
(* sender is exactly one fragment ahead.                                   *)
(***************************************************************************)
InFlight ==
    /\ in.pos \in 0..(len - 1)
    /\ in = InAt(len, in.pos)
    /\ wire = EncodeEdhocFragment(OutAt(len, in.pos))
    /\ out = OutAfter(OutAt(len, in.pos))

Acknowledged ==
    /\ in.pos \in 1..(len - 1)
    /\ in = InAt(len, in.pos)
    /\ out = OutAt(len, in.pos)

(* The part of IInv that the phase decides. *)
PhaseInv ==
    /\ phase \in {"start", "wire", "ack", "done"}
    /\ phase = "start" => in = NoIn
    /\ phase = "wire" => InFlight
    /\ phase = "ack" => Acknowledged
    /\ phase = "done" => got = Slice(Msg, 0, len)

IInv ==
    /\ dir \in Dirs
    /\ len \in 1..MaxMsg
    /\ PhaseInv

(* The bytes of a fragment. *)
Run(m, off, n) == [msg |-> m, off |-> off, len |-> n]

(* A fragment taken from offset p < n of a message is not empty, does not run
   past the end, and says MORE exactly when bytes are left after it. *)
LEMMA FragmentShape ==
    ASSUME NEW n \in 1..MaxMsg, NEW p \in 0..(n - 1), NEW m,
           NEW o, o = [msg |-> m, len |-> n, pos |-> p]
    PROVE  /\ FragLen(o) \in 1..(n - p)
           /\ FragLen(o) <= EDHOC_FRAG_NEXT_CAP
           /\ p = 0 => FragLen(o) <= EDHOC_FRAG_FIRST_CAP
           /\ p + FragLen(o) = n =>
                 EncodeEdhocFragment(o) = LastWire(Run(m, p, FragLen(o)))
           /\ p + FragLen(o) # n /\ p = 0 =>
                 EncodeEdhocFragment(o) = FirstWire(n, Run(m, p, FragLen(o)))
           /\ p + FragLen(o) # n /\ p # 0 =>
                 EncodeEdhocFragment(o) = MoreWire(Run(m, p, FragLen(o)))
<1> DEFINE k == FragLen(o)
<1>1. o.msg = m /\ o.len = n /\ o.pos = p /\ Remaining(o) = n - p
  BY DEF Remaining
<1>2. /\ k \in 1..(n - p)
      /\ k <= EDHOC_FRAG_NEXT_CAP
      /\ p = 0 => k <= EDHOC_FRAG_FIRST_CAP
  BY <1>1, FragAssumption
  DEF FragLen, FragCap, EDHOC_FRAG_FIRST_CAP, EDHOC_FRAG_NEXT_CAP
<1>3. n % 65536 = n
  BY FragAssumption
<1>4. Slice(m, p, k) = Run(m, p, k)
  BY <1>2 DEF Slice, Run
<1>5. Remaining(o) <= k <=> p + k = n
  BY <1>1, <1>2
<1> HIDE DEF k
<1>6. EncodeEdhocFragment(o) = IF p + k = n THEN LastWire(Run(m, p, k))
                               ELSE IF p = 0 THEN FirstWire(n, Run(m, p, k))
                               ELSE MoreWire(Run(m, p, k))
  BY <1>1, <1>3, <1>4, <1>5 DEF EncodeEdhocFragment, k
<1>7. QED
  BY <1>2, <1>6 DEF k

(* The last fragment completes the message. *)
LEMMA ReceiveLast ==
    ASSUME NEW n \in 1..MaxMsg, NEW p \in 0..(n - 1),
           NEW w, w = LastWire(Run(Msg, p, n - p))
    PROVE  ParseEdhocWire(InAt(n, p), w) = Parsed("msg", NoIn, Slice(Msg, 0, n))
<1>1. /\ w.lenFlag = FALSE /\ w.more = FALSE
      /\ w.data = [msg |-> Msg, off |-> p, len |-> n - p]
  BY DEF LastWire, Wire, Run
<1>2. Slice(Msg, 0, n) = [msg |-> Msg, off |-> 0, len |-> n]
  BY DEF Slice
<1>3. ~BadTotal(InAt(n, p), w) /\ Announced(InAt(n, p), w) = InAt(n, p)
  BY <1>1 DEF BadTotal, Announced
<1>4. CASE p = 0
  <2>1. InAt(n, p) = NoIn /\ NoIn.len = 0 /\ w.data = Slice(Msg, 0, n)
    BY <1>1, <1>2, <1>4 DEF InAt, NoIn
  <2>2. QED
    BY <2>1, <1>1, <1>3 DEF ParseEdhocWire
<1>5. CASE p # 0
  <2> DEFINE i == InAt(n, p)
  <2>1. i = [len |-> n, pos |-> p, data |-> [msg |-> Msg, off |-> 0, len |-> p]]
    BY <1>5 DEF InAt, Slice
  <2>2. Join(i.data, w.data) = Slice(Msg, 0, n)
    BY <2>1, <1>1, <1>2, <1>5 DEF Join
  <2>3. /\ Stored(i, w).pos = n /\ Stored(i, w).len = n
        /\ Stored(i, w).data = Slice(Msg, 0, n)
    BY <2>1, <2>2, <1>1 DEF Stored
  <2>4. i.len = n /\ n # 0
    BY <2>1
  <2> HIDE DEF i
  <2>5. QED
    BY <1>1, <1>3, <2>3, <2>4 DEF ParseEdhocWire, i
<1>6. QED
  BY <1>4, <1>5

(* The buffer after a store, field by field. *)
LEMMA StoredFields ==
    ASSUME NEW n, NEW p, NEW d, NEW w
    PROVE  Stored([len |-> n, pos |-> p, data |-> d], w) =
             [len |-> n, pos |-> p + w.data.len, data |-> Join(d, w.data)]
  BY DEF Stored

(* Any other fragment is stored and acknowledged. *)
LEMMA ReceiveMore ==
    ASSUME NEW n \in 1..MaxMsg, NEW p \in 0..(n - 1),
           NEW k \in 1..(n - p), p + k # n, NEW w,
           p = 0 => w = FirstWire(n, Run(Msg, p, k)),
           p # 0 => w = MoreWire(Run(Msg, p, k))
    PROVE  ParseEdhocWire(InAt(n, p), w) = Parsed("ack", InAt(n, p + k), Empty)
<1> DEFINE i == InAt(n, p)
           j == Announced(i, w)
<1>1. w.more = TRUE /\ w.data = [msg |-> Msg, off |-> p, len |-> k]
  BY DEF FirstWire, MoreWire, Wire, Run
<1>2. InAt(n, p + k) =
        [len |-> n, pos |-> p + k, data |-> [msg |-> Msg, off |-> 0, len |-> p + k]]
  BY DEF InAt, Slice
<1>3. /\ ~BadTotal(i, w)
      /\ j.len = n
      /\ Stored(j, w) = InAt(n, p + k)
  <2>1. CASE p = 0
    <3>1. w.lenFlag = TRUE /\ w.total = n
      BY <2>1 DEF FirstWire, Wire
    <3>2. i.len = 0
      BY <2>1 DEF InAt, NoIn
    <3>3. ~BadTotal(i, w)
      BY <3>1, <3>2, FragAssumption DEF BadTotal
    <3>4. j = [len |-> n, pos |-> 0, data |-> Empty]
      BY <3>1, <3>2 DEF Announced
    <3>5. Join(Empty, w.data) = w.data
      BY <1>1 DEF Join, Empty
    <3>6. Stored(j, w) = [len |-> n, pos |-> k, data |-> w.data]
      <4>1. Stored(j, w) = [len |-> n, pos |-> 0 + w.data.len, data |-> Join(Empty, w.data)]
        BY <3>4, StoredFields
      <4>2. 0 + w.data.len = k
        BY <1>1
      <4>3. QED
        BY <4>1, <4>2, <3>5
    <3>7. QED
      BY <3>3, <3>4, <3>6, <1>1, <1>2, <2>1
  <2>2. CASE p # 0
    <3>1. w.lenFlag = FALSE
      BY <2>2 DEF MoreWire, Wire
    <3>2. i = [len |-> n, pos |-> p, data |-> [msg |-> Msg, off |-> 0, len |-> p]]
      BY <2>2 DEF InAt, Slice
    <3>3. ~BadTotal(i, w) /\ j = i
      BY <3>1 DEF BadTotal, Announced
    <3>4. Join(i.data, w.data) = [msg |-> Msg, off |-> 0, len |-> p + k]
      BY <3>2, <1>1, <2>2 DEF Join
    <3>5. Stored(i, w) = InAt(n, p + k)
      <4>1. Stored(i, w) = [len |-> n, pos |-> p + w.data.len, data |-> Join(i.data, w.data)]
        BY <3>2, StoredFields
      <4>2. p + w.data.len = p + k
        BY <1>1
      <4>3. QED
        BY <4>1, <4>2, <3>4, <1>2
    <3>6. QED
      BY <3>2, <3>3, <3>5
  <2>3. QED
    BY <2>1, <2>2
<1>4. InAt(n, p + k).pos = p + k /\ p + k <= n /\ n # 0
  BY <1>2
<1> HIDE DEF i, j
<1>5. QED
  BY <1>1, <1>3, <1>4 DEF ParseEdhocWire, i, j

(* What the sender keeps after a fragment: the next offset, or, when it was
   the last, nothing the receiver will ask for. *)
LEMMA Advanced ==
    ASSUME NEW n \in 1..MaxMsg, NEW p \in 0..(n - 1),
           NEW k \in 1..(n - p), k = FragLen(OutAt(n, p)), p + k # n
    PROVE  OutAfter(OutAt(n, p)) = OutAt(n, p + k)
<1>1. UeAdvance(OutAt(n, p)) = OutAt(n, p + k)
  BY DEF UeAdvance, OutAt
<1>2. OutAt(n, p).pos = p /\ OutAt(n, p).len = n
  BY DEF OutAt
<1>3. AaaAdvance(OutAt(n, p)) = OutAt(n, p + k)
  BY <1>1, <1>2 DEF AaaAdvance
<1>4. QED
  BY <1>1, <1>3 DEF OutAfter

(* edhoc_queue_outgoing's shortcut sends what edhoc_send_fragment would. *)
LEMMA QueueIsFragment ==
    ASSUME NEW n \in 1..MaxMsg
    PROVE  /\ QueueWire(Msg, n) = EncodeEdhocFragment(OutAt(n, 0))
           /\ QueueOut(Msg, n) = AaaAdvance(OutAt(n, 0))
<1> DEFINE o == OutAt(n, 0)
<1>1. o = NewOut(Msg, n) /\ o.len = n /\ o.pos = 0 /\ o.msg = Msg
  BY DEF OutAt, NewOut
<1>2. CASE n <= EDHOC_FRAG_FIRST_CAP
  <2>1. Remaining(o) = n /\ FragLen(o) = n
    BY <1>1, <1>2, FragAssumption
    DEF Remaining, FragLen, FragCap, EDHOC_FRAG_FIRST_CAP
  <2> HIDE DEF o
  <2>2. EncodeEdhocFragment(o) = LastWire(Slice(Msg, 0, n))
    BY <1>1, <2>1 DEF EncodeEdhocFragment
  <2>3. AaaAdvance(o) = NoOut
    BY <1>1, <2>1 DEF AaaAdvance
  <2>4. QED
    BY <2>2, <2>3, <1>2 DEF QueueWire, QueueOut, o
<1>3. CASE ~(n <= EDHOC_FRAG_FIRST_CAP)
  BY <1>1, <1>3 DEF QueueWire, QueueOut
<1>4. QED
  BY <1>2, <1>3

-----------------------------------------------------------------------------
(* Nothing has been sent yet. *)
LEMMA InitEstablishes == Init => IInv
  BY DEF Init, IInv, PhaseInv

(* The first fragment, of either end. *)
LEMMA FirstStep ==
    ASSUME IInv, UeSendFirst \/ AaaSendFirst PROVE IInv'
<1>1. /\ phase = "start" /\ in = NoIn /\ in' = in /\ len' = len /\ dir' = dir
      /\ len \in 1..MaxMsg /\ dir \in Dirs
      /\ phase' = "wire"
  BY DEF IInv, PhaseInv, UeSendFirst, AaaSendFirst
<1>2. in.pos = 0 /\ InAt(len, 0) = in
  BY <1>1 DEF NoIn, InAt
<1>3. /\ wire' = EncodeEdhocFragment(OutAt(len, 0))
      /\ out' = IF dir = "up" THEN UeAdvance(OutAt(len, 0)) ELSE AaaAdvance(OutAt(len, 0))
  <2>1. CASE UeSendFirst
    BY <2>1 DEF UeSendFirst, OutAt, NewOut
  <2>2. CASE AaaSendFirst
    <3>1. dir # "up" /\ wire' = QueueWire(Msg, len) /\ out' = QueueOut(Msg, len)
      BY <2>2 DEF AaaSendFirst
    <3>2. QED
      BY <3>1, <1>1, QueueIsFragment
  <2>3. QED
    BY <2>1, <2>2
<1>4. InFlight'
  BY <1>1, <1>2, <1>3 DEF InFlight, OutAfter, OutAt, InAt, NoIn
<1>5. QED
  BY <1>1, <1>4 DEF IInv, PhaseInv

(* A later fragment, sent on an acknowledgement. *)
LEMMA NextStep ==
    ASSUME IInv, SendNext PROVE IInv'
<1>1. /\ phase = "ack" /\ Acknowledged /\ in' = in /\ len' = len /\ dir' = dir
      /\ len \in 1..MaxMsg /\ dir \in Dirs
      /\ phase' = "wire"
      /\ wire' = EncodeEdhocFragment(out)
      /\ out' = IF dir = "up" THEN UeAdvance(out) ELSE AaaAdvance(out)
  BY DEF IInv, PhaseInv, SendNext
<1>2. in.pos \in 0..(len - 1) /\ in = InAt(len, in.pos) /\ out = OutAt(len, in.pos)
  BY <1>1 DEF Acknowledged
<1>3. InFlight'
  BY <1>1, <1>2 DEF InFlight, OutAfter, OutAt, InAt
<1>4. QED
  BY <1>1, <1>3 DEF IInv, PhaseInv

(* The receiver's answer to the wire in flight: the whole message, or a buffer
   that has caught up with the sender. *)
LEMMA ReceiveShape ==
    ASSUME IInv, Receive
    PROVE  \/ /\ phase' = "done" /\ in' = InAt(len, 0) /\ got' = Slice(Msg, 0, len)
              /\ in.pos + FragLen(OutAt(len, in.pos)) = len
           \/ \E q \in 1..(len - 1) :
                 /\ q = in.pos + FragLen(OutAt(len, in.pos)) /\ q > in.pos
                 /\ phase' = "ack" /\ in' = InAt(len, q) /\ got' = Slice(Msg, 0, 0)
                 /\ in'.pos = q /\ out' = OutAt(len, q)
<1> DEFINE n == len
           p == in.pos
           o == OutAt(n, p)
           k == FragLen(o)
           r == ParseEdhocWire(in, wire)
<1>1. /\ phase = "wire" /\ InFlight /\ n \in 1..MaxMsg
      /\ in' = r.in /\ got' = r.msg
      /\ r.status = "ack" => phase' = "ack"
      /\ r.status = "msg" => phase' = "done"
      /\ out' = out
  BY DEF IInv, PhaseInv, Receive
<1>2. p \in 0..(n - 1) /\ in = InAt(n, p) /\ wire = EncodeEdhocFragment(o) /\ out = OutAfter(o)
  BY <1>1 DEF InFlight
<1>3. o = [msg |-> Msg, len |-> n, pos |-> p]
  BY DEF OutAt
<1> HIDE DEF n, p, o
<1>4. /\ k \in 1..(n - p)
      /\ p + k = n => wire = LastWire(Run(Msg, p, k))
      /\ p + k # n /\ p = 0 => wire = FirstWire(n, Run(Msg, p, k))
      /\ p + k # n /\ p # 0 => wire = MoreWire(Run(Msg, p, k))
  BY <1>1, <1>2, <1>3, FragmentShape
<1> HIDE DEF k
<1>5. CASE p + k = n
  <2>1. k = n - p
    BY <1>1, <1>2, <1>4, <1>5
  <2>2. wire = LastWire(Run(Msg, p, n - p))
    BY <2>1, <1>4, <1>5
  <2>3. r = Parsed("msg", NoIn, Slice(Msg, 0, n))
    BY <2>2, <1>1, <1>2, ReceiveLast
  <2>4. r.status = "msg" /\ r.msg = Slice(Msg, 0, n) /\ r.in = InAt(n, 0)
    BY <2>3 DEF Parsed, InAt
  <2> HIDE DEF r
  <2>5. QED
    BY <2>4, <1>1, <1>5 DEF n, p, o, k
<1>6. CASE p + k # n
  <2>1. r = Parsed("ack", InAt(n, p + k), Empty)
    BY <1>1, <1>2, <1>4, <1>6, ReceiveMore
  <2>2. r.status = "ack" /\ r.in = InAt(n, p + k) /\ r.msg = Slice(Msg, 0, 0)
    BY <2>1 DEF Parsed, Slice
  <2> HIDE DEF r
  <2>3. phase' = "ack" /\ in' = InAt(n, p + k) /\ got' = Slice(Msg, 0, 0)
    BY <2>2, <1>1
  <2>4. out' = OutAt(n, p + k)
    BY <1>1, <1>2, <1>4, <1>6, Advanced DEF k, o
  <2>5. p + k \in 1..(n - 1)
    BY <1>1, <1>2, <1>4, <1>6
  <2>6. in'.pos = p + k
    BY <2>3, <2>5 DEF InAt
  <2>7. p + k > p
    BY <1>2, <1>4
  <2>8. p + k = in.pos + FragLen(OutAt(len, in.pos)) /\ p + k > in.pos
    BY <2>7 DEF p, k, o, n
  <2>9. QED
    BY <2>3, <2>4, <2>5, <2>6, <2>8 DEF n
<1>7. QED
  BY <1>5, <1>6

(* The step keeps the invariant. *)
LEMMA ReceiveStep ==
    ASSUME IInv, Receive PROVE IInv'
<1>1. dir \in Dirs /\ len \in 1..MaxMsg /\ dir' = dir /\ len' = len
  BY DEF IInv, Receive
<1>2. CASE phase' = "done" /\ got' = Slice(Msg, 0, len)
  BY <1>1, <1>2 DEF IInv, PhaseInv
<1>3. ASSUME NEW q \in 1..(len - 1), phase' = "ack",
             in' = InAt(len, q), in'.pos = q, out' = OutAt(len, q)
      PROVE  IInv'
  <2>1. Acknowledged'
    BY <1>1, <1>3 DEF Acknowledged, InAt, OutAt
  <2>2. QED
    BY <1>1, <1>3, <2>1 DEF IInv, PhaseInv
<1>4. QED
  BY <1>2, <1>3, ReceiveShape

(* No step of either end loses the offset they agree on. *)
LEMMA StepPreserves == IInv /\ [Next]_vars => IInv'
<1> SUFFICES ASSUME IInv, [Next]_vars PROVE IInv'
  OBVIOUS
<1>1. CASE UeSendFirst \/ AaaSendFirst
  BY <1>1, FirstStep
<1>2. CASE SendNext
  BY <1>2, NextStep
<1>3. CASE Receive
  BY <1>3, ReceiveStep
<1>4. CASE UNCHANGED vars
  BY <1>4 DEF vars, IInv, PhaseInv, InFlight, Acknowledged, OutAfter, InAt, OutAt
<1>5. QED
  BY <1>1, <1>2, <1>3, <1>4 DEF Next

(* IInv holds in every state of every behaviour. *)
THEOREM Inductive == Spec => []IInv
  BY InitEstablishes, StepPreserves, PTL DEF Spec

(* ParseEdhocWire and edhoc_consume_incoming hand on exactly the message that
   was cut up, for every message length and every setting of the capacities. *)
THEOREM ReassembledAlways == Spec => []Reassembled
<1>1. IInv => Reassembled
  BY DEF IInv, PhaseInv, Reassembled
<1>2. QED
  BY <1>1, Inductive, PTL

(* No fragment the sender produces trips one of the receiver's checks. *)
THEOREM NeverRejectedAlways == Spec => []NeverRejected
<1>1. IInv => NeverRejected
  BY DEF IInv, PhaseInv, NeverRejected
<1>2. QED
  BY <1>1, Inductive, PTL

(* An acknowledgement always finds the sender with bytes left. *)
THEOREM AckMeansPendingAlways == Spec => []AckMeansPending
<1>1. IInv => AckMeansPending
  BY DEF IInv, PhaseInv, Acknowledged, AckMeansPending, Pending, OutAt
<1>2. QED
  BY <1>1, Inductive, PTL

(* No wire exceeds E4_EDHOC_FRAG_WIRE_MAX. *)
THEOREM WireFitsAlways == Spec => []WireFits
<1>1. ASSUME IInv PROVE WireFits
  <2> SUFFICES ASSUME phase = "wire" PROVE WireLen(wire) <= WireMax
    BY DEF WireFits
  <2> DEFINE o == OutAt(len, in.pos)
             k == FragLen(o)
  <2>1. len \in 1..MaxMsg /\ in.pos \in 0..(len - 1) /\ wire = EncodeEdhocFragment(o)
    BY <1>1 DEF IInv, PhaseInv, InFlight
  <2>2. o = [msg |-> Msg, len |-> len, pos |-> in.pos]
    BY DEF OutAt
  <2> HIDE DEF o
  <2>3. /\ k \in 1..(len - in.pos)
        /\ k <= EDHOC_FRAG_NEXT_CAP
        /\ in.pos = 0 => k <= EDHOC_FRAG_FIRST_CAP
        /\ in.pos + k = len => wire = LastWire(Run(Msg, in.pos, k))
        /\ in.pos + k # len /\ in.pos = 0 => wire = FirstWire(len, Run(Msg, in.pos, k))
        /\ in.pos + k # len /\ in.pos # 0 => wire = MoreWire(Run(Msg, in.pos, k))
    BY <2>1, <2>2, FragmentShape
  <2> HIDE DEF k
  <2>4. wire.data.len = k
    BY <2>3 DEF LastWire, FirstWire, MoreWire, Wire, Run
  <2>5. wire.lenFlag = FALSE \/ (wire.lenFlag = TRUE /\ k <= EDHOC_FRAG_FIRST_CAP)
    BY <2>3 DEF LastWire, FirstWire, MoreWire, Wire
  <2>6. k \in Nat
    BY <2>1, <2>3
  <2>7. QED
    BY <2>3, <2>4, <2>5, <2>6, FragAssumption
    DEF WireLen, EDHOC_FRAG_FIRST_CAP, EDHOC_FRAG_NEXT_CAP
<1>2. QED
  BY <1>1, Inductive, PTL
-----------------------------------------------------------------------------
(* Type correctness, which rests on IInv: what the sender computes is typed
   because the offset both ends agree on is inside the message. *)

(* Every fragment of a message is a well-formed wire. *)
LEMMA FragmentTyped ==
    ASSUME NEW n \in 1..MaxMsg, NEW p \in 0..(n - 1)
    PROVE  EncodeEdhocFragment(OutAt(n, p)) \in WireType
<1> DEFINE o == OutAt(n, p)
           k == FragLen(o)
           d == Run(Msg, p, k)
<1>1. o = [msg |-> Msg, len |-> n, pos |-> p]
  BY DEF OutAt
<1> HIDE DEF o
<1>2. /\ k \in 1..(n - p)
      /\ \/ EncodeEdhocFragment(o) = LastWire(d)
         \/ EncodeEdhocFragment(o) = FirstWire(n, d)
         \/ EncodeEdhocFragment(o) = MoreWire(d)
  BY <1>1, FragmentShape
<1>3. d \in RunType
  BY <1>2, FragAssumption DEF Run, RunType
<1> HIDE DEF d
<1>4. LastWire(d) \in WireType /\ MoreWire(d) \in WireType
  BY <1>3, FragAssumption DEF LastWire, MoreWire, Wire, WireType
<1>5. FirstWire(n, d) \in WireType
  BY <1>3, FragAssumption DEF FirstWire, Wire, WireType
<1>6. QED
  BY <1>2, <1>4, <1>5 DEF o

(* What either sender keeps after a fragment is a position in its message. *)
LEMMA OutTyped ==
    ASSUME NEW n \in 1..MaxMsg, NEW p \in 0..(n - 1)
    PROVE  UeAdvance(OutAt(n, p)) \in OutType /\ AaaAdvance(OutAt(n, p)) \in OutType
<1> DEFINE o == OutAt(n, p)
           k == FragLen(o)
<1>1. o = [msg |-> Msg, len |-> n, pos |-> p]
  BY DEF OutAt
<1> HIDE DEF o
<1>2. k \in 1..(n - p)
  BY <1>1, FragmentShape
<1> HIDE DEF k
<1>3. UeAdvance(o) = [msg |-> Msg, len |-> n, pos |-> p + k]
  BY <1>1 DEF UeAdvance, k
<1>4. UeAdvance(o) \in OutType
  BY <1>2, <1>3, FragAssumption DEF OutType
<1>5. NoOut \in OutType
  BY FragAssumption DEF NoOut, OutType
<1>6. QED
  BY <1>4, <1>5 DEF AaaAdvance, o

(* The first bytes of the message, in the buffer or handed on. *)
LEMMA InTyped ==
    ASSUME NEW n \in 1..MaxMsg, NEW p \in 0..n
    PROVE  InAt(n, p) \in InType /\ Slice(Msg, 0, p) \in RunType
<1>1. Empty \in RunType
  BY FragAssumption DEF Empty, RunType
<1>2. Slice(Msg, 0, p) \in RunType
  <2>1. CASE p = 0
    BY <2>1, <1>1 DEF Slice
  <2>2. CASE p # 0
    BY <2>2, FragAssumption DEF Slice, RunType
  <2>3. QED
    BY <2>1, <2>2
<1>3. NoIn \in InType
  BY <1>1, FragAssumption DEF NoIn, InType
<1>4. QED
  BY <1>2, <1>3, FragAssumption DEF InAt, InType

(* Every step keeps every variable's type, given the offset of IInv. *)
LEMMA StepTyped ==
    ASSUME IInv, IInv', TypeOK, [Next]_vars PROVE TypeOK'
<1>1. CASE UeSendFirst \/ AaaSendFirst
  <2>1. /\ len \in 1..MaxMsg /\ 0 \in 0..(len - 1)
        /\ wire' = EncodeEdhocFragment(OutAt(len, 0))
        /\ out' = UeAdvance(OutAt(len, 0)) \/ out' = AaaAdvance(OutAt(len, 0))
    BY <1>1, QueueIsFragment DEF IInv, UeSendFirst, AaaSendFirst, OutAt, NewOut
  <2>2. wire' \in WireType /\ out' \in OutType
    BY <2>1, FragmentTyped, OutTyped
  <2>3. QED
    BY <1>1, <2>2 DEF TypeOK, UeSendFirst, AaaSendFirst
<1>2. CASE SendNext
  <2>1. /\ len \in 1..MaxMsg /\ in.pos \in 0..(len - 1)
        /\ wire' = EncodeEdhocFragment(OutAt(len, in.pos))
        /\ out' = UeAdvance(OutAt(len, in.pos)) \/ out' = AaaAdvance(OutAt(len, in.pos))
    BY <1>2 DEF IInv, PhaseInv, Acknowledged, SendNext
  <2>2. wire' \in WireType /\ out' \in OutType
    BY <2>1, FragmentTyped, OutTyped
  <2>3. QED
    BY <1>2, <2>2 DEF TypeOK, SendNext
<1>3. CASE Receive
  <2>1. /\ len \in 1..MaxMsg /\ len' = len
        /\ UNCHANGED <<dir, len, out, wire, sent>>
        /\ phase' \in {"ack", "done"}
    BY <1>3, ReceiveShape DEF IInv, Receive
  <2>2. in' \in InType /\ got' \in RunType
    <3>1. PICK p \in 0..len :
             in' = InAt(len, p) /\ (got' = Slice(Msg, 0, 0) \/ got' = Slice(Msg, 0, len))
      BY <1>3, <2>1, ReceiveShape
    <3>2. 0 \in 0..len /\ len \in 0..len
      BY <2>1
    <3>3. QED
      BY <3>1, <3>2, <2>1, InTyped
  <2>3. QED
    BY <2>1, <2>2 DEF TypeOK
<1>4. CASE UNCHANGED vars
  BY <1>4 DEF TypeOK, vars
<1>5. QED
  BY <1>1, <1>2, <1>3, <1>4 DEF Next

(* The types of all variables, and with them the bound E4_MAX_MSG on both
   buffers, hold throughout a transfer. *)
THEOREM TypeCorrect == Spec => []TypeOK
<1>1. Init => TypeOK
  <2> SUFFICES ASSUME Init PROVE TypeOK
    OBVIOUS
  <2>1. Empty \in RunType /\ NoIn \in InType /\ NoOut \in OutType
    BY FragAssumption DEF Empty, RunType, NoIn, InType, NoOut, OutType
  <2>2. Ack \in WireType
    BY <2>1, FragAssumption DEF Ack, LastWire, Wire, WireType
  <2>3. QED
    BY <2>1, <2>2 DEF Init, TypeOK
<1>2. IInv /\ IInv' /\ TypeOK /\ [Next]_vars => TypeOK'
  BY StepTyped
<1>3. QED
  BY <1>1, <1>2, Inductive, PTL DEF Spec

-----------------------------------------------------------------------------
(* Refinement: a step of the wrapper is a piece of the message coming across,
   or is not seen at all. *)
LEMMA RefinesStep ==
    ASSUME IInv, [Next]_vars PROVE [Transfer!Piece]_(Transfer!vars)
<1>1. len \in 1..MaxMsg
  BY DEF IInv
<1>2. CASE UeSendFirst \/ AaaSendFirst \/ SendNext
  <2>1. phase # "done" /\ phase' # "done" /\ in' = in /\ len' = len
    BY <1>2 DEF UeSendFirst, AaaSendFirst, SendNext
  <2>2. QED
    BY <2>1 DEF Transfer!vars, Arrived
<1>3. CASE Receive
  <2>1. phase = "wire" /\ len' = len /\ in.pos \in 0..(len - 1)
    BY <1>3 DEF Receive, IInv, PhaseInv, InFlight
  <2>2. Arrived = in.pos
    BY <2>1 DEF Arrived
  <2>3. CASE phase' = "done" /\ got' = Slice(Msg, 0, len)
    <3>1. Arrived' = len
      BY <2>1, <2>3 DEF Arrived
    <3>2. QED
      BY <2>1, <2>2, <2>3, <3>1, <1>1 DEF Transfer!Piece
  <2>4. ASSUME NEW q \in 1..(len - 1), phase' = "ack", in'.pos = q, q > in.pos
        PROVE  Transfer!Piece
    <3>1. Arrived' = q
      BY <2>4 DEF Arrived
    <3>2. q # len /\ q \in (in.pos + 1)..len
      BY <2>1, <2>4, <1>1
    <3>3. QED
      BY <2>1, <2>2, <2>4, <3>1, <3>2 DEF Transfer!Piece
  <2>5. QED
    BY <2>3, <2>4, <1>3, ReceiveShape
<1>4. CASE UNCHANGED vars
  BY <1>4 DEF vars, Transfer!vars, Arrived
<1>5. QED
  BY <1>2, <1>3, <1>4 DEF Next

(* ImplementsTransfer without its fairness: for every setting of the constants,
   the fragmentation of UERANSIM and of rlm_eap_edhoc implements the abstract
   transfer of one message. *)
THEOREM Refines == Spec => Transfer!Init /\ [][Transfer!Piece]_(Transfer!vars)
<1>1. Init => Transfer!Init
  BY DEF Init, Transfer!Init, Arrived, NoIn
<1>2. IInv /\ [Next]_vars => [Transfer!Piece]_(Transfer!vars)
  BY RefinesStep
<1>3. QED
  BY <1>1, <1>2, Inductive, PTL DEF Spec

-----------------------------------------------------------------------------
(* The receiver's offset counts the wires sent: every one but the last is full. *)
CountInv ==
    /\ sent \in Nat
    /\ phase = "start" => sent = 0
    /\ phase = "wire" => sent >= 1 /\ in.pos = Capacity(sent - 1)
    /\ phase = "ack" => sent >= 1 /\ in.pos = Capacity(sent)
    /\ phase = "done" => len <= Capacity(sent) /\ (sent > 1 => Capacity(sent - 1) < len)

(* One more wire carries one more fragment. *)
LEMMA CapacityStep ==
    ASSUME NEW k \in Nat
    PROVE  /\ Capacity(k) \in Nat
           /\ Capacity(k) = 0 <=> k = 0
           /\ Capacity(k + 1) =
                 Capacity(k) + (IF Capacity(k) = 0 THEN EDHOC_FRAG_FIRST_CAP
                                                   ELSE EDHOC_FRAG_NEXT_CAP)
<1> DEFINE F == EDHOC_FRAG_FIRST_CAP
           N == EDHOC_FRAG_NEXT_CAP
<1>1. F \in Nat /\ F > 0 /\ N \in Nat
  BY FragAssumption DEF EDHOC_FRAG_FIRST_CAP, EDHOC_FRAG_NEXT_CAP
<1> HIDE DEF F, N
<1>2. CASE k = 0
  BY <1>1, <1>2 DEF Capacity, F, N
<1>3. CASE k # 0
  <2>1. k - 1 \in Nat /\ (k - 1) * N \in Nat
    BY <1>1, <1>3
  <2>2. k * N = (k - 1) * N + N
    BY <1>1
  <2>3. Capacity(k) = F + (k - 1) * N /\ Capacity(k + 1) = F + k * N
    BY <1>3 DEF Capacity, F, N
  <2>4. QED
    BY <1>1, <1>3, <2>1, <2>2, <2>3 DEF F, N
<1>4. QED
  BY <1>2, <1>3

(* A fragment is full unless it is the last. *)
LEMMA FragmentFull ==
    ASSUME NEW n \in 1..MaxMsg, NEW p \in 0..(n - 1)
    PROVE  LET cap == IF p = 0 THEN EDHOC_FRAG_FIRST_CAP ELSE EDHOC_FRAG_NEXT_CAP
               k   == FragLen(OutAt(n, p))
           IN  /\ p + k = n => n <= p + cap
               /\ p + k # n => k = cap
<1>1. OutAt(n, p).pos = p /\ Remaining(OutAt(n, p)) = n - p
  BY DEF OutAt, Remaining
<1>2. QED
  BY <1>1, FragAssumption
  DEF FragLen, FragCap, EDHOC_FRAG_FIRST_CAP, EDHOC_FRAG_NEXT_CAP

(* Sending adds a wire, receiving a fragment. *)
LEMMA StepCounts ==
    ASSUME IInv, CountInv, [Next]_vars PROVE CountInv'
<1>1. CASE UeSendFirst \/ AaaSendFirst
  <2>1. in.pos = 0 /\ sent = 0 /\ sent' = 1 /\ in' = in /\ phase' = "wire"
    BY <1>1 DEF UeSendFirst, AaaSendFirst, CountInv, IInv, PhaseInv, NoIn
  <2>2. QED
    BY <2>1 DEF CountInv, Capacity
<1>2. CASE SendNext
  <2>1. /\ in.pos = Capacity(sent) /\ sent' = sent + 1 /\ in' = in /\ phase' = "wire"
        /\ sent \in Nat /\ sent' \in Nat /\ sent' - 1 = sent /\ sent' >= 1
    BY <1>2 DEF SendNext, CountInv
  <2>2. QED
    BY <2>1 DEF CountInv
<1>3. CASE Receive
  <2> DEFINE n == len
             p == in.pos
             k == FragLen(OutAt(n, p))
             cap == IF p = 0 THEN EDHOC_FRAG_FIRST_CAP ELSE EDHOC_FRAG_NEXT_CAP
  <2>1. /\ n \in 1..MaxMsg /\ p \in 0..(n - 1) /\ len' = len
        /\ sent \in Nat /\ sent >= 1 /\ p = Capacity(sent - 1) /\ sent' = sent
    BY <1>3 DEF Receive, IInv, PhaseInv, InFlight, CountInv
  <2>2. sent - 1 \in Nat /\ (sent - 1) + 1 = sent
    BY <2>1
  <2>3. Capacity(sent) = p + cap
    BY <2>1, <2>2, CapacityStep
  <2>4. (p + k = n => n <= p + cap) /\ (p + k # n => k = cap)
    BY <2>1, FragmentFull
  <2>5. CASE phase' = "done" /\ p + k = n
    <3>1. n <= Capacity(sent) /\ Capacity(sent - 1) < n
      BY <2>1, <2>3, <2>4, <2>5
    <3>2. QED
      BY <2>1, <2>5, <3>1 DEF CountInv
  <2>6. ASSUME NEW q \in 1..(len - 1), q = p + k, phase' = "ack", in'.pos = q
        PROVE  CountInv'
    <3>1. q = Capacity(sent)
      BY <2>3, <2>4, <2>6, <2>1
    <3>2. QED
      BY <2>1, <2>6, <3>1 DEF CountInv
  <2>7. QED
    BY <2>5, <2>6, <1>3, ReceiveShape
<1>4. CASE UNCHANGED vars
  BY <1>4 DEF vars, CountInv
<1>5. QED
  BY <1>1, <1>2, <1>3, <1>4 DEF Next

(* No message takes more wires than it must, whatever its length and the
   capacities, in the UE's and in the DN-AAA's version of the sender. *)
THEOREM FragmentCountAlways == Spec => []FragmentCount
<1>1. Init => CountInv
  BY DEF Init, CountInv
<1>2. IInv /\ CountInv /\ [Next]_vars => CountInv'
  BY StepCounts
<1>3. CountInv => FragmentCount
  BY DEF CountInv, FragmentCount
<1>4. QED
  BY <1>1, <1>2, <1>3, Inductive, PTL DEF Spec
=============================================================================
