---------------------------- MODULE SecAuthProofs ----------------------------
(***************************************************************************)
(* Proofs about SecAuth, for any sets of PDU sessions and DN-AAA sessions, *)
(* any message and fragment sizes that FragAssumption and MsgLenAssumption *)
(* allow, and any number of setups, trips and faults: its types, and EAP's *)
(* lock-step through SMF, relay and DN-AAA.  Why at most one packet of an  *)
(* authentication is under way, why the State an SMF session holds is the  *)
(* one the DN-AAA waits for, why a late answer is never taken for the      *)
(* answer to another exchange, and who pays for the DN-AAA sessions that   *)
(* are left without a peer.                                                *)
(***************************************************************************)
EXTENDS SecAuth, SequenceTheorems, FiniteSetTheorems, TLAPS

-----------------------------------------------------------------------------
(* The types, as sharp as the proofs need them.  A message that a responder
   answers or makes names its session; a buffer holds as many bytes as its
   position says, within the total; only the SMF's identity comes without a
   State. *)
FirstTypes == {"msg1", "classic1"}

TMsgs == [type: FirstTypes, eph: Nat, sid: {0} \cup Sids]
           \cup [type: MsgTypes \ FirstTypes, eph: Nat, sid: Sids] \cup {NoMsg, Junk}

TRuns == [msg: TMsgs, off: 0..MaxMsg, len: 0..MaxMsg]

TWires == [start: BOOLEAN, lenFlag: BOOLEAN, more: BOOLEAN, total: 0..MaxMsg, data: TRuns]

TIns == {b \in [len: 0..MaxMsg, pos: 0..MaxMsg, data: TRuns] : b.pos <= b.len /\ b.data.len = b.pos}

TOuts == {b \in [msg: TMsgs, len: 0..MaxMsg, pos: 0..MaxMsg] : b.pos <= b.len}

TPackets == [kind: {"edhoc"}, id: Nat, wire: TWires]

TStates == [sid: Sids, trip: Nat]

TRequests == [state: {NoState}, eap: {Identity(1)}, open: BOOLEAN]
               \cup [state: TStates \cup {NoState}, eap: TPackets, open: BOOLEAN]

TResponses == [result: {"challenge"}, state: TStates, eap: TPackets]
                \cup [result: {"accept", "reject", "error"}, state: {NoState}] \cup {NoRsp}

TSessions ==
    {r \in [status: {"none", "listed", "success", "failed", "expired"},
            trip: Nat, id: Nat, mode: {0, 3, 4}, round: 0..2, in: TIns, out: TOuts, ctx: Ctxs] :
        r.round # 0 => r.ctx.sid \in Sids}

SmfType == [inProgress: BOOLEAN, state: TStates \cup {NoState}, timer: BOOLEAN, starts: Nat]

DlMsgs == [kind: {"command"}, psi: Psis, eap: TPackets]
            \cup [kind: {"result"}, psi: Psis, verdict: {"accept", "reject", "error"}]

UlMsgs == [kind: {"complete"}, psi: Psis, eap: TPackets] \cup [kind: {"status"}, psi: Psis]

UeTyped ==
    /\ <<ueCreds, ueProvisioned>> \in BOOLEAN \X BOOLEAN
    /\ ueRound \in {-1, 1, 2, 3} /\ ueCtx \in Ctxs /\ ueIn \in TIns /\ ueOut \in TOuts
    /\ ueEph \in Nat /\ ueKeys \subseteq Nat \X Sids /\ ueConfirmed \subseteq ueKeys
    /\ ueRound \in {2, 3} => ueCtx.sid \in Sids /\ Msk(ueCtx) \in ueKeys

SmfTyped == smf \in [Psis -> SmfType] /\ smfWait \in Psis \cup {NoPsi} /\ smfSetups \in 0..MaxSetups

AaaTyped == aaa \in [Sids -> TSessions] /\ aaaNext \in 1..(MaxSids + 1)

N1Typed == nasDl \in Seq(DlMsgs) /\ nasUl \in Seq(UlMsgs)

RelayTyped == relayCur \in {"idle", "open", "closed"} /\ relayReq \in Seq(TRequests) /\ relayRsp \in TResponses

RadiusTyped == radiusReq \in Seq(TRequests) /\ radiusRsp \in TResponses

TypeInv == UeTyped /\ SmfTyped /\ AaaTyped /\ N1Typed /\ RelayTyped /\ RadiusTyped /\ faults \in 0..MaxFaults

-----------------------------------------------------------------------------
(* The empty buffers and the wires. *)
LEMMA EmptyTyped ==
    /\ Empty \in TRuns /\ Empty.msg = NoMsg /\ Empty.len = 0
    /\ NoIn \in TIns /\ NoIn.data.msg = NoMsg
    /\ NoOut \in TOuts /\ NoOut.msg = NoMsg
<1>1. MaxMsg \in Nat
  BY FragAssumption
<1>2. Empty \in TRuns /\ Empty.msg = NoMsg /\ Empty.len = 0
  BY <1>1 DEF Empty, TRuns, TMsgs
<1>3. NoOut \in TOuts /\ NoOut.msg = NoMsg
  BY <1>1 DEF NoOut, TOuts, TMsgs
<1>. QED  BY <1>1, <1>2, <1>3 DEF NoIn, TIns

LEMMA WireTyped ==
    ASSUME NEW d \in TRuns, NEW n \in 0..MaxMsg
    PROVE  /\ FirstWire(n, d) \in TWires /\ FirstWire(n, d).data = d
           /\ MoreWire(d) \in TWires /\ MoreWire(d).data = d
           /\ LastWire(d) \in TWires /\ LastWire(d).data = d
<1>1. 0 \in 0..MaxMsg
  BY FragAssumption
<1>. QED  BY <1>1 DEF FirstWire, MoreWire, LastWire, Wire, TWires

LEMMA ControlTyped ==
    /\ Ack \in TWires /\ Ack.data.msg = NoMsg
    /\ StartWire \in TWires /\ StartWire.data.msg = NoMsg
<1>1. 0 \in 0..MaxMsg
  BY FragAssumption
<1>2. Ack \in TWires /\ Ack.data = Empty
  BY <1>1, EmptyTyped, WireTyped DEF Ack
<1>3. StartWire \in TWires /\ StartWire.data = Empty
  BY <1>2 DEF StartWire, TWires
<1>. QED  BY <1>2, <1>3, EmptyTyped

(* Fragments keep to their message and to its buffer. *)
LEMMA FragmentTyped ==
    ASSUME NEW out \in TOuts, Pending(out)
    PROVE  /\ EncodeEdhocFragment(out) \in TWires
           /\ FragLen(out) \in 1..(out.len - out.pos)
           /\ EncodeEdhocFragment(out).data.msg = out.msg
<1>. USE FragAssumption
<1>1. FragLen(out) \in 1..(out.len - out.pos)
  BY DEF TOuts, Pending, FragLen, FragCap, Remaining, EDHOC_FRAG_FIRST_CAP, EDHOC_FRAG_NEXT_CAP
<1>2. out.len \in 0..MaxMsg /\ out.pos \in 0..MaxMsg /\ out.msg \in TMsgs
  BY DEF TOuts
<1>3. out.len % 65536 = out.len
  BY <1>2
<1>. DEFINE d == Slice(out.msg, out.pos, FragLen(out))
<1>4. d \in TRuns /\ d.msg = out.msg
  BY <1>1, <1>2 DEF Slice, TRuns
<1>5. EncodeEdhocFragment(out) \in {LastWire(d), FirstWire(out.len, d), MoreWire(d)}
  BY <1>3 DEF EncodeEdhocFragment
<1>. HIDE DEF d
<1>. QED  BY <1>1, <1>2, <1>4, <1>5, WireTyped

LEMMA AdvanceTyped ==
    ASSUME NEW out \in TOuts, Pending(out)
    PROVE  /\ UeAdvance(out) \in TOuts /\ UeAdvance(out).msg = out.msg
           /\ AaaAdvance(out) \in TOuts /\ AaaAdvance(out).msg \in {NoMsg, out.msg}
<1>1. FragLen(out) \in 1..(out.len - out.pos)
  BY FragmentTyped
<1>2. MaxMsg \in Nat /\ out \in [msg: TMsgs, len: 0..MaxMsg, pos: 0..MaxMsg]
  BY FragAssumption DEF TOuts
<1>3. out.pos + FragLen(out) \in 0..MaxMsg /\ out.pos + FragLen(out) <= out.len
  BY <1>1, <1>2
<1>4. UeAdvance(out) \in TOuts /\ UeAdvance(out).msg = out.msg
  BY <1>2, <1>3 DEF UeAdvance, TOuts
<1>. QED  BY <1>4, EmptyTyped DEF AaaAdvance

(* A new message: the first fragment and what is left. *)
LEMMA NewOutTyped ==
    ASSUME NEW m \in TMsgs, NEW n \in 1..MaxMsg
    PROVE  /\ NewOut(m, n) \in TOuts /\ Pending(NewOut(m, n)) /\ NewOut(m, n).msg = m
BY FragAssumption DEF NewOut, TOuts, Pending

LEMMA QueueTyped ==
    ASSUME NEW m \in TMsgs, NEW n \in 1..MaxMsg
    PROVE  /\ QueueWire(m, n) \in TWires /\ QueueOut(m, n) \in TOuts
           /\ QueueWire(m, n).data.msg = m /\ QueueOut(m, n).msg \in {NoMsg, m}
<1>1. NewOut(m, n) \in TOuts /\ Pending(NewOut(m, n)) /\ NewOut(m, n).msg = m
  BY NewOutTyped
<1>2. Slice(m, 0, n) \in TRuns /\ Slice(m, 0, n).msg = m
  BY FragAssumption DEF Slice, TRuns
<1>. QED
  BY <1>1, <1>2, EmptyTyped, WireTyped, FragmentTyped, AdvanceTyped DEF QueueWire, QueueOut

(* The bytes of a join come from the runs joined, or are junk. *)
LEMMA JoinTyped ==
    ASSUME NEW a \in TRuns, NEW b \in TRuns, a.len + b.len <= MaxMsg
    PROVE  /\ Join(a, b) \in TRuns /\ Join(a, b).len = a.len + b.len
           /\ Join(a, b).msg \in {Junk, a.msg, b.msg}
BY FragAssumption DEF Join, TRuns, TMsgs

(* What ParseEdhocWire stores and hands on. *)
LEMMA ParseTyped ==
    ASSUME NEW in \in TIns, NEW w \in TWires
    PROVE  LET r == ParseEdhocWire(in, w)
               known == {NoMsg, Junk, in.data.msg, w.data.msg}
           IN  /\ r.status \in {"error", "ack", "msg"}
               /\ r.in \in TIns /\ r.in.data.msg \in known
               /\ r.msg \in TRuns /\ r.msg.msg \in known
<1>. DEFINE in1 == Announced(in, w)
            in2 == Stored(in1, w)
            known == {NoMsg, Junk, in.data.msg, w.data.msg}
<1>. USE FragAssumption
<1>1. Empty \in TRuns /\ Empty.msg = NoMsg /\ Empty.len = 0
  BY EmptyTyped
<1>2. NoIn \in TIns /\ NoIn.data.msg = NoMsg
  BY EmptyTyped
<1>3. in1 \in TIns /\ in1.data.msg \in {NoMsg, in.data.msg}
  BY <1>1 DEF Announced, TIns, TWires
<1>4. w.data \in TRuns /\ in1.data \in TRuns /\ in1.data.len = in1.pos /\ in1.pos <= in1.len
      /\ in1.len \in 0..MaxMsg /\ in1.pos \in 0..MaxMsg
  BY <1>3 DEF TWires, TIns
<1>. HIDE DEF in1
<1>5. ASSUME in2.pos <= in1.len
      PROVE  in2 \in TIns /\ in2.data \in TRuns /\ in2.data.msg \in known
  <2>1. in2.len = in1.len /\ in2.pos = in1.pos + w.data.len /\ in2.data = Join(in1.data, w.data)
        /\ in2 = [len |-> in2.len, pos |-> in2.pos, data |-> in2.data]
    BY DEF Stored
  <2>2. w.data.len \in 0..MaxMsg
    BY <1>4 DEF TRuns
  <2>3. in1.data.len + w.data.len <= MaxMsg
    BY <1>4, <1>5, <2>1, <2>2
  <2>4. in2.data \in TRuns /\ in2.data.len = in2.pos /\ in2.data.msg \in known
    BY <2>1, <2>3, <1>3, <1>4, JoinTyped
  <2>5. in2.pos \in 0..MaxMsg /\ in2.len \in 0..MaxMsg
    BY <2>1, <2>2, <1>4, <1>5
  <2>. HIDE DEF in2
  <2>. QED  BY <2>1, <2>4, <2>5, <1>5 DEF TIns
<1>. HIDE DEF in2, known
<1>6. \/ ParseEdhocWire(in, w) \in
           {Parsed("error", in, Empty), Parsed("error", in1, Empty), Parsed("msg", in1, w.data)}
      \/ /\ in2.pos <= in1.len
         /\ ParseEdhocWire(in, w) \in
               {Parsed("ack", in2, Empty), Parsed("error", in2, Empty), Parsed("msg", NoIn, in2.data)}
  <2>1. in2.pos \in Int /\ in1.len \in Int
    <3>1. w.data.len \in 0..MaxMsg
      BY <1>4 DEF TRuns
    <3>. QED  BY <1>4, <3>1 DEF in2, Stored
  <2>. QED  BY <2>1 DEF ParseEdhocWire, in1, in2
<1>7. \A st, i, m : Parsed(st, i, m).status = st /\ Parsed(st, i, m).in = i /\ Parsed(st, i, m).msg = m
  BY DEF Parsed
<1>8. NoMsg \in known /\ in.data.msg \in known /\ w.data.msg \in known /\ in1.data.msg \in known
  BY <1>3 DEF known
<1>. QED
  BY <1>1, <1>2, <1>3, <1>4, <1>5, <1>6, <1>7, <1>8 DEF known
-----------------------------------------------------------------------------
(* The queues, element by element. *)
LEMMA TailFacts ==
    ASSUME NEW S, NEW q \in Seq(S), q # << >>
    PROVE  /\ Tail(q) \in Seq(S) /\ Head(q) \in S /\ Head(q) = q[1]
           /\ Len(q) \in Nat \ {0} /\ Len(Tail(q)) = Len(q) - 1
           /\ \A i \in 1..(Len(q) - 1) : Tail(q)[i] = q[i + 1]
OBVIOUS

LEMMA AppendFacts ==
    ASSUME NEW S, NEW q \in Seq(S), NEW m \in S
    PROVE  /\ Append(q, m) \in Seq(S) /\ Len(Append(q, m)) = Len(q) + 1
           /\ \A i \in 1..Len(q) : Append(q, m)[i] = q[i]
           /\ Append(q, m)[Len(q) + 1] = m
OBVIOUS

LEMMA RemoveFacts ==
    ASSUME NEW S, NEW q \in Seq(S), NEW i \in 1..Len(q)
    PROVE  /\ RemoveAt(q, i) \in Seq(S) /\ Len(RemoveAt(q, i)) = Len(q) - 1
           /\ \A j \in 1..(Len(q) - 1) : RemoveAt(q, i)[j] = q[IF j < i THEN j ELSE j + 1]
<1>. DEFINE a == SubSeq(q, 1, i - 1)
            b == SubSeq(q, i + 1, Len(q))
<1>0. Len(q) \in Nat /\ i \in Nat
  OBVIOUS
<1>1. a \in Seq(S) /\ Len(a) = i - 1 /\ \A j \in 1..(i - 1) : a[j] = q[j]
  BY SubSeqProperties
<1>2. b \in Seq(S) /\ Len(b) = Len(q) - i /\ \A j \in 1..(Len(q) - i) : b[j] = q[i + j]
  <2>1. /\ b \in Seq(S)
        /\ Len(b) = IF i + 1 <= Len(q) THEN Len(q) - (i + 1) + 1 ELSE 0
        /\ \A j \in 1..(Len(q) - (i + 1) + 1) : b[j] = q[(i + 1) + j - 1]
    BY SubSeqProperties
  <2>. QED  BY <2>1
<1>. HIDE DEF a, b
<1>3. RemoveAt(q, i) = a \o b
  BY DEF RemoveAt, a, b
<1>4. /\ a \o b \in Seq(S) /\ Len(a \o b) = Len(a) + Len(b)
      /\ \A j \in 1..(Len(a) + Len(b)) : (a \o b)[j] = IF j <= Len(a) THEN a[j] ELSE b[j - Len(a)]
  BY <1>1, <1>2, ConcatProperties
<1>. QED  BY <1>1, <1>2, <1>3, <1>4

LEMMA ClosedFacts ==
    ASSUME NEW q \in Seq(TRequests)
    PROVE  /\ Closed(q) \in Seq(TRequests) /\ Len(Closed(q)) = Len(q)
           /\ \A i \in 1..Len(q) : /\ Closed(q)[i].state = q[i].state /\ Closed(q)[i].eap = q[i].eap
                                   /\ Closed(q)[i].open = FALSE
<1>1. DOMAIN q = 1..Len(q) /\ Len(q) \in Nat
  OBVIOUS
<1>2. ASSUME NEW i \in 1..Len(q)
      PROVE  /\ [q[i] EXCEPT !.open = FALSE] \in TRequests
             /\ [q[i] EXCEPT !.open = FALSE].state = q[i].state
             /\ [q[i] EXCEPT !.open = FALSE].eap = q[i].eap
             /\ [q[i] EXCEPT !.open = FALSE].open = FALSE
  <2>1. q[i] \in TRequests
    OBVIOUS
  <2>. QED  BY <2>1 DEF TRequests
<1>3. Closed(q) = [i \in 1..Len(q) |-> [q[i] EXCEPT !.open = FALSE]]
  BY <1>1 DEF Closed
<1>4. Closed(q) \in [1..Len(q) -> TRequests]
  BY <1>2, <1>3
<1>5. Closed(q) \in Seq(TRequests) /\ Len(Closed(q)) = Len(q)
  BY <1>1, <1>4
<1>6. \A i \in 1..Len(q) : Closed(q)[i] = [q[i] EXCEPT !.open = FALSE]
  BY <1>3
<1>. QED  BY <1>2, <1>5, <1>6

-----------------------------------------------------------------------------
(* A fresh initiator context. *)
LEMMA InitiatorTyped ==
    ASSUME NEW e \in Nat
    PROVE  edhoc4_init_initiator(e) \in Ctxs
<1>1. NoCtx \in Ctxs
  BY DEF NoCtx, Ctxs
<1>. QED  BY <1>1 DEF Ctxs, edhoc4_init_initiator

(* The UE takes the next message and, unless it is a result, answers it with a
   wire or a 5GSM STATUS. *)
UeReplies == sendSmCause \/ \E w \in TWires : ueReply(w)

LEMMA UeTypes ==
    ASSUME UeTyped, N1Typed, receivePduSessionAuthenticationCommand
    PROVE  UeTyped' /\ UeReplies /\ Waiting(nasDl, "command")
<1>. USE DEF UeTyped
<1>0. ASSUME Waiting(nasDl, "command") PROVE ueWire \in TWires
  <2>1. Head(nasDl) \in DlMsgs /\ Head(nasDl).kind = "command"
    BY <1>0, TailFacts DEF N1Typed, Waiting
  <2>. QED  BY <2>1 DEF DlMsgs, TPackets, ueWire
<1>1. ASSUME Waiting(nasDl, "command")
      PROVE  /\ ueParsed.in \in TIns /\ ueParsed.msg \in TRuns
  BY <1>0, <1>1, ParseTyped DEF ueParsed
<1>2. CASE UeNotProvisioned
  BY <1>2 DEF UeNotProvisioned, ueVars, UeReplies, Msk
<1>3. CASE UeContinueResponse
  <2>1. EncodeEdhocFragment(ueOut) \in TWires /\ UeAdvance(ueOut) \in TOuts
    BY <1>3, FragmentTyped, AdvanceTyped DEF UeContinueResponse
  <2>. QED  BY <1>3, <2>1 DEF UeContinueResponse, ensureEdhocProvisioned, UeReplies, Msk
<1>4. CASE UeInvalidStart
  BY <1>4 DEF UeInvalidStart, ensureEdhocProvisioned, UeReplies, Msk
<1>5. CASE UeStart
  <2>. DEFINE m1 == EdhocMsg("msg1", ueEph + 1, 0)
              o1 == NewOut(m1, Msg1Len)
  <2>1. m1 \in TMsgs /\ Msg1Len \in 1..MaxMsg
    BY MsgLenAssumption DEF EdhocMsg, TMsgs, FirstTypes
  <2>2. o1 \in TOuts /\ Pending(o1)
    BY <2>1, NewOutTyped
  <2>3. EncodeEdhocFragment(o1) \in TWires /\ UeAdvance(o1) \in TOuts
    BY <2>2, FragmentTyped, AdvanceTyped
  <2>4. ueEph + 1 \in Nat
    OBVIOUS
  <2>5. edhoc4_init_initiator(ueEph + 1) \in Ctxs
    BY <2>4, InitiatorTyped
  <2>6. /\ Waiting(nasDl, "command") /\ ueRound' = 1 /\ ueCtx' = edhoc4_init_initiator(ueEph + 1)
        /\ ueEph' = ueEph + 1 /\ ueOut' = UeAdvance(o1) /\ ueReply(EncodeEdhocFragment(o1))
        /\ UNCHANGED <<ueIn, ueKeys, ueConfirmed, ueCreds>> /\ ueProvisioned' = TRUE
    BY <1>5 DEF UeStart, ensureEdhocProvisioned
  <2>. HIDE DEF o1
  <2>7. <<ueCreds, ueProvisioned>>' \in BOOLEAN \X BOOLEAN
    BY <2>6
  <2>. QED
    BY <2>3, <2>4, <2>5, <2>6, <2>7 DEF UeReplies
<1>6. CASE UeParseError
  BY <1>6, <1>1 DEF UeParseError, UeReceiving, ensureEdhocProvisioned, UeReplies, Msk
<1>7. CASE UeAckFragment
  BY <1>7, <1>1, ControlTyped DEF UeAckFragment, UeReceiving, ensureEdhocProvisioned, UeReplies, Msk
<1>8. CASE UeHandleMsg2
  <2>. DEFINE ctx == edhoc4_i_handle_msg2(ueCtx, ueParsed.msg)
              m3 == EdhocMsg("msg3", ctx.eph, ctx.sid)
              o3 == NewOut(m3, Msg3Len)
  <2>1. Waiting(nasDl, "command") /\ Whole(ueParsed.msg, "msg2")
    BY <1>8 DEF UeHandleMsg2, UeReceiving, ensureEdhocProvisioned, edhoc4_i_handle_msg2_ok
  <2>2. ueParsed.msg.msg.sid \in Sids
    BY <2>1, <1>1 DEF Whole, TRuns, TMsgs, FirstTypes
  <2>3. ctx \in Ctxs /\ ctx.sid \in Sids /\ ctx.eph \in Nat /\ Msk(ctx) \in Nat \X Sids
    BY <2>2 DEF edhoc4_i_handle_msg2, Ctxs, Msk
  <2>4. m3 \in TMsgs /\ Msg3Len \in 1..MaxMsg
    BY <2>3, MsgLenAssumption DEF EdhocMsg, TMsgs, FirstTypes, MsgTypes
  <2>5. EncodeEdhocFragment(o3) \in TWires /\ UeAdvance(o3) \in TOuts
    BY <2>4, NewOutTyped, FragmentTyped, AdvanceTyped
  <2>6. /\ ueRound' = 2 /\ ueCtx' = ctx /\ ueKeys' = ueKeys \cup {Msk(ctx)} /\ ueIn' = ueParsed.in
        /\ ueOut' = UeAdvance(o3) /\ ueReply(EncodeEdhocFragment(o3))
        /\ UNCHANGED <<ueEph, ueConfirmed, ueCreds>> /\ ueProvisioned' = TRUE
    BY <1>8 DEF UeHandleMsg2, UeReceiving, ensureEdhocProvisioned
  <2>. HIDE DEF ctx, o3
  <2>. QED
    BY <2>1, <2>3, <2>5, <2>6, <1>1 DEF UeReplies, Msk
<1>9. CASE UeHandleMsg4
  <2>1. edhoc4_i_handle_msg4(ueCtx) \in Ctxs /\ Msk(edhoc4_i_handle_msg4(ueCtx)) = Msk(ueCtx)
        /\ edhoc4_i_handle_msg4(ueCtx).sid = ueCtx.sid
    BY DEF edhoc4_i_handle_msg4, Ctxs, Msk
  <2>2. /\ Waiting(nasDl, "command") /\ ueRound = 2 /\ ueRound' = 3 /\ ueCtx' = edhoc4_i_handle_msg4(ueCtx)
        /\ ueConfirmed' = ueConfirmed \cup {Msk(ueCtx)} /\ ueIn' = ueParsed.in /\ ueReply(Ack)
        /\ UNCHANGED <<ueOut, ueEph, ueKeys, ueCreds>> /\ ueProvisioned' = TRUE
    BY <1>9 DEF UeHandleMsg4, UeReceiving, ensureEdhocProvisioned
  <2>3. Msk(ueCtx)' = Msk(ueCtx)
    BY <2>1, <2>2 DEF Msk
  <2>. QED
    BY <2>1, <2>2, <2>3, <1>1, ControlTyped DEF UeReplies
<1>10. CASE UeAckWhenDone
  BY <1>10, <1>1, ControlTyped DEF UeAckWhenDone, UeReceiving, ensureEdhocProvisioned, UeReplies, Msk
<1>11. CASE UeProtocolError
  <2>1. /\ Waiting(nasDl, "command") /\ ueRound' = -1 /\ ueIn' = NoIn /\ ueOut' = NoOut /\ sendSmCause
        /\ UNCHANGED <<ueCtx, ueEph, ueKeys, ueConfirmed, ueCreds>> /\ ueProvisioned' = TRUE
    BY <1>11 DEF UeProtocolError, UeReceiving, ensureEdhocProvisioned
  <2>2. ueRound' \in {-1, 1, 2, 3} /\ ueRound' \notin {2, 3}
    BY <2>1
  <2>3. <<ueCreds, ueProvisioned>>' \in BOOLEAN \X BOOLEAN
    BY <2>1
  <2>. QED  BY <2>1, <2>2, <2>3, EmptyTyped DEF UeReplies
<1>. QED
  BY <1>2, <1>3, <1>4, <1>5, <1>6, <1>7, <1>8, <1>9, <1>10, <1>11
     DEF receivePduSessionAuthenticationCommand

-----------------------------------------------------------------------------
(* The DN-AAA, as the rest of the system sees it: a request for a listed session
   at its current State and identifier leads to the next challenge or ends the
   session; what else becomes of the session is of its type. *)
Served(s, sess) ==
    sess.status = "listed" /\ sess.trip = aaa[s].trip /\ sess.id = aaa[s].id

Continues(i, s) ==
    /\ Matches(radiusReq[i], s)
    /\ \E sess \in TSessions, w \in TWires : Served(s, sess) /\ Challenge(i, s, sess, w)

Ends(i, s) ==
    /\ Matches(radiusReq[i], s)
    /\ \E sess \in TSessions :
          /\ Served(s, sess)
          /\ Fail(i, s, sess) \/ Conclude(i, s, sess, "success", AccessAccept)

AaaActs(i) ==
    \/ mod_session_init(i) \/ RejectUnknown(i)
    \/ \E s \in Sids : Continues(i, s) \/ Ends(i, s)

LEMMA ResponderTyped ==
    ASSUME NEW s \in Sids, NEW e \in Nat
    PROVE  /\ [edhoc4_init_responder(s) EXCEPT !.eph = e] \in Ctxs
           /\ [edhoc4_init_responder(s) EXCEPT !.eph = e].sid = s
           /\ [edhoc4_init_responder(s) EXCEPT !.eph = e].eph = e
<1>1. NoCtx \in Ctxs
  BY DEF NoCtx, Ctxs
<1>2. edhoc4_init_responder(s) \in Ctxs /\ edhoc4_init_responder(s).sid = s
  BY <1>1 DEF Ctxs, edhoc4_init_responder
<1>. QED  BY <1>2 DEF Ctxs

(* A request the DN-AAA matches with a session carries an EDHOC wire. *)
LEMMA MatchedTyped ==
    ASSUME NEW req \in TRequests, NEW s \in Sids, Matches(req, s)
    PROVE  req.eap \in TPackets /\ req.eap.wire \in TWires /\ req.state \in TStates
BY DEF Matches, TRequests, TPackets

LEMMA AaaShape ==
    ASSUME AaaTyped, RadiusTyped, AaaNext
    PROVE  \E i \in DOMAIN radiusReq : AaaActs(i)
<1>1. PICK i \in DOMAIN radiusReq :
          \/ mod_session_init(i) \/ RejectUnknown(i)
          \/ \E s \in Sids : AbortTrips(i, s) \/ mod_process(i, s)
  BY DEF AaaNext
<1>2. radiusReq[i] \in TRequests
  BY DEF RadiusTyped
<1>3. ASSUME NEW s \in Sids, AbortTrips(i, s) \/ mod_process(i, s)
      PROVE  Continues(i, s) \/ Ends(i, s)
  <2>. DEFINE old == aaa[s]
  <2>0. old \in TSessions
    BY DEF AaaTyped
  <2>1. Matches(radiusReq[i], s)
    BY <1>3 DEF AbortTrips, mod_process, SendNextFragment, FailParse, AckFragment, ProcessMsg1,
                ProcessClassic1, ProcessMsg3, SucceedClassic, Succeed, FailRound, Receiving, Processing
  <2>2. Served(s, old)
    BY <2>1 DEF Matches, Served
  <2>3. radiusReq[i].eap.wire \in TWires
    BY <1>2, <2>1, MatchedTyped
  <2>4. Consumed(i, s).in \in TIns /\ Got(i, s) \in TRuns
    <3>1. old.in \in TIns
      BY <2>0 DEF TSessions
    <3>. QED  BY <2>3, <3>1, ParseTyped DEF Consumed, Got
  <2>5. After(i, s) \in TSessions /\ Served(s, After(i, s)) /\ After(i, s).round = old.round
        /\ After(i, s).ctx = old.ctx
    BY <2>0, <2>2, <2>4 DEF After, TSessions, Served
  <2>6. CASE AbortTrips(i, s)
    BY <2>0, <2>1, <2>2, <2>6 DEF AbortTrips, Ends
  <2>7. CASE SendNextFragment(i, s)
    <3>1. old.out \in TOuts /\ Pending(old.out)
      BY <2>0, <2>7 DEF SendNextFragment, TSessions
    <3>2. EncodeEdhocFragment(old.out) \in TWires /\ AaaAdvance(old.out) \in TOuts
      BY <3>1, FragmentTyped, AdvanceTyped
    <3>3. [old EXCEPT !.out = AaaAdvance(old.out)] \in TSessions
          /\ Served(s, [old EXCEPT !.out = AaaAdvance(old.out)])
      BY <2>0, <2>2, <3>2 DEF TSessions, Served
    <3>. QED  BY <2>1, <2>7, <3>2, <3>3 DEF SendNextFragment, Continues
  <2>8. CASE FailParse(i, s) \/ FailRound(i, s) \/ Succeed(i, s)
    BY <2>1, <2>5, <2>8 DEF FailParse, FailRound, Succeed, Ends
  <2>9. CASE AckFragment(i, s)
    BY <2>1, <2>5, <2>9, ControlTyped DEF AckFragment, Continues
  <2>10. ASSUME NEW ctx \in Ctxs, ctx.sid \in Sids, NEW md \in {3, 4}, NEW rd \in 1..2,
                NEW t \in MsgTypes \ FirstTypes, NEW n \in 1..MaxMsg
         PROVE  LET m == EdhocMsg(t, ctx.eph, ctx.sid)
                    new == [After(i, s) EXCEPT !.mode = md, !.round = rd, !.ctx = ctx, !.out = QueueOut(m, n)]
                    new2 == [After(i, s) EXCEPT !.round = rd, !.ctx = ctx, !.out = QueueOut(m, n)]
                IN  /\ new \in TSessions /\ Served(s, new) /\ new2 \in TSessions /\ Served(s, new2)
                    /\ QueueWire(m, n) \in TWires
    <3>1. EdhocMsg(t, ctx.eph, ctx.sid) \in TMsgs
      BY <2>10 DEF EdhocMsg, TMsgs, Ctxs
    <3>2. QueueWire(EdhocMsg(t, ctx.eph, ctx.sid), n) \in TWires
          /\ QueueOut(EdhocMsg(t, ctx.eph, ctx.sid), n) \in TOuts
      BY <3>1, QueueTyped
    <3>. DEFINE o == QueueOut(EdhocMsg(t, ctx.eph, ctx.sid), n)
    <3>. HIDE DEF o
    <3>3. ASSUME NEW r \in TSessions, NEW q \in TOuts
          PROVE  /\ [r EXCEPT !.mode = md, !.round = rd, !.ctx = ctx, !.out = q] \in TSessions
                 /\ [r EXCEPT !.round = rd, !.ctx = ctx, !.out = q] \in TSessions
      <4>1. rd \in 0..2 /\ md \in {0, 3, 4}
        OBVIOUS
      <4>2. ASSUME NEW m \in {0, 3, 4}
            PROVE  [r EXCEPT !.mode = m, !.round = rd, !.ctx = ctx, !.out = q] \in TSessions
        BY <2>10, <4>1, <4>2 DEF TSessions
      <4>3. r.mode \in {0, 3, 4}
            /\ [r EXCEPT !.round = rd, !.ctx = ctx, !.out = q]
                  = [r EXCEPT !.mode = r.mode, !.round = rd, !.ctx = ctx, !.out = q]
        BY DEF TSessions
      <4>. QED  BY <4>1, <4>2, <4>3
    <3>4. ASSUME NEW r \in TSessions, NEW q \in TOuts, Served(s, r)
          PROVE  /\ Served(s, [r EXCEPT !.mode = md, !.round = rd, !.ctx = ctx, !.out = q])
                 /\ Served(s, [r EXCEPT !.round = rd, !.ctx = ctx, !.out = q])
      BY <3>4 DEF TSessions, Served
    <3>. QED  BY <2>5, <3>2, <3>3, <3>4
  <2>11. CASE ProcessMsg1(i, s)
    <3>. DEFINE ctx == edhoc4_r_handle_msg1(edhoc4_init_responder(s), Got(i, s))
                m2 == EdhocMsg("msg2", ctx.eph, ctx.sid)
                new == [After(i, s) EXCEPT !.mode = 4, !.round = 1, !.ctx = ctx,
                                           !.out = QueueOut(m2, Msg2Len)]
    <3>1. Got(i, s).msg.eph \in Nat
      BY <2>4, <2>11 DEF ProcessMsg1, edhoc4_r_handle_msg1_ok, Whole, TRuns, TMsgs
    <3>2. ctx \in Ctxs /\ ctx.sid \in Sids
      BY <3>1, ResponderTyped DEF edhoc4_r_handle_msg1
    <3>3. "msg2" \in MsgTypes \ FirstTypes /\ Msg2Len \in 1..MaxMsg /\ 1 \in 1..2 /\ 4 \in {3, 4}
      BY MsgLenAssumption DEF MsgTypes, FirstTypes
    <3>4. Challenge(i, s, new, QueueWire(m2, Msg2Len))
      BY <2>11 DEF ProcessMsg1
    <3>. HIDE DEF ctx
    <3>5. new \in TSessions /\ Served(s, new) /\ QueueWire(m2, Msg2Len) \in TWires
      BY <2>10, <3>2, <3>3
    <3>. QED  BY <2>1, <3>4, <3>5 DEF Continues
  <2>12. CASE ProcessClassic1(i, s)
    <3>. DEFINE ctx == edhoc03_r_handle_msg1(edhoc4_init_responder(s), Got(i, s))
                m2 == EdhocMsg("classic2", ctx.eph, ctx.sid)
                new == [After(i, s) EXCEPT !.mode = 3, !.round = 1, !.ctx = ctx,
                                           !.out = QueueOut(m2, Classic2Len)]
    <3>1. Got(i, s).msg.eph \in Nat
      BY <2>4, <2>12 DEF ProcessClassic1, edhoc03_r_handle_msg1_ok, Whole, TRuns, TMsgs
    <3>2. ctx \in Ctxs /\ ctx.sid \in Sids
      BY <3>1, ResponderTyped DEF edhoc03_r_handle_msg1
    <3>3. "classic2" \in MsgTypes \ FirstTypes /\ Classic2Len \in 1..MaxMsg /\ 1 \in 1..2 /\ 3 \in {3, 4}
      BY MsgLenAssumption DEF MsgTypes, FirstTypes
    <3>4. Challenge(i, s, new, QueueWire(m2, Classic2Len))
      BY <2>12 DEF ProcessClassic1
    <3>. HIDE DEF ctx
    <3>5. new \in TSessions /\ Served(s, new) /\ QueueWire(m2, Classic2Len) \in TWires
      BY <2>10, <3>2, <3>3
    <3>. QED  BY <2>1, <3>4, <3>5 DEF Continues
  <2>13. CASE ProcessMsg3(i, s)
    <3>. DEFINE ctx == edhoc4_r_handle_msg3(old.ctx)
                m4 == EdhocMsg("msg4", ctx.eph, ctx.sid)
                new == [After(i, s) EXCEPT !.round = 2, !.ctx = ctx, !.out = QueueOut(m4, Msg4Len)]
    <3>1. old.ctx \in Ctxs /\ old.ctx.sid \in Sids
      BY <2>0, <2>13 DEF ProcessMsg3, TSessions
    <3>2. ctx \in Ctxs /\ ctx.sid \in Sids
      BY <3>1 DEF edhoc4_r_handle_msg3, Ctxs
    <3>3. "msg4" \in MsgTypes \ FirstTypes /\ Msg4Len \in 1..MaxMsg /\ 2 \in 1..2
      BY MsgLenAssumption DEF MsgTypes, FirstTypes
    <3>4. Challenge(i, s, new, QueueWire(m4, Msg4Len))
      BY <2>13 DEF ProcessMsg3
    <3>. HIDE DEF ctx
    <3>5. new \in TSessions /\ Served(s, new) /\ QueueWire(m4, Msg4Len) \in TWires
      BY <2>10, <3>2, <3>3
    <3>. QED  BY <2>1, <3>4, <3>5 DEF Continues
  <2>14. CASE SucceedClassic(i, s)
    <3>. DEFINE new == [After(i, s) EXCEPT !.ctx = edhoc03_r_handle_msg3(old.ctx)]
    <3>1. old.ctx \in Ctxs /\ old.ctx.sid \in Sids
      BY <2>0, <2>14 DEF SucceedClassic, TSessions
    <3>2. edhoc03_r_handle_msg3(old.ctx) \in Ctxs /\ edhoc03_r_handle_msg3(old.ctx).sid \in Sids
      BY <3>1 DEF edhoc03_r_handle_msg3, Ctxs
    <3>3. new \in TSessions /\ Served(s, new)
      BY <2>5, <3>2 DEF TSessions, Served
    <3>. QED  BY <2>1, <2>14, <3>3 DEF SucceedClassic, Ends
  <2>. QED
    BY <1>3, <2>6, <2>7, <2>8, <2>9, <2>11, <2>12, <2>13, <2>14 DEF mod_process
<1>. QED  BY <1>1, <1>3 DEF AaaActs

-----------------------------------------------------------------------------
(* Types: every step keeps them. *)
LEMMA UeRepliesTyped ==
    ASSUME N1Typed, Waiting(nasDl, "command"), UeReplies
    PROVE  N1Typed'
<1>1. Head(nasDl) \in DlMsgs /\ Head(nasDl).kind = "command" /\ Tail(nasDl) \in Seq(DlMsgs)
  BY TailFacts DEF N1Typed, Waiting
<1>2. Head(nasDl).psi \in Psis /\ Head(nasDl).eap \in TPackets /\ Head(nasDl).eap.id \in Nat
  BY <1>1 DEF DlMsgs, TPackets
<1>3. CASE sendSmCause
  <2>1. Status(Head(nasDl).psi) \in UlMsgs
    BY <1>2 DEF Status, UlMsgs
  <2>. QED  BY <1>1, <1>3, <2>1, AppendFacts DEF sendSmCause, N1Typed
<1>4. ASSUME NEW w \in TWires, ueReply(w)  PROVE N1Typed'
  <2>1. Complete(Head(nasDl).psi, EdhocPacket(Head(nasDl).eap.id, w)) \in UlMsgs
    BY <1>2 DEF Complete, EdhocPacket, UlMsgs, TPackets
  <2>. QED  BY <1>1, <1>4, <2>1, AppendFacts DEF ueReply, N1Typed
<1>. QED  BY <1>3, <1>4 DEF UeReplies

LEMMA UeKeepsTypes ==
    ASSUME TypeInv, UeStep
    PROVE  TypeInv'
<1>1. CASE receivePduSessionAuthenticationCommand
  <2>1. UeTyped' /\ N1Typed'
    BY <1>1, UeTypes, UeRepliesTyped DEF TypeInv
  <2>. QED
    BY <2>1 DEF UeStep, TypeInv, SmfTyped, AaaTyped, RelayTyped, RadiusTyped, smfVars, relayVars,
                aaaVars, relayLinkVars, radiusVars
<1>2. CASE receivePduSessionAuthenticationResult
  <2>1. nasDl' \in Seq(DlMsgs) /\ nasUl' = nasUl /\ UNCHANGED ueVars
    BY <1>2, TailFacts DEF receivePduSessionAuthenticationResult, Waiting, TypeInv, N1Typed
  <2>. QED
    BY <2>1 DEF UeStep, TypeInv, UeTyped, SmfTyped, AaaTyped, N1Typed, RelayTyped, RadiusTyped, ueVars,
                smfVars, relayVars, aaaVars, relayLinkVars, radiusVars, Msk
<1>. QED  BY <1>1, <1>2 DEF UeStep, UeNext

(* The SMF's part of a step: its own state and the links it touches. *)
LEMMA SmfFinishTyped ==
    ASSUME SmfTyped, N1Typed, NEW p \in Psis, NEW v \in {"accept", "reject", "error"}, SmfFinish(p, v)
    PROVE  SmfTyped' /\ N1Typed'
<1>1. Result(p, v) \in DlMsgs
  BY DEF Result, DlMsgs
<1>2. smf' \in [Psis -> SmfType]
  BY DEF SmfFinish, SmfTyped, SmfType
<1>. QED  BY <1>1, <1>2, AppendFacts DEF SmfFinish, SmfTyped, N1Typed

LEMMA ExchangeTyped ==
    ASSUME RelayTyped, SmfTyped, NEW p \in Psis, NEW st, NEW e, RelayRequest(st, e) \in TRequests,
           Exchange(p, st, e)
    PROVE  /\ relayReq' \in Seq(TRequests) /\ relayRsp' \in TResponses
           /\ smfWait' \in Psis \cup {NoPsi} /\ smfSetups' \in 0..MaxSetups
BY AppendFacts DEF RelayTyped, SmfTyped, Exchange

LEMMA SmfKeepsTypes ==
    ASSUME TypeInv, SmfStep \/ RanStep
    PROVE  TypeInv'
<1>. USE DEF TypeInv
<1>1. UeTyped' /\ AaaTyped' /\ RadiusTyped' /\ faults' \in 0..MaxFaults /\ relayCur' = relayCur
  BY DEF SmfStep, RanStep, ueVars, aaaVars, radiusVars, relayVars, UeTyped, AaaTyped, RadiusTyped, Msk
<1>2. PICK p \in Psis :
          \/ SmfSetupResponse(p)
          \/ smf_timer_sec_auth_start(p)
          \/ smf_start_secondary_auth(p) \/ SmfStartIgnored(p)
          \/ smf_handle_secondary_auth_complete(p) \/ SmfUnknownMessage(p)
          \/ SmfChallenge(p) \/ SmfVerdict(p)
  BY DEF SmfStep, RanStep, SmfNext
<1>3. smf[p] \in SmfType /\ smf \in [Psis -> SmfType] /\ MaxSetups \in Nat
  BY SmfAssumption DEF SmfTyped
<1>4. ASSUME SmfTyped', N1Typed', relayReq' \in Seq(TRequests), relayRsp' \in TResponses
      PROVE  TypeInv'
  BY <1>1, <1>4 DEF RelayTyped
<1>5. CASE SmfSetupResponse(p)
  <2>. DEFINE b == smf[p].timer \/ ~smf[p].inProgress
  <2>1. b \in BOOLEAN /\ smf' = [smf EXCEPT ![p].timer = b]
    BY <1>5 DEF SmfSetupResponse
  <2>. HIDE DEF b
  <2>2. smf' \in [Psis -> SmfType]
    BY <1>3, <2>1 DEF SmfType
  <2>3. smfSetups' \in 0..MaxSetups /\ smfWait' = smfWait
    BY <1>3, <1>5 DEF SmfSetupResponse, SmfTyped
  <2>. QED
    BY <1>4, <1>5, <2>2, <2>3 DEF SmfSetupResponse, SmfTyped, N1Typed, RelayTyped, n1Vars, relayLinkVars
<1>6. CASE smf_timer_sec_auth_start(p)
  <2>0. smf[p].starts \in Nat /\ smf[p].starts + 1 \in Nat
    BY <1>3 DEF SmfType
  <2>1. smf' \in [Psis -> SmfType]
    BY <1>3, <1>6, <2>0 DEF smf_timer_sec_auth_start, SmfType
  <2>. QED
    BY <1>4, <1>6, <2>1 DEF smf_timer_sec_auth_start, SmfTyped, N1Typed, RelayTyped, n1Vars, relayLinkVars
<1>7. CASE smf_start_secondary_auth(p)
  <2>1. smf' \in [Psis -> SmfType]
    BY <1>3, <1>7 DEF smf_start_secondary_auth, SmfType
  <2>2. RelayRequest(NoState, Identity(1)) \in TRequests
    BY DEF RelayRequest, TRequests
  <2>. QED
    BY <1>4, <1>7, <2>1, <2>2, ExchangeTyped DEF smf_start_secondary_auth, SmfTyped, N1Typed, n1Vars
<1>8. CASE SmfStartIgnored(p)
  <2>1. smf' \in [Psis -> SmfType]
    BY <1>3, <1>8 DEF SmfStartIgnored, SmfType
  <2>. QED
    BY <1>4, <1>8, <2>1 DEF SmfStartIgnored, SmfTyped, N1Typed, RelayTyped, n1Vars, relayLinkVars
<1>9. CASE smf_handle_secondary_auth_complete(p)
  <2>1. Head(nasUl) \in UlMsgs /\ Tail(nasUl) \in Seq(UlMsgs) /\ Head(nasUl).kind = "complete"
    BY <1>9, TailFacts DEF smf_handle_secondary_auth_complete, Waiting, N1Typed
  <2>2. RelayRequest(smf[p].state, Head(nasUl).eap) \in TRequests
    BY <1>3, <2>1 DEF RelayRequest, TRequests, UlMsgs, SmfType
  <2>. QED
    BY <1>4, <1>9, <2>1, <2>2, ExchangeTyped DEF smf_handle_secondary_auth_complete, SmfTyped, N1Typed
<1>10. CASE SmfUnknownMessage(p)
  <2>1. Tail(nasUl) \in Seq(UlMsgs)
    BY <1>10, TailFacts DEF SmfUnknownMessage, Waiting, N1Typed
  <2>. QED
    BY <1>4, <1>10, <2>1 DEF SmfUnknownMessage, SmfTyped, N1Typed, RelayTyped, smfVars, relayLinkVars
<1>11. CASE SmfChallenge(p)
  <2>1. relayRsp.state \in TStates /\ relayRsp.eap \in TPackets
    BY <1>11 DEF SmfChallenge, RelayTyped, TResponses
  <2>2. smf' \in [Psis -> SmfType]
    BY <1>3, <1>11, <2>1 DEF SmfChallenge, SmfType
  <2>3. Command(p, relayRsp.eap) \in DlMsgs
    BY <2>1 DEF Command, DlMsgs
  <2>4. nasDl' \in Seq(DlMsgs)
    BY <1>11, <2>3, AppendFacts DEF SmfChallenge, N1Typed
  <2>. QED
    BY <1>4, <1>11, <2>2, <2>4 DEF SmfChallenge, SmfTyped, N1Typed, RelayTyped, TResponses
<1>12. CASE SmfVerdict(p)
  BY <1>4, <1>12, SmfFinishTyped DEF SmfVerdict, RelayTyped, TResponses
<1>. QED  BY <1>2, <1>5, <1>6, <1>7, <1>8, <1>9, <1>10, <1>11, <1>12

LEMMA RelayKeepsTypes ==
    ASSUME TypeInv, RelayStep
    PROVE  TypeInv'
<1>. USE DEF TypeInv
<1>1. UeTyped' /\ SmfTyped' /\ AaaTyped' /\ N1Typed' /\ faults' \in 0..MaxFaults
  BY DEF RelayStep, ueVars, smfVars, aaaVars, n1Vars, UeTyped, SmfTyped, AaaTyped, N1Typed, Msk
<1>2. CASE RelayRead
  <2>1. Head(relayReq) \in TRequests /\ Tail(relayReq) \in Seq(TRequests)
    BY <1>2, TailFacts DEF RelayRead, RelayTyped
  <2>2. AccessRequest(Head(relayReq).state, Head(relayReq).eap) \in TRequests
    BY <2>1 DEF AccessRequest, TRequests
  <2>3. radiusReq' \in Seq(TRequests)
    BY <1>2, <2>2, AppendFacts DEF RelayRead, RadiusTyped
  <2>. QED  BY <1>1, <1>2, <2>1, <2>3 DEF RelayRead, RelayTyped, RadiusTyped
<1>3. CASE RelayForward
  BY <1>1, <1>3 DEF RelayForward, RelayAnswer, RelayTyped, RadiusTyped, TResponses
<1>. QED  BY <1>2, <1>3 DEF RelayStep, RelayNext

(* An answer of the DN-AAA. *)
LEMMA AnswerTyped ==
    ASSUME RadiusTyped, NEW i \in DOMAIN radiusReq, NEW rsp \in TResponses, Answer(i, rsp)
    PROVE  RadiusTyped'
<1>1. i \in 1..Len(radiusReq)
  BY DEF RadiusTyped
<1>. QED  BY <1>1, RemoveFacts DEF Answer, RadiusTyped

LEMMA AaaActsTyped ==
    ASSUME AaaTyped, RadiusTyped, NEW i \in DOMAIN radiusReq, AaaActs(i)
    PROVE  AaaTyped' /\ RadiusTyped'
<1>. USE DEF AaaTyped
<1>1. CASE mod_session_init(i)
  <2>1. radiusReq[i].eap.id = 1
    BY <1>1 DEF mod_session_init, RadiusTyped, TRequests, TPackets, Identity
  <2>2. [NoSession EXCEPT !.status = "listed", !.id = radiusReq[i].eap.id + 1] \in TSessions
    <3>1. NoCtx \in Ctxs
      BY DEF NoCtx, Ctxs
    <3>2. NoSession \in TSessions
      BY <3>1, EmptyTyped DEF NoSession, TSessions
    <3>3. radiusReq[i].eap.id + 1 \in Nat
      BY <2>1
    <3>. QED  BY <3>2, <3>3 DEF TSessions
  <2>3. AccessChallenge(StateAttr(aaaNext, 0), EdhocPacket(radiusReq[i].eap.id + 1, StartWire)) \in TResponses
    BY <1>1, <2>1, ControlTyped
       DEF mod_session_init, AccessChallenge, StateAttr, EdhocPacket, TResponses, TStates, TPackets
  <2>4. aaaNext + 1 \in 1..(MaxSids + 1)
    BY <1>1, AaaAssumption DEF mod_session_init, Sids
  <2>. QED  BY <1>1, <2>2, <2>3, <2>4, AnswerTyped DEF mod_session_init
<1>2. CASE RejectUnknown(i)
  BY <1>2, AnswerTyped DEF RejectUnknown, aaaVars, AccessReject, TResponses
<1>3. ASSUME NEW s \in Sids, Continues(i, s)
      PROVE  AaaTyped' /\ RadiusTyped'
  <2>1. PICK sess \in TSessions, w \in TWires : Challenge(i, s, sess, w)
    BY <1>3 DEF Continues
  <2>2. sess.trip + 1 \in Nat /\ sess.id + 1 \in Nat
    BY DEF TSessions
  <2>3. [sess EXCEPT !.trip = sess.trip + 1, !.id = sess.id + 1] \in TSessions
    BY <2>2 DEF TSessions
  <2>4. AccessChallenge(StateAttr(s, sess.trip + 1), EdhocPacket(sess.id + 1, w)) \in TResponses
    BY <2>2 DEF AccessChallenge, StateAttr, EdhocPacket, TResponses, TStates, TPackets
  <2>. QED  BY <2>1, <2>3, <2>4, AnswerTyped DEF Challenge
<1>4. ASSUME NEW s \in Sids, Ends(i, s)
      PROVE  AaaTyped' /\ RadiusTyped'
  <2>1. PICK sess \in TSessions, st \in {"failed", "success"}, rsp \in {AccessAccept, AccessReject} :
            Conclude(i, s, sess, st, rsp)
    BY <1>4 DEF Ends, Fail
  <2>2. [sess EXCEPT !.status = st] \in TSessions
    BY DEF TSessions
  <2>3. rsp \in TResponses
    BY DEF AccessAccept, AccessReject, TResponses
  <2>. QED  BY <2>1, <2>2, <2>3, AnswerTyped DEF Conclude
<1>. QED  BY <1>1, <1>2, <1>3, <1>4 DEF AaaActs

LEMMA AaaKeepsTypes ==
    ASSUME TypeInv, AaaStep
    PROVE  TypeInv'
<1>. USE DEF TypeInv
<1>1. UeTyped' /\ SmfTyped' /\ RelayTyped' /\ N1Typed' /\ faults' \in 0..MaxFaults
  BY DEF AaaStep, ueVars, smfVars, relayVars, relayLinkVars, n1Vars, UeTyped, SmfTyped, RelayTyped, N1Typed, Msk
<1>2. AaaTyped' /\ RadiusTyped'
  BY AaaShape, AaaActsTyped DEF AaaStep
<1>. QED  BY <1>1, <1>2

LEMMA SmfGivesUpTypes ==
    ASSUME TypeInv, SmfGivesUp, faults' \in 0..MaxFaults
    PROVE  TypeInv'
<1>. USE DEF TypeInv
<1>1. UeTyped' /\ AaaTyped' /\ RadiusTyped'
  BY DEF SmfGivesUp, ueVars, aaaVars, radiusVars, UeTyped, AaaTyped, RadiusTyped, Msk
<1>2. SmfTyped' /\ N1Typed'
  BY SmfFinishTyped DEF SmfGivesUp, SmfTimeout
<1>3. RelayTyped'
  BY ClosedFacts DEF SmfGivesUp, SmfTimeout, RelayTyped
<1>. QED  BY <1>1, <1>2, <1>3

LEMMA RelayGivesUpTypes ==
    ASSUME TypeInv, RelayGivesUp, faults' \in 0..MaxFaults
    PROVE  TypeInv'
<1>. USE DEF TypeInv
<1>1. UeTyped' /\ SmfTyped' /\ AaaTyped' /\ N1Typed'
  BY DEF RelayGivesUp, ueVars, smfVars, aaaVars, n1Vars, UeTyped, SmfTyped, AaaTyped, N1Typed, Msk
<1>2. RelayError \in TResponses
  BY DEF RelayError, TResponses
<1>3. RelayTyped' /\ RadiusTyped'
  BY <1>2, ClosedFacts DEF RelayGivesUp, RelayTimeout, RelayAnswer, RelayTyped, RadiusTyped
<1>. QED  BY <1>1, <1>3

LEMMA FaultKeepsTypes ==
    ASSUME TypeInv, TimeoutStep \/ FaultStep
    PROVE  TypeInv'
<1>. USE DEF TypeInv
<1>1. faults' \in 0..MaxFaults
  BY FaultsAssumption DEF TimeoutStep, FaultStep
<1>2. CASE SmfGivesUp \/ RelayGivesUp
  BY <1>1, <1>2, SmfGivesUpTypes, RelayGivesUpTypes
<1>3. CASE LoseCommand /\ UNCHANGED <<ueVars, smfVars, relayVars, aaaVars, relayLinkVars, radiusVars>>
  <2>1. N1Typed'
    BY <1>3, TailFacts DEF LoseCommand, Waiting, N1Typed
  <2>. QED
    BY <1>1, <1>3, <2>1 DEF ueVars, smfVars, relayVars, aaaVars, relayLinkVars, radiusVars,
                            UeTyped, SmfTyped, AaaTyped, RelayTyped, RadiusTyped, Msk
<1>4. CASE LoseRelayRequest /\ UNCHANGED <<ueVars, smfVars, relayVars, aaaVars, n1Vars, radiusVars>>
  <2>1. RelayTyped'
    BY <1>4, RemoveFacts DEF LoseRelayRequest, RelayTyped, relayVars
  <2>. QED
    BY <1>1, <1>4, <2>1 DEF ueVars, smfVars, aaaVars, n1Vars, radiusVars,
                            UeTyped, SmfTyped, AaaTyped, N1Typed, RadiusTyped, Msk
<1>5. CASE LoseAccessRequest /\ UNCHANGED <<ueVars, smfVars, relayVars, aaaVars, n1Vars, relayLinkVars>>
  <2>1. RadiusTyped'
    BY <1>5, RemoveFacts DEF LoseAccessRequest, RadiusTyped
  <2>. QED
    BY <1>1, <1>5, <2>1 DEF ueVars, smfVars, relayVars, aaaVars, relayLinkVars, n1Vars,
                            UeTyped, SmfTyped, AaaTyped, N1Typed, RelayTyped, Msk
<1>6. ASSUME NEW s \in Sids, Expire(s), UNCHANGED <<ueVars, smfVars, relayVars, n1Vars, relayLinkVars>>
      PROVE  TypeInv'
  <2>1. [aaa[s] EXCEPT !.status = "expired"] \in TSessions
    BY DEF AaaTyped, TSessions
  <2>2. aaa' \in [Sids -> TSessions] /\ UNCHANGED <<aaaNext, radiusVars>>
    BY <1>6, <2>1 DEF Expire, AaaTyped
  <2>. QED
    BY <1>1, <1>6, <2>2 DEF ueVars, smfVars, relayVars, relayLinkVars, n1Vars, radiusVars,
                            UeTyped, SmfTyped, AaaTyped, N1Typed, RelayTyped, RadiusTyped, Msk
<1>. QED  BY <1>2, <1>3, <1>4, <1>5, <1>6 DEF TimeoutStep, FaultStep

LEMMA TypesInductive ==
    /\ Init => TypeInv
    /\ TypeInv /\ [Next]_vars => TypeInv'
<1>1. ASSUME Init PROVE TypeInv
  <2>1. UeTyped
    <3>1. NoCtx \in Ctxs
      BY DEF NoCtx, Ctxs
    <3>2. ueRound \in {-1, 1, 2, 3} /\ ueRound \notin {2, 3}
      BY <1>1 DEF Init, UeInit
    <3>. QED  BY <1>1, <3>1, <3>2, EmptyTyped DEF Init, UeInit, UeTyped
  <2>2. SmfTyped
    BY <1>1, SmfAssumption DEF Init, SmfInit, SmfTyped, SmfType
  <2>3. AaaTyped
    <3>1. NoCtx \in Ctxs
      BY DEF NoCtx, Ctxs
    <3>2. NoSession \in TSessions
      BY <3>1, EmptyTyped DEF NoSession, TSessions
    <3>. QED  BY <1>1, <3>2, AaaAssumption DEF Init, AaaInit, AaaTyped
  <2>4. N1Typed /\ RelayTyped /\ RadiusTyped /\ faults \in 0..MaxFaults
    BY <1>1, FaultsAssumption
       DEF Init, N1Init, RelayInit, RelayLinkInit, RadiusInit, N1Typed, RelayTyped, RadiusTyped, TResponses
  <2>. QED  BY <2>1, <2>2, <2>3, <2>4 DEF TypeInv
<1>2. ASSUME TypeInv, UNCHANGED vars PROVE TypeInv'
  BY <1>2 DEF vars, ueVars, smfVars, relayVars, aaaVars, n1Vars, relayLinkVars, radiusVars, TypeInv,
              UeTyped, SmfTyped, AaaTyped, N1Typed, RelayTyped, RadiusTyped, Msk
<1>3. ASSUME TypeInv, Next PROVE TypeInv'
  BY <1>3, UeKeepsTypes, SmfKeepsTypes, RelayKeepsTypes, AaaKeepsTypes, FaultKeepsTypes DEF Next
<1>. QED  BY <1>1, <1>2, <1>3

(* The sharp types are within those of TypeOK. *)
LEMMA TypesSharper == TypeInv => TypeOK
<1>. SUFFICES ASSUME TypeInv PROVE TypeOK
  OBVIOUS
<1>1. TMsgs \subseteq Msgs
  BY DEF TMsgs, Msgs, FirstTypes, MsgTypes
<1>2. TRuns \subseteq Runs
  BY <1>1 DEF TRuns, Runs
<1>3. TWires \subseteq Wires /\ TIns \subseteq Ins
  BY <1>2 DEF TWires, Wires, TIns, Ins
<1>4. TOuts \subseteq Outs
  BY <1>1 DEF TOuts, Outs
<1>5. TPackets \subseteq Packets /\ Identity(1) \in Packets
  BY <1>3 DEF TPackets, Packets, Identity
<1>6. TStates \cup {NoState} \subseteq States
  BY DEF TStates, States
<1>7. TRequests \subseteq Requests /\ TResponses \subseteq Responses
  BY <1>5, <1>6 DEF TRequests, Requests, TResponses, Responses
<1>8. TSessions \subseteq [status: {"none", "listed", "success", "failed", "expired"},
                           trip: Nat, id: Nat, mode: {0, 3, 4}, round: 0..2,
                           in: Ins, out: Outs, ctx: Ctxs]
  BY <1>3, <1>4 DEF TSessions
<1>9. DlMsgs \subseteq [kind: {"command"}, psi: Psis, eap: Packets]
                       \cup [kind: {"result"}, psi: Psis, verdict: {"accept", "reject", "error"}]
  BY <1>5 DEF DlMsgs
<1>10. UlMsgs \subseteq [kind: {"complete"}, psi: Psis, eap: Packets] \cup [kind: {"status"}, psi: Psis]
  BY <1>5 DEF UlMsgs
<1>11. smf \in [Psis -> [inProgress: BOOLEAN, state: States, timer: BOOLEAN, starts: Nat]]
  BY <1>6 DEF TypeInv, SmfTyped, SmfType
<1>12. \A S, T : S \subseteq T => Seq(S) \subseteq Seq(T)
  OBVIOUS
<1>. QED
  BY <1>3, <1>4, <1>7, <1>8, <1>9, <1>10, <1>11, <1>12
     DEF TypeInv, UeTyped, SmfTyped, AaaTyped, N1Typed, RelayTyped, RadiusTyped, TypeOK

(* The types of the whole system: whatever wires, identifiers and States arrive
   in whatever order, every buffer of the UE and of the DN-AAA stays within
   E4_MAX_MSG, every State names a session, and no queue holds a message its
   reader cannot take apart. *)
THEOREM TypeCorrect == Spec => []TypeOK
<1>1. Init => TypeInv
  BY TypesInductive
<1>2. TypeInv /\ [Next]_vars => TypeInv'
  BY TypesInductive
<1>3. TypeInv => TypeOK
  BY TypesSharper
<1>. QED  BY <1>1, <1>2, <1>3, PTL DEF Spec

-----------------------------------------------------------------------------
(* Whose turn it is, without counting: session p has one command, one answer or
   the SMF's wait, and only while it is in progress. *)
TurnOf(p) ==
    /\ \A i, j \in Commands(p) : i = j
    /\ \A i, j \in Answers(p) : i = j
    /\ Commands(p) = {} \/ Answers(p) = {}
    /\ smfWait = p => Commands(p) = {} /\ Answers(p) = {}
    /\ smfWait = p \/ Commands(p) # {} \/ Answers(p) # {} => smf[p].inProgress

TurnInv == \A p \in Psis : TurnOf(p)

(* The sockets.  One request of the SMF is open at a time, and it is either in
   the relay's queue, or at the RADIUS side, or answered; it carries the State
   of the session the SMF waits for.  The same for the relay's requests. *)
RelayOpenInv ==
    \A i \in DOMAIN relayReq :
        relayReq[i].open =>
            /\ smfWait # NoPsi /\ relayCur # "open" /\ relayRsp = NoRsp
            /\ relayReq[i].state = smf[smfWait].state
            /\ \A j \in DOMAIN relayReq : relayReq[j].open => i = j

RadiusOpenInv ==
    \A i \in DOMAIN radiusReq :
        radiusReq[i].open =>
            /\ relayCur # "idle" /\ radiusRsp = NoRsp
            /\ relayCur = "open" => radiusReq[i].state = smf[smfWait].state
            /\ \A j \in DOMAIN radiusReq : radiusReq[j].open => i = j

SocketInv ==
    /\ RelayOpenInv /\ RadiusOpenInv
    /\ relayCur = "open" => smfWait # NoPsi /\ relayRsp = NoRsp
    /\ relayRsp # NoRsp => smfWait # NoPsi
    /\ radiusRsp # NoRsp => relayCur # "idle"

-----------------------------------------------------------------------------
(* Who may still speak for DN-AAA session s. *)
Holds(p, s) == smf[p].state # NoState /\ smf[p].state.sid = s

Carries(req, s) == req.state # NoState /\ req.state.sid = s

Carried(s) == \/ \E i \in DOMAIN relayReq : Carries(relayReq[i], s)
              \/ \E i \in DOMAIN radiusReq : Carries(radiusReq[i], s)

IsChallenge(rsp) == rsp # NoRsp /\ rsp.result = "challenge"

IsAccept(rsp) == rsp # NoRsp /\ rsp.result = "accept"


Current(s, trip) == aaa[s].trip = trip /\ aaa[s].status \in {"listed", "expired"}

(* Sessions are numbered as they are created. *)
CreatedInv ==
    /\ \A s \in Sids : Carried(s) \/ (\E p \in Psis : Holds(p, s)) => s < aaaNext
    /\ \A rsp \in {relayRsp, radiusRsp} : IsChallenge(rsp) => rsp.state.sid < aaaNext

(* A session is held by one PDU session, and a request that names it is that
   session's exchange under way. *)
HoldInv ==
    \A p \in Psis, s \in Sids :
        Holds(p, s) =>
            /\ \A q \in Psis : Holds(q, s) => p = q
            /\ \A i \in DOMAIN relayReq : Carries(relayReq[i], s) => relayReq[i].open /\ smfWait = p
            /\ \A i \in DOMAIN radiusReq :
                   Carries(radiusReq[i], s) =>
                       smfWait = p /\ NoneOpen(relayReq) /\ (radiusReq[i].open <=> relayCur = "open")

(* The answer of an exchange under way names the session as the DN-AAA has it,
   and nothing else speaks for that session. *)
AnswerOf(rsp) ==
    /\ IsChallenge(rsp) =>
           /\ Current(rsp.state.sid, rsp.state.trip)
           /\ rsp.eap.id = aaa[rsp.state.sid].id
           /\ ~Carried(rsp.state.sid)
           /\ \A p \in Psis : Holds(p, rsp.state.sid) => p = smfWait
    /\ IsAccept(rsp) =>
           smf[smfWait].state # NoState /\ aaa[smf[smfWait].state.sid].status = "success"

AnswerInv == AnswerOf(relayRsp) /\ (relayCur = "open" => AnswerOf(radiusRsp))

LockInv == SocketInv /\ CreatedInv /\ HoldInv /\ AnswerInv

-----------------------------------------------------------------------------
(* The two N1 queues: what is left after the head is taken, what is new after a
   message is put at the end. *)
LEMMA PopDl ==
    ASSUME N1Typed, nasDl # << >>, nasDl' = Tail(nasDl), NEW p \in Psis
    PROVE  /\ \A i \in Commands(p)' : i + 1 \in Commands(p) /\ nasDl'[i] = nasDl[i + 1]
           /\ \A i \in Commands(p) : i # 1 => i - 1 \in Commands(p)'
           /\ 1 \in Commands(p) <=> Head(nasDl).kind = "command" /\ Head(nasDl).psi = p
           /\ \A i \in Commands(p) : i \in Nat \ {0}
<1>1. nasDl \in Seq(DlMsgs) /\ nasDl' \in Seq(DlMsgs)
  BY TailFacts DEF N1Typed
<1>2. /\ Head(nasDl) = nasDl[1] /\ Len(nasDl) \in Nat \ {0} /\ Len(nasDl') = Len(nasDl) - 1
      /\ \A i \in 1..(Len(nasDl) - 1) : nasDl'[i] = nasDl[i + 1]
  BY TailFacts DEF N1Typed
<1>3. DOMAIN nasDl = 1..Len(nasDl) /\ DOMAIN nasDl' = 1..Len(nasDl')
  BY <1>1
<1>4. Commands(p) = {i \in 1..Len(nasDl) : nasDl[i].kind = "command" /\ nasDl[i].psi = p}
  BY <1>3 DEF Commands
<1>5. Commands(p)' = {i \in 1..(Len(nasDl) - 1) : nasDl'[i].kind = "command" /\ nasDl'[i].psi = p}
  BY <1>2, <1>3 DEF Commands
<1>. QED  BY <1>2, <1>4, <1>5

LEMMA PushDl ==
    ASSUME N1Typed, NEW m \in DlMsgs, nasDl' = Append(nasDl, m), NEW p \in Psis
    PROVE  /\ Commands(p)' = IF m.kind = "command" /\ m.psi = p THEN Commands(p) \cup {Len(nasDl) + 1}
                             ELSE Commands(p)
           /\ \A i \in Commands(p) : nasDl'[i] = nasDl[i]
           /\ nasDl'[Len(nasDl) + 1] = m
<1>1. nasDl \in Seq(DlMsgs) /\ nasDl' \in Seq(DlMsgs)
  BY AppendFacts DEF N1Typed
<1>2. /\ Len(nasDl) \in Nat /\ Len(nasDl') = Len(nasDl) + 1 /\ nasDl'[Len(nasDl) + 1] = m
      /\ \A i \in 1..Len(nasDl) : nasDl'[i] = nasDl[i]
  BY <1>1, AppendFacts
<1>3. DOMAIN nasDl = 1..Len(nasDl) /\ DOMAIN nasDl' = 1..Len(nasDl')
  BY <1>1
<1>4. Commands(p) = {i \in 1..Len(nasDl) : nasDl[i].kind = "command" /\ nasDl[i].psi = p}
  BY <1>3 DEF Commands
<1>5. Commands(p)' = {i \in 1..(Len(nasDl) + 1) : nasDl'[i].kind = "command" /\ nasDl'[i].psi = p}
  BY <1>2, <1>3 DEF Commands
<1>6. ASSUME NEW i PROVE i \in 1..(Len(nasDl) + 1) <=> i \in 1..Len(nasDl) \/ i = Len(nasDl) + 1
  BY <1>2
<1>. QED  BY <1>2, <1>4, <1>5, <1>6

LEMMA PopUl ==
    ASSUME N1Typed, nasUl # << >>, nasUl' = Tail(nasUl), NEW p \in Psis
    PROVE  /\ \A i \in Answers(p)' : i + 1 \in Answers(p) /\ nasUl'[i] = nasUl[i + 1]
           /\ \A i \in Answers(p) : i # 1 => i - 1 \in Answers(p)'
           /\ 1 \in Answers(p) <=> Head(nasUl).psi = p
           /\ \A i \in Answers(p) : i \in Nat \ {0}
<1>1. nasUl \in Seq(UlMsgs) /\ nasUl' \in Seq(UlMsgs)
  BY TailFacts DEF N1Typed
<1>2. /\ Head(nasUl) = nasUl[1] /\ Len(nasUl) \in Nat \ {0} /\ Len(nasUl') = Len(nasUl) - 1
      /\ \A i \in 1..(Len(nasUl) - 1) : nasUl'[i] = nasUl[i + 1]
  BY TailFacts DEF N1Typed
<1>3. DOMAIN nasUl = 1..Len(nasUl) /\ DOMAIN nasUl' = 1..Len(nasUl')
  BY <1>1
<1>4. Answers(p) = {i \in 1..Len(nasUl) : nasUl[i].psi = p}
  BY <1>3 DEF Answers
<1>5. Answers(p)' = {i \in 1..(Len(nasUl) - 1) : nasUl'[i].psi = p}
  BY <1>2, <1>3 DEF Answers
<1>. QED  BY <1>2, <1>4, <1>5

LEMMA PushUl ==
    ASSUME N1Typed, NEW m \in UlMsgs, nasUl' = Append(nasUl, m), NEW p \in Psis
    PROVE  /\ Answers(p)' = IF m.psi = p THEN Answers(p) \cup {Len(nasUl) + 1} ELSE Answers(p)
           /\ \A i \in Answers(p) : nasUl'[i] = nasUl[i]
           /\ nasUl'[Len(nasUl) + 1] = m
<1>1. nasUl \in Seq(UlMsgs) /\ nasUl' \in Seq(UlMsgs)
  BY AppendFacts DEF N1Typed
<1>2. /\ Len(nasUl) \in Nat /\ Len(nasUl') = Len(nasUl) + 1 /\ nasUl'[Len(nasUl) + 1] = m
      /\ \A i \in 1..Len(nasUl) : nasUl'[i] = nasUl[i]
  BY <1>1, AppendFacts
<1>3. DOMAIN nasUl = 1..Len(nasUl) /\ DOMAIN nasUl' = 1..Len(nasUl')
  BY <1>1
<1>4. Answers(p) = {i \in 1..Len(nasUl) : nasUl[i].psi = p}
  BY <1>3 DEF Answers
<1>5. Answers(p)' = {i \in 1..(Len(nasUl) + 1) : nasUl'[i].psi = p}
  BY <1>2, <1>3 DEF Answers
<1>6. ASSUME NEW i PROVE i \in 1..(Len(nasUl) + 1) <=> i \in 1..Len(nasUl) \/ i = Len(nasUl) + 1
  BY <1>2
<1>. QED  BY <1>2, <1>4, <1>5, <1>6

(* Taking the head ends the turn it stands for and touches no other. *)
LEMMA PopDlTurn ==
    ASSUME N1Typed, TurnInv, nasDl # << >>, nasDl' = Tail(nasDl), NEW p \in Psis
    PROVE  /\ \A i, j \in Commands(p)' : i = j
           /\ Head(nasDl).kind = "command" /\ Head(nasDl).psi = p => Commands(p) # {} /\ Commands(p)' = {}
           /\ ~(Head(nasDl).kind = "command" /\ Head(nasDl).psi = p) => (Commands(p)' = {} <=> Commands(p) = {})
<1>1. /\ \A i \in Commands(p)' : i + 1 \in Commands(p)
      /\ \A i \in Commands(p) : i # 1 => i - 1 \in Commands(p)'
      /\ 1 \in Commands(p) <=> Head(nasDl).kind = "command" /\ Head(nasDl).psi = p
      /\ \A i \in Commands(p) : i \in Nat \ {0}
  BY PopDl
<1>2. \A i, j \in Commands(p) : i = j
  BY DEF TurnInv, TurnOf
<1>3. \A i \in Commands(p)' : i \in Nat \ {0}
  <2>1. nasDl' \in Seq(DlMsgs)
    BY TailFacts DEF N1Typed
  <2>2. DOMAIN nasDl' = 1..Len(nasDl') /\ Len(nasDl') \in Nat
    BY <2>1
  <2>. QED  BY <2>2 DEF Commands
<1>. QED  BY <1>1, <1>2, <1>3

LEMMA PopUlTurn ==
    ASSUME N1Typed, TurnInv, nasUl # << >>, nasUl' = Tail(nasUl), NEW p \in Psis
    PROVE  /\ \A i, j \in Answers(p)' : i = j
           /\ Head(nasUl).psi = p => Answers(p) # {} /\ Answers(p)' = {}
           /\ Head(nasUl).psi # p => (Answers(p)' = {} <=> Answers(p) = {})
<1>1. /\ \A i \in Answers(p)' : i + 1 \in Answers(p)
      /\ \A i \in Answers(p) : i # 1 => i - 1 \in Answers(p)'
      /\ 1 \in Answers(p) <=> Head(nasUl).psi = p
      /\ \A i \in Answers(p) : i \in Nat \ {0}
  BY PopUl
<1>2. \A i, j \in Answers(p) : i = j
  BY DEF TurnInv, TurnOf
<1>3. \A i \in Answers(p)' : i \in Nat \ {0}
  <2>1. nasUl' \in Seq(UlMsgs)
    BY TailFacts DEF N1Typed
  <2>2. DOMAIN nasUl' = 1..Len(nasUl') /\ Len(nasUl') \in Nat
    BY <2>1
  <2>. QED  BY <2>2 DEF Answers
<1>. QED  BY <1>1, <1>2, <1>3

-----------------------------------------------------------------------------
(* Turns, action by action.  Nobody's turn is Turns(p) = 0 without counting. *)
Nobody(p) == smfWait # p /\ Commands(p) = {} /\ Answers(p) = {}

Lost(p) == smf[p].inProgress /\ Nobody(p)

StallCause(p) ==
    \/ nasUl # << >> /\ Head(nasUl) = Status(p) /\ nasUl' = Tail(nasUl)
    \/ Waiting(nasDl, "command") /\ Head(nasDl).psi = p /\ nasDl' = Tail(nasDl) /\ nasUl' = nasUl

TurnGoal == \A p \in Psis : TurnOf(p)' /\ (~Lost(p) /\ Lost(p)' => StallCause(p))

SameProgress == \A p \in Psis : smf[p].inProgress' = smf[p].inProgress

LEMMA TurnFrame ==
    ASSUME TurnInv, SameProgress, smfWait' = smfWait, UNCHANGED n1Vars
    PROVE  TurnGoal
<1>1. \A p \in Psis : Commands(p)' = Commands(p) /\ Answers(p)' = Answers(p)
  BY DEF Commands, Answers, n1Vars
<1>. QED  BY <1>1 DEF TurnInv, TurnOf, TurnGoal, SameProgress, Lost, Nobody

LEMMA TurnUe ==
    ASSUME TypeInv, TurnInv, UeStep
    PROVE  TurnGoal
<1>. SUFFICES ASSUME NEW p \in Psis PROVE TurnOf(p)' /\ (~Lost(p) /\ Lost(p)' => StallCause(p))
  BY DEF TurnGoal
<1>0. smf' = smf /\ smfWait' = smfWait /\ N1Typed /\ TurnOf(p)
  BY DEF UeStep, smfVars, TypeInv, TurnInv
<1>1. CASE receivePduSessionAuthenticationCommand
  <2>1. Waiting(nasDl, "command") /\ UeReplies
    BY <1>1, UeTypes DEF TypeInv
  <2>2. Head(nasDl) \in DlMsgs /\ nasDl # << >> /\ Head(nasDl).kind = "command" /\ Head(nasDl).psi \in Psis
        /\ Head(nasDl).eap \in TPackets
    <3>1. nasDl # << >> /\ Head(nasDl) \in DlMsgs /\ Head(nasDl).kind = "command"
      BY <2>1, <1>0, TailFacts DEF Waiting, N1Typed
    <3>. QED  BY <3>1 DEF DlMsgs
  <2>3. nasDl' = Tail(nasDl)
    BY <2>1 DEF UeReplies, sendSmCause, ueReply
  <2>4. PICK m \in UlMsgs : nasUl' = Append(nasUl, m) /\ m.psi = Head(nasDl).psi
    <3>1. Status(Head(nasDl).psi) \in UlMsgs /\ Status(Head(nasDl).psi).psi = Head(nasDl).psi
      BY <2>2 DEF Status, UlMsgs
    <3>2. ASSUME NEW w \in TWires
          PROVE  LET c == Complete(Head(nasDl).psi, EdhocPacket(Head(nasDl).eap.id, w))
                 IN  c \in UlMsgs /\ c.psi = Head(nasDl).psi
      BY <2>2 DEF Complete, EdhocPacket, UlMsgs, TPackets
    <3>. QED  BY <2>1, <3>1, <3>2 DEF UeReplies, sendSmCause, ueReply
  <2>5. /\ \A i, j \in Commands(p)' : i = j
        /\ Head(nasDl).psi = p => Commands(p) # {} /\ Commands(p)' = {}
        /\ Head(nasDl).psi # p => (Commands(p)' = {} <=> Commands(p) = {})
    BY <1>0, <2>2, <2>3, PopDlTurn
  <2>6. Answers(p)' = IF Head(nasDl).psi = p THEN Answers(p) \cup {Len(nasUl) + 1} ELSE Answers(p)
    BY <1>0, <2>4, PushUl
  <2>. QED  BY <1>0, <2>5, <2>6 DEF TurnOf, Lost, Nobody
<1>2. CASE receivePduSessionAuthenticationResult
  <2>1. nasDl # << >> /\ Head(nasDl).kind = "result" /\ nasDl' = Tail(nasDl) /\ nasUl' = nasUl
    BY <1>2 DEF receivePduSessionAuthenticationResult, Waiting
  <2>2. (\A i, j \in Commands(p)' : i = j) /\ (Commands(p)' = {} <=> Commands(p) = {})
    BY <1>0, <2>1, PopDlTurn
  <2>3. Answers(p)' = Answers(p)
    BY <2>1 DEF Answers
  <2>. QED  BY <1>0, <2>2, <2>3 DEF TurnOf, Lost, Nobody
<1>. QED  BY <1>1, <1>2 DEF UeStep, UeNext

LEMMA TurnLose ==
    ASSUME TypeInv, TurnInv, LoseCommand, UNCHANGED smfVars
    PROVE  TurnGoal
<1>. SUFFICES ASSUME NEW p \in Psis PROVE TurnOf(p)' /\ (~Lost(p) /\ Lost(p)' => StallCause(p))
  BY DEF TurnGoal
<1>0. smf' = smf /\ smfWait' = smfWait /\ N1Typed /\ TurnOf(p)
  BY DEF smfVars, TypeInv, TurnInv
<1>1. nasDl # << >> /\ Head(nasDl).kind = "command" /\ nasDl' = Tail(nasDl) /\ nasUl' = nasUl
  BY DEF LoseCommand, Waiting
<1>2. /\ \A i, j \in Commands(p)' : i = j
      /\ Head(nasDl).psi = p => Commands(p)' = {}
      /\ Head(nasDl).psi # p => (Commands(p)' = {} <=> Commands(p) = {})
  BY <1>0, <1>1, PopDlTurn
<1>3. Answers(p)' = Answers(p)
  BY <1>1 DEF Answers
<1>. QED  BY <1>0, <1>1, <1>2, <1>3 DEF TurnOf, Lost, Nobody, StallCause, Waiting

(* The answer of the relay, or none: the SMF sends a command or finishes. *)
LEMMA TurnFinish ==
    ASSUME TypeInv, TurnInv, NEW q \in Psis, NEW v \in {"accept", "reject", "error"},
           smfWait = q, SmfFinish(q, v)
    PROVE  TurnGoal
<1>. SUFFICES ASSUME NEW p \in Psis PROVE TurnOf(p)' /\ (~Lost(p) /\ Lost(p)' => StallCause(p))
  BY DEF TurnGoal
<1>0. N1Typed /\ TurnOf(p) /\ TurnOf(q) /\ smf \in [Psis -> SmfType] /\ NoPsi # p
  BY SmfAssumption DEF TypeInv, TurnInv, SmfTyped
<1>1. smf[p].inProgress' = IF p = q THEN FALSE ELSE smf[p].inProgress
  BY <1>0 DEF SmfFinish, SmfType
<1>2. Result(q, v) \in DlMsgs /\ Result(q, v).kind = "result"
  BY DEF Result, DlMsgs
<1>3. Commands(p)' = Commands(p)
  BY <1>0, <1>2, PushDl DEF SmfFinish
<1>4. Answers(p)' = Answers(p) /\ smfWait' = NoPsi
  BY DEF SmfFinish, Answers
<1>. QED  BY <1>0, <1>1, <1>3, <1>4 DEF TurnOf, Lost, Nobody

LEMMA TurnSmf ==
    ASSUME TypeInv, TurnInv, SmfStep \/ RanStep
    PROVE  TurnGoal
<1>1. PICK q \in Psis :
          \/ SmfSetupResponse(q)
          \/ smf_timer_sec_auth_start(q)
          \/ smf_start_secondary_auth(q) \/ SmfStartIgnored(q)
          \/ smf_handle_secondary_auth_complete(q) \/ SmfUnknownMessage(q)
          \/ SmfChallenge(q) \/ SmfVerdict(q)
  BY DEF SmfStep, RanStep, SmfNext
<1>0. N1Typed /\ smf \in [Psis -> SmfType] /\ NoPsi \notin Psis
  BY SmfAssumption DEF TypeInv, SmfTyped
<1>2. CASE SmfSetupResponse(q) \/ smf_timer_sec_auth_start(q) \/ SmfStartIgnored(q)
  <2>1. SameProgress
    BY <1>0, <1>2 DEF SmfSetupResponse, smf_timer_sec_auth_start, SmfStartIgnored, SameProgress, SmfType
  <2>. QED
    BY <1>2, <2>1, TurnFrame DEF SmfSetupResponse, smf_timer_sec_auth_start, SmfStartIgnored
<1>3. CASE smf_start_secondary_auth(q)
  <2>. SUFFICES ASSUME NEW p \in Psis PROVE TurnOf(p)' /\ (~Lost(p) /\ Lost(p)' => StallCause(p))
    BY DEF TurnGoal
  <2>1. smf[p].inProgress' = IF p = q THEN TRUE ELSE smf[p].inProgress
    BY <1>0, <1>3 DEF smf_start_secondary_auth, SmfType
  <2>2. smfWait = NoPsi /\ smfWait' = q /\ ~smf[q].inProgress /\ UNCHANGED n1Vars
    BY <1>3 DEF smf_start_secondary_auth, Exchange
  <2>3. Commands(p)' = Commands(p) /\ Answers(p)' = Answers(p)
    BY <2>2 DEF n1Vars, Commands, Answers
  <2>. QED  BY <1>0, <2>1, <2>2, <2>3 DEF TurnInv, TurnOf, Lost, Nobody
<1>4. CASE smf_handle_secondary_auth_complete(q) \/ SmfUnknownMessage(q)
  <2>. SUFFICES ASSUME NEW p \in Psis PROVE TurnOf(p)' /\ (~Lost(p) /\ Lost(p)' => StallCause(p))
    BY DEF TurnGoal
  <2>1. nasUl # << >> /\ Head(nasUl).psi = q /\ nasUl' = Tail(nasUl) /\ nasDl' = nasDl /\ smf' = smf
        /\ smfWait = NoPsi
    BY <1>4 DEF smf_handle_secondary_auth_complete, SmfUnknownMessage, Waiting, smfVars
  <2>2. /\ \A i, j \in Answers(p)' : i = j
        /\ q = p => Answers(p) # {} /\ Answers(p)' = {}
        /\ q # p => (Answers(p)' = {} <=> Answers(p) = {})
    BY <1>0, <2>1, PopUlTurn
  <2>3. Commands(p)' = Commands(p)
    BY <2>1 DEF Commands
  <2>4. CASE smf_handle_secondary_auth_complete(q)
    <3>1. smfWait' = q
      BY <2>4 DEF smf_handle_secondary_auth_complete, Exchange
    <3>. QED  BY <1>0, <2>1, <2>2, <2>3, <3>1 DEF TurnInv, TurnOf, Lost, Nobody
  <2>5. CASE SmfUnknownMessage(q)
    <3>1. smfWait' = smfWait
      BY <2>5 DEF SmfUnknownMessage, smfVars
    <3>2. Head(nasUl) = Status(q)
      <4>1. Head(nasUl) \in UlMsgs /\ Head(nasUl).kind = "status" /\ Head(nasUl).psi = q
        BY <1>0, <2>1, <2>5, TailFacts DEF SmfUnknownMessage, Waiting, N1Typed
      <4>. QED  BY <4>1 DEF UlMsgs, Status
    <3>. QED  BY <1>0, <2>1, <2>2, <2>3, <3>1, <3>2 DEF TurnInv, TurnOf, Lost, Nobody, StallCause
  <2>. QED  BY <1>4, <2>4, <2>5
<1>5. CASE SmfChallenge(q)
  <2>. SUFFICES ASSUME NEW p \in Psis PROVE TurnOf(p)' /\ (~Lost(p) /\ Lost(p)' => StallCause(p))
    BY DEF TurnGoal
  <2>1. smf[p].inProgress' = smf[p].inProgress
    BY <1>0, <1>5 DEF SmfChallenge, SmfType
  <2>2. smfWait = q /\ smfWait' = NoPsi /\ nasUl' = nasUl /\ nasDl' = Append(nasDl, Command(q, relayRsp.eap))
    BY <1>5 DEF SmfChallenge
  <2>3. Command(q, relayRsp.eap) \in DlMsgs /\ Command(q, relayRsp.eap).kind = "command"
        /\ Command(q, relayRsp.eap).psi = q
    BY <1>5 DEF SmfChallenge, TypeInv, RelayTyped, TResponses, Command, DlMsgs
  <2>4. Commands(p)' = IF q = p THEN Commands(p) \cup {Len(nasDl) + 1} ELSE Commands(p)
    BY <1>0, <2>2, <2>3, PushDl
  <2>5. Answers(p)' = Answers(p)
    BY <2>2 DEF Answers
  <2>. QED  BY <1>0, <2>1, <2>2, <2>4, <2>5 DEF TurnInv, TurnOf, Lost, Nobody
<1>6. CASE SmfVerdict(q)
  BY <1>6, TurnFinish DEF SmfVerdict
<1>. QED  BY <1>1, <1>2, <1>3, <1>4, <1>5, <1>6

LEMMA TurnStep ==
    ASSUME TypeInv, TurnInv, [Next]_vars
    PROVE  TurnGoal
<1>1. CASE UeStep \/ SmfStep \/ RanStep
  BY <1>1, TurnUe, TurnSmf
<1>2. ASSUME UNCHANGED <<smfVars, n1Vars>> PROVE TurnGoal
  BY <1>2, TurnFrame DEF smfVars, SameProgress
<1>3. CASE RelayStep \/ AaaStep \/ RelayGivesUp \/ UNCHANGED vars
  BY <1>2, <1>3 DEF RelayStep, AaaStep, RelayGivesUp, vars
<1>4. CASE SmfGivesUp
  BY <1>4, TurnFinish DEF SmfGivesUp, SmfTimeout
<1>5. CASE FaultStep /\ ~SmfGivesUp /\ ~RelayGivesUp
  BY <1>2, <1>5, TurnLose DEF FaultStep
<1>. QED  BY <1>1, <1>3, <1>4, <1>5 DEF Next, TimeoutStep, FaultStep

(* Counting. *)
LEMMA CountTurns ==
    ASSUME TypeInv, NEW p \in Psis
    PROVE  /\ Turns(p) = 0 <=> Nobody(p)
           /\ TurnOf(p) => Turns(p) <= IF smf[p].inProgress THEN 1 ELSE 0
<1>1. IsFiniteSet(Commands(p)) /\ IsFiniteSet(Answers(p))
  <2>1. DOMAIN nasDl = 1..Len(nasDl) /\ Len(nasDl) \in Nat /\ DOMAIN nasUl = 1..Len(nasUl) /\ Len(nasUl) \in Nat
    BY DEF TypeInv, N1Typed
  <2>2. IsFiniteSet(DOMAIN nasDl) /\ IsFiniteSet(DOMAIN nasUl)
    BY <2>1, FS_Interval
  <2>3. Commands(p) \subseteq DOMAIN nasDl /\ Answers(p) \subseteq DOMAIN nasUl
    BY DEF Commands, Answers
  <2>. QED  BY <2>2, <2>3, FS_Subset
<1>2. Cardinality(Commands(p)) \in Nat /\ Cardinality(Answers(p)) \in Nat
  BY <1>1, FS_CardinalityType
<1>3. /\ Cardinality(Commands(p)) = 0 <=> Commands(p) = {}
      /\ Cardinality(Answers(p)) = 0 <=> Answers(p) = {}
  BY <1>1, FS_EmptySet
<1>4. ASSUME NEW S, IsFiniteSet(S), \A i, j \in S : i = j
      PROVE  S = {} \/ Cardinality(S) = 1
  <2>1. CASE S # {}
    <3>1. PICK x : S = {x}
      BY <1>4, <2>1
    <3>. QED  BY <3>1, FS_Singleton
  <2>. QED  BY <2>1
<1>5. TurnOf(p) => Cardinality(Commands(p)) \in {0, 1} /\ Cardinality(Answers(p)) \in {0, 1}
  BY <1>1, <1>3, <1>4 DEF TurnOf
<1>. QED  BY <1>2, <1>3, <1>5 DEF Turns, Nobody, TurnOf

LEMMA TurnsInductive ==
    /\ Init => TurnInv
    /\ TypeInv /\ TurnInv /\ [Next]_vars => TurnInv'
<1>1. ASSUME Init PROVE TurnInv
  BY <1>1, SmfAssumption DEF Init, SmfInit, N1Init, TurnInv, TurnOf, Commands, Answers
<1>2. ASSUME TypeInv, TurnInv, [Next]_vars PROVE TurnInv'
  BY <1>2, TurnStep DEF TurnGoal, TurnInv
<1>. QED  BY <1>1, <1>2

(* EAP stays in lock-step: whatever is lost, late or timed out, a session in
   progress has at most one packet under way and a finished one has none, so the
   handler of the Authentication Complete, which does not ask whether an
   authentication is in progress, never meets a session that has ended. *)
THEOREM OneTurnAlways == Spec => []OneTurn
<1>1. Init => TypeInv /\ TurnInv
  BY TypesInductive, TurnsInductive
<1>2. TypeInv /\ TurnInv /\ [Next]_vars => TypeInv' /\ TurnInv'
  BY TypesInductive, TurnsInductive
<1>3. TypeInv /\ TurnInv => OneTurn
  BY CountTurns DEF TurnInv, OneTurn
<1>. QED  BY <1>1, <1>2, <1>3, PTL DEF Spec

(* An authentication gets stuck in two ways only: a 5GSM STATUS that the SMF does
   not know, or a command lost on the way; no timeout, loss or expiry on the way
   to the DN-AAA leaves a session waiting for ever. *)
THEOREM StallCausesAlways == Spec => StallCauses
<1>. DEFINE A == \A p \in Psis :
                    ~Stalled(p) /\ Stalled(p)' =>
                        \/ nasUl # << >> /\ Head(nasUl) = Status(p) /\ nasUl' = Tail(nasUl)
                        \/ Waiting(nasDl, "command") /\ Head(nasDl).psi = p
                              /\ nasDl' = Tail(nasDl) /\ nasUl' = nasUl
<1>1. Init => TypeInv /\ TurnInv
  BY TypesInductive, TurnsInductive
<1>2. TypeInv /\ TurnInv /\ [Next]_vars => TypeInv' /\ TurnInv'
  BY TypesInductive, TurnsInductive
<1>a. TypeInv => \A p \in Psis : Stalled(p) <=> Lost(p)
  BY CountTurns DEF Stalled, Lost
<1>b. (TypeInv => \A p \in Psis : Stalled(p) <=> Lost(p))'
  BY <1>a, PTL
<1>3. ASSUME TypeInv, TurnInv, TypeInv', [Next]_vars PROVE A
  <2>1. TurnGoal
    BY <1>3, TurnStep
  <2>. QED  BY <1>a, <1>b, <1>3, <2>1 DEF TurnGoal, StallCause
<1>4. TypeInv /\ TurnInv /\ TypeInv' /\ [Next]_vars => A
  BY <1>3
<1>. HIDE DEF A
<1>5. Spec => [][A]_vars
  BY <1>1, <1>2, <1>4, PTL DEF Spec
<1>. QED  BY <1>5 DEF A, StallCauses

-----------------------------------------------------------------------------
(* The request queues.  new is old without position g; new is old with m at the
   end. *)
Without(new, old, g) ==
    \E f \in [DOMAIN new -> DOMAIN old] :
        /\ \A j, k \in DOMAIN new : f[j] = f[k] => j = k
        /\ \A j \in DOMAIN new : f[j] # g /\ new[j] = old[f[j]]

LEMMA TailWithout ==
    ASSUME NEW q \in Seq(TRequests), q # << >>
    PROVE  Without(Tail(q), q, 1) /\ Head(q) = q[1] /\ 1 \in DOMAIN q
<1>1. /\ Tail(q) \in Seq(TRequests) /\ Head(q) = q[1] /\ Len(q) \in Nat \ {0}
      /\ Len(Tail(q)) = Len(q) - 1 /\ \A i \in 1..(Len(q) - 1) : Tail(q)[i] = q[i + 1]
  BY TailFacts
<1>2. DOMAIN q = 1..Len(q) /\ DOMAIN Tail(q) = 1..(Len(q) - 1)
  BY <1>1
<1>. DEFINE f == [j \in DOMAIN Tail(q) |-> j + 1]
<1>3. f \in [DOMAIN Tail(q) -> DOMAIN q]
  BY <1>1, <1>2
<1>4. \A j \in DOMAIN Tail(q) : f[j] = j + 1 /\ j + 1 # 1 /\ Tail(q)[j] = q[j + 1] /\ j \in Nat
  BY <1>1, <1>2
<1>. HIDE DEF f
<1>5. \A j, k \in DOMAIN Tail(q) : f[j] = f[k] => j = k
  BY <1>4
<1>. QED  BY <1>1, <1>2, <1>3, <1>4, <1>5 DEF Without

LEMMA RemoveWithout ==
    ASSUME NEW q \in Seq(TRequests), NEW i \in DOMAIN q
    PROVE  Without(RemoveAt(q, i), q, i)
<1>0. DOMAIN q = 1..Len(q) /\ i \in 1..Len(q) /\ Len(q) \in Nat
  OBVIOUS
<1>1. /\ RemoveAt(q, i) \in Seq(TRequests) /\ Len(RemoveAt(q, i)) = Len(q) - 1
      /\ \A j \in 1..(Len(q) - 1) : RemoveAt(q, i)[j] = q[IF j < i THEN j ELSE j + 1]
  BY <1>0, RemoveFacts
<1>2. DOMAIN RemoveAt(q, i) = 1..(Len(q) - 1)
  BY <1>1
<1>. DEFINE f == [j \in DOMAIN RemoveAt(q, i) |-> IF j < i THEN j ELSE j + 1]
<1>3. f \in [DOMAIN RemoveAt(q, i) -> DOMAIN q]
  BY <1>0, <1>2
<1>4. \A j \in DOMAIN RemoveAt(q, i) :
          f[j] = (IF j < i THEN j ELSE j + 1) /\ RemoveAt(q, i)[j] = q[f[j]] /\ j \in Nat /\ f[j] # i
  BY <1>0, <1>1, <1>2
<1>. HIDE DEF f
<1>5. \A j, k \in DOMAIN RemoveAt(q, i) : f[j] = f[k] => j = k
  BY <1>0, <1>4
<1>. QED  BY <1>3, <1>4, <1>5 DEF Without

LEMMA AppendDomain ==
    ASSUME NEW q \in Seq(TRequests), NEW m \in TRequests
    PROVE  /\ \A j \in DOMAIN Append(q, m) :
                  \/ j \in DOMAIN q /\ Append(q, m)[j] = q[j]
                  \/ j = Len(q) + 1 /\ Append(q, m)[j] = m
           /\ \A j \in DOMAIN q : j \in DOMAIN Append(q, m) /\ Append(q, m)[j] = q[j] /\ j # Len(q) + 1
           /\ Len(q) + 1 \in DOMAIN Append(q, m) /\ Append(q, m)[Len(q) + 1] = m
<1>1. /\ Append(q, m) \in Seq(TRequests) /\ Len(Append(q, m)) = Len(q) + 1 /\ Len(q) \in Nat
      /\ \A i \in 1..Len(q) : Append(q, m)[i] = q[i]
      /\ Append(q, m)[Len(q) + 1] = m
  BY AppendFacts
<1>2. DOMAIN q = 1..Len(q) /\ DOMAIN Append(q, m) = 1..(Len(q) + 1)
  BY <1>1
<1>. QED  BY <1>1, <1>2

LEMMA ClosedDomain ==
    ASSUME NEW q \in Seq(TRequests)
    PROVE  /\ DOMAIN Closed(q) = DOMAIN q
           /\ \A i \in DOMAIN q : Closed(q)[i].state = q[i].state /\ ~Closed(q)[i].open
<1>1. DOMAIN q = 1..Len(q)
  OBVIOUS
<1>. QED  BY <1>1, ClosedFacts DEF Closed

(* Requests keep their State as they move from the SMF through the relay. *)
LEMMA CarriesState ==
    ASSUME NEW r, NEW t, r.state = t.state, NEW s
    PROVE  Carries(r, s) <=> Carries(t, s)
BY DEF Carries

-----------------------------------------------------------------------------
(* The parts of the system LockInv speaks of, when they are left alone. *)
SameHeld == \A p \in Psis : smf[p].state' = smf[p].state

LEMMA LockFrame ==
    ASSUME TypeInv, LockInv, SameHeld, smfWait' = smfWait,
           UNCHANGED <<relayVars, relayLinkVars, radiusVars, aaaVars>>
    PROVE  LockInv'
<1>0. smfWait \in Psis \cup {NoPsi}
  BY DEF TypeInv, SmfTyped
<1>1. smfWait # NoPsi => smf[smfWait].state' = smf[smfWait].state
  BY <1>0 DEF SameHeld
<1>2. \A p \in Psis : \A s : Holds(p, s)' <=> Holds(p, s)
  BY DEF SameHeld, Holds
<1>3. /\ relayCur' = relayCur /\ relayReq' = relayReq /\ relayRsp' = relayRsp /\ radiusReq' = radiusReq
      /\ radiusRsp' = radiusRsp /\ aaa' = aaa /\ aaaNext' = aaaNext
  BY DEF relayVars, relayLinkVars, radiusVars, aaaVars
<1>4. \A s : Carried(s)' <=> Carried(s)
  BY <1>3 DEF Carried, Carries
<1>5. SocketInv'
  BY <1>1, <1>3 DEF LockInv, SocketInv, RelayOpenInv, RadiusOpenInv
<1>6. CreatedInv'
  BY <1>2, <1>3, <1>4 DEF LockInv, CreatedInv, IsChallenge
<1>7. HoldInv'
  BY <1>2, <1>3 DEF LockInv, HoldInv, NoneOpen, Carries
<1>8. AnswerInv'
  <2>1. \A rsp : AnswerOf(rsp) /\ (IsAccept(rsp) => smfWait # NoPsi) => AnswerOf(rsp)'
    BY <1>1, <1>2, <1>3, <1>4 DEF AnswerOf, IsChallenge, IsAccept, Current
  <2>2. IsAccept(relayRsp) => smfWait # NoPsi
    BY DEF LockInv, SocketInv, IsAccept
  <2>3. relayCur = "open" => smfWait # NoPsi
    BY DEF LockInv, SocketInv
  <2>. QED  BY <1>3, <2>1, <2>2, <2>3 DEF LockInv, AnswerInv
<1>. QED  BY <1>5, <1>6, <1>7, <1>8 DEF LockInv

(* The SMF opens an exchange for p with the State it holds for it. *)
LEMMA LockExchange ==
    ASSUME TypeInv, LockInv, NEW p \in Psis, NEW st, NEW e, RelayRequest(st, e) \in TRequests,
           smfWait = NoPsi, Exchange(p, st, e), smf[p].state' = st, st \in {NoState, smf[p].state},
           \A q \in Psis \ {p} : smf[q].state' = smf[q].state,
           UNCHANGED <<relayVars, radiusVars, aaaVars>>
    PROVE  LockInv'
<1>. DEFINE m == RelayRequest(st, e)
            n == Len(relayReq) + 1
<1>0. m.state = st /\ m.open = TRUE
  BY DEF RelayRequest
<1>1. /\ relayCur' = relayCur /\ relayRsp' = relayRsp /\ radiusReq' = radiusReq
      /\ radiusRsp' = radiusRsp /\ aaa' = aaa /\ aaaNext' = aaaNext
      /\ relayReq' = Append(relayReq, m) /\ smfWait' = p /\ smfWait = NoPsi /\ p # NoPsi
  BY SmfAssumption DEF relayVars, radiusVars, aaaVars, Exchange
<1>2. relayReq \in Seq(TRequests) /\ m \in TRequests
  BY DEF TypeInv, RelayTyped
<1>. HIDE DEF m, n
<1>3. /\ \A j \in DOMAIN relayReq' : \/ j \in DOMAIN relayReq /\ relayReq'[j] = relayReq[j]
                                     \/ j = n /\ relayReq'[j] = m
      /\ \A j \in DOMAIN relayReq : j \in DOMAIN relayReq' /\ relayReq'[j] = relayReq[j]
  BY <1>1, <1>2, AppendDomain DEF n
<1>4. relayCur # "open" /\ relayRsp = NoRsp /\ NoneOpen(relayReq)
  BY <1>1 DEF LockInv, SocketInv, RelayOpenInv, NoneOpen
<1>5. \A q \in Psis : \A s : Holds(q, s)' => Holds(q, s) /\ (q = p => st # NoState /\ st.sid = s)
  BY DEF Holds
<1>6. \A s : Carries(m, s) => Holds(p, s)
  BY <1>0 DEF Carries, Holds
<1>7. SocketInv'
  <2>1. RelayOpenInv'
    BY <1>0, <1>1, <1>3, <1>4 DEF RelayOpenInv, NoneOpen
  <2>2. RadiusOpenInv'
    BY <1>1, <1>4 DEF LockInv, SocketInv, RadiusOpenInv
  <2>. QED  BY <1>1, <1>4, <2>1, <2>2 DEF LockInv, SocketInv
<1>8. \A s : Carried(s)' => Carried(s) \/ Holds(p, s)
  BY <1>1, <1>3, <1>6 DEF Carried, Carries
<1>9. CreatedInv'
  BY <1>1, <1>5, <1>8 DEF LockInv, CreatedInv, IsChallenge
<1>10. HoldInv'
  <2>. SUFFICES ASSUME NEW q \in Psis, NEW s \in Sids, Holds(q, s)'
                PROVE  /\ \A r \in Psis : Holds(r, s)' => q = r
                       /\ \A i \in DOMAIN relayReq' : Carries(relayReq[i], s)' => relayReq[i].open' /\ smfWait' = q
                       /\ \A i \in DOMAIN radiusReq' :
                              Carries(radiusReq[i], s)' =>
                                smfWait' = q /\ NoneOpen(relayReq)' /\ (radiusReq[i].open' <=> relayCur' = "open")
    BY DEF HoldInv
  <2>1. Holds(q, s)
    BY <1>5
  <2>2. \A r \in Psis : Holds(r, s) => q = r
    BY <2>1 DEF LockInv, HoldInv
  <2>. q # NoPsi
    BY SmfAssumption
  <2>3. \A i \in DOMAIN relayReq : ~Carries(relayReq[i], s)
    BY <1>1, <2>1 DEF LockInv, HoldInv
  <2>4. \A i \in DOMAIN radiusReq : ~Carries(radiusReq[i], s)
    BY <1>1, <2>1 DEF LockInv, HoldInv
  <2>5. Carries(m, s) => q = p
    BY <1>6, <2>2
  <2>6. \A i \in DOMAIN relayReq' : Carries(relayReq'[i], s) => relayReq'[i] = m
    BY <1>3, <2>3
  <2>. QED  BY <1>0, <1>1, <1>5, <2>2, <2>4, <2>5, <2>6 DEF Carries
<1>11. AnswerInv'
  BY <1>1, <1>4 DEF AnswerInv, AnswerOf, IsChallenge, IsAccept
<1>. QED  BY <1>7, <1>9, <1>10, <1>11 DEF LockInv

(* The SMF is done waiting for p: nothing is open any more, and p holds nothing
   or, after a challenge, the State that came with it. *)
LEMMA LockDone ==
    ASSUME TypeInv, LockInv, NEW p \in Psis, smfWait = p, smfWait' = NoPsi, relayRsp' = NoRsp,
           relayCur' = (IF relayCur = "open" THEN "closed" ELSE relayCur),
           DOMAIN relayReq' = DOMAIN relayReq,
           \A i \in DOMAIN relayReq : relayReq'[i].state = relayReq[i].state /\ ~relayReq'[i].open,
           \A q \in Psis \ {p} : smf[q].state' = smf[q].state,
           \/ smf[p].state' = NoState
           \/ IsChallenge(relayRsp) /\ smf[p].state' = relayRsp.state,
           UNCHANGED <<radiusVars, aaaVars>>
    PROVE  LockInv'
<1>1. /\ radiusReq' = radiusReq /\ radiusRsp' = radiusRsp /\ aaa' = aaa /\ aaaNext' = aaaNext
      /\ relayCur' # "open" /\ (relayCur' = "idle" <=> relayCur = "idle")
  BY DEF radiusVars, aaaVars
<1>2. NoneOpen(relayReq)'
  BY DEF NoneOpen
<1>3. \A i \in DOMAIN relayReq' : \A s : Carries(relayReq'[i], s) => Carries(relayReq[i], s)
  BY DEF Carries
<1>4. \A s : Carried(s)' => Carried(s)
  BY <1>1, <1>3 DEF Carried, Carries
<1>5. \A q \in Psis : \A s : q # p /\ Holds(q, s)' => Holds(q, s)
  BY DEF Holds
<1>6. \A s : Holds(p, s)' => /\ IsChallenge(relayRsp) /\ relayRsp.state.sid = s
                             /\ ~Carried(s) /\ \A q \in Psis : Holds(q, s) => q = p
  BY DEF Holds, LockInv, AnswerInv, AnswerOf
<1>7. SocketInv'
  BY <1>1, <1>2 DEF LockInv, SocketInv, RelayOpenInv, RadiusOpenInv, NoneOpen
<1>8. CreatedInv'
  BY <1>1, <1>4, <1>5, <1>6 DEF LockInv, CreatedInv, IsChallenge
<1>9. HoldInv'
  <2>. SUFFICES ASSUME NEW q \in Psis, NEW s \in Sids, Holds(q, s)'
                PROVE  /\ \A r \in Psis : Holds(r, s)' => q = r
                       /\ ~Carried(s)'
    BY DEF HoldInv, Carried
  <2>1. CASE q = p
    BY <1>4, <1>5, <1>6, <2>1
  <2>2. CASE q # p
    <3>1. Holds(q, s) /\ ~Holds(p, s)'
      BY <1>5, <1>6, <2>2
    <3>2. \A r \in Psis : Holds(r, s)' => q = r
      BY <1>5, <3>1 DEF LockInv, HoldInv
    <3>3. ~Carried(s)
      BY <2>2, <3>1 DEF LockInv, HoldInv, Carried
    <3>. QED  BY <1>4, <3>2, <3>3
  <2>. QED  BY <2>1, <2>2
<1>10. AnswerInv'
  BY <1>1 DEF AnswerInv, AnswerOf, IsChallenge, IsAccept
<1>. QED  BY <1>7, <1>8, <1>9, <1>10 DEF LockInv

LEMMA LockSmf ==
    ASSUME TypeInv, LockInv, SmfStep \/ RanStep
    PROVE  LockInv'
<1>1. PICK q \in Psis :
          \/ SmfSetupResponse(q)
          \/ smf_timer_sec_auth_start(q)
          \/ smf_start_secondary_auth(q) \/ SmfStartIgnored(q)
          \/ smf_handle_secondary_auth_complete(q) \/ SmfUnknownMessage(q)
          \/ SmfChallenge(q) \/ SmfVerdict(q)
  BY DEF SmfStep, RanStep, SmfNext
<1>0. N1Typed /\ smf \in [Psis -> SmfType] /\ UNCHANGED <<relayVars, radiusVars, aaaVars>>
  BY DEF TypeInv, SmfTyped, SmfStep, RanStep
<1>2. CASE SmfSetupResponse(q) \/ smf_timer_sec_auth_start(q) \/ SmfStartIgnored(q) \/ SmfUnknownMessage(q)
  <2>1. SmfSetupResponse(q) => SameHeld
    <3>. DEFINE b == smf[q].timer \/ ~smf[q].inProgress
    <3>1. SmfSetupResponse(q) => smf' = [smf EXCEPT ![q].timer = b]
      BY DEF SmfSetupResponse
    <3>. HIDE DEF b
    <3>. QED  BY <1>0, <3>1 DEF SameHeld, SmfType
  <2>2. smf_timer_sec_auth_start(q) => SameHeld
    BY <1>0 DEF smf_timer_sec_auth_start, SameHeld, SmfType
  <2>3. SmfStartIgnored(q) \/ SmfUnknownMessage(q) => SameHeld
    BY <1>0 DEF SmfStartIgnored, SmfUnknownMessage, SameHeld, SmfType, smfVars
  <2>. QED
    BY <1>0, <1>2, <2>1, <2>2, <2>3, LockFrame
       DEF SmfSetupResponse, smf_timer_sec_auth_start, SmfStartIgnored, SmfUnknownMessage, smfVars
<1>3. CASE smf_start_secondary_auth(q)
  <2>1. smf[q].state' = NoState /\ \A r \in Psis \ {q} : smf[r].state' = smf[r].state
    BY <1>0, <1>3 DEF smf_start_secondary_auth, SmfType
  <2>2. RelayRequest(NoState, Identity(1)) \in TRequests
    BY DEF RelayRequest, TRequests
  <2>. QED  BY <1>0, <1>3, <2>1, <2>2, LockExchange DEF smf_start_secondary_auth
<1>4. CASE smf_handle_secondary_auth_complete(q)
  <2>1. RelayRequest(smf[q].state, Head(nasUl).eap) \in TRequests
    <3>1. Head(nasUl) \in UlMsgs /\ Head(nasUl).kind = "complete" /\ smf[q] \in SmfType
      BY <1>0, <1>4, TailFacts DEF smf_handle_secondary_auth_complete, Waiting, N1Typed
    <3>. QED  BY <3>1 DEF RelayRequest, TRequests, UlMsgs, SmfType
  <2>. QED  BY <1>0, <1>4, <2>1, LockExchange DEF smf_handle_secondary_auth_complete
<1>5. CASE SmfChallenge(q) \/ SmfVerdict(q)
  <2>1. smfWait = q /\ smfWait' = NoPsi /\ relayRsp # NoRsp /\ relayRsp' = NoRsp /\ relayReq' = relayReq
    BY <1>5 DEF SmfChallenge, SmfVerdict, SmfFinish
  <2>2. relayCur # "open" /\ relayCur' = relayCur /\ \A i \in DOMAIN relayReq : ~relayReq[i].open
    BY <1>0, <2>1 DEF LockInv, SocketInv, RelayOpenInv, relayVars
  <2>3. \A r \in Psis \ {q} : smf[r].state' = smf[r].state
    BY <1>0, <1>5 DEF SmfChallenge, SmfVerdict, SmfFinish, SmfType
  <2>4. \/ smf[q].state' = NoState
        \/ IsChallenge(relayRsp) /\ smf[q].state' = relayRsp.state
    BY <1>0, <1>5 DEF SmfChallenge, SmfVerdict, SmfFinish, SmfType, IsChallenge
  <2>. QED  BY <1>0, <2>1, <2>2, <2>3, <2>4, LockDone
<1>. QED  BY <1>1, <1>2, <1>3, <1>4, <1>5

LEMMA LockSmfGivesUp ==
    ASSUME TypeInv, LockInv, SmfGivesUp
    PROVE  LockInv'
<1>1. PICK q \in Psis : SmfTimeout(q)
  BY DEF SmfGivesUp
<1>2. smf \in [Psis -> SmfType] /\ relayReq \in Seq(TRequests)
  BY DEF TypeInv, SmfTyped, RelayTyped
<1>3. smfWait = q /\ smfWait' = NoPsi /\ relayRsp' = NoRsp /\ relayReq' = Closed(relayReq)
      /\ relayCur' = (IF relayCur = "open" THEN "closed" ELSE relayCur) /\ UNCHANGED <<radiusVars, aaaVars>>
  BY <1>1 DEF SmfGivesUp, SmfTimeout, SmfFinish
<1>4. smf[q].state' = NoState /\ \A r \in Psis \ {q} : smf[r].state' = smf[r].state
  BY <1>1, <1>2 DEF SmfTimeout, SmfFinish, SmfType
<1>5. /\ DOMAIN relayReq' = DOMAIN relayReq
      /\ \A i \in DOMAIN relayReq : relayReq'[i].state = relayReq[i].state /\ ~relayReq'[i].open
  BY <1>2, <1>3, ClosedDomain
<1>. QED  BY <1>3, <1>4, <1>5, LockDone

-----------------------------------------------------------------------------
(* The relay reads a request and passes it on. *)
LEMMA LockRead ==
    ASSUME TypeInv, LockInv, RelayRead, UNCHANGED <<smfVars, aaaVars>>
    PROVE  LockInv'
<1>. DEFINE r == Head(relayReq)
            m == AccessRequest(r.state, r.eap)
            n == Len(radiusReq) + 1
<1>1. /\ relayCur = "idle" /\ relayCur' = (IF r.open THEN "open" ELSE "closed")
      /\ relayRsp' = relayRsp /\ radiusRsp' = radiusRsp /\ aaa' = aaa /\ aaaNext' = aaaNext
      /\ smf' = smf /\ smfWait' = smfWait /\ relayReq # << >>
      /\ relayReq' = Tail(relayReq) /\ radiusReq' = Append(radiusReq, m)
  BY DEF RelayRead, smfVars, aaaVars
<1>2. relayReq \in Seq(TRequests) /\ radiusReq \in Seq(TRequests) /\ r \in TRequests
  BY <1>1, TailFacts DEF TypeInv, RelayTyped, RadiusTyped
<1>3. m \in TRequests /\ m.state = r.state /\ m.open = TRUE
  BY <1>2 DEF AccessRequest, TRequests
<1>4. Without(relayReq', relayReq, 1) /\ r = relayReq[1] /\ 1 \in DOMAIN relayReq
  BY <1>1, <1>2, TailWithout
<1>5. PICK f \in [DOMAIN relayReq' -> DOMAIN relayReq] :
          \A j \in DOMAIN relayReq' : f[j] # 1 /\ relayReq'[j] = relayReq[f[j]]
                /\ \A k \in DOMAIN relayReq' : f[j] = f[k] => j = k
  BY <1>4 DEF Without
<1>. HIDE DEF r, m, n
<1>6. /\ \A j \in DOMAIN radiusReq' : \/ j \in DOMAIN radiusReq /\ radiusReq'[j] = radiusReq[j]
                                      \/ j = n /\ radiusReq'[j] = m
  BY <1>1, <1>2, <1>3, AppendDomain DEF n
<1>7. radiusRsp = NoRsp /\ NoneOpen(radiusReq)
  BY <1>1 DEF LockInv, SocketInv, RadiusOpenInv, NoneOpen
<1>8. r.open => smfWait # NoPsi /\ relayRsp = NoRsp /\ r.state = smf[smfWait].state
                /\ NoneOpen(relayReq)'
  BY <1>4, <1>5 DEF LockInv, SocketInv, RelayOpenInv, NoneOpen
<1>9. SocketInv'
  <2>1. RelayOpenInv'
    BY <1>1, <1>5, <1>8 DEF LockInv, SocketInv, RelayOpenInv, NoneOpen
  <2>2. RadiusOpenInv'
    BY <1>1, <1>3, <1>6, <1>7, <1>8 DEF RadiusOpenInv, NoneOpen
  <2>. QED  BY <1>1, <1>7, <1>8, <2>1, <2>2 DEF LockInv, SocketInv
<1>10. \A s : Carried(s)' => Carried(s)
  BY <1>3, <1>4, <1>5, <1>6 DEF Carried, Carries
<1>11. \A q, s : Holds(q, s)' <=> Holds(q, s)
  BY <1>1 DEF Holds
<1>12. CreatedInv'
  BY <1>1, <1>10, <1>11 DEF LockInv, CreatedInv, IsChallenge
<1>13. HoldInv'
  <2>. SUFFICES ASSUME NEW q \in Psis, NEW s \in Sids, Holds(q, s)
                PROVE  /\ \A t \in Psis : Holds(t, s) => q = t
                       /\ \A i \in DOMAIN relayReq' : Carries(relayReq'[i], s) => relayReq'[i].open /\ smfWait = q
                       /\ \A i \in DOMAIN radiusReq' :
                              Carries(radiusReq'[i], s) =>
                                smfWait = q /\ NoneOpen(relayReq)' /\ (radiusReq'[i].open <=> relayCur' = "open")
    BY <1>1, <1>11 DEF HoldInv, Carries
  <2>1. /\ \A t \in Psis : Holds(t, s) => q = t
        /\ \A i \in DOMAIN relayReq : Carries(relayReq[i], s) => relayReq[i].open /\ smfWait = q
        /\ \A i \in DOMAIN radiusReq :
               Carries(radiusReq[i], s) => smfWait = q /\ NoneOpen(relayReq) /\ ~radiusReq[i].open
    BY <1>7 DEF LockInv, HoldInv, NoneOpen
  <2>2. Carries(m, s) => smfWait = q /\ r.open
    BY <1>3, <1>4, <2>1 DEF Carries
  <2>3. NoneOpen(relayReq) => ~r.open /\ NoneOpen(relayReq)'
    BY <1>4, <1>5 DEF NoneOpen
  <2>4. \A i \in DOMAIN relayReq' : Carries(relayReq'[i], s) => relayReq'[i].open /\ smfWait = q
    BY <1>5, <2>1
  <2>5. ASSUME NEW i \in DOMAIN radiusReq', Carries(radiusReq'[i], s)
        PROVE  smfWait = q /\ NoneOpen(relayReq)' /\ (radiusReq'[i].open <=> relayCur' = "open")
    <3>1. CASE i \in DOMAIN radiusReq /\ radiusReq'[i] = radiusReq[i]
      BY <1>1, <2>1, <2>3, <2>5, <3>1
    <3>2. CASE radiusReq'[i] = m
      BY <1>1, <1>3, <1>8, <2>2, <2>5, <3>2
    <3>. QED  BY <1>6, <3>1, <3>2
  <2>. QED  BY <2>1, <2>4, <2>5
<1>14. AnswerInv'
  BY <1>1, <1>7, <1>10, <1>11 DEF LockInv, AnswerInv, AnswerOf, IsChallenge, IsAccept, Current
<1>. QED  BY <1>9, <1>12, <1>13, <1>14 DEF LockInv

(* The relay answers, with what the DN-AAA said or with an error of its own. *)
LEMMA LockRelayAnswers ==
    ASSUME TypeInv, LockInv, relayCur # "idle", NEW rsp, radiusRsp' = NoRsp,
           relayRsp' = (IF relayCur = "open" THEN rsp ELSE relayRsp), relayCur' = "idle", relayReq' = relayReq,
           DOMAIN radiusReq' = DOMAIN radiusReq,
           \A i \in DOMAIN radiusReq : radiusReq'[i].state = radiusReq[i].state /\ ~radiusReq'[i].open,
           rsp = radiusRsp \/ (~IsChallenge(rsp) /\ ~IsAccept(rsp)),
           UNCHANGED <<smfVars, aaaVars>>
    PROVE  LockInv'
<1>1. /\ relayCur' = "idle" /\ relayRsp' = (IF relayCur = "open" THEN rsp ELSE relayRsp)
      /\ relayReq' = relayReq /\ aaa' = aaa /\ aaaNext' = aaaNext /\ smf' = smf /\ smfWait' = smfWait
  BY DEF smfVars, aaaVars
<1>2. SocketInv'
  <2>1. RelayOpenInv'
    BY <1>1 DEF LockInv, SocketInv, RelayOpenInv
  <2>. QED  BY <1>1, <2>1 DEF LockInv, SocketInv, RadiusOpenInv
<1>3. \A i \in DOMAIN radiusReq' : \A s : Carries(radiusReq'[i], s) => Carries(radiusReq[i], s)
  BY DEF Carries
<1>4. \A s : Carried(s)' => Carried(s)
  BY <1>1, <1>3 DEF Carried, Carries
<1>5. \A q, s : Holds(q, s)' <=> Holds(q, s)
  BY <1>1 DEF Holds
<1>6. CreatedInv'
  BY <1>1, <1>4, <1>5 DEF LockInv, CreatedInv, IsChallenge
<1>7. HoldInv'
  BY <1>1, <1>3, <1>5 DEF LockInv, HoldInv, NoneOpen, Carries
<1>8. AnswerInv'
  <2>1. relayCur = "open" => AnswerOf(rsp)
    BY DEF LockInv, AnswerInv, AnswerOf
  <2>2. AnswerOf(relayRsp) /\ ((relayCur = "open" /\ relayRsp' = rsp) \/ relayRsp' = relayRsp)
    BY <1>1 DEF LockInv, AnswerInv
  <2>3. AnswerOf(relayRsp)'
    BY <1>1, <1>4, <1>5, <2>1, <2>2 DEF AnswerOf, IsChallenge, IsAccept, Current
  <2>4. relayCur' # "open"
    BY <1>1
  <2>. QED  BY <2>3, <2>4 DEF AnswerInv
<1>. QED  BY <1>2, <1>6, <1>7, <1>8 DEF LockInv

LEMMA LockRelay ==
    ASSUME TypeInv, LockInv, RelayStep \/ RelayGivesUp
    PROVE  LockInv'
<1>0. UNCHANGED <<smfVars, aaaVars>> /\ radiusReq \in Seq(TRequests)
  BY DEF RelayStep, RelayGivesUp, TypeInv, RadiusTyped
<1>1. CASE RelayRead
  BY <1>0, <1>1, LockRead
<1>2. CASE RelayForward
  <2>1. radiusRsp # NoRsp /\ RelayAnswer(radiusRsp) /\ radiusRsp' = NoRsp /\ radiusReq' = radiusReq
    BY <1>2 DEF RelayForward
  <2>2. relayCur # "idle" /\ \A i \in DOMAIN radiusReq : ~radiusReq[i].open
    BY <2>1 DEF LockInv, SocketInv, RadiusOpenInv
  <2>. QED  BY <1>0, <2>1, <2>2, LockRelayAnswers DEF RelayAnswer
<1>3. CASE RelayTimeout
  <2>1. relayCur # "idle" /\ RelayAnswer(RelayError) /\ radiusRsp' = NoRsp /\ radiusReq' = Closed(radiusReq)
    BY <1>3 DEF RelayTimeout
  <2>2. ~IsChallenge(RelayError) /\ ~IsAccept(RelayError)
    BY DEF RelayError, IsChallenge, IsAccept
  <2>. QED  BY <1>0, <2>1, <2>2, ClosedDomain, LockRelayAnswers DEF RelayAnswer
<1>. QED  BY <1>1, <1>2, <1>3 DEF RelayStep, RelayNext, RelayGivesUp

-----------------------------------------------------------------------------
(* A request is lost. *)
LEMMA LockLose ==
    ASSUME TypeInv, LockInv, UNCHANGED <<smfVars, aaaVars, relayVars, relayRsp, radiusRsp>>,
           \/ radiusReq' = radiusReq /\ \E i \in DOMAIN relayReq : relayReq' = RemoveAt(relayReq, i)
           \/ relayReq' = relayReq /\ \E i \in DOMAIN radiusReq : radiusReq' = RemoveAt(radiusReq, i)
    PROVE  LockInv'
<1>1. /\ relayCur' = relayCur /\ relayRsp' = relayRsp /\ radiusRsp' = radiusRsp /\ aaa' = aaa
      /\ aaaNext' = aaaNext /\ smf' = smf /\ smfWait' = smfWait
  BY DEF smfVars, aaaVars, relayVars
<1>0. relayReq \in Seq(TRequests) /\ radiusReq \in Seq(TRequests)
  BY DEF TypeInv, RelayTyped, RadiusTyped
<1>2. \A j \in DOMAIN relayReq' : \E k \in DOMAIN relayReq : relayReq'[j] = relayReq[k]
  BY <1>0, RemoveWithout DEF Without
<1>3. \A j \in DOMAIN radiusReq' : \E k \in DOMAIN radiusReq : radiusReq'[j] = radiusReq[k]
  BY <1>0, RemoveWithout DEF Without
<1>4. \A s : Carried(s)' => Carried(s)
  BY <1>2, <1>3 DEF Carried, Carries
<1>5. \A q, s : Holds(q, s)' <=> Holds(q, s)
  BY <1>1 DEF Holds
<1>6. SocketInv'
  <2>1. RelayOpenInv'
    <3>1. CASE relayReq' = relayReq
      BY <1>1, <3>1 DEF LockInv, SocketInv, RelayOpenInv
    <3>2. ASSUME NEW i \in DOMAIN relayReq, relayReq' = RemoveAt(relayReq, i) PROVE RelayOpenInv'
      BY <1>0, <1>1, <3>2, RemoveWithout DEF LockInv, SocketInv, RelayOpenInv, Without
    <3>. QED  BY <3>1, <3>2
  <2>2. RadiusOpenInv'
    <3>1. CASE radiusReq' = radiusReq
      BY <1>1, <3>1 DEF LockInv, SocketInv, RadiusOpenInv
    <3>2. ASSUME NEW i \in DOMAIN radiusReq, radiusReq' = RemoveAt(radiusReq, i) PROVE RadiusOpenInv'
      BY <1>0, <1>1, <3>2, RemoveWithout DEF LockInv, SocketInv, RadiusOpenInv, Without
    <3>. QED  BY <3>1, <3>2
  <2>. QED  BY <1>1, <2>1, <2>2 DEF LockInv, SocketInv
<1>7. CreatedInv'
  BY <1>1, <1>4, <1>5 DEF LockInv, CreatedInv, IsChallenge
<1>8. HoldInv'
  BY <1>1, <1>2, <1>3, <1>5 DEF LockInv, HoldInv, NoneOpen, Carries
<1>9. AnswerInv'
  BY <1>1, <1>4, <1>5 DEF LockInv, AnswerInv, AnswerOf, IsChallenge, IsAccept, Current
<1>. QED  BY <1>6, <1>7, <1>8, <1>9 DEF LockInv

(* An idle session expires. *)
LEMMA LockExpire ==
    ASSUME TypeInv, LockInv, NEW s \in Sids, Expire(s), UNCHANGED <<smfVars, relayVars, relayLinkVars>>
    PROVE  LockInv'
<1>1. /\ relayCur' = relayCur /\ relayReq' = relayReq /\ relayRsp' = relayRsp /\ radiusReq' = radiusReq
      /\ radiusRsp' = radiusRsp /\ aaaNext' = aaaNext /\ smf' = smf /\ smfWait' = smfWait
  BY DEF smfVars, relayVars, relayLinkVars, radiusVars, Expire
<1>2. \A t \in Sids : /\ aaa'[t].trip = aaa[t].trip /\ aaa'[t].id = aaa[t].id
                      /\ aaa[t].status \in {"listed", "expired"} => aaa'[t].status \in {"listed", "expired"}
                      /\ aaa[t].status = "success" => aaa'[t].status = "success"
  BY DEF Expire, TypeInv, AaaTyped, TSessions
<1>3. SocketInv' /\ CreatedInv' /\ HoldInv'
  BY <1>1 DEF LockInv, SocketInv, RelayOpenInv, RadiusOpenInv, CreatedInv, Carried, Carries, Holds,
              IsChallenge, HoldInv, NoneOpen
<1>4. AnswerInv'
  <2>1. ASSUME NEW x \in TResponses, AnswerOf(x), IsAccept(x) => smfWait \in Psis
        PROVE  AnswerOf(x)'
    <3>1. IsChallenge(x) => x.state.sid \in Sids
      BY DEF IsChallenge, TResponses, TStates
    <3>2. IsAccept(x) => smf[smfWait].state.sid \in Sids
      BY <2>1 DEF AnswerOf, TypeInv, SmfTyped, SmfType, TStates
    <3>. QED
      BY <1>1, <1>2, <2>1, <3>1, <3>2
         DEF AnswerOf, IsChallenge, IsAccept, Current, Holds, Carried, Carries
  <2>2. relayRsp \in TResponses /\ radiusRsp \in TResponses /\ smfWait \in Psis \cup {NoPsi}
    BY DEF TypeInv, RelayTyped, RadiusTyped, SmfTyped
  <2>3. (IsAccept(relayRsp) => smfWait \in Psis) /\ (relayCur = "open" => smfWait \in Psis)
    BY <2>2 DEF LockInv, SocketInv, IsAccept
  <2>. QED  BY <1>1, <2>1, <2>2, <2>3 DEF LockInv, AnswerInv
<1>. QED  BY <1>3, <1>4 DEF LockInv

-----------------------------------------------------------------------------
(* The DN-AAA answers request i.  It touches the session the request names, or
   the one it creates; an answer that is still waited for is the SMF's. *)
LEMMA LockAnswer ==
    ASSUME TypeInv, LockInv, NEW i \in DOMAIN radiusReq, NEW rsp, Answer(i, rsp),
           UNCHANGED <<smfVars, relayVars, relayLinkVars>>,
           aaaNext' \in Nat, aaaNext' >= aaaNext,
           \A t \in Sids : t < aaaNext /\ ~(Carries(radiusReq[i], t) /\ aaa[t].status = "listed")
                              => aaa'[t] = aaa[t],
           IsChallenge(rsp) => rsp.state.sid \in Sids /\ rsp.state.sid < aaaNext',
           radiusReq[i].open /\ relayCur = "open" =>
               /\ IsChallenge(rsp) => /\ aaa'[rsp.state.sid].trip = rsp.state.trip
                                      /\ aaa'[rsp.state.sid].status = "listed"
                                      /\ aaa'[rsp.state.sid].id = rsp.eap.id
                                      /\ rsp.state.sid >= aaaNext \/ Carries(radiusReq[i], rsp.state.sid)
               /\ IsAccept(rsp) => /\ radiusReq[i].state # NoState
                                   /\ aaa'[radiusReq[i].state.sid].status = "success"
    PROVE  LockInv'
<1>1. /\ relayCur' = relayCur /\ relayReq' = relayReq /\ relayRsp' = relayRsp /\ smf' = smf
      /\ smfWait' = smfWait /\ radiusReq' = RemoveAt(radiusReq, i)
      /\ radiusRsp' = (IF radiusReq[i].open THEN rsp ELSE radiusRsp)
  BY DEF smfVars, relayVars, relayLinkVars, Answer
<1>2. radiusReq \in Seq(TRequests) /\ relayRsp \in TResponses /\ radiusRsp \in TResponses
      /\ smfWait \in Psis \cup {NoPsi} /\ smf \in [Psis -> SmfType]
      /\ aaaNext \in Nat
  BY DEF TypeInv, RelayTyped, RadiusTyped, SmfTyped, AaaTyped
<1>3. PICK f \in [DOMAIN radiusReq' -> DOMAIN radiusReq] :
          /\ \A j, k \in DOMAIN radiusReq' : f[j] = f[k] => j = k
          /\ \A j \in DOMAIN radiusReq' : f[j] # i /\ radiusReq'[j] = radiusReq[f[j]]
  BY <1>1, <1>2, RemoveWithout DEF Without
<1>4. \A s : Carried(s)' => Carried(s)
  BY <1>1, <1>3 DEF Carried, Carries
<1>5. \A q, s : Holds(q, s)' <=> Holds(q, s)
  BY <1>1 DEF Holds
<1>6. SocketInv'
  <2>1. RelayOpenInv'
    BY <1>1 DEF LockInv, SocketInv, RelayOpenInv
  <2>2. RadiusOpenInv'
    BY <1>1, <1>3 DEF LockInv, SocketInv, RadiusOpenInv
  <2>3. radiusRsp' # NoRsp => relayCur # "idle"
    BY <1>1 DEF LockInv, SocketInv, RadiusOpenInv
  <2>. QED  BY <1>1, <2>1, <2>2, <2>3 DEF LockInv, SocketInv
<1>7. CreatedInv'
  <2>1. \A s \in Sids : Carried(s)' \/ (\E p \in Psis : Holds(p, s)') => s < aaaNext'
    <3>1. \A s \in Sids : s \in Nat
      BY AaaAssumption DEF Sids
    <3>. QED  BY <1>2, <1>4, <1>5, <3>1 DEF LockInv, CreatedInv
  <2>2. \A x \in {relayRsp, radiusRsp} : IsChallenge(x) => x.state.sid \in Nat
    BY <1>2, AaaAssumption DEF IsChallenge, TResponses, TStates, Sids
  <2>3. \A x \in {relayRsp, radiusRsp} : IsChallenge(x) => x.state.sid < aaaNext'
    BY <1>2, <2>2 DEF LockInv, CreatedInv
  <2>4. \A x \in {relayRsp', radiusRsp'} : IsChallenge(x) => x.state.sid < aaaNext'
    BY <1>1, <2>3
  <2>. QED  BY <2>1, <2>4 DEF CreatedInv, IsChallenge
<1>8. HoldInv'
  BY <1>1, <1>3, <1>5 DEF LockInv, HoldInv, NoneOpen, Carries
<1>9. ASSUME NEW x \in {relayRsp, radiusRsp}, AnswerOf(x), IsAccept(x) => smfWait \in Psis
      PROVE  /\ IsChallenge(x) => aaa'[x.state.sid] = aaa[x.state.sid]
             /\ IsAccept(x) => aaa'[smf[smfWait].state.sid] = aaa[smf[smfWait].state.sid]
  <2>1. IsChallenge(x) => x.state.sid \in Sids /\ x.state.sid < aaaNext
    BY <1>2 DEF IsChallenge, TResponses, TStates, LockInv, CreatedInv
  <2>2. IsChallenge(x) => ~Carries(radiusReq[i], x.state.sid)
    BY <1>9 DEF AnswerOf, Carried
  <2>3. IsAccept(x) => smf[smfWait].state.sid \in Sids /\ Holds(smfWait, smf[smfWait].state.sid)
    BY <1>2, <1>9 DEF AnswerOf, SmfType, TStates, Holds
  <2>4. IsAccept(x) => smf[smfWait].state.sid < aaaNext /\ aaa[smf[smfWait].state.sid].status # "listed"
    BY <1>9, <2>3 DEF AnswerOf, LockInv, CreatedInv
  <2>. QED  BY <2>1, <2>2, <2>3, <2>4
<1>10. AnswerOf(relayRsp)'
  <2>1. IsAccept(relayRsp) => smfWait \in Psis
    BY <1>2 DEF LockInv, SocketInv, IsAccept
  <2>2. AnswerOf(relayRsp)
    BY DEF LockInv, AnswerInv
  <2>3. /\ IsChallenge(relayRsp) => aaa'[relayRsp.state.sid] = aaa[relayRsp.state.sid]
        /\ IsAccept(relayRsp) => aaa'[smf[smfWait].state.sid] = aaa[smf[smfWait].state.sid]
    BY <1>9, <2>1, <2>2
  <2>. QED  BY <1>1, <1>4, <1>5, <2>2, <2>3 DEF AnswerOf, IsChallenge, IsAccept, Current
<1>11. ASSUME relayCur = "open" PROVE AnswerOf(radiusRsp)'
  <2>0. smfWait \in Psis /\ AnswerOf(radiusRsp)
    BY <1>2, <1>11 DEF LockInv, SocketInv, AnswerInv
  <2>1. CASE ~radiusReq[i].open
    <3>1. /\ IsChallenge(radiusRsp) => aaa'[radiusRsp.state.sid] = aaa[radiusRsp.state.sid]
          /\ IsAccept(radiusRsp) => aaa'[smf[smfWait].state.sid] = aaa[smf[smfWait].state.sid]
      BY <1>9, <2>0
    <3>. QED  BY <1>1, <1>4, <1>5, <2>0, <2>1, <3>1 DEF AnswerOf, IsChallenge, IsAccept, Current
  <2>2. CASE radiusReq[i].open
    <3>. DEFINE c == rsp.state.sid
    <3>1. radiusReq[i].state = smf[smfWait].state /\ radiusRsp' = rsp
      BY <1>1, <1>11, <2>2 DEF LockInv, SocketInv, RadiusOpenInv
    <3>2. NoneOpen(relayReq)
      BY <1>11 DEF LockInv, SocketInv, RelayOpenInv, NoneOpen
    <3>3. ASSUME IsChallenge(rsp)
          PROVE  ~Carried(c)' /\ \A p \in Psis : Holds(p, c) => p = smfWait
      <4>1. c \in Sids /\ c \in Nat
        BY <3>3, AaaAssumption DEF Sids
      <4>2. CASE c >= aaaNext
        BY <1>2, <1>4, <4>1, <4>2 DEF LockInv, CreatedInv
      <4>3. CASE Carries(radiusReq[i], c)
        <5>1. Holds(smfWait, c)
          BY <3>1, <4>3 DEF Holds, Carries
        <5>2. /\ \A p \in Psis : Holds(p, c) => p = smfWait
              /\ \A j \in DOMAIN relayReq : ~Carries(relayReq[j], c)
              /\ \A j \in DOMAIN radiusReq : Carries(radiusReq[j], c) => radiusReq[j].open
          BY <1>11, <2>0, <3>2, <4>1, <5>1 DEF LockInv, HoldInv, NoneOpen
        <5>3. \A j \in DOMAIN radiusReq : Carries(radiusReq[j], c) => j = i
          BY <2>2, <5>2 DEF LockInv, SocketInv, RadiusOpenInv
        <5>. QED  BY <1>1, <1>3, <5>2, <5>3 DEF Carried, Carries
      <4>. QED  BY <1>11, <2>2, <3>3, <4>2, <4>3
    <3>4. IsChallenge(rsp) => AnswerOf(radiusRsp)'
      BY <1>1, <1>5, <1>11, <2>2, <3>1, <3>3 DEF AnswerOf, IsChallenge, IsAccept, Current
    <3>5. ~IsChallenge(rsp) => AnswerOf(radiusRsp)'
      BY <1>1, <1>11, <2>2, <3>1 DEF AnswerOf, IsChallenge, IsAccept
    <3>. QED  BY <3>4, <3>5
  <2>. QED  BY <2>1, <2>2
<1>. QED  BY <1>1, <1>6, <1>7, <1>8, <1>10, <1>11 DEF LockInv, AnswerInv

LEMMA LockAaa ==
    ASSUME TypeInv, LockInv, AaaStep
    PROVE  LockInv'
<1>0. UNCHANGED <<smfVars, relayVars, relayLinkVars>> /\ aaa \in [Sids -> TSessions]
      /\ aaaNext \in Nat /\ radiusReq \in Seq(TRequests) /\ \A t \in Sids : t \in Nat
  BY AaaAssumption DEF AaaStep, TypeInv, AaaTyped, RadiusTyped, Sids
<1>1. PICK i \in DOMAIN radiusReq : AaaActs(i)
  BY AaaShape DEF AaaStep, TypeInv
<1>2. CASE mod_session_init(i)
  <2>. DEFINE id == radiusReq[i].eap.id + 1
              rsp == AccessChallenge(StateAttr(aaaNext, 0), EdhocPacket(id, StartWire))
              sess == [NoSession EXCEPT !.status = "listed", !.id = id]
  <2>1. Answer(i, rsp) /\ aaaNext \in Sids /\ aaaNext' = aaaNext + 1 /\ aaa' = [aaa EXCEPT ![aaaNext] = sess]
    BY <1>2 DEF mod_session_init
  <2>2. rsp.state.sid = aaaNext /\ rsp.state.trip = 0 /\ rsp.eap.id = id /\ ~IsAccept(rsp)
    BY DEF AccessChallenge, StateAttr, EdhocPacket, IsAccept
  <2>3. sess.status = "listed" /\ sess.id = id /\ sess.trip = 0
    BY DEF NoSession
  <2>. HIDE DEF rsp, sess, id
  <2>. QED  BY <1>0, <2>1, <2>2, <2>3, LockAnswer
<1>3. CASE RejectUnknown(i)
  <2>1. ~IsChallenge(AccessReject) /\ ~IsAccept(AccessReject)
    BY DEF AccessReject, IsChallenge, IsAccept
  <2>. QED  BY <1>0, <1>3, <2>1, LockAnswer DEF RejectUnknown, aaaVars
<1>4. ASSUME NEW s \in Sids, Continues(i, s) PROVE LockInv'
  <2>1. PICK sess \in TSessions, w \in TWires : Served(s, sess) /\ Challenge(i, s, sess, w)
    BY <1>4 DEF Continues
  <2>. DEFINE rsp == AccessChallenge(StateAttr(s, sess.trip + 1), EdhocPacket(sess.id + 1, w))
              new == [sess EXCEPT !.trip = sess.trip + 1, !.id = sess.id + 1]
  <2>2. Answer(i, rsp) /\ aaaNext' = aaaNext /\ aaa' = [aaa EXCEPT ![s] = new]
    BY <2>1 DEF Challenge
  <2>3. rsp.state.sid = s /\ rsp.state.trip = sess.trip + 1 /\ rsp.eap.id = sess.id + 1 /\ ~IsAccept(rsp)
    BY DEF AccessChallenge, StateAttr, EdhocPacket, IsAccept
  <2>4. new.status = "listed" /\ new.id = sess.id + 1 /\ new.trip = sess.trip + 1
    BY <2>1 DEF TSessions, Served
  <2>5. Carries(radiusReq[i], s) /\ aaa[s].status = "listed"
    BY <1>4 DEF Continues, Matches, Carries
  <2>6. s < aaaNext
    BY <2>5 DEF LockInv, CreatedInv, Carried
  <2>. HIDE DEF rsp, new
  <2>7. \A t \in Sids : t # s => aaa'[t] = aaa[t]
    BY <1>0, <2>2
  <2>. QED  BY <1>0, <2>2, <2>3, <2>4, <2>5, <2>6, <2>7, LockAnswer
<1>5. ASSUME NEW s \in Sids, Ends(i, s) PROVE LockInv'
  <2>1. PICK sess \in TSessions :
            Fail(i, s, sess) \/ Conclude(i, s, sess, "success", AccessAccept)
    BY <1>5 DEF Ends
  <2>2. Carries(radiusReq[i], s) /\ aaa[s].status = "listed"
    BY <1>5 DEF Ends, Matches, Carries
  <2>3. \A t \in Sids : t # s => aaa'[t] = aaa[t]
    BY <1>0, <2>1 DEF Fail, Conclude
  <2>4. CASE Fail(i, s, sess)
    <3>1. ~IsChallenge(AccessReject) /\ ~IsAccept(AccessReject)
      BY DEF AccessReject, IsChallenge, IsAccept
    <3>. QED  BY <1>0, <2>2, <2>3, <2>4, <3>1, LockAnswer DEF Fail, Conclude
  <2>5. CASE Conclude(i, s, sess, "success", AccessAccept)
    <3>1. ~IsChallenge(AccessAccept)
      BY DEF AccessAccept, IsChallenge
    <3>2. aaa'[s].status = "success" /\ Answer(i, AccessAccept) /\ aaaNext' = aaaNext
      BY <1>0, <2>5 DEF Conclude, TSessions
    <3>3. radiusReq[i].state # NoState /\ radiusReq[i].state.sid = s
      BY <2>2 DEF Carries
    <3>. QED  BY <1>0, <2>2, <2>3, <3>1, <3>2, <3>3, LockAnswer
  <2>. QED  BY <2>1, <2>4, <2>5
<1>. QED  BY <1>1, <1>2, <1>3, <1>4, <1>5 DEF AaaActs

(* LockInv is inductive relative to the types. *)
LEMMA LockInductive ==
    /\ Init => LockInv
    /\ TypeInv /\ LockInv /\ [Next]_vars => LockInv'
<1>1. ASSUME Init PROVE LockInv
  <2>1. /\ relayReq = << >> /\ radiusReq = << >> /\ relayRsp = NoRsp /\ radiusRsp = NoRsp /\ relayCur = "idle"
        /\ \A p \in Psis : smf[p].state = NoState
    BY <1>1 DEF Init, RelayLinkInit, RadiusInit, RelayInit, SmfInit
  <2>2. SocketInv
    BY <2>1 DEF SocketInv, RelayOpenInv, RadiusOpenInv
  <2>3. CreatedInv
    BY <2>1 DEF CreatedInv, Carried, Holds, IsChallenge
  <2>4. HoldInv
    BY <2>1 DEF HoldInv, Holds
  <2>5. AnswerInv
    BY <2>1 DEF AnswerInv, AnswerOf, IsChallenge, IsAccept
  <2>. QED  BY <2>2, <2>3, <2>4, <2>5 DEF LockInv
<1>2. ASSUME TypeInv, LockInv, [Next]_vars PROVE LockInv'
  <2>1. ASSUME UNCHANGED <<smfVars, relayVars, relayLinkVars, radiusVars, aaaVars>> PROVE LockInv'
    BY <1>2, <2>1, LockFrame DEF smfVars, SameHeld
  <2>2. CASE UeStep \/ UNCHANGED vars
    BY <2>1, <2>2 DEF UeStep, vars
  <2>3. CASE SmfStep \/ RanStep \/ RelayStep \/ AaaStep
    BY <1>2, <2>3, LockSmf, LockRelay, LockAaa
  <2>4. CASE SmfGivesUp \/ RelayGivesUp
    BY <1>2, <2>4, LockSmfGivesUp, LockRelay
  <2>5. CASE LoseCommand /\ UNCHANGED <<ueVars, smfVars, relayVars, aaaVars, relayLinkVars, radiusVars>>
    BY <2>1, <2>5
  <2>6. CASE LoseRelayRequest /\ UNCHANGED <<ueVars, smfVars, relayVars, aaaVars, n1Vars, radiusVars>>
    BY <1>2, <2>6, LockLose DEF LoseRelayRequest, radiusVars
  <2>7. CASE LoseAccessRequest /\ UNCHANGED <<ueVars, smfVars, relayVars, aaaVars, n1Vars, relayLinkVars>>
    BY <1>2, <2>7, LockLose DEF LoseAccessRequest, relayLinkVars
  <2>8. ASSUME NEW s \in Sids, Expire(s), UNCHANGED <<ueVars, smfVars, relayVars, n1Vars, relayLinkVars>>
        PROVE  LockInv'
    BY <1>2, <2>8, LockExpire
  <2>. QED  BY <1>2, <2>2, <2>3, <2>4, <2>5, <2>6, <2>7, <2>8 DEF Next, TimeoutStep, FaultStep
<1>. QED  BY <1>1, <1>2

(* The EAP-Success the SMF is about to take belongs to the DN-AAA session whose
   State it holds: with one relay for all exchanges, and requests that outlive
   the sockets they were sent from, no answer is ever read for another exchange. *)
THEOREM VerdictIsOwnAlways == Spec => []VerdictIsOwn
<1>1. Init => TypeInv /\ LockInv
  BY TypesInductive, LockInductive
<1>2. TypeInv /\ LockInv /\ [Next]_vars => TypeInv' /\ LockInv'
  BY TypesInductive, LockInductive
<1>3. TypeInv /\ LockInv => VerdictIsOwn
  BY DEF LockInv, AnswerInv, AnswerOf, IsAccept, VerdictIsOwn
<1>. QED  BY <1>1, <1>2, <1>3, PTL DEF Spec

-----------------------------------------------------------------------------
(* The State and the identifier that go with a turn of the UE. *)
Idle(p) == smf[p].inProgress /\ smfWait # p

CurrentOf(p) ==
    Idle(p) =>
        LET st == smf[p].state IN
        /\ st # NoState
        /\ Current(st.sid, st.trip)
        /\ \A i \in Commands(p) : nasDl[i].eap.id = aaa[st.sid].id
        /\ \A i \in Answers(p) : nasUl[i].kind = "complete" => nasUl[i].eap.id = aaa[st.sid].id

(* Commands and answers are those there were, or answer one with its identifier. *)
SameIds(p) ==
    /\ \A i \in Commands(p)' : \E j \in Commands(p) : nasDl'[i].eap.id = nasDl[j].eap.id
    /\ \A i \in Answers(p)' :
           nasUl'[i].kind = "complete" =>
               \/ \E j \in Answers(p) : nasUl[j].kind = "complete" /\ nasUl'[i].eap.id = nasUl[j].eap.id
               \/ \E j \in Commands(p) : nasUl'[i].eap.id = nasDl[j].eap.id

(* The DN-AAA leaves the session where it was, or lets it expire. *)
SessionKept(s) ==
    /\ aaa'[s].trip = aaa[s].trip /\ aaa'[s].id = aaa[s].id
    /\ aaa[s].status \in {"listed", "expired"} => aaa'[s].status \in {"listed", "expired"}

LEMMA CurrentKept ==
    ASSUME NEW p \in Psis, CurrentOf(p), SameIds(p), smf[p].state' = smf[p].state, Idle(p)' => Idle(p),
           \A s : Idle(p) /\ Holds(p, s) => SessionKept(s)
    PROVE  CurrentOf(p)'
<1>. SUFFICES ASSUME Idle(p)'
              PROVE  LET st == smf[p].state IN
                     /\ st # NoState
                     /\ aaa'[st.sid].trip = st.trip /\ aaa'[st.sid].status \in {"listed", "expired"}
                     /\ \A i \in Commands(p)' : nasDl'[i].eap.id = aaa'[st.sid].id
                     /\ \A i \in Answers(p)' :
                            nasUl'[i].kind = "complete" => nasUl'[i].eap.id = aaa'[st.sid].id
  BY DEF CurrentOf, Current
<1>. DEFINE st == smf[p].state
<1>1. /\ Idle(p) /\ st # NoState
      /\ aaa[st.sid].trip = st.trip /\ aaa[st.sid].status \in {"listed", "expired"}
      /\ \A i \in Commands(p) : nasDl[i].eap.id = aaa[st.sid].id
      /\ \A i \in Answers(p) : nasUl[i].kind = "complete" => nasUl[i].eap.id = aaa[st.sid].id
  BY DEF CurrentOf, Current
<1>2. SessionKept(st.sid)
  BY <1>1 DEF Holds
<1>. QED  BY <1>1, <1>2 DEF SessionKept, SameIds

LEMMA SameN1 ==
    ASSUME NEW p \in Psis, UNCHANGED n1Vars
    PROVE  SameIds(p)
BY DEF SameIds, n1Vars, Commands, Answers

(* The UE answers the command at the head with its identifier. *)
LEMMA UeSameIds ==
    ASSUME TypeInv, UeStep, NEW p \in Psis
    PROVE  SameIds(p)
<1>0. N1Typed
  BY DEF TypeInv
<1>1. CASE receivePduSessionAuthenticationCommand
  <2>1. Waiting(nasDl, "command") /\ UeReplies
    BY <1>1, UeTypes DEF TypeInv
  <2>. DEFINE h == Head(nasDl)
  <2>2. h \in DlMsgs /\ nasDl # << >> /\ h.kind = "command" /\ h = nasDl[1]
    BY <1>0, <2>1, TailFacts DEF Waiting, N1Typed
  <2>3. h.psi \in Psis /\ h.eap \in TPackets
    BY <2>2 DEF DlMsgs
  <2>4. nasDl' = Tail(nasDl)
    BY <2>1 DEF UeReplies, sendSmCause, ueReply
  <2>5. PICK m \in UlMsgs : nasUl' = Append(nasUl, m) /\ m.psi = h.psi /\ (m.kind = "complete" => m.eap.id = h.eap.id)
    <3>1. Status(h.psi) \in UlMsgs /\ Status(h.psi).psi = h.psi /\ Status(h.psi).kind # "complete"
      BY <2>3 DEF Status, UlMsgs
    <3>2. ASSUME NEW w \in TWires
          PROVE  LET c == Complete(h.psi, EdhocPacket(h.eap.id, w))
                 IN  c \in UlMsgs /\ c.psi = h.psi /\ c.eap.id = h.eap.id
      BY <2>3 DEF Complete, EdhocPacket, UlMsgs, TPackets
    <3>. QED  BY <2>1, <3>1, <3>2 DEF UeReplies, sendSmCause, ueReply
  <2>6. /\ \A i \in Commands(p)' : i + 1 \in Commands(p) /\ nasDl'[i] = nasDl[i + 1]
        /\ h.psi = p => 1 \in Commands(p)
    BY <1>0, <2>2, <2>4, PopDl
  <2>7. /\ Answers(p)' = IF m.psi = p THEN Answers(p) \cup {Len(nasUl) + 1} ELSE Answers(p)
        /\ \A i \in Answers(p) : nasUl'[i] = nasUl[i]
        /\ nasUl'[Len(nasUl) + 1] = m
    <3>1. nasUl' = Append(nasUl, m)
      BY <2>5
    <3>. QED  BY <1>0, <3>1, PushUl
  <2>8. ASSUME NEW i \in Commands(p)'
        PROVE  \E j \in Commands(p) : nasDl'[i].eap.id = nasDl[j].eap.id
    BY <2>6
  <2>9. ASSUME NEW i \in Answers(p)', nasUl'[i].kind = "complete"
        PROVE  \/ \E j \in Answers(p) : nasUl[j].kind = "complete" /\ nasUl'[i].eap.id = nasUl[j].eap.id
               \/ \E j \in Commands(p) : nasUl'[i].eap.id = nasDl[j].eap.id
    <3>1. CASE i \in Answers(p)
      BY <2>7, <2>9, <3>1
    <3>2. CASE i \notin Answers(p)
      <4>1. nasUl'[i] = m /\ m.psi = p
        BY <2>7, <2>9, <3>2
      <4>. QED  BY <2>2, <2>5, <2>6, <2>9, <4>1
    <3>. QED  BY <3>1, <3>2
  <2>. QED  BY <2>8, <2>9 DEF SameIds
<1>2. CASE receivePduSessionAuthenticationResult
  <2>1. nasDl # << >> /\ nasDl' = Tail(nasDl) /\ nasUl' = nasUl
    BY <1>2 DEF receivePduSessionAuthenticationResult, Waiting
  <2>2. \A i \in Commands(p)' : i + 1 \in Commands(p) /\ nasDl'[i] = nasDl[i + 1]
    BY <1>0, <2>1, PopDl
  <2>3. Answers(p)' = Answers(p)
    BY <2>1 DEF Answers
  <2>. QED  BY <2>1, <2>2, <2>3 DEF SameIds
<1>. QED  BY <1>1, <1>2 DEF UeStep, UeNext

LEMMA LoseSameIds ==
    ASSUME TypeInv, LoseCommand, NEW p \in Psis
    PROVE  SameIds(p)
<1>1. nasDl # << >> /\ nasDl' = Tail(nasDl) /\ nasUl' = nasUl
  BY DEF LoseCommand, Waiting
<1>2. \A i \in Commands(p)' : i + 1 \in Commands(p) /\ nasDl'[i] = nasDl[i + 1]
  BY <1>1, PopDl DEF TypeInv
<1>3. Answers(p)' = Answers(p)
  BY <1>1 DEF Answers
<1>. QED  BY <1>1, <1>2, <1>3 DEF SameIds

(* Everything the SMF does for another session. *)
LEMMA FinishSameIds ==
    ASSUME TypeInv, NEW p \in Psis, NEW q \in Psis, NEW v \in {"accept", "reject", "error"}, SmfFinish(q, v)
    PROVE  SameIds(p)
<1>1. Result(q, v) \in DlMsgs /\ Result(q, v).kind = "result"
  BY DEF Result, DlMsgs
<1>2. Commands(p)' = Commands(p) /\ \A i \in Commands(p) : nasDl'[i] = nasDl[i]
  BY <1>1, PushDl DEF SmfFinish, TypeInv
<1>3. Answers(p)' = Answers(p) /\ nasUl' = nasUl
  BY DEF SmfFinish, Answers
<1>. QED  BY <1>2, <1>3 DEF SameIds

LEMMA CurrentFinish ==
    ASSUME TypeInv, NEW p \in Psis, CurrentOf(p), NEW q \in Psis, smfWait = q,
           NEW v \in {"accept", "reject", "error"}, SmfFinish(q, v), UNCHANGED aaaVars
    PROVE  CurrentOf(p)'
<1>1. smf \in [Psis -> SmfType] /\ aaa' = aaa
  BY DEF TypeInv, SmfTyped, aaaVars
<1>2. CASE p = q
  BY <1>1, <1>2 DEF SmfFinish, SmfType, CurrentOf, Idle
<1>3. CASE p # q
  <2>1. smf[p]' = smf[p] /\ smfWait # p
    BY <1>1, <1>3 DEF SmfFinish
  <2>. QED  BY <1>1, <2>1, CurrentKept, FinishSameIds DEF Idle, SessionKept
<1>. QED  BY <1>2, <1>3

LEMMA CurrentSmf ==
    ASSUME TypeInv, TurnInv, LockInv, SmfStep \/ RanStep, NEW p \in Psis, CurrentOf(p)
    PROVE  CurrentOf(p)'
<1>1. PICK q \in Psis :
          \/ SmfSetupResponse(q)
          \/ smf_timer_sec_auth_start(q)
          \/ smf_start_secondary_auth(q) \/ SmfStartIgnored(q)
          \/ smf_handle_secondary_auth_complete(q) \/ SmfUnknownMessage(q)
          \/ SmfChallenge(q) \/ SmfVerdict(q)
  BY DEF SmfStep, RanStep, SmfNext
<1>0. N1Typed /\ smf \in [Psis -> SmfType] /\ smf[p] \in SmfType /\ NoPsi \notin Psis /\ aaa' = aaa
      /\ UNCHANGED aaaVars
  BY SmfAssumption DEF TypeInv, SmfTyped, SmfStep, RanStep, aaaVars
<1>. DEFINE Same == smf[p].state' = smf[p].state /\ (smf[p].inProgress' => smf[p].inProgress)
<1>2. ASSUME Same, SameIds(p), smfWait = NoPsi PROVE CurrentOf(p)'
  BY <1>0, <1>2, CurrentKept DEF Idle, SessionKept
<1>3. CASE SmfSetupResponse(q)
  <2>. DEFINE b == smf[q].timer \/ ~smf[q].inProgress
  <2>1. smf' = [smf EXCEPT ![q].timer = b] /\ smfWait = NoPsi
    BY <1>3 DEF SmfSetupResponse
  <2>. HIDE DEF b
  <2>2. Same
    BY <1>0, <2>1 DEF SmfType
  <2>. QED  BY <1>2, <1>3, <2>1, <2>2, SameN1 DEF SmfSetupResponse
<1>4. CASE smf_timer_sec_auth_start(q) \/ SmfStartIgnored(q)
  <2>1. Same
    BY <1>0, <1>4 DEF smf_timer_sec_auth_start, SmfStartIgnored, SmfType
  <2>. QED  BY <1>2, <1>4, <2>1, SameN1 DEF smf_timer_sec_auth_start, SmfStartIgnored
<1>5. CASE smf_start_secondary_auth(q)
  <2>1. smfWait' = q /\ smfWait = NoPsi
    BY <1>5 DEF smf_start_secondary_auth, Exchange
  <2>2. CASE p = q
    BY <2>1, <2>2 DEF CurrentOf, Idle
  <2>3. CASE p # q
    <3>1. Same
      BY <1>0, <1>5, <2>3 DEF smf_start_secondary_auth
    <3>. QED  BY <1>2, <1>5, <2>1, <3>1, SameN1 DEF smf_start_secondary_auth
  <2>. QED  BY <2>2, <2>3
<1>6. CASE smf_handle_secondary_auth_complete(q) \/ SmfUnknownMessage(q)
  <2>1. nasUl # << >> /\ nasUl' = Tail(nasUl) /\ nasDl' = nasDl /\ smf' = smf /\ smfWait = NoPsi
    BY <1>6 DEF smf_handle_secondary_auth_complete, SmfUnknownMessage, Waiting, smfVars
  <2>2. \A i \in Answers(p)' : i + 1 \in Answers(p) /\ nasUl'[i] = nasUl[i + 1]
    BY <1>0, <2>1, PopUl
  <2>3. Commands(p)' = Commands(p)
    BY <2>1 DEF Commands
  <2>4. SameIds(p)
    BY <2>1, <2>2, <2>3 DEF SameIds
  <2>. QED  BY <1>2, <2>1, <2>4
<1>7. CASE SmfChallenge(q)
  <2>1. smfWait = q /\ smfWait' = NoPsi /\ nasUl' = nasUl /\ nasDl' = Append(nasDl, Command(q, relayRsp.eap))
        /\ IsChallenge(relayRsp)
    BY <1>7 DEF SmfChallenge, IsChallenge
  <2>2. Command(q, relayRsp.eap) \in DlMsgs /\ Command(q, relayRsp.eap).psi = q
        /\ Command(q, relayRsp.eap).eap = relayRsp.eap /\ relayRsp.state \in TStates
    BY <1>7 DEF SmfChallenge, TypeInv, RelayTyped, TResponses, Command, DlMsgs
  <2>3. /\ Commands(p)' \subseteq (IF q = p THEN Commands(p) \cup {Len(nasDl) + 1} ELSE Commands(p))
        /\ \A i \in Commands(p) : nasDl'[i] = nasDl[i]
        /\ nasDl'[Len(nasDl) + 1].eap = relayRsp.eap
    BY <1>0, <2>1, <2>2, PushDl
  <2>4. Answers(p)' = Answers(p)
    BY <2>1 DEF Answers
  <2>5. CASE p = q
    <3>1. Commands(p) = {} /\ Answers(p) = {}
      BY <2>1, <2>5 DEF TurnInv, TurnOf
    <3>2. smf[p].state' = relayRsp.state /\ relayRsp.state # NoState
      <4>1. TStates \subseteq [sid: Nat, trip: Nat]
        BY AaaAssumption DEF TStates, Sids
      <4>. QED  BY <1>0, <1>7, <2>2, <2>5, <4>1, StateAssumption DEF SmfChallenge, SmfType
    <3>3. Current(relayRsp.state.sid, relayRsp.state.trip) /\ relayRsp.eap.id = aaa[relayRsp.state.sid].id
      BY <2>1 DEF LockInv, AnswerInv, AnswerOf
    <3>. QED  BY <1>0, <2>3, <2>4, <2>5, <3>1, <3>2, <3>3 DEF CurrentOf, Current
  <2>6. CASE p # q
    <3>1. Same /\ smfWait # p
      BY <1>0, <1>7, <2>1, <2>6 DEF SmfChallenge
    <3>2. SameIds(p)
      BY <2>1, <2>3, <2>4, <2>6 DEF SameIds
    <3>. QED  BY <1>0, <3>1, <3>2, CurrentKept DEF Idle, SessionKept
  <2>. QED  BY <2>5, <2>6
<1>8. CASE SmfVerdict(q)
  BY <1>0, <1>8, CurrentFinish DEF SmfVerdict
<1>. QED  BY <1>1, <1>3, <1>4, <1>5, <1>6, <1>7, <1>8

(* The DN-AAA does nothing to a session whose PDU session is not waiting. *)
LEMMA CurrentAaa ==
    ASSUME TypeInv, LockInv, AaaStep, NEW p \in Psis, CurrentOf(p)
    PROVE  CurrentOf(p)'
<1>1. PICK i \in DOMAIN radiusReq : AaaActs(i)
  BY AaaShape DEF AaaStep, TypeInv
<1>2. smf' = smf /\ smfWait' = smfWait /\ SameIds(p) /\ aaa \in [Sids -> TSessions] /\ smf[p] \in SmfType
  BY SameN1 DEF AaaStep, smfVars, TypeInv, AaaTyped, SmfTyped
<1>3. ASSUME NEW s, Idle(p), Holds(p, s) PROVE aaa'[s] = aaa[s]
  <2>1. s \in Sids /\ s < aaaNext
    <3>1. s \in Sids
      BY <1>2, <1>3 DEF Holds, SmfType, TStates
    <3>. QED  BY <1>3, <3>1 DEF LockInv, CreatedInv
  <2>2. ~Carries(radiusReq[i], s)
    BY <1>3, <2>1 DEF LockInv, HoldInv, Idle
  <2>3. CASE mod_session_init(i)
    <3>1. s # aaaNext
      BY <2>1, AaaAssumption DEF Sids
    <3>. QED  BY <1>2, <2>1, <2>3, <3>1 DEF mod_session_init
  <2>4. CASE RejectUnknown(i)
    BY <2>4 DEF RejectUnknown, aaaVars
  <2>5. ASSUME NEW t \in Sids, Continues(i, t) \/ Ends(i, t) PROVE aaa'[s] = aaa[s]
    <3>1. Carries(radiusReq[i], t)
      BY <2>5 DEF Continues, Ends, Matches, Carries
    <3>2. s # t
      BY <2>2, <3>1
    <3>. QED  BY <1>2, <2>1, <2>5, <3>2 DEF Continues, Ends, Challenge, Fail, Conclude
  <2>. QED  BY <1>1, <2>3, <2>4, <2>5 DEF AaaActs
<1>. QED  BY <1>2, <1>3, CurrentKept DEF Idle, SessionKept

LEMMA CurrentStep ==
    ASSUME TypeInv, TurnInv, LockInv, [Next]_vars, NEW p \in Psis, CurrentOf(p)
    PROVE  CurrentOf(p)'
<1>1. ASSUME UNCHANGED <<smfVars, aaaVars>>, SameIds(p) PROVE CurrentOf(p)'
  BY <1>1, CurrentKept DEF smfVars, aaaVars, Idle, SessionKept
<1>2. CASE UeStep
  BY <1>1, <1>2, UeSameIds DEF UeStep
<1>3. CASE SmfStep \/ RanStep \/ AaaStep
  BY <1>3, CurrentSmf, CurrentAaa
<1>4. CASE RelayStep \/ RelayGivesUp \/ UNCHANGED vars
  BY <1>1, <1>4, SameN1 DEF RelayStep, RelayGivesUp, vars
<1>5. CASE SmfGivesUp
  BY <1>5, CurrentFinish DEF SmfGivesUp, SmfTimeout
<1>6. CASE LoseCommand /\ UNCHANGED <<ueVars, smfVars, relayVars, aaaVars, relayLinkVars, radiusVars>>
  BY <1>1, <1>6, LoseSameIds
<1>7. CASE \/ LoseRelayRequest /\ UNCHANGED <<ueVars, smfVars, relayVars, aaaVars, n1Vars, radiusVars>>
           \/ LoseAccessRequest /\ UNCHANGED <<ueVars, smfVars, relayVars, aaaVars, n1Vars, relayLinkVars>>
  BY <1>1, <1>7, SameN1
<1>8. ASSUME NEW s \in Sids, Expire(s), UNCHANGED <<ueVars, smfVars, relayVars, n1Vars, relayLinkVars>>
      PROVE  CurrentOf(p)'
  <2>1. \A t \in Sids : SessionKept(t)
    BY <1>8 DEF Expire, TypeInv, AaaTyped, TSessions, SessionKept
  <2>2. \A t : Holds(p, t) => t \in Sids
    BY DEF TypeInv, SmfTyped, SmfType, TStates, Holds
  <2>. QED  BY <1>8, <2>1, <2>2, SameN1, CurrentKept DEF smfVars, Idle
<1>. QED  BY <1>2, <1>3, <1>4, <1>5, <1>6, <1>7, <1>8 DEF Next, TimeoutStep, FaultStep

CurrentInv == \A p \in Psis : CurrentOf(p)

LEMMA CurrentInductive ==
    /\ Init => CurrentInv
    /\ TypeInv /\ TurnInv /\ LockInv /\ CurrentInv /\ [Next]_vars => CurrentInv'
<1>1. ASSUME Init PROVE CurrentInv
  BY <1>1 DEF Init, SmfInit, CurrentInv, CurrentOf, Idle
<1>2. ASSUME TypeInv, TurnInv, LockInv, CurrentInv, [Next]_vars PROVE CurrentInv'
  BY <1>2, CurrentStep DEF CurrentInv
<1>. QED  BY <1>1, <1>2

(* While the UE has the turn, the SMF holds the State of the DN-AAA's last
   challenge and the packet under way carries its identifier: timeouts, losses
   and late requests never leave the two a round trip apart. *)
THEOREM StateIsCurrentAlways == Spec => []StateIsCurrent
<1>1. Init => TypeInv /\ TurnInv /\ LockInv
  BY TypesInductive, TurnsInductive, LockInductive
<1>2. Init => CurrentInv
  BY CurrentInductive
<1>3. TypeInv /\ TurnInv /\ LockInv /\ [Next]_vars => TypeInv' /\ TurnInv' /\ LockInv'
  BY TypesInductive, TurnsInductive, LockInductive
<1>4. TypeInv /\ TurnInv /\ LockInv /\ CurrentInv /\ [Next]_vars => CurrentInv'
  BY CurrentInductive
<1>5. CurrentInv => StateIsCurrent
  BY DEF CurrentInv, CurrentOf, Idle, Current, StateIsCurrent
<1>. QED  BY <1>1, <1>2, <1>3, <1>4, <1>5, PTL DEF Spec

-----------------------------------------------------------------------------
(* Who pays for a DN-AAA session that nobody will continue.  An exchange is alive
   while its request or its answer is still under way to the SMF. *)
Alive ==
    \/ ~NoneOpen(relayReq)
    \/ relayCur = "open" /\ (radiusRsp # NoRsp \/ ~NoneOpen(radiusReq))
    \/ relayRsp # NoRsp /\ relayRsp.result # "error"

(* The challenge under way to the SMF names session s. *)
Names(rsp, s) == IsChallenge(rsp) /\ rsp.state.sid = s

Named(s) == Names(relayRsp, s) \/ (relayCur = "open" /\ Names(radiusRsp, s))

(* Session p will go on with the State it holds. *)
Keeps(p, s) == Holds(p, s) /\ (p # smfWait \/ Alive)

(* The sessions nobody will continue, and the identities that will each make
   one more, since the requester they came from has given up. *)
Owed == {s \in Sids : aaa[s].status = "listed" /\ ~Named(s) /\ \A p \in Psis : ~Keeps(p, s)}

IsIdentity(req) == req.eap.kind = "identity"

StaleRelay == {i \in DOMAIN relayReq : IsIdentity(relayReq[i]) /\ ~relayReq[i].open}

StaleRadius ==
    {i \in DOMAIN radiusReq : IsIdentity(radiusReq[i]) /\ ~(radiusReq[i].open /\ relayCur = "open")}

(* What the next fault would add to them: the session or the identity of the
   exchange under way. *)
Exposed ==
    {s \in Sids : aaa[s].status = "listed" /\ (Named(s) \/ (Alive /\ Holds(smfWait, s)))}

OpenRelay == {i \in DOMAIN relayReq : IsIdentity(relayReq[i]) /\ relayReq[i].open}

OpenRadius ==
    {i \in DOMAIN radiusReq : IsIdentity(radiusReq[i]) /\ radiusReq[i].open /\ relayCur = "open"}

DebtInv == Cardinality(Owed) + Cardinality(StaleRelay) + Cardinality(StaleRadius) <= faults

(* A request that is still waited for asks for the next packet of the session
   it names; an answer that is still waited for continues the session the SMF
   holds or finds it ended. *)
Asks(req) ==
    req.eap.kind = "edhoc" =>
        /\ req.state # NoState
        /\ aaa[req.state.sid].trip = req.state.trip
        /\ aaa[req.state.sid].id = req.eap.id

Settles(rsp) ==
    rsp # NoRsp /\ rsp.result # "error" =>
        \A s \in Sids : Holds(smfWait, s) => Names(rsp, s) \/ aaa[s].status # "listed"

AsksInv ==
    /\ \A i \in DOMAIN relayReq : relayReq[i].open => Asks(relayReq[i])
    /\ relayCur = "open" => \A i \in DOMAIN radiusReq : radiusReq[i].open => Asks(radiusReq[i])

SettlesInv ==
    /\ Settles(relayRsp)
    /\ relayCur = "open" => Settles(radiusRsp)
    /\ radiusRsp # NoRsp => radiusRsp.result # "error"

(* Only an authentication in progress holds a State, and the sessions still to
   be created are not in the table. *)
RestInv ==
    /\ \A p \in Psis : smf[p].inProgress \/ smf[p].state = NoState
    /\ \A s \in Sids : s >= aaaNext => aaa[s].status # "listed"

PaidInv == AsksInv /\ SettlesInv /\ RestInv

-----------------------------------------------------------------------------
(* PaidInv, action by action. *)
LEMMA PaidFrame ==
    ASSUME TypeInv, LockInv, PaidInv, smfWait' = smfWait,
           \A p \in Psis : smf[p].state' = smf[p].state /\ smf[p].inProgress' = smf[p].inProgress,
           UNCHANGED <<relayVars, relayLinkVars, radiusVars, aaaVars>>
    PROVE  PaidInv'
<1>1. /\ relayCur' = relayCur /\ relayReq' = relayReq /\ relayRsp' = relayRsp /\ radiusReq' = radiusReq
      /\ radiusRsp' = radiusRsp /\ aaa' = aaa /\ aaaNext' = aaaNext
  BY DEF relayVars, relayLinkVars, radiusVars, aaaVars
<1>2. AsksInv'
  BY <1>1 DEF PaidInv, AsksInv, Asks
<1>3. RestInv'
  BY <1>1 DEF PaidInv, RestInv
<1>4. SettlesInv'
  <2>0. smfWait \in Psis \cup {NoPsi}
    BY DEF TypeInv, SmfTyped
  <2>1. smfWait # NoPsi => \A s : Holds(smfWait, s)' <=> Holds(smfWait, s)
    BY <2>0 DEF Holds
  <2>2. (relayRsp # NoRsp => smfWait # NoPsi) /\ (relayCur = "open" => smfWait # NoPsi)
    BY DEF LockInv, SocketInv
  <2>3. \A rsp : Settles(rsp) /\ (rsp # NoRsp => smfWait # NoPsi) => Settles(rsp)'
    BY <1>1, <2>1 DEF Settles, Names, IsChallenge
  <2>. QED  BY <1>1, <2>2, <2>3 DEF PaidInv, SettlesInv
<1>. QED  BY <1>2, <1>3, <1>4 DEF PaidInv

LEMMA PaidExchange ==
    ASSUME TypeInv, LockInv, PaidInv, NEW p \in Psis, NEW st, NEW e, RelayRequest(st, e) \in TRequests,
           smfWait = NoPsi, Exchange(p, st, e), Asks(RelayRequest(st, e)), RestInv',
           UNCHANGED <<relayVars, radiusVars, aaaVars>>
    PROVE  PaidInv'
<1>. DEFINE m == RelayRequest(st, e)
<1>1. /\ relayCur' = relayCur /\ relayRsp' = relayRsp /\ radiusReq' = radiusReq
      /\ radiusRsp' = radiusRsp /\ aaa' = aaa /\ relayReq' = Append(relayReq, m)
  BY DEF relayVars, radiusVars, aaaVars, Exchange
<1>2. relayReq \in Seq(TRequests) /\ m \in TRequests
  BY DEF TypeInv, RelayTyped
<1>. HIDE DEF m
<1>3. \A j \in DOMAIN relayReq' : (j \in DOMAIN relayReq /\ relayReq'[j] = relayReq[j]) \/ relayReq'[j] = m
  BY <1>1, <1>2, AppendDomain
<1>4. relayCur # "open" /\ relayRsp = NoRsp /\ NoneOpen(relayReq)
  BY DEF LockInv, SocketInv, RelayOpenInv, NoneOpen
<1>5. AsksInv'
  <2>1. Asks(m)'
    BY <1>1 DEF m, Asks
  <2>2. \A j \in DOMAIN relayReq' : relayReq'[j].open => relayReq'[j] = m
    BY <1>3, <1>4 DEF NoneOpen
  <2>. QED  BY <1>1, <1>4, <2>1, <2>2 DEF AsksInv, Asks
<1>6. SettlesInv'
  BY <1>1, <1>4 DEF PaidInv, SettlesInv, Settles
<1>. QED  BY <1>5, <1>6 DEF PaidInv

(* The wait is over. *)
LEMMA PaidDone ==
    ASSUME TypeInv, LockInv, PaidInv, relayRsp' = NoRsp,
           relayCur' # "open", NoneOpen(relayReq)', RestInv', radiusRsp' = radiusRsp
    PROVE  PaidInv'
<1>1. AsksInv'
  BY DEF AsksInv, NoneOpen
<1>2. SettlesInv'
  BY DEF PaidInv, SettlesInv, Settles
<1>. QED  BY <1>1, <1>2 DEF PaidInv

LEMMA PaidSmf ==
    ASSUME TypeInv, TurnInv, LockInv, CurrentInv, PaidInv, SmfStep \/ RanStep
    PROVE  PaidInv'
<1>1. PICK q \in Psis :
          \/ SmfSetupResponse(q)
          \/ smf_timer_sec_auth_start(q)
          \/ smf_start_secondary_auth(q) \/ SmfStartIgnored(q)
          \/ smf_handle_secondary_auth_complete(q) \/ SmfUnknownMessage(q)
          \/ SmfChallenge(q) \/ SmfVerdict(q)
  BY DEF SmfStep, RanStep, SmfNext
<1>0. N1Typed /\ smf \in [Psis -> SmfType] /\ UNCHANGED <<relayVars, radiusVars, aaaVars>>
      /\ aaa' = aaa /\ aaaNext' = aaaNext /\ radiusRsp' = radiusRsp /\ relayCur' = relayCur
  BY DEF TypeInv, SmfTyped, SmfStep, RanStep, aaaVars, radiusVars, relayVars
<1>. DEFINE Same == \A p \in Psis : smf[p].state' = smf[p].state /\ smf[p].inProgress' = smf[p].inProgress
<1>2. CASE SmfSetupResponse(q) \/ smf_timer_sec_auth_start(q) \/ SmfStartIgnored(q) \/ SmfUnknownMessage(q)
  <2>1. SmfSetupResponse(q) => Same
    <3>. DEFINE b == smf[q].timer \/ ~smf[q].inProgress
    <3>1. SmfSetupResponse(q) => smf' = [smf EXCEPT ![q].timer = b]
      BY DEF SmfSetupResponse
    <3>. HIDE DEF b
    <3>. QED  BY <1>0, <3>1 DEF SmfType
  <2>2. smf_timer_sec_auth_start(q) => Same
    BY <1>0 DEF smf_timer_sec_auth_start, SmfType
  <2>3. SmfStartIgnored(q) \/ SmfUnknownMessage(q) => Same
    BY <1>0 DEF SmfStartIgnored, SmfUnknownMessage, SmfType, smfVars
  <2>. QED
    BY <1>0, <1>2, <2>1, <2>2, <2>3, PaidFrame
       DEF SmfSetupResponse, smf_timer_sec_auth_start, SmfStartIgnored, SmfUnknownMessage, smfVars
<1>3. CASE smf_start_secondary_auth(q)
  <2>1. smf'[q].inProgress /\ \A r \in Psis \ {q} : smf'[r] = smf[r]
    BY <1>0, <1>3 DEF smf_start_secondary_auth, SmfType
  <2>2. RestInv'
    BY <1>0, <2>1 DEF PaidInv, RestInv
  <2>3. RelayRequest(NoState, Identity(1)) \in TRequests /\ Asks(RelayRequest(NoState, Identity(1)))
    BY DEF RelayRequest, TRequests, Identity, Asks
  <2>. QED  BY <1>0, <1>3, <2>2, <2>3, PaidExchange DEF smf_start_secondary_auth
<1>4. CASE smf_handle_secondary_auth_complete(q)
  <2>. DEFINE e == Head(nasUl).eap
              st == smf[q].state
  <2>1. Head(nasUl) \in UlMsgs /\ Head(nasUl).kind = "complete" /\ Head(nasUl).psi = q /\ smf[q] \in SmfType
        /\ Head(nasUl) = nasUl[1] /\ nasUl # << >> /\ smfWait = NoPsi /\ nasUl' = Tail(nasUl)
    BY <1>0, <1>4, TailFacts DEF smf_handle_secondary_auth_complete, Waiting, N1Typed
  <2>2. 1 \in Answers(q)
    BY <1>0, <2>1, PopUl
  <2>3. Idle(q)
    BY <2>1, <2>2, SmfAssumption DEF Idle, TurnInv, TurnOf
  <2>4. st # NoState /\ aaa[st.sid].trip = st.trip /\ aaa[st.sid].id = e.id
    BY <2>1, <2>2, <2>3 DEF CurrentInv, CurrentOf, Current
  <2>5. RelayRequest(st, e) \in TRequests /\ Asks(RelayRequest(st, e))
    BY <2>1, <2>4 DEF RelayRequest, TRequests, UlMsgs, SmfType, Asks
  <2>6. RestInv'
    BY <1>0, <1>4 DEF smf_handle_secondary_auth_complete, PaidInv, RestInv
  <2>. QED  BY <1>0, <1>4, <2>1, <2>5, <2>6, PaidExchange DEF smf_handle_secondary_auth_complete
<1>5. CASE SmfChallenge(q) \/ SmfVerdict(q)
  <2>1. smfWait = q /\ smfWait' = NoPsi /\ relayRsp # NoRsp /\ relayRsp' = NoRsp /\ relayReq' = relayReq
    BY <1>5 DEF SmfChallenge, SmfVerdict, SmfFinish
  <2>2. relayCur # "open" /\ NoneOpen(relayReq)'
    BY <1>0, <2>1 DEF LockInv, SocketInv, RelayOpenInv, NoneOpen
  <2>3. \A r \in Psis \ {q} : smf'[r] = smf[r]
    BY <1>0, <1>5 DEF SmfChallenge, SmfVerdict, SmfFinish
  <2>4. smf'[q].inProgress \/ smf'[q].state = NoState
    <3>1. smf[q].inProgress
      BY <2>1 DEF TurnInv, TurnOf
    <3>. QED  BY <1>0, <1>5, <3>1 DEF SmfChallenge, SmfVerdict, SmfFinish, SmfType
  <2>5. RestInv'
    BY <1>0, <2>3, <2>4 DEF PaidInv, RestInv
  <2>. QED  BY <1>0, <2>1, <2>2, <2>5, PaidDone
<1>. QED  BY <1>1, <1>2, <1>3, <1>4, <1>5

LEMMA PaidSmfGivesUp ==
    ASSUME TypeInv, LockInv, PaidInv, SmfGivesUp
    PROVE  PaidInv'
<1>1. PICK q \in Psis : SmfTimeout(q)
  BY DEF SmfGivesUp
<1>2. smf \in [Psis -> SmfType] /\ relayReq \in Seq(TRequests)
  BY DEF TypeInv, SmfTyped, RelayTyped
<1>3. smfWait = q /\ smfWait' = NoPsi /\ relayRsp' = NoRsp /\ relayReq' = Closed(relayReq)
      /\ relayCur' # "open" /\ aaa' = aaa /\ aaaNext' = aaaNext /\ radiusRsp' = radiusRsp
  BY <1>1 DEF SmfGivesUp, SmfTimeout, SmfFinish, aaaVars, radiusVars
<1>4. smf'[q].state = NoState /\ \A r \in Psis \ {q} : smf'[r] = smf[r]
  BY <1>1, <1>2 DEF SmfTimeout, SmfFinish, SmfType
<1>5. NoneOpen(relayReq)'
  BY <1>2, <1>3, ClosedDomain DEF NoneOpen
<1>6. RestInv'
  BY <1>3, <1>4 DEF PaidInv, RestInv
<1>. QED  BY <1>3, <1>5, <1>6, PaidDone

LEMMA PaidRelay ==
    ASSUME TypeInv, LockInv, PaidInv, RelayStep \/ RelayGivesUp
    PROVE  PaidInv'
<1>0. UNCHANGED <<smfVars, aaaVars>> /\ radiusReq \in Seq(TRequests) /\ relayReq \in Seq(TRequests)
      /\ smf' = smf /\ smfWait' = smfWait /\ aaa' = aaa /\ aaaNext' = aaaNext
  BY DEF RelayStep, RelayGivesUp, TypeInv, RadiusTyped, RelayTyped, smfVars, aaaVars
<1>1. RestInv'
  BY <1>0 DEF PaidInv, RestInv
<1>2. \A rsp : Settles(rsp)' <=> Settles(rsp)
  BY <1>0 DEF Settles, Holds, Names, IsChallenge
<1>3. \A req : Asks(req)' <=> Asks(req)
  BY <1>0 DEF Asks
<1>4. CASE RelayRead
  <2>. DEFINE r == Head(relayReq)
              m == AccessRequest(r.state, r.eap)
  <2>1. /\ relayCur = "idle" /\ relayCur' = (IF r.open THEN "open" ELSE "closed")
        /\ relayRsp' = relayRsp /\ radiusRsp' = radiusRsp /\ relayReq # << >>
        /\ relayReq' = Tail(relayReq) /\ radiusReq' = Append(radiusReq, m)
    BY <1>4 DEF RelayRead
  <2>2. r \in TRequests /\ m \in TRequests /\ m.state = r.state /\ m.eap = r.eap
    <3>1. r \in TRequests
      BY <1>0, <2>1, TailFacts
    <3>. QED  BY <3>1 DEF AccessRequest, TRequests
  <2>3. r = relayReq[1] /\ 1 \in DOMAIN relayReq
        /\ \A j \in DOMAIN relayReq' : \E k \in DOMAIN relayReq : relayReq'[j] = relayReq[k]
    <3>1. Without(relayReq', relayReq, 1) /\ r = relayReq[1] /\ 1 \in DOMAIN relayReq
      BY <1>0, <2>1, TailWithout
    <3>. QED  BY <3>1 DEF Without
  <2>. HIDE DEF r, m
  <2>4. \A j \in DOMAIN radiusReq' : (j \in DOMAIN radiusReq /\ radiusReq'[j] = radiusReq[j]) \/ radiusReq'[j] = m
    BY <1>0, <2>1, <2>2, AppendDomain
  <2>5. radiusRsp = NoRsp /\ NoneOpen(radiusReq)
    BY <2>1 DEF LockInv, SocketInv, RadiusOpenInv, NoneOpen
  <2>6. r.open => Asks(m)
    BY <2>2, <2>3 DEF PaidInv, AsksInv, Asks
  <2>7. \A j \in DOMAIN radiusReq' : radiusReq'[j].open => radiusReq'[j] = m
    BY <2>4, <2>5 DEF NoneOpen
  <2>8. \A i \in DOMAIN relayReq' : relayReq'[i].open => Asks(relayReq'[i])
    BY <2>3 DEF PaidInv, AsksInv
  <2>9. relayCur' = "open" => \A i \in DOMAIN radiusReq' : radiusReq'[i].open => Asks(radiusReq'[i])
    BY <2>1, <2>6, <2>7
  <2>10. AsksInv'
    BY <1>0, <2>8, <2>9 DEF AsksInv, Asks
  <2>11. Settles(relayRsp) /\ Settles(radiusRsp)
    BY <2>5 DEF PaidInv, SettlesInv, Settles
  <2>12. SettlesInv'
    BY <1>0, <2>1, <2>5, <2>11 DEF SettlesInv, Settles, Holds, Names, IsChallenge
  <2>. QED  BY <1>1, <2>10, <2>12 DEF PaidInv
<1>5. ASSUME NEW x, x = radiusRsp \/ x = RelayError, RelayAnswer(x), relayCur # "idle", radiusRsp' = NoRsp
      PROVE  PaidInv'
  <2>1. relayCur' = "idle" /\ relayReq' = relayReq /\ relayRsp' = IF relayCur = "open" THEN x ELSE relayRsp
    BY <1>5 DEF RelayAnswer
  <2>2. relayCur = "open" => Settles(x)
    BY <1>5 DEF PaidInv, SettlesInv, Settles, RelayError
  <2>3. Settles(relayRsp)'
    BY <1>0, <2>1, <2>2 DEF PaidInv, SettlesInv, Settles, Holds, Names, IsChallenge
  <2>4. SettlesInv'
    BY <1>5, <2>1, <2>3 DEF SettlesInv
  <2>5. AsksInv'
    BY <1>0, <2>1 DEF PaidInv, AsksInv, Asks
  <2>. QED  BY <1>1, <2>4, <2>5 DEF PaidInv
<1>6. CASE RelayForward
  <2>1. radiusRsp # NoRsp /\ RelayAnswer(radiusRsp) /\ radiusRsp' = NoRsp
    BY <1>6 DEF RelayForward
  <2>2. relayCur # "idle"
    BY <2>1 DEF LockInv, SocketInv
  <2>. QED  BY <1>5, <2>1, <2>2
<1>7. CASE RelayTimeout
  BY <1>5, <1>7 DEF RelayTimeout
<1>. QED  BY <1>4, <1>6, <1>7 DEF RelayStep, RelayNext, RelayGivesUp

LEMMA PaidLose ==
    ASSUME TypeInv, LockInv, PaidInv, UNCHANGED <<smfVars, aaaVars, relayVars, relayRsp, radiusRsp>>,
           \/ radiusReq' = radiusReq /\ \E i \in DOMAIN relayReq : relayReq' = RemoveAt(relayReq, i)
           \/ relayReq' = relayReq /\ \E i \in DOMAIN radiusReq : radiusReq' = RemoveAt(radiusReq, i)
    PROVE  PaidInv'
<1>1. /\ relayCur' = relayCur /\ relayRsp' = relayRsp /\ radiusRsp' = radiusRsp /\ aaa' = aaa
      /\ aaaNext' = aaaNext /\ smf' = smf /\ smfWait' = smfWait
  BY DEF smfVars, aaaVars, relayVars
<1>0. relayReq \in Seq(TRequests) /\ radiusReq \in Seq(TRequests)
  BY DEF TypeInv, RelayTyped, RadiusTyped
<1>2. \A j \in DOMAIN relayReq' : \E k \in DOMAIN relayReq : relayReq'[j] = relayReq[k]
  BY <1>0, RemoveWithout DEF Without
<1>3. \A j \in DOMAIN radiusReq' : \E k \in DOMAIN radiusReq : radiusReq'[j] = radiusReq[k]
  BY <1>0, RemoveWithout DEF Without
<1>4. AsksInv'
  BY <1>1, <1>2, <1>3 DEF PaidInv, AsksInv, Asks
<1>5. SettlesInv' /\ RestInv'
  BY <1>1 DEF PaidInv, SettlesInv, Settles, Holds, Names, IsChallenge, RestInv
<1>. QED  BY <1>4, <1>5 DEF PaidInv

LEMMA PaidExpire ==
    ASSUME TypeInv, LockInv, PaidInv, NEW s \in Sids, Expire(s), UNCHANGED <<smfVars, relayVars, relayLinkVars>>
    PROVE  PaidInv'
<1>1. /\ relayCur' = relayCur /\ relayReq' = relayReq /\ relayRsp' = relayRsp /\ radiusReq' = radiusReq
      /\ radiusRsp' = radiusRsp /\ aaaNext' = aaaNext /\ smf' = smf /\ smfWait' = smfWait
  BY DEF smfVars, relayVars, relayLinkVars, radiusVars, Expire
<1>2. \A t \in Sids : /\ aaa'[t].trip = aaa[t].trip /\ aaa'[t].id = aaa[t].id
                      /\ aaa'[t].status = "listed" => aaa[t].status = "listed"
  BY DEF Expire, TypeInv, AaaTyped, TSessions
<1>3. ASSUME NEW r \in TRequests, Asks(r) PROVE Asks(r)'
  <2>1. r.eap.kind = "edhoc" /\ r.state # NoState => r.state.sid \in Sids
    BY DEF TRequests, TStates
  <2>. QED  BY <1>2, <1>3, <2>1 DEF Asks
<1>4. (\A i \in DOMAIN relayReq : relayReq[i] \in TRequests) /\ (\A i \in DOMAIN radiusReq : radiusReq[i] \in TRequests)
  BY DEF TypeInv, RelayTyped, RadiusTyped
<1>5. AsksInv'
  <2>1. \A i \in DOMAIN relayReq : relayReq[i].open => Asks(relayReq[i])'
    BY <1>1, <1>3, <1>4 DEF PaidInv, AsksInv, Asks
  <2>2. relayCur = "open" => \A i \in DOMAIN radiusReq : radiusReq[i].open => Asks(radiusReq[i])'
    BY <1>1, <1>3, <1>4 DEF PaidInv, AsksInv, Asks
  <2>. QED  BY <1>1, <2>1, <2>2 DEF AsksInv
<1>6. SettlesInv'
  BY <1>1, <1>2 DEF PaidInv, SettlesInv, Settles, Holds, Names, IsChallenge
<1>7. RestInv'
  BY <1>1, <1>2 DEF PaidInv, RestInv
<1>. QED  BY <1>5, <1>6, <1>7 DEF PaidInv

(* The session a request asks for that is still waited for: nothing else the
   DN-AAA serves can touch it. *)
LEMMA AskedIsHeld ==
    ASSUME TypeInv, LockInv, NEW s \in Sids, NEW i \in DOMAIN radiusReq, Carries(radiusReq[i], s)
    PROVE  /\ \A j \in DOMAIN relayReq : relayReq[j].open => ~Carries(relayReq[j], s)
           /\ relayCur = "open" =>
                  \A j \in DOMAIN radiusReq : radiusReq[j].open /\ Carries(radiusReq[j], s) => j = i
<1>0. smfWait \in Psis \cup {NoPsi}
  BY DEF TypeInv, SmfTyped
<1>1. ASSUME NEW j \in DOMAIN relayReq, relayReq[j].open, Carries(relayReq[j], s) PROVE FALSE
  <2>1. smfWait \in Psis /\ relayReq[j].state = smf[smfWait].state
    BY <1>0, <1>1 DEF LockInv, SocketInv, RelayOpenInv
  <2>2. Holds(smfWait, s)
    BY <1>1, <2>1 DEF Holds, Carries
  <2>3. NoneOpen(relayReq)
    BY <2>1, <2>2 DEF LockInv, HoldInv
  <2>. QED  BY <1>1, <2>3 DEF NoneOpen
<1>2. ASSUME relayCur = "open", NEW j \in DOMAIN radiusReq, radiusReq[j].open, Carries(radiusReq[j], s)
      PROVE  j = i
  <2>1. smfWait \in Psis /\ radiusReq[j].state = smf[smfWait].state
    BY <1>0, <1>2 DEF LockInv, SocketInv, RadiusOpenInv
  <2>2. Holds(smfWait, s)
    BY <1>2, <2>1 DEF Holds, Carries
  <2>3. radiusReq[i].open
    BY <1>2, <2>1, <2>2 DEF LockInv, HoldInv
  <2>. QED  BY <1>2, <2>3 DEF LockInv, SocketInv, RadiusOpenInv
<1>. QED  BY <1>1, <1>2

LEMMA PaidAnswer ==
    ASSUME TypeInv, LockInv, PaidInv, NEW i \in DOMAIN radiusReq, NEW rsp, Answer(i, rsp),
           UNCHANGED <<smfVars, relayVars, relayLinkVars>>, rsp.result # "error",
           \A t \in Sids : t < aaaNext /\ ~(Carries(radiusReq[i], t) /\ aaa[t].status = "listed")
                              => aaa'[t] = aaa[t],
           \A t \in Sids : t >= aaaNext' => aaa'[t].status # "listed",
           radiusReq[i].open /\ relayCur = "open" =>
               \A t \in Sids : Carries(radiusReq[i], t) => Names(rsp, t) \/ aaa'[t].status # "listed"
    PROVE  PaidInv'
<1>1. /\ relayCur' = relayCur /\ relayReq' = relayReq /\ relayRsp' = relayRsp /\ smf' = smf
      /\ smfWait' = smfWait /\ radiusReq' = RemoveAt(radiusReq, i)
      /\ radiusRsp' = (IF radiusReq[i].open THEN rsp ELSE radiusRsp)
  BY DEF smfVars, relayVars, relayLinkVars, Answer
<1>2. radiusReq \in Seq(TRequests) /\ relayReq \in Seq(TRequests) /\ smf \in [Psis -> SmfType]
      /\ smfWait \in Psis \cup {NoPsi}
  BY DEF TypeInv, RelayTyped, RadiusTyped, SmfTyped
<1>3. \A j \in DOMAIN radiusReq' : \E k \in DOMAIN radiusReq : k # i /\ radiusReq'[j] = radiusReq[k]
  <2>1. Without(radiusReq', radiusReq, i)
    BY <1>1, <1>2, RemoveWithout
  <2>. QED  BY <2>1 DEF Without
<1>4. RestInv'
  BY <1>1 DEF PaidInv, RestInv
<1>5. AsksInv'
  <2>1. ASSUME NEW r \in TRequests, Asks(r), r.eap.kind = "edhoc", Carried(r.state.sid),
               \A t \in Sids : Carries(r, t) => ~Carries(radiusReq[i], t)
        PROVE  Asks(r)'
    <3>1. r.state # NoState /\ r.state.sid \in Sids
      BY <2>1 DEF Asks, TRequests, TStates, Identity
    <3>2. Carries(r, r.state.sid) /\ r.state.sid < aaaNext
      BY <2>1, <3>1 DEF Carries, LockInv, CreatedInv
    <3>3. aaa'[r.state.sid] = aaa[r.state.sid]
      BY <2>1, <3>1, <3>2
    <3>. QED  BY <2>1, <3>3 DEF Asks
  <2>2. ASSUME NEW j \in DOMAIN relayReq, relayReq[j].open PROVE Asks(relayReq[j])'
    <3>1. Asks(relayReq[j]) /\ relayReq[j] \in TRequests
      BY <1>2, <2>2 DEF PaidInv, AsksInv
    <3>2. CASE relayReq[j].eap.kind = "edhoc"
      <4>1. Carries(relayReq[j], relayReq[j].state.sid) /\ Carried(relayReq[j].state.sid)
        BY <3>1, <3>2 DEF Asks, Carries, Carried
      <4>2. \A t \in Sids : Carries(relayReq[j], t) => ~Carries(radiusReq[i], t)
        BY <2>2, AskedIsHeld
      <4>3. relayReq'[j] = relayReq[j]
        BY <1>1
      <4>. QED  BY <2>1, <3>1, <3>2, <4>1, <4>2, <4>3 DEF Asks
    <3>3. CASE relayReq[j].eap.kind # "edhoc"
      BY <1>1, <3>3 DEF Asks
    <3>. QED  BY <3>2, <3>3
  <2>3. ASSUME relayCur = "open", NEW j \in DOMAIN radiusReq', radiusReq'[j].open PROVE Asks(radiusReq[j])'
    <3>1. PICK k \in DOMAIN radiusReq : k # i /\ radiusReq'[j] = radiusReq[k]
      BY <1>3
    <3>. DEFINE r == radiusReq[k]
    <3>2. Asks(r) /\ r \in TRequests
      BY <1>2, <2>3, <3>1 DEF PaidInv, AsksInv
    <3>3. CASE r.eap.kind = "edhoc"
      <4>1. Carried(r.state.sid)
        BY <3>2, <3>3 DEF Asks, Carries, Carried
      <4>2. \A t \in Sids : Carries(r, t) => ~Carries(radiusReq[i], t)
        BY <2>3, <3>1, AskedIsHeld
      <4>3. \A x \in TRequests : Asks(x) /\ x.eap.kind = "edhoc" /\ Carried(x.state.sid)
                 /\ (\A t \in Sids : Carries(x, t) => ~Carries(radiusReq[i], t)) => Asks(x)'
        BY <2>1
      <4>. QED  BY <3>1, <3>2, <3>3, <4>1, <4>2, <4>3 DEF Asks
    <3>4. CASE r.eap.kind # "edhoc"
      BY <3>1, <3>4 DEF Asks
    <3>. QED  BY <3>3, <3>4
  <2>. QED  BY <1>1, <2>2, <2>3 DEF AsksInv
<1>6. ASSUME smfWait \in Psis, NEW t \in Sids, Holds(smfWait, t)
      PROVE  /\ t < aaaNext
             /\ aaa[t].status # "listed" => aaa'[t].status # "listed"
  <2>1. t < aaaNext
    BY <1>6 DEF LockInv, CreatedInv
  <2>. QED  BY <2>1
<1>7. ASSUME NEW x, Settles(x), smfWait \in Psis PROVE Settles(x)'
  BY <1>1, <1>6, <1>7 DEF Settles, Holds, Names, IsChallenge
<1>8. Settles(relayRsp)'
  <2>1. CASE relayRsp = NoRsp
    BY <1>1, <2>1 DEF Settles
  <2>2. CASE relayRsp # NoRsp
    <3>1. smfWait \in Psis /\ Settles(relayRsp)
      BY <1>2, <2>2 DEF LockInv, SocketInv, PaidInv, SettlesInv
    <3>2. \A x : Settles(x) => Settles(x)'
      BY <1>7, <3>1
    <3>. QED  BY <1>1, <3>1, <3>2 DEF Settles, Names, IsChallenge
  <2>. QED  BY <2>1, <2>2
<1>9. ASSUME relayCur = "open" PROVE Settles(radiusRsp)'
  <2>0. smfWait \in Psis /\ Settles(radiusRsp)
    BY <1>2, <1>9 DEF LockInv, SocketInv, PaidInv, SettlesInv
  <2>1. CASE ~radiusReq[i].open
    <3>1. \A x : Settles(x) => Settles(x)'
      BY <1>7, <2>0
    <3>. QED  BY <1>1, <2>0, <2>1, <3>1 DEF Settles, Names, IsChallenge
  <2>2. CASE radiusReq[i].open
    <3>1. radiusReq[i].state = smf[smfWait].state
      BY <1>9, <2>2 DEF LockInv, SocketInv, RadiusOpenInv
    <3>2. \A t \in Sids : Holds(smfWait, t) => Names(rsp, t) \/ aaa'[t].status # "listed"
      BY <1>9, <2>2, <3>1 DEF Holds, Carries
    <3>. QED  BY <1>1, <2>2, <3>2 DEF Settles, Holds, Names, IsChallenge
  <2>. QED  BY <2>1, <2>2
<1>10. SettlesInv'
  BY <1>1, <1>8, <1>9 DEF SettlesInv, PaidInv
<1>. QED  BY <1>4, <1>5, <1>10 DEF PaidInv

LEMMA ChallengeIsAnswer ==
    ASSUME NEW s \in Sids, NEW n \in Nat, NEW id \in Nat, NEW w \in TWires
    PROVE  IsChallenge(AccessChallenge(StateAttr(s, n), EdhocPacket(id, w)))
<1>. DEFINE rsp == AccessChallenge(StateAttr(s, n), EdhocPacket(id, w))
<1>1. rsp \in [result: {"challenge"}, state: TStates, eap: TPackets]
  BY DEF AccessChallenge, StateAttr, EdhocPacket, TStates, TPackets
<1>2. TMsgs \subseteq Msgs
  BY DEF TMsgs, Msgs, FirstTypes, MsgTypes
<1>3. TWires \subseteq Wires
  BY <1>2 DEF TRuns, Runs, TWires, Wires
<1>4. TPackets \subseteq Packets /\ TStates \subseteq States
  BY <1>3 DEF TPackets, Packets, TStates, States
<1>5. rsp \in [result: {"challenge"}, state: States, eap: Packets]
  BY <1>1, <1>4
<1>. QED  BY <1>1, <1>5, RspAssumption DEF IsChallenge

LEMMA PaidAaa ==
    ASSUME TypeInv, LockInv, PaidInv, AaaStep
    PROVE  PaidInv'
<1>0. UNCHANGED <<smfVars, relayVars, relayLinkVars>> /\ aaa \in [Sids -> TSessions]
      /\ aaaNext \in Nat /\ radiusReq \in Seq(TRequests) /\ \A t \in Sids : t \in Nat
  BY AaaAssumption DEF AaaStep, TypeInv, AaaTyped, RadiusTyped, Sids
<1>1. PICK i \in DOMAIN radiusReq : AaaActs(i)
  BY AaaShape DEF AaaStep, TypeInv
<1>r. \A t \in Sids : t >= aaaNext => aaa[t].status # "listed"
  BY DEF PaidInv, RestInv
<1>q. radiusReq[i] \in TRequests
  BY <1>0
<1>2. CASE mod_session_init(i)
  <2>. DEFINE id == radiusReq[i].eap.id + 1
              rsp == AccessChallenge(StateAttr(aaaNext, 0), EdhocPacket(id, StartWire))
              sess == [NoSession EXCEPT !.status = "listed", !.id = id]
  <2>1. Answer(i, rsp) /\ aaaNext \in Sids /\ aaaNext' = aaaNext + 1 /\ aaa' = [aaa EXCEPT ![aaaNext] = sess]
        /\ radiusReq[i].eap.kind = "identity"
    BY <1>2 DEF mod_session_init
  <2>2. rsp.result # "error"
    BY DEF AccessChallenge
  <2>3. radiusReq[i].state = NoState
    BY <1>q, <2>1 DEF TRequests, TPackets
  <2>. HIDE DEF rsp, sess, id
  <2>4. \A t \in Sids : t # aaaNext => aaa'[t] = aaa[t]
    BY <1>0, <2>1
  <2>5. \A t \in Sids : t < aaaNext => aaa'[t] = aaa[t]
    BY <1>0, <2>4
  <2>6. \A t \in Sids : t >= aaaNext' => aaa'[t].status # "listed"
    BY <1>0, <1>r, <2>1, <2>4
  <2>7. \A t \in Sids : ~Carries(radiusReq[i], t)
    BY <2>3 DEF Carries
  <2>. QED  BY <1>0, <2>1, <2>2, <2>5, <2>6, <2>7, PaidAnswer
<1>3. CASE RejectUnknown(i)
  <2>1. AccessReject.result # "error"
    BY DEF AccessReject
  <2>2. Answer(i, AccessReject) /\ aaa' = aaa /\ aaaNext' = aaaNext /\ radiusReq[i].eap.kind = "edhoc"
        /\ \A t \in Sids : ~Matches(radiusReq[i], t)
    BY <1>3 DEF RejectUnknown, aaaVars
  <2>3. ASSUME radiusReq[i].open, relayCur = "open", NEW t \in Sids, Carries(radiusReq[i], t)
        PROVE  aaa'[t].status # "listed"
    BY <2>2, <2>3 DEF PaidInv, AsksInv, Asks, Carries, Matches
  <2>. QED  BY <1>0, <1>r, <2>1, <2>2, <2>3, PaidAnswer
<1>4. ASSUME NEW s \in Sids, Continues(i, s) PROVE PaidInv'
  <2>1. PICK sess \in TSessions, w \in TWires : Served(s, sess) /\ Challenge(i, s, sess, w)
    BY <1>4 DEF Continues
  <2>. DEFINE rsp == AccessChallenge(StateAttr(s, sess.trip + 1), EdhocPacket(sess.id + 1, w))
              new == [sess EXCEPT !.trip = sess.trip + 1, !.id = sess.id + 1]
  <2>2. Answer(i, rsp) /\ aaaNext' = aaaNext /\ aaa' = [aaa EXCEPT ![s] = new]
    BY <2>1 DEF Challenge
  <2>3. rsp.state.sid = s /\ rsp.result = "challenge" /\ rsp # NoRsp
    <3>1. sess.trip + 1 \in Nat /\ sess.id + 1 \in Nat
      BY DEF TSessions
    <3>2. IsChallenge(rsp)
      BY <3>1, ChallengeIsAnswer
    <3>. QED  BY <3>2 DEF IsChallenge, AccessChallenge, StateAttr
  <2>5. Carries(radiusReq[i], s) /\ aaa[s].status = "listed"
    BY <1>4 DEF Continues, Matches, Carries
  <2>6. s < aaaNext
    BY <2>5 DEF LockInv, CreatedInv, Carried
  <2>. HIDE DEF rsp, new
  <2>7. \A t \in Sids : t # s => aaa'[t] = aaa[t]
    BY <1>0, <2>2
  <2>8. \A t \in Sids : Carries(radiusReq[i], t) => t = s
    BY <2>5 DEF Carries
  <2>9. Names(rsp, s)
    BY <2>3 DEF Names, IsChallenge
  <2>10. \A t \in Sids : t >= aaaNext' => aaa'[t].status # "listed"
    BY <1>0, <1>r, <2>2, <2>6, <2>7
  <2>. QED  BY <1>0, <2>2, <2>3, <2>5, <2>6, <2>7, <2>8, <2>9, <2>10, PaidAnswer
<1>5. ASSUME NEW s \in Sids, Ends(i, s) PROVE PaidInv'
  <2>1. PICK sess \in TSessions, st \in {"failed", "success"}, rsp \in {AccessAccept, AccessReject} :
            Conclude(i, s, sess, st, rsp)
    BY <1>5 DEF Ends, Fail
  <2>2. Carries(radiusReq[i], s) /\ aaa[s].status = "listed"
    BY <1>5 DEF Ends, Matches, Carries
  <2>3. (\A t \in Sids : t # s => aaa'[t] = aaa[t]) /\ Answer(i, rsp) /\ aaaNext' = aaaNext
    BY <1>0, <2>1 DEF Conclude
  <2>4. aaa'[s].status = st
    BY <1>0, <2>1 DEF Conclude, TSessions
  <2>5. rsp.result # "error"
    BY DEF AccessAccept, AccessReject
  <2>6. \A t \in Sids : Carries(radiusReq[i], t) => t = s
    BY <2>2 DEF Carries
  <2>7. \A t \in Sids : t >= aaaNext' => aaa'[t].status # "listed"
    BY <1>r, <2>3, <2>4
  <2>. QED  BY <1>0, <2>2, <2>3, <2>4, <2>5, <2>6, <2>7, PaidAnswer
<1>. QED  BY <1>1, <1>2, <1>3, <1>4, <1>5 DEF AaaActs

LEMMA PaidStep ==
    ASSUME TypeInv, TurnInv, LockInv, CurrentInv, PaidInv, [Next]_vars
    PROVE  PaidInv'
<1>1. ASSUME UNCHANGED <<smfVars, relayVars, relayLinkVars, radiusVars, aaaVars>> PROVE PaidInv'
  BY <1>1, PaidFrame DEF smfVars
<1>2. CASE UeStep \/ UNCHANGED vars
  BY <1>1, <1>2 DEF UeStep, vars
<1>3. CASE SmfStep \/ RanStep \/ RelayStep \/ AaaStep
  BY <1>3, PaidSmf, PaidRelay, PaidAaa
<1>4. CASE SmfGivesUp \/ RelayGivesUp
  BY <1>4, PaidSmfGivesUp, PaidRelay
<1>5. CASE LoseCommand /\ UNCHANGED <<ueVars, smfVars, relayVars, aaaVars, relayLinkVars, radiusVars>>
  BY <1>1, <1>5
<1>6. CASE LoseRelayRequest /\ UNCHANGED <<ueVars, smfVars, relayVars, aaaVars, n1Vars, radiusVars>>
  BY <1>6, PaidLose DEF LoseRelayRequest, radiusVars
<1>7. CASE LoseAccessRequest /\ UNCHANGED <<ueVars, smfVars, relayVars, aaaVars, n1Vars, relayLinkVars>>
  BY <1>7, PaidLose DEF LoseAccessRequest, relayLinkVars
<1>8. ASSUME NEW s \in Sids, Expire(s), UNCHANGED <<ueVars, smfVars, relayVars, n1Vars, relayLinkVars>>
      PROVE  PaidInv'
  BY <1>8, PaidExpire
<1>. QED  BY <1>2, <1>3, <1>4, <1>5, <1>6, <1>7, <1>8 DEF Next, TimeoutStep, FaultStep

-----------------------------------------------------------------------------
(* Counting what is owed. *)
LEMMA OneMore ==
    ASSUME NEW S, IsFiniteSet(S), NEW T, NEW x, T \subseteq S \cup {x}
    PROVE  Cardinality(T) <= Cardinality(S) + 1
<1>1. IsFiniteSet(S \cup {x}) /\ Cardinality(S \cup {x}) \in {Cardinality(S), Cardinality(S) + 1}
  BY FS_AddElement
<1>2. Cardinality(T) <= Cardinality(S \cup {x}) /\ IsFiniteSet(T)
  BY <1>1, FS_Subset
<1>3. Cardinality(T) \in Nat /\ Cardinality(S) \in Nat
  BY <1>2, FS_CardinalityType
<1>. QED  BY <1>1, <1>2, <1>3

LEMMA WithoutCount ==
    ASSUME NEW new, NEW old, NEW g, Without(new, old, g),
           NEW A, A \subseteq DOMAIN new, NEW B, B \subseteq DOMAIN old, IsFiniteSet(B),
           \A j \in A, k \in DOMAIN old : k # g /\ new[j] = old[k] => k \in B
    PROVE  /\ Cardinality(A) <= Cardinality(B)
           /\ g \in B => Cardinality(A) + 1 <= Cardinality(B)
<1>1. PICK f \in [DOMAIN new -> DOMAIN old] :
          /\ \A j, k \in DOMAIN new : f[j] = f[k] => j = k
          /\ \A j \in DOMAIN new : f[j] # g /\ new[j] = old[f[j]]
  BY DEF Without
<1>. DEFINE h == [j \in A |-> f[j]]
            C == B \ {g}
<1>2. \A j \in A : f[j] \in C
  BY <1>1
<1>3. h \in [A -> C] /\ \A j \in A : h[j] = f[j]
  BY <1>2
<1>4. \A j, k \in A : h[j] = h[k] => j = k
  BY <1>1, <1>3
<1>. HIDE DEF h
<1>5. h \in Injection(A, C)
  BY <1>3, <1>4 DEF Injection, IsInjective
<1>6. IsFiniteSet(C) /\ Cardinality(C) = IF g \in B THEN Cardinality(B) - 1 ELSE Cardinality(B)
  BY FS_RemoveElement
<1>. HIDE DEF C
<1>7. IsFiniteSet(A) /\ Cardinality(A) <= Cardinality(C)
  BY <1>5, <1>6, FS_Injection
<1>8. Cardinality(A) \in Nat /\ Cardinality(B) \in Nat /\ Cardinality(C) \in Nat
  BY <1>6, <1>7, FS_CardinalityType
<1>. QED  BY <1>6, <1>7, <1>8

(* What is left of a queue is all that was not taken. *)
LEMMA TailKeeps ==
    ASSUME NEW q \in Seq(TRequests), q # << >>
    PROVE  \A k \in DOMAIN q : k # 1 => \E j \in DOMAIN Tail(q) : Tail(q)[j] = q[k]
<1>1. /\ Tail(q) \in Seq(TRequests) /\ Len(q) \in Nat \ {0}
      /\ Len(Tail(q)) = Len(q) - 1 /\ \A i \in 1..(Len(q) - 1) : Tail(q)[i] = q[i + 1]
  BY TailFacts
<1>2. DOMAIN q = 1..Len(q) /\ DOMAIN Tail(q) = 1..(Len(q) - 1)
  BY <1>1
<1>3. ASSUME NEW k \in DOMAIN q, k # 1
      PROVE  k - 1 \in DOMAIN Tail(q) /\ Tail(q)[k - 1] = q[k]
  <2>1. k - 1 \in 1..(Len(q) - 1) /\ (k - 1) + 1 = k
    BY <1>1, <1>2, <1>3
  <2>. QED  BY <1>1, <1>2, <2>1
<1>. QED  BY <1>3

LEMMA RemoveKeeps ==
    ASSUME NEW q \in Seq(TRequests), NEW i \in DOMAIN q
    PROVE  \A k \in DOMAIN q : k # i => \E j \in DOMAIN RemoveAt(q, i) : RemoveAt(q, i)[j] = q[k]
<1>0. DOMAIN q = 1..Len(q) /\ i \in 1..Len(q) /\ Len(q) \in Nat
  OBVIOUS
<1>1. /\ RemoveAt(q, i) \in Seq(TRequests) /\ Len(RemoveAt(q, i)) = Len(q) - 1
      /\ \A j \in 1..(Len(q) - 1) : RemoveAt(q, i)[j] = q[IF j < i THEN j ELSE j + 1]
  BY <1>0, RemoveFacts
<1>2. DOMAIN RemoveAt(q, i) = 1..(Len(q) - 1)
  BY <1>1
<1>3. ASSUME NEW k \in DOMAIN q, k # i
      PROVE  \E j \in DOMAIN RemoveAt(q, i) : RemoveAt(q, i)[j] = q[k]
  <2>1. CASE k < i
    <3>1. k \in 1..(Len(q) - 1) /\ RemoveAt(q, i)[k] = q[k]
      BY <1>0, <1>1, <2>1
    <3>. QED  BY <1>2, <3>1
  <2>2. CASE k > i
    <3>1. k - 1 \in 1..(Len(q) - 1) /\ ~(k - 1 < i) /\ (k - 1) + 1 = k
      BY <1>0, <2>2
    <3>2. RemoveAt(q, i)[k - 1] = q[k]
      BY <1>1, <3>1
    <3>. QED  BY <1>2, <3>1, <3>2
  <2>. QED  BY <1>0, <1>3, <2>1, <2>2
<1>. QED  BY <1>3

LEMMA ClosedEap ==
    ASSUME NEW q \in Seq(TRequests)
    PROVE  /\ DOMAIN Closed(q) = DOMAIN q
           /\ \A i \in DOMAIN q : Closed(q)[i].eap = q[i].eap
<1>1. DOMAIN q = 1..Len(q) /\ \A i \in DOMAIN q : q[i] \in TRequests
  OBVIOUS
<1>. QED  BY <1>1 DEF Closed, TRequests

(* The three sets are finite. *)
Counted ==
    /\ IsFiniteSet(Owed) /\ IsFiniteSet(StaleRelay) /\ IsFiniteSet(StaleRadius)
    /\ Cardinality(Owed) \in Nat /\ Cardinality(StaleRelay) \in Nat /\ Cardinality(StaleRadius) \in Nat

LEMMA CountedAlways == TypeInv => Counted
<1>. SUFFICES ASSUME TypeInv PROVE Counted
  OBVIOUS
<1>1. /\ DOMAIN relayReq = 1..Len(relayReq) /\ Len(relayReq) \in Nat
      /\ DOMAIN radiusReq = 1..Len(radiusReq) /\ Len(radiusReq) \in Nat
      /\ Sids = 1..MaxSids /\ MaxSids \in Nat
  BY AaaAssumption DEF TypeInv, RelayTyped, RadiusTyped, Sids
<1>2. IsFiniteSet(DOMAIN relayReq) /\ IsFiniteSet(DOMAIN radiusReq) /\ IsFiniteSet(Sids)
  BY <1>1, FS_Interval
<1>3. Owed \subseteq Sids /\ StaleRelay \subseteq DOMAIN relayReq /\ StaleRadius \subseteq DOMAIN radiusReq
  BY DEF Owed, StaleRelay, StaleRadius
<1>4. IsFiniteSet(Owed) /\ IsFiniteSet(StaleRelay) /\ IsFiniteSet(StaleRadius)
  BY <1>2, <1>3, FS_Subset
<1>. QED  BY <1>4, FS_CardinalityType DEF Counted

(* Nothing more is owed. *)
LEMMA DebtKept ==
    ASSUME TypeInv, Counted, Counted', DebtInv, faults' \in {faults, faults + 1}, Owed' \subseteq Owed,
           Cardinality(StaleRelay') <= Cardinality(StaleRelay),
           Cardinality(StaleRadius') <= Cardinality(StaleRadius)
    PROVE  DebtInv'
<1>1. Cardinality(Owed') <= Cardinality(Owed)
  BY FS_Subset DEF Counted
<1>. QED  BY <1>1 DEF Counted, DebtInv, TypeInv

(* At most one session or one identity is exposed, and none by a dead exchange. *)
LEMMA ExposedOne ==
    ASSUME TypeInv, LockInv, PaidInv
    PROVE  /\ \/ (\E x : Exposed \subseteq {x}) /\ OpenRelay = {} /\ OpenRadius = {}
              \/ Exposed = {} /\ (\E x : OpenRelay \subseteq {x}) /\ OpenRadius = {}
              \/ Exposed = {} /\ OpenRelay = {} /\ (\E x : OpenRadius \subseteq {x})
           /\ ~Alive => Exposed = {} /\ OpenRelay = {} /\ OpenRadius = {}
<1>0. smfWait \in Psis \cup {NoPsi} /\ relayReq \in Seq(TRequests) /\ radiusReq \in Seq(TRequests)
  BY DEF TypeInv, SmfTyped, RelayTyped, RadiusTyped
<1>1. ASSUME ~Alive PROVE Exposed = {} /\ OpenRelay = {} /\ OpenRadius = {}
  BY <1>1 DEF Alive, Exposed, Named, Names, IsChallenge, OpenRelay, OpenRadius, NoneOpen
<1>3. \A s, t : Holds(smfWait, s) /\ Holds(smfWait, t) => s = t
  BY DEF Holds
<1>4. \A req \in TRequests : IsIdentity(req) => req.state = NoState
  BY DEF IsIdentity, TRequests, TPackets
<1>5. ASSUME NEW i \in DOMAIN relayReq, relayReq[i].open
      PROVE  \/ (\E x : Exposed \subseteq {x}) /\ OpenRelay = {} /\ OpenRadius = {}
             \/ Exposed = {} /\ (\E x : OpenRelay \subseteq {x}) /\ OpenRadius = {}
  <2>1. relayCur # "open" /\ relayRsp = NoRsp /\ relayReq[i].state = smf[smfWait].state
        /\ \A j \in DOMAIN relayReq : relayReq[j].open => i = j
    BY <1>5 DEF LockInv, SocketInv, RelayOpenInv
  <2>2. OpenRadius = {} /\ OpenRelay \subseteq {i} /\ \A s : ~Named(s)
    BY <2>1 DEF OpenRadius, OpenRelay, Named, Names, IsChallenge
  <2>3. CASE IsIdentity(relayReq[i])
    <3>1. \A s : ~Holds(smfWait, s)
      BY <1>0, <1>4, <2>1, <2>3 DEF Holds
    <3>. QED  BY <2>2, <3>1 DEF Exposed
  <2>4. CASE ~IsIdentity(relayReq[i])
    <3>1. OpenRelay = {}
      BY <2>2, <2>4 DEF OpenRelay
    <3>2. \E x : Exposed \subseteq {x}
      BY <1>3, <2>2 DEF Exposed
    <3>. QED  BY <2>2, <3>1, <3>2
  <2>. QED  BY <2>3, <2>4
<1>6. ASSUME relayCur = "open", NEW i \in DOMAIN radiusReq, radiusReq[i].open
      PROVE  \/ (\E x : Exposed \subseteq {x}) /\ OpenRelay = {} /\ OpenRadius = {}
             \/ Exposed = {} /\ OpenRelay = {} /\ (\E x : OpenRadius \subseteq {x})
  <2>1. radiusRsp = NoRsp /\ relayRsp = NoRsp /\ radiusReq[i].state = smf[smfWait].state
        /\ \A j \in DOMAIN radiusReq : radiusReq[j].open => i = j
    BY <1>6 DEF LockInv, SocketInv, RadiusOpenInv
  <2>2. OpenRelay = {} /\ OpenRadius \subseteq {i} /\ \A s : ~Named(s)
    BY <1>6, <2>1 DEF OpenRadius, OpenRelay, Named, Names, IsChallenge, LockInv, SocketInv, RelayOpenInv
  <2>3. CASE IsIdentity(radiusReq[i])
    <3>1. \A s : ~Holds(smfWait, s)
      BY <1>0, <1>4, <2>1, <2>3 DEF Holds
    <3>. QED  BY <2>2, <3>1 DEF Exposed
  <2>4. CASE ~IsIdentity(radiusReq[i])
    <3>1. OpenRadius = {}
      BY <2>2, <2>4 DEF OpenRadius
    <3>2. \E x : Exposed \subseteq {x}
      BY <1>3, <2>2 DEF Exposed
    <3>. QED  BY <2>2, <3>1, <3>2
  <2>. QED  BY <2>3, <2>4
<1>7. ASSUME NoneOpen(relayReq), relayCur = "open" => NoneOpen(radiusReq), Alive
      PROVE  (\E x : Exposed \subseteq {x}) /\ OpenRelay = {} /\ OpenRadius = {}
  <2>1. OpenRelay = {} /\ OpenRadius = {}
    BY <1>7 DEF NoneOpen, OpenRelay, OpenRadius
  <2>2. PICK rsp \in {relayRsp, radiusRsp} :
            /\ rsp # NoRsp /\ rsp.result # "error" /\ Settles(rsp)
            /\ \A s : Named(s) => Names(rsp, s)
    <3>1. CASE relayRsp # NoRsp /\ relayRsp.result # "error"
      <4>1. relayCur # "open" /\ Settles(relayRsp)
        BY <3>1 DEF LockInv, SocketInv, PaidInv, SettlesInv
      <4>. QED  BY <3>1, <4>1 DEF Named
    <3>2. CASE relayCur = "open" /\ radiusRsp # NoRsp
      <4>1. relayRsp = NoRsp /\ Settles(radiusRsp) /\ radiusRsp.result # "error"
        BY <3>2 DEF LockInv, SocketInv, PaidInv, SettlesInv
      <4>. QED  BY <3>2, <4>1 DEF Named, Names, IsChallenge
    <3>. QED  BY <1>7, <3>1, <3>2 DEF Alive
  <2>3. \A s \in Exposed : Names(rsp, s)
    BY <2>2 DEF Exposed, Settles
  <2>4. Exposed \subseteq {rsp.state.sid}
    BY <2>3 DEF Names
  <2>. QED  BY <2>1, <2>4
<1>. QED  BY <1>1, <1>5, <1>6, <1>7 DEF NoneOpen

(* A fault adds at most what was exposed. *)
LEMMA DebtFault ==
    ASSUME TypeInv, LockInv, PaidInv, Counted, Counted', DebtInv,
           faults' = faults + 1 \/ (faults' = faults /\ ~Alive),
           Owed' \subseteq Owed \cup Exposed,
           Cardinality(StaleRelay') <= Cardinality(StaleRelay) \/ StaleRelay' \subseteq StaleRelay \cup OpenRelay,
           Cardinality(StaleRadius') <= Cardinality(StaleRadius) \/ StaleRadius' \subseteq StaleRadius \cup OpenRadius
    PROVE  DebtInv'
<1>0. faults \in Nat
  BY DEF TypeInv
<1>1. Exposed = {} => Cardinality(Owed') <= Cardinality(Owed)
  BY FS_Subset DEF Counted
<1>2. OpenRelay = {} => Cardinality(StaleRelay') <= Cardinality(StaleRelay)
  BY FS_Subset DEF Counted
<1>3. OpenRadius = {} => Cardinality(StaleRadius') <= Cardinality(StaleRadius)
  BY FS_Subset DEF Counted
<1>4. (\E x : Exposed \subseteq {x}) => Cardinality(Owed') <= Cardinality(Owed) + 1
  BY OneMore DEF Counted
<1>5. (\E x : OpenRelay \subseteq {x}) => Cardinality(StaleRelay') <= Cardinality(StaleRelay) + 1
  BY OneMore DEF Counted
<1>6. (\E x : OpenRadius \subseteq {x}) => Cardinality(StaleRadius') <= Cardinality(StaleRadius) + 1
  BY OneMore DEF Counted
<1>. QED  BY <1>0, <1>1, <1>2, <1>3, <1>4, <1>5, <1>6, ExposedOne DEF Counted, DebtInv

-----------------------------------------------------------------------------
(* DebtInv, action by action.  A session stays claimed. *)
LEMMA OwedOnly ==
    ASSUME \A s \in Sids : aaa'[s].status = "listed" => aaa[s].status = "listed",
           \A s \in Sids : aaa'[s].status = "listed" /\ (Named(s) \/ \E p \in Psis : Keeps(p, s))
                              => Named(s)' \/ \E p \in Psis : Keeps(p, s)'
    PROVE  Owed' \subseteq Owed
BY DEF Owed

(* What is owed after the exchange under way has come to nothing. *)
LEMMA OwedExposed ==
    ASSUME aaa' = aaa, \A p \in Psis : p # smfWait => p # smfWait' /\ smf[p].state' = smf[p].state
    PROVE  Owed' \subseteq Owed \cup Exposed
<1>. SUFFICES ASSUME NEW s \in Owed', s \notin Owed PROVE s \in Exposed
  OBVIOUS
<1>1. s \in Sids /\ aaa[s].status = "listed" /\ \A p \in Psis : ~Keeps(p, s)'
  BY DEF Owed
<1>2. Named(s) \/ \E p \in Psis : Keeps(p, s)
  BY <1>1 DEF Owed
<1>3. ASSUME NEW p \in Psis, Keeps(p, s) PROVE Alive /\ Holds(smfWait, s)
  <2>1. p # smfWait => Keeps(p, s)'
    BY <1>3 DEF Keeps, Holds
  <2>. QED  BY <1>1, <1>3, <2>1 DEF Keeps
<1>. QED  BY <1>1, <1>2, <1>3 DEF Exposed

LEMMA DebtFrame ==
    ASSUME TypeInv, LockInv, Counted, Counted', DebtInv, SameHeld, smfWait' = smfWait,
           UNCHANGED <<relayVars, relayLinkVars, radiusVars>>, faults' \in {faults, faults + 1},
           \A s \in Sids : aaa'[s].status = "listed" => aaa[s].status = "listed"
    PROVE  DebtInv'
<1>1. /\ relayCur' = relayCur /\ relayReq' = relayReq /\ relayRsp' = relayRsp /\ radiusReq' = radiusReq
      /\ radiusRsp' = radiusRsp
  BY DEF relayVars, relayLinkVars, radiusVars
<1>2. Alive' <=> Alive
  BY <1>1 DEF Alive, NoneOpen
<1>3. \A s : Named(s) => Named(s)'
  BY <1>1 DEF Named, Names, IsChallenge
<1>4. \A p \in Psis : \A s : Keeps(p, s) => Keeps(p, s)'
  BY <1>2 DEF Keeps, Holds, SameHeld
<1>5. Owed' \subseteq Owed
  BY <1>3, <1>4, OwedOnly
<1>6. StaleRelay' = StaleRelay /\ StaleRadius' = StaleRadius
  BY <1>1 DEF StaleRelay, StaleRadius, IsIdentity
<1>. QED  BY <1>5, <1>6, DebtKept DEF Counted

LEMMA DebtExchange ==
    ASSUME TypeInv, LockInv, PaidInv, Counted, Counted', DebtInv, NEW p \in Psis, NEW st, NEW e,
           RelayRequest(st, e) \in TRequests, smfWait = NoPsi, Exchange(p, st, e), SameHeld,
           UNCHANGED <<relayVars, radiusVars, aaaVars, faults>>
    PROVE  DebtInv'
<1>. DEFINE m == RelayRequest(st, e)
<1>1. /\ relayCur' = relayCur /\ relayRsp' = relayRsp /\ radiusReq' = radiusReq
      /\ radiusRsp' = radiusRsp /\ aaa' = aaa /\ relayReq' = Append(relayReq, m) /\ m.open
  BY DEF relayVars, radiusVars, aaaVars, Exchange, RelayRequest
<1>2. relayReq \in Seq(TRequests) /\ m \in TRequests
  BY DEF TypeInv, RelayTyped
<1>. HIDE DEF m
<1>3. /\ \A j \in DOMAIN relayReq' : (j \in DOMAIN relayReq /\ relayReq'[j] = relayReq[j]) \/ relayReq'[j] = m
      /\ Len(relayReq) + 1 \in DOMAIN relayReq' /\ relayReq'[Len(relayReq) + 1] = m
  BY <1>1, <1>2, AppendDomain
<1>4. Alive'
  BY <1>1, <1>3 DEF Alive, NoneOpen
<1>5. \A s : ~Named(s)
  BY DEF LockInv, SocketInv, Named, Names, IsChallenge
<1>6. \A q \in Psis : \A s : Keeps(q, s) => Keeps(q, s)'
  BY <1>4 DEF Keeps, Holds, SameHeld
<1>7. Owed' \subseteq Owed
  BY <1>1, <1>5, <1>6, OwedOnly
<1>8. StaleRelay' \subseteq StaleRelay /\ StaleRadius' = StaleRadius
  BY <1>1, <1>3 DEF StaleRelay, StaleRadius, IsIdentity
<1>9. Cardinality(StaleRelay') <= Cardinality(StaleRelay)
  BY <1>8, FS_Subset DEF Counted
<1>. QED  BY <1>7, <1>8, <1>9, DebtKept DEF Counted

(* The SMF takes the answer of its exchange. *)
LEMMA DebtTaken ==
    ASSUME TypeInv, LockInv, PaidInv, Counted, Counted', DebtInv, NEW q \in Psis,
           smfWait = q, smfWait' = NoPsi, relayRsp # NoRsp, relayReq' = relayReq,
           \A r \in Psis \ {q} : smf[r].state' = smf[r].state,
           IsChallenge(relayRsp) => smf[q].state' = relayRsp.state,
           UNCHANGED <<relayVars, radiusVars, aaaVars, faults>>
    PROVE  DebtInv'
<1>1. relayCur' = relayCur /\ radiusReq' = radiusReq /\ radiusRsp' = radiusRsp /\ aaa' = aaa /\ relayCur # "open"
      /\ NoPsi \notin Psis
  BY SmfAssumption DEF relayVars, radiusVars, aaaVars, LockInv, SocketInv
<1>2. \A s \in Sids : Names(relayRsp, s) => Keeps(q, s)'
  <2>1. IsChallenge(relayRsp) => relayRsp.state # NoState
    <3>1. IsChallenge(relayRsp) => relayRsp.state \in TStates
      BY DEF IsChallenge, TypeInv, RelayTyped, TResponses
    <3>2. TStates \subseteq [sid: Nat, trip: Nat]
      BY AaaAssumption DEF TStates, Sids
    <3>. QED  BY <3>1, <3>2, StateAssumption
  <2>. QED  BY <1>1, <2>1 DEF Names, Keeps, Holds
<1>3. \A s : Named(s) => Names(relayRsp, s)
  BY <1>1 DEF Named
<1>4. ASSUME NEW p \in Psis, NEW s \in Sids, aaa[s].status = "listed", Keeps(p, s)
      PROVE  \E r \in Psis : Keeps(r, s)'
  <2>1. CASE p # q
    BY <1>1, <1>4, <2>1 DEF Keeps, Holds
  <2>2. CASE p = q
    <3>1. relayRsp.result # "error"
      BY <1>1, <1>4, <2>2 DEF Keeps, Alive, LockInv, SocketInv, RelayOpenInv, NoneOpen
    <3>2. Names(relayRsp, s)
      BY <1>4, <2>2, <3>1 DEF PaidInv, SettlesInv, Settles, Keeps
    <3>. QED  BY <1>2, <3>2
  <2>. QED  BY <2>1, <2>2
<1>5. Owed' \subseteq Owed
  BY <1>1, <1>2, <1>3, <1>4, OwedOnly
<1>6. StaleRelay' = StaleRelay /\ StaleRadius' = StaleRadius
  BY <1>1 DEF StaleRelay, StaleRadius, IsIdentity
<1>. QED  BY <1>5, <1>6, DebtKept DEF Counted

LEMMA DebtSmf ==
    ASSUME TypeInv, LockInv, PaidInv, Counted, Counted', DebtInv, SmfStep \/ RanStep
    PROVE  DebtInv'
<1>1. PICK q \in Psis :
          \/ SmfSetupResponse(q)
          \/ smf_timer_sec_auth_start(q)
          \/ smf_start_secondary_auth(q) \/ SmfStartIgnored(q)
          \/ smf_handle_secondary_auth_complete(q) \/ SmfUnknownMessage(q)
          \/ SmfChallenge(q) \/ SmfVerdict(q)
  BY DEF SmfStep, RanStep, SmfNext
<1>0. N1Typed /\ smf \in [Psis -> SmfType] /\ UNCHANGED <<relayVars, radiusVars, aaaVars, faults>>
      /\ aaa' = aaa
  BY DEF TypeInv, SmfTyped, SmfStep, RanStep, aaaVars
<1>2. CASE SmfSetupResponse(q) \/ smf_timer_sec_auth_start(q) \/ SmfStartIgnored(q) \/ SmfUnknownMessage(q)
  <2>1. SmfSetupResponse(q) => SameHeld
    <3>. DEFINE b == smf[q].timer \/ ~smf[q].inProgress
    <3>1. SmfSetupResponse(q) => smf' = [smf EXCEPT ![q].timer = b]
      BY DEF SmfSetupResponse
    <3>. HIDE DEF b
    <3>. QED  BY <1>0, <3>1 DEF SameHeld, SmfType
  <2>2. smf_timer_sec_auth_start(q) => SameHeld
    BY <1>0 DEF smf_timer_sec_auth_start, SameHeld, SmfType
  <2>3. SmfStartIgnored(q) \/ SmfUnknownMessage(q) => SameHeld
    BY <1>0 DEF SmfStartIgnored, SmfUnknownMessage, SameHeld, SmfType, smfVars
  <2>4. SameHeld /\ smfWait' = smfWait /\ UNCHANGED relayLinkVars
    BY <1>2, <2>1, <2>2, <2>3
       DEF SmfSetupResponse, smf_timer_sec_auth_start, SmfStartIgnored, SmfUnknownMessage, smfVars
  <2>. QED  BY <1>0, <2>4, DebtFrame
<1>3. CASE smf_start_secondary_auth(q)
  <2>1. SameHeld
    <3>1. smf[q].state = NoState
      BY <1>3 DEF smf_start_secondary_auth, PaidInv, RestInv
    <3>. QED  BY <1>0, <1>3, <3>1 DEF smf_start_secondary_auth, SmfType, SameHeld
  <2>2. RelayRequest(NoState, Identity(1)) \in TRequests
    BY DEF RelayRequest, TRequests
  <2>. QED  BY <1>0, <1>3, <2>1, <2>2, DebtExchange DEF smf_start_secondary_auth
<1>4. CASE smf_handle_secondary_auth_complete(q)
  <2>1. RelayRequest(smf[q].state, Head(nasUl).eap) \in TRequests
    <3>1. Head(nasUl) \in UlMsgs /\ Head(nasUl).kind = "complete" /\ smf[q] \in SmfType
      BY <1>0, <1>4, TailFacts DEF smf_handle_secondary_auth_complete, Waiting, N1Typed
    <3>. QED  BY <3>1 DEF RelayRequest, TRequests, UlMsgs, SmfType
  <2>2. SameHeld
    BY <1>4 DEF smf_handle_secondary_auth_complete, SameHeld
  <2>. QED  BY <1>0, <1>4, <2>1, <2>2, DebtExchange DEF smf_handle_secondary_auth_complete
<1>5. CASE SmfChallenge(q) \/ SmfVerdict(q)
  <2>1. smfWait = q /\ smfWait' = NoPsi /\ relayRsp # NoRsp /\ relayReq' = relayReq
    BY <1>5 DEF SmfChallenge, SmfVerdict, SmfFinish
  <2>2. \A r \in Psis \ {q} : smf[r].state' = smf[r].state
    BY <1>0, <1>5 DEF SmfChallenge, SmfVerdict, SmfFinish, SmfType
  <2>3. IsChallenge(relayRsp) => smf[q].state' = relayRsp.state
    BY <1>0, <1>5 DEF SmfChallenge, SmfVerdict, SmfType, IsChallenge
  <2>. QED  BY <1>0, <2>1, <2>2, <2>3, DebtTaken
<1>. QED  BY <1>1, <1>2, <1>3, <1>4, <1>5

LEMMA DebtSmfGivesUp ==
    ASSUME TypeInv, LockInv, PaidInv, Counted, Counted', DebtInv, SmfGivesUp,
           faults' = faults + 1 \/ (SmfStarved /\ faults' = faults)
    PROVE  DebtInv'
<1>1. PICK q \in Psis : SmfTimeout(q)
  BY DEF SmfGivesUp
<1>2. smf \in [Psis -> SmfType] /\ relayReq \in Seq(TRequests)
  BY DEF TypeInv, SmfTyped, RelayTyped
<1>3. smfWait = q /\ smfWait' = NoPsi /\ relayReq' = Closed(relayReq) /\ aaa' = aaa /\ radiusReq' = radiusReq
  BY <1>1 DEF SmfGivesUp, SmfTimeout, SmfFinish, aaaVars, radiusVars
<1>4. \A r \in Psis : r # smfWait => r # smfWait' /\ smf[r].state' = smf[r].state
  BY <1>1, <1>2, <1>3, SmfAssumption DEF SmfTimeout, SmfFinish, SmfType
<1>5. Owed' \subseteq Owed \cup Exposed
  BY <1>3, <1>4, OwedExposed
<1>6. StaleRelay' \subseteq StaleRelay \cup OpenRelay
  <2>1. DOMAIN relayReq' = DOMAIN relayReq /\ \A i \in DOMAIN relayReq : relayReq'[i].eap = relayReq[i].eap
    BY <1>2, <1>3, ClosedEap
  <2>. QED  BY <2>1 DEF StaleRelay, OpenRelay, IsIdentity
<1>7. StaleRadius' \subseteq StaleRadius \cup OpenRadius
  BY <1>3 DEF StaleRadius, OpenRadius, IsIdentity
<1>8. SmfStarved => ~Alive
  BY DEF SmfStarved, RelayStarved, Alive
<1>. QED  BY <1>5, <1>6, <1>7, <1>8, DebtFault

LEMMA DebtRead ==
    ASSUME TypeInv, LockInv, PaidInv, Counted, Counted', DebtInv, RelayRead, UNCHANGED <<smfVars, aaaVars, faults>>
    PROVE  DebtInv'
<1>. DEFINE r == Head(relayReq)
            m == AccessRequest(r.state, r.eap)
            n == Len(radiusReq) + 1
<1>1. /\ relayCur = "idle" /\ relayCur' = (IF r.open THEN "open" ELSE "closed")
      /\ relayRsp' = relayRsp /\ radiusRsp' = radiusRsp /\ aaa' = aaa
      /\ smf' = smf /\ smfWait' = smfWait /\ relayReq # << >>
      /\ relayReq' = Tail(relayReq) /\ radiusReq' = Append(radiusReq, m)
  BY DEF RelayRead, smfVars, aaaVars
<1>2. relayReq \in Seq(TRequests) /\ radiusReq \in Seq(TRequests) /\ r \in TRequests
  BY <1>1, TailFacts DEF TypeInv, RelayTyped, RadiusTyped
<1>3. m \in TRequests /\ m.eap = r.eap /\ m.open
  BY <1>2 DEF AccessRequest, TRequests
<1>4. Without(relayReq', relayReq, 1) /\ r = relayReq[1] /\ 1 \in DOMAIN relayReq
      /\ \A k \in DOMAIN relayReq : k # 1 => \E j \in DOMAIN relayReq' : relayReq'[j] = relayReq[k]
  BY <1>1, <1>2, TailWithout, TailKeeps
<1>. HIDE DEF r, m
<1>6. /\ \A j \in DOMAIN radiusReq' : \/ j \in DOMAIN radiusReq /\ radiusReq'[j] = radiusReq[j]
                                      \/ j = n /\ radiusReq'[j] = m
      /\ n \in DOMAIN radiusReq' /\ radiusReq'[n] = m
  BY <1>1, <1>2, <1>3, AppendDomain
<1>. HIDE DEF n
<1>7. radiusRsp = NoRsp
  BY <1>1 DEF LockInv, SocketInv
<1>8. Alive => Alive'
  <2>1. CASE ~NoneOpen(relayReq)
    <3>1. PICK k \in DOMAIN relayReq : relayReq[k].open
      BY <2>1 DEF NoneOpen
    <3>2. CASE k = 1
      BY <1>1, <1>3, <1>4, <1>6, <3>1, <3>2 DEF Alive, NoneOpen
    <3>3. CASE k # 1
      BY <1>4, <3>1, <3>3 DEF Alive, NoneOpen
    <3>. QED  BY <3>2, <3>3
  <2>. QED  BY <1>1, <2>1 DEF Alive
<1>9. Owed' \subseteq Owed
  <2>1. \A s : Named(s) => Named(s)'
    BY <1>1 DEF Named, Names, IsChallenge
  <2>2. \A p, s : Keeps(p, s) => Keeps(p, s)'
    BY <1>1, <1>8 DEF Keeps, Holds
  <2>. QED  BY <1>1, <2>1, <2>2, OwedOnly
<1>10. /\ Cardinality(StaleRelay') <= Cardinality(StaleRelay)
       /\ 1 \in StaleRelay => Cardinality(StaleRelay') + 1 <= Cardinality(StaleRelay)
  <2>1. StaleRelay' \subseteq DOMAIN relayReq' /\ StaleRelay \subseteq DOMAIN relayReq
    BY DEF StaleRelay
  <2>2. \A j \in StaleRelay', k \in DOMAIN relayReq : k # 1 /\ relayReq'[j] = relayReq[k] => k \in StaleRelay
    BY DEF StaleRelay, IsIdentity
  <2>. QED  BY <1>4, <2>1, <2>2, WithoutCount DEF Counted
<1>11. StaleRadius' \subseteq StaleRadius \cup {n} /\ (1 \notin StaleRelay => StaleRadius' \subseteq StaleRadius)
  BY <1>1, <1>3, <1>4, <1>6 DEF StaleRadius, StaleRelay, IsIdentity
<1>12. CASE 1 \notin StaleRelay
  <2>1. Cardinality(StaleRadius') <= Cardinality(StaleRadius)
    BY <1>11, <1>12, FS_Subset DEF Counted
  <2>. QED  BY <1>9, <1>10, <2>1, DebtKept
<1>13. CASE 1 \in StaleRelay
  <2>1. Cardinality(StaleRadius') <= Cardinality(StaleRadius) + 1
    BY <1>11, OneMore DEF Counted
  <2>2. Cardinality(Owed') <= Cardinality(Owed)
    BY <1>9, FS_Subset DEF Counted
  <2>. QED  BY <1>10, <1>13, <2>1, <2>2 DEF Counted, DebtInv, TypeInv
<1>. QED  BY <1>12, <1>13

LEMMA DebtRelay ==
    ASSUME TypeInv, LockInv, PaidInv, Counted, Counted', DebtInv, RelayForward \/ RelayTimeout,
           UNCHANGED <<smfVars, aaaVars>>, faults' \in {faults, faults + 1},
           RelayTimeout /\ faults' = faults => RelayStarved
    PROVE  DebtInv'
<1>0. smf' = smf /\ smfWait' = smfWait /\ aaa' = aaa /\ radiusReq \in Seq(TRequests)
  BY DEF smfVars, aaaVars, TypeInv, RadiusTyped
<1>1. CASE RelayForward
  <2>1. /\ radiusRsp # NoRsp /\ radiusReq' = radiusReq /\ relayReq' = relayReq /\ relayCur' = "idle"
        /\ relayRsp' = IF relayCur = "open" THEN radiusRsp ELSE relayRsp
    BY <1>1 DEF RelayForward, RelayAnswer
  <2>2. radiusRsp.result # "error" /\ NoneOpen(radiusReq) /\ (relayCur = "open" => relayRsp = NoRsp)
    BY <2>1 DEF PaidInv, SettlesInv, LockInv, SocketInv, RadiusOpenInv, NoneOpen
  <2>3. \A s : Named(s) => Named(s)'
    BY <2>1, <2>2 DEF Named, Names, IsChallenge
  <2>4. Alive => Alive'
    BY <2>1, <2>2 DEF Alive, NoneOpen
  <2>5. \A p, s : Keeps(p, s) => Keeps(p, s)'
    BY <1>0, <2>4 DEF Keeps, Holds
  <2>6. Owed' \subseteq Owed
    BY <1>0, <2>3, <2>5, OwedOnly
  <2>7. StaleRelay' = StaleRelay /\ StaleRadius' = StaleRadius
    BY <2>1, <2>2 DEF StaleRelay, StaleRadius, IsIdentity, NoneOpen
  <2>. QED  BY <2>6, <2>7, DebtKept DEF Counted
<1>2. CASE RelayTimeout
  <2>1. /\ relayCur # "idle" /\ radiusRsp = NoRsp /\ radiusRsp' = radiusRsp /\ radiusReq' = Closed(radiusReq)
        /\ relayReq' = relayReq /\ relayCur' = "idle"
        /\ relayRsp' = IF relayCur = "open" THEN RelayError ELSE relayRsp
    BY <1>2 DEF RelayTimeout, RelayAnswer
  <2>2. StaleRelay' = StaleRelay /\ StaleRadius' \subseteq StaleRadius \cup OpenRadius
    <3>1. DOMAIN radiusReq' = DOMAIN radiusReq /\ \A i \in DOMAIN radiusReq : radiusReq'[i].eap = radiusReq[i].eap
      BY <1>0, <2>1, ClosedEap
    <3>. QED  BY <2>1, <3>1 DEF StaleRelay, StaleRadius, OpenRadius, IsIdentity
  <2>3. CASE relayCur = "open"
    <3>1. Owed' \subseteq Owed \cup Exposed
      BY <1>0, OwedExposed
    <3>2. RelayStarved => ~Alive
      BY <2>3 DEF RelayStarved, Alive, LockInv, SocketInv, RelayOpenInv, NoneOpen
    <3>. QED  BY <1>2, <2>2, <3>1, <3>2, DebtFault DEF Counted
  <2>4. CASE relayCur # "open"
    <3>1. Alive => Alive'
      BY <2>1, <2>4 DEF Alive, NoneOpen
    <3>2. \A s : Named(s) => Named(s)'
      BY <2>1, <2>4 DEF Named, Names, IsChallenge
    <3>3. \A p, s : Keeps(p, s) => Keeps(p, s)'
      BY <1>0, <3>1 DEF Keeps, Holds
    <3>4. Owed' \subseteq Owed
      BY <1>0, <3>2, <3>3, OwedOnly
    <3>5. StaleRadius' \subseteq StaleRadius
      BY <2>2, <2>4 DEF OpenRadius
    <3>6. Cardinality(StaleRadius') <= Cardinality(StaleRadius)
      BY <3>5, FS_Subset DEF Counted
    <3>. QED  BY <2>2, <3>4, <3>6, DebtKept DEF Counted
  <2>. QED  BY <2>3, <2>4
<1>. QED  BY <1>1, <1>2

LEMMA DebtLose ==
    ASSUME TypeInv, LockInv, PaidInv, Counted, Counted', DebtInv, faults' = faults + 1,
           UNCHANGED <<smfVars, aaaVars, relayVars, relayRsp, radiusRsp>>,
           \/ radiusReq' = radiusReq /\ \E i \in DOMAIN relayReq : relayReq' = RemoveAt(relayReq, i)
           \/ relayReq' = relayReq /\ \E i \in DOMAIN radiusReq : radiusReq' = RemoveAt(radiusReq, i)
    PROVE  DebtInv'
<1>0. smf' = smf /\ smfWait' = smfWait /\ aaa' = aaa /\ relayCur' = relayCur
      /\ relayReq \in Seq(TRequests) /\ radiusReq \in Seq(TRequests)
  BY DEF smfVars, aaaVars, relayVars, TypeInv, RelayTyped, RadiusTyped
<1>1. Owed' \subseteq Owed \cup Exposed
  BY <1>0, OwedExposed
<1>2. ASSUME NEW i \in DOMAIN relayReq, relayReq' = RemoveAt(relayReq, i)
      PROVE  Cardinality(StaleRelay') <= Cardinality(StaleRelay)
  <2>1. StaleRelay' \subseteq DOMAIN relayReq' /\ StaleRelay \subseteq DOMAIN relayReq
    BY DEF StaleRelay
  <2>2. \A j \in StaleRelay', k \in DOMAIN relayReq : k # i /\ relayReq'[j] = relayReq[k] => k \in StaleRelay
    BY DEF StaleRelay, IsIdentity
  <2>3. Without(relayReq', relayReq, i)
    BY <1>0, <1>2, RemoveWithout
  <2>. QED  BY <2>1, <2>2, <2>3, WithoutCount DEF Counted
<1>3. ASSUME NEW i \in DOMAIN radiusReq, radiusReq' = RemoveAt(radiusReq, i)
      PROVE  Cardinality(StaleRadius') <= Cardinality(StaleRadius)
  <2>1. StaleRadius' \subseteq DOMAIN radiusReq' /\ StaleRadius \subseteq DOMAIN radiusReq
    BY DEF StaleRadius
  <2>2. \A j \in StaleRadius', k \in DOMAIN radiusReq : k # i /\ radiusReq'[j] = radiusReq[k] => k \in StaleRadius
    BY <1>0 DEF StaleRadius, IsIdentity
  <2>3. Without(radiusReq', radiusReq, i)
    BY <1>0, <1>3, RemoveWithout
  <2>. QED  BY <2>1, <2>2, <2>3, WithoutCount DEF Counted
<1>4. relayReq' = relayReq => StaleRelay' = StaleRelay
  BY DEF StaleRelay, IsIdentity
<1>5. radiusReq' = radiusReq => StaleRadius' = StaleRadius
  BY <1>0 DEF StaleRadius, IsIdentity
<1>6. /\ Cardinality(StaleRelay') <= Cardinality(StaleRelay) \/ StaleRelay' \subseteq StaleRelay \cup OpenRelay
      /\ Cardinality(StaleRadius') <= Cardinality(StaleRadius) \/ StaleRadius' \subseteq StaleRadius \cup OpenRadius
  BY <1>2, <1>3, <1>4, <1>5
<1>. QED  BY <1>1, <1>6, DebtFault

(* The DN-AAA answers request i: whoever waits for the answer has it. *)
LEMMA DebtAnswer ==
    ASSUME TypeInv, LockInv, PaidInv, Counted, Counted', DebtInv, NEW i \in DOMAIN radiusReq,
           NEW rsp, Answer(i, rsp), rsp # NoRsp,
           UNCHANGED <<smfVars, relayVars, relayLinkVars, faults>>
    PROVE  /\ Cardinality(StaleRadius') <= Cardinality(StaleRadius)
           /\ i \in StaleRadius => Cardinality(StaleRadius') + 1 <= Cardinality(StaleRadius)
           /\ StaleRelay' = StaleRelay
           /\ \A s : Named(s) => Named(s)'
           /\ \A p, s : Keeps(p, s) => Keeps(p, s)'
           /\ radiusReq[i].open /\ relayCur = "open" => \A s : Names(rsp, s) => Named(s)'
<1>1. /\ relayCur' = relayCur /\ relayReq' = relayReq /\ relayRsp' = relayRsp /\ smf' = smf
      /\ smfWait' = smfWait /\ radiusReq' = RemoveAt(radiusReq, i)
      /\ radiusRsp' = (IF radiusReq[i].open THEN rsp ELSE radiusRsp)
  BY DEF smfVars, relayVars, relayLinkVars, Answer
<1>2. radiusReq \in Seq(TRequests)
  BY DEF TypeInv, RadiusTyped
<1>3. Without(radiusReq', radiusReq, i)
      /\ \A k \in DOMAIN radiusReq : k # i => \E j \in DOMAIN radiusReq' : radiusReq'[j] = radiusReq[k]
  BY <1>1, <1>2, RemoveWithout, RemoveKeeps
<1>4. radiusRsp # NoRsp => NoneOpen(radiusReq) /\ radiusRsp' = radiusRsp
  BY <1>1 DEF LockInv, SocketInv, RadiusOpenInv, NoneOpen
<1>5. Alive => Alive'
  <2>1. CASE relayCur = "open" /\ radiusRsp # NoRsp
    BY <1>1, <1>4, <2>1 DEF Alive
  <2>2. CASE relayCur = "open" /\ ~NoneOpen(radiusReq)
    <3>1. PICK k \in DOMAIN radiusReq : radiusReq[k].open
      BY <2>2 DEF NoneOpen
    <3>2. CASE k = i
      BY <1>1, <2>2, <3>1, <3>2 DEF Alive
    <3>3. CASE k # i
      BY <1>1, <1>3, <2>2, <3>1, <3>3 DEF Alive, NoneOpen
    <3>. QED  BY <3>2, <3>3
  <2>3. CASE ~NoneOpen(relayReq) \/ (relayRsp # NoRsp /\ relayRsp.result # "error")
    BY <1>1, <2>3 DEF Alive
  <2>. QED  BY <2>1, <2>2, <2>3 DEF Alive
<1>6. \A s : Named(s) => Named(s)'
  BY <1>1, <1>4 DEF Named, Names, IsChallenge
<1>7. \A p, s : Keeps(p, s) => Keeps(p, s)'
  BY <1>1, <1>5 DEF Keeps, Holds
<1>8. StaleRelay' = StaleRelay
  BY <1>1 DEF StaleRelay, IsIdentity
<1>9. /\ Cardinality(StaleRadius') <= Cardinality(StaleRadius)
      /\ i \in StaleRadius => Cardinality(StaleRadius') + 1 <= Cardinality(StaleRadius)
  <2>1. StaleRadius' \subseteq DOMAIN radiusReq' /\ StaleRadius \subseteq DOMAIN radiusReq
    BY DEF StaleRadius
  <2>2. \A j \in StaleRadius', k \in DOMAIN radiusReq : k # i /\ radiusReq'[j] = radiusReq[k] => k \in StaleRadius
    BY <1>1 DEF StaleRadius, IsIdentity
  <2>. QED  BY <1>3, <2>1, <2>2, WithoutCount DEF Counted
<1>10. radiusReq[i].open /\ relayCur = "open" => \A s : Names(rsp, s) => Named(s)'
  BY <1>1 DEF Named, Names, IsChallenge
<1>. QED  BY <1>6, <1>7, <1>8, <1>9, <1>10

LEMMA DebtAaa ==
    ASSUME TypeInv, LockInv, PaidInv, Counted, Counted', DebtInv, AaaStep
    PROVE  DebtInv'
<1>0. UNCHANGED <<smfVars, relayVars, relayLinkVars, faults>> /\ aaa \in [Sids -> TSessions]
      /\ radiusReq \in Seq(TRequests) /\ faults' = faults
  BY DEF AaaStep, TypeInv, AaaTyped, RadiusTyped
<1>1. PICK i \in DOMAIN radiusReq : AaaActs(i)
  BY AaaShape DEF AaaStep, TypeInv
<1>2. ASSUME NEW rsp, Answer(i, rsp), rsp # NoRsp,
             \A s \in Sids : aaa'[s].status = "listed" => aaa[s].status = "listed"
      PROVE  DebtInv'
  <2>1. /\ Cardinality(StaleRadius') <= Cardinality(StaleRadius) /\ StaleRelay' = StaleRelay
        /\ \A s : Named(s) => Named(s)'
        /\ \A p, s : Keeps(p, s) => Keeps(p, s)'
    BY <1>0, <1>2, DebtAnswer
  <2>2. Owed' \subseteq Owed
    BY <1>2, <2>1, OwedOnly
  <2>. QED  BY <1>0, <2>1, <2>2, DebtKept DEF Counted
<1>3. \A rsp \in {AccessAccept, AccessReject} : rsp # NoRsp
  BY RspAssumption DEF AccessAccept, AccessReject
<1>4. CASE mod_session_init(i)
  <2>. DEFINE id == radiusReq[i].eap.id + 1
              rsp == AccessChallenge(StateAttr(aaaNext, 0), EdhocPacket(id, StartWire))
              sess == [NoSession EXCEPT !.status = "listed", !.id = id]
  <2>1. Answer(i, rsp) /\ aaaNext \in Sids /\ aaa' = [aaa EXCEPT ![aaaNext] = sess] /\ IsIdentity(radiusReq[i])
    BY <1>4 DEF mod_session_init, IsIdentity
  <2>2. IsChallenge(rsp) /\ rsp.state.sid = aaaNext
    <3>1. id \in Nat
      BY <1>0, <2>1 DEF TRequests, IsIdentity, Identity, TPackets
    <3>2. IsChallenge(rsp)
      BY <2>1, <3>1, ControlTyped, ChallengeIsAnswer
    <3>. QED  BY <3>2 DEF AccessChallenge, StateAttr
  <2>. HIDE DEF rsp, sess, id
  <2>3. rsp # NoRsp
    BY <2>2 DEF IsChallenge
  <2>4. /\ Cardinality(StaleRadius') <= Cardinality(StaleRadius)
        /\ i \in StaleRadius => Cardinality(StaleRadius') + 1 <= Cardinality(StaleRadius)
        /\ StaleRelay' = StaleRelay
        /\ \A s : Named(s) => Named(s)'
        /\ \A p, s : Keeps(p, s) => Keeps(p, s)'
        /\ radiusReq[i].open /\ relayCur = "open" => \A s : Names(rsp, s) => Named(s)'
    BY <1>0, <2>1, <2>3, DebtAnswer
  <2>5. \A t \in Sids : t # aaaNext => aaa'[t] = aaa[t]
    BY <1>0, <2>1
  <2>6. Owed' \subseteq Owed \cup {aaaNext}
    BY <2>4, <2>5 DEF Owed
  <2>7. CASE i \notin StaleRadius
    <3>1. radiusReq[i].open /\ relayCur = "open"
      BY <2>1, <2>7 DEF StaleRadius
    <3>2. \A s : s = aaaNext => Named(s)'
      <4>1. Names(rsp, aaaNext)
        BY <2>2 DEF Names
      <4>2. \A s : Names(rsp, s) => Named(s)'
        BY <2>4, <3>1
      <4>. QED  BY <4>1, <4>2
    <3>3. Owed' \subseteq Owed
      <4>1. \A s \in Owed' : ~Named(s)'
        BY DEF Owed
      <4>. QED  BY <2>6, <3>2, <4>1
    <3>. QED  BY <1>0, <2>4, <3>3, DebtKept DEF Counted
  <2>8. CASE i \in StaleRadius
    <3>1. Cardinality(Owed') <= Cardinality(Owed) + 1
      BY <2>6, OneMore DEF Counted
    <3>. QED  BY <1>0, <2>4, <2>8, <3>1 DEF Counted, DebtInv, TypeInv
  <2>. QED  BY <2>7, <2>8
<1>5. CASE RejectUnknown(i)
  BY <1>2, <1>3, <1>5 DEF RejectUnknown, aaaVars
<1>6. ASSUME NEW s \in Sids, Continues(i, s) PROVE DebtInv'
  <2>1. PICK sess \in TSessions, w \in TWires : Challenge(i, s, sess, w)
    BY <1>6 DEF Continues
  <2>. DEFINE rsp == AccessChallenge(StateAttr(s, sess.trip + 1), EdhocPacket(sess.id + 1, w))
  <2>2. Answer(i, rsp) /\ \A t \in Sids : t # s => aaa'[t] = aaa[t]
    BY <1>0, <2>1 DEF Challenge
  <2>3. IsChallenge(rsp)
    <3>1. sess.trip + 1 \in Nat /\ sess.id + 1 \in Nat
      BY DEF TSessions
    <3>. QED  BY <3>1, ChallengeIsAnswer
  <2>4. aaa[s].status = "listed"
    BY <1>6 DEF Continues, Matches
  <2>. HIDE DEF rsp
  <2>. QED  BY <1>2, <2>2, <2>3, <2>4 DEF IsChallenge
<1>7. ASSUME NEW s \in Sids, Ends(i, s) PROVE DebtInv'
  <2>1. PICK sess \in TSessions, st \in {"failed", "success"}, rsp \in {AccessAccept, AccessReject} :
            Conclude(i, s, sess, st, rsp)
    BY <1>7 DEF Ends, Fail
  <2>2. (\A t \in Sids : t # s => aaa'[t] = aaa[t]) /\ Answer(i, rsp)
    BY <1>0, <2>1 DEF Conclude
  <2>3. aaa[s].status = "listed"
    BY <1>7 DEF Ends, Matches
  <2>. QED  BY <1>2, <1>3, <2>2, <2>3
<1>. QED  BY <1>1, <1>4, <1>5, <1>6, <1>7 DEF AaaActs

LEMMA DebtStep ==
    ASSUME TypeInv, LockInv, PaidInv, Counted, Counted', DebtInv, [Next]_vars
    PROVE  DebtInv'
<1>1. ASSUME UNCHANGED <<smfVars, relayVars, relayLinkVars, radiusVars, aaaVars>>, faults' \in {faults, faults + 1}
      PROVE  DebtInv'
  BY <1>1, DebtFrame DEF smfVars, aaaVars, SameHeld
<1>2. CASE UeStep \/ UNCHANGED vars
  BY <1>1, <1>2 DEF UeStep, vars
<1>3. CASE SmfStep \/ RanStep \/ AaaStep
  BY <1>3, DebtSmf, DebtAaa
<1>4. CASE RelayStep
  BY <1>4, DebtRead, DebtRelay DEF RelayStep, RelayNext, RelayForward, RelayTimeout
<1>5. CASE TimeoutStep
  BY <1>5, DebtSmfGivesUp, DebtRelay DEF TimeoutStep, RelayGivesUp
<1>6. CASE FaultStep
  <2>0. faults' = faults + 1
    BY <1>6 DEF FaultStep
  <2>1. CASE SmfGivesUp \/ RelayGivesUp
    BY <2>0, <2>1, DebtSmfGivesUp, DebtRelay DEF RelayGivesUp, TypeInv
  <2>2. CASE LoseCommand /\ UNCHANGED <<ueVars, smfVars, relayVars, aaaVars, relayLinkVars, radiusVars>>
    BY <1>1, <2>0, <2>2
  <2>3. CASE LoseRelayRequest /\ UNCHANGED <<ueVars, smfVars, relayVars, aaaVars, n1Vars, radiusVars>>
    BY <2>0, <2>3, DebtLose DEF LoseRelayRequest, radiusVars
  <2>4. CASE LoseAccessRequest /\ UNCHANGED <<ueVars, smfVars, relayVars, aaaVars, n1Vars, relayLinkVars>>
    BY <2>0, <2>4, DebtLose DEF LoseAccessRequest, relayLinkVars
  <2>5. ASSUME NEW s \in Sids, Expire(s), UNCHANGED <<ueVars, smfVars, relayVars, n1Vars, relayLinkVars>>
        PROVE  DebtInv'
    <3>1. \A t \in Sids : aaa'[t].status = "listed" => aaa[t].status = "listed"
      BY <2>5 DEF Expire, TypeInv, AaaTyped, TSessions
    <3>. QED  BY <2>0, <2>5, <3>1, DebtFrame DEF Expire, smfVars, SameHeld
  <2>. QED  BY <1>6, <2>1, <2>2, <2>3, <2>4, <2>5 DEF FaultStep
<1>. QED  BY <1>2, <1>3, <1>4, <1>5, <1>6 DEF Next

(* The orphans are owed, or named by the answer under way. *)
LEMMA OrphansAreOwed == TypeInv /\ LockInv /\ PaidInv /\ Counted /\ DebtInv => OrphansArePaidFor
<1>. SUFFICES ASSUME TypeInv, LockInv, PaidInv, Counted, DebtInv PROVE OrphansArePaidFor
  OBVIOUS
<1>1. \A s \in Orphans : s \in Sids /\ aaa[s].status = "listed" /\ \A p \in Psis : ~Holds(p, s)
  BY DEF Orphans, Holds, PaidInv, RestInv
<1>2. \A s \in Orphans : s \in Owed \/ Named(s)
  BY <1>1 DEF Owed, Keeps
<1>3. smfWait = NoPsi => \A s : ~Named(s)
  BY DEF LockInv, SocketInv, Named, Names, IsChallenge
<1>4. \E x : \A s : Named(s) => s = x
  BY DEF LockInv, SocketInv, Named, Names, IsChallenge
<1>5. CASE smfWait = NoPsi
  <2>1. Orphans \subseteq Owed
    BY <1>2, <1>3, <1>5
  <2>2. IsFiniteSet(Orphans) /\ Cardinality(Orphans) <= Cardinality(Owed)
    BY <2>1, FS_Subset DEF Counted
  <2>3. Cardinality(Orphans) \in Nat
    BY <2>2, FS_CardinalityType
  <2>. QED  BY <1>5, <2>2, <2>3 DEF Counted, DebtInv, OrphansArePaidFor, TypeInv
<1>6. CASE smfWait # NoPsi
  <2>1. PICK x : \A s : Named(s) => s = x
    BY <1>4
  <2>2. Orphans \subseteq Owed \cup {x}
    BY <1>2, <2>1
  <2>3. Cardinality(Orphans) <= Cardinality(Owed) + 1
    BY <2>2, OneMore DEF Counted
  <2>4. IsFiniteSet(Owed \cup {x})
    BY FS_AddElement DEF Counted
  <2>5. Cardinality(Orphans) \in Nat
    BY <2>2, <2>4, FS_Subset, FS_CardinalityType
  <2>. QED  BY <1>6, <2>3, <2>5 DEF Counted, DebtInv, OrphansArePaidFor, TypeInv
<1>. QED  BY <1>5, <1>6

(* The debt is an invariant: every session left in the table that nobody will
   continue, and every identity that will still make one for a requester that has
   gone, stands for a fault of its own. *)
THEOREM DebtInductive ==
    /\ Init => PaidInv /\ DebtInv
    /\ TypeInv /\ TurnInv /\ LockInv /\ CurrentInv /\ PaidInv /\ DebtInv /\ [Next]_vars => PaidInv'
    /\ TypeInv /\ TypeInv' /\ LockInv /\ PaidInv /\ DebtInv /\ [Next]_vars => DebtInv'
<1>1. ASSUME Init PROVE PaidInv /\ DebtInv
  <2>1. /\ relayReq = << >> /\ radiusReq = << >> /\ relayRsp = NoRsp /\ radiusRsp = NoRsp /\ relayCur = "idle"
        /\ (\A p \in Psis : smf[p].state = NoState) /\ (\A s \in Sids : aaa[s].status # "listed") /\ faults = 0
    BY <1>1 DEF Init, RelayLinkInit, RadiusInit, RelayInit, SmfInit, AaaInit, NoSession
  <2>2. PaidInv
    BY <2>1 DEF PaidInv, AsksInv, SettlesInv, Settles, RestInv
  <2>3. Owed = {} /\ StaleRelay = {} /\ StaleRadius = {}
    BY <2>1 DEF Owed, StaleRelay, StaleRadius
  <2>. QED  BY <2>1, <2>2, <2>3, FS_EmptySet DEF DebtInv
<1>2. (TypeInv => Counted)'
  BY CountedAlways, PTL
<1>. QED  BY <1>1, <1>2, CountedAlways, PaidStep, DebtStep

(* Failures and rejects leave no session behind at the DN-AAA: the ones that wait
   for a packet nobody will send are each owed to a timeout, a loss or an expiry,
   however the exchanges of the PDU sessions follow one another. *)
THEOREM OrphansArePaidForAlways == Spec => []OrphansArePaidFor
<1>. DEFINE Inv == TypeInv /\ TurnInv /\ LockInv /\ CurrentInv /\ PaidInv /\ DebtInv
<1>1. Init => Inv
  BY TypesInductive, TurnsInductive, LockInductive, CurrentInductive, DebtInductive
<1>2. Inv /\ [Next]_vars => Inv'
  BY TypesInductive, TurnsInductive, LockInductive, CurrentInductive, DebtInductive
<1>3. Inv => OrphansArePaidFor
  BY CountedAlways, OrphansAreOwed
<1>. QED  BY <1>1, <1>2, <1>3, PTL DEF Spec
=============================================================================
