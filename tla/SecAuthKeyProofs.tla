-------------------------- MODULE SecAuthKeyProofs --------------------------
(***************************************************************************)
(* Why the DN-AAA accepts only keys that the UE has confirmed, although    *)
(* the UE has one context and one pair of buffers for all PDU sessions and *)
(* the DN-AAA takes any empty wire for the final acknowledgement.  The     *)
(* acknowledgement of a message_4 must come from a UE that has read it, so *)
(* the UE must not finish a later attempt while a packet of an earlier one *)
(* is under way.  With that, every step of the system is a step of the     *)
(* authentication service, or none.                                        *)
(***************************************************************************)
EXTENDS SecAuthProofs

-----------------------------------------------------------------------------
(* Why an accepted key is a confirmed one.  The packets under way, each with the
   State it travels under: from the UE to the DN-AAA, and back. *)
Answering(p, w) == \E i \in Answers(p) : nasUl[i].kind = "complete" /\ w = nasUl[i].eap.wire

Queued(queue, st, w) ==
    \E i \in DOMAIN queue : queue[i].eap.kind = "edhoc" /\ st = queue[i].state /\ w = queue[i].eap.wire

Passed(st, w) == Queued(relayReq, st, w) \/ Queued(radiusReq, st, w)

Up(st, w) == Passed(st, w) \/ \E p \in Psis : st = smf[p].state /\ Answering(p, w)

Commanded(p, w) == \E i \in Commands(p) : w = nasDl[i].eap.wire

Challenged(rsp, st, w) == IsChallenge(rsp) /\ st = rsp.state /\ w = rsp.eap.wire

Down(st, w) ==
    \/ \E p \in Psis : st = smf[p].state /\ Commanded(p, w)
    \/ Challenged(relayRsp, st, w) \/ Challenged(radiusRsp, st, w)

(* The bytes belong to the attempt with ephemeral key e. *)
Mentions(data, e) == data.msg \notin {NoMsg, Junk} /\ data.msg.eph = e

(* Where a message comes from: the UE makes message_3 only with its key, the
   DN-AAA messages 2 and 4 only for the session they name. *)
FromUe(m) ==
    m \notin {NoMsg, Junk} =>
        m.eph <= ueEph /\ (m.type = "msg1" \/ (m.type = "msg3" /\ <<m.eph, m.sid>> \in ueKeys))

FromAaa(m) ==
    m \notin {NoMsg, Junk} =>
        /\ m.type \in {"msg2", "msg4"}
        /\ aaa[m.sid].round # 0 /\ aaa[m.sid].ctx.eph = m.eph
        /\ m.type = "msg4" => aaa[m.sid].ctx.done

OriginInv ==
    /\ \A st, w : Up(st, w) => FromUe(w.data.msg)
    /\ \A s \in Sids : FromUe(aaa[s].in.data.msg)
    /\ FromUe(ueOut.msg)
    /\ \A st, w : Down(st, w) => FromAaa(w.data.msg)
    /\ \A s \in Sids : FromAaa(aaa[s].out.msg)
    /\ FromAaa(ueIn.data.msg)

(* A DN-AAA session, and the keys the UE has derived with it. *)
SessionOf(s) ==
    /\ aaa[s].trip = 0 => aaa[s].round = 0
    /\ aaa[s].round = 0 => aaa[s].ctx = NoCtx
    /\ aaa[s].round # 0 => aaa[s].mode = 4 /\ aaa[s].ctx.sid = s /\ aaa[s].ctx.eph <= ueEph
    /\ aaa[s].ctx.done => aaa[s].round = 2
    /\ aaa[s].round = 2 => Msk(aaa[s].ctx) \in ueKeys
    /\ aaa[s].round = 2 /\ Pending(aaa[s].out) => aaa[s].out.msg = EdhocMsg("msg4", aaa[s].ctx.eph, s)
    /\ s >= aaaNext => aaa[s].round = 0
    /\ aaa[s].status = "success" => Msk(aaa[s].ctx) \in ueConfirmed

KeysInv == \A k \in ueKeys : aaa[k[2]].round # 0 /\ aaa[k[2]].ctx.eph = k[1]

AttemptInv ==
    /\ ueCtx.eph <= ueEph
    /\ ueRound = 1 =>
           /\ ueEph > 0 /\ ueCtx.eph = ueEph
           /\ ueOut.msg = EdhocMsg("msg1", ueEph, 0) /\ ueOut.len = Msg1Len /\ ueOut.pos > 0
    /\ ueRound = 3 => Msk(ueCtx) \in ueConfirmed /\ aaa[ueCtx.sid].ctx.done

(* Only the part of message_1 that was sent is anywhere, so nobody has the whole
   before its last fragment is out. *)
CoverInv ==
    ueRound = 1 =>
        /\ \A st, w : Up(st, w) /\ Mentions(w.data, ueEph) => w.data.off + w.data.len <= ueOut.pos
        /\ \A s \in Sids : Mentions(aaa[s].in.data, ueEph) => aaa[s].in.data.off + aaa[s].in.data.len <= ueOut.pos
        /\ Pending(ueOut) => \A s \in Sids : aaa[s].ctx.eph # ueEph

(* Session s has sent the last bytes of message_4: only an acknowledgement is
   missing, and whoever gives it has the message. *)
Final(s) == aaa[s].round = 2 /\ ~Pending(aaa[s].out) /\ aaa[s].in.len = 0

Due(st) ==
    st # NoState /\ aaa[st.sid].status = "listed" /\ aaa[st.sid].trip = st.trip /\ Final(st.sid)

TripInv ==
    \A st, w :
        (Up(st, w) \/ Down(st, w)) /\ st # NoState => st.sid < aaaNext /\ st.trip <= aaa[st.sid].trip

LastInv ==
    \A st, w :
        Down(st, w) =>
            /\ w.start => st # NoState /\ st.trip = 0
            /\ w.more => w.data.len > 0
            /\ Due(st) => /\ ~w.more /\ w.data.len > 0
                          /\ w.data.msg = EdhocMsg("msg4", aaa[st.sid].ctx.eph, st.sid)

AckInv ==
    \A st, w :
        Up(st, w) /\ Due(st) /\ ~w.more /\ w.data.len = 0 => Msk(aaa[st.sid].ctx) \in ueConfirmed

-----------------------------------------------------------------------------
(* An authentication of an earlier attempt: the UE has its key, has not seen
   message_4, and a packet of it is still under way. *)
Rides(p, s) ==
    \/ Holds(p, s) /\ (smfWait = p \/ Commands(p) # {} \/ \E w : Answering(p, w))
    \/ smfWait = p /\ Named(s)

Old(p, s) == Rides(p, s) /\ Msk(aaa[s].ctx) \in ueKeys \ ueConfirmed

(* The attempt under way has not come past the SMF; the packet of p reaches the
   UE before anything of that attempt comes back to it. *)
Clean ==
    /\ \A s \in Sids : aaa[s].ctx.eph # ueEph /\ ~Mentions(aaa[s].in.data, ueEph)
    /\ \A st, w : Passed(st, w) => ~Mentions(w.data, ueEph)

UlClear(i) ==
    \A j \in DOMAIN nasUl :
        j <= i /\ nasUl[j].kind = "complete" => ~Mentions(nasUl[j].eap.wire.data, ueEph)

DlClear(i) ==
    \A j \in DOMAIN nasDl :
        j <= i /\ nasDl[j].kind = "command" => ~Mentions(nasDl[j].eap.wire.data, ueEph)

Ahead(p) ==
    /\ smfWait = p => Clean
    /\ \A i \in Answers(p) : Clean /\ UlClear(i)
    /\ \A i \in Commands(p) : ~Mentions(ueIn.data, ueEph) /\ DlClear(i)

(* Foreign bytes in the UE's buffer: no message_2 will come out of it. *)
Polluted == ueIn.data.len > 0 /\ ~Mentions(ueIn.data, ueEph)

(* The fragment of message_1 at offset a went to a session that is past its first
   round: nobody will ever have the whole. *)
SpoiledAt(a) ==
    /\ a > 0 /\ a < Msg1Len /\ a < ueOut.pos
    /\ \A s \in Sids :
           /\ aaa[s].ctx.eph # ueEph
           /\ aaa[s].round = 0 /\ Mentions(aaa[s].in.data, ueEph) /\ aaa[s].in.data.off = 0 => aaa[s].in.data.len <= a
    /\ \A st, w :
           Up(st, w) /\ Mentions(w.data, ueEph) =>
               \/ w.data.off + w.data.len <= a \/ w.data.off > a
               \/ st # NoState /\ aaa[st.sid].round # 0

Spoiled == \E a \in 0..MaxMsg : SpoiledAt(a)

(* The UE finishes no attempt while an earlier one is under way. *)
OrderInv ==
    /\ ueRound \in {2, 3} =>
           \A p \in Psis, s \in Sids : Old(p, s) => Msk(aaa[s].ctx) = Msk(ueCtx)
    /\ ueRound = 1 =>
           Polluted \/ Spoiled \/ \A p \in Psis, s \in Sids : Old(p, s) => Ahead(p)

SessionsInv == \A s \in Sids : SessionOf(s)

KeyInv ==
    /\ OriginInv /\ SessionsInv /\ KeysInv /\ AttemptInv /\ CoverInv
    /\ TripInv /\ LastInv /\ AckInv /\ OrderInv

-----------------------------------------------------------------------------
(* A step that only passes packets on: nothing new is under way, and no packet
   overtakes another. *)
Order == \A p \in Psis, s \in Sids : Rides(p, s)' => Rides(p, s) /\ (Ahead(p) => Ahead(p)')

Calm ==
    /\ \A st, w : Up(st, w)' => Up(st, w)
    /\ \A st, w : Down(st, w)' => Down(st, w)
    /\ Order

LEMMA ItemsTyped ==
    ASSUME TypeInv, NEW st, NEW w, Up(st, w) \/ Down(st, w)
    PROVE  w \in TWires /\ st \in TStates \cup {NoState}
<1>0. /\ \A p \in Psis : smf[p].state \in TStates \cup {NoState}
      /\ nasUl \in Seq(UlMsgs) /\ nasDl \in Seq(DlMsgs)
      /\ relayReq \in Seq(TRequests) /\ radiusReq \in Seq(TRequests)
      /\ relayRsp \in TResponses /\ radiusRsp \in TResponses
  BY DEF TypeInv, SmfTyped, SmfType, N1Typed, RelayTyped, RadiusTyped
<1>1. ASSUME NEW p \in Psis, Answering(p, w) PROVE w \in TWires
  BY <1>0, <1>1 DEF Answering, Answers, UlMsgs, TPackets
<1>2. ASSUME NEW p \in Psis, Commanded(p, w) PROVE w \in TWires
  <2>1. PICK i \in DOMAIN nasDl : nasDl[i].kind = "command" /\ w = nasDl[i].eap.wire
    BY <1>2 DEF Commanded, Commands
  <2>2. nasDl[i] \in DlMsgs
    BY <1>0
  <2>. QED  BY <2>1, <2>2 DEF DlMsgs, TPackets
<1>3. ASSUME NEW q \in Seq(TRequests), Queued(q, st, w) PROVE w \in TWires /\ st \in TStates \cup {NoState}
  <2>1. PICK i \in DOMAIN q : q[i].eap.kind = "edhoc" /\ st = q[i].state /\ w = q[i].eap.wire
    BY <1>3 DEF Queued
  <2>2. q[i] \in TRequests /\ Identity(1).kind # "edhoc"
    BY DEF Identity
  <2>. QED  BY <2>1, <2>2 DEF TRequests, TPackets
<1>4. ASSUME NEW rsp \in TResponses, Challenged(rsp, st, w) PROVE w \in TWires /\ st \in TStates \cup {NoState}
  BY <1>4 DEF Challenged, IsChallenge, TResponses, TPackets
<1>. QED  BY <1>0, <1>1, <1>2, <1>3, <1>4 DEF Up, Down, Passed

(* The request queues. *)
LEMMA QueuedMoves ==
    ASSUME NEW q \in Seq(TRequests), NEW st, NEW w
    PROVE  /\ q # << >> /\ Queued(Tail(q), st, w) => Queued(q, st, w)
           /\ Queued(Closed(q), st, w) => Queued(q, st, w)
           /\ \A i \in DOMAIN q : Queued(RemoveAt(q, i), st, w) => Queued(q, st, w)
           /\ \A m \in TRequests :
                  Queued(Append(q, m), st, w) =>
                      Queued(q, st, w) \/ (m.eap.kind = "edhoc" /\ st = m.state /\ w = m.eap.wire)
<1>0. ASSUME NEW r, NEW g, Without(r, q, g), Queued(r, st, w) PROVE Queued(q, st, w)
  BY <1>0 DEF Without, Queued
<1>1. q # << >> /\ Queued(Tail(q), st, w) => Queued(q, st, w)
  BY <1>0, TailWithout
<1>2. \A i \in DOMAIN q : Queued(RemoveAt(q, i), st, w) => Queued(q, st, w)
  BY <1>0, RemoveWithout
<1>3. ASSUME Queued(Closed(q), st, w) PROVE Queued(q, st, w)
  <2>1. DOMAIN Closed(q) = DOMAIN q /\ DOMAIN q = 1..Len(q)
    BY ClosedDomain
  <2>2. \A i \in DOMAIN q : Closed(q)[i].state = q[i].state /\ Closed(q)[i].eap = q[i].eap
    BY <2>1, ClosedFacts
  <2>. QED  BY <1>3, <2>1, <2>2 DEF Queued
<1>4. ASSUME NEW m \in TRequests, Queued(Append(q, m), st, w)
      PROVE  Queued(q, st, w) \/ (m.eap.kind = "edhoc" /\ st = m.state /\ w = m.eap.wire)
  BY <1>4, AppendDomain DEF Queued
<1>. QED  BY <1>1, <1>2, <1>3, <1>4

(* What is in front of a message, when the head is taken and when another
   message is put at the end. *)
LEMMA ClearMoves ==
    ASSUME N1Typed, NEW i \in Nat, ueEph' = ueEph
    PROVE  /\ nasUl # << >> /\ nasUl' = Tail(nasUl) /\ UlClear(i + 1) => UlClear(i)'
           /\ nasDl # << >> /\ nasDl' = Tail(nasDl) /\ DlClear(i + 1) => DlClear(i)'
           /\ \A m \in UlMsgs : i <= Len(nasUl) /\ nasUl' = Append(nasUl, m) /\ UlClear(i) => UlClear(i)'
           /\ \A m \in DlMsgs : i <= Len(nasDl) /\ nasDl' = Append(nasDl, m) /\ DlClear(i) => DlClear(i)'
           /\ nasUl' = nasUl /\ UlClear(i) => UlClear(i)'
           /\ nasDl' = nasDl /\ DlClear(i) => DlClear(i)'
<1>0. nasUl \in Seq(UlMsgs) /\ nasDl \in Seq(DlMsgs) /\ DOMAIN nasUl = 1..Len(nasUl) /\ DOMAIN nasDl = 1..Len(nasDl)
      /\ Len(nasUl) \in Nat /\ Len(nasDl) \in Nat
  BY DEF N1Typed
<1>1. ASSUME NEW S, NEW q \in Seq(S), q # << >>, NEW j \in DOMAIN Tail(q)
      PROVE  j \in Nat /\ j + 1 \in DOMAIN q /\ Tail(q)[j] = q[j + 1]
  <2>1. Tail(q) \in Seq(S) /\ Len(Tail(q)) = Len(q) - 1 /\ Len(q) \in Nat
    BY <1>1, TailFacts
  <2>2. j \in 1..(Len(q) - 1) /\ DOMAIN q = 1..Len(q)
    BY <2>1
  <2>. QED  BY <1>1, <2>1, <2>2, TailFacts
<1>2. ASSUME NEW S, NEW q \in Seq(S), NEW m \in S, NEW j \in DOMAIN Append(q, m), i <= Len(q), j <= i
      PROVE  j \in DOMAIN q /\ Append(q, m)[j] = q[j]
  <2>1. Append(q, m) \in Seq(S) /\ Len(Append(q, m)) = Len(q) + 1 /\ Len(q) \in Nat
        /\ \A k \in 1..Len(q) : Append(q, m)[k] = q[k]
    BY AppendFacts
  <2>2. DOMAIN q = 1..Len(q) /\ j \in 1..(Len(q) + 1)
    BY <2>1
  <2>. QED  BY <1>2, <2>1, <2>2
<1>3. ASSUME nasUl # << >>, nasUl' = Tail(nasUl), UlClear(i + 1) PROVE UlClear(i)'
  <2>1. \A j \in DOMAIN nasUl' : j \in Nat /\ j + 1 \in DOMAIN nasUl /\ nasUl'[j] = nasUl[j + 1]
    BY <1>0, <1>1, <1>3
  <2>2. \A j \in DOMAIN nasUl' : j <= i => j + 1 <= i + 1
    BY <2>1
  <2>. QED  BY <1>3, <2>1, <2>2 DEF UlClear
<1>4. ASSUME nasDl # << >>, nasDl' = Tail(nasDl), DlClear(i + 1) PROVE DlClear(i)'
  <2>1. \A j \in DOMAIN nasDl' : j \in Nat /\ j + 1 \in DOMAIN nasDl /\ nasDl'[j] = nasDl[j + 1]
    BY <1>0, <1>1, <1>4
  <2>2. \A j \in DOMAIN nasDl' : j <= i => j + 1 <= i + 1
    BY <2>1
  <2>. QED  BY <1>4, <2>1, <2>2 DEF DlClear
<1>5. ASSUME NEW m \in UlMsgs, i <= Len(nasUl), nasUl' = Append(nasUl, m), UlClear(i) PROVE UlClear(i)'
  <2>1. \A j \in DOMAIN nasUl' : j <= i => j \in DOMAIN nasUl /\ nasUl'[j] = nasUl[j]
    BY <1>0, <1>2, <1>5
  <2>. QED  BY <1>5, <2>1 DEF UlClear
<1>6. ASSUME NEW m \in DlMsgs, i <= Len(nasDl), nasDl' = Append(nasDl, m), DlClear(i) PROVE DlClear(i)'
  <2>1. \A j \in DOMAIN nasDl' : j <= i => j \in DOMAIN nasDl /\ nasDl'[j] = nasDl[j]
    BY <1>0, <1>2, <1>6
  <2>. QED  BY <1>6, <2>1 DEF DlClear
<1>7. (nasUl' = nasUl /\ UlClear(i) => UlClear(i)') /\ (nasDl' = nasDl /\ DlClear(i) => DlClear(i)')
  BY DEF UlClear, DlClear
<1>. QED  BY <1>3, <1>4, <1>5, <1>6, <1>7

LEMMA IndexTyped ==
    ASSUME N1Typed, NEW p
    PROVE  /\ \A i \in Answers(p) : i \in Nat /\ i >= 1 /\ i <= Len(nasUl) /\ i \in DOMAIN nasUl
           /\ \A i \in Commands(p) : i \in Nat /\ i >= 1 /\ i <= Len(nasDl) /\ i \in DOMAIN nasDl
           /\ Len(nasUl) \in Nat /\ Len(nasDl) \in Nat
BY DEF N1Typed, Answers, Commands

(* What the ordering speaks of besides the queues. *)
SameEnds ==
    /\ ueEph' = ueEph /\ ueIn' = ueIn
    /\ \A s \in Sids : aaa'[s].ctx = aaa[s].ctx /\ aaa'[s].in = aaa[s].in

LEMMA CleanKept ==
    ASSUME SameEnds, \A st, w : Passed(st, w)' => Passed(st, w), Clean
    PROVE  Clean'
BY DEF SameEnds, Clean, Mentions

(* The N1 path and the SMF do nothing. *)
LEMMA CalmQueues ==
    ASSUME TypeInv, SameEnds, SameHeld, smfWait' = smfWait, UNCHANGED n1Vars,
           \A st, w : Passed(st, w)' => Passed(st, w),
           \A st, w : Challenged(relayRsp, st, w)' \/ Challenged(radiusRsp, st, w)' => Down(st, w),
           \A s : Named(s)' => Named(s)
    PROVE  Calm
<1>1. \A p : Commands(p)' = Commands(p) /\ Answers(p)' = Answers(p)
  BY DEF Commands, Answers, n1Vars
<1>2. \A p, w : (Answering(p, w)' <=> Answering(p, w)) /\ (Commanded(p, w)' <=> Commanded(p, w))
  BY <1>1 DEF Answering, Commanded, n1Vars
<1>3. \A st, w : Up(st, w)' => Up(st, w)
  BY <1>2 DEF Up, SameHeld
<1>4. \A st, w : Down(st, w)' => Down(st, w)
  BY <1>2 DEF Down, SameHeld
<1>5. ASSUME NEW p \in Psis, NEW s \in Sids, Rides(p, s)' PROVE Rides(p, s) /\ (Ahead(p) => Ahead(p)')
  <2>1. Holds(p, s)' = Holds(p, s)
    BY DEF Holds, SameHeld
  <2>2. Rides(p, s)
    BY <1>1, <1>2, <1>5, <2>1 DEF Rides
  <2>3. Clean => Clean'
    BY CleanKept
  <2>4. \A i : (UlClear(i) => UlClear(i)') /\ (DlClear(i) => DlClear(i)')
    BY DEF UlClear, DlClear, n1Vars, SameEnds
  <2>. QED  BY <1>1, <2>2, <2>3, <2>4 DEF Ahead, SameEnds
<1>. QED  BY <1>3, <1>4, <1>5 DEF Calm, Order

(* A session is started: an identity, which is no packet of the UE's. *)
LEMMA CalmStart ==
    ASSUME TypeInv, TurnInv, LockInv, SameEnds, NEW q \in Psis, smf_start_secondary_auth(q),
           UNCHANGED <<relayVars, radiusVars>>
    PROVE  Calm
<1>0. N1Typed /\ smf \in [Psis -> SmfType] /\ relayReq \in Seq(TRequests) /\ NoPsi \notin Psis
  BY SmfAssumption DEF TypeInv, SmfTyped, RelayTyped
<1>1. /\ smfWait = NoPsi /\ smfWait' = q /\ ~smf[q].inProgress /\ UNCHANGED n1Vars /\ relayRsp' = relayRsp
      /\ relayReq' = Append(relayReq, RelayRequest(NoState, Identity(1)))
  BY DEF smf_start_secondary_auth, Exchange
<1>2. smf'[q].state = NoState /\ \A p \in Psis : p # q => smf'[p] = smf[p]
  BY <1>0 DEF smf_start_secondary_auth, SmfType
<1>3. \A w : ~Answering(q, w) /\ ~Commanded(q, w)
  BY <1>1 DEF TurnInv, TurnOf, Answering, Commanded
<1>4. \A p : Commands(p)' = Commands(p) /\ Answers(p)' = Answers(p)
  BY <1>1 DEF Commands, Answers, n1Vars
<1>5. \A p, w : (Answering(p, w)' <=> Answering(p, w)) /\ (Commanded(p, w)' <=> Commanded(p, w))
  BY <1>1, <1>4 DEF Answering, Commanded, n1Vars
<1>6. \A st, w : Passed(st, w)' => Passed(st, w)
  <2>1. RelayRequest(NoState, Identity(1)) \in TRequests /\ RelayRequest(NoState, Identity(1)).eap.kind # "edhoc"
    BY DEF RelayRequest, Identity, TRequests
  <2>. QED  BY <1>0, <1>1, <2>1, QueuedMoves DEF Passed, radiusVars
<1>7. \A st, w : Up(st, w)' => Up(st, w)
  BY <1>2, <1>3, <1>5, <1>6 DEF Up
<1>8. \A st, w : Down(st, w)' => Down(st, w)
  BY <1>1, <1>2, <1>3, <1>5 DEF Down, Challenged, IsChallenge, radiusVars
<1>9. \A s : ~Named(s)'
  BY <1>1 DEF LockInv, SocketInv, Named, Names, IsChallenge, radiusVars, relayVars
<1>10. ASSUME NEW p \in Psis, NEW s \in Sids, Rides(p, s)' PROVE Rides(p, s) /\ (Ahead(p) => Ahead(p)')
  <2>1. p # q
    BY <1>2, <1>9, <1>10 DEF Rides, Holds
  <2>2. Rides(p, s)
    BY <1>1, <1>2, <1>4, <1>5, <1>9, <1>10, <2>1 DEF Rides, Holds
  <2>3. Clean => Clean'
    BY <1>6, CleanKept
  <2>4. \A i : (UlClear(i) => UlClear(i)') /\ (DlClear(i) => DlClear(i)')
    BY <1>1 DEF UlClear, DlClear, n1Vars, SameEnds
  <2>. QED  BY <1>1, <1>4, <2>1, <2>2, <2>3, <2>4 DEF Ahead, SameEnds
<1>. QED  BY <1>7, <1>8, <1>10 DEF Calm, Order

(* The SMF takes the next answer: a packet to pass on, or a 5GSM STATUS. *)
LEMMA CalmTaken ==
    ASSUME TypeInv, TurnInv, LockInv, SameEnds, NEW q \in Psis,
           smf_handle_secondary_auth_complete(q) \/ SmfUnknownMessage(q), UNCHANGED <<relayVars, radiusVars>>
    PROVE  Calm
<1>0. N1Typed /\ smf[q] \in SmfType /\ relayReq \in Seq(TRequests) /\ NoPsi \notin Psis
  BY SmfAssumption DEF TypeInv, SmfTyped, RelayTyped
<1>1. /\ nasUl # << >> /\ nasUl' = Tail(nasUl) /\ nasDl' = nasDl /\ smf' = smf /\ relayRsp' = relayRsp /\ smfWait = NoPsi
      /\ Head(nasUl).psi = q
  BY DEF smf_handle_secondary_auth_complete, SmfUnknownMessage, Waiting, smfVars, relayLinkVars, Exchange
<1>. DEFINE h == Head(nasUl)
<1>2. h \in UlMsgs /\ h = nasUl[1] /\ 1 \in DOMAIN nasUl
  <2>1. nasUl \in Seq(UlMsgs)
    BY <1>0 DEF N1Typed
  <2>. QED  BY <1>1, <2>1, TailFacts
<1>3. /\ \A p \in Psis : /\ \A i \in Answers(p)' : i + 1 \in Answers(p) /\ nasUl'[i] = nasUl[i + 1]
                         /\ 1 \in Answers(p) <=> h.psi = p
      /\ \A p \in Psis : Commands(p)' = Commands(p)
  BY <1>0, <1>1, PopUl DEF Commands
<1>4. \A p \in Psis : \A w : (Answering(p, w)' => Answering(p, w)) /\ (Commanded(p, w)' <=> Commanded(p, w))
  <2>. SUFFICES ASSUME NEW p \in Psis, NEW w
                PROVE  (Answering(p, w)' => Answering(p, w)) /\ (Commanded(p, w)' <=> Commanded(p, w))
    OBVIOUS
  <2>1. ASSUME Answering(p, w)' PROVE Answering(p, w)
    <3>1. PICK i \in Answers(p)' : nasUl'[i].kind = "complete" /\ w = nasUl'[i].eap.wire
      BY <2>1 DEF Answering
    <3>. QED  BY <1>3, <3>1 DEF Answering
  <2>2. Commanded(p, w)' <=> Commanded(p, w)
    BY <1>1, <1>3 DEF Commanded
  <2>. QED  BY <2>1, <2>2
<1>5. \/ relayReq' = relayReq /\ smfWait' = NoPsi
      \/ /\ relayReq' = Append(relayReq, RelayRequest(smf[q].state, h.eap)) /\ smfWait' = q
         /\ h.kind = "complete" /\ RelayRequest(smf[q].state, h.eap) \in TRequests
  <2>1. CASE SmfUnknownMessage(q)
    BY <1>1, <2>1 DEF SmfUnknownMessage, smfVars, relayLinkVars
  <2>2. CASE smf_handle_secondary_auth_complete(q)
    <3>1. h.kind = "complete"
      BY <2>2 DEF smf_handle_secondary_auth_complete, Waiting
    <3>2. h.eap \in TPackets
      BY <1>2, <3>1 DEF UlMsgs
    <3>3. RelayRequest(smf[q].state, h.eap) \in TRequests
      BY <1>0, <3>2 DEF RelayRequest, TRequests, SmfType
    <3>. QED  BY <2>2, <3>1, <3>3 DEF smf_handle_secondary_auth_complete, Exchange
  <2>. QED  BY <2>1, <2>2
<1>6. \A st, w : Passed(st, w)' =>
          Passed(st, w) \/ (smfWait' = q /\ st = smf[q].state /\ w = h.eap.wire /\ h.kind = "complete")
  <2>1. CASE relayReq' = relayReq
    BY <2>1 DEF Passed, radiusVars
  <2>2. CASE relayReq' # relayReq
    <3>. DEFINE m == RelayRequest(smf[q].state, h.eap)
    <3>1. m.state = smf[q].state /\ m.eap = h.eap
      BY DEF RelayRequest
    <3>2. m \in TRequests /\ relayReq' = Append(relayReq, m) /\ smfWait' = q /\ h.kind = "complete"
      BY <1>5, <2>2
    <3>. HIDE DEF m
    <3>3. \A st, w : Queued(Append(relayReq, m), st, w) =>
              Queued(relayReq, st, w) \/ (st = m.state /\ w = m.eap.wire)
      BY <1>0, <3>2, QueuedMoves
    <3>4. \A st, w : Queued(relayReq, st, w)' => Queued(relayReq, st, w) \/ (st = m.state /\ w = m.eap.wire)
      BY <3>2, <3>3 DEF Queued
    <3>. QED  BY <3>1, <3>2, <3>4 DEF Passed, Queued, radiusVars
  <2>. QED  BY <2>1, <2>2
<1>7. h.kind = "complete" => Answering(q, h.eap.wire)
  BY <1>1, <1>2, <1>3 DEF Answering
<1>8. \A st, w : Up(st, w)' => Up(st, w)
  BY <1>1, <1>4, <1>6, <1>7 DEF Up
<1>9. \A st, w : Down(st, w)' => Down(st, w)
  BY <1>1, <1>4 DEF Down, Challenged, IsChallenge, radiusVars
<1>10. \A s : ~Named(s)'
  BY <1>1 DEF LockInv, SocketInv, Named, Names, IsChallenge, radiusVars, relayVars
<1>11. ASSUME NEW p \in Psis, NEW s \in Sids, Rides(p, s)' PROVE Rides(p, s) /\ (Ahead(p) => Ahead(p)')
  <2>1. Rides(p, s)
    <3>1. Holds(p, s)
      BY <1>1, <1>10, <1>11 DEF Rides, Holds
    <3>2. smfWait' = p => h.kind = "complete" /\ p = q
      BY <1>0, <1>5
    <3>. QED  BY <1>3, <1>4, <1>7, <1>10, <1>11, <3>1, <3>2 DEF Rides
  <2>2. ASSUME Ahead(p) PROVE Ahead(p)'
    <3>1. ASSUME NEW i \in Answers(p), Clean, UlClear(i) PROVE Clean'
      <4>1. i \in Nat /\ i >= 1
        BY <1>0, <3>1, IndexTyped
      <4>2. h.kind = "complete" => ~Mentions(h.eap.wire.data, ueEph)
        BY <1>2, <3>1, <4>1 DEF UlClear
      <4>3. \A st, w : Passed(st, w)' => ~Mentions(w.data, ueEph)
        BY <1>6, <3>1, <4>2 DEF Clean
      <4>. QED  BY <3>1, <4>3 DEF Clean, SameEnds, Mentions
    <3>2. ASSUME smfWait' = p PROVE Clean'
      <4>1. p = q /\ 1 \in Answers(p)
        BY <1>0, <1>1, <1>3, <1>5, <3>2
      <4>. QED  BY <2>2, <3>1, <4>1 DEF Ahead
    <3>3. ASSUME NEW i \in Answers(p)' PROVE Clean' /\ UlClear(i)'
      <4>1. i + 1 \in Answers(p) /\ i \in Nat
        <5>1. i \in DOMAIN nasUl' /\ nasUl' \in Seq(UlMsgs)
          <6>1. nasUl \in Seq(UlMsgs)
            BY <1>0 DEF N1Typed
          <6>. QED  BY <1>1, <6>1, TailFacts DEF Answers
        <5>2. i \in Nat
          BY <5>1
        <5>. QED  BY <1>3, <5>2
      <4>2. Clean /\ UlClear(i + 1)
        BY <2>2, <4>1 DEF Ahead
      <4>3. Clean'
        BY <3>1, <4>1, <4>2
      <4>. QED  BY <1>0, <1>1, <4>1, <4>2, <4>3, ClearMoves DEF SameEnds
    <3>4. ASSUME NEW i \in Commands(p)' PROVE ~Mentions(ueIn.data, ueEph)' /\ DlClear(i)'
      <4>1. i \in Commands(p) /\ i \in Nat
        BY <1>0, <1>3, IndexTyped
      <4>. QED  BY <1>0, <1>1, <2>2, <4>1, ClearMoves DEF Ahead, SameEnds, Mentions
    <3>. QED  BY <3>2, <3>3, <3>4 DEF Ahead
  <2>. QED  BY <2>1, <2>2
<1>. QED  BY <1>8, <1>9, <1>11 DEF Calm, Order

(* What the DN-AAA has not seen, no packet from it is about. *)
LEMMA CleanDown ==
    ASSUME TypeInv, OriginInv, Clean
    PROVE  /\ \A st, w : Down(st, w) => ~Mentions(w.data, ueEph)
           /\ ~Mentions(ueIn.data, ueEph)
<1>1. ASSUME NEW d \in TRuns, FromAaa(d.msg) PROVE ~Mentions(d, ueEph)
  <2>1. ASSUME Mentions(d, ueEph) PROVE FALSE
    <3>1. d.msg \in TMsgs /\ d.msg \notin {NoMsg, Junk} /\ d.msg.eph = ueEph
      BY <2>1 DEF Mentions, TRuns
    <3>2. d.msg.type \in {"msg2", "msg4"} /\ aaa[d.msg.sid].ctx.eph = d.msg.eph
      BY <1>1, <3>1 DEF FromAaa
    <3>3. d.msg.sid \in Sids
      BY <3>1, <3>2 DEF TMsgs, FirstTypes
    <3>. QED  BY <3>1, <3>2, <3>3 DEF Clean
  <2>. QED  BY <2>1
<1>2. ASSUME NEW st, NEW w, Down(st, w) PROVE ~Mentions(w.data, ueEph)
  <2>1. w \in TWires
    BY <1>2, ItemsTyped
  <2>2. w.data \in TRuns /\ FromAaa(w.data.msg)
    BY <1>2, <2>1 DEF TWires, OriginInv
  <2>. QED  BY <1>1, <2>2
<1>3. ueIn.data \in TRuns /\ FromAaa(ueIn.data.msg)
  BY DEF TypeInv, UeTyped, TIns, OriginInv
<1>. QED  BY <1>1, <1>2, <1>3

LEMMA CalmChallenge ==
    ASSUME TypeInv, TurnInv, LockInv, OriginInv, SameEnds, NEW q \in Psis, SmfChallenge(q),
           UNCHANGED <<relayVars, radiusVars>>
    PROVE  Calm
<1>0. N1Typed /\ smf \in [Psis -> SmfType] /\ NoPsi \notin Psis
  BY SmfAssumption DEF TypeInv, SmfTyped
<1>. DEFINE c == Command(q, relayRsp.eap)
<1>1. smfWait = q /\ smfWait' = NoPsi /\ nasUl' = nasUl /\ nasDl' = Append(nasDl, c)
      /\ IsChallenge(relayRsp) /\ relayRsp' = NoRsp /\ relayReq' = relayReq
  BY DEF SmfChallenge, IsChallenge
<1>2. c \in DlMsgs /\ c.psi = q /\ c.kind = "command" /\ c.eap = relayRsp.eap /\ relayRsp.state \in TStates
  BY DEF SmfChallenge, TypeInv, RelayTyped, TResponses, Command, DlMsgs
<1>3. smf'[q].state = relayRsp.state /\ \A p \in Psis : p # q => smf'[p] = smf[p]
  BY <1>0, <1>2 DEF SmfChallenge, SmfType
<1>. HIDE DEF c
<1>4. ASSUME NEW p \in Psis
      PROVE  /\ Commands(p)' = IF q = p THEN Commands(p) \cup {Len(nasDl) + 1} ELSE Commands(p)
             /\ \A i \in Commands(p) : nasDl'[i] = nasDl[i]
             /\ nasDl'[Len(nasDl) + 1] = c
             /\ Answers(p)' = Answers(p)
  BY <1>0, <1>1, <1>2, PushDl DEF Answers
<1>5. Commands(q) = {} /\ Answers(q) = {}
  BY <1>1 DEF TurnInv, TurnOf
<1>6. ASSUME NEW p \in Psis, NEW w
      PROVE  /\ Answering(p, w)' <=> Answering(p, w)
             /\ p # q => (Commanded(p, w)' <=> Commanded(p, w))
             /\ Commanded(q, w)' => w = relayRsp.eap.wire
             /\ ~Answering(q, w)
  <2>1. (Answering(p, w)' <=> Answering(p, w)) /\ ~Answering(q, w)
    BY <1>1, <1>4, <1>5 DEF Answering
  <2>2. p # q => (Commanded(p, w)' <=> Commanded(p, w))
    BY <1>4 DEF Commanded
  <2>3. Commanded(q, w)' => w = relayRsp.eap.wire
    BY <1>2, <1>4, <1>5 DEF Commanded
  <2>. QED  BY <2>1, <2>2, <2>3
<1>7. \A st, w : Up(st, w)' => Up(st, w)
  <2>1. \A st, w : Passed(st, w)' => Passed(st, w)
    BY <1>1 DEF Passed, Queued, radiusVars
  <2>. QED  BY <1>3, <1>6, <2>1 DEF Up
<1>8. ASSUME NEW st, NEW w, Down(st, w)' PROVE Down(st, w)
  <2>1. CASE \E p \in Psis : st = smf'[p].state /\ Commanded(p, w)'
    <3>1. PICK p \in Psis : st = smf'[p].state /\ Commanded(p, w)'
      BY <2>1
    <3>. QED  BY <1>1, <1>3, <1>6, <3>1 DEF Down, Challenged
  <2>2. CASE Challenged(radiusRsp, st, w)'
    BY <2>2 DEF Down, Challenged, IsChallenge, radiusVars
  <2>. QED  BY <1>1, <1>8, <2>1, <2>2 DEF Down, Challenged, IsChallenge
<1>9. \A s : ~Named(s)'
  BY <1>1 DEF LockInv, SocketInv, Named, Names, IsChallenge, radiusVars, relayVars
<1>10. Clean => Clean'
  BY <1>1, CleanKept DEF Passed, Queued, radiusVars
<1>11. ASSUME NEW p \in Psis, NEW s \in Sids, Rides(p, s)' PROVE Rides(p, s) /\ (Ahead(p) => Ahead(p)')
  <2>1. CASE p = q
    <3>1. Rides(p, s)
      BY <1>1, <1>3, <1>9, <1>11, <2>1 DEF Rides, Holds, Named, Names
    <3>2. ASSUME Ahead(p) PROVE Ahead(p)'
      <4>1. Clean
        BY <1>1, <2>1, <3>2 DEF Ahead
      <4>2. ~Mentions(ueIn.data, ueEph) /\ \A st, w : Down(st, w) => ~Mentions(w.data, ueEph)
        BY <4>1, CleanDown
      <4>3. ASSUME NEW j \in DOMAIN nasDl', nasDl'[j].kind = "command"
            PROVE  ~Mentions(nasDl'[j].eap.wire.data, ueEph)
        <5>1. PICK r \in Psis : j \in Commands(r)'
          <6>1. nasDl' \in Seq(DlMsgs)
            BY <1>0, <1>1, <1>2, AppendFacts DEF N1Typed
          <6>2. nasDl'[j] \in DlMsgs
            BY <6>1
          <6>. QED  BY <4>3, <6>2 DEF Commands, DlMsgs
        <5>2. \A st, w : st = smf'[r].state /\ w = nasDl'[j].eap.wire => Down(st, w)'
          BY <5>1 DEF Down, Commanded
        <5>3. Down(smf'[r].state, nasDl'[j].eap.wire)
          BY <1>8, <5>2
        <5>. QED  BY <4>2, <5>3
      <4>4. \A i : DlClear(i)'
        BY <4>3 DEF DlClear, SameEnds
      <4>5. Answers(p)' = {} /\ smfWait' # p
        BY <1>0, <1>1, <1>4, <1>5, <2>1
      <4>. QED  BY <4>2, <4>4, <4>5 DEF Ahead, SameEnds, Mentions
    <3>. QED  BY <3>1, <3>2
  <2>2. CASE p # q
    <3>1. Rides(p, s)
      BY <1>0, <1>1, <1>3, <1>4, <1>6, <1>11, <2>2 DEF Rides, Holds
    <3>2. \A i \in Commands(p) : DlClear(i) => DlClear(i)'
      BY <1>0, <1>1, <1>2, IndexTyped, ClearMoves DEF SameEnds
    <3>3. \A i \in Answers(p) : UlClear(i) => UlClear(i)'
      BY <1>1 DEF UlClear, SameEnds
    <3>4. smfWait' # p /\ Commands(p)' = Commands(p) /\ Answers(p)' = Answers(p)
      BY <1>0, <1>1, <1>4, <2>2
    <3>. QED  BY <1>10, <3>1, <3>2, <3>3, <3>4 DEF Ahead, SameEnds, Mentions
  <2>. QED  BY <2>1, <2>2
<1>. QED  BY <1>7, <1>8, <1>11 DEF Calm, Order

LEMMA CalmFinish ==
    ASSUME TypeInv, TurnInv, LockInv, SameEnds, NEW q \in Psis, NEW v \in {"accept", "reject", "error"},
           SmfFinish(q, v), smfWait = q, relayReq' = relayReq \/ relayReq' = Closed(relayReq),
           relayRsp' = NoRsp, relayCur' # "open" \/ relayCur' = relayCur, radiusRsp' = radiusRsp,
           radiusReq' = radiusReq
    PROVE  Calm
<1>0. N1Typed /\ smf \in [Psis -> SmfType] /\ NoPsi \notin Psis /\ relayReq \in Seq(TRequests)
  BY SmfAssumption DEF TypeInv, SmfTyped, RelayTyped
<1>1. smfWait' = NoPsi /\ nasUl' = nasUl /\ nasDl' = Append(nasDl, Result(q, v))
  BY DEF SmfFinish
<1>2. Result(q, v) \in DlMsgs /\ Result(q, v).kind = "result"
  BY DEF Result, DlMsgs
<1>3. smf'[q].state = NoState /\ \A p \in Psis : p # q => smf'[p] = smf[p]
  BY <1>0 DEF SmfFinish, SmfType
<1>4. ASSUME NEW p \in Psis
      PROVE  /\ Commands(p)' = Commands(p) /\ \A i \in Commands(p) : nasDl'[i] = nasDl[i]
             /\ Answers(p)' = Answers(p)
  BY <1>0, <1>1, <1>2, PushDl DEF Answers
<1>5. Commands(q) = {} /\ Answers(q) = {}
  BY DEF TurnInv, TurnOf
<1>6. ASSUME NEW p \in Psis, NEW w
      PROVE  /\ (Answering(p, w)' <=> Answering(p, w)) /\ (Commanded(p, w)' <=> Commanded(p, w))
             /\ ~Answering(q, w) /\ ~Commanded(q, w)
  <2>1. (Answering(p, w)' <=> Answering(p, w)) /\ ~Answering(q, w)
    BY <1>1, <1>4, <1>5 DEF Answering
  <2>2. (Commanded(p, w)' <=> Commanded(p, w)) /\ ~Commanded(q, w)
    BY <1>4, <1>5 DEF Commanded
  <2>. QED  BY <2>1, <2>2
<1>7. \A st, w : Passed(st, w)' => Passed(st, w)
  <2>1. CASE relayReq' = relayReq
    BY <2>1 DEF Passed, Queued
  <2>2. CASE relayReq' = Closed(relayReq)
    <3>1. \A st, w : Queued(relayReq, st, w)' => Queued(Closed(relayReq), st, w)
      BY <2>2 DEF Queued
    <3>2. \A st, w : Queued(radiusReq, st, w)' => Queued(radiusReq, st, w)
      BY DEF Queued
    <3>. QED  BY <1>0, <3>1, <3>2, QueuedMoves DEF Passed
  <2>. QED  BY <2>1, <2>2
<1>8. \A st, w : Up(st, w)' => Up(st, w)
  BY <1>3, <1>6, <1>7 DEF Up
<1>9. \A st, w : Down(st, w)' => Down(st, w)
  BY <1>3, <1>6 DEF Down, Challenged, IsChallenge
<1>10. Clean => Clean'
  BY <1>7, CleanKept
<1>11. ASSUME NEW p \in Psis, NEW s \in Sids, Rides(p, s)' PROVE Rides(p, s) /\ (Ahead(p) => Ahead(p)')
  <2>1. p # q
    BY <1>0, <1>1, <1>3, <1>11 DEF Rides, Holds
  <2>2. Rides(p, s)
    BY <1>0, <1>1, <1>3, <1>4, <1>6, <1>11, <2>1 DEF Rides, Holds
  <2>3. \A i \in Commands(p) : DlClear(i) => DlClear(i)'
    BY <1>0, <1>1, <1>2, IndexTyped, ClearMoves DEF SameEnds
  <2>4. \A i \in Answers(p) : UlClear(i) => UlClear(i)'
    BY <1>1 DEF UlClear, SameEnds
  <2>5. smfWait' # p /\ Commands(p)' = Commands(p) /\ Answers(p)' = Answers(p)
    BY <1>0, <1>1, <1>4, <2>1
  <2>. QED  BY <1>10, <2>2, <2>3, <2>4, <2>5 DEF Ahead, SameEnds, Mentions
<1>. QED  BY <1>8, <1>9, <1>11 DEF Calm, Order

(* A command is gone before the UE has seen it, or the UE reads a result. *)
LEMMA CalmLose ==
    ASSUME TypeInv, SameEnds, LoseCommand \/ receivePduSessionAuthenticationResult, UNCHANGED <<smfVars, relayVars, relayLinkVars, radiusVars>>
    PROVE  Calm
<1>0. N1Typed /\ nasDl # << >> /\ nasDl' = Tail(nasDl) /\ nasUl' = nasUl /\ smf' = smf /\ smfWait' = smfWait
      /\ relayRsp' = relayRsp /\ relayReq' = relayReq /\ relayCur' = relayCur
      /\ radiusReq' = radiusReq /\ radiusRsp' = radiusRsp
  BY DEF TypeInv, LoseCommand, receivePduSessionAuthenticationResult, Waiting, smfVars, relayVars, relayLinkVars, radiusVars
<1>1. \A p \in Psis : /\ \A i \in Commands(p)' : i + 1 \in Commands(p) /\ nasDl'[i] = nasDl[i + 1]
                      /\ Answers(p)' = Answers(p)
  BY <1>0, PopDl DEF Answers
<1>2. ASSUME NEW p \in Psis, NEW w
      PROVE  (Answering(p, w)' <=> Answering(p, w)) /\ (Commanded(p, w)' => Commanded(p, w))
  <2>1. Answering(p, w)' <=> Answering(p, w)
    BY <1>0, <1>1 DEF Answering
  <2>2. ASSUME Commanded(p, w)' PROVE Commanded(p, w)
    <3>1. PICK i \in Commands(p)' : w = nasDl'[i].eap.wire
      BY <2>2 DEF Commanded
    <3>. QED  BY <1>1, <3>1 DEF Commanded
  <2>. QED  BY <2>1, <2>2
<1>3. \A st, w : Passed(st, w)' <=> Passed(st, w)
  BY <1>0 DEF Passed, Queued
<1>4. \A st, w : (Up(st, w)' => Up(st, w)) /\ (Down(st, w)' => Down(st, w))
  BY <1>0, <1>2, <1>3 DEF Up, Down, Challenged, IsChallenge
<1>5. Clean => Clean'
  BY <1>3, CleanKept
<1>6. \A s : Named(s)' <=> Named(s)
  BY <1>0 DEF Named, Names, IsChallenge
<1>7. ASSUME NEW p \in Psis, NEW s \in Sids, Rides(p, s)' PROVE Rides(p, s) /\ (Ahead(p) => Ahead(p)')
  <2>1. Rides(p, s)
    BY <1>0, <1>1, <1>2, <1>6, <1>7 DEF Rides, Holds
  <2>2. ASSUME Ahead(p), NEW i \in Commands(p)' PROVE DlClear(i)' /\ ~Mentions(ueIn.data, ueEph)'
    <3>1. i + 1 \in Commands(p)
      BY <1>1, <2>2
    <3>2. i \in Nat
      <4>1. nasDl' \in Seq(DlMsgs)
        BY <1>0, TailFacts DEF N1Typed
      <4>. QED  BY <2>2, <4>1 DEF Commands
    <3>. QED  BY <1>0, <2>2, <3>1, <3>2, ClearMoves DEF Ahead, SameEnds, Mentions
  <2>3. \A i \in Answers(p) : UlClear(i) => UlClear(i)'
    BY <1>0 DEF UlClear, SameEnds
  <2>. QED  BY <1>0, <1>1, <1>5, <2>1, <2>2, <2>3 DEF Ahead
<1>. QED  BY <1>4, <1>7 DEF Calm, Order

LEMMA CalmRelay ==
    ASSUME TypeInv, LockInv, SameEnds, RelayRead \/ RelayForward \/ RelayTimeout, UNCHANGED <<smfVars, n1Vars>>
    PROVE  Calm
<1>0. /\ relayReq \in Seq(TRequests) /\ radiusReq \in Seq(TRequests) /\ SameHeld /\ smfWait' = smfWait /\ UNCHANGED n1Vars
      /\ RelayError.result # "challenge" /\ NoRsp = NoRsp
  BY DEF TypeInv, RelayTyped, RadiusTyped, SameHeld, smfVars, RelayError
<1>1. CASE RelayRead
  <2>. DEFINE h == Head(relayReq)
              m == AccessRequest(h.state, h.eap)
  <2>1. relayReq # << >> /\ relayReq' = Tail(relayReq) /\ radiusReq' = Append(radiusReq, m)
        /\ relayRsp' = relayRsp /\ radiusRsp' = radiusRsp /\ relayCur = "idle"
    BY <1>1 DEF RelayRead
  <2>2. h \in TRequests /\ h = relayReq[1] /\ 1 \in DOMAIN relayReq
    BY <1>0, <2>1, TailFacts, TailWithout
  <2>3. m \in TRequests /\ m.state = h.state /\ m.eap = h.eap
    BY <2>2 DEF AccessRequest, TRequests
  <2>. HIDE DEF m, h
  <2>4. ASSUME NEW st, NEW w, Passed(st, w)' PROVE Passed(st, w)
    <3>1. Queued(Tail(relayReq), st, w) \/ Queued(Append(radiusReq, m), st, w)
      BY <2>1, <2>4 DEF Passed, Queued
    <3>2. h.eap.kind = "edhoc" => Queued(relayReq, h.state, h.eap.wire)
      BY <2>2 DEF Queued
    <3>. QED  BY <1>0, <2>1, <2>3, <3>1, <3>2, QueuedMoves DEF Passed
  <2>5. \A st, w : Challenged(relayRsp, st, w)' \/ Challenged(radiusRsp, st, w)' => Down(st, w)
    BY <2>1 DEF Challenged, Down, IsChallenge
  <2>6. \A s : Named(s)' => Named(s)
    BY <2>1 DEF Named, Names, IsChallenge, LockInv, SocketInv
  <2>. QED  BY <1>0, <2>4, <2>5, <2>6, CalmQueues
<1>2. CASE RelayForward \/ RelayTimeout
  <2>1. /\ relayReq' = relayReq /\ (radiusReq' = radiusReq \/ radiusReq' = Closed(radiusReq))
        /\ relayCur' = "idle" /\ (radiusRsp' = NoRsp)
        /\ relayRsp' = relayRsp \/ relayRsp' = RelayError \/ (relayCur = "open" /\ relayRsp' = radiusRsp)
    BY <1>2 DEF RelayForward, RelayTimeout, RelayAnswer
  <2>2. ASSUME NEW st, NEW w, Passed(st, w)' PROVE Passed(st, w)
    <3>1. Queued(relayReq, st, w) \/ Queued(radiusReq, st, w) \/ Queued(Closed(radiusReq), st, w)
      BY <2>1, <2>2 DEF Passed, Queued
    <3>. QED  BY <1>0, <3>1, QueuedMoves DEF Passed
  <2>3. \A st, w : Challenged(relayRsp, st, w)' \/ Challenged(radiusRsp, st, w)' => Down(st, w)
    BY <1>0, <2>1 DEF Challenged, Down, IsChallenge
  <2>4. \A s : Named(s)' => Named(s)
    BY <1>0, <2>1 DEF Named, Names, IsChallenge
  <2>. QED  BY <1>0, <2>2, <2>3, <2>4, CalmQueues
<1>. QED  BY <1>1, <1>2

(* Every step but those of the UE and of the DN-AAA. *)
Resting ==
    /\ UNCHANGED ueVars /\ aaaNext' = aaaNext
    /\ aaa' = aaa \/ \E s \in Sids : aaa' = [aaa EXCEPT ![s].status = "expired"]

LEMMA CalmStep ==
    ASSUME TypeInv, TurnInv, LockInv, OriginInv,
           SmfStep \/ RanStep \/ RelayStep \/ TimeoutStep \/ FaultStep \/ UNCHANGED vars
    PROVE  Calm /\ Resting
<1>0. smf \in [Psis -> SmfType] /\ aaa \in [Sids -> TSessions] /\ relayReq \in Seq(TRequests) /\ radiusReq \in Seq(TRequests)
  BY DEF TypeInv, SmfTyped, AaaTyped, RelayTyped, RadiusTyped
<1>1. Resting => SameEnds
  BY <1>0 DEF Resting, SameEnds, ueVars, TSessions
<1>2. ASSUME Resting, SameHeld, smfWait' = smfWait, UNCHANGED <<n1Vars, relayLinkVars, radiusVars, relayVars>> PROVE Calm
  BY <1>1, <1>2, CalmQueues DEF relayLinkVars, radiusVars, relayVars, Passed, Queued, Challenged, Down, Named, Names, IsChallenge
<1>3. CASE SmfStep \/ RanStep
  <2>1. Resting /\ UNCHANGED <<relayVars, radiusVars>>
    BY <1>3 DEF SmfStep, RanStep, Resting, aaaVars
  <2>2. PICK q \in Psis :
          \/ SmfSetupResponse(q)
          \/ smf_timer_sec_auth_start(q)
          \/ smf_start_secondary_auth(q) \/ SmfStartIgnored(q)
          \/ smf_handle_secondary_auth_complete(q) \/ SmfUnknownMessage(q)
          \/ SmfChallenge(q) \/ SmfVerdict(q)
    BY <1>3 DEF SmfStep, RanStep, SmfNext
  <2>3. CASE SmfSetupResponse(q) \/ smf_timer_sec_auth_start(q) \/ SmfStartIgnored(q)
    <3>1. ASSUME SmfSetupResponse(q), NEW p \in Psis PROVE smf[p].state' = smf[p].state
      <4>1. PICK b : b = (smf[q].timer \/ ~smf[q].inProgress)
        OBVIOUS
      <4>2. smf' = [smf EXCEPT ![q].timer = b]
        BY <3>1, <4>1 DEF SmfSetupResponse
      <4>3. smf \in [Psis -> SmfType] /\ smf[p] \in SmfType
        BY <1>0
      <4>. QED  BY <4>2, <4>3 DEF SmfType
    <3>2. ASSUME smf_timer_sec_auth_start(q) \/ SmfStartIgnored(q), NEW p \in Psis PROVE smf[p].state' = smf[p].state
      <4>1. smf \in [Psis -> SmfType] /\ smf[p] \in SmfType
        BY <1>0
      <4>2. CASE smf_timer_sec_auth_start(q)
        <5>1. smf' = [smf EXCEPT ![q] = [smf[q] EXCEPT !.timer = FALSE, !.starts = @ + 1]]
          BY <4>1, <4>2 DEF smf_timer_sec_auth_start
        <5>. QED  BY <4>1, <5>1 DEF SmfType
      <4>3. CASE SmfStartIgnored(q)
        BY <4>1, <4>3 DEF SmfStartIgnored, SmfType
      <4>. QED  BY <3>2, <4>2, <4>3
    <3>3. smfWait' = smfWait /\ UNCHANGED <<n1Vars, relayLinkVars>>
      BY <2>3 DEF SmfSetupResponse, smf_timer_sec_auth_start, SmfStartIgnored
    <3>. QED  BY <1>2, <2>1, <2>3, <3>1, <3>2, <3>3 DEF SameHeld
  <2>4. CASE SmfVerdict(q)
    <3>1. SmfFinish(q, relayRsp.result) /\ relayRsp.result \in {"accept", "reject", "error"} /\ smfWait = q
          /\ relayRsp' = NoRsp /\ relayReq' = relayReq
      BY <2>4 DEF SmfVerdict
    <3>. QED  BY <1>1, <2>1, <3>1, CalmFinish DEF relayVars, radiusVars
  <2>. QED  BY <1>1, <2>1, <2>2, <2>3, <2>4, CalmStart, CalmTaken, CalmChallenge
<1>4. ASSUME SmfGivesUp, aaa' = aaa /\ aaaNext' = aaaNext PROVE Calm /\ Resting
  <2>1. Resting
    BY <1>4 DEF SmfGivesUp, Resting, aaaVars
  <2>2. PICK q \in Psis : SmfTimeout(q)
    BY <1>4 DEF SmfGivesUp
  <2>3. SmfFinish(q, "error") /\ smfWait = q /\ relayRsp' = NoRsp /\ relayReq' = Closed(relayReq)
    BY <2>2 DEF SmfTimeout
  <2>4. (relayCur' # "open" \/ relayCur' = relayCur) /\ radiusRsp' = radiusRsp /\ radiusReq' = radiusReq
    BY <1>4 DEF SmfGivesUp, radiusVars
  <2>. QED  BY <1>1, <2>1, <2>3, <2>4, CalmFinish
<1>5. CASE RelayStep \/ RelayGivesUp
  <2>1. Resting /\ UNCHANGED <<smfVars, n1Vars>>
    BY <1>5 DEF RelayStep, RelayGivesUp, Resting, aaaVars
  <2>. QED  BY <1>1, <1>5, <2>1, CalmRelay DEF RelayStep, RelayNext, RelayGivesUp
<1>6. CASE UNCHANGED vars
  BY <1>2, <1>6 DEF vars, Resting, smfVars, aaaVars, SameHeld
<1>7. CASE TimeoutStep
  BY <1>4, <1>5, <1>7 DEF TimeoutStep, SmfGivesUp, aaaVars
<1>8. CASE FaultStep
  <2>1. CASE SmfGivesUp \/ RelayGivesUp
    BY <1>4, <1>5, <2>1 DEF SmfGivesUp, aaaVars
  <2>2. CASE LoseCommand /\ UNCHANGED <<ueVars, smfVars, relayVars, aaaVars, relayLinkVars, radiusVars>>
    BY <1>1, <2>2, CalmLose DEF Resting, aaaVars
  <2>3. CASE LoseRelayRequest /\ UNCHANGED <<ueVars, smfVars, relayVars, aaaVars, n1Vars, radiusVars>>
    <3>1. PICK i \in DOMAIN relayReq : relayReq' = RemoveAt(relayReq, i)
      BY <2>3 DEF LoseRelayRequest
    <3>2. relayRsp' = relayRsp /\ radiusReq' = radiusReq /\ radiusRsp' = radiusRsp /\ relayCur' = relayCur
      BY <2>3 DEF LoseRelayRequest, radiusVars, relayVars
    <3>3. ASSUME NEW st, NEW w, Passed(st, w)' PROVE Passed(st, w)
      <4>1. Queued(RemoveAt(relayReq, i), st, w) \/ Queued(radiusReq, st, w)
        BY <3>1, <3>2, <3>3 DEF Passed, Queued
      <4>. QED  BY <1>0, <4>1, QueuedMoves DEF Passed
    <3>4. /\ \A st, w : Challenged(relayRsp, st, w)' \/ Challenged(radiusRsp, st, w)' => Down(st, w)
          /\ \A s : Named(s)' => Named(s)
      BY <3>2 DEF Challenged, Down, Named, Names, IsChallenge
    <3>5. Resting /\ SameHeld /\ smfWait' = smfWait /\ UNCHANGED n1Vars
      BY <2>3 DEF Resting, SameHeld, smfVars, aaaVars
    <3>. QED  BY <1>1, <3>3, <3>4, <3>5, CalmQueues
  <2>4. CASE LoseAccessRequest /\ UNCHANGED <<ueVars, smfVars, relayVars, aaaVars, n1Vars, relayLinkVars>>
    <3>1. PICK i \in DOMAIN radiusReq : radiusReq' = RemoveAt(radiusReq, i)
      BY <2>4 DEF LoseAccessRequest
    <3>2. relayRsp' = relayRsp /\ relayReq' = relayReq /\ radiusRsp' = radiusRsp /\ relayCur' = relayCur
      BY <2>4 DEF LoseAccessRequest, relayLinkVars, relayVars
    <3>3. ASSUME NEW st, NEW w, Passed(st, w)' PROVE Passed(st, w)
      <4>1. Queued(RemoveAt(radiusReq, i), st, w) \/ Queued(relayReq, st, w)
        BY <3>1, <3>2, <3>3 DEF Passed, Queued
      <4>. QED  BY <1>0, <4>1, QueuedMoves DEF Passed
    <3>4. /\ \A st, w : Challenged(relayRsp, st, w)' \/ Challenged(radiusRsp, st, w)' => Down(st, w)
          /\ \A s : Named(s)' => Named(s)
      BY <3>2 DEF Challenged, Down, Named, Names, IsChallenge
    <3>5. Resting /\ SameHeld /\ smfWait' = smfWait /\ UNCHANGED n1Vars
      BY <2>4 DEF Resting, SameHeld, smfVars, aaaVars
    <3>. QED  BY <1>1, <3>3, <3>4, <3>5, CalmQueues
  <2>5. CASE \E s \in Sids : Expire(s) /\ UNCHANGED <<ueVars, smfVars, relayVars, n1Vars, relayLinkVars>>
    BY <1>2, <2>5 DEF Expire, Resting, SameHeld, smfVars
  <2>. QED  BY <1>8, <2>1, <2>2, <2>3, <2>4, <2>5 DEF FaultStep
<1>. QED  BY <1>3, <1>5, <1>6, <1>7, <1>8

(* Such steps keep the invariant. *)
LEMMA KeyCalm ==
    ASSUME TypeInv, KeyInv, Calm, Resting
    PROVE  KeyInv'
<1>0. /\ ueEph' = ueEph /\ ueKeys' = ueKeys /\ ueConfirmed' = ueConfirmed /\ ueRound' = ueRound /\ ueCtx' = ueCtx
      /\ ueIn' = ueIn /\ ueOut' = ueOut /\ aaaNext' = aaaNext
  BY DEF Resting, ueVars
<1>1. \A s \in Sids : /\ aaa'[s].trip = aaa[s].trip /\ aaa'[s].round = aaa[s].round /\ aaa'[s].mode = aaa[s].mode
                      /\ aaa'[s].in = aaa[s].in /\ aaa'[s].out = aaa[s].out /\ aaa'[s].ctx = aaa[s].ctx
                      /\ aaa'[s].status = aaa[s].status \/ aaa'[s].status = "expired"
  <2>1. aaa \in [Sids -> TSessions]
    BY DEF TypeInv, AaaTyped
  <2>. QED  BY <2>1 DEF Resting, TSessions
<1>2. \A st, w : (Up(st, w)' => Up(st, w)) /\ (Down(st, w)' => Down(st, w))
  BY DEF Calm
<1>3. \A st, w : Up(st, w) \/ Down(st, w) => w \in TWires /\ st \in TStates \cup {NoState}
  BY ItemsTyped
<1>4. \A m : FromUe(m)' <=> FromUe(m)
  BY <1>0 DEF FromUe
<1>5. ASSUME NEW m \in TMsgs, FromAaa(m) PROVE FromAaa(m)'
  <2>1. m \notin {NoMsg, Junk} /\ m.type \in {"msg2", "msg4"} => m.sid \in Sids
    BY DEF TMsgs, FirstTypes
  <2>. QED  BY <1>1, <1>5, <2>1 DEF FromAaa
<1>6. /\ ueIn.data.msg \in TMsgs /\ \A s \in Sids : aaa[s].out.msg \in TMsgs
      /\ \A w \in TWires : w.data.msg \in TMsgs
      /\ ueKeys \subseteq Nat \X Sids /\ (ueRound = 3 => ueCtx.sid \in Sids)
  BY DEF TypeInv, UeTyped, AaaTyped, TSessions, TIns, TRuns, TOuts, TWires
<1>7. OriginInv'
  <2>1. \A s \in Sids : FromUe(aaa[s].in.data.msg)' /\ FromAaa(aaa[s].out.msg)'
    <3>. SUFFICES ASSUME NEW s \in Sids PROVE FromUe(aaa[s].in.data.msg)' /\ FromAaa(aaa[s].out.msg)'
      OBVIOUS
    <3>. DEFINE mi == aaa[s].in.data.msg
                mo == aaa[s].out.msg
    <3>1. FromUe(mi) /\ FromAaa(mo) /\ mo \in TMsgs /\ mi' = mi /\ mo' = mo
      BY <1>1, <1>6 DEF KeyInv, OriginInv
    <3>2. mo \notin {NoMsg, Junk} /\ mo.type \in {"msg2", "msg4"} => mo.sid \in Sids
      BY <3>1 DEF TMsgs, FirstTypes
    <3>. HIDE DEF mi, mo
    <3>3. FromUe(mi)'
      BY <1>0, <3>1 DEF FromUe
    <3>4. FromAaa(mo)'
      BY <1>1, <3>1, <3>2 DEF FromAaa
    <3>. QED  BY <3>3, <3>4 DEF mi, mo
  <2>2. FromUe(ueOut.msg)' /\ FromAaa(ueIn.data.msg)'
    BY <1>0, <1>4, <1>5, <1>6 DEF KeyInv, OriginInv, FromUe, FromAaa
  <2>3. \A st, w : (Up(st, w)' => FromUe(w.data.msg)') /\ (Down(st, w)' => FromAaa(w.data.msg)')
    BY <1>2, <1>3, <1>4, <1>5, <1>6 DEF KeyInv, OriginInv
  <2>. QED  BY <2>1, <2>2, <2>3 DEF OriginInv
<1>8. SessionsInv' /\ KeysInv' /\ AttemptInv'
  <2>1. SessionsInv'
    BY <1>0, <1>1 DEF KeyInv, SessionsInv, SessionOf, Msk, Pending
  <2>2. KeysInv'
    BY <1>0, <1>1, <1>6 DEF KeyInv, KeysInv
  <2>3. AttemptInv'
    BY <1>0, <1>1, <1>6 DEF KeyInv, AttemptInv, Msk
  <2>. QED  BY <2>1, <2>2, <2>3
<1>9. CoverInv'
  BY <1>0, <1>1, <1>2 DEF KeyInv, CoverInv, Mentions, Pending
<1>10. \A st \in TStates \cup {NoState} : Due(st)' => Due(st)
  BY <1>1 DEF Due, Final, Pending, TStates
<1>11. TripInv' /\ LastInv' /\ AckInv'
  <2>1. \A st \in TStates : st.sid \in Sids
    BY DEF TStates
  <2>2. TripInv'
    BY <1>0, <1>1, <1>2, <1>3, <2>1 DEF KeyInv, TripInv
  <2>3. LastInv'
    BY <1>1, <1>2, <1>3, <1>10, <2>1 DEF KeyInv, LastInv, Due
  <2>4. AckInv'
    BY <1>0, <1>1, <1>2, <1>3, <1>10, <2>1 DEF KeyInv, AckInv, Due, Msk
  <2>. QED  BY <2>2, <2>3, <2>4
<1>12. OrderInv'
  <2>1. ASSUME NEW p \in Psis, NEW s \in Sids, Old(p, s)' PROVE Old(p, s) /\ (Ahead(p) => Ahead(p)')
    BY <1>0, <1>1, <2>1 DEF Calm, Order, Old, Msk
  <2>2. ASSUME ueRound' \in {2, 3} PROVE \A p \in Psis, s \in Sids : Old(p, s)' => Msk(aaa'[s].ctx) = Msk(ueCtx')
    BY <1>0, <1>1, <2>1, <2>2 DEF KeyInv, OrderInv
  <2>3. Polluted => Polluted'
    BY <1>0 DEF Polluted, Mentions
  <2>4. ASSUME NEW a, SpoiledAt(a) PROVE SpoiledAt(a)'
    <3>1. \A st \in TStates \cup {NoState} : st # NoState => st.sid \in Sids
      BY DEF TStates
    <3>2. \A st, w : Up(st, w)' /\ Mentions(w.data, ueEph) =>
              \/ w.data.off + w.data.len <= a \/ w.data.off > a
              \/ st # NoState /\ aaa'[st.sid].round # 0
      BY <1>1, <1>2, <1>3, <2>4, <3>1 DEF SpoiledAt
    <3>. QED  BY <1>0, <1>1, <2>4, <3>2 DEF SpoiledAt, Mentions
  <2>5. Spoiled => Spoiled'
    BY <2>4 DEF Spoiled
  <2>. QED  BY <1>0, <2>1, <2>2, <2>3, <2>5 DEF KeyInv, OrderInv
<1>. QED  BY <1>7, <1>8, <1>9, <1>11, <1>12 DEF KeyInv

-----------------------------------------------------------------------------
(* What is put together from two runs of bytes, as far as one attempt's messages
   go: how far it reaches, and how much of a message's beginning it is. *)
Within(d, e, c) == Mentions(d, e) => d.off + d.len <= c

Short(d, e, c) == Mentions(d, e) /\ d.off = 0 => d.len <= c

Apart(d, e, c) == Mentions(d, e) => d.off + d.len <= c \/ d.off > c

MadeOf(d, x, y) ==
    /\ d.msg \in {NoMsg, Junk, x.msg, y.msg}
    /\ \A e : \A c \in Nat : Within(x, e, c) /\ Within(y, e, c) => Within(d, e, c)
    /\ \A e : \A c \in Nat : Short(x, e, c) /\ Apart(y, e, c) => Short(d, e, c)

LEMMA JoinMadeOf ==
    ASSUME NEW x \in TRuns, NEW y \in TRuns
    PROVE  /\ MadeOf(Join(x, y), x, y) /\ MadeOf(Join(Empty, y), x, y)
           /\ MadeOf(Empty, x, y) /\ MadeOf(x, x, y) /\ MadeOf(y, x, y)
           /\ x.len > 0 => Join(x, y).msg \in {Junk, x.msg}
           /\ y.len > 0 => Join(x, y).msg \in {Junk, y.msg} /\ Join(Empty, y).msg = y.msg
<1>0. x.off \in Nat /\ x.len \in Nat /\ y.off \in Nat /\ y.len \in Nat
  BY FragAssumption DEF TRuns
<1>1. MadeOf(Empty, x, y)
  BY DEF MadeOf, Empty, Within, Short, Mentions
<1>2. MadeOf(x, x, y)
  BY <1>0 DEF MadeOf
<1>3. MadeOf(y, x, y)
  BY <1>0 DEF MadeOf, Within, Short, Apart
<1>4. Join(Empty, y) = IF y.len = 0 THEN Empty ELSE y
  BY DEF Join, Empty
<1>5. MadeOf(Join(x, y), x, y)
  <2>1. CASE y.len = 0 \/ x.len = 0
    BY <1>2, <1>3, <2>1 DEF Join
  <2>2. CASE y.len # 0 /\ x.len # 0 /\ ~(x.msg = y.msg /\ x.off + x.len = y.off)
    BY <2>2 DEF Join, MadeOf, Within, Short, Mentions
  <2>3. CASE y.len # 0 /\ x.len # 0 /\ x.msg = y.msg /\ x.off + x.len = y.off
    <3>. DEFINE j == Join(x, y)
    <3>1. j.msg = x.msg /\ j.off = x.off /\ j.len = x.len + y.len
      BY <2>3 DEF Join, TRuns
    <3>. HIDE DEF j
    <3>2. \A e : \A c \in Nat : Within(x, e, c) /\ Within(y, e, c) => Within(j, e, c)
      BY <1>0, <2>3, <3>1 DEF Within, Mentions
    <3>3. \A e : \A c \in Nat : Short(x, e, c) /\ Apart(y, e, c) => Short(j, e, c)
      BY <1>0, <2>3, <3>1 DEF Short, Apart, Mentions
    <3>. QED  BY <3>1, <3>2, <3>3 DEF MadeOf, j
  <2>. QED  BY <2>1, <2>2, <2>3
<1>6. /\ x.len > 0 => Join(x, y).msg \in {Junk, x.msg}
      /\ y.len > 0 => Join(x, y).msg \in {Junk, y.msg} /\ Join(Empty, y).msg = y.msg
  BY <1>0, <1>4 DEF Join, TRuns
<1>. QED  BY <1>1, <1>2, <1>3, <1>4, <1>5, <1>6

LEMMA ParseFacts ==
    ASSUME NEW in \in TIns, NEW w \in TWires
    PROVE  LET r == ParseEdhocWire(in, w)
           IN  /\ MadeOf(r.in.data, in.data, w.data) /\ MadeOf(r.msg, in.data, w.data)
               /\ r.status = "ack" => w.more /\ r.in.len # 0 /\ r.in.data.len = in.data.len + w.data.len
               /\ r.status = "msg" =>
                      /\ ~w.more
                      /\ w.data.len > 0 => r.msg.msg \in {Junk, w.data.msg}
                      /\ in.data.len > 0 => r.msg.msg \in {Junk, in.data.msg}
                      /\ r.msg.len = 0 => in.len = 0 /\ w.data.len = 0
               /\ r.status # "msg" /\ in.data.len > 0 =>
                      r.in.data.len > 0 /\ r.in.data.msg \in {Junk, in.data.msg}
<1>. DEFINE in1 == Announced(in, w)
            in2 == Stored(in1, w)
            r == ParseEdhocWire(in, w)
            x == in.data
            y == w.data
<1>. USE FragAssumption
<1>1. /\ x \in TRuns /\ y \in TRuns /\ x.len = in.pos /\ in.pos <= in.len
      /\ in.pos \in 0..MaxMsg /\ in.len \in 0..MaxMsg /\ y.len \in 0..MaxMsg /\ x.len \in Nat /\ w.more \in BOOLEAN
  BY DEF TIns, TWires, TRuns
<1>2. Empty.len = 0 /\ Empty.msg = NoMsg /\ Empty \in TRuns /\ NoIn.data = Empty
  BY EmptyTyped DEF NoIn
<1>3. \/ in1 = in
      \/ in.len = 0 /\ x.len = 0 /\ in1.data = Empty /\ in1.pos = 0 /\ in1.len = w.total
  BY <1>1 DEF Announced
<1>4. in1.len = 0 => in.len = 0
  BY <1>3
<1>5. /\ in1.data \in TRuns /\ in1.data.len = in1.pos /\ in1.pos = in.pos /\ in1.data \in {x, Empty} /\ in1.len \in 0..MaxMsg
      /\ in1.data.len = x.len /\ (x.len > 0 => in1.data = x)
  BY <1>1, <1>2, <1>3 DEF TWires
<1>6. /\ in2.len = in1.len /\ in2.pos = in1.pos + y.len /\ in2.data = Join(in1.data, y)
  BY DEF Stored
<1>7. \/ r.status = "error" /\ r.in \in {in, in1} /\ r.msg = Empty
      \/ r.status = "msg" /\ in1.len = 0 /\ ~w.more /\ r.in = in1 /\ r.msg = y
      \/ /\ in2.pos <= in1.len /\ in1.len # 0
         /\ \/ r.status = "ack" /\ w.more /\ r.in = in2 /\ r.msg = Empty
            \/ r.status = "error" /\ r.in = in2 /\ r.msg = Empty
            \/ r.status = "msg" /\ ~w.more /\ in2.pos = in2.len /\ r.in = NoIn /\ r.msg = in2.data
  <2>1. in2.pos \in Int /\ in1.len \in Int
    BY <1>1, <1>5, <1>6
  <2>2. \A st, i, m : Parsed(st, i, m).status = st /\ Parsed(st, i, m).in = i /\ Parsed(st, i, m).msg = m
    BY DEF Parsed
  <2>3. \/ r \in {Parsed("error", in, Empty), Parsed("error", in1, Empty)}
        \/ r = Parsed("msg", in1, y) /\ in1.len = 0 /\ ~w.more
        \/ /\ in2.pos <= in1.len /\ in1.len # 0
           /\ \/ r = Parsed("ack", in2, Empty) /\ w.more
              \/ r = Parsed("error", in2, Empty)
              \/ r = Parsed("msg", NoIn, in2.data) /\ ~w.more /\ in2.pos = in2.len
    <3>. HIDE DEF in1, in2
    <3>. QED  BY <2>1 DEF ParseEdhocWire, in1, in2
  <2>. HIDE DEF in1, in2, r
  <2>. QED  BY <2>2, <2>3
<1>. HIDE DEF in1, in2, r
<1>8. /\ MadeOf(in2.data, x, y) /\ MadeOf(in1.data, x, y) /\ MadeOf(x, x, y) /\ MadeOf(y, x, y) /\ MadeOf(Empty, x, y)
      /\ x.len > 0 => in2.data.msg \in {Junk, x.msg}
      /\ y.len > 0 => in2.data.msg \in {Junk, y.msg}
  BY <1>1, <1>2, <1>5, <1>6, JoinMadeOf
<1>9. in2.pos <= in1.len => in2.data.len = x.len + y.len
  <2>1. ASSUME in2.pos <= in1.len PROVE in1.data.len + y.len <= MaxMsg
    BY <1>1, <1>5, <1>6, <2>1
  <2>. QED  BY <1>1, <1>5, <1>6, <2>1, JoinTyped
<1>10. MadeOf(r.in.data, x, y) /\ MadeOf(r.msg, x, y)
  BY <1>2, <1>7, <1>8
<1>11. r.status = "ack" => w.more /\ r.in.len # 0 /\ r.in.data.len = x.len + y.len
  BY <1>6, <1>7, <1>9
<1>12. r.status = "msg" =>
          /\ ~w.more
          /\ y.len > 0 => r.msg.msg \in {Junk, y.msg}
          /\ x.len > 0 => r.msg.msg \in {Junk, x.msg}
          /\ r.msg.len = 0 => in.len = 0 /\ y.len = 0
  <2>1. CASE in1.len = 0
    BY <1>1, <1>4, <1>7, <2>1
  <2>2. CASE in1.len # 0
    BY <1>1, <1>5, <1>6, <1>7, <1>8, <1>9, <2>2
  <2>. QED  BY <2>1, <2>2
<1>13. r.status # "msg" /\ x.len > 0 => r.in.data.len > 0 /\ r.in.data.msg \in {Junk, x.msg}
  BY <1>1, <1>5, <1>7, <1>8, <1>9
<1>. QED  BY <1>10, <1>11, <1>12, <1>13 DEF r

-----------------------------------------------------------------------------
(* The UE takes the command at the head and puts an answer at the end of the
   other queue. *)
UeTakes(m) ==
    /\ nasDl # << >> /\ Head(nasDl).kind = "command"
    /\ nasDl' = Tail(nasDl) /\ nasUl' = Append(nasUl, m)
    /\ m \in UlMsgs /\ m.psi = Head(nasDl).psi
    /\ UNCHANGED <<smfVars, relayVars, aaaVars, relayLinkVars, radiusVars>>

LEMMA UeTaken ==
    ASSUME TypeInv, TurnInv, NEW m, UeTakes(m)
    PROVE  LET q == Head(nasDl).psi
               h == Head(nasDl).eap.wire
           IN  /\ q \in Psis /\ Down(smf[q].state, h) /\ Commands(q) # {} /\ 1 \in Commands(q) /\ nasDl[1].eap.wire = h
               /\ smfWait # q /\ (\A w : ~Answering(q, w)) /\ smf[q].inProgress
               /\ \A st, w : Down(st, w)' => Down(st, w)
               /\ \A st, w : Passed(st, w)' <=> Passed(st, w)
               /\ \A st, w : Up(st, w)' =>
                      Up(st, w) \/ (m.kind = "complete" /\ st = smf[q].state /\ w = m.eap.wire)
               /\ \A p \in Psis : \A s \in Sids :
                      Rides(p, s)' => Rides(p, s) /\ (p = q => m.kind = "complete" /\ Holds(q, s))
<1>0. /\ N1Typed /\ nasDl # << >> /\ nasDl' = Tail(nasDl) /\ nasUl' = Append(nasUl, m) /\ m \in UlMsgs
      /\ Head(nasDl).kind = "command" /\ m.psi = Head(nasDl).psi
      /\ smf' = smf /\ smfWait' = smfWait
      /\ relayRsp' = relayRsp /\ relayReq' = relayReq /\ relayCur' = relayCur
      /\ radiusReq' = radiusReq /\ radiusRsp' = radiusRsp
  BY DEF TypeInv, UeTakes, smfVars, relayVars, relayLinkVars, radiusVars
<1>. DEFINE q == Head(nasDl).psi
            h == Head(nasDl).eap.wire
<1>1. q \in Psis /\ nasDl[1] = Head(nasDl)
  <2>1. Head(nasDl) \in DlMsgs /\ nasDl[1] = Head(nasDl)
    BY <1>0, TailFacts DEF N1Typed
  <2>. QED  BY <2>1 DEF DlMsgs
<1>2. 1 \in Commands(q)
  BY <1>0, <1>1, PopDl
<1>3. Commands(q) # {} /\ Answers(q) = {} /\ smfWait # q /\ smf[q].inProgress
  BY <1>1, <1>2 DEF TurnInv, TurnOf
<1>4. \A w : ~Answering(q, w)
  BY <1>3 DEF Answering
<1>5. Commanded(q, h) /\ Down(smf[q].state, h)
  BY <1>1, <1>2 DEF Commanded, Down
<1>6. ASSUME NEW p \in Psis, NEW w
      PROVE  /\ Commanded(p, w)' => Commanded(p, w)
             /\ Answering(p, w)' => Answering(p, w) \/ (p = q /\ m.kind = "complete" /\ w = m.eap.wire)
  <2>1. ASSUME Commanded(p, w)' PROVE Commanded(p, w)
    <3>1. PICK i \in Commands(p)' : w = nasDl'[i].eap.wire
      BY <2>1 DEF Commanded
    <3>2. i + 1 \in Commands(p) /\ nasDl'[i] = nasDl[i + 1]
      BY <1>0, <3>1, PopDl
    <3>. QED  BY <3>1, <3>2 DEF Commanded
  <2>2. ASSUME Answering(p, w)' PROVE Answering(p, w) \/ (p = q /\ m.kind = "complete" /\ w = m.eap.wire)
    <3>1. PICK i \in Answers(p)' : nasUl'[i].kind = "complete" /\ w = nasUl'[i].eap.wire
      BY <2>2 DEF Answering
    <3>2. /\ Answers(p)' = (IF m.psi = p THEN Answers(p) \cup {Len(nasUl) + 1} ELSE Answers(p))
          /\ \A j \in Answers(p) : nasUl'[j] = nasUl[j]
          /\ nasUl'[Len(nasUl) + 1] = m
      BY <1>0, PushUl
    <3>. QED  BY <1>0, <3>1, <3>2 DEF Answering
  <2>. QED  BY <2>1, <2>2
<1>7. \A st, w : Passed(st, w)' <=> Passed(st, w)
  BY <1>0 DEF Passed, Queued
<1>8. \A st, w : Down(st, w)' => Down(st, w)
  BY <1>0, <1>6 DEF Down, Challenged, IsChallenge
<1>9. \A st, w : Up(st, w)' => Up(st, w) \/ (m.kind = "complete" /\ st = smf[q].state /\ w = m.eap.wire)
  BY <1>0, <1>6, <1>7 DEF Up
<1>10. ASSUME NEW p \in Psis, NEW s \in Sids, Rides(p, s)'
       PROVE  Rides(p, s) /\ (p = q => m.kind = "complete" /\ Holds(q, s))
  <2>1. Holds(p, s)' = Holds(p, s) /\ Named(s)' = Named(s)
    BY <1>0 DEF Holds, Named, Names, IsChallenge
  <2>2. Commands(p)' # {} => Commands(p) # {}
    BY <1>0, PopDl
  <2>3. p = q => Commands(p)' = {}
    BY <1>0, PopDlTurn
  <2>. QED  BY <1>0, <1>3, <1>4, <1>6, <1>10, <2>1, <2>2, <2>3 DEF Rides
<1>. QED  BY <1>1, <1>2, <1>3, <1>4, <1>5, <1>7, <1>8, <1>9, <1>10

(* No other authentication loses its place. *)
LEMMA UeKeepsOrder ==
    ASSUME TypeInv, TurnInv, NEW m, UeTakes(m), ueEph' = ueEph, NEW p \in Psis, p # Head(nasDl).psi, Ahead(p),
           Mentions(ueIn.data, ueEph)' => Mentions(ueIn.data, ueEph) \/ Mentions(Head(nasDl).eap.wire.data, ueEph)
    PROVE  Ahead(p)'
<1>0. /\ N1Typed /\ nasDl # << >> /\ nasDl' = Tail(nasDl) /\ nasUl' = Append(nasUl, m) /\ m \in UlMsgs
      /\ Head(nasDl).kind = "command" /\ m.psi # p /\ smfWait' = smfWait /\ aaa' = aaa
  BY DEF TypeInv, UeTakes, smfVars, aaaVars
<1>1. \A st, w : Passed(st, w)' => Passed(st, w)
  BY UeTaken
<1>2. Clean => Clean'
  BY <1>0, <1>1 DEF Clean, Mentions
<1>3. ASSUME NEW i \in Answers(p)' PROVE Clean' /\ UlClear(i)'
  <2>1. i \in Answers(p)
    BY <1>0, <1>3, PushUl
  <2>2. i \in Nat /\ i <= Len(nasUl)
    BY <1>0, <2>1, IndexTyped
  <2>3. Clean /\ UlClear(i)
    BY <2>1 DEF Ahead
  <2>. QED  BY <1>0, <1>2, <2>2, <2>3, ClearMoves
<1>4. ASSUME NEW i \in Commands(p)' PROVE ~Mentions(ueIn.data, ueEph)' /\ DlClear(i)'
  <2>1. i + 1 \in Commands(p)
    BY <1>0, <1>4, PopDl
  <2>2. i \in Nat /\ 1 <= i + 1 /\ 1 \in DOMAIN nasDl /\ nasDl[1] = Head(nasDl)
    <3>1. nasDl' \in Seq(DlMsgs) /\ Len(nasDl) \in Nat \ {0} /\ nasDl \in Seq(DlMsgs) /\ nasDl[1] = Head(nasDl)
      BY <1>0, TailFacts DEF N1Typed
    <3>2. i \in Nat
      BY <1>4, <3>1 DEF Commands
    <3>. QED  BY <3>1, <3>2
  <2>3. ~Mentions(ueIn.data, ueEph) /\ DlClear(i + 1)
    BY <2>1 DEF Ahead
  <2>4. ~Mentions(Head(nasDl).eap.wire.data, ueEph)
    BY <1>0, <2>2, <2>3 DEF DlClear
  <2>. QED  BY <1>0, <2>2, <2>3, <2>4, ClearMoves
<1>. QED  BY <1>0, <1>2, <1>3, <1>4 DEF Ahead

(* Nothing is under way that mentions an attempt still to come; a key the UE has
   derived is one of the session's. *)
LEMMA NotYet ==
    ASSUME TypeInv, KeyInv, NEW e \in Nat, e > ueEph
    PROVE  /\ \A s \in Sids : aaa[s].ctx.eph # e /\ ~Mentions(aaa[s].in.data, e)
           /\ \A st, w : Up(st, w) \/ Down(st, w) => ~Mentions(w.data, e)
           /\ ~Mentions(ueIn.data, e)
<1>0. ueEph \in Nat /\ ueIn \in TIns /\ aaa \in [Sids -> TSessions]
  BY DEF TypeInv, UeTyped, AaaTyped
<1>1. \A s \in Sids : aaa[s].ctx.eph \in Nat /\ aaa[s].ctx.eph <= ueEph
  <2>. SUFFICES ASSUME NEW s \in Sids PROVE aaa[s].ctx.eph \in Nat /\ aaa[s].ctx.eph <= ueEph
    OBVIOUS
  <2>1. aaa[s].ctx.eph \in Nat /\ NoCtx.eph = 0
    BY <1>0 DEF TSessions, Ctxs, NoCtx
  <2>2. SessionOf(s)
    BY DEF KeyInv, SessionsInv
  <2>. QED  BY <1>0, <2>1, <2>2 DEF SessionOf
<1>2. ASSUME NEW d, d.msg \in TMsgs, FromUe(d.msg) PROVE ~Mentions(d, e)
  BY <1>0, <1>2 DEF FromUe, Mentions, TMsgs
<1>3. ASSUME NEW d, d.msg \in TMsgs, FromAaa(d.msg) PROVE ~Mentions(d, e)
  <2>1. d.msg \notin {NoMsg, Junk} /\ d.msg.type \in {"msg2", "msg4"} => d.msg.sid \in Sids
    BY <1>3 DEF TMsgs, FirstTypes
  <2>. QED  BY <1>0, <1>1, <1>3, <2>1 DEF FromAaa, Mentions
<1>4. /\ ueIn.data.msg \in TMsgs /\ \A s \in Sids : aaa[s].in.data.msg \in TMsgs
      /\ \A w \in TWires : w.data.msg \in TMsgs
  BY <1>0 DEF TSessions, TIns, TRuns, TWires
<1>5. \A s \in Sids : aaa[s].ctx.eph # e
  BY <1>0, <1>1
<1>6. \A s \in Sids : ~Mentions(aaa[s].in.data, e)
  BY <1>2, <1>4 DEF KeyInv, OriginInv
<1>7. ~Mentions(ueIn.data, e)
  BY <1>3, <1>4 DEF KeyInv, OriginInv
<1>8. \A st, w : Up(st, w) \/ Down(st, w) => ~Mentions(w.data, e)
  BY <1>2, <1>3, <1>4, ItemsTyped DEF KeyInv, OriginInv
<1>. QED  BY <1>5, <1>6, <1>7, <1>8

LEMMA KnownKey ==
    ASSUME TypeInv, KeyInv, NEW s \in Sids, Msk(aaa[s].ctx) \in ueKeys
    PROVE  aaa[s].round # 0 /\ aaa[s].ctx.sid = s
<1>1. ueKeys \subseteq Nat \X Sids /\ 0 \notin Sids
  BY DEF TypeInv, UeTyped, Sids
<1>2. SessionOf(s) /\ NoCtx.sid = 0
  BY DEF KeyInv, SessionsInv, NoCtx
<1>3. aaa[s].ctx.sid \in Sids
  BY <1>1 DEF Msk
<1>. QED  BY <1>1, <1>2, <1>3 DEF SessionOf

(* The parts of the invariant that every step of the UE keeps for the same
   reason: the DN-AAA is not touched, and attempts and keys are only added. *)
LEMMA KeyUe ==
    ASSUME TypeInv, TurnInv, KeyInv, NEW m, UeTakes(m),
           ueEph' \in Nat, ueEph <= ueEph', ueKeys \subseteq ueKeys', ueConfirmed \subseteq ueConfirmed',
           FromUe(ueOut.msg)', FromAaa(ueIn.data.msg)',
           m.kind = "complete" => FromUe(m.eap.wire.data.msg)',
           m.kind = "complete" /\ Due(smf[Head(nasDl).psi].state) /\ ~m.eap.wire.more /\ m.eap.wire.data.len = 0 =>
               Msk(aaa[smf[Head(nasDl).psi].state.sid].ctx) \in ueConfirmed',
           KeysInv', AttemptInv', CoverInv', OrderInv'
    PROVE  KeyInv'
<1>. DEFINE q == Head(nasDl).psi
            h == Head(nasDl).eap.wire
<1>0. aaa' = aaa /\ aaaNext' = aaaNext /\ ueEph \in Nat /\ aaa \in [Sids -> TSessions]
  BY DEF UeTakes, aaaVars, TypeInv, UeTyped, AaaTyped
<1>1. /\ Down(smf[q].state, h)
      /\ \A st, w : Down(st, w)' => Down(st, w)
      /\ \A st, w : Up(st, w)' => Up(st, w) \/ (m.kind = "complete" /\ st = smf[q].state /\ w = m.eap.wire)
  BY UeTaken
<1>. HIDE DEF q, h
<1>2. \A st, w : Up(st, w) \/ Down(st, w) => w \in TWires /\ st \in TStates \cup {NoState}
  BY ItemsTyped
<1>3. \A w \in TWires : w.data.msg \in TMsgs
  BY DEF TWires, TRuns
<1>4. ASSUME NEW x \in TMsgs, FromUe(x) PROVE FromUe(x)'
  <2>1. x \notin {NoMsg, Junk} => x.eph \in Nat
    BY DEF TMsgs
  <2>. QED  BY <1>0, <1>4, <2>1 DEF FromUe
<1>5. \A x : FromAaa(x)' <=> FromAaa(x)
  BY <1>0 DEF FromAaa
<1>6. OriginInv'
  <2>1. ASSUME NEW s \in Sids PROVE FromUe(aaa[s].in.data.msg)' /\ FromAaa(aaa[s].out.msg)'
    <3>. DEFINE mi == aaa[s].in.data.msg
                mo == aaa[s].out.msg
    <3>1. FromUe(mi) /\ FromAaa(mo) /\ mi \in TMsgs /\ mi' = mi /\ mo' = mo
      BY <1>0 DEF KeyInv, OriginInv, TSessions, TIns, TRuns
    <3>2. mi \notin {NoMsg, Junk} => mi.eph \in Nat
      BY <3>1 DEF TMsgs
    <3>. HIDE DEF mi, mo
    <3>3. FromUe(mi)'
      BY <1>0, <3>1, <3>2 DEF FromUe
    <3>4. FromAaa(mo)'
      BY <1>0, <3>1 DEF FromAaa
    <3>. QED  BY <3>3, <3>4 DEF mi, mo
  <2>2. ASSUME NEW st, NEW w, Up(st, w)' PROVE FromUe(w.data.msg)'
    <3>1. CASE Up(st, w)
      BY <1>2, <1>3, <1>4, <3>1 DEF KeyInv, OriginInv
    <3>2. CASE m.kind = "complete" /\ w = m.eap.wire
      BY <3>2
    <3>. QED  BY <1>1, <2>2, <3>1, <3>2
  <2>3. ASSUME NEW st, NEW w, Down(st, w)' PROVE FromAaa(w.data.msg)'
    BY <1>1, <1>5, <2>3 DEF KeyInv, OriginInv
  <2>. QED  BY <2>1, <2>2, <2>3 DEF OriginInv
<1>7. SessionsInv'
  <2>1. \A s \in Sids : SessionOf(s) /\ aaa[s].ctx.eph \in Nat
    BY <1>0 DEF KeyInv, SessionsInv, TSessions, Ctxs
  <2>2. ASSUME NEW s \in Sids PROVE SessionOf(s)'
    <3>1. aaa[s].round # 0 => aaa[s].ctx.eph <= ueEph'
      BY <1>0, <2>1 DEF SessionOf
    <3>. QED  BY <1>0, <2>1, <3>1 DEF SessionOf, Msk, Pending
  <2>. QED  BY <2>2 DEF SessionsInv
<1>8. \A st : Due(st)' <=> Due(st)
  BY <1>0 DEF Due, Final, Pending
<1>9. TripInv'
  <2>1. ASSUME NEW st, NEW w, (Up(st, w) \/ Down(st, w))', st # NoState PROVE st.sid < aaaNext /\ st.trip <= aaa[st.sid].trip
    BY <1>1, <2>1 DEF KeyInv, TripInv
  <2>. QED  BY <1>0, <2>1 DEF TripInv
<1>10. LastInv'
  BY <1>0, <1>1, <1>8 DEF KeyInv, LastInv
<1>11. AckInv'
  <2>. SUFFICES ASSUME NEW st, NEW w, Up(st, w)', Due(st), ~w.more, w.data.len = 0
                PROVE  Msk(aaa[st.sid].ctx) \in ueConfirmed'
    BY <1>0, <1>8 DEF AckInv, Msk
  <2>1. CASE Up(st, w)
    BY <2>1 DEF KeyInv, AckInv
  <2>2. CASE m.kind = "complete" /\ st = smf[q].state /\ w = m.eap.wire
    BY <2>2 DEF q
  <2>. QED  BY <1>1, <2>1, <2>2
<1>. QED  BY <1>6, <1>7, <1>9, <1>10, <1>11 DEF KeyInv

-----------------------------------------------------------------------------
(* The UE, action by action. *)
LEMMA OldUe ==
    ASSUME TypeInv, TurnInv, KeyInv, NEW m, UeTakes(m), ueKeys' = ueKeys, ueConfirmed \subseteq ueConfirmed'
    PROVE  \A p \in Psis : \A s \in Sids :
               Old(p, s)' => /\ Old(p, s) /\ Msk(aaa[s].ctx)' = Msk(aaa[s].ctx)
                             /\ p = Head(nasDl).psi => m.kind = "complete" /\ Holds(p, s)
<1>1. aaa' = aaa
  BY DEF UeTakes, aaaVars
<1>2. \A p \in Psis : \A s \in Sids :
          Rides(p, s)' => Rides(p, s) /\ (p = Head(nasDl).psi => m.kind = "complete" /\ Holds(p, s))
  BY UeTaken
<1>. QED  BY <1>1, <1>2 DEF Old, Msk

LEMMA UeWireTyped ==
    ASSUME TypeInv, Waiting(nasDl, "command")
    PROVE  /\ ueWire \in TWires /\ ueIn \in TIns /\ Head(nasDl).psi \in Psis /\ Head(nasDl).eap.id \in Nat
           /\ ueParsed.in \in TIns /\ ueParsed.msg \in TRuns
           /\ ueWire.data.len \in Nat /\ ueIn.data.len \in Nat
<1>1. Head(nasDl) \in DlMsgs /\ Head(nasDl).kind = "command"
  BY TailFacts DEF N1Typed, Waiting, TypeInv
<1>2. ueWire \in TWires /\ Head(nasDl).psi \in Psis /\ Head(nasDl).eap.id \in Nat
  BY <1>1 DEF DlMsgs, TPackets, ueWire
<1>3. ueIn \in TIns
  BY DEF TypeInv, UeTyped
<1>4. ueParsed.in \in TIns /\ ueParsed.msg \in TRuns
  BY <1>2, <1>3, ParseTyped DEF ueParsed
<1>. QED  BY <1>2, <1>3, <1>4, FragAssumption DEF TWires, TIns, TRuns

LEMMA Unmentioned ==
    ASSUME NEW d, NEW x, NEW y, MadeOf(d, x, y), NEW e, Mentions(d, e)
    PROVE  Mentions(x, e) \/ Mentions(y, e)
BY DEF MadeOf, Mentions

(* Nothing of the attempt itself is sent: foreign bytes stay, or come into the
   buffer with an answer to a command of an earlier attempt. *)
LEMMA OrderQuiet ==
    ASSUME TypeInv, TurnInv, KeyInv, NEW m, UeTakes(m),
           UNCHANGED <<ueEph, ueKeys, ueConfirmed, ueRound, ueCtx, ueOut>>,
           m.kind = "complete" => ~Mentions(m.eap.wire.data, ueEph),
           \/ ueIn' = ueIn /\ m.kind # "complete"
           \/ ueRound # 1
           \/ ueIn' = ueParsed.in /\ ueParsed.status # "msg" /\ (m.kind = "complete" => ueParsed.status = "ack")
    PROVE  OrderInv'
<1>. DEFINE q == Head(nasDl).psi
            h == Head(nasDl).eap.wire
<1>0. aaa' = aaa /\ Waiting(nasDl, "command")
  BY DEF UeTakes, aaaVars, Waiting
<1>1. \A p \in Psis : \A s \in Sids :
          Old(p, s)' => Old(p, s) /\ Msk(aaa[s].ctx)' = Msk(aaa[s].ctx) /\ (p = q => m.kind = "complete" /\ Holds(p, s))
  BY OldUe
<1>2. /\ q \in Psis /\ Down(smf[q].state, h) /\ 1 \in Commands(q) /\ nasDl[1].eap.wire = h
      /\ \A st, w : Up(st, w)' => Up(st, w) \/ (m.kind = "complete" /\ w = m.eap.wire)
  BY UeTaken
<1>3. ueRound \in {2, 3} => OrderInv'
  <2>1. ASSUME ueRound \in {2, 3} PROVE ueRound' \in {2, 3} /\ ueRound' # 1
    BY <2>1
  <2>2. Msk(ueCtx)' = Msk(ueCtx)
    BY DEF Msk
  <2>. QED  BY <1>1, <2>1, <2>2 DEF KeyInv, OrderInv
<1>4. ASSUME ueRound = 1 PROVE OrderInv'
  <2>0. /\ ueIn.data.len \in Nat /\ h.data.len \in Nat /\ h = ueWire
        /\ MadeOf(ueParsed.in.data, ueIn.data, h.data)
        /\ ueParsed.status = "ack" => h.more /\ ueParsed.in.data.len = ueIn.data.len + h.data.len
        /\ ueParsed.status # "msg" /\ ueIn.data.len > 0 =>
               ueParsed.in.data.len > 0 /\ ueParsed.in.data.msg \in {Junk, ueIn.data.msg}
    BY <1>0, UeWireTyped, ParseFacts DEF ueParsed, ueWire
  <2>. HIDE DEF q, h
  <2>1. Mentions(ueIn.data, ueEph)' => Mentions(ueIn.data, ueEph) \/ Mentions(h.data, ueEph)
    BY <1>4, <2>0, Unmentioned DEF Mentions
  <2>2. Polluted => Polluted'
    BY <1>4, <2>0 DEF Polluted, Mentions
  <2>3. Spoiled => Spoiled'
    <3>1. ASSUME NEW a, SpoiledAt(a) PROVE SpoiledAt(a)'
      BY <1>0, <1>2, <3>1 DEF SpoiledAt, Mentions
    <3>. QED  BY <3>1 DEF Spoiled
  <2>4. ASSUME NEW p \in Psis, NEW s \in Sids, Old(p, s)', Ahead(p) PROVE Polluted' \/ Ahead(p)'
    <3>1. CASE p # q
      BY <2>1, <2>4, <3>1, UeKeepsOrder DEF q, h
    <3>2. CASE p = q
      <4>1. m.kind = "complete"
        BY <1>1, <2>4, <3>2
      <4>2. ~Mentions(ueIn.data, ueEph) /\ DlClear(1)
        BY <1>2, <2>4, <3>2 DEF Ahead
      <4>3. ~Mentions(h.data, ueEph)
        <5>1. 1 \in DOMAIN nasDl /\ nasDl[1].kind = "command"
          BY <1>2 DEF Commands
        <5>. QED  BY <1>2, <4>2, <5>1 DEF DlClear
      <4>4. h.more /\ ueIn' = ueParsed.in /\ ueParsed.in.data.len = ueIn.data.len + h.data.len
        BY <1>4, <2>0, <4>1
      <4>5. h.data.len > 0
        BY <1>2, <4>4 DEF KeyInv, LastInv
      <4>. QED  BY <2>0, <2>1, <4>2, <4>3, <4>4, <4>5 DEF Polluted
    <3>. QED  BY <3>1, <3>2
  <2>5. Polluted \/ Spoiled \/ \A p \in Psis, s \in Sids : Old(p, s) => Ahead(p)
    BY <1>4 DEF KeyInv, OrderInv
  <2>6. Polluted' \/ Spoiled' \/ \A p \in Psis, s \in Sids : Old(p, s)' => Ahead(p)'
    BY <1>1, <2>2, <2>3, <2>4, <2>5
  <2>. QED  BY <1>4, <2>6 DEF OrderInv
<1>5. ueRound \notin {1, 2, 3} => OrderInv'
  BY DEF OrderInv
<1>. QED  BY <1>3, <1>4, <1>5

LEMMA KeyQuiet ==
    ASSUME TypeInv, TurnInv, KeyInv, NEW m, UeTakes(m), UNCHANGED <<ueEph, ueKeys, ueConfirmed, ueCtx>>,
           (ueRound' = ueRound /\ ueOut' = ueOut) \/ (ueRound' = -1 /\ ueOut' = NoOut),
           FromAaa(ueIn.data.msg)', m.kind = "complete" => m.eap.wire = Ack,
           m.kind = "complete" /\ Due(smf[Head(nasDl).psi].state) =>
               Msk(aaa[smf[Head(nasDl).psi].state.sid].ctx) \in ueConfirmed,
           OrderInv'
    PROVE  KeyInv'
<1>0. aaa' = aaa /\ ueEph \in Nat
  BY DEF UeTakes, aaaVars, TypeInv, UeTyped
<1>1. KeysInv'
  BY <1>0 DEF KeyInv, KeysInv
<1>2. AttemptInv'
  <2>1. AttemptInv /\ Msk(ueCtx)' = Msk(ueCtx)
    BY DEF KeyInv, Msk
  <2>2. CASE ueRound' = ueRound /\ ueOut' = ueOut
    BY <1>0, <2>1, <2>2 DEF AttemptInv
  <2>3. CASE ueRound' = -1
    BY <1>0, <2>1, <2>3 DEF AttemptInv
  <2>. QED  BY <2>2, <2>3
<1>3. Ack.data.msg = NoMsg
  BY ControlTyped
<1>4. \A st, w : Up(st, w)' => Up(st, w) \/ w.data.msg = NoMsg
  BY <1>3, UeTaken
<1>5. CoverInv'
  BY <1>0, <1>4 DEF KeyInv, CoverInv, Mentions, Pending
<1>6. FromUe(ueOut.msg)'
  BY <1>0, EmptyTyped DEF KeyInv, OriginInv, FromUe
<1>7. m.kind = "complete" => FromUe(m.eap.wire.data.msg)'
  BY <1>3 DEF FromUe
<1>. QED  BY <1>0, <1>1, <1>2, <1>5, <1>6, <1>7, KeyUe

LEMMA UeAnswers ==
    ASSUME TypeInv, UeStep, Waiting(nasDl, "command")
    PROVE  /\ sendSmCause => \E m : UeTakes(m) /\ m.kind # "complete"
           /\ \A w \in TWires : ueReply(w) => \E m : UeTakes(m) /\ m.kind = "complete" /\ m.eap.wire = w
<1>0. /\ Head(nasDl).psi \in Psis /\ Head(nasDl).eap.id \in Nat /\ nasDl # << >> /\ Head(nasDl).kind = "command"
      /\ UNCHANGED <<smfVars, relayVars, aaaVars, relayLinkVars, radiusVars>>
  BY UeWireTyped DEF Waiting, UeStep
<1>1. ASSUME sendSmCause PROVE \E m : UeTakes(m) /\ m.kind # "complete"
  <2>1. PICK m : m = Status(Head(nasDl).psi)
    OBVIOUS
  <2>2. m \in UlMsgs /\ m.psi = Head(nasDl).psi /\ m.kind # "complete"
    BY <1>0, <2>1 DEF Status, UlMsgs
  <2>. QED  BY <1>0, <1>1, <2>1, <2>2 DEF sendSmCause, UeTakes
<1>2. ASSUME NEW w \in TWires, ueReply(w) PROVE \E m : UeTakes(m) /\ m.kind = "complete" /\ m.eap.wire = w
  <2>1. PICK m : m = Complete(Head(nasDl).psi, EdhocPacket(Head(nasDl).eap.id, w))
    OBVIOUS
  <2>2. m \in UlMsgs /\ m.psi = Head(nasDl).psi /\ m.kind = "complete" /\ m.eap.wire = w
    BY <1>0, <2>1 DEF Complete, EdhocPacket, UlMsgs, TPackets
  <2>. QED  BY <1>0, <1>2, <2>1, <2>2 DEF ueReply, UeTakes
<1>. QED  BY <1>1, <1>2

(* What the UE has parsed comes from the DN-AAA. *)
LEMMA UeParsedFrom ==
    ASSUME TypeInv, TurnInv, KeyInv, Waiting(nasDl, "command")
    PROVE  FromAaa(ueParsed.in.data.msg) /\ FromAaa(ueParsed.msg.msg)
<1>1. FromAaa(ueIn.data.msg) /\ \A x \in {NoMsg, Junk} : FromAaa(x)
  BY DEF KeyInv, OriginInv, FromAaa
<1>2. FromAaa(ueWire.data.msg)
  <2>1. Down(smf[Head(nasDl).psi].state, ueWire)
    <3>1. nasDl[1] = Head(nasDl) /\ 1 \in DOMAIN nasDl /\ Head(nasDl).kind = "command"
      <4>1. nasDl \in Seq(DlMsgs) /\ nasDl # << >>
        BY DEF TypeInv, N1Typed, Waiting
      <4>2. nasDl[1] = Head(nasDl) /\ Len(nasDl) \in Nat \ {0}
        BY <4>1, TailFacts
      <4>. QED  BY <4>1, <4>2 DEF Waiting
    <3>. QED  BY <3>1, UeWireTyped DEF Down, Commanded, Commands, ueWire
  <2>. QED  BY <2>1 DEF KeyInv, OriginInv
<1>3. MadeOf(ueParsed.in.data, ueIn.data, ueWire.data) /\ MadeOf(ueParsed.msg, ueIn.data, ueWire.data)
  BY UeWireTyped, ParseFacts DEF ueParsed
<1>. QED  BY <1>1, <1>2, <1>3 DEF MadeOf

LEMMA KeyUeQuiet ==
    ASSUME TypeInv, TurnInv, KeyInv, UeStep,
           UeNotProvisioned \/ UeInvalidStart \/ UeParseError \/ UeAckFragment \/ UeAckWhenDone \/ UeProtocolError
    PROVE  KeyInv'
<1>0. aaa' = aaa /\ Waiting(nasDl, "command") /\ ueIn \in TIns
  BY DEF UeStep, aaaVars, UeNotProvisioned, UeInvalidStart, UeParseError, UeAckFragment, UeAckWhenDone, UeProtocolError,
         UeReceiving, ensureEdhocProvisioned, TypeInv, UeTyped
<1>1. FromAaa(ueIn.data.msg) /\ FromAaa(ueParsed.in.data.msg) /\ FromAaa(NoIn.data.msg)
  BY <1>0, UeParsedFrom, EmptyTyped DEF KeyInv, OriginInv, FromAaa
<1>2. ueIn' \in {ueIn, ueParsed.in, NoIn} => FromAaa(ueIn.data.msg)'
  <2>. SUFFICES ASSUME ueIn' \in {ueIn, ueParsed.in, NoIn} PROVE FromAaa(ueIn.data.msg)'
    OBVIOUS
  <2>1. PICK x : x = ueIn'.data.msg
    OBVIOUS
  <2>2. FromAaa(x)
    BY <1>1, <2>1
  <2>. QED  BY <1>0, <2>1, <2>2 DEF FromAaa
<1>3. Ack \in TWires /\ Ack.data.msg = NoMsg
  BY ControlTyped
<1>4. CASE UeNotProvisioned \/ UeInvalidStart \/ UeParseError
  <2>1. PICK m : UeTakes(m) /\ m.kind # "complete"
    BY <1>0, <1>4, UeAnswers DEF UeNotProvisioned, UeInvalidStart, UeParseError
  <2>2. /\ UNCHANGED <<ueEph, ueKeys, ueConfirmed, ueRound, ueCtx, ueOut>>
        /\ ueIn' = ueIn \/ (ueIn' = ueParsed.in /\ ueParsed.status = "error")
    BY <1>4 DEF UeNotProvisioned, UeInvalidStart, UeParseError, UeReceiving, ueVars
  <2>3. OrderInv'
    BY <2>1, <2>2, OrderQuiet
  <2>. QED  BY <1>2, <2>1, <2>2, <2>3, KeyQuiet
<1>5. CASE UeAckFragment
  <2>1. PICK m : UeTakes(m) /\ m.kind = "complete" /\ m.eap.wire = Ack
    BY <1>0, <1>3, <1>5, UeAnswers DEF UeAckFragment
  <2>2. /\ UNCHANGED <<ueEph, ueKeys, ueConfirmed, ueRound, ueCtx, ueOut>>
        /\ ueIn' = ueParsed.in /\ ueParsed.status = "ack"
    BY <1>5 DEF UeAckFragment, UeReceiving
  <2>3. OrderInv'
    BY <1>3, <2>1, <2>2, OrderQuiet DEF Mentions
  <2>4. ueWire.more
    BY <1>0, <2>2, UeWireTyped, ParseFacts DEF ueParsed
  <2>5. ~Due(smf[Head(nasDl).psi].state)
    <3>1. Down(smf[Head(nasDl).psi].state, ueWire)
      BY <2>1, UeTaken DEF ueWire
    <3>. QED  BY <2>4, <3>1 DEF KeyInv, LastInv
  <2>. QED  BY <1>2, <2>1, <2>2, <2>3, <2>5, KeyQuiet
<1>6. CASE UeAckWhenDone
  <2>1. PICK m : UeTakes(m) /\ m.kind = "complete" /\ m.eap.wire = Ack
    BY <1>0, <1>3, <1>6, UeAnswers DEF UeAckWhenDone
  <2>2. UNCHANGED <<ueEph, ueKeys, ueConfirmed, ueRound, ueCtx, ueOut>> /\ ueIn' = ueParsed.in /\ ueRound = 3
    BY <1>6 DEF UeAckWhenDone
  <2>3. OrderInv'
    BY <1>3, <2>1, <2>2, OrderQuiet DEF Mentions
  <2>4. ASSUME Due(smf[Head(nasDl).psi].state)
        PROVE  Msk(aaa[smf[Head(nasDl).psi].state.sid].ctx) \in ueConfirmed
    <3>1. PICK p \in Psis : p = Head(nasDl).psi /\ Commands(p) # {}
      BY <2>1, UeTaken
    <3>2. PICK s \in Sids : s = smf[p].state.sid /\ Holds(p, s)
      <4>1. smf[p].state \in TStates \cup {NoState} /\ smf[p].state # NoState
        BY <2>4, <3>1 DEF TypeInv, SmfTyped, SmfType, Due
      <4>. QED  BY <4>1 DEF TStates, Holds
    <3>3. Rides(p, s)
      BY <3>1, <3>2 DEF Rides
    <3>4. Msk(aaa[s].ctx) \in ueKeys
      BY <2>4, <3>1, <3>2 DEF Due, Final, KeyInv, SessionsInv, SessionOf
    <3>5. Msk(ueCtx) \in ueConfirmed
      BY <2>2 DEF KeyInv, AttemptInv
    <3>6. Old(p, s) => Msk(aaa[s].ctx) = Msk(ueCtx)
      BY <2>2 DEF KeyInv, OrderInv
    <3>. QED  BY <3>1, <3>2, <3>3, <3>4, <3>5, <3>6 DEF Old
  <2>. QED  BY <1>2, <2>1, <2>2, <2>3, <2>4, KeyQuiet
<1>7. CASE UeProtocolError
  <2>1. PICK m : UeTakes(m) /\ m.kind # "complete"
    BY <1>0, <1>7, UeAnswers DEF UeProtocolError
  <2>2. UNCHANGED <<ueEph, ueKeys, ueConfirmed, ueCtx>> /\ ueRound' = -1 /\ ueOut' = NoOut /\ ueIn' = NoIn
    BY <1>7 DEF UeProtocolError
  <2>3. OrderInv'
    BY <2>2 DEF OrderInv
  <2>. QED  BY <1>2, <2>1, <2>2, <2>3, KeyQuiet
<1>. QED  BY <1>4, <1>5, <1>6, <1>7

LEMMA FragmentFacts ==
    ASSUME NEW out \in TOuts, Pending(out)
    PROVE  LET w == EncodeEdhocFragment(out)
           IN  /\ w \in TWires /\ w.data = [msg |-> out.msg, off |-> out.pos, len |-> FragLen(out)]
               /\ FragLen(out) \in Nat /\ FragLen(out) > 0 /\ ~w.start
               /\ w.more \/ out.pos + FragLen(out) >= out.len
               /\ ~Pending(AaaAdvance(out)) => ~w.more
               /\ UeAdvance(out) = [msg |-> out.msg, len |-> out.len, pos |-> out.pos + FragLen(out)]
<1>. DEFINE d == Slice(out.msg, out.pos, FragLen(out))
<1>1. EncodeEdhocFragment(out) \in TWires /\ FragLen(out) \in 1..(out.len - out.pos) /\ out.len \in Nat /\ out.pos \in Nat
  BY FragmentTyped, FragAssumption DEF TOuts
<1>2. FragLen(out) \in Nat /\ FragLen(out) > 0 /\ FragLen(out) <= out.len - out.pos
  BY <1>1
<1>3. d = [msg |-> out.msg, off |-> out.pos, len |-> FragLen(out)]
  BY <1>2 DEF Slice
<1>. HIDE DEF d
<1>4. EncodeEdhocFragment(out) = IF Remaining(out) <= FragLen(out) THEN LastWire(d)
                                 ELSE IF out.pos = 0 THEN FirstWire(out.len % 65536, d) ELSE MoreWire(d)
  BY DEF EncodeEdhocFragment, d
<1>5. /\ LastWire(d).data = d /\ ~LastWire(d).start /\ ~LastWire(d).more
      /\ \A n : FirstWire(n, d).data = d /\ ~FirstWire(n, d).start /\ FirstWire(n, d).more
      /\ MoreWire(d).data = d /\ ~MoreWire(d).start /\ MoreWire(d).more
  BY DEF LastWire, FirstWire, MoreWire, Wire
<1>6. /\ EncodeEdhocFragment(out).data = d /\ ~EncodeEdhocFragment(out).start
      /\ EncodeEdhocFragment(out).more <=> ~(Remaining(out) <= FragLen(out))
  BY <1>4, <1>5
<1>7. UeAdvance(out) = [msg |-> out.msg, len |-> out.len, pos |-> out.pos + FragLen(out)]
  BY DEF UeAdvance, TOuts
<1>8. Remaining(out) <= FragLen(out) <=> out.pos + FragLen(out) >= out.len
  BY <1>1, <1>2 DEF Remaining
<1>9. ~Pending(AaaAdvance(out)) => out.pos + FragLen(out) >= out.len
  BY <1>1, <1>2, <1>7 DEF AaaAdvance, Pending
<1>. QED  BY <1>1, <1>2, <1>3, <1>6, <1>7, <1>8, <1>9

(* The next fragment goes out in answer to whatever command comes.  On a command
   of an earlier attempt it goes to the wrong session. *)
LEMMA KeyUeContinue ==
    ASSUME TypeInv, TurnInv, KeyInv, UeStep, UeContinueResponse
    PROVE  KeyInv'
<1>. DEFINE q == Head(nasDl).psi
<1>0. /\ aaa' = aaa /\ Waiting(nasDl, "command") /\ ueOut \in TOuts /\ Pending(ueOut) /\ ueEph \in Nat
      /\ ueOut' = UeAdvance(ueOut) /\ UNCHANGED <<ueRound, ueCtx, ueIn, ueEph, ueKeys, ueConfirmed>>
  BY DEF UeStep, aaaVars, UeContinueResponse, ensureEdhocProvisioned, TypeInv, UeTyped
<1>1. PICK w \in TWires :
          /\ w = EncodeEdhocFragment(ueOut) /\ ueReply(w)
          /\ w.data.msg = ueOut.msg /\ w.data.off = ueOut.pos /\ w.data.len = FragLen(ueOut)
          /\ FragLen(ueOut) \in Nat /\ FragLen(ueOut) > 0
          /\ ueOut'.msg = ueOut.msg /\ ueOut'.len = ueOut.len /\ ueOut'.pos = ueOut.pos + FragLen(ueOut)
  <2>1. PICK w : w = EncodeEdhocFragment(ueOut)
    OBVIOUS
  <2>2. /\ w \in TWires /\ w.data = [msg |-> ueOut.msg, off |-> ueOut.pos, len |-> FragLen(ueOut)]
        /\ FragLen(ueOut) \in Nat /\ FragLen(ueOut) > 0
        /\ ueOut' = [msg |-> ueOut.msg, len |-> ueOut.len, pos |-> ueOut.pos + FragLen(ueOut)]
    BY <1>0, <2>1, FragmentFacts
  <2>3. ueReply(w)
    BY <2>1 DEF UeContinueResponse
  <2>. QED  BY <2>1, <2>2, <2>3
<1>2. PICK m : UeTakes(m) /\ m.kind = "complete" /\ m.eap.wire = w
  BY <1>0, <1>1, UeAnswers
<1>3. ueOut.pos \in Nat /\ ueOut.len \in Nat /\ ueOut.pos < ueOut.len /\ ueOut.len <= MaxMsg /\ MaxMsg \in Nat
  BY <1>0, FragAssumption DEF TOuts, Pending
<1>4. FromUe(ueOut.msg)' /\ FromUe(w.data.msg)'
  BY <1>0, <1>1 DEF KeyInv, OriginInv, FromUe
<1>5. FromAaa(ueIn.data.msg)'
  BY <1>0 DEF KeyInv, OriginInv, FromAaa
<1>6. KeysInv'
  BY <1>0 DEF KeyInv, KeysInv
<1>7. AttemptInv'
  <2>1. ueRound' = 1 => ueOut'.pos > 0
    BY <1>1, <1>3
  <2>. QED  BY <1>0, <1>1, <2>1 DEF KeyInv, AttemptInv, Msk
<1>8. /\ q \in Psis /\ smfWait # q
      /\ \A st, v : Up(st, v)' => Up(st, v) \/ (st = smf[q].state /\ v = w)
  BY <1>2, UeTaken
<1>9. ueRound = 1 => /\ ueOut.len = Msg1Len
                     /\ \A st, v : Up(st, v) /\ Mentions(v.data, ueEph) => v.data.off + v.data.len <= ueOut.pos
                     /\ \A s \in Sids : Mentions(aaa[s].in.data, ueEph) => aaa[s].in.data.off + aaa[s].in.data.len <= ueOut.pos
                     /\ \A s \in Sids : aaa[s].ctx.eph # ueEph
  BY <1>0 DEF KeyInv, CoverInv, AttemptInv
<1>10. /\ \A v \in TWires : v.data.off \in Nat /\ v.data.len \in Nat
       /\ \A s \in Sids : aaa[s].in.data.off \in Nat /\ aaa[s].in.data.len \in Nat
  <2>1. aaa \in [Sids -> TSessions]
    BY DEF TypeInv, AaaTyped
  <2>. QED  BY <2>1, FragAssumption DEF TSessions, TIns, TRuns, TWires
<1>11. \A st, v : Up(st, v) => v \in TWires /\ st \in TStates \cup {NoState}
  BY ItemsTyped
<1>12. CoverInv'
  <2>. SUFFICES ASSUME ueRound = 1
                PROVE  /\ \A st, v : Up(st, v)' /\ Mentions(v.data, ueEph) => v.data.off + v.data.len <= ueOut'.pos
                       /\ \A s \in Sids : Mentions(aaa[s].in.data, ueEph) => aaa[s].in.data.off + aaa[s].in.data.len <= ueOut'.pos
                       /\ \A s \in Sids : aaa[s].ctx.eph # ueEph
    BY <1>0 DEF CoverInv, Mentions
  <2>1. ASSUME NEW st, NEW v, Up(st, v)', Mentions(v.data, ueEph) PROVE v.data.off + v.data.len <= ueOut'.pos
    <3>1. CASE Up(st, v)
      <4>1. v.data.off + v.data.len <= ueOut.pos /\ v.data.off \in Nat /\ v.data.len \in Nat
        BY <1>9, <1>10, <1>11, <2>1, <3>1
      <4>. QED  BY <1>1, <1>3, <4>1
    <3>2. CASE v = w
      BY <1>1, <1>3, <3>2
    <3>. QED  BY <1>8, <2>1, <3>1, <3>2
  <2>2. ASSUME NEW s \in Sids, Mentions(aaa[s].in.data, ueEph) PROVE aaa[s].in.data.off + aaa[s].in.data.len <= ueOut'.pos
    <3>1. aaa[s].in.data.off + aaa[s].in.data.len <= ueOut.pos /\ aaa[s].in.data.off \in Nat /\ aaa[s].in.data.len \in Nat
      BY <1>9, <1>10, <2>2
    <3>. QED  BY <1>1, <1>3, <3>1
  <2>. QED  BY <1>9, <2>1, <2>2
<1>13. \A p \in Psis : \A s \in Sids :
          Old(p, s)' => Old(p, s) /\ Msk(aaa[s].ctx)' = Msk(aaa[s].ctx) /\ (p = q => Holds(p, s))
  BY <1>0, <1>2, OldUe
<1>14. OrderInv'
  <2>1. ueRound \in {2, 3} => OrderInv'
    <3>1. ueRound \in {2, 3} => ueRound' # 1
      BY <1>0
    <3>2. Msk(ueCtx)' = Msk(ueCtx)
      BY <1>0 DEF Msk
    <3>. QED  BY <1>0, <1>13, <3>1, <3>2 DEF KeyInv, OrderInv
  <2>2. ASSUME ueRound = 1 PROVE Polluted' \/ Spoiled' \/ \A p \in Psis, s \in Sids : Old(p, s)' => Ahead(p)'
    <3>1. Polluted => Polluted'
      BY <1>0 DEF Polluted, Mentions
    <3>2. ASSUME NEW a \in 0..MaxMsg, SpoiledAt(a) PROVE SpoiledAt(a)'
      <4>1. a \in Nat /\ a < ueOut.pos
        BY <1>3, <3>2 DEF SpoiledAt
      <4>2. ASSUME NEW st, NEW v, Up(st, v)', Mentions(v.data, ueEph)
            PROVE  v.data.off + v.data.len <= a \/ v.data.off > a \/ (st # NoState /\ aaa[st.sid].round # 0)
        BY <1>1, <1>3, <1>8, <3>2, <4>1, <4>2 DEF SpoiledAt
      <4>3. a < ueOut'.pos
        BY <1>1, <1>3, <4>1
      <4>. QED  BY <1>0, <3>2, <4>2, <4>3 DEF SpoiledAt, Mentions
    <3>3. CASE \E s \in Sids : Old(q, s) /\ Holds(q, s)
      <4>1. PICK s \in Sids : Old(q, s) /\ Holds(q, s)
        BY <3>3
      <4>2. smf[q].state # NoState /\ smf[q].state.sid = s /\ aaa[s].round # 0
        BY <4>1, KnownKey DEF Old, Holds
      <4>3. PICK a \in 0..MaxMsg : a = ueOut.pos
        BY <1>3
      <4>4. a > 0 /\ a < Msg1Len /\ a < ueOut'.pos /\ a \in Nat
        BY <1>1, <1>3, <1>9, <2>2, <4>3 DEF KeyInv, AttemptInv
      <4>5. ASSUME NEW st, NEW v, Up(st, v)', Mentions(v.data, ueEph)
            PROVE  v.data.off + v.data.len <= a \/ v.data.off > a \/ (st # NoState /\ aaa[st.sid].round # 0)
        BY <1>8, <1>9, <2>2, <4>2, <4>3, <4>5
      <4>6. ASSUME NEW t \in Sids, Mentions(aaa[t].in.data, ueEph), aaa[t].in.data.off = 0 PROVE aaa[t].in.data.len <= a
        <5>1. aaa[t].in.data.off + aaa[t].in.data.len <= a /\ aaa[t].in.data.len \in Nat
          BY <1>9, <1>10, <2>2, <4>3, <4>6
        <5>. QED  BY <4>4, <4>6, <5>1
      <4>7. SpoiledAt(a)'
        BY <1>0, <1>9, <2>2, <4>4, <4>5, <4>6 DEF SpoiledAt, Mentions
      <4>. QED  BY <4>7 DEF Spoiled
    <3>4. CASE ~\E s \in Sids : Old(q, s) /\ Holds(q, s)
      <4>1. ASSUME NEW p \in Psis, NEW s \in Sids, Old(p, s)', Ahead(p) PROVE Ahead(p)'
        <5>1. p # q
          BY <1>13, <3>4, <4>1
        <5>. QED  BY <1>0, <1>2, <4>1, <5>1, UeKeepsOrder DEF Mentions
      <4>2. Polluted \/ Spoiled \/ \A p \in Psis, s \in Sids : Old(p, s) => Ahead(p)
        BY <2>2 DEF KeyInv, OrderInv
      <4>. QED  BY <1>13, <3>1, <3>2, <4>1, <4>2 DEF Spoiled
    <3>. QED  BY <3>3, <3>4
  <2>. QED  BY <1>0, <2>1, <2>2 DEF OrderInv
<1>. QED  BY <1>0, <1>1, <1>2, <1>4, <1>5, <1>6, <1>7, <1>12, <1>14, KeyUe

(* A new attempt: nothing mentions it yet, and an earlier one whose command starts
   it would have a session in its first round. *)
LEMMA KeyUeStart ==
    ASSUME TypeInv, TurnInv, CurrentInv, KeyInv, UeStep, UeStart
    PROVE  KeyInv'
<1>. DEFINE q == Head(nasDl).psi
<1>0. /\ aaa' = aaa /\ smfWait' = smfWait /\ Waiting(nasDl, "command") /\ ueEph \in Nat /\ ueWire = StartWire
      /\ ueRound' = 1 /\ ueEph' = ueEph + 1 /\ ueCtx' = edhoc4_init_initiator(ueEph + 1)
      /\ UNCHANGED <<ueIn, ueKeys, ueConfirmed>>
  BY DEF UeStep, aaaVars, smfVars, UeStart, ensureEdhocProvisioned, TypeInv, UeTyped
<1>1. PICK e \in Nat : e = ueEph + 1 /\ e > ueEph
  BY <1>0
<1>2. PICK x \in TMsgs : x = EdhocMsg("msg1", e, 0)
  BY DEF EdhocMsg, TMsgs, FirstTypes
<1>3. PICK o \in TOuts : o = NewOut(x, Msg1Len) /\ Pending(o) /\ o.msg = x /\ o.pos = 0 /\ o.len = Msg1Len
  BY MsgLenAssumption, NewOutTyped DEF NewOut
<1>4. PICK w \in TWires :
          /\ w = EncodeEdhocFragment(o)
          /\ w.data.msg = x /\ w.data.off = 0 /\ w.data.len = FragLen(o) /\ FragLen(o) \in Nat /\ FragLen(o) > 0
          /\ UeAdvance(o).msg = x /\ UeAdvance(o).len = Msg1Len /\ UeAdvance(o).pos = FragLen(o)
  <2>1. PICK w : w = EncodeEdhocFragment(o)
    OBVIOUS
  <2>2. /\ w \in TWires /\ w.data = [msg |-> o.msg, off |-> o.pos, len |-> FragLen(o)]
        /\ FragLen(o) \in Nat /\ FragLen(o) > 0
        /\ UeAdvance(o) = [msg |-> o.msg, len |-> o.len, pos |-> o.pos + FragLen(o)]
    BY <1>3, <2>1, FragmentFacts
  <2>. QED  BY <1>3, <2>1, <2>2
<1>5. ueReply(w) /\ ueOut' = UeAdvance(o)
  BY <1>1, <1>2, <1>3, <1>4 DEF UeStart
<1>6. PICK m : UeTakes(m) /\ m.kind = "complete" /\ m.eap.wire = w
  BY <1>0, <1>4, <1>5, UeAnswers
<1>7. /\ \A s \in Sids : aaa[s].ctx.eph # e /\ ~Mentions(aaa[s].in.data, e)
      /\ \A st, v : Up(st, v) \/ Down(st, v) => ~Mentions(v.data, e)
      /\ ~Mentions(ueIn.data, e)
  BY <1>1, NotYet
<1>8. x \notin {NoMsg, Junk} => x.eph = e /\ x.type = "msg1"
  BY <1>2 DEF EdhocMsg
<1>9. FromUe(ueOut.msg)' /\ FromUe(w.data.msg)'
  BY <1>0, <1>1, <1>4, <1>5, <1>8 DEF FromUe
<1>10. FromAaa(ueIn.data.msg)'
  BY <1>0 DEF KeyInv, OriginInv, FromAaa
<1>11. KeysInv'
  BY <1>0 DEF KeyInv, KeysInv
<1>12. AttemptInv'
  <2>1. ueCtx'.eph = e
    BY <1>0, <1>1 DEF edhoc4_init_initiator, NoCtx
  <2>2. ueRound' # 3 /\ ueEph' = e /\ e > 0 /\ e <= e
    BY <1>0, <1>1
  <2>3. ueOut'.msg = x /\ ueOut'.len = Msg1Len /\ ueOut'.pos > 0
    BY <1>4, <1>5
  <2>. QED  BY <1>2, <2>1, <2>2, <2>3 DEF AttemptInv
<1>13. /\ q \in Psis /\ smfWait # q /\ smf[q].inProgress /\ Down(smf[q].state, ueWire)
       /\ \A st, v : Up(st, v)' => Up(st, v) \/ v = w
       /\ \A st, v : Passed(st, v)' => Passed(st, v)
       /\ \A st, v : Down(st, v)' => Down(st, v)
  BY <1>6, UeTaken DEF ueWire
<1>14. CoverInv'
  <2>1. \A st, v : Up(st, v)' /\ Mentions(v.data, e) => v.data.off + v.data.len <= ueOut'.pos
    BY <1>4, <1>5, <1>7, <1>13
  <2>. QED  BY <1>0, <1>1, <1>7, <2>1 DEF CoverInv
<1>15. ASSUME NEW p \in Psis, NEW s \in Sids, Old(p, s)' PROVE Ahead(p)'
  <2>1. Old(p, s) /\ (p = q => Holds(p, s))
    BY <1>0, <1>6, <1>15, OldUe
  <2>2. aaa[s].round # 0
    BY <2>1, KnownKey DEF Old
  <2>3. p # q
    <3>. SUFFICES ASSUME p = q PROVE FALSE
      OBVIOUS
    <3>1. StartWire.start
      BY DEF StartWire, Ack, LastWire, Wire
    <3>2. smf[p].state # NoState /\ smf[p].state.trip = 0 /\ smf[p].state.sid = s
      BY <1>0, <1>13, <2>1, <3>1 DEF KeyInv, LastInv, Holds
    <3>3. aaa[s].trip = 0
      BY <1>13, <3>2 DEF CurrentInv, CurrentOf, Idle, Current
    <3>. QED  BY <2>2, <3>3 DEF KeyInv, SessionsInv, SessionOf
  <2>4. Clean'
    <3>1. \A st, v : Passed(st, v) => Up(st, v)
      BY DEF Up
    <3>. QED  BY <1>0, <1>1, <1>7, <1>13, <3>1 DEF Clean
  <2>5. ASSUME NEW i \in Answers(p)' PROVE UlClear(i)'
    <3>1. /\ N1Typed /\ nasUl' = Append(nasUl, m) /\ m \in UlMsgs /\ m.psi = q
      BY <1>6 DEF UeTakes, TypeInv
    <3>2. i \in Answers(p)
      BY <2>3, <2>5, <3>1, PushUl
    <3>3. i \in Nat /\ i <= Len(nasUl) /\ Len(nasUl) \in Nat
      BY <3>1, <3>2, IndexTyped
    <3>4. nasUl \in Seq(UlMsgs) /\ DOMAIN nasUl = 1..Len(nasUl)
      BY <3>1 DEF N1Typed
    <3>5. ASSUME NEW j \in DOMAIN nasUl', j <= i PROVE j \in DOMAIN nasUl /\ nasUl'[j] = nasUl[j]
      <4>1. Len(nasUl') = Len(nasUl) + 1 /\ nasUl' \in Seq(UlMsgs) /\ \A k \in 1..Len(nasUl) : nasUl'[k] = nasUl[k]
        BY <3>1, <3>4, AppendFacts
      <4>2. j \in 1..(Len(nasUl) + 1)
        BY <4>1
      <4>. QED  BY <3>3, <3>4, <3>5, <4>1, <4>2
    <3>6. ASSUME NEW j \in DOMAIN nasUl, nasUl[j].kind = "complete" PROVE ~Mentions(nasUl[j].eap.wire.data, e)
      <4>1. nasUl[j] \in UlMsgs
        BY <3>4
      <4>2. nasUl[j].psi \in Psis
        BY <3>6, <4>1 DEF UlMsgs
      <4>3. Up(smf[nasUl[j].psi].state, nasUl[j].eap.wire)
        BY <3>6, <4>2 DEF Up, Answering, Answers
      <4>. QED  BY <1>7, <4>3
    <3>. QED  BY <1>0, <1>1, <3>5, <3>6 DEF UlClear
  <2>6. ASSUME NEW i \in Commands(p)' PROVE DlClear(i)'
    <3>1. ASSUME NEW j \in DOMAIN nasDl', nasDl'[j].kind = "command" PROVE ~Mentions(nasDl'[j].eap.wire.data, e)
      <4>1. nasDl' \in Seq(DlMsgs)
        BY <1>6, TailFacts DEF UeTakes, TypeInv, N1Typed
      <4>2. nasDl'[j] \in DlMsgs
        BY <4>1
      <4>3. nasDl'[j].psi \in Psis
        BY <3>1, <4>2 DEF DlMsgs
      <4>4. PICK r \in Psis : r = nasDl'[j].psi
        BY <4>3
      <4>5. PICK v : v = nasDl'[j].eap.wire
        OBVIOUS
      <4>6. Commanded(r, v)'
        BY <3>1, <4>4, <4>5 DEF Commanded, Commands
      <4>7. PICK st : st = smf'[r].state
        OBVIOUS
      <4>8. Down(st, v)'
        BY <4>6, <4>7 DEF Down
      <4>. QED  BY <1>7, <1>13, <4>5, <4>8
    <3>. QED  BY <1>0, <1>1, <3>1 DEF DlClear
  <2>7. ~Mentions(ueIn.data, ueEph)'
    BY <1>0, <1>1, <1>7 DEF Mentions
  <2>. QED  BY <2>4, <2>5, <2>6, <2>7 DEF Ahead
<1>16. OrderInv'
  BY <1>0, <1>15 DEF OrderInv
<1>17. ueEph' \in Nat /\ ueEph <= ueEph'
  BY <1>0
<1>18. ~(w.data.len = 0)
  BY <1>4
<1>. QED  BY <1>0, <1>6, <1>9, <1>10, <1>11, <1>12, <1>14, <1>16, <1>17, <1>18, KeyUe

(* message_2: it mentions the attempt, so it did not come past an earlier one that
   is still ahead, nor through foreign bytes. *)
LEMMA KeyUeMsg2 ==
    ASSUME TypeInv, TurnInv, KeyInv, UeStep, UeHandleMsg2
    PROVE  KeyInv'
<1>. DEFINE q == Head(nasDl).psi
<1>0. /\ aaa' = aaa /\ Waiting(nasDl, "command") /\ ueEph \in Nat /\ ueRound = 1 /\ ueRound' = 2
      /\ ueParsed.status = "msg" /\ ueIn' = ueParsed.in /\ UNCHANGED <<ueEph, ueConfirmed>>
      /\ ueCtx \in Ctxs /\ ueKeys \subseteq Nat \X Sids
  BY DEF UeStep, aaaVars, UeHandleMsg2, UeReceiving, ensureEdhocProvisioned, TypeInv, UeTyped
<1>1. ueCtx.eph = ueEph
  BY <1>0 DEF KeyInv, AttemptInv
<1>2. PICK d \in TRuns : d = ueParsed.msg /\ Whole(d, "msg2") /\ d.msg.eph = ueEph /\ FromAaa(d.msg)
                         /\ MadeOf(d, ueIn.data, ueWire.data)
                         /\ (ueIn.data.len > 0 => d.msg \in {Junk, ueIn.data.msg})
  <2>1. /\ ueParsed.msg \in TRuns /\ Whole(ueParsed.msg, "msg2") /\ ueParsed.msg.msg.eph = ueEph
    BY <1>0, <1>1, UeWireTyped DEF UeHandleMsg2, edhoc4_i_handle_msg2_ok
  <2>2. FromAaa(ueParsed.msg.msg)
    BY <1>0, UeParsedFrom
  <2>3. MadeOf(ueParsed.msg, ueIn.data, ueWire.data) /\ (ueIn.data.len > 0 => ueParsed.msg.msg \in {Junk, ueIn.data.msg})
    BY <1>0, UeWireTyped, ParseFacts DEF ueParsed
  <2>. QED  BY <2>1, <2>2, <2>3
<1>3. PICK s \in Sids : s = d.msg.sid /\ aaa[s].round # 0 /\ aaa[s].ctx.eph = ueEph
  <2>1. d.msg \notin {NoMsg, Junk} /\ d.msg.type = "msg2" /\ d.msg \in TMsgs
    BY <1>2 DEF Whole, TRuns
  <2>2. d.msg.sid \in Sids
    BY <2>1 DEF TMsgs, FirstTypes
  <2>. QED  BY <1>2, <2>1, <2>2 DEF FromAaa
<1>4. PICK c \in Ctxs : c = ueCtx' /\ c.eph = ueEph /\ c.sid = s /\ ueKeys' = ueKeys \cup {Msk(c)} /\ Msk(c) = <<ueEph, s>>
  <2>1. PICK c : c = edhoc4_i_handle_msg2(ueCtx, ueParsed.msg)
    OBVIOUS
  <2>2. c = [ueCtx EXCEPT !.sid = s]
    BY <1>2, <1>3, <2>1 DEF edhoc4_i_handle_msg2
  <2>3. c \in Ctxs /\ c.eph = ueEph /\ c.sid = s
    BY <1>0, <1>1, <2>2 DEF Ctxs
  <2>4. ueCtx' = c /\ ueKeys' = ueKeys \cup {Msk(c)}
    BY <2>1 DEF UeHandleMsg2
  <2>. QED  BY <2>3, <2>4 DEF Msk
<1>5. PICK x \in TMsgs : x = EdhocMsg("msg3", ueEph, s)
  BY <1>0 DEF EdhocMsg, TMsgs, FirstTypes, MsgTypes
<1>6. PICK o \in TOuts : o = NewOut(x, Msg3Len) /\ Pending(o) /\ o.msg = x
  BY MsgLenAssumption, NewOutTyped
<1>7. PICK w \in TWires :
          w = EncodeEdhocFragment(o) /\ w.data.msg = x /\ w.data.len > 0 /\ UeAdvance(o).msg = x
  <2>1. PICK w : w = EncodeEdhocFragment(o)
    OBVIOUS
  <2>2. /\ w \in TWires /\ w.data = [msg |-> o.msg, off |-> o.pos, len |-> FragLen(o)] /\ FragLen(o) > 0
        /\ UeAdvance(o) = [msg |-> o.msg, len |-> o.len, pos |-> o.pos + FragLen(o)]
    BY <1>6, <2>1, FragmentFacts
  <2>. QED  BY <1>6, <2>1, <2>2
<1>8. ueReply(w) /\ ueOut' = UeAdvance(o)
  <2>1. PICK c2 : c2 = edhoc4_i_handle_msg2(ueCtx, ueParsed.msg)
    OBVIOUS
  <2>2. c2 = ueCtx' /\ ueReply(EncodeEdhocFragment(NewOut(EdhocMsg("msg3", c2.eph, c2.sid), Msg3Len)))
        /\ ueOut' = UeAdvance(NewOut(EdhocMsg("msg3", c2.eph, c2.sid), Msg3Len))
    BY <2>1 DEF UeHandleMsg2
  <2>. QED  BY <1>4, <1>5, <1>6, <1>7, <2>2
<1>9. PICK m : UeTakes(m) /\ m.kind = "complete" /\ m.eap.wire = w
  BY <1>0, <1>7, <1>8, UeAnswers
<1>10. FromUe(ueOut.msg)' /\ FromUe(w.data.msg)'
  <2>1. x.eph = ueEph /\ x.sid = s /\ x.type = "msg3" /\ <<ueEph, s>> \in ueKeys'
    BY <1>4, <1>5 DEF EdhocMsg
  <2>. QED  BY <1>0, <1>7, <1>8, <2>1 DEF FromUe
<1>11. FromAaa(ueIn.data.msg)'
  <2>1. PICK y : y = ueParsed.in.data.msg /\ FromAaa(y)
    BY <1>0, UeParsedFrom
  <2>. QED  BY <1>0, <2>1 DEF FromAaa
<1>12. KeysInv'
  BY <1>0, <1>3, <1>4 DEF KeyInv, KeysInv
<1>13. AttemptInv' /\ CoverInv'
  BY <1>0, <1>4 DEF AttemptInv, CoverInv
<1>14. Mentions(d, ueEph)
  BY <1>2 DEF Mentions, Whole
<1>15. ASSUME NEW p \in Psis, NEW t \in Sids, Old(p, t)', Msk(aaa[t].ctx) # Msk(c) PROVE FALSE
  <2>1. Rides(p, t) /\ (p = q => Holds(p, t))
    BY <1>9, <1>15, UeTaken DEF Old
  <2>2. Old(p, t)
    BY <1>0, <1>4, <1>15, <2>1 DEF Old, Msk
  <2>3. ~Polluted
    BY <1>2, <1>14 DEF Polluted, Mentions
  <2>4. ~Spoiled
    BY <1>3 DEF Spoiled, SpoiledAt
  <2>5. Ahead(p)
    BY <1>0, <2>2, <2>3, <2>4 DEF KeyInv, OrderInv
  <2>6. ~Clean
    BY <1>3 DEF Clean
  <2>7. PICK i \in Commands(p) : ~Mentions(ueIn.data, ueEph) /\ DlClear(i)
    <3>1. smfWait # p /\ Answers(p) = {}
      BY <2>5, <2>6 DEF Ahead
    <3>2. Commands(p) # {}
      BY <2>1, <3>1 DEF Rides, Answering
    <3>. QED  BY <2>5, <3>2 DEF Ahead
  <2>8. ~Mentions(ueWire.data, ueEph)
    <3>1. 1 \in Commands(q) /\ nasDl[1].eap.wire = ueWire
      BY <1>9, UeTaken DEF ueWire
    <3>2. 1 \in DOMAIN nasDl /\ nasDl[1].kind = "command"
      BY <3>1 DEF Commands
    <3>3. 1 <= i
      BY <2>7, IndexTyped DEF TypeInv
    <3>. QED  BY <2>7, <3>1, <3>2, <3>3 DEF DlClear
  <2>. QED  BY <1>2, <1>14, <2>7, <2>8, Unmentioned
<1>16. OrderInv'
  <2>1. ASSUME NEW p \in Psis, NEW t \in Sids, Old(p, t)' PROVE Msk(aaa[t].ctx)' = Msk(ueCtx)'
    BY <1>0, <1>4, <1>15, <2>1 DEF Msk
  <2>2. ueRound' # 1
    BY <1>0
  <2>. QED  BY <2>1, <2>2 DEF OrderInv
<1>17. ueKeys \subseteq ueKeys' /\ ueEph' \in Nat /\ ueEph <= ueEph' /\ ueConfirmed \subseteq ueConfirmed' /\ ~(w.data.len = 0)
  BY <1>0, <1>4, <1>7
<1>. QED  BY <1>9, <1>10, <1>11, <1>12, <1>13, <1>16, <1>17, KeyUe

(* message_4: if the last bytes of one were due here, it is theirs. *)
LEMMA KeyUeMsg4 ==
    ASSUME TypeInv, TurnInv, KeyInv, UeStep, UeHandleMsg4
    PROVE  KeyInv'
<1>. DEFINE q == Head(nasDl).psi
<1>0. /\ aaa' = aaa /\ Waiting(nasDl, "command") /\ ueEph \in Nat /\ ueRound = 2 /\ ueRound' = 3
      /\ ueParsed.status = "msg" /\ ueIn' = ueParsed.in /\ UNCHANGED <<ueEph, ueKeys, ueOut>>
      /\ ueCtx \in Ctxs /\ ueConfirmed' = ueConfirmed \cup {Msk(ueCtx)} /\ ueCtx.sid \in Sids
      /\ ueCtx' = [ueCtx EXCEPT !.done = TRUE]
  BY DEF UeStep, aaaVars, UeHandleMsg4, UeReceiving, ensureEdhocProvisioned, TypeInv, UeTyped, edhoc4_i_handle_msg4
<1>1. ueCtx'.eph = ueCtx.eph /\ ueCtx'.sid = ueCtx.sid
  BY <1>0 DEF Ctxs
<1>2. PICK d \in TRuns : d = ueParsed.msg /\ d.msg \notin {NoMsg, Junk} /\ d.msg.type = "msg4"
                         /\ d.msg.eph = ueCtx.eph /\ d.msg.sid = ueCtx.sid /\ FromAaa(d.msg)
                         /\ (ueWire.data.len > 0 => d.msg \in {Junk, ueWire.data.msg})
  <2>1. /\ ueParsed.msg \in TRuns /\ Whole(ueParsed.msg, "msg4") /\ Ours(ueCtx, ueParsed.msg.msg)
    BY <1>0, UeWireTyped DEF UeHandleMsg4, edhoc4_i_handle_msg4_ok
  <2>2. FromAaa(ueParsed.msg.msg)
    BY <1>0, UeParsedFrom
  <2>3. ueWire.data.len > 0 => ueParsed.msg.msg \in {Junk, ueWire.data.msg}
    BY <1>0, UeWireTyped, ParseFacts DEF ueParsed
  <2>. QED  BY <2>1, <2>2, <2>3 DEF Whole, Ours
<1>3. aaa[ueCtx.sid].ctx.done
  BY <1>2 DEF FromAaa
<1>4. Ack \in TWires /\ Ack.data.msg = NoMsg
  BY ControlTyped
<1>5. PICK m : UeTakes(m) /\ m.kind = "complete" /\ m.eap.wire = Ack
  BY <1>0, <1>4, UeAnswers DEF UeHandleMsg4
<1>6. FromUe(ueOut.msg)' /\ FromUe(Ack.data.msg)'
  BY <1>0, <1>4 DEF KeyInv, OriginInv, FromUe
<1>7. FromAaa(ueIn.data.msg)'
  <2>1. PICK y : y = ueParsed.in.data.msg /\ FromAaa(y)
    BY <1>0, UeParsedFrom
  <2>. QED  BY <1>0, <2>1 DEF FromAaa
<1>8. KeysInv'
  BY <1>0 DEF KeyInv, KeysInv
<1>9. Msk(ueCtx)' = Msk(ueCtx)
  BY <1>1 DEF Msk
<1>10. AttemptInv' /\ CoverInv'
  BY <1>0, <1>1, <1>3, <1>9 DEF KeyInv, AttemptInv, CoverInv
<1>11. OrderInv'
  <2>1. \A p \in Psis : \A s \in Sids : Old(p, s)' => Old(p, s) /\ Msk(aaa[s].ctx)' = Msk(aaa[s].ctx)
    BY <1>0, <1>5, OldUe
  <2>2. ueRound' # 1 /\ ueRound \in {2, 3}
    BY <1>0
  <2>. QED  BY <1>9, <2>1, <2>2 DEF KeyInv, OrderInv
<1>12. ASSUME Due(smf[q].state) PROVE Msk(aaa[smf[q].state.sid].ctx) \in ueConfirmed'
  <2>1. PICK st : st = smf[q].state
    OBVIOUS
  <2>2. Down(st, ueWire)
    BY <1>5, <2>1, UeTaken DEF ueWire
  <2>3. ueWire.data.len > 0 /\ ueWire.data.msg = EdhocMsg("msg4", aaa[st.sid].ctx.eph, st.sid)
    BY <1>12, <2>1, <2>2 DEF KeyInv, LastInv
  <2>4. aaa[st.sid].ctx.eph = ueCtx.eph /\ st.sid = ueCtx.sid
    <3>1. d.msg = EdhocMsg("msg4", aaa[st.sid].ctx.eph, st.sid)
      BY <1>2, <2>3
    <3>. QED  BY <1>2, <3>1 DEF EdhocMsg
  <2>5. aaa[st.sid].ctx.sid = st.sid
    BY <1>0, <1>12, <2>1, <2>4 DEF Due, Final, KeyInv, SessionsInv, SessionOf
  <2>. QED  BY <1>0, <2>1, <2>4, <2>5 DEF Msk
<1>13. ueEph' \in Nat /\ ueEph <= ueEph' /\ ueKeys \subseteq ueKeys' /\ ueConfirmed \subseteq ueConfirmed'
  BY <1>0
<1>. QED  BY <1>5, <1>6, <1>7, <1>8, <1>10, <1>11, <1>12, <1>13, KeyUe

LEMMA KeyUeStep ==
    ASSUME TypeInv, TurnInv, CurrentInv, KeyInv, UeStep
    PROVE  KeyInv'
<1>1. CASE receivePduSessionAuthenticationResult
  <2>1. Resting
    BY <1>1 DEF UeStep, receivePduSessionAuthenticationResult, Resting, aaaVars
  <2>2. SameEnds
    BY <2>1 DEF Resting, SameEnds, ueVars, UeStep, aaaVars
  <2>3. Calm
    BY <1>1, <2>2, CalmLose DEF UeStep
  <2>. QED  BY <2>1, <2>3, KeyCalm
<1>2. CASE receivePduSessionAuthenticationCommand
  BY <1>2, KeyUeQuiet, KeyUeContinue, KeyUeStart, KeyUeMsg2, KeyUeMsg4 DEF receivePduSessionAuthenticationCommand
<1>. QED  BY <1>1, <1>2 DEF UeStep, UeNext

-----------------------------------------------------------------------------
(* The DN-AAA.  A request leaves the queue, its answer reaches an open socket. *)
LEMMA AaaPassesOn ==
    ASSUME TypeInv, NEW i \in DOMAIN radiusReq, NEW rsp, Answer(i, rsp),
           UNCHANGED <<smfVars, relayVars, n1Vars, relayLinkVars>>
    PROVE  /\ \A st, w : (Up(st, w)' => Up(st, w)) /\ (Passed(st, w)' => Passed(st, w))
           /\ \A st, w : Down(st, w)' => Down(st, w) \/ Challenged(rsp, st, w)
           /\ \A p \in Psis : \A s \in Sids :
                  Rides(p, s)' => Rides(p, s) \/ (smfWait = p /\ relayCur = "open" /\ radiusReq[i].open /\ Names(rsp, s))
<1>0. /\ relayCur' = relayCur /\ relayReq' = relayReq /\ relayRsp' = relayRsp /\ smf' = smf /\ nasUl' = nasUl /\ nasDl' = nasDl
      /\ smfWait' = smfWait /\ radiusReq' = RemoveAt(radiusReq, i)
      /\ radiusRsp' = (IF radiusReq[i].open THEN rsp ELSE radiusRsp) /\ radiusReq \in Seq(TRequests)
  BY DEF smfVars, relayVars, relayLinkVars, n1Vars, Answer, TypeInv, RadiusTyped
<1>1. ASSUME NEW st, NEW w, Passed(st, w)' PROVE Passed(st, w)
  <2>1. Queued(RemoveAt(radiusReq, i), st, w) \/ Queued(relayReq, st, w)
    BY <1>0, <1>1 DEF Passed, Queued
  <2>. QED  BY <1>0, <2>1, QueuedMoves DEF Passed
<1>2. \A p : Commands(p)' = Commands(p) /\ Answers(p)' = Answers(p)
  BY <1>0 DEF Commands, Answers
<1>3. \A p, w : (Answering(p, w)' <=> Answering(p, w)) /\ (Commanded(p, w)' <=> Commanded(p, w))
  BY <1>0, <1>2 DEF Answering, Commanded
<1>4. \A st, w : Up(st, w)' => Up(st, w)
  BY <1>0, <1>1, <1>3 DEF Up
<1>5. \A st, w : Down(st, w)' => Down(st, w) \/ Challenged(rsp, st, w)
  BY <1>0, <1>3 DEF Down, Challenged, IsChallenge
<1>6. \A p \in Psis : \A s \in Sids :
          Rides(p, s)' => Rides(p, s) \/ (smfWait = p /\ relayCur = "open" /\ radiusReq[i].open /\ Names(rsp, s))
  BY <1>0, <1>2, <1>3 DEF Rides, Holds, Named, Names, IsChallenge
<1>. QED  BY <1>1, <1>4, <1>5, <1>6

(* How session s goes on as n with the bytes d that came: it keeps its context,
   or takes one from a whole message_1. *)
GoesOn(s, n, d) ==
    /\ aaa[s].round # 0 =>
           /\ n.round # 0 /\ n.ctx.eph = aaa[s].ctx.eph /\ n.ctx.sid = aaa[s].ctx.sid
           /\ aaa[s].ctx.done => n.ctx.done
    /\ MadeOf(n.in.data, aaa[s].in.data, d)
    /\ aaa[s].round = 0 /\ n.round # 0 =>
           \E m : /\ MadeOf(m, aaa[s].in.data, d) /\ Mentions(m, n.ctx.eph)
                  /\ m.off = 0 /\ m.len = Msg1Len

(* What the DN-AAA sends for session s. *)
Speaks(rsp, s, n) ==
    IsChallenge(rsp) =>
        /\ rsp.state.sid = s /\ rsp.state.trip = n.trip
        /\ rsp.eap.wire.start => n.trip = 0
        /\ rsp.eap.wire.more => rsp.eap.wire.data.len > 0
        /\ n.round = 2 /\ ~Pending(n.out) /\ n.in.len = 0 =>
               /\ ~rsp.eap.wire.more /\ rsp.eap.wire.data.len > 0
               /\ rsp.eap.wire.data.msg = EdhocMsg("msg4", n.ctx.eph, s)

LEMMA KeyMoved ==
    ASSUME TypeInv, KeyInv, NEW i \in DOMAIN radiusReq, NEW rsp, Answer(i, rsp),
           UNCHANGED <<ueVars, smfVars, relayVars, n1Vars, relayLinkVars>>,
           NEW s \in Sids, NEW n \in TSessions, aaa' = [aaa EXCEPT ![s] = n],
           aaaNext' \in Nat, aaaNext <= aaaNext', s < aaaNext',
           NEW d \in TRuns,
           d = Empty \/ \E st, w : Passed(st, w) /\ st # NoState /\ st.sid = s /\ w.data = d,
           GoesOn(s, n, d), Speaks(rsp, s, n),
           \A st, w : (Up(st, w) \/ Down(st, w)) /\ st # NoState /\ st.sid = s =>
                          st.trip <= n.trip /\ (n.status = "listed" => st.trip # n.trip),
           n.round # 0 => \A p \in Psis : Rides(p, s)' => Rides(p, s),
           SessionOf(s)', FromAaa(n.out.msg)', IsChallenge(rsp) => FromAaa(rsp.eap.wire.data.msg)',
           IsChallenge(rsp) => rsp.state # NoState
    PROVE  KeyInv'
<1>0. /\ ueEph' = ueEph /\ ueKeys' = ueKeys /\ ueConfirmed' = ueConfirmed /\ ueRound' = ueRound /\ ueCtx' = ueCtx
      /\ ueIn' = ueIn /\ ueOut' = ueOut /\ smfWait' = smfWait /\ nasUl' = nasUl /\ nasDl' = nasDl
  BY DEF ueVars, smfVars, n1Vars
<1>1. /\ aaa \in [Sids -> TSessions] /\ aaa'[s] = n /\ \A t \in Sids : t # s => aaa'[t] = aaa[t]
      /\ aaaNext \in Nat /\ \A t \in Sids : t \in Nat /\ t > 0
  BY AaaAssumption DEF TypeInv, AaaTyped, Sids
<1>2. /\ \A st, w : (Up(st, w)' => Up(st, w)) /\ (Passed(st, w)' => Passed(st, w))
      /\ \A st, w : Down(st, w)' => Down(st, w) \/ Challenged(rsp, st, w)
      /\ \A p \in Psis : \A t \in Sids : Rides(p, t)' => Rides(p, t) \/ Names(rsp, t)
  BY AaaPassesOn
<1>3. \A st, w : Up(st, w) \/ Down(st, w) => w \in TWires /\ st \in TStates \cup {NoState}
  BY ItemsTyped
<1>4. \A m : FromUe(m)' <=> FromUe(m)
  BY <1>0 DEF FromUe
<1>5. \A t \in Sids : aaa[t].round # 0 =>
          /\ aaa'[t].round # 0 /\ aaa'[t].ctx.eph = aaa[t].ctx.eph /\ aaa'[t].ctx.sid = aaa[t].ctx.sid
          /\ aaa[t].ctx.done => aaa'[t].ctx.done
  BY <1>1 DEF GoesOn
<1>6. ASSUME NEW m \in TMsgs, FromAaa(m) PROVE FromAaa(m)'
  <2>1. m \notin {NoMsg, Junk} /\ m.type \in {"msg2", "msg4"} => m.sid \in Sids
    BY DEF TMsgs, FirstTypes
  <2>. QED  BY <1>5, <1>6, <2>1 DEF FromAaa
<1>7. /\ ueIn.data.msg \in TMsgs /\ \A t \in Sids : aaa[t].out.msg \in TMsgs
      /\ \A w \in TWires : w.data.msg \in TMsgs
      /\ ueKeys \subseteq Nat \X Sids /\ (ueRound = 3 => ueCtx.sid \in Sids)
  BY DEF TypeInv, UeTyped, AaaTyped, TSessions, TIns, TRuns, TOuts, TWires
<1>8. FromUe(d.msg)
  <2>1. d = Empty => d.msg = NoMsg
    BY EmptyTyped
  <2>2. (\E st, w : Passed(st, w) /\ w.data = d) => FromUe(d.msg)
    BY DEF KeyInv, OriginInv, Up
  <2>. QED  BY <2>1, <2>2 DEF FromUe
<1>9. OriginInv'
  <2>1. ASSUME NEW t \in Sids PROVE FromUe(aaa[t].in.data.msg)' /\ FromAaa(aaa[t].out.msg)'
    <3>1. CASE t # s
      <4>1. PICK mi, mo : mi = aaa[t].in.data.msg /\ mo = aaa[t].out.msg
        OBVIOUS
      <4>2. aaa'[t].in.data.msg = mi /\ aaa'[t].out.msg = mo /\ FromUe(mi) /\ FromAaa(mo) /\ mo \in TMsgs
        BY <1>1, <1>7, <3>1, <4>1 DEF KeyInv, OriginInv
      <4>3. FromUe(mi)' /\ FromAaa(mo)'
        BY <1>4, <1>6, <4>2
      <4>. QED  BY <4>2, <4>3 DEF FromUe, FromAaa
    <3>2. CASE t = s
      <4>1. FromUe(n.in.data.msg)
        BY <1>8 DEF GoesOn, MadeOf, KeyInv, OriginInv, FromUe
      <4>2. FromUe(n.in.data.msg)'
        BY <1>4, <4>1
      <4>. QED  BY <1>1, <3>2, <4>2 DEF FromUe, FromAaa
    <3>. QED  BY <3>1, <3>2
  <2>2. FromUe(ueOut.msg)' /\ FromAaa(ueIn.data.msg)'
    BY <1>0, <1>4, <1>6, <1>7 DEF KeyInv, OriginInv, FromUe, FromAaa
  <2>3. \A st, w : Up(st, w)' => FromUe(w.data.msg)'
    BY <1>2, <1>4 DEF KeyInv, OriginInv
  <2>4. \A st, w : Down(st, w)' => FromAaa(w.data.msg)'
    BY <1>2, <1>3, <1>6, <1>7 DEF KeyInv, OriginInv, Challenged
  <2>. QED  BY <2>1, <2>2, <2>3, <2>4 DEF OriginInv
<1>10. SessionsInv'
  <2>1. ASSUME NEW t \in Sids, t # s PROVE SessionOf(t)'
    BY <1>0, <1>1, <2>1 DEF KeyInv, SessionsInv, SessionOf, Msk, Pending
  <2>. QED  BY <2>1 DEF SessionsInv
<1>11. KeysInv' /\ AttemptInv'
  <2>1. KeysInv'
    BY <1>0, <1>5, <1>7 DEF KeyInv, KeysInv
  <2>2. ASSUME ueRound = 3 PROVE aaa'[ueCtx.sid].ctx.done
    <3>1. ueCtx.sid \in Sids /\ aaa[ueCtx.sid].ctx.done
      BY <1>7, <2>2 DEF KeyInv, AttemptInv
    <3>2. aaa[ueCtx.sid].round # 0
      BY <3>1 DEF KeyInv, SessionsInv, SessionOf
    <3>. QED  BY <1>5, <3>1, <3>2
  <2>3. AttemptInv'
    BY <1>0, <2>2 DEF KeyInv, AttemptInv, Msk
  <2>. QED  BY <2>1, <2>3
<1>12. d = Empty \/ \E st, w : Passed(st, w) /\ Up(st, w) /\ st # NoState /\ st.sid = s /\ w.data = d
  BY DEF Up
<1>13. ~Mentions(Empty, ueEph)
  BY DEF Empty, Mentions
<1>14. CoverInv'
  <2>. SUFFICES ASSUME ueRound = 1
                PROVE  /\ \A st, w : Up(st, w)' /\ Mentions(w.data, ueEph) => w.data.off + w.data.len <= ueOut.pos
                       /\ \A t \in Sids : Mentions(aaa'[t].in.data, ueEph) => aaa'[t].in.data.off + aaa'[t].in.data.len <= ueOut.pos
                       /\ Pending(ueOut) => \A t \in Sids : aaa'[t].ctx.eph # ueEph
    BY <1>0 DEF CoverInv, Mentions, Pending
  <2>0. /\ \A st, w : Up(st, w) /\ Mentions(w.data, ueEph) => w.data.off + w.data.len <= ueOut.pos
        /\ \A t \in Sids : Mentions(aaa[t].in.data, ueEph) => aaa[t].in.data.off + aaa[t].in.data.len <= ueOut.pos
        /\ Pending(ueOut) => \A t \in Sids : aaa[t].ctx.eph # ueEph
        /\ ueOut.len = Msg1Len /\ ueEph > 0
    BY DEF KeyInv, CoverInv, AttemptInv
  <2>1. ueOut.pos \in Nat
    BY FragAssumption DEF TypeInv, UeTyped, TOuts
  <2>2. Within(d, ueEph, ueOut.pos) /\ Within(aaa[s].in.data, ueEph, ueOut.pos)
    BY <1>12, <1>13, <2>0 DEF Within
  <2>3. \A m : MadeOf(m, aaa[s].in.data, d) => Within(m, ueEph, ueOut.pos)
    BY <2>1, <2>2 DEF MadeOf
  <2>4. Within(n.in.data, ueEph, ueOut.pos)
    BY <2>3 DEF GoesOn
  <2>5. \A t \in Sids : Mentions(aaa'[t].in.data, ueEph) => aaa'[t].in.data.off + aaa'[t].in.data.len <= ueOut.pos
    BY <1>1, <2>0, <2>4 DEF Within
  <2>6. ASSUME Pending(ueOut) PROVE n.ctx.eph # ueEph
    <3>1. CASE aaa[s].round # 0
      BY <2>0, <2>6, <3>1 DEF GoesOn
    <3>2. CASE aaa[s].round = 0 /\ n.round # 0
      <4>1. PICK m : MadeOf(m, aaa[s].in.data, d) /\ Mentions(m, n.ctx.eph) /\ m.off = 0 /\ m.len = Msg1Len
        BY <3>2 DEF GoesOn
      <4>2. Msg1Len \in Nat
        BY MsgLenAssumption, FragAssumption
      <4>3. n.ctx.eph = ueEph => Msg1Len <= ueOut.pos
        BY <2>3, <4>1, <4>2 DEF Within
      <4>. QED  BY <2>0, <2>1, <2>6, <4>2, <4>3 DEF Pending
    <3>3. CASE n.round = 0
      <4>1. n.ctx.eph = 0
        BY <1>1, <3>3 DEF SessionOf, NoCtx
      <4>. QED  BY <2>0, <4>1 DEF TypeInv, UeTyped
    <3>. QED  BY <3>1, <3>2, <3>3
  <2>. QED  BY <1>1, <1>2, <2>0, <2>5, <2>6
<1>15. ASSUME NEW st \in TStates \cup {NoState}, st # NoState PROVE st.sid \in Sids /\ st.trip \in Nat
  BY <1>15 DEF TStates
<1>16. ASSUME NEW st, NEW w, Up(st, w) \/ Down(st, w), Due(st)'
       PROVE  Due(st) /\ st.sid \in Sids /\ aaa'[st.sid] = aaa[st.sid]
  <2>1. st # NoState /\ st.sid \in Sids
    BY <1>3, <1>15, <1>16 DEF Due
  <2>2. st.sid # s
    BY <1>1, <1>16, <2>1 DEF Due
  <2>. QED  BY <1>1, <1>16, <2>1, <2>2 DEF Due, Final, Pending
<1>17. TripInv'
  <2>1. ASSUME NEW st, NEW w, Up(st, w) \/ Down(st, w), st # NoState PROVE st.sid < aaaNext' /\ st.trip <= aaa'[st.sid].trip
    <3>1. st.sid \in Sids /\ st.sid < aaaNext /\ st.trip <= aaa[st.sid].trip
      BY <1>3, <1>15, <2>1 DEF KeyInv, TripInv
    <3>2. st.trip <= aaa'[st.sid].trip
      BY <1>1, <2>1, <3>1
    <3>. QED  BY <1>1, <3>1, <3>2
  <2>2. ASSUME NEW st, NEW w, Challenged(rsp, st, w) PROVE st.sid < aaaNext' /\ st.trip <= aaa'[st.sid].trip
    <3>1. st.sid = s /\ st.trip = n.trip /\ n.trip \in Nat
      BY <2>2 DEF Challenged, Speaks, TSessions
    <3>. QED  BY <1>1, <3>1
  <2>. QED  BY <1>2, <2>1, <2>2 DEF TripInv
<1>18. LastInv'
  <2>. SUFFICES ASSUME NEW st, NEW w, Down(st, w)'
                PROVE  /\ w.start => st # NoState /\ st.trip = 0
                       /\ w.more => w.data.len > 0
                       /\ Due(st)' => /\ ~w.more /\ w.data.len > 0
                                      /\ w.data.msg = EdhocMsg("msg4", aaa'[st.sid].ctx.eph, st.sid)
    BY DEF LastInv
  <2>1. CASE Down(st, w)
    BY <1>16, <2>1 DEF KeyInv, LastInv
  <2>2. CASE Challenged(rsp, st, w)
    <3>1. st = rsp.state /\ w = rsp.eap.wire /\ st.sid = s /\ st.trip = n.trip
      BY <2>2 DEF Challenged, Speaks
    <3>2. Due(st)' => n.round = 2 /\ ~Pending(n.out) /\ n.in.len = 0
      BY <1>1, <3>1 DEF Due, Final, Pending
    <3>. QED  BY <1>1, <2>2, <3>1, <3>2 DEF Challenged, Speaks
  <2>. QED  BY <1>2, <2>1, <2>2
<1>19. AckInv'
  <2>. SUFFICES ASSUME NEW st, NEW w, Up(st, w)', Due(st)', ~w.more, w.data.len = 0
                PROVE  Msk(aaa'[st.sid].ctx) \in ueConfirmed'
    BY DEF AckInv, Msk
  <2>. QED  BY <1>0, <1>2, <1>16 DEF KeyInv, AckInv
<1>20. OrderInv'
  <2>1. ASSUME NEW p \in Psis, NEW t \in Sids, Old(p, t)' PROVE Old(p, t) /\ Msk(aaa'[t].ctx) = Msk(aaa[t].ctx)
    <3>0. Rides(p, t)' /\ Msk(aaa'[t].ctx) \in ueKeys \ ueConfirmed
      BY <1>0, <2>1 DEF Old, Msk
    <3>1. CASE t # s
      <4>1. ~Names(rsp, t)
        BY <3>1 DEF Names, Speaks
      <4>. QED  BY <1>1, <1>2, <3>0, <3>1, <4>1 DEF Old
    <3>2. CASE t = s
      <4>1. Msk(n.ctx) \in ueKeys
        BY <1>1, <3>0, <3>2
      <4>2. n.ctx.sid \in Sids /\ n.round # 0
        <5>1. n.ctx.sid \in Sids
          BY <1>7, <4>1 DEF Msk
        <5>. QED  BY <1>1, <5>1 DEF SessionOf, NoCtx
      <4>3. n.ctx.sid = s
        BY <1>1, <4>2 DEF SessionOf
      <4>4. aaa[s].round # 0
        BY <4>1, <4>3 DEF KeyInv, KeysInv, Msk
      <4>. QED  BY <1>1, <1>5, <3>0, <3>2, <4>2, <4>4 DEF Old, Msk
    <3>. QED  BY <3>1, <3>2
  <2>2. ASSUME ueRound' \in {2, 3} PROVE \A p \in Psis, t \in Sids : Old(p, t)' => Msk(aaa'[t].ctx) = Msk(ueCtx')
    BY <1>0, <2>1, <2>2 DEF KeyInv, OrderInv
  <2>3. ASSUME ueRound = 1 PROVE Polluted' \/ Spoiled' \/ \A p \in Psis, t \in Sids : Old(p, t)' => Ahead(p)'
    <3>0. ueEph > 0 /\ ueEph \in Nat /\ Msg1Len \in Nat
      BY <2>3, MsgLenAssumption, FragAssumption DEF KeyInv, AttemptInv, TypeInv, UeTyped
    <3>1. Polluted => Polluted'
      BY <1>0 DEF Polluted, Mentions
    <3>2. ASSUME Clean PROVE Clean'
      <4>1. ~Mentions(d, ueEph) /\ ~Mentions(aaa[s].in.data, ueEph) /\ aaa[s].ctx.eph # ueEph
        BY <1>12, <1>13, <3>2 DEF Clean
      <4>2. \A m : MadeOf(m, aaa[s].in.data, d) => ~Mentions(m, ueEph)
        BY <4>1, Unmentioned
      <4>3. ~Mentions(n.in.data, ueEph)
        BY <4>2 DEF GoesOn
      <4>4. n.ctx.eph # ueEph
        <5>1. CASE aaa[s].round # 0
          BY <4>1, <5>1 DEF GoesOn
        <5>2. CASE aaa[s].round = 0 /\ n.round # 0
          BY <4>2, <5>2 DEF GoesOn
        <5>3. CASE n.round = 0
          <6>1. n.ctx.eph = 0
            BY <1>1, <5>3 DEF SessionOf, NoCtx
          <6>. QED  BY <3>0, <6>1
        <5>. QED  BY <5>1, <5>2, <5>3
      <4>5. \A t \in Sids : aaa'[t].ctx.eph # ueEph /\ ~Mentions(aaa'[t].in.data, ueEph)
        BY <1>1, <3>2, <4>3, <4>4 DEF Clean
      <4>6. \A st, w : Passed(st, w)' => ~Mentions(w.data, ueEph)
        BY <1>2, <3>2 DEF Clean
      <4>. QED  BY <1>0, <4>5, <4>6 DEF Clean, Mentions
    <3>3. ASSUME NEW p \in Psis, Ahead(p) PROVE Ahead(p)'
      BY <1>0, <3>2, <3>3 DEF Ahead, Answers, Commands, UlClear, DlClear, Mentions
    <3>4. ASSUME NEW a \in 0..MaxMsg, SpoiledAt(a) PROVE SpoiledAt(a)'
      <4>0. a \in Nat /\ a < Msg1Len
        BY <3>4, FragAssumption DEF SpoiledAt
      <4>1. ASSUME aaa[s].round = 0 PROVE Short(aaa[s].in.data, ueEph, a) /\ Apart(d, ueEph, a)
        <5>1. Short(aaa[s].in.data, ueEph, a)
          BY <3>4, <4>1 DEF Short, SpoiledAt
        <5>2. Apart(d, ueEph, a)
          BY <1>12, <1>13, <3>4, <4>1 DEF Apart, SpoiledAt
        <5>. QED  BY <5>1, <5>2
      <4>2. \A m : aaa[s].round = 0 /\ MadeOf(m, aaa[s].in.data, d) => Short(m, ueEph, a)
        BY <4>0, <4>1 DEF MadeOf
      <4>3. n.round = 0 => Short(n.in.data, ueEph, a)
        BY <4>2 DEF GoesOn
      <4>4. n.ctx.eph # ueEph
        <5>1. CASE aaa[s].round # 0
          BY <3>4, <5>1 DEF GoesOn, SpoiledAt
        <5>2. CASE aaa[s].round = 0 /\ n.round # 0
          <6>1. PICK m : MadeOf(m, aaa[s].in.data, d) /\ Mentions(m, n.ctx.eph) /\ m.off = 0 /\ m.len = Msg1Len
            BY <5>2 DEF GoesOn
          <6>. QED  BY <3>0, <4>0, <4>2, <5>2, <6>1 DEF Short
        <5>3. CASE n.round = 0
          <6>1. n.ctx.eph = 0
            BY <1>1, <5>3 DEF SessionOf, NoCtx
          <6>. QED  BY <3>0, <6>1
        <5>. QED  BY <5>1, <5>2, <5>3
      <4>5. \A t \in Sids :
               /\ aaa'[t].ctx.eph # ueEph
               /\ aaa'[t].round = 0 /\ Mentions(aaa'[t].in.data, ueEph) /\ aaa'[t].in.data.off = 0 => aaa'[t].in.data.len <= a
        BY <1>1, <3>4, <4>3, <4>4 DEF SpoiledAt, Short
      <4>6. ASSUME NEW st, NEW w, Up(st, w)', Mentions(w.data, ueEph)
            PROVE  w.data.off + w.data.len <= a \/ w.data.off > a \/ (st # NoState /\ aaa'[st.sid].round # 0)
        BY <1>2, <1>3, <1>5, <1>15, <3>4, <4>6 DEF SpoiledAt
      <4>. QED  BY <1>0, <3>4, <4>5, <4>6 DEF SpoiledAt, Mentions
    <3>5. Polluted \/ Spoiled \/ \A p \in Psis, t \in Sids : Old(p, t) => Ahead(p)
      BY <2>3 DEF KeyInv, OrderInv
    <3>. QED  BY <2>1, <3>1, <3>3, <3>4, <3>5 DEF Spoiled
  <2>. QED  BY <1>0, <2>2, <2>3 DEF OrderInv
<1>. QED  BY <1>9, <1>10, <1>11, <1>14, <1>17, <1>18, <1>19, <1>20 DEF KeyInv


(* What one served request may make of session s. *)
SessionLike(s, n) ==
    /\ n.round = 0 => n.ctx = NoCtx
    /\ n.round # 0 => n.mode = 4 /\ n.ctx.sid = s /\ n.ctx.eph <= ueEph
    /\ n.ctx.done => n.round = 2
    /\ n.round = 2 => Msk(n.ctx) \in ueKeys
    /\ n.round = 2 /\ Pending(n.out) => n.out.msg = EdhocMsg("msg4", n.ctx.eph, s)
    /\ n.status = "success" => Msk(n.ctx) \in ueConfirmed

Makes(m, s, n) ==
    \/ m \in {NoMsg, aaa[s].out.msg}
    \/ n.round # 0 /\ m = EdhocMsg("msg2", n.ctx.eph, s)
    \/ n.round # 0 /\ n.ctx.done /\ m = EdhocMsg("msg4", n.ctx.eph, s)

LEMMA KeyServed ==
    ASSUME TypeInv, LockInv, KeyInv, NEW i \in DOMAIN radiusReq, NEW s \in Sids, Matches(radiusReq[i], s),
           NEW rsp, Answer(i, rsp), UNCHANGED <<ueVars, smfVars, relayVars, n1Vars, relayLinkVars>>,
           NEW n \in TSessions, aaa' = [aaa EXCEPT ![s] = n], aaaNext' = aaaNext,
           GoesOn(s, n, radiusReq[i].eap.wire.data), Speaks(rsp, s, n), SessionLike(s, n),
           Makes(n.out.msg, s, n), IsChallenge(rsp) => Makes(rsp.eap.wire.data.msg, s, n) /\ rsp.state # NoState,
           \/ n.trip = aaa[s].trip + 1
           \/ n.trip = aaa[s].trip /\ n.round = aaa[s].round /\ n.status # "listed"
    PROVE  KeyInv'
<1>0. /\ aaa \in [Sids -> TSessions] /\ aaa'[s] = n /\ \A t \in Sids : t # s => aaa'[t] = aaa[t]
      /\ aaaNext \in Nat /\ aaaNext' \in Nat /\ aaaNext <= aaaNext'
      /\ ueEph' = ueEph /\ ueKeys' = ueKeys /\ ueConfirmed' = ueConfirmed
      /\ aaa[s].trip \in Nat /\ n.trip \in Nat
  BY AaaAssumption DEF TypeInv, AaaTyped, Sids, ueVars, TSessions
<1>1. PICK d : d = radiusReq[i].eap.wire.data
  OBVIOUS
<1>2. PICK st, w : st = radiusReq[i].state /\ w = radiusReq[i].eap.wire
  OBVIOUS
<1>3. st # NoState /\ st.sid = s /\ aaa[s].trip = st.trip /\ aaa[s].status = "listed" /\ w.data = d
  BY <1>1, <1>2 DEF Matches
<1>4. radiusReq[i] \in TRequests
  BY DEF TypeInv, RadiusTyped
<1>5. w \in TWires /\ d \in TRuns /\ radiusReq[i].eap.kind = "edhoc"
  <2>1. radiusReq[i].eap \in TPackets /\ radiusReq[i].eap.wire \in TWires
    BY <1>4, MatchedTyped
  <2>. QED  BY <1>1, <1>2, <2>1 DEF TPackets, TWires
<1>6. Passed(st, w) /\ Up(st, w)
  BY <1>2, <1>5 DEF Up, Passed, Queued
<1>7. s < aaaNext
  BY <1>3, <1>6 DEF KeyInv, TripInv
<1>8. ASSUME NEW x, NEW y, Up(x, y) \/ Down(x, y), x # NoState, x.sid = s
      PROVE  x.trip <= n.trip /\ (n.status = "listed" => x.trip # n.trip)
  <2>1. x.trip <= aaa[s].trip /\ x.trip \in Nat
    BY <1>8, ItemsTyped DEF KeyInv, TripInv, TStates
  <2>. QED  BY <1>0, <2>1
<1>9. ASSUME NEW p \in Psis, Rides(p, s)' PROVE Rides(p, s)
  <2>1. Rides(p, s) \/ (smfWait = p /\ relayCur = "open" /\ radiusReq[i].open)
    BY <1>9, AaaPassesOn
  <2>2. ASSUME smfWait = p, relayCur = "open", radiusReq[i].open PROVE Rides(p, s)
    <3>1. st = smf[p].state
      BY <1>2, <2>2 DEF LockInv, SocketInv, RadiusOpenInv
    <3>. QED  BY <1>3, <2>2, <3>1 DEF Rides, Holds
  <2>. QED  BY <2>1, <2>2
<1>10. SessionOf(s)'
  <2>1. n.trip = 0 => n.round = 0
    BY <1>0 DEF KeyInv, SessionsInv, SessionOf
  <2>2. ~(s >= aaaNext')
    BY <1>0, <1>7, AaaAssumption DEF Sids
  <2>. QED  BY <1>0, <2>1, <2>2 DEF SessionOf, SessionLike, Msk, Pending
<1>11. ASSUME NEW m, Makes(m, s, n) PROVE FromAaa(m)'
  <2>1. CASE m = NoMsg
    BY <2>1 DEF FromAaa
  <2>2. CASE m = aaa[s].out.msg
    <3>1. FromAaa(m) /\ m \in TMsgs
      BY <1>0, <2>2 DEF KeyInv, OriginInv, TSessions, TOuts
    <3>2. m \notin {NoMsg, Junk} /\ m.type \in {"msg2", "msg4"} => m.sid \in Sids
      BY <3>1 DEF TMsgs, FirstTypes
    <3>3. aaa[s].round # 0 => n.round # 0 /\ n.ctx.eph = aaa[s].ctx.eph /\ (aaa[s].ctx.done => n.ctx.done)
      BY DEF GoesOn
    <3>. QED  BY <1>0, <3>1, <3>2, <3>3 DEF FromAaa
  <2>3. CASE n.round # 0 /\ (m = EdhocMsg("msg2", n.ctx.eph, s) \/ (n.ctx.done /\ m = EdhocMsg("msg4", n.ctx.eph, s)))
    <3>1. m.sid = s /\ m.eph = n.ctx.eph /\ (m.type = "msg2" \/ (m.type = "msg4" /\ n.ctx.done))
      BY <2>3 DEF EdhocMsg
    <3>. QED  BY <1>0, <2>3, <3>1 DEF FromAaa
  <2>. QED  BY <1>11, <2>1, <2>2, <2>3 DEF Makes
<1>12. GoesOn(s, n, d)
  BY <1>1
<1>13. FromAaa(n.out.msg)' /\ (IsChallenge(rsp) => FromAaa(rsp.eap.wire.data.msg)')
  BY <1>11
<1>. QED  BY <1>0, <1>3, <1>5, <1>6, <1>7, <1>8, <1>9, <1>10, <1>12, <1>13, KeyMoved

LEMMA QueueFacts ==
    ASSUME NEW m \in TMsgs, NEW k \in 1..MaxMsg
    PROVE  LET w == QueueWire(m, k)
           IN  /\ w \in TWires /\ ~w.start /\ w.data.len > 0 /\ w.data.msg = m
               /\ ~Pending(QueueOut(m, k)) => ~w.more
               /\ QueueOut(m, k) \in TOuts /\ QueueOut(m, k).msg \in {NoMsg, m}
               /\ Pending(QueueOut(m, k)) => QueueOut(m, k).msg = m
<1>1. /\ QueueWire(m, k) \in TWires /\ QueueOut(m, k) \in TOuts
      /\ QueueWire(m, k).data.msg = m /\ QueueOut(m, k).msg \in {NoMsg, m}
  BY QueueTyped
<1>2. PICK out : out = NewOut(m, k)
  OBVIOUS
<1>3. out \in TOuts /\ Pending(out) /\ out.msg = m /\ out.pos = 0 /\ out.len = k
  <2>1. out \in TOuts /\ Pending(out) /\ out.msg = m
    BY <1>2, NewOutTyped
  <2>. QED  BY <1>2, <2>1 DEF NewOut
<1>4. ~Pending(NoOut)
  BY DEF Pending, NoOut
<1>5. CASE k <= EDHOC_FRAG_FIRST_CAP
  <2>1. QueueWire(m, k) = LastWire(Slice(m, 0, k)) /\ QueueOut(m, k) = NoOut
    BY <1>5 DEF QueueWire, QueueOut
  <2>2. Slice(m, 0, k).len = k /\ k > 0
    BY DEF Slice
  <2>. QED  BY <1>1, <1>4, <2>1, <2>2 DEF LastWire, Wire
<1>6. CASE ~(k <= EDHOC_FRAG_FIRST_CAP)
  <2>1. PICK w : w = EncodeEdhocFragment(out)
    OBVIOUS
  <2>2. /\ w.data = [msg |-> out.msg, off |-> out.pos, len |-> FragLen(out)] /\ FragLen(out) > 0 /\ ~w.start
        /\ ~Pending(AaaAdvance(out)) => ~w.more
        /\ UeAdvance(out) = [msg |-> out.msg, len |-> out.len, pos |-> out.pos + FragLen(out)]
    BY <1>3, <2>1, FragmentFacts
  <2>3. QueueWire(m, k) = w /\ QueueOut(m, k) = AaaAdvance(out)
    BY <1>2, <1>6, <2>1 DEF QueueWire, QueueOut
  <2>4. Pending(AaaAdvance(out)) => AaaAdvance(out).msg = m
    BY <1>3, <1>4, <2>2 DEF AaaAdvance
  <2>. QED  BY <1>1, <2>2, <2>3, <2>4
<1>. QED  BY <1>5, <1>6


(* The two ways a request of session s is answered. *)
LEMMA KeyChallenge ==
    ASSUME TypeInv, LockInv, KeyInv, NEW i \in DOMAIN radiusReq, NEW s \in Sids, Matches(radiusReq[i], s),
           UNCHANGED <<ueVars, smfVars, relayVars, n1Vars, relayLinkVars>>,
           NEW z \in TSessions, NEW w \in TWires, Challenge(i, s, z, w),
           z.trip = aaa[s].trip, z.status = "listed",
           GoesOn(s, z, radiusReq[i].eap.wire.data), SessionLike(s, z),
           Makes(z.out.msg, s, z), Makes(w.data.msg, s, z), ~w.start, w.more => w.data.len > 0,
           z.round = 2 /\ ~Pending(z.out) /\ z.in.len = 0 =>
               ~w.more /\ w.data.len > 0 /\ w.data.msg = EdhocMsg("msg4", z.ctx.eph, s)
    PROVE  KeyInv'
<1>1. z.trip + 1 \in Nat /\ z.id + 1 \in Nat /\ z.trip \in Nat
  BY DEF TSessions
<1>2. PICK rsp : rsp = AccessChallenge(StateAttr(s, z.trip + 1), EdhocPacket(z.id + 1, w))
  OBVIOUS
<1>3. IsChallenge(rsp)
  BY <1>1, <1>2, ChallengeIsAnswer
<1>4. rsp.state = [sid |-> s, trip |-> z.trip + 1] /\ rsp.eap.wire = w
  BY <1>2 DEF AccessChallenge, StateAttr, EdhocPacket
<1>5. rsp.state # NoState
  BY <1>1, <1>4, StateAssumption, AaaAssumption DEF Sids
<1>6. PICK n : n = [z EXCEPT !.trip = z.trip + 1, !.id = z.id + 1]
  OBVIOUS
<1>7. /\ n \in TSessions /\ n.trip = z.trip + 1 /\ n.round = z.round /\ n.ctx = z.ctx /\ n.in = z.in /\ n.out = z.out
      /\ n.mode = z.mode /\ n.status = z.status
  BY <1>1, <1>6 DEF TSessions
<1>8. Answer(i, rsp) /\ aaa' = [aaa EXCEPT ![s] = n] /\ aaaNext' = aaaNext
  BY <1>2, <1>6 DEF Challenge
<1>9. GoesOn(s, n, radiusReq[i].eap.wire.data)
  BY <1>7 DEF GoesOn
<1>10. SessionLike(s, n) /\ Makes(n.out.msg, s, n) /\ Makes(rsp.eap.wire.data.msg, s, n)
  BY <1>4, <1>7 DEF SessionLike, Makes
<1>11. Speaks(rsp, s, n)
  BY <1>4, <1>7 DEF Speaks
<1>. QED  BY <1>5, <1>7, <1>8, <1>9, <1>10, <1>11, KeyServed

LEMMA KeyConclude ==
    ASSUME TypeInv, LockInv, KeyInv, NEW i \in DOMAIN radiusReq, NEW s \in Sids, Matches(radiusReq[i], s),
           UNCHANGED <<ueVars, smfVars, relayVars, n1Vars, relayLinkVars>>,
           NEW b \in TIns, MadeOf(b.data, aaa[s].in.data, radiusReq[i].eap.wire.data),
           NEW e \in {"failed", "success"}, NEW rsp \in {AccessReject, AccessAccept},
           Conclude(i, s, [aaa[s] EXCEPT !.in = b], e, rsp),
           e = "success" => Msk(aaa[s].ctx) \in ueConfirmed
    PROVE  KeyInv'
<1>0. aaa[s] \in TSessions
  BY DEF TypeInv, AaaTyped
<1>1. PICK n : n = [[aaa[s] EXCEPT !.in = b] EXCEPT !.status = e]
  OBVIOUS
<1>2. /\ n \in TSessions /\ n.trip = aaa[s].trip /\ n.round = aaa[s].round /\ n.ctx = aaa[s].ctx /\ n.in = b
      /\ n.out = aaa[s].out /\ n.mode = aaa[s].mode /\ n.status = e
  BY <1>0, <1>1 DEF TSessions
<1>3. Answer(i, rsp) /\ aaa' = [aaa EXCEPT ![s] = n] /\ aaaNext' = aaaNext
  BY <1>1 DEF Conclude
<1>4. ~IsChallenge(rsp)
  BY DEF IsChallenge, AccessReject, AccessAccept
<1>5. GoesOn(s, n, radiusReq[i].eap.wire.data)
  BY <1>2 DEF GoesOn
<1>6. SessionLike(s, n)
  BY <1>2 DEF SessionLike, KeyInv, SessionsInv, SessionOf
<1>7. Speaks(rsp, s, n) /\ Makes(n.out.msg, s, n)
  BY <1>2, <1>4 DEF Speaks, Makes
<1>. QED  BY <1>2, <1>3, <1>4, <1>5, <1>6, <1>7, KeyServed

LEMMA KeyAaaMatched ==
    ASSUME TypeInv, LockInv, KeyInv, AaaStep, NEW i \in DOMAIN radiusReq, NEW s \in Sids,
           AbortTrips(i, s) \/ mod_process(i, s)
    PROVE  KeyInv'
<1>. DEFINE o == aaa[s]
            w0 == radiusReq[i].eap.wire
            d == radiusReq[i].eap.wire.data
            c == Consumed(i, s)
<1>0. /\ UNCHANGED <<ueVars, smfVars, relayVars, n1Vars, relayLinkVars>> /\ Matches(radiusReq[i], s)
      /\ radiusReq[i] \in TRequests /\ o \in TSessions
  <2>1. Matches(radiusReq[i], s)
    BY DEF AbortTrips, mod_process, SendNextFragment, FailParse, AckFragment, ProcessMsg1, ProcessClassic1,
           ProcessMsg3, SucceedClassic, Succeed, FailRound, Receiving, Processing
  <2>. QED  BY <2>1 DEF AaaStep, TypeInv, RadiusTyped, AaaTyped
<1>1. w0 \in TWires /\ radiusReq[i].eap.kind = "edhoc" /\ d \in TRuns /\ o.in \in TIns /\ o.in.data \in TRuns /\ o.out \in TOuts
      /\ o.ctx \in Ctxs /\ o.trip \in Nat /\ o.id \in Nat
  <2>1. radiusReq[i].eap \in TPackets /\ w0 \in TWires
    BY <1>0, MatchedTyped
  <2>. QED  BY <1>0, <2>1 DEF TPackets, TWires, TSessions, TIns
<1>2. Up(radiusReq[i].state, w0)
  BY <1>1 DEF Up, Passed, Queued
<1>3. c.in \in TIns /\ c.msg \in TRuns
  BY <1>1, ParseTyped DEF Consumed
<1>4. /\ MadeOf(c.in.data, o.in.data, d) /\ MadeOf(c.msg, o.in.data, d)
      /\ c.status = "ack" => c.in.len # 0
      /\ c.status = "msg" => ~w0.more /\ (c.msg.len = 0 => o.in.len = 0 /\ d.len = 0)
  BY <1>1, ParseFacts DEF Consumed
<1>5. MadeOf(o.in.data, o.in.data, d)
  BY <1>1, JoinMadeOf
<1>6. FromUe(c.msg.msg)
  <2>1. FromUe(d.msg) /\ FromUe(o.in.data.msg)
    BY <1>2 DEF KeyInv, OriginInv
  <2>. QED  BY <1>4, <2>1 DEF MadeOf, FromUe
<1>7. SessionOf(s)
  BY DEF KeyInv, SessionsInv
<1>8. After(i, s) = [aaa[s] EXCEPT !.in = c.in] /\ Got(i, s) = c.msg
  BY DEF After, Got
<1>9. PICK b : b = c.in
  OBVIOUS
<1>10. CASE AbortTrips(i, s)
  <2>1. Conclude(i, s, aaa[s], "failed", AccessReject)
    BY <1>10 DEF AbortTrips, Fail
  <2>2. PICK x : x = o.in
    OBVIOUS
  <2>3. aaa[s] = [aaa[s] EXCEPT !.in = x]
    BY <1>0, <2>2 DEF TSessions
  <2>. QED  BY <1>0, <1>1, <1>5, <2>1, <2>2, <2>3, KeyConclude
<1>11. CASE FailParse(i, s) \/ FailRound(i, s)
  <2>1. Conclude(i, s, [aaa[s] EXCEPT !.in = b], "failed", AccessReject)
    BY <1>8, <1>9, <1>11 DEF FailParse, FailRound, Fail
  <2>. QED  BY <1>0, <1>3, <1>4, <1>9, <2>1, KeyConclude
<1>12. CASE Succeed(i, s)
  <2>1. /\ Conclude(i, s, [aaa[s] EXCEPT !.in = b], "success", AccessAccept)
        /\ o.round = 2 /\ ~Pending(o.out) /\ c.status = "msg" /\ c.msg.len = 0
    BY <1>8, <1>9, <1>12 DEF Succeed, Receiving
  <2>2. o.in.len = 0 /\ w0.data.len = 0 /\ ~w0.more
    BY <1>4, <2>1
  <2>3. Due(radiusReq[i].state) /\ radiusReq[i].state.sid = s
    BY <1>0, <2>1, <2>2 DEF Due, Final, Matches
  <2>4. Msk(aaa[s].ctx) \in ueConfirmed
    BY <1>2, <2>2, <2>3 DEF KeyInv, AckInv
  <2>. QED  BY <1>0, <1>3, <1>4, <1>9, <2>1, <2>4, KeyConclude
<1>13. CASE SucceedClassic(i, s)
  <2>1. o.round = 1 /\ o.mode = 3
    BY <1>13 DEF SucceedClassic
  <2>. QED  BY <1>7, <2>1 DEF SessionOf
<1>14. CASE ProcessClassic1(i, s)
  <2>1. c.msg.msg \notin {NoMsg, Junk} /\ c.msg.msg.type = "classic1"
    BY <1>8, <1>14 DEF ProcessClassic1, edhoc03_r_handle_msg1_ok, Whole
  <2>. QED  BY <1>6, <2>1 DEF FromUe
<1>15. CASE SendNextFragment(i, s)
  <2>0. Pending(o.out)
    BY <1>15 DEF SendNextFragment
  <2>1. PICK w : w = EncodeEdhocFragment(o.out)
    OBVIOUS
  <2>2. PICK q : q = AaaAdvance(o.out)
    OBVIOUS
  <2>3. /\ w \in TWires /\ w.data = [msg |-> o.out.msg, off |-> o.out.pos, len |-> FragLen(o.out)]
        /\ FragLen(o.out) > 0 /\ ~w.start /\ (~Pending(q) => ~w.more)
        /\ UeAdvance(o.out) = [msg |-> o.out.msg, len |-> o.out.len, pos |-> o.out.pos + FragLen(o.out)]
    BY <1>1, <2>0, <2>1, <2>2, FragmentFacts
  <2>4. q \in TOuts /\ (q = NoOut \/ q.msg = o.out.msg)
    BY <1>1, <2>0, <2>2, <2>3, AdvanceTyped DEF AaaAdvance
  <2>5. PICK z : z = [aaa[s] EXCEPT !.out = q]
    OBVIOUS
  <2>6. /\ z \in TSessions /\ z.trip = o.trip /\ z.round = o.round /\ z.ctx = o.ctx /\ z.in = o.in /\ z.out = q
        /\ z.mode = o.mode /\ z.status = o.status
    BY <1>0, <2>4, <2>5 DEF TSessions
  <2>7. Challenge(i, s, z, w) /\ z.status = "listed"
    BY <1>0, <1>15, <2>1, <2>2, <2>5, <2>6 DEF SendNextFragment, Matches
  <2>8. GoesOn(s, z, d)
    BY <1>5, <2>6 DEF GoesOn
  <2>9. z.round = 2 => o.out.msg = EdhocMsg("msg4", z.ctx.eph, s)
    BY <1>7, <2>0, <2>6 DEF SessionOf
  <2>10. ~Pending(NoOut) /\ NoOut.msg = NoMsg
    BY DEF Pending, NoOut
  <2>11. SessionLike(s, z)
    BY <1>7, <2>4, <2>6, <2>9, <2>10 DEF SessionLike, SessionOf
  <2>12. Makes(z.out.msg, s, z) /\ Makes(w.data.msg, s, z)
    BY <2>3, <2>4, <2>6, <2>10 DEF Makes
  <2>13. w.data.len > 0 /\ w.data.msg = o.out.msg
    BY <2>3
  <2>. QED  BY <1>0, <2>3, <2>6, <2>7, <2>8, <2>9, <2>11, <2>12, <2>13, KeyChallenge
<1>16. CASE AckFragment(i, s)
  <2>1. PICK z : z = [aaa[s] EXCEPT !.in = b]
    OBVIOUS
  <2>2. /\ z \in TSessions /\ z.trip = o.trip /\ z.round = o.round /\ z.ctx = o.ctx /\ z.in = b /\ z.out = o.out
        /\ z.mode = o.mode /\ z.status = o.status
    BY <1>0, <1>3, <1>9, <2>1 DEF TSessions
  <2>3. PICK w : w = Ack
    OBVIOUS
  <2>4. w \in TWires /\ w.data.msg = NoMsg /\ ~w.start /\ ~w.more
    <3>1. Ack \in TWires /\ Ack.data.msg = NoMsg
      BY ControlTyped
    <3>. QED  BY <2>3, <3>1 DEF Ack, LastWire, Wire
  <2>5. Challenge(i, s, z, w) /\ z.status = "listed" /\ c.status = "ack"
    BY <1>0, <1>8, <1>9, <1>16, <2>1, <2>2, <2>3 DEF AckFragment, Matches, Receiving
  <2>6. GoesOn(s, z, d)
    BY <1>4, <1>9, <2>2 DEF GoesOn
  <2>7. SessionLike(s, z)
    BY <1>7, <2>2 DEF SessionLike, SessionOf
  <2>8. Makes(z.out.msg, s, z) /\ Makes(w.data.msg, s, z) /\ z.in.len # 0
    BY <1>4, <1>9, <2>2, <2>4, <2>5 DEF Makes
  <2>. QED  BY <1>0, <2>2, <2>4, <2>5, <2>6, <2>7, <2>8, KeyChallenge
<1>17. CASE ProcessMsg1(i, s)
  <2>1. PICK x : x = edhoc4_r_handle_msg1(edhoc4_init_responder(s), Got(i, s))
    OBVIOUS
  <2>2. c.msg.msg \notin {NoMsg, Junk} /\ c.msg.msg.type = "msg1" /\ c.msg.off = 0 /\ c.msg.len = Msg1Len /\ o.round = 0
    BY <1>8, <1>17 DEF ProcessMsg1, edhoc4_r_handle_msg1_ok, Whole, MsgLen
  <2>3. c.msg.msg.eph \in Nat /\ c.msg.msg.eph <= ueEph
    <3>1. c.msg.msg \in TMsgs
      BY <1>3 DEF TRuns
    <3>. QED  BY <1>6, <2>2, <3>1 DEF TMsgs, FromUe
  <2>4. x = [eph |-> c.msg.msg.eph, sid |-> s, done |-> FALSE]
    BY <1>8, <2>1 DEF edhoc4_r_handle_msg1, edhoc4_init_responder, NoCtx
  <2>5. PICK m2 : m2 = EdhocMsg("msg2", x.eph, x.sid)
    OBVIOUS
  <2>6. m2 \in TMsgs /\ x \in Ctxs /\ x.eph = c.msg.msg.eph /\ x.sid = s /\ ~x.done
    BY <2>3, <2>4, <2>5 DEF EdhocMsg, TMsgs, Ctxs, MsgTypes, FirstTypes
  <2>7. Msg2Len \in 1..MaxMsg
    BY MsgLenAssumption
  <2>8. PICK w, q : w = QueueWire(m2, Msg2Len) /\ q = QueueOut(m2, Msg2Len)
    OBVIOUS
  <2>9. w \in TWires /\ ~w.start /\ w.data.len > 0 /\ w.data.msg = m2 /\ q \in TOuts /\ q.msg \in {NoMsg, m2}
    BY <2>6, <2>7, <2>8, QueueFacts
  <2>10. PICK z : z = [[aaa[s] EXCEPT !.in = b] EXCEPT !.mode = 4, !.round = 1, !.ctx = x, !.out = q]
    OBVIOUS
  <2>11. /\ z \in TSessions /\ z.trip = o.trip /\ z.round = 1 /\ z.ctx = x /\ z.in = b /\ z.out = q
         /\ z.mode = 4 /\ z.status = o.status
    <3>1. PICK u : u = [aaa[s] EXCEPT !.in = b]
      OBVIOUS
    <3>2. u \in TSessions /\ u.trip = o.trip /\ u.in = b /\ u.status = o.status
      BY <1>0, <1>3, <1>9, <3>1 DEF TSessions
    <3>3. z = [u EXCEPT !.mode = 4, !.round = 1, !.ctx = x, !.out = q]
      BY <2>10, <3>1
    <3>4. z = [status |-> u.status, trip |-> u.trip, id |-> u.id, mode |-> 4, round |-> 1, in |-> u.in, out |-> q, ctx |-> x]
      BY <3>2, <3>3 DEF TSessions
    <3>5. u.status \in {"none", "listed", "success", "failed", "expired"} /\ u.trip \in Nat /\ u.id \in Nat /\ u.in \in TIns
      BY <3>2 DEF TSessions
    <3>6. z \in TSessions
      BY <2>6, <2>9, <3>4, <3>5 DEF TSessions
    <3>. QED  BY <3>2, <3>4, <3>6
  <2>12. Challenge(i, s, z, w)
    BY <1>8, <1>9, <1>17, <2>1, <2>5, <2>8, <2>10 DEF ProcessMsg1
  <2>13. z.status = "listed"
    BY <1>0, <2>11 DEF Matches
  <2>14. GoesOn(s, z, d)
    <3>1. MadeOf(c.msg, o.in.data, d) /\ Mentions(c.msg, z.ctx.eph) /\ c.msg.off = 0 /\ c.msg.len = Msg1Len
      BY <1>4, <2>2, <2>6, <2>11 DEF Mentions
    <3>. QED  BY <1>4, <1>9, <2>2, <2>11, <3>1 DEF GoesOn
  <2>15. SessionLike(s, z)
    BY <1>0, <2>3, <2>6, <2>11, <2>13 DEF SessionLike
  <2>16. Makes(z.out.msg, s, z) /\ Makes(w.data.msg, s, z)
    BY <2>5, <2>6, <2>9, <2>11 DEF Makes
  <2>. QED  BY <1>0, <2>9, <2>11, <2>12, <2>13, <2>14, <2>15, <2>16, KeyChallenge
<1>18. CASE ProcessMsg3(i, s)
  <2>1. PICK x : x = edhoc4_r_handle_msg3(o.ctx)
    OBVIOUS
  <2>2. /\ c.msg.msg \notin {NoMsg, Junk} /\ c.msg.msg.type = "msg3" /\ o.round = 1 /\ o.mode = 4
        /\ c.msg.msg.eph = o.ctx.eph /\ c.msg.msg.sid = o.ctx.sid
    BY <1>8, <1>18 DEF ProcessMsg3, edhoc4_r_handle_msg3_ok, Whole, Ours
  <2>3. <<o.ctx.eph, o.ctx.sid>> \in ueKeys
    BY <1>6, <2>2 DEF FromUe
  <2>4. x \in Ctxs /\ x.eph = o.ctx.eph /\ x.sid = o.ctx.sid /\ x.done
    BY <1>1, <2>1 DEF edhoc4_r_handle_msg3, Ctxs
  <2>5. o.ctx.sid = s /\ o.ctx.eph <= ueEph /\ x.eph \in Nat
    BY <1>1, <1>7, <2>2, <2>4 DEF SessionOf, Ctxs
  <2>6. PICK m4 : m4 = EdhocMsg("msg4", x.eph, x.sid)
    OBVIOUS
  <2>7. m4 \in TMsgs /\ Msg4Len \in 1..MaxMsg
    BY <2>4, <2>5, <2>6, MsgLenAssumption DEF EdhocMsg, TMsgs, MsgTypes, FirstTypes
  <2>8. PICK w, q : w = QueueWire(m4, Msg4Len) /\ q = QueueOut(m4, Msg4Len)
    OBVIOUS
  <2>9. /\ w \in TWires /\ ~w.start /\ w.data.len > 0 /\ w.data.msg = m4 /\ q \in TOuts /\ q.msg \in {NoMsg, m4}
        /\ (~Pending(q) => ~w.more) /\ (Pending(q) => q.msg = m4)
    BY <2>7, <2>8, QueueFacts
  <2>10. PICK z : z = [[aaa[s] EXCEPT !.in = b] EXCEPT !.round = 2, !.ctx = x, !.out = q]
    OBVIOUS
  <2>11. /\ z \in TSessions /\ z.trip = o.trip /\ z.round = 2 /\ z.ctx = x /\ z.in = b /\ z.out = q
         /\ z.mode = 4 /\ z.status = o.status
    <3>1. PICK u : u = [aaa[s] EXCEPT !.in = b]
      OBVIOUS
    <3>2. u \in TSessions /\ u.trip = o.trip /\ u.in = b /\ u.status = o.status /\ u.mode = o.mode
      BY <1>0, <1>3, <1>9, <3>1 DEF TSessions
    <3>3. z = [u EXCEPT !.round = 2, !.ctx = x, !.out = q]
      BY <2>10, <3>1
    <3>4. z = [status |-> u.status, trip |-> u.trip, id |-> u.id, mode |-> u.mode, round |-> 2, in |-> u.in, out |-> q, ctx |-> x]
      BY <3>2, <3>3 DEF TSessions
    <3>5. /\ u.status \in {"none", "listed", "success", "failed", "expired"} /\ u.trip \in Nat /\ u.id \in Nat
          /\ u.in \in TIns /\ u.mode = 4
      BY <2>2, <3>2 DEF TSessions
    <3>6. z \in TSessions
      BY <2>4, <2>5, <2>9, <3>4, <3>5 DEF TSessions
    <3>. QED  BY <3>2, <3>4, <3>5, <3>6
  <2>12. Challenge(i, s, z, w)
    BY <1>8, <1>9, <1>18, <2>1, <2>6, <2>8, <2>10 DEF ProcessMsg3
  <2>13. z.status = "listed"
    BY <1>0, <2>11 DEF Matches
  <2>14. GoesOn(s, z, d)
    BY <1>4, <1>9, <2>2, <2>4, <2>11 DEF GoesOn
  <2>15. SessionLike(s, z)
    BY <2>3, <2>4, <2>5, <2>6, <2>9, <2>11, <2>13 DEF SessionLike, Msk
  <2>16. Makes(z.out.msg, s, z) /\ Makes(w.data.msg, s, z) /\ w.data.msg = EdhocMsg("msg4", z.ctx.eph, s)
    BY <2>4, <2>5, <2>6, <2>9, <2>11 DEF Makes
  <2>. QED  BY <1>0, <2>9, <2>11, <2>12, <2>13, <2>14, <2>15, <2>16, KeyChallenge
<1>. QED  BY <1>10, <1>11, <1>12, <1>13, <1>14, <1>15, <1>16, <1>17, <1>18 DEF mod_process


(* A new session, and a response nobody waits for. *)
LEMMA KeyAaaNew ==
    ASSUME TypeInv, KeyInv, AaaStep, NEW i \in DOMAIN radiusReq, mod_session_init(i)
    PROVE  KeyInv'
<1>0. /\ UNCHANGED <<ueVars, smfVars, relayVars, n1Vars, relayLinkVars>> /\ aaaNext \in Nat
      /\ aaa \in [Sids -> TSessions] /\ radiusReq[i] \in TRequests
  BY AaaAssumption DEF AaaStep, TypeInv, AaaTyped, RadiusTyped
<1>1. PICK s \in Sids : s = aaaNext
  BY DEF mod_session_init
<1>2. PICK id \in Nat : id = radiusReq[i].eap.id + 1
  BY <1>0 DEF TRequests, TPackets, Identity
<1>3. PICK n : n = [NoSession EXCEPT !.status = "listed", !.id = id]
  OBVIOUS
<1>4. PICK w : w = StartWire
  OBVIOUS
<1>5. PICK rsp : rsp = AccessChallenge(StateAttr(s, 0), EdhocPacket(id, w))
  OBVIOUS
<1>6. Answer(i, rsp) /\ aaa' = [aaa EXCEPT ![s] = n] /\ aaaNext' = aaaNext + 1
  BY <1>1, <1>2, <1>3, <1>4, <1>5 DEF mod_session_init
<1>7. w \in TWires /\ w.data.msg = NoMsg /\ w.start /\ ~w.more
  <2>1. StartWire \in TWires /\ StartWire.data.msg = NoMsg
    BY ControlTyped
  <2>. QED  BY <1>4, <2>1 DEF StartWire, Ack, LastWire, Wire
<1>8. n = [status |-> "listed", trip |-> 0, id |-> id, mode |-> 0, round |-> 0, in |-> NoIn, out |-> NoOut, ctx |-> NoCtx]
  BY <1>3 DEF NoSession
<1>9. n \in TSessions
  <2>1. NoCtx \in Ctxs
    BY DEF NoCtx, Ctxs
  <2>. QED  BY <1>8, <2>1, EmptyTyped DEF TSessions
<1>10. rsp.state = [sid |-> s, trip |-> 0] /\ rsp.eap.wire = w
  BY <1>5 DEF AccessChallenge, StateAttr, EdhocPacket
<1>11. rsp.state # NoState
  BY <1>10, StateAssumption, AaaAssumption DEF Sids
<1>12. aaa[s].round = 0 /\ s \in Nat
  BY <1>0, <1>1 DEF KeyInv, SessionsInv, SessionOf
<1>13. GoesOn(s, n, Empty)
  <2>1. aaa[s].in.data \in TRuns
    BY <1>0 DEF TSessions, TIns
  <2>2. MadeOf(Empty, aaa[s].in.data, Empty)
    BY <2>1, EmptyTyped, JoinMadeOf
  <2>. QED  BY <1>8, <1>12, <2>2 DEF GoesOn, NoIn
<1>14. Speaks(rsp, s, n)
  BY <1>7, <1>8, <1>10 DEF Speaks
<1>15. \A x, y : ~((Up(x, y) \/ Down(x, y)) /\ x # NoState /\ x.sid = s)
  BY <1>1, <1>12 DEF KeyInv, TripInv
<1>16. aaa'[s] = n
  BY <1>0, <1>6
<1>17. SessionOf(s)'
  BY <1>8, <1>16 DEF SessionOf, NoCtx
<1>18. FromAaa(n.out.msg)' /\ FromAaa(rsp.eap.wire.data.msg)'
  <2>1. n.out.msg = NoMsg /\ rsp.eap.wire.data.msg = NoMsg
    BY <1>7, <1>8, <1>10, EmptyTyped
  <2>. QED  BY <2>1 DEF FromAaa
<1>19. aaaNext' \in Nat /\ aaaNext <= aaaNext' /\ s < aaaNext'
  BY <1>0, <1>1, <1>6
<1>20. n.round = 0 /\ Empty \in TRuns
  BY <1>8, EmptyTyped
<1>21. PICK d \in TRuns : d = Empty /\ GoesOn(s, n, d)
  BY <1>13, <1>20
<1>. QED  BY <1>0, <1>6, <1>9, <1>11, <1>14, <1>15, <1>17, <1>18, <1>19, <1>20, <1>21, KeyMoved

LEMMA KeyAaaUnknown ==
    ASSUME TypeInv, KeyInv, AaaStep, NEW i \in DOMAIN radiusReq, RejectUnknown(i)
    PROVE  KeyInv'
<1>0. UNCHANGED <<ueVars, smfVars, relayVars, n1Vars, relayLinkVars, aaaVars>> /\ Answer(i, AccessReject)
  BY DEF AaaStep, RejectUnknown
<1>1. Resting /\ SameEnds /\ SameHeld /\ smfWait' = smfWait /\ UNCHANGED n1Vars
  BY <1>0 DEF Resting, SameEnds, SameHeld, ueVars, aaaVars, smfVars
<1>2. ~IsChallenge(AccessReject)
  BY DEF IsChallenge, AccessReject
<1>3. \A st, w : Passed(st, w)' => Passed(st, w)
  BY <1>0, AaaPassesOn
<1>4. relayRsp' = relayRsp /\ relayCur' = relayCur /\ radiusRsp' \in {radiusRsp, AccessReject}
  BY <1>0 DEF relayLinkVars, relayVars, Answer
<1>5. \A st, w : Challenged(relayRsp, st, w)' \/ Challenged(radiusRsp, st, w)' => Down(st, w)
  BY <1>2, <1>4 DEF Challenged, Down, IsChallenge
<1>6. \A s : Named(s)' => Named(s)
  BY <1>2, <1>4 DEF Named, Names, IsChallenge
<1>7. Calm
  BY <1>1, <1>3, <1>5, <1>6, CalmQueues
<1>. QED  BY <1>1, <1>7, KeyCalm

LEMMA KeyAaaStep ==
    ASSUME TypeInv, LockInv, KeyInv, AaaStep
    PROVE  KeyInv'
<1>1. PICK i \in DOMAIN radiusReq :
          mod_session_init(i) \/ RejectUnknown(i) \/ \E s \in Sids : AbortTrips(i, s) \/ mod_process(i, s)
  BY DEF AaaStep, AaaNext
<1>. QED  BY <1>1, KeyAaaNew, KeyAaaUnknown, KeyAaaMatched

(* KeyInv is inductive relative to the lock-step: in particular the final
   acknowledgement of a session comes only from a UE that has seen its message_4. *)
THEOREM KeyInductive ==
    /\ Init => KeyInv
    /\ TypeInv /\ TurnInv /\ LockInv /\ CurrentInv /\ KeyInv /\ [Next]_vars => KeyInv'
<1>1. ASSUME Init PROVE KeyInv
  <2>1. /\ relayReq = << >> /\ radiusReq = << >> /\ relayRsp = NoRsp /\ radiusRsp = NoRsp
        /\ nasUl = << >> /\ nasDl = << >>
        /\ ueRound = -1 /\ ueCtx = NoCtx /\ ueIn = NoIn /\ ueOut = NoOut /\ ueEph = 0 /\ ueKeys = {} /\ ueConfirmed = {}
        /\ \A s \in Sids : aaa[s] = NoSession
    BY <1>1 DEF Init, RelayLinkInit, RadiusInit, N1Init, UeInit, AaaInit
  <2>2. \A st, w : ~Up(st, w) /\ ~Down(st, w)
    BY <2>1 DEF Up, Down, Passed, Queued, Answering, Answers, Commanded, Commands, Challenged, IsChallenge
  <2>3. \A s \in Sids : /\ aaa[s].trip = 0 /\ aaa[s].round = 0 /\ aaa[s].ctx = NoCtx /\ aaa[s].status = "none"
                        /\ aaa[s].in.data.msg = NoMsg /\ aaa[s].out.msg = NoMsg
    BY <2>1, EmptyTyped DEF NoSession
  <2>4. NoCtx.eph = 0 /\ ~NoCtx.done /\ ueIn.data.msg = NoMsg /\ ueOut.msg = NoMsg
    BY <2>1, EmptyTyped DEF NoCtx
  <2>5. OriginInv
    BY <2>2, <2>3, <2>4 DEF OriginInv, FromUe, FromAaa
  <2>6. SessionsInv
    BY <2>3, <2>4 DEF SessionsInv, SessionOf
  <2>7. KeysInv /\ AttemptInv /\ CoverInv /\ OrderInv
    BY <2>1, <2>4 DEF KeysInv, AttemptInv, CoverInv, OrderInv
  <2>8. TripInv /\ LastInv /\ AckInv
    BY <2>2 DEF TripInv, LastInv, AckInv
  <2>. QED  BY <2>5, <2>6, <2>7, <2>8 DEF KeyInv
<1>2. ASSUME TypeInv, TurnInv, LockInv, CurrentInv, KeyInv, [Next]_vars PROVE KeyInv'
  <2>1. CASE SmfStep \/ RanStep \/ RelayStep \/ TimeoutStep \/ FaultStep \/ UNCHANGED vars
    <3>1. OriginInv
      BY <1>2 DEF KeyInv
    <3>. QED  BY <1>2, <2>1, <3>1, CalmStep, KeyCalm
  <2>2. CASE UeStep
    BY <1>2, <2>2, KeyUeStep
  <2>3. CASE AaaStep
    BY <1>2, <2>3, KeyAaaStep
  <2>. QED  BY <1>2, <2>1, <2>2, <2>3 DEF Next
<1>. QED  BY <1>1, <1>2

(* The DN-AAA accepts only a session whose key the UE has derived and seen
   confirmed by message_4, and a UE that has finished shares its key with a session
   that has verified message_3, however PDU sessions, losses, timeouts and expiries
   interleave on the UE's one context and its one pair of buffers. *)
THEOREM KeyAgreementAlways == Spec => []KeyAgreement
<1>. DEFINE Inv == TypeInv /\ TurnInv /\ LockInv /\ CurrentInv /\ KeyInv
<1>1. Init => Inv
  BY TypesInductive, TurnsInductive, LockInductive, CurrentInductive, KeyInductive
<1>2. Inv /\ [Next]_vars => Inv'
  BY TypesInductive, TurnsInductive, LockInductive, CurrentInductive, KeyInductive
<1>3. ASSUME Inv PROVE KeyAgreement
  <2>1. \A s \in Sids : aaa[s].status = "success" => Msk(aaa[s].ctx) \in ueConfirmed
    BY <1>3 DEF KeyInv, SessionsInv, SessionOf
  <2>2. ASSUME ueRound = 3 PROVE \E s \in Sids : aaa[s].ctx.done /\ Msk(aaa[s].ctx) = Msk(ueCtx)
    <3>1. PICK s \in Sids : s = ueCtx.sid /\ Msk(ueCtx) \in ueKeys
      BY <1>3, <2>2 DEF TypeInv, UeTyped
    <3>2. aaa[s].ctx.done
      BY <1>3, <2>2, <3>1 DEF KeyInv, AttemptInv
    <3>3. aaa[s].round # 0 /\ aaa[s].ctx.eph = ueCtx.eph
      BY <1>3, <3>1 DEF KeyInv, KeysInv, Msk
    <3>4. aaa[s].ctx.sid = s
      BY <1>3, <3>3 DEF KeyInv, SessionsInv, SessionOf
    <3>. QED  BY <3>1, <3>2, <3>3, <3>4 DEF Msk
  <2>. QED  BY <2>1, <2>2 DEF KeyAgreement
<1>. QED  BY <1>1, <1>2, <1>3, PTL DEF Spec

-----------------------------------------------------------------------------
(* The refinement of AuthService.  A session as the service sees it. *)
Phase(p) == IF Lost(p) THEN "stuck" ELSE IF smf[p].inProgress THEN "running" ELSE "idle"

SamePhase(p) == Phase(p)' = Phase(p)

OthersStay(q) == \A p \in Psis \ {q} : SamePhase(p)

PhaseGoal ==
    \/ \A p \in Psis : SamePhase(p)
    \/ \E q \in Psis :
           /\ OthersStay(q)
           /\ \/ Phase(q) = "idle" /\ Phase(q)' = "running"
              \/ Phase(q) = "running" /\ Phase(q)' \in {"idle", "stuck"}

(* What a session's phase depends on. *)
LEMMA PhaseFrame ==
    ASSUME NEW p \in Psis, smf[p].inProgress' = smf[p].inProgress, (smfWait = p)' <=> smfWait = p,
           Commands(p)' = {} <=> Commands(p) = {}, Answers(p)' = {} <=> Answers(p) = {}
    PROVE  SamePhase(p)
BY DEF SamePhase, Phase, Lost, Nobody

(* The UE answers each command for the session it came for. *)
LEMMA PhaseUe ==
    ASSUME TypeInv, TurnInv, UeStep
    PROVE  \A p \in Psis : SamePhase(p)
<1>. SUFFICES ASSUME NEW p \in Psis PROVE SamePhase(p)
  OBVIOUS
<1>0. smf' = smf /\ smfWait' = smfWait /\ N1Typed
  BY DEF UeStep, smfVars, TypeInv
<1>1. CASE receivePduSessionAuthenticationCommand
  <2>1. Waiting(nasDl, "command") /\ UeReplies
    BY <1>1, UeTypes DEF TypeInv
  <2>2. sendSmCause \/ \E w \in TWires : ueReply(w)
    BY <2>1 DEF UeReplies
  <2>3. PICK m : UeTakes(m)
    BY <2>1, <2>2, UeAnswers
  <2>4. m \in UlMsgs /\ m.psi = Head(nasDl).psi /\ nasUl' = Append(nasUl, m)
        /\ nasDl # << >> /\ nasDl' = Tail(nasDl) /\ Head(nasDl).kind = "command"
    BY <2>3 DEF UeTakes
  <2>5. /\ Head(nasDl).psi = p => Commands(p) # {} /\ Commands(p)' = {}
        /\ Head(nasDl).psi # p => (Commands(p)' = {} <=> Commands(p) = {})
    BY <1>0, <2>4, PopDlTurn
  <2>6. Answers(p)' = IF Head(nasDl).psi = p THEN Answers(p) \cup {Len(nasUl) + 1} ELSE Answers(p)
    BY <1>0, <2>4, PushUl
  <2>7. CASE Head(nasDl).psi = p
    <3>1. ~Nobody(p) /\ ~Nobody(p)'
      BY <2>5, <2>6, <2>7 DEF Nobody
    <3>. QED  BY <1>0, <3>1 DEF SamePhase, Phase, Lost
  <2>8. CASE Head(nasDl).psi # p
    BY <1>0, <2>5, <2>6, <2>8, PhaseFrame
  <2>. QED  BY <2>7, <2>8
<1>2. CASE receivePduSessionAuthenticationResult
  <2>1. nasDl # << >> /\ Head(nasDl).kind = "result" /\ nasDl' = Tail(nasDl) /\ nasUl' = nasUl
    BY <1>2 DEF receivePduSessionAuthenticationResult, Waiting
  <2>2. Commands(p)' = {} <=> Commands(p) = {}
    BY <1>0, <2>1, PopDlTurn
  <2>3. Answers(p)' = Answers(p)
    BY <2>1 DEF Answers
  <2>. QED  BY <1>0, <2>2, <2>3, PhaseFrame
<1>. QED  BY <1>1, <1>2 DEF UeStep, UeNext

(* A lost command leaves its session stuck. *)
LEMMA PhaseLose ==
    ASSUME TypeInv, TurnInv, LoseCommand, UNCHANGED smfVars
    PROVE  PhaseGoal
<1>0. smf' = smf /\ smfWait' = smfWait /\ N1Typed
  BY DEF smfVars, TypeInv
<1>1. nasDl # << >> /\ Head(nasDl).kind = "command" /\ nasDl' = Tail(nasDl) /\ nasUl' = nasUl
  BY DEF LoseCommand, Waiting
<1>2. PICK q \in Psis : q = Head(nasDl).psi
  <2>1. Head(nasDl) \in DlMsgs
    BY <1>0, <1>1, TailFacts DEF N1Typed
  <2>. QED  BY <1>1, <2>1 DEF DlMsgs
<1>3. ASSUME NEW p \in Psis
      PROVE  /\ q = p => Commands(p) # {} /\ Commands(p)' = {}
             /\ q # p => (Commands(p)' = {} <=> Commands(p) = {})
             /\ Answers(p)' = Answers(p)
  BY <1>0, <1>1, <1>2, PopDlTurn DEF Answers
<1>4. OthersStay(q)
  BY <1>0, <1>3, PhaseFrame DEF OthersStay
<1>5. smfWait # q /\ Answers(q) = {} /\ smf[q].inProgress
  BY <1>3 DEF TurnInv, TurnOf
<1>6. Phase(q) = "running" /\ Phase(q)' = "stuck"
  BY <1>0, <1>3, <1>5 DEF Phase, Lost, Nobody
<1>. QED  BY <1>4, <1>6 DEF PhaseGoal

(* A verdict, or no answer in time: the run is over. *)
LEMMA PhaseFinish ==
    ASSUME TypeInv, TurnInv, NEW q \in Psis, NEW v \in {"accept", "reject", "error"},
           smfWait = q, SmfFinish(q, v)
    PROVE  PhaseGoal
<1>0. N1Typed /\ smf \in [Psis -> SmfType] /\ NoPsi \notin Psis
  BY SmfAssumption DEF TypeInv, SmfTyped
<1>1. \A p \in Psis : smf[p].inProgress' = IF p = q THEN FALSE ELSE smf[p].inProgress
  BY <1>0 DEF SmfFinish, SmfType
<1>2. Result(q, v) \in DlMsgs /\ Result(q, v).kind = "result"
  BY DEF Result, DlMsgs
<1>3. \A p \in Psis : Commands(p)' = Commands(p)
  BY <1>0, <1>2, PushDl DEF SmfFinish
<1>4. \A p \in Psis : Answers(p)' = Answers(p) /\ smfWait' = NoPsi
  BY DEF SmfFinish, Answers
<1>5. OthersStay(q)
  BY <1>0, <1>1, <1>3, <1>4, PhaseFrame DEF OthersStay
<1>6. Phase(q) = "running" /\ Phase(q)' = "idle"
  BY <1>1 DEF Phase, Lost, Nobody, TurnInv, TurnOf
<1>. QED  BY <1>5, <1>6 DEF PhaseGoal

LEMMA PhaseSmf ==
    ASSUME TypeInv, TurnInv, SmfStep \/ RanStep
    PROVE  PhaseGoal
<1>1. PICK q \in Psis :
          \/ SmfSetupResponse(q)
          \/ smf_timer_sec_auth_start(q)
          \/ smf_start_secondary_auth(q) \/ SmfStartIgnored(q)
          \/ smf_handle_secondary_auth_complete(q) \/ SmfUnknownMessage(q)
          \/ SmfChallenge(q) \/ SmfVerdict(q)
  BY DEF SmfStep, RanStep, SmfNext
<1>0. N1Typed /\ smf \in [Psis -> SmfType] /\ NoPsi \notin Psis /\ TurnOf(q)
  BY SmfAssumption DEF TypeInv, SmfTyped, TurnInv
<1>2. CASE SmfSetupResponse(q) \/ smf_timer_sec_auth_start(q) \/ SmfStartIgnored(q)
  <2>1. \A p \in Psis : smf[p].inProgress' = smf[p].inProgress
    BY <1>0, <1>2 DEF SmfSetupResponse, smf_timer_sec_auth_start, SmfStartIgnored, SmfType
  <2>2. smfWait' = smfWait /\ UNCHANGED n1Vars
    BY <1>2 DEF SmfSetupResponse, smf_timer_sec_auth_start, SmfStartIgnored
  <2>3. \A p \in Psis : Commands(p)' = Commands(p) /\ Answers(p)' = Answers(p)
    BY <2>2 DEF n1Vars, Commands, Answers
  <2>. QED  BY <2>1, <2>2, <2>3, PhaseFrame DEF PhaseGoal
<1>3. CASE smf_start_secondary_auth(q)
  <2>1. \A p \in Psis : smf[p].inProgress' = IF p = q THEN TRUE ELSE smf[p].inProgress
    BY <1>0, <1>3 DEF smf_start_secondary_auth, SmfType
  <2>2. smfWait = NoPsi /\ smfWait' = q /\ ~smf[q].inProgress /\ UNCHANGED n1Vars
    BY <1>3 DEF smf_start_secondary_auth, Exchange
  <2>3. \A p \in Psis : Commands(p)' = Commands(p) /\ Answers(p)' = Answers(p)
    BY <2>2 DEF n1Vars, Commands, Answers
  <2>4. OthersStay(q)
    BY <1>0, <2>1, <2>2, <2>3, PhaseFrame DEF OthersStay
  <2>5. Phase(q) = "idle" /\ Phase(q)' = "running"
    BY <2>1, <2>2 DEF Phase, Lost, Nobody
  <2>. QED  BY <2>4, <2>5 DEF PhaseGoal
<1>4. CASE smf_handle_secondary_auth_complete(q) \/ SmfUnknownMessage(q)
  <2>1. nasUl # << >> /\ Head(nasUl).psi = q /\ nasUl' = Tail(nasUl) /\ nasDl' = nasDl /\ smf' = smf
        /\ smfWait = NoPsi
    BY <1>4 DEF smf_handle_secondary_auth_complete, SmfUnknownMessage, Waiting, smfVars
  <2>2. ASSUME NEW p \in Psis
        PROVE  /\ q = p => Answers(p) # {} /\ Answers(p)' = {}
               /\ q # p => (Answers(p)' = {} <=> Answers(p) = {})
               /\ Commands(p)' = Commands(p)
    BY <1>0, <2>1, PopUlTurn DEF Commands
  <2>3. smfWait' \in {NoPsi, q}
    BY <1>4, <2>1 DEF smf_handle_secondary_auth_complete, SmfUnknownMessage, Exchange, smfVars
  <2>4. OthersStay(q)
    BY <1>0, <2>1, <2>2, <2>3, PhaseFrame DEF OthersStay
  <2>5. smf[q].inProgress /\ Commands(q) = {} /\ Phase(q) = "running"
    BY <1>0, <2>2 DEF TurnOf, Phase, Lost, Nobody
  <2>6. Phase(q)' \in {"running", "stuck"}
    BY <2>1, <2>5 DEF Phase
  <2>7. CASE Phase(q)' = "running"
    BY <2>4, <2>5, <2>7 DEF PhaseGoal, OthersStay, SamePhase
  <2>. QED  BY <2>4, <2>5, <2>6, <2>7 DEF PhaseGoal
<1>5. CASE SmfChallenge(q)
  <2>1. \A p \in Psis : smf[p].inProgress' = smf[p].inProgress
    BY <1>0, <1>5 DEF SmfChallenge, SmfType
  <2>2. smfWait = q /\ smfWait' = NoPsi /\ nasUl' = nasUl /\ nasDl' = Append(nasDl, Command(q, relayRsp.eap))
    BY <1>5 DEF SmfChallenge
  <2>3. Command(q, relayRsp.eap) \in DlMsgs /\ Command(q, relayRsp.eap).kind = "command"
        /\ Command(q, relayRsp.eap).psi = q
    BY <1>5 DEF SmfChallenge, TypeInv, RelayTyped, TResponses, Command, DlMsgs
  <2>4. ASSUME NEW p \in Psis
        PROVE  /\ Commands(p)' = IF q = p THEN Commands(p) \cup {Len(nasDl) + 1} ELSE Commands(p)
               /\ Answers(p)' = Answers(p)
    BY <1>0, <2>2, <2>3, PushDl DEF Answers
  <2>5. ASSUME NEW p \in Psis PROVE SamePhase(p)
    <3>1. CASE p = q
      <4>1. ~Nobody(p) /\ ~Nobody(p)'
        BY <2>2, <2>4, <3>1 DEF Nobody
      <4>. QED  BY <2>1, <4>1 DEF SamePhase, Phase, Lost
    <3>2. CASE p # q
      BY <1>0, <2>1, <2>2, <2>4, <3>2, PhaseFrame
    <3>. QED  BY <3>1, <3>2
  <2>. QED  BY <2>5 DEF PhaseGoal
<1>6. CASE SmfVerdict(q)
  BY <1>6, PhaseFinish DEF SmfVerdict
<1>. QED  BY <1>1, <1>2, <1>3, <1>4, <1>5, <1>6

LEMMA PhaseStep ==
    ASSUME TypeInv, TurnInv, [Next]_vars
    PROVE  PhaseGoal
<1>1. CASE UeStep \/ SmfStep \/ RanStep
  BY <1>1, PhaseUe, PhaseSmf DEF PhaseGoal
<1>2. ASSUME UNCHANGED <<smfVars, n1Vars>> PROVE PhaseGoal
  <2>1. \A p \in Psis : Commands(p)' = Commands(p) /\ Answers(p)' = Answers(p)
    BY <1>2 DEF n1Vars, Commands, Answers
  <2>. QED  BY <1>2, <2>1, PhaseFrame DEF smfVars, PhaseGoal
<1>3. CASE RelayStep \/ AaaStep \/ RelayGivesUp \/ UNCHANGED vars
  BY <1>2, <1>3 DEF RelayStep, AaaStep, RelayGivesUp, vars
<1>4. CASE SmfGivesUp
  BY <1>4, PhaseFinish DEF SmfGivesUp, SmfTimeout
<1>5. CASE FaultStep /\ ~SmfGivesUp /\ ~RelayGivesUp
  BY <1>2, <1>5, PhaseLose DEF FaultStep
<1>. QED  BY <1>1, <1>3, <1>4, <1>5 DEF Next, TimeoutStep, FaultStep

-----------------------------------------------------------------------------
(* The keys of the service.  A UE that has seen a key confirmed is done for good. *)
OnceInv == ueConfirmed # {} => ueRound = 3

(* The late answer to an exchange the SMF has given up: the session it names is
   nobody's. *)
StaleInv ==
    relayCur = "closed" /\ IsChallenge(radiusRsp) =>
        /\ \A p \in Psis : ~Holds(p, radiusRsp.state.sid)
        /\ ~Names(relayRsp, radiusRsp.state.sid)

(* The UE draws an ephemeral key for a Start only, and each DN-AAA session sends
   one: the keys drawn stand for sessions whose Start has come. *)
Coming(s) == \E st, w : Down(st, w) /\ w.start /\ st.sid = s

StartsInv ==
    \E f \in [1..ueEph -> Sids] :
        /\ \A d, e \in 1..ueEph : f[d] = f[e] => d = e
        /\ \A e \in 1..ueEph : f[e] < aaaNext /\ ~Coming(f[e])

ServiceInv == OnceInv /\ StaleInv /\ StartsInv

LEMMA OnceStep ==
    ASSUME TypeInv, OnceInv, [Next]_vars
    PROVE  /\ OnceInv'
           /\ \/ ueConfirmed' = ueConfirmed
              \/ /\ UeStep /\ UeHandleMsg4 /\ ueRound = 2 /\ ueConfirmed = {}
                 /\ ueConfirmed' = {Msk(ueCtx)}
<1>1. CASE UeStep
  <2>1. CASE UeHandleMsg4
    BY <1>1, <2>1 DEF UeHandleMsg4, OnceInv
  <2>2. CASE receivePduSessionAuthenticationResult
    BY <2>2 DEF receivePduSessionAuthenticationResult, ueVars, OnceInv
  <2>3. CASE UeNotProvisioned \/ UeContinueResponse \/ UeParseError \/ UeAckFragment \/ UeAckWhenDone
    BY <2>3 DEF UeNotProvisioned, UeContinueResponse, UeParseError, UeAckFragment, UeAckWhenDone, ueVars, OnceInv
  <2>4. CASE UeInvalidStart \/ UeStart \/ UeHandleMsg2 \/ UeProtocolError
    <3>1. ueRound # 3 /\ ueConfirmed' = ueConfirmed
      BY <2>4 DEF UeInvalidStart, UeStart, UeHandleMsg2, UeProtocolError
    <3>. QED  BY <3>1 DEF OnceInv
  <2>. QED  BY <1>1, <2>1, <2>2, <2>3, <2>4 DEF UeStep, UeNext, receivePduSessionAuthenticationCommand
<1>2. CASE UNCHANGED ueVars
  BY <1>2 DEF ueVars, OnceInv
<1>. QED
  BY <1>1, <1>2 DEF Next, SmfStep, RelayStep, AaaStep, RanStep, TimeoutStep, FaultStep, SmfGivesUp, RelayGivesUp, vars

(* The relay's exchange and its answer are what they were, and nobody holds more. *)
LEMMA StaleFrame ==
    ASSUME StaleInv, relayCur' = relayCur, radiusRsp' = radiusRsp, relayRsp' \in {relayRsp, NoRsp},
           \A p \in Psis : smf[p].state' \in {smf[p].state, NoState}
    PROVE  StaleInv'
BY DEF StaleInv, IsChallenge, Names, Holds

LEMMA StaleSmf ==
    ASSUME TypeInv, StaleInv, SmfStep \/ RanStep
    PROVE  StaleInv'
<1>1. PICK q \in Psis :
          \/ SmfSetupResponse(q)
          \/ smf_timer_sec_auth_start(q)
          \/ smf_start_secondary_auth(q) \/ SmfStartIgnored(q)
          \/ smf_handle_secondary_auth_complete(q) \/ SmfUnknownMessage(q)
          \/ SmfChallenge(q) \/ SmfVerdict(q)
  BY DEF SmfStep, RanStep, SmfNext
<1>0. smf \in [Psis -> SmfType] /\ relayCur' = relayCur /\ radiusRsp' = radiusRsp
  BY DEF TypeInv, SmfTyped, SmfStep, RanStep, relayVars, radiusVars
<1>2. CASE SmfChallenge(q)
  <2>1. relayRsp' = NoRsp /\ IsChallenge(relayRsp)
    BY <1>2 DEF SmfChallenge, IsChallenge
  <2>2. \A p \in Psis : smf[p].state' = IF p = q THEN relayRsp.state ELSE smf[p].state
    BY <1>0, <1>2 DEF SmfChallenge, SmfType
  <2>. QED  BY <1>0, <2>1, <2>2 DEF StaleInv, IsChallenge, Names, Holds
<1>3. CASE ~SmfChallenge(q)
  <2>1. relayRsp' \in {relayRsp, NoRsp}
    BY <1>1, <1>3 DEF SmfSetupResponse, smf_timer_sec_auth_start, smf_start_secondary_auth, SmfStartIgnored, Exchange,
                smf_handle_secondary_auth_complete, SmfUnknownMessage, SmfVerdict, relayLinkVars
  <2>2. ASSUME NEW p \in Psis PROVE smf[p].state' \in {smf[p].state, NoState}
    <3>1. smf[p] \in SmfType /\ smf[q] \in SmfType
      BY <1>0
    <3>2. CASE SmfSetupResponse(q)
      <4>1. PICK b : b = (smf[q].timer \/ ~smf[q].inProgress)
        OBVIOUS
      <4>2. smf' = [smf EXCEPT ![q].timer = b]
        BY <3>2, <4>1 DEF SmfSetupResponse
      <4>. QED  BY <1>0, <3>1, <4>2 DEF SmfType
    <3>3. CASE smf_timer_sec_auth_start(q)
      <4>1. smf' = [smf EXCEPT ![q] = [smf[q] EXCEPT !.timer = FALSE, !.starts = @ + 1]]
        BY <1>0, <3>1, <3>3 DEF smf_timer_sec_auth_start
      <4>. QED  BY <1>0, <3>1, <4>1 DEF SmfType
    <3>4. CASE SmfStartIgnored(q)
      BY <1>0, <3>1, <3>4 DEF SmfStartIgnored, SmfType
    <3>5. CASE smf_start_secondary_auth(q)
      <4>1. smf' = [smf EXCEPT ![q] = [smf[q] EXCEPT !.starts = @ - 1, !.inProgress = TRUE, !.state = NoState]]
        BY <1>0, <3>1, <3>5 DEF smf_start_secondary_auth
      <4>. QED  BY <1>0, <3>1, <4>1 DEF SmfType
    <3>6. CASE smf_handle_secondary_auth_complete(q) \/ SmfUnknownMessage(q)
      BY <3>6 DEF smf_handle_secondary_auth_complete, SmfUnknownMessage, smfVars
    <3>7. CASE SmfVerdict(q)
      <4>1. smf' = [smf EXCEPT ![q] = [smf[q] EXCEPT !.inProgress = FALSE, !.state = NoState]]
        BY <1>0, <3>1, <3>7 DEF SmfVerdict, SmfFinish
      <4>. QED  BY <1>0, <3>1, <4>1 DEF SmfType
    <3>. QED  BY <1>1, <1>3, <3>2, <3>3, <3>4, <3>5, <3>6, <3>7
  <2>. QED  BY <1>0, <2>1, <2>2, StaleFrame
<1>. QED  BY <1>2, <1>3

LEMMA StaleGivesUp ==
    ASSUME TypeInv, LockInv, StaleInv, SmfGivesUp
    PROVE  StaleInv'
<1>1. PICK q \in Psis : SmfTimeout(q)
  BY DEF SmfGivesUp
<1>2. smf \in [Psis -> SmfType] /\ radiusRsp' = radiusRsp /\ relayRsp = NoRsp /\ relayRsp' = NoRsp /\ smfWait = q
      /\ relayCur' = IF relayCur = "open" THEN "closed" ELSE relayCur
  BY <1>1 DEF TypeInv, SmfTyped, SmfGivesUp, SmfTimeout, radiusVars
<1>3. smf[q].state' = NoState /\ \A r \in Psis \ {q} : smf[r].state' = smf[r].state
  BY <1>1, <1>2 DEF SmfTimeout, SmfFinish, SmfType
<1>4. CASE relayCur = "open"
  <2>1. IsChallenge(radiusRsp) => \A p \in Psis : Holds(p, radiusRsp.state.sid) => p = q
    BY <1>2, <1>4 DEF LockInv, AnswerInv, AnswerOf
  <2>. QED  BY <1>2, <1>3, <2>1 DEF StaleInv, IsChallenge, Names, Holds
<1>5. CASE relayCur # "open"
  BY <1>2, <1>3, <1>5, StaleFrame
<1>. QED  BY <1>4, <1>5

LEMMA StaleAaa ==
    ASSUME TypeInv, LockInv, StaleInv, AaaStep
    PROVE  StaleInv'
<1>0. relayCur' = relayCur /\ relayRsp' = relayRsp /\ smf' = smf /\ smf \in [Psis -> SmfType]
      /\ relayRsp \in TResponses /\ \A t \in Sids : t \in Nat
  BY AaaAssumption DEF AaaStep, smfVars, relayVars, relayLinkVars, TypeInv, SmfTyped, RelayTyped, Sids
<1>1. PICK i \in DOMAIN radiusReq : AaaActs(i)
  BY AaaShape DEF AaaStep, TypeInv
<1>2. ASSUME NEW rsp, Answer(i, rsp),
             relayCur = "closed" /\ radiusReq[i].open /\ IsChallenge(rsp) =>
                 (\A p \in Psis : ~Holds(p, rsp.state.sid)) /\ ~Names(relayRsp, rsp.state.sid)
      PROVE  StaleInv'
  BY <1>0, <1>2 DEF Answer, StaleInv, IsChallenge, Names, Holds
<1>3. CASE mod_session_init(i)
  <2>. DEFINE rsp == AccessChallenge(StateAttr(aaaNext, 0), EdhocPacket(radiusReq[i].eap.id + 1, StartWire))
  <2>1. Answer(i, rsp) /\ aaaNext \in Sids
    BY <1>3 DEF mod_session_init
  <2>2. rsp.state.sid = aaaNext
    BY DEF AccessChallenge, StateAttr
  <2>3. (\A p \in Psis : ~Holds(p, aaaNext)) /\ ~Names(relayRsp, aaaNext)
    BY <1>0, <2>1 DEF LockInv, CreatedInv, Names
  <2>. HIDE DEF rsp
  <2>. QED  BY <1>2, <2>1, <2>2, <2>3
<1>4. CASE RejectUnknown(i)
  <2>1. ~IsChallenge(AccessReject)
    BY DEF AccessReject, IsChallenge
  <2>. QED  BY <1>2, <1>4, <2>1 DEF RejectUnknown
<1>5. ASSUME NEW s \in Sids, Continues(i, s) PROVE StaleInv'
  <2>1. PICK sess \in TSessions, w \in TWires : Challenge(i, s, sess, w)
    BY <1>5 DEF Continues
  <2>. DEFINE rsp == AccessChallenge(StateAttr(s, sess.trip + 1), EdhocPacket(sess.id + 1, w))
  <2>2. Answer(i, rsp) /\ rsp.state.sid = s
    BY <2>1 DEF Challenge, AccessChallenge, StateAttr
  <2>3. Carries(radiusReq[i], s) /\ Carried(s)
    BY <1>5 DEF Continues, Matches, Carries, Carried
  <2>4. relayCur = "closed" /\ radiusReq[i].open => \A p \in Psis : ~Holds(p, s)
    BY <2>3 DEF LockInv, HoldInv
  <2>5. ~Names(relayRsp, s)
    BY <2>3 DEF LockInv, AnswerInv, AnswerOf, Names
  <2>. HIDE DEF rsp
  <2>. QED  BY <1>2, <2>2, <2>4, <2>5
<1>6. ASSUME NEW s \in Sids, Ends(i, s) PROVE StaleInv'
  <2>1. ~IsChallenge(AccessReject) /\ ~IsChallenge(AccessAccept)
    BY DEF AccessReject, AccessAccept, IsChallenge
  <2>. QED  BY <1>2, <1>6, <2>1 DEF Ends, Fail, Conclude
<1>. QED  BY <1>1, <1>3, <1>4, <1>5, <1>6 DEF AaaActs

LEMMA StaleStep ==
    ASSUME TypeInv, LockInv, StaleInv, [Next]_vars
    PROVE  StaleInv'
<1>1. ASSUME UNCHANGED <<smfVars, relayVars, radiusRsp, relayRsp>> PROVE StaleInv'
  BY <1>1, StaleFrame DEF smfVars, relayVars
<1>2. CASE RelayStep \/ RelayGivesUp
  <2>1. CASE RelayRead
    <3>1. radiusRsp' = NoRsp
      BY <2>1 DEF RelayRead, LockInv, SocketInv
    <3>. QED  BY <3>1 DEF StaleInv, IsChallenge
  <2>2. CASE RelayForward \/ RelayTimeout
    BY <2>2 DEF RelayForward, RelayTimeout, StaleInv, IsChallenge
  <2>. QED  BY <1>2, <2>1, <2>2 DEF RelayStep, RelayNext, RelayGivesUp
<1>3. CASE UeStep \/ UNCHANGED vars
  BY <1>1, <1>3 DEF UeStep, vars, relayLinkVars, radiusVars
<1>4. CASE FaultStep /\ ~SmfGivesUp /\ ~RelayGivesUp
  BY <1>1, <1>4 DEF FaultStep, LoseRelayRequest, LoseAccessRequest, Expire, relayLinkVars, radiusVars
<1>. QED  BY <1>2, <1>3, <1>4, StaleSmf, StaleGivesUp, StaleAaa DEF Next, TimeoutStep, FaultStep

LEMMA StartsFrame ==
    ASSUME TypeInv, StartsInv, ueEph' = ueEph, aaaNext' \in Nat, aaaNext <= aaaNext',
           \A s \in Sids : Coming(s)' => Coming(s) \/ s >= aaaNext
    PROVE  StartsInv'
<1>1. PICK f \in [1..ueEph -> Sids] :
          /\ \A d, e \in 1..ueEph : f[d] = f[e] => d = e
          /\ \A e \in 1..ueEph : f[e] < aaaNext /\ ~Coming(f[e])
  BY DEF StartsInv
<1>2. aaaNext \in Nat /\ \A s \in Sids : s \in Nat
  BY AaaAssumption DEF TypeInv, AaaTyped, Sids
<1>3. ASSUME NEW e \in 1..ueEph PROVE f[e] < aaaNext' /\ ~Coming(f[e])'
  <2>1. PICK s \in Sids : s = f[e]
    OBVIOUS
  <2>2. s < aaaNext /\ ~Coming(s)
    BY <1>1, <2>1
  <2>3. s < aaaNext' /\ ~Coming(s)'
    BY <1>2, <2>2
  <2>. QED  BY <2>1, <2>3
<1>. QED  BY <1>1, <1>3 DEF StartsInv

(* The UE takes the Start of session s, and no other is on its way. *)
LEMMA StartTaken ==
    ASSUME TypeInv, TurnInv, LockInv, KeyInv, StaleInv, UeStep, UeStart
    PROVE  \E s \in Sids : Coming(s) /\ s < aaaNext /\ ~Coming(s)'
<1>. DEFINE q == Head(nasDl).psi
<1>0. Waiting(nasDl, "command") /\ ueWire = StartWire /\ \E w \in TWires : ueReply(w)
  <2>1. Waiting(nasDl, "command") /\ ueWire = StartWire
    BY DEF UeStart, ensureEdhocProvisioned
  <2>2. ueEph + 1 \in Nat
    BY DEF TypeInv, UeTyped
  <2>3. PICK x \in TMsgs : x = EdhocMsg("msg1", ueEph + 1, 0)
    BY <2>2 DEF EdhocMsg, TMsgs, FirstTypes
  <2>4. PICK o \in TOuts : o = NewOut(x, Msg1Len) /\ Pending(o)
    BY MsgLenAssumption, NewOutTyped
  <2>5. EncodeEdhocFragment(o) \in TWires
    BY <2>4, FragmentFacts
  <2>6. ueReply(EncodeEdhocFragment(o))
    BY <2>3, <2>4 DEF UeStart
  <2>. QED  BY <2>1, <2>5, <2>6
<1>1. PICK m : UeTakes(m)
  BY <1>0, UeAnswers
<1>2. q \in Psis /\ Down(smf[q].state, ueWire) /\ smfWait # q /\ 1 \in Commands(q)
  BY <1>1, UeTaken DEF ueWire
<1>3. StartWire.start
  BY DEF StartWire, Wire
<1>4. smf[q].state # NoState /\ smf[q].state \in TStates \cup {NoState} /\ smf[q].state \in TStates
  <2>1. smf[q].state # NoState
    BY <1>0, <1>2, <1>3 DEF KeyInv, LastInv
  <2>. QED  BY <1>2, <2>1 DEF TypeInv, SmfTyped, SmfType
<1>5. PICK s \in Sids : s = smf[q].state.sid /\ Holds(q, s)
  BY <1>4 DEF TStates, Holds
<1>6. Coming(s) /\ s < aaaNext
  <2>1. Coming(s)
    BY <1>0, <1>2, <1>3, <1>5 DEF Coming
  <2>. QED  BY <1>2, <1>4, <1>5, <2>1 DEF KeyInv, TripInv
<1>7. /\ nasDl # << >> /\ nasDl' = Tail(nasDl) /\ Head(nasDl).kind = "command" /\ N1Typed
      /\ smf' = smf /\ smfWait' = smfWait /\ relayRsp' = relayRsp /\ radiusRsp' = radiusRsp
  BY <1>1 DEF UeTakes, smfVars, relayVars, relayLinkVars, radiusVars, TypeInv
<1>8. ASSUME NEW st, NEW w, Down(st, w)', w.start, st.sid = s PROVE FALSE
  <2>0. Down(st, w) /\ st # NoState
    <3>1. Down(st, w)
      BY <1>1, <1>8, UeTaken
    <3>. QED  BY <1>8, <3>1 DEF KeyInv, LastInv
  <2>1. ASSUME NEW p \in Psis, st = smf[p].state, Commanded(p, w)' PROVE FALSE
    <3>1. Holds(p, s)
      BY <1>8, <2>0, <2>1 DEF Holds
    <3>2. p = q
      BY <1>2, <1>5, <3>1 DEF LockInv, HoldInv
    <3>3. Commands(p)' = {}
      BY <1>7, <3>2, PopDlTurn
    <3>. QED  BY <2>1, <3>3 DEF Commanded
  <2>2. ASSUME Challenged(relayRsp, st, w) PROVE FALSE
    BY <1>2, <1>5, <1>8, <2>2 DEF Challenged, LockInv, AnswerInv, AnswerOf
  <2>3. ASSUME Challenged(radiusRsp, st, w) PROVE FALSE
    <3>1. relayCur \in {"open", "closed"}
      BY <2>3 DEF Challenged, IsChallenge, LockInv, SocketInv, TypeInv, RelayTyped
    <3>2. CASE relayCur = "open"
      BY <1>2, <1>5, <1>8, <2>3, <3>2 DEF Challenged, LockInv, AnswerInv, AnswerOf
    <3>3. CASE relayCur = "closed"
      BY <1>2, <1>5, <1>8, <2>3, <3>3 DEF Challenged, StaleInv
    <3>. QED  BY <3>1, <3>2, <3>3
  <2>. QED  BY <1>7, <1>8, <2>1, <2>2, <2>3 DEF Down, Challenged, IsChallenge
<1>9. ~Coming(s)'
  BY <1>8 DEF Coming
<1>. QED  BY <1>6, <1>9

LEMMA StartsUe ==
    ASSUME TypeInv, TurnInv, LockInv, KeyInv, StaleInv, StartsInv, UeStep
    PROVE  StartsInv'
<1>0. aaaNext' = aaaNext /\ aaaNext \in Nat /\ ueEph \in Nat
  BY AaaAssumption DEF UeStep, aaaVars, TypeInv, AaaTyped, UeTyped
<1>1. \A st, w : Down(st, w)' => Down(st, w)
  <2>1. CASE receivePduSessionAuthenticationResult
    <3>1. SameEnds
      BY <2>1 DEF UeStep, receivePduSessionAuthenticationResult, SameEnds, ueVars, aaaVars
    <3>2. Calm
      BY <2>1, <3>1, CalmLose DEF UeStep
    <3>. QED  BY <3>2 DEF Calm
  <2>2. CASE receivePduSessionAuthenticationCommand
    <3>1. Waiting(nasDl, "command") /\ UeReplies
      BY <2>2, UeTypes DEF TypeInv
    <3>2. sendSmCause \/ \E w \in TWires : ueReply(w)
      BY <3>1 DEF UeReplies
    <3>3. PICK m : UeTakes(m)
      BY <3>1, <3>2, UeAnswers
    <3>. QED  BY <3>3, UeTaken
  <2>. QED  BY <2>1, <2>2 DEF UeStep, UeNext
<1>2. \A s : Coming(s)' => Coming(s)
  BY <1>1 DEF Coming
<1>3. CASE UeStart
  <2>1. PICK s \in Sids : Coming(s) /\ s < aaaNext /\ ~Coming(s)'
    BY <1>3, StartTaken
  <2>2. PICK f \in [1..ueEph -> Sids] :
            /\ \A d, e \in 1..ueEph : f[d] = f[e] => d = e
            /\ \A e \in 1..ueEph : f[e] < aaaNext /\ ~Coming(f[e])
    BY DEF StartsInv
  <2>3. PICK n \in Nat : n = ueEph + 1 /\ ueEph' = n
    BY <1>0, <1>3 DEF UeStart
  <2>4. \A e \in 1..n : e = n \/ e \in 1..ueEph
    BY <1>0, <2>3
  <2>5. PICK g \in [1..n -> Sids] : g = [e \in 1..n |-> IF e = n THEN s ELSE f[e]]
    BY <2>1, <2>2, <2>4
  <2>6. \A e \in 1..ueEph : f[e] # s /\ ~Coming(f[e])'
    BY <1>2, <2>1, <2>2
  <2>7. ASSUME NEW d \in 1..n, NEW e \in 1..n, g[d] = g[e] PROVE d = e
    BY <2>2, <2>4, <2>5, <2>6, <2>7
  <2>8. ASSUME NEW e \in 1..n PROVE g[e] < aaaNext' /\ ~Coming(g[e])'
    <3>1. CASE e = n
      <4>1. g[e] = s
        BY <2>5, <3>1
      <4>. QED  BY <1>0, <2>1, <4>1
    <3>2. CASE e # n
      <4>1. g[e] = f[e] /\ e \in 1..ueEph
        BY <2>4, <2>5, <3>2
      <4>. QED  BY <1>0, <2>2, <2>6, <4>1
    <3>. QED  BY <3>1, <3>2
  <2>. QED  BY <2>3, <2>7, <2>8 DEF StartsInv
<1>4. CASE ~UeStart
  <2>1. ueEph' = ueEph
    BY <1>4 DEF UeStep, UeNext, receivePduSessionAuthenticationCommand, receivePduSessionAuthenticationResult, ueVars,
         UeNotProvisioned, UeContinueResponse, UeInvalidStart, UeParseError, UeAckFragment, UeHandleMsg2, UeHandleMsg4,
         UeAckWhenDone, UeProtocolError
  <2>. QED  BY <1>0, <1>2, <2>1, StartsFrame
<1>. QED  BY <1>3, <1>4

LEMMA StartsAaa ==
    ASSUME TypeInv, KeyInv', StartsInv, AaaStep
    PROVE  StartsInv'
<1>0. UNCHANGED <<smfVars, relayVars, n1Vars, relayLinkVars>> /\ aaa \in [Sids -> TSessions]
      /\ aaaNext \in Nat /\ ueEph' = ueEph /\ \A t \in Sids : t \in Nat
  BY AaaAssumption DEF AaaStep, TypeInv, AaaTyped, ueVars, Sids
<1>1. PICK i \in DOMAIN radiusReq : AaaActs(i)
  BY AaaShape DEF AaaStep, TypeInv
<1>2. ASSUME NEW rsp, Answer(i, rsp), aaaNext' \in Nat, aaaNext <= aaaNext',
             IsChallenge(rsp) => rsp.state.trip # 0 \/ rsp.state.sid >= aaaNext
      PROVE  StartsInv'
  <2>1. ASSUME NEW s \in Sids, Coming(s)' PROVE Coming(s) \/ s >= aaaNext
    <3>1. PICK st, w : Down(st, w)' /\ w.start /\ st.sid = s
      BY <2>1 DEF Coming
    <3>2. st.trip = 0
      BY <3>1 DEF KeyInv, LastInv
    <3>3. Down(st, w) \/ Challenged(rsp, st, w)
      BY <1>0, <1>2, <3>1, AaaPassesOn
    <3>. QED  BY <1>2, <3>1, <3>2, <3>3 DEF Coming, Challenged
  <2>. QED  BY <1>0, <1>2, <2>1, StartsFrame
<1>3. CASE mod_session_init(i)
  <2>. DEFINE rsp == AccessChallenge(StateAttr(aaaNext, 0), EdhocPacket(radiusReq[i].eap.id + 1, StartWire))
  <2>1. Answer(i, rsp) /\ aaaNext' = aaaNext + 1
    BY <1>3 DEF mod_session_init
  <2>2. rsp.state.sid = aaaNext
    BY DEF AccessChallenge, StateAttr
  <2>. HIDE DEF rsp
  <2>. QED  BY <1>0, <1>2, <2>1, <2>2
<1>4. CASE RejectUnknown(i)
  <2>1. ~IsChallenge(AccessReject)
    BY DEF AccessReject, IsChallenge
  <2>. QED  BY <1>0, <1>2, <1>4, <2>1 DEF RejectUnknown, aaaVars
<1>5. ASSUME NEW s \in Sids, Continues(i, s) PROVE StartsInv'
  <2>1. PICK sess \in TSessions, w \in TWires : Challenge(i, s, sess, w)
    BY <1>5 DEF Continues
  <2>. DEFINE rsp == AccessChallenge(StateAttr(s, sess.trip + 1), EdhocPacket(sess.id + 1, w))
  <2>2. Answer(i, rsp) /\ aaaNext' = aaaNext /\ rsp.state.trip = sess.trip + 1
    BY <2>1 DEF Challenge, AccessChallenge, StateAttr
  <2>3. sess.trip + 1 # 0
    BY DEF TSessions
  <2>. HIDE DEF rsp
  <2>. QED  BY <1>0, <1>2, <2>2, <2>3
<1>6. ASSUME NEW s \in Sids, Ends(i, s) PROVE StartsInv'
  <2>1. ~IsChallenge(AccessReject) /\ ~IsChallenge(AccessAccept)
    BY DEF AccessReject, AccessAccept, IsChallenge
  <2>. QED  BY <1>0, <1>2, <1>6, <2>1 DEF Ends, Fail, Conclude
<1>. QED  BY <1>1, <1>3, <1>4, <1>5, <1>6 DEF AaaActs

LEMMA StartsStep ==
    ASSUME TypeInv, TurnInv, LockInv, KeyInv, KeyInv', StaleInv, StartsInv, [Next]_vars
    PROVE  StartsInv'
<1>1. CASE SmfStep \/ RanStep \/ RelayStep \/ TimeoutStep \/ FaultStep \/ UNCHANGED vars
  <2>1. Calm /\ Resting
    BY <1>1, CalmStep DEF KeyInv
  <2>2. ueEph' = ueEph /\ aaaNext' = aaaNext /\ aaaNext \in Nat
    BY <2>1, AaaAssumption DEF Resting, ueVars, TypeInv, AaaTyped
  <2>3. \A s : Coming(s)' => Coming(s)
    BY <2>1 DEF Calm, Coming
  <2>. QED  BY <2>2, <2>3, StartsFrame
<1>. QED  BY <1>1, StartsUe, StartsAaa DEF Next

LEMMA ServiceInductive ==
    /\ Init => ServiceInv
    /\ TypeInv /\ TurnInv /\ LockInv /\ KeyInv /\ KeyInv' /\ ServiceInv /\ [Next]_vars => ServiceInv'
<1>1. ASSUME Init PROVE ServiceInv
  <2>1. ueConfirmed = {} /\ ueEph = 0 /\ radiusRsp = NoRsp
    BY <1>1 DEF Init, UeInit, RadiusInit
  <2>2. StartsInv
    <3>1. 1..ueEph = {}
      BY <2>1
    <3>2. [e \in 1..ueEph |-> 1] \in [1..ueEph -> Sids]
      BY <3>1
    <3>. QED  BY <3>1, <3>2 DEF StartsInv
  <2>. QED  BY <2>1, <2>2 DEF ServiceInv, OnceInv, StaleInv, IsChallenge
<1>2. ASSUME TypeInv, TurnInv, LockInv, KeyInv, KeyInv', ServiceInv, [Next]_vars PROVE ServiceInv'
  BY <1>2, OnceStep, StaleStep, StartsStep DEF ServiceInv
<1>. QED  BY <1>1, <1>2

(* No more ephemeral keys than sessions. *)
LEMMA EphBound ==
    ASSUME TypeInv, StartsInv
    PROVE  ueEph <= MaxSids
<1>1. PICK f \in [1..ueEph -> Sids] : \A d, e \in 1..ueEph : f[d] = f[e] => d = e
  BY DEF StartsInv
<1>2. ueEph \in Nat /\ MaxSids \in Nat
  BY AaaAssumption DEF TypeInv, UeTyped
<1>3. /\ IsFiniteSet(1..ueEph) /\ Cardinality(1..ueEph) = ueEph
      /\ IsFiniteSet(Sids) /\ Cardinality(Sids) = MaxSids
  BY <1>2, FS_Interval DEF Sids
<1>. QED  BY <1>1, <1>2, <1>3, FS_PigeonHole

(* The keys access was granted for. *)
Granted == {Msk(aaa[s].ctx) : s \in {t \in Sids : aaa[t].status = "success"}}

Keys == (0..MaxSids) \X Sids

LEMMA KeyTyped ==
    TypeInv /\ KeyInv /\ StartsInv =>
        \A s \in Sids : Msk(aaa[s].ctx) \in ueKeys => Msk(aaa[s].ctx) \in Keys /\ Msk(aaa[s].ctx)[2] = s
<1>. SUFFICES ASSUME TypeInv, KeyInv, StartsInv, NEW s \in Sids, Msk(aaa[s].ctx) \in ueKeys
              PROVE  Msk(aaa[s].ctx) \in Keys /\ Msk(aaa[s].ctx)[2] = s
  OBVIOUS
<1>1. aaa[s].round # 0 /\ aaa[s].ctx.sid = s
  BY KnownKey
<1>2. aaa[s].ctx.eph <= ueEph
  BY <1>1 DEF KeyInv, SessionsInv, SessionOf
<1>3. aaa[s].ctx.eph \in Nat /\ ueEph \in Nat /\ MaxSids \in Nat
  BY AaaAssumption DEF TypeInv, AaaTyped, UeTyped, TSessions, Ctxs
<1>4. aaa[s].ctx.eph \in 0..MaxSids
  BY <1>2, <1>3, EphBound
<1>. QED  BY <1>1, <1>4 DEF Msk, Keys

LEMMA KeyTypedNext ==
    (TypeInv /\ KeyInv /\ StartsInv =>
        \A s \in Sids : Msk(aaa[s].ctx) \in ueKeys => Msk(aaa[s].ctx) \in Keys /\ Msk(aaa[s].ctx)[2] = s)'
BY KeyTyped, PTL

LEMMA GrantedSame ==
    ASSUME NEW s \in Sids, aaa[s].status # "success", aaa'[s].status # "success",
           \A t \in Sids : t # s => aaa'[t] = aaa[t]
    PROVE  Granted' = Granted
<1>1. {t \in Sids : aaa'[t].status = "success"} = {t \in Sids : aaa[t].status = "success"}
  OBVIOUS
<1>2. \A t \in {u \in Sids : aaa[u].status = "success"} : Msk(aaa'[t].ctx) = Msk(aaa[t].ctx)
  OBVIOUS
<1>. QED  BY <1>1, <1>2 DEF Granted

LEMMA GrantAaa ==
    ASSUME TypeInv, TypeInv', LockInv, KeyInv, KeyInv', StartsInv', AaaStep
    PROVE  \/ Granted' = Granted
           \/ \E k \in Keys : k \in ueConfirmed \ Granted /\ Granted' = Granted \cup {k}
<1>0. aaa \in [Sids -> TSessions] /\ ueConfirmed' = ueConfirmed /\ ueKeys' = ueKeys /\ ueConfirmed \subseteq ueKeys
  BY DEF AaaStep, TypeInv, AaaTyped, UeTyped, ueVars
<1>1. PICK i \in DOMAIN radiusReq : AaaActs(i)
  BY AaaShape DEF AaaStep, TypeInv
<1>2. \A t \in Sids : aaa[t].status = "success" => Msk(aaa[t].ctx) \in ueConfirmed
  BY DEF KeyInv, SessionsInv, SessionOf
<1>3. CASE mod_session_init(i)
  <2>1. PICK s \in Sids : s = aaaNext
    BY <1>3 DEF mod_session_init
  <2>2. PICK n : n = [NoSession EXCEPT !.status = "listed", !.id = radiusReq[i].eap.id + 1]
    OBVIOUS
  <2>5. n.status = "listed" /\ aaa' = [aaa EXCEPT ![s] = n]
    BY <1>3, <2>1, <2>2 DEF mod_session_init, NoSession
  <2>3. aaa[s].round = 0
    BY <2>1, AaaAssumption DEF KeyInv, SessionsInv, SessionOf, Sids
  <2>4. aaa[s].status # "success"
    BY <1>0, <1>2, <2>3, KnownKey
  <2>. QED  BY <1>0, <2>4, <2>5, GrantedSame
<1>4. CASE RejectUnknown(i)
  BY <1>4 DEF RejectUnknown, aaaVars, Granted
<1>5. ASSUME NEW s \in Sids, Continues(i, s) PROVE Granted' = Granted
  <2>1. PICK sess \in TSessions, w \in TWires : Served(s, sess) /\ Challenge(i, s, sess, w)
    BY <1>5 DEF Continues
  <2>2. PICK n : n = [sess EXCEPT !.trip = sess.trip + 1, !.id = sess.id + 1]
    OBVIOUS
  <2>3. n.status = "listed" /\ aaa' = [aaa EXCEPT ![s] = n]
    BY <2>1, <2>2 DEF TSessions, Served, Challenge
  <2>4. aaa[s].status = "listed"
    BY <1>5 DEF Continues, Matches
  <2>. QED  BY <1>0, <2>3, <2>4, GrantedSame
<1>6. ASSUME NEW s \in Sids, Ends(i, s)
      PROVE  \/ Granted' = Granted
             \/ \E k \in Keys : k \in ueConfirmed \ Granted /\ Granted' = Granted \cup {k}
  <2>1. PICK sess \in TSessions :
            Fail(i, s, sess) \/ Conclude(i, s, sess, "success", AccessAccept)
    BY <1>6 DEF Ends
  <2>0. PICK e \in {"failed", "success"} : aaa' = [aaa EXCEPT ![s] = [sess EXCEPT !.status = e]]
    BY <2>1 DEF Fail, Conclude
  <2>6. PICK n : n = [sess EXCEPT !.status = e]
    OBVIOUS
  <2>2. aaa' = [aaa EXCEPT ![s] = n] /\ n.status \in {"failed", "success"}
    BY <2>0, <2>6 DEF TSessions
  <2>3. aaa[s].status = "listed" /\ aaa'[s] = n /\ \A t \in Sids : t # s => aaa'[t] = aaa[t]
    BY <1>0, <1>6, <2>2 DEF Ends, Matches
  <2>4. CASE n.status = "failed"
    BY <2>3, <2>4, GrantedSame
  <2>5. CASE n.status = "success"
    <3>1. PICK k : k = Msk(aaa'[s].ctx)
      OBVIOUS
    <3>2. k \in ueConfirmed /\ k \in ueKeys
      BY <1>0, <2>3, <2>5, <3>1 DEF KeyInv, SessionsInv, SessionOf
    <3>3. k \in Keys /\ k[2] = s
      BY <1>0, <3>1, <3>2, KeyTypedNext DEF Keys
    <3>4. ASSUME NEW t \in Sids, aaa[t].status = "success" PROVE t # s /\ Msk(aaa[t].ctx)[2] = t
      <4>1. aaa[t].ctx.sid = t
        BY <1>0, <1>2, <3>4, KnownKey
      <4>. QED  BY <2>3, <3>4, <4>1 DEF Msk
    <3>5. k \notin Granted
      BY <3>3, <3>4 DEF Granted
    <3>6. {t \in Sids : aaa'[t].status = "success"} = {t \in Sids : aaa[t].status = "success"} \cup {s}
      BY <2>3, <2>5
    <3>7. \A t \in {u \in Sids : aaa[u].status = "success"} : Msk(aaa'[t].ctx) = Msk(aaa[t].ctx)
      BY <2>3, <3>4
    <3>8. Granted' = Granted \cup {k}
      BY <3>1, <3>6, <3>7 DEF Granted
    <3>. QED  BY <3>2, <3>3, <3>5, <3>8
  <2>. QED  BY <2>2, <2>4, <2>5
<1>. QED  BY <1>1, <1>3, <1>4, <1>5, <1>6 DEF AaaActs

(* The others grant nothing. *)
LEMMA GrantOther ==
    ASSUME TypeInv, [Next]_vars, ~AaaStep
    PROVE  Granted' = Granted
<1>0. aaa \in [Sids -> TSessions]
  BY DEF TypeInv, AaaTyped
<1>1. aaa' = aaa \/ \E s \in Sids : Expire(s)
  BY DEF Next, UeStep, SmfStep, RelayStep, RanStep, TimeoutStep, FaultStep, SmfGivesUp, RelayGivesUp, aaaVars, vars
<1>2. ASSUME NEW s \in Sids, Expire(s) PROVE Granted' = Granted
  <2>1. aaa[s].status = "listed" /\ aaa' = [aaa EXCEPT ![s].status = "expired"]
    BY <1>2 DEF Expire
  <2>2. aaa'[s].status = "expired" /\ \A t \in Sids : t # s => aaa'[t] = aaa[t]
    BY <1>0, <2>1 DEF TSessions
  <2>. QED  BY <2>1, <2>2, GrantedSame
<1>. QED  BY <1>1, <1>2 DEF Granted

-----------------------------------------------------------------------------
(* The variables of AuthService as the mapping gives them. *)
Sessions == [p \in Psis |-> IF Stalled(p) THEN "stuck" ELSE IF smf[p].inProgress THEN "running" ELSE "idle"]

LEMMA SessionsPhase == TypeInv => Sessions = [p \in Psis |-> Phase(p)]
<1>1. ASSUME TypeInv PROVE \A p \in Psis : Stalled(p) <=> Lost(p)
  BY <1>1, CountTurns DEF Stalled, Lost
<1>. QED  BY <1>1 DEF Sessions, Phase

LEMMA SessionsPhaseNext == (TypeInv => Sessions = [p \in Psis |-> Phase(p)])'
BY SessionsPhase, PTL

(* Every step of the system is one of the service, or none. *)
LEMMA ServiceStep ==
    ASSUME TypeInv, TypeInv', TurnInv, LockInv, KeyInv, KeyInv', ServiceInv, ServiceInv', [Next]_vars
    PROVE  [Auth!Next]_(Auth!vars)
<1>1. Sessions = [p \in Psis |-> Phase(p)] /\ Sessions' = [p \in Psis |-> Phase(p)']
  BY SessionsPhase, SessionsPhaseNext
<1>2. ASSUME UNCHANGED <<Sessions, ueConfirmed, Granted>> PROVE UNCHANGED Auth!vars
  BY <1>2 DEF Auth!vars, Sessions, Granted
<1>3. ASSUME NEW p \in Psis, NEW a, NEW b, Sessions[p] = a, Sessions' = [Sessions EXCEPT ![p] = b],
             UNCHANGED <<ueConfirmed, Granted>>
      PROVE  Auth!Move(p, a, b)
  BY <1>3 DEF Auth!Move, Sessions, Granted
<1>4. ASSUME NEW k, ueConfirmed = {}, ueConfirmed' = {k}, UNCHANGED <<Sessions, Granted>>
      PROVE  Auth!Confirm(k)
  BY <1>4 DEF Auth!Confirm, Sessions, Granted
<1>5. ASSUME NEW k, k \in ueConfirmed \ Granted, Granted' = Granted \cup {k}, UNCHANGED <<Sessions, ueConfirmed>>
      PROVE  Auth!Grant(k)
  BY <1>5 DEF Auth!Grant, Sessions, Granted
<1>6. ASSUME \A p \in Psis : SamePhase(p) PROVE Sessions' = Sessions
  BY <1>1, <1>6 DEF SamePhase
<1>7. CASE AaaStep
  <2>1. ueConfirmed' = ueConfirmed /\ \A p \in Psis : SamePhase(p)
    <3>1. \A p \in Psis : Commands(p)' = Commands(p) /\ Answers(p)' = Answers(p)
      BY <1>7 DEF AaaStep, n1Vars, Commands, Answers
    <3>. QED  BY <1>7, <3>1, PhaseFrame DEF AaaStep, ueVars, smfVars
  <2>2. CASE Granted' = Granted
    BY <1>2, <1>6, <2>1, <2>2
  <2>3. ASSUME NEW k \in Keys, k \in ueConfirmed \ Granted, Granted' = Granted \cup {k}
        PROVE  Auth!Next
    <3>1. Auth!Grant(k)
      BY <1>5, <1>6, <2>1, <2>3
    <3>. QED  BY <3>1 DEF Auth!Next, Keys
  <2>. QED  BY <1>7, <2>2, <2>3, GrantAaa DEF ServiceInv
<1>8. CASE UeStep
  <2>1. Granted' = Granted
    BY <1>8 DEF UeStep, aaaVars, Granted
  <2>2. Sessions' = Sessions
    BY <1>6, <1>8, PhaseUe
  <2>3. CASE ueConfirmed' = ueConfirmed
    BY <1>2, <2>1, <2>2, <2>3
  <2>4. CASE UeHandleMsg4 /\ ueRound = 2 /\ ueConfirmed = {} /\ ueConfirmed' = {Msk(ueCtx)}
    <3>1. Auth!Confirm(Msk(ueCtx))
      BY <1>4, <2>1, <2>2, <2>4
    <3>2. ueCtx.eph <= ueEph /\ ueEph <= MaxSids
      BY EphBound DEF KeyInv, AttemptInv, ServiceInv
    <3>3. ueCtx.eph \in Nat /\ ueEph \in Nat /\ MaxSids \in Nat /\ ueCtx.sid \in Sids
      BY <2>4, AaaAssumption DEF TypeInv, UeTyped, Ctxs
    <3>4. Msk(ueCtx) \in Keys
      BY <3>2, <3>3 DEF Keys, Msk
    <3>. QED  BY <3>1, <3>4 DEF Auth!Next, Keys
  <2>. QED  BY <2>3, <2>4, OnceStep DEF ServiceInv
<1>9. CASE ~AaaStep /\ ~UeStep
  <2>1. ueConfirmed' = ueConfirmed /\ Granted' = Granted
    BY <1>9, GrantOther, OnceStep DEF ServiceInv
  <2>2. CASE \A p \in Psis : SamePhase(p)
    BY <1>2, <1>6, <2>1, <2>2
  <2>3. ASSUME NEW q \in Psis, OthersStay(q), NEW a, NEW b, Phase(q) = a, Phase(q)' = b
        PROVE  Auth!Move(q, a, b)
    <3>1. Sessions[q] = a /\ Sessions' = [Sessions EXCEPT ![q] = b]
      BY <1>1, <2>3 DEF OthersStay, SamePhase
    <3>. QED  BY <1>3, <2>1, <3>1
  <2>4. CASE \E q \in Psis :
                /\ OthersStay(q)
                /\ \/ Phase(q) = "idle" /\ Phase(q)' = "running"
                   \/ Phase(q) = "running" /\ Phase(q)' \in {"idle", "stuck"}
    BY <2>3, <2>4 DEF Auth!Next
  <2>. QED  BY <2>2, <2>4, PhaseStep DEF PhaseGoal
<1>. QED  BY <1>7, <1>8, <1>9

(* UE, SMF, relay and DN-AAA implement the safety of the authentication
   service for any number of PDU sessions and DN-AAA sessions: whatever is
   lost, late or given up, a step they take starts a run of one session, ends
   it or leaves it stuck, confirms the UE's one handshake, grants access for its
   key, or is not seen at all; a stuck session stays so.  That runs end
   (RunsEnd) is liveness and left to the model checker. *)
THEOREM RefinesAuthService == Spec => Auth!Init /\ [][Auth!Next]_(Auth!vars)
<1>. DEFINE Inv == TypeInv /\ TurnInv /\ LockInv /\ CurrentInv /\ KeyInv /\ ServiceInv
<1>1. Init => Inv
  BY TypesInductive, TurnsInductive, LockInductive, CurrentInductive, KeyInductive, ServiceInductive
<1>2. Inv /\ [Next]_vars => Inv'
  BY TypesInductive, TurnsInductive, LockInductive, CurrentInductive, KeyInductive, ServiceInductive
<1>3. ASSUME Init PROVE Auth!Init
  <2>1. TypeInv /\ ueConfirmed = {} /\ \A p \in Psis : ~smf[p].inProgress
    BY <1>3, TypesInductive DEF Init, UeInit, SmfInit, Idle
  <2>2. \A s \in Sids : aaa[s].status = "none"
    BY <1>3 DEF Init, AaaInit, NoSession
  <2>3. \A p \in Psis : Phase(p) = "idle"
    BY <2>1 DEF Phase, Lost
  <2>4. Sessions = [p \in Psis |-> "idle"] /\ Granted = {}
    BY <2>1, <2>2, <2>3, SessionsPhase DEF Granted
  <2>. QED  BY <2>1, <2>4 DEF Auth!Init, Sessions, Granted
<1>4. ASSUME Inv, Inv', [Next]_vars PROVE [Auth!Next]_(Auth!vars)
  BY <1>4, ServiceStep
<1>. QED  BY <1>1, <1>2, <1>3, <1>4, PTL DEF Spec
=============================================================================
