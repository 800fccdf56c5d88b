-------------------------- MODULE EdhocKeysProofs --------------------------
(***************************************************************************)
(* Proofs about EdhocKeys, for any number of runs of either end and any    *)
(* mix of methods.                                                         *)
(*                                                                         *)
(* A run is named by its initiator i, its responder r and its method k.    *)
(* All that either end computes in it is a term of these three, whatever   *)
(* else is about: TH2 to TH4, PRK2e to PRK4e3m and the plaintexts below.   *)
(* The inductive invariant says that every context and every message is    *)
(* the one of some run (Canonical).  What remains is that both ends arrive *)
(* at the same terms (the lemmas named after the handlers) and that the    *)
(* transcript hashes of two runs differ (TH2Injective).                    *)
(***************************************************************************)
EXTENDS EdhocKeys, TLAPS

(* The terms of a run *)

M1(i, k) == IF k = 4 THEN i_make_msg1(init_initiator(i)).msg
                     ELSE i03_make_msg1(init_initiator(i), k).msg

Cte(i, r) == Encaps(Fresh("eph", "I", i), <<"rndE", r>>)

Share(i, r, k) == IF k = 4 THEN Cte(i, r) ELSE Fresh("eph", "R", r)

Ssb(i) == <<"ss", Encaps(Static("R"), <<"rndB", i>>)>>

TH2(i, r, k) == Th2(<<"H", M1(i, k)>>, Share(i, r, k))

PRK2e(i, r, k) ==
    hkdf_extract("prk2e", TH2(i, r, k),
                 IF k = 4 THEN <<"ss", Cte(i, r)>>
                          ELSE Dh(Fresh("eph", "R", r), Fresh("eph", "I", i)))

PRK3e2m(i, r, k) ==
    IF k = 4 THEN hkdf_extract("prk3e2m", PRK2e(i, r, k), Ssb(i))
             ELSE Extended(method_resp_auth(k), "prk3e2m", PRK2e(i, r, k),
                           Dh(Static("R"), Fresh("eph", "I", i)))

CtA(r) == Encaps(Static("I"), <<"rndA", r>>)

Mac2(i, r) == compute_mac(PRK3e2m(i, r, 4), TH2(i, r, 4), "R", NoTerm)

PT2(i, r, k) ==
    IF k = 4 THEN [ctA |-> CtA(r), mac |-> Mac2(i, r), sig |-> sign("R", TH2(i, r, k), Mac2(i, r))]
             ELSE [pub |-> Static("R"),
                   proof |-> Proof(method_resp_auth(k), "R", PRK3e2m(i, r, k), TH2(i, r, k))]

TH3(i, r, k) == Th3(TH2(i, r, k), PT2(i, r, k))

PRK4e3m(i, r, k) ==
    IF k = 4 THEN hkdf_extract("prk4e3m", PRK3e2m(i, r, k), <<"ss", CtA(r)>>)
             ELSE Extended(method_init_auth(k), "prk4e3m", PRK3e2m(i, r, k),
                           Dh(Static("I"), Fresh("eph", "R", r)))

Mac3(i, r) == compute_mac(PRK4e3m(i, r, 4), TH3(i, r, 4), "I", Fresh("new", "I", i))

PT3(i, r, k) ==
    IF k = 4 THEN [ead |-> Fresh("new", "I", i), mac |-> Mac3(i, r),
                   sig |-> sign("I", TH3(i, r, k), Mac3(i, r))]
             ELSE [pub |-> Static("I"),
                   proof |-> Proof(method_init_auth(k), "I", PRK4e3m(i, r, k), TH3(i, r, k))]

TH4(i, r, k) == Th4(TH3(i, r, k), PT3(i, r, k))

MSK(i, r, k) == derive_msk(PRK4e3m(i, r, k), TH4(i, r, k))

M2(i, r, k) ==
    LET ct2 == aead_seal(PRK2e(i, r, k), TH2(i, r, k), PT2(i, r, k))
    IN  IF k = 4 THEN [fmt |-> "msg2", cte |-> Cte(i, r), ct2 |-> ct2]
                 ELSE [fmt |-> "classic2", gy |-> Fresh("eph", "R", r), ct2 |-> ct2]

M3(i, r, k) ==
    [fmt |-> IF k = 4 THEN "msg3" ELSE "classic3",
     ct3 |-> aead_seal(PRK3e2m(i, r, k), TH3(i, r, k), PT3(i, r, k))]

M4(i, r) ==
    [fmt |-> "msg4", ct4 |-> aead_seal(PRK4e3m(i, r, 4), TH4(i, r, 4), Fresh("new", "R", r))]

-----------------------------------------------------------------------------
(* What a context of a run holds, as far as a handler or a property reads it *)

(* The initiator after message_1. *)
HasSent1(c, i, k) ==
    /\ c.run = i /\ c.method = k /\ c.self = Static("I") /\ c.peer = Static("R")
    /\ c.hmsg1 = <<"H", M1(i, k)>> /\ (k = 4 => c.ssb = Ssb(i))

(* The initiator after message_2. *)
HasSent3(c, i, r, k) ==
    /\ c.run = i /\ c.method = k
    /\ c.prk4e3m = PRK4e3m(i, r, k) /\ c.th4 = TH4(i, r, k) /\ c.msk = MSK(i, r, k)
    /\ k = 4 => c.newKey = Fresh("new", "I", i)

(* The responder after message_1, *)
HasSent2(c, i, r, k) ==
    /\ c.run = r /\ c.method = k /\ c.peer = Static("I")
    /\ c.prk3e2m = PRK3e2m(i, r, k) /\ c.th3 = TH3(i, r, k)
    /\ k = 4 => c.ssa = <<"ss", CtA(r)>>

(* and after message_3. *)
HasVerified3(c, i, r, k) ==
    /\ c.method = k /\ c.msk = MSK(i, r, k)
    /\ k = 4 => c.newKey = Fresh("new", "R", r) /\ c.peerNew = Fresh("new", "I", i)

AbsCtx(eph, sid, done) == [eph |-> eph, sid |-> sid, done |-> done]

InitIs(i) ==
    LET c == init[i].c
        a == init[i].abs
        k == init[i].c.method
    IN  \/ c = init_initiator(i) /\ a = Abs!NoCtx
        \/ /\ c.step \in {1, -1} /\ c.done = FALSE /\ c.msk = NoTerm
           /\ HasSent1(c, i, k) /\ a = AbsCtx(i, 0, FALSE)
        \/ \E r \in Resps :
              /\ c.step \in {2, -1} /\ c.done = (k # 4)
              /\ HasSent3(c, i, r, k) /\ a = AbsCtx(i, r, k # 4)
        \/ \E r \in Resps :
              /\ c.step = 3 /\ k = 4 /\ c.done = TRUE
              /\ HasSent3(c, i, r, k) /\ a = AbsCtx(i, r, TRUE)
              /\ c.peerNew = Fresh("new", "R", r)
              /\ resp[r].c.step = 2 /\ resp[r].c.done = TRUE /\ resp[r].abs = AbsCtx(i, r, TRUE)
              /\ HasVerified3(resp[r].c, i, r, 4)

Started(i) == init[i].c.step # 0

RespIs(r) ==
    LET c == resp[r].c
        a == resp[r].abs
    IN  \/ c = init_responder(r) /\ a = Abs!NoCtx
        \/ \E i \in Inits :
              /\ Started(i) /\ c.step \in {1, -1} /\ c.done = FALSE /\ c.msk = NoTerm
              /\ HasSent2(c, i, r, init[i].c.method) /\ a = AbsCtx(i, r, FALSE)
        \/ \E i \in Inits :
              /\ Started(i) /\ c.step = 2 /\ c.done = TRUE
              /\ HasVerified3(c, i, r, init[i].c.method) /\ a = AbsCtx(i, r, TRUE)

MsgOf(m, type, i, r, term) == m.abs = Abs!EdhocMsg(type, i, r) /\ m.term = term

MsgIs1(m, i) ==
    LET k == init[i].c.method
    IN  MsgOf(m, IF k = 4 THEN "msg1" ELSE "classic1", i, 0, M1(i, k))

MsgIs2(m, i, r) ==
    LET k == init[i].c.method
    IN  MsgOf(m, IF k = 4 THEN "msg2" ELSE "classic2", i, r, M2(i, r, k))

MsgIs3(m, i, r) ==
    LET k == init[i].c.method
    IN  MsgOf(m, IF k = 4 THEN "msg3" ELSE "classic3", i, r, M3(i, r, k))

MsgIs4(m, i, r) ==
    /\ init[i].c.method = 4 /\ MsgOf(m, "msg4", i, r, M4(i, r))
    /\ resp[r].c.step = 2 /\ resp[r].c.done = TRUE /\ resp[r].abs = AbsCtx(i, r, TRUE)
    /\ HasVerified3(resp[r].c, i, r, 4)

MsgIs(m) ==
    \E i \in Inits :
        /\ Started(i)
        /\ \/ MsgIs1(m, i)
           \/ \E r \in Resps : MsgIs2(m, i, r) \/ MsgIs3(m, i, r) \/ MsgIs4(m, i, r)

(* A context has the fields of NewCtx. *)
CtxFields ==
    {"run", "step", "method", "self", "peer", "hmsg1", "ssb", "ssa", "prk3e2m", "th3",
     "prk4e3m", "th4", "msk", "newKey", "peerNew", "done"}

IsCtx(c) == c = [f \in CtxFields |-> c[f]]

IsRun(x) == x = [f \in {"c", "abs"} |-> x[f]] /\ IsCtx(x.c)

Shapes ==
    /\ init = [i \in Inits |-> init[i]] /\ \A i \in Inits : IsRun(init[i])
    /\ resp = [r \in Resps |-> resp[r]] /\ \A r \in Resps : IsRun(resp[r])

Canonical ==
    /\ Shapes
    /\ \A i \in Inits : InitIs(i)
    /\ \A r \in Resps : RespIs(r)
    /\ \A m \in msgs : MsgIs(m)

-----------------------------------------------------------------------------
(* Both ends compute the terms of their run *)

LEMMA InitiatorParts ==
    ASSUME NEW i
    PROVE  /\ IsCtx(init_initiator(i)) /\ init_initiator(i).run = i /\ init_initiator(i).step = 0
           /\ init_initiator(i).self = Static("I") /\ init_initiator(i).peer = Static("R")
           /\ init_initiator(i).msk = NoTerm /\ init_initiator(i).done = FALSE
  BY DEF IsCtx, CtxFields, NewCtx, init_initiator

LEMMA ResponderParts ==
    ASSUME NEW r
    PROVE  /\ IsCtx(init_responder(r)) /\ init_responder(r).run = r /\ init_responder(r).step = 0
           /\ init_responder(r).self = Static("R") /\ init_responder(r).peer = Static("I")
           /\ init_responder(r).msk = NoTerm /\ init_responder(r).done = FALSE
  BY DEF IsCtx, CtxFields, NewCtx, init_responder

LEMMA M1Parts ==
    ASSUME NEW i, NEW k
    PROVE  /\ M1(i, 4).fmt = "msg1" /\ M1(i, 4).pkX = Fresh("eph", "I", i)
           /\ M1(i, 4).ctB = Encaps(Static("R"), <<"rndB", i>>)
           /\ k # 4 => /\ M1(i, k).fmt = "classic1" /\ M1(i, k).method = k
                       /\ M1(i, k).gx = Fresh("eph", "I", i)
<1>1. init_initiator(i).run = i /\ init_initiator(i).peer = Static("R")
  BY InitiatorParts
<1>. DEFINE c == init_initiator(i)
<1>. HIDE DEF c
<1>2. c.run = i /\ c.peer = Static("R")
  BY <1>1 DEF c
<1>3. /\ i_make_msg1(c).msg.fmt = "msg1" /\ i_make_msg1(c).msg.pkX = Fresh("eph", "I", i)
      /\ i_make_msg1(c).msg.ctB = Encaps(Static("R"), <<"rndB", i>>)
  BY <1>2 DEF i_make_msg1
<1>4. /\ i03_make_msg1(c, k).msg.fmt = "classic1" /\ i03_make_msg1(c, k).msg.method = k
      /\ i03_make_msg1(c, k).msg.gx = Fresh("eph", "I", i)
  BY <1>2 DEF i03_make_msg1
<1>5. QED
  BY <1>3, <1>4 DEF M1, c

(* edhoc4_i_make_msg1, edhoc03_i_make_msg1 *)
Out1(i, k) == IF k = 4 THEN i_make_msg1(init_initiator(i)) ELSE i03_make_msg1(init_initiator(i), k)

LEMMA MakeMsg1 ==
    ASSUME NEW i, NEW k
    PROVE  /\ Out1(i, k).msg = M1(i, k)
           /\ IsCtx(Out1(i, k).ctx) /\ Out1(i, k).ctx.step = 1 /\ Out1(i, k).ctx.done = FALSE
           /\ Out1(i, k).ctx.msk = NoTerm /\ HasSent1(Out1(i, k).ctx, i, k)
<1>. DEFINE c == init_initiator(i)
            o == IF k = 4 THEN i_make_msg1(c) ELSE i03_make_msg1(c, k)
<1>1. /\ IsCtx(c) /\ c.run = i /\ c.self = Static("I") /\ c.peer = Static("R")
      /\ c.msk = NoTerm /\ c.done = FALSE
  BY InitiatorParts
<1>2. o.msg = M1(i, k)
  BY DEF M1
<1>. HIDE DEF c
<1>3. CASE k = 4
  <2>. DEFINE m == i_make_msg1(c).msg
              s == <<"ss", Encaps(c.peer, <<"rndB", c.run>>)>>
  <2>1. o.ctx = [c EXCEPT !.step = 1, !.method = 4, !.ssb = s, !.hmsg1 = <<"H", m>>]
    BY <1>3 DEF i_make_msg1
  <2>2. m = M1(i, k) /\ s = Ssb(i)
    BY <1>1, <1>2, <1>3 DEF Ssb
  <2>. HIDE DEF m, s
  <2>. DEFINE d == [c EXCEPT !.step = 1, !.method = 4, !.ssb = s, !.hmsg1 = <<"H", m>>]
  <2>3. /\ IsCtx(d) /\ d.step = 1 /\ d.done = c.done /\ d.msk = c.msk /\ d.run = c.run
        /\ d.method = 4 /\ d.self = c.self /\ d.peer = c.peer /\ d.hmsg1 = <<"H", m>> /\ d.ssb = s
    BY <1>1 DEF IsCtx, CtxFields
  <2>. HIDE DEF d
  <2>4. IsCtx(d) /\ d.step = 1 /\ d.done = FALSE /\ d.msk = NoTerm /\ HasSent1(d, i, k)
    BY <1>1, <1>3, <2>2, <2>3 DEF HasSent1
  <2>5. QED
    BY <1>2, <2>1, <2>4 DEF c, d, Out1
<1>4. CASE k # 4
  <2>. DEFINE m == i03_make_msg1(c, k).msg
              d == [c EXCEPT !.step = 1, !.method = k, !.hmsg1 = <<"H", m>>]
  <2>1. o.ctx = d
    BY <1>4 DEF i03_make_msg1
  <2>2. m = M1(i, k)
    BY <1>2, <1>4
  <2>. HIDE DEF m
  <2>3. /\ IsCtx(d) /\ d.step = 1 /\ d.done = c.done /\ d.msk = c.msk /\ d.run = c.run
        /\ d.method = k /\ d.self = c.self /\ d.peer = c.peer /\ d.hmsg1 = <<"H", m>>
    BY <1>1 DEF IsCtx, CtxFields
  <2>. HIDE DEF d
  <2>4. IsCtx(d) /\ d.step = 1 /\ d.done = FALSE /\ d.msk = NoTerm /\ HasSent1(d, i, k)
    BY <1>1, <1>4, <2>2, <2>3 DEF HasSent1
  <2>5. QED
    BY <1>2, <2>1, <2>4 DEF c, Out1
<1>5. QED
  BY <1>3, <1>4

LEMMA DhCommutes == ASSUME NEW a, NEW b PROVE Dh(a, b) = Dh(b, a)
<1>1. {a, b} = {b, a}
  OBVIOUS
<1>2. QED
  BY <1>1 DEF Dh

(* edhoc4_r_handle_msg1, edhoc03_r_handle_msg1 *)
Out2(i, r, k) == IF k = 4 THEN r_handle_msg1(init_responder(r), M1(i, k))
                          ELSE r03_handle_msg1(init_responder(r), M1(i, k))

LEMMA HandlesMsg1 ==
    ASSUME NEW i, NEW r, NEW k
    PROVE  /\ Out2(i, r, k).msg = M2(i, r, k)
           /\ IsCtx(Out2(i, r, k).ctx) /\ Out2(i, r, k).ctx.step = 1
           /\ Out2(i, r, k).ctx.done = FALSE /\ Out2(i, r, k).ctx.msk = NoTerm
           /\ HasSent2(Out2(i, r, k).ctx, i, r, k)
<1>. DEFINE c == init_responder(r)
            m == M1(i, k)
            o == IF k = 4 THEN r_handle_msg1(c, m) ELSE r03_handle_msg1(c, m)
<1>1. /\ IsCtx(c) /\ c.run = r /\ c.self = Static("R") /\ c.peer = Static("I")
      /\ c.msk = NoTerm /\ c.done = FALSE
  BY ResponderParts
<1>. HIDE DEF c
<1>2. CASE k = 4
  <2>1. m.pkX = Fresh("eph", "I", i) /\ m.ctB = Encaps(Static("R"), <<"rndB", i>>)
    BY <1>2, M1Parts
  <2>. HIDE DEF m
  <2>. DEFINE ssb == Decaps(m.ctB, c.self)
              cte == Encaps(m.pkX, <<"rndE", c.run>>)
              th2 == Th2(<<"H", m>>, cte)
              prk2e == hkdf_extract("prk2e", th2, <<"ss", cte>>)
              prk3e2m == hkdf_extract("prk3e2m", prk2e, ssb)
              ctA == Encaps(c.peer, <<"rndA", c.run>>)
              mac2 == compute_mac(prk3e2m, th2, "R", NoTerm)
              pt2 == [ctA |-> ctA, mac |-> mac2, sig |-> sign("R", th2, mac2)]
              ssa == <<"ss", ctA>>
              th3 == Th3(th2, pt2)
              d == [c EXCEPT !.step = 1, !.method = 4, !.ssb = ssb, !.ssa = ssa,
                             !.prk3e2m = prk3e2m, !.th3 = th3]
  <2>2. o = [ctx |-> d,
             msg |-> [fmt |-> "msg2", cte |-> cte, ct2 |-> aead_seal(prk2e, th2, pt2)]]
    BY <1>2, Zenon DEF r_handle_msg1
  <2>3. ssb = Ssb(i)
    BY <1>1, <2>1 DEF Decaps, Encaps, Ssb
  <2>4. cte = Cte(i, r) /\ ctA = CtA(r)
    BY <1>1, <2>1 DEF Cte, CtA
  <2>. HIDE DEF ssb, cte, ctA
  <2>5. th2 = TH2(i, r, k)
    BY <1>2, <2>4 DEF TH2, Share, m
  <2>. HIDE DEF th2
  <2>6. prk2e = PRK2e(i, r, k)
    BY <1>2, <2>4, <2>5 DEF PRK2e
  <2>. HIDE DEF prk2e
  <2>7. prk3e2m = PRK3e2m(i, r, k)
    BY <1>2, <2>3, <2>6 DEF PRK3e2m
  <2>. HIDE DEF prk3e2m
  <2>8. mac2 = Mac2(i, r)
    BY <1>2, <2>5, <2>7 DEF Mac2
  <2>. HIDE DEF mac2
  <2>9. pt2 = PT2(i, r, k)
    BY <1>2, <2>4, <2>5, <2>8 DEF PT2
  <2>. HIDE DEF pt2
  <2>10. th3 = TH3(i, r, k) /\ ssa = <<"ss", CtA(r)>>
    BY <2>4, <2>5, <2>9 DEF TH3
  <2>. HIDE DEF th3, ssa
  <2>11. /\ IsCtx(d) /\ d.step = 1 /\ d.done = c.done /\ d.msk = c.msk /\ d.run = c.run
         /\ d.method = 4 /\ d.peer = c.peer /\ d.ssa = ssa /\ d.prk3e2m = prk3e2m /\ d.th3 = th3
    BY <1>1 DEF IsCtx, CtxFields
  <2>. HIDE DEF d
  <2>12. IsCtx(d) /\ d.step = 1 /\ d.done = FALSE /\ d.msk = NoTerm /\ HasSent2(d, i, r, k)
    BY <1>1, <1>2, <2>7, <2>10, <2>11 DEF HasSent2
  <2>13. o.msg = M2(i, r, k) /\ o.ctx = d
    BY <1>2, <2>2, <2>4, <2>5, <2>6, <2>9 DEF M2
  <2>14. QED
    BY <2>12, <2>13 DEF c, m, Out2
<1>3. CASE k # 4
  <2>1. m.gx = Fresh("eph", "I", i) /\ m.method = k
    BY <1>3, M1Parts
  <2>. HIDE DEF m
  <2>. DEFINE gy == ResponderEph(c.run)
              gxy == Dh(gy, m.gx)
              grx == Dh(c.self, m.gx)
              h == <<"H", m>>
              q == Classic2(m.method, h, gy, gxy, grx)
              pt2 == [pub |-> c.self,
                      proof |-> Proof(method_resp_auth(m.method), "R", q.prk3e2m, q.th2)]
              th3 == Th3(q.th2, pt2)
              d == [c EXCEPT !.step = 1, !.method = m.method, !.prk3e2m = q.prk3e2m, !.th3 = th3]
  <2>2. o = [ctx |-> d,
             msg |-> [fmt |-> "classic2", gy |-> gy, ct2 |-> aead_seal(q.prk2e, q.th2, pt2)]]
    BY <1>3, Zenon DEF r03_handle_msg1
  <2>3. gy = Fresh("eph", "R", r)
    BY <1>1 DEF ResponderEph
  <2>4. /\ gxy = Dh(Fresh("eph", "R", r), Fresh("eph", "I", i))
        /\ grx = Dh(Static("R"), Fresh("eph", "I", i))
    BY <1>1, <2>1, <2>3
  <2>. HIDE DEF gy, gxy, grx
  <2>5. q.th2 = TH2(i, r, k)
    BY <1>3, <2>3 DEF Classic2, TH2, Share, m
  <2>6. q.prk2e = PRK2e(i, r, k)
    <3>1. q.prk2e = hkdf_extract("prk2e", q.th2, gxy)
      BY DEF Classic2
    <3>. HIDE DEF q
    <3>2. QED
      BY <1>3, <2>4, <2>5, <3>1 DEF PRK2e
  <2>7. q.prk3e2m = PRK3e2m(i, r, k)
    <3>1. q.prk3e2m = Extended(method_resp_auth(m.method), "prk3e2m", q.prk2e, grx)
      BY DEF Classic2
    <3>. HIDE DEF q
    <3>2. QED
      BY <1>3, <2>1, <2>4, <2>6, <3>1 DEF PRK3e2m
  <2>. HIDE DEF q
  <2>8. pt2 = PT2(i, r, k)
    BY <1>1, <1>3, <2>1, <2>5, <2>7 DEF PT2
  <2>. HIDE DEF pt2
  <2>9. th3 = TH3(i, r, k)
    BY <2>5, <2>8 DEF TH3
  <2>. HIDE DEF th3
  <2>10. /\ IsCtx(d) /\ d.step = 1 /\ d.done = c.done /\ d.msk = c.msk /\ d.run = c.run
         /\ d.method = m.method /\ d.peer = c.peer /\ d.prk3e2m = q.prk3e2m /\ d.th3 = th3
    BY <1>1 DEF IsCtx, CtxFields
  <2>. HIDE DEF d
  <2>11. IsCtx(d) /\ d.step = 1 /\ d.done = FALSE /\ d.msk = NoTerm /\ HasSent2(d, i, r, k)
    BY <1>1, <1>3, <2>1, <2>7, <2>9, <2>10 DEF HasSent2
  <2>12. o.msg = M2(i, r, k) /\ o.ctx = d
    BY <1>3, <2>2, <2>3, <2>5, <2>6, <2>8 DEF M2
  <2>13. QED
    BY <2>11, <2>12 DEF c, m, Out2
<1>4. QED
  BY <1>2, <1>3

LEMMA M2Parts ==
    ASSUME NEW i, NEW r, NEW k
    PROVE  /\ M2(i, r, 4).fmt = "msg2" /\ M2(i, r, 4).cte = Cte(i, r)
           /\ k # 4 => M2(i, r, k).fmt = "classic2" /\ M2(i, r, k).gy = Fresh("eph", "R", r)
           /\ M2(i, r, k).ct2.prk = PRK2e(i, r, k) /\ M2(i, r, k).ct2.th = TH2(i, r, k)
           /\ M2(i, r, k).ct2.pt = PT2(i, r, k)
<1>. DEFINE ct2 == aead_seal(PRK2e(i, r, k), TH2(i, r, k), PT2(i, r, k))
<1>1. ct2.prk = PRK2e(i, r, k) /\ ct2.th = TH2(i, r, k) /\ ct2.pt = PT2(i, r, k)
  BY DEF aead_seal
<1>. HIDE DEF ct2
<1>2. M2(i, r, k) = IF k = 4 THEN [fmt |-> "msg2", cte |-> Cte(i, r), ct2 |-> ct2]
                    ELSE [fmt |-> "classic2", gy |-> Fresh("eph", "R", r), ct2 |-> ct2]
  BY Zenon DEF M2, ct2
<1>3. M2(i, r, 4).fmt = "msg2" /\ M2(i, r, 4).cte = Cte(i, r)
  BY DEF M2
<1>4. QED
  BY <1>1, <1>2, <1>3

LEMMA PT2Parts ==
    ASSUME NEW i, NEW r, NEW k
    PROVE  /\ PT2(i, r, 4).ctA = CtA(r) /\ PT2(i, r, 4).mac = Mac2(i, r)
           /\ PT2(i, r, 4).sig = sign("R", TH2(i, r, 4), Mac2(i, r))
           /\ k # 4 => /\ PT2(i, r, k).pub = Static("R")
                       /\ PT2(i, r, k).proof
                            = Proof(method_resp_auth(k), "R", PRK3e2m(i, r, k), TH2(i, r, k))
  BY DEF PT2

(* edhoc4_i_handle_msg2 *)
LEMMA HandlesMsg2 ==
    ASSUME NEW c, NEW i, NEW r, IsCtx(c), HasSent1(c, i, 4)
    PROVE  LET o == i_handle_msg2(c, M2(i, r, 4))
           IN  /\ i_handle_msg2_ok(c, M2(i, r, 4))
               /\ o.msg = M3(i, r, 4)
               /\ IsCtx(o.ctx) /\ o.ctx.step = 2 /\ o.ctx.done = c.done
               /\ HasSent3(o.ctx, i, r, 4)
<1>. DEFINE m == M2(i, r, 4)
            th2 == Th2(c.hmsg1, m.cte)
            prk2e == hkdf_extract("prk2e", th2, Decaps(m.cte, Fresh("eph", "I", c.run)))
            prk3e2m == hkdf_extract("prk3e2m", prk2e, c.ssb)
            mac2 == compute_mac(prk3e2m, th2, "R", NoTerm)
            th3 == Th3(th2, m.ct2.pt)
            prk4e3m == hkdf_extract("prk4e3m", prk3e2m, Decaps(m.ct2.pt.ctA, c.self))
            newKey == Fresh("new", "I", c.run)
            mac3 == compute_mac(prk4e3m, th3, "I", newKey)
            pt3 == [ead |-> newKey, mac |-> mac3, sig |-> sign("I", th3, mac3)]
            th4 == Th4(th3, pt3)
            msk == derive_msk(prk4e3m, th4)
            d == [c EXCEPT !.step = 2, !.prk3e2m = prk3e2m, !.th3 = th3, !.prk4e3m = prk4e3m,
                           !.th4 = th4, !.newKey = newKey, !.msk = msk]
            o == i_handle_msg2(c, m)
<1>1. /\ m.cte = Cte(i, r) /\ m.ct2.prk = PRK2e(i, r, 4) /\ m.ct2.th = TH2(i, r, 4)
      /\ m.ct2.pt = PT2(i, r, 4)
  BY M2Parts
<1>2. o = [ctx |-> d, msg |-> [fmt |-> "msg3", ct3 |-> aead_seal(prk3e2m, th3, pt3)]]
  BY Zenon DEF i_handle_msg2
<1>3. i_handle_msg2_ok(c, m) =
          (/\ aead_open_ok(prk2e, th2, m.ct2) /\ m.ct2.pt.mac = mac2
           /\ m.ct2.pt.sig = sign("R", th2, mac2))
  BY Zenon DEF i_handle_msg2_ok
<1>. HIDE DEF m, o
<1>4. /\ c.run = i /\ c.method = 4 /\ c.self = Static("I") /\ c.hmsg1 = <<"H", M1(i, 4)>>
      /\ c.ssb = Ssb(i)
  BY DEF HasSent1
<1>5. th2 = TH2(i, r, 4)
  BY <1>1, <1>4 DEF TH2, Share
<1>6. Decaps(m.cte, Fresh("eph", "I", c.run)) = <<"ss", Cte(i, r)>>
  BY <1>1, <1>4 DEF Decaps, Cte, Encaps
<1>. HIDE DEF th2
<1>7. prk2e = PRK2e(i, r, 4)
  BY <1>5, <1>6 DEF PRK2e
<1>. HIDE DEF prk2e
<1>8. prk3e2m = PRK3e2m(i, r, 4)
  BY <1>4, <1>7 DEF PRK3e2m
<1>. HIDE DEF prk3e2m
<1>9. mac2 = Mac2(i, r)
  BY <1>5, <1>8 DEF Mac2
<1>. HIDE DEF mac2
<1>10. i_handle_msg2_ok(c, m)
  BY <1>1, <1>3, <1>5, <1>7, <1>9, PT2Parts DEF aead_open_ok
<1>11. th3 = TH3(i, r, 4)
  BY <1>1, <1>5 DEF TH3
<1>12. Decaps(m.ct2.pt.ctA, c.self) = <<"ss", CtA(r)>>
  BY <1>1, <1>4, PT2Parts DEF Decaps, CtA, Encaps
<1>13. newKey = Fresh("new", "I", i)
  BY <1>4
<1>. HIDE DEF th3, newKey
<1>14. prk4e3m = PRK4e3m(i, r, 4)
  BY <1>8, <1>12 DEF PRK4e3m
<1>. HIDE DEF prk4e3m
<1>15. mac3 = Mac3(i, r)
  BY <1>11, <1>13, <1>14 DEF Mac3
<1>. HIDE DEF mac3
<1>16. pt3 = PT3(i, r, 4)
  BY <1>11, <1>13, <1>15 DEF PT3
<1>. HIDE DEF pt3
<1>17. th4 = TH4(i, r, 4)
  BY <1>11, <1>16 DEF TH4
<1>. HIDE DEF th4
<1>18. msk = MSK(i, r, 4)
  BY <1>14, <1>17 DEF MSK
<1>. HIDE DEF msk
<1>19. /\ IsCtx(d) /\ d.step = 2 /\ d.done = c.done /\ d.run = c.run /\ d.method = c.method
       /\ d.prk4e3m = prk4e3m /\ d.th4 = th4 /\ d.msk = msk /\ d.newKey = newKey
  BY DEF IsCtx, CtxFields
<1>. HIDE DEF d
<1>20. HasSent3(d, i, r, 4)
  BY <1>4, <1>13, <1>14, <1>17, <1>18, <1>19 DEF HasSent3
<1>21. o.ctx = d /\ o.msg = [fmt |-> "msg3", ct3 |-> aead_seal(prk3e2m, th3, pt3)]
  BY <1>2
<1>22. o.msg = M3(i, r, 4)
  BY <1>8, <1>11, <1>16, <1>21 DEF M3
<1>23. QED
  BY <1>10, <1>19, <1>20, <1>21, <1>22 DEF m, o

(* edhoc03_i_handle_msg2 *)
LEMMA HandlesClassic2 ==
    ASSUME NEW c, NEW i, NEW r, NEW k, k # 4, IsCtx(c), HasSent1(c, i, k)
    PROVE  LET o == i03_handle_msg2(c, M2(i, r, k))
           IN  /\ i03_handle_msg2_ok(c, M2(i, r, k))
               /\ o.msg = M3(i, r, k)
               /\ IsCtx(o.ctx) /\ o.ctx.step = 2 /\ o.ctx.done = TRUE
               /\ HasSent3(o.ctx, i, r, k)
<1>. DEFINE m == M2(i, r, k)
            q == Initiator2(c, m)
            auth == method_init_auth(c.method)
            th3 == Th3(q.th2, m.ct2.pt)
            prk4e3m == Extended(auth, "prk4e3m", q.prk3e2m, Dh(c.self, m.gy))
            pt3 == [pub |-> c.self, proof |-> Proof(auth, "I", prk4e3m, th3)]
            th4 == Th4(th3, pt3)
            msk == derive_msk(prk4e3m, th4)
            d == [c EXCEPT !.step = 2, !.done = TRUE, !.prk3e2m = q.prk3e2m, !.th3 = th3,
                           !.prk4e3m = prk4e3m, !.th4 = th4, !.msk = msk]
            o == i03_handle_msg2(c, m)
<1>1. /\ m.gy = Fresh("eph", "R", r) /\ m.ct2.prk = PRK2e(i, r, k) /\ m.ct2.th = TH2(i, r, k)
      /\ m.ct2.pt = PT2(i, r, k)
  BY M2Parts
<1>2. o = [ctx |-> d, msg |-> [fmt |-> "classic3", ct3 |-> aead_seal(q.prk3e2m, th3, pt3)]]
  BY Zenon DEF i03_handle_msg2
<1>3. i03_handle_msg2_ok(c, m) =
          (/\ aead_open_ok(q.prk2e, q.th2, m.ct2) /\ m.ct2.pt.pub = c.peer
           /\ m.ct2.pt.proof = Proof(method_resp_auth(c.method), "R", q.prk3e2m, q.th2))
  BY Zenon DEF i03_handle_msg2_ok
<1>. HIDE DEF m, o
<1>4. /\ c.run = i /\ c.method = k /\ c.self = Static("I") /\ c.peer = Static("R")
      /\ c.hmsg1 = <<"H", M1(i, k)>>
  BY DEF HasSent1
<1>. DEFINE x == Fresh("eph", "I", i)
            gy == Fresh("eph", "R", r)
            gxy == Dh(x, gy)
            grx == Dh(x, Static("R"))
            h == <<"H", M1(i, k)>>
<1>5. q = Classic2(k, h, gy, gxy, grx)
  BY <1>1, <1>4, PT2Parts DEF Initiator2
<1>6. gxy = Dh(gy, x) /\ grx = Dh(Static("R"), x)
  BY DhCommutes
<1>. HIDE DEF q, x, gxy, grx, h
<1>7. /\ q.th2 = Th2(h, gy) /\ q.prk2e = hkdf_extract("prk2e", q.th2, gxy)
      /\ q.prk3e2m = Extended(method_resp_auth(k), "prk3e2m", q.prk2e, grx)
  BY <1>5 DEF Classic2
<1>8. q.th2 = TH2(i, r, k)
  BY <1>7 DEF TH2, Share, h
<1>9. q.prk2e = PRK2e(i, r, k)
  BY <1>6, <1>7, <1>8 DEF PRK2e, x
<1>10. q.prk3e2m = PRK3e2m(i, r, k)
  BY <1>6, <1>7, <1>9 DEF PRK3e2m, x
<1>11. i03_handle_msg2_ok(c, m)
  BY <1>1, <1>3, <1>4, <1>8, <1>9, <1>10, PT2Parts DEF aead_open_ok
<1>12. th3 = TH3(i, r, k)
  BY <1>1, <1>8 DEF TH3
<1>13. prk4e3m = PRK4e3m(i, r, k)
  BY <1>1, <1>4, <1>10 DEF PRK4e3m
<1>. HIDE DEF th3, prk4e3m
<1>14. pt3 = PT3(i, r, k)
  BY <1>4, <1>12, <1>13 DEF PT3
<1>. HIDE DEF pt3
<1>15. th4 = TH4(i, r, k)
  BY <1>12, <1>14 DEF TH4
<1>. HIDE DEF th4
<1>16. msk = MSK(i, r, k)
  BY <1>13, <1>15 DEF MSK
<1>. HIDE DEF msk
<1>17. /\ IsCtx(d) /\ d.step = 2 /\ d.done = TRUE /\ d.run = c.run /\ d.method = c.method
       /\ d.prk4e3m = prk4e3m /\ d.th4 = th4 /\ d.msk = msk
  BY DEF IsCtx, CtxFields
<1>. HIDE DEF d
<1>18. HasSent3(d, i, r, k)
  BY <1>4, <1>13, <1>15, <1>16, <1>17 DEF HasSent3
<1>19. o.ctx = d /\ o.msg = [fmt |-> "classic3", ct3 |-> aead_seal(q.prk3e2m, th3, pt3)]
  BY <1>2
<1>20. o.msg = M3(i, r, k)
  BY <1>10, <1>12, <1>14, <1>19 DEF M3
<1>21. QED
  BY <1>11, <1>17, <1>18, <1>19, <1>20 DEF m, o

LEMMA M3Parts ==
    ASSUME NEW i, NEW r, NEW k
    PROVE  /\ M3(i, r, k).fmt = (IF k = 4 THEN "msg3" ELSE "classic3")
           /\ M3(i, r, k).ct3.prk = PRK3e2m(i, r, k) /\ M3(i, r, k).ct3.th = TH3(i, r, k)
           /\ M3(i, r, k).ct3.pt = PT3(i, r, k)
  BY DEF M3, aead_seal

LEMMA PT3Parts ==
    ASSUME NEW i, NEW r, NEW k
    PROVE  /\ PT3(i, r, 4).ead = Fresh("new", "I", i) /\ PT3(i, r, 4).mac = Mac3(i, r)
           /\ PT3(i, r, 4).sig = sign("I", TH3(i, r, 4), Mac3(i, r))
           /\ k # 4 => /\ PT3(i, r, k).pub = Static("I")
                       /\ PT3(i, r, k).proof
                            = Proof(method_init_auth(k), "I", PRK4e3m(i, r, k), TH3(i, r, k))
  BY DEF PT3

(* edhoc4_r_handle_msg3 *)
LEMMA HandlesMsg3 ==
    ASSUME NEW c, NEW i, NEW r, IsCtx(c), HasSent2(c, i, r, 4)
    PROVE  LET o == r_handle_msg3(c, M3(i, r, 4))
           IN  /\ r_handle_msg3_ok(c, M3(i, r, 4))
               /\ o.msg = M4(i, r)
               /\ IsCtx(o.ctx) /\ o.ctx.step = 2 /\ o.ctx.done = TRUE
               /\ HasVerified3(o.ctx, i, r, 4)
<1>. DEFINE m == M3(i, r, 4)
            prk4e3m == hkdf_extract("prk4e3m", c.prk3e2m, c.ssa)
            mac3 == compute_mac(prk4e3m, c.th3, "I", m.ct3.pt.ead)
            th4 == Th4(c.th3, m.ct3.pt)
            newKey == Fresh("new", "R", c.run)
            ead == m.ct3.pt.ead
            msk == derive_msk(prk4e3m, th4)
            d == [c EXCEPT !.step = 2, !.prk4e3m = prk4e3m, !.th4 = th4, !.done = TRUE,
                           !.newKey = newKey, !.peerNew = ead, !.msk = msk]
            o == r_handle_msg3(c, m)
<1>1. m.ct3.prk = PRK3e2m(i, r, 4) /\ m.ct3.th = TH3(i, r, 4) /\ m.ct3.pt = PT3(i, r, 4)
  BY M3Parts
<1>2. o = [ctx |-> d, msg |-> [fmt |-> "msg4", ct4 |-> aead_seal(prk4e3m, th4, newKey)]]
  BY Zenon DEF r_handle_msg3
<1>3. r_handle_msg3_ok(c, m) =
          (/\ aead_open_ok(c.prk3e2m, c.th3, m.ct3) /\ m.ct3.pt.mac = mac3
           /\ m.ct3.pt.sig = sign("I", c.th3, mac3))
  BY Zenon DEF r_handle_msg3_ok
<1>. HIDE DEF m, o
<1>4. /\ c.run = r /\ c.method = 4 /\ c.prk3e2m = PRK3e2m(i, r, 4) /\ c.th3 = TH3(i, r, 4)
      /\ c.ssa = <<"ss", CtA(r)>>
  BY DEF HasSent2
<1>5. prk4e3m = PRK4e3m(i, r, 4)
  BY <1>4 DEF PRK4e3m
<1>6. newKey = Fresh("new", "R", r) /\ ead = Fresh("new", "I", i)
  BY <1>1, <1>4, PT3Parts
<1>. HIDE DEF prk4e3m
<1>7. mac3 = Mac3(i, r)
  BY <1>4, <1>5, <1>6 DEF Mac3
<1>. HIDE DEF mac3
<1>8. r_handle_msg3_ok(c, m)
  BY <1>1, <1>3, <1>4, <1>7, PT3Parts DEF aead_open_ok
<1>9. th4 = TH4(i, r, 4)
  BY <1>1, <1>4 DEF TH4
<1>. HIDE DEF th4, newKey, ead
<1>10. msk = MSK(i, r, 4)
  BY <1>5, <1>9 DEF MSK
<1>. HIDE DEF msk
<1>11. /\ IsCtx(d) /\ d.step = 2 /\ d.done = TRUE /\ d.method = c.method
       /\ d.msk = msk /\ d.newKey = newKey /\ d.peerNew = ead
  BY DEF IsCtx, CtxFields
<1>. HIDE DEF d
<1>12. HasVerified3(d, i, r, 4)
  BY <1>4, <1>6, <1>10, <1>11 DEF HasVerified3
<1>13. o.ctx = d /\ o.msg = [fmt |-> "msg4", ct4 |-> aead_seal(prk4e3m, th4, newKey)]
  BY <1>2
<1>14. o.msg = M4(i, r)
  BY <1>5, <1>6, <1>9, <1>13 DEF M4
<1>15. QED
  BY <1>8, <1>11, <1>12, <1>13, <1>14 DEF m, o

(* edhoc03_r_handle_msg3 *)
LEMMA HandlesClassic3 ==
    ASSUME NEW c, NEW i, NEW r, NEW k, k # 4, IsCtx(c), HasSent2(c, i, r, k)
    PROVE  LET d == r03_handle_msg3(c, M3(i, r, k))
           IN  /\ r03_handle_msg3_ok(c, M3(i, r, k))
               /\ IsCtx(d) /\ d.step = 2 /\ d.done = TRUE /\ HasVerified3(d, i, r, k)
<1>. DEFINE m == M3(i, r, k)
            prk4e3m == Responder4(c, m)
            th4 == Th4(c.th3, m.ct3.pt)
            msk == derive_msk(prk4e3m, th4)
            d == [c EXCEPT !.step = 2, !.done = TRUE, !.prk4e3m = prk4e3m, !.th4 = th4,
                           !.msk = msk]
<1>1. m.ct3.prk = PRK3e2m(i, r, k) /\ m.ct3.th = TH3(i, r, k) /\ m.ct3.pt = PT3(i, r, k)
  BY M3Parts
<1>2. r03_handle_msg3(c, m) = d
  BY Zenon DEF r03_handle_msg3
<1>3. r03_handle_msg3_ok(c, m) =
          (/\ aead_open_ok(c.prk3e2m, c.th3, m.ct3) /\ m.ct3.pt.pub = c.peer
           /\ m.ct3.pt.proof = Proof(method_init_auth(c.method), "I", prk4e3m, c.th3))
  BY Zenon DEF r03_handle_msg3_ok
<1>. HIDE DEF m
<1>4. /\ c.run = r /\ c.method = k /\ c.peer = Static("I")
      /\ c.prk3e2m = PRK3e2m(i, r, k) /\ c.th3 = TH3(i, r, k)
  BY DEF HasSent2
<1>5. /\ m.ct3.pt.pub = Static("I")
      /\ m.ct3.pt.proof = Proof(method_init_auth(k), "I", PRK4e3m(i, r, k), TH3(i, r, k))
  BY <1>1, PT3Parts
<1>6. Dh(ResponderEph(c.run), m.ct3.pt.pub) = Dh(Static("I"), Fresh("eph", "R", r))
  BY <1>4, <1>5, DhCommutes DEF ResponderEph
<1>7. prk4e3m = PRK4e3m(i, r, k)
  BY <1>4, <1>6 DEF PRK4e3m, Responder4
<1>. HIDE DEF prk4e3m
<1>8. r03_handle_msg3_ok(c, m)
  BY <1>1, <1>3, <1>4, <1>5, <1>7 DEF aead_open_ok
<1>9. th4 = TH4(i, r, k)
  BY <1>1, <1>4 DEF TH4
<1>. HIDE DEF th4
<1>10. msk = MSK(i, r, k)
  BY <1>7, <1>9 DEF MSK
<1>. HIDE DEF msk
<1>11. IsCtx(d) /\ d.step = 2 /\ d.done = TRUE /\ d.method = c.method /\ d.msk = msk
  BY DEF IsCtx, CtxFields
<1>. HIDE DEF d
<1>12. HasVerified3(d, i, r, k)
  BY <1>4, <1>10, <1>11 DEF HasVerified3
<1>13. QED
  BY <1>2, <1>8, <1>11, <1>12 DEF m

LEMMA M4Parts ==
    ASSUME NEW i, NEW r
    PROVE  /\ M4(i, r).fmt = "msg4" /\ M4(i, r).ct4.prk = PRK4e3m(i, r, 4)
           /\ M4(i, r).ct4.th = TH4(i, r, 4) /\ M4(i, r).ct4.pt = Fresh("new", "R", r)
  BY DEF M4, aead_seal

(* edhoc4_i_handle_msg4 *)
LEMMA HandlesMsg4 ==
    ASSUME NEW c, NEW i, NEW r, IsCtx(c), HasSent3(c, i, r, 4)
    PROVE  LET d == i_handle_msg4(c, M4(i, r))
           IN  /\ i_handle_msg4_ok(c, M4(i, r))
               /\ IsCtx(d) /\ d.step = 3 /\ d.done = TRUE /\ HasSent3(d, i, r, 4)
               /\ d.method = 4 /\ d.peerNew = Fresh("new", "R", r)
<1>. DEFINE m == M4(i, r)
            p == m.ct4.pt
            d == [c EXCEPT !.step = 3, !.done = TRUE, !.peerNew = p]
<1>1. i_handle_msg4(c, m) = d
  BY Zenon DEF i_handle_msg4
<1>2. i_handle_msg4_ok(c, m)
  BY M4Parts DEF i_handle_msg4_ok, aead_open_ok, HasSent3
<1>3. p = Fresh("new", "R", r)
  BY M4Parts
<1>. HIDE DEF m, p
<1>4. /\ IsCtx(d) /\ d.step = 3 /\ d.done = TRUE /\ d.peerNew = p /\ d.run = c.run
      /\ d.method = c.method /\ d.prk4e3m = c.prk4e3m /\ d.th4 = c.th4 /\ d.msk = c.msk
      /\ d.newKey = c.newKey
  BY DEF IsCtx, CtxFields
<1>. HIDE DEF d
<1>5. HasSent3(d, i, r, 4) /\ d.method = 4
  BY <1>4 DEF HasSent3
<1>6. QED
  BY <1>1, <1>2, <1>3, <1>4, <1>5 DEF m

-----------------------------------------------------------------------------
(* The transcripts of two runs differ *)

LEMMA M1Injective ==
    ASSUME NEW i, NEW j, NEW k, NEW l, M1(i, k) = M1(j, l)
    PROVE  i = j /\ k = l
<1>1. ASSUME NEW a, NEW b
      PROVE  /\ M1(a, b).fmt = (IF b = 4 THEN "msg1" ELSE "classic1")
             /\ b = 4 => M1(a, b).pkX = Fresh("eph", "I", a)
             /\ b # 4 => M1(a, b).gx = Fresh("eph", "I", a) /\ M1(a, b).method = b
  <2>1. CASE b = 4
    BY <2>1, M1Parts
  <2>2. CASE b # 4
    BY <2>2, M1Parts
  <2>3. QED
    BY <2>1, <2>2
<1>. DEFINE m == M1(i, k)
<1>2. /\ m.fmt = (IF k = 4 THEN "msg1" ELSE "classic1")
      /\ k = 4 => m.pkX = Fresh("eph", "I", i)
      /\ k # 4 => m.gx = Fresh("eph", "I", i) /\ m.method = k
  BY <1>1
<1>3. /\ m.fmt = (IF l = 4 THEN "msg1" ELSE "classic1")
      /\ l = 4 => m.pkX = Fresh("eph", "I", j)
      /\ l # 4 => m.gx = Fresh("eph", "I", j) /\ m.method = l
  BY <1>1
<1>. HIDE DEF m
<1>4. k = 4 <=> l = 4
  BY <1>2, <1>3
<1>5. Fresh("eph", "I", i) = Fresh("eph", "I", j) /\ k = l
  BY <1>2, <1>3, <1>4
<1>6. QED
  BY <1>5 DEF Fresh

LEMMA Th2Injective ==
    ASSUME NEW x, NEW y, NEW s, NEW t, Th2(<<"H", x>>, s) = Th2(<<"H", y>>, t)
    PROVE  x = y /\ s = t
  BY DEF Th2

LEMMA TH2Injective ==
    ASSUME NEW i, NEW r, NEW k, NEW j, NEW s, NEW l, TH2(i, r, k) = TH2(j, s, l)
    PROVE  i = j /\ r = s /\ k = l
<1>1. M1(i, k) = M1(j, l) /\ Share(i, r, k) = Share(j, s, l)
  <2>1. Th2(<<"H", M1(i, k)>>, Share(i, r, k)) = Th2(<<"H", M1(j, l)>>, Share(j, s, l))
    BY DEF TH2
  <2>2. QED
    BY <2>1, Th2Injective
<1>2. i = j /\ k = l
  BY <1>1, M1Injective
<1>3. CASE k = 4
  <2>1. Cte(i, r) = Cte(j, s)
    BY <1>1, <1>2, <1>3 DEF Share
  <2>2. Cte(i, r).rnd = <<"rndE", r>> /\ Cte(j, s).rnd = <<"rndE", s>>
    BY DEF Cte, Encaps
  <2>3. <<"rndE", r>> = <<"rndE", s>>
    BY <2>1, <2>2
  <2>4. QED
    BY <1>2, <2>3
<1>4. CASE k # 4
  <2>1. Fresh("eph", "R", r) = Fresh("eph", "R", s)
    BY <1>1, <1>2, <1>4 DEF Share
  <2>2. QED
    BY <1>2, <2>1 DEF Fresh
<1>5. QED
  BY <1>3, <1>4

LEMMA TH3Injective ==
    ASSUME NEW i, NEW r, NEW k, NEW j, NEW s, NEW l, TH3(i, r, k) = TH3(j, s, l)
    PROVE  i = j /\ r = s /\ k = l
<1>1. TH2(i, r, k) = TH2(j, s, l)
  BY DEF TH3, Th3
<1>2. QED
  BY <1>1, TH2Injective

LEMMA TH4Injective ==
    ASSUME NEW i, NEW r, NEW k, NEW j, NEW s, NEW l, TH4(i, r, k) = TH4(j, s, l)
    PROVE  i = j /\ r = s /\ k = l
<1>1. TH3(i, r, k) = TH3(j, s, l)
  BY DEF TH4, Th4
<1>2. QED
  BY <1>1, TH3Injective

LEMMA MSKInjective ==
    ASSUME NEW i, NEW r, NEW k, NEW j, NEW s, NEW l, MSK(i, r, k) = MSK(j, s, l)
    PROVE  i = j /\ r = s /\ k = l
<1>1. TH4(i, r, k) = TH4(j, s, l)
  BY DEF MSK, derive_msk
<1>2. QED
  BY <1>1, TH4Injective

-----------------------------------------------------------------------------
(* A handler accepts no message of another run *)

LEMMA RejectsMsg2 ==
    ASSUME NEW c, NEW i, NEW j, NEW s, HasSent1(c, i, 4), i_handle_msg2_ok(c, M2(j, s, 4))
    PROVE  i = j
<1>1. M2(j, s, 4).ct2.th = Th2(c.hmsg1, M2(j, s, 4).cte)
  BY DEF i_handle_msg2_ok, aead_open_ok
<1>2. TH2(j, s, 4) = Th2(c.hmsg1, M2(j, s, 4).cte)
  BY <1>1, M2Parts
<1>3. Th2(<<"H", M1(j, 4)>>, Share(j, s, 4)) = Th2(<<"H", M1(i, 4)>>, M2(j, s, 4).cte)
  BY <1>2 DEF TH2, HasSent1
<1>4. M1(j, 4) = M1(i, 4)
  BY <1>3, Th2Injective
<1>5. QED
  BY <1>4, M1Injective

LEMMA RejectsClassic2 ==
    ASSUME NEW c, NEW i, NEW k, NEW j, NEW s, NEW l, HasSent1(c, i, k),
           i03_handle_msg2_ok(c, M2(j, s, l))
    PROVE  i = j /\ k = l
<1>. DEFINE m == M2(j, s, l)
            q == Initiator2(c, m)
            gxy == Dh(Fresh("eph", "I", c.run), m.gy)
            grx == Dh(Fresh("eph", "I", c.run), m.ct2.pt.pub)
<1>1. m.ct2.th = q.th2
  BY Zenon DEF i03_handle_msg2_ok, aead_open_ok
<1>2. m.ct2.th = TH2(j, s, l)
  BY M2Parts
<1>. HIDE DEF m
<1>3. q = Classic2(c.method, c.hmsg1, m.gy, gxy, grx)
  BY Zenon DEF Initiator2
<1>. HIDE DEF q, gxy, grx
<1>4. q.th2 = Th2(c.hmsg1, m.gy)
  BY <1>3 DEF Classic2
<1>5. Th2(<<"H", M1(j, l)>>, Share(j, s, l)) = Th2(<<"H", M1(i, k)>>, m.gy)
  BY <1>1, <1>2, <1>4 DEF TH2, HasSent1
<1>6. M1(j, l) = M1(i, k)
  BY <1>5, Th2Injective
<1>7. QED
  BY <1>6, M1Injective

LEMMA RejectsMsg3 ==
    ASSUME NEW c, NEW i, NEW r, NEW j, NEW s, HasSent2(c, i, r, 4),
           r_handle_msg3_ok(c, M3(j, s, 4))
    PROVE  i = j /\ r = s
<1>1. M3(j, s, 4).ct3.th = c.th3
  BY DEF r_handle_msg3_ok, aead_open_ok
<1>2. TH3(j, s, 4) = TH3(i, r, 4)
  BY <1>1, M3Parts DEF HasSent2
<1>3. QED
  BY <1>2, TH3Injective

LEMMA RejectsClassic3 ==
    ASSUME NEW c, NEW i, NEW r, NEW k, NEW j, NEW s, NEW l, HasSent2(c, i, r, k),
           r03_handle_msg3_ok(c, M3(j, s, l))
    PROVE  i = j /\ r = s /\ k = l
<1>1. M3(j, s, l).ct3.th = c.th3
  BY DEF r03_handle_msg3_ok, aead_open_ok
<1>2. TH3(j, s, l) = TH3(i, r, k)
  BY <1>1, M3Parts DEF HasSent2
<1>3. QED
  BY <1>2, TH3Injective

LEMMA RejectsMsg4 ==
    ASSUME NEW c, NEW i, NEW r, NEW j, NEW s, HasSent3(c, i, r, 4),
           i_handle_msg4_ok(c, M4(j, s))
    PROVE  i = j /\ r = s
<1>1. M4(j, s).ct4.th = c.th4
  BY DEF i_handle_msg4_ok, aead_open_ok
<1>2. TH4(j, s, 4) = TH4(i, r, 4)
  BY <1>1, M4Parts DEF HasSent3
<1>3. QED
  BY <1>2, TH4Injective

-----------------------------------------------------------------------------
(* What module Edhoc makes of a message *)

LEMMA DataParts ==
    ASSUME NEW m, NEW t \in Abs!MsgTypes, NEW u \in Abs!MsgTypes, NEW j \in Nat, NEW s \in Nat,
           m.abs = Abs!EdhocMsg(u, j, s)
    PROVE  /\ Abs!Whole(Data(m), t) <=> u = t
           /\ Data(m).msg.eph = j /\ Data(m).msg.sid = s
<1>. DEFINE x == Abs!EdhocMsg(u, j, s)
            d == Data(m)
<1>1. x \in [type: Abs!MsgTypes, eph: Nat, sid: Nat] /\ x.type = u /\ x.eph = j /\ x.sid = s
  BY DEF Abs!EdhocMsg
<1>2. x \notin {NoMsg, Junk}
  BY <1>1, NullAssumption
<1>. HIDE DEF x
<1>3. d.msg = x /\ d.off = 0 /\ d.len = 1
  BY DEF Data, Abs!Slice, x
<1>4. Abs!MsgLen(t) = 1
  BY DEF Abs!MsgLen, Abs!MsgTypes
<1>. HIDE DEF d
<1>5. Abs!Whole(d, t) <=> u = t
  BY <1>1, <1>2, <1>3, <1>4 DEF Abs!Whole
<1>6. QED
  BY <1>1, <1>3, <1>5 DEF d

(* Its contexts. *)
LEMMA AbsMsg1 ==
    ASSUME NEW r, NEW d, NEW e, d.msg.eph = e
    PROVE  /\ Abs!edhoc4_r_handle_msg1(AbsCtx(0, r, FALSE), d) = AbsCtx(e, r, FALSE)
           /\ Abs!edhoc03_r_handle_msg1(AbsCtx(0, r, FALSE), d) = AbsCtx(e, r, FALSE)
<1>. DEFINE b == FALSE
            a == AbsCtx(0, r, b)
<1>. HIDE DEF b
<1>1. a = [f \in {"eph", "sid", "done"} |-> a[f]] /\ a.sid = r /\ a.done = b
  BY DEF AbsCtx
<1>. HIDE DEF a
<1>2. /\ Abs!edhoc4_r_handle_msg1(a, d) = [a EXCEPT !.eph = e]
      /\ Abs!edhoc03_r_handle_msg1(a, d) = [a EXCEPT !.eph = e]
  BY Zenon DEF Abs!edhoc4_r_handle_msg1, Abs!edhoc03_r_handle_msg1
<1>3. [a EXCEPT !.eph = e] = AbsCtx(e, r, b)
  BY <1>1 DEF AbsCtx
<1>4. QED
  BY <1>2, <1>3, Zenon DEF a, b

LEMMA AbsMsg2 ==
    ASSUME NEW i, NEW d, NEW s, d.msg.sid = s
    PROVE  /\ Abs!edhoc4_i_handle_msg2(AbsCtx(i, 0, FALSE), d) = AbsCtx(i, s, FALSE)
           /\ Abs!edhoc03_i_handle_msg2(AbsCtx(i, 0, FALSE), d) = AbsCtx(i, s, TRUE)
<1>. DEFINE b == FALSE
            a == AbsCtx(i, 0, b)
            yes == TRUE
<1>. HIDE DEF b
<1>1. a = [f \in {"eph", "sid", "done"} |-> a[f]] /\ a.eph = i /\ a.done = b
  BY DEF AbsCtx
<1>. HIDE DEF a
<1>2. /\ Abs!edhoc4_i_handle_msg2(a, d) = [a EXCEPT !.sid = s]
      /\ Abs!edhoc03_i_handle_msg2(a, d) = [a EXCEPT !.sid = s, !.done = yes]
  BY Zenon DEF Abs!edhoc4_i_handle_msg2, Abs!edhoc03_i_handle_msg2
<1>. HIDE DEF yes
<1>3. [a EXCEPT !.sid = s] = AbsCtx(i, s, b)
  BY <1>1 DEF AbsCtx
<1>4. [a EXCEPT !.sid = s, !.done = yes] = AbsCtx(i, s, yes)
  <2>. DEFINE a2 == [a EXCEPT !.sid = s]
  <2>1. a2 = [f \in {"eph", "sid", "done"} |-> a2[f]] /\ a2.eph = i /\ a2.sid = s
    BY <1>1
  <2>2. [a EXCEPT !.sid = s, !.done = yes] = [a2 EXCEPT !.done = yes]
    OBVIOUS
  <2>. HIDE DEF a2
  <2>3. [a2 EXCEPT !.done = yes] = AbsCtx(i, s, yes)
    BY <2>1 DEF AbsCtx
  <2>4. QED
    BY <2>2, <2>3, Zenon
<1>5. QED
  BY <1>2, <1>3, <1>4, Zenon DEF a, b, yes

LEMMA AbsDone ==
    ASSUME NEW i, NEW r, NEW b
    PROVE  /\ Abs!edhoc4_r_handle_msg3(AbsCtx(i, r, b)) = AbsCtx(i, r, TRUE)
           /\ Abs!edhoc03_r_handle_msg3(AbsCtx(i, r, b)) = AbsCtx(i, r, TRUE)
           /\ Abs!edhoc4_i_handle_msg4(AbsCtx(i, r, b)) = AbsCtx(i, r, TRUE)
<1>. DEFINE a == AbsCtx(i, r, b)
            yes == TRUE
<1>1. a = [f \in {"eph", "sid", "done"} |-> a[f]] /\ a.eph = i /\ a.sid = r /\ a.done = b
  BY DEF AbsCtx
<1>. HIDE DEF a
<1>2. /\ Abs!edhoc4_r_handle_msg3(a) = [a EXCEPT !.done = yes]
      /\ Abs!edhoc03_r_handle_msg3(a) = [a EXCEPT !.done = yes]
      /\ Abs!edhoc4_i_handle_msg4(a) = [a EXCEPT !.done = yes]
  BY Zenon DEF Abs!edhoc4_r_handle_msg3, Abs!edhoc03_r_handle_msg3, Abs!edhoc4_i_handle_msg4
<1>. HIDE DEF yes
<1>3. [a EXCEPT !.done = yes] = AbsCtx(i, r, yes)
  BY <1>1 DEF AbsCtx
<1>4. QED
  BY <1>2, <1>3, Zenon DEF a, yes

LEMMA AbsNew ==
    ASSUME NEW i
    PROVE  /\ Abs!edhoc4_init_initiator(i) = AbsCtx(i, 0, FALSE)
           /\ Abs!edhoc4_init_responder(i) = AbsCtx(0, i, FALSE)
<1>. DEFINE a == Abs!NoCtx
            no == FALSE
<1>1. a = [f \in {"eph", "sid", "done"} |-> a[f]] /\ a.eph = 0 /\ a.sid = 0 /\ a.done = no
  BY DEF Abs!NoCtx
<1>. HIDE DEF a, no
<1>2. [a EXCEPT !.eph = i] = AbsCtx(i, 0, no)
  BY <1>1 DEF AbsCtx
<1>3. [a EXCEPT !.sid = i] = AbsCtx(0, i, no)
  BY <1>1 DEF AbsCtx
<1>4. QED
  BY <1>2, <1>3, Zenon DEF a, no, Abs!edhoc4_init_initiator, Abs!edhoc4_init_responder

-----------------------------------------------------------------------------
(* Which messages the handlers accept, in a canonical state *)

LEMMA MsgOfParts ==
    ASSUME NEW m, NEW u \in Abs!MsgTypes, NEW i \in Nat, NEW s \in Nat, NEW x, MsgOf(m, u, i, s, x),
           NEW t \in Abs!MsgTypes
    PROVE  /\ m.term = x /\ (Abs!Whole(Data(m), t) <=> t = u)
           /\ Data(m).msg.eph = i /\ Data(m).msg.sid = s
<1>1. m.abs = Abs!EdhocMsg(u, i, s) /\ m.term = x
  BY Zenon DEF MsgOf
<1>2. QED
  BY <1>1, DataParts

Fmt1(i) == IF init[i].c.method = 4 THEN "msg1" ELSE "classic1"

LEMMA Msg1Parts ==
    ASSUME NEW m, NEW i \in Inits, MsgIs1(m, i), NEW t \in Abs!MsgTypes
    PROVE  /\ m.term.fmt = Fmt1(i) /\ (Abs!Whole(Data(m), t) <=> t = Fmt1(i))
           /\ Data(m).msg.eph = i
<1>1. i \in Nat /\ 0 \in Nat
  BY RunsAssumption
<1>2. MsgOf(m, Fmt1(i), i, 0, M1(i, init[i].c.method)) /\ Fmt1(i) \in Abs!MsgTypes
  BY DEF MsgIs1, Abs!MsgTypes, Fmt1
<1>3. M1(i, init[i].c.method).fmt = Fmt1(i)
  <2>1. ASSUME NEW k PROVE M1(i, k).fmt = IF k = 4 THEN "msg1" ELSE "classic1"
    <3>1. M1(i, 4).fmt = "msg1" /\ (k # 4 => M1(i, k).fmt = "classic1")
      BY M1Parts
    <3>2. QED
      BY <3>1
  <2>2. QED
    BY <2>1 DEF Fmt1
<1>4. QED
  BY <1>1, <1>2, <1>3, MsgOfParts

Fmt2(i) == IF init[i].c.method = 4 THEN "msg2" ELSE "classic2"

LEMMA Msg2Parts ==
    ASSUME NEW m, NEW i \in Inits, NEW r \in Resps, MsgIs2(m, i, r), NEW t \in Abs!MsgTypes
    PROVE  /\ m.term.fmt = Fmt2(i) /\ (Abs!Whole(Data(m), t) <=> t = Fmt2(i))
           /\ Data(m).msg.eph = i /\ Data(m).msg.sid = r
<1>1. i \in Nat /\ r \in Nat
  BY RunsAssumption
<1>2. MsgOf(m, Fmt2(i), i, r, M2(i, r, init[i].c.method)) /\ Fmt2(i) \in Abs!MsgTypes
  BY DEF MsgIs2, Abs!MsgTypes, Fmt2
<1>3. M2(i, r, init[i].c.method).fmt = Fmt2(i)
  BY M2Parts DEF Fmt2
<1>4. QED
  BY <1>1, <1>2, <1>3, MsgOfParts

Fmt3(i) == IF init[i].c.method = 4 THEN "msg3" ELSE "classic3"

LEMMA Msg3Parts ==
    ASSUME NEW m, NEW i \in Inits, NEW r \in Resps, MsgIs3(m, i, r), NEW t \in Abs!MsgTypes
    PROVE  /\ m.term.fmt = Fmt3(i) /\ (Abs!Whole(Data(m), t) <=> t = Fmt3(i))
           /\ Data(m).msg.eph = i /\ Data(m).msg.sid = r
<1>1. i \in Nat /\ r \in Nat
  BY RunsAssumption
<1>2. MsgOf(m, Fmt3(i), i, r, M3(i, r, init[i].c.method)) /\ Fmt3(i) \in Abs!MsgTypes
  BY DEF MsgIs3, Abs!MsgTypes, Fmt3
<1>3. M3(i, r, init[i].c.method).fmt = Fmt3(i)
  BY M3Parts DEF Fmt3
<1>4. QED
  BY <1>1, <1>2, <1>3, MsgOfParts

LEMMA Msg4Parts ==
    ASSUME NEW m, NEW i \in Inits, NEW r \in Resps, MsgIs4(m, i, r), NEW t \in Abs!MsgTypes
    PROVE  /\ m.term.fmt = "msg4" /\ (Abs!Whole(Data(m), t) <=> t = "msg4")
           /\ Data(m).msg.eph = i /\ Data(m).msg.sid = r
<1>1. i \in Nat /\ r \in Nat
  BY RunsAssumption
<1>2. MsgOf(m, "msg4", i, r, M4(i, r)) /\ "msg4" \in Abs!MsgTypes
  BY DEF MsgIs4, Abs!MsgTypes
<1>3. M4(i, r).fmt = "msg4"
  BY M4Parts
<1>4. QED
  BY <1>1, <1>2, <1>3, MsgOfParts

LEMMA InitAt1 ==
    ASSUME NEW i \in Inits, InitIs(i), init[i].c.step = 1
    PROVE  /\ HasSent1(init[i].c, i, init[i].c.method) /\ init[i].abs = AbsCtx(i, 0, FALSE)
           /\ init[i].c.done = FALSE /\ init[i].c.msk = NoTerm
<1>1. init_initiator(i).step = 0
  BY InitiatorParts
<1>. DEFINE c == init[i].c
            a == init[i].abs
            n == c.step
<1>2. \/ c = init_initiator(i)
      \/ c.done = FALSE /\ c.msk = NoTerm /\ HasSent1(c, i, c.method) /\ a = AbsCtx(i, 0, FALSE)
      \/ n \in {2, -1, 3} /\ n # -1
      \/ n = -1
  BY Zenon DEF InitIs
<1>3. n = 1
  OBVIOUS
<1>. HIDE DEF n, c, a
<1>4. c # init_initiator(i)
  BY <1>1, <1>3 DEF n
<1>5. n \notin {2, -1, 3} /\ n # -1
  BY <1>3
<1>6. QED
  BY <1>2, <1>4, <1>5 DEF c, a

LEMMA InitAt2 ==
    ASSUME NEW i \in Inits, InitIs(i), init[i].c.step = 2
    PROVE  \E r \in Resps : /\ HasSent3(init[i].c, i, r, init[i].c.method)
                            /\ init[i].c.done = (init[i].c.method # 4)
                            /\ init[i].abs = AbsCtx(i, r, init[i].c.method # 4)
<1>1. init_initiator(i).step = 0
  BY InitiatorParts
<1>. DEFINE c == init[i].c
            a == init[i].abs
            n == c.step
            Is(r) == HasSent3(c, i, r, c.method) /\ c.done = (c.method # 4)
                       /\ a = AbsCtx(i, r, c.method # 4)
<1>2. \/ c = init_initiator(i)
      \/ n \in {1, -1}
      \/ \E r \in Resps : Is(r)
      \/ n = 3
  BY Zenon DEF InitIs
<1>3. n = 2
  OBVIOUS
<1>. HIDE DEF n, c, a
<1>4. c # init_initiator(i)
  BY <1>1, <1>3 DEF n
<1>5. n \notin {1, -1} /\ n # 3
  BY <1>3
<1>6. \E r \in Resps : Is(r)
  BY <1>2, <1>4, <1>5, Zenon
<1>7. QED
  BY <1>6, Zenon DEF c, a

LEMMA RespAt1 ==
    ASSUME NEW r \in Resps, RespIs(r), resp[r].c.step = 1
    PROVE  \E i \in Inits : /\ Started(i) /\ HasSent2(resp[r].c, i, r, init[i].c.method)
                            /\ resp[r].c.method = init[i].c.method
                            /\ resp[r].abs = AbsCtx(i, r, FALSE)
                            /\ resp[r].c.done = FALSE /\ resp[r].c.msk = NoTerm
<1>1. init_responder(r).step = 0
  BY ResponderParts
<1>. DEFINE c == resp[r].c
            a == resp[r].abs
            n == c.step
            Is(i) == /\ Started(i) /\ HasSent2(c, i, r, init[i].c.method)
                     /\ a = AbsCtx(i, r, FALSE) /\ c.done = FALSE /\ c.msk = NoTerm
<1>2. c = init_responder(r) \/ (\E i \in Inits : Is(i)) \/ n = 2
  BY Zenon DEF RespIs
<1>3. n = 1
  OBVIOUS
<1>. HIDE DEF n, c, a
<1>4. c # init_responder(r)
  BY <1>1, <1>3 DEF n
<1>5. n # 2
  BY <1>3
<1>6. \E i \in Inits : Is(i)
  BY <1>2, <1>4, <1>5, Zenon
<1>7. QED
  BY <1>6, Zenon DEF c, a, HasSent2

(* message_2 *)
LEMMA Decides2 ==
    ASSUME NEW i \in Inits, NEW m, InitIs(i), IsCtx(init[i].c), init[i].c.step = 1, MsgIs(m)
    PROVE  /\ Accepts2(i, m) <=> \E r \in Resps : MsgIs2(m, i, r)
           /\ Accepts2(i, m) = IF init[i].c.method = 4
                               THEN Abs!edhoc4_i_handle_msg2_ok(init[i].abs, Data(m))
                               ELSE Abs!edhoc03_i_handle_msg2_ok(init[i].abs, Data(m))
<1>. DEFINE c == init[i].c
            k == init[i].c.method
            t == IF k = 4 THEN "msg2" ELSE "classic2"
            own == \E r \in Resps : MsgIs2(m, i, r)
            ok == Abs!Whole(Data(m), t) /\ Data(m).msg.eph = i
<1>1. HasSent1(c, i, k) /\ init[i].abs.eph = i
  <2>1. HasSent1(c, i, k) /\ init[i].abs = AbsCtx(i, 0, FALSE)
    BY InitAt1, Zenon
  <2>2. QED
    BY <2>1 DEF AbsCtx
<1>2. PICK j \in Inits : \/ MsgIs1(m, j)
                         \/ \E r \in Resps : MsgIs2(m, j, r) \/ MsgIs3(m, j, r) \/ MsgIs4(m, j, r)
  BY DEF MsgIs
<1>3. t \in Abs!MsgTypes
  BY DEF Abs!MsgTypes
<1>4. /\ k = 4 => Abs!edhoc4_i_handle_msg2_ok(init[i].abs, Data(m)) = ok
      /\ k # 4 => Abs!edhoc03_i_handle_msg2_ok(init[i].abs, Data(m)) = ok
  BY <1>1 DEF Abs!edhoc4_i_handle_msg2_ok, Abs!edhoc03_i_handle_msg2_ok
<1>5. /\ k = 4 => Accepts2(i, m) = (m.term.fmt = t /\ i_handle_msg2_ok(c, m.term))
      /\ k # 4 => Accepts2(i, m) = (m.term.fmt = t /\ i03_handle_msg2_ok(c, m.term))
  BY DEF Accepts2
<1>6. own => m.term.fmt = t /\ ok
  <2>1. SUFFICES ASSUME NEW r \in Resps, MsgIs2(m, i, r) PROVE m.term.fmt = t /\ ok
    OBVIOUS
  <2>2. QED
    BY <1>3, <2>1, Msg2Parts DEF Fmt2
<1>7. own => Accepts2(i, m)
  <2>1. SUFFICES ASSUME NEW r \in Resps, MsgIs2(m, i, r) PROVE Accepts2(i, m)
    OBVIOUS
  <2>2. m.term = M2(i, r, k)
    BY <2>1 DEF MsgIs2, MsgOf
  <2>3. CASE k = 4
    <3>1. i_handle_msg2_ok(c, M2(i, r, 4))
      BY <1>1, <2>3, HandlesMsg2
    <3>2. QED
      BY <1>5, <1>6, <2>1, <2>2, <2>3, <3>1
  <2>4. CASE k # 4
    <3>1. i03_handle_msg2_ok(c, M2(i, r, k))
      BY <1>1, <2>4, HandlesClassic2
    <3>2. QED
      BY <1>5, <1>6, <2>1, <2>2, <2>4, <3>1
  <2>5. QED
    BY <2>3, <2>4
<1>8. m.term.fmt = t \/ ok => \E r \in Resps : MsgIs2(m, j, r) /\ (init[j].c.method = 4 <=> k = 4)
  <2>1. ASSUME MsgIs1(m, j) PROVE ~(m.term.fmt = t \/ ok)
    <3>. HIDE DEF t
    <3>1. m.term.fmt = Fmt1(j) /\ (Abs!Whole(Data(m), t) <=> t = Fmt1(j))
      BY <1>3, <2>1, Msg1Parts
    <3>2. t # Fmt1(j)
      BY DEF t, Fmt1
    <3>3. QED
      BY <3>1, <3>2
  <2>2. ASSUME NEW r \in Resps, MsgIs3(m, j, r) PROVE ~(m.term.fmt = t \/ ok)
    <3>. HIDE DEF t
    <3>1. m.term.fmt = Fmt3(j) /\ (Abs!Whole(Data(m), t) <=> t = Fmt3(j))
      BY <1>3, <2>2, Msg3Parts
    <3>2. t # Fmt3(j)
      BY DEF t, Fmt3
    <3>3. QED
      BY <3>1, <3>2
  <2>3. ASSUME NEW r \in Resps, MsgIs4(m, j, r) PROVE ~(m.term.fmt = t \/ ok)
    <3>. HIDE DEF t
    <3>1. m.term.fmt = "msg4" /\ (Abs!Whole(Data(m), t) <=> t = "msg4")
      BY <1>3, <2>3, Msg4Parts
    <3>2. t # "msg4"
      BY DEF t
    <3>3. QED
      BY <3>1, <3>2
  <2>4. ASSUME NEW r \in Resps, MsgIs2(m, j, r), m.term.fmt = t \/ ok
        PROVE  init[j].c.method = 4 <=> k = 4
    BY <1>3, <2>4, Msg2Parts DEF Fmt2
  <2>5. QED
    BY <1>2, <2>1, <2>2, <2>3, <2>4
<1>9. ok => own
  <2>1. SUFFICES ASSUME ok PROVE own
    OBVIOUS
  <2>2. PICK r \in Resps : MsgIs2(m, j, r)
    BY <1>8, <2>1
  <2>3. Data(m).msg.eph = j
    BY <1>3, <2>2, Msg2Parts DEF Fmt2
  <2>4. QED
    BY <2>1, <2>2, <2>3
<1>10. Accepts2(i, m) => own
  <2>1. SUFFICES ASSUME Accepts2(i, m) PROVE own
    OBVIOUS
  <2>2. m.term.fmt = t
    BY <1>5, <2>1
  <2>3. PICK r \in Resps : MsgIs2(m, j, r) /\ (init[j].c.method = 4 <=> k = 4)
    BY <1>8, <2>2
  <2>4. m.term = M2(j, r, init[j].c.method)
    BY <2>3 DEF MsgIs2, MsgOf
  <2>5. CASE k = 4
    <3>1. i_handle_msg2_ok(c, M2(j, r, 4)) /\ HasSent1(c, i, 4)
      BY <1>1, <1>5, <2>1, <2>3, <2>4, <2>5
    <3>2. i = j
      BY <3>1, RejectsMsg2
    <3>3. QED
      BY <2>3, <3>2
  <2>6. CASE k # 4
    <3>1. i03_handle_msg2_ok(c, M2(j, r, init[j].c.method))
      BY <1>1, <1>5, <2>1, <2>3, <2>4, <2>6
    <3>2. i = j
      BY <1>1, <3>1, RejectsClassic2
    <3>3. QED
      BY <2>3, <3>2
  <2>7. QED
    BY <2>5, <2>6
<1>11. (Accepts2(i, m) <=> own) /\ (own <=> ok)
  BY <1>6, <1>7, <1>9, <1>10
<1>12. QED
  BY <1>4, <1>5, <1>11

(* message_3 *)
LEMMA Decides3 ==
    ASSUME NEW i \in Inits, NEW r \in Resps, NEW m, IsCtx(resp[r].c), MsgIs(m),
           HasSent2(resp[r].c, i, r, init[i].c.method), resp[r].abs = AbsCtx(i, r, FALSE)
    PROVE  /\ Accepts3(r, m) <=> MsgIs3(m, i, r)
           /\ Accepts3(r, m) = IF resp[r].c.method = 4
                               THEN Abs!edhoc4_r_handle_msg3_ok(resp[r].abs, Data(m))
                               ELSE Abs!edhoc03_r_handle_msg3_ok(resp[r].abs, Data(m))
<1>. DEFINE c == resp[r].c
            k == init[i].c.method
            t == IF k = 4 THEN "msg3" ELSE "classic3"
            own == MsgIs3(m, i, r)
            ok == Abs!Whole(Data(m), t) /\ Data(m).msg.eph = i /\ Data(m).msg.sid = r
<1>1. HasSent2(c, i, r, k) /\ c.method = k /\ resp[r].abs.eph = i /\ resp[r].abs.sid = r
  BY DEF HasSent2, AbsCtx
<1>2. PICK j \in Inits : \/ MsgIs1(m, j)
                         \/ \E s \in Resps : MsgIs2(m, j, s) \/ MsgIs3(m, j, s) \/ MsgIs4(m, j, s)
  BY DEF MsgIs
<1>3. t \in Abs!MsgTypes
  BY DEF Abs!MsgTypes
<1>4. /\ k = 4 => Abs!edhoc4_r_handle_msg3_ok(resp[r].abs, Data(m)) = ok
      /\ k # 4 => Abs!edhoc03_r_handle_msg3_ok(resp[r].abs, Data(m)) = ok
  BY <1>1 DEF Abs!edhoc4_r_handle_msg3_ok, Abs!edhoc03_r_handle_msg3_ok, Abs!Ours
<1>5. /\ k = 4 => Accepts3(r, m) = (m.term.fmt = t /\ r_handle_msg3_ok(c, m.term))
      /\ k # 4 => Accepts3(r, m) = (m.term.fmt = t /\ r03_handle_msg3_ok(c, m.term))
  BY <1>1 DEF Accepts3
<1>6. own => m.term.fmt = t /\ ok
  BY <1>3, Msg3Parts DEF Fmt3
<1>7. own => Accepts3(r, m)
  <2>1. SUFFICES ASSUME own PROVE Accepts3(r, m)
    OBVIOUS
  <2>2. m.term = M3(i, r, k)
    BY <2>1 DEF MsgIs3, MsgOf
  <2>3. CASE k = 4
    <3>1. r_handle_msg3_ok(c, M3(i, r, 4))
      BY <1>1, <2>3, HandlesMsg3
    <3>2. QED
      BY <1>5, <1>6, <2>1, <2>2, <2>3, <3>1
  <2>4. CASE k # 4
    <3>1. r03_handle_msg3_ok(c, M3(i, r, k))
      BY <1>1, <2>4, HandlesClassic3
    <3>2. QED
      BY <1>5, <1>6, <2>1, <2>2, <2>4, <3>1
  <2>5. QED
    BY <2>3, <2>4
<1>8. m.term.fmt = t \/ ok => \E s \in Resps : MsgIs3(m, j, s) /\ (init[j].c.method = 4 <=> k = 4)
  <2>1. ASSUME MsgIs1(m, j) PROVE ~(m.term.fmt = t \/ ok)
    <3>. HIDE DEF t
    <3>1. m.term.fmt = Fmt1(j) /\ (Abs!Whole(Data(m), t) <=> t = Fmt1(j))
      BY <1>3, <2>1, Msg1Parts
    <3>2. t # Fmt1(j)
      BY DEF t, Fmt1
    <3>3. QED
      BY <3>1, <3>2
  <2>2. ASSUME NEW s \in Resps, MsgIs2(m, j, s) PROVE ~(m.term.fmt = t \/ ok)
    <3>. HIDE DEF t
    <3>1. m.term.fmt = Fmt2(j) /\ (Abs!Whole(Data(m), t) <=> t = Fmt2(j))
      BY <1>3, <2>2, Msg2Parts
    <3>2. t # Fmt2(j)
      BY DEF t, Fmt2
    <3>3. QED
      BY <3>1, <3>2
  <2>3. ASSUME NEW s \in Resps, MsgIs4(m, j, s) PROVE ~(m.term.fmt = t \/ ok)
    <3>. HIDE DEF t
    <3>1. m.term.fmt = "msg4" /\ (Abs!Whole(Data(m), t) <=> t = "msg4")
      BY <1>3, <2>3, Msg4Parts
    <3>2. t # "msg4"
      BY DEF t
    <3>3. QED
      BY <3>1, <3>2
  <2>4. ASSUME NEW s \in Resps, MsgIs3(m, j, s), m.term.fmt = t \/ ok
        PROVE  init[j].c.method = 4 <=> k = 4
    BY <1>3, <2>4, Msg3Parts DEF Fmt3
  <2>5. QED
    BY <1>2, <2>1, <2>2, <2>3, <2>4
<1>9. ok => own
  <2>1. SUFFICES ASSUME ok PROVE own
    OBVIOUS
  <2>2. PICK s \in Resps : MsgIs3(m, j, s)
    BY <1>8, <2>1
  <2>3. Data(m).msg.eph = j /\ Data(m).msg.sid = s
    BY <1>3, <2>2, Msg3Parts DEF Fmt3
  <2>4. QED
    BY <2>1, <2>2, <2>3
<1>10. Accepts3(r, m) => own
  <2>1. SUFFICES ASSUME Accepts3(r, m) PROVE own
    OBVIOUS
  <2>2. m.term.fmt = t
    BY <1>5, <2>1
  <2>3. PICK s \in Resps : MsgIs3(m, j, s) /\ (init[j].c.method = 4 <=> k = 4)
    BY <1>8, <2>2
  <2>4. m.term = M3(j, s, init[j].c.method)
    BY <2>3 DEF MsgIs3, MsgOf
  <2>5. CASE k = 4
    <3>1. r_handle_msg3_ok(c, M3(j, s, 4)) /\ HasSent2(c, i, r, 4)
      BY <1>1, <1>5, <2>1, <2>3, <2>4, <2>5
    <3>2. i = j /\ r = s
      BY <3>1, RejectsMsg3
    <3>3. QED
      BY <2>3, <3>2
  <2>6. CASE k # 4
    <3>1. r03_handle_msg3_ok(c, M3(j, s, init[j].c.method))
      BY <1>1, <1>5, <2>1, <2>3, <2>4, <2>6
    <3>2. i = j /\ r = s
      BY <1>1, <3>1, RejectsClassic3
    <3>3. QED
      BY <2>3, <3>2
  <2>7. QED
    BY <2>5, <2>6
<1>11. (Accepts3(r, m) <=> own) /\ (own <=> ok)
  BY <1>6, <1>7, <1>9, <1>10
<1>12. QED
  BY <1>1, <1>4, <1>5, <1>11

(* message_4 *)
LEMMA Decides4 ==
    ASSUME NEW i \in Inits, NEW r \in Resps, NEW m, IsCtx(init[i].c), MsgIs(m),
           HasSent3(init[i].c, i, r, 4), init[i].abs = AbsCtx(i, r, FALSE)
    PROVE  /\ Accepts4(i, m) <=> MsgIs4(m, i, r)
           /\ Accepts4(i, m) = Abs!edhoc4_i_handle_msg4_ok(init[i].abs, Data(m))
<1>. DEFINE c == init[i].c
            t == "msg4"
            own == MsgIs4(m, i, r)
            ok == Abs!Whole(Data(m), t) /\ Data(m).msg.eph = i /\ Data(m).msg.sid = r
<1>1. init[i].abs.eph = i /\ init[i].abs.sid = r
  BY DEF AbsCtx
<1>2. PICK j \in Inits : \/ MsgIs1(m, j)
                         \/ \E s \in Resps : MsgIs2(m, j, s) \/ MsgIs3(m, j, s) \/ MsgIs4(m, j, s)
  BY DEF MsgIs
<1>3. t \in Abs!MsgTypes
  BY DEF Abs!MsgTypes
<1>4. Abs!edhoc4_i_handle_msg4_ok(init[i].abs, Data(m)) = ok
  BY <1>1 DEF Abs!edhoc4_i_handle_msg4_ok, Abs!Ours
<1>5. Accepts4(i, m) = (m.term.fmt = t /\ i_handle_msg4_ok(c, m.term))
  BY DEF Accepts4
<1>6. own => m.term.fmt = t /\ ok
  BY <1>3, Msg4Parts
<1>7. own => Accepts4(i, m)
  <2>1. SUFFICES ASSUME own PROVE Accepts4(i, m)
    OBVIOUS
  <2>2. m.term = M4(i, r)
    BY <2>1 DEF MsgIs4, MsgOf
  <2>3. i_handle_msg4_ok(c, M4(i, r))
    BY HandlesMsg4
  <2>4. QED
    BY <1>5, <1>6, <2>1, <2>2, <2>3
<1>8. m.term.fmt = t \/ ok => \E s \in Resps : MsgIs4(m, j, s)
  <2>1. ASSUME MsgIs1(m, j) PROVE ~(m.term.fmt = t \/ ok)
    <3>. HIDE DEF t
    <3>1. m.term.fmt = Fmt1(j) /\ (Abs!Whole(Data(m), t) <=> t = Fmt1(j))
      BY <1>3, <2>1, Msg1Parts
    <3>2. t # Fmt1(j)
      BY DEF t, Fmt1
    <3>3. QED
      BY <3>1, <3>2
  <2>2. ASSUME NEW s \in Resps, MsgIs2(m, j, s) PROVE ~(m.term.fmt = t \/ ok)
    <3>. HIDE DEF t
    <3>1. m.term.fmt = Fmt2(j) /\ (Abs!Whole(Data(m), t) <=> t = Fmt2(j))
      BY <1>3, <2>2, Msg2Parts
    <3>2. t # Fmt2(j)
      BY DEF t, Fmt2
    <3>3. QED
      BY <3>1, <3>2
  <2>3. ASSUME NEW s \in Resps, MsgIs3(m, j, s) PROVE ~(m.term.fmt = t \/ ok)
    <3>. HIDE DEF t
    <3>1. m.term.fmt = Fmt3(j) /\ (Abs!Whole(Data(m), t) <=> t = Fmt3(j))
      BY <1>3, <2>3, Msg3Parts
    <3>2. t # Fmt3(j)
      BY DEF t, Fmt3
    <3>3. QED
      BY <3>1, <3>2
  <2>4. QED
    BY <1>2, <2>1, <2>2, <2>3
<1>9. ok => own
  <2>1. SUFFICES ASSUME ok PROVE own
    OBVIOUS
  <2>2. PICK s \in Resps : MsgIs4(m, j, s)
    BY <1>8, <2>1
  <2>3. Data(m).msg.eph = j /\ Data(m).msg.sid = s
    BY <1>3, <2>2, Msg4Parts
  <2>4. QED
    BY <2>1, <2>2, <2>3
<1>10. Accepts4(i, m) => own
  <2>1. SUFFICES ASSUME Accepts4(i, m) PROVE own
    OBVIOUS
  <2>2. PICK s \in Resps : MsgIs4(m, j, s)
    BY <1>5, <1>8, <2>1
  <2>3. m.term = M4(j, s)
    BY <2>2 DEF MsgIs4, MsgOf
  <2>4. i_handle_msg4_ok(c, M4(j, s))
    BY <1>5, <2>1, <2>3
  <2>5. i = j /\ r = s
    BY <2>4, RejectsMsg4
  <2>6. QED
    BY <2>2, <2>5
<1>11. (Accepts4(i, m) <=> own) /\ (own <=> ok)
  BY <1>6, <1>7, <1>9, <1>10
<1>12. QED
  BY <1>4, <1>5, <1>11

-----------------------------------------------------------------------------
(* The invariant gives the properties *)

LEMMA CanonicalAccepts == Canonical => AcceptsOwnOnly
<1>. SUFFICES ASSUME Canonical PROVE AcceptsOwnOnly
  OBVIOUS
<1>1. ASSUME NEW m \in msgs, NEW i \in Inits, init[i].c.step = 1
      PROVE  Accepts2(i, m) = IF init[i].c.method = 4
                              THEN Abs!edhoc4_i_handle_msg2_ok(init[i].abs, Data(m))
                              ELSE Abs!edhoc03_i_handle_msg2_ok(init[i].abs, Data(m))
  <2>1. InitIs(i) /\ IsCtx(init[i].c) /\ MsgIs(m)
    BY DEF Canonical, Shapes, IsRun
  <2>2. QED
    BY <1>1, <2>1, Decides2
<1>2. ASSUME NEW m \in msgs, NEW i \in Inits, init[i].c.step = 2, init[i].c.method = 4
      PROVE  Accepts4(i, m) = Abs!edhoc4_i_handle_msg4_ok(init[i].abs, Data(m))
  <2>1. InitIs(i) /\ IsCtx(init[i].c) /\ MsgIs(m)
    BY DEF Canonical, Shapes, IsRun
  <2>2. PICK r \in Resps : /\ HasSent3(init[i].c, i, r, init[i].c.method)
                           /\ init[i].abs = AbsCtx(i, r, init[i].c.method # 4)
    BY <1>2, <2>1, InitAt2
  <2>3. HasSent3(init[i].c, i, r, 4) /\ init[i].abs = AbsCtx(i, r, FALSE)
    BY <1>2, <2>2
  <2>4. QED
    BY <2>1, <2>3, Decides4
<1>3. ASSUME NEW m \in msgs, NEW r \in Resps, resp[r].c.step = 1
      PROVE  Accepts3(r, m) = IF resp[r].c.method = 4
                              THEN Abs!edhoc4_r_handle_msg3_ok(resp[r].abs, Data(m))
                              ELSE Abs!edhoc03_r_handle_msg3_ok(resp[r].abs, Data(m))
  <2>1. RespIs(r) /\ IsCtx(resp[r].c) /\ MsgIs(m)
    BY DEF Canonical, Shapes, IsRun
  <2>2. PICK i \in Inits : /\ HasSent2(resp[r].c, i, r, init[i].c.method)
                           /\ resp[r].abs = AbsCtx(i, r, FALSE)
    BY <1>3, <2>1, RespAt1
  <2>3. QED
    BY <2>1, <2>2, Decides3
<1>4. QED
  BY <1>1, <1>2, <1>3 DEF AcceptsOwnOnly

(* What has derived an MSK. *)
LEMMA InitMsk ==
    ASSUME NEW i \in Inits, InitIs(i)
    PROVE  /\ init[i].c.done = init[i].abs.done
           /\ \/ init[i].c.msk = NoTerm
              \/ \E r \in Resps : /\ init[i].c.msk = MSK(i, r, init[i].c.method)
                                  /\ init[i].abs.eph = i /\ init[i].abs.sid = r
<1>. DEFINE c == init[i].c
            a == init[i].abs
            k == init[i].c.method
<1>1. \/ c = init_initiator(i) /\ a = Abs!NoCtx
      \/ c.done = FALSE /\ c.msk = NoTerm /\ a = AbsCtx(i, 0, FALSE)
      \/ \E r \in Resps : c.done = (k # 4) /\ HasSent3(c, i, r, k) /\ a = AbsCtx(i, r, k # 4)
      \/ \E r \in Resps : c.done = TRUE /\ HasSent3(c, i, r, k) /\ a = AbsCtx(i, r, TRUE)
  BY Zenon DEF InitIs
<1>. HIDE DEF c, a, k
<1>2. CASE c = init_initiator(i) /\ a = Abs!NoCtx
  <2>1. c.msk = NoTerm /\ c.done = FALSE
    BY <1>2, InitiatorParts
  <2>2. a.done = FALSE
    BY <1>2 DEF Abs!NoCtx
  <2>3. QED
    BY <2>1, <2>2 DEF c, a, k
<1>3. CASE c.done = FALSE /\ c.msk = NoTerm /\ a = AbsCtx(i, 0, FALSE)
  <2>1. a.done = FALSE
    BY <1>3 DEF AbsCtx
  <2>2. QED
    BY <1>3, <2>1 DEF c, a, k
<1>4. ASSUME NEW r \in Resps, NEW b, c.done = b, HasSent3(c, i, r, k), a = AbsCtx(i, r, b)
      PROVE  c.done = a.done /\ c.msk = MSK(i, r, k) /\ a.eph = i /\ a.sid = r
  <2>1. a.done = b /\ a.eph = i /\ a.sid = r
    BY <1>4 DEF AbsCtx
  <2>2. QED
    BY <1>4, <2>1 DEF HasSent3
<1>5. QED
  BY <1>1, <1>2, <1>3, <1>4, Zenon DEF c, a, k

LEMMA RespMsk ==
    ASSUME NEW r \in Resps, RespIs(r)
    PROVE  /\ resp[r].c.done = resp[r].abs.done
           /\ \/ resp[r].c.msk = NoTerm
              \/ \E i \in Inits : /\ resp[r].c.msk = MSK(i, r, init[i].c.method)
                                  /\ resp[r].abs.eph = i /\ resp[r].abs.sid = r
<1>. DEFINE c == resp[r].c
            a == resp[r].abs
<1>1. \/ c = init_responder(r) /\ a = Abs!NoCtx
      \/ \E i \in Inits : c.done = FALSE /\ c.msk = NoTerm /\ a = AbsCtx(i, r, FALSE)
      \/ \E i \in Inits : /\ c.done = TRUE /\ HasVerified3(c, i, r, init[i].c.method)
                          /\ a = AbsCtx(i, r, TRUE)
  BY Zenon DEF RespIs
<1>. HIDE DEF c, a
<1>2. CASE c = init_responder(r) /\ a = Abs!NoCtx
  <2>1. c.msk = NoTerm /\ c.done = FALSE
    BY <1>2, ResponderParts
  <2>2. a.done = FALSE
    BY <1>2 DEF Abs!NoCtx
  <2>3. QED
    BY <2>1, <2>2 DEF c, a
<1>3. ASSUME NEW i \in Inits, c.done = FALSE, c.msk = NoTerm, a = AbsCtx(i, r, FALSE)
      PROVE  c.done = a.done
  BY <1>3 DEF AbsCtx
<1>4. ASSUME NEW i \in Inits, c.done = TRUE, HasVerified3(c, i, r, init[i].c.method),
             a = AbsCtx(i, r, TRUE)
      PROVE  /\ c.done = a.done /\ c.msk = MSK(i, r, init[i].c.method)
             /\ a.eph = i /\ a.sid = r
  <2>1. a.done = TRUE /\ a.eph = i /\ a.sid = r
    BY <1>4 DEF AbsCtx
  <2>2. QED
    BY <1>4, <2>1 DEF HasVerified3
<1>5. QED
  BY <1>1, <1>2, <1>3, <1>4, Zenon DEF c, a

LEMMA CanonicalMsk == Canonical => MskOfOneRun
<1>. SUFFICES ASSUME Canonical PROVE MskOfOneRun
  OBVIOUS
<1>1. (\A i \in Inits : InitIs(i)) /\ (\A r \in Resps : RespIs(r))
  BY DEF Canonical
<1>2. \A i \in Inits : init[i].c.done = init[i].abs.done
  BY <1>1, InitMsk, Zenon
<1>3. \A r \in Resps : resp[r].c.done = resp[r].abs.done
  BY <1>1, RespMsk, Zenon
<1>4. ASSUME NEW i \in Inits, NEW r \in Resps, init[i].c.msk # NoTerm, resp[r].c.msk # NoTerm
      PROVE  (init[i].c.msk = resp[r].c.msk) = (Abs!Msk(init[i].abs) = Abs!Msk(resp[r].abs))
  <2>1. PICK s \in Resps : /\ init[i].c.msk = MSK(i, s, init[i].c.method)
                           /\ init[i].abs.eph = i /\ init[i].abs.sid = s
    BY <1>1, <1>4, InitMsk, Zenon
  <2>2. PICK j \in Inits : /\ resp[r].c.msk = MSK(j, r, init[j].c.method)
                           /\ resp[r].abs.eph = j /\ resp[r].abs.sid = r
    BY <1>1, <1>4, RespMsk, Zenon
  <2>3. (Abs!Msk(init[i].abs) = Abs!Msk(resp[r].abs)) <=> i = j /\ s = r
    BY <2>1, <2>2 DEF Abs!Msk
  <2>4. (init[i].c.msk = resp[r].c.msk) => i = j /\ s = r
    <3>. DEFINE k == init[i].c.method
                l == init[j].c.method
    <3>1. SUFFICES ASSUME MSK(i, s, k) = MSK(j, r, l) PROVE i = j /\ s = r
      BY <2>1, <2>2
    <3>. HIDE DEF k, l
    <3>2. QED
      BY <3>1, MSKInjective
  <2>5. i = j /\ s = r => init[i].c.msk = resp[r].c.msk
    BY <2>1, <2>2
  <2>6. QED
    BY <2>3, <2>4, <2>5
<1>5. ASSUME NEW i \in Inits, NEW j \in Inits, i # j, init[i].c.msk # NoTerm
      PROVE  init[i].c.msk # init[j].c.msk
  <2>1. PICK s \in Resps : init[i].c.msk = MSK(i, s, init[i].c.method)
    BY <1>1, <1>5, InitMsk, Zenon
  <2>2. SUFFICES ASSUME init[i].c.msk = init[j].c.msk PROVE FALSE
    OBVIOUS
  <2>3. PICK t \in Resps : init[j].c.msk = MSK(j, t, init[j].c.method)
    BY <1>1, <1>5, <2>2, InitMsk, Zenon
  <2>. DEFINE k == init[i].c.method
              l == init[j].c.method
  <2>4. MSK(i, s, k) = MSK(j, t, l)
    BY <2>1, <2>2, <2>3
  <2>. HIDE DEF k, l
  <2>5. QED
    BY <1>5, <2>4, MSKInjective
<1>6. QED
  BY <1>2, <1>3, <1>4, <1>5, Zenon DEF MskOfOneRun

LEMMA CanonicalRatchet == Canonical => RatchetKeysExchanged
<1>. SUFFICES ASSUME Canonical, NEW i \in Inits, init[i].c.step = 3
              PROVE  \E r \in Resps :
                        /\ resp[r].c.done /\ Abs!Msk(resp[r].abs) = Abs!Msk(init[i].abs)
                        /\ init[i].c.peerNew = resp[r].c.newKey
                        /\ resp[r].c.peerNew = init[i].c.newKey
  BY DEF RatchetKeysExchanged
<1>. DEFINE c == init[i].c
            a == init[i].abs
            n == c.step
            Is(r) == /\ c.method = 4 /\ HasSent3(c, i, r, c.method) /\ a = AbsCtx(i, r, TRUE)
                     /\ c.peerNew = Fresh("new", "R", r)
                     /\ resp[r].c.done = TRUE /\ resp[r].abs = AbsCtx(i, r, TRUE)
                     /\ HasVerified3(resp[r].c, i, r, 4)
<1>1. InitIs(i)
  BY DEF Canonical
<1>2. c = init_initiator(i) \/ n \in {1, -1} \/ n \in {2, -1} \/ \E r \in Resps : Is(r)
  BY <1>1, Zenon DEF InitIs
<1>3. n = 3 /\ init_initiator(i).step = 0
  BY InitiatorParts
<1>. HIDE DEF n, c, a
<1>4. n \notin {1, -1} /\ n \notin {2, -1}
  BY <1>3
<1>5. c # init_initiator(i)
  BY <1>3 DEF n
<1>6. PICK r \in Resps : Is(r)
  BY <1>2, <1>4, <1>5, Zenon
<1>7. c.newKey = Fresh("new", "I", i)
  BY <1>6 DEF HasSent3
<1>8. resp[r].c.newKey = Fresh("new", "R", r) /\ resp[r].c.peerNew = Fresh("new", "I", i)
  BY <1>6 DEF HasVerified3
<1>9. resp[r].abs = a /\ resp[r].c.done
  BY <1>6
<1>10. QED
  BY <1>6, <1>7, <1>8, <1>9 DEF c, a

-----------------------------------------------------------------------------
(* The invariant is inductive *)

LEMMA RunShape == ASSUME NEW d, NEW a, IsCtx(d) PROVE IsRun([c |-> d, abs |-> a])
<1>. DEFINE x == [c |-> d, abs |-> a]
<1>1. x = [f \in {"c", "abs"} |-> x[f]] /\ x.c = d
  OBVIOUS
<1>2. QED
  BY <1>1, Zenon DEF IsRun

(* A run that has started keeps its method, and a responder that is done does
   not change: what is known of the others stays true. *)
LEMMA Stable ==
    ASSUME Canonical,
           \A i \in Inits :
               Started(i) => init'[i].c.step # 0 /\ init'[i].c.method = init[i].c.method,
           \A r \in Resps : resp[r].c.step = 2 => resp'[r] = resp[r]
    PROVE  /\ \A i \in Inits : init'[i] = init[i] => InitIs(i)'
           /\ \A r \in Resps : resp'[r] = resp[r] => RespIs(r)'
           /\ \A m \in msgs : MsgIs(m)'
<1>1. ASSUME NEW i \in Inits, init'[i] = init[i] PROVE InitIs(i)'
  <2>1. InitIs(i)
    BY DEF Canonical
  <2>2. QED
    BY <1>1, <2>1, Zenon DEF InitIs
<1>2. ASSUME NEW r \in Resps, resp'[r] = resp[r] PROVE RespIs(r)'
  <2>1. RespIs(r)
    BY DEF Canonical
  <2>2. QED
    BY <1>2, <2>1, Zenon DEF RespIs, Started
<1>3. ASSUME NEW m \in msgs PROVE MsgIs(m)'
  <2>1. MsgIs(m)
    BY DEF Canonical
  <2>2. PICK i \in Inits :
            /\ Started(i)
            /\ \/ MsgIs1(m, i)
               \/ \E r \in Resps : MsgIs2(m, i, r) \/ MsgIs3(m, i, r) \/ MsgIs4(m, i, r)
    BY <2>1, Zenon DEF MsgIs
  <2>3. Started(i)' /\ init'[i].c.method = init[i].c.method
    BY <2>2 DEF Started
  <2>4. MsgIs1(m, i) => MsgIs1(m, i)'
    BY <2>3, Zenon DEF MsgIs1
  <2>5. ASSUME NEW r \in Resps
        PROVE  /\ MsgIs2(m, i, r) => MsgIs2(m, i, r)'
               /\ MsgIs3(m, i, r) => MsgIs3(m, i, r)'
               /\ MsgIs4(m, i, r) => MsgIs4(m, i, r)'
    <3>1. MsgIs2(m, i, r) => MsgIs2(m, i, r)'
      BY <2>3, Zenon DEF MsgIs2
    <3>2. MsgIs3(m, i, r) => MsgIs3(m, i, r)'
      BY <2>3, Zenon DEF MsgIs3
    <3>3. MsgIs4(m, i, r) => MsgIs4(m, i, r)'
      BY <2>3, Zenon DEF MsgIs4
    <3>4. QED
      BY <3>1, <3>2, <3>3
  <2>6. QED
    BY <2>2, <2>3, <2>4, <2>5, Zenon DEF MsgIs
<1>4. QED
  BY <1>1, <1>2, <1>3

LEMMA InitStep ==
    ASSUME Canonical, NEW i \in Inits, NEW d, NEW a, IsCtx(d), d.step # 0,
           Started(i) => d.method = init[i].c.method,
           init' = [init EXCEPT ![i] = [c |-> d, abs |-> a]], resp' = resp,
           InitIs(i)', \A m \in msgs' : m \in msgs \/ MsgIs(m)'
    PROVE  Canonical'
<1>. DEFINE x == [c |-> d, abs |-> a]
<1>1. IsRun(x) /\ x.c = d
  BY RunShape
<1>2. init' = [init EXCEPT ![i] = x]
  OBVIOUS
<1>. HIDE DEF x
<1>3. /\ init = [j \in Inits |-> init[j]] /\ \A j \in Inits : IsRun(init[j])
      /\ resp = [r \in Resps |-> resp[r]] /\ \A r \in Resps : IsRun(resp[r])
  BY DEF Canonical, Shapes
<1>4. /\ init' = [j \in Inits |-> init'[j]] /\ init'[i] = x
      /\ \A j \in Inits : j # i => init'[j] = init[j]
  BY <1>2, <1>3
<1>5. Shapes'
  BY <1>1, <1>3, <1>4 DEF Shapes
<1>6. \A j \in Inits : Started(j) => init'[j].c.step # 0 /\ init'[j].c.method = init[j].c.method
  BY <1>1, <1>4 DEF Started
<1>7. \A r \in Resps : resp[r].c.step = 2 => resp'[r] = resp[r]
  OBVIOUS
<1>8. /\ \A j \in Inits : init'[j] = init[j] => InitIs(j)'
      /\ \A r \in Resps : resp'[r] = resp[r] => RespIs(r)'
      /\ \A m \in msgs : MsgIs(m)'
  BY <1>6, <1>7, Stable, Zenon
<1>9. QED
  BY <1>4, <1>5, <1>8 DEF Canonical

LEMMA RespStep ==
    ASSUME Canonical, NEW r \in Resps, NEW d, NEW a, IsCtx(d), resp[r].c.step # 2,
           resp' = [resp EXCEPT ![r] = [c |-> d, abs |-> a]], init' = init,
           RespIs(r)', \A m \in msgs' : m \in msgs \/ MsgIs(m)'
    PROVE  Canonical'
<1>. DEFINE x == [c |-> d, abs |-> a]
<1>1. IsRun(x) /\ x.c = d
  BY RunShape
<1>2. resp' = [resp EXCEPT ![r] = x]
  OBVIOUS
<1>. HIDE DEF x
<1>3. /\ init = [j \in Inits |-> init[j]] /\ \A j \in Inits : IsRun(init[j])
      /\ resp = [s \in Resps |-> resp[s]] /\ \A s \in Resps : IsRun(resp[s])
  BY DEF Canonical, Shapes
<1>4. /\ resp' = [s \in Resps |-> resp'[s]] /\ resp'[r] = x
      /\ \A s \in Resps : s # r => resp'[s] = resp[s]
  BY <1>2, <1>3
<1>5. Shapes'
  BY <1>1, <1>3, <1>4 DEF Shapes
<1>6. \A j \in Inits : Started(j) => init'[j].c.step # 0 /\ init'[j].c.method = init[j].c.method
  BY DEF Started
<1>7. \A s \in Resps : resp[s].c.step = 2 => resp'[s] = resp[s]
  BY <1>4
<1>8. /\ \A j \in Inits : init'[j] = init[j] => InitIs(j)'
      /\ \A s \in Resps : resp'[s] = resp[s] => RespIs(s)'
      /\ \A m \in msgs : MsgIs(m)'
  BY <1>6, <1>7, Stable, Zenon
<1>9. QED
  BY <1>4, <1>5, <1>8 DEF Canonical

LEMMA SetInit ==
    ASSUME Canonical, NEW i \in Inits, NEW d, NEW a,
           init' = [init EXCEPT ![i] = [c |-> d, abs |-> a]]
    PROVE  init'[i].c = d /\ init'[i].abs = a
<1>1. init = [j \in Inits |-> init[j]]
  BY DEF Canonical, Shapes
<1>2. QED
  BY <1>1

LEMMA SetResp ==
    ASSUME Canonical, NEW r \in Resps, NEW d, NEW a,
           resp' = [resp EXCEPT ![r] = [c |-> d, abs |-> a]]
    PROVE  resp'[r].c = d /\ resp'[r].abs = a
<1>1. resp = [s \in Resps |-> resp[s]]
  BY DEF Canonical, Shapes
<1>2. QED
  BY <1>1

LEMMA MadeParts ==
    ASSUME NEW t, NEW e, NEW s, NEW b, NEW x
    PROVE  MsgOf(Made(t, AbsCtx(e, s, b), x), t, e, s, x)
<1>1. AbsCtx(e, s, b).eph = e /\ AbsCtx(e, s, b).sid = s
  BY DEF AbsCtx
<1>2. QED
  BY <1>1 DEF Made, MsgOf

LEMMA StartRunKeeps ==
    ASSUME Canonical, NEW i \in Inits, NEW k \in Methods, StartRun(i, k)
    PROVE  Canonical'
<1>. DEFINE d == Out1(i, k).ctx
            x == Out1(i, k).msg
            t == IF k = 4 THEN "msg1" ELSE "classic1"
            a == AbsCtx(i, 0, FALSE)
            m == Made(t, a, x)
<1>1. /\ x = M1(i, k) /\ IsCtx(d) /\ d.step = 1 /\ d.done = FALSE /\ d.msk = NoTerm
      /\ HasSent1(d, i, k)
  BY MakeMsg1
<1>2. Abs!edhoc4_init_initiator(i) = a
  BY AbsNew
<1>3. /\ init[i].c.step = 0 /\ init' = [init EXCEPT ![i] = [c |-> d, abs |-> a]]
      /\ msgs' = msgs \cup {m} /\ resp' = resp
  BY <1>2, Zenon DEF StartRun, Out1
<1>. HIDE DEF d, x, a, m
<1>4. init'[i].c = d /\ init'[i].abs = a
  BY <1>3, SetInit
<1>5. d.method = k /\ d.step # 0 /\ d.step \in {1, -1}
  BY <1>1 DEF HasSent1
<1>6. InitIs(i)'
  BY <1>1, <1>4, <1>5, Zenon DEF InitIs, a
<1>7. MsgIs(m)'
  <2>1. MsgOf(m, t, i, 0, M1(i, k))
    BY <1>1, MadeParts DEF m, a
  <2>2. MsgIs1(m, i)'
    BY <1>4, <1>5, <2>1, Zenon DEF MsgIs1
  <2>3. Started(i)'
    BY <1>4, <1>5 DEF Started
  <2>4. QED
    BY <2>2, <2>3, Zenon DEF MsgIs
<1>8. ~Started(i)
  BY <1>3 DEF Started
<1>9. QED
  BY <1>1, <1>3, <1>5, <1>6, <1>7, <1>8, InitStep

LEMMA HandleMsg1Keeps ==
    ASSUME Canonical, NEW r \in Resps, NEW m \in msgs, HandleMsg1(r, m)
    PROVE  Canonical'
<1>1. m.term.fmt \in {"msg1", "classic1"} /\ resp[r].c.step = 0
  BY DEF HandleMsg1
<1>2. PICK i \in Inits : Started(i) /\ MsgIs1(m, i)
  <2>1. PICK i \in Inits :
            /\ Started(i)
            /\ \/ MsgIs1(m, i)
               \/ \E s \in Resps : MsgIs2(m, i, s) \/ MsgIs3(m, i, s) \/ MsgIs4(m, i, s)
    BY DEF Canonical, MsgIs
  <2>2. "msg1" \in Abs!MsgTypes
    BY DEF Abs!MsgTypes
  <2>3. ASSUME NEW s \in Resps PROVE ~MsgIs2(m, i, s) /\ ~MsgIs3(m, i, s) /\ ~MsgIs4(m, i, s)
    BY <1>1, <2>2, Msg2Parts, Msg3Parts, Msg4Parts DEF Fmt2, Fmt3
  <2>4. QED
    BY <2>1, <2>3
<1>k. PICK k : k = init[i].c.method
  OBVIOUS
<1>. DEFINE pqc == m.term.fmt # "classic1"
            d == Out2(i, r, k).ctx
            x == Out2(i, r, k).msg
            t == IF k = 4 THEN "msg2" ELSE "classic2"
            a == AbsCtx(i, r, FALSE)
            m2 == Made(t, a, x)
<1>3. m.term = M1(i, k) /\ (pqc <=> k = 4) /\ Data(m).msg.eph = i
  <2>1. "msg1" \in Abs!MsgTypes /\ 0 \in Resps \cup {0}
    BY DEF Abs!MsgTypes
  <2>2. m.term = M1(i, k)
    BY <1>2, <1>k DEF MsgIs1, MsgOf
  <2>3. (pqc <=> k = 4) /\ Data(m).msg.eph = i
    BY <1>2, <1>k, <2>1, Msg1Parts DEF Fmt1
  <2>4. QED
    BY <2>2, <2>3
<1>4. /\ x = M2(i, r, k) /\ IsCtx(d) /\ d.step = 1 /\ d.done = FALSE /\ d.msk = NoTerm
      /\ HasSent2(d, i, r, k)
  BY HandlesMsg1
<1>5. /\ Abs!edhoc4_r_handle_msg1(Abs!edhoc4_init_responder(r), Data(m)) = a
      /\ Abs!edhoc03_r_handle_msg1(Abs!edhoc4_init_responder(r), Data(m)) = a
  <2>1. Abs!edhoc4_init_responder(r) = AbsCtx(0, r, FALSE)
    BY AbsNew, Zenon
  <2>2. /\ Abs!edhoc4_r_handle_msg1(AbsCtx(0, r, FALSE), Data(m)) = AbsCtx(i, r, FALSE)
        /\ Abs!edhoc03_r_handle_msg1(AbsCtx(0, r, FALSE), Data(m)) = AbsCtx(i, r, FALSE)
    BY <1>3, AbsMsg1
  <2>3. QED
    BY <2>1, <2>2, Zenon
<1>6. /\ resp' = [resp EXCEPT ![r] = [c |-> d, abs |-> a]]
      /\ msgs' = msgs \cup {m2} /\ init' = init
  <2>1. CASE k = 4
    BY <1>3, <1>5, <2>1, Zenon DEF HandleMsg1, Out2
  <2>2. CASE k # 4
    BY <1>3, <1>5, <2>2, Zenon DEF HandleMsg1, Out2
  <2>3. QED
    BY <2>1, <2>2, Zenon
<1>. HIDE DEF d, x, a, m2
<1>7. resp'[r].c = d /\ resp'[r].abs = a
  BY <1>6, SetResp
<1>8. d.step # 0 /\ d.step \in {1, -1} /\ resp[r].c.step # 2
  BY <1>1, <1>4
<1>9. RespIs(r)'
  BY <1>2, <1>k, <1>4, <1>6, <1>7, <1>8, Zenon DEF RespIs, Started, a
<1>10. MsgIs(m2)'
  <2>1. MsgOf(m2, t, i, r, M2(i, r, k))
    BY <1>4, MadeParts DEF m2, a
  <2>2. MsgIs2(m2, i, r)'
    BY <1>k, <1>6, <2>1, Zenon DEF MsgIs2
  <2>3. Started(i)'
    BY <1>2, <1>6, Zenon DEF Started
  <2>4. QED
    BY <2>2, <2>3, Zenon DEF MsgIs
<1>11. QED
  BY <1>4, <1>6, <1>8, <1>9, <1>10, RespStep

(* The two handlers of message_2. *)
Out3(c, i, r, k) == IF k = 4 THEN i_handle_msg2(c, M2(i, r, k)) ELSE i03_handle_msg2(c, M2(i, r, k))

LEMMA MakeMsg3 ==
    ASSUME NEW c, NEW i, NEW r, NEW k, IsCtx(c), HasSent1(c, i, k)
    PROVE  /\ Out3(c, i, r, k).msg = M3(i, r, k)
           /\ IsCtx(Out3(c, i, r, k).ctx) /\ Out3(c, i, r, k).ctx.step = 2
           /\ k = 4 => Out3(c, i, r, k).ctx.done = c.done
           /\ k # 4 => Out3(c, i, r, k).ctx.done = TRUE
           /\ HasSent3(Out3(c, i, r, k).ctx, i, r, k)
<1>1. CASE k = 4
  <2>. DEFINE o == i_handle_msg2(c, M2(i, r, 4))
  <2>1. /\ o.msg = M3(i, r, 4) /\ IsCtx(o.ctx) /\ o.ctx.step = 2 /\ o.ctx.done = c.done
        /\ HasSent3(o.ctx, i, r, 4)
    BY <1>1, HandlesMsg2
  <2>2. Out3(c, i, r, k) = o
    BY <1>1, Zenon DEF Out3
  <2>. HIDE DEF o
  <2>3. QED
    BY <1>1, <2>1, <2>2
<1>2. CASE k # 4
  <2>. DEFINE o == i03_handle_msg2(c, M2(i, r, k))
  <2>1. /\ o.msg = M3(i, r, k) /\ IsCtx(o.ctx) /\ o.ctx.step = 2 /\ o.ctx.done = TRUE
        /\ HasSent3(o.ctx, i, r, k)
    BY <1>2, HandlesClassic2
  <2>2. Out3(c, i, r, k) = o
    BY <1>2, Zenon DEF Out3
  <2>. HIDE DEF o
  <2>3. QED
    BY <1>2, <2>1, <2>2
<1>3. QED
  BY <1>1, <1>2

LEMMA HandleMsg2Keeps ==
    ASSUME Canonical, NEW i \in Inits, NEW m \in msgs, HandleMsg2(i, m)
    PROVE  Canonical'
<1>c. PICK c : c = init[i].c
  OBVIOUS
<1>k. PICK k : k = c.method
  OBVIOUS
<1>1. init[i].c.step = 1 /\ Accepts2(i, m)
  BY DEF HandleMsg2
<1>2. InitIs(i) /\ IsCtx(init[i].c) /\ MsgIs(m)
  BY DEF Canonical, Shapes, IsRun
<1>3. HasSent1(c, i, k) /\ init[i].abs = AbsCtx(i, 0, FALSE) /\ c.done = FALSE
  BY <1>c, <1>k, <1>1, <1>2, InitAt1, Zenon
<1>4. PICK r \in Resps : MsgIs2(m, i, r)
  BY <1>1, <1>2, Decides2
<1>5. m.term = M2(i, r, k) /\ Data(m).msg.sid = r
  <2>1. "msg1" \in Abs!MsgTypes
    BY DEF Abs!MsgTypes
  <2>2. m.term = M2(i, r, k)
    BY <1>c, <1>k, <1>4 DEF MsgIs2, MsgOf
  <2>3. Data(m).msg.sid = r
    BY <1>4, <2>1, Msg2Parts DEF Fmt2
  <2>4. QED
    BY <2>2, <2>3
<1>. DEFINE d == Out3(c, i, r, k).ctx
            x == Out3(c, i, r, k).msg
            t == IF k = 4 THEN "msg3" ELSE "classic3"
            a == AbsCtx(i, r, k # 4)
            m3 == Made(t, a, x)
<1>6. /\ x = M3(i, r, k) /\ IsCtx(d) /\ d.step = 2 /\ d.done = (k # 4) /\ HasSent3(d, i, r, k)
  <2>1. IsCtx(c)
    BY <1>c, <1>2
  <2>2. HasSent1(c, i, k)
    BY <1>3
  <2>3. /\ x = M3(i, r, k) /\ IsCtx(d) /\ d.step = 2 /\ HasSent3(d, i, r, k)
        /\ (k = 4 => d.done = c.done) /\ (k # 4 => d.done = TRUE)
    BY <2>1, <2>2, MakeMsg3
  <2>. HIDE DEF d, x
  <2>4. QED
    BY <1>3, <2>3
<1>7. /\ Abs!edhoc4_i_handle_msg2(init[i].abs, Data(m)) = AbsCtx(i, r, FALSE)
      /\ Abs!edhoc03_i_handle_msg2(init[i].abs, Data(m)) = AbsCtx(i, r, TRUE)
  <2>1. /\ Abs!edhoc4_i_handle_msg2(AbsCtx(i, 0, FALSE), Data(m)) = AbsCtx(i, r, FALSE)
        /\ Abs!edhoc03_i_handle_msg2(AbsCtx(i, 0, FALSE), Data(m)) = AbsCtx(i, r, TRUE)
    BY <1>5, AbsMsg2
  <2>2. QED
    BY <1>3, <2>1, Zenon
<1>8. /\ init' = [init EXCEPT ![i] = [c |-> d, abs |-> a]]
      /\ msgs' = msgs \cup {m3} /\ resp' = resp
  <2>1. CASE k = 4
    <3>1. a = AbsCtx(i, r, FALSE)
      BY <2>1
    <3>. HIDE DEF a
    <3>2. QED
      BY <1>c, <1>k, <1>5, <1>7, <2>1, <3>1, Zenon DEF HandleMsg2, Out3
  <2>2. CASE k # 4
    <3>1. a = AbsCtx(i, r, TRUE)
      BY <2>2
    <3>. HIDE DEF a
    <3>2. QED
      BY <1>c, <1>k, <1>5, <1>7, <2>2, <3>1, Zenon DEF HandleMsg2, Out3
  <2>3. QED
    BY <2>1, <2>2, Zenon
<1>. HIDE DEF d, x, a, m3
<1>9. init'[i].c = d /\ init'[i].abs = a
  BY <1>8, SetInit
<1>10. d.step # 0 /\ d.step \in {2, -1} /\ d.method = k
  BY <1>6 DEF HasSent3
<1>11. InitIs(i)'
  BY <1>6, <1>9, <1>10, Zenon DEF InitIs, a
<1>12. MsgIs(m3)'
  <2>1. MsgOf(m3, t, i, r, M3(i, r, k))
    BY <1>6, MadeParts, Zenon DEF m3, a
  <2>2. MsgIs3(m3, i, r)'
    BY <1>9, <1>10, <2>1, Zenon DEF MsgIs3
  <2>3. Started(i)'
    BY <1>9, <1>10, Zenon DEF Started
  <2>4. QED
    BY <2>2, <2>3, Zenon DEF MsgIs
<1>13. d.method = init[i].c.method
  BY <1>c, <1>k, <1>10
<1>14. QED
  BY <1>6, <1>8, <1>10, <1>11, <1>12, <1>13, InitStep

LEMMA HandleMsg3Keeps ==
    ASSUME Canonical, NEW r \in Resps, NEW m \in msgs, HandleMsg3(r, m)
    PROVE  Canonical'
<1>c. PICK c : c = resp[r].c
  OBVIOUS
<1>1. resp[r].c.step = 1 /\ resp[r].c.method = 4 /\ Accepts3(r, m)
  BY DEF HandleMsg3
<1>2. RespIs(r) /\ IsCtx(resp[r].c) /\ MsgIs(m)
  BY DEF Canonical, Shapes, IsRun
<1>3. PICK i \in Inits : /\ Started(i) /\ HasSent2(resp[r].c, i, r, init[i].c.method)
                         /\ resp[r].c.method = init[i].c.method
                         /\ resp[r].abs = AbsCtx(i, r, FALSE)
  BY <1>1, <1>2, RespAt1
<1>4. HasSent2(c, i, r, 4) /\ init[i].c.method = 4
  BY <1>c, <1>1, <1>3
<1>5. m.term = M3(i, r, 4)
  <2>1. MsgIs3(m, i, r)
    BY <1>1, <1>2, <1>3, Decides3
  <2>2. QED
    BY <1>4, <2>1 DEF MsgIs3, MsgOf
<1>. DEFINE o == r_handle_msg3(c, M3(i, r, 4))
            d == o.ctx
            x == o.msg
            a == AbsCtx(i, r, TRUE)
            m4 == Made("msg4", a, x)
<1>6. /\ x = M4(i, r) /\ IsCtx(d) /\ d.step = 2 /\ d.done = TRUE /\ HasVerified3(d, i, r, 4)
  <2>1. IsCtx(c)
    BY <1>c, <1>2
  <2>2. HasSent2(c, i, r, 4)
    BY <1>4
  <2>3. QED
    BY <2>1, <2>2, HandlesMsg3
<1>7. Abs!edhoc4_r_handle_msg3(resp[r].abs) = a
  BY <1>3, AbsDone, Zenon
<1>8. /\ resp' = [resp EXCEPT ![r] = [c |-> d, abs |-> a]]
      /\ msgs' = msgs \cup {m4} /\ init' = init
  BY <1>c, <1>5, <1>7, Zenon DEF HandleMsg3
<1>. HIDE DEF o, d, x, a, m4
<1>9. resp'[r].c = d /\ resp'[r].abs = a
  BY <1>8, SetResp
<1>10. RespIs(r)'
  BY <1>3, <1>4, <1>6, <1>8, <1>9, Zenon DEF RespIs, Started, a
<1>11. MsgIs(m4)'
  <2>1. MsgOf(m4, "msg4", i, r, M4(i, r))
    BY <1>6, MadeParts, Zenon DEF m4, a
  <2>2. MsgIs4(m4, i, r)'
    BY <1>4, <1>6, <1>8, <1>9, <2>1, Zenon DEF MsgIs4, a
  <2>3. Started(i)'
    BY <1>3, <1>8, Zenon DEF Started
  <2>4. QED
    BY <2>2, <2>3, Zenon DEF MsgIs
<1>12. resp[r].c.step # 2
  BY <1>1
<1>13. QED
  BY <1>6, <1>8, <1>10, <1>11, <1>12, RespStep

LEMMA HandleClassic3Keeps ==
    ASSUME Canonical, NEW r \in Resps, NEW m \in msgs, HandleClassic3(r, m)
    PROVE  Canonical'
<1>c. PICK c : c = resp[r].c
  OBVIOUS
<1>k. PICK k : k = c.method
  OBVIOUS
<1>1. resp[r].c.step = 1 /\ k # 4 /\ Accepts3(r, m)
  BY <1>c, <1>k DEF HandleClassic3
<1>2. RespIs(r) /\ IsCtx(resp[r].c) /\ MsgIs(m)
  BY DEF Canonical, Shapes, IsRun
<1>3. PICK i \in Inits : /\ Started(i) /\ HasSent2(resp[r].c, i, r, init[i].c.method)
                         /\ resp[r].c.method = init[i].c.method
                         /\ resp[r].abs = AbsCtx(i, r, FALSE)
  BY <1>1, <1>2, RespAt1
<1>4. HasSent2(c, i, r, k) /\ init[i].c.method = k
  BY <1>c, <1>k, <1>3
<1>5. m.term = M3(i, r, k)
  <2>1. MsgIs3(m, i, r)
    BY <1>1, <1>2, <1>3, Decides3
  <2>2. QED
    BY <1>4, <2>1 DEF MsgIs3, MsgOf
<1>. DEFINE d == r03_handle_msg3(c, M3(i, r, k))
            a == AbsCtx(i, r, TRUE)
<1>6. IsCtx(d) /\ d.step = 2 /\ d.done = TRUE /\ HasVerified3(d, i, r, k)
  <2>1. IsCtx(c)
    BY <1>c, <1>2
  <2>2. k # 4 /\ HasSent2(c, i, r, k)
    BY <1>1, <1>4
  <2>3. QED
    BY <2>1, <2>2, HandlesClassic3
<1>7. Abs!edhoc03_r_handle_msg3(resp[r].abs) = a
  BY <1>3, AbsDone, Zenon
<1>8. /\ resp' = [resp EXCEPT ![r] = [c |-> d, abs |-> a]]
      /\ msgs' = msgs /\ init' = init
  BY <1>c, <1>5, <1>7, Zenon DEF HandleClassic3
<1>. HIDE DEF d, a
<1>9. resp'[r].c = d /\ resp'[r].abs = a
  BY <1>8, SetResp
<1>10. RespIs(r)'
  BY <1>3, <1>4, <1>6, <1>8, <1>9, Zenon DEF RespIs, Started, a
<1>11. resp[r].c.step # 2
  BY <1>1
<1>12. QED
  BY <1>6, <1>8, <1>10, <1>11, RespStep

LEMMA HandleMsg4Keeps ==
    ASSUME Canonical, NEW i \in Inits, NEW m \in msgs, HandleMsg4(i, m)
    PROVE  Canonical'
<1>c. PICK c : c = init[i].c
  OBVIOUS
<1>1. init[i].c.step = 2 /\ init[i].c.method = 4 /\ Accepts4(i, m)
  BY DEF HandleMsg4
<1>2. InitIs(i) /\ IsCtx(init[i].c) /\ MsgIs(m)
  BY DEF Canonical, Shapes, IsRun
<1>3. PICK r \in Resps : HasSent3(c, i, r, 4) /\ init[i].abs = AbsCtx(i, r, FALSE)
  <2>1. PICK r \in Resps : /\ HasSent3(init[i].c, i, r, init[i].c.method)
                           /\ init[i].abs = AbsCtx(i, r, init[i].c.method # 4)
    BY <1>1, <1>2, InitAt2
  <2>2. HasSent3(c, i, r, 4) /\ init[i].abs = AbsCtx(i, r, FALSE)
    BY <1>c, <1>1, <2>1
  <2>3. QED
    BY <2>2
<1>4. MsgIs4(m, i, r)
  BY <1>c, <1>1, <1>2, <1>3, Decides4
<1>5. /\ m.term = M4(i, r) /\ resp[r].c.step = 2 /\ resp[r].c.done = TRUE
      /\ resp[r].abs = AbsCtx(i, r, TRUE) /\ HasVerified3(resp[r].c, i, r, 4)
  BY <1>4, Zenon DEF MsgIs4, MsgOf
<1>. DEFINE d == i_handle_msg4(c, M4(i, r))
            a == AbsCtx(i, r, TRUE)
<1>6. /\ IsCtx(d) /\ d.step = 3 /\ d.done = TRUE /\ HasSent3(d, i, r, 4)
      /\ d.method = 4 /\ d.peerNew = Fresh("new", "R", r)
  <2>1. IsCtx(c)
    BY <1>c, <1>2
  <2>2. QED
    BY <1>3, <2>1, HandlesMsg4
<1>7. Abs!edhoc4_i_handle_msg4(init[i].abs) = a
  BY <1>3, AbsDone, Zenon
<1>8. /\ init' = [init EXCEPT ![i] = [c |-> d, abs |-> a]]
      /\ msgs' = msgs /\ resp' = resp
  BY <1>c, <1>5, <1>7, Zenon DEF HandleMsg4
<1>. HIDE DEF d, a
<1>9. init'[i].c = d /\ init'[i].abs = a
  BY <1>8, SetInit
<1>10. InitIs(i)'
  BY <1>5, <1>6, <1>8, <1>9, Zenon DEF InitIs, a
<1>11. d.step # 0 /\ d.method = init[i].c.method
  BY <1>1, <1>6
<1>12. QED
  BY <1>6, <1>8, <1>10, <1>11, InitStep

LEMMA AbortedCtx ==
    ASSUME NEW c, IsCtx(c)
    PROVE  LET d == [c EXCEPT !.step = -1]
           IN  /\ IsCtx(d) /\ d.step = -1 /\ d.done = c.done /\ d.msk = c.msk /\ d.run = c.run
               /\ d.method = c.method /\ d.self = c.self /\ d.peer = c.peer /\ d.hmsg1 = c.hmsg1
               /\ d.ssb = c.ssb /\ d.ssa = c.ssa /\ d.prk3e2m = c.prk3e2m /\ d.th3 = c.th3
               /\ d.prk4e3m = c.prk4e3m /\ d.th4 = c.th4 /\ d.newKey = c.newKey
<1>. DEFINE n == -1
<1>. HIDE DEF n
<1>1. LET d == [c EXCEPT !.step = n]
      IN  /\ IsCtx(d) /\ d.step = n /\ d.done = c.done /\ d.msk = c.msk /\ d.run = c.run
          /\ d.method = c.method /\ d.self = c.self /\ d.peer = c.peer /\ d.hmsg1 = c.hmsg1
          /\ d.ssb = c.ssb /\ d.ssa = c.ssa /\ d.prk3e2m = c.prk3e2m /\ d.th3 = c.th3
          /\ d.prk4e3m = c.prk4e3m /\ d.th4 = c.th4 /\ d.newKey = c.newKey
  BY DEF IsCtx, CtxFields
<1>2. QED
  BY <1>1, Zenon DEF n

(* Giving up changes the step alone. *)
LEMMA AbortedRun ==
    ASSUME NEW x, IsRun(x)
    PROVE  [x EXCEPT !.c.step = -1] = [c |-> [x.c EXCEPT !.step = -1], abs |-> x.abs]
<1>. DEFINE d == [x.c EXCEPT !.step = -1]
<1>1. [x EXCEPT !.c.step = -1] = [x EXCEPT !.c = d]
  OBVIOUS
<1>. HIDE DEF d
<1>2. x = [f \in {"c", "abs"} |-> x[f]]
  BY DEF IsRun
<1>3. [x EXCEPT !.c = d] = [c |-> d, abs |-> x.abs]
  BY <1>2
<1>4. QED
  BY <1>1, <1>3 DEF d

LEMMA AbortInitKeeps ==
    ASSUME Canonical, NEW i \in Inits, AbortInit(i)
    PROVE  Canonical'
<1>c. PICK c : c = init[i].c
  OBVIOUS
<1>a. PICK a : a = init[i].abs
  OBVIOUS
<1>. DEFINE d == [c EXCEPT !.step = -1]
            k == c.method
<1>1. InitIs(i) /\ IsCtx(c) /\ IsRun(init[i]) /\ init = [j \in Inits |-> init[j]]
  BY <1>c DEF Canonical, Shapes, IsRun
<1>2. init' = [init EXCEPT ![i] = [c |-> d, abs |-> a]] /\ resp' = resp /\ msgs' = msgs
  <2>1. init' = [init EXCEPT ![i].c.step = -1] /\ resp' = resp /\ msgs' = msgs
    BY DEF AbortInit
  <2>2. [init EXCEPT ![i].c.step = -1] = [init EXCEPT ![i] = [init[i] EXCEPT !.c.step = -1]]
    BY <1>1
  <2>3. [init[i] EXCEPT !.c.step = -1] = [c |-> d, abs |-> a]
    BY <1>c, <1>a, <1>1, AbortedRun, Zenon
  <2>4. QED
    BY <2>1, <2>2, <2>3, Zenon
<1>3. /\ IsCtx(d) /\ d.step = -1 /\ d.done = c.done /\ d.msk = c.msk /\ d.run = c.run
      /\ d.method = k /\ d.self = c.self /\ d.peer = c.peer /\ d.hmsg1 = c.hmsg1
      /\ d.ssb = c.ssb /\ d.prk4e3m = c.prk4e3m /\ d.th4 = c.th4 /\ d.newKey = c.newKey
  BY <1>1, AbortedCtx, Zenon
<1>4. init[i].c.step \in {1, 2}
  BY DEF AbortInit
<1>. HIDE DEF d, k
<1>5. init'[i].c = d /\ init'[i].abs = a
  BY <1>2, SetInit
<1>6. ASSUME init[i].c.step = 1 PROVE InitIs(i)'
  <2>1. HasSent1(c, i, k) /\ a = AbsCtx(i, 0, FALSE) /\ c.done = FALSE /\ c.msk = NoTerm
    BY <1>c, <1>a, <1>1, <1>6, InitAt1, Zenon DEF k
  <2>2. HasSent1(d, i, k)
    BY <1>3, <2>1, Zenon DEF HasSent1
  <2>3. d.step \in {1, -1} /\ d.done = FALSE /\ d.msk = NoTerm
    BY <1>3, <2>1
  <2>4. QED
    BY <1>3, <1>5, <2>1, <2>2, <2>3, Zenon DEF InitIs
<1>7. ASSUME init[i].c.step = 2 PROVE InitIs(i)'
  <2>1. PICK r \in Resps : HasSent3(c, i, r, k) /\ c.done = (k # 4) /\ a = AbsCtx(i, r, k # 4)
    BY <1>c, <1>a, <1>1, <1>7, InitAt2, Zenon DEF k
  <2>2. HasSent3(d, i, r, k)
    BY <1>3, <2>1, Zenon DEF HasSent3
  <2>3. d.step \in {2, -1} /\ d.done = (k # 4)
    BY <1>3, <2>1
  <2>4. QED
    BY <1>3, <1>5, <2>1, <2>2, <2>3, Zenon DEF InitIs
<1>8. InitIs(i)'
  BY <1>4, <1>6, <1>7
<1>9. d.step # 0 /\ d.method = init[i].c.method
  BY <1>c, <1>3 DEF k
<1>10. \A m \in msgs' : m \in msgs \/ MsgIs(m)'
  BY <1>2
<1>11. QED
  BY <1>2, <1>3, <1>8, <1>9, <1>10, InitStep

LEMMA AbortRespKeeps ==
    ASSUME Canonical, NEW r \in Resps, AbortResp(r)
    PROVE  Canonical'
<1>c. PICK c : c = resp[r].c
  OBVIOUS
<1>a. PICK a : a = resp[r].abs
  OBVIOUS
<1>. DEFINE d == [c EXCEPT !.step = -1]
<1>1. RespIs(r) /\ IsCtx(c) /\ IsRun(resp[r]) /\ resp = [s \in Resps |-> resp[s]]
  BY <1>c DEF Canonical, Shapes, IsRun
<1>2. resp' = [resp EXCEPT ![r] = [c |-> d, abs |-> a]] /\ init' = init /\ msgs' = msgs
  <2>1. resp' = [resp EXCEPT ![r].c.step = -1] /\ init' = init /\ msgs' = msgs
    BY DEF AbortResp
  <2>2. [resp EXCEPT ![r].c.step = -1] = [resp EXCEPT ![r] = [resp[r] EXCEPT !.c.step = -1]]
    BY <1>1
  <2>3. [resp[r] EXCEPT !.c.step = -1] = [c |-> d, abs |-> a]
    BY <1>c, <1>a, <1>1, AbortedRun, Zenon
  <2>4. QED
    BY <2>1, <2>2, <2>3, Zenon
<1>3. /\ IsCtx(d) /\ d.step = -1 /\ d.done = c.done /\ d.msk = c.msk /\ d.run = c.run
      /\ d.method = c.method /\ d.peer = c.peer /\ d.ssa = c.ssa
      /\ d.prk3e2m = c.prk3e2m /\ d.th3 = c.th3
  BY <1>1, AbortedCtx, Zenon
<1>4. resp[r].c.step = 1
  BY DEF AbortResp
<1>. HIDE DEF d
<1>5. resp'[r].c = d /\ resp'[r].abs = a
  BY <1>2, SetResp
<1>6. PICK i \in Inits : /\ Started(i) /\ HasSent2(c, i, r, init[i].c.method)
                         /\ a = AbsCtx(i, r, FALSE) /\ c.done = FALSE /\ c.msk = NoTerm
  BY <1>c, <1>a, <1>1, <1>4, RespAt1, Zenon
<1>7. HasSent2(d, i, r, init[i].c.method)
  BY <1>3, <1>6, Zenon DEF HasSent2
<1>8. d.step \in {1, -1} /\ d.done = FALSE /\ d.msk = NoTerm
  BY <1>3, <1>6
<1>9. RespIs(r)'
  BY <1>2, <1>5, <1>6, <1>7, <1>8, Zenon DEF RespIs, Started
<1>10. resp[r].c.step # 2
  BY <1>4
<1>11. \A m \in msgs' : m \in msgs \/ MsgIs(m)'
  BY <1>2
<1>12. QED
  BY <1>2, <1>3, <1>9, <1>10, <1>11, RespStep

LEMMA InitCanonical == Init => Canonical
<1>. SUFFICES ASSUME Init PROVE Canonical
  OBVIOUS
<1>1. ASSUME NEW i \in Inits
      PROVE  init[i] = [c |-> init_initiator(i), abs |-> Abs!NoCtx]
  BY DEF Init, NoRun
<1>2. ASSUME NEW r \in Resps
      PROVE  resp[r] = [c |-> init_responder(r), abs |-> Abs!NoCtx]
  BY DEF Init, NoRun
<1>3. Shapes
  <2>1. init = [i \in Inits |-> init[i]] /\ resp = [r \in Resps |-> resp[r]]
    BY DEF Init
  <2>2. ASSUME NEW i \in Inits PROVE IsRun(init[i])
    <3>1. IsRun([c |-> init_initiator(i), abs |-> Abs!NoCtx])
      BY InitiatorParts, RunShape
    <3>2. QED
      BY <1>1, <3>1, Zenon
  <2>3. ASSUME NEW r \in Resps PROVE IsRun(resp[r])
    <3>1. IsRun([c |-> init_responder(r), abs |-> Abs!NoCtx])
      BY ResponderParts, RunShape
    <3>2. QED
      BY <1>2, <3>1, Zenon
  <2>4. QED
    BY <2>1, <2>2, <2>3, Zenon DEF Shapes
<1>4. ASSUME NEW i \in Inits PROVE InitIs(i)
  <2>1. init[i].c = init_initiator(i) /\ init[i].abs = Abs!NoCtx
    <3>. DEFINE c == init_initiator(i)
                a == Abs!NoCtx
    <3>. HIDE DEF c, a
    <3>1. init[i] = [c |-> c, abs |-> a]
      BY <1>1 DEF c, a
    <3>2. QED
      BY <3>1 DEF c, a
  <2>2. QED
    BY <2>1, Zenon DEF InitIs
<1>5. ASSUME NEW r \in Resps PROVE RespIs(r)
  <2>1. resp[r].c = init_responder(r) /\ resp[r].abs = Abs!NoCtx
    <3>. DEFINE c == init_responder(r)
                a == Abs!NoCtx
    <3>. HIDE DEF c, a
    <3>1. resp[r] = [c |-> c, abs |-> a]
      BY <1>2 DEF c, a
    <3>2. QED
      BY <3>1 DEF c, a
  <2>2. QED
    BY <2>1, Zenon DEF RespIs
<1>6. QED
  BY <1>3, <1>4, <1>5 DEF Canonical, Init

LEMMA NextCanonical == Canonical /\ [Next]_vars => Canonical'
<1>. SUFFICES ASSUME Canonical, [Next]_vars PROVE Canonical'
  OBVIOUS
<1>1. ASSUME NEW i \in Inits, NEW k \in Methods, StartRun(i, k) PROVE Canonical'
  BY <1>1, StartRunKeeps
<1>2. ASSUME NEW r \in Resps, NEW m \in msgs,
             HandleMsg1(r, m) \/ HandleMsg3(r, m) \/ HandleClassic3(r, m)
      PROVE  Canonical'
  BY <1>2, HandleMsg1Keeps, HandleMsg3Keeps, HandleClassic3Keeps
<1>3. ASSUME NEW i \in Inits, NEW m \in msgs, HandleMsg2(i, m) \/ HandleMsg4(i, m)
      PROVE  Canonical'
  BY <1>3, HandleMsg2Keeps, HandleMsg4Keeps
<1>4. ASSUME NEW i \in Inits, AbortInit(i) PROVE Canonical'
  BY <1>4, AbortInitKeeps
<1>5. ASSUME NEW r \in Resps, AbortResp(r) PROVE Canonical'
  BY <1>5, AbortRespKeeps
<1>6. CASE UNCHANGED vars
  <2>1. init' = init /\ resp' = resp /\ msgs' = msgs
    BY <1>6 DEF vars
  <2>2. Shapes'
    BY <2>1 DEF Canonical, Shapes
  <2>3. /\ \A i \in Inits : init'[i] = init[i] => InitIs(i)'
        /\ \A r \in Resps : resp'[r] = resp[r] => RespIs(r)'
        /\ \A m \in msgs : MsgIs(m)'
    BY <2>1, Stable, Zenon DEF Started
  <2>4. QED
    BY <2>1, <2>2, <2>3 DEF Canonical
<1>7. QED
  BY <1>1, <1>2, <1>3, <1>4, <1>5, <1>6 DEF Next

(* Every context and every message is the one of some run, whatever messages
   of other runs, methods and attempts the handlers are given. *)
THEOREM CanonicalAlways == Spec => []Canonical
<1>1. QED
  BY InitCanonical, NextCanonical, PTL DEF Spec

(* edhoc4.c and edhoc03.c accept exactly the messages of their own run, so
   module Edhoc, which all protocol modules rest on, says what they do. *)
THEOREM AcceptsOwnOnlyAlways == Spec => []AcceptsOwnOnly
<1>1. QED
  BY CanonicalAlways, CanonicalAccepts, PTL

(* derive_prk_out_and_msk: two ends export the same MSK if and only if they
   took part in the same run. *)
THEOREM MskOfOneRunAlways == Spec => []MskOfOneRun
<1>1. QED
  BY CanonicalAlways, CanonicalMsk, PTL

(* EAD_3 and EAD_4: when the initiator is done, both ends of its run hold the
   next static key of the other. *)
THEOREM RatchetKeysExchangedAlways == Spec => []RatchetKeysExchanged
<1>1. QED
  BY CanonicalAlways, CanonicalRatchet, PTL

=============================================================================
