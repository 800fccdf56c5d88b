------------------------------ MODULE EdhocKeys ------------------------------
(***************************************************************************)
(* The key schedules of EDHOC method 4 (edhoc4.c) and of the classical     *)
(* methods 0 to 3 (edhoc03.c), as terms.  Several runs of both ends share  *)
(* the static credentials, and any message made so far may reach any run   *)
(* that waits for one, as when sessions interleave or packets are late.    *)
(* The run checks that the handlers accept exactly what module Edhoc says  *)
(* they accept, which is all that the protocol modules know of them.       *)
(*                                                                         *)
(* A key pair is named by its secret.  Hashes, extracted and expanded keys *)
(* are tuples of their inputs under a label, so two are equal only if all  *)
(* their inputs are.  Formats differ in length, so a handler tells them    *)
(* apart.  The connection identifiers are fixed bytes and left out.        *)
(***************************************************************************)
EXTENDS Integers

CONSTANTS
    Inits, Resps,       \* bound: runs of the initiator and of the responder
    Methods,            \* the methods initiators use
    NoMsg, Junk         \* see EdhocFrag

ASSUME RunsAssumption ==
    /\ Inits \subseteq Nat \ {0} /\ Resps \subseteq Nat \ {0}
    /\ Methods \subseteq 0..4

(* What the protocol modules know of the handlers. *)
Abs == INSTANCE Edhoc WITH
    WireMax <- 4, HdrLen <- 1, LenLen <- 2, MaxMsg <- 1,
    Msg1Len <- 1, Msg2Len <- 1, Msg3Len <- 1, Msg4Len <- 1,
    Classic1Len <- 1, Classic2Len <- 1, Classic3Len <- 1

(* The null values are no message of module Edhoc. *)
ASSUME NullAssumption ==
    {NoMsg, Junk} \cap [type: Abs!MsgTypes, eph: Nat, sid: Nat] = {}

VARIABLES
    init,       \* init[i]: the context of initiator run i
    resp,       \* resp[r]: the context of responder run r
    msgs        \* the messages made, each with what it is to module Edhoc

vars == <<init, resp, msgs>>

-----------------------------------------------------------------------------
(* Primitives *)

Static(end) == <<"static", end, 0>>

Fresh(kind, end, run) == <<kind, end, run>>

(* xwing_encaps: the ciphertext; only pk's secret yields the shared secret. *)
Encaps(pk, rnd) == [pk |-> pk, rnd |-> rnd]

(* xwing_decaps never fails: a ciphertext for another key gives another secret. *)
Decaps(ct, sk) == IF ct.pk = sk THEN <<"ss", ct>> ELSE <<"ssWrong", ct, sk>>

Dh(a, b) == <<"dh", {a, b}>>

hkdf_extract(label, salt, ikm) == <<label, salt, ikm>>

aead_seal(prk, th, pt) == [prk |-> prk, th |-> th, pt |-> pt]

aead_open_ok(prk, th, ct) == ct.prk = prk /\ ct.th = th

compute_mac(prk, th, pub, ead) == <<"mac", prk, th, pub, ead>>

sign(sk, th, mac) == <<"sig", sk, th, mac>>

NoTerm == << >>

derive_msk(prk4e3m, th4) == <<"msk", prk4e3m, th4>>

-----------------------------------------------------------------------------
(* Contexts.  run names the run's own fresh secrets; step counts messages. *)

NewCtx(self, peer, run) ==
    [run |-> run, step |-> 0, method |-> 0, self |-> self, peer |-> peer,
     hmsg1 |-> NoTerm, ssb |-> NoTerm, ssa |-> NoTerm, prk3e2m |-> NoTerm,
     th3 |-> NoTerm, prk4e3m |-> NoTerm, th4 |-> NoTerm, msk |-> NoTerm,
     newKey |-> NoTerm, peerNew |-> NoTerm, done |-> FALSE]

(* The credential files: no code ever writes the exchanged keys to them. *)
init_initiator(i) == NewCtx(Static("I"), Static("R"), i)

init_responder(r) == NewCtx(Static("R"), Static("I"), r)

(* Who signs and who uses a static Diffie-Hellman key, by method. *)
method_init_auth(m) == IF m \in {0, 1} THEN "SIG" ELSE "STAT"

method_resp_auth(m) == IF m \in {0, 2} THEN "SIG" ELSE "STAT"

-----------------------------------------------------------------------------
(* Method 4 *)

Th1(pkX, ctB) == <<"th1", pkX, ctB>>

(* edhoc4_i_make_msg1 *)
i_make_msg1(c) ==
    LET pkX == Fresh("eph", "I", c.run)
        ctB == Encaps(c.peer, <<"rndB", c.run>>)
        ssb == <<"ss", ctB>>
        th1 == Th1(pkX, ctB)
        m   == [fmt |-> "msg1", ctB |-> ctB, pkX |-> pkX,
                ct1 |-> aead_seal(hkdf_extract("prk1e", th1, ssb), th1, <<"method", 4>>)]
    IN  [ctx |-> [c EXCEPT !.step = 1, !.method = 4, !.ssb = ssb, !.hmsg1 = <<"H", m>>],
         msg |-> m]

Th2(hmsg1, share) == <<"th2", hmsg1, share>>

Th3(th2, pt2) == <<"th3", th2, pt2>>

Th4(th3, pt3) == <<"th4", th3, pt3>>

(* edhoc4_r_handle_msg1: the static key opens PT1. *)
r_handle_msg1_ok(c, m) ==
    LET th1 == Th1(m.pkX, m.ctB)
    IN  aead_open_ok(hkdf_extract("prk1e", th1, Decaps(m.ctB, c.self)), th1, m.ct1)

r_handle_msg1(c, m) ==
    LET ssb  == Decaps(m.ctB, c.self)
        cte  == Encaps(m.pkX, <<"rndE", c.run>>)
        th2  == Th2(<<"H", m>>, cte)
        prk2e == hkdf_extract("prk2e", th2, <<"ss", cte>>)
        prk3e2m == hkdf_extract("prk3e2m", prk2e, ssb)
        ctA  == Encaps(c.peer, <<"rndA", c.run>>)
        mac2 == compute_mac(prk3e2m, th2, "R", NoTerm)
        pt2  == [ctA |-> ctA, mac |-> mac2, sig |-> sign("R", th2, mac2)]
    IN  [ctx |-> [c EXCEPT !.step = 1, !.method = 4, !.ssb = ssb, !.ssa = <<"ss", ctA>>,
                           !.prk3e2m = prk3e2m, !.th3 = Th3(th2, pt2)],
         msg |-> [fmt |-> "msg2", cte |-> cte, ct2 |-> aead_seal(prk2e, th2, pt2)]]

(* edhoc4_i_handle_msg2: decryption, MAC_2 and the signature. *)
i_handle_msg2_ok(c, m) ==
    LET th2   == Th2(c.hmsg1, m.cte)
        prk2e == hkdf_extract("prk2e", th2, Decaps(m.cte, Fresh("eph", "I", c.run)))
        mac2  == compute_mac(hkdf_extract("prk3e2m", prk2e, c.ssb), th2, "R", NoTerm)
    IN  /\ aead_open_ok(prk2e, th2, m.ct2)
        /\ m.ct2.pt.mac = mac2
        /\ m.ct2.pt.sig = sign("R", th2, mac2)

i_handle_msg2(c, m) ==
    LET th2   == Th2(c.hmsg1, m.cte)
        prk2e == hkdf_extract("prk2e", th2, Decaps(m.cte, Fresh("eph", "I", c.run)))
        prk3e2m == hkdf_extract("prk3e2m", prk2e, c.ssb)
        th3   == Th3(th2, m.ct2.pt)
        prk4e3m == hkdf_extract("prk4e3m", prk3e2m, Decaps(m.ct2.pt.ctA, c.self))
        newKey  == Fresh("new", "I", c.run)
        mac3  == compute_mac(prk4e3m, th3, "I", newKey)
        pt3   == [ead |-> newKey, mac |-> mac3, sig |-> sign("I", th3, mac3)]
        th4   == Th4(th3, pt3)
    IN  [ctx |-> [c EXCEPT !.step = 2, !.prk3e2m = prk3e2m, !.th3 = th3, !.prk4e3m = prk4e3m,
                           !.th4 = th4, !.newKey = newKey, !.msk = derive_msk(prk4e3m, th4)],
         msg |-> [fmt |-> "msg3", ct3 |-> aead_seal(prk3e2m, th3, pt3)]]

(* Mutant: the signature is verified over the sender's transcript. *)
Msg3SignatureOnly(c, m) == m.ct3.pt.sig = sign("I", m.ct3.th, m.ct3.pt.mac)

(* edhoc4_r_handle_msg3: decryption, MAC_3 (which binds EAD_3) and the signature. *)
r_handle_msg3_ok(c, m) ==
    LET mac3 == compute_mac(hkdf_extract("prk4e3m", c.prk3e2m, c.ssa), c.th3, "I", m.ct3.pt.ead)
    IN  /\ aead_open_ok(c.prk3e2m, c.th3, m.ct3)
        /\ m.ct3.pt.mac = mac3
        /\ m.ct3.pt.sig = sign("I", c.th3, mac3)

r_handle_msg3(c, m) ==
    LET prk4e3m == hkdf_extract("prk4e3m", c.prk3e2m, c.ssa)
        th4     == Th4(c.th3, m.ct3.pt)
        newKey  == Fresh("new", "R", c.run)
    IN  [ctx |-> [c EXCEPT !.step = 2, !.prk4e3m = prk4e3m, !.th4 = th4, !.done = TRUE,
                           !.newKey = newKey, !.peerNew = m.ct3.pt.ead,
                           !.msk = derive_msk(prk4e3m, th4)],
         msg |-> [fmt |-> "msg4", ct4 |-> aead_seal(prk4e3m, th4, newKey)]]

(* Mutant: the result of aead_open is not looked at. *)
Msg4Unchecked(c, m) == m.fmt = "msg4"

(* edhoc4_i_handle_msg4 *)
i_handle_msg4_ok(c, m) == aead_open_ok(c.prk4e3m, c.th4, m.ct4)

i_handle_msg4(c, m) == [c EXCEPT !.step = 3, !.done = TRUE, !.peerNew = m.ct4.pt]

-----------------------------------------------------------------------------
(* Methods 0 to 3.  An end proves itself with a signature over its MAC, or with
   the MAC alone when its static key is in the key schedule. *)

Extended(auth, label, prk, dh) == IF auth = "STAT" THEN hkdf_extract(label, prk, dh) ELSE prk

Proof(auth, end, prk, th) ==
    LET mac == compute_mac(prk, th, end, NoTerm)
    IN  IF auth = "STAT" THEN mac ELSE sign(end, th, mac)

(* edhoc03_i_make_msg1 *)
i03_make_msg1(c, method) ==
    LET m == [fmt |-> "classic1", method |-> method, gx |-> Fresh("eph", "I", c.run)]
    IN  [ctx |-> [c EXCEPT !.step = 1, !.method = method, !.hmsg1 = <<"H", m>>], msg |-> m]

(* The schedule both ends run up to PRK_3e2m; the shared secrets are theirs. *)
Classic2(method, hmsg1, gy, gxy, grx) ==
    LET th2   == Th2(hmsg1, gy)
        prk2e == hkdf_extract("prk2e", th2, gxy)
    IN  [th2 |-> th2, prk2e |-> prk2e,
         prk3e2m |-> Extended(method_resp_auth(method), "prk3e2m", prk2e, grx)]

(* Mutant: one ephemeral key for all sessions. *)
ResponderEphReused(run) == Fresh("eph", "R", 0)

ResponderEph(run) == Fresh("eph", "R", run)

(* edhoc03_r_handle_msg1 *)
r03_handle_msg1(c, m) ==
    LET gy  == ResponderEph(c.run)
        k   == Classic2(m.method, <<"H", m>>, gy, Dh(gy, m.gx), Dh(c.self, m.gx))
        pt2 == [pub |-> c.self,
                proof |-> Proof(method_resp_auth(m.method), "R", k.prk3e2m, k.th2)]
    IN  [ctx |-> [c EXCEPT !.step = 1, !.method = m.method, !.prk3e2m = k.prk3e2m,
                           !.th3 = Th3(k.th2, pt2)],
         msg |-> [fmt |-> "classic2", gy |-> gy, ct2 |-> aead_seal(k.prk2e, k.th2, pt2)]]

Initiator2(c, m) ==
    LET x == Fresh("eph", "I", c.run)
    IN  Classic2(c.method, c.hmsg1, m.gy, Dh(x, m.gy), Dh(x, m.ct2.pt.pub))

(* edhoc03_i_handle_msg2: decryption, the provisioned key, and the proof. *)
i03_handle_msg2_ok(c, m) ==
    LET k == Initiator2(c, m)
    IN  /\ aead_open_ok(k.prk2e, k.th2, m.ct2)
        /\ m.ct2.pt.pub = c.peer
        /\ m.ct2.pt.proof = Proof(method_resp_auth(c.method), "R", k.prk3e2m, k.th2)

i03_handle_msg2(c, m) ==
    LET k    == Initiator2(c, m)
        auth == method_init_auth(c.method)
        th3  == Th3(k.th2, m.ct2.pt)
        prk4e3m == Extended(auth, "prk4e3m", k.prk3e2m, Dh(c.self, m.gy))
        pt3  == [pub |-> c.self, proof |-> Proof(auth, "I", prk4e3m, th3)]
        th4  == Th4(th3, pt3)
    IN  [ctx |-> [c EXCEPT !.step = 2, !.done = TRUE, !.prk3e2m = k.prk3e2m, !.th3 = th3,
                           !.prk4e3m = prk4e3m, !.th4 = th4, !.msk = derive_msk(prk4e3m, th4)],
         msg |-> [fmt |-> "classic3", ct3 |-> aead_seal(k.prk3e2m, th3, pt3)]]

Responder4(c, m) ==
    Extended(method_init_auth(c.method), "prk4e3m", c.prk3e2m,
             Dh(ResponderEph(c.run), m.ct3.pt.pub))

(* edhoc03_r_handle_msg3 *)
r03_handle_msg3_ok(c, m) ==
    /\ aead_open_ok(c.prk3e2m, c.th3, m.ct3)
    /\ m.ct3.pt.pub = c.peer
    /\ m.ct3.pt.proof = Proof(method_init_auth(c.method), "I", Responder4(c, m), c.th3)

r03_handle_msg3(c, m) ==
    LET th4 == Th4(c.th3, m.ct3.pt)
    IN  [c EXCEPT !.step = 2, !.done = TRUE, !.prk4e3m = Responder4(c, m), !.th4 = th4,
                  !.msk = derive_msk(Responder4(c, m), th4)]

-----------------------------------------------------------------------------
(* The runs *)

NoRun(ctx) == [c |-> ctx, abs |-> Abs!NoCtx]

Init ==
    /\ init = [i \in Inits |-> NoRun(init_initiator(i))]
    /\ resp = [r \in Resps |-> NoRun(init_responder(r))]
    /\ msgs = {}

(* A message with its meaning: its type and the runs it belongs to. *)
Made(type, abs, term) == [abs |-> Abs!EdhocMsg(type, abs.eph, abs.sid), term |-> term]

Data(m) == Abs!Slice(m.abs, 0, 1)

(* The contexts are set up when the run starts, from the files as they are. *)
StartRun(i, method) ==
    LET out == IF method = 4 THEN i_make_msg1(init_initiator(i))
                             ELSE i03_make_msg1(init_initiator(i), method)
        abs == Abs!edhoc4_init_initiator(i)
    IN  /\ init[i].c.step = 0
        /\ init' = [init EXCEPT ![i] = [c |-> out.ctx, abs |-> abs]]
        /\ msgs' = msgs \cup {Made(IF method = 4 THEN "msg1" ELSE "classic1", abs, out.msg)}
        /\ UNCHANGED resp

(* Message_1 chooses the method at the responder. *)
HandleMsg1(r, m) ==
    LET c   == init_responder(r)
        pqc == m.term.fmt # "classic1"
        out == IF pqc THEN r_handle_msg1(c, m.term) ELSE r03_handle_msg1(c, m.term)
        new == Abs!edhoc4_init_responder(r)
        abs == IF pqc THEN Abs!edhoc4_r_handle_msg1(new, Data(m))
                      ELSE Abs!edhoc03_r_handle_msg1(new, Data(m))
    IN  /\ resp[r].c.step = 0
        /\ m.term.fmt \in {"msg1", "classic1"}
        /\ pqc => r_handle_msg1_ok(c, m.term)
        /\ resp' = [resp EXCEPT ![r] = [c |-> out.ctx, abs |-> abs]]
        /\ msgs' = msgs \cup {Made(IF pqc THEN "msg2" ELSE "classic2", abs, out.msg)}
        /\ UNCHANGED init

Accepts2(i, m) ==
    IF init[i].c.method = 4 THEN m.term.fmt = "msg2" /\ i_handle_msg2_ok(init[i].c, m.term)
    ELSE m.term.fmt = "classic2" /\ i03_handle_msg2_ok(init[i].c, m.term)

HandleMsg2(i, m) ==
    LET pqc == init[i].c.method = 4
        out == IF pqc THEN i_handle_msg2(init[i].c, m.term) ELSE i03_handle_msg2(init[i].c, m.term)
        abs == IF pqc THEN Abs!edhoc4_i_handle_msg2(init[i].abs, Data(m))
                      ELSE Abs!edhoc03_i_handle_msg2(init[i].abs, Data(m))
    IN  /\ init[i].c.step = 1
        /\ Accepts2(i, m)
        /\ init' = [init EXCEPT ![i] = [c |-> out.ctx, abs |-> abs]]
        /\ msgs' = msgs \cup {Made(IF pqc THEN "msg3" ELSE "classic3", abs, out.msg)}
        /\ UNCHANGED resp

Accepts3(r, m) ==
    IF resp[r].c.method = 4 THEN m.term.fmt = "msg3" /\ r_handle_msg3_ok(resp[r].c, m.term)
    ELSE m.term.fmt = "classic3" /\ r03_handle_msg3_ok(resp[r].c, m.term)

(* The new static key of the initiator is kept in the context, and nowhere else. *)
HandleMsg3(r, m) ==
    LET out == r_handle_msg3(resp[r].c, m.term)
        abs == Abs!edhoc4_r_handle_msg3(resp[r].abs)
    IN  /\ resp[r].c.step = 1
        /\ resp[r].c.method = 4
        /\ Accepts3(r, m)
        /\ resp' = [resp EXCEPT ![r] = [c |-> out.ctx, abs |-> abs]]
        /\ msgs' = msgs \cup {Made("msg4", abs, out.msg)}
        /\ UNCHANGED init

(* The classical responder has no message_4 to send. *)
HandleClassic3(r, m) ==
    /\ resp[r].c.step = 1
    /\ resp[r].c.method # 4
    /\ Accepts3(r, m)
    /\ resp' = [resp EXCEPT ![r] = [c |-> r03_handle_msg3(resp[r].c, m.term),
                                    abs |-> Abs!edhoc03_r_handle_msg3(resp[r].abs)]]
    /\ UNCHANGED <<init, msgs>>

Accepts4(i, m) == m.term.fmt = "msg4" /\ i_handle_msg4_ok(init[i].c, m.term)

HandleMsg4(i, m) ==
    /\ init[i].c.step = 2
    /\ init[i].c.method = 4
    /\ Accepts4(i, m)
    /\ init' = [init EXCEPT ![i] = [c |-> i_handle_msg4(init[i].c, m.term),
                                    abs |-> Abs!edhoc4_i_handle_msg4(init[i].abs)]]
    /\ UNCHANGED <<resp, msgs>>

(* A message that is not accepted, or a session given up: the run is over. *)
AbortInit(i) ==
    /\ init[i].c.step \in {1, 2}
    /\ init' = [init EXCEPT ![i].c.step = -1]
    /\ UNCHANGED <<resp, msgs>>

AbortResp(r) ==
    /\ resp[r].c.step = 1
    /\ resp' = [resp EXCEPT ![r].c.step = -1]
    /\ UNCHANGED <<init, msgs>>

Next ==
    \/ \E i \in Inits, method \in Methods : StartRun(i, method)
    \/ \E r \in Resps, m \in msgs : HandleMsg1(r, m) \/ HandleMsg3(r, m) \/ HandleClassic3(r, m)
    \/ \E i \in Inits, m \in msgs : HandleMsg2(i, m) \/ HandleMsg4(i, m)
    \/ \E i \in Inits : AbortInit(i)
    \/ \E r \in Resps : AbortResp(r)

Spec == Init /\ [][Next]_vars

-----------------------------------------------------------------------------
(* The handlers accept exactly the messages that module Edhoc says: message_2
   to message_4 of the run the context belongs to, whatever messages of other
   runs, of other methods or of earlier attempts are about. *)
AcceptsOwnOnly ==
    \A m \in msgs :
        /\ \A i \in Inits :
            /\ init[i].c.step = 1 =>
                  Accepts2(i, m) = IF init[i].c.method = 4
                                   THEN Abs!edhoc4_i_handle_msg2_ok(init[i].abs, Data(m))
                                   ELSE Abs!edhoc03_i_handle_msg2_ok(init[i].abs, Data(m))
            /\ init[i].c.step = 2 /\ init[i].c.method = 4 =>
                  Accepts4(i, m) = Abs!edhoc4_i_handle_msg4_ok(init[i].abs, Data(m))
        /\ \A r \in Resps :
            resp[r].c.step = 1 =>
                  Accepts3(r, m) = IF resp[r].c.method = 4
                                   THEN Abs!edhoc4_r_handle_msg3_ok(resp[r].abs, Data(m))
                                   ELSE Abs!edhoc03_r_handle_msg3_ok(resp[r].abs, Data(m))

(* Two ends that have derived an MSK have the same one if and only if they took
   part in the same run; no two runs share one; and an end is done exactly when
   module Edhoc says so, the initiator of method 4 only after message_4. *)
MskOfOneRun ==
    /\ \A i \in Inits : init[i].c.done = init[i].abs.done
    /\ \A r \in Resps : resp[r].c.done = resp[r].abs.done
    /\ \A i \in Inits, r \in Resps :
          init[i].c.msk # NoTerm /\ resp[r].c.msk # NoTerm =>
              (init[i].c.msk = resp[r].c.msk) = (Abs!Msk(init[i].abs) = Abs!Msk(resp[r].abs))
    /\ \A i, j \in Inits : i # j /\ init[i].c.msk # NoTerm => init[i].c.msk # init[j].c.msk

(* When both ends of a method 4 run are done, each knows the next static key of
   the other (EAD_3 and EAD_4), and the initiator is never done before. *)
RatchetKeysExchanged ==
    \A i \in Inits :
        init[i].c.step = 3 =>
            \E r \in Resps :
                /\ resp[r].c.done
                /\ Abs!Msk(resp[r].abs) = Abs!Msk(init[i].abs)
                /\ init[i].c.peerNew = resp[r].c.newKey /\ resp[r].c.peerNew = init[i].c.newKey
=============================================================================
