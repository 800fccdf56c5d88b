------------------------- MODULE PduSessionsProofs -------------------------
(***************************************************************************)
(* Proofs about PduSessions, for any number of PDU session and transaction *)
(* identities, any configured sessions, and any number of sessions,        *)
(* releases and faults.                                                    *)
(*                                                                         *)
(* A handler is an operator on the UE's record, so the argument is one     *)
(* about records: UeInv is what the UE's state satisfies between handlers, *)
(* and StaleIn what the two action properties are about.  Taking, freeing  *)
(* or repeating a transaction makes no transaction stale; only what        *)
(* changes the state of a session that exists already does, and the lemmas *)
(* AbortLeaves, AnswerLeaves and CommandLeaves say which transactions.     *)
(* Of the network, StreamsInv is what its steps keep: each of them is      *)
(* taken apart into the AMF's and the SMF's records of one session.        *)
(***************************************************************************)
EXTENDS PduSessions, SequenceTheorems, WellFoundedInduction, TLAPS

States == {"INACTIVE", "ACTIVE_PENDING", "ACTIVE"}

Sessions == [state: States, dnn: Dnns \cup {"none"}, inst: Nat]

Transactions ==
    [msg: {"none", "establish", "release"}, psi: 0..MaxPsi, expiries: Nat, inst: Nat]

Types5gsm ==
    {"establish", "release", "status", "complete", "n2 released", "accept", "reject",
     "release reject", "command", "reactivate", "sent back"}

Messages == [type: Types5gsm, psi: Psis, pti: 0..MaxPti]

AmfSessions ==
    [ref: BOOLEAN, released: SUBSET AllParts,
     last: [type: Types5gsm \cup {"none"}, psi: 0..MaxPsi, pti: 0..MaxPti], waiting: Nat]

SmfSessions ==
    [state: {"none", "active", "deleting", "releasing", "leaving"}, pti: 0..MaxPti,
     asked: [Kinds -> Nat], by: {"none", "ue", "amf", "smf"}, open: BOOLEAN,
     released: SUBSET AllParts]

Spents == [sessions: Nat, releases: Nat, smfReleases: Nat, faults: Nat, taken: BOOLEAN]

UeStates ==
    [ps: [Psis -> Sessions], pt: [Ptis -> Transactions], ul: Seq(Messages), born: Nat,
     taken: BOOLEAN]

(* A transaction has a session, a free one none; instances are handed out  *)
(* in order, so no two establishments share one.                           *)
UeInv(u) ==
    /\ u \in UeStates
    /\ \A i \in Ptis : (u.pt[i].msg = "none") = (u.pt[i].psi = 0)
    /\ \A i \in Psis : u.ps[i].inst <= u.born
    /\ \A i \in Ptis : u.pt[i].inst <= u.born
    /\ \A i, j \in Ptis :
          i # j /\ u.pt[i].msg = "establish" /\ u.pt[j].msg = "establish" =>
              u.pt[i].inst # u.pt[j].inst

(* Owned and Stale, of a UE record. *)
OwnedIn(u, i) ==
    /\ u.pt[i].msg # "none"
    /\ u.ps[u.pt[i].psi].inst = u.pt[i].inst
    /\ u.ps[u.pt[i].psi].state = IF u.pt[i].msg = "establish" THEN "ACTIVE_PENDING" ELSE "ACTIVE"

StaleIn(u, i) == u.pt[i].msg # "none" /\ ~OwnedIn(u, i)

NoNewStale(u, v) == \A i \in Ptis : StaleIn(v, i) => StaleIn(u, i)

Types ==
    /\ UeInv(Ue)
    /\ dl \in Seq(Messages)
    /\ amf \in [Psis -> AmfSessions]
    /\ smf \in [Psis -> SmfSessions]
    /\ smfUp \in BOOLEAN
    /\ spent \in Spents

(* A release under way that the SMF is to reply to still has its stream, and *)
(* none of the PCF's answers to come is without one.                        *)
StreamsOk(s) ==
    /\ s.asked["smf"] = 0 /\ s.asked["lost"] = 0
    /\ s.state = "deleting" => s.open
    /\ s.state \in {"releasing", "leaving"} /\ s.by = "amf" => s.open

(* As long as the SMF has started no release of its own. *)
StreamsInv == spent.smfReleases = 0 => \A psi \in Psis : StreamsOk(smf[psi])

Inv == Types /\ StreamsInv /\ ReplyHasStream

-----------------------------------------------------------------------------
(* Records *)

LEMMA Constants ==
    /\ MaxPsi \in Nat \ {0} /\ MaxPti \in Nat \ {0}
    /\ NoTransaction \in Transactions
    /\ 0 \notin Psis /\ 0 \notin Ptis /\ Psis \subseteq Nat /\ Ptis \subseteq Nat
<1>1. /\ MaxPsi \in Nat \ {0} /\ MaxPti \in Nat \ {0}
  BY Bounds
<1>2. QED
  BY <1>1 DEF NoTransaction, Transactions, Psis, Ptis

LEMMA MessageParts ==
    ASSUME NEW type \in Types5gsm, NEW psi \in Psis, NEW pti \in 0..MaxPti
    PROVE  /\ Message(type, psi, pti) \in Messages
           /\ Message(type, psi, pti).type = type
           /\ Message(type, psi, pti).psi = psi /\ Message(type, psi, pti).pti = pti
  BY DEF Message, Messages

LEMMA TailParts ==
    ASSUME NEW S, NEW q \in Seq(S), q # <<>>
    PROVE  /\ Tail(q) \in Seq(S) /\ Head(q) \in S /\ Head(q) = q[1]
           /\ 1 \in 1..Len(q) /\ Len(Tail(q)) = Len(q) - 1
           /\ \A n \in 1..Len(Tail(q)) : n + 1 \in 1..Len(q) /\ Tail(q)[n] = q[n + 1]
  OBVIOUS

LEMMA AppendParts ==
    ASSUME NEW S, NEW q \in Seq(S), NEW e \in S
    PROVE  /\ Append(q, e) \in Seq(S) /\ Len(Append(q, e)) = Len(q) + 1 /\ Append(q, e) # <<>>
           /\ \A n \in 1..Len(Append(q, e)) :
                 Append(q, e)[n] = IF n = Len(q) + 1 THEN e ELSE q[n]
<1>1. /\ Append(q, e) \in Seq(S) /\ Len(Append(q, e)) = Len(q) + 1 /\ Len(q) \in Nat
      /\ Append(q, e)[Len(q) + 1] = e
      /\ \A n \in 1..Len(q) : Append(q, e)[n] = q[n]
  BY AppendProperties
<1>2. Append(q, e) # <<>>
  BY <1>1
<1>3. QED
  BY <1>1, <1>2

(* The parts of a UE record and what its handlers do to each of them. *)
LEMMA UeParts ==
    ASSUME NEW u \in UeStates
    PROVE  /\ u.ps \in [Psis -> Sessions] /\ u.pt \in [Ptis -> Transactions]
           /\ u.ul \in Seq(Messages) /\ u.born \in Nat /\ u.taken \in BOOLEAN
  BY DEF UeStates

LEMMA SendParts ==
    ASSUME NEW u \in UeStates, NEW m \in Messages
    PROVE  /\ sendSmMessage(u, m) \in UeStates
           /\ sendSmMessage(u, m).ps = u.ps /\ sendSmMessage(u, m).pt = u.pt
           /\ sendSmMessage(u, m).ul = Append(u.ul, m) /\ sendSmMessage(u, m).born = u.born
<1>1. Append(u.ul, m) \in Seq(Messages)
  BY UeParts
<1>2. QED
  BY <1>1 DEF sendSmMessage, UeStates

LEMMA SendKeeps ==
    ASSUME NEW u, UeInv(u), NEW m \in Messages
    PROVE  UeInv(sendSmMessage(u, m)) /\ NoNewStale(u, sendSmMessage(u, m))
<1>1. u \in UeStates
  BY DEF UeInv
<1>2. QED
  BY <1>1, SendParts DEF UeInv, NoNewStale, StaleIn, OwnedIn

LEMMA FreeParts ==
    ASSUME NEW u \in UeStates, NEW pti \in Ptis
    PROVE  LET v == freeProcedureTransactionId(u, pti)
           IN  /\ v \in UeStates /\ v.ps = u.ps /\ v.ul = u.ul /\ v.born = u.born
               /\ v.taken = u.taken /\ v.pt[pti] = NoTransaction
               /\ \A i \in Ptis \ {pti} : v.pt[i] = u.pt[i]
  BY Constants, UeParts DEF freeProcedureTransactionId, UeStates

LEMMA FreeKeeps ==
    ASSUME NEW u, UeInv(u), NEW pti \in Ptis
    PROVE  /\ UeInv(freeProcedureTransactionId(u, pti))
           /\ NoNewStale(u, freeProcedureTransactionId(u, pti))
<1>. DEFINE v == freeProcedureTransactionId(u, pti)
<1>1. u \in UeStates
  BY DEF UeInv
<1>2. /\ v \in UeStates /\ v.ps = u.ps /\ v.ul = u.ul /\ v.born = u.born
      /\ v.pt[pti] = NoTransaction
      /\ \A i \in Ptis \ {pti} : v.pt[i] = u.pt[i]
  BY <1>1, FreeParts
<1>3. NoTransaction.msg = "none" /\ NoTransaction.psi = 0 /\ NoTransaction.inst = 0
  BY DEF NoTransaction
<1>4. u.born \in Nat
  BY <1>1, UeParts
<1>. HIDE DEF v
<1>5. UeInv(v)
  BY <1>2, <1>3, <1>4 DEF UeInv
<1>6. NoNewStale(u, v)
  BY <1>2, <1>3 DEF NoNewStale, StaleIn, OwnedIn
<1>7. QED
  BY <1>5, <1>6 DEF v

(* The state of a session set: only its own transactions can become stale. *)
LEMMA SetState ==
    ASSUME NEW u, UeInv(u), NEW psi \in Psis, NEW state \in States
    PROVE  LET v == [u EXCEPT !.ps[psi].state = state]
           IN  /\ UeInv(v) /\ v.pt = u.pt /\ v.ul = u.ul /\ v.born = u.born
               /\ \A i \in Ptis : StaleIn(v, i) => StaleIn(u, i) \/ u.pt[i].psi = psi
<1>. DEFINE s == [u.ps[psi] EXCEPT !.state = state]
            v == [u EXCEPT !.ps[psi].state = state]
<1>1. u \in UeStates /\ u.ps \in [Psis -> Sessions] /\ u.pt \in [Ptis -> Transactions]
  BY UeParts DEF UeInv
<1>2. s \in Sessions /\ s.inst = u.ps[psi].inst
  BY <1>1 DEF Sessions
<1>3. v = [u EXCEPT !.ps = [u.ps EXCEPT ![psi] = s]]
  BY <1>1 DEF UeStates
<1>. HIDE DEF s
<1>4. /\ v \in UeStates /\ v.pt = u.pt /\ v.ul = u.ul /\ v.born = u.born
      /\ v.ps[psi] = s /\ \A i \in Psis \ {psi} : v.ps[i] = u.ps[i]
  BY <1>1, <1>2, <1>3 DEF UeStates
<1>. HIDE DEF v
<1>5. UeInv(v)
  BY <1>2, <1>4 DEF UeInv
<1>6. ASSUME NEW i \in Ptis, StaleIn(v, i), u.pt[i].psi # psi
      PROVE  StaleIn(u, i)
  <2>1. u.pt[i].psi \in Psis
    BY <1>1, <1>4, <1>6 DEF UeInv, StaleIn, Transactions, Psis
  <2>2. QED
    BY <2>1, <1>4, <1>6 DEF StaleIn, OwnedIn
<1>7. QED
  BY <1>4, <1>5, <1>6 DEF v

-----------------------------------------------------------------------------
(* Starting a transaction *)

(* A set of naturals has a least element: what stands in for induction here. *)
LEMMA Least ==
    ASSUME NEW S \in SUBSET Nat, S # {}
    PROVE  \E n \in S : \A m \in S : n <= m
<1>. DEFINE R == OpToRel(<, Nat)
<1>1. IsWellFoundedOn(R, Nat)
  BY NatLessThanWellFounded
<1>2. \A x, y \in Nat : y < x => <<y, x>> \in R
  BY DEF OpToRel
<1>. HIDE DEF R
<1>3. PICK n \in S : \A m \in S : ~(<<m, n>> \in R)
  BY <1>1, WFMin
<1>4. \A m \in S : n <= m
  <2>. SUFFICES ASSUME NEW m \in S, ~(n <= m) PROVE FALSE
    OBVIOUS
  <2>1. n \in Nat /\ m \in Nat /\ m < n
    OBVIOUS
  <2>2. QED
    BY <1>2, <1>3, <2>1
<1>5. QED
  BY <1>4

LEMMA LowestIsMember ==
    ASSUME NEW S \in SUBSET Nat, S # {}
    PROVE  Lowest(S) \in S
  BY Least, Zenon DEF Lowest

(* StartTransaction, a PTI being free: the transaction owns its session if *)
(* the session is in the state it is about.                                *)
LEMMA StartKeeps ==
    ASSUME NEW u, UeInv(u), NEW psi \in Psis, NEW type \in {"establish", "release"},
           FreePtis(u) # {},
           u.ps[psi].state = (IF type = "establish" THEN "ACTIVE_PENDING" ELSE "ACTIVE"),
           type = "establish" =>
               \A i \in Ptis : u.pt[i].msg = "establish" => u.pt[i].inst # u.ps[psi].inst
    PROVE  LET v == StartTransaction(u, type, psi)
           IN  /\ UeInv(v) /\ NoNewStale(u, v) /\ v.ps = u.ps /\ v.born = u.born
               /\ v.ul = Append(u.ul, Message(type, psi, Lowest(FreePtis(u))))
               /\ \A i \in Ptis : v.pt[i].msg \in {u.pt[i].msg, type}
<1>. DEFINE pti == Lowest(FreePtis(u))
            t == [msg |-> type, psi |-> psi, expiries |-> 0, inst |-> u.ps[psi].inst]
            w == [u EXCEPT !.pt[pti] = t]
            m == Message(type, psi, pti)
<1>1. u \in UeStates /\ u.ps \in [Psis -> Sessions] /\ u.pt \in [Ptis -> Transactions]
  BY UeParts DEF UeInv
<1>2. pti \in Ptis /\ u.pt[pti].msg = "none"
  BY LowestIsMember, Constants DEF FreePtis
<1>3. /\ t \in Transactions /\ t.msg = type /\ t.psi = psi /\ t.inst = u.ps[psi].inst
  BY <1>1, Constants DEF Transactions, Sessions, Psis
<1>5. StartTransaction(u, type, psi) = sendSmMessage(w, m)
  BY Zenon DEF StartTransaction
<1>. HIDE DEF pti, t
<1>4. m \in Messages
  <2>1. type \in Types5gsm /\ pti \in 0..MaxPti
    <3>1. type \in Types5gsm
      BY Zenon DEF Types5gsm
    <3>2. pti \in 0..MaxPti
      BY <1>2, Constants DEF Ptis
    <3>3. QED
      BY <3>1, <3>2
  <2>2. QED
    BY <2>1, MessageParts
<1>. HIDE DEF m
<1>6. /\ w \in UeStates /\ w.ps = u.ps /\ w.ul = u.ul /\ w.born = u.born
      /\ w.pt[pti] = t /\ \A i \in Ptis \ {pti} : w.pt[i] = u.pt[i]
  BY <1>1, <1>2, <1>3 DEF UeStates
<1>. HIDE DEF w
<1>7. UeInv(w)
  BY <1>1, <1>2, <1>3, <1>6, Constants DEF UeInv
<1>8. NoNewStale(u, w)
  <2>1. OwnedIn(w, pti)
    BY <1>3, <1>6 DEF OwnedIn
  <2>2. \A i \in Ptis \ {pti} : StaleIn(w, i) => StaleIn(u, i)
    BY <1>6 DEF StaleIn, OwnedIn
  <2>3. QED
    BY <2>1, <2>2 DEF NoNewStale, StaleIn
<1>9. UeInv(sendSmMessage(w, m)) /\ NoNewStale(w, sendSmMessage(w, m))
  BY <1>4, <1>7, SendKeeps
<1>10. /\ sendSmMessage(w, m).ps = u.ps /\ sendSmMessage(w, m).pt = w.pt
       /\ sendSmMessage(w, m).ul = Append(u.ul, m) /\ sendSmMessage(w, m).born = u.born
  BY <1>4, <1>6, SendParts
<1>11. \A i \in Ptis : w.pt[i].msg \in {u.pt[i].msg, type}
  BY <1>3, <1>6
<1>12. QED
  BY <1>5, <1>8, <1>9, <1>10, <1>11 DEF NoNewStale, m, pti

(* A release is asked for of an active session. *)
LEMMA ReleaseRequestKeeps ==
    ASSUME NEW u, UeInv(u), NEW psi \in Psis
    PROVE  LET v == sendReleaseRequest(u, psi)
           IN  UeInv(v) /\ NoNewStale(u, v) /\ v.born = u.born
<1>1. CASE u.ps[psi].state # "ACTIVE" \/ FreePtis(u) = {}
  BY <1>1 DEF sendReleaseRequest, NoNewStale
<1>2. CASE u.ps[psi].state = "ACTIVE" /\ FreePtis(u) # {}
  <2>1. sendReleaseRequest(u, psi) = StartTransaction(u, "release", psi)
    BY <1>2 DEF sendReleaseRequest
  <2>2. QED
    BY <1>2, <2>1, StartKeeps
<1>3. QED
  BY <1>1, <1>2

(* An establishment takes an identity no session has, so that no          *)
(* transaction that was in order is disturbed.                             *)
LEMMA EstablishKeeps ==
    ASSUME NEW u, UeInv(u), NEW dnn \in Dnns \cup {"none"}
    PROVE  LET v == sendEstablishmentRequest(u, dnn)
           IN  /\ UeInv(v) /\ NoNewStale(u, v) /\ v.born >= u.born
<1>. DEFINE v == sendEstablishmentRequest(u, dnn)
<1>1. u \in UeStates /\ u.ps \in [Psis -> Sessions] /\ u.pt \in [Ptis -> Transactions]
      /\ u.born \in Nat /\ u.ul \in Seq(Messages)
  BY UeParts DEF UeInv
<1>2. CASE FreePsis(u) = {} \/ FreePtis(u) = {}
  BY <1>1, <1>2 DEF sendEstablishmentRequest, NoNewStale
<1>3. CASE FreePsis(u) # {} /\ FreePtis(u) # {}
  <2>. DEFINE psi == Lowest(FreePsis(u))
              s == [state |-> "ACTIVE_PENDING", dnn |-> dnn, inst |-> u.born + 1]
              w == [u EXCEPT !.ps[psi] = s, !.born = @ + 1]
  <2>1. psi \in Psis /\ u.ps[psi].state = "INACTIVE"
    BY <1>3, LowestIsMember, Constants DEF FreePsis
  <2>2. s \in Sessions /\ s.state = "ACTIVE_PENDING" /\ s.inst = u.born + 1
    BY <1>1 DEF Sessions, States
  <2>3. v = StartTransaction(w, "establish", psi)
    BY <1>3, Zenon DEF sendEstablishmentRequest
  <2>. HIDE DEF psi, s, v
  <2>4. /\ w \in UeStates /\ w.pt = u.pt /\ w.ul = u.ul /\ w.born = u.born + 1
        /\ w.ps[psi] = s /\ \A i \in Psis \ {psi} : w.ps[i] = u.ps[i]
    <3>. DEFINE p == [u.ps EXCEPT ![psi] = s]
                b == u.born + 1
    <3>1. p \in [Psis -> Sessions] /\ b \in Nat
          /\ p[psi] = s /\ \A i \in Psis \ {psi} : p[i] = u.ps[i]
      BY <1>1, <2>1, <2>2
    <3>2. w = [u EXCEPT !.ps = p, !.born = b]
      BY <1>1 DEF UeStates
    <3>. HIDE DEF p, b, w
    <3>3. w \in UeStates /\ w.pt = u.pt /\ w.ul = u.ul /\ w.born = b /\ w.ps = p
      BY <1>1, <3>1, <3>2 DEF UeStates
    <3>4. QED
      BY <3>1, <3>3 DEF b
  <2>. HIDE DEF w
  <2>5. UeInv(w)
    <3>1. \A i \in Psis : w.ps[i].inst <= w.born
      BY <1>1, <2>2, <2>4 DEF UeInv, Sessions
    <3>2. \A i \in Ptis : w.pt[i].inst <= w.born
      BY <1>1, <2>4 DEF UeInv, Transactions
    <3>3. QED
      BY <2>4, <3>1, <3>2 DEF UeInv
  <2>6. NoNewStale(u, w)
    <3>. SUFFICES ASSUME NEW i \in Ptis, ~StaleIn(u, i), u.pt[i].msg # "none"
                  PROVE  ~StaleIn(w, i)
      BY <2>4 DEF NoNewStale, StaleIn
    <3>1. OwnedIn(u, i) /\ u.pt[i].psi \in Psis
      BY <1>1 DEF StaleIn, UeInv, Transactions, Psis
    <3>2. u.pt[i].psi # psi
      BY <2>1, <3>1 DEF OwnedIn
    <3>3. QED
      BY <2>4, <3>1, <3>2 DEF StaleIn, OwnedIn
  <2>7. FreePtis(w) # {}
    BY <1>3, <2>4 DEF FreePtis
  <2>8. \A i \in Ptis : w.pt[i].inst # w.ps[psi].inst
    BY <1>1, <2>2, <2>4 DEF UeInv, Transactions
  <2>9. /\ UeInv(v) /\ NoNewStale(w, v) /\ v.ps = w.ps /\ v.born = w.born
    BY <2>1, <2>2, <2>3, <2>4, <2>5, <2>7, <2>8, StartKeeps
  <2>10. v.born >= u.born
    BY <1>1, <2>4, <2>9
  <2>11. QED
    BY <2>6, <2>9, <2>10 DEF NoNewStale, v
<1>4. QED
  BY <1>2, <1>3

-----------------------------------------------------------------------------
(* The configured sessions: the loop over them, one at a time *)

LEMMA RequiredKeeps ==
    ASSUME NEW u, UeInv(u), NEW dnn \in Dnns
    PROVE  LET v == EstablishRequired(u, dnn)
           IN  UeInv(v) /\ NoNewStale(u, v)
<1>1. EstablishRequired(u, dnn) = u \/ EstablishRequired(u, dnn) = sendEstablishmentRequest(u, dnn)
  BY DEF EstablishRequired
<1>2. NoNewStale(u, u)
  BY DEF NoNewStale
<1>3. QED
  BY <1>1, <1>2, EstablishKeeps

(* The recursive function of establishRequiredSessions exists. *)
LoopHasFunction(u, k) ==
    \E g : g = [n \in 0..k |-> IF n = 0 THEN u
                               ELSE EstablishRequired(g[n - 1], DefaultSessions[n])]

LEMMA LoopExists ==
    ASSUME NEW u
    PROVE  \A k \in Nat : LoopHasFunction(u, k)
<1>. DEFINE P(k) == \E g :
                g = [n \in 0..k |-> IF n = 0 THEN u
                                    ELSE EstablishRequired(g[n - 1], DefaultSessions[n])]
            S == {k \in Nat : ~P(k)}
<1>. SUFFICES ASSUME S # {} PROVE FALSE
  BY DEF LoopHasFunction
<1>1. PICK k \in S : \A m \in S : k <= m
  BY Least
<1>2. P(0)
  <2>. DEFINE h == [n \in 0..0 |-> u]
  <2>1. h = [n \in 0..0 |-> IF n = 0 THEN u
                            ELSE EstablishRequired(h[n - 1], DefaultSessions[n])]
    OBVIOUS
  <2>2. QED
    BY <2>1
<1>3. k # 0 /\ P(k - 1)
  <2>. HIDE DEF P
  <2>1. k \in Nat /\ ~P(k)
    OBVIOUS
  <2>2. k # 0
    BY <1>2, <2>1
  <2>3. k - 1 \in Nat /\ ~(k <= k - 1)
    BY <2>1, <2>2
  <2>4. QED
    BY <1>1, <2>2, <2>3
<1>4. PICK g : g = [n \in 0..(k - 1) |-> IF n = 0 THEN u
                        ELSE EstablishRequired(g[n - 1], DefaultSessions[n])]
  BY <1>3
<1>. DEFINE h == [n \in 0..k |-> IF n < k THEN g[n]
                                 ELSE EstablishRequired(g[k - 1], DefaultSessions[k])]
<1>5. h = [n \in 0..k |-> IF n = 0 THEN u
                          ELSE EstablishRequired(h[n - 1], DefaultSessions[n])]
  BY <1>3, <1>4
<1>6. P(k)
  BY <1>5
<1>7. QED
  BY <1>1, <1>6

(* However many sessions are configured, asking for those that are missing *)
(* disturbs no transaction.                                                *)
LEMMA LoopKeeps ==
    ASSUME NEW u, UeInv(u)
    PROVE  LET v == establishRequiredSessions(u)
           IN  UeInv(v) /\ NoNewStale(u, v)
<1>. DEFINE N == Len(DefaultSessions)
            g[n \in 0..N] == IF n = 0 THEN u
                             ELSE EstablishRequired(g[n - 1], DefaultSessions[n])
            Good(v) == UeInv(v) /\ NoNewStale(u, v)
            S == {n \in 0..N : ~Good(g[n])}
<1>1. N \in Nat /\ \A n \in 1..N : DefaultSessions[n] \in Dnns
  BY Bounds
<1>2. g = [n \in 0..N |-> IF n = 0 THEN u
                          ELSE EstablishRequired(g[n - 1], DefaultSessions[n])]
  <2>1. \E h : h = [n \in 0..N |-> IF n = 0 THEN u
                                   ELSE EstablishRequired(h[n - 1], DefaultSessions[n])]
    <3>1. N \in Nat
      BY <1>1
    <3>. HIDE DEF N, g, Good, S
    <3>2. LoopHasFunction(u, N)
      BY LoopExists, <3>1
    <3>3. QED
      BY <3>2, Zenon DEF LoopHasFunction
  <2>2. QED
    BY <2>1
<1>3. establishRequiredSessions(u) = g[N]
  BY DEF establishRequiredSessions
<1>. HIDE DEF g
<1>4. Good(u)
  BY DEF NoNewStale
<1>5. S = {}
  <2>. SUFFICES ASSUME S # {} PROVE FALSE
    OBVIOUS
  <2>1. S \in SUBSET Nat
    BY <1>1
  <2>2. PICK n \in S : \A m \in S : n <= m
    BY <2>1, Least
  <2>3. n # 0
    <3>1. g[0] = u
      BY <1>1, <1>2
    <3>2. QED
      BY <1>4, <2>2, <3>1
  <2>4. n - 1 \in 0..N /\ n \in 1..N /\ ~(n <= n - 1)
    BY <1>1, <2>2, <2>3
  <2>5. Good(g[n - 1])
    BY <2>2, <2>4
  <2>6. g[n] = EstablishRequired(g[n - 1], DefaultSessions[n])
    BY <1>2, <2>3, <2>4
  <2>. HIDE DEF S
  <2>7. Good(g[n])
    <3>. DEFINE v == g[n - 1]
                w == EstablishRequired(v, DefaultSessions[n])
    <3>. HIDE DEF v
    <3>1. UeInv(w) /\ NoNewStale(v, w)
      BY <1>1, <2>4, <2>5, RequiredKeeps DEF v
    <3>. HIDE DEF w
    <3>2. Good(w)
      BY <2>5, <3>1 DEF v, NoNewStale
    <3>3. QED
      BY <2>6, <3>2 DEF v, w
  <2>8. QED
    BY <2>2, <2>7 DEF S
<1>6. Good(g[N])
  BY <1>1, <1>5
<1>7. QED
  BY <1>3, <1>6

-----------------------------------------------------------------------------
(* The answers of the network, and the timers *)

(* A 5GSM STATUS carries the identities of the message it is about. *)
LEMMA CauseKeeps ==
    ASSUME NEW u, UeInv(u), NEW m \in Messages
    PROVE  LET v == sendSmCause(u, m)
           IN  /\ UeInv(v) /\ NoNewStale(u, v) /\ v.born = u.born
               /\ v.ps = u.ps /\ v.pt = u.pt
<1>. DEFINE c == Message("status", m.psi, m.pti)
<1>1. m.psi \in Psis /\ m.pti \in 0..MaxPti
  BY DEF Messages
<1>2. c \in Messages /\ c.type = "status"
  <2>1. "status" \in Types5gsm
    BY DEF Types5gsm
  <2>2. QED
    BY <1>1, <2>1, MessageParts
<1>3. u \in UeStates
  BY DEF UeInv
<1>. HIDE DEF c
<1>4. sendSmCause(u, m) = sendSmMessage(u, c)
  BY DEF sendSmCause, c
<1>5. QED
  BY <1>2, <1>3, <1>4, SendKeeps, SendParts

(* Freed from its own transaction, a session's identity may still have another. *)
LEMMA AbortLeaves ==
    ASSUME NEW u, UeInv(u), NEW pti \in Ptis
    PROVE  LET v == abortProcedureByPti(u, pti)
           IN  /\ UeInv(v) /\ v.born = u.born
               /\ \A i \in Ptis : StaleIn(v, i) =>
                     \/ StaleIn(u, i)
                     \/ /\ i # pti /\ u.pt[pti].msg # "none"
                        /\ u.pt[i].psi = u.pt[pti].psi
<1>1. CASE u.pt[pti].msg = "none"
  BY <1>1 DEF abortProcedureByPti
<1>2. CASE u.pt[pti].msg # "none"
  <2>. DEFINE psi == u.pt[pti].psi
              w == freeProcedureTransactionId(u, pti)
              v == [w EXCEPT !.ps[psi].state = "INACTIVE"]
  <2>1. u \in UeStates /\ u.pt \in [Ptis -> Transactions]
    BY UeParts DEF UeInv
  <2>2. psi \in Psis
    BY <1>2, <2>1 DEF UeInv, Transactions, Psis
  <2>3. abortProcedureByPti(u, pti) = v
    BY <1>2 DEF abortProcedureByPti, freePduSessionId
  <2>4. UeInv(w) /\ NoNewStale(u, w)
    BY FreeKeeps
  <2>5. /\ w \in UeStates /\ w.ps = u.ps /\ w.ul = u.ul /\ w.born = u.born
        /\ w.pt[pti] = NoTransaction
        /\ \A i \in Ptis \ {pti} : w.pt[i] = u.pt[i]
    BY <2>1, FreeParts
  <2>. HIDE DEF psi, w
  <2>7. /\ UeInv(v) /\ v.pt = w.pt /\ v.ul = w.ul /\ v.born = w.born
        /\ \A i \in Ptis : StaleIn(v, i) => StaleIn(w, i) \/ w.pt[i].psi = psi
    BY <2>2, <2>4, SetState DEF States
  <2>. HIDE DEF v
  <2>9. ASSUME NEW i \in Ptis, StaleIn(v, i), ~StaleIn(u, i)
        PROVE  i # pti /\ u.pt[i].psi = psi
    <3>1. ~StaleIn(w, i) /\ w.pt[i].psi = psi
      BY <2>4, <2>7, <2>9 DEF NoNewStale
    <3>2. i # pti
      BY <2>2, <2>5, <3>1, Constants DEF NoTransaction
    <3>3. QED
      BY <2>5, <3>1, <3>2
  <2>10. QED
    BY <1>2, <2>3, <2>5, <2>7, <2>9 DEF psi
<1>3. QED
  BY <1>1, <1>2

LEMMA FailureLeaves ==
    ASSUME NEW u, UeInv(u), NEW m \in Messages
    PROVE  LET v == ForwardingFailure(u, m)
           IN  /\ UeInv(v)
               /\ \A i \in Ptis : StaleIn(v, i) =>
                     \/ StaleIn(u, i)
                     \/ \E j \in Ptis \ {i} : u.pt[j].msg # "none" /\ u.pt[i].psi = u.pt[j].psi
<1>1. CASE checkPtiAndPsi(u, m)
  BY <1>1, AbortLeaves DEF ForwardingFailure, checkPtiAndPsi
<1>2. CASE ~checkPtiAndPsi(u, m)
  BY <1>2, CauseKeeps DEF ForwardingFailure, NoNewStale
<1>3. QED
  BY <1>1, <1>2

LEMMA AnswerLeaves ==
    ASSUME NEW u, UeInv(u), NEW m \in Messages, NEW state \in {"ACTIVE", "INACTIVE"}
    PROVE  LET v == EstablishmentAnswer(u, m, state)
           IN  /\ UeInv(v)
               /\ \A i \in Ptis : StaleIn(v, i) =>
                     \/ StaleIn(u, i)
                     \/ \E j \in Ptis \ {i} :
                           /\ u.pt[j].msg # "none" /\ u.pt[i].psi = u.pt[j].psi
                           /\ u.ps[u.pt[j].psi].state = "ACTIVE_PENDING"
<1>. DEFINE w == freeProcedureTransactionId(u, m.pti)
            v == EstablishmentAnswer(u, m, state)
<1>1. u \in UeStates /\ m.psi \in Psis
  BY DEF UeInv, Messages
<1>2. CASE ~checkPtiAndPsi(u, m)
  BY <1>2, CauseKeeps DEF EstablishmentAnswer, NoNewStale
<1>3. CASE checkPtiAndPsi(u, m)
  <2>1. m.pti \in Ptis /\ u.pt[m.pti].psi = m.psi /\ u.pt[m.pti].msg # "none"
    BY <1>1, <1>3, Constants DEF checkPtiAndPsi, UeInv
  <2>2. UeInv(w) /\ NoNewStale(u, w)
    BY <2>1, FreeKeeps
  <2>3. /\ w \in UeStates /\ w.ps = u.ps /\ w.ul = u.ul /\ w.born = u.born
        /\ w.pt[m.pti] = NoTransaction
        /\ \A i \in Ptis \ {m.pti} : w.pt[i] = u.pt[i]
    BY <1>1, <2>1, FreeParts
  <2>5. CASE u.ps[m.psi].state # "ACTIVE_PENDING"
    <3>1. v = sendSmCause(w, m)
      BY <1>3, <2>5 DEF EstablishmentAnswer
    <3>. HIDE DEF w, v
    <3>2. UeInv(v) /\ NoNewStale(w, v)
      BY <2>2, <3>1, CauseKeeps
    <3>3. QED
      BY <2>2, <3>2 DEF NoNewStale, v
  <2>6. CASE u.ps[m.psi].state = "ACTIVE_PENDING"
    <3>1. v = [w EXCEPT !.ps[m.psi].state = state]
      BY <1>3, <2>6 DEF EstablishmentAnswer
    <3>. HIDE DEF w, v
    <3>2. state \in States
      BY DEF States
    <3>3. /\ UeInv(v) /\ v.pt = w.pt /\ v.ul = w.ul /\ v.born = w.born
          /\ \A i \in Ptis : StaleIn(v, i) => StaleIn(w, i) \/ w.pt[i].psi = m.psi
      BY <1>1, <2>2, <3>1, <3>2, SetState, SMTT(40)
    <3>5. ASSUME NEW i \in Ptis, StaleIn(v, i), ~StaleIn(u, i)
          PROVE  i # m.pti /\ u.pt[i].psi = m.psi
      <4>1. w.pt[i].psi = m.psi
        BY <2>2, <3>3, <3>5 DEF NoNewStale
      <4>2. i # m.pti
        BY <1>1, <2>3, <4>1, Constants DEF NoTransaction
      <4>3. QED
        BY <2>3, <4>1, <4>2
    <3>6. QED
      BY <2>1, <2>6, <3>3, <3>5 DEF v
  <2>7. QED
    BY <2>5, <2>6
<1>4. QED
  BY <1>2, <1>3

(* No session is ever INACTIVE_PENDING, so a Release Reject only frees its transaction. *)
LEMMA RejectKeeps ==
    ASSUME NEW u, UeInv(u), NEW m \in Messages
    PROVE  LET v == ReleaseReject(u, m)
           IN  UeInv(v) /\ NoNewStale(u, v)
<1>. DEFINE w == freeProcedureTransactionId(u, m.pti)
            b == u.taken \/ u.pt[m.pti].msg = "establish"
            z == [w EXCEPT !.taken = b]
            v == ReleaseReject(u, m)
<1>1. u \in UeStates /\ m.psi \in Psis /\ u.ps[m.psi].state # "INACTIVE_PENDING"
  <2>1. u \in UeStates /\ u.ps \in [Psis -> Sessions] /\ m.psi \in Psis
    BY UeParts DEF UeInv, Messages
  <2>2. u.ps[m.psi].state \in States
    BY <2>1 DEF Sessions
  <2>3. QED
    BY <2>1, <2>2 DEF States
<1>2. CASE ~checkPtiAndPsi(u, m)
  BY <1>2, CauseKeeps DEF ReleaseReject
<1>3. CASE checkPtiAndPsi(u, m)
  <2>1. m.pti \in Ptis
    BY <1>3 DEF checkPtiAndPsi
  <2>2. UeInv(w) /\ NoNewStale(u, w)
    BY <1>1, <2>1, FreeKeeps
  <2>3. w \in UeStates /\ w.taken = u.taken
    BY <1>1, <2>1, FreeParts
  <2>4. v = sendSmCause(z, m)
    BY <1>1, <1>3, <2>3 DEF ReleaseReject
  <2>5. b \in BOOLEAN
    OBVIOUS
  <2>. HIDE DEF b, v, w
  <2>6. z \in UeStates /\ z.ps = w.ps /\ z.pt = w.pt /\ z.born = w.born
    BY <2>3, <2>5 DEF UeStates
  <2>. HIDE DEF z
  <2>7. UeInv(z) /\ NoNewStale(w, z)
    BY <2>2, <2>6 DEF UeInv, NoNewStale, StaleIn, OwnedIn
  <2>8. UeInv(v) /\ NoNewStale(z, v)
    BY <2>4, <2>7, CauseKeeps
  <2>9. QED
    BY <2>2, <2>7, <2>8 DEF NoNewStale, v
<1>4. QED
  BY <1>2, <1>3

(* A command takes an active session, and of the transactions only the release *)
(* whose PTI it carries.                                                        *)
LEMMA CommandLeaves ==
    ASSUME NEW u, UeInv(u), NEW m \in Messages
    PROVE  LET v == ReleaseCommand(u, m)
           IN  /\ UeInv(v)
               /\ \A i \in Ptis : StaleIn(v, i) =>
                     \/ StaleIn(u, i)
                     \/ /\ u.pt[i].psi = m.psi /\ m.pti # i
                        /\ u.ps[m.psi].state = "ACTIVE"
<1>. DEFINE v == ReleaseCommand(u, m)
            r == [u EXCEPT !.ps[m.psi].state = "INACTIVE"]
            a == IF m.pti = 0 THEN r ELSE freeProcedureTransactionId(r, m.pti)
            c == Message("complete", m.psi, m.pti)
            z == sendSmMessage(a, c)
<1>1. /\ u \in UeStates /\ u.ps \in [Psis -> Sessions] /\ u.pt \in [Ptis -> Transactions]
      /\ m.psi \in Psis /\ m.pti \in 0..MaxPti
  BY UeParts DEF UeInv, Messages
<1>2. u.ps[m.psi].state \in States /\ u.ps[m.psi].dnn \in Dnns \cup {"none"}
  BY <1>1 DEF Sessions
<1>3. CASE u.ps[m.psi].state = "INACTIVE"
  BY <1>3, CauseKeeps DEF ReleaseCommand, NoNewStale
<1>4. CASE u.ps[m.psi].state = "ACTIVE_PENDING"
  <2>1. ReleaseCommand(u, m) = u
    BY <1>4 DEF ReleaseCommand
  <2>2. QED
    BY <2>1
<1>5. CASE u.ps[m.psi].state = "ACTIVE"
  <2>1. /\ UeInv(r) /\ r.pt = u.pt /\ r.ul = u.ul /\ r.born = u.born
        /\ \A i \in Ptis : StaleIn(r, i) => StaleIn(u, i) \/ u.pt[i].psi = m.psi
    BY <1>1, SetState DEF States
  <2>3. CASE m.pti # 0 /\ u.pt[m.pti].msg # "release"
    <3>1. v = sendSmCause(r, m)
      BY <1>5, <2>3 DEF ReleaseCommand, localReleaseSession, freePduSessionId
    <3>2. m.pti \in Ptis
      BY <1>1, <2>3, Constants DEF Ptis
    <3>. HIDE DEF r, v
    <3>3. UeInv(v) /\ NoNewStale(r, v)
          /\ v.pt = r.pt
      BY <2>1, <3>1, CauseKeeps
    <3>4. ASSUME NEW i \in Ptis, StaleIn(v, i), ~StaleIn(u, i)
          PROVE  u.pt[i].psi = m.psi /\ m.pti # i
      <4>1. u.pt[i].psi = m.psi /\ u.pt[i].msg # "none" /\ OwnedIn(u, i)
        BY <2>1, <3>3, <3>4 DEF NoNewStale, StaleIn
      <4>2. u.pt[i].msg # "establish"
        BY <1>5, <4>1 DEF OwnedIn
      <4>3. u.pt[i].msg = "release"
        BY <1>1, <4>1, <4>2 DEF Transactions
      <4>4. QED
        BY <2>3, <4>1, <4>3
    <3>5. QED
      BY <1>5, <3>3, <3>4 DEF v
  <2>4. CASE m.pti = 0 \/ u.pt[m.pti].msg = "release"
    <3>1. /\ UeInv(a) /\ NoNewStale(r, a)
          /\ (m.pti \in Ptis => ~StaleIn(a, m.pti))
      <4>. HIDE DEF r
      <4>1. CASE m.pti = 0
        BY <2>1, <4>1, Constants DEF NoNewStale
      <4>2. CASE m.pti # 0
        <5>1. m.pti \in Ptis
          BY <1>1, <4>2, Constants DEF Ptis
        <5>2. r \in UeStates
          BY <2>1 DEF UeInv
        <5>3. a = freeProcedureTransactionId(r, m.pti)
          BY <4>2
        <5>. HIDE DEF a
        <5>4. a.pt[m.pti] = NoTransaction
          BY <5>1, <5>2, <5>3, FreeParts
        <5>5. QED
          BY <2>1, <5>1, <5>2, <5>3, <5>4, FreeKeeps DEF StaleIn, NoTransaction
      <4>3. QED
        BY <4>1, <4>2
    <3>2. c \in Messages /\ c.type = "complete"
      <4>1. "complete" \in Types5gsm
        BY DEF Types5gsm
      <4>2. QED
        BY <1>1, <4>1, MessageParts
    <3>3. v = z \/ v = sendEstablishmentRequest(z, u.ps[m.psi].dnn)
      BY <1>5, <2>4 DEF ReleaseCommand, localReleaseSession, freePduSessionId
    <3>. HIDE DEF r, a, c, v
    <3>4. a \in UeStates
      BY <3>1 DEF UeInv
    <3>5. UeInv(z) /\ NoNewStale(a, z)
      BY <3>1, <3>2, <3>4, SendKeeps
    <3>. HIDE DEF z
    <3>6. UeInv(v) /\ NoNewStale(z, v)
      BY <1>2, <3>3, <3>5, EstablishKeeps DEF NoNewStale
    <3>7. ASSUME NEW i \in Ptis, StaleIn(v, i), ~StaleIn(u, i)
          PROVE  u.pt[i].psi = m.psi /\ m.pti # i
      BY <2>1, <3>1, <3>5, <3>6, <3>7 DEF NoNewStale
    <3>8. QED
      BY <1>5, <3>6, <3>7 DEF v
  <2>5. QED
    BY <2>3, <2>4
<1>6. QED
  BY <1>2, <1>3, <1>4, <1>5 DEF States

LEMMA RetransmitKeeps ==
    ASSUME NEW u, UeInv(u), NEW pti \in Ptis, u.pt[pti].msg # "none"
    PROVE  LET v == Retransmit(u, pti)
           IN  /\ UeInv(v) /\ NoNewStale(u, v) /\ v.born = u.born
<1>. DEFINE t == [u.pt[pti] EXCEPT !.expiries = @ + 1]
            w == [u EXCEPT !.pt[pti].expiries = @ + 1]
            m == Message(u.pt[pti].msg, u.pt[pti].psi, pti)
<1>1. u \in UeStates /\ u.pt \in [Ptis -> Transactions]
  BY UeParts DEF UeInv
<1>2. /\ t \in Transactions /\ t.msg = u.pt[pti].msg /\ t.psi = u.pt[pti].psi
      /\ t.inst = u.pt[pti].inst
  BY <1>1 DEF Transactions
<1>3. w = [u EXCEPT !.pt = [u.pt EXCEPT ![pti] = t]]
  BY <1>1 DEF UeStates
<1>4. Retransmit(u, pti) = sendSmMessage(w, m)
  BY Zenon DEF Retransmit
<1>. HIDE DEF t
<1>5. /\ w \in UeStates /\ w.ps = u.ps /\ w.ul = u.ul /\ w.born = u.born
      /\ w.pt[pti] = t /\ \A i \in Ptis \ {pti} : w.pt[i] = u.pt[i]
  BY <1>1, <1>2, <1>3 DEF UeStates
<1>. HIDE DEF w
<1>6. UeInv(w)
  BY <1>2, <1>5 DEF UeInv
<1>7. NoNewStale(u, w)
  BY <1>2, <1>5 DEF NoNewStale, StaleIn, OwnedIn
<1>9. m \in Messages /\ m.type = u.pt[pti].msg
  <2>1. u.pt[pti].msg \in {"establish", "release"} /\ u.pt[pti].psi \in Psis
    BY <1>1 DEF UeInv, Transactions, Psis
  <2>2. u.pt[pti].msg \in Types5gsm
    BY <2>1, Zenon DEF Types5gsm
  <2>3. pti \in 0..MaxPti
    BY Constants DEF Ptis
  <2>4. QED
    BY <2>1, <2>2, <2>3, MessageParts
<1>. HIDE DEF m
<1>10. UeInv(sendSmMessage(w, m)) /\ NoNewStale(w, sendSmMessage(w, m))
       /\ sendSmMessage(w, m).born = u.born
  BY <1>5, <1>6, <1>9, SendKeeps, SendParts
<1>11. QED
  BY <1>4, <1>7, <1>10 DEF NoNewStale

-----------------------------------------------------------------------------
(* The steps *)

LEMMA StaleOfUe ==
    /\ \A i : Stale(i) <=> StaleIn(Ue, i)
    /\ \A i : Owned(i) <=> OwnedIn(Ue, i)
    /\ Ue.pt = pt /\ Ue.ps = ps /\ Ue.ul = ul /\ Ue.born = spent.sessions
  BY DEF Stale, StaleIn, Owned, OwnedIn, Ue

LEMMA StaleOfUeNext == \A i : (Stale(i))' <=> StaleIn(Ue', i)
  BY DEF Stale, StaleIn, Owned, OwnedIn, Ue

(* What the UE's variables amount to, whatever changes them. *)
LEMMA UeOfVars ==
    ASSUME NEW v, UeInv(v), ps' = v.ps, pt' = v.pt, ul' \in Seq(Messages),
           spent'.sessions = v.born, spent'.taken \in BOOLEAN
    PROVE  UeInv(Ue') /\ \A i : StaleIn(Ue', i) <=> StaleIn(v, i)
<1>. DEFINE l == ul'
            b == spent'.taken
            w == [ps |-> v.ps, pt |-> v.pt, ul |-> l, born |-> v.born, taken |-> b]
<1>1. /\ v.ps \in [Psis -> Sessions] /\ v.pt \in [Ptis -> Transactions] /\ v.born \in Nat
      /\ l \in Seq(Messages) /\ b \in BOOLEAN
  BY UeParts DEF UeInv
<1>2. Ue' = w
  BY DEF Ue
<1>. HIDE DEF l, b
<1>3. w \in UeStates /\ w.ps = v.ps /\ w.pt = v.pt /\ w.born = v.born
  BY <1>1 DEF UeStates
<1>. HIDE DEF w
<1>4. UeInv(w)
  BY <1>3 DEF UeInv
<1>5. \A i : StaleIn(w, i) <=> StaleIn(v, i)
  BY <1>3 DEF StaleIn, OwnedIn
<1>6. QED
  BY <1>2, <1>4, <1>5

(* A step that is a handler of the UE, the network untouched. *)
LEMMA UeStepKeeps ==
    ASSUME Inv, NEW v, UeInv(v), Become(v),
           dl' \in Seq(Messages), amf' = amf, smf' = smf, smfUp' = smfUp,
           spent' \in Spents, spent'.sessions = v.born,
           spent'.smfReleases = spent.smfReleases
    PROVE  Inv' /\ \A i : StaleIn(Ue', i) <=> StaleIn(v, i)
<1>1. ps' = v.ps /\ pt' = v.pt /\ ul' \in Seq(Messages) /\ spent'.taken \in BOOLEAN
  BY UeParts DEF Become, UeInv, Spents
<1>2. UeInv(Ue') /\ \A i : StaleIn(Ue', i) <=> StaleIn(v, i)
  BY <1>1, UeOfVars
<1>3. Types'
  BY <1>2 DEF Inv, Types
<1>4. StreamsInv' /\ ReplyHasStream'
  BY DEF Inv, StreamsInv, ReplyHasStream
<1>5. QED
  BY <1>2, <1>3, <1>4 DEF Inv

(* A step of the network, the UE untouched. *)
LEMMA NetworkStepKeeps ==
    ASSUME Inv, ps' = ps, pt' = pt, ul' \in Seq(Messages), dl' \in Seq(Messages),
           amf' \in [Psis -> AmfSessions], smf' \in [Psis -> SmfSessions],
           smfUp' \in BOOLEAN, spent' \in Spents, spent'.sessions = spent.sessions,
           spent'.smfReleases = 0 => smfUp' /\ \A psi \in Psis : StreamsOk(smf'[psi])
    PROVE  Inv'
<1>1. UeInv(Ue) /\ Ue.ps = ps /\ Ue.pt = pt /\ Ue.born = spent.sessions
  BY StaleOfUe DEF Inv, Types
<1>2. spent'.taken \in BOOLEAN /\ spent'.smfReleases \in Nat
  BY DEF Spents
<1>3. UeInv(Ue')
  BY <1>1, <1>2, UeOfVars
<1>4. Types'
  BY <1>3 DEF Types
<1>5. StreamsInv' /\ ReplyHasStream'
  BY <1>2 DEF StreamsInv, ReplyHasStream
<1>6. QED
  BY <1>4, <1>5 DEF Inv

(* What every step of the network finds. *)
LEMMA NetworkTypes ==
    ASSUME Inv
    PROVE  /\ ul \in Seq(Messages) /\ dl \in Seq(Messages)
           /\ amf \in [Psis -> AmfSessions] /\ smf \in [Psis -> SmfSessions]
           /\ smfUp \in BOOLEAN /\ spent \in Spents
           /\ spent.smfReleases = 0 => smfUp /\ \A psi \in Psis : StreamsOk(smf[psi])
           /\ <<>> \in Seq(Messages)
           /\ \A q \in Seq(Messages) : \A m \in Messages :
                 Append(q, m) \in Seq(Messages) /\ q \o <<m>> \in Seq(Messages)
           /\ ul # <<>> => /\ Tail(ul) \in Seq(Messages) /\ Head(ul) \in Messages
                           /\ Head(ul).psi \in Psis /\ Head(ul).pti \in 0..MaxPti
<1>1. Ue \in UeStates /\ Ue.ul = ul
  BY DEF Inv, Types, UeInv, Ue
<1>2. ul \in Seq(Messages) /\ dl \in Seq(Messages) /\ spent \in Spents
  BY <1>1, UeParts DEF Inv, Types
<1>3. spent.smfReleases = 0 => smfUp /\ \A psi \in Psis : StreamsOk(smf[psi])
  BY DEF Inv, StreamsInv, ReplyHasStream
<1>4. ul # <<>> => /\ Tail(ul) \in Seq(Messages) /\ Head(ul) \in Messages
                   /\ Head(ul).psi \in Psis /\ Head(ul).pti \in 0..MaxPti
  <2>. SUFFICES ASSUME ul # <<>> PROVE Head(ul) \in Messages /\ Tail(ul) \in Seq(Messages)
    BY DEF Messages
  <2>1. QED
    BY <1>2, TailParts
<1>5. /\ <<>> \in Seq(Messages)
      /\ \A q \in Seq(Messages) : \A m \in Messages :
            Append(q, m) \in Seq(Messages) /\ q \o <<m>> \in Seq(Messages)
  OBVIOUS
<1>6. QED
  BY <1>2, <1>3, <1>4, <1>5 DEF Inv, Types

(* A step of the network on one session. *)
LEMMA SessionStepKeeps ==
    ASSUME Inv, NEW psi \in Psis, NEW a \in AmfSessions, NEW s \in SmfSessions,
           NEW up \in Seq(Messages), NEW down \in Seq(Messages),
           Network(psi, a, s, up, down),
           spent' \in Spents, spent'.sessions = spent.sessions,
           spent'.smfReleases = 0 => spent.smfReleases = 0 /\ StreamsOk(s)
    PROVE  Inv'
<1>1. /\ dl \in Seq(Messages) /\ amf \in [Psis -> AmfSessions]
      /\ smf \in [Psis -> SmfSessions] /\ smfUp \in BOOLEAN
      /\ spent.smfReleases = 0 => smfUp /\ \A i \in Psis : StreamsOk(smf[i])
  BY NetworkTypes
<1>2. /\ amf' = [amf EXCEPT ![psi] = a] /\ smf' = [smf EXCEPT ![psi] = s]
      /\ ul' = up /\ dl' = dl \o down /\ ps' = ps /\ pt' = pt /\ smfUp' = smfUp
  BY DEF Network
<1>3. dl' \in Seq(Messages)
  BY <1>1, <1>2
<1>4. amf' \in [Psis -> AmfSessions] /\ smf' \in [Psis -> SmfSessions]
  BY <1>1, <1>2
<1>5. spent'.smfReleases = 0 => \A i \in Psis : StreamsOk(smf'[i])
  BY <1>1, <1>2
<1>6. QED
  BY <1>1, <1>2, <1>3, <1>4, <1>5, NetworkStepKeeps

-----------------------------------------------------------------------------
(* The AMF's and the SMF's records *)

LEMMA NoneTypes ==
    /\ NoAmf \in AmfSessions
    /\ NoSmf \in SmfSessions /\ StreamsOk(NoSmf)
<1>1. NoAmf \in AmfSessions
  BY Constants DEF NoAmf, AmfSessions, Message
<1>2. NoSmf \in SmfSessions
  <2>1. [k \in Kinds |-> 0] \in [Kinds -> Nat]
    OBVIOUS
  <2>2. QED
    BY <2>1, Constants DEF NoSmf, SmfSessions
<1>3. StreamsOk(NoSmf)
  BY DEF NoSmf, StreamsOk, Kinds
<1>4. QED
  BY <1>1, <1>2, <1>3

LEMMA FreshSmf ==
    ASSUME NEW pti \in 0..MaxPti
    PROVE  LET s == [NoSmf EXCEPT !.state = "active", !.pti = pti]
           IN  s \in SmfSessions /\ StreamsOk(s)
<1>1. [NoSmf EXCEPT !.state = "active", !.pti = pti] \in SmfSessions
  BY NoneTypes DEF SmfSessions
<1>2. QED
  BY <1>1 DEF NoSmf, StreamsOk, Kinds

LEMMA SmfParts ==
    ASSUME NEW s \in SmfSessions
    PROVE  /\ s.asked \in [Kinds -> Nat] /\ s.open \in BOOLEAN /\ s.pti \in 0..MaxPti
           /\ s.released \in SUBSET AllParts
  BY DEF SmfSessions

(* What the AMF's record becomes. *)
LEMMA AmfParts ==
    ASSUME NEW a \in AmfSessions
    PROVE  /\ a.ref \in BOOLEAN /\ a.released \in SUBSET AllParts /\ a.waiting \in Nat
           /\ a.last.pti \in 0..MaxPti
           /\ \A n \in Nat : [a EXCEPT !.waiting = n] \in AmfSessions
           /\ [a EXCEPT !.ref = TRUE] \in AmfSessions
           /\ AmfSessClear(a) \in AmfSessions
<1>1. /\ a.ref \in BOOLEAN /\ a.released \in SUBSET AllParts /\ a.waiting \in Nat
      /\ a.last.pti \in 0..MaxPti
  BY DEF AmfSessions
<1>2. \A n \in Nat : [a EXCEPT !.waiting = n] \in AmfSessions
  BY DEF AmfSessions
<1>3. [a EXCEPT !.ref = TRUE] \in AmfSessions
  BY DEF AmfSessions
<1>4. AmfSessClear(a) \in AmfSessions
  BY NoneTypes DEF AmfSessClear
<1>5. QED
  BY <1>1, <1>2, <1>3, <1>4

LEMMA NotedType ==
    ASSUME amf \in [Psis -> AmfSessions], NEW m \in Messages
    PROVE  Noted(m) \in AmfSessions
<1>. DEFINE a == amf[m.psi]
            r == IF m.type = "establish" THEN {} ELSE a.released
<1>1. m.psi \in Psis /\ a \in AmfSessions
  BY DEF Messages
<1>2. r \in SUBSET AllParts
  BY <1>1, AmfParts
<1>3. m \in [type: Types5gsm \cup {"none"}, psi: 0..MaxPsi, pti: 0..MaxPti]
  BY Constants DEF Messages, Psis
<1>4. Noted(m) = [a EXCEPT !.last = m, !.released = r]
  BY DEF Noted
<1>. HIDE DEF a, r
<1>5. [a EXCEPT !.last = m, !.released = r] \in AmfSessions
  BY <1>1, <1>2, <1>3 DEF AmfSessions
<1>6. QED
  BY <1>4, <1>5

LEMMA ClearedType ==
    ASSUME NEW a \in AmfSessions, NEW m \in Messages
    PROVE  ClearedByParts(a, m) \in AmfSessions
<1>. DEFINE parts == a.released \cup Part(m)
            b == a.ref /\ ~(Part(m) # {} /\ parts = AllParts)
<1>1. parts \in SUBSET AllParts
  <2>1. Part(m) \in SUBSET AllParts
    BY DEF Part, AllParts
  <2>2. QED
    BY <2>1, AmfParts
<1>2. b \in BOOLEAN
  OBVIOUS
<1>3. ClearedByParts(a, m) = [a EXCEPT !.released = parts, !.ref = b]
  BY DEF ClearedByParts
<1>. HIDE DEF parts, b
<1>4. [a EXCEPT !.released = parts, !.ref = b] \in AmfSessions
  BY <1>1, <1>2 DEF AmfSessions
<1>5. QED
  BY <1>3, <1>4

LEMMA AbandonedType ==
    ASSUME NEW a \in AmfSessions, NEW s \in SmfSessions
    PROVE  Abandoned(a, s) \in AmfSessions
<1>1. Streams(s) \in Nat
  BY SmfParts DEF Streams, Kinds
<1>2. a.waiting + Streams(s) \in Nat
  <2>1. a.waiting \in Nat
    BY AmfParts
  <2>2. QED
    BY <1>1, <2>1
<1>3. QED
  BY <1>2, AmfParts DEF Abandoned

(* What the SMF's record becomes: another count of open answers, and         *)
(* another state.                                                            *)
LEMMA AskedType ==
    ASSUME NEW s \in SmfSessions, NEW k \in Kinds, NEW n \in Nat
    PROVE  LET t == [s EXCEPT !.asked[k] = n]
           IN  /\ t \in SmfSessions
               /\ t.state = s.state /\ t.by = s.by /\ t.open = s.open /\ t.pti = s.pti
               /\ t.asked[k] = n /\ \A i \in Kinds \ {k} : t.asked[i] = s.asked[i]
<1>. DEFINE f == [s.asked EXCEPT ![k] = n]
            t == [s EXCEPT !.asked = f]
<1>1. f \in [Kinds -> Nat] /\ f[k] = n /\ \A i \in Kinds \ {k} : f[i] = s.asked[i]
  BY SmfParts
<1>2. [s EXCEPT !.asked[k] = n] = t
  OBVIOUS
<1>. HIDE DEF f
<1>3. /\ t \in SmfSessions /\ t.asked = f
      /\ t.state = s.state /\ t.by = s.by /\ t.open = s.open /\ t.pti = s.pti
  BY <1>1 DEF SmfSessions
<1>. HIDE DEF t
<1>4. QED
  BY <1>1, <1>2, <1>3

-----------------------------------------------------------------------------
(* The steps of the network *)

(* One that leaves the bounds alone. *)
LEMMA QuietStepKeeps ==
    ASSUME Inv, NEW psi \in Psis, NEW a \in AmfSessions, NEW s \in SmfSessions,
           NEW up \in Seq(Messages), NEW down \in Seq(Messages),
           Network(psi, a, s, up, down), spent' = spent,
           spent.smfReleases = 0 => StreamsOk(s)
    PROVE  Inv'
<1>1. spent \in Spents
  BY NetworkTypes
<1>2. QED
  BY <1>1, SessionStepKeeps

LEMMA ReplyType ==
    ASSUME NEW type \in Types5gsm, NEW psi \in Psis, NEW pti \in 0..MaxPti
    PROVE  <<Message(type, psi, pti)>> \in Seq(Messages)
  BY MessageParts

LEMMA CreateKeeps ==
    ASSUME Inv, NEW psi \in Psis, NEW a \in AmfSessions, NEW s \in SmfSessions,
           NEW up \in Seq(Messages), Create(psi, a, s, up), spent' = spent
    PROVE  Inv'
<1>. DEFINE b == Abandoned(a, s)
            c == [b EXCEPT !.ref = TRUE]
            t == [NoSmf EXCEPT !.state = "active", !.pti = a.last.pti]
<1>1. /\ b \in AmfSessions /\ c \in AmfSessions /\ AmfSessClear(b) \in AmfSessions
      /\ a.last.pti \in 0..MaxPti
  BY AbandonedType, AmfParts
<1>2. t \in SmfSessions /\ StreamsOk(t)
  BY <1>1, FreshSmf
<1>3. \A type \in {"accept", "reject", "sent back"} :
         <<Message(type, psi, a.last.pti)>> \in Seq(Messages)
  <2>1. {"accept", "reject", "sent back"} \subseteq Types5gsm
    BY DEF Types5gsm
  <2>2. QED
    BY <1>1, <2>1, ReplyType
<1>4. \/ Network(psi, c, t, up, <<Message("accept", psi, a.last.pti)>>)
      \/ \E type \in {"reject", "sent back"} :
            Network(psi, AmfSessClear(b), NoSmf, up, <<Message(type, psi, a.last.pti)>>)
  BY DEF Create
<1>. HIDE DEF b, c, t
<1>5. CASE Network(psi, c, t, up, <<Message("accept", psi, a.last.pti)>>)
  BY <1>1, <1>2, <1>3, <1>5, QuietStepKeeps
<1>6. CASE \E type \in {"reject", "sent back"} :
              Network(psi, AmfSessClear(b), NoSmf, up, <<Message(type, psi, a.last.pti)>>)
  <2>1. PICK type \in {"reject", "sent back"} :
              Network(psi, AmfSessClear(b), NoSmf, up, <<Message(type, psi, a.last.pti)>>)
    BY <1>6
  <2>2. <<Message(type, psi, a.last.pti)>> \in Seq(Messages)
    BY <1>3
  <2>3. QED
    BY <1>1, <2>1, <2>2, NoneTypes, QuietStepKeeps
<1>7. QED
  BY <1>4, <1>5, <1>6

LEMMA ClearKeeps ==
    ASSUME Inv, NEW psi \in Psis, NEW a \in AmfSessions, NEW up \in Seq(Messages),
           SmfSessClear(psi, a, up),
           spent' \in Spents, spent'.sessions = spent.sessions,
           spent'.smfReleases = 0 => spent.smfReleases = 0
    PROVE  Inv'
<1>1. smf[psi] \in SmfSessions /\ <<>> \in Seq(Messages)
  BY NetworkTypes
<1>2. Abandoned(a, smf[psi]) \in AmfSessions
  BY <1>1, AbandonedType
<1>3. Network(psi, Abandoned(a, smf[psi]), NoSmf, up, <<>>)
  BY DEF SmfSessClear
<1>4. QED
  BY <1>1, <1>2, <1>3, NoneTypes, SessionStepKeeps

LEMMA CreateSmContextKeeps ==
    ASSUME Inv, CreateSmContext
    PROVE  Inv'
<1>1. ul # <<>> /\ Create(Head(ul).psi, Noted(Head(ul)), smf[Head(ul).psi], Tail(ul))
      /\ spent' = spent
  BY DEF CreateSmContext, Requested
<1>2. /\ Head(ul) \in Messages /\ Head(ul).psi \in Psis /\ Tail(ul) \in Seq(Messages)
      /\ amf \in [Psis -> AmfSessions] /\ smf[Head(ul).psi] \in SmfSessions
  BY <1>1, NetworkTypes
<1>3. Noted(Head(ul)) \in AmfSessions
  BY <1>2, NotedType
<1>4. QED
  BY <1>1, <1>2, <1>3, CreateKeeps

LEMMA ReleaseDuplicateKeeps ==
    ASSUME Inv, ReleaseDuplicate
    PROVE  Inv'
<1>. DEFINE psi == Head(ul).psi
            s == smf[psi]
            a == Noted(Head(ul))
            b == [a EXCEPT !.waiting = @ + 1]
            t == [s EXCEPT !.asked["amf"] = @ + 1]
            r == [s EXCEPT !.by = "amf", !.open = TRUE]
<1>1. ul # <<>>
  BY DEF ReleaseDuplicate, Requested
<1>2. /\ Head(ul) \in Messages /\ psi \in Psis /\ Tail(ul) \in Seq(Messages)
      /\ amf \in [Psis -> AmfSessions] /\ s \in SmfSessions /\ <<>> \in Seq(Messages)
      /\ spent.smfReleases = 0 => StreamsOk(s)
  BY <1>1, NetworkTypes
<1>3. a \in AmfSessions
  BY <1>2, NotedType
<1>4. /\ spent' = spent
      /\ \/ Network(psi, a, s, Tail(ul), <<>>)
         \/ s.state = "active" /\ Network(psi, a, t, Tail(ul), <<>>)
         \/ Network(psi, a, r, Tail(ul), <<>>)
         \/ Network(psi, b, s, Tail(ul), <<>>)
         \/ SmfSessClear(psi, a, Tail(ul))
  BY DEF ReleaseDuplicate
<1>. HIDE DEF psi, s, a
<1>5. b \in AmfSessions
  <2>1. a.waiting + 1 \in Nat
    <3>1. a.waiting \in Nat
      BY <1>3, AmfParts
    <3>2. QED
      BY <3>1
  <2>2. QED
    BY <1>3, <2>1, AmfParts
<1>6. t \in SmfSessions /\ (StreamsOk(s) => StreamsOk(t))
  <2>1. s.asked["amf"] + 1 \in Nat /\ "amf" \in Kinds
    BY <1>2, SmfParts DEF Kinds
  <2>. DEFINE n == s.asked["amf"] + 1
  <2>2. t = [s EXCEPT !.asked["amf"] = n]
    OBVIOUS
  <2>. HIDE DEF n, t
  <2>3. /\ t \in SmfSessions /\ t.state = s.state /\ t.by = s.by /\ t.open = s.open
        /\ \A i \in Kinds \ {"amf"} : t.asked[i] = s.asked[i]
    BY <1>2, <2>1, <2>2, AskedType DEF n
  <2>4. QED
    BY <2>3 DEF StreamsOk, Kinds
<1>7. r \in SmfSessions /\ (StreamsOk(s) => StreamsOk(r))
  BY <1>2 DEF SmfSessions, StreamsOk
<1>. HIDE DEF b, t, r
<1>8. CASE SmfSessClear(psi, a, Tail(ul))
  <2>1. spent \in Spents
    BY NetworkTypes
  <2>2. QED
    BY <1>2, <1>3, <1>4, <1>8, <2>1, ClearKeeps
<1>9. CASE \/ Network(psi, a, s, Tail(ul), <<>>) \/ Network(psi, b, s, Tail(ul), <<>>)
           \/ Network(psi, a, t, Tail(ul), <<>>) \/ Network(psi, a, r, Tail(ul), <<>>)
  BY <1>2, <1>3, <1>4, <1>5, <1>6, <1>7, <1>9, QuietStepKeeps
<1>10. QED
  BY <1>4, <1>8, <1>9

LEMMA NoSessionContextKeeps ==
    ASSUME Inv, NoSessionContext
    PROVE  Inv'
<1>. DEFINE m == Head(ul)
            c == Message("sent back", m.psi, m.pti)
<1>1. ul # <<>>
  BY DEF NoSessionContext
<1>2. /\ m \in Messages /\ m.psi \in Psis /\ m.pti \in 0..MaxPti /\ Tail(ul) \in Seq(Messages)
      /\ amf \in [Psis -> AmfSessions] /\ amf[m.psi] \in AmfSessions
      /\ smf[m.psi] \in SmfSessions /\ <<>> \in Seq(Messages)
      /\ spent.smfReleases = 0 => StreamsOk(smf[m.psi])
  BY <1>1, NetworkTypes
<1>3. Noted(m) \in AmfSessions
  BY <1>2, NotedType
<1>4. <<c>> \in Seq(Messages)
  <2>1. "sent back" \in Types5gsm
    BY DEF Types5gsm
  <2>2. QED
    BY <1>2, <2>1, ReplyType
<1>5. /\ spent' = spent
      /\ \/ Network(m.psi, amf[m.psi], smf[m.psi], Tail(ul), <<>>)
         \/ Network(m.psi, Noted(m), smf[m.psi], Tail(ul), <<c>>)
  BY DEF NoSessionContext
<1>. HIDE DEF m, c
<1>6. QED
  BY <1>2, <1>3, <1>4, <1>5, QuietStepKeeps

LEMMA UpdateKeeps ==
    ASSUME Inv, UpdateSmContext
    PROVE  Inv'
<1>. DEFINE m == Head(ul)
            s == smf[m.psi]
            o == IF m.type = "n2 released" THEN amf[m.psi] ELSE Noted(m)
            a == ClearedByParts(o, m)
            b == [a EXCEPT !.waiting = @ + 1]
            t == IF m.type = "n2 released" THEN s ELSE [s EXCEPT !.pti = m.pti]
            d == [t EXCEPT !.asked["ue"] = @ + 1]
            parts == t.released \cup Part(m)
            q == [t EXCEPT !.released = parts,
                           !.state = IF parts = AllParts THEN "leaving" ELSE @]
<1>1. ul # <<>>
  BY DEF UpdateSmContext
<1>2. /\ m \in Messages /\ m.psi \in Psis /\ m.pti \in 0..MaxPti /\ Tail(ul) \in Seq(Messages)
      /\ amf \in [Psis -> AmfSessions] /\ amf[m.psi] \in AmfSessions
      /\ s \in SmfSessions /\ <<>> \in Seq(Messages) /\ spent \in Spents
      /\ spent.smfReleases = 0 => StreamsOk(s)
  BY <1>1, NetworkTypes
<1>3. a \in AmfSessions
  <2>1. o \in AmfSessions
    BY <1>2, NotedType
  <2>2. QED
    BY <1>2, <2>1, ClearedType
<1>4. /\ spent' = spent
      /\ \/ Network(m.psi, a, s, Tail(ul), <<>>)
         \/ Network(m.psi, a, d, Tail(ul), <<>>)
         \/ Network(m.psi, a, t, Tail(ul), <<>>)
         \/ Network(m.psi, b, s, Tail(ul), <<>>)
         \/ s.state = "releasing" /\ Network(m.psi, a, q, Tail(ul), <<>>)
         \/ SmfSessClear(m.psi, a, Tail(ul))
  BY DEF UpdateSmContext, InOperation, InRelease
<1>5. Part(m) \in SUBSET AllParts
  BY DEF Part, AllParts
<1>. HIDE DEF m, s, o, a
<1>6. b \in AmfSessions
  <2>1. a.waiting + 1 \in Nat
    <3>1. a.waiting \in Nat
      BY <1>3, AmfParts
    <3>2. QED
      BY <3>1
  <2>2. QED
    BY <1>3, <2>1, AmfParts
<1>7. /\ t \in SmfSessions /\ t.state = s.state /\ t.by = s.by /\ t.open = s.open
      /\ t.asked = s.asked /\ t.released = s.released
  BY <1>2 DEF SmfSessions
<1>8. StreamsOk(s) => StreamsOk(t)
  BY <1>7 DEF StreamsOk
<1>. HIDE DEF t
<1>9. d \in SmfSessions /\ (StreamsOk(s) => StreamsOk(d))
  <2>1. t.asked["ue"] + 1 \in Nat /\ "ue" \in Kinds
    BY <1>7, SmfParts DEF Kinds
  <2>. DEFINE n == t.asked["ue"] + 1
  <2>2. d = [t EXCEPT !.asked["ue"] = n]
    OBVIOUS
  <2>. HIDE DEF n, d
  <2>3. /\ d \in SmfSessions /\ d.state = t.state /\ d.by = t.by /\ d.open = t.open
        /\ \A i \in Kinds \ {"ue"} : d.asked[i] = t.asked[i]
    BY <1>7, <2>1, <2>2, AskedType DEF n
  <2>4. QED
    BY <1>8, <2>3 DEF StreamsOk, Kinds
<1>10. s.state = "releasing" => q \in SmfSessions /\ (StreamsOk(s) => StreamsOk(q))
  <2>. SUFFICES ASSUME s.state = "releasing"
                PROVE  q \in SmfSessions /\ (StreamsOk(s) => StreamsOk(q))
    OBVIOUS
  <2>. DEFINE w == IF parts = AllParts THEN "leaving" ELSE t.state
  <2>1. parts \in SUBSET AllParts /\ w \in {"releasing", "leaving"}
    BY <1>5, <1>7, SmfParts
  <2>2. q = [t EXCEPT !.released = parts, !.state = w]
    OBVIOUS
  <2>. HIDE DEF w, parts, q
  <2>3. /\ q \in SmfSessions /\ q.state = w /\ q.by = s.by /\ q.open = s.open
        /\ q.asked = s.asked
    BY <1>7, <2>1, <2>2 DEF SmfSessions
  <2>4. QED
    BY <2>1, <2>3 DEF StreamsOk
<1>. HIDE DEF b, d, q
<1>11. CASE SmfSessClear(m.psi, a, Tail(ul))
  BY <1>2, <1>3, <1>4, <1>11, ClearKeeps
<1>12. CASE \/ Network(m.psi, a, s, Tail(ul), <<>>) \/ Network(m.psi, b, s, Tail(ul), <<>>)
            \/ Network(m.psi, a, d, Tail(ul), <<>>) \/ Network(m.psi, a, t, Tail(ul), <<>>)
  BY <1>2, <1>3, <1>4, <1>6, <1>7, <1>8, <1>9, <1>12, QuietStepKeeps
<1>13. CASE s.state = "releasing" /\ Network(m.psi, a, q, Tail(ul), <<>>)
  BY <1>2, <1>3, <1>4, <1>10, <1>13, QuietStepKeeps
<1>14. QED
  BY <1>4, <1>11, <1>12, <1>13

(* What an event that counts against the bounds does to the counts. *)
LEMMA SpendType ==
    ASSUME Inv, NEW what \in {"releases", "smfReleases", "faults"}, NEW max, Spend(what, max)
    PROVE  /\ spent' \in Spents /\ spent'.sessions = spent.sessions
           /\ what = "smfReleases" => spent'.smfReleases # 0
           /\ what # "smfReleases" => spent'.smfReleases = spent.smfReleases
<1>1. spent \in Spents /\ spent' = [spent EXCEPT ![what] = @ + 1]
  BY NetworkTypes DEF Spend
<1>2. CASE what = "releases"
  BY <1>1, <1>2 DEF Spents
<1>3. CASE what = "smfReleases"
  BY <1>1, <1>3 DEF Spents
<1>4. CASE what = "faults"
  BY <1>1, <1>4 DEF Spents
<1>5. QED
  BY <1>2, <1>3, <1>4

LEMMA ClientWaitKeeps ==
    ASSUME Inv, NEW psi \in Psis, ClientWait(psi)
    PROVE  Inv'
<1>. DEFINE a == amf[psi]
            b == [a EXCEPT !.waiting = @ - 1]
            m == Message("sent back", psi, a.last.pti)
<1>1. /\ a \in AmfSessions /\ smf[psi] \in SmfSessions /\ ul \in Seq(Messages)
      /\ spent.smfReleases = 0 => StreamsOk(smf[psi])
  BY NetworkTypes
<1>2. Network(psi, b, smf[psi], ul, <<m>>)
  BY DEF ClientWait
<1>0. a.waiting > 0
  BY DEF ClientWait
<1>3. spent' \in Spents /\ spent'.sessions = spent.sessions
      /\ spent'.smfReleases = spent.smfReleases
  BY SpendType DEF ClientWait
<1>. HIDE DEF a
<1>4. b \in AmfSessions
  <2>1. a.waiting \in Nat
    BY <1>1, AmfParts
  <2>2. a.waiting - 1 \in Nat
    BY <1>0, <2>1
  <2>3. QED
    BY <1>1, <2>2, AmfParts
<1>5. <<m>> \in Seq(Messages)
  <2>1. "sent back" \in Types5gsm
    BY DEF Types5gsm
  <2>2. a.last.pti \in 0..MaxPti
    BY <1>1, AmfParts
  <2>3. QED
    BY <2>1, <2>2, ReplyType
<1>. HIDE DEF b, m
<1>6. QED
  BY <1>1, <1>2, <1>3, <1>4, <1>5, SessionStepKeeps

LEMMA InitiateKeeps ==
    ASSUME Inv, NEW psi \in Psis, SmfInitiatesRelease(psi)
    PROVE  Inv'
<1>. DEFINE s == smf[psi]
            t == [s EXCEPT !.asked["smf"] = @ + 1]
<1>1. /\ amf[psi] \in AmfSessions /\ s \in SmfSessions /\ ul \in Seq(Messages)
      /\ <<>> \in Seq(Messages)
  BY NetworkTypes
<1>2. Network(psi, amf[psi], t, ul, <<>>) \/ SmfSessClear(psi, amf[psi], ul)
  BY DEF SmfInitiatesRelease
<1>3. spent' \in Spents /\ spent'.sessions = spent.sessions /\ spent'.smfReleases # 0
  BY SpendType DEF SmfInitiatesRelease
<1>. HIDE DEF s
<1>4. t \in SmfSessions
  <2>1. s.asked["smf"] + 1 \in Nat /\ "smf" \in Kinds
    BY <1>1, SmfParts DEF Kinds
  <2>. DEFINE n == s.asked["smf"] + 1
  <2>2. t = [s EXCEPT !.asked["smf"] = n]
    OBVIOUS
  <2>. HIDE DEF n, t
  <2>3. QED
    BY <1>1, <2>1, <2>2, AskedType DEF n
<1>. HIDE DEF t
<1>5. CASE Network(psi, amf[psi], t, ul, <<>>)
  BY <1>1, <1>3, <1>4, <1>5, SessionStepKeeps
<1>6. CASE SmfSessClear(psi, amf[psi], ul)
  BY <1>1, <1>3, <1>6, ClearKeeps
<1>7. QED
  BY <1>2, <1>5, <1>6

LEMMA CommandedKeeps ==
    ASSUME Inv, NEW psi \in Psis, NEW s \in SmfSessions, NEW type \in {"command", "reactivate"},
           Commanded(psi, s, type), spent' = spent,
           spent.smfReleases = 0 => StreamsOk(s)
    PROVE  Inv'
<1>. DEFINE n == Message("n2 released", psi, 0)
            m == Message(type, psi, s.pti)
<1>1. type \in Types5gsm /\ "n2 released" \in Types5gsm
  BY Zenon DEF Types5gsm
<1>2. s.pti \in 0..MaxPti /\ 0 \in 0..MaxPti
  BY SmfParts, Constants
<1>3. n \in Messages /\ <<m>> \in Seq(Messages)
  BY <1>1, <1>2, MessageParts, ReplyType
<1>4. Network(psi, amf[psi], s, Append(ul, n), <<m>>)
  BY DEF Commanded
<1>. HIDE DEF n, m
<1>5. Append(ul, n) \in Seq(Messages) /\ amf[psi] \in AmfSessions
  BY <1>3, NetworkTypes
<1>6. QED
  BY <1>3, <1>4, <1>5, QuietStepKeeps

(* An answer of the PCF taken. *)
LEMMA AnsweredType ==
    ASSUME Inv, NEW psi \in Psis, NEW k \in Kinds, smf[psi].asked[k] > 0
    PROVE  LET s == smf[psi]
               t == [s EXCEPT !.asked[k] = @ - 1]
           IN  /\ s \in SmfSessions /\ t \in SmfSessions
               /\ t.state = s.state /\ t.by = s.by /\ t.open = s.open /\ t.pti = s.pti
               /\ \A i \in Kinds \ {k} : t.asked[i] = s.asked[i]
               /\ t.asked[k] = s.asked[k] - 1
               /\ spent.smfReleases = 0 => StreamsOk(t) /\ k \in {"ue", "amf"}
<1>. DEFINE s == smf[psi]
            n == s.asked[k] - 1
            t == [s EXCEPT !.asked[k] = n]
<1>1. s \in SmfSessions /\ (spent.smfReleases = 0 => StreamsOk(s))
  BY NetworkTypes
<1>2. [s EXCEPT !.asked[k] = @ - 1] = t /\ s.asked[k] > 0
  OBVIOUS
<1>. HIDE DEF s
<1>3. n \in Nat
  <2>1. s.asked[k] \in Nat
    BY <1>1, SmfParts
  <2>2. QED
    BY <1>2, <2>1
<1>4. n = s.asked[k] - 1
  OBVIOUS
<1>. HIDE DEF n
<1>5. /\ t \in SmfSessions
      /\ t.state = s.state /\ t.by = s.by /\ t.open = s.open /\ t.pti = s.pti
      /\ t.asked[k] = n /\ \A i \in Kinds \ {k} : t.asked[i] = s.asked[i]
  BY <1>1, <1>3, AskedType
<1>. HIDE DEF t
<1>6. StreamsOk(s) => StreamsOk(t) /\ k \in {"ue", "amf"}
  BY <1>2, <1>5 DEF StreamsOk, Kinds
<1>7. QED
  BY <1>1, <1>2, <1>4, <1>5, <1>6 DEF s

LEMMA PolicyDeletedKeeps ==
    ASSUME Inv, NEW psi \in Psis, NEW k \in Kinds, PolicyDeleted(psi, k)
    PROVE  Inv'
<1>. DEFINE s == [smf[psi] EXCEPT !.asked[k] = @ - 1]
            w == IF k = "lost" THEN "none" ELSE k
            o == (k # "lost")
            t1 == [s EXCEPT !.state = "releasing", !.by = "smf", !.pti = 0]
            t2 == [s EXCEPT !.state = "deleting", !.by = w, !.open = o]
<1>1. /\ smf[psi].asked[k] > 0 /\ spent' = spent
      /\ \/ k = "smf" /\ Commanded(psi, t1, "reactivate")
         \/ k # "smf" /\ Network(psi, amf[psi], t2, ul, <<>>)
  BY DEF PolicyDeleted
<1>2. s \in SmfSessions /\ (spent.smfReleases = 0 => StreamsOk(s) /\ k \in {"ue", "amf"})
  BY <1>1, AnsweredType
<1>3. amf[psi] \in AmfSessions /\ ul \in Seq(Messages) /\ <<>> \in Seq(Messages)
  BY NetworkTypes
<1>. HIDE DEF s
<1>4. CASE k = "smf" /\ Commanded(psi, t1, "reactivate")
  <2>1. t1 \in SmfSessions
    <3>1. 0 \in 0..MaxPti
      BY Constants
    <3>2. QED
      BY <1>2, <3>1 DEF SmfSessions
  <2>2. spent.smfReleases # 0
    BY <1>2, <1>4
  <2>. HIDE DEF t1
  <2>3. QED
    BY <1>1, <1>4, <2>1, <2>2, CommandedKeeps
<1>5. CASE k # "smf" /\ Network(psi, amf[psi], t2, ul, <<>>)
  <2>1. w \in {"none", "ue", "amf"} /\ o \in BOOLEAN /\ (k \in {"ue", "amf"} => o)
    BY <1>5 DEF Kinds
  <2>. HIDE DEF w, o
  <2>2. t2 \in SmfSessions /\ t2.state = "deleting" /\ t2.open = o /\ t2.asked = s.asked
    BY <1>2, <2>1 DEF SmfSessions
  <2>. HIDE DEF t2
  <2>3. spent.smfReleases = 0 => StreamsOk(t2)
    BY <1>2, <2>1, <2>2 DEF StreamsOk
  <2>4. QED
    BY <1>1, <1>3, <1>5, <2>2, <2>3, QuietStepKeeps
<1>6. QED
  BY <1>1, <1>4, <1>5

LEMMA PolicyDeletedAgainKeeps ==
    ASSUME Inv, NEW psi \in Psis, NEW k \in Kinds, PolicyDeletedAgain(psi, k)
    PROVE  Inv'
<1>. DEFINE s == [smf[psi] EXCEPT !.asked[k] = @ - 1]
            a == amf[psi]
            b == [a EXCEPT !.waiting = @ + 1]
            m == Message("release reject", psi, s.pti)
<1>1. /\ smf[psi].asked[k] > 0 /\ spent' = spent
      /\ \/ Network(psi, a, s, ul, <<m>>) \/ Network(psi, a, s, ul, <<>>)
         \/ Network(psi, b, s, ul, <<>>)
  BY DEF PolicyDeletedAgain
<1>2. s \in SmfSessions /\ (spent.smfReleases = 0 => StreamsOk(s))
  BY <1>1, AnsweredType
<1>3. a \in AmfSessions /\ ul \in Seq(Messages) /\ <<>> \in Seq(Messages)
  BY NetworkTypes
<1>. HIDE DEF s, a
<1>4. b \in AmfSessions
  <2>1. a.waiting \in Nat
    BY <1>3, AmfParts
  <2>2. a.waiting + 1 \in Nat
    BY <2>1
  <2>3. QED
    BY <1>3, <2>2, AmfParts
<1>5. <<m>> \in Seq(Messages)
  <2>1. "release reject" \in Types5gsm
    BY DEF Types5gsm
  <2>2. s.pti \in 0..MaxPti
    BY <1>2, SmfParts
  <2>3. QED
    BY <2>1, <2>2, ReplyType
<1>. HIDE DEF b, m
<1>6. QED
  BY <1>1, <1>2, <1>3, <1>4, <1>5, QuietStepKeeps

(* The SMF has started a release of its own, so of the streams nothing is said. *)
LEMMA OtherStreamKeeps ==
    ASSUME Inv, NEW psi \in Psis, RejectOnOtherStream(psi)
    PROVE  Inv'
<1>. DEFINE x == [smf[psi] EXCEPT !.asked["smf"] = @ - 1]
            rest == [smf EXCEPT ![psi] = x]
            m == Message("release reject", psi, smf[psi].pti)
<1>1. /\ ul \in Seq(Messages) /\ dl \in Seq(Messages) /\ smfUp \in BOOLEAN /\ spent \in Spents
      /\ amf \in [Psis -> AmfSessions] /\ smf \in [Psis -> SmfSessions]
  BY NetworkTypes
<1>2. PICK q \in Psis :
         /\ \/ \E k \in {"ue", "amf"} :
                  /\ smf[q].asked[k] > 0
                  /\ smf' = [rest EXCEPT ![q].asked[k] = @ - 1, ![q].asked["lost"] = @ + 1]
                  /\ amf' = amf
            \/ smf' = [rest EXCEPT ![q].open = FALSE] /\ amf' = amf
            \/ /\ amf[q].waiting > 0
               /\ smf' = rest /\ amf' = [amf EXCEPT ![q].waiting = @ - 1]
         /\ dl' = IF q = psi THEN Append(dl, m) ELSE dl
  BY DEF RejectOnOtherStream
<1>3. /\ smf[psi].asked["smf"] > 0 /\ ul' = ul /\ ps' = ps /\ pt' = pt /\ smfUp' = smfUp
      /\ spent' = spent
  BY DEF RejectOnOtherStream
<1>4. "smf" \in Kinds /\ "lost" \in Kinds /\ "ue" \in Kinds /\ "amf" \in Kinds
  BY DEF Kinds
<1>5. /\ x \in SmfSessions /\ spent.smfReleases # 0
      /\ \A i \in Kinds \ {"smf"} : x.asked[i] = smf[psi].asked[i]
  BY <1>3, <1>4, AnsweredType
<1>. HIDE DEF x
<1>6. /\ rest \in [Psis -> SmfSessions]
      /\ \A i \in Kinds \ {"smf"} : rest[q].asked[i] = smf[q].asked[i]
  BY <1>1, <1>5
<1>. HIDE DEF rest
<1>7. dl' \in Seq(Messages)
  <2>1. "release reject" \in Types5gsm
    BY DEF Types5gsm
  <2>2. smf[psi].pti \in 0..MaxPti
    BY <1>1, SmfParts
  <2>3. m \in Messages
    BY <2>1, <2>2, MessageParts
  <2>. HIDE DEF m
  <2>4. QED
    BY <1>1, <1>2, <2>3
<1>8. smf' \in [Psis -> SmfSessions] /\ amf' \in [Psis -> AmfSessions]
  <2>1. CASE \E k \in {"ue", "amf"} :
                /\ smf[q].asked[k] > 0
                /\ smf' = [rest EXCEPT ![q].asked[k] = @ - 1, ![q].asked["lost"] = @ + 1]
                /\ amf' = amf
    <3>1. PICK k \in {"ue", "amf"} :
                /\ smf[q].asked[k] > 0
                /\ smf' = [rest EXCEPT ![q].asked[k] = @ - 1, ![q].asked["lost"] = @ + 1]
                /\ amf' = amf
      BY <2>1
    <3>. DEFINE s == rest[q]
                n == s.asked[k] - 1
                y == [s EXCEPT !.asked[k] = n]
                l == y.asked["lost"] + 1
                z == [y EXCEPT !.asked["lost"] = l]
    <3>2. s \in SmfSessions
      BY <1>6
    <3>3. n \in Nat
      <4>1. s.asked[k] > 0 /\ s.asked[k] \in Nat
        <5>1. s.asked[k] = smf[q].asked[k]
          BY <1>4, <1>6
        <5>2. s.asked[k] \in Nat
          BY <1>4, <3>2, SmfParts
        <5>3. QED
          BY <3>1, <5>1, <5>2
      <4>2. QED
        BY <4>1
    <3>4. smf' = [rest EXCEPT ![q] = z]
      <4>. DEFINE g == [rest EXCEPT ![q] = y]
      <4>1. smf' = [g EXCEPT ![q].asked["lost"] = @ + 1]
        BY <3>1
      <4>. HIDE DEF y
      <4>2. g[q] = y
        BY <1>6
      <4>. HIDE DEF g
      <4>3. smf' = [g EXCEPT ![q] = z]
        BY <4>1, <4>2
      <4>. HIDE DEF z
      <4>4. QED
        BY <1>6, <4>3 DEF g
    <3>. HIDE DEF s, n
    <3>5. y \in SmfSessions
      BY <1>4, <3>2, <3>3, AskedType
    <3>. HIDE DEF y
    <3>6. l \in Nat
      <4>1. y.asked["lost"] \in Nat
        BY <1>4, <3>5, SmfParts
      <4>2. QED
        BY <4>1
    <3>. HIDE DEF l
    <3>7. z \in SmfSessions
      BY <1>4, <3>5, <3>6, AskedType
    <3>. HIDE DEF z
    <3>8. QED
      BY <1>1, <1>6, <3>1, <3>4, <3>7
  <2>2. CASE smf' = [rest EXCEPT ![q].open = FALSE] /\ amf' = amf
    <3>. DEFINE s == rest[q]
                y == [s EXCEPT !.open = FALSE]
    <3>1. s \in SmfSessions /\ smf' = [rest EXCEPT ![q] = y]
      BY <1>6, <2>2
    <3>. HIDE DEF s
    <3>2. y \in SmfSessions
      BY <3>1 DEF SmfSessions
    <3>. HIDE DEF y
    <3>3. QED
      BY <1>1, <1>6, <2>2, <3>1, <3>2
  <2>3. CASE /\ amf[q].waiting > 0
             /\ smf' = rest /\ amf' = [amf EXCEPT ![q].waiting = @ - 1]
    <3>. DEFINE a == amf[q]
                n == a.waiting - 1
                b == [a EXCEPT !.waiting = n]
    <3>1. a \in AmfSessions /\ amf' = [amf EXCEPT ![q] = b] /\ a.waiting > 0
      BY <1>1, <2>3
    <3>. HIDE DEF a
    <3>2. n \in Nat
      <4>1. a.waiting \in Nat
        BY <3>1, AmfParts
      <4>2. QED
        BY <3>1, <4>1
    <3>. HIDE DEF n
    <3>3. b \in AmfSessions
      BY <3>1, <3>2, AmfParts
    <3>. HIDE DEF b
    <3>4. QED
      BY <1>1, <1>6, <2>3, <3>1, <3>3
  <2>4. QED
    BY <1>2, <2>1, <2>2, <2>3
<1>9. QED
  BY <1>1, <1>3, <1>5, <1>7, <1>8, NetworkStepKeeps

(* ogs_assert(stream) fails: then the SMF had started a release of its own. *)
LEMMA AbortKeeps ==
    ASSUME Inv, NEW psi \in Psis, Abort, ~StreamsOk(smf[psi])
    PROVE  Inv'
<1>1. /\ ul \in Seq(Messages) /\ dl \in Seq(Messages) /\ spent \in Spents
      /\ amf \in [Psis -> AmfSessions] /\ smf \in [Psis -> SmfSessions]
      /\ spent.smfReleases # 0
  BY NetworkTypes
<1>2. /\ ps' = ps /\ pt' = pt /\ ul' = ul /\ dl' = dl /\ amf' = amf /\ smf' = smf
      /\ spent' = spent /\ smfUp' = FALSE
  BY DEF Abort
<1>3. QED
  BY <1>1, <1>2, NetworkStepKeeps

LEMMA PfcpKeeps ==
    ASSUME Inv, NEW psi \in Psis, PfcpSessionDeleted(psi)
    PROVE  Inv'
<1>. DEFINE s == smf[psi]
            t1 == [s EXCEPT !.state = "releasing", !.open = FALSE]
            t2 == [s EXCEPT !.state = "leaving"]
<1>1. /\ s \in SmfSessions /\ (spent.smfReleases = 0 => StreamsOk(s))
      /\ amf[psi] \in AmfSessions /\ ul \in Seq(Messages) /\ <<>> \in Seq(Messages)
  BY NetworkTypes
<1>2. /\ s.state = "deleting"
      /\ \/ s.by = "ue" /\ Commanded(psi, t1, "command") /\ spent' = spent
         \/ ~s.open /\ Abort
         \/ Network(psi, amf[psi], t2, ul, <<>>) /\ spent' = spent
  BY DEF PfcpSessionDeleted
<1>3. /\ t2 \in SmfSessions /\ (StreamsOk(s) => StreamsOk(t2))
      /\ t1 \in SmfSessions /\ (StreamsOk(s) /\ s.by = "ue" => StreamsOk(t1))
  <2>. HIDE DEF s
  <2>1. t2 \in SmfSessions /\ (StreamsOk(s) => StreamsOk(t2))
    BY <1>1, <1>2 DEF SmfSessions, StreamsOk
  <2>2. t1 \in SmfSessions /\ (StreamsOk(s) /\ s.by = "ue" => StreamsOk(t1))
    BY <1>1, <1>2 DEF SmfSessions, StreamsOk
  <2>3. QED
    BY <2>1, <2>2
<1>4. ~s.open => ~StreamsOk(s)
  BY <1>2 DEF StreamsOk
<1>. HIDE DEF t1, t2
<1>5. CASE s.by = "ue" /\ Commanded(psi, t1, "command") /\ spent' = spent
  BY <1>1, <1>3, <1>5, CommandedKeeps
<1>6. CASE ~s.open /\ Abort
  BY <1>4, <1>6, AbortKeeps
<1>7. CASE Network(psi, amf[psi], t2, ul, <<>>) /\ spent' = spent
  BY <1>1, <1>3, <1>7, QuietStepKeeps
<1>8. QED
  BY <1>2, <1>5, <1>6, <1>7

LEMMA UecmKeeps ==
    ASSUME Inv, NEW psi \in Psis, UecmDeregistered(psi)
    PROVE  Inv'
<1>. DEFINE s == smf[psi]
            t == [s EXCEPT !.open = FALSE]
            a == AmfSessClear(Abandoned(amf[psi], s))
<1>1. /\ s \in SmfSessions /\ amf[psi] \in AmfSessions
      /\ ul \in Seq(Messages) /\ <<>> \in Seq(Messages)
  BY NetworkTypes
<1>2. \/ Create(psi, amf[psi], t, ul) /\ spent' = spent
      \/ ~StreamsOk(s) /\ Abort
      \/ Network(psi, a, NoSmf, ul, <<>>) /\ spent' = spent
  BY DEF UecmDeregistered, StreamsOk
<1>3. t \in SmfSessions /\ a \in AmfSessions
  <2>. HIDE DEF s
  <2>1. t \in SmfSessions
    BY <1>1 DEF SmfSessions
  <2>2. a \in AmfSessions
    BY <1>1, AbandonedType, AmfParts
  <2>3. QED
    BY <2>1, <2>2
<1>. HIDE DEF t, a
<1>4. CASE Create(psi, amf[psi], t, ul) /\ spent' = spent
  BY <1>1, <1>3, <1>4, CreateKeeps
<1>5. CASE ~StreamsOk(s) /\ Abort
  BY <1>5, AbortKeeps
<1>6. CASE Network(psi, a, NoSmf, ul, <<>>) /\ spent' = spent
  BY <1>1, <1>3, <1>6, NoneTypes, QuietStepKeeps
<1>7. QED
  BY <1>2, <1>4, <1>5, <1>6

LEMMA LoseKeeps ==
    ASSUME Inv, Lose
    PROVE  Inv'
<1>1. /\ ul \in Seq(Messages) /\ dl \in Seq(Messages) /\ smfUp \in BOOLEAN
      /\ amf \in [Psis -> AmfSessions] /\ smf \in [Psis -> SmfSessions]
      /\ spent.smfReleases = 0 => smfUp /\ \A psi \in Psis : StreamsOk(smf[psi])
  BY NetworkTypes
<1>2. /\ spent' \in Spents /\ spent'.sessions = spent.sessions
      /\ spent'.smfReleases = spent.smfReleases
  BY SpendType DEF Lose
<1>3. /\ ps' = ps /\ pt' = pt /\ amf' = amf /\ smf' = smf /\ smfUp' = smfUp
      /\ ul' = ul \/ (ul # <<>> /\ ul' = Tail(ul))
      /\ dl' = dl \/ (dl # <<>> /\ dl' = Tail(dl))
  BY DEF Lose
<1>4. ul' \in Seq(Messages) /\ dl' \in Seq(Messages)
  BY <1>1, <1>3, TailParts
<1>5. QED
  BY <1>1, <1>2, <1>3, <1>4, NetworkStepKeeps

-----------------------------------------------------------------------------
(* The theorems *)

LEMMA Initially == Init => Inv
<1>. SUFFICES ASSUME Init PROVE Inv
  OBVIOUS
<1>1. /\ ps = [i \in Psis |-> NoSession] /\ pt = [i \in Ptis |-> NoTransaction]
      /\ ul = <<>> /\ dl = <<>> /\ amf = [i \in Psis |-> NoAmf]
      /\ smf = [i \in Psis |-> NoSmf] /\ smfUp = TRUE
      /\ spent = [sessions |-> 0, releases |-> 0, smfReleases |-> 0, faults |-> 0,
                  taken |-> FALSE]
  BY DEF Init
<1>2. NoSession \in Sessions /\ NoSession.inst = 0
  BY DEF NoSession, Sessions, States
<1>3. NoTransaction.msg = "none" /\ NoTransaction.psi = 0 /\ NoTransaction.inst = 0
  BY DEF NoTransaction
<1>4. <<>> \in Seq(Messages) /\ Len(<<>>) = 0
  BY EmptySeq
<1>5. spent \in Spents /\ spent.sessions = 0 /\ spent.taken = FALSE
  BY <1>1 DEF Spents
<1>6. /\ Ue \in UeStates /\ Ue.ps = ps /\ Ue.pt = pt /\ Ue.ul = <<>> /\ Ue.born = 0
  <2>1. ps \in [Psis -> Sessions] /\ pt \in [Ptis -> Transactions]
    BY <1>1, <1>2, Constants
  <2>2. Ue = [ps |-> ps, pt |-> pt, ul |-> <<>>, born |-> 0, taken |-> FALSE]
    BY <1>1, <1>5 DEF Ue
  <2>3. QED
    BY <1>4, <2>1, <2>2 DEF UeStates
<1>7. UeInv(Ue)
  BY <1>1, <1>2, <1>3, <1>6 DEF UeInv
<1>8. amf \in [Psis -> AmfSessions] /\ smf \in [Psis -> SmfSessions]
      /\ \A psi \in Psis : StreamsOk(smf[psi])
  BY <1>1, NoneTypes
<1>9. Types
  BY <1>1, <1>4, <1>5, <1>7, <1>8 DEF Types
<1>10. QED
  BY <1>1, <1>8, <1>9 DEF Inv, StreamsInv, ReplyHasStream

(* A step of the UE, by the handler that it is. *)
LocalStep(v) ==
    \/ v = establishRequiredSessions(Ue)
    \/ \E dnn \in Dnns : v = sendEstablishmentRequest(Ue, dnn)
    \/ \E psi \in Psis : v = sendReleaseRequest(Ue, psi)
    \/ \E pti \in Ptis : Ue.pt[pti].msg # "none" /\ v = Retransmit(Ue, pti)
    \/ \E pti \in Ptis : Ue.pt[pti].msg # "none" /\ v = abortProcedureByPti(Ue, pti)

Received5gsm(v) ==
    /\ dl # <<>>
    /\ \/ \E state \in {"ACTIVE", "INACTIVE"} : v = EstablishmentAnswer(Ue, Head(dl), state)
       \/ v = ReleaseReject(Ue, Head(dl))
       \/ v = ForwardingFailure(Ue, Head(dl))
       \/ (Answers("command") \/ Answers("reactivate")) /\ v = ReleaseCommand(Ue, Head(dl))

(* What a UE handler may make stale. *)
MayLeave(v) ==
    \A i \in Ptis : StaleIn(v, i) =>
        \/ StaleIn(Ue, i)
        \/ \E j \in Ptis \ {i} :
              /\ pt[j].msg # "none" /\ pt[j].psi = pt[i].psi
              /\ pt[i].msg = "establish" /\ OwnedIn(Ue, i) => StaleIn(Ue, j)
        \/ /\ Answers("command") \/ Answers("reactivate")
           /\ Head(dl).psi = pt[i].psi /\ Head(dl).pti # i
           /\ ps[pt[i].psi].state = "ACTIVE"

(* A second transaction of the session of an establishment is not its own. *)
LEMMA OtherIsStale ==
    ASSUME NEW u, UeInv(u), NEW i \in Ptis, NEW j \in Ptis \ {i},
           u.pt[i].msg = "establish", OwnedIn(u, i),
           u.pt[j].msg # "none", u.pt[j].psi = u.pt[i].psi
    PROVE  StaleIn(u, j)
<1>1. u.pt[j].msg \in {"none", "establish", "release"}
  BY UeParts DEF UeInv, Transactions
<1>2. CASE u.pt[j].msg = "release"
  BY <1>2 DEF StaleIn, OwnedIn
<1>3. CASE u.pt[j].msg = "establish"
  BY <1>3 DEF StaleIn, OwnedIn, UeInv
<1>4. QED
  BY <1>1, <1>2, <1>3

LEMMA LocalKeeps ==
    ASSUME Inv, NEW v, LocalStep(v)
    PROVE  /\ UeInv(v) /\ MayLeave(v)
           /\ \/ v.born = Ue.born
              \/ v = establishRequiredSessions(Ue)
              \/ \E dnn \in Dnns : v = sendEstablishmentRequest(Ue, dnn)
<1>1. UeInv(Ue) /\ Ue.pt = pt
  BY DEF Inv, Types, Ue
<1>2. ASSUME NoNewStale(Ue, v) PROVE MayLeave(v)
  BY <1>2 DEF NoNewStale, MayLeave
<1>3. CASE v = establishRequiredSessions(Ue)
  BY <1>1, <1>2, <1>3, LoopKeeps
<1>4. CASE \E dnn \in Dnns : v = sendEstablishmentRequest(Ue, dnn)
  BY <1>1, <1>2, <1>4, EstablishKeeps
<1>5. CASE \E psi \in Psis : v = sendReleaseRequest(Ue, psi)
  BY <1>1, <1>2, <1>5, ReleaseRequestKeeps
<1>6. CASE \E pti \in Ptis : Ue.pt[pti].msg # "none" /\ v = Retransmit(Ue, pti)
  BY <1>1, <1>2, <1>6, RetransmitKeeps
<1>7. CASE \E pti \in Ptis : Ue.pt[pti].msg # "none" /\ v = abortProcedureByPti(Ue, pti)
  <2>1. PICK pti \in Ptis : v = abortProcedureByPti(Ue, pti)
    BY <1>7
  <2>2. /\ UeInv(v) /\ v.born = Ue.born
        /\ \A i \in Ptis : StaleIn(v, i) =>
              \/ StaleIn(Ue, i)
              \/ /\ i # pti /\ pt[pti].msg # "none" /\ pt[i].psi = pt[pti].psi
    BY <1>1, <2>1, AbortLeaves
  <2>3. MayLeave(v)
    <3>. SUFFICES ASSUME NEW i \in Ptis, StaleIn(v, i), ~StaleIn(Ue, i)
                  PROVE  \E j \in Ptis \ {i} :
                            /\ pt[j].msg # "none" /\ pt[j].psi = pt[i].psi
                            /\ pt[i].msg = "establish" /\ OwnedIn(Ue, i) => StaleIn(Ue, j)
      BY DEF MayLeave
    <3>1. pti \in Ptis \ {i} /\ pt[pti].msg # "none" /\ pt[pti].psi = pt[i].psi
      BY <2>2
    <3>2. pt[i].msg = "establish" /\ OwnedIn(Ue, i) => StaleIn(Ue, pti)
      BY <1>1, <3>1, OtherIsStale
    <3>3. QED
      BY <3>1, <3>2
  <2>4. QED
    BY <2>2, <2>3
<1>8. QED
  BY <1>3, <1>4, <1>5, <1>6, <1>7 DEF LocalStep

LEMMA ReceivedKeeps ==
    ASSUME Inv, NEW v, Received5gsm(v)
    PROVE  UeInv(v) /\ MayLeave(v)
<1>. DEFINE m == Head(dl)
<1>1. UeInv(Ue) /\ Ue.pt = pt /\ Ue.ps = ps /\ m \in Messages
  <2>1. dl \in Seq(Messages) /\ dl # <<>>
    BY DEF Inv, Types, Received5gsm
  <2>2. QED
    BY <2>1, TailParts DEF Inv, Types, Ue
<1>2. ASSUME NoNewStale(Ue, v) PROVE MayLeave(v)
  BY <1>2 DEF NoNewStale, MayLeave
<1>3. ASSUME \A i \in Ptis : StaleIn(v, i) =>
                \/ StaleIn(Ue, i)
                \/ \E j \in Ptis \ {i} : Ue.pt[j].msg # "none" /\ Ue.pt[i].psi = Ue.pt[j].psi
      PROVE  MayLeave(v)
  <2>. SUFFICES ASSUME NEW i \in Ptis, StaleIn(v, i), ~StaleIn(Ue, i)
                PROVE  \E j \in Ptis \ {i} :
                          /\ pt[j].msg # "none" /\ pt[j].psi = pt[i].psi
                          /\ pt[i].msg = "establish" /\ OwnedIn(Ue, i) => StaleIn(Ue, j)
    BY DEF MayLeave
  <2>1. PICK j \in Ptis \ {i} : pt[j].msg # "none" /\ pt[j].psi = pt[i].psi
    BY <1>1, <1>3
  <2>2. pt[i].msg = "establish" /\ OwnedIn(Ue, i) => StaleIn(Ue, j)
    BY <1>1, <2>1, OtherIsStale
  <2>3. QED
    BY <2>1, <2>2
<1>. HIDE DEF m
<1>4. CASE \E state \in {"ACTIVE", "INACTIVE"} : v = EstablishmentAnswer(Ue, m, state)
  <2>1. PICK state \in {"ACTIVE", "INACTIVE"} : v = EstablishmentAnswer(Ue, m, state)
    BY <1>4
  <2>2. /\ UeInv(v)
        /\ \A i \in Ptis : StaleIn(v, i) =>
              \/ StaleIn(Ue, i)
              \/ \E j \in Ptis \ {i} : Ue.pt[j].msg # "none" /\ Ue.pt[i].psi = Ue.pt[j].psi
    BY <1>1, <2>1, AnswerLeaves
  <2>3. QED
    BY <1>3, <2>2
<1>5. CASE v = ReleaseReject(Ue, m)
  BY <1>1, <1>2, <1>5, RejectKeeps
<1>6. CASE v = ForwardingFailure(Ue, m)
  BY <1>1, <1>3, <1>6, FailureLeaves
<1>7. CASE (Answers("command") \/ Answers("reactivate")) /\ v = ReleaseCommand(Ue, m)
  <2>1. /\ UeInv(v)
        /\ \A i \in Ptis : StaleIn(v, i) =>
              \/ StaleIn(Ue, i)
              \/ pt[i].psi = m.psi /\ m.pti # i /\ ps[m.psi].state = "ACTIVE"
    BY <1>1, <1>7, CommandLeaves
  <2>2. QED
    BY <1>7, <2>1 DEF MayLeave, m
<1>8. QED
  BY <1>4, <1>5, <1>6, <1>7 DEF Received5gsm, m

(* The steps of the UE: a message received, something asked for or a timer, *)
(* or a release asked for at the console.                                   *)
LEMMA ReceivedStep ==
    ASSUME Inv, receiveSmMessage
    PROVE  \E v : /\ Received5gsm(v) /\ Received(v)
  BY DEF receiveSmMessage, receiveEstablishmentAccept, receiveEstablishmentReject,
         receiveReleaseReject, receiveReleaseCommand, receiveForwardingFailure,
         Answers, Received5gsm

LEMMA ReceivedInv ==
    ASSUME Inv, NEW v, Received5gsm(v), Received(v)
    PROVE  Inv' /\ MayLeave(Ue')
<1>1. UeInv(v) /\ MayLeave(v)
  BY ReceivedKeeps
<1>2. v.born \in Nat /\ v.taken \in BOOLEAN
  BY <1>1, UeParts DEF UeInv
<1>3. spent \in Spents /\ dl \in Seq(Messages) /\ dl # <<>>
  BY DEF Inv, Types, Received5gsm
<1>4. /\ Become(v) /\ dl' = Tail(dl) /\ amf' = amf /\ smf' = smf /\ smfUp' = smfUp
      /\ spent' = [spent EXCEPT !.sessions = v.born, !.taken = v.taken]
  BY DEF Received
<1>5. /\ spent' \in Spents /\ spent'.sessions = v.born
      /\ spent'.smfReleases = spent.smfReleases
  BY <1>2, <1>3, <1>4 DEF Spents
<1>6. dl' \in Seq(Messages)
  BY <1>3, <1>4, TailParts
<1>7. Inv' /\ \A i : StaleIn(Ue', i) <=> StaleIn(v, i)
  BY <1>1, <1>4, <1>5, <1>6, UeStepKeeps
<1>8. QED
  BY <1>1, <1>7 DEF MayLeave

LEMMA EstablishingStep ==
    ASSUME Inv, NEW v, Establishing(v),
           v = establishRequiredSessions(Ue) \/ \E dnn \in Dnns : v = sendEstablishmentRequest(Ue, dnn)
    PROVE  Inv' /\ MayLeave(Ue')
<1>1. LocalStep(v)
  BY DEF LocalStep
<1>2. UeInv(v) /\ MayLeave(v)
  BY <1>1, LocalKeeps
<1>3. v.born \in Nat
  BY <1>2, UeParts DEF UeInv
<1>4. spent \in Spents /\ dl \in Seq(Messages)
  BY DEF Inv, Types
<1>5. /\ Become(v) /\ dl' = dl /\ amf' = amf /\ smf' = smf /\ smfUp' = smfUp
      /\ spent' = [spent EXCEPT !.sessions = v.born]
  BY DEF Establishing, Locally
<1>6. /\ spent' \in Spents /\ spent'.sessions = v.born
      /\ spent'.smfReleases = spent.smfReleases
  BY <1>3, <1>4, <1>5 DEF Spents
<1>7. Inv' /\ \A i : StaleIn(Ue', i) <=> StaleIn(v, i)
  BY <1>2, <1>4, <1>5, <1>6, UeStepKeeps
<1>8. QED
  BY <1>2, <1>7 DEF MayLeave

LEMMA ReleaseStep ==
    ASSUME Inv, NEW psi \in Psis, PsRelease(psi)
    PROVE  Inv' /\ MayLeave(Ue')
<1>. DEFINE v == sendReleaseRequest(Ue, psi)
<1>1. UeInv(v) /\ v.born = Ue.born /\ NoNewStale(Ue, v)
  BY ReleaseRequestKeeps DEF Inv, Types
<1>2. /\ Locally(v) /\ Spend("releases", MaxReleases)
  BY DEF PsRelease
<1>. HIDE DEF v
<1>3. dl \in Seq(Messages) /\ Ue.born = spent.sessions
  BY StaleOfUe DEF Inv, Types
<1>4. /\ Become(v) /\ dl' = dl /\ amf' = amf /\ smf' = smf /\ smfUp' = smfUp
  BY <1>2 DEF Locally
<1>5. /\ spent' \in Spents /\ spent'.sessions = spent.sessions
      /\ spent'.smfReleases = spent.smfReleases
  BY <1>2, SpendType
<1>6. Inv' /\ \A i : StaleIn(Ue', i) <=> StaleIn(v, i)
  BY <1>1, <1>3, <1>4, <1>5, UeStepKeeps
<1>7. QED
  BY <1>1, <1>6 DEF NoNewStale, MayLeave

LEMMA TimerStep ==
    ASSUME Inv, NEW pti \in Ptis, onTransactionTimerExpire(pti)
    PROVE  Inv' /\ MayLeave(Ue')
<1>1. UeInv(Ue) /\ Ue.pt = pt /\ Ue.born = spent.sessions
  BY DEF Inv, Types, Ue
<1>2. PICK v : /\ v = Retransmit(Ue, pti) \/ v = abortProcedureByPti(Ue, pti)
               /\ Locally(v) /\ UNCHANGED spent /\ pt[pti].msg # "none"
  BY DEF onTransactionTimerExpire
<1>3. LocalStep(v)
  BY <1>1, <1>2 DEF LocalStep
<1>4. UeInv(v) /\ MayLeave(v)
  BY <1>3, LocalKeeps
<1>5. v.born = Ue.born
  BY <1>1, <1>2, RetransmitKeeps, AbortLeaves
<1>6. spent \in Spents /\ dl \in Seq(Messages)
  BY DEF Inv, Types
<1>7. /\ Become(v) /\ dl' = dl /\ amf' = amf /\ smf' = smf /\ smfUp' = smfUp
      /\ spent' = spent
  BY <1>2 DEF Locally
<1>8. Inv' /\ \A i : StaleIn(Ue', i) <=> StaleIn(v, i)
  BY <1>1, <1>4, <1>5, <1>6, <1>7, UeStepKeeps
<1>9. QED
  BY <1>4, <1>8 DEF MayLeave

LEMMA UeKeeps ==
    ASSUME Inv, UeNext
    PROVE  Inv' /\ MayLeave(Ue')
<1>1. CASE MmCycle
  BY <1>1, EstablishingStep DEF MmCycle
<1>2. CASE \E dnn \in Dnns : PsEstablish(dnn)
  BY <1>2, EstablishingStep DEF PsEstablish
<1>3. CASE \E psi \in Psis : PsRelease(psi)
  BY <1>3, ReleaseStep
<1>4. CASE receiveSmMessage
  BY <1>4, ReceivedStep, ReceivedInv
<1>5. CASE \E pti \in Ptis : onTransactionTimerExpire(pti)
  BY <1>5, TimerStep
<1>6. QED
  BY <1>1, <1>2, <1>3, <1>4, <1>5 DEF UeNext

LEMMA NetworkKeeps ==
    ASSUME Inv, NetworkNext
    PROVE  Inv' /\ ps' = ps /\ pt' = pt
<1>1. Inv'
  BY CreateSmContextKeeps, ReleaseDuplicateKeeps, NoSessionContextKeeps, UpdateKeeps,
     ClientWaitKeeps, InitiateKeeps, PolicyDeletedKeeps, PolicyDeletedAgainKeeps,
     OtherStreamKeeps, PfcpKeeps, UecmKeeps, LoseKeeps DEF NetworkNext
<1>2. ASSUME NEW psi, NEW a, NEW s, NEW up, NEW down, Network(psi, a, s, up, down)
      PROVE  ps' = ps /\ pt' = pt
  BY <1>2 DEF Network
<1>3. ASSUME CreateSmContext \/ ReleaseDuplicate \/ NoSessionContext \/ UpdateSmContext
      PROVE  ps' = ps /\ pt' = pt
  BY <1>2, <1>3 DEF CreateSmContext, Create, ReleaseDuplicate, SmfSessClear, NoSessionContext,
                    UpdateSmContext
<1>4. ASSUME NEW psi \in Psis, ClientWait(psi) \/ SmfInitiatesRelease(psi)
      PROVE  ps' = ps /\ pt' = pt
  BY <1>2, <1>4 DEF ClientWait, SmfInitiatesRelease, SmfSessClear
<1>5. ASSUME NEW psi \in Psis, NEW k \in Kinds, PolicyDeleted(psi, k) \/ PolicyDeletedAgain(psi, k)
      PROVE  ps' = ps /\ pt' = pt
  BY <1>2, <1>5 DEF PolicyDeleted, PolicyDeletedAgain, Commanded
<1>6. ASSUME NEW psi \in Psis,
             RejectOnOtherStream(psi) \/ PfcpSessionDeleted(psi) \/ UecmDeregistered(psi)
      PROVE  ps' = ps /\ pt' = pt
  BY <1>2, <1>6 DEF RejectOnOtherStream, PfcpSessionDeleted, UecmDeregistered, Commanded,
                    Create, Abort
<1>7. ASSUME Lose
      PROVE  ps' = ps /\ pt' = pt
  BY <1>7 DEF Lose
<1>8. QED
  BY <1>1, <1>3, <1>4, <1>5, <1>6, <1>7 DEF NetworkNext

LEMMA StutterKeeps ==
    ASSUME Inv, UNCHANGED vars
    PROVE  Inv'
<1>1. /\ ps' = ps /\ pt' = pt /\ ul' = ul /\ dl' = dl /\ amf' = amf /\ smf' = smf
      /\ smfUp' = smfUp /\ spent' = spent
  BY DEF vars
<1>2. Ue' = Ue
  BY <1>1 DEF Ue
<1>3. Types'
  BY <1>1, <1>2 DEF Inv, Types
<1>4. QED
  BY <1>1, <1>3 DEF Inv, StreamsInv, ReplyHasStream

LEMMA StepKeeps == Inv /\ [Next]_vars => Inv'
  BY UeKeeps, NetworkKeeps, StutterKeeps DEF Next

LEMMA Always == Spec => []Inv
<1>1. Init => Inv
  BY Initially
<1>2. Inv /\ [Next]_vars => Inv'
  BY StepKeeps
<1>3. QED
  BY <1>1, <1>2, PTL DEF Spec

(* ogs_assert(stream): whenever the UPF or the UDM has answered, the stream of *)
(* the AMF's that the SMF is to reply on is still there, unless the SMF has      *)
(* started a release of its own: for any number of sessions, of releases the UE  *)
(* asks for, of duplicates the AMF releases, of losses and of timeouts, and      *)
(* however these overlap.                                                        *)
THEOREM ReplyHasStreamAlways == Spec => []ReplyHasStream
<1>1. Inv => ReplyHasStream
  BY DEF Inv
<1>2. QED
  BY <1>1, Always, PTL

(* What a step makes stale. *)
LEMMA StepLeaves ==
    ASSUME Inv, [Next]_vars, NEW i \in Ptis, Owned(i), (Stale(i))'
    PROVE  \/ \E j \in Ptis \ {i} :
                 /\ pt[j].msg # "none" /\ pt[j].psi = pt[i].psi
                 /\ pt[i].msg = "establish" => Stale(j)
           \/ /\ Answers("command") \/ Answers("reactivate")
              /\ Head(dl).psi = pt[i].psi /\ Head(dl).pti # i
              /\ ps[pt[i].psi].state = "ACTIVE"
<1>1. CASE UeNext
  <2>1. MayLeave(Ue') /\ StaleIn(Ue', i)
    BY <1>1, UeKeeps, StaleOfUeNext
  <2>2. OwnedIn(Ue, i) /\ ~StaleIn(Ue, i)
    BY StaleOfUe DEF StaleIn
  <2>3. QED
    BY <2>1, <2>2, StaleOfUe DEF MayLeave
<1>2. CASE NetworkNext \/ UNCHANGED vars
  <2>1. ps' = ps /\ pt' = pt
    BY <1>2, NetworkKeeps DEF vars
  <2>2. FALSE
    BY <2>1 DEF Stale, Owned
  <2>3. QED
    BY <2>2
<1>3. QED
  BY <1>1, <1>2 DEF Next

(* Whatever the network answers, delays or loses, and however often identities *)
(* are handed out again: an establishment under way loses its session only to  *)
(* a transaction that an earlier session left behind under its identity.       *)
THEOREM EstablishmentKeepsSessionAlways == Spec => EstablishmentKeepsSession
<1>1. ASSUME Inv, [Next]_vars
      PROVE  [\A i \in Ptis : pt[i].msg = "establish" /\ Owned(i) /\ Stale(i)' =>
                 \E j \in Ptis \ {i} : Stale(j) /\ pt[j].psi = pt[i].psi]_vars
  <2>. SUFFICES ASSUME NEW i \in Ptis, pt[i].msg = "establish", Owned(i), Stale(i)'
                PROVE  \E j \in Ptis \ {i} : Stale(j) /\ pt[j].psi = pt[i].psi
    OBVIOUS
  <2>1. ps[pt[i].psi].state # "ACTIVE"
    BY DEF Owned
  <2>2. QED
    BY <1>1, <2>1, StepLeaves
<1>2. QED
  BY <1>1, Always, PTL DEF Spec, EstablishmentKeepsSession

(* A release under way outlives its session only through a command under       *)
(* another PTI, or if its identity has a second transaction: the repeated      *)
(* request of onTransactionTimerExpire reaches a newer session no other way.   *)
THEOREM ReleaseKeepsSessionAlways == Spec => ReleaseKeepsSession
<1>1. ASSUME Inv, [Next]_vars
      PROVE  [\A i \in Ptis : pt[i].msg = "release" /\ Owned(i) /\ Stale(i)' =>
                 \/ /\ Answers("command") \/ Answers("reactivate")
                    /\ Head(dl).psi = pt[i].psi /\ Head(dl).pti # i
                 \/ \E j \in Ptis \ {i} : pt[j].msg # "none" /\ pt[j].psi = pt[i].psi]_vars
  BY <1>1, StepLeaves
<1>2. QED
  BY <1>1, Always, PTL DEF Spec, ReleaseKeepsSession
=============================================================================
