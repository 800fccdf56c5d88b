-------------------------- MODULE RadiusBenchProofs --------------------------
(***************************************************************************)
(* Proofs about RadiusBench, for any number of handshakes, resends, drops  *)
(* and faults, and any message and fragment sizes: however a request is    *)
(* copied, lost and delayed, the server opens one session for it, and a    *)
(* handshake that passes has given both ends the same key.                 *)
(***************************************************************************)
EXTENDS RadiusBench, FiniteSetTheorems, SequenceTheorems, TLAPS

-----------------------------------------------------------------------------
(* What FreeRADIUS holds: which request runs, and that the EAP module has it or
   has answered it. *)
IsSeq(q) == \E S : q \in Seq(S)

IsRequest(r) == r = [status |-> r.status, packet |-> r.packet, reply |-> r.reply]

ServerInv ==
    /\ DOMAIN request = Keys /\ \A k \in Keys : IsRequest(request[k])
    /\ running \in Keys \cup {NoKey}
    /\ \A k \in Keys : request[k].status = "running" <=> k = running
    /\ \/ radiusReq = << >>
       \/ /\ running # NoKey /\ radiusRsp = NoRsp
          /\ radiusReq = <<AccessRequest(request[running].packet.state, request[running].packet.eap)>>
    /\ radiusRsp # NoRsp => running # NoKey

CountersInv ==
    /\ key \in 0..MaxRequests /\ hs \in Nat /\ faults \in Nat /\ aaaNext \in Nat \ {0}
    /\ IsSeq(udpIn) /\ \A n \in DOMAIN udpIn : udpIn[n].key \in Keys
    /\ pc # "idle" => key \in Keys

(* Sessions are opened in turn. *)
SessionsInv ==
    DOMAIN aaa = Sids /\ \A s \in Sids : s >= aaaNext => aaa[s].status = "none"

(* The keys under which an identity is about: at the peer, in a datagram or in a
   request a worker has still to finish. *)
IdentityAt(k) ==
    \/ pc # "idle" /\ eap.kind = "identity" /\ k = key
    \/ \E n \in DOMAIN udpIn : udpIn[n].eap.kind = "identity" /\ udpIn[n].key = k
    \/ request[k].status \in {"queued", "running"} /\ request[k].packet.eap.kind = "identity"

(* The EAP module has not had the request yet, or will have it once more. *)
Unserved(k) ==
    \/ request[k].status \in {"none", "cleaned", "queued"}
    \/ request[k].status = "running" /\ radiusReq # << >>

Opening == {k \in Keys : IdentityAt(k) /\ Unserved(k)}

(* Each handshake and each fault pays for one session, open or still to be opened. *)
PaidFor == Cardinality(Opening) + (aaaNext - 1) <= hs + faults

BenchInv == ServerInv /\ CountersInv /\ SessionsInv /\ PaidFor

-----------------------------------------------------------------------------
(* Sequences of anything, and the size of sets of keys. *)
LEMMA AppendAny ==
    ASSUME NEW q, IsSeq(q), NEW m
    PROVE  /\ IsSeq(Append(q, m))
           /\ \A n \in DOMAIN Append(q, m) : Append(q, m)[n] = m \/ \E j \in DOMAIN q : Append(q, m)[n] = q[j]
<1>1. PICK S : q \in Seq(S)
  BY DEF IsSeq
<1>. DEFINE T == S \cup {m}
            a == Append(q, m)
<1>2. q \in Seq(T) /\ m \in T
  <2>1. \A n \in 1..Len(q) : q[n] \in T
    BY <1>1
  <2>2. q = [n \in 1..Len(q) |-> q[n]] /\ Len(q) \in Nat
    BY <1>1
  <2>. QED  BY <2>1, <2>2
<1>. HIDE DEF T
<1>3. /\ a \in Seq(T) /\ Len(a) = Len(q) + 1 /\ Len(q) \in Nat /\ DOMAIN q = 1..Len(q)
      /\ \A n \in 1..Len(q) : a[n] = q[n]
      /\ a[Len(q) + 1] = m
  BY <1>2
<1>4. DOMAIN a = 1..(Len(q) + 1)
  BY <1>3
<1>5. ASSUME NEW n \in DOMAIN a PROVE a[n] = m \/ \E j \in DOMAIN q : a[n] = q[j]
  <2>1. n = Len(q) + 1 \/ n \in 1..Len(q)
    BY <1>3, <1>4
  <2>. QED  BY <1>3, <2>1
<1>. QED  BY <1>3, <1>5 DEF IsSeq

LEMMA TailAny ==
    ASSUME NEW q, IsSeq(q), q # << >>
    PROVE  /\ IsSeq(Tail(q)) /\ 1 \in DOMAIN q /\ Head(q) = q[1]
           /\ \A n \in DOMAIN Tail(q) : \E j \in DOMAIN q : Tail(q)[n] = q[j]
<1>1. PICK S : q \in Seq(S)
  BY DEF IsSeq
<1>2. /\ Tail(q) \in Seq(S) /\ Head(q) = q[1]
      /\ Len(q) \in Nat \ {0} /\ Len(Tail(q)) = Len(q) - 1
      /\ \A i \in 1..(Len(q) - 1) : Tail(q)[i] = q[i + 1]
  BY <1>1
<1>3. DOMAIN q = 1..Len(q) /\ DOMAIN Tail(q) = 1..(Len(q) - 1)
  BY <1>1, <1>2
<1>4. ASSUME NEW n \in DOMAIN Tail(q) PROVE \E j \in DOMAIN q : Tail(q)[n] = q[j]
  <2>1. n + 1 \in DOMAIN q /\ Tail(q)[n] = q[n + 1]
    BY <1>2, <1>3
  <2>. QED  BY <2>1
<1>. QED  BY <1>2, <1>3, <1>4 DEF IsSeq

LEMMA RemoveOnly ==
    ASSUME NEW m, NEW i \in DOMAIN <<m>>
    PROVE  i = 1 /\ RemoveAt(<<m>>, i) = << >>
<1>1. i = 1
  OBVIOUS
<1>2. <<m>> \in Seq({m}) /\ Len(<<m>>) = 1
  OBVIOUS
<1>. DEFINE q == <<m>>
            a == SubSeq(q, 1, 0)
            b == SubSeq(q, 2, 1)
<1>3. a \in Seq({m}) /\ Len(a) = 0 /\ b \in Seq({m}) /\ Len(b) = 0
  BY <1>2, SubSeqProperties
<1>4. a = << >> /\ b = << >>
  BY <1>3
<1>5. RemoveAt(q, 1) = a \o b
  BY <1>2 DEF RemoveAt
<1>. QED  BY <1>1, <1>4, <1>5

LEMMA KeySets ==
    ASSUME NEW A \in SUBSET Keys, NEW B \in SUBSET Keys
    PROVE  /\ Cardinality(A) \in Nat /\ Cardinality(B) \in Nat
           /\ B \subseteq A => Cardinality(B) <= Cardinality(A)
           /\ \A x : B \subseteq A \cup {x} => Cardinality(B) <= Cardinality(A) + 1
           /\ \A x \in A : B \subseteq A \ {x} => Cardinality(B) <= Cardinality(A) - 1
<1>1. IsFiniteSet(Keys)
  BY FreeRadiusAssumption, FS_Interval DEF Keys
<1>2. IsFiniteSet(A) /\ IsFiniteSet(B) /\ Cardinality(A) \in Nat /\ Cardinality(B) \in Nat
  BY <1>1, FS_Subset, FS_CardinalityType
<1>3. B \subseteq A => Cardinality(B) <= Cardinality(A)
  BY <1>2, FS_Subset
<1>4. ASSUME NEW x, B \subseteq A \cup {x} PROVE Cardinality(B) <= Cardinality(A) + 1
  <2>1. /\ IsFiniteSet(A \cup {x})
        /\ Cardinality(A \cup {x}) = IF x \in A THEN Cardinality(A) ELSE Cardinality(A) + 1
    BY <1>2, FS_AddElement
  <2>2. Cardinality(B) <= Cardinality(A \cup {x})
    BY <1>4, <2>1, FS_Subset
  <2>. QED  BY <1>2, <2>1, <2>2
<1>5. ASSUME NEW x \in A, B \subseteq A \ {x} PROVE Cardinality(B) <= Cardinality(A) - 1
  <2>1. /\ IsFiniteSet(A \ {x})
        /\ Cardinality(A \ {x}) = IF x \in A THEN Cardinality(A) - 1 ELSE Cardinality(A)
    BY <1>2, FS_RemoveElement
  <2>2. Cardinality(B) <= Cardinality(A \ {x})
    BY <1>5, <2>1, FS_Subset
  <2>. QED  BY <1>2, <2>1, <2>2
<1>. QED  BY <1>2, <1>3, <1>4, <1>5

LEMMA Balance ==
    ASSUME NEW c \in Nat, NEW d \in Nat, NEW a \in Nat, NEW b \in Nat, NEW u \in Nat, NEW v \in Nat,
           c + (a - 1) <= u,
           \/ d <= c /\ b = a /\ v >= u
           \/ d <= c + 1 /\ b = a /\ v >= u + 1
           \/ d <= c - 1 /\ b = a + 1 /\ v >= u
    PROVE  d + (b - 1) <= v
OBVIOUS

(* A step opens a session for a request, or may let one more be opened and is a
   handshake or a fault, or neither. *)
Pays ==
    /\ hs' \in Nat /\ faults' \in Nat /\ aaaNext' \in Nat
    /\ \/ Opening' \subseteq Opening /\ aaaNext' = aaaNext /\ hs' + faults' >= hs + faults
       \/ \E x : Opening' \subseteq Opening \cup {x} /\ aaaNext' = aaaNext /\ hs' + faults' >= hs + faults + 1
       \/ \E x \in Opening : Opening' \subseteq Opening \ {x} /\ aaaNext' = aaaNext + 1 /\ hs' + faults' >= hs + faults

LEMMA StaysPaid ==
    ASSUME BenchInv, Pays
    PROVE  PaidFor'
<1>1. Opening \in SUBSET Keys /\ Opening' \in SUBSET Keys
  BY DEF Opening, Keys
<1>2. hs \in Nat /\ faults \in Nat /\ aaaNext \in Nat
  BY DEF BenchInv, CountersInv
<1>3. hs' \in Nat /\ faults' \in Nat /\ aaaNext' \in Nat
  BY DEF Pays
<1>. DEFINE c == Cardinality(Opening)
            d == Cardinality(Opening')
<1>4. /\ c \in Nat /\ d \in Nat
      /\ Opening' \subseteq Opening => d <= c
      /\ \A x : Opening' \subseteq Opening \cup {x} => d <= c + 1
      /\ \A x \in Opening : Opening' \subseteq Opening \ {x} => d <= c - 1
  BY <1>1, KeySets
<1>5. c + (aaaNext - 1) <= hs + faults
  BY DEF BenchInv, PaidFor
<1>. HIDE DEF c, d
<1>6. \/ d <= c /\ aaaNext' = aaaNext /\ hs' + faults' >= hs + faults
      \/ d <= c + 1 /\ aaaNext' = aaaNext /\ hs' + faults' >= hs + faults + 1
      \/ d <= c - 1 /\ aaaNext' = aaaNext + 1 /\ hs' + faults' >= hs + faults
  BY <1>4 DEF Pays
<1>7. hs + faults \in Nat /\ hs' + faults' \in Nat /\ c \in Nat /\ d \in Nat
  <2>1. hs + faults \in Nat
    BY <1>2
  <2>2. hs' + faults' \in Nat
    <3>1. \A x, y \in Nat : x + y \in Nat
      OBVIOUS
    <3>. QED  BY <1>3, <3>1, Zenon
  <2>3. c \in Nat /\ d \in Nat
    BY <1>4
  <2>. QED  BY <2>1, <2>2, <2>3
<1>8. d + (aaaNext' - 1) <= hs' + faults'
  BY <1>2, <1>3, <1>5, <1>6, <1>7, Balance
<1>. QED  BY <1>8 DEF PaidFor, d

-----------------------------------------------------------------------------
(* The peer *)

(* A step after which no identity is about that was not before. *)
NoNewIdentity ==
    /\ pc' # "idle" /\ eap'.kind = "identity" => pc # "idle" /\ eap.kind = "identity" /\ key' = key
    /\ \A n \in DOMAIN udpIn' :
           \/ \E j \in DOMAIN udpIn : udpIn'[n] = udpIn[j]
           \/ /\ pc # "idle" /\ udpIn'[n].key = key
              /\ udpIn'[n].eap.kind = "identity" => eap.kind = "identity"

LEMMA IdentityKept ==
    ASSUME NoNewIdentity, request' = request, NEW k \in Keys, IdentityAt(k)'
    PROVE  IdentityAt(k)
BY DEF NoNewIdentity, IdentityAt

(* A step of the peer that opens no handshake. *)
LEMMA PeerStays ==
    ASSUME BenchInv, NoNewIdentity, UNCHANGED serverVars,
           hs' = hs, (faults' = faults \/ faults' = faults + 1), key' \in 0..MaxRequests, IsSeq(udpIn)',
           pc' # "idle" => key' \in Keys
    PROVE  BenchInv'
<1>1. /\ request' = request /\ running' = running /\ aaa' = aaa /\ aaaNext' = aaaNext
      /\ radiusReq' = radiusReq /\ radiusRsp' = radiusRsp
  BY DEF serverVars, aaaVars, radiusVars
<1>2. ServerInv' /\ SessionsInv'
  BY <1>1 DEF BenchInv, ServerInv, SessionsInv
<1>3. hs \in Nat /\ faults \in Nat /\ aaaNext \in Nat \ {0} /\ \A n \in DOMAIN udpIn : udpIn[n].key \in Keys
  BY DEF BenchInv, CountersInv
<1>4. \A n \in DOMAIN udpIn' : udpIn'[n].key \in Keys
  BY <1>3 DEF NoNewIdentity, BenchInv, CountersInv
<1>5. CountersInv'
  BY <1>1, <1>3, <1>4 DEF CountersInv
<1>6. Opening' \subseteq Opening
  <2>1. ASSUME NEW k \in Keys, IdentityAt(k)', Unserved(k)' PROVE IdentityAt(k) /\ Unserved(k)
    BY <1>1, <2>1, IdentityKept DEF Unserved
  <2>. QED  BY <2>1 DEF Opening, Keys
<1>7. PaidFor'
  <2>1. hs' \in Nat /\ faults' \in Nat /\ aaaNext' \in Nat /\ aaaNext' = aaaNext
        /\ hs' + faults' >= hs + faults
    BY <1>1, <1>3
  <2>2. Pays
    BY <1>6, <2>1 DEF Pays
  <2>. QED  BY <2>2, StaysPaid
<1>. QED  BY <1>2, <1>5, <1>7 DEF BenchInv

LEMMA StartPays ==
    ASSUME BenchInv, NEW method \in Methods, StartHandshake(method)
    PROVE  BenchInv'
<1>0. MaxRequests \in Nat
  BY FreeRadiusAssumption
<1>1. /\ pc = "idle" /\ key < MaxRequests /\ hs' = hs + 1 /\ key' = key + 1 /\ pc' = "send"
      /\ faults' = faults /\ udpIn' = udpIn /\ request' = request /\ running' = running
      /\ aaa' = aaa /\ aaaNext' = aaaNext /\ radiusReq' = radiusReq /\ radiusRsp' = radiusRsp
  BY DEF StartHandshake, serverVars, udpVars, aaaVars, radiusVars
<1>2. ServerInv' /\ SessionsInv'
  BY <1>1 DEF BenchInv, ServerInv, SessionsInv
<1>3. hs \in Nat /\ faults \in Nat /\ aaaNext \in Nat \ {0} /\ key \in 0..MaxRequests
  BY DEF BenchInv, CountersInv
<1>4. key' \in Keys /\ key' \in 0..MaxRequests
  BY <1>0, <1>1, <1>3 DEF Keys
<1>5. CountersInv'
  BY <1>1, <1>3, <1>4 DEF CountersInv, BenchInv
<1>6. Opening' \subseteq Opening \cup {key'}
  <2>1. ASSUME NEW k \in Keys, IdentityAt(k)', Unserved(k)', k # key' PROVE IdentityAt(k) /\ Unserved(k)
    BY <1>1, <2>1 DEF IdentityAt, Unserved
  <2>. QED  BY <2>1 DEF Opening, Keys
<1>7. PaidFor'
  <2>1. hs' \in Nat /\ faults' \in Nat /\ aaaNext' \in Nat /\ aaaNext' = aaaNext
        /\ hs' + faults' >= hs + faults + 1
    BY <1>1, <1>3
  <2>2. Pays
    BY <1>6, <2>1 DEF Pays
  <2>. QED  BY <2>2, StaysPaid
<1>. QED  BY <1>2, <1>5, <1>7 DEF BenchInv

(* Every other step of the peer or of the network. *)
LEMMA SendStays ==
    ASSUME BenchInv, Send
    PROVE  BenchInv'
<1>. DEFINE d == Datagram(key, hs, state, eap)
<1>1. /\ pc = "send" /\ udpIn' = Append(udpIn, d) /\ pc' = "recv"
      /\ UNCHANGED <<hs, eap, key, faults, serverVars>>
  BY DEF Send, engVars
<1>2. d.key = key /\ d.eap = eap
  BY DEF Datagram
<1>. HIDE DEF d
<1>3. /\ IsSeq(udpIn')
      /\ \A n \in DOMAIN udpIn' : udpIn'[n] = d \/ \E j \in DOMAIN udpIn : udpIn'[n] = udpIn[j]
  BY <1>1, AppendAny DEF BenchInv, CountersInv
<1>4. key \in 0..MaxRequests /\ key \in Keys
  BY <1>1 DEF BenchInv, CountersInv
<1>5. NoNewIdentity
  BY <1>1, <1>2, <1>3 DEF NoNewIdentity
<1>. QED  BY <1>1, <1>3, <1>4, <1>5, PeerStays

(* A step that moves the peer on, or loses a datagram. *)
PeerMoves ==
    /\ UNCHANGED <<serverVars, hs>> /\ (faults' = faults \/ faults' = faults + 1)
    /\ udpIn' = udpIn \/ (udpIn # << >> /\ udpIn' = Tail(udpIn))
    /\ \/ pc' = "idle" /\ key' = key
       \/ pc # "idle" /\ UNCHANGED <<eap, key>>
       \/ UNCHANGED <<pc, eap, key>>
       \/ eap'.kind = "edhoc" /\ key < MaxRequests /\ key' = key + 1

LEMMA MovesStay ==
    ASSUME BenchInv, PeerMoves
    PROVE  BenchInv'
<1>0. MaxRequests \in Nat
  BY FreeRadiusAssumption
<1>1. /\ UNCHANGED <<serverVars, hs>> /\ (faults' = faults \/ faults' = faults + 1)
      /\ udpIn' = udpIn \/ (udpIn # << >> /\ udpIn' = Tail(udpIn))
      /\ \/ pc' = "idle" /\ key' = key
         \/ pc # "idle" /\ UNCHANGED <<eap, key>>
         \/ UNCHANGED <<pc, eap, key>>
         \/ eap'.kind = "edhoc" /\ key < MaxRequests /\ key' = key + 1
  BY DEF PeerMoves
<1>2. IsSeq(udpIn) /\ key \in 0..MaxRequests /\ (pc # "idle" => key \in Keys)
  BY DEF BenchInv, CountersInv
<1>3. IsSeq(udpIn') /\ \A n \in DOMAIN udpIn' : \E j \in DOMAIN udpIn : udpIn'[n] = udpIn[j]
  <2>1. CASE udpIn' = udpIn
    BY <1>2, <2>1
  <2>2. CASE udpIn # << >> /\ udpIn' = Tail(udpIn)
    BY <1>2, <2>2, TailAny
  <2>. QED  BY <1>1, <2>1, <2>2
<1>4. key' \in 0..MaxRequests /\ (pc' # "idle" => key' \in Keys)
  BY <1>0, <1>1, <1>2 DEF Keys
<1>5. NoNewIdentity
  BY <1>1, <1>3 DEF NoNewIdentity
<1>. QED  BY <1>1, <1>3, <1>4, <1>5, PeerStays

(* The peer's steps and the network's losses, but for Send. *)
LEMMA PeerMovesOn ==
    ASSUME \/ GiveUp \/ Unreachable \/ ReadVerdict \/ ReadChallenge \/ ReadBadChallenge
           \/ Timeout /\ (faults' = faults \/ faults' = faults + 1)
           \/ DropStep
           \/ (LoseRequest \/ LoseReply) /\ faults' = faults + 1
    PROVE  PeerMoves
<1>1. CASE GiveUp
  BY <1>1 DEF GiveUp, EndHandshake, PeerMoves, engVars, udpVars
<1>2. CASE Unreachable
  BY <1>2 DEF Unreachable, PeerMoves, peerVars, engVars
<1>3. CASE ReadVerdict
  BY <1>3 DEF ReadVerdict, Read, EndHandshake, PeerMoves, engVars
<1>4. CASE ReadChallenge
  <2>1. eap'.kind = "edhoc"
    BY <1>4 DEF ReadChallenge, EdhocPacket
  <2>. QED  BY <1>4, <2>1 DEF ReadChallenge, Read, PeerMoves
<1>5. CASE ReadBadChallenge
  BY <1>5 DEF ReadBadChallenge, Read, EndHandshake, PeerMoves, engVars
<1>6. CASE Timeout /\ (faults' = faults \/ faults' = faults + 1)
  BY <1>6 DEF Timeout, Retry, PeerMoves, engVars, udpVars
<1>7. CASE DropStep
  <2>1. CASE DropOut
    BY <2>1 DEF DropOut, PeerMoves, engVars, udpVars
  <2>2. CASE DropIn
    BY <2>2 DEF DropIn, Readable, Retry, PeerMoves, engVars
  <2>. QED  BY <1>7, <2>1, <2>2 DEF DropStep
<1>8. CASE (LoseRequest \/ LoseReply) /\ faults' = faults + 1
  BY <1>8 DEF LoseRequest, LoseReply, PeerMoves, engVars
<1>. QED  BY <1>1, <1>2, <1>3, <1>4, <1>5, <1>6, <1>7, <1>8

-----------------------------------------------------------------------------
(* The server *)

(* A step in which one request changes its status, from s to t. *)
Turned(k, s, t) ==
    /\ DOMAIN request' = Keys
    /\ \A j \in Keys : IsRequest(request'[j]) /\ (j # k => request'[j] = request[j])
    /\ request[k].status \in s /\ request'[k].status \in t
    /\ request'[k].packet = request[k].packet \/ request'[k].status \in {"queued", "cleaned"}

LEMMA SetStatus ==
    ASSUME ServerInv, NEW k \in Keys, NEW st, request' = [request EXCEPT ![k].status = st]
    PROVE  Turned(k, {request[k].status}, {st})
<1>1. DOMAIN request = Keys /\ \A j \in Keys : IsRequest(request[j])
  BY DEF ServerInv
<1>. DEFINE r == request[k]
            n == [r EXCEPT !.status = st]
<1>2. r = [status |-> r.status, packet |-> r.packet, reply |-> r.reply]
  BY <1>1 DEF IsRequest
<1>3. n = [status |-> st, packet |-> r.packet, reply |-> r.reply]
  BY <1>2
<1>. HIDE DEF n
<1>4. IsRequest(n) /\ n.status = st /\ n.packet = r.packet
  BY <1>3 DEF IsRequest
<1>5. request' = [request EXCEPT ![k] = n]
  BY DEF n
<1>6. DOMAIN request' = Keys /\ request'[k] = n /\ \A j \in Keys : j # k => request'[j] = request[j]
  BY <1>1, <1>5
<1>. QED  BY <1>1, <1>4, <1>6 DEF Turned

LEMMA SetRequest ==
    ASSUME ServerInv, NEW k \in Keys, NEW n, IsRequest(n), request' = [request EXCEPT ![k] = n]
    PROVE  /\ DOMAIN request' = Keys /\ request'[k] = n
           /\ \A j \in Keys : IsRequest(request'[j]) /\ (j # k => request'[j] = request[j])
BY DEF ServerInv

(* Status changes leave the sessions and the peer alone. *)
LEMMA TurnStays ==
    ASSUME BenchInv, NEW k \in Keys, NEW s, NEW t, Turned(k, s, t),
           UNCHANGED <<pc, hs, eap, key, aaaVars>>, ServerInv', IsSeq(udpIn)',
           \A n \in DOMAIN udpIn' : \E j \in DOMAIN udpIn : udpIn'[n] = udpIn[j],
           \A j \in Keys : j # k => (Unserved(j)' => Unserved(j)),
           \/ faults' = faults /\ (IdentityAt(k)' /\ Unserved(k)' => IdentityAt(k) /\ Unserved(k))
           \/ faults' = faults + 1
    PROVE  BenchInv'
<1>1. pc' = pc /\ hs' = hs /\ eap' = eap /\ key' = key /\ aaa' = aaa /\ aaaNext' = aaaNext
  BY DEF aaaVars
<1>2. SessionsInv'
  BY <1>1 DEF BenchInv, SessionsInv
<1>3. hs \in Nat /\ faults \in Nat /\ aaaNext \in Nat \ {0} /\ \A n \in DOMAIN udpIn : udpIn[n].key \in Keys
  BY DEF BenchInv, CountersInv
<1>4. faults' \in Nat
  BY <1>3
<1>5. CountersInv'
  BY <1>1, <1>3, <1>4 DEF CountersInv, BenchInv
<1>6. ASSUME NEW j \in Keys, j # k, IdentityAt(j)' PROVE IdentityAt(j)
  <2>1. request'[j] = request[j]
    BY <1>6 DEF Turned
  <2>. QED  BY <1>1, <1>6, <2>1 DEF IdentityAt
<1>7. Opening' \subseteq Opening \cup {k}
  BY <1>6 DEF Opening, Keys
<1>8. faults' = faults => Opening' \subseteq Opening
  BY <1>6, <1>3 DEF Opening, Keys
<1>9. Pays
  <2>1. hs' \in Nat /\ faults' \in Nat /\ aaaNext' \in Nat /\ aaaNext' = aaaNext
    BY <1>1, <1>3, <1>4
  <2>2. CASE faults' = faults
    <3>1. hs' + faults' >= hs + faults
      BY <1>1, <1>3, <2>2
    <3>. QED  BY <1>8, <2>1, <2>2, <3>1 DEF Pays
  <2>3. CASE faults' = faults + 1
    <3>1. hs' + faults' >= hs + faults + 1
      BY <1>1, <1>3, <2>3
    <3>. QED  BY <1>7, <2>1, <3>1 DEF Pays
  <2>. QED  BY <2>2, <2>3
<1>10. PaidFor'
  BY <1>9, StaysPaid
<1>. QED  BY <1>2, <1>5, <1>10 DEF BenchInv

LEMMA ReceiveStays ==
    ASSUME BenchInv, ReceiveNew, UNCHANGED peerVars
    PROVE  BenchInv'
<1>d. PICK d : d = Head(udpIn)
  OBVIOUS
<1>k. PICK k : k = d.key
  OBVIOUS
<1>n. PICK n : n = [status |-> "queued", packet |-> d, reply |-> NoRsp]
  OBVIOUS
<1>1. /\ udpIn # << >> /\ request[k].status \in {"none", "cleaned"}
      /\ request' = [request EXCEPT ![k] = n] /\ udpIn' = Tail(udpIn)
      /\ UNCHANGED <<running, aaaVars, radiusReq, radiusRsp, pc, hs, eap, key, faults>>
  BY <1>d, <1>k, <1>n DEF ReceiveNew, radiusVars, peerVars, engVars
<1>2. IsSeq(udpIn) /\ \A j \in DOMAIN udpIn : udpIn[j].key \in Keys
  BY DEF BenchInv, CountersInv
<1>3. /\ IsSeq(udpIn') /\ 1 \in DOMAIN udpIn /\ d = udpIn[1]
      /\ \A i \in DOMAIN udpIn' : \E j \in DOMAIN udpIn : udpIn'[i] = udpIn[j]
  BY <1>d, <1>1, <1>2, TailAny
<1>4. k \in Keys
  BY <1>k, <1>2, <1>3
<1>5. n.status = "queued" /\ n.packet = d /\ IsRequest(n)
  BY <1>n DEF IsRequest
<1>6. /\ DOMAIN request' = Keys /\ request'[k] = n
      /\ \A j \in Keys : IsRequest(request'[j]) /\ (j # k => request'[j] = request[j])
  BY <1>1, <1>4, <1>5, SetRequest DEF BenchInv
<1>7. Turned(k, {"none", "cleaned"}, {"queued"})
  BY <1>1, <1>5, <1>6 DEF Turned
<1>8. ServerInv'
  <2>1. \A j \in Keys : request'[j].status = "running" <=> request[j].status = "running"
    BY <1>1, <1>4, <1>5, <1>6
  <2>2. running # NoKey => request'[running] = request[running] /\ running \in Keys
    BY <1>1, <1>4, <1>6 DEF BenchInv, ServerInv
  <2>. QED  BY <1>1, <1>6, <2>1, <2>2 DEF ServerInv, BenchInv
<1>9. IdentityAt(k)' => IdentityAt(k)
  <2>1. d.eap.kind = "identity" => IdentityAt(k)
    BY <1>k, <1>3 DEF IdentityAt
  <2>2. request'[k].packet = d
    BY <1>5, <1>6
  <2>. QED  BY <1>1, <1>3, <2>1, <2>2 DEF IdentityAt
<1>10. Unserved(k)
  BY <1>1 DEF Unserved
<1>11. \A j \in Keys : j # k => (Unserved(j)' => Unserved(j))
  BY <1>1, <1>6 DEF Unserved
<1>. QED  BY <1>1, <1>3, <1>4, <1>7, <1>8, <1>9, <1>10, <1>11, TurnStays

LEMMA DupStays ==
    ASSUME BenchInv, ReceiveDup, UNCHANGED peerVars
    PROVE  BenchInv'
<1>1. PeerMoves
  BY DEF ReceiveDup, PeerMoves, serverVars, peerVars, engVars
<1>. QED  BY <1>1, MovesStay

LEMMA RunStays ==
    ASSUME BenchInv, NEW k \in Keys, RunRequest(k), UNCHANGED peerVars
    PROVE  BenchInv'
<1>1. /\ running = NoKey /\ running' = k /\ request[k].status = "queued"
      /\ request' = [request EXCEPT ![k].status = "running"]
      /\ radiusReq' = <<AccessRequest(request[k].packet.state, request[k].packet.eap)>>
      /\ UNCHANGED <<udpIn, aaaVars, radiusRsp, pc, hs, eap, key, faults>>
  BY DEF RunRequest, udpVars, peerVars, engVars
<1>2. Turned(k, {request[k].status}, {"running"})
  BY <1>1, SetStatus DEF BenchInv
<1>3. /\ DOMAIN request' = Keys /\ request'[k].status = "running" /\ request'[k].packet = request[k].packet
      /\ \A j \in Keys : IsRequest(request'[j]) /\ (j # k => request'[j] = request[j])
  BY <1>2 DEF Turned
<1>4. k # NoKey /\ radiusRsp = NoRsp /\ \A j \in Keys : request[j].status # "running"
  BY <1>1, FreeRadiusAssumption DEF BenchInv, ServerInv
<1>5. ServerInv'
  <2>1. radiusReq' = <<AccessRequest(request'[k].packet.state, request'[k].packet.eap)>>
    BY <1>1, <1>3
  <2>. QED  BY <1>1, <1>3, <1>4, <2>1 DEF ServerInv
<1>6. IdentityAt(k)' => IdentityAt(k)
  BY <1>1, <1>3 DEF IdentityAt
<1>7. Unserved(k) /\ \A j \in Keys : j # k => (Unserved(j)' => Unserved(j))
  BY <1>1, <1>3, <1>4 DEF Unserved
<1>8. IsSeq(udpIn)' /\ \A n \in DOMAIN udpIn' : \E j \in DOMAIN udpIn : udpIn'[n] = udpIn[j]
  BY <1>1 DEF BenchInv, CountersInv
<1>. QED  BY <1>1, <1>2, <1>5, <1>6, <1>7, <1>8, TurnStays

LEMMA FinishStays ==
    ASSUME BenchInv, request_finish, UNCHANGED peerVars
    PROVE  BenchInv'
<1>k. PICK k : k = running
  OBVIOUS
<1>r. PICK r : r = radiusRsp
  OBVIOUS
<1>st. PICK st : st = IF r.result = "reject" THEN "delayed" ELSE "replied"
  OBVIOUS
<1>1. /\ r # NoRsp /\ running' = NoKey /\ radiusRsp' = NoRsp
      /\ request' = [request EXCEPT ![k].reply = r, ![k].status = st]
      /\ UNCHANGED <<udpIn, aaaVars, radiusReq, pc, hs, eap, key, faults>>
  BY <1>k, <1>r, <1>st DEF request_finish, peerVars, engVars
<1>2. k \in Keys /\ request[k].status = "running" /\ radiusReq = << >>
  BY <1>k, <1>r, <1>1 DEF BenchInv, ServerInv
<1>3. st \in {"delayed", "replied"}
  BY <1>st
<1>. DEFINE o == request[k]
            n == [o EXCEPT !.reply = r, !.status = st]
<1>4. DOMAIN request = Keys /\ \A j \in Keys : IsRequest(request[j])
  BY DEF BenchInv, ServerInv
<1>5. o = [status |-> o.status, packet |-> o.packet, reply |-> o.reply]
  BY <1>2, <1>4 DEF IsRequest
<1>6. n = [status |-> st, packet |-> o.packet, reply |-> r]
  <2>. DEFINE m == [o EXCEPT !.reply = r]
  <2>1. m = [status |-> o.status, packet |-> o.packet, reply |-> r]
    BY <1>5
  <2>2. n = [m EXCEPT !.status = st]
    OBVIOUS
  <2>. HIDE DEF m, n, o
  <2>. QED  BY <2>1, <2>2
<1>7. request' = [request EXCEPT ![k] = n]
  BY <1>1, <1>2, <1>4
<1>. HIDE DEF n, o
<1>8. IsRequest(n) /\ n.status = st /\ n.packet = o.packet
  BY <1>6 DEF IsRequest
<1>9. /\ DOMAIN request' = Keys /\ request'[k] = n
      /\ \A j \in Keys : IsRequest(request'[j]) /\ (j # k => request'[j] = request[j])
  BY <1>2, <1>4, <1>7, <1>8
<1>10. Turned(k, {"running"}, {st})
  BY <1>2, <1>8, <1>9 DEF Turned, o
<1>11. /\ \A j \in Keys : request'[j].status # "running"
       /\ ServerInv'
  <2>1. ASSUME NEW j \in Keys PROVE request'[j].status # "running"
    <3>1. CASE j = k
      BY <1>3, <1>8, <1>9, <3>1
    <3>2. CASE j # k
      BY <1>k, <1>9, <3>2 DEF BenchInv, ServerInv
    <3>. QED  BY <3>1, <3>2
  <2>. QED  BY <1>1, <1>2, <1>9, <2>1, FreeRadiusAssumption DEF ServerInv
<1>12. ~Unserved(k)' /\ \A j \in Keys : j # k => (Unserved(j)' => Unserved(j))
  <2>1. ~Unserved(k)'
    BY <1>3, <1>8, <1>9 DEF Unserved
  <2>. QED  BY <1>1, <1>9, <2>1 DEF Unserved
<1>13. IsSeq(udpIn)' /\ \A i \in DOMAIN udpIn' : \E j \in DOMAIN udpIn : udpIn'[i] = udpIn[j]
  BY <1>1 DEF BenchInv, CountersInv
<1>. QED  BY <1>1, <1>2, <1>10, <1>11, <1>12, <1>13, TurnStays

LEMMA SendDelayedStays ==
    ASSUME BenchInv, NEW k \in Keys, SendDelayed(k), UNCHANGED peerVars
    PROVE  BenchInv'
<1>1. /\ request[k].status = "delayed" /\ request' = [request EXCEPT ![k].status = "replied"]
      /\ UNCHANGED <<udpIn, running, aaaVars, radiusReq, radiusRsp, pc, hs, eap, key, faults>>
  BY DEF SendDelayed, radiusVars, peerVars, engVars
<1>2. Turned(k, {request[k].status}, {"replied"})
  BY <1>1, SetStatus DEF BenchInv
<1>3. /\ DOMAIN request' = Keys /\ request'[k].status = "replied"
      /\ \A j \in Keys : IsRequest(request'[j]) /\ (j # k => request'[j] = request[j])
  BY <1>2 DEF Turned
<1>4. ServerInv'
  <2>1. running # k
    BY <1>1 DEF BenchInv, ServerInv
  <2>. QED  BY <1>1, <1>3, <2>1 DEF BenchInv, ServerInv
<1>5. ~Unserved(k)' /\ \A j \in Keys : j # k => (Unserved(j)' => Unserved(j))
  BY <1>1, <1>3 DEF Unserved
<1>6. IsSeq(udpIn)' /\ \A n \in DOMAIN udpIn' : \E j \in DOMAIN udpIn : udpIn'[n] = udpIn[j]
  BY <1>1 DEF BenchInv, CountersInv
<1>. QED  BY <1>1, <1>2, <1>4, <1>5, <1>6, TurnStays

(* A request that is forgotten may be served once more: the fault pays for it. *)
LEMMA CleanupStays ==
    ASSUME BenchInv, NEW k \in Keys, Cleanup(k), faults' = faults + 1, UNCHANGED <<pc, hs, engVars>>
    PROVE  BenchInv'
<1>n. PICK n : n = [status |-> "cleaned", packet |-> NoKey, reply |-> NoRsp]
  OBVIOUS
<1>0. [NoRequest EXCEPT !.status = "cleaned"] = n
  BY <1>n DEF NoRequest
<1>1. /\ request[k].status = "replied" /\ request' = [request EXCEPT ![k] = n]
      /\ UNCHANGED <<udpIn, running, aaaVars, radiusReq, radiusRsp, pc, hs, eap, key>>
  BY <1>0 DEF Cleanup, udpVars, radiusVars, engVars
<1>2. IsRequest(n) /\ n.status = "cleaned"
  BY <1>n DEF IsRequest
<1>3. /\ DOMAIN request' = Keys /\ request'[k] = n
      /\ \A j \in Keys : IsRequest(request'[j]) /\ (j # k => request'[j] = request[j])
  BY <1>1, <1>2, SetRequest DEF BenchInv
<1>4. Turned(k, {"replied"}, {"cleaned"})
  BY <1>1, <1>2, <1>3 DEF Turned
<1>5. ServerInv'
  <2>1. running # k
    BY <1>1 DEF BenchInv, ServerInv
  <2>. QED  BY <1>1, <1>2, <1>3, <2>1 DEF BenchInv, ServerInv
<1>6. \A j \in Keys : j # k => (Unserved(j)' => Unserved(j))
  BY <1>1, <1>3 DEF Unserved
<1>7. IsSeq(udpIn)' /\ \A i \in DOMAIN udpIn' : \E j \in DOMAIN udpIn : udpIn'[i] = udpIn[j]
  BY <1>1 DEF BenchInv, CountersInv
<1>. QED  BY <1>1, <1>4, <1>5, <1>6, <1>7, TurnStays

(* What the EAP module does with the request it has: a session is opened for an
   identity; nothing else touches one that is not open. *)
Serves(i) ==
    /\ radiusReq' = RemoveAt(radiusReq, i) /\ DOMAIN aaa' = Sids
    /\ \/ /\ radiusReq[i].eap.kind = "identity" /\ aaaNext \in Sids /\ aaaNext' = aaaNext + 1
          /\ \A s \in Sids : s # aaaNext => aaa'[s] = aaa[s]
       \/ /\ aaaNext' = aaaNext
          /\ \A s \in Sids : aaa[s].status = "none" => aaa'[s] = aaa[s]

LEMMA MatchedOnly ==
    ASSUME DOMAIN aaa = Sids, NEW i, NEW s \in Sids, Matches(radiusReq[i], s), NEW x,
           aaa' = [aaa EXCEPT ![s] = x], radiusReq' = RemoveAt(radiusReq, i), aaaNext' = aaaNext
    PROVE  Serves(i)
<1>1. aaa[s].status # "none"
  BY DEF Matches
<1>2. DOMAIN aaa' = Sids /\ \A q \in Sids : q # s => aaa'[q] = aaa[q]
  OBVIOUS
<1>. QED  BY <1>1, <1>2 DEF Serves

LEMMA ModuleServes ==
    ASSUME DOMAIN aaa = Sids, AaaNext
    PROVE  \E i \in DOMAIN radiusReq : Serves(i)
<1>1. PICK i \in DOMAIN radiusReq :
          mod_session_init(i) \/ RejectUnknown(i) \/ \E s \in Sids : AbortTrips(i, s) \/ mod_process(i, s)
  BY DEF AaaNext
<1>2. CASE mod_session_init(i)
  <2>x. PICK x : x = [NoSession EXCEPT !.status = "listed", !.id = radiusReq[i].eap.id + 1]
    OBVIOUS
  <2>1. /\ radiusReq[i].eap.kind = "identity" /\ aaaNext \in Sids /\ aaaNext' = aaaNext + 1
        /\ aaa' = [aaa EXCEPT ![aaaNext] = x] /\ radiusReq' = RemoveAt(radiusReq, i)
    BY <1>2, <2>x DEF mod_session_init, Answer
  <2>2. DOMAIN aaa' = Sids /\ \A s \in Sids : s # aaaNext => aaa'[s] = aaa[s]
    BY <2>1
  <2>. QED  BY <2>1, <2>2 DEF Serves
<1>3. CASE RejectUnknown(i)
  <2>1. aaa' = aaa /\ aaaNext' = aaaNext /\ radiusReq' = RemoveAt(radiusReq, i)
    BY <1>3 DEF RejectUnknown, Answer, aaaVars
  <2>. QED  BY <2>1 DEF Serves
<1>4. ASSUME NEW s \in Sids, AbortTrips(i, s) \/ mod_process(i, s)
      PROVE  Serves(i)
  <2>1. Matches(radiusReq[i], s)
    BY <1>4, Zenon DEF AbortTrips, mod_process, SendNextFragment, FailParse, AckFragment, ProcessMsg1,
       ProcessClassic1, ProcessMsg3, SucceedClassic, Succeed, FailRound, Receiving, Processing
  <2>2. \/ \E sess, wire : Challenge(i, s, sess, wire)
        \/ \E sess, status, rsp : Conclude(i, s, sess, status, rsp)
    BY <1>4, Zenon DEF AbortTrips, mod_process, SendNextFragment, FailParse, AckFragment, ProcessMsg1,
       ProcessClassic1, ProcessMsg3, SucceedClassic, Succeed, FailRound, Fail
  <2>3. ASSUME NEW sess, NEW wire, Challenge(i, s, sess, wire) PROVE Serves(i)
    <3>x. PICK x : x = [sess EXCEPT !.trip = sess.trip + 1, !.id = sess.id + 1]
      OBVIOUS
    <3>1. aaa' = [aaa EXCEPT ![s] = x] /\ radiusReq' = RemoveAt(radiusReq, i) /\ aaaNext' = aaaNext
      BY <2>3, <3>x DEF Challenge, Answer
    <3>. QED  BY <2>1, <3>1, MatchedOnly
  <2>4. ASSUME NEW sess, NEW status, NEW rsp, Conclude(i, s, sess, status, rsp) PROVE Serves(i)
    <3>x. PICK x : x = [sess EXCEPT !.status = status]
      OBVIOUS
    <3>1. aaa' = [aaa EXCEPT ![s] = x] /\ radiusReq' = RemoveAt(radiusReq, i) /\ aaaNext' = aaaNext
      BY <2>4, <3>x DEF Conclude, Answer
    <3>. QED  BY <2>1, <3>1, MatchedOnly
  <2>. QED  BY <2>2, <2>3, <2>4
<1>. QED  BY <1>1, <1>2, <1>3, <1>4

LEMMA HandleStays ==
    ASSUME BenchInv, HandleRequest, UNCHANGED peerVars
    PROVE  BenchInv'
<1>k. PICK k : k = running
  OBVIOUS
<1>1. /\ running # NoKey /\ AaaNext
      /\ UNCHANGED <<udpIn, request, running, pc, hs, eap, key, faults>>
  BY DEF HandleRequest, udpVars, peerVars, engVars
<1>2. PICK i \in DOMAIN radiusReq : Serves(i)
  BY <1>1, ModuleServes DEF BenchInv, SessionsInv
<1>3. /\ k \in Keys /\ request[k].status = "running"
      /\ radiusReq = <<AccessRequest(request[k].packet.state, request[k].packet.eap)>>
  <2>1. radiusReq # << >>
    BY <1>2
  <2>. QED  BY <1>k, <1>1, <2>1 DEF BenchInv, ServerInv
<1>4. i = 1 /\ radiusReq' = << >>
  BY <1>2, <1>3, RemoveOnly DEF Serves
<1>5. radiusReq[i].eap = request[k].packet.eap
  BY <1>3, <1>4 DEF AccessRequest
<1>6. ServerInv'
  BY <1>1, <1>4 DEF BenchInv, ServerInv
<1>7. /\ hs \in Nat /\ faults \in Nat /\ aaaNext \in Nat \ {0} /\ aaaNext' \in Nat \ {0}
      /\ aaaNext' \in {aaaNext, aaaNext + 1}
  BY <1>2 DEF BenchInv, CountersInv, Serves
<1>8. CountersInv'
  BY <1>1, <1>7 DEF BenchInv, CountersInv
<1>9. SessionsInv'
  <2>1. DOMAIN aaa' = Sids
    BY <1>2 DEF Serves
  <2>2. ASSUME NEW s \in Sids, s >= aaaNext' PROVE aaa'[s].status = "none"
    <3>1. s \in Nat /\ s >= aaaNext
      BY <1>7, <2>2 DEF Sids
    <3>2. aaa[s].status = "none"
      BY <3>1 DEF BenchInv, SessionsInv
    <3>3. aaaNext' = aaaNext + 1 => s # aaaNext
      BY <1>7, <2>2, <3>1
    <3>. QED  BY <1>2, <1>7, <3>2, <3>3 DEF Serves
  <2>. QED  BY <2>1, <2>2 DEF SessionsInv
<1>10. Opening' \subseteq Opening \ {k}
  <2>1. ASSUME NEW j \in Keys, IdentityAt(j)', Unserved(j)' PROVE IdentityAt(j) /\ Unserved(j) /\ j # k
    BY <1>1, <1>3, <1>4, <2>1 DEF IdentityAt, Unserved
  <2>. QED  BY <2>1 DEF Opening, Keys
<1>11. Pays
  <2>1. hs' \in Nat /\ faults' \in Nat /\ aaaNext' \in Nat /\ hs' + faults' >= hs + faults
    BY <1>1, <1>7
  <2>2. CASE aaaNext' = aaaNext
    BY <1>10, <2>1, <2>2 DEF Pays
  <2>3. CASE aaaNext' = aaaNext + 1
    <3>1. request[k].packet.eap.kind = "identity"
      BY <1>2, <1>5, <1>7, <2>3 DEF Serves
    <3>2. k \in Opening
      <4>1. radiusReq # << >>
        BY <1>2
      <4>. QED  BY <1>3, <3>1, <4>1 DEF Opening, IdentityAt, Unserved
    <3>. QED  BY <1>10, <2>1, <2>3, <3>2 DEF Pays
  <2>. QED  BY <1>7, <2>2, <2>3
<1>12. PaidFor'
  BY <1>11, StaysPaid
<1>. QED  BY <1>6, <1>8, <1>9, <1>12 DEF BenchInv

-----------------------------------------------------------------------------
LEMMA InitPaid ==
    ASSUME Init
    PROVE  BenchInv
<1>1. /\ aaa = [s \in Sids |-> NoSession] /\ aaaNext = 1 /\ radiusReq = << >> /\ radiusRsp = NoRsp
      /\ udpIn = << >> /\ request = [k \in Keys |-> NoRequest] /\ running = NoKey
      /\ pc = "idle" /\ hs = 0 /\ key = 0 /\ faults = 0
  BY DEF Init, ServerInit, AaaInit, RadiusInit
<1>2. IsRequest(NoRequest) /\ NoRequest.status = "none"
  BY DEF IsRequest, NoRequest
<1>3. ServerInv
  BY <1>1, <1>2, FreeRadiusAssumption DEF ServerInv
<1>4. IsSeq(udpIn) /\ DOMAIN udpIn = {}
  BY <1>1 DEF IsSeq
<1>5. CountersInv
  BY <1>1, <1>4, FreeRadiusAssumption DEF CountersInv
<1>6. SessionsInv
  BY <1>1 DEF SessionsInv, NoSession
<1>7. Opening = {}
  BY <1>1, <1>2, <1>4 DEF Opening, IdentityAt
<1>8. PaidFor
  BY <1>1, <1>7, FS_EmptySet DEF PaidFor
<1>. QED  BY <1>3, <1>5, <1>6, <1>8 DEF BenchInv

LEMMA NextPaid ==
    ASSUME BenchInv, [Next]_vars
    PROVE  BenchInv'
<1>1. CASE PeerStep
  <2>1. CASE \E method \in Methods : StartHandshake(method)
    BY <2>1, StartPays
  <2>2. CASE Send
    BY <2>2, SendStays
  <2>3. CASE ~Awaited /\ Timeout /\ UNCHANGED faults
    BY <2>3, PeerMovesOn, MovesStay
  <2>4. CASE GiveUp \/ Unreachable \/ ReadVerdict \/ ReadChallenge \/ ReadBadChallenge
    BY <2>4, PeerMovesOn, MovesStay
  <2>. QED  BY <1>1, <2>1, <2>2, <2>3, <2>4 DEF PeerStep
<1>2. CASE ServerStep
  <2>1. ServerNext /\ UNCHANGED peerVars
    BY <1>2 DEF ServerStep
  <2>2. CASE ReceiveNew
    BY <2>1, <2>2, ReceiveStays
  <2>3. CASE ReceiveDup
    BY <2>1, <2>3, DupStays
  <2>4. CASE HandleRequest
    BY <2>1, <2>4, HandleStays
  <2>5. CASE request_finish
    BY <2>1, <2>5, FinishStays
  <2>6. CASE \E k \in Keys : RunRequest(k) \/ SendDelayed(k)
    BY <2>1, <2>6, RunStays, SendDelayedStays
  <2>. QED  BY <2>1, <2>2, <2>3, <2>4, <2>5, <2>6 DEF ServerNext
<1>3. CASE DropStep
  BY <1>3, PeerMovesOn, MovesStay
<1>4. CASE FaultStep
  <2>1. CASE Awaited /\ Timeout
    BY <1>4, <2>1, PeerMovesOn, MovesStay DEF FaultStep
  <2>2. CASE LoseRequest \/ LoseReply
    BY <1>4, <2>2, PeerMovesOn, MovesStay DEF FaultStep
  <2>3. CASE \E k \in Keys : k = key /\ Cleanup(k) /\ UNCHANGED <<pc, hs, engVars, tries, result, drops>>
    BY <1>4, <2>3, CleanupStays DEF FaultStep
  <2>. QED  BY <1>4, <2>1, <2>2, <2>3 DEF FaultStep
<1>5. CASE UNCHANGED vars
  <2>1. PeerMoves
    BY <1>5 DEF vars, peerVars, udpVars, engVars, PeerMoves
  <2>. QED  BY <2>1, MovesStay
<1>. QED  BY <1>1, <1>2, <1>3, <1>4, <1>5 DEF Next

(* Every identity the peer has sent, however many copies of it are about, has at
   most one session opened or still to be opened for it, but for what a fault
   pays for: the inductive invariant. *)
THEOREM BenchInductive == Spec => []BenchInv
<1>1. Init => BenchInv
  BY InitPaid
<1>2. BenchInv /\ [Next]_vars => BenchInv'
  BY NextPaid
<1>. QED  BY <1>1, <1>2, PTL DEF Spec

(* However often rad_exchange resends a request and however its copies are
   delayed, FreeRADIUS opens one session for each handshake, unless a fault made
   it forget a request in between. *)
THEOREM OneSessionPerHandshakeAlways == Spec => []OneSessionPerHandshake
<1>1. BenchInv => OneSessionPerHandshake
  <2>. SUFFICES ASSUME BenchInv PROVE OneSessionPerHandshake
    OBVIOUS
  <2>2. hs \in Nat /\ faults \in Nat /\ aaaNext \in Nat \ {0}
    BY DEF BenchInv, CountersInv
  <2>3. Created \subseteq 1..(aaaNext - 1)
    <3>1. ASSUME NEW s \in Created PROVE s \in 1..(aaaNext - 1)
      <4>1. s \in Nat /\ s >= 1 /\ s \in Sids /\ aaa[s].status # "none"
        BY AaaAssumption DEF Created, Sids
      <4>2. ~(s >= aaaNext)
        BY <4>1 DEF BenchInv, SessionsInv
      <4>. QED  BY <2>2, <4>1, <4>2
    <3>. QED  BY <3>1
  <2>4. Cardinality(Created) <= aaaNext - 1 /\ Cardinality(Created) \in Nat
    <3>1. aaaNext - 1 \in Nat /\ 1 \in Int
      BY <2>2
    <3>2. IsFiniteSet(1..(aaaNext - 1)) /\ Cardinality(1..(aaaNext - 1)) = aaaNext - 1
      BY <3>1, FS_Interval
    <3>. QED  BY <2>3, <3>2, FS_Subset, FS_CardinalityType
  <2>5. Cardinality(Opening) \in Nat
    <3>1. Opening \in SUBSET Keys
      BY DEF Opening
    <3>. QED  BY <3>1, KeySets
  <2>6. Cardinality(Opening) + (aaaNext - 1) <= hs + faults
    BY DEF BenchInv, PaidFor
  <2>. QED  BY <2>2, <2>4, <2>5, <2>6 DEF OneSessionPerHandshake
<1>. QED  BY <1>1, BenchInductive, PTL

-----------------------------------------------------------------------------
(* Where bytes come from.  The types: a run of bytes belongs to a message. *)
InitTypes == {"msg1", "classic1", "msg3", "classic3"}

RespTypes == {"msg2", "classic2", "msg4"}

Msgs == [type: InitTypes \cup RespTypes, eph: Nat, sid: Nat] \cup {NoMsg, Junk}

Runs == [msg: Msgs, off: Nat, len: Nat]

Wires == [start: BOOLEAN, lenFlag: BOOLEAN, more: BOOLEAN, total: Nat, data: Runs]

Ins == [len: Nat, pos: Nat, data: Runs]

Outs == {b \in [msg: Msgs, len: Nat, pos: Nat] : b.pos <= b.len}

KCtxs == [eph: Nat, sid: Nat, done: BOOLEAN]

Engines == [method: Methods \cup {4}, step: 0..3, in: Ins, out: Outs, ctx: KCtxs]

Packets == [kind: {"edhoc"}, id: Nat, wire: Wires]

KStates == [sid: Sids, trip: Nat]

KSessions ==
    [status: {"none", "listed", "success", "failed"}, trip: Nat, id: Nat, mode: {0, 3, 4},
     round: 0..2, in: Ins, out: Outs, ctx: KCtxs]

(* The bytes of d, if there are any, are of a message in M. *)
Bytes(d, M) == d.len = 0 \/ d.msg \in M \cup {Junk}

(* The messages an engine has made: message_3 only with the session it took from
   message_2, the classical one only when done. *)
EngMsgs(e) ==
    {m \in [type: InitTypes, eph: {e.ctx.eph}, sid: Nat] :
        /\ m.type \in {"msg3", "classic3"} => e.step >= 2 /\ m.sid = e.ctx.sid
        /\ m.type = "classic3" => e.ctx.done}

(* Handshake x is the one under way. *)
Live(x) == x = hs /\ pc # "idle"

PeerMsgs(x) == IF Live(x) THEN EngMsgs(eng) ELSE [type: InitTypes, eph: {x}, sid: Nat]

-----------------------------------------------------------------------------
(* Session s has sent the last of message_4 with its State of trip t. *)
Final(s, t) == aaa[s].trip = t /\ aaa[s].round = 2 /\ ~Pending(aaa[s].out)

Granted(ctx) ==
    \E s \in Sids : aaa[s].status = "success" /\ aaa[s].ctx.done /\ Msk(aaa[s].ctx) = Msk(ctx)

(* A State belongs to a session, which belongs to the handshake it was opened for. *)
StateOf(st, x, own) ==
    /\ st \in KStates /\ st.sid < aaaNext
    /\ own[st.sid] = x /\ st.trip <= aaa[st.sid].trip

(* A request: the peer acknowledges the last of message_4 only when it is done. *)
PacketOf(p, own) ==
    /\ p.sock \in 1..hs
    /\ (p.eap = Identity(1) /\ p.state = NoState) \/ p.eap \in Packets
    /\ p.eap.kind = "edhoc" =>
          /\ StateOf(p.state, p.sock, own)
          /\ Bytes(p.eap.wire.data, PeerMsgs(p.sock))
          /\ Final(p.state.sid, p.state.trip) /\ p.eap.wire.data.len = 0 /\ Live(p.sock) => eng.ctx.done

(* An answer to a socket: the last of message_4 has no MORE; an accept
   finds the peer done, and a session that has granted its key. *)
AnswerOf(a, own) ==
    /\ a.sock \in 1..hs
    /\ a.rsp.result = "challenge" =>
          /\ StateOf(a.rsp.state, a.sock, own)
          /\ a.rsp.eap \in Packets
          /\ Final(a.rsp.state.sid, a.rsp.state.trip) => ~a.rsp.eap.wire.more
    /\ a.rsp.result = "accept" /\ Live(a.sock) => eng.ctx.done /\ Granted(eng.ctx)

(* A session's bytes are those of the handshake it was opened for, and that
   handshake has taken the session for its own once its message_3 is there. *)
SessionOf(s, own) ==
    IF s >= aaaNext THEN aaa[s] = NoSession
    ELSE /\ own[s] \in 1..hs
         /\ Bytes(aaa[s].in.data, PeerMsgs(own[s]))
         /\ aaa[s].round # 0 => aaa[s].ctx.eph = own[s] /\ aaa[s].ctx.sid = s
         /\ aaa[s].round = 2 /\ Live(own[s]) => eng.step >= 2 /\ eng.ctx.sid = s

EngineOf ==
    pc # "idle" =>
        /\ eng.ctx.eph = hs
        /\ eng.ctx.done => eng.step >= 2
        /\ Pending(eng.out) => eng.out.msg \in EngMsgs(eng)

(* Every request and every answer that may still be read. *)
Kept == {k \in Keys : request[k].status \notin {"none", "cleaned"}}

PacketsAbout ==
    (IF pc = "idle" THEN {} ELSE {Datagram(key, hs, state, eap)})
        \cup {udpIn[n] : n \in DOMAIN udpIn} \cup {request[k].packet : k \in Kept}

Answered == {k \in Keys : request[k].status \in {"delayed", "replied"}}

AnswerTo(sock, rsp) == [sock |-> sock, rsp |-> rsp]

AnswersAbout ==
    {AnswerTo(udpOut[n].sock, udpOut[n].rsp) : n \in DOMAIN udpOut}
        \cup {AnswerTo(request[k].packet.sock, request[k].reply) : k \in Answered}
        \cup (IF radiusRsp = NoRsp THEN {} ELSE {AnswerTo(request[running].packet.sock, radiusRsp)})

KeyTypes ==
    /\ eng \in Engines /\ aaa \in [Sids -> KSessions] /\ aaaNext \in 1..(MaxSids + 1)
    /\ hs \in 0..MaxHandshakes /\ IsSeq(udpIn) /\ IsSeq(udpOut)
    /\ DOMAIN result = Handshakes

KeyInv(own) ==
    /\ EngineOf
    /\ \A p \in PacketsAbout : PacketOf(p, own)
    /\ \A a \in AnswersAbout : AnswerOf(a, own)
    /\ \A s \in Sids : SessionOf(s, own)

(* own[s] is the handshake session s was opened for. *)
Owners == [Sids -> 0..MaxHandshakes]

PassInv == KeyTypes /\ PassMeansKey /\ \E own \in Owners : KeyInv(own)

-----------------------------------------------------------------------------
(* Runs, buffers and wires. *)
LEMMA EmptyBytes ==
    /\ Empty \in Runs /\ Empty.len = 0
    /\ NoIn \in Ins /\ NoIn.data.len = 0
    /\ NoOut \in Outs /\ ~Pending(NoOut)
<1>1. Empty \in Runs /\ Empty.len = 0
  BY DEF Empty, Runs, Msgs
<1>2. NoOut \in Outs /\ ~Pending(NoOut)
  BY DEF NoOut, Outs, Msgs, Pending
<1>. QED  BY <1>1, <1>2 DEF NoIn, Ins

LEMMA WireBytes ==
    ASSUME NEW d \in Runs, NEW n \in Nat
    PROVE  /\ FirstWire(n, d) \in Wires /\ FirstWire(n, d).data = d
           /\ MoreWire(d) \in Wires /\ MoreWire(d).data = d
           /\ LastWire(d) \in Wires /\ LastWire(d).data = d /\ LastWire(d).more = FALSE
BY DEF FirstWire, MoreWire, LastWire, Wire, Wires

LEMMA ControlBytes ==
    /\ Ack \in Wires /\ Ack.data.len = 0
    /\ StartWire \in Wires /\ StartWire.data.len = 0
<1>1. Ack \in Wires /\ Ack.data = Empty
  BY EmptyBytes, WireBytes DEF Ack
<1>2. StartWire \in Wires /\ StartWire.data = Empty
  BY <1>1 DEF StartWire, Wires
<1>. QED  BY <1>1, <1>2, EmptyBytes

LEMMA JoinBytes ==
    ASSUME NEW a \in Runs, NEW b \in Runs
    PROVE  /\ Join(a, b) \in Runs /\ Join(a, b).len = a.len + b.len
           /\ \A M : Bytes(a, M) /\ Bytes(b, M) => Bytes(Join(a, b), M)
           /\ b.len # 0 => Join(a, b).msg \in {Junk, b.msg}
<1>1. Join(a, b) \in Runs /\ Join(a, b).len = a.len + b.len
  BY DEF Join, Runs, Msgs
<1>2. ASSUME NEW M, Bytes(a, M), Bytes(b, M) PROVE Bytes(Join(a, b), M)
  BY <1>2 DEF Join, Runs, Bytes
<1>3. b.len # 0 => Join(a, b).msg \in {Junk, b.msg}
  BY DEF Join, Runs
<1>. QED  BY <1>1, <1>2, <1>3

(* What ParseEdhocWire stores and hands on are bytes it had or was given. *)
LEMMA ParseBytes ==
    ASSUME NEW in \in Ins, NEW w \in Wires, NEW r, r = ParseEdhocWire(in, w)
    PROVE  /\ r.status \in {"error", "ack", "msg"} /\ r.in \in Ins /\ r.msg \in Runs
           /\ \A M : Bytes(in.data, M) /\ Bytes(w.data, M) => Bytes(r.in.data, M) /\ Bytes(r.msg, M)
           /\ r.status = "ack" => w.more
           /\ r.status = "msg" /\ r.msg.len = 0 => w.data.len = 0
           /\ r.status = "msg" /\ w.data.len # 0 => r.msg.msg \in {Junk, w.data.msg}
<1>. DEFINE in1 == Announced(in, w)
            in2 == Stored(in1, w)
<1>1. Empty \in Runs /\ Empty.len = 0 /\ NoIn \in Ins /\ NoIn.data.len = 0
  BY EmptyBytes
<1>2. w.data \in Runs /\ in1 \in Ins /\ (in1.data = Empty \/ in1.data = in.data)
  BY <1>1 DEF Announced, Ins, Wires
<1>. HIDE DEF in1
<1>3. in1.data \in Runs /\ in1.len \in Nat /\ in1.pos \in Nat /\ w.data.len \in Nat /\ in1.data.len \in Nat
  BY <1>2 DEF Ins, Runs
<1>4. /\ in2 \in Ins /\ in2.data = Join(in1.data, w.data) /\ in2.data \in Runs
      /\ in2.data.len = in1.data.len + w.data.len
  <2>1. in2 = [len |-> in1.len, pos |-> in1.pos + w.data.len, data |-> Join(in1.data, w.data)]
    BY DEF Stored
  <2>2. Join(in1.data, w.data) \in Runs /\ Join(in1.data, w.data).len = in1.data.len + w.data.len
    BY <1>2, <1>3, JoinBytes
  <2>3. in1.pos + w.data.len \in Nat
    BY <1>3
  <2>. HIDE DEF in2
  <2>. QED  BY <1>3, <2>1, <2>2, <2>3 DEF Ins
<1>5. \A M : Bytes(in.data, M) /\ Bytes(w.data, M) => Bytes(in1.data, M) /\ Bytes(in2.data, M)
  BY <1>1, <1>2, <1>3, <1>4, JoinBytes DEF Bytes
<1>6. w.data.len # 0 => in2.data.msg \in {Junk, w.data.msg}
  BY <1>2, <1>3, <1>4, JoinBytes
<1>7. in2.data.len = 0 => w.data.len = 0
  BY <1>3, <1>4
<1>. HIDE DEF in2
<1>8. \/ r \in {Parsed("error", in, Empty), Parsed("error", in1, Empty), Parsed("error", in2, Empty)}
      \/ r \in {Parsed("msg", in1, w.data), Parsed("msg", NoIn, in2.data)}
      \/ w.more /\ r = Parsed("ack", in2, Empty)
  BY DEF ParseEdhocWire, in1, in2
<1>9. \A st, i, m : Parsed(st, i, m).status = st /\ Parsed(st, i, m).in = i /\ Parsed(st, i, m).msg = m
  BY DEF Parsed
<1>10. \A M : Bytes(Empty, M) /\ Bytes(NoIn.data, M)
  BY <1>1 DEF Bytes
<1>11. CASE r \in {Parsed("error", in, Empty), Parsed("error", in1, Empty), Parsed("error", in2, Empty)}
  BY <1>1, <1>2, <1>4, <1>5, <1>9, <1>10, <1>11
<1>12. CASE r = Parsed("msg", in1, w.data)
  BY <1>1, <1>2, <1>5, <1>9, <1>10, <1>12
<1>13. CASE r = Parsed("msg", NoIn, in2.data)
  <2>1. r.status = "msg" /\ r.in = NoIn /\ r.msg = in2.data
    BY <1>9, <1>13
  <2>. QED  BY <1>1, <1>4, <1>5, <1>6, <1>7, <1>10, <2>1
<1>14. CASE w.more /\ r = Parsed("ack", in2, Empty)
  BY <1>1, <1>4, <1>5, <1>9, <1>10, <1>14
<1>. QED  BY <1>8, <1>11, <1>12, <1>13, <1>14

(* A fragment has bytes of its message, and the last one has no MORE. *)
LEMMA FragmentBytes ==
    ASSUME NEW out \in Outs, Pending(out), NEW w, w = EncodeEdhocFragment(out),
           NEW rest, rest = AaaAdvance(out)
    PROVE  /\ w \in Wires /\ w.data.len # 0 /\ w.data.msg = out.msg
           /\ rest \in Outs /\ (Pending(rest) => rest.msg = out.msg)
           /\ ~Pending(rest) => ~w.more
<1>0. /\ out.len \in Nat /\ out.pos \in Nat /\ out.msg \in Msgs /\ out.pos < out.len
      /\ out = [msg |-> out.msg, len |-> out.len, pos |-> out.pos]
  BY DEF Outs, Pending
<1>1. FragLen(out) \in 1..(out.len - out.pos)
  BY <1>0, FragAssumption DEF FragLen, FragCap, Remaining, EDHOC_FRAG_FIRST_CAP, EDHOC_FRAG_NEXT_CAP
<1>2. PICK n : n = FragLen(out)
  OBVIOUS
<1>3. n \in Nat /\ n # 0 /\ n <= out.len - out.pos
  BY <1>0, <1>1, <1>2
<1>. DEFINE d == Slice(out.msg, out.pos, n)
<1>4. d \in Runs /\ d.msg = out.msg /\ d.len # 0
  BY <1>0, <1>3 DEF Slice, Runs
<1>5. PICK t \in Nat : t = out.len % 65536
  BY <1>0
<1>6. w = IF out.len - out.pos <= n THEN LastWire(d)
          ELSE IF out.pos = 0 THEN FirstWire(t, d) ELSE MoreWire(d)
  BY <1>2, <1>5 DEF EncodeEdhocFragment, Remaining
<1>. HIDE DEF d
<1>7. w \in Wires /\ w.data = d /\ (out.len - out.pos <= n => ~w.more)
  <2>1. /\ FirstWire(t, d) \in Wires /\ FirstWire(t, d).data = d
        /\ MoreWire(d) \in Wires /\ MoreWire(d).data = d
        /\ LastWire(d) \in Wires /\ LastWire(d).data = d /\ LastWire(d).more = FALSE
    BY <1>4, WireBytes
  <2>. QED  BY <1>6, <2>1
<1>8. rest = IF out.pos + n >= out.len THEN NoOut ELSE [out EXCEPT !.pos = out.pos + n]
  BY <1>2 DEF AaaAdvance, UeAdvance
<1>9. CASE out.pos + n >= out.len
  <2>1. out.len - out.pos <= n
    BY <1>0, <1>3, <1>9
  <2>. QED  BY <1>4, <1>7, <1>8, <1>9, <2>1, EmptyBytes
<1>10. CASE ~(out.pos + n >= out.len)
  <2>1. rest = [msg |-> out.msg, len |-> out.len, pos |-> out.pos + n]
    BY <1>0, <1>8, <1>10
  <2>2. out.pos + n \in Nat /\ out.pos + n < out.len
    BY <1>0, <1>3, <1>10
  <2>3. rest \in Outs /\ rest.msg = out.msg /\ Pending(rest)
    BY <1>0, <2>1, <2>2 DEF Outs, Pending
  <2>. QED  BY <1>4, <1>7, <2>3
<1>. QED  BY <1>9, <1>10

LEMMA QueueBytes ==
    ASSUME NEW m \in Msgs, NEW n \in Nat \ {0}, NEW w, w = QueueWire(m, n), NEW rest, rest = QueueOut(m, n)
    PROVE  /\ w \in Wires /\ w.data.len # 0 /\ w.data.msg = m
           /\ rest \in Outs /\ (Pending(rest) => rest.msg = m)
           /\ ~Pending(rest) => ~w.more
<1>. DEFINE new == NewOut(m, n)
            d == Slice(m, 0, n)
<1>1. new \in Outs /\ Pending(new) /\ new.msg = m
  BY DEF NewOut, Outs, Pending
<1>2. d \in Runs /\ d.msg = m /\ d.len # 0
  BY DEF Slice, Runs
<1>3. CASE n <= EDHOC_FRAG_FIRST_CAP
  <2>1. w = LastWire(d) /\ rest = NoOut
    BY <1>3 DEF QueueWire, QueueOut
  <2>. HIDE DEF d
  <2>. QED  BY <1>2, <2>1, EmptyBytes, WireBytes
<1>4. CASE ~(n <= EDHOC_FRAG_FIRST_CAP)
  <2>1. w = EncodeEdhocFragment(new) /\ rest = AaaAdvance(new)
    BY <1>4 DEF QueueWire, QueueOut
  <2>. HIDE DEF new
  <2>. QED  BY <1>1, <2>1, FragmentBytes
<1>. QED  BY <1>3, <1>4

-----------------------------------------------------------------------------
(* The engine: what it makes of a wire of session s. *)
LEMMA SameEngMsgs ==
    ASSUME NEW e, NEW f, f.step = e.step, f.ctx = e.ctx
    PROVE  EngMsgs(f) = EngMsgs(e)
BY DEF EngMsgs

LEMMA EngMsgsTyped ==
    ASSUME NEW e \in Engines
    PROVE  EngMsgs(e) \subseteq Msgs
BY DEF EngMsgs, Engines, KCtxs, Msgs

LEMMA SetOut ==
    ASSUME NEW e \in Engines, NEW q \in Outs
    PROVE  /\ [e EXCEPT !.out = q] \in Engines /\ [e EXCEPT !.out = q].out = q
           /\ [e EXCEPT !.out = q].step = e.step /\ [e EXCEPT !.out = q].ctx = e.ctx
BY DEF Engines

LEMMA SetIn ==
    ASSUME NEW e \in Engines, NEW q \in Ins
    PROVE  /\ [e EXCEPT !.in = q] \in Engines /\ [e EXCEPT !.in = q].out = e.out
           /\ [e EXCEPT !.in = q].step = e.step /\ [e EXCEPT !.in = q].ctx = e.ctx
           /\ [e EXCEPT !.in = q].method = e.method
BY DEF Engines

Stepped(e, n, c) == [e EXCEPT !.step = n, !.ctx = c]

(* The engine goes on: its key and what it has accepted stay. *)
GoesOn(e, f) ==
    /\ f \in Engines /\ f.ctx.eph = e.ctx.eph
    /\ e.step >= 2 => f.step >= 2 /\ f.ctx.sid = e.ctx.sid
    /\ e.ctx.done => f.ctx.done
    /\ f.ctx.done => f.step >= 2

LEMMA GoesOnMsgs ==
    ASSUME NEW e \in Engines, NEW f, GoesOn(e, f)
    PROVE  EngMsgs(e) \subseteq EngMsgs(f)
BY DEF GoesOn, EngMsgs

LEMMA Emits ==
    ASSUME NEW e \in Engines, NEW f \in Engines, GoesOn(e, f), NEW m \in EngMsgs(f), NEW n \in Nat \ {0},
           NEW r, r = Emit(f, m, n)
    PROVE  /\ r.status = "ok" /\ r.wire \in Wires /\ r.wire.data.len # 0
           /\ GoesOn(e, r.eng) /\ Bytes(r.wire.data, EngMsgs(r.eng))
           /\ Pending(r.eng.out) => r.eng.out.msg \in EngMsgs(r.eng)
<1>w. PICK w : w = QueueWire(m, n)
  OBVIOUS
<1>q. PICK q : q = QueueOut(m, n)
  OBVIOUS
<1>. DEFINE g == [f EXCEPT !.out = q]
<1>0. m \in Msgs
  BY EngMsgsTyped
<1>1. w \in Wires /\ w.data.len # 0 /\ w.data.msg = m /\ q \in Outs /\ (Pending(q) => q.msg = m)
  BY <1>0, <1>w, <1>q, QueueBytes
<1>2. r.status = "ok" /\ r.wire = w /\ r.eng = g
  BY <1>w, <1>q DEF Emit, Reaction
<1>3. g \in Engines /\ g.out = q /\ g.step = f.step /\ g.ctx = f.ctx
  BY <1>1, SetOut
<1>. HIDE DEF g
<1>4. EngMsgs(g) = EngMsgs(f)
  BY <1>3, SameEngMsgs
<1>5. GoesOn(e, g)
  BY <1>3 DEF GoesOn
<1>. QED  BY <1>1, <1>2, <1>3, <1>4, <1>5 DEF Bytes

LEMMA Lengths ==
    /\ \A n \in {Msg1Len, Msg2Len, Msg3Len, Msg4Len, Classic1Len, Classic2Len, Classic3Len} : n \in Nat \ {0}
    /\ \A t \in InitTypes \cup RespTypes : MsgLen(t) \in Nat \ {0}
<1>1. \A n \in {Msg1Len, Msg2Len, Msg3Len, Msg4Len, Classic1Len, Classic2Len, Classic3Len} : n \in Nat \ {0}
  BY MsgLenAssumption, FragAssumption
<1>. QED  BY <1>1 DEF MsgLen, InitTypes, RespTypes

(* A whole message is no junk and has bytes. *)
LEMMA WholeBytes ==
    ASSUME NEW d \in Runs, NEW t \in InitTypes \cup RespTypes, Whole(d, t), NEW M, Bytes(d, M)
    PROVE  /\ d.msg \in M /\ d.msg.type = t /\ d.len # 0 /\ d.msg \notin {NoMsg, Junk}
           /\ d.msg.eph \in Nat /\ d.msg.sid \in Nat
<1>1. d.len # 0
  BY Lengths DEF Whole
<1>2. d.msg \notin {NoMsg, Junk} /\ d.msg.type = t
  BY DEF Whole
<1>3. d.msg \in [type: InitTypes \cup RespTypes, eph: Nat, sid: Nat]
  BY <1>2 DEF Runs, Msgs
<1>. QED  BY <1>1, <1>2, <1>3 DEF Bytes

LEMMA Reacts ==
    ASSUME NEW e \in Engines, NEW w \in Wires,
           e.ctx.done => e.step >= 2, Pending(e.out) => e.out.msg \in EngMsgs(e),
           NEW r, r = eng_react(e, w), r.status = "ok"
    PROVE  /\ r.wire \in Wires /\ GoesOn(e, r.eng) /\ Bytes(r.wire.data, EngMsgs(r.eng))
           /\ Pending(r.eng.out) => r.eng.out.msg \in EngMsgs(r.eng)
           /\ r.wire.data.len = 0 /\ ~w.more => r.eng.ctx.done
<1>0. e.out \in Outs /\ e.in \in Ins /\ e.ctx \in KCtxs /\ e.step \in 0..3
  BY DEF Engines
<1>1. CASE Pending(e.out)
  <2>. DEFINE q == AaaAdvance(e.out)
              v == EncodeEdhocFragment(e.out)
              g == [e EXCEPT !.out = q]
  <2>1. v \in Wires /\ v.data.len # 0 /\ v.data.msg = e.out.msg /\ q \in Outs /\ (Pending(q) => q.msg = e.out.msg)
    BY <1>0, <1>1, FragmentBytes
  <2>2. r.wire = v /\ r.eng = g
    BY <1>1 DEF eng_react, Reaction
  <2>. HIDE DEF q, v
  <2>3. g \in Engines /\ g.out = q /\ g.step = e.step /\ g.ctx = e.ctx
    BY <2>1, SetOut
  <2>. HIDE DEF g
  <2>4. EngMsgs(g) = EngMsgs(e) /\ GoesOn(e, g)
    BY <2>3, SameEngMsgs DEF GoesOn
  <2>. QED  BY <1>1, <2>1, <2>2, <2>3, <2>4 DEF Bytes
<1>2. CASE ~Pending(e.out)
  <2>. DEFINE p == ParseEdhocWire(e.in, w)
              e1 == [e EXCEPT !.in = p.in]
  <2>1. /\ p.status \in {"error", "ack", "msg"} /\ p.in \in Ins /\ p.msg \in Runs
        /\ p.status = "ack" => w.more
        /\ p.status = "msg" /\ w.data.len # 0 => p.msg.msg \in {Junk, w.data.msg}
    BY <1>0, ParseBytes
  <2>2. \/ p.status = "ack" /\ r = Reaction("ok", Ack, e1)
        \/ p.status = "msg" /\ e.step = 0 /\ r = ReactStart(e1)
        \/ p.status = "msg" /\ e.step = 1 /\ r = ReactMsg2(e1, p.msg)
        \/ p.status = "msg" /\ e.step = 2 /\ r = ReactMsg4(e1, p.msg)
    <3>1. \A f : Wrong(f).status = "error"
      BY DEF Wrong, Reaction
    <3>2. CASE p.status = "error"
      BY <1>2, <3>1, <3>2 DEF eng_react
    <3>3. CASE p.status = "ack"
      BY <1>2, <3>3 DEF eng_react
    <3>4. CASE p.status = "msg"
      BY <1>2, <3>1, <3>4 DEF eng_react
    <3>. QED  BY <2>1, <3>2, <3>3, <3>4
  <2>. HIDE DEF p
  <2>3. e1 \in Engines /\ e1.out = e.out /\ e1.step = e.step /\ e1.ctx = e.ctx /\ e1.method = e.method
    BY <2>1, SetIn
  <2>. HIDE DEF e1
  <2>4. GoesOn(e, e1)
    BY <2>3 DEF GoesOn
  <2>5. CASE p.status = "ack" /\ r = Reaction("ok", Ack, e1)
    <3>1. r.wire = Ack /\ r.eng = e1 /\ Bytes(Ack.data, EngMsgs(e1)) /\ w.more
      BY <2>1, <2>5, ControlBytes DEF Reaction, Bytes
    <3>. QED  BY <1>2, <2>3, <2>4, <3>1, ControlBytes
  <2>6. CASE p.status = "msg" /\ e.step = 0 /\ r = ReactStart(e1)
    <3>. DEFINE f == [e1 EXCEPT !.step = 1]
    <3>1. f \in Engines /\ f.step = 1 /\ f.ctx = e1.ctx
      BY <2>3 DEF Engines
    <3>. HIDE DEF f
    <3>2. GoesOn(e, f)
      BY <2>3, <2>6, <3>1 DEF GoesOn
    <3>3. \A t \in {"msg1", "classic1"} : EdhocMsg(t, e1.ctx.eph, 0) \in EngMsgs(f)
      BY <3>1 DEF EdhocMsg, EngMsgs, InitTypes
    <3>4. \/ r = Emit(f, EdhocMsg("msg1", e1.ctx.eph, 0), Msg1Len)
          \/ r = Emit(f, EdhocMsg("classic1", e1.ctx.eph, 0), Classic1Len)
      BY <2>6 DEF ReactStart, f
    <3>. QED  BY <3>1, <3>2, <3>3, <3>4, Emits, Lengths
  <2>7. CASE p.status = "msg" /\ e.step = 1 /\ r = ReactMsg2(e1, p.msg)
    <3>c4. PICK c4 : c4 = edhoc4_i_handle_msg2(e1.ctx, p.msg)
      OBVIOUS
    <3>c3. PICK c3 : c3 = edhoc03_i_handle_msg2(e1.ctx, p.msg)
      OBVIOUS
    <3>f4. PICK f4 : f4 = Stepped(e1, 2, c4)
      OBVIOUS
    <3>f3. PICK f3 : f3 = Stepped(e1, 2, c3)
      OBVIOUS
    <3>1. \/ edhoc4_i_handle_msg2_ok(e1.ctx, p.msg) /\ r = Emit(f4, EdhocMsg("msg3", c4.eph, c4.sid), Msg3Len)
          \/ edhoc03_i_handle_msg2_ok(e1.ctx, p.msg) /\ r = Emit(f3, EdhocMsg("classic3", c3.eph, c3.sid), Classic3Len)
      <4>1. Wrong(e1).status = "error"
        BY DEF Wrong, Reaction
      <4>. QED  BY <2>7, <3>c4, <3>c3, <3>f4, <3>f3, <4>1 DEF ReactMsg2, Stepped
    <3>2. p.msg.msg.sid \in Nat
      <4>1. \E t \in {"msg2", "classic2"} : Whole(p.msg, t)
        BY <3>1 DEF edhoc4_i_handle_msg2_ok, edhoc03_i_handle_msg2_ok
      <4>2. Bytes(p.msg, Msgs)
        BY <2>1 DEF Bytes, Runs
      <4>. QED  BY <2>1, <4>1, <4>2, WholeBytes DEF RespTypes
    <3>3. /\ c4 \in KCtxs /\ c4.eph = e.ctx.eph /\ (c4.done <=> e.ctx.done)
          /\ c3 \in KCtxs /\ c3.eph = e.ctx.eph /\ c3.done
      BY <1>0, <2>3, <3>c4, <3>c3, <3>2 DEF KCtxs, edhoc4_i_handle_msg2, edhoc03_i_handle_msg2
    <3>4. f4 \in Engines /\ f4.step = 2 /\ f4.ctx = c4 /\ f3 \in Engines /\ f3.step = 2 /\ f3.ctx = c3
      <4>1. 2 \in 0..3
        OBVIOUS
      <4>2. c4 \in KCtxs /\ c3 \in KCtxs
        BY <3>3
      <4>3. e1 \in Engines
        BY <2>3
      <4>. QED  BY <3>f4, <3>f3, <4>1, <4>2, <4>3 DEF Stepped, Engines
    <3>5. GoesOn(e, f4) /\ GoesOn(e, f3)
      BY <2>7, <3>3, <3>4 DEF GoesOn
    <3>6. EdhocMsg("msg3", c4.eph, c4.sid) \in EngMsgs(f4) /\ EdhocMsg("classic3", c3.eph, c3.sid) \in EngMsgs(f3)
      BY <3>3, <3>4 DEF EdhocMsg, EngMsgs, InitTypes, KCtxs
    <3>. QED  BY <3>1, <3>4, <3>5, <3>6, Emits, Lengths
  <2>8. CASE p.status = "msg" /\ e.step = 2 /\ r = ReactMsg4(e1, p.msg)
    <3>c. PICK c : c = edhoc4_i_handle_msg4(e1.ctx)
      OBVIOUS
    <3>f. PICK f : f = Stepped(e1, 3, c)
      OBVIOUS
    <3>1. edhoc4_i_handle_msg4_ok(e1.ctx, p.msg) /\ r.wire = Ack /\ r.eng = f
      <4>1. Wrong(e1).status = "error"
        BY DEF Wrong, Reaction
      <4>. QED  BY <2>8, <3>c, <3>f, <4>1 DEF ReactMsg4, Stepped, Reaction
    <3>2. c \in KCtxs /\ c.eph = e.ctx.eph /\ c.sid = e.ctx.sid /\ c.done
      BY <1>0, <2>3, <3>c DEF KCtxs, edhoc4_i_handle_msg4
    <3>3. f \in Engines /\ f.step = 3 /\ f.ctx = c /\ f.out = e1.out
      <4>1. 3 \in 0..3
        OBVIOUS
      <4>2. c \in KCtxs
        BY <3>2
      <4>3. e1 \in Engines
        BY <2>3
      <4>. QED  BY <3>f, <4>1, <4>2, <4>3 DEF Stepped, Engines
    <3>4. GoesOn(e, f)
      BY <2>8, <3>2, <3>3 DEF GoesOn
    <3>6. Bytes(Ack.data, EngMsgs(f)) /\ ~Pending(f.out)
      BY <1>2, <2>3, <3>3, ControlBytes DEF Bytes
    <3>. QED  BY <3>1, <3>2, <3>3, <3>4, <3>6, ControlBytes
  <2>. QED  BY <2>2, <2>5, <2>6, <2>7, <2>8
<1>. QED  BY <1>1, <1>2

-----------------------------------------------------------------------------
(* What a step must keep for the requests and answers that are about. *)
PeerKeeps ==
    /\ hs' \in Nat /\ hs' >= hs
    /\ \A x \in 1..hs : Live(x)' => Live(x) /\ GoesOn(eng, eng')

ServerKeeps(own, own2) ==
    /\ aaaNext' \in Nat /\ aaaNext' >= aaaNext
    /\ \A s \in Sids :
          /\ aaa[s].status = "success" => aaa'[s] = aaa[s]
          /\ s < aaaNext => /\ own2[s] = own[s] /\ aaa'[s].trip \in Nat /\ aaa'[s].trip >= aaa[s].trip
                            /\ \A t \in Nat : t <= aaa[s].trip /\ Final(s, t)' => Final(s, t)

LEMMA PeerMsgsKept ==
    ASSUME KeyTypes, EngineOf, PeerKeeps, NEW x \in 1..hs
    PROVE  PeerMsgs(x) \subseteq PeerMsgs(x)'
<1>1. CASE Live(x)'
  <2>1. Live(x) /\ GoesOn(eng, eng')
    BY <1>1 DEF PeerKeeps
  <2>2. EngMsgs(eng) \subseteq EngMsgs(eng')
    BY <2>1, GoesOnMsgs DEF KeyTypes
  <2>3. PeerMsgs(x) = EngMsgs(eng) /\ PeerMsgs(x)' = EngMsgs(eng')
    BY <1>1, <2>1 DEF PeerMsgs
  <2>. QED  BY <2>2, <2>3
<1>2. CASE ~Live(x)'
  <2>1. PeerMsgs(x)' = [type: InitTypes, eph: {x}, sid: Nat]
    BY <1>2 DEF PeerMsgs
  <2>2. PeerMsgs(x) \subseteq [type: InitTypes, eph: {x}, sid: Nat]
    BY DEF PeerMsgs, Live, EngMsgs, EngineOf
  <2>. QED  BY <2>1, <2>2
<1>. QED  BY <1>1, <1>2

LEMMA BytesMore ==
    ASSUME NEW d, NEW M, NEW N, M \subseteq N, Bytes(d, M)
    PROVE  Bytes(d, N)
BY DEF Bytes

LEMMA StateKept ==
    ASSUME KeyTypes, NEW own, NEW own2, ServerKeeps(own, own2), NEW st, NEW x, StateOf(st, x, own)
    PROVE  StateOf(st, x, own2)' /\ (Final(st.sid, st.trip)' => Final(st.sid, st.trip))
<1>1. st \in KStates /\ st.sid \in Sids /\ st.trip \in Nat /\ st.sid < aaaNext
      /\ own[st.sid] = x /\ st.trip <= aaa[st.sid].trip
  BY DEF StateOf, KStates
<1>2. st.sid \in Nat /\ aaaNext \in Nat /\ aaa[st.sid].trip \in Nat
  BY <1>1, AaaAssumption DEF Sids, KeyTypes, KSessions
<1>3. /\ aaaNext' \in Nat /\ aaaNext' >= aaaNext /\ own2[st.sid] = own[st.sid]
      /\ aaa'[st.sid].trip \in Nat /\ aaa'[st.sid].trip >= aaa[st.sid].trip
      /\ Final(st.sid, st.trip)' => Final(st.sid, st.trip)
  BY <1>1 DEF ServerKeeps
<1>4. st.sid < aaaNext' /\ st.trip <= aaa'[st.sid].trip
  BY <1>1, <1>2, <1>3
<1>. QED  BY <1>1, <1>3, <1>4 DEF StateOf

LEMMA LiveKept ==
    ASSUME KeyTypes, PeerKeeps, NEW x \in 1..hs
    PROVE  x \in 1..hs' /\ (Live(x)' => Live(x) /\ GoesOn(eng, eng'))
BY DEF KeyTypes, PeerKeeps

LEMMA PacketKept ==
    ASSUME KeyTypes, EngineOf, PeerKeeps, NEW own, NEW own2, ServerKeeps(own, own2), NEW p, PacketOf(p, own)
    PROVE  PacketOf(p, own2)'
<1>1. p.sock \in 1..hs /\ ((p.eap = Identity(1) /\ p.state = NoState) \/ p.eap \in Packets)
  BY DEF PacketOf
<1>2. p.sock \in 1..hs' /\ (Live(p.sock)' => Live(p.sock) /\ GoesOn(eng, eng'))
  BY <1>1, LiveKept
<1>3. ASSUME p.eap.kind = "edhoc"
      PROVE  /\ StateOf(p.state, p.sock, own2)'
             /\ Bytes(p.eap.wire.data, PeerMsgs(p.sock)')
             /\ Final(p.state.sid, p.state.trip)' /\ p.eap.wire.data.len = 0 /\ Live(p.sock)' => eng'.ctx.done
  <2>1. /\ StateOf(p.state, p.sock, own)
        /\ Bytes(p.eap.wire.data, PeerMsgs(p.sock))
        /\ Final(p.state.sid, p.state.trip) /\ p.eap.wire.data.len = 0 /\ Live(p.sock) => eng.ctx.done
    BY <1>3 DEF PacketOf
  <2>2. StateOf(p.state, p.sock, own2)' /\ (Final(p.state.sid, p.state.trip)' => Final(p.state.sid, p.state.trip))
    BY <2>1, StateKept
  <2>3. Bytes(p.eap.wire.data, PeerMsgs(p.sock)')
    BY <1>1, <2>1, PeerMsgsKept, BytesMore
  <2>4. ASSUME Final(p.state.sid, p.state.trip)', p.eap.wire.data.len = 0, Live(p.sock)'
        PROVE  eng'.ctx.done
    BY <1>2, <2>1, <2>2, <2>4 DEF GoesOn
  <2>. QED  BY <2>2, <2>3, <2>4
<1>. QED  BY <1>1, <1>2, <1>3 DEF PacketOf

LEMMA GrantedKept ==
    ASSUME NEW own, NEW own2, ServerKeeps(own, own2), NEW c, Granted(c)
    PROVE  Granted(c)'
BY DEF ServerKeeps, Granted

LEMMA AnswerKept ==
    ASSUME KeyTypes, EngineOf, PeerKeeps, NEW own, NEW own2, ServerKeeps(own, own2), NEW a, AnswerOf(a, own)
    PROVE  AnswerOf(a, own2)'
<1>1. a.sock \in 1..hs' /\ (Live(a.sock)' => Live(a.sock) /\ GoesOn(eng, eng'))
  BY LiveKept DEF AnswerOf
<1>2. ASSUME a.rsp.result = "challenge"
      PROVE  /\ StateOf(a.rsp.state, a.sock, own2)'
             /\ Final(a.rsp.state.sid, a.rsp.state.trip)' => Final(a.rsp.state.sid, a.rsp.state.trip)
  BY <1>2, StateKept DEF AnswerOf
<1>3. ASSUME a.rsp.result = "accept", Live(a.sock)' PROVE (eng.ctx.done /\ Granted(eng.ctx))'
  <2>1. eng.ctx.done /\ Granted(eng.ctx) /\ GoesOn(eng, eng') /\ pc # "idle"
    BY <1>1, <1>3 DEF AnswerOf, Live
  <2>2. eng.step >= 2
    BY <2>1 DEF EngineOf
  <2>3. eng'.ctx.done /\ Msk(eng'.ctx) = Msk(eng.ctx)
    BY <2>1, <2>2 DEF GoesOn, Msk
  <2>c. PICK c : c = eng.ctx
    OBVIOUS
  <2>4. Granted(c)'
    BY <2>1, <2>c, GrantedKept
  <2>5. \E s \in Sids : aaa'[s].status = "success" /\ aaa'[s].ctx.done /\ Msk(aaa'[s].ctx) = Msk(c)
    BY <2>4 DEF Granted
  <2>. QED  BY <2>3, <2>c, <2>5 DEF Granted
<1>. QED  BY <1>1, <1>2, <1>3 DEF AnswerOf

LEMMA SessionKept ==
    ASSUME KeyTypes, EngineOf, PeerKeeps, NEW own, NEW own2, ServerKeeps(own, own2), NEW s \in Sids,
           SessionOf(s, own), aaa'[s] = aaa[s], aaaNext' = aaaNext \/ s < aaaNext
    PROVE  SessionOf(s, own2)'
<1>1. s \in Nat /\ aaaNext \in Nat /\ aaaNext' \in Nat /\ aaaNext' >= aaaNext
  BY AaaAssumption DEF Sids, KeyTypes, ServerKeeps
<1>2. CASE s >= aaaNext
  BY <1>1, <1>2 DEF SessionOf
<1>3. CASE ~(s >= aaaNext)
  <2>1. s < aaaNext /\ ~(s >= aaaNext')
    BY <1>1, <1>3
  <2>2. own2[s] = own[s]
    BY <2>1 DEF ServerKeeps
  <2>x. PICK x : x = own[s]
    OBVIOUS
  <2>3. /\ x \in 1..hs /\ Bytes(aaa[s].in.data, PeerMsgs(x))
        /\ aaa[s].round # 0 => aaa[s].ctx.eph = x /\ aaa[s].ctx.sid = s
        /\ aaa[s].round = 2 /\ Live(x) => eng.step >= 2 /\ eng.ctx.sid = s
    BY <1>3, <2>x DEF SessionOf
  <2>4. x \in 1..hs'
    BY <2>3, LiveKept
  <2>5. Bytes(aaa[s].in.data, PeerMsgs(x)')
    BY <2>3, PeerMsgsKept, BytesMore
  <2>6. aaa[s].round = 2 /\ Live(x)' => eng'.step >= 2 /\ eng'.ctx.sid = s
    BY <2>3, LiveKept DEF GoesOn
  <2>. QED  BY <2>x, <2>1, <2>2, <2>3, <2>4, <2>5, <2>6 DEF SessionOf, PeerMsgs, Live
<1>. QED  BY <1>2, <1>3

LEMMA KeyInvKept ==
    ASSUME KeyTypes, NEW own, NEW own2, KeyInv(own), PeerKeeps, ServerKeeps(own, own2), EngineOf',
           \A p \in PacketsAbout' : p \in PacketsAbout \/ PacketOf(p, own2)',
           \A a \in AnswersAbout' : a \in AnswersAbout \/ AnswerOf(a, own2)',
           \A s \in Sids : \/ aaa'[s] = aaa[s] /\ (aaaNext' = aaaNext \/ s < aaaNext)
                           \/ SessionOf(s, own2)'
    PROVE  KeyInv(own2)'
<1>1. EngineOf
  BY DEF KeyInv
<1>2. ASSUME NEW p \in PacketsAbout' PROVE PacketOf(p, own2)'
  <2>1. p \in PacketsAbout => PacketOf(p, own)
    BY DEF KeyInv
  <2>. QED  BY <1>1, <2>1, PacketKept
<1>3. ASSUME NEW a \in AnswersAbout' PROVE AnswerOf(a, own2)'
  <2>1. a \in AnswersAbout => AnswerOf(a, own)
    BY DEF KeyInv
  <2>. QED  BY <1>1, <2>1, AnswerKept
<1>4. ASSUME NEW s \in Sids PROVE SessionOf(s, own2)'
  <2>1. SessionOf(s, own)
    BY DEF KeyInv
  <2>. QED  BY <1>1, <2>1, SessionKept
<1>. QED  BY <1>2, <1>3, <1>4 DEF KeyInv

LEMMA PassKept ==
    ASSUME PassMeansKey, NEW own, NEW own2, ServerKeeps(own, own2), UNCHANGED result
    PROVE  PassMeansKey'
<1>1. ASSUME NEW h \in Handshakes, result'[h].status = "pass"
      PROVE  /\ result'[h].ctx.done
             /\ \E s \in Sids : /\ aaa'[s].status = "success" /\ aaa'[s].ctx.done
                               /\ Msk(aaa'[s].ctx) = Msk(result'[h].ctx)
  BY <1>1 DEF PassMeansKey, ServerKeeps
<1>. QED  BY <1>1 DEF PassMeansKey

-----------------------------------------------------------------------------
(* Steps that make no new request and no new answer. *)
LEMMA SameServer ==
    ASSUME KeyTypes, NEW own, UNCHANGED <<aaa, aaaNext>>
    PROVE  ServerKeeps(own, own)
<1>1. aaaNext \in Nat /\ aaaNext' \in Nat /\ aaaNext' >= aaaNext
  BY AaaAssumption DEF KeyTypes
<1>2. ASSUME NEW s \in Sids PROVE aaa'[s] = aaa[s] /\ aaa[s].trip \in Nat /\ aaa'[s].trip >= aaa[s].trip
  BY <1>2 DEF KeyTypes, KSessions
<1>3. ASSUME NEW s \in Sids, NEW t \in Nat, Final(s, t)' PROVE Final(s, t)
  BY <1>3 DEF Final
<1>. QED  BY <1>1, <1>2, <1>3 DEF ServerKeeps

LEMMA SamePeer ==
    ASSUME KeyTypes, EngineOf, UNCHANGED <<hs, eng>>, pc' = "idle" \/ pc # "idle" \/ pc' = pc
    PROVE  PeerKeeps /\ EngineOf'
<1>1. hs \in Nat /\ hs' \in Nat /\ hs' >= hs
  BY BenchAssumption DEF KeyTypes
<1>2. ASSUME NEW x \in 1..hs, Live(x)' PROVE Live(x) /\ GoesOn(eng, eng')
  BY <1>2 DEF Live, GoesOn, EngineOf, KeyTypes
<1>3. EngineOf'
  BY DEF EngineOf
<1>. QED  BY <1>1, <1>2, <1>3 DEF PeerKeeps

LEMMA QuietKeeps ==
    ASSUME PassInv, UNCHANGED <<aaa, aaaNext, hs, eng>>, IsSeq(udpIn'), IsSeq(udpOut'),
           pc' = "idle" \/ pc # "idle" \/ pc' = pc,
           DOMAIN result' = Handshakes, PassMeansKey',
           PacketsAbout' \subseteq PacketsAbout,
           AnswersAbout' \subseteq AnswersAbout
    PROVE  PassInv'
<1>1. PICK own \in Owners : KeyInv(own)
  BY DEF PassInv
<1>2. KeyTypes /\ EngineOf
  BY <1>1 DEF PassInv, KeyInv
<1>3. ServerKeeps(own, own) /\ PeerKeeps /\ EngineOf'
  BY <1>2, SameServer, SamePeer
<1>5. KeyInv(own)'
  BY <1>1, <1>2, <1>3, KeyInvKept
<1>6. KeyTypes'
  BY <1>2 DEF KeyTypes
<1>. QED  BY <1>1, <1>5, <1>6 DEF PassInv, Owners

LEMMA SameResult ==
    ASSUME PassMeansKey, UNCHANGED <<aaa, result>>
    PROVE  PassMeansKey'
BY DEF PassMeansKey

LEMMA PacketsFrom ==
    ASSUME \/ pc' = "idle"
           \/ pc # "idle" /\ UNCHANGED <<key, hs, state, eap>>
           \/ UNCHANGED <<pc, key, hs, state, eap>>,
           \A n \in DOMAIN udpIn' : udpIn'[n] \in PacketsAbout,
           \A k \in Keys : request'[k].status \notin {"none", "cleaned"} => request'[k].packet \in PacketsAbout
    PROVE  PacketsAbout' \subseteq PacketsAbout
<1>. SUFFICES ASSUME NEW p \in PacketsAbout' PROVE p \in PacketsAbout
  OBVIOUS
<1>1. \/ pc' # "idle" /\ p = Datagram(key', hs', state', eap')
      \/ \E n \in DOMAIN udpIn' : p = udpIn'[n]
      \/ \E k \in Keys : request'[k].status \notin {"none", "cleaned"} /\ p = request'[k].packet
  BY DEF PacketsAbout, Kept, Keys
<1>2. CASE pc' # "idle" /\ p = Datagram(key', hs', state', eap')
  BY <1>2 DEF PacketsAbout
<1>. QED  BY <1>1, <1>2

LEMMA AnswersFrom ==
    ASSUME \A n \in DOMAIN udpOut' : AnswerTo(udpOut'[n].sock, udpOut'[n].rsp) \in AnswersAbout,
           \A k \in Keys : request'[k].status \in {"delayed", "replied"} =>
               AnswerTo(request'[k].packet.sock, request'[k].reply) \in AnswersAbout,
           radiusRsp' # NoRsp =>
               radiusRsp' = radiusRsp /\ request'[running'].packet = request[running].packet
    PROVE  AnswersAbout' \subseteq AnswersAbout
<1>. SUFFICES ASSUME NEW a \in AnswersAbout' PROVE a \in AnswersAbout
  OBVIOUS
<1>1. \/ \E n \in DOMAIN udpOut' : a = AnswerTo(udpOut'[n].sock, udpOut'[n].rsp)
      \/ \E k \in Keys : /\ request'[k].status \in {"delayed", "replied"}
                         /\ a = AnswerTo(request'[k].packet.sock, request'[k].reply)
      \/ radiusRsp' # NoRsp /\ a = AnswerTo(request'[running'].packet.sock, radiusRsp')
  BY DEF AnswersAbout, Answered, Keys
<1>3. CASE radiusRsp' # NoRsp /\ a = AnswerTo(request'[running'].packet.sock, radiusRsp')
  BY <1>3 DEF AnswersAbout
<1>. QED  BY <1>1, <1>3

(* What is about, by where it is. *)
LEMMA Members ==
    /\ \A n \in DOMAIN udpIn : udpIn[n] \in PacketsAbout
    /\ pc # "idle" => Datagram(key, hs, state, eap) \in PacketsAbout
    /\ \A k \in Keys : request[k].status \notin {"none", "cleaned"} => request[k].packet \in PacketsAbout
    /\ \A n \in DOMAIN udpOut : AnswerTo(udpOut[n].sock, udpOut[n].rsp) \in AnswersAbout
    /\ \A k \in Keys : request[k].status \in {"delayed", "replied"} =>
           AnswerTo(request[k].packet.sock, request[k].reply) \in AnswersAbout
    /\ radiusRsp # NoRsp => AnswerTo(request[running].packet.sock, radiusRsp) \in AnswersAbout
<1>1. /\ \A n \in DOMAIN udpIn : udpIn[n] \in PacketsAbout
      /\ pc # "idle" => Datagram(key, hs, state, eap) \in PacketsAbout
      /\ \A k \in Keys : request[k].status \notin {"none", "cleaned"} => request[k].packet \in PacketsAbout
  BY DEF PacketsAbout, Kept
<1>2. /\ \A n \in DOMAIN udpOut : AnswerTo(udpOut[n].sock, udpOut[n].rsp) \in AnswersAbout
      /\ \A k \in Keys : request[k].status \in {"delayed", "replied"} =>
             AnswerTo(request[k].packet.sock, request[k].reply) \in AnswersAbout
      /\ radiusRsp # NoRsp => AnswerTo(request[running].packet.sock, radiusRsp) \in AnswersAbout
  BY DEF AnswersAbout, Answered
<1>. QED  BY <1>1, <1>2

(* The peer's quiet steps: what it reads or loses is gone, what it sends it had. *)
PeerQuiet ==
    /\ UNCHANGED <<serverVars, hs, eng>>
    /\ \/ udpIn' = udpIn
       \/ udpIn # << >> /\ udpIn' = Tail(udpIn)
       \/ pc # "idle" /\ udpIn' = Append(udpIn, Datagram(key, hs, state, eap))
    /\ udpOut' = udpOut \/ (udpOut # << >> /\ udpOut' = Tail(udpOut))
    /\ pc' = "idle" \/ (pc # "idle" /\ UNCHANGED <<state, eap, key>>) \/ UNCHANGED <<pc, state, eap, key>>

LEMMA PeerQuietKeeps ==
    ASSUME PassInv, PeerQuiet, DOMAIN result' = Handshakes, PassMeansKey'
    PROVE  PassInv'
<1>1. /\ UNCHANGED <<request, running, aaa, aaaNext, radiusReq, radiusRsp, hs, eng>>
      /\ pc' = "idle" \/ (pc # "idle" /\ UNCHANGED <<state, eap, key>>) \/ UNCHANGED <<pc, state, eap, key>>
  BY DEF PeerQuiet, serverVars, aaaVars, radiusVars
<1>2. IsSeq(udpIn) /\ IsSeq(udpOut)
  BY DEF PassInv, KeyTypes
<1>3. IsSeq(udpIn') /\ \A n \in DOMAIN udpIn' : udpIn'[n] \in PacketsAbout
  <2>1. CASE udpIn' = udpIn
    BY <1>2, <2>1, Members
  <2>2. CASE udpIn # << >> /\ udpIn' = Tail(udpIn)
    BY <1>2, <2>2, TailAny, Members
  <2>3. CASE pc # "idle" /\ udpIn' = Append(udpIn, Datagram(key, hs, state, eap))
    BY <1>2, <2>3, AppendAny, Members
  <2>. QED  BY <2>1, <2>2, <2>3 DEF PeerQuiet
<1>4. IsSeq(udpOut') /\ \A n \in DOMAIN udpOut' : \E j \in DOMAIN udpOut : udpOut'[n] = udpOut[j]
  <2>1. CASE udpOut' = udpOut
    BY <1>2, <2>1
  <2>2. CASE udpOut # << >> /\ udpOut' = Tail(udpOut)
    BY <1>2, <2>2, TailAny
  <2>. QED  BY <2>1, <2>2 DEF PeerQuiet
<1>5. PacketsAbout' \subseteq PacketsAbout
  BY <1>1, <1>3, Members, PacketsFrom
<1>6. AnswersAbout' \subseteq AnswersAbout
  <2>1. \A n \in DOMAIN udpOut' : AnswerTo(udpOut'[n].sock, udpOut'[n].rsp) \in AnswersAbout
    BY <1>4, Members
  <2>. QED  BY <1>1, <2>1, Members, AnswersFrom
<1>. QED  BY <1>1, <1>3, <1>4, <1>5, <1>6, QuietKeeps

LEMMA QuietSteps ==
    ASSUME PassInv,
           \/ Send \/ DropOut \/ Unreachable \/ DropIn
           \/ Timeout \/ LoseRequest \/ LoseReply \/ UNCHANGED vars
    PROVE  PassInv'
<1>1. UNCHANGED <<serverVars, result>>
  BY DEF Send, DropOut, Unreachable, DropIn, Timeout, LoseRequest, LoseReply, peerVars, vars
<1>2. PeerQuiet
  <2>1. CASE Send
    BY <2>1 DEF Send, PeerQuiet, engVars
  <2>2. CASE DropOut \/ Timeout
    BY <2>2 DEF DropOut, Timeout, Retry, PeerQuiet, engVars, udpVars
  <2>3. CASE Unreachable
    BY <2>3 DEF Unreachable, PeerQuiet, peerVars, engVars
  <2>4. CASE DropIn
    BY <2>4 DEF DropIn, Readable, Retry, PeerQuiet, engVars
  <2>5. CASE LoseRequest \/ LoseReply
    BY <2>5 DEF LoseRequest, LoseReply, PeerQuiet, engVars
  <2>6. CASE UNCHANGED vars
    BY <2>6 DEF vars, peerVars, udpVars, PeerQuiet, engVars
  <2>. QED  BY <2>1, <2>2, <2>3, <2>4, <2>5, <2>6
<1>3. DOMAIN result' = Handshakes
  BY <1>1 DEF PassInv, KeyTypes
<1>4. PassMeansKey'
  BY <1>1, SameResult DEF PassInv, serverVars, aaaVars
<1>. QED  BY <1>2, <1>3, <1>4, PeerQuietKeeps

(* The answer the peer reads. *)
LEMMA ReadAnswer ==
    ASSUME PassInv, Readable, NEW own, KeyInv(own)
    PROVE  AnswerOf(AnswerTo(hs, Head(udpOut).rsp), own) /\ Live(hs)
<1>1. pc = "recv" /\ udpOut # << >> /\ Head(udpOut).sock = hs
  BY DEF Readable
<1>2. 1 \in DOMAIN udpOut /\ Head(udpOut) = udpOut[1]
  BY <1>1, TailAny DEF PassInv, KeyTypes
<1>3. AnswerTo(hs, Head(udpOut).rsp) \in AnswersAbout
  BY <1>1, <1>2, Members
<1>. QED  BY <1>1, <1>3 DEF KeyInv, Live

(* A handshake ends: it passes only with the key. *)
LEMMA EndKeeps ==
    ASSUME PassInv, GiveUp \/ ReadVerdict \/ ReadBadChallenge
    PROVE  PassInv'
<1>1. PICK own \in Owners : KeyInv(own)
  BY DEF PassInv
<1>2. PeerQuiet
  <2>1. CASE GiveUp
    BY <2>1 DEF GiveUp, EndHandshake, PeerQuiet, engVars, udpVars
  <2>2. CASE ReadVerdict
    BY <2>2 DEF ReadVerdict, Read, Readable, EndHandshake, PeerQuiet, engVars
  <2>3. CASE ReadBadChallenge
    BY <2>3 DEF ReadBadChallenge, Read, Readable, EndHandshake, PeerQuiet, engVars
  <2>. QED  BY <2>1, <2>2, <2>3
<1>. DEFINE R(st) == [result EXCEPT ![hs] = [status |-> st, ctx |-> eng.ctx]]
<1>0. result' = R("fail") \/ (result' = R("pass") /\ ReadVerdict /\ Head(udpOut).rsp.result = "accept")
  BY DEF GiveUp, ReadVerdict, ReadBadChallenge, EndHandshake
<1>3. PICK st : result' = R(st) /\ (st = "pass" => ReadVerdict /\ Head(udpOut).rsp.result = "accept")
  <2>1. "fail" # "pass"
    OBVIOUS
  <2>. HIDE DEF R
  <2>. QED  BY <1>0, <2>1
<1>4. ASSUME st = "pass" PROVE eng.ctx.done /\ Granted(eng.ctx)
  <2>1. ReadVerdict /\ Head(udpOut).rsp.result = "accept" /\ Readable
    BY <1>3, <1>4 DEF ReadVerdict, Read
  <2>2. AnswerOf(AnswerTo(hs, Head(udpOut).rsp), own) /\ Live(hs)
    BY <1>1, <2>1, ReadAnswer
  <2>. QED  BY <2>1, <2>2 DEF AnswerOf, AnswerTo
<1>5. DOMAIN result = Handshakes /\ PassMeansKey /\ UNCHANGED aaa
  BY <1>2 DEF PassInv, KeyTypes, PeerQuiet, serverVars, aaaVars
<1>6. PassMeansKey'
  <2>1. ASSUME NEW h \in Handshakes, result'[h].status = "pass"
        PROVE  result'[h].ctx.done /\ Granted(result'[h].ctx)
    <3>1. CASE h = hs
      <4>1. result'[h] = [status |-> st, ctx |-> eng.ctx]
        BY <1>3, <1>5, <3>1
      <4>. QED  BY <1>4, <2>1, <4>1
    <3>2. CASE h # hs
      <4>1. result'[h] = result[h]
        BY <1>3, <1>5, <3>2
      <4>. QED  BY <1>5, <2>1, <4>1 DEF PassMeansKey, Granted
    <3>. QED  BY <3>1, <3>2
  <2>. QED  BY <1>5, <2>1 DEF PassMeansKey, Granted
<1>7. DOMAIN result' = Handshakes
  BY <1>3, <1>5
<1>. QED  BY <1>2, <1>6, <1>7, PeerQuietKeeps

(* A new handshake: nothing that is about was sent to its socket or has its key. *)
LEMMA StartKeeps ==
    ASSUME PassInv, NEW method \in Methods, StartHandshake(method)
    PROVE  PassInv'
<1>1. PICK own \in Owners : KeyInv(own)
  BY DEF PassInv
<1>2. /\ KeyTypes /\ EngineOf /\ pc = "idle" /\ hs < MaxHandshakes
      /\ hs' = hs + 1 /\ eng' = NewEngine(method, hs + 1) /\ pc' = "send" /\ eap' = Identity(1) /\ state' = NoState
      /\ UNCHANGED <<result, udpIn, udpOut, request, running, aaa, aaaNext, radiusRsp>>
  BY <1>1 DEF PassInv, KeyInv, StartHandshake, udpVars, serverVars, aaaVars, radiusVars
<1>3. hs \in 0..MaxHandshakes /\ MaxHandshakes \in Nat /\ hs' \in 0..MaxHandshakes /\ hs' \in Nat /\ hs' > hs
  BY <1>2, BenchAssumption DEF KeyTypes
<1>4. /\ eng' \in Engines /\ eng'.ctx.eph = hs' /\ ~eng'.ctx.done /\ ~Pending(eng'.out)
  <2>c. PICK c : c = edhoc4_init_initiator(hs + 1)
    OBVIOUS
  <2>1. c \in KCtxs /\ c.eph = hs + 1 /\ ~c.done
    BY <1>2, <1>3, <2>c DEF edhoc4_init_initiator, NoCtx, KCtxs
  <2>2. eng' = [method |-> method, step |-> 0, in |-> NoIn, out |-> NoOut, ctx |-> c]
    BY <1>2, <2>c DEF NewEngine
  <2>. QED  BY <1>2, <2>1, <2>2, EmptyBytes DEF Engines
<1>5. KeyTypes' /\ EngineOf'
  BY <1>2, <1>3, <1>4 DEF KeyTypes, EngineOf
<1>6. PeerKeeps
  <2>1. \A x \in 1..hs : ~Live(x)'
    BY <1>3 DEF Live
  <2>. QED  BY <1>3, <2>1 DEF PeerKeeps
<1>7. ServerKeeps(own, own)
  BY <1>2, SameServer
<1>8. ASSUME NEW p \in PacketsAbout' PROVE p \in PacketsAbout \/ PacketOf(p, own)'
  <2>1. p \in PacketsAbout \/ p = Datagram(key', hs', state', eap')
    BY <1>2 DEF PacketsAbout, Kept
  <2>2. CASE p = Datagram(key', hs', state', eap')
    <3>1. p.sock \in 1..hs' /\ p.eap = Identity(1) /\ p.state = NoState /\ p.eap.kind # "edhoc"
      BY <1>2, <1>3, <2>2 DEF Datagram, Identity
    <3>. QED  BY <3>1 DEF PacketOf
  <2>. QED  BY <2>1, <2>2
<1>9. AnswersAbout' = AnswersAbout
  BY <1>2 DEF AnswersAbout, Answered
<1>10. KeyInv(own)'
  BY <1>1, <1>2, <1>5, <1>6, <1>7, <1>8, <1>9, KeyInvKept
<1>11. PassMeansKey'
  BY <1>2, SameResult DEF PassInv
<1>. QED  BY <1>1, <1>5, <1>10, <1>11 DEF PassInv, Owners

(* The next request of a handshake, with the State it was answered with. *)
LEMMA ChallengeReadKeeps ==
    ASSUME PassInv, ReadChallenge
    PROVE  PassInv'
<1>1. PICK own \in Owners : KeyInv(own)
  BY DEF PassInv
<1>r. PICK r : r = Head(udpOut).rsp
  OBVIOUS
<1>a. PICK a : a = eng_react(eng, r.eap.wire)
  OBVIOUS
<1>2. /\ KeyTypes /\ EngineOf /\ Readable /\ r.result = "challenge" /\ a.status = "ok"
      /\ state' = r.state /\ eng' = a.eng /\ eap' = EdhocPacket(r.eap.id, a.wire) /\ pc' = "send"
      /\ udpOut' = Tail(udpOut)
      /\ UNCHANGED <<hs, result, udpIn, request, running, aaa, aaaNext, radiusRsp>>
  BY <1>1, <1>r, <1>a DEF PassInv, KeyInv, ReadChallenge, Read, Reacted, serverVars, aaaVars, radiusVars
<1>3. pc = "recv" /\ udpOut # << >> /\ hs \in Nat /\ eng \in Engines
  BY <1>2, BenchAssumption DEF Readable, KeyTypes
<1>4. AnswerOf(AnswerTo(hs, r), own) /\ Live(hs)
  BY <1>1, <1>2, <1>r, ReadAnswer
<1>5. /\ hs \in 1..hs /\ StateOf(r.state, hs, own) /\ r.eap \in Packets
      /\ Final(r.state.sid, r.state.trip) => ~r.eap.wire.more
  BY <1>2, <1>4 DEF AnswerOf, AnswerTo
<1>6. r.eap.wire \in Wires /\ r.eap.id \in Nat
  BY <1>5 DEF Packets
<1>7. /\ a.wire \in Wires /\ GoesOn(eng, a.eng) /\ Bytes(a.wire.data, EngMsgs(a.eng))
      /\ Pending(a.eng.out) => a.eng.out.msg \in EngMsgs(a.eng)
      /\ a.wire.data.len = 0 /\ ~r.eap.wire.more => a.eng.ctx.done
  BY <1>2, <1>3, <1>5, <1>6, <1>a, Reacts DEF EngineOf
<1>8. PeerKeeps /\ EngineOf'
  BY <1>2, <1>3, <1>7 DEF PeerKeeps, Live, EngineOf, GoesOn
<1>9. ServerKeeps(own, own)
  BY <1>2, SameServer
<1>10. IsSeq(udpOut') /\ \A n \in DOMAIN udpOut' : \E j \in DOMAIN udpOut : udpOut'[n] = udpOut[j]
  BY <1>2, <1>3, TailAny DEF KeyTypes
<1>11. KeyTypes'
  BY <1>2, <1>7, <1>10 DEF KeyTypes, GoesOn
<1>12. ASSUME NEW p \in PacketsAbout' PROVE p \in PacketsAbout \/ PacketOf(p, own)'
  <2>1. p \in PacketsAbout \/ p = Datagram(key', hs', state', eap')
    BY <1>2 DEF PacketsAbout, Kept
  <2>2. CASE p = Datagram(key', hs', state', eap')
    <3>1. p.sock = hs /\ p.state = r.state /\ p.eap = EdhocPacket(r.eap.id, a.wire)
      BY <1>2, <2>2 DEF Datagram
    <3>2. p.eap \in Packets /\ p.eap.wire = a.wire
      BY <1>6, <1>7, <3>1 DEF EdhocPacket, Packets
    <3>3. StateOf(p.state, p.sock, own)'
      BY <1>2, <1>5, <3>1 DEF StateOf
    <3>4. Bytes(p.eap.wire.data, PeerMsgs(p.sock)')
      BY <1>2, <1>7, <3>1, <3>2 DEF PeerMsgs, Live
    <3>5. Final(p.state.sid, p.state.trip)' => Final(r.state.sid, r.state.trip)
      BY <1>2, <3>1 DEF Final
    <3>6. p.sock \in 1..hs'
      BY <1>2, <1>5, <3>1
    <3>. QED  BY <1>2, <1>5, <1>7, <3>1, <3>2, <3>3, <3>4, <3>5, <3>6 DEF PacketOf
  <2>. QED  BY <2>1, <2>2
<1>13. AnswersAbout' \subseteq AnswersAbout
  <2>1. \A n \in DOMAIN udpOut' : AnswerTo(udpOut'[n].sock, udpOut'[n].rsp) \in AnswersAbout
    BY <1>10, Members
  <2>. QED  BY <1>2, <2>1, Members, AnswersFrom
<1>14. KeyInv(own)'
  BY <1>1, <1>2, <1>8, <1>9, <1>12, <1>13, KeyInvKept
<1>15. PassMeansKey'
  BY <1>2, SameResult DEF PassInv
<1>. QED  BY <1>1, <1>11, <1>14, <1>15 DEF PassInv, Owners

-----------------------------------------------------------------------------
(* FreeRADIUS hands packets and replies on, unchanged. *)
LEMMA ServerQuietKeeps ==
    ASSUME PassInv, UNCHANGED <<pc, hs, engVars, result, aaaVars>>, IsSeq(udpIn'), IsSeq(udpOut'),
           \A n \in DOMAIN udpIn' : udpIn'[n] \in PacketsAbout,
           \A k \in Keys : request'[k].status \notin {"none", "cleaned"} => request'[k].packet \in PacketsAbout,
           \A n \in DOMAIN udpOut' : AnswerTo(udpOut'[n].sock, udpOut'[n].rsp) \in AnswersAbout,
           \A k \in Keys : request'[k].status \in {"delayed", "replied"} =>
               AnswerTo(request'[k].packet.sock, request'[k].reply) \in AnswersAbout,
           radiusRsp' # NoRsp =>
               radiusRsp' = radiusRsp /\ request'[running'].packet = request[running].packet
    PROVE  PassInv'
<1>1. UNCHANGED <<pc, hs, eng, state, eap, key, result, aaa, aaaNext>>
  BY DEF engVars, aaaVars
<1>2. PacketsAbout' \subseteq PacketsAbout
  BY <1>1, PacketsFrom
<1>3. AnswersAbout' \subseteq AnswersAbout
  BY AnswersFrom
<1>4. PassMeansKey' /\ DOMAIN result' = Handshakes
  BY <1>1, SameResult DEF PassInv, KeyTypes
<1>. QED  BY <1>1, <1>2, <1>3, <1>4, QuietKeeps

(* Replies are appended to udpOut only if they are about already. *)
LEMMA AppendReply ==
    ASSUME IsSeq(udpOut), NEW p, NEW r, AnswerTo(p.sock, r) \in AnswersAbout, udpOut' = Append(udpOut, Reply(p, r))
    PROVE  IsSeq(udpOut') /\ \A n \in DOMAIN udpOut' : AnswerTo(udpOut'[n].sock, udpOut'[n].rsp) \in AnswersAbout
<1>m. PICK m : m = Reply(p, r)
  OBVIOUS
<1>1. m.sock = p.sock /\ m.rsp = r
  BY <1>m DEF Reply
<1>2. /\ IsSeq(udpOut')
      /\ \A n \in DOMAIN udpOut' : udpOut'[n] = m \/ \E j \in DOMAIN udpOut : udpOut'[n] = udpOut[j]
  BY <1>m, AppendAny
<1>. QED  BY <1>1, <1>2, Members

LEMMA ReceiveKeeps ==
    ASSUME PassInv, BenchInv, ReceiveNew \/ ReceiveDup, UNCHANGED peerVars
    PROVE  PassInv'
<1>d. PICK d : d = Head(udpIn)
  OBVIOUS
<1>k. PICK k : k = d.key
  OBVIOUS
<1>1. /\ udpIn # << >> /\ udpIn' = Tail(udpIn)
      /\ UNCHANGED <<pc, hs, engVars, result, aaaVars, running, radiusRsp>>
  BY DEF ReceiveNew, ReceiveDup, peerVars, radiusVars
<1>2. IsSeq(udpIn) /\ IsSeq(udpOut) /\ \A j \in DOMAIN udpIn : udpIn[j].key \in Keys
  BY DEF PassInv, KeyTypes, BenchInv, CountersInv
<1>3. /\ IsSeq(udpIn') /\ 1 \in DOMAIN udpIn /\ d = udpIn[1]
      /\ \A n \in DOMAIN udpIn' : udpIn'[n] \in PacketsAbout
  BY <1>1, <1>2, <1>d, TailAny, Members
<1>4. k \in Keys /\ d \in PacketsAbout
  BY <1>2, <1>3, <1>k, Members
<1>5. CASE ReceiveNew
  <2>n. PICK n : n = [status |-> "queued", packet |-> d, reply |-> NoRsp]
    OBVIOUS
  <2>1. request' = [request EXCEPT ![k] = n] /\ request[k].status \in {"none", "cleaned"} /\ udpOut' = udpOut
    BY <1>5, <1>d, <1>k, <2>n DEF ReceiveNew
  <2>2. n.status = "queued" /\ n.packet = d /\ IsRequest(n)
    BY <2>n DEF IsRequest
  <2>3. request'[k] = n /\ \A j \in Keys : j # k => request'[j] = request[j]
    BY <1>4, <2>1, <2>2, SetRequest DEF BenchInv
  <2>4. radiusRsp' # NoRsp => request'[running'].packet = request[running].packet
    <3>1. radiusRsp # NoRsp => running \in Keys /\ request[running].status = "running"
      BY DEF BenchInv, ServerInv
    <3>. QED  BY <1>1, <2>1, <2>3, <3>1
  <2>5. \A j \in Keys : request'[j].status \notin {"none", "cleaned"} => request'[j].packet \in PacketsAbout
    BY <1>4, <2>2, <2>3, Members
  <2>6. \A j \in Keys : request'[j].status \in {"delayed", "replied"} =>
            AnswerTo(request'[j].packet.sock, request'[j].reply) \in AnswersAbout
    BY <2>2, <2>3, Members
  <2>. QED  BY <1>1, <1>2, <1>3, <2>1, <2>4, <2>5, <2>6, Members, ServerQuietKeeps
<1>6. CASE ReceiveDup
  <2>1. /\ request' = request
        /\ \/ udpOut' = udpOut
           \/ request[k].status = "replied" /\ udpOut' = Append(udpOut, Reply(request[k].packet, request[k].reply))
    BY <1>6, <1>d, <1>k DEF ReceiveDup
  <2>2. IsSeq(udpOut') /\ \A n \in DOMAIN udpOut' : AnswerTo(udpOut'[n].sock, udpOut'[n].rsp) \in AnswersAbout
    <3>1. CASE udpOut' = udpOut
      BY <1>2, <3>1, Members
    <3>2. CASE request[k].status = "replied" /\ udpOut' = Append(udpOut, Reply(request[k].packet, request[k].reply))
      <4>1. AnswerTo(request[k].packet.sock, request[k].reply) \in AnswersAbout
        BY <1>4, <3>2, Members
      <4>. QED  BY <1>2, <3>2, <4>1, AppendReply
    <3>. QED  BY <2>1, <3>1, <3>2
  <2>. QED  BY <1>1, <1>3, <2>1, <2>2, Members, ServerQuietKeeps
<1>. QED  BY <1>5, <1>6

(* One request changes and keeps its packet. *)
LEMMA TurnKeeps ==
    ASSUME PassInv, UNCHANGED <<pc, hs, engVars, result, aaaVars, udpIn>>, NEW k \in Keys, NEW n,
           \A j \in Keys : j # k => request'[j] = request[j],
           request[k].status \notin {"none", "cleaned"}, request'[k] = n, n.status = "cleaned" \/ n.packet = request[k].packet,
           n.status \in {"delayed", "replied"} => AnswerTo(n.packet.sock, n.reply) \in AnswersAbout,
           IsSeq(udpOut'),
           \A i \in DOMAIN udpOut' : AnswerTo(udpOut'[i].sock, udpOut'[i].rsp) \in AnswersAbout,
           radiusRsp' # NoRsp =>
               radiusRsp' = radiusRsp /\ request'[running'].packet = request[running].packet
    PROVE  PassInv'
<1>1. IsSeq(udpIn') /\ \A i \in DOMAIN udpIn' : udpIn'[i] \in PacketsAbout
  BY Members DEF PassInv, KeyTypes
<1>2. \A j \in Keys : request'[j].status \notin {"none", "cleaned"} => request'[j].packet \in PacketsAbout
  BY Members
<1>3. \A j \in Keys : request'[j].status \in {"delayed", "replied"} =>
          AnswerTo(request'[j].packet.sock, request'[j].reply) \in AnswersAbout
  BY Members
<1>. QED  BY <1>1, <1>2, <1>3, ServerQuietKeeps

LEMMA RunKeeps ==
    ASSUME PassInv, BenchInv, NEW k \in Keys, RunRequest(k), UNCHANGED peerVars
    PROVE  PassInv'
<1>1. /\ running = NoKey /\ request[k].status = "queued" /\ request' = [request EXCEPT ![k].status = "running"]
      /\ UNCHANGED <<pc, hs, engVars, result, aaaVars, udpIn, udpOut, radiusRsp>>
  BY DEF RunRequest, udpVars, peerVars
<1>2. Turned(k, {request[k].status}, {"running"})
  BY <1>1, SetStatus DEF BenchInv
<1>n. PICK n : n = request'[k]
  OBVIOUS
<1>3. n.status = "running" /\ n.packet = request[k].packet /\ \A j \in Keys : j # k => request'[j] = request[j]
  BY <1>2, <1>n DEF Turned
<1>4. radiusRsp' = NoRsp
  BY <1>1 DEF BenchInv, ServerInv
<1>5. IsSeq(udpOut') /\ \A i \in DOMAIN udpOut' : AnswerTo(udpOut'[i].sock, udpOut'[i].rsp) \in AnswersAbout
  BY <1>1, Members DEF PassInv, KeyTypes
<1>. QED  BY <1>1, <1>n, <1>3, <1>4, <1>5, TurnKeeps

LEMMA FinishKeeps ==
    ASSUME PassInv, BenchInv, request_finish, UNCHANGED peerVars
    PROVE  PassInv'
<1>k. PICK k : k = running
  OBVIOUS
<1>r. PICK r : r = radiusRsp
  OBVIOUS
<1>st. PICK st : st = IF r.result = "reject" THEN "delayed" ELSE "replied"
  OBVIOUS
<1>o. PICK o : o = request[k]
  OBVIOUS
<1>n. PICK n : n = [status |-> st, packet |-> o.packet, reply |-> r]
  OBVIOUS
<1>1. /\ r # NoRsp /\ radiusRsp' = NoRsp
      /\ request' = [request EXCEPT ![k].reply = r, ![k].status = st]
      /\ udpOut' = udpOut \/ udpOut' = Append(udpOut, Reply(o.packet, r))
      /\ UNCHANGED <<pc, hs, engVars, result, aaaVars, udpIn>>
  BY <1>k, <1>r, <1>st, <1>o DEF request_finish, peerVars
<1>2. k \in Keys /\ request[k].status = "running" /\ st \in {"delayed", "replied"}
  BY <1>k, <1>r, <1>st, <1>1 DEF BenchInv, ServerInv
<1>3. DOMAIN request = Keys /\ o = [status |-> o.status, packet |-> o.packet, reply |-> o.reply]
  BY <1>o, <1>2 DEF BenchInv, ServerInv, IsRequest
<1>4. request'[k] = n /\ \A j \in Keys : j # k => request'[j] = request[j]
  <2>. DEFINE m == [o EXCEPT !.reply = r]
              q == [request EXCEPT ![k] = m]
  <2>1. m = [status |-> o.status, packet |-> o.packet, reply |-> r]
    BY <1>3
  <2>2. [m EXCEPT !.status = st] = n
    <3>. HIDE DEF m
    <3>. QED  BY <2>1, <1>n
  <2>3. request' = [q EXCEPT ![k].status = st]
    BY <1>1, <1>o
  <2>4. DOMAIN q = Keys /\ q[k] = m /\ \A j \in Keys : j # k => q[j] = request[j]
    BY <1>2, <1>3
  <2>. HIDE DEF m, q
  <2>. QED  BY <1>2, <2>2, <2>3, <2>4
<1>5. n.status = st /\ n.packet = o.packet /\ n.reply = r
  BY <1>n
<1>6. AnswerTo(o.packet.sock, r) \in AnswersAbout
  BY <1>k, <1>r, <1>o, <1>1, Members
<1>7. IsSeq(udpOut') /\ \A i \in DOMAIN udpOut' : AnswerTo(udpOut'[i].sock, udpOut'[i].rsp) \in AnswersAbout
  <2>1. CASE udpOut' = udpOut
    BY <2>1, Members DEF PassInv, KeyTypes
  <2>2. CASE udpOut' = Append(udpOut, Reply(o.packet, r))
    BY <1>6, <2>2, AppendReply DEF PassInv, KeyTypes
  <2>. QED  BY <1>1, <2>1, <2>2
<1>. QED  BY <1>1, <1>2, <1>4, <1>5, <1>6, <1>7, <1>o, TurnKeeps

LEMMA SendDelayedKeeps ==
    ASSUME PassInv, BenchInv, NEW k \in Keys, SendDelayed(k), UNCHANGED peerVars
    PROVE  PassInv'
<1>o. PICK o : o = request[k]
  OBVIOUS
<1>n. PICK n : n = [status |-> "replied", packet |-> o.packet, reply |-> o.reply]
  OBVIOUS
<1>1. /\ o.status = "delayed" /\ request' = [request EXCEPT ![k].status = "replied"]
      /\ udpOut' = Append(udpOut, Reply(o.packet, o.reply))
      /\ UNCHANGED <<pc, hs, engVars, result, aaaVars, udpIn, running, radiusRsp>>
  BY <1>o DEF SendDelayed, radiusVars, peerVars
<1>2. DOMAIN request = Keys /\ o = [status |-> o.status, packet |-> o.packet, reply |-> o.reply]
  BY <1>o DEF BenchInv, ServerInv, IsRequest
<1>3. request'[k] = n /\ \A j \in Keys : j # k => request'[j] = request[j]
  <2>. DEFINE m == [o EXCEPT !.status = "replied"]
  <2>1. m = n
    BY <1>2, <1>n
  <2>2. request' = [request EXCEPT ![k] = m]
    BY <1>1, <1>o
  <2>. HIDE DEF m
  <2>. QED  BY <1>2, <2>1, <2>2
<1>4. n.status = "replied" /\ n.packet = o.packet /\ n.reply = o.reply
  BY <1>n
<1>5. AnswerTo(o.packet.sock, o.reply) \in AnswersAbout
  BY <1>1, <1>o, Members
<1>6. IsSeq(udpOut') /\ \A i \in DOMAIN udpOut' : AnswerTo(udpOut'[i].sock, udpOut'[i].rsp) \in AnswersAbout
  BY <1>1, <1>5, AppendReply DEF PassInv, KeyTypes
<1>7. radiusRsp' # NoRsp => radiusRsp' = radiusRsp /\ request'[running'].packet = request[running].packet
  <2>1. radiusRsp # NoRsp => running \in Keys /\ running # k
    BY <1>1, <1>o DEF BenchInv, ServerInv
  <2>. QED  BY <1>1, <1>3, <2>1
<1>. QED  BY <1>1, <1>o, <1>3, <1>4, <1>5, <1>6, <1>7, TurnKeeps

LEMMA CleanupKeeps ==
    ASSUME PassInv, BenchInv, NEW k \in Keys, Cleanup(k), UNCHANGED <<pc, hs, engVars, result>>
    PROVE  PassInv'
<1>n. PICK n : n = [status |-> "cleaned", packet |-> NoKey, reply |-> NoRsp]
  OBVIOUS
<1>0. [NoRequest EXCEPT !.status = "cleaned"] = n
  BY <1>n DEF NoRequest
<1>1. /\ request[k].status = "replied" /\ request' = [request EXCEPT ![k] = n]
      /\ UNCHANGED <<udpIn, udpOut, running, aaaVars, radiusRsp>>
  BY <1>0 DEF Cleanup, udpVars, radiusVars
<1>2. request'[k] = n /\ n.status = "cleaned" /\ \A j \in Keys : j # k => request'[j] = request[j]
  BY <1>1, <1>n DEF BenchInv, ServerInv
<1>3. radiusRsp' # NoRsp => radiusRsp' = radiusRsp /\ request'[running'].packet = request[running].packet
  <2>1. radiusRsp # NoRsp => running \in Keys /\ running # k
    BY <1>1 DEF BenchInv, ServerInv
  <2>. QED  BY <1>1, <1>2, <2>1
<1>4. IsSeq(udpOut') /\ \A i \in DOMAIN udpOut' : AnswerTo(udpOut'[i].sock, udpOut'[i].rsp) \in AnswersAbout
  BY <1>1, Members DEF PassInv, KeyTypes
<1>. QED  BY <1>1, <1>2, <1>3, <1>4, TurnKeeps

-----------------------------------------------------------------------------
(* The EAP module: p is the packet of the request it has, s the session found. *)
Handling(own, p) ==
    /\ KeyTypes /\ PassMeansKey /\ own \in Owners /\ KeyInv(own)
    /\ PacketOf(p, own) /\ p = request[running].packet
    /\ radiusReq = <<AccessRequest(p.state, p.eap)>>
    /\ UNCHANGED <<peerVars, udpVars, request, running>>

Serving(own, p, s) ==
    /\ Handling(own, p)
    /\ s \in Sids /\ s \in Nat /\ s < aaaNext /\ aaa[s].status = "listed"
    /\ own[s] = p.sock /\ p.eap \in Packets
    /\ p.state.sid = s /\ p.state.trip = aaa[s].trip

(* What session s may become. *)
FitSession(s, x, own) ==
    /\ x \in KSessions
    /\ Bytes(x.in.data, PeerMsgs(own[s]))
    /\ x.round # 0 => x.ctx.eph = own[s] /\ x.ctx.sid = s
    /\ x.round = 2 /\ Live(own[s]) => eng.step >= 2 /\ eng.ctx.sid = s

LEMMA HandlingFrame ==
    ASSUME NEW own, NEW p, Handling(own, p)
    PROVE  /\ PeerKeeps /\ EngineOf /\ EngineOf' /\ UNCHANGED <<pc, hs, eng, result>>
           /\ \A x : PeerMsgs(x)' = PeerMsgs(x)
           /\ PacketsAbout' = PacketsAbout
           /\ \A a \in AnswersAbout' : a \in AnswersAbout \/ a = AnswerTo(p.sock, radiusRsp')
<1>1. UNCHANGED <<pc, hs, eng, state, eap, key, result, udpIn, udpOut, request, running>>
  BY DEF Handling, peerVars, engVars, udpVars
<1>2. KeyTypes /\ EngineOf
  BY DEF Handling, KeyInv
<1>3. PeerKeeps /\ EngineOf'
  BY <1>1, <1>2, SamePeer
<1>4. PacketsAbout' = PacketsAbout
  BY <1>1 DEF PacketsAbout, Kept
<1>5. ASSUME NEW a \in AnswersAbout' PROVE a \in AnswersAbout \/ a = AnswerTo(p.sock, radiusRsp')
  <2>1. p = request[running].packet
    BY DEF Handling
  <2>. QED  BY <1>1, <1>5, <2>1 DEF AnswersAbout, Answered
<1>6. ASSUME NEW x PROVE PeerMsgs(x)' = PeerMsgs(x)
  BY <1>1 DEF PeerMsgs, Live
<1>. QED  BY <1>1, <1>2, <1>3, <1>4, <1>5, <1>6

LEMMA SessionMoves ==
    ASSUME NEW own, NEW p, NEW s, Serving(own, p, s), NEW x, FitSession(s, x, own),
           \/ x.trip > aaa[s].trip
           \/ x.trip = aaa[s].trip /\ x.round = aaa[s].round /\ x.out = aaa[s].out,
           aaa' = [aaa EXCEPT ![s] = x], aaaNext' = aaaNext,
           AnswerOf(AnswerTo(p.sock, radiusRsp), own)'
    PROVE  PassInv'
<1>1. /\ Handling(own, p) /\ s \in Sids /\ s \in Nat /\ s < aaaNext /\ aaa[s].status = "listed"
      /\ KeyTypes /\ PassMeansKey /\ own \in Owners /\ KeyInv(own)
  BY DEF Serving, Handling
<1>2. /\ PeerKeeps /\ EngineOf /\ EngineOf' /\ UNCHANGED <<pc, hs, eng, result>>
      /\ \A y : PeerMsgs(y)' = PeerMsgs(y)
      /\ PacketsAbout' = PacketsAbout
      /\ \A a \in AnswersAbout' : a \in AnswersAbout \/ a = AnswerTo(p.sock, radiusRsp')
  BY <1>1, HandlingFrame
<1>3. /\ aaa \in [Sids -> KSessions] /\ x \in KSessions /\ aaaNext \in Nat
      /\ aaa' \in [Sids -> KSessions] /\ aaa'[s] = x /\ \A q \in Sids : q # s => aaa'[q] = aaa[q]
  BY <1>1, AaaAssumption DEF KeyTypes, FitSession
<1>4. ServerKeeps(own, own)
  <2>1. ASSUME NEW q \in Sids
        PROVE  /\ aaa[q].status = "success" => aaa'[q] = aaa[q]
               /\ aaa'[q].trip \in Nat /\ aaa'[q].trip >= aaa[q].trip
               /\ \A t \in Nat : t <= aaa[q].trip /\ Final(q, t)' => Final(q, t)
    <3>1. aaa[q].trip \in Nat /\ aaa'[q].trip \in Nat
      BY <1>3 DEF KSessions
    <3>2. CASE q # s
      BY <1>3, <3>1, <3>2 DEF Final
    <3>3. CASE q = s
      <4>1. aaa'[q] = x
        BY <1>3, <3>3
      <4>. QED  BY <1>1, <3>1, <3>3, <4>1 DEF Final
    <3>. QED  BY <3>2, <3>3
  <2>2. aaaNext' \in Nat /\ aaaNext' >= aaaNext
    BY <1>3
  <2>. QED  BY <2>1, <2>2 DEF ServerKeeps
<1>5. SessionOf(s, own)'
  <2>1. ~(s >= aaaNext) /\ own[s] \in 1..hs
    BY <1>1, <1>3 DEF KeyInv, SessionOf
  <2>2. Live(own[s])' => Live(own[s])
    BY <1>2 DEF Live
  <2>. QED  BY <1>2, <1>3, <2>1, <2>2 DEF SessionOf, FitSession
<1>6. KeyInv(own)'
  BY <1>1, <1>2, <1>3, <1>4, <1>5, KeyInvKept
<1>7. UNCHANGED <<udpIn, udpOut>>
  BY <1>1 DEF Handling, udpVars
<1>8. KeyTypes'
  BY <1>1, <1>2, <1>3, <1>7 DEF KeyTypes
<1>9. PassMeansKey'
  BY <1>1, <1>2, <1>4, PassKept
<1>. QED  BY <1>1, <1>6, <1>8, <1>9 DEF PassInv, Owners

Trip(x) == [x EXCEPT !.trip = x.trip + 1, !.id = x.id + 1]

LEMMA TripFields ==
    ASSUME NEW x \in KSessions
    PROVE  /\ Trip(x) \in KSessions /\ Trip(x).trip = x.trip + 1 /\ Trip(x).id = x.id + 1
           /\ Trip(x).in = x.in /\ Trip(x).out = x.out /\ Trip(x).ctx = x.ctx /\ Trip(x).round = x.round
           /\ Trip(x).status = x.status
<1>1. x.trip + 1 \in Nat /\ x.id + 1 \in Nat
  BY DEF KSessions
<1>. QED  BY <1>1 DEF Trip, KSessions

LEMMA AnswerGoes ==
    ASSUME NEW own, NEW p, Handling(own, p), NEW i \in DOMAIN radiusReq, NEW rsp, Answer(i, rsp)
    PROVE  radiusRsp' = rsp /\ radiusReq[i].eap = p.eap /\ radiusReq[i].state = p.state
<1>1. radiusReq = <<AccessRequest(p.state, p.eap)>> /\ i = 1
  <2>1. radiusReq = <<AccessRequest(p.state, p.eap)>>
    BY DEF Handling
  <2>. QED  BY <2>1, RemoveOnly
<1>2. radiusReq[i] = AccessRequest(p.state, p.eap)
  BY <1>1
<1>3. radiusReq[i].open /\ radiusReq[i].eap = p.eap /\ radiusReq[i].state = p.state
  BY <1>2 DEF AccessRequest
<1>. QED  BY <1>3 DEF Answer

LEMMA ChallengeKeeps ==
    ASSUME NEW own, NEW p, NEW s, Serving(own, p, s), NEW x, FitSession(s, x, own), x.trip = aaa[s].trip,
           NEW w \in Wires, x.round = 2 /\ ~Pending(x.out) => ~w.more,
           NEW i \in DOMAIN radiusReq, Challenge(i, s, x, w)
    PROVE  PassInv'
<1>y. PICK y : y = Trip(x)
  OBVIOUS
<1>rsp. PICK rsp : rsp = AccessChallenge(StateAttr(s, x.trip + 1), EdhocPacket(x.id + 1, w))
  OBVIOUS
<1>1. aaa' = [aaa EXCEPT ![s] = y] /\ aaaNext' = aaaNext /\ Answer(i, rsp)
  BY <1>y, <1>rsp DEF Challenge, Trip
<1>2. /\ x \in KSessions /\ s \in Sids /\ s \in Nat /\ s < aaaNext /\ Handling(own, p) /\ own[s] = p.sock
      /\ KeyTypes /\ p.sock \in 1..hs /\ UNCHANGED hs
  BY DEF FitSession, Serving, Handling, PacketOf, peerVars
<1>3. /\ y \in KSessions /\ y.trip = x.trip + 1 /\ y.in = x.in /\ y.out = x.out /\ y.ctx = x.ctx
      /\ y.round = x.round /\ x.trip \in Nat /\ x.id + 1 \in Nat
  BY <1>2, <1>y, TripFields DEF KSessions
<1>4. FitSession(s, y, own) /\ y.trip > aaa[s].trip
  BY <1>3 DEF FitSession
<1>5. radiusRsp' = rsp
  BY <1>1, <1>2, AnswerGoes
<1>6. /\ rsp.result = "challenge" /\ rsp.state = [sid |-> s, trip |-> y.trip]
      /\ rsp.eap \in Packets /\ rsp.eap.wire = w
  BY <1>3, <1>rsp DEF AccessChallenge, StateAttr, EdhocPacket, Packets
<1>7. aaa'[s] = y
  BY <1>1, <1>2 DEF KeyTypes
<1>8. StateOf(rsp.state, p.sock, own)'
  <2>1. y.trip \in Nat /\ y.trip <= aaa'[s].trip
    BY <1>3, <1>7
  <2>. QED  BY <1>1, <1>2, <1>6, <2>1 DEF StateOf, KStates
<1>9. Final(s, y.trip)' => ~w.more
  BY <1>3, <1>7 DEF Final
<1>10. AnswerOf(AnswerTo(p.sock, rsp), own)'
  BY <1>2, <1>6, <1>8, <1>9 DEF AnswerOf, AnswerTo
<1>. QED  BY <1>1, <1>4, <1>5, <1>10, SessionMoves

LEMMA ConcludeKeeps ==
    ASSUME NEW own, NEW p, NEW s, Serving(own, p, s), NEW x, FitSession(s, x, own),
           x.trip = aaa[s].trip, x.round = aaa[s].round, x.out = aaa[s].out,
           NEW status \in {"failed", "success"}, NEW rsp,
           \/ rsp = AccessReject
           \/ /\ rsp = AccessAccept /\ status = "success" /\ x.ctx.done
              /\ Live(p.sock) => eng.ctx.done /\ Msk(x.ctx) = Msk(eng.ctx),
           NEW i \in DOMAIN radiusReq, Conclude(i, s, x, status, rsp)
    PROVE  PassInv'
<1>y. PICK y : y = [x EXCEPT !.status = status]
  OBVIOUS
<1>1. aaa' = [aaa EXCEPT ![s] = y] /\ aaaNext' = aaaNext /\ Answer(i, rsp)
  BY <1>y DEF Conclude
<1>2. /\ x \in KSessions /\ s \in Sids /\ Handling(own, p) /\ own[s] = p.sock
      /\ KeyTypes /\ p.sock \in 1..hs
  BY DEF FitSession, Serving, Handling, PacketOf
<1>u. UNCHANGED <<pc, hs, eng>>
  BY <1>2, HandlingFrame
<1>3. /\ y \in KSessions /\ y.trip = x.trip /\ y.in = x.in /\ y.out = x.out /\ y.ctx = x.ctx
      /\ y.round = x.round /\ y.status = status
  BY <1>2, <1>y DEF KSessions
<1>4. FitSession(s, y, own) /\ y.trip = aaa[s].trip /\ y.round = aaa[s].round /\ y.out = aaa[s].out
  BY <1>3 DEF FitSession
<1>5. radiusRsp' = rsp
  BY <1>1, <1>2, AnswerGoes
<1>7. aaa'[s] = y
  BY <1>1, <1>2 DEF KeyTypes
<1>8. rsp.result # "challenge" /\ (rsp.result = "accept" => rsp # AccessReject)
  BY DEF AccessReject, AccessAccept
<1>9. ASSUME rsp.result = "accept", Live(p.sock)' PROVE (eng.ctx.done /\ Granted(eng.ctx))'
  <2>1. Live(p.sock)
    BY <1>9, <1>u DEF Live
  <2>2. eng'.ctx.done /\ aaa'[s].status = "success" /\ aaa'[s].ctx.done /\ Msk(aaa'[s].ctx) = Msk(eng'.ctx)
    BY <1>3, <1>7, <1>8, <1>9, <1>u, <2>1
  <2>. QED  BY <1>2, <2>2 DEF Granted
<1>10. AnswerOf(AnswerTo(p.sock, rsp), own)'
  BY <1>2, <1>8, <1>9, <1>u DEF AnswerOf, AnswerTo
<1>. QED  BY <1>1, <1>4, <1>5, <1>10, SessionMoves

(* A request that names a session in its current State. *)
LEMMA MatchServes ==
    ASSUME NEW own, NEW p, Handling(own, p), NEW i \in DOMAIN radiusReq, NEW s \in Sids, Matches(radiusReq[i], s)
    PROVE  Serving(own, p, s) /\ radiusReq[i].eap = p.eap
<1>1. radiusReq = <<AccessRequest(p.state, p.eap)>> /\ PacketOf(p, own) /\ KeyTypes /\ KeyInv(own)
  BY DEF Handling
<1>2. i = 1
  BY <1>1, RemoveOnly
<1>3. radiusReq[i].state = p.state /\ radiusReq[i].eap = p.eap
  BY <1>1, <1>2 DEF AccessRequest
<1>4. p.state.sid = s /\ aaa[s].status = "listed" /\ aaa[s].trip = p.state.trip /\ aaa[s].id = p.eap.id
  BY <1>3 DEF Matches
<1>5. s \in Nat /\ aaaNext \in Nat
  BY <1>1, AaaAssumption DEF Sids, KeyTypes
<1>6. s < aaaNext
  <2>1. aaa[s] # NoSession
    BY <1>4 DEF NoSession
  <2>. QED  BY <1>1, <1>5, <2>1 DEF KeyInv, SessionOf
<1>7. p.eap \in Packets /\ own[s] = p.sock
  <2>1. p.state # NoState
    BY <1>3 DEF Matches
  <2>2. p.eap \in Packets
    BY <1>1, <2>1 DEF PacketOf
  <2>3. p.eap.kind = "edhoc"
    BY <2>2 DEF Packets
  <2>. QED  BY <1>1, <1>4, <2>2, <2>3 DEF PacketOf, StateOf
<1>. QED  BY <1>3, <1>4, <1>5, <1>6, <1>7 DEF Serving

LEMMA ServedSession ==
    ASSUME NEW own, NEW p, NEW s, Serving(own, p, s)
    PROVE  /\ FitSession(s, aaa[s], own) /\ p.eap.wire \in Wires
           /\ Bytes(p.eap.wire.data, PeerMsgs(own[s]))
           /\ Live(own[s]) => EngineOf /\ own[s] = hs /\ pc # "idle"
           /\ own[s] \in Nat /\ s \in Nat
           /\ Final(s, aaa[s].trip) /\ p.eap.wire.data.len = 0 /\ Live(own[s]) => eng.ctx.done
<1>1. /\ s \in Sids /\ s \in Nat /\ s < aaaNext /\ own[s] = p.sock /\ p.eap \in Packets
      /\ p.state.sid = s /\ p.state.trip = aaa[s].trip
      /\ KeyTypes /\ KeyInv(own) /\ PacketOf(p, own)
  BY DEF Serving, Handling
<1>2. p.eap.kind = "edhoc" /\ p.eap.wire \in Wires
  BY <1>1 DEF Packets
<1>3. aaa[s] \in KSessions /\ aaaNext \in Nat /\ hs \in Nat
  BY <1>1, AaaAssumption, BenchAssumption DEF KeyTypes
<1>4. ~(s >= aaaNext) /\ SessionOf(s, own)
  BY <1>1, <1>3 DEF KeyInv
<1>5. FitSession(s, aaa[s], own) /\ own[s] \in Nat
  BY <1>3, <1>4 DEF SessionOf, FitSession
<1>6. /\ Bytes(p.eap.wire.data, PeerMsgs(own[s]))
      /\ Final(s, aaa[s].trip) /\ p.eap.wire.data.len = 0 /\ Live(own[s]) => eng.ctx.done
  BY <1>1, <1>2 DEF PacketOf
<1>. QED  BY <1>1, <1>2, <1>5, <1>6 DEF KeyInv, Live

(* edhoc_consume_incoming: session s with its buffer. *)
LEMMA ReceivingFits ==
    ASSUME NEW own, NEW p, Handling(own, p), NEW i \in DOMAIN radiusReq, NEW s \in Sids, NEW st, Receiving(i, s, st),
           NEW x, x = After(i, s), NEW d, d = Got(i, s)
    PROVE  /\ Serving(own, p, s) /\ FitSession(s, x, own) /\ ~Pending(aaa[s].out)
           /\ x.trip = aaa[s].trip /\ x.round = aaa[s].round /\ x.out = aaa[s].out /\ x.ctx = aaa[s].ctx
           /\ d \in Runs /\ Bytes(d, PeerMsgs(own[s]))
           /\ st = "msg" /\ d.len = 0 => p.eap.wire.data.len = 0
<1>1. Matches(radiusReq[i], s) /\ ~Pending(aaa[s].out) /\ Consumed(i, s).status = st
  BY DEF Receiving, Processing
<1>2. Serving(own, p, s) /\ radiusReq[i].eap = p.eap
  BY <1>1, MatchServes
<1>3. /\ FitSession(s, aaa[s], own) /\ p.eap.wire \in Wires
      /\ Bytes(p.eap.wire.data, PeerMsgs(own[s]))
  BY <1>2, ServedSession
<1>4. aaa[s] \in KSessions /\ aaa[s].in \in Ins /\ Bytes(aaa[s].in.data, PeerMsgs(own[s]))
  BY <1>3 DEF FitSession, KSessions
<1>r. PICK r : r = ParseEdhocWire(aaa[s].in, p.eap.wire)
  OBVIOUS
<1>5. /\ r.in \in Ins /\ r.msg \in Runs
      /\ Bytes(r.in.data, PeerMsgs(own[s])) /\ Bytes(r.msg, PeerMsgs(own[s]))
      /\ r.status = "msg" /\ r.msg.len = 0 => p.eap.wire.data.len = 0
  BY <1>3, <1>4, <1>r, ParseBytes
<1>6. d = r.msg /\ r.status = st /\ x = [aaa[s] EXCEPT !.in = r.in]
  BY <1>1, <1>2, <1>r DEF After, Got, Consumed
<1>7. /\ x \in KSessions /\ x.in = r.in /\ x.trip = aaa[s].trip /\ x.round = aaa[s].round
      /\ x.out = aaa[s].out /\ x.ctx = aaa[s].ctx
  BY <1>4, <1>5, <1>6 DEF KSessions
<1>8. FitSession(s, x, own)
  BY <1>3, <1>5, <1>7 DEF FitSession
<1>. QED  BY <1>1, <1>2, <1>5, <1>6, <1>7, <1>8

LEMMA AbortKeeps ==
    ASSUME NEW own, NEW p, Handling(own, p), NEW i \in DOMAIN radiusReq, NEW s \in Sids, AbortTrips(i, s)
    PROVE  PassInv'
<1>1. Serving(own, p, s) /\ Conclude(i, s, aaa[s], "failed", AccessReject)
  BY MatchServes DEF AbortTrips, Fail
<1>2. FitSession(s, aaa[s], own)
  BY <1>1, ServedSession
<1>. QED  BY <1>1, <1>2, ConcludeKeeps

LEMMA FailKeeps ==
    ASSUME NEW own, NEW p, Handling(own, p), NEW i \in DOMAIN radiusReq, NEW s \in Sids,
           FailParse(i, s) \/ FailRound(i, s)
    PROVE  PassInv'
<1>x. PICK x : x = After(i, s)
  OBVIOUS
<1>1. PICK st : Receiving(i, s, st) /\ Fail(i, s, x)
  BY <1>x DEF FailParse, FailRound
<1>2. /\ Serving(own, p, s) /\ FitSession(s, x, own)
      /\ x.trip = aaa[s].trip /\ x.round = aaa[s].round /\ x.out = aaa[s].out
  BY <1>x, <1>1, ReceivingFits
<1>3. Conclude(i, s, x, "failed", AccessReject)
  BY <1>1 DEF Fail
<1>. QED  BY <1>2, <1>3, ConcludeKeeps

LEMMA NextFragmentKeeps ==
    ASSUME NEW own, NEW p, Handling(own, p), NEW i \in DOMAIN radiusReq, NEW s \in Sids, SendNextFragment(i, s)
    PROVE  PassInv'
<1>q. PICK q : q = AaaAdvance(aaa[s].out)
  OBVIOUS
<1>w. PICK w : w = EncodeEdhocFragment(aaa[s].out)
  OBVIOUS
<1>x. PICK x : x = [aaa[s] EXCEPT !.out = q]
  OBVIOUS
<1>1. Serving(own, p, s) /\ Pending(aaa[s].out) /\ Challenge(i, s, x, w)
  BY <1>q, <1>w, <1>x, MatchServes DEF SendNextFragment, Processing
<1>2. FitSession(s, aaa[s], own)
  BY <1>1, ServedSession
<1>3. aaa[s] \in KSessions /\ aaa[s].out \in Outs
  BY <1>1, <1>2 DEF FitSession, KSessions
<1>4. /\ w \in Wires /\ w.data.len # 0 /\ w.data.msg = aaa[s].out.msg
      /\ q \in Outs /\ (Pending(q) => q.msg = aaa[s].out.msg) /\ (~Pending(q) => ~w.more)
  BY <1>1, <1>3, <1>q, <1>w, FragmentBytes
<1>5. /\ x \in KSessions /\ x.in = aaa[s].in /\ x.out = q /\ x.ctx = aaa[s].ctx
      /\ x.round = aaa[s].round /\ x.trip = aaa[s].trip
  BY <1>3, <1>4, <1>x DEF KSessions
<1>6. FitSession(s, x, own)
  BY <1>2, <1>5 DEF FitSession
<1>. QED  BY <1>1, <1>4, <1>5, <1>6, ChallengeKeeps

LEMMA AckKeeps ==
    ASSUME NEW own, NEW p, Handling(own, p), NEW i \in DOMAIN radiusReq, NEW s \in Sids, AckFragment(i, s)
    PROVE  PassInv'
<1>x. PICK x : x = After(i, s)
  OBVIOUS
<1>1. Receiving(i, s, "ack") /\ Challenge(i, s, x, Ack)
  BY <1>x DEF AckFragment
<1>2. Serving(own, p, s) /\ FitSession(s, x, own) /\ x.trip = aaa[s].trip
  BY <1>x, <1>1, ReceivingFits
<1>3. Ack \in Wires /\ ~Ack.more
  BY ControlBytes DEF Ack, LastWire, Wire
<1>. QED  BY <1>1, <1>2, <1>3, ChallengeKeeps

(* A message of the handshake the session was opened for. *)
LEMMA MessageOf ==
    ASSUME NEW own, NEW p, NEW s, Serving(own, p, s), NEW d \in Runs, Bytes(d, PeerMsgs(own[s])),
           NEW t \in InitTypes, Whole(d, t)
    PROVE  /\ d.msg.eph = own[s] /\ own[s] \in Nat
           /\ Live(own[s]) /\ t \in {"msg3", "classic3"} => eng.step >= 2 /\ d.msg.sid = eng.ctx.sid
           /\ Live(own[s]) /\ t = "classic3" => eng.ctx.done
           /\ Live(own[s]) => eng.ctx.eph = own[s]
<1>1. d.msg \in PeerMsgs(own[s]) /\ d.msg.type = t
  BY WholeBytes
<1>2. (Live(own[s]) => EngineOf /\ own[s] = hs /\ pc # "idle") /\ own[s] \in Nat
  BY ServedSession
<1>3. CASE Live(own[s])
  <2>1. eng.ctx.eph = own[s] /\ PeerMsgs(own[s]) = EngMsgs(eng)
    BY <1>2, <1>3 DEF EngineOf, PeerMsgs
  <2>. QED  BY <1>1, <1>2, <2>1 DEF EngMsgs
<1>4. CASE ~Live(own[s])
  BY <1>1, <1>2, <1>4 DEF PeerMsgs
<1>. QED  BY <1>3, <1>4

(* The session when it has a message to send. *)
Replying(x, mode, round, ctx, out) == [x EXCEPT !.mode = mode, !.round = round, !.ctx = ctx, !.out = out]

(* message_1, of either kind, answered with message_2. *)
LEMMA Msg2Keeps ==
    ASSUME NEW own, NEW p, Handling(own, p), NEW i \in DOMAIN radiusReq, NEW s \in Sids, Receiving(i, s, "msg"),
           NEW x, x = After(i, s), NEW d, d = Got(i, s), NEW t \in {"msg1", "classic1"}, Whole(d, t),
           NEW ctx, ctx = edhoc4_r_handle_msg1(edhoc4_init_responder(s), d), NEW t2 \in {"msg2", "classic2"},
           NEW n \in Nat \ {0}, NEW m, m = EdhocMsg(t2, ctx.eph, ctx.sid), NEW mode \in {0, 3, 4},
           NEW y, y = Replying(x, mode, 1, ctx, QueueOut(m, n)), Challenge(i, s, y, QueueWire(m, n))
    PROVE  PassInv'
<1>1. /\ Serving(own, p, s) /\ FitSession(s, x, own) /\ x.trip = aaa[s].trip
      /\ d \in Runs /\ Bytes(d, PeerMsgs(own[s]))
  BY ReceivingFits
<1>2. d.msg.eph = own[s] /\ own[s] \in Nat /\ s \in Nat
  BY <1>1, MessageOf, ServedSession DEF InitTypes
<1>3. ctx \in KCtxs /\ ctx.eph = own[s] /\ ctx.sid = s
  BY <1>2 DEF edhoc4_r_handle_msg1, edhoc4_init_responder, NoCtx, KCtxs
<1>4. m \in Msgs
  BY <1>2, <1>3 DEF EdhocMsg, Msgs, RespTypes
<1>q. PICK q : q = QueueOut(m, n)
  OBVIOUS
<1>w. PICK w : w = QueueWire(m, n)
  OBVIOUS
<1>5. w \in Wires /\ q \in Outs
  BY <1>4, <1>q, <1>w, QueueBytes
<1>6. y \in KSessions /\ y.round = 1 /\ y.ctx = ctx /\ y.in = x.in /\ y.trip = x.trip
  <2>1. x \in KSessions
    BY <1>1 DEF FitSession
  <2>2. y = [status |-> x.status, trip |-> x.trip, id |-> x.id, mode |-> mode, round |-> 1,
             in |-> x.in, out |-> q, ctx |-> ctx]
    BY <1>q, <2>1 DEF Replying, KSessions
  <2>3. /\ x.status \in {"none", "listed", "success", "failed"} /\ x.trip \in Nat /\ x.id \in Nat /\ x.in \in Ins
        /\ 1 \in 0..2
    BY <2>1 DEF KSessions
  <2>. QED  BY <1>3, <1>5, <2>2, <2>3 DEF KSessions
<1>7. FitSession(s, y, own)
  BY <1>1, <1>3, <1>6 DEF FitSession
<1>. QED  BY <1>1, <1>5, <1>6, <1>7, <1>w, ChallengeKeeps

LEMMA Msg1Keeps ==
    ASSUME NEW own, NEW p, Handling(own, p), NEW i \in DOMAIN radiusReq, NEW s \in Sids,
           ProcessMsg1(i, s) \/ ProcessClassic1(i, s)
    PROVE  PassInv'
<1>x. PICK x : x = After(i, s)
  OBVIOUS
<1>d. PICK d : d = Got(i, s)
  OBVIOUS
<1>c. PICK ctx : ctx = edhoc4_r_handle_msg1(edhoc4_init_responder(s), d)
  OBVIOUS
<1>1. CASE ProcessMsg1(i, s)
  <2>m. PICK m : m = EdhocMsg("msg2", ctx.eph, ctx.sid)
    OBVIOUS
  <2>y. PICK y : y = Replying(x, 4, 1, ctx, QueueOut(m, Msg2Len))
    OBVIOUS
  <2>1. Receiving(i, s, "msg") /\ Whole(d, "msg1") /\ Challenge(i, s, y, QueueWire(m, Msg2Len))
    BY <1>x, <1>d, <1>c, <1>1, <2>m, <2>y DEF ProcessMsg1, edhoc4_r_handle_msg1_ok, Replying
  <2>2. Msg2Len \in Nat \ {0} /\ 4 \in {0, 3, 4}
    BY Lengths
  <2>. QED  BY <1>x, <1>d, <1>c, <2>m, <2>y, <2>1, <2>2, Msg2Keeps
<1>2. CASE ProcessClassic1(i, s)
  <2>m. PICK m : m = EdhocMsg("classic2", ctx.eph, ctx.sid)
    OBVIOUS
  <2>y. PICK y : y = Replying(x, 3, 1, ctx, QueueOut(m, Classic2Len))
    OBVIOUS
  <2>1. Receiving(i, s, "msg") /\ Whole(d, "classic1") /\ Challenge(i, s, y, QueueWire(m, Classic2Len))
    BY <1>x, <1>d, <1>c, <1>2, <2>m, <2>y DEF ProcessClassic1, edhoc03_r_handle_msg1, edhoc4_r_handle_msg1, edhoc03_r_handle_msg1_ok, Replying
  <2>2. Classic2Len \in Nat \ {0} /\ 3 \in {0, 3, 4}
    BY Lengths
  <2>. QED  BY <1>x, <1>d, <1>c, <2>m, <2>y, <2>1, <2>2, Msg2Keeps
<1>. QED  BY <1>1, <1>2

(* message_3 names the session the peer has taken for its own. *)
Answering(x, ctx, out) == [x EXCEPT !.round = 2, !.ctx = ctx, !.out = out]

LEMMA Msg3Keeps ==
    ASSUME NEW own, NEW p, Handling(own, p), NEW i \in DOMAIN radiusReq, NEW s \in Sids, ProcessMsg3(i, s)
    PROVE  PassInv'
<1>x. PICK x : x = After(i, s)
  OBVIOUS
<1>d. PICK d : d = Got(i, s)
  OBVIOUS
<1>c. PICK ctx : ctx = edhoc4_r_handle_msg3(aaa[s].ctx)
  OBVIOUS
<1>m. PICK m : m = EdhocMsg("msg4", ctx.eph, ctx.sid)
  OBVIOUS
<1>q. PICK q : q = QueueOut(m, Msg4Len)
  OBVIOUS
<1>w. PICK w : w = QueueWire(m, Msg4Len)
  OBVIOUS
<1>y. PICK y : y = Answering(x, ctx, q)
  OBVIOUS
<1>1. /\ Receiving(i, s, "msg") /\ aaa[s].round = 1 /\ Whole(d, "msg3") /\ Ours(aaa[s].ctx, d.msg)
      /\ Challenge(i, s, y, w)
  BY <1>x, <1>d, <1>c, <1>m, <1>q, <1>w, <1>y DEF ProcessMsg3, edhoc4_r_handle_msg3_ok, Answering
<1>2. /\ Serving(own, p, s) /\ FitSession(s, x, own) /\ x.trip = aaa[s].trip /\ x.round = aaa[s].round
      /\ x.ctx = aaa[s].ctx /\ d \in Runs /\ Bytes(d, PeerMsgs(own[s]))
  BY <1>x, <1>d, <1>1, ReceivingFits
<1>3. x \in KSessions /\ x.ctx \in KCtxs /\ x.ctx.eph = own[s] /\ x.ctx.sid = s
  BY <1>1, <1>2 DEF FitSession, KSessions
<1>4. ctx \in KCtxs /\ ctx.eph = own[s] /\ ctx.sid = s
  BY <1>2, <1>3, <1>c DEF edhoc4_r_handle_msg3, KCtxs
<1>5. m \in Msgs
  BY <1>4, <1>m DEF EdhocMsg, Msgs, RespTypes, KCtxs
<1>6. w \in Wires /\ q \in Outs /\ (~Pending(q) => ~w.more)
  BY <1>5, <1>q, <1>w, QueueBytes, Lengths
<1>7. y \in KSessions /\ y.round = 2 /\ y.ctx = ctx /\ y.out = q /\ y.in = x.in /\ y.trip = x.trip
  <2>1. y = [status |-> x.status, trip |-> x.trip, id |-> x.id, mode |-> x.mode, round |-> 2,
             in |-> x.in, out |-> q, ctx |-> ctx]
    BY <1>3, <1>y DEF Answering, KSessions
  <2>2. /\ x.status \in {"none", "listed", "success", "failed"} /\ x.trip \in Nat /\ x.id \in Nat /\ x.in \in Ins
        /\ x.mode \in {0, 3, 4} /\ 2 \in 0..2
    BY <1>3 DEF KSessions
  <2>. QED  BY <1>4, <1>6, <2>1, <2>2 DEF KSessions
<1>8. Live(own[s]) => eng.step >= 2 /\ eng.ctx.sid = s
  <2>1. Live(own[s]) => eng.step >= 2 /\ d.msg.sid = eng.ctx.sid
    BY <1>1, <1>2, MessageOf DEF InitTypes
  <2>. QED  BY <1>1, <1>2, <1>3, <2>1 DEF Ours
<1>9. FitSession(s, y, own)
  BY <1>2, <1>4, <1>7, <1>8 DEF FitSession
<1>. QED  BY <1>1, <1>2, <1>6, <1>7, <1>9, ChallengeKeeps

(* Success at message_3, for a classical method: only a peer that is done makes it. *)
LEMMA ClassicKeeps ==
    ASSUME NEW own, NEW p, Handling(own, p), NEW i \in DOMAIN radiusReq, NEW s \in Sids, SucceedClassic(i, s)
    PROVE  PassInv'
<1>x. PICK x : x = After(i, s)
  OBVIOUS
<1>d. PICK d : d = Got(i, s)
  OBVIOUS
<1>c. PICK ctx : ctx = edhoc03_r_handle_msg3(aaa[s].ctx)
  OBVIOUS
<1>y. PICK y : y = [x EXCEPT !.ctx = ctx]
  OBVIOUS
<1>1. /\ Receiving(i, s, "msg") /\ aaa[s].round = 1 /\ Whole(d, "classic3") /\ Ours(aaa[s].ctx, d.msg)
      /\ Conclude(i, s, y, "success", AccessAccept)
  BY <1>x, <1>d, <1>c, <1>y DEF SucceedClassic, edhoc03_r_handle_msg3_ok
<1>2. /\ Serving(own, p, s) /\ FitSession(s, x, own) /\ x.trip = aaa[s].trip /\ x.round = aaa[s].round
      /\ x.out = aaa[s].out /\ x.ctx = aaa[s].ctx /\ d \in Runs /\ Bytes(d, PeerMsgs(own[s]))
  BY <1>x, <1>d, <1>1, ReceivingFits
<1>3. x \in KSessions /\ x.ctx \in KCtxs /\ x.ctx.eph = own[s] /\ x.ctx.sid = s
  BY <1>1, <1>2 DEF FitSession, KSessions
<1>4. ctx \in KCtxs /\ ctx.eph = own[s] /\ ctx.sid = s /\ ctx.done
  BY <1>2, <1>3, <1>c DEF edhoc03_r_handle_msg3, KCtxs
<1>5. /\ y \in KSessions /\ y.round = x.round /\ y.ctx = ctx /\ y.out = x.out /\ y.in = x.in /\ y.trip = x.trip
  BY <1>3, <1>4, <1>y DEF KSessions
<1>6. FitSession(s, y, own)
  BY <1>2, <1>4, <1>5 DEF FitSession
<1>7. own[s] = p.sock
  BY <1>2 DEF Serving
<1>8. Live(p.sock) => eng.ctx.done /\ Msk(y.ctx) = Msk(eng.ctx)
  <2>1. Live(own[s]) => eng.ctx.done /\ d.msg.sid = eng.ctx.sid /\ eng.ctx.eph = own[s]
    BY <1>1, <1>2, MessageOf DEF InitTypes
  <2>2. d.msg.sid = s
    BY <1>1, <1>2, <1>3 DEF Ours
  <2>. QED  BY <1>4, <1>5, <1>7, <2>1, <2>2 DEF Msk
<1>. QED  BY <1>1, <1>2, <1>4, <1>5, <1>6, <1>8, ConcludeKeeps

(* Success at the acknowledgement of message_4: only a peer that is done makes it
   in answer to the last of message_4. *)
LEMMA SucceedKeeps ==
    ASSUME NEW own, NEW p, Handling(own, p), NEW i \in DOMAIN radiusReq, NEW s \in Sids, Succeed(i, s)
    PROVE  PassInv'
<1>x. PICK x : x = After(i, s)
  OBVIOUS
<1>d. PICK d : d = Got(i, s)
  OBVIOUS
<1>1. /\ Receiving(i, s, "msg") /\ aaa[s].round = 2 /\ d.len = 0 /\ aaa[s].ctx.done
      /\ Conclude(i, s, x, "success", AccessAccept)
  BY <1>x, <1>d DEF Succeed
<1>2. /\ Serving(own, p, s) /\ FitSession(s, x, own) /\ x.trip = aaa[s].trip /\ x.round = aaa[s].round
      /\ x.out = aaa[s].out /\ x.ctx = aaa[s].ctx /\ ~Pending(aaa[s].out) /\ p.eap.wire.data.len = 0
  BY <1>x, <1>d, <1>1, ReceivingFits
<1>3. Final(s, aaa[s].trip)
  BY <1>1, <1>2 DEF Final
<1>4. own[s] = p.sock
  BY <1>2 DEF Serving
<1>5. ASSUME Live(p.sock) PROVE eng.ctx.done /\ Msk(x.ctx) = Msk(eng.ctx)
  <2>1. eng.ctx.done /\ EngineOf /\ own[s] = hs /\ pc # "idle"
    BY <1>2, <1>3, <1>4, <1>5, ServedSession
  <2>2. eng.ctx.eph = own[s] /\ eng.ctx.sid = s /\ x.ctx.eph = own[s] /\ x.ctx.sid = s
    BY <1>1, <1>2, <1>4, <1>5, <2>1 DEF EngineOf, FitSession
  <2>. QED  BY <2>1, <2>2 DEF Msk
<1>. QED  BY <1>1, <1>2, <1>5, ConcludeKeeps

LEMMA UnknownKeeps ==
    ASSUME NEW own, NEW p, Handling(own, p), NEW i \in DOMAIN radiusReq, RejectUnknown(i)
    PROVE  PassInv'
<1>1. UNCHANGED <<aaa, aaaNext>> /\ radiusRsp' = AccessReject
  BY AnswerGoes DEF RejectUnknown, aaaVars
<1>2. KeyTypes /\ PassMeansKey /\ own \in Owners /\ KeyInv(own) /\ p.sock \in 1..hs /\ UNCHANGED <<udpIn, udpOut>>
  BY DEF Handling, PacketOf, udpVars
<1>3. /\ PeerKeeps /\ EngineOf' /\ UNCHANGED <<pc, hs, eng, result>> /\ PacketsAbout' = PacketsAbout
      /\ \A a \in AnswersAbout' : a \in AnswersAbout \/ a = AnswerTo(p.sock, radiusRsp')
  BY HandlingFrame
<1>4. ServerKeeps(own, own)
  BY <1>1, <1>2, SameServer
<1>5. AnswerOf(AnswerTo(p.sock, AccessReject), own)'
  BY <1>2, <1>3 DEF AnswerOf, AnswerTo, AccessReject
<1>6. KeyInv(own)'
  BY <1>1, <1>2, <1>3, <1>4, <1>5, KeyInvKept
<1>7. KeyTypes' /\ PassMeansKey'
  BY <1>1, <1>2, <1>3, SameResult DEF KeyTypes
<1>. QED  BY <1>2, <1>6, <1>7 DEF PassInv, Owners

(* An identity opens a session for the handshake it came from. *)
LEMMA OpenKeeps ==
    ASSUME NEW own, NEW p, Handling(own, p), NEW i \in DOMAIN radiusReq, mod_session_init(i)
    PROVE  PassInv'
<1>s. PICK s : s = aaaNext
  OBVIOUS
<1>x. PICK x : x = [status |-> "listed", trip |-> 0, id |-> 2, mode |-> 0, round |-> 0,
                    in |-> NoIn, out |-> NoOut, ctx |-> NoCtx]
  OBVIOUS
<1>r. PICK rsp : rsp = AccessChallenge(StateAttr(s, 0), EdhocPacket(2, StartWire))
  OBVIOUS
<1>o. PICK own2 : own2 = [own EXCEPT ![s] = p.sock]
  OBVIOUS
<1>1. /\ KeyTypes /\ PassMeansKey /\ own \in Owners /\ KeyInv(own) /\ PacketOf(p, own)
      /\ UNCHANGED <<udpIn, udpOut>> /\ radiusReq = <<AccessRequest(p.state, p.eap)>>
  BY DEF Handling, udpVars
<1>2. radiusReq[i].eap = p.eap
  <2>1. i = 1
    BY <1>1, RemoveOnly
  <2>. QED  BY <1>1, <2>1 DEF AccessRequest
<1>3. p.eap.id = 1
  <2>1. p.eap.kind = "identity"
    BY <1>2 DEF mod_session_init
  <2>2. p.eap \notin Packets
    BY <2>1 DEF Packets
  <2>. QED  BY <1>1, <2>2 DEF PacketOf, Identity
<1>4. /\ s \in Sids /\ aaa' = [aaa EXCEPT ![s] = x] /\ aaaNext' = s + 1 /\ radiusRsp' = rsp
  <2>1. [NoSession EXCEPT !.status = "listed", !.id = 1 + 1] = x
    <3>. DEFINE n == [NoSession EXCEPT !.status = "listed"]
    <3>1. n = [status |-> "listed", trip |-> 0, id |-> 0, mode |-> 0, round |-> 0,
               in |-> NoIn, out |-> NoOut, ctx |-> NoCtx]
      BY DEF NoSession
    <3>2. [NoSession EXCEPT !.status = "listed", !.id = 1 + 1] = [n EXCEPT !.id = 1 + 1]
      OBVIOUS
    <3>. HIDE DEF n
    <3>3. [n EXCEPT !.id = 2] = x
      BY <1>x, <3>1
    <3>4. 1 + 1 = 2
      OBVIOUS
    <3>. QED  BY <3>2, <3>3, <3>4
  <2>2. 1 + 1 = 2
    OBVIOUS
  <2>3. /\ aaaNext \in Sids /\ aaaNext' = aaaNext + 1
        /\ aaa' = [aaa EXCEPT ![aaaNext] = [NoSession EXCEPT !.status = "listed", !.id = 1 + 1]]
        /\ Answer(i, AccessChallenge(StateAttr(aaaNext, 0), EdhocPacket(1 + 1, StartWire)))
    BY <1>2, <1>3 DEF mod_session_init
  <2>. QED  BY <1>s, <1>r, <2>1, <2>2, <2>3, AnswerGoes
<1>5. /\ PeerKeeps /\ EngineOf' /\ UNCHANGED <<pc, hs, eng, result>> /\ PacketsAbout' = PacketsAbout
      /\ \A a \in AnswersAbout' : a \in AnswersAbout \/ a = AnswerTo(p.sock, radiusRsp')
  BY HandlingFrame
<1>6. s \in Nat /\ p.sock \in 1..hs /\ hs \in 0..MaxHandshakes /\ MaxHandshakes \in Nat /\ s <= MaxSids /\ MaxSids \in Nat
      /\ s >= 1
  BY <1>1, <1>4, AaaAssumption, BenchAssumption DEF Sids, KeyTypes, PacketOf
<1>7. own2 \in Owners /\ own2[s] = p.sock /\ \A q \in Sids : q # s => own2[q] = own[q]
  BY <1>1, <1>4, <1>6, <1>o DEF Owners
<1>8. x \in KSessions /\ x.trip = 0 /\ x.round = 0 /\ x.in = NoIn /\ x.status = "listed"
  <2>1. NoCtx \in KCtxs
    BY DEF NoCtx, KCtxs
  <2>. QED  BY <1>x, <2>1, EmptyBytes DEF KSessions
<1>9. /\ aaa' \in [Sids -> KSessions] /\ aaa'[s] = x /\ \A q \in Sids : q # s => aaa'[q] = aaa[q]
  BY <1>1, <1>4, <1>8 DEF KeyTypes
<1>10. \A q \in Sids : q \in Nat /\ aaa[q] \in KSessions /\ (q >= s => aaa[q] = NoSession)
  BY <1>1, <1>s, AaaAssumption DEF KeyTypes, KeyInv, SessionOf, Sids
<1>11. ServerKeeps(own, own2)
  <2>1. aaaNext' \in Nat /\ aaaNext' >= aaaNext
    BY <1>s, <1>4, <1>6
  <2>2. ASSUME NEW q \in Sids, aaa[q].status = "success" PROVE aaa'[q] = aaa[q]
    <3>1. q # s
      BY <1>6, <1>10, <2>2 DEF NoSession
    <3>. QED  BY <1>9, <3>1
  <2>3. ASSUME NEW q \in Sids, q < aaaNext
        PROVE  /\ own2[q] = own[q] /\ aaa'[q].trip \in Nat /\ aaa'[q].trip >= aaa[q].trip
               /\ \A t \in Nat : t <= aaa[q].trip /\ Final(q, t)' => Final(q, t)
    <3>1. q # s
      BY <1>s, <1>6, <2>3
    <3>2. aaa'[q] = aaa[q] /\ own2[q] = own[q] /\ aaa[q].trip \in Nat
      BY <1>7, <1>9, <1>10, <3>1 DEF KSessions
    <3>. QED  BY <3>2 DEF Final
  <2>. QED  BY <2>1, <2>2, <2>3 DEF ServerKeeps
<1>12. ASSUME NEW q \in Sids
       PROVE  (aaa'[q] = aaa[q] /\ q < aaaNext) \/ SessionOf(q, own2)'
  <2>1. CASE q < s
    BY <1>s, <1>6, <1>9, <1>10, <2>1
  <2>2. CASE q = s
    <3>1. ~(q >= aaaNext') /\ own2[q] \in 1..hs'
      BY <1>4, <1>5, <1>6, <1>7, <2>2
    <3>2. Bytes(aaa'[q].in.data, PeerMsgs(own2[q])') /\ aaa'[q].round = 0
      BY <1>8, <1>9, <2>2, EmptyBytes DEF Bytes
    <3>. QED  BY <3>1, <3>2 DEF SessionOf
  <2>3. CASE q > s
    <3>1. q >= aaaNext' /\ aaa'[q] = NoSession
      BY <1>4, <1>6, <1>9, <1>10, <2>3
    <3>. QED  BY <3>1 DEF SessionOf
  <2>. QED  BY <1>6, <1>10, <2>1, <2>2, <2>3
<1>13. AnswerOf(AnswerTo(p.sock, rsp), own2)'
  <2>1. /\ rsp.result = "challenge" /\ rsp.state = [sid |-> s, trip |-> 0] /\ rsp.eap \in Packets
    BY <1>r, ControlBytes DEF AccessChallenge, StateAttr, EdhocPacket, Packets
  <2>2. StateOf(rsp.state, p.sock, own2)'
    <3>1. s < aaaNext' /\ 0 <= aaa'[s].trip
      BY <1>4, <1>6, <1>8, <1>9
    <3>. QED  BY <1>4, <1>7, <2>1, <3>1 DEF StateOf, KStates
  <2>3. ~Final(s, 0)'
    BY <1>8, <1>9 DEF Final
  <2>. QED  BY <1>5, <1>6, <2>1, <2>2, <2>3 DEF AnswerOf, AnswerTo
<1>14. KeyInv(own2)'
  BY <1>1, <1>4, <1>5, <1>11, <1>12, <1>13, KeyInvKept
<1>15. KeyTypes'
  BY <1>1, <1>4, <1>5, <1>6, <1>9 DEF KeyTypes
<1>16. PassMeansKey'
  BY <1>1, <1>5, <1>11, PassKept
<1>. QED  BY <1>7, <1>14, <1>15, <1>16 DEF PassInv, Owners

LEMMA HandleKeeps ==
    ASSUME PassInv, BenchInv, HandleRequest, UNCHANGED peerVars
    PROVE  PassInv'
<1>p. PICK p : p = request[running].packet
  OBVIOUS
<1>1. PICK own \in Owners : KeyInv(own)
  BY DEF PassInv
<1>2. PICK i \in DOMAIN radiusReq :
          mod_session_init(i) \/ RejectUnknown(i) \/ \E s \in Sids : AbortTrips(i, s) \/ mod_process(i, s)
  BY DEF HandleRequest, AaaNext
<1>3. Handling(own, p)
  <2>1. radiusReq # << >>
    BY <1>2
  <2>2. /\ running \in Keys /\ request[running].status = "running"
        /\ radiusReq = <<AccessRequest(p.state, p.eap)>>
    BY <1>p, <2>1 DEF BenchInv, ServerInv
  <2>3. PacketOf(p, own)
    BY <1>p, <1>1, <2>2, Members DEF KeyInv
  <2>. QED  BY <1>p, <1>1, <2>2, <2>3 DEF Handling, PassInv, HandleRequest
<1>4. CASE mod_session_init(i)
  BY <1>3, <1>4, OpenKeeps
<1>5. CASE RejectUnknown(i)
  BY <1>3, <1>5, UnknownKeeps
<1>6. ASSUME NEW s \in Sids, AbortTrips(i, s) PROVE PassInv'
  BY <1>3, <1>6, AbortKeeps
<1>7. ASSUME NEW s \in Sids, mod_process(i, s) PROVE PassInv'
  <2>1. CASE SendNextFragment(i, s)
    BY <1>3, <2>1, NextFragmentKeeps
  <2>2. CASE FailParse(i, s) \/ FailRound(i, s)
    BY <1>3, <2>2, FailKeeps
  <2>3. CASE AckFragment(i, s)
    BY <1>3, <2>3, AckKeeps
  <2>4. CASE ProcessMsg1(i, s) \/ ProcessClassic1(i, s)
    BY <1>3, <2>4, Msg1Keeps
  <2>5. CASE ProcessMsg3(i, s)
    BY <1>3, <2>5, Msg3Keeps
  <2>6. CASE SucceedClassic(i, s)
    BY <1>3, <2>6, ClassicKeeps
  <2>7. CASE Succeed(i, s)
    BY <1>3, <2>7, SucceedKeeps
  <2>. QED  BY <1>7, <2>1, <2>2, <2>3, <2>4, <2>5, <2>6, <2>7 DEF mod_process
<1>. QED  BY <1>2, <1>4, <1>5, <1>6, <1>7

-----------------------------------------------------------------------------
LEMMA InitKey ==
    ASSUME Init
    PROVE  PassInv
<1>1. /\ aaa = [s \in Sids |-> NoSession] /\ aaaNext = 1 /\ radiusRsp = NoRsp
      /\ udpIn = << >> /\ udpOut = << >> /\ request = [k \in Keys |-> NoRequest]
      /\ pc = "idle" /\ hs = 0 /\ eng = NewEngine(4, 0) /\ result = [h \in Handshakes |-> NoResult]
  BY DEF Init, ServerInit, AaaInit, RadiusInit
<1>2. IsSeq(udpIn) /\ IsSeq(udpOut) /\ DOMAIN udpIn = {} /\ DOMAIN udpOut = {}
  BY <1>1 DEF IsSeq
<1>3. eng \in Engines
  <2>c. PICK c : c = edhoc4_init_initiator(0)
    OBVIOUS
  <2>1. c \in KCtxs
    BY <2>c DEF edhoc4_init_initiator, NoCtx, KCtxs
  <2>2. eng = [method |-> 4, step |-> 0, in |-> NoIn, out |-> NoOut, ctx |-> c]
    BY <1>1, <2>c DEF NewEngine
  <2>. QED  BY <2>1, <2>2, EmptyBytes DEF Engines
<1>4. NoSession \in KSessions
  <2>1. NoCtx \in KCtxs
    BY DEF NoCtx, KCtxs
  <2>. QED  BY <2>1, EmptyBytes DEF NoSession, KSessions
<1>5. KeyTypes
  BY <1>1, <1>2, <1>3, <1>4, AaaAssumption, BenchAssumption DEF KeyTypes
<1>6. PassMeansKey
  BY <1>1 DEF PassMeansKey, NoResult
<1>7. PacketsAbout = {} /\ AnswersAbout = {}
  BY <1>1, <1>2 DEF PacketsAbout, AnswersAbout, Kept, Answered, NoRequest
<1>8. \A own : KeyInv(own)
  <2>1. \A s \in Sids : s >= aaaNext
    BY <1>1, AaaAssumption DEF Sids
  <2>. QED  BY <1>1, <1>7, <2>1 DEF KeyInv, EngineOf, SessionOf
<1>9. [s \in Sids |-> 0] \in Owners
  BY BenchAssumption DEF Owners
<1>. QED  BY <1>5, <1>6, <1>8, <1>9 DEF PassInv

LEMMA NextKey ==
    ASSUME PassInv, BenchInv, [Next]_vars
    PROVE  PassInv'
<1>1. CASE PeerStep
  <2>1. CASE \E method \in Methods : StartHandshake(method)
    BY <2>1, StartKeeps
  <2>2. CASE Send \/ Unreachable \/ Timeout
    BY <2>2, QuietSteps
  <2>3. CASE GiveUp \/ ReadVerdict \/ ReadBadChallenge
    BY <2>3, EndKeeps
  <2>4. CASE ReadChallenge
    BY <2>4, ChallengeReadKeeps
  <2>. QED  BY <1>1, <2>1, <2>2, <2>3, <2>4 DEF PeerStep
<1>2. CASE ServerStep
  <2>1. ServerNext /\ UNCHANGED peerVars
    BY <1>2 DEF ServerStep
  <2>2. CASE ReceiveNew \/ ReceiveDup
    BY <2>1, <2>2, ReceiveKeeps
  <2>3. CASE HandleRequest
    BY <2>1, <2>3, HandleKeeps
  <2>4. CASE request_finish
    BY <2>1, <2>4, FinishKeeps
  <2>5. CASE \E k \in Keys : RunRequest(k) \/ SendDelayed(k)
    BY <2>1, <2>5, RunKeeps, SendDelayedKeeps
  <2>. QED  BY <2>1, <2>2, <2>3, <2>4, <2>5 DEF ServerNext
<1>3. CASE DropStep
  BY <1>3, QuietSteps DEF DropStep
<1>4. CASE FaultStep
  <2>1. CASE Timeout \/ LoseRequest \/ LoseReply
    BY <2>1, QuietSteps
  <2>2. CASE \E k \in Keys : k = key /\ Cleanup(k) /\ UNCHANGED <<pc, hs, engVars, tries, result, drops>>
    BY <2>2, CleanupKeeps
  <2>. QED  BY <1>4, <2>1, <2>2 DEF FaultStep
<1>5. CASE UNCHANGED vars
  BY <1>5, QuietSteps
<1>. QED  BY <1>1, <1>2, <1>3, <1>4, <1>5 DEF Next

(* Every request, answer and session is traced to the handshake it belongs to:
   the inductive invariant. *)
THEOREM PassInductive == Spec => []PassInv
<1>1. Init => PassInv
  BY InitKey
<1>2. PassInv /\ BenchInv /\ [Next]_vars => PassInv'
  BY NextKey
<1>. QED  BY <1>1, <1>2, BenchInductive, PTL DEF Spec

(* run_handshake counts a handshake as passed only if both ends have completed it
   and exported one key, although the peer matches neither identifier nor
   authenticator of the reply it reads. *)
THEOREM PassMeansKeyAlways == Spec => []PassMeansKey
<1>1. PassInv => PassMeansKey
  BY DEF PassInv
<1>. QED  BY <1>1, PassInductive, PTL
=============================================================================
