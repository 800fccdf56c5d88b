------------------------- MODULE RelayLifecycleProofs -------------------------
(***************************************************************************)
(* Proofs about RelayLifecycle, for any set of requests: the types, and    *)
(* what a stop leaves behind.                                              *)
(***************************************************************************)
EXTENDS RelayLifecycle, SequenceTheorems, TLAPS

Down == {"down", "failed"}

(* Where the main thread is decides what the relay thread may still see. *)
MainInv ==
    /\ thread = "none" <=> main \in Down
    /\ main \in Down => gRunning = FALSE /\ gSock = FALSE /\ open = FALSE
    /\ main = "up" => gRunning = TRUE /\ gSock = TRUE /\ open = TRUE
    /\ main \notin {"down", "failed", "up"} => gRunning = FALSE
    /\ main = "closing" => gSock = TRUE /\ open = TRUE
    /\ main \in {"closed", "joining", "stopped"} => open = FALSE
    /\ main \in {"joining", "stopped"} => gSock = FALSE
    /\ main = "stopped" => thread = "done"

(* A socket that is gone holds nothing. *)
SocketInv == ~Alive(open, thread) => queue = << >>

(* A request said to be queued is in the socket, one said to be taken is with
   the thread, and only a stop has cost any its answer. *)
FateInv ==
    \A r \in Requests :
        /\ fate[r] = "queued" => r \in Range(queue)
        /\ fate[r] = "taken" => cur = r
        /\ fate[r] \in {"unanswered", "lost"} => main \in {"closed", "joining", "stopped"}

IInv == TypeOK /\ MainInv /\ SocketInv /\ FateInv

-----------------------------------------------------------------------------
(* Nothing has been sent, nothing runs. *)
LEMMA InitEstablishes == Init => IInv
<1> SUFFICES ASSUME Init PROVE IInv
  OBVIOUS
<1>1. TypeOK
  BY EmptySeq DEF Init, TypeOK, Fates
<1>2. MainInv
  BY DEF Init, MainInv, Down
<1>3. SocketInv
  BY DEF Init, SocketInv
<1>4. FateInv
  BY DEF Init, FateInv
<1>5. QED
  BY <1>1, <1>2, <1>3, <1>4 DEF IInv

(* Taking the first datagram leaves the others. *)
LEMMA RangeTail ==
    ASSUME NEW S, NEW q \in Seq(S), q # << >>
    PROVE  /\ Head(q) \in S /\ Tail(q) \in Seq(S)
           /\ \A x \in Range(q) : x = Head(q) \/ x \in Range(Tail(q))
<1>1. Head(q) = q[1] /\ Head(q) \in S /\ Tail(q) \in Seq(S)
  OBVIOUS
<1>2. ASSUME NEW i \in DOMAIN q, i # 1 PROVE q[i] \in Range(Tail(q))
  <2>1. i - 1 \in DOMAIN Tail(q) /\ Tail(q)[i - 1] = q[i]
    BY <1>2
  <2>2. QED
    BY <2>1 DEF Range
<1>3. QED
  BY <1>1, <1>2 DEF Range

(* A datagram that arrives joins those that wait. *)
LEMMA RangeAppend ==
    ASSUME NEW S, NEW q \in Seq(S), NEW e \in S
    PROVE  /\ Append(q, e) \in Seq(S)
           /\ e \in Range(Append(q, e))
           /\ \A x \in Range(q) : x \in Range(Append(q, e))
<1>1. Append(q, e) \in Seq(S) /\ Append(q, e)[Len(q) + 1] = e
      /\ Len(q) + 1 \in DOMAIN Append(q, e)
  OBVIOUS
<1>2. ASSUME NEW i \in DOMAIN q PROVE q[i] = Append(q, e)[i] /\ i \in DOMAIN Append(q, e)
  OBVIOUS
<1>3. QED
  BY <1>1, <1>2 DEF Range

-----------------------------------------------------------------------------
(* The main thread's steps. *)
LEMMA MainStep ==
    ASSUME IInv, Start \/ StartFails \/ StopRunning \/ StopClear \/ StopJoin PROVE IInv'
<1>1. TypeOK'
  BY DEF IInv, TypeOK, MainInv, Down, Start, StartFails, StopRunning, StopClear, StopJoin
<1>2. MainInv'
  BY DEF IInv, TypeOK, MainInv, Down, Start, StartFails, StopRunning, StopClear, StopJoin
<1>3. SocketInv'
  BY DEF IInv, SocketInv, MainInv, Down, Alive, Start, StartFails, StopRunning, StopClear, StopJoin
<1>4. FateInv'
  BY DEF IInv, FateInv, Start, StartFails, StopRunning, StopClear, StopJoin
<1>5. QED
  BY <1>1, <1>2, <1>3, <1>4 DEF IInv

(* What Discard does to a fate. *)
LEMMA Discarded ==
    ASSUME TypeOK
    PROVE  /\ Discard(fate) \in [Requests -> Fates]
           /\ \A r \in Requests : Discard(fate)[r] = IF r \in Range(queue) THEN "lost" ELSE fate[r]
  BY DEF TypeOK, Discard, Fates

(* close(g_sock) *)
LEMMA CloseStep ==
    ASSUME IInv, StopClose PROVE IInv'
<1>1. TypeOK'
  <2>1. queue' \in Seq(Requests) /\ fate' \in [Requests -> Fates]
    BY Discarded, EmptySeq DEF IInv, TypeOK, StopClose
  <2>2. QED
    BY <2>1 DEF IInv, TypeOK, StopClose
<1>2. MainInv'
  BY DEF IInv, MainInv, Down, StopClose
<1>3. SocketInv'
  BY DEF IInv, SocketInv, StopClose, Alive
<1>4. FateInv'
  <2>1. CASE Alive(FALSE, thread)
    BY <2>1 DEF IInv, FateInv, StopClose
  <2>2. CASE ~Alive(FALSE, thread)
    BY <2>2, Discarded DEF IInv, FateInv, StopClose
  <2>3. QED
    BY <2>1, <2>2
<1>5. QED
  BY <1>1, <1>2, <1>3, <1>4 DEF IInv

(* The thread's steps that touch no request. *)
LEMMA QuietThreadStep ==
    ASSUME IInv, ThreadLoop \/ ThreadCall \/ ThreadExchange PROVE IInv'
<1>1. TypeOK'
  BY DEF IInv, TypeOK, ThreadLoop, ThreadCall, ThreadExchange
<1>2. MainInv'
  BY DEF IInv, TypeOK, MainInv, Down, ThreadLoop, ThreadCall, ThreadExchange
<1>3. SocketInv'
  BY DEF IInv, SocketInv, Alive, ThreadLoop, ThreadCall, ThreadExchange
<1>4. FateInv'
  BY DEF IInv, FateInv, ThreadLoop, ThreadCall, ThreadExchange
<1>5. QED
  BY <1>1, <1>2, <1>3, <1>4 DEF IInv

(* recvfrom returns; a closed socket ends here. *)
LEMMA ReceiveStep ==
    ASSUME IInv, ThreadReceive PROVE IInv'
<1> DEFINE h == Head(queue)
<1>1. /\ TypeOK /\ thread = "recv" /\ queue # << >> /\ queue \in Seq(Requests)
      /\ cur = NoRequest /\ cur' = h /\ thread' = "radius"
      /\ main' = main /\ gRunning' = gRunning /\ gSock' = gSock /\ open' = open /\ arg' = arg
      /\ fate \in [Requests -> Fates]
  BY DEF IInv, TypeOK, ThreadReceive
<1>2. /\ h \in Requests /\ Tail(queue) \in Seq(Requests)
      /\ \A x \in Range(queue) : x = h \/ x \in Range(Tail(queue))
  BY <1>1, RangeTail
<1> HIDE DEF h
<1>3. IF open THEN queue' = Tail(queue) /\ fate' = [fate EXCEPT ![h] = "taken"]
      ELSE queue' = << >> /\ fate' = [Discard(fate) EXCEPT ![h] = "taken"]
  BY <1>1 DEF ThreadReceive, Alive, h
<1>4. TypeOK'
  <2>1. queue' \in Seq(Requests) /\ fate' \in [Requests -> Fates]
    BY <1>1, <1>2, <1>3, Discarded, EmptySeq DEF Fates
  <2>2. QED
    BY <1>1, <1>2, <2>1 DEF TypeOK
<1>5. MainInv'
  BY <1>1 DEF IInv, MainInv, Down
<1>6. SocketInv'
  BY <1>1, <1>3 DEF SocketInv, Alive
<1>7. FateInv'
  <2> SUFFICES ASSUME NEW r \in Requests
               PROVE  /\ fate'[r] = "queued" => r \in Range(queue')
                      /\ fate'[r] = "taken" => cur' = r
                      /\ fate'[r] \in {"unanswered", "lost"} =>
                             main' \in {"closed", "joining", "stopped"}
    BY DEF FateInv
  <2>0. fate[r] # "taken"
    BY <1>1, RelayAssumption DEF IInv, FateInv
  <2>1. CASE r = h
    BY <2>1, <1>1, <1>2, <1>3, Discarded
  <2>2. CASE r # h /\ open
    <3>1. fate'[r] = fate[r] /\ queue' = Tail(queue)
      BY <2>2, <1>1, <1>2, <1>3
    <3>2. QED
      BY <3>1, <2>0, <2>2, <1>1, <1>2 DEF IInv, FateInv
  <2>3. CASE r # h /\ ~open
    <3>1. fate'[r] = IF r \in Range(queue) THEN "lost" ELSE fate[r]
      BY <2>3, <1>1, <1>2, <1>3, Discarded
    <3>2. main \in {"closed", "joining", "stopped"}
      BY <2>3, <1>1 DEF IInv, TypeOK, MainInv, Down
    <3>3. QED
      BY <3>1, <3>2, <2>0, <1>1 DEF IInv, FateInv
  <2>4. QED
    BY <2>1, <2>2, <2>3
<1>8. QED
  BY <1>4, <1>5, <1>6, <1>7 DEF IInv

(* sendto: answered, unless the stop has come between. *)
LEMMA ReplyStep ==
    ASSUME IInv, ThreadReply PROVE IInv'
<1>1. /\ thread = "reply" /\ cur \in Requests /\ cur' = NoRequest /\ thread' = "loop"
      /\ queue' = queue /\ main' = main /\ open' = open /\ arg' = arg
      /\ gRunning' = gRunning /\ gSock' = gSock
      /\ fate \in [Requests -> Fates]
      /\ fate' = [fate EXCEPT ![cur] = IF gSock /\ open THEN "answered" ELSE "unanswered"]
  BY DEF IInv, TypeOK, ThreadReply
<1>2. TypeOK'
  BY <1>1 DEF IInv, TypeOK, Fates
<1>3. MainInv'
  BY <1>1 DEF IInv, MainInv, Down
<1>4. SocketInv'
  BY <1>1 DEF IInv, SocketInv, Alive
<1>5. ~(gSock /\ open) => main \in {"closed", "joining", "stopped"}
  BY <1>1 DEF IInv, TypeOK, MainInv, Down
<1>6. FateInv'
  BY <1>1, <1>5 DEF IInv, FateInv
<1>7. QED
  BY <1>2, <1>3, <1>4, <1>6 DEF IInv

(* An SMF's datagram goes into the socket or is refused. *)
LEMMA SendStep ==
    ASSUME IInv, NEW q \in Requests, Send(q) PROVE IInv'
<1>1. /\ main' = main /\ thread' = thread /\ open' = open /\ arg' = arg /\ cur' = cur
      /\ gRunning' = gRunning /\ gSock' = gSock
      /\ fate \in [Requests -> Fates] /\ queue \in Seq(Requests)
      /\ IF Alive(open, thread)
         THEN queue' = Append(queue, q) /\ fate' = [fate EXCEPT ![q] = "queued"]
         ELSE fate' = [fate EXCEPT ![q] = "refused"] /\ queue' = queue
  BY DEF IInv, TypeOK, Send
<1>2. /\ Append(queue, q) \in Seq(Requests)
      /\ q \in Range(Append(queue, q))
      /\ \A x \in Range(queue) : x \in Range(Append(queue, q))
  BY <1>1, RangeAppend
<1>3. TypeOK'
  BY <1>1, <1>2 DEF IInv, TypeOK, Fates
<1>4. MainInv'
  BY <1>1 DEF IInv, MainInv, Down
<1>5. SocketInv'
  BY <1>1 DEF IInv, SocketInv, Alive
<1>6. FateInv'
  BY <1>1, <1>2 DEF IInv, FateInv
<1>7. QED
  BY <1>3, <1>4, <1>5, <1>6 DEF IInv

(* No step of either thread, and no SMF, breaks the invariant. *)
LEMMA StepPreserves == IInv /\ [Next]_vars => IInv'
<1> SUFFICES ASSUME IInv, [Next]_vars PROVE IInv'
  OBVIOUS
<1>1. CASE Start \/ StartFails \/ StopRunning \/ StopClear \/ StopJoin
  BY <1>1, MainStep
<1>2. CASE StopClose
  BY <1>2, CloseStep
<1>3. CASE ThreadLoop \/ ThreadCall \/ ThreadExchange
  BY <1>3, QuietThreadStep
<1>4. CASE ThreadReceive
  BY <1>4, ReceiveStep
<1>5. CASE ThreadReply
  BY <1>5, ReplyStep
<1>6. ASSUME NEW q \in Requests, Send(q) PROVE IInv'
  BY <1>6, SendStep
<1>7. CASE UNCHANGED vars
  BY <1>7 DEF vars, IInv, TypeOK, MainInv, Down, SocketInv, Alive, FateInv
<1>8. QED
  BY <1>1, <1>2, <1>3, <1>4, <1>5, <1>6, <1>7 DEF Next, Stop, Thread

(* IInv holds throughout. *)
THEOREM Inductive == Spec => []IInv
  BY InitEstablishes, StepPreserves, PTL DEF Spec

(* The types hold, the request in the thread's hand included. *)
THEOREM TypeCorrect == Spec => []TypeOK
<1>1. IInv => TypeOK
  BY DEF IInv
<1>2. QED
  BY <1>1, Inductive, PTL

(* upf_eap_relay_stop never returns with a thread, a socket or a pending
   request left, wherever it met the relay thread. *)
THEOREM StopIsCleanAlways == Spec => []StopIsClean
<1>1. ASSUME IInv PROVE StopIsClean
  <2> SUFFICES ASSUME main = "stopped"
               PROVE  /\ thread = "done" /\ ~gRunning /\ ~open /\ ~gSock
                      /\ queue = << >>
                      /\ \A r \in Requests : fate[r] \notin {"queued", "taken"}
    BY DEF StopIsClean
  <2>1. thread = "done" /\ gRunning = FALSE /\ open = FALSE /\ gSock = FALSE
    BY <1>1 DEF IInv, MainInv, Down
  <2>2. queue = << >>
    BY <1>1, <2>1 DEF IInv, SocketInv, Alive
  <2>3. Range(queue) = {}
    BY <2>2 DEF Range
  <2>4. cur = NoRequest
    BY <1>1, <2>1 DEF IInv, TypeOK
  <2>5. \A r \in Requests : fate[r] \notin {"queued", "taken"}
    BY <1>1, <2>3, <2>4, RelayAssumption DEF IInv, FateInv
  <2>6. QED
    BY <2>1, <2>2, <2>5
<1>2. QED
  BY <1>1, Inductive, PTL

(* Until a stop begins no request loses its answer, however the exchanges
   with the DN-AAA go. *)
THEOREM LostOnlyByStopAlways == Spec => []LostOnlyByStop
<1>1. ASSUME IInv PROVE LostOnlyByStop
  <2> SUFFICES ASSUME NEW r \in Requests, fate[r] \in {"unanswered", "lost"}
               PROVE  ~gRunning /\ main # "up"
    BY DEF LostOnlyByStop
  <2>1. main \in {"closed", "joining", "stopped"}
    BY <1>1 DEF IInv, FateInv
  <2>2. QED
    BY <1>1, <2>1 DEF IInv, MainInv
<1>2. QED
  BY <1>1, Inductive, PTL
===============================================================================
