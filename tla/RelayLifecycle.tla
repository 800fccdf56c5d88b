--------------------------- MODULE RelayLifecycle ---------------------------
(***************************************************************************)
(* Starting and stopping the EAP relay of the UPF (eap-relay.c): the UPF's *)
(* main thread opens the socket and creates the relay thread, and on its   *)
(* way out clears g_running, closes the socket and joins the thread.  The  *)
(* relay thread meanwhile waits in recvfrom, exchanges with the DN-AAA or  *)
(* answers.  What a request asks is in UpfEapRelay; here it only has a     *)
(* fate.                                                                   *)
(*                                                                         *)
(* Closing a descriptor does not wake a thread that already waits in       *)
(* recvfrom: the call keeps the socket, and its port, alive until it       *)
(* returns.                                                                *)
(***************************************************************************)
EXTENDS Integers, Sequences, Functions

CONSTANTS
    Requests,       \* the requests SMFs send
    NoRequest       \* the thread serves none

ASSUME RelayAssumption == NoRequest \notin Requests

VARIABLES
    main,           \* how far the UPF's main thread is
    gRunning,       \* g_running
    gSock,          \* g_sock is a descriptor (or -1)
    open,           \* that descriptor is open
    thread,         \* where the relay thread is
    arg,            \* g_sock as the thread's next call read it
    cur,            \* the request the thread serves
    queue,          \* datagrams in the socket
    fate            \* fate[r]: what became of request r

vars == <<main, gRunning, gSock, open, thread, arg, cur, queue, fate>>

Init ==
    /\ main = "down" /\ thread = "none"
    /\ gRunning = FALSE /\ gSock = FALSE /\ open = FALSE /\ arg = FALSE
    /\ cur = NoRequest /\ queue = << >>
    /\ fate = [r \in Requests |-> "unsent"]

(* The socket exists while its descriptor or a call in it does. *)
Alive(isOpen, at) == isOpen \/ at = "recv"

(* What the socket's end does to the datagrams still in it. *)
Discard(f) == [r \in Requests |-> IF r \in Range(queue) THEN "lost" ELSE f[r]]

-----------------------------------------------------------------------------
(* The main thread *)

(* upf_eap_relay_start: bound, running, thread created. *)
Start ==
    /\ main = "down"
    /\ main' = "up" /\ thread' = "loop"
    /\ gRunning' = TRUE /\ gSock' = TRUE /\ open' = TRUE
    /\ UNCHANGED <<arg, cur, queue, fate>>

(* socket, bind or pthread_create fails: undone, and the UPF gives up. *)
StartFails ==
    /\ main = "down"
    /\ main' = "failed"
    /\ UNCHANGED <<gRunning, gSock, open, thread, arg, cur, queue, fate>>

(* upf_eap_relay_stop *)
StopRunning ==
    /\ main = "up"
    /\ gRunning' = FALSE
    /\ main' = "closing"
    /\ UNCHANGED <<gSock, open, thread, arg, cur, queue, fate>>

StopClose ==
    /\ main = "closing"
    /\ open' = FALSE
    /\ main' = "closed"
    /\ IF Alive(FALSE, thread)
       THEN UNCHANGED <<queue, fate>>
       ELSE queue' = << >> /\ fate' = Discard(fate)
    /\ UNCHANGED <<gRunning, gSock, thread, arg, cur>>

StopClear ==
    /\ main = "closed"
    /\ gSock' = FALSE
    /\ main' = "joining"
    /\ UNCHANGED <<gRunning, open, thread, arg, cur, queue, fate>>

(* Mutant: the thread is not waited for. *)
StopDetached ==
    /\ main = "joining"
    /\ main' = "stopped"
    /\ UNCHANGED <<gRunning, gSock, open, thread, arg, cur, queue, fate>>

StopJoin ==
    /\ main = "joining"
    /\ thread = "done"
    /\ main' = "stopped"
    /\ UNCHANGED <<gRunning, gSock, open, thread, arg, cur, queue, fate>>

-----------------------------------------------------------------------------
(* The relay thread: relay_main *)

(* while (g_running), and g_sock read for the call. *)
ThreadLoop ==
    /\ thread = "loop"
    /\ IF gRunning THEN thread' = "call" /\ arg' = gSock
                   ELSE thread' = "done" /\ UNCHANGED arg
    /\ UNCHANGED <<main, gRunning, gSock, open, cur, queue, fate>>

(* Mutant: on an error recvfrom is called again without a look at g_running. *)
ThreadCallAgain ==
    /\ thread = "call"
    /\ thread' = IF arg /\ open THEN "recv" ELSE "call"
    /\ UNCHANGED <<main, gRunning, gSock, open, arg, cur, queue, fate>>

(* recvfrom: on a closed descriptor, or -1, an error. *)
ThreadCall ==
    /\ thread = "call"
    /\ thread' = IF arg /\ open THEN "recv" ELSE IF gRunning THEN "loop" ELSE "done"
    /\ UNCHANGED <<main, gRunning, gSock, open, arg, cur, queue, fate>>

(* recvfrom returns a datagram; the last hold on a closed socket is gone. *)
ThreadReceive ==
    /\ thread = "recv"
    /\ queue # << >>
    /\ cur' = Head(queue)
    /\ thread' = "radius"
    /\ IF Alive(open, "radius")
       THEN queue' = Tail(queue) /\ fate' = [fate EXCEPT ![cur'] = "taken"]
       ELSE queue' = << >> /\ fate' = [Discard(fate) EXCEPT ![cur'] = "taken"]
    /\ UNCHANGED <<main, gRunning, gSock, open, arg>>

(* Mutant: no answer for a request whose exchange failed. *)
ThreadExchangeSilent ==
    /\ thread = "radius"
    /\ \/ thread' = "reply" /\ UNCHANGED <<cur, fate>>
       \/ thread' = "loop" /\ cur' = NoRequest /\ fate' = [fate EXCEPT ![cur] = "unanswered"]
    /\ UNCHANGED <<main, gRunning, gSock, open, arg, queue>>

(* process_req: the DN-AAA answers, or two seconds pass; a response either way. *)
ThreadExchange ==
    /\ thread = "radius"
    /\ thread' = "reply"
    /\ UNCHANGED <<main, gRunning, gSock, open, arg, cur, queue, fate>>

(* sendto(g_sock): its result is not looked at. *)
ThreadReply ==
    /\ thread = "reply"
    /\ fate' = [fate EXCEPT ![cur] = IF gSock /\ open THEN "answered" ELSE "unanswered"]
    /\ cur' = NoRequest
    /\ thread' = "loop"
    /\ UNCHANGED <<main, gRunning, gSock, open, arg, queue>>

-----------------------------------------------------------------------------
(* An SMF sends a request: into the socket, or refused when there is none. *)
Send(r) ==
    /\ fate[r] = "unsent"
    /\ IF Alive(open, thread)
       THEN queue' = Append(queue, r) /\ fate' = [fate EXCEPT ![r] = "queued"]
       ELSE fate' = [fate EXCEPT ![r] = "refused"] /\ UNCHANGED queue
    /\ UNCHANGED <<main, gRunning, gSock, open, thread, arg, cur>>

Stop == StopRunning \/ StopClose \/ StopClear \/ StopJoin

Thread ==
    ThreadLoop \/ ThreadCall \/ ThreadReceive \/ ThreadExchange \/ ThreadReply

Next == Start \/ StartFails \/ Stop \/ Thread \/ \E r \in Requests : Send(r)

(* Both threads run; a stop once begun goes on.  Nobody has to stop the UPF,
   and no SMF has to send. *)
Fairness ==
    /\ WF_vars(Thread)
    /\ WF_vars(StopClose) /\ WF_vars(StopClear) /\ WF_vars(StopJoin)

Spec == Init /\ [][Next]_vars /\ Fairness

-----------------------------------------------------------------------------
Fates == {"unsent", "queued", "taken", "answered", "unanswered", "lost", "refused"}

(* Every variable keeps its type; the thread has a request in hand exactly
   between recvfrom and sendto. *)
TypeOK ==
    /\ main \in {"down", "failed", "up", "closing", "closed", "joining", "stopped"}
    /\ thread \in {"none", "loop", "call", "recv", "radius", "reply", "done"}
    /\ {gRunning, gSock, open, arg} \subseteq BOOLEAN
    /\ cur \in IF thread \in {"radius", "reply"} THEN Requests ELSE {NoRequest}
    /\ queue \in Seq(Requests)
    /\ fate \in [Requests -> Fates]

(* When upf_eap_relay_stop has returned nothing of the relay is left: no
   thread, no exchange under way, no request that still waits for an answer. *)
StopIsClean ==
    main = "stopped" =>
        /\ thread = "done" /\ ~gRunning /\ ~open /\ ~gSock
        /\ queue = << >>
        /\ \A r \in Requests : fate[r] \notin {"queued", "taken"}

(* A request goes without an answer only because of a stop: until it begins,
   every failure of the exchange is answered with RESULT_ERROR. *)
LostOnlyByStop ==
    (\E r \in Requests : fate[r] \in {"unanswered", "lost"}) => ~gRunning /\ main # "up"

(* While the relay runs, a request in its socket is answered in the end. *)
Served ==
    \A r \in Requests : fate[r] = "queued" ~> fate[r] = "answered" \/ main # "up"

(* A stop returns unless the thread is caught waiting in recvfrom; then one
   more datagram, itself never answered, sets it free. *)
JoinReturns == main = "joining" /\ (thread # "recv" \/ queue # << >>) ~> main = "stopped"

(* "lifecycle UPF start/stop relay": a stop that has begun comes to its end. *)
StopReturns == main = "closing" ~> main = "stopped"
=============================================================================
