---------------------------- MODULE PduSessions ----------------------------
(***************************************************************************)
(* PDU session management of the UE (UERANSIM NasSm: establishment,        *)
(* release, their transactions and timers) against the AMF and the SMF of  *)
(* Open5GS.  A secondary authentication lives inside one PDU session; this *)
(* module is about the session itself, which is named only by its identity *)
(* (PSI) and asked for under a transaction identity (PTI), and both are    *)
(* handed out again, lowest first, as soon as they are free.               *)
(*                                                                         *)
(* The UE is one thread: every handler is one step.  The N1 path keeps the *)
(* order of messages in each direction and may lose one.  The UE stays     *)
(* registered and CM-CONNECTED.                                            *)
(***************************************************************************)
EXTENDS Integers, Sequences

CONSTANTS
    MaxPsi,           \* the last PDU session identity: 15 in the code
    MaxPti,           \* the last transaction identity: 254 in the code
    Dnns,             \* the DNNs of the console's ps-establish
    DefaultSessions,  \* the DNNs of config->defaultSessions, a sequence
    MaxExpiry,        \* timer expiries until a procedure is given up: 5 in the code
    MaxSessions,      \* bound: sessions asked for, a reactivation included
    MaxReleases,      \* bound: releases asked for at the console
    MaxSmfReleases,   \* bound: releases the SMF starts
    MaxFaults,        \* bound: N1 messages lost and requests of the AMF's timed out
    MaxEvents         \* bound: releases and faults together

ASSUME Bounds ==
    /\ {MaxPsi, MaxPti, MaxExpiry} \subseteq Nat \ {0}
    /\ {MaxSessions, MaxReleases, MaxSmfReleases, MaxFaults,
        MaxEvents} \subseteq Nat
    /\ DefaultSessions \in Seq(Dnns)

VARIABLES
    ps,      \* m_pduSessions: state, apn; inst counts the requests for it (history)
    pt,      \* m_procedureTransactions: stored message, psi, expiries; inst (history)
    ul, dl,  \* the N1 path, UE to network and back
    amf,     \* the AMF's session of each PSI
    smf,     \* the SMF's session of each PSI
    smfUp,   \* no assertion of the SMF has failed
    spent    \* what is used up of the bounds

Psis == 1..MaxPsi
Ptis == 1..MaxPti

vars == <<ps, pt, ul, dl, amf, smf, smfUp, spent>>

NoSession == [state |-> "INACTIVE", dnn |-> "none", inst |-> 0]
NoTransaction == [msg |-> "none", psi |-> 0, expiries |-> 0, inst |-> 0]

Message(type, psi, pti) == [type |-> type, psi |-> psi, pti |-> pti]

(* sm_context.ref, the parts of a release that have come, the last 5GSM     *)
(* message, and how many requests to the SMF will have no answer.           *)
NoAmf == [ref |-> FALSE, released |-> {}, last |-> Message("none", 0, 0), waiting |-> 0]

(* Who asks the PCF to delete the policy: the UE, the AMF because of a      *)
(* duplicate, the SMF itself; "lost" is a deletion of the UE or the AMF     *)
(* whose stream has had another answer.                                     *)
Kinds == {"ue", "amf", "smf", "lost"}

(* active is smf_gsm_state_operational, deleting wait_pfcp_deletion,        *)
(* releasing wait_5gc_n1_n2_release, leaving 5gc_session_will_deregister;   *)
(* asked counts the PCF's open answers, by is whose release is under way,   *)
(* and open says that the SMF is to reply on its stream.                    *)
NoSmf == [state |-> "none", pti |-> 0, asked |-> [k \in Kinds |-> 0], by |-> "none",
          open |-> FALSE, released |-> {}]

Init ==
    /\ ps = [i \in Psis |-> NoSession]
    /\ pt = [i \in Ptis |-> NoTransaction]
    /\ ul = <<>> /\ dl = <<>>
    /\ amf = [i \in Psis |-> NoAmf]
    /\ smf = [i \in Psis |-> NoSmf]
    /\ smfUp = TRUE
    /\ spent = [sessions |-> 0, releases |-> 0, smfReleases |-> 0, faults |-> 0,
                taken |-> FALSE]

Spend(what, max) ==
    /\ spent[what] < max
    /\ spent.releases + spent.smfReleases + spent.faults < MaxEvents
    /\ spent' = [spent EXCEPT ![what] = @ + 1]

-----------------------------------------------------------------------------
(* The UE.  A handler is an operator on its state: sessions, transactions, *)
(* the uplink it writes to, the sessions it has asked for, and whether a   *)
(* Release Reject has taken the transaction of an establishment (history). *)
Ue == [ps |-> ps, pt |-> pt, ul |-> ul, born |-> spent.sessions, taken |-> spent.taken]

Become(u) ==
    /\ ps' = u.ps /\ pt' = u.pt /\ ul' = u.ul

Received(u) ==
    /\ Become(u)
    /\ spent' = [spent EXCEPT !.sessions = u.born, !.taken = u.taken]
    /\ dl' = Tail(dl)
    /\ UNCHANGED <<amf, smf, smfUp>>

sendSmMessage(u, m) == [u EXCEPT !.ul = Append(@, m)]

sendSmCause(u, m) == sendSmMessage(u, Message("status", m.psi, m.pti))

freeProcedureTransactionId(u, pti) == [u EXCEPT !.pt[pti] = NoTransaction]

freePduSessionId(u, psi) == [u EXCEPT !.ps[psi].state = "INACTIVE"]

localReleaseSession(u, psi) == freePduSessionId(u, psi)

FreePsis(u) == {i \in Psis : u.ps[i].state = "INACTIVE"}
FreePtis(u) == {i \in Ptis : u.pt[i].msg = "none"}

Lowest(S) == CHOOSE i \in S : \A j \in S : i <= j

(* A transaction: its message is kept for retransmission, its timer runs. *)
StartTransaction(u, type, psi) ==
    LET pti == Lowest(FreePtis(u))
    IN  sendSmMessage([u EXCEPT !.pt[pti] = [msg |-> type, psi |-> psi, expiries |-> 0,
                                             inst |-> u.ps[psi].inst]],
                      Message(type, psi, pti))

sendEstablishmentRequest(u, dnn) ==
    IF FreePsis(u) = {} \/ FreePtis(u) = {}
    THEN u
    ELSE LET psi == Lowest(FreePsis(u))
         IN  StartTransaction(
                 [u EXCEPT !.ps[psi] = [state |-> "ACTIVE_PENDING", dnn |-> dnn,
                                        inst |-> u.born + 1],
                           !.born = @ + 1],
                 "establish", psi)

sendReleaseRequest(u, psi) ==
    IF u.ps[psi].state # "ACTIVE" \/ FreePtis(u) = {}
    THEN u
    ELSE StartTransaction(u, "release", psi)

anySessionMatches(u, dnn) ==
    \E i \in Psis : u.ps[i].state # "INACTIVE" /\ u.ps[i].dnn = dnn

EstablishRequired(u, dnn) ==
    IF anySessionMatches(u, dnn) THEN u ELSE sendEstablishmentRequest(u, dnn)

establishRequiredSessions(u) ==
    LET after[n \in 0..Len(DefaultSessions)] ==
            IF n = 0 THEN u ELSE EstablishRequired(after[n - 1], DefaultSessions[n])
    IN  after[Len(DefaultSessions)]

(* As abortProcedureByPti, the session freed and its transaction kept. *)
AbortKeepsTransaction(u, pti) ==
    IF u.pt[pti].msg = "none" THEN u ELSE freePduSessionId(u, u.pt[pti].psi)

(* As abortProcedureByPti, the transaction freed and its session kept. *)
AbortKeepsSession(u, pti) ==
    IF u.pt[pti].msg = "none" THEN u ELSE freeProcedureTransactionId(u, pti)

(* An aborted establishment frees the session, an aborted release too. *)
abortProcedureByPti(u, pti) ==
    IF u.pt[pti].msg = "none"
    THEN u
    ELSE freePduSessionId(freeProcedureTransactionId(u, pti), u.pt[pti].psi)

checkPtiAndPsi(u, m) == m.pti \in Ptis /\ u.pt[m.pti].psi = m.psi

(* The answer frees the transaction before the session's state is looked at. *)
EstablishmentAnswer(u, m, state) ==
    LET v == freeProcedureTransactionId(u, m.pti)
    IN  IF ~checkPtiAndPsi(u, m) THEN sendSmCause(u, m)
        ELSE IF u.ps[m.psi].state # "ACTIVE_PENDING" THEN sendSmCause(v, m)
        ELSE [v EXCEPT !.ps[m.psi].state = state]

(* Of the causes, the SMF only sends "not compatible with the protocol     *)
(* state"; INACTIVE_PENDING, the state it is meant for, is never entered.  *)
ReleaseReject(u, m) ==
    LET v == [freeProcedureTransactionId(u, m.pti) EXCEPT
                 !.taken = @ \/ u.pt[m.pti].msg = "establish"]
    IN  IF ~checkPtiAndPsi(u, m) THEN sendSmCause(u, m)
        ELSE IF u.ps[m.psi].state # "INACTIVE_PENDING" THEN sendSmCause(v, m)
        ELSE [v EXCEPT !.ps[m.psi].state = "ACTIVE"]

(* As ReleaseCommand, the transaction it answers left running. *)
ReleaseCommandUnanswered(u, m) ==
    IF u.ps[m.psi].state \in {"INACTIVE", "ACTIVE_PENDING"} THEN sendSmCause(u, m)
    ELSE sendSmMessage(localReleaseSession(u, m.psi), Message("complete", m.psi, m.pti))

(* A command of the network's own (PTI 0) leaves the transactions alone. *)
ReleaseCommand(u, m) ==
    LET released == localReleaseSession(u, m.psi)
        answered == IF m.pti = 0 THEN released
                    ELSE freeProcedureTransactionId(released, m.pti)
        complete == sendSmMessage(answered, Message("complete", m.psi, m.pti))
    IN  CASE u.ps[m.psi].state = "INACTIVE" -> sendSmCause(u, m)
          [] u.ps[m.psi].state = "ACTIVE_PENDING" -> u
          [] OTHER ->
                IF m.pti # 0 /\ u.pt[m.pti].msg # "release" THEN sendSmCause(released, m)
                ELSE IF m.type = "reactivate"
                THEN sendEstablishmentRequest(complete, u.ps[m.psi].dnn)
                ELSE complete

ForwardingFailure(u, m) ==
    IF checkPtiAndPsi(u, m) THEN abortProcedureByPti(u, m.pti) ELSE sendSmCause(u, m)

-----------------------------------------------------------------------------
(* What happens at the UE. *)
Locally(u) ==
    /\ u # Ue
    /\ Become(u)
    /\ UNCHANGED <<dl, amf, smf, smfUp>>

Establishing(u) ==
    /\ u.born + spent.smfReleases <= MaxSessions
    /\ Locally(u)
    /\ spent' = [spent EXCEPT !.sessions = u.born]

MmCycle == Establishing(establishRequiredSessions(Ue))

PsEstablish(dnn) == Establishing(sendEstablishmentRequest(Ue, dnn))

PsRelease(psi) ==
    /\ Locally(sendReleaseRequest(Ue, psi))
    /\ Spend("releases", MaxReleases)

Answers(type) == dl # <<>> /\ Head(dl).type = type

receiveEstablishmentAccept ==
    Answers("accept") /\ Received(EstablishmentAnswer(Ue, Head(dl), "ACTIVE"))
receiveEstablishmentReject ==
    Answers("reject") /\ Received(EstablishmentAnswer(Ue, Head(dl), "INACTIVE"))
receiveReleaseReject ==
    Answers("release reject") /\ Received(ReleaseReject(Ue, Head(dl)))
receiveReleaseCommand ==
    /\ Answers("command") \/ Answers("reactivate")
    /\ Received(ReleaseCommand(Ue, Head(dl)))
receiveForwardingFailure ==
    Answers("sent back") /\ Received(ForwardingFailure(Ue, Head(dl)))

receiveSmMessage ==
    \/ receiveEstablishmentAccept \/ receiveEstablishmentReject
    \/ receiveReleaseReject \/ receiveReleaseCommand \/ receiveForwardingFailure

(* T3580 or T3582: the stored message again, and in the end the abort. *)
Retransmit(u, pti) ==
    sendSmMessage([u EXCEPT !.pt[pti].expiries = @ + 1],
                  Message(u.pt[pti].msg, u.pt[pti].psi, pti))

onTransactionTimerExpire(pti) ==
    /\ pt[pti].msg # "none"
    /\ Locally(IF pt[pti].expiries + 1 < MaxExpiry THEN Retransmit(Ue, pti)
               ELSE abortProcedureByPti(Ue, pti))
    /\ UNCHANGED spent

-----------------------------------------------------------------------------
(* The AMF and the SMF.  A step of the network names the session, what the *)
(* AMF and the SMF then have of it, and the N1 path in both directions.    *)
Network(psi, a, s, up, down) ==
    /\ smfUp
    /\ amf' = [amf EXCEPT ![psi] = a]
    /\ smf' = [smf EXCEPT ![psi] = s]
    /\ ul' = up /\ dl' = dl \o down
    /\ UNCHANGED <<ps, pt, smfUp>>

Requested(type) == ul # <<>> /\ Head(ul).type = type

(* What the AMF keeps of a 5GSM message: the message, to build a request  *)
(* from it or to send it back.                                            *)
Noted(m) == [amf[m.psi] EXCEPT !.last = m,
                               !.released = IF m.type = "establish" THEN {} ELSE @]

(* The parts of a release: the UE's Release Complete and the gNB's answer. *)
Part(m) == CASE m.type = "complete" -> {"n1"}
             [] m.type = "n2 released" -> {"n2"}
             [] OTHER -> {}

AllParts == {"n1", "n2"}

ClearedByParts(a, m) ==
    LET parts == a.released \cup Part(m)
    IN  [a EXCEPT !.released = parts,
                  !.ref = @ /\ ~(Part(m) # {} /\ parts = AllParts)]

(* The AMF's requests that the SMF is to answer yet, each on its stream.  Of *)
(* a session that is removed they are never answered.                        *)
Streams(s) == s.asked["ue"] + s.asked["amf"] + (IF s.open THEN 1 ELSE 0)

Abandoned(a, s) == [a EXCEPT !.waiting = @ + Streams(s)]

(* AMF_SESS_CLEAR: not while a request is without its answer. *)
AmfSessClear(a) == IF a.waiting = 0 THEN NoAmf ELSE a

SmfSessClear(psi, a, up) == Network(psi, Abandoned(a, smf[psi]), NoSmf, up, <<>>)

(* The request built from what the AMF keeps.  A session the SMF still has  *)
(* under this identity is removed first.                                    *)
Create(psi, a, s, up) ==
    LET m == a.last
        b == Abandoned(a, s)
    IN  \/ /\ m.type = "establish"
           /\ Network(psi, [b EXCEPT !.ref = TRUE],
                      [NoSmf EXCEPT !.state = "active", !.pti = m.pti],
                      up, <<Message("accept", psi, m.pti)>>)
        \/ \E type \in {"reject", "sent back"} :
              /\ type = "reject" => m.type = "establish"
              /\ Network(psi, AmfSessClear(b), NoSmf, up, <<Message(type, psi, m.pti)>>)

(* The SMF answers a request to release a duplicate at once if the UE's own *)
(* release is at the point where the policy is gone.                        *)
CreateSmContext ==
    LET psi == Head(ul).psi
    IN  /\ Requested("establish")
        /\ amf[psi].ref => smf[psi].state = "releasing" /\ smf[psi].by = "ue"
        /\ Create(psi, Noted(Head(ul)), smf[psi], Tail(ul))
        /\ UNCHANGED spent

(* REL_DUE_TO_DUPLICATE_SESSION_ID: the old session first.  One that the SMF *)
(* has no more is not found (404); one whose policy is deleted leaves the    *)
(* UDM at once; while a deletion is under way the SMF does not answer.       *)
ReleaseDuplicate ==
    LET psi == Head(ul).psi
        s == smf[psi]
        a == Noted(Head(ul))
        Answered(t) == Network(psi, a, t, Tail(ul), <<>>)
    IN  /\ Requested("establish") /\ a.ref
        /\ \/ s.state = "none" /\ Answered(s)
           \/ s.state = "active" /\ Answered([s EXCEPT !.asked["amf"] = @ + 1])
           \/ /\ s.state = "releasing" /\ s.by = "smf"
              /\ Answered([s EXCEPT !.by = "amf", !.open = TRUE])
           \/ /\ s.state = "deleting" \/ (s.state = "releasing" /\ s.by = "amf")
              /\ Network(psi, [a EXCEPT !.waiting = @ + 1], s, Tail(ul), <<>>)
           \/ s.state = "leaving" /\ SmfSessClear(psi, a, Tail(ul))
        /\ UNCHANGED spent

(* No session at the AMF: a 5GMM STATUS, which the UE's 5GSM layer never   *)
(* sees.  No context in the SMF: the message, whichever it is, comes back. *)
NoSessionContext ==
    LET m == Head(ul)
        Reply(a, down) == Network(m.psi, a, smf[m.psi], Tail(ul), down)
    IN  /\ ul # <<>> /\ ~Requested("establish")
        /\ ~amf[m.psi].ref
        /\ IF amf[m.psi] = NoAmf \/ m.type = "n2 released"
           THEN Reply(amf[m.psi], <<>>)
           ELSE Reply(Noted(m), <<Message("sent back", m.psi, m.pti)>>)
        /\ UNCHANGED spent

(* A session in operation: a Release Request has the policy deleted. *)
InOperation(s, m) ==
    IF m.type = "release" THEN [s EXCEPT !.asked["ue"] = @ + 1] ELSE s

(* A session being released leaves the UDM once both parts have come. *)
InRelease(s, m) ==
    LET parts == s.released \cup Part(m)
    IN  [s EXCEPT !.released = parts,
                  !.state = IF parts = AllParts THEN "leaving" ELSE @]

(* A 5GSM message sets sess->pti.  A message the state does not know is an  *)
(* error without N1, which the UE does not see.  wait_pfcp_deletion ignores *)
(* the update; a session that leaves the UDM is removed because of it.      *)
UpdateSmContext ==
    LET m == Head(ul)
        s == smf[m.psi]
        a == ClearedByParts(IF m.type = "n2 released" THEN amf[m.psi] ELSE Noted(m), m)
        t == IF m.type = "n2 released" THEN s ELSE [s EXCEPT !.pti = m.pti]
        Answered(r) == Network(m.psi, a, r, Tail(ul), <<>>)
    IN  /\ ul # <<>> /\ ~Requested("establish")
        /\ amf[m.psi].ref
        /\ \/ s.state = "none" /\ Answered(s)
           \/ /\ s.state = "active" /\ m.type # "n2 released"
              /\ Answered(InOperation(t, m))
           \/ /\ s.state = "deleting"
              /\ Network(m.psi, [a EXCEPT !.waiting = @ + 1], s, Tail(ul), <<>>)
           \/ s.state = "releasing" /\ Answered(InRelease(t, m))
           \/ /\ s.state = "leaving" \/ (s.state = "active" /\ m.type = "n2 released")
              /\ SmfSessClear(m.psi, a, Tail(ul))
        /\ UNCHANGED spent

(* OGS_TIMER_SBI_CLIENT_WAIT of the AMF: the last message comes back. *)
ClientWait(psi) ==
    LET a == amf[psi]
    IN  /\ a.waiting > 0
        /\ Network(psi, [a EXCEPT !.waiting = @ - 1], smf[psi], ul,
                   <<Message("sent back", psi, a.last.pti)>>)
        /\ Spend("faults", MaxFaults)

(* The UPF of the session is lost: reselect_upf.  A session whose policy is *)
(* deleted already is removed at once.                                      *)
SmfInitiatesRelease(psi) ==
    /\ spent.sessions + spent.smfReleases < MaxSessions
    /\ smf[psi].state # "none"
    /\ IF smf[psi].state = "active"
       THEN Network(psi, amf[psi], [smf[psi] EXCEPT !.asked["smf"] = @ + 1], ul, <<>>)
       ELSE SmfSessClear(psi, amf[psi], ul)
    /\ Spend("smfReleases", MaxSmfReleases)

(* The gNB answers a release command before the UE does. *)
Commanded(psi, s, type) ==
    Network(psi, amf[psi], s, Append(ul, Message("n2 released", psi, 0)),
            <<Message(type, psi, s.pti)>>)

(* The PCF's answer to a deletion of kind k, which goes on from the stream  *)
(* it was asked on; with that stream gone nothing more happens.             *)
PolicyDeleted(psi, k) ==
    LET s == [smf[psi] EXCEPT !.asked[k] = @ - 1]
    IN  /\ smf[psi].asked[k] > 0 /\ s.state = "active"
        /\ \/ k = "smf" /\ Commanded(psi, [s EXCEPT !.state = "releasing", !.by = "smf",
                                                    !.pti = 0], "reactivate")
           \/ /\ k # "smf"
              /\ Network(psi, amf[psi], [s EXCEPT !.state = "deleting",
                                                  !.by = IF k = "lost" THEN "none" ELSE k,
                                                  !.open = (k # "lost")], ul, <<>>)
        /\ UNCHANGED spent

(* As PolicyDeletedAgain, on the stream of the release that is under way. *)
RejectOnReleaseStream(psi, k) ==
    LET s == [smf[psi] EXCEPT !.asked[k] = @ - 1, !.open = FALSE]
    IN  /\ smf[psi].asked[k] > 0 /\ s.state \in {"deleting", "releasing"}
        /\ Network(psi, amf[psi], s, ul, IF smf[psi].open
                        THEN <<Message("release reject", psi, s.pti)>> ELSE <<>>)
        /\ UNCHANGED spent

(* The answer to a second deletion: a Release Reject on the stream this one *)
(* was asked on, if it is there.                                            *)
PolicyDeletedAgain(psi, k) ==
    LET s == [smf[psi] EXCEPT !.asked[k] = @ - 1]
        a == amf[psi]
    IN  /\ smf[psi].asked[k] > 0
        /\ \/ /\ s.state \in {"deleting", "releasing"}
              /\ Network(psi, a, s, ul,
                         IF k \in {"ue", "amf"}
                         THEN <<Message("release reject", psi, s.pti)>> ELSE <<>>)
           \/ /\ s.state = "leaving"
              /\ Network(psi, IF k \in {"ue", "amf"} THEN [a EXCEPT !.waiting = @ + 1] ELSE a,
                         s, ul, <<>>)
        /\ UNCHANGED spent

(* A deletion the SMF asked for itself has no stream: what is looked up is  *)
(* the number of its transaction, which another open stream q may have.     *)
(* That one then has its answer.  The UE drops a message of another PSI.    *)
RejectOnOtherStream(psi) ==
    LET rest == [smf EXCEPT ![psi].asked["smf"] = @ - 1]
    IN  /\ smfUp
        /\ smf[psi].asked["smf"] > 0 /\ smf[psi].state \in {"deleting", "releasing"}
        /\ \E q \in Psis :
              /\ \/ \E k \in {"ue", "amf"} :
                       /\ smf[q].asked[k] > 0
                       /\ smf' = [rest EXCEPT ![q].asked[k] = @ - 1, ![q].asked["lost"] = @ + 1]
                       /\ UNCHANGED amf
                 \/ smf[q].open /\ smf' = [rest EXCEPT ![q].open = FALSE] /\ UNCHANGED amf
                 \/ /\ amf[q].waiting > 0
                    /\ smf' = rest /\ amf' = [amf EXCEPT ![q].waiting = @ - 1]
              /\ dl' = IF q = psi THEN Append(dl, Message("release reject", psi, smf[psi].pti))
                       ELSE dl
        /\ UNCHANGED <<ps, pt, ul, smfUp, spent>>

(* ogs_assert(stream): the SMF comes to reply and its stream is gone. *)
Abort ==
    /\ smfUp /\ smfUp' = FALSE
    /\ UNCHANGED <<ps, pt, ul, dl, amf, smf, spent>>

PfcpSessionDeleted(psi) ==
    LET s == smf[psi]
    IN  /\ s.state = "deleting"
        /\ \/ /\ s.by = "ue" /\ s.open
              /\ Commanded(psi, [s EXCEPT !.state = "releasing", !.open = FALSE], "command")
              /\ UNCHANGED spent
           \/ s.by = "ue" /\ ~s.open /\ Abort
           \/ /\ s.by = "amf"
              /\ Network(psi, amf[psi], [s EXCEPT !.state = "leaving"], ul, <<>>)
              /\ UNCHANGED spent

(* The UDM has the session no more.  The AMF, which asked for it because of *)
(* a duplicate, is answered and goes on to create; else it is notified.     *)
UecmDeregistered(psi) ==
    LET s == smf[psi]
    IN  \/ /\ s.state \in {"releasing", "leaving"} /\ s.by = "amf" /\ s.open
           /\ Create(psi, amf[psi], [s EXCEPT !.open = FALSE], ul)
           /\ UNCHANGED spent
        \/ s.state \in {"releasing", "leaving"} /\ s.by = "amf" /\ ~s.open /\ Abort
        \/ /\ s.state = "leaving" /\ s.by # "amf"
           /\ Network(psi, AmfSessClear(Abandoned(amf[psi], s)), NoSmf, ul, <<>>)
           /\ UNCHANGED spent

(* The radio link or the AMF drops a message. *)
Lose ==
    /\ \/ /\ ul # <<>> /\ ~Requested("n2 released")
          /\ ul' = Tail(ul) /\ UNCHANGED dl
       \/ dl # <<>> /\ dl' = Tail(dl) /\ UNCHANGED ul
    /\ Spend("faults", MaxFaults)
    /\ UNCHANGED <<ps, pt, amf, smf, smfUp>>

-----------------------------------------------------------------------------
UeNext ==
    \/ MmCycle
    \/ \E dnn \in Dnns : PsEstablish(dnn)
    \/ \E psi \in Psis : PsRelease(psi)
    \/ receiveSmMessage
    \/ \E pti \in Ptis : onTransactionTimerExpire(pti)

NetworkNext ==
    \/ CreateSmContext \/ ReleaseDuplicate \/ NoSessionContext \/ UpdateSmContext
    \/ \E psi \in Psis :
          \/ ClientWait(psi) \/ SmfInitiatesRelease(psi)
          \/ \E k \in Kinds : PolicyDeleted(psi, k) \/ PolicyDeletedAgain(psi, k)
          \/ RejectOnOtherStream(psi) \/ PfcpSessionDeleted(psi) \/ UecmDeregistered(psi)
    \/ Lose

Next == UeNext \/ NetworkNext

(* A running timer expires unless its transaction ends first, and the UE's *)
(* NAS task serves its queue; of the network nothing is assumed.           *)
Spec ==
    /\ Init /\ [][Next]_vars
    /\ \A pti \in Ptis : WF_vars(onTransactionTimerExpire(pti))
    /\ WF_vars(receiveSmMessage)

-----------------------------------------------------------------------------
(* The transaction is about the session as it is now, although the identity *)
(* may have been handed out again since.                                    *)
Owned(i) ==
    /\ pt[i].msg # "none"
    /\ ps[pt[i].psi].inst = pt[i].inst
    /\ ps[pt[i].psi].state = IF pt[i].msg = "establish" THEN "ACTIVE_PENDING" ELSE "ACTIVE"

Stale(i) == pt[i].msg # "none" /\ ~Owned(i)

(* An establishment under way loses its session (aborted, answered or handed *)
(* out to another while T3580 still runs) only where the identity has a      *)
(* second transaction, left behind by an earlier session.                    *)
EstablishmentKeepsSession ==
    [][\A i \in Ptis : pt[i].msg = "establish" /\ Owned(i) /\ Stale(i)' =>
          \E j \in Ptis \ {i} : Stale(j) /\ pt[j].psi = pt[i].psi]_vars

(* A release under way outlives its session, so that onTransactionTimerExpire *)
(* may repeat the request under an identity that a newer session has, which   *)
(* nobody asked to go, only through a command of the network's that does not  *)
(* carry its PTI, or if the identity has a second transaction.                *)
ReleaseKeepsSession ==
    [][\A i \in Ptis : pt[i].msg = "release" /\ Owned(i) /\ Stale(i)' =>
          \/ /\ Answers("command") \/ Answers("reactivate")
             /\ Head(dl).psi = pt[i].psi /\ Head(dl).pti # i
          \/ \E j \in Ptis \ {i} : pt[j].msg # "none" /\ pt[j].psi = pt[i].psi]_vars

(* Whatever the network answers, loses or never says, every transaction of  *)
(* the UE ends and gives its PTI back.                                      *)
TransactionsEnd == \A i \in Ptis : pt[i].msg # "none" ~> pt[i].msg = "none"

(* An establishment is answered or, the network being silent, given up.     *)
(* Only a Release Reject that carries its PTI takes its transaction, and    *)
(* the timer with it, away.                                                 *)
EstablishmentEnds ==
    \A i \in Psis : ps[i].state = "ACTIVE_PENDING" /\ ~spent.taken
        ~> ps[i].state # "ACTIVE_PENDING" \/ spent.taken

(* ogs_assert(stream): when the UPF or the UDM has answered, the stream the *)
(* release was asked on is still there for the SMF's reply.  Only an answer *)
(* to one of the SMF's own releases, which looks up a stream by the number  *)
(* of a transaction, can have used it up.                                   *)
ReplyHasStream == smfUp \/ spent.smfReleases > 0
=============================================================================
