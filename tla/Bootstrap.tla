------------------------------ MODULE Bootstrap ------------------------------
(***************************************************************************)
(* Bootstrapping of an application key from the EMSK (bootstrap/).  Each   *)
(* run of aaa_keyexport.py posts a DSRK to the Application Server, each    *)
(* run of ue_client.py makes first contact over UDP, and app_server.py     *)
(* serves both: a thread per POST, one loop for the datagrams, and a store *)
(* of contexts between them.  All append to the log verify_session.py      *)
(* reads.  A session id may be used by several runs, as the store allows.  *)
(***************************************************************************)
EXTENDS Naturals, FiniteSets, Oscore

CONSTANTS
    AaaRuns,        \* runs of aaa_keyexport.py
    UeRuns,         \* runs of ue_client.py
    SessionIds,
    NoId,           \* the session id of a run not started
    NoUe,           \* the datagram loop is between two datagrams
    NoReply,
    Expect,         \* --expect: contacts served before exit, 0 for no limit
    MaxFaults       \* bound on losses, kills and timeouts racing an answer

ASSUME BootstrapAssumption ==
    /\ NoId \notin SessionIds /\ NoUe \notin UeRuns
    /\ NoReply \notin [kid: SenderIds \cup {"error"}, key: Emsks \cup {NoKey}]
    /\ Expect \in Nat /\ MaxFaults \in Nat

VARIABLES
    aaa,        \* [AaaRuns -> pc, session id, EMSK and whether the token is right]
    http,       \* [AaaRuns -> how far the Application Server is with the POST]
    ue,         \* [UeRuns -> pc, session id and EMSK]
    inbox,      \* UE runs whose request waits in the UDP socket
    reply,      \* [UeRuns -> the datagram on its way to the run]
    asPc,       \* "starting", "serving", "closing" or "exited"
    cur,        \* the request being served and the context read for it
    served,
    store,      \* SessionStore: [SessionIds -> context]
    log,        \* [SessionIds -> what verify_session.py takes from the log]
    faults

vars == <<aaa, http, ue, inbox, reply, asPc, cur, served, store, log, faults>>

Tokens == {"good", "bad"}

Idle == [ue |-> NoUe, ctx |-> NoContext]

Refused == [kid |-> "error", key |-> NoKey]

(* The HTTP thread runs from the start; the UDP socket is bound later. *)
Init ==
    /\ aaa = [r \in AaaRuns |-> [pc |-> "idle", sid |-> NoId, emsk |-> NoKey, token |-> "good"]]
    /\ http = [r \in AaaRuns |-> "none"]
    /\ ue = [u \in UeRuns |-> [pc |-> "idle", sid |-> NoId, emsk |-> NoKey]]
    /\ inbox = {}
    /\ reply = [u \in UeRuns |-> NoReply]
    /\ asPc = "starting"
    /\ cur = Idle
    /\ served = 0
    /\ store = [s \in SessionIds |-> NoContext]
    /\ log = [s \in SessionIds |-> [ueKey |-> NoKey, asKey |-> NoKey, contact |-> "none"]]
    /\ faults = 0

Fault == faults < MaxFaults /\ faults' = faults + 1

-----------------------------------------------------------------------------
(* aaa_keyexport.py: derive, post, wait for the answer at most 5 s. *)

export_key(r) ==
    /\ aaa[r].pc = "idle"
    /\ \E s \in SessionIds, e \in Emsks, t \in Tokens :
          aaa' = [aaa EXCEPT ![r] = [pc |-> "posted", sid |-> s, emsk |-> e, token |-> t]]
    /\ http' = [http EXCEPT ![r] = "queued"]
    /\ UNCHANGED <<ue, inbox, reply, asPc, cur, served, store, log, faults>>

(* urlopen gives up while the server is still at it. *)
ExportTimeout(r) ==
    /\ aaa[r].pc = "posted" /\ asPc # "exited"
    /\ aaa' = [aaa EXCEPT ![r].pc = "failed"]
    /\ Fault
    /\ UNCHANGED <<http, ue, inbox, reply, asPc, cur, served, store, log>>

(* The server is gone: the connection is refused or reset. *)
ExportReset(r) ==
    /\ aaa[r].pc = "posted" /\ asPc = "exited"
    /\ aaa' = [aaa EXCEPT ![r].pc = "failed"]
    /\ UNCHANGED <<http, ue, inbox, reply, asPc, cur, served, store, log, faults>>

-----------------------------------------------------------------------------
(* KeyTransportHandler.do_POST, a daemon thread per connection. *)

Answer(r, pc) ==
    aaa' = IF aaa[r].pc = "posted" THEN [aaa EXCEPT ![r].pc = pc] ELSE aaa

DenyPost(r) ==
    /\ asPc # "exited" /\ http[r] = "queued" /\ aaa[r].token # "good"
    /\ http' = [http EXCEPT ![r] = "denied"]
    /\ Answer(r, "failed")
    /\ UNCHANGED <<ue, inbox, reply, asPc, cur, served, store, log, faults>>

(* Mutant: t_oscore_secret_derived_as is not logged. *)
PostMarkUnlogged(r) ==
    /\ asPc # "exited" /\ http[r] = "queued" /\ aaa[r].token = "good"
    /\ http' = [http EXCEPT ![r] = "marked"]
    /\ UNCHANGED <<aaa, ue, inbox, reply, asPc, cur, served, store, log, faults>>

(* The context is derived and logged before it is stored. *)
PostMark(r) ==
    /\ asPc # "exited" /\ http[r] = "queued" /\ aaa[r].token = "good"
    /\ http' = [http EXCEPT ![r] = "marked"]
    /\ log' = [log EXCEPT ![aaa[r].sid].asKey = aaa[r].emsk]
    /\ UNCHANGED <<aaa, ue, inbox, reply, asPc, cur, served, store, faults>>

(* SessionStore.put overwrites what the session had. *)
PostPut(r) ==
    /\ asPc # "exited" /\ http[r] = "marked"
    /\ http' = [http EXCEPT ![r] = "stored"]
    /\ store' = [store EXCEPT ![aaa[r].sid] = AsContext(aaa[r].emsk)]
    /\ UNCHANGED <<aaa, ue, inbox, reply, asPc, cur, served, log, faults>>

(* Mutant: the acknowledgement is written before the context is stored. *)
PostAckEarly(r) ==
    /\ asPc # "exited" /\ http[r] \in {"marked", "stored"}
    /\ http' = IF http[r] = "stored" THEN [http EXCEPT ![r] = "acked"] ELSE http
    /\ Answer(r, "ok")
    /\ UNCHANGED <<ue, inbox, reply, asPc, cur, served, store, log, faults>>

PostAck(r) ==
    /\ asPc # "exited" /\ http[r] = "stored"
    /\ http' = [http EXCEPT ![r] = "acked"]
    /\ Answer(r, "ok")
    /\ UNCHANGED <<ue, inbox, reply, asPc, cur, served, store, log, faults>>

-----------------------------------------------------------------------------
(* ue_client.py: derive, log the key, send one datagram, wait at most 5 s. *)

first_contact(u) ==
    /\ ue[u].pc = "idle"
    /\ \E s \in SessionIds, e \in Emsks :
          /\ ue' = [ue EXCEPT ![u] = [pc |-> "waiting", sid |-> s, emsk |-> e]]
          /\ log' = [log EXCEPT ![s].ueKey = e]
    /\ inbox' = IF asPc = "serving" THEN inbox \cup {u} ELSE inbox
    /\ UNCHANGED <<aaa, http, reply, asPc, cur, served, store, faults>>

UeReceive(u) ==
    /\ ue[u].pc = "waiting" /\ reply[u] # NoReply
    /\ LET ok == reply[u] # Refused /\ unprotect(UeContext(ue[u].emsk), reply[u])
       IN  /\ ue' = [ue EXCEPT ![u].pc = IF ok THEN "ok" ELSE "failed"]
           /\ log' = IF ok THEN [log EXCEPT ![ue[u].sid].contact = "success"] ELSE log
    /\ reply' = [reply EXCEPT ![u] = NoReply]
    /\ UNCHANGED <<aaa, http, inbox, asPc, cur, served, store, faults>>

Underway(u) == u \in inbox \/ cur.ue = u \/ reply[u] # NoReply

(* Mutant: the socket has no time-out. *)
ContactWaitsOn(u) == ue[u].pc = "waiting" /\ ~Underway(u) /\ UNCHANGED vars

(* Nothing will come any more: TimeoutError, and no second attempt. *)
ContactTimeout(u) ==
    /\ ue[u].pc = "waiting" /\ ~Underway(u)
    /\ ue' = [ue EXCEPT ![u].pc = "failed"]
    /\ UNCHANGED <<aaa, http, inbox, reply, asPc, cur, served, store, log, faults>>

(* The five seconds end while the server is still at it. *)
ContactTimeoutEarly(u) ==
    /\ ue[u].pc = "waiting" /\ Underway(u)
    /\ ue' = [ue EXCEPT ![u].pc = "failed"]
    /\ reply' = [reply EXCEPT ![u] = NoReply]
    /\ Fault
    /\ UNCHANGED <<aaa, http, inbox, asPc, cur, served, store, log>>

-----------------------------------------------------------------------------
(* _coap_server: one datagram at a time. *)

AsBind ==
    /\ asPc = "starting"
    /\ asPc' = "serving"
    /\ UNCHANGED <<aaa, http, ue, inbox, reply, cur, served, store, log, faults>>

(* No context yet: the datagram is dropped without an answer. *)
AsUnknown(u) ==
    /\ asPc = "serving" /\ cur = Idle /\ u \in inbox
    /\ store[ue[u].sid] = NoContext
    /\ inbox' = inbox \ {u}
    /\ UNCHANGED <<aaa, http, ue, reply, asPc, cur, served, store, log, faults>>

AsLookup(u) ==
    /\ asPc = "serving" /\ cur = Idle /\ u \in inbox
    /\ store[ue[u].sid] # NoContext
    /\ cur' = [ue |-> u, ctx |-> store[ue[u].sid]]
    /\ inbox' = inbox \ {u}
    /\ UNCHANGED <<aaa, http, ue, reply, asPc, served, store, log, faults>>

(* A reply to a run that has given up meets a closed socket. *)
SendTo(u, m) ==
    reply' = IF ue[u].pc = "waiting" THEN [reply EXCEPT ![u] = m] ELSE reply

(* Mutant: the limit is tested one contact too late. *)
AfterContactLate(n) == IF Expect # 0 /\ n > Expect THEN "closing" ELSE "serving"

AfterContact(n) == IF Expect # 0 /\ n >= Expect THEN "closing" ELSE "serving"

(* Verified: log, answer under the same context, count; the last one closes
   the socket. *)
AsAccept(u) ==
    /\ asPc = "serving" /\ cur.ue = u
    /\ unprotect(cur.ctx, protect(UeContext(ue[u].emsk)))
    /\ log' = [log EXCEPT ![ue[u].sid].contact = "success"]
    /\ SendTo(u, protect(cur.ctx))
    /\ served' = served + 1
    /\ asPc' = AfterContact(served + 1)
    /\ inbox' = IF asPc' = "serving" THEN inbox ELSE {}
    /\ cur' = Idle
    /\ UNCHANGED <<aaa, http, ue, store, faults>>

AsRefuse(u) ==
    /\ asPc = "serving" /\ cur.ue = u
    /\ ~unprotect(cur.ctx, protect(UeContext(ue[u].emsk)))
    /\ SendTo(u, Refused)
    /\ cur' = Idle
    /\ UNCHANGED <<aaa, http, ue, inbox, asPc, served, store, log, faults>>

(* httpd.shutdown and the end of main: threads still at work die with it. *)
AsExit ==
    /\ asPc = "closing"
    /\ asPc' = "exited"
    /\ UNCHANGED <<aaa, http, ue, inbox, reply, cur, served, store, log, faults>>

(* The process is interrupted or killed (the demo script's cleanup). *)
AsKilled ==
    /\ asPc # "exited"
    /\ asPc' = "exited" /\ inbox' = {} /\ cur' = Idle
    /\ Fault
    /\ UNCHANGED <<aaa, http, ue, reply, served, store, log>>

(* UDP loses the request or the reply of a run. *)
LoseDatagram(u) ==
    /\ u \in inbox \/ reply[u] # NoReply
    /\ inbox' = inbox \ {u}
    /\ reply' = [reply EXCEPT ![u] = NoReply]
    /\ Fault
    /\ UNCHANGED <<aaa, http, ue, asPc, cur, served, store, log>>

-----------------------------------------------------------------------------
Post(r) == DenyPost(r) \/ PostMark(r) \/ PostPut(r) \/ PostAck(r)

Serve(u) == AsUnknown(u) \/ AsLookup(u) \/ AsAccept(u) \/ AsRefuse(u)

Next ==
    \/ \E r \in AaaRuns : export_key(r) \/ ExportTimeout(r) \/ ExportReset(r) \/ Post(r)
    \/ \E u \in UeRuns : \/ first_contact(u) \/ UeReceive(u) \/ LoseDatagram(u)
                         \/ ContactTimeout(u) \/ ContactTimeoutEarly(u)
                         \/ Serve(u)
    \/ AsBind \/ AsExit \/ AsKilled

(* Every thread and loop goes on while it has something to do, a socket
   time-out ends every wait; nothing is assumed of starts and of faults. *)
Fairness ==
    /\ \A r \in AaaRuns : WF_vars(Post(r)) /\ WF_vars(ExportReset(r))
    /\ \A u \in UeRuns : WF_vars(UeReceive(u)) /\ WF_vars(ContactTimeout(u)) /\ WF_vars(Serve(u))
    /\ WF_vars(AsBind) /\ WF_vars(AsExit)

Spec == Init /\ [][Next]_vars /\ Fairness

-----------------------------------------------------------------------------
Keys == Emsks \cup {NoKey}

AaaType == [pc: {"idle", "posted", "ok", "failed"}, sid: SessionIds \cup {NoId},
            emsk: Keys, token: Tokens]

UeType == [pc: {"idle", "waiting", "ok", "failed"}, sid: SessionIds \cup {NoId}, emsk: Keys]

LogType == [ueKey: Keys, asKey: Keys, contact: {"none", "success"}]

AsContextType == [key: Keys, sender: {AS_SENDER_ID}, recipient: {UE_SENDER_ID}]

ReplyType == [kid: {AS_SENDER_ID, "error"}, key: Keys]

(* Every variable keeps its type: the server's contexts have the server's ids,
   and only the server answers. *)
TypeOK ==
    /\ aaa \in [AaaRuns -> AaaType]
    /\ http \in [AaaRuns -> {"none", "queued", "marked", "stored", "acked", "denied"}]
    /\ ue \in [UeRuns -> UeType]
    /\ inbox \subseteq UeRuns
    /\ reply \in [UeRuns -> ReplyType \cup {NoReply}]
    /\ asPc \in {"starting", "serving", "closing", "exited"}
    /\ cur \in [ue: UeRuns \cup {NoUe}, ctx: AsContextType]
    /\ served \in Nat
    /\ store \in [SessionIds -> AsContextType]
    /\ log \in [SessionIds -> LogType]
    /\ faults \in 0..MaxFaults

Stored(r) == http[r] \in {"stored", "acked"}

(* A run of ue_client.py that reports success shares its EMSK with an export
   for its session that the Application Server stored, whatever is overwritten
   between the lookup, the verification and the reply. *)
SameKey ==
    \A u \in UeRuns : ue[u].pc = "ok" =>
        \E r \in AaaRuns : Stored(r) /\ aaa[r].sid = ue[u].sid /\ aaa[r].emsk = ue[u].emsk

(* A contact is refused only where some export for its session brought another
   key: a matching pair of contexts never fails to verify. *)
RefusedMeansOtherKey ==
    \A u \in UeRuns : reply[u] = Refused =>
        \E r \in AaaRuns : Stored(r) /\ aaa[r].sid = ue[u].sid /\ aaa[r].emsk # ue[u].emsk

OnlyExport(r) == \A q \in AaaRuns \ {r} : aaa[q].sid # aaa[r].sid

(* The AAA server's acknowledgement can be relied on: from then on the store
   knows the session, under the exported key unless it was exported again. *)
AckMeansStored ==
    \A r \in AaaRuns : aaa[r].pc = "ok" =>
        /\ store[aaa[r].sid] # NoContext
        /\ OnlyExport(r) => store[aaa[r].sid] = AsContext(aaa[r].emsk)

(* A server told to --expect N contacts lets at most N runs succeed: requests
   queued behind the last one, or sent while it shuts down, go unanswered. *)
ExpectHonoured ==
    Expect # 0 => Cardinality({u \in UeRuns : ue[u].pc = "ok"}) <= Expect

(* verify_session.py: the last key logged by each side, and any success. *)
Verdict(s) ==
    log[s].ueKey # NoKey /\ log[s].ueKey = log[s].asKey /\ log[s].contact = "success"

UsedOnce(u) ==
    /\ \A v \in UeRuns \ {u} : ue[v].sid # ue[u].sid
    /\ \A q, r \in AaaRuns : aaa[q].sid = ue[u].sid /\ aaa[r].sid = ue[u].sid => q = r

(* When a UE reports success on a session id used once, the log already
   proves it: the server's key was logged before the context could serve. *)
OkIsRecorded ==
    \A u \in UeRuns : ue[u].pc = "ok" /\ UsedOnce(u) => Verdict(ue[u].sid)

(* Every run of aaa_keyexport.py and of ue_client.py comes to an end. *)
RunsEnd ==
    /\ \A r \in AaaRuns : aaa[r].pc = "posted" ~> aaa[r].pc # "posted"
    /\ \A u \in UeRuns : ue[u].pc = "waiting" ~> ue[u].pc # "waiting"

Exported(u) == \E r \in AaaRuns :
    aaa[r].pc = "ok" /\ aaa[r].sid = ue[u].sid /\ aaa[r].emsk = ue[u].emsk

OtherKey(u) == \E r \in AaaRuns :
    aaa[r].sid = ue[u].sid /\ aaa[r].emsk # ue[u].emsk

(* The server counts a contact of another run and may stop at --expect. *)
Beaten(u) == Expect # 0 /\ \E v \in UeRuns \ {u} : ue[v].pc = "ok"

(* A contact that reaches the socket after its key was acknowledged succeeds,
   if nothing is lost, nobody exports another key for the session and no other
   contact is the one the server waits for. *)
FirstContactSucceeds ==
    \A u \in UeRuns : u \in inbox /\ Exported(u)
        ~> ue[u].pc = "ok" \/ OtherKey(u) \/ Beaten(u) \/ faults > 0

(* bootstrappingkey.md 1.4 has the UE record whether its first contact
   succeeded, and verify_session.py calls the mark it looks for ue_ok: no
   session whose contacts have all ended, none successfully, is a success. *)
VerdictNeedsUe ==
    \A s \in SessionIds :
        /\ Verdict(s)
        /\ \A u \in UeRuns : ue[u].sid = s => ue[u].pc # "waiting"
        => \E u \in UeRuns : ue[u].sid = s /\ ue[u].pc = "ok"
===============================================================================
