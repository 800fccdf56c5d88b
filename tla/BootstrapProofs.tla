--------------------------- MODULE BootstrapProofs ---------------------------
(***************************************************************************)
(* Proofs about Bootstrap, for any sets of runs, session ids and keys, any *)
(* --expect and any number of faults.                                      *)
(***************************************************************************)
EXTENDS Bootstrap, FiniteSetTheorems, TLAPS

(* An export that was stored brought key e to session s. *)
Brought(s, e) == \E r \in AaaRuns : Stored(r) /\ aaa[r].sid = s /\ aaa[r].emsk = e

BroughtOther(s, e) == \E r \in AaaRuns : Stored(r) /\ aaa[r].sid = s /\ aaa[r].emsk # e

(* What a run that has not started has not done; what an acknowledgement says. *)
Phases ==
    /\ \A r \in AaaRuns : /\ aaa[r].pc = "idle" => http[r] = "none"
                          /\ http[r] # "none" => aaa[r].sid \in SessionIds /\ aaa[r].emsk \in Emsks
                          /\ aaa[r].pc = "idle" => aaa[r].sid = NoId
                          /\ aaa[r].pc = "ok" => Stored(r)
    /\ \A u \in UeRuns : /\ ue[u].pc = "idle" => u \notin inbox /\ cur.ue # u /\ reply[u] = NoReply
                         /\ ue[u].pc # "idle" => ue[u].sid \in SessionIds /\ ue[u].emsk \in Emsks

(* Wherever the server holds a context, an export brought it. *)
StoreBrought == \A s \in SessionIds : store[s].key # NoKey => Brought(s, store[s].key)

CurBrought == cur.ue # NoUe => cur.ctx.key # NoKey /\ Brought(ue[cur.ue].sid, cur.ctx.key)

ReplyBrought ==
    \A u \in UeRuns :
        /\ reply[u] = Refused => BroughtOther(ue[u].sid, ue[u].emsk)
        /\ reply[u] \notin {NoReply, Refused} => Brought(ue[u].sid, reply[u].key)

(* The last export of a session decides; a single one is what is stored. *)
StoredStays ==
    \A r \in AaaRuns : Stored(r) =>
        /\ store[aaa[r].sid].key # NoKey
        /\ OnlyExport(r) => store[aaa[r].sid].key = aaa[r].emsk

IInv ==
    /\ TypeOK /\ Phases
    /\ StoreBrought /\ CurBrought /\ ReplyBrought /\ SameKey /\ StoredStays

-----------------------------------------------------------------------------
(* Updates of one field keep the type of the whole. *)
LEMMA PcTyped ==
    ASSUME TypeOK
    PROVE  /\ \A r \in AaaRuns, p \in {"ok", "failed"} : [aaa EXCEPT ![r].pc = p] \in [AaaRuns -> AaaType]
           /\ \A u \in UeRuns, p \in {"ok", "failed"} : [ue EXCEPT ![u].pc = p] \in [UeRuns -> UeType]
<1>1. ASSUME NEW r \in AaaRuns, NEW p \in {"ok", "failed"}
      PROVE  [aaa EXCEPT ![r].pc = p] \in [AaaRuns -> AaaType]
  <2>1. [aaa[r] EXCEPT !.pc = p] \in AaaType
    BY DEF TypeOK, AaaType
  <2>. QED  BY <2>1 DEF TypeOK
<1>2. ASSUME NEW u \in UeRuns, NEW p \in {"ok", "failed"}
      PROVE  [ue EXCEPT ![u].pc = p] \in [UeRuns -> UeType]
  <2>1. [ue[u] EXCEPT !.pc = p] \in UeType
    BY DEF TypeOK, UeType
  <2>. QED  BY <2>1 DEF TypeOK
<1>. QED  BY <1>1, <1>2

LEMMA LogTyped ==
    ASSUME TypeOK
    PROVE  /\ \A s \in SessionIds, e \in Emsks : [log EXCEPT ![s].ueKey = e] \in [SessionIds -> LogType]
           /\ \A s \in SessionIds, e \in Emsks : [log EXCEPT ![s].asKey = e] \in [SessionIds -> LogType]
           /\ \A s \in SessionIds : [log EXCEPT ![s].contact = "success"] \in [SessionIds -> LogType]
BY DEF TypeOK, LogType, Keys

(* The server between two datagrams. *)
LEMMA IdleTyped == Idle \in [ue: UeRuns \cup {NoUe}, ctx: AsContextType]
BY DEF Idle, NoContext, oscore_context_from_dsrk, AsContextType, Keys

(* Types are kept by every step: nothing but the server's contexts is stored. *)
LEMMA TypeStep == TypeOK /\ Phases /\ [Next]_vars => TypeOK'
<1>. SUFFICES ASSUME TypeOK, Phases, [Next]_vars PROVE TypeOK'
  OBVIOUS
<1>. USE BootstrapAssumption DEF TypeOK
<1>1. ASSUME NEW r \in AaaRuns, export_key(r) PROVE TypeOK'
  <2>1. PICK s \in SessionIds, e \in Emsks, t \in Tokens :
            aaa' = [aaa EXCEPT ![r] = [pc |-> "posted", sid |-> s, emsk |-> e, token |-> t]]
    BY <1>1 DEF export_key
  <2>2. [pc |-> "posted", sid |-> s, emsk |-> e, token |-> t] \in AaaType
    BY DEF AaaType, Keys
  <2>. QED  BY <1>1, <2>1, <2>2 DEF export_key
<1>2. ASSUME NEW r \in AaaRuns, ExportTimeout(r) \/ ExportReset(r) PROVE TypeOK'
  <2>1. aaa' \in [AaaRuns -> AaaType]
    <3>1. [aaa EXCEPT ![r].pc = "failed"] \in [AaaRuns -> AaaType]
      BY PcTyped
    <3>. QED  BY <1>2, <3>1 DEF ExportTimeout, ExportReset
  <2>2. faults' \in 0..MaxFaults
    BY <1>2 DEF ExportTimeout, ExportReset, Fault
  <2>. QED  BY <1>2, <2>1, <2>2 DEF ExportTimeout, ExportReset
<1>3. ASSUME NEW r \in AaaRuns, Post(r) PROVE TypeOK'
  <2>1. CASE DenyPost(r)
    BY <2>1, PcTyped DEF DenyPost, Answer
  <2>2. CASE PostMark(r)
    BY <2>2, LogTyped DEF PostMark, Phases
  <2>3. CASE PostPut(r)
    <3>1. AsContext(aaa[r].emsk) \in AsContextType
      BY DEF AsContext, oscore_context_from_dsrk, AsContextType, AaaType
    <3>. QED  BY <2>3, <3>1 DEF PostPut
  <2>4. CASE PostAck(r)
    BY <2>4, PcTyped DEF PostAck, Answer
  <2>. QED
    BY <1>3, <2>1, <2>2, <2>3, <2>4 DEF Post
<1>4. ASSUME NEW u \in UeRuns, first_contact(u) PROVE TypeOK'
  <2>1. PICK s \in SessionIds, e \in Emsks :
            /\ ue' = [ue EXCEPT ![u] = [pc |-> "waiting", sid |-> s, emsk |-> e]]
            /\ log' = [log EXCEPT ![s].ueKey = e]
    BY <1>4 DEF first_contact
  <2>2. [pc |-> "waiting", sid |-> s, emsk |-> e] \in UeType
    BY DEF UeType, Keys
  <2>. QED  BY <1>4, <2>1, <2>2, LogTyped DEF first_contact
<1>5. ASSUME NEW u \in UeRuns, UeReceive(u) PROVE TypeOK'
  <2>. DEFINE ok == reply[u] # Refused /\ unprotect(UeContext(ue[u].emsk), reply[u])
  <2>1. ue' \in [UeRuns -> UeType]
    BY <1>5, PcTyped DEF UeReceive
  <2>2. log' \in [SessionIds -> LogType]
    BY <1>5, LogTyped DEF UeReceive, Phases
  <2>. QED  BY <1>5, <2>1, <2>2 DEF UeReceive
<1>6. ASSUME NEW u \in UeRuns, LoseDatagram(u) PROVE TypeOK'
  BY <1>6 DEF LoseDatagram, Fault
<1>7. ASSUME NEW u \in UeRuns, ContactTimeout(u) \/ ContactTimeoutEarly(u) PROVE TypeOK'
  <2>1. ue' \in [UeRuns -> UeType]
    <3>1. [ue EXCEPT ![u].pc = "failed"] \in [UeRuns -> UeType]
      BY PcTyped
    <3>. QED  BY <1>7, <3>1 DEF ContactTimeout, ContactTimeoutEarly
  <2>2. faults' \in 0..MaxFaults
    BY <1>7 DEF ContactTimeout, ContactTimeoutEarly, Fault
  <2>. QED  BY <1>7, <2>1, <2>2 DEF ContactTimeout, ContactTimeoutEarly
<1>8. ASSUME NEW u \in UeRuns, Serve(u) PROVE TypeOK'
  <2>1. CASE AsUnknown(u)
    BY <2>1 DEF AsUnknown
  <2>2. CASE AsLookup(u)
    <3>1. store[ue[u].sid] \in AsContextType
      BY <2>2 DEF AsLookup, Phases
    <3>2. cur' \in [ue: UeRuns \cup {NoUe}, ctx: AsContextType]
      BY <2>2, <3>1 DEF AsLookup
    <3>. QED  BY <2>2, <3>2 DEF AsLookup
  <2>3. CASE AsAccept(u)
    <3>1. protect(cur.ctx) \in ReplyType
      BY DEF protect, AsContextType, ReplyType
    <3>2. reply' \in [UeRuns -> ReplyType \cup {NoReply}]
      BY <2>3, <3>1 DEF AsAccept, SendTo
    <3>3. log' \in [SessionIds -> LogType]
      BY <2>3, LogTyped DEF AsAccept, Phases
    <3>4. asPc' \in {"serving", "closing"}
      BY <2>3 DEF AsAccept, AfterContact
    <3>. QED  BY <2>3, <3>2, <3>3, <3>4, IdleTyped DEF AsAccept
  <2>4. CASE AsRefuse(u)
    <3>1. Refused \in ReplyType
      BY DEF Refused, ReplyType, Keys
    <3>. QED  BY <2>4, <3>1, IdleTyped DEF AsRefuse, SendTo
  <2>. QED
    BY <1>8, <2>1, <2>2, <2>3, <2>4 DEF Serve
<1>9. CASE AsBind \/ AsExit
  BY <1>9 DEF AsBind, AsExit
<1>10. CASE AsKilled
  BY <1>10, IdleTyped DEF AsKilled, Fault
<1>11. CASE UNCHANGED vars
  BY <1>11 DEF vars
<1>. QED
  BY <1>1, <1>2, <1>3, <1>4, <1>5, <1>6, <1>7, <1>8, <1>9, <1>10, <1>11 DEF Next

-----------------------------------------------------------------------------
(* Who a run is does not change once it has started, and what it stored stays
   stored: only starts and changes of pc touch aaa and ue. *)
AaaSettled(r) ==
    /\ aaa[r].pc # "idle" => /\ aaa'[r].sid = aaa[r].sid
                             /\ aaa'[r].emsk = aaa[r].emsk
                             /\ aaa'[r].pc # "idle"
    /\ http[r] # "none" => http'[r] # "none"
    /\ Stored(r) => Stored(r)'

UeSettled(u) ==
    ue[u].pc # "idle" => /\ ue'[u].sid = ue[u].sid
                         /\ ue'[u].emsk = ue[u].emsk
                         /\ ue'[u].pc # "idle"

LEMMA Settled ==
    ASSUME TypeOK, Phases, [Next]_vars
    PROVE  (\A r \in AaaRuns : AaaSettled(r)) /\ (\A u \in UeRuns : UeSettled(u))
<1>1. ASSUME NEW q \in AaaRuns, export_key(q) \/ ExportTimeout(q) \/ ExportReset(q) \/ Post(q),
             NEW r \in AaaRuns
      PROVE  AaaSettled(r)
  <2>. USE <1>1 DEF TypeOK, AaaType, AaaSettled, Stored
  <2>1. CASE export_key(q)
    BY <2>1 DEF export_key, Phases
  <2>2. CASE ExportTimeout(q) \/ ExportReset(q)
    BY <2>2 DEF ExportTimeout, ExportReset
  <2>3. CASE DenyPost(q)
    BY <2>3 DEF DenyPost, Answer
  <2>4. CASE PostMark(q) \/ PostPut(q)
    BY <2>4 DEF PostMark, PostPut
  <2>5. CASE PostAck(q)
    BY <2>5 DEF PostAck, Answer
  <2>. QED  BY <2>1, <2>2, <2>3, <2>4, <2>5 DEF Post
<1>2. ASSUME NEW v \in UeRuns, first_contact(v) \/ UeReceive(v) \/ ContactTimeout(v) \/ ContactTimeoutEarly(v),
             NEW u \in UeRuns
      PROVE  UeSettled(u)
  BY <1>2 DEF first_contact, UeReceive, ContactTimeout, ContactTimeoutEarly, TypeOK, UeType, UeSettled
<1>3. UNCHANGED <<aaa, http>> => \A r \in AaaRuns : AaaSettled(r)
  BY DEF AaaSettled, Stored
<1>4. UNCHANGED ue => \A u \in UeRuns : UeSettled(u)
  BY DEF UeSettled
<1>5. UNCHANGED <<aaa, http>> \/ \E q \in AaaRuns : export_key(q) \/ ExportTimeout(q) \/ ExportReset(q) \/ Post(q)
  BY DEF Next, vars, first_contact, UeReceive, LoseDatagram, ContactTimeout, ContactTimeoutEarly,
         Serve, AsUnknown, AsLookup, AsAccept, AsRefuse, AsBind, AsExit, AsKilled
<1>6. UNCHANGED ue \/ \E v \in UeRuns : first_contact(v) \/ UeReceive(v) \/ ContactTimeout(v) \/ ContactTimeoutEarly(v)
  BY DEF Next, vars, export_key, ExportTimeout, ExportReset, Post, DenyPost, PostMark, PostPut, PostAck,
         LoseDatagram, Serve, AsUnknown, AsLookup, AsAccept, AsRefuse, AsBind, AsExit, AsKilled
<1>. QED  BY <1>1, <1>2, <1>3, <1>4, <1>5, <1>6

(* What was brought to a session stays brought. *)
LEMMA BroughtStays ==
    ASSUME TypeOK, Phases, [Next]_vars
    PROVE  \A s, e : /\ Brought(s, e) => Brought(s, e)'
                     /\ BroughtOther(s, e) => BroughtOther(s, e)'
<1>1. \A r \in AaaRuns : Stored(r) =>
          Stored(r)' /\ aaa'[r].sid = aaa[r].sid /\ aaa'[r].emsk = aaa[r].emsk
  <2>1. \A r \in AaaRuns : Stored(r) => aaa[r].pc # "idle"
    BY DEF Phases, Stored
  <2>. QED  BY <2>1, Settled DEF AaaSettled
<1>. QED  BY <1>1 DEF Brought, BroughtOther

(* Which actions touch the store, the loop's context, a reply and a success. *)
LEMMA Frame ==
    ASSUME TypeOK, [Next]_vars
    PROVE  /\ store' = store \/ \E r \in AaaRuns : PostPut(r)
           /\ cur' = cur \/ cur' = Idle \/ \E u \in UeRuns : AsLookup(u)
           /\ \A u \in UeRuns : \/ reply'[u] = reply[u] \/ reply'[u] = NoReply
                                \/ AsAccept(u) \/ AsRefuse(u)
           /\ \A u \in UeRuns : ue'[u].pc = "ok" => ue[u].pc = "ok" \/ UeReceive(u)
           /\ \A u \in UeRuns : ue[u].pc = "idle" => ue'[u].pc = "idle" \/ first_contact(u)
           /\ \A u \in UeRuns : u \in inbox' => u \in inbox \/ first_contact(u)
<1>. USE DEF TypeOK
<1>1. ASSUME NEW r \in AaaRuns, export_key(r) \/ ExportTimeout(r) \/ ExportReset(r) \/ Post(r)
      PROVE  /\ UNCHANGED <<ue, inbox, reply, cur>>
             /\ store' = store \/ PostPut(r)
  BY <1>1 DEF export_key, ExportTimeout, ExportReset, Post, DenyPost, PostMark, PostPut, PostAck
<1>2. ASSUME NEW v \in UeRuns, Serve(v)
      PROVE  /\ UNCHANGED <<ue, store>> /\ inbox' \subseteq inbox
             /\ cur' = cur \/ cur' = Idle \/ AsLookup(v)
             /\ \A u \in UeRuns : reply'[u] = reply[u] \/ AsAccept(u) \/ AsRefuse(u)
  BY <1>2 DEF Serve, AsUnknown, AsLookup, AsAccept, AsRefuse, SendTo
<1>3. ASSUME NEW v \in UeRuns, first_contact(v)
      PROVE  /\ UNCHANGED <<reply, cur, store>> /\ inbox' \subseteq inbox \cup {v}
             /\ \A u \in UeRuns : ue'[u].pc = IF u = v THEN "waiting" ELSE ue[u].pc
  BY <1>3 DEF first_contact, UeType
<1>4. ASSUME NEW v \in UeRuns, UeReceive(v) \/ ContactTimeout(v) \/ ContactTimeoutEarly(v)
      PROVE  /\ UNCHANGED <<inbox, cur, store>> /\ ue[v].pc = "waiting"
             /\ \A u \in UeRuns : reply'[u] = reply[u] \/ reply'[u] = NoReply
             /\ \A u \in UeRuns \ {v} : ue'[u] = ue[u]
             /\ ue'[v].pc = "failed" \/ UeReceive(v)
  BY <1>4 DEF UeReceive, ContactTimeout, ContactTimeoutEarly, UeType
<1>5. ASSUME NEW v \in UeRuns, LoseDatagram(v)
      PROVE  /\ UNCHANGED <<ue, cur, store>> /\ inbox' \subseteq inbox
             /\ \A u \in UeRuns : reply'[u] = reply[u] \/ reply'[u] = NoReply
  BY <1>5 DEF LoseDatagram
<1>6. ASSUME AsBind \/ AsExit \/ AsKilled \/ UNCHANGED vars
      PROVE  /\ UNCHANGED <<ue, reply, store>> /\ inbox' \subseteq inbox
             /\ cur' = cur \/ cur' = Idle
  BY <1>6 DEF AsBind, AsExit, AsKilled, vars
<1>7. CASE \E r \in AaaRuns : export_key(r) \/ ExportTimeout(r) \/ ExportReset(r) \/ Post(r)
  BY <1>1, <1>7
<1>8. CASE \E u \in UeRuns : Serve(u)
  BY <1>2, <1>8
<1>9. CASE \E u \in UeRuns : first_contact(u)
  BY <1>3, <1>9
<1>10. CASE \E u \in UeRuns : UeReceive(u) \/ ContactTimeout(u) \/ ContactTimeoutEarly(u)
  BY <1>4, <1>10
<1>11. CASE \E u \in UeRuns : LoseDatagram(u)
  BY <1>5, <1>11
<1>12. CASE AsBind \/ AsExit \/ AsKilled \/ UNCHANGED vars
  BY <1>6, <1>12
<1>. QED  BY <1>7, <1>8, <1>9, <1>10, <1>11, <1>12 DEF Next

-----------------------------------------------------------------------------
(* The parts of the inductive invariant, one at a time. *)
LEMMA PhasesStep ==
    ASSUME TypeOK, Phases, [Next]_vars
    PROVE  Phases'
<1>1. ASSUME NEW r \in AaaRuns
      PROVE  /\ aaa'[r].pc = "idle" => http'[r] = "none"
             /\ http'[r] # "none" => aaa'[r].sid \in SessionIds /\ aaa'[r].emsk \in Emsks
             /\ aaa'[r].pc = "idle" => aaa'[r].sid = NoId
             /\ aaa'[r].pc = "ok" => Stored(r)'
  <2>. USE DEF TypeOK, AaaType, Phases, Stored
  <2>1. ASSUME NEW q \in AaaRuns, export_key(q) PROVE <1>1!2
    BY <2>1 DEF export_key
  <2>2. ASSUME NEW q \in AaaRuns, ExportTimeout(q) \/ ExportReset(q) PROVE <1>1!2
    BY <2>2, SMTT(40) DEF ExportTimeout, ExportReset
  <2>3. ASSUME NEW q \in AaaRuns, DenyPost(q) PROVE <1>1!2
    BY <2>3 DEF DenyPost, Answer
  <2>4. ASSUME NEW q \in AaaRuns, PostMark(q) \/ PostPut(q) PROVE <1>1!2
    BY <2>4 DEF PostMark, PostPut
  <2>5. ASSUME NEW q \in AaaRuns, PostAck(q) PROVE <1>1!2
    BY <2>5 DEF PostAck, Answer
  <2>6. CASE UNCHANGED <<aaa, http>>
    BY <2>6
  <2>. QED
    BY <2>1, <2>2, <2>3, <2>4, <2>5, <2>6
       DEF Next, vars, Post, first_contact, UeReceive, LoseDatagram, ContactTimeout, ContactTimeoutEarly,
           Serve, AsUnknown, AsLookup, AsAccept, AsRefuse, AsBind, AsExit, AsKilled
<1>2. ASSUME NEW u \in UeRuns, ue'[u].pc = "idle"
      PROVE  u \notin inbox' /\ cur'.ue # u /\ reply'[u] = NoReply
  <2>1. ue[u].pc = "idle"
    BY <1>2, Settled DEF UeSettled
  <2>2. ~first_contact(u)
    BY <1>2 DEF first_contact, TypeOK, UeType
  <2>3. u \notin inbox'
    BY <2>1, <2>2, Frame DEF Phases
  <2>4. cur'.ue # u
    BY <2>1, Frame, BootstrapAssumption DEF Phases, AsLookup, Idle
  <2>5. reply'[u] = NoReply
    BY <2>1, Frame DEF Phases, AsAccept, AsRefuse
  <2>. QED  BY <2>3, <2>4, <2>5
<1>3. ASSUME NEW u \in UeRuns, ue'[u].pc # "idle"
      PROVE  ue'[u].sid \in SessionIds /\ ue'[u].emsk \in Emsks
  <2>1. CASE ue[u].pc = "idle"
    BY <2>1, <1>3, Frame DEF first_contact, TypeOK, UeType
  <2>2. CASE ue[u].pc # "idle"
    BY <2>2, Settled DEF UeSettled, Phases
  <2>. QED  BY <2>1, <2>2
<1>. QED  BY <1>1, <1>2, <1>3 DEF Phases

(* Only PostPut writes the store, and what it writes its own export brought. *)
LEMMA StoreStep ==
    ASSUME TypeOK, Phases, StoreBrought, [Next]_vars
    PROVE  StoreBrought'
<1>1. CASE store' = store
  BY <1>1, BroughtStays DEF StoreBrought
<1>2. ASSUME NEW r \in AaaRuns, PostPut(r) PROVE StoreBrought'
  <2>1. Brought(aaa[r].sid, aaa[r].emsk)'
    BY <1>2 DEF PostPut, Brought, Stored, TypeOK
  <2>2. aaa' = aaa /\ store' = [store EXCEPT ![aaa[r].sid] = AsContext(aaa[r].emsk)]
    BY <1>2 DEF PostPut
  <2>3. AsContext(aaa[r].emsk).key = aaa[r].emsk
    BY DEF AsContext, oscore_context_from_dsrk
  <2>4. ASSUME NEW s \in SessionIds, store'[s].key # NoKey PROVE Brought(s, store[s].key)'
    <3>1. CASE s = aaa[r].sid
      <4>1. store'[s].key = aaa[r].emsk
        BY <2>2, <2>3, <3>1 DEF TypeOK
      <4>. QED  BY <2>1, <2>2, <3>1, <4>1 DEF Brought
    <3>2. CASE s # aaa[r].sid
      <4>1. store'[s] = store[s]
        BY <2>2, <3>2 DEF TypeOK
      <4>2. Brought(s, store[s].key)
        BY <2>4, <4>1 DEF StoreBrought
      <4>. QED  BY <1>2, <4>1, <4>2 DEF Brought, Stored, PostPut, TypeOK
    <3>. QED  BY <3>1, <3>2
  <2>. QED  BY <2>4 DEF StoreBrought
<1>. QED  BY <1>1, <1>2, Frame

(* A context read before an overwrite was still brought by some export. *)
LEMMA CurStep ==
    ASSUME TypeOK, Phases, StoreBrought, CurBrought, [Next]_vars
    PROVE  CurBrought'
<1>1. CASE cur' = cur
  <2>1. cur.ue # NoUe => cur.ue \in UeRuns /\ ue'[cur.ue].sid = ue[cur.ue].sid
    BY Settled DEF UeSettled, Phases, TypeOK
  <2>. QED  BY <1>1, <2>1, BroughtStays DEF CurBrought, Brought
<1>2. CASE cur' = Idle
  BY <1>2 DEF CurBrought, Idle
<1>3. ASSUME NEW u \in UeRuns, AsLookup(u) PROVE CurBrought'
  <2>1. ue[u].sid \in SessionIds
    BY <1>3 DEF AsLookup, Phases
  <2>2. store[ue[u].sid].key # NoKey
    BY <1>3, <2>1 DEF AsLookup, TypeOK, AsContextType, NoContext, oscore_context_from_dsrk
  <2>3. Brought(ue[u].sid, store[ue[u].sid].key)'
    <3>1. Brought(ue[u].sid, store[ue[u].sid].key)
      BY <2>1, <2>2 DEF StoreBrought
    <3>. QED  BY <1>3, <3>1 DEF AsLookup, Brought, Stored
  <2>. QED  BY <1>3, <2>2, <2>3 DEF AsLookup, CurBrought, Brought
<1>. QED  BY <1>1, <1>2, <1>3, Frame

(* An answer is accepted or refused for the reason the invariant gives. *)
LEMMA ReplyStep ==
    ASSUME TypeOK, Phases, CurBrought, ReplyBrought, [Next]_vars, NEW u \in UeRuns
    PROVE  /\ reply'[u] = Refused => BroughtOther(ue[u].sid, ue[u].emsk)'
           /\ reply'[u] \notin {NoReply, Refused} => Brought(ue[u].sid, reply[u].key)'
<1>0. NoReply # Refused
  BY BootstrapAssumption DEF Refused
<1>1. CASE reply'[u] = NoReply
  BY <1>0, <1>1
<1>2. CASE reply'[u] = reply[u] /\ reply[u] # NoReply
  <2>1. ue[u].pc # "idle"
    BY <1>2 DEF Phases
  <2>2. ue'[u].sid = ue[u].sid /\ ue'[u].emsk = ue[u].emsk
    BY <2>1, Settled DEF UeSettled
  <2>3. reply[u] = Refused => BroughtOther(ue[u].sid, ue[u].emsk)'
    BY <2>2, BroughtStays DEF ReplyBrought, BroughtOther
  <2>4. reply[u] # Refused => Brought(ue[u].sid, reply[u].key)'
    BY <1>2, <2>2, BroughtStays DEF ReplyBrought, Brought
  <2>. QED  BY <1>2, <2>3, <2>4
<1>3. CASE AsAccept(u)
  <2>1. reply'[u] = reply[u] \/ reply'[u] = protect(cur.ctx)
    BY <1>3 DEF AsAccept, SendTo, TypeOK
  <2>2. protect(cur.ctx).key = cur.ctx.key /\ protect(cur.ctx) # Refused
    BY DEF protect, Refused, TypeOK, AsContextType, AS_SENDER_ID
  <2>3. Brought(ue[u].sid, cur.ctx.key)
    BY <1>3, BootstrapAssumption DEF AsAccept, CurBrought
  <2>4. UNCHANGED <<aaa, http, ue>>
    BY <1>3 DEF AsAccept
  <2>. QED  BY <1>1, <1>2, <2>1, <2>2, <2>3, <2>4 DEF Brought, Stored
<1>4. CASE AsRefuse(u)
  <2>1. reply'[u] = reply[u] \/ reply'[u] = Refused
    BY <1>4 DEF AsRefuse, SendTo, TypeOK
  <2>2. cur.ctx.key # ue[u].emsk
    BY <1>4 DEF AsRefuse, unprotect, protect, UeContext, oscore_context_from_dsrk, TypeOK, AsContextType
  <2>3. BroughtOther(ue[u].sid, ue[u].emsk)
    BY <1>4, <2>2, BootstrapAssumption DEF AsRefuse, CurBrought, Brought, BroughtOther
  <2>4. UNCHANGED <<aaa, http, ue>>
    BY <1>4 DEF AsRefuse
  <2>. QED  BY <1>1, <1>2, <2>1, <2>3, <2>4 DEF BroughtOther, Stored
<1>. QED  BY <1>1, <1>2, <1>3, <1>4, Frame

(* A run reports success on an answer under its own key. *)
LEMMA SameKeyStep ==
    ASSUME TypeOK, Phases, ReplyBrought, SameKey, [Next]_vars
    PROVE  SameKey'
<1>1. ASSUME NEW u \in UeRuns, ue'[u].pc = "ok"
      PROVE  Brought(ue[u].sid, ue[u].emsk)'
  <2>1. CASE ue[u].pc = "ok"
    <3>1. Brought(ue[u].sid, ue[u].emsk)
      BY <2>1 DEF SameKey, Brought
    <3>2. ue'[u].sid = ue[u].sid /\ ue'[u].emsk = ue[u].emsk
      BY <2>1, Settled DEF UeSettled
    <3>. QED  BY <3>1, <3>2, BroughtStays DEF Brought
  <2>2. CASE UeReceive(u)
    <3>1. reply[u] \notin {NoReply, Refused} /\ reply[u].key = ue[u].emsk
      BY <1>1, <2>2 DEF UeReceive, unprotect, UeContext, oscore_context_from_dsrk, TypeOK, UeType
    <3>2. Brought(ue[u].sid, ue[u].emsk)
      BY <3>1 DEF ReplyBrought
    <3>3. ue'[u].sid = ue[u].sid /\ ue'[u].emsk = ue[u].emsk
      BY <2>2 DEF UeReceive, TypeOK, UeType
    <3>. QED  BY <3>2, <3>3, BroughtStays DEF Brought
  <2>. QED  BY <1>1, <2>1, <2>2, Frame
<1>. QED  BY <1>1 DEF SameKey, Brought

(* A context is overwritten only by another export of the same session. *)
LEMMA StoredStep ==
    ASSUME TypeOK, Phases, StoredStays, [Next]_vars
    PROVE  StoredStays'
<1>. SUFFICES ASSUME NEW r \in AaaRuns, Stored(r)'
              PROVE  /\ store'[aaa'[r].sid].key # NoKey
                     /\ OnlyExport(r)' => store'[aaa'[r].sid].key = aaa'[r].emsk
  BY DEF StoredStays
<1>1. ASSUME NEW q \in AaaRuns, PostPut(q)
      PROVE  /\ store'[aaa'[r].sid].key # NoKey
             /\ OnlyExport(r)' => store'[aaa'[r].sid].key = aaa'[r].emsk
  <2>1. aaa' = aaa /\ http[q] = "marked" /\ http' = [http EXCEPT ![q] = "stored"]
        /\ store' = [store EXCEPT ![aaa[q].sid] = AsContext(aaa[q].emsk)]
    BY <1>1 DEF PostPut
  <2>2. aaa[q].sid \in SessionIds /\ aaa[q].emsk \in Emsks
    BY <2>1 DEF Phases
  <2>3. store'[aaa[q].sid].key = aaa[q].emsk /\ aaa[q].emsk # NoKey
    BY <2>1, <2>2, EmskAssumption DEF TypeOK, AsContext, oscore_context_from_dsrk
  <2>4. CASE aaa[r].sid = aaa[q].sid
    BY <2>1, <2>3, <2>4 DEF OnlyExport
  <2>5. CASE aaa[r].sid # aaa[q].sid
    <3>1. Stored(r)
      BY <2>1, <2>5 DEF Stored, TypeOK
    <3>2. store'[aaa[r].sid] = store[aaa[r].sid]
      BY <2>1, <2>5, <3>1 DEF TypeOK, Phases, Stored
    <3>. QED  BY <2>1, <3>1, <3>2 DEF StoredStays, OnlyExport
  <2>. QED  BY <2>4, <2>5
<1>2. CASE store' = store /\ ~\E q \in AaaRuns : PostPut(q)
  <2>1. Stored(r)
    BY <1>2 DEF Stored, TypeOK, Next, vars, Post, export_key, ExportTimeout, ExportReset, DenyPost,
                PostMark, PostAck, first_contact, UeReceive, LoseDatagram, ContactTimeout,
                ContactTimeoutEarly, Serve, AsUnknown, AsLookup, AsAccept, AsRefuse,
                AsBind, AsExit, AsKilled
  <2>2. aaa[r].pc # "idle" /\ aaa[r].sid \in SessionIds
    BY <2>1 DEF Stored, Phases
  <2>3. aaa'[r].sid = aaa[r].sid /\ aaa'[r].emsk = aaa[r].emsk
    BY <2>2, Settled DEF AaaSettled
  <2>4. OnlyExport(r)' => OnlyExport(r)
    <3>1. ASSUME NEW q \in AaaRuns \ {r}, aaa[q].sid = aaa[r].sid PROVE aaa'[q].sid = aaa'[r].sid
      <4>1. aaa[q].pc # "idle"
        BY <3>1, <2>2, BootstrapAssumption DEF Phases
      <4>. QED  BY <4>1, <3>1, <2>3, Settled DEF AaaSettled
    <3>. QED  BY <3>1 DEF OnlyExport
  <2>. QED  BY <1>2, <2>1, <2>3, <2>4 DEF StoredStays
<1>. QED  BY <1>1, <1>2, Frame

-----------------------------------------------------------------------------
LEMMA InitInv == Init => IInv
<1>. SUFFICES ASSUME Init PROVE IInv
  OBVIOUS
<1>. USE BootstrapAssumption DEF Init
<1>1. TypeOK
  <2>1. NoContext \in AsContextType
    BY DEF NoContext, oscore_context_from_dsrk, AsContextType, Keys
  <2>. QED  BY <2>1, IdleTyped DEF TypeOK, AaaType, UeType, LogType, Keys, Tokens
<1>2. Phases
  BY DEF Phases, Idle
<1>3. StoreBrought /\ CurBrought /\ ReplyBrought
  BY DEF StoreBrought, CurBrought, ReplyBrought, NoContext, oscore_context_from_dsrk, Idle, Refused
<1>4. SameKey /\ StoredStays
  BY DEF SameKey, StoredStays, Stored
<1>. QED  BY <1>1, <1>2, <1>3, <1>4 DEF IInv

LEMMA NextInv == IInv /\ [Next]_vars => IInv'
<1>. SUFFICES ASSUME IInv, [Next]_vars PROVE IInv'
  OBVIOUS
<1>1. TypeOK' /\ Phases'
  BY TypeStep, PhasesStep DEF IInv
<1>2. StoreBrought' /\ CurBrought' /\ SameKey' /\ StoredStays'
  BY StoreStep, CurStep, SameKeyStep, StoredStep DEF IInv
<1>3. ReplyBrought'
  BY ReplyStep DEF IInv, ReplyBrought
<1>. QED  BY <1>1, <1>2, <1>3 DEF IInv

(* The inductive invariant: every context the server holds or answers under was
   brought by a stored export, and a stored export stays until overwritten. *)
THEOREM BootstrapInductive == Spec => []IInv
BY InitInv, NextInv, PTL DEF Spec

(* ue_client.py reports success only under a key that aaa_keyexport.py brought
   to the same session, for any number of runs, overwrites and faults. *)
THEOREM SameKeyAlways == Spec => []SameKey
<1>1. IInv => SameKey
  BY DEF IInv
<1>. QED  BY <1>1, BootstrapInductive, PTL

(* app_server.py refuses a first contact only where another key was exported. *)
THEOREM RefusedMeansOtherKeyAlways == Spec => []RefusedMeansOtherKey
<1>1. IInv => RefusedMeansOtherKey
  BY DEF IInv, ReplyBrought, RefusedMeansOtherKey, BroughtOther
<1>. QED  BY <1>1, BootstrapInductive, PTL

(* The 200 that aaa_keyexport.py receives means that the session is known. *)
THEOREM AckMeansStoredAlways == Spec => []AckMeansStored
<1>1. IInv => AckMeansStored
  <2>. SUFFICES ASSUME IInv, NEW r \in AaaRuns, aaa[r].pc = "ok"
                PROVE  /\ store[aaa[r].sid] # NoContext
                       /\ OnlyExport(r) => store[aaa[r].sid] = AsContext(aaa[r].emsk)
    BY DEF AckMeansStored
  <2>1. Stored(r) /\ aaa[r].sid \in SessionIds
    BY DEF IInv, Phases, Stored
  <2>2. store[aaa[r].sid] \in AsContextType
    BY <2>1 DEF IInv, TypeOK
  <2>. QED
    BY <2>1, <2>2 DEF IInv, StoredStays, AsContextType, AsContext, NoContext, oscore_context_from_dsrk
<1>. QED  BY <1>1, BootstrapInductive, PTL

(* Every variable of the bootstrapping phase keeps its type. *)
THEOREM BootstrapTypeCorrect == Spec => []TypeOK
<1>1. IInv => TypeOK
  BY DEF IInv
<1>. QED  BY <1>1, BootstrapInductive, PTL

-----------------------------------------------------------------------------
(* What the log verify_session.py reads says while a run goes on: the last key
   each side logged is the run's own where nobody else uses its session id, and
   a success was logged before or with it. *)
AloneOn(u) == \A v \in UeRuns \ {u} : ue[v].sid # ue[u].sid

Marked(r) == http[r] \in {"marked", "stored", "acked"}

IdleUnnamed == \A u \in UeRuns : ue[u].pc = "idle" => ue[u].sid = NoId

LogUe == \A u \in UeRuns : ue[u].pc # "idle" /\ AloneOn(u) => log[ue[u].sid].ueKey = ue[u].emsk

LogAs == \A r \in AaaRuns : Marked(r) /\ OnlyExport(r) => log[aaa[r].sid].asKey = aaa[r].emsk

LogContact == \A u \in UeRuns : ue[u].pc = "ok" => log[ue[u].sid].contact = "success"

LogInv == IdleUnnamed /\ LogUe /\ LogAs /\ LogContact

(* Who writes which part of a log entry, and that a success stays logged. *)
LEMMA LogFrame ==
    ASSUME TypeOK, Phases, [Next]_vars, NEW s \in SessionIds
    PROVE  /\ log'[s].ueKey = log[s].ueKey \/ \E u \in UeRuns : first_contact(u)
           /\ log'[s].asKey = log[s].asKey \/ \E r \in AaaRuns : PostMark(r)
           /\ log[s].contact = "success" => log'[s].contact = "success"
<1>. USE DEF TypeOK, LogType
<1>1. ASSUME NEW r \in AaaRuns, export_key(r) \/ ExportTimeout(r) \/ ExportReset(r)
                                \/ DenyPost(r) \/ PostPut(r) \/ PostAck(r)
      PROVE  log' = log
  BY <1>1 DEF export_key, ExportTimeout, ExportReset, DenyPost, PostPut, PostAck
<1>2. ASSUME NEW r \in AaaRuns, PostMark(r)
      PROVE  log'[s].ueKey = log[s].ueKey /\ log'[s].contact = log[s].contact
  BY <1>2 DEF PostMark, Phases
<1>3. ASSUME NEW u \in UeRuns, first_contact(u)
      PROVE  log'[s].asKey = log[s].asKey /\ log'[s].contact = log[s].contact
  BY <1>3 DEF first_contact
<1>4. ASSUME NEW u \in UeRuns, UeReceive(u) \/ AsAccept(u)
      PROVE  /\ log'[s].ueKey = log[s].ueKey /\ log'[s].asKey = log[s].asKey
             /\ log[s].contact = "success" => log'[s].contact = "success"
  BY <1>4 DEF UeReceive, AsAccept, Phases
<1>5. ASSUME NEW u \in UeRuns, LoseDatagram(u) \/ ContactTimeout(u) \/ ContactTimeoutEarly(u)
                                \/ AsUnknown(u) \/ AsLookup(u) \/ AsRefuse(u)
      PROVE  log' = log
  BY <1>5 DEF LoseDatagram, ContactTimeout, ContactTimeoutEarly, AsUnknown, AsLookup, AsRefuse
<1>6. ASSUME AsBind \/ AsExit \/ AsKilled \/ UNCHANGED vars
      PROVE  log' = log
  BY <1>6 DEF AsBind, AsExit, AsKilled, vars
<1>. QED  BY <1>1, <1>2, <1>3, <1>4, <1>5, <1>6 DEF Next, Post, Serve

(* Only PostMark brings a POST to its log entry. *)
LEMMA MarkedFrame ==
    ASSUME TypeOK, [Next]_vars, NEW r \in AaaRuns, Marked(r)'
    PROVE  Marked(r) \/ PostMark(r)
<1>. USE DEF TypeOK, Marked
<1>1. ASSUME NEW q \in AaaRuns, export_key(q) \/ ExportTimeout(q) \/ ExportReset(q)
      PROVE  Marked(r)
  BY <1>1 DEF export_key, ExportTimeout, ExportReset
<1>2. ASSUME NEW q \in AaaRuns, DenyPost(q) \/ PostPut(q) \/ PostAck(q)
      PROVE  Marked(r)
  BY <1>2 DEF DenyPost, PostPut, PostAck
<1>3. ASSUME NEW q \in AaaRuns, PostMark(q)
      PROVE  Marked(r) \/ PostMark(r)
  BY <1>3 DEF PostMark
<1>4. CASE http' = http
  BY <1>4
<1>. QED
  BY <1>1, <1>2, <1>3, <1>4
     DEF Next, vars, Post, first_contact, UeReceive, LoseDatagram, ContactTimeout, ContactTimeoutEarly,
         Serve, AsUnknown, AsLookup, AsAccept, AsRefuse, AsBind, AsExit, AsKilled

(* A UE's log entry stays its own while nobody else starts on its session. *)
LEMMA LogUeStep ==
    ASSUME TypeOK, Phases, IdleUnnamed, LogUe, [Next]_vars
    PROVE  LogUe'
<1>. SUFFICES ASSUME NEW u \in UeRuns, ue'[u].pc # "idle", AloneOn(u)'
              PROVE  log'[ue'[u].sid].ueKey = ue'[u].emsk
  BY DEF LogUe
<1>1. CASE first_contact(u)
  BY <1>1 DEF first_contact, TypeOK, UeType, LogType
<1>2. CASE ue[u].pc # "idle"
  <2>1. ue'[u].sid = ue[u].sid /\ ue'[u].emsk = ue[u].emsk /\ ue[u].sid \in SessionIds
    BY <1>2, Settled DEF UeSettled, Phases
  <2>2. AloneOn(u)
    <3>1. ASSUME NEW v \in UeRuns \ {u}, ue[v].sid = ue[u].sid PROVE FALSE
      <4>1. ue[v].pc # "idle"
        BY <3>1, <2>1, BootstrapAssumption DEF IdleUnnamed
      <4>. QED  BY <4>1, <3>1, <2>1, Settled DEF UeSettled, AloneOn
    <3>. QED  BY <3>1 DEF AloneOn
  <2>3. ASSUME NEW v \in UeRuns, first_contact(v)
        PROVE  log'[ue[u].sid].ueKey = log[ue[u].sid].ueKey
    <3>1. v # u
      BY <2>3, <1>2 DEF first_contact
    <3>2. PICK s \in SessionIds, e \in Emsks :
              /\ ue' = [ue EXCEPT ![v] = [pc |-> "waiting", sid |-> s, emsk |-> e]]
              /\ log' = [log EXCEPT ![s].ueKey = e]
      BY <2>3 DEF first_contact
    <3>3. ue'[v].sid = s
      BY <3>2 DEF TypeOK
    <3>4. s # ue[u].sid
      BY <3>1, <3>3, <2>1 DEF AloneOn
    <3>. QED  BY <3>2, <3>4, <2>1 DEF TypeOK
  <2>. QED  BY <1>2, <2>1, <2>2, <2>3, LogFrame DEF LogUe
<1>. QED  BY <1>1, <1>2, Frame

(* So does the server's, while nobody else exports for the session. *)
LEMMA LogAsStep ==
    ASSUME TypeOK, Phases, LogAs, [Next]_vars
    PROVE  LogAs'
<1>. SUFFICES ASSUME NEW r \in AaaRuns, Marked(r)', OnlyExport(r)'
              PROVE  log'[aaa'[r].sid].asKey = aaa'[r].emsk
  BY DEF LogAs
<1>1. CASE PostMark(r)
  BY <1>1 DEF PostMark, TypeOK, LogType, Phases
<1>2. CASE Marked(r) /\ ~PostMark(r)
  <2>1. aaa[r].pc # "idle" /\ aaa[r].sid \in SessionIds
    BY <1>2 DEF Marked, Phases
  <2>2. aaa'[r].sid = aaa[r].sid /\ aaa'[r].emsk = aaa[r].emsk
    BY <2>1, Settled DEF AaaSettled
  <2>3. OnlyExport(r)
    <3>1. ASSUME NEW q \in AaaRuns \ {r}, aaa[q].sid = aaa[r].sid PROVE FALSE
      <4>1. aaa[q].pc # "idle"
        BY <3>1, <2>1, BootstrapAssumption DEF Phases
      <4>. QED  BY <4>1, <3>1, <2>2, Settled DEF AaaSettled, OnlyExport
    <3>. QED  BY <3>1 DEF OnlyExport
  <2>4. ASSUME NEW q \in AaaRuns, PostMark(q)
        PROVE  log'[aaa[r].sid].asKey = log[aaa[r].sid].asKey
    <3>1. q # r /\ aaa[q].sid # aaa[r].sid
      BY <2>3, <2>4, <1>2 DEF PostMark, Marked, OnlyExport
    <3>. QED  BY <3>1, <2>4, <2>1 DEF PostMark, TypeOK, Phases
  <2>. QED  BY <1>2, <2>1, <2>2, <2>3, <2>4, LogFrame DEF LogAs
<1>. QED  BY <1>1, <1>2, MarkedFrame

(* A run reports its success into the log, where successes stay. *)
LEMMA LogContactStep ==
    ASSUME TypeOK, Phases, LogContact, [Next]_vars
    PROVE  LogContact'
<1>. SUFFICES ASSUME NEW u \in UeRuns, ue'[u].pc = "ok"
              PROVE  log'[ue'[u].sid].contact = "success"
  BY DEF LogContact
<1>1. CASE ue[u].pc = "ok"
  BY <1>1, Settled, LogFrame DEF UeSettled, Phases, LogContact
<1>2. CASE UeReceive(u)
  BY <1>2 DEF UeReceive, TypeOK, UeType, LogType, Phases
<1>. QED  BY <1>1, <1>2, Frame

(* The log invariant is inductive beside IInv. *)
LEMMA LogStep == IInv /\ LogInv /\ [Next]_vars => LogInv'
<1>. SUFFICES ASSUME IInv, LogInv, [Next]_vars PROVE LogInv'
  OBVIOUS
<1>1. TypeOK /\ Phases
  BY DEF IInv
<1>2. IdleUnnamed'
  <2>. SUFFICES ASSUME NEW u \in UeRuns, ue'[u].pc = "idle" PROVE ue'[u].sid = NoId
    BY DEF IdleUnnamed
  <2>1. ue[u].pc = "idle"
    BY <1>1, Settled DEF UeSettled
  <2>2. ue'[u] = ue[u]
    <3>. USE <1>1, <2>1 DEF TypeOK, UeType
    <3>1. ~first_contact(u)
      BY DEF first_contact
    <3>2. ASSUME NEW v \in UeRuns, first_contact(v) \/ UeReceive(v) \/ ContactTimeout(v) \/ ContactTimeoutEarly(v)
          PROVE  ue'[u] = ue[u]
      BY <3>1, <3>2 DEF first_contact, UeReceive, ContactTimeout, ContactTimeoutEarly
    <3>3. UNCHANGED ue \/ \E v \in UeRuns : first_contact(v) \/ UeReceive(v)
                                              \/ ContactTimeout(v) \/ ContactTimeoutEarly(v)
      BY DEF Next, vars, export_key, ExportTimeout, ExportReset, Post, DenyPost, PostMark, PostPut,
             PostAck, LoseDatagram, Serve, AsUnknown, AsLookup, AsAccept, AsRefuse, AsBind, AsExit, AsKilled
    <3>. QED  BY <3>2, <3>3
  <2>. QED  BY <2>1, <2>2 DEF LogInv, IdleUnnamed
<1>. QED  BY <1>1, <1>2, LogUeStep, LogAsStep, LogContactStep DEF LogInv

(* verify_session.py never has to doubt a success on a session id used once:
   by the time ue_client.py reports it, both keys and the contact are logged. *)
THEOREM OkIsRecordedAlways == Spec => []OkIsRecorded
<1>1. Init => LogInv
  BY DEF Init, LogInv, IdleUnnamed, LogUe, LogAs, LogContact, Marked
<1>2. IInv /\ LogInv => OkIsRecorded
  <2>. SUFFICES ASSUME IInv, LogInv, NEW u \in UeRuns, ue[u].pc = "ok", UsedOnce(u)
                PROVE  Verdict(ue[u].sid)
    BY DEF OkIsRecorded
  <2>1. PICK r \in AaaRuns : Stored(r) /\ aaa[r].sid = ue[u].sid /\ aaa[r].emsk = ue[u].emsk
    BY DEF IInv, SameKey
  <2>2. OnlyExport(r) /\ Marked(r)
    BY <2>1 DEF UsedOnce, OnlyExport, Marked, Stored
  <2>3. log[ue[u].sid].asKey = ue[u].emsk
    BY <2>1, <2>2 DEF LogInv, LogAs
  <2>4. log[ue[u].sid].ueKey = ue[u].emsk
    BY DEF LogInv, LogUe, AloneOn, UsedOnce
  <2>5. ue[u].emsk # NoKey
    BY EmskAssumption DEF IInv, Phases
  <2>6. log[ue[u].sid].contact = "success"
    BY DEF LogInv, LogContact
  <2>. QED  BY <2>3, <2>4, <2>5, <2>6 DEF Verdict
<1>. QED  BY <1>1, <1>2, LogStep, BootstrapInductive, PTL DEF Spec

-----------------------------------------------------------------------------
(* The runs that have succeeded or are about to be told so: each was counted. *)
Winners == {u \in UeRuns : ue[u].pc = "ok" \/ reply[u] \notin {NoReply, Refused}}

Counted == IsFiniteSet(Winners) /\ Cardinality(Winners) <= served

(* The loop goes on only below the limit. *)
WithinExpect ==
    Expect # 0 => /\ served <= Expect
                  /\ asPc \in {"starting", "serving"} => served < Expect

(* A contact joins the winners only where AsAccept counts it. *)
LEMMA WinnersFrame ==
    ASSUME TypeOK, [Next]_vars
    PROVE  \/ Winners' \subseteq Winners /\ served' = served
           \/ \E u \in UeRuns : AsAccept(u) /\ Winners' \subseteq Winners \cup {u}
<1>. USE DEF TypeOK
<1>1. ASSUME NEW r \in AaaRuns, export_key(r) \/ ExportTimeout(r) \/ ExportReset(r) \/ Post(r)
      PROVE  UNCHANGED <<ue, reply, served>>
  BY <1>1 DEF export_key, ExportTimeout, ExportReset, Post, DenyPost, PostMark, PostPut, PostAck
<1>2. ASSUME NEW u \in UeRuns, AsAccept(u)
      PROVE  Winners' \subseteq Winners \cup {u}
  BY <1>2 DEF AsAccept, SendTo, Winners
<1>3. ASSUME NEW u \in UeRuns, AsUnknown(u) \/ AsLookup(u) \/ AsRefuse(u)
      PROVE  Winners' \subseteq Winners /\ served' = served
  BY <1>3 DEF AsUnknown, AsLookup, AsRefuse, SendTo, Winners
<1>4. ASSUME NEW u \in UeRuns, first_contact(u) \/ LoseDatagram(u) \/ ContactTimeout(u) \/ ContactTimeoutEarly(u)
      PROVE  Winners' \subseteq Winners /\ served' = served
  BY <1>4 DEF first_contact, LoseDatagram, ContactTimeout, ContactTimeoutEarly, Winners, UeType
<1>5. ASSUME NEW u \in UeRuns, UeReceive(u)
      PROVE  Winners' \subseteq Winners /\ served' = served
  BY <1>5 DEF UeReceive, Winners, UeType
<1>6. ASSUME AsBind \/ AsExit \/ AsKilled \/ UNCHANGED vars
      PROVE  UNCHANGED <<ue, reply, served>>
  BY <1>6 DEF AsBind, AsExit, AsKilled, vars
<1>7. UNCHANGED <<ue, reply, served>> => Winners' \subseteq Winners /\ served' = served
  BY DEF Winners
<1>. QED  BY <1>1, <1>2, <1>3, <1>4, <1>5, <1>6, <1>7 DEF Next, Serve

LEMMA CountedStep ==
    ASSUME TypeOK, Counted, [Next]_vars
    PROVE  Counted'
<1>1. CASE Winners' \subseteq Winners /\ served' = served
  <2>1. IsFiniteSet(Winners') /\ Cardinality(Winners') <= Cardinality(Winners)
    BY <1>1, FS_Subset DEF Counted
  <2>2. Cardinality(Winners) \in Nat /\ Cardinality(Winners') \in Nat
    BY <2>1, FS_CardinalityType DEF Counted
  <2>. QED  BY <1>1, <2>1, <2>2 DEF Counted, TypeOK
<1>2. ASSUME NEW u \in UeRuns, AsAccept(u), Winners' \subseteq Winners \cup {u}
      PROVE  Counted'
  <2>. DEFINE W == Winners \cup {u}
  <2>1. IsFiniteSet(W) /\ Cardinality(W) <= Cardinality(Winners) + 1 /\ Cardinality(Winners) \in Nat
    BY FS_AddElement, FS_CardinalityType DEF Counted
  <2>2. IsFiniteSet(Winners') /\ Cardinality(Winners') <= Cardinality(W)
    BY <1>2, <2>1, FS_Subset
  <2>3. Cardinality(Winners') \in Nat /\ Cardinality(W) \in Nat
    BY <2>1, <2>2, FS_CardinalityType
  <2>4. served' = served + 1
    BY <1>2 DEF AsAccept
  <2>. QED  BY <2>1, <2>2, <2>3, <2>4 DEF Counted, TypeOK
<1>. QED  BY <1>1, <1>2, WinnersFrame

LEMMA WithinExpectStep ==
    ASSUME TypeOK, WithinExpect, [Next]_vars
    PROVE  WithinExpect'
<1>. USE BootstrapAssumption DEF TypeOK, WithinExpect
<1>1. ASSUME NEW u \in UeRuns, AsAccept(u) PROVE WithinExpect'
  BY <1>1 DEF AsAccept, AfterContact
<1>2. CASE AsBind \/ AsExit \/ AsKilled
  BY <1>2 DEF AsBind, AsExit, AsKilled
<1>3. CASE UNCHANGED <<asPc, served>>
  BY <1>3
<1>. QED
  BY <1>1, <1>2, <1>3
     DEF Next, vars, Post, export_key, ExportTimeout, ExportReset, DenyPost, PostMark, PostPut, PostAck,
         first_contact, UeReceive, LoseDatagram, ContactTimeout, ContactTimeoutEarly,
         Serve, AsUnknown, AsLookup, AsRefuse

(* --expect N: never more than N runs of ue_client.py report success, however
   many are queued, answered late or told so after the server has gone. *)
THEOREM ExpectHonouredAlways == Spec => []ExpectHonoured
<1>1. Init => Counted /\ WithinExpect
  <2>. SUFFICES ASSUME Init PROVE Counted /\ WithinExpect
    OBVIOUS
  <2>1. Winners = {}
    BY DEF Init, Winners
  <2>. QED  BY <2>1, FS_EmptySet, BootstrapAssumption DEF Init, Counted, WithinExpect
<1>2. TypeOK /\ Counted /\ WithinExpect /\ [Next]_vars => Counted' /\ WithinExpect'
  BY CountedStep, WithinExpectStep
<1>3. TypeOK /\ Counted /\ WithinExpect => ExpectHonoured
  <2>. SUFFICES ASSUME TypeOK, Counted, WithinExpect, Expect # 0
                PROVE  Cardinality({u \in UeRuns : ue[u].pc = "ok"}) <= Expect
    BY DEF ExpectHonoured
  <2>. DEFINE Ok == {u \in UeRuns : ue[u].pc = "ok"}
  <2>1. Ok \subseteq Winners
    BY DEF Winners
  <2>2. IsFiniteSet(Ok) /\ Cardinality(Ok) <= Cardinality(Winners)
    BY <2>1, FS_Subset DEF Counted
  <2>3. Cardinality(Ok) \in Nat /\ Cardinality(Winners) \in Nat
    BY <2>2, FS_CardinalityType DEF Counted
  <2>. QED  BY <2>2, <2>3, BootstrapAssumption DEF Counted, WithinExpect, TypeOK
<1>. QED  BY <1>1, <1>2, <1>3, BootstrapTypeCorrect, PTL DEF Spec
===============================================================================
