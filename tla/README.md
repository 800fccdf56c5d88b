# Formal model of EAP-EDHOC secondary authentication and key bootstrapping

TLA+ specifications, TLC configurations and TLAPS proofs for the secondary
authentication this repository adds to a 5G stack: a UE authenticates to the
authentication server of a data network (DN-AAA) with EAP-EDHOC, method 4
(post-quantum: XWING KEM and ML-DSA-44), after its PDU session is up, and both
ends then bootstrap an application key from the exported EMSK.  The classical
EDHOC methods 0 to 3, the benchmark peer that runs all five straight over RADIUS,
and the PDU session an authentication lives in are modelled too.

## 1. The system

```
 UE (UERANSIM)        SMF (Open5GS)          UPF (Open5GS)        DN-AAA (FreeRADIUS)
 NasSm            N1  gsm-sm.c           UDP eap-relay.c   RADIUS rlm_eap + rlm_eap_edhoc
 EDHOC initiator <--> EAP pass-through  <--> relay thread <-----> EDHOC responder
        via AMF, gNB
```

| part | code | state it keeps | operations |
|---|---|---|---|
| fragmentation wrapper | `UERANSIM/src/ue/nas/sm/transport.cpp` 22-127, `rlm_eap_edhoc.c` 153-284, `edhoc4.h` 65-69 | bytes to send and position; announced total, position and bytes received | encode a fragment, queue a message, parse a wire |
| EDHOC method 4 | `edhoc4/edhoc4.c` | context: ephemeral key, transcript hashes, key chain, done flag | make/handle messages 1 to 4, export MSK/EMSK |
| UE 5GSM layer, authentication | `transport.cpp`, `sm.hpp` | **one** context, round (-1, 1, 2, 3) and pair of buffers per UE | Authentication Command, Authentication Result, 5GSM STATUS |
| UE 5GSM layer, sessions | `sm/establishment.cpp`, `release.cpp`, `procedure.cpp`, `timer.cpp`, `allocation.cpp`, `resource.cpp` | per PSI a session, per PTI a transaction with its message and timer | establish, release, their answers, T3580 and T3582, sessions the configuration requires |
| sessions in the network | `amf/gmm-handler.c`, `amf/nsmf-handler.c`, `smf/gsm-sm.c`, `smf-sm.c`, `nsmf-handler.c`, `context.c`, `pfcp-sm.c` | per PSI: at the AMF the SMF's reference, the last 5GSM message and the requests without an answer; at the SMF a session with its state, PTI, policy requests and the stream to reply on | create, update, release on request, release of a duplicate, release after a UPF is lost |
| SMF, authentication | `smf/gsm-sm.c`, `radius-client.c`, `timer.c`, `context.[ch]` | per PDU session: in_progress, RADIUS State, start timer | setup response, start, Complete, relay exchange (blocking, 2 s), challenge, verdict |
| N1 path | `amf/namf-handler.c`, `nas-path.c` | messages under way | deliver, or drop when the UE has no NG context |
| UPF relay | `upf/eap-relay.c` | one request at a time | read a request, RADIUS exchange (2 s), answer; start and stop |
| DN-AAA, receiving | `freeradius-v3/src/main/process.c` | live requests with their replies | new request, duplicate, run, finish, delayed reject, cleanup |
| DN-AAA, EAP | `rlm_eap_edhoc.c`, `rlm_eap/mem.c`, `eap.c`, `rlm_eap.c` | session table keyed by State and EAP id; per session trips, round, mode, buffers, context | identity, mod_process, reject, abort after 50 trips, expire |
| classical EDHOC | `edhoc4/edhoc03.c` | context | methods 0 to 3, used by the benchmark peer and the DN-AAA |
| benchmark peer | `benchmark/e2e_radius_bench.c` | a second initiator, straight over RADIUS | fragment engine, request retransmission |
| bootstrapping | `bootstrap/*` | application server: a context per session id, contacts served; a log all tools append to | export a DSRK (HTTP POST, one thread each), first contact (UDP, one loop), shutdown after `--expect` contacts, verdict over the log |

The parts interact by messages only.  The SMF's exchange with the relay blocks
its single event loop; the relay serves one request at a time, each with a fresh
RADIUS socket.  Both waits last two seconds, so the SMF may give up before the
relay does, and the relay goes on to serve requests nobody waits for.

What is hard here, and what each part must guarantee:

* **One handshake, many sessions.**  The UE keeps one EDHOC state for all PDU
  sessions and never ties a command to a handshake.  Key agreement must survive
  every interleaving of sessions; success must be for the key both ends hold.
* **Lock-step over unreliable parts.**  EAP allows one packet under way.  The SMF
  checks neither in_progress nor the EAP identifier when a Complete arrives; that
  no late or second packet exists has to follow from everything else.
* **Two timeouts and stale requests.**  A request that was given up on still
  moves the DN-AAA on, or creates a session nobody will continue.
* **Nothing watches the UE.**  No timer runs while the SMF waits for the UE.
* **Three programs, one store.**  Exports and contacts meet in the application
  server in any order; nothing is retried, so what an acknowledgement, a refusal
  or a success means has to hold for every interleaving of their steps.
* **Identities that are used again.**  A PDU session is known by its PSI and asked
  for under a PTI, both handed out again lowest first.  A timer, a late answer or a
  release from the other side must not hit the session that came after.
* **Copies of a request.**  The benchmark peer resends and takes any datagram for
  the answer; FreeRADIUS must process a request once and repeat its reply.
* **Stopping.**  The relay's socket is closed under a thread that may be in any of
  its calls.
* **Boundaries.**  Fragments at the capacities, messages at the buffer size,
  round trips at FreeRADIUS's limit.

`PROJECT.json` lists each of these hazards at its line, with the properties that
would catch it.

## 2. Modules

| module | models |
|---|---|
| `EdhocFrag` | the wrapper: capacities, wires, `EncodeEdhocFragment`, `edhoc_queue_outgoing`, `ParseEdhocWire`/`edhoc_consume_incoming` |
| `FragTransfer` | one message crossing the wrapper, in either direction |
| `MessageTransfer` | what the wrapper promises: a message comes across in pieces and is handed on whole |
| `FragTransferProofs` | the theorems about it |
| `Edhoc` | methods 0 to 4, symbolically: which message a context accepts, which key it has |
| `EdhocKeys` | the key schedules behind `Edhoc`, as terms: transcript hashes, key chains, MACs, signatures, static keys, and the ratchet |
| `EdhocKeysProofs` | the theorems about it |
| `Eap` | the two kinds of EAP packet |
| `N1Link`, `RelayLink`, `RadiusLink` | the three links: what is under way, and what may be lost |
| `UeNasSm` | the UE: one action per outcome of the command handler |
| `SmfSecAuth` | the SMF: timer, start, Complete, and the outcomes of an exchange |
| `UpfEapRelay` | the relay thread |
| `RelayLifecycle` | the relay's start and stop, and the thread in between |
| `RelayLifecycleProofs` | the theorems about it |
| `RlmEapEdhoc` | the DN-AAA: session table and `mod_process`, both its branches |
| `SecAuth` | the composition, the timeouts and faults, and the properties |
| `SecAuthProofs` | its types, and the theorems about turns, States, verdicts and orphaned sessions |
| `SecAuthKeyProofs` | the theorem about its keys, and the refinement of `AuthService` |
| `AuthService` | what the composition promises each PDU session |
| `MCSecAuth` | the symmetry set of `SecAuth` for TLC |
| `FreeRadius` | how `RlmEapEdhoc` gets its requests: duplicates, workers, delays |
| `RadiusBench` | the benchmark peer against it |
| `RadiusBenchProofs` | the theorems about it |
| `PduSessions` | PDU sessions: UE, AMF and SMF |
| `PduSessionsProofs` | the theorems about it |
| `MCPduSessions` | its configured sessions for TLC |
| `Oscore` | the bootstrapping key schedule and OSCORE, symbolically |
| `Bootstrap` | exports, first contacts, the application server between them, and the log |
| `BootstrapProofs` | the theorems about it |

How the state corresponds to the code:

* **Bytes.**  A run of bytes is `[msg, off, len]`: len bytes of message msg from
  offset off.  Joining runs that do not continue each other gives `Junk`, which
  no EDHOC handler accepts.  So the arithmetic of fragmentation is exact while
  contents stay symbolic.
* **Wires.**  The flag byte is the record fields `lenFlag` (0x80), `more` (0x40)
  and `start` (0x01, which the parsers ignore); the 16-bit total is kept modulo
  65536.
* **Cryptography.**  A message names the initiator's ephemeral key and the
  responder's session it belongs to.  Decapsulation, AEAD, MAC and signature
  succeed exactly on a whole message of the run the context is in: all keys
  depend on both contributions through the transcript hashes.  Failures of the
  primitives themselves and of allocation are not modelled.
* **UE.**  `ueRound`, `ueCtx`, `ueIn`, `ueOut`, `ueProvisioned` are the members
  of `NasSm`.  `ueCreds` says whether the credential files are readable, a choice
  of the initial state.  `ueKeys` and `ueConfirmed` are history variables.
* **SMF.**  `smf[p]` is `sess->sec_auth` plus the start events in the queue;
  `smfWait` is the session whose `recvfrom` blocks the event loop, and every other
  SMF action is disabled while it does.
* **DN-AAA.**  `aaa[s]` joins `eap_handler_t` (trips, EAP id, presence in the
  table) and `edhoc_session_t`.  A State attribute is `[sid, trip]`: FreeRADIUS
  keeps 16 random bytes per session and mixes the trip into them.  One action
  stands for finding the session, running the method and putting it back; the
  handler is out of the table meanwhile, so nothing can observe the middle.
* **Bootstrapping.**  A context is `[key, sender, recipient]`: USRK, DSRK, Master
  Secret and Salt depend on the EMSK alone.  Each run of `aaa_keyexport.py` and of
  `ue_client.py` is an element of a set and is started once, with any session id
  and EMSK.  `http[r]` is how far the thread of a POST is (queued, key logged,
  stored, acknowledged).  The datagram loop reads the store in one step
  (`AsLookup`) and verifies and answers in another, so an overwrite can fall in
  between.  `log[s]` is what `verify_session.py` takes from the log: the last key
  logged by each side and whether a success was logged.  The socket is bound
  after the HTTP thread has started; a datagram sent earlier is lost.
* **Links.**  N1 keeps its order: the messages of one UE share one NGAP
  association and one radio link.  RADIUS requests may be served in any order.  A
  request carries `open`: whether its sender still waits.  Answers to closed
  sockets go nowhere.
* **Key schedules.**  In `EdhocKeys` a hash, an extracted or an expanded key is the
  tuple of its inputs under a label, a key pair is its secret, a shared secret the
  pair of the keys.  Each message is kept with what it is to module `Edhoc`, so that
  what a handler accepts by its keys can be compared with what `Edhoc` says it
  accepts.  Any message made may reach any run that waits for one.
* **Relay.**  `main` and `thread` are where the two threads are; `gRunning`, `gSock`
  are the globals they share, read without a lock; `open` says whether the
  descriptor is.  A thread that waits in `recvfrom` keeps the socket alive after the
  close, as Linux does.
* **FreeRADIUS.**  `request[k]` is the `REQUEST` in the packet list, `k` standing
  for source port, identifier and authenticator together.  Workers run one at a
  time: of two requests with one State the second finds no session either way.
  `cleanup_delay` ending before a copy arrives is a fault.  An identifier reused
  under another authenticator does not occur: the peer has one request at a time.
* **Benchmark peer.**  `eng` is `eng_t`; a socket lives as long as its handshake, so
  what arrives later is for nobody.  A drop on purpose is a choice, not a
  probability.
* **PDU sessions.**  `ps[i]` and `pt[i]` are `m_pduSessions` and
  `m_procedureTransactions`; a transaction is active when it holds a message.
  `inst` is a history variable: which request the session stems from.  The UE is
  registered and CM-CONNECTED throughout, where an aborted release tells the
  network nothing about sessions (`register.cpp` 212-217).  Releasing all sessions at
  the console is several `PsRelease`.
* **PDU sessions in the network.**  `smf[i].state` is the state of the SMF's session
  machine: `active` is `smf_gsm_state_operational`, then `wait_pfcp_deletion`,
  `wait_5gc_n1_n2_release` and `5gc_session_will_deregister`.  The PCF, UPF and UDM
  answer in steps of their own (`PolicyDeleted`, `PfcpSessionDeleted`,
  `UecmDeregistered`), which the SMF takes in whatever state it is in by then.
  `asked` counts the policy deletions under way by who asked: the UE, the AMF for a
  duplicate, the SMF itself.  The first two have the stream the request came on; the
  SMF's own has none, and its answer looks one up by the number of the transaction
  (`smf-sm.c` 825-844).  Mostly there is none (`PolicyDeletedAgain`); if there is, it
  is another request's, which then has its answer (`RejectOnOtherStream`): a deletion
  becomes `lost`, or `open`, the stream the SMF is to reply on, is gone, and
  `ogs_assert(stream)` ends the SMF (`Abort`; the network of the model ends with it).
  `amf[i].ref` is `SESSION_CONTEXT_IN_SMF`; an Establishment Request for a session
  that has it goes through `ReleaseDuplicate`, and the session is created when the
  UDM has answered.  `last` is the payload container, from which the AMF builds the
  request and which it sends back, whatever it is, a STATUS too; `waiting` counts the
  requests the SMF never answers (`wait_pfcp_deletion` ignores updates), which end in
  `ClientWait`.  The gNB answers a release command at once, so that its part comes
  before the UE's Release Complete.

What the actions leave out: log output, length and magic checks of the
side-channel that its two ends cannot fail against each other, RADIUS attribute
layout, and the branches of the UE handler for other EAP types, which this
DN-AAA never sends.  Loss of an answer is covered by a timeout taken before the
request is served; loss on the uplink and of a Result has no effect the model
could tell from a lost command (a Result changes nothing at the UE).

## 3. Runs

| run | configuration | instance | shows |
|---|---|---|---|
| `frag_transfer` | `FragTransfer.cfg` | every length 1..8192, both directions, real capacities | `Reassembled`, `NeverRejected`, `WireFits`, `FragmentCount`, `ImplementsTransfer` |
| `sessions` | `SecAuthSessions.cfg` | 3 PDU sessions, 3 setups, 3 DN-AAA sessions, 2 faults, real message and fragment sizes | `TypeOK`, `KeyAgreement`, `TripsToSpare`, `OneTurn`, `StateIsCurrent`, `OrphansArePaidFor`, `VerdictIsOwn`, `StallCauses` |
| `auth_service` | `SecAuthService.cfg` | 2 PDU sessions, 3 setups, 1 fault | `ImplementsAuthService`, `Authenticates` |
| `exchange` | `SecAuthExchange.cfg` | 1 PDU session set up twice, 2 faults, 4 trips | `ExchangeEnds`, `FailureReported` |
| `retry_after_reset` | `SecAuthRetry.cfg` | 2 PDU sessions, nothing lost | `RetryAfterReset` is violated |
| `bootstrap` | `Bootstrap.cfg` | 2 exports, 2 contacts, 1 session id, 2 keys, 1 fault, `--expect 1` | `SameKey`, `RefusedMeansOtherKey`, `AckMeansStored`, `ExpectHonoured`, `OkIsRecorded`, `RunsEnd`, `FirstContactSucceeds` |
| `bootstrap_verdict` | `BootstrapVerdict.cfg` | 1 session id, 1 fault | `VerdictNeedsUe` is violated |
| `edhoc_keys` | `EdhocKeys.cfg` | 2 initiator and 2 responder runs, methods 0 to 4 | `AcceptsOwnOnly`, `MskOfOneRun`, `RatchetKeysExchanged` |
| `relay_lifecycle` | `RelayLifecycle.cfg` | 3 requests | `StopIsClean`, `LostOnlyByStop`, `Served`, `JoinReturns` |
| `relay_stop` | `RelayStop.cfg` | 2 requests | `StopReturns` is violated |
| `radius_bench` | `RadiusBench.cfg` | 2 handshakes of methods 3 and 4, 2 drops, 2 resends, 1 fault | `OneSessionPerHandshake`, `PassMeansKey`, `AllPass`, `HandshakesEnd` |
| `pdu_sessions` | `PduSessions.cfg` | 1 PSI, 2 PTIs, 2 sessions, 1 release of each side, 1 loss or timeout, 2 of these three together | `ReplyHasStream`, `EstablishmentKeepsSession`, `ReleaseKeepsSession`, `TransactionsEnd`, `EstablishmentEnds` |

**Bounds.**  `MaxSetups` bounds setup responses, `MaxSids` the DN-AAA sessions,
`MaxFaults` the timeouts that race an answer, losses and expiries; timeouts that
nothing can avert are not counted.  `sessions` uses the sizes `edhoc4.c` computes
(2354, 6000, 4975, 1232 bytes in wires of 1000): a handshake takes 15 round trips of
the 50 FreeRADIUS allows, alone or interleaved.  Three setups are enough for one
session to finish, one to fail against its leftovers and one to start in between;
two faults let a stale request and a lost one combine.  The PDU sessions are
interchangeable, so safety is checked up to their permutation; runs with liveness
use no symmetry.  Those take wires of 6 bytes and messages of 5, 9, 4 and 4 bytes:
each takes two fragments and message_2 fills the buffer.  `exchange` lowers
FreeRADIUS's limit to 4 trips so that it is reached, which no handshake of this UE
does with 50.

In `Bootstrap` two exports and two contacts on one session id give the overwrite
between lookup and answer, two POSTs that interleave, and a contact behind the
last one served; `MaxFaults` bounds losses, kills and timeouts that race an answer.
Sessions only meet in the count of contacts; the theorems hold for any number of
them.

With two resends, two drops cannot use up a request of the benchmark peer, so that
every handshake must pass; two drops and a fault can.  `EdhocKeys` needs two runs on
each side for a message to reach a run it was not made for.  In `PduSessions` one
PSI and two PTIs force their reuse, which the code's 15 and 254 only delay; a
procedure is given up at the second expiry, not the fifth, so that retransmission
and abort both happen.  `MaxEvents` bounds releases and faults together: every
crossing is one of two of them, with a reactivation or a duplicate beside.  A
session asked for and a release of the SMF's count against the same two
(`MaxSessions`), since the latter makes the UE ask again.  With one PSI the stream
that is hit by mistake is one of the same session; that another session's may be is
in the model and in the proofs, for any number of sessions.

**Refinements.**  `FragTransfer` implements `MessageTransfer` with the receiver's
position for what has come across (`ImplementsTransfer`, liveness included).
`SecAuth` implements `AuthService` (`ImplementsAuthService`): a session runs while
it is in progress and someone has its turn, is stuck when it is in progress and
nobody has, and the UE's confirmed keys and the DN-AAA's successes are the keys
confirmed and granted.

**Deadlock** is not checked: with setups used up and nothing under way the
system is idle, which is where a real one waits for the next setup.

**Fairness.**  `SecAuth!Fairness` is weak fairness of each part (each is a loop
that serves what is in front of it) and of the timeouts nothing can avert
(`SO_RCVTIMEO` on both sockets).  None is assumed of the RAN, of faults, or of a
timeout that still might be averted.  `FragTransfer` has weak fairness of its next
step: both ends answer every packet.  `Bootstrap` has weak fairness of the threads,
the loop and the timeouts (`urlopen`, `settimeout`) that nothing can avert, none of
starts and faults.  `RelayLifecycle` has it of the relay thread and of a stop once
begun, none of senders; `RadiusBench` of the peer and the server; `PduSessions` of
the UE's timers and of its NAS task only, since the UE's procedures must end
whatever the network does.

**Findings.**

* `retry_after_reset`: `transport.cpp` line 372 resets the UE "for a possible
  retry" and sends a 5GSM STATUS.  The SMF does not know that message, stays in
  progress and refuses every later start.  Two sessions that authenticate at the
  same time reach this with nothing lost.
* `bootstrap_verdict`: `bootstrappingkey.md` lines 58-59 have the UE record whether
  its first contact succeeded, and `verify_session.py` line 46 calls the mark it
  looks for `ue_ok`.  The server writes the same mark before it replies: when the
  reply is lost the UE fails and the session's verdict is success.
* `relay_stop`: the UPF's stop closes the socket and joins the thread; a thread that
  waits in `recvfrom` is not woken by the close, so with no traffic the UPF never
  terminates.  `JoinReturns` says that it does once the thread is not waiting there.

**What the conditions in the properties say.**  Several properties hold only with a
condition that the code does not rule out; each names a behaviour worth knowing:

* `StallCauses` has two causes: besides the 5GSM STATUS above, a command the AMF
  drops (`nas-path.c` 1073).  `spesifikasi.md` line 61 gives the SMF "start,
  retransmit, success/failure"; there is no retransmission, and by
  `ImplementsAuthService` a stuck session stays so.  The same refinement says that a
  UE process completes one handshake in its life: round 3 is never left.
* `RatchetKeysExchanged` is where the ratchet ends: `mermaid.md` lines 326 and 331
  have both ends replace their static keys by those of EAD_3 and EAD_4, but no code
  reads `peer_new_pk` again (`edhoc4.c` 577, 622).
* `ReleaseKeepsSession` names what makes a Release Request outlive its session, so
  that T3582 may repeat it under the identity of the next one: a command of the
  network's that carries another PTI (`release.cpp` 133), be it a release of its own
  (PTI 0) or an answer after a 5GSM STATUS changed `sess->pti`; or a second
  transaction of the same PSI, which a second release at the console gives, since
  nothing enters INACTIVE_PENDING (`release.cpp` 20-52).  `EstablishmentKeepsSession`
  has the second cause only, and only if that other transaction is stale already.
* `EstablishmentEnds` excepts a Release Reject that takes the transaction of an
  establishment (`spent.taken`).  `receiveReleaseReject` frees the transaction of its
  PTI whatever it is for (`release.cpp` 77), and the establishment's timer goes with
  it.  TLC gives two ways to it: a late reject under reused identities, and, with no
  release asked for by the UE, a reject that the answer to one of the SMF's own
  deletions sends on the stream of the AMF's release of a duplicate.
* `ReplyHasStream` excepts a release of the SMF's own.  The answer to its policy
  deletion, sent without a stream (`pfcp-sm.c` 535), looks up a stream by the number of
  its transaction (`smf-sm.c` 825-844, `gsm-sm.c` 1827 and 2087).  Where the numbers
  meet, a Release Reject answers the request of somebody else, and the SMF ends at
  `ogs_assert(stream)` (`gsm-sm.c` 1753, `smf-sm.c` 941) when it comes to reply to
  that one.  Releases of the UE's and of duplicates alone never do this, however they
  overlap.
* A 5GSM message of a session the SMF does not have is sent back, a STATUS too, and
  the UE answers it with a STATUS (`gmm-handler.c` 1512, `transport.cpp` 485): the two
  may go on for ever.  The other properties hold beside that.

## 4. Proofs

`FragTransferProofs` proves, for **every** wire limit, header size, buffer size
below 65536 and message length (`FragAssumption`, `MsgAssumption`):

| theorem | property |
|---|---|
| `TypeCorrect` | `TypeOK` |
| `ReassembledAlways` | `Reassembled` |
| `NeverRejectedAlways` | `NeverRejected` |
| `AckMeansPendingAlways` | `AckMeansPending` |
| `WireFitsAlways` | `WireFits` |
| `FragmentCountAlways` | `FragmentCount` |
| `Refines` | the safety part of `ImplementsTransfer` |

None of these is inductive alone: that the buffer is complete when MORE is clear
depends on what the sender has sent.  `IInv` therefore ties both ends to one
offset, the receiver's `in.pos`: while a wire is in flight it is the fragment that
starts there and the sender is one fragment ahead; after an acknowledgement both
are at the same place.  The lemmas follow the code: `FragmentShape` (what
`EncodeEdhocFragment` produces), `ReceiveLast` and `ReceiveMore` (what
`ParseEdhocWire` does with it), `Advanced` and `QueueIsFragment` (the two senders
amount to the same), then one lemma per action.  `TypeCorrect` is proved on top of
`IInv`, and so are `Refines`, where every received fragment is a `Piece` and every
other step stutters, and `FragmentCountAlways`, from an invariant of its own
(`CountInv`) that ties the wires sent to the offset reached.

`BootstrapProofs` proves, for **any** sets of runs, session ids and keys, any
`--expect` and any number of faults (`BootstrapAssumption`, `EmskAssumption`: the
null values are not ordinary ones):

| theorem | property |
|---|---|
| `BootstrapTypeCorrect` | `TypeOK` |
| `SameKeyAlways` | `SameKey` |
| `RefusedMeansOtherKeyAlways` | `RefusedMeansOtherKey` |
| `AckMeansStoredAlways` | `AckMeansStored` |
| `OkIsRecordedAlways` | `OkIsRecorded` |
| `ExpectHonouredAlways` | `ExpectHonoured` |

The key a success is reported under passes through the store, the context the loop
has read and the reply, and the store may change in between.  The inductive
invariant therefore says of all three places that some stored export brought the
key to that session (`StoreBrought`, `CurBrought`, `ReplyBrought`), with `Phases`
for what a run that has not started cannot have done.  `Settled` and
`BroughtStays` say that none of this can be undone, `Frame` which actions touch
which place; the rest is one lemma per part.  Two more invariants rest on it:
`LogInv` (what each side logged is its own key where nobody shares its session id)
gives `OkIsRecorded`, and `Counted` (the runs that succeeded or have a good reply
waiting are at most the contacts served) gives `ExpectHonoured`.

`RelayLifecycleProofs` proves, for **any** set of requests (`RelayAssumption`):

| theorem | property |
|---|---|
| `TypeCorrect` | `TypeOK` |
| `StopIsCleanAlways` | `StopIsClean` |
| `LostOnlyByStopAlways` | `LostOnlyByStop` |

What a stop leaves behind depends on what the other thread can still see, so the
inductive invariant says, for each place of the main thread, what the globals are
(`MainInv`), that a socket that is gone holds nothing (`SocketInv`), and where a
request with a given fate is (`FateInv`).

`SecAuthProofs` and `SecAuthKeyProofs` prove, for **any** PDU sessions, message
lengths, wire limits, setups, faults and DN-AAA sessions (the named assumptions of
the component modules):

| theorem | property |
|---|---|
| `TypeCorrect` | `TypeOK` |
| `OneTurnAlways` | `OneTurn` |
| `StallCausesAlways` | `StallCauses` |
| `VerdictIsOwnAlways` | `VerdictIsOwn` |
| `StateIsCurrentAlways` | `StateIsCurrent` |
| `DebtInductive` | (the invariant below) |
| `OrphansArePaidForAlways` | `OrphansArePaidFor` |
| `KeyInductive` | (`KeyInv`, below) |
| `KeyAgreementAlways` | `KeyAgreement` |
| `RefinesAuthService` | the safety part of `ImplementsAuthService` |

`TypeInv` states the type of each part; the lemmas follow the calls from
`ParseEdhocWire` up to the handlers of UE, SMF, relay and module.  On top of it come
three invariants.  `TurnInv`: a session in progress has one command, or one answer,
or the SMF waits for its exchange, never two of these; one that is over has none.
`LockInv`: only the exchange the SMF waits for is open, on the relay's socket and on
the RADIUS side (`SocketInv`); a State held or carried belongs to a session already
opened (`CreatedInv`), to one PDU session only and to no other request (`HoldInv`);
a live answer names the session whose State the SMF sent, and a live accept one that
succeeded (`AnswerInv`).  Without `HoldInv` the late answer to an exchange given up
could be taken for the next one's: that it cannot is a fact about all queues at
once.  `CurrentOf` adds the trip number and the EAP identifier, which agree only
while the UE has the turn.

`OrphansArePaidFor` counts sessions in the states where nothing is under way, and a
session may be lost long before that: the SMF gives up while its identity is still in
the relay's queue, and the DN-AAA opens the session later, for nobody.  `DebtInv`
therefore counts in every state: the listed sessions that no challenge under way names
and no PDU session will continue (`Owed`), and the identities queued at the relay and
at the DN-AAA whose requester has gone (`StaleRelay`, `StaleRadius`), are together at
most `faults`.  A step without a fault turns a stale identity into an owed session, or
passes it on; a fault adds one, because the exchange under way has one request or one
session to lose (`Exposed`, `OpenRelay` and `OpenRadius` have one element between
them).  `PaidInv` supplies what this needs of the exchange that is alive: its request
asks for the next packet of the session it names, so the DN-AAA does not drop it
(`AsksInv`), and its answer continues the session the SMF holds or finds it ended
(`SettlesInv`).  `DebtInv` and `PaidInv` were checked by TLC on the constants of
`sessions` before they were proved.  The proof uses `RspAssumption`: "no answer" is
not itself an answer.

`KeyAgreement` is the hardest.  The UE has one context and one pair of buffers for all
its PDU sessions, and the module takes any empty wire under the right State for the
acknowledgement of message_4: a UE busy with another attempt could send one for a
message_4 it never read.  `KeyInv` says why it does not.

* Where things come from: a message_3 from a UE with that key, messages 2 and 4 from
  the session they name (`OriginInv`); a session past its first round, the key the UE
  derived with it and the UE's own attempt agree (`SessionsInv`, `KeysInv`,
  `AttemptInv`); nobody has more of message_1 than was sent (`CoverInv`).
* What ends a session: no State under way is ahead of its session (`TripInv`); a
  packet under the State of the last of message_4 has its bytes and no MORE
  (`LastInv`); an empty answer under that State is from a UE that confirmed the key
  (`AckInv`).
* Why `AckInv` holds (`OrderInv`): take a session whose key the UE has derived and not
  seen confirmed, with a packet still under way (`Old`).  A UE in its later rounds is
  in that very attempt.  A UE that has begun a new one is in its first round and stays
  there until the old packet is gone, for one of three reasons: the old packet
  reaches it before anything of the new attempt comes back (`Ahead`: the N1 queues
  keep their order and the SMF waits for one exchange at a time); or the old packet
  left foreign bytes in its buffer, and no message_2 comes out of it (`Polluted`); or a
  fragment of the new message_1 answered the old packet and went to a session that
  is past its first round, so that no session gets the whole (`Spoiled`).

`KeyInv` was checked by TLC on the PDU sessions, setups and sizes of `sessions`
before it was proved, and so was that each of the three cases occurs.

`RefinesAuthService` puts these together: `Spec => Auth!Init /\ [][Auth!Next]_(Auth!vars)`.
`PhaseStep` follows a session as the service sees it: a step changes the phase of one
session at most, from idle to running or from running to idle or stuck, and it is the
SMF's or a lost command.  `OnceStep` and `GrantAaa` follow the keys: only the UE
confirms one, only the DN-AAA grants access, and then for a confirmed key not granted
before.  This needs `ServiceInv`:

* `OnceInv`: a UE that has seen a key confirmed is in round 3, for good.
* `StartsInv`: the ephemeral keys the UE has drawn are at most as many as the DN-AAA's
  sessions, so that the keys are among the service's.  Each stands for a session whose
  Start has reached the UE and is not under way again.
* `StaleInv`: the late answer to an exchange given up names a session that no PDU
  session holds and no answer to the SMF names.  Without it, the one Start of a
  session might come twice.

`PduSessionsProofs` proves, for **any** number of identities, transactions,
configured sessions, expiries, releases, losses and timeouts (`Bounds`):

| theorem | property |
|---|---|
| `ReplyHasStreamAlways` | `ReplyHasStream` |
| `EstablishmentKeepsSessionAlways` | `EstablishmentKeepsSession` |
| `ReleaseKeepsSessionAlways` | `ReleaseKeepsSession` |

`Types` (with `UeInv` for the UE's two tables) and `StreamsInv` make the first
inductive: as long as the SMF has started no release, no policy answer to come is
without a stream, a session that waits for its PFCP deletion has an open one, and so
has one that is released for the AMF until the UDM has answered.  The two action properties need a step
relation that composes: `NoNewStale` says a handler leaves no transaction without
its session that was not so before, and it is transitive, so that the UE's handlers,
which call one another, are proved one by one.  The loop that sets up the configured
sessions is followed by its least remaining index.  An attempt to prove earlier,
stronger forms of the two failed for a good reason: they held only because the runs'
bounds allowed too few transactions, and the properties now name the case that
breaks them.

`EdhocKeysProofs` proves, for **any** runs and methods (`RunsAssumption`,
`NullAssumption`):

| theorem | property |
|---|---|
| `CanonicalAlways` | `Canonical` |
| `AcceptsOwnOnlyAlways` | `AcceptsOwnOnly` |
| `MskOfOneRunAlways` | `MskOfOneRun` |
| `RatchetKeysExchangedAlways` | `RatchetKeysExchanged` |

`Canonical` says that every context and every message is the term its initiator's
run, its responder's run and its method determine.  Both ends of a run compute the
same terms by different routes (encapsulation and decapsulation); the transcript
hashes TH_2 to TH_4 determine the runs they are of; so a handler that compares a tag
accepts exactly the messages `Edhoc` says.

`RadiusBenchProofs` proves, for **any** number of handshakes, resends, drops, faults
and request slots (`BenchAssumption`, `FreeRadiusAssumption`):

| theorem | property |
|---|---|
| `BenchInductive` | `BenchInv` |
| `OneSessionPerHandshakeAlways` | `OneSessionPerHandshake` |
| `PassInductive` | `PassInv` |
| `PassMeansKeyAlways` | `PassMeansKey` |

A copy of an identity may be anywhere between the peer and the server, and the
server's cache of requests may be emptied under it.  `PaidFor` counts, beside the
sessions opened, the identities that are about and not yet served (`Opening`): a
handshake or a clean-up fault pays for one, a resend pays for none because it has the
key of the first copy.  `ServerInv`, `CountersInv` and `SessionsInv` are what the
count needs to know of the cache, the keys and the sessions.

The peer takes whatever arrives in its socket, so that a pass means a key is a fact
about everything in flight.  `PassInv` traces it: some `own` says for which handshake
each session was opened, a State belongs to that handshake (`StateOf`), and so do the
bytes of a request and of a session's buffer (`PacketOf`, `SessionOf`): a message_3
names the session the peer has accepted, and a session in round 2 has had it.  Two
ways lead to an accept.  A classical message_3 is made only by a peer that is done
(`EngMsgs`).  An empty acknowledgement ends method 4 only under the State of the last
of message_4 (`Final`), which has no MORE, and a peer that answers such a wire with
no bytes has verified it (`Reacts`).  A new trip number makes every older request
harmless, and a clean-up fault, which may open a second session for one handshake,
is no exception.

The other type invariants, and `AckMeansPending` of `FragTransfer`, are proved and
not listed in a run.  Only model-checked:

* all liveness (`RunsEnd`, `ExchangeEnds`, `Served`, ...), the fairness of
  `ImplementsTransfer` and the `RunsEnd` of `ImplementsAuthService`: out of the proof
  system's reach;
* `TripsToSpare`, which is about the actual sizes and limits and false for others.

## 5. Not modelled, and the plan

Most of the repository's lines are vendored or generated: Open5GS, UERANSIM and
FreeRADIUS with their ASN.1 and OpenAPI code, PQClean and OpenSSL-based tooling.
What secondary authentication uses of them is modelled; the rest is not what this
project is about, and the share of lines the map names is small by that nature.

* **Failures of the PCF, the UPF and the UDM** in a release: their answers come, in
  any order with everything else, and say that it is done.  Creating a session and the
  answer to it are one step.  An answer of the UDM's subscription step may look up a
  stream by a transaction's number as well; where its own stream is gone the model
  goes straight to the failed assertion.
* **Generated codecs and packet layouts** (NGAP, NAS, GTP, RADIUS attributes, the
  side-channel): conversions without protocol state.
* **Rest of the 5G core and of the RAN**: registration, handover, EPC, roaming,
  charging.  Of the UE's NAS layer, local releases after a Service Accept or a
  deregistration, session modification, and a 5GSM STATUS from the network, which
  this SMF does not send.
* **EAP-TLS benchmarks, timing and statistics**: no protocol state of the system.
* **C port of the bootstrapping key schedule**: a second implementation that only
  its self-test calls; the output of HKDF is below the symbolic level.
* **Key generation**: writes files.  **ProVerif model**: another formal model of the
  same handshake, not code.
* **FreeRADIUS**: `max_sessions`, conflicting requests, proxying.

Next: the **release of a PDU session during its authentication**, `PduSessions` and
`SmfSecAuth` put together, with the start timer and the blocked event loop.
