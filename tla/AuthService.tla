----------------------------- MODULE AuthService -----------------------------
(***************************************************************************)
(* What the secondary authentication promises, without messages, fragments *)
(* or relays: each PDU session is authenticated in runs that end or get    *)
(* stuck, a stuck one is never run again, the UE completes one handshake   *)
(* in its life, and the DN-AAA grants access only for the key of that one. *)
(***************************************************************************)
CONSTANTS Psis, Keys

VARIABLES
    session,    \* session[p]: "idle", "running" or "stuck"
    confirmed,  \* keys of handshakes the UE has completed
    granted     \* keys the DN-AAA has granted access for

vars == <<session, confirmed, granted>>

Init ==
    /\ session = [p \in Psis |-> "idle"]
    /\ confirmed = {}
    /\ granted = {}

Move(p, from, to) ==
    /\ session[p] = from
    /\ session' = [session EXCEPT ![p] = to]
    /\ UNCHANGED <<confirmed, granted>>

Confirm(k) ==
    /\ confirmed = {}
    /\ confirmed' = {k}
    /\ UNCHANGED <<session, granted>>

Grant(k) ==
    /\ k \in confirmed \ granted
    /\ granted' = granted \cup {k}
    /\ UNCHANGED <<session, confirmed>>

Next ==
    \/ \E p \in Psis : \/ Move(p, "idle", "running")
                       \/ Move(p, "running", "idle")
                       \/ Move(p, "running", "stuck")
    \/ \E k \in Keys : Confirm(k) \/ Grant(k)

(* No run goes on for ever. *)
RunsEnd == \A p \in Psis : session[p] = "running" ~> session[p] # "running"

Spec == Init /\ [][Next]_vars /\ RunsEnd
=============================================================================
