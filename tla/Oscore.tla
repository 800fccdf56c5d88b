-------------------------------- MODULE Oscore --------------------------------
(***************************************************************************)
(* The OSCORE contexts of the bootstrapping phase (keyschedule.py and      *)
(* oscore_lite.py), symbolically: USRK, DSRK, Master Secret and Salt are   *)
(* functions of the EMSK alone, so a context is its EMSK and the two ids;  *)
(* a Sender Key is fixed by the EMSK and the sender's id, and the AEAD     *)
(* opens exactly what was sealed with the same key for the same id.        *)
(***************************************************************************)

CONSTANTS Emsks,        \* the EMSKs that EAP-EDHOC runs export
          NoKey

ASSUME EmskAssumption == NoKey \notin Emsks

UE_SENDER_ID == "UE"
AS_SENDER_ID == "AS"
SenderIds == {UE_SENDER_ID, AS_SENDER_ID}

oscore_context_from_dsrk(emsk, sender, recipient) ==
    [key |-> emsk, sender |-> sender, recipient |-> recipient]

UeContext(emsk) == oscore_context_from_dsrk(emsk, UE_SENDER_ID, AS_SENDER_ID)

(* Mutant: the Application Server derives its context with the UE's ids. *)
AsContextUeIds(emsk) == UeContext(emsk)

AsContext(emsk) == oscore_context_from_dsrk(emsk, AS_SENDER_ID, UE_SENDER_ID)

NoContext == oscore_context_from_dsrk(NoKey, AS_SENDER_ID, UE_SENDER_ID)

protect(ctx) == [kid |-> ctx.sender, key |-> ctx.key]

(* Mutant: the AEAD tag is not verified. *)
unprotect_no_tag(ctx, m) == m.kid = ctx.recipient

(* The kid check, then the AEAD under the Recipient Key. *)
unprotect(ctx, m) == m.kid = ctx.recipient /\ m.key = ctx.key
===============================================================================
