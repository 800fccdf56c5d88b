--------------------------------- MODULE Eap ---------------------------------
(* The EAP packets of secondary authentication, as SMF, relay, UE and DN-AAA
   pass them on: the SMF's Response/Identity, or an EDHOC wire. *)

Identity(id) == [kind |-> "identity", id |-> id]

EdhocPacket(id, wire) == [kind |-> "edhoc", id |-> id, wire |-> wire]
=============================================================================
