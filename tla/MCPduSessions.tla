--------------------------- MODULE MCPduSessions ---------------------------
(* The configured session of the runs of PduSessions. *)
EXTENDS PduSessions

OneDefault == <<"internet">>
=============================================================================
