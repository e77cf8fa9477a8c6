--------------------------- MODULE MCTunnelClient ---------------------------
(* The tunnel client's control connection, by itself. *)
EXTENDS TunnelClient
=============================================================================
