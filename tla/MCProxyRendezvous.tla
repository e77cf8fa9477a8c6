------------------------- MODULE MCProxyRendezvous --------------------------
(* Instances of ProxyRendezvous for TLC.                                   *)
EXTENDS ProxyRendezvous
CONSTANT p1
=============================================================================
