---------------------------- MODULE MCHttpTunnel ----------------------------
(* Instances of HttpTunnel for TLC.                                        *)
EXTENDS HttpTunnel
CONSTANTS r1, r2, s1, s2
=============================================================================
