--------------------------- MODULE MCReverseProxy ---------------------------
(* Instances of ReverseProxy for TLC.                                      *)
EXTENDS ReverseProxy, TLC
CONSTANTS d1, d2, h1, h2, r1, r2

\* d2 is configured without backends, and h2 matches neither domain
MCSize == [d \in Domains |-> IF d = d1 THEN 2 ELSE 0]
MCContains == [h \in Hosts |-> IF h = h1 THEN {d1} ELSE {}]
=============================================================================
