----------------------------- MODULE MCBanMesh -----------------------------
(* Instances of BanMesh for TLC.                                           *)
EXTENDS BanMesh, TLC
CONSTANTS n1, n2, i1, h1, h2
=============================================================================
