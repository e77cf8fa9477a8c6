-------------------------- MODULE MCTunnelRegistry --------------------------
(* Instances of TunnelRegistry for TLC.                                    *)
EXTENDS TunnelRegistry, TLC
CONSTANTS s1, s2, s3, c1, c2, i1, d1, d2

\* two processes on one host, with the default client id
SharedId == [c \in Clients |-> i1]

\* sound where all clients have one id
SharedSymmetry ==
  Permutations(Sessions) \cup Permutations(Subdomains) \cup Permutations(Clients)
=============================================================================
