----------------------------- MODULE Rendezvous -----------------------------
(***************************************************************************)
(* What the tunnel server promises whoever it makes wait for a client: a   *)
(* request that is put to the client is settled, and once only, with the   *)
(* client's own answer or refusal to that request, or by giving up.  The   *)
(* client may answer late, or never.  ProxyRendezvous and HttpTunnel        *)
(* implement this specification.                                           *)
(***************************************************************************)
CONSTANT Requests

VARIABLES
  outcome,   \* how a request stands on the server
  reply      \* what the client has said to it

vars == <<outcome, reply>>

Replies  == {"answer", "refusal"}
Outcomes == Replies \cup {"idle", "waiting", "gaveUp"}

Init == /\ outcome = [r \in Requests |-> "idle"]
        /\ reply = [r \in Requests |-> "none"]

Ask(r) == /\ outcome[r] = "idle"
          /\ outcome' = [outcome EXCEPT ![r] = "waiting"]
          /\ UNCHANGED reply

Reply(r, v) == /\ outcome[r] # "idle" /\ reply[r] = "none"
               /\ reply' = [reply EXCEPT ![r] = v]
               /\ UNCHANGED outcome

Settle(r) == /\ outcome[r] = "waiting" /\ reply[r] # "none"
             /\ outcome' = [outcome EXCEPT ![r] = reply[r]]
             /\ UNCHANGED reply

GiveUp(r) == /\ outcome[r] = "waiting"
             /\ outcome' = [outcome EXCEPT ![r] = "gaveUp"]
             /\ UNCHANGED reply

Next == \E r \in Requests :
          \/ Ask(r) \/ Settle(r) \/ GiveUp(r)
          \/ \E v \in Replies : Reply(r, v)

Spec == /\ Init /\ [][Next]_vars
        /\ \A r \in Requests : WF_vars(Settle(r) \/ GiveUp(r))

SafeSpec == Init /\ [][Next]_vars
=============================================================================
