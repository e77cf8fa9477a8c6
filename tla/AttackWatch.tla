---------------------------- MODULE AttackWatch ----------------------------
(***************************************************************************)
(* How the WAF decides that it is under attack.  rpsCounter publishes the  *)
(* requests of the last second, attackDetector compares what is published  *)
(* with the threshold, adaptiveSampler feeds it to the learners: three     *)
(* goroutines with a ticker of one second each, in no fixed order, so a    *)
(* value may be read twice or replaced before anybody has read it.         *)
(* Alerts go out with a cool-down per type that other nodes of the mesh    *)
(* can start as well.                                                      *)
(***************************************************************************)
EXTENDS Integers, FiniteSets

CONSTANTS
  MaxLoad,        \* most requests in a second
  RPSThreshold,   \* Emergency.RPSThreshold
  CalmTicks,      \* normal readings in a row that end an attack (10)
  Cooldown        \* seconds between two alerts of one type

ASSUME WatchAssumption ==
  /\ MaxLoad \in Nat /\ RPSThreshold \in Nat
  /\ CalmTicks \in Nat \ {0} /\ Cooldown \in Nat

VARIABLES
  requests,       \* TotalRequests - lastTotal
  CurrentRPS, PeakRPS,
  IsUnderAttack,
  normalCount,
  globalRPS,      \* detection.currentGlobalRPS
  ticked,         \* the goroutines that have run in this second
  silent,         \* seconds an alert type is still suppressed
  alerted,        \* type of the last alert that went out
  loud            \* published values above the threshold in a row (history)

watchVars == <<requests, CurrentRPS, PeakRPS, IsUnderAttack, normalCount,
               globalRPS, ticked, silent, alerted, loud>>

Tickers == {"rpsCounter", "attackDetector", "adaptiveSampler"}
AlertTypes == {"attack_start", "attack_end"}

WatchInit ==
  /\ requests = 0 /\ CurrentRPS = 0 /\ PeakRPS = 0
  /\ IsUnderAttack = FALSE /\ normalCount = 0
  /\ globalRPS = 0
  /\ ticked = {}
  /\ silent = [t \in AlertTypes |-> 0]
  /\ alerted = "none"
  /\ loud = 0

\* handleRequest counts the request before anything else.
CountRequest ==
  /\ requests < MaxLoad
  /\ requests' = requests + 1
  /\ UNCHANGED <<CurrentRPS, PeakRPS, IsUnderAttack, normalCount, globalRPS,
                 ticked, silent, alerted, loud>>

\* canSend and the message it lets out; sending is asynchronous.
Send(type) ==
  IF silent[type] > 0
  THEN UNCHANGED <<silent, alerted>>
  ELSE /\ silent' = [silent EXCEPT ![type] = Cooldown]
       /\ alerted' = type

SendAttackStart == Send("attack_start")
SendAttackEnd == Send("attack_end")

rpsCounter ==
  /\ "rpsCounter" \notin ticked
  /\ ticked' = ticked \cup {"rpsCounter"}
  /\ CurrentRPS' = requests
  /\ PeakRPS' = IF requests > PeakRPS THEN requests ELSE PeakRPS
  /\ requests' = 0
  /\ loud' = IF requests > RPSThreshold THEN (IF loud < 2 THEN loud + 1 ELSE 2) ELSE 0
  /\ UNCHANGED <<IsUnderAttack, normalCount, globalRPS, silent, alerted>>

\* Mutant: a calm reading does not count while the attack lasts.
attackDetectorForgets ==
  /\ "attackDetector" \notin ticked
  /\ ticked' = ticked \cup {"attackDetector"}
  /\ IF CurrentRPS > RPSThreshold
     THEN /\ normalCount' = 0
          /\ IsUnderAttack' = TRUE
          /\ IF IsUnderAttack THEN UNCHANGED <<silent, alerted>> ELSE SendAttackStart
     ELSE UNCHANGED <<IsUnderAttack, normalCount, silent, alerted>>
  /\ UNCHANGED <<requests, CurrentRPS, PeakRPS, globalRPS, loud>>

\* Mutant: the detector reads the copy that adaptiveSampler publishes.
attackDetectorStale ==
  /\ "attackDetector" \notin ticked
  /\ ticked' = ticked \cup {"attackDetector"}
  /\ IF globalRPS > RPSThreshold
     THEN /\ normalCount' = 0
          /\ IsUnderAttack' = TRUE
          /\ IF IsUnderAttack THEN UNCHANGED <<silent, alerted>> ELSE SendAttackStart
     ELSE IF IsUnderAttack
     THEN IF normalCount + 1 >= CalmTicks
          THEN IsUnderAttack' = FALSE /\ normalCount' = 0 /\ SendAttackEnd
          ELSE normalCount' = normalCount + 1 /\ UNCHANGED <<IsUnderAttack, silent, alerted>>
     ELSE UNCHANGED <<IsUnderAttack, normalCount, silent, alerted>>
  /\ UNCHANGED <<requests, CurrentRPS, PeakRPS, globalRPS, loud>>

attackDetector ==
  /\ "attackDetector" \notin ticked
  /\ ticked' = ticked \cup {"attackDetector"}
  /\ IF CurrentRPS > RPSThreshold
     THEN /\ normalCount' = 0
          /\ IsUnderAttack' = TRUE
          /\ IF IsUnderAttack THEN UNCHANGED <<silent, alerted>> ELSE SendAttackStart
     ELSE IF IsUnderAttack
     THEN IF normalCount + 1 >= CalmTicks
          THEN IsUnderAttack' = FALSE /\ normalCount' = 0 /\ SendAttackEnd
          ELSE normalCount' = normalCount + 1 /\ UNCHANGED <<IsUnderAttack, silent, alerted>>
     ELSE UNCHANGED <<IsUnderAttack, normalCount, silent, alerted>>
  /\ UNCHANGED <<requests, CurrentRPS, PeakRPS, globalRPS, loud>>

\* adaptiveSampler: SetGlobalRPS; what the learner does with the sample is in Learner.
adaptiveSampler ==
  /\ "adaptiveSampler" \notin ticked
  /\ ticked' = ticked \cup {"adaptiveSampler"}
  /\ globalRPS' = CurrentRPS
  /\ UNCHANGED <<requests, CurrentRPS, PeakRPS, IsUnderAttack, normalCount,
                 silent, alerted, loud>>

\* RemoteSilence: another node has sent this alert.
RemoteSilence(type) ==
  /\ silent' = [silent EXCEPT ![type] = Cooldown]
  /\ UNCHANGED <<requests, CurrentRPS, PeakRPS, IsUnderAttack, normalCount,
                 globalRPS, ticked, alerted, loud>>

\* The next second, once every ticker has fired in this one.
NextSecond ==
  /\ ticked = Tickers
  /\ ticked' = {}
  /\ silent' = [t \in AlertTypes |-> IF silent[t] = 0 THEN 0 ELSE silent[t] - 1]
  /\ UNCHANGED <<requests, CurrentRPS, PeakRPS, IsUnderAttack, normalCount,
                 globalRPS, alerted, loud>>

WatchNext ==
  \/ CountRequest \/ rpsCounter \/ attackDetector \/ adaptiveSampler \/ NextSecond
  \/ \E t \in AlertTypes : RemoteSilence(t)

\* Tickers fire and time passes.
WatchFairness ==
  /\ WF_watchVars(rpsCounter) /\ WF_watchVars(attackDetector)
  /\ WF_watchVars(adaptiveSampler) /\ WF_watchVars(NextSecond)

WatchSpec == WatchInit /\ [][WatchNext]_watchVars /\ WatchFairness

(* One loud second can be overwritten before the detector reads it; two in *)
(* a row cannot.  Once detector and counter have both run, the WAF knows   *)
(* of an attack that has lasted two seconds, and it never ends an attack   *)
(* in such a second (server.go, rpsCounter and attackDetector).            *)
SustainedAttackNoticed ==
  loud = 2 /\ {"rpsCounter", "attackDetector"} \subseteq ticked => IsUnderAttack

(* Traffic that stays below the threshold ends the attack, in spite of     *)
(* readings that are missed or repeated: emergency measures do not outlive *)
(* their reason (server.go, attackDetector).                               *)
AttackEnds == <>[](requests <= RPSThreshold) => []<>(~IsUnderAttack)
=============================================================================
