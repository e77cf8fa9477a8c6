------------------------------ MODULE MCShield ------------------------------
(* The request pipeline and the attack detector, side by side: they meet   *)
(* only in the alarm, which the pipeline takes as an input.                *)
EXTENDS Shield, AttackWatch
CONSTANTS a1, a2
VARIABLE focus

\* Clean requests of every trust under calm and heavy traffic, and one request per finding, under an
\* alarm and load too where that matters to its layer.
MCRequests ==
  {[finds |-> {}, fp |-> f, attack |-> a, load |-> l, expected |-> IF a THEN 1 ELSE 0] :
     f \in Trust, <<a, l>> \in {<<FALSE, 100>>, <<TRUE, 100>>, <<TRUE, 2500>>}}
  \cup {[finds |-> {x}, fp |-> "low", attack |-> FALSE, load |-> 100, expected |-> 0] : x \in Findings}
  \cup {[finds |-> {x}, fp |-> "low", attack |-> TRUE, load |-> 5000, expected |-> 0] :
          x \in {"fp_trusted", "intel_blocked", "whitelisted", "waf_drop", "waf_block"}}

Init ==
  /\ focus \in {"shield", "watch"}
  /\ WatchInit
  /\ ShieldInit /\ address = a1   \* the addresses are alike
  \* VisitorAdmitted is about these modes; where no answer is given the honest are as good as any.
  /\ honest => mode \in {"off", "auto", "challenge", "captcha"}
  /\ (focus # "shield" => mode = "off" /\ ~honest)

Next ==
  /\ UNCHANGED focus
  /\ \/ focus = "watch" /\ WatchNext /\ UNCHANGED shieldVars
     \/ focus = "shield" /\ ShieldNext /\ UNCHANGED watchVars

vars == <<focus, shieldVars, watchVars>>

\* WatchFairness in a behaviour of the detector, ShieldFairness in one of the pipeline.
Spec ==
  /\ Init /\ [][Next]_vars
  /\ WF_watchVars(focus = "watch" /\ rpsCounter) /\ WF_watchVars(focus = "watch" /\ attackDetector)
  /\ WF_watchVars(focus = "watch" /\ adaptiveSampler) /\ WF_watchVars(focus = "watch" /\ NextSecond)
  /\ WF_shieldVars(focus = "shield" /\ Browse)
  /\ WF_shieldVars(focus = "shield" /\ HandleVerification)
  /\ SF_shieldVars(focus = "shield" /\ ShieldTick) /\ WF_shieldVars(focus = "shield" /\ BanExpires)
=============================================================================
