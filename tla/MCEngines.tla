------------------------------ MODULE MCEngines ------------------------------
(* The parts of the WAF and of the tunnel that share no variable, side by  *)
(* side: a behaviour exercises the one that focus names, and the others    *)
(* stay as they are.                                                       *)
EXTENDS RateLimiter, ConnGuard, ClientHello, Fingerprint, Intel, BotWatch, TunnelClient,
        UdpSessions, Learner, Rules, TLC
CONSTANTS c1, c2, c3, p1, p2
VARIABLE focus

MCPortOf == c1 :> p1 @@ c2 :> p1 @@ c3 :> p2

MCReports ==
  {[abuse |-> a, tor |-> t, datacenter |-> d] : a \in {0, 20, 50, 51}, t, d \in BOOLEAN}

\* The connections from one port are alike.
MCSymmetry == Permutations({c1, c2})

\* Browsers with four User-Agents, one of which loads a static file, and clients the classifier knows.
MCHits ==
  {[url |-> "api", method |-> "GET", ua |-> a, sigs |-> {}, fp |-> "fine"] : a \in 1 .. 4}
  \cup {[url |-> "static", method |-> "GET", ua |-> 1, sigs |-> {}, fp |-> "fine"],
        [url |-> "page", method |-> "POST", ua |-> 1, sigs |-> {"path_traversal_attempt"},
         fp |-> "tool"],
        [url |-> "page", method |-> "POST", ua |-> 1,
         sigs |-> {"ddos_ua_mhddos", "no_accept_header"}, fp |-> "low"]}

\* A rule with every default; one that drops, and reads the body too; one that does not compile; one
\* whose pattern the empty body matches.
MCEntries ==
  {[id |-> "custom1", paranoia |-> 0, targets |-> {"UA"}, action |-> "", compiles |-> TRUE,
    enabled |-> TRUE, empty |-> FALSE],
   [id |-> "custom2", paranoia |-> 3, targets |-> {"BODY", "ARGS"}, action |-> "drop",
    compiles |-> TRUE, enabled |-> TRUE, empty |-> FALSE],
   [id |-> "custom3", paranoia |-> 1, targets |-> {"URL"}, action |-> "drop",
    compiles |-> FALSE, enabled |-> TRUE, empty |-> FALSE],
   [id |-> "custom4", paranoia |-> 2, targets |-> {"BODY", "UA"}, action |-> "", compiles |-> TRUE,
    enabled |-> TRUE, empty |-> TRUE]}

Focus == {"limiter", "guard", "hello", "fingerprint", "intel", "bots", "client", "udp",
          "learner", "rules"}

Init ==
  /\ focus \in Focus
  /\ LimiterInit /\ GuardInit /\ BotInit
  /\ HelloInit /\ (focus # "hello" => helloLen = 0)
  /\ FpInit /\ (focus # "fingerprint" => fpClient = "other" /\ fpHello = Hello("other") /\ fpIntercepts)
  \* One loop at a time: a loop affects another only by a panic, and the display none at all.
  /\ ClientInit /\ followed \in {{}} \cup {{k} : k \in Kinds}
  /\ uiEnabled <=> followed = {"display"}
  /\ protocol = "udp" => followed = {}
  /\ focus # "client" => protocol = "tcp" /\ followed = {}
  /\ UdpInit
  /\ LearnerInit /\ (focus # "learner" => hour = 1)
  /\ RulesInit /\ (focus # "rules" => paranoia = 1 /\ customFile = <<>>)
  /\ IntelInit /\ (focus # "intel" => geoCfg = [allowed |-> {}, blocked |-> {}] /\ ~reserved /\ ~abuseKey /\ listed = {})

Next ==
  /\ UNCHANGED focus
  /\ \/ focus = "limiter" /\ LimiterNext
     \/ focus # "limiter" /\ UNCHANGED limiterVars
  /\ \/ focus = "guard" /\ GuardNext
     \/ focus # "guard" /\ UNCHANGED guardVars
  /\ \/ focus = "hello" /\ HelloNext
     \/ focus # "hello" /\ UNCHANGED helloVars
  /\ \/ focus = "fingerprint" /\ FpNext
     \/ focus # "fingerprint" /\ UNCHANGED fpVars
  /\ \/ focus = "intel" /\ IntelNext
     \/ focus # "intel" /\ UNCHANGED intelVars
  /\ \/ focus = "bots" /\ BotNext
     \/ focus # "bots" /\ UNCHANGED botVars
  /\ \/ focus = "client" /\ ClientNext
     \/ focus # "client" /\ UNCHANGED clientVars
  /\ \/ focus = "udp" /\ UdpNext
     \/ focus # "udp" /\ UNCHANGED udpSessVars
  /\ \/ focus = "learner" /\ LearnerNext
     \/ focus # "learner" /\ UNCHANGED learnerVars
  /\ \/ focus = "rules" /\ RulesNext
     \/ focus # "rules" /\ UNCHANGED rulesVars

vars == <<focus, limiterVars, guardVars, helloVars, fpVars, intelVars, botVars, clientVars,
          udpSessVars, learnerVars, rulesVars>>

Spec == Init /\ [][Next]_vars
=============================================================================
