------------------------------- MODULE Rules -------------------------------
(***************************************************************************)
(* The WAF's rules engine: the built-in rules up to the paranoia level,    *)
(* those of the custom file behind them, and the verdict on a request.     *)
(* What a request looks like is which rules' patterns occur in which of    *)
(* its parts.  Severities and scores are only logged and are left out.     *)
(***************************************************************************)
EXTENDS Integers, Sequences, FiniteSets, SequencesExt, Filtering

CONSTANTS
  Entries,       \* entries a custom file may have: rules, before their defaults
  MaxEntries,    \* bound on the length of the custom file
  MaxPatterns    \* bound on the occurrences of patterns in a request

\* Rule, without what is only logged; empty: its pattern matches the empty string.
RuleType ==
  [id : STRING, paranoia : Int, targets : SUBSET STRING, action : STRING, compiles : BOOLEAN,
   enabled : BOOLEAN, empty : BOOLEAN]

ASSUME RulesAssumption ==
  Entries \subseteq RuleType /\ MaxEntries \in Nat /\ MaxPatterns \in Nat

VARIABLES
  paranoia,      \* cfg.WAF.ParanoiaLevel
  customFile,    \* entries still to be loaded
  rules,         \* e.rules
  hits,          \* of the request: pairs of a rule's id and a part its pattern occurs in
  inspected      \* the InspectResult, once there is a request

rulesVars == <<paranoia, customFile, rules, hits, inspected>>

Rule(id, level, targets, action) ==
  [id |-> id, paranoia |-> level, targets |-> targets, action |-> action, compiles |-> TRUE,
   enabled |-> TRUE, empty |-> FALSE]
Block(id, targets) == Rule(id, 1, targets, "block")

\* loadOWASPRules: protocol, files, scripting, SQL.  Go's regexp has no look-ahead for 920100.
OwaspRules ==
  << [Block("920100", {"METHOD"}) EXCEPT !.compiles = FALSE],
     Block("920170", {"HEADERS"}), Rule("920270", 2, {"URL"}, "block"),
     Block("930100", {"URL", "ARGS"}), Block("930110", {"URL", "ARGS"}), Block("930120", {"URL"}),
     Block("941100", {"ARGS", "URL", "HEADERS", "COOKIES"}), Block("941110", {"ARGS", "URL"}),
     Block("941120", {"ARGS", "URL"}), Block("941130", {"ARGS", "URL"}),
     Block("942100", {"ARGS", "URL", "COOKIES"}), Block("942110", {"ARGS", "URL"}),
     Block("942120", {"ARGS", "URL"}), Block("942130", {"ARGS", "URL"}),
     Block("942140", {"ARGS", "URL"}), Block("942150", {"ARGS", "URL"}) >>

\* loadOWASPRules: commands, inclusion, platforms, scanners, smuggling, internal networks.
OwaspRulesMore ==
  << Block("932100", {"ARGS", "URL", "HEADERS"}), Block("932110", {"ARGS", "URL"}),
     Block("931100", {"ARGS"}), Rule("934100", 2, {"ARGS", "URL"}, "block"),
     Rule("944100", 2, {"ARGS", "URL", "HEADERS"}, "block"),
     Block("913100", {"UA"}), Rule("913110", 2, {"UA"}, "challenge"),
     Block("921100", {"HEADERS", "ARGS"}), Block("933100", {"ARGS", "URL"}), Block("950100", {"ARGS"}) >>

Owasp == OwaspRules \o OwaspRulesMore

\* loadOWASPRules: up to the level, and only what compiles.
loadOWASPRules(level) == Keep(Owasp, {r \in Range(Owasp) : r.paranoia <= level /\ r.compiles})

\* AddRule: a rule that does not compile is refused.
AddRule(list, r) == IF r.compiles THEN Append(list, r) ELSE list

\* LoadCustomRules: the defaults of an entry.
WithDefaults(e) ==
  [e EXCEPT !.paranoia = IF @ = 0 THEN 1 ELSE @, !.action = IF @ = "" THEN "block" ELSE @]

\* matchRule, getTargetValues, matchOperator.  The body is never read: its value is always the empty
\* string.  The other parts have the values of the request, and any other target has none.
Parts == {"URL", "PATH", "QUERY", "METHOD", "UA", "HEADERS", "ARGS", "COOKIES"}
matchRule(r, request) ==
  \/ r.empty /\ "BODY" \in r.targets
  \/ \E t \in r.targets \cap Parts : <<r.id, t>> \in request

\* Mutant: only the last rule that matches is asked whether it blocks.
BlockingLast(matched) ==
  IF matched # <<>> /\ Last(matched).action \in {"block", "drop"} THEN <<Last(matched)>> ELSE <<>>

Blocking(matched) == Keep(matched, {r \in Range(matched) : r.action \in {"block", "drop"}})

Nothing == [blocked |-> FALSE, action |-> "", topRule |-> ""]

\* Inspect: every rule in turn; the last one that blocks decides what happens.
Inspect(list, level, request) ==
  LET matching == {r \in Range(list) : r.enabled /\ r.paranoia <= level /\ matchRule(r, request)}
      blocking == Blocking(Keep(list, matching))
  IN  IF blocking = <<>> THEN Nothing
      ELSE [blocked |-> TRUE, action |-> Last(blocking).action, topRule |-> Last(blocking).id]

-----------------------------------------------------------------------------
RulesInit ==
  /\ paranoia \in 1 .. 4
  /\ customFile \in BoundedSeq(Entries, MaxEntries)
  /\ rules = loadOWASPRules(paranoia)
  /\ hits = {} /\ inspected = Nothing

LoadCustomRules ==
  /\ customFile # <<>> /\ customFile' = Tail(customFile)
  /\ rules' = AddRule(rules, WithDefaults(Head(customFile)))
  /\ UNCHANGED <<paranoia, hits, inspected>>

\* A request, built up part by part, of a server that has loaded its rules.
InspectRequest ==
  /\ customFile = <<>> /\ Cardinality(hits) < MaxPatterns
  /\ \E r \in Range(Owasp) \cup Entries : \E t \in r.targets \cap Parts :
       /\ <<r.id, t>> \notin hits /\ hits' = hits \cup {<<r.id, t>>}
  /\ inspected' = Inspect(rules, paranoia, hits')
  /\ UNCHANGED <<paranoia, customFile, rules>>

RulesNext == LoadCustomRules \/ InspectRequest

RulesSpec == RulesInit /\ [][RulesNext]_rulesVars

-----------------------------------------------------------------------------
\* The engine as it would be at another level, with the same custom rules.
RulesAt(level) ==
  loadOWASPRules(level) \o SubSeq(rules, Len(loadOWASPRules(paranoia)) + 1, Len(rules))

(* Stricter is stricter: what a lower paranoia level blocks is blocked at  *)
(* this one, and what is blocked stays so when more patterns occur in the  *)
(* request, rules that only challenge included; and the ban that goes with *)
(* "drop" is for a request that a rule of the custom file drops (engine.go *)
(* Inspect, owasp.go loadOWASPRules, pipeline.go layer 5).                 *)
InspectStrict ==
  customFile = <<>> /\ hits # {} =>
    /\ ~inspected.blocked =>
         \A level \in 1 .. paranoia, request \in SUBSET hits :
            ~Inspect(RulesAt(level), level, request).blocked
    /\ inspected.action = "drop" =>
         \E e \in Entries : e.action = "drop" /\ e.enabled /\ e.compiles /\ matchRule(e, hits)
=============================================================================
