----------------------------- MODULE LocalRules -----------------------------
(***************************************************************************)
(* The in-process policy layer (package localcontrol): how a published     *)
(* rule set becomes an engine, and what the engine says of one request.    *)
(*                                                                         *)
(* A content is the set of signs in it: a sign stands for the regular      *)
(* expressions of one rule that share severity and condition.  A name      *)
(* pattern is the set of component names it matches.                       *)
(***************************************************************************)
EXTENDS Integers, Sequences, SequencesExt

CONSTANTS
  Component,     \* component names
  DatabaseTools  \* the names the built-in database tool patterns match

-----------------------------------------------------------------------------
(* Severities and modes                                                    *)

SeverityRank == [low |-> 1, medium |-> 2, high |-> 3, critical |-> 4]
RankOf(s) == IF s \in DOMAIN SeverityRank THEN SeverityRank[s] ELSE 0
AtLeast(s, min) == RankOf(s) >= RankOf(min)

Mode == {"off", "audit", "warn", "enforce"}
Normalize(mode) == IF mode \in Mode THEN mode ELSE "warn"
Blocks(mode) == mode = "enforce"

-----------------------------------------------------------------------------
(* Rules, in the order the detectors try them                              *)

DangerPatterns ==
  << [sign |-> "drop",   severity |-> "critical", noWhere |-> FALSE],
     [sign |-> "update", severity |-> "critical", noWhere |-> TRUE],
     [sign |-> "grant",  severity |-> "high",     noWhere |-> FALSE] >>

InjectionPatterns ==
  << [sign |-> "override",  severity |-> "high"],
     [sign |-> "hijack",    severity |-> "medium"],
     [sign |-> "jailbreak", severity |-> "critical"],
     [sign |-> "eval",      severity |-> "medium"] >>

SecretPatterns == {"key"}

(* The organisation's own patterns, appended to the built-in ones.         *)
OrgDanger    == [sign |-> "orgBlocked", severity |-> "high", noWhere |-> FALSE]
OrgInjection == [sign |-> "orgPhrase", severity |-> "high"]
OrgKey       == "orgKey"
Exempt       == "orgAllowed"
Where        == "where"

Silent == [action |-> "allow", detector |-> "", severity |-> ""]

Action(block) == IF block THEN "deny" ELSE "warn"
Verdict(block, detector, severity) ==
  [action |-> Action(block), detector |-> detector, severity |-> severity]

(* The verdict of the first pattern that matches, if any does: it blocks   *)
(* from a severity on.                                                     *)
FirstMatch(rules, detector, hits, threshold) ==
  IF hits = <<>> THEN Silent
  ELSE LET severity == Head(hits).severity
       IN Verdict(Blocks(Normalize(rules.mode)) /\ AtLeast(severity, threshold),
                  detector, severity)

-----------------------------------------------------------------------------
(* Detectors.  A rule set names the detectors it disables, whether it adds *)
(* patterns of its own, the tools it takes for databases, the severity     *)
(* from which an injection blocks, and the ceiling of a session's tokens.  *)

DatabaseDetector(rules) ==
  [name |-> "database_safety", stages |-> {"tool_call"}, priority |-> 95]
SecretDetector(rules) ==
  [name |-> "secret_scan", priority |-> 90,
   stages |-> {"pre_llm", "tool_call", "tool_call_response", "post_llm"}]
InjectionDetector(rules) ==
  [name |-> "prompt_injection", priority |-> 85,
   stages |-> {"pre_llm", "tool_call", "tool_call_response"}]
(* Mutant: the budget is consulted first.                                  *)
BudgetDetector_Bug(rules) ==
  [name |-> "token_budget", stages |-> {"pre_llm", "post_llm"}, priority |-> 99]

BudgetDetector(rules) ==
  [name |-> "token_budget", stages |-> {"pre_llm", "post_llm"}, priority |-> 10]

(* isDatabaseTool: the rule set's own tool patterns replace the built-ins. *)
IsDatabaseTool(rules, name) ==
  name \in (IF rules.tools = {} THEN DatabaseTools ELSE rules.tools)

DatabaseInspect(rules, req) ==
  LET exempt == rules.allows /\ Exempt \in req.content
      Danger(p) ==
        p.sign \in req.content /\ ~(p.noWhere /\ Where \in req.content)
      patterns == DangerPatterns \o (IF rules.extra THEN <<OrgDanger>> ELSE <<>>)
  IN IF exempt \/ ~IsDatabaseTool(rules, req.name)
     THEN Silent
     ELSE FirstMatch(rules, "database_safety", SelectSeq(patterns, Danger), "")

SecretInspect(rules, req) ==
  LET patterns == SecretPatterns \cup (IF rules.extra THEN {OrgKey} ELSE {})
  IN IF patterns \cap req.content = {} THEN Silent
     ELSE Verdict(Blocks(Normalize(rules.mode)), "secret_scan", "high")

(* The first pattern that matches speaks, and blocks if it is severe       *)
(* enough: a severer one further down the list is not looked for.          *)
InjectionInspect(rules, req) ==
  LET threshold == IF rules.threshold = "" THEN "high" ELSE rules.threshold
      Found(p) == p.sign \in req.content
      patterns == InjectionPatterns \o (IF rules.extra THEN <<OrgInjection>> ELSE <<>>)
  IN FirstMatch(rules, "prompt_injection", SelectSeq(patterns, Found), threshold)

(* Mutant: the ceiling itself may be passed by one.                        *)
OverBudget_Bug(rules, total) == total > rules.max + 1

OverBudget(rules, total) == total > rules.max

(* The session's spend with this call, if its tokens are known, and what   *)
(* the ceiling says of it.                                                 *)
Charge(used, req) == IF req.tokens > 0 THEN used + req.tokens ELSE used
BudgetInspect(rules, req, used) ==
  IF req.tokens > 0 /\ OverBudget(rules, Charge(used, req))
  THEN Verdict(Blocks(Normalize(rules.mode)), "token_budget", "medium")
  ELSE Silent

Inspect(rules, d, req, used) ==
  CASE d.name = "database_safety"  -> DatabaseInspect(rules, req)
    [] d.name = "secret_scan"      -> SecretInspect(rules, req)
    [] d.name = "prompt_injection" -> InjectionInspect(rules, req)
    [] d.name = "token_budget"     -> BudgetInspect(rules, req, used)

-----------------------------------------------------------------------------
(* From a rule set to an engine                                            *)

Enabled(rules) ==
  {"database_safety", "secret_scan", "prompt_injection"} \ rules.disabled

(* New refuses a rule set when a pattern of a detector it would build does *)
(* not compile; with mode off none is built, and nothing is refused.       *)
Compiles(rules) ==
  Normalize(rules.mode) = "off" \/ rules.broken \cap Enabled(rules) = {}

Detectors(rules) ==
  IF Normalize(rules.mode) = "off" THEN {}
  ELSE {d \in {DatabaseDetector(rules), SecretDetector(rules), InjectionDetector(rules),
                BudgetDetector(rules)} :
          d.name \notin rules.disabled /\ (d.name = "token_budget" => rules.max > 0)}

(* NewEngine: the detectors of a stage, tried by falling priority; no two  *)
(* have the same.                                                          *)
AtStage(rules, stage) == {d \in Detectors(rules) : stage \in d.stages}
LastTried(ds) == CHOOSE d \in ds : \A e \in ds : d.priority <= e.priority

(* scope.covers: exclusion wins; with nothing included all is covered.     *)
Covers(rules, req) ==
  /\ req.name \notin rules.excludeNames
  /\ req.type \notin rules.excludeTypes
  /\ \/ rules.includeNames = {} /\ rules.includeTypes = {}
     \/ req.name \in rules.includeNames
     \/ req.type \in rules.includeTypes

(* Evaluate: detectors are tried in turn up to the first that denies; the  *)
(* last of the severest warnings is kept.  The budget is charged when its  *)
(* turn comes.                                                             *)
Turn(rules, req, d, acc) ==
  LET v == Inspect(rules, d, req, acc.used)
  IN IF acc.verdict.action = "deny" THEN acc
     ELSE [used |-> IF d.name = "token_budget" THEN Charge(acc.used, req) ELSE acc.used,
           verdict |-> IF \/ v.action = "deny"
                          \/ v.action = "warn" /\ AtLeast(v.severity, acc.verdict.severity)
                       THEN v ELSE acc.verdict]

Unspent(used) == [used |-> used, verdict |-> Silent]

Evaluate(rules, req, used) ==
  IF Covers(rules, req)
  THEN MapThenFoldSet(LAMBDA d, acc : Turn(rules, req, d, acc), Unspent(used),
                      LAMBDA d : d, LastTried, AtStage(rules, req.stage))
  ELSE Unspent(used)
=============================================================================
