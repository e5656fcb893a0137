---------------------------- MODULE LocalControls ----------------------------
(***************************************************************************)
(* The local-control layer of a Guard: the sync channel (edgesync.Syncer   *)
(* and local_controls_sync.go) polls the platform for a rule set and swaps *)
(* the engine, while the agent's goroutines evaluate calls against it and  *)
(* charge its token budget (local_controls.go, package localcontrol).      *)
(*                                                                         *)
(* The engine pointer, the recorded version, the time of application and   *)
(* the last error are four separate atomics: each is stored and loaded in  *)
(* a step of its own.  Rule sets are published as versions 1, 2, ...       *)
(***************************************************************************)
EXTENDS LocalRules, FiniteSets

CONSTANTS
  Versions,    \* bound on the rule sets published
  Rules,       \* Rules[v]: rule set v
  Garbled,     \* versions whose payload does not decode
  Syncer,      \* 1..n: bound on the sync channels started
  Host,        \* goroutines of the host that start and stop the channel
  HostSets,    \* versions the host may set itself
  Worker,      \* goroutines of the agent that make checks
  Request,     \* requests: stage, name, type, content, tokens
  MaxBuilds,   \* bound on the engines built
  MaxCalls     \* bound on the calls charged to one engine

ASSUME LocalAssumption ==
  /\ Versions \in Nat /\ MaxBuilds \in Nat \ {0} /\ MaxCalls \in Nat
  /\ Garbled \subseteq 1..Versions /\ HostSets \subseteq 1..Versions
  /\ Syncer \subseteq Nat \ {0}
  /\ \A v \in 1..Versions : Rules[v].max \in Int
  /\ \A req \in Request : req.tokens \in Int

None == 0
Version == 0..Versions   \* 0: nothing published, or nothing applied
Build == 1..MaxBuilds

VARIABLES
  published,  \* the rule set the platform serves
  engine,     \* g.local: version, who set it, and the build, 0 if nil
  syncer,     \* g.lcSyncer
  loop,       \* loop[s]: where the poll loop of channel s stands
  hash,       \* hash[s]: lastHash, the last content seen
  got,        \* got[s]: the payload a tick holds
  rep,        \* rep[s]: the version a report being built has read
  told,       \* channels whose stop is closed
  waits,      \* waits[h]: the channel a call of StopLocalControlSync waits for
  stamp,      \* lcState: version, applied (appliedAt # nil) and error
  ledger,     \* ledger[b]: the tokens charged to engine b
  passed,     \* passed[b]: the tokens of the calls engine b let through
  check,      \* check[w]: the engine the check of worker w loaded
  overlapped  \* two loops were alive at once, or the host set rules itself

syncVars  == <<syncer, loop, hash, got, rep, told, waits>>
localVars == <<published, engine, syncVars, stamp, ledger, passed, check, overlapped>>

NoEngine == [version |-> None, build |-> None]

Live(s) == loop[s] \notin {"none", "gone"}

LocalTypeOK ==
  /\ published \in Version
  /\ engine \in [version : Version, build : Build \cup {None}]
  /\ syncer \in Syncer \cup {None}
  /\ loop \in [Syncer -> {"none", "tick", "store", "stamp", "clear", "report",
                          "send", "wait", "gone"}]
  /\ hash \in [Syncer -> Version] /\ got \in [Syncer -> Version]
  /\ rep \in [Syncer -> Version]
  /\ told \in SUBSET Syncer
  /\ waits \in [Host -> Syncer \cup {None}]
  /\ stamp \in [version : Version, applied : BOOLEAN, error : BOOLEAN]
  /\ ledger \in [Build -> Nat] /\ passed \in [Build -> Nat]
  /\ check \in [Worker -> [version : Version, build : Build \cup {None}]]
  /\ overlapped \in BOOLEAN

LocalInit ==
  /\ published = None /\ engine = NoEngine /\ syncer = None
  /\ loop = [s \in Syncer |-> "none"]
  /\ hash = [s \in Syncer |-> None] /\ got = [s \in Syncer |-> None]
  /\ rep = [s \in Syncer |-> None]
  /\ told = {} /\ waits = [h \in Host |-> None]
  /\ stamp = [version |-> None, applied |-> FALSE, error |-> FALSE]
  /\ ledger = [b \in Build |-> 0] /\ passed = [b \in Build |-> 0]
  /\ check = [w \in Worker |-> NoEngine]
  /\ overlapped = FALSE

-----------------------------------------------------------------------------
(* The platform and the host                                               *)

Publish ==
  /\ published < Versions
  /\ published' = published + 1
  /\ UNCHANGED <<engine, syncVars, stamp, ledger, passed, check, overlapped>>

Acceptable(v) == v \notin Garbled /\ Compiles(Rules[v])

(* A new engine starts with an empty ledger.                               *)
Install(v) == engine' = [version |-> v, build |-> engine.build + 1]

(* SetLocalControls or WithLocalControls: the host sets rules itself, and  *)
(* nothing is stamped.  Bound: only while no engine is in force.           *)
SetLocalControls(v) ==
  /\ v \in HostSets /\ engine = NoEngine
  /\ IF Compiles(Rules[v]) THEN Install(v) /\ overlapped' = TRUE
     ELSE UNCHANGED <<engine, overlapped>>
  /\ UNCHANGED <<published, syncVars, stamp, ledger, passed, check>>

(* SyncLocalControls: refused while the Guard has a syncer; the loop of a  *)
(* syncer it no longer has may still be in its last tick.                  *)
SyncLocalControls(s) ==
  /\ syncer = None /\ loop[s] = "none"
  /\ \A r \in Syncer : r < s => loop[r] # "none"
  /\ syncer' = s
  /\ loop' = [loop EXCEPT ![s] = "tick"]
  /\ overlapped' = (overlapped \/ \E r \in Syncer : Live(r))
  /\ UNCHANGED <<published, engine, hash, got, rep, told, waits, stamp,
                 ledger, passed, check>>

(* Mutant: a Guard without a channel stops it all the same.                *)
MayStop_Bug == TRUE

MayStop == syncer # None

(* StopLocalControlSync forgets the syncer, then stops it and waits.       *)
StopLocalControlSync(h) ==
  /\ waits[h] = None /\ MayStop
  /\ syncer' = None
  /\ told' = told \cup {syncer}
  /\ waits' = [waits EXCEPT ![h] = syncer]
  /\ UNCHANGED <<published, engine, loop, hash, got, rep, stamp, ledger,
                 passed, check, overlapped>>

StopReturns(h) ==
  /\ waits[h] # None /\ loop[waits[h]] = "gone"
  /\ waits' = [waits EXCEPT ![h] = None]
  /\ UNCHANGED <<published, engine, syncer, loop, hash, got, rep, told, stamp,
                 ledger, passed, check, overlapped>>

-----------------------------------------------------------------------------
(* A tick of a poll loop                                                   *)

Goto(s, at) == loop' = [loop EXCEPT ![s] = at]

(* The hash of the answer is stored before the payload is applied, so a    *)
(* payload that is refused is not fetched again.                           *)
Seen(s) == hash' = [hash EXCEPT ![s] = published]

(* Mutant: anything seen before counts as unchanged.                       *)
NotModified_Bug(s) == hash[s] # None

NotModified(s) == hash[s] = published

(* The platform answers with the rule set, or 304 if it is the one seen    *)
(* last.                                                                   *)
PollAnswers(s) ==
  /\ loop[s] = "tick" /\ published # None
  /\ IF NotModified(s)
     THEN Goto(s, "report") /\ UNCHANGED <<hash, got>>
     ELSE /\ Seen(s)
          /\ got' = [got EXCEPT ![s] = published]
          /\ Goto(s, "store")
  /\ UNCHANGED <<published, engine, syncer, rep, told, waits, stamp,
                 ledger, passed, check, overlapped>>

(* A failed poll changes nothing; the tick goes on to its report.          *)
PollFails(s) ==
  /\ loop[s] = "tick"
  /\ Goto(s, "report")
  /\ UNCHANGED <<published, engine, syncer, hash, got, rep, told, waits, stamp,
                 ledger, passed, check, overlapped>>

(* applyLocalControlPayload: a payload that does not decode or compile     *)
(* leaves the engine in place and is recorded.                             *)
Refuses(s) ==
  /\ stamp' = [stamp EXCEPT !.error = TRUE]
  /\ Goto(s, "report") /\ got' = [got EXCEPT ![s] = None]
  /\ UNCHANGED engine
Apply(s) ==
  /\ loop[s] = "store"
  /\ IF Acceptable(got[s])
     THEN /\ engine.build < MaxBuilds
          /\ Install(got[s])
          /\ Goto(s, "stamp") /\ UNCHANGED <<stamp, got>>
     ELSE Refuses(s)
  /\ UNCHANGED <<published, syncer, hash, rep, told, waits, ledger, passed,
                 check, overlapped>>

StampVersion(s) ==
  /\ loop[s] = "stamp"
  /\ stamp' = [stamp EXCEPT !.version = got[s], !.applied = TRUE]
  /\ Goto(s, "clear") /\ got' = [got EXCEPT ![s] = None]
  /\ UNCHANGED <<published, engine, syncer, hash, rep, told, waits,
                 ledger, passed, check, overlapped>>

(* Mutant: the last error is not cleared by a rule set that applies.       *)
ErrorAfterApply_Bug == stamp.error

ErrorAfterApply == FALSE
ClearError(s) ==
  /\ loop[s] = "clear"
  /\ stamp' = [stamp EXCEPT !.error = ErrorAfterApply]
  /\ Goto(s, "report")
  /\ UNCHANGED <<published, engine, syncer, hash, got, rep, told, waits,
                 ledger, passed, check, overlapped>>

(* buildLocalControlReport loads the version, then the engine for its mode *)
(* and detectors, then the error; the report may be lost.                  *)
ReportReads(s) ==
  /\ loop[s] = "report"
  /\ rep' = [rep EXCEPT ![s] = stamp.version]
  /\ Goto(s, "send")
  /\ UNCHANGED <<published, engine, syncer, hash, got, told, waits, stamp,
                 ledger, passed, check, overlapped>>

(* What is sent is rep[s], what the engine then says, and stamp.error.     *)
ReportSends(s) ==
  /\ loop[s] = "send"
  /\ rep' = [rep EXCEPT ![s] = None]
  /\ Goto(s, "wait")
  /\ UNCHANGED <<published, engine, syncer, hash, got, told, waits, stamp,
                 ledger, passed, check, overlapped>>

(* The loop selects between its ticker and its stop channel.               *)
Ticks(s) ==
  /\ loop[s] = "wait"
  /\ Goto(s, "tick")
  /\ UNCHANGED <<published, engine, syncer, hash, got, rep, told, waits, stamp,
                 ledger, passed, check, overlapped>>

LoopEnds(s) ==
  /\ loop[s] = "wait" /\ s \in told
  /\ Goto(s, "gone")
  /\ UNCHANGED <<published, engine, syncer, hash, got, rep, told, waits, stamp,
                 ledger, passed, check, overlapped>>

-----------------------------------------------------------------------------
(* A check of the agent: it loads the engine, then evaluates.  The charge  *)
(* is one critical section of the budget's mutex.                          *)

CheckLoads(w) ==
  /\ check[w] = NoEngine
  /\ engine # NoEngine /\ ledger[engine.build] < MaxCalls
  /\ check' = [check EXCEPT ![w] = engine]
  /\ UNCHANGED <<published, engine, syncVars, stamp, ledger, passed, overlapped>>

Result(w, req) == Evaluate(Rules[check[w].version], req, ledger[check[w].build])

(* evaluateLocal: a denial ends the call; a warning travels with it.       *)
CheckEvaluates(w, req) ==
  LET b == check[w].build
      result == Result(w, req)
  IN /\ check[w] # NoEngine
     /\ ledger' = [ledger EXCEPT ![b] = result.used]
     /\ passed' = IF result.verdict.action = "deny" THEN passed
                  ELSE [passed EXCEPT ![b] = @ + (result.used - ledger[b])]
     /\ check' = [check EXCEPT ![w] = NoEngine]
     /\ UNCHANGED <<published, engine, syncVars, stamp, overlapped>>

-----------------------------------------------------------------------------
LoopStep(s) ==
  \/ PollAnswers(s) \/ PollFails(s) \/ Apply(s) \/ StampVersion(s)
  \/ ClearError(s) \/ ReportReads(s) \/ ReportSends(s) \/ LoopEnds(s)

LocalNext ==
  \/ Publish
  \/ \E v \in HostSets : SetLocalControls(v)
  \/ \E s \in Syncer : SyncLocalControls(s) \/ LoopStep(s) \/ Ticks(s)
  \/ \E h \in Host : StopLocalControlSync(h) \/ StopReturns(h)
  \/ \E w \in Worker : CheckLoads(w)
  \/ \E w \in Worker, req \in Request : CheckEvaluates(w, req)

(* The goroutine of a loop runs on and its ticker fires; polls that fail   *)
(* do not fail for ever; a caller of Stop returns when the loop is gone.   *)
(* A select whose stop channel stays ready takes it at last.  Nothing is   *)
(* assumed of the platform, the host or the agent.                         *)
LocalFairness ==
  /\ \A s \in Syncer : /\ WF_localVars(LoopStep(s)) /\ WF_localVars(Ticks(s))
                       /\ SF_localVars(PollAnswers(s)) /\ SF_localVars(LoopEnds(s))
  /\ \A h \in Host : WF_localVars(StopReturns(h))

LocalSpec == LocalInit /\ [][LocalNext]_localVars /\ LocalFairness

-----------------------------------------------------------------------------
(* Properties                                                              *)

(* A request is denied by the local layer exactly when some detector of    *)
(* its stage denies it on its own, whatever warnings come before; a        *)
(* request that is not denied carries the severest warning; and tokens are *)
(* charged only by a call no other detector denied (Engine.Evaluate stops  *)
(* at the first block, and the budget comes last because it has state).    *)
VerdictIsStrongest ==
  \A w \in Worker, req \in Request : check[w] # NoEngine =>
    LET rules == Rules[check[w].version]
        used == ledger[check[w].build]
        says == {<<d, Inspect(rules, d, req, used)>> :
                   d \in AtStage(rules, req.stage)}
        Denying(names) == \E s \in says : s[2].action = "deny" /\ s[1].name \in names
        all == {s[1].name : s \in says}
        result == Result(w, req)
    IN Covers(rules, req) =>
         /\ result.verdict.action = "deny" <=> Denying(all)
         /\ result.verdict.action # "deny" =>
              \A s \in says : AtLeast(result.verdict.severity, s[2].severity)
         /\ result.used # used <=>
              /\ req.tokens > 0 /\ "token_budget" \in all
              /\ ~Denying(all \ {"token_budget"})

(* While an engine enforces a ceiling, the calls it lets through never     *)
(* spend more than that, however many goroutines check at once and         *)
(* whatever the channel does meanwhile (tokenBudget.Inspect).  The ledger  *)
(* is the engine's: applying a rule set again starts a new one.            *)
BudgetHeld ==
  \A b \in 1..engine.build :
    \A v \in 1..Versions :
      ( /\ engine = [version |-> v, build |-> b]
        /\ Blocks(Normalize(Rules[v].mode)) /\ Rules[v].max > 0
        /\ "token_budget" \notin Rules[v].disabled )
      => passed[b] <= Rules[v].max

(* A report tells the truth as long as one loop is alive and the host sets *)
(* no rules of its own: the version it names is the one whose detectors it *)
(* lists, and it carries an error exactly when the last payload the loop   *)
(* saw was refused (applyLocalControlPayload, buildLocalControlReport).    *)
ReportHonest ==
  \A s \in Syncer : loop[s] = "send" /\ ~overlapped =>
    /\ rep[s] = engine.version
    /\ hash[s] # None => (stamp.error <=> ~Acceptable(hash[s]))

(* The rules converge: if the platform goes on serving a rule set that     *)
(* applies and the Guard keeps a channel, the Guard comes to enforce that  *)
(* set, unless two loops ever overlapped or the host set its own rules     *)
(* (Syncer.tick; the hash is stored before the payload is applied).        *)
Converges ==
  \A v \in 1..Versions : Acceptable(v) =>
    ( <>[](published = v /\ syncer # None /\ ~overlapped)
      => <>[](engine.version = v) )
=============================================================================
