---------------------------- MODULE ScenarioTools ----------------------------
(***************************************************************************)
(* Scenario plans and the tool calls they mock (simulation/scenario.go,    *)
(* scenario.go, and the dispatch of invocation.go): the poller installs a  *)
(* public plan with the run, an invocation may bring a private plan for    *)
(* its session, and tool calls are mocked, refused or let through, while   *)
(* the evidence of what happened is kept with the plan.                    *)
(*                                                                         *)
(* A tool's arguments are a model value and a rule names the arguments its *)
(* JSON pointers accept.  Each installation of a plan bears a number, and  *)
(* `log` keeps what was decided under it: neither exists in the code.      *)
(***************************************************************************)
EXTENDS Integers, Sequences, FiniteSets, SequencesExt

CONSTANTS
  Plan,        \* plans: session, rules, fallback, flaw
  NoPlan,      \* no plan
  Block,       \* what the poller may see: run, plan, baseline
  Invocation,  \* what the broker may ask: session, run, plan
  ToolCall,    \* what agents may call: session, tool, arg, allow
  Session, Tool, Argument,
  Worker,      \* goroutines that call tools
  MaxEvents,   \* maxScenarioEvents
  Capacity,    \* bound on the private plans, 64
  MaxInstalls, \* bound on the installations of plans
  MaxCalls     \* bound on the tool calls

ASSUME ScenarioAssumption ==
  /\ NoPlan \notin Plan
  /\ {MaxEvents, Capacity, MaxInstalls, MaxCalls} \subseteq Nat
  /\ \A b \in Block \cup Invocation : b.plan \in Plan \cup {NoPlan}
  /\ \A b \in Block : b.baseline \in BOOLEAN
  /\ \A i \in Invocation : i.session \in Session
  /\ ToolCall \subseteq [session : Session, tool : Tool, arg : Argument, allow : BOOLEAN]
  /\ \A p \in Plan :
       /\ p.session \in Session /\ p.fallback \in {"fail", "passthrough"}
       /\ p.flaw \in {"none", "format", "scope", "pointer"}
       /\ \A r \in p.rules : /\ r.tool \in Tool /\ r.accepts \subseteq Argument
                             /\ r.enabled \in BOOLEAN
                             /\ r.occurrence \in Int /\ r.required \in Int

VARIABLES
  sim,        \* state, run, and protDisabled of the controller
  mocks,      \* c.mocks, the public plan
  executions, \* c.executions: the private plan of each session
  turns,      \* the invocation of each session, with what dispatch captured
  calls,      \* calls[w]: the tool call of worker w
  called,     \* tool calls begun
  installs,   \* plans installed so far
  log,        \* every decision on a call, and under which installation
  lost,       \* installations of which a snapshot could not be queued
  clean       \* what the last clean completion told the runner, and of what

scenarioVars == <<sim, mocks, executions, turns, calls, called, installs, log,
                  lost, clean>>

-----------------------------------------------------------------------------
(* A plan and its evidence                                                 *)

(* configure refuses a plan that does not parse or does not make sense.    *)
Sound(p) ==
  /\ p.flaw = "none"
  /\ \A r \in p.rules :
       /\ r.occurrence >= 1 /\ r.required \in 0..1
       /\ \A q \in p.rules : q.id = r.id => q = r

RuleId == {r.id : r \in UNION {p.rules : p \in Plan}}

Installed(raw, number) ==
  [raw |-> raw, number |-> number,
   plan |-> IF raw # NoPlan /\ Sound(raw) THEN raw ELSE NoPlan,
   err |-> IF raw = NoPlan \/ Sound(raw) THEN "" ELSE "invalid",
   seen |-> [t \in Tool |-> 0], matches |-> [i \in RuleId |-> 0], events |-> <<>>]

Nothing == Installed(NoPlan, 0)

(* The same plan again keeps its evidence.                                 *)
Configured(m, raw) == IF m.raw = raw THEN m ELSE Installed(raw, installs + 1)

Enabled(p) == {r \in p.rules : r.enabled}

(* append: beyond the limit the evidence is worth nothing.                 *)
Noted(m, e) ==
  IF Len(m.events) >= MaxEvents THEN [m EXCEPT !.err = "evidence"]
  ELSE [m EXCEPT !.events = Append(@, e)]

Observed(m, s, e) == IF m.plan # NoPlan /\ s = m.plan.session THEN Noted(m, e) ELSE m

(* Mutant: an unmatched call is refused without failing the plan.          *)
Unmatched_Bug(m, s, t) == Observed(m, s, <<"rejected", t>>)

(* A call of an isolated tool that no rule matches fails the plan.         *)
Unmatched(m, s, t) == Observed([m EXCEPT !.err = "unmatched"], s, <<"rejected", t>>)

(* before: the answer to a call, and what it leaves in the plan.           *)
Refused(m) == [mocks |-> m, answer |-> "refused", rule |-> "none"]
Live(m) == [mocks |-> m, answer |-> "live", rule |-> "none"]

Isolated(p, t) == \E r \in Enabled(p) : r.tool = t

(* The rules that match a counted call: none, one, or too many.            *)
Choose(m, s, t, hits) ==
  LET r == CHOOSE h \in hits : TRUE
      n == Observed([m EXCEPT !.matches[r.id] = @ + 1], s, <<"mocked", r.id>>)
  IN  CASE Cardinality(hits) > 1 -> Refused([m EXCEPT !.err = "conflict"])
        [] hits = {} -> IF Isolated(m.plan, t) /\ m.plan.fallback = "fail"
                        THEN Refused(Unmatched(m, s, t)) ELSE Live(m)
        [] OTHER -> IF n.err # "" THEN Refused(n)
                    ELSE [mocks |-> n, answer |-> "mocked", rule |-> r.id]

Before(m, s, t, a, allowed) ==
  LET counted == [m EXCEPT !.seen[t] = @ + 1]
      hits == {r \in Enabled(m.plan) : /\ r.tool = t /\ a \in r.accepts
                                       /\ r.occurrence = counted.seen[t]}
      elsewhere == s # m.plan.session \/ (Enabled(m.plan) # {} /\ ~allowed)
  IN  CASE m.err # "" -> Refused(m)
        [] m.err = "" /\ m.plan = NoPlan -> Live(m)
        [] m.err = "" /\ m.plan # NoPlan ->
             IF elsewhere THEN Refused(m) ELSE Choose(counted, s, t, hits)

(* status: a plan without rules is complete unless it failed.              *)
Complete(m) ==
  /\ m.err = ""
  /\ m.plan # NoPlan =>
       \A r \in Enabled(m.plan) : m.matches[r.id] = r.required

-----------------------------------------------------------------------------
Absent == [Nothing EXCEPT !.number = -1]
NoTurn == [at |-> "none"]
Quiet == [at |-> "idle"]
NoClean == [number |-> 0]

ScenarioInit ==
  /\ sim = [state |-> "inactive", run |-> NoPlan, baseline |-> FALSE]
  /\ mocks = Nothing /\ executions = [s \in Session |-> Absent]
  /\ turns = [s \in Session |-> NoTurn]
  /\ calls = [w \in Worker |-> Quiet] /\ called = 0
  /\ installs = 0 /\ log = <<>> /\ lost = {} /\ clean = NoClean

Active == sim.state = "active"

(* A snapshot that could not be queued fails the plan.                     *)
Undelivered(m) == [m EXCEPT !.err = "snapshot"]

(* scenarioSnapshotLocked: nothing is sent without a plan.                 *)
Snapshot(m, delivered) ==
  /\ m.plan = NoPlan => delivered
  /\ mocks' = IF delivered THEN m ELSE Undelivered(m)
  /\ lost' = IF delivered THEN lost ELSE lost \cup {m.number}

(* activate, or a same-run update: the plan of the block is configured,    *)
(* and a ready snapshot is sent.  Here a run begins or goes on.            *)
Applies(block) ==
  /\ sim.state = "inactive" \/ (Active /\ sim.run = block.run)
  /\ LET m == Configured(mocks, block.plan)
     IN  /\ installs' = IF m.number > installs THEN m.number ELSE installs
         /\ installs' <= MaxInstalls
         /\ \E delivered \in BOOLEAN : Snapshot(m, delivered)
  /\ sim' = [state |-> "active", run |-> block.run, baseline |-> block.baseline]
  /\ UNCHANGED <<executions, turns, calls, called, log, clean>>

(* deactivate, in its two sections; a restart activates after it.          *)
Deactivates ==
  /\ Active
  /\ sim' = [sim EXCEPT !.state = "stopping"]
  /\ UNCHANGED <<mocks, executions, turns, calls, called, installs, log, lost, clean>>

Forgets ==
  /\ sim.state = "stopping"
  /\ sim' = [state |-> "inactive", run |-> NoPlan, baseline |-> FALSE]
  /\ mocks' = Nothing
  /\ UNCHANGED <<executions, turns, calls, called, installs, log, lost, clean>>

-----------------------------------------------------------------------------
(* Invocations: one at a time in a session                                 *)

(* BeginExecution installs a private plan if the session has none.         *)
BeginExecution(s, raw) ==
  /\ raw \in Plan /\ Sound(raw) /\ raw.session = s
  /\ executions[s] = Absent
  /\ Cardinality({x \in Session : executions[x] # Absent}) < Capacity
  /\ installs < MaxInstalls /\ installs' = installs + 1
  /\ executions' = [executions EXCEPT ![s] = Installed(raw, installs + 1)]

(* ScenarioToken: the content of the public plan.                          *)
ScenarioToken == mocks.plan

(* Dispatch, with the token of the public plan; a refused private plan     *)
(* means no dispatch.                                                      *)
Dispatches(i) ==
  /\ turns[i.session] = NoTurn
  /\ IF i.plan = NoPlan THEN UNCHANGED <<executions, installs>>
     ELSE BeginExecution(i.session, i.plan)
  /\ turns' = [turns EXCEPT ![i.session] = [at |-> "running", run |-> i.run,
                              token |-> ScenarioToken, private |-> i.plan # NoPlan]]
  /\ UNCHANGED <<sim, mocks, calls, called, log, lost, clean>>

(* What a clean completion says: the installation, its evidence, and which *)
(* entries of the log were made under it.                                  *)
Told(m) == [number |-> m.number, plan |-> m.plan, events |-> m.events,
            queued |-> m.number \notin lost,
            answers |-> {i \in DOMAIN log : log[i].number = m.number}]

(* EndExecution, or FinishScenario for the exact plan of the dispatch.     *)
TurnEnds(s, success) ==
  /\ turns[s] # NoTurn
  /\ turns' = [turns EXCEPT ![s] = NoTurn]
  /\ IF turns[s].private
     THEN /\ executions' = [executions EXCEPT ![s] = Absent]
          /\ clean' = IF success /\ Complete(executions[s]) THEN Told(executions[s]) ELSE clean
          /\ UNCHANGED <<mocks, lost>>
     ELSE /\ UNCHANGED executions
          /\ IF /\ Active /\ mocks.plan # NoPlan /\ turns[s].run = sim.run
                /\ s = mocks.plan.session /\ turns[s].token = ScenarioToken
             THEN \E delivered \in BOOLEAN :
                    /\ Snapshot(mocks, delivered)
                    /\ clean' = IF delivered /\ success /\ Complete(mocks)
                                THEN Told(mocks) ELSE clean
             ELSE UNCHANGED <<mocks, lost, clean>>
  /\ UNCHANGED <<sim, calls, called, installs, log>>

-----------------------------------------------------------------------------
(* A tool call: CheckToolCall, BeforeScenarioTool, then the real tool and  *)
(* RecordToolIO unless it was mocked or refused                            *)

(* ObserveScenarioTool, and BeforeScenarioTool, prefer the private plan.   *)
Observe(s, e) ==
  IF executions[s] # Absent
  THEN executions' = [executions EXCEPT ![s] = Observed(@, s, e)] /\ UNCHANGED mocks
  ELSE /\ mocks' = IF Active THEN Observed(mocks, s, e) ELSE mocks
       /\ UNCHANGED executions

(* A call of an invocation bears its run, and the check denies it during   *)
(* another run or a baseline.                                              *)
Foreign(s) ==
  /\ turns[s] # NoTurn /\ executions[s] = Absent
  /\ Active /\ (sim.baseline \/ turns[s].run # sim.run)

(* The check observes the request, and may deny the call.                  *)
CallRequests(w, call) ==
  LET s == call.session
      begun == IF turns[s] = NoTurn THEN [at |-> "decide", of |-> call, run |-> NoPlan]
               ELSE [at |-> "scope", of |-> call, run |-> turns[s].run]
  IN  /\ calls[w] = Quiet /\ called < MaxCalls
      /\ called' = called + 1
      /\ IF Foreign(s) THEN UNCHANGED <<calls, mocks, executions>>
         ELSE /\ Observe(s, <<"requested", call.tool>>)
              /\ \E next \in {begun, Quiet} : calls' = [calls EXCEPT ![w] = next]
      /\ UNCHANGED <<sim, turns, installs, log, lost, clean>>

(* BeforeScenarioTool of the Guard: HasExecution, Active and RunID are     *)
(* three sections, and the decision a fourth.                              *)
CallScoped(w) ==
  /\ calls[w].at = "scope"
  /\ calls' = [calls EXCEPT ![w].at =
       IF executions[calls[w].of.session] # Absent \/ ~Active THEN "decide" ELSE "run"]
  /\ UNCHANGED <<sim, mocks, executions, turns, called, installs, log, lost, clean>>

CallRunChecked(w) ==
  /\ calls[w].at = "run"
  /\ calls' = [calls EXCEPT ![w] = IF @.run = sim.run THEN [@ EXCEPT !.at = "decide"] ELSE Quiet]
  /\ UNCHANGED <<sim, mocks, executions, turns, called, installs, log, lost, clean>>

(* During a baseline every call is refused, and no plan is asked.          *)
Decision(w, m, baseline) ==
  LET c == calls[w].of
  IN IF baseline THEN Refused(m) ELSE Before(m, c.session, c.tool, c.arg, c.allow)

(* The controller decides, and the decision is logged.                     *)
Decides(w, m, baseline) ==
  LET c == calls[w].of
      b == Decision(w, m, baseline)
  IN  /\ calls' = [calls EXCEPT ![w] = IF b.answer = "live" THEN [@ EXCEPT !.at = "real"]
                                       ELSE Quiet]
      /\ log' = Append(log, [number |-> m.number, session |-> c.session, tool |-> c.tool,
                             allow |-> c.allow, baseline |-> baseline,
                             answer |-> b.answer, rule |-> b.rule])

CallDecides(w) ==
  /\ calls[w].at = "decide"
  /\ LET s == calls[w].of.session
     IN IF executions[s] # Absent
        THEN /\ Decides(w, executions[s], FALSE) /\ UNCHANGED mocks
             /\ executions' = [executions EXCEPT ![s] = Decision(w, @, FALSE).mocks]
        ELSE /\ UNCHANGED executions
             /\ IF Active
                THEN /\ Decides(w, mocks, sim.baseline)
                     /\ mocks' = Decision(w, mocks, sim.baseline).mocks
                ELSE /\ calls' = [calls EXCEPT ![w].at = "real"]
                     /\ UNCHANGED <<mocks, log>>
  /\ UNCHANGED <<sim, turns, called, installs, lost, clean>>

(* The real tool ran: RecordToolIODetail observes it.                      *)
CallExecuted(w) ==
  /\ calls[w].at = "real"
  /\ Observe(calls[w].of.session, <<"executed", calls[w].of.tool>>)
  /\ calls' = [calls EXCEPT ![w] = Quiet]
  /\ UNCHANGED <<sim, turns, called, installs, log, lost, clean>>

ScenarioNext ==
  \/ \E block \in Block : Applies(block)
  \/ Deactivates \/ Forgets
  \/ \E i \in Invocation : Dispatches(i)
  \/ \E s \in Session, success \in BOOLEAN : TurnEnds(s, success)
  \/ \E w \in Worker :
       \/ \E call \in ToolCall : CallRequests(w, call)
       \/ CallScoped(w) \/ CallRunChecked(w) \/ CallDecides(w) \/ CallExecuted(w)

-----------------------------------------------------------------------------
(* What the runner is told of a scenario is what happened.  A clean        *)
(* completion means that, under that installation of the plan, every       *)
(* snapshot was queued; that the calls refused are those that were not the *)
(* plan's to answer, of another session, not authorized to mock, or made   *)
(* during a baseline, and none but those; that no isolated tool was let    *)
(* through unless the plan says so; and that each enabled rule answered    *)
(* exactly as many calls as it requires, with as many entries of evidence  *)
(* (before, append, status, scenarioSnapshotLocked, FinishScenario,        *)
(* EndExecution).                                                          *)
TimesMocked(rule, answers) ==
  Cardinality({i \in answers : log[i].answer = "mocked" /\ log[i].rule = rule})
TimesNoted(rule, events) == Cardinality({j \in DOMAIN events : events[j] = <<"mocked", rule>>})

MocksHold ==
  clean # NoClean =>
    /\ clean.queued
    /\ \A i \in clean.answers :
         LET e == log[i]
         IN  /\ e.answer = "refused" <=>
                  \/ e.session # clean.plan.session \/ e.baseline
                  \/ Enabled(clean.plan) # {} /\ ~e.allow
             /\ e.answer = "live" /\ Isolated(clean.plan, e.tool)
                => clean.plan.fallback = "passthrough"
    /\ \A r \in Enabled(clean.plan) :
         /\ TimesMocked(r.id, clean.answers) = r.required
         /\ TimesNoted(r.id, clean.events) = r.required
=============================================================================
