# Verification of flyedge-go

TLA+ models of the CompFly FlyEdge SDK for Go, the TLC configurations that check
them and the theorems TLAPS proves about them. `PROJECT.json` lists the runs,
the line of code behind each definition, the hazards and the findings.

    tlc -config InvocationWork.cfg MCInvocation     # one run
    tlapm GuardProofs.tla                           # the proofs of one module

## The system

A `Guard` sits inside an agent. Its seams (an HTTP round tripper, tool hooks,
explicit `Check` calls) ask the platform for a decision before an operation goes
on. A poller fetches dynamic state from the platform, which may put the agent
into a simulation run. An agent may also serve invocations the platform sends
over a reverse WebSocket.

| Component | State | Operations | Hard behaviour | What makes it correct |
| --- | --- | --- | --- | --- |
| Invocation connection (`invocation.go`) | lease, pending renewal, active work, busy sessions, replay window, results channel | admit, cancel, renew, answer, output, Close | one loop, a reader, a heartbeat and N handlers; every way to end races every other | exclusive sessions, bounded capacity, at most one start, one truthful answer or "unknown", lease never revived |
| Guard.Check (`flyedge.go`) | none of its own; reads the controller, the local engine, the platform | one decision | several lock sections and one or two round trips in a decision | kills and denials stand, fail-closed means closed, simulations do not weaken other sessions |
| Simulation controller (`simulation/controller.go`) | state, block in force, transport, injector, heartbeat | start, hot-swap, restart, stop, record, inject | poller against hooks against heartbeat, captured pointers used after unlock | run's own transport and chains, no leaks, truthful announcements |
| Attack injector (`simulation/injector.go`) | mode, budget, chains and their progress | configure, inject | reset while hooks inject | budget holds, an injector stays with its run |
| Scenario mocks (`simulation/scenario.go`) | public plan, private plan per session, occurrences, evidence | configure, before tool, begin, end | plans outliving their invocation, evidence limits | a plan lives as long as its invocation, failures stick |
| Telemetry socket (`simulation/ws.go`) | queue, stop, backoff | send, pump, reconnect, stop | full queue, write lost on disconnect, bounded stop | never blocks the agent, order kept, nothing after stop |
| Config poll and Guard lifecycle (`config_poll.go`, `connect.go`, `flyedge.go`) | poller handles, model mode, media permission and its revision, simulation hash | connect, poll, apply, close | Close racing Connect, callbacks calling Close, stale revisions | no poller after Close, permission never outlives its revision |
| Local-control sync (`edgesync`, `local_controls_sync.go`) | last hash, running loop, active engine, reported version | start, poll, apply, report, stop | overlapping loops, rejected rule sets, 304 after a failed apply | last good rule set stays, reports are honest |
| Local-control engine (`localcontrol`) | detectors, token spend per session | evaluate | budget reset on swap, priority of verdicts | a local allow never overrides a denial |
| Transport wrap and stream monitors (`transport.go`, `responses.go`, `response.go`) | captured bytes, once flags | check before and after a model call | read, EOF and Close racing | nothing governed goes on unchecked; a Responses stream is audited once, a chat stream by each Close |
| Telemetry batching (`telemetry/batched.go`) | buffer, stop | record, flush by time, close | record racing close, a batch that does not encode | each event handed to the sender at most once; a batch is lost only for an event in it that does not encode |
| Agent profiler (`simulation/profiler.go`) | manifest, observed tools and models, dirty and ready marks | seed, observe, announce | the manifest read after unlocking, events racing the announcement, frames dropped | what is not marked as changed was put into a frame, which was queued or dropped |

They interact as follows. The poller calls `OnConfigChange` on the controller
(through `onSimChange`) in its own goroutine; `Guard.Check` and the seams call
the controller's hooks from the agent's goroutines; the invocation loop asks the
controller for permission (`InvocationRejection`) and begins and ends private
plans in it; handlers call `Guard.Check` with the scope of their invocation in
the context; `Guard.Close` closes the connections, the poller, the controller,
the sync and the telemetry sink, in this order. Everything goes to the platform
through one signed HTTP enforcer, except the two WebSockets.

## Not modelled

- Behaviour flags of the profiler: regular expressions over one event at a time.
- The contract and the history of an invocation: validation of one frame; the
  connection takes its verdict as a refusal.
- Identity, signing and the encoding of requests: pure functions and
  cryptography. `GuardCheck` has the kinds of answer the client can return.
- Tool governance and stages (`governed.go`, `stages.go`), taint: sequences of
  checks and injections without state of their own; their steps are those of
  `GuardCheck`, `ScenarioTools` and `AttackChains`. Only the tool call under a
  scenario, which has state, is modelled as a sequence (`ScenarioTools`).
- Inbound sessions, tracing, the OpenTelemetry sink and event formatting: context
  values and export.
- Options and configuration: fixed at construction; they are constants.
- The examples, which call the public API.

## The models

### InvocationService and InvocationConnection

`InvocationService` is what a connection promises: a request is new, started,
then answered or lost; a request starts once, in a free slot, alone in its
session. `InvocationConnection` is `ServeInvocations` after the handshake:

- `conn`, `connErr`, `ctxDone`, `readFailed` are the loop, `c.err`, `c.ctx` and
  the socket; `expiresAt`, `renewAt`, `pendingRenewal`, `granted` the lease and
  what the broker has granted; `active`, `sessions`, `seen` the loop's maps;
  `handler`, `outcome`, `cancelled`, `executions` the handler goroutines and
  private plans; `output`, `writing`, `sent`, `answer` the frames of a dispatch.
- `refused` is a history variable: the requests of which a delivery was refused. A
  refusal (`Refuse`, and `RefuseRequest` of the service) sends a terminal `failed`
  with the identifier of the frame, also when an earlier delivery of that identifier is
  in flight: its work goes on, and its text and its own answer follow. So "one answer"
  and "no text after the answer" are said of the dispatch, not of the identifier on the
  wire; a broker that delivers twice has to tell the two apart.
- One action per branch of the `select` (`ExpireLease`, `RenewLease`,
  `EndOnContext`, `EndOnHeartbeat`, `EndOnReadError`, `TakeResult` with
  `AnswerResult`, and the frames: `AcceptRenewal`, `RejectRenewal`, `EndOnFrame`,
  `CancelFrame`, `InvokeExpired`, `InvokeRefused`, `InvokeTurnedAway`,
  `InvokeStarted`), one per step of a handler (`HandlerReturns`, which also
  covers panics, `HandlerReports`, `HandlerCloses`, `BeginDelta`, `EndDelta`),
  and the environment (`Tick`, cancellation, socket failures, the broker).
- `BrokerGrants` is the only action that models code outside the repository.

`ImplementsService` maps a request to "started" while it was handed to a handler
and is unanswered, and to "lost" when the connection ended first.

### TwoConnections

Two connections of one Guard: `ServeInvocations` may be called again beside a
connection that serves, or after it was lost, while handlers of it still run. The
module is `InvocationConnection` twice, with the second under the same names and a
2 (`Second`); they share the clock and `executions`, the private plans of the
controller, which are kept by session. `ServeAgain` opens the second with a new lease;
`second` remembers whether the first had ended by then.

### SimulationController

`OnConfigChange` and `Stop` hold the `lifecycle` mutex throughout and `mu` in
several sections. `life` is the position of its holder, so each section is an
action: `RetuneRun`, `StopOld`, `Retune` for a same-run update; `ReplaceRun`
or `EndRun`, `StopOld`, `Clear` for a run that ends; `Activate`, `Arm` for one that
begins. Hooks interleave between them and are sections too: `RecordBegins`,
`RecordSends`, `ProfileEnds`; `InjectBegins`, `InjectFires`, `InjectEmits`.
`hook[w].held` is the pointer a hook captured under the lock and uses after it.
`wire` is the message accepted in the last step, with the run it is about, the
run it is stamped with and the run of the transport. Configuration blocks are
model values with a run, credentials and flags; which attack step matches a call
is nondeterministic.

### GuardCheck

`Guard.Check` on top of the controller (`EXTENDS SimulationController`; the
workers of that module are the goroutines that check). A check takes the steps
`CheckSimulation` (is there a private plan or a run), `CheckScope` (is a remote
invocation authorized), `CheckObserves` and `CheckRecords` (the controller's own
`Record`), `CheckBypass` (baseline), `CheckLocal`, `CheckAsks`, `CheckRetries` (the
text-only retry of a media check), `CheckDecides`. `seen` is the sequence of
answers of the platform: allow, warn, deny, a kill in a 200 or in a 403, an
error, and for attachments an unacknowledged answer or a technical refusal. A "blank"
answer is a 200 whose decision is missing or unknown: `normalize` (wire.go:236) starts
from allow, so it is taken for an allow, fail-closed or not, and `FailClosedHolds` says
so. (An "indeterminate" is such an unknown decision, so that attachments.go:249, which
looks for it, never meets one of the HTTP client.)
The branch of the code that reports `nontext_unconfirmed` has no action: an
unacknowledged answer without a denial or a kill is always retried first, and a
retry is marked `uninspected`, so the branch cannot be reached.

### LocalRules and LocalControls

`LocalRules` holds the pure part of the local engine: `Detectors(rules)` is what `New`
builds from a rule set; `Inspect` one detector; `Evaluate` the engine's walk over those
of a stage by falling priority, a fold of `Turn`, which does nothing after the first
denial, keeps the severest warning and charges tokens as it goes. A text is the set of
patterns it matches, one pattern per severity and exemption the code distinguishes.

`LocalControls` puts the engine under the sync. `loop[s]` is the position of the
poll goroutine of syncer `s`; a tick is `PollAnswers` or `PollFails`, `Apply`,
`StampVersion`, `ClearError`, `ReportReads`, `ReportSends`, because the engine
pointer, the version, the time and the error are separate atomics. `hash[s]` is
`lastHash`, stored before the payload is applied. `SyncLocalControls` and
`StopLocalControlSync` are the host's calls: the Guard forgets its syncer before
the loop is over, so two loops can overlap. `check[w]` is the engine a check
loaded; `ledger` and `passed` are the spend the engine has charged and let through.

`overlapped` marks behaviours in which two loops were alive, or the host set
rules itself. There an old last tick can put an older rule set back, and
the new loop, which gets a 304, never repairs it; reports may then name one rule
set and list another. `Converges` and `ReportHonest` except such behaviours.

### TelemetryBatch and GuardLifecycle

`TelemetryBatch` is the batching sink: `RecordCounts` and `RecordBuffers`, the
batcher's `LoopDrains`, `LoopSends`, `BatcherEnds`, and Close (`CloseBegins`) with its
own last flush (`CloseDrains`, `CloseSends`). There is no flush by size. `Send` hands a
drained batch to the sender if it encodes. The Data of an event is a map of the
caller's, and one value that `json.Marshal` refuses (`Unencodable`) loses the whole
batch, which is then in `spoiled`: the buffer was emptied before (batched.go:95-108).
`GuardLifecycle` extends it with Connect
(`ConnectDeclares`, `ConnectPosts`, `ConnectFolds`, `ConnectStarts`), the poller, and
Close (`CloseTakes`, `CloseJoins`, `CloseStopsSim`, `CloseTelemetry`,
`CloseReturns`). `applyConfig` is four lock sections with callbacks between them:
`ApplyMedia`, `ApplyMode` and `ModeHook`, `ApplySim` and `SimHook`, `Refresh`.
`answers` is a history variable, against which the properties compare what the
Guard holds. `reopened` marks a Connect that raced Close or came after it: its
poller outlives Close, since `startConfigPoll` looks at `pollStarted` only, and
`CloseIsFinal` excepts it.

### ProviderText and ModelCall

`ProviderText` has the pure functions of `transport.go`, `response.go`, `responses.go`
and `attachments.go`: which extractor a host and path get, the prompt, the answer and
the captured stream they yield, the attachments they find, what the policy view leaves
out, and what a tool check is given (`MediaContent`). A text is the set of its
fragments, since what matters is which of them a check sees; encrypted reasoning
(`Secret`), the message of an attack (`Adversary`) and a part without text (`NoText`)
are fragments of their own. Blocks of media are records of form, MIME type, encoding,
size and depth.

`ModelCall` is one `RoundTrip`: `CallBegins`, `CallReads` (with the injection),
`CallRoutes` (inline, through the proxy, direct), `PreCheck`, `Forward`, `Answered`,
`PostCheck`; then a streamed body with a reader (`ReadInner`, `ReadCaptures`,
`ReadFinishes`, `ReadReturns`) against `CloseBody`, `CloseFinishes`,
`CloseReturns` and `Cancel`. `checked` records what passed `pre_llm`, `passed` the
text that passed `post_llm`, `audits` what was audited. `EndingAssumption` is the one
thing assumed of the provider: a terminal event of a stream is the last that says a
word. Without it a capture that is complete by its ending could lack what follows.

Excepted from the properties, and worth knowing: answers on the OpenAI-compatible
paths of Anthropic and Google hosts are read in the host's own protocol, no text
is found and `post_llm` is skipped (`OwnProtocol`); a line of a megabyte ends the
scan of a captured chat stream (`ScannedWhole`); the audit of a chat stream is one
per Close, though response.go:19 speaks of one check when the stream ends, and a Close
that overlaps a Read may miss what the Read was about to capture (`stream.overlapped`).
The `pre_llm` check of a model call has the extractor's text and the attachments, no
policy view: an image or document whose source is a text or names a file is in neither
(`Reference`; docs/AGENT_MEDIA_PAYLOAD.md:17 has references unresolved). The check of a
tool has both, and misses no block (`ToolMediaSeen`). A Responses stream that was cut
is audited without the summaries of its reasoning (a `thought`), which responses.go:216-223
leaves out unless a terminal event brings them; such an audit says it is incomplete.

### ScenarioTools

The public plan (`mocks`), private plans (`executions`), tool calls of the agent
(`CallRequests`, `CallScoped`, `CallRunChecked`, `CallDecides`, `CallExecuted`) and
turns of the runner (`BeginExecution`, `Dispatches`, `TurnEnds`). `Before` is
`scenarioMocks.before`, `Choose` its choice among the rules that match; a plan is a set
of rules that accept a set of arguments. `number` distinguishes installations, which the
code's token does not: `log` has every decision of the controller, refusals for another
session, without permission or during a baseline included, and `clean` what a completion
told the runner. Such refusals leave a plan clean; `MocksHold` says that they are the
only ones that do.

### AgentProfile, EventWire and AttackChains

`AgentProfile`: an activation reads the manifest after unlocking (`Seeds`, with
every mixture of two manifests `SetManifest` may leave), `Observes` folds an event,
`MayEmit`, `Claims` and `Snapshots` are the three lock sections of an announcement, and
`Sends` hands its frame to the transport, which may drop it (a full queue, or a
transport that was stopped) and says nothing. The mark is cleared by then: a dropped
frame, the first `profile_ready` included, is not repeated before the profile changes
again. `told` and `dropped` hold what became of the views since the last snapshot.

`EventWire` is `ws.go`: `Enqueue` and `Drops`, `Dials`, `Sleeps`, `PumpTakes`,
`Writes`, `PumpStops`, `Halts`. `AttackChains` extends it with the injector:
`BuildChains` (explicit, evolved and default chains), `Hits` for a hook that takes
the injector's mutex, `Announces` for the frame it then queues, `Reloads` for a new
block. Payloads are their shape (text, map, nothing).

### EventDelivery

What an outgoing stream of events promises: each is accepted, is pending, and is
delivered once or lost. `Fragile` are the events that may be lost, with whatever is lost
beside them. `EventWire` implements it with `InTurn` and all events fragile
(`ImplementsDelivery`: a frame that is queued or in the sender's hand is pending, the
oldest leaves first, a failed write may have arrived or not); `TelemetryBatch`
implements it out of turn, with the events that do not encode as the fragile ones
(`SinkDelivers`: what a `Record` call holds, what is buffered and what is drained is
pending; a batch leaves as a whole, for the sender, or for nothing if an event in it
does not encode. What the sender does with it is its own affair: a batch it fails to
send is not sent again).

`MCSeams` checks these four seams and the sink, one per behaviour: they share no state but
what `SimulationController` already covers.

## Runs

| Run | Question | Bounds |
| --- | --- | --- |
| `InvocationWork` | Is work started once, held and released exactly, answered truthfully; does the connection implement the service, so that sessions and slots are exclusive? | three requests, two in one session, one with a plan; two slots; window of two, so that pruning happens; no renewal, which `InvocationLive` has |
| `InvocationShared` | Do the private plans of two connections of one Guard keep apart? | two connections, two requests, both with a plan, each over either connection; one slot each, no clock and no renewal: plans do not depend on time, and every way to end but expiry remains |
| `InvocationLive` | Renewal against expiry, output against the answer; and does everything end under scheduler fairness? | two requests, one slot, one piece of output, two renewals, leases of one and two, clock to 2 and grants to 3: a lease may be renewed and still run out, the broker may grant more than was asked, and a lease renewed beyond the clock leaves only an answer as a way to resolve a finished handler |
| `SimulationRuns` | Does an active run always have its own transport, chains and goroutines? | two runs, four blocks (tier change with and without new credentials), three transports: a renewal and a restart in one behaviour; one hook goroutine, because hooks share no state but the injector |
| `LocalControls` | Is the verdict the strongest, is the budget held, are reports honest, and do the rules converge? | three rule sets, one of which does not compile; two syncers, one host goroutine, one check at a time (the budget is one critical section), three engines, two charged calls each, a ceiling of one token |
| `GuardLifecycle` | Does the Guard hold what the last answer says, does Close end everything? | two callers, so that Close can race Connect and Close; one Connect, two polls, answers of two revisions and of none; one event, which does not encode |
| `Seams` | Is every model call checked and audited, are scenario evidence, profile and injections told as they happened, does the transport deliver in turn, and the sink all it can? | every route with every control answer, streams of up to three events, capture of two, two Closes; two tools, three plans, a baseline, two installations, two calls; two profiles, two observations over both; a queue of one, one failure, three hits, two loads; two recorders, four events, the second of which does not encode, so that batches of several events, two batches and overtaking occur; symmetry of the interchangeable workers |
| `GuardChecks` | Do kills, denials, fail-closed and private plans hold whatever the poller does between the steps of a check? | five kinds of check, both fail modes, all answers, two transports; one check at a time, since checks share nothing with each other that the model has |

`SessionsExclusive` and `CapacityRespected` have no run of their own, since
`ImplementsService` demands both of every start, nor has `PlanLifetime`, which is
`PlansOwned` for one connection; each has its theorem.

Four runs are expected to find a disagreement between a statement of the
repository and its code (see `findings`):

- `InvocationReusedId`: the comment that expired identifiers cannot be replayed.
  After the full window was pruned, a frame with a forgotten identifier and a
  later deadline starts the handler again.
- `InvocationReconnect`: "Different sessions can overlap; the same session cannot"
  (docs/SCENARIO_INTEGRATION.md:46). The map of busy sessions belongs to one serving
  loop. A lost connection cancels its handlers without waiting for them, and the next
  one admits a turn of a session whose handler still runs. Only turns with a plan
  are kept apart, by the controller.
- `SimulationHeartbeat`: heartbeats announce the middlewares and the protection
  of the block the run was activated with, not those in force.
- `GuardBaseline`: a remote check can be bypassed for an unprotected baseline that
  appears between its authorization and the bypass.

Other statements that differ, without a run of their own: "In `enforce`, a warning
blocks" (README.md:122) against `Guard.Check`, which applies a decision of the
platform unchanged in every mode; "each connection
serves one active invocation at a time" (README.md:284) against
`MaxConcurrentInvocations`; "Default false" for `AllowSimulationInjection`
(README.md:263) against nil meaning enabled.

Seen while modelling, and left to the hazards: `config.go:111` speaks of a
"per-session ceiling", but the ledger starts again with each applied rule set;
`syncer.go:100` says "after each successful poll", and the report is sent after a
failed one as well; `transport.go:45` says "Unknown shapes are left unchanged", and
the default case sets `system`; `transport.go:123` says an injected message is
checked, while the chat extractors look at the latest user message only; an
`error_inject` or `tool_poison` with an explicit payload of the wrong shape is
counted and announced though nothing changed; `declaredButNotSeen` is always
empty; a negative `variant_index` panics (`payloads.go:101`); the injection
detector reports the first pattern that matches, so a medium one hides a critical
one (`detectors.go:349`); the last changes of a profile are not announced if no
further event comes (`controller.go:410`); a chat body that is not JSON is left as it is
by `configInjectRewrite`, and the injection is announced all the same (`transport.go:126`):
`InjectionsTold` is about the injector and its announcements, not about the body.

`CHECK_DEADLOCK FALSE` is set everywhere: a connection ends, clocks and counters
are bounded, and a program whose agent asks for nothing more may stop.

`InvocationLive`, `InvocationReusedId` and the runs of two connections tell states apart
without `refused` (`VIEW WithoutRefusals`): no step reads it, and no property of theirs.

Every property of a passing run has a mutant: an operator `X_Bug` next to the
definition `X` it replaces, changed as a plausible bug would, under which the
run finds the property violated.

### Fairness

`FairSpec` of the connection assumes weak fairness of time, of the serving loop's
branches, and of a goroutine that only has to deliver a result or finish a
write: the Go scheduler runs what can run, and `select` chooses at random among
ready branches, so a branch that stays ready is taken. Nothing is assumed of
handlers, the broker, the network or the callers that cancel.

`LocalFairness`: a loop goes on and its ticker fires (weak fairness), and since Go
chooses at random among ready cases, a `select` that finds the stop channel ready
again and again takes it at last (strong fairness of `LoopEnds`). Polls that
fail do not fail for ever (strong fairness of `PollAnswers`): without this nothing
could converge. `GuardFairness`: the poller, the batcher and a call under way go
on; both loops take their stop channel at last. Nothing makes anyone call Close.

## Proofs

### InvocationProofs

For every set of requests, sessions, capacity, window and timing:

- `TypeCorrect`: `Spec => []TypeOK`.
- `Safety`: `Spec => []Inv` under `UniqueIds`, and from it `StartsAtMostOnce`,
  `SessionsNeverOverlap`, `CapacityNeverExceeded`, `SlotsNeverLeak`,
  `PlansNeverLeak`.

`UniqueIds` (the broker gives each request its own identifier) is needed:
`InvocationReusedId` is the counterexample without it.

The safety properties are not inductive alone. `SlotsMatchWork` says only what
holds while the loop serves, but handlers outlive it, and its preservation when
a request is admitted needs to know that the request was never started. `Inv`
adds: `Once` (a request has run exactly if its handler is not idle, and not
twice), `Remembers` (a started request that the window has forgotten is past its
deadline, so the admission test refuses it), and `OnePerSession` (at most one
request in flight per session, whatever the loop holds). With them an admitted
request is idle, its slot and session are free in truth and not only in the
maps, and each conjunct is preserved by each action.

The rest of the module builds on `Inv` and adds `AnswerInv`: a terminal frame is the
end of its request (handler done, output closed, no text being written), and while
the loop serves, a done handler has been answered. `StepKinds` sorts every step by
what the service sees of it: nothing, the end, a refusal, a start or an answer. From these:
`ConnectionImplementsService` (under `UniqueIds`; the work the service counts as
started is exactly `active`, so the loop's own tests imply the service's guards, and a
refusal leaves it as it is: `RefusalImplements`),
`TextEndsWithAnswer`, and, without any assumption on identifiers,
`LeaseNeverOverestimated`, `ExpiryIsFinal` and `CancelledWorkFails`.

`PlansHaveOneOwner` is about `TwoConnections`, without an assumption on identifiers.
`Owned` says that the plans of the controller are those of the running handlers of
the first and of the second connection, one session each; it is inductive with the
type of the two `handler` functions. `FirstPlans` and `SecondPlans` sort the steps of
each connection by what they do to its plans (nothing, one begun for a session without
one, one ended with its handler), and `OwnedStays` has that each such change keeps
`Owned`, whichever connection makes it (`OwnedEither`).

### SimulationProofs

For every set of blocks, runs, credentials, workers, any budget and any number of
transports: `ControllerSafe` (types, hence budgets, and the inductive invariant
`SimInv`), and from it `EventsStayOnRun`, `InjectorsStayOnRun`,
`TransitionsArrive` and `GoroutinesNeverLeak`.

All but the first speak of moments when the lifecycle mutex is free, or of one
message; `SimInv` says what holds inside `OnConfigChange` too. `Phases` ties the
position of the mutex holder to the state it left; `Sockets` says that the live
transports are always exactly the current one and the one in the holder's hand,
so that stopping the latter leaves the former; `Injectors` has the injector absent
from the activation to the second section; `Beats` counts one untold heartbeat from
there to the end of the run; `Held` says of each suspended `Record` that its
transport was opened for a block of the run it stamped, which stays true because
transports are never opened twice.

`InjectorsStayOnRun` needs `Captured` besides: the injector a suspended hook holds is of
the run the hook's call was made in, and is not the one that `Arm` is about to
configure, which has the number of the transport just opened. A restart leaves the old
injector under the old run, so the hook fires what is left of the old run's chains even
while the next run is active; the theorem says whose chains, not that none fires.

### GuardProofs

The checks run on the controller, so `GuardSafe` carries `SimInv` along: a step of a
check is a step of the controller's hooks or leaves it alone (`ControllerStep`).
From it `GuardTyped`, `KillsAlwaysBlock`, `DenialsAlwaysStand`,
`FailClosedAlways` and `PrivateAlwaysProtected`, for every set of requests and any
number of concurrent checks. `Attempts` is the strengthening: there are at most two
answers, a second one only after an unusable first one, and it is text only. So
whatever was answered before the last answer is an error or a technical refusal
(`EndedBy`), the decision is a function of the last answer, and a kill or denial can
only be the last. A fail-closed guard may still go on without a decision of the
platform, on a blank 200: enforce/client.go:57 says that "this layer does not silently
allow", docs/DEVELOPER_GUIDE_GO.md:430 that "no action proceeds unchecked". The property
states what the code keeps of that.

### LifecycleProofs

For any number of callers, answers, blocks and events. `LifeInv` is what makes
`ClosedIsAtRest` inductive: of several calls of Close under way only one has taken
the stop channel and waits; the others may stop the simulation before the poller's
last answer starts it again, but then the waiting one has not stopped it yet
(`StopsAgain`). `MediaInv` carries `MediaNeedsGrant`: `media.rev` is the newest
revision of all answers, and the permission and the acknowledgement are those of the
last one that counts (`Sources`); `OneMoreAnswer` says what an answer adds.
`FollowInv` carries `SimulationIsFollowed`: hash and controller differ only while
the callback runs.

`SinkInv` carries `EventsAreHandedOver`. An event that is counted may still be in the
hands of a `Record` that has not reached the buffer: `Recorded` has it in one hand
only, and in no batch yet. `SinkPhases` says where Close and the loop stand: once
Close has drained, the loop is gone and the buffer holds late events only. `Accounted`
has what was lost: each spoiled batch holds an event that does not encode, and nothing
of it is handed over, buffered or held. `SendKeeps` has that a send, whichever way it
goes, keeps both. `LifecycleTypeCorrect` has the types.

`SinkKeepsPromise` is the refinement of `EventDelivery`, step by step: `Record` accepts
when it counts (`RecordAccepts`) and stutters when it buffers; a drain stutters, for the
batch it fills was empty (`SinkPhases`); a send delivers its batch, or loses it with the
event in it that does not encode. That the batch is new to the sender and leaves nothing
of itself pending follows from `Recorded`: the batch is a part of a sequence in which
nothing is twice (`SendsBatch`), and no `Record` call holds an event of that sequence.

### ControlsProofs

For any number of rule sets, channels, hosts and workers.

`ReportsAreHonest`: hash, engine, version and error are stored one after the other, so
no relation between them holds throughout; `Knows` says for each position of the loop
which of them agree, and `OneLoop` that no second loop disturbs it.

`VerdictsAreStrongest` needs what the fold of `Evaluate` computes, which no induction
here can say of every set; but an engine has at most four detectors, of four
priorities. `Chain` writes the walk out as turns of up to four detectors,
`EvaluateIsChain` shows that the fold is that chain, `TurnWeighs` what one turn does to
the verdict, `ChainWeighs` what all do, and `EvaluateSpends` that the spend changes
only at the turn of the budget, which is the last.

`BudgetsAreHeld`: `passed` of the engine in force is within its ceiling since no check
can pass more than the ledger it reads allows. `BudgetInv` adds that engines are
numbered as they are installed: a check that still holds an older one charges that
one's ledger (a check of the same build holds the same engine), and an engine not
yet installed has spent nothing. `LocalTypeCorrect` has the types.

### AttackProofs

For any chains, calls, goroutines, queue, backoff and failures. `WireInv` is about the
socket alone: `WireFaithful` (what the server got, then the frame in the sender's
hand, then the queue are in the order of acceptance, and with what failed writes lost
they are all that was accepted), with `Losses`, which counts a frame that was written
but not yet counted. `ChainInv` is about the injector: the steps before a chain's
index are those that fired and those passed over (`Accounted`), in order
(`Advancing`), and two hooks that fired may announce in either order, but never the
same firing (`Numbered`). From both, `AttacksAttributed`.

`TransportDelivers` is the refinement of `EventDelivery`: the order of `WireFaithful`
makes the frame in the sender's hand the oldest that is pending (`HandIsOldest`), so
that a write delivers or loses the right one (`WriteDelivers`), and all else the
sender does leaves what is pending as it was (`SenderKeepsPending`).

The chains of a block come from `FlattenSeq`, whose recursion is a function of the
community modules; `SetInduction` (induction on the naturals, with the predicate
given as a set, so that no operator has to be instantiated) and `FlattenIs` say what
it returns, and `LeastElement` that `Min` exists.

### SeamsProofs

A model call (`ModelCall`), for any request, settings, answer and limit of the
capture. `CheckInv` says, for each position of `RoundTrip`, what the call has gone
through: the body is the injected one where an attack demands it, `checked` is what
the check owed that body (`Owed`), what was sent is that body, `passed` the text of
the answer. `NothingEscapes` then is a statement about the pure functions alone:
`TextSeen` (the latest message of the user, or all but encrypted reasoning, injected
or not), `MediaIsSeen` (a block is attached or marked, unless its
source is a text or names a file; in the check of a tool every block is, or is in the
policy view) and `ReplySeen`.

`StreamsAudited` rests on `MonitorInv`. `Following` relates what was delivered and
what was captured, which differ by the chunk in the reader's hand or by a truncation;
`AuditedOnce` is the `sync.Once` of a Responses stream, with an audit for the position
of each of the two that may have begun it; `AuditedAtClose` the audits of a chat, one
for each Close, which are whole unless a Read overlapped one. `ChatHeard` and
`ResponsesHeard` say what the two scanners find in a capture; `Hears` has that the
reasoning is in an audit that does not say it is incomplete, and may be in another.

The profile (`AgentProfile`): `ProfileTold` is inductive with the types. The steps that
need care are `Snapshots`, which takes the view and clears the mark in one section, and
`Sends`, which moves a view from the frames to those told or dropped (`StillTaken`);
`FoldedLearns` and `SeededLearns` have that every change of the view sets the mark.

### ScenarioProofs

`MocksHeld`, for any plans, rules, sessions, calls and workers. A plan without an error
stands by its evidence (`Standing`): every answer in the log under its number is one it
may give (a refusal of a plan without an error is one for another session, without
permission or in a baseline), and each rule has matched as often as the log, and the
events, say. `Numbered` has that numbers are given once, so what is decided under one
plan counts for no other (`OthersStand`); `DecisionIs` goes through the cases of
`before`, and `CompleteTells` from a complete plan that stands to what the runner is
told (`ToldRight`), which no later entry of the log changes (`ToldStays`).

### Assumptions of the theorems

Constants are typed by the assumptions of their modules (`CallAssumption`,
`TextAssumption`, ...), which the runs of those modules evaluate. Beyond types there
are two: `UniqueIds` for the identifiers of the broker and `EndingAssumption` for the
streams of the provider.

### Model-checked only

Every safety invariant of a passing run, every action property and the three
refinements have a theorem. What has none is liveness, which needs fairness and `ENABLED`, and
is out of this prover's reach: `CancelEndsConnection`, `RenewalResolved`,
`ReturnedIsResolved`, `Converges` and `CloseTerminates`.

## Plan

Behaviour flags and the invocation contract, if they gain state. The registry of
connections that `Guard.Close` goes through (`flyedge.go`), if it should be checked that
no connection is opened once the Guard is closed.
