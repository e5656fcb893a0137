--------------------------- MODULE GuardLifecycle ---------------------------
(***************************************************************************)
(* The life of a Guard (connect.go, config_poll.go, Guard.Close): callers  *)
(* connect and close it while one goroutine polls the platform's           *)
(* configuration and applies each answer in four sections of pollMu, with  *)
(* the callbacks between them; Close ends with the telemetry sink.         *)
(***************************************************************************)
EXTENDS TelemetryBatch, FiniteSets, FiniteSetsExt

CONSTANTS
  Caller,      \* goroutines that call Connect and Close
  Answer,      \* configuration answers of the platform
  Modes,       \* model modes
  Block,       \* simulation blocks
  NoBlock,     \* no simulation in the answer
  NoMode,      \* no model mode in the answer, or none known
  MaxConnects, \* bound on the calls of Connect
  MaxPolls     \* bound on the polls that succeed

(* An answer: the settings' revision (0 if it has none), whether it names  *)
(* an agent, whether it allows attachments, and the other three fields.    *)
ASSUME LifecycleAssumption ==
  /\ MaxConnects \in Nat /\ MaxPolls \in Nat
  /\ Answer \subseteq [rev : Nat, named : BOOLEAN, allows : BOOLEAN,
                       mode : Modes \cup {NoMode}, sim : Block \cup {NoBlock},
                       refresh : BOOLEAN]

VARIABLES
  poller,    \* where the poller stands
  held,      \* the answer it applies
  pollStop,  \* g.pollStop: "none" before the poller starts, "open", "taken"
  stops,     \* how often the poller's stop channel was closed
  call,      \* call[c]: where the call of caller c stands
  connects,  \* calls of Connect so far
  mode,      \* g.modelMode
  simHash,   \* g.lastSimHash
  ctl,       \* the block the simulation controller was last given
  media,     \* the fields nontext*, and whether the permission has expired
  answers,   \* the answers applied so far
  reopened   \* a Connect was under way when a Close began, or after it

pollVars == <<poller, held, pollStop, stops, mode, simHash, ctl, media, answers>>
guardVars == <<pollVars, call, connects, reopened, batchVars>>

NoAnswer == [rev |-> 0, named |-> FALSE, allows |-> FALSE, mode |-> NoMode,
             sim |-> NoBlock, refresh |-> FALSE]

Connecting == {"post", "fold", "start"}
ClosingAt == {"take", "waitPoll", "stopSim", "closeTel", "waitTel"}

GuardInit ==
  /\ poller = "none" /\ held = NoAnswer
  /\ pollStop = "none" /\ stops = 0
  /\ call = [c \in Caller |-> "idle"] /\ connects = 0
  /\ mode = NoMode /\ simHash = NoBlock /\ ctl = NoBlock
  /\ media = [rev |-> 0, ack |-> 0, allowed |-> FALSE, fresh |-> FALSE]
  /\ answers = <<>> /\ reopened = FALSE
  /\ BatchInit

LifecycleTypeOK ==
  /\ poller \in {"none", "ask", "media", "mode", "modeHook", "sim", "simHook",
                 "refresh", "post", "fold", "wait", "gone"}
  /\ held \in Answer \cup {NoAnswer}
  /\ pollStop \in {"none", "open", "taken"} /\ stops \in 0..1
  /\ call \in [Caller -> {"idle", "closed"} \cup Connecting \cup ClosingAt]
  /\ mode \in Modes \cup {NoMode}
  /\ simHash \in Block \cup {NoBlock} /\ ctl \in Block \cup {NoBlock}
  /\ media \in [rev : Nat, ack : Nat, allowed : BOOLEAN, fresh : BOOLEAN]
  /\ Len(answers) <= MaxPolls
  /\ poller = "none" <=> pollStop = "none"
  /\ BatchTypeOK

Go(c, at) == call' = [call EXCEPT ![c] = at]

-----------------------------------------------------------------------------
(* Connect: the controller is made and told the manifest, the manifest is  *)
(* posted, the answer folded in, the poller started.  A call that fails    *)
(* starts none.                                                            *)

AnyClose == \E c \in Caller : call[c] \in ClosingAt \cup {"closed"}

ConnectDeclares(c) ==
  /\ call[c] = "idle" /\ connects < MaxConnects
  /\ connects' = connects + 1
  /\ Go(c, "post")
  /\ reopened' = (reopened \/ AnyClose)
  /\ UNCHANGED <<pollVars, batchVars>>

ConnectPosts(c) ==
  /\ call[c] = "post"
  /\ Go(c, "fold") \/ Go(c, "idle")
  /\ UNCHANGED <<pollVars, connects, reopened, batchVars>>

(* The answer to a connect changes the mode silently.                      *)
Fold == mode' \in Modes \cup {mode}

ConnectFolds(c) ==
  /\ call[c] = "fold" /\ Fold
  /\ Go(c, "start")
  /\ UNCHANGED <<poller, held, pollStop, stops, simHash, ctl, media, answers,
                 connects, reopened, batchVars>>

StartsPoller == pollStop = "none"   \* ~g.pollStarted

(* startConfigPoll starts the poller once in the life of the Guard.        *)
ConnectStarts(c) ==
  /\ call[c] = "start"
  /\ Go(c, "idle")
  /\ IF StartsPoller
     THEN poller' = "ask" /\ pollStop' = "open" /\ stops' = 0
     ELSE UNCHANGED <<poller, pollStop, stops>>
  /\ UNCHANGED <<held, mode, simHash, ctl, media, answers, connects, reopened,
                 batchVars>>

-----------------------------------------------------------------------------
(* The poller                                                              *)

PollStep(from, to) == poller = from /\ poller' = to
StepsFrom(from, to) ==
  /\ PollStep(from, to)
  /\ UNCHANGED <<held, pollStop, stops, call, connects, mode, simHash, ctl,
                 media, answers, reopened, batchVars>>

PollAnswered(a) ==
  /\ Len(answers) < MaxPolls
  /\ PollStep("ask", "media")
  /\ held' = a
  /\ UNCHANGED <<pollStop, stops, call, connects, mode, simHash, ctl, media,
                 answers, reopened, batchVars>>

(* An error, or an answer that does not decode: the tick is over.          *)
PollFails == StepsFrom("ask", "wait")

(* Mutant: settings are taken whatever their revision.                     *)
Current_Bug(a) == TRUE

(* Settings without a revision, or not older than those in force.          *)
Current(a) == a.rev = 0 \/ a.rev >= media.rev

Granted(a, rev) == (rev = 0 \/ a.rev # 0) /\ a.named /\ a.allows

(* Section 1: the permission to send attachments, and its lifetime.        *)
ApplyMedia ==
  /\ PollStep("media", "mode")
  /\ answers' = Append(answers, held)
  /\ media' = IF ~Current(held) THEN media
              ELSE LET rev == IF held.rev = 0 THEN media.rev ELSE held.rev
                   IN [rev |-> rev, fresh |-> TRUE,
                       ack |-> IF held.named THEN held.rev ELSE 0,
                       allowed |-> Granted(held, rev)]
  /\ UNCHANGED <<held, pollStop, stops, call, connects, mode, simHash, ctl,
                 reopened, batchVars>>

(* The permission lapses when no answer renews it.                         *)
MediaExpires ==
  /\ media.fresh
  /\ media' = [media EXCEPT !.fresh = FALSE]
  /\ UNCHANGED <<poller, held, pollStop, stops, call, connects, mode, simHash,
                 ctl, answers, reopened, batchVars>>

(* Section 2: the model mode; its callback runs if it changed.             *)
ApplyMode ==
  /\ poller = "mode"
  /\ poller' = IF held.mode \notin {NoMode, mode} THEN "modeHook" ELSE "sim"
  /\ mode' = IF held.mode = NoMode THEN mode ELSE held.mode
  /\ UNCHANGED <<held, pollStop, stops, call, connects, simHash, ctl, media,
                 answers, reopened, batchVars>>

ModeHook == StepsFrom("modeHook", "sim")

(* Mutant: an answer without a simulation is no change.                    *)
SimChanged_Bug == held.sim \notin {simHash, NoBlock}

SimChanged == held.sim # simHash

(* Section 3: the hash of the simulation block; the controller is told of  *)
(* a change after the section.                                             *)
ApplySim ==
  /\ poller = "sim"
  /\ poller' = IF SimChanged THEN "simHook" ELSE "refresh"
  /\ simHash' = held.sim
  /\ UNCHANGED <<held, pollStop, stops, call, connects, mode, ctl, media,
                 answers, reopened, batchVars>>

SimHook ==
  /\ PollStep("simHook", "refresh")
  /\ ctl' = held.sim
  /\ UNCHANGED <<held, pollStop, stops, call, connects, mode, simHash, media,
                 answers, reopened, batchVars>>

(* Section 4: a manifest refresh sends the manifest again.                 *)
Refresh ==
  /\ poller = "refresh"
  /\ poller' = IF held.refresh THEN "post" ELSE "wait"
  /\ held' = NoAnswer
  /\ UNCHANGED <<pollStop, stops, call, connects, mode, simHash, ctl,
                 media, answers, reopened, batchVars>>

RefreshPosts == StepsFrom("post", "fold") \/ StepsFrom("post", "wait")

RefreshFolds ==
  /\ PollStep("fold", "wait") /\ Fold
  /\ UNCHANGED <<held, pollStop, stops, call, connects, simHash, ctl, media,
                 answers, reopened, batchVars>>

PollTicks == StepsFrom("wait", "ask")

(* Mutant: the poller selects on g.pollStop, which Close has set to nil.   *)
StopSeen_Bug == pollStop = "open" /\ stops > 0

StopSeen == stops > 0

PollEnds == StopSeen /\ StepsFrom("wait", "gone")

-----------------------------------------------------------------------------
(* Close: the invocation connections, the poller, the simulation, the sync *)
(* channel of the local controls (see LocalControls) and the telemetry, in *)
(* this order.                                                             *)

CloseStarts(c) ==
  /\ call[c] = "idle"
  /\ Go(c, "take")
  /\ reopened' = (reopened \/ \E d \in Caller : call[d] \in Connecting)
  /\ UNCHANGED <<pollVars, connects, batchVars>>

(* Mutant: the stop channel is left for the next call to close.            *)
Taken_Bug == "open"

Taken == "taken"

(* The first call takes the stop channel and waits for the poller.         *)
CloseTakes(c) ==
  /\ call[c] = "take"
  /\ IF pollStop = "open"
     THEN Go(c, "waitPoll") /\ pollStop' = Taken /\ stops' = stops + 1
     ELSE Go(c, "stopSim") /\ UNCHANGED <<pollStop, stops>>
  /\ UNCHANGED <<poller, held, mode, simHash, ctl, media, answers, connects,
                 reopened, batchVars>>

(* Mutant: Close does not wait for the poller.                             *)
PollerDone_Bug == TRUE

PollerDone == poller = "gone"

CloseJoins(c) ==
  /\ call[c] = "waitPoll" /\ PollerDone
  /\ Go(c, "stopSim")
  /\ UNCHANGED <<pollVars, connects, reopened, batchVars>>

CloseStopsSim(c) ==
  /\ call[c] = "stopSim"
  /\ ctl' = NoBlock
  /\ Go(c, "closeTel")
  /\ UNCHANGED <<poller, held, pollStop, stops, mode, simHash, media, answers,
                 connects, reopened, batchVars>>

CloseTelemetry(c) ==
  /\ call[c] = "closeTel"
  /\ Go(c, "waitTel")
  /\ IF closeOnce = "idle" THEN CloseBegins ELSE UNCHANGED batchVars
  /\ UNCHANGED <<pollVars, connects, reopened>>

CloseReturns(c) ==
  /\ call[c] = "waitTel" /\ closeOnce = "done"
  /\ Go(c, "closed")
  /\ UNCHANGED <<pollVars, connects, reopened, batchVars>>

-----------------------------------------------------------------------------
PollerStep ==
  \/ \E a \in Answer : PollAnswered(a)
  \/ PollFails \/ ApplyMedia \/ ApplyMode \/ ModeHook \/ ApplySim \/ SimHook
  \/ Refresh \/ RefreshPosts \/ RefreshFolds \/ PollTicks

CallStep(c) ==
  \/ ConnectPosts(c) \/ ConnectFolds(c) \/ ConnectStarts(c)
  \/ CloseTakes(c) \/ CloseJoins(c) \/ CloseStopsSim(c)
  \/ CloseTelemetry(c) \/ CloseReturns(c)

SinkStep == (Flushing \/ BatcherEnds \/ Closing \/ Recording)
            /\ UNCHANGED <<pollVars, call, connects, reopened>>

GuardNext ==
  \/ \E c \in Caller : ConnectDeclares(c) \/ CloseStarts(c) \/ CallStep(c)
  \/ PollerStep \/ PollEnds \/ MediaExpires
  \/ SinkStep

(* The goroutines run on, and a select whose stop channel stays ready      *)
(* takes it at last.  Nothing makes anyone call Close.                     *)
BatcherStops == BatcherEnds /\ UNCHANGED <<pollVars, call, connects, reopened>>
SinkCloses == (Flushing \/ Closing) /\ UNCHANGED <<pollVars, call, connects, reopened>>
GuardFairness ==
  /\ \A c \in Caller : WF_guardVars(CallStep(c))
  /\ WF_guardVars(PollerStep) /\ SF_guardVars(PollEnds)
  /\ WF_guardVars(SinkCloses) /\ SF_guardVars(BatcherStops)
  /\ WF_guardVars(Closing /\ UNCHANGED <<pollVars, call, connects, reopened>>)

GuardSpec == GuardInit /\ [][GuardNext]_guardVars /\ GuardFairness

-----------------------------------------------------------------------------
(* Properties                                                              *)

Revisions(n) == {answers[i].rev : i \in 1..n}
NewestBefore(i) == Max(Revisions(i - 1) \cup {0})

(* The answer whose settings count: the last that is not older than an     *)
(* answer before it.                                                       *)
Counting == {i \in 1..Len(answers) :
               answers[i].rev = 0 \/ answers[i].rev >= NewestBefore(i)}
InForce == answers[Max(Counting)]

NontextPayloadAllowed == media.allowed /\ media.fresh

(* Attachments leave the process only under a permission the platform      *)
(* holds to: the last answer not overtaken by an older revision grants it, *)
(* to a named agent, and with a revision if any answer ever had one; and   *)
(* the heartbeat acknowledges no revision but that of these settings       *)
(* (applyConfig, NontextPayloadAllowed, heartbeatHeaders).                 *)
MediaOnlyIfGranted ==
  /\ NontextPayloadAllowed =>
       /\ Counting # {} /\ InForce.named /\ InForce.allows
       /\ InForce.rev = Max(Revisions(Len(answers)) \cup {0})
  /\ media.ack # 0 => Counting # {} /\ InForce.rev = media.ack

(* Between two polls the controller runs the block of the last answer:     *)
(* no change is missed, though the hash is stored before the controller is *)
(* told (applyConfig, hashSim).                                            *)
SimulationFollows ==
  poller = "wait" /\ ~AnyClose /\ answers # <<>> => ctl = answers[Len(answers)].sim

(* A Guard whose Close calls have all returned is at rest: no poller, no   *)
(* simulation, no goroutine of the sink.  Excepted is a Connect that was   *)
(* under way when Close began, or came later: its poller outlives Close    *)
(* (Guard.Close, startConfigPoll).                                         *)
CloseIsFinal ==
  (AnyClose /\ ~reopened /\ \A c \in Caller : call[c] \notin ClosingAt)
  => poller \in {"none", "gone"} /\ ctl = NoBlock /\ batcher = "gone"

(* A call of Close returns: it waits for the poller, which stops between   *)
(* two polls, and for the sink, which flushes and stops (Guard.Close).     *)
CloseTerminates == \A c \in Caller : call[c] = "take" ~> call[c] = "closed"
=============================================================================
