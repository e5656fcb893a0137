------------------------ MODULE SimulationController ------------------------
(***************************************************************************)
(* The simulation controller (simulation/controller.go): the config poller *)
(* starts, re-tunes and ends runs through OnConfigChange, while the agent's *)
(* goroutines record events and take injections, and a heartbeat goroutine *)
(* of each activation announces the run.                                   *)
(*                                                                         *)
(* OnConfigChange and Stop are serialised by the `lifecycle` mutex, and    *)
(* touch the run's fields in several sections under `mu`: each section is  *)
(* one action, and the hooks interleave between them.  A hook is one or    *)
(* more such sections too, with captured pointers in between.              *)
(***************************************************************************)
EXTENDS Integers, FiniteSets

CONSTANTS
  Config,        \* valid simulation blocks the poller may see
  NoConfig,      \* nil, or a block that is not Valid()
  Run,           \* run identifiers
  RunOf,         \* RunOf[s]: run_id
  CredOf,        \* CredOf[s]: telemetry_url and telemetry_jwt
  Baseline,      \* blocks with protection_disabled
  Telemetry,     \* blocks with the "telemetry" middleware
  Attack,        \* blocks whose attack injector is in attack mode
  Hooked,        \* blocks with an enabled scenario override
  Worker,        \* goroutines of the agent that call the hooks
  MaxInjections, \* injection budget of one configuration
  MaxOpen        \* bound on the transports opened

ASSUME ControllerAssumption ==
  /\ NoConfig \notin Config
  /\ RunOf \in [Config -> Run]
  /\ Baseline \subseteq Config /\ Telemetry \subseteq Config
  /\ Attack \subseteq Config /\ Hooked \subseteq Config
  /\ MaxInjections \in Nat /\ MaxOpen \in Nat

None == 0   \* a nil pointer to a transport or an injector

(* Transports are numbered in the order they are opened.  The injector and *)
(* the heartbeat of an activation bear the number of its first transport.  *)
Opened == 1..MaxOpen

VARIABLES
  state,      \* c.state
  cfg,        \* c.cfg, and with it c.runID, c.protDisabled and c.emit
  tr,         \* c.tr
  injector,   \* c.inj
  life,       \* where the holder of `lifecycle` stands, and with what
  opened,     \* transports opened so far
  openedFor,  \* openedFor[t]: the block transport t was opened for
  stopped,    \* transports that were told to stop
  injectors,  \* injectors[i]: configuration and injection count
  beat,       \* beat[i]: the heartbeat goroutine of activation i
  beatCfg,    \* beatCfg[i]: the block it captured
  hbStop,     \* heartbeats whose stop channel is closed
  hook,       \* hook[w]: the hook call of worker w
  wire        \* the message a transport accepted in the last step

runVars  == <<state, cfg, tr, injector>>
ownVars  == <<opened, openedFor, stopped>>
beatVars == <<beat, beatCfg, hbStop>>
simVars  == <<runVars, life, ownVars, injectors, beatVars, hook, wire>>

Block == Config \cup {NoConfig}
Runs == Run \cup {NoConfig}   \* run ids, "" included
RunIdOf(s) == IF s = NoConfig THEN NoConfig ELSE RunOf[s]

Message == [kind : {"none", "event", "profile", "injection", "heartbeat"},
            about : Runs,  \* the run its content comes from
            says : Runs,   \* the run_id it is stamped with
            on : Runs]     \* the run of the transport that accepted it
Quiet == [kind |-> "none", about |-> NoConfig, says |-> NoConfig, on |-> NoConfig]
Calm == [at |-> "idle", held |-> None, under |-> NoConfig]

TypeOK ==
  /\ state \in {"inactive", "active", "stopping"}
  /\ cfg \in Block
  /\ tr \in Opened \cup {None}
  /\ injector \in Opened \cup {None}
  /\ life \in [at : {"idle", "stopOld", "retune", "stopRun", "clear", "start", "arm"},
               next : Block, old : Opened \cup {None}]
  /\ opened \in Opened \cup {0}
  /\ openedFor \in [Opened -> Block]
  /\ stopped \in SUBSET Opened
  /\ injectors \in [Opened -> [under : Block, count : 0..MaxInjections]]
  /\ beat \in [Opened -> {"none", "waiting", "sending", "gone"}]
  /\ beatCfg \in [Opened -> Block]
  /\ hbStop \in SUBSET Opened
  /\ hook \in [Worker -> [at : {"idle", "send", "profile", "fire", "emit"},
                          held : Opened \cup {None}, under : Block]]
  /\ wire \in Message

-----------------------------------------------------------------------------
(* What the Guard asks of the controller: each is one section under `mu`   *)

Active == state = "active"

ProtectionDisabled == Active /\ cfg \in Baseline

(* InvocationRejection: one snapshot of the active configuration.          *)
InvocationRejection(run, allowInjection) ==
  /\ Active
  /\ \/ cfg \in Baseline
     \/ RunOf[cfg] # run
     \/ ~allowInjection /\ cfg \in Hooked \cup Attack

-----------------------------------------------------------------------------
Idle == [at |-> "idle", next |-> NoConfig, old |-> None]

Init ==
  /\ state = "inactive" /\ cfg = NoConfig /\ tr = None /\ injector = None
  /\ life = Idle
  /\ opened = 0
  /\ openedFor = [t \in Opened |-> NoConfig]
  /\ stopped = {}
  /\ injectors = [i \in Opened |-> [under |-> NoConfig, count |-> 0]]
  /\ beat = [i \in Opened |-> "none"]
  /\ beatCfg = [i \in Opened |-> NoConfig]
  /\ hbStop = {}
  /\ hook = [w \in Worker |-> Calm]
  /\ wire = Quiet

(* newTransport and start.                                                 *)
Open(s) ==
  /\ opened < MaxOpen
  /\ opened' = opened + 1
  /\ openedFor' = [openedFor EXCEPT ![opened + 1] = s]
  /\ tr' = opened + 1

(***************************************************************************)
(* OnConfigChange and Stop.  `life` holds the lifecycle mutex.             *)
(***************************************************************************)

(* Bug: the stop channel is dropped without being closed.                  *)
HeartbeatsTold_Bug == hbStop

(* close(hb), the stop channel of the heartbeat of this activation.        *)
HeartbeatsTold == hbStop \cup {i \in Opened : beat[i] # "none"}

(* The first section of deactivate: the run stops, its heartbeat is told.  *)
Deactivate(next) ==
  /\ state' = "stopping"
  /\ tr' = None
  /\ hbStop' = HeartbeatsTold
  /\ life' = [at |-> "stopRun", next |-> next, old |-> tr]
  /\ UNCHANGED <<cfg, injector, ownVars, injectors, beat, beatCfg, hook>>
  /\ wire' = Quiet

(* No simulation any more, or Guard.Close calls Stop.                      *)
EndRun ==
  /\ life = Idle
  /\ Active
  /\ Deactivate(NoConfig)

(* Another run: the old one ends first.                                    *)
ReplaceRun(s) ==
  /\ life = Idle
  /\ Active
  /\ RunOf[s] # RunOf[cfg]
  /\ Deactivate(s)

(* The transport a credential change makes redundant.                      *)
Superseded == tr

(* The same run with another block: everything the hooks look at is        *)
(* replaced in one section, the transport only with its credentials.       *)
RetuneRun(s) ==
  /\ life = Idle
  /\ Active
  /\ RunOf[s] = RunOf[cfg]
  /\ s # cfg
  /\ cfg' = s
  /\ \/ /\ CredOf[s] # CredOf[cfg]
        /\ Open(s)
        /\ life' = [at |-> "stopOld", next |-> s, old |-> Superseded]
     \/ /\ CredOf[s] = CredOf[cfg]
        /\ life' = [at |-> "retune", next |-> s, old |-> None]
        /\ UNCHANGED <<tr, opened, openedFor>>
  /\ UNCHANGED <<state, injector, stopped, injectors, beatVars, hook>>
  /\ wire' = Quiet

(* transport.Stop closes the stop channel and waits for at most 5 s.       *)
StopOld ==
  /\ life.at \in {"stopOld", "stopRun"}
  /\ stopped' = stopped \cup {life.old}
  /\ life' = [life EXCEPT !.at = IF @ = "stopOld" THEN "retune" ELSE "clear",
                          !.old = None]
  /\ UNCHANGED <<runVars, opened, openedFor, injectors, beatVars, hook>>
  /\ wire' = Quiet

(* Bug: a re-tuned run keeps the chains it started with.                   *)
Configured_Bug(s) == injectors

(* handleUpdate: the injector takes the new chains and a fresh budget.     *)
Configured(s) ==
  IF injector = None THEN injectors
  ELSE [injectors EXCEPT ![injector] = [under |-> s, count |-> 0]]

Retune ==
  /\ life.at = "retune"
  /\ injectors' = Configured(life.next)
  /\ life' = Idle
  /\ UNCHANGED <<runVars, ownVars, beatVars, hook>>
  /\ wire' = Quiet

(* Bug: the injector of the finished run is not let go.                    *)
InjectorLeft_Bug == injector

InjectorLeft == None

(* The last section of deactivate forgets the run.                         *)
Clear ==
  /\ life.at = "clear"
  /\ state' = "inactive"
  /\ cfg' = NoConfig
  /\ injector' = InjectorLeft
  /\ life' = IF life.next = NoConfig THEN Idle ELSE [life EXCEPT !.at = "start"]
  /\ UNCHANGED <<tr, ownVars, injectors, beatVars, hook>>
  /\ wire' = Quiet

(* The first section of activate: the run is active, without its injector. *)
Activate(s) ==
  /\ \/ life = Idle /\ state = "inactive"
     \/ life.at = "start" /\ s = life.next
  /\ Open(s)
  /\ state' = "active"
  /\ cfg' = s
  /\ life' = [at |-> "arm", next |-> s, old |-> None]
  /\ UNCHANGED <<injector, stopped, injectors, beatVars, hook>>
  /\ wire' = Quiet

(* The second section, and startHeartbeat.                                 *)
Arm ==
  /\ life.at = "arm"
  /\ injector' = tr
  /\ injectors' = [injectors EXCEPT ![tr] = [under |-> life.next, count |-> 0]]
  /\ beat' = [beat EXCEPT ![tr] = "sending"]
  /\ beatCfg' = [beatCfg EXCEPT ![tr] = life.next]
  /\ life' = Idle
  /\ UNCHANGED <<state, cfg, tr, ownVars, hbStop, hook>>
  /\ wire' = Quiet

Lifecycle ==
  \/ EndRun \/ StopOld \/ Retune \/ Clear \/ Arm
  \/ \E s \in Config : ReplaceRun(s) \/ RetuneRun(s) \/ Activate(s)

(***************************************************************************)
(* The heartbeat goroutine captured its block when the run was activated.  *)
(* Whether to send is decided before c.tr is read; a tick that wins over a *)
(* closed stop channel in the select is a tick just before it was closed.  *)
(***************************************************************************)
BeatFires(i) ==
  /\ beat[i] = "waiting"
  /\ i \notin hbStop
  /\ beat' = [beat EXCEPT ![i] = "sending"]
  /\ UNCHANGED <<runVars, life, ownVars, injectors, beatCfg, hbStop, hook>>
  /\ wire' = Quiet

(* A stopped transport refuses what it is given (its queue never fills     *)
(* here: a full queue drops the message too).                              *)
Accept(t, kind, from, stamp) ==
  wire' = IF t \in stopped THEN Quiet
          ELSE [kind |-> kind, about |-> RunIdOf(from), says |-> RunIdOf(stamp),
                on |-> RunIdOf(openedFor[t])]

BeatSends(i) ==
  /\ beat[i] = "sending"
  /\ beat' = [beat EXCEPT ![i] = "waiting"]
  /\ IF tr = None THEN wire' = Quiet
     ELSE Accept(tr, "heartbeat", beatCfg[i], beatCfg[i])
  /\ UNCHANGED <<runVars, life, ownVars, injectors, beatCfg, hbStop, hook>>

BeatExits(i) ==
  /\ beat[i] = "waiting"
  /\ i \in hbStop
  /\ beat' = [beat EXCEPT ![i] = "gone"]
  /\ UNCHANGED <<runVars, life, ownVars, injectors, beatCfg, hbStop, hook>>
  /\ wire' = Quiet

Heartbeat == \E i \in Opened : BeatFires(i) \/ BeatSends(i) \/ BeatExits(i)

-----------------------------------------------------------------------------
(* The hooks.  held is the captured pointer, under the block of its time.  *)

Call(w, at, held, under) ==
  hook' = [hook EXCEPT ![w] = [at |-> at, held |-> held, under |-> under]]

(* What no hook changes.                                                   *)
hookKept == <<runVars, life, ownVars, beatVars>>

(* Record stamps the event and captures the transport in one section.      *)
RecordBegins(w) ==
  /\ hook[w].at = "idle"
  /\ Active /\ tr # None /\ cfg \in Telemetry
  /\ Call(w, "send", tr, cfg)
  /\ UNCHANGED <<hookKept, injectors>>
  /\ wire' = Quiet

(* Bug: the transport is looked up again when the event is sent.           *)
SendOn_Bug(w) == IF tr = None THEN hook[w].held ELSE tr

SendOn(w) == hook[w].held

RecordSends(w) ==
  /\ hook[w].at = "send"
  /\ Accept(SendOn(w), "event", hook[w].under, hook[w].under)
  /\ Call(w, "profile", hook[w].held, hook[w].under)
  /\ UNCHANGED <<hookKept, injectors>>

(* maybeEmitProfile sends the captured profile to whatever run is on now,  *)
(* if it is ready, changed and not throttled.                              *)
ProfileEnds(w) ==
  /\ hook[w].at = "profile"
  /\ \/ wire' = Quiet
     \/ /\ tr # None
        /\ Accept(tr, "profile", hook[w].under, cfg)
  /\ Call(w, "idle", None, NoConfig)
  /\ UNCHANGED <<hookKept, injectors>>

(* InjectToolResult and InjectLLMSystemMessage: capture the injector, let  *)
(* it fire under its own mutex, then announce the injection.               *)
InjectBegins(w) ==
  /\ hook[w].at = "idle"
  /\ Active /\ injector # None
  /\ Call(w, "fire", injector, cfg)
  /\ UNCHANGED <<hookKept, injectors>>
  /\ wire' = Quiet

(* Bug: the budget is compared after the injection.                        *)
BudgetLeft_Bug(i) == injectors[i].count <= MaxInjections

BudgetLeft(i) == injectors[i].count < MaxInjections

InjectFires(w) ==
  LET i == hook[w].held IN
  /\ hook[w].at = "fire"
  /\ \/ /\ injectors[i].under \in Attack
        /\ BudgetLeft(i)
        /\ injectors' = [injectors EXCEPT ![i].count = @ + 1]
        /\ Call(w, "emit", i, injectors[i].under)
     \/ /\ Call(w, "idle", None, NoConfig)
        /\ UNCHANGED injectors
  /\ UNCHANGED <<hookKept>>
  /\ wire' = Quiet

InjectEmits(w) ==
  /\ hook[w].at = "emit"
  /\ IF tr = None \/ cfg \notin Telemetry THEN wire' = Quiet
     ELSE Accept(tr, "injection", hook[w].under, cfg)
  /\ Call(w, "idle", None, NoConfig)
  /\ UNCHANGED <<hookKept, injectors>>

RecordStep(w) == RecordSends(w) \/ ProfileEnds(w)

Hooks ==
  \E w \in Worker : \/ RecordBegins(w) \/ RecordStep(w)
                    \/ InjectBegins(w) \/ InjectFires(w) \/ InjectEmits(w)

Next == Lifecycle \/ Heartbeat \/ Hooks

Spec == Init /\ [][Next]_simVars

-----------------------------------------------------------------------------
(* While a run is active, whatever the poller is doing, the injector the   *)
(* hooks can capture was configured for that run.                          *)
InjectorInForce ==
  Active /\ injector # None => RunOf[injectors[injector].under] = RunOf[cfg]

(* The injector a hook captures was configured for the run its call was    *)
(* made in, and stays with that run.  A hook suspended before it fires may *)
(* find another run active when it does; the chain is still one of its own *)
(* run, in the tier of that run's last update, never one of the run that   *)
(* followed, nor of a run that came back under a new injector.             *)
InjectorOfRun ==
  /\ InjectorInForce
  /\ \A w \in Worker :
       hook[w].at = "fire" =>
         RunOf[injectors[hook[w].held].under] = RunOf[hook[w].under]

(* Once the lifecycle mutex is free, the injector of an active run has the *)
(* chains of the block in force: a tier transition is never lost.          *)
InjectorFresh ==
  life = Idle /\ Active => injector # None /\ injectors[injector].under = cfg

(* An event goes out on a transport of the run it is stamped with, however *)
(* long the hook was suspended between stamping and sending it.            *)
EventsOnOwnRun ==
  wire.kind = "event" => wire.says = wire.on

ActiveHasTransport ==
  Active => /\ tr # None /\ tr \notin stopped
            /\ RunOf[openedFor[tr]] = RunOf[cfg] /\ CredOf[openedFor[tr]] = CredOf[cfg]

(* Every run that ended gave its goroutines back, and the active one kept  *)
(* its own: once the lifecycle mutex is free, all transports but the       *)
(* current one and all heartbeats but one have been told to stop, none     *)
(* survives an inactive controller, and the current transport has the      *)
(* run's own credentials: no renewal or restart leaves the run streaming   *)
(* into another.                                                           *)
NothingLeaks ==
  life = Idle =>
    /\ ActiveHasTransport
    /\ (1..opened) \ stopped = IF Active THEN {tr} ELSE {}
    /\ LET beating == {i \in Opened : beat[i] # "none" /\ i \notin hbStop}
       IN  Cardinality(beating) = IF Active THEN 1 ELSE 0

(* sendHeartbeat announces "the agent is live and which middlewares are    *)
(* active": the heartbeat about to beat describes the block in force.      *)
(* It does not after a same-run update: it captured the first block.       *)
Announced(s) == <<s \in Baseline, s \in Telemetry>>

HeartbeatTruthful ==
  life = Idle /\ Active =>
    \A i \in Opened : beat[i] = "waiting" /\ i \notin hbStop =>
                        Announced(beatCfg[i]) = Announced(cfg)
=============================================================================
