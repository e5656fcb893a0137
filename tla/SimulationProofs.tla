--------------------------- MODULE SimulationProofs ---------------------------
(***************************************************************************)
(* Proofs about SimulationController, for every set of blocks and runs,    *)
(* any number of workers and any budget of injections.                     *)
(***************************************************************************)
EXTENDS SimulationController, FiniteSetTheorems, TLAPS

(* Where OnConfigChange stands, and the state it left behind there.        *)
Phases ==
  /\ Active => tr # None /\ cfg \in Config
  /\ ~Active => tr = None
  /\ state = "stopping" <=> life.at \in {"stopRun", "clear"}
  /\ life.at \in {"stopOld", "retune", "arm"} => Active /\ life.next = cfg
  /\ life.at = "start" => ~Active /\ life.next \in Config
  /\ life.at = "idle" => life = Idle
  /\ life.at \in {"stopOld", "stopRun"} <=> life.old # None

Pointed(t) == IF t = None THEN {} ELSE {t}

(* The transports not yet told to stop are the current one and the one     *)
(* OnConfigChange has in hand.                                             *)
Sockets ==
  /\ stopped \subseteq 1..opened
  /\ tr <= opened /\ life.old <= opened
  /\ life.old # None => life.old # tr
  /\ (1..opened) \ stopped = Pointed(tr) \cup Pointed(life.old)
  /\ \A t \in 1..opened : openedFor[t] \in Config
  /\ Active => RunOf[openedFor[tr]] = RunOf[cfg] /\ CredOf[openedFor[tr]] = CredOf[cfg]

Injectors ==
  /\ InjectorInForce
  /\ InjectorFresh
  /\ state = "inactive" \/ life.at = "arm" => injector = None
  /\ life.at \in {"stopOld", "retune"} => injector # None

Beating == {i \in Opened : beat[i] # "none" /\ i \notin hbStop}

(* A run has one heartbeat that was not told to stop, from the moment it   *)
(* is armed until it ends.                                                 *)
Beats ==
  /\ \A i \in hbStop : beat[i] # "none"
  /\ \A i \in Opened : beat[i] # "none" => i <= opened
  /\ life.at = "arm" => beat[tr] = "none"
  /\ IF Active /\ life.at # "arm" THEN \E b \in Opened : Beating = {b} ELSE Beating = {}

(* The transport a suspended Record holds is of the run it stamped.        *)
Held ==
  \A w \in Worker :
    hook[w].at = "send" =>
      /\ hook[w].held \in 1..opened
      /\ hook[w].under \in Config
      /\ RunOf[openedFor[hook[w].held]] = RunOf[hook[w].under]

SimInv == Phases /\ Sockets /\ Injectors /\ Beats /\ Held /\ EventsOnOwnRun

-----------------------------------------------------------------------------
(* A new controller.                                                       *)
LEMMA InitTypeOK == Init => TypeOK
BY ControllerAssumption
   DEF Init, TypeOK, Block, Opened, None, Idle, Calm, Quiet, Message, Runs

(* Nothing is active.                                                      *)
LEMMA InitSimInv == Init => SimInv
<1> SUFFICES ASSUME Init PROVE SimInv
  OBVIOUS
<1> USE ControllerAssumption DEF Init, Active, None, Idle, Opened
<1>1. Phases
  BY DEF Phases
<1>2. Sockets
  BY DEF Sockets, Pointed
<1>3. Injectors
  BY DEF Injectors, InjectorInForce, InjectorFresh
<1>4. Beats
  BY DEF Beats, Beating
<1>5. Held
  BY DEF Held, Calm
<1>6. EventsOnOwnRun
  BY DEF EventsOnOwnRun, Quiet
<1> QED
  BY <1>1, <1>2, <1>3, <1>4, <1>5, <1>6 DEF SimInv

-----------------------------------------------------------------------------
(* The steps of OnConfigChange.                                            *)

(* Activation, shutdown and what they wait for.                            *)
LEMMA LifecycleTypeOK ==
  ASSUME TypeOK, SimInv, Lifecycle
  PROVE  TypeOK'
<1> USE ControllerAssumption
    DEF TypeOK, Block, Opened, None, Idle, Quiet, Message, Runs, runVars, ownVars,
        beatVars
<1>1. CASE EndRun
  BY <1>1 DEF EndRun, Deactivate, HeartbeatsTold
<1>2. ASSUME NEW s \in Config, ReplaceRun(s) PROVE TypeOK'
  BY <1>2 DEF ReplaceRun, Deactivate, HeartbeatsTold
<1>3. ASSUME NEW s \in Config, RetuneRun(s) PROVE TypeOK'
  <2>1. life' \in [at : {"idle", "stopOld", "retune", "stopRun", "clear", "start", "arm"},
                   next : Block, old : Opened \cup {None}]
    BY <1>3 DEF RetuneRun, Superseded
  <2>2. /\ tr' \in Opened \cup {None}
        /\ opened' \in Opened \cup {0}
        /\ openedFor' \in [Opened -> Block]
    <3>1. CASE Open(s)
      BY <3>1 DEF Open
    <3>2. CASE UNCHANGED <<tr, opened, openedFor>>
      BY <3>2
    <3> QED
      BY <1>3, <3>1, <3>2 DEF RetuneRun
  <2>3. cfg' \in Block /\ wire' \in Message
    BY <1>3 DEF RetuneRun
  <2>4. UNCHANGED <<state, injector, stopped, injectors, beat, beatCfg, hbStop, hook>>
    BY <1>3 DEF RetuneRun
  <2> QED
    BY <2>1, <2>2, <2>3, <2>4
<1>4. CASE StopOld
  <2>1. life.old \in 1..MaxOpen
    BY <1>4 DEF StopOld, SimInv, Phases
  <2> QED
    BY <1>4, <2>1 DEF StopOld
<1>5. CASE Retune
  BY <1>5 DEF Retune, Configured
<1>6. CASE Clear
  BY <1>6 DEF Clear, InjectorLeft
<1>7. ASSUME NEW s \in Config, Activate(s) PROVE TypeOK'
  BY <1>7 DEF Activate, Open
<1>8. CASE Arm
  <2>1. injectors' \in [Opened -> [under : Block, count : 0..MaxInjections]]
    <3>1. [under |-> life.next, count |-> 0] \in [under : Block, count : 0..MaxInjections]
      OBVIOUS
    <3>2. injectors' = [injectors EXCEPT ![tr] = [under |-> life.next, count |-> 0]]
      BY <1>8 DEF Arm
    <3> QED
      BY <3>1, <3>2
  <2>2. /\ beat' \in [Opened -> {"none", "waiting", "sending", "gone"}]
        /\ beatCfg' \in [Opened -> Block]
    BY <1>8 DEF Arm
  <2> QED
    BY <1>8, <2>1, <2>2 DEF Arm
<1> QED
  BY <1>1, <1>2, <1>3, <1>4, <1>5, <1>6, <1>7, <1>8 DEF Lifecycle

-----------------------------------------------------------------------------
(* The heartbeats and the hooks.                                           *)

(* Whatever a transport is given, it accepts a message or nothing.         *)
LEMMA AcceptMessage ==
  ASSUME TypeOK,
         NEW t \in Opened, NEW from \in Block, NEW stamp \in Block,
         NEW kind \in {"event", "profile", "injection", "heartbeat"},
         Accept(t, kind, from, stamp)
  PROVE  wire' \in Message
<1>1. \A s \in Block : RunIdOf(s) \in Runs
  BY ControllerAssumption DEF Block, RunIdOf, Runs
<1>2. openedFor[t] \in Block
  BY DEF TypeOK
<1> QED
  BY <1>1, <1>2 DEF Accept, Message, Quiet, Runs

(* The heartbeat.                                                          *)
LEMMA HeartbeatTypeOK ==
  ASSUME TypeOK, Heartbeat
  PROVE  TypeOK'
<1> USE DEF TypeOK, Block, Opened, None, runVars, ownVars, hookKept
<1>1. Quiet \in Message
  BY DEF Quiet, Message, Runs
<1>2. PICK i \in Opened : BeatFires(i) \/ BeatSends(i) \/ BeatExits(i)
  BY DEF Heartbeat
<1>3. CASE BeatFires(i)
  BY <1>1, <1>3 DEF BeatFires
<1>4. CASE BeatSends(i)
  <2>1. wire' \in Message
    BY <1>1, <1>4, AcceptMessage DEF BeatSends
  <2> QED
    BY <1>4, <2>1 DEF BeatSends
<1>5. CASE BeatExits(i)
  BY <1>1, <1>5 DEF BeatExits
<1> QED
  BY <1>2, <1>3, <1>4, <1>5

(* The hooks of a run.                                                     *)
LEMMA HooksTypeOK ==
  ASSUME TypeOK, SimInv, NEW w \in Worker,
         \/ RecordBegins(w) \/ RecordStep(w)
         \/ InjectBegins(w) \/ InjectFires(w) \/ InjectEmits(w)
  PROVE  TypeOK'
<1> USE DEF TypeOK, Opened, None, runVars, ownVars, beatVars, hookKept, Call
<1>1. Quiet \in Message
  BY DEF Quiet, Message, Runs
<1>2. cfg \in Block /\ NoConfig \in Block /\ hook[w].under \in Block
  BY DEF Block
<1>3. CASE RecordBegins(w)
  BY <1>1, <1>2, <1>3 DEF RecordBegins
<1>4. CASE RecordSends(w)
  <2>1. hook[w].held \in Opened
    BY <1>4 DEF RecordSends, SimInv, Held
  <2>2. wire' \in Message
    BY <1>2, <1>4, <2>1, AcceptMessage DEF RecordSends, SendOn
  <2> QED
    BY <1>2, <1>4, <2>1, <2>2 DEF RecordSends
<1>5. CASE ProfileEnds(w)
  <2>1. wire' \in Message
    BY <1>1, <1>2, <1>5, AcceptMessage DEF ProfileEnds
  <2> QED
    BY <1>2, <1>5, <2>1 DEF ProfileEnds
<1>6. CASE InjectBegins(w)
  BY <1>1, <1>2, <1>6 DEF InjectBegins
<1>7. CASE InjectFires(w)
  <2> DEFINE i == hook[w].held
  <2>1. CASE /\ injectors[i].under \in Attack
             /\ BudgetLeft(i)
             /\ injectors' = [injectors EXCEPT ![i].count = @ + 1]
             /\ Call(w, "emit", i, injectors[i].under)
    <3>1. injectors' \in [Opened -> [under : Block, count : 0..MaxInjections]]
      <4>1. CASE i \in Opened
        <5>1. injectors[i].count + 1 \in 0..MaxInjections
          BY <2>1, <4>1, ControllerAssumption DEF BudgetLeft
        <5>2. injectors[i] \in [under : Block, count : 0..MaxInjections]
          BY <4>1
        <5>3. [injectors[i] EXCEPT !.count = @ + 1] \in [under : Block, count : 0..MaxInjections]
          BY <5>1, <5>2
        <5> QED
          BY <2>1, <4>1, <5>3
      <4>2. CASE i \notin Opened
        BY <2>1, <4>2
      <4> QED
        BY <4>1, <4>2
    <3>2. injectors[i].under \in Block
      BY <2>1, ControllerAssumption DEF Block
    <3> QED
      BY <1>1, <1>7, <2>1, <3>1, <3>2 DEF InjectFires
  <2>2. CASE Call(w, "idle", None, NoConfig) /\ UNCHANGED injectors
    BY <1>1, <1>2, <1>7, <2>2 DEF InjectFires
  <2> QED
    BY <1>7, <2>1, <2>2 DEF InjectFires
<1>8. CASE InjectEmits(w)
  <2>1. wire' \in Message
    BY <1>1, <1>2, <1>8, AcceptMessage DEF InjectEmits
  <2> QED
    BY <1>2, <1>8, <2>1 DEF InjectEmits
<1> QED
  BY <1>3, <1>4, <1>5, <1>6, <1>7, <1>8 DEF RecordStep

-----------------------------------------------------------------------------
(* The steps of OnConfigChange keep SimInv.                                *)

(* A new transport has a number of its own.                                *)
LEMMA OpenFacts ==
  ASSUME TypeOK, NEW s \in Config, Open(s)
  PROVE  /\ opened' = opened + 1 /\ tr' = opened' /\ opened \in Nat /\ tr' \in Opened
         /\ \A t \in 1..opened : openedFor'[t] = openedFor[t]
         /\ openedFor'[tr'] = s
BY ControllerAssumption DEF TypeOK, Open, Opened

(* A suspended Record is not disturbed by the opening of transports.       *)
LEMMA HeldKept ==
  ASSUME Held, UNCHANGED hook, opened \in Nat, opened' \in {opened, opened + 1},
         \A t \in 1..opened : openedFor'[t] = openedFor[t]
  PROVE  Held'
<1> SUFFICES ASSUME NEW w \in Worker, hook[w].at = "send"
             PROVE  /\ hook[w].held \in 1..opened'
                    /\ hook[w].under \in Config
                    /\ RunOf[openedFor'[hook[w].held]] = RunOf[hook[w].under]
  BY DEF Held
<1> QED
  BY DEF Held

(* A quiet wire carries no event of another run.                           *)
LEMMA QuietWire == wire' = Quiet => EventsOnOwnRun'
BY DEF EventsOnOwnRun, Quiet

(* The end of a run, alone or before another one.                          *)
LEMMA DeactivateInv ==
  ASSUME TypeOK, SimInv, life = Idle, Active,
         NEW next \in Block, Deactivate(next)
  PROVE  SimInv'
<1> USE DEF SimInv, Deactivate, Active, Idle, None
<1>1. Phases'
  BY DEF Phases, TypeOK
<1>2. Sockets'
  BY DEF Phases, Sockets, Pointed, TypeOK, ownVars
<1>3. Injectors'
  BY DEF Injectors, InjectorInForce, InjectorFresh
<1>4. Beats'
  BY DEF Beats, Beating, HeartbeatsTold, TypeOK, ownVars
<1>5. Held'
  BY HeldKept DEF TypeOK, ownVars, Opened
<1> QED
  BY <1>1, <1>2, <1>3, <1>4, <1>5, QuietWire

(* A hot-swap of the same run.                                             *)
LEMMA RetuneRunInv ==
  ASSUME TypeOK, SimInv, NEW s \in Config, RetuneRun(s)
  PROVE  SimInv'
<1> USE DEF SimInv, Active, Idle, None
<1>0. /\ life = Idle /\ state = "active" /\ cfg' = s /\ RunOf[s] = RunOf[cfg]
      /\ tr # None /\ wire' = Quiet
      /\ UNCHANGED <<state, injector, stopped, injectors, beat, beatCfg, hbStop, hook>>
  BY DEF RetuneRun, Phases, beatVars
<1>1. CASE /\ Open(s)
           /\ life' = [at |-> "stopOld", next |-> s, old |-> tr]
  <2>1. Phases'
    BY <1>0, <1>1, OpenFacts DEF Phases, Opened
  <2>2. Sockets'
    <3>1. /\ opened' = opened + 1 /\ tr' = opened + 1 /\ opened \in Nat
          /\ openedFor'[tr'] = s
          /\ \A t \in 1..opened : openedFor'[t] = openedFor[t]
      BY <1>1, OpenFacts
    <3>2. tr \in 1..opened /\ stopped \subseteq 1..opened
      BY <1>0, <3>1 DEF Sockets, TypeOK, Opened
    <3>3. (1..opened) \ stopped = {tr}
      BY <1>0 DEF Sockets, Pointed
    <3>4. (1..(opened + 1)) \ stopped = {opened + 1, tr}
      BY <3>1, <3>2, <3>3
    <3>5. \A t \in 1..(opened + 1) : openedFor'[t] \in Config
      BY <3>1 DEF Sockets
    <3> QED
      BY <1>0, <1>1, <3>1, <3>2, <3>4, <3>5 DEF Sockets, Pointed
  <2>3. Injectors'
    BY <1>0, <1>1 DEF Injectors, InjectorInForce, InjectorFresh
  <2>4. Beats'
    <3>1. opened' = opened + 1 /\ opened \in Nat
      BY <1>1, OpenFacts
    <3>2. Beating' = Beating /\ life.at # "arm"
      BY <1>0 DEF Beating
    <3> QED
      BY <1>0, <1>1, <3>1, <3>2 DEF Beats, Opened
  <2>5. Held'
    BY <1>0, <1>1, OpenFacts, HeldKept
  <2> QED
    BY <1>0, <2>1, <2>2, <2>3, <2>4, <2>5, QuietWire
<1>2. CASE /\ CredOf[s] = CredOf[cfg]
           /\ life' = [at |-> "retune", next |-> s, old |-> None]
           /\ UNCHANGED <<tr, opened, openedFor>>
  <2>1. Phases'
    BY <1>0, <1>2 DEF Phases
  <2>2. Sockets'
    BY <1>0, <1>2 DEF Sockets, Pointed
  <2>3. Injectors'
    BY <1>0, <1>2 DEF Injectors, InjectorInForce, InjectorFresh
  <2>4. Beats'
    BY <1>0, <1>2 DEF Beats, Beating
  <2>5. Held'
    BY <1>0, <1>2, HeldKept DEF TypeOK, Opened
  <2> QED
    BY <1>0, <2>1, <2>2, <2>3, <2>4, <2>5, QuietWire
<1> QED
  BY <1>1, <1>2 DEF RetuneRun, Superseded

(* The transport of the old run stops.                                     *)
LEMMA StopOldInv ==
  ASSUME TypeOK, SimInv, StopOld
  PROVE  SimInv'
<1> USE DEF SimInv, StopOld, Active, Idle, None, runVars, beatVars
<1>0. life'.at \in {"retune", "clear"} /\ life'.old = None /\ life'.next = life.next
      /\ (life'.at = "retune" <=> life.at = "stopOld")
  BY DEF TypeOK
<1>1. Phases'
  BY <1>0 DEF Phases
<1>2. Sockets'
  BY <1>0 DEF Phases, Sockets, Pointed, TypeOK, Opened
<1>3. Injectors'
  BY <1>0 DEF Phases, Injectors, InjectorInForce, InjectorFresh
<1>4. Beats'
  BY <1>0 DEF Phases, Beats, Beating
<1>5. Held'
  BY HeldKept DEF TypeOK, Opened
<1> QED
  BY <1>1, <1>2, <1>3, <1>4, <1>5, QuietWire

(* The new transport takes over.                                           *)
LEMMA RetuneInv ==
  ASSUME TypeOK, SimInv, Retune
  PROVE  SimInv'
<1> USE DEF SimInv, Retune, Active, Idle, None, runVars, ownVars, beatVars
<1>1. Phases'
  BY DEF Phases
<1>2. Sockets'
  BY DEF Phases, Sockets, Pointed
<1>3. Injectors'
  <2>1. injector \in Opened /\ cfg = life.next
    BY DEF Phases, Injectors, TypeOK
  <2>2. injectors'[injector].under = cfg
    <3>1. injectors' = [injectors EXCEPT ![injector] = [under |-> life.next, count |-> 0]]
      BY <2>1 DEF Configured, Opened
    <3> QED
      BY <2>1, <3>1 DEF TypeOK
  <2> QED
    BY <2>1, <2>2 DEF Phases, Injectors, InjectorInForce, InjectorFresh
<1>4. Beats'
  BY DEF Phases, Beats, Beating
<1>5. Held'
  BY HeldKept DEF TypeOK, Opened
<1> QED
  BY <1>1, <1>2, <1>3, <1>4, <1>5, QuietWire

(* The end of a run: nothing is left of it.                                *)
LEMMA ClearInv ==
  ASSUME TypeOK, SimInv, Clear
  PROVE  SimInv'
<1> USE DEF SimInv, Clear, Active, Idle, None, ownVars, beatVars
<1>0. life.next \in Block /\ life.old = None
  BY DEF Phases, TypeOK
<1>1. Phases'
  BY <1>0 DEF Phases, TypeOK, Block
<1>2. Sockets'
  BY <1>0 DEF Phases, Sockets, Pointed
<1>3. Injectors'
  BY DEF Injectors, InjectorInForce, InjectorFresh, InjectorLeft
<1>4. Beats'
  BY DEF Phases, Beats, Beating, TypeOK
<1>5. Held'
  BY HeldKept DEF TypeOK, Opened
<1> QED
  BY <1>1, <1>2, <1>3, <1>4, <1>5, QuietWire

(* A run starts.                                                           *)
LEMMA ActivateInv ==
  ASSUME TypeOK, SimInv, NEW s \in Config, Activate(s)
  PROVE  SimInv'
<1> USE DEF SimInv, Active, Idle, None
<1>a. state = "inactive" /\ tr = None /\ life.old = None /\ injector = None
  <2>1. state = "inactive"
    BY DEF Activate, Phases, TypeOK
  <2>2. life.old = None
    BY DEF Activate, Phases
  <2> QED
    BY <2>1, <2>2 DEF Phases, Injectors
<1>0. /\ state = "inactive" /\ tr = None /\ life.old = None
      /\ state' = "active" /\ cfg' = s /\ injector = None /\ injector' = None
      /\ life' = [at |-> "arm", next |-> s, old |-> None]
      /\ UNCHANGED <<stopped, injectors, beat, beatCfg, hbStop, hook>>
      /\ wire' = Quiet
  BY <1>a DEF Activate, beatVars
<1>1. /\ opened' = opened + 1 /\ tr' = opened + 1 /\ opened \in Nat
      /\ openedFor'[tr'] = s /\ tr' \in Opened
      /\ \A t \in 1..opened : openedFor'[t] = openedFor[t]
  BY OpenFacts DEF Activate
<1>2. Phases'
  BY <1>0, <1>1 DEF Phases
<1>3. Sockets'
  <2>1. (1..(opened + 1)) \ stopped = {opened + 1}
    BY <1>0, <1>1 DEF Sockets, Pointed
  <2>2. \A t \in 1..(opened + 1) : openedFor'[t] \in Config
    BY <1>1 DEF Sockets
  <2> QED
    BY <1>0, <1>1, <2>1, <2>2 DEF Sockets, Pointed
<1>4. Injectors'
  BY <1>0 DEF Injectors, InjectorInForce, InjectorFresh
<1>5. Beats'
  BY <1>0, <1>1 DEF Beats, Beating, TypeOK
<1>6. Held'
  BY <1>0, <1>1, HeldKept
<1> QED
  BY <1>0, <1>2, <1>3, <1>4, <1>5, <1>6, QuietWire

(* Its injector and its heartbeat.                                         *)
LEMMA ArmInv ==
  ASSUME TypeOK, SimInv, Arm
  PROVE  SimInv'
<1> USE DEF SimInv, Active, Idle, None
<1>0. /\ state = "active" /\ tr \in Opened /\ cfg = life.next /\ life.old = None
      /\ life' = Idle /\ injector' = tr
      /\ injectors' = [injectors EXCEPT ![tr] = [under |-> life.next, count |-> 0]]
      /\ beat' = [beat EXCEPT ![tr] = "sending"]
      /\ UNCHANGED <<state, cfg, tr, opened, openedFor, stopped, hbStop, hook>>
      /\ wire' = Quiet
  BY DEF Arm, Phases, TypeOK, ownVars
<1>1. Phases'
  BY <1>0 DEF Phases
<1>2. Sockets'
  BY <1>0 DEF Sockets, Pointed
<1>3. Injectors'
  <2>1. injectors'[tr].under = cfg
    BY <1>0 DEF TypeOK
  <2> QED
    BY <1>0, <2>1 DEF Injectors, InjectorInForce, InjectorFresh, Opened
<1>4. Beats'
  <2>1. beat[tr] = "none" /\ tr \notin hbStop /\ Beating = {} /\ tr <= opened
    BY <1>0 DEF Beats, Phases, Sockets, Arm
  <2>2. \A i \in Opened : beat'[i] = IF i = tr THEN "sending" ELSE beat[i]
    BY <1>0 DEF TypeOK
  <2>3. Beating' = {tr}
    BY <1>0, <2>1, <2>2 DEF Beating
  <2>4. hbStop \subseteq Opened
    BY DEF TypeOK
  <2> QED
    BY <1>0, <2>1, <2>2, <2>3, <2>4 DEF Beats
<1>5. Held'
  BY <1>0, HeldKept DEF TypeOK, Opened
<1> QED
  BY <1>0, <1>1, <1>2, <1>3, <1>4, <1>5, QuietWire

(* Activation, shutdown and what they wait for.                            *)
LEMMA LifecycleInv ==
  ASSUME TypeOK, SimInv, Lifecycle
  PROVE  SimInv'
<1>1. CASE EndRun
  BY <1>1, DeactivateInv DEF EndRun, Block
<1>2. ASSUME NEW s \in Config, ReplaceRun(s) PROVE SimInv'
  BY <1>2, DeactivateInv DEF ReplaceRun, Block
<1> QED
  BY <1>1, <1>2, RetuneRunInv, StopOldInv, RetuneInv, ClearInv, ActivateInv, ArmInv
     DEF Lifecycle

-----------------------------------------------------------------------------
(* The heartbeats, the hooks and a stutter keep SimInv.                    *)

(* What only OnConfigChange and Stop assign.                               *)
lifecycleVars == <<state, cfg, tr, injector, life, opened, openedFor, stopped, hbStop>>

(* Heartbeats and hooks leave to OnConfigChange what it owns.              *)
LEMMA QuietLifecycle ==
  ASSUME TypeOK, SimInv, UNCHANGED lifecycleVars,
         \A i \in Opened : beat'[i] = "none" <=> beat[i] = "none",
         \A i \in Opened : injectors'[i].under = injectors[i].under
  PROVE  Phases' /\ Sockets' /\ Injectors' /\ Beats'
<1> USE DEF SimInv, lifecycleVars, Active, Idle, None
<1>1. Phases'
  BY DEF Phases
<1>2. Sockets'
  BY DEF Sockets, Pointed
<1>3. Injectors'
  BY DEF Injectors, InjectorInForce, InjectorFresh, TypeOK
<1>4. Beats'
  <2>1. Beating' = Beating
    BY DEF Beating
  <2>2. hbStop \subseteq Opened /\ (life.at = "arm" => tr \in Opened)
    BY DEF TypeOK, Phases
  <2> QED
    BY <2>1, <2>2 DEF Beats
<1> QED
  BY <1>1, <1>2, <1>3, <1>4

(* The heartbeat.                                                          *)
LEMMA HeartbeatInv ==
  ASSUME TypeOK, SimInv, Heartbeat
  PROVE  SimInv'
<1>1. PICK i \in Opened : BeatFires(i) \/ BeatSends(i) \/ BeatExits(i)
  BY DEF Heartbeat
<1>2. UNCHANGED <<lifecycleVars, injectors, hook>> /\ (beat[i] # "none" /\ beat'[i] # "none")
      /\ \A j \in Opened \ {i} : beat'[j] = beat[j]
  BY <1>1 DEF BeatFires, BeatSends, BeatExits, lifecycleVars, runVars, ownVars, TypeOK
<1>3. Phases' /\ Sockets' /\ Injectors' /\ Beats'
  BY <1>1, <1>2, QuietLifecycle
<1>4. Held'
  BY <1>2, HeldKept DEF SimInv, TypeOK, Opened, lifecycleVars
<1>5. EventsOnOwnRun'
  BY <1>1 DEF BeatFires, BeatSends, BeatExits, Accept, Quiet, EventsOnOwnRun
<1> QED
  BY <1>3, <1>4, <1>5 DEF SimInv

(* A hook that does not enter "send", nor sends an event.                  *)
LEMMA HookMoves ==
  ASSUME TypeOK, SimInv, NEW w \in Worker,
         NEW at \in {"idle", "profile", "fire", "emit"}, NEW held, NEW under,
         Call(w, at, held, under), UNCHANGED openedFor, UNCHANGED opened
  PROVE  Held'
BY DEF SimInv, Held, Call, TypeOK

(* The hooks of a run.                                                     *)
LEMMA HooksInv ==
  ASSUME TypeOK, SimInv, NEW w \in Worker,
         \/ RecordBegins(w) \/ RecordStep(w)
         \/ InjectBegins(w) \/ InjectFires(w) \/ InjectEmits(w)
  PROVE  SimInv'
<1>1. UNCHANGED lifecycleVars /\ UNCHANGED beat
  BY DEF RecordBegins, RecordStep, RecordSends, ProfileEnds, InjectBegins, InjectFires,
         InjectEmits, hookKept, runVars, ownVars, beatVars, lifecycleVars
<1>2. \A i \in Opened : injectors'[i].under = injectors[i].under
  BY DEF RecordBegins, RecordStep, RecordSends, ProfileEnds, InjectBegins, InjectFires,
         InjectEmits, TypeOK
<1>3. Phases' /\ Sockets' /\ Injectors' /\ Beats'
  BY <1>1, <1>2, QuietLifecycle
<1>4. CASE RecordBegins(w)
  <2>1. Held'
    <3>1. tr \in 1..opened /\ RunOf[openedFor[tr]] = RunOf[cfg] /\ cfg \in Config
      BY <1>4 DEF RecordBegins, SimInv, Phases, Sockets, TypeOK, Opened, None
    <3> QED
      BY <1>1, <1>4, <3>1 DEF RecordBegins, Call, SimInv, Held, TypeOK, lifecycleVars
  <2> QED
    BY <1>3, <1>4, <2>1, QuietWire DEF RecordBegins, SimInv
<1>5. CASE RecordSends(w)
  <2>1. Held'
    BY <1>1, <1>5, HookMoves DEF RecordSends, lifecycleVars
  <2>2. EventsOnOwnRun'
    <3>1. /\ openedFor[hook[w].held] \in Config /\ hook[w].under \in Config
          /\ RunOf[openedFor[hook[w].held]] = RunOf[hook[w].under]
      BY <1>5 DEF RecordSends, SimInv, Held, Sockets
    <3> QED
      BY <1>5, <3>1, ControllerAssumption
         DEF RecordSends, SendOn, Accept, RunIdOf, Quiet, EventsOnOwnRun
  <2> QED
    BY <1>3, <2>1, <2>2 DEF SimInv
<1>6. CASE ProfileEnds(w)
  <2>1. Held'
    BY <1>1, <1>6, HookMoves DEF ProfileEnds, lifecycleVars
  <2>2. EventsOnOwnRun'
    BY <1>6 DEF ProfileEnds, Accept, Quiet, EventsOnOwnRun
  <2> QED
    BY <1>3, <2>1, <2>2 DEF SimInv
<1>7. CASE InjectBegins(w)
  <2>1. Held'
    BY <1>1, <1>7, HookMoves DEF InjectBegins, lifecycleVars
  <2> QED
    BY <1>3, <1>7, <2>1, QuietWire DEF InjectBegins, SimInv
<1>8. CASE InjectFires(w)
  <2>1. Held'
    BY <1>1, <1>8, HookMoves DEF InjectFires, lifecycleVars
  <2> QED
    BY <1>3, <1>8, <2>1, QuietWire DEF InjectFires, SimInv
<1>9. CASE InjectEmits(w)
  <2>1. Held'
    BY <1>1, <1>9, HookMoves DEF InjectEmits, lifecycleVars
  <2>2. EventsOnOwnRun'
    BY <1>9 DEF InjectEmits, Accept, Quiet, EventsOnOwnRun
  <2> QED
    BY <1>3, <2>1, <2>2 DEF SimInv
<1> QED
  BY <1>4, <1>5, <1>6, <1>7, <1>8, <1>9 DEF RecordStep

(* Types and SimInv survive a step of any of the three, and a stutter.     *)
LEMMA SimStep ==
  ASSUME TypeOK, SimInv, Lifecycle \/ Heartbeat \/ Hooks \/ UNCHANGED simVars
  PROVE  TypeOK' /\ SimInv'
<1>1. CASE Lifecycle
  BY <1>1, LifecycleTypeOK, LifecycleInv
<1>2. CASE Heartbeat
  BY <1>2, HeartbeatTypeOK, HeartbeatInv
<1>3. CASE Hooks
  BY <1>3, HooksTypeOK, HooksInv DEF Hooks
<1>4. CASE UNCHANGED simVars
  <2>1. /\ UNCHANGED lifecycleVars
        /\ UNCHANGED <<injectors, beat, beatCfg, hook, wire>>
    BY <1>4 DEF simVars, runVars, ownVars, beatVars, lifecycleVars
  <2>2. TypeOK'
    BY <2>1 DEF TypeOK, lifecycleVars
  <2>3. Phases' /\ Sockets' /\ Injectors' /\ Beats'
    BY <2>1, QuietLifecycle
  <2>4. Held' /\ EventsOnOwnRun'
    BY <2>1 DEF SimInv, Held, EventsOnOwnRun, lifecycleVars
  <2> QED
    BY <2>2, <2>3, <2>4 DEF SimInv
<1> QED
  BY <1>1, <1>2, <1>3, <1>4

-----------------------------------------------------------------------------
(* Every reachable state is well typed; in particular no injector passes   *)
(* its budget, whatever the hooks and the hot-swap do meanwhile, and the   *)
(* inductive invariant holds.                                              *)
THEOREM ControllerSafe == Spec => [](TypeOK /\ SimInv)
<1>1. Init => TypeOK /\ SimInv
  BY InitTypeOK, InitSimInv
<1>2. TypeOK /\ SimInv /\ [Next]_simVars => (TypeOK /\ SimInv)'
  BY SimStep DEF Next
<1> QED
  BY <1>1, <1>2, PTL DEF Spec

(* An event goes out on a transport of the run it was stamped with, in     *)
(* every run, however long the hook slept between stamping and sending.    *)
THEOREM EventsStayOnRun == Spec => []EventsOnOwnRun
<1>1. SimInv => EventsOnOwnRun
  BY DEF SimInv
<1> QED
  BY <1>1, ControllerSafe, PTL

(***************************************************************************)
(* The injector a suspended hook holds was armed before (its number is not *)
(* the one of the activation under way) and is on the run of the call.     *)
(***************************************************************************)
Captured ==
  /\ injector # None => injector \in 1..opened
  /\ \A w \in Worker :
       hook[w].at = "fire" =>
         /\ hook[w].held \in 1..opened
         /\ RunOf[injectors[hook[w].held].under] = RunOf[hook[w].under]
         /\ life.at = "arm" => hook[w].held # tr

(* A step that leaves the runs of the injectors in use where they are.     *)
LEMMA CapturedKept ==
  ASSUME Captured, UNCHANGED hook, opened \in Nat, opened' \in {opened, opened + 1},
         injector' \in {injector, None},
         \A i \in 1..opened : RunOf[injectors'[i].under] = RunOf[injectors[i].under],
         life'.at = "arm" => tr' = opened + 1
  PROVE  Captured'
<1>1. injector' # None => injector' \in 1..opened'
  BY DEF Captured
<1>2. ASSUME NEW w \in Worker, hook[w].at = "fire"
      PROVE  /\ hook[w].held \in 1..opened'
             /\ RunOf[injectors'[hook[w].held].under] = RunOf[hook[w].under]
             /\ life'.at = "arm" => hook[w].held # tr'
  BY <1>2 DEF Captured
<1> QED
  BY <1>1, <1>2 DEF Captured

(* OnConfigChange and Stop.                                                *)
LEMMA LifecycleCaptured ==
  ASSUME TypeOK, SimInv, Captured, Lifecycle
  PROVE  Captured'
<1>1. opened \in Nat
  BY DEF TypeOK, Opened
<1>2. CASE EndRun \/ StopOld \/ Clear \/ \E s \in Config : ReplaceRun(s)
  <2>1. /\ UNCHANGED <<hook, opened, injectors>> /\ injector' \in {injector, None}
        /\ life'.at # "arm"
    <3>1. CASE StopOld
      BY <3>1 DEF StopOld, runVars, TypeOK
    <3>2. CASE Clear
      BY <3>2 DEF Clear, InjectorLeft, Idle, ownVars, TypeOK
    <3>3. CASE EndRun \/ \E s \in Config : ReplaceRun(s)
      BY <3>3 DEF EndRun, ReplaceRun, Deactivate, ownVars
    <3> QED
      BY <1>2, <3>1, <3>2, <3>3
  <2> QED
    BY <1>1, <2>1, CapturedKept
<1>3. ASSUME NEW s \in Config, RetuneRun(s) PROVE Captured'
  <2>1. /\ UNCHANGED <<hook, injectors, injector>> /\ opened' \in {opened, opened + 1}
        /\ life'.at # "arm"
    BY <1>3 DEF RetuneRun, Open
  <2> QED
    BY <1>1, <2>1, CapturedKept
<1>4. CASE Retune
  <2>1. UNCHANGED <<hook, opened, injector>> /\ life'.at # "arm"
    BY <1>4 DEF Retune, Idle, runVars, ownVars
  <2>2. \A i \in 1..opened : RunOf[injectors'[i].under] = RunOf[injectors[i].under]
    <3>1. /\ injector \in Opened /\ cfg = life.next
          /\ RunOf[injectors[injector].under] = RunOf[cfg]
      BY <1>4 DEF Retune, SimInv, Phases, Injectors, InjectorInForce, TypeOK
    <3>2. injectors' = [injectors EXCEPT ![injector] = [under |-> life.next, count |-> 0]]
      BY <1>4, <3>1 DEF Retune, Configured, None, Opened
    <3> QED
      BY <3>1, <3>2 DEF TypeOK
  <2> QED
    BY <1>1, <2>1, <2>2, CapturedKept
<1>5. ASSUME NEW s \in Config, Activate(s) PROVE Captured'
  <2>1. /\ UNCHANGED <<hook, injectors, injector>> /\ opened' = opened + 1
        /\ tr' = opened + 1
    BY <1>5 DEF Activate, Open
  <2> QED
    BY <1>1, <2>1, CapturedKept
<1>6. CASE Arm
  <2>1. /\ UNCHANGED <<hook, opened>> /\ injector' = tr /\ life.at = "arm"
        /\ life' = Idle /\ tr \in 1..opened
        /\ injectors' = [injectors EXCEPT ![tr] = [under |-> life.next, count |-> 0]]
    BY <1>6 DEF Arm, ownVars, SimInv, Phases, Sockets, TypeOK, Opened, None
  <2>2. \A i \in (1..opened) \ {tr} : injectors'[i] = injectors[i]
    BY <2>1 DEF TypeOK, SimInv, Sockets, Opened
  <2> QED
    BY <2>1, <2>2 DEF Captured, Idle
<1> QED
  BY <1>2, <1>3, <1>4, <1>5, <1>6 DEF Lifecycle

(* The heartbeat and the hooks: only InjectBegins captures an injector.    *)
LEMMA HooksCaptured ==
  ASSUME TypeOK, SimInv, Captured, Heartbeat \/ Hooks \/ UNCHANGED simVars
  PROVE  Captured'
<1> DEFINE kept == /\ UNCHANGED <<state, cfg, tr, injector, life, opened>>
                   /\ \A i \in Opened : injectors'[i].under = injectors[i].under
           moved(w) == \/ hook'[w] = hook[w]
                       \/ hook'[w].at # "fire"
                       \/ /\ hook'[w].held = injector /\ hook'[w].under = cfg
                          /\ Active /\ injector # None
<1>1. kept
  <2>1. CASE Heartbeat \/ UNCHANGED simVars
    BY <2>1 DEF Heartbeat, BeatFires, BeatSends, BeatExits, simVars, runVars, ownVars
  <2>2. CASE Hooks
    <3>1. PICK w \in Worker : \/ RecordBegins(w) \/ RecordStep(w)
                              \/ InjectBegins(w) \/ InjectFires(w) \/ InjectEmits(w)
      BY <2>2 DEF Hooks
    <3>2. CASE InjectFires(w)
      BY <3>2 DEF InjectFires, hookKept, runVars, ownVars, TypeOK
    <3>3. CASE ~InjectFires(w)
      BY <3>1, <3>3 DEF RecordBegins, RecordStep, RecordSends, ProfileEnds,
                        InjectBegins, InjectEmits, hookKept, runVars, ownVars
    <3> QED
      BY <3>2, <3>3
  <2> QED
    BY <2>1, <2>2
<1>2. \A w \in Worker : moved(w)
  <2>1. CASE Heartbeat \/ UNCHANGED simVars
    BY <2>1 DEF Heartbeat, BeatFires, BeatSends, BeatExits, simVars
  <2>2. CASE Hooks
    <3>1. PICK v \in Worker : \/ RecordBegins(v) \/ RecordStep(v)
                              \/ InjectBegins(v) \/ InjectFires(v) \/ InjectEmits(v)
      BY <2>2 DEF Hooks
    <3>2. \/ InjectBegins(v)
          \/ \E at \in {"send", "profile", "idle", "emit"} : \E held, under : Call(v, at, held, under)
      BY <3>1 DEF RecordBegins, RecordStep, RecordSends, ProfileEnds, InjectFires,
                  InjectEmits
    <3>3. CASE InjectBegins(v)
      BY <3>3 DEF InjectBegins, Call, TypeOK
    <3>4. CASE \E at \in {"send", "profile", "idle", "emit"} : \E held, under : Call(v, at, held, under)
      BY <3>4 DEF Call, TypeOK
    <3> QED
      BY <3>2, <3>3, <3>4
  <2> QED
    BY <2>1, <2>2
<1>3. Active /\ injector # None =>
        /\ injector \in 1..opened /\ life.at # "arm"
        /\ RunOf[injectors[injector].under] = RunOf[cfg]
  BY DEF Captured, SimInv, Injectors, InjectorInForce
<1>4. 1..opened \subseteq Opened
  BY ControllerAssumption DEF TypeOK, Opened
<1> QED
  BY <1>1, <1>2, <1>3, <1>4 DEF Captured

(* A hook fires chains of the run it was called in and of no other, for    *)
(* however long it was suspended and whatever runs replaced that run.      *)
THEOREM InjectorsStayOnRun == Spec => []InjectorOfRun
<1>1. Init => Captured
  BY DEF Init, Captured, Calm
<1>2. TypeOK /\ SimInv /\ Captured /\ [Next]_simVars => Captured'
  BY LifecycleCaptured, HooksCaptured DEF Next
<1>3. SimInv /\ Captured => InjectorOfRun
  BY DEF SimInv, Injectors, Captured, InjectorOfRun
<1> QED
  BY <1>1, <1>2, <1>3, ControllerSafe, PTL DEF Spec

(* No tier transition is lost: with the lifecycle mutex free, the injector *)
(* of an active run has the chains of the block in force.                  *)
THEOREM TransitionsArrive == Spec => []InjectorFresh
<1>1. SimInv => InjectorFresh
  BY DEF SimInv, Injectors
<1> QED
  BY <1>1, ControllerSafe, PTL

(* No sequence of runs, restarts and renewals leaks a transport or a       *)
(* heartbeat, or loses the one the run needs.                              *)
THEOREM GoroutinesNeverLeak == Spec => []NothingLeaks
<1>1. TypeOK /\ SimInv => NothingLeaks
  <2> SUFFICES ASSUME TypeOK, SimInv, life = Idle PROVE NothingLeaks
    BY DEF NothingLeaks
  <2> USE DEF SimInv, Idle, None
  <2>1. (1..opened) \ stopped = IF Active THEN {tr} ELSE {}
    BY DEF Phases, Sockets, Pointed
  <2>2. ActiveHasTransport
    BY <2>1 DEF ActiveHasTransport, Phases, Sockets
  <2>3. Cardinality(Beating) = IF Active THEN 1 ELSE 0
    <3>1. CASE Active
      BY <3>1, FS_Singleton DEF Beats
    <3>2. CASE ~Active
      BY <3>2, FS_EmptySet DEF Beats
    <3> QED
      BY <3>1, <3>2
  <2> QED
    BY <2>1, <2>2, <2>3 DEF NothingLeaks, Beating
<1> QED
  BY <1>1, ControllerSafe, PTL
=============================================================================
