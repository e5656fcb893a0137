---------------------------- MODULE AttackChains ----------------------------
(***************************************************************************)
(* The attack injector of a run (simulation/injector.go) and its hooks in  *)
(* the controller: chains of steps, each waiting for a call of the         *)
(* component it targets, fire one at a time within a budget, and each      *)
(* injection is announced over the run's transport.  The poller reloads    *)
(* the chains on every change of the run's block.                          *)
(*                                                                         *)
(* A payload is what it is good for: a "text", a "map", nothing usable, or *)
(* "default" when it is to come from the payload tables.  `fired` and      *)
(* `used` remember what was done under the present chains.                 *)
(***************************************************************************)
EXTENDS EventWire, FiniteSets, FiniteSetsExt

CONSTANTS
  Attack,      \* attack_injector blocks: mode, max, chains, evolved, range
  Profiled,    \* the tools of the profile, and which are risky
  Target,      \* component calls: type and name
  Hand,        \* goroutines that make them
  DefaultMax,  \* defaultMaxInjections
  MaxHits,     \* bound on the calls of one configuration
  MaxLoads     \* bound on the configurations

ASSUME AttackAssumption ==
  /\ DefaultMax \in Nat \ {0} /\ MaxHits \in Nat /\ MaxLoads \in Nat
  /\ \A a \in Attack : /\ a.max \in Int /\ a.range \in Seq(Int)
                       /\ a.chains \in Seq(ToSet(a.chains))
                       /\ a.evolved \in Seq(ToSet(a.evolved))
  /\ Profiled \in Seq([name : {p.name : p \in ToSet(Profiled)}, risky : BOOLEAN])
  /\ \A t \in Target : t.type \in {"llm", "tool"}

VARIABLES
  mode, budget, count,  \* inj.mode, inj.max, inj.count
  chains,               \* inj.chains: their steps
  index,                \* the next step of each
  fired,                \* the steps fired, in order: chain, step, changed
  used,                 \* the steps passed without firing
  hand,                 \* hand[h]: the injection h has yet to announce
  announcedAs,          \* announcedAs[n]: the injection frame n announces
  hits, loads           \* calls and configurations so far

attackVars == <<mode, budget, count, chains, index, fired, used, hand, announcedAs, hits,
                loads, wireVars>>

-----------------------------------------------------------------------------
(* Building the chains                                                     *)

OrDefault(s, default) == IF s = "" THEN default ELSE s

(* stepsFromDefs                                                           *)
Step(def) ==
  [strategy |-> OrDefault(def.strategy, "config_inject"),
   type |-> OrDefault(def.type, "llm"), name |-> OrDefault(def.name, "*"),
   payload |-> def.payload]
Steps(defs) == [i \in DOMAIN defs |-> Step(defs[i])]

(* sophRange: how many levels of sophistication.                           *)
Levels(range) ==
  IF Len(range) >= 2 /\ range[1] >= 1 /\ range[2] >= range[1]
  THEN range[2] - range[1] + 1 ELSE 2

Single(strategy, type, name) ==
  <<[strategy |-> strategy, type |-> type, name |-> name, payload |-> "default"]>>
Repeated(chain, n) == [i \in 1..n |-> chain]

(* buildDefaultChains: at each level one for the model, one per tool, and  *)
(* one more per risky tool.                                                *)
DefaultChains(range) ==
  LET n == Levels(range)
      PerTool(t) ==
        <<Single("tool_poison", "tool", t.name)>>
        \o (IF t.risky THEN <<Single("error_inject", "tool", t.name)>> ELSE <<>>)
  IN  Repeated(Single("config_inject", "llm", "*"), n)
      \o FlattenSeq([i \in DOMAIN Profiled |->
                       FlattenSeq(Repeated(PerTool(Profiled[i]), n))])

(* buildChains: those of the block, or the default ones, and the evolved.  *)
BuildChains(block) ==
  (IF block.chains # <<>> THEN [i \in DOMAIN block.chains |-> Steps(block.chains[i])]
   ELSE DefaultChains(block.range))
  \o [i \in DOMAIN block.evolved |-> <<Step(block.evolved[i])>>]

(* configure                                                               *)
Loads(block) ==
  /\ mode' = OrDefault(block.mode, "observe")
  /\ budget' = IF block.max <= 0 THEN DefaultMax ELSE block.max
  /\ count' = 0 /\ chains' = BuildChains(block)
  /\ index' = [c \in DOMAIN chains' |-> 1]
  /\ fired' = <<>> /\ used' = {} /\ hits' = 0

-----------------------------------------------------------------------------
(* Firing                                                                  *)

Matches(step, target) ==
  step.type = target.type /\ step.name \in {"", "*", target.name}

(* resolvePayload: the tables have texts for two strategies, maps for one. *)
Payload(step) ==
  IF step.payload # "default" THEN step.payload
  ELSE CASE step.strategy \in {"config_inject", "error_inject"} -> "text"
         [] step.strategy = "tool_poison" -> "map"
         [] OTHER -> "none"

(* A model call takes a system message with a text; a tool result takes    *)
(* any payload of its two strategies.                                      *)
Suits(step, target) ==
  IF target.type = "llm" THEN step.strategy = "config_inject" /\ Payload(step) = "text"
  ELSE step.strategy \in {"tool_poison", "error_inject"}

(* mutateToolResult leaves the result alone when the payload has the wrong *)
(* shape.                                                                  *)
Changes(step) == Payload(step) = (IF step.strategy = "tool_poison" THEN "map" ELSE "text")

(* complete and nextFor: the current step of a chain, if it matches.       *)
Offers(target) ==
  {c \in DOMAIN chains : index[c] <= Len(chains[c]) /\ Matches(chains[c][index[c]], target)}
Current(c) == chains[c][index[c]]

(* The chains are asked in order.  Each that offers a step moves on, until *)
(* one offers a step that suits the call, which fires.                     *)
Asked(target) ==
  LET fits == {c \in Offers(target) : Suits(Current(c), target)}
  IN  IF fits = {} THEN Offers(target)
      ELSE {c \in Offers(target) : c <= Min(fits)}

(* Mutant: a chain keeps its place when its step has fired.                *)
Advance_Bug(c) == index[c] + (IF \E e \in ToSet(fired) : e.chain = c THEN 0 ELSE 1)

Advance(c) == index[c] + 1

(* injectForLLM, injectForTool: one section under the injector's mutex.    *)
Hits(h, target) ==
  /\ hand[h] = NoFrame /\ hits < MaxHits /\ hits' = hits + 1
  /\ IF mode # "attack" \/ count >= budget
     THEN UNCHANGED <<count, index, fired, used, hand>>
     ELSE LET asked == Asked(target)
              fires == {c \in asked : Suits(Current(c), target)}
          IN  /\ index' = [c \in DOMAIN index |-> IF c \in asked THEN Advance(c) ELSE index[c]]
              /\ used' = used \cup {<<c, index[c]>> : c \in asked \ fires}
              /\ IF fires = {} THEN UNCHANGED <<count, fired, hand>>
                 ELSE LET c == CHOOSE f \in fires : TRUE
                      IN  /\ count' = count + 1
                          /\ fired' = Append(fired, [chain |-> c, step |-> index[c],
                                        target |-> target, changed |-> Changes(Current(c))])
                          /\ hand' = [hand EXCEPT ![h] = loads * (MaxHits + 1) + Len(fired')]
  /\ UNCHANGED <<mode, budget, chains, announcedAs, loads, wireVars>>

(* emitInjection, after the injector's section: the frame is queued, or    *)
(* not.                                                                    *)
Announces(h) ==
  /\ hand[h] # NoFrame
  /\ hand' = [hand EXCEPT ![h] = NoFrame]
  /\ \/ Enqueue /\ announcedAs' = Append(announcedAs, hand[h])
     \/ Drops /\ UNCHANGED announcedAs
  /\ UNCHANGED <<mode, budget, count, chains, index, fired, used, hits, loads, sender, halted,
                 onWire, sentCount, unwritten, failures>>

(* handleUpdate reloads the injector of the run it belongs to.             *)
Reloads ==
  /\ loads < MaxLoads /\ loads' = loads + 1
  /\ \E block \in Attack : Loads(block)
  /\ UNCHANGED <<hand, announcedAs, wireVars>>

AttackInit ==
  /\ mode = "observe" /\ budget = DefaultMax /\ count = 0 /\ chains = <<>> /\ index = <<>>
  /\ fired = <<>> /\ used = {} /\ hand = [h \in Hand |-> NoFrame] /\ announcedAs = <<>>
  /\ hits = 0 /\ loads = 0 /\ WireInit

AttackNext ==
  \/ Reloads
  \/ \E h \in Hand : Announces(h) \/ \E t \in Target : Hits(h, t)
  \/ (Halts \/ SenderNext)
     /\ UNCHANGED <<mode, budget, count, chains, index, fired, used, hand, announcedAs, hits,
                    loads>>

-----------------------------------------------------------------------------
(* What the correlator attributes to an attack is what was done, whoever   *)
(* called at once and however often the chains were reloaded.  Of each     *)
(* chain every step fires at most once and in order, within the budget,    *)
(* for a call it suits of the component it targets; it is passed over only *)
(* if it suits no call of its target; no injection reaches the server      *)
(* twice, and one that changed nothing had an explicit payload (nextFor,   *)
(* injectForLLM, injectForTool, emitInjection, pump).                      *)
InjectionsTold ==
  /\ Len(fired) = count /\ count <= budget
  /\ \A i \in DOMAIN fired :
       LET e == fired[i] IN
       LET s == chains[e.chain][e.step] IN
       /\ Matches(s, e.target)
       /\ \A j \in 1..(i - 1) : fired[j].chain = e.chain => fired[j].step < e.step
       /\ (s.strategy = "config_inject") = (e.target.type = "llm")
       /\ e.changed \/ s.payload # "default"
  /\ \A c \in DOMAIN chains :
       {<<c, p>> : p \in 1..(index[c] - 1)} =
         {u \in used : u[1] = c} \cup {<<c, e.step>> : e \in {f \in ToSet(fired) : f.chain = c}}
  /\ \A u \in used : LET s == chains[u[1]][u[2]] IN
       (s.type = "llm" => s.strategy # "config_inject" \/ Payload(s) # "text")
       /\ (s.type = "tool" => s.strategy \notin {"tool_poison", "error_inject"})
  /\ Cardinality({announcedAs[onWire[i]] : i \in DOMAIN onWire}) = Len(onWire)
  /\ WireFaithful
=============================================================================
