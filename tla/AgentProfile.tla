---------------------------- MODULE AgentProfile ----------------------------
(***************************************************************************)
(* The agent profile of an activation (simulation/profiler.go), and how    *)
(* the controller fills and announces it (simulation/controller.go): the   *)
(* manifest seeds it, goroutines of the agent fold their events into it,   *)
(* and whichever of them finds it changed may announce it.                 *)
(*                                                                         *)
(* A profile has its own mutex; the controller's is taken before and after *)
(* but never across it.  Profiles bear the number of their activation.     *)
(***************************************************************************)
EXTENDS Integers, FiniteSets, FiniteSetsExt

CONSTANTS
  ToolName, Model,
  RiskOf,       \* classifyRisk, by the name of a tool
  CategoryOf,   \* classifyCategory
  Observation,  \* events: type, tool or component, model, text
  Manifest,     \* manifests: tools, models
  Recorder,       \* goroutines of the agent
  MaxProfiles,  \* bound on the activations
  MaxObserved   \* bound on the events that are observed

ASSUME ProfileAssumption ==
  /\ RiskOf \in [ToolName -> {"critical", "high", "medium", "low", "unknown"}]
  /\ CategoryOf \in [ToolName -> {"destructive_action", "external_action", "financial", "other"}]
  /\ Manifest \subseteq [tools : SUBSET ToolName, models : SUBSET Model]
  /\ \A e \in Observation : /\ e.type = "tool" => e.tool \in ToolName
                            /\ e.type = "llm" => e.models \subseteq Model /\ e.text \in BOOLEAN
  /\ MaxProfiles \in Nat /\ MaxObserved \in Nat

VARIABLES
  profiles,  \* the profile of each activation
  prof,      \* c.prof, or 0
  manifest,  \* c.manifestTools and c.manifestModels
  announced, \* c.lastProfile is set
  seeding,   \* profiles waiting for seedManifest, and with what
  record,    \* record[w]: the Record call of worker w
  activated, \* activations so far
  frames,    \* views taken, and not yet handed to a transport
  told,      \* since the last snapshot of a profile, the views of it that a
  dropped    \* transport has queued, and those that it has dropped

profileVars ==
  <<profiles, prof, manifest, announced, seeding, record, activated, frames, told, dropped>>

Profile == 1..MaxProfiles

NewProfile == [tools |-> {}, manifested |-> {}, dynamic |-> {}, ran |-> [t \in ToolName |-> 0],
               obs |-> {}, calls |-> 0, models |-> {}, declared |-> {},
               llmCalls |-> 0, prompt |-> FALSE, dirty |-> FALSE, ready |-> FALSE]

-----------------------------------------------------------------------------
(* The profile                                                             *)

(* Mutant: a manifest marks the profile only if it brings a new tool.      *)
SeedMarks_Bug(p, m) == p.dirty \/ ~(m.tools \subseteq p.tools)

SeedMarks(p, m) == TRUE

(* seedManifest: the declared tools replace the earlier ones, yet what the *)
(* profile has learnt stays.                                               *)
Seeded(p, m) ==
  [p EXCEPT !.declared = m.tools, !.models = @ \cup m.models,
            !.tools = @ \cup m.tools, !.manifested = @ \cup (m.tools \ p.tools),
            !.ready = @ \/ p.tools \cup m.tools # {}, !.dirty = SeedMarks(p, m)]

Ready(p) == [p EXCEPT !.ready = @ \/ p.llmCalls >= 1 \/ p.tools # {}, !.dirty = TRUE]

(* observe: the first text of a model is taken for the system prompt.      *)
Folded(p, e) ==
  CASE e.type = "llm" ->
         Ready([p EXCEPT !.llmCalls = @ + 1, !.models = @ \cup e.models,
                         !.prompt = @ \/ e.text])
    [] e.type = "tool" ->
         Ready([p EXCEPT !.tools = @ \cup {e.tool}, !.ran[e.tool] = @ + 1,
                         !.dynamic = IF e.tool \in p.tools THEN @ ELSE @ \cup {e.tool}])
    [] e.type \in {"retriever", "memory"} ->
         Ready([p EXCEPT !.obs = @ \cup {<<e.type, e.name>>}, !.calls = @ + 1])
    [] OTHER -> Ready(p)

(* buildLocked: what the platform is told of the profile.                  *)
Executions(ran) == FoldSet(LAMBDA t, n : n + ran[t], 0, ToolName)
ComponentCalls(p) == p.calls + Executions(p.ran)

View(p) ==
  LET calls == ComponentCalls(p)
      level(r) == Cardinality({t \in p.tools : RiskOf[t] = r})
      surfaces == <<p.tools # {}, p.obs # {} \/ p.prompt, p.models # {}>>
  IN  [confidence |-> IF p.llmCalls >= 10 THEN "high"
                      ELSE IF p.llmCalls >= 3 \/ (p.tools # {} /\ calls > 0) THEN "medium"
                      ELSE "low",
       overallRisk |-> IF level("critical") > 0 THEN "critical"
                       ELSE IF level("high") > 0 THEN "high"
                       ELSE IF p.tools # {} THEN "medium" ELSE "low",
       critical |-> level("critical"), high |-> level("high"),
       has |-> {CategoryOf[t] : t \in p.tools} \ {"other"},
       attackSurfaces |-> Cardinality({i \in 1..3 : surfaces[i]}),
       llmCalls |-> p.llmCalls, componentCalls |-> calls, models |-> p.models,
       prompt |-> p.prompt, tools |-> p.tools, invocations |-> p.ran,
       manifested |-> p.manifested, dynamic |-> p.dynamic, declared |-> p.declared,
       undeclared |-> IF p.declared = {} THEN {} ELSE p.tools \ p.declared,
       declaredButNotSeen |-> p.declared \ p.tools]

-----------------------------------------------------------------------------
(* The controller                                                          *)

NoRecord == [at |-> "idle", prof |-> 0]
Empty == [tools |-> {}, models |-> {}]

ProfileInit ==
  /\ profiles = [i \in Profile |-> NewProfile]
  /\ prof = 0 /\ manifest = Empty /\ announced = FALSE
  /\ seeding = {} /\ record = [w \in Recorder |-> NoRecord]
  /\ activated = 0 /\ frames = {}
  /\ told = [i \in Profile |-> {}] /\ dropped = [i \in Profile |-> {}]

(* activate publishes the profile, and seeds it after unlocking, from      *)
(* slices that SetManifest overwrites in place (`over`).                   *)
Seeding(by, i, m) == [by |-> by, prof |-> i, manifest |-> m, over |-> {}]

Activates ==
  /\ prof = 0 /\ activated < MaxProfiles
  /\ activated' = activated + 1 /\ prof' = activated + 1
  /\ announced' = FALSE
  /\ seeding' = seeding \cup {Seeding("activate", activated + 1, manifest)}
  /\ UNCHANGED <<profiles, manifest, record, frames, told, dropped>>

Retires ==
  /\ prof # 0
  /\ prof' = 0
  /\ UNCHANGED <<profiles, manifest, announced, seeding, record, activated, frames, told, dropped>>

(* SetManifest, before or after a run starts, by Connect.                  *)
SetManifest(m) ==
  /\ m # manifest /\ manifest' = m
  /\ \A s \in seeding : s.by = "activate"
  /\ seeding' = {[s EXCEPT !.over = @ \cup m.tools] : s \in seeding}
                \cup {Seeding("manifest", prof, m) : i \in {prof} \ {0}}
  /\ UNCHANGED <<profiles, prof, announced, record, activated, frames, told, dropped>>

(* The data race: each element read is the old one or a later one.         *)
Read(s) == IF s.over = {} THEN {s.manifest}
           ELSE {[s.manifest EXCEPT !.tools = seen] :
                   seen \in {x \in SUBSET (s.manifest.tools \cup s.over) :
                               Cardinality(x) <= Cardinality(s.manifest.tools)}}

Seeds(s) ==
  /\ s \in seeding
  /\ seeding' = seeding \ {s}
  /\ \E m \in Read(s) : profiles' = [profiles EXCEPT ![s.prof] = Seeded(@, m)]
  /\ UNCHANGED <<prof, manifest, announced, record, activated, frames, told, dropped>>

(* Record captures the profile, streams its event, and folds it in.        *)
RecordBegins(w) ==
  /\ record[w] = NoRecord /\ prof # 0
  /\ record' = [record EXCEPT ![w] = [at |-> "observe", prof |-> prof]]
  /\ UNCHANGED <<profiles, prof, manifest, announced, seeding, activated, frames, told, dropped>>

EventsIn(p) == p.llmCalls + ComponentCalls(p)

Observes(w, e) ==
  /\ record[w].at = "observe"
  /\ MapThenSumSet(LAMBDA i : EventsIn(profiles[i]), Profile) < MaxObserved
  /\ profiles' = [profiles EXCEPT ![record[w].prof] = Folded(@, e)]
  /\ record' = [record EXCEPT ![w].at = "ready"]
  /\ UNCHANGED <<prof, manifest, announced, seeding, activated, frames, told, dropped>>

(* maybeEmitProfile: ready and changed?  Then, under the lock of the       *)
(* controller, is a run there and is it time?  The first is never early.   *)
MayEmit(w) ==
  /\ record[w].at = "ready"
  /\ record' = [record EXCEPT ![w] =
       IF profiles[@.prof].ready /\ profiles[@.prof].dirty THEN [@ EXCEPT !.at = "claim"]
       ELSE NoRecord]
  /\ UNCHANGED <<profiles, prof, manifest, announced, seeding, activated, frames, told, dropped>>

Claims(w) ==
  /\ record[w].at = "claim"
  /\ \/ /\ prof # 0 /\ announced' = TRUE
        /\ record' = [record EXCEPT ![w].at = "snapshot"]
     \/ /\ prof = 0 \/ announced
        /\ record' = [record EXCEPT ![w] = NoRecord]
        /\ UNCHANGED announced
  /\ UNCHANGED <<profiles, prof, manifest, seeding, activated, frames, told, dropped>>

(* snapshot clears the mark, before the frame is built and sent.           *)
Snapshots(w) ==
  LET i == record[w].prof
  IN  /\ record[w].at = "snapshot"
      /\ profiles' = [profiles EXCEPT ![i].dirty = FALSE]
      /\ frames' = frames \cup {[by |-> w, prof |-> i, view |-> View(profiles[i])]}
      /\ told' = [told EXCEPT ![i] = {}] /\ dropped' = [dropped EXCEPT ![i] = {}]
      /\ record' = [record EXCEPT ![w].at = "send"]
      /\ UNCHANGED <<prof, manifest, announced, seeding, activated>>

(* send, to the transport of the claim: it drops a frame if its queue is   *)
(* full or it has been stopped, and does not say so.                       *)
Sends(f) ==
  /\ f \in frames
  /\ frames' = frames \ {f} /\ record' = [record EXCEPT ![f.by] = NoRecord]
  /\ \/ told' = [told EXCEPT ![f.prof] = @ \cup {f.view}] /\ UNCHANGED dropped
     \/ dropped' = [dropped EXCEPT ![f.prof] = @ \cup {f.view}] /\ UNCHANGED told
  /\ UNCHANGED <<profiles, prof, manifest, announced, seeding, activated>>

ProfileNext ==
  \/ Activates \/ Retires
  \/ \E m \in Manifest : SetManifest(m)
  \/ \E s \in seeding : Seeds(s)
  \/ \E f \in frames : Sends(f)
  \/ \E w \in Recorder :
       \/ RecordBegins(w) \/ MayEmit(w) \/ Claims(w) \/ Snapshots(w)
       \/ \E e \in Observation : Observes(w, e)

-----------------------------------------------------------------------------
(* Nothing learnt is left untold unnoticed: the profile as it stands, if   *)
(* ready and not marked as changed, has been told, is about to be, or was  *)
(* in a frame that its transport dropped, whoever observed, seeded and     *)
(* took views in between, in whatever order the frames were sent.  A drop  *)
(* does not mark the profile again.  And a profile is ready as soon as it  *)
(* has anything an evaluation can start from (seedManifest, observe,       *)
(* snapshot, maybeEmitProfile).                                            *)
Taken(i) ==
  told[i] \cup dropped[i] \cup {f.view : f \in {g \in frames : g.prof = i}}

ProfileTold ==
  \A i \in Profile :
    /\ profiles[i].ready /\ ~profiles[i].dirty => View(profiles[i]) \in Taken(i)
    /\ profiles[i].ready <=> profiles[i].llmCalls > 0 \/ profiles[i].tools # {}
=============================================================================
