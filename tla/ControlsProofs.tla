---------------------------- MODULE ControlsProofs ----------------------------
(***************************************************************************)
(* Proofs about LocalControls, for any number of rule sets, channels,      *)
(* hosts and workers.  The report of the sync channel tells the truth      *)
(* (ReportHonest); the verdict of an engine is the strongest of its        *)
(* detectors' (VerdictIsStrongest); the engine in force lets no more       *)
(* through than its budget, however checks and reloads interleave          *)
(* (BudgetHeld).  And its types.                                           *)
(***************************************************************************)
EXTENDS LocalControls, FiniteSetTheorems, TLAPS

Position == {"none", "tick", "store", "stamp", "clear", "report", "send", "wait", "gone"}

ChannelShape ==
  /\ syncer \in Syncer \cup {None}
  /\ loop \in [Syncer -> Position]
  /\ hash \in [Syncer -> Nat] /\ got \in [Syncer -> Nat] /\ rep \in [Syncer -> Nat]
  /\ engine \in [version : Nat, build : Nat]
  /\ stamp \in [version : Nat, applied : BOOLEAN, error : BOOLEAN]
  /\ published \in Nat
  /\ \A s \in Syncer : loop[s] = "none" => hash[s] = None

(***************************************************************************)
(* What each position of a loop knows.  The hash is stored first, then the *)
(* engine, the version and the error, each in a step of its own: between   *)
(* them the state is inconsistent, but only in the hands of the one loop   *)
(* that is about to mend it.                                               *)
(***************************************************************************)
Judged(s) == stamp.error <=> ~Acceptable(hash[s])

Knows(s) ==
  /\ loop[s] \in {"store", "stamp"} => got[s] = hash[s]
  /\ loop[s] = "stamp" => engine.version = got[s]
  /\ loop[s] \in {"stamp", "clear"} => Acceptable(hash[s])
  /\ loop[s] \in {"tick", "report", "send", "wait"} /\ hash[s] # None => Judged(s)
  /\ loop[s] = "send" => rep[s] = stamp.version

OneLoop == \A r, s \in Syncer : Live(r) /\ Live(s) => r = s

Stamped == (\A s \in Syncer : loop[s] # "stamp") => stamp.version = engine.version

ChannelInv ==
  /\ ChannelShape
  /\ ~overlapped => OneLoop /\ Stamped /\ \A s \in Syncer : Knows(s)

(* Nothing is published, and no loop runs.                                 *)
LEMMA InitChannel == LocalInit => ChannelInv
BY LocalAssumption
   DEF LocalInit, ChannelInv, ChannelShape, OneLoop, Stamped, Knows, Live, Position,
       None, NoEngine

(* A step that leaves the channel, the engine and the stamp alone.         *)
LEMMA ChannelKept ==
  ASSUME ChannelInv, published' \in Nat, overlapped' = overlapped,
         syncer' \in Syncer \cup {None}, UNCHANGED <<engine, loop, hash, got, rep, stamp>>
  PROVE  ChannelInv'
BY DEF ChannelInv, ChannelShape, OneLoop, Stamped, Knows, Live, Judged

(* A step of a living loop.  Without an overlap it is the only one, so it  *)
(* need only answer for itself and for the version it leaves stamped.      *)
LEMMA LoopMoves ==
  ASSUME ChannelInv, ChannelShape', overlapped' = overlapped, NEW s \in Syncer, Live(s),
         \A r \in Syncer \ {s} : loop'[r] = loop[r],
         ~overlapped => /\ Knows(s)'
                        /\ loop'[s] # "stamp" => stamp'.version = engine'.version
  PROVE  ChannelInv'
<1>1. ASSUME ~overlapped PROVE OneLoop' /\ Stamped' /\ \A r \in Syncer : Knows(r)'
  <2>1. \A r \in Syncer \ {s} : loop'[r] \in {"none", "gone"}
    BY <1>1 DEF ChannelInv, OneLoop, Live
  <2>2. OneLoop'
    BY <2>1 DEF OneLoop, Live
  <2>3. Stamped'
    BY <1>1 DEF Stamped
  <2>4. ASSUME NEW r \in Syncer PROVE Knows(r)'
    <3>1. CASE r = s
      BY <1>1, <3>1
    <3>2. CASE r # s
      BY <2>1, <3>2 DEF Knows
    <3> QED
      BY <3>1, <3>2
  <2> QED
    BY <2>2, <2>3, <2>4
<1> QED
  BY <1>1 DEF ChannelInv

(* poll: a payload is new, known, or none.                                 *)
LEMMA PollLife ==
  ASSUME ChannelInv, NEW s \in Syncer, PollAnswers(s)
  PROVE  ChannelInv'
<1>1. /\ loop[s] = "tick" /\ published # None
      /\ UNCHANGED <<published, engine, syncer, rep, stamp, overlapped>>
  BY DEF PollAnswers
<1>2. CASE NotModified(s)
  <2>1. loop' = [loop EXCEPT ![s] = "report"] /\ UNCHANGED <<hash, got>>
    BY <1>2 DEF PollAnswers, Goto
  <2>2. ChannelShape'
    BY <1>1, <2>1 DEF ChannelInv, ChannelShape, Position
  <2>3. ASSUME ~overlapped
        PROVE  /\ Knows(s)'
               /\ loop'[s] # "stamp" => stamp'.version = engine'.version
    BY <1>1, <2>1, <2>3 DEF ChannelInv, ChannelShape, Knows, Judged, Stamped, OneLoop, Live
  <2> QED
    BY <1>1, <2>1, <2>2, <2>3, LoopMoves DEF Live, ChannelInv, ChannelShape
<1>3. CASE ~NotModified(s)
  <2>1. /\ loop' = [loop EXCEPT ![s] = "store"]
        /\ hash' = [hash EXCEPT ![s] = published]
        /\ got' = [got EXCEPT ![s] = published]
    BY <1>3 DEF PollAnswers, Goto, Seen
  <2>2. ChannelShape'
    BY <1>1, <2>1 DEF ChannelInv, ChannelShape, Position
  <2>3. ASSUME ~overlapped
        PROVE  /\ Knows(s)'
               /\ loop'[s] # "stamp" => stamp'.version = engine'.version
    BY <1>1, <2>1, <2>3 DEF ChannelInv, ChannelShape, Knows, Stamped, OneLoop, Live
  <2> QED
    BY <1>1, <2>1, <2>2, <2>3, LoopMoves DEF Live, ChannelInv, ChannelShape
<1> QED
  BY <1>2, <1>3

(* Apply: a payload that compiles is installed, another leaves an error.   *)
LEMMA ApplyLife ==
  ASSUME ChannelInv, NEW s \in Syncer, Apply(s)
  PROVE  ChannelInv'
<1>1. loop[s] = "store" /\ UNCHANGED <<published, syncer, hash, rep, overlapped>>
  BY DEF Apply
<1>2. ~overlapped => got[s] = hash[s]
  BY <1>1 DEF ChannelInv, Knows
<1>3. CASE Acceptable(got[s])
  <2>1. /\ engine' = [version |-> got[s], build |-> engine.build + 1]
        /\ loop' = [loop EXCEPT ![s] = "stamp"] /\ UNCHANGED <<stamp, got>>
    BY <1>3 DEF Apply, Install, Goto
  <2>2. ChannelShape'
    BY <1>1, <2>1 DEF ChannelInv, ChannelShape, Position
  <2>3. ~overlapped => Knows(s)'
    BY <1>1, <1>2, <1>3, <2>1 DEF ChannelInv, ChannelShape, Knows
  <2>4. loop'[s] = "stamp"
    BY <2>1 DEF ChannelInv, ChannelShape
  <2> QED
    BY <1>1, <2>1, <2>2, <2>3, <2>4, LoopMoves DEF Live, ChannelInv, ChannelShape
<1>4. CASE ~Acceptable(got[s])
  <2>1. /\ stamp' = [stamp EXCEPT !.error = TRUE]
        /\ loop' = [loop EXCEPT ![s] = "report"]
        /\ got' = [got EXCEPT ![s] = None] /\ engine' = engine
    BY <1>4 DEF Apply, Refuses, Goto
  <2>2. ChannelShape'
    BY <1>1, <2>1 DEF ChannelInv, ChannelShape, Position, None
  <2>3. ASSUME ~overlapped
        PROVE  Knows(s)'
    BY <1>1, <1>2, <1>4, <2>1, <2>3 DEF ChannelInv, ChannelShape, Knows, Judged
  <2>4. ASSUME ~overlapped
        PROVE  stamp'.version = engine'.version
    BY <1>1, <2>1, <2>4 DEF ChannelInv, ChannelShape, Stamped, OneLoop, Live
  <2> QED
    BY <1>1, <2>1, <2>2, <2>3, <2>4, LoopMoves DEF Live, ChannelInv, ChannelShape
<1> QED
  BY <1>3, <1>4

(* The version, then the error, of what was applied.                       *)
LEMMA StampLife ==
  ASSUME ChannelInv, NEW s \in Syncer, StampVersion(s) \/ ClearError(s)
  PROVE  ChannelInv'
<1>1. /\ UNCHANGED <<published, engine, syncer, hash, rep, overlapped>>
      /\ loop[s] \in {"stamp", "clear"}
  BY DEF StampVersion, ClearError
<1>2. CASE StampVersion(s)
  <2>1. /\ loop[s] = "stamp" /\ loop' = [loop EXCEPT ![s] = "clear"]
        /\ stamp' = [stamp EXCEPT !.version = got[s], !.applied = TRUE]
        /\ got' = [got EXCEPT ![s] = None]
    BY <1>2 DEF StampVersion, Goto
  <2>2. ChannelShape'
    BY <1>1, <2>1 DEF ChannelInv, ChannelShape, Position, None
  <2>3. ASSUME ~overlapped
        PROVE  Knows(s)' /\ stamp'.version = engine'.version
    BY <1>1, <2>1, <2>3 DEF ChannelInv, ChannelShape, Knows
  <2> QED
    BY <1>1, <2>1, <2>2, <2>3, LoopMoves DEF Live, ChannelInv, ChannelShape
<1>3. CASE ClearError(s)
  <2>1. /\ loop[s] = "clear" /\ loop' = [loop EXCEPT ![s] = "report"]
        /\ stamp' = [stamp EXCEPT !.error = FALSE] /\ got' = got
    BY <1>3 DEF ClearError, Goto, ErrorAfterApply
  <2>2. ChannelShape'
    BY <1>1, <2>1 DEF ChannelInv, ChannelShape, Position
  <2>3. ASSUME ~overlapped
        PROVE  Knows(s)' /\ stamp'.version = engine'.version
    BY <1>1, <2>1, <2>3
       DEF ChannelInv, ChannelShape, Knows, Judged, Stamped, OneLoop, Live
  <2> QED
    BY <1>1, <2>1, <2>2, <2>3, LoopMoves DEF Live, ChannelInv, ChannelShape
<1> QED
  BY <1>2, <1>3

(* A loop between its ticker, its report and its end.                      *)
LEMMA TurnLife ==
  ASSUME ChannelInv, NEW s \in Syncer,
         PollFails(s) \/ ReportReads(s) \/ ReportSends(s) \/ Ticks(s) \/ LoopEnds(s)
  PROVE  ChannelInv'
<1>1. UNCHANGED <<published, engine, syncer, hash, got, stamp, overlapped>>
  BY DEF PollFails, ReportReads, ReportSends, Ticks, LoopEnds
<1>2. /\ loop[s] \in {"tick", "report", "send", "wait"}
      /\ \E at \in {"tick", "report", "send", "wait", "gone"} :
           loop' = [loop EXCEPT ![s] = at]
  BY DEF PollFails, ReportReads, ReportSends, Ticks, LoopEnds, Goto
<1>3. rep' \in [Syncer -> Nat]
  BY DEF PollFails, ReportReads, ReportSends, Ticks, LoopEnds, ChannelInv, ChannelShape,
         None
<1>4. loop'[s] = "send" => rep'[s] = stamp.version
  BY DEF PollFails, ReportReads, ReportSends, Ticks, LoopEnds, Goto, ChannelInv,
         ChannelShape
<1>5. ChannelShape'
  <2>1. PICK at \in {"tick", "report", "send", "wait", "gone"} : loop' = [loop EXCEPT ![s] = at]
    BY <1>2
  <2>2. at \in Position /\ at # "none"
    BY DEF Position
  <2>3. loop' \in [Syncer -> Position] /\ \A r \in Syncer : loop'[r] = "none" => loop[r] = "none"
    BY <2>1, <2>2 DEF ChannelInv, ChannelShape
  <2> QED
    BY <1>1, <1>3, <2>3 DEF ChannelInv, ChannelShape
<1>6. ASSUME ~overlapped
      PROVE  Knows(s)' /\ stamp'.version = engine'.version
  BY <1>1, <1>2, <1>4, <1>6
     DEF ChannelInv, ChannelShape, Knows, Judged, Stamped, OneLoop, Live
<1> QED
  BY <1>1, <1>2, <1>5, <1>6, LoopMoves DEF Live, ChannelInv, ChannelShape

(* A channel starts with nothing seen, so it owes no judgement; an         *)
(* overlap, or rules of the host, leave only the shape.                    *)
LEMMA StartLife ==
  ASSUME ChannelInv, NEW s \in Syncer, SyncLocalControls(s)
  PROVE  ChannelInv'
<1>1. /\ loop[s] = "none" /\ syncer' = s
      /\ loop' = [loop EXCEPT ![s] = "tick"]
      /\ overlapped' = (overlapped \/ \E r \in Syncer : Live(r))
      /\ UNCHANGED <<published, engine, hash, got, rep, stamp>>
  BY DEF SyncLocalControls
<1>2. ChannelShape'
  BY <1>1 DEF ChannelInv, ChannelShape, Position
<1>3. ASSUME ~overlapped'
      PROVE  OneLoop' /\ Stamped' /\ \A r \in Syncer : Knows(r)'
  <2>1. ~overlapped /\ \A r \in Syncer : loop[r] \in {"none", "gone"}
    BY <1>1, <1>3 DEF Live
  <2>2. \A r \in Syncer : r # s => loop'[r] \in {"none", "gone"}
    BY <1>1, <2>1 DEF ChannelInv, ChannelShape
  <2>3. loop'[s] = "tick" /\ hash'[s] = None
    BY <1>1 DEF ChannelInv, ChannelShape
  <2>4. OneLoop'
    BY <2>2 DEF OneLoop, Live
  <2>5. Stamped'
    BY <1>1, <2>1 DEF ChannelInv, Stamped
  <2>6. \A r \in Syncer : Knows(r)'
    BY <2>2, <2>3 DEF Knows
  <2> QED
    BY <2>4, <2>5, <2>6
<1> QED
  BY <1>2, <1>3 DEF ChannelInv

(* A host that sets its own rules overlaps with a living loop.             *)
LEMMA HostLife ==
  ASSUME ChannelInv, NEW v \in HostSets, SetLocalControls(v)
  PROVE  ChannelInv'
<1>1. UNCHANGED <<published, syncer, loop, hash, got, rep, stamp>>
  BY DEF SetLocalControls, syncVars
<1>2. CASE Compiles(Rules[v])
  <2>1. overlapped' /\ engine' = [version |-> v, build |-> engine.build + 1] /\ v \in Nat
    BY <1>2, LocalAssumption DEF SetLocalControls, Install
  <2> QED
    BY <1>1, <2>1 DEF ChannelInv, ChannelShape
<1>3. CASE ~Compiles(Rules[v])
  <2>1. UNCHANGED <<engine, overlapped>>
    BY <1>3 DEF SetLocalControls
  <2> QED
    BY <1>1, <2>1, ChannelKept DEF ChannelInv, ChannelShape
<1> QED
  BY <1>2, <1>3

(* Every step of the layer.                                                *)
LEMMA NextChannel == ChannelInv /\ [LocalNext]_localVars => ChannelInv'
<1> SUFFICES ASSUME ChannelInv, [LocalNext]_localVars PROVE ChannelInv'
  OBVIOUS
<1>1. CASE UNCHANGED localVars
  BY <1>1, ChannelKept DEF localVars, syncVars, ChannelInv, ChannelShape
<1>2. CASE Publish
  BY <1>2, ChannelKept DEF Publish, syncVars, ChannelInv, ChannelShape
<1>3. ASSUME NEW s \in Syncer, SyncLocalControls(s) \/ LoopStep(s) \/ Ticks(s)
      PROVE  ChannelInv'
  BY <1>3, StartLife, PollLife, ApplyLife, StampLife, TurnLife DEF LoopStep
<1>4. ASSUME NEW v \in HostSets, SetLocalControls(v) PROVE ChannelInv'
  BY <1>4, HostLife
<1>5. ASSUME NEW h \in Host, StopLocalControlSync(h) \/ StopReturns(h) PROVE ChannelInv'
  BY <1>5, ChannelKept DEF StopLocalControlSync, StopReturns, ChannelInv, ChannelShape
<1>6. ASSUME NEW w \in Worker, NEW req \in Request, CheckLoads(w) \/ CheckEvaluates(w, req)
      PROVE  ChannelInv'
  BY <1>6, ChannelKept DEF CheckLoads, CheckEvaluates, syncVars, ChannelInv, ChannelShape
<1>7. ASSUME NEW w \in Worker, CheckLoads(w) PROVE ChannelInv'
  BY <1>7, ChannelKept DEF CheckLoads, syncVars, ChannelInv, ChannelShape
<1> QED
  BY <1>1, <1>2, <1>3, <1>4, <1>5, <1>6, <1>7 DEF LocalNext

(* Every position of every loop knows what it should.                      *)
THEOREM ChannelSafe == LocalSpec => []ChannelInv
BY InitChannel, NextChannel, PTL DEF LocalSpec

(* A report names the version whose detectors it lists, and carries an     *)
(* error exactly if the last payload seen was refused, whatever the order  *)
(* in which hash, engine, version and error are stored.                    *)
THEOREM ReportsAreHonest == LocalSpec => []ReportHonest
<1>1. ChannelInv => ReportHonest
  <2> SUFFICES ASSUME ChannelInv, NEW s \in Syncer, loop[s] = "send", ~overlapped
               PROVE  /\ rep[s] = engine.version
                      /\ hash[s] # None => (stamp.error <=> ~Acceptable(hash[s]))
    BY DEF ReportHonest
  <2>1. Knows(s) /\ Stamped /\ OneLoop
    BY DEF ChannelInv
  <2>2. \A r \in Syncer : loop[r] # "stamp"
    BY <2>1 DEF OneLoop, Live
  <2>3. rep[s] = engine.version
    BY <2>1, <2>2 DEF Knows, Stamped
  <2> QED
    BY <2>1, <2>3 DEF Knows, Judged
<1> QED
  BY <1>1, ChannelSafe, PTL

-----------------------------------------------------------------------------
(***************************************************************************)
(* What an engine says of one request, for every rule set: the fold over   *)
(* the detectors of a stage is the four of them in their order, each if it *)
(* is there.                                                               *)
(***************************************************************************)
Four(rules) == {DatabaseDetector(rules), SecretDetector(rules), InjectionDetector(rules),
                BudgetDetector(rules)}

If(rules, req, ds, d, acc) == IF d \in ds THEN Turn(rules, req, d, acc) ELSE acc

Three(rules, req, ds, used) ==
  If(rules, req, ds, InjectionDetector(rules),
     If(rules, req, ds, SecretDetector(rules),
        If(rules, req, ds, DatabaseDetector(rules), Unspent(used))))

Chain(rules, req, ds, used) ==
  If(rules, req, ds, BudgetDetector(rules), Three(rules, req, ds, used))

(* No two detectors share a priority.                                      *)
LEMMA FourDiffer ==
  ASSUME NEW rules
  PROVE  /\ \A d, e \in Four(rules) : d.priority = e.priority => d = e
         /\ \A d \in Four(rules) : d.priority \in Nat
         /\ DatabaseDetector(rules).priority = 95 /\ SecretDetector(rules).priority = 90
         /\ InjectionDetector(rules).priority = 85 /\ BudgetDetector(rules).priority = 10
BY DEF Four, DatabaseDetector, SecretDetector, InjectionDetector, BudgetDetector

(* The one tried last is the one no other is tried after.                  *)
LEMMA LastIsLast ==
  ASSUME NEW rules, NEW ds \in SUBSET Four(rules), NEW d \in ds,
         \A e \in ds : d.priority <= e.priority
  PROVE  LastTried(ds) = d
<1>1. LastTried(ds) \in ds /\ \A e \in ds : LastTried(ds).priority <= e.priority
  BY DEF LastTried
<1>2. LastTried(ds).priority <= d.priority /\ d.priority <= LastTried(ds).priority
  BY <1>1
<1>3. LastTried(ds) \in Four(rules) /\ d \in Four(rules)
  BY <1>1
<1>4. LastTried(ds).priority \in Nat /\ d.priority \in Nat
  BY <1>3, FourDiffer
<1> QED
  BY <1>2, <1>3, <1>4, FourDiffer

(* The chain over some detectors: that over the others, and one turn.      *)
LEMMA ChainEndsWithLast ==
  ASSUME NEW rules, NEW req, NEW used, NEW ds \in SUBSET Four(rules), ds # {}
  PROVE  Chain(rules, req, ds, used)
           = Turn(rules, req, LastTried(ds), Chain(rules, req, ds \ {LastTried(ds)}, used))
<1> DEFINE D == DatabaseDetector(rules)
           S == SecretDetector(rules)
           I == InjectionDetector(rules)
           B == BudgetDetector(rules)
           T(d, acc) == Turn(rules, req, d, acc)
<1>1. /\ D.priority = 95 /\ S.priority = 90 /\ I.priority = 85 /\ B.priority = 10
      /\ \A d \in ds : d \in {D, S, I, B}
  BY FourDiffer DEF Four
<1>2. D # S /\ D # I /\ D # B /\ S # I /\ S # B /\ I # B
  BY <1>1
<1> HIDE DEF D, S, I, B
<1>3. \A es : /\ Chain(rules, req, es, used) = IF B \in es THEN T(B, Three(rules, req, es, used))
                                              ELSE Three(rules, req, es, used)
             /\ Three(rules, req, es, used)
                  = LET d == IF D \in es THEN T(D, Unspent(used)) ELSE Unspent(used)
                        s == IF S \in es THEN T(S, d) ELSE d
                    IN  IF I \in es THEN T(I, s) ELSE s
  BY DEF Chain, Three, If, D, S, I, B
<1> HIDE DEF T
<1>4. CASE B \in ds
  <2>1. LastTried(ds) = B
    BY <1>1, <1>4, LastIsLast
  <2> QED
    BY <1>2, <1>3, <1>4, <2>1 DEF T
<1>5. CASE B \notin ds /\ I \in ds
  <2>1. LastTried(ds) = I
    BY <1>1, <1>5, LastIsLast
  <2> QED
    BY <1>2, <1>3, <1>5, <2>1 DEF T
<1>6. CASE B \notin ds /\ I \notin ds /\ S \in ds
  <2>1. LastTried(ds) = S
    BY <1>1, <1>6, LastIsLast
  <2> QED
    BY <1>2, <1>3, <1>6, <2>1 DEF T
<1>7. CASE B \notin ds /\ I \notin ds /\ S \notin ds
  <2>1. D \in ds
    BY <1>1, <1>7
  <2>2. LastTried(ds) = D
    BY <1>1, <1>7, <2>1, LastIsLast
  <2> QED
    BY <1>2, <1>3, <1>7, <2>1, <2>2 DEF T
<1> QED
  BY <1>4, <1>5, <1>6, <1>7

(* The recursion of the fold has a solution, and at the detectors of the   *)
(* stage no other.                                                         *)
LEMMA EvaluateIsChain ==
  ASSUME NEW rules, NEW req, NEW used, Covers(rules, req)
  PROVE  Evaluate(rules, req, used) = Chain(rules, req, AtStage(rules, req.stage), used)
<1> DEFINE all == AtStage(rules, req.stage)
           Body(f, ds) == IF ds = {} THEN Unspent(used)
                          ELSE Turn(rules, req, LastTried(ds), f[ds \ {LastTried(ds)}])
           Solves(f) == f = [ds \in SUBSET all |-> Body(f, ds)]
           g == [ds \in SUBSET all |-> Chain(rules, req, ds, used)]
<1>1. all \in SUBSET Four(rules)
  BY DEF AtStage, Detectors, Four
<1>2. Chain(rules, req, {}, used) = Unspent(used)
  BY DEF Chain, Three, If
<1>3. Solves(g)
  <2>1. ASSUME NEW ds \in SUBSET all PROVE g[ds] = Body(g, ds)
    <3>1. CASE ds = {}
      BY <1>2, <3>1
    <3>2. CASE ds # {}
      BY <1>1, <3>2, ChainEndsWithLast
    <3> QED
      BY <3>1, <3>2
  <2> HIDE DEF Body, all
  <2> QED
    BY <2>1
<1>4. Evaluate(rules, req, used) = (CHOOSE f : Solves(f))[all]
  BY DEF Evaluate, MapThenFoldSet
<1> HIDE DEF g, Solves
<1>5. PICK f : Solves(f) /\ Evaluate(rules, req, used) = f[all]
  BY <1>3, <1>4
<1> USE DEF Solves
<1>6. f[{}] = Unspent(used)
  BY <1>5
<1>7. ASSUME NEW ds \in SUBSET all, NEW d \in all,
             \A e \in ds : d.priority < e.priority
      PROVE  f[ds \cup {d}] = Turn(rules, req, d, f[ds])
  <2>1. d \notin ds /\ (ds \cup {d}) \ {d} = ds
    <3>1. d.priority \in Nat
      BY <1>1, FourDiffer
    <3> QED
      BY <1>7, <3>1
  <2>2. LastTried(ds \cup {d}) = d
    <3>1. \A e \in ds \cup {d} : d.priority <= e.priority
      BY <1>1, <1>7, FourDiffer
    <3> QED
      BY <1>1, <3>1, LastIsLast
  <2> QED
    BY <1>5, <2>1, <2>2
<1> HIDE DEF all, Solves, Body
<1> DEFINE D == DatabaseDetector(rules)
           S == SecretDetector(rules)
           I == InjectionDetector(rules)
           B == BudgetDetector(rules)
           d1 == all \cap {D}
           d2 == all \cap {D, S}
           d3 == all \cap {D, S, I}
<1>8. /\ D.priority = 95 /\ S.priority = 90 /\ I.priority = 85 /\ B.priority = 10
      /\ all = all \cap {D, S, I, B}
  BY <1>1, FourDiffer DEF Four
<1> HIDE DEF D, S, I, B
<1>9. f[d1] = If(rules, req, all, D, f[{}])
  <2>1. CASE D \in all
    BY <1>7, <2>1, d1 = {} \cup {D} DEF If
  <2>2. CASE D \notin all
    BY <2>2, d1 = {} DEF If
  <2> QED
    BY <2>1, <2>2
<1>10. f[d2] = If(rules, req, all, S, f[d1])
  <2>1. CASE S \in all
    BY <1>7, <1>8, <2>1, d2 = d1 \cup {S} DEF If
  <2>2. CASE S \notin all
    BY <2>2, d2 = d1 DEF If
  <2> QED
    BY <2>1, <2>2
<1>11. f[d3] = If(rules, req, all, I, f[d2])
  <2>1. CASE I \in all
    BY <1>7, <1>8, <2>1, d3 = d2 \cup {I} DEF If
  <2>2. CASE I \notin all
    BY <2>2, d3 = d2 DEF If
  <2> QED
    BY <2>1, <2>2
<1>12. f[all] = If(rules, req, all, B, f[d3])
  <2>1. CASE B \in all
    BY <1>7, <1>8, <2>1, all = d3 \cup {B} DEF If
  <2>2. CASE B \notin all
    BY <1>8, <2>2, all = d3 DEF If
  <2> QED
    BY <2>1, <2>2
<1> QED
  BY <1>5, <1>6, <1>9, <1>10, <1>11, <1>12 DEF Chain, Three, all, D, S, I, B

(* A detector is silent, warns or denies.                                  *)
LEMMA Said ==
  ASSUME NEW rules, NEW req, NEW used, NEW d \in Four(rules)
  PROVE  \/ Inspect(rules, d, req, used) = Silent
         \/ Inspect(rules, d, req, used).action \in {"warn", "deny"}
<1>1. \A block, detector, severity : Verdict(block, detector, severity).action \in {"warn", "deny"}
  BY DEF Verdict, Action
<1>2. \A detector, hits, threshold :
        \/ FirstMatch(rules, detector, hits, threshold) = Silent
        \/ FirstMatch(rules, detector, hits, threshold).action \in {"warn", "deny"}
  BY <1>1 DEF FirstMatch
<1>3. CASE d = DatabaseDetector(rules)
  <2>1. Inspect(rules, d, req, used) = DatabaseInspect(rules, req)
    BY <1>3 DEF Inspect, DatabaseDetector
  <2> QED
    BY <1>2, <2>1 DEF DatabaseInspect
<1>4. CASE d = SecretDetector(rules)
  <2>1. Inspect(rules, d, req, used) = SecretInspect(rules, req)
    BY <1>4 DEF Inspect, SecretDetector
  <2> QED
    BY <1>1, <2>1 DEF SecretInspect
<1>5. CASE d = InjectionDetector(rules)
  <2>1. Inspect(rules, d, req, used) = InjectionInspect(rules, req)
    BY <1>5 DEF Inspect, InjectionDetector
  <2>2. \E hits, threshold :
          InjectionInspect(rules, req) = FirstMatch(rules, "prompt_injection", hits, threshold)
    <3> DEFINE Found(p) == p.sign \in req.content
               hits == SelectSeq(InjectionPatterns \o
                                   (IF rules.extra THEN <<OrgInjection>> ELSE <<>>), Found)
               threshold == IF rules.threshold = "" THEN "high" ELSE rules.threshold
    <3>1. InjectionInspect(rules, req) = FirstMatch(rules, "prompt_injection", hits, threshold)
      BY DEF InjectionInspect
    <3> HIDE DEF hits, threshold
    <3> QED
      BY <3>1
  <2> QED
    BY <1>2, <2>1, <2>2
<1>6. CASE d = BudgetDetector(rules)
  <2>1. Inspect(rules, d, req, used) = BudgetInspect(rules, req, used)
    BY <1>6 DEF Inspect, BudgetDetector
  <2> QED
    BY <1>1, <2>1 DEF BudgetInspect
<1> QED
  BY <1>3, <1>4, <1>5, <1>6 DEF Four

(* An unknown severity weighs nothing.                                     *)
LEMMA Ranks == RankOf("") = 0 /\ \A s : RankOf(s) \in 0..4
<1>1. /\ DOMAIN SeverityRank = {"low", "medium", "high", "critical"}
      /\ SeverityRank["low"] = 1 /\ SeverityRank["medium"] = 2
      /\ SeverityRank["high"] = 3 /\ SeverityRank["critical"] = 4
  BY DEF SeverityRank
<1> QED
  BY <1>1 DEF RankOf

(* What the turns so far, those of ds, have come to.                       *)
Weighs(rules, req, used, ds, acc) ==
  /\ acc.verdict.action \in {"allow", "warn", "deny"}
  /\ acc.verdict.action = "deny" <=> \E d \in ds : Inspect(rules, d, req, used).action = "deny"
  /\ acc.verdict.action # "deny" =>
       \A d \in ds : AtLeast(acc.verdict.severity, Inspect(rules, d, req, used).severity)

(* One more turn keeps the strongest verdict, and charges at the budget.   *)
LEMMA TurnWeighs ==
  ASSUME NEW rules, NEW req, NEW used, NEW ds, NEW d \in Four(rules), NEW acc,
         acc.used = used, Weighs(rules, req, used, ds, acc)
  PROVE  LET turn == Turn(rules, req, d, acc)
         IN  /\ Weighs(rules, req, used, ds \cup {d}, turn)
             /\ turn.used = IF d.name = "token_budget" /\ acc.verdict.action # "deny"
                            THEN Charge(used, req) ELSE used
<1> DEFINE v == Inspect(rules, d, req, used)
           turn == Turn(rules, req, d, acc)
<1>1. CASE acc.verdict.action = "deny"
  <2>1. turn = acc
    BY <1>1 DEF Turn
  <2> QED
    BY <1>1, <2>1 DEF Weighs
<1>2. CASE acc.verdict.action # "deny"
  <2>1. /\ turn.used = IF d.name = "token_budget" THEN Charge(used, req) ELSE used
        /\ turn.verdict = IF \/ v.action = "deny"
                             \/ v.action = "warn" /\ AtLeast(v.severity, acc.verdict.severity)
                          THEN v ELSE acc.verdict
    BY <1>2 DEF Turn
  <2>2. v = Silent \/ v.action \in {"warn", "deny"}
    BY Said
  <2> HIDE DEF v, turn
  <2>3. /\ acc.verdict.action \in {"allow", "warn"}
        /\ ~ \E e \in ds : Inspect(rules, e, req, used).action = "deny"
        /\ \A e \in ds : AtLeast(acc.verdict.severity, Inspect(rules, e, req, used).severity)
    BY <1>2 DEF Weighs
  <2>4. CASE v.action = "deny"
    <3>1. turn.verdict = v
      BY <2>1, <2>4
    <3> QED
      BY <1>2, <2>1, <2>4, <3>1 DEF Weighs, v, turn
  <2>5. CASE v.action = "warn" /\ AtLeast(v.severity, acc.verdict.severity)
    <3>1. turn.verdict = v
      BY <2>1, <2>5
    <3>2. AtLeast(v.severity, v.severity)
      <4>1. RankOf(v.severity) \in 0..4
        BY Ranks
      <4> QED
        BY <4>1 DEF AtLeast
    <3>3. \A e \in ds : AtLeast(v.severity, Inspect(rules, e, req, used).severity)
      <4> TAKE e \in ds
      <4> DEFINE low == Inspect(rules, e, req, used).severity
      <4>1. AtLeast(acc.verdict.severity, low)
        BY <2>3
      <4> HIDE DEF low
      <4>2. /\ RankOf(low) \in 0..4 /\ RankOf(v.severity) \in 0..4
            /\ RankOf(acc.verdict.severity) \in 0..4
        BY Ranks
      <4>3. AtLeast(v.severity, low)
        BY <2>5, <4>1, <4>2 DEF AtLeast
      <4> QED
        BY <4>3 DEF low
    <3>4. ~ \E e \in ds \cup {d} : Inspect(rules, e, req, used).action = "deny"
      BY <2>3, <2>5 DEF v
    <3>5. \A e \in ds \cup {d} : AtLeast(v.severity, Inspect(rules, e, req, used).severity)
      BY <3>2, <3>3 DEF v
    <3>6. turn.verdict.action = "warn"
      BY <2>5, <3>1
    <3> QED
      BY <1>2, <2>1, <3>1, <3>4, <3>5, <3>6 DEF Weighs, turn
  <2>6. CASE v.action # "deny" /\ ~(v.action = "warn" /\ AtLeast(v.severity, acc.verdict.severity))
    <3>1. turn.verdict = acc.verdict
      BY <2>1, <2>6
    <3>2. AtLeast(acc.verdict.severity, v.severity)
      <4>1. RankOf(v.severity) \in 0..4 /\ RankOf(acc.verdict.severity) \in 0..4
        BY Ranks
      <4>2. CASE v = Silent
        <5>1. RankOf(v.severity) = 0
          BY <4>2, Ranks DEF Silent
        <5> QED
          BY <4>1, <5>1 DEF AtLeast
      <4>3. CASE v.action = "warn"
        BY <2>6, <4>1, <4>3 DEF AtLeast
      <4> QED
        BY <2>2, <2>6, <4>2, <4>3
    <3>3. ~ \E e \in ds \cup {d} : Inspect(rules, e, req, used).action = "deny"
      BY <2>3, <2>6 DEF v
    <3>4. \A e \in ds \cup {d} : AtLeast(acc.verdict.severity, Inspect(rules, e, req, used).severity)
      BY <2>3, <3>2 DEF v
    <3> QED
      BY <1>2, <2>1, <2>3, <3>1, <3>3, <3>4 DEF Weighs, turn
  <2> QED
    BY <2>4, <2>5, <2>6
<1> QED
  BY <1>1, <1>2

(* The chain weighs all its detectors, and charges if no other denies.     *)
LEMMA ChainWeighs ==
  ASSUME NEW rules, NEW req, NEW used, NEW ds \in SUBSET Four(rules)
  PROVE  LET chain == Chain(rules, req, ds, used)
             others == ds \ {BudgetDetector(rules)}
         IN  /\ Weighs(rules, req, used, ds, chain)
             /\ chain.used = IF /\ BudgetDetector(rules) \in ds
                                /\ \A d \in others : Inspect(rules, d, req, used).action # "deny"
                             THEN Charge(used, req) ELSE used
<1> DEFINE D == DatabaseDetector(rules)
           S == SecretDetector(rules)
           I == InjectionDetector(rules)
           B == BudgetDetector(rules)
           a1 == If(rules, req, ds, D, Unspent(used))
           a2 == If(rules, req, ds, S, a1)
           a3 == If(rules, req, ds, I, a2)
           a4 == If(rules, req, ds, B, a3)
<1>1. /\ D.name # "token_budget" /\ S.name # "token_budget" /\ I.name # "token_budget"
      /\ B.name = "token_budget"
      /\ D \in Four(rules) /\ S \in Four(rules) /\ I \in Four(rules) /\ B \in Four(rules)
      /\ ds = ds \cap {D, S, I, B}
  BY DEF Four, DatabaseDetector, SecretDetector, InjectionDetector, BudgetDetector
<1>2. ASSUME NEW X, NEW acc, acc.used = used, Weighs(rules, req, used, X, acc),
             NEW d \in Four(rules), d.name # "token_budget"
      PROVE  /\ If(rules, req, ds, d, acc).used = used
             /\ Weighs(rules, req, used, X \cup (ds \cap {d}), If(rules, req, ds, d, acc))
  <2>1. CASE d \in ds
    <3>1. ds \cap {d} = {d} /\ If(rules, req, ds, d, acc) = Turn(rules, req, d, acc)
      BY <2>1 DEF If
    <3>2. /\ Weighs(rules, req, used, X \cup {d}, Turn(rules, req, d, acc))
          /\ Turn(rules, req, d, acc).used
               = IF d.name = "token_budget" /\ acc.verdict.action # "deny"
                 THEN Charge(used, req) ELSE used
      BY <1>2, TurnWeighs
    <3> QED
      BY <1>2, <3>1, <3>2
  <2>2. CASE d \notin ds
    <3>1. X \cup (ds \cap {d}) = X
      BY <2>2
    <3> QED
      BY <1>2, <2>2, <3>1 DEF If
  <2> QED
    BY <2>1, <2>2
<1>3. Unspent(used).used = used /\ Weighs(rules, req, used, {}, Unspent(used))
  BY DEF Unspent, Weighs, Silent
<1> HIDE DEF D, S, I, B
<1>4. a1.used = used /\ Weighs(rules, req, used, {} \cup (ds \cap {D}), a1)
  BY <1>1, <1>2, <1>3
<1> HIDE DEF a1
<1>5. a2.used = used /\ Weighs(rules, req, used, {} \cup (ds \cap {D}) \cup (ds \cap {S}), a2)
  BY <1>1, <1>2, <1>4
<1> HIDE DEF a2
<1>6. /\ a3.used = used
      /\ Weighs(rules, req, used, {} \cup (ds \cap {D}) \cup (ds \cap {S}) \cup (ds \cap {I}), a3)
  BY <1>1, <1>2, <1>5
<1>7. {} \cup (ds \cap {D}) \cup (ds \cap {S}) \cup (ds \cap {I}) = ds \ {B}
  BY <1>1
<1> HIDE DEF a3
<1>8. /\ Weighs(rules, req, used, ds, a4)
      /\ a4.used = IF B \in ds /\ a3.verdict.action # "deny" THEN Charge(used, req) ELSE used
  <2>1. CASE B \in ds
    <3>1. (ds \ {B}) \cup {B} = ds
      BY <2>1
    <3>2. a4 = Turn(rules, req, B, a3)
      BY <2>1 DEF If
    <3> QED
      BY <1>1, <1>6, <1>7, <2>1, <3>1, <3>2, TurnWeighs
  <2>2. CASE B \notin ds
    <3>1. ds \ {B} = ds /\ a4 = a3
      BY <2>2 DEF If
    <3> QED
      BY <1>6, <1>7, <2>2, <3>1
  <2> QED
    BY <2>1, <2>2
<1>9. a3.verdict.action # "deny" <=> \A d \in ds \ {B} : Inspect(rules, d, req, used).action # "deny"
  BY <1>6, <1>7 DEF Weighs
<1>10. a4 = Chain(rules, req, ds, used)
  BY DEF Chain, Three, a1, a2, a3, D, S, I, B
<1> HIDE DEF a4
<1> QED
  BY <1>8, <1>9, <1>10 DEF B

(* A name means one detector.                                              *)
LEMMA FourNamed ==
  ASSUME NEW rules
  PROVE  /\ \A d \in Four(rules) : d.name = "token_budget" <=> d = BudgetDetector(rules)
         /\ \A d, e \in Four(rules) : d.name = e.name => d = e
BY DEF Four, DatabaseDetector, SecretDetector, InjectionDetector, BudgetDetector

(* What a call costs, and what it costs at most if it is let through while *)
(* a ceiling is enforced.                                                  *)
LEMMA EvaluateSpends ==
  ASSUME NEW rules, NEW req, req.tokens \in Int, NEW used \in Nat
  PROVE  LET result == Evaluate(rules, req, used)
         IN  /\ result.used \in Nat /\ result.used >= used
             /\ ( /\ Blocks(Normalize(rules.mode)) /\ rules.max \in Int
                  /\ result.verdict.action # "deny" /\ result.used # used )
                => result.used <= rules.max
<1> DEFINE result == Evaluate(rules, req, used)
           ds == AtStage(rules, req.stage)
           B == BudgetDetector(rules)
<1>1. CASE ~Covers(rules, req)
  BY <1>1 DEF Evaluate, Unspent
<1>2. CASE Covers(rules, req)
  <2>1. ds \in SUBSET Four(rules)
    BY DEF AtStage, Detectors, Four
  <2>2. result = Chain(rules, req, ds, used)
    BY <1>2, EvaluateIsChain
  <2>3. /\ Weighs(rules, req, used, ds, result)
        /\ \/ result.used = used
           \/ B \in ds /\ result.used = Charge(used, req)
    BY <2>1, <2>2, ChainWeighs
  <2> HIDE DEF result, ds
  <2>4. Charge(used, req) \in Nat /\ Charge(used, req) >= used
    BY DEF Charge
  <2>5. ASSUME Blocks(Normalize(rules.mode)), rules.max \in Int,
               result.verdict.action # "deny", result.used # used
        PROVE  result.used <= rules.max
    <3>1. B \in ds /\ result.used = Charge(used, req)
      BY <2>3, <2>5
    <3>2. Inspect(rules, B, req, used).action # "deny"
      BY <2>3, <2>5, <3>1 DEF Weighs
    <3>3. Inspect(rules, B, req, used) = BudgetInspect(rules, req, used)
      BY DEF Inspect, BudgetDetector
    <3>4. req.tokens > 0
      BY <2>5, <3>1 DEF Charge
    <3>5. ~OverBudget(rules, Charge(used, req))
      BY <2>5, <3>2, <3>3, <3>4 DEF BudgetInspect, Verdict, Action
    <3> QED
      BY <2>4, <2>5, <3>1, <3>5 DEF OverBudget
  <2> QED
    BY <2>3, <2>4, <2>5 DEF result
<1> QED
  BY <1>1, <1>2

-----------------------------------------------------------------------------
(***************************************************************************)
(* The budget.  A check works on the engine it loaded, which may have been *)
(* replaced: its charge then goes to a ledger nobody asks about.  What it  *)
(* does to the engine in force it does with that engine's own rules, and a *)
(* new engine's ledger is empty because no check has loaded it.            *)
(***************************************************************************)
Ceiling(e) ==
  /\ e.version \in 1..Versions
  /\ Blocks(Normalize(Rules[e.version].mode)) /\ Rules[e.version].max > 0

BudgetInv ==
  /\ LocalTypeOK
  /\ engine = NoEngine \/ engine.build # None
  /\ \A w \in Worker : check[w] = NoEngine \/
       /\ check[w].build # None /\ check[w].build <= engine.build
       /\ check[w].build = engine.build => check[w] = engine
  /\ \A b \in Build : passed[b] <= ledger[b] /\ (b > engine.build => ledger[b] = 0)
  /\ engine # NoEngine /\ Ceiling(engine) => passed[engine.build] <= Rules[engine.version].max

(* No engine, nothing charged.                                             *)
LEMMA InitBudget == LocalInit => BudgetInv
<1> SUFFICES ASSUME LocalInit PROVE BudgetInv
  OBVIOUS
<1>1. LocalTypeOK
  <2>1. None \in Version /\ NoEngine \in [version : Version, build : Build \cup {None}]
    BY LocalAssumption DEF NoEngine, None, Version
  <2>2. stamp \in [version : Version, applied : BOOLEAN, error : BOOLEAN]
    BY <2>1 DEF LocalInit
  <2>3. ledger \in [Build -> Nat] /\ passed \in [Build -> Nat]
    BY DEF LocalInit
  <2>4. check \in [Worker -> [version : Version, build : Build \cup {None}]]
    BY <2>1 DEF LocalInit
  <2>5. /\ hash \in [Syncer -> Version] /\ got \in [Syncer -> Version]
        /\ rep \in [Syncer -> Version] /\ waits \in [Host -> Syncer \cup {None}]
    BY <2>1 DEF LocalInit
  <2> QED
    BY <2>1, <2>2, <2>3, <2>4, <2>5 DEF LocalInit, LocalTypeOK
<1> QED
  BY <1>1, LocalAssumption DEF LocalInit, BudgetInv, Ceiling, NoEngine, None, Build

(* A step that leaves the engine, the ledgers and the checks alone.        *)
LEMMA BudgetKept ==
  ASSUME BudgetInv, LocalTypeOK', UNCHANGED <<engine, ledger, passed, check>>
  PROVE  BudgetInv'
BY DEF BudgetInv

(* A new engine: nothing was charged to it, and no check has loaded it.    *)
LEMMA InstallBudget ==
  ASSUME BudgetInv, LocalTypeOK', NEW v \in Version, Install(v), engine.build < MaxBuilds,
         UNCHANGED <<ledger, passed, check>>
  PROVE  BudgetInv'
<1>1. engine' = [version |-> v, build |-> engine.build + 1] /\ engine.build \in Nat
  BY LocalAssumption DEF Install, BudgetInv, LocalTypeOK, Build, None
<1>2. engine'.build \in Build /\ engine'.build > engine.build /\ engine'.version = v
  BY <1>1, LocalAssumption DEF Build
<1>3. ledger[engine'.build] = 0 /\ passed[engine'.build] = 0
  <2>1. ledger[engine'.build] = 0 /\ passed[engine'.build] <= ledger[engine'.build]
    BY <1>2 DEF BudgetInv
  <2>2. passed[engine'.build] \in Nat
    BY <1>2 DEF BudgetInv, LocalTypeOK
  <2> QED
    BY <2>1, <2>2
<1>4. \A w \in Worker : check'[w] = NoEngine \/
        /\ check'[w].build # None /\ check'[w].build <= engine'.build
        /\ check'[w].build = engine'.build => check'[w] = engine'
  <2> TAKE w \in Worker
  <2>1. check[w].build \in Nat
    BY LocalAssumption DEF BudgetInv, LocalTypeOK, Build, None
  <2>2. check[w] = NoEngine \/ (check[w].build # None /\ check[w].build <= engine.build)
    BY DEF BudgetInv
  <2> QED
    BY <1>1, <1>2, <2>1, <2>2
<1>5. \A b \in Build : passed'[b] <= ledger'[b] /\ (b > engine'.build => ledger'[b] = 0)
  <2> TAKE b \in Build
  <2>1. b > engine'.build => b > engine.build
    BY <1>1, <1>2, LocalAssumption DEF Build
  <2> QED
    BY <2>1 DEF BudgetInv
<1>6. Ceiling(engine') => passed'[engine'.build] <= Rules[engine'.version].max
  <2> SUFFICES ASSUME Ceiling(engine') PROVE 0 <= Rules[engine'.version].max
    BY <1>3
  <2>1. Rules[engine'.version].max \in Int /\ Rules[engine'.version].max > 0
    BY LocalAssumption DEF Ceiling
  <2> QED
    BY <2>1
<1>7. engine'.build # None
  BY <1>1 DEF None
<1> QED
  BY <1>4, <1>5, <1>6, <1>7 DEF BudgetInv, Ceiling

(* A check loads the engine in force.                                      *)
LEMMA LoadBudget ==
  ASSUME BudgetInv, LocalTypeOK', NEW w \in Worker, CheckLoads(w)
  PROVE  BudgetInv'
<1>1. /\ engine # NoEngine /\ check' = [check EXCEPT ![w] = engine]
      /\ UNCHANGED <<engine, ledger, passed>>
  BY DEF CheckLoads
<1>2. engine.build # None /\ engine.build <= engine.build
  BY <1>1, LocalAssumption DEF BudgetInv, LocalTypeOK, Build, None
<1>3. \A x \in Worker : check'[x] = IF x = w THEN engine ELSE check[x]
  BY <1>1 DEF BudgetInv, LocalTypeOK
<1> QED
  BY <1>1, <1>2, <1>3 DEF BudgetInv

(* A charge: to the engine in force it is one that engine's ceiling let    *)
(* through, to another it does not matter.                                 *)
LEMMA ChargeBudget ==
  ASSUME BudgetInv, LocalTypeOK', NEW w \in Worker, NEW req \in Request,
         CheckEvaluates(w, req)
  PROVE  BudgetInv'
<1> DEFINE b == check[w].build
           result == Result(w, req)
           rules == Rules[check[w].version]
<1>1. /\ check[w] # NoEngine /\ check' = [check EXCEPT ![w] = NoEngine]
      /\ ledger' = [ledger EXCEPT ![b] = result.used]
      /\ passed' = IF result.verdict.action = "deny" THEN passed
                   ELSE [passed EXCEPT ![b] = @ + (result.used - ledger[b])]
      /\ UNCHANGED engine
  BY DEF CheckEvaluates
<1>2. b \in Build /\ b <= engine.build /\ (b = engine.build => check[w] = engine)
  BY <1>1 DEF BudgetInv, LocalTypeOK
<1>3. ledger[b] \in Nat /\ passed[b] \in Nat /\ passed[b] <= ledger[b]
  BY <1>2 DEF BudgetInv, LocalTypeOK
<1>4. /\ result.used \in Nat /\ result.used >= ledger[b]
      /\ ( /\ Blocks(Normalize(rules.mode)) /\ rules.max \in Int
           /\ result.verdict.action # "deny" /\ result.used # ledger[b] )
         => result.used <= rules.max
  BY <1>3, EvaluateSpends, LocalAssumption DEF Result
<1> HIDE DEF result, b, rules
<1>5. \A c \in Build : /\ ledger'[c] = IF c = b THEN result.used ELSE ledger[c]
                       /\ c # b => passed'[c] = passed[c]
                       /\ c = b => \/ passed'[c] = passed[c]
                                   \/ /\ result.verdict.action # "deny"
                                      /\ passed'[c] = passed[c] + (result.used - ledger[b])
  BY <1>1 DEF BudgetInv, LocalTypeOK
<1>6. \A x \in Worker : check'[x] = NoEngine \/
        /\ check'[x].build # None /\ check'[x].build <= engine'.build
        /\ check'[x].build = engine'.build => check'[x] = engine'
  <2>1. \A x \in Worker : check'[x] = IF x = w THEN NoEngine ELSE check[x]
    BY <1>1 DEF BudgetInv, LocalTypeOK
  <2> QED
    BY <1>1, <2>1 DEF BudgetInv
<1>7. \A c \in Build : passed'[c] <= ledger'[c] /\ (c > engine'.build => ledger'[c] = 0)
  <2> TAKE c \in Build
  <2>1. CASE c = b
    <3>1. ~(c > engine.build)
      <4>1. engine.build \in Nat /\ b \in Nat
        BY <1>2, LocalAssumption DEF BudgetInv, LocalTypeOK, Build, None
      <4> QED
        BY <1>2, <2>1, <4>1
    <3>2. passed'[c] <= result.used
      BY <1>3, <1>4, <1>5, <2>1
    <3> QED
      BY <1>1, <1>5, <2>1, <3>1, <3>2
  <2>2. CASE c # b
    BY <1>1, <1>5, <2>2 DEF BudgetInv
  <2> QED
    BY <2>1, <2>2
<1>8. ASSUME engine' # NoEngine, Ceiling(engine')
      PROVE  passed'[engine'.build] <= Rules[engine'.version].max
  <2>1. engine.build \in Build /\ passed[engine.build] <= Rules[engine.version].max
    BY <1>1, <1>8 DEF BudgetInv, LocalTypeOK
  <2>2. CASE passed'[engine.build] = passed[engine.build]
    BY <1>1, <2>1, <2>2
  <2>3. CASE passed'[engine.build] # passed[engine.build]
    <3>1. /\ engine.build = b /\ result.verdict.action # "deny"
          /\ passed'[b] = passed[b] + (result.used - ledger[b])
      BY <1>5, <2>1, <2>3
    <3>2. rules = Rules[engine.version]
      BY <1>2, <3>1 DEF rules, b
    <3>3. Blocks(Normalize(rules.mode)) /\ rules.max \in Int
      BY <1>1, <1>8, <3>2, LocalAssumption DEF Ceiling
    <3>4. result.used # ledger[b]
      BY <1>3, <2>3, <3>1
    <3>5. result.used <= rules.max
      BY <1>4, <3>1, <3>3, <3>4
    <3>6. passed'[b] <= result.used
      BY <1>3, <1>4, <3>1
    <3>7. passed'[b] \in Nat
      BY <1>3, <1>4, <3>1
    <3>8. passed'[b] <= rules.max
      BY <1>4, <3>3, <3>5, <3>6, <3>7
    <3> QED
      BY <1>1, <3>1, <3>2, <3>8
  <2> QED
    BY <2>2, <2>3
<1>9. engine' = NoEngine \/ engine'.build # None
  BY <1>1 DEF BudgetInv
<1> QED
  BY <1>6, <1>7, <1>8, <1>9 DEF BudgetInv

(* Every step keeps the types; those of the ledgers need that a check      *)
(* never spends less than it found.                                        *)
LEMMA LoopTypes ==
  ASSUME LocalTypeOK, NEW s \in Syncer, LoopStep(s) \/ Ticks(s)
  PROVE  LocalTypeOK'
<1> DEFINE At == {"none", "tick", "store", "stamp", "clear", "report", "send", "wait", "gone"}
<1>1. /\ UNCHANGED <<published, syncer, told, waits, ledger, passed, check, overlapped>>
      /\ \E at \in At : loop' = [loop EXCEPT ![s] = at]
  BY DEF LoopStep, Ticks, PollAnswers, PollFails, Apply, Refuses, StampVersion, ClearError,
         ReportReads, ReportSends, LoopEnds, Goto
<1>2. loop' \in [Syncer -> At]
  BY <1>1 DEF LocalTypeOK
<1>3. None \in Version /\ published \in Version
  BY LocalAssumption DEF None, Version, LocalTypeOK
<1>4. hash' \in [Syncer -> Version] /\ got' \in [Syncer -> Version]
  BY <1>3 DEF LoopStep, Ticks, PollAnswers, PollFails, Apply, Refuses, StampVersion,
              ClearError, ReportReads, ReportSends, LoopEnds, Seen, LocalTypeOK
<1>5. stamp' \in [version : Version, applied : BOOLEAN, error : BOOLEAN]
  BY DEF LoopStep, Ticks, PollAnswers, PollFails, Apply, Refuses, StampVersion,
         ClearError, ErrorAfterApply, ReportReads, ReportSends, LoopEnds, LocalTypeOK
<1>6. rep' \in [Syncer -> Version]
  BY <1>3, <1>5 DEF LoopStep, Ticks, PollAnswers, PollFails, Apply, Refuses, StampVersion,
              ClearError, ReportReads, ReportSends, LoopEnds, LocalTypeOK
<1>7. engine' \in [version : Version, build : Build \cup {None}]
  <2>1. CASE UNCHANGED engine
    BY <2>1 DEF LocalTypeOK
  <2>2. CASE engine' # engine
    <3>1. engine.build < MaxBuilds /\ Install(got[s])
      BY <2>2 DEF LoopStep, Ticks, PollAnswers, PollFails, Apply, Refuses, StampVersion,
                  ClearError, ReportReads, ReportSends, LoopEnds
    <3>2. engine.build + 1 \in Build /\ got[s] \in Version
      BY <3>1, LocalAssumption DEF LocalTypeOK, Build, None
    <3> QED
      BY <3>1, <3>2 DEF Install
  <2> QED
    BY <2>1, <2>2
<1> QED
  BY <1>1, <1>2, <1>4, <1>5, <1>6, <1>7 DEF LocalTypeOK

(* Types, step by step.                                                    *)
LEMMA NextTypes ==
  ASSUME BudgetInv, [LocalNext]_localVars
  PROVE  LocalTypeOK'
<1>0. LocalTypeOK
  BY DEF BudgetInv
<1>1. CASE UNCHANGED localVars
  BY <1>0, <1>1 DEF localVars, syncVars, LocalTypeOK
<1>2. CASE Publish
  <2>1. published' \in Version
    BY <1>0, <1>2, LocalAssumption DEF Publish, LocalTypeOK, Version
  <2> QED
    BY <1>0, <1>2, <2>1 DEF Publish, syncVars, LocalTypeOK
<1>3. ASSUME NEW v \in HostSets, SetLocalControls(v) PROVE LocalTypeOK'
  <2>1. engine' \in [version : Version, build : Build \cup {None}]
    <3>1. 1 \in Build /\ v \in Version /\ engine = NoEngine
      BY <1>3, LocalAssumption DEF Build, Version, SetLocalControls
    <3> QED
      BY <1>0, <1>3, <3>1 DEF SetLocalControls, Install, NoEngine, None, LocalTypeOK
  <2>2. overlapped' \in BOOLEAN
    BY <1>0, <1>3 DEF SetLocalControls, LocalTypeOK
  <2> QED
    BY <1>0, <1>3, <2>1, <2>2 DEF SetLocalControls, syncVars, LocalTypeOK
<1>4. ASSUME NEW s \in Syncer, SyncLocalControls(s) PROVE LocalTypeOK'
  <2>1. overlapped' \in BOOLEAN
    BY <1>0, <1>4 DEF SyncLocalControls, LocalTypeOK
  <2> QED
    BY <1>0, <1>4, <2>1 DEF SyncLocalControls, LocalTypeOK
<1>5. ASSUME NEW s \in Syncer, LoopStep(s) \/ Ticks(s) PROVE LocalTypeOK'
  BY <1>0, <1>5, LoopTypes
<1>6. ASSUME NEW h \in Host, StopLocalControlSync(h) \/ StopReturns(h) PROVE LocalTypeOK'
  BY <1>0, <1>6 DEF StopLocalControlSync, MayStop, StopReturns, LocalTypeOK
<1>7. ASSUME NEW w \in Worker, CheckLoads(w) PROVE LocalTypeOK'
  BY <1>0, <1>7 DEF CheckLoads, syncVars, LocalTypeOK
<1>8. ASSUME NEW w \in Worker, NEW req \in Request, CheckEvaluates(w, req)
      PROVE  LocalTypeOK'
  <2> DEFINE b == check[w].build
             result == Result(w, req)
  <2>1. /\ check[w] # NoEngine /\ check' = [check EXCEPT ![w] = NoEngine]
        /\ ledger' = [ledger EXCEPT ![b] = result.used]
        /\ passed' = IF result.verdict.action = "deny" THEN passed
                     ELSE [passed EXCEPT ![b] = @ + (result.used - ledger[b])]
        /\ UNCHANGED <<published, engine, syncVars, stamp, overlapped>>
    BY <1>8 DEF CheckEvaluates
  <2>2. b \in Build
    BY <1>0, <2>1 DEF BudgetInv, LocalTypeOK
  <2>3. ledger[b] \in Nat /\ passed[b] \in Nat
    BY <1>0, <2>2 DEF LocalTypeOK
  <2>4. result.used \in Nat /\ result.used >= ledger[b]
    BY <2>3, EvaluateSpends, LocalAssumption DEF Result
  <2> HIDE DEF result, b
  <2>5. passed[b] + (result.used - ledger[b]) \in Nat
    BY <2>3, <2>4
  <2>6. ledger' \in [Build -> Nat] /\ passed' \in [Build -> Nat]
    BY <1>0, <2>1, <2>4, <2>5 DEF LocalTypeOK
  <2>7. NoEngine \in [version : Version, build : Build \cup {None}]
    BY LocalAssumption DEF NoEngine, None, Version
  <2> QED
    BY <1>0, <2>1, <2>6, <2>7 DEF syncVars, LocalTypeOK
<1> QED
  BY <1>1, <1>2, <1>3, <1>4, <1>5, <1>6, <1>7, <1>8 DEF LocalNext

(* Every step of the layer keeps the books.                                *)
LEMMA NextBudget == BudgetInv /\ [LocalNext]_localVars => BudgetInv'
<1> SUFFICES ASSUME BudgetInv, [LocalNext]_localVars PROVE BudgetInv'
  OBVIOUS
<1>0. LocalTypeOK' /\ LocalTypeOK
  BY NextTypes DEF BudgetInv
<1>1. CASE UNCHANGED localVars
  BY <1>0, <1>1, BudgetKept DEF localVars
<1>2. CASE Publish
  BY <1>0, <1>2, BudgetKept DEF Publish
<1>3. ASSUME NEW v \in HostSets, SetLocalControls(v) PROVE BudgetInv'
  <2>1. CASE Compiles(Rules[v])
    <3>1. engine.build < MaxBuilds /\ v \in Version /\ Install(v)
      BY <1>3, <2>1, LocalAssumption DEF SetLocalControls, NoEngine, None, Version
    <3> QED
      BY <1>0, <1>3, <3>1, InstallBudget DEF SetLocalControls
  <2>2. CASE ~Compiles(Rules[v])
    BY <1>0, <1>3, <2>2, BudgetKept DEF SetLocalControls
  <2> QED
    BY <2>1, <2>2
<1>4. ASSUME NEW s \in Syncer, SyncLocalControls(s) PROVE BudgetInv'
  BY <1>0, <1>4, BudgetKept DEF SyncLocalControls
<1>5. ASSUME NEW s \in Syncer, Apply(s) PROVE BudgetInv'
  <2>1. CASE Acceptable(got[s])
    <3>1. engine.build < MaxBuilds /\ got[s] \in Version /\ Install(got[s])
      BY <1>0, <1>5, <2>1 DEF Apply, LocalTypeOK
    <3> QED
      BY <1>0, <1>5, <3>1, InstallBudget DEF Apply
  <2>2. CASE ~Acceptable(got[s])
    BY <1>0, <1>5, <2>2, BudgetKept DEF Apply, Refuses
  <2> QED
    BY <2>1, <2>2
<1>6. ASSUME NEW s \in Syncer, LoopStep(s) \/ Ticks(s), ~Apply(s) PROVE BudgetInv'
  BY <1>0, <1>6, BudgetKept
     DEF LoopStep, Ticks, PollAnswers, PollFails, StampVersion, ClearError, ReportReads,
         ReportSends, LoopEnds
<1>7. ASSUME NEW h \in Host, StopLocalControlSync(h) \/ StopReturns(h) PROVE BudgetInv'
  BY <1>0, <1>7, BudgetKept DEF StopLocalControlSync, StopReturns
<1>8. ASSUME NEW w \in Worker, CheckLoads(w) PROVE BudgetInv'
  BY <1>0, <1>8, LoadBudget
<1>9. ASSUME NEW w \in Worker, NEW req \in Request, CheckEvaluates(w, req) PROVE BudgetInv'
  BY <1>0, <1>9, ChargeBudget
<1> QED
  BY <1>1, <1>2, <1>3, <1>4, <1>5, <1>6, <1>7, <1>8, <1>9 DEF LocalNext, LoopStep

(* The books are kept in every state.                                      *)
LEMMA BudgetSafe == LocalSpec => []BudgetInv
BY InitBudget, NextBudget, PTL DEF LocalSpec

(* Type correctness of the local-control layer.                            *)
THEOREM LocalTypeCorrect == LocalSpec => []LocalTypeOK
<1>1. BudgetInv => LocalTypeOK
  BY DEF BudgetInv
<1> QED
  BY <1>1, BudgetSafe, PTL

(* The calls an engine in force lets through never spend more than its     *)
(* ceiling, whatever checks still run on the engines before it.            *)
THEOREM BudgetsAreHeld == LocalSpec => []BudgetHeld
<1>1. BudgetInv => BudgetHeld
  <2> SUFFICES ASSUME BudgetInv, NEW b \in 1..engine.build, NEW v \in 1..Versions,
                      engine = [version |-> v, build |-> b],
                      Blocks(Normalize(Rules[v].mode)), Rules[v].max > 0
               PROVE  passed[b] <= Rules[v].max
    BY DEF BudgetHeld
  <2>1. engine.version = v /\ engine.build = b /\ engine # NoEngine
    <3>1. v # None
      BY LocalAssumption DEF None
    <3> QED
      BY <3>1 DEF NoEngine
  <2> QED
    BY <2>1 DEF BudgetInv, Ceiling
<1> QED
  BY <1>1, BudgetSafe, PTL

(* Whatever the rule set, the request and the order of its detectors, a    *)
(* request is denied exactly if some detector denies it, otherwise it      *)
(* carries the severest warning, and only a call nobody else denies is     *)
(* charged.                                                                *)
THEOREM VerdictsAreStrongest == LocalSpec => []VerdictIsStrongest
<1>1. BudgetInv => VerdictIsStrongest
  <2> SUFFICES ASSUME BudgetInv, NEW w \in Worker, NEW req \in Request, check[w] # NoEngine,
                      Covers(Rules[check[w].version], req)
               PROVE  LET rules == Rules[check[w].version]
                          used == ledger[check[w].build]
                          says == {<<d, Inspect(rules, d, req, used)>> :
                                     d \in AtStage(rules, req.stage)}
                          Denying(names) ==
                            \E s \in says : s[2].action = "deny" /\ s[1].name \in names
                          all == {s[1].name : s \in says}
                          result == Result(w, req)
                      IN  /\ result.verdict.action = "deny" <=> Denying(all)
                          /\ result.verdict.action # "deny" =>
                               \A s \in says : AtLeast(result.verdict.severity, s[2].severity)
                          /\ result.used # used <=>
                               /\ req.tokens > 0 /\ "token_budget" \in all
                               /\ ~Denying(all \ {"token_budget"})
    BY DEF VerdictIsStrongest
  <2> DEFINE rules == Rules[check[w].version]
             used == ledger[check[w].build]
             ds == AtStage(rules, req.stage)
             B == BudgetDetector(rules)
             In(d) == Inspect(rules, d, req, used)
             says == {<<d, In(d)>> : d \in ds}
             Denying(names) == \E s \in says : s[2].action = "deny" /\ s[1].name \in names
             all == {s[1].name : s \in says}
             result == Result(w, req)
  <2>1. used \in Nat /\ req.tokens \in Int
    <3>1. check[w].build \in Build
      BY DEF BudgetInv, LocalTypeOK
    <3> QED
      BY <3>1, LocalAssumption DEF BudgetInv, LocalTypeOK
  <2>2. ds \in SUBSET Four(rules)
    BY DEF AtStage, Detectors, Four
  <2>3. result = Chain(rules, req, ds, used)
    BY EvaluateIsChain DEF Result
  <2>4. /\ Weighs(rules, req, used, ds, result)
        /\ result.used = IF B \in ds /\ \A d \in ds \ {B} : In(d).action # "deny"
                         THEN Charge(used, req) ELSE used
    BY <2>2, <2>3, ChainWeighs
  <2> HIDE DEF rules, used, ds, result
  <2>5. /\ result.verdict.action = "deny" <=> \E d \in ds : In(d).action = "deny"
        /\ result.verdict.action # "deny" =>
             \A d \in ds : AtLeast(result.verdict.severity, In(d).severity)
    BY <2>4 DEF Weighs
  <2> HIDE DEF In
  <2>6. /\ \A s \in says : \E d \in ds : s = <<d, In(d)>>
        /\ \A d \in ds : <<d, In(d)>> \in says
    OBVIOUS
  <2>7. \A d : <<d, In(d)>>[1] = d /\ <<d, In(d)>>[2] = In(d)
    OBVIOUS
  <2> HIDE DEF says
  <2>8. ASSUME NEW names
        PROVE  Denying(names) <=> \E d \in ds : In(d).action = "deny" /\ d.name \in names
    <3>1. ASSUME Denying(names)
          PROVE  \E d \in ds : In(d).action = "deny" /\ d.name \in names
      BY <3>1, <2>6, <2>7
    <3>2. ASSUME NEW d \in ds, In(d).action = "deny", d.name \in names
          PROVE  Denying(names)
      BY <3>2, <2>6, <2>7
    <3> QED
      BY <3>1, <3>2
  <2>9. \A name : name \in all <=> \E d \in ds : d.name = name
    <3>1. ASSUME NEW d \in ds PROVE d.name \in all
      BY <2>6, <2>7
    <3>2. ASSUME NEW s \in says PROVE \E d \in ds : d.name = s[1].name
      BY <2>6, <2>7
    <3> QED
      BY <3>1, <3>2
  <2>10. \A s \in says : \E d \in ds : s[2] = In(d)
    BY <2>6, <2>7
  <2> HIDE DEF says, Denying, all
  <2>11. Denying(all) <=> \E d \in ds : In(d).action = "deny"
    BY <2>8, <2>9
  <2>12. "token_budget" \in all <=> B \in ds
    <3>1. B \in Four(rules) /\ \A d \in ds : d.name = "token_budget" <=> d = B
      BY <2>2, FourNamed DEF Four
    <3> HIDE DEF B
    <3> QED
      BY <2>9, <3>1
  <2>13. Denying(all \ {"token_budget"}) <=> \E d \in ds \ {B} : In(d).action = "deny"
    BY <2>2, <2>8, <2>9, FourNamed
  <2>14. Charge(used, req) # used <=> req.tokens > 0
    BY <2>1 DEF Charge
  <2>15. result.used # used <=>
           /\ req.tokens > 0 /\ "token_budget" \in all /\ ~Denying(all \ {"token_budget"})
    BY <2>4, <2>12, <2>13, <2>14
  <2>16. result.verdict.action # "deny" =>
           \A s \in says : AtLeast(result.verdict.severity, s[2].severity)
    BY <2>5, <2>10
  <2>17. result.verdict.action = "deny" <=> Denying(all)
    BY <2>5, <2>11
  <2> QED
    BY <2>15, <2>16, <2>17 DEF says, Denying, all, In, rules, used, ds, result
<1> QED
  BY <1>1, BudgetSafe, PTL
=============================================================================
