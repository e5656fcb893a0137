------------------------------ MODULE GuardProofs ------------------------------
(***************************************************************************)
(* Proofs about GuardCheck, for every set of requests, any number of       *)
(* checks at a time, and every life of the simulation underneath.          *)
(***************************************************************************)
EXTENDS GuardCheck, SimulationProofs, SequenceTheorems

Place == {"idle", "simulation", "scope", "observe", "observed", "local", "ask",
          "reply", "decide", "done"}

Check == [at : Place, req : Request, seen : Seq(Reply), outcome : Outcome \cup {"none"}]

CallsTyped ==
  /\ posture \in [mode : {"off", "enforce"}, failClosed : BOOLEAN]
  /\ call \in [Worker -> Check]

(* No answer before the first call; a second one only after an unusable    *)
(* first one, and without attachments; only attachments make an answer     *)
(* technical.                                                              *)
Attempts(w) ==
  LET seen == call[w].seen IN
  /\ call[w].at \notin {"reply", "done"} => seen = <<>>
  /\ call[w].at = "reply" => seen # <<>>
  /\ Len(seen) <= 2
  /\ Len(seen) = 2 => MediaUnavailable(seen[1]) /\ seen[2] \in TextReply
  /\ ~call[w].req.media => \A n \in 1..Len(seen) : seen[n] \in TextReply

(* A check ends by the last answer, or before the first.                   *)
Ended(w) ==
  /\ call[w].at = "done" <=> call[w].outcome # "none"
  /\ call[w].at = "done" /\ call[w].seen = <<>> =>
       call[w].outcome \in {"rejected", "baseline", "localDeny"}
  /\ call[w].at = "done" /\ call[w].seen # <<>> =>
       ~RetriesText(w) /\ call[w].outcome = Decision(w)

(* A session with a private plan is never asked for its scope.             *)
Private(w) ==
  call[w].req.private =>
    call[w].at # "scope" /\ call[w].outcome \notin {"baseline", "rejected"}

GuardInv == \A w \in Worker : Attempts(w) /\ Ended(w) /\ Private(w)

-----------------------------------------------------------------------------
(* A fresh check has seen nothing and has not ended.                       *)
LEMMA FreshCheck == Fresh \in Check /\ Fresh.at = "idle" /\ Fresh.seen = <<>> /\ Fresh.outcome = "none"
BY RequestAssumption DEF Fresh, Check, Place

(* Every worker has a fresh check.                                         *)
LEMMA InitChecks == GuardInit => CallsTyped /\ GuardInv
<1> SUFFICES ASSUME GuardInit PROVE CallsTyped /\ GuardInv
  OBVIOUS
<1>1. CallsTyped
  BY FreshCheck DEF GuardInit, CallsTyped
<1>2. ASSUME NEW w \in Worker PROVE Attempts(w) /\ Ended(w) /\ Private(w)
  BY <1>2, FreshCheck DEF GuardInit, Attempts, Ended, Private
<1> QED
  BY <1>1, <1>2 DEF GuardInv

(* A check sees at most two answers.                                       *)
LEMMA SeenLength ==
  ASSUME CallsTyped, NEW w \in Worker, Attempts(w)
  PROVE  /\ call[w].seen \in Seq(Reply)
         /\ Len(call[w].seen) \in {0, 1, 2}
         /\ call[w].seen = <<>> <=> Len(call[w].seen) = 0
<1>1. call[w].seen \in Seq(Reply)
  BY DEF CallsTyped, Check
<1>2. Len(call[w].seen) \in Nat /\ Len(call[w].seen) <= 2
  BY <1>1, LenProperties DEF Attempts
<1>3. Len(call[w].seen) = 0 <=> call[w].seen = <<>>
  <2>1. CASE call[w].seen = <<>>
    BY <2>1
  <2>2. CASE call[w].seen # <<>>
    BY <1>1, <2>2, EmptySeq
  <2> QED
    BY <2>1, <2>2
<1>4. \A n \in Nat : n <= 2 => n \in {0, 1, 2}
  OBVIOUS
<1> QED
  BY <1>1, <1>2, <1>3, <1>4

(* What a step of one check is: the other checks stand still.              *)
LEMMA OneCheck ==
  ASSUME CallsTyped, GuardInv, NEW w \in Worker, NEW c \in Check,
         UNCHANGED posture, call' = [call EXCEPT ![w] = c],
         Attempts(w)', Ended(w)', Private(w)'
  PROVE  CallsTyped' /\ GuardInv'
<1>1. CallsTyped'
  BY DEF CallsTyped
<1>2. ASSUME NEW v \in Worker PROVE Attempts(v)' /\ Ended(v)' /\ Private(v)'
  <2>1. CASE v = w
    BY <2>1
  <2>2. CASE v # w
    <3>1. call'[v] = call[v]
      BY <2>2 DEF CallsTyped
    <3> QED
      BY <3>1 DEF GuardInv, Attempts, Ended, Private, RetriesText, Decision, LastReply,
                  FailsOpen
  <2> QED
    BY <2>1, <2>2
<1> QED
  BY <1>1, <1>2 DEF GuardInv

-----------------------------------------------------------------------------
(* The kinds of step a check takes.                                        *)

(* A step that only moves a check on.                                      *)
LEMMA GoesStep ==
  ASSUME CallsTyped, GuardInv, NEW w \in Worker,
         NEW at \in {"scope", "observe", "observed", "local", "ask"},
         call[w].at \notin {"reply", "done"},
         call[w].req.private => at # "scope",
         Goes(w, at), UNCHANGED posture
  PROVE  CallsTyped' /\ GuardInv'
<1> DEFINE c == [call[w] EXCEPT !.at = at]
<1>1. c \in Check /\ c.at = at /\ c.req = call[w].req /\ c.seen = call[w].seen
      /\ c.outcome = call[w].outcome
  BY DEF CallsTyped, Check, Place
<1>2. call' = [call EXCEPT ![w] = c] /\ call'[w] = c
  BY DEF Goes, CallsTyped
<1> HIDE DEF c
<1>3. Attempts(w) /\ Ended(w) /\ Private(w)
  BY DEF GuardInv
<1>4. Attempts(w)' /\ Ended(w)' /\ Private(w)'
  BY <1>1, <1>2, <1>3 DEF Attempts, Ended, Private
<1> QED
  BY <1>1, <1>2, <1>4, OneCheck

(* A step that ends a check before the platform is asked.                  *)
LEMMA EndsEarly ==
  ASSUME CallsTyped, GuardInv, NEW w \in Worker,
         NEW outcome \in {"rejected", "baseline", "localDeny"},
         call[w].at \notin {"reply", "done"},
         call[w].req.private => outcome = "localDeny",
         Ends(w, outcome), UNCHANGED posture
  PROVE  CallsTyped' /\ GuardInv'
<1> DEFINE c == [call[w] EXCEPT !.at = "done", !.outcome = outcome]
<1>1. c \in Check /\ c.at = "done" /\ c.req = call[w].req /\ c.seen = call[w].seen
      /\ c.outcome = outcome
  BY DEF CallsTyped, Check, Place, Outcome
<1>2. call' = [call EXCEPT ![w] = c] /\ call'[w] = c
  BY DEF Ends, CallsTyped
<1> HIDE DEF c
<1>3. Attempts(w) /\ Ended(w) /\ Private(w)
  BY DEF GuardInv
<1>4. Attempts(w)' /\ Ended(w)' /\ Private(w)'
  BY <1>1, <1>2, <1>3 DEF Attempts, Ended, Private
<1> QED
  BY <1>1, <1>2, <1>4, OneCheck

(* Check begins, or returns.                                               *)
LEMMA FreshStep ==
  ASSUME CallsTyped, GuardInv, NEW w \in Worker,
         CheckBegins(w) \/ CheckReturns(w)
  PROVE  CallsTyped' /\ GuardInv'
<1>1. PICK c \in Check :
        /\ call' = [call EXCEPT ![w] = c]
        /\ c.at \in {"idle", "simulation"} /\ c.seen = <<>> /\ c.outcome = "none"
  <2>1. CASE CheckBegins(w)
    <3>1. PICK q \in Request :
            call' = [call EXCEPT ![w] = [Fresh EXCEPT !.at = "simulation", !.req = q]]
      BY <2>1 DEF CheckBegins
    <3>2. LET c == [Fresh EXCEPT !.at = "simulation", !.req = q]
          IN  c \in Check /\ c.at = "simulation" /\ c.seen = <<>> /\ c.outcome = "none"
      BY FreshCheck DEF Check, Place
    <3> QED
      BY <3>1, <3>2
  <2>2. CASE CheckReturns(w)
    BY <2>2, FreshCheck DEF CheckReturns
  <2> QED
    BY <2>1, <2>2
<1>2. call'[w] = c
  BY <1>1 DEF CallsTyped
<1>3. Attempts(w)' /\ Ended(w)' /\ Private(w)'
  BY <1>1, <1>2 DEF Attempts, Ended, Private
<1>4. UNCHANGED posture
  BY DEF CheckBegins, CheckReturns, NoSimulationChange
<1> QED
  BY <1>1, <1>3, <1>4, OneCheck

(* The first answer, or the one to the text-only retry.                    *)
LEMMA AnswerStep ==
  ASSUME CallsTyped, GuardInv, NEW w \in Worker,
         CheckAsks(w) \/ CheckRetries(w)
  PROVE  CallsTyped' /\ GuardInv'
<1>0. Attempts(w) /\ Ended(w) /\ Private(w) /\ call[w] \in Check /\ UNCHANGED posture
  BY DEF GuardInv, CallsTyped, CheckAsks, CheckRetries, NoSimulationChange
<1>1. PICK reply \in Reply :
        /\ Answered(w, reply)
        /\ \/ call[w].at = "ask" /\ call[w].seen = <<>>
              /\ (~call[w].req.media => reply \in TextReply)
           \/ /\ call[w].at = "reply" /\ Len(call[w].seen) = 1 /\ call[w].req.media
              /\ MediaUnavailable(call[w].seen[1]) /\ reply \in TextReply
  BY <1>0 DEF CheckAsks, CheckRetries, RetriesText, LastReply, Reply, Attempts
<1> DEFINE c == [call[w] EXCEPT !.at = "reply", !.seen = Append(@, reply)]
<1>2. c \in Check /\ c.at = "reply" /\ c.req = call[w].req
      /\ c.seen = Append(call[w].seen, reply) /\ c.outcome = call[w].outcome
  <2>1. Append(call[w].seen, reply) \in Seq(Reply)
    BY <1>0 DEF Check
  <2> QED
    BY <1>0, <2>1 DEF Check, Place
<1>3. call' = [call EXCEPT ![w] = c] /\ call'[w] = c
  BY <1>1 DEF Answered, CallsTyped
<1> HIDE DEF c
<1>4. call[w].seen \in Seq(Reply)
  BY <1>0 DEF Check
<1>5. Attempts(w)'
  <2>1. CASE call[w].seen = <<>>
    <3>1. Len(c.seen) = 1 /\ c.seen[1] = reply /\ c.seen # <<>>
      BY <1>2, <2>1
    <3>2. ~call[w].req.media => reply \in TextReply
      BY <1>1
    <3> QED
      BY <1>2, <1>3, <3>1, <3>2 DEF Attempts
  <2>2. CASE Len(call[w].seen) = 1
    <3>1. Len(c.seen) = 2 /\ c.seen[1] = call[w].seen[1] /\ c.seen[2] = reply
      BY <1>2, <1>4, <2>2
    <3> QED
      BY <1>1, <1>2, <1>3, <2>2, <3>1 DEF Attempts
  <2> QED
    BY <1>1, <2>1, <2>2
<1>6. Ended(w)' /\ Private(w)'
  BY <1>0, <1>1, <1>2, <1>3 DEF Ended, Private
<1> QED
  BY <1>0, <1>2, <1>3, <1>5, <1>6, OneCheck

(* The last answer decides.                                                *)
LEMMA DecideStep ==
  ASSUME CallsTyped, GuardInv, NEW w \in Worker, CheckDecides(w)
  PROVE  CallsTyped' /\ GuardInv'
<1>0. Attempts(w) /\ Private(w) /\ call[w] \in Check /\ call[w].at = "reply"
      /\ ~RetriesText(w) /\ Ends(w, Decision(w)) /\ UNCHANGED posture
  BY DEF GuardInv, CallsTyped, CheckDecides, NoSimulationChange
<1>1. Decision(w) \in {"allow", "warn", "deny", "killed", "failOpen", "unavailable"}
  <2> DEFINE seen == call[w].seen
  <2>1. seen \in Seq(Reply) /\ Len(seen) \in {1, 2}
    BY <1>0, SeenLength DEF Attempts
  <2>2. LastReply(w) \in TextReply
    <3>1. CASE Len(seen) = 1
      BY <1>0, <2>1, <3>1 DEF RetriesText, LastReply, MediaUnavailable, Attempts, Reply,
                              TextReply
    <3>2. CASE Len(seen) = 2
      BY <1>0, <3>2 DEF Attempts, LastReply
    <3> QED
      BY <2>1, <3>1, <3>2
  <2> QED
    BY <2>2 DEF Decision, TextReply
<1> DEFINE c == [call[w] EXCEPT !.at = "done", !.outcome = Decision(w)]
<1>2. c \in Check /\ c.at = "done" /\ c.req = call[w].req /\ c.seen = call[w].seen
      /\ c.outcome = Decision(w)
  BY <1>0, <1>1 DEF Check, Place, Outcome
<1>3. call' = [call EXCEPT ![w] = c] /\ call'[w] = c
  BY <1>0 DEF Ends, CallsTyped
<1> HIDE DEF c
<1>4. Attempts(w)'
  BY <1>0, <1>2, <1>3 DEF Attempts
<1>5. Ended(w)'
  <2>1. ~RetriesText(w)' /\ Decision(w)' = Decision(w)
    BY <1>0, <1>2, <1>3 DEF RetriesText, Decision, LastReply, FailsOpen
  <2> QED
    BY <1>0, <1>1, <1>2, <1>3, <2>1 DEF Ended, Attempts
<1>6. Private(w)'
  BY <1>0, <1>1, <1>2, <1>3 DEF Private
<1> QED
  BY <1>0, <1>2, <1>3, <1>4, <1>5, <1>6, OneCheck

-----------------------------------------------------------------------------
(* Every step of the Guard.                                                *)
LEMMA ChecksStep ==
  ASSUME CallsTyped, GuardInv, [GuardNext]_guardVars
  PROVE  CallsTyped' /\ GuardInv'
<1>1. CASE UNCHANGED checkVars
  BY <1>1 DEF checkVars, CallsTyped, GuardInv, Attempts, Ended, Private, RetriesText,
              Decision, LastReply, FailsOpen
<1>2. ASSUME NEW w \in Worker, CheckStep(w) PROVE CallsTyped' /\ GuardInv'
  <2>1. CASE CheckBegins(w) \/ CheckReturns(w)
    BY <2>1, FreshStep
  <2>2. CASE CheckSimulation(w)
    <3> DEFINE at == IF HasExecution(w) THEN "observe"
                     ELSE IF ~Active THEN "local"
                     ELSE IF call[w].req.remote THEN "scope" ELSE "observe"
    <3>1. at \in {"scope", "observe", "local"} /\ (call[w].req.private => at # "scope")
      BY DEF HasExecution
    <3>2. Goes(w, at) /\ call[w].at = "simulation" /\ UNCHANGED posture
      BY <2>2 DEF CheckSimulation, NoSimulationChange
    <3> QED
      BY <3>1, <3>2, GoesStep
  <2>3. CASE CheckScope(w)
    <3>1. call[w].at = "scope" /\ ~call[w].req.private /\ UNCHANGED posture
      BY <2>3 DEF CheckScope, NoSimulationChange, GuardInv, Private
    <3> QED
      BY <2>3, <3>1, GoesStep, EndsEarly DEF CheckScope
  <2>4. CASE CheckObserves(w)
    BY <2>4, GoesStep DEF CheckObserves
  <2>5. CASE CheckRecords(w)
    BY <1>1, <2>5 DEF CheckRecords
  <2>6. CASE CheckBypass(w)
    BY <2>6, GoesStep, EndsEarly DEF CheckBypass, NoSimulationChange, HasExecution
  <2>7. CASE CheckLocal(w)
    BY <2>7, GoesStep, EndsEarly DEF CheckLocal, NoSimulationChange
  <2>8. CASE CheckAsks(w) \/ CheckRetries(w)
    BY <2>8, AnswerStep
  <2>9. CASE CheckDecides(w)
    BY <2>9, DecideStep
  <2> QED
    BY <1>2, <2>1, <2>2, <2>3, <2>4, <2>5, <2>6, <2>7, <2>8, <2>9 DEF CheckStep
<1> QED
  BY <1>1, <1>2 DEF GuardNext, guardVars, checkVars

(* A step of a check is a step of the controller or leaves it alone.       *)
LEMMA ControllerStep ==
  ASSUME [GuardNext]_guardVars
  PROVE  Lifecycle \/ Heartbeat \/ Hooks \/ UNCHANGED simVars
<1>1. ASSUME NEW w \in Worker, CheckStep(w) PROVE Hooks \/ UNCHANGED simVars
  BY <1>1 DEF CheckStep, CheckBegins, CheckSimulation, CheckScope, CheckObserves,
              CheckRecords, CheckBypass, CheckLocal, CheckAsks, CheckRetries,
              CheckDecides, CheckReturns, NoSimulationChange, Hooks
<1> QED
  BY <1>1 DEF GuardNext, guardVars

(* In every reachable state the checks and the controller below them are   *)
(* well typed and keep their invariants.                                   *)
THEOREM GuardSafe == GuardSpec => [](TypeOK /\ SimInv /\ CallsTyped /\ GuardInv)
<1>1. GuardInit => TypeOK /\ SimInv /\ CallsTyped /\ GuardInv
  BY InitChecks, InitTypeOK, InitSimInv DEF GuardInit
<1>2. TypeOK /\ SimInv /\ [GuardNext]_guardVars => (TypeOK /\ SimInv)'
  BY ControllerStep, SimStep
<1>3. CallsTyped /\ GuardInv /\ [GuardNext]_guardVars => (CallsTyped /\ GuardInv)'
  BY ChecksStep
<1> QED
  BY <1>1, <1>2, <1>3, PTL DEF GuardSpec

(* Type correctness of the Guard and its checks.                           *)
THEOREM GuardTyped == GuardSpec => []GuardTypeOK
<1>1. TypeOK /\ CallsTyped /\ GuardInv => GuardTypeOK
  <2> SUFFICES ASSUME TypeOK, CallsTyped, GuardInv PROVE GuardTypeOK
    OBVIOUS
  <2>1. ASSUME NEW w \in Worker PROVE DOMAIN call[w].seen \in {{}, {1}, {1, 2}}
    <3>1. call[w].seen \in Seq(Reply) /\ Len(call[w].seen) \in 0..2
      BY SeenLength DEF GuardInv
    <3> QED
      BY <3>1
  <2> QED
    BY <2>1 DEF CallsTyped, Check, Place, GuardInv, Ended, GuardTypeOK
<1> QED
  BY <1>1, GuardSafe, PTL

-----------------------------------------------------------------------------
(* How an ended check came to its outcome: before any answer, or by the    *)
(* last one, after which at most one unusable answer was put aside.        *)
LEMMA EndedBy ==
  ASSUME CallsTyped, GuardInv, NEW w \in Worker, call[w].at = "done"
  PROVE  \/ /\ Seen(w) = {}
            /\ call[w].outcome \in {"rejected", "baseline", "localDeny"}
         \/ \E last \in Reply, aside \in {"error", "unseen", "technical"} :
              /\ Seen(w) \in {{last}, {aside, last}}
              /\ last = LastReply(w)
              /\ call[w].outcome = Decision(w)
<1> DEFINE seen == call[w].seen
<1>1. /\ Attempts(w) /\ Ended(w) /\ seen \in Seq(Reply)
      /\ Len(seen) \in {0, 1, 2} /\ (seen = <<>> <=> Len(seen) = 0)
  BY SeenLength DEF GuardInv
<1>2. CASE Len(seen) = 0
  BY <1>1, <1>2 DEF Ended, Seen
<1>3. CASE Len(seen) = 1
  <2>1. seen[1] \in Reply /\ Seen(w) = {seen[1]} /\ LastReply(w) = seen[1]
    BY <1>1, <1>3 DEF Seen, LastReply
  <2> QED
    BY <1>1, <1>3, <2>1 DEF Ended
<1>4. CASE Len(seen) = 2
  <2>1. seen[2] \in Reply /\ Seen(w) = {seen[1], seen[2]} /\ LastReply(w) = seen[2]
    BY <1>1, <1>4 DEF Seen, LastReply
  <2>2. seen[1] \in {"error", "unseen", "technical"}
    BY <1>1, <1>4 DEF Attempts, MediaUnavailable
  <2> QED
    BY <1>1, <1>4, <2>1, <2>2 DEF Ended
<1> QED
  BY <1>1, <1>2, <1>3, <1>4

(* A kill in any answer, to either attempt, ends the check as killed.      *)
THEOREM KillsAlwaysBlock == GuardSpec => []KillsBlock
<1>1. CallsTyped /\ GuardInv => KillsBlock
  <2> SUFFICES ASSUME CallsTyped, GuardInv, NEW w \in Worker, call[w].at = "done",
                      NEW kill \in {"kills", "killed"}, kill \in Seen(w)
               PROVE  call[w].outcome = "killed"
    BY DEF KillsBlock
  <2>1. LastReply(w) = kill /\ call[w].outcome = Decision(w)
    BY EndedBy
  <2> QED
    BY <2>1 DEF Decision
<1> QED
  BY <1>1, GuardSafe, PTL

(* Neither the retry nor FailOpen turns a denial into anything else.       *)
THEOREM DenialsAlwaysStand == GuardSpec => []DenialsStand
<1>1. CallsTyped /\ GuardInv => DenialsStand
  <2> SUFFICES ASSUME CallsTyped, GuardInv, NEW w \in Worker, call[w].at = "done",
                      "deny" \in Seen(w)
               PROVE  call[w].outcome = "deny"
    BY DEF DenialsStand
  <2>1. LastReply(w) = "deny" /\ call[w].outcome = Decision(w)
    BY EndedBy
  <2> QED
    BY <2>1 DEF Decision
<1> QED
  BY <1>1, GuardSafe, PTL

(* A fail-closed guard lets nothing pass because an attempt failed or left *)
(* the attachments unconfirmed; a 200 without a decision passes.           *)
THEOREM FailClosedAlways == GuardSpec => []FailClosedHolds
<1>1. CallsTyped /\ GuardInv => FailClosedHolds
  <2> SUFFICES ASSUME CallsTyped, GuardInv, NEW w \in Worker, posture.failClosed,
                      call[w].outcome \in Proceeds \ {"baseline"}
               PROVE  Seen(w) \cap {"allow", "warn", "blank"} # {}
    BY DEF FailClosedHolds
  <2>1. call[w].at = "done"
    BY DEF GuardInv, Ended, Proceeds
  <2>2. LastReply(w) \in Reply \cap Seen(w) /\ call[w].outcome = Decision(w)
    BY <2>1, EndedBy DEF Proceeds
  <2>3. LastReply(w) \in {"allow", "warn", "blank"}
    BY <2>2 DEF Decision, FailsOpen, Proceeds, Reply, TextReply
  <2> QED
    BY <2>2, <2>3
<1> QED
  BY <1>1, GuardSafe, PTL

(* The public simulation never decides a check of a private plan.          *)
THEOREM PrivateAlwaysProtected == GuardSpec => []PrivateKeepsProtection
<1>1. GuardInv => PrivateKeepsProtection
  BY DEF GuardInv, Private, PrivateKeepsProtection
<1> QED
  BY <1>1, GuardSafe, PTL
=============================================================================
