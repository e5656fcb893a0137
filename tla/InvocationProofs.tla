-------------------------- MODULE InvocationProofs --------------------------
(***************************************************************************)
(* Proofs about InvocationConnection, for every set of requests, every     *)
(* concurrency, lease and replay window: its types and its inductive       *)
(* invariant, and then the service it promises: its wire order holds, its  *)
(* lease is never overestimated nor revived, and it implements             *)
(* InvocationService.  Last, about TwoConnections: the plans of two        *)
(* connections never mix.                                                  *)
(***************************************************************************)
EXTENDS TwoConnections, FiniteSetTheorems, TLAPS

(***************************************************************************)
(* Types *)
(***************************************************************************)

(* No invocation, no lease.                                                *)
LEMMA InitTypeOK == Init => TypeOK
<1> SUFFICES ASSUME Init PROVE TypeOK
  OBVIOUS
<1>1. expiresAt \in Nat /\ expiresAt \div 2 \in Nat
  BY ConnectionAssumption DEF Init
<1>2. renewAt \in Nat \cup {Off}
  BY <1>1 DEF Init
<1>3. granted \in [id : Nat, exp : Nat]
  BY <1>1 DEF Init, NoRenewal
<1> QED
  <2>1. /\ handler \in [Request -> HandlerState]
        /\ outcome \in [Request -> {"none", "ok", "error"}]
        /\ answer \in [Request -> {"none", "completed", "failed"}]
    BY DEF Init, HandlerState
  <2>2. /\ due \in [Request -> Nat]
        /\ runs \in [Request -> Nat]
        /\ sent \in [Request -> Nat]
        /\ output \in [Request -> 0..MaxOutput]
    BY ConnectionAssumption DEF Init
  <2> QED
    BY <1>1, <1>2, <1>3, <2>1, <2>2 DEF Init, TypeOK, NoRenewal

(* Ending the connection keeps every variable in its type.                 *)
LEMMA EndLoopTypeOK ==
  ASSUME TypeOK, NEW err \in {"expired", "revoked", "unknown", "canceled", "protocol"},
         EndLoop(err)
  PROVE  TypeOK'
BY ConnectionAssumption
   DEF TypeOK, EndLoop, EndServe, Started, Off, NoRenewal, outVars

(* An offer that is refused.                                               *)
LEMMA RefuseTypeOK ==
  ASSUME TypeOK, NEW r \in Request, NEW kept \in SUBSET Request,
         Refuse(r, kept)
  PROVE  TypeOK'
<1>1. CASE EndLoop("unknown")
  BY <1>1, EndLoopTypeOK
<1>2. CASE ~EndLoop("unknown")
  BY <1>2 DEF Refuse, TypeOK, leaseVars, linkVars, workVars, outVars
<1> QED
  BY <1>1, <1>2

(* What the server, the network and the caller do.                         *)
LEMMA EnvironmentTypeOK == TypeOK /\ Environment => TypeOK'
<1> SUFFICES ASSUME TypeOK, Environment PROVE TypeOK'
  OBVIOUS
<1> USE ConnectionAssumption
    DEF TypeOK, leaseVars, linkVars, loopVars, workVars, outVars, Started
<1>1. CASE Tick
  BY <1>1 DEF Tick
<1>2. CASE CancelConnection
  BY <1>2 DEF CancelConnection
<1>3. CASE SocketFails
  BY <1>3 DEF SocketFails
<1>4. CASE ReaderFails
  BY <1>4 DEF ReaderFails
<1>5. ASSUME NEW e \in 1..(MaxTime + 1), BrokerGrants(e) PROVE TypeOK'
  BY <1>5 DEF BrokerGrants
<1>6. ASSUME NEW r \in Request, DeadlineFires(r) PROVE TypeOK'
  BY <1>6 DEF DeadlineFires
<1> QED
  BY <1>1, <1>2, <1>3, <1>4, <1>5, <1>6 DEF Environment

(* An offer that is accepted.                                              *)
LEMMA StartTypeOK ==
  ASSUME TypeOK, NEW r \in Request, StartHandler(r)
  PROVE  TypeOK'
<1> USE ConnectionAssumption DEF TypeOK
<1>1. Remembered \in SUBSET Request
  BY DEF Remembered
<1>2. Earlier(DeadlineOf[r], now + RequestTimeout) \in Nat
  BY DEF Earlier
<1>3. /\ SessionOf[r] \in Session
      /\ runs[r] + 1 \in Nat
      /\ 0 \in 0..MaxOutput
  OBVIOUS
<1>4. /\ active' \in SUBSET Request
      /\ seen' \in SUBSET Request
      /\ cancelled' \in SUBSET Request
      /\ closed' \in SUBSET Request
  BY <1>1 DEF StartHandler, Holding
<1>5. /\ sessions' \in SUBSET Session
      /\ executions' \in SUBSET Session
  BY <1>3 DEF StartHandler
<1>6. /\ handler' \in [Request -> HandlerState]
      /\ outcome' \in [Request -> {"none", "ok", "error"}]
  BY DEF StartHandler, HandlerState
<1>7. /\ due' \in [Request -> Nat]
      /\ runs' \in [Request -> Nat]
      /\ output' \in [Request -> 0..MaxOutput]
  BY <1>2, <1>3 DEF StartHandler
<1> QED
  BY <1>4, <1>5, <1>6, <1>7 DEF StartHandler, linkVars, leaseVars

(* A decision on an invocation.                                            *)
LEMMA AnswerTypeOK ==
  ASSUME TypeOK, NEW r \in Request, AnswerResult(r)
  PROVE  TypeOK'
<1> USE ConnectionAssumption DEF TypeOK
<1>1. /\ closed' \in SUBSET Request
      /\ handler' \in [Request -> HandlerState]
      /\ UNCHANGED <<now, due, outcome, executions, runs, writing, output, sent, refused>>
  BY DEF AnswerResult, HandlerState
<1>2. CASE EndServe("unknown") /\ UNCHANGED <<answer, readFailed, expiresAt, renewals, granted>>
  BY <1>1, <1>2 DEF EndServe, Started, Off, NoRenewal
<1>3. CASE ~(EndServe("unknown") /\ UNCHANGED <<answer, readFailed, expiresAt, renewals, granted>>)
  <2>1. AnswerOf(r) \in {"none", "completed", "failed"}
    BY DEF AnswerOf
  <2>2. /\ answer' = [answer EXCEPT ![r] = AnswerOf(r)]
        /\ active' = active \ Holding(IdOf[r])
        /\ sessions' = sessions \ FreedSessions(r)
        /\ cancelled' = cancelled \cup Holding(IdOf[r])
        /\ UNCHANGED <<linkVars, leaseVars, seen>>
    BY <1>3 DEF AnswerResult
  <2>3. answer' \in [Request -> {"none", "completed", "failed"}]
    BY <2>1, <2>2
  <2> QED
    BY <1>1, <2>2, <2>3 DEF Holding, linkVars, leaseVars
<1> QED
  BY <1>2, <1>3

(* The loop of the connection.                                             *)
LEMMA LoopTypeOK == TypeOK /\ Loop => TypeOK'
<1> SUFFICES ASSUME TypeOK, Loop PROVE TypeOK'
  OBVIOUS
<1>1. CASE ExpireLease
  BY <1>1, EndLoopTypeOK DEF ExpireLease
<1>2. CASE EndOnContext
  BY <1>2, EndLoopTypeOK DEF EndOnContext
<1>3. CASE EndOnReadError
  BY <1>3, EndLoopTypeOK DEF EndOnReadError
<1>4. CASE EndOnHeartbeat
  BY <1>4, EndLoopTypeOK DEF EndOnHeartbeat
<1>5. CASE RenewLease
  <2>1. /\ renewals' \in Nat
        /\ UNCHANGED <<now, granted, handler, due, outcome, executions, runs, outVars>>
    BY <1>5 DEF RenewLease, TypeOK
  <2>2. CASE EndServe("unknown") /\ UNCHANGED <<readFailed, expiresAt>>
    BY <2>1, <2>2 DEF TypeOK, EndServe, Started, Off, NoRenewal, outVars
  <2>3. CASE ~(EndServe("unknown") /\ UNCHANGED <<readFailed, expiresAt>>)
    BY <1>5, <2>1, <2>3 DEF RenewLease, TypeOK, Off, linkVars, loopVars, outVars
  <2> QED
    BY <2>2, <2>3
<1>6. CASE AcceptRenewal
  <2>1. granted.exp \in Nat /\ now \in Nat /\ now < granted.exp
    BY <1>6 DEF AcceptRenewal, AckValid, AckInWindow, TypeOK
  <2>2. now + ((granted.exp - now) \div 2) \in Nat
    BY <2>1
  <2> QED
    BY <1>6, <2>1, <2>2
       DEF AcceptRenewal, TypeOK, NoRenewal, linkVars, loopVars, workVars, outVars
<1>7. CASE RejectRenewal
  BY <1>7, EndLoopTypeOK DEF RejectRenewal
<1>8. ASSUME NEW err \in {"expired", "revoked", "protocol"}, EndOnFrame(err)
      PROVE  TypeOK'
  BY <1>8, EndLoopTypeOK DEF EndOnFrame
<1>9. ASSUME NEW i \in RequestId, CancelFrame(i) PROVE TypeOK'
  BY <1>9 DEF CancelFrame, Holding, TypeOK, linkVars, leaseVars, loopVars, outVars
<1>10. ASSUME NEW r \in Request, InvokeExpired(r) PROVE TypeOK'
  BY <1>10, EndLoopTypeOK DEF InvokeExpired
<1>11. ASSUME NEW r \in Request, InvokeRefused(r) PROVE TypeOK'
  BY <1>11, RefuseTypeOK DEF InvokeRefused, TypeOK
<1>12. ASSUME NEW r \in Request, InvokeTurnedAway(r) PROVE TypeOK'
  <2>1. Remembered \in SUBSET Request
    BY DEF Remembered, TypeOK
  <2> QED
    BY <1>12, <2>1, RefuseTypeOK DEF InvokeTurnedAway
<1>13. ASSUME NEW r \in Request, InvokeStarted(r) PROVE TypeOK'
  BY <1>13, StartTypeOK DEF InvokeStarted
<1>14. ASSUME NEW r \in Request, TakeResult(r) PROVE TypeOK'
  BY <1>14 DEF TakeResult, TypeOK, HandlerState, linkVars, leaseVars, loopVars, outVars
<1>15. ASSUME NEW r \in Request, AnswerResult(r) PROVE TypeOK'
  BY <1>15, AnswerTypeOK
<1> QED
  BY <1>1, <1>2, <1>3, <1>4, <1>5, <1>6, <1>7, <1>8, <1>9, <1>10, <1>11,
     <1>12, <1>13, <1>14, <1>15
     DEF Loop

(* The goroutines it starts.                                               *)
LEMMA HandlersTypeOK == TypeOK /\ Handlers => TypeOK'
<1> SUFFICES ASSUME TypeOK, NEW r \in Request,
                    \/ HandlerReturns(r) \/ HandlerReports(r) \/ HandlerCloses(r)
                    \/ CloseReturns(r) \/ BeginDelta(r) \/ EndDelta(r)
             PROVE  TypeOK'
  BY DEF Handlers
<1> USE ConnectionAssumption
    DEF TypeOK, HandlerState, Started, leaseVars, linkVars, loopVars, workVars, outVars
<1>1. CASE HandlerReturns(r)
  BY <1>1 DEF HandlerReturns, ResultOf, PlansAfter
<1>2. CASE HandlerReports(r)
  BY <1>2 DEF HandlerReports
<1>3. CASE HandlerCloses(r)
  BY <1>3 DEF HandlerCloses
<1>4. CASE CloseReturns(r)
  BY <1>4 DEF CloseReturns
<1>5. CASE BeginDelta(r)
  BY <1>5 DEF BeginDelta, OutputHasRoom
<1>6. CASE EndDelta(r)
  <2>1. sent' \in [Request -> Nat]
    BY <1>6 DEF EndDelta
  <2> QED
    BY <1>6, <2>1 DEF EndDelta
<1> QED
  BY <1>1, <1>2, <1>3, <1>4, <1>5, <1>6

(* Every variable keeps its type, whatever the constants.                  *)
THEOREM TypeCorrect == Spec => []TypeOK
<1>1. TypeOK /\ UNCHANGED vars => TypeOK'
  BY DEF TypeOK, vars, leaseVars, loopVars, linkVars, workVars, outVars
<1>2. TypeOK /\ [Next]_vars => TypeOK'
  BY <1>1, EnvironmentTypeOK, LoopTypeOK, HandlersTypeOK DEF Next
<1> QED
  BY InitTypeOK, <1>2, PTL DEF Spec

-----------------------------------------------------------------------------
(***************************************************************************)
(* The inductive invariant.  None of the safety properties is inductive by *)
(* itself: a slot is free only if the loop's maps say so, so the maps must *)
(* hold exactly the work in flight; a frame is not run twice only because  *)
(* its identifier is remembered or its deadline, which never changes, has  *)
(* passed; and sessions must stay exclusive until the loop has answered,   *)
(* or else freeing one request's session would free another's.             *)
(***************************************************************************)
Once == \A r \in Request : runs[r] <= 1 /\ (handler[r] = "idle" <=> runs[r] = 0)

Remembers ==
  conn = "serving" =>
    \A r \in Request : handler[r] # "idle" => r \in seen \/ DeadlineOf[r] <= now

OnePerSession ==
  \A r, s \in InFlight : SessionOf[r] = SessionOf[s] => r = s

Inv ==
  /\ Once
  /\ Remembers
  /\ SlotsMatchWork
  /\ OnePerSession
  /\ CapacityRespected
  /\ PlanLifetime

(* The work in flight is finite, and stays so with one request more or     *)
(* less.                                                                   *)
LEMMA InFlightFinite ==
  ASSUME TypeOK
  PROVE  /\ InFlight \in SUBSET Request
         /\ IsFiniteSet(InFlight)
         /\ Cardinality(InFlight) \in Nat
<1>1. InFlight \in SUBSET Request
  BY DEF InFlight, InState
<1>2. IsFiniteSet(InFlight)
  BY <1>1, FS_Subset, ConnectionAssumption
<1> QED
  BY <1>1, <1>2, FS_CardinalityType

(* A step that leaves the work and the loop's maps alone keeps Inv.        *)
LEMMA QuietStep ==
  ASSUME TypeOK, Inv, now' \in Nat, now <= now',
         UNCHANGED <<conn, loopVars, handler, executions, runs>>
  PROVE  Inv'
BY ConnectionAssumption
   DEF TypeOK, Inv, Once, Remembers, SlotsMatchWork, OnePerSession,
       CapacityRespected, PlanLifetime, InFlight, InState, HandlerState, loopVars

(* The end of the loop leaves nothing to say of its maps.                  *)
LEMMA EndStep ==
  ASSUME Inv, conn' = "ended", UNCHANGED <<handler, executions, runs>>
  PROVE  Inv'
BY DEF Inv, Once, Remembers, SlotsMatchWork, OnePerSession,
       CapacityRespected, PlanLifetime, InFlight, InState, HandlerState

(* What is left when the loop ends.                                        *)
LEMMA EndLoopStep ==
  ASSUME Inv, NEW err, EndLoop(err)
  PROVE  Inv'
BY EndStep DEF EndLoop, EndServe

(* A handler that moves on inside its flight, without starting or stopping *)
(* to run, keeps Inv.                                                      *)
LEMMA MoveStep ==
  ASSUME TypeOK, Inv, NEW r \in Request, NEW state \in HandlerState \ {"idle", "done"},
         handler[r] \notin {"idle", "done"},
         handler[r] \in {"running", "closing"} <=> state \in {"running", "closing"},
         handler' = [handler EXCEPT ![r] = state],
         UNCHANGED <<now, conn, loopVars, executions, runs>>
  PROVE  Inv'
<1>1. InFlight' = InFlight
  BY DEF InFlight, InState, HandlerState, TypeOK
<1>2. InState({"running", "closing"})' = InState({"running", "closing"})
  BY DEF InState, HandlerState, TypeOK
<1>3. \A s \in Request : handler'[s] = "idle" <=> handler[s] = "idle"
  BY DEF TypeOK
<1>4. Once' /\ Remembers'
  BY <1>3 DEF Inv, Once, Remembers, loopVars
<1>5. SlotsMatchWork' /\ OnePerSession' /\ CapacityRespected'
  BY <1>1 DEF Inv, SlotsMatchWork, OnePerSession, CapacityRespected, loopVars
<1>6. PlanLifetime'
  BY <1>2 DEF Inv, PlanLifetime
<1> QED
  BY <1>4, <1>5, <1>6 DEF Inv

(* Pruning forgets only identifiers whose deadline has passed.             *)
LEMMA RememberedStep ==
  ASSUME TypeOK, Inv, NEW r \in Request, NEW kept \in {seen, Remembered},
         Refuse(r, kept)
  PROVE  Inv'
<1>1. CASE EndLoop("unknown")
  BY <1>1, EndLoopStep
<1>2. CASE ~EndLoop("unknown")
  <2>1. /\ seen' = kept
        /\ UNCHANGED <<now, conn, active, sessions, handler, executions, runs>>
    BY <1>2 DEF Refuse, linkVars, workVars
  <2>2. \A q \in seen : q \in kept \/ DeadlineOf[q] <= now
    BY ConnectionAssumption DEF Remembered, TypeOK
  <2>3. Remembers'
    BY <2>1, <2>2 DEF Inv, Remembers, TypeOK
  <2> QED
    BY <2>1, <2>3 DEF Inv, Once, SlotsMatchWork, OnePerSession,
       CapacityRespected, PlanLifetime, InFlight, InState
<1> QED
  BY <1>1, <1>2

(* Starting a handler: the request is new, its session idle, a slot free.  *)
LEMMA StartStep ==
  ASSUME UniqueIds, TypeOK, Inv, NEW r \in Request, InvokeStarted(r)
  PROVE  Inv'
<1> USE ConnectionAssumption
<1>1. /\ conn = "serving"
      /\ NotSeen(r)
      /\ SlotFree
      /\ SessionOf[r] \notin sessions
      /\ DeadlineOf[r] > now
      /\ StartHandler(r)
  BY DEF InvokeStarted, Receiving, Selecting, Admissible, SessionFree
<1>2. active = InFlight /\ sessions = {SessionOf[s] : s \in InFlight}
  BY <1>1 DEF Inv, SlotsMatchWork
<1>3. r \notin seen /\ ~(DeadlineOf[r] <= now)
  BY <1>1 DEF NotSeen, TypeOK
<1>4. handler[r] = "idle" /\ runs[r] = 0
  BY <1>1, <1>3 DEF Inv, Remembers, Once
<1>5. r \notin InFlight
  BY <1>4 DEF InFlight, InState
<1>6. handler' = [handler EXCEPT ![r] = "running"]
  BY <1>1 DEF StartHandler
<1>7. InFlight' = InFlight \cup {r}
  BY <1>6 DEF InFlight, InState, HandlerState, TypeOK
<1>8. /\ conn' = conn /\ now' = now
      /\ active' = (active \ Holding(IdOf[r])) \cup {r}
      /\ sessions' = sessions \cup {SessionOf[r]}
      /\ seen' = Remembered \cup {r}
      /\ runs' = [runs EXCEPT ![r] = @ + 1]
  BY <1>1 DEF StartHandler, linkVars
<1>9. Once'
  BY <1>4, <1>6, <1>8 DEF Inv, Once, TypeOK
<1>10. Remembers'
  <2>1. \A s \in seen : s \in Remembered \/ DeadlineOf[s] <= now
    BY DEF Remembered, TypeOK
  <2> QED
    BY <1>1, <1>6, <1>8, <2>1 DEF Inv, Remembers, TypeOK
<1>11. SlotsMatchWork'
  <2>1. Holding(IdOf[r]) \subseteq {r}
    BY DEF Holding, UniqueIds, TypeOK
  <2>2. active' = InFlight'
    BY <1>2, <1>5, <1>7, <1>8, <2>1
  <2>3. sessions' = {SessionOf[s] : s \in InFlight'}
    BY <1>2, <1>7, <1>8
  <2> QED
    BY <2>2, <2>3 DEF SlotsMatchWork
<1>12. OnePerSession'
  <2>1. \A s \in InFlight : SessionOf[s] # SessionOf[r]
    BY <1>1, <1>2
  <2> QED
    BY <1>7, <2>1 DEF Inv, OnePerSession
<1>13. CapacityRespected'
  <2>1. Cardinality(InFlight) < MaxConcurrent
    BY <1>1, <1>2 DEF SlotFree
  <2>2. Cardinality(InFlight \cup {r}) = Cardinality(InFlight) + 1
    BY <1>5, InFlightFinite, FS_AddElement
  <2> QED
    BY <1>7, <2>1, <2>2, InFlightFinite DEF CapacityRespected
<1>14. PlanLifetime'
  <2>1. InState({"running", "closing"})' = InState({"running", "closing"}) \cup {r}
    BY <1>6 DEF InState, TypeOK
  <2>2. executions' = IF r \in PlanRequests THEN executions \cup {SessionOf[r]}
                                            ELSE executions
    BY <1>1 DEF StartHandler
  <2> QED
    BY <2>1, <2>2 DEF Inv, PlanLifetime
<1> QED
  BY <1>9, <1>10, <1>11, <1>12, <1>13, <1>14 DEF Inv

(* A handler returns: its plan ends, and no other handler in flight has    *)
(* one for the same session.                                               *)
LEMMA ReturnStep ==
  ASSUME TypeOK, Inv, NEW r \in Request, HandlerReturns(r)
  PROVE  Inv'
<1>1. /\ handler[r] = "running"
      /\ handler' = [handler EXCEPT ![r] = "returned"]
      /\ executions' = PlansAfter(r)
      /\ UNCHANGED <<now, conn, active, sessions, seen, runs>>
  BY DEF HandlerReturns, linkVars, loopVars
<1>2. InFlight' = InFlight
  BY <1>1 DEF InFlight, InState, HandlerState, TypeOK
<1>3. InState({"running", "closing"})' = InState({"running", "closing"}) \ {r}
  BY <1>1 DEF InState, TypeOK
<1>4. r \in InFlight /\ InState({"running", "closing"}) \subseteq InFlight
  BY <1>1 DEF InFlight, InState, HandlerState
<1>5. Once' /\ Remembers'
  BY <1>1 DEF Inv, Once, Remembers, TypeOK
<1>6. SlotsMatchWork' /\ OnePerSession' /\ CapacityRespected'
  BY <1>1, <1>2 DEF Inv, SlotsMatchWork, OnePerSession, CapacityRespected
<1>7. PlanLifetime'
  <2>1. \A s \in InState({"running", "closing"}) \ {r} : SessionOf[s] # SessionOf[r]
    BY <1>4 DEF Inv, OnePerSession
  <2> QED
    BY <1>1, <1>3, <2>1 DEF Inv, PlanLifetime, PlansAfter
<1> QED
  BY <1>5, <1>6, <1>7 DEF Inv

(* The loop answers: exactly this request leaves the maps.                 *)
LEMMA AnswerStep ==
  ASSUME UniqueIds, TypeOK, Inv, NEW r \in Request, AnswerResult(r)
  PROVE  Inv'
<1>1. /\ conn = "serving"
      /\ handler[r] = "taken"
      /\ handler' = [handler EXCEPT ![r] = "done"]
      /\ UNCHANGED <<now, executions, runs>>
  BY DEF AnswerResult
<1>2. r \in InFlight
  BY <1>1 DEF InFlight, InState, HandlerState
<1>3. InFlight' = InFlight \ {r}
  BY <1>1 DEF InFlight, InState, HandlerState, TypeOK
<1>4. InState({"running", "closing"})' = InState({"running", "closing"})
  BY <1>1 DEF InState, TypeOK
<1>5. Once' /\ OnePerSession'
  BY <1>1, <1>3 DEF Inv, Once, OnePerSession, TypeOK
<1>6. CapacityRespected'
  <2>1. Cardinality(InFlight \ {r}) = Cardinality(InFlight) - 1
    BY <1>2, InFlightFinite, FS_RemoveElement
  <2> QED
    BY <1>3, <2>1, InFlightFinite, ConnectionAssumption DEF Inv, CapacityRespected
<1>7. PlanLifetime'
  BY <1>1, <1>4 DEF Inv, PlanLifetime
<1>8. CASE conn' = "ended"
  BY <1>5, <1>6, <1>7, <1>8 DEF Inv, Remembers, SlotsMatchWork
<1>9. CASE conn' # "ended"
  <2>1. /\ active' = active \ Holding(IdOf[r])
        /\ sessions' = sessions \ FreedSessions(r)
        /\ UNCHANGED <<conn, seen>>
    BY <1>9 DEF AnswerResult, EndServe, linkVars
  <2>2. active = InFlight /\ sessions = {SessionOf[s] : s \in InFlight}
    BY <1>1 DEF Inv, SlotsMatchWork
  <2>3. Holding(IdOf[r]) = {r}
    BY <1>2, <2>2 DEF Holding, UniqueIds, TypeOK
  <2>4. active' = InFlight'
    BY <1>3, <2>1, <2>2, <2>3
  <2>5. FreedSessions(r) = {SessionOf[r]}
    BY <2>3 DEF FreedSessions
  <2>6. \A s \in InFlight \ {r} : SessionOf[s] # SessionOf[r]
    BY <1>2 DEF Inv, OnePerSession
  <2>7. sessions' = {SessionOf[s] : s \in InFlight'}
    BY <1>3, <2>1, <2>2, <2>5, <2>6
  <2>8. Remembers'
    BY <1>1, <2>1 DEF Inv, Remembers, TypeOK
  <2> QED
    BY <1>5, <1>6, <1>7, <2>4, <2>7, <2>8 DEF Inv, SlotsMatchWork
<1> QED
  BY <1>8, <1>9

(* Nothing has happened yet.                                               *)
LEMMA InitInv == Init => Inv
<1> SUFFICES ASSUME Init PROVE Inv
  OBVIOUS
<1>1. InFlight = {} /\ InState({"running", "closing"}) = {}
  BY DEF Init, InFlight, InState, HandlerState
<1>2. Cardinality(InFlight) = 0
  BY <1>1, FS_EmptySet
<1> QED
  BY <1>1, <1>2, ConnectionAssumption
     DEF Init, Inv, Once, Remembers, SlotsMatchWork, OnePerSession,
         CapacityRespected, PlanLifetime

(* Each step keeps Inv.  Steps of one kind are cases of one lemma above.   *)
LEMMA EnvironmentInv == TypeOK /\ Inv /\ TypeOK' /\ Environment => Inv'
<1> SUFFICES ASSUME TypeOK, Inv, TypeOK', Environment PROVE Inv'
  OBVIOUS
<1>1. now' \in Nat /\ now <= now'
  BY DEF TypeOK, Environment, Tick, CancelConnection, SocketFails, ReaderFails,
         BrokerGrants, DeadlineFires
<1>2. UNCHANGED <<conn, loopVars, handler, executions, runs>>
  BY DEF Environment, Tick, CancelConnection, SocketFails, ReaderFails,
         BrokerGrants, DeadlineFires, linkVars, workVars
<1> QED
  BY <1>1, <1>2, QuietStep

(* The loop of the connection.                                             *)
LEMMA LoopInv ==
  ASSUME UniqueIds, TypeOK, Inv, Loop
  PROVE  Inv'
<1>1. CASE ExpireLease \/ EndOnContext \/ EndOnReadError \/ EndOnHeartbeat \/ RejectRenewal
  BY <1>1, EndLoopStep
     DEF ExpireLease, EndOnContext, EndOnReadError, EndOnHeartbeat, RejectRenewal
<1>2. CASE RenewLease
  <2>1. UNCHANGED <<now, handler, executions, runs>>
    BY <1>2 DEF RenewLease
  <2>2. CASE EndServe("unknown")
    BY <2>1, <2>2, EndStep DEF EndServe
  <2>3. CASE ~EndServe("unknown")
    <3>1. UNCHANGED <<conn, loopVars>>
      BY <1>2, <2>3 DEF RenewLease, linkVars
    <3> QED
      BY <2>1, <3>1, QuietStep DEF TypeOK
  <2> QED
    BY <2>2, <2>3
<1>3. CASE AcceptRenewal
  <2>1. UNCHANGED <<now, conn, loopVars, handler, executions, runs>>
    BY <1>3 DEF AcceptRenewal, linkVars, workVars
  <2> QED
    BY <2>1, QuietStep DEF TypeOK
<1>4. ASSUME NEW err \in {"expired", "revoked", "protocol"}, EndOnFrame(err)
      PROVE  Inv'
  BY <1>4, EndLoopStep DEF EndOnFrame
<1>5. ASSUME NEW i \in RequestId, CancelFrame(i) PROVE Inv'
  <2>1. UNCHANGED <<now, conn, loopVars, handler, executions, runs>>
    BY <1>5 DEF CancelFrame, linkVars
  <2> QED
    BY <2>1, QuietStep DEF TypeOK
<1>6. ASSUME NEW r \in Request, InvokeExpired(r) PROVE Inv'
  BY <1>6, EndLoopStep DEF InvokeExpired
<1>7. ASSUME NEW r \in Request, InvokeRefused(r) PROVE Inv'
  BY <1>7, RememberedStep DEF InvokeRefused
<1>8. ASSUME NEW r \in Request, InvokeTurnedAway(r) PROVE Inv'
  BY <1>8, RememberedStep DEF InvokeTurnedAway
<1>9. ASSUME NEW r \in Request, InvokeStarted(r) PROVE Inv'
  BY <1>9, StartStep
<1>10. ASSUME NEW r \in Request, TakeResult(r) PROVE Inv'
  <2>1. /\ handler[r] = "queued"
        /\ handler' = [handler EXCEPT ![r] = "taken"]
        /\ UNCHANGED <<now, conn, loopVars, executions, runs>>
    BY <1>10 DEF TakeResult, linkVars
  <2>2. "taken" \in HandlerState \ {"idle", "done"}
    BY DEF HandlerState
  <2> QED
    BY <2>1, <2>2, MoveStep
<1>11. ASSUME NEW r \in Request, AnswerResult(r) PROVE Inv'
  BY <1>11, AnswerStep
<1> QED
  BY <1>1, <1>2, <1>3, <1>4, <1>5, <1>6, <1>7, <1>8, <1>9, <1>10, <1>11 DEF Loop

(* The goroutines it starts.                                               *)
LEMMA HandlersInv ==
  ASSUME TypeOK, Inv, Handlers
  PROVE  Inv'
<1>1. ASSUME NEW r \in Request, HandlerReturns(r) PROVE Inv'
  BY <1>1, ReturnStep
<1>2. ASSUME NEW r \in Request, NEW state \in HandlerState \ {"idle", "done"},
             handler[r] \notin {"idle", "done"},
             handler[r] \in {"running", "closing"} <=> state \in {"running", "closing"},
             handler' = [handler EXCEPT ![r] = state],
             UNCHANGED <<now, conn, loopVars, executions, runs>>
      PROVE  Inv'
  BY <1>2, MoveStep
<1>3. ASSUME NEW r \in Request, HandlerReports(r) \/ HandlerCloses(r) \/ CloseReturns(r)
      PROVE  Inv'
  <2>1. UNCHANGED <<now, conn, loopVars, executions, runs>>
    BY <1>3 DEF HandlerReports, HandlerCloses, CloseReturns, linkVars
  <2>2. CASE HandlerReports(r)
    <3>1. handler[r] = "returned"
          /\ \E state \in {"queued", "dropped"} :
               handler' = [handler EXCEPT ![r] = state]
      BY <2>2 DEF HandlerReports
    <3> QED
      BY <1>2, <2>1, <3>1 DEF HandlerState
  <2>3. CASE HandlerCloses(r)
    BY <1>2, <2>1, <2>3 DEF HandlerCloses, HandlerState
  <2>4. CASE CloseReturns(r)
    BY <1>2, <2>1, <2>4 DEF CloseReturns, HandlerState
  <2> QED
    BY <1>3, <2>2, <2>3, <2>4
<1>4. ASSUME NEW r \in Request, BeginDelta(r) \/ EndDelta(r) PROVE Inv'
  <2>1. UNCHANGED <<now, conn, loopVars, handler, executions, runs>>
    BY <1>4 DEF BeginDelta, EndDelta, linkVars, workVars
  <2> QED
    BY <2>1, QuietStep DEF TypeOK
<1> QED
  BY <1>1, <1>3, <1>4 DEF Handlers

(* With one identifier per request, Inv holds in every reachable state.    *)
THEOREM Safety ==
  ASSUME UniqueIds
  PROVE  Spec => []Inv
<1>1. TypeOK /\ Inv /\ UNCHANGED vars => Inv'
  BY QuietStep DEF vars, linkVars, workVars, TypeOK
<1>2. TypeOK /\ TypeOK' /\ Inv /\ [Next]_vars => Inv'
  BY <1>1, EnvironmentInv, LoopInv, HandlersInv DEF Next
<1> QED
  BY InitInv, <1>2, TypeCorrect, PTL DEF Spec

(* A handler is started at most once for an identifier, however often its  *)
(* frame is delivered and whatever the replay window forgets.              *)
THEOREM StartsAtMostOnce ==
  ASSUME UniqueIds
  PROVE  Spec => []AtMostOnce
<1>1. Inv => AtMostOnce
  BY DEF Inv, Once, AtMostOnce, UniqueIds
<1> QED
  BY <1>1, Safety, PTL

(* Two handlers of one session never overlap.                              *)
THEOREM SessionsNeverOverlap ==
  ASSUME UniqueIds
  PROVE  Spec => []SessionsExclusive
<1>1. Inv => SessionsExclusive
  BY DEF Inv, OnePerSession, SessionsExclusive, InFlight, InState, HandlerState
<1> QED
  BY <1>1, Safety, PTL

(* No more than MaxConcurrent handlers are ever in flight.                 *)
THEOREM CapacityNeverExceeded ==
  ASSUME UniqueIds
  PROVE  Spec => []CapacityRespected
<1>1. Inv => CapacityRespected
  BY DEF Inv
<1> QED
  BY <1>1, Safety, PTL

(* The loop's maps hold exactly the work in flight while it serves.        *)
THEOREM SlotsNeverLeak ==
  ASSUME UniqueIds
  PROVE  Spec => []SlotsMatchWork
<1>1. Inv => SlotsMatchWork
  BY DEF Inv
<1> QED
  BY <1>1, Safety, PTL

(* A private scenario plan never outlives its handler, nor the reverse.    *)
THEOREM PlansNeverLeak ==
  ASSUME UniqueIds
  PROVE  Spec => []PlanLifetime
<1>1. Inv => PlanLifetime
  BY DEF Inv
<1> QED
  BY <1>1, Safety, PTL


-----------------------------------------------------------------------------
(***************************************************************************)
(* The strengthening about answers.  A terminal frame is the end of its    *)
(* request: the handler is done, the output closed and no text being       *)
(* written; and while the loop serves, a done handler has been answered.   *)
(***************************************************************************)
AnswerIsFinal ==
  \A r \in Request :
    answer[r] # "none" => handler[r] = "done" /\ r \in closed /\ r \notin writing

DoneIsAnswered ==
  conn = "serving" => \A r \in Request : handler[r] = "done" => answer[r] # "none"

AnswerInv == AnswerIsFinal /\ DoneIsAnswered

(* A request that is admitted has never been started.                      *)
LEMMA AdmittedIsNew ==
  ASSUME UniqueIds, TypeOK, Inv, NEW r \in Request, InvokeStarted(r)
  PROVE  handler[r] = "idle" /\ runs[r] = 0
<1>1. conn = "serving" /\ NotSeen(r) /\ DeadlineOf[r] > now
  BY DEF InvokeStarted, Receiving, Selecting, Admissible
<1>2. r \notin seen /\ ~(DeadlineOf[r] <= now)
  BY <1>1, ConnectionAssumption DEF NotSeen, TypeOK
<1> QED
  BY <1>1, <1>2 DEF Inv, Remembers, Once

(* The steps by what they do to the service: nothing, its end, a refusal,  *)
(* a start or an answer.                                                   *)
Quiet == UNCHANGED <<conn, runs, answer, refused>>
Ends  == conn = "serving" /\ conn' = "ended" /\ UNCHANGED <<runs, answer, refused>>
Refuses == \E r \in Request : /\ conn = "serving"
                              /\ refused' = refused \cup {r}
                              /\ UNCHANGED <<conn, runs, answer>>
Starts == \E r \in Request : InvokeStarted(r)
Answers == \E r \in Request : AnswerResult(r) /\ UNCHANGED <<conn, runs>>

(* A loop that ends gives up what is left.                                 *)
LEMMA EndLoopEnds ==
  ASSUME conn = "serving", NEW err, EndLoop(err)
  PROVE  Ends
BY DEF EndLoop, EndServe, Ends, outVars

(* A step starts an invocation, answers or refuses one, ends the loop, or  *)
(* does none of these.                                                     *)
LEMMA StepKinds == [Next]_vars => Quiet \/ Ends \/ Refuses \/ Starts \/ Answers
<1> SUFFICES ASSUME [Next]_vars PROVE Quiet \/ Ends \/ Refuses \/ Starts \/ Answers
  OBVIOUS
<1>1. CASE UNCHANGED vars
  BY <1>1 DEF vars, linkVars, workVars, outVars, Quiet
<1>2. CASE Environment
  BY <1>2 DEF Environment, Tick, CancelConnection, SocketFails, ReaderFails,
         BrokerGrants, DeadlineFires, linkVars, workVars, outVars, Quiet
<1>3. CASE Handlers
  BY <1>3 DEF Handlers, HandlerReturns, HandlerReports, HandlerCloses, CloseReturns,
         BeginDelta, EndDelta, linkVars, workVars, outVars, Quiet
<1>4. CASE Loop
  <2>1. CASE \/ ExpireLease \/ EndOnContext \/ EndOnReadError \/ EndOnHeartbeat
             \/ RejectRenewal
    BY <2>1, EndLoopEnds
       DEF ExpireLease, EndOnContext, EndOnReadError, EndOnHeartbeat, RejectRenewal,
           Receiving, Selecting
  <2>2. CASE RenewLease
    BY <2>2 DEF RenewLease, Selecting, EndServe, linkVars, outVars, Quiet, Ends
  <2>3. CASE AcceptRenewal \/ \E i \in RequestId : CancelFrame(i)
    BY <2>3 DEF AcceptRenewal, CancelFrame, linkVars, workVars, outVars, Quiet
  <2>4. ASSUME NEW err \in {"expired", "revoked", "protocol"}, EndOnFrame(err)
        PROVE  Ends
    BY <2>4, EndLoopEnds DEF EndOnFrame, Receiving, Selecting
  <2>5. ASSUME NEW r \in Request, InvokeExpired(r) PROVE Ends
    BY <2>5, EndLoopEnds DEF InvokeExpired, Receiving, Selecting
  <2>6. ASSUME NEW r \in Request, InvokeRefused(r) \/ InvokeTurnedAway(r)
        PROVE  Refuses \/ Ends
    <3>1. conn = "serving" /\ (Refuse(r, seen) \/ Refuse(r, Remembered))
      BY <2>6 DEF InvokeRefused, InvokeTurnedAway, Receiving, Selecting
    <3> QED
      BY <3>1, EndLoopEnds DEF Refuse, linkVars, workVars, Refuses
  <2>7. ASSUME NEW r \in Request, TakeResult(r) PROVE Quiet
    BY <2>7 DEF TakeResult, linkVars, outVars, Quiet
  <2>8. ASSUME NEW r \in Request, AnswerResult(r) PROVE Ends \/ Answers
    BY <2>8 DEF AnswerResult, EndServe, linkVars, Ends, Answers
  <2> QED
    BY <1>4, <2>1, <2>2, <2>3, <2>4, <2>5, <2>6, <2>7, <2>8 DEF Loop, Starts
<1> QED
  BY <1>1, <1>2, <1>3, <1>4 DEF Next

-----------------------------------------------------------------------------
(* The invariant about answers *)

(* Nothing is answered yet.                                                *)
LEMMA InitAnswerInv == Init => AnswerInv
BY DEF Init, AnswerInv, AnswerIsFinal, DoneIsAnswered

(* The loop's ends leave handlers, outputs and answers where they stand.   *)
LEMMA EndKeepsAnswers ==
  ASSUME AnswerInv, conn' = "ended" \/ conn' = conn,
         UNCHANGED <<handler, closed, writing, answer>>
  PROVE  AnswerInv'
BY DEF AnswerInv, AnswerIsFinal, DoneIsAnswered

(* A handler that is not done moves to a state other than done.            *)
LEMMA MoveKeepsAnswers ==
  ASSUME TypeOK, AnswerInv, NEW r \in Request, NEW state \in HandlerState \ {"done"},
         handler[r] # "done", handler' = [handler EXCEPT ![r] = state],
         UNCHANGED <<conn, closed, writing, answer>>
  PROVE  AnswerInv'
BY DEF TypeOK, AnswerInv, AnswerIsFinal, DoneIsAnswered

(* The loop of the connection.                                             *)
LEMMA LoopAnswerInv ==
  ASSUME UniqueIds, TypeOK, Inv, AnswerInv, Loop
  PROVE  AnswerInv'
<1>1. ASSUME NEW err, EndLoop(err) PROVE AnswerInv'
  BY <1>1, EndKeepsAnswers DEF EndLoop, EndServe, outVars
<1>2. CASE \/ ExpireLease \/ EndOnContext \/ EndOnReadError \/ EndOnHeartbeat
           \/ RejectRenewal
  BY <1>1, <1>2
     DEF ExpireLease, EndOnContext, EndOnReadError, EndOnHeartbeat, RejectRenewal
<1>3. CASE RenewLease \/ AcceptRenewal \/ \E i \in RequestId : CancelFrame(i)
  <2>1. /\ UNCHANGED <<handler, closed, writing, answer>>
        /\ conn' = "ended" \/ conn' = conn
    BY <1>3 DEF RenewLease, EndServe, AcceptRenewal, CancelFrame, linkVars,
                workVars, outVars
  <2> QED
    BY <2>1, EndKeepsAnswers
<1>4. ASSUME NEW err \in {"expired", "revoked", "protocol"}, EndOnFrame(err)
      PROVE  AnswerInv'
  BY <1>1, <1>4 DEF EndOnFrame
<1>5. ASSUME NEW r \in Request,
             InvokeExpired(r) \/ InvokeRefused(r) \/ InvokeTurnedAway(r)
      PROVE  AnswerInv'
  <2>1. CASE \E err \in {"expired", "unknown"} : EndLoop(err)
    BY <1>1, <2>1
  <2>2. CASE ~\E err \in {"expired", "unknown"} : EndLoop(err)
    <3>1. UNCHANGED <<conn, handler, closed, writing, answer>>
      BY <1>5, <2>2 DEF InvokeExpired, InvokeRefused, InvokeTurnedAway, Refuse,
                        linkVars, workVars, outVars
    <3> QED
      BY <3>1, EndKeepsAnswers
  <2> QED
    BY <2>1, <2>2
<1>6. ASSUME NEW r \in Request, InvokeStarted(r) PROVE AnswerInv'
  <2>1. handler[r] = "idle"
    BY <1>6, AdmittedIsNew
  <2>2. /\ handler' = [handler EXCEPT ![r] = "running"]
        /\ closed' = closed \ {r}
        /\ UNCHANGED <<conn, writing, answer>>
    BY <1>6 DEF InvokeStarted, StartHandler, linkVars
  <2> QED
    BY <2>1, <2>2 DEF TypeOK, AnswerInv, AnswerIsFinal, DoneIsAnswered
<1>7. ASSUME NEW r \in Request, TakeResult(r) PROVE AnswerInv'
  BY <1>7, MoveKeepsAnswers DEF TakeResult, linkVars, outVars, HandlerState
<1>8. ASSUME NEW r \in Request, AnswerResult(r) PROVE AnswerInv'
  <2>1. /\ handler[r] = "taken" /\ r \notin writing
        /\ handler' = [handler EXCEPT ![r] = "done"]
        /\ closed' = closed \cup {r}
        /\ writing' = writing
    BY <1>8 DEF AnswerResult, OutputQuiet
  <2>2. \/ answer' = [answer EXCEPT ![r] = AnswerOf(r)] /\ conn' = conn
        \/ answer' = answer /\ conn' = "ended"
    BY <1>8 DEF AnswerResult, EndServe, linkVars
  <2>3. AnswerOf(r) # "none"
    BY DEF AnswerOf
  <2> QED
    BY <2>1, <2>2, <2>3 DEF TypeOK, AnswerInv, AnswerIsFinal, DoneIsAnswered
<1> QED
  BY <1>2, <1>3, <1>4, <1>5, <1>6, <1>7, <1>8 DEF Loop

(* The goroutines it starts.                                               *)
LEMMA HandlersAnswerInv ==
  ASSUME TypeOK, AnswerInv, Handlers
  PROVE  AnswerInv'
<1>1. ASSUME NEW r \in Request,
             HandlerReturns(r) \/ HandlerReports(r) \/ HandlerCloses(r) \/ CloseReturns(r)
      PROVE  AnswerInv'
  <2>1. /\ handler[r] # "done"
        /\ UNCHANGED <<conn, closed, writing, answer>>
        /\ \E state \in HandlerState \ {"done"} :
             handler' = [handler EXCEPT ![r] = state]
    BY <1>1 DEF HandlerReturns, HandlerReports, HandlerCloses, CloseReturns,
                HandlerState, linkVars, outVars
  <2> QED
    BY <2>1, MoveKeepsAnswers
<1>2. ASSUME NEW r \in Request, BeginDelta(r) PROVE AnswerInv'
  BY <1>2 DEF BeginDelta, linkVars, workVars, AnswerInv, AnswerIsFinal, DoneIsAnswered
<1>3. ASSUME NEW r \in Request, EndDelta(r) PROVE AnswerInv'
  BY <1>3 DEF EndDelta, workVars, AnswerInv, AnswerIsFinal, DoneIsAnswered
<1> QED
  BY <1>1, <1>2, <1>3 DEF Handlers

(* Answers are final, and while the loop serves no result is left behind.  *)
THEOREM AnswersSafe ==
  ASSUME UniqueIds
  PROVE  Spec => []AnswerInv
<1>1. AnswerInv /\ (UNCHANGED vars \/ Environment) => AnswerInv'
  <2>1. UNCHANGED vars \/ Environment
          => UNCHANGED <<conn, handler, closed, writing, answer>>
    BY DEF vars, Environment, Tick, CancelConnection, SocketFails, ReaderFails,
           BrokerGrants, DeadlineFires, linkVars, workVars, outVars
  <2> QED
    BY <2>1, EndKeepsAnswers
<1>2. TypeOK /\ Inv /\ AnswerInv /\ [Next]_vars => AnswerInv'
  BY <1>1, LoopAnswerInv, HandlersAnswerInv DEF Next
<1> QED
  BY InitAnswerInv, <1>2, TypeCorrect, Safety, PTL DEF Spec

-----------------------------------------------------------------------------
(* The wire *)

(* Only the end of a write puts text on the wire.                          *)
LEMMA OnlyWritesSend ==
  ASSUME [Next]_vars, sent' # sent
  PROVE  \E r \in Request : r \in writing /\ sent' = [sent EXCEPT ![r] = @ + 1]
<1>1. ~ UNCHANGED vars /\ ~ Environment
  BY DEF vars, Environment, Tick, CancelConnection, SocketFails, ReaderFails,
         BrokerGrants, DeadlineFires, outVars
<1>2. ~ Loop
  BY DEF Loop, ExpireLease, EndOnContext, EndOnReadError, EndOnHeartbeat, RenewLease,
         AcceptRenewal, RejectRenewal, EndOnFrame, CancelFrame, InvokeExpired,
         InvokeRefused, InvokeTurnedAway, InvokeStarted, StartHandler, TakeResult,
         AnswerResult, Refuse, EndLoop, outVars
<1>3. Handlers
  BY <1>1, <1>2 DEF Next
<1> QED
  BY <1>3 DEF Handlers, HandlerReturns, HandlerReports, HandlerCloses, CloseReturns,
              BeginDelta, EndDelta, outVars

(* No text of an invocation follows the terminal frame of its result on    *)
(* the wire, whatever the goroutines a handler left behind still try to    *)
(* write, and however often deliveries of it are refused meanwhile.        *)
THEOREM TextEndsWithAnswer ==
  ASSUME UniqueIds
  PROVE  Spec => NoDeltaAfterAnswer
<1>1. TypeOK /\ AnswerInv /\ [Next]_vars
        => \A r \in Request : sent'[r] # sent[r] => answer[r] = "none"
  <2> SUFFICES ASSUME TypeOK, AnswerInv, [Next]_vars, NEW r \in Request,
                      sent'[r] # sent[r]
               PROVE  answer[r] = "none"
    OBVIOUS
  <2>1. PICK s \in Request : s \in writing /\ sent' = [sent EXCEPT ![s] = @ + 1]
    BY OnlyWritesSend
  <2>2. r = s
    BY <2>1 DEF TypeOK
  <2> QED
    BY <2>1, <2>2 DEF AnswerInv, AnswerIsFinal
<1> QED
  BY <1>1, TypeCorrect, AnswersSafe, PTL DEF Spec, NoDeltaAfterAnswer

-----------------------------------------------------------------------------
(* The lease *)

(* Only an acknowledgement that arrives in time, and within the window,    *)
(* moves the expiry; otherwise the clock and the broker only move on.      *)
LEMMA LeaseStep ==
  ASSUME TypeOK, TypeOK', [Next]_vars
  PROVE  /\ now <= now' /\ granted.exp <= granted'.exp
         /\ conn' = "serving" => conn = "serving"
         /\ \/ expiresAt' = expiresAt
            \/ AcceptRenewal
<1>1. CASE UNCHANGED vars
  BY <1>1 DEF vars, leaseVars, linkVars, TypeOK
<1>2. CASE Environment
  BY <1>2 DEF Environment, Tick, CancelConnection, SocketFails, ReaderFails,
         BrokerGrants, DeadlineFires, leaseVars, linkVars, TypeOK
<1>3. CASE Loop
  <2>1. UNCHANGED <<now, granted>>
    BY <1>3
       DEF Loop, ExpireLease, EndOnContext, EndOnReadError, EndOnHeartbeat, RenewLease,
           AcceptRenewal, RejectRenewal, EndOnFrame, CancelFrame, InvokeExpired,
           InvokeRefused, InvokeTurnedAway, InvokeStarted, StartHandler, TakeResult,
           AnswerResult, Refuse, EndLoop, leaseVars
  <2>2. conn = "serving"
    BY <1>3
       DEF Loop, ExpireLease, EndOnContext, EndOnReadError, EndOnHeartbeat, RenewLease,
           AcceptRenewal, RejectRenewal, EndOnFrame, CancelFrame, InvokeExpired,
           InvokeRefused, InvokeTurnedAway, InvokeStarted, TakeResult, AnswerResult,
           Receiving, Selecting
  <2>3. expiresAt' = expiresAt \/ AcceptRenewal
    BY <1>3
       DEF Loop, ExpireLease, EndOnContext, EndOnReadError, EndOnHeartbeat, RenewLease,
           RejectRenewal, EndOnFrame, CancelFrame, InvokeExpired, InvokeRefused,
           InvokeTurnedAway, InvokeStarted, StartHandler, TakeResult, AnswerResult,
           Refuse, EndLoop, leaseVars
  <2> QED
    BY <2>1, <2>2, <2>3 DEF TypeOK
<1>4. CASE Handlers
  BY <1>4 DEF Handlers, HandlerReturns, HandlerReports, HandlerCloses, CloseReturns,
         BeginDelta, EndDelta, leaseVars, linkVars, TypeOK
<1> QED
  BY <1>1, <1>2, <1>3, <1>4 DEF Next

(* The client never believes in a lease the broker has not granted, nor in *)
(* one longer than the window it asked for.                                *)
THEOREM LeaseNeverOverestimated == Spec => []LeaseBounded
<1>1. Init => LeaseBounded
  BY ConnectionAssumption DEF Init, LeaseBounded
<1>2. TypeOK /\ TypeOK' /\ LeaseBounded /\ [Next]_vars => LeaseBounded'
  <2> SUFFICES ASSUME TypeOK, TypeOK', LeaseBounded, [Next]_vars, conn' = "serving"
               PROVE  /\ expiresAt' <= granted'.exp
                      /\ expiresAt' <= now' + LeaseDuration + LeaseSlack
    BY DEF LeaseBounded
  <2>1. CASE expiresAt' = expiresAt
    <3>1. conn = "serving" /\ now <= now' /\ granted.exp <= granted'.exp
      BY LeaseStep
    <3>2. /\ expiresAt \in Nat /\ now \in Nat /\ now' \in Nat
          /\ granted.exp \in Nat /\ granted'.exp \in Nat
      BY DEF TypeOK
    <3>3. LeaseDuration \in Nat /\ LeaseSlack \in Nat
      BY ConnectionAssumption
    <3>4. expiresAt <= granted.exp /\ expiresAt <= now + LeaseDuration + LeaseSlack
      BY <3>1 DEF LeaseBounded
    <3>5. expiresAt' <= granted'.exp
      BY <2>1, <3>1, <3>2, <3>4
    <3>6. expiresAt' <= now' + LeaseDuration + LeaseSlack
      <4>1. \A a, b, c, d, e \in Nat : a <= b /\ e <= a + c + d => e <= b + c + d
        OBVIOUS
      <4> QED
        BY <2>1, <3>1, <3>2, <3>3, <3>4, <4>1
    <3> QED
      BY <3>5, <3>6
  <2>2. CASE AcceptRenewal
    <3>1. /\ expiresAt' = granted.exp /\ granted' = granted /\ now' = now
          /\ granted.exp <= now + LeaseDuration + LeaseSlack
      BY <2>2 DEF AcceptRenewal, AckValid, AckInWindow
    <3> QED
      BY <3>1, ConnectionAssumption DEF TypeOK
  <2> QED
    BY <2>1, <2>2, LeaseStep
<1> QED
  BY <1>1, <1>2, TypeCorrect, PTL DEF Spec

(* An expired lease is not revived by a late acknowledgement, and starts   *)
(* no handler, whichever of timer and frame the loop sees first.           *)
THEOREM ExpiryIsFinal == Spec => ExpiredStaysExpired
<1>1. TypeOK /\ TypeOK' /\ [Next]_vars
        => (now >= expiresAt => expiresAt' = expiresAt /\ runs' = runs)
  <2> SUFFICES ASSUME TypeOK, TypeOK', [Next]_vars, now >= expiresAt
               PROVE  expiresAt' = expiresAt /\ runs' = runs
    OBVIOUS
  <2>1. ~ AcceptRenewal
    BY DEF AcceptRenewal, AckValid, TypeOK
  <2>2. ~ Starts
    BY DEF Starts, InvokeStarted, TypeOK
  <2>3. runs' = runs
    BY <2>2, StepKinds DEF Quiet, Ends, Refuses, Answers
  <2> QED
    BY <2>1, <2>3, LeaseStep
<1> QED
  BY <1>1, TypeCorrect, PTL DEF Spec, ExpiredStaysExpired

-----------------------------------------------------------------------------
(* Cancellation *)

(* A handler that runs has no outcome yet.                                 *)
RunningUndecided ==
  \A r \in Request : handler[r] \in {"running", "closing"} => outcome[r] = "none"

(* Outcomes and the set of running handlers change only when a handler     *)
(* starts or returns.                                                      *)
LEMMA OutcomeSteps ==
  ASSUME TypeOK, [Next]_vars
  PROVE  \/ \E r \in Request : InvokeStarted(r)
         \/ \E r \in Request : HandlerReturns(r)
         \/ /\ outcome' = outcome
            /\ \A r \in Request : handler'[r] \in {"running", "closing"}
                                   => handler[r] \in {"running", "closing"}
<1>1. CASE UNCHANGED vars \/ Environment
  BY <1>1 DEF vars, Environment, Tick, CancelConnection, SocketFails, ReaderFails,
         BrokerGrants, DeadlineFires, workVars
<1>2. CASE Loop
  <2>1. CASE \E r \in Request : InvokeStarted(r)
    BY <2>1
  <2>2. CASE \E r \in Request : TakeResult(r) \/ AnswerResult(r)
    BY <2>2 DEF TakeResult, AnswerResult, TypeOK
  <2>3. CASE ~ \E r \in Request : InvokeStarted(r) \/ TakeResult(r) \/ AnswerResult(r)
    <3>1. UNCHANGED <<outcome, handler>>
      BY <1>2, <2>3
         DEF Loop, ExpireLease, EndOnContext, EndOnReadError, EndOnHeartbeat,
             RenewLease, AcceptRenewal, RejectRenewal, EndOnFrame, CancelFrame,
             InvokeExpired, InvokeRefused, InvokeTurnedAway, Refuse, EndLoop, workVars
    <3> QED
      BY <3>1
  <2> QED
    BY <2>1, <2>2, <2>3
<1>3. CASE Handlers
  BY <1>3 DEF Handlers, HandlerReports, HandlerCloses, CloseReturns, BeginDelta,
         EndDelta, workVars, TypeOK
<1> QED
  BY <1>1, <1>2, <1>3 DEF Next

(* Nobody else decides what runs.                                          *)
LEMMA RunningStaysUndecided ==
  TypeOK /\ RunningUndecided /\ [Next]_vars => RunningUndecided'
<1> SUFFICES ASSUME TypeOK, RunningUndecided, [Next]_vars PROVE RunningUndecided'
  OBVIOUS
<1>1. CASE \E r \in Request : InvokeStarted(r)
  BY <1>1 DEF InvokeStarted, StartHandler, RunningUndecided, TypeOK
<1>2. CASE \E r \in Request : HandlerReturns(r)
  BY <1>2 DEF HandlerReturns, RunningUndecided, TypeOK
<1> QED
  BY <1>1, <1>2, OutcomeSteps DEF RunningUndecided

(* Only the answer of a result completes a request.                        *)
LEMMA OnlyOkCompletes ==
  ASSUME TypeOK, [Next]_vars, NEW r \in Request,
         answer'[r] = "completed", answer[r] # "completed"
  PROVE  outcome[r] = "ok"
<1>1. ~ Quiet /\ ~ Ends /\ ~ Refuses
  BY DEF Quiet, Ends, Refuses
<1>2. ~ Starts
  BY DEF Starts, InvokeStarted, StartHandler
<1>3. PICK s \in Request : AnswerResult(s) /\ UNCHANGED conn
  BY <1>1, <1>2, StepKinds DEF Answers
<1>4. answer' = [answer EXCEPT ![s] = AnswerOf(s)]
  BY <1>3 DEF AnswerResult, EndServe
<1>5. r = s /\ AnswerOf(s) = "completed"
  BY <1>4 DEF TypeOK
<1> QED
  BY <1>5 DEF AnswerOf

(* Work whose context was done before its handler returned is never        *)
(* reported as completed, even when the handler returned nil.              *)
THEOREM CancelledWorkFails == Spec => CancelledNeverCompletes
<1>1. Init => RunningUndecided
  BY DEF Init, RunningUndecided
<1>2. TypeOK /\ RunningUndecided /\ [Next]_vars
        => \A r \in Request :
             /\ r \in cancelled /\ handler[r] \in {"running", "closing"}
                  => outcome'[r] # "ok"
             /\ answer'[r] = "completed" /\ answer[r] # "completed"
                  => outcome[r] = "ok"
  <2> SUFFICES ASSUME TypeOK, RunningUndecided, [Next]_vars, NEW r \in Request,
                      r \in cancelled, handler[r] \in {"running", "closing"}
               PROVE  outcome'[r] # "ok"
    BY OnlyOkCompletes
  <2>1. outcome[r] = "none"
    BY DEF RunningUndecided
  <2>2. ASSUME NEW s \in Request, InvokeStarted(s) PROVE outcome'[r] # "ok"
    BY <2>1, <2>2 DEF InvokeStarted, StartHandler, TypeOK
  <2>3. ASSUME NEW s \in Request, HandlerReturns(s) PROVE outcome'[r] # "ok"
    <3>1. r = s => outcome'[r] = "error"
      BY <2>3 DEF HandlerReturns, ResultOf, TypeOK
    <3>2. r # s => outcome'[r] = outcome[r]
      BY <2>3 DEF HandlerReturns, TypeOK
    <3> QED
      BY <2>1, <3>1, <3>2
  <2> QED
    BY <2>1, <2>2, <2>3, OutcomeSteps
<1> QED
  BY <1>1, <1>2, RunningStaysUndecided, TypeCorrect, PTL
     DEF Spec, CancelledNeverCompletes

-----------------------------------------------------------------------------
(* The refinement *)

Status == [r \in Request |-> StatusOf(r)]

(* The cardinality the service counts with is the one of the connection.   *)
LEMMA SameCardinality ==
  ASSUME NEW S
  PROVE  Service!Cardinality(S) = Cardinality(S)
BY DEF Service!Cardinality, Cardinality

(* What the service sees as started is, while the loop serves, the work in *)
(* flight, which is what the loop's maps hold.                             *)
LEMMA StartedIsActive ==
  ASSUME TypeOK, Inv, AnswerInv, conn = "serving"
  PROVE  /\ Service!Started = active
         /\ \A r \in active : StatusOf(r) = "started"
<1>1. active = InFlight
  BY DEF Inv, SlotsMatchWork
<1>2. \A r \in Request : r \in InFlight <=> handler[r] # "idle" /\ handler[r] # "done"
  BY DEF InFlight, InState, TypeOK, HandlerState
<1>3. \A r \in Request : /\ handler[r] = "idle" <=> runs[r] = 0
                         /\ handler[r] = "done" <=> answer[r] # "none"
  BY DEF Inv, Once, AnswerInv, AnswerIsFinal, DoneIsAnswered
<1>4. \A r \in Request : StatusOf(r) = "started" <=> r \in InFlight
  <2> TAKE r \in Request
  <2>1. handler[r] = "idle" => handler[r] # "done"
    OBVIOUS
  <2>2. answer[r] \in {"none", "completed", "failed"}
    BY DEF TypeOK
  <2> QED
    BY <1>2, <1>3, <2>1, <2>2 DEF StatusOf
<1>5. Service!Started = {r \in Request : StatusOf(r) = "started"}
  BY DEF Service!Started
<1> QED
  BY <1>1, <1>4, <1>5 DEF TypeOK

(* The service starts idle.                                                *)
LEMMA InitImplements == Init => Service!AbsInit
BY DEF Init, Service!AbsInit, StatusOf

(* A quiet step, and any step after the end, is a stutter of the service.  *)
LEMMA QuietStutters ==
  ASSUME Quiet
  PROVE  UNCHANGED Service!absVars
<1>1. \A r \in Request : StatusOf(r)' = StatusOf(r)
  BY DEF Quiet, StatusOf
<1> QED
  BY <1>1 DEF Quiet, Service!absVars

(* A loop that ends is what the service calls its end.                     *)
LEMMA EndImplements ==
  ASSUME TypeOK, Ends
  PROVE  Service!StopService
<1>1. ASSUME NEW r \in Request
      PROVE  StatusOf(r)' = IF StatusOf(r) = "started" THEN "lost" ELSE StatusOf(r)
  <2>1. answer[r] \in {"none", "completed", "failed"} /\ answer' = answer /\ runs' = runs
    BY DEF TypeOK, Ends
  <2>2. CASE answer[r] # "none"
    BY <2>1, <2>2 DEF StatusOf
  <2>3. CASE answer[r] = "none" /\ runs[r] = 0
    BY <2>1, <2>3 DEF StatusOf
  <2>4. CASE answer[r] = "none" /\ runs[r] # 0
    BY <2>1, <2>4 DEF StatusOf, Ends
  <2> QED
    BY <2>2, <2>3, <2>4
<1> QED
  BY <1>1 DEF Ends, Service!StopService

(* An accepted offer is a start of the service.                            *)
LEMMA StartImplements ==
  ASSUME UniqueIds, TypeOK, Inv, AnswerInv, NEW r \in Request, InvokeStarted(r)
  PROVE  Service!StartRequest(r)
<1>1. handler[r] = "idle" /\ runs[r] = 0
  BY AdmittedIsNew
<1>2. answer[r] = "none"
  BY <1>1 DEF AnswerInv, AnswerIsFinal
<1>3. /\ conn = "serving" /\ conn' = conn
      /\ SlotFree /\ SessionOf[r] \notin sessions
      /\ runs' = [runs EXCEPT ![r] = @ + 1] /\ answer' = answer
      /\ refused' = refused
  BY DEF InvokeStarted, Receiving, Selecting, Admissible, SessionFree, StartHandler,
         linkVars
<1>4. StatusOf(r) = "new" /\ StatusOf(r)' = "started"
  <2>1. runs'[r] = 1
    BY <1>1, <1>3 DEF TypeOK
  <2>2. answer'[r] = "none"
    BY <1>2, <1>3
  <2> QED
    BY <1>1, <1>2, <1>3, <2>1, <2>2 DEF StatusOf
<1>5. \A s \in Request \ {r} : StatusOf(s)' = StatusOf(s)
  <2>1. \A s \in Request \ {r} : runs'[s] = runs[s] /\ answer'[s] = answer[s]
    BY <1>3 DEF TypeOK
  <2> QED
    BY <1>3, <2>1 DEF StatusOf
<1>6. Service!Cardinality(Service!Started) < MaxConcurrent
  BY <1>3, StartedIsActive, SameCardinality DEF SlotFree
<1>7. \A s \in Service!Started : SessionOf[s] # SessionOf[r]
  <2>1. sessions = {SessionOf[s] : s \in active}
    BY <1>3 DEF Inv, SlotsMatchWork
  <2> QED
    BY <1>3, <2>1, StartedIsActive
<1>8. Status' = [Status EXCEPT ![r] = "started"]
  BY <1>4, <1>5 DEF Status
<1>9. Status[r] = "new"
  BY <1>4 DEF Status
<1> QED
  BY <1>3, <1>6, <1>7, <1>8, <1>9, Zenon DEF Service!StartRequest, Status

(* A decision is an answer of the service.                                 *)
LEMMA AnswerImplements ==
  ASSUME UniqueIds, TypeOK, Inv, AnswerInv, NEW r \in Request,
         AnswerResult(r), UNCHANGED <<conn, runs>>
  PROVE  Service!AnswerRequest(r)
<1>1. conn = "serving" /\ handler[r] = "taken"
  BY DEF AnswerResult
<1>2. answer' = [answer EXCEPT ![r] = AnswerOf(r)] /\ refused' = refused
  BY <1>1 DEF AnswerResult, EndServe
<1>3. StatusOf(r) = "started"
  <2>1. answer[r] = "none" /\ runs[r] # 0
    BY <1>1 DEF AnswerInv, AnswerIsFinal, Inv, Once
  <2> QED
    BY <1>1, <2>1 DEF StatusOf
<1>4. StatusOf(r)' = AnswerOf(r) /\ AnswerOf(r) \in {"completed", "failed"}
  <2>1. AnswerOf(r) \in {"completed", "failed"}
    BY DEF AnswerOf
  <2>2. answer'[r] = AnswerOf(r)
    BY <1>2 DEF TypeOK
  <2> QED
    BY <2>1, <2>2 DEF StatusOf
<1>5. \A s \in Request \ {r} : StatusOf(s)' = StatusOf(s)
  <2>1. \A s \in Request \ {r} : answer'[s] = answer[s]
    BY <1>2 DEF TypeOK
  <2> QED
    BY <2>1 DEF StatusOf
<1>6. Status' = [Status EXCEPT ![r] = AnswerOf(r)]
  BY <1>4, <1>5 DEF Status
<1> QED
  BY <1>1, <1>2, <1>3, <1>4, <1>6 DEF Service!AnswerRequest, Status

(* A refusal is one of the service: the work of the request stands.        *)
LEMMA RefusalImplements ==
  ASSUME Refuses
  PROVE  \E r \in Request : Service!RefuseRequest(r)
<1>1. PICK r \in Request : /\ conn = "serving"
                           /\ refused' = refused \cup {r}
                           /\ UNCHANGED <<conn, runs, answer>>
  BY DEF Refuses
<1>2. \A s \in Request : StatusOf(s)' = StatusOf(s)
  BY <1>1 DEF StatusOf
<1> QED
  BY <1>1, <1>2 DEF Service!RefuseRequest

(* The connection implements the service: the work of a request is started *)
(* at most once, in a free slot and beside none of its session, then its   *)
(* result is sent once or it is lost with the connection; and a refusal,   *)
(* whenever it is sent, leaves that work as it is.                         *)
THEOREM ConnectionImplementsService ==
  ASSUME UniqueIds
  PROVE  Spec => ImplementsService
<1>1. TypeOK /\ Inv /\ AnswerInv /\ [Next]_vars
        => [Service!AbsNext]_(Service!absVars)
  <2> SUFFICES ASSUME TypeOK, Inv, AnswerInv, [Next]_vars
               PROVE  Service!AbsNext \/ UNCHANGED Service!absVars
    OBVIOUS
  <2>1. CASE Quiet
    BY <2>1, QuietStutters
  <2>2. CASE Ends
    BY <2>2, EndImplements DEF Service!AbsNext
  <2>3. CASE Starts
    BY <2>3, StartImplements DEF Starts, Service!AbsNext
  <2>4. CASE Answers
    BY <2>4, AnswerImplements DEF Answers, Service!AbsNext
  <2>5. CASE Refuses
    BY <2>5, RefusalImplements DEF Service!AbsNext
  <2> QED
    BY <2>1, <2>2, <2>3, <2>4, <2>5, StepKinds
<1> QED
  BY InitImplements, <1>1, TypeCorrect, Safety, AnswersSafe, PTL
     DEF Spec, ImplementsService, Service!AbsSpec

-----------------------------------------------------------------------------
(***************************************************************************)
(* Two connections on one controller.  The plans of the controller are     *)
(* those of the handlers that run, of either connection, and no two        *)
(* handlers with a plan share a session: that is inductive as it stands,   *)
(* whatever identifiers the broker uses, since a plan is only begun for a  *)
(* session that has none.                                                  *)
(***************************************************************************)
Bringing == PlanRequests \cap InState(Busy)
Bringing2 == PlanRequests \cap Second!InState(Busy)

Apart(A) == \A r, s \in A : SessionOf[r] = SessionOf[s] => r = s

(* A and B bring the plans of sessions X, each its own.                    *)
Owned(A, B, X) ==
  /\ X = {SessionOf[r] : r \in A} \cup {SessionOf[r] : r \in B}
  /\ Apart(A) /\ Apart(B)
  /\ \A r \in A, s \in B : SessionOf[r] # SessionOf[s]

(* A and X become A1 and X1 as one connection changes them.                *)
Changes(A, X, A1, X1) ==
  \/ A1 = A /\ X1 = X
  \/ \E r \in PlanRequests : /\ SessionOf[r] \notin X
                             /\ A1 = A \cup {r} /\ X1 = X \cup {SessionOf[r]}
  \/ \E r \in A : A1 = A \ {r} /\ X1 = X \ {SessionOf[r]}

BothInv ==
  /\ handler \in [Request -> HandlerState] /\ handler2 \in [Request -> HandlerState]
  /\ Owned(Bringing, Bringing2, executions)

(* Which connection is called the first does not matter.                   *)
LEMMA OwnedEither ==
  ASSUME NEW A, NEW B, NEW X, Owned(A, B, X)
  PROVE  Owned(B, A, X)
BY DEF Owned

(* A new plan for a session without one, and the end of a plan, leave      *)
(* every plan with one owner.                                              *)
LEMMA OwnedStays ==
  ASSUME NEW A, NEW B, NEW X, NEW A1, NEW X1, Owned(A, B, X), Changes(A, X, A1, X1)
  PROVE  Owned(A1, B, X1)
<1>1. CASE A1 = A /\ X1 = X
  BY <1>1
<1>2. ASSUME NEW r \in PlanRequests, SessionOf[r] \notin X,
             A1 = A \cup {r}, X1 = X \cup {SessionOf[r]}
      PROVE  Owned(A1, B, X1)
  <2>1. \A s \in A \cup B : SessionOf[s] # SessionOf[r]
    BY <1>2 DEF Owned
  <2>2. Apart(A1)
    BY <1>2, <2>1 DEF Owned, Apart
  <2>3. \A s \in A1, t \in B : SessionOf[s] # SessionOf[t]
    BY <1>2, <2>1 DEF Owned
  <2>4. X1 = {SessionOf[s] : s \in A1} \cup {SessionOf[s] : s \in B}
    BY <1>2 DEF Owned
  <2> QED BY <2>2, <2>3, <2>4 DEF Owned
<1>3. ASSUME NEW r \in A, A1 = A \ {r}, X1 = X \ {SessionOf[r]}
      PROVE  Owned(A1, B, X1)
  <2>1. \A s \in A1 \cup B : SessionOf[s] # SessionOf[r]
    BY <1>3 DEF Owned, Apart
  <2>2. Apart(A1) /\ \A s \in A1, t \in B : SessionOf[s] # SessionOf[t]
    BY <1>3 DEF Owned, Apart
  <2>3. X1 = {SessionOf[s] : s \in A1} \cup {SessionOf[s] : s \in B}
    BY <1>3, <2>1 DEF Owned
  <2> QED BY <2>2, <2>3 DEF Owned
<1> QED BY <1>1, <1>2, <1>3 DEF Changes

(* What a step of the first connection does to its handlers and the plans. *)
LEMMA FirstKinds ==
  ASSUME handler \in [Request -> HandlerState], Next
  PROVE  \/ UNCHANGED <<handler, executions>>
         \/ \E r \in Request : InvokeStarted(r) \/ HandlerReturns(r)
         \/ \E r \in Request, at \in HandlerState :
              /\ handler' = [handler EXCEPT ![r] = at] /\ executions' = executions
              /\ handler[r] \in Busy <=> at \in Busy
<1>1. CASE Environment
  <2>1. UNCHANGED <<handler, executions>>
    BY <1>1 DEF Environment, Tick, CancelConnection, SocketFails,
       ReaderFails, BrokerGrants, DeadlineFires, workVars
  <2> QED BY <2>1
<1>2. CASE Loop
  <2>1. CASE \E r \in Request : InvokeStarted(r)
    BY <2>1
  <2>2. ASSUME NEW r \in Request, TakeResult(r) \/ AnswerResult(r)
        PROVE  \E at \in HandlerState :
                 /\ handler' = [handler EXCEPT ![r] = at] /\ executions' = executions
                 /\ handler[r] \in Busy <=> at \in Busy
    BY <2>2 DEF TakeResult, AnswerResult, HandlerState, Busy
  <2>3. CASE \/ ExpireLease \/ EndOnContext \/ EndOnReadError
             \/ EndOnHeartbeat \/ RenewLease \/ AcceptRenewal \/ RejectRenewal
    <3>1. UNCHANGED <<handler, executions>>
      BY <2>3 DEF ExpireLease, EndOnContext, EndOnReadError, EndOnHeartbeat,
         RenewLease, AcceptRenewal, RejectRenewal, EndLoop, workVars
    <3> QED BY <3>1
  <2>4. ASSUME NEW r \in Request,
               InvokeExpired(r) \/ InvokeRefused(r) \/ InvokeTurnedAway(r)
        PROVE  UNCHANGED <<handler, executions>>
    BY <2>4 DEF InvokeExpired, InvokeRefused, InvokeTurnedAway, Refuse,
       EndLoop, workVars
  <2>5. ASSUME NEW err, EndOnFrame(err) PROVE UNCHANGED <<handler, executions>>
    BY <2>5 DEF EndOnFrame, EndLoop
  <2>6. ASSUME NEW i, CancelFrame(i) PROVE UNCHANGED <<handler, executions>>
    BY <2>6 DEF CancelFrame
  <2> QED BY <1>2, <2>1, <2>2, <2>3, <2>4, <2>5, <2>6 DEF Loop
<1>3. ASSUME NEW r \in Request,
             \/ HandlerReports(r) \/ HandlerCloses(r) \/ CloseReturns(r)
      PROVE  \E at \in HandlerState :
               /\ handler' = [handler EXCEPT ![r] = at] /\ executions' = executions
               /\ handler[r] \in Busy <=> at \in Busy
  BY <1>3 DEF HandlerReports, HandlerCloses, CloseReturns, HandlerState, Busy
<1>4. ASSUME NEW r \in Request, BeginDelta(r) \/ EndDelta(r)
      PROVE  UNCHANGED <<handler, executions>>
  BY <1>4 DEF BeginDelta, EndDelta, workVars
<1>5. CASE Handlers
  BY <1>3, <1>4, <1>5 DEF Handlers
<1> QED BY <1>1, <1>2, <1>5 DEF Next

(* A step of the first connection keeps the plans, or has a new one for a  *)
(* session without, or ends the one of a handler that returns.             *)
LEMMA FirstPlans ==
  ASSUME handler \in [Request -> HandlerState], Next
  PROVE  /\ handler' \in [Request -> HandlerState]
         /\ Changes(Bringing, executions, Bringing', executions')
<1>1. CASE UNCHANGED <<handler, executions>>
  BY <1>1 DEF Changes, Bringing, InState
<1>2. ASSUME NEW r \in Request, InvokeStarted(r)
      PROVE  /\ handler' \in [Request -> HandlerState]
             /\ Changes(Bringing, executions, Bringing', executions')
  <2>1. /\ handler' = [handler EXCEPT ![r] = "running"]
        /\ executions' = IF r \in PlanRequests THEN executions \cup {SessionOf[r]}
                                              ELSE executions
        /\ r \in PlanRequests => SessionOf[r] \notin executions
    BY <1>2 DEF InvokeStarted, StartHandler, PlanAccepted
  <2>2. handler' \in [Request -> HandlerState]
    BY <2>1 DEF HandlerState
  <2>3. CASE r \in PlanRequests
    <3>1. Bringing' = Bringing \cup {r}
      BY <2>1, <2>3 DEF Bringing, InState, Busy
    <3> QED BY <2>1, <2>2, <2>3, <3>1 DEF Changes
  <2>4. CASE r \notin PlanRequests
    <3>1. Bringing' = Bringing
      BY <2>1, <2>4 DEF Bringing, InState, Busy
    <3> QED BY <2>1, <2>2, <2>4, <3>1 DEF Changes
  <2> QED BY <2>3, <2>4
<1>3. ASSUME NEW r \in Request, HandlerReturns(r)
      PROVE  /\ handler' \in [Request -> HandlerState]
             /\ Changes(Bringing, executions, Bringing', executions')
  <2>1. /\ handler[r] = "running" /\ handler' = [handler EXCEPT ![r] = "returned"]
        /\ executions' = IF r \in PlanRequests THEN executions \ {SessionOf[r]}
                                              ELSE executions
    BY <1>3 DEF HandlerReturns, PlansAfter
  <2>2. handler' \in [Request -> HandlerState]
    BY <2>1 DEF HandlerState
  <2>3. Bringing' = Bringing \ {r}
    BY <2>1 DEF Bringing, InState, Busy
  <2>4. r \in Bringing <=> r \in PlanRequests
    BY <2>1 DEF Bringing, InState, Busy
  <2> QED BY <2>1, <2>2, <2>3, <2>4 DEF Changes
<1>4. ASSUME NEW r \in Request, NEW at \in HandlerState,
             handler' = [handler EXCEPT ![r] = at], executions' = executions,
             handler[r] \in Busy <=> at \in Busy
      PROVE  /\ handler' \in [Request -> HandlerState]
             /\ Changes(Bringing, executions, Bringing', executions')
  <2>1. Bringing' = Bringing
    BY <1>4 DEF Bringing, InState
  <2> QED BY <1>4, <2>1 DEF Changes
<1> QED BY <1>1, <1>2, <1>3, <1>4, FirstKinds

(* The same of a step of the second connection.                            *)
LEMMA SecondKinds ==
  ASSUME handler2 \in [Request -> HandlerState], Second!Next
  PROVE  \/ UNCHANGED <<handler2, executions>>
         \/ \E r \in Request : Second!InvokeStarted(r) \/ Second!HandlerReturns(r)
         \/ \E r \in Request, at \in HandlerState :
              /\ handler2' = [handler2 EXCEPT ![r] = at] /\ executions' = executions
              /\ handler2[r] \in Busy <=> at \in Busy
<1>1. CASE Second!Environment
  <2>1. UNCHANGED <<handler2, executions>>
    BY <1>1 DEF Second!Environment, Second!Tick, Second!CancelConnection, Second!SocketFails,
       Second!ReaderFails, Second!BrokerGrants, Second!DeadlineFires, Second!workVars
  <2> QED BY <2>1
<1>2. CASE Second!Loop
  <2>1. CASE \E r \in Request : Second!InvokeStarted(r)
    BY <2>1
  <2>2. ASSUME NEW r \in Request, Second!TakeResult(r) \/ Second!AnswerResult(r)
        PROVE  \E at \in HandlerState :
                 /\ handler2' = [handler2 EXCEPT ![r] = at] /\ executions' = executions
                 /\ handler2[r] \in Busy <=> at \in Busy
    BY <2>2 DEF Second!TakeResult, Second!AnswerResult, HandlerState, Busy
  <2>3. CASE \/ Second!ExpireLease \/ Second!EndOnContext \/ Second!EndOnReadError
             \/ Second!EndOnHeartbeat \/ Second!RenewLease \/ Second!AcceptRenewal \/ Second!RejectRenewal
    <3>1. UNCHANGED <<handler2, executions>>
      BY <2>3 DEF Second!ExpireLease, Second!EndOnContext, Second!EndOnReadError, Second!EndOnHeartbeat,
         Second!RenewLease, Second!AcceptRenewal, Second!RejectRenewal, Second!EndLoop, Second!workVars
    <3> QED BY <3>1
  <2>4. ASSUME NEW r \in Request,
               Second!InvokeExpired(r) \/ Second!InvokeRefused(r) \/ Second!InvokeTurnedAway(r)
        PROVE  UNCHANGED <<handler2, executions>>
    BY <2>4 DEF Second!InvokeExpired, Second!InvokeRefused, Second!InvokeTurnedAway, Second!Refuse,
       Second!EndLoop, Second!workVars
  <2>5. ASSUME NEW err, Second!EndOnFrame(err) PROVE UNCHANGED <<handler2, executions>>
    BY <2>5 DEF Second!EndOnFrame, Second!EndLoop
  <2>6. ASSUME NEW i, Second!CancelFrame(i) PROVE UNCHANGED <<handler2, executions>>
    BY <2>6 DEF Second!CancelFrame
  <2> QED BY <1>2, <2>1, <2>2, <2>3, <2>4, <2>5, <2>6 DEF Second!Loop
<1>3. ASSUME NEW r \in Request,
             \/ Second!HandlerReports(r) \/ Second!HandlerCloses(r) \/ Second!CloseReturns(r)
      PROVE  \E at \in HandlerState :
               /\ handler2' = [handler2 EXCEPT ![r] = at] /\ executions' = executions
               /\ handler2[r] \in Busy <=> at \in Busy
  BY <1>3 DEF Second!HandlerReports, Second!HandlerCloses, Second!CloseReturns, HandlerState, Busy
<1>4. ASSUME NEW r \in Request, Second!BeginDelta(r) \/ Second!EndDelta(r)
      PROVE  UNCHANGED <<handler2, executions>>
  BY <1>4 DEF Second!BeginDelta, Second!EndDelta, Second!workVars
<1>5. CASE Second!Handlers
  BY <1>3, <1>4, <1>5 DEF Second!Handlers
<1> QED BY <1>1, <1>2, <1>5 DEF Second!Next

(* The same of the second connection.                                      *)
LEMMA SecondPlans ==
  ASSUME handler2 \in [Request -> HandlerState], Second!Next
  PROVE  /\ handler2' \in [Request -> HandlerState]
         /\ Changes(Bringing2, executions, Bringing2', executions')
<1>1. CASE UNCHANGED <<handler2, executions>>
  BY <1>1 DEF Changes, Bringing2, Second!InState
<1>2. ASSUME NEW r \in Request, Second!InvokeStarted(r)
      PROVE  /\ handler2' \in [Request -> HandlerState]
             /\ Changes(Bringing2, executions, Bringing2', executions')
  <2>1. /\ handler2' = [handler2 EXCEPT ![r] = "running"]
        /\ executions' = IF r \in PlanRequests THEN executions \cup {SessionOf[r]}
                                              ELSE executions
        /\ r \in PlanRequests => SessionOf[r] \notin executions
    BY <1>2 DEF Second!InvokeStarted, Second!StartHandler, Second!PlanAccepted
  <2>2. handler2' \in [Request -> HandlerState]
    BY <2>1 DEF HandlerState
  <2>3. CASE r \in PlanRequests
    <3>1. Bringing2' = Bringing2 \cup {r}
      BY <2>1, <2>3 DEF Bringing2, Second!InState, Busy
    <3> QED BY <2>1, <2>2, <2>3, <3>1 DEF Changes
  <2>4. CASE r \notin PlanRequests
    <3>1. Bringing2' = Bringing2
      BY <2>1, <2>4 DEF Bringing2, Second!InState, Busy
    <3> QED BY <2>1, <2>2, <2>4, <3>1 DEF Changes
  <2> QED BY <2>3, <2>4
<1>3. ASSUME NEW r \in Request, Second!HandlerReturns(r)
      PROVE  /\ handler2' \in [Request -> HandlerState]
             /\ Changes(Bringing2, executions, Bringing2', executions')
  <2>1. /\ handler2[r] = "running" /\ handler2' = [handler2 EXCEPT ![r] = "returned"]
        /\ executions' = IF r \in PlanRequests THEN executions \ {SessionOf[r]}
                                              ELSE executions
    BY <1>3 DEF Second!HandlerReturns, Second!PlansAfter
  <2>2. handler2' \in [Request -> HandlerState]
    BY <2>1 DEF HandlerState
  <2>3. Bringing2' = Bringing2 \ {r}
    BY <2>1 DEF Bringing2, Second!InState, Busy
  <2>4. r \in Bringing2 <=> r \in PlanRequests
    BY <2>1 DEF Bringing2, Second!InState, Busy
  <2> QED BY <2>1, <2>2, <2>3, <2>4 DEF Changes
<1>4. ASSUME NEW r \in Request, NEW at \in HandlerState,
             handler2' = [handler2 EXCEPT ![r] = at], executions' = executions,
             handler2[r] \in Busy <=> at \in Busy
      PROVE  /\ handler2' \in [Request -> HandlerState]
             /\ Changes(Bringing2, executions, Bringing2', executions')
  <2>1. Bringing2' = Bringing2
    BY <1>4 DEF Bringing2, Second!InState
  <2> QED BY <1>4, <2>1 DEF Changes
<1> QED BY <1>1, <1>2, <1>3, <1>4, SecondKinds

(* What is owned, in the words of PlansOwned.                              *)
LEMMA OwnedIsPlansOwned == Owned(Bringing, Bringing2, executions) => PlansOwned
<1> SUFFICES ASSUME Owned(Bringing, Bringing2, executions) PROVE PlansOwned
  OBVIOUS
<1>1. Bringers = {1} \X Bringing \cup {2} \X Bringing2
  BY DEF Bringers, Bringing, Bringing2
<1>2. \A b \in Bringers : \/ b[1] = 1 /\ b[2] \in Bringing /\ b = <<1, b[2]>>
                          \/ b[1] = 2 /\ b[2] \in Bringing2 /\ b = <<2, b[2]>>
  BY <1>1
<1>3. /\ \A r \in Bringing : <<1, r>> \in Bringers /\ <<1, r>>[2] = r
      /\ \A r \in Bringing2 : <<2, r>> \in Bringers /\ <<2, r>>[2] = r
  BY <1>1
<1> HIDE DEF Bringers, Bringing, Bringing2
<1>4. executions = {SessionOf[b[2]] : b \in Bringers}
  <2>1. \A x \in executions : \E b \in Bringers : x = SessionOf[b[2]]
    <3> SUFFICES ASSUME NEW x \in executions PROVE \E b \in Bringers : x = SessionOf[b[2]]
      OBVIOUS
    <3>1. CASE \E r \in Bringing : x = SessionOf[r]
      BY <1>3, <3>1
    <3>2. CASE \E r \in Bringing2 : x = SessionOf[r]
      BY <1>3, <3>2
    <3> QED BY <3>1, <3>2 DEF Owned
  <2>2. \A b \in Bringers : SessionOf[b[2]] \in executions
    BY <1>2 DEF Owned
  <2> QED BY <2>1, <2>2
<1>5. ASSUME NEW b \in Bringers, NEW c \in Bringers, SessionOf[b[2]] = SessionOf[c[2]]
      PROVE  b = c
  BY <1>2, <1>5 DEF Owned, Apart
<1> QED BY <1>4, <1>5 DEF PlansOwned

(* A private plan in the shared controller always has exactly one running  *)
(* handler that brought it, over either connection, however they overlap   *)
(* and end.                                                                *)
THEOREM PlansHaveOneOwner == SpecBoth => []PlansOwned
<1>1. InitBoth => BothInv
  <2> SUFFICES ASSUME InitBoth PROVE BothInv
    OBVIOUS
  <2>1. /\ handler = [r \in Request |-> "idle"] /\ handler2 = [r \in Request |-> "idle"]
        /\ executions = {}
    BY DEF InitBoth, Init, Second!Init
  <2>2. Bringing = {} /\ Bringing2 = {}
    BY <2>1 DEF Bringing, Bringing2, InState, Second!InState, Busy
  <2> QED BY <2>1, <2>2 DEF BothInv, Owned, Apart, HandlerState
<1>2. BothInv /\ [NextBoth]_bothVars => BothInv'
  <2> SUFFICES ASSUME BothInv, [NextBoth]_bothVars PROVE BothInv'
    OBVIOUS
  <2>1. CASE FirstMoves
    <3>1. handler2' = handler2 /\ Bringing2' = Bringing2
      BY <2>1 DEF FirstMoves, ownSecond, workVars2, Bringing2, Second!InState
    <3>2. /\ handler' \in [Request -> HandlerState]
          /\ Changes(Bringing, executions, Bringing', executions')
      BY <2>1, FirstPlans DEF FirstMoves, BothInv
    <3>3. Owned(Bringing', Bringing2, executions')
      BY <3>2, OwnedStays DEF BothInv
    <3> QED BY <3>1, <3>2, <3>3 DEF BothInv
  <2>2. CASE SecondMoves
    <3>1. handler' = handler /\ Bringing' = Bringing
      BY <2>2 DEF SecondMoves, ownFirst, Bringing, InState
    <3>2. /\ handler2' \in [Request -> HandlerState]
          /\ Changes(Bringing2, executions, Bringing2', executions')
      BY <2>2, SecondPlans DEF SecondMoves, BothInv
    <3>3. Owned(Bringing2', Bringing, executions')
      BY <3>2, OwnedStays, OwnedEither DEF BothInv
    <3>4. Owned(Bringing, Bringing2', executions')
      BY <3>3, OwnedEither
    <3> QED BY <3>1, <3>2, <3>4 DEF BothInv
  <2>3. CASE ServeAgain \/ UNCHANGED bothVars
    <3>1. UNCHANGED <<handler, handler2, executions>>
      BY <2>3 DEF ServeAgain, bothVars, ownFirst, ownSecond, workVars2
    <3>2. Bringing' = Bringing /\ Bringing2' = Bringing2
      BY <3>1 DEF Bringing, Bringing2, InState, Second!InState
    <3> QED BY <3>1, <3>2 DEF BothInv
  <2> QED BY <2>1, <2>2, <2>3 DEF NextBoth
<1>3. BothInv => PlansOwned
  BY OwnedIsPlansOwned DEF BothInv
<1> QED BY <1>1, <1>2, <1>3, PTL DEF SpecBoth

=============================================================================
