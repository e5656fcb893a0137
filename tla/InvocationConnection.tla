----------------------- MODULE InvocationConnection -----------------------
(***************************************************************************)
(* One reverse-invocation connection (invocation.go): the serve loop, the  *)
(* websocket reader, the handler goroutines it starts, their output        *)
(* writers, and the lease the platform's broker grants and renews.         *)
(*                                                                         *)
(* The loop is a single goroutine that selects over timers and channels:   *)
(* each branch is one action here.  Handlers, writers, the reader and the  *)
(* broker interleave with it.  Contexts are the set `cancelled`: a work    *)
(* context is done once its request is in it.                              *)
(***************************************************************************)
EXTENDS Integers, FiniteSets

CONSTANTS
  Request,        \* "invoke" frames the broker may send, each any number of times
  RequestId,      \* request identifiers
  Session,        \* conversations
  IdOf,           \* IdOf[r]: the identifier frame r carries
  SessionOf,      \* SessionOf[r]: its session_id
  DeadlineOf,     \* DeadlineOf[r]: its deadline
  PlanRequests,   \* the frames that carry a scenario_plan
  Unauthorized,   \* frames whose purpose, contract version, state or history is refused
  SimAttached,    \* the guard has a simulation controller
  MaxConcurrent,  \* InvocationOptions.MaxConcurrentInvocations
  ReplayWindow,   \* entries `seen` may hold (10000 in the code)
  LeaseDuration,  \* InvocationOptions.LeaseDuration
  LeaseSlack,     \* clock slack granted to the broker (5 s in the code)
  RequestTimeout, \* InvocationOptions.RequestTimeout
  AutoRenew,      \* InvocationOptions.AutoRenew
  MaxOutput,      \* output cap of one invocation (1 MiB in the code), in chunks
  MaxTime,        \* bound on the clock; a grant may outlive it by one
  MaxRenewals     \* bound on the renewals one connection asks for

ASSUME ConnectionAssumption ==
  /\ IsFiniteSet(Request)
  /\ IdOf \in [Request -> RequestId]
  /\ SessionOf \in [Request -> Session]
  /\ DeadlineOf \in [Request -> Nat]
  /\ PlanRequests \subseteq Request
  /\ Unauthorized \subseteq Request
  /\ SimAttached \in BOOLEAN
  /\ MaxConcurrent \in Nat \ {0}
  /\ ReplayWindow \in Nat \ {0}
  /\ LeaseDuration \in Nat \ {0}
  /\ LeaseSlack \in Nat
  /\ RequestTimeout \in Nat
  /\ AutoRenew \in BOOLEAN
  /\ MaxOutput \in Nat
  /\ MaxTime \in Nat
  /\ MaxRenewals \in Nat

(* The broker gives every request an identifier of its own.  A redelivered *)
(* frame is the same element of Request, with the same deadline.           *)
UniqueIds == \A r, s \in Request : IdOf[r] = IdOf[s] => r = s

Off == -1        \* a timer channel that is nil
NoRenewal == 0   \* pendingRenewal == ""

VARIABLES
  now,            \* the clock
  conn,           \* "serving" until serve returns, then "ended"
  endErr,         \* c.err
  ctxDone,        \* c.ctx is done
  wsOpen,         \* the websocket can still carry frames
  readFailed,     \* the reader goroutine has put an error in readErr
  expiresAt,      \* c.expiresAt
  renewAt,        \* when the renewal timer fires, or Off
  pendingRenewal, \* nonce of the renewal that awaits its acknowledgement
  renewals,       \* nonces drawn so far
  granted,        \* broker: its latest grant, [id |-> nonce, exp |-> expiry]
  active,         \* map active: the requests that hold a slot
  sessions,       \* map sessions: the sessions with a request in flight
  seen,           \* map seen: requests whose identifier is remembered
  handler,        \* handler[r]: where the goroutine of r stands
  due,            \* due[r]: deadline of the work context of r
  cancelled,      \* requests whose work context is done
  outcome,        \* outcome[r]: the err of the result r reports
  executions,     \* simCtl.executions: sessions with a private scenario plan
  writing,        \* requests whose out.mu is held by a TextDelta
  closed,         \* requests whose out.closed is set
  output,         \* output[r]: out.size, in chunks
  sent,           \* sent[r]: delta frames of r on the wire
  answer,         \* answer[r]: the terminal frame of the result of r on the wire
  refused,        \* requests for which a refusal has put a "failed" on the wire
  runs            \* runs[r]: how often a handler was started for r

leaseVars == <<expiresAt, renewAt, pendingRenewal, renewals, granted>>
loopVars  == <<active, sessions, seen>>
linkVars  == <<conn, endErr, ctxDone, wsOpen, readFailed>>
workVars  == <<handler, due, cancelled, outcome, executions, runs>>
outVars   == <<writing, closed, output, sent, answer, refused>>
vars == <<now, linkVars, leaseVars, loopVars, workVars, outVars>>

HandlerState == {"idle", "running", "closing", "returned", "queued", "dropped",
                 "taken", "done"}

TypeOK ==
  /\ now \in Nat
  /\ conn \in {"serving", "ended"}
  /\ endErr \in {"none", "expired", "revoked", "unknown", "canceled", "protocol"}
  /\ ctxDone \in BOOLEAN
  /\ wsOpen \in BOOLEAN
  /\ readFailed \in BOOLEAN
  /\ expiresAt \in Nat
  /\ renewAt \in Nat \cup {Off}
  /\ pendingRenewal \in Nat
  /\ renewals \in Nat
  /\ granted \in [id : Nat, exp : Nat]
  /\ active \in SUBSET Request
  /\ sessions \in SUBSET Session
  /\ seen \in SUBSET Request
  /\ handler \in [Request -> HandlerState]
  /\ due \in [Request -> Nat]
  /\ cancelled \in SUBSET Request
  /\ outcome \in [Request -> {"none", "ok", "error"}]
  /\ executions \in SUBSET Session
  /\ writing \in SUBSET Request
  /\ closed \in SUBSET Request
  /\ output \in [Request -> 0..MaxOutput]
  /\ sent \in [Request -> Nat]
  /\ answer \in [Request -> {"none", "completed", "failed"}]
  /\ refused \in SUBSET Request
  /\ runs \in [Request -> Nat]

-----------------------------------------------------------------------------
(* Helpers *)

Earlier(a, b) == IF a <= b THEN a ELSE b

(* Definitions whose name ends in _Bug are plausible mistakes in the code  *)
(* beside which they stand.  No specification uses them: put in place of   *)
(* the definition that follows them, each must break a property below.     *)

(* Bug: on cancellation the loop first waits for its handlers.             *)
Selecting_Bug ==
  /\ conn = "serving"
  /\ \A r \in Request : /\ handler[r] # "taken"
                        /\ ctxDone => handler[r] \notin {"running", "closing"}

(* The loop is at its select: it has no result in hand.                    *)
Selecting == conn = "serving" /\ \A r \in Request : handler[r] # "taken"

(* The reader hands over each frame before it reads the next one, so no    *)
(* frame is left once its read has failed.                                 *)
Receiving == Selecting /\ ~readFailed

(* The entry of map active under identifier i, as a set of at most one.    *)
Holding(i) == {a \in active : IdOf[a] = i}

Started == {r \in Request : handler[r] # "idle"}
InState(S) == {r \in Request : handler[r] \in S}

(* serve returns: its deferred calls cancel the active work, close the     *)
(* socket, cancel c.ctx (every work context derives from it) and close     *)
(* done.  The loop's maps and timers are gone.                             *)
EndServe(err) ==
  /\ conn' = "ended"
  /\ endErr' = err
  /\ ctxDone' = TRUE
  /\ wsOpen' = FALSE
  /\ cancelled' = cancelled \cup Started
  /\ active' = {} /\ sessions' = {} /\ seen' = {}
  /\ renewAt' = Off /\ pendingRenewal' = NoRenewal

(* An end that leaves handlers and outputs where they stand.               *)
EndLoop(err) ==
  /\ EndServe(err)
  /\ UNCHANGED <<now, readFailed, expiresAt, renewals, granted, handler, due,
                 outcome, executions, runs, outVars>>

(* A refusal sends a "failed" that carries the identifier of the frame,    *)
(* also when work of that identifier is in flight or was answered; it does *)
(* not touch that work.  A failed send ends the connection.                *)
Refuse(r, kept) ==
  \/ /\ wsOpen
     /\ seen' = kept
     /\ refused' = refused \cup {r}
     /\ UNCHANGED <<now, linkVars, leaseVars, active, sessions, workVars,
                    writing, closed, output, sent, answer>>
  \/ EndLoop("unknown")

(***************************************************************************)
(* Start of serving: registration returned a lease that expires after now  *)
(* and within LeaseDuration plus the slack, and the socket became ready.   *)
(***************************************************************************)
Init ==
  /\ now = 0
  /\ conn = "serving" /\ endErr = "none"
  /\ ctxDone = FALSE /\ wsOpen = TRUE /\ readFailed = FALSE
  /\ expiresAt \in 1..(LeaseDuration + LeaseSlack)
  /\ renewAt = IF AutoRenew THEN expiresAt \div 2 ELSE Off
  /\ pendingRenewal = NoRenewal /\ renewals = 0
  /\ granted = [id |-> NoRenewal, exp |-> expiresAt]
  /\ active = {} /\ sessions = {} /\ seen = {}
  /\ handler = [r \in Request |-> "idle"]
  /\ due = [r \in Request |-> 0]
  /\ cancelled = {}
  /\ outcome = [r \in Request |-> "none"]
  /\ executions = {}
  /\ writing = {} /\ closed = {}
  /\ output = [r \in Request |-> 0]
  /\ sent = [r \in Request |-> 0]
  /\ answer = [r \in Request |-> "none"]
  /\ refused = {}
  /\ runs = [r \in Request |-> 0]

-----------------------------------------------------------------------------
(* The world around the loop *)

Tick ==
  /\ now < MaxTime
  /\ now' = now + 1
  /\ UNCHANGED <<linkVars, leaseVars, loopVars, workVars, outVars>>

(* c.ctx is cancelled: the parent context, Guard.Close, or the first half  *)
(* of InvocationConnection.Close.  Every work context derives from it.     *)
CancelConnection ==
  /\ ~ctxDone
  /\ ctxDone' = TRUE
  /\ cancelled' = cancelled \cup Started
  /\ UNCHANGED <<now, conn, endErr, wsOpen, readFailed, leaseVars, loopVars,
                 handler, due, outcome, executions, runs, outVars>>

(* The socket dies: the network, a missed pong, or CloseNow.               *)
SocketFails ==
  /\ wsOpen
  /\ wsOpen' = FALSE
  /\ UNCHANGED <<now, conn, endErr, ctxDone, readFailed, leaseVars, loopVars,
                 workVars, outVars>>

(* The reader's pending read returns an error.                             *)
ReaderFails ==
  /\ conn = "serving"
  /\ ~readFailed
  /\ ~wsOpen \/ ctxDone
  /\ readFailed' = TRUE
  /\ UNCHANGED <<now, conn, endErr, ctxDone, wsOpen, leaseVars, loopVars,
                 workVars, outVars>>

(* The broker grants the renewal last asked for.                           *)
BrokerGrants(e) ==
  /\ conn = "serving"
  /\ granted.id < renewals
  /\ e > granted.exp
  /\ granted' = [id |-> renewals, exp |-> e]
  /\ UNCHANGED <<now, linkVars, expiresAt, renewAt, pendingRenewal, renewals,
                 loopVars, workVars, outVars>>

(* The deadline of a work context passes.                                  *)
DeadlineFires(r) ==
  /\ handler[r] \in {"running", "closing"}
  /\ r \notin cancelled
  /\ now >= due[r]
  /\ cancelled' = cancelled \cup {r}
  /\ UNCHANGED <<now, linkVars, leaseVars, loopVars, handler, due, outcome,
                 executions, runs, outVars>>

-----------------------------------------------------------------------------
(* The serve loop: timers, contexts and errors *)

(* Bug: a pending renewal keeps the lease alive.                           *)
ExpireLease_Bug ==
  /\ Selecting
  /\ now >= expiresAt
  /\ pendingRenewal = NoRenewal
  /\ EndLoop("expired")

ExpireLease ==
  /\ Selecting
  /\ now >= expiresAt
  /\ EndLoop("expired")

EndOnContext ==
  /\ Selecting
  /\ ctxDone
  /\ EndLoop("canceled")

(* readErr does not look at c.ctx: a closed connection may report          *)
(* ErrInvocationOutcomeUnknown.                                            *)
EndOnReadError ==
  /\ Selecting
  /\ readFailed
  /\ EndLoop("unknown")

EndOnHeartbeat ==
  /\ Selecting
  /\ ctxDone \/ ~wsOpen
  /\ EndLoop(IF ctxDone THEN "canceled" ELSE "unknown")

(* The renewal timer fires: ask once, and extend nothing yet.              *)
RenewLease ==
  /\ Selecting
  /\ renewAt # Off
  /\ now >= renewAt
  /\ renewals < MaxRenewals
  /\ renewals' = renewals + 1
  /\ \/ /\ wsOpen
        /\ now < expiresAt
        /\ pendingRenewal' = renewals + 1
        /\ renewAt' = Off
        /\ UNCHANGED <<linkVars, expiresAt, loopVars, cancelled>>
     \/ /\ EndServe("unknown")
        /\ UNCHANGED <<readFailed, expiresAt>>
  /\ UNCHANGED <<now, granted, handler, due, outcome, executions, runs, outVars>>

-----------------------------------------------------------------------------
(* The serve loop: frames from the broker *)

(* Bug: the acknowledged expiry is not limited to the window asked for.    *)
AckInWindow_Bug == granted.exp > expiresAt

AckInWindow ==
  /\ granted.exp > expiresAt
  /\ granted.exp <= now + LeaseDuration + LeaseSlack

(* Bug: an acknowledgement that arrives after the expiry still counts.     *)
AckValid_Bug ==
  /\ pendingRenewal # NoRenewal
  /\ granted.id = pendingRenewal
  /\ AckInWindow

(* "renewed": an acknowledgement counts only for the pending nonce, only   *)
(* to a later expiry within the window, and only while the lease lives.    *)
AckValid ==
  /\ pendingRenewal # NoRenewal
  /\ granted.id = pendingRenewal
  /\ AckInWindow
  /\ now < expiresAt

AcceptRenewal ==
  /\ Receiving
  /\ AckValid
  /\ expiresAt' = granted.exp
  /\ renewAt' = now + ((granted.exp - now) \div 2)
  /\ pendingRenewal' = NoRenewal
  /\ UNCHANGED <<now, linkVars, renewals, granted, loopVars, workVars, outVars>>

(* A late, repeated or excessive acknowledgement ends the connection.      *)
RejectRenewal ==
  /\ Receiving
  /\ granted.id # NoRenewal
  /\ ~AckValid
  /\ EndLoop("protocol")

(* "expired", "revoked", a malformed invocation or an unknown frame.       *)
EndOnFrame(err) ==
  /\ Receiving
  /\ EndLoop(err)

CancelFrame(i) ==
  /\ Receiving
  /\ cancelled' = cancelled \cup Holding(i)
  /\ UNCHANGED <<now, linkVars, leaseVars, loopVars, handler, due, outcome,
                 executions, runs, outVars>>

(* Bug: duplicates are looked up among the active requests only.           *)
NotSeen_Bug(r) == \A a \in active : IdOf[a] # IdOf[r]

NotSeen(r) == \A s \in seen : IdOf[s] # IdOf[r]

SlotFree == Cardinality(active) < MaxConcurrent
SessionFree(r) == SessionOf[r] \notin sessions

(* The checks an "invoke" frame passes, in the loop's own state.           *)
Admissible(r) ==
  /\ r \notin Unauthorized
  /\ NotSeen(r)
  /\ SlotFree
  /\ SessionFree(r)
  /\ DeadlineOf[r] > now

(* Bug: a full replay window is simply cleared.                            *)
Remembered_Bug == IF Cardinality(seen) >= ReplayWindow THEN {} ELSE seen

(* A full replay window forgets the identifiers whose deadline has passed. *)
Remembered ==
  IF Cardinality(seen) >= ReplayWindow
  THEN {s \in seen : DeadlineOf[s] > now}
  ELSE seen

(* The handler goroutine of r is started with a context of its own.        *)
StartHandler(r) ==
  /\ seen' = Remembered \cup {r}
  /\ active' = (active \ Holding(IdOf[r])) \cup {r}
  /\ sessions' = sessions \cup {SessionOf[r]}
  /\ handler' = [handler EXCEPT ![r] = "running"]
  /\ due' = [due EXCEPT ![r] = Earlier(DeadlineOf[r], now + RequestTimeout)]
  /\ cancelled' = IF ctxDone THEN cancelled \cup {r} ELSE cancelled \ {r}
  /\ outcome' = [outcome EXCEPT ![r] = "none"]
  /\ executions' = IF r \in PlanRequests THEN executions \cup {SessionOf[r]}
                                         ELSE executions
  /\ runs' = [runs EXCEPT ![r] = @ + 1]
  /\ closed' = closed \ {r}
  /\ output' = [output EXCEPT ![r] = 0]
  /\ UNCHANGED <<now, linkVars, leaseVars, writing, sent, answer, refused>>

InvokeExpired(r) ==
  /\ Receiving
  /\ now >= expiresAt
  /\ EndLoop("expired")

(* Refused by the loop's state, or by an attached simulation controller,   *)
(* which may reject any frame: its configuration changes at any time.      *)
InvokeRefused(r) ==
  /\ Receiving
  /\ now < expiresAt
  /\ SimAttached \/ ~Admissible(r)
  /\ Refuse(r, seen)

(* Admissible, but the replay window stays full after pruning, or the plan *)
(* is not accepted: unauthorized, unreadable, or its session has one.      *)
InvokeTurnedAway(r) ==
  /\ Receiving
  /\ now < expiresAt
  /\ Admissible(r)
  /\ Cardinality(Remembered) >= ReplayWindow \/ r \in PlanRequests
  /\ Refuse(r, Remembered)

(* Bug: a plan is installed over the one its session has.                  *)
PlanAccepted_Bug(r) == r \in PlanRequests => SimAttached

(* BeginExecution: a session has one plan, whichever connection brought    *)
(* it.  (The limit of 64 plans is among the refusals of InvokeTurnedAway.) *)
PlanAccepted(r) ==
  r \in PlanRequests => SimAttached /\ SessionOf[r] \notin executions

InvokeStarted(r) ==
  /\ Receiving
  /\ now < expiresAt
  /\ Admissible(r)
  /\ Cardinality(Remembered) < ReplayWindow
  /\ PlanAccepted(r)
  /\ StartHandler(r)

-----------------------------------------------------------------------------
(* The handler goroutine and its writer *)

(* Bug: the work context is not consulted after the handler returned nil.  *)
ResultOf_Bug(r, ok) == IF ok THEN "ok" ELSE "error"

(* A nil error counts only if the work context is still alive.             *)
ResultOf(r, ok) == IF ok /\ r \notin cancelled THEN "ok" ELSE "error"

(* EndExecution releases the private plan of a request that carries one.   *)
PlansAfter(r) ==
  IF r \in PlanRequests THEN executions \ {SessionOf[r]} ELSE executions

(* The handler returns or panics.                                          *)
HandlerReturns(r) ==
  /\ handler[r] = "running"
  /\ handler' = [handler EXCEPT ![r] = "returned"]
  /\ \E ok \in BOOLEAN :
       outcome' = [outcome EXCEPT ![r] = ResultOf(r, ok)]
  /\ executions' = PlansAfter(r)
  /\ UNCHANGED <<now, linkVars, leaseVars, loopVars, due, cancelled, runs, outVars>>

(* The result goes into the buffered channel, or nowhere once c.ctx is     *)
(* done.  The buffer is a set: the order of results of different requests  *)
(* does not matter to the loop.                                            *)
HandlerReports(r) ==
  /\ handler[r] = "returned"
  /\ \/ /\ Cardinality(InState({"queued"})) < MaxConcurrent
        /\ handler' = [handler EXCEPT ![r] = "queued"]
     \/ /\ ctxDone
        /\ handler' = [handler EXCEPT ![r] = "dropped"]
  /\ UNCHANGED <<now, linkVars, leaseVars, loopVars, due, cancelled, outcome,
                 executions, runs, outVars>>

(* A handler calls Close on its own connection and waits for done.         *)
HandlerCloses(r) ==
  /\ handler[r] = "running"
  /\ handler' = [handler EXCEPT ![r] = "closing"]
  /\ ctxDone' = TRUE
  /\ wsOpen' = FALSE
  /\ cancelled' = cancelled \cup Started
  /\ UNCHANGED <<now, conn, endErr, readFailed, leaseVars, loopVars, due,
                 outcome, executions, runs, outVars>>

CloseReturns(r) ==
  /\ handler[r] = "closing"
  /\ conn = "ended"
  /\ handler' = [handler EXCEPT ![r] = "running"]
  /\ UNCHANGED <<now, linkVars, leaseVars, loopVars, due, cancelled, outcome,
                 executions, runs, outVars>>

(* Bug: the output cap is left out.                                        *)
OutputHasRoom_Bug(r) == r \in Request

OutputHasRoom(r) == output[r] < MaxOutput

(* TextDelta takes out.mu, checks closed and the cap, and counts the text  *)
(* before it sends.  A goroutine the handler left behind may call it at    *)
(* any time after the handler was started.                                 *)
BeginDelta(r) ==
  /\ handler[r] # "idle"
  /\ r \notin writing
  /\ r \notin closed
  /\ OutputHasRoom(r)
  /\ writing' = writing \cup {r}
  /\ output' = [output EXCEPT ![r] = @ + 1]
  /\ UNCHANGED <<now, linkVars, leaseVars, loopVars, workVars, closed, sent, answer,
                 refused>>

(* The send ends and out.mu is released.  A failed write, and one whose    *)
(* context is done, closes the websocket for everyone.                     *)
EndDelta(r) ==
  /\ r \in writing
  /\ writing' = writing \ {r}
  /\ \/ /\ wsOpen
        /\ sent' = [sent EXCEPT ![r] = @ + 1]
        /\ UNCHANGED wsOpen
     \/ /\ wsOpen' = FALSE
        /\ UNCHANGED sent
  /\ UNCHANGED <<now, conn, endErr, ctxDone, readFailed, leaseVars, loopVars,
                 workVars, closed, output, answer, refused>>

-----------------------------------------------------------------------------
(* The serve loop: results *)

TakeResult(r) ==
  /\ Selecting
  /\ handler[r] = "queued"
  /\ handler' = [handler EXCEPT ![r] = "taken"]
  /\ UNCHANGED <<now, linkVars, leaseVars, loopVars, due, cancelled, outcome,
                 executions, runs, outVars>>

(* Bug: the output is marked closed without taking out.mu.                 *)
OutputQuiet_Bug(r) == r \in Request

OutputQuiet(r) == r \notin writing

(* Bug: a failed invocation is dropped without an answer.                  *)
AnswerOf_Bug(r) == IF outcome[r] = "ok" THEN "completed" ELSE answer[r]

AnswerOf(r) == IF outcome[r] = "ok" THEN "completed" ELSE "failed"

(* Bug: the slot is freed but its session stays taken.                     *)
FreedSessions_Bug(r) == {SessionOf[a] : a \in Holding(IdOf[r]) \ {r}}

FreedSessions(r) == {SessionOf[a] : a \in Holding(IdOf[r])}

(* The loop waits for out.mu, closes the output, frees the slot and the    *)
(* session the identifier holds, then sends the terminal frame.            *)
AnswerResult(r) ==
  /\ conn = "serving"
  /\ handler[r] = "taken"
  /\ OutputQuiet(r)
  /\ closed' = closed \cup {r}
  /\ handler' = [handler EXCEPT ![r] = "done"]
  /\ \/ /\ wsOpen
        /\ answer' = [answer EXCEPT ![r] = AnswerOf(r)]
        /\ active' = active \ Holding(IdOf[r])
        /\ sessions' = sessions \ FreedSessions(r)
        /\ cancelled' = cancelled \cup Holding(IdOf[r])
        /\ UNCHANGED <<linkVars, leaseVars, seen>>
     \/ /\ EndServe("unknown")
        /\ UNCHANGED <<answer, readFailed, expiresAt, renewals, granted>>
  /\ UNCHANGED <<now, due, outcome, executions, runs, writing, output, sent, refused>>

-----------------------------------------------------------------------------
Environment ==
  \/ Tick
  \/ CancelConnection
  \/ SocketFails
  \/ ReaderFails
  \/ \E e \in 1..(MaxTime + 1) : BrokerGrants(e)
  \/ \E r \in Request : DeadlineFires(r)

Loop ==
  \/ ExpireLease
  \/ EndOnContext
  \/ EndOnReadError
  \/ EndOnHeartbeat
  \/ RenewLease
  \/ AcceptRenewal
  \/ RejectRenewal
  \/ \E err \in {"expired", "revoked", "protocol"} : EndOnFrame(err)
  \/ \E i \in RequestId : CancelFrame(i)
  \/ \E r \in Request : \/ InvokeExpired(r)
                        \/ InvokeRefused(r)
                        \/ InvokeTurnedAway(r)
                        \/ InvokeStarted(r)
                        \/ TakeResult(r)
                        \/ AnswerResult(r)

Handlers ==
  \E r \in Request : \/ HandlerReturns(r)
                     \/ HandlerReports(r)
                     \/ HandlerCloses(r)
                     \/ CloseReturns(r)
                     \/ BeginDelta(r)
                     \/ EndDelta(r)

Next == Environment \/ Loop \/ Handlers

Spec == Init /\ [][Next]_vars

(***************************************************************************)
(* Safety *)
(***************************************************************************)

InFlight == InState(HandlerState \ {"idle", "done"})

(* Never more handlers in flight than MaxConcurrentInvocations, counting   *)
(* those that ignore cancellation and those whose result waits: the slot   *)
(* is held until the loop has answered.  This is also why the buffered     *)
(* results channel always has room for a handler that returned.            *)
CapacityRespected == Cardinality(InFlight) <= MaxConcurrent

(* "Calls sharing a session cannot overlap": two handlers of one session   *)
(* never run at the same time, not even while the connection is ending.    *)
SessionsExclusive ==
  \A r, s \in InState({"running", "closing"}) :
    SessionOf[r] = SessionOf[s] => r = s

(* However often the broker sends a frame, and however the replay window   *)
(* is pruned, a handler is started at most once for an identifier.         *)
AtMostOnce ==
  /\ \A r \in Request : runs[r] <= 1
  /\ \A r, s \in Request :
       IdOf[r] = IdOf[s] /\ runs[r] > 0 /\ runs[s] > 0 => r = s

(* While it serves, the loop's maps hold exactly the work in flight: no    *)
(* slot and no session leaks, and none is freed under a running handler.   *)
SlotsMatchWork ==
  conn = "serving" =>
    /\ active = InFlight
    /\ sessions = {SessionOf[r] : r \in InFlight}

(* A private scenario plan exists exactly as long as its handler runs,     *)
(* whether the connection survives the handler or not.                     *)
PlanLifetime ==
  executions = {SessionOf[r] : r \in PlanRequests \cap InState({"running", "closing"})}

(* The client never believes in a lease the broker has not granted, nor in *)
(* one longer than the window it asked for.                                *)
LeaseBounded ==
  conn = "serving" =>
    /\ expiresAt <= granted.exp
    /\ expiresAt <= now + LeaseDuration + LeaseSlack

(* An expired lease is not revived by a late acknowledgement, and starts   *)
(* no handler, whichever of timer and frame the loop sees first.           *)
ExpiredStaysExpired ==
  [][now >= expiresAt => expiresAt' = expiresAt /\ runs' = runs]_vars

(* No text of an invocation follows the terminal frame of its result on    *)
(* the wire, whatever goroutines the handler left behind.  (A "failed"     *)
(* that refuses another delivery of the request is not that frame: it has  *)
(* the same identifier, and text and the result itself may follow it.)     *)
NoDeltaAfterAnswer ==
  [][\A r \in Request : sent'[r] # sent[r] => answer[r] = "none"]_vars

(* Work whose context was done before the handler returned is never        *)
(* reported as completed, even when the handler returned nil.              *)
CancelledNeverCompletes ==
  [][\A r \in Request :
       /\ r \in cancelled /\ handler[r] \in {"running", "closing"}
            => outcome'[r] # "ok"
       /\ answer'[r] = "completed" /\ answer[r] # "completed"
            => outcome[r] = "ok"]_vars

(* The connection implements the service it promises: the work of a        *)
(* request starts once, reports one result, or is lost when the connection *)
(* ends; and refusing a delivery, at whatever moment of that work, says    *)
(* "failed" of the delivery and changes nothing of the work.               *)
StatusOf(r) ==
  CASE answer[r] # "none"                  -> answer[r]
    [] answer[r] = "none" /\ runs[r] = 0   -> "new"
    [] answer[r] = "none" /\ runs[r] # 0   ->
         IF conn = "serving" THEN "started" ELSE "lost"

Service == INSTANCE InvocationService
             WITH status <- [r \in Request |-> StatusOf(r)],
                  open <- (conn = "serving"),
                  refused <- refused

ImplementsService == Service!AbsSpec

(***************************************************************************)
(* Liveness *)
(***************************************************************************)

(* The Go scheduler runs every goroutine that can run, and select chooses  *)
(* among ready branches at random, so no ready branch starves; time goes   *)
(* on.  No fairness is assumed of handlers, the broker, the network or     *)
(* whoever cancels.                                                        *)
Fairness ==
  /\ WF_vars(Tick)
  /\ WF_vars(ReaderFails)
  /\ WF_vars(ExpireLease) /\ WF_vars(EndOnContext) /\ WF_vars(EndOnReadError)
  /\ \A r \in Request : /\ WF_vars(TakeResult(r)) /\ WF_vars(AnswerResult(r))
                        /\ WF_vars(HandlerReports(r)) /\ WF_vars(EndDelta(r))
                        /\ WF_vars(CloseReturns(r))

FairSpec == Spec /\ Fairness

(* Close, Guard.Close and a cancelled parent context end the connection,   *)
(* even when handlers never return and when Close is called by a handler.  *)
CancelEndsConnection == ctxDone ~> conn = "ended"

(* A renewal the broker does not acknowledge in time, or a dead socket,    *)
(* does not leave the connection serving for ever.  (Only leases the       *)
(* bounded clock outlives are required to run out.)                        *)
RenewalResolved ==
  /\ \A k \in 1..MaxRenewals :
       pendingRenewal = k /\ expiresAt <= MaxTime ~> pendingRenewal # k
  /\ readFailed ~> conn = "ended"

(* A request whose handler returned is answered, or the connection ends;   *)
(* and its goroutine never stays blocked on the results channel.           *)
ReturnedIsResolved ==
  \A r \in Request :
    /\ handler[r] = "returned" ~> answer[r] # "none" \/ conn = "ended"
    /\ handler[r] = "returned" ~> handler[r] # "returned"

=============================================================================
