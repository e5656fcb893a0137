------------------------- MODULE InvocationService -------------------------
(***************************************************************************)
(* What one invocation connection promises the platform, free of leases,   *)
(* sockets, goroutines and channels.  A request is new until its handler   *)
(* is started; a started request is answered once ("completed" or          *)
(* "failed"), or lost when the connection stops first: the SDK reports     *)
(* lost work as ErrInvocationOutcomeUnknown and never runs it again.       *)
(*                                                                         *)
(* Each delivery of a request that starts no handler may be refused, and   *)
(* the refusal is a "failed" of the same identifier.  So a "failed" on the *)
(* wire is not the end of a request: a request may be refused and started  *)
(* when it is delivered again, or refused while it runs and completed      *)
(* after that.  Results and refusals are kept apart here.                  *)
(* InvocationConnection implements this specification.                     *)
(***************************************************************************)
EXTENDS Integers, FiniteSets

CONSTANTS
  Request,        \* the requests the platform may send on this connection
  SessionOf,      \* SessionOf[r]: the conversation the request belongs to
  MaxConcurrent   \* handlers the connection may run at the same time

VARIABLES
  status,         \* status[r]: what has become of the work of request r
  refused,        \* requests of which a delivery was refused with "failed"
  open            \* the connection still accepts work

absVars == <<status, refused, open>>

AbsTypeOK ==
  /\ status \in [Request -> {"new", "started", "completed", "failed", "lost"}]
  /\ refused \in SUBSET Request
  /\ open \in BOOLEAN

Started == {r \in Request : status[r] = "started"}

AbsInit ==
  /\ status = [r \in Request |-> "new"]
  /\ refused = {}
  /\ open = TRUE

(* A handler starts only for a request never seen before, in a free slot,  *)
(* and never beside another request of its session.                        *)
StartRequest(r) ==
  /\ open
  /\ status[r] = "new"
  /\ Cardinality(Started) < MaxConcurrent
  /\ \A s \in Started : SessionOf[s] # SessionOf[r]
  /\ status' = [status EXCEPT ![r] = "started"]
  /\ UNCHANGED <<refused, open>>

(* A delivery is refused: whatever the work of the request has come to, it *)
(* is neither started, stopped nor answered by it.                         *)
RefuseRequest(r) ==
  /\ open
  /\ refused' = refused \cup {r}
  /\ UNCHANGED <<status, open>>

AnswerRequest(r) ==
  /\ open
  /\ status[r] = "started"
  /\ \E a \in {"completed", "failed"} : status' = [status EXCEPT ![r] = a]
  /\ UNCHANGED <<refused, open>>

(* When the connection stops, every unanswered request is lost at once.    *)
StopService ==
  /\ open
  /\ open' = FALSE
  /\ status' = [r \in Request |-> IF status[r] = "started" THEN "lost"
                                                           ELSE status[r]]
  /\ UNCHANGED refused

AbsNext ==
  \/ \E r \in Request : StartRequest(r) \/ RefuseRequest(r) \/ AnswerRequest(r)
  \/ StopService

AbsSpec == AbsInit /\ [][AbsNext]_absVars

=============================================================================
