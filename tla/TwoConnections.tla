---------------------------- MODULE TwoConnections ----------------------------
(***************************************************************************)
(* Two reverse-invocation connections of one Guard.  ServeInvocations may  *)
(* be called again, when a connection was lost or beside one that serves   *)
(* (invocation.go); the new connection has a loop, maps and a lease of its *)
(* own, but both share the simulation controller of the Guard, and with it *)
(* the private plans, which are kept by session (simulation/scenario.go).  *)
(* A handler of the lost connection may still run when the next one        *)
(* serves.                                                                 *)
(*                                                                         *)
(* The first connection has the names of InvocationConnection, the second  *)
(* the same names with a 2; the clock and the plans are common.  Until the *)
(* second is opened its variables are as Init leaves them.                 *)
(***************************************************************************)
EXTENDS InvocationConnection

VARIABLES
  second,         \* "none" until the second is opened: "beside" the first, or
                  \* "after" it ended
  conn2, endErr2, ctxDone2, wsOpen2, readFailed2,
  expiresAt2, renewAt2, pendingRenewal2, renewals2, granted2,
  active2, sessions2, seen2,
  handler2, due2, cancelled2, outcome2, runs2,
  writing2, closed2, output2, sent2, answer2, refused2

Second == INSTANCE InvocationConnection WITH
  conn <- conn2, endErr <- endErr2, ctxDone <- ctxDone2, wsOpen <- wsOpen2,
  readFailed <- readFailed2, expiresAt <- expiresAt2, renewAt <- renewAt2,
  pendingRenewal <- pendingRenewal2, renewals <- renewals2, granted <- granted2,
  active <- active2, sessions <- sessions2, seen <- seen2, handler <- handler2,
  due <- due2, cancelled <- cancelled2, outcome <- outcome2, runs <- runs2,
  writing <- writing2, closed <- closed2, output <- output2, sent <- sent2,
  answer <- answer2, refused <- refused2

ownFirst ==
  <<linkVars, leaseVars, loopVars, handler, due, cancelled, outcome, runs, outVars>>

workVars2 ==
  <<endErr2, ctxDone2, wsOpen2, readFailed2, pendingRenewal2, renewals2, active2,
    sessions2, seen2, handler2, due2, cancelled2, outcome2, runs2, writing2, closed2,
    output2, sent2, answer2, refused2>>

ownSecond == <<conn2, expiresAt2, renewAt2, granted2, workVars2>>

bothVars == <<now, executions, ownFirst, ownSecond, second>>

-----------------------------------------------------------------------------
InitBoth ==
  /\ Init
  /\ Second!Init
  /\ second = "none"

(***************************************************************************)
(* ServeInvocations is called again: registration returned a new lease and *)
(* the new socket became ready.  Nothing asks whether the first connection *)
(* serves, or whether handlers of it still run.                            *)
(***************************************************************************)
ServeAgain ==
  /\ second = "none"
  /\ second' = IF conn = "ended" THEN "after" ELSE "beside"
  /\ expiresAt2' \in (now + 1)..(now + LeaseDuration + LeaseSlack)
  /\ renewAt2' = IF AutoRenew THEN now + ((expiresAt2' - now) \div 2) ELSE Off
  /\ granted2' = [granted2 EXCEPT !.exp = expiresAt2']
  /\ UNCHANGED <<now, executions, ownFirst, conn2, workVars2>>

FirstMoves == Next /\ UNCHANGED <<ownSecond, second>>

SecondMoves == second # "none" /\ Second!Next /\ UNCHANGED <<ownFirst, second>>

NextBoth == FirstMoves \/ ServeAgain \/ SecondMoves

SpecBoth == InitBoth /\ [][NextBoth]_bothVars

(***************************************************************************)
(* Safety *)
(***************************************************************************)

Busy == {"running", "closing"}

(* The plans that handlers of the first, and of the second, brought.       *)
Bringers == {1} \X (PlanRequests \cap InState(Busy))
              \cup {2} \X (PlanRequests \cap Second!InState(Busy))

(* A plan in the shared controller belongs to exactly one running handler, *)
(* of whichever connection: EndExecution, which only has the session to go *)
(* by, never takes the plan of the other connection away, and no plan is   *)
(* left behind by a connection that was lost.                              *)
PlansOwned ==
  /\ executions = {SessionOf[b[2]] : b \in Bringers}
  /\ \A b, c \in Bringers : SessionOf[b[2]] = SessionOf[c[2]] => b = c

(* "Different sessions can overlap; the same session cannot"               *)
(* (docs/SCENARIO_INTEGRATION.md:46): once the application has called      *)
(* ServeInvocations again after a lost connection, no two handlers of a    *)
(* session run together.  The map of sessions is local to a loop, so this  *)
(* does not hold.                                                          *)
SessionsApart ==
  second = "after" =>
    \A r \in InState(Busy), s \in Second!InState(Busy) : SessionOf[r] # SessionOf[s]

=============================================================================
