-------------------------- MODULE MCTwoConnections --------------------------
(***************************************************************************)
(* Two small connections for TLC, and two requests: each may come over     *)
(* either connection.                                                      *)
(***************************************************************************)
EXTENDS TwoConnections, TLC

CONSTANTS r1, r2, s1, s2, i1, i2

MCIdOf == r1 :> i1 @@ r2 :> i2
MCSessionOf == r1 :> s1 @@ r2 :> s2

(* r2 is a later turn of the conversation of r1.                           *)
TurnSessionOf == r1 :> s1 @@ r2 :> s1

MCDeadline == r1 :> 2 @@ r2 :> 2

(* No step reads the records of refusals, nor do the properties of the two *)
(* connections: states are told apart without them.                        *)
WithoutRefusals ==
  <<now, linkVars, leaseVars, loopVars, workVars, writing, closed, output, sent, answer,
    second, conn2, expiresAt2, renewAt2, granted2, endErr2, ctxDone2, wsOpen2,
    readFailed2, pendingRenewal2, renewals2, active2, sessions2, seen2, handler2, due2,
    cancelled2, outcome2, runs2, writing2, closed2, output2, sent2, answer2>>

=============================================================================
