---------------------------- MODULE MCInvocation ----------------------------
(***************************************************************************)
(* Small connections for TLC.  Three requests: r1 and r2 belong to one     *)
(* session, r3 to another and carries a scenario plan; deadlines fall      *)
(* before, at and after the first lease.                                   *)
(***************************************************************************)
EXTENDS InvocationConnection, TLC

CONSTANTS r1, r2, r3, s1, s2, i1, i2, i3

MCIdOf      == r1 :> i1 @@ r2 :> i2 @@ r3 :> i3
MCSessionOf == r1 :> s1 @@ r2 :> s1 @@ r3 :> s2
MCDeadline  == r1 :> 1  @@ r2 :> 2  @@ r3 :> 3

(* Two requests in different sessions, for the lease and for liveness.     *)
PairIdOf      == r1 :> i1 @@ r3 :> i3
PairSessionOf == r1 :> s1 @@ r3 :> s2
PairDeadline  == r1 :> 1  @@ r3 :> 3

(* The broker reuses the identifier of r1 for r3, with a later deadline.   *)
ReusedIdOf == r1 :> i1 @@ r2 :> i2 @@ r3 :> i1

(* No step reads the record of refusals, and of the properties only        *)
(* ImplementsService does: the other runs tell states apart without it.    *)
WithoutRefusals ==
  <<now, linkVars, leaseVars, loopVars, workVars, writing, closed, output, sent, answer>>

=============================================================================
