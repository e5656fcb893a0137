---------------------------- MODULE MCSimulation ----------------------------
(***************************************************************************)
(* Small simulations for TLC: two runs, the first with three blocks.  `a2` *)
(* is the next tier of `a1` on the same credentials, `a3` carries a new    *)
(* telemetry token and asks for an unprotected baseline; `b1` is run B.    *)
(***************************************************************************)
EXTENDS SimulationController

CONSTANTS a1, a2, a3, b1, runA, runB

MCRunOf  == [s \in Config |-> IF s = b1 THEN runB ELSE runA]
MCCredOf == [s \in Config |-> IF s \in {a1, a2} THEN 1 ELSE IF s = a3 THEN 2 ELSE 3]
=============================================================================
