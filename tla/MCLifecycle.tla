----------------------------- MODULE MCLifecycle -----------------------------
(***************************************************************************)
(* A small platform for TLC: settings of two revisions and one without,    *)
(* the older of which starts a simulation, and one that asks for the       *)
(* manifest.                                                               *)
(***************************************************************************)
EXTENDS GuardLifecycle

CONSTANTS c1, c2, r1, gateway, blockA

Plain == [rev |-> 2, named |-> TRUE, allows |-> FALSE, mode |-> NoMode,
          sim |-> NoBlock, refresh |-> FALSE]

MCAnswer == {Plain,
             [Plain EXCEPT !.rev = 1, !.allows = TRUE, !.sim = blockA, !.mode = gateway],
             [Plain EXCEPT !.rev = 0, !.allows = TRUE, !.refresh = TRUE]}
=============================================================================
