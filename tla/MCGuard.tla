------------------------------- MODULE MCGuard -------------------------------
(***************************************************************************)
(* Small guards for TLC.  `p1` and `p2` are tiers of run A, the second an  *)
(* unprotected baseline on the same credentials; `q1` is run B.            *)
(***************************************************************************)
EXTENDS GuardCheck

CONSTANTS p1, p2, q1, runA, runB

MCRunOf  == [s \in Config |-> IF s = q1 THEN runB ELSE runA]
MCCredOf == [s \in Config |-> IF s = q1 THEN 2 ELSE 1]

Local == [remote |-> FALSE, run |-> runA, injection |-> FALSE, media |-> FALSE,
          private |-> FALSE]

(* Local and remote checks, with and without attachments, permission to    *)
(* inject or a private plan.                                               *)
MCRequest == {Local, [Local EXCEPT !.media = TRUE],
              [Local EXCEPT !.remote = TRUE],
              [Local EXCEPT !.remote = TRUE, !.injection = TRUE],
              [Local EXCEPT !.remote = TRUE, !.injection = TRUE, !.private = TRUE]}
=============================================================================
