----------------------------- MODULE GuardCheck -----------------------------
(***************************************************************************)
(* Guard.Check (flyedge.go): one policy check, from the simulation seam to *)
(* the decision, by goroutines of the agent, while the config poller       *)
(* drives the simulation controller underneath.  A check takes the         *)
(* controller's lock several times and calls the platform once or twice:   *)
(* each of these is a step of its own.                                     *)
(*                                                                         *)
(* The controller is the one of SimulationController; its heartbeats and   *)
(* injections, which no check reads, are left to that module.              *)
(***************************************************************************)
EXTENDS SimulationController, Sequences

CONSTANT Request  \* the kinds of check the agent makes

ASSUME RequestAssumption ==
  /\ Request # {}
  /\ Request \subseteq
       [remote : BOOLEAN,     \* under a reverse invocation, with a scope
        run : Run,            \* the scope's run
        injection : BOOLEAN,  \* the scope allows simulation hooks
        media : BOOLEAN,      \* attachments, and the permission to send them
        private : BOOLEAN]    \* its session owns a private scenario plan

VARIABLES
  posture,  \* g.cfg.Mode and g.cfg.FailMode, fixed by New
  call      \* call[w]: the check of worker w

checkVars == <<posture, call>>
guardVars == <<simVars, checkVars>>

(* What the platform may answer.  "blank" is a 200 whose decision is       *)
(* missing or unknown; "unseen" allows or warns, without acknowledging the *)
(* attachments; "technical" reports that they could not be inspected;      *)
(* "kills" and "killed" are kills in a 200 and in a 403; "error" is every  *)
(* answer that Check returns as an error.                                  *)
TextReply == {"allow", "warn", "blank", "deny", "kills", "killed", "error"}
Reply == TextReply \cup {"unseen", "technical"}

Outcome == {"allow", "warn", "deny", "killed", "failOpen", "unavailable",
            "localDeny", "rejected", "baseline"}

(* The outcomes that let the operation go on.                              *)
Proceeds == {"allow", "warn", "failOpen", "baseline"}

Fresh == [at |-> "idle", req |-> CHOOSE q \in Request : TRUE, seen |-> <<>>,
          outcome |-> "none"]

GuardTypeOK ==
  /\ TypeOK
  /\ posture \in [mode : {"off", "enforce"}, failClosed : BOOLEAN]
  /\ \A w \in Worker :
       /\ call[w].at \in {"idle", "simulation", "scope", "observe", "observed",
                          "local", "ask", "reply", "decide", "done"}
       /\ call[w].req \in Request
       /\ call[w].outcome \in Outcome \cup {"none"}
       /\ DOMAIN call[w].seen \in {{}, {1}, {1, 2}}
       /\ \A n \in DOMAIN call[w].seen : call[w].seen[n] \in Reply
       /\ call[w].at = "done" <=> call[w].outcome # "none"

GuardInit ==
  /\ Init
  /\ posture \in [mode : {"off", "enforce"}, failClosed : BOOLEAN]
  /\ call = [w \in Worker |-> Fresh]

-----------------------------------------------------------------------------
Goes(w, at) == call' = [call EXCEPT ![w].at = at]

Ends(w, outcome) ==
  call' = [call EXCEPT ![w].at = "done", ![w].outcome = outcome]

Answered(w, reply) == call' = [call EXCEPT ![w].at = "reply", ![w].seen = Append(@, reply)]

NoSimulationChange == UNCHANGED <<simVars, posture>>

CheckBegins(w) ==
  /\ call[w].at = "idle"
  /\ \E q \in Request : call' = [call EXCEPT ![w] = [Fresh EXCEPT !.at = "simulation",
                                                                  !.req = q]]
  /\ NoSimulationChange

(* Bug: the private plan is not looked at.                                 *)
HasExecution_Bug(w) == FALSE

HasExecution(w) == call[w].req.private

(* HasExecution, then Active: is the check part of a simulation?           *)
CheckSimulation(w) ==
  /\ call[w].at = "simulation"
  /\ Goes(w, IF HasExecution(w) THEN "observe"
             ELSE IF ~Active THEN "local"
             ELSE IF call[w].req.remote THEN "scope" ELSE "observe")
  /\ NoSimulationChange

(* A remote invocation that the active simulation does not authorize.      *)
CheckScope(w) ==
  /\ call[w].at = "scope"
  /\ IF InvocationRejection(call[w].req.run, call[w].req.injection)
     THEN Ends(w, "rejected")
     ELSE Goes(w, "observe")
  /\ NoSimulationChange

(* recordSimEvent hands the operation to Controller.Record.                *)
CheckObserves(w) ==
  /\ call[w].at = "observe"
  /\ \/ RecordBegins(w)
     \/ ~(Active /\ tr # None /\ cfg \in Telemetry) /\ UNCHANGED simVars
  /\ Goes(w, "observed")
  /\ UNCHANGED posture

CheckRecords(w) == RecordStep(w) /\ UNCHANGED checkVars

(* The baseline of an evaluation runs without the policy check.            *)
CheckBypass(w) ==
  /\ call[w].at = "observed"
  /\ hook[w].at = "idle"
  /\ IF ~HasExecution(w) /\ ProtectionDisabled
     THEN Ends(w, "baseline")
     ELSE Goes(w, "local")
  /\ NoSimulationChange

(* Local controls may add a no, never a yes.                               *)
CheckLocal(w) ==
  /\ call[w].at = "local"
  /\ \/ Goes(w, "ask")
     \/ posture.mode # "off" /\ Ends(w, "localDeny")
  /\ NoSimulationChange

(* g.enforcer.Check, the first time and with the attachments, if any.      *)
CheckAsks(w) ==
  /\ call[w].at = "ask"
  /\ \E reply \in IF call[w].req.media THEN Reply ELSE TextReply : Answered(w, reply)
  /\ NoSimulationChange

-----------------------------------------------------------------------------
LastReply(w) == call[w].seen[Len(call[w].seen)]

(* Bug: any first failure is tried again, kills included.                  *)
MediaUnavailable_Bug(reply) == reply \in {"error", "killed", "unseen", "technical"}

(* Bug: a denial is taken for a technical decision.                        *)
MediaDenied_Bug(reply) == reply \in {"error", "deny", "unseen", "technical"}

(* The attachments were not inspected, and no kill was answered instead.   *)
MediaUnavailable(reply) == reply \in {"error", "unseen", "technical"}

(* Bug: a failed retry is retried.                                         *)
RetriesText_Bug(w) == call[w].req.media /\ MediaUnavailable(LastReply(w))

(* The one text-only retry of a media check.                               *)
RetriesText(w) ==
  call[w].req.media /\ Len(call[w].seen) = 1 /\ MediaUnavailable(LastReply(w))

CheckRetries(w) ==
  /\ call[w].at = "reply"
  /\ RetriesText(w)
  /\ \E reply \in TextReply : Answered(w, reply)
  /\ NoSimulationChange

(* Bug: a failed retry always fails open.                                  *)
FailsOpen_Bug(w) == ~posture.failClosed \/ Len(call[w].seen) = 2

FailsOpen(w) == ~posture.failClosed

(* normalize starts from allow: only a decision it knows changes that.     *)
Decision(w) ==
  LET reply == LastReply(w) IN
  CASE reply \in {"killed", "kills"} -> "killed"
    [] reply = "blank" -> "allow"
    [] reply = "error" -> IF FailsOpen(w) THEN "failOpen" ELSE "unavailable"
    [] OTHER -> reply

CheckDecides(w) ==
  /\ call[w].at = "reply"
  /\ ~RetriesText(w)
  /\ Ends(w, Decision(w))
  /\ NoSimulationChange

CheckReturns(w) ==
  /\ call[w].at = "done"
  /\ call' = [call EXCEPT ![w] = Fresh]
  /\ NoSimulationChange

CheckStep(w) ==
  \/ CheckBegins(w) \/ CheckSimulation(w) \/ CheckScope(w) \/ CheckObserves(w)
  \/ CheckRecords(w) \/ CheckBypass(w) \/ CheckLocal(w) \/ CheckAsks(w)
  \/ CheckRetries(w) \/ CheckDecides(w) \/ CheckReturns(w)

GuardNext ==
  \/ Lifecycle /\ UNCHANGED checkVars
  \/ \E w \in Worker : CheckStep(w)

GuardSpec == GuardInit /\ [][GuardNext]_guardVars

-----------------------------------------------------------------------------
Seen(w) == {call[w].seen[n] : n \in DOMAIN call[w].seen}

(* "Kill switch ALWAYS enforces": a kill in any answer to a check, in      *)
(* either form and to either attempt, ends it as killed, in every mode.    *)
KillsBlock ==
  \A w \in Worker :
    call[w].at = "done" /\ Seen(w) \cap {"kills", "killed"} # {} =>
      call[w].outcome = "killed"

(* "Control denials remain authoritative": neither the text-only retry nor *)
(* FailOpen turns a denial of the platform into anything else.             *)
DenialsStand ==
  \A w \in Worker :
    call[w].at = "done" /\ "deny" \in Seen(w) => call[w].outcome = "deny"

(* A fail-closed guard lets an operation go on only in the baseline of a   *)
(* simulation, or when the platform answered the check with a 200 that     *)
(* decodes and covers the attachments it was sent: never because an        *)
(* attempt, or the retry after it, failed or left the attachments          *)
(* unconfirmed.  The answer need not hold a decision: a blank one is taken *)
(* for an allow, fail-closed or not.                                       *)
FailClosedHolds ==
  \A w \in Worker :
    posture.failClosed /\ call[w].outcome \in Proceeds \ {"baseline"} =>
      Seen(w) \cap {"allow", "warn", "blank"} # {}

(* A session with a private scenario plan keeps its protection, whatever   *)
(* the public simulation does meanwhile: it is neither bypassed for a      *)
(* baseline nor turned away as belonging to another run.                   *)
PrivateKeepsProtection ==
  \A w \in Worker :
    call[w].req.private => call[w].outcome \notin {"baseline", "rejected"}

(* README.md: of a remote agent, "unprotected baseline execution is not    *)
(* supported".  The authorization and the bypass read two snapshots.       *)
RemoteNeverUnprotected ==
  \A w \in Worker : call[w].req.remote => call[w].outcome # "baseline"
=============================================================================
