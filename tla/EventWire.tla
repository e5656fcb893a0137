------------------------------ MODULE EventWire ------------------------------
(***************************************************************************)
(* The telemetry transport of a simulation run (simulation/ws.go): hooks   *)
(* queue frames without waiting, and one goroutine dials, writes what is   *)
(* queued, and dials again when a write fails, until Stop.                 *)
(*                                                                         *)
(* Frames are numbered as they are accepted.  Time is not modelled: a wait *)
(* may end at any moment.                                                  *)
(***************************************************************************)
EXTENDS Integers, Sequences, SequencesExt

CONSTANTS
  QueueSize,    \* wsQueueSize
  MaxBackoff,   \* wsMaxBackoff, in units of wsInitialBackoff
  MaxFailures   \* bound on the failures of dials and writes

ASSUME WireAssumption ==
  QueueSize \in Nat \ {0} /\ MaxBackoff \in Nat \ {0} /\ MaxFailures \in Nat

VARIABLES
  accepted,  \* frames accepted so far
  queue,     \* t.queue
  sender,    \* the goroutine of run: where it stands, its backoff and frame
  halted,    \* t.stop is closed
  onWire,    \* the frames the server got
  sentCount, \* t.sent
  unwritten, \* frames whose write failed
  failures   \* failed dials and writes

wireVars == <<accepted, queue, sender, halted, onWire, sentCount, unwritten, failures>>

NoFrame == 0
Sender(at, backoff) == [at |-> at, backoff |-> backoff, frame |-> NoFrame]

WireInit ==
  /\ accepted = 0 /\ queue = <<>> /\ sender = Sender("dial", 1) /\ halted = FALSE
  /\ onWire = <<>> /\ sentCount = 0 /\ unwritten = {} /\ failures = 0

(* The second select of trySend: with Stop and room at once, either.       *)
Accepts == Len(queue) < QueueSize
Enqueue ==
  /\ Accepts
  /\ accepted' = accepted + 1 /\ queue' = Append(queue, accepted + 1)
Drops ==
  /\ halted \/ ~Accepts
  /\ UNCHANGED <<accepted, queue>>

Halts ==
  /\ ~halted /\ halted' = TRUE
  /\ UNCHANGED <<accepted, queue, sender, onWire, sentCount, unwritten, failures>>

(* nextBackoff                                                             *)
NextBackoff(cur) == IF cur * 2 > MaxBackoff THEN MaxBackoff ELSE cur * 2

Fails == failures < MaxFailures /\ failures' = failures + 1

(* The loop of run: no dial after Stop, one may fail; a connection resets  *)
(* the backoff.                                                            *)
Dials ==
  /\ sender.at = "dial"
  /\ \/ halted /\ sender' = Sender("gone", sender.backoff) /\ UNCHANGED failures
     \/ ~halted /\ sender' = Sender("pump", 1) /\ UNCHANGED failures
     \/ ~halted /\ Fails /\ sender' = Sender("sleep", sender.backoff)
  /\ UNCHANGED <<accepted, queue, halted, onWire, sentCount, unwritten>>

(* sleep, and then the next dial.                                          *)
Sleeps ==
  /\ sender.at = "sleep"
  /\ sender' = IF halted THEN Sender("gone", sender.backoff)
               ELSE Sender("dial", NextBackoff(sender.backoff))
  /\ UNCHANGED <<accepted, queue, halted, onWire, sentCount, unwritten, failures>>

(* The select of pump: after Stop, either ends it or takes one more frame. *)
PumpStops ==
  /\ sender.at = "pump" /\ halted
  /\ sender' = Sender("gone", sender.backoff)
  /\ UNCHANGED <<accepted, queue, halted, onWire, sentCount, unwritten, failures>>

PumpTakes ==
  /\ sender.at = "pump" /\ queue # <<>>
  /\ sender' = [sender EXCEPT !.at = "write", !.frame = Head(queue)]
  /\ queue' = Tail(queue)
  /\ UNCHANGED <<accepted, halted, onWire, sentCount, unwritten, failures>>

(* Bug: a frame whose write failed is queued again.                        *)
QueueAfter_Bug == Append(queue, sender.frame)

(* What a failed write leaves queued: its frame is given up.               *)
QueueAfter == queue

(* A failed write, by Stop at the latest, may or may not have arrived.     *)
Writes ==
  /\ sender.at = "write"
  /\ \/ /\ onWire' = Append(onWire, sender.frame) /\ sentCount' = sentCount + 1
        /\ sender' = Sender("pump", sender.backoff)
        /\ UNCHANGED <<queue, unwritten, failures>>
     \/ /\ IF halted THEN UNCHANGED failures ELSE Fails
        /\ onWire' \in {onWire, Append(onWire, sender.frame)}
        /\ queue' = QueueAfter /\ unwritten' = unwritten \cup {sender.frame}
        /\ sender' = Sender(IF halted THEN "gone" ELSE "sleep", sender.backoff)
        /\ UNCHANGED sentCount
  /\ UNCHANGED <<accepted, halted>>

SenderNext == Dials \/ Sleeps \/ PumpStops \/ PumpTakes \/ Writes

-----------------------------------------------------------------------------
(* What the server gets is what was queued, in that order and at most      *)
(* once; a frame is missing only if its write failed, one for each         *)
(* connection that was lost or the final one, or if it is still to come;   *)
(* and no more is counted as sent than arrived (run, pump, trySend).       *)
InHand == IF sender.frame = NoFrame THEN <<>> ELSE <<sender.frame>>
InOrder(frames) == \A i, j \in DOMAIN frames : i < j => frames[i] < frames[j]

WireFaithful ==
  /\ Len(queue) <= QueueSize
  /\ InOrder(onWire \o InHand \o queue)
  /\ ToSet(onWire \o InHand \o queue) \cup unwritten = 1..accepted
  /\ ~halted => Len(onWire \o InHand \o queue) + failures >= accepted
  /\ sentCount <= Len(onWire) /\ Len(onWire) <= sentCount + failures + (IF halted THEN 1 ELSE 0)

(* The transport implements EventDelivery: a frame that is queued or in    *)
(* hand is pending; the oldest is the next to be delivered or given up,    *)
(* and whether a failed write arrived is all the doubt there is.           *)
Wire == INSTANCE EventDelivery
          WITH pending <- ToSet(InHand \o queue), delivered <- onWire,
               InTurn <- TRUE, Fragile <- Nat

ImplementsDelivery == Wire!AbsSpec
=============================================================================
