--------------------------- MODULE TelemetryBatch ---------------------------
(***************************************************************************)
(* The batched telemetry sink (telemetry/batched.go): agent goroutines     *)
(* record events into a buffer, a goroutine of the sink drains it on a     *)
(* ticker and hands the batch to the sender, and Close drains it a last    *)
(* time.  Events are numbered in the order their Record calls begin.       *)
(***************************************************************************)
EXTENDS Integers, Sequences, SequencesExt

CONSTANTS
  Logger,        \* goroutines of the agent that record events
  MaxLogged,     \* bound on the events recorded
  Unencodable    \* events whose Data, a map of the caller's, json.Marshal refuses

ASSUME BatchAssumption == MaxLogged \in Nat /\ Unencodable \subseteq Nat

Logged == 1..MaxLogged
NoEvent == 0

VARIABLES
  checks,     \* the recorder's count of checks, and of the events begun
  event,      \* event[r]: the event a Record call of r holds
  buf,        \* b.buf
  batcher,    \* where the goroutine of the sink stands
  batch,      \* batch[f]: what a flush by f ("loop" or "close") has drained
  telStop,    \* how often b.stop was closed
  closeOnce,  \* where the call that owns b.closeOnce stands
  handed,     \* the events handed to the sender, in order
  spoiled,    \* the batches that were drained but did not encode
  late        \* events buffered after Close began

batchVars == <<checks, event, buf, batcher, batch, telStop, closeOnce, handed, spoiled, late>>

BatchTypeOK ==
  /\ checks \in 0..MaxLogged
  /\ event \in [Logger -> Logged \cup {NoEvent}]
  /\ ToSet(buf) \subseteq Logged /\ ToSet(handed) \subseteq Logged
  /\ batcher \in {"wait", "send", "gone"}
  /\ closeOnce \in {"idle", "wait", "send", "done"}
  /\ telStop \in 0..1
  /\ \A f \in {"loop", "close"} : ToSet(batch[f]) \subseteq Logged
  /\ spoiled \subseteq SUBSET Logged /\ late \subseteq Logged

BatchInit ==
  /\ checks = 0 /\ event = [r \in Logger |-> NoEvent]
  /\ buf = <<>> /\ batch = [f \in {"loop", "close"} |-> <<>>] /\ handed = <<>>
  /\ batcher = "wait" /\ telStop = 0 /\ closeOnce = "idle"
  /\ spoiled = {} /\ late = {}

(* Record counts the event, then appends it: two critical sections.        *)
RecordCounts(r) ==
  /\ event[r] = NoEvent /\ checks < MaxLogged
  /\ checks' = checks + 1
  /\ event' = [event EXCEPT ![r] = checks + 1]
  /\ UNCHANGED <<buf, batcher, batch, telStop, closeOnce, handed, spoiled, late>>

RecordBuffers(r) ==
  /\ event[r] # NoEvent
  /\ buf' = Append(buf, event[r])
  /\ late' = IF telStop > 0 THEN late \cup {event[r]} ELSE late
  /\ event' = [event EXCEPT ![r] = NoEvent]
  /\ UNCHANGED <<checks, batcher, batch, telStop, closeOnce, handed, spoiled>>

(* Mutant: the buffer is sent before it is emptied.                        *)
Emptied_Bug == buf

Emptied == <<>>

Encodes(events) == ToSet(events) \cap Unencodable = {}

(* flush: the buffer is drained under the mutex, encoded and sent outside  *)
(* it.  One event that does not encode loses its whole batch before the    *)
(* sender; and a batch whose sending fails is not sent again.              *)
Drain(f) == batch' = [batch EXCEPT ![f] = buf] /\ buf' = Emptied
Send(f) ==
  /\ batch' = [batch EXCEPT ![f] = <<>>]
  /\ IF Encodes(batch[f])
     THEN handed' = handed \o batch[f] /\ UNCHANGED spoiled
     ELSE spoiled' = spoiled \cup {ToSet(batch[f])} /\ UNCHANGED handed

LoopDrains ==
  /\ batcher = "wait" /\ Drain("loop") /\ batcher' = "send"
  /\ UNCHANGED <<checks, event, telStop, closeOnce, handed, spoiled, late>>

LoopSends ==
  /\ batcher = "send" /\ Send("loop") /\ batcher' = "wait"
  /\ UNCHANGED <<checks, event, buf, telStop, closeOnce, late>>

BatcherEnds ==
  /\ batcher = "wait" /\ telStop > 0 /\ batcher' = "gone"
  /\ UNCHANGED <<checks, event, buf, batch, telStop, closeOnce, handed, spoiled, late>>

(* Close: the first call stops the goroutine, waits for it and flushes;    *)
(* closeOnce makes the others wait until it has.                           *)
CloseBegins ==
  /\ closeOnce = "idle" /\ closeOnce' = "wait" /\ telStop' = telStop + 1
  /\ UNCHANGED <<checks, event, buf, batcher, batch, handed, spoiled, late>>

(* Mutant: Close does not wait for the goroutine.                          *)
LoopDone_Bug == TRUE

LoopDone == batcher = "gone"

CloseDrains ==
  /\ closeOnce = "wait" /\ LoopDone /\ Drain("close") /\ closeOnce' = "send"
  /\ UNCHANGED <<checks, event, batcher, telStop, handed, spoiled, late>>

CloseSends ==
  /\ closeOnce = "send" /\ Send("close") /\ closeOnce' = "done"
  /\ UNCHANGED <<checks, event, buf, batcher, telStop, late>>

Flushing == LoopDrains \/ LoopSends
Closing == CloseDrains \/ CloseSends
Recording == \E r \in Logger : RecordCounts(r) \/ RecordBuffers(r)

BatchNext == Flushing \/ BatcherEnds \/ CloseBegins \/ Closing \/ Recording

-----------------------------------------------------------------------------
Held == {event[r] : r \in {q \in Logger : event[q] # NoEvent}}

(* No event is handed to the sender twice, or after its batch was spoiled; *)
(* a batch is spoiled only by an event in it that does not encode, and no  *)
(* such event is handed over.  When Close has returned, every event was    *)
(* handed over, spoiled with its batch, or buffered after Close began, or  *)
(* a Record call has still to buffer it (Batched.Close, Batched.flush).    *)
EventsHandedOver ==
  LET everywhere == handed \o batch["loop"] \o batch["close"] \o buf
  IN /\ IsInjective(everywhere)
     /\ Encodes(handed)
     /\ \A b \in spoiled : b \cap Unencodable # {} /\ b \cap ToSet(everywhere) = {}
     /\ closeOnce = "done" =>
          1..checks \subseteq ToSet(handed) \cup (UNION spoiled) \cup late \cup Held

(* The sink implements EventDelivery: an event that a Record call holds,   *)
(* or that is buffered or drained, is pending; it reaches the sender once  *)
(* or stays, and what a flush gives up is a whole batch, with an event in  *)
(* it that does not encode (Batched.flush).                                *)
Sink == INSTANCE EventDelivery
          WITH accepted <- checks, delivered <- handed, InTurn <- FALSE,
               Fragile <- Unencodable,
               pending <- Held \cup ToSet(batch["loop"] \o batch["close"] \o buf)

SinkDelivers == Sink!AbsSpec
=============================================================================
