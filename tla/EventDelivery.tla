---------------------------- MODULE EventDelivery ----------------------------
(***************************************************************************)
(* What an outgoing stream of events promises, free of buffers, goroutines *)
(* and sockets.  Events are numbered as they are accepted; each is pending *)
(* until it is delivered, in a batch, or lost; and what was delivered is   *)
(* never taken back nor delivered again.  The frames of a simulation run   *)
(* (EventWire) are delivered one by one, in turn, and any may be lost;     *)
(* those of the batched sink (TelemetryBatch) may overtake each other, and *)
(* are lost only along with one that does not encode.  Both implement this *)
(* specification.                                                          *)
(***************************************************************************)
EXTENDS Integers, Sequences, SequencesExt

CONSTANTS
  InTurn,     \* events leave one at a time, the oldest first
  Fragile     \* events that may be given up, and others with them

VARIABLES
  accepted,   \* events accepted so far
  pending,    \* those neither delivered nor lost
  delivered   \* those delivered, in the order of their delivery

absVars == <<accepted, pending, delivered>>

AbsInit == accepted = 0 /\ pending = {} /\ delivered = <<>>

(* It is the turn of event e.                                              *)
Turn(e) == InTurn => \A other \in pending : e <= other

Accept ==
  /\ accepted' = accepted + 1
  /\ pending' = pending \cup {accepted + 1}
  /\ UNCHANGED delivered

Deliver ==
  LET batch == SubSeq(delivered', Len(delivered) + 1, Len(delivered'))
  IN  /\ delivered' = delivered \o batch
      /\ IsInjective(batch) /\ ToSet(batch) \subseteq pending
      /\ pending' = pending \ ToSet(batch)
      /\ InTurn => Len(batch) = 1
      /\ \A e \in ToSet(batch) : Turn(e)
      /\ UNCHANGED accepted

Lose ==
  LET gone == pending \ pending'
  IN  /\ gone \cap Fragile # {} /\ pending' = pending \ gone
      /\ \A e \in gone : Turn(e)
      /\ UNCHANGED <<accepted, delivered>>

AbsNext == Accept \/ Deliver \/ Lose

AbsSpec == AbsInit /\ [][AbsNext]_absVars
=============================================================================
