--------------------------- MODULE LifecycleProofs --------------------------
(***************************************************************************)
(* Proofs about GuardLifecycle, for any number of callers, answers and     *)
(* events.  Guard.Close leaves nothing running (CloseIsFinal); attachments *)
(* leave the process only under a permission the platform holds to         *)
(* (MediaOnlyIfGranted); the controller runs the simulation of the last    *)
(* answer (SimulationFollows); the telemetry sink hands over what it took  *)
(* (EventsHandedOver) and implements EventDelivery.  And its types.        *)
(***************************************************************************)
EXTENDS GuardLifecycle, TLAPS

Shape ==
  /\ call \in [Caller -> {"idle", "closed"} \cup Connecting \cup ClosingAt]
  /\ pollStop \in {"none", "open", "taken"}
  /\ poller = "none" <=> pollStop = "none"
  /\ reopened \in BOOLEAN

(***************************************************************************)
(* The inductive invariant.  Several calls of Close may be under way at    *)
(* once, and only one of them waits for the poller.  One that does not     *)
(* wait may stop the simulation before the poller's last answer starts it  *)
(* again; but then the one that waits has not stopped it yet.              *)
(***************************************************************************)
Past == {"stopSim", "closeTel", "waitTel", "closed"}

NoneConnects ==
  ~reopened /\ AnyClose => \A c \in Caller : call[c] \notin Connecting

WaitedFor ==
  /\ pollStop = "taken" /\ poller # "gone" => \E c \in Caller : call[c] = "waitPoll"
  /\ \A c \in Caller : call[c] = "waitPoll" => pollStop = "taken"

StopTaken ==
  ~reopened /\ (\E c \in Caller : call[c] \in Past) => pollStop # "open"

StopsAgain ==
  ~reopened /\ ctl # NoBlock /\ (\E c \in Caller : call[c] \in Past \ {"stopSim"})
    => \E c \in Caller : call[c] \in {"waitPoll", "stopSim"}

SinkStopped ==
  /\ closeOnce \in {"send", "done"} => batcher = "gone"
  /\ \A c \in Caller : call[c] = "closed" => closeOnce = "done"

LifeInv ==
  Shape /\ NoneConnects /\ WaitedFor /\ StopTaken /\ StopsAgain /\ SinkStopped

(* A new Guard.                                                            *)
LEMMA InitLife == GuardInit => LifeInv
BY DEF GuardInit, BatchInit, LifeInv, Shape, NoneConnects, WaitedFor, StopTaken,
       StopsAgain, SinkStopped, Past, AnyClose, ClosingAt, Connecting

(* A step of the sink: a closed sink stays closed, with its goroutine gone. *)
LEMMA SinkLife ==
  ASSUME LifeInv, UNCHANGED <<pollVars, call, reopened>>,
         closeOnce' \in {"send", "done"} => batcher' = "gone",
         closeOnce = "done" => closeOnce' = "done"
  PROVE  LifeInv'
BY DEF LifeInv, Shape, NoneConnects, WaitedFor, StopTaken, StopsAgain, SinkStopped,
       AnyClose, pollVars

(* closeOnce is taken to stop the batcher, and never given back.           *)
LEMMA SinkSteps ==
  ASSUME LifeInv, Flushing \/ BatcherEnds \/ Closing \/ Recording
  PROVE  /\ closeOnce' \in {"send", "done"} => batcher' = "gone"
         /\ closeOnce = "done" => closeOnce' = "done"
BY DEF LifeInv, SinkStopped, Flushing, BatcherEnds, Closing, Recording, LoopDrains,
       LoopSends, CloseDrains, CloseSends, LoopDone, RecordCounts, RecordBuffers

(* A step of the poller before it is gone: it neither takes nor gives the  *)
(* stop channel, and may start a simulation, but only while a call that    *)
(* will stop it waits.                                                     *)
LEMMA PollerLife ==
  ASSUME LifeInv, poller \notin {"none", "gone"}, poller' # "none",
         UNCHANGED <<pollStop, call, reopened, closeOnce, batcher>>
  PROVE  LifeInv'
<1>1. Shape' /\ NoneConnects' /\ StopTaken' /\ SinkStopped'
  BY DEF LifeInv, Shape, NoneConnects, StopTaken, SinkStopped, AnyClose
<1>2. WaitedFor'
  BY DEF LifeInv, WaitedFor
<1>3. StopsAgain'
  <2>1. CASE ~reopened /\ \E c \in Caller : call[c] \in Past
    <3>1. pollStop = "taken"
      BY <2>1 DEF LifeInv, StopTaken, Shape
    <3>2. \E c \in Caller : call[c] = "waitPoll"
      BY <3>1 DEF LifeInv, WaitedFor
    <3> QED
      BY <3>2 DEF StopsAgain
  <2>2. CASE reopened \/ ~ \E c \in Caller : call[c] \in Past
    BY <2>2 DEF StopsAgain
  <2> QED
    BY <2>1, <2>2
<1> QED
  BY <1>1, <1>2, <1>3 DEF LifeInv

(* The poller waits, asks and applies.                                     *)
LEMMA PollerSteps ==
  ASSUME PollerStep \/ PollEnds
  PROVE  /\ poller \notin {"none", "gone"} /\ poller' # "none"
         /\ UNCHANGED <<pollStop, call, reopened, closeOnce, batcher>>
BY DEF PollerStep, PollEnds, PollAnswered, PollFails, ApplyMedia, ApplyMode, ModeHook,
       ApplySim, SimHook, Refresh, RefreshPosts, RefreshFolds, PollTicks, StepsFrom,
       PollStep, batchVars

(* The steps of a call of Connect.                                         *)
LEMMA ConnectLife ==
  ASSUME LifeInv, NEW c \in Caller,
         ConnectDeclares(c) \/ ConnectPosts(c) \/ ConnectFolds(c) \/ ConnectStarts(c)
  PROVE  LifeInv'
<1>1. UNCHANGED <<ctl, closeOnce, batcher>>
  BY DEF ConnectDeclares, ConnectPosts, ConnectFolds, ConnectStarts, pollVars, batchVars
<1>2. /\ call[c] \in {"idle"} \cup Connecting
      /\ \E at \in {"idle"} \cup Connecting : call' = [call EXCEPT ![c] = at]
  BY DEF ConnectDeclares, ConnectPosts, ConnectFolds, ConnectStarts, Go, Connecting
<1>3. \A d \in Caller : d # c => call'[d] = call[d]
  BY <1>2 DEF LifeInv, Shape
<1>4. call[c] \notin ClosingAt \cup {"closed"} /\ call'[c] \notin ClosingAt \cup {"closed"}
  BY <1>2 DEF LifeInv, Shape, Connecting, ClosingAt
<1>5. AnyClose' <=> AnyClose
  BY <1>3, <1>4 DEF AnyClose
<1>6. \A d \in Caller, s \in ClosingAt \cup {"closed"} : call'[d] = s <=> call[d] = s
  BY <1>3, <1>4
<1>7. SinkStopped'
  BY <1>1, <1>6 DEF LifeInv, SinkStopped
<1>8. CASE ConnectDeclares(c)
  <2>1. reopened' = (reopened \/ AnyClose) /\ UNCHANGED <<poller, pollStop>>
    BY <1>8 DEF ConnectDeclares, pollVars
  <2>2. Shape' /\ NoneConnects'
    BY <1>2, <1>5, <2>1 DEF LifeInv, Shape, NoneConnects
  <2>3. WaitedFor' /\ StopTaken' /\ StopsAgain'
    BY <1>1, <1>6, <2>1 DEF LifeInv, WaitedFor, StopTaken, StopsAgain, Past, ClosingAt
  <2> QED
    BY <1>7, <2>2, <2>3 DEF LifeInv
<1>9. CASE ~ConnectDeclares(c)
  <2>1. reopened' = reopened /\ call[c] \in Connecting
    BY <1>9 DEF ConnectPosts, ConnectFolds, ConnectStarts, Connecting
  <2>2. \/ UNCHANGED <<poller, pollStop>>
        \/ pollStop = "none" /\ pollStop' = "open" /\ poller' = "ask"
    BY <1>9 DEF ConnectPosts, ConnectFolds, ConnectStarts, StartsPoller, pollVars
  <2>3. reopened \/ ~AnyClose
    BY <2>1 DEF LifeInv, NoneConnects
  <2>4. Shape' /\ NoneConnects'
    BY <1>2, <1>5, <2>1, <2>2, <2>3 DEF LifeInv, Shape, NoneConnects
  <2>5. WaitedFor'
    BY <1>6, <2>2 DEF LifeInv, WaitedFor, ClosingAt
  <2>6. reopened' \/ ~ \E d \in Caller : call'[d] \in Past
    BY <1>5, <2>1, <2>3 DEF AnyClose, Past, ClosingAt
  <2>7. StopTaken' /\ StopsAgain'
    BY <2>6 DEF StopTaken, StopsAgain
  <2> QED
    BY <1>7, <2>4, <2>5, <2>7 DEF LifeInv
<1> QED
  BY <1>8, <1>9

(* The steps of a call of Close.                                           *)
LEMMA CloseLife ==
  ASSUME LifeInv, NEW c \in Caller,
         \/ CloseStarts(c) \/ CloseTakes(c) \/ CloseJoins(c) \/ CloseStopsSim(c)
         \/ CloseTelemetry(c) \/ CloseReturns(c)
  PROVE  LifeInv'
<1> USE DEF LifeInv, Shape, ClosingAt, Connecting, Past, Go
<1>1. CASE CloseStarts(c)
  <2>1. /\ call[c] = "idle" /\ call' = [call EXCEPT ![c] = "take"]
        /\ reopened' = (reopened \/ \E d \in Caller : call[d] \in Connecting)
        /\ UNCHANGED <<poller, pollStop, ctl, closeOnce, batcher>>
    BY <1>1 DEF CloseStarts, pollVars, batchVars
  <2>2. NoneConnects'
    BY <2>1 DEF NoneConnects, AnyClose
  <2>3. \A d \in Caller, s \in Past \cup {"waitPoll"} : call'[d] = s <=> call[d] = s
    BY <2>1
  <2>4. WaitedFor' /\ StopTaken' /\ StopsAgain' /\ SinkStopped'
    BY <2>1, <2>3 DEF WaitedFor, StopTaken, StopsAgain, SinkStopped
  <2>5. Shape'
    BY <2>1
  <2> QED
    BY <2>2, <2>4, <2>5
<1>2. ASSUME call[c] \in ClosingAt, NEW at \in ClosingAt \cup {"closed"},
             call' = [call EXCEPT ![c] = at], UNCHANGED <<poller, reopened>>
      PROVE  NoneConnects' /\ (pollStop' \in {"none", "open", "taken"}
                               /\ (pollStop = "none" <=> pollStop' = "none") => Shape')
  BY <1>2 DEF NoneConnects, AnyClose
<1>3. CASE CloseTakes(c)
  <2>1. /\ call[c] = "take" /\ UNCHANGED <<poller, reopened, ctl, closeOnce, batcher>>
        /\ \/ /\ pollStop = "open" /\ pollStop' = "taken"
              /\ call' = [call EXCEPT ![c] = "waitPoll"]
           \/ /\ pollStop # "open" /\ pollStop' = pollStop
              /\ call' = [call EXCEPT ![c] = "stopSim"]
    BY <1>3 DEF CloseTakes, Taken, batchVars
  <2>2. Shape' /\ NoneConnects'
    BY <1>2, <2>1
  <2>3. WaitedFor' /\ StopTaken'
    BY <2>1 DEF WaitedFor, StopTaken
  <2>4. StopsAgain' /\ SinkStopped'
    BY <2>1 DEF StopsAgain, SinkStopped
  <2> QED
    BY <2>2, <2>3, <2>4
<1>4. CASE CloseJoins(c)
  <2>1. /\ call[c] = "waitPoll" /\ poller = "gone"
        /\ call' = [call EXCEPT ![c] = "stopSim"]
        /\ UNCHANGED <<poller, pollStop, reopened, ctl, closeOnce, batcher>>
    BY <1>4 DEF CloseJoins, PollerDone, pollVars, batchVars
  <2>2. Shape' /\ NoneConnects'
    BY <1>2, <2>1
  <2>3. StopTaken'
    <3>1. pollStop = "taken"
      BY <2>1 DEF WaitedFor
    <3> QED
      BY <2>1, <3>1 DEF StopTaken
  <2>4. WaitedFor' /\ StopsAgain' /\ SinkStopped'
    BY <2>1 DEF WaitedFor, StopsAgain, SinkStopped
  <2> QED
    BY <2>2, <2>3, <2>4
<1>5. CASE CloseStopsSim(c)
  <2>1. /\ call[c] = "stopSim" /\ ctl' = NoBlock
        /\ call' = [call EXCEPT ![c] = "closeTel"]
        /\ UNCHANGED <<poller, pollStop, reopened, closeOnce, batcher>>
    BY <1>5 DEF CloseStopsSim, batchVars
  <2>2. Shape' /\ NoneConnects'
    BY <1>2, <2>1
  <2>3. WaitedFor' /\ StopTaken' /\ StopsAgain' /\ SinkStopped'
    BY <2>1 DEF WaitedFor, StopTaken, StopsAgain, SinkStopped
  <2> QED
    BY <2>2, <2>3
<1>6. CASE CloseTelemetry(c)
  <2>1. /\ call[c] = "closeTel"
        /\ call' = [call EXCEPT ![c] = "waitTel"]
        /\ UNCHANGED <<poller, pollStop, reopened, ctl, batcher>>
        /\ closeOnce' = closeOnce \/ (closeOnce = "idle" /\ closeOnce' = "wait")
    <3>1. CASE closeOnce = "idle"
      BY <1>6, <3>1 DEF CloseTelemetry, CloseBegins, pollVars
    <3>2. CASE closeOnce # "idle"
      BY <1>6, <3>2 DEF CloseTelemetry, pollVars, batchVars
    <3> QED
      BY <3>1, <3>2
  <2>2. Shape' /\ NoneConnects'
    BY <1>2, <2>1
  <2>3. WaitedFor' /\ StopTaken' /\ StopsAgain' /\ SinkStopped'
    BY <2>1 DEF WaitedFor, StopTaken, StopsAgain, SinkStopped
  <2> QED
    BY <2>2, <2>3
<1>7. CASE CloseReturns(c)
  <2>1. /\ call[c] = "waitTel" /\ closeOnce = "done"
        /\ call' = [call EXCEPT ![c] = "closed"]
        /\ UNCHANGED <<poller, pollStop, reopened, ctl, closeOnce, batcher>>
    BY <1>7 DEF CloseReturns, pollVars, batchVars
  <2>2. Shape' /\ NoneConnects'
    BY <1>2, <2>1
  <2>3. WaitedFor' /\ StopTaken' /\ StopsAgain' /\ SinkStopped'
    BY <2>1 DEF WaitedFor, StopTaken, StopsAgain, SinkStopped
  <2> QED
    BY <2>2, <2>3
<1> QED
  BY <1>1, <1>3, <1>4, <1>5, <1>6, <1>7

(* Every step of the Guard.                                                *)
LEMMA NextLife == LifeInv /\ [GuardNext]_guardVars => LifeInv'
<1> SUFFICES ASSUME LifeInv, [GuardNext]_guardVars PROVE LifeInv'
  OBVIOUS
<1>1. CASE UNCHANGED guardVars \/ MediaExpires
  <2>1. UNCHANGED <<poller, pollStop, ctl, call, reopened, closeOnce, batcher>>
    BY <1>1 DEF guardVars, pollVars, batchVars, MediaExpires
  <2> QED
    BY <2>1 DEF LifeInv, Shape, NoneConnects, WaitedFor, StopTaken, StopsAgain,
                SinkStopped, AnyClose
<1>2. CASE PollerStep \/ PollEnds
  BY <1>2, PollerLife, PollerSteps
<1>3. CASE SinkStep
  BY <1>3, SinkLife, SinkSteps DEF SinkStep
<1>4. ASSUME NEW c \in Caller, ConnectDeclares(c) \/ CloseStarts(c) \/ CallStep(c)
      PROVE  LifeInv'
  BY <1>4, ConnectLife, CloseLife DEF CallStep
<1> QED
  BY <1>1, <1>2, <1>3, <1>4 DEF GuardNext

(* The inductive invariant holds throughout the life of a Guard.           *)
THEOREM LifeSafe == GuardSpec => []LifeInv
BY InitLife, NextLife, PTL DEF GuardSpec

(* When every call of Close has returned, and no Connect raced one, there  *)
(* is no poller, no simulation and no goroutine of the telemetry sink.     *)
THEOREM ClosedIsAtRest == GuardSpec => []CloseIsFinal
<1>1. LifeInv => CloseIsFinal
  <2> SUFFICES ASSUME LifeInv, ~reopened, NEW c \in Caller, call[c] = "closed",
                      \A d \in Caller : call[d] \notin ClosingAt
               PROVE  poller \in {"none", "gone"} /\ ctl = NoBlock /\ batcher = "gone"
    BY DEF CloseIsFinal, AnyClose
  <2>1. pollStop # "open"
    BY DEF LifeInv, StopTaken, Past
  <2>2. poller \in {"none", "gone"}
    BY <2>1 DEF LifeInv, Shape, WaitedFor, ClosingAt
  <2>3. ctl = NoBlock
    BY DEF LifeInv, StopsAgain, Past, ClosingAt
  <2>4. batcher = "gone"
    BY DEF LifeInv, SinkStopped
  <2> QED
    BY <2>2, <2>3, <2>4
<1> QED
  BY <1>1, LifeSafe, PTL


-----------------------------------------------------------------------------
Reply == Answer \cup {NoAnswer}

(* The fields of a reply.                                                  *)
LEMMA ReplyFields ==
  ASSUME NEW a \in Reply
  PROVE  a.rev \in Nat /\ a.named \in BOOLEAN /\ a.allows \in BOOLEAN
<1>1. CASE a \in Answer
  <2>1. a \in [rev : Nat, named : BOOLEAN, allows : BOOLEAN, mode : Modes \cup {NoMode},
               sim : Block \cup {NoBlock}, refresh : BOOLEAN]
    BY <1>1, LifecycleAssumption
  <2> QED
    BY <2>1
<1>2. CASE a = NoAnswer
  BY <1>2 DEF NoAnswer
<1> QED
  BY <1>1, <1>2 DEF Reply

(* The definitions of GuardLifecycle, of any sequence of answers.          *)
RevisionsOf(seq, n) == {seq[i].rev : i \in 1..n} \cup {0}
CountingIn(seq) ==
  {i \in 1..Len(seq) : seq[i].rev = 0 \/ seq[i].rev >= Max(RevisionsOf(seq, i - 1))}
IsNewest(m, S) == m \in S /\ \A x \in S : x <= m

(* Counting and Revisions, with the answers as an argument.                *)
LEMMA SameDefinitions ==
  /\ Counting = CountingIn(answers)
  /\ Revisions(Len(answers)) \cup {0} = RevisionsOf(answers, Len(answers))
BY DEF Counting, CountingIn, NewestBefore, Revisions, RevisionsOf

(* The newest of a set of revisions is its maximum.                        *)
LEMMA NewestIsMax ==
  ASSUME NEW S \in SUBSET Nat, NEW m, IsNewest(m, S)
  PROVE  Max(S) = m
<1>1. m \in S /\ \A y \in S : m >= y
  BY DEF IsNewest
<1>2. Max(S) \in S /\ \A y \in S : Max(S) >= y
  BY <1>1 DEF Max
<1>3. m \in Nat /\ Max(S) \in Nat /\ m >= Max(S) /\ Max(S) >= m
  BY <1>1, <1>2
<1>4. \A a, b \in Nat : a >= b /\ b >= a => b = a
  OBVIOUS
<1> QED
  BY <1>3, <1>4

(* Revisions are numbers.                                                  *)
LEMMA RevisionsAreNats ==
  ASSUME NEW seq \in Seq(Reply)
  PROVE  RevisionsOf(seq, Len(seq)) \in SUBSET Nat
<1>1. \A i \in 1..Len(seq) : seq[i].rev \in Nat
  BY ReplyFields
<1> QED
  BY <1>1 DEF RevisionsOf

(* One more answer adds its revision, and counts if it is not outdated.    *)
LEMMA OneMoreAnswer ==
  ASSUME NEW seq \in Seq(Reply), NEW a \in Reply, NEW newest,
         IsNewest(newest, RevisionsOf(seq, Len(seq)))
  PROVE  LET more == Append(seq, a)
         IN /\ RevisionsOf(more, Len(more)) = RevisionsOf(seq, Len(seq)) \cup {a.rev}
            /\ CountingIn(more) = CountingIn(seq) \cup
                 {i \in {Len(seq) + 1} : a.rev = 0 \/ a.rev >= newest}
<1> DEFINE n == Len(seq)
           more == Append(seq, a)
<1>1. /\ n \in Nat /\ Len(more) = n + 1 /\ more[n + 1] = a
      /\ \A i \in 1..n : more[i] = seq[i]
  OBVIOUS
<1>2. ASSUME NEW k \in 0..n PROVE RevisionsOf(more, k) = RevisionsOf(seq, k)
  <2>1. \A i \in 1..k : more[i] = seq[i]
    BY <1>1
  <2> HIDE DEF more
  <2> QED
    BY <2>1 DEF RevisionsOf
<1>3. RevisionsOf(more, n + 1) = RevisionsOf(seq, n) \cup {a.rev}
  <2>1. 1..(n + 1) = 1..n \cup {n + 1}
    BY <1>1
  <2> HIDE DEF more, n
  <2> QED
    BY <1>1, <2>1 DEF RevisionsOf
<1>4. RevisionsOf(seq, n) \in SUBSET Nat
  BY RevisionsAreNats
<1>5. Max(RevisionsOf(more, n)) = newest
  BY <1>1, <1>2, <1>4, NewestIsMax
<1>6. CountingIn(more) = CountingIn(seq) \cup {i \in {n + 1} : a.rev = 0 \/ a.rev >= newest}
  <2>1. ASSUME NEW i \in 1..n
        PROVE  more[i] = seq[i] /\ RevisionsOf(more, i - 1) = RevisionsOf(seq, i - 1)
    BY <1>1, <1>2
  <2>2. (n + 1) - 1 = n /\ 1..Len(more) = 1..n \cup {n + 1} /\ n + 1 \notin 1..n
    BY <1>1
  <2> HIDE DEF more, n
  <2>3. CountingIn(seq) = {i \in 1..n : seq[i].rev = 0
                                        \/ seq[i].rev >= Max(RevisionsOf(seq, i - 1))}
    BY DEF CountingIn, n
  <2>4. ASSUME NEW i
        PROVE  i \in CountingIn(more) <=>
                 i \in CountingIn(seq) \/ (i = n + 1 /\ (a.rev = 0 \/ a.rev >= newest))
    <3>1. CASE i \in 1..n
      BY <2>1, <2>2, <2>3, <3>1 DEF CountingIn
    <3>2. CASE i = n + 1
      BY <1>1, <1>5, <2>2, <2>3, <3>2 DEF CountingIn
    <3>3. CASE i \notin 1..n /\ i # n + 1
      BY <2>2, <2>3, <3>3 DEF CountingIn
    <3> QED
      BY <3>1, <3>2, <3>3
  <2> QED
    BY <2>4
<1> QED
  BY <1>1, <1>3, <1>6

(***************************************************************************)
(* The inductive invariant.  media.rev is the newest revision of all       *)
(* answers, outdated ones included; a permission, and an acknowledgement,  *)
(* is that of the last answer that counts.                                 *)
(***************************************************************************)
Sources(m) ==
  /\ \A i \in Counting : i <= m
  /\ answers[m].rev \in {0, media.rev}
  /\ media.allowed => /\ answers[m].named /\ answers[m].allows
                      /\ answers[m].rev = media.rev
  /\ media.ack # 0 => answers[m].rev = media.ack

MediaInv ==
  /\ held \in Reply /\ answers \in Seq(Reply)
  /\ media \in [rev : Nat, ack : Nat, allowed : BOOLEAN, fresh : BOOLEAN]
  /\ IsNewest(media.rev, RevisionsOf(answers, Len(answers)))
  /\ \/ Counting = {} /\ ~media.allowed /\ media.ack = 0
     \/ \E m \in Counting : Sources(m)

(* No media is allowed yet.                                                *)
LEMMA InitMedia == GuardInit => MediaInv
<1> SUFFICES ASSUME GuardInit PROVE MediaInv
  OBVIOUS
<1>1. answers = <<>> /\ held = NoAnswer
      /\ media = [rev |-> 0, ack |-> 0, allowed |-> FALSE, fresh |-> FALSE]
  BY DEF GuardInit
<1>2. Len(answers) = 0 /\ 1..Len(answers) = {} /\ answers \in Seq(Reply)
  BY <1>1
<1>3. Counting = {}
  BY <1>2 DEF Counting
<1>4. RevisionsOf(answers, Len(answers)) = {0}
  BY <1>2 DEF RevisionsOf
<1> QED
  BY <1>1, <1>2, <1>3, <1>4 DEF MediaInv, Reply, IsNewest

(* Section 1 of the poller's round.                                        *)
LEMMA ApplyMediaKeeps ==
  ASSUME MediaInv, ApplyMedia
  PROVE  MediaInv'
<1> DEFINE n == Len(answers)
           all == RevisionsOf(answers, n)
<1>1. /\ held \in Reply /\ held' = held /\ answers' = Append(answers, held)
      /\ answers \in Seq(Reply) /\ answers' \in Seq(Reply)
      /\ media \in [rev : Nat, ack : Nat, allowed : BOOLEAN, fresh : BOOLEAN]
      /\ IsNewest(media.rev, all)
  BY DEF MediaInv, ApplyMedia
<1>2. /\ n \in Nat /\ answers'[n + 1] = held
      /\ \A i \in 1..n : answers'[i] = answers[i]
  BY <1>1
<1>3. held.rev \in Nat /\ held.named \in BOOLEAN /\ held.allows \in BOOLEAN
  BY <1>1, ReplyFields
<1>4. /\ RevisionsOf(answers', Len(answers')) = all \cup {held.rev}
      /\ CountingIn(answers') = CountingIn(answers) \cup
           {i \in {n + 1} : held.rev = 0 \/ held.rev >= media.rev}
  BY <1>1, OneMoreAnswer
<1>5. Counting' = CountingIn(answers')
  BY DEF Counting, CountingIn, NewestBefore, Revisions, RevisionsOf
<1>6. \A i \in Counting : i \in 1..n
  BY DEF Counting
<1>7. all \in SUBSET Nat
  BY <1>1, RevisionsAreNats
<1>8. PICK k \in Nat : k = n + 1
  BY <1>2
<1> HIDE DEF n
<1>9. CASE Current(held)
  <2>1. Counting' = Counting \cup {n + 1}
    BY <1>4, <1>5, <1>9, SameDefinitions DEF Current
  <2>2. /\ media'.rev = IF held.rev = 0 THEN media.rev ELSE held.rev
        /\ media'.ack = IF held.named THEN held.rev ELSE 0
        /\ media'.allowed = Granted(held, media'.rev)
        /\ media' = [rev |-> media'.rev, ack |-> media'.ack, allowed |-> media'.allowed,
                     fresh |-> TRUE]
    BY <1>9 DEF ApplyMedia
  <2>3. media' \in [rev : Nat, ack : Nat, allowed : BOOLEAN, fresh : BOOLEAN]
    <3>1. media'.rev \in Nat
      BY <1>1, <1>3, <2>2
    <3>2. media'.ack \in Nat
      BY <1>3, <2>2
    <3>3. media'.allowed \in BOOLEAN
      BY <2>2 DEF Granted
    <3>4. \A r, a \in Nat, b \in BOOLEAN :
            [rev |-> r, ack |-> a, allowed |-> b, fresh |-> TRUE]
              \in [rev : Nat, ack : Nat, allowed : BOOLEAN, fresh : BOOLEAN]
      OBVIOUS
    <3>5. [rev |-> media'.rev, ack |-> media'.ack, allowed |-> media'.allowed, fresh |-> TRUE]
            \in [rev : Nat, ack : Nat, allowed : BOOLEAN, fresh : BOOLEAN]
      BY <3>1, <3>2, <3>3, <3>4, Zenon
    <3> QED
      BY <2>2, <3>5, Zenon
  <2>4. IsNewest(media'.rev, all \cup {held.rev})
    <3>1. media.rev \in all /\ media.rev \in Nat /\ \A x \in all : x \in Nat /\ x <= media.rev
      BY <1>1, <1>7 DEF IsNewest
    <3>2. CASE held.rev = 0
      BY <2>2, <3>1, <3>2 DEF IsNewest
    <3>3. CASE held.rev # 0
      <4>1. media'.rev = held.rev /\ held.rev >= media.rev
        BY <1>9, <2>2, <3>3 DEF Current
      <4>2. \A x \in all : x <= held.rev
        BY <1>3, <3>1, <4>1
      <4> QED
        BY <1>3, <4>1, <4>2 DEF IsNewest
    <3> QED
      BY <3>2, <3>3
  <2>5. \A i \in Counting' : i <= k
    BY <1>2, <1>6, <1>8, <2>1
  <2>6. held.rev \in {0, media'.rev}
    BY <2>2
  <2>7. media'.allowed => held.named /\ held.allows /\ held.rev = media'.rev
    BY <2>2, <2>6 DEF Granted
  <2>8. media'.ack # 0 => held.rev = media'.ack
    BY <2>2
  <2>9. Sources(k)' /\ k \in Counting'
    BY <1>2, <1>8, <2>1, <2>5, <2>6, <2>7, <2>8 DEF Sources
  <2> QED
    BY <1>1, <1>4, <2>3, <2>4, <2>9 DEF MediaInv
<1>10. CASE ~Current(held)
  <2>1. Counting' = Counting
    BY <1>4, <1>5, <1>10, SameDefinitions DEF Current
  <2>2. media' = media
    BY <1>10 DEF ApplyMedia
  <2>3. IsNewest(media.rev, all \cup {held.rev})
    BY <1>1, <1>3, <1>10 DEF IsNewest, Current
  <2>4. \A m \in Counting : Sources(m) => Sources(m)'
    BY <1>2, <1>6, <2>1, <2>2 DEF Sources
  <2>5. \/ Counting = {} /\ ~media.allowed /\ media.ack = 0
        \/ \E m \in Counting : Sources(m)
    BY DEF MediaInv
  <2> QED
    BY <1>1, <1>4, <2>1, <2>2, <2>3, <2>4, <2>5 DEF MediaInv
<1> QED
  BY <1>9, <1>10

(* What the other steps do to the settings: nothing, but for their expiry. *)
LEMMA OtherSteps ==
  ASSUME [GuardNext]_guardVars, ~ApplyMedia
  PROVE  /\ UNCHANGED answers
         /\ held' = held \/ held' \in Reply
         /\ media' = media \/ media' = [media EXCEPT !.fresh = FALSE]
<1>1. CASE UNCHANGED guardVars \/ SinkStep
  BY <1>1 DEF guardVars, pollVars, SinkStep
<1>2. CASE PollerStep \/ PollEnds
  BY <1>2
     DEF PollerStep, PollEnds, PollAnswered, PollFails, ApplyMode, ModeHook, ApplySim,
         SimHook, Refresh, RefreshPosts, RefreshFolds, PollTicks, StepsFrom, Reply
<1>3. CASE MediaExpires
  BY <1>3 DEF MediaExpires
<1>4. ASSUME NEW c \in Caller, ConnectDeclares(c) \/ CloseStarts(c) \/ CallStep(c)
      PROVE  UNCHANGED <<answers, held, media>>
  BY <1>4
     DEF ConnectDeclares, CloseStarts, CallStep, ConnectPosts, ConnectFolds,
         ConnectStarts, CloseTakes, CloseJoins, CloseStopsSim, CloseTelemetry,
         CloseReturns, pollVars
<1> QED
  BY <1>1, <1>2, <1>3, <1>4 DEF GuardNext

(* Every step of the Guard.                                                *)
LEMMA NextMedia == MediaInv /\ [GuardNext]_guardVars => MediaInv'
<1> SUFFICES ASSUME MediaInv, [GuardNext]_guardVars, ~ApplyMedia PROVE MediaInv'
  BY ApplyMediaKeeps
<1>1. /\ answers' = answers /\ held' \in Reply
      /\ media' = media \/ media' = [media EXCEPT !.fresh = FALSE]
  BY OtherSteps DEF MediaInv
<1>2. /\ media' \in [rev : Nat, ack : Nat, allowed : BOOLEAN, fresh : BOOLEAN]
      /\ media'.rev = media.rev /\ media'.ack = media.ack
      /\ media'.allowed = media.allowed
  BY <1>1 DEF MediaInv
<1>3. Counting' = Counting
  BY <1>1 DEF Counting, NewestBefore, Revisions
<1>4. RevisionsOf(answers', Len(answers')) = RevisionsOf(answers, Len(answers))
  BY <1>1
<1>5. \A m \in Counting : Sources(m) => Sources(m)'
  BY <1>1, <1>2, <1>3 DEF Sources
<1> QED
  BY <1>1, <1>2, <1>3, <1>4, <1>5 DEF MediaInv

(* The permission follows the last answer that counts, whatever their      *)
(* number and order.                                                       *)
THEOREM MediaSafe == GuardSpec => []MediaInv
BY InitMedia, NextMedia, PTL DEF GuardSpec

(* Attachments are allowed only under the last answer not overtaken by an  *)
(* older revision, and no other revision is acknowledged.                  *)
THEOREM MediaNeedsGrant == GuardSpec => []MediaOnlyIfGranted
<1>1. MediaInv => MediaOnlyIfGranted
  <2> SUFFICES ASSUME MediaInv, media.allowed \/ media.ack # 0
               PROVE  /\ Counting # {}
                      /\ media.allowed => /\ InForce.named /\ InForce.allows
                                          /\ InForce.rev = Max(Revisions(Len(answers)) \cup {0})
                      /\ media.ack # 0 => InForce.rev = media.ack
    BY DEF MediaOnlyIfGranted, NontextPayloadAllowed
  <2>1. PICK m \in Counting : Sources(m)
    BY DEF MediaInv
  <2>2. Counting \in SUBSET Nat
    BY DEF Counting
  <2>3. Max(Counting) = m
    BY <2>1, <2>2, NewestIsMax DEF Sources, IsNewest
  <2>4. Max(Revisions(Len(answers)) \cup {0}) = media.rev
    <3>1. /\ answers \in Seq(Reply)
          /\ IsNewest(media.rev, RevisionsOf(answers, Len(answers)))
      BY DEF MediaInv
    <3> QED
      BY <3>1, RevisionsAreNats, NewestIsMax, SameDefinitions
  <2> QED
    BY <2>1, <2>3, <2>4 DEF Sources, InForce
<1> QED
  BY <1>1, MediaSafe, PTL

-----------------------------------------------------------------------------
(***************************************************************************)
(* The simulation.  The hash is stored before the controller is told, so   *)
(* the two differ while the callback runs, and only then; and the block    *)
(* in the poller's hand is that of the last answer.                        *)
(***************************************************************************)
Applying == {"mode", "modeHook", "sim"}

FollowInv ==
  /\ answers \in Seq(Reply)
  /\ poller \in Applying \cup {"simHook"} => answers # <<>> /\ held = answers[Len(answers)]
  /\ answers # <<>> /\ poller \notin Applying => simHash = answers[Len(answers)].sim
  /\ ~AnyClose /\ poller # "simHook" => ctl = simHash

(* A call of Close is never undone: it is under way until it has returned. *)
LEMMA ClosePersists ==
  ASSUME LifeInv, [GuardNext]_guardVars, AnyClose
  PROVE  AnyClose'
<1>1. PICK d \in Caller : call[d] \in ClosingAt \cup {"closed"}
  BY DEF AnyClose
<1>2. call'[d] \in ClosingAt \cup {"closed"}
  <2>1. CASE UNCHANGED call
    BY <1>1, <2>1
  <2>2. ASSUME NEW c \in Caller, ConnectDeclares(c) \/ CloseStarts(c) \/ CallStep(c)
        PROVE  call'[d] \in ClosingAt \cup {"closed"}
    BY <1>1, <2>2
       DEF ConnectDeclares, CloseStarts, CallStep, ConnectPosts, ConnectFolds,
           ConnectStarts, CloseTakes, CloseJoins, CloseStopsSim, CloseTelemetry,
           CloseReturns, Go, ClosingAt, LifeInv, Shape
  <2>3. PollerStep \/ PollEnds \/ MediaExpires \/ SinkStep => UNCHANGED call
    BY PollerSteps DEF MediaExpires, SinkStep
  <2> QED
    BY <2>1, <2>2, <2>3 DEF GuardNext, guardVars
<1> QED
  BY <1>2 DEF AnyClose

(* A step that leaves the answers and the simulation alone.                *)
LEMMA FollowKept ==
  ASSUME FollowInv, AnyClose => AnyClose', UNCHANGED <<answers, held, simHash, ctl>>,
         \/ poller' = poller
         \/ poller \in Applying /\ poller' \in Applying
         \/ poller \notin Applying \cup {"simHook"} /\ poller' \notin Applying \cup {"simHook"}
  PROVE  FollowInv'
BY DEF FollowInv, Applying

(* A step of the poller follows the order of the answers.                  *)
LEMMA PollerFollows ==
  ASSUME FollowInv, MediaInv, PollerStep \/ PollEnds, AnyClose => AnyClose'
  PROVE  FollowInv'
<1> USE DEF StepsFrom, PollStep, Applying
<1>1. CASE \/ PollFails \/ ModeHook \/ RefreshPosts \/ PollTicks \/ PollEnds
  BY <1>1, FollowKept DEF PollFails, ModeHook, RefreshPosts, PollTicks, PollEnds
<1>2. CASE ApplyMode \/ RefreshFolds
  BY <1>2, FollowKept DEF ApplyMode, RefreshFolds
<1>3. CASE ApplyMedia
  <2>1. /\ poller' = "mode" /\ answers' = Append(answers, held) /\ held' = held
        /\ UNCHANGED <<simHash, ctl>> /\ poller = "media"
    BY <1>3 DEF ApplyMedia
  <2>2. /\ answers' \in Seq(Reply) /\ answers' # <<>>
        /\ answers'[Len(answers')] = held
    BY <2>1 DEF MediaInv
  <2> QED
    BY <2>1, <2>2 DEF FollowInv
<1>4. CASE ApplySim
  BY <1>4 DEF ApplySim, SimChanged, FollowInv
<1>5. CASE SimHook
  BY <1>5 DEF SimHook, FollowInv
<1>6. CASE Refresh \/ \E a \in Answer : PollAnswered(a)
  <2>1. /\ UNCHANGED <<answers, simHash, ctl>> /\ poller \in {"refresh", "ask"}
        /\ poller' \in {"post", "wait", "media"}
    BY <1>6 DEF Refresh, PollAnswered
  <2> QED
    BY <2>1 DEF FollowInv
<1> QED
  BY <1>1, <1>2, <1>3, <1>4, <1>5, <1>6 DEF PollerStep

(* Every step of the Guard.                                                *)
LEMMA NextFollow ==
  LifeInv /\ MediaInv /\ FollowInv /\ [GuardNext]_guardVars => FollowInv'
<1> SUFFICES ASSUME LifeInv, MediaInv, FollowInv, [GuardNext]_guardVars PROVE FollowInv'
  OBVIOUS
<1>1. AnyClose => AnyClose'
  BY ClosePersists
<1>2. CASE UNCHANGED guardVars \/ MediaExpires \/ SinkStep
  BY <1>1, <1>2, FollowKept DEF guardVars, pollVars, MediaExpires, SinkStep
<1>3. CASE PollerStep \/ PollEnds
  BY <1>1, <1>3, PollerFollows
<1>4. ASSUME NEW c \in Caller, CloseStopsSim(c) PROVE FollowInv'
  <2>1. /\ call[c] = "stopSim"
        /\ UNCHANGED <<poller, held, simHash, answers>>
    BY <1>4 DEF CloseStopsSim
  <2>2. AnyClose'
    BY <1>1, <2>1 DEF AnyClose, ClosingAt
  <2> QED
    BY <2>1, <2>2 DEF FollowInv
<1>5. ASSUME NEW c \in Caller, ConnectStarts(c) PROVE FollowInv'
  <2>1. /\ UNCHANGED <<held, simHash, answers, ctl>>
        /\ poller' = poller \/ (pollStop = "none" /\ poller' = "ask")
    BY <1>5 DEF ConnectStarts, StartsPoller
  <2>2. pollStop = "none" => poller = "none"
    BY DEF LifeInv, Shape
  <2> QED
    BY <1>1, <2>1, <2>2, FollowKept DEF Applying
<1>6. ASSUME NEW c \in Caller, ~CloseStopsSim(c), ~ConnectStarts(c),
             ConnectDeclares(c) \/ CloseStarts(c) \/ CallStep(c)
      PROVE  FollowInv'
  <2>1. UNCHANGED <<poller, held, simHash, answers, ctl>>
    BY <1>6
       DEF ConnectDeclares, CloseStarts, CallStep, ConnectPosts, ConnectFolds,
           CloseTakes, CloseJoins, CloseTelemetry, CloseReturns, pollVars
  <2> QED
    BY <1>1, <2>1, FollowKept
<1> QED
  BY <1>2, <1>3, <1>4, <1>5, <1>6 DEF GuardNext, CallStep

(* Between two polls of a Guard nobody closes, the controller runs the     *)
(* simulation of the last answer: no change is missed.                     *)
THEOREM SimulationIsFollowed == GuardSpec => []SimulationFollows
<1>1. GuardInit => FollowInv
  BY DEF GuardInit, FollowInv, Applying, Reply
<1>2. FollowInv => SimulationFollows
  BY DEF FollowInv, SimulationFollows, Applying
<1> QED
  BY <1>1, <1>2, NextFollow, LifeSafe, MediaSafe, PTL DEF GuardSpec

-----------------------------------------------------------------------------
(***************************************************************************)
(* The telemetry sink, for any number of recorders and events.  The two    *)
(* flushes never hold a batch at once, for Close waits until the goroutine *)
(* is gone; and an event is with its recorder, or in one place of the      *)
(* sequence of those handed over, drained and buffered, or was lost with a *)
(* batch that did not encode.                                              *)
(***************************************************************************)
Unsent == batch["loop"] \o batch["close"] \o buf
Everywhere == handed \o batch["loop"] \o batch["close"] \o buf

SinkType ==
  /\ checks \in 0..MaxLogged /\ event \in [Logger -> Logged \cup {NoEvent}]
  /\ buf \in Seq(Logged) /\ handed \in Seq(Logged)
  /\ batch \in [{"loop", "close"} -> Seq(Logged)]
  /\ batcher \in {"wait", "send", "gone"}
  /\ closeOnce \in {"idle", "wait", "send", "done"}
  /\ telStop \in 0..1 /\ late \in SUBSET Logged /\ spoiled \in SUBSET SUBSET Logged

SinkPhases ==
  /\ telStop = 0 <=> closeOnce = "idle"
  /\ batcher # "send" => batch["loop"] = <<>>
  /\ closeOnce # "send" => batch["close"] = <<>>
  /\ closeOnce \in {"send", "done"} => batcher = "gone" /\ ToSet(buf) \subseteq late

Recorded ==
  /\ IsInjective(Everywhere) /\ ToSet(Everywhere) \subseteq 1..checks
  /\ \A r \in Logger : event[r] <= checks /\ event[r] \notin ToSet(Everywhere)
  /\ \A r, s \in Logger : event[r] = event[s] /\ event[r] # NoEvent => r = s

Gone == UNION spoiled

Accounted ==
  /\ Encodes(handed) /\ \A b \in spoiled : b \cap Unencodable # {}
  /\ Gone \subseteq 1..checks
  /\ Gone \cap ToSet(Everywhere) = {} /\ Gone \cap Held = {}
  /\ 1..checks \subseteq ToSet(Everywhere) \cup Gone \cup Held

SinkInv == SinkType /\ SinkPhases /\ Recorded /\ Accounted

(* Nothing is recorded.                                                    *)
LEMMA SinkInitially == BatchInit => SinkInv
<1> SUFFICES ASSUME BatchInit PROVE SinkInv
  OBVIOUS
<1>1. SinkType
  BY BatchAssumption DEF BatchInit, SinkType
<1>2. SinkPhases
  BY DEF BatchInit, SinkPhases, ToSet
<1>3. Everywhere = <<>> /\ DOMAIN Everywhere = {} /\ ToSet(Everywhere) = {}
  BY DEF BatchInit, Everywhere, ToSet
<1>4. Recorded
  BY <1>3 DEF BatchInit, Recorded, IsInjective, NoEvent
<1>5. Accounted
  <2>1. Gone = {} /\ Encodes(handed) /\ spoiled = {} /\ 1..checks = {}
    BY DEF BatchInit, Gone, Encodes, ToSet
  <2> QED
    BY <2>1 DEF Accounted
<1> QED
  BY <1>1, <1>2, <1>4, <1>5 DEF SinkInv

(* One more event, at the end.                                             *)
LEMMA OneMoreEvent ==
  ASSUME NEW s \in Seq(Logged), NEW e \in Logged, NEW t, t = Append(s, e)
  PROVE  /\ ToSet(t) = ToSet(s) \cup {e}
         /\ IsInjective(s) /\ e \notin ToSet(s) => IsInjective(t)
<1>1. /\ DOMAIN t = 1..Len(s) + 1 /\ DOMAIN s = 1..Len(s) /\ Len(s) \in Nat
      /\ t[Len(s) + 1] = e /\ \A i \in 1..Len(s) : t[i] = s[i]
  OBVIOUS
<1>2. \A i \in DOMAIN t : i \in 1..Len(s) \/ i = Len(s) + 1
  BY <1>1
<1>3. ToSet(t) = ToSet(s) \cup {e}
  BY <1>1 DEF ToSet
<1>4. IsInjective(s) /\ e \notin ToSet(s) => IsInjective(t)
  BY <1>1, <1>2 DEF IsInjective, ToSet
<1> QED
  BY <1>3, <1>4

(* Two sequences, one after the other.                                     *)
LEMMA Joined ==
  ASSUME NEW s \in Seq(Logged), NEW t \in Seq(Logged)
  PROVE  /\ ToSet(s \o t) = ToSet(s) \cup ToSet(t)
         /\ IsInjective(s \o t) <=>
              IsInjective(s) /\ IsInjective(t) /\ ToSet(s) \cap ToSet(t) = {}
<1> DEFINE u == s \o t
<1>1. /\ Len(s) \in Nat /\ Len(t) \in Nat
      /\ DOMAIN s = 1..Len(s) /\ DOMAIN t = 1..Len(t) /\ DOMAIN u = 1..Len(s) + Len(t)
  OBVIOUS
<1>2. /\ \A i \in 1..Len(s) : u[i] = s[i]
      /\ \A i \in 1..Len(t) : u[Len(s) + i] = t[i]
  OBVIOUS
<1> HIDE DEF u
<1>3. \A k \in DOMAIN u : k \in 1..Len(s) \/ \E i \in 1..Len(t) : k = Len(s) + i
  <2> SUFFICES ASSUME NEW k \in DOMAIN u, k \notin 1..Len(s)
               PROVE  \E i \in 1..Len(t) : k = Len(s) + i
    OBVIOUS
  <2>1. k - Len(s) \in 1..Len(t) /\ k = Len(s) + (k - Len(s))
    BY <1>1
  <2> QED
    BY <2>1
<1>4. \A i \in 1..Len(s) : i \in DOMAIN u
  BY <1>1
<1>5. \A i \in 1..Len(t) : Len(s) + i \in DOMAIN u
  BY <1>1
<1>6. ToSet(u) = ToSet(s) \cup ToSet(t)
  <2>1. ASSUME NEW k \in DOMAIN u PROVE u[k] \in ToSet(s) \cup ToSet(t)
    <3>1. CASE k \in 1..Len(s)
      BY <1>1, <1>2, <3>1 DEF ToSet
    <3>2. ASSUME NEW i \in 1..Len(t), k = Len(s) + i PROVE u[k] \in ToSet(t)
      BY <1>1, <1>2, <3>2 DEF ToSet
    <3> QED
      BY <1>3, <3>1, <3>2
  <2>2. ToSet(s) \subseteq ToSet(u)
    BY <1>1, <1>2, <1>4 DEF ToSet
  <2>3. ToSet(t) \subseteq ToSet(u)
    BY <1>1, <1>2, <1>5 DEF ToSet
  <2>4. ToSet(u) \subseteq ToSet(s) \cup ToSet(t)
    BY <2>1 DEF ToSet
  <2> QED
    BY <2>2, <2>3, <2>4
<1>7. ASSUME IsInjective(u) PROVE IsInjective(s) /\ IsInjective(t) /\ ToSet(s) \cap ToSet(t) = {}
  <2>1. \A i, j \in DOMAIN u : u[i] = u[j] => i = j
    BY <1>7 DEF IsInjective
  <2>2. IsInjective(s)
    BY <1>1, <1>2, <1>4, <2>1 DEF IsInjective
  <2>3. ASSUME NEW i \in 1..Len(t), NEW j \in 1..Len(t), t[i] = t[j] PROVE i = j
    <3>1. Len(s) + i = Len(s) + j
      BY <1>2, <1>5, <2>1, <2>3
    <3> QED
      BY <1>1, <3>1
  <2>4. ASSUME NEW i \in 1..Len(s), NEW j \in 1..Len(t) PROVE s[i] # t[j]
    <3>1. i # Len(s) + j
      BY <1>1
    <3> QED
      BY <1>2, <1>4, <1>5, <2>1, <3>1
  <2>5. IsInjective(t)
    BY <1>1, <2>3 DEF IsInjective
  <2>6. ToSet(s) \cap ToSet(t) = {}
    BY <1>1, <2>4 DEF ToSet
  <2> QED
    BY <2>2, <2>5, <2>6
<1>8. ASSUME IsInjective(s), IsInjective(t), ToSet(s) \cap ToSet(t) = {} PROVE IsInjective(u)
  <2>1. \A i \in 1..Len(s), j \in 1..Len(t) : s[i] # t[j]
    BY <1>1, <1>8 DEF ToSet
  <2>2. /\ \A i, j \in 1..Len(s) : s[i] = s[j] => i = j
        /\ \A i, j \in 1..Len(t) : t[i] = t[j] => i = j
    BY <1>1, <1>8 DEF IsInjective
  <2> SUFFICES ASSUME NEW i \in DOMAIN u, NEW j \in DOMAIN u, u[i] = u[j] PROVE i = j
    BY DEF IsInjective
  <2>3. CASE i \in 1..Len(s) /\ j \in 1..Len(s)
    BY <1>2, <2>2, <2>3
  <2>4. ASSUME NEW k \in 1..Len(t), NEW l \in 1..Len(t), i = Len(s) + k, j = Len(s) + l
        PROVE  i = j
    <3>1. t[k] = t[l]
      BY <1>2, <2>4
    <3> QED
      BY <2>2, <2>4, <3>1
  <2>5. ASSUME NEW k \in 1..Len(t), \/ i \in 1..Len(s) /\ j = Len(s) + k
                                    \/ j \in 1..Len(s) /\ i = Len(s) + k
        PROVE  FALSE
    BY <1>2, <2>1, <2>5
  <2> QED
    BY <1>3, <2>3, <2>4, <2>5
<1> QED
  BY <1>6, <1>7, <1>8 DEF u

(* A sequence of three.                                                    *)
LEMMA JoinedThree ==
  ASSUME NEW a \in Seq(Logged), NEW b \in Seq(Logged), NEW c \in Seq(Logged)
  PROVE  /\ ToSet(a \o b \o c) = ToSet(a) \cup ToSet(b) \cup ToSet(c)
         /\ IsInjective(a \o b \o c) =>
              /\ IsInjective(b) /\ IsInjective(a \o c)
              /\ ToSet(b) \cap (ToSet(a) \cup ToSet(c)) = {}
<1> DEFINE ab == a \o b
<1>1. ab \in Seq(Logged)
  OBVIOUS
<1>2. /\ ToSet(ab) = ToSet(a) \cup ToSet(b)
      /\ IsInjective(ab) <=> IsInjective(a) /\ IsInjective(b) /\ ToSet(a) \cap ToSet(b) = {}
  BY Joined
<1> HIDE DEF ab
<1>3. /\ ToSet(ab \o c) = ToSet(ab) \cup ToSet(c)
      /\ IsInjective(ab \o c) => IsInjective(ab) /\ IsInjective(c) /\ ToSet(ab) \cap ToSet(c) = {}
  BY <1>1, Joined
<1>4. IsInjective(a \o c) <=> IsInjective(a) /\ IsInjective(c) /\ ToSet(a) \cap ToSet(c) = {}
  BY Joined
<1> QED
  BY <1>2, <1>3, <1>4 DEF ab

(* Where a batch lies does not change the whole.                           *)
LEMMA EmptyBatches ==
  \A a, b, c, d \in Seq(Logged) :
    /\ a \o d \o <<>> \o <<>> = a \o <<>> \o <<>> \o d
    /\ a \o <<>> \o d \o <<>> = a \o <<>> \o <<>> \o d
    /\ (a \o b) \o <<>> \o c \o d = a \o b \o c \o d
    /\ (a \o c) \o <<>> \o <<>> \o d = a \o <<>> \o c \o d
OBVIOUS

(* A step that moves events about but neither records nor loses any.       *)
LEMMA MovesKeepRecorded ==
  ASSUME Recorded, Accounted, Everywhere' = Everywhere,
         UNCHANGED <<checks, event, handed, spoiled>>
  PROVE  Recorded' /\ Accounted'
BY DEF Recorded, Accounted, Gone, Held

(* An event is in the hands of the call that records it.                   *)
LEMMA HeldSince ==
  ASSUME SinkType, NEW r \in Logger, RecordCounts(r)
  PROVE  Held' = Held \cup {checks + 1}
<1>1. /\ event[r] = NoEvent /\ checks + 1 # NoEvent
      /\ \A s \in Logger : event'[s] = (IF s = r THEN checks + 1 ELSE event[s])
  BY DEF RecordCounts, SinkType, NoEvent
<1> QED
  BY <1>1 DEF Held

(* It is no more when it is buffered.                                      *)
LEMMA HeldUntil ==
  ASSUME SinkType, Recorded, NEW r \in Logger, RecordBuffers(r)
  PROVE  event[r] \in Held /\ Held' = Held \ {event[r]}
<1>1. /\ event[r] # NoEvent /\ \A s \in Logger : event[s] = event[r] => s = r
      /\ \A s \in Logger : event'[s] = (IF s = r THEN NoEvent ELSE event[s])
  BY DEF RecordBuffers, SinkType, Recorded
<1> QED
  BY <1>1 DEF Held

(* record: an event joins the batch, which may be full.                    *)
LEMMA RecordKeeps ==
  ASSUME SinkInv, Recording PROVE SinkInv'
<1> USE DEF SinkInv
<1>1. ASSUME NEW r \in Logger, RecordCounts(r) PROVE SinkInv'
  <2>1. /\ event[r] = 0 /\ checks < MaxLogged /\ checks' = checks + 1
        /\ event' = [event EXCEPT ![r] = checks + 1]
        /\ UNCHANGED <<buf, batcher, batch, telStop, closeOnce, handed, spoiled, late>>
    BY <1>1 DEF RecordCounts, NoEvent
  <2>2. checks \in Nat /\ checks + 1 \in Logged /\ checks' \in 0..MaxLogged
    BY <2>1, BatchAssumption DEF SinkType, Logged
  <2>3. SinkType'
    BY <2>1, <2>2 DEF SinkType
  <2>4. SinkPhases'
    BY <2>1 DEF SinkPhases
  <2>5. Everywhere' = Everywhere
    BY <2>1 DEF Everywhere
  <2>6. \A s \in Logger : event'[s] = (IF s = r THEN checks + 1 ELSE event[s])
    BY <2>1 DEF SinkType
  <2>7. \A s \in Logger : event[s] \in Nat /\ event[s] <= checks
    BY DEF Recorded, SinkType, Logged, NoEvent
  <2>8. Recorded'
    <3>1. checks + 1 \notin 1..checks /\ 1..checks \subseteq 1..(checks + 1)
      BY <2>2
    <3> QED
      BY <2>1, <2>2, <2>5, <2>6, <2>7, <3>1 DEF Recorded
  <2>9. Accounted'
    <3>1. Held' = Held \cup {checks + 1}
      BY <1>1, HeldSince
    <3>2. checks + 1 \notin 1..checks /\ 1..(checks + 1) = 1..checks \cup {checks + 1}
      BY <2>2
    <3>3. checks + 1 \notin Gone /\ Gone' = Gone
      BY <2>1, <3>2 DEF Accounted, Gone
    <3> HIDE DEF Accounted
    <3> QED
      BY <2>1, <2>5, <3>1, <3>2, <3>3 DEF Accounted
  <2> QED
    BY <2>3, <2>4, <2>8, <2>9
<1>2. ASSUME NEW r \in Logger, RecordBuffers(r) PROVE SinkInv'
  <2> DEFINE e == event[r]
  <2>1. /\ e \in Logged /\ buf' = Append(buf, e) /\ event' = [event EXCEPT ![r] = 0]
        /\ late' = IF telStop > 0 THEN late \cup {e} ELSE late
        /\ UNCHANGED <<checks, batcher, batch, telStop, closeOnce, handed, spoiled>>
    BY <1>2 DEF RecordBuffers, SinkType, NoEvent
  <2>2. \A s \in Logger : event'[s] = (IF s = r THEN 0 ELSE event[s])
    BY <2>1 DEF SinkType
  <2>3. e \notin ToSet(Everywhere) /\ e <= checks /\ \A s \in Logger \ {r} : event[s] # e
    BY <2>1 DEF Recorded, Logged, NoEvent
  <2> HIDE DEF e
  <2>4. SinkType'
    BY <2>1 DEF SinkType, NoEvent
  <2>5. ToSet(buf') = ToSet(buf) \cup {e}
    BY <2>1, OneMoreEvent DEF SinkType
  <2>6. SinkPhases'
    <3>1. closeOnce \in {"send", "done"} => telStop > 0
      BY DEF SinkPhases, SinkType
    <3> QED
      BY <2>1, <2>5, <3>1 DEF SinkPhases
  <2>7. Everywhere' = Append(Everywhere, e) /\ Everywhere \in Seq(Logged)
    <3>1. /\ handed \in Seq(Logged) /\ buf \in Seq(Logged) /\ e \in Logged
          /\ batch["loop"] \in Seq(Logged) /\ batch["close"] \in Seq(Logged)
      BY <2>1 DEF SinkType
    <3>2. Everywhere' = handed \o batch["loop"] \o batch["close"] \o Append(buf, e)
      BY <2>1 DEF Everywhere
    <3> DEFINE before == handed \o batch["loop"] \o batch["close"]
    <3>3. before \in Seq(Logged)
      BY <3>1
    <3>4. /\ before \o Append(buf, e) = Append(before \o buf, e)
          /\ before \o buf \in Seq(Logged)
      <4> HIDE DEF before
      <4> QED BY <3>1, <3>3
    <3> QED
      BY <3>2, <3>4 DEF Everywhere
  <2>8. IsInjective(Everywhere') /\ ToSet(Everywhere') = ToSet(Everywhere) \cup {e}
    BY <2>1, <2>3, <2>7, OneMoreEvent DEF Recorded
  <2>9. \A s \in Logger : event'[s] \notin ToSet(Everywhere')
    <3>1. 0 \notin ToSet(Everywhere')
      BY <2>1, <2>8 DEF Recorded, Logged
    <3> QED
      BY <2>2, <2>3, <2>8, <3>1 DEF Recorded
  <2>10. Recorded'
    <3>1. checks \in Nat /\ e \in 1..checks
      BY <2>1, <2>3 DEF SinkType, Logged
    <3>2. \A s \in Logger : event'[s] <= checks'
      BY <2>1, <2>2, <3>1 DEF Recorded
    <3> QED
      BY <2>1, <2>2, <2>8, <2>9, <3>1, <3>2 DEF Recorded, NoEvent
  <2>11. Accounted'
    <3>1. e \in Held /\ Held' = Held \ {e}
      BY <1>2, HeldUntil DEF e
    <3>2. Gone' = Gone
      BY <2>1 DEF Gone
    <3> QED
      BY <2>1, <2>8, <3>1, <3>2 DEF Accounted
  <2> QED
    BY <2>4, <2>6, <2>10, <2>11
<1> QED
  BY <1>1, <1>2 DEF Recording

(* flush: the batch is handed over, or is lost.                            *)
SendsOf(b, c) ==
  \/ Encodes(b) /\ handed' = handed \o b /\ UNCHANGED spoiled /\ Everywhere' = Everywhere
  \/ ~Encodes(b) /\ spoiled' = spoiled \cup {ToSet(b)} /\ UNCHANGED handed
     /\ Everywhere' = handed \o c

LEMMA SendKeeps ==
  ASSUME SinkInv, NEW b \in Seq(Logged), NEW c \in Seq(Logged),
         Everywhere = handed \o b \o c, SendsOf(b, c), UNCHANGED <<checks, event>>
  PROVE  /\ Recorded' /\ Accounted'
         /\ handed' \in Seq(Logged) /\ spoiled' \in SUBSET SUBSET Logged
<1> USE DEF SinkInv
<1>1. handed \in Seq(Logged) /\ spoiled \in SUBSET SUBSET Logged /\ Held' = Held
  BY DEF SinkType, Held
<1>2. /\ ToSet(Everywhere) = ToSet(handed) \cup ToSet(b) \cup ToSet(c)
      /\ IsInjective(handed \o c)
      /\ ToSet(b) \cap (ToSet(handed) \cup ToSet(c)) = {}
  BY <1>1, JoinedThree DEF Recorded
<1>3. /\ ToSet(handed \o c) = ToSet(handed) \cup ToSet(c)
      /\ ToSet(handed \o b) = ToSet(handed) \cup ToSet(b)
  BY <1>1, Joined
<1>4. ToSet(b) \subseteq Logged
  BY DEF ToSet
<1>5. CASE Encodes(b)
  <2>1. handed' = handed \o b /\ UNCHANGED spoiled /\ Everywhere' = Everywhere
    BY <1>5 DEF SendsOf
  <2>2. Encodes(handed')
    BY <1>3, <1>5, <2>1 DEF Encodes, Accounted
  <2>3. Recorded' /\ Accounted'
    BY <1>1, <2>1, <2>2 DEF Recorded, Accounted, Gone
  <2> QED
    BY <1>1, <2>1, <2>3
<1>6. CASE ~Encodes(b)
  <2>1. handed' = handed /\ spoiled' = spoiled \cup {ToSet(b)} /\ Everywhere' = handed \o c
    BY <1>6 DEF SendsOf
  <2>2. Gone' = Gone \cup ToSet(b)
    BY <2>1 DEF Gone
  <2>3. ToSet(Everywhere') = ToSet(Everywhere) \ ToSet(b) /\ ToSet(b) \subseteq ToSet(Everywhere)
    BY <1>2, <1>3, <2>1
  <2>4. Recorded'
    BY <1>2, <2>1, <2>3 DEF Recorded
  <2>5. Encodes(handed') /\ \A d \in spoiled' : d \cap Unencodable # {}
    BY <1>6, <2>1 DEF Encodes, Accounted
  <2>6. ToSet(b) \cap Held = {} /\ ToSet(b) \subseteq 1..checks
    BY <2>3 DEF Recorded, Held
  <2>7. Accounted'
    BY <1>1, <2>2, <2>3, <2>5, <2>6 DEF Accounted
  <2> QED
    BY <1>1, <1>4, <2>1, <2>4, <2>7
<1> QED
  BY <1>5, <1>6

(* What a flush by f does to its batch, b, of what is left, c.             *)
LEMMA SendsBatch ==
  ASSUME SinkInv, NEW f \in {"loop", "close"}, NEW c \in Seq(Logged), Send(f),
         Everywhere = handed \o batch[f] \o c, UNCHANGED buf,
         f = "loop" => c = batch["close"] \o buf,
         f = "close" => c = buf /\ batch["loop"] = <<>>
  PROVE  SendsOf(batch[f], c)
<1> USE DEF SinkInv
<1>1. /\ handed \in Seq(Logged) /\ buf \in Seq(Logged)
      /\ batch["loop"] \in Seq(Logged) /\ batch["close"] \in Seq(Logged)
  BY DEF SinkType
<1>2. batch' = [batch EXCEPT ![f] = <<>>]
  BY DEF Send
<1>3. \A a \in Seq(Logged) : a \o batch'["loop"] \o batch'["close"] \o buf' = a \o c
  <2>1. CASE f = "loop"
    <3>1. batch'["loop"] = <<>> /\ batch'["close"] = batch["close"] /\ c = batch["close"] \o buf
      BY <1>2, <2>1 DEF SinkType
    <3> DEFINE k == batch["close"]
    <3>2. /\ k \in Seq(Logged) /\ buf' = buf /\ c = k \o buf
          /\ batch'["loop"] = <<>> /\ batch'["close"] = k
      BY <1>1, <3>1
    <3> HIDE DEF k
    <3>3. \A a \in Seq(Logged) : a \o <<>> \o k \o buf = a \o (k \o buf)
      BY ONLY <1>1, <3>2
    <3> QED
      BY <3>2, <3>3
  <2>2. CASE f = "close"
    <3>1. batch'["loop"] = <<>> /\ batch'["close"] = <<>> /\ c = buf
      BY <1>2, <2>2 DEF SinkType
    <3>2. \A a, y \in Seq(Logged) : a \o <<>> \o <<>> \o y = a \o y
      OBVIOUS
    <3> QED
      BY <1>1, <3>1, <3>2
  <2> QED
    BY <2>1, <2>2
<1>4. handed \o batch[f] \in Seq(Logged)
  BY <1>1
<1>5. CASE Encodes(batch[f])
  <2>1. handed' = handed \o batch[f] /\ UNCHANGED spoiled
    BY <1>5 DEF Send
  <2>2. Everywhere' = (handed \o batch[f]) \o c
    BY <1>3, <1>4, <2>1 DEF Everywhere
  <2> QED
    BY <1>5, <2>1, <2>2 DEF SendsOf
<1>6. CASE ~Encodes(batch[f])
  <2>1. handed' = handed /\ spoiled' = spoiled \cup {ToSet(batch[f])}
    BY <1>6 DEF Send
  <2> QED
    BY <1>1, <1>3, <1>6, <2>1 DEF SendsOf, Everywhere
<1> QED
  BY <1>5, <1>6

(* What a flush has before it.                                             *)
LEMMA BeforeSend ==
  ASSUME SinkType, NEW l \in Seq(Logged), NEW k \in Seq(Logged),
         l = batch["loop"], k = batch["close"]
  PROVE  /\ k \o buf \in Seq(Logged)
         /\ Everywhere = handed \o l \o (k \o buf) /\ Unsent = l \o (k \o buf)
         /\ l = <<>> => Everywhere = handed \o k \o buf /\ Unsent = k \o buf
<1>1. handed \in Seq(Logged) /\ buf \in Seq(Logged)
  BY DEF SinkType
<1>2. Everywhere = handed \o l \o k \o buf /\ Unsent = l \o k \o buf
  BY DEF Everywhere, Unsent
<1>3. /\ k \o buf \in Seq(Logged) /\ handed \o l \in Seq(Logged)
      /\ l \o k \o buf = l \o (k \o buf)
  BY ONLY <1>1, l \in Seq(Logged), k \in Seq(Logged)
<1>4. handed \o l \o k \o buf = handed \o l \o (k \o buf)
  <2>1. \A a \in Seq(Logged) : a \o k \o buf = a \o (k \o buf)
    BY ONLY <1>1, k \in Seq(Logged)
  <2> QED
    BY ONLY <1>3, <2>1
<1>5. l = <<>> => handed \o l \o k \o buf = handed \o k \o buf /\ l \o k \o buf = k \o buf
  BY ONLY <1>1, k \in Seq(Logged)
<1> QED
  BY <1>2, <1>3, <1>4, <1>5

(* The steps of the two flushes and of Close.                              *)
LEMMA FlushKeeps ==
  ASSUME SinkInv, Flushing \/ BatcherEnds \/ CloseBegins \/ Closing PROVE SinkInv'
<1> USE DEF SinkInv
<1>1. /\ handed \in Seq(Logged) /\ buf \in Seq(Logged)
      /\ batch["loop"] \in Seq(Logged) /\ batch["close"] \in Seq(Logged)
  BY DEF SinkType
<1>2. CASE LoopDrains
  <2>1. /\ batcher = "wait" /\ batcher' = "send" /\ buf' = <<>>
        /\ batch' = [batch EXCEPT !["loop"] = buf]
        /\ UNCHANGED <<checks, event, telStop, closeOnce, handed, spoiled, late>>
    BY <1>2 DEF LoopDrains, Drain, Emptied
  <2>2. batch'["loop"] = buf /\ batch'["close"] = batch["close"]
    BY <2>1 DEF SinkType
  <2>3. batch["loop"] = <<>> /\ batch["close"] = <<>>
    BY <2>1 DEF SinkPhases
  <2>4. Everywhere' = Everywhere
    <3>1. handed \o buf \o <<>> \o <<>> = handed \o <<>> \o <<>> \o buf
      BY <1>1, EmptyBatches
    <3> QED
      BY <2>1, <2>2, <2>3, <3>1 DEF Everywhere
  <2>5. SinkType'
    BY <1>1, <2>1 DEF SinkType
  <2>6. SinkPhases'
    BY <2>1, <2>2 DEF SinkPhases
  <2> QED
    BY <2>1, <2>4, <2>5, <2>6, MovesKeepRecorded
<1>3. CASE LoopSends
  <2> DEFINE c == batch["close"] \o buf
  <2>1. /\ batcher = "send" /\ batcher' = "wait" /\ Send("loop")
        /\ batch' = [batch EXCEPT !["loop"] = <<>>]
        /\ UNCHANGED <<checks, event, buf, telStop, closeOnce, late>>
    BY <1>3 DEF LoopSends, Send
  <2>2. batch'["loop"] = <<>> /\ batch'["close"] = batch["close"]
    BY <2>1 DEF SinkType
  <2>3. c \in Seq(Logged) /\ Everywhere = handed \o batch["loop"] \o c
    BY <1>1, BeforeSend
  <2> HIDE DEF c
  <2>4. SendsOf(batch["loop"], c)
    BY <2>1, <2>3, SendsBatch DEF c
  <2>5. /\ Recorded' /\ Accounted'
        /\ handed' \in Seq(Logged) /\ spoiled' \in SUBSET SUBSET Logged
    BY <1>1, <2>1, <2>3, <2>4, SendKeeps
  <2>6. SinkType'
    BY <1>1, <2>1, <2>5 DEF SinkType
  <2>7. SinkPhases'
    BY <2>1, <2>2 DEF SinkPhases
  <2> QED
    BY <2>5, <2>6, <2>7
<1>4. CASE BatcherEnds
  BY <1>4, MovesKeepRecorded DEF BatcherEnds, SinkType, SinkPhases, Everywhere
<1>5. CASE CloseBegins
  <2>1. /\ closeOnce = "idle" /\ closeOnce' = "wait" /\ telStop' = telStop + 1
        /\ UNCHANGED <<checks, event, buf, batcher, batch, handed, spoiled, late>>
    BY <1>5 DEF CloseBegins
  <2>2. telStop = 0 /\ telStop' = 1
    BY <2>1 DEF SinkPhases
  <2> QED
    BY <2>1, <2>2, MovesKeepRecorded DEF SinkType, SinkPhases, Everywhere
<1>6. CASE CloseDrains
  <2>1. /\ closeOnce = "wait" /\ closeOnce' = "send" /\ batcher = "gone" /\ buf' = <<>>
        /\ batch' = [batch EXCEPT !["close"] = buf]
        /\ UNCHANGED <<checks, event, batcher, telStop, handed, spoiled, late>>
    BY <1>6 DEF CloseDrains, Drain, Emptied, LoopDone
  <2>2. batch'["close"] = buf /\ batch'["loop"] = batch["loop"]
    BY <2>1 DEF SinkType
  <2>3. batch["loop"] = <<>> /\ batch["close"] = <<>>
    BY <2>1 DEF SinkPhases
  <2>4. Everywhere' = Everywhere
    <3>1. handed \o <<>> \o buf \o <<>> = handed \o <<>> \o <<>> \o buf
      BY <1>1, EmptyBatches
    <3> QED
      BY <2>1, <2>2, <2>3, <3>1 DEF Everywhere
  <2>5. SinkType'
    BY <1>1, <2>1 DEF SinkType
  <2>6. SinkPhases'
    <3>1. ToSet(buf') = {}
      BY <2>1 DEF ToSet
    <3> QED
      BY <2>1, <2>2, <3>1 DEF SinkPhases
  <2> QED
    BY <2>1, <2>4, <2>5, <2>6, MovesKeepRecorded
<1>7. CASE CloseSends
  <2>1. /\ closeOnce = "send" /\ closeOnce' = "done" /\ Send("close")
        /\ batch' = [batch EXCEPT !["close"] = <<>>]
        /\ UNCHANGED <<checks, event, buf, batcher, telStop, late>>
    BY <1>7 DEF CloseSends, Send
  <2>2. batch'["close"] = <<>> /\ batch'["loop"] = batch["loop"] /\ batch["loop"] = <<>>
    BY <2>1 DEF SinkType, SinkPhases
  <2>3. Everywhere = handed \o batch["close"] \o buf
    BY <1>1, <2>2, BeforeSend
  <2>4. SendsOf(batch["close"], buf)
    BY <1>1, <2>1, <2>2, <2>3, SendsBatch
  <2>5. /\ Recorded' /\ Accounted'
        /\ handed' \in Seq(Logged) /\ spoiled' \in SUBSET SUBSET Logged
    BY <1>1, <2>1, <2>3, <2>4, SendKeeps
  <2>6. SinkType'
    BY <1>1, <2>1, <2>5 DEF SinkType
  <2>7. SinkPhases'
    BY <2>1, <2>2 DEF SinkPhases
  <2> QED
    BY <2>5, <2>6, <2>7
<1> QED
  BY <1>2, <1>3, <1>4, <1>5, <1>6, <1>7 DEF Flushing, Closing

(* The rest of the Guard leaves the sink alone, but for its Close.         *)
LEMMA SinkOfGuard ==
  ASSUME [GuardNext]_guardVars
  PROVE  \/ Flushing \/ BatcherEnds \/ CloseBegins \/ Closing \/ Recording
         \/ UNCHANGED batchVars
<1>1. CASE PollerStep \/ PollEnds \/ MediaExpires
  BY <1>1 DEF PollerStep, PollEnds, MediaExpires, PollAnswered, PollFails, ApplyMedia,
              ApplyMode, ModeHook, ApplySim, SimHook, Refresh, RefreshPosts, RefreshFolds,
              PollTicks, StepsFrom
<1>2. ASSUME NEW c \in Caller, ConnectDeclares(c) \/ CloseStarts(c) \/ CallStep(c)
      PROVE  CloseBegins \/ UNCHANGED batchVars
  BY <1>2 DEF ConnectDeclares, CloseStarts, CallStep, ConnectPosts, ConnectFolds,
              ConnectStarts, CloseTakes, CloseJoins, CloseStopsSim, CloseTelemetry,
              CloseReturns
<1> QED
  BY <1>1, <1>2 DEF GuardNext, SinkStep, guardVars

(* The sink keeps its books in every state.                                *)
THEOREM SinkSafe == GuardSpec => []SinkInv
<1>1. GuardInit => SinkInv
  BY SinkInitially DEF GuardInit
<1>2. SinkInv /\ [GuardNext]_guardVars => SinkInv'
  <2>1. SinkInv /\ UNCHANGED batchVars => SinkInv'
    BY DEF SinkInv, SinkType, SinkPhases, Recorded, Accounted, Gone, Held, Everywhere, batchVars
  <2> QED
    BY <2>1, SinkOfGuard, RecordKeeps, FlushKeeps
<1> QED
  BY <1>1, <1>2, PTL DEF GuardSpec

(* No event reaches the sender twice, and when Close returns each that was *)
(* buffered before it began has reached it, or was lost with a batch in    *)
(* which one did not encode (Batched.Close, Batched.flush).                *)
THEOREM EventsAreHandedOver == GuardSpec => []EventsHandedOver
<1>1. SinkInv => EventsHandedOver
  <2> SUFFICES ASSUME SinkInv PROVE EventsHandedOver
    OBVIOUS
  <2> USE DEF SinkInv
  <2>1. IsInjective(Everywhere) /\ Encodes(handed)
    BY DEF Recorded, Accounted
  <2>2. \A b \in spoiled : b \cap Unencodable # {} /\ b \cap ToSet(Everywhere) = {}
    BY DEF Accounted, Gone
  <2>3. ASSUME closeOnce = "done"
        PROVE  1..checks \subseteq ToSet(handed) \cup (UNION spoiled) \cup late \cup Held
    <3>1. batch["loop"] = <<>> /\ batch["close"] = <<>> /\ ToSet(buf) \subseteq late
      BY <2>3 DEF SinkPhases
    <3>2. handed \in Seq(Logged) /\ buf \in Seq(Logged)
      BY DEF SinkType
    <3>3. Everywhere = handed \o buf
      <4>1. handed \o <<>> \o <<>> \o buf = handed \o buf
        BY ONLY <3>2
      <4> QED
        BY <3>1, <4>1 DEF Everywhere
    <3>4. ToSet(Everywhere) = ToSet(handed) \cup ToSet(buf)
      BY <3>2, <3>3, Joined
    <3>5. 1..checks \subseteq ToSet(Everywhere) \cup Gone \cup Held
      BY DEF Accounted
    <3>6. 1..checks \subseteq ToSet(handed) \cup Gone \cup late \cup Held
      BY ONLY <3>1, <3>4, <3>5
    <3>7. Gone = UNION spoiled
      BY DEF Gone
    <3> QED
      BY ONLY <3>6, <3>7
  <2> QED
    BY <2>1, <2>2, <2>3 DEF EventsHandedOver, Everywhere
<1> QED
  BY <1>1, SinkSafe, PTL

-----------------------------------------------------------------------------
(***************************************************************************)
(* The sink implements EventDelivery.  That an event is with its recorder  *)
(* or in one place of Everywhere makes a batch that is sent new to the     *)
(* sender, and takes just its events from those that are pending.          *)
(***************************************************************************)
(* What is sent are the events after those sent before.                    *)
LEMMA SentLast ==
  ASSUME NEW a \in Seq(Logged), NEW b \in Seq(Logged)
  PROVE  SubSeq(a \o b, Len(a) + 1, Len(a \o b)) = b
<1> DEFINE u == a \o b
<1>1. /\ u \in Seq(Logged) /\ Len(u) = Len(a) + Len(b)
      /\ Len(a) \in Nat /\ Len(b) \in Nat
      /\ \A i \in 1..Len(b) : u[Len(a) + i] = b[i]
  OBVIOUS
<1> HIDE DEF u
<1> DEFINE v == SubSeq(u, Len(a) + 1, Len(u))
<1>2. v \in Seq(Logged) /\ Len(v) = Len(b) /\ \A i \in 1..Len(b) : v[i] = u[Len(a) + i]
  BY <1>1
<1> HIDE DEF v
<1>3. \A i \in 1..Len(b) : v[i] = b[i]
  BY <1>1, <1>2
<1>4. v = b
  BY <1>2, <1>3
<1> QED
  BY <1>4 DEF u, v

(* A batch is sent or lost: it was pending, and is no longer.              *)
LEMMA SentIsDelivered ==
  ASSUME SinkInv, NEW b \in Seq(Logged), NEW c \in Seq(Logged),
         Everywhere = handed \o b \o c, Unsent = b \o c, Unsent' = c,
         SendsOf(b, c), UNCHANGED <<checks, event>>
  PROVE  Sink!Deliver \/ Sink!Lose
<1>1. handed \in Seq(Logged) /\ IsInjective(handed \o b \o c) /\ Held' = Held
  BY DEF SinkInv, SinkType, Recorded, Held
<1>2. /\ IsInjective(b) /\ ToSet(b \o c) = ToSet(b) \cup ToSet(c)
      /\ ToSet(b) \cap ToSet(c) = {} /\ ToSet(b) \subseteq ToSet(Everywhere)
  BY <1>1, JoinedThree, Joined
<1>3. Held \cap ToSet(b) = {}
  BY <1>2 DEF Held, SinkInv, Recorded
<1>4. /\ ToSet(b) \subseteq Held \cup ToSet(Unsent)
      /\ Held' \cup ToSet(Unsent') = (Held \cup ToSet(Unsent)) \ ToSet(b)
  BY <1>1, <1>2, <1>3
<1>5. CASE Encodes(b)
  <2> DEFINE new == SubSeq(handed', Len(handed) + 1, Len(handed'))
  <2>1. handed' = handed \o b
    BY <1>5 DEF SendsOf
  <2>2. new = b
    BY <1>1, <2>1, SentLast
  <2> HIDE DEF new
  <2>3. /\ handed' = handed \o new /\ IsInjective(new)
        /\ ToSet(new) \subseteq Held \cup ToSet(Unsent)
        /\ Held' \cup ToSet(Unsent') = (Held \cup ToSet(Unsent)) \ ToSet(new)
        /\ checks' = checks
    BY <1>2, <1>4, <2>1, <2>2
  <2>4. Sink!Deliver
    BY <2>3 DEF Sink!Deliver, Sink!Turn, Sink!ToSet, Sink!IsInjective, ToSet, IsInjective,
                Unsent, new
  <2> QED
    BY <2>4
<1>6. CASE ~Encodes(b)
  <2> DEFINE before == Held \cup ToSet(Unsent)
             after == Held' \cup ToSet(Unsent')
  <2>1. handed' = handed /\ ToSet(b) \cap Unencodable # {}
    BY <1>6 DEF SendsOf, Encodes
  <2>2. after = before \ ToSet(b) /\ before \ after = ToSet(b)
    BY <1>4
  <2> HIDE DEF before, after
  <2>3. /\ (before \ after) \cap Unencodable # {} /\ after = before \ (before \ after)
        /\ handed' = handed /\ checks' = checks
    BY <2>1, <2>2
  <2>4. Sink!Lose
    BY <2>3 DEF Sink!Lose, Sink!Turn, Sink!ToSet, ToSet, Unsent, before, after
  <2> QED
    BY <2>4
<1> QED
  BY <1>5, <1>6

(* What is recorded is accepted, and is pending from then on.              *)
LEMMA RecordAccepts ==
  ASSUME SinkInv, Recording
  PROVE  Sink!Accept \/ UNCHANGED Sink!absVars
<1>1. ASSUME NEW r \in Logger, RecordCounts(r) PROVE Sink!Accept
  <2>1. /\ event[r] = NoEvent /\ checks' = checks + 1 /\ checks \in Nat
        /\ event' = [event EXCEPT ![r] = checks + 1]
        /\ UNCHANGED <<buf, batch, handed>>
    BY <1>1 DEF RecordCounts, SinkInv, SinkType
  <2>4. Held' = Held \cup {checks + 1}
    BY <1>1, HeldSince DEF SinkInv
  <2>5. Unsent' = Unsent
    BY <2>1 DEF Unsent
  <2> QED
    BY <2>1, <2>4, <2>5 DEF Sink!Accept, Held, Unsent
<1>2. ASSUME NEW r \in Logger, RecordBuffers(r) PROVE UNCHANGED Sink!absVars
  <2> DEFINE e == event[r]
  <2>1. /\ e # NoEvent /\ e \in Logged /\ buf' = Append(buf, e)
        /\ event' = [event EXCEPT ![r] = NoEvent] /\ UNCHANGED <<checks, batch, handed>>
    BY <1>2 DEF RecordBuffers, SinkInv, SinkType
  <2>4. e \in Held /\ Held' = Held \ {e}
    BY <1>2, HeldUntil DEF SinkInv
  <2> HIDE DEF e
  <2>5. Unsent' = Append(Unsent, e) /\ Unsent \in Seq(Logged)
    <3> DEFINE l == batch["loop"]
               k == batch["close"]
    <3>1. l \in Seq(Logged) /\ k \in Seq(Logged) /\ buf \in Seq(Logged)
      BY DEF SinkInv, SinkType
    <3>2. Unsent = l \o k \o buf /\ Unsent' = l \o k \o Append(buf, e)
      BY <2>1 DEF Unsent
    <3> HIDE DEF l, k
    <3>3. /\ l \o k \o Append(buf, e) = Append(l \o k \o buf, e)
          /\ l \o k \o buf \in Seq(Logged)
      BY ONLY <2>1, <3>1
    <3> QED
      BY <3>2, <3>3
  <2>6. ToSet(Unsent') = ToSet(Unsent) \cup {e}
    BY <2>1, <2>5, OneMoreEvent
  <2>7. Held' \cup ToSet(Unsent') = Held \cup ToSet(Unsent)
    BY <2>4, <2>6
  <2> QED
    BY <2>1, <2>7 DEF Sink!absVars, Held, Unsent
<1> QED
  BY <1>1, <1>2 DEF Recording

(* A flush delivers what it sends, or loses it; what it drains is pending. *)
LEMMA FlushDelivers ==
  ASSUME SinkInv, Flushing \/ BatcherEnds \/ CloseBegins \/ Closing
  PROVE  Sink!Deliver \/ Sink!Lose \/ UNCHANGED Sink!absVars
<1>1. /\ handed \in Seq(Logged) /\ buf \in Seq(Logged)
      /\ batch["loop"] \in Seq(Logged) /\ batch["close"] \in Seq(Logged)
  BY DEF SinkInv, SinkType
<1>2. \A c, d \in Seq(Logged) : <<>> \o c \o d = c \o d /\ c \o d \in Seq(Logged)
  OBVIOUS
<1>3. CASE LoopDrains \/ CloseDrains
  <2>1. UNCHANGED <<checks, event, handed>> /\ batch["loop"] = <<>> /\ batch["close"] = <<>>
    BY <1>3 DEF LoopDrains, CloseDrains, LoopDone, SinkInv, SinkPhases
  <2>2. /\ buf' = <<>>
        /\ \/ batch'["loop"] = buf /\ batch'["close"] = <<>>
           \/ batch'["loop"] = <<>> /\ batch'["close"] = buf
    BY <1>3, <2>1 DEF LoopDrains, CloseDrains, Drain, Emptied, SinkInv, SinkType
  <2>3. Unsent' = Unsent
    <3>1. /\ buf \o <<>> \o <<>> = buf /\ <<>> \o buf \o <<>> = buf
          /\ <<>> \o <<>> \o buf = buf
      BY <1>1
    <3>2. Unsent = buf
      BY <2>1, <3>1 DEF Unsent
    <3>3. Unsent' = buf
      BY <2>2, <3>1 DEF Unsent
    <3> QED
      BY <3>2, <3>3
  <2> QED
    BY <2>1, <2>3 DEF Sink!absVars, Unsent, Held
<1>4. CASE BatcherEnds \/ CloseBegins
  BY <1>4 DEF BatcherEnds, CloseBegins, Sink!absVars, Held
<1>5. CASE LoopSends
  <2> DEFINE c == batch["close"] \o buf
  <2>1. /\ Send("loop") /\ UNCHANGED <<checks, event, buf>>
        /\ batch'["loop"] = <<>> /\ batch'["close"] = batch["close"]
    BY <1>5 DEF LoopSends, Send, SinkInv, SinkType
  <2>2. /\ c \in Seq(Logged) /\ Everywhere = handed \o batch["loop"] \o c
        /\ Unsent = batch["loop"] \o c
    BY <1>1, BeforeSend DEF SinkInv
  <2>3. Unsent' = c
    BY <1>1, <1>2, <2>1 DEF Unsent
  <2> HIDE DEF c
  <2>4. SendsOf(batch["loop"], c)
    BY <2>1, <2>2, SendsBatch DEF c
  <2> QED
    BY <1>1, <2>1, <2>2, <2>3, <2>4, SentIsDelivered
<1>6. CASE CloseSends
  <2>1. /\ Send("close") /\ UNCHANGED <<checks, event, buf>>
        /\ batch["loop"] = <<>> /\ batch'["loop"] = <<>> /\ batch'["close"] = <<>>
    BY <1>6 DEF CloseSends, Send, SinkInv, SinkType, SinkPhases
  <2>2. /\ Everywhere = handed \o batch["close"] \o buf
        /\ Unsent = batch["close"] \o buf
    BY <1>1, <2>1, BeforeSend DEF SinkInv
  <2>3. Unsent' = buf
    <3>1. <<>> \o <<>> \o buf = buf
      BY <1>1
    <3> QED
      BY <2>1, <3>1 DEF Unsent
  <2>4. SendsOf(batch["close"], buf)
    BY <1>1, <2>1, <2>2, SendsBatch
  <2> QED
    BY <1>1, <2>1, <2>2, <2>3, <2>4, SentIsDelivered
<1> QED
  BY <1>3, <1>4, <1>5, <1>6 DEF Flushing, Closing

(* The sink delivers what is recorded, each event at most once, over any        *)
(* interleaving of recorders, ticks and Close; between the buffer and the  *)
(* sender it drops no event but with a batch in which one does not encode  *)
(* (Batched.Record, Batched.flush).                                        *)
THEOREM SinkKeepsPromise == GuardSpec => SinkDelivers
<1>1. GuardInit => Sink!AbsInit
  <2> SUFFICES ASSUME GuardInit PROVE Sink!AbsInit
    OBVIOUS
  <2>1. checks = 0 /\ handed = <<>> /\ Held = {} /\ Unsent = <<>>
    BY DEF GuardInit, BatchInit, Held, Unsent
  <2>2. ToSet(<<>>) = {}
    BY DEF ToSet
  <2> QED
    BY <2>1, <2>2 DEF Sink!AbsInit, Held, Unsent
<1>2. SinkInv /\ [GuardNext]_guardVars => [Sink!AbsNext]_(Sink!absVars)
  <2>1. UNCHANGED batchVars => UNCHANGED Sink!absVars
    BY DEF batchVars, Sink!absVars, Held
  <2> QED
    BY <2>1, SinkOfGuard, RecordAccepts, FlushDelivers DEF Sink!AbsNext
<1> QED
  BY <1>1, <1>2, SinkSafe, PTL DEF GuardSpec, SinkDelivers, Sink!AbsSpec

-----------------------------------------------------------------------------
(* Types: the poller has room for the answer it applies, and its channel   *)
(* is closed by the call that took it, and by no other.                    *)
CountInv ==
  /\ poller \in {"none", "ask", "media", "mode", "modeHook", "sim", "simHook",
                 "refresh", "post", "fold", "wait", "gone"}
  /\ mode \in Modes \cup {NoMode}
  /\ simHash \in Block \cup {NoBlock} /\ ctl \in Block \cup {NoBlock}
  /\ stops \in 0..1 /\ (stops > 0 => pollStop = "taken")
  /\ Len(answers) <= MaxPolls /\ (poller = "media" => Len(answers) < MaxPolls)

(* The replies there may be.                                               *)
LEMMA ReplyChoices ==
  ASSUME NEW a \in Reply
  PROVE  a.mode \in Modes \cup {NoMode} /\ a.sim \in Block \cup {NoBlock}
BY LifecycleAssumption DEF Reply, NoAnswer

(* Every step of the Guard.                                                *)
LEMMA NextCount ==
  LifeInv /\ MediaInv /\ CountInv /\ [GuardNext]_guardVars => CountInv'
<1> SUFFICES ASSUME LifeInv, MediaInv, CountInv, [GuardNext]_guardVars PROVE CountInv'
  OBVIOUS
<1>1. /\ held.mode \in Modes \cup {NoMode} /\ held.sim \in Block \cup {NoBlock}
      /\ Len(answers) \in Nat /\ MaxPolls \in Nat
      /\ \A a \in Reply : Len(Append(answers, a)) = Len(answers) + 1
  BY ReplyChoices, LifecycleAssumption DEF MediaInv
<1>2. CASE UNCHANGED guardVars \/ MediaExpires \/ SinkStep
  BY <1>2 DEF CountInv, guardVars, pollVars, MediaExpires, SinkStep
<1>3. CASE ApplyMedia
  <2>1. /\ poller = "media" /\ poller' = "mode" /\ answers' = Append(answers, held)
        /\ UNCHANGED <<mode, simHash, ctl, stops, pollStop>> /\ held \in Reply
    BY <1>3 DEF ApplyMedia, PollStep, MediaInv
  <2> QED
    BY <1>1, <2>1 DEF CountInv
<1>4. CASE (PollerStep \/ PollEnds) /\ ~ApplyMedia
  BY <1>1, <1>4 DEF CountInv, PollerStep, PollEnds, PollAnswered, PollFails, ApplyMode,
       ModeHook, ApplySim, SimHook, Refresh, RefreshPosts, RefreshFolds, PollTicks,
       StepsFrom, PollStep, Fold
<1>5. ASSUME NEW c \in Caller, ConnectDeclares(c) \/ CloseStarts(c) \/ CallStep(c)
      PROVE  CountInv'
  <2>1. CASE CloseTakes(c)
    BY <2>1 DEF CountInv, CloseTakes, Taken
  <2>2. CASE ConnectStarts(c)
    BY <2>2 DEF CountInv, ConnectStarts, StartsPoller
  <2>3. CASE ~CloseTakes(c) /\ ~ConnectStarts(c)
    BY <1>5, <2>3
       DEF CountInv, ConnectDeclares, CloseStarts, CallStep, ConnectPosts, ConnectFolds, Fold,
           CloseJoins, CloseStopsSim, CloseTelemetry, CloseReturns, pollVars
  <2> QED
    BY <2>1, <2>2, <2>3
<1> QED
  BY <1>2, <1>3, <1>4, <1>5 DEF GuardNext

(* Every variable of the Guard and of its sink keeps to its type.          *)
THEOREM LifecycleTypeCorrect == GuardSpec => []LifecycleTypeOK
<1>1. GuardInit => CountInv
  BY LifecycleAssumption DEF GuardInit, CountInv
<1>2. LifeInv /\ MediaInv /\ CountInv /\ SinkInv => LifecycleTypeOK
  <2> SUFFICES ASSUME LifeInv, MediaInv, CountInv, SinkInv PROVE LifecycleTypeOK
    OBVIOUS
  <2>1. BatchTypeOK
    <3>1. \A s \in Seq(Logged) : ToSet(s) \subseteq Logged
      BY DEF ToSet
    <3> QED
      BY <3>1 DEF SinkInv, SinkType, BatchTypeOK
  <2> QED
    BY <2>1 DEF LifeInv, Shape, MediaInv, Reply, CountInv, LifecycleTypeOK
<1> QED
  BY <1>1, <1>2, NextCount, LifeSafe, MediaSafe, SinkSafe, PTL DEF GuardSpec
=============================================================================
