---------------------------- MODULE AttackProofs ----------------------------
(***************************************************************************)
(* Proofs about AttackChains and the EventWire it announces over, for any  *)
(* chains, calls, goroutines, queue and backoff: the server gets what was  *)
(* queued in its order and at most once (WireFaithful), and what it is     *)
(* told of an attack is what was done (InjectionsTold).  The transport     *)
(* implements EventDelivery.                                               *)
(***************************************************************************)
EXTENDS AttackChains, SequenceTheorems, FunctionTheorems, FiniteSetTheorems,
        WellFoundedInduction, TLAPS

-----------------------------------------------------------------------------
(* What the data needs: a chain is made with FlattenSeq, and the one that  *)
(* fires is a Min.                                                         *)

(* A set of naturals that holds one holds a least one.                     *)
LEMMA LeastElement ==
  ASSUME NEW T, T \subseteq Nat, T # {}
  PROVE  \E x \in T : \A y \in T : x <= y
<1> DEFINE R == {p \in Nat \X Nat : p[1] < p[2]}
<1>1. IsWellFoundedOn(R, Nat)
  BY NatLessThanWellFounded DEF OpToRel
<1>2. PICK x \in T : \A y \in T : ~ (<<y, x>> \in R)
  <2> HIDE DEF R
  <2> QED BY <1>1, WFMin
<1>3. \A y \in T : ~ (y < x)
  BY <1>2
<1> QED BY <1>3

(* Induction, with the predicate given as the set of what satisfies it.    *)
LEMMA SetInduction ==
  ASSUME NEW T, 0 \in T, \A n \in Nat : n \in T => n + 1 \in T
  PROVE  Nat \subseteq T
<1> SUFFICES ASSUME Nat \ T # {} PROVE FALSE
  OBVIOUS
<1>1. PICK x \in Nat \ T : \A y \in Nat \ T : x <= y
  <2> DEFINE U == Nat \ T
  <2> U \subseteq Nat OBVIOUS
  <2> HIDE DEF U
  <2>1. U # {} BY DEF U
  <2>2. \E x \in U : \A y \in U : x <= y BY <2>1, LeastElement
  <2> QED BY <2>2 DEF U
<1>2. x # 0 OBVIOUS
<1>3. x - 1 \in Nat BY <1>2
<1>4. x - 1 \in T BY <1>3, <1>1
<1> QED BY <1>3, <1>4

(* FlattenSeq is the last entry of a function that f is up to n.           *)
FlattensTo(f, ss, n) ==
  \A i \in 1..n : f[i] = IF i = 1 THEN ss[i] ELSE f[i - 1] \o ss[i]

(* Such a function exists up to every place of a sequence of sequences,    *)
LEMMA FlattenExists ==
  ASSUME NEW S, NEW ss \in Seq(Seq(S))
  PROVE  \A n \in Nat : n <= Len(ss) => \E f \in [1..n -> Seq(S)] : FlattensTo(f, ss, n)
<1> DEFINE T == {n \in Nat : n <= Len(ss) => \E f \in [1..n -> Seq(S)] : FlattensTo(f, ss, n)}
<1>1. 0 \in T
  <2> DEFINE f == [i \in 1..0 |-> <<>>]
  <2>1. f \in [1..0 -> Seq(S)]
    OBVIOUS
  <2>2. FlattensTo(f, ss, 0)
    BY DEF FlattensTo
  <2> QED BY <2>1, <2>2
<1>2. ASSUME NEW n \in Nat, n \in T PROVE n + 1 \in T
  <2> SUFFICES ASSUME n + 1 <= Len(ss)
               PROVE  \E f \in [1..n + 1 -> Seq(S)] : FlattensTo(f, ss, n + 1)
    OBVIOUS
  <2>1. PICK f \in [1..n -> Seq(S)] : FlattensTo(f, ss, n)
    BY <1>2
  <2> DEFINE last == IF n = 0 THEN ss[n + 1] ELSE f[n] \o ss[n + 1]
             g == [i \in 1..n + 1 |-> IF i = n + 1 THEN last ELSE f[i]]
  <2>2. last \in Seq(S)
    <3>1. ss[n + 1] \in Seq(S)
      OBVIOUS
    <3> QED BY <3>1
  <2> HIDE DEF last
  <2>3. g \in [1..n + 1 -> Seq(S)]
    BY <2>2
  <2>4. ASSUME NEW i \in 1..n + 1
        PROVE  g[i] = IF i = 1 THEN ss[i] ELSE g[i - 1] \o ss[i]
    <3>1. CASE i = n + 1
      <4>1. g[i] = last /\ (n # 0 => g[n] = f[n]) /\ i - 1 = n
        BY <3>1
      <4> HIDE DEF g
      <4> QED BY <3>1, <4>1 DEF last
    <3>2. CASE i \in 1..n
      <4>1. g[i] = f[i]
        BY <3>2
      <4>2. i # 1 => i - 1 \in 1..n /\ g[i - 1] = f[i - 1]
        BY <3>2
      <4> HIDE DEF g
      <4> QED BY <3>2, <2>1, <4>1, <4>2 DEF FlattensTo
    <3> QED BY <3>1, <3>2
  <2> QED BY <2>3, <2>4 DEF FlattensTo
<1>3. Nat \subseteq T
  <2> HIDE DEF T
  <2> QED BY <1>1, <1>2, SetInduction
<1> QED BY <1>3

(* and FlattenSeq picks it.                                                *)
LEMMA FlattenIs ==
  ASSUME NEW S, NEW ss \in Seq(Seq(S)), ss # <<>>
  PROVE  \E f \in [1..Len(ss) -> Seq(S)] :
            FlattensTo(f, ss, Len(ss)) /\ FlattenSeq(ss) = f[Len(ss)]
<1> DEFINE Def(f) == f = [i \in 1..Len(ss) |-> IF i = 1 THEN ss[i] ELSE f[i - 1] \o ss[i]]
           g == CHOOSE f : Def(f)
<1>1. PICK f \in [1..Len(ss) -> Seq(S)] : FlattensTo(f, ss, Len(ss))
  BY FlattenExists
<1>2. Def(f)
  BY <1>1 DEF FlattensTo
<1>3. Def(g)
  BY <1>2
<1>4. FlattenSeq(ss) = g[Len(ss)]
  BY DEF FlattenSeq
<1>5. \A i \in 1..Len(ss) : g[i] = IF i = 1 THEN ss[i] ELSE g[i - 1] \o ss[i]
  <2> HIDE DEF g
  <2> QED BY <1>3
<1> HIDE DEF g
<1> DEFINE T == {n \in Nat : n \in 1..Len(ss) => g[n] = f[n]}
<1>6. 0 \in T
  OBVIOUS
<1>7. ASSUME NEW n \in Nat, n \in T PROVE n + 1 \in T
  <2> SUFFICES ASSUME n + 1 \in 1..Len(ss) PROVE g[n + 1] = f[n + 1]
    OBVIOUS
  <2>1. n # 0 => n \in 1..Len(ss) /\ g[n] = f[n]
    BY <1>7
  <2>2. f[n + 1] = IF n + 1 = 1 THEN ss[n + 1] ELSE f[n] \o ss[n + 1]
    <3>1. n + 1 \in 1..Len(ss) /\ (n + 1) - 1 = n
      OBVIOUS
    <3> QED BY <1>1, <3>1 DEF FlattensTo
  <2>3. g[n + 1] = IF n + 1 = 1 THEN ss[n + 1] ELSE g[n] \o ss[n + 1]
    BY <1>5
  <2> QED BY <2>1, <2>2, <2>3
<1>8. Nat \subseteq T
  <2> HIDE DEF T
  <2> QED BY <1>6, <1>7, SetInduction
<1>9. Len(ss) \in 1..Len(ss)
  OBVIOUS
<1> QED BY <1>1, <1>4, <1>8, <1>9

-----------------------------------------------------------------------------
(* Numbers in rising order, with one more at the end or one fewer inside.  *)
LEMMA AppendInOrder ==
  ASSUME NEW s \in Seq(Nat), NEW n \in Nat, InOrder(s), \A x \in ToSet(s) : x < n
  PROVE  InOrder(Append(s, n)) /\ ToSet(Append(s, n)) = ToSet(s) \cup {n}
<1> DEFINE t == Append(s, n)
<1>1. /\ DOMAIN t = 1..Len(s) + 1 /\ DOMAIN s = 1..Len(s)
      /\ t[Len(s) + 1] = n /\ \A i \in 1..Len(s) : t[i] = s[i]
  OBVIOUS
<1>2. \A i \in 1..Len(s) : s[i] \in ToSet(s)
  BY DEF ToSet
<1> HIDE DEF t
<1>3. ASSUME NEW i \in DOMAIN t, NEW j \in DOMAIN t, i < j PROVE t[i] < t[j]
  <2>1. i \in 1..Len(s) /\ t[i] = s[i]
    BY <1>1, <1>3
  <2>2. CASE j = Len(s) + 1
    BY <2>1, <2>2, <1>1, <1>2
  <2>3. CASE j \in 1..Len(s)
    BY <2>1, <2>3, <1>1, <1>3 DEF InOrder
  <2> QED BY <2>2, <2>3, <1>1
<1>4. ToSet(t) = ToSet(s) \cup {n}
  BY <1>1 DEF ToSet
<1> QED BY <1>3, <1>4 DEF InOrder, t

(* Where a position past the first of two parts stands in the second.      *)
LEMMA PastFirst ==
  ASSUME NEW m \in Nat, NEW n \in Nat, NEW i \in 1..m + n, ~(i <= m)
  PROVE  i - m \in 1..n /\ i = m + (i - m) /\ i + 1 = m + 1 + (i - m)
OBVIOUS

(* To step over a position is to keep the order of those on its sides.     *)
LEMMA StepOver ==
  ASSUME NEW m \in Nat, NEW n \in Nat, NEW i \in 1..n, NEW j \in 1..n, i < j
  PROVE  (IF i <= m THEN i ELSE i + 1) < (IF j <= m THEN j ELSE j + 1)
OBVIOUS

(* One number taken out leaves the others in order.                        *)
LEMMA DropInOrder ==
  ASSUME NEW a \in Seq(Nat), NEW b \in Seq(Nat), NEW f \in Nat
  PROVE  /\ InOrder(a \o <<f>> \o b) => InOrder(a \o b)
         /\ ToSet(a \o <<f>> \o b) = ToSet(a \o b) \cup {f}
         /\ Len(a \o <<f>> \o b) = Len(a \o b) + 1
<1> DEFINE s == a \o <<f>> \o b
           t == a \o b
<1>1. /\ s \in Seq(Nat) /\ t \in Seq(Nat) /\ Len(s) = Len(a) + 1 + Len(b)
      /\ Len(t) = Len(a) + Len(b)
      /\ DOMAIN s = 1..Len(a) + 1 + Len(b) /\ DOMAIN t = 1..Len(a) + Len(b)
      /\ Len(a) \in Nat /\ Len(b) \in Nat
  OBVIOUS
<1>2. \A i \in 1..Len(a) : s[i] = a[i] /\ t[i] = a[i]
  OBVIOUS
<1>3. s[Len(a) + 1] = f
  OBVIOUS
<1>4. \A i \in 1..Len(b) : s[Len(a) + 1 + i] = b[i] /\ t[Len(a) + i] = b[i]
  OBVIOUS
<1> DEFINE at(i) == IF i <= Len(a) THEN i ELSE i + 1
<1> HIDE DEF s, t
<1>5. \A i \in DOMAIN t : at(i) \in DOMAIN s /\ s[at(i)] = t[i]
  <2> TAKE i \in DOMAIN t
  <2>1. CASE i <= Len(a)
    BY <2>1, <1>1, <1>2
  <2>2. CASE ~(i <= Len(a))
    <3>0. at(i) = i + 1
      BY <2>2
    <3> HIDE DEF at
    <3>1. i - Len(a) \in 1..Len(b) /\ at(i) = Len(a) + 1 + (i - Len(a)) /\ i = Len(a) + (i - Len(a))
      <4>1. i \in 1..Len(a) + Len(b) /\ Len(a) \in Nat /\ Len(b) \in Nat
        BY <1>1
      <4>2. i - Len(a) \in 1..Len(b) /\ i = Len(a) + (i - Len(a)) /\ i + 1 = Len(a) + 1 + (i - Len(a))
        BY <2>2, <4>1, PastFirst
      <4> QED BY <3>0, <4>2
    <3>2. s[Len(a) + 1 + (i - Len(a))] = b[i - Len(a)] /\ t[Len(a) + (i - Len(a))] = b[i - Len(a)]
      BY <1>4, <3>1
    <3>3. s[at(i)] = t[i]
      BY <3>1, <3>2
    <3>4. at(i) \in DOMAIN s
      <4>1. i \in 1..Len(a) + Len(b) /\ Len(a) \in Nat /\ Len(b) \in Nat
        BY <1>1
      <4>2. i + 1 \in 1..Len(a) + 1 + Len(b)
        BY <4>1
      <4> QED BY <1>1, <3>0, <4>2
    <3> QED BY <3>3, <3>4
  <2> QED BY <2>1, <2>2
<1>6. ASSUME NEW i \in DOMAIN t, NEW j \in DOMAIN t, i < j PROVE at(i) < at(j)
  <2> HIDE DEF at
  <2>1. i \in 1..Len(t) /\ j \in 1..Len(t) /\ Len(t) \in Nat /\ Len(a) \in Nat
    BY <1>1, <1>6
  <2>2. (IF i <= Len(a) THEN i ELSE i + 1) < (IF j <= Len(a) THEN j ELSE j + 1)
    BY <1>6, <2>1, StepOver
  <2> QED BY <2>2 DEF at
<1>7. \A k \in DOMAIN s : k = Len(a) + 1 \/ \E i \in DOMAIN t : k = at(i)
  <2> TAKE k \in DOMAIN s
  <2>1. CASE k <= Len(a)
    BY <2>1, <1>1
  <2>2. CASE k > Len(a) + 1
    <3>1. k \in 1..Len(a) + 1 + Len(b) /\ Len(a) \in Nat /\ Len(b) \in Nat
      BY <1>1
    <3>2. k - 1 \in 1..Len(a) + Len(b) /\ ~(k - 1 <= Len(a)) /\ (k - 1) + 1 = k
      BY <2>2, <3>1
    <3>3. k - 1 \in DOMAIN t /\ k = at(k - 1)
      BY <1>1, <3>2
    <3> QED BY <3>3
  <2> QED BY <2>1, <2>2, <1>1
<1> HIDE DEF at
<1>8. InOrder(s) => InOrder(t)
  BY <1>5, <1>6 DEF InOrder
<1>9. ToSet(s) = ToSet(t) \cup {f}
  <2>1. Len(a) + 1 \in DOMAIN s
    BY <1>1
  <2> QED BY <1>3, <1>5, <1>7, <2>1 DEF ToSet
<1>10. Len(s) = Len(t) + 1
  BY <1>1
<1> QED BY <1>8, <1>9, <1>10 DEF s, t

-----------------------------------------------------------------------------
Frame == Nat \ {0}
All == onWire \o InHand \o queue

WireType ==
  /\ accepted \in Nat /\ queue \in Seq(Frame) /\ onWire \in Seq(Frame)
  /\ sender \in [at : {"dial", "sleep", "pump", "write", "gone"}, backoff : 1..MaxBackoff,
                 frame : Nat]
  /\ sender.frame # NoFrame <=> sender.at = "write"
  /\ halted \in BOOLEAN /\ sentCount \in Nat /\ failures \in Nat /\ unwritten \in SUBSET Frame

Losses == Len(onWire) <= sentCount + failures + (IF halted /\ sender.at = "gone" THEN 1 ELSE 0)

WireInv == WireType /\ WireFaithful /\ Losses

(* Nothing is queued, in hand or on the wire.                              *)
LEMMA WireInitially == WireInit => WireInv
<1> SUFFICES ASSUME WireInit PROVE WireInv
  OBVIOUS
<1>1. WireType
  <2>1. 1 \in 1..MaxBackoff
    BY WireAssumption
  <2>2. sender = [at |-> "dial", backoff |-> 1, frame |-> 0]
    BY DEF WireInit, Sender, NoFrame
  <2>3. /\ sender \in [at : {"dial", "sleep", "pump", "write", "gone"}, backoff : 1..MaxBackoff,
                       frame : Nat]
        /\ sender.frame # NoFrame <=> sender.at = "write"
    BY <2>1, <2>2 DEF NoFrame
  <2>4. accepted \in Nat /\ sentCount \in Nat /\ failures \in Nat /\ unwritten \in SUBSET Frame
    BY DEF WireInit
  <2>5. queue \in Seq(Frame) /\ onWire \in Seq(Frame)
    BY DEF WireInit
  <2>6. halted \in BOOLEAN
    BY DEF WireInit
  <2> QED BY <2>3, <2>4, <2>5, <2>6 DEF WireType
<1>4. Losses
  BY DEF WireInit, Losses
<1>2. InHand = <<>> /\ All = <<>>
  BY DEF WireInit, InHand, All, Sender, NoFrame
<1>3. WireFaithful
  BY <1>2, WireAssumption DEF WireInit, WireFaithful, InOrder, ToSet, All
<1> QED BY <1>1, <1>3, <1>4 DEF WireInv

(* The frames are numbers, wherever they are.                              *)
LEMMA AllNumbers ==
  ASSUME WireType
  PROVE  /\ InHand \in Seq(Nat) /\ All \in Seq(Nat) /\ onWire \in Seq(Nat) /\ queue \in Seq(Nat)
         /\ Len(All) = Len(onWire) + Len(InHand) + Len(queue)
<1>1. /\ onWire \in Seq(Nat) /\ queue \in Seq(Nat) /\ InHand \in Seq(Nat)
  BY SeqMonotonic DEF WireType, Frame, InHand
<1> QED BY <1>1 DEF All

(* trySend                                                                 *)
LEMMA EnqueueFaithful ==
  ASSUME WireInv, Enqueue, UNCHANGED <<sender, halted, onWire, sentCount, unwritten, failures>>
  PROVE  WireInv'
<1> DEFINE n == accepted + 1
<1>1. n \in Frame /\ n \in Nat /\ accepted' = n /\ queue' = Append(queue, n)
  BY DEF WireInv, WireType, Enqueue, Frame
<1>2. WireType' /\ Losses'
  BY <1>1 DEF WireInv, WireType, Losses
<1>3. All' = Append(All, n)
  <2>1. onWire \o InHand \in Seq(Nat) /\ queue \in Seq(Nat)
    BY AllNumbers DEF WireInv
  <2>2. ASSUME NEW a \in Seq(Nat), NEW q \in Seq(Nat), NEW k \in Nat
        PROVE  a \o Append(q, k) = Append(a \o q, k)
    OBVIOUS
  <2>3. InHand' = InHand /\ onWire' = onWire
    BY DEF InHand
  <2> QED BY <1>1, <2>1, <2>2, <2>3 DEF All
<1>4. All \in Seq(Nat) /\ InOrder(All) /\ ToSet(All) \cup unwritten = 1..accepted
  BY AllNumbers DEF WireInv, WireFaithful, All
<1>5. \A x \in ToSet(All) : x < n
  BY <1>4 DEF WireInv, WireType
<1>6. InOrder(All') /\ ToSet(All') = ToSet(All) \cup {n}
  <2> HIDE DEF n
  <2> QED BY <1>1, <1>3, <1>4, <1>5, AppendInOrder
<1>7. Len(All') = Len(All) + 1
  BY <1>1, <1>3, <1>4
<1>8. Len(queue') <= QueueSize
  BY <1>1, WireAssumption DEF Enqueue, Accepts, WireInv, WireType
<1>9. ToSet(All') \cup unwritten' = 1..accepted'
  BY <1>1, <1>4, <1>6 DEF WireInv, WireType
<1>10. ~halted' => Len(All') + failures' >= accepted'
  BY <1>1, <1>4, <1>7 DEF WireInv, WireType, WireFaithful, All
<1>11. sentCount' <= Len(onWire') /\ Len(onWire') <= sentCount' + failures' + (IF halted' THEN 1 ELSE 0)
  BY DEF WireInv, WireFaithful
<1> QED BY <1>2, <1>6, <1>8, <1>9, <1>10, <1>11 DEF WireInv, WireFaithful, All

(* A step that moves no frame.                                             *)
LEMMA NoFrameMoved ==
  ASSUME WireInv, WireType', UNCHANGED <<accepted, queue, onWire, sentCount, unwritten>>,
         sender.at # "write", sender'.at # "write",
         failures' \in {failures, failures + 1}, halted => halted',
         halted /\ sender.at = "gone" => sender'.at = "gone"
  PROVE  WireInv'
<1>1. InHand = <<>> /\ InHand' = <<>>
  BY DEF WireInv, WireType, InHand, NoFrame
<1>2. All' = All
  BY <1>1 DEF All
<1>3. Losses'
  BY DEF WireInv, WireType, Losses
<1>4. Len(onWire) \in Nat /\ Len(All) \in Nat /\ failures \in Nat /\ sentCount \in Nat
  BY AllNumbers DEF WireInv, WireType
<1> QED BY <1>2, <1>3, <1>4 DEF WireInv, WireType, WireFaithful, All

(* The backoff doubles up to its maximum.                                  *)
LEMMA NextBackoffBounded ==
  ASSUME NEW b \in 1..MaxBackoff PROVE NextBackoff(b) \in 1..MaxBackoff
BY WireAssumption DEF NextBackoff

(* A write: the frame in hand arrives, and is counted as sent or not.      *)
LEMMA WriteFaithful ==
  ASSUME WireInv, Writes
  PROVE  WireInv'
<1> DEFINE f == sender.frame
<1>1. f \in Frame /\ f \in Nat /\ InHand = <<f>> /\ sender.at = "write"
  BY DEF Writes, WireInv, WireType, InHand, NoFrame, Frame
<1>2. sender' \in [at : {"dial", "sleep", "pump", "write", "gone"}, backoff : 1..MaxBackoff,
                   frame : Nat]
      /\ sender'.frame = NoFrame /\ sender'.at # "write"
  BY DEF Writes, WireInv, WireType, Sender, NoFrame
<1>3. InHand' = <<>>
  BY <1>2 DEF InHand
<1>4. /\ onWire \in Seq(Nat) /\ queue \in Seq(Nat) /\ All \in Seq(Nat)
      /\ All = onWire \o <<f>> \o queue /\ accepted' = accepted /\ halted' = halted
      /\ queue' = queue /\ Len(onWire) \in Nat
  BY <1>1, AllNumbers DEF WireInv, All, Writes, QueueAfter
<1>5. /\ InOrder(All) /\ ToSet(All) \cup unwritten = 1..accepted
      /\ ~halted => Len(All) + failures >= accepted
      /\ Len(queue) <= QueueSize
      /\ sentCount <= Len(onWire) /\ Len(onWire) <= sentCount + failures
  BY <1>1 DEF WireInv, WireFaithful, All, Losses, WireType
<1>6. CASE onWire' = Append(onWire, f)
  <2>1. All' = All
    <3>1. ASSUME NEW a \in Seq(Nat), NEW b \in Seq(Nat), NEW x \in Nat
          PROVE  Append(a, x) \o <<>> \o b = a \o <<x>> \o b
      OBVIOUS
    <3> QED BY <1>1, <1>3, <1>4, <1>6, <3>1 DEF All
  <2>2. Len(onWire') = Len(onWire) + 1 /\ onWire' \in Seq(Frame)
    BY <1>1, <1>6 DEF WireInv, WireType
  <2>3. \/ sentCount' = sentCount + 1 /\ UNCHANGED <<unwritten, failures>>
        \/ /\ unwritten' = unwritten \cup {f} /\ UNCHANGED sentCount
           /\ IF halted THEN failures' = failures /\ sender'.at = "gone" ELSE failures' = failures + 1
    BY DEF Writes, Fails, Sender
  <2>4. ToSet(All) \cup unwritten \cup {f} = 1..accepted
    <3>1. f \in ToSet(All)
      BY <1>1, <1>4, DropInOrder
    <3> QED BY <1>5, <3>1
  <2>5. WireType'
    BY <1>1, <1>2, <1>4, <2>2, <2>3 DEF WireInv, WireType
  <2>6. Losses' /\ sentCount' <= Len(onWire')
        /\ Len(onWire') <= sentCount' + failures' + (IF halted' THEN 1 ELSE 0)
    <3>1. sentCount \in Nat /\ failures \in Nat /\ Len(onWire) \in Nat
      BY <1>4 DEF WireInv, WireType
    <3>2. CASE sentCount' = sentCount + 1 /\ UNCHANGED <<unwritten, failures>>
      BY <1>5, <2>2, <3>1, <3>2 DEF Losses
    <3>3. CASE UNCHANGED sentCount /\ halted
      BY <1>4, <1>5, <2>2, <2>3, <3>1, <3>3 DEF Losses
    <3>4. CASE UNCHANGED sentCount /\ ~halted /\ failures' = failures + 1
      BY <1>4, <1>5, <2>2, <3>1, <3>4 DEF Losses
    <3> QED BY <2>3, <3>2, <3>3, <3>4
  <2>7. ~halted' => Len(All') + failures' >= accepted'
    BY <1>4, <1>5, <2>1, <2>3 DEF WireInv, WireType
  <2> QED BY <1>4, <1>5, <2>1, <2>3, <2>4, <2>5, <2>6, <2>7 DEF WireInv, WireFaithful, All
<1>7. CASE onWire' = onWire
  <2>1. All' = onWire \o queue
    <3>1. ASSUME NEW a \in Seq(Nat), NEW b \in Seq(Nat) PROVE a \o <<>> \o b = a \o b
      OBVIOUS
    <3> QED BY <1>3, <1>4, <1>7, <3>1 DEF All
  <2>2. Append(onWire, f) # onWire
    BY <1>1, <1>4
  <2>3. /\ unwritten' = unwritten \cup {f} /\ UNCHANGED sentCount
        /\ IF halted THEN failures' = failures /\ sender'.at = "gone" ELSE failures' = failures + 1
    BY <1>7, <2>2 DEF Writes, Fails, Sender
  <2>4. InOrder(All') /\ ToSet(All) = ToSet(All') \cup {f} /\ Len(All) = Len(All') + 1
        /\ Len(All') \in Nat
    <3> HIDE DEF f
    <3> QED BY <1>1, <1>4, <1>5, <2>1, DropInOrder
  <2>5. WireType'
    BY <1>1, <1>2, <1>4, <1>7, <2>3 DEF WireInv, WireType
  <2>6. Losses' /\ sentCount' <= Len(onWire')
        /\ Len(onWire') <= sentCount' + failures' + (IF halted' THEN 1 ELSE 0)
    BY <1>4, <1>5, <1>7, <2>3 DEF WireInv, WireType, Losses
  <2>7. ~halted' => Len(All') + failures' >= accepted'
    BY <1>4, <1>5, <2>3, <2>4 DEF WireInv, WireType
  <2>8. ToSet(All') \cup unwritten' = 1..accepted'
    BY <1>4, <1>5, <2>3, <2>4
  <2> QED BY <1>4, <1>5, <2>4, <2>5, <2>6, <2>7, <2>8 DEF WireInv, WireFaithful, All
<1> QED BY <1>6, <1>7 DEF Writes

(* pump takes the front of the queue in hand.                              *)
LEMMA TakeFaithful ==
  ASSUME WireInv, PumpTakes
  PROVE  WireInv'
<1> DEFINE f == Head(queue)
<1>1. /\ f \in Frame /\ f \in Nat /\ queue' = Tail(queue) /\ queue' \in Seq(Frame)
      /\ Len(queue') <= Len(queue) /\ InHand = <<>>
  BY DEF PumpTakes, WireInv, WireType, Frame, InHand, NoFrame
<1>2. /\ sender' = [sender EXCEPT !.at = "write", !.frame = f]
      /\ UNCHANGED <<accepted, halted, onWire, sentCount, unwritten, failures>>
      /\ sender.at = "pump" /\ queue # <<>>
  BY DEF PumpTakes
<1>3. /\ sender' \in [at : {"dial", "sleep", "pump", "write", "gone"}, backoff : 1..MaxBackoff,
                      frame : Nat]
      /\ sender'.frame = f /\ sender'.at = "write"
  BY <1>1, <1>2 DEF WireInv, WireType
<1>4. InHand' = <<f>>
  BY <1>1, <1>3 DEF InHand, NoFrame, Frame
<1>5. All' = All
  <2>1. ASSUME NEW a \in Seq(Nat), NEW q \in Seq(Nat), q # <<>>
        PROVE  a \o <<Head(q)>> \o Tail(q) = a \o <<>> \o q
    <3>1. /\ Head(q) \in Nat /\ <<Head(q)>> \in Seq(Nat) /\ Tail(q) \in Seq(Nat)
          /\ <<Head(q)>> \o Tail(q) = q
      BY <2>1
    <3>2. (a \o <<Head(q)>>) \o Tail(q) = a \o (<<Head(q)>> \o Tail(q))
      BY <3>1, ConcatAssociative
    <3>3. a \o <<>> = a
      OBVIOUS
    <3> QED BY <3>1, <3>2, <3>3
  <2>2. onWire \in Seq(Nat) /\ queue \in Seq(Nat)
    BY AllNumbers DEF WireInv
  <2> QED BY <1>1, <1>2, <1>4, <2>1, <2>2 DEF All
<1>6. WireType'
  BY <1>1, <1>2, <1>3 DEF WireInv, WireType, Frame, NoFrame
<1>7. Losses'
  BY <1>2, <1>3 DEF WireInv, WireType, Losses
<1>8. Len(queue') <= QueueSize
  <2>1. Len(queue) <= QueueSize /\ Len(queue) \in Nat /\ Len(queue') \in Nat
    BY <1>6 DEF WireInv, WireType, WireFaithful
  <2> QED BY <1>1, <2>1, WireAssumption
<1>9. WireFaithful'
  BY <1>2, <1>5, <1>8 DEF WireInv, WireFaithful, All
<1> QED BY <1>6, <1>7, <1>9 DEF WireInv

(* run: every step of the sender is one of those.                          *)
LEMMA SenderFaithful ==
  ASSUME WireInv, Halts \/ SenderNext
  PROVE  WireInv'
<1> USE DEF WireInv, WireType, Sender, NoFrame
<1>1. CASE Halts
  <2>1. WireType' /\ All' = All /\ halted' = TRUE
    BY <1>1 DEF Halts, All, InHand
  <2>2. Losses'
    BY <1>1 DEF Halts, Losses, WireFaithful
  <2> QED BY <1>1, <2>1, <2>2 DEF Halts, WireFaithful, All
<1>2. CASE Dials
  <2>1. 1 \in 1..MaxBackoff
    BY WireAssumption
  <2>2. WireType' /\ sender.at = "dial" /\ sender'.at \in {"gone", "pump", "sleep"}
    BY <1>2, <2>1 DEF Dials, Fails
  <2>3. failures' \in {failures, failures + 1}
        /\ UNCHANGED <<accepted, queue, halted, onWire, sentCount, unwritten>>
    BY <1>2 DEF Dials, Fails
  <2> QED BY <2>2, <2>3, NoFrameMoved
<1>3. CASE Sleeps
  <2>1. NextBackoff(sender.backoff) \in 1..MaxBackoff
    BY NextBackoffBounded
  <2>2. WireType' /\ sender.at = "sleep" /\ sender'.at \in {"gone", "dial"}
    BY <1>3, <2>1 DEF Sleeps
  <2>3. UNCHANGED <<accepted, queue, halted, onWire, sentCount, unwritten, failures>>
    BY <1>3 DEF Sleeps
  <2> QED BY <2>2, <2>3, NoFrameMoved
<1>4. CASE PumpStops
  <2>1. WireType' /\ sender.at = "pump" /\ sender'.at = "gone"
    BY <1>4 DEF PumpStops
  <2>2. UNCHANGED <<accepted, queue, halted, onWire, sentCount, unwritten, failures>>
    BY <1>4 DEF PumpStops
  <2> QED BY <2>1, <2>2, NoFrameMoved
<1> QED BY <1>1, <1>2, <1>3, <1>4, WriteFaithful, TakeFaithful DEF SenderNext


-----------------------------------------------------------------------------
(* Chains are a sequence, whatever the block says.                         *)

(* Joining two sequences.                                                  *)
LEMMA ConcatIsSeq ==
  ASSUME NEW S, NEW T, NEW s \in Seq(S), NEW t \in Seq(T)
  PROVE  s \o t \in Seq(S \cup T)
<1>1. s \in Seq(S \cup T) /\ t \in Seq(S \cup T)
  BY SeqMonotonic
<1> QED BY <1>1

Names == {"*"} \cup {p.name : p \in ToSet(Profiled)}
Singles == {Single(s, t, n) : s \in {"config_inject", "tool_poison", "error_inject"},
                              t \in {"llm", "tool"}, n \in Names}

(* Repeated is as long as it is told.                                      *)
LEMMA RepeatedIsSeq ==
  ASSUME NEW S, NEW x \in S, NEW n \in Nat
  PROVE  Repeated(x, n) \in Seq(S) /\ Len(Repeated(x, n)) = n
BY DEF Repeated

(* Joining a sequence of sequences.                                        *)
LEMMA FlattenIsSeq ==
  ASSUME NEW S, NEW ss \in Seq(Seq(S))
  PROVE  FlattenSeq(ss) \in Seq(S)
<1>1. CASE ss = <<>>
  <2>1. FlattenSeq(ss) = <<>>
    BY <1>1 DEF FlattenSeq
  <2> QED BY <2>1
<1>2. CASE ss # <<>>
  <2>1. PICK f \in [1..Len(ss) -> Seq(S)] : FlattenSeq(ss) = f[Len(ss)]
    BY <1>2, FlattenIs
  <2>2. Len(ss) \in 1..Len(ss)
    BY <1>2
  <2> QED BY <2>1, <2>2
<1> QED BY <1>1, <1>2

(* defaultChains: what a profile alone brings about.                       *)
LEMMA DefaultIsSeq ==
  ASSUME NEW range \in Seq(Int)
  PROVE  DefaultChains(range) \in Seq(Singles)
<1> DEFINE n == Levels(range)
           PerTool(t) ==
             <<Single("tool_poison", "tool", t.name)>>
             \o (IF t.risky THEN <<Single("error_inject", "tool", t.name)>> ELSE <<>>)
           tools == [i \in DOMAIN Profiled |-> FlattenSeq(Repeated(PerTool(Profiled[i]), n))]
<1>1. n \in Nat
  <2>1. Len(range) \in Nat /\ (Len(range) >= 2 => range[1] \in Int /\ range[2] \in Int)
    OBVIOUS
  <2> QED BY <2>1 DEF Levels
<1>2. /\ DOMAIN Profiled = 1..Len(Profiled) /\ Len(Profiled) \in Nat
      /\ \A i \in DOMAIN Profiled : Profiled[i].name \in Names
  <2>1. \A i \in DOMAIN Profiled : Profiled[i] \in ToSet(Profiled)
    BY DEF ToSet
  <2> QED BY <2>1, AttackAssumption DEF Names
<1>3. ASSUME NEW t, t.name \in Names PROVE PerTool(t) \in Seq(Singles)
  <2>1. Single("tool_poison", "tool", t.name) \in Singles /\ Single("error_inject", "tool", t.name) \in Singles
    BY <1>3 DEF Singles
  <2> QED BY <2>1
<1>4. tools \in Seq(Seq(Singles))
  <2>1. ASSUME NEW i \in DOMAIN Profiled
        PROVE  FlattenSeq(Repeated(PerTool(Profiled[i]), n)) \in Seq(Singles)
    <3>1. PerTool(Profiled[i]) \in Seq(Singles)
      <4> HIDE DEF PerTool
      <4> QED BY <1>2, <1>3
    <3> HIDE DEF PerTool, n
    <3>2. Repeated(PerTool(Profiled[i]), n) \in Seq(Seq(Singles))
      BY <1>1, <3>1, RepeatedIsSeq
    <3> QED BY <3>2, FlattenIsSeq
  <2> HIDE DEF PerTool, n
  <2> QED BY <1>2, <2>1
<1>5. FlattenSeq(tools) \in Seq(Singles)
  <2> HIDE DEF tools
  <2> QED BY <1>4, FlattenIsSeq
<1>6. Repeated(Single("config_inject", "llm", "*"), n) \in Seq(Singles)
  <2>1. Single("config_inject", "llm", "*") \in Singles
    BY DEF Singles, Names
  <2> HIDE DEF n
  <2> QED BY <1>1, <2>1, RepeatedIsSeq
<1>7. DefaultChains(range) = Repeated(Single("config_inject", "llm", "*"), n) \o FlattenSeq(tools)
  BY DEF DefaultChains
<1> HIDE DEF n, tools
<1> QED BY <1>5, <1>6, <1>7

(* buildAttack: the chains of any block.                                   *)
LEMMA BuildIsSeq ==
  ASSUME NEW block \in Attack
  PROVE  DOMAIN BuildChains(block) \subseteq Nat
<1> DEFINE Given == {Steps(c) : c \in ToSet(block.chains)}
           Evolved == {<<Step(d)>> : d \in ToSet(block.evolved)}
           first == IF block.chains # <<>> THEN [i \in DOMAIN block.chains |-> Steps(block.chains[i])]
                    ELSE DefaultChains(block.range)
           rest == [i \in DOMAIN block.evolved |-> <<Step(block.evolved[i])>>]
<1>1. /\ block.range \in Seq(Int) /\ block.chains \in Seq(ToSet(block.chains))
      /\ block.evolved \in Seq(ToSet(block.evolved))
  BY AttackAssumption
<1>2. [i \in DOMAIN block.chains |-> Steps(block.chains[i])] \in Seq(Given)
  <2>1. \A i \in DOMAIN block.chains : Steps(block.chains[i]) \in Given
    BY DEF ToSet
  <2>2. DOMAIN block.chains = 1..Len(block.chains) /\ Len(block.chains) \in Nat
    BY <1>1
  <2> HIDE DEF Given
  <2> QED BY <2>1, <2>2
<1>3. rest \in Seq(Evolved)
  <2>1. \A i \in DOMAIN block.evolved : <<Step(block.evolved[i])>> \in Evolved
    BY DEF ToSet
  <2>2. DOMAIN block.evolved = 1..Len(block.evolved) /\ Len(block.evolved) \in Nat
    BY <1>1
  <2> HIDE DEF Evolved
  <2> QED BY <2>1, <2>2
<1>4. first \in Seq(Given \cup Singles)
  <2>1. DefaultChains(block.range) \in Seq(Singles)
    BY <1>1, DefaultIsSeq
  <2> HIDE DEF Given
  <2> QED BY <1>2, <2>1, SeqMonotonic
<1>5. BuildChains(block) = first \o rest
  BY DEF BuildChains
<1>6. first \o rest \in Seq(Given \cup Singles \cup Evolved)
  <2> HIDE DEF first, rest, Given, Evolved
  <2> QED BY <1>3, <1>4, ConcatIsSeq
<1> HIDE DEF first, rest, Given, Evolved
<1> QED BY <1>5, <1>6

-----------------------------------------------------------------------------
(* Of the chains that are asked, at most one fires.                        *)
(* Min is the least, by LeastElement.                                      *)
LEMMA MinIsLeast ==
  ASSUME NEW S, S \subseteq Nat, S # {}
  PROVE  Min(S) \in S /\ \A x \in S : Min(S) <= x
<1>1. \E x \in S : \A y \in S : x <= y
  BY LeastElement
<1> QED BY <1>1 DEF Min

(* nextFor: the chain that fires is the first asked that has a step.       *)
LEMMA OneFires ==
  ASSUME DOMAIN chains \subseteq Nat, NEW target,
         NEW c \in Asked(target), NEW d \in Asked(target),
         Suits(Current(c), target), Suits(Current(d), target)
  PROVE  c = d
<1> DEFINE fits == {x \in Offers(target) : Suits(Current(x), target)}
<1>1. Offers(target) \subseteq Nat
  BY DEF Offers
<1>2. c \in fits /\ d \in fits /\ fits \subseteq Nat
  BY <1>1 DEF Asked
<1>3. c <= Min(fits) /\ d <= Min(fits)
  BY <1>2 DEF Asked
<1> HIDE DEF fits
<1>4. Min(fits) \in fits /\ Min(fits) <= c /\ Min(fits) <= d
  BY <1>2, MinIsLeast
<1>5. c \in Nat /\ d \in Nat /\ Min(fits) \in Nat
  BY <1>2, <1>4
<1> QED BY <1>3, <1>4, <1>5

(* The inductive invariant.  What was passed of a chain is what lies       *)
(* before its index; a number is never given twice, for that of the last   *)
(* injection exceeds all others.                                           *)
Injected == [chain : DOMAIN chains, step : Nat \ {0}, target : Target, changed : BOOLEAN]

AttackType ==
  /\ DOMAIN chains \subseteq Nat
  /\ index \in [DOMAIN chains -> Nat \ {0}]
  /\ fired \in Seq(Injected)
  /\ used \subseteq (DOMAIN chains) \X (Nat \ {0})
  /\ hand \in [Hand -> Nat] /\ announcedAs \in Seq(Nat) /\ Len(announcedAs) = accepted
  /\ budget \in Nat /\ hits \in 0..MaxHits /\ loads \in Nat

WithinBudget == Len(fired) = count /\ count <= budget /\ Len(fired) <= hits

FiredAt(c, p) == \E i \in DOMAIN fired : fired[i].chain = c /\ fired[i].step = p
Accounted ==
  \A c \in DOMAIN chains, p \in Nat \ {0} : p < index[c] <=> <<c, p>> \in used \/ FiredAt(c, p)

StepOf(e) == chains[e.chain][e.step]
Fits(e) ==
  /\ Matches(StepOf(e), e.target)
  /\ (StepOf(e).strategy = "config_inject") <=> (e.target.type = "llm")
  /\ e.changed \/ StepOf(e).payload # "default"

OnTarget == \A i \in DOMAIN fired : Fits(fired[i])
Advancing ==
  \A i \in DOMAIN fired : \A j \in 1..(i - 1) :
    fired[j].chain = fired[i].chain => fired[j].step < fired[i].step

SuitsNoCall(s) ==
  /\ s.type = "llm" => s.strategy # "config_inject" \/ Payload(s) # "text"
  /\ s.type = "tool" => s.strategy \notin {"tool_poison", "error_inject"}
Unsuited == \A u \in used : SuitsNoCall(chains[u[1]][u[2]])

Newest == loads * (MaxHits + 1) + Len(fired)
Numbered ==
  /\ \A h \in Hand : hand[h] <= Newest
  /\ \A n \in 1..Len(announcedAs) : announcedAs[n] <= Newest /\ announcedAs[n] # 0
  /\ \A m, n \in 1..Len(announcedAs) : announcedAs[m] = announcedAs[n] => m = n
  /\ \A g, h \in Hand : hand[g] = hand[h] /\ hand[g] # 0 => g = h
  /\ \A h \in Hand, n \in 1..Len(announcedAs) : hand[h] # announcedAs[n]

ChainInv ==
  /\ AttackType /\ WithinBudget /\ Accounted /\ OnTarget /\ Advancing /\ Unsuited /\ Numbered

AttackInv == ChainInv /\ WireInv

(* A fresh injector has done nothing.                                      *)
LEMMA AttackInitially == AttackInit => AttackInv
<1> SUFFICES ASSUME AttackInit PROVE AttackInv
  OBVIOUS
<1> USE DEF AttackInit
<1>1. /\ chains = <<>> /\ index = <<>> /\ fired = <<>> /\ used = {} /\ announcedAs = <<>>
      /\ accepted = 0 /\ DOMAIN chains = {} /\ Len(announcedAs) = 0 /\ Len(fired) = 0
      /\ DOMAIN fired = {}
  BY DEF WireInit
<1>2. AttackType
  <2>1. index \in [DOMAIN chains -> Nat \ {0}]
    BY <1>1
  <2> QED BY <1>1, <2>1, AttackAssumption DEF AttackType, NoFrame
<1>3. WithinBudget /\ Accounted /\ OnTarget /\ Advancing /\ Unsuited
  BY <1>1, AttackAssumption DEF WithinBudget, Accounted, OnTarget, Advancing, Unsuited
<1>4. Numbered
  BY <1>1, AttackAssumption DEF Numbered, Newest, NoFrame
<1> QED BY <1>2, <1>3, <1>4, WireInitially DEF AttackInv, ChainInv

(* A step of the sender leaves the chains alone.                           *)
LEMMA SenderKeepsChains ==
  ASSUME ChainInv, UNCHANGED <<mode, budget, count, chains, index, fired, used, hand,
                               announcedAs, hits, loads, accepted>>
  PROVE  ChainInv'
BY DEF ChainInv, AttackType, Injected, WithinBudget, Accounted, FiredAt, OnTarget, Fits,
       StepOf, Advancing, Unsuited, Numbered, Newest

(* and the count of what was queued.                                       *)
LEMMA SenderKeepsAccepted ==
  ASSUME Halts \/ SenderNext PROVE accepted' = accepted
BY DEF Halts, SenderNext, Dials, Sleeps, PumpStops, PumpTakes, Writes

(* configure starts afresh; the numbers go on.                             *)
LEMMA ReloadSafe ==
  ASSUME AttackInv, Reloads PROVE AttackInv'
<1>1. PICK block \in Attack : Loads(block)
  BY DEF Reloads
<1>2. /\ DOMAIN chains' \subseteq Nat /\ index' = [c \in DOMAIN chains' |-> 1]
      /\ fired' = <<>> /\ used' = {} /\ hits' = 0 /\ count' = 0
      /\ budget' = IF block.max <= 0 THEN DefaultMax ELSE block.max
      /\ loads' = loads + 1 /\ UNCHANGED <<hand, announcedAs, wireVars>>
  BY <1>1, BuildIsSeq DEF Loads, Reloads
<1>3. budget' \in Nat
  BY <1>2, AttackAssumption
<1>4. AttackType'
  <2>1. index' \in [DOMAIN chains' -> Nat \ {0}] /\ fired' \in Seq(Injected')
    BY <1>2
  <2> QED BY <1>2, <1>3, <2>1, AttackAssumption DEF AttackInv, ChainInv, AttackType, wireVars
<1>5. WithinBudget' /\ OnTarget' /\ Advancing' /\ Unsuited'
  BY <1>2, <1>3 DEF WithinBudget, OnTarget, Advancing, Unsuited
<1>6. Accounted'
  <2> SUFFICES ASSUME NEW c \in DOMAIN chains', NEW p \in Nat \ {0}
               PROVE  p < index'[c] <=> <<c, p>> \in used' \/ FiredAt(c, p)'
    BY DEF Accounted
  <2>1. index'[c] = 1 /\ <<c, p>> \notin used'
    BY <1>2
  <2>2. ~FiredAt(c, p)'
    <3>1. DOMAIN fired' = {}
      BY <1>2
    <3> QED BY <3>1 DEF FiredAt
  <2> QED BY <2>1, <2>2
<1>7. Newest <= Newest' /\ Newest \in Nat /\ Newest' \in Nat
  <2> DEFINE k == MaxHits + 1
  <2>1. (loads + 1) * k = loads * k + k /\ loads * k \in Nat
    BY AttackAssumption DEF AttackInv, ChainInv, AttackType
  <2>2. Len(fired) \in Nat /\ Len(fired) <= MaxHits /\ Len(fired') = 0
    BY <1>2, AttackAssumption DEF AttackInv, ChainInv, AttackType, WithinBudget
  <2>3. Newest = loads * k + Len(fired) /\ Newest' = (loads + 1) * k + Len(fired')
    BY <1>2 DEF Newest
  <2>4. MaxHits \in Nat
    BY AttackAssumption
  <2> HIDE DEF k
  <2>5. k = MaxHits + 1
    BY DEF k
  <2> QED BY <2>1, <2>2, <2>3, <2>4, <2>5
<1>8. Numbered'
  BY <1>2, <1>7 DEF AttackInv, ChainInv, AttackType, Numbered
<1>9. WireInv'
  BY <1>2 DEF AttackInv, WireInv, WireType, WireFaithful, Losses, wireVars, InHand
<1> QED BY <1>4, <1>5, <1>6, <1>8, <1>9 DEF AttackInv, ChainInv

(* The number of the newest injection.                                     *)
LEMMA NewestIsNat == AttackType => Newest \in Nat
<1>1. \A a, b, c \in Nat : a * b + c \in Nat
  OBVIOUS
<1>2. MaxHits + 1 \in Nat
  BY AttackAssumption
<1>3. AttackType => loads \in Nat /\ Len(fired) \in Nat
  BY DEF AttackType
<1> QED BY <1>1, <1>2, <1>3 DEF Newest

(* A step that leaves the wire alone.                                      *)
LEMMA WireStutters == WireInv /\ UNCHANGED wireVars => WireInv'
BY DEF WireInv, WireType, WireFaithful, Losses, wireVars, InHand

(* emitInjection: the number in hand becomes that of a frame, or is lost.  *)
LEMMA AnnounceSafe ==
  ASSUME AttackInv, NEW h \in Hand, Announces(h) PROVE AttackInv'
<1> DEFINE n == hand[h]
<1>1. /\ n \in Nat \ {0} /\ hand' = [hand EXCEPT ![h] = 0]
      /\ UNCHANGED <<mode, budget, count, chains, index, fired, used, hits, loads, sender, halted,
                     onWire, sentCount, unwritten, failures>>
  BY DEF Announces, AttackInv, ChainInv, AttackType, NoFrame
<1>2. CASE Enqueue /\ announcedAs' = Append(announcedAs, n)
  <2>1. WireInv'
    BY <1>1, <1>2, EnqueueFaithful DEF AttackInv
  <2>2. /\ Len(announcedAs') = Len(announcedAs) + 1 /\ Len(announcedAs) \in Nat
        /\ announcedAs' \in Seq(Nat)
        /\ \A i \in 1..Len(announcedAs) : announcedAs'[i] = announcedAs[i]
        /\ announcedAs'[Len(announcedAs) + 1] = n
    BY <1>1, <1>2 DEF AttackInv, ChainInv, AttackType
  <2>3. AttackType'
    BY <1>1, <1>2, <2>2 DEF AttackInv, ChainInv, AttackType, Enqueue, Injected
  <2>4. Numbered'
    <3>1. \A g \in Hand : hand'[g] = (IF g = h THEN 0 ELSE hand[g])
      BY <1>1 DEF AttackInv, ChainInv, AttackType
    <3>2. Newest' = Newest /\ n <= Newest
      BY <1>1 DEF Newest, AttackInv, ChainInv, Numbered
    <3>3. Newest \in Nat
      BY NewestIsNat DEF AttackInv, ChainInv
    <3>4. \A i \in 1..Len(announcedAs) : announcedAs[i] # n /\ announcedAs[i] \in Nat
      BY DEF AttackInv, ChainInv, AttackType, Numbered
    <3>5. \A i \in 1..Len(announcedAs') : \/ i \in 1..Len(announcedAs)
                                          \/ i = Len(announcedAs) + 1
      BY <2>2
    <3>6. \A g \in Hand \ {h} : hand[g] # n
      BY <1>1 DEF AttackInv, ChainInv, Numbered
    <3> HIDE DEF n
    <3>7. /\ \A g \in Hand : hand'[g] <= Newest'
          /\ \A f, g \in Hand : hand'[f] = hand'[g] /\ hand'[f] # 0 => f = g
      BY <3>1, <3>2, <3>3 DEF AttackInv, ChainInv, Numbered
    <3>8. \A i \in 1..Len(announcedAs') : announcedAs'[i] <= Newest' /\ announcedAs'[i] # 0
      BY <1>1, <2>2, <3>2, <3>5 DEF AttackInv, ChainInv, Numbered
    <3>9. \A i, j \in 1..Len(announcedAs') : announcedAs'[i] = announcedAs'[j] => i = j
      BY <2>2, <3>4, <3>5 DEF AttackInv, ChainInv, Numbered
    <3>10. \A g \in Hand, i \in 1..Len(announcedAs') : hand'[g] # announcedAs'[i]
      BY <1>1, <2>2, <3>1, <3>5, <3>6, <3>8 DEF AttackInv, ChainInv, Numbered
    <3> QED BY <3>7, <3>8, <3>9, <3>10 DEF Numbered
  <2>5. WithinBudget' /\ Accounted' /\ OnTarget' /\ Advancing' /\ Unsuited'
    BY <1>1 DEF AttackInv, ChainInv, WithinBudget, Accounted, FiredAt, OnTarget, Fits, StepOf,
                Advancing, Unsuited
  <2> QED BY <2>1, <2>3, <2>4, <2>5 DEF AttackInv, ChainInv
<1>3. CASE Drops /\ UNCHANGED announcedAs
  <2>1. UNCHANGED wireVars
    BY <1>1, <1>3 DEF Drops, wireVars
  <2>2. AttackType'
    BY <1>1, <1>3 DEF AttackInv, ChainInv, AttackType, Drops, Injected
  <2>3. Numbered'
    <3>1. \A g \in Hand : hand'[g] = (IF g = h THEN 0 ELSE hand[g])
      BY <1>1 DEF AttackInv, ChainInv, AttackType
    <3>2. Newest' = Newest /\ Newest \in Nat
      <4>1. Newest' = Newest
        BY <1>1 DEF Newest
      <4> QED BY <4>1, NewestIsNat DEF AttackInv, ChainInv
    <3> HIDE DEF n
    <3> QED BY <1>3, <3>1, <3>2 DEF AttackInv, ChainInv, Numbered
  <2>4. WithinBudget' /\ Accounted' /\ OnTarget' /\ Advancing' /\ Unsuited'
    BY <1>1 DEF AttackInv, ChainInv, WithinBudget, Accounted, FiredAt, OnTarget, Fits, StepOf,
                Advancing, Unsuited
  <2> QED BY <2>1, <2>2, <2>3, <2>4, WireStutters DEF AttackInv, ChainInv
<1> QED BY <1>2, <1>3 DEF Announces

(* injectForLLM, injectForTool                                             *)
LEMMA HitSafe ==
  ASSUME AttackInv, NEW h \in Hand, NEW target \in Target, Hits(h, target) PROVE AttackInv'
<1> USE DEF AttackInv, ChainInv
<1>1. /\ hand[h] = 0 /\ hits' = hits + 1 /\ hits < MaxHits
      /\ UNCHANGED <<mode, budget, chains, announcedAs, loads, wireVars>>
  BY DEF Hits, NoFrame
<1>2. WireInv' /\ accepted' = accepted
  BY <1>1, WireStutters DEF wireVars
<1>3. hits' \in 0..MaxHits
  BY <1>1, AttackAssumption DEF AttackType
<1>4. CASE UNCHANGED <<count, index, fired, used, hand>>
  <2>1. AttackType'
    BY <1>1, <1>2, <1>3, <1>4 DEF AttackType, Injected
  <2>2. WithinBudget'
    BY <1>1, <1>4 DEF WithinBudget, AttackType
  <2>3. Accounted' /\ OnTarget' /\ Advancing' /\ Unsuited' /\ Numbered'
    BY <1>1, <1>4 DEF Accounted, FiredAt, OnTarget, Fits, StepOf, Advancing, Unsuited,
                      Numbered, Newest
  <2> QED BY <1>2, <2>1, <2>2, <2>3
<1>5. CASE ~(mode # "attack" \/ count >= budget)
  <2> DEFINE asked == Asked(target)
             fires == {c \in asked : Suits(Current(c), target)}
  <2>1. /\ index' = [c \in DOMAIN index |-> IF c \in asked THEN Advance(c) ELSE index[c]]
        /\ used' = used \cup {<<c, index[c]>> : c \in asked \ fires}
        /\ IF fires = {} THEN UNCHANGED <<count, fired, hand>>
           ELSE LET c == CHOOSE f \in fires : TRUE
                IN  /\ count' = count + 1
                    /\ fired' = Append(fired, [chain |-> c, step |-> index[c],
                                  target |-> target, changed |-> Changes(Current(c))])
                    /\ hand' = [hand EXCEPT ![h] = loads * (MaxHits + 1) + Len(fired')]
    BY <1>5 DEF Hits
  <2>2. /\ asked \subseteq DOMAIN chains
        /\ \A c \in asked : Matches(Current(c), target)
    BY DEF Asked, Offers, Current
  <2>3. \A c, d \in fires : c = d
    BY OneFires DEF AttackType
  <2> HIDE DEF asked
  <2>4. /\ index' \in [DOMAIN chains' -> Nat \ {0}]
        /\ \A c \in DOMAIN chains : index'[c] = IF c \in asked THEN index[c] + 1 ELSE index[c]
        /\ used' \subseteq (DOMAIN chains') \X (Nat \ {0})
    <3>1. index \in [DOMAIN chains -> Nat \ {0}]
      BY DEF AttackType
    <3>2. \A c \in DOMAIN chains : index'[c] = IF c \in asked THEN index[c] + 1 ELSE index[c]
      BY <2>1, <3>1 DEF Advance
    <3>3. index' \in [DOMAIN chains -> Nat \ {0}]
      BY <2>1, <3>1, <3>2
    <3>4. \A c \in asked \ fires : <<c, index[c]>> \in (DOMAIN chains) \X (Nat \ {0})
      <4> HIDE DEF fires
      <4> QED BY <2>2, <3>1
    <3>5. used' \subseteq (DOMAIN chains) \X (Nat \ {0})
      <4>1. used \subseteq (DOMAIN chains) \X (Nat \ {0})
        BY DEF AttackType
      <4> HIDE DEF fires
      <4> QED BY <2>1, <3>4, <4>1
    <3> QED BY <1>1, <3>2, <3>3, <3>5
  <2>5. Unsuited'
    <3>1. ASSUME NEW c \in asked \ fires PROVE SuitsNoCall(chains[c][index[c]])
      <4>1. Matches(Current(c), target) /\ ~Suits(Current(c), target)
        BY <2>2, <3>1
      <4> QED BY <4>1 DEF SuitsNoCall, Matches, Suits, Current
    <3>2. \A u \in used' : u \in used \/ \E c \in asked \ fires : u = <<c, index[c]>>
      BY <2>1
    <3> HIDE DEF fires
    <3>3. ASSUME NEW u \in used' PROVE SuitsNoCall(chains[u[1]][u[2]])
      BY <3>1, <3>2 DEF Unsuited
    <3> QED BY <1>1, <3>3 DEF Unsuited
  <2>6. CASE fires = {}
    <3>1. UNCHANGED <<count, fired, hand>>
      BY <2>1, <2>6
    <3>2. AttackType'
      BY <1>1, <1>2, <1>3, <2>4, <3>1 DEF AttackType, Injected
    <3>3. WithinBudget' /\ OnTarget' /\ Advancing' /\ Numbered'
      BY <1>1, <3>1 DEF WithinBudget, AttackType, OnTarget, Fits, StepOf, Advancing, Numbered, Newest
    <3>4. Accounted'
      <4> SUFFICES ASSUME NEW c \in DOMAIN chains, NEW p \in Nat \ {0}
                   PROVE  p < index'[c] <=> <<c, p>> \in used' \/ FiredAt(c, p)
        <5>1. \A c, p : FiredAt(c, p)' <=> FiredAt(c, p)
          BY <3>1 DEF FiredAt
        <5> QED BY <1>1, <5>1 DEF Accounted
      <4>1. <<c, p>> \in used' <=> <<c, p>> \in used \/ (c \in asked /\ p = index[c])
        BY <2>1, <2>6
      <4>2. p < index[c] <=> <<c, p>> \in used \/ FiredAt(c, p)
        BY DEF Accounted
      <4>3. index[c] \in Nat \ {0}
        BY DEF AttackType
      <4> QED BY <2>4, <4>1, <4>2, <4>3
    <3> QED BY <1>2, <2>5, <3>2, <3>3, <3>4
  <2>7. CASE fires # {}
    <3> DEFINE k == CHOOSE f \in fires : TRUE
    <3>1. PICK c : c = k
      OBVIOUS
    <3>2. c \in fires /\ fires = {c} /\ c \in asked /\ c \in DOMAIN chains /\ index[c] \in Nat \ {0}
      BY <2>2, <2>3, <2>7, <3>1 DEF AttackType
    <3> DEFINE e == [chain |-> c, step |-> index[c], target |-> target,
                     changed |-> Changes(Current(c))]
               n == loads * (MaxHits + 1) + Len(fired')
    <3>3. count' = count + 1 /\ fired' = Append(fired, e) /\ hand' = [hand EXCEPT ![h] = n]
      BY <2>1, <2>7, <3>1
    <3>4. e \in Injected
      BY <3>2 DEF Injected, Changes
    <3>5. /\ fired' \in Seq(Injected) /\ Len(fired') = Len(fired) + 1 /\ Len(fired) \in Nat
          /\ DOMAIN fired = 1..Len(fired) /\ DOMAIN fired' = 1..Len(fired) + 1
          /\ fired'[Len(fired) + 1] = e /\ \A i \in 1..Len(fired) : fired'[i] = fired[i]
      <4> HIDE DEF e
      <4> QED BY <3>3, <3>4 DEF AttackType
    <3>6. Newest' = n /\ n = Newest + 1 /\ Newest \in Nat
      <4>1. Newest' = n
        BY <1>1 DEF Newest
      <4>2. \A a, b \in Nat : a + (b + 1) = (a + b) + 1
        OBVIOUS
      <4>3. loads * (MaxHits + 1) \in Nat
        <5>1. \A a, b \in Nat : a * b \in Nat
          OBVIOUS
        <5> QED BY <5>1, AttackAssumption DEF AttackType
      <4>4. n = loads * (MaxHits + 1) + (Len(fired) + 1)
        BY <3>5
      <4>5. n = Newest + 1
        BY <3>5, <4>2, <4>3, <4>4 DEF Newest
      <4> QED BY <4>1, <4>5, NewestIsNat
    <3> HIDE DEF n
    <3>7. AttackType'
      BY <1>1, <1>2, <1>3, <2>4, <3>3, <3>5, <3>6 DEF AttackType, Injected
    <3>8. WithinBudget'
      BY <1>1, <1>5, <3>3, <3>5 DEF WithinBudget, AttackType
    <3>9. OnTarget'
      <4>1. Fits(e)
        <5>1. Matches(StepOf(e), target) /\ Suits(StepOf(e), target)
          BY <2>2, <3>2 DEF StepOf, Current
        <5>2. target.type \in {"llm", "tool"}
          BY AttackAssumption
        <5>3. (StepOf(e).strategy = "config_inject") <=> (target.type = "llm")
          BY <5>1, <5>2 DEF Suits
        <5>4. StepOf(e).strategy \in {"config_inject", "tool_poison", "error_inject"}
          BY <5>1 DEF Suits
        <5>5. StepOf(e).payload # "default" \/ Changes(StepOf(e))
          BY <5>4 DEF Changes, Payload
        <5>6. e.changed <=> Changes(StepOf(e))
          BY DEF StepOf, Current
        <5>7. e.target = target
          OBVIOUS
        <5> HIDE DEF e
        <5> QED BY <5>1, <5>3, <5>5, <5>6, <5>7 DEF Fits
      <4>2. \A x : Fits(x)' <=> Fits(x)
        BY <1>1 DEF Fits, StepOf
      <4> HIDE DEF e
      <4> QED BY <3>5, <4>1, <4>2 DEF OnTarget
    <3>10. \A i \in DOMAIN fired : fired[i].chain = c => fired[i].step < index[c]
      <4> TAKE i \in DOMAIN fired
      <4>1. fired[i].chain = c => FiredAt(c, fired[i].step)
        BY DEF FiredAt
      <4>2. fired[i] \in Injected
        <5>1. fired \in Seq(Injected)
          BY DEF AttackType
        <5> QED BY <5>1
      <4>3. fired[i].step \in Nat \ {0}
        BY <4>2 DEF Injected
      <4> QED BY <3>2, <4>1, <4>3 DEF Accounted
    <3>11. Advancing'
      <4> SUFFICES ASSUME NEW i \in DOMAIN fired', NEW j \in 1..(i - 1),
                          fired'[j].chain = fired'[i].chain
                   PROVE  fired'[j].step < fired'[i].step
        BY DEF Advancing
      <4>1. j \in 1..Len(fired) /\ fired'[j] = fired[j]
        BY <3>5
      <4>2. CASE i \in 1..Len(fired)
        BY <4>1, <4>2, <3>5 DEF Advancing
      <4>3. CASE i = Len(fired) + 1
        <5>1. fired'[i].chain = c /\ fired'[i].step = index[c]
          BY <4>3, <3>5
        <5> QED BY <3>5, <3>10, <4>1, <5>1
      <4> QED BY <3>5, <4>2, <4>3
    <3>12. Accounted'
      <4> SUFFICES ASSUME NEW d \in DOMAIN chains, NEW p \in Nat \ {0}
                   PROVE  p < index'[d] <=> <<d, p>> \in used' \/ FiredAt(d, p)'
        BY <1>1 DEF Accounted
      <4>1. <<d, p>> \in used' <=> <<d, p>> \in used \/ (d \in asked \ {c} /\ p = index[d])
        BY <2>1, <3>2
      <4>2. p < index[d] <=> <<d, p>> \in used \/ FiredAt(d, p)
        BY DEF Accounted
      <4>3. FiredAt(d, p)' <=> FiredAt(d, p) \/ (d = c /\ p = index[c])
        <5>1. e.chain = c /\ e.step = index[c]
          OBVIOUS
        <5> HIDE DEF e
        <5> QED BY <3>5, <5>1 DEF FiredAt
      <4>4. index[d] \in Nat \ {0}
        BY DEF AttackType
      <4> QED BY <2>4, <3>2, <4>1, <4>2, <4>3, <4>4
    <3>13. Numbered'
      <4>1. \A g \in Hand : hand'[g] = (IF g = h THEN n ELSE hand[g]) /\ hand[g] \in Nat
        BY <3>3 DEF AttackType
      <4>2. \A i \in 1..Len(announcedAs) : announcedAs[i] \in Nat
        BY DEF AttackType
      <4>3. announcedAs' = announcedAs
        BY <1>1
      <4>4. /\ \A g \in Hand : hand[g] < n
            /\ \A i \in 1..Len(announcedAs) : announcedAs[i] < n
        BY <3>6, <4>1, <4>2 DEF Numbered
      <4> QED BY <3>6, <4>1, <4>2, <4>3, <4>4 DEF Numbered
    <3> QED BY <1>2, <2>5, <3>7, <3>8, <3>9, <3>11, <3>12, <3>13
  <2> QED BY <2>6, <2>7
<1> QED BY <1>4, <1>5 DEF Hits

(* configure, a call that is asked, emitInjection, and the sender.         *)
LEMMA AttackPreserved == AttackInv /\ [AttackNext]_attackVars => AttackInv'
<1> SUFFICES ASSUME AttackInv, [AttackNext]_attackVars PROVE AttackInv'
  OBVIOUS
<1>1. CASE Reloads
  BY <1>1, ReloadSafe
<1>2. ASSUME NEW h \in Hand, Announces(h) PROVE AttackInv'
  BY <1>2, AnnounceSafe
<1>3. ASSUME NEW h \in Hand, NEW t \in Target, Hits(h, t) PROVE AttackInv'
  BY <1>3, HitSafe
<1>4. CASE (Halts \/ SenderNext)
           /\ UNCHANGED <<mode, budget, count, chains, index, fired, used, hand, announcedAs,
                          hits, loads>>
  BY <1>4, SenderFaithful, SenderKeepsAccepted, SenderKeepsChains DEF AttackInv
<1>5. CASE UNCHANGED attackVars
  <2>1. WireInv'
    BY <1>5, WireStutters DEF attackVars, AttackInv
  <2> QED BY <1>5, <2>1, SenderKeepsChains DEF attackVars, wireVars, AttackInv
<1> QED BY <1>1, <1>2, <1>3, <1>4, <1>5 DEF AttackNext

(* Numbers that differ count as many as there are places.                  *)
LEMMA DistinctCounted ==
  ASSUME NEW S, NEW s \in Seq(S), \A i, j \in DOMAIN s : s[i] = s[j] => i = j
  PROVE  Cardinality({s[i] : i \in DOMAIN s}) = Len(s)
<1> DEFINE range == {s[i] : i \in DOMAIN s}
<1>1. DOMAIN s = 1..Len(s) /\ Len(s) \in Nat
  OBVIOUS
<1>2. s \in Bijection(1..Len(s), range)
  <2>1. s \in [1..Len(s) -> range]
    BY <1>1
  <2> QED BY <1>1, <2>1, Fun_IsBij
<1>3. IsFiniteSet(1..Len(s)) /\ Cardinality(1..Len(s)) = Len(s)
  BY <1>1, FS_Interval
<1> HIDE DEF range
<1>4. Cardinality(range) = Cardinality(1..Len(s))
  BY <1>2, <1>3, FS_Bijection DEF ExistsBijection
<1> QED BY <1>3, <1>4 DEF range

(* What the server got, by WireFaithful: rising numbers of frames.         *)
LEMMA WireGot ==
  ASSUME WireInv
  PROVE  /\ onWire \in Seq(Nat) /\ DOMAIN onWire = 1..Len(onWire) /\ Len(onWire) \in Nat
         /\ \A i \in DOMAIN onWire : onWire[i] \in 1..accepted
         /\ \A i, j \in DOMAIN onWire : i < j => onWire[i] < onWire[j]
<1>1. /\ onWire \in Seq(Nat) /\ queue \in Seq(Nat) /\ InHand \in Seq(Nat)
      /\ DOMAIN onWire = 1..Len(onWire) /\ Len(onWire) \in Nat
  BY DEF WireInv, WireType, Frame, InHand
<1> DEFINE all == onWire \o InHand \o queue
<1>2. \A i \in DOMAIN onWire : i \in DOMAIN all /\ all[i] = onWire[i]
  <2>1. ASSUME NEW a \in Seq(Nat), NEW b \in Seq(Nat), NEW c \in Seq(Nat), NEW i \in DOMAIN a
        PROVE  i \in DOMAIN (a \o b \o c) /\ (a \o b \o c)[i] = a[i]
    OBVIOUS
  <2> QED BY <1>1, <2>1
<1>3. InOrder(all) /\ ToSet(all) \subseteq 1..accepted
  BY DEF WireInv, WireFaithful
<1> HIDE DEF all
<1>4. \A i \in DOMAIN onWire : onWire[i] \in 1..accepted
  BY <1>2, <1>3 DEF ToSet
<1>5. \A i, j \in DOMAIN onWire : i < j => onWire[i] < onWire[j]
  BY <1>2, <1>3 DEF InOrder
<1> QED BY <1>1, <1>4, <1>5

(* Numbers in order make the correlator pair each with its own.            *)
LEMMA AttackInvTells == AttackInv => InjectionsTold
<1> SUFFICES ASSUME AttackInv PROVE InjectionsTold
  OBVIOUS
<1> USE DEF AttackInv, ChainInv
<1>1. /\ fired \in Seq(Injected) /\ DOMAIN fired = 1..Len(fired) /\ Len(fired) \in Nat
      /\ used \subseteq (DOMAIN chains) \X (Nat \ {0}) /\ index \in [DOMAIN chains -> Nat \ {0}]
  BY DEF AttackType
<1>2. Len(fired) = count /\ count <= budget
  BY DEF WithinBudget
<1>3. \A i \in DOMAIN fired :
        LET e == fired[i] IN
        LET s == chains[e.chain][e.step] IN
        /\ Matches(s, e.target)
        /\ \A j \in 1..(i - 1) : fired[j].chain = e.chain => fired[j].step < e.step
        /\ (s.strategy = "config_inject") = (e.target.type = "llm")
        /\ e.changed \/ s.payload # "default"
  BY DEF OnTarget, Advancing, Fits, StepOf
<1>4. ASSUME NEW c \in DOMAIN chains
      PROVE  {<<c, p>> : p \in 1..(index[c] - 1)} =
               {u \in used : u[1] = c}
               \cup {<<c, e.step>> : e \in {f \in ToSet(fired) : f.chain = c}}
  <2> DEFINE passed == {u \in used : u[1] = c}
             done == {<<c, e.step>> : e \in {f \in ToSet(fired) : f.chain = c}}
  <2>1. ASSUME NEW p \in 1..(index[c] - 1) PROVE <<c, p>> \in passed \cup done
    <3>1. p \in Nat \ {0} /\ p < index[c]
      BY <1>1
    <3>2. CASE <<c, p>> \in used
      BY <3>2
    <3>3. ASSUME NEW i \in DOMAIN fired, fired[i].chain = c, fired[i].step = p
          PROVE  <<c, p>> \in done
      BY <3>3 DEF ToSet
    <3> QED BY <3>1, <3>2, <3>3 DEF Accounted, FiredAt
  <2>2. ASSUME NEW u \in passed PROVE u \in {<<c, p>> : p \in 1..(index[c] - 1)}
    <3>1. PICK p \in Nat \ {0} : u = <<c, p>>
      BY <1>1
    <3>2. p < index[c] /\ index[c] \in Nat
      BY <1>1, <3>1 DEF Accounted
    <3> QED BY <3>1, <3>2
  <2>3. ASSUME NEW i \in DOMAIN fired, fired[i].chain = c
        PROVE  fired[i].step \in 1..(index[c] - 1)
    <3>1. fired[i] \in Injected
      BY <1>1
    <3>2. fired[i].step \in Nat \ {0} /\ FiredAt(c, fired[i].step)
      BY <2>3, <3>1 DEF FiredAt, Injected
    <3>3. fired[i].step < index[c] /\ index[c] \in Nat
      BY <1>1, <3>2 DEF Accounted
    <3> QED BY <3>2, <3>3
  <2>4. done \subseteq {<<c, p>> : p \in 1..(index[c] - 1)}
    BY <2>3 DEF ToSet
  <2> HIDE DEF passed, done
  <2>5. passed \subseteq {<<c, p>> : p \in 1..(index[c] - 1)}
    BY <2>2
  <2>6. {<<c, p>> : p \in 1..(index[c] - 1)} \subseteq passed \cup done
    BY <2>1
  <2>7. {<<c, p>> : p \in 1..(index[c] - 1)} = passed \cup done
    BY <2>4, <2>5, <2>6
  <2> QED BY <2>7 DEF passed, done
<1>5. \A u \in used : LET s == chains[u[1]][u[2]] IN
        (s.type = "llm" => s.strategy # "config_inject" \/ Payload(s) # "text")
        /\ (s.type = "tool" => s.strategy \notin {"tool_poison", "error_inject"})
  BY DEF Unsuited, SuitsNoCall
<1>6. Cardinality({announcedAs[onWire[i]] : i \in DOMAIN onWire}) = Len(onWire)
  <2>1. /\ onWire \in Seq(Nat) /\ DOMAIN onWire = 1..Len(onWire) /\ Len(onWire) \in Nat
        /\ \A i \in DOMAIN onWire : onWire[i] \in 1..Len(announcedAs)
        /\ \A i, j \in DOMAIN onWire : i < j => onWire[i] < onWire[j]
    BY WireGot DEF AttackType
  <2> DEFINE s == [i \in 1..Len(onWire) |-> announcedAs[onWire[i]]]
  <2>2. s \in Seq(Nat) /\ Len(s) = Len(onWire) /\ DOMAIN s = DOMAIN onWire
    <3>1. announcedAs \in Seq(Nat)
      BY DEF AttackType
    <3>2. \A n \in 1..Len(announcedAs) : announcedAs[n] \in Nat
      BY <3>1
    <3>3. \A i \in 1..Len(onWire) : announcedAs[onWire[i]] \in Nat
      BY <2>1, <3>2
    <3> QED BY <2>1, <3>3
  <2>3. ASSUME NEW i \in DOMAIN s, NEW j \in DOMAIN s, s[i] = s[j] PROVE i = j
    <3>1. announcedAs[onWire[i]] = announcedAs[onWire[j]]
      BY <2>1, <2>3
    <3>2. onWire[i] = onWire[j]
      BY <2>1, <3>1 DEF Numbered
    <3>3. i \in Nat /\ j \in Nat /\ onWire[i] \in Nat /\ onWire[j] \in Nat
      BY <2>1
    <3> QED BY <2>1, <3>2, <3>3
  <2>4. {s[i] : i \in DOMAIN s} = {announcedAs[onWire[i]] : i \in DOMAIN onWire}
    BY <2>1
  <2> HIDE DEF s
  <2> QED BY <2>2, <2>3, <2>4, DistinctCounted
<1>7. WireFaithful
  BY DEF WireInv
<1> QED BY <1>2, <1>3, <1>4, <1>5, <1>6, <1>7 DEF InjectionsTold

(* Whatever the blocks, the profile and the calls: what the correlator     *)
(* attributes to an attack is what was done (nextFor, injectForLLM,        *)
(* injectForTool, emitInjection, pump).                                    *)
THEOREM AttacksAttributed == AttackInit /\ [][AttackNext]_attackVars => []InjectionsTold
<1>1. AttackInit => AttackInv
  BY AttackInitially
<1>2. AttackInv /\ [AttackNext]_attackVars => AttackInv'
  BY AttackPreserved
<1>3. AttackInv => InjectionsTold
  BY AttackInvTells
<1> QED BY <1>1, <1>2, <1>3, PTL

-----------------------------------------------------------------------------
(***************************************************************************)
(* The transport implements EventDelivery.  The invariant WireInv keeps    *)
(* the frames in rising order from the wire to the queue, so that the one  *)
(* in hand is the oldest that is pending and is in no other place.         *)
(***************************************************************************)
Pending == ToSet(InHand \o queue)

(* What was joined to a sequence.                                          *)
LEMMA JoinedPart ==
  ASSUME NEW s \in Seq(Nat), NEW n \in Nat
  PROVE  /\ SubSeq(Append(s, n), Len(s) + 1, Len(Append(s, n))) = <<n>>
         /\ Append(s, n) = s \o <<n>>
<1> DEFINE t == Append(s, n)
           u == SubSeq(t, Len(s) + 1, Len(s) + 1)
<1>1. t \in Seq(Nat) /\ Len(t) = Len(s) + 1 /\ t[Len(s) + 1] = n /\ Len(s) \in Nat
  OBVIOUS
<1> HIDE DEF t
<1>2. u \in Seq(Nat) /\ Len(u) = 1 /\ u[1] = t[Len(s) + 1]
  BY <1>1
<1> HIDE DEF u
<1>3. u = <<n>>
  BY <1>1, <1>2
<1>4. Append(s, n) = s \o <<n>>
  OBVIOUS
<1> QED BY <1>1, <1>3, <1>4 DEF t, u

(* In rising numbers, those behind one are greater.                        *)
LEMMA BehindIsGreater ==
  ASSUME NEW a \in Seq(Nat), NEW b \in Seq(Nat), NEW f \in Nat, InOrder(a \o <<f>> \o b)
  PROVE  \A x \in ToSet(b) : f < x
<1> DEFINE s == a \o <<f>> \o b
<1>1. /\ s[Len(a) + 1] = f /\ DOMAIN s = 1..Len(a) + 1 + Len(b)
      /\ Len(a) \in Nat /\ Len(b) \in Nat
      /\ \A i \in 1..Len(b) : s[Len(a) + 1 + i] = b[i]
  OBVIOUS
<1> HIDE DEF s
<1>2. ASSUME NEW i \in 1..Len(b) PROVE f < b[i]
  <2>1. /\ Len(a) + 1 \in DOMAIN s /\ Len(a) + 1 + i \in DOMAIN s
        /\ Len(a) + 1 < Len(a) + 1 + i
    BY <1>1
  <2>2. s[Len(a) + 1] < s[Len(a) + 1 + i]
    BY <2>1 DEF InOrder, s
  <2> QED BY <1>1, <2>2
<1>3. \A x \in ToSet(b) : \E i \in 1..Len(b) : x = b[i]
  BY DEF ToSet
<1> QED BY <1>2, <1>3

(* One in front of a sequence.                                             *)
LEMMA FrontSet ==
  ASSUME NEW s \in Seq(Nat), NEW n \in Nat
  PROVE  /\ ToSet(<<n>> \o s) = ToSet(s) \cup {n} /\ ToSet(<<>> \o s) = ToSet(s)
         /\ ToSet(<<n>>) = {n} /\ IsInjective(<<n>>)
<1>1. /\ DOMAIN (<<n>> \o s) = 1..1 + Len(s) /\ (<<n>> \o s)[1] = n /\ Len(s) \in Nat
      /\ \A i \in 1..Len(s) : (<<n>> \o s)[1 + i] = s[i]
      /\ <<>> \o s = s /\ DOMAIN s = 1..Len(s)
  OBVIOUS
<1>2. \A i \in 1..1 + Len(s) : i = 1 \/ (i - 1 \in 1..Len(s) /\ i = 1 + (i - 1))
  BY <1>1
<1>3. ToSet(<<n>> \o s) \subseteq ToSet(s) \cup {n}
  BY <1>1, <1>2 DEF ToSet
<1>4. ToSet(s) \cup {n} \subseteq ToSet(<<n>> \o s)
  <2>1. \A i \in 1..Len(s) : 1 + i \in DOMAIN (<<n>> \o s)
    BY <1>1
  <2>2. n \in ToSet(<<n>> \o s)
    <3>1. 1 \in DOMAIN (<<n>> \o s)
      BY <1>1
    <3> QED BY <1>1, <3>1 DEF ToSet
  <2>3. ASSUME NEW x \in ToSet(s) PROVE x \in ToSet(<<n>> \o s)
    <3>1. PICK i \in 1..Len(s) : x = s[i]
      BY <1>1 DEF ToSet
    <3>2. x = (<<n>> \o s)[1 + i] /\ 1 + i \in DOMAIN (<<n>> \o s)
      BY <1>1, <2>1, <3>1
    <3> QED BY <3>2 DEF ToSet
  <2> QED BY <2>2, <2>3
<1>5. ToSet(<<n>>) = {n} /\ IsInjective(<<n>>)
  BY DEF ToSet, IsInjective
<1> QED BY <1>1, <1>3, <1>4, <1>5

(* The frame in hand, when there is one, is the oldest pending.            *)
LEMMA HandIsOldest ==
  ASSUME WireInv, sender.at = "write"
  PROVE  /\ sender.frame \in Frame /\ sender.frame \in Nat /\ InHand = <<sender.frame>>
         /\ Pending = ToSet(queue) \cup {sender.frame}
         /\ \A x \in ToSet(queue) : sender.frame < x
<1> DEFINE f == sender.frame
<1>1. f \in Frame /\ f \in Nat /\ InHand = <<f>>
  BY DEF WireInv, WireType, InHand, NoFrame, Frame
<1>2. onWire \in Seq(Nat) /\ queue \in Seq(Nat)
  BY AllNumbers DEF WireInv
<1>3. Pending = ToSet(queue) \cup {f}
  BY <1>1, <1>2, FrontSet DEF Pending
<1>4. InOrder(onWire \o <<f>> \o queue)
  BY <1>1 DEF WireInv, WireFaithful
<1> HIDE DEF f
<1>5. \A x \in ToSet(queue) : f < x
  BY <1>1, <1>2, <1>4, BehindIsGreater
<1> QED BY <1>1, <1>3, <1>5 DEF f

(* trySend accepts.                                                        *)
LEMMA EnqueueAccepts ==
  ASSUME WireInv, Enqueue, UNCHANGED <<sender, onWire>>
  PROVE  Wire!Accept
<1>1. /\ accepted' = accepted + 1 /\ queue' = Append(queue, accepted + 1)
      /\ accepted + 1 \in Nat /\ InHand' = InHand /\ onWire' = onWire
  BY DEF Enqueue, InHand, WireInv, WireType
<1>2. InHand \in Seq(Nat) /\ queue \in Seq(Nat)
  BY AllNumbers DEF WireInv
<1>3. ASSUME NEW a \in Seq(Nat), NEW q \in Seq(Nat), NEW n \in Nat
      PROVE  ToSet(a \o Append(q, n)) = ToSet(a \o q) \cup {n}
  <2>1. a \o Append(q, n) = Append(a \o q, n) /\ a \o q \in Seq(Nat)
    OBVIOUS
  <2>2. ASSUME NEW s \in Seq(Nat) PROVE ToSet(Append(s, n)) = ToSet(s) \cup {n}
    <3>1. /\ DOMAIN Append(s, n) = 1..Len(s) + 1 /\ DOMAIN s = 1..Len(s) /\ Len(s) \in Nat
          /\ Append(s, n)[Len(s) + 1] = n
          /\ \A i \in 1..Len(s) : Append(s, n)[i] = s[i]
      OBVIOUS
    <3>2. \A i \in 1..Len(s) + 1 : i \in 1..Len(s) \/ i = Len(s) + 1
      BY <3>1
    <3> DEFINE t == Append(s, n)
    <3>3. DOMAIN t = 1..Len(s) + 1 /\ t[Len(s) + 1] = n /\ \A i \in 1..Len(s) : t[i] = s[i]
      BY <3>1
    <3> HIDE DEF t
    <3>4. ToSet(t) \subseteq ToSet(s) \cup {n}
      BY <3>1, <3>2, <3>3 DEF ToSet
    <3>5. n \in ToSet(t)
      <4>1. Len(s) + 1 \in DOMAIN t
        BY <3>1, <3>3
      <4> QED BY <3>3, <4>1 DEF ToSet
    <3>6. ASSUME NEW x \in ToSet(s) PROVE x \in ToSet(t)
      <4>1. PICK i \in 1..Len(s) : x = s[i]
        BY <3>1 DEF ToSet
      <4>2. i \in DOMAIN t /\ t[i] = x
        BY <3>1, <3>3, <4>1
      <4> QED BY <4>2 DEF ToSet
    <3>7. ToSet(t) = ToSet(s) \cup {n}
      BY <3>4, <3>5, <3>6
    <3> QED BY <3>7 DEF t
  <2> QED BY <2>1, <2>2
<1>4. ToSet(InHand' \o queue') = ToSet(InHand \o queue) \cup {accepted + 1}
  BY <1>1, <1>2, <1>3
<1> QED BY <1>1, <1>4 DEF Wire!Accept

(* A write delivers the frame in hand, or gives it up.                     *)
LEMMA WriteDelivers ==
  ASSUME WireInv, Writes
  PROVE  Wire!Deliver \/ Wire!Lose
<1> DEFINE f == sender.frame
<1>1. /\ f \in Nat /\ Pending = ToSet(queue) \cup {f} /\ \A x \in ToSet(queue) : f < x
      /\ onWire \in Seq(Nat) /\ queue \in Seq(Nat)
  BY HandIsOldest, AllNumbers DEF Writes, WireInv
<1>2. /\ accepted' = accepted /\ queue' = queue /\ sender'.frame = NoFrame
      /\ onWire' = onWire \/ onWire' = Append(onWire, f)
  BY DEF Writes, Sender, QueueAfter
<1> HIDE DEF f
<1>3. ToSet(queue) \subseteq Nat
  BY <1>1 DEF ToSet
<1>4. Pending' = Pending \ {f} /\ f \in Pending /\ \A x \in Pending : f <= x
  <2>1. Pending' = ToSet(queue)
    BY <1>1, <1>2, FrontSet DEF Pending, InHand
  <2>2. f \notin ToSet(queue)
    BY <1>1
  <2> QED BY <1>1, <1>3, <2>1, <2>2
<1>5. CASE onWire' = onWire
  <2> DEFINE gone == Pending \ Pending'
  <2>1. gone = {f} /\ gone \cap Nat # {} /\ Pending' = Pending \ gone
    BY <1>1, <1>4
  <2>2. \A e \in gone : \A other \in Pending : e <= other
    BY <1>4, <2>1
  <2> QED BY <1>2, <1>5, <2>1, <2>2 DEF Wire!Lose, Wire!Turn, Pending
<1>6. CASE onWire' = Append(onWire, f)
  <2>1. /\ SubSeq(onWire', Len(onWire) + 1, Len(onWire')) = <<f>>
        /\ onWire' = onWire \o <<f>>
    BY <1>1, <1>6, JoinedPart
  <2>2. ToSet(<<f>>) = {f} /\ IsInjective(<<f>>) /\ Len(<<f>>) = 1
    BY <1>1, FrontSet
  <2> DEFINE last == SubSeq(onWire', Len(onWire) + 1, Len(onWire'))
  <2>3. last = <<f>> /\ onWire' = onWire \o last
    BY <2>1
  <2> HIDE DEF last
  <2>4. ToSet(last) = {f} /\ IsInjective(last) /\ Len(last) = 1
    BY <2>2, <2>3
  <2>5. \A e \in ToSet(last) : \A other \in Pending : e <= other
    BY <1>4, <2>4
  <2>6. ToSet(last) \subseteq Pending /\ Pending' = Pending \ ToSet(last)
    BY <1>4, <2>4
  <2>7. /\ onWire' = onWire \o last /\ IsInjective(last) /\ ToSet(last) \subseteq Pending
        /\ Pending' = Pending \ ToSet(last) /\ Len(last) = 1 /\ accepted' = accepted
        /\ \A e \in ToSet(last) : \A other \in Pending : e <= other
    BY <1>2, <2>3, <2>4, <2>5, <2>6
  <2>8. Wire!Deliver
    BY <2>7 DEF Wire!Deliver, Wire!Turn, Wire!ToSet, Wire!IsInjective, ToSet, IsInjective,
                Pending, last
  <2> QED BY <2>8
<1>7. onWire' = onWire \/ onWire' = Append(onWire, f)
  BY <1>2
<1> QED BY <1>5, <1>6, <1>7

(* What the sender does beside writing delivers nothing: taking a frame    *)
(* from the queue leaves it pending.                                       *)
LEMMA SenderKeepsPending ==
  ASSUME WireInv, Halts \/ Dials \/ Sleeps \/ PumpStops \/ PumpTakes
  PROVE  UNCHANGED Wire!absVars
<1>1. UNCHANGED <<accepted, onWire>>
  BY DEF Halts, Dials, Sleeps, PumpStops, PumpTakes
<1>2. CASE PumpTakes
  <2>1. /\ InHand = <<>> /\ queue \in Seq(Nat) /\ queue # <<>> /\ queue' = Tail(queue)
        /\ Head(queue) \in Frame
    BY <1>2, AllNumbers DEF PumpTakes, WireInv, WireType, InHand, NoFrame
  <2>2. sender'.frame = Head(queue)
    BY <1>2 DEF PumpTakes, WireInv, WireType
  <2>3. InHand' = <<Head(queue)>>
    BY <2>1, <2>2 DEF InHand, NoFrame, Frame
  <2>4. <<Head(queue)>> \o Tail(queue) = queue /\ <<>> \o queue = queue
    BY <2>1
  <2>5. InHand' \o queue' = InHand \o queue
    BY <2>1, <2>3, <2>4
  <2> QED BY <1>1, <2>5 DEF Wire!absVars
<1>3. CASE Halts \/ Dials \/ Sleeps \/ PumpStops
  <2>1. queue' = queue /\ sender'.frame = sender.frame
    <3>1. CASE Halts
      BY <3>1 DEF Halts
    <3>2. CASE Dials \/ Sleeps \/ PumpStops
      BY <3>2 DEF Dials, Sleeps, PumpStops, Sender, WireInv, WireType
    <3> QED BY <1>3, <3>1, <3>2
  <2> QED BY <1>1, <2>1 DEF Wire!absVars, InHand
<1> QED BY <1>2, <1>3

(* The transport delivers the frames of a run in turn, each at most once,  *)
(* over any sequence of lost connections, failed writes and reloads.       *)
THEOREM TransportDelivers == AttackInit /\ [][AttackNext]_attackVars => ImplementsDelivery
<1>1. AttackInit => Wire!AbsInit
  <2>1. AttackInit => InHand \o queue = <<>>
    BY DEF AttackInit, WireInit, InHand, Sender, NoFrame
  <2>2. ToSet(<<>>) = {}
    BY DEF ToSet
  <2> QED BY <2>1, <2>2 DEF AttackInit, WireInit, Wire!AbsInit
<1>2. AttackInv /\ [AttackNext]_attackVars => [Wire!AbsNext]_(Wire!absVars)
  <2> SUFFICES ASSUME AttackInv, [AttackNext]_attackVars
               PROVE  [Wire!AbsNext]_(Wire!absVars)
    OBVIOUS
  <2>1. CASE UNCHANGED wireVars
    BY <2>1 DEF wireVars, Wire!absVars, InHand
  <2>2. ASSUME NEW h \in Hand, Announces(h) PROVE [Wire!AbsNext]_(Wire!absVars)
    <3>1. CASE Enqueue
      BY <2>2, <3>1, EnqueueAccepts DEF Announces, AttackInv, Wire!AbsNext
    <3>2. CASE Drops
      BY <2>2, <3>2 DEF Announces, Drops, Wire!absVars, InHand
    <3> QED BY <2>2, <3>1, <3>2 DEF Announces
  <2>3. CASE Halts \/ SenderNext
    <3>1. CASE Writes
      BY <3>1, WriteDelivers DEF AttackInv, Wire!AbsNext
    <3>2. CASE ~Writes
      BY <2>3, <3>2, SenderKeepsPending DEF AttackInv, SenderNext
    <3> QED BY <3>1, <3>2
  <2>4. ASSUME NEW h \in Hand, NEW t \in Target, Hits(h, t) PROVE UNCHANGED wireVars
    BY <2>4 DEF Hits
  <2>5. Reloads => UNCHANGED wireVars
    BY DEF Reloads
  <2> QED BY <2>1, <2>2, <2>3, <2>4, <2>5 DEF AttackNext, attackVars
<1>3. AttackInit => AttackInv
  BY AttackInitially
<1>4. AttackInv /\ [AttackNext]_attackVars => AttackInv'
  BY AttackPreserved
<1> QED BY <1>1, <1>2, <1>3, <1>4, PTL DEF ImplementsDelivery, Wire!AbsSpec
=============================================================================
