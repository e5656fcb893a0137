--------------------------- MODULE ScenarioProofs ---------------------------
(***************************************************************************)
(* Mocked tools, for any plans, rules, sessions, calls and workers         *)
(* (MocksHold).  A plan without an error stands by its evidence: every     *)
(* answer of the log under its number is one it may give, and each rule    *)
(* has matched as often as the log, and the events, say.  The argument is  *)
(* that numbers are given once, so that what one plan decides never counts *)
(* for another.                                                            *)
(***************************************************************************)
EXTENDS ScenarioTools, FiniteSetTheorems, SequenceTheorems, TLAPS

Raw == Plan \cup {NoPlan}
Happening == {"requested", "rejected", "mocked", "executed"} \X (Tool \cup RuleId)
Mock ==
  [raw : Raw, number : Int, plan : Raw,
   err : {"", "invalid", "evidence", "unmatched", "conflict", "snapshot"},
   seen : [Tool -> Nat], matches : [RuleId -> Nat], events : Seq(Happening)]
Entry ==
  [number : Int, session : Session, tool : Tool, allow : BOOLEAN, baseline : BOOLEAN,
   answer : {"refused", "live", "mocked"}, rule : RuleId \cup {"none"}]
Run == {i.run : i \in Invocation} \cup {NoPlan}
Calling == [at : {"scope", "run", "decide", "real"}, of : ToolCall, run : Run]
Running == [at : {"running"}, run : Run, token : Raw, private : BOOLEAN]

MatchesIn(l, among, id) ==
  Cardinality({i \in among : l[i].answer = "mocked" /\ l[i].rule = id})
Under(l, number) == {i \in DOMAIN l : l[i].number = number}

(* What a plan permits of one answer.                                      *)
Outside(p, s, allowed, baseline) ==
  s # p.session \/ baseline \/ (Enabled(p) # {} /\ ~allowed)

Permits(p, e) ==
  /\ e.answer = "refused" <=> Outside(p, e.session, e.allow, e.baseline)
  /\ e.answer = "live" /\ Isolated(p, e.tool) => p.fallback = "passthrough"

Standing(m, l, k) ==
  m.err = "" /\ m.plan # NoPlan =>
    /\ m.number \notin k
    /\ \A i \in Under(l, m.number) : Permits(m.plan, l[i])
    /\ \A r \in Enabled(m.plan) :
         /\ MatchesIn(l, Under(l, m.number), r.id) = m.matches[r.id]
         /\ TimesNoted(r.id, m.events) = m.matches[r.id]

ToldRight(c, l) ==
  /\ c.queued /\ c.answers \in SUBSET (DOMAIN l)
  /\ \A i \in c.answers : Permits(c.plan, l[i])
  /\ \A r \in Enabled(c.plan) : /\ MatchesIn(l, c.answers, r.id) = r.required
                                /\ TimesNoted(r.id, c.events) = r.required

ScenarioType ==
  /\ mocks \in Mock /\ executions \in [Session -> Mock]
  /\ log \in Seq(Entry) /\ installs \in Nat /\ lost \subseteq 0..installs
  /\ calls \in [Worker -> {Quiet} \cup Calling]
  /\ turns \in [Session -> {NoTurn} \cup Running]

Numbered ==
  /\ mocks.number \in 0..installs
  /\ \A i \in DOMAIN log : log[i].number <= installs
  /\ \A s \in Session : executions[s] # Absent =>
       /\ executions[s].number \in 1..installs /\ executions[s].number # mocks.number
       /\ executions[s].plan # NoPlan
       /\ \A t \in Session \ {s} : executions[t].number # executions[s].number
  /\ \A s \in Session : turns[s] # NoTurn /\ turns[s].private => executions[s] # Absent

ScenarioInv ==
  /\ ScenarioType /\ Numbered
  /\ Standing(mocks, log, lost)
  /\ \A s \in Session : Standing(executions[s], log, lost)
  /\ clean # NoClean => ToldRight(clean, log)

-----------------------------------------------------------------------------
(* The evidence                                                            *)

(* The fields of a plan with its evidence.                                 *)
LEMMA MockFields ==
  ASSUME NEW m \in Mock
  PROVE  /\ m.raw \in Raw /\ m.number \in Int /\ m.plan \in Raw
         /\ m.err \in {"", "invalid", "evidence", "unmatched", "conflict", "snapshot"}
         /\ m.seen \in [Tool -> Nat] /\ m.matches \in [RuleId -> Nat]
         /\ m.events \in Seq(Happening)
BY DEF Mock

(* How often a rule is noted, with one event more.                         *)
LEMMA Counted ==
  ASSUME NEW events \in Seq(Happening), NEW e \in Happening, NEW id
  PROVE  /\ TimesNoted(id, events) \in Nat
         /\ TimesNoted(id, Append(events, e))
              = IF e = <<"mocked", id>> THEN TimesNoted(id, events) + 1
                ELSE TimesNoted(id, events)
<1> DEFINE n == Len(events)
           more == Append(events, e)
           it == <<"mocked", id>>
           old == {j \in DOMAIN events : events[j] = it}
           new == {j \in DOMAIN more : more[j] = it}
<1>1. n \in Nat /\ DOMAIN events = 1..n /\ DOMAIN more = 1..n + 1
  OBVIOUS
<1>2. (\A j \in 1..n : more[j] = events[j]) /\ more[n + 1] = e
  OBVIOUS
<1> HIDE DEF n, more, it
<1>3. new = old \cup (IF e = it THEN {n + 1} ELSE {})
  <2>1. \A j : j \in 1..n + 1 <=> j \in 1..n \/ j = n + 1
    BY <1>1
  <2> QED
    BY <1>1, <1>2, <2>1
<1>4. IsFiniteSet(old) /\ n + 1 \notin old
  <2>1. IsFiniteSet(1..n) /\ old \subseteq 1..n
    BY <1>1, FS_Interval
  <2>2. n + 1 \notin 1..n
    BY <1>1
  <2> QED
    BY <2>1, <2>2, FS_Subset
<1>5. Cardinality(old) \in Nat /\ Cardinality(old \cup {n + 1}) = Cardinality(old) + 1
  BY <1>4, FS_CardinalityType, FS_AddElement
<1> QED
  BY <1>3, <1>5 DEF TimesNoted, more, it

(* append: one more event, or evidence that is full.                       *)
LEMMA NotedIs ==
  ASSUME NEW m \in Mock, NEW e \in Happening
  PROVE  /\ Noted(m, e) \in Mock /\ Noted(m, e).number = m.number
         /\ Noted(m, e).plan = m.plan
         /\ m.err # "" => Noted(m, e).err # ""
         /\ Noted(m, e).err = "" => /\ Noted(m, e).events = Append(m.events, e)
                                    /\ Noted(m, e).matches = m.matches
<1>1. m.events \in Seq(Happening)
  BY MockFields
<1>2. Append(m.events, e) \in Seq(Happening)
  BY <1>1
<1> QED
  BY <1>2 DEF Noted, Mock

(* What is observed besides mocked calls leaves the evidence as good.      *)
LEMMA ObservedStands ==
  ASSUME NEW m \in Mock, NEW s, NEW e \in Happening, e[1] # "mocked",
         NEW l, NEW k, Standing(m, l, k)
  PROVE  /\ Observed(m, s, e) \in Mock /\ Observed(m, s, e).number = m.number
         /\ Observed(m, s, e).plan = m.plan
         /\ m.err # "" => Observed(m, s, e).err # ""
         /\ Standing(Observed(m, s, e), l, k)
<1>1. CASE Observed(m, s, e) = m
  BY <1>1
<1>2. CASE Observed(m, s, e) = Noted(m, e)
  <2> DEFINE n == Noted(m, e)
  <2>1. /\ n \in Mock /\ n.number = m.number /\ n.plan = m.plan
        /\ m.err # "" => n.err # ""
        /\ n.err = "" => n.events = Append(m.events, e) /\ n.matches = m.matches
    BY NotedIs
  <2> HIDE DEF n
  <2>2. \A id : TimesNoted(id, Append(m.events, e)) = TimesNoted(id, m.events)
    <3> TAKE id
    <3>1. <<"mocked", id>>[1] = "mocked"
      OBVIOUS
    <3>2. e # <<"mocked", id>>
      BY <3>1
    <3>3. m.events \in Seq(Happening)
      BY MockFields
    <3> QED
      BY <3>2, <3>3, Counted
  <2>3. m.err \in {"", "invalid", "evidence", "unmatched", "conflict", "snapshot"}
    BY MockFields
  <2>4. Standing(n, l, k)
    BY <2>1, <2>2, <2>3 DEF Standing
  <2> QED
    BY <1>2, <2>1, <2>4 DEF n
<1> QED
  BY <1>1, <1>2 DEF Observed

-----------------------------------------------------------------------------
(* The log                                                                 *)

(* One more answer in the log.                                             *)
LEMMA Logged ==
  ASSUME NEW l \in Seq(Entry), NEW e \in Entry
  PROVE  /\ Append(l, e) \in Seq(Entry) /\ Len(l) + 1 \notin DOMAIN l
         /\ DOMAIN Append(l, e) = DOMAIN l \cup {Len(l) + 1}
         /\ \A i \in DOMAIN l : Append(l, e)[i] = l[i]
         /\ Append(l, e)[Len(l) + 1] = e
<1>1. /\ Len(l) \in Nat /\ DOMAIN l = 1..Len(l)
      /\ DOMAIN Append(l, e) = 1..Len(l) + 1
  OBVIOUS
<1>2. \A j : j \in 1..Len(l) + 1 <=> j \in 1..Len(l) \/ j = Len(l) + 1
  BY <1>1
<1> QED
  BY <1>1, <1>2

(* It belongs to its own number alone.                                     *)
LEMMA UnderLogged ==
  ASSUME NEW l \in Seq(Entry), NEW e \in Entry, NEW number
  PROVE  Under(Append(l, e), number)
           = Under(l, number) \cup (IF e.number = number THEN {Len(l) + 1} ELSE {})
<1> DEFINE more == Append(l, e)
           n == Len(l) + 1
<1>1. /\ n \notin DOMAIN l /\ DOMAIN more = DOMAIN l \cup {n}
      /\ (\A i \in DOMAIN l : more[i] = l[i]) /\ more[n] = e
  BY Logged
<1> HIDE DEF more, n
<1>2. Under(more, number) = Under(l, number) \cup (IF e.number = number THEN {n} ELSE {})
  BY <1>1 DEF Under
<1> QED
  BY <1>2 DEF more, n

(* It counts for the rule it was mocked by, and no other.                  *)
LEMMA MatchesLogged ==
  ASSUME NEW l \in Seq(Entry), NEW e \in Entry, NEW id, NEW among \in SUBSET (DOMAIN l)
  PROVE  /\ MatchesIn(l, among, id) \in Nat
         /\ MatchesIn(Append(l, e), among, id) = MatchesIn(l, among, id)
         /\ MatchesIn(Append(l, e), among \cup {Len(l) + 1}, id)
              = IF e.answer = "mocked" /\ e.rule = id THEN MatchesIn(l, among, id) + 1
                ELSE MatchesIn(l, among, id)
<1> DEFINE more == Append(l, e)
           n == Len(l) + 1
           Hit(f, i) == f[i].answer = "mocked" /\ f[i].rule = id
           old == {i \in among : Hit(l, i)}
           same == {i \in among : Hit(more, i)}
           new == {i \in among \cup {n} : Hit(more, i)}
<1>1. /\ n \notin DOMAIN l /\ (\A i \in DOMAIN l : more[i] = l[i]) /\ more[n] = e
  BY Logged
<1>2. IsFiniteSet(old)
  <2>1. Len(l) \in Nat /\ DOMAIN l = 1..Len(l)
    OBVIOUS
  <2>2. IsFiniteSet(1..Len(l)) /\ old \subseteq 1..Len(l)
    BY <2>1, FS_Interval
  <2> QED
    BY <2>2, FS_Subset
<1>3. /\ MatchesIn(l, among, id) = Cardinality(old)
      /\ MatchesIn(more, among, id) = Cardinality(same)
      /\ MatchesIn(more, among \cup {n}, id) = Cardinality(new)
  BY DEF MatchesIn
<1> HIDE DEF more, n
<1>4. same = old /\ n \notin old /\ (Hit(more, n) <=> e.answer = "mocked" /\ e.rule = id)
  BY <1>1
<1>5. new = old \cup (IF Hit(more, n) THEN {n} ELSE {})
  BY <1>1
<1>6. Cardinality(old) \in Nat /\ Cardinality(old \cup {n}) = Cardinality(old) + 1
  BY <1>2, <1>4, FS_CardinalityType, FS_AddElement
<1> QED
  BY <1>3, <1>4, <1>5, <1>6 DEF more, n

(* What is logged under another number changes nothing for a plan, and     *)
(* what was told stays right.                                              *)
LEMMA OthersStand ==
  ASSUME NEW l \in Seq(Entry), NEW e \in Entry, NEW k, NEW m, m.number # e.number,
         Standing(m, l, k)
  PROVE  Standing(m, Append(l, e), k)
<1> DEFINE more == Append(l, e)
           under == Under(l, m.number)
<1>1. Under(more, m.number) = under /\ under \in SUBSET (DOMAIN l)
  BY UnderLogged DEF Under
<1>2. \A i \in under : more[i] = l[i]
  BY <1>1, Logged
<1>3. \A id : MatchesIn(more, under, id) = MatchesIn(l, under, id)
  BY <1>1, MatchesLogged
<1> HIDE DEF more
<1>4. Standing(m, more, k)
  BY <1>1, <1>2, <1>3 DEF Standing
<1> QED
  BY <1>4 DEF more

(* What a completed call was told stays true.                              *)
LEMMA ToldStays ==
  ASSUME NEW l \in Seq(Entry), NEW e \in Entry, NEW c, ToldRight(c, l)
  PROVE  ToldRight(c, Append(l, e))
<1> DEFINE more == Append(l, e)
<1>1. c.answers \in SUBSET (DOMAIN l)
  BY DEF ToldRight
<1>2. DOMAIN l \subseteq DOMAIN more /\ \A i \in c.answers : more[i] = l[i]
  BY <1>1, Logged
<1>3. \A id : MatchesIn(more, c.answers, id) = MatchesIn(l, c.answers, id)
  BY <1>1, MatchesLogged
<1> HIDE DEF more
<1>4. ToldRight(c, more)
  BY <1>1, <1>2, <1>3 DEF ToldRight
<1> QED
  BY <1>4 DEF more

-----------------------------------------------------------------------------
(* The decision on one call                                                *)

Decided(m, s, t, out, b) ==
  /\ b.mocks \in Mock /\ b.mocks.number = m.number /\ b.mocks.plan = m.plan
  /\ m.err # "" => b.mocks = m
  /\ m.plan = NoPlan => b.mocks = m
  /\ b.answer \in {"refused", "live", "mocked"} /\ b.rule \in RuleId \cup {"none"}
  /\ \/ m.err # "" \/ m.plan = NoPlan
     \/ b.mocks = m /\ b.answer = "refused" /\ out
     \/ b.mocks.err # ""
     \/ /\ ~out /\ b.answer = "live"
        /\ Isolated(m.plan, t) => m.plan.fallback # "fail"
        /\ b.mocks.matches = m.matches /\ b.mocks.events = m.events
     \/ /\ ~out /\ b.answer = "mocked"
        /\ \E r \in Enabled(m.plan) :
             /\ b.rule = r.id
             /\ b.mocks.matches = [m.matches EXCEPT ![r.id] = @ + 1]
             /\ b.mocks.events = Append(m.events, <<"mocked", r.id>>)

(* A refusal leaves the counts of the rules alone.                         *)
LEMMA RefusedIs ==
  ASSUME NEW m \in Mock, NEW s, NEW t, NEW out, NEW n \in Mock, n.number = m.number,
         n.plan = m.plan,
         \/ n = m /\ (out \/ m.err # "")
         \/ n.err # "" /\ m.err = "" /\ m.plan # NoPlan
  PROVE  Decided(m, s, t, out, Refused(n))
<1>1. Refused(n).mocks = n /\ Refused(n).answer = "refused" /\ Refused(n).rule = "none"
  BY DEF Refused
<1> QED
  BY <1>1 DEF Decided

(* before: whatever the case, the answer is one the plan permits.          *)
LEMMA DecisionIs ==
  ASSUME NEW m \in Mock, NEW s, NEW t \in Tool, NEW a, NEW allowed
  PROVE  Decided(m, s, t, Outside(m.plan, s, allowed, FALSE), Before(m, s, t, a, allowed))
<1> DEFINE b == Before(m, s, t, a, allowed)
           counted == [m EXCEPT !.seen[t] = @ + 1]
           hits == {r \in Enabled(m.plan) : /\ r.tool = t /\ a \in r.accepts
                                            /\ r.occurrence = counted.seen[t]}
           elsewhere == s # m.plan.session \/ (Enabled(m.plan) # {} /\ ~allowed)
           out == Outside(m.plan, s, allowed, FALSE)
           many == Cardinality(hits) > 1
<1>0. out <=> elsewhere
  BY DEF Outside
<1> HIDE DEF out
<1>1. CASE m.err # ""
  <2>1. b = Refused(m)
    BY <1>1 DEF Before
  <2> QED
    BY <1>1, <2>1, RefusedIs
<1>2. CASE m.err = "" /\ m.plan = NoPlan
  <2>1. b = Live(m)
    BY <1>2 DEF Before
  <2>2. b.mocks = m /\ b.answer = "live" /\ b.rule = "none"
    BY <2>1 DEF Live
  <2>3. Decided(m, s, t, out, b)
    BY <1>2, <2>2 DEF Decided
  <2> QED
    BY <2>3 DEF b, out
<1>3. CASE m.err = "" /\ m.plan # NoPlan /\ elsewhere
  <2>1. b = Refused(m)
    BY <1>3 DEF Before
  <2> QED
    BY <1>0, <1>3, <2>1, RefusedIs DEF out
<1>4. CASE m.err = "" /\ m.plan # NoPlan /\ ~elsewhere
  <2> DEFINE r == CHOOSE h \in hits : TRUE
             e == <<"mocked", r.id>>
             matched == [counted EXCEPT !.matches[r.id] = @ + 1]
             n == Observed(matched, s, e)
  <2>0. b = Choose(counted, s, t, hits)
    BY <1>4 DEF Before
  <2>1. /\ counted \in Mock /\ counted.number = m.number /\ counted.plan = m.plan
        /\ counted.err = "" /\ counted.matches = m.matches /\ counted.events = m.events
    <3>1. m.seen \in [Tool -> Nat]
      BY MockFields
    <3>2. [m.seen EXCEPT ![t] = @ + 1] \in [Tool -> Nat]
      BY <3>1
    <3> QED
      BY <1>4, <3>2 DEF Mock
  <2>2. /\ many => b = Refused([counted EXCEPT !.err = "conflict"])
        /\ ~many /\ hits = {} /\ Isolated(m.plan, t) /\ m.plan.fallback = "fail"
             => b = Refused(Unmatched(counted, s, t))
        /\ ~many /\ hits = {} /\ ~(Isolated(m.plan, t) /\ m.plan.fallback = "fail")
             => b = Live(counted)
        /\ ~many /\ hits # {} /\ n.err # "" => b = Refused(n)
        /\ ~many /\ hits # {} /\ n.err = ""
             => b = [mocks |-> n, answer |-> "mocked", rule |-> r.id]
    <3>1. many => hits # {}
      BY FS_EmptySet
    <3> HIDE DEF counted, b, hits
    <3>2. ~many /\ hits # {} =>
            b = IF n.err # "" THEN Refused(n)
                ELSE [mocks |-> n, answer |-> "mocked", rule |-> r.id]
      BY <2>0 DEF Choose
    <3>3. many => b = Refused([counted EXCEPT !.err = "conflict"])
      BY <2>0, <3>1 DEF Choose
    <3>4. ~many /\ hits = {} =>
            b = IF Isolated(m.plan, t) /\ m.plan.fallback = "fail"
                THEN Refused(Unmatched(counted, s, t)) ELSE Live(counted)
      BY <2>0, <2>1 DEF Choose
    <3> QED
      BY <3>2, <3>3, <3>4
  <2>3. (r \in hits /\ r \in Enabled(m.plan)) \/ hits = {}
    OBVIOUS
  <2> HIDE DEF counted, b, hits, r
  <2>4. CASE many
    <3> DEFINE x == [counted EXCEPT !.err = "conflict"]
    <3>1. x \in Mock /\ x.number = m.number /\ x.plan = m.plan /\ x.err = "conflict"
      BY <2>1 DEF Mock
    <3> QED
      BY <1>4, <2>2, <2>4, <3>1, RefusedIs DEF b, out
  <2>5. CASE ~many /\ hits = {} /\ Isolated(m.plan, t) /\ m.plan.fallback = "fail"
    <3> DEFINE failed == [counted EXCEPT !.err = "unmatched"]
               x == Observed(failed, s, <<"rejected", t>>)
    <3>1. failed \in Mock /\ failed.number = m.number /\ failed.plan = m.plan
          /\ failed.err = "unmatched"
      BY <2>1 DEF Mock
    <3>2. b = Refused(x)
      BY <2>2, <2>5 DEF Unmatched
    <3> HIDE DEF failed
    <3>3. <<"rejected", t>> \in Happening
      BY DEF Happening
    <3>4. x \in Mock /\ x.number = m.number /\ x.plan = m.plan /\ x.err # ""
      BY <3>1, <3>3, NotedIs DEF Observed
    <3> HIDE DEF x
    <3> QED
      BY <1>4, <3>2, <3>4, RefusedIs DEF b, out
  <2>6. CASE ~many /\ hits = {} /\ ~(Isolated(m.plan, t) /\ m.plan.fallback = "fail")
    <3>1. b = Live(counted)
      BY <2>2, <2>6
    <3>2. b.mocks = counted /\ b.answer = "live" /\ b.rule = "none"
      BY <3>1 DEF Live
    <3>3. Decided(m, s, t, out, b)
      BY <1>0, <1>4, <2>1, <2>6, <3>2 DEF Decided
    <3> QED
      BY <3>3 DEF b, out
  <2>7. CASE ~many /\ hits # {}
    <3>1. r \in Enabled(m.plan)
      BY <2>3, <2>7
    <3>2. r.id \in RuleId
      <4>1. m.plan \in Plan
        BY <1>4, MockFields DEF Raw
      <4> QED
        BY <3>1, <4>1 DEF Enabled, RuleId
    <3>3. /\ matched \in Mock /\ matched.number = m.number /\ matched.plan = m.plan
          /\ matched.matches = [m.matches EXCEPT ![r.id] = @ + 1]
          /\ matched.events = m.events
      <4>1. counted.matches \in [RuleId -> Nat]
        BY <2>1, MockFields
      <4>2. [counted.matches EXCEPT ![r.id] = @ + 1] \in [RuleId -> Nat]
        BY <3>2, <4>1
      <4> QED
        BY <2>1, <4>2 DEF Mock
    <3>4. e \in Happening
      BY <3>2 DEF Happening
    <3> HIDE DEF matched, e
    <3>5. n = Noted(matched, e)
      BY <1>4, <3>3 DEF Observed
    <3>6. /\ n \in Mock /\ n.number = m.number /\ n.plan = m.plan
          /\ n.err = "" => n.events = Append(m.events, e) /\ n.matches = matched.matches
      <4>1. /\ Noted(matched, e) \in Mock /\ Noted(matched, e).number = matched.number
            /\ Noted(matched, e).plan = matched.plan
            /\ Noted(matched, e).err = ""
                 => /\ Noted(matched, e).events = Append(matched.events, e)
                    /\ Noted(matched, e).matches = matched.matches
        BY <3>3, <3>4, NotedIs
      <4> HIDE DEF n
      <4> QED
        BY <3>3, <3>5, <4>1
    <3> HIDE DEF n
    <3>7. CASE n.err # ""
      BY <1>4, <2>2, <2>7, <3>6, <3>7, RefusedIs DEF b, out
    <3>8. CASE n.err = ""
      <4>0. b = [mocks |-> n, answer |-> "mocked", rule |-> r.id]
        BY <2>2, <2>7, <3>8, Zenon
      <4>1. b.mocks = n /\ b.answer = "mocked" /\ b.rule = r.id
        BY <4>0
      <4>2. /\ ~out
            /\ n.matches = [m.matches EXCEPT ![r.id] = @ + 1]
            /\ n.events = Append(m.events, <<"mocked", r.id>>)
        BY <1>0, <1>4, <3>3, <3>6, <3>8 DEF e
      <4>3. Decided(m, s, t, out, b)
        BY <1>4, <3>1, <3>2, <3>6, <4>1, <4>2 DEF Decided
      <4> QED
        BY <4>3 DEF b, out
    <3> QED
      BY <3>7, <3>8
  <2> QED
    BY <2>4, <2>5, <2>6, <2>7
<1> QED
  BY <1>1, <1>2, <1>3, <1>4 DEF out

(* A decision that is logged is one the plan permits, or the plan's last.  *)
LEMMA DecidedStands ==
  ASSUME NEW m \in Mock, NEW l \in Seq(Entry), NEW k, NEW s, NEW t, NEW b,
         NEW out, Decided(m, s, t, out, b), Standing(m, l, k), NEW e \in Entry,
         e.number = m.number, out <=> Outside(m.plan, s, e.allow, e.baseline),
         e.session = s, e.tool = t, e.answer = b.answer, e.rule = b.rule
  PROVE  Standing(b.mocks, Append(l, e), k)
<1> DEFINE more == Append(l, e)
           under == Under(l, m.number)
           now == under \cup {Len(l) + 1}
           x == b.mocks
<1>1. CASE x.err # "" \/ m.plan = NoPlan
  BY <1>1 DEF Standing, Decided
<1>2. CASE x.err = "" /\ m.plan # NoPlan
  <2>1. x \in Mock /\ x.number = m.number /\ x.plan = m.plan /\ m.err = "" /\ m.plan # NoPlan
    BY <1>2 DEF Decided
  <2>2. /\ m.number \notin k /\ (\A i \in under : Permits(m.plan, l[i]))
        /\ \A r \in Enabled(m.plan) :
             MatchesIn(l, under, r.id) = m.matches[r.id] /\ TimesNoted(r.id, m.events) = m.matches[r.id]
    BY <2>1 DEF Standing
  <2>3. m.plan \in Plan /\ (\A r \in Enabled(m.plan) : r.id \in RuleId)
        /\ m.matches \in [RuleId -> Nat] /\ m.events \in Seq(Happening)
    BY <2>1, MockFields DEF Raw, Enabled, RuleId
  <2>4. Under(more, x.number) = now /\ under \in SUBSET (DOMAIN l)
    <3>1. under \in SUBSET (DOMAIN l)
      BY DEF Under
    <3>2. Under(more, m.number) = under \cup (IF e.number = m.number THEN {Len(l) + 1} ELSE {})
      BY UnderLogged
    <3> QED
      BY <2>1, <3>1, <3>2
  <2>5. (\A i \in under : more[i] = l[i]) /\ more[Len(l) + 1] = e
    BY <2>4, Logged
  <2>6. Permits(m.plan, e)
    <3>1. /\ b.answer = "refused" <=> out
          /\ b.answer = "live" /\ Isolated(m.plan, t) => m.plan.fallback # "fail"
      BY <1>2, <2>1 DEF Decided
    <3>2. m.plan.fallback \in {"fail", "passthrough"}
      BY <2>3, ScenarioAssumption
    <3> QED
      BY <3>1, <3>2 DEF Permits
  <2>7. \A id : MatchesIn(more, now, id)
                  = IF e.answer = "mocked" /\ e.rule = id THEN MatchesIn(l, under, id) + 1
                    ELSE MatchesIn(l, under, id)
    BY <2>4, MatchesLogged
  <2> HIDE DEF more, under, now, x
  <2>8. ASSUME b.answer # "mocked", x.matches = m.matches, x.events = m.events
        PROVE  Standing(x, more, k)
    <3>1. \A id : MatchesIn(more, now, id) = MatchesIn(l, under, id)
      BY <2>7, <2>8
    <3>2. \A j \in now : Permits(m.plan, more[j])
      BY <2>2, <2>5, <2>6 DEF now
    <3> QED
      BY <2>1, <2>2, <2>4, <2>8, <3>1, <3>2 DEF Standing
  <2>9. ASSUME NEW r \in Enabled(m.plan), b.answer = "mocked", b.rule = r.id,
               x.matches = [m.matches EXCEPT ![r.id] = @ + 1],
               x.events = Append(m.events, <<"mocked", r.id>>)
        PROVE  Standing(x, more, k)
    <3>1. ASSUME NEW q \in Enabled(m.plan)
          PROVE  /\ MatchesIn(more, now, q.id) = x.matches[q.id]
                 /\ TimesNoted(q.id, x.events) = x.matches[q.id]
      <4>1. r.id \in RuleId /\ q.id \in RuleId /\ <<"mocked", r.id>> \in Happening
        BY <2>3 DEF Happening
      <4>2. /\ MatchesIn(l, under, q.id) = m.matches[q.id]
            /\ TimesNoted(q.id, m.events) = m.matches[q.id]
        BY <2>2
      <4>3. x.matches[q.id] = IF q.id = r.id THEN m.matches[q.id] + 1 ELSE m.matches[q.id]
        BY <2>3, <2>9, <4>1
      <4>4. MatchesIn(more, now, q.id) = IF q.id = r.id THEN m.matches[q.id] + 1
                                         ELSE m.matches[q.id]
        BY <2>7, <2>9, <4>2
      <4>5. <<"mocked", r.id>> = <<"mocked", q.id>> <=> r.id = q.id
        OBVIOUS
      <4>6. TimesNoted(q.id, x.events) = IF q.id = r.id THEN m.matches[q.id] + 1
                                         ELSE m.matches[q.id]
        BY <2>3, <2>9, <4>1, <4>2, <4>5, Counted
      <4> QED
        BY <4>3, <4>4, <4>6
    <3>2. \A j \in now : Permits(m.plan, more[j])
      BY <2>2, <2>5, <2>6 DEF now
    <3> QED
      BY <2>1, <2>2, <2>4, <3>1, <3>2 DEF Standing
  <2>10. Standing(x, more, k)
    <3>1. /\ x.plan = m.plan /\ m.err = "" /\ m.plan # NoPlan
          /\ \/ x = m /\ b.answer = "refused"
             \/ b.answer = "live" /\ x.matches = m.matches /\ x.events = m.events
             \/ /\ b.answer = "mocked"
                /\ \E r \in Enabled(m.plan) :
                     /\ b.rule = r.id
                     /\ x.matches = [m.matches EXCEPT ![r.id] = @ + 1]
                     /\ x.events = Append(m.events, <<"mocked", r.id>>)
      BY <1>2, <2>1 DEF Decided, x
    <3> QED
      BY <2>8, <2>9, <3>1
  <2> QED
    BY <1>2, <2>10 DEF x, more
<1> QED
  BY <1>1, <1>2

(* A new installation: nothing is known under its number.                  *)
LEMMA InstalledStands ==
  ASSUME NEW raw \in Raw, NEW n \in Nat, NEW l \in Seq(Entry), NEW k, n \notin k,
         \A i \in DOMAIN l : l[i].number # n
  PROVE  /\ Installed(raw, n) \in Mock /\ Installed(raw, n).number = n
         /\ Standing(Installed(raw, n), l, k)
<1> DEFINE m == Installed(raw, n)
           seen == [t \in Tool |-> 0]
           matches == [i \in RuleId |-> 0]
           plan == IF raw # NoPlan /\ Sound(raw) THEN raw ELSE NoPlan
           err == IF raw = NoPlan \/ Sound(raw) THEN "" ELSE "invalid"
<1>1. seen \in [Tool -> Nat] /\ matches \in [RuleId -> Nat] /\ <<>> \in Seq(Happening)
  OBVIOUS
<1>2. /\ plan \in Raw /\ n \in Int
      /\ err \in {"", "invalid", "evidence", "unmatched", "conflict", "snapshot"}
  BY DEF Raw
<1> HIDE DEF seen, matches, plan, err
<1>3. m = [raw |-> raw, number |-> n, plan |-> plan, err |-> err,
           seen |-> seen, matches |-> matches, events |-> <<>>]
  BY DEF Installed, seen, matches, plan, err
<1> HIDE DEF m
<1>4. m \in Mock /\ m.number = n /\ m.matches = matches /\ m.events = <<>>
  <2>1. m.number = n /\ m.matches = matches /\ m.events = <<>>
    BY <1>3
  <2> DEFINE none == <<>>
  <2>2. none \in Seq(Happening)
    BY <1>1
  <2> HIDE DEF none
  <2>3. [raw |-> raw, number |-> n, plan |-> plan, err |-> err, seen |-> seen,
         matches |-> matches, events |-> none] \in Mock
    BY <1>1, <1>2, <2>2 DEF Mock
  <2> QED
    BY <1>3, <2>1, <2>3 DEF none
<1>5. Under(l, n) = {}
  BY DEF Under
<1>6. \A id : MatchesIn(l, {}, id) = 0 /\ TimesNoted(id, <<>>) = 0
  <2> TAKE id
  <2>1. {i \in {} : l[i].answer = "mocked" /\ l[i].rule = id} = {}
    OBVIOUS
  <2>2. {j \in DOMAIN <<>> : <<>>[j] = <<"mocked", id>>} = {}
    OBVIOUS
  <2> QED
    BY <2>1, <2>2, FS_EmptySet DEF MatchesIn, TimesNoted
<1>7. Standing(m, l, k)
  <2> SUFFICES ASSUME m.plan # NoPlan, NEW r \in Enabled(m.plan) PROVE m.matches[r.id] = 0
    BY <1>4, <1>5, <1>6 DEF Standing
  <2>1. r.id \in RuleId
    BY <1>4, MockFields DEF Raw, Enabled, RuleId
  <2> QED
    BY <1>4, <2>1 DEF matches
<1> QED
  BY <1>4, <1>7 DEF m

-----------------------------------------------------------------------------
(* The state                                                               *)

(* What stands where there is no plan: public, and private.                *)
LEMMA Blanks ==
  /\ Nothing \in Mock /\ Nothing.number = 0 /\ Nothing.plan = NoPlan
  /\ Absent \in Mock /\ Absent.number = -1 /\ Absent.plan = NoPlan
<1>1. Nothing \in Mock /\ Nothing.number = 0
  <2> DEFINE none == <<>>
  <2>1. /\ none \in Seq(Entry) /\ NoPlan \in Raw /\ 0 \in Nat /\ 0 \notin {}
        /\ \A i \in DOMAIN none : none[i].number # 0
    BY DEF Raw
  <2> HIDE DEF none
  <2>2. Installed(NoPlan, 0) \in Mock /\ Installed(NoPlan, 0).number = 0
    BY <2>1, InstalledStands
  <2> QED
    BY <2>2 DEF Nothing
<1>2. Nothing.plan = NoPlan
  BY DEF Nothing, Installed
<1>3. -1 \in Int
  OBVIOUS
<1> QED
  BY <1>1, <1>2, <1>3 DEF Absent, Mock

(* No plan is installed and nothing was answered.                          *)
LEMMA ScenarioInitially == ScenarioInit => ScenarioInv
<1> SUFFICES ASSUME ScenarioInit PROVE ScenarioInv
  OBVIOUS
<1>1. ScenarioType
  BY Blanks DEF ScenarioInit, ScenarioType
<1>2. Numbered
  BY Blanks DEF ScenarioInit, Numbered, NoTurn
<1>3. Standing(mocks, log, lost) /\ \A s \in Session : Standing(executions[s], log, lost)
  BY Blanks DEF ScenarioInit, Standing
<1> QED
  BY <1>1, <1>2, <1>3 DEF ScenarioInit, ScenarioInv

(* A step that keeps numbers, plans, turns and the log.                    *)
LEMMA PlansKept ==
  ASSUME ScenarioInv, ScenarioType', UNCHANGED <<installs, turns, log, lost, clean>>,
         mocks'.number = mocks.number, Standing(mocks', log, lost),
         \A s \in Session :
           \/ executions'[s] = executions[s]
           \/ /\ executions[s] # Absent /\ executions'[s].number = executions[s].number
              /\ executions'[s].plan = executions[s].plan
              /\ Standing(executions'[s], log, lost)
  PROVE  ScenarioInv'
<1>1. Numbered /\ installs \in Nat
  BY DEF ScenarioInv, ScenarioType
<1>2. \A s \in Session : /\ executions'[s].number = executions[s].number
                         /\ executions'[s].plan = executions[s].plan
                         /\ executions'[s] = Absent <=> executions[s] = Absent
  <2> TAKE s \in Session
  <2>1. executions[s] # Absent => executions[s].number \in 1..installs
    BY <1>1 DEF Numbered
  <2>2. Absent.number = -1
    BY Blanks
  <2> QED
    BY <1>1, <2>1, <2>2
<1>3. Numbered'
  BY <1>1, <1>2 DEF Numbered
<1>4. \A s \in Session : Standing(executions'[s], log', lost')
  BY DEF ScenarioInv
<1> QED
  BY <1>3, <1>4 DEF ScenarioInv

(* An event joins the evidence.                                            *)
LEMMA ObserveKept ==
  ASSUME ScenarioInv, NEW s \in Session, NEW e \in Happening, e[1] # "mocked", Observe(s, e),
         UNCHANGED <<turns, installs, log, lost, clean>>,
         calls' \in [Worker -> {Quiet} \cup Calling]
  PROVE  ScenarioInv'
<1>1. /\ mocks \in Mock /\ Standing(mocks, log, lost)
      /\ executions \in [Session -> Mock] /\ executions[s] \in Mock
      /\ Standing(executions[s], log, lost)
  BY DEF ScenarioInv, ScenarioType
<1>2. CASE executions[s] # Absent
  <2> DEFINE m == Observed(executions[s], s, e)
  <2>1. /\ m \in Mock /\ m.number = executions[s].number /\ m.plan = executions[s].plan
        /\ Standing(m, log, lost)
    BY <1>1, ObservedStands
  <2>2. executions' = [executions EXCEPT ![s] = m] /\ mocks' = mocks
    BY <1>2 DEF Observe
  <2> HIDE DEF m
  <2>3. ScenarioType'
    BY <1>1, <2>1, <2>2 DEF ScenarioInv, ScenarioType
  <2> QED
    BY <1>1, <1>2, <2>1, <2>2, <2>3, PlansKept
<1>3. CASE executions[s] = Absent
  <2> DEFINE m == Observed(mocks, s, e)
  <2>1. m \in Mock /\ m.number = mocks.number /\ Standing(m, log, lost)
    BY <1>1, ObservedStands
  <2>2. mocks' \in {mocks, m} /\ executions' = executions
    BY <1>3 DEF Observe
  <2> HIDE DEF m
  <2>3. ScenarioType'
    BY <1>1, <2>1, <2>2 DEF ScenarioInv, ScenarioType
  <2> QED
    BY <1>1, <2>1, <2>2, <2>3, PlansKept
<1> QED
  BY <1>2, <1>3

(* A step of a call that leaves the plans and the log alone.               *)
LEMMA CallKept ==
  ASSUME ScenarioInv, NEW w \in Worker,
         \/ \E call \in ToolCall : CallRequests(w, call)
         \/ CallScoped(w) \/ CallRunChecked(w) \/ CallExecuted(w)
  PROVE  ScenarioInv'
<1>1. /\ calls \in [Worker -> {Quiet} \cup Calling]
      /\ turns \in [Session -> {NoTurn} \cup Running]
  BY DEF ScenarioInv, ScenarioType
<1>2. \A c \in Calling : /\ c.of \in ToolCall /\ c.of.session \in Session /\ c.of.tool \in Tool
                         /\ \A at \in {"scope", "run", "decide", "real"} :
                              [c EXCEPT !.at = at] \in Calling
  BY ScenarioAssumption DEF Calling
<1>3. calls[w] \in Calling \/ calls[w] = Quiet
  BY <1>1
<1>4. Quiet.at = "idle"
  BY DEF Quiet
<1>5. ASSUME NEW call \in ToolCall, CallRequests(w, call) PROVE ScenarioInv'
  <2> DEFINE begun == IF turns[call.session] = NoTurn
                      THEN [at |-> "decide", of |-> call, run |-> NoPlan]
                      ELSE [at |-> "scope", of |-> call, run |-> turns[call.session].run]
  <2>1. /\ call.session \in Session /\ <<"requested", call.tool>> \in Happening
    BY ScenarioAssumption DEF Happening
  <2>2. begun \in Calling
    <3>1. turns[call.session] # NoTurn => turns[call.session] \in Running
      BY <1>1, <2>1
    <3>2. turns[call.session] # NoTurn => turns[call.session].run \in Run
      BY <3>1 DEF Running
    <3> QED
      BY <3>2 DEF Calling, Run
  <2> HIDE DEF begun
  <2>3. /\ UNCHANGED <<turns, installs, log, lost, clean>>
        /\ \/ UNCHANGED <<calls, mocks, executions>>
           \/ /\ Observe(call.session, <<"requested", call.tool>>)
              /\ \E next \in {begun, Quiet} : calls' = [calls EXCEPT ![w] = next]
    BY <1>5 DEF CallRequests, begun
  <2>4. CASE UNCHANGED <<calls, mocks, executions>>
    <3>1. ScenarioType'
      BY <2>3, <2>4 DEF ScenarioInv, ScenarioType
    <3> QED
      BY <2>3, <2>4, <3>1, PlansKept DEF ScenarioInv
  <2>5. CASE /\ Observe(call.session, <<"requested", call.tool>>)
             /\ \E next \in {begun, Quiet} : calls' = [calls EXCEPT ![w] = next]
    <3>1. calls' \in [Worker -> {Quiet} \cup Calling]
      BY <1>1, <2>2, <2>5
    <3>2. <<"requested", call.tool>>[1] # "mocked"
      OBVIOUS
    <3> QED
      BY <2>1, <2>3, <2>5, <3>1, <3>2, ObserveKept
  <2> QED
    BY <2>3, <2>4, <2>5
<1>6. CASE CallScoped(w) \/ CallRunChecked(w)
  <2>1. calls[w] \in Calling
    BY <1>3, <1>4, <1>6 DEF CallScoped, CallRunChecked
  <2>2. \/ \E at \in {"run", "decide"} : calls' = [calls EXCEPT ![w] = [@ EXCEPT !.at = at]]
        \/ calls' = [calls EXCEPT ![w] = Quiet]
    BY <1>6 DEF CallScoped, CallRunChecked
  <2>3. calls' \in [Worker -> {Quiet} \cup Calling]
    BY <1>1, <1>2, <2>1, <2>2
  <2>4. UNCHANGED <<mocks, executions, turns, installs, log, lost, clean>>
    BY <1>6 DEF CallScoped, CallRunChecked
  <2>5. ScenarioType'
    BY <2>3, <2>4 DEF ScenarioInv, ScenarioType
  <2> QED
    BY <2>4, <2>5, PlansKept DEF ScenarioInv
<1>7. CASE CallExecuted(w)
  <2>1. calls[w] \in Calling
    BY <1>3, <1>4, <1>7 DEF CallExecuted
  <2> DEFINE s == calls[w].of.session
             e == <<"executed", calls[w].of.tool>>
  <2>2. /\ Observe(s, e) /\ calls' = [calls EXCEPT ![w] = Quiet]
        /\ UNCHANGED <<turns, installs, log, lost, clean>>
    BY <1>7 DEF CallExecuted
  <2>3. calls' \in [Worker -> {Quiet} \cup Calling]
    BY <1>1, <2>2
  <2>4. s \in Session /\ e \in Happening /\ e[1] # "mocked"
    BY <1>2, <2>1 DEF Happening
  <2> HIDE DEF s, e
  <2> QED
    BY <2>2, <2>3, <2>4, ObserveKept
<1> QED
  BY <1>5, <1>6, <1>7

(* A decision is logged under the number of the plan that made it, and     *)
(* nowhere else.                                                           *)
LEMMA DecidesIs ==
  ASSUME ScenarioType, NEW w \in Worker, NEW m \in Mock, calls[w].at = "decide",
         NEW baseline \in BOOLEAN, Decides(w, m, baseline), NEW k, Standing(m, log, k),
         Numbered, m.number \in 0..installs
  PROVE  LET x == Decision(w, m, baseline).mocks
         IN  /\ x \in Mock /\ x.number = m.number /\ x.plan = m.plan
             /\ Standing(x, log', k) /\ calls' \in [Worker -> {Quiet} \cup Calling]
             /\ log' \in Seq(Entry) /\ \A i \in DOMAIN log' : log'[i].number <= installs
             /\ \A n : n.number # m.number /\ Standing(n, log, k) => Standing(n, log', k)
             /\ \A c : ToldRight(c, log) => ToldRight(c, log')
<1> DEFINE c == calls[w].of
           b == Decision(w, m, baseline)
           out == Outside(m.plan, c.session, c.allow, baseline)
           e == [number |-> m.number, session |-> c.session, tool |-> c.tool,
                 allow |-> c.allow, baseline |-> baseline,
                 answer |-> b.answer, rule |-> b.rule]
<1>1. calls[w] \in Calling
  <2>1. Quiet.at = "idle"
    BY DEF Quiet
  <2> QED
    BY <2>1 DEF ScenarioType
<1>2. c.session \in Session /\ c.tool \in Tool /\ c.allow \in BOOLEAN
  BY <1>1, ScenarioAssumption DEF Calling
<1>3. Decided(m, c.session, c.tool, out, b)
  <2>1. CASE baseline
    <3>1. b = Refused(m) /\ out
      BY <2>1 DEF Decision, Outside
    <3> HIDE DEF b, out
    <3> QED
      BY <3>1, RefusedIs
  <2>2. CASE ~baseline
    <3>1. baseline = FALSE /\ b = Before(m, c.session, c.tool, c.arg, c.allow)
      BY <2>2 DEF Decision
    <3> HIDE DEF b
    <3> QED
      BY <1>2, <3>1, DecisionIs
  <2> QED
    BY <2>1, <2>2
<1>4. e \in Entry
  <2>1. m.number \in Int /\ b.answer \in {"refused", "live", "mocked"}
        /\ b.rule \in RuleId \cup {"none"}
    BY <1>3, MockFields DEF Decided
  <2> HIDE DEF b, c
  <2> QED
    BY <1>2, <2>1 DEF Entry
<1>5. log' = Append(log, e)
  BY DEF Decides
<1>6. calls' \in [Worker -> {Quiet} \cup Calling]
  <2>1. [calls[w] EXCEPT !.at = "real"] \in Calling
    BY <1>1 DEF Calling
  <2>2. calls' = [calls EXCEPT ![w] = [@ EXCEPT !.at = "real"]] \/ calls' = [calls EXCEPT ![w] = Quiet]
    BY DEF Decides
  <2> QED
    BY <2>1, <2>2 DEF ScenarioType
<1>7. log \in Seq(Entry)
  BY DEF ScenarioType
<1>8. /\ e.number = m.number /\ e.session = c.session /\ e.tool = c.tool
      /\ e.answer = b.answer /\ e.rule = b.rule
      /\ out <=> Outside(m.plan, c.session, e.allow, e.baseline)
  OBVIOUS
<1> HIDE DEF c, b, e, out
<1>9. Standing(b.mocks, log', k)
  BY <1>3, <1>4, <1>5, <1>7, <1>8, DecidedStands
<1>10. log' \in Seq(Entry) /\ \A i \in DOMAIN log' : log'[i].number <= installs
  <2>1. \A i \in DOMAIN log : log[i].number <= installs
    BY DEF Numbered
  <2>2. e.number <= installs
    BY <1>8
  <2> QED
    BY <1>4, <1>5, <1>7, <2>1, <2>2, Logged
<1>11. \A n : n.number # m.number /\ Standing(n, log, k) => Standing(n, log', k)
  BY <1>4, <1>5, <1>7, <1>8, OthersStand
<1>12. \A x : ToldRight(x, log) => ToldRight(x, log')
  BY <1>4, <1>5, <1>7, ToldStays
<1> QED
  BY <1>3, <1>6, <1>9, <1>10, <1>11, <1>12 DEF Decided, b

(* before: a decision joins the log.                                       *)
LEMMA DecidesKept ==
  ASSUME ScenarioInv, sim.baseline \in BOOLEAN, NEW w \in Worker, CallDecides(w)
  PROVE  ScenarioInv'
<1> DEFINE s == calls[w].of.session
<1>1. /\ calls[w].at = "decide" /\ UNCHANGED <<turns, installs, lost, clean>>
  BY DEF CallDecides
<1>2. calls[w] \in Calling /\ s \in Session
  <2>1. Quiet.at = "idle"
    BY DEF Quiet
  <2>2. calls[w] \in Calling
    BY <1>1, <2>1 DEF ScenarioInv, ScenarioType
  <2> QED
    BY <2>2, ScenarioAssumption DEF Calling
<1>3. /\ ScenarioType /\ Numbered /\ mocks \in Mock /\ executions \in [Session -> Mock]
      /\ Standing(mocks, log, lost) /\ \A t \in Session : Standing(executions[t], log, lost)
      /\ clean # NoClean => ToldRight(clean, log)
  BY DEF ScenarioInv, ScenarioType
<1> HIDE DEF s
<1>4. CASE executions[s] # Absent
  <2> DEFINE m == executions[s]
             x == Decision(w, m, FALSE).mocks
  <2>1. Decides(w, m, FALSE) /\ executions' = [executions EXCEPT ![s] = x] /\ mocks' = mocks
    BY <1>4 DEF CallDecides, s
  <2>2. m \in Mock /\ m.number \in 1..installs /\ m.number \in 0..installs /\ m.number # mocks.number
        /\ Standing(m, log, lost) /\ m.plan # NoPlan
        /\ \A t \in Session \ {s} : executions[t].number # m.number
    BY <1>2, <1>3, <1>4 DEF Numbered, ScenarioType
  <2>3. /\ x \in Mock /\ x.number = m.number /\ x.plan = m.plan
        /\ Standing(x, log', lost) /\ calls' \in [Worker -> {Quiet} \cup Calling]
        /\ log' \in Seq(Entry) /\ \A i \in DOMAIN log' : log'[i].number <= installs
        /\ \A n : n.number # m.number /\ Standing(n, log, lost) => Standing(n, log', lost)
        /\ \A c : ToldRight(c, log) => ToldRight(c, log')
    <3> HIDE DEF m
    <3> QED
      BY <1>1, <1>3, <2>1, <2>2, DecidesIs
  <2> HIDE DEF m, x
  <2>4. \A t \in Session : executions'[t] = IF t = s THEN x ELSE executions[t]
    BY <1>2, <1>3, <2>1
  <2>5. ScenarioType'
    BY <1>1, <1>3, <2>1, <2>3 DEF ScenarioType
  <2>6. x # Absent /\ m = executions[s]
    BY <2>2, <2>3, Blanks DEF m
  <2>7. Numbered'
    BY <1>1, <1>2, <1>3, <1>4, <2>1, <2>2, <2>3, <2>4, <2>6 DEF Numbered
  <2>8. /\ Standing(mocks, log', lost)
        /\ \A t \in Session : Standing(executions'[t], log', lost)
    BY <1>3, <2>2, <2>3, <2>4
  <2> QED
    BY <1>1, <1>3, <2>1, <2>3, <2>5, <2>7, <2>8 DEF ScenarioInv
<1>5. CASE executions[s] = Absent /\ Active
  <2> DEFINE x == Decision(w, mocks, sim.baseline).mocks
  <2>1. Decides(w, mocks, sim.baseline) /\ mocks' = x /\ executions' = executions
    BY <1>5 DEF CallDecides, s
  <2>2. /\ mocks.number \in 0..installs
        /\ \A t \in Session : executions[t] # Absent => executions[t].number # mocks.number
        /\ installs \in Nat
    BY <1>3 DEF Numbered, ScenarioType
  <2>3. /\ x \in Mock /\ x.number = mocks.number /\ x.plan = mocks.plan
        /\ Standing(x, log', lost) /\ calls' \in [Worker -> {Quiet} \cup Calling]
        /\ log' \in Seq(Entry) /\ \A i \in DOMAIN log' : log'[i].number <= installs
        /\ \A n : n.number # mocks.number /\ Standing(n, log, lost) => Standing(n, log', lost)
        /\ \A c : ToldRight(c, log) => ToldRight(c, log')
    BY <1>1, <1>3, <2>1, <2>2, DecidesIs
  <2> HIDE DEF x
  <2>4. ScenarioType'
    BY <1>1, <1>3, <2>1, <2>3 DEF ScenarioType
  <2>5. Numbered'
    BY <1>1, <1>3, <2>1, <2>3 DEF Numbered
  <2>6. \A t \in Session : Standing(executions[t], log', lost)
    <3> TAKE t \in Session
    <3>1. executions[t].number # mocks.number
      BY <2>2, Blanks
    <3> QED
      BY <1>3, <2>3, <3>1
  <2> QED
    BY <1>1, <1>3, <2>1, <2>3, <2>4, <2>5, <2>6 DEF ScenarioInv
<1>6. CASE executions[s] = Absent /\ ~Active
  <2>1. /\ UNCHANGED <<mocks, log, executions>>
        /\ calls' = [calls EXCEPT ![w] = [@ EXCEPT !.at = "real"]]
    BY <1>6 DEF CallDecides, s, Active
  <2>2. [calls[w] EXCEPT !.at = "real"] \in Calling
    BY <1>2 DEF Calling
  <2>3. calls' \in [Worker -> {Quiet} \cup Calling]
    BY <1>3, <2>1, <2>2 DEF ScenarioType
  <2>4. ScenarioType'
    BY <1>1, <1>3, <2>1, <2>3 DEF ScenarioType
  <2> QED
    BY <1>1, <1>3, <2>1, <2>4, PlansKept
<1> QED
  BY <1>4, <1>5, <1>6

(* A snapshot of m: it is queued, or m fails.                              *)
LEMMA SnapshotIs ==
  ASSUME ScenarioType, NEW m \in Mock, NEW delivered \in BOOLEAN, Snapshot(m, delivered),
         m.number \in Nat, Standing(m, log, lost)
  PROVE  /\ mocks' \in Mock /\ mocks'.number = m.number /\ Standing(mocks', log, lost')
         /\ lost' \subseteq lost \cup {m.number}
         /\ delivered => mocks' = m /\ lost' = lost
         /\ \A n : n.number # m.number /\ Standing(n, log, lost) => Standing(n, log, lost')
<1>1. mocks' = IF delivered THEN m ELSE Undelivered(m)
  BY DEF Snapshot
<1>2. lost' = IF delivered THEN lost ELSE lost \cup {m.number}
  BY DEF Snapshot
<1>3. /\ Undelivered(m) \in Mock /\ Undelivered(m).number = m.number
      /\ Undelivered(m).err = "snapshot"
  BY DEF Undelivered, Mock
<1>4. Standing(mocks', log, lost')
  BY <1>1, <1>2, <1>3 DEF Standing
<1>5. \A n : n.number # m.number /\ Standing(n, log, lost) => Standing(n, log, lost')
  BY <1>2 DEF Standing
<1> QED
  BY <1>1, <1>2, <1>3, <1>4, <1>5

(* configure: a plan is installed under a number of its own.               *)
LEMMA AppliesKept ==
  ASSUME ScenarioInv, NEW block \in Block, Applies(block)
  PROVE  ScenarioInv'
<1> DEFINE m == Configured(mocks, block.plan)
<1>1. /\ installs' = IF m.number > installs THEN m.number ELSE installs
      /\ \E delivered \in BOOLEAN : Snapshot(m, delivered)
      /\ UNCHANGED <<executions, turns, calls, log, clean>>
  BY DEF Applies
<1>2. /\ ScenarioType /\ Numbered /\ mocks \in Mock /\ executions \in [Session -> Mock]
      /\ installs \in Nat /\ lost \subseteq 0..installs /\ log \in Seq(Entry)
      /\ Standing(mocks, log, lost) /\ \A t \in Session : Standing(executions[t], log, lost)
      /\ clean # NoClean => ToldRight(clean, log)
      /\ mocks.number \in 0..installs
  BY DEF ScenarioInv, ScenarioType, Numbered
<1>3. /\ m \in Mock /\ Standing(m, log, lost)
      /\ m = mocks \/ m.number = installs + 1
  <2>1. CASE mocks.raw = block.plan
    BY <1>2, <2>1 DEF Configured
  <2>2. CASE mocks.raw # block.plan
    <3>1. m = Installed(block.plan, installs + 1)
      BY <2>2 DEF Configured
    <3>2. /\ block.plan \in Raw /\ installs + 1 \in Nat /\ installs + 1 \notin lost
          /\ \A i \in DOMAIN log : log[i].number # installs + 1
      <4>1. \A i \in DOMAIN log : log[i] \in Entry /\ log[i].number <= installs
        BY <1>2 DEF Numbered
      <4>2. \A i \in DOMAIN log : log[i].number \in Int
        BY <4>1 DEF Entry
      <4> QED
        BY <1>2, <4>1, <4>2, ScenarioAssumption DEF Raw
    <3> QED
      BY <1>2, <3>1, <3>2, InstalledStands
  <2> QED
    BY <2>1, <2>2
<1>4. m.number \in 0..installs' /\ installs' \in Nat /\ installs <= installs'
  BY <1>1, <1>2, <1>3
<1>5. m.number \in Nat
  BY <1>4
<1> HIDE DEF m
<1>6. /\ mocks' \in Mock /\ mocks'.number = m.number /\ Standing(mocks', log, lost')
      /\ lost' \subseteq lost \cup {m.number}
      /\ \A n : n.number # m.number /\ Standing(n, log, lost) => Standing(n, log, lost')
  BY <1>1, <1>2, <1>3, <1>5, SnapshotIs
<1>7. ScenarioType'
  <2>1. lost' \subseteq 0..installs'
    BY <1>2, <1>4, <1>6
  <2> QED
    BY <1>1, <1>2, <1>4, <1>6, <2>1 DEF ScenarioType
<1>8. \A s \in Session : executions[s].number # m.number
  <2> TAKE s \in Session
  <2>1. CASE executions[s] = Absent
    BY <1>5, <2>1, Blanks
  <2>2. CASE executions[s] # Absent
    BY <1>2, <1>3, <2>2 DEF Numbered
  <2> QED
    BY <2>1, <2>2
<1>9. Numbered'
  <2>1. \A i \in DOMAIN log : log[i].number <= installs'
    <3> TAKE i \in DOMAIN log
    <3>1. log[i] \in Entry /\ log[i].number <= installs
      BY <1>2 DEF Numbered
    <3>2. log[i].number \in Int
      BY <3>1 DEF Entry
    <3> QED
      BY <1>2, <1>4, <3>1, <3>2
  <2>2. \A s \in Session : executions[s] # Absent =>
          /\ executions[s].number \in 1..installs' /\ executions[s].plan # NoPlan
          /\ \A t \in Session \ {s} : executions[t].number # executions[s].number
    BY <1>2, <1>4 DEF Numbered
  <2>3. \A s \in Session : turns[s] # NoTurn /\ turns[s].private => executions[s] # Absent
    BY <1>2 DEF Numbered
  <2> QED
    BY <1>1, <1>4, <1>6, <1>8, <2>1, <2>2, <2>3 DEF Numbered
<1> QED
  BY <1>1, <1>2, <1>6, <1>7, <1>8, <1>9 DEF ScenarioInv

(* A private plan is forgotten.                                            *)
LEMMA ForgetsKept ==
  ASSUME ScenarioInv, Forgets \/ Deactivates
  PROVE  ScenarioInv'
<1>1. /\ mocks' \in {mocks, Nothing}
      /\ UNCHANGED <<executions, turns, calls, called, installs, log, lost, clean>>
  BY DEF Forgets, Deactivates
<1>2. ScenarioType'
  BY <1>1, Blanks DEF ScenarioInv, ScenarioType
<1>3. mocks'.number = mocks.number \/ mocks'.number = 0
  BY <1>1, Blanks
<1>4. Numbered'
  BY <1>1, <1>3 DEF ScenarioInv, ScenarioType, Numbered
<1>5. Standing(Nothing, log, lost)
  BY Blanks DEF Standing
<1> QED
  BY <1>1, <1>2, <1>4, <1>5 DEF ScenarioInv

(* A private invocation brings its plan.                                   *)
LEMMA DispatchesKept ==
  ASSUME ScenarioInv, NEW i \in Invocation, Dispatches(i)
  PROVE  ScenarioInv'
<1> DEFINE s == i.session
           turn == [at |-> "running", run |-> i.run, token |-> ScenarioToken,
                    private |-> i.plan # NoPlan]
<1>1. /\ turns[s] = NoTurn /\ turns' = [turns EXCEPT ![s] = turn]
      /\ UNCHANGED <<mocks, calls, log, lost, clean>>
  BY DEF Dispatches
<1>2. /\ ScenarioType /\ Numbered /\ mocks \in Mock /\ executions \in [Session -> Mock]
      /\ installs \in Nat /\ lost \subseteq 0..installs /\ log \in Seq(Entry)
      /\ Standing(mocks, log, lost) /\ \A t \in Session : Standing(executions[t], log, lost)
      /\ clean # NoClean => ToldRight(clean, log)
      /\ mocks.number \in 0..installs
  BY DEF ScenarioInv, ScenarioType, Numbered
<1>3. s \in Session /\ i.plan \in Raw
  BY ScenarioAssumption DEF Raw
<1>4. turn \in Running
  <2>1. mocks.plan \in Raw
    BY <1>2, MockFields
  <2> QED
    BY <2>1 DEF Running, Run, ScenarioToken
<1>5. turns' \in [Session -> {NoTurn} \cup Running]
  BY <1>1, <1>2, <1>4 DEF ScenarioType
<1>6. \A t \in Session : turns'[t] = IF t = s THEN turn ELSE turns[t]
  BY <1>1, <1>2 DEF ScenarioType
<1>7. turn.private <=> i.plan # NoPlan
  OBVIOUS
<1> HIDE DEF turn, s
<1>8. CASE i.plan = NoPlan
  <2>1. UNCHANGED <<executions, installs>>
    BY <1>8 DEF Dispatches
  <2>2. ScenarioType'
    BY <1>1, <1>2, <1>5, <2>1 DEF ScenarioType
  <2>3. Numbered'
    BY <1>1, <1>2, <1>6, <1>7, <1>8, <2>1 DEF Numbered
  <2> QED
    BY <1>1, <1>2, <2>1, <2>2, <2>3 DEF ScenarioInv
<1>9. CASE i.plan # NoPlan
  <2> DEFINE x == Installed(i.plan, installs + 1)
  <2>1. /\ Sound(i.plan) /\ executions[s] = Absent /\ installs' = installs + 1
        /\ executions' = [executions EXCEPT ![s] = x]
    BY <1>9 DEF Dispatches, BeginExecution, s
  <2>2. \A j \in DOMAIN log : log[j].number \in Int /\ log[j].number <= installs
    <3>1. \A j \in DOMAIN log : log[j] \in Entry /\ log[j].number <= installs
      BY <1>2 DEF Numbered
    <3> QED
      BY <3>1 DEF Entry
  <2>3. x \in Mock /\ x.number = installs + 1 /\ Standing(x, log, lost)
    <3>1. /\ installs + 1 \in Nat /\ installs + 1 \notin lost
          /\ \A j \in DOMAIN log : log[j].number # installs + 1
      BY <1>2, <2>2
    <3> QED
      BY <1>2, <1>3, <3>1, InstalledStands
  <2>4. x.plan = i.plan
    BY <1>9, <2>1 DEF Installed
  <2> HIDE DEF x
  <2>5. \A t \in Session : executions'[t] = IF t = s THEN x ELSE executions[t]
    BY <1>2, <1>3, <2>1
  <2>6. ScenarioType'
    <3>1. installs' \in Nat /\ lost' \subseteq 0..installs'
      BY <1>1, <1>2, <2>1
    <3> QED
      BY <1>1, <1>2, <1>5, <2>1, <2>3, <3>1 DEF ScenarioType
  <2>7. Numbered'
    <3>1. \A t \in Session : executions[t].number # installs + 1 /\ executions[t].number \in Int
      <4> TAKE t \in Session
      <4>1. CASE executions[t] = Absent
        BY <1>2, <4>1, Blanks
      <4>2. CASE executions[t] # Absent
        BY <1>2, <4>2 DEF Numbered
      <4> QED
        BY <4>1, <4>2
    <3>2. \A t \in Session : executions'[t] # Absent =>
            /\ executions'[t].number \in 1..installs' /\ executions'[t].number # mocks.number
            /\ executions'[t].plan # NoPlan
            /\ \A r \in Session \ {t} : executions'[r].number # executions'[t].number
      <4> TAKE t \in Session
      <4>1. CASE t = s
        <5>1. executions'[t] = x /\ \A r \in Session \ {t} : executions'[r] = executions[r]
          BY <2>5, <4>1
        <5>2. x.number \in 1..installs' /\ x.number # mocks.number
          BY <1>2, <2>1, <2>3
        <5>3. \A r \in Session \ {t} : executions[r].number # x.number
          BY <2>3, <3>1
        <5> QED
          BY <1>9, <2>4, <5>1, <5>2, <5>3
      <4>2. CASE t # s
        <5>1. executions'[t] = executions[t]
          BY <2>5, <4>2
        <5> SUFFICES ASSUME executions[t] # Absent
                     PROVE  /\ executions[t].number \in 1..installs'
                            /\ executions[t].number # mocks.number /\ executions[t].plan # NoPlan
                            /\ \A r \in Session \ {t} : executions'[r].number # executions[t].number
          BY <5>1
        <5>2. /\ executions[t].number \in 1..installs /\ executions[t].number # mocks.number
              /\ executions[t].plan # NoPlan
              /\ \A r \in Session \ {t} : executions[r].number # executions[t].number
          BY <1>2 DEF Numbered
        <5>3. executions[t].number \in 1..installs'
          BY <1>2, <2>1, <5>2
        <5>4. \A r \in Session \ {t} : executions'[r].number # executions[t].number
          BY <2>3, <2>5, <3>1, <5>2
        <5> QED
          BY <5>2, <5>3, <5>4
      <4> QED
        BY <4>1, <4>2
    <3>3. x # Absent
      BY <1>2, <2>3, Blanks
    <3>4. \A t \in Session : turns'[t] # NoTurn /\ turns'[t].private => executions'[t] # Absent
      BY <1>2, <1>6, <2>5, <3>3 DEF Numbered
    <3>5. mocks.number \in 0..installs' /\ \A j \in DOMAIN log : log[j].number <= installs'
      BY <1>2, <2>1, <2>2
    <3> QED
      BY <1>1, <3>2, <3>4, <3>5 DEF Numbered
  <2> QED
    BY <1>1, <1>2, <2>3, <2>5, <2>6, <2>7 DEF ScenarioInv
<1> QED
  BY <1>8, <1>9

(* What a plan that stands and is complete tells is right.                 *)
LEMMA CompleteTells ==
  ASSUME NEW m \in Mock, Standing(m, log, lost), Complete(m), m.plan # NoPlan
  PROVE  ToldRight(Told(m), log)
<1>1. /\ Told(m).plan = m.plan /\ Told(m).events = m.events
      /\ Told(m).answers = Under(log, m.number) /\ Told(m).queued = (m.number \notin lost)
  BY DEF Told, Under
<1>2. Under(log, m.number) \in SUBSET (DOMAIN log)
  BY DEF Under
<1>3. m.err = "" /\ \A r \in Enabled(m.plan) : m.matches[r.id] = r.required
  BY DEF Complete
<1> QED
  BY <1>1, <1>2, <1>3 DEF Standing, ToldRight

(* A private invocation completes, and is told.                            *)
LEMMA TurnEndsKept ==
  ASSUME ScenarioInv, NEW s \in Session, NEW success \in BOOLEAN, TurnEnds(s, success)
  PROVE  ScenarioInv'
<1>1. /\ turns[s] # NoTurn /\ turns' = [turns EXCEPT ![s] = NoTurn]
      /\ UNCHANGED <<calls, installs, log>>
  BY DEF TurnEnds
<1>2. /\ ScenarioType /\ Numbered /\ mocks \in Mock /\ executions \in [Session -> Mock]
      /\ installs \in Nat /\ lost \subseteq 0..installs /\ log \in Seq(Entry)
      /\ Standing(mocks, log, lost) /\ \A t \in Session : Standing(executions[t], log, lost)
      /\ clean # NoClean => ToldRight(clean, log)
      /\ mocks.number \in 0..installs /\ mocks.number \in Nat
  BY DEF ScenarioInv, ScenarioType, Numbered
<1>3. /\ turns' \in [Session -> {NoTurn} \cup Running]
      /\ \A t \in Session : turns'[t] = IF t = s THEN NoTurn ELSE turns[t]
  BY <1>1, <1>2 DEF ScenarioType
<1>4. CASE turns[s].private
  <2>1. /\ executions' = [executions EXCEPT ![s] = Absent]
        /\ clean' = IF success /\ Complete(executions[s]) THEN Told(executions[s]) ELSE clean
        /\ UNCHANGED <<mocks, lost>>
    BY <1>4 DEF TurnEnds
  <2>2. executions[s] \in Mock /\ executions[s].plan # NoPlan
    BY <1>1, <1>2, <1>4 DEF Numbered
  <2>3. clean' # NoClean => ToldRight(clean', log)
    BY <1>2, <2>1, <2>2, CompleteTells
  <2>4. \A t \in Session : executions'[t] = IF t = s THEN Absent ELSE executions[t]
    BY <1>2, <2>1
  <2>5. ScenarioType'
    BY <1>1, <1>2, <1>3, <2>1, Blanks DEF ScenarioType
  <2>6. Numbered'
    <3>1. \A t \in Session : executions[t] # Absent =>
            /\ executions[t].number \in 1..installs /\ executions[t].number # mocks.number
            /\ executions[t].plan # NoPlan
            /\ \A r \in Session \ {t} : executions[r].number # executions[t].number
      BY <1>2 DEF Numbered
    <3>2. \A t \in Session : executions[t] # Absent => executions[t].number # Absent.number
      BY <3>1, Blanks
    <3>3. \A t \in Session : executions'[t] # Absent =>
            /\ executions'[t].number \in 1..installs /\ executions'[t].number # mocks.number
            /\ executions'[t].plan # NoPlan
            /\ \A r \in Session \ {t} : executions'[r].number # executions'[t].number
      BY <2>4, <3>1, <3>2
    <3>4. \A t \in Session : turns'[t] # NoTurn /\ turns'[t].private => executions'[t] # Absent
      BY <1>2, <1>3, <2>4 DEF Numbered
    <3> QED
      BY <1>1, <1>2, <2>1, <3>3, <3>4 DEF Numbered
  <2>7. Standing(Absent, log, lost)
    BY Blanks DEF Standing
  <2> QED
    BY <1>1, <1>2, <2>1, <2>3, <2>4, <2>5, <2>6, <2>7 DEF ScenarioInv
<1>5. CASE ~turns[s].private
  <2>1. /\ UNCHANGED executions
        /\ \/ UNCHANGED <<mocks, lost, clean>>
           \/ /\ mocks.plan # NoPlan
              /\ \E delivered \in BOOLEAN :
                   /\ Snapshot(mocks, delivered)
                   /\ clean' = IF delivered /\ success /\ Complete(mocks) THEN Told(mocks)
                               ELSE clean
    BY <1>5 DEF TurnEnds
  <2>2. CASE UNCHANGED <<mocks, lost, clean>>
    <3>1. ScenarioType'
      BY <1>1, <1>2, <1>3, <2>1, <2>2 DEF ScenarioType
    <3>2. Numbered'
      BY <1>1, <1>2, <1>3, <2>1, <2>2 DEF Numbered
    <3> QED
      BY <1>1, <1>2, <2>1, <2>2, <3>1, <3>2 DEF ScenarioInv
  <2>3. ASSUME mocks.plan # NoPlan, NEW delivered \in BOOLEAN, Snapshot(mocks, delivered),
               clean' = IF delivered /\ success /\ Complete(mocks) THEN Told(mocks) ELSE clean
        PROVE  ScenarioInv'
    <3>1. /\ mocks' \in Mock /\ mocks'.number = mocks.number /\ Standing(mocks', log, lost')
          /\ lost' \subseteq lost \cup {mocks.number}
          /\ \A n : n.number # mocks.number /\ Standing(n, log, lost) => Standing(n, log, lost')
      BY <1>2, <2>3, SnapshotIs
    <3>2. clean' # NoClean => ToldRight(clean', log)
      BY <1>2, <2>3, CompleteTells
    <3>3. ScenarioType'
      BY <1>1, <1>2, <1>3, <2>1, <3>1 DEF ScenarioType
    <3>4. Numbered'
      BY <1>1, <1>2, <1>3, <2>1, <3>1 DEF Numbered
    <3>5. \A t \in Session : Standing(executions[t], log, lost')
      <4> TAKE t \in Session
      <4>1. executions[t].number # mocks.number
        BY <1>2, Blanks DEF Numbered
      <4> QED
        BY <1>2, <3>1, <4>1
    <3> QED
      BY <1>1, <2>1, <3>1, <3>2, <3>3, <3>4, <3>5 DEF ScenarioInv
  <2> QED
    BY <2>1, <2>2, <2>3
<1> QED
  BY <1>4, <1>5

(* Whether a run is a baseline is what the last block said.                *)
BaselineKnown == sim.baseline \in BOOLEAN

LEMMA BaselineKept == BaselineKnown /\ [ScenarioNext]_scenarioVars => BaselineKnown'
<1> SUFFICES ASSUME BaselineKnown, [ScenarioNext]_scenarioVars PROVE BaselineKnown'
  OBVIOUS
<1>1. ASSUME NEW block \in Block, Applies(block) PROVE BaselineKnown'
  <2>1. sim' = [state |-> "active", run |-> block.run, baseline |-> block.baseline]
    BY <1>1 DEF Applies
  <2> QED
    BY <2>1, ScenarioAssumption DEF BaselineKnown
<1>2. CASE Deactivates
  <2>1. sim' = [sim EXCEPT !.state = "stopping"]
    BY <1>2 DEF Deactivates
  <2> QED
    BY <2>1 DEF BaselineKnown
<1>3. CASE Forgets
  BY <1>3 DEF Forgets, BaselineKnown
<1>4. CASE \/ UNCHANGED scenarioVars
           \/ \E i \in Invocation : Dispatches(i)
           \/ \E s \in Session, success \in BOOLEAN : TurnEnds(s, success)
           \/ \E w \in Worker :
                \/ \E call \in ToolCall : CallRequests(w, call)
                \/ CallScoped(w) \/ CallRunChecked(w) \/ CallDecides(w) \/ CallExecuted(w)
  BY <1>4 DEF BaselineKnown, scenarioVars, Dispatches, TurnEnds, CallRequests, CallScoped,
              CallRunChecked, CallDecides, CallExecuted
<1> QED
  BY <1>1, <1>2, <1>3, <1>4 DEF ScenarioNext


(* Every step of the controller and the workers.                           *)
LEMMA ScenarioPreserved ==
  ScenarioInv /\ BaselineKnown /\ [ScenarioNext]_scenarioVars => ScenarioInv'
<1> SUFFICES ASSUME ScenarioInv, BaselineKnown, [ScenarioNext]_scenarioVars
             PROVE  ScenarioInv'
  OBVIOUS
<1>1. CASE UNCHANGED scenarioVars
  <2>1. ScenarioType'
    BY <1>1 DEF scenarioVars, ScenarioInv, ScenarioType
  <2> QED
    BY <1>1, <2>1, PlansKept DEF scenarioVars, ScenarioInv
<1>2. ASSUME NEW block \in Block, Applies(block) PROVE ScenarioInv'
  BY <1>2, AppliesKept
<1>3. CASE Forgets \/ Deactivates
  BY <1>3, ForgetsKept
<1>4. ASSUME NEW i \in Invocation, Dispatches(i) PROVE ScenarioInv'
  BY <1>4, DispatchesKept
<1>5. ASSUME NEW s \in Session, NEW success \in BOOLEAN, TurnEnds(s, success)
      PROVE  ScenarioInv'
  BY <1>5, TurnEndsKept
<1>6. ASSUME NEW w \in Worker,
             \/ \E call \in ToolCall : CallRequests(w, call)
             \/ CallScoped(w) \/ CallRunChecked(w) \/ CallExecuted(w)
      PROVE  ScenarioInv'
  BY <1>6, CallKept
<1>7. ASSUME NEW w \in Worker, CallDecides(w) PROVE ScenarioInv'
  BY <1>7, DecidesKept DEF BaselineKnown
<1> QED
  BY <1>1, <1>2, <1>3, <1>4, <1>5, <1>6, <1>7 DEF ScenarioNext

(* A clean completion tells of a plan that answered every call that was    *)
(* its to answer, as it may, that refused every other, and each rule of    *)
(* which answered as often as required, whatever other plans, sessions and *)
(* goroutines did meanwhile.                                               *)
THEOREM MocksHeld == ScenarioInit /\ [][ScenarioNext]_scenarioVars => []MocksHold
<1>1. ScenarioInv => MocksHold
  BY DEF ScenarioInv, MocksHold, ToldRight, Permits, Outside, MatchesIn, TimesMocked
<1>2. ScenarioInit => BaselineKnown
  BY DEF ScenarioInit, BaselineKnown
<1> QED
  BY <1>1, <1>2, ScenarioInitially, BaselineKept, ScenarioPreserved, PTL
=============================================================================
