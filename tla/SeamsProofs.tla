----------------------------- MODULE SeamsProofs -----------------------------
(***************************************************************************)
(* Two seams between an agent and the Guard.  Of a model call, for any     *)
(* request, settings, answer and limit of the capture: nothing governed    *)
(* escapes its checks (NothingUnchecked), and streams are audited honestly *)
(* (AuditHonest).  Of the profile, for any goroutines, tools, events and   *)
(* configurations: the platform is told all of it (ProfileTold).           *)
(***************************************************************************)
EXTENDS ModelCall, AgentProfile, FiniteSetTheorems, WellFoundedInduction, TLAPS

-----------------------------------------------------------------------------
(* A model call                                                            *)

(* A nonempty set of naturals within 1..n holds a greatest.                *)
LEMMA Greatest ==
  ASSUME NEW n \in Nat, NEW T, T \subseteq 1..n, T # {}
  PROVE  Max(T) \in T /\ \A y \in T : y <= Max(T)
<1> DEFINE R == {p \in Nat \X Nat : p[1] < p[2]}
           U == {n - x : x \in T}
<1>1. IsWellFoundedOn(R, Nat)
  BY NatLessThanWellFounded DEF OpToRel
<1>2. PICK u \in U : \A y \in U : ~ (<<y, u>> \in R)
  <2>1. U # {}
    OBVIOUS
  <2>3. U \subseteq Nat
    <3> SUFFICES ASSUME NEW x \in T PROVE n - x \in Nat
      OBVIOUS
    <3>1. x \in 1..n
      OBVIOUS
    <3> QED BY <3>1
  <2> HIDE DEF R, U
  <2> QED BY <1>1, <2>1, <2>3, WFMin
<1>3. PICK x \in T : u = n - x
  OBVIOUS
<1>4. ASSUME NEW y \in T PROVE y <= x
  <2>1. n - y \in U /\ n - y \in Nat /\ n - x \in Nat
    OBVIOUS
  <2>2. ~ (n - y < n - x)
    BY <1>2, <1>3, <2>1
  <2> QED BY <2>2
<1>5. \E z \in T : \A y \in T : y <= z
  BY <1>3, <1>4
<1> HIDE DEF R, U
<1> QED BY <1>5 DEF Max

-----------------------------------------------------------------------------
Sort == IF req.path = "responses" THEN Item ELSE Message
Known == Chat \/ req.path = "responses"

(* An attack's body has the shape of the one it is made of.                *)
LEMMA ContentShape ==
  ASSUME req \in CallRequest, Known, NEW b \in {"given", Injected}
  PROVE  Content(b) \in Bodies(Sort)
<1> DEFINE q == req.content
<1>1. q \in Bodies(Sort)
  BY CallAssumption DEF Sort
<1> HIDE DEF q
<1>2. CASE b = "given"
  BY <1>1, <1>2 DEF Content, q, Injected
<1>3. CASE b = Injected /\ Chat
  <2>1. Content(b) = InjectSystem(q)
    BY <1>3 DEF Content, q, Injected
  <2>2. CASE q.system = {} /\ q.messages
    <3> DEFINE m == [role |-> "system", shape |-> "text", parts |-> {Adversary}]
    <3>1. m \in Message
      BY TextAssumption DEF Message, Voice
    <3>2. q.chat \in Seq(Message)
      BY <1>1, <1>3 DEF Bodies, Sort, Known, Chat
    <3> HIDE DEF m
    <3>3. <<m>> \o q.chat \in Seq(Message)
      BY <3>1, <3>2
    <3>4. InjectSystem(q) = [q EXCEPT !.chat = <<m>> \o @]
      BY <2>2 DEF InjectSystem, m
    <3> QED BY <1>1, <1>3, <2>1, <3>3, <3>4 DEF Bodies, Sort, Known, Chat
  <2>3. CASE ~(q.system = {} /\ q.messages)
    <3>1. InjectSystem(q) = [q EXCEPT !.system = @ \cup {Adversary}]
      BY <2>3 DEF InjectSystem
    <3>2. q.system \cup {Adversary} \in SUBSET (Fragment \ {Secret, NoText})
      BY <1>1, TextAssumption DEF Bodies
    <3> QED BY <1>1, <2>1, <3>1, <3>2 DEF Bodies
  <2> QED BY <2>2, <2>3
<1>4. CASE b = Injected /\ ~Chat
  <2>1. Content(b) = [q EXCEPT !.system = @ \cup {Adversary}]
    BY <1>4 DEF Content, q, Injected, InjectInstructions
  <2>2. q.system \cup {Adversary} \in SUBSET (Fragment \ {Secret, NoText})
    BY <1>1, TextAssumption DEF Bodies
  <2> QED BY <1>1, <2>1, <2>2 DEF Bodies
<1> QED BY <1>2, <1>3, <1>4

(* extractAnthropic, extractOpenAI, extractGemini: what LatestUser reads.  *)
LEMMA LatestHeard ==
  ASSUME NEW chat \in Seq(Message)
  PROVE  /\ \A t \in LatestUser(chat) : \E i \in DOMAIN chat :
              chat[i].role = "user" /\ t \in Texts(chat[i].parts)
         /\ \A i \in DOMAIN chat :
              /\ chat[i].role = "user" /\ chat[i].shape # "other"
              /\ \A j \in DOMAIN chat : chat[j].role = "user" => j <= i
              => Texts(chat[i].parts) \subseteq LatestUser(chat)
<1> DEFINE users == {i \in DOMAIN chat : chat[i].role = "user"}
<1>1. CASE users = {}
  <2>1. LatestUser(chat) = {}
    BY <1>1 DEF LatestUser
  <2> QED BY <1>1, <2>1
<1>2. CASE users # {}
  <2>1. LatestUser(chat) = ContentText(chat[Max(users)])
    BY <1>2 DEF LatestUser
  <2>2. Len(chat) \in Nat /\ users \subseteq 1..Len(chat)
    OBVIOUS
  <2> DEFINE k == Max(users)
  <2>3. k \in users /\ \A y \in users : y <= k
    <3> HIDE DEF users
    <3> QED BY <1>2, <2>2, Greatest
  <2> HIDE DEF k
  <2>4. LatestUser(chat) = ContentText(chat[k])
    BY <2>1 DEF k
  <2>5. \A i \in DOMAIN chat :
          chat[i].role = "user" /\ (\A j \in DOMAIN chat : chat[j].role = "user" => j <= i)
          => i = k
    <3> SUFFICES ASSUME NEW i \in DOMAIN chat, chat[i].role = "user",
                        \A j \in DOMAIN chat : chat[j].role = "user" => j <= i
                 PROVE  i = k
      OBVIOUS
    <3>1. i <= k /\ k <= i /\ i \in Nat /\ k \in Nat
      BY <2>2, <2>3
    <3> QED BY <3>1
  <2> QED BY <2>3, <2>4, <2>5 DEF ContentText
<1> QED BY <1>1, <1>2

(* The pre_llm check of a body sees what it has to (RoundTrip,             *)
(* roundTripResponses).                                                    *)
LEMMA TextSeen ==
  ASSUME req \in CallRequest, Known, NEW b \in {"given", Injected},
         Chat \/ (ContextPartial(Content(b)) => checked.partial)
  PROVE  CheckSees(TextOf(Content(b)), Content(b))
<1> DEFINE c == Content(b)
<1>1. c \in Bodies(Sort)
  BY ContentShape
<1> HIDE DEF c
<1>2. CASE Chat
  <2>1. c.chat \in Seq(Message)
    BY <1>1, <1>2 DEF Bodies, Sort, Known, Chat
  <2>2. CASE c.typed /\ req.body # "garbled"
    <3>1. TextOf(c) = LatestUser(c.chat)
      BY <1>2, <2>2 DEF TextOf, Prompt
    <3> QED BY <1>2, <2>1, <3>1, LatestHeard DEF CheckSees, By, c
  <2>3. CASE ~(c.typed /\ req.body # "garbled")
    <3>1. TextOf(c) = UNION {Texts(c.chat[i].parts) : i \in DOMAIN c.chat}
      <4>1. CASE req.body = "garbled"
        <5> DEFINE d == [c EXCEPT !.typed = FALSE]
        <5>1. d.typed = FALSE /\ d.chat = c.chat
          BY <1>1 DEF Bodies
        <5>2. TextOf(c) = Prompt(d)
          BY <1>2, <4>1 DEF TextOf
        <5> HIDE DEF d
        <5> QED BY <5>1, <5>2 DEF Prompt
      <4>2. CASE req.body # "garbled"
        <5>1. TextOf(c) = Prompt(c) /\ c.typed = FALSE
          BY <1>1, <1>2, <2>3, <4>2 DEF TextOf, Bodies
        <5> QED BY <5>1 DEF Prompt
      <4> QED BY <4>1, <4>2
    <3> QED BY <1>2, <2>3, <3>1 DEF CheckSees, c
  <2> QED BY <2>2, <2>3
<1>3. CASE ~Chat
  <2>1. c.chat \in Seq(Item) /\ c.system \in SUBSET (Fragment \ {Secret, NoText})
    BY <1>1, <1>3 DEF Bodies, Sort, Known, Chat
  <2>2. TextOf(c) = ResponsesPrompt(c)
    BY <1>3 DEF TextOf
  <2>3. Texts(c.system) = c.system /\ c.system \ {Secret} = c.system
    BY <2>1 DEF Texts
  <2> DEFINE spoken == {"user", "assistant", "tool"} \cup Reasoning
  <2>4. ASSUME NEW i \in DOMAIN c.chat
        PROVE  VisibleItem(c.chat[i])
                 = IF c.chat[i].role \in spoken THEN Texts(c.chat[i].parts) \ {Secret} ELSE {}
    <3>1. c.chat[i] \in Item
      BY <2>1
    <3> QED BY <3>1 DEF Item, VisibleItem, Reasoning, Texts
  <2>5. UNION {VisibleItem(c.chat[i]) : i \in DOMAIN c.chat} = By(spoken, c) \ {Secret}
    <3> DEFINE said == {j \in DOMAIN c.chat : c.chat[j].role \in spoken}
    <3>1. By(spoken, c) = UNION {Texts(c.chat[i].parts) : i \in said}
      BY DEF By
    <3> HIDE DEF spoken
    <3>2. \A t : t \in UNION {VisibleItem(c.chat[i]) : i \in DOMAIN c.chat}
                 <=> \E i \in said : t \in Texts(c.chat[i].parts) /\ t # Secret
      <4>1. ASSUME NEW i \in DOMAIN c.chat, NEW t
            PROVE  t \in VisibleItem(c.chat[i])
                     <=> i \in said /\ t \in Texts(c.chat[i].parts) /\ t # Secret
        <5>1. CASE c.chat[i].role \in spoken
          BY <2>4, <5>1
        <5>2. CASE c.chat[i].role \notin spoken
          BY <2>4, <5>2
        <5> QED BY <5>1, <5>2
      <4>2. said \subseteq DOMAIN c.chat
        OBVIOUS
      <4> HIDE DEF said
      <4> QED BY <4>1, <4>2
    <3>3. \A t : t \in By(spoken, c) \ {Secret}
                 <=> \E i \in said : t \in Texts(c.chat[i].parts) /\ t # Secret
      <4> HIDE DEF said
      <4> QED BY <3>1
    <3> HIDE DEF said
    <3> QED BY <3>2, <3>3
  <2>6. TextOf(c) = (Texts(c.system) \cup By(spoken, c)) \ {Secret}
    BY <2>2, <2>3, <2>5 DEF ResponsesPrompt
  <2>7. By({"item_reference"}, c) # {} => checked.partial
    BY <1>3 DEF By, ContextPartial, c
  <2> QED BY <1>3, <2>6, <2>7 DEF CheckSees, c
<1> QED BY <1>2, <1>3

(* Every image or document whose bytes are there is attached, or its loss  *)
(* is marked; and the policy view has what is not attached, but no bytes   *)
(* of media (ExtractAttachments, policyValue).                             *)
LEMMA MediaIsSeen ==
  ASSUME NEW blocks \in Seq(MediaBlock), blocks = req.media
  PROVE  MediaSeen(ExtractAttachments(blocks)) /\ ToolMediaSeen(MediaContent(blocks))
<1> DEFINE found == {i \in DOMAIN blocks : ~blocks[i].deep /\ IsAttachment(blocks[i])}
           deep == {i \in DOMAIN blocks : blocks[i].deep}
           got == {Attachment(blocks[i]) : i \in found} \cup {Marked("incomplete") : i \in deep}
<1>1. \/ ExtractAttachments(blocks) = {Marked("oversize")}
      \/ ExtractAttachments(blocks) = got
  BY DEF ExtractAttachments
<1>2. ASSUME NEW i \in DOMAIN blocks
      PROVE  LET b == blocks[i]
             IN  /\ b \in PolicyValue(blocks) => ~(b.encoded /\ IsMediaMIME(b))
                 /\ \/ Attached(b, got)
                    \/ b.deep /\ Marked("incomplete") \in got
                    \/ b \in PolicyValue(blocks) /\ Reference(b)
  <2> DEFINE b == blocks[i]
  <2>1. b \in MediaBlock
    OBVIOUS
  <2>2. b \in PolicyValue(blocks) => ~OmitsBytes(b)
    BY DEF PolicyValue
  <2>3. b.encoded /\ IsMediaMIME(b) => OmitsBytes(b)
    <3> HIDE DEF b
    <3> QED BY <2>1 DEF MediaBlock, OmitsBytes
  <2>4. CASE b.deep
    <3>1. Marked("incomplete") \in got
      BY <2>4
    <3> QED BY <2>2, <2>3, <2>4, <3>1
  <2>5. CASE ~b.deep /\ IsAttachment(b)
    <3>1. Attachment(b) \in got
      BY <2>5
    <3>2. Attachment(b).block = b /\ (b.encoded => Attachment(b).as = "resolved")
      BY DEF Attachment
    <3>3. Attached(b, got)
      <4> HIDE DEF got, b
      <4> QED BY <3>1, <3>2 DEF Attached
    <3> QED BY <2>2, <2>3, <3>3
  <2>6. CASE ~b.deep /\ ~IsAttachment(b)
    <3>1. ~OmitsBytes(b)
      <4> HIDE DEF b
      <4> QED BY <2>1, <2>6 DEF MediaBlock, IsAttachment, OmitsBytes
    <3>2. b \in PolicyValue(blocks)
      BY <2>6, <3>1 DEF PolicyValue
    <3>3. Reference(b)
      <4> HIDE DEF b
      <4> QED BY <2>1, <2>6 DEF IsAttachment, Reference, MediaBlock
    <3> QED BY <2>2, <2>3, <3>2, <3>3
  <2> QED BY <2>4, <2>5, <2>6
<1> HIDE DEF got
<1>3. MediaSeen(ExtractAttachments(blocks))
  BY <1>1, <1>2 DEF MediaSeen
<1>4. \A b \in PolicyValue(blocks) : ~(b.encoded /\ IsMediaMIME(b))
  <2> SUFFICES ASSUME NEW b \in PolicyValue(blocks) PROVE ~(b.encoded /\ IsMediaMIME(b))
    OBVIOUS
  <2>1. PICK i \in DOMAIN blocks : b = blocks[i]
    BY DEF PolicyValue
  <2> QED BY <1>2, <2>1
<1>5. /\ MediaContent(blocks).text = PolicyValue(blocks)
      /\ MediaContent(blocks).media = ExtractAttachments(blocks)
  BY DEF MediaContent
<1>6. ToolMediaSeen(MediaContent(blocks))
  BY <1>1, <1>2, <1>4, <1>5 DEF ToolMediaSeen
<1> QED BY <1>3, <1>6

(* The completer of a call reads the protocol that the call speaks.        *)
LEMMA OneProtocol ==
  ASSUME Chat, OwnProtocol
  PROVE  Completer(req.host, req.path) = Extractor(req.host, req.path)
BY DEF Chat, OwnProtocol, Completer, Extractor, Publisher

(* inspectResponse, responsesOutput: what passes post_llm is the answer.   *)
LEMMA ReplySeen ==
  ASSUME resp \in Response, Chat => OwnProtocol
  PROVE  AnswerSeen(Reply) /\ (Chat => Reply = Texts(Parts(resp.said)))
<1>1. CASE Chat
  <2>1. Reply = Texts(Parts(resp.said))
    BY <1>1, OneProtocol DEF Reply, Completion
  <2> QED BY <1>1, <2>1 DEF AnswerSeen
<1>2. CASE ~Chat
  <2> DEFINE heard == {i \in resp.said : i.role # "unsummarised"}
  <2>1. ASSUME NEW i \in heard PROVE Texts(i.parts) \ {Secret} \subseteq VisibleItem(i)
    <3>1. i.role # "item_reference"
      BY CallAssumption
    <3> QED BY <3>1 DEF VisibleItem
  <2>2. Reply = UNION {VisibleItem(i) : i \in heard}
    BY <1>2 DEF Reply, ResponsesOutput
  <2> HIDE DEF heard
  <2>3. Texts(Parts(heard)) \ {Secret} \subseteq Reply
    BY <2>1, <2>2 DEF Texts, Parts
  <2> QED BY <1>2, <2>3 DEF AnswerSeen, heard
<1> QED BY <1>1, <1>2

-----------------------------------------------------------------------------
(* The check that a call is owed before its body b leaves.                 *)
Owed(b) ==
  [body |-> b, text |-> TextOf(Content(b)), media |-> Attachments,
   partial |-> ~Chat /\ ContextPartial(Content(b))]
Armed == set.attack /\ req.body # "garbled" => body = Injected

CheckInv ==
  /\ req \in CallRequest /\ set \in Setting /\ resp \in Response
  /\ body \in {"given", Injected}
  /\ at \notin {"begin", "ungoverned"} => Governed
  /\ at \in {"begin", "read", "route", "check", "forward"} => contact = "none"
  /\ Governed /\ (at \in {"route", "check", "forward"} \/ contact # "none") => Armed
  /\ Governed /\ (at = "forward" \/ contact # "none") => CheckedInline \/ checked = Owed(body)
  /\ Governed /\ contact # "none" =>
       sent = body /\ contact = (IF Proxied THEN "proxy" ELSE "provider")
  /\ at # "returned" => passed = {}
  /\ at = "returned" /\ ~NothingToCheck => passed = {Reply}
  /\ at = "uninspected" => ~Inspected

(* What the properties ask of a call follows from its stations.            *)
LEMMA CheckedIsSeen == CheckInv => NothingUnchecked
<1> SUFFICES ASSUME CheckInv, Governed PROVE NothingUnchecked
  BY DEF NothingUnchecked
<1> USE DEF CheckInv
<1>1. Known
  BY DEF Governed, Known
<1>2. ASSUME contact = "provider" \/ (contact = "proxy" /\ Attachments # {})
      PROVE  /\ checked.body = sent /\ CheckSees(checked.text, Content(sent))
             /\ Chat /\ set.media /\ req.body # "garbled" => MediaSeen(checked.media)
  <2>1. contact # "none" /\ ~CheckedInline
    BY <1>2 DEF CheckedInline
  <2>2. sent = body /\ checked = Owed(body)
    BY <2>1
  <2>3. /\ checked.body = body /\ checked.text = TextOf(Content(body))
        /\ checked.media = Attachments
        /\ checked.partial = (~Chat /\ ContextPartial(Content(body)))
    BY <2>2 DEF Owed
  <2>4. CheckSees(checked.text, Content(sent))
    BY <1>1, <2>2, <2>3, TextSeen
  <2>5. ASSUME Chat, set.media, req.body # "garbled" PROVE MediaSeen(checked.media)
    <3>1. checked.media = ExtractAttachments(req.media)
      BY <2>3, <2>5 DEF Attachments
    <3>2. req.media \in Seq(MediaBlock)
      BY CallAssumption
    <3> QED BY <3>1, <3>2, MediaIsSeen
  <2> QED BY <2>2, <2>3, <2>4, <2>5
<1>3. contact # "none" /\ set.attack /\ req.body # "garbled" => sent = "injected"
  BY DEF Armed, Injected
<1>4. at \in {"denied", "failed"} => passed = {}
  OBVIOUS
<1>5. ASSUME at = "returned", Chat => OwnProtocol /\ Texts(Parts(resp.said)) # {}
      PROVE  \E text \in passed : AnswerSeen(text)
  <2>1. AnswerSeen(Reply) /\ (Chat => Reply = Texts(Parts(resp.said)))
    BY <1>5, ReplySeen
  <2>2. ~NothingToCheck
    BY <1>5, <2>1 DEF NothingToCheck
  <2> QED BY <1>5, <2>1, <2>2
<1>6. at = "uninspected" => ~set.inspect \/ ~Chat
  BY DEF Inspected
<1>7. ToolMediaSeen(MediaContent(req.media))
  BY CallAssumption, MediaIsSeen
<1> QED BY <1>2, <1>3, <1>4, <1>5, <1>6, <1>7 DEF NothingUnchecked

(* Nothing has been checked, sent or answered.                             *)
LEMMA CheckInitially == CallInit => CheckInv
BY DEF CallInit, CheckInv

(* What a call is owed does not change under it.                           *)
LEMMA Steady ==
  ASSUME req' = req, set' = set, resp' = resp
  PROVE  /\ Governed' <=> Governed
         /\ Proxied' <=> Proxied
         /\ CheckedInline' <=> CheckedInline
         /\ Inspected' <=> Inspected
         /\ NothingToCheck' <=> NothingToCheck
         /\ Reply' = Reply
         /\ \A b \in {"given", Injected} : Owed(b)' = Owed(b)
<1> USE DEF Chat
<1>1. Governed' <=> Governed
  BY DEF Governed
<1>2. Proxied' <=> Proxied
  BY DEF Proxied
<1>3. Attachments' = Attachments
  BY DEF Attachments
<1>4. CheckedInline' <=> CheckedInline
  BY <1>2, <1>3 DEF CheckedInline
<1>5. Inspected' <=> Inspected
  BY DEF Inspected
<1>6. Reply' = Reply
  BY DEF Reply
<1>7. NothingToCheck' <=> NothingToCheck
  BY <1>6 DEF NothingToCheck
<1>8. ASSUME NEW b \in {"given", Injected} PROVE Owed(b)' = Owed(b)
  BY <1>3 DEF Owed, TextOf, Content
<1> QED BY <1>1, <1>2, <1>4, <1>5, <1>6, <1>7, <1>8

(* RoundTrip and roundTripResponses, a step at a time.                     *)
LEMMA CheckPreserved == CheckInv /\ [CallNext]_modelVars => CheckInv'
<1> SUFFICES ASSUME CheckInv, [CallNext]_modelVars PROVE CheckInv'
  OBVIOUS
<1>0. req' = req /\ set' = set /\ resp' = resp
  BY DEF CallNext, modelVars, callVars, CallBegins, CallReads, CallRoutes, PreCheck, Forward,
         Answered, PostCheck, Cancel, ReadInner, ReadCaptures, ReadFinishes, ReadReturns,
         CloseBody, CloseFinishes, CloseReturns
<1>00. /\ Governed' <=> Governed
       /\ Proxied' <=> Proxied
       /\ CheckedInline' <=> CheckedInline
       /\ Inspected' <=> Inspected
       /\ NothingToCheck' <=> NothingToCheck
       /\ Reply' = Reply
       /\ \A b \in {"given", Injected} : Owed(b)' = Owed(b)
  BY <1>0, Steady
<1> USE <1>0, <1>00 DEF CheckInv, To, Armed
<1>1. CASE CallBegins
  BY <1>1 DEF CallBegins
<1>2. CASE CallReads
  BY <1>2 DEF CallReads
<1>3. CASE CallRoutes
  BY <1>3 DEF CallRoutes
<1>4. CASE PreCheck
  BY <1>4 DEF PreCheck, Owed
<1>5. CASE Forward
  BY <1>5 DEF Forward
<1>6. CASE Answered
  BY <1>6 DEF Answered
<1>7. CASE PostCheck
  BY <1>7 DEF PostCheck, Denied
<1>8. CASE UNCHANGED callVars
  BY <1>8 DEF callVars
<1>9. CASE Cancel \/ ReadInner \/ ReadCaptures \/ ReadFinishes \/ ReadReturns \/ CloseBody
             \/ CloseFinishes \/ CloseReturns \/ UNCHANGED modelVars
  BY <1>8, <1>9 DEF Cancel, ReadInner, ReadCaptures, ReadFinishes, ReadReturns, CloseBody,
                    CloseFinishes, CloseReturns, modelVars
<1> QED BY <1>1, <1>2, <1>3, <1>4, <1>5, <1>6, <1>7, <1>9 DEF CallNext

(* Whatever the request, the settings and the answer: nothing governed     *)
(* escapes its checks (RoundTrip, roundTripResponses, inspectResponse).    *)
THEOREM NothingEscapes == CallInit /\ [][CallNext]_modelVars => []NothingUnchecked
<1> QED BY CheckInitially, CheckPreserved, CheckedIsSeen, PTL

-----------------------------------------------------------------------------
(* What was said in the first n events of a stream.                        *)
Heard(events, n) == {i \in 1..n : events[i] \in {"text", "long"}}
Mused(events, n) == {i \in 1..n : events[i] = "thought"}

(* What an audit of a Responses stream heard of them.                      *)
Hears(a, events, n) ==
  /\ a.text \in {Heard(events, n), Heard(events, n) \cup Mused(events, n)}
  /\ ~a.incomplete => Mused(events, n) \subseteq a.text

(* The capture holds the first events of the stream.                       *)
LEMMA FirstEvents ==
  ASSUME NEW events \in Seq(Event), NEW n \in 0..Len(events)
  PROVE  LET seen == SubSeq(events, 1, n)
         IN  /\ seen \in Seq(Event) /\ DOMAIN seen = 1..n /\ Len(seen) = n
             /\ \A i \in 1..n : seen[i] = events[i]
OBVIOUS

(* sseCompletion: a stream whose lines fit is read whole.                  *)
LEMMA ChatHeard ==
  ASSUME NEW events \in Seq(Event), NEW n \in 0..Len(events), Chat, OwnProtocol,
         \A i \in DOMAIN events : events[i] # "long"
  PROVE  StreamCompletion(req.host, req.path, SubSeq(events, 1, n)) = Heard(events, n)
<1> DEFINE seen == SubSeq(events, 1, n)
<1>1. DOMAIN seen = 1..n /\ \A i \in 1..n : seen[i] = events[i]
  BY FirstEvents
<1>2. 1..n \subseteq DOMAIN events
  OBVIOUS
<1> HIDE DEF seen
<1>3. {i \in DOMAIN seen : seen[i] = "long"} = {}
  BY <1>1, <1>2
<1>4. Scanned(seen) = 1..n
  BY <1>1, <1>3 DEF Scanned
<1>5. StreamCompletion(req.host, req.path, seen) = SaidIn(seen, 1..n)
  BY <1>4, OneProtocol DEF StreamCompletion
<1>6. SaidIn(seen, 1..n) = Heard(events, n)
  BY <1>1 DEF SaidIn, Heard
<1> QED BY <1>5, <1>6 DEF seen

(* responsesSSE: whatever the last terminal event holds, all text is heard *)
(* and all of the reasoning, unless it says that it is incomplete.         *)
LEMMA ResponsesHeard ==
  ASSUME NEW events \in Seq(Event), NEW n \in 0..Len(events),
         \A i, j \in DOMAIN events :
           events[i] \in Terminal /\ i < j => events[j] \notin {"text", "long", "thought"}
  PROVE  LET sse == ResponsesSSE(SubSeq(events, 1, n))
         IN  /\ Hears(sse, events, n) /\ sse.incomplete \in BOOLEAN
             /\ ~sse.incomplete => \E i \in 1..n : events[i] = "completed"
<1> DEFINE seen == SubSeq(events, 1, n)
<1>1. DOMAIN seen = 1..n /\ \A i \in 1..n : seen[i] = events[i]
  BY FirstEvents
<1>2. 1..n \subseteq DOMAIN events
  OBVIOUS
<1> HIDE DEF seen
<1> DEFINE ends == Endings(seen)
           k == Max(ends)
           final == IF ends = {} THEN {} ELSE FinalOutput(seen, k)
           text == IF final # {} THEN final ELSE SaidIn(seen, DOMAIN seen)
           incomplete == ends = {} \/ seen[k] # "completed"
<1>3. ResponsesSSE(seen) = [text |-> text, incomplete |-> incomplete]
  BY DEF ResponsesSSE
<1>4. SaidIn(seen, DOMAIN seen) = Heard(events, n)
  BY <1>1 DEF SaidIn, Heard
<1>5. ends # {} => k \in 1..n /\ seen[k] \in Terminal
  <2>1. ends \subseteq 1..n /\ n \in Nat
    BY <1>1 DEF Endings
  <2>2. ends # {} => k \in ends
    <3> HIDE DEF ends
    <3> QED BY <2>1, Greatest
  <2> QED BY <1>1, <2>2 DEF Endings
<1> DEFINE all == Heard(events, n) \cup Mused(events, n)
<1>6. ends # {} => final = IF seen[k] \in {"failed", "bare"} THEN {} ELSE all
  <2> SUFFICES ASSUME ends # {}, seen[k] \notin {"failed", "bare"} PROVE final = all
    BY DEF FinalOutput
  <2> HIDE DEF k
  <2>1. final = SaidIn(seen, 1..k) \cup ThoughtIn(seen, 1..k)
    BY DEF FinalOutput
  <2>2. k \in 1..n /\ events[k] \in Terminal
    BY <1>1, <1>5
  <2>3. \A i \in 1..n : i > k => events[i] \notin {"text", "long", "thought"}
    BY <1>2, <2>2
  <2>4. \A i \in 1..n : i \in 1..k \/ i > k
    BY <2>2
  <2>5. 1..k \subseteq 1..n
    BY <2>2
  <2> HIDE DEF final, ends
  <2>6. SaidIn(seen, 1..k) = Heard(events, n)
    BY <1>1, <2>3, <2>4, <2>5 DEF SaidIn, Heard
  <2>7. ThoughtIn(seen, 1..k) = Mused(events, n)
    BY <1>1, <2>3, <2>4, <2>5 DEF ThoughtIn, Mused
  <2> QED BY <2>1, <2>6, <2>7
<1>7. /\ text \in {Heard(events, n), all}
      /\ ~incomplete => Mused(events, n) \subseteq text
  <2> HIDE DEF k, ends
  <2>1. ~incomplete => final = all
    BY <1>6
  <2>2. final \in {{}, all}
    BY <1>6
  <2> HIDE DEF final, incomplete
  <2> QED BY <1>4, <2>1, <2>2
<1>8. ~incomplete => \E i \in 1..n : events[i] = "completed"
  BY <1>1, <1>5
<1>9. incomplete \in BOOLEAN
  OBVIOUS
<1> HIDE DEF text, incomplete
<1> QED BY <1>3, <1>7, <1>8, <1>9 DEF seen, Hears

-----------------------------------------------------------------------------
(* The monitors.  A stream's capture runs behind what was delivered by the *)
(* chunk in hand, until it is cut; a Responses audit is whoever's once     *)
(* grants; a chat's capture is still once its body is closed.              *)
StreamType ==
  [delivered : Nat, captured : Nat, truncated : BOOLEAN, closed : BOOLEAN, overlapped : BOOLEAN]
AuditType ==
  [captured : Nat, truncated : BOOLEAN, reaches : BOOLEAN, text : SUBSET Int,
   incomplete : BOOLEAN]

MonitorType ==
  /\ req \in CallRequest /\ resp \in Response /\ cancelled \in BOOLEAN
  /\ stream \in StreamType /\ audits \in Seq(AuditType) /\ closes \in Nat
  /\ reader \in {"idle", "capture", "eof", "error", "auditing", "ended"}
  /\ closer \in {"idle", "finish", "auditing"}
  /\ once \in {"idle", "reader", "closer", "done"}

Resting ==
  /\ stream = NoStream /\ reader = "idle" /\ closer = "idle" /\ closes = 0
  /\ once = "idle" /\ audits = <<>>

Following ==
  /\ stream.captured <= stream.delivered /\ stream.delivered <= Len(resp.events)
  /\ reader = "capture" => stream.captured < stream.delivered
  /\ ~stream.truncated => stream.captured = IF reader = "capture" THEN stream.delivered - 1
                                            ELSE stream.delivered
  /\ closes > 0 => stream.closed
  /\ closer # "idle" => closes > 0

(* An audit of a Responses stream.                                         *)
Honest(a) ==
  /\ a.captured <= Len(resp.events) /\ a.reaches /\ Hears(a, resp.events, a.captured)
  /\ ~a.truncated /\ ~a.incomplete =>
       /\ a.captured = stream.delivered /\ a.captured = stream.captured
       /\ reader \in {"auditing", "ended"}
       /\ \E e \in 1..a.captured : resp.events[e] = "completed"

AuditedOnce ==
  /\ once = "idle" => audits = <<>>
  /\ once # "idle" => Len(audits) = 1
  /\ reader = "auditing" => once = "reader"
  /\ reader = "ended" => once = "done"
  /\ closer = "auditing" => once = "closer"
  /\ closes > 0 /\ closer = "idle" => once = "done"
  /\ \A i \in DOMAIN audits : Honest(audits[i])

AuditedAtClose ==
  /\ ~stream.truncated /\ closer # "auditing" /\ reader # "auditing"
  /\ ~stream.overlapped /\ closes > 0 => reader # "capture"
  /\ ~stream.overlapped /\ ScannedWhole =>
       /\ Len(audits) = IF Heard(resp.events, stream.captured) = {} THEN 0
                        ELSE IF closer = "finish" THEN closes - 1 ELSE closes
       /\ \A i \in DOMAIN audits : audits[i].text = Heard(resp.events, stream.delivered)

MonitorInv ==
  /\ MonitorType /\ Following
  /\ at # "streaming" => Resting
  /\ IF Chat THEN AuditedAtClose ELSE AuditedOnce

(* The fields of the stream, one by one.                                   *)
LEMMA StreamFields ==
  ASSUME MonitorType
  PROVE  /\ stream.delivered \in Nat /\ stream.captured \in Nat /\ stream.truncated \in BOOLEAN
         /\ stream.closed \in BOOLEAN /\ stream.overlapped \in BOOLEAN
BY DEF MonitorType, StreamType

(* What the properties ask of the audits follows.                          *)
LEMMA AuditsAreHonest == MonitorInv => AuditHonest
<1> SUFFICES ASSUME MonitorInv PROVE AuditHonest
  OBVIOUS
<1>1. \A n : Given(n) = Heard(resp.events, n)
  BY DEF Given, Heard
<1>0. \A n : Thoughts(n) = Mused(resp.events, n)
  BY DEF Thoughts, Mused
<1>2. resp.events \in Seq(Event)
  BY CallAssumption DEF MonitorInv, MonitorType
<1>3. CASE Chat
  <2>1. ASSUME ~stream.overlapped, ScannedWhole
        PROVE  /\ closer = "idle" /\ Given(stream.captured) # {} => Len(audits) = closes
               /\ \A i \in 1..Len(audits) : audits[i].text = Given(stream.delivered)
    <3>1. DOMAIN audits = 1..Len(audits)
      BY DEF MonitorInv, MonitorType
    <3> QED BY <1>1, <1>3, <2>1, <3>1 DEF MonitorInv, AuditedAtClose
  <2> QED BY <1>3, <2>1 DEF AuditHonest
<1>4. CASE ~Chat
  <2> USE DEF MonitorInv, AuditedOnce
  <2>1. Len(audits) <= 1
    BY <1>4 DEF MonitorType
  <2>2. reader = "ended" \/ (closes > 0 /\ closer = "idle") => Len(audits) = 1
    BY <1>4
  <2>3. ASSUME NEW i \in 1..Len(audits)
        PROVE  /\ audits[i].reaches
               /\ audits[i].text \in Hearings(audits[i].captured)
               /\ ~audits[i].incomplete => Thoughts(audits[i].captured) \subseteq audits[i].text
               /\ ~audits[i].truncated /\ ~audits[i].incomplete
                  => /\ audits[i].captured = stream.delivered
                     /\ \E e \in DOMAIN Captured : Captured[e] = "completed"
    <3>1. Honest(audits[i])
      BY <1>4 DEF MonitorType
    <3>2. stream.captured \in 0..Len(resp.events)
      BY <1>2, StreamFields DEF Following
    <3>3. DOMAIN Captured = 1..stream.captured
          /\ \A e \in 1..stream.captured : Captured[e] = resp.events[e]
      BY <1>2, <3>2, FirstEvents DEF Captured
    <3> QED BY <1>0, <1>1, <3>1, <3>3 DEF Honest, Hears, Hearings
  <2> QED BY <1>4, <2>1, <2>2, <2>3 DEF AuditHonest
<1> QED BY <1>3, <1>4

(* No stream, no audit.                                                    *)
LEMMA MonitorInitially == CallInit => MonitorInv
<1> SUFFICES ASSUME CallInit PROVE MonitorInv
  OBVIOUS
<1>1. MonitorType
  <2>1. NoStream \in StreamType
    BY DEF NoStream, StreamType
  <2>2. <<>> \in Seq(AuditType)
    OBVIOUS
  <2> QED BY <2>1, <2>2 DEF CallInit, MonitorType
<1>2. Resting
  BY DEF CallInit, Resting
<1>3. resp.events \in Seq(Event) /\ resp \in Response
  BY CallAssumption DEF CallInit
<1>4. Following
  BY <1>2, <1>3 DEF Resting, Following, NoStream
<1>5. AuditedOnce
  BY <1>2 DEF Resting, AuditedOnce
<1>6. AuditedAtClose
  BY <1>2 DEF Resting, AuditedAtClose, NoStream
<1> QED BY <1>1, <1>2, <1>4, <1>5, <1>6 DEF MonitorInv

(* A scan is a set of places.                                              *)
LEMMA ScanIsInt ==
  ASSUME NEW host, NEW path, NEW events \in Seq(Event)
  PROVE  StreamCompletion(host, path, events) \subseteq Int
<1>1. Scanned(events) \subseteq Int
  BY DEF Scanned
<1> QED BY <1>1 DEF StreamCompletion, SaidIn

(* done: one more audit, and what it tells.                                *)
LEMMA AuditIs ==
  ASSUME MonitorInv, NEW interrupted \in BOOLEAN, Audit(interrupted)
  PROVE  \E a \in AuditType :
           /\ audits' = Append(audits, a)
           /\ a.captured = stream.captured /\ a.truncated = stream.truncated
           /\ Chat /\ ScannedWhole => a.text = Heard(resp.events, stream.captured)
           /\ ~Chat => /\ a.reaches /\ Hears(a, resp.events, stream.captured)
                       /\ interrupted => a.incomplete
                       /\ ~a.incomplete => \E e \in 1..stream.captured :
                                             resp.events[e] = "completed"
<1> DEFINE n == stream.captured
           sse == ResponsesSSE(Captured)
           text == IF Chat THEN StreamCompletion(req.host, req.path, Captured) ELSE sse.text
           incomplete == ~Chat /\ (interrupted \/ sse.incomplete)
           a == [captured |-> n, truncated |-> stream.truncated, reaches |-> Reaches,
                 text |-> text, incomplete |-> incomplete]
<1>1. audits' = Append(audits, a)
  BY DEF Audit
<1>2. resp \in Response /\ resp.events \in Seq(Event) /\ n \in 0..Len(resp.events)
  BY CallAssumption, StreamFields DEF MonitorInv, MonitorType, Following
<1>3. Captured = SubSeq(resp.events, 1, n) /\ Captured \in Seq(Event)
  BY <1>2, FirstEvents DEF Captured
<1>4. ~Chat => /\ Hears(sse, resp.events, n) /\ sse.incomplete \in BOOLEAN
               /\ ~sse.incomplete => \E e \in 1..n : resp.events[e] = "completed"
  BY <1>2, <1>3, EndingAssumption, ResponsesHeard
<1>5. Chat /\ ScannedWhole => text = Heard(resp.events, n)
  BY <1>2, <1>3, ChatHeard DEF ScannedWhole
<1> HIDE DEF sse
<1>6. text \in SUBSET Int
  <2>1. CASE Chat
    BY <1>3, <2>1, ScanIsInt
  <2>2. CASE ~Chat
    <3>1. Heard(resp.events, n) \subseteq Int /\ Mused(resp.events, n) \subseteq Int
      BY DEF Heard, Mused
    <3> QED BY <1>4, <2>2, <3>1 DEF Hears
  <2> QED BY <2>1, <2>2
<1>7. ~Chat => Reaches
  BY DEF Reaches
<1>8. n \in Nat /\ stream.truncated \in BOOLEAN /\ Reaches \in BOOLEAN /\ incomplete \in BOOLEAN
  BY <1>4, StreamFields DEF MonitorInv, Reaches
<1>9. ~Chat => Hears(a, resp.events, n)
  BY <1>4 DEF Hears
<1>10. ~Chat => /\ interrupted => incomplete
                /\ ~incomplete => \E e \in 1..n : resp.events[e] = "completed"
  BY <1>4
<1> HIDE DEF text, incomplete
<1>11. a \in AuditType
  BY <1>6, <1>8 DEF AuditType
<1> QED BY <1>1, <1>5, <1>7, <1>9, <1>10, <1>11

-----------------------------------------------------------------------------
(* One more audit.                                                         *)
LEMMA OneMore ==
  ASSUME NEW s \in Seq(AuditType), NEW a \in AuditType
  PROVE  /\ Append(s, a) \in Seq(AuditType) /\ Len(Append(s, a)) = Len(s) + 1
         /\ DOMAIN Append(s, a) = 1..Len(s) + 1 /\ Append(s, a)[Len(s) + 1] = a
         /\ \A i \in DOMAIN s : i \in 1..Len(s) /\ Append(s, a)[i] = s[i]
         /\ \A i \in 1..Len(s) + 1 : i = Len(s) + 1 \/ i \in DOMAIN s
OBVIOUS

(* The same call: only its monitors move.                                  *)
LEMMA SameCall ==
  ASSUME req' = req, resp' = resp
  PROVE  (Chat' <=> Chat) /\ (ScannedWhole' <=> ScannedWhole)
BY DEF Chat, ScannedWhole, OwnProtocol

(* A body is only read or closed while it streams.                         *)
LEMMA Streaming ==
  ASSUME MonitorInv, reader # "idle" \/ closer # "idle"
  PROVE  at = "streaming"
BY DEF MonitorInv, Resting

(* Before the stream, nothing of it moves.                                 *)
LEMMA CallKeepsMonitor ==
  ASSUME MonitorInv, req' = req, resp' = resp, cancelled' \in BOOLEAN, UNCHANGED bodyVars,
         at # "streaming" \/ at' = at
  PROVE  MonitorInv'
<1> USE DEF MonitorInv, bodyVars
<1>1. MonitorType'
  BY DEF MonitorType
<1>2. Following'
  BY DEF Following
<1>3. Resting => Resting'
  BY DEF Resting
<1>4. AuditedOnce => AuditedOnce'
  BY DEF AuditedOnce, Honest
<1>5. AuditedAtClose => AuditedAtClose'
  BY SameCall DEF AuditedAtClose
<1> QED BY <1>1, <1>2, <1>3, <1>4, <1>5, SameCall

(* Read of the inner body.                                                 *)
LEMMA ReadInnerKeeps == MonitorInv /\ ReadInner => MonitorInv'
<1> SUFFICES ASSUME MonitorInv, ReadInner PROVE MonitorInv'
  OBVIOUS
<1> USE DEF MonitorInv
<1>1. /\ at = "streaming" /\ at' = at /\ req' = req /\ resp' = resp /\ reader = "idle"
      /\ UNCHANGED <<closer, closes, once, audits, cancelled>>
  BY DEF ReadInner, callVars
<1>2. resp.events \in Seq(Event) /\ Len(resp.events) \in Nat
  BY CallAssumption DEF MonitorType
<1>3. CASE /\ stream.delivered < Len(resp.events) /\ ~stream.closed /\ reader' = "capture"
           /\ stream' = [stream EXCEPT !.delivered = @ + 1,
                                       !.overlapped = @ \/ closer # "idle"]
  <2> DEFINE o == stream.overlapped \/ closer # "idle"
  <2>1. stream \in StreamType /\ o \in BOOLEAN /\ (~o => ~stream.overlapped)
    BY StreamFields DEF MonitorType
  <2>2. stream' = [stream EXCEPT !.delivered = stream.delivered + 1, !.overlapped = o]
    BY <1>3
  <2> HIDE DEF o
  <2>3. /\ stream' \in StreamType /\ stream'.delivered = stream.delivered + 1
        /\ stream'.captured = stream.captured /\ stream'.truncated = stream.truncated
        /\ stream'.closed = stream.closed /\ stream'.overlapped = o
    <3>1. stream.delivered + 1 \in Nat
      BY StreamFields
    <3>2. CASE o = TRUE
      BY <2>1, <2>2, <3>1, <3>2 DEF StreamType
    <3>3. CASE o = FALSE
      BY <2>1, <2>2, <3>1, <3>3 DEF StreamType
    <3> QED BY <2>1, <3>2, <3>3
  <2>4. closes = 0 /\ closer = "idle"
    BY <1>3 DEF Following, MonitorType
  <2>5. MonitorType'
    BY <1>1, <1>3, <2>3 DEF MonitorType
  <2>6. Following'
    BY <1>1, <1>2, <1>3, <2>3, <2>4, StreamFields DEF Following
  <2>7. ~Chat => AuditedOnce'
    BY <1>1, <1>3, <2>4 DEF AuditedOnce, Honest
  <2>8. Chat => AuditedAtClose'
    <3> SUFFICES ASSUME Chat, ~o => ~stream.overlapped PROVE AuditedAtClose'
      BY <2>1
    <3>1. ~stream.overlapped /\ ScannedWhole => Len(audits) = 0 /\ DOMAIN audits = {}
      BY <2>4 DEF AuditedAtClose, MonitorType
    <3> QED BY <1>1, <1>3, <2>3, <2>4, <3>1, SameCall DEF AuditedAtClose
  <2> QED BY <1>1, <2>5, <2>6, <2>7, <2>8, SameCall
<1>4. CASE reader' \in {"eof", "error"} /\ UNCHANGED stream
  <2>1. MonitorType'
    BY <1>1, <1>4 DEF MonitorType
  <2>2. Following'
    BY <1>1, <1>4 DEF Following
  <2>3. ~Chat => AuditedOnce'
    BY <1>1, <1>4 DEF AuditedOnce, Honest
  <2>4. Chat => AuditedAtClose'
    BY <1>1, <1>4, SameCall DEF AuditedAtClose
  <2> QED BY <1>1, <2>1, <2>2, <2>3, <2>4, SameCall
<1> QED BY <1>3, <1>4 DEF ReadInner

(* What was read is captured, or the capture is cut.                       *)
LEMMA ReadCapturesKeeps == MonitorInv /\ ReadCaptures => MonitorInv'
<1> SUFFICES ASSUME MonitorInv, ReadCaptures PROVE MonitorInv'
  OBVIOUS
<1> USE DEF MonitorInv
<1>1. /\ at = "streaming" /\ at' = at /\ req' = req /\ resp' = resp
      /\ reader = "capture" /\ reader' = "idle"
      /\ UNCHANGED <<closer, closes, once, audits, cancelled>>
  BY Streaming DEF ReadCaptures, callVars
<1>2. stream \in StreamType
  BY DEF MonitorType
<1>3. /\ stream' \in StreamType /\ stream'.delivered = stream.delivered
      /\ stream'.closed = stream.closed /\ stream'.overlapped = stream.overlapped
      /\ \/ /\ stream'.captured = stream.captured /\ stream'.truncated = TRUE /\ ~Chat
         \/ stream'.captured = stream.captured + 1 /\ stream'.truncated = stream.truncated
  <2>1. CASE ~Chat /\ stream.captured >= CaptureLimit
    <3>1. stream' = [stream EXCEPT !.truncated = TRUE]
      BY <2>1 DEF ReadCaptures, Truncates
    <3> QED BY <1>2, <2>1, <3>1 DEF StreamType
  <2>2. CASE ~(~Chat /\ stream.captured >= CaptureLimit)
    <3>1. stream' = [stream EXCEPT !.captured = stream.captured + 1]
      BY <2>2 DEF ReadCaptures
    <3> QED BY <1>2, <3>1 DEF StreamType
  <2> QED BY <2>1, <2>2
<1>4. MonitorType'
  BY <1>1, <1>3 DEF MonitorType
<1>5. Following'
  BY <1>1, <1>3, StreamFields DEF Following
<1>6. ~Chat => AuditedOnce'
  BY <1>1, <1>3 DEF AuditedOnce, Honest
<1>7. ASSUME Chat PROVE AuditedAtClose'
  <2>1. ~stream.overlapped => closes = 0 /\ closer = "idle"
    BY <1>1, <1>7 DEF AuditedAtClose, Following, MonitorType
  <2>2. ~stream.overlapped /\ ScannedWhole => Len(audits) = 0 /\ DOMAIN audits = {}
    BY <1>7, <2>1 DEF AuditedAtClose, MonitorType
  <2> QED BY <1>1, <1>3, <1>7, <2>1, <2>2, SameCall DEF AuditedAtClose
<1> QED BY <1>1, <1>4, <1>5, <1>6, <1>7, SameCall

(* finish, by the reader.                                                  *)
LEMMA ReadFinishesKeeps == MonitorInv /\ ReadFinishes => MonitorInv'
<1> SUFFICES ASSUME MonitorInv, ReadFinishes PROVE MonitorInv'
  OBVIOUS
<1> USE DEF MonitorInv
<1>1. /\ at = "streaming" /\ at' = at /\ req' = req /\ resp' = resp
      /\ reader \in {"eof", "error"} /\ UNCHANGED <<stream, closer, closes, cancelled>>
  BY Streaming DEF ReadFinishes, callVars
<1>2. CASE ~Chat /\ First
  <2>1. /\ Audit(reader = "error") /\ once = "idle" /\ once' = "reader" /\ reader' = "auditing"
    BY <1>2 DEF ReadFinishes, First
  <2>2. PICK a \in AuditType :
          /\ audits' = Append(audits, a)
          /\ a.captured = stream.captured /\ a.truncated = stream.truncated
          /\ a.reaches /\ Hears(a, resp.events, stream.captured)
          /\ ~a.incomplete => \E e \in 1..stream.captured : resp.events[e] = "completed"
    <3>1. (reader = "error") \in BOOLEAN
      OBVIOUS
    <3> QED BY <1>2, <2>1, <3>1, AuditIs
  <2>3. audits = <<>> /\ audits \in Seq(AuditType) /\ Len(audits) = 0
    BY <1>2, <2>1 DEF AuditedOnce
  <2>4. audits' \in Seq(AuditType) /\ Len(audits') = 1 /\ \A i \in DOMAIN audits' : audits'[i] = a
    BY <2>2, <2>3, OneMore
  <2>5. MonitorType'
    BY <1>1, <2>1, <2>4 DEF MonitorType
  <2>6. Following'
    BY <1>1, <2>1 DEF Following
  <2>7. Honest(a)'
    <3>1. stream.captured <= Len(resp.events)
          /\ (~stream.truncated => stream.captured = stream.delivered)
      BY <1>1, StreamFields DEF Following, MonitorType
    <3>2. ~a.truncated => ~stream.truncated
      BY <2>2
    <3> HIDE DEF MonitorInv
    <3> QED BY <1>1, <2>1, <2>2, <3>1, <3>2 DEF Honest
  <2>8. AuditedOnce'
    BY <1>1, <1>2, <2>1, <2>4, <2>7 DEF AuditedOnce
  <2> QED BY <1>1, <1>2, <2>5, <2>6, <2>8, SameCall
<1>3. CASE ~(~Chat /\ First)
  <2>1. /\ Chat \/ once = "done"
        /\ reader' = "ended" /\ UNCHANGED <<audits, once>>
    BY <1>3 DEF ReadFinishes
  <2>2. MonitorType'
    BY <1>1, <2>1 DEF MonitorType
  <2>3. Following'
    BY <1>1, <2>1 DEF Following
  <2>4. ~Chat => AuditedOnce'
    BY <1>1, <2>1 DEF AuditedOnce, Honest
  <2>5. Chat => AuditedAtClose'
    BY <1>1, <2>1, SameCall DEF AuditedAtClose
  <2> QED BY <1>1, <2>2, <2>3, <2>4, <2>5, SameCall
<1> QED BY <1>2, <1>3

(* once is done: by the reader, or by Close.                               *)
LEMMA ReturnsKeep == MonitorInv /\ (ReadReturns \/ CloseReturns) => MonitorInv'
<1> SUFFICES ASSUME MonitorInv, ReadReturns \/ CloseReturns PROVE MonitorInv'
  OBVIOUS
<1> USE DEF MonitorInv
<1>1. /\ at = "streaming" /\ at' = at /\ req' = req /\ resp' = resp /\ once' = "done"
      /\ UNCHANGED <<stream, closes, audits, cancelled>>
      /\ \/ reader = "auditing" /\ reader' = "ended" /\ UNCHANGED closer
         \/ closer = "auditing" /\ closer' = "idle" /\ UNCHANGED reader
  BY Streaming DEF ReadReturns, CloseReturns, callVars
<1>2. ~Chat
  BY <1>1 DEF AuditedAtClose
<1>3. MonitorType'
  BY <1>1 DEF MonitorType
<1>4. Following'
  BY <1>1 DEF Following
<1>5. AuditedOnce'
  BY <1>1, <1>2 DEF AuditedOnce, Honest
<1> QED BY <1>1, <1>2, <1>3, <1>4, <1>5, SameCall

(* Close of the inner body.                                                *)
LEMMA CloseBodyKeeps == MonitorInv /\ CloseBody => MonitorInv'
<1> SUFFICES ASSUME MonitorInv, CloseBody PROVE MonitorInv'
  OBVIOUS
<1> USE DEF MonitorInv
<1> DEFINE o == stream.overlapped \/ reader = "capture"
<1>1. /\ at = "streaming" /\ at' = at /\ req' = req /\ resp' = resp /\ closer = "idle"
      /\ closes' = closes + 1 /\ closer' = (IF Chat \/ closes = 0 THEN "finish" ELSE "idle")
      /\ stream' = [stream EXCEPT !.closed = TRUE, !.overlapped = o]
      /\ UNCHANGED <<reader, once, audits, cancelled>>
  BY DEF CloseBody, callVars
<1>2. stream \in StreamType /\ o \in BOOLEAN /\ (~o => ~stream.overlapped /\ reader # "capture")
  BY StreamFields DEF MonitorType
<1> HIDE DEF o
<1>3. /\ stream' \in StreamType /\ stream'.delivered = stream.delivered
      /\ stream'.captured = stream.captured /\ stream'.truncated = stream.truncated
      /\ stream'.closed = TRUE /\ stream'.overlapped = o
  BY <1>1, <1>2 DEF StreamType
<1>4. closes \in Nat /\ closes' \in Nat /\ closes' > 0 /\ closes' - 1 = closes
  BY <1>1 DEF MonitorType
<1>5. MonitorType'
  BY <1>1, <1>3, <1>4 DEF MonitorType
<1>6. Following'
  BY <1>1, <1>3, <1>4 DEF Following
<1>7. ~Chat => AuditedOnce'
  BY <1>1, <1>3, <1>4 DEF AuditedOnce, Honest
<1>8. Chat => AuditedAtClose'
  BY <1>1, <1>2, <1>3, <1>4, SameCall DEF AuditedAtClose
<1> QED BY <1>1, <1>5, <1>6, <1>7, <1>8, SameCall

(* finish, by Close.                                                       *)
LEMMA CloseFinishesKeeps == MonitorInv /\ CloseFinishes => MonitorInv'
<1> SUFFICES ASSUME MonitorInv, CloseFinishes PROVE MonitorInv'
  OBVIOUS
<1> USE DEF MonitorInv
<1>1. /\ at = "streaming" /\ at' = at /\ req' = req /\ resp' = resp /\ closer = "finish"
      /\ UNCHANGED <<stream, reader, closes, cancelled>>
  BY Streaming DEF CloseFinishes, callVars
<1>2. closes \in Nat /\ closes > 0 /\ audits \in Seq(AuditType) /\ Len(audits) \in Nat
      /\ DOMAIN audits = 1..Len(audits)
  BY <1>1 DEF MonitorType, Following
<1>3. CASE Chat /\ ChatSays
  <2>1. Audit(FALSE) /\ closer' = "idle" /\ UNCHANGED once
    BY <1>3 DEF CloseFinishes
  <2>2. PICK a \in AuditType :
          /\ audits' = Append(audits, a)
          /\ ScannedWhole => a.text = Heard(resp.events, stream.captured)
    <3>1. FALSE \in BOOLEAN
      OBVIOUS
    <3> QED BY <1>3, <2>1, <3>1, AuditIs
  <2>3. /\ audits' \in Seq(AuditType) /\ Len(audits') = Len(audits) + 1
        /\ \A i \in DOMAIN audits' : audits'[i] = a \/ (i \in DOMAIN audits /\ audits'[i] = audits[i])
    BY <1>2, <2>2, OneMore
  <2>4. MonitorType'
    BY <1>1, <2>1, <2>3 DEF MonitorType
  <2>5. Following'
    BY <1>1, <2>1 DEF Following
  <2>6. ScannedWhole => Heard(resp.events, stream.captured) # {}
    <3>1. resp.events \in Seq(Event) /\ stream.captured \in 0..Len(resp.events)
      BY CallAssumption, StreamFields DEF MonitorType, Following
    <3> QED BY <1>3, <3>1, ChatHeard DEF ChatSays, Captured, ScannedWhole
  <2>7. ~stream.overlapped => stream.captured = stream.delivered
    BY <1>1, <1>2, <1>3 DEF AuditedAtClose, Following
  <2>8. AuditedAtClose'
    BY <1>1, <1>2, <1>3, <2>1, <2>2, <2>3, <2>6, <2>7, SameCall DEF AuditedAtClose
  <2> QED BY <1>1, <1>3, <2>4, <2>5, <2>8, SameCall
<1>4. CASE Chat /\ ~ChatSays
  <2>1. closer' = "idle" /\ UNCHANGED <<once, audits>>
    BY <1>4 DEF CloseFinishes
  <2>2. MonitorType'
    BY <1>1, <2>1 DEF MonitorType
  <2>3. Following'
    BY <1>1, <2>1 DEF Following
  <2>4. ScannedWhole => Heard(resp.events, stream.captured) = {}
    <3>1. resp.events \in Seq(Event) /\ stream.captured \in 0..Len(resp.events)
      BY CallAssumption, StreamFields DEF MonitorType, Following
    <3> QED BY <1>4, <3>1, ChatHeard DEF ChatSays, Captured, ScannedWhole
  <2>5. AuditedAtClose'
    BY <1>1, <1>4, <2>1, <2>4, SameCall DEF AuditedAtClose
  <2> QED BY <1>1, <1>4, <2>2, <2>3, <2>5, SameCall
<1>5. CASE ~Chat /\ First
  <2>1. /\ Audit(TRUE) /\ once = "idle" /\ once' = "closer" /\ closer' = "auditing"
    BY <1>5 DEF CloseFinishes, First
  <2>2. PICK a \in AuditType :
          /\ audits' = Append(audits, a) /\ a.captured = stream.captured /\ a.incomplete
          /\ a.reaches /\ Hears(a, resp.events, stream.captured)
    <3>1. TRUE \in BOOLEAN
      OBVIOUS
    <3> QED BY <1>5, <2>1, <3>1, AuditIs
  <2>3. audits = <<>> /\ Len(audits) = 0
    BY <1>5, <2>1 DEF AuditedOnce
  <2>4. audits' \in Seq(AuditType) /\ Len(audits') = 1 /\ \A i \in DOMAIN audits' : audits'[i] = a
    BY <1>2, <2>2, <2>3, OneMore
  <2>5. MonitorType'
    BY <1>1, <2>1, <2>4 DEF MonitorType
  <2>6. Following'
    BY <1>1, <1>2, <2>1 DEF Following
  <2>7. Honest(a)'
    BY <1>1, <2>1, <2>2, StreamFields DEF Following, Honest, MonitorType
  <2>8. AuditedOnce'
    BY <1>1, <1>5, <2>1, <2>4, <2>7 DEF AuditedOnce
  <2> QED BY <1>1, <1>5, <2>5, <2>6, <2>8, SameCall
<1>6. CASE ~Chat /\ ~First
  <2>1. once = "done" /\ closer' = "idle" /\ UNCHANGED <<audits, once>>
    BY <1>6 DEF CloseFinishes
  <2>2. MonitorType'
    BY <1>1, <2>1 DEF MonitorType
  <2>3. Following'
    BY <1>1, <2>1 DEF Following
  <2>4. AuditedOnce'
    BY <1>1, <1>6, <2>1 DEF AuditedOnce, Honest
  <2> QED BY <1>1, <1>6, <2>2, <2>3, <2>4, SameCall
<1> QED BY <1>3, <1>4, <1>5, <1>6

(* Every step of a call, and of its monitors.                              *)
LEMMA MonitorPreserved == MonitorInv /\ [CallNext]_modelVars => MonitorInv'
<1> SUFFICES ASSUME MonitorInv, [CallNext]_modelVars PROVE MonitorInv'
  OBVIOUS
<1>1. CASE CallBegins \/ CallReads \/ CallRoutes \/ PreCheck \/ Forward \/ Answered \/ PostCheck
  <2>1. /\ req' = req /\ resp' = resp /\ UNCHANGED bodyVars /\ cancelled' = cancelled
        /\ at # "streaming"
    BY <1>1 DEF CallBegins, CallReads, CallRoutes, PreCheck, Forward, Answered, PostCheck
  <2>2. cancelled' \in BOOLEAN
    BY <2>1 DEF MonitorInv, MonitorType
  <2> QED BY <2>1, <2>2, CallKeepsMonitor
<1>2. CASE Cancel \/ UNCHANGED modelVars
  <2>1. /\ req' = req /\ resp' = resp /\ at' = at /\ UNCHANGED bodyVars
        /\ cancelled' \in {TRUE, cancelled}
    BY <1>2 DEF Cancel, modelVars, callVars
  <2>2. cancelled' \in BOOLEAN
    BY <2>1 DEF MonitorInv, MonitorType
  <2> QED BY <2>1, <2>2, CallKeepsMonitor
<1> QED BY <1>1, <1>2, ReadInnerKeeps, ReadCapturesKeeps, ReadFinishesKeeps, ReturnsKeep,
           CloseBodyKeeps, CloseFinishesKeeps DEF CallNext

(* Whatever the request, the stream, the limit of the capture, and how     *)
(* Read, Close and a cancellation interleave: streams are audited honestly *)
(* (responsesMonitor, streamMonitor).                                      *)
THEOREM StreamsAudited == CallInit /\ [][CallNext]_modelVars => []AuditHonest
<1> QED BY MonitorInitially, MonitorPreserved, AuditsAreHonest, PTL

-----------------------------------------------------------------------------
(* The profile                                                             *)

Component == {e.name : e \in Observation}

Learnt ==
  [tools : SUBSET ToolName, manifested : SUBSET ToolName, dynamic : SUBSET ToolName,
   ran : [ToolName -> Nat], obs : SUBSET ({"retriever", "memory"} \X Component), calls : Nat,
   models : SUBSET Model, declared : SUBSET ToolName, llmCalls : Nat, prompt : BOOLEAN,
   dirty : BOOLEAN, ready : BOOLEAN]

ReadyIff(p) == p.ready <=> p.llmCalls > 0 \/ p.tools # {}

(* A new profile knows nothing, and is not ready.                          *)
LEMMA NewIsLearnt == NewProfile \in Learnt /\ ReadyIff(NewProfile)
BY DEF Learnt, ReadyIff, NewProfile

(* The fields of a profile, one by one.                                    *)
LEMMA LearntFields ==
  ASSUME NEW p \in Learnt
  PROVE  /\ p.tools \in SUBSET ToolName /\ p.manifested \in SUBSET ToolName
         /\ p.dynamic \in SUBSET ToolName /\ p.ran \in [ToolName -> Nat]
         /\ p.obs \in SUBSET ({"retriever", "memory"} \X Component) /\ p.calls \in Nat
         /\ p.models \in SUBSET Model /\ p.declared \in SUBSET ToolName
         /\ p.llmCalls \in Nat /\ p.prompt \in BOOLEAN /\ p.dirty \in BOOLEAN
         /\ p.ready \in BOOLEAN
BY DEF Learnt

(* Whatever is made ready is marked, and ready if there is a reason.       *)
LEMMA ReadyLearns ==
  ASSUME NEW p \in Learnt, p.ready => p.llmCalls > 0 \/ p.tools # {}
  PROVE  Ready(p) \in Learnt /\ ReadyIff(Ready(p)) /\ Ready(p).dirty
<1>1. Ready(p) \in Learnt
  BY DEF Ready, Learnt
<1>2. /\ Ready(p).llmCalls = p.llmCalls /\ Ready(p).tools = p.tools
      /\ Ready(p).ready <=> p.ready \/ p.llmCalls >= 1 \/ p.tools # {}
  BY DEF Ready, Learnt
<1>3. Ready(p).dirty
  BY DEF Ready, Learnt
<1>4. ReadyIff(Ready(p))
  BY <1>2, LearntFields DEF ReadyIff
<1> QED
  BY <1>1, <1>3, <1>4

(* foldEvent: a profile learns, and what it learns is marked.              *)
LEMMA FoldedLearns ==
  ASSUME NEW p \in Learnt, NEW e \in Observation, ReadyIff(p)
  PROVE  Folded(p, e) \in Learnt /\ ReadyIff(Folded(p, e)) /\ Folded(p, e).dirty
<1> USE LearntFields
<1>1. CASE e.type = "llm"
  <2> DEFINE models == p.models \cup e.models
             prompt == p.prompt \/ e.text
             q == [p EXCEPT !.llmCalls = @ + 1, !.models = models, !.prompt = prompt]
  <2>1. models \in SUBSET Model /\ prompt \in BOOLEAN
    BY <1>1, ProfileAssumption
  <2>2. q \in Learnt /\ q.llmCalls > 0
    <3>1. ASSUME NEW v \in BOOLEAN, NEW w \in SUBSET Model, NEW n \in Nat
          PROVE  [p EXCEPT !.llmCalls = n, !.models = w, !.prompt = v] \in Learnt
      BY DEF Learnt
    <3>2. p.llmCalls + 1 \in Nat /\ p.llmCalls + 1 > 0
      OBVIOUS
    <3>3. q.llmCalls = p.llmCalls + 1
      BY DEF Learnt
    <3>4. q \in Learnt
      <4> HIDE DEF models, prompt
      <4> QED BY <2>1, <3>1, <3>2
    <3> QED BY <3>2, <3>3, <3>4
  <2>3. Ready(q) \in Learnt /\ ReadyIff(Ready(q)) /\ Ready(q).dirty
    <3> HIDE DEF q
    <3> QED BY <2>2, ReadyLearns
  <2> QED
    BY <1>1, <2>3 DEF Folded
<1>2. CASE e.type = "tool"
  <2> DEFINE tools == p.tools \cup {e.tool}
             ran == [p.ran EXCEPT ![e.tool] = @ + 1]
             dynamic == IF e.tool \in p.tools THEN p.dynamic ELSE p.dynamic \cup {e.tool}
             q == [p EXCEPT !.tools = tools, !.ran = ran, !.dynamic = dynamic]
             f == [p EXCEPT !.tools = @ \cup {e.tool}, !.ran[e.tool] = @ + 1,
                         !.dynamic = IF e.tool \in p.tools THEN @ ELSE @ \cup {e.tool}]
  <2>1. e.tool \in ToolName
    BY <1>2, ProfileAssumption
  <2>2. /\ tools \in SUBSET ToolName /\ tools # {} /\ ran \in [ToolName -> Nat]
        /\ dynamic \in SUBSET ToolName
    BY <2>1
  <2>3. q \in Learnt /\ q.tools # {}
    <3> HIDE DEF tools, ran, dynamic
    <3> QED BY <2>2 DEF Learnt
  <2>4. Ready(q) \in Learnt /\ ReadyIff(Ready(q)) /\ Ready(q).dirty
    <3> HIDE DEF q
    <3> QED BY <2>3, ReadyLearns
  <2>5. Folded(p, e) = Ready(q)
    BY <1>2 DEF Folded, Learnt
  <2> QED
    BY <2>4, <2>5
<1>3. CASE e.type \in {"retriever", "memory"}
  <2> DEFINE obs == p.obs \cup {<<e.type, e.name>>}
             q == [p EXCEPT !.obs = obs, !.calls = @ + 1]
  <2>1. obs \in SUBSET ({"retriever", "memory"} \X Component)
    BY <1>3 DEF Component
  <2>2. q \in Learnt /\ q.llmCalls = p.llmCalls /\ (q.ready <=> p.ready) /\ q.tools = p.tools
    <3> HIDE DEF obs
    <3>1. q \in Learnt
      <4>1. p.calls + 1 \in Nat
        OBVIOUS
      <4>2. ASSUME NEW n \in Nat
            PROVE  [p EXCEPT !.obs = obs, !.calls = n] \in Learnt
        BY <2>1 DEF Learnt
      <4> QED BY <4>1, <4>2
    <3>2. q.llmCalls = p.llmCalls /\ q.tools = p.tools
      BY DEF Learnt
    <3>3. q.ready <=> p.ready
      BY DEF Learnt
    <3> QED BY <3>1, <3>2, <3>3
  <2>3. Ready(q) \in Learnt /\ ReadyIff(Ready(q)) /\ Ready(q).dirty
    <3> HIDE DEF q
    <3> QED BY <2>2, ReadyLearns DEF ReadyIff
  <2> QED
    BY <1>3, <2>3 DEF Folded
<1>4. CASE e.type \notin {"llm", "tool", "retriever", "memory"}
  <2>1. Folded(p, e) = Ready(p)
    BY <1>4 DEF Folded
  <2> QED
    BY <2>1, ReadyLearns DEF ReadyIff
<1> QED
  BY <1>1, <1>2, <1>3, <1>4

(* seed: the manifest is marked, when it has anything.                     *)
LEMMA SeededLearns ==
  ASSUME NEW p \in Learnt, NEW m \in [tools : SUBSET ToolName, models : SUBSET Model], ReadyIff(p)
  PROVE  Seeded(p, m) \in Learnt /\ ReadyIff(Seeded(p, m)) /\ Seeded(p, m).dirty
<1> DEFINE q == Seeded(p, m)
<1>1. q \in Learnt
  BY DEF Seeded, SeedMarks, Learnt
<1>2. /\ q.llmCalls = p.llmCalls /\ q.tools = p.tools \cup m.tools
      /\ q.ready <=> p.ready \/ p.tools \cup m.tools # {}
  BY DEF Seeded, SeedMarks, Learnt
<1>3. q.dirty
  BY DEF Seeded, SeedMarks, Learnt
<1>4. ReadyIff(q)
  <2> HIDE DEF q
  <2> QED BY <1>2, LearntFields DEF ReadyIff
<1> QED
  BY <1>1, <1>3, <1>4

(* The controller deals in profiles and activations; a `seeding` carries a *)
(* manifest, and what Read may make of it is one as well.                  *)
ManifestType == [tools : SUBSET ToolName, models : SUBSET Model]

ProfileType ==
  /\ profiles \in [Profile -> Learnt] /\ activated \in 0..MaxProfiles
  /\ prof \in 0..activated /\ manifest \in ManifestType
  /\ seeding \subseteq [by : {"activate", "manifest"}, prof : Profile,
                        manifest : ManifestType, over : SUBSET ToolName]
  /\ record \in [Recorder -> [at : {"idle", "observe", "ready", "claim", "snapshot", "send"},
                              prof : 0..MaxProfiles]]
  /\ \A w \in Recorder : record[w].at # "idle" => record[w].prof \in Profile
  /\ told = [i \in Profile |-> told[i]] /\ dropped = [i \in Profile |-> dropped[i]]

ProfileInv == ProfileType /\ ProfileTold

(* No profile, nothing observed.                                           *)
LEMMA ProfileInitially == ProfileInit => ProfileInv
<1> SUFFICES ASSUME ProfileInit PROVE ProfileInv
  OBVIOUS
<1>1. ProfileType
  BY NewIsLearnt, ProfileAssumption
     DEF ProfileInit, ProfileType, ManifestType, Empty, NoRecord, Profile
<1>2. ProfileTold
  BY NewIsLearnt DEF ProfileInit, ProfileTold, ReadyIff, NewProfile
<1> QED
  BY <1>1, <1>2 DEF ProfileInv

(* What a reader of a manifest gets, raced by an overwrite or not.         *)
LEMMA ReadsManifest ==
  ASSUME NEW s, s.manifest \in ManifestType, s.over \in SUBSET ToolName, NEW m \in Read(s)
  PROVE  m \in ManifestType
<1>1. CASE s.over = {}
  BY <1>1 DEF Read
<1>2. CASE s.over # {}
  <2>1. PICK seen \in SUBSET (s.manifest.tools \cup s.over) :
          m = [s.manifest EXCEPT !.tools = seen]
    BY <1>2 DEF Read
  <2>2. seen \in SUBSET ToolName
    BY DEF ManifestType
  <2> QED
    BY <2>1, <2>2 DEF ManifestType
<1> QED
  BY <1>1, <1>2

(* A step that changes one profile, whose view is taken, or which is       *)
(* marked as changed; what was taken of the others stays so.               *)
LEMMA OneProfile ==
  ASSUME ProfileInv, NEW i \in Profile, NEW q \in Learnt, ReadyIff(q),
         profiles' = [profiles EXCEPT ![i] = q],
         \A j \in Profile \ {i} : Taken(j) \subseteq Taken(j)',
         q.dirty \/ View(q) \in Taken(i)'
  PROVE  profiles' \in [Profile -> Learnt] /\ ProfileTold'
<1>1. profiles' \in [Profile -> Learnt]
  BY DEF ProfileInv, ProfileType
<1>2. ASSUME NEW j \in Profile
      PROVE  /\ profiles'[j].ready /\ ~profiles'[j].dirty => View(profiles'[j]) \in Taken(j)'
             /\ ReadyIff(profiles'[j])
  <2>1. CASE j # i
    <3>1. profiles'[j] = profiles[j] /\ Taken(j) \subseteq Taken(j)'
      BY <2>1 DEF ProfileInv, ProfileType
    <3> QED
      BY <3>1 DEF ProfileInv, ProfileTold, ReadyIff
  <2>2. CASE j = i
    <3>1. profiles'[j] = q
      BY <2>2 DEF ProfileInv, ProfileType
    <3> QED
      BY <2>2, <3>1
  <2> QED
    BY <2>1, <2>2
<1> QED
  BY <1>1, <1>2 DEF ProfileTold, ReadyIff

(* A step that leaves the profiles alone, and forgets nothing taken.       *)
LEMMA StillTaken ==
  ASSUME ProfileInv, profiles' = profiles, \A j \in Profile : Taken(j) \subseteq Taken(j)'
  PROVE  ProfileTold'
BY DEF ProfileInv, ProfileTold

(* activate, foldEvent and maybeEmitProfile, in any order.                 *)
LEMMA ProfilePreserved == ProfileInv /\ [ProfileNext]_profileVars => ProfileInv'
<1> SUFFICES ASSUME ProfileInv, [ProfileNext]_profileVars PROVE ProfileInv'
  OBVIOUS
<1> USE ProfileAssumption DEF ProfileInv
<1>1. ASSUME ProfileType', UNCHANGED <<profiles, frames, told, dropped>> PROVE ProfileInv'
  <2>1. \A j \in Profile : Taken(j)' = Taken(j)
    BY <1>1 DEF Taken
  <2> QED
    BY <1>1, <2>1, StillTaken
<1>2. CASE Activates
  <2>1. activated + 1 \in Profile
    BY <1>2 DEF Activates, ProfileType, Profile
  <2>2. Seeding("activate", activated + 1, manifest)
          \in [by : {"activate", "manifest"}, prof : Profile,
               manifest : ManifestType, over : SUBSET ToolName]
    BY <2>1 DEF Seeding, ProfileType
  <2>3. ProfileType'
    BY <1>2, <2>1, <2>2 DEF Activates, ProfileType, Profile
  <2> QED
    BY <1>1, <1>2, <2>3 DEF Activates
<1>3. CASE Retires
  BY <1>1, <1>3 DEF Retires, ProfileType
<1>4. ASSUME NEW m \in Manifest, SetManifest(m) PROVE ProfileInv'
  <2>1. m \in ManifestType
    BY DEF ManifestType
  <2>2. \A s \in seeding : [s EXCEPT !.over = @ \cup m.tools]
          \in [by : {"activate", "manifest"}, prof : Profile,
               manifest : ManifestType, over : SUBSET ToolName]
    BY <2>1 DEF ProfileType, ManifestType
  <2>3. \A i \in {prof} \ {0} : Seeding("manifest", prof, m)
          \in [by : {"activate", "manifest"}, prof : Profile,
               manifest : ManifestType, over : SUBSET ToolName]
    BY <2>1 DEF Seeding, ProfileType, Profile
  <2>4. seeding' \subseteq [by : {"activate", "manifest"}, prof : Profile,
                           manifest : ManifestType, over : SUBSET ToolName]
    <3>1. seeding' = {[s EXCEPT !.over = @ \cup m.tools] : s \in seeding}
                     \cup {Seeding("manifest", prof, m) : i \in {prof} \ {0}}
      BY <1>4 DEF SetManifest
    <3> QED
      BY <2>2, <2>3, <3>1
  <2>5. UNCHANGED <<profiles, prof, record, activated, frames, told, dropped>> /\ manifest' = m
    BY <1>4 DEF SetManifest
  <2>6. ProfileType'
    BY <2>1, <2>4, <2>5 DEF ProfileType
  <2> QED
    BY <1>1, <2>5, <2>6
<1>5. ASSUME NEW s \in seeding, Seeds(s) PROVE ProfileInv'
  <2>1. /\ s.prof \in Profile /\ s.manifest \in ManifestType /\ s.over \in SUBSET ToolName
    BY DEF ProfileType
  <2>2. PICK m \in Read(s) : profiles' = [profiles EXCEPT ![s.prof] = Seeded(@, m)]
    BY <1>5 DEF Seeds
  <2>3. m \in ManifestType
    BY <2>1, ReadsManifest
  <2> DEFINE p == profiles[s.prof]
             q == Seeded(p, m)
  <2>4. p \in Learnt /\ ReadyIff(p)
    BY <2>1 DEF ProfileType, ProfileTold, ReadyIff
  <2>5. q \in Learnt /\ ReadyIff(q) /\ q.dirty
    <3> HIDE DEF p
    <3> QED BY <2>3, <2>4, SeededLearns DEF ManifestType
  <2>6. profiles' = [profiles EXCEPT ![s.prof] = q] /\ UNCHANGED <<frames, told, dropped>>
    BY <1>5, <2>2 DEF Seeds
  <2>7. profiles' \in [Profile -> Learnt] /\ ProfileTold'
    <3> HIDE DEF q
    <3>1. \A j \in Profile : Taken(j)' = Taken(j)
      BY <2>6 DEF Taken
    <3> QED BY <2>1, <2>5, <2>6, <3>1, OneProfile
  <2> QED
    BY <1>5, <2>7 DEF Seeds, ProfileType
<1>6. ASSUME NEW w \in Recorder,
             RecordBegins(w) \/ MayEmit(w) \/ Claims(w)
      PROVE  ProfileInv'
  <2> DEFINE At == {"idle", "observe", "ready", "claim", "snapshot", "send"}
  <2>1. ASSUME NEW r \in [at : At, prof : 0..MaxProfiles], r.at # "idle" => r.prof \in Profile,
               record' = [record EXCEPT ![w] = r],
               UNCHANGED <<profiles, prof, manifest, seeding, activated, frames, told, dropped>>
        PROVE  ProfileType'
    <3>1. record' \in [Recorder -> [at : At, prof : 0..MaxProfiles]]
      BY <2>1 DEF ProfileType
    <3>2. \A v \in Recorder : record'[v].at # "idle" => record'[v].prof \in Profile
      BY <2>1 DEF ProfileType
    <3> QED
      BY <2>1, <3>1, <3>2 DEF ProfileType
  <2>2. /\ record[w] \in [at : At, prof : 0..MaxProfiles]
        /\ record[w].at # "idle" => record[w].prof \in Profile
        /\ NoRecord \in [at : At, prof : 0..MaxProfiles] /\ NoRecord.at = "idle"
    BY DEF ProfileType, NoRecord
  <2>3. \A x \in At \ {"idle"} : record[w].at # "idle" =>
          /\ [record[w] EXCEPT !.at = x] \in [at : At, prof : 0..MaxProfiles]
          /\ [record[w] EXCEPT !.at = x].prof \in Profile
    BY <2>2
  <2>4. ProfileType'
    <3>1. CASE RecordBegins(w)
      <4>1. prof \in Profile
        BY <3>1 DEF RecordBegins, ProfileType, Profile
      <4> DEFINE r == [at |-> "observe", prof |-> prof]
      <4>2. r \in [at : At, prof : 0..MaxProfiles] /\ r.prof \in Profile
        BY <4>1 DEF Profile
      <4>3. record' = [record EXCEPT ![w] = r]
            /\ UNCHANGED <<profiles, prof, manifest, seeding, activated, frames, told, dropped>>
        BY <3>1 DEF RecordBegins
      <4> QED
        <5> HIDE DEF r, At
        <5> QED BY <2>1, <4>2, <4>3
    <3>2. CASE MayEmit(w)
      <4>1. \/ record' = [record EXCEPT ![w] = [@ EXCEPT !.at = "claim"]]
            \/ record' = [record EXCEPT ![w] = NoRecord]
        BY <3>2 DEF MayEmit
      <4>2. record[w].at # "idle" /\ UNCHANGED <<profiles, prof, manifest, seeding, activated, frames, told, dropped>>
        BY <3>2 DEF MayEmit
      <4> QED
        BY <2>1, <2>2, <2>3, <4>1, <4>2
    <3>3. CASE Claims(w)
      <4>1. \/ record' = [record EXCEPT ![w] = [@ EXCEPT !.at = "snapshot"]]
            \/ record' = [record EXCEPT ![w] = NoRecord]
        BY <3>3 DEF Claims
      <4>2. record[w].at # "idle" /\ UNCHANGED <<profiles, prof, manifest, seeding, activated, frames, told, dropped>>
        BY <3>3 DEF Claims
      <4> QED
        BY <2>1, <2>2, <2>3, <4>1, <4>2
    <3> QED
      BY <1>6, <3>1, <3>2, <3>3
  <2> QED
    BY <1>1, <1>6, <2>4 DEF RecordBegins, MayEmit, Claims
<1>7. ASSUME NEW w \in Recorder, NEW e \in Observation, Observes(w, e) PROVE ProfileInv'
  <2> DEFINE i == record[w].prof
             p == profiles[i]
             q == Folded(p, e)
  <2>1. i \in Profile /\ p \in Learnt /\ ReadyIff(p)
    BY <1>7 DEF Observes, ProfileType, ProfileTold, ReadyIff
  <2>2. q \in Learnt /\ ReadyIff(q) /\ q.dirty
    <3> HIDE DEF p
    <3> QED BY <2>1, FoldedLearns
  <2>3. profiles' = [profiles EXCEPT ![i] = q] /\ UNCHANGED <<frames, told, dropped>>
    BY <1>7 DEF Observes
  <2>4. profiles' \in [Profile -> Learnt] /\ ProfileTold'
    <3> HIDE DEF q, i
    <3>1. \A j \in Profile : Taken(j)' = Taken(j)
      BY <2>3 DEF Taken
    <3> QED BY <2>1, <2>2, <2>3, <3>1, OneProfile
  <2> QED
    BY <1>7, <2>4 DEF Observes, ProfileType
<1>8. ASSUME NEW w \in Recorder, Snapshots(w) PROVE ProfileInv'
  <2>0. PICK i \in Profile : i = record[w].prof
    BY <1>8 DEF Snapshots, ProfileType
  <2> DEFINE p == profiles[i]
             q == [p EXCEPT !.dirty = FALSE]
  <2>1. p \in Learnt /\ ReadyIff(p)
    BY <2>0 DEF ProfileType, ProfileTold, ReadyIff
  <2>2. q \in Learnt /\ ReadyIff(q) /\ View(q) = View(p)
    <3> HIDE DEF p
    <3>1. q \in Learnt
      BY <2>1 DEF Learnt
    <3>2. /\ q.tools = p.tools /\ q.llmCalls = p.llmCalls /\ (q.ready <=> p.ready)
      BY <2>1 DEF Learnt
    <3>3. /\ q.obs = p.obs /\ q.prompt = p.prompt /\ q.models = p.models /\ q.ran = p.ran
          /\ q.manifested = p.manifested /\ q.dynamic = p.dynamic
          /\ q.declared = p.declared /\ q.calls = p.calls
      BY <2>1 DEF Learnt
    <3>4. ReadyIff(q)
      BY <2>1, <3>2 DEF ReadyIff
    <3>5. View(q) = View(p)
      <4> HIDE DEF q
      <4>1. ComponentCalls(q) = ComponentCalls(p)
        BY <3>3, Zenon DEF ComponentCalls
      <4> QED
        BY <3>2, <3>3, <4>1, ZenonT(60) DEF View
    <3> QED
      BY <3>1, <3>4, <3>5
  <2> DEFINE frame == [by |-> w, prof |-> i, view |-> View(p)]
  <2>3. /\ profiles' = [profiles EXCEPT ![i] = q]
        /\ frames' = frames \cup {frame}
        /\ told' = [told EXCEPT ![i] = {}] /\ dropped' = [dropped EXCEPT ![i] = {}]
    BY <1>8, <2>0 DEF Snapshots
  <2>4. View(p) \in Taken(i)'
    <3>1. frame.view = View(p) /\ frame.prof = i
      OBVIOUS
    <3> HIDE DEF frame, p
    <3> QED BY <2>3, <3>1 DEF Taken
  <2>5. \A j \in Profile \ {i} : Taken(j) \subseteq Taken(j)'
    <3> HIDE DEF frame
    <3>1. \A j \in Profile \ {i} : told'[j] = told[j] /\ dropped'[j] = dropped[j]
      BY <2>3 DEF ProfileType
    <3> QED
      BY <2>3, <3>1 DEF Taken
  <2>6. profiles' \in [Profile -> Learnt] /\ ProfileTold'
    <3>1. View(q) \in Taken(i)' /\ profiles' = [profiles EXCEPT ![i] = q]
      BY <2>2, <2>3, <2>4
    <3> HIDE DEF q, p
    <3> QED BY <2>1, <2>2, <2>5, <3>1, OneProfile
  <2> QED
    BY <1>8, <2>6 DEF Snapshots, ProfileType
<1>9. ASSUME NEW f \in frames, Sends(f) PROVE ProfileInv'
  <2>1. /\ profiles' = profiles /\ frames' = frames \ {f}
        /\ record' = [record EXCEPT ![f.by] = NoRecord]
        /\ \/ told' = [told EXCEPT ![f.prof] = @ \cup {f.view}] /\ dropped' = dropped
           \/ dropped' = [dropped EXCEPT ![f.prof] = @ \cup {f.view}] /\ told' = told
    BY <1>9 DEF Sends
  <2>2. ASSUME NEW j \in Profile PROVE Taken(j) \subseteq Taken(j)'
    <3>1. told[j] \subseteq told'[j] /\ dropped[j] \subseteq dropped'[j]
      <4>1. CASE told' = [told EXCEPT ![f.prof] = @ \cup {f.view}] /\ dropped' = dropped
        BY <4>1 DEF ProfileType
      <4>2. CASE dropped' = [dropped EXCEPT ![f.prof] = @ \cup {f.view}] /\ told' = told
        BY <4>2 DEF ProfileType
      <4> QED
        BY <2>1, <4>1, <4>2
    <3>2. f.prof = j => f.view \in told'[j] \cup dropped'[j]
      BY <2>1 DEF ProfileType
    <3> QED
      BY <2>1, <3>1, <3>2 DEF Taken
  <2>3. ProfileType'
    <3>1. /\ told' = [j \in Profile |-> told'[j]]
          /\ dropped' = [j \in Profile |-> dropped'[j]]
      BY <2>1 DEF ProfileType
    <3>2. /\ record' \in [Recorder -> [at : {"idle", "observe", "ready", "claim", "snapshot", "send"},
                                       prof : 0..MaxProfiles]]
          /\ \A w \in Recorder : record'[w].at # "idle" => record'[w].prof \in Profile
      <4> DEFINE R == [at : {"idle", "observe", "ready", "claim", "snapshot", "send"},
                       prof : 0..MaxProfiles]
      <4>1. NoRecord \in R /\ NoRecord.at = "idle"
        BY DEF NoRecord
      <4>2. \A w \in Recorder : record[w] \in R
        BY DEF ProfileType
      <4>3. record' \in [Recorder -> R]
        <5> HIDE DEF R
        <5> QED BY <2>1, <4>1, <4>2 DEF ProfileType
      <4>4. \A w \in Recorder : record'[w] = record[w] \/ record'[w] = NoRecord
        BY <2>1 DEF ProfileType
      <4> QED
        BY <4>1, <4>3, <4>4 DEF ProfileType
    <3> QED
      BY <1>9, <2>1, <3>1, <3>2 DEF Sends, ProfileType
  <2> QED
    BY <2>1, <2>2, <2>3, StillTaken
<1>10. CASE UNCHANGED profileVars
  BY <1>1, <1>10 DEF profileVars, ProfileType
<1> QED
  BY <1>2, <1>3, <1>4, <1>5, <1>6, <1>7, <1>8, <1>9, <1>10 DEF ProfileNext

(* Whatever is seeded, observed, announced and dropped at once, a profile  *)
(* that is ready and unmarked has had its present view taken for a frame,  *)
(* told, dropped or under way; readiness means something to start from.    *)
THEOREM NothingUntold == ProfileInit /\ [][ProfileNext]_profileVars => []ProfileTold
<1>1. ProfileInv => ProfileTold
  BY DEF ProfileInv
<1> QED
  BY <1>1, ProfileInitially, ProfilePreserved, PTL
=============================================================================
