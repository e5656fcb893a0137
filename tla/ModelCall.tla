------------------------------ MODULE ModelCall ------------------------------
(***************************************************************************)
(* One model call through the governed transport (transport.go,            *)
(* response.go, responses.go): the request is read, perhaps injected,      *)
(* checked, forwarded, and its response checked before the caller sees it, *)
(* or, when it is a stream, audited while the caller reads it.             *)
(*                                                                         *)
(* The caller may close a stream while it reads it, or cancel the request. *)
(* Each chunk of a stream is one event.                                    *)
(***************************************************************************)
EXTENDS ProviderText

CONSTANTS
  CallRequest,   \* requests: host, path, method, body, its content and media
  Setting,       \* what the Guard is set to: proxy, mode, media, attack, post
  Response,      \* answers: HTTP status, kind, status, what is said, events
  CaptureLimit,  \* responsesCaptureLimit
  MaxCloses      \* bound on the calls of Close on a body

(* What each role says: encrypted content is reasoning's alone, and only   *)
(* chats have parts without a text.                                        *)
Voice == {"system", "user", "assistant", "tool"}
Message == [role : Voice, shape : {"text", "other"}, parts : SUBSET (Fragment \ {Secret})]
Item ==
  [role : {"user", "assistant", "tool"}, shape : {"text"},
   parts : SUBSET (Fragment \ {Secret, NoText})]
  \cup [role : Reasoning, shape : {"text"}, parts : SUBSET (Fragment \ {NoText})]
  \cup [role : {"item_reference"}, shape : {"text"}, parts : SUBSET (Fragment \ {Secret})]
Bodies(turns) ==
  [system : SUBSET (Fragment \ {Secret, NoText}), messages : BOOLEAN, typed : BOOLEAN,
   continues : BOOLEAN, chat : Seq(turns)]
MediaBlock ==
  [form : {"source", "file", "inline", "url"}, mime : {"media", "text"},
   encoded : BOOLEAN, size : Nat, deep : BOOLEAN]
Event == {"text", "long", "thought", "silent"} \cup Terminal

ASSUME CallAssumption ==
  /\ CaptureLimit \in Nat \ {0} /\ MaxCloses \in Nat
  /\ \A q \in CallRequest :
       /\ q.post \in BOOLEAN
       /\ q.body \in {"none", "broken", "garbled", "background", "ok"}
       /\ q.content \in Bodies(IF q.path = "responses" THEN Item ELSE Message)
       /\ q.media \in Seq(MediaBlock)
  /\ Setting \subseteq [proxy : BOOLEAN, direct : BOOLEAN, media : BOOLEAN,
                        attack : BOOLEAN, inspect : BOOLEAN]
  /\ \A a \in Response :
       /\ a.ok \in BOOLEAN /\ a.kind \in {"missing", "broken", "json", "sse", "packed"}
       /\ a.status \in {"completed", "incomplete", "failed"}
       /\ \A i \in a.said : i \in Item \cup Message /\ i.role # "item_reference"
       /\ a.events \in Seq(Event)

(* The provider's protocol: a terminal event is the last that says a word. *)
ASSUME EndingAssumption ==
  \A a \in Response : \A i, j \in DOMAIN a.events :
    a.events[i] \in Terminal /\ i < j => a.events[j] \notin {"text", "long", "thought"}

VARIABLES
  at,        \* where RoundTrip stands, or how it returned
  req, set,  \* the request, and the settings read for it
  body,      \* the body that will be forwarded: "given" or "injected"
  checked,   \* what passed pre_llm: which body, its text and media, or a part
  contact,   \* who was contacted: "none", "provider" or "proxy"
  sent,      \* the body it was sent
  resp,      \* the response of the provider
  passed,    \* the texts of the response that passed a post_llm check
  stream,    \* its events: delivered, captured; and what befell it
  reader,    \* where the Read of the body stands
  closer,    \* where the Close of the body stands
  closes,    \* calls of Close begun
  once,      \* where the audit of a Responses stream stands
  audits,    \* the audits made
  cancelled  \* the caller cancelled the request

callVars == <<at, req, set, body, checked, contact, sent, resp, passed>>
bodyVars == <<stream, reader, closer, closes, once, audits>>
modelVars == <<callVars, bodyVars, cancelled>>

NoStream == [delivered |-> 0, captured |-> 0, truncated |-> FALSE,
             closed |-> FALSE, overlapped |-> FALSE]
NoCheck == [body |-> "none", text |-> {}, media |-> {}, partial |-> FALSE]

CallInit ==
  /\ at = "begin" /\ req \in CallRequest /\ set \in Setting
  /\ body = "given" /\ checked = NoCheck /\ contact = "none" /\ sent = "none"
  /\ resp \in Response /\ passed = {}
  /\ stream = NoStream /\ reader = "idle" /\ closer = "idle" /\ closes = 0
  /\ once = "idle" /\ audits = <<>> /\ cancelled = FALSE

-----------------------------------------------------------------------------
(* RoundTrip and roundTripResponses                                        *)

To(next) == at' = next

(* Only a POST to .../responses or a body for a known provider's route is  *)
(* governed; the rest passes through.                                      *)
Chat == req.path # "responses" /\ Extractor(req.host, req.path) # "none"
Governed == IF req.path = "responses" THEN req.post ELSE Chat /\ req.body # "none"

CallBegins ==
  /\ at = "begin"
  /\ IF Governed THEN To("read") /\ UNCHANGED <<contact, sent>>
     ELSE To("ungoverned") /\ contact' = "provider" /\ sent' = body
  /\ UNCHANGED <<req, set, body, checked, resp, passed, bodyVars, cancelled>>

(* A body that cannot be read fails the call; a Responses body must be an  *)
(* object, and not in background mode, whose output is never seen.         *)
Readable == \/ req.body = "ok"
            \/ Chat /\ req.body \in {"garbled", "background"}

Injected == "injected"
Content(b) ==
  CASE b = "given" -> req.content
    [] b = Injected -> IF Chat THEN InjectSystem(req.content) ELSE InjectInstructions(req.content)

(* An attack run rewrites the body before it is checked and forwarded.     *)
CallReads ==
  /\ at = "read"
  /\ IF Readable
     THEN /\ To("route")
          /\ body' = IF set.attack /\ req.body # "garbled" THEN Injected ELSE "given"
     ELSE To("failed") /\ UNCHANGED body
  /\ UNCHANGED <<req, set, checked, contact, sent, resp, passed, bodyVars, cancelled>>

Attachments ==
  IF Chat /\ set.media /\ req.body # "garbled" THEN ExtractAttachments(req.media) ELSE {}

(* Who checks the call: the platform inline, when it is proxied (a chat    *)
(* with attachments is checked here all the same); otherwise this process. *)
Proxied == IF Chat THEN set.proxy ELSE set.proxy \/ ~set.direct
CheckedInline == Proxied /\ Attachments = {}

CallRoutes ==
  /\ at = "route"
  /\ To(IF CheckedInline THEN "forward" ELSE "check")
  /\ UNCHANGED <<req, set, body, checked, contact, sent, resp, passed, bodyVars,
                 cancelled>>

(* The text of the check; a chat body that is not JSON is checked whole.   *)
TextOf(content) ==
  CASE Chat /\ req.body = "garbled" -> Prompt([content EXCEPT !.typed = FALSE])
    [] Chat /\ req.body # "garbled" -> Prompt(content)
    [] OTHER -> ResponsesPrompt(content)

(* Check, pre_llm: a denial is an error, and nobody is contacted.          *)
PreCheck ==
  /\ at = "check"
  /\ \/ /\ To("forward")
        /\ checked' = [body |-> body, text |-> TextOf(Content(body)), media |-> Attachments,
                        partial |-> ~Chat /\ ContextPartial(Content(body))]
     \/ To("denied") /\ UNCHANGED checked
  /\ UNCHANGED <<req, set, body, contact, sent, resp, passed, bodyVars, cancelled>>

(* proxyForward, or the base transport; either may fail.                   *)
Forward ==
  /\ at = "forward"
  /\ contact' = IF Proxied THEN "proxy" ELSE "provider"
  /\ sent' = body
  /\ \/ To("failed")
     \/ To(IF Proxied THEN "relayed" ELSE "answered")
  /\ UNCHANGED <<req, set, body, checked, resp, passed, bodyVars, cancelled>>

(* Mutant: an error status is enough not to look at a chat response.       *)
Inspected_Bug == set.inspect /\ resp.ok

Inspected == set.inspect /\ (Chat \/ resp.ok)

Streamed == resp.kind \in {"sse", "packed"}

(* A stream is handed to the caller under a monitor; a Responses stream    *)
(* must not be compressed.  Any other body is read to its end first.       *)
Answered ==
  /\ at = "answered"
  /\ CASE ~Inspected -> To("uninspected")
       [] Inspected /\ ~Chat /\ resp.kind \in {"missing", "packed"} ->
            To("failed")
       [] Inspected /\ Streamed /\ (Chat \/ resp.kind = "sse") -> To("streaming")
       [] OTHER -> To(IF resp.kind = "broken" THEN "failed" ELSE "buffered")
  /\ UNCHANGED <<req, set, body, checked, contact, sent, resp, passed, bodyVars,
                 cancelled>>

(* A chat answer in which no text is found is not checked; a failed or     *)
(* unfinished Responses output is an error.                                *)
Parts(items) == UNION {i.parts : i \in items}
Reply ==
  IF Chat THEN Completion(req.host, req.path, Parts(resp.said)) ELSE ResponsesOutput(resp.said)
NothingToCheck == Chat /\ Reply = {}
NotAnOutput == ~Chat /\ resp.status = "failed"

Denied == To("denied")

PostCheck ==
  /\ at = "buffered"
  /\ CASE NotAnOutput -> To("failed") /\ UNCHANGED passed
       [] NothingToCheck -> To("returned") /\ UNCHANGED passed
       [] OTHER -> \/ To("returned") /\ passed' = {Reply}
                   \/ Denied /\ UNCHANGED passed
  /\ UNCHANGED <<req, set, body, checked, contact, sent, resp, bodyVars, cancelled>>

-----------------------------------------------------------------------------
(* The monitors of a stream: streamMonitor for chats, responsesMonitor     *)

Cancel ==
  /\ at = "streaming" /\ ~cancelled
  /\ cancelled' = TRUE
  /\ UNCHANGED <<callVars, bodyVars>>

(* The inner Read delivers a chunk, or ends: at the end of the stream, or  *)
(* with an error at any time.                                              *)
ReadInner ==
  /\ at = "streaming" /\ reader = "idle"
  /\ \/ /\ stream.delivered < Len(resp.events) /\ ~stream.closed
        /\ stream' = [stream EXCEPT !.delivered = @ + 1,
                                     !.overlapped = @ \/ closer # "idle"]
        /\ reader' = "capture"
     \/ /\ stream.delivered = Len(resp.events) /\ ~stream.closed
        /\ reader' = "eof" /\ UNCHANGED stream
     \/ reader' = "error" /\ UNCHANGED stream
  /\ UNCHANGED <<callVars, closer, closes, once, audits, cancelled>>

Truncates == ~Chat /\ stream.captured >= CaptureLimit

(* What was read is captured; a Responses capture is bounded.              *)
ReadCaptures ==
  /\ reader = "capture"
  /\ stream' = IF ~Chat /\ stream.captured >= CaptureLimit
               THEN [stream EXCEPT !.truncated = @ \/ Truncates]
               ELSE [stream EXCEPT !.captured = @ + 1]
  /\ reader' = "idle"
  /\ UNCHANGED <<callVars, closer, closes, once, audits, cancelled>>

(* The audit is a post_llm check: of a chat under the context of the       *)
(* request, of a Responses stream under one that outlives it.              *)
Reaches == Chat => ~cancelled
Captured == SubSeq(resp.events, 1, stream.captured)
Audit(interrupted) ==
  LET sse == ResponsesSSE(Captured)
  IN  audits' = Append(audits,
        [captured |-> stream.captured, truncated |-> stream.truncated, reaches |-> Reaches,
         text |-> IF Chat THEN StreamCompletion(req.host, req.path, Captured) ELSE sse.text,
         incomplete |-> ~Chat /\ (interrupted \/ sse.incomplete)])
ChatSays == StreamCompletion(req.host, req.path, Captured) # {}

(* Mutant: the end of the stream and Close each make their own audit.      *)
First_Bug == TRUE

First == once = "idle"

(* finish, by the reader at the end of a Responses stream: once.Do makes   *)
(* it wait for an audit that is under way.                                 *)
ReadFinishes ==
  /\ reader \in {"eof", "error"}
  /\ IF ~Chat /\ First
     THEN Audit(reader = "error") /\ once' = "reader" /\ reader' = "auditing"
     ELSE /\ Chat \/ once = "done"
          /\ reader' = "ended" /\ UNCHANGED <<audits, once>>
  /\ UNCHANGED <<callVars, stream, closer, closes, cancelled>>

ReadReturns ==
  /\ reader = "auditing"
  /\ once' = "done" /\ reader' = "ended"
  /\ UNCHANGED <<callVars, stream, closer, closes, audits, cancelled>>

(* Close closes the inner body.  A Responses monitor does so once, and     *)
(* finishes; a chat monitor audits what it has at every Close.             *)
CloseBody ==
  /\ at = "streaming" /\ closer = "idle" /\ closes < MaxCloses
  /\ closes' = closes + 1
  /\ stream' = [stream EXCEPT !.closed = TRUE, !.overlapped = @ \/ reader = "capture"]
  /\ closer' = IF Chat \/ closes = 0 THEN "finish" ELSE "idle"
  /\ UNCHANGED <<callVars, reader, once, audits, cancelled>>

CloseFinishes ==
  /\ closer = "finish"
  /\ CASE Chat -> /\ IF ChatSays THEN Audit(FALSE) ELSE UNCHANGED audits
                  /\ closer' = "idle" /\ UNCHANGED once
       [] ~Chat /\ First -> Audit(TRUE) /\ once' = "closer" /\ closer' = "auditing"
       [] OTHER -> once = "done" /\ closer' = "idle" /\ UNCHANGED <<audits, once>>
  /\ UNCHANGED <<callVars, stream, reader, closes, cancelled>>

CloseReturns ==
  /\ closer = "auditing"
  /\ once' = "done" /\ closer' = "idle"
  /\ UNCHANGED <<callVars, stream, reader, closes, audits, cancelled>>

CallNext ==
  \/ CallBegins \/ CallReads \/ CallRoutes \/ PreCheck \/ Forward \/ Answered
  \/ PostCheck \/ Cancel \/ ReadInner \/ ReadCaptures \/ ReadFinishes
  \/ ReadReturns \/ CloseBody \/ CloseFinishes \/ CloseReturns

-----------------------------------------------------------------------------
(* Nothing governed escapes its checks (RoundTrip, roundTripResponses,     *)
(* inspectResponse).  A provider is contacted directly only with the very  *)
(* body that passed pre_llm, a proxied call with attachments likewise, and *)
(* that check saw: of a chat, whoever's protocol it speaks, all the user   *)
(* said last and nothing of others; of a Responses call, everything but    *)
(* encrypted reasoning; and, where the agent may send them, every image    *)
(* and document whose bytes are in the request, or a mark that some are    *)
(* missing: but not a source that is a text, or only refers to a file.  An *)
(* attack's body is the one sent.  An answer with text in the protocol of  *)
(* its host reaches the caller only past post_llm.  And were the media of  *)
(* the request a tool's, CheckToolCall would miss none of them.            *)
By(roles, content) ==
  UNION {Texts(content.chat[i].parts) : i \in {j \in DOMAIN content.chat : content.chat[j].role \in roles}}

CheckSees(text, content) ==
  IF Chat
  THEN /\ content.typed /\ req.body # "garbled" => text \subseteq By({"user"}, content)
       /\ \A i \in DOMAIN content.chat :
            LET m == content.chat[i]
            IN  /\ m.role = "user" /\ m.shape # "other"
                /\ \A j \in DOMAIN content.chat : content.chat[j].role = "user" => j <= i
                => Texts(m.parts) \subseteq text
  ELSE /\ text = (Texts(content.system) \cup By({"user", "assistant", "tool"} \cup Reasoning, content))
                 \ {Secret}
       /\ By({"item_reference"}, content) # {} => checked.partial

Attached(b, media) == \E m \in media : m.block = b /\ (b.encoded => m.as = "resolved")
Reference(b) == b.form = "source" /\ ~b.encoded /\ ~IsMediaMIME(b)

MediaSeen(media) ==
  media # {Marked("oversize")} =>
    \A i \in DOMAIN req.media :
      LET b == req.media[i]
      IN  Attached(b, media) \/ Reference(b) \/ (b.deep /\ Marked("incomplete") \in media)

(* The check of a tool's arguments or result has a view of the whole value *)
(* besides (mediaContent): there no block is missed, nor are its bytes put *)
(* into the text.                                                          *)
ToolMediaSeen(content) ==
  /\ \A b \in content.text : ~(b.encoded /\ IsMediaMIME(b))
  /\ content.media # {Marked("oversize")} =>
       \A i \in DOMAIN req.media :
         LET b == req.media[i]
         IN  \/ Attached(b, content.media) \/ b \in content.text
             \/ b.deep /\ Marked("incomplete") \in content.media

(* An answer is all that was said, but encrypted reasoning and that which  *)
(* has no summary.                                                         *)
AnswerSeen(text) ==
  LET heard == IF Chat THEN resp.said ELSE {i \in resp.said : i.role # "unsummarised"}
  IN  Texts(Parts(heard)) \ {Secret} \subseteq text

(* Anthropic and Google also serve OpenAI's path; their answers to it are  *)
(* read in the protocol of the host, and then no text is found.            *)
OwnProtocol == ~(req.path = "completions" /\ req.host \in {"anthropic", "google"})

NothingUnchecked ==
  Governed =>
    /\ (contact = "provider" \/ (contact = "proxy" /\ Attachments # {})) =>
         /\ checked.body = sent /\ CheckSees(checked.text, Content(sent))
         /\ Chat /\ set.media /\ req.body # "garbled" => MediaSeen(checked.media)
    /\ contact # "none" /\ set.attack /\ req.body # "garbled" => sent = "injected"
    /\ at \in {"denied", "failed"} => passed = {}
    /\ at = "returned" /\ (Chat => OwnProtocol /\ Texts(Parts(resp.said)) # {})
         => \E text \in passed : AnswerSeen(text)
    /\ at = "uninspected" => ~set.inspect \/ ~Chat
    /\ ToolMediaSeen(MediaContent(req.media))

(* Streams are audited honestly (responsesMonitor, streamMonitor).  A      *)
(* Responses stream is audited once, when it ends or is closed, whoever    *)
(* comes first, even if the request was cancelled; an audit shows all the  *)
(* text in what it captured, and summaries of reasoning at least if it     *)
(* does not claim to be incomplete; and one that claims to be neither cut  *)
(* nor incomplete has captured an answer to its end.  A chat stream whose  *)
(* Close never overlaps a Read, and whose lines the scanner can hold, is   *)
(* audited with all the text that the caller was given: not once, when it  *)
(* ends (response.go:19), but by each Close, and by nothing else.          *)
Given(n) == {i \in 1..n : resp.events[i] \in {"text", "long"}}
Thoughts(n) == {i \in 1..n : resp.events[i] = "thought"}
Hearings(n) == {Given(n), Given(n) \cup Thoughts(n)}
ScannedWhole == OwnProtocol /\ \A i \in DOMAIN resp.events : resp.events[i] # "long"

AuditHonest ==
  at = "streaming" =>
    /\ ~Chat => /\ Len(audits) <= 1
                /\ reader = "ended" \/ (closes > 0 /\ closer = "idle") => Len(audits) = 1
                /\ \A i \in 1..Len(audits) :
                     /\ audits[i].reaches
                     /\ audits[i].text \in Hearings(audits[i].captured)
                     /\ ~audits[i].incomplete => Thoughts(audits[i].captured) \subseteq audits[i].text
                     /\ ~audits[i].truncated /\ ~audits[i].incomplete
                        => /\ audits[i].captured = stream.delivered
                           /\ \E e \in DOMAIN Captured : Captured[e] = "completed"
    /\ Chat /\ ~stream.overlapped /\ ScannedWhole =>
         /\ closer = "idle" /\ Given(stream.captured) # {} => Len(audits) = closes
         /\ \A i \in 1..Len(audits) : audits[i].text = Given(stream.delivered)
=============================================================================
