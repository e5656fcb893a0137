---------------------------- MODULE ProviderText ----------------------------
(***************************************************************************)
(* What the governed transport reads in the bodies of model calls          *)
(* (transport.go, response.go, responses.go, attachments.go): whose        *)
(* protocol a call speaks, the text its pre_llm check sees, the text of an *)
(* answer or of a captured stream, and the media of a value.               *)
(*                                                                         *)
(* A text is a set of fragments: what matters is which of them a check     *)
(* sees.  How fragments are ordered and joined, and JSON itself, are left  *)
(* out.                                                                    *)
(***************************************************************************)
EXTENDS Integers, Sequences, FiniteSetsExt

CONSTANTS
  Fragment,   \* the texts a body is made of, and those below
  NoText,     \* the text of a part that has none: a tool call, an image
  Adversary,  \* the adversarial message of an attack run
  Secret,     \* the encrypted content of a reasoning item
  MediaLimit  \* mediaTransportLimit, in units of a block's size

ASSUME TextAssumption ==
  /\ {NoText, Adversary, Secret} \subseteq Fragment
  /\ Adversary \notin {NoText, Secret}
  /\ MediaLimit \in Nat

-----------------------------------------------------------------------------
(* Whose protocol                                                          *)

(* A Vertex host serves two publishers' models on routes of their own.     *)
Publisher(host, path) ==
  CASE host = "vertex" /\ path = "google" -> "gemini"
    [] host = "vertex" /\ path = "claude" -> "anthropic"
    [] OTHER -> "none"

(* extractorFor: by host and path, but any host may serve OpenAI's path.   *)
Extractor(host, path) ==
  CASE Publisher(host, path) # "none" -> Publisher(host, path)
    [] path = "completions" -> "openai"
    [] host = "anthropic" /\ path = "messages" -> "anthropic"
    [] host = "google" /\ path = "models" -> "gemini"
    [] OTHER -> "none"

(* respExtractorFor, by the host that inspectResponse names, alone.        *)
Completer(host, path) ==
  CASE "gemini" = Publisher(host, path) \/ host = "google" -> "gemini"
    [] "anthropic" = Publisher(host, path) \/ host = "anthropic" -> "anthropic"
    [] OTHER -> "openai"

-----------------------------------------------------------------------------
(* The text of a request                                                   *)

Texts(parts) == parts \ {NoText}

(* contentText: a string, or parts; Gemini has parts only.                 *)
ContentText(message) ==
  IF message.shape = "other" THEN {} ELSE Texts(message.parts)

(* extractAnthropic, extractOpenAI, extractGemini: the latest message of   *)
(* the user, whose turn need not be the last.                              *)
LatestUser(chat) ==
  LET users == {i \in DOMAIN chat : chat[i].role = "user"}
  IN  IF users = {} THEN {} ELSE ContentText(chat[Max(users)])

(* Bodies of another shape are checked whole.                              *)
Prompt(body) ==
  IF body.typed THEN LatestUser(body.chat)
  ELSE UNION {Texts(body.chat[i].parts) : i \in DOMAIN body.chat}

(* configInjectRewrite: a system message of the body, or of its chat.      *)
InjectSystem(body) ==
  IF body.system = {} /\ body.messages
  THEN [body EXCEPT !.chat = <<[role |-> "system", shape |-> "text",
                                parts |-> {Adversary}]>> \o @]
  ELSE [body EXCEPT !.system = @ \cup {Adversary}]

(* injectResponsesInstructions                                             *)
InjectInstructions(body) == [body EXCEPT !.system = @ \cup {Adversary}]

(* Reasoning comes with a summary, or without one.                         *)
Reasoning == {"reasoning", "unsummarised"}

(* visibleResponsesItem: all of an item but encrypted reasoning; what an   *)
(* item refers to is not fetched.                                          *)
VisibleItem(item) ==
  CASE item.role \in Reasoning -> Texts(item.parts) \ {Secret}
    [] item.role = "item_reference" -> {}
    [] OTHER -> Texts(item.parts)

ResponsesPrompt(body) ==
  body.system \cup UNION {VisibleItem(body.chat[i]) : i \in DOMAIN body.chat}

(* Context the check cannot see: an earlier response, or an item by name.  *)
ContextPartial(body) ==
  body.continues \/ \E i \in DOMAIN body.chat : body.chat[i].role = "item_reference"

-----------------------------------------------------------------------------
(* The text of an answer                                                   *)

(* completionAnthropic, completionGemini, completionOpenAI, applied to an  *)
(* answer in the protocol of the request: another one's holds no text.     *)
Completion(host, path, said) ==
  IF Completer(host, path) = Extractor(host, path) THEN Texts(said) ELSE {}

(* responsesOutput: reasoning without a summary is left out.               *)
ResponsesOutput(items) ==
  UNION {VisibleItem(item) : item \in {i \in items : i.role # "unsummarised"}}

(* sseCompletion over the events of a captured stream: fragment i is the   *)
(* text of event i.  The scanner gives up at a line of a megabyte.         *)
Scanned(events) ==
  LET long == {i \in DOMAIN events : events[i] = "long"}
  IN  IF long = {} THEN DOMAIN events ELSE 1..(Min(long) - 1)

SaidIn(events, among) == {i \in among : events[i] \in {"text", "long"}}

StreamCompletion(host, path, events) ==
  IF (Completer(host, path) = "gemini") = (Extractor(host, path) = "gemini")
  THEN SaidIn(events, Scanned(events)) ELSE {}

(* responsesSSE: the output of the last terminal event, or else the deltas *)
(* and the items before it, but for the reasoning (a "thought" is one of   *)
(* its summaries); incomplete without a good ending.                       *)
Terminal == {"completed", "incomplete", "failed", "bare"}
Endings(events) == {i \in DOMAIN events : events[i] \in Terminal}

(* What the provider says in its terminal event: all it said before, or    *)
(* nothing when it failed, or left the output out.                         *)
ThoughtIn(events, among) == {i \in among : events[i] = "thought"}

FinalOutput(events, i) ==
  IF events[i] \in {"failed", "bare"} THEN {}
  ELSE SaidIn(events, 1..i) \cup ThoughtIn(events, 1..i)

ResponsesSSE(events) ==
  LET ends == Endings(events)
      final == IF ends = {} THEN {} ELSE FinalOutput(events, Max(ends))
  IN  [text |-> IF final # {} THEN final ELSE SaidIn(events, DOMAIN events),
       incomplete |-> ends = {} \/ events[Max(ends)] # "completed"]

-----------------------------------------------------------------------------
(* The media of a value: a block is the source of an image or a document,  *)
(* a file, inline data or a URL, with bytes of a type, encoded or as text  *)

IsMediaMIME(block) == block.mime = "media"

(* An image or document, unless its source is text.                        *)
IsAttachment(block) ==
  block.form = "source" => block.encoded \/ IsMediaMIME(block)

(* add: what is not a data URI is unresolved.                              *)
Attachment(block) ==
  [block |-> block, as |-> IF block.encoded \/ block.form \in {"source", "inline"}
                           THEN "resolved" ELSE "unresolved"]
Marked(what) == [block |-> NoText, as |-> what]

Size(blocks, among) == MapThenSumSet(LAMBDA i : blocks[i].size, among)

(* ExtractAttachments: too much in all is one attachment that says so, and *)
(* what lies beyond the bounds of the walk is marked.                      *)
ExtractAttachments(blocks) ==
  LET found == {i \in DOMAIN blocks : ~blocks[i].deep /\ IsAttachment(blocks[i])}
      deep == {i \in DOMAIN blocks : blocks[i].deep}
  IN  IF Size(blocks, found) > MediaLimit THEN {Marked("oversize")}
      ELSE {Attachment(blocks[i]) : i \in found} \cup {Marked("incomplete") : i \in deep}

(* omitMediaBytes, and mediaAuditText for the URLs.                        *)
OmitsBytes(block) ==
  CASE block.form = "source" -> block.encoded \/ IsMediaMIME(block)
    [] block.form = "file" -> TRUE
    [] block.form = "inline" -> IsMediaMIME(block)
    [] block.form = "url" -> block.encoded /\ IsMediaMIME(block)

(* policyValue: the blocks whose bytes stay in the text that is checked;   *)
(* what lies too deep is cut off.                                          *)
PolicyValue(blocks) ==
  {blocks[i] : i \in {j \in DOMAIN blocks : ~blocks[j].deep /\ ~OmitsBytes(blocks[j])}}

(* mediaContent: what the check of a tool is given of a value, where       *)
(* attachments are permitted.  Model calls have no such view.              *)
MediaContent(blocks) ==
  [text |-> PolicyValue(blocks), media |-> ExtractAttachments(blocks)]
=============================================================================
