------------------------------- MODULE MCSeams -------------------------------
(***************************************************************************)
(* The seams between an agent and the Guard, each on a small instance for  *)
(* TLC: one model call through the transport, tool calls under scenario    *)
(* plans, the events that fill the agent's profile, the injections of an   *)
(* attack run, and the batched telemetry sink.  A behaviour exercises one  *)
(* of them, `seam`, while the others rest.                                 *)
(***************************************************************************)
EXTENDS ModelCall, ScenarioTools, AgentProfile, AttackChains, TelemetryBatch, TLC

CONSTANTS s1, s2, t1, t2, x, y, r1, r2, g1

-----------------------------------------------------------------------------
(* Model calls: every request, setting and response that differs in what   *)
(* the code looks at.                                                      *)
Turn(role, parts) == [role |-> role, shape |-> "text", parts |-> parts]
Body(system, chat) ==
  [system |-> system, messages |-> TRUE, typed |-> TRUE, continues |-> FALSE, chat |-> chat]
MCFragment == {"u1", "u2", "a1", "a2", "s1", "t1", "o1", NoText, Adversary, Secret}
Short == Body({}, <<Turn("user", {"u1"})>>)
Long == Body({"s1"}, <<Turn("user", {"u1"}), Turn("assistant", {"a1"}),
                       Turn("user", {NoText, "u2"}), Turn("tool", {"t1"})>>)
Typed == Body({"s1"}, <<Turn("user", {"u1"}), Turn("reasoning", {Secret, "a1"}),
                        Turn("item_reference", {"a2"}), Turn("unsummarised", {Secret, "o1"}),
                        Turn("assistant", {"a1"}), Turn("tool", {"t1"})>>)
Contents == {Short, Long, [Long EXCEPT !.typed = FALSE], [Short EXCEPT !.messages = FALSE],
             [Long EXCEPT !.chat[3].shape = "other"]}

Block1 == [form |-> "source", mime |-> "media", encoded |-> TRUE, size |-> 1, deep |-> FALSE]
Medias == {<<Block1>>, <<Block1, [Block1 EXCEPT !.form = "url", !.size = 2]>>}
  \cup {<<[form |-> f, mime |-> m, encoded |-> e, size |-> 0, deep |-> d]>> :
          f \in {"source", "file", "inline", "url"}, m \in {"media", "text"},
          e \in BOOLEAN, d \in BOOLEAN}

Call(host, path, post, b, content, media) ==
  [host |-> host, path |-> path, post |-> post, body |-> b, content |-> content,
   media |-> media]
MCControl ==
  {Call("openai", "completions", TRUE, b, Short, m) :
     b \in {"none", "broken", "garbled", "ok"}, m \in {<<>>, <<Block1>>}}
  \cup {Call("openai", "responses", p, b, Short, <<>>) :
     p \in BOOLEAN, b \in {"none", "broken", "garbled", "background", "ok"}}
  \cup {Call("other", "other", TRUE, "ok", Short, <<>>)}
Routes == {<<"openai", "completions">>, <<"anthropic", "messages">>,
           <<"anthropic", "completions">>, <<"google", "models">>,
           <<"google", "completions">>, <<"vertex", "google">>, <<"vertex", "claude">>,
           <<"vertex", "completions">>, <<"gateway", "completions">>}
MCData ==
  {Call(r[1], r[2], TRUE, "ok", c, <<>>) : r \in Routes, c \in Contents}
  \cup {Call("openai", "completions", TRUE, "ok", Short, m) : m \in Medias}
  \cup {Call("openai", "responses", TRUE, "ok", c, <<>>) : c \in {Short, Typed}}
MCRequest == MCControl \cup MCData
MCSetting == [proxy : BOOLEAN, direct : BOOLEAN, media : BOOLEAN, attack : BOOLEAN,
              inspect : BOOLEAN]
Said == {Turn("reasoning", {Secret, "a1"}), Turn("unsummarised", {Secret, "a2"}),
         Turn("assistant", {"o1"})}
Silent == {Turn("assistant", {NoText})}
Events == {<<>>, <<"text">>, <<"silent", "text">>, <<"text", "long", "text">>,
           <<"text", "text", "completed">>, <<"text", "bare">>, <<"text", "failed">>,
           <<"text", "incomplete", "silent">>, <<"thought", "text">>,
           <<"thought", "text", "completed">>, <<"thought", "bare">>}
Answer(ok, kind, status, said, events) ==
  [ok |-> ok, kind |-> kind, status |-> status, said |-> said, events |-> events]
MCAnswer ==
  {Answer(ok, k, "completed", Said, <<"text", "silent", "completed">>) :
     ok \in BOOLEAN, k \in {"missing", "broken", "sse", "packed"}}
  \cup {Answer(ok, "json", st, said, <<>>) :
     ok \in BOOLEAN, st \in {"completed", "incomplete", "failed"}, said \in {Silent, Said}}
MCResponse == MCAnswer \cup {Answer(TRUE, "sse", "completed", Said, e) : e \in Events}

-----------------------------------------------------------------------------
(* A plan that fails unmatched calls, one that lets them through and whose *)
(* rules conflict, and one that is refused; tool t1 and t2.                *)
Rule(id, tool, accepts, required) ==
  [id |-> id, enabled |-> TRUE, tool |-> tool, occurrence |-> 1, accepts |-> accepts,
   required |-> required]
Strict == [session |-> s1, fallback |-> "fail", flaw |-> "none",
           rules |-> {Rule("read", t1, {x}, 1), Rule("send", t2, {x}, 0)}]
Loose == [session |-> s1, fallback |-> "passthrough", flaw |-> "none",
          rules |-> {Rule("read", t1, {x}, 1), Rule("any", t1, {x, y}, 0)}]
Flawed == [Strict EXCEPT !.flaw = "scope"]

MCPlan == {Strict, Loose, Flawed}
MCBlock == {[run |-> r1, plan |-> Strict, baseline |-> FALSE],
            [run |-> r1, plan |-> Loose, baseline |-> FALSE],
            [run |-> r1, plan |-> Strict, baseline |-> TRUE],
            [run |-> r2, plan |-> Flawed, baseline |-> FALSE]}
MCInvocation == {[session |-> s1, run |-> r1, plan |-> p] : p \in {NoPlan, Strict}}
MCCall == {[session |-> s1, tool |-> t1, arg |-> x, allow |-> TRUE],
           [session |-> s1, tool |-> t1, arg |-> y, allow |-> TRUE],
           [session |-> s1, tool |-> t2, arg |-> y, allow |-> TRUE],
           [session |-> s1, tool |-> t2, arg |-> x, allow |-> FALSE],
           [session |-> s2, tool |-> t1, arg |-> x, allow |-> TRUE]}

-----------------------------------------------------------------------------
(* A declared tool, another that is only seen to run, and model calls.     *)
MCRisk == [t \in ToolName |-> IF t = t1 THEN "critical" ELSE "high"]
MCCategory == [t \in ToolName |-> IF t = t1 THEN "financial" ELSE "other"]
MCObservation == {[type |-> "llm", models |-> {g1}, text |-> TRUE],
                  [type |-> "tool", tool |-> t2]}
MCManifest == {[tools |-> {t1}, models |-> {g1}]}

(* Explicit chains with a step for the wrong kind of call and payloads of   *)
(* the wrong shape, default chains with an evolved step, and observation.  *)
Def(strategy, type, name, payload) ==
  [strategy |-> strategy, type |-> type, name |-> name, payload |-> payload]
Chained == [mode |-> "attack", max |-> 0, range |-> <<>>, evolved |-> <<>>,
            chains |-> <<<<Def("", "", "", "text"), Def("tool_poison", "tool", t1, "map")>>,
                         <<Def("config_inject", "tool", "*", "text"),
                           Def("error_inject", "tool", "", "map")>>,
                         <<Def("config_inject", "llm", "*", "none")>>>>]
Derived == [mode |-> "attack", max |-> 1, range |-> <<1, 1>>, chains |-> <<>>,
            evolved |-> <<Def("memory_poison", "tool", t2, "default")>>]
MCAttack == {Chained, Derived, [Derived EXCEPT !.mode = ""]}
MCProfiled == <<[name |-> t1, risky |-> TRUE], [name |-> t2, risky |-> FALSE]>>
MCTarget == {[type |-> "llm", name |-> g1], [type |-> "tool", name |-> t1],
             [type |-> "tool", name |-> t2]}

Workers == Permutations(Worker)

-----------------------------------------------------------------------------
VARIABLE seam

(* A call differs from the usual one in its control or in its data.        *)
Instance ==
  \/ req \in MCControl /\ resp \in MCAnswer
  \/ /\ req \in MCData /\ set.inspect /\ set.direct /\ ~set.proxy
     /\ resp.kind \in {"json", "sse"} /\ resp.ok
     /\ resp.kind = "sse" => req.content \in {Short, Typed} /\ ~set.attack /\ ~set.media

SeamInit ==
  /\ seam \in {"call", "tools", "profile", "attack", "sink"}
  /\ ScenarioInit /\ ProfileInit /\ AttackInit /\ BatchInit
  /\ IF seam = "call" THEN CallInit /\ Instance
     ELSE /\ CallInit /\ req = CHOOSE q \in CallRequest : TRUE
          /\ set = (CHOOSE q \in Setting : TRUE) /\ resp = CHOOSE q \in Response : TRUE

SeamNext ==
  /\ UNCHANGED seam
  /\ IF seam = "call" THEN CallNext ELSE UNCHANGED modelVars
  /\ IF seam = "tools" THEN ScenarioNext ELSE UNCHANGED scenarioVars
  /\ IF seam = "profile" THEN ProfileNext ELSE UNCHANGED profileVars
  /\ IF seam = "attack" THEN AttackNext ELSE UNCHANGED attackVars
  /\ IF seam = "sink" THEN BatchNext ELSE UNCHANGED batchVars

SeamSpec ==
  SeamInit /\ [][SeamNext]_<<seam, modelVars, scenarioVars, profileVars, attackVars, batchVars>>
=============================================================================
