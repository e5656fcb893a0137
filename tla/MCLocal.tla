------------------------------- MODULE MCLocal -------------------------------
(***************************************************************************)
(* A small platform for TLC: three rule sets, the second of which does not *)
(* compile and the third of which only warns, because its mode is unknown. *)
(***************************************************************************)
EXTENDS LocalControls

CONSTANTS db, chat, h1, w1

Enforcing == [mode |-> "enforce", disabled |-> {}, broken |-> {}, extra |-> TRUE,
              allows |-> TRUE, tools |-> {}, threshold |-> "", max |-> 1,
              includeNames |-> {}, includeTypes |-> {},
              excludeNames |-> {}, excludeTypes |-> {}]

MCRules ==
  << Enforcing,
     [Enforcing EXCEPT !.broken = {"prompt_injection"}],
     [Enforcing EXCEPT !.mode = "typo", !.threshold = "critical",
        !.disabled = {"secret_scan"}, !.broken = {"secret_scan"},
        !.includeNames = {db}, !.includeTypes = {"LLM"}] >>

Ask(content) == [stage |-> "pre_llm", name |-> chat, type |-> "LLM",
                 content |-> content, tokens |-> 1]
Call(content) == [stage |-> "tool_call", name |-> db, type |-> "TOOL",
                  content |-> content, tokens |-> 0]

(* A plain prompt, one with a credential, one with injections of two       *)
(* severities, and tool calls that mix warnings, denials and exemptions.   *)
MCRequest == {Ask({}), Ask({"orgKey"}), Ask({"hijack", "jailbreak"}),
              Call({"hijack", "grant"}), Call({"update", "where", "override"}),
              Call({"drop", "orgAllowed", "orgPhrase"})}
=============================================================================
