---------------------------- MODULE WholeAnswers ----------------------------
(* What a client that does not stream gets of the same answer: the *RespTo*  *)
(* functions of internal/transformer/convert. "said" is the upstream's       *)
(* answer as the sequence of its parts; the result is the client's message   *)
(* as the sequence of its blocks.                                            *)
EXTENDS ClientView, ToClaude, ToOpenAI

Part(kind, body, id, name) == [kind |-> kind, body |-> body, id |-> id, name |-> name]

TextsOf(said) == Only(said, LAMBDA p : p.kind = "text")
CallsOf(said) == Only(said, LAMBDA p : p.kind = "tool_use")

(* One message with all of the text, then the calls.                         *)
TextThenCalls(said) == <<Part("text", Bodies(said, "text"), "", "")>> \o CallsOf(said)

(* Gemini's calls have no ids, the proxy counts them.                        *)
Numbered(calls) == [k \in DOMAIN calls |-> [calls[k] EXCEPT !.id = CounterId(k - 1)]]

OpenAIRespToClaude(said) == splitThinkTaggedText(Bodies(said, "text")) \o CallsOf(said)

OpenAI2RespToClaude(said) ==
    FlattenSeq([k \in DOMAIN said |-> IF said[k].kind = "text" THEN splitThinkTaggedText(said[k].body)
                                      ELSE <<said[k]>>])

GeminiRespToClaude(said) ==
    [k \in DOMAIN said |-> IF said[k].kind = "text" THEN said[k]
                           ELSE [said[k] EXCEPT !.id = CallNamed(said[k].name)]]

ClaudeRespToOpenAI(said)  == TextThenCalls(said)
OpenAI2RespToOpenAI(said) == TextThenCalls(said)

\* Mutant: the calls are left without ids.
GeminiRespToOpenAIUnnumbered(said) == TextThenCalls(said)

GeminiRespToOpenAI(said)  == TextThenCalls(TextsOf(said) \o Numbered(CallsOf(said)))

ClaudeRespToOpenAI2(said) == TextsOf(said) \o CallsOf(said)
OpenAIRespToOpenAI2(said) == TextThenCalls(said)
GeminiRespToOpenAI2(said) == TextsOf(said) \o Numbered(CallsOf(said))

Whole(from, to, said) ==
    CASE to = "claude"    /\ from = "chat"      -> OpenAIRespToClaude(said)
      [] to = "claude"    /\ from = "responses" -> OpenAI2RespToClaude(said)
      [] to = "claude"    /\ from = "gemini"    -> GeminiRespToClaude(said)
      [] to = "chat"      /\ from = "claude"    -> ClaudeRespToOpenAI(said)
      [] to = "chat"      /\ from = "responses" -> OpenAI2RespToOpenAI(said)
      [] to = "chat"      /\ from = "gemini"    -> GeminiRespToOpenAI(said)
      [] to = "responses" /\ from = "claude"    -> ClaudeRespToOpenAI2(said)
      [] to = "responses" /\ from = "chat"      -> OpenAIRespToOpenAI2(said)
      [] to = "responses" /\ from = "gemini"    -> GeminiRespToOpenAI2(said)
      [] OTHER -> said
=============================================================================
