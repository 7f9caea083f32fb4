---------------------------- MODULE StreamEvents ----------------------------
(* The events of the four streaming dialects, as upstreams send them and the *)
(* converters build them, and the state a converter keeps between two.       *)
(*                                                                           *)
(* A text is a sequence of symbols: "x" is any text without a tag in it, and *)
(* "<think>" is the two symbols "<" and "think>", since an event may end     *)
(* inside the tag. Token counts are told apart as none, reported by the      *)
(* upstream and estimated by the proxy.                                      *)
EXTENDS Naturals, Sequences, TLC

Reported  == 1
Estimated == 2

-----------------------------------------------------------------------------
(* Claude                                                                    *)

MessageStart == [type |-> "message_start"]

ContentBlockStart(i, kind, id, name) ==
    [type |-> "content_block_start", index |-> i, kind |-> kind, id |-> id, name |-> name]

ContentBlockDelta(i, kind, body) ==
    [type |-> "content_block_delta", index |-> i, kind |-> kind, body |-> body]

ContentBlockStop(i) == [type |-> "content_block_stop", index |-> i]

MessageDelta(reason, tokens) ==
    [type |-> "message_delta", reason |-> reason, usage |-> tokens]

MessageStop == [type |-> "message_stop"]

-----------------------------------------------------------------------------
(* OpenAI chat. "choices" is false in a chunk that only reports the usage.   *)

Chunk == [type |-> "chunk", choices |-> TRUE, content |-> <<>>, reasoning |-> <<>>,
          calls |-> <<>>, finish |-> "none", usage |-> 0]

ToolCallPart(i, id, name, arguments) ==
    [index |-> i, id |-> id, name |-> name, arguments |-> arguments]

buildOpenAIChunk(content, calls, finish, usage) ==
    [Chunk EXCEPT !.content = content, !.calls = calls, !.finish = finish, !.usage = usage]

Done == [type |-> "[DONE]"]

-----------------------------------------------------------------------------
(* OpenAI responses. The events that only repeat what another one says       *)
(* (content_part.added, output_text.done, ...) are part of their neighbour.  *)

Created == [type |-> "response.created"]

OutputItem(kind, id, name, arguments) ==
    [kind |-> kind, id |-> id, name |-> name, arguments |-> arguments]

MessageItem == OutputItem("text", "", "", <<>>)

ItemAdded(i, item) == [type |-> "response.output_item.added", index |-> i, item |-> item]

TextDelta(i, body) == [type |-> "response.output_text.delta", index |-> i, body |-> body]

ArgumentsDelta(i, body) ==
    [type |-> "response.function_call_arguments.delta", index |-> i, body |-> body]

ItemDone(i, item) == [type |-> "response.output_item.done", index |-> i, item |-> item]

Completed(usage) == [type |-> "response.completed", usage |-> usage]

-----------------------------------------------------------------------------
(* Gemini: a chunk has parts, and the last one a reason to finish.           *)

GeminiChunk(parts, finished, usage) ==
    [type |-> "gemini", parts |-> parts, finished |-> finished, usageMetadata |-> usage]

-----------------------------------------------------------------------------

NewStreamContext ==
    [ MessageStartSent     |-> FALSE, ContentBlockStarted |-> FALSE,
      ThinkingBlockStarted |-> FALSE, ToolBlockStarted    |-> FALSE,
      FinishReasonSent     |-> FALSE,
      ContentIndex         |-> 0,     ThinkingIndex       |-> 0,
      ToolIndex            |-> 0,     ToolCallCounter     |-> 0,
      CurrentToolID        |-> "",    CurrentToolName     |-> "",
      ToolArguments        |-> <<>>,  OutputTokens        |-> 0,
      InThinkingTag        |-> FALSE, ThinkingBuffer      |-> <<>> ]

(* A converter takes the context and an event and leaves the context and     *)
(* what is sent to the client: [ctx, sent].                                  *)
Silent(ctx) == [ctx |-> ctx, sent |-> <<>>]

Put(st, e) == [st EXCEPT !.sent = Append(@, e)]
=============================================================================
