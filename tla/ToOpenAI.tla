------------------------------ MODULE ToOpenAI ------------------------------
(* The converters that make a chat or a responses stream of another          *)
(* dialect's events: internal/transformer/convert, *StreamToOpenAI and       *)
(* *StreamToOpenAI2.                                                         *)
EXTENDS StreamEvents, SequencesExt

TextChunk(body) == buildOpenAIChunk(body, <<>>, "none", 0)
CallChunk(i, id, name, arguments) ==
    buildOpenAIChunk(<<>>, <<ToolCallPart(i, id, name, arguments)>>, "none", 0)
FinishChunk(finish, usage) == buildOpenAIChunk(<<>>, <<>>, finish, usage)

Finish(called) == IF called THEN "tool_calls" ELSE "stop"

CounterId(n) == "call_" \o ToString(n)

-----------------------------------------------------------------------------
(* To chat, from Claude: a call is held back until its block ends            *)
ClaudeStreamToOpenAI(ctx, e) ==
    LET st == Silent(ctx)
    IN  CASE e.type = "content_block_start" /\ e.kind = "tool_use" ->
               [st EXCEPT !.ctx.ToolBlockStarted = TRUE,
                          !.ctx.CurrentToolID = e.id, !.ctx.CurrentToolName = e.name]
          [] e.type = "content_block_delta" /\ e.kind = "text" -> Put(st, TextChunk(e.body))
          [] e.type = "content_block_delta" /\ e.kind = "tool_use" ->
               [st EXCEPT !.ctx.ToolArguments = @ \o e.body]
          [] e.type = "content_block_stop" /\ ctx.ToolBlockStarted ->
               [Put(st, CallChunk(ctx.ContentIndex, ctx.CurrentToolID, ctx.CurrentToolName, ctx.ToolArguments))
                  EXCEPT !.ctx.ToolBlockStarted = FALSE, !.ctx.ToolArguments = <<>>,
                         !.ctx.ContentIndex = @ + 1]
          [] e.type = "message_delta" -> Put(st, FinishChunk(Finish(e.reason = "tool_use"), 0))
          [] e.type = "message_stop" -> Put(st, Done)
          [] OTHER -> st

(* To chat, from responses: the same, but every call has the same index      *)
OpenAI2StreamToOpenAI(ctx, e) ==
    LET st == Silent(ctx)
        counted == IF e.usage > 0 THEN [st EXCEPT !.ctx.OutputTokens = e.usage] ELSE st
    IN  CASE e.type = "response.output_text.delta" -> Put(st, TextChunk(e.body))
          [] e.type = "response.output_item.added" /\ e.item.kind = "tool_use" ->
               [st EXCEPT !.ctx.ToolBlockStarted = TRUE, !.ctx.CurrentToolID = e.item.id,
                          !.ctx.CurrentToolName = e.item.name, !.ctx.ToolArguments = <<>>]
          [] e.type = "response.function_call_arguments.delta" /\ ctx.ToolBlockStarted ->
               [st EXCEPT !.ctx.ToolArguments = @ \o e.body]
          [] e.type = "response.output_item.done" /\ e.item.kind = "tool_use" /\ ctx.ToolBlockStarted ->
               [Put(st, CallChunk(ctx.ToolIndex, ctx.CurrentToolID, ctx.CurrentToolName, ctx.ToolArguments))
                  EXCEPT !.ctx.ToolBlockStarted = FALSE]
          [] e.type = "response.completed" ->
               Put(counted, FinishChunk(Finish(ctx.CurrentToolID # ""), counted.ctx.OutputTokens))
          [] e.type = "[DONE]" -> Put(st, Done)
          [] OTHER -> st

(* To chat, from Gemini                                                      *)
GeminiPartToChat(st, part) ==
    LET i == st.ctx.ContentIndex
    IN  IF part.kind = "text" THEN Put(st, TextChunk(part.body))
        ELSE [Put(st, CallChunk(i, CounterId(i), part.name, part.body)) EXCEPT !.ctx.ContentIndex = i + 1]

GeminiStreamToOpenAI(ctx, e) ==
    LET counted == IF e.usageMetadata > 0 THEN [Silent(ctx) EXCEPT !.ctx.OutputTokens = e.usageMetadata]
                   ELSE Silent(ctx)
        spoken  == FoldLeft(GeminiPartToChat, counted, e.parts)
        called  == \E k \in DOMAIN e.parts : e.parts[k].kind = "tool_use"
    IN  IF e.type = "[DONE]" THEN Put(Silent(ctx), Done)
        ELSE IF ~e.finished THEN spoken
        ELSE Put(Put(spoken, FinishChunk(Finish(called), spoken.ctx.OutputTokens)), Done)

-----------------------------------------------------------------------------
(* To responses: the text is item 0                                          *)

CreateResponse(st) ==
    IF st.ctx.MessageStartSent THEN st
    ELSE [Put(st, Created) EXCEPT !.ctx.MessageStartSent = TRUE]

SpeakItem(st, body) ==
    LET opened == IF st.ctx.ContentBlockStarted THEN st
                  ELSE [Put(st, ItemAdded(0, MessageItem)) EXCEPT !.ctx.ContentBlockStarted = TRUE]
    IN  IF body = <<>> THEN st ELSE Put(opened, TextDelta(0, body))

CloseItem(st) ==
    IF ~st.ctx.ContentBlockStarted THEN st
    ELSE [Put(st, ItemDone(0, MessageItem)) EXCEPT !.ctx.ContentBlockStarted = FALSE]

Complete(st) == Put(Put(st, Completed(st.ctx.OutputTokens)), Done)

CallItem(st) ==
    OutputItem("tool_use", st.ctx.CurrentToolID, st.ctx.CurrentToolName, st.ctx.ToolArguments)

(* From chat: calls are items 1, 2, ..., and only the last one is ended      *)
ChatCallToItem(st, tc) ==
    LET i == tc.index + 1
        opened == IF tc.id = "" THEN st
                  ELSE [Put(st, ItemAdded(i, OutputItem("tool_use", tc.id, tc.name, <<>>)))
                          EXCEPT !.ctx.ToolCallCounter = @ + 1, !.ctx.CurrentToolID = tc.id,
                                 !.ctx.CurrentToolName = tc.name, !.ctx.ToolArguments = <<>>]
    IN  IF tc.arguments = <<>> THEN opened
        ELSE [Put(opened, ArgumentsDelta(i, tc.arguments)) EXCEPT !.ctx.ToolArguments = @ \o tc.arguments]

ChatFinishToItems(st, finish) ==
    LET closed == CloseItem(st)
        called == IF finish = "tool_calls" /\ st.ctx.CurrentToolID # ""
                  THEN Put(closed, ItemDone(1, CallItem(closed))) ELSE closed
    IN  IF finish = "none" THEN st ELSE [Complete(called) EXCEPT !.ctx.FinishReasonSent = TRUE]

(* At [DONE] without a finish reason the text's item is told to be done, and *)
(* the context is not told.                                                  *)
OpenAIStreamToOpenAI2(ctx, e) ==
    LET st == Silent(ctx)
        created == CreateResponse(st)
    IN  IF e.type = "[DONE]"
        THEN IF ctx.FinishReasonSent THEN st
             ELSE Complete([CloseItem(st) EXCEPT !.ctx.ContentBlockStarted = ctx.ContentBlockStarted])
        ELSE IF ~e.choices THEN created
        ELSE ChatFinishToItems(FoldLeft(ChatCallToItem, SpeakItem(created, e.content), e.calls), e.finish)

(* From Claude: items keep the indices of the blocks                         *)
ClaudeBlockStarts(st, e) ==
    CASE e.kind = "text" ->
           [Put(st, ItemAdded(e.index, MessageItem))
              EXCEPT !.ctx.ContentBlockStarted = TRUE, !.ctx.ContentIndex = e.index]
      [] e.kind = "tool_use" ->
           [Put(st, ItemAdded(e.index, OutputItem("tool_use", e.id, e.name, <<>>)))
              EXCEPT !.ctx.ToolBlockStarted = TRUE, !.ctx.ToolIndex = e.index,
                     !.ctx.CurrentToolID = e.id, !.ctx.CurrentToolName = e.name]
      [] OTHER -> st

ClaudeBlockGrows(st, e) ==
    CASE e.kind = "text" -> Put(st, TextDelta(st.ctx.ContentIndex, e.body))
      [] e.kind = "tool_use" -> [Put(st, ArgumentsDelta(st.ctx.ToolIndex, e.body))
                                   EXCEPT !.ctx.ToolArguments = @ \o e.body]
      [] OTHER -> st

ClaudeBlockStops(st, e) ==
    IF st.ctx.ToolBlockStarted /\ e.index = st.ctx.ToolIndex
    THEN [Put(st, ItemDone(e.index, CallItem(st)))
            EXCEPT !.ctx.ToolBlockStarted = FALSE, !.ctx.ToolArguments = <<>>]
    ELSE IF st.ctx.ContentBlockStarted /\ e.index = st.ctx.ContentIndex
    THEN [Put(st, ItemDone(e.index, MessageItem)) EXCEPT !.ctx.ContentBlockStarted = FALSE]
    ELSE st

ClaudeStreamToOpenAI2(ctx, e) ==
    LET st == Silent(ctx)
    IN  CASE e.type = "message_start"       -> Put(st, Created)
          [] e.type = "content_block_start" -> ClaudeBlockStarts(st, e)
          [] e.type = "content_block_delta" -> ClaudeBlockGrows(st, e)
          [] e.type = "content_block_stop"  -> ClaudeBlockStops(st, e)
          [] e.type = "message_delta"       -> [st EXCEPT !.ctx.OutputTokens = e.usage]
          [] e.type = "message_stop"        -> Complete(st)

(* From Gemini                                                               *)
GeminiPartToItem(st, part) ==
    LET n == st.ctx.ToolCallCounter
        item(arguments) == OutputItem("tool_use", CounterId(n), part.name, arguments)
    IN  IF part.kind = "text" THEN SpeakItem(st, part.body)
        ELSE [Put(Put(st, ItemAdded(n + 1, item(<<>>))), ItemDone(n + 1, item(part.body)))
                EXCEPT !.ctx.ToolCallCounter = n + 1]

GeminiStreamToOpenAI2(ctx, e) ==
    LET counted == IF e.usageMetadata > 0 THEN [Silent(ctx) EXCEPT !.ctx.OutputTokens = e.usageMetadata]
                   ELSE Silent(ctx)
        spoken  == FoldLeft(GeminiPartToItem, CreateResponse(counted), e.parts)
    IN  IF e.type = "[DONE]"
        THEN Complete([CloseItem(Silent(ctx)) EXCEPT !.ctx.ContentBlockStarted = ctx.ContentBlockStarted])
        ELSE IF e.finished THEN Complete(CloseItem(spoken)) ELSE spoken
=============================================================================
