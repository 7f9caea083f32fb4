------------------------------ MODULE ToClaude ------------------------------
(* The converters that make a Claude stream of another dialect's events:     *)
(* internal/transformer/convert, *StreamToClaude, and what they share.       *)
EXTENDS StreamEvents, SequencesExt, Filters

CloseThinking(st) ==
    IF ~st.ctx.ThinkingBlockStarted THEN st
    ELSE [Put(st, ContentBlockStop(st.ctx.ThinkingIndex)) EXCEPT !.ctx.ThinkingBlockStarted = FALSE]

CloseText(st) ==
    IF ~st.ctx.ContentBlockStarted THEN st
    ELSE [Put(st, ContentBlockStop(st.ctx.ContentIndex)) EXCEPT !.ctx.ContentBlockStarted = FALSE]

CloseTool(st) ==
    IF ~st.ctx.ToolBlockStarted THEN st
    ELSE [Put(st, ContentBlockStop(st.ctx.ToolIndex)) EXCEPT !.ctx.ToolBlockStarted = FALSE]

(* Close, and give the next block an index of its own.                       *)
LeaveText(st) ==
    IF st.ctx.ContentBlockStarted THEN [CloseText(st) EXCEPT !.ctx.ContentIndex = @ + 1] ELSE st

OpenThinking(st) ==
    LET i == st.ctx.ContentIndex
    IN  IF st.ctx.ThinkingBlockStarted THEN st
        ELSE [Put(st, ContentBlockStart(i, "thinking", "", ""))
                EXCEPT !.ctx.ThinkingBlockStarted = TRUE,
                       !.ctx.ThinkingIndex = i, !.ctx.ContentIndex = i + 1]

StartMessage(st) ==
    IF st.ctx.MessageStartSent THEN st
    ELSE [Put(st, MessageStart) EXCEPT !.ctx.MessageStartSent = TRUE]

-----------------------------------------------------------------------------
(* Text with <think> tags                                                    *)

emitText(st, text) ==
    LET i == st.ctx.ContentIndex
        opened == IF st.ctx.ContentBlockStarted THEN st
                  ELSE [Put(st, ContentBlockStart(i, "text", "", ""))
                          EXCEPT !.ctx.ContentBlockStarted = TRUE]
    IN  IF text = <<>> THEN st ELSE Put(opened, ContentBlockDelta(i, "text", text))

emitThinking(st, text) ==
    LET opened == IF st.ctx.ThinkingBlockStarted THEN st ELSE OpenThinking(LeaveText(st))
    IN  IF text = <<>> THEN st
        ELSE Put(opened, ContentBlockDelta(opened.ctx.ThinkingIndex, "thinking", text))

emitTextWithClose(st, text) ==
    IF text = <<>> THEN st
    ELSE emitText(IF st.ctx.ContentBlockStarted THEN st ELSE CloseThinking(st), text)

emitThinkingWithClose(st, text) ==
    IF text = <<>> THEN st ELSE CloseThinking(emitThinking(st, text))

(* Reading on from a text: "runs" are its pieces so far, each inside or      *)
(* outside of a tag, the last one unfinished, and "held" is a "<" that may   *)
(* be the beginning of one.                                                  *)
ScanFrom(inside) == [runs |-> <<[inside |-> inside, body |-> <<>>]>>, held |-> <<>>]

Inside(scan) == Last(scan.runs).inside

Scan(scan, y) ==
    LET n == Len(scan.runs)
        tag == scan.held # <<>> /\ y = (IF Inside(scan) THEN "/think>" ELSE "think>")
        grown(more) == [scan.runs EXCEPT ![n].body = @ \o more]
    IN  IF tag THEN [runs |-> Append(scan.runs, [inside |-> ~Inside(scan), body |-> <<>>]), held |-> <<>>]
        ELSE IF y = "<" THEN [runs |-> grown(scan.held), held |-> <<y>>]
        ELSE [runs |-> grown(Append(scan.held, y)), held |-> <<>>]

EmitRun(st, run) ==
    IF run.inside THEN emitThinkingWithClose(st, run.body) ELSE emitTextWithClose(st, run.body)

consumeThinkTaggedStream(st, content) ==
    LET scan == FoldLeft(Scan, ScanFrom(st.ctx.InThinkingTag), content)
        emitted == FoldLeft(EmitRun, st, scan.runs)
    IN  [emitted EXCEPT !.ctx.InThinkingTag = Inside(scan), !.ctx.ThinkingBuffer = scan.held]

\* Mutant: what was held back is not put before the next delta.
ConsumeDeltaAlone(st, delta) == IF delta = <<>> THEN st ELSE consumeThinkTaggedStream(st, delta)

ConsumeDelta(st, delta) ==
    IF delta = <<>> THEN st
    ELSE consumeThinkTaggedStream(st, st.ctx.ThinkingBuffer \o delta)

flushThinkTaggedStream(st) ==
    LET held == st.ctx.ThinkingBuffer
        flushed == IF st.ctx.InThinkingTag THEN emitThinking(st, held) ELSE emitText(st, held)
    IN  [flushed EXCEPT !.ctx.InThinkingTag = FALSE, !.ctx.ThinkingBuffer = <<>>]

(* The same text as a whole: what follows a tag that is never closed is text.*)
splitThinkTaggedText(text) ==
    LET scan == FoldLeft(Scan, ScanFrom(FALSE), text)
        n    == Len(scan.runs)
        block(k) == [kind |-> IF k < n /\ scan.runs[k].inside THEN "thinking" ELSE "text",
                     body |-> IF k < n THEN scan.runs[k].body ELSE scan.runs[k].body \o scan.held,
                     id |-> "", name |-> ""]
    IN  Only([k \in 1..n |-> block(k)], LAMBDA b : b.body # <<>>)

-----------------------------------------------------------------------------
(* From OpenAI chat                                                          *)

\* Mutant: the text stays open when a call begins.
ChatToolCallInText(st, tc) ==
    LET i    == st.ctx.ContentIndex + 1
        open == IF tc.id = "" THEN st
                ELSE [Put(CloseThinking(st), ContentBlockStart(i, "tool_use", tc.id, tc.name))
                        EXCEPT !.ctx.ToolBlockStarted = TRUE, !.ctx.ToolIndex = i,
                               !.ctx.ContentIndex = i, !.ctx.ThinkingBlockStarted = FALSE]
    IN  IF tc.arguments = <<>> THEN open
        ELSE Put(open, ContentBlockDelta(open.ctx.ToolIndex, "tool_use", tc.arguments))

ChatToolCall(st, tc) ==
    LET left == LeaveText(CloseThinking(st))
        free == IF left.ctx.ToolBlockStarted
                THEN [CloseTool(left) EXCEPT !.ctx.ContentIndex = @ + 1] ELSE left
        i    == free.ctx.ContentIndex
        open == IF tc.id = "" THEN st
                ELSE [Put(free, ContentBlockStart(i, "tool_use", tc.id, tc.name))
                        EXCEPT !.ctx.ToolBlockStarted = TRUE, !.ctx.ToolIndex = i,
                               !.ctx.CurrentToolID = tc.id, !.ctx.CurrentToolName = tc.name,
                               !.ctx.ToolArguments = <<>>]
    IN  IF tc.arguments = <<>> THEN open
        ELSE [Put(open, ContentBlockDelta(open.ctx.ToolIndex, "tool_use", tc.arguments))
                EXCEPT !.ctx.ToolArguments = @ \o tc.arguments]

ChatReasoning(st, text) ==
    IF text = <<>> THEN st
    ELSE LET opened == OpenThinking(st)
         IN  Put(opened, ContentBlockDelta(opened.ctx.ThinkingIndex, "thinking", text))

CloseAll(st) == CloseTool(CloseText(CloseThinking(st)))

ChatFinish(st, finish) ==
    IF finish = "none" THEN st
    ELSE [Put(CloseAll(st), MessageDelta(IF finish = "tool_calls" THEN "tool_use" ELSE "end_turn", 0))
            EXCEPT !.ctx.FinishReasonSent = TRUE]

ChatDone(st) ==
    LET closed == CloseAll(flushThinkTaggedStream(st))
    IN  Put(IF closed.ctx.FinishReasonSent THEN closed
            ELSE Put(closed, MessageDelta("end_turn", 0)), MessageStop)

OnlyUsage(e) ==
    /\ e.usage > 0 /\ e.content = <<>> /\ e.reasoning = <<>> /\ e.calls = <<>> /\ e.finish = "none"

OpenAIStreamToClaude(ctx, e) ==
    LET started == StartMessage(Silent(ctx))
        usage   == IF e.usage > 0 THEN Put(started, MessageDelta("none", e.usage)) ELSE started
        spoken  == ConsumeDelta(ChatReasoning(started, e.reasoning), e.content)
    IN  IF e.type = "[DONE]" THEN ChatDone(Silent(ctx))
        ELSE IF ~e.choices \/ OnlyUsage(e) THEN usage
        ELSE ChatFinish(FoldLeft(ChatToolCall, spoken, e.calls), e.finish)

-----------------------------------------------------------------------------
(* From OpenAI responses                                                     *)

ResponsesItemAdded(st, item) ==
    LET free == LeaveText(CloseThinking(st))
        i    == free.ctx.ContentIndex
    IN  IF item.kind # "tool_use" THEN st
        ELSE [Put(free, ContentBlockStart(i, "tool_use", item.id, item.name))
                EXCEPT !.ctx.ToolBlockStarted = TRUE, !.ctx.ToolIndex = i,
                       !.ctx.CurrentToolID = item.id, !.ctx.CurrentToolName = item.name,
                       !.ctx.ToolArguments = <<>>]

ResponsesArguments(st, delta) ==
    IF ~st.ctx.ToolBlockStarted THEN st
    ELSE [Put(st, ContentBlockDelta(st.ctx.ToolIndex, "tool_use", delta))
            EXCEPT !.ctx.ToolArguments = @ \o delta]

ResponsesItemDone(st, item) ==
    IF item.kind = "tool_use" /\ st.ctx.ToolBlockStarted
    THEN [CloseTool(st) EXCEPT !.ctx.ContentIndex = @ + 1] ELSE st

Counted(st, usage) == IF usage > 0 THEN [st EXCEPT !.ctx.OutputTokens = usage] ELSE st

\* Mutant: a call in the first block is not counted as one.
ResponsesCompletedAfterText(st, usage) ==
    LET closed == CloseText(CloseThinking(flushThinkTaggedStream(Counted(st, usage))))
    IN  [Put(Put(closed, MessageDelta(IF closed.ctx.ToolIndex > 0 THEN "tool_use" ELSE "end_turn",
                                      closed.ctx.OutputTokens)), MessageStop)
            EXCEPT !.ctx.FinishReasonSent = TRUE]

ResponsesCompleted(st, usage) ==
    LET closed == CloseText(CloseThinking(flushThinkTaggedStream(Counted(st, usage))))
        called == closed.ctx.ToolIndex > 0 \/ closed.ctx.CurrentToolID # ""
    IN  [Put(Put(closed, MessageDelta(IF called THEN "tool_use" ELSE "end_turn", closed.ctx.OutputTokens)),
             MessageStop) EXCEPT !.ctx.FinishReasonSent = TRUE]

ResponsesDone(st) ==
    LET closed == CloseAll(flushThinkTaggedStream(st))
    IN  IF closed.ctx.FinishReasonSent THEN closed
        ELSE [Put(closed, MessageStop) EXCEPT !.ctx.FinishReasonSent = TRUE]

OpenAI2StreamToClaude(ctx, e) ==
    LET st == Silent(ctx)
    IN  CASE e.type = "response.created" -> Put(st, MessageStart)
          [] e.type = "response.output_text.delta" -> ConsumeDelta(st, e.body)
          [] e.type = "response.output_item.added" -> ResponsesItemAdded(st, e.item)
          [] e.type = "response.function_call_arguments.delta" -> ResponsesArguments(st, e.body)
          [] e.type = "response.output_item.done" -> ResponsesItemDone(st, e.item)
          [] e.type = "response.completed" -> ResponsesCompleted(st, e.usage)
          [] e.type = "[DONE]" -> ResponsesDone(st)

-----------------------------------------------------------------------------
(* From Gemini, which sends a call as a whole                                *)

CallNamed(name) == "call_" \o name

GeminiPart(st, part) ==
    LET left == LeaveText(st)
        i    == left.ctx.ContentIndex
        call == Put(Put(Put(left, ContentBlockStart(i, "tool_use", CallNamed(part.name), part.name)),
                        ContentBlockDelta(i, "tool_use", part.body)), ContentBlockStop(i))
    IN  IF part.kind = "text" THEN emitText(st, part.body)
        ELSE [call EXCEPT !.ctx.ContentIndex = @ + 1]

HasCall(parts) == \E k \in DOMAIN parts : parts[k].kind = "tool_use"

\* Mutant: a chunk that reports the usage is taken for the last one.
GeminiFinishOnUsage(st, e) ==
    IF ~e.finished /\ e.usageMetadata = 0 THEN st
    ELSE [Put(Put(CloseText(st), MessageDelta(IF HasCall(e.parts) THEN "tool_use" ELSE "end_turn",
                                              st.ctx.OutputTokens)), MessageStop)
            EXCEPT !.ctx.FinishReasonSent = TRUE]

GeminiFinish(st, e) ==
    IF ~e.finished THEN st
    ELSE [Put(Put(CloseText(st), MessageDelta(IF HasCall(e.parts) THEN "tool_use" ELSE "end_turn",
                                              st.ctx.OutputTokens)), MessageStop)
            EXCEPT !.ctx.FinishReasonSent = TRUE]

GeminiDone(st) ==
    LET closed == CloseText(st)
    IN  Put(IF closed.ctx.FinishReasonSent THEN closed
            ELSE Put(closed, MessageDelta("end_turn", closed.ctx.OutputTokens)), MessageStop)

GeminiStreamToClaude(ctx, e) ==
    IF e.type = "[DONE]" THEN GeminiDone(Silent(ctx))
    ELSE GeminiFinish(FoldLeft(GeminiPart, StartMessage(Counted(Silent(ctx), e.usageMetadata)), e.parts), e)
=============================================================================
