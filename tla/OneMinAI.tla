------------------------------ MODULE OneMinAI ------------------------------
(* 1min.AI, which is asked with one prompt and answers with one text:        *)
(* internal/transformer/convert/minai.go. Of the text the proxy makes a      *)
(* stream of its own; the prompt is in the module Prompts.                   *)
EXTENDS StreamEvents, SequencesExt

CONSTANT ChunkSize     \* 24: the runes of one made-up delta

ASSUME OneMinAIAssumption == ChunkSize \in Nat \ {0}

(* The answer: the results that have any text, one per line.                 *)

Spoken(results) == SelectSeq(results, LAMBDA r : r # <<>>)

Fails(response) == ~response.ok \/ Spoken(response.results) = <<>>

ExtractOneMinAIAnswer(response) ==
    FoldLeft(LAMBDA text, r : IF text = <<>> THEN r ELSE text \o <<"newline">> \o r,
             <<>>, Spoken(response.results))

splitChunksRunes(text) ==
    [k \in 1..((Len(text) + ChunkSize - 1) \div ChunkSize) |->
        LET end == k * ChunkSize
        IN  SubSeq(text, end - ChunkSize + 1, IF end < Len(text) THEN end ELSE Len(text))]

Deltas(text, delta(_)) ==
    LET chunks == splitChunksRunes(text) IN [k \in DOMAIN chunks |-> delta(chunks[k])]

OneMinAIRespToClaudeSSE(text) ==
    <<MessageStart, ContentBlockStart(0, "text", "", "")>>
    \o Deltas(text, LAMBDA c : ContentBlockDelta(0, "text", c))
    \o <<ContentBlockStop(0), MessageDelta("end_turn", Estimated), MessageStop>>

OneMinAIRespToOpenAISSE(text) ==
    <<Chunk>>
    \o Deltas(text, LAMBDA c : [Chunk EXCEPT !.content = c])
    \o <<[Chunk EXCEPT !.finish = "stop", !.usage = Estimated], Done>>

OneMinAIRespToOpenAI2SSE(text) ==
    <<Created, ItemAdded(0, MessageItem)>>
    \o Deltas(text, LAMBDA c : TextDelta(0, c))
    \o <<ItemDone(0, MessageItem), Completed(Estimated), Done>>
=============================================================================
