------------------------- MODULE StreamRelay_proofs -------------------------
(***************************************************************************)
(* Proofs about the stream relay: what a converter sends at one event of   *)
(* the upstream, and that neither an end nor a reason to finish is made up *)
(* before the upstream has given one, nor the usage it reported lost.      *)
(***************************************************************************)
EXTENDS StreamRelay, TLAPS

(***************************************************************************)
(* Sequences                                                               *)
(***************************************************************************)
(* Some finite sequence, whatever its elements.                              *)
IsSeq(s) == s \in Seq({s[k] : k \in DOMAIN s})

(* A sequence with one element more is a sequence.                           *)
LEMMA SeqAppend ==
  ASSUME NEW s, IsSeq(s), NEW e
  PROVE  IsSeq(Append(s, e)) /\ << >> \o s = s
  <1> DEFINE E == {s[k] : k \in DOMAIN s}
             t == Append(s, e)
             F == {t[k] : k \in DOMAIN t}
  <1>1. s \in Seq(E)
    BY DEF IsSeq
  <1>2. Len(s) \in Nat /\ DOMAIN s = 1..Len(s)
    BY <1>1
  <1>3. DOMAIN t = 1..Len(s) + 1 /\ Len(t) = Len(s) + 1
    BY <1>1
  <1>4. t \in Seq(E \cup {e})
    BY <1>1
  <1>5. t \in Seq(F)
    BY <1>4
  <1> QED
    BY <1>1, <1>5 DEF IsSeq

(* Two sequences put together are a sequence.                                *)
LEMMA SeqConcat ==
  ASSUME NEW s, IsSeq(s), NEW t, IsSeq(t)
  PROVE  IsSeq(s \o t)
  <1> DEFINE E == {s[k] : k \in DOMAIN s} \cup {t[k] : k \in DOMAIN t}
             u == s \o t
  <1>1. s \in Seq(E) /\ t \in Seq(E)
    BY DEF IsSeq
  <1> HIDE DEF E
  <1>2. u \in Seq(E)
    BY <1>1
  <1> HIDE DEF u
  <1>3. u \in Seq({u[k] : k \in DOMAIN u})
    BY <1>2
  <1> QED
    BY <1>3 DEF IsSeq, u

(***************************************************************************)
(* The turn of a converter: the context, and what is sent at one event     *)
(***************************************************************************)
ContextFields ==
    { "MessageStartSent", "ContentBlockStarted", "ThinkingBlockStarted", "ToolBlockStarted",
      "FinishReasonSent", "ContentIndex", "ThinkingIndex", "ToolIndex", "ToolCallCounter",
      "CurrentToolID", "CurrentToolName", "ToolArguments", "OutputTokens", "InThinkingTag",
      "ThinkingBuffer" }

(* At most the beginning of a tag is held back, and the usage in a context   *)
(* is none or what the upstream has reported.                                *)
IsContext(c) ==
    /\ DOMAIN c = ContextFields
    /\ c.ThinkingBuffer \in {<< >>, <<"<">>}
    /\ c.OutputTokens \in {0, Reported}

(* A converter's turn: the context as it leaves it and what it sends.        *)
IsTurn(st) == DOMAIN st = {"ctx", "sent"} /\ IsContext(st.ctx) /\ IsSeq(st.sent)

(* A chunk with the reason to finish is of a kind of its own.                *)
Kind(e) == IF e.type = "chunk" /\ e.finish # "none" THEN "reason" ELSE e.type

(* The usage an event gives is none or what the upstream has reported.       *)
IsEvent(e) ==
    /\ e.type \in {"message_delta", "chunk", "response.completed"} => e.usage \in {0, Reported}
    /\ e.type = "chunk" => IsSeq(e.calls)

(* Only events of the kinds T are sent.                                      *)
Sends(T, st) ==
    IsTurn(st) /\ \A k \in DOMAIN st.sent : Kind(st.sent[k]) \in T /\ IsEvent(st.sent[k])

Sent(T, k, st) == Sends(T, st)

(* The kinds of events that carry content, to a Claude client and to a       *)
(* Responses client, and all there are.                                      *)
BlockEvents == {"message_start", "content_block_start", "content_block_delta", "content_block_stop"}

ItemEvents == {"response.created", "response.output_text.delta", "response.output_item.added",
               "response.function_call_arguments.delta", "response.output_item.done"}

Kinds == BlockEvents \cup ItemEvents
         \cup {"message_delta", "message_stop", "chunk", "reason", "[DONE]", "response.completed"}

(* A chunk that gives no reason to finish.                                   *)
Mild(e) == e.type = "chunk" /\ e.finish = "none" /\ e.usage \in {0, Reported} /\ IsSeq(e.calls)

(* To send one event more of a kind that may be sent changes nothing else.   *)
LEMMA PutSends ==
  ASSUME NEW T, NEW st, Sends(T, st), NEW e, Kind(e) \in T, IsEvent(e)
  PROVE  Sends(T, Put(st, e)) /\ Put(st, e).ctx = st.ctx
  <1> DEFINE s == st.sent
             t == Append(s, e)
  <1>1. IsSeq(s)
    BY DEF Sends, IsTurn
  <1>2. IsSeq(t)
    BY <1>1, SeqAppend
  <1>3. \A k \in DOMAIN t : t[k] = e \/ (k \in DOMAIN s /\ t[k] = s[k])
    BY <1>1 DEF IsSeq
  <1>4. DOMAIN Put(st, e) = {"ctx", "sent"} /\ Put(st, e).ctx = st.ctx /\ Put(st, e).sent = t
    BY DEF Put, Sends, IsTurn
  <1>5. \A k \in DOMAIN s : Kind(s[k]) \in T /\ IsEvent(s[k])
    BY DEF Sends
  <1> HIDE DEF s, t
  <1>6. \A k \in DOMAIN t : Kind(t[k]) \in T /\ IsEvent(t[k])
    BY <1>3, <1>5
  <1>7. IsContext(st.ctx)
    BY DEF Sends, IsTurn
  <1> QED
    BY <1>2, <1>4, <1>6, <1>7 DEF Sends, IsTurn

(* To send an event of a content block, a case of PutSends.                  *)
LEMMA PutBlock ==
  ASSUME NEW T, BlockEvents \subseteq T, NEW st, Sends(T, st), NEW e, e.type \in BlockEvents
  PROVE  Sends(T, Put(st, e)) /\ Put(st, e).ctx = st.ctx
  <1>1. Kind(e) \in T /\ IsEvent(e)
    BY DEF Kind, IsEvent, BlockEvents
  <1> QED
    BY <1>1, PutSends

(* To send an event of a Responses item, a case of PutSends.                 *)
LEMMA PutItem ==
  ASSUME NEW T, ItemEvents \subseteq T, NEW st, Sends(T, st), NEW e, e.type \in ItemEvents
  PROVE  Sends(T, Put(st, e)) /\ Put(st, e).ctx = st.ctx
  <1>1. Kind(e) \in T /\ IsEvent(e)
    BY DEF Kind, IsEvent, ItemEvents
  <1> QED
    BY <1>1, PutSends

(* To send a chunk without a reason to finish, a case of PutSends.           *)
LEMMA PutChunk ==
  ASSUME NEW T, "chunk" \in T, NEW st, Sends(T, st), NEW e, Mild(e)
  PROVE  Sends(T, Put(st, e)) /\ Put(st, e).ctx = st.ctx
  <1>1. Kind(e) \in T /\ IsEvent(e)
    BY DEF Kind, IsEvent, Mild
  <1> QED
    BY <1>1, PutSends

(* A turn in which nothing is sent yet.                                      *)
LEMMA SilentSends ==
  ASSUME NEW T, NEW c, IsContext(c)
  PROVE  Sends(T, Silent(c)) /\ Silent(c).ctx = c
  <1>1. IsSeq(<< >>)
    BY DEF IsSeq
  <1> QED
    BY <1>1 DEF Sends, IsTurn, Silent

(* What the scanning of a text keeps.                                        *)
IsScan(p, k, scan) ==
    /\ DOMAIN scan = {"runs", "held"}
    /\ IsSeq(scan.runs) /\ Len(scan.runs) >= 1
    /\ scan.held \in {<< >>, <<"<">>}

(* One event of a chat upstream that neither ends nor gives a reason.        *)
Speaks(e) ==
    /\ e.type = "chunk" /\ e.choices /\ e.finish = "none" /\ e.usage = 0
    /\ IsSeq(e.content) /\ IsSeq(e.calls)

SC == INSTANCE FoldFacts WITH Op <- Scan, Keeps <- IsScan
ER == INSTANCE FoldFacts WITH Op <- EmitRun, Keeps <- Sent
CT == INSTANCE FoldFacts WITH Op <- ChatToolCall, Keeps <- Sent
GP == INSTANCE FoldFacts WITH Op <- GeminiPart, Keeps <- Sent
GC == INSTANCE FoldFacts WITH Op <- GeminiPartToChat, Keeps <- Sent
CI == INSTANCE FoldFacts WITH Op <- ChatCallToItem, Keeps <- Sent
GI == INSTANCE FoldFacts WITH Op <- GeminiPartToItem, Keeps <- Sent

(* What the Claude event makers make are events of content blocks.           *)
LEMMA BlockEventTypes ==
  /\ MessageStart.type \in BlockEvents
  /\ \A i, kind, id, name : ContentBlockStart(i, kind, id, name).type \in BlockEvents
  /\ \A i, kind, body : ContentBlockDelta(i, kind, body).type \in BlockEvents
  /\ \A i : ContentBlockStop(i).type \in BlockEvents
  BY DEF BlockEvents, MessageStart, ContentBlockStart, ContentBlockDelta, ContentBlockStop

(***************************************************************************)
(* The converters to Claude                                                *)
(***************************************************************************)
LEMMA CloseThinkingSends ==
  ASSUME NEW T, BlockEvents \subseteq T, NEW st, Sends(T, st)
  PROVE  Sends(T, CloseThinking(st))
  <1> DEFINE put == Put(st, ContentBlockStop(st.ctx.ThinkingIndex))
  <1>1. Sends(T, put)
    BY PutBlock, BlockEventTypes
  <1> HIDE DEF put
  <1>2. Sends(T, [put EXCEPT !.ctx.ThinkingBlockStarted = FALSE])
    BY <1>1 DEF Sends, IsTurn, IsContext, ContextFields
  <1> QED
    BY <1>2 DEF CloseThinking, put

(* Closing the text block.                                                   *)
LEMMA LeaveTextSends ==
  ASSUME NEW T, BlockEvents \subseteq T, NEW st, Sends(T, st)
  PROVE  Sends(T, CloseText(st)) /\ Sends(T, LeaveText(st))
  <1> DEFINE put == Put(st, ContentBlockStop(st.ctx.ContentIndex))
  <1>1. Sends(T, put)
    BY PutBlock, BlockEventTypes
  <1> HIDE DEF put
  <1>2. Sends(T, [put EXCEPT !.ctx.ContentBlockStarted = FALSE])
    BY <1>1 DEF Sends, IsTurn, IsContext, ContextFields
  <1>3. Sends(T, CloseText(st))
    BY <1>2 DEF CloseText, put
  <1>4. Sends(T, [CloseText(st) EXCEPT !.ctx.ContentIndex = @ + 1])
    BY <1>3 DEF Sends, IsTurn, IsContext, ContextFields
  <1> QED
    BY <1>3, <1>4 DEF LeaveText

(* Closing the tool block.                                                   *)
LEMMA CloseToolSends ==
  ASSUME NEW T, BlockEvents \subseteq T, NEW st, Sends(T, st)
  PROVE  Sends(T, CloseTool(st))
  <1> DEFINE stop == Put(st, ContentBlockStop(st.ctx.ToolIndex))
  <1>1. Sends(T, stop)
    BY PutBlock, BlockEventTypes
  <1> HIDE DEF stop
  <1>2. Sends(T, [stop EXCEPT !.ctx.ToolBlockStarted = FALSE])
    BY <1>1 DEF Sends, IsTurn, IsContext, ContextFields
  <1> QED
    BY <1>2 DEF CloseTool, stop

(* Opening the thinking block.                                               *)
LEMMA OpenThinkingSends ==
  ASSUME NEW T, BlockEvents \subseteq T, NEW st, Sends(T, st)
  PROVE  Sends(T, OpenThinking(st))
  <1> DEFINE put == Put(st, ContentBlockStart(st.ctx.ContentIndex, "thinking", "", ""))
  <1>1. Sends(T, put)
    BY PutBlock, BlockEventTypes
  <1> HIDE DEF put
  <1>2. \A i, j : Sends(T, [put EXCEPT !.ctx.ThinkingBlockStarted = TRUE,
                                            !.ctx.ThinkingIndex = i, !.ctx.ContentIndex = j])
    BY <1>1 DEF Sends, IsTurn, IsContext, ContextFields
  <1> QED
    BY <1>2 DEF OpenThinking, put

(* message_start, once.                                                      *)
LEMMA StartMessageSends ==
  ASSUME NEW T, BlockEvents \subseteq T, NEW st, Sends(T, st)
  PROVE  Sends(T, StartMessage(st))
  <1> DEFINE put == Put(st, MessageStart)
  <1>1. Sends(T, put)
    BY PutBlock, BlockEventTypes
  <1> HIDE DEF put
  <1>2. Sends(T, [put EXCEPT !.ctx.MessageStartSent = TRUE])
    BY <1>1 DEF Sends, IsTurn, IsContext, ContextFields
  <1> QED
    BY <1>2 DEF StartMessage, put

(* emitText: a text block is opened if none is, then the delta.              *)
LEMMA emitTextSends ==
  ASSUME NEW T, BlockEvents \subseteq T, NEW st, Sends(T, st), NEW text
  PROVE  Sends(T, emitText(st, text))
  <1> DEFINE i == st.ctx.ContentIndex
             put == Put(st, ContentBlockStart(i, "text", "", ""))
             opened == IF st.ctx.ContentBlockStarted THEN st
                       ELSE [put EXCEPT !.ctx.ContentBlockStarted = TRUE]
  <1>1. Sends(T, put)
    BY PutBlock, BlockEventTypes
  <1>2. Sends(T, [put EXCEPT !.ctx.ContentBlockStarted = TRUE])
    <2> HIDE DEF put
    <2> QED
      BY <1>1 DEF Sends, IsTurn, IsContext, ContextFields
  <1>3. Sends(T, opened)
    BY <1>2
  <1>4. emitText(st, text) = IF text = << >> THEN st ELSE Put(opened, ContentBlockDelta(i, "text", text))
    BY DEF emitText
  <1> HIDE DEF opened
  <1>5. Sends(T, Put(opened, ContentBlockDelta(i, "text", text)))
    BY <1>3, PutBlock, BlockEventTypes
  <1> QED
    BY <1>4, <1>5

(* emitThinking: the text block is left before a thinking block is opened.   *)
LEMMA emitThinkingSends ==
  ASSUME NEW T, BlockEvents \subseteq T, NEW st, Sends(T, st), NEW text
  PROVE  Sends(T, emitThinking(st, text))
  <1> DEFINE opened == IF st.ctx.ThinkingBlockStarted THEN st ELSE OpenThinking(LeaveText(st))
             delta == ContentBlockDelta(opened.ctx.ThinkingIndex, "thinking", text)
  <1>1. Sends(T, opened)
    BY OpenThinkingSends, LeaveTextSends
  <1>2. emitThinking(st, text) = IF text = << >> THEN st ELSE Put(opened, delta)
    BY DEF emitThinking
  <1>3. delta.type \in BlockEvents
    BY BlockEventTypes
  <1> HIDE DEF opened, delta
  <1>4. Sends(T, Put(opened, delta))
    BY <1>1, <1>3, PutBlock
  <1> QED
    BY <1>2, <1>4

(* One run of text or of thinking that was found between the tags.           *)
LEMMA EmitRunSends ==
  ASSUME NEW T, BlockEvents \subseteq T, NEW st, Sends(T, st), NEW run
  PROVE  Sends(T, EmitRun(st, run))
  <1>1. Sends(T, emitThinkingWithClose(st, run.body))
    BY emitThinkingSends, CloseThinkingSends DEF emitThinkingWithClose
  <1>2. Sends(T, emitTextWithClose(st, run.body))
    <2> DEFINE closed == IF st.ctx.ContentBlockStarted THEN st ELSE CloseThinking(st)
    <2>1. Sends(T, closed)
      BY CloseThinkingSends
    <2>2. emitTextWithClose(st, run.body) = IF run.body = << >> THEN st ELSE emitText(closed, run.body)
      BY DEF emitTextWithClose
    <2> HIDE DEF closed
    <2>3. Sends(T, emitText(closed, run.body))
      BY <2>1, emitTextSends
    <2> QED
      BY <2>2, <2>3
  <1> QED
    BY <1>1, <1>2 DEF EmitRun

(* One character of the scan for tags: there stays a last run, and what is   *)
(* held back is the beginning of a tag.                                      *)
LEMMA ScanKeeps ==
  ASSUME NEW scan, IsScan(0, 0, scan), NEW y
  PROVE  IsScan(0, 0, Scan(scan, y))
  <1> DEFINE n == Len(scan.runs)
  <1>1. IsSeq(scan.runs) /\ n \in Nat /\ n >= 1 /\ DOMAIN scan.runs = 1..n
    BY DEF IsScan, IsSeq
  <1>2. ASSUME NEW run PROVE IsSeq(Append(scan.runs, run)) /\ Len(Append(scan.runs, run)) >= 1
    <2>1. Len(Append(scan.runs, run)) = n + 1
      BY DEF IsScan, IsSeq
    <2> QED
      BY <1>1, <2>1, SeqAppend
  <1>3. ASSUME NEW more
        PROVE  LET grown == [scan.runs EXCEPT ![n].body = @ \o more]
               IN  IsSeq(grown) /\ Len(grown) >= 1
    <2> DEFINE grown == [scan.runs EXCEPT ![n].body = @ \o more]
               G == {grown[k] : k \in DOMAIN grown}
    <2>1. DOMAIN grown = 1..n /\ \A k \in 1..n : grown[k] \in G
      BY <1>1
    <2>2. grown = [k \in 1..n |-> grown[k]]
      BY <2>1
    <2> HIDE DEF grown
    <2>3. grown \in Seq(G) /\ Len(grown) = n
      BY <1>1, <2>1, <2>2
    <2> QED
      BY <1>1, <2>3 DEF grown, IsSeq
  <1>4. \A runs, held : IsSeq(runs) /\ Len(runs) >= 1 /\ held \in {<< >>, <<"<">>}
                          => IsScan(0, 0, [runs |-> runs, held |-> held])
    BY DEF IsScan
  <1> QED
    BY <1>2, <1>3, <1>4 DEF Scan

(* ScanKeeps over a whole delta, by the induction of FoldFacts.              *)
LEMMA ScanIsScan ==
  ASSUME NEW inside, NEW content, IsSeq(content)
  PROVE  IsScan(0, 0, FoldLeft(Scan, ScanFrom(inside), content))
  <1> DEFINE m == Len(content)
             base == ScanFrom(inside)
  <1>1. m \in Nat /\ DOMAIN content = 1..m
    BY DEF IsSeq
  <1>2. IsScan(0, 0, base)
    <2> DEFINE run == [inside |-> inside, body |-> << >>]
    <2>1. IsSeq(<<run>>) /\ Len(<<run>>) >= 1
      BY DEF IsSeq
    <2> QED
      BY <2>1 DEF IsScan, ScanFrom
  <1>3. \A k : \A x : IsScan(0, k - 1, x) => IsScan(0, k, Scan(x, content[k]))
    BY ScanKeeps DEF IsScan
  <1> HIDE DEF m, base
  <1>4. IsScan(0, m, SC!Fold(base, content))
    BY <1>1, <1>2, <1>3, SC!FoldKeeps
  <1>5. FoldLeft(Scan, base, content) = SC!Fold(base, content)
    BY DEF FoldLeft, MapThenFoldSet, SC!Fold, SC!FoldLeft, SC!MapThenFoldSet, Max, SC!Max
  <1> QED
    BY <1>4, <1>5 DEF base, IsScan

(* What is kept of a scan for the next delta.                                *)
LEMMA SetScannedSends ==
  ASSUME NEW T, BlockEvents \subseteq T, NEW st, Sends(T, st), NEW inside, NEW held \in {<< >>, <<"<">>}
  PROVE  Sends(T, [st EXCEPT !.ctx.InThinkingTag = inside, !.ctx.ThinkingBuffer = held])
  BY DEF Sends, IsTurn, IsContext, ContextFields

(* consumeThinkTaggedDelta: the scan, and every run of it emitted.           *)
LEMMA ConsumeDeltaSends ==
  ASSUME NEW T, BlockEvents \subseteq T, NEW st, Sends(T, st), NEW delta, IsSeq(delta)
  PROVE  Sends(T, ConsumeDelta(st, delta))
  <1> DEFINE content == st.ctx.ThinkingBuffer \o delta
             scan == FoldLeft(Scan, ScanFrom(st.ctx.InThinkingTag), content)
             emitted == FoldLeft(EmitRun, st, scan.runs)
             m == Len(scan.runs)
  <1>1. IsSeq(content)
    <2>1. IsSeq(<< >>) /\ IsSeq(<<"<">>)
      BY DEF IsSeq
    <2>2. st.ctx.ThinkingBuffer \in {<< >>, <<"<">>}
      BY DEF Sends, IsTurn, IsContext
    <2>3. IsSeq(st.ctx.ThinkingBuffer)
      BY <2>1, <2>2
    <2> QED
      BY <2>3, SeqConcat
  <1>2. IsScan(0, 0, scan)
    BY <1>1, ScanIsScan
  <1>3. m \in Nat /\ DOMAIN scan.runs = 1..m /\ scan.held \in {<< >>, <<"<">>}
    BY <1>2 DEF IsScan, IsSeq
  <1>4. consumeThinkTaggedStream(st, content)
          = [emitted EXCEPT !.ctx.InThinkingTag = Inside(scan), !.ctx.ThinkingBuffer = scan.held]
    BY DEF consumeThinkTaggedStream
  <1>5. ConsumeDelta(st, delta) = IF delta = << >> THEN st ELSE consumeThinkTaggedStream(st, content)
    BY DEF ConsumeDelta
  <1> HIDE DEF scan, m, content
  <1>6. Sent(T, m, ER!Fold(st, scan.runs))
    <2>1. Sent(T, 0, st)
      BY DEF Sent
    <2>2. \A k \in 1..m : \A x : Sent(T, k - 1, x) => Sent(T, k, EmitRun(x, scan.runs[k]))
      BY EmitRunSends DEF Sent
    <2> QED
      BY <1>3, <2>1, <2>2, ER!FoldKeeps
  <1>7. emitted = ER!Fold(st, scan.runs)
    BY DEF FoldLeft, MapThenFoldSet, ER!Fold, ER!FoldLeft, ER!MapThenFoldSet, Max, ER!Max
  <1>8. Sends(T, emitted)
    BY <1>6, <1>7 DEF Sent
  <1> HIDE DEF emitted
  <1>9. Sends(T, consumeThinkTaggedStream(st, content))
    <2>1. scan.held \in {<< >>, <<"<">>}
      BY <1>3
    <2>2. \A inside : Sends(T, [emitted EXCEPT !.ctx.InThinkingTag = inside, !.ctx.ThinkingBuffer = scan.held])
      BY <2>1, <1>8, SetScannedSends
    <2> QED
      BY <1>4, <2>2
  <1> QED
    BY <1>5, <1>9

(* One tool call of a chat chunk, made a tool block.                         *)
LEMMA ChatToolCallSends ==
  ASSUME NEW T, BlockEvents \subseteq T, NEW st, Sends(T, st), NEW tc
  PROVE  Sends(T, ChatToolCall(st, tc))
  <1> DEFINE left == LeaveText(CloseThinking(st))
             shut == CloseTool(left)
             free == IF left.ctx.ToolBlockStarted THEN [shut EXCEPT !.ctx.ContentIndex = @ + 1] ELSE left
             i    == free.ctx.ContentIndex
             put  == Put(free, ContentBlockStart(i, "tool_use", tc.id, tc.name))
             called == [put EXCEPT !.ctx.ToolBlockStarted = TRUE, !.ctx.ToolIndex = i,
                                   !.ctx.CurrentToolID = tc.id, !.ctx.CurrentToolName = tc.name,
                                   !.ctx.ToolArguments = << >>]
             open == IF tc.id = "" THEN st ELSE called
             told == Put(open, ContentBlockDelta(open.ctx.ToolIndex, "tool_use", tc.arguments))
  <1>1. Sends(T, left)
    BY CloseThinkingSends, LeaveTextSends
  <1>2. Sends(T, shut)
    <2> HIDE DEF left
    <2> QED
      BY <1>1, CloseToolSends
  <1>3. Sends(T, free)
    <2> HIDE DEF left, shut
    <2>1. Sends(T, [shut EXCEPT !.ctx.ContentIndex = @ + 1])
      BY <1>2 DEF Sends, IsTurn, IsContext, ContextFields
    <2> QED
      BY <1>1, <2>1
  <1>4. Sends(T, called)
    <2> HIDE DEF free
    <2>1. Sends(T, put)
      BY <1>3, PutBlock, BlockEventTypes
    <2> HIDE DEF put, i
    <2> QED
      BY <2>1 DEF Sends, IsTurn, IsContext, ContextFields
  <1>5. Sends(T, told)
    <2> HIDE DEF called
    <2>1. Sends(T, open)
      BY <1>4
    <2> HIDE DEF open
    <2> QED
      BY <2>1, PutBlock, BlockEventTypes
  <1>6. Sends(T, [told EXCEPT !.ctx.ToolArguments = @ \o tc.arguments])
    <2> HIDE DEF told
    <2> QED
      BY <1>5 DEF Sends, IsTurn, IsContext, ContextFields
  <1>7. ChatToolCall(st, tc) = IF tc.arguments = << >> THEN open
                               ELSE [told EXCEPT !.ctx.ToolArguments = @ \o tc.arguments]
    BY DEF ChatToolCall
  <1>8. Sends(T, open)
    <2> HIDE DEF called
    <2> QED
      BY <1>4
  <1> HIDE DEF open, told
  <1> QED
    BY <1>6, <1>7, <1>8

(* The reasoning of a chat chunk, made a thinking block.                     *)
LEMMA ChatReasoningSends ==
  ASSUME NEW T, BlockEvents \subseteq T, NEW st, Sends(T, st), NEW text
  PROVE  Sends(T, ChatReasoning(st, text))
  <1> DEFINE opened == OpenThinking(st)
             delta == ContentBlockDelta(opened.ctx.ThinkingIndex, "thinking", text)
  <1>1. Sends(T, opened)
    BY OpenThinkingSends
  <1>2. delta.type \in BlockEvents
    BY BlockEventTypes
  <1>3. ChatReasoning(st, text) = IF text = << >> THEN st ELSE Put(opened, delta)
    BY DEF ChatReasoning
  <1> HIDE DEF opened, delta
  <1>4. Sends(T, Put(opened, delta))
    BY <1>1, <1>2, PutBlock
  <1> QED
    BY <1>3, <1>4

(* A chat chunk that speaks, for a Claude client: no end and no reason to    *)
(* finish.                                                                   *)
LEMMA ChatToClaudeSends ==
  ASSUME NEW T, BlockEvents \subseteq T, NEW c, IsContext(c), NEW e, Speaks(e)
  PROVE  Sends(T, OpenAIStreamToClaude(c, e))
  <1> DEFINE started == StartMessage(Silent(c))
             spoken == ConsumeDelta(ChatReasoning(started, e.reasoning), e.content)
             m == Len(e.calls)
  <1>1. Sends(T, spoken)
    BY SilentSends, StartMessageSends, ChatReasoningSends, ConsumeDeltaSends DEF Speaks
  <1>2. OpenAIStreamToClaude(c, e) = FoldLeft(ChatToolCall, spoken, e.calls)
    BY DEF OpenAIStreamToClaude, Speaks, OnlyUsage, ChatFinish
  <1> HIDE DEF spoken
  <1>3. m \in Nat /\ DOMAIN e.calls = 1..m
    BY DEF Speaks, IsSeq
  <1>4. Sent(T, m, CT!Fold(spoken, e.calls))
    <2> HIDE DEF m
    <2>1. Sent(T, 0, spoken)
      BY <1>1 DEF Sent
    <2>2. \A k \in 1..m : \A x : Sent(T, k - 1, x) => Sent(T, k, ChatToolCall(x, e.calls[k]))
      BY ChatToolCallSends DEF Sent
    <2> QED
      BY <1>3, <2>1, <2>2, CT!FoldKeeps
  <1>5. FoldLeft(ChatToolCall, spoken, e.calls) = CT!Fold(spoken, e.calls)
    BY DEF FoldLeft, MapThenFoldSet, CT!Fold, CT!FoldLeft, CT!MapThenFoldSet, Max, CT!Max
  <1> QED
    BY <1>2, <1>4, <1>5 DEF Sent

(* An item of a Responses stream for a Claude client: content alone.         *)
LEMMA ResponsesToClaudeSends ==
  ASSUME NEW T, BlockEvents \subseteq T, NEW c, IsContext(c), NEW e, e.type \in ItemEvents,
         e.type = "response.output_text.delta" => IsSeq(e.body)
  PROVE  Sends(T, OpenAI2StreamToClaude(c, e))
  <1> DEFINE st == Silent(c)
  <1>1. Sends(T, st)
    BY SilentSends
  <1>2. OpenAI2StreamToClaude(c, e)
          = CASE e.type = "response.created" -> Put(st, MessageStart)
              [] e.type = "response.output_text.delta" -> ConsumeDelta(st, e.body)
              [] e.type = "response.output_item.added" -> ResponsesItemAdded(st, e.item)
              [] e.type = "response.function_call_arguments.delta" -> ResponsesArguments(st, e.body)
              [] e.type = "response.output_item.done" -> ResponsesItemDone(st, e.item)
              [] e.type = "response.completed" -> ResponsesCompleted(st, e.usage)
              [] e.type = "[DONE]" -> ResponsesDone(st)
    BY DEF OpenAI2StreamToClaude
  <1> HIDE DEF st
  <1>3. CASE e.type = "response.created"
    BY <1>1, <1>2, <1>3, PutBlock, BlockEventTypes
  <1>4. CASE e.type = "response.output_text.delta"
    BY <1>1, <1>2, <1>4, ConsumeDeltaSends
  <1>5. CASE e.type = "response.output_item.added"
    <2> DEFINE free == LeaveText(CloseThinking(st))
               i == free.ctx.ContentIndex
               put == Put(free, ContentBlockStart(i, "tool_use", e.item.id, e.item.name))
    <2>1. Sends(T, free)
      BY <1>1, CloseThinkingSends, LeaveTextSends
    <2>2. Sends(T, put)
      <3> HIDE DEF free
      <3> QED
        BY <2>1, PutBlock, BlockEventTypes
    <2>3. ResponsesItemAdded(st, e.item)
            = IF e.item.kind # "tool_use" THEN st
              ELSE [put EXCEPT !.ctx.ToolBlockStarted = TRUE, !.ctx.ToolIndex = i,
                               !.ctx.CurrentToolID = e.item.id, !.ctx.CurrentToolName = e.item.name,
                               !.ctx.ToolArguments = << >>]
      BY DEF ResponsesItemAdded
    <2> HIDE DEF put, i
    <2>4. Sends(T, [put EXCEPT !.ctx.ToolBlockStarted = TRUE, !.ctx.ToolIndex = i,
                               !.ctx.CurrentToolID = e.item.id, !.ctx.CurrentToolName = e.item.name,
                               !.ctx.ToolArguments = << >>])
      BY <2>2 DEF Sends, IsTurn, IsContext, ContextFields
    <2>5. Sends(T, ResponsesItemAdded(st, e.item))
      BY <1>1, <2>3, <2>4
    <2> QED
      BY <1>2, <1>5, <2>5
  <1>6. CASE e.type = "response.function_call_arguments.delta"
    <2> DEFINE put == Put(st, ContentBlockDelta(st.ctx.ToolIndex, "tool_use", e.body))
    <2>1. Sends(T, put)
      BY <1>1, PutBlock, BlockEventTypes
    <2>2. ResponsesArguments(st, e.body)
            = IF ~st.ctx.ToolBlockStarted THEN st ELSE [put EXCEPT !.ctx.ToolArguments = @ \o e.body]
      BY DEF ResponsesArguments
    <2> HIDE DEF put
    <2>3. Sends(T, [put EXCEPT !.ctx.ToolArguments = @ \o e.body])
      BY <2>1 DEF Sends, IsTurn, IsContext, ContextFields
    <2>4. Sends(T, ResponsesArguments(st, e.body))
      BY <1>1, <2>2, <2>3
    <2> QED
      BY <1>2, <1>6, <2>4
  <1>7. CASE e.type = "response.output_item.done"
    <2> DEFINE shut == CloseTool(st)
    <2>1. Sends(T, shut)
      BY <1>1, CloseToolSends
    <2>2. ResponsesItemDone(st, e.item) = IF e.item.kind = "tool_use" /\ st.ctx.ToolBlockStarted
                                          THEN [shut EXCEPT !.ctx.ContentIndex = @ + 1] ELSE st
      BY DEF ResponsesItemDone
    <2> HIDE DEF shut
    <2>3. Sends(T, [shut EXCEPT !.ctx.ContentIndex = @ + 1])
      BY <2>1 DEF Sends, IsTurn, IsContext, ContextFields
    <2>4. Sends(T, ResponsesItemDone(st, e.item))
      BY <1>1, <2>2, <2>3
    <2> QED
      BY <1>2, <1>7, <2>4
  <1> QED
    BY <1>3, <1>4, <1>5, <1>6, <1>7 DEF ItemEvents

(* One part of a Gemini chunk, made a block.                                 *)
LEMMA GeminiPartSends ==
  ASSUME NEW T, BlockEvents \subseteq T, NEW st, Sends(T, st), NEW part
  PROVE  Sends(T, GeminiPart(st, part))
  <1> DEFINE left == LeaveText(st)
             i    == left.ctx.ContentIndex
             put1 == Put(left, ContentBlockStart(i, "tool_use", CallNamed(part.name), part.name))
             put2 == Put(put1, ContentBlockDelta(i, "tool_use", part.body))
             put3 == Put(put2, ContentBlockStop(i))
  <1>1. Sends(T, left)
    BY LeaveTextSends
  <1>2. GeminiPart(st, part) = IF part.kind = "text" THEN emitText(st, part.body)
                               ELSE [put3 EXCEPT !.ctx.ContentIndex = @ + 1]
    BY DEF GeminiPart
  <1> HIDE DEF left, i
  <1>3. Sends(T, put1)
    BY <1>1, PutBlock, BlockEventTypes
  <1> HIDE DEF put1
  <1>4. Sends(T, put2)
    BY <1>3, PutBlock, BlockEventTypes
  <1> HIDE DEF put2
  <1>5. Sends(T, put3)
    BY <1>4, PutBlock, BlockEventTypes
  <1> HIDE DEF put3
  <1>6. Sends(T, [put3 EXCEPT !.ctx.ContentIndex = @ + 1])
    BY <1>5 DEF Sends, IsTurn, IsContext, ContextFields
  <1> QED
    BY <1>2, <1>6, emitTextSends

(* A Gemini chunk that does not finish, for a Claude client: content alone.  *)
LEMMA GeminiToClaudeSends ==
  ASSUME NEW T, BlockEvents \subseteq T, NEW c, IsContext(c), NEW e,
         e.type = "gemini", ~e.finished, IsSeq(e.parts), e.usageMetadata \in {0, Reported}
  PROVE  Sends(T, GeminiStreamToClaude(c, e))
  <1> DEFINE st == Silent(c)
             counted == Counted(st, e.usageMetadata)
             started == StartMessage(counted)
             m == Len(e.parts)
  <1>1. Sends(T, counted)
    <2>1. Sends(T, st)
      BY SilentSends
    <2> HIDE DEF st
    <2>2. Sends(T, [st EXCEPT !.ctx.OutputTokens = e.usageMetadata])
      BY <2>1 DEF Sends, IsTurn, IsContext, ContextFields
    <2> QED
      BY <2>1, <2>2 DEF Counted
  <1>2. Sends(T, started)
    <2> HIDE DEF counted
    <2> QED
      BY <1>1, StartMessageSends
  <1>3. GeminiStreamToClaude(c, e) = FoldLeft(GeminiPart, started, e.parts)
    BY DEF GeminiStreamToClaude, GeminiFinish
  <1> HIDE DEF started
  <1>4. m \in Nat /\ DOMAIN e.parts = 1..m
    BY DEF IsSeq
  <1>5. Sent(T, m, GP!Fold(started, e.parts))
    <2> HIDE DEF m
    <2>1. Sent(T, 0, started)
      BY <1>2 DEF Sent
    <2>2. \A k \in 1..m : \A x : Sent(T, k - 1, x) => Sent(T, k, GeminiPart(x, e.parts[k]))
      BY GeminiPartSends DEF Sent
    <2> QED
      BY <1>4, <2>1, <2>2, GP!FoldKeeps
  <1>6. FoldLeft(GeminiPart, started, e.parts) = GP!Fold(started, e.parts)
    BY DEF FoldLeft, MapThenFoldSet, GP!Fold, GP!FoldLeft, GP!MapThenFoldSet, Max, GP!Max
  <1> QED
    BY <1>3, <1>5, <1>6 DEF Sent

(***************************************************************************)
(* The converters to chat                                                  *)
(***************************************************************************)
LEMMA MildChunks ==
  /\ \A body : Mild(TextChunk(body))
  /\ \A i, id, name, arguments : Mild(CallChunk(i, id, name, arguments))
  <1>1. ASSUME NEW x PROVE IsSeq(<<x>>)
    BY DEF IsSeq
  <1>2. IsSeq(<< >>)
    BY DEF IsSeq
  <1>3. \A body, calls : LET e == buildOpenAIChunk(body, calls, "none", 0)
                         IN  e.type = "chunk" /\ e.finish = "none" /\ e.usage = 0 /\ e.calls = calls
    BY DEF buildOpenAIChunk, Chunk
  <1> QED
    BY <1>1, <1>2, <1>3 DEF Mild, TextChunk, CallChunk

(* An event of a content block for a chat client: chunks without a reason.   *)
LEMMA ClaudeToChatSends ==
  ASSUME NEW T, "chunk" \in T, NEW c, IsContext(c), NEW e, e.type \in BlockEvents
  PROVE  Sends(T, ClaudeStreamToOpenAI(c, e))
  <1> DEFINE st == Silent(c)
             text == Put(st, TextChunk(e.body))
             call == Put(st, CallChunk(c.ContentIndex, c.CurrentToolID, c.CurrentToolName, c.ToolArguments))
  <1>1. Sends(T, st) /\ Sends(T, text) /\ Sends(T, call)
    <2>1. Sends(T, st)
      BY SilentSends
    <2> HIDE DEF st
    <2>2. Sends(T, text)
      BY <2>1, PutChunk, MildChunks
    <2>3. Sends(T, call)
      BY <2>1, PutChunk, MildChunks
    <2> QED
      BY <2>1, <2>2, <2>3
  <1>2. \/ ClaudeStreamToOpenAI(c, e) = [st EXCEPT !.ctx.ToolBlockStarted = TRUE,
                          !.ctx.CurrentToolID = e.id, !.ctx.CurrentToolName = e.name]
        \/ ClaudeStreamToOpenAI(c, e) = text
        \/ ClaudeStreamToOpenAI(c, e) = [st EXCEPT !.ctx.ToolArguments = @ \o e.body]
        \/ ClaudeStreamToOpenAI(c, e) = [call EXCEPT !.ctx.ToolBlockStarted = FALSE, !.ctx.ToolArguments = << >>,
                         !.ctx.ContentIndex = @ + 1]
        \/ ClaudeStreamToOpenAI(c, e) = st
    <2>1. CASE e.type = "message_start"
      BY <2>1 DEF ClaudeStreamToOpenAI
    <2>2. CASE e.type = "content_block_start"
      BY <2>2 DEF ClaudeStreamToOpenAI
    <2>3. CASE e.type = "content_block_delta"
      BY <2>3 DEF ClaudeStreamToOpenAI
    <2>4. CASE e.type = "content_block_stop"
      BY <2>4 DEF ClaudeStreamToOpenAI
    <2> QED
      BY <2>1, <2>2, <2>3, <2>4 DEF BlockEvents
  <1> HIDE DEF st, text, call
  <1>3. Sends(T, [st EXCEPT !.ctx.ToolBlockStarted = TRUE,
                          !.ctx.CurrentToolID = e.id, !.ctx.CurrentToolName = e.name])
    BY <1>1 DEF Sends, IsTurn, IsContext, ContextFields
  <1>4. Sends(T, [st EXCEPT !.ctx.ToolArguments = @ \o e.body])
    BY <1>1 DEF Sends, IsTurn, IsContext, ContextFields
  <1>5. Sends(T, [call EXCEPT !.ctx.ToolBlockStarted = FALSE, !.ctx.ToolArguments = << >>,
                         !.ctx.ContentIndex = @ + 1])
    BY <1>1 DEF Sends, IsTurn, IsContext, ContextFields
  <1> QED
    BY <1>1, <1>2, <1>3, <1>4, <1>5, Zenon

(* An item of a Responses stream for a chat client: chunks without a reason. *)
LEMMA ResponsesToChatSends ==
  ASSUME NEW T, "chunk" \in T, NEW c, IsContext(c), NEW e, e.type \in ItemEvents
  PROVE  Sends(T, OpenAI2StreamToOpenAI(c, e))
  <1> DEFINE st == Silent(c)
             text == Put(st, TextChunk(e.body))
             call == Put(st, CallChunk(c.ToolIndex, c.CurrentToolID, c.CurrentToolName, c.ToolArguments))
  <1>1. Sends(T, st) /\ Sends(T, text) /\ Sends(T, call)
    <2>1. Sends(T, st)
      BY SilentSends
    <2> HIDE DEF st
    <2>2. Sends(T, text)
      BY <2>1, PutChunk, MildChunks
    <2>3. Sends(T, call)
      BY <2>1, PutChunk, MildChunks
    <2> QED
      BY <2>1, <2>2, <2>3
  <1>2. \/ OpenAI2StreamToOpenAI(c, e) = [st EXCEPT !.ctx.ToolBlockStarted = TRUE, !.ctx.CurrentToolID = e.item.id,
                          !.ctx.CurrentToolName = e.item.name, !.ctx.ToolArguments = << >>]
        \/ OpenAI2StreamToOpenAI(c, e) = text
        \/ OpenAI2StreamToOpenAI(c, e) = [st EXCEPT !.ctx.ToolArguments = @ \o e.body]
        \/ OpenAI2StreamToOpenAI(c, e) = [call EXCEPT !.ctx.ToolBlockStarted = FALSE]
        \/ OpenAI2StreamToOpenAI(c, e) = st
    <2>1. CASE e.type = "response.created"
      BY <2>1 DEF OpenAI2StreamToOpenAI
    <2>2. CASE e.type = "response.output_text.delta"
      BY <2>2 DEF OpenAI2StreamToOpenAI
    <2>3. CASE e.type = "response.output_item.added"
      BY <2>3 DEF OpenAI2StreamToOpenAI
    <2>4. CASE e.type = "response.function_call_arguments.delta"
      BY <2>4 DEF OpenAI2StreamToOpenAI
    <2>5. CASE e.type = "response.output_item.done"
      BY <2>5 DEF OpenAI2StreamToOpenAI
    <2> QED
      BY <2>1, <2>2, <2>3, <2>4, <2>5 DEF ItemEvents
  <1> HIDE DEF st, text, call
  <1>3. Sends(T, [st EXCEPT !.ctx.ToolBlockStarted = TRUE, !.ctx.CurrentToolID = e.item.id,
                          !.ctx.CurrentToolName = e.item.name, !.ctx.ToolArguments = << >>])
    BY <1>1 DEF Sends, IsTurn, IsContext, ContextFields
  <1>4. Sends(T, [st EXCEPT !.ctx.ToolArguments = @ \o e.body])
    BY <1>1 DEF Sends, IsTurn, IsContext, ContextFields
  <1>5. Sends(T, [call EXCEPT !.ctx.ToolBlockStarted = FALSE])
    BY <1>1 DEF Sends, IsTurn, IsContext, ContextFields
  <1> QED
    BY <1>1, <1>2, <1>3, <1>4, <1>5, Zenon

(* One part of a Gemini chunk, made a chunk of chat.                         *)
LEMMA GeminiPartToChatSends ==
  ASSUME NEW T, "chunk" \in T, NEW st, Sends(T, st), NEW part
  PROVE  Sends(T, GeminiPartToChat(st, part))
  <1> DEFINE i == st.ctx.ContentIndex
             text == Put(st, TextChunk(part.body))
             call == Put(st, CallChunk(i, CounterId(i), part.name, part.body))
  <1>1. Sends(T, text) /\ Sends(T, call)
    BY PutChunk, MildChunks
  <1>2. GeminiPartToChat(st, part) = IF part.kind = "text" THEN text ELSE [call EXCEPT !.ctx.ContentIndex = i + 1]
    BY DEF GeminiPartToChat
  <1> HIDE DEF text, call, i
  <1>3. Sends(T, [call EXCEPT !.ctx.ContentIndex = i + 1])
    BY <1>1 DEF Sends, IsTurn, IsContext, ContextFields
  <1> QED
    BY <1>1, <1>2, <1>3

(* A Gemini chunk that does not finish, for a chat client: chunks without a  *)
(* reason.                                                                   *)
LEMMA GeminiToChatSends ==
  ASSUME NEW T, "chunk" \in T, NEW c, IsContext(c), NEW e,
         e.type = "gemini", ~e.finished, IsSeq(e.parts), e.usageMetadata \in {0, Reported}
  PROVE  Sends(T, GeminiStreamToOpenAI(c, e))
  <1> DEFINE st == Silent(c)
             counted == IF e.usageMetadata > 0 THEN [st EXCEPT !.ctx.OutputTokens = e.usageMetadata] ELSE st
             m == Len(e.parts)
  <1>1. Sends(T, counted)
    <2>1. Sends(T, st)
      BY SilentSends
    <2> HIDE DEF st
    <2>2. Sends(T, [st EXCEPT !.ctx.OutputTokens = e.usageMetadata])
      BY <2>1 DEF Sends, IsTurn, IsContext, ContextFields
    <2> QED
      BY <2>1, <2>2
  <1>2. GeminiStreamToOpenAI(c, e) = FoldLeft(GeminiPartToChat, counted, e.parts)
    BY DEF GeminiStreamToOpenAI
  <1> HIDE DEF counted
  <1>3. m \in Nat /\ DOMAIN e.parts = 1..m
    BY DEF IsSeq
  <1>4. Sent(T, m, GC!Fold(counted, e.parts))
    <2> HIDE DEF m
    <2>1. Sent(T, 0, counted)
      BY <1>1 DEF Sent
    <2>2. \A k \in 1..m : \A x : Sent(T, k - 1, x) => Sent(T, k, GeminiPartToChat(x, e.parts[k]))
      BY GeminiPartToChatSends DEF Sent
    <2> QED
      BY <1>3, <2>1, <2>2, GC!FoldKeeps
  <1>5. FoldLeft(GeminiPartToChat, counted, e.parts) = GC!Fold(counted, e.parts)
    BY DEF FoldLeft, MapThenFoldSet, GC!Fold, GC!FoldLeft, GC!MapThenFoldSet, Max, GC!Max
  <1> QED
    BY <1>2, <1>4, <1>5 DEF Sent

(***************************************************************************)
(* The converters to responses                                             *)
(***************************************************************************)
LEMMA ItemEventTypes ==
  /\ Created.type \in ItemEvents
  /\ \A i, item : ItemAdded(i, item).type \in ItemEvents
  /\ \A i, body : TextDelta(i, body).type \in ItemEvents
  /\ \A i, body : ArgumentsDelta(i, body).type \in ItemEvents
  /\ \A i, item : ItemDone(i, item).type \in ItemEvents
  BY DEF ItemEvents, Created, ItemAdded, TextDelta, ArgumentsDelta, ItemDone

(* response.created, once.                                                   *)
LEMMA CreateResponseSends ==
  ASSUME NEW T, ItemEvents \subseteq T, NEW st, Sends(T, st)
  PROVE  Sends(T, CreateResponse(st))
  <1> DEFINE put == Put(st, Created)
  <1>1. Sends(T, put)
    BY PutItem, ItemEventTypes
  <1> HIDE DEF put
  <1>2. Sends(T, [put EXCEPT !.ctx.MessageStartSent = TRUE])
    BY <1>1 DEF Sends, IsTurn, IsContext, ContextFields
  <1> QED
    BY <1>2 DEF CreateResponse, put

(* Text of an item: the item is added first if it is not there.              *)
LEMMA SpeakItemSends ==
  ASSUME NEW T, ItemEvents \subseteq T, NEW st, Sends(T, st), NEW body
  PROVE  Sends(T, SpeakItem(st, body))
  <1> DEFINE put == Put(st, ItemAdded(0, MessageItem))
             opened == IF st.ctx.ContentBlockStarted THEN st ELSE [put EXCEPT !.ctx.ContentBlockStarted = TRUE]
  <1>1. Sends(T, put)
    BY PutItem, ItemEventTypes
  <1>2. SpeakItem(st, body) = IF body = << >> THEN st ELSE Put(opened, TextDelta(0, body))
    BY DEF SpeakItem
  <1>3. Sends(T, opened)
    <2> HIDE DEF put
    <2>1. Sends(T, [put EXCEPT !.ctx.ContentBlockStarted = TRUE])
      BY <1>1 DEF Sends, IsTurn, IsContext, ContextFields
    <2> QED
      BY <2>1
  <1> HIDE DEF opened
  <1>4. Sends(T, Put(opened, TextDelta(0, body)))
    BY <1>3, PutItem, ItemEventTypes
  <1> QED
    BY <1>2, <1>4

(* An event of a content block for a Responses client: items alone.          *)
LEMMA ClaudeToResponsesSends ==
  ASSUME NEW T, ItemEvents \subseteq T, NEW c, IsContext(c), NEW e, e.type \in BlockEvents
  PROVE  Sends(T, ClaudeStreamToOpenAI2(c, e))
  <1> DEFINE st == Silent(c)
  <1>1. Sends(T, st)
    BY SilentSends
  <1>2. ClaudeStreamToOpenAI2(c, e)
          = CASE e.type = "message_start"       -> Put(st, Created)
              [] e.type = "content_block_start" -> ClaudeBlockStarts(st, e)
              [] e.type = "content_block_delta" -> ClaudeBlockGrows(st, e)
              [] e.type = "content_block_stop"  -> ClaudeBlockStops(st, e)
              [] e.type = "message_delta"       -> [st EXCEPT !.ctx.OutputTokens = e.usage]
              [] e.type = "message_stop"        -> Complete(st)
    BY DEF ClaudeStreamToOpenAI2
  <1> HIDE DEF st
  <1>3. CASE e.type = "message_start"
    BY <1>1, <1>2, <1>3, PutItem, ItemEventTypes
  <1>4. CASE e.type = "content_block_start"
    <2> DEFINE text == Put(st, ItemAdded(e.index, MessageItem))
               tool == Put(st, ItemAdded(e.index, OutputItem("tool_use", e.id, e.name, << >>)))
    <2>1. Sends(T, text)
      BY <1>1, PutItem, ItemEventTypes
    <2>2. Sends(T, tool)
      BY <1>1, PutItem, ItemEventTypes
    <2>3. \/ ClaudeBlockStarts(st, e) = [text EXCEPT !.ctx.ContentBlockStarted = TRUE, !.ctx.ContentIndex = e.index]
          \/ ClaudeBlockStarts(st, e) = [tool EXCEPT !.ctx.ToolBlockStarted = TRUE, !.ctx.ToolIndex = e.index,
                     !.ctx.CurrentToolID = e.id, !.ctx.CurrentToolName = e.name]
          \/ ClaudeBlockStarts(st, e) = st
      BY DEF ClaudeBlockStarts
    <2> HIDE DEF text, tool
    <2>4. Sends(T, [text EXCEPT !.ctx.ContentBlockStarted = TRUE, !.ctx.ContentIndex = e.index])
      BY <2>1 DEF Sends, IsTurn, IsContext, ContextFields
    <2>5. Sends(T, [tool EXCEPT !.ctx.ToolBlockStarted = TRUE, !.ctx.ToolIndex = e.index,
                     !.ctx.CurrentToolID = e.id, !.ctx.CurrentToolName = e.name])
      BY <2>2 DEF Sends, IsTurn, IsContext, ContextFields
    <2>6. Sends(T, ClaudeBlockStarts(st, e))
      BY <1>1, <2>3, <2>4, <2>5, Zenon
    <2> QED
      BY <1>2, <1>4, <2>6
  <1>5. CASE e.type = "content_block_delta"
    <2> DEFINE text == Put(st, TextDelta(st.ctx.ContentIndex, e.body))
               tool == Put(st, ArgumentsDelta(st.ctx.ToolIndex, e.body))
    <2>1. Sends(T, text)
      BY <1>1, PutItem, ItemEventTypes
    <2>2. Sends(T, tool)
      BY <1>1, PutItem, ItemEventTypes
    <2>3. \/ ClaudeBlockGrows(st, e) = text
          \/ ClaudeBlockGrows(st, e) = [tool EXCEPT !.ctx.ToolArguments = @ \o e.body]
          \/ ClaudeBlockGrows(st, e) = st
      BY DEF ClaudeBlockGrows
    <2> HIDE DEF text, tool
    <2>4. Sends(T, [tool EXCEPT !.ctx.ToolArguments = @ \o e.body])
      BY <2>2 DEF Sends, IsTurn, IsContext, ContextFields
    <2>5. Sends(T, ClaudeBlockGrows(st, e))
      BY <1>1, <2>1, <2>3, <2>4, Zenon
    <2> QED
      BY <1>2, <1>5, <2>5
  <1>6. CASE e.type = "content_block_stop"
    <2> DEFINE text == Put(st, ItemDone(e.index, MessageItem))
               tool == Put(st, ItemDone(e.index, CallItem(st)))
    <2>1. Sends(T, text)
      BY <1>1, PutItem, ItemEventTypes
    <2>2. Sends(T, tool)
      BY <1>1, PutItem, ItemEventTypes
    <2>3. \/ ClaudeBlockStops(st, e) = [tool EXCEPT !.ctx.ToolBlockStarted = FALSE, !.ctx.ToolArguments = << >>]
          \/ ClaudeBlockStops(st, e) = [text EXCEPT !.ctx.ContentBlockStarted = FALSE]
          \/ ClaudeBlockStops(st, e) = st
      BY DEF ClaudeBlockStops
    <2> HIDE DEF text, tool
    <2>4. Sends(T, [tool EXCEPT !.ctx.ToolBlockStarted = FALSE, !.ctx.ToolArguments = << >>])
      BY <2>2 DEF Sends, IsTurn, IsContext, ContextFields
    <2>5. Sends(T, [text EXCEPT !.ctx.ContentBlockStarted = FALSE])
      BY <2>1 DEF Sends, IsTurn, IsContext, ContextFields
    <2>6. Sends(T, ClaudeBlockStops(st, e))
      BY <1>1, <2>3, <2>4, <2>5, Zenon
    <2> QED
      BY <1>2, <1>6, <2>6
  <1> QED
    BY <1>3, <1>4, <1>5, <1>6 DEF BlockEvents

(* One tool call of a chat chunk, made an item.                              *)
LEMMA ChatCallToItemSends ==
  ASSUME NEW T, ItemEvents \subseteq T, NEW st, Sends(T, st), NEW tc
  PROVE  Sends(T, ChatCallToItem(st, tc))
  <1> DEFINE i == tc.index + 1
             put == Put(st, ItemAdded(i, OutputItem("tool_use", tc.id, tc.name, << >>)))
             called == [put EXCEPT !.ctx.ToolCallCounter = @ + 1, !.ctx.CurrentToolID = tc.id,
                                   !.ctx.CurrentToolName = tc.name, !.ctx.ToolArguments = << >>]
             opened == IF tc.id = "" THEN st ELSE called
             told == Put(opened, ArgumentsDelta(i, tc.arguments))
  <1>1. Sends(T, put)
    BY PutItem, ItemEventTypes
  <1>2. Sends(T, called)
    <2> HIDE DEF put
    <2> QED
      BY <1>1 DEF Sends, IsTurn, IsContext, ContextFields
  <1>3. ChatCallToItem(st, tc) = IF tc.arguments = << >> THEN opened
                                 ELSE [told EXCEPT !.ctx.ToolArguments = @ \o tc.arguments]
    BY DEF ChatCallToItem
  <1>4. Sends(T, opened)
    <2> HIDE DEF called
    <2> QED
      BY <1>2
  <1> HIDE DEF opened
  <1>5. Sends(T, told)
    BY <1>4, PutItem, ItemEventTypes
  <1> HIDE DEF told
  <1>6. Sends(T, [told EXCEPT !.ctx.ToolArguments = @ \o tc.arguments])
    BY <1>5 DEF Sends, IsTurn, IsContext, ContextFields
  <1> QED
    BY <1>3, <1>4, <1>6

(* A chat chunk that speaks, for a Responses client: items alone.            *)
LEMMA ChatToResponsesSends ==
  ASSUME NEW T, ItemEvents \subseteq T, NEW c, IsContext(c), NEW e, Speaks(e)
  PROVE  Sends(T, OpenAIStreamToOpenAI2(c, e))
  <1> DEFINE created == CreateResponse(Silent(c))
             spoken == SpeakItem(created, e.content)
             m == Len(e.calls)
  <1>1. Sends(T, spoken)
    BY SilentSends, CreateResponseSends, SpeakItemSends
  <1>2. OpenAIStreamToOpenAI2(c, e) = FoldLeft(ChatCallToItem, spoken, e.calls)
    BY DEF OpenAIStreamToOpenAI2, Speaks, ChatFinishToItems
  <1> HIDE DEF spoken
  <1>3. m \in Nat /\ DOMAIN e.calls = 1..m
    BY DEF Speaks, IsSeq
  <1>4. Sent(T, m, CI!Fold(spoken, e.calls))
    <2> HIDE DEF m
    <2>1. Sent(T, 0, spoken)
      BY <1>1 DEF Sent
    <2>2. \A k \in 1..m : \A x : Sent(T, k - 1, x) => Sent(T, k, ChatCallToItem(x, e.calls[k]))
      BY ChatCallToItemSends DEF Sent
    <2> QED
      BY <1>3, <2>1, <2>2, CI!FoldKeeps
  <1>5. FoldLeft(ChatCallToItem, spoken, e.calls) = CI!Fold(spoken, e.calls)
    BY DEF FoldLeft, MapThenFoldSet, CI!Fold, CI!FoldLeft, CI!MapThenFoldSet, Max, CI!Max
  <1> QED
    BY <1>2, <1>4, <1>5 DEF Sent

(* One part of a Gemini chunk, made an item.                                 *)
LEMMA GeminiPartToItemSends ==
  ASSUME NEW T, ItemEvents \subseteq T, NEW st, Sends(T, st), NEW part
  PROVE  Sends(T, GeminiPartToItem(st, part))
  <1> DEFINE n == st.ctx.ToolCallCounter
             put1 == Put(st, ItemAdded(n + 1, OutputItem("tool_use", CounterId(n), part.name, << >>)))
             put2 == Put(put1, ItemDone(n + 1, OutputItem("tool_use", CounterId(n), part.name, part.body)))
  <1>1. GeminiPartToItem(st, part) = IF part.kind = "text" THEN SpeakItem(st, part.body)
                                     ELSE [put2 EXCEPT !.ctx.ToolCallCounter = n + 1]
    BY DEF GeminiPartToItem
  <1>2. Sends(T, put1)
    BY PutItem, ItemEventTypes
  <1> HIDE DEF put1
  <1>3. Sends(T, put2)
    BY <1>2, PutItem, ItemEventTypes
  <1> HIDE DEF put2, n
  <1>4. Sends(T, [put2 EXCEPT !.ctx.ToolCallCounter = n + 1])
    BY <1>3 DEF Sends, IsTurn, IsContext, ContextFields
  <1> QED
    BY <1>1, <1>4, SpeakItemSends

(* A Gemini chunk that does not finish, for a Responses client: items alone. *)
LEMMA GeminiToResponsesSends ==
  ASSUME NEW T, ItemEvents \subseteq T, NEW c, IsContext(c), NEW e,
         e.type = "gemini", ~e.finished, IsSeq(e.parts), e.usageMetadata \in {0, Reported}
  PROVE  Sends(T, GeminiStreamToOpenAI2(c, e))
  <1> DEFINE st == Silent(c)
             counted == IF e.usageMetadata > 0 THEN [st EXCEPT !.ctx.OutputTokens = e.usageMetadata] ELSE st
             created == CreateResponse(counted)
             m == Len(e.parts)
  <1>1. Sends(T, counted)
    <2>1. Sends(T, st)
      BY SilentSends
    <2> HIDE DEF st
    <2>2. Sends(T, [st EXCEPT !.ctx.OutputTokens = e.usageMetadata])
      BY <2>1 DEF Sends, IsTurn, IsContext, ContextFields
    <2> QED
      BY <2>1, <2>2
  <1>2. GeminiStreamToOpenAI2(c, e) = FoldLeft(GeminiPartToItem, created, e.parts)
    BY DEF GeminiStreamToOpenAI2
  <1> HIDE DEF counted
  <1>3. Sends(T, created)
    BY <1>1, CreateResponseSends
  <1> HIDE DEF created
  <1>4. m \in Nat /\ DOMAIN e.parts = 1..m
    BY DEF IsSeq
  <1>5. Sent(T, m, GI!Fold(created, e.parts))
    <2> HIDE DEF m
    <2>1. Sent(T, 0, created)
      BY <1>3 DEF Sent
    <2>2. \A k \in 1..m : \A x : Sent(T, k - 1, x) => Sent(T, k, GeminiPartToItem(x, e.parts[k]))
      BY GeminiPartToItemSends DEF Sent
    <2> QED
      BY <1>4, <2>1, <2>2, GI!FoldKeeps
  <1>6. FoldLeft(GeminiPartToItem, created, e.parts) = GI!Fold(created, e.parts)
    BY DEF FoldLeft, MapThenFoldSet, GI!Fold, GI!FoldLeft, GI!MapThenFoldSet, Max, GI!Max
  <1> QED
    BY <1>2, <1>5, <1>6 DEF Sent

(* The events an answer ends with are events too, with a usage that is none  *)
(* or the reported one.                                                      *)
LEMMA PutLast ==
  ASSUME NEW st, Sends(Kinds, st)
  PROVE  /\ \A reason : \A n \in {0, Reported} : Sends(Kinds, Put(st, MessageDelta(reason, n)))
         /\ Sends(Kinds, Put(st, MessageStop))
         /\ Sends(Kinds, Put(st, Done))
         /\ \A finish : \A n \in {0, Reported} : Sends(Kinds, Put(st, FinishChunk(finish, n)))
         /\ \A n \in {0, Reported} : Sends(Kinds, Put(st, Completed(n)))
  <1>1. \A reason : \A n \in {0, Reported} : LET e == MessageDelta(reason, n) IN Kind(e) \in Kinds /\ IsEvent(e)
    BY DEF MessageDelta, Kind, Kinds, IsEvent
  <1>2. Kind(MessageStop) \in Kinds /\ IsEvent(MessageStop) /\ Kind(Done) \in Kinds /\ IsEvent(Done)
    BY DEF MessageStop, Done, Kind, Kinds, IsEvent
  <1>3. \A finish : \A n \in {0, Reported} : LET e == FinishChunk(finish, n) IN Kind(e) \in Kinds /\ IsEvent(e)
    <2>1. IsSeq(<< >>)
      BY DEF IsSeq
    <2>2. \A finish, n : LET e == FinishChunk(finish, n)
                         IN  e.type = "chunk" /\ e.usage = n /\ e.calls = << >>
      BY DEF FinishChunk, buildOpenAIChunk, Chunk
    <2> QED
      BY <2>1, <2>2 DEF Kind, Kinds, IsEvent
  <1>4. \A n \in {0, Reported} : Kind(Completed(n)) \in Kinds /\ IsEvent(Completed(n))
    BY DEF Completed, Kind, Kinds, IsEvent
  <1>5. BlockEvents \subseteq Kinds
    BY DEF Kinds
  <1> QED
    BY <1>1, <1>2, <1>3, <1>4, PutSends

(* Content is among all the kinds of events.                                 *)
LEMMA ManyKinds == BlockEvents \subseteq Kinds /\ ItemEvents \subseteq Kinds /\ "chunk" \in Kinds
  BY DEF Kinds

(* Closing every block that is open.                                         *)
LEMMA CloseAllSends ==
  ASSUME NEW st, Sends(Kinds, st)
  PROVE  Sends(Kinds, CloseAll(st)) /\ Sends(Kinds, CloseText(CloseThinking(st)))
  <1>1. Sends(Kinds, CloseThinking(st))
    BY CloseThinkingSends, ManyKinds
  <1>2. Sends(Kinds, CloseText(CloseThinking(st)))
    BY <1>1, LeaveTextSends, ManyKinds
  <1>3. Sends(Kinds, CloseTool(CloseText(CloseThinking(st))))
    BY <1>2, CloseToolSends, ManyKinds
  <1> QED
    BY <1>2, <1>3 DEF CloseAll

(* What was held back as the beginning of a tag is sent as text.             *)
LEMMA FlushSends ==
  ASSUME NEW st, Sends(Kinds, st)
  PROVE  Sends(Kinds, flushThinkTaggedStream(st))
  <1> DEFINE held == st.ctx.ThinkingBuffer
             flushed == IF st.ctx.InThinkingTag THEN emitThinking(st, held) ELSE emitText(st, held)
  <1>1. Sends(Kinds, flushed)
    BY emitThinkingSends, emitTextSends, ManyKinds
  <1>2. flushThinkTaggedStream(st) = [flushed EXCEPT !.ctx.InThinkingTag = FALSE, !.ctx.ThinkingBuffer = << >>]
    BY DEF flushThinkTaggedStream
  <1> HIDE DEF flushed
  <1>3. Sends(Kinds, [flushed EXCEPT !.ctx.InThinkingTag = FALSE, !.ctx.ThinkingBuffer = << >>])
    BY <1>1 DEF Sends, IsTurn, IsContext, ContextFields
  <1> QED
    BY <1>2, <1>3

(* That the reason is sent is noted in the context only.                     *)
LEMMA SentReason ==
  ASSUME NEW st, Sends(Kinds, st)
  PROVE  Sends(Kinds, [st EXCEPT !.ctx.FinishReasonSent = TRUE])
  BY DEF Sends, IsTurn, IsContext, ContextFields

(* A reported usage noted in the context.                                    *)
LEMMA ReportedSends ==
  ASSUME NEW T, NEW st, Sends(T, st), NEW usage \in {0, Reported}
  PROVE  Sends(T, [st EXCEPT !.ctx.OutputTokens = usage]) /\ Sends(T, Counted(st, usage))
  <1>1. Sends(T, [st EXCEPT !.ctx.OutputTokens = usage])
    BY DEF Sends, IsTurn, IsContext, ContextFields
  <1> QED
    BY <1>1 DEF Counted

(* The end of an answer to Claude                                            *)
LEMMA ChatEndsToClaude ==
  ASSUME NEW c, IsContext(c), NEW e,
         \/ e.type = "[DONE]"
         \/ e.type = "chunk" /\ IsSeq(e.content) /\ IsSeq(e.calls) /\ e.usage \in {0, Reported}
  PROVE  Sends(Kinds, OpenAIStreamToClaude(c, e))
  <1> DEFINE started == StartMessage(Silent(c))
             usage == IF e.usage > 0 THEN Put(started, MessageDelta("none", e.usage)) ELSE started
             spoken == ConsumeDelta(ChatReasoning(started, e.reasoning), e.content)
             called == FoldLeft(ChatToolCall, spoken, e.calls)
             m == Len(e.calls)
  <1>1. CASE e.type = "[DONE]"
    <2> DEFINE st == Silent(c)
               closed == CloseAll(flushThinkTaggedStream(st))
               reasoned == IF closed.ctx.FinishReasonSent THEN closed ELSE Put(closed, MessageDelta("end_turn", 0))
    <2>1. Sends(Kinds, closed)
      <3>1. Sends(Kinds, st)
        BY SilentSends
      <3> HIDE DEF st
      <3> QED
        BY <3>1, FlushSends, CloseAllSends
    <2>2. OpenAIStreamToClaude(c, e) = Put(reasoned, MessageStop)
      BY <1>1 DEF OpenAIStreamToClaude, ChatDone
    <2> HIDE DEF closed
    <2>3. Sends(Kinds, reasoned)
      BY <2>1, PutLast
    <2> HIDE DEF reasoned
    <2> QED
      BY <2>2, <2>3, PutLast
  <1>2. CASE e.type = "chunk"
    <2>1. Sends(Kinds, started)
      BY SilentSends, StartMessageSends, ManyKinds
    <2>2. OpenAIStreamToClaude(c, e) \in {usage, ChatFinish(called, e.finish)}
      BY <1>2 DEF OpenAIStreamToClaude
    <2> HIDE DEF started
    <2>3. Sends(Kinds, usage)
      BY <1>2, <2>1, PutLast
    <2> HIDE DEF usage
    <2>4. Sends(Kinds, spoken)
      <3>1. Sends(Kinds, ChatReasoning(started, e.reasoning))
        BY <2>1, ChatReasoningSends, ManyKinds
      <3> QED
        BY <1>2, <3>1, ConsumeDeltaSends, ManyKinds
    <2> HIDE DEF spoken
    <2>5. Sends(Kinds, called)
      <3>1. m \in Nat /\ DOMAIN e.calls = 1..m
        BY <1>2 DEF IsSeq
      <3> HIDE DEF m
      <3>2. Sent(Kinds, 0, spoken)
        BY <2>4 DEF Sent
      <3>3. \A k \in 1..m : \A x : Sent(Kinds, k - 1, x) => Sent(Kinds, k, ChatToolCall(x, e.calls[k]))
        BY ChatToolCallSends, ManyKinds DEF Sent
      <3>4. Sent(Kinds, m, CT!Fold(spoken, e.calls))
        BY <3>1, <3>2, <3>3, CT!FoldKeeps
      <3>5. called = CT!Fold(spoken, e.calls)
        BY DEF FoldLeft, MapThenFoldSet, CT!Fold, CT!FoldLeft, CT!MapThenFoldSet, Max, CT!Max
      <3> QED
        BY <3>4, <3>5 DEF Sent
    <2> HIDE DEF called
    <2>6. Sends(Kinds, ChatFinish(called, e.finish))
      <3> DEFINE reason == IF e.finish = "tool_calls" THEN "tool_use" ELSE "end_turn"
                 put == Put(CloseAll(called), MessageDelta(reason, 0))
      <3>1. Sends(Kinds, put)
        <4>1. Sends(Kinds, CloseAll(called))
          BY <2>5, CloseAllSends
        <4> QED
          BY <4>1, PutLast
      <3>2. ChatFinish(called, e.finish) = IF e.finish = "none" THEN called
                                           ELSE [put EXCEPT !.ctx.FinishReasonSent = TRUE]
        BY DEF ChatFinish
      <3> HIDE DEF put
      <3> QED
        BY <2>5, <3>1, <3>2, SentReason
    <2> QED
      BY <2>2, <2>3, <2>6
  <1> QED
    BY <1>1, <1>2

(* The end of a Responses stream for a Claude client.                        *)
LEMMA ResponsesEndsToClaude ==
  ASSUME NEW c, IsContext(c), NEW e,
         \/ e.type = "[DONE]"
         \/ e.type = "response.completed" /\ e.usage \in {0, Reported}
  PROVE  Sends(Kinds, OpenAI2StreamToClaude(c, e))
  <1> DEFINE st == Silent(c)
  <1>0. Sends(Kinds, st)
    BY SilentSends
  <1>1. CASE e.type = "[DONE]"
    <2> DEFINE closed == CloseAll(flushThinkTaggedStream(st))
               put == Put(closed, MessageStop)
    <2>1. OpenAI2StreamToClaude(c, e) = IF closed.ctx.FinishReasonSent THEN closed
                                        ELSE [put EXCEPT !.ctx.FinishReasonSent = TRUE]
      BY <1>1 DEF OpenAI2StreamToClaude, ResponsesDone
    <2> HIDE DEF st
    <2>2. Sends(Kinds, closed)
      BY <1>0, FlushSends, CloseAllSends
    <2> HIDE DEF closed
    <2>3. Sends(Kinds, put)
      BY <2>2, PutLast
    <2> HIDE DEF put
    <2> QED
      BY <2>1, <2>2, <2>3, SentReason
  <1>2. CASE e.type = "response.completed"
    <2> DEFINE counted == Counted(st, e.usage)
               closed == CloseText(CloseThinking(flushThinkTaggedStream(counted)))
               called == closed.ctx.ToolIndex > 0 \/ closed.ctx.CurrentToolID # ""
               reason == IF called THEN "tool_use" ELSE "end_turn"
               reasoned == Put(closed, MessageDelta(reason, closed.ctx.OutputTokens))
               put == Put(reasoned, MessageStop)
    <2>1. OpenAI2StreamToClaude(c, e) = [put EXCEPT !.ctx.FinishReasonSent = TRUE]
      BY <1>2 DEF OpenAI2StreamToClaude, ResponsesCompleted
    <2> HIDE DEF st
    <2>2. Sends(Kinds, counted)
      BY <1>0, <1>2, ReportedSends
    <2> HIDE DEF counted
    <2>3. Sends(Kinds, closed)
      BY <2>2, FlushSends, CloseAllSends
    <2> HIDE DEF closed, reason
    <2>4. closed.ctx.OutputTokens \in {0, Reported}
      BY <2>3 DEF Sends, IsTurn, IsContext
    <2>5. Sends(Kinds, reasoned)
      BY <2>3, <2>4, PutLast
    <2> HIDE DEF reasoned
    <2>6. Sends(Kinds, put)
      BY <2>5, PutLast
    <2> HIDE DEF put
    <2> QED
      BY <2>1, <2>6, SentReason
  <1> QED
    BY <1>1, <1>2

(* Any Gemini chunk for a Claude client, the last one included.              *)
LEMMA GeminiEndsToClaude ==
  ASSUME NEW c, IsContext(c), NEW e,
         e.type = "gemini", IsSeq(e.parts), e.usageMetadata \in {0, Reported}
  PROVE  Sends(Kinds, GeminiStreamToClaude(c, e))
  <1> DEFINE st == Silent(c)
             counted == Counted(st, e.usageMetadata)
             started == StartMessage(counted)
             spoken == FoldLeft(GeminiPart, started, e.parts)
             m == Len(e.parts)
             closed == CloseText(spoken)
             reason == IF HasCall(e.parts) THEN "tool_use" ELSE "end_turn"
             reasoned == Put(closed, MessageDelta(reason, spoken.ctx.OutputTokens))
             put == Put(reasoned, MessageStop)
  <1>1. GeminiStreamToClaude(c, e) = IF ~e.finished THEN spoken ELSE [put EXCEPT !.ctx.FinishReasonSent = TRUE]
    BY DEF GeminiStreamToClaude, GeminiFinish
  <1>2. Sends(Kinds, started)
    <2>1. Sends(Kinds, counted)
      BY SilentSends, ReportedSends
    <2> HIDE DEF counted
    <2> QED
      BY <2>1, StartMessageSends, ManyKinds
  <1> HIDE DEF started
  <1>3. Sends(Kinds, spoken)
    <2>1. m \in Nat /\ DOMAIN e.parts = 1..m
      BY DEF IsSeq
    <2> HIDE DEF m
    <2>2. Sent(Kinds, 0, started)
      BY <1>2 DEF Sent
    <2>3. \A k \in 1..m : \A x : Sent(Kinds, k - 1, x) => Sent(Kinds, k, GeminiPart(x, e.parts[k]))
      BY GeminiPartSends, ManyKinds DEF Sent
    <2>4. Sent(Kinds, m, GP!Fold(started, e.parts))
      BY <2>1, <2>2, <2>3, GP!FoldKeeps
    <2>5. spoken = GP!Fold(started, e.parts)
      BY DEF FoldLeft, MapThenFoldSet, GP!Fold, GP!FoldLeft, GP!MapThenFoldSet, Max, GP!Max
    <2> QED
      BY <2>4, <2>5 DEF Sent
  <1> HIDE DEF spoken, reason
  <1>4. spoken.ctx.OutputTokens \in {0, Reported}
    BY <1>3 DEF Sends, IsTurn, IsContext
  <1>5. Sends(Kinds, closed)
    BY <1>3, LeaveTextSends, ManyKinds
  <1> HIDE DEF closed
  <1>6. Sends(Kinds, reasoned)
    BY <1>4, <1>5, PutLast
  <1> HIDE DEF reasoned
  <1>7. Sends(Kinds, put)
    BY <1>6, PutLast
  <1> HIDE DEF put
  <1> QED
    BY <1>1, <1>3, <1>7, SentReason

(* The end of an answer to chat                                              *)
LEMMA ClaudeEndsToChat ==
  ASSUME NEW c, IsContext(c), NEW e, e.type \in {"message_delta", "message_stop"}
  PROVE  Sends(Kinds, ClaudeStreamToOpenAI(c, e))
  <1> DEFINE st == Silent(c)
             finish == Finish(e.reason = "tool_use")
  <1>1. ClaudeStreamToOpenAI(c, e) \in {Put(st, FinishChunk(finish, 0)), Put(st, Done)}
    BY DEF ClaudeStreamToOpenAI
  <1>2. Sends(Kinds, st)
    BY SilentSends
  <1> HIDE DEF st, finish
  <1>3. Sends(Kinds, Put(st, FinishChunk(finish, 0))) /\ Sends(Kinds, Put(st, Done))
    BY <1>2, PutLast
  <1> QED
    BY <1>1, <1>3

(* The end of a Responses stream for a chat client.                          *)
LEMMA ResponsesEndsToChat ==
  ASSUME NEW c, IsContext(c), NEW e,
         \/ e.type = "[DONE]"
         \/ e.type = "response.completed" /\ e.usage \in {0, Reported}
  PROVE  Sends(Kinds, OpenAI2StreamToOpenAI(c, e))
  <1> DEFINE st == Silent(c)
             counted == IF e.usage > 0 THEN [st EXCEPT !.ctx.OutputTokens = e.usage] ELSE st
             finish == Finish(c.CurrentToolID # "")
  <1>1. Sends(Kinds, st)
    BY SilentSends
  <1>2. CASE e.type = "[DONE]"
    <2>1. OpenAI2StreamToOpenAI(c, e) = Put(st, Done)
      BY <1>2 DEF OpenAI2StreamToOpenAI
    <2> HIDE DEF st
    <2> QED
      BY <1>1, <2>1, PutLast
  <1>3. CASE e.type = "response.completed"
    <2>1. OpenAI2StreamToOpenAI(c, e) = Put(counted, FinishChunk(finish, counted.ctx.OutputTokens))
      BY <1>3 DEF OpenAI2StreamToOpenAI
    <2> HIDE DEF st
    <2>2. Sends(Kinds, counted)
      BY <1>1, <1>3, ReportedSends
    <2> HIDE DEF counted, finish
    <2>3. counted.ctx.OutputTokens \in {0, Reported}
      BY <2>2 DEF Sends, IsTurn, IsContext
    <2> QED
      BY <2>1, <2>2, <2>3, PutLast
  <1> QED
    BY <1>2, <1>3

(* Any Gemini chunk for a chat client, the last one included.                *)
LEMMA GeminiEndsToChat ==
  ASSUME NEW c, IsContext(c), NEW e,
         e.type = "gemini", IsSeq(e.parts), e.usageMetadata \in {0, Reported}
  PROVE  Sends(Kinds, GeminiStreamToOpenAI(c, e))
  <1> DEFINE st == Silent(c)
             counted == IF e.usageMetadata > 0 THEN [st EXCEPT !.ctx.OutputTokens = e.usageMetadata] ELSE st
             spoken == FoldLeft(GeminiPartToChat, counted, e.parts)
             finish == Finish(\E k \in DOMAIN e.parts : e.parts[k].kind = "tool_use")
             finished == Put(spoken, FinishChunk(finish, spoken.ctx.OutputTokens))
             m == Len(e.parts)
  <1>1. GeminiStreamToOpenAI(c, e) = IF ~e.finished THEN spoken ELSE Put(finished, Done)
    BY DEF GeminiStreamToOpenAI
  <1>2. Sends(Kinds, counted)
    <2>1. Sends(Kinds, st)
      BY SilentSends
    <2> HIDE DEF st
    <2> QED
      BY <2>1, ReportedSends
  <1> HIDE DEF counted, finish
  <1>3. Sends(Kinds, spoken)
    <2>1. m \in Nat /\ DOMAIN e.parts = 1..m
      BY DEF IsSeq
    <2> HIDE DEF m
    <2>2. Sent(Kinds, 0, counted)
      BY <1>2 DEF Sent
    <2>3. \A k \in 1..m : \A x : Sent(Kinds, k - 1, x) => Sent(Kinds, k, GeminiPartToChat(x, e.parts[k]))
      BY GeminiPartToChatSends, ManyKinds DEF Sent
    <2>4. Sent(Kinds, m, GC!Fold(counted, e.parts))
      BY <2>1, <2>2, <2>3, GC!FoldKeeps
    <2>5. spoken = GC!Fold(counted, e.parts)
      BY DEF FoldLeft, MapThenFoldSet, GC!Fold, GC!FoldLeft, GC!MapThenFoldSet, Max, GC!Max
    <2> QED
      BY <2>4, <2>5 DEF Sent
  <1> HIDE DEF spoken
  <1>4. spoken.ctx.OutputTokens \in {0, Reported}
    BY <1>3 DEF Sends, IsTurn, IsContext
  <1>5. Sends(Kinds, finished)
    BY <1>3, <1>4, PutLast
  <1> HIDE DEF finished
  <1> QED
    BY <1>1, <1>3, <1>5, PutLast

(* The end of an answer to responses                                         *)
LEMMA CompleteSends ==
  ASSUME NEW st, Sends(Kinds, st)
  PROVE  Sends(Kinds, Complete(st))
  <1> DEFINE completed == Put(st, Completed(st.ctx.OutputTokens))
  <1>1. st.ctx.OutputTokens \in {0, Reported}
    BY DEF Sends, IsTurn, IsContext
  <1>2. Sends(Kinds, completed)
    BY <1>1, PutLast
  <1>3. Complete(st) = Put(completed, Done)
    BY DEF Complete
  <1> HIDE DEF completed
  <1> QED
    BY <1>2, <1>3, PutLast

(* Closing the item of the text.                                             *)
LEMMA CloseItemSends ==
  ASSUME NEW st, Sends(Kinds, st)
  PROVE  /\ Sends(Kinds, CloseItem(st))
         /\ \A b : Sends(Kinds, [CloseItem(st) EXCEPT !.ctx.ContentBlockStarted = b])
  <1> DEFINE put == Put(st, ItemDone(0, MessageItem))
             closed == CloseItem(st)
  <1>1. Sends(Kinds, put)
    BY PutItem, ItemEventTypes, ManyKinds
  <1>2. CloseItem(st) = IF ~st.ctx.ContentBlockStarted THEN st ELSE [put EXCEPT !.ctx.ContentBlockStarted = FALSE]
    BY DEF CloseItem
  <1> HIDE DEF put
  <1>3. Sends(Kinds, [put EXCEPT !.ctx.ContentBlockStarted = FALSE])
    BY <1>1 DEF Sends, IsTurn, IsContext, ContextFields
  <1>4. Sends(Kinds, closed)
    BY <1>2, <1>3
  <1> HIDE DEF closed
  <1>5. \A b : Sends(Kinds, [closed EXCEPT !.ctx.ContentBlockStarted = b])
    BY <1>4 DEF Sends, IsTurn, IsContext, ContextFields
  <1> QED
    BY <1>4, <1>5 DEF closed

(* Any chat chunk and [DONE], for a Responses client.                        *)
LEMMA ChatEndsToResponses ==
  ASSUME NEW c, IsContext(c), NEW e,
         \/ e.type = "[DONE]"
         \/ e.type = "chunk" /\ IsSeq(e.calls)
  PROVE  Sends(Kinds, OpenAIStreamToOpenAI2(c, e))
  <1> DEFINE st == Silent(c)
  <1>0. Sends(Kinds, st)
    BY SilentSends
  <1>1. CASE e.type = "[DONE]"
    <2> DEFINE closed == [CloseItem(st) EXCEPT !.ctx.ContentBlockStarted = c.ContentBlockStarted]
    <2>1. OpenAIStreamToOpenAI2(c, e) = IF c.FinishReasonSent THEN st ELSE Complete(closed)
      BY <1>1 DEF OpenAIStreamToOpenAI2
    <2> HIDE DEF st
    <2>2. Sends(Kinds, closed)
      BY <1>0, CloseItemSends
    <2> HIDE DEF closed
    <2> QED
      BY <1>0, <2>1, <2>2, CompleteSends
  <1>2. CASE e.type = "chunk"
    <2> DEFINE created == CreateResponse(st)
               spoken == SpeakItem(created, e.content)
               called == FoldLeft(ChatCallToItem, spoken, e.calls)
               m == Len(e.calls)
    <2>1. OpenAIStreamToOpenAI2(c, e) = IF ~e.choices THEN created ELSE ChatFinishToItems(called, e.finish)
      BY <1>2 DEF OpenAIStreamToOpenAI2
    <2> HIDE DEF st
    <2>2. Sends(Kinds, created)
      BY <1>0, CreateResponseSends, ManyKinds
    <2> HIDE DEF created
    <2>3. Sends(Kinds, spoken)
      BY <2>2, SpeakItemSends, ManyKinds
    <2> HIDE DEF spoken
    <2>4. Sends(Kinds, called)
      <3>1. m \in Nat /\ DOMAIN e.calls = 1..m
        BY <1>2 DEF IsSeq
      <3> HIDE DEF m
      <3>2. Sent(Kinds, 0, spoken)
        BY <2>3 DEF Sent
      <3>3. \A k \in 1..m : \A x : Sent(Kinds, k - 1, x) => Sent(Kinds, k, ChatCallToItem(x, e.calls[k]))
        BY ChatCallToItemSends, ManyKinds DEF Sent
      <3>4. Sent(Kinds, m, CI!Fold(spoken, e.calls))
        BY <3>1, <3>2, <3>3, CI!FoldKeeps
      <3>5. called = CI!Fold(spoken, e.calls)
        BY DEF FoldLeft, MapThenFoldSet, CI!Fold, CI!FoldLeft, CI!MapThenFoldSet, Max, CI!Max
      <3> QED
        BY <3>4, <3>5 DEF Sent
    <2> HIDE DEF called
    <2>5. Sends(Kinds, ChatFinishToItems(called, e.finish))
      <3> DEFINE closed == CloseItem(called)
                 done == IF e.finish = "tool_calls" /\ called.ctx.CurrentToolID # ""
                         THEN Put(closed, ItemDone(1, CallItem(closed))) ELSE closed
                 complete == Complete(done)
      <3>1. ChatFinishToItems(called, e.finish)
              = IF e.finish = "none" THEN called ELSE [complete EXCEPT !.ctx.FinishReasonSent = TRUE]
        BY DEF ChatFinishToItems
      <3>2. Sends(Kinds, closed)
        BY <2>4, CloseItemSends
      <3> HIDE DEF closed
      <3>3. Sends(Kinds, done)
        BY <3>2, PutItem, ItemEventTypes, ManyKinds
      <3> HIDE DEF done
      <3>4. Sends(Kinds, complete)
        BY <3>3, CompleteSends
      <3> HIDE DEF complete
      <3>5. Sends(Kinds, [complete EXCEPT !.ctx.FinishReasonSent = TRUE])
        BY <3>4, SentReason
      <3> QED
        BY <2>4, <3>1, <3>5
    <2> QED
      BY <2>1, <2>2, <2>5
  <1> QED
    BY <1>1, <1>2

(* The end of a Claude stream for a Responses client.                        *)
LEMMA ClaudeEndsToResponses ==
  ASSUME NEW c, IsContext(c), NEW e,
         \/ e.type = "message_delta" /\ e.usage \in {0, Reported}
         \/ e.type = "message_stop"
  PROVE  Sends(Kinds, ClaudeStreamToOpenAI2(c, e))
  <1> DEFINE st == Silent(c)
  <1>0. Sends(Kinds, st)
    BY SilentSends
  <1>1. CASE e.type = "message_delta"
    <2>1. ClaudeStreamToOpenAI2(c, e) = [st EXCEPT !.ctx.OutputTokens = e.usage]
      BY <1>1 DEF ClaudeStreamToOpenAI2
    <2> HIDE DEF st
    <2>2. Sends(Kinds, [st EXCEPT !.ctx.OutputTokens = e.usage])
      BY <1>0, <1>1, ReportedSends
    <2> QED
      BY <2>1, <2>2
  <1>2. CASE e.type = "message_stop"
    <2>1. ClaudeStreamToOpenAI2(c, e) = Complete(st)
      BY <1>2 DEF ClaudeStreamToOpenAI2
    <2> HIDE DEF st
    <2> QED
      BY <1>0, <2>1, CompleteSends
  <1> QED
    BY <1>1, <1>2

(* Any Gemini chunk for a Responses client, the last one included.           *)
LEMMA GeminiEndsToResponses ==
  ASSUME NEW c, IsContext(c), NEW e,
         e.type = "gemini", IsSeq(e.parts), e.usageMetadata \in {0, Reported}
  PROVE  Sends(Kinds, GeminiStreamToOpenAI2(c, e))
  <1> DEFINE st == Silent(c)
             counted == IF e.usageMetadata > 0 THEN [st EXCEPT !.ctx.OutputTokens = e.usageMetadata] ELSE st
             created == CreateResponse(counted)
             spoken == FoldLeft(GeminiPartToItem, created, e.parts)
             m == Len(e.parts)
  <1>1. GeminiStreamToOpenAI2(c, e) = IF e.finished THEN Complete(CloseItem(spoken)) ELSE spoken
    BY DEF GeminiStreamToOpenAI2
  <1>2. Sends(Kinds, counted)
    <2>1. Sends(Kinds, st)
      BY SilentSends
    <2> HIDE DEF st
    <2> QED
      BY <2>1, ReportedSends
  <1> HIDE DEF counted
  <1>3. Sends(Kinds, created)
    BY <1>2, CreateResponseSends, ManyKinds
  <1> HIDE DEF created
  <1>4. Sends(Kinds, spoken)
    <2>1. m \in Nat /\ DOMAIN e.parts = 1..m
      BY DEF IsSeq
    <2> HIDE DEF m
    <2>2. Sent(Kinds, 0, created)
      BY <1>3 DEF Sent
    <2>3. \A k \in 1..m : \A x : Sent(Kinds, k - 1, x) => Sent(Kinds, k, GeminiPartToItem(x, e.parts[k]))
      BY GeminiPartToItemSends, ManyKinds DEF Sent
    <2>4. Sent(Kinds, m, GI!Fold(created, e.parts))
      BY <2>1, <2>2, <2>3, GI!FoldKeeps
    <2>5. spoken = GI!Fold(created, e.parts)
      BY DEF FoldLeft, MapThenFoldSet, GI!Fold, GI!FoldLeft, GI!MapThenFoldSet, Max, GI!Max
    <2> QED
      BY <2>4, <2>5 DEF Sent
  <1> HIDE DEF spoken
  <1> QED
    BY <1>1, <1>4, CloseItemSends, CompleteSends

(***************************************************************************)
(* What the client has made of the stream: a view that has heard neither   *)
(* an end nor a reason stays so while only content is sent to it           *)
(***************************************************************************)
IsView(v) ==
    v = [starts |-> v.starts, items |-> v.items, reason |-> v.reason, ends |-> v.ends, faults |-> v.faults]

View(starts, items, reason, ends, faults) ==
    [starts |-> starts, items |-> items, reason |-> reason, ends |-> ends, faults |-> faults]

Calm(p, k, v) == IsView(v) /\ v.reason = "none" /\ v.ends = 0

HC == INSTANCE FoldFacts WITH Op <- HearClaude, Keeps <- Calm
HO == INSTANCE FoldFacts WITH Op <- HearChat, Keeps <- Calm
HR == INSTANCE FoldFacts WITH Op <- HearResponses, Keeps <- Calm
HK == INSTANCE FoldFacts WITH Op <- HearCall, Keeps <- Calm

(* A view with one field set is a view with the other fields as they were.   *)
LEMMA SetView ==
  ASSUME NEW v, IsView(v), NEW x
  PROVE  /\ [v EXCEPT !.starts = x] = View(x, v.items, v.reason, v.ends, v.faults)
         /\ [v EXCEPT !.items = x] = View(v.starts, x, v.reason, v.ends, v.faults)
         /\ [v EXCEPT !.reason = x] = View(v.starts, v.items, x, v.ends, v.faults)
         /\ [v EXCEPT !.ends = x] = View(v.starts, v.items, v.reason, x, v.faults)
         /\ [v EXCEPT !.faults = x] = View(v.starts, v.items, v.reason, v.ends, x)
  BY DEF IsView, View

(* The fields of a view that is put together.                                *)
LEMMA ViewFields ==
  ASSUME NEW s, NEW i, NEW r, NEW n, NEW f
  PROVE  /\ IsView(View(s, i, r, n, f))
         /\ View(s, i, r, n, f).starts = s
         /\ View(s, i, r, n, f).items = i
         /\ View(s, i, r, n, f).reason = r
         /\ View(s, i, r, n, f).ends = n
         /\ View(s, i, r, n, f).faults = f
  BY DEF IsView, View

(* To note a fault touches nothing but the faults.                           *)
LEMMA FaultyView ==
  ASSUME NEW v, IsView(v), NEW wrong, NEW f
  PROVE  /\ IsView(Faulty(v, wrong, f))
         /\ Faulty(v, wrong, f).starts = v.starts /\ Faulty(v, wrong, f).items = v.items
         /\ Faulty(v, wrong, f).reason = v.reason /\ Faulty(v, wrong, f).ends = v.ends
         /\ ~wrong => Faulty(v, wrong, f) = v
  <1>1. CASE wrong
    <2>1. Faulty(v, wrong, f) = [v EXCEPT !.faults = v.faults \cup {f}]
      BY <1>1, Zenon DEF Faulty
    <2>2. Faulty(v, wrong, f) = View(v.starts, v.items, v.reason, v.ends, v.faults \cup {f})
      BY <2>1, SetView
    <2>3. /\ IsView(Faulty(v, wrong, f))
          /\ Faulty(v, wrong, f).starts = v.starts /\ Faulty(v, wrong, f).items = v.items
          /\ Faulty(v, wrong, f).reason = v.reason /\ Faulty(v, wrong, f).ends = v.ends
      BY <2>2, ViewFields
    <2> QED
      BY <1>1, <2>3, Zenon
  <1>2. CASE ~wrong
    <2>1. Faulty(v, wrong, f) = v
      BY <1>2, Zenon DEF Faulty
    <2> QED
      BY <2>1, Zenon
  <1> QED
    BY <1>1, <1>2, Zenon

(* A call has to have an id that no other has.                               *)
Fresh(v, id) == id = "" \/ \A k \in DOMAIN v.items : v.items[k].id # id

(* To open an item appends it and touches neither reason nor end.            *)
LEMMA OpenedView ==
  ASSUME NEW v, IsView(v), NEW i, NEW kind, NEW id, NEW name
  PROVE  LET w == Opened(v, i, kind, id, name)
         IN  /\ IsView(w)
             /\ w.starts = v.starts /\ w.items = Append(v.items, NewItem(i, kind, id, name))
             /\ w.reason = v.reason /\ w.ends = v.ends
             /\ Fresh(v, id) => w.faults = v.faults
  <1> DEFINE same == id # "" /\ \E k \in DOMAIN v.items : v.items[k].id = id
             u == Faulty(v, same, "sameid")
             item == NewItem(i, kind, id, name)
             longer == Append(v.items, item)
             w == View(u.starts, longer, u.reason, u.ends, u.faults)
  <1>1. /\ IsView(u) /\ u.starts = v.starts /\ u.items = v.items /\ u.reason = v.reason /\ u.ends = v.ends
    <2> HIDE DEF same
    <2> QED
      BY FaultyView
  <1>2. Fresh(v, id) => u = v
    <2>1. ~same => u = v
      <3> HIDE DEF same
      <3> QED
        BY FaultyView
    <2> QED
      BY <2>1 DEF Fresh
  <1>3. Opened(v, i, kind, id, name) = [u EXCEPT !.items = longer]
    <2>1. Opened(v, i, kind, id, name) = [u EXCEPT !.items = Append(@, item)]
      BY DEF Opened
    <2> HIDE DEF u, same, item
    <2> QED
      BY <1>1, <2>1
  <1> HIDE DEF u, same, item, longer
  <1>4. Opened(v, i, kind, id, name) = w
    BY <1>1, <1>3, SetView
  <1>5. /\ IsView(w) /\ w.starts = v.starts /\ w.items = longer
        /\ w.reason = v.reason /\ w.ends = v.ends /\ w.faults = u.faults
    BY <1>1, ViewFields
  <1> HIDE DEF w
  <1> QED
    BY <1>2, <1>4, <1>5 DEF item, longer

Long(v, i, body) ==
    [k \in DOMAIN v.items |-> IF k \in OpenPlaces(v, i) THEN Longer(v.items[k], body) ELSE v.items[k]]

(* To add to the body of an item touches neither reason nor end.             *)
LEMMA GrownView ==
  ASSUME NEW v, IsView(v), NEW i, NEW body
  PROVE  LET w == Grown(v, i, body)
         IN  /\ IsView(w) /\ w.starts = v.starts /\ w.reason = v.reason /\ w.ends = v.ends /\ w.faults = v.faults
             /\ w.items = Long(v, i, body)
  <1>1. Grown(v, i, body) = [v EXCEPT !.items = Long(v, i, body)]
    BY DEF Grown, Long
  <1>2. Grown(v, i, body) = View(v.starts, Long(v, i, body), v.reason, v.ends, v.faults)
    BY <1>1, SetView
  <1> QED
    BY <1>2, ViewFields

Shorn(v, i) ==
    [k \in DOMAIN v.items |-> IF k \in OpenPlaces(v, i) THEN Closed(v.items[k]) ELSE v.items[k]]

(* To close an item touches neither reason nor end.                          *)
LEMMA ShutView ==
  ASSUME NEW v, IsView(v), NEW i
  PROVE  LET w == Shut(v, i)
         IN  /\ IsView(w) /\ w.starts = v.starts /\ w.reason = v.reason /\ w.ends = v.ends /\ w.faults = v.faults
             /\ w.items = Shorn(v, i)
  <1>1. Shut(v, i) = [v EXCEPT !.items = Shorn(v, i)]
    BY DEF Shut, Shorn
  <1>2. Shut(v, i) = View(v.starts, Shorn(v, i), v.reason, v.ends, v.faults)
    BY <1>1, SetView
  <1> QED
    BY <1>2, ViewFields

(* A fault does not end an answer.                                           *)
LEMMA FaultyCalm ==
  ASSUME NEW p, NEW k, NEW v, Calm(p, k, v), NEW wrong, NEW f
  PROVE  Calm(p, k, Faulty(v, wrong, f))
  BY FaultyView DEF Calm

(* Nor does more of a body, or the close of an item.                         *)
LEMMA GrownCalm ==
  ASSUME NEW p, NEW k, NEW v, Calm(p, k, v), NEW i, NEW body
  PROVE  Calm(p, k, Grown(v, i, body)) /\ Calm(p, k, Shut(v, i))
  BY GrownView, ShutView DEF Calm

(* Nor does a new item.                                                      *)
LEMMA OpenedCalm ==
  ASSUME NEW p, NEW k, NEW v, Calm(p, k, v), NEW i, NEW kind, NEW id, NEW name
  PROVE  Calm(p, k, Opened(v, i, kind, id, name))
  <1>1. IsView(v)
    BY DEF Calm
  <1> DEFINE w == Opened(v, i, kind, id, name)
  <1>2. IsView(w) /\ w.reason = v.reason /\ w.ends = v.ends
    BY <1>1, OpenedView
  <1> HIDE DEF w
  <1>3. Calm(p, k, w)
    BY <1>2 DEF Calm
  <1> QED
    BY <1>3 DEF w

(* What a Claude client hears of content blocks ends nothing.                *)
LEMMA CalmClaude ==
  ASSUME NEW p, NEW k, NEW v, Calm(p, k, v), NEW e,
         e.type \in {"message_start", "content_block_start", "content_block_delta", "content_block_stop"}
  PROVE  Calm(p, k, HearClaude(v, e))
  <1>1. CASE e.type = "message_start"
    <2>1. Calm(p, k, Faulty(v, v.starts > 0, "twice"))
      BY FaultyView DEF Calm
    <2>2. HearClaude(v, e) = [Faulty(v, v.starts > 0, "twice") EXCEPT !.starts = 1]
      BY <1>1 DEF HearClaude
    <2> QED
      BY <2>1, <2>2 DEF Calm, IsView
  <1>2. CASE e.type = "content_block_start"
    <2> DEFINE w1 == Faulty(v, v.starts = 0, "early")
               w2 == Faulty(w1, v.ends > 0 \/ v.reason # "none", "late")
               w3 == Faulty(w2, Places(v, e.index) # {}, "reused")
               w4 == Faulty(w3, SomeOpen(v), "overlap")
    <2>1. Calm(p, k, w1)
      BY FaultyView DEF Calm
    <2>2. Calm(p, k, w2)
      <3> HIDE DEF w1
      <3> QED
        BY <2>1, FaultyView DEF Calm
    <2>3. Calm(p, k, w3)
      <3> HIDE DEF w2
      <3> QED
        BY <2>2, FaultyView DEF Calm
    <2>4. Calm(p, k, w4)
      <3> HIDE DEF w3
      <3> QED
        BY <2>3, FaultyView DEF Calm
    <2>5. HearClaude(v, e) = Opened(w4, e.index, e.kind, e.id, e.name)
      BY <1>2 DEF HearClaude
    <2> HIDE DEF w4
    <2>6. IsView(w4) /\ w4.reason = "none" /\ w4.ends = 0
      BY <2>4 DEF Calm
    <2> DEFINE w5 == Opened(w4, e.index, e.kind, e.id, e.name)
    <2>7. IsView(w5) /\ w5.reason = w4.reason /\ w5.ends = w4.ends
      BY <2>6, OpenedView
    <2> HIDE DEF w5
    <2>8. HearClaude(v, e) = w5
      BY <2>5 DEF w5
    <2> QED
      BY <2>6, <2>7, <2>8 DEF Calm
  <1>3. CASE e.type = "content_block_delta"
    <2> DEFINE wrong == \A n \in OpenPlaces(v, e.index) : v.items[n].kind # e.kind
               w == Faulty(v, wrong, "stray")
    <2>1. Calm(p, k, w)
      <3> HIDE DEF wrong
      <3> QED
        BY FaultyView DEF Calm
    <2>2. HearClaude(v, e) = Grown(w, e.index, e.body)
      BY <1>3 DEF HearClaude
    <2> HIDE DEF w
    <2> QED
      BY <2>1, <2>2, GrownView DEF Calm
  <1>4. CASE e.type = "content_block_stop"
    <2> DEFINE w == Faulty(v, OpenPlaces(v, e.index) = {}, "stray")
    <2>1. Calm(p, k, w)
      BY FaultyView DEF Calm
    <2>2. HearClaude(v, e) = Shut(w, e.index)
      BY <1>4 DEF HearClaude
    <2> HIDE DEF w
    <2> QED
      BY <2>1, <2>2, ShutView DEF Calm
  <1> QED
    BY <1>1, <1>2, <1>3, <1>4

(* What a chat client hears of a tool call ends nothing.                     *)
LEMMA HearCallCalm ==
  ASSUME NEW p, NEW k, NEW v, Calm(p, k, v), NEW c
  PROVE  Calm(p, k, HearCall(v, c))
  <1> DEFINE i == c.index + 1
             w == Opened(Faulty(v, c.id = "", "stray"), i, "tool_use", c.id, c.name)
             u == Faulty(v, c.id # "", "reused")
  <1>1. HearCall(v, c) = IF Places(v, i) = {} THEN Grown(w, i, c.arguments) ELSE Grown(u, i, c.arguments)
    BY DEF HearCall
  <1>2. Calm(p, k, w)
    BY FaultyCalm, OpenedCalm
  <1>3. Calm(p, k, u)
    BY FaultyCalm
  <1> HIDE DEF w, u
  <1>4. Calm(p, k, Grown(w, i, c.arguments)) /\ Calm(p, k, Grown(u, i, c.arguments))
    BY <1>2, <1>3, GrownCalm
  <1> QED
    BY <1>1, <1>4

(* What a chat client hears of chunks without a reason ends nothing.         *)
LEMMA CalmChat ==
  ASSUME NEW v, Calm(0, 0, v), NEW e,
         e.type = "chunk", e.finish = "none", IsSeq(e.calls)
  PROVE  Calm(0, 0, HearChat(v, e))
  <1> DEFINE wrong == \/ v.ends > 0
                      \/ /\ v.reason # "none"
                         /\ (e.content # << >> \/ e.calls # << >>)
             late == Faulty(v, wrong, "late")
             text == HearText(late, e.content)
             m == Len(e.calls)
  <1>1. Calm(0, 0, late)
    <2> HIDE DEF wrong
    <2> QED
      BY FaultyCalm
  <1>2. HearChat(v, e) = FoldLeft(HearCall, text, e.calls)
    BY DEF HearChat
  <1> HIDE DEF late
  <1>3. Calm(0, 0, text)
    <2> DEFINE open == IF Places(late, 0) = {} THEN Opened(late, 0, "text", "", "") ELSE late
    <2>1. Calm(0, 0, open)
      BY <1>1, OpenedCalm
    <2>2. text = IF e.content = << >> THEN late ELSE Grown(open, 0, e.content)
      BY DEF HearText
    <2> HIDE DEF open, text
    <2>3. Calm(0, 0, Grown(open, 0, e.content))
      BY <2>1, GrownCalm
    <2> QED
      BY <1>1, <2>2, <2>3
  <1> HIDE DEF text
  <1>4. m \in Nat /\ DOMAIN e.calls = 1..m
    BY DEF IsSeq
  <1>5. Calm(0, m, HK!Fold(text, e.calls))
    <2> HIDE DEF m
    <2>1. \A k \in 1..m : \A x : Calm(0, k - 1, x) => Calm(0, k, HearCall(x, e.calls[k]))
      BY HearCallCalm DEF Calm
    <2> QED
      BY <1>3, <1>4, <2>1, HK!FoldKeeps
  <1>6. FoldLeft(HearCall, text, e.calls) = HK!Fold(text, e.calls)
    BY DEF FoldLeft, MapThenFoldSet, HK!Fold, HK!FoldLeft, HK!MapThenFoldSet, Max, HK!Max
  <1> QED
    BY <1>2, <1>5, <1>6 DEF Calm

(* What a Responses client hears of items ends nothing.                      *)
LEMMA CalmResponses ==
  ASSUME NEW v, Calm(0, 0, v), NEW e, e.type \in ItemEvents
  PROVE  Calm(0, 0, HearResponses(v, e))
  <1>1. CASE e.type = "response.created"
    <2>1. Calm(0, 0, Faulty(v, v.starts > 0, "twice"))
      BY FaultyCalm
    <2>2. HearResponses(v, e) = [Faulty(v, v.starts > 0, "twice") EXCEPT !.starts = 1]
      BY <1>1 DEF HearResponses
    <2> QED
      BY <2>1, <2>2 DEF Calm, IsView
  <1>2. CASE e.type = "response.output_item.added"
    <2> DEFINE w1 == Faulty(v, v.starts = 0, "early")
               w2 == Faulty(w1, v.ends > 0, "late")
               w3 == Faulty(w2, Places(v, e.index) # {}, "reused")
    <2>1. Calm(0, 0, w1)
      BY FaultyCalm
    <2>2. HearResponses(v, e) = Opened(w3, e.index, e.item.kind, e.item.id, e.item.name)
      BY <1>2 DEF HearResponses
    <2> HIDE DEF w1
    <2>3. Calm(0, 0, w2)
      BY <2>1, FaultyCalm
    <2> HIDE DEF w2
    <2>4. Calm(0, 0, w3)
      BY <2>3, FaultyCalm
    <2> HIDE DEF w3
    <2>5. Calm(0, 0, Opened(w3, e.index, e.item.kind, e.item.id, e.item.name))
      BY <2>4, OpenedCalm
    <2> QED
      BY <2>2, <2>5
  <1>3. CASE e.type \in {"response.output_text.delta", "response.function_call_arguments.delta"}
    <2>1. PICK kind \in {"text", "tool_use"} :
            HearResponses(v, e) = Grown(Faulty(v, \A k \in OpenPlaces(v, e.index) : v.items[k].kind # kind, "stray"),
                                        e.index, e.body)
      <3>1. CASE e.type = "response.output_text.delta"
        BY <3>1 DEF HearResponses
      <3>2. CASE e.type = "response.function_call_arguments.delta"
        BY <3>2 DEF HearResponses
      <3> QED
        BY <1>3, <3>1, <3>2
    <2> DEFINE wrong == \A k \in OpenPlaces(v, e.index) : v.items[k].kind # kind
               w == Faulty(v, wrong, "stray")
    <2>2. HearResponses(v, e) = Grown(w, e.index, e.body)
      BY <2>1
    <2>3. Calm(0, 0, w)
      <3> HIDE DEF wrong
      <3> QED
        BY FaultyCalm
    <2> HIDE DEF w
    <2> QED
      BY <2>2, <2>3, GrownCalm
  <1>4. CASE e.type = "response.output_item.done"
    <2> DEFINE open == OpenPlaces(v, e.index)
               told == IF \E k \in open : v.items[k].kind = "tool_use" /\ v.items[k].body = << >>
                       THEN Grown(v, e.index, e.item.arguments) ELSE v
               wrong == \A k \in open : \/ v.items[k].id # e.item.id
                                        \/ /\ e.item.kind = "tool_use"
                                           /\ told.items[k].body # e.item.arguments
               w == Faulty(told, wrong, "stray")
    <2>1. HearResponses(v, e) = Shut(w, e.index)
      BY <1>4 DEF HearResponses
    <2>2. Calm(0, 0, told)
      BY GrownCalm
    <2>3. Calm(0, 0, w)
      <3> HIDE DEF wrong, told
      <3> QED
        BY <2>2, FaultyCalm
    <2> HIDE DEF w
    <2> QED
      BY <2>1, <2>3, GrownCalm
  <1> QED
    BY <1>1, <1>2, <1>3, <1>4 DEF ItemEvents

(* The kinds of the events that only tell content.                           *)
ContentKinds(dialect) ==
    CASE dialect = "claude"    -> BlockEvents
      [] dialect = "chat"      -> {"chunk"}
      [] dialect = "responses" -> ItemEvents

(* What a client hears of several events is a fold over them, in its         *)
(* dialect.                                                                  *)
LEMMA HearFolds ==
  ASSUME NEW v, NEW es
  PROVE  /\ Hear("claude", v, es) = HC!Fold(v, es)
         /\ Hear("chat", v, es) = HO!Fold(v, es)
         /\ Hear("responses", v, es) = HR!Fold(v, es)
  <1>1. FoldLeft(HearClaude, v, es) = HC!Fold(v, es)
    BY DEF FoldLeft, MapThenFoldSet, HC!Fold, HC!FoldLeft, HC!MapThenFoldSet, Max, HC!Max
  <1>2. FoldLeft(HearChat, v, es) = HO!Fold(v, es)
    BY DEF FoldLeft, MapThenFoldSet, HO!Fold, HO!FoldLeft, HO!MapThenFoldSet, Max, HO!Max
  <1>3. FoldLeft(HearResponses, v, es) = HR!Fold(v, es)
    BY DEF FoldLeft, MapThenFoldSet, HR!Fold, HR!FoldLeft, HR!MapThenFoldSet, Max, HR!Max
  <1> QED
    BY <1>1, <1>2, <1>3 DEF Hear

(* Content alone ends nothing, however many events it is sent as.            *)
LEMMA HearsCalm ==
  ASSUME NEW d \in {"claude", "chat", "responses"}, NEW v, Calm(0, 0, v), NEW es, IsSeq(es),
         \A k \in DOMAIN es : Kind(es[k]) \in ContentKinds(d) /\ IsEvent(es[k])
  PROVE  Calm(0, 0, Hear(d, v, es))
  <1> DEFINE m == Len(es)
  <1>1. m \in Nat /\ DOMAIN es = 1..m
    BY DEF IsSeq
  <1> HIDE DEF m
  <1>2. CASE d = "claude"
    <2>1. \A k \in 1..m : es[k].type \in BlockEvents
      BY <1>1, <1>2 DEF ContentKinds, Kind, BlockEvents
    <2>2. \A k \in 1..m : \A x : Calm(0, k - 1, x) => Calm(0, k, HearClaude(x, es[k]))
      BY <2>1, CalmClaude DEF Calm, BlockEvents
    <2>3. Calm(0, m, HC!Fold(v, es))
      BY <1>1, <2>2, HC!FoldKeeps
    <2> QED
      BY <1>2, <2>3, HearFolds DEF Calm
  <1>3. CASE d = "chat"
    <2>1. \A k \in 1..m : es[k].type = "chunk" /\ es[k].finish = "none" /\ IsSeq(es[k].calls)
      BY <1>1, <1>3 DEF ContentKinds, Kind, IsEvent
    <2>2. \A k \in 1..m : \A x : Calm(0, k - 1, x) => Calm(0, k, HearChat(x, es[k]))
      BY <2>1, CalmChat DEF Calm
    <2>3. Calm(0, m, HO!Fold(v, es))
      BY <1>1, <2>2, HO!FoldKeeps
    <2> QED
      BY <1>3, <2>3, HearFolds DEF Calm
  <1>4. CASE d = "responses"
    <2>1. \A k \in 1..m : es[k].type \in ItemEvents
      BY <1>1, <1>4 DEF ContentKinds, Kind, ItemEvents
    <2>2. \A k \in 1..m : \A x : Calm(0, k - 1, x) => Calm(0, k, HearResponses(x, es[k]))
      BY <2>1, CalmResponses DEF Calm
    <2>3. Calm(0, m, HR!Fold(v, es))
      BY <1>1, <2>2, HR!FoldKeeps
    <2> QED
      BY <1>4, <2>3, HearFolds DEF Calm
  <1> QED
    BY <1>2, <1>3, <1>4

(***************************************************************************)
(* The relay                                                               *)
(***************************************************************************)
Upstreams == {"claude", "chat", "responses", "gemini"}
Dialects == {"claude", "chat", "responses"}

(* An upstream's event that tells content, or begins the stream.             *)
Early(from, e) ==
    CASE from = "claude"    -> e.type \in BlockEvents
      [] from = "chat"      -> Speaks(e)
      [] from = "responses" -> /\ e.type \in ItemEvents
                               /\ e.type = "response.output_text.delta" => IsSeq(e.body)
      [] from = "gemini"    -> /\ e.type = "gemini" /\ ~e.finished /\ IsSeq(e.parts)
                               /\ e.usageMetadata \in {0, Reported}

(* An upstream's event that may give a reason, report the usage, or end.     *)
Late(from, e) ==
    CASE from = "claude"    -> \/ e = MessageStop
                               \/ e = MessageDelta(e.reason, e.usage) /\ e.usage \in {0, Reported}
      [] from = "chat"      -> \/ e = Done
                               \/ /\ e.type = "chunk" /\ IsSeq(e.content) /\ IsSeq(e.calls)
                                  /\ e.usage \in {0, Reported}
      [] from = "responses" -> \/ e = Done
                               \/ e.type = "response.completed" /\ e.usage \in {0, Reported}
      [] from = "gemini"    -> /\ e.type = "gemini" /\ IsSeq(e.parts)
                               /\ e.usageMetadata \in {0, Reported}

(* A turn that sends one event and keeps the context.                        *)
LEMMA OneEvent ==
  ASSUME NEW T, NEW c, IsContext(c), NEW e, Kind(e) \in T, IsEvent(e)
  PROVE  Sends(T, [ctx |-> c, sent |-> <<e>>])
  <1>1. IsSeq(<<e>>)
    BY DEF IsSeq
  <1> QED
    BY <1>1 DEF Sends, IsTurn

(* Whatever the route, content of the upstream is sent on as content of the  *)
(* client's dialect.                                                         *)
LEMMA EarlyTurn ==
  ASSUME route.from \in Upstreams, route.to \in Dialects,
         NEW c, IsContext(c), NEW e, Early(route.from, e)
  PROVE  Sends(ContentKinds(route.to), transformStreamEvent(c, e))
  <1> DEFINE st == transformStreamEvent(c, e)
  <1>1. CASE route.to = "claude"
    <2>0. ContentKinds(route.to) = BlockEvents
      BY <1>1 DEF ContentKinds
    <2>1. CASE route.from = "claude"
      <3>1. e.type \in BlockEvents
        BY <2>1 DEF Early
      <3>2. st = [ctx |-> c, sent |-> <<e>>]
        BY <1>1, <2>1, <3>1 DEF transformStreamEvent, ClaudeStreamToClaude, BlockEvents
      <3>3. Kind(e) \in BlockEvents /\ IsEvent(e)
        BY <3>1 DEF Kind, IsEvent, BlockEvents
      <3> QED
        BY <2>0, <3>2, <3>3, OneEvent
    <2>2. CASE route.from = "chat"
      <3>1. st = OpenAIStreamToClaude(c, e)
        BY <1>1, <2>2 DEF transformStreamEvent
      <3>2. Speaks(e)
        BY <2>2 DEF Early
      <3> QED
        BY <2>0, <3>1, <3>2, ChatToClaudeSends
    <2>3. CASE route.from = "responses"
      <3>1. st = OpenAI2StreamToClaude(c, e)
        BY <1>1, <2>3 DEF transformStreamEvent
      <3>2. e.type \in ItemEvents /\ (e.type = "response.output_text.delta" => IsSeq(e.body))
        BY <2>3 DEF Early
      <3> QED
        BY <2>0, <3>1, <3>2, ResponsesToClaudeSends
    <2>4. CASE route.from = "gemini"
      <3>1. st = GeminiStreamToClaude(c, e)
        BY <1>1, <2>4 DEF transformStreamEvent
      <3>2. e.type = "gemini" /\ ~e.finished /\ IsSeq(e.parts) /\ e.usageMetadata \in {0, Reported}
        BY <2>4 DEF Early
      <3> QED
        BY <2>0, <3>1, <3>2, GeminiToClaudeSends
    <2> QED
      BY <2>1, <2>2, <2>3, <2>4 DEF Upstreams
  <1>2. CASE route.to = "chat"
    <2>0. ContentKinds(route.to) = {"chunk"}
      BY <1>2 DEF ContentKinds
    <2>1. CASE route.from = "claude"
      <3>1. st = ClaudeStreamToOpenAI(c, e)
        BY <1>2, <2>1 DEF transformStreamEvent
      <3>2. e.type \in BlockEvents
        BY <2>1 DEF Early
      <3> QED
        BY <2>0, <3>1, <3>2, ClaudeToChatSends
    <2>2. CASE route.from = "chat"
      <3>1. st = [ctx |-> c, sent |-> <<e>>]
        BY <1>2, <2>2 DEF transformStreamEvent
      <3>2. Speaks(e)
        BY <2>2 DEF Early
      <3>3. Kind(e) \in {"chunk"} /\ IsEvent(e)
        BY <3>2 DEF Kind, IsEvent, Speaks
      <3> QED
        BY <2>0, <3>1, <3>3, OneEvent
    <2>3. CASE route.from = "responses"
      <3>1. st = OpenAI2StreamToOpenAI(c, e)
        BY <1>2, <2>3 DEF transformStreamEvent
      <3>2. e.type \in ItemEvents
        BY <2>3 DEF Early
      <3> QED
        BY <2>0, <3>1, <3>2, ResponsesToChatSends
    <2>4. CASE route.from = "gemini"
      <3>1. st = GeminiStreamToOpenAI(c, e)
        BY <1>2, <2>4 DEF transformStreamEvent
      <3>2. e.type = "gemini" /\ ~e.finished /\ IsSeq(e.parts) /\ e.usageMetadata \in {0, Reported}
        BY <2>4 DEF Early
      <3> QED
        BY <2>0, <3>1, <3>2, GeminiToChatSends
    <2> QED
      BY <2>1, <2>2, <2>3, <2>4 DEF Upstreams
  <1>3. CASE route.to = "responses"
    <2>0. ContentKinds(route.to) = ItemEvents
      BY <1>3 DEF ContentKinds
    <2>1. CASE route.from = "claude"
      <3>1. st = ClaudeStreamToOpenAI2(c, e)
        BY <1>3, <2>1 DEF transformStreamEvent
      <3>2. e.type \in BlockEvents
        BY <2>1 DEF Early
      <3> QED
        BY <2>0, <3>1, <3>2, ClaudeToResponsesSends
    <2>2. CASE route.from = "chat"
      <3>1. st = OpenAIStreamToOpenAI2(c, e)
        BY <1>3, <2>2 DEF transformStreamEvent
      <3>2. Speaks(e)
        BY <2>2 DEF Early
      <3> QED
        BY <2>0, <3>1, <3>2, ChatToResponsesSends
    <2>3. CASE route.from = "responses"
      <3>1. st = [ctx |-> c, sent |-> <<e>>]
        BY <1>3, <2>3 DEF transformStreamEvent
      <3>2. e.type \in ItemEvents
        BY <2>3 DEF Early
      <3>3. Kind(e) \in ItemEvents /\ IsEvent(e)
        BY <3>2 DEF Kind, IsEvent, ItemEvents
      <3> QED
        BY <2>0, <3>1, <3>3, OneEvent
    <2>4. CASE route.from = "gemini"
      <3>1. st = GeminiStreamToOpenAI2(c, e)
        BY <1>3, <2>4 DEF transformStreamEvent
      <3>2. e.type = "gemini" /\ ~e.finished /\ IsSeq(e.parts) /\ e.usageMetadata \in {0, Reported}
        BY <2>4 DEF Early
      <3> QED
        BY <2>0, <3>1, <3>2, GeminiToResponsesSends
    <2> QED
      BY <2>1, <2>2, <2>3, <2>4 DEF Upstreams
  <1> QED
    BY <1>1, <1>2, <1>3 DEF Dialects

(* Whatever the route, what is sent at the end are events of the known       *)
(* kinds.                                                                    *)
LEMMA LateTurn ==
  ASSUME route.from \in Upstreams, route.to \in Dialects,
         NEW c, IsContext(c), NEW e, Late(route.from, e)
  PROVE  Sends(Kinds, transformStreamEvent(c, e))
  <1> DEFINE st == transformStreamEvent(c, e)
  <1>1. CASE route.from = "claude"
    <2>0. \/ e = MessageStop /\ e.type = "message_stop"
          \/ e = MessageDelta(e.reason, e.usage) /\ e.usage \in {0, Reported} /\ e.type = "message_delta"
      BY <1>1 DEF Late, MessageStop, MessageDelta
    <2>1. CASE route.to = "claude"
      <3>1. st = [ctx |-> c, sent |-> <<IF e.type = "message_delta" /\ e.usage = 0
                                        THEN [e EXCEPT !.usage = c.OutputTokens] ELSE e>>]
        BY <1>1, <2>1 DEF transformStreamEvent, ClaudeStreamToClaude
      <3>2. c.OutputTokens \in {0, Reported}
        BY DEF IsContext
      <3>3. Kind(e) \in Kinds /\ IsEvent(e)
        BY <2>0 DEF Kind, Kinds, IsEvent
      <3>4. ASSUME e.type = "message_delta" PROVE [e EXCEPT !.usage = c.OutputTokens] = MessageDelta(e.reason, c.OutputTokens)
        BY <2>0, <3>4 DEF MessageDelta, MessageStop
      <3>5. Kind(MessageDelta(e.reason, c.OutputTokens)) \in Kinds /\ IsEvent(MessageDelta(e.reason, c.OutputTokens))
        BY <3>2 DEF MessageDelta, Kind, Kinds, IsEvent
      <3>6. PICK d : Kind(d) \in Kinds /\ IsEvent(d) /\ st = [ctx |-> c, sent |-> <<d>>]
        BY <3>1, <3>3, <3>4, <3>5
      <3> QED
        BY <3>6, OneEvent
    <2>2. CASE route.to = "chat"
      <3>1. st = ClaudeStreamToOpenAI(c, e)
        BY <1>1, <2>2 DEF transformStreamEvent
      <3> QED
        BY <2>0, <3>1, ClaudeEndsToChat
    <2>3. CASE route.to = "responses"
      <3>1. st = ClaudeStreamToOpenAI2(c, e)
        BY <1>1, <2>3 DEF transformStreamEvent
      <3> QED
        BY <2>0, <3>1, ClaudeEndsToResponses
    <2> QED
      BY <2>1, <2>2, <2>3 DEF Dialects
  <1>2. CASE route.from = "chat"
    <2>0. \/ e = Done /\ e.type = "[DONE]"
          \/ e.type = "chunk" /\ IsSeq(e.content) /\ IsSeq(e.calls) /\ e.usage \in {0, Reported}
      BY <1>2 DEF Late, Done
    <2>1. CASE route.to = "claude"
      <3>1. st = OpenAIStreamToClaude(c, e)
        BY <1>2, <2>1 DEF transformStreamEvent
      <3> QED
        BY <2>0, <3>1, ChatEndsToClaude
    <2>2. CASE route.to = "chat"
      <3>1. st = [ctx |-> c, sent |-> <<e>>]
        BY <1>2, <2>2 DEF transformStreamEvent
      <3>2. Kind(e) \in Kinds /\ IsEvent(e)
        BY <2>0 DEF Kind, Kinds, IsEvent
      <3> QED
        BY <3>1, <3>2, OneEvent
    <2>3. CASE route.to = "responses"
      <3>1. st = OpenAIStreamToOpenAI2(c, e)
        BY <1>2, <2>3 DEF transformStreamEvent
      <3> QED
        BY <2>0, <3>1, ChatEndsToResponses
    <2> QED
      BY <2>1, <2>2, <2>3 DEF Dialects
  <1>3. CASE route.from = "responses"
    <2>0. \/ e = Done /\ e.type = "[DONE]"
          \/ e.type = "response.completed" /\ e.usage \in {0, Reported}
      BY <1>3 DEF Late, Done
    <2>1. CASE route.to = "claude"
      <3>1. st = OpenAI2StreamToClaude(c, e)
        BY <1>3, <2>1 DEF transformStreamEvent
      <3> QED
        BY <2>0, <3>1, ResponsesEndsToClaude
    <2>2. CASE route.to = "chat"
      <3>1. st = OpenAI2StreamToOpenAI(c, e)
        BY <1>3, <2>2 DEF transformStreamEvent
      <3> QED
        BY <2>0, <3>1, ResponsesEndsToChat
    <2>3. CASE route.to = "responses"
      <3>1. st = [ctx |-> c, sent |-> <<e>>]
        BY <1>3, <2>3 DEF transformStreamEvent
      <3>2. Kind(e) \in Kinds /\ IsEvent(e)
        BY <2>0 DEF Kind, Kinds, IsEvent
      <3> QED
        BY <3>1, <3>2, OneEvent
    <2> QED
      BY <2>1, <2>2, <2>3 DEF Dialects
  <1>4. CASE route.from = "gemini"
    <2>0. e.type = "gemini" /\ IsSeq(e.parts) /\ e.usageMetadata \in {0, Reported}
      BY <1>4 DEF Late
    <2>1. CASE route.to = "claude"
      <3>1. st = GeminiStreamToClaude(c, e)
        BY <1>4, <2>1 DEF transformStreamEvent
      <3> QED
        BY <2>0, <3>1, GeminiEndsToClaude
    <2>2. CASE route.to = "chat"
      <3>1. st = GeminiStreamToOpenAI(c, e)
        BY <1>4, <2>2 DEF transformStreamEvent
      <3> QED
        BY <2>0, <3>1, GeminiEndsToChat
    <2>3. CASE route.to = "responses"
      <3>1. st = GeminiStreamToOpenAI2(c, e)
        BY <1>4, <2>3 DEF transformStreamEvent
      <3> QED
        BY <2>0, <3>1, GeminiEndsToResponses
    <2> QED
      BY <2>1, <2>2, <2>3 DEF Dialects
  <1> QED
    BY <1>1, <1>2, <1>3, <1>4 DEF Upstreams

(* The tally is a record of its two counts.                                  *)
IsTally(t) == t = [out |-> t.out, text |-> t.text]

(* While the upstream speaks it has given neither its end nor a reason to    *)
(* finish.                                                                   *)
Speaking == {"new", "open", "block"}

(* The inductive invariant: until the upstream has finished the context      *)
(* holds back at most the beginning of a tag and counts nothing but what was *)
(* reported, and as long as it speaks the client has heard neither a reason  *)
(* nor an end.                                                               *)
RelayInv ==
    /\ route.to \in Dialects /\ route = [from |-> route.from, to |-> route.to]
    /\ IsTally(tally)
    /\ stage \in Speaking \cup {"finished"} => IsContext(ctx)
    /\ stage \in Speaking => Calm(0, 0, view)

(* The usage the upstream has reported stays what is counted.                *)
CountKept == tally.out = Reported => tally'.out = Reported

ReportKept(p, k, out) == out = Reported

XT == INSTANCE FoldFacts WITH Op <- extractTokensFromEvent, Keeps <- ReportKept

(* What one event of the upstream does to the counted usage: a reported      *)
(* usage is not replaced, by a fallback or by any of the events sent for it. *)
LEMMA TalliedStep ==
  ASSUME IsTally(tally), NEW e, IsEvent(e), Relay(e),
         Sends(Kinds, transformStreamEvent(ctx, e))
  PROVE  /\ IsTally(tally') /\ CountKept /\ route' = route
         /\ e.type \notin {"message_stop", "[DONE]"} => IsContext(ctx')
  <1> DEFINE told == extractTokensFromEvent(tally.out, e)
             short == Fallback(told, e)
             counted == IF short THEN Estimated ELSE told
             sent == transformStreamEvent(IF short THEN [ctx EXCEPT !.OutputTokens = Estimated] ELSE ctx, e)
             folded == FoldLeft(extractTokensFromEvent, counted, sent.sent)
  <1>1. /\ ctx' = sent.ctx
        /\ route' = route
        /\ tally' = IF e.type = "[DONE]" THEN [tally EXCEPT !.out = counted]
                    ELSE [out |-> folded, text |-> FoldLeft(extractTextFromEvent, tally.text, sent.sent)]
    BY DEF Relay
  <1>2. IsTally(tally')
    <2> HIDE DEF counted, folded
    <2>1. [tally EXCEPT !.out = counted] = [out |-> counted, text |-> tally.text]
      BY DEF IsTally
    <2> QED
      BY <1>1, <2>1 DEF IsTally
  <1>3. e.type \notin {"message_stop", "[DONE]"} => ~short
    BY DEF Fallback
  <1>4. ~short => IsContext(ctx')
    BY <1>1 DEF Sends, IsTurn
  <1>5. ASSUME tally.out = Reported PROVE tally'.out = Reported
    <2>1. told = Reported /\ ~short
      <3>1. told = Reported
        BY <1>5 DEF extractTokensFromEvent, IsEvent, Reported
      <3> QED
        BY <3>1 DEF Fallback, Reported
    <2> DEFINE st == transformStreamEvent(ctx, e)
               m == Len(st.sent)
    <2>2. counted = Reported /\ sent = st
      BY <2>1
    <2>3. m \in Nat /\ DOMAIN st.sent = 1..m /\ \A k \in 1..m : IsEvent(st.sent[k])
      BY DEF Sends, IsTurn, IsSeq
    <2>4. folded = FoldLeft(extractTokensFromEvent, Reported, st.sent)
      BY <2>2
    <2> HIDE DEF st, m
    <2>5. \A k \in 1..m : \A x : ReportKept(0, k - 1, x)
                                   => ReportKept(0, k, extractTokensFromEvent(x, st.sent[k]))
      BY <2>3 DEF ReportKept, extractTokensFromEvent, IsEvent, Reported
    <2>6. ReportKept(0, m, XT!Fold(Reported, st.sent))
      BY <2>3, <2>5, XT!FoldKeeps DEF ReportKept
    <2>7. FoldLeft(extractTokensFromEvent, Reported, st.sent) = XT!Fold(Reported, st.sent)
      BY DEF FoldLeft, MapThenFoldSet, XT!Fold, XT!FoldLeft, XT!MapThenFoldSet, Max, XT!Max
    <2>8. folded = Reported
      BY <2>4, <2>6, <2>7 DEF ReportKept
    <2> HIDE DEF folded, counted
    <2>9. [tally EXCEPT !.out = counted].out = counted
      BY DEF IsTally
    <2> QED
      BY <1>1, <2>2, <2>8, <2>9
  <1> QED
    BY <1>1, <1>2, <1>3, <1>4, <1>5 DEF CountKept

(* Content of an upstream is not its end.                                    *)
LEMMA EarlyTypes ==
  ASSUME NEW from \in Upstreams, NEW e, Early(from, e)
  PROVE  IsEvent(e) /\ e.type \notin {"message_stop", "[DONE]"}
  BY DEF Upstreams, Early, IsEvent, BlockEvents, ItemEvents, Speaks

(* The end of an upstream is an event, with a usage that is none or the      *)
(* reported one.                                                             *)
LEMMA LateEvents ==
  ASSUME NEW from \in Upstreams, NEW e, Late(from, e)
  PROVE  IsEvent(e)
  <1>1. MessageStop.type = "message_stop" /\ Done.type = "[DONE]"
        /\ \A reason, usage : MessageDelta(reason, usage).type = "message_delta"
    BY DEF MessageStop, Done, MessageDelta
  <1>2. CASE from = "claude"
    BY <1>1, <1>2 DEF Late, IsEvent
  <1>3. CASE from = "chat"
    BY <1>1, <1>3 DEF Late, IsEvent
  <1>4. CASE from = "responses"
    BY <1>1, <1>4 DEF Late, IsEvent
  <1>5. CASE from = "gemini"
    BY <1>5 DEF Late, IsEvent
  <1> QED
    BY <1>2, <1>3, <1>4, <1>5 DEF Upstreams

(* What sends content alone sends known kinds alone.                         *)
LEMMA ContentKindsAreKinds ==
  ASSUME NEW d \in Dialects, NEW st, Sends(ContentKinds(d), st)
  PROVE  Sends(Kinds, st)
  <1>1. ContentKinds(d) \subseteq Kinds
    BY DEF Dialects, ContentKinds, Kinds
  <1> QED
    BY <1>1 DEF Sends

(* A step that relays content keeps the invariant.                           *)
LEMMA EarlyStep ==
  ASSUME RelayInv, stage \in Speaking, route.from \in Upstreams,
         NEW e, Early(route.from, e), Relay(e)
  PROVE  RelayInv' /\ CountKept
  <1> DEFINE st == transformStreamEvent(ctx, e)
  <1>1. IsContext(ctx) /\ Calm(0, 0, view) /\ route.to \in Dialects
    BY DEF RelayInv
  <1>2. Sends(ContentKinds(route.to), st)
    BY <1>1, EarlyTurn
  <1>3. IsEvent(e) /\ e.type \notin {"message_stop", "[DONE]"}
    BY EarlyTypes
  <1>4. IsTally(tally') /\ CountKept /\ route' = route /\ IsContext(ctx')
    BY <1>1, <1>2, <1>3, ContentKindsAreKinds, TalliedStep DEF RelayInv
  <1>5. view' = Hear(route.to, view, << >> \o st.sent)
    BY <1>3 DEF Relay, Fallback
  <1> HIDE DEF st
  <1>6. IsSeq(st.sent) /\ << >> \o st.sent = st.sent
    BY <1>2, SeqAppend DEF Sends, IsTurn
  <1>7. Calm(0, 0, view')
    <2>1. \A k \in DOMAIN st.sent : Kind(st.sent[k]) \in ContentKinds(route.to) /\ IsEvent(st.sent[k])
      BY <1>2 DEF Sends
    <2>2. Calm(0, 0, Hear(route.to, view, st.sent))
      BY <1>1, <1>6, <2>1, HearsCalm DEF Dialects
    <2> QED
      BY <1>5, <1>6, <2>2
  <1> QED
    BY <1>4, <1>7 DEF RelayInv

(* A step that relays the end, or a reason to finish, keeps the invariant.   *)
LEMMA LateStep ==
  ASSUME RelayInv, stage \in Speaking \cup {"finished"}, route.from \in Upstreams,
         NEW e, Late(route.from, e), Relay(e), stage' \notin Speaking,
         e.type \in {"message_stop", "[DONE]"} => stage' # "finished"
  PROVE  RelayInv' /\ CountKept
  <1>1. IsContext(ctx) /\ route.to \in Dialects
    BY DEF RelayInv
  <1>2. Sends(Kinds, transformStreamEvent(ctx, e)) /\ IsEvent(e)
    BY <1>1, LateTurn, LateEvents
  <1>3. /\ IsTally(tally') /\ CountKept /\ route' = route
        /\ e.type \notin {"message_stop", "[DONE]"} => IsContext(ctx')
    BY <1>2, TalliedStep DEF RelayInv
  <1> QED
    BY <1>3 DEF RelayInv

(* The sequences with no and with one element.                               *)
LEMMA ShortSeqs ==
  /\ IsSeq(<< >>)
  /\ \A x : IsSeq(<<x>>)
  BY DEF IsSeq

(* The texts an upstream sends are sequences.                                *)
LEMMA TextsAreSeqs ==
  ASSUME NEW body \in TextsHere
  PROVE  IsSeq(body)
  <1> DEFINE B == {body[k] : k \in DOMAIN body}
  <1>1. body \in Seq(STRING) \/ body = <<"x">>
    BY TextsAssumption DEF TextsHere
  <1>2. CASE body = <<"x">>
    BY <1>2, ShortSeqs
  <1>3. CASE body \in Seq(STRING)
    <2>1. body \in Seq(B)
      BY <1>3
    <2> QED
      BY <2>1 DEF IsSeq
  <1> QED
    BY <1>1, <1>2, <1>3

(* One step per action of the relay.                                         *)
LEMMA RelayStep ==
  ASSUME RelayInv, Next
  PROVE  RelayInv' /\ CountKept
  <1>1. CASE ChatReasons
    <2>1. Early("chat", [Chunk EXCEPT !.reasoning = <<"x">>])
      BY ShortSeqs DEF Early, Speaks, Chunk
    <2> QED
      BY <1>1, <2>1, EarlyStep DEF ChatReasons, At, Upstreams, Speaking
  <1>2. CASE ChatSays
    <2>1. PICK body \in TextsHere :
            /\ At("chat", {"new", "open"})
            /\ Relay([Chunk EXCEPT !.content = body])
      BY <1>2 DEF ChatSays
    <2>2. Early("chat", [Chunk EXCEPT !.content = body])
      BY TextsAreSeqs, ShortSeqs DEF Early, Speaks, Chunk
    <2> QED
      BY <2>1, <2>2, EarlyStep DEF At, Upstreams, Speaking
  <1>3. CASE ChatCalls
    <2>1. PICK name \in Names :
            /\ At("chat", {"new", "open"})
            /\ Relay([Chunk EXCEPT !.calls = <<ToolCallPart(Cardinality(Called), NextId, name, << >>)>>])
      BY <1>3 DEF ChatCalls
    <2>2. \A call : Early("chat", [Chunk EXCEPT !.calls = <<call>>])
      BY ShortSeqs DEF Early, Speaks, Chunk
    <2> QED
      BY <2>1, <2>2, EarlyStep DEF At, Upstreams, Speaking
  <1>4. CASE ChatArgues
    <2>2. \A call : Early("chat", [Chunk EXCEPT !.calls = <<call>>])
      BY ShortSeqs DEF Early, Speaks, Chunk
    <2> QED
      BY <1>4, <2>2, EarlyStep DEF ChatArgues, At, Upstreams, Speaking
  <1>5. CASE ChatFinishes
    <2>1. PICK usage \in {0, Reported} :
            /\ At("chat", {"new", "open"}) /\ stage' = "finished"
            /\ Relay([Chunk EXCEPT !.finish = IF Called # {} THEN "tool_calls" ELSE "stop", !.usage = usage])
      BY <1>5 DEF ChatFinishes
    <2>2. \A finish : LET e == [Chunk EXCEPT !.finish = finish, !.usage = usage]
                      IN  Late("chat", e) /\ e.type = "chunk"
      BY ShortSeqs DEF Late, Chunk
    <2> QED
      BY <2>1, <2>2, LateStep DEF At, Upstreams, Speaking
  <1>6. CASE ChatReports
    <2>1. PICK choices \in BOOLEAN :
            /\ At("chat", {"finished"}) /\ stage' = stage
            /\ Relay([Chunk EXCEPT !.choices = choices, !.usage = Reported])
      BY <1>6 DEF ChatReports
    <2>2. LET e == [Chunk EXCEPT !.choices = choices, !.usage = Reported]
          IN  Late("chat", e) /\ e.type = "chunk"
      BY ShortSeqs DEF Late, Chunk
    <2> QED
      BY <2>1, <2>2, LateStep DEF At, Upstreams, Speaking
  <1>7. CASE ChatEnds
    <2>1. Late("chat", Done)
      BY DEF Late
    <2> QED
      BY <1>7, <2>1, LateStep DEF ChatEnds, At, Upstreams, Speaking
  <1>8. CASE ResponsesBegins
    <2>1. Early("responses", Created)
      BY DEF Early, Created, ItemEvents
    <2> QED
      BY <1>8, <2>1, EarlyStep DEF ResponsesBegins, At, Upstreams, Speaking
  <1>9. CASE ResponsesOpensText
    <2>1. \A i, item : Early("responses", ItemAdded(i, item))
      BY DEF Early, ItemAdded, ItemEvents
    <2> QED
      BY <1>9, <2>1, EarlyStep DEF ResponsesOpensText, At, Upstreams, Speaking
  <1>10. CASE ResponsesSays
    <2>1. PICK body \in TextsHere :
            /\ At("responses", {"block"}) /\ Relay(TextDelta(Len(said) - 1, body))
      BY <1>10 DEF ResponsesSays
    <2>2. \A i : Early("responses", TextDelta(i, body))
      BY TextsAreSeqs DEF Early, TextDelta, ItemEvents
    <2> QED
      BY <2>1, <2>2, EarlyStep DEF At, Upstreams, Speaking
  <1>11. CASE ResponsesCalls
    <2>1. PICK name \in Names :
            /\ At("responses", {"open"})
            /\ Relay(ItemAdded(Len(said), OutputItem("tool_use", NextId, name, << >>)))
      BY <1>11 DEF ResponsesCalls
    <2>2. \A i, item : Early("responses", ItemAdded(i, item))
      BY DEF Early, ItemAdded, ItemEvents
    <2> QED
      BY <2>1, <2>2, EarlyStep DEF At, Upstreams, Speaking
  <1>12. CASE ResponsesArgues
    <2>1. \A i, body : Early("responses", ArgumentsDelta(i, body))
      BY DEF Early, ArgumentsDelta, ItemEvents
    <2> QED
      BY <1>12, <2>1, EarlyStep DEF ResponsesArgues, At, Upstreams, Speaking
  <1>13. CASE ResponsesClosesItem
    <2>1. PICK item : At("responses", {"block"}) /\ Relay(ItemDone(Len(said) - 1, item))
      BY <1>13 DEF ResponsesClosesItem
    <2>2. \A i : Early("responses", ItemDone(i, item))
      BY DEF Early, ItemDone, ItemEvents
    <2> QED
      BY <2>1, <2>2, EarlyStep DEF At, Upstreams, Speaking
  <1>14. CASE ResponsesCompletes
    <2>1. PICK usage \in {0, Reported} :
            /\ At("responses", {"open"}) /\ stage' = "finished" /\ Relay(Completed(usage))
      BY <1>14 DEF ResponsesCompletes
    <2>2. Late("responses", Completed(usage)) /\ Completed(usage).type = "response.completed"
      BY DEF Late, Completed
    <2> QED
      BY <2>1, <2>2, LateStep DEF At, Upstreams, Speaking
  <1>15. CASE ResponsesEnds
    <2>1. Late("responses", Done)
      BY DEF Late
    <2> QED
      BY <1>15, <2>1, LateStep DEF ResponsesEnds, At, Upstreams, Speaking
  <1>16. CASE ClaudeBegins
    <2>1. Early("claude", MessageStart)
      BY DEF Early, MessageStart, BlockEvents
    <2> QED
      BY <1>16, <2>1, EarlyStep DEF ClaudeBegins, At, Upstreams, Speaking
  <1>17. CASE ClaudeOpens
    <2>1. PICK kind \in {"text", "thinking"} :
            At("claude", {"open"}) /\ Relay(ContentBlockStart(Len(said), kind, "", ""))
      BY <1>17 DEF ClaudeOpens
    <2>2. \A i : Early("claude", ContentBlockStart(i, kind, "", ""))
      BY DEF Early, ContentBlockStart, BlockEvents
    <2> QED
      BY <2>1, <2>2, EarlyStep DEF At, Upstreams, Speaking
  <1>18. CASE ClaudeCalls
    <2>1. PICK name \in Names :
            At("claude", {"open"}) /\ Relay(ContentBlockStart(Len(said), "tool_use", NextId, name))
      BY <1>18 DEF ClaudeCalls
    <2>2. \A i, id : Early("claude", ContentBlockStart(i, "tool_use", id, name))
      BY DEF Early, ContentBlockStart, BlockEvents
    <2> QED
      BY <2>1, <2>2, EarlyStep DEF At, Upstreams, Speaking
  <1>19. CASE ClaudeGrows
    <2>1. \A i, kind, body : Early("claude", ContentBlockDelta(i, kind, body))
      BY DEF Early, ContentBlockDelta, BlockEvents
    <2> QED
      BY <1>19, <2>1, EarlyStep DEF ClaudeGrows, At, Upstreams, Speaking
  <1>20. CASE ClaudeCloses
    <2>1. \A i : Early("claude", ContentBlockStop(i))
      BY DEF Early, ContentBlockStop, BlockEvents
    <2> QED
      BY <1>20, <2>1, EarlyStep DEF ClaudeCloses, At, Upstreams, Speaking
  <1>21. CASE ClaudeFinishes
    <2>1. PICK usage \in {0, Reported} :
            /\ At("claude", {"open"}) /\ stage' = "finished"
            /\ Relay(MessageDelta(IF Called # {} THEN "tool_use" ELSE "end_turn", usage))
      BY <1>21 DEF ClaudeFinishes
    <2>2. \A reason : LET e == MessageDelta(reason, usage) IN Late("claude", e) /\ e.type = "message_delta"
      BY DEF Late, MessageDelta
    <2> QED
      BY <2>1, <2>2, LateStep DEF At, Upstreams, Speaking
  <1>22. CASE ClaudeStops
    <2>1. Late("claude", MessageStop)
      BY DEF Late
    <2> QED
      BY <1>22, <2>1, LateStep DEF ClaudeStops, At, Upstreams, Speaking
  <1>23. CASE GeminiSays
    <2>1. PICK usage \in {0, Reported} :
            At("gemini", {"new", "open"}) /\ Relay(GeminiChunk(GeminiText, FALSE, usage))
      BY <1>23 DEF GeminiSays
    <2>2. Early("gemini", GeminiChunk(GeminiText, FALSE, usage))
      BY ShortSeqs DEF Early, GeminiChunk, GeminiText
    <2> QED
      BY <2>1, <2>2, EarlyStep DEF At, Upstreams, Speaking
  <1>24. CASE GeminiCalls
    <2>1. PICK name \in Names, usage \in {0, Reported}, last \in BOOLEAN :
            /\ At("gemini", {"new", "open"}) /\ stage' = IF last THEN "finished" ELSE "open"
            /\ Relay(GeminiChunk(GeminiCall(name), last, usage))
      BY <1>24 DEF GeminiCalls
    <2>2. CASE last
      <3>1. Late("gemini", GeminiChunk(GeminiCall(name), last, usage))
            /\ GeminiChunk(GeminiCall(name), last, usage).type = "gemini"
        BY ShortSeqs DEF Late, GeminiChunk, GeminiCall
      <3> QED
        BY <2>1, <2>2, <3>1, LateStep DEF At, Upstreams, Speaking
    <2>3. CASE ~last
      <3>1. Early("gemini", GeminiChunk(GeminiCall(name), last, usage))
        BY <2>3, ShortSeqs DEF Early, GeminiChunk, GeminiCall
      <3> QED
        BY <2>1, <3>1, EarlyStep DEF At, Upstreams, Speaking
    <2> QED
      BY <2>2, <2>3
  <1>25. CASE GeminiCallsTwice
    <2>1. PICK n1 \in Names, n2 \in Names, usage \in {0, Reported} :
            /\ At("gemini", {"new", "open"}) /\ stage' = "finished"
            /\ Relay(GeminiChunk(GeminiCall(n1) \o GeminiCall(n2), TRUE, usage))
      BY <1>25 DEF GeminiCallsTwice
    <2>2. IsSeq(GeminiCall(n1) \o GeminiCall(n2))
      BY ShortSeqs, SeqConcat DEF GeminiCall
    <2>3. \A parts : IsSeq(parts) => /\ Late("gemini", GeminiChunk(parts, TRUE, usage))
                                     /\ GeminiChunk(parts, TRUE, usage).type = "gemini"
      BY DEF Late, GeminiChunk
    <2> QED
      BY <2>1, <2>2, <2>3, LateStep DEF At, Upstreams, Speaking
  <1>26. CASE GeminiFinishes
    <2>1. PICK usage \in {0, Reported} :
            At("gemini", {"new", "open"}) /\ stage' = "finished" /\ Relay(GeminiChunk(<< >>, TRUE, usage))
      BY <1>26 DEF GeminiFinishes
    <2>2. /\ Late("gemini", GeminiChunk(<< >>, TRUE, usage))
          /\ GeminiChunk(<< >>, TRUE, usage).type = "gemini"
      BY ShortSeqs DEF Late, GeminiChunk
    <2> QED
      BY <2>1, <2>2, LateStep DEF At, Upstreams, Speaking
  <1>27. CASE OneMinAIAnswers
    <2>1. stage' \in {"over", "refused"} /\ UNCHANGED <<route, ctx, tally>>
      BY <1>27 DEF OneMinAIAnswers
    <2> QED
      BY <2>1 DEF RelayInv, CountKept, Speaking
  <1>28. CASE UpstreamCloses
    BY <1>28 DEF UpstreamCloses, RelayInv, CountKept, Speaking
  <1>29. CASE UpstreamBreaks
    BY <1>29 DEF UpstreamBreaks, RelayInv, CountKept, Speaking
  <1>30. CASE ClientLeaves
    BY <1>30 DEF ClientLeaves, RelayInv, CountKept, Speaking
  <1> QED
    BY <1>1, <1>2, <1>3, <1>4, <1>5, <1>6, <1>7, <1>8, <1>9, <1>10, <1>11, <1>12, <1>13, <1>14,
       <1>15, <1>16, <1>17, <1>18, <1>19, <1>20, <1>21, <1>22, <1>23, <1>24, <1>25, <1>26, <1>27,
       <1>28, <1>29, <1>30 DEF Next

(* At the start nothing is heard and nothing held back.                      *)
LEMMA RelayInit ==
  ASSUME Init
  PROVE  RelayInv
  <1>1. route.to \in Dialects /\ route = [from |-> route.from, to |-> route.to]
    BY RoutesAssumption DEF Init, Dialects
  <1>2. IsContext(ctx)
    BY DEF Init, NewStreamContext, IsContext, ContextFields
  <1>3. Calm(0, 0, view)
    BY DEF Init, NothingHeard, Calm, IsView
  <1>4. IsTally(tally)
    BY DEF Init, IsTally
  <1> QED
    BY <1>1, <1>2, <1>3, <1>4 DEF RelayInv

(* The inductive invariant of the relay: until the upstream has given its    *)
(* reason or its end, the client has heard neither.                          *)
THEOREM RelayInvariant == Spec => []RelayInv
  <1>1. RelayInv /\ UNCHANGED vars => RelayInv'
    BY DEF vars, RelayInv, IsTally, IsContext, Calm, IsView
  <1>2. RelayInv /\ [Next]_vars => RelayInv'
    BY <1>1, RelayStep
  <1> QED
    BY RelayInit, <1>2, PTL DEF Spec

(* An answer that is cut off while it is spoken does not look to the client  *)
(* like one that has ended, on every route and for every upstream.           *)
THEOREM NoEndBeforeTheEnd == Spec => []CutOffShows
  <1>1. RelayInv => CutOffShows
    BY DEF RelayInv, CutOffShows, Speaking, Calm
  <1> QED
    BY RelayInvariant, <1>1, PTL

(* The usage the upstream has reported is what is counted.                   *)
THEOREM ReportIsNotReplaced == Spec => ReportedUsageCounts
  <1>1. RelayInv /\ [Next]_vars => [tally.out = Reported => tally'.out = Reported]_vars
    BY RelayStep DEF CountKept
  <1> QED
    BY RelayInvariant, <1>1, PTL DEF Spec, ReportedUsageCounts
=============================================================================
