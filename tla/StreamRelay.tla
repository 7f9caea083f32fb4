----------------------------- MODULE StreamRelay -----------------------------
(* One answer streamed through the proxy: handleStreamingResponse of         *)
(* internal/proxy/streaming.go, the converter of the route between the       *)
(* endpoint's and the client's dialect, and the two ends.                    *)
(*                                                                           *)
(* An action is one event of the upstream: the whole turn of the scanning    *)
(* loop for it, and the client's reading of what was written.                *)
EXTENDS WholeAnswers, OneMinAI, FiniteSets

CONSTANTS
    Routes,      \* pairs of dialects <<upstream's, client's>>
    Texts,       \* what one event may say, where tags matter
    CallIds,     \* the ids of the answer's calls, in this order
    Names,       \* names of tools
    MaxText,     \* how much one answer may say, in symbols
    MaxArgs,     \* how much arguments one call may have
    MaxParts,    \* how many parts one answer may have
    Waived       \* what upstreams are not relied on for

ASSUME RoutesAssumption ==
    Routes \subseteq {"claude", "chat", "responses", "gemini", "1minai"} \X {"claude", "chat", "responses"}

ASSUME TextsAssumption == Texts \subseteq Seq(STRING)

VARIABLES
    route,       \* the upstream's and the client's dialect
    ctx,         \* streamCtx
    view,        \* what the client has made of it
    tally,       \* outputTokens, and whether outputText has any
    said,        \* the parts of the answer the upstream has said
    stage        \* how far the upstream is, and how the relay ended

vars == <<route, ctx, view, tally, said, stage>>

Stages == {"new", "open", "block", "finished", "stopped", "over", "cut", "left", "refused"}

Running == stage \in {"new", "open", "block", "finished", "stopped"}

Init ==
    /\ \E r \in Routes : route = [from |-> r[1], to |-> r[2]]
    /\ ctx = NewStreamContext
    /\ view = NothingHeard
    /\ tally = [out |-> 0, text |-> FALSE]
    /\ said = <<>>
    /\ stage = "new"

-----------------------------------------------------------------------------
(* What each route needs of its upstream for the properties below. A run     *)
(* that waives one shows what is lost.                                       *)
(*   usage     it reports its usage, at the latest before its end            *)
(*   counted   it does so at least when it calls tools                       *)
(*   order     reasoning comes before text, text before calls                *)
(*   tags      <think> is closed before a call and before the end, and the   *)
(*             text then does not end in "<"                                 *)
(*   single    there is at most one call                                     *)
(*   marker    it ends with [DONE]                                           *)
(*   together  calls come with the reason to finish                          *)
(*   names     no tool is called twice                                       *)
Needs ==
    CASE route.from = "claude"    /\ route.to = "claude"    -> {"counted"}
      [] route.from = "claude"                              -> {"usage"}
      [] route.from = "chat"      /\ route.to = "claude"    -> {"counted", "order", "tags"}
      [] route.from = "chat"      /\ route.to = "responses" -> {"usage", "single"}
      [] route.from = "chat"      /\ route.to = "chat"      -> {"usage"}
      [] route.from = "responses" /\ route.to = "claude"    -> {"usage", "tags"}
      [] route.from = "responses" /\ route.to = "chat"      -> {"usage", "single", "marker"}
      [] route.from = "responses" /\ route.to = "responses" -> {"usage"}
      [] route.from = "gemini"    /\ route.to = "claude"    -> {"together", "names"}
      [] route.from = "gemini"    /\ route.to = "chat"      -> {"together"}
      [] OTHER -> {}

Relied(need) == need \in Needs \ Waived

-----------------------------------------------------------------------------
(* The relay                                                                 *)

ClaudeStreamToClaude(c, e) ==
    [ctx |-> c, sent |-> <<IF e.type = "message_delta" /\ e.usage = 0
                           THEN [e EXCEPT !.usage = c.OutputTokens] ELSE e>>]

transformStreamEvent(c, e) ==
    CASE route.from = route.to /\ route.to = "claude"          -> ClaudeStreamToClaude(c, e)
      [] route.from = route.to /\ route.to # "claude"          -> [ctx |-> c, sent |-> <<e>>]
      [] route.from = "chat"      /\ route.to = "claude"       -> OpenAIStreamToClaude(c, e)
      [] route.from = "responses" /\ route.to = "claude"       -> OpenAI2StreamToClaude(c, e)
      [] route.from = "gemini"    /\ route.to = "claude"       -> GeminiStreamToClaude(c, e)
      [] route.from = "claude"    /\ route.to = "chat"         -> ClaudeStreamToOpenAI(c, e)
      [] route.from = "responses" /\ route.to = "chat"         -> OpenAI2StreamToOpenAI(c, e)
      [] route.from = "gemini"    /\ route.to = "chat"         -> GeminiStreamToOpenAI(c, e)
      [] route.from = "claude"    /\ route.to = "responses"    -> ClaudeStreamToOpenAI2(c, e)
      [] route.from = "chat"      /\ route.to = "responses"    -> OpenAIStreamToOpenAI2(c, e)
      [] route.from = "gemini"    /\ route.to = "responses"    -> GeminiStreamToOpenAI2(c, e)

extractTokensFromEvent(out, e) ==
    IF e.type \in {"message_delta", "chunk", "response.completed"} /\ e.usage > 0 THEN e.usage ELSE out

extractTextFromEvent(text, e) ==
    CASE e.type = "content_block_delta"        -> text \/ (e.kind = "text" /\ e.body # <<>>)
      [] e.type = "response.output_text.delta" -> text \/ e.body # <<>>
      [] e.type = "chunk"                      -> text \/ e.content # <<>>
      [] OTHER -> text

\* Mutant: the estimate is sent whenever there was text.
FallbackAlways(out, e) == e.type \in {"message_stop", "[DONE]"} /\ tally.text

Fallback(out, e) == e.type \in {"message_stop", "[DONE]"} /\ out = 0 /\ tally.text

Relay(e) ==
    LET told    == extractTokensFromEvent(tally.out, e)
        short   == Fallback(told, e)
        counted == IF short THEN Estimated ELSE told
        st      == transformStreamEvent(IF short THEN [ctx EXCEPT !.OutputTokens = Estimated] ELSE ctx, e)
        delta   == IF short THEN <<MessageDelta("end_turn", Estimated)>> ELSE <<>>
    IN  /\ ctx' = st.ctx
        /\ view' = Hear(route.to, view, delta \o st.sent)
        /\ tally' = IF e.type = "[DONE]" THEN [tally EXCEPT !.out = counted]
                    ELSE [out  |-> FoldLeft(extractTokensFromEvent, counted, st.sent),
                          text |-> FoldLeft(extractTextFromEvent, tally.text, st.sent)]
        /\ UNCHANGED route

-----------------------------------------------------------------------------
(* The answer so far                                                         *)

Continues(kind) == IF said = <<>> THEN FALSE ELSE Last(said).kind = kind

Saying(kind, body) ==
    IF Continues(kind)
    THEN [said EXCEPT ![Len(said)].body = @ \o body]
    ELSE Append(said, Part(kind, body, "", ""))

Calling(id, name) == Append(said, Part("tool_use", <<>>, id, name))

Arguing(body) == [said EXCEPT ![Len(said)].body = @ \o body]

Called == {k \in DOMAIN said : said[k].kind = "tool_use"}
Text == Bodies(said, "text")

(* Tags are only told from text for Claude clients of OpenAI's dialects.     *)
TextsHere ==
    IF route.to = "claude" /\ route.from \in {"chat", "responses"} THEN Texts ELSE {<<"x">>}

Tidy == LET scan == FoldLeft(Scan, ScanFrom(FALSE), Text)
        IN  ~Inside(scan) /\ scan.held = <<>>

MaySay(body) ==
    /\ Len(Text) + Len(body) <= MaxText
    /\ Relied("order") => Called = {}
    /\ Continues("text") \/ Len(said) < MaxParts

MayReason ==
    /\ Continues("thinking") \/ Len(said) < MaxParts
    /\ Len(Bodies(said, "thinking")) < MaxText
    /\ Relied("order") => Text = <<>> /\ Called = {}

MayCall(name) ==
    /\ Len(said) < MaxParts
    /\ Cardinality(Called) < Len(CallIds)
    /\ Relied("single") => Called = {}
    /\ Relied("tags") => Tidy
    /\ Relied("names") => \A k \in Called : said[k].name # name

MayArgue == Continues("tool_use") /\ Len(Last(said).body) < MaxArgs

MayFinish == Relied("tags") => Tidy

NextId == CallIds[Cardinality(Called) + 1]

(* An upstream that must report its usage, and has not.                      *)
Owed == /\ \/ Relied("usage")
           \/ Relied("counted") /\ Called # {}
        /\ tally.out = 0

At(from, stages) == route.from = from /\ stage \in stages

-----------------------------------------------------------------------------
(* An upstream that speaks chat                                              *)

ChatReasons ==
    /\ At("chat", {"new", "open"}) /\ MayReason
    /\ said' = Saying("thinking", <<"x">>) /\ stage' = "open"
    /\ Relay([Chunk EXCEPT !.reasoning = <<"x">>])

ChatSays ==
    \E body \in TextsHere :
        /\ At("chat", {"new", "open"}) /\ MaySay(body)
        /\ said' = Saying("text", body) /\ stage' = "open"
        /\ Relay([Chunk EXCEPT !.content = body])

ChatCalls ==
    \E name \in Names :
        /\ At("chat", {"new", "open"}) /\ MayCall(name)
        /\ said' = Calling(NextId, name) /\ stage' = "open"
        /\ Relay([Chunk EXCEPT !.calls = <<ToolCallPart(Cardinality(Called), NextId, name, <<>>)>>])

ChatArgues ==
    /\ At("chat", {"open"}) /\ MayArgue
    /\ said' = Arguing(<<"a">>) /\ UNCHANGED stage
    /\ Relay([Chunk EXCEPT !.calls = <<ToolCallPart(Cardinality(Called) - 1, "", "", <<"a">>)>>])

ChatFinishes ==
    \E usage \in {0, Reported} :
        /\ At("chat", {"new", "open"}) /\ MayFinish
        /\ stage' = "finished" /\ UNCHANGED said
        /\ Relay([Chunk EXCEPT !.finish = IF Called # {} THEN "tool_calls" ELSE "stop", !.usage = usage])

ChatReports ==
    \E choices \in BOOLEAN :
        /\ At("chat", {"finished"}) /\ tally.out = 0
        /\ UNCHANGED <<said, stage>>
        /\ Relay([Chunk EXCEPT !.choices = choices, !.usage = Reported])

ChatEnds ==
    /\ At("chat", {"finished"}) /\ ~Owed
    /\ stage' = "over" /\ UNCHANGED said
    /\ Relay(Done)

-----------------------------------------------------------------------------
(* An upstream that speaks responses: its item k is part k of the answer     *)

ResponsesBegins ==
    /\ At("responses", {"new"})
    /\ stage' = "open" /\ UNCHANGED said
    /\ Relay(Created)

ResponsesOpensText ==
    /\ At("responses", {"open"}) /\ Len(said) < MaxParts
    /\ said' = Append(said, Part("text", <<>>, "", "")) /\ stage' = "block"
    /\ Relay(ItemAdded(Len(said), MessageItem))

ResponsesSays ==
    \E body \in TextsHere :
        /\ At("responses", {"block"}) /\ Continues("text") /\ Len(Text) + Len(body) <= MaxText
        /\ said' = Saying("text", body) /\ UNCHANGED stage
        /\ Relay(TextDelta(Len(said) - 1, body))

ResponsesCalls ==
    \E name \in Names :
        /\ At("responses", {"open"}) /\ MayCall(name)
        /\ said' = Calling(NextId, name) /\ stage' = "block"
        /\ Relay(ItemAdded(Len(said), OutputItem("tool_use", NextId, name, <<>>)))

ResponsesArgues ==
    /\ At("responses", {"block"}) /\ MayArgue
    /\ said' = Arguing(<<"a">>) /\ UNCHANGED stage
    /\ Relay(ArgumentsDelta(Len(said) - 1, <<"a">>))

ResponsesClosesItem ==
    /\ At("responses", {"block"})
    /\ Last(said).kind = "text" => MayFinish
    /\ stage' = "open" /\ UNCHANGED said
    /\ LET p == Last(said)
       IN  Relay(ItemDone(Len(said) - 1, IF p.kind = "text" THEN MessageItem
                                         ELSE OutputItem("tool_use", p.id, p.name, p.body)))

ResponsesCompletes ==
    \E usage \in {0, Reported} :
        /\ At("responses", {"open"})
        /\ Relied("usage") => usage > 0
        /\ stage' = "finished" /\ UNCHANGED said
        /\ Relay(Completed(usage))

ResponsesEnds ==
    /\ At("responses", {"finished"})
    /\ stage' = "over" /\ UNCHANGED said
    /\ Relay(Done)

-----------------------------------------------------------------------------
(* An upstream that speaks Claude                                            *)

ClaudeBegins ==
    /\ At("claude", {"new"})
    /\ stage' = "open" /\ UNCHANGED said
    /\ Relay(MessageStart)

ClaudeOpens ==
    \E kind \in {"text", "thinking"} :
        /\ At("claude", {"open"}) /\ Len(said) < MaxParts
        /\ said' = Append(said, Part(kind, <<>>, "", "")) /\ stage' = "block"
        /\ Relay(ContentBlockStart(Len(said), kind, "", ""))

ClaudeCalls ==
    \E name \in Names :
        /\ At("claude", {"open"}) /\ MayCall(name)
        /\ said' = Calling(NextId, name) /\ stage' = "block"
        /\ Relay(ContentBlockStart(Len(said), "tool_use", NextId, name))

ClaudeGrows ==
    LET kind == Last(said).kind
        body == IF kind = "tool_use" THEN <<"a">> ELSE <<"x">>
    IN  /\ At("claude", {"block"})
        /\ IF kind = "tool_use" THEN MayArgue ELSE Len(Bodies(said, kind)) < MaxText
        /\ said' = Arguing(body) /\ UNCHANGED stage
        /\ Relay(ContentBlockDelta(Len(said) - 1, kind, body))

ClaudeCloses ==
    /\ At("claude", {"block"})
    /\ stage' = "open" /\ UNCHANGED said
    /\ Relay(ContentBlockStop(Len(said) - 1))

ClaudeFinishes ==
    \E usage \in {0, Reported} :
        /\ At("claude", {"open"})
        /\ Owed => usage > 0
        /\ stage' = "finished" /\ UNCHANGED said
        /\ Relay(MessageDelta(IF Called # {} THEN "tool_use" ELSE "end_turn", usage))

ClaudeStops ==
    /\ At("claude", {"finished"})
    /\ stage' = "stopped" /\ UNCHANGED said
    /\ Relay(MessageStop)

-----------------------------------------------------------------------------
(* An upstream that speaks Gemini                                            *)

GeminiText == <<[kind |-> "text", body |-> <<"x">>, name |-> ""]>>
GeminiCall(name) == <<[kind |-> "tool_use", body |-> <<"a">>, name |-> name]>>

GeminiSays ==
    \E usage \in {0, Reported} :
        /\ At("gemini", {"new", "open"}) /\ MaySay(<<"x">>)
        /\ said' = Saying("text", <<"x">>) /\ stage' = "open"
        /\ Relay(GeminiChunk(GeminiText, FALSE, usage))

GeminiCalls ==
    \E name \in Names, usage \in {0, Reported}, last \in BOOLEAN :
        /\ At("gemini", {"new", "open"}) /\ MayCall(name)
        /\ Relied("together") => last
        /\ said' = Append(said, Part("tool_use", <<"a">>, "", name))
        /\ stage' = IF last THEN "finished" ELSE "open"
        /\ Relay(GeminiChunk(GeminiCall(name), last, usage))

GeminiCallsTwice ==
    \E n1, n2 \in Names, usage \in {0, Reported} :
        /\ At("gemini", {"new", "open"}) /\ MayCall(n1) /\ Len(said) + 1 < MaxParts
        /\ Cardinality(Called) + 1 < Len(CallIds)
        /\ Relied("names") => n1 # n2 /\ MayCall(n2)
        /\ said' = said \o <<Part("tool_use", <<"a">>, "", n1), Part("tool_use", <<"a">>, "", n2)>>
        /\ stage' = "finished"
        /\ Relay(GeminiChunk(GeminiCall(n1) \o GeminiCall(n2), TRUE, usage))

GeminiFinishes ==
    \E usage \in {0, Reported} :
        /\ At("gemini", {"new", "open"})
        /\ stage' = "finished" /\ UNCHANGED said
        /\ Relay(GeminiChunk(<<>>, TRUE, usage))

-----------------------------------------------------------------------------
(* 1min.AI, which answers with one body: handleNonStreamingResponse gives    *)
(* the client a stream made of it, or turns it down before anything is       *)
(* written, so that the request can go elsewhere.                            *)

OneMinAISSE(text) ==
    CASE route.to = "claude"    -> OneMinAIRespToClaudeSSE(text)
      [] route.to = "chat"      -> OneMinAIRespToOpenAISSE(text)
      [] route.to = "responses" -> OneMinAIRespToOpenAI2SSE(text)

OneMinAIAnswers ==
    \E ok \in BOOLEAN, n \in 0..2 : \E results \in [1..n -> {<<>>} \cup Texts] :
        LET response == [ok |-> ok, results |-> results]
            text     == ExtractOneMinAIAnswer(response)
        IN  /\ At("1minai", {"new"})
            /\ IF Fails(response)
               THEN stage' = "refused" /\ UNCHANGED <<view, said>>
               ELSE /\ stage' = "over"
                    /\ said' = <<Part("text", text, "", "")>>
                    /\ view' = Hear(route.to, view, OneMinAISSE(text))
            /\ UNCHANGED <<route, ctx, tally>>

-----------------------------------------------------------------------------
(* The end of the connections                                                *)

(* The upstream closes after its last event; [DONE] has ended the loop.      *)
UpstreamCloses ==
    /\ \/ At("claude", {"stopped"})
       \/ At("gemini", {"finished"})
       \/ At("responses", {"finished"}) /\ ~Relied("marker")
    /\ stage' = "over"
    /\ UNCHANGED <<route, ctx, view, tally, said>>

(* The upstream's connection breaks, or it closes early: scanner.Scan is     *)
(* false, and nothing more is written.                                       *)
UpstreamBreaks ==
    /\ Running
    /\ stage' = "cut"
    /\ UNCHANGED <<route, ctx, view, tally, said>>

(* Writing fails, the loop ends.                                             *)
ClientLeaves ==
    /\ Running
    /\ stage' = "left"
    /\ UNCHANGED <<route, ctx, view, tally, said>>

Next ==
    \/ ChatReasons \/ ChatSays \/ ChatCalls \/ ChatArgues
    \/ ChatFinishes \/ ChatReports \/ ChatEnds
    \/ ResponsesBegins \/ ResponsesOpensText \/ ResponsesSays \/ ResponsesCalls \/ ResponsesArgues
    \/ ResponsesClosesItem \/ ResponsesCompletes \/ ResponsesEnds
    \/ ClaudeBegins \/ ClaudeOpens \/ ClaudeCalls \/ ClaudeGrows \/ ClaudeCloses
    \/ ClaudeFinishes \/ ClaudeStops
    \/ GeminiSays \/ GeminiCalls \/ GeminiCallsTwice \/ GeminiFinishes
    \/ OneMinAIAnswers
    \/ UpstreamCloses \/ UpstreamBreaks \/ ClientLeaves

Spec == Init /\ [][Next]_vars

-----------------------------------------------------------------------------
(* Properties                                                                *)

(* Whatever the upstream's events are cut into, the client's are a stream of *)
(* its dialect: blocks open once, at indices of their own, grow while they   *)
(* are open, close before the reason, and nothing follows the end.           *)
StreamWellFormed == view.faults = {}

(* A client that streams reads the same text and the same calls as one that  *)
(* does not (the *StreamTo* functions against the *RespTo* functions), and   *)
(* on the way there never what the whole answer would not begin with: no tag *)
(* is taken for text, no call for another.                                   *)
StreamAgreesWithWhole ==
    LET heard == Gist(view.items)
        whole == Gist(Whole(route.from, route.to, said))
    IN  /\ IsPrefix(heard.text, whole.text)
        /\ Len(heard.calls) <= Len(whole.calls)
        /\ \A k \in DOMAIN heard.calls :
              /\ heard.calls[k].id = whole.calls[k].id
              /\ heard.calls[k].name = whole.calls[k].name
              /\ IsPrefix(heard.calls[k].body, whole.calls[k].body)
        /\ stage = "over" => heard = whole

(* An answer the upstream has ended is ended for the client, with nothing    *)
(* left open and with the reason that tells it whether to run tools.         *)
EndsWithReason ==
    stage = "over" =>
        /\ view.ends = 1
        /\ ~SomeOpen(view)
        /\ route.to # "responses" =>
              (view.reason \in {"tool_use", "tool_calls"} <=> Called # {})

(* A client is told of an end, or of a reason, only after the upstream has   *)
(* given one, so that an answer that is cut off while it is spoken does not  *)
(* look like one that has ended.                                             *)
CutOffShows ==
    stage \in {"new", "open", "block"} => view.ends = 0 /\ view.reason = "none"

(* Usage the upstream has reported is what is counted: the estimate that     *)
(* stands in for a missing report never replaces it.                         *)
ReportedUsageCounts == [][tally.out = Reported => tally'.out = Reported]_vars
=============================================================================
