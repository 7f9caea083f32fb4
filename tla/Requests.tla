------------------------------ MODULE Requests ------------------------------
(* The request converters of internal/transformer/convert: *ReqTo*. A        *)
(* request is the sequence of its messages, in every dialect: a message has  *)
(* a role, its parts, and whether its text is written as a string or as a    *)
(* list of parts. The system prompt is a message of its own, and in          *)
(* responses a call and its result are messages without a role.              *)
EXTENDS WholeAnswers, Prompts

Message(role, plain, parts) == [role |-> role, plain |-> plain, parts |-> parts]

TextPart(body) == Part("text", body, "", "")

ResultsOf(parts) == Only(parts, LAMBDA p : p.kind = "result")
HasThinking(parts) == \E k \in DOMAIN parts : parts[k].kind = "thinking"

Joined(parts) == IF TextsOf(parts) = <<>> THEN <<>> ELSE <<TextPart(Bodies(parts, "text"))>>

System(ms) == Only(ms, LAMBDA m : m.role = "system")
Others(ms) == Only(ms, LAMBDA m : m.role # "system")

(* Only a system prompt that is a string is seen.                            *)
StringSystem(ms) ==
    LET seen == Only(System(ms), LAMBDA m : m.plain)
    IN  IF seen = <<>> THEN <<>>
        ELSE <<Message("system", TRUE, <<TextPart(FlattenSeq([k \in DOMAIN seen |->
                                                        Bodies(seen[k].parts, "text")]))>>)>>

-----------------------------------------------------------------------------
(* From Claude                                                               *)

Placeholder == TextPart(<<"(thinking...)">>)

\* Mutant: the text of a turn is joined with its thinking.
FromClaudeThinkingAloud(m) ==
    LET main == IF HasThinking(m.parts)
                THEN <<TextPart(Bodies(m.parts, "thinking") \o Bodies(m.parts, "text"))>> \o CallsOf(m.parts)
                ELSE Joined(m.parts) \o CallsOf(m.parts)
        results == ResultsOf(m.parts)
    IN  (IF main = <<>> THEN <<>> ELSE <<Message(m.role, TRUE, main)>>)
        \o [k \in DOMAIN results |-> Message("tool", TRUE, <<results[k]>>)]

ClaudeMessageToOpenAI(m) ==
    LET main    == Joined(m.parts) \o CallsOf(m.parts)
        said    == IF main = <<>> /\ HasThinking(m.parts) /\ m.role = "assistant"
                   THEN <<Placeholder>> ELSE main
        results == ResultsOf(m.parts)
    IN  (IF said = <<>> THEN <<>> ELSE <<Message(m.role, TRUE, said)>>)
        \o [k \in DOMAIN results |-> Message("tool", TRUE, <<results[k]>>)]

ClaudeReqToOpenAI(ms) == FlattenSeq([k \in DOMAIN ms |-> ClaudeMessageToOpenAI(ms[k])])

(* A run of texts becomes one message; calls and results are items.          *)
ClaudePartToItem(st, p) ==
    LET goesOn == IF st.items = <<>> THEN FALSE ELSE Last(st.items).role = st.role
    IN  CASE p.kind = "thinking" -> st
          [] p.kind = "text" /\ goesOn ->
               [st EXCEPT !.items[Len(st.items)].parts = Append(@, p)]
          [] p.kind = "text" /\ ~goesOn ->
               [st EXCEPT !.items = Append(@, Message(st.role, FALSE, <<p>>))]
          [] OTHER -> [st EXCEPT !.items = Append(@, Message("", FALSE, <<p>>))]

convertClaudeMessageToOpenAI2Items(m) ==
    FoldLeft(ClaudePartToItem, [role |-> m.role, items |-> <<>>], m.parts).items

ClaudeReqToOpenAI2(ms) == FlattenSeq([k \in DOMAIN ms |-> convertClaudeMessageToOpenAI2Items(ms[k])])

-----------------------------------------------------------------------------
(* To Gemini, which has no ids: a result has the name of what was called.    *)
(* "names" is toolUseIDToName, filled on the way.                            *)

GeminiRole(role) == CASE role = "assistant" -> "model" [] role = "tool" -> "user" [] OTHER -> role

Named(names, id, name) ==
    [i \in DOMAIN names \cup {id} |-> IF i = id THEN name ELSE names[i]]

\* Mutant: an id keeps the name it was first used with.
RespondFirst(st, p) ==
    CASE p.kind = "tool_use" /\ p.id \in DOMAIN st.names ->
           [st EXCEPT !.parts = Append(@, [p EXCEPT !.id = ""])]
      [] p.kind = "tool_use" /\ p.id \notin DOMAIN st.names ->
           [names |-> Named(st.names, p.id, p.name), parts |-> Append(st.parts, [p EXCEPT !.id = ""])]
      [] p.kind = "result" ->
           [st EXCEPT !.parts = Append(@, [p EXCEPT !.id = "", !.name = st.names[p.id]])]
      [] OTHER -> [st EXCEPT !.parts = Append(@, p)]

Respond(st, p) ==
    CASE p.kind = "tool_use" ->
           [names |-> Named(st.names, p.id, p.name), parts |-> Append(st.parts, [p EXCEPT !.id = ""])]
      [] p.kind = "result" ->
           LET name == IF p.id \in DOMAIN st.names THEN st.names[p.id] ELSE ""
           IN  [st EXCEPT !.parts = Append(@, [p EXCEPT !.id = "", !.name = name])]
      [] OTHER -> [st EXCEPT !.parts = Append(@, p)]

GeminiContent(st, m) ==
    LET read == FoldLeft(Respond, [names |-> st.names, parts |-> <<>>], m.parts)
    IN  [names |-> read.names, contents |-> Append(st.contents, [m EXCEPT !.parts = read.parts])]

WithNames(ms) == FoldLeft(GeminiContent, [names |-> <<>>, contents |-> <<>>], ms).contents

InRoles(ms) == [k \in DOMAIN ms |-> [ms[k] EXCEPT !.role = GeminiRole(@)]]

ClaudeReqToGemini(ms) == InRoles(WithNames(ms))

OpenAIReqToGemini(ms) == StringSystem(ms) \o InRoles(WithNames(Others(ms)))

-----------------------------------------------------------------------------
(* From chat                                                                 *)

(* With calls, a text that is not a string is left out.                      *)
ChatMessageToClaude(m) ==
    CASE m.role = "tool" -> Message("user", FALSE, m.parts)
      [] m.role # "tool" /\ CallsOf(m.parts) # <<>> ->
           Message(m.role, FALSE, (IF m.plain THEN TextsOf(m.parts) ELSE <<>>) \o CallsOf(m.parts))
      [] OTHER -> m

OpenAIReqToClaude(ms) ==
    LET said == Others(ms) IN StringSystem(ms) \o [k \in DOMAIN said |-> ChatMessageToClaude(said[k])]

(* Only strings are taken over, a result as the text of a message.           *)
ChatMessageToItem(m) ==
    LET strings == Only(m.parts, LAMBDA p : p.kind \in {"text", "result"})
    IN  Message(m.role, FALSE, IF m.plain THEN [k \in DOMAIN strings |-> TextPart(strings[k].body)]
                               ELSE <<>>)

OpenAIReqToOpenAI2(ms) ==
    LET said == Others(ms)
        seen == Only(System(ms), LAMBDA m : m.plain)
    IN  (IF seen = <<>> THEN <<>> ELSE <<Last(seen)>>)
        \o [k \in DOMAIN said |-> ChatMessageToItem(said[k])]

-----------------------------------------------------------------------------
(* From responses, whose calls and results are gathered into messages        *)

Gathering == [out |-> <<>>, uses |-> <<>>, results |-> <<>>]

FlushUses(st) ==
    IF st.uses = <<>> THEN st
    ELSE [st EXCEPT !.out = Append(@, Message("assistant", FALSE, st.uses)), !.uses = <<>>]

FlushResults(st) ==
    IF st.results = <<>> THEN st
    ELSE [st EXCEPT !.out = Append(@, Message("user", FALSE, st.results)), !.results = <<>>]

\* Mutant: calls that wait are not put before a result.
GatherLate(st, m) ==
    LET p == m.parts[1]
    IN  CASE p.kind = "tool_use" -> [st EXCEPT !.uses = Append(@, p)]
          [] p.kind = "result"   -> [st EXCEPT !.out = Append(@, Message("user", FALSE, <<p>>))]
          [] OTHER -> LET left == FlushResults(FlushUses(st)) IN [left EXCEPT !.out = Append(@, m)]

Gather(st, m) ==
    LET p == m.parts[1]
    IN  CASE p.kind = "tool_use" -> [st EXCEPT !.uses = Append(@, p)]
          [] p.kind = "result"   -> [FlushUses(st) EXCEPT !.results = Append(@, p)]
          [] OTHER -> LET left == FlushResults(FlushUses(st)) IN [left EXCEPT !.out = Append(@, m)]

convertOpenAI2InputToClaude(ms) == FlushResults(FlushUses(FoldLeft(Gather, Gathering, ms))).out

OpenAI2ReqToClaude(ms) == convertOpenAI2InputToClaude(ms)

OpenAI2ReqToGemini(ms) == InRoles(convertOpenAI2InputToClaude(WithNames(ms)))

(* In chat every result is a message; a text that is a string is not seen.   *)
GatherForChat(st, m) ==
    LET p    == m.parts[1]
        left == FlushUses(st)
        role == IF m.role = "developer" THEN "system" ELSE m.role
        seen == IF m.plain /\ m.role # "system" THEN <<>> ELSE Joined(m.parts)
    IN  CASE p.kind = "tool_use" -> [st EXCEPT !.uses = Append(@, p)]
          [] p.kind = "result"   -> [left EXCEPT !.out = Append(@, Message("tool", TRUE, <<p>>))]
          [] OTHER               -> [left EXCEPT !.out = Append(@, Message(role, TRUE, seen))]

OpenAI2ReqToOpenAI(ms) == FlushUses(FoldLeft(GatherForChat, Gathering, ms)).out

-----------------------------------------------------------------------------
(* To 1min.AI and GitLab Duo: turns, of which a prompt is made               *)

TurnRole(role) == IF role = "developer" THEN "system" ELSE role

TurnsOf(role, texts) == IF texts = <<>> THEN <<>> ELSE <<Turn(role, texts[1].body)>>

ClaudeTurns(m) ==
    LET results == ResultsOf(m.parts)
    IN  TurnsOf(m.role, Joined(m.parts)) \o [k \in DOMAIN results |-> Turn("tool", results[k].body)]

ChatTurns(m) ==
    IF m.role = "tool" THEN <<Turn("tool", m.parts[1].body)>>
    ELSE TurnsOf(TurnRole(m.role), Joined(m.parts))

ResponsesTurns(m) ==
    IF m.plain /\ m.role # "system" THEN <<>> ELSE TurnsOf(TurnRole(m.role), Joined(m.parts))

AllTurns(ms, turns(_)) == FlattenSeq([k \in DOMAIN ms |-> turns(ms[k])])

ClaudeReqToOneMinAI(ms)  == FormatOneMinAIPrompt(AllTurns(ms, ClaudeTurns))
OpenAIReqToOneMinAI(ms)  == FormatOneMinAIPrompt(AllTurns(ms, ChatTurns))
OpenAI2ReqToOneMinAI(ms) == FormatOneMinAIPrompt(AllTurns(ms, ResponsesTurns))

Shortest(texts) ==
    texts[CHOOSE k \in DOMAIN texts :
            \A j \in DOMAIN texts : Len(texts[k].body) <= Len(texts[j].body)]

(* What a user typed, without what was put in; where that is all there is,   *)
(* the shortest of a list, and nothing of a string.                          *)
extractUserQuestion(m) ==
    LET texts == TextsOf(m.parts)
        typed == Only(texts, LAMBDA p : ~isSystemInjection(p.body))
    IN  IF m.plain \/ typed # <<>> \/ texts = <<>> THEN Joined(typed) ELSE <<Shortest(texts)>>

condensed(m) ==
    LET text == condensedSystemPrompt(Bodies(m.parts, "text"))
    IN  IF text = <<>> THEN <<>> ELSE <<TextPart(text)>>

DuoTurns(m) ==
    CASE m.role = "system" -> TurnsOf(m.role, condensed(m))
      [] m.role = "user"   -> TurnsOf(m.role, extractUserQuestion(m))
      [] OTHER             -> TurnsOf(m.role, Joined(m.parts))

extractGitLabDuoHistory(ms) == truncateGoal(AllTurns(ms, DuoTurns))

-----------------------------------------------------------------------------
(* What the proxy last does to a body: a call that was interrupted has no    *)
(* input, and is dropped from the end of a request in Claude's dialect.      *)

Incomplete(p) == p.kind = "tool_use" /\ p.body = <<>>

\* Mutant: a message that says something else too is left as it is.
DropWholeMessages(ms) ==
    LET n == Len(ms)
    IN  IF ms = <<>> THEN ms
        ELSE IF ms[n].role # "assistant" \/ ms[n].plain THEN ms
        ELSE IF \A k \in DOMAIN ms[n].parts : Incomplete(ms[n].parts[k]) THEN SubSeq(ms, 1, n - 1)
        ELSE ms

dropIncompleteToolCalls(ms) ==
    LET n    == Len(ms)
        kept == Only(ms[n].parts, LAMBDA p : ~Incomplete(p))
    IN  IF ms = <<>> THEN ms
        ELSE IF ms[n].role # "assistant" \/ ms[n].plain THEN ms
        ELSE IF kept = <<>> THEN SubSeq(ms, 1, n - 1)
        ELSE [ms EXCEPT ![n].parts = kept]
=============================================================================
