---------------------------- MODULE Conversations ----------------------------
(* A conversation that a client holds through the proxy. With every request  *)
(* the client sends all of it again, in its own dialect, and the proxy, in   *)
(* the dialect of the endpoint that is now in use, which may be another than *)
(* that of the last request; answers come back as WholeAnswers says.         *)
EXTENDS Requests

CONSTANTS
    Clients,       \* the clients' dialects
    Upstreams,     \* the endpoints' dialects
    Names,         \* names of tools
    Sizes,         \* how long a question may be
    MaxTurns,      \* how many turns a conversation may have
    MaxCalls,      \* how many calls it may have
    Waived         \* what clients are not relied on for

ASSUME DialectsAssumption ==
    /\ Clients \subseteq {"claude", "chat", "responses"}
    /\ Upstreams \subseteq {"claude", "chat", "responses", "gemini", "1minai", "duo"}

ASSUME BoundsAssumption == MaxTurns \in Nat /\ MaxCalls \in Nat /\ Sizes \subseteq Nat

VARIABLES
    client,        \* [dialect, plain]: who asks, and whether texts are strings
    upstream,      \* the dialect of the endpoint that is asked now, or ""
    conv           \* what was said: utterances [by, turn, part]

vars == <<client, upstream, conv>>

Utterance(by, turn, part) == [by |-> by, turn |-> turn, part |-> part]

Turns == IF conv = <<>> THEN 0 ELSE Last(conv).turn

(* The text of a turn is told from those of other turns, and from thinking.  *)
Word(turn) == "t" \o ToString(turn)

ASSUME WordsAssumption == \A turn \in 0..MaxTurns : Word(turn) # "hm"

TextOf(turn, size) == TextPart([k \in 1..size |-> Word(turn)])

(* Claude Code puts reminders before a question, and a question may look     *)
(* like one.                                                                 *)
Reminder == TextPart(<<Marker>>)

Marked(text) == TextPart(<<Marker>> \o text.body)

Questions(turn, size) ==
    LET text == TextOf(turn, size)
    IN  {<<text>>} \cup (IF client.dialect = "claude" THEN {<<Marked(text)>>} ELSE {})
                   \cup (IF client.dialect = "claude" /\ ~client.plain THEN {<<Reminder, text>>} ELSE {})

(* The ids of calls, which are ids: those of providers and of the proxy.     *)
Id(n) == "c" \o ToString(n)

ASSUME IdsAssumption ==
    /\ \A n \in 0..MaxCalls + 1 : Id(n) # "" /\ CounterId(n) # ""
    /\ \A name \in Names : CallNamed(name) # ""

Init ==
    \E dialect \in Clients, plain \in BOOLEAN, by \in {"", "system", "developer"} :
        /\ by = "developer" => dialect # "claude"
        /\ client = [dialect |-> dialect, plain |-> plain]
        /\ upstream = ""
        /\ conv = IF by = "" THEN <<>> ELSE <<Utterance(by, 0, TextOf(0, 1))>>

-----------------------------------------------------------------------------
(* How the clients lay a conversation out: in Claude's dialect one message   *)
(* per speaker; in chat one per answer, per question and per result; in      *)
(* responses one per part. Answers are sent back as they came.               *)

Lay(message(_), together(_, _)) ==
    FoldLeft(LAMBDA ms, k :
                IF k > 1 /\ together(conv[k - 1], conv[k])
                THEN [ms EXCEPT ![Len(ms)].parts = Append(@, conv[k].part)]
                ELSE Append(ms, message(conv[k])),
             <<>>, [k \in DOMAIN conv |-> k])

ClaudeLays ==
    LET ms == Lay(LAMBDA u : Message(u.by, FALSE, <<u.part>>), LAMBDA u, w : u.by = w.by)
        string(m) == client.plain /\ m.role # "assistant" /\ Len(m.parts) = 1 /\ TextsOf(m.parts) # <<>>
    IN  [k \in DOMAIN ms |-> [ms[k] EXCEPT !.plain = string(ms[k])]]

ChatLays ==
    Lay(LAMBDA u : Message(IF u.part.kind = "result" THEN "tool" ELSE u.by,
                           client.plain \/ u.part.kind = "result", <<u.part>>),
        LAMBDA u, w : u.by = "assistant" /\ w.by = "assistant")

ResponsesLays ==
    Lay(LAMBDA u : Message(IF u.part.kind = "text" THEN u.by ELSE "",
                           client.plain /\ u.by # "assistant", <<u.part>>),
        LAMBDA u, w : FALSE)

Request ==
    CASE client.dialect = "claude"    -> ClaudeLays
      [] client.dialect = "chat"      -> ChatLays
      [] client.dialect = "responses" -> ResponsesLays

(* What the proxy sends: messages, or for some upstreams one text.           *)
Prompted == upstream \in {"1minai", "duo"}

To(up) == upstream = up

Prompt ==
    CASE To("duo")                                      -> extractGitLabDuoHistory(Request)
      [] To("1minai") /\ client.dialect = "claude"    -> ClaudeReqToOneMinAI(Request)
      [] To("1minai") /\ client.dialect = "chat"      -> OpenAIReqToOneMinAI(Request)
      [] To("1minai") /\ client.dialect = "responses" -> OpenAI2ReqToOneMinAI(Request)

TransformRequest ==
    CASE To(client.dialect)                                -> Request
      [] To("chat")      /\ client.dialect = "claude"    -> ClaudeReqToOpenAI(Request)
      [] To("responses") /\ client.dialect = "claude"    -> ClaudeReqToOpenAI2(Request)
      [] To("gemini")    /\ client.dialect = "claude"    -> ClaudeReqToGemini(Request)
      [] To("claude")    /\ client.dialect = "chat"      -> OpenAIReqToClaude(Request)
      [] To("responses") /\ client.dialect = "chat"      -> OpenAIReqToOpenAI2(Request)
      [] To("gemini")    /\ client.dialect = "chat"      -> OpenAIReqToGemini(Request)
      [] To("claude")    /\ client.dialect = "responses" -> OpenAI2ReqToClaude(Request)
      [] To("chat")      /\ client.dialect = "responses" -> OpenAI2ReqToOpenAI(Request)
      [] To("gemini")    /\ client.dialect = "responses" -> OpenAI2ReqToGemini(Request)

Sent == IF To("claude") THEN dropIncompleteToolCalls(TransformRequest) ELSE TransformRequest

-----------------------------------------------------------------------------
(* The conversation                                                          *)

Parts == [k \in DOMAIN conv |-> conv[k].part]

LastTurn == Only(conv, LAMBDA u : u.turn = Turns)

Pending ==
    IF conv = <<>> \/ Last(conv).by # "assistant" THEN <<>>
    ELSE CallsOf([k \in DOMAIN LastTurn |-> LastTurn[k].part])

Interrupted == \E k \in DOMAIN conv : Incomplete(conv[k].part)

Asks == upstream # ""

Endpoints == IF client.dialect = "claude" THEN Upstreams ELSE Upstreams \ {"duo"}

Says(by, parts) ==
    conv' = conv \o [k \in DOMAIN parts |-> Utterance(by, Turns + 1, parts[k])]

(* The next request goes wherever rotation and failover take it.             *)
Requests(parts) ==
    /\ Turns < MaxTurns
    /\ upstream' \in Endpoints
    /\ Says("user", parts)
    /\ UNCHANGED client

UserSays ==
    \E size \in Sizes : \E question \in Questions(Turns + 1, size) :
        /\ ~Asks
        /\ Pending = <<>>
        /\ Requests(question)

(* All calls of an answer are run, and the results come back in any order,   *)
(* maybe with a word of the user's.                                          *)
ToolsReturn ==
    LET n == Len(Pending)
        result(k) == Part("result", <<"r">>, Pending[k].id, Pending[k].name)
    IN  \E turned \in {b \in BOOLEAN : b => n > 1}, word \in BOOLEAN :
            /\ Pending # <<>> /\ ~Interrupted
            /\ Requests([k \in 1..n |-> result(IF turned THEN n + 1 - k ELSE k)]
                        \o (IF word THEN <<TextOf(Turns + 1, 1)>> ELSE <<>>))

FreshId(k) == Id(Len(CallsOf(Parts)) + k)

Thought == Part("thinking", <<"hm">>, "", "")

(* What the client keeps of an answer.                                       *)
Remembered(said) ==
    Only(Whole(upstream, client.dialect, said), LAMBDA p : p.kind = "tool_use" \/ p.body # <<>>)

Answers ==
    \E thinks, speaks \in BOOLEAN, n \in 0..MaxCalls - Len(CallsOf(Parts)) : \E names \in [1..n -> Names] :
        LET calls == [k \in 1..n |-> Part("tool_use", <<"a">>,
                                          IF To("gemini") THEN "" ELSE FreshId(k), names[k])]
            said  == (IF thinks THEN <<Thought>> ELSE <<>>)
                     \o (IF speaks THEN <<TextOf(Turns + 1, 1)>> ELSE <<>>) \o calls
        IN  /\ Asks /\ ~Interrupted
            /\ Turns < MaxTurns
            /\ speaks \/ n > 0
            /\ thinks => To("claude") /\ client.dialect = "claude"
            /\ Prompted => n = 0
            /\ Says("assistant", Remembered(said))
            /\ upstream' = ""
            /\ UNCHANGED client

(* The user stops an answer in a call, and the client sends what it has.     *)
UserInterrupts ==
    \E name \in Names, speaks \in BOOLEAN :
        /\ Asks /\ ~Interrupted
        /\ Turns < MaxTurns /\ Len(CallsOf(Parts)) <= MaxCalls
        /\ To("claude") /\ client.dialect = "claude"
        /\ Says("assistant", (IF speaks THEN <<TextOf(Turns + 1, 1)>> ELSE <<>>)
                             \o <<Part("tool_use", <<>>, FreshId(1), name)>>)
        /\ upstream' \in Endpoints
        /\ UNCHANGED client

Next == UserSays \/ ToolsReturn \/ Answers \/ UserInterrupts

Spec == Init /\ [][Next]_vars

-----------------------------------------------------------------------------
(* How an upstream reads a request: who says what, in which order.           *)

By(m, p) ==
    CASE m.role = "tool" \/ p.kind = "result"  -> "tool"
      [] m.role \in {"assistant", "model"}     -> "assistant"
      [] m.role \in {"system", "developer"}    -> "system"
      [] m.role = "" /\ p.kind = "tool_use"    -> "assistant"
      [] m.role = "user" /\ p.kind # "result"  -> "user"

HeardIn(m) == [j \in DOMAIN m.parts |-> [by |-> By(m, m.parts[j]), part |-> m.parts[j]]]

Read == FoldLeft(LAMBDA us, m : us \o HeardIn(m), <<>>, Sent)

Meant ==
    LET by(u) == CASE u.by = "developer"       -> "system"
                   [] u.part.kind = "result"   -> "tool"
                   [] OTHER                    -> u.by
    IN  [k \in DOMAIN conv |-> [by |-> by(conv[k]), part |-> conv[k].part]]

(* Thinking aside, and with the texts that one speaker says in a row as one; *)
(* Gemini has no ids, and names are told apart below.                        *)
Plainly(us) ==
    LET heard == Only(us, LAMBDA u : /\ u.part.kind # "thinking"
                                     /\ ~Incomplete(u.part)
                                     /\ u.part # Placeholder
                                     /\ u.part.kind = "text" => u.part.body # <<>>)
        bare(p) == [p EXCEPT !.id = IF To("gemini") THEN "" ELSE @,
                             !.name = IF p.kind = "result" THEN "" ELSE @]
        goesOn(ws, u) == IF ws = <<>> THEN FALSE
                         ELSE u.part.kind = "text" /\ Last(ws).part.kind = "text" /\ Last(ws).by = u.by
    IN  FoldLeft(LAMBDA ws, u : IF goesOn(ws, u)
                                THEN [ws EXCEPT ![Len(ws)].part.body = @ \o u.part.body]
                                ELSE Append(ws, [u EXCEPT !.part = bare(@)]), <<>>, heard)

UserTexts(us) ==
    FlattenSeq([k \in DOMAIN us |-> IF us[k].by = "user" /\ us[k].part.kind = "text"
                                    THEN us[k].part.body ELSE <<>>])

(* What is no reminder, the user typed.                                      *)
UserTyped(us) == Only(us, LAMBDA u : u.part # Reminder)

(* What a prompt has a tag for: what was said, the results, and the note.    *)
Tagged == Len(Only(conv, LAMBDA u : u.part.kind \in {"text", "result"})) + 1

Distinct(calls) == \A j, k \in DOMAIN calls : j # k => calls[j].id # calls[k].id

-----------------------------------------------------------------------------
(* What the properties need of the clients on each route.                    *)
(*   apart    the user's words do not come in one message with results       *)
(*   between  the assistant speaks between two rounds of calls               *)
(*   calm     nothing is called                                              *)
(*   strings  texts are strings                                              *)
(*   lists    texts are lists of parts                                       *)
(*   known    the system prompt's role is "system"                           *)
(*   whole    no call is interrupted                                         *)
(*   distinct no id is used for two calls                                    *)
(*   few      the slack of a prompt has room for the note and all tags       *)
(*   unmarked what the user types does not begin with a marker               *)
Holds(need) ==
    CASE need = "apart"   -> \A j, k \in DOMAIN conv : ~(/\ conv[j].part.kind = "result"
                                                         /\ conv[k].turn = conv[j].turn
                                                         /\ conv[k].part.kind = "text")
      [] need = "between" -> \A k \in DOMAIN conv : ~(/\ k > 1 /\ conv[k].part.kind = "tool_use"
                                                      /\ conv[k - 1].part.kind = "result")
      [] need = "calm"    -> CallsOf(Parts) = <<>>
      [] need = "strings" -> client.plain
      [] need = "lists"   -> ~client.plain
      [] need = "known"   -> \A k \in DOMAIN conv : conv[k].by # "developer"
      [] need = "whole"   -> ~Interrupted
      [] need = "distinct" -> Distinct(CallsOf(Parts))
      [] need = "few"      -> Tagged + Len(Note.body) <= Slack
      [] need = "unmarked" -> \A u \in Range(UserTyped(LastTurn)) : ~isSystemInjection(u.part.body)

Route(from, to) == client.dialect = from /\ To(to)

Given(needs) == \A need \in needs \ Waived : Holds(need)

-----------------------------------------------------------------------------
(* Properties                                                                *)

(* The conversation stays one: turns in order, each of one speaker, with     *)
(* calls that can be answered, and thinking only where there is a word for   *)
(* it.                                                                       *)
TypeOK ==
    /\ client \in [dialect : Clients, plain : BOOLEAN]
    /\ upstream \in Upstreams \cup {""}
    /\ Turns \in 0..MaxTurns
    /\ \A k \in DOMAIN conv :
          /\ conv[k].by \in {"system", "developer", "user", "assistant"}
          /\ conv[k].part.kind \in {"text", "thinking", "tool_use", "result"}
          /\ conv[k].part.kind = "tool_use" => conv[k].part.id # ""
          /\ conv[k].part.kind = "thinking" => client.dialect = "claude"
          /\ k > 1 => conv[k - 1].turn <= conv[k].turn
    /\ \A j, k \in DOMAIN conv : conv[j].turn = conv[k].turn => conv[j].by = conv[k].by

(* The upstream reads what was said, all of it and in the order it was said: *)
(* a call after what it was called for, its result before what was said of   *)
(* it, whatever dialects the turns before went through.                      *)
SaidInOrder ==
    LET needs == CASE Route("claude", "chat")      -> {"apart"}
                   [] Route("chat", "claude")      -> {"strings"}
                   [] Route("chat", "gemini")      -> {"strings"}
                   [] Route("chat", "responses")   -> {"strings", "calm"}
                   [] Route("responses", "claude") -> {"between"}
                   [] Route("responses", "gemini") -> {"between"}
                   [] Route("responses", "chat")   -> {"lists"}
                   [] OTHER -> {}
    IN  Asks /\ ~Prompted /\ Given(needs) => Plainly(Read) = Plainly(Meant)

(* A result that is sent to Gemini, which knows calls by their names, has    *)
(* the name of the tool that was run, though the proxy numbers the calls of  *)
(* every answer from zero.                                                   *)
ResultsNamed ==
    LET results(us) == Only(us, LAMBDA u : u.part.kind = "result")
        read  == results(Read)
        meant == results(Meant)
    IN  Asks /\ To("gemini") =>
          /\ Len(read) = Len(meant)
          /\ Given({"apart"}) => \A k \in DOMAIN read : read[k].part.name = meant[k].part.name

(* Whatever the upstream's dialect, the user's words reach it: all of them,  *)
(* and where there is only room for some, the last ones that were typed.     *)
UserTextSurvives ==
    LET needs == CASE Route("chat", "responses")   -> {"strings"}
                   [] Route("responses", "chat")   -> {"lists"}
                   [] Route("responses", "1minai") -> {"lists", "few"}
                   [] To("1minai")                 -> {"few"}
                   [] To("duo")                    -> {"unmarked"}
                   [] OTHER -> {}
        sizes(us) == SizeOf([k \in DOMAIN us |-> us[k].part])
        words == UserTexts(UserTyped(LastTurn))
        fits == IF To("duo") THEN Len(words) <= MaxGoal
                ELSE /\ sizes(LastTurn) <= MinBudget
                     /\ sizes(Only(conv, LAMBDA u : u.turn = 0)) + MinBudget <= MaxPrompt
        prompt == Prompt
    IN  Asks /\ Given(needs) =>
            IF Prompted
            THEN fits => \E k \in 0..Len(prompt) - Len(words) : SubSeq(prompt, k + 1, k + Len(words)) = words
            ELSE UserTexts(Read) = UserTexts(Meant)

Thinks(body) == \E k \in DOMAIN body : body[k] = "hm"

(* Claude's thinking is never made into what somebody said, nor into a call  *)
(* or a result, whichever dialects a conversation goes through; as thinking  *)
(* it is only sent to Claude and to Gemini, which gets it as a thought with  *)
(* the signature (claude_gemini.go:460-469).                                 *)
ThinkingStaysHome ==
    Asks => IF Prompted THEN ~Thinks(Prompt)
            ELSE \A u \in Range(Read) :
                    Thinks(u.part.body) => u.part.kind = "thinking" /\ upstream \in {"claude", "gemini"}

Roles(up) ==
    CASE up = "claude"    -> {"system", "user", "assistant"}
      [] up = "chat"      -> {"system", "developer", "user", "assistant", "tool"}
      [] up = "responses" -> {"system", "developer", "user", "assistant", ""}
      [] up = "gemini"    -> {"system", "user", "model"}

RolesKnown == \A m \in Range(Sent) : m.role \in Roles(upstream)

CallsComplete(us) == \A u \in Range(us) : ~Incomplete(u.part)

(* Between a call and its result there is nothing but calls and results.     *)
CallsAnswered(us) ==
    \A k \in DOMAIN us : us[k].part.kind = "tool_use" =>
        \E j \in k + 1..Len(us) :
            /\ us[j].part.kind = "result"
            /\ us[j].part.id = us[k].part.id
            /\ \A i \in k..j : us[i].part.kind \in {"tool_use", "result"}

(* The upstream's interface takes the request: its roles are those of the    *)
(* dialect, no call is unfinished, each is answered before anybody says      *)
(* more, and no two have one id.                                             *)
UpstreamAccepts ==
    LET needs == CASE Route("claude", "chat")      -> {"whole", "apart", "distinct"}
                   [] Route("claude", "responses") -> {"whole", "distinct"}
                   [] Route("claude", "gemini")    -> {"whole"}
                   [] Route("chat", "responses")   -> {"calm"}
                   [] Route("chat", "gemini")      -> {"known"}
                   [] Route("responses", "gemini") -> {"known"}
                   [] To("claude")                 -> {"known", "distinct"}
                   [] OTHER -> {"distinct"}
        read == Read
    IN  Asks /\ ~Prompted /\ Given(needs) =>
          /\ RolesKnown /\ CallsComplete(read) /\ CallsAnswered(read)
          /\ To("gemini") \/ Distinct(CallsOf([k \in DOMAIN read |-> read[k].part]))
=============================================================================
