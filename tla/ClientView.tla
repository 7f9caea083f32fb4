----------------------------- MODULE ClientView -----------------------------
(* What a client makes of the events it gets: the items of the message so    *)
(* far, why it ended, and every way in which the stream was not one.         *)
(* It stands for the readers in the clients: the SDKs of the three dialects. *)
EXTENDS StreamEvents, SequencesExt

NothingHeard == [starts |-> 0, items |-> <<>>, reason |-> "none", ends |-> 0, faults |-> {}]

Faulty(v, wrong, fault) == IF wrong THEN [v EXCEPT !.faults = @ \cup {fault}] ELSE v

Places(v, i) == {k \in DOMAIN v.items : v.items[k].index = i}
OpenPlaces(v, i) == {k \in Places(v, i) : v.items[k].open}
SomeOpen(v) == \E k \in DOMAIN v.items : v.items[k].open

NewItem(i, kind, id, name) ==
    [index |-> i, kind |-> kind, id |-> id, name |-> name, body |-> <<>>, open |-> TRUE]

(* A call is known by its id: the client answers it under that id.           *)
Opened(v, i, kind, id, name) ==
    [Faulty(v, id # "" /\ \E k \in DOMAIN v.items : v.items[k].id = id, "sameid")
        EXCEPT !.items = Append(@, NewItem(i, kind, id, name))]

Longer(item, body) == [item EXCEPT !.body = @ \o body]
Closed(item) == [item EXCEPT !.open = FALSE]

Grown(v, i, body) ==
    [v EXCEPT !.items = [k \in DOMAIN v.items |-> IF k \in OpenPlaces(v, i)
                                                  THEN Longer(v.items[k], body) ELSE v.items[k]]]

Shut(v, i) ==
    [v EXCEPT !.items = [k \in DOMAIN v.items |-> IF k \in OpenPlaces(v, i)
                                                  THEN Closed(v.items[k]) ELSE v.items[k]]]

(* At the reason to finish a chat client closes whatever is open.            *)
AllShut(v) == [v EXCEPT !.items = [k \in DOMAIN v.items |-> Closed(v.items[k])]]

Reasoned(v, reason) ==
    IF reason = "none" THEN v
    ELSE [Faulty(v, v.reason \notin {"none", reason}, "changed") EXCEPT !.reason = reason]

Ended(v) == [Faulty(v, v.ends > 0, "twice") EXCEPT !.ends = 1]

-----------------------------------------------------------------------------
(* One block at a time, at an index of its own, between the start and the    *)
(* reason; the reason between the last block and the end.                    *)
HearClaude(v, e) ==
    CASE e.type = "message_start" ->
           [Faulty(v, v.starts > 0, "twice") EXCEPT !.starts = 1]
      [] e.type = "content_block_start" ->
           LET w == Faulty(Faulty(Faulty(Faulty(v, v.starts = 0, "early"),
                                         v.ends > 0 \/ v.reason # "none", "late"),
                                  Places(v, e.index) # {}, "reused"),
                           SomeOpen(v), "overlap")
           IN  Opened(w, e.index, e.kind, e.id, e.name)
      [] e.type = "content_block_delta" ->
           Grown(Faulty(v, \A k \in OpenPlaces(v, e.index) : v.items[k].kind # e.kind, "stray"),
                 e.index, e.body)
      [] e.type = "content_block_stop" ->
           Shut(Faulty(v, OpenPlaces(v, e.index) = {}, "stray"), e.index)
      [] e.type = "message_delta" ->
           Reasoned(Faulty(Faulty(v, v.ends > 0, "late"),
                           e.reason # "none" /\ SomeOpen(v), "overlap"), e.reason)
      [] e.type = "message_stop" -> Ended(Faulty(v, v.starts = 0, "early"))
      [] OTHER -> Faulty(v, TRUE, "foreign")

(* The text is at place 0, the call of index n at place n + 1; a call begins *)
(* with its id, and nothing is closed before the reason.                     *)
HearCall(v, c) ==
    LET i == c.index + 1
    IN  IF Places(v, i) = {}
        THEN Grown(Opened(Faulty(v, c.id = "", "stray"), i, "tool_use", c.id, c.name), i, c.arguments)
        ELSE Grown(Faulty(v, c.id # "", "reused"), i, c.arguments)

HearText(v, body) ==
    IF body = <<>> THEN v
    ELSE Grown(IF Places(v, 0) = {} THEN Opened(v, 0, "text", "", "") ELSE v, 0, body)

HearChat(v, e) ==
    CASE e.type = "chunk" ->
           LET late  == Faulty(v, \/ v.ends > 0
                                  \/ /\ v.reason # "none"
                                     /\ (e.content # <<>> \/ e.calls # <<>>), "late")
               heard == FoldLeft(HearCall, HearText(late, e.content), e.calls)
           IN  IF e.finish = "none" THEN heard ELSE Reasoned(AllShut(heard), e.finish)
      [] e.type = "[DONE]" -> Ended(v)
      [] OTHER -> Faulty(v, TRUE, "foreign")

(* Items may be open side by side; "done" tells the arguments once more.     *)
HearResponses(v, e) ==
    CASE e.type = "response.created" ->
           [Faulty(v, v.starts > 0, "twice") EXCEPT !.starts = 1]
      [] e.type = "response.output_item.added" ->
           Opened(Faulty(Faulty(Faulty(v, v.starts = 0, "early"), v.ends > 0, "late"),
                         Places(v, e.index) # {}, "reused"),
                  e.index, e.item.kind, e.item.id, e.item.name)
      [] e.type = "response.output_text.delta" ->
           Grown(Faulty(v, \A k \in OpenPlaces(v, e.index) : v.items[k].kind # "text", "stray"),
                 e.index, e.body)
      [] e.type = "response.function_call_arguments.delta" ->
           Grown(Faulty(v, \A k \in OpenPlaces(v, e.index) : v.items[k].kind # "tool_use", "stray"),
                 e.index, e.body)
      [] e.type = "response.output_item.done" ->
           LET open == OpenPlaces(v, e.index)
               told == IF \E k \in open : v.items[k].kind = "tool_use" /\ v.items[k].body = <<>>
                       THEN Grown(v, e.index, e.item.arguments) ELSE v
           IN  Shut(Faulty(told, \A k \in open :
                                      \/ v.items[k].id # e.item.id
                                      \/ /\ e.item.kind = "tool_use"
                                         /\ told.items[k].body # e.item.arguments,
                           "stray"), e.index)
      [] e.type = "response.completed" -> Ended(Reasoned(v, "completed"))
      [] e.type = "[DONE]" -> Faulty(v, v.ends = 0, "early")
      [] OTHER -> Faulty(v, TRUE, "foreign")

Hear(dialect, v, events) ==
    CASE dialect = "claude"    -> FoldLeft(HearClaude, v, events)
      [] dialect = "chat"      -> FoldLeft(HearChat, v, events)
      [] dialect = "responses" -> FoldLeft(HearResponses, v, events)

-----------------------------------------------------------------------------
(* What an answer says, however it is cut into items: its text and its calls.*)
Bodies(items, kind) ==
    FlattenSeq([k \in DOMAIN items |-> IF items[k].kind = kind THEN items[k].body ELSE <<>>])

Calls(items) ==
    LET calls == SelectSeq(items, LAMBDA b : b.kind = "tool_use")
    IN  [k \in DOMAIN calls |-> [id |-> calls[k].id, name |-> calls[k].name, body |-> calls[k].body]]

Gist(items) == [text |-> Bodies(items, "text"), calls |-> Calls(items)]
=============================================================================
