---------------------------- MODULE DuoInflight ----------------------------
(***************************************************************************)
(* The registry of GitLab Duo requests in flight (gitlabduo_dedup.go) and  *)
(* the part of handleGitLabDuoRequest that uses it.  The first caller with *)
(* a key leads: it runs the workflow, maybe twice, answers its own client  *)
(* and publishes what it got; callers that come with the same key in the   *)
(* meantime wait for that.                                                 *)
(*                                                                         *)
(* Every caller is one HTTP request, so a flight (a *duoInflight) is       *)
(* named by the caller that created it.                                    *)
(***************************************************************************)
CONSTANTS
    Callers,
    Keys,     \* computeInflightKey: endpoint, token and conversation
    None      \* no caller, no key, no result

VARIABLES
    calls,    \* duoInflightRegistry.calls: the flight of each key, or None
    result,   \* duoInflight.result of each flight, None before it is written
    done,     \* the flights whose channel is closed
    caller    \* the state of each call of handleGitLabDuoRequest

vars == <<calls, result, done, caller>>

Phases == {"new", "working", "retrying", "answering", "leaving", "closing", "waiting", "over"}

\* What publishedResult may be: "abandoned" is the error it is seeded with.
Results == {"answer", "error", "credit", "abandoned"}

ASSUME InflightAssumption == None \notin Callers \cup Keys \cup Results

CallerStates ==
    [phase     : Phases,
     key       : Keys \cup {None},
     flight    : Callers \cup {None},
     live      : BOOLEAN,               \* ctx: client there, 180 s not over
     published : Results,               \* publishedResult
     reply     : Results \cup {"canceled", "silence", None}]

\* Mutant: publishedResult starts as the zero value.
NewCallerUnseeded ==
    [phase |-> "new", key |-> None, flight |-> None, live |-> TRUE,
     published |-> None, reply |-> None]

NewCaller == [phase |-> "new", key |-> None, flight |-> None, live |-> TRUE,
              published |-> "abandoned", reply |-> None]

TypeOK ==
    /\ calls \in [Keys -> Callers \cup {None}]
    /\ result \in [Callers -> Results \cup {None}]
    /\ done \in SUBSET Callers
    /\ caller \in [Callers -> CallerStates]

Init ==
    /\ calls = [k \in Keys |-> None]
    /\ result = [c \in Callers |-> None]
    /\ done = {}
    /\ caller = [c \in Callers |-> NewCaller]

-----------------------------------------------------------------------------

\* Mutant: the lookup and the insertion are not one step.
LeadAnyway(c, k) ==
    /\ caller[c].phase = "new"
    /\ calls' = [calls EXCEPT ![k] = c]
    /\ caller' = [caller EXCEPT ![c].phase = "working", ![c].key = k, ![c].flight = c]
    /\ UNCHANGED <<result, done>>

\* acquire: the registry's mutex makes the lookup and the insertion one step.
Lead(c, k) ==
    /\ caller[c].phase = "new" /\ calls[k] = None
    /\ calls' = [calls EXCEPT ![k] = c]
    /\ caller' = [caller EXCEPT ![c].phase = "working", ![c].key = k, ![c].flight = c]
    /\ UNCHANGED <<result, done>>

Join(c, k) ==
    /\ caller[c].phase = "new" /\ calls[k] # None
    /\ caller' = [caller EXCEPT ![c].phase = "waiting", ![c].key = k, ![c].flight = calls[k]]
    /\ UNCHANGED <<calls, result, done>>

Working(c) == caller[c].phase \in {"working", "retrying"}

\* Mutant: the entry goes as soon as there is an answer.
WorkSucceedsForgets(c) ==
    /\ Working(c)
    /\ caller' = [caller EXCEPT ![c].phase = "answering", ![c].published = "answer"]
    /\ calls' = [calls EXCEPT ![caller[c].key] = None]
    /\ UNCHANGED <<result, done>>

\* runDuoWorkflow returns an answer, which is then written to the leader's
\* client, event by event ...
WorkSucceeds(c) ==
    /\ Working(c)
    /\ caller' = [caller EXCEPT ![c].phase = "answering", ![c].published = "answer"]
    /\ UNCHANGED <<calls, result, done>>

\* ... before the function returns.
AnswerWritten(c) ==
    /\ caller[c].phase = "answering"
    /\ caller' = [caller EXCEPT ![c].phase = "leaving", ![c].reply = "answer"]
    /\ UNCHANGED <<calls, result, done>>

\* One retry, for an error that looks transient while the context is live.
WorkRetried(c) ==
    /\ caller[c].phase = "working" /\ caller[c].live
    /\ caller' = [caller EXCEPT ![c].phase = "retrying"]
    /\ UNCHANGED <<calls, result, done>>

\* The client is told, except when the context is over and it is not a matter of
\* credits.
WorkFails(c) ==
    /\ Working(c)
    /\ \E error \in {"error", "credit"} :
         caller' = [caller EXCEPT
           ![c].phase = "leaving", ![c].published = error,
           ![c].reply = IF error = "error" /\ ~ caller[c].live THEN "silence" ELSE error]
    /\ UNCHANGED <<calls, result, done>>

\* A panic runs the deferred publish with whatever publishedResult is by then.
Panic(c) ==
    /\ Working(c) \/ caller[c].phase = "answering"
    /\ caller' = [caller EXCEPT ![c].phase = "leaving", ![c].reply = "silence"]
    /\ UNCHANGED <<calls, result, done>>

\* publish: the entry goes first, under the mutex; then the result is written and
\* the channel closed, without it.
Unregister(c) ==
    /\ caller[c].phase = "leaving"
    /\ calls' = [calls EXCEPT ![caller[c].key] = None]
    /\ caller' = [caller EXCEPT ![c].phase = "closing"]
    /\ UNCHANGED <<result, done>>

\* Mutant: the channel is closed before the result is written.
CloseUnwritten(c) ==
    /\ caller[c].phase = "closing"
    /\ done' = done \cup {c}
    /\ caller' = [caller EXCEPT ![c].phase = "over"]
    /\ UNCHANGED <<calls, result>>

\* Mutant: the deferred call has taken publishedResult when it was deferred.
CloseSeeded(c) ==
    /\ caller[c].phase = "closing"
    /\ result' = [result EXCEPT ![c] = "abandoned"]
    /\ done' = done \cup {c}
    /\ caller' = [caller EXCEPT ![c].phase = "over"]
    /\ UNCHANGED calls

\* Mutant: the channel is not closed.
CloseUnclosed(c) ==
    /\ caller[c].phase = "closing"
    /\ result' = [result EXCEPT ![c] = caller[c].published]
    /\ caller' = [caller EXCEPT ![c].phase = "over"]
    /\ UNCHANGED <<calls, done>>

Close(c) ==
    /\ caller[c].phase = "closing"
    /\ result' = [result EXCEPT ![c] = caller[c].published]
    /\ done' = done \cup {c}
    /\ caller' = [caller EXCEPT ![c].phase = "over"]
    /\ UNCHANGED calls

\* The two cases of the waiter's select.
Woken(c) ==
    /\ caller[c].phase = "waiting" /\ caller[c].flight \in done
    /\ caller' = [caller EXCEPT ![c].phase = "over", ![c].reply = result[caller[c].flight]]
    /\ UNCHANGED <<calls, result, done>>

GiveUpWaiting(c) ==
    /\ caller[c].phase = "waiting" /\ ~ caller[c].live
    /\ caller' = [caller EXCEPT ![c].phase = "over", ![c].reply = "canceled"]
    /\ UNCHANGED <<calls, result, done>>

\* The client hangs up, or the 180 seconds are over.
Expire(c) ==
    /\ caller[c].live /\ caller[c].phase \notin {"new", "over"}
    /\ caller' = [caller EXCEPT ![c].live = FALSE]
    /\ UNCHANGED <<calls, result, done>>

Proceed(c) ==
    \/ WorkSucceeds(c) \/ AnswerWritten(c) \/ WorkRetried(c) \/ WorkFails(c) \/ Panic(c)
    \/ Unregister(c) \/ Close(c) \/ Woken(c) \/ GiveUpWaiting(c)

Next == \E c \in Callers : (\E k \in Keys : Lead(c, k) \/ Join(c, k)) \/ Proceed(c) \/ Expire(c)

Spec == Init /\ [][Next]_vars

\* Calls to GitLab end under the context's 180 s; local steps just happen.
FairSpec == Spec /\ \A c \in Callers : WF_vars(Proceed(c))

-----------------------------------------------------------------------------
(* Properties.                                                               *)

Leading(c) == caller[c].phase \in {"working", "retrying", "answering", "leaving"}

(* The entry of a key is the flight of a leader that has yet to publish, and *)
(* every such leader has its entry: nobody deletes or replaces another's.    *)
RegistryExact ==
    /\ \A k \in Keys : calls[k] # None => Leading(calls[k]) /\ caller[calls[k]].key = k
    /\ \A c \in Callers : Leading(c) => calls[caller[c].key] = c

(* Identical requests never run two workflows at a time: one credit is spent *)
(* where two were asked for.                                                 *)
OneWorkflowPerKey ==
    \A c, d \in Callers :
        (Working(c) /\ Working(d) /\ caller[c].key = caller[d].key) => c = d

(* A channel is closed once, by its leader, with the result written before:  *)
(* no waiter reads the zero result, which would be an empty answer.          *)
WokenWithResult ==
    \A c \in Callers :
        /\ c \in done => result[c] # None /\ result[c] = caller[c].published
        /\ (caller[c].phase = "closing" \/ Leading(c)) => c \notin done

(* Every caller that waits is released, whatever becomes of the leader.      *)
WaitersReleased ==
    \A c \in Callers : caller[c].phase = "waiting" ~> caller[c].phase = "over"

(* The registry implements SingleFlight: a flight lands when its entry goes. *)
Landed(c) == caller[c].flight = c /\ caller[c].phase \in {"closing", "over"}

Verdict(c) == IF Landed(c) THEN caller[c].published ELSE None

Got(c) == IF caller[c].flight = None \/ caller[c].phase # "over" THEN None
          ELSE IF caller[c].flight = c THEN caller[c].published
          ELSE IF caller[c].reply = "canceled" THEN "left"
          ELSE caller[c].reply

Promise == INSTANCE SingleFlight WITH
    Verdicts <- Results, open <- calls,
    aboard <- [c \in Callers |-> caller[c].flight],
    verdict <- [c \in Callers |-> Verdict(c)],
    got <- [c \in Callers |-> Got(c)]

ImplementsSingleFlight == Promise!Spec
=============================================================================
