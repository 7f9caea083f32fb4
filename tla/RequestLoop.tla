---------------------------- MODULE RequestLoop ----------------------------
(***************************************************************************)
(* handleProxyRequest: a client request walks the enabled endpoints and    *)
(* the tokens of their pools until one answers or its attempts are used    *)
(* up, while other requests do the same, clients hang up and the           *)
(* administrator switches endpoints, clears cooldowns and adds tokens.     *)
(*                                                                         *)
(* The enabled endpoints are 1..N in their configured order and do not     *)
(* change.  No token has a refresh token here: renewals are TokenPool's    *)
(* part.  Endpoints of the GitLab Duo kind hand over to the flight         *)
(* registry (DuoInflight) and are left out.                                *)
(***************************************************************************)
EXTENDS CredentialStore, FiniteSets

CONSTANTS
    N,               \* the number of enabled endpoints
    KeyEndpoints,    \* the endpoints that use an API key; the others have a pool
    Pool,            \* the tokens of each endpoint
    Requests,
    Answers,         \* what may become of an attempt, see AnswerKinds
    UsageCooldowns,  \* how far ahead a usage-limit answer may put its reset
    Disturbances,    \* what else may happen, see DisturbanceKinds
    InitialRows,     \* the rows a stored token may start with
    NoToken

Endpoints == 1..N
NoEndpoint == 0

AnswerKinds == {"unprepared", "net", "transient", "stream", "body", "badbody", "usage",
                "payment", "unauthorized", "forbidden", "rate", "server", "bad"}
DisturbanceKinds == {"hangup", "switch", "clear", "add", "pin", "time"}

ASSUME LoopAssumption ==
    /\ N \in Nat \ {0}
    /\ KeyEndpoints \subseteq Endpoints
    /\ Pool \in [Endpoints -> SUBSET Tokens]
    /\ \A e \in KeyEndpoints : Pool[e] = {}
    /\ \A e, f \in Endpoints : e # f => Pool[e] \cap Pool[f] = {}
    /\ IsFiniteSet(Requests) /\ IsFiniteSet(Tokens)
    /\ Holders = {}
    /\ Answers \subseteq AnswerKinds
    /\ Disturbances \subseteq DisturbanceKinds
    /\ UsageCooldowns \subseteq 1..Horizon
    /\ InitialRows \subseteq Rows
    /\ \A row \in InitialRows : ~ row.refresh
    /\ NoToken \notin Tokens

VARIABLES
    current,    \* Proxy.currentIndex, as the endpoint it points at
    cooldown,   \* endpointRuntimeState.cooldownUntil: ticks left, 0 for none
    errored,    \* the endpoints with endpointRuntimeState.hasError
    active,     \* Proxy.activeRequests
    clearing,   \* handleClearCooldowns is between its two calls
    request     \* the state of handleProxyRequest for each request

proxyVars == <<current, cooldown, errored, active, clearing>>
vars == <<storeVars, proxyVars, request>>

\* The phases of an attempt: "auth" is choosing the token, "dry" is having found
\* none, "ready" is having one, "out" is waiting for the provider and reading its
\* answer, "stream" is passing on a 200.  On the way there: "loop" is the head of
\* the loop, "picking" is having found the client still there, "entering" is
\* having chosen the endpoint.
AttemptPhases == {"auth", "dry", "ready", "out", "stream"}
Phases == AttemptPhases \cup {"new", "loop", "picking", "entering", "rotating", "done"}
Outcomes == {"none", "served", "passed", "replayed", "exhausted", "unavailable", "gone"}
TurnedAway == {"replayed", "exhausted", "unavailable"}

RequestStates ==
    [phase    : Phases,
     here     : BOOLEAN,                     \* the client has not hung up
     pin      : Endpoints \cup {NoEndpoint}, \* specifiedEndpoint
     endpoint : Endpoints \cup {NoEndpoint}, \* of this attempt or the last one
     token    : Tokens \cup {NoToken},
     cut      : BOOLEAN,      \* the context of the attempt has been cancelled
     budget   : Int,          \* maxRetries
     tries    : Nat,          \* retry
     inARow   : Nat,          \* endpointAttempts
     replay   : {"none", "last", "stale"},   \* the remembered upstream error
     outcome  : Outcomes,
     owed     : SUBSET (Endpoints \X (Tokens \cup {NoToken})),  \* usable at the start
     tried    : SUBSET (Endpoints \X (Tokens \cup {NoToken})),  \* called since
     vain     : SUBSET (Endpoints \cup {NoEndpoint})]  \* attempts begun in vain, see Vain

NewRequest ==
    [phase |-> "new", here |-> TRUE, pin |-> NoEndpoint, endpoint |-> NoEndpoint,
     token |-> NoToken, cut |-> FALSE, budget |-> 0, tries |-> 0, inARow |-> 0,
     replay |-> "none", outcome |-> "none", owed |-> {}, tried |-> {}, vain |-> {}]

TypeOK ==
    /\ StoreTypeOK
    /\ current \in Endpoints
    /\ cooldown \in [Endpoints -> Times]
    /\ errored \in SUBSET Endpoints
    /\ active \in [Endpoints -> Nat]
    /\ clearing \in BOOLEAN
    /\ request \in [Requests -> RequestStates]

\* The process has just started over a database with any rows: the table is
\* kept across restarts, the endpoint states are not.
Init ==
    /\ life \in [Tokens -> {"stored", "absent"}]
    /\ rows \in [Tokens -> InitialRows \cup {FreshRow}]
    /\ \A t \in Tokens : IF Stored(t) THEN rows[t] \in InitialRows ELSE rows[t] = FreshRow
    /\ "add" \notin Disturbances => life = [t \in Tokens |-> "stored"]
    /\ older = {}
    /\ copies = {}
    /\ current = 1
    /\ cooldown = [e \in Endpoints |-> 0]
    /\ errored = {}
    /\ active = [e \in Endpoints |-> 0]
    /\ clearing = FALSE
    /\ request = [r \in Requests |-> NewRequest]

-----------------------------------------------------------------------------
(* The loop around the attempts.                                             *)

\* Two attempts for every endpoint, and one for every usable token of a pool
\* after the first.
UsableTokens == {p \in Endpoints \X Tokens : p[2] \in Usable(Pool[p[1]])}
UsablePools == {e \in Endpoints : Usable(Pool[e]) # {}}

\* Mutant: two attempts per endpoint, however many tokens it has.
TwoPerEndpoint == 2 * N

computeMaxRetries == 2 * N + (Cardinality(UsableTokens) - Cardinality(UsablePools))

Owed(pin) ==
    {p \in Endpoints \X (Tokens \cup {NoToken}) :
        /\ pin \in {NoEndpoint, p[1]}
        /\ cooldown[p[1]] = 0
        /\ IF p[1] \in KeyEndpoints THEN p[2] = NoToken ELSE p[2] \in Usable(Pool[p[1]])}

Begin(r) ==
    /\ request[r].phase = "new"
    /\ \E pin \in Endpoints \cup {NoEndpoint} :
        /\ pin # NoEndpoint => "pin" \in Disturbances
        /\ request' = [request EXCEPT ![r].phase = "loop", ![r].pin = pin,
                                      ![r].budget = computeMaxRetries,
                                      ![r].owed = Owed(pin)]
    /\ UNCHANGED <<storeVars, proxyVars>>

InLoop(r) == request[r].phase = "loop"
Spent(r) == request[r].tries >= request[r].budget

End(r, outcome) ==
    request' = [request EXCEPT ![r].phase = "done", ![r].outcome = outcome,
                               ![r].token = NoToken, ![r].cut = FALSE]

\* writeExhaustedResponse, and the like when no endpoint is to be had.
TurnAway(r, otherwise) ==
    /\ End(r, IF request[r].replay = "none" THEN otherwise ELSE "replayed")
    /\ UNCHANGED <<storeVars, proxyVars>>

Exhaust(r) == InLoop(r) /\ Spent(r) /\ TurnAway(r, "exhausted")

Abandon(r) ==
    /\ InLoop(r) /\ ~ Spent(r) /\ ~ request[r].here
    /\ End(r, "gone")
    /\ UNCHANGED <<storeVars, proxyVars>>

\* nextEndpointForRequest: the pinned endpoint, or the first from current on
\* that is not cooling.
Open == {e \in Endpoints : cooldown[e] = 0}
Distance(e) == (e - current + N) % N

Candidates(r) ==
    IF request[r].pin # NoEndpoint THEN {request[r].pin} \cap Open
    ELSE {e \in Open : \A f \in Open : Distance(e) <= Distance(f)}

\* Mutant: nobody looks whether the client is still there.
CheckClientNever(r) ==
    /\ InLoop(r) /\ ~ Spent(r)
    /\ request' = [request EXCEPT ![r].phase = "picking"]
    /\ UNCHANGED <<storeVars, proxyVars>>

\* An attempt begins in three steps that nothing holds together, so that clients
\* hang up and endpoints are cooled or switched in between: the client is looked
\* for, ...
CheckClient(r) ==
    /\ InLoop(r) /\ ~ Spent(r) /\ request[r].here
    /\ request' = [request EXCEPT ![r].phase = "picking"]
    /\ UNCHANGED <<storeVars, proxyVars>>

\* ... an endpoint is chosen (one step: the walk over the endpoints holds p.mu,
\* and each cooldown is looked at once), ...
NoEndpointLeft(r) ==
    /\ request[r].phase = "picking" /\ Candidates(r) = {}
    /\ TurnAway(r, "unavailable")

ChooseEndpoint(r) ==
    /\ request[r].phase = "picking"
    /\ \E e \in Candidates(r) :
        /\ current' = IF request[r].pin = NoEndpoint THEN e ELSE current
        /\ request' = [request EXCEPT
             ![r].phase = "entering", ![r].endpoint = e,
             ![r].inARow = IF request[r].endpoint \in {e, NoEndpoint} THEN @ + 1 ELSE 1]
    /\ UNCHANGED <<storeVars, cooldown, errored, active, clearing>>

\* What an attempt that begins now is wasted on: an endpoint that rests, or a
\* client that is gone (NoEndpoint).
Vain(r) == ({request[r].endpoint} \ Open) \cup (IF request[r].here THEN {} ELSE {NoEndpoint})

\* ... and markRequestActive begins the attempt.  That it was in vain is kept in
\* mind until the endpoint is open again.
StartAttempt(r) ==
    /\ request[r].phase = "entering"
    /\ active' = [active EXCEPT ![request[r].endpoint] = @ + 1]
    /\ request' = [request EXCEPT ![r].phase = "auth", ![r].vain = @ \cup Vain(r)]
    /\ UNCHANGED <<storeVars, current, cooldown, errored, clearing>>

OpenAgain == request' = [r \in Requests |-> [request[r] EXCEPT !.vain = @ \ Open']]

\* markRequestInactive.
Leave(e) == active' = [active EXCEPT ![e] = IF @ > 0 THEN @ - 1 ELSE 0]

AfterAttempt(r) ==
    [request[r] EXCEPT !.token = NoToken, !.cut = FALSE, !.tries = @ + 1]

\* Only 402s are remembered; another error answer makes the memory stale.
Kept(r) == request[r].replay
Outdated(r) == IF request[r].replay = "none" THEN "none" ELSE "stale"

\* Mutant: a way out of the attempt that does not leave the endpoint.
RetrySameUnmarked(r, remembered) ==
    /\ UNCHANGED active
    /\ request' = [request EXCEPT ![r] =
         [AfterAttempt(r) EXCEPT !.phase = "loop", !.inARow = 0, !.replay = remembered]]

\* Mutant: an attempt on the same endpoint is not counted.
RetrySameFree(r, remembered) ==
    /\ Leave(request[r].endpoint)
    /\ request' = [request EXCEPT ![r] =
         [AfterAttempt(r) EXCEPT !.phase = "loop", !.inARow = 0, !.replay = remembered,
                                 !.tries = request[r].tries]]

\* attemptResultRetrySameEndpoint; remembered is what becomes of replay.
RetrySame(r, remembered) ==
    /\ Leave(request[r].endpoint)
    /\ request' = [request EXCEPT ![r] =
         [AfterAttempt(r) EXCEPT !.phase = "loop", !.inARow = 0, !.replay = remembered]]

\* attemptResultRetryNextEndpoint: the second failure in a row moves on.
RetryNext(r, remembered) ==
    /\ Leave(request[r].endpoint)
    /\ request' = [request EXCEPT ![r] =
         [AfterAttempt(r) EXCEPT
            !.phase = IF request[r].inARow >= 2 /\ request[r].pin = NoEndpoint
                      THEN "rotating" ELSE "loop",
            !.replay = remembered]]

\* Mutant: the index does not wrap.
RotatePastEnd(r) ==
    /\ request[r].phase = "rotating"
    /\ current' = current + 1
    /\ request' = [request EXCEPT ![r].phase = "loop", ![r].inARow = 0]
    /\ UNCHANGED <<storeVars, cooldown, errored, active, clearing>>

\* rotateEndpoint, after its wait of at most 500 ms: it moves on from wherever
\* current points by then.
Rotate(r) ==
    /\ request[r].phase = "rotating"
    /\ current' = (current % N) + 1
    /\ request' = [request EXCEPT ![r].phase = "loop", ![r].inARow = 0]
    /\ UNCHANGED <<storeVars, cooldown, errored, active, clearing>>

-----------------------------------------------------------------------------
(* Preparing an attempt.                                                     *)

\* resolveAttemptAuth.
UseKey(r) ==
    /\ request[r].phase = "auth"
    /\ request[r].endpoint \in KeyEndpoints
    /\ request' = [request EXCEPT ![r].phase = "ready"]
    /\ UNCHANGED <<storeVars, proxyVars>>

ClaimToken(r) ==
    /\ request[r].phase = "auth"
    /\ \E t \in Pool[request[r].endpoint] :
        /\ Claim(Pool[request[r].endpoint], t, {})
        /\ request' = [request EXCEPT ![r].phase = "ready", ![r].token = t]
    /\ UNCHANGED proxyVars

FindPoolDry(r) ==
    /\ request[r].phase = "auth"
    /\ request[r].endpoint \notin KeyEndpoints
    /\ Usable(Pool[request[r].endpoint]) = {}
    /\ request' = [request EXCEPT ![r].phase = "dry"]
    /\ UNCHANGED <<storeVars, proxyVars>>

\* ... and, a moment later, the endpoint rests until the first token is back.
CoolEndpoint(r) ==
    /\ request[r].phase = "dry"
    /\ \E until \in EarliestTokenCooldown(Pool[request[r].endpoint]) :
         cooldown' = IF until = 0 THEN cooldown
                     ELSE [cooldown EXCEPT ![request[r].endpoint] = until]
    /\ RetryNext(r, Kept(r))
    /\ UNCHANGED <<storeVars, current, errored, clearing>>

\* The rest of prepareEndpointAttempt may fail before anything is sent.
PrepareFails(r) ==
    /\ request[r].phase \in {"auth", "ready"} /\ "unprepared" \in Answers
    /\ RetryNext(r, Kept(r))
    /\ UNCHANGED <<storeVars, current, cooldown, errored, clearing>>

Send(r) ==
    /\ request[r].phase = "ready"
    /\ request' = [request EXCEPT
         ![r].phase = "out",
         ![r].tried = @ \cup {<<request[r].endpoint, request[r].token>>}]
    /\ UNCHANGED <<storeVars, proxyVars>>

-----------------------------------------------------------------------------
(* What comes of an attempt.                                                 *)

Answer(r, kind) == kind \in Answers /\ request[r].phase = "out"

Blame(r, code) ==
    IF request[r].token = NoToken THEN UNCHANGED storeVars
    ELSE MarkFailure(request[r].token, code, {})

Credit(r) ==
    /\ IF request[r].token = NoToken THEN UNCHANGED storeVars
       ELSE MarkSuccess(request[r].token, {})
    /\ errored' = errored \ {request[r].endpoint}
    /\ Leave(request[r].endpoint)
    /\ End(r, "served")
    /\ UNCHANGED <<current, cooldown, clearing>>

FailOver(r, code, remembered) ==
    /\ Blame(r, code)
    /\ errored' = errored \cup {request[r].endpoint}
    /\ RetryNext(r, remembered)
    /\ UNCHANGED <<current, cooldown, clearing>>

\* handleSendError.  A client that hung up is nobody's fault.
SendAbandoned(r) ==
    /\ request[r].phase = "out" /\ ~ request[r].here
    /\ RetryNext(r, Kept(r))
    /\ UNCHANGED <<storeVars, current, cooldown, errored, clearing>>

SendTransient(r) ==
    /\ Answer(r, "transient") /\ request[r].here
    /\ RetrySame(r, Kept(r))
    /\ UNCHANGED <<storeVars, current, cooldown, errored, clearing>>

SendFails(r) ==
    /\ request[r].phase = "out" /\ request[r].here
    /\ "net" \in Answers \/ request[r].cut
    /\ FailOver(r, 0, Kept(r))

\* A 200 that is streamed is the client's from its first byte, whether or not it
\* is cut short afterwards.
StreamOpens(r) ==
    /\ Answer(r, "stream")
    /\ request' = [request EXCEPT ![r].phase = "stream"]
    /\ UNCHANGED <<storeVars, proxyVars>>

StreamEnds(r) == request[r].phase = "stream" /\ Credit(r)

BodyServed(r) == Answer(r, "body") /\ ~ request[r].cut /\ Credit(r)

\* The 200's body cannot be read or transformed; reading it fails, too, when the
\* client has hung up or the attempt was cancelled.  An aggregated codex stream
\* does not flag the endpoint.
BodyFails(r) ==
    /\ request[r].phase = "out"
    /\ \/ "badbody" \in Answers
       \/ {"body", "stream"} \cap Answers # {} /\ (request[r].cut \/ ~ request[r].here)
    /\ Blame(r, 0)
    /\ errored' \in {errored, errored \cup {request[r].endpoint}}
    /\ RetryNext(r, Kept(r))
    /\ UNCHANGED <<current, cooldown, clearing>>

\* handlePaymentRequired.
UsageLimited(r) ==
    /\ Answer(r, "usage")
    /\ errored' = errored \cup {request[r].endpoint}
    /\ \E d \in UsageCooldowns :
        IF request[r].token # NoToken
        THEN /\ MarkUsageLimit(request[r].token, d, {})
             /\ RetrySame(r, "last")
             /\ UNCHANGED cooldown
        ELSE /\ cooldown' = [cooldown EXCEPT ![request[r].endpoint] = d]
             /\ RetryNext(r, "last")
             /\ UNCHANGED storeVars
    /\ UNCHANGED <<current, clearing>>

PaymentRequired(r) ==
    /\ Answer(r, "payment")
    /\ Blame(r, 402)
    /\ errored' = errored \cup {request[r].endpoint}
    /\ RetryNext(r, "last")
    /\ UNCHANGED <<current, cooldown, clearing>>

\* handleRetryableStatus: 403, 429, and 500 for all the others.
RetryableStatus(r) ==
    \/ Answer(r, "forbidden") /\ FailOver(r, 403, Outdated(r))
    \/ Answer(r, "rate") /\ FailOver(r, 429, Outdated(r))
    \/ Answer(r, "server") /\ FailOver(r, 500, Outdated(r))

\* handleFinalStatus: a 401 is the token's fault if there is one, ...
Unauthorized(r) ==
    /\ Answer(r, "unauthorized") /\ request[r].token # NoToken
    /\ Blame(r, 401)
    /\ RetrySame(r, Outdated(r))
    /\ UNCHANGED <<current, cooldown, errored, clearing>>

\* ... and otherwise the client gets the answer as it is, as with a 400.
PassOn(r) ==
    /\ \/ Answer(r, "bad") /\ Blame(r, 400)
       \/ Answer(r, "unauthorized") /\ request[r].token = NoToken /\ UNCHANGED storeVars
    /\ Leave(request[r].endpoint)
    /\ End(r, "passed")
    /\ UNCHANGED <<current, cooldown, errored, clearing>>

-----------------------------------------------------------------------------
(* Everybody else.                                                           *)

HangUp(r) ==
    /\ "hangup" \in Disturbances
    /\ request[r].here /\ request[r].phase \notin {"new", "done"}
    /\ request' = [request EXCEPT ![r].here = FALSE]
    /\ UNCHANGED <<storeVars, proxyVars>>

\* SetCurrentEndpoint cancels every attempt under way on the endpoint it leaves.
Switch(e) ==
    /\ "switch" \in Disturbances /\ e # current
    /\ request' = [r \in Requests |->
         IF request[r].endpoint = current /\ request[r].phase \in {"out", "stream"}
         THEN [request[r] EXCEPT !.cut = TRUE] ELSE request[r]]
    /\ current' = e
    /\ UNCHANGED <<storeVars, cooldown, errored, active, clearing>>

\* handleClearCooldowns: the endpoints first, the tokens in a second call.
ClearEndpoints ==
    /\ "clear" \in Disturbances /\ ~ clearing
    /\ clearing' = TRUE
    /\ cooldown' = [e \in Endpoints |-> 0]
    /\ errored' = {}
    /\ OpenAgain
    /\ UNCHANGED <<storeVars, current, active>>

ClearTokens ==
    /\ clearing
    /\ clearing' = FALSE
    /\ ClearAllTokenCooldowns
    /\ UNCHANGED <<current, cooldown, errored, active, request>>

AddToken(t) ==
    /\ "add" \in Disturbances
    /\ Insert(t, FreshRow)
    /\ UNCHANGED <<proxyVars, request>>

\* Without "time" every cooldown outlasts the requests.
Tick ==
    /\ "time" \in Disturbances
    /\ Age
    /\ cooldown' = [e \in Endpoints |-> Later(cooldown[e])]
    /\ OpenAgain
    /\ UNCHANGED <<current, errored, active, clearing>>

Loop(r) ==
    \/ Exhaust(r) \/ Abandon(r) \/ CheckClient(r)
    \/ NoEndpointLeft(r) \/ ChooseEndpoint(r) \/ StartAttempt(r)
    \/ Rotate(r)

Prepare(r) ==
    UseKey(r) \/ ClaimToken(r) \/ FindPoolDry(r) \/ CoolEndpoint(r) \/ PrepareFails(r) \/ Send(r)

Conclude(r) ==
    \/ SendAbandoned(r) \/ SendTransient(r) \/ SendFails(r)
    \/ StreamOpens(r) \/ StreamEnds(r) \/ BodyServed(r) \/ BodyFails(r)
    \/ UsageLimited(r) \/ PaymentRequired(r) \/ RetryableStatus(r)
    \/ Unauthorized(r) \/ PassOn(r)

Serve(r) == Loop(r) \/ Prepare(r) \/ Conclude(r)

Disturb ==
    \/ \E r \in Requests : HangUp(r)
    \/ \E e \in Endpoints : Switch(e)
    \/ \E t \in Tokens : AddToken(t)
    \/ ClearEndpoints \/ ClearTokens

Next == (\E r \in Requests : Begin(r) \/ Serve(r)) \/ Disturb \/ Tick

Spec == Init /\ [][Next]_vars

\* The context of the attempt is cancelled: the client hung up, or a switch left
\* the endpoint.
Released(r) == ~ request[r].here \/ request[r].cut

\* What the proxy does by itself: its own steps, and giving up a call whose context
\* is cancelled.  An answer that is waited for need not come or end: the client
\* of the provider's calls has no overall timeout (ResponseHeaderTimeout bounds
\* the wait for the headers only), so nothing is assumed of it.
Proceed(r) == Loop(r) \/ Prepare(r) \/ (Released(r) /\ Conclude(r))

FairSpec == Spec /\ \A r \in Requests : WF_vars(Proceed(r))

-----------------------------------------------------------------------------
(* Properties.                                                               *)

InAttempt(r) == request[r].phase \in AttemptPhases

(* activeRequests counts exactly the attempts under way: every way out of    *)
(* an attempt leaves the endpoint once, so rotateEndpoint never waits for    *)
(* an attempt that is over, nor overlooks one that is not.                   *)
ActiveExact ==
    \A e \in Endpoints :
        active[e] = Cardinality({r \in Requests : InAttempt(r) /\ request[r].endpoint = e})

(* The retry budget is big enough to walk every usable token: a request is   *)
(* turned away only when every endpoint and token it could have used when    *)
(* it began has been tried (computeMaxRetries and its test).                 *)
TurnedAwayAfterAll ==
    \A r \in Requests :
        request[r].outcome \in TurnedAway => request[r].owed \subseteq request[r].tried

(* The look at the client and the choice of an endpoint are old by the time  *)
(* the attempt begins: the client may have hung up since, and another        *)
(* request, or the pool, may have put the endpoint to rest.  What that may   *)
(* waste is one attempt: no request begins a second one for a client that is *)
(* gone, nor on an endpoint that has rested ever since its first, be it      *)
(* pinned, current, or cooled by somebody else (clientGone and               *)
(* endpointInCooldown are asked anew for each attempt).                      *)
NoSecondWaste ==
    [][\A r \in Requests :
           (~ InAttempt(r) /\ InAttempt(r)') => Vain(r) \cap request[r].vain = {}]_vars

AwaitsAnswer(r) == request[r].phase \in {"out", "stream"} /\ ~ Released(r)

(* Every request ends, however its attempts go and whatever the others do:   *)
(* the budget bounds the retries on the same endpoint, too, and a hang-up or *)
(* a switch ends a call.  The one thing that may hold it for ever is a single *)
(* answer that does not come to an end while its client waits for it.        *)
RequestEnds ==
    \A r \in Requests :
        request[r].phase = "loop" ~> (request[r].phase = "done" \/ []AwaitsAnswer(r))

-----------------------------------------------------------------------------
(* What the documents say and the code does not keep.                        *)

(* proxy_request.go:158-160: the replayed error is the most recent one.      *)
ReplayIsLatest ==
    \A r \in Requests :
        request[r].outcome = "replayed" => request[r].replay = "last"

(* streaming.go:88-92: a 200 that is being streamed is finished, even if a   *)
(* manual switch happens.                                                    *)
StreamNeverCut == \A r \in Requests : request[r].phase = "stream" => ~ request[r].cut

(* proxy_request.go:587-590: a client that hangs up puts neither a healthy   *)
(* endpoint into the error state nor its token into failure.                 *)
HangUpBlamesNobody ==
    [][\A r \in Requests :
           (~ request[r].here /\ ~ request[r].cut /\ BodyFails(r)) =>
               UNCHANGED <<rows, errored>>]_vars

(* proxy_request.go:522-526: a pool's endpoint rests because every token of  *)
(* it is disabled, invalid, expired or in cooldown.                          *)
RestingPoolIsDry ==
    \A e \in Endpoints \ KeyEndpoints : cooldown[e] > 0 => Usable(Pool[e]) = {}
=============================================================================
