# Osante AI Proxy: models and proofs

The proxy takes requests in the Claude, OpenAI chat and OpenAI responses dialects and passes each on to one of several
configured endpoints. An endpoint has an API key, or a *pool* of tokens (accounts) kept in SQLite. What makes the program
hard is neither HTTP nor JSON. It is that many requests share tokens, a rotation index, cooldowns and flights while
answers arrive late, clients hang up and an administrator edits the same rows; and that a conversation and a streamed
answer must keep their sense between five dialects, in any order and cut anywhere. That is what is modelled here.

Everything is plain TLA+, checked with TLC; the theorems are checked with TLAPS. All source paths are below `src/`.

## The system's parts

| Part (code) | State | Operations | Hard behaviour | Correct when |
|---|---|---|---|---|
| Credential rows (`internal/storage/credentials.go`) | status, enabled, failure_count, cooldown_until, expires_at, last_used_at of each token | select and claim, mark failure / usage limit / success, save, update, delete, clear | the status is both stored and derived; each call is atomic, sequences of calls are not | a token is used when it may be, rests when it must, is not starved and does not come back when deleted |
| Token pool at work (`internal/proxy/codex_credentials.go`, `webui/api/credentials.go`) | the row a request or an edit holds in hand | claim, call, renew, write back; patch, import, delete | a row read before a network call is written back after it | no late write undoes another's |
| Request loop (`internal/proxy/proxy_request.go`, `proxy.go`, `usage_limit.go`) | currentIndex, activeRequests, cooldownUntil, hasError; per request the attempt, the retry budget, the remembered error | next endpoint, attempt, the twelve outcomes of an attempt, rotate, switch, clear | the index is shared; rotation waits; a switch cancels; a client hangs up at any time | a request ends, and is turned away only after everything it could use was tried |
| Duo deduplication (`internal/proxy/gitlabduo_dedup.go`, `gitlabduo_handler.go`) | flights in progress, their results and channels | acquire, run, publish, wait | cancelled or panicking leaders, waiters that give up | one workflow per key; every waiter is released, with the flight's result |
| Duo workflow client (`gitlabduo_handler.go`, `gitlabduo_checkpoint.go`) | how far a leader's workflow is, the answer so far | create, get access, dial, start, read checkpoints, retry once | refusals and losses at each step; checkpoints repeat the whole log, half-written | a credit is spent twice only in need; the answer is the workflow's last word |
| Endpoint administration (`webui/api/endpoints.go`, `internal/config`) | endpoints in memory, in the database and in the running proxy | add, edit, rename, toggle, reorder, reload | reloads may overtake each other | what runs is what was saved last |
| Models cache (`internal/proxy/models.go`) | cached list and its expiry | get, fetch, set, clear | a fetch that outlives a clear | no list from before a clear is served after it |
| Codex renewals (`codex_credentials.go`) | the refresh token in the row and in every copy of the row | ask for a renewal, store its answer | a refresh token is good for one renewal; answers are lost, or stored out of order | a row can be renewed again |
| Codex rate limits (`codex_rate_limits.go`, `storage/rate_limits.go`) | last snapshot per token | save what an answer's headers or an event of its stream say | parallel answers | what is shown is what was heard last |
| Stream relay (`streaming.go`, `response.go`) | the converter's context, the count of tokens, whether there was text | one event in, several out; an estimate at the end | the estimate races the report; either end may go | the client's stream is whole or visibly not; what was reported is counted |
| Stream converters (`internal/transformer/convert`, `*StreamTo*`) | the blocks that are open, calls and arguments held back, a tag cut in two | one event each | parts open, interleave and never close | every block is opened and closed once, in order, and says what the whole answer would |
| Request converters (`*ReqTo*`, `minai.go`, `payload.go`) | none, but a conversation comes back with every request | one request each | turns that went through other dialects; failover in the middle | the upstream reads what was said, in order, and takes it |
| Statistics, trace ring, logger | counters, bounded buffers | record, read, clear | concurrent readers, overflow | totals agree, the newest entries are kept |
| Schema and start-up | tables | migrate | a stop in the middle | a migration can be run again |

Parts call each other directly: the web API and the request loop share the storage (whose methods are atomic under
`SQLiteStorage.mu`) and the `Proxy` object (whose fields are under mutexes of their own). There are no messages; the
interleaving is that of goroutines between two such calls.

## Modules

| Module | What it models |
|---|---|
| `CredentialRow` | one row and the pure rules about it: `DeriveStatus`, what each UPDATE leaves behind, what an edit or import may write |
| `CredentialStore` | the table: `Claim` (selection with its ORDER BY, and the stamp), the marks, write-backs, insert, delete, clear. No actions: the modules that extend it own them |
| `TokenPool` | one endpoint's pool: requests that claim, call, renew and mark, and the administrator's two-step edits between them |
| `CodexRenewal` | the pool's renewals with the refresh tokens themselves: who has which, and which the provider takes; implements `TokenPool` |
| `RequestLoop` | `handleProxyRequest` over several endpoints, with rotation, cooldowns, hang-ups, manual switches and clearing |
| `AdminConfig` | the web API's handlers that edit endpoints and settings, call by call, over the three copies of the endpoint list: the table, the API's configuration, the proxy's |
| `SingleFlight` | what the deduplication promises, abstractly |
| `DuoInflight` | the registry and the part of `handleGitLabDuoRequest` around it; implements `SingleFlight` |
| `DuoWorkflow` | what a leader of `DuoInflight` does while it is "working": `runDuoWorkflow`, and what GitLab does meanwhile; its steps are those of `DuoInflight` with more conjoined |
| `DuoPool` | the pool composed with `DuoWorkflow`: a caller claims a token first, and the token is part of its key |
| `StreamEvents` | the events of the four streaming dialects, and the context a converter keeps between two |
| `ToClaude`, `ToOpenAI` | the stream converters, by what they make: pure operators from context and event to context and events |
| `ClientView` | what a client makes of a stream in its dialect, and everything that is wrong with it as one |
| `WholeAnswers` | the same answer for a client that does not stream (`*RespTo*`): the reference definition for the streams |
| `OneMinAI` | 1min.AI's answer, and the stream the proxy makes of it |
| `StreamRelay` | `handleStreamingResponse` between an upstream that answers in any way its dialect allows and a client that listens |
| `Filters` | the elements of a sequence that pass a test, defined so that the provers can reason about it |
| `Prompts`, `Requests` | the request converters: to a single text (1min.AI, Duo), and between dialects |
| `Conversations` | a client's conversation, each turn of which may go to another endpoint, over `Requests` and `WholeAnswers` |
| `CredentialStore_proofs`, `Tokens_proofs`, `RequestLoop_proofs`, `Duo_proofs`, `AdminConfig_proofs`, `FoldFacts`, `StreamRelay_proofs`, `Conversations_proofs` | theorems |
| `MC*` | instances for TLC |

**Time.** A time column holds the ticks left until it is reached, so that the state space is finite; `LaterRow` counts
down. **Order.** `last_used_at` matters only through `ORDER BY`, so `CredentialStore` keeps an order instead of
timestamps: `<<a, b>> \in older` says that a's time is before b's. Equal times are nodes neither of which is older, and
the database may then return either first. Past cooldowns are one
value, though the selection takes the earliest of them first: so either may come first in the model, which thereby allows every
order of the code's, and no property claims one. A copy of a row in a caller's hands is a node, too, since it may be written
back. **Texts** are left out: a token is a model value, an answer of the provider is one of a few kinds.

**Refresh tokens** of a token are numbered in the order in which the provider gives them out. The provider is assumed to
answer every renewal with a new one and to take the old one no more, which is the hard case: one that answers without a
refresh token keeps the old one valid, and the code keeps it, too. Between the provider's decision (`ProviderRenews`) and
`StoreRenewal` everything else may happen; a program that stops in between is an answer that is lost. A new login by import
does not end the old one. An edit that pastes a refresh token is left out: an import does the same.

**Atomicity.** One action is one call of the storage or one critical section, with the local code up to the next one.
Between `ClaimToken`, the answer and the mark other actions run; so they do between `ReadForEdit` and `PatchRow`, between
the two parts of `handleClearCooldowns` (`ClearEndpoints`, `ClearTokens`), between finding a pool dry and putting its
endpoint to rest (`FindPoolDry`, `CoolEndpoint`) and between the two parts of `publish` (`Unregister`, `Close`).

**Texts and tokens of the streams.** A text is a sequence of symbols, one of which stands for any text without a tag;
`<think>` is two symbols, since an event may end inside it. A token count is none, the upstream's, or the proxy's
estimate. The client is part of `StreamRelay`, and what it has made of the stream so far (`view`) is all that the
properties look at: items with their bodies, the reason, the ends, and `faults`, the ways in which the stream was not one
of its dialect. In `Conversations` a text is the symbols of its turn, so that order and loss can be seen; thinking has a
symbol of its own.

**Needs.** A converter need not cope with everything. What the properties of the streams rely on an upstream for, and
those of conversations a client, is listed route by route: `Needs` in `StreamRelay` keeps upstreams from doing it, and
the LET `needs` of each property in `Conversations` excuses it. `Waived` takes a need away in a run, and TLC then shows
what is lost; the need is thus the documentation of a limit of the code, and each is accounted for below.

**Mutants.** An operator whose comment begins with "Mutant" is not part of a model: it is what a plausible bug would make
of the definition below it, and `PROJECT.json` says which property that bug breaks.

## Runs

| Run | Instance | Shows |
|---|---|---|
| `pool` | 2 plain tokens, 2 requests, all answers, 2 failures, cooldowns of 1 and 2 ticks | `TypeOK`; a failure that says nothing about a token does not lift its quarantine; parallel claims spread over the tokens for which no cooldown is set; a cooldown ends; a token in good standing is used again and again |
| `renewal` | 1 codex token, 3 refresh tokens, 2 requests that call and renew, the administrator editing, importing, deleting, clearing | late marks, renewals and edits bring nothing of a deleted token back; a row that could be renewed still can, unless an answer is lost or an edit writes a used refresh token back |
| `walk` | 3 endpoints (pools of 3 and 1, a key), 1 request, answers "usage limit", 200 (streamed or whole) and a final 400, every mix of rows, pinned or not | a request is turned away only after every endpoint and token it could use |
| `solo` | a pool and a key, 1 request, every answer and disturbance | `TypeOK`; a request ends whatever happens, unless a single answer never does |
| `crowd` | a pool and a key, 2 requests, quotas that run out, hang-ups and switches | attempts are counted exactly; a request spends at most one on a client that is gone, or on an endpoint that rests |
| `config` | 2 endpoints, any request of the administrator, met by at most one that makes or deletes an endpoint; failing and rotating traffic, restarts anywhere | what is stored, held in memory and run ends up the same; pools stay with their endpoints; saving a setting changes no endpoint; a reload leaves the traffic where it is; a reordering ends in the order asked for |
| `flights` | 3 callers, 2 keys, cancellation and panic anywhere | the registry is exact, runs one workflow per key, writes the result before it wakes, implements `SingleFlight`, releases every waiter |
| `workflow` | 2 callers with the same conversation, 1 token, refusals 403 and 429, logs of 2 entries | a second credit only in need; the last word is handed out; a token without credits leaves the pool |
| `streams` | each of 15 routes, answers of 3 parts, 2 calls, texts with tags, cut into events anywhere | the client's stream is one of its dialect, says what the whole answer says, ends with the right reason or visibly not at all, and counts what was reported |
| `conversations` | 3 kinds of clients, 6 of upstreams, 5 turns, 2 calls, texts as strings or lists | the upstream reads everything in order, knows which tool a result is from, gets the user's words, is told no thinking as something said, and accepts the request |
| `reinstated`, `lost` | small instances | each shows one disagreement, see below |

**Bounds.** Two requests are enough for every race of two calls, and the third token or caller is there where "another
one" matters. Times are told apart as passed, one tick and two ticks ahead, which is all that "shorter" and "longer"
cooldowns need. `MaxIssued` bounds how many refresh tokens the provider gives out
for a token: three are the first and either two renewals or a renewal and another login. `MaxFailures` bounds failure_count, which the code only compares (ORDER BY) and resets; at the bound it
stays. `AdminConfig` inserts at most `MaxEndpoints` rows, which with two names covers renames, deletions, re-creations, ties
of the positions and an empty table. `MaxOverlaps` bounds how many requests of the administrator come while another is
under way; after that no more come. Most properties claim something only as long as none has (`overlaps = 0`): the API serves
one user on one machine (`handler.go:14-17`), and with two overlapping requests they are not true, see below. The first request may be of any kind, the
second makes or deletes an endpoint: between them they reach every error path. An answer of `StreamRelay` has `MaxParts` parts, at most `MaxText` symbols of text and `MaxArgs` of each call's
arguments: three parts are any two neighbours with something before or after them, two calls are what "another call"
means, and four symbols hold a tag with text on either side. Conversations end after `MaxTurns` messages, two of which may be rounds
of calls, in one answer or in two; `MaxPrompt`, `MinBudget` and `MaxGoal` are scaled so that a long text exceeds them and a short one does not. A tag is
one symbol there and 9 to 16 bytes with its separator in the code, and `Slack` is 5 symbols, so that the note and the tags of up to three turns
fit and those of four do not: both sides of the last cut are reached, as they are in the code at a few hundred turns. The need "few" tells them apart. `MaxLog` entries of a workflow's log give every order
of two kinds; the client looks for the last of a kind, so a third entry adds nothing.
Endpoints do not change during a run of `RequestLoop`, ids of tokens are never reused (AUTOINCREMENT). An import
writes one item at a time; several items are several imports.

**Deadlock** is not checked where requests or callers serve once and are then over (`RequestLoop`, `DuoInflight`,
`DuoPool`, `StreamRelay`, `Conversations`); `TokenPool` never stops and is checked. `AdminConfig` may be
left waiting at its bounds.

**Fairness.** `TokenPool`, and `CodexRenewal` with it: the clock ticks, and a request that can go on does. That every call to a provider
returns is an assumption of `CooldownEnds` and `CleanTokenServed`, not a guarantee of the code: see `RequestLoop`. There, fairness is only assumed of
the proxy's own steps, and of giving up a call whose context is cancelled (`Proceed`). The client of the provider's calls has no overall timeout
(`proxy.go:69-89`; `ResponseHeaderTimeout` bounds the wait for the headers), so an answer may stall for ever, and `RequestEnds` leaves that:
a request ends, or from some time on waits for one answer whose client is still there. Nothing is assumed of clients, the administrator or the clock. `DuoInflight`: weak fairness of each caller's own steps, since calls to GitLab end with the context's 180 seconds.
No answer is assumed to be given fairly: a provider may fail for ever.

## Where the code and its documents disagree: divergences

Found while modelling, each shown by a run that is expected to fail:

- `reinstated`: a 403 deactivates a token "permanently" (`README.md:27`), but `MarkCredentialUsageLimit`, a 429 or a
  success of a call that was already out writes the status without looking at it, and the token is used again.
- `lost`: "whatever the wire format, the user's text has to survive the conversion" (`cx/chat/transformers_test.go:28-30`);
  `OpenAIReqToOpenAI2` reads only contents that are strings, `OpenAI2ReqToOpenAI` and `OpenAI2ReqToOneMinAI` only lists.

The modules define more such statements, under "What the documents say and the code does not keep", that no run of
`PROJECT.json` carries; TLC refutes each with the instance named here in place of the run's properties and answers:

- `RequestLoop!TurnedAwayAfterAll` beyond `walk` ("has to be big enough to walk every usable token",
  `payment_required_test.go:145-147`): with `walk` and answers `DeadAnswers`, a 401 costs an attempt and stays on the
  endpoint, so that dead tokens use up the attempts of a healthy endpoint. With two requests, `BothKeys` and answers
  `BadBodyAnswers`, both fail on one endpoint, rotate the shared index twice, and neither tries the endpoint in between
  (`CHANGELOG.md:48-50`).
- `RequestLoop!StreamNeverCut` (a stream would be finished "even if ... a manual /api/endpoints/switch happens",
  `streaming.go:88-92`): with `solo`, `StreamAnswers`, `Switches` and `PastedRows`. `SetCurrentEndpoint` cancels it.
- `RequestLoop!ReplayIsLatest` (`proxy_request.go:158-160`): with `solo`, `Switches` and answers `QuotaThenServer`, a 402 is
  replayed after a later 500.
- `RequestLoop!HangUpBlamesNobody` (`CHANGELOG.md:56-57`): with `solo`, answers `BodyAnswers` and `HangUps`, a body
  that cannot be read because the client is gone is blamed on endpoint and token.
- `RequestLoop!RestingPoolIsDry` (`proxy_request.go:522-526`): with two requests and answers `QuotaAnswers`, an endpoint
  rests over a token that a late success has made usable.
- Read off `RequestLoop`: that the client is still there and the endpoint open is asked before an attempt begins (`proxy_request.go:97-105`,
  `proxy.go:273`), and nothing holds it until `markRequestActive`. One attempt may therefore be wasted; `NoSecondWaste` says that a second is not.
- `TokenPool!ParallelClaimsSpread` ("The claim is what makes rotation work under concurrency", `credentials.go:417-427`):
  with `reinstated`, three requests, answers `OkUnauthorized`, `KeepOrHorizon` and `CodexRows`. `refreshCredential` writes
  the whole row back, with the `last_used_at` of its own claim, and so undoes the stamp of a later claim. An edit of the
  administrator does the same (`RemarkEdits`, two requests, answers `OkUsage`).
- Read off `CredentialStore!Precedes`: of tokens whose cooldown has passed, the selection takes the one whose cooldown ended first
  (`cooldown_until ASC`, `credentials.go:171`), before failures and last use are looked at. Parallel requests get the same one again and again until
  a success clears it, so `ParallelClaimsSpread` speaks of tokens for which no cooldown is set.
- `TokenPool!UsableTokenServed` (`README.md:27`, "LRU rotation"): with `pool` and answers `OkOther`, a token with a
  failure behind it is never used while a clean one is there, since failure_count comes before last_used_at.
- `TokenPool!UsageCooldownKept` (`credentials.go:560-564`): with `reinstated` and answers `OkUsage`, a late success ends
  the cooldown of a usage limit.
- `TokenPool!EditKeepsDeactivation`: with `reinstated`, one request and `RemarkEdits`, an edit of the remark writes back
  the status it read before the deactivation.
- `AdminConfig!LockHolds` ("LockPort locks the port so it cannot be changed via API", `config.go:213`): with `config` and `TwoPorts`.
  `reloadConfig` replaces the configuration by one in which `PortLocked` is false, and the lock is gone after the first edit.
- `AdminConfig!SaveDeletesNothing` (`config.go:786`, "Delete endpoints that no longer exist"): with `config`. A save of the
  log level that overlaps the creation of an endpoint deletes that endpoint, and its tokens.
- `AdminConfig!NoGhosts` (`usage_limit.go:195-198`): with one handler, `EndpointEdits` and `Failures`. A request that fails
  between `ForgetEndpointState` and the reload marks the old name again.
- `DuoPool!OneWorkflowPerConversation` (a second identical request "waits for the first one's result instead of starting its
  own workflow", `gitlabduo_dedup.go:5-10`): with
  `workflow` and two tokens. The key contains the token, and rotation gives two identical requests different ones.

**Renewals.** Read off the exceptions in `CodexRenewal!StrandedByLossOrStaleEdit`, each of which TLC shows to be needed:
- `updateEndpointCredential` writes back every column it read, the refresh token among them. A change of a remark that
  overlaps a renewal leaves a refresh token that the provider has already taken, and the token works until it expires.
  An import without a refresh token does the same with the one it found (`credentials.go:256-258` of the web API).
- A renewal that was asked for before an import is stored after it and replaces the new login by the old one; the row can
  still be renewed.
- Two requests that renew one token at a time send the same refresh token. The provider refuses the second, and
  `tryRefreshAfterAuthFailure` returns false, so that `handleFinalStatus` blames the token that has just been renewed.

**GitLab Duo.** Read off the model rather than refuted by a run:
- A connection that closes or breaks early and a context that ends return whatever was read last as a success, cut off
  or intermediate as it is, and the waiters get it, too (`gitlabduo_handler.go:267-268` says that checkpoints are read "until a terminal
  status"). The text of a workflow that failed is an answer as well. `LastWordDelivered` therefore speaks of workflows that finished.
- "`markCredentialFailure` was already called inside `runDuoWorkflow`" (`:134`) holds for the first of the three calls. A
  403 for lack of credits at the others tells the client that the token was deactivated, and it is not; hence `NoCredits` in
  `RefusedTokenLeavesPool`.
- Retries are "never on auth/credit/4xx errors" (`:212`), but a dial refused with a 429 is retried.
- A create call whose response is lost, or a workflow that said nothing, is followed by a second one: two credits.

**Streams**, by the need in `StreamRelay` that stands for it:
- *usage, counted*: without a report and with text, the fallback sends a Claude `message_delta` with `end_turn`
  (`streaming.go:96-161`), also after calls, and also to clients of other dialects. `OpenAI2ReqToOpenAI` never asks for a report.
- *order*: `OpenAIStreamToClaude` gives reasoning after text, and text after a call, an index that is in use.
- *tags*: text that ends in "<" is flushed after the `message_delta`; an unclosed `<think>` is thinking in a stream and text in a whole answer.
- *single*: `OpenAI2StreamToOpenAI` gives every call index 0; `OpenAIStreamToOpenAI2` ends only the last one, at index 1.
- *marker*: `OpenAI2StreamToOpenAI` sends `[DONE]` only after one; a `response.failed` without one leaves a Claude client without its `message_stop`.
- *together, names*: Gemini's streams say "calls" only if the finishing chunk has one, and name two calls of one tool alike.
- 1min.AI's streams are recorded with no tokens: `handleNonStreamingResponse` counts only in JSON.
- An event that cannot be converted is logged and dropped (`streaming.go:161-163`); an error event of a chat upstream
  followed by `[DONE]` is an empty, successful answer to a Claude client.

**Conversations**, by the need in `Conversations`:
- *apart*: `ClaudeReqToOpenAI` sends the user's words before the results they came with.
- *between*: `OpenAI2ReqToClaude` and `OpenAI2ReqToGemini` gather calls and results until somebody speaks, so that two rounds become one.
- *calm*: `OpenAIReqToOpenAI2` drops calls, and results become messages of a role the API does not have; later system prompts replace the first.
- *strings*: `OpenAIReqToClaude` and `OpenAIReqToGemini` lose list-form text that comes with calls, and a system prompt that is not a string. *lists*: see `lost`.
- *known*: "developer" is passed on to Claude and Gemini. *distinct*: Gemini's made-up ids repeat from turn to turn, and are refused by the next provider.
- *few*: `FormatOneMinAIPrompt` "automatically prunes older middle turns" (`minai.go:296`), but counts no tags: in a conversation of a few hundred
  turns just under the limit they exceed the 5000 bytes of slack, and the last cut (`:387`) takes the end of the prompt, the question.
  With `conversations` and `Waived <- Few`, TLC finds `UserTextSurvives` violated.
- *unmarked*: `extractUserQuestion` drops texts that begin with `<system-reminder>`, `<context>`, `SessionStart:` or
  `x-anthropic-billing-header:` from Duo's goal (`proxy_request.go:1128-1195`), a question that begins so among them.
- `ClaudeReqToGemini` sends Claude's thinking to Gemini, as a thought with Claude's signature (`claude_gemini.go:460-469`).
  `ThinkingStaysHome` allows it there, and nowhere else.
- *whole*: `dropIncompleteToolCalls` reads the converted body and knows only Claude's form.
- "Tool metadata is flattened into text" for 1min.AI (`README.md:26`): `ClaudeReqToOneMinAI` drops calls and tools, `OpenAI2ReqToOneMinAI` also the results.
- `FormatOneMinAIPrompt` cuts the end of the prompt, the newest turn, if the system prompt leaves less than the minimal budget;
  `fits` in `UserTextSurvives` leaves that out.

## Proofs

The theorems hold for all values of the constants that satisfy the named assumptions (`RowAssumption`,
`StoreAssumption`, `PoolAssumption`, `RenewalAssumption`, `LoopAssumption`, `InflightAssumption`, `WorkflowAssumption`, `DuoPoolAssumption`, `AdminAssumption`, `RoutesAssumption`, `TextsAssumption`, `PromptsAssumption`, `DialectsAssumption`, `BoundsAssumption`, `WordsAssumption`, `IdsAssumption`): bounds are natural numbers, where need be positive, the kinds of nodes can
be told apart, pools of different endpoints share no token (a credential row names one endpoint), routes lead from known dialects to known dialects, texts are sequences, the symbols of a conversation's texts are not the one of thinking, ids that anybody makes up are not empty, and the sets a run chooses
are among the kinds the code knows. TLC evaluates all of them in the runs.

- **`Tokens_proofs`, the pool.** `TypeInvariant`, `DeletionFinal`, `QuarantineSurvivesFailures`, `PlainPoolSpreads`. `TypeOK` is not inductive: a
  mark names the token the request has in hand, and must know that there is one. `IInv` adds `InHand` and the deletion
  property, which needs that only stored tokens enter the order. The lemmas about rows and calls of the store are in
  `CredentialStore_proofs`, one per call, and every step of the pool cites the one for the call it makes.
  `PlainPoolSpreads` is `ParallelClaimsSpread` for any tokens and requests of a `PlainPool`, in which no row is written
  back whole: no refresh tokens, no edits or imports (deletions and cleared cooldowns are allowed). A renewal or an edit
  breaks it, because its write-back undoes the stamp of a later claim, and among tokens whose cooldown has passed it fails at once (see the
  divergences). Its invariant is `Spread`: any other token was
  stamped after the request took its copy, or before both the copy and the token (`After`). The selection cannot skip a
  less recently used token of the same standing, so what it hands out again is behind all others, and those were stamped since.
- **`Tokens_proofs`, the renewals.** `RenewalImplementsPool`, `RenewalTypeInvariant`, `OnlyLossStrands`. Each step of the renewals
  is a step of the pool or one of the provider alone (`StepOfPool`), so that the pool's invariant and theorems hold here,
  too. `RInv` adds to it the types, `Numbered` (nobody has a refresh token that was not given out for that token) and
  `AnswersKept` (an answer that is on its way is one the provider takes, and nobody else has it). Without the latter a
  second renewal might use up what the first is about to store; it rests on `Numbered`, because a new number is greater
  than all others.
- **`Duo_proofs`, the registry.** `TypeInvariant`, `RegistryInvariant`, `OneWorkflow`, `ResultBeforeClose`, `Refinement`.
  `RegistryExact` says who owns an entry; it becomes inductive with `FlightOK` (where each phase's flight points) and
  `DoneOK` (a channel is closed exactly when its leader is over). The refinement maps the removal of the entry to the
  landing of the flight, and the closing of the channel to the delivery to its leader.
- **`RequestLoop_proofs`.** `TypeInvariant`, `AttemptsCounted`, `WasteNotRepeated`, `RequestsRunDown`, `WalkTriesAll`. `ActiveExact` is not inductive: that `Leave` takes one off
  needs an endpoint that is counted, so `IInv` adds `Placed` (a request in an attempt has an endpoint) and the store's
  invariant. Every way out of an attempt is one of two retries or an end, and one lemma per way (`RetryKeeps`, `EndKeeps`)
  does the counting; the steps cite them. The budget is finite because `Tokens` is assumed to be.

  `WasteNotRepeated` is `NoSecondWaste`. What an attempt is wasted on may come about between the look and the attempt, so its guards say nothing; what
  holds is `VainOK`: the endpoints on record as wasted on still rest, the one a request has chosen is not among them, and a client that is there, or
  was when the request last looked, is not one that an attempt was wasted on (`WasteStays`, `OwnStepRemembers`, `StepRemembers`). No step but `StartAttempt` brings a request into an
  attempt (`OnlyStartEnters`), and no request's own step ends the rest of an endpoint (`ServingWakesNone`).

  `RequestsRunDown` is the part of `RequestEnds` that is not about fairness: a request that is underway has a number of steps left
  (`StepsLeft`, from its budget, its tries and its phase), each of its own steps takes some off, and nobody else's step adds any,
  with any number of requests and every disturbance. It needs `WithinBudget`, and that every way out of an attempt counts it
  (`ServeMoves`), retries on the same endpoint included.

  `WalkTriesAll` says of `computeMaxRetries` that it is big enough: a request is turned away only after every endpoint and
  token that could have served it. Its hypothesis `QuietWalk` is one request, pinned or not, that nobody hangs up on or
  switches away from, with answers "usage limit", 200 and a final 400, over any number of endpoints, pools, tokens and rows.
  It is needed: with 401s, or with a second request, the property fails (see the divergences), and the model has both. `WalkInv` is the
  inductive invariant. It keeps an account: the attempts that are left (`budget - tries`) are at least the `Reserve` for the
  endpoints after `current` (one per token that is owed and not tried, two per endpoint, less the one which is the first
  token's), and what is `Due` on `current` itself. Every step pays from one or the other: a token that runs out leaves the Reserve
  (`TokenSpent`), as does a key (`KeySpent`), a dry pool costs the `Allowance` of its endpoint, and a rotation
  moves an endpoint from the Reserve to what is due (`ReserveFacts`, `NextEndpoint`). For this the walk must go forward
  (`Walking`): what is untried lies at `current` or behind it, on endpoints that do not rest, with tokens that are as usable as
  they were (`OwedStands`), and no other token became usable on the way (`UsableOwed`). The rest follows from the store:
  a mark of one token leaves the others of all pools as they are, hence the assumption that pools are disjoint.

- **`Duo_proofs`, the client.** `WorkflowTypeInvariant`, `CreditsSaved`, `LastWord`. Each step of the
  client is written as a step of `DuoInflight` with more conjoined, or as none. That it refines the registry (`StepOfInflight`) is so by construction and
  no result about the code; it is there to have the registry's invariant here, too. `WInv`
  adds the types and, for every leader at work, `Holding`: how many workflows there are in each phase and step, that
  nothing was heard when there is an error, and that the answer of a finished workflow is the last entry of its log. That
  last part rests on a lemma about the choice of the answer (`LastWordTaken`), and this on the existence of a greatest
  element (`LastExists`, by well-founded descent on finite sets).

- **`Duo_proofs`, the pool below it.** `PoolTypeInvariant`, `RefusedTokenGone`. The pool's steps, too, are written as steps of
  the client or as none of its business (`StepOfWorkflow`), so that the client's theorems hold over any pool. `PoolInv` adds
  the store's invariant and `Claimed`: whoever has arrived has a token, and that of a caller with the error `NoCredits` is
  invalid; that only a refused creation leaves this error is `CreditsFromCreate`.

- **`AdminConfig_proofs`.** `TypeInvariant` (types, names are unique, and `current` stays within the list that runs) and
  `ReloadsKeepCurrent` for requests that overlap in any way;
  `TokensStayOwned`, `CopiesAgree`, `SavesAreHarmless`, `ReorderingsTakeEffect` for requests that do not, which is when the code
  keeps them. `Settled` is the inductive invariant: at most one handler is busy, and `StageOK` says for every step it may be at
  what it has done so far: which copies agree already, which rows of a reordering or a save have their new position, and
  that a key about to be added goes to a name in the table. That a save deletes nothing needs that the copies agreed when it
  began, and that they agree when it ends needs `OrderByNumber`: rows numbered from nought on are listed by their numbers. For
  this the model's `Order` counts the rows before each (`Place`) and does not call a sorting operator, of which the provers
  know nothing. `Enabled`, too, is defined by positions, and `EnabledLists` shows what the code's loop does: it lists
  the enabled endpoints, each once, in their order. `MCAdminConfig` compares it with `SelectSeq` (`EnabledSelects`). From this follow the
  bound of `current` (`Pointed`, which a reload must restore before anything reads `current`) and that the endpoint a reload
  looks for is at the position it finds, which is `CurrentKept`.

- **`StreamRelay_proofs`, on `FoldFacts`.** `NoEndBeforeTheEnd`, `ReportIsNotReplaced`, and `RelayInvariant`, which they rest on.
  The relay and its converters are folds: over the characters of a delta, the calls of a chunk, the parts of a Gemini chunk, the
  events that are sent, and the events the client hears. `FoldFacts` has the induction, once: its operator is a CONSTANT, because
  the provers cannot be given one as an argument, and every fold instantiates it. A turn that `Sends(T, st)` sends events of the
  kinds `T` alone and leaves a context that holds back at most "<" and counts nothing but what was reported. One lemma per
  helper of the converters (`emitTextSends`, `ChatToolCallSends`, `GeminiPartSends`, ...), and one per route, say so; `EarlyTurn` and `LateTurn`
  put the twelve routes together: as long as the upstream speaks only content is sent, at the end any known kind. What the
  client hears of content ends nothing (`HearsCalm`). `RelayInv` is `CutOffShows` (it becomes inductive only with what the
  context may hold, for what is held back is sent later) and the shape of the tally. That a report is not replaced is the same
  fold: every event sent for it counts it again or not at all, and the estimate is asked for only while nothing is counted. Both hold for
  any set of texts, call ids and names, any bounds and any `Waived` need: neither property depends on a well-behaved upstream.

- **`Conversations_proofs`, on `FoldFacts`.** `TypeInvariant` and `ThinkingAtHome`, over any dialects, names and lengths. Of a converter a lemma says what it
  makes of messages of a kind of parts (`Messages(P)`): `Mine`, the parts of a Claude client, or `Shown`, those in which nobody thinks. Thinking
  may be in a part of its own kind only, which is what the symbol for thinking is in `Symbols` for. `ConversationInvariant` is `TypeOK` with what
  makes it inductive: bodies and ids have types of their own, and only a Claude client's conversation has parts that are not `Shown` (`PartsOf`).
  Both directions are needed. Whatever an upstream answers must come back in that form (`WholeType`): Gemini's calls have no ids until the
  proxy names or numbers them (`GeminiType`), and texts with tags turn into thinking for Claude clients alone (`SplitType`). And of a Claude client's history
  the converters to chat and responses and the prompts must make messages that are `Shown` (`ClaudeReqToOpenAIType`, `ClaudeReqToOpenAI2Type`,
  `ClaudePromptType`). What goes to Claude and to Gemini may have thinking in it, in parts of that kind alone (`Apart`), whatever names and ids
  it is given on the way (`RespondType`, `GatherType`, `WithNamesType`). No need is asked for: the client may lay out its requests in either form, interrupt, and mix results and words. The
  constants bound only how long a conversation gets.

What only TLC has checked:

- liveness (`RequestEnds`, of which `RequestsRunDown` proves what is safety, `CooldownEnds`, `CleanTokenServed`, `WaitersReleased`);
- `ParallelClaimsSpread` in pools that are renewed, where it fails; `AdminConfig` when requests overlap, but for its
  types and `CurrentKept`; the walk of `RequestLoop` beyond `QuietWalk`, where it fails;
- `StreamWellFormed`, `StreamAgreesWithWhole` and `EndsWithReason`: they need, besides the facts about kinds, the index every
  block has in the context and at the client, and, for the agreement, that scanning a text delta by delta and as a whole finds the same
  runs, an equation between two folds of different shape;
- `SaidInOrder`, `ResultsNamed`, `UserTextSurvives` and `UpstreamAccepts`: they compare what one fold, with `FlattenSeq` and `Only` between, makes of a
  conversation with what another makes of it. Each needs an equation per route by induction over the conversation, not a type that the steps of a
  fold keep.

## Not modelled

HTTP headers, the pages, logging and statistics; the estimate of tokens; images, definitions of tools and sampling parameters
in requests; converters to Gemini's dialect for Gemini clients, which no route uses; endpoints that change while requests are
under way; `RefreshCodexCredential` and `FetchCodexRateLimits`, which nothing calls; SQLite's own errors and a stop in the middle of
`DeleteEndpointCredential`; migrations. `PROJECT.json` lists every part with its state, and under "hazards" what no property covers yet.

## Plan

1. *Done:* rows, store, pool, request loop, deduplication and their first theorems; endpoint administration.
2. *Done:* the Duo workflow client under `DuoInflight` and Codex renewals over the pool, with proofs; streams and
   conversations over every route.
3. Next: `ModelsCache` (fetches that outlive a clear), failing storage calls in `AdminConfig`, `TraceRing`, `Migrations`.
4. Proofs. *Done:* `RequestLoop`'s walk under quota failures, `AdminConfig`'s `CurrentKept`, parallel claims in `TokenPool`,
   the stream relay's ends and counts over every route, thinking in `Conversations`. Next: `StreamWellFormed`, route by route, and `RequestLoop` as a user of `TokenPool`, endpoint by endpoint.
