----------------------------- MODULE TokenPool -----------------------------
(***************************************************************************)
(* The token pool of one endpoint at work: requests that claim a token,    *)
(* call the provider with it and report what came back; renewals of codex  *)
(* tokens that run between reading a row and writing it back; and an       *)
(* administrator who edits, imports and deletes tokens at the same time.   *)
(*                                                                         *)
(* A request here is one client request from the pool's side: it claims a  *)
(* token, calls, and either is finished or claims again.  Which endpoint   *)
(* it turns to, and how often, is RequestLoop's affair.                    *)
(***************************************************************************)
EXTENDS CredentialStore

CONSTANTS
    Requests,         \* request slots; a slot serves one request after another
    Admin,            \* the administrator's slot
    Answers,          \* what a call may come to, see AnswerKinds
    UsageCooldowns,   \* how far ahead a usage-limit answer may put its reset
    Lifetimes,        \* the expiries a renewal may bring; Null: no expires_in
    AdminActs,        \* what the administrator does, see AdminKinds
    InitialRows,      \* the rows a pool may start with
    NoToken           \* no token at all

AnswerKinds == {"ok", "unauthorized", "forbidden", "rate", "usage", "other", "quiet"}
AdminKinds == {"remark", "enabled", "status", "expires", "import", "delete", "clear"}

ASSUME PoolAssumption ==
    /\ Holders = Requests \cup {Admin}
    /\ Admin \notin Requests
    /\ Answers \subseteq AnswerKinds
    /\ AdminActs \subseteq AdminKinds
    /\ UsageCooldowns \subseteq 1..Horizon
    /\ Lifetimes \subseteq (1..Horizon) \cup {Null}
    /\ InitialRows \subseteq Rows
    /\ NoToken \notin Tokens

VARIABLES
    request,   \* the state of each request slot
    edit       \* the administrator's unfinished edit

vars == <<storeVars, request, edit>>

\* "choosing": about to claim; "preflight": renewing the token before the call;
\* "calling": the call is out; "renewing": renewing after a 401.
Phases == {"choosing", "preflight", "calling", "renewing"}

RequestStates ==
    [phase   : Phases,
     token   : Tokens \cup {NoToken},
     seen    : Rows,              \* the row as it was handed out
     renewed : SUBSET Tokens]     \* refreshedCredentialAttempts

Waiting == [phase |-> "choosing", token |-> NoToken, seen |-> FreshRow, renewed |-> {}]

EditStates == [kind  : {"none", "patch", "import"},
               token : Tokens \cup {NoToken},
               seen  : Rows]

NoEdit == [kind |-> "none", token |-> NoToken, seen |-> FreshRow]

TypeOK ==
    /\ StoreTypeOK
    /\ request \in [Requests -> RequestStates]
    /\ edit \in EditStates

\* A pool pasted in one go: every row created at the same time, none used.
Init ==
    /\ life \in [Tokens -> {"stored", "absent"}]
    /\ rows \in [Tokens -> InitialRows \cup {FreshRow}]
    /\ \A t \in Tokens : IF Stored(t) THEN rows[t] \in InitialRows ELSE rows[t] = FreshRow
    /\ older = {}
    /\ copies = {}
    /\ request = [r \in Requests |-> Waiting]
    /\ edit = NoEdit

-----------------------------------------------------------------------------
(* Requests.                                                                 *)

\* resolveAttemptAuth up to the renewal it may start.
ClaimToken(r) ==
    /\ request[r].phase = "choosing"
    /\ \E t \in Tokens :
        /\ Claim(Tokens, t, {r})
        /\ request' = [request EXCEPT
             ![r].token = t,
             ![r].seen  = Seen(rows[t]),
             ![r].phase = IF WantsRefresh(Seen(rows[t])) THEN "preflight" ELSE "calling"]
    /\ UNCHANGED edit

\* refreshCredential: the provider's answer is in, the row is written back.
Renewed(r) ==
    /\ Stored(request[r].token)
    /\ \E x \in Lifetimes :
        LET seen == request[r].seen
            row  == AfterRefresh(seen, IF x = Null THEN seen.expires ELSE x)
        IN  /\ WriteBack(request[r].token, row, r)
            /\ request' = [request EXCEPT
                 ![r].phase   = IF @ = "preflight" THEN "calling" ELSE "choosing",
                 ![r].token   = IF request[r].phase = "preflight" THEN @ ELSE NoToken,
                 ![r].seen    = IF request[r].phase = "preflight" THEN row ELSE FreshRow,
                 ![r].renewed = @ \cup {request[r].token}]

RenewalSucceeds(r) ==
    /\ request[r].phase \in {"preflight", "renewing"}
    /\ Renewed(r)
    /\ UNCHANGED edit

\* The provider refuses, cannot be reached, or the row is gone: the call is made
\* with the old token all the same.
PreflightFails(r) ==
    /\ request[r].phase = "preflight"
    /\ request' = [request EXCEPT ![r].phase = "calling"]
    /\ UNCHANGED <<storeVars, edit>>

\* tryRefreshAfterAuthFailure returns false: handleFinalStatus blames the token.
RenewalFails(r) ==
    /\ request[r].phase = "renewing"
    /\ MarkFailure(request[r].token, 401, {r})
    /\ request' = [request EXCEPT ![r] = [Waiting EXCEPT !.renewed = request[r].renewed]]
    /\ UNCHANGED edit

\* The call is over; the request may claim again with what it has renewed.
Back(r) == request' = [request EXCEPT ![r] = [Waiting EXCEPT !.renewed = request[r].renewed]]

Calling(r, answer) == answer \in Answers /\ request[r].phase = "calling"

CallSucceeds(r) ==
    /\ Calling(r, "ok")
    /\ MarkSuccess(request[r].token, {r})
    /\ request' = [request EXCEPT ![r] = Waiting]
    /\ UNCHANGED edit

\* 401: one renewal per token and request, then the blame.
CallUnauthorized(r) ==
    /\ Calling(r, "unauthorized")
    /\ IF request[r].seen.refresh /\ request[r].token \notin request[r].renewed
       THEN /\ request' = [request EXCEPT ![r].phase = "renewing",
                                          ![r].renewed = @ \cup {request[r].token}]
            /\ UNCHANGED storeVars
       ELSE /\ MarkFailure(request[r].token, 401, {r})
            /\ Back(r)
    /\ UNCHANGED edit

CallForbidden(r) ==
    /\ Calling(r, "forbidden")
    /\ MarkFailure(request[r].token, 403, {r})
    /\ Back(r)
    /\ UNCHANGED edit

CallRateLimited(r) ==
    /\ Calling(r, "rate")
    /\ MarkFailure(request[r].token, 429, {r})
    /\ Back(r)
    /\ UNCHANGED edit

\* 402 whose body names a usage limit.
CallUsageLimited(r) ==
    /\ Calling(r, "usage")
    /\ \E d \in UsageCooldowns : MarkUsageLimit(request[r].token, d, {r})
    /\ Back(r)
    /\ UNCHANGED edit

\* Every other failure that is counted against the token: transport errors
\* (code 0), 5xx, 404, other 402s, a 400, a body that cannot be read.
CallFails(r) ==
    /\ Calling(r, "other")
    /\ MarkFailure(request[r].token, 0, {r})
    /\ Back(r)
    /\ UNCHANGED edit

\* The client went away or the network error is transient: nobody is blamed.
CallAbandoned(r) ==
    /\ Calling(r, "quiet")
    /\ Drop({r})
    /\ Back(r)
    /\ UNCHANGED <<rows, life, edit>>

\* The request gives up between two attempts; the slot takes another one.
GiveUp(r) ==
    /\ request[r].phase = "choosing"
    /\ request[r].renewed # {}
    /\ request' = [request EXCEPT ![r] = Waiting]
    /\ UNCHANGED <<storeVars, edit>>

-----------------------------------------------------------------------------
(* The administrator.                                                        *)

EditFields == AdminActs \cap {"remark", "enabled", "status", "expires"}

\* updateEndpointCredential and importEndpointCredentials read the row first ...
ReadForEdit(t) ==
    /\ edit = NoEdit /\ Stored(t)
    /\ \E kind \in {"patch", "import"} :
        /\ kind = "patch" => EditFields # {}
        /\ kind = "import" => "import" \in AdminActs
        /\ edit' = [kind |-> kind, token |-> t, seen |-> Seen(rows[t])]
    /\ TakeCopy(t, Admin)
    /\ UNCHANGED request

\* ... and write every column in a second call.
PatchRow ==
    /\ edit.kind = "patch"
    /\ \E row \in Patched(edit.seen, EditFields) : WriteBack(edit.token, row, Admin)
    /\ edit' = NoEdit
    /\ UNCHANGED request

ImportOverRow ==
    /\ edit.kind = "import"
    /\ \E row \in ImportedOver(edit.seen) : Overwrite(edit.token, row, Admin)
    /\ edit' = NoEdit
    /\ UNCHANGED request

ImportNewRow(t) ==
    /\ "import" \in AdminActs
    /\ \E row \in Imported : Insert(t, row)
    /\ UNCHANGED <<request, edit>>

DeleteRow(t) ==
    /\ "delete" \in AdminActs
    /\ Delete(t)
    /\ UNCHANGED <<request, edit>>

ClearCooldowns ==
    /\ "clear" \in AdminActs
    /\ ClearAllTokenCooldowns
    /\ UNCHANGED <<request, edit>>

-----------------------------------------------------------------------------
(* Time passes for the rows and for the copies of them.                      *)

Tick ==
    /\ Age
    /\ request' = [r \in Requests |-> [request[r] EXCEPT !.seen = LaterRow(@)]]
    /\ edit' = [edit EXCEPT !.seen = LaterRow(@)]

Attempt(r) ==
    \/ ClaimToken(r)
    \/ RenewalSucceeds(r) \/ PreflightFails(r) \/ RenewalFails(r)
    \/ CallSucceeds(r) \/ CallUnauthorized(r) \/ CallForbidden(r) \/ CallRateLimited(r)
    \/ CallUsageLimited(r) \/ CallFails(r) \/ CallAbandoned(r)

Administer ==
    \/ \E t \in Tokens : ReadForEdit(t) \/ ImportNewRow(t) \/ DeleteRow(t)
    \/ PatchRow \/ ImportOverRow \/ ClearCooldowns

Next == (\E r \in Requests : Attempt(r) \/ GiveUp(r)) \/ Administer \/ Tick

Spec == Init /\ [][Next]_vars

\* Time passes, and a client that has a request in hand has it served: a claim
\* that can be made is made and every call returns.
Fairness == WF_vars(Tick) /\ \A r \in Requests : WF_vars(Attempt(r))

FairSpec == Spec /\ Fairness

-----------------------------------------------------------------------------
(* Properties.                                                               *)

Quarantined(t) == Stored(t) /\ rows[t].status = "invalid"

(* A failure that says nothing about the credential (transport error, 5xx,  *)
(* bad body, abandoned call) leaves a quarantined token in quarantine: the  *)
(* default branch of MarkCredentialFailure does not write the status.       *)
BlamelessFailureKeepsQuarantine ==
    [][\A r \in Requests : (CallFails(r) \/ CallAbandoned(r)) =>
           \A t \in Tokens : Quarantined(t) => Quarantined(t)']_vars

\* No cooldown on record and as many failures: only the stamp tells them apart.
Alike(t, u) ==
    /\ rows[t].cooldown = Null /\ rows[u].cooldown = Null
    /\ rows[t].failures = rows[u].failures

(* Parallel requests spread over the tokens without a cooldown on record: a *)
(* token that another request has in use is handed out again only when      *)
(* every usable one with as many failures was stamped after that request's  *)
(* claim (the comment on GetUsableEndpointCredential).  Tokens whose        *)
(* cooldown has passed are not spread: ORDER BY takes the one whose         *)
(* cooldown ended first again and again, until a success clears it.         *)
ParallelClaimsSpread ==
    [][\A r \in Requests, t \in Tokens :
           (request[r].phase = "choosing" /\ request'[r].token = t) =>
               \A q \in copies \ {Admin}, u \in Usable(Tokens) \ {t} :
                   (request[q].token = t /\ Alike(t, u)) => <<q, u>> \in older]_vars

(* A cooldown ends: a cooling token is not handed out, so it cannot be      *)
(* marked for ever anew, and its time passes.                               *)
CooldownEnds ==
    \A t \in Tokens : rows[t].cooldown > 0 ~> rows[t].cooldown <= 0

InUse(t) == \E r \in Requests : request[r].token = t

Clean(t) == IsUsable(rows[t]) /\ rows[t].failures = 0 /\ rows[t].cooldown = Null

(* Least-recently-used rotation starves no token in good standing: a token  *)
(* that stays clean is in use again and again.                              *)
CleanTokenServed ==
    \A t \in Tokens : []<>(InUse(t) \/ ~ (Stored(t) /\ Clean(t)))

-----------------------------------------------------------------------------
(* What the documents say and the code does not keep.                        *)

(* README.md:19 and :27: "LRU rotation across a pool of tokens".  Every      *)
(* usable token would be served, whatever failures it has behind it.         *)
UsableTokenServed ==
    \A t \in Tokens : []<>(InUse(t) \/ ~ (Stored(t) /\ IsUsable(rows[t])))

(* README.md:27: "Permanent deactivation on insufficient credits 403s".  A   *)
(* token that was refused comes back by a renewal, or by the administrator;  *)
(* no answer to a call that was still out brings it back.                    *)
DeactivationPermanent ==
    [][\A r \in Requests : Attempt(r) =>
           \A t \in Tokens : Quarantined(t) => Quarantined(t)']_vars

(* credentials.go:560-564: a token that hit its usage limit is skipped until *)
(* the cooldown expires, so nothing requests do brings that time nearer.     *)
UsageCooldownKept ==
    [][\A r \in Requests : Attempt(r) =>
           \A t \in Tokens : rows'[t].cooldown >= rows[t].cooldown]_vars

(* README.md:27 again: an edit that does not set the status leaves a         *)
(* deactivated token deactivated.                                            *)
EditKeepsDeactivation ==
    [][PatchRow => \A t \in Tokens : Quarantined(t) => Quarantined(t)']_vars
=============================================================================
