---------------------------- MODULE CodexRenewal ----------------------------
(***************************************************************************)
(* The renewals of TokenPool with the refresh tokens themselves.  The      *)
(* provider takes a refresh token once and answers with the next one; the  *)
(* row is written back, with the answer in it, in a later step.  Meanwhile *)
(* other requests and the administrator have copies of the row, with the   *)
(* refresh token it had when they read it.                                 *)
(*                                                                         *)
(* The refresh tokens that one token's row may get are numbered in the     *)
(* order in which the provider gives them out; 0 is none.                  *)
(***************************************************************************)
EXTENDS TokenPool

CONSTANT MaxIssued   \* bound: how many refresh tokens the provider gives out per token

ASSUME RenewalAssumption == MaxIssued \in Nat \ {0}

VARIABLES
    secret,   \* refresh_token in the row of each token
    held,     \* refresh_token in the copy each holder has in hand
    answer,   \* what the provider has given each request and is not stored yet, or 0
    issued,   \* how many the provider has given out for each token
    alive     \* the ones it would take

secretVars == <<secret, held, answer, issued, alive>>
renewalVars == <<vars, secretVars>>

Numbers == 0..MaxIssued

RenewalTypeOK ==
    /\ TypeOK
    /\ secret \in [Tokens -> Numbers]
    /\ held \in [Holders -> Numbers]
    /\ answer \in [Requests -> Numbers]
    /\ issued \in [Tokens -> Numbers]
    /\ alive \in [Tokens -> SUBSET Numbers]

First(t) == IF rows[t].refresh THEN 1 ELSE 0

RenewalInit ==
    /\ Init
    /\ secret = [t \in Tokens |-> First(t)]
    /\ held = [h \in Holders |-> 0]
    /\ answer = [r \in Requests |-> 0]
    /\ issued = [t \in Tokens |-> First(t)]
    /\ alive = [t \in Tokens |-> {First(t)} \ {0}]

\* The provider gives out another refresh token for t.
Issue(t, used) ==
    /\ issued[t] < MaxIssued
    /\ issued' = [issued EXCEPT ![t] = @ + 1]
    /\ alive' = [alive EXCEPT ![t] = (@ \ used) \cup {issued[t] + 1}]

-----------------------------------------------------------------------------
(* Requests.                                                                 *)

\* The copy in the hands of r, as long as it has one.
Keep(r, s) ==
    held' = [held EXCEPT ![r] = IF request'[r].phase = "choosing" THEN 0 ELSE s]

ClaimSecret(r) ==
    /\ ClaimToken(r)
    /\ held' = [held EXCEPT ![r] = secret[request'[r].token]]
    /\ UNCHANGED <<secret, answer, issued, alive>>

\* refreshCredential, to the point where the provider has made up its mind.
ProviderRenews(r) ==
    /\ request[r].phase \in {"preflight", "renewing"}
    /\ answer[r] = 0
    /\ held[r] \in alive[request[r].token]
    /\ Issue(request[r].token, {held[r]})
    /\ answer' = [answer EXCEPT ![r] = issued[request[r].token] + 1]
    /\ UNCHANGED <<vars, secret, held>>

\* Mutant: the refresh token of the answer is not stored.
StoreRenewalKeepingOld(r) ==
    LET t == request[r].token IN
    /\ answer[r] # 0
    /\ RenewalSucceeds(r)
    /\ secret' = [secret EXCEPT ![t] = held[r]]
    /\ Keep(r, held[r])
    /\ answer' = [answer EXCEPT ![r] = 0]
    /\ UNCHANGED <<issued, alive>>

\* refreshCredential from there on: the row that was handed out is written back
\* with the answer in it, and the request goes on with both.
StoreRenewal(r) ==
    LET t == request[r].token IN
    /\ answer[r] # 0
    /\ RenewalSucceeds(r)
    /\ secret' = [secret EXCEPT ![t] = answer[r]]
    /\ Keep(r, answer[r])
    /\ answer' = [answer EXCEPT ![r] = 0]
    /\ UNCHANGED <<issued, alive>>

\* The provider refuses a refresh token it has taken before, or cannot be
\* reached, or its answer does not arrive, or the row is gone.
RenewalLost(r) ==
    /\ PreflightFails(r) \/ RenewalFails(r)
    /\ Keep(r, held[r])
    /\ answer' = [answer EXCEPT ![r] = 0]
    /\ UNCHANGED <<secret, issued, alive>>

Answered(r) ==
    /\ \/ CallSucceeds(r) \/ CallUnauthorized(r) \/ CallForbidden(r) \/ CallRateLimited(r)
       \/ CallUsageLimited(r) \/ CallFails(r) \/ CallAbandoned(r) \/ GiveUp(r)
    /\ Keep(r, held[r])
    /\ UNCHANGED <<secret, answer, issued, alive>>

-----------------------------------------------------------------------------
(* The administrator.                                                        *)

ReadSecret ==
    /\ \E t \in Tokens : ReadForEdit(t)
    /\ held' = [held EXCEPT ![Admin] = secret[edit'.token]]
    /\ UNCHANGED <<secret, answer, issued, alive>>

PutDown == held' = [held EXCEPT ![Admin] = 0]

\* A patch writes every column back as it was read.
PatchSecret ==
    /\ PatchRow
    /\ secret' = IF Stored(edit.token) THEN [secret EXCEPT ![edit.token] = held[Admin]]
                 ELSE secret
    /\ PutDown
    /\ UNCHANGED <<answer, issued, alive>>

\* An import brings a refresh token of another login ...
LogIn(t) ==
    /\ Issue(t, {})
    /\ secret' = [secret EXCEPT ![t] = issued[t] + 1]
    /\ UNCHANGED answer

\* ... or leaves the one that was read.
ImportSecret ==
    /\ ImportOverRow
    /\ PutDown
    /\ \/ ~ Stored(edit.token) /\ UNCHANGED <<secret, answer, issued, alive>>
       \/ Stored(edit.token) /\ rows'[edit.token].refresh /\ LogIn(edit.token)
       \/ /\ Stored(edit.token) /\ rows'[edit.token].refresh = edit.seen.refresh
          /\ secret' = [secret EXCEPT ![edit.token] = held[Admin]]
          /\ UNCHANGED <<answer, issued, alive>>

ImportNewSecret ==
    /\ \E t \in Tokens :
        /\ ImportNewRow(t)
        /\ IF rows'[t].refresh THEN LogIn(t) ELSE UNCHANGED <<secret, answer, issued, alive>>
    /\ UNCHANGED held

\* Nobody can use the refresh token of a row that is gone, except those who
\* have a copy of it.
DeleteSecret ==
    /\ \E t \in Tokens : DeleteRow(t)
    /\ UNCHANGED secretVars

Others == (ClearCooldowns \/ Tick) /\ UNCHANGED secretVars

-----------------------------------------------------------------------------
RenewalStep(r) ==
    ClaimSecret(r) \/ ProviderRenews(r) \/ StoreRenewal(r) \/ RenewalLost(r) \/ Answered(r)

EditStep == ReadSecret \/ PatchSecret \/ ImportSecret \/ ImportNewSecret \/ DeleteSecret

RenewalNext == (\E r \in Requests : RenewalStep(r)) \/ EditStep \/ Others

RenewalSpec == RenewalInit /\ [][RenewalNext]_renewalVars

\* The fairness of the pool: what the provider does with a renewal adds nothing
\* to it, since a request goes on whether it is answered or not.
FairRenewalSpec == RenewalSpec /\ Fairness

-----------------------------------------------------------------------------
(* Properties.                                                               *)

OnTheWay(t) == \E r \in Requests : request[r].token = t /\ answer[r] # 0

Renewable(t) ==
    Stored(t) /\ secret[t] # 0 => secret[t] \in alive[t] \/ OnTheWay(t)

StaleEdit(t) == edit.token = t /\ held[Admin] \notin alive[t]

(* However renewals of one token overlap, in whatever order they are asked   *)
(* for and stored, and whatever is edited, imported and deleted meanwhile,   *)
(* its row holds a refresh token the provider takes, or will when an answer  *)
(* is stored.  Two things alone strand it: an answer that does not arrive,   *)
(* and an edit or import that writes back the refresh token it read before   *)
(* a renewal used it up.                                                     *)
StrandedByLossOrStaleEdit ==
    [][\A t \in Tokens : Renewable(t) /\ ~ Renewable(t)' =>
           \/ \E r \in Requests : RenewalLost(r) /\ request[r].token = t /\ answer[r] # 0
           \/ (PatchSecret \/ ImportSecret) /\ StaleEdit(t)]_renewalVars
=============================================================================
