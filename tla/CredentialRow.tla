--------------------------- MODULE CredentialRow ---------------------------
(***************************************************************************)
(* One row of the endpoint_credentials table and the pure rules of         *)
(* internal/storage/credentials.go about it: the status a reader derives   *)
(* from the stored columns and the clock, and the row each UPDATE leaves   *)
(* behind.                                                                 *)
(*                                                                         *)
(* A time column holds the ticks left until it is reached: Null is SQL     *)
(* NULL, 0 a time that has passed, k > 0 a time k ticks ahead.  Texts      *)
(* (tokens, messages, remarks) are left out, except whether the row has a  *)
(* refresh token.                                                          *)
(***************************************************************************)
EXTENDS Integers

CONSTANTS
    Horizon,          \* the farthest a time column lies ahead, in ticks
    RefreshWindow,    \* needRefreshThreshold, in ticks
    ExpiringWindow,   \* expiringThreshold, in ticks
    DefaultCooldown,  \* defaultCooldown, in ticks
    MaxFailures       \* failure_count is counted up to this bound

ASSUME RowAssumption ==
    /\ Horizon \in Nat \ {0}
    /\ RefreshWindow \in Nat
    /\ ExpiringWindow \in Nat
    /\ RefreshWindow <= ExpiringWindow
    /\ DefaultCooldown \in 1..Horizon
    /\ MaxFailures \in Nat \ {0}

Null == -1
Times == 0..Horizon
NullTimes == Times \cup {Null}

Statuses == {"active", "expiring", "expired", "invalid", "cooldown",
             "disabled", "need_refresh"}

Rows == [enabled  : BOOLEAN,
         status   : Statuses,        \* the column; readers see DeriveStatus
         failures : 0..MaxFailures,
         cooldown : NullTimes,
         expires  : NullTimes,
         refresh  : BOOLEAN]         \* is there a refresh token?

FreshRow == [enabled |-> TRUE, status |-> "active", failures |-> 0,
             cooldown |-> Null, expires |-> Null, refresh |-> FALSE]

-----------------------------------------------------------------------------
(* What readers see.                                                         *)

DeriveStatus(row) ==
    IF ~row.enabled THEN "disabled"
    ELSE IF row.expires = 0 THEN "expired"
    ELSE IF row.cooldown > 0 THEN "cooldown"
    ELSE IF row.status = "invalid" THEN "invalid"
    ELSE IF row.expires = Null THEN "active"
    ELSE IF row.expires <= RefreshWindow /\ row.refresh THEN "need_refresh"
    ELSE IF row.expires <= ExpiringWindow THEN "expiring"
    ELSE "active"

UsableStatuses == {"active", "expiring", "need_refresh"}

\* Mutant: a cooling token is handed out.
IsUsableCooling(row) == DeriveStatus(row) \in UsableStatuses \cup {"cooldown"}

IsUsable(row) == DeriveStatus(row) \in UsableStatuses

\* What GetCredentialByID and GetUsableEndpointCredential hand out: the row
\* with the derived status written over the stored one.
Seen(row) == [row EXCEPT !.status = DeriveStatus(row)]

\* shouldTryCredentialRefresh, on a row as it was handed out.
WantsRefresh(seen) == seen.refresh /\ seen.status = "need_refresh"

-----------------------------------------------------------------------------
(* What each write leaves behind.                                            *)

\* Mutant: the count runs out of its range.
BlamedOnAndOn(row) == [row EXCEPT !.failures = @ + 1]

Blamed(row) ==
    [row EXCEPT !.failures = IF @ < MaxFailures THEN @ + 1 ELSE @]

\* Mutant: every failure writes the status.
AfterFailureActive(row, code) ==
    CASE code \in {401, 403} -> [Blamed(row) EXCEPT !.status = "invalid"]
      [] code = 429          -> [Blamed(row) EXCEPT !.status = "cooldown",
                                                    !.cooldown = DefaultCooldown]
      [] OTHER               -> [Blamed(row) EXCEPT !.status = "active"]

AfterFailure(row, code) ==
    CASE code \in {401, 403} -> [Blamed(row) EXCEPT !.status = "invalid"]
      [] code = 429          -> [Blamed(row) EXCEPT !.status = "cooldown",
                                                    !.cooldown = DefaultCooldown]
      [] OTHER               -> Blamed(row)

AfterUsageLimit(row, until) ==
    [Blamed(row) EXCEPT !.status = "cooldown", !.cooldown = until]

AfterSuccess(row) ==
    [row EXCEPT !.status = "active", !.failures = 0, !.cooldown = Null]

\* The row refreshCredential builds from the row it was handed; expires is the
\* provider's answer, or what the row already had.
AfterRefresh(seen, expires) ==
    [AfterSuccess(seen) EXCEPT !.expires = expires]

AfterClearCooldown(row) ==
    IF row.cooldown = Null THEN row
    ELSE [row EXCEPT !.cooldown = Null,
                     !.status = IF @ = "cooldown" THEN "active" ELSE @]

\* Rows a PATCH may write over the row it read; fields are the columns the
\* request carries, the others are written back as they were read.
PatchStatuses == {"active", "invalid", "cooldown"}

Patched(seen, fields) ==
    {[seen EXCEPT !.enabled = v.enabled, !.status = v.status, !.expires = v.expires] :
        v \in [enabled : IF "enabled" \in fields THEN BOOLEAN ELSE {seen.enabled},
               status  : IF "status" \in fields THEN PatchStatuses ELSE {seen.status},
               expires : IF "expires" \in fields THEN NullTimes ELSE {seen.expires}]}

\* Rows an import writes: the item brings a new access token and maybe an
\* expiry, a refresh token and the enabled flag; what it leaves out of an
\* overwritten row comes from the row read, and the rest starts afresh.
ImportedOver(seen) ==
    {[FreshRow EXCEPT !.enabled = v.enabled, !.expires = v.expires, !.refresh = v.refresh] :
        v \in [enabled : BOOLEAN, expires : {seen.expires, Horizon},
               refresh : {seen.refresh, TRUE}]}

Imported == ImportedOver(FreshRow)

-----------------------------------------------------------------------------
(* The clock.                                                                *)

\* Mutant: a cooldown that is not set is counted down, too.
LaterPast(t) == t - 1

Later(t) == IF t > 0 THEN t - 1 ELSE t

LaterRow(row) == [row EXCEPT !.cooldown = Later(@), !.expires = Later(@)]
=============================================================================
