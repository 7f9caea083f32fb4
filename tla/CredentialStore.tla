-------------------------- MODULE CredentialStore --------------------------
(***************************************************************************)
(* The endpoint_credentials table and the operations the rest of the       *)
(* program performs on it, each atomic under SQLiteStorage.mu.  Modules    *)
(* that extend this one own the actions; an operator here says what one    *)
(* call does to storeVars.                                                 *)
(*                                                                         *)
(* last_used_at matters only through the order it gives, so the times      *)
(* themselves are not kept: <<a, b>> \in older says that the time of a is  *)
(* before the time of b, and two nodes neither of which is older hold the  *)
(* same time.  A node is a token (its COALESCE(last_used_at, created_at)), *)
(* a birth (a token's created_at) or a holder (the last_used_at in a copy  *)
(* of a row that some caller still has in hand and may write back).        *)
(***************************************************************************)
EXTENDS CredentialRow

CONSTANTS
    Tokens,   \* the ids the database gives out; an id is never reused
    Holders   \* the callers that may keep a copy of a row across calls

VARIABLES
    rows,     \* the row of each token
    life,     \* has the token been added, and deleted again?
    older,    \* the order of the times described above
    copies    \* the holders that have a copy in hand

storeVars == <<rows, life, older, copies>>

Lives == {"absent", "stored", "deleted"}

Birth(t) == <<"created", t>>
Births == {Birth(t) : t \in Tokens}
Nodes == Tokens \cup Births \cup Holders

\* The three kinds of nodes can be told apart.
ASSUME StoreAssumption ==
    /\ Tokens \cap Holders = {}
    /\ Births \cap (Tokens \cup Holders) = {}

Stored(t) == life[t] = "stored"

StoreTypeOK ==
    /\ rows \in [Tokens -> Rows]
    /\ life \in [Tokens -> Lives]
    /\ older \in SUBSET (Nodes \X Nodes)
    /\ copies \in SUBSET Holders

-----------------------------------------------------------------------------
(* The order of times.                                                       *)

Live == {t \in Tokens : Stored(t)} \cup {Birth(t) : t \in {u \in Tokens : Stored(u)}}
                                   \cup copies

Without(ns) == {p \in older : p[1] \notin ns /\ p[2] \notin ns}

\* The clock is read into the nodes ns: they are the newest from now on.
Newest(ns) == Without(ns) \cup ((Live \ ns) \X ns)

\* Node n takes the time of node m.
SameTime(n, m) ==
    Without({n}) \cup {<<x, n>> : x \in {y \in Nodes \ {n} : <<y, m>> \in older}}
                 \cup {<<n, x>> : x \in {y \in Nodes \ {n} : <<m, y>> \in older}}

-----------------------------------------------------------------------------
(* Selection: queryEndpointCredentials' ORDER BY, restricted to usable rows. *)

Usable(pool) == {t \in pool : Stored(t) /\ IsUsable(rows[t])}

\* Both rows are usable, so a cooldown that is set has passed; NULL sorts first.
\* Rows whose cooldown has passed come in the order of those past times, before
\* anything else is looked at; the times are not kept here, so either may come first.
Precedes(t, u) ==
    /\ rows[t].cooldown = Null
    /\ \/ rows[u].cooldown # Null
       \/ rows[t].failures < rows[u].failures
       \/ rows[t].failures = rows[u].failures /\ <<t, u>> \in older

\* The rows that may come first; rows alike in every column may come in any order.
Front(pool) ==
    {t \in Usable(pool) : \A u \in Usable(pool) : ~ Precedes(u, t)}

\* Mutant: the row is stamped by a success only.
ClaimUnstamped(pool, t, hs) ==
    /\ t \in Front(pool)
    /\ older' = Newest(hs)
    /\ copies' = copies \cup hs
    /\ UNCHANGED <<rows, life>>

\* GetUsableEndpointCredential hands out t, stamped; the holders hs keep a copy.
Claim(pool, t, hs) ==
    /\ t \in Front(pool)
    /\ older' = Newest({t} \cup hs)
    /\ copies' = copies \cup hs
    /\ UNCHANGED <<rows, life>>

\* EarliestTokenCooldown, as the set of its one result: 0 when no enabled token
\* is cooling.
Cooling(pool) == {t \in pool : Stored(t) /\ rows[t].enabled /\ rows[t].cooldown > 0}

EarliestTokenCooldown(pool) ==
    IF Cooling(pool) = {} THEN {0}
    ELSE {rows[t].cooldown : t \in {u \in Cooling(pool) :
              \A v \in Cooling(pool) : rows[u].cooldown <= rows[v].cooldown}}

-----------------------------------------------------------------------------
(* Writes.  An UPDATE of a row that has been deleted changes nothing.  The   *)
(* holders hs are done with their copies when the write is made.             *)

\* Mutant: the row is inserted again if it is gone.
WriteOrInsert(t, row) == rows' = [rows EXCEPT ![t] = row]

Write(t, row) == rows' = IF Stored(t) THEN [rows EXCEPT ![t] = row] ELSE rows

Drop(hs) == older' = Without(hs) /\ copies' = copies \ hs

MarkFailure(t, code, hs) ==
    Write(t, AfterFailure(rows[t], code)) /\ Drop(hs) /\ UNCHANGED life

MarkUsageLimit(t, until, hs) ==
    Write(t, AfterUsageLimit(rows[t], until)) /\ Drop(hs) /\ UNCHANGED life

\* RecordCredentialSuccess also stamps last_used_at.
MarkSuccess(t, hs) ==
    /\ Write(t, AfterSuccess(rows[t]))
    /\ older' = IF Stored(t) THEN Without(hs \cup {t}) \cup ((Live \ (hs \cup {t})) \X {t})
                ELSE Without(hs)
    /\ copies' = copies \ hs
    /\ UNCHANGED life

\* UpdateEndpointCredential: every column, last_used_at among them, is written
\* from the copy in the hands of h, who is done with it then.
WriteBack(t, row, h) ==
    /\ Write(t, row)
    /\ older' = {p \in (IF Stored(t) THEN SameTime(t, h) ELSE older) : h \notin {p[1], p[2]}}
    /\ copies' = copies \ {h}
    /\ UNCHANGED life

\* GetCredentialByID into the hands of h.
TakeCopy(t, h) ==
    older' = SameTime(h, t) /\ copies' = copies \cup {h} /\ UNCHANGED <<rows, life>>

\* SaveEndpointCredential: a new row, created now and never used.
Insert(t, row) ==
    /\ life[t] = "absent"
    /\ life' = [life EXCEPT ![t] = "stored"]
    /\ rows' = [rows EXCEPT ![t] = row]
    /\ older' = Newest({t, Birth(t)})
    /\ UNCHANGED copies

\* UpdateEndpointCredential of an import: last_used_at goes back to NULL.
Overwrite(t, row, h) ==
    /\ Write(t, row)
    /\ older' = {p \in (IF Stored(t) THEN SameTime(t, Birth(t)) ELSE older) :
                     h \notin {p[1], p[2]}}
    /\ copies' = copies \ {h}
    /\ UNCHANGED life

\* DeleteEndpointCredential.
Delete(t) ==
    /\ Stored(t)
    /\ life' = [life EXCEPT ![t] = "deleted"]
    /\ rows' = [rows EXCEPT ![t] = FreshRow]
    /\ older' = Without({t, Birth(t)})
    /\ UNCHANGED copies

ClearAllTokenCooldowns ==
    /\ rows' = [t \in Tokens |-> AfterClearCooldown(rows[t])]
    /\ UNCHANGED <<life, older, copies>>

\* Time passes for every row.
Age == rows' = [t \in Tokens |-> LaterRow(rows[t])] /\ UNCHANGED <<life, older, copies>>

-----------------------------------------------------------------------------
(* Late marks and write-backs by those who still hold a deleted token do     *)
(* not bring anything of it back: every UPDATE names the row by its id, and  *)
(* the id is gone (DeleteEndpointCredential, UpdateEndpointCredential).      *)
DeletedTokenStaysGone ==
    \A t \in Tokens : life[t] = "deleted" =>
        /\ rows[t] = FreshRow
        /\ \A p \in older : t \notin {p[1], p[2]}
=============================================================================
