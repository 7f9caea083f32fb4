----------------------- MODULE CredentialStore_proofs -----------------------
(***************************************************************************)
(* What every user of the credential table relies on: each rule about a    *)
(* row yields a row, and each call of the store keeps the table's types.   *)
(***************************************************************************)
EXTENDS CredentialStore, TLAPS

-----------------------------------------------------------------------------
(* The rules of CredentialRow.                                               *)

(* The row a plain import starts from is a row. *)
LEMMA FreshRowType == FreshRow \in Rows
  BY RowAssumption DEF FreshRow, Rows, Statuses, NullTimes, Null, Times

(* Reading a row derives one of the known statuses. *)
LEMMA SeenType == \A row \in Rows : Seen(row) \in Rows
  BY DEF Seen, DeriveStatus, Rows, Statuses

(* Every mark leaves a row behind. *)
LEMMA MarkType ==
  ASSUME NEW row \in Rows
  PROVE  /\ Blamed(row) \in Rows
         /\ \A code : AfterFailure(row, code) \in Rows
         /\ \A until \in Times : AfterUsageLimit(row, until) \in Rows
         /\ AfterSuccess(row) \in Rows
         /\ AfterClearCooldown(row) \in Rows
  <1>1. Blamed(row) \in Rows
    BY RowAssumption DEF Blamed, Rows
  <1>2. ASSUME NEW code PROVE AfterFailure(row, code) \in Rows
    <2>1. DefaultCooldown \in NullTimes
      BY RowAssumption DEF NullTimes, Times
    <2>2. [Blamed(row) EXCEPT !.status = "invalid"] \in Rows
      BY <1>1 DEF Rows, Statuses
    <2>3. [Blamed(row) EXCEPT !.status = "cooldown", !.cooldown = DefaultCooldown] \in Rows
      BY <1>1, <2>1 DEF Rows, Statuses
    <2> QED
      BY <1>1, <2>2, <2>3 DEF AfterFailure
  <1>3. ASSUME NEW until \in Times PROVE AfterUsageLimit(row, until) \in Rows
    <2>1. until \in NullTimes
      BY DEF NullTimes
    <2> QED
      BY <1>1, <2>1 DEF AfterUsageLimit, Rows, Statuses
  <1>4. AfterSuccess(row) \in Rows
    <2>1. 0 \in 0..MaxFailures /\ Null \in NullTimes
      BY RowAssumption DEF NullTimes
    <2> QED
      BY <2>1 DEF AfterSuccess, Rows, Statuses
  <1>5. AfterClearCooldown(row) \in Rows
    BY DEF AfterClearCooldown, Rows, Statuses, NullTimes
  <1> QED
    BY <1>1, <1>2, <1>3, <1>4, <1>5

(* So does a renewal, an edit and an import over a row that was read. *)
LEMMA RewriteType ==
  ASSUME NEW seen \in Rows
  PROVE  /\ \A x \in NullTimes : AfterRefresh(seen, x) \in Rows
         /\ \A fields : Patched(seen, fields) \subseteq Rows
         /\ ImportedOver(seen) \subseteq Rows
  <1>1. ASSUME NEW x \in NullTimes PROVE AfterRefresh(seen, x) \in Rows
    BY MarkType DEF AfterRefresh, Rows
  <1>2. ASSUME NEW fields PROVE Patched(seen, fields) \subseteq Rows
    <2>1. seen.enabled \in BOOLEAN /\ seen.status \in Statuses /\ seen.expires \in NullTimes
      BY DEF Rows
    <2>2. PatchStatuses \subseteq Statuses
      BY DEF PatchStatuses, Statuses
    <2>3. ASSUME NEW v \in [enabled : BOOLEAN, status : Statuses, expires : NullTimes]
          PROVE  [seen EXCEPT !.enabled = v.enabled, !.status = v.status,
                              !.expires = v.expires] \in Rows
      BY DEF Rows
    <2> QED
      BY <2>1, <2>2, <2>3 DEF Patched
  <1>3. ImportedOver(seen) \subseteq Rows
    <2>1. seen.expires \in NullTimes /\ Horizon \in NullTimes /\ seen.refresh \in BOOLEAN
      BY RowAssumption DEF Rows, NullTimes, Times
    <2>2. ASSUME NEW v \in [enabled : BOOLEAN, expires : NullTimes, refresh : BOOLEAN]
          PROVE  [FreshRow EXCEPT !.enabled = v.enabled, !.expires = v.expires,
                                  !.refresh = v.refresh] \in Rows
      BY FreshRowType DEF Rows
    <2> QED
      BY <2>1, <2>2 DEF ImportedOver
  <1> QED
    BY <1>1, <1>2, <1>3

(* And so does the clock, which stops at the time it counts down to. *)
LEMMA LaterRowType == \A row \in Rows : LaterRow(row) \in Rows
  <1>1. \A t \in NullTimes : Later(t) \in NullTimes
    BY RowAssumption DEF Later, NullTimes, Times, Null
  <1> QED
    BY <1>1 DEF LaterRow, Rows

-----------------------------------------------------------------------------
(* The order of times.                                                       *)

(* The orders that the store builds relate nodes. *)
LEMMA OrderType ==
  ASSUME StoreTypeOK
  PROVE  /\ \A ns : Without(ns) \in SUBSET (Nodes \X Nodes)
         /\ \A ns \in SUBSET Nodes : Newest(ns) \in SUBSET (Nodes \X Nodes)
         /\ \A n, m \in Nodes : SameTime(n, m) \in SUBSET (Nodes \X Nodes)
  <1>1. Live \subseteq Nodes
    BY DEF StoreTypeOK, Live, Nodes, Births
  <1>2. \A ns : Without(ns) \in SUBSET (Nodes \X Nodes)
    BY DEF StoreTypeOK, Without
  <1>3. ASSUME NEW ns \in SUBSET Nodes PROVE Newest(ns) \in SUBSET (Nodes \X Nodes)
    BY <1>1, <1>2 DEF Newest
  <1>4. ASSUME NEW n \in Nodes, NEW m \in Nodes
        PROVE  SameTime(n, m) \in SUBSET (Nodes \X Nodes)
    <2>1. ASSUME NEW p \in SameTime(n, m) PROVE p \in Nodes \X Nodes
      <3>1. CASE p \in Without({n})
        BY <1>2, <3>1
      <3>2. ASSUME NEW x \in Nodes, p = <<x, n>> \/ p = <<n, x>> PROVE p \in Nodes \X Nodes
        BY <3>2
      <3> QED
        BY <2>1, <3>1, <3>2 DEF SameTime
    <2> QED
      BY <2>1
  <1> QED
    BY <1>2, <1>3, <1>4

-----------------------------------------------------------------------------
(* The calls.                                                                *)

StoreInv == StoreTypeOK /\ DeletedTokenStaysGone

(* Writing a row keeps the table typed and leaves deleted rows alone. *)
LEMMA WriteKeeps ==
  ASSUME StoreInv, NEW t \in Tokens, NEW row \in Rows, Write(t, row)
  PROVE  /\ rows' \in [Tokens -> Rows]
         /\ \A u \in Tokens : life[u] = "deleted" => rows'[u] = FreshRow
  BY DEF StoreInv, StoreTypeOK, DeletedTokenStaysGone, Write, Stored

(* A deleted token is in no order that the store builds, and no step that    *)
(* reads the clock or copies a time puts it there.                           *)
LEMMA OrderKeeps ==
  ASSUME StoreInv, NEW u \in Tokens, life[u] = "deleted"
  PROVE  /\ \A ns : \A p \in Without(ns) : u \notin {p[1], p[2]}
         /\ \A ns : u \notin ns => \A p \in Newest(ns) : u \notin {p[1], p[2]}
         /\ \A n, m \in Nodes : u # n => \A p \in SameTime(n, m) : u \notin {p[1], p[2]}
  <1>1. \A p \in older : u \notin {p[1], p[2]}
    BY DEF StoreInv, DeletedTokenStaysGone
  <1>2. \A ns : \A p \in Without(ns) : u \notin {p[1], p[2]}
    BY <1>1 DEF Without
  <1>3. u \notin Live
    BY StoreAssumption DEF StoreInv, StoreTypeOK, Live, Stored, Births
  <1>4. ASSUME NEW ns, u \notin ns, NEW p \in Newest(ns) PROVE u \notin {p[1], p[2]}
    BY <1>2, <1>3, <1>4 DEF Newest
  <1>5. ASSUME NEW n \in Nodes, NEW m \in Nodes, u # n, NEW p \in SameTime(n, m)
        PROVE  u \notin {p[1], p[2]}
    <2>1. CASE p \in Without({n})
      BY <1>2, <2>1
    <2>2. ASSUME NEW x \in Nodes, <<x, m>> \in older, p = <<x, n>> PROVE u \notin {p[1], p[2]}
      BY <1>1, <1>5, <2>2
    <2>3. ASSUME NEW x \in Nodes, <<m, x>> \in older, p = <<n, x>> PROVE u \notin {p[1], p[2]}
      BY <1>1, <1>5, <2>3
    <2> QED
      BY <1>5, <2>1, <2>2, <2>3 DEF SameTime
  <1> QED
    BY <1>2, <1>4, <1>5

(* Claiming a usable token keeps the store's invariant. *)
LEMMA ClaimKeeps ==
  ASSUME StoreInv, NEW pool, NEW t \in Tokens, NEW hs \in SUBSET Holders, Claim(pool, t, hs)
  PROVE  StoreInv'
  <1>1. Stored(t)
    BY DEF Claim, Front, Usable
  <1>2. StoreTypeOK'
    BY OrderType DEF StoreInv, StoreTypeOK, Claim, Nodes
  <1>3. DeletedTokenStaysGone'
    <2> SUFFICES ASSUME NEW u \in Tokens, life[u] = "deleted"
                 PROVE  rows[u] = FreshRow /\ \A p \in older' : u \notin {p[1], p[2]}
      BY DEF DeletedTokenStaysGone, Claim
    <2>1. u \notin {t} \cup hs
      BY <1>1, StoreAssumption DEF Stored
    <2> QED
      BY <2>1, OrderKeeps DEF Claim, StoreInv, DeletedTokenStaysGone
  <1> QED
    BY <1>2, <1>3 DEF StoreInv

(* So does every mark and every end of holding a copy. *)
LEMMA DropKeeps ==
  ASSUME StoreInv, NEW hs \in SUBSET Holders, Drop(hs), UNCHANGED life,
         rows' \in [Tokens -> Rows],
         \A u \in Tokens : life[u] = "deleted" => rows'[u] = FreshRow
  PROVE  StoreInv'
  <1>1. StoreTypeOK'
    BY OrderType DEF StoreInv, StoreTypeOK, Drop
  <1>2. DeletedTokenStaysGone'
    BY OrderKeeps DEF DeletedTokenStaysGone, Drop
  <1> QED
    BY <1>1, <1>2 DEF StoreInv

(* RecordCredentialSuccess, which also stamps the row. *)
LEMMA MarkSuccessKeeps ==
  ASSUME StoreInv, NEW t \in Tokens, NEW hs \in SUBSET Holders, MarkSuccess(t, hs)
  PROVE  StoreInv'
  <1>1. /\ rows' \in [Tokens -> Rows]
        /\ \A u \in Tokens : life[u] = "deleted" => rows'[u] = FreshRow
    BY WriteKeeps, MarkType DEF MarkSuccess, StoreInv, StoreTypeOK
  <1>2. Live \subseteq Nodes
    BY DEF StoreInv, StoreTypeOK, Live, Nodes, Births
  <1>3. StoreTypeOK'
    BY <1>1, <1>2, OrderType DEF StoreInv, StoreTypeOK, MarkSuccess, Nodes
  <1>4. DeletedTokenStaysGone'
    <2> SUFFICES ASSUME NEW u \in Tokens, life[u] = "deleted"
                 PROVE  \A p \in older' : u \notin {p[1], p[2]}
      BY <1>1 DEF DeletedTokenStaysGone, MarkSuccess
    <2>1. u \notin Live
      BY StoreAssumption DEF StoreInv, StoreTypeOK, Live, Stored, Births
    <2>2. Stored(t) => u # t
      BY DEF Stored
    <2> QED
      BY <2>1, <2>2, OrderKeeps DEF MarkSuccess
  <1> QED
    BY <1>3, <1>4 DEF StoreInv

(* A write-back that also copies a time, if the row is still there, and then *)
(* gives up the copy it came from.                                           *)
LEMMA CopyBackKeeps ==
  ASSUME StoreInv, NEW t \in Tokens, NEW m \in Nodes, NEW h \in Holders,
         NEW row \in Rows, Write(t, row), UNCHANGED life, copies' = copies \ {h},
         older' = {p \in (IF Stored(t) THEN SameTime(t, m) ELSE older) : h \notin {p[1], p[2]}}
  PROVE  StoreInv'
  <1>1. t \in Nodes
    BY DEF Nodes
  <1>2. StoreTypeOK'
    BY <1>1, WriteKeeps, OrderType DEF StoreInv, StoreTypeOK
  <1>3. DeletedTokenStaysGone'
    <2> SUFFICES ASSUME NEW u \in Tokens, life[u] = "deleted"
                 PROVE  \A p \in older' : u \notin {p[1], p[2]}
      BY WriteKeeps DEF DeletedTokenStaysGone
    <2>1. Stored(t) => u # t
      BY DEF Stored
    <2> QED
      BY <1>1, <2>1, OrderKeeps DEF StoreInv, DeletedTokenStaysGone
  <1> QED
    BY <1>2, <1>3 DEF StoreInv

(* UpdateEndpointCredential, by a renewal or an edit and by an import. *)
LEMMA WriteBackKeeps ==
  ASSUME StoreInv, NEW t \in Tokens, NEW row \in Rows, NEW h \in Holders,
         WriteBack(t, row, h) \/ Overwrite(t, row, h)
  PROVE  StoreInv'
  <1>1. h \in Nodes /\ Birth(t) \in Nodes
    BY DEF Nodes, Births
  <1> QED
    BY <1>1, CopyBackKeeps DEF WriteBack, Overwrite

(* GetCredentialByID: the copy has the time of the row. *)
LEMMA TakeCopyKeeps ==
  ASSUME StoreInv, NEW t \in Tokens, NEW h \in Holders, TakeCopy(t, h)
  PROVE  StoreInv'
  <1>1. t \in Nodes /\ h \in Nodes
    BY DEF Nodes
  <1>2. StoreTypeOK'
    BY <1>1, OrderType DEF StoreInv, StoreTypeOK, TakeCopy
  <1>3. DeletedTokenStaysGone'
    BY <1>1, OrderKeeps, StoreAssumption DEF StoreInv, DeletedTokenStaysGone, TakeCopy
  <1> QED
    BY <1>2, <1>3 DEF StoreInv

(* SaveEndpointCredential gives out an id that was never used. *)
LEMMA InsertKeeps ==
  ASSUME StoreInv, NEW t \in Tokens, NEW row \in Rows, Insert(t, row)
  PROVE  StoreInv'
  <1>1. {t, Birth(t)} \in SUBSET Nodes
    BY DEF Nodes, Births
  <1>2. StoreTypeOK'
    BY <1>1, OrderType DEF StoreInv, StoreTypeOK, Insert, Lives
  <1>3. DeletedTokenStaysGone'
    <2> SUFFICES ASSUME NEW u \in Tokens, life'[u] = "deleted"
                 PROVE  rows'[u] = FreshRow /\ \A p \in older' : u \notin {p[1], p[2]}
      BY DEF DeletedTokenStaysGone
    <2>1. u # t /\ life[u] = "deleted"
      BY DEF Insert, StoreInv, StoreTypeOK
    <2>2. u \notin {t, Birth(t)}
      BY <2>1, StoreAssumption DEF Births
    <2> QED
      BY <2>1, <2>2, OrderKeeps DEF Insert, StoreInv, StoreTypeOK, DeletedTokenStaysGone
  <1> QED
    BY <1>2, <1>3 DEF StoreInv

(* DeleteEndpointCredential takes the token out of the order. *)
LEMMA DeleteKeeps ==
  ASSUME StoreInv, NEW t \in Tokens, Delete(t)
  PROVE  StoreInv'
  <1>1. StoreTypeOK'
    BY OrderType, FreshRowType DEF StoreInv, StoreTypeOK, Delete, Lives
  <1>2. DeletedTokenStaysGone'
    <2> SUFFICES ASSUME NEW u \in Tokens, life'[u] = "deleted"
                 PROVE  rows'[u] = FreshRow /\ \A p \in older' : u \notin {p[1], p[2]}
      BY DEF DeletedTokenStaysGone
    <2>1. CASE u = t
      BY <2>1 DEF Delete, Without, StoreInv, StoreTypeOK
    <2>2. CASE u # t
      <3>1. life[u] = "deleted"
        BY <2>2 DEF Delete, StoreInv, StoreTypeOK
      <3> QED
        BY <2>2, <3>1, OrderKeeps DEF Delete, StoreInv, StoreTypeOK, DeletedTokenStaysGone
    <2> QED
      BY <2>1, <2>2
  <1> QED
    BY <1>1, <1>2 DEF StoreInv

(* ClearAllTokenCooldowns and the clock, on every row at once. *)
LEMMA SweepKeeps ==
  ASSUME StoreInv, ClearAllTokenCooldowns \/ Age
  PROVE  StoreInv'
  <1>1. AfterClearCooldown(FreshRow) = FreshRow /\ LaterRow(FreshRow) = FreshRow
    <2>1. FreshRow.cooldown = Null /\ FreshRow.expires = Null /\ Later(Null) = Null
      BY DEF FreshRow, Later, Null
    <2> QED
      BY <2>1, FreshRowType DEF AfterClearCooldown, LaterRow, Rows
  <1>2. StoreTypeOK'
    BY MarkType, LaterRowType DEF StoreInv, StoreTypeOK, ClearAllTokenCooldowns, Age
  <1>3. DeletedTokenStaysGone'
    BY <1>1 DEF StoreInv, DeletedTokenStaysGone, ClearAllTokenCooldowns, Age
  <1> QED
    BY <1>2, <1>3 DEF StoreInv
=============================================================================
