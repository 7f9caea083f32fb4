---------------------------- MODULE Tokens_proofs -----------------------------
(***************************************************************************)
(* The tokens at work: the pool, and the renewals that are built on it.    *)
(***************************************************************************)
EXTENDS CodexRenewal, CredentialStore_proofs

(***************************************************************************)
(* The token pool, for any numbers of tokens and requests and any rows;    *)
(* parallel claims, where no row is renewed, edited or imported over.      *)
(***************************************************************************)

\* A request in an attempt, and an edit under way, have a token in hand: it is
\* the one that a mark or a write-back will name, be it deleted by then or not.
InHand ==
    /\ \A r \in Requests : request[r].phase # "choosing" => request[r].token \in Tokens
    /\ edit.kind # "none" => edit.token \in Tokens

IInv == TypeOK /\ DeletedTokenStaysGone /\ InHand

(* The initial state satisfies the inductive invariant. *)
LEMMA InitInv == Init => IInv
  <1> SUFFICES ASSUME Init PROVE IInv
    OBVIOUS
  <1>1. StoreTypeOK
    BY FreshRowType, PoolAssumption DEF Init, StoreTypeOK, Lives
  <1>2. Waiting \in RequestStates /\ NoEdit \in EditStates
    BY FreshRowType DEF Waiting, RequestStates, Phases, NoEdit, EditStates
  <1>3. DeletedTokenStaysGone
    BY DEF Init, DeletedTokenStaysGone
  <1>4. InHand
    BY DEF Init, InHand, Waiting, NoEdit
  <1> QED
    BY <1>1, <1>2, <1>3, <1>4 DEF IInv, TypeOK, Init

\* What a step of one request does to the request slots.
Moves(r) ==
    /\ request'[r] \in RequestStates
    /\ request'[r].phase # "choosing" => request'[r].token \in Tokens
    /\ request' = [request EXCEPT ![r] = request'[r]]

(* A step that keeps the store and moves one request keeps the invariant. *)
LEMMA MoveKeeps ==
  ASSUME IInv, StoreInv', NEW r \in Requests, Moves(r), UNCHANGED edit
  PROVE  IInv'
  <1>1. request' \in [Requests -> RequestStates]
    BY DEF IInv, TypeOK, Moves
  <1>2. InHand'
    BY DEF IInv, TypeOK, InHand, Moves
  <1> QED
    BY <1>1, <1>2 DEF IInv, TypeOK, StoreInv

(* A request that goes back to choosing keeps only what it has renewed. *)
LEMMA BackMoves ==
  ASSUME IInv, NEW r \in Requests, Back(r) \/ request' = [request EXCEPT ![r] = Waiting]
  PROVE  Moves(r)
  <1>1. request[r] \in RequestStates
    BY DEF IInv, TypeOK
  <1>2. Waiting \in RequestStates /\ Waiting.phase = "choosing"
    BY FreshRowType DEF Waiting, RequestStates, Phases
  <1>3. [Waiting EXCEPT !.renewed = request[r].renewed] \in RequestStates
    BY <1>1, <1>2 DEF RequestStates
  <1>4. [Waiting EXCEPT !.renewed = request[r].renewed].phase = "choosing"
    BY DEF Waiting
  <1> QED
    BY <1>2, <1>3, <1>4 DEF Moves, Back, IInv, TypeOK

(* A request marks its token and goes back to choosing. *)
LEMMA MarkKeeps ==
  ASSUME IInv, NEW r \in Requests, NEW t \in Tokens,
         \/ \E code \in {0, 401, 403, 429} : MarkFailure(t, code, {r})
         \/ \E d \in UsageCooldowns : MarkUsageLimit(t, d, {r})
         \/ MarkSuccess(t, {r})
  PROVE  StoreInv'
  <1>1. StoreInv /\ {r} \in SUBSET Holders /\ rows[t] \in Rows
    BY PoolAssumption DEF IInv, TypeOK, StoreInv, StoreTypeOK
  <1>2. ASSUME NEW code \in {0, 401, 403, 429}, MarkFailure(t, code, {r}) PROVE StoreInv'
    <2>1. AfterFailure(rows[t], code) \in Rows
      BY <1>1, MarkType
    <2> QED
      BY <1>1, <1>2, <2>1, WriteKeeps, DropKeeps DEF MarkFailure
  <1>3. ASSUME NEW d \in UsageCooldowns, MarkUsageLimit(t, d, {r}) PROVE StoreInv'
    <2>1. AfterUsageLimit(rows[t], d) \in Rows
      BY <1>1, MarkType, RowAssumption, PoolAssumption DEF Times
    <2> QED
      BY <1>1, <1>3, <2>1, WriteKeeps, DropKeeps DEF MarkUsageLimit
  <1>4. CASE MarkSuccess(t, {r})
    BY <1>1, <1>4, MarkSuccessKeeps
  <1> QED
    BY <1>2, <1>3, <1>4

(* Every step preserves the inductive invariant. *)
LEMMA StepInv == IInv /\ [Next]_vars => IInv'
  <1> SUFFICES ASSUME IInv, [Next]_vars PROVE IInv'
    OBVIOUS
  <1>0. StoreInv /\ \A r \in Requests : request[r] \in RequestStates /\ {r} \in SUBSET Holders
    BY PoolAssumption DEF IInv, TypeOK, StoreInv
  <1>1. ASSUME NEW r \in Requests, ClaimToken(r) PROVE IInv'
    <2>1. PICK t \in Tokens : Claim(Tokens, t, {r}) /\ request' = [request EXCEPT
             ![r].token = t,
             ![r].seen  = Seen(rows[t]),
             ![r].phase = IF WantsRefresh(Seen(rows[t])) THEN "preflight" ELSE "calling"]
      BY <1>1 DEF ClaimToken
    <2>2. StoreInv'
      BY <1>0, <2>1, ClaimKeeps
    <2>3. Seen(rows[t]) \in Rows
      BY <1>0, SeenType DEF StoreInv, StoreTypeOK
    <2>4. Moves(r)
      BY <1>0, <2>1, <2>3 DEF Moves, IInv, TypeOK, RequestStates, Phases
    <2> QED
      BY <1>1, <2>2, <2>4, MoveKeeps DEF ClaimToken
  <1>2. ASSUME NEW r \in Requests, RenewalSucceeds(r) PROVE IInv'
    <2> DEFINE seen == request[r].seen
    <2>1. PICK x \in Lifetimes :
            LET row == AfterRefresh(seen, IF x = Null THEN seen.expires ELSE x)
            IN  /\ WriteBack(request[r].token, row, r)
                /\ request' = [request EXCEPT
                     ![r].phase   = IF @ = "preflight" THEN "calling" ELSE "choosing",
                     ![r].token   = IF request[r].phase = "preflight" THEN @ ELSE NoToken,
                     ![r].seen    = IF request[r].phase = "preflight" THEN row ELSE FreshRow,
                     ![r].renewed = @ \cup {request[r].token}]
      BY <1>2 DEF RenewalSucceeds, Renewed
    <2> DEFINE row == AfterRefresh(seen, IF x = Null THEN seen.expires ELSE x)
    <2>2. request[r].token \in Tokens /\ request[r].phase \in {"preflight", "renewing"}
      BY <1>2 DEF RenewalSucceeds, IInv, InHand
    <2>3. row \in Rows
      <3>1. seen \in Rows
        BY <1>0 DEF RequestStates
      <3>2. (IF x = Null THEN seen.expires ELSE x) \in NullTimes
        BY <3>1, PoolAssumption, RowAssumption DEF Rows, NullTimes, Times
      <3> QED
        BY <3>1, <3>2, RewriteType
    <2>4. StoreInv'
      BY <1>0, <2>1, <2>2, <2>3, WriteBackKeeps, PoolAssumption
    <2>5. Moves(r)
      <3>1. PICK p \in {"calling", "choosing"}, t \in {request[r].token, NoToken},
                 s \in {row, FreshRow} :
              /\ request' = [request EXCEPT
                   ![r].phase = p, ![r].token = t, ![r].seen = s,
                   ![r].renewed = @ \cup {request[r].token}]
              /\ p = "calling" => t = request[r].token
        BY <2>1
      <3>2. s \in Rows
        BY <2>3, <3>1, FreshRowType
      <3> HIDE DEF row
      <3>3. request'[r] = [request[r] EXCEPT !.phase = p, !.token = t, !.seen = s,
                                             !.renewed = @ \cup {request[r].token}]
        BY <3>1 DEF IInv, TypeOK
      <3>4. request'[r] \in RequestStates
        <4>1. /\ p \in Phases /\ t \in Tokens \cup {NoToken}
              /\ request[r].renewed \cup {request[r].token} \in SUBSET Tokens
          BY <1>0, <2>2, <3>1 DEF RequestStates, Phases
        <4> QED
          BY <1>0, <3>2, <3>3, <4>1 DEF RequestStates
      <3>5. request'[r].phase = p /\ request'[r].token = t
        BY <1>0, <3>3 DEF RequestStates
      <3>6. request' = [request EXCEPT ![r] = request'[r]]
        BY <3>1, <3>3 DEF IInv, TypeOK
      <3> QED
        BY <2>2, <3>1, <3>4, <3>5, <3>6 DEF Moves
    <2> QED
      BY <1>2, <2>4, <2>5, MoveKeeps DEF RenewalSucceeds
  <1>3. ASSUME NEW r \in Requests, PreflightFails(r) PROVE IInv'
    <2>1. StoreInv'
      BY <1>0, <1>3 DEF PreflightFails, StoreInv, StoreTypeOK, DeletedTokenStaysGone, Stored, storeVars
    <2>2. Moves(r)
      BY <1>0, <1>3 DEF PreflightFails, Moves, IInv, TypeOK, InHand, RequestStates, Phases
    <2> QED
      BY <1>3, <2>1, <2>2, MoveKeeps DEF PreflightFails
  <1>4. ASSUME NEW r \in Requests,
               \/ RenewalFails(r) \/ CallSucceeds(r) \/ CallForbidden(r)
               \/ CallRateLimited(r) \/ CallUsageLimited(r) \/ CallFails(r)
        PROVE  IInv'
    <2> USE <1>4 DEF RenewalFails, CallSucceeds, CallForbidden, CallRateLimited,
                     CallUsageLimited, CallFails, Calling
    <2>1. request[r].token \in Tokens
      BY DEF IInv, InHand
    <2>2. \/ \E code \in {0, 401, 403, 429} : MarkFailure(request[r].token, code, {r})
          \/ \E d \in UsageCooldowns : MarkUsageLimit(request[r].token, d, {r})
          \/ MarkSuccess(request[r].token, {r})
      OBVIOUS
    <2>3. StoreInv'
      BY <2>1, <2>2, MarkKeeps
    <2>4. Moves(r)
      BY BackMoves DEF Back
    <2> QED
      BY <2>3, <2>4, MoveKeeps
  <1>5. ASSUME NEW r \in Requests, CallUnauthorized(r) PROVE IInv'
    <2>1. request[r].token \in Tokens
      BY <1>5 DEF CallUnauthorized, Calling, IInv, InHand
    <2>2. CASE MarkFailure(request[r].token, 401, {r}) /\ Back(r)
      BY <1>5, <2>1, <2>2, MarkKeeps, BackMoves, MoveKeeps DEF CallUnauthorized
    <2>3. CASE /\ request' = [request EXCEPT ![r].phase = "renewing",
                                             ![r].renewed = @ \cup {request[r].token}]
               /\ UNCHANGED storeVars
      <3>1. StoreInv'
        BY <1>0, <2>3 DEF StoreInv, StoreTypeOK, DeletedTokenStaysGone, storeVars
      <3>2. Moves(r)
        BY <1>0, <2>1, <2>3 DEF Moves, IInv, TypeOK, RequestStates, Phases
      <3> QED
        BY <1>5, <3>1, <3>2, MoveKeeps DEF CallUnauthorized
    <2> QED
      BY <1>5, <2>2, <2>3 DEF CallUnauthorized
  <1>6. ASSUME NEW r \in Requests, CallAbandoned(r) PROVE IInv'
    <2>1. StoreInv'
      BY <1>0, <1>6, DropKeeps DEF CallAbandoned, StoreInv, StoreTypeOK, DeletedTokenStaysGone
    <2> QED
      BY <1>6, <2>1, BackMoves, MoveKeeps DEF CallAbandoned
  <1>7. ASSUME NEW r \in Requests, GiveUp(r) PROVE IInv'
    <2>1. StoreInv'
      BY <1>0, <1>7 DEF GiveUp, StoreInv, StoreTypeOK, DeletedTokenStaysGone, storeVars
    <2> QED
      BY <1>7, <2>1, BackMoves, MoveKeeps DEF GiveUp
  <1>8. CASE Administer
    <2>1. ASSUME NEW t \in Tokens, ReadForEdit(t) PROVE IInv'
      <3>1. StoreInv'
        BY <1>0, <2>1, TakeCopyKeeps, PoolAssumption DEF ReadForEdit
      <3>2. Seen(rows[t]) \in Rows
        BY <1>0, SeenType DEF StoreInv, StoreTypeOK
      <3>3. edit' \in EditStates /\ edit'.token = t
        BY <2>1, <3>2 DEF ReadForEdit, EditStates
      <3> QED
        BY <2>1, <3>1, <3>3 DEF ReadForEdit, IInv, TypeOK, StoreInv, InHand
    <2>2. CASE PatchRow \/ ImportOverRow
      <3>1. edit.token \in Tokens /\ edit.seen \in Rows
        BY <2>2 DEF PatchRow, ImportOverRow, IInv, TypeOK, EditStates, InHand
      <3>2. StoreInv'
        BY <1>0, <2>2, <3>1, RewriteType, WriteBackKeeps, PoolAssumption
           DEF PatchRow, ImportOverRow
      <3>3. NoEdit \in EditStates /\ NoEdit.kind = "none"
        BY FreshRowType DEF NoEdit, EditStates
      <3> QED
        BY <2>2, <3>2, <3>3 DEF PatchRow, ImportOverRow, IInv, TypeOK, StoreInv, InHand
    <2>3. CASE ClearCooldowns \/ \E t \in Tokens : ImportNewRow(t) \/ DeleteRow(t)
      <3>1. Imported \subseteq Rows
        BY RewriteType, FreshRowType DEF Imported
      <3>2. StoreInv'
        BY <1>0, <2>3, <3>1, InsertKeeps, DeleteKeeps, SweepKeeps
           DEF ImportNewRow, DeleteRow, ClearCooldowns
      <3> QED
        BY <2>3, <3>2 DEF ImportNewRow, DeleteRow, ClearCooldowns, IInv, TypeOK, StoreInv, InHand
    <2> QED
      BY <1>8, <2>1, <2>2, <2>3 DEF Administer
  <1>9. CASE Tick
    <2>1. StoreInv'
      BY <1>0, <1>9, SweepKeeps DEF Tick
    <2>2. \A r \in Requests :
            /\ [request[r] EXCEPT !.seen = LaterRow(@)] \in RequestStates
            /\ [request[r] EXCEPT !.seen = LaterRow(@)].phase = request[r].phase
            /\ [request[r] EXCEPT !.seen = LaterRow(@)].token = request[r].token
      BY <1>0, LaterRowType DEF RequestStates
    <2>3. edit' \in EditStates /\ edit'.kind = edit.kind /\ edit'.token = edit.token
      BY <1>9, LaterRowType DEF Tick, IInv, TypeOK, EditStates
    <2> QED
      BY <1>9, <2>1, <2>2, <2>3 DEF Tick, IInv, TypeOK, StoreInv, InHand
  <1>10. CASE UNCHANGED vars
    BY <1>10 DEF vars, storeVars, IInv, TypeOK, StoreTypeOK, DeletedTokenStaysGone, InHand
  <1> QED
    BY <1>1, <1>2, <1>3, <1>4, <1>5, <1>6, <1>7, <1>8, <1>9, <1>10 DEF Next, Attempt

(* The inductive invariant holds in every reachable state. *)
THEOREM Invariance == Spec => []IInv
  BY InitInv, StepInv, PTL DEF Spec

(* Every variable of the pool keeps its type. *)
THEOREM TypeInvariant == Spec => []TypeOK
  <1>1. IInv => TypeOK
    BY DEF IInv
  <1> QED
    BY <1>1, Invariance, PTL

(* However late a mark, a renewal, an edit or an import writes back what it  *)
(* read: a deleted token stays deleted, and leaves no trace in the rotation. *)
THEOREM DeletionFinal == Spec => []DeletedTokenStaysGone
  <1>1. IInv => DeletedTokenStaysGone
    BY DEF IInv
  <1> QED
    BY <1>1, Invariance, PTL

(* A failure that says nothing about the credential does not lift its        *)
(* quarantine: the default branch of MarkCredentialFailure counts it and     *)
(* leaves the status as it is.                                               *)
THEOREM QuarantineSurvivesFailures == Spec => BlamelessFailureKeepsQuarantine
  <1> DEFINE Kept == \A r \in Requests : (CallFails(r) \/ CallAbandoned(r)) =>
                         \A t \in Tokens : Quarantined(t) => Quarantined(t)'
  <1>1. IInv /\ [Next]_vars => [Kept]_vars
    <2> SUFFICES ASSUME IInv, NEW r \in Requests, CallFails(r) \/ CallAbandoned(r),
                        NEW t \in Tokens, Quarantined(t)
                 PROVE  Quarantined(t)'
      OBVIOUS
    <2>1. rows \in [Tokens -> Rows] /\ life' = life
      BY DEF IInv, TypeOK, StoreTypeOK, CallFails, CallAbandoned, MarkFailure
    <2>2. CASE CallAbandoned(r)
      BY <2>1, <2>2 DEF CallAbandoned, Quarantined, Stored
    <2>3. CASE CallFails(r)
      <3> DEFINE u == request[r].token
      <3>1. Write(u, Blamed(rows[u]))
        BY <2>3 DEF CallFails, MarkFailure, AfterFailure
      <3>2. rows[t].status = "invalid" /\ Blamed(rows[t]).status = "invalid"
        BY <2>1 DEF Quarantined, Blamed, Rows
      <3>3. rows'[t] \in {rows[t], Blamed(rows[t])}
        BY <2>1, <3>1 DEF Write
      <3> QED
        BY <2>1, <3>2, <3>3 DEF Quarantined, Stored
    <2> QED
      BY <2>2, <2>3
  <1>2. Spec => [][Kept]_vars
    BY <1>1, Invariance, PTL DEF Spec
  <1> QED
    BY <1>2 DEF BlamelessFailureKeepsQuarantine
-----------------------------------------------------------------------------
(* Parallel claims, in a pool whose rows nobody writes back whole: no token  *)
(* can be renewed, and none is edited or imported over.                      *)

PlainPool ==
    /\ \A row \in InitialRows : ~ row.refresh
    /\ AdminActs \subseteq {"delete", "clear"}

\* No renewal and no edit is under way, and none can begin.
Plain ==
    /\ edit.kind = "none"
    /\ \A t \in Tokens : ~ rows[t].refresh
    /\ \A r \in Requests :
        /\ ~ request[r].seen.refresh
        /\ request[r].phase \in {"choosing", "calling"}
        /\ request[r].phase = "choosing" => request[r].token = NoToken

\* Token u was stamped after holder q took its copy of t, or before it, and then
\* t is still the younger of the two.
After(q, t, u) == <<q, u>> \in older \/ (<<u, q>> \in older /\ <<u, t>> \in older)

Spread ==
    \A q \in copies \ {Admin}, t, u \in Tokens :
        (request[q].token = t /\ Stored(t) /\ Stored(u) /\ u # t) => After(q, t, u)

SInv == IInv /\ Plain /\ Spread

(* A row that was never renewable does not become so by a call's result.     *)
LEMMA RefreshStays ==
  /\ \A row \in Rows : Seen(row).refresh = row.refresh /\ LaterRow(row).refresh = row.refresh
  /\ \A row \in Rows : AfterSuccess(row).refresh = row.refresh
                       /\ AfterClearCooldown(row).refresh = row.refresh
  /\ \A row \in Rows, code \in {0, 401, 403, 429} : AfterFailure(row, code).refresh = row.refresh
  /\ \A row \in Rows, d \in UsageCooldowns : AfterUsageLimit(row, d).refresh = row.refresh
  /\ ~ FreshRow.refresh
  BY DEF Rows, Seen, LaterRow, AfterSuccess, AfterClearCooldown, AfterFailure, AfterUsageLimit,
         Blamed, FreshRow

(* What is not taken out of the order and not stamped keeps its place.       *)
LEMMA AfterStays ==
  ASSUME NEW q \in copies \ {Admin}, NEW t \in Tokens, NEW u \in Tokens, After(q, t, u),
         NEW ns, Without(ns) \subseteq older', q \notin ns, t \notin ns, u \notin ns
  PROVE  After(q, t, u)'
  BY DEF After, Without

(* A stamp on one of the tokens does not move it behind anybody's copy.      *)
LEMMA StampSpreads ==
  ASSUME StoreTypeOK, NEW q \in copies \ {Admin}, NEW t \in Tokens, NEW u \in Tokens, u # t,
         Stored(t), Stored(u), After(q, t, u),
         NEW x \in Tokens, NEW hs \in SUBSET Holders, q \notin hs,
         Without({x} \cup hs) \cup ((Live \ ({x} \cup hs)) \X {x}) \subseteq older'
  PROVE  After(q, t, u)'
  <1>1. q \in Holders /\ q \notin Tokens /\ t \notin hs /\ u \notin hs
    BY StoreAssumption DEF StoreTypeOK
  <1>2. q \in Live /\ u \in Live
    BY DEF Live
  <1>3. CASE u = x
    BY <1>1, <1>2, <1>3 DEF After
  <1>4. CASE t = x /\ u # x
    <2>1. <<u, t>> \in older'
      BY <1>1, <1>2, <1>4
    <2>2. \A p \in {<<q, u>>, <<u, q>>} : p \in older => p \in older'
      BY <1>1, <1>4 DEF Without
    <2> QED
      BY <2>1, <2>2 DEF After
  <1>5. CASE t # x /\ u # x
    BY <1>1, <1>5, AfterStays
  <1> QED
    BY <1>3, <1>4, <1>5
(* A call that is over, whatever it marked, gives up its copy.               *)
LEMMA EndSpreads ==
  ASSUME SInv, NEW r \in Requests, NEW w \in RequestStates,
         request' = [request EXCEPT ![r] = w],
         w.phase = "choosing" /\ w.token = NoToken /\ ~ w.seen.refresh,
         UNCHANGED <<life, edit>>, copies' = copies \ {r},
         \A t \in Tokens : ~ rows'[t].refresh,
         \/ Without({r}) \subseteq older'
         \/ \E x \in Tokens :
                Without({x} \cup {r}) \cup ((Live \ ({x} \cup {r})) \X {x}) \subseteq older'
  PROVE  Plain' /\ Spread'
  <1>1. /\ StoreTypeOK /\ Plain /\ Spread /\ {r} \in SUBSET Holders /\ r \notin Tokens
        /\ request \in [Requests -> RequestStates]
    BY PoolAssumption, StoreAssumption DEF SInv, IInv, TypeOK
  <1>2. Plain'
    BY <1>1 DEF Plain
  <1>3. ASSUME NEW q \in copies' \ {Admin}, NEW t \in Tokens, NEW u \in Tokens,
               request'[q].token = t, Stored(t)', Stored(u)', u # t
        PROVE  After(q, t, u)'
    <2>1. /\ q # r /\ q \in copies \ {Admin} /\ q \in Requests
          /\ request[q].token = t /\ Stored(t) /\ Stored(u)
      BY <1>1, <1>3, PoolAssumption DEF StoreTypeOK, Stored
    <2>2. After(q, t, u)
      BY <1>1, <1>3, <2>1 DEF Spread
    <2>3. CASE Without({r}) \subseteq older'
      BY <1>1, <2>1, <2>2, <2>3, AfterStays
    <2>4. CASE \E x \in Tokens :
                 Without({x} \cup {r}) \cup ((Live \ ({x} \cup {r})) \X {x}) \subseteq older'
      BY <1>1, <1>3, <2>1, <2>2, <2>4, StampSpreads
    <2> QED
      BY <2>3, <2>4
  <1> QED
    BY <1>2, <1>3 DEF Spread

(* A claim: the copy is as old as its token, and both are the youngest.      *)
LEMMA ClaimSpreads ==
  ASSUME SInv, NEW r \in Requests, ClaimToken(r)
  PROVE  Plain' /\ Spread'
  <1>1. /\ StoreTypeOK /\ Plain /\ Spread /\ {r} \in SUBSET Holders /\ r \notin Tokens
        /\ request \in [Requests -> RequestStates] /\ r \in Holders
    BY PoolAssumption, StoreAssumption DEF SInv, IInv, TypeOK
  <1>2. PICK x \in Tokens :
          /\ Claim(Tokens, x, {r})
          /\ request' = [request EXCEPT
               ![r].token = x,
               ![r].seen  = Seen(rows[x]),
               ![r].phase = IF WantsRefresh(Seen(rows[x])) THEN "preflight" ELSE "calling"]
    BY DEF ClaimToken
  <1>3. rows[x] \in Rows /\ ~ Seen(rows[x]).refresh
    BY <1>1, RefreshStays DEF StoreTypeOK, Plain
  <1>4. request' = [request EXCEPT ![r].token = x, ![r].seen = Seen(rows[x]),
                                   ![r].phase = "calling"]
    BY <1>2, <1>3 DEF WantsRefresh
  <1>5. /\ UNCHANGED <<rows, life, edit>> /\ copies' = copies \cup {r}
        /\ older' = Without({x} \cup {r}) \cup ((Live \ ({x} \cup {r})) \X ({x} \cup {r}))
    BY <1>2 DEF Claim, Newest, ClaimToken
  <1>6. /\ request'[r].token = x /\ ~ request'[r].seen.refresh /\ request'[r].phase = "calling"
        /\ \A q \in Requests \ {r} : request'[q] = request[q]
    BY <1>1, <1>3, <1>4 DEF RequestStates
  <1>7. Plain'
    BY <1>1, <1>5, <1>6 DEF Plain
  <1>8. ASSUME NEW q \in copies' \ {Admin}, NEW t \in Tokens, NEW u \in Tokens,
               request'[q].token = t, Stored(t)', Stored(u)', u # t
        PROVE  After(q, t, u)'
    <2>1. Stored(t) /\ Stored(u) /\ q \in Requests
      BY <1>1, <1>5, <1>8, PoolAssumption DEF StoreTypeOK, Stored
    <2>2. CASE q = r
      <3>1. t = x /\ u \in Live /\ u \notin {x} \cup {r}
        BY <1>1, <1>6, <1>8, <2>1, <2>2 DEF Live
      <3> QED
        BY <1>5, <2>2, <3>1 DEF After
    <2>3. CASE q # r
      <3>1. q \in copies \ {Admin} /\ request[q].token = t /\ q \notin {r}
        BY <1>5, <1>6, <1>8, <2>1, <2>3
      <3>2. After(q, t, u)
        BY <1>1, <1>8, <2>1, <3>1 DEF Spread
      <3>3. Without({x} \cup {r}) \cup ((Live \ ({x} \cup {r})) \X {x}) \subseteq older'
        BY <1>5
      <3> QED
        BY <1>1, <1>8, <2>1, <3>1, <3>2, <3>3, StampSpreads
    <2> QED
      BY <2>2, <2>3
  <1> QED
    BY <1>7, <1>8 DEF Spread

(* The other writes of a pool that nobody edits keep the order of what stays. *)
LEMMA UpkeepSpreads ==
  ASSUME SInv, PlainPool, Administer \/ Tick \/ UNCHANGED vars
  PROVE  Plain' /\ Spread'
  <1>1. /\ StoreTypeOK /\ Plain /\ Spread
        /\ request \in [Requests -> RequestStates]
    BY DEF SInv, IInv, TypeOK
  <1>2. CASE \E x \in Tokens : DeleteRow(x)
    <2>1. PICK x \in Tokens : Stored(x) /\ life' = [life EXCEPT ![x] = "deleted"]
                              /\ rows' = [rows EXCEPT ![x] = FreshRow]
                              /\ older' = Without({x, Birth(x)})
                              /\ UNCHANGED <<copies, request, edit>>
      BY <1>2 DEF DeleteRow, Delete
    <2>2. Plain'
      BY <1>1, <2>1, RefreshStays DEF Plain, StoreTypeOK
    <2>3. ASSUME NEW q \in copies \ {Admin}, NEW t \in Tokens, NEW u \in Tokens,
                 request[q].token = t, Stored(t)', Stored(u)', u # t
          PROVE  After(q, t, u)'
      <3>1. t # x /\ u # x /\ Stored(t) /\ Stored(u)
        BY <1>1, <2>1, <2>3 DEF StoreTypeOK, Stored
      <3>2. \A y \in {q, t, u} : y \notin {x, Birth(x)}
        <4>1. q \in Holders /\ Birth(x) \in Births
          BY <1>1 DEF StoreTypeOK, Births
        <4> QED
          BY <3>1, <4>1, StoreAssumption
      <3>3. After(q, t, u)
        BY <1>1, <2>3, <3>1 DEF Spread
      <3> QED
        BY <2>1, <3>2, <3>3, AfterStays
    <2> QED
      BY <2>1, <2>2, <2>3 DEF Spread
  <1>3. CASE ClearCooldowns
    <2>1. /\ \A t \in Tokens : rows'[t] = AfterClearCooldown(rows[t])
          /\ UNCHANGED <<life, older, copies, request, edit>>
      BY <1>3 DEF ClearCooldowns, ClearAllTokenCooldowns
    <2>2. Plain'
      BY <1>1, <2>1, RefreshStays DEF Plain, StoreTypeOK
    <2> QED
      BY <1>1, <2>1, <2>2 DEF Spread, After, Stored
  <1>4. CASE Tick
    <2>1. /\ \A t \in Tokens : rows'[t] = LaterRow(rows[t])
          /\ UNCHANGED <<life, older, copies>>
          /\ edit'.kind = edit.kind
      BY <1>4 DEF Tick, Age, SInv, IInv, TypeOK, EditStates
    <2>2. \A r \in Requests : /\ request'[r].seen = LaterRow(request[r].seen)
                              /\ request'[r].phase = request[r].phase
                              /\ request'[r].token = request[r].token
                              /\ request[r].seen \in Rows
      BY <1>1, <1>4 DEF Tick, RequestStates
    <2>3. Plain'
      BY <1>1, <2>1, <2>2, RefreshStays DEF Plain, StoreTypeOK
    <2>4. \A q \in copies \ {Admin} : q \in Requests
      BY <1>1, PoolAssumption DEF StoreTypeOK
    <2> QED
      BY <1>1, <2>1, <2>2, <2>3, <2>4 DEF Spread, After, Stored
  <1>5. CASE UNCHANGED vars
    BY <1>1, <1>5 DEF vars, storeVars, Plain, Spread, After, Stored
  <1>6. ASSUME Administer PROVE ClearCooldowns \/ \E x \in Tokens : DeleteRow(x)
    <2>1. EditFields = {} /\ "import" \notin AdminActs
      BY DEF PlainPool, EditFields
    <2>2. \A x \in Tokens : ~ ReadForEdit(x) /\ ~ ImportNewRow(x)
      BY <2>1 DEF ReadForEdit, ImportNewRow
    <2>3. ~ PatchRow /\ ~ ImportOverRow
      BY <1>1 DEF Plain, PatchRow, ImportOverRow
    <2> QED
      BY <1>6, <2>2, <2>3 DEF Administer
  <1> QED
    BY <1>2, <1>3, <1>4, <1>5, <1>6

(* What a mark does to a row and to the order.                               *)
LEMMA MarksSpread ==
  ASSUME SInv, NEW r \in Requests, NEW t \in Tokens,
         \/ \E code \in {0, 401, 403, 429} : MarkFailure(t, code, {r})
         \/ \E d \in UsageCooldowns : MarkUsageLimit(t, d, {r})
         \/ MarkSuccess(t, {r})
  PROVE  /\ UNCHANGED life /\ copies' = copies \ {r}
         /\ \A u \in Tokens : ~ rows'[u].refresh
         /\ \/ Without({r}) \subseteq older'
            \/ \E x \in Tokens :
                  Without({x} \cup {r}) \cup ((Live \ ({x} \cup {r})) \X {x}) \subseteq older'
  <1>1. rows \in [Tokens -> Rows] /\ \A u \in Tokens : ~ rows[u].refresh
    BY DEF SInv, IInv, TypeOK, StoreTypeOK, Plain
  <1>2. PICK row : Write(t, row) /\ ~ row.refresh
    BY <1>1, RefreshStays DEF MarkFailure, MarkUsageLimit, MarkSuccess
  <1>3. \A u \in Tokens : ~ rows'[u].refresh
    BY <1>1, <1>2 DEF Write
  <1>4. UNCHANGED life /\ copies' = copies \ {r}
    BY DEF MarkFailure, MarkUsageLimit, MarkSuccess, Drop
  <1>5. \/ older' = Without({r})
        \/ older' = Without({r} \cup {t}) \cup ((Live \ ({r} \cup {t})) \X {t})
    BY DEF MarkFailure, MarkUsageLimit, MarkSuccess, Drop
  <1>6. {r} \cup {t} = {t} \cup {r}
    OBVIOUS
  <1> QED
    BY <1>3, <1>4, <1>5, <1>6

(* Every step of a plain pool keeps the spread.                              *)
LEMMA StepSpread ==
  ASSUME PlainPool, SInv, [Next]_vars
  PROVE  SInv'
  <1>1. IInv' /\ StoreTypeOK /\ Plain /\ Spread
    BY StepInv DEF SInv, IInv, TypeOK
  <1>2. ASSUME NEW r \in Requests, Attempt(r) \/ GiveUp(r) PROVE Plain' /\ Spread'
    <2>1. /\ request[r] \in RequestStates /\ ~ request[r].seen.refresh
          /\ request[r].phase \in {"choosing", "calling"}
          /\ request \in [Requests -> RequestStates]
      BY <1>1 DEF Plain, SInv, IInv, TypeOK
    <2>2. CASE ClaimToken(r)
      BY <2>2, ClaimSpreads
    <2>3. CASE RenewalSucceeds(r) \/ PreflightFails(r) \/ RenewalFails(r)
      BY <2>1, <2>3 DEF RenewalSucceeds, PreflightFails, RenewalFails
    <2>4. PICK w \in {Waiting, [Waiting EXCEPT !.renewed = request[r].renewed]} :
            ~ ClaimToken(r) /\ ~ (RenewalSucceeds(r) \/ PreflightFails(r) \/ RenewalFails(r))
            => request' = [request EXCEPT ![r] = w]
      BY <1>2, <2>1 DEF Attempt, GiveUp, CallSucceeds, CallUnauthorized, CallForbidden,
           CallRateLimited, CallUsageLimited, CallFails, CallAbandoned, Back
    <2>5. w \in RequestStates /\ w.phase = "choosing" /\ w.token = NoToken /\ ~ w.seen.refresh
      <3>1. Waiting \in RequestStates
        BY FreshRowType DEF Waiting, RequestStates, Phases
      <3>2. request[r].renewed \in SUBSET Tokens
        BY <2>1 DEF RequestStates
      <3> QED
        BY <2>4, <3>1, <3>2, RefreshStays DEF Waiting, RequestStates
    <2>6. CASE CallAbandoned(r)
      <3>1. /\ request' = [request EXCEPT ![r] = w]
            /\ UNCHANGED <<rows, life, edit>> /\ older' = Without({r}) /\ copies' = copies \ {r}
        BY <2>1, <2>4, <2>6 DEF CallAbandoned, Calling, Drop, ClaimToken, RenewalSucceeds,
             PreflightFails, RenewalFails
      <3> QED
        BY <1>1, <2>5, <3>1, EndSpreads DEF Plain
    <2>7. CASE GiveUp(r)
      <3>1. /\ request' = [request EXCEPT ![r] = Waiting] /\ UNCHANGED <<storeVars, edit>>
            /\ ~ Waiting.seen.refresh /\ Waiting.phase = "choosing" /\ Waiting.token = NoToken
        BY <2>7, RefreshStays DEF GiveUp, Waiting
      <3>2. Plain'
        BY <1>1, <2>1, <3>1 DEF Plain, storeVars
      <3>3. \A q \in copies \ {Admin} : q \in Requests
        BY <1>1, PoolAssumption DEF StoreTypeOK
      <3> QED
        BY <1>1, <2>1, <3>1, <3>2, <3>3, PoolAssumption DEF Spread, After, Stored, storeVars
    <2>8. CASE \/ CallSucceeds(r) \/ CallUnauthorized(r) \/ CallForbidden(r)
               \/ CallRateLimited(r) \/ CallUsageLimited(r) \/ CallFails(r)
      <3> DEFINE t == request[r].token
      <3>1. request[r].phase = "calling" /\ t \in Tokens /\ UNCHANGED edit
        BY <1>1, <2>8 DEF CallSucceeds, CallUnauthorized, CallForbidden, CallRateLimited,
             CallUsageLimited, CallFails, Calling, SInv, IInv, InHand
      <3>2. request' = [request EXCEPT ![r] = w]
        BY <2>1, <2>4, <3>1 DEF ClaimToken, RenewalSucceeds, PreflightFails, RenewalFails
      <3>3. \/ \E code \in {0, 401, 403, 429} : MarkFailure(t, code, {r})
            \/ \E d \in UsageCooldowns : MarkUsageLimit(t, d, {r})
            \/ MarkSuccess(t, {r})
        BY <2>1, <2>8 DEF CallSucceeds, CallUnauthorized, CallForbidden, CallRateLimited,
             CallUsageLimited, CallFails
      <3>4. /\ UNCHANGED life /\ copies' = copies \ {r}
            /\ \A u \in Tokens : ~ rows'[u].refresh
            /\ \/ Without({r}) \subseteq older'
               \/ \E x \in Tokens :
                     Without({x} \cup {r}) \cup ((Live \ ({x} \cup {r})) \X {x}) \subseteq older'
        <4> HIDE DEF t
        <4> QED
          BY <3>1, <3>3, MarksSpread
      <3> HIDE DEF t
      <3> QED
        BY <2>5, <3>1, <3>2, <3>4, EndSpreads
    <2> QED
      BY <1>2, <2>2, <2>3, <2>6, <2>7, <2>8 DEF Attempt
  <1>3. Plain' /\ Spread'
    BY <1>2, UpkeepSpreads DEF Next
  <1> QED
    BY <1>1, <1>3 DEF SInv

(* A pool pasted in one go has no copies yet.                                *)
LEMMA InitSpread == PlainPool /\ Init => SInv
  <1> SUFFICES ASSUME PlainPool, Init PROVE SInv
    OBVIOUS
  <1>1. Plain
    BY RefreshStays DEF PlainPool, Init, Plain, Waiting, NoEdit
  <1> QED
    BY <1>1, InitInv DEF SInv, Spread, Init

(* Parallel requests spread over the tokens that have no cooldown on record: *)
(* one that another request has in use is handed out again only if every     *)
(* usable one with as many failures was stamped after that request's claim,  *)
(* for any numbers of tokens and requests.  It holds where no row is written *)
(* back whole, with the last_used_at it was read with: a renewal or an edit  *)
(* undoes the stamp.                                                         *)
THEOREM PlainPoolSpreads == PlainPool => (Spec => ParallelClaimsSpread)
  <1> DEFINE Spreads == \A r \in Requests, t \in Tokens :
                 (request[r].phase = "choosing" /\ request'[r].token = t) =>
                     \A q \in copies \ {Admin}, u \in Usable(Tokens) \ {t} :
                         (request[q].token = t /\ Alike(t, u)) => <<q, u>> \in older
  <1> SUFFICES ASSUME PlainPool PROVE Spec => ParallelClaimsSpread
    OBVIOUS
  <1>1. SInv /\ [Next]_vars => [Spreads]_vars
    <2> SUFFICES ASSUME SInv, [Next]_vars, vars' # vars,
                        NEW r \in Requests, NEW t \in Tokens,
                        request[r].phase = "choosing", request'[r].token = t,
                        NEW q \in copies \ {Admin}, NEW u \in Usable(Tokens) \ {t},
                        request[q].token = t, Alike(t, u)
                 PROVE  <<q, u>> \in older
      OBVIOUS
    <2>1. SInv' /\ request \in [Requests -> RequestStates]
      BY StepSpread DEF SInv, IInv, TypeOK
    <2>2. t \in Front(Tokens)
      <3>1. /\ request[r].token = NoToken /\ t # NoToken
            /\ \A s \in Requests : request[s].phase \in {"choosing", "calling"}
        BY PoolAssumption DEF SInv, Plain
      <3>2. ASSUME NEW s \in Requests, Attempt(s) \/ GiveUp(s)
            PROVE  s = r /\ ClaimToken(r)
        <4>1. ~ ClaimToken(s) => request'[s].token = NoToken \/ request[s].phase # "choosing"
          BY <2>1, <3>1, <3>2 DEF Attempt, GiveUp, RenewalSucceeds, PreflightFails, RenewalFails,
               CallSucceeds, CallUnauthorized, CallForbidden, CallRateLimited, CallUsageLimited,
               CallFails, CallAbandoned, Calling, Waiting
        <4>2. s # r => request'[r] = request[r]
          BY <2>1, <3>1, <3>2 DEF Attempt, GiveUp, ClaimToken, RenewalSucceeds, PreflightFails,
               RenewalFails, CallSucceeds, CallUnauthorized, CallForbidden, CallRateLimited,
               CallUsageLimited, CallFails, CallAbandoned, Calling, Back
        <4> QED
          BY <3>1, <4>1, <4>2
      <3>3. ~ Administer
        BY <3>1 DEF Administer, ReadForEdit, ImportNewRow, DeleteRow, PatchRow, ImportOverRow,
             ClearCooldowns
      <3>4. ~ Tick
        BY <2>1, <3>1 DEF Tick, RequestStates
      <3>5. ClaimToken(r)
        BY <3>2, <3>3, <3>4 DEF Next
      <3> QED
        BY <2>1, <3>5 DEF ClaimToken, Claim, RequestStates
    <2>3. t \in Usable(Tokens) /\ ~ Precedes(u, t) /\ Stored(t) /\ Stored(u) /\ u \in Tokens
      BY <2>2 DEF Front, Usable
    <2>4. <<u, t>> \notin older
      BY <2>3 DEF Precedes, Alike
    <2> QED
      BY <2>3, <2>4 DEF SInv, Spread, After
  <1>2. Init => SInv
    BY InitSpread
  <1>3. SInv /\ [Next]_vars => SInv'
    BY StepSpread
  <1>4. Spec => [][Spreads]_vars
    BY <1>1, <1>2, <1>3, PTL DEF Spec
  <1> QED
    BY <1>4 DEF ParallelClaimsSpread

(***************************************************************************)
(* The renewals, for any numbers of tokens, requests and refresh tokens.   *)
(***************************************************************************)

\* Every number is one that the provider has given out for its token.
Numbered ==
    \A t \in Tokens :
        /\ alive[t] \subseteq 1..issued[t]
        /\ secret[t] <= issued[t]
        /\ life[t] = "absent" => secret[t] = 0
        /\ \A r \in Requests : request[r].token = t => held[r] <= issued[t] /\ answer[r] <= issued[t]
        /\ edit.token = t => held[Admin] <= issued[t]

\* Request r alone has number n of token t.
OnlyWith(r, t, n) ==
    /\ secret[t] # n
    /\ \A q \in Requests : request[q].token = t => held[q] # n /\ (q # r => answer[q] # n)
    /\ edit.token = t => held[Admin] # n

\* The provider takes what it has answered, until the one that has it uses it.
AnswerKept(r) ==
    /\ request[r].phase \in {"preflight", "renewing"}
    /\ answer[r] \in alive[request[r].token]
    /\ OnlyWith(r, request[r].token, answer[r])

AnswersKept == \A r \in Requests : answer[r] # 0 => AnswerKept(r)

SecretsTyped ==
    /\ secret \in [Tokens -> Numbers]
    /\ held \in [Holders -> Numbers]
    /\ answer \in [Requests -> Numbers]
    /\ issued \in [Tokens -> Numbers]
    /\ alive \in [Tokens -> SUBSET Numbers]

RInv == IInv /\ SecretsTyped /\ Numbered /\ AnswersKept

(* The steps of the renewals are steps of the pool, or the provider's own. *)
LEMMA StepOfPool == RenewalNext => [Next]_vars
  <1>1. ASSUME NEW r \in Requests, RenewalStep(r) PROVE [Next]_vars
    BY <1>1 DEF RenewalStep, ClaimSecret, ProviderRenews, StoreRenewal, RenewalLost, Answered,
                Next, Attempt
  <1>2. CASE EditStep
    BY <1>2 DEF EditStep, ReadSecret, PatchSecret, ImportSecret, ImportNewSecret, DeleteSecret,
                Next, Administer
  <1>3. CASE Others
    BY <1>3 DEF Others, Next, Administer
  <1> QED
    BY <1>1, <1>2, <1>3 DEF RenewalNext

(* The initial state satisfies the inductive invariant. *)
LEMMA RenewalInitInv == RenewalInit => RInv
  <1> SUFFICES ASSUME RenewalInit PROVE RInv
    OBVIOUS
  <1>1. IInv
    BY InitInv DEF RenewalInit
  <1>2. \A t \in Tokens : First(t) \in {0, 1} /\ First(t) \in Numbers
    BY RenewalAssumption DEF First, Numbers
  <1>3. SecretsTyped
    <2>1. 0 \in Numbers /\ \A t \in Tokens : {First(t)} \ {0} \in SUBSET Numbers
      BY <1>2, RenewalAssumption DEF Numbers
    <2> QED
      BY <1>2, <2>1 DEF RenewalInit, SecretsTyped
  <1>4. Numbered
    <2>1. \A t \in Tokens : life[t] = "absent" => First(t) = 0
      BY DEF RenewalInit, Init, First, Stored, FreshRow
    <2>3. Admin \in Holders /\ Requests \subseteq Holders
      BY PoolAssumption
    <2> QED
      BY <1>2, <2>1, <2>3 DEF RenewalInit, Numbered
  <1>5. AnswersKept
    BY DEF RenewalInit, AnswersKept
  <1> QED
    BY <1>1, <1>3, <1>4, <1>5 DEF RInv

\* What a step of one request does to the slots: it keeps its token or has none.
Steps(r) ==
    /\ \A q \in Requests \ {r} : request'[q] = request[q]
    /\ \/ request'[r].token = request[r].token
       \/ request'[r].token = NoToken
    /\ UNCHANGED <<life, edit>>

(* A request stores its answer, gives it up, or has none: then what it holds *)
(* and what it stores is nobody else's answer.                               *)
LEMMA RequestKeeps ==
  ASSUME RInv, IInv', NEW r \in Requests, Steps(r),
         NEW s \in {0, held[r], answer[r]}, held' = [held EXCEPT ![r] = s],
         answer' = [answer EXCEPT ![r] = 0],
         \/ UNCHANGED secret
         \/ /\ request[r].token \in Tokens /\ life[request[r].token] # "absent"
            /\ secret' = [secret EXCEPT ![request[r].token] = answer[r]],
         UNCHANGED <<issued, alive>>
  PROVE  RInv'
  <1> USE DEF RInv
  <1>0. /\ Admin \in Holders /\ Requests \subseteq Holders /\ Admin \notin Requests
        /\ NoToken \notin Tokens
    BY PoolAssumption
  <1>1. SecretsTyped'
    BY <1>0, RenewalAssumption DEF SecretsTyped, Numbers
  <1>2. held'[Admin] = held[Admin] /\ \A q \in Requests \ {r} : held'[q] = held[q] /\ answer'[q] = answer[q]
    BY <1>0 DEF SecretsTyped
  <1>3. held'[r] = s /\ answer'[r] = 0
    BY <1>0 DEF SecretsTyped
  <1>4. Numbered'
    <2> SUFFICES ASSUME NEW t \in Tokens
                 PROVE  /\ alive[t] \subseteq 1..issued[t]
                        /\ secret'[t] <= issued[t]
                        /\ life'[t] = "absent" => secret'[t] = 0
                        /\ \A q \in Requests : request'[q].token = t =>
                               held'[q] <= issued[t] /\ answer'[q] <= issued[t]
                        /\ edit'.token = t => held'[Admin] <= issued[t]
      BY DEF Numbered
    <2>1. issued[t] \in Nat /\ 0 <= issued[t]
      BY DEF SecretsTyped, Numbers
    <2>2. secret'[t] <= issued[t] /\ (life'[t] = "absent" => secret'[t] = 0)
      BY DEF Steps, Numbered, SecretsTyped
    <2>3. ASSUME request'[r].token = t PROVE held'[r] <= issued[t] /\ answer'[r] <= issued[t]
      BY <1>0, <1>3, <2>1, <2>3 DEF Steps, Numbered
    <2>4. \A q \in Requests \ {r} : request'[q].token = t => held'[q] <= issued[t] /\ answer'[q] <= issued[t]
      BY <1>2 DEF Steps, Numbered
    <2> QED
      BY <1>2, <2>2, <2>3, <2>4 DEF Numbered, Steps
  <1>5. AnswersKept'
    <2> SUFFICES ASSUME NEW p \in Requests, answer'[p] # 0 PROVE AnswerKept(p)'
      BY DEF AnswersKept
    <2> DEFINE t == request[p].token
    <2>1. p # r /\ answer'[p] = answer[p] /\ request'[p] = request[p] /\ AnswerKept(p)
      BY <1>2, <1>3 DEF AnswersKept, Steps
    <2>2. t \in Tokens
      BY <2>1 DEF AnswerKept, IInv, InHand
    <2>3. request[r].token = t => answer[r] # answer[p] /\ s # answer[p]
      BY <2>1 DEF AnswerKept, OnlyWith
    <2>4. secret'[t] # answer[p]
      BY <2>1, <2>2, <2>3 DEF AnswerKept, OnlyWith, SecretsTyped
    <2>5. ASSUME NEW q \in Requests, request'[q].token = t
          PROVE  held'[q] # answer[p] /\ (q # p => answer'[q] # answer[p])
      <3>1. CASE q = r
        BY <1>0, <1>3, <2>1, <2>2, <2>3, <2>5, <3>1 DEF Steps
      <3>2. CASE q # r
        BY <1>2, <2>1, <2>5, <3>2 DEF Steps, AnswerKept, OnlyWith
      <3> QED
        BY <3>1, <3>2
    <2> QED
      BY <1>2, <2>1, <2>4, <2>5 DEF AnswerKept, OnlyWith, Steps
  <1> QED
    BY <1>1, <1>4, <1>5

(* How the steps of a request move it. *)
LEMMA RequestSteps ==
  ASSUME RInv, NEW r \in Requests
  PROVE  /\ StoreRenewal(r) \/ RenewalLost(r) \/ Answered(r) => Steps(r)
         /\ Answered(r) => answer[r] = 0
         /\ ClaimToken(r) =>
              /\ answer[r] = 0 /\ request'[r].token \in Tokens
              /\ \A q \in Requests \ {r} : request'[q] = request[q]
              /\ UNCHANGED <<life, edit>>
  <1> USE DEF RInv
  <1>0. request \in [Requests -> RequestStates]
    BY DEF IInv, TypeOK
  <1>1. request[r] \in RequestStates
    BY <1>0
  <1>2. ASSUME Back(r) \/ request' = [request EXCEPT ![r] = Waiting]
        PROVE  /\ \A q \in Requests \ {r} : request'[q] = request[q]
               /\ request'[r].token = NoToken
    <2>1. request'[r] \in {Waiting, [Waiting EXCEPT !.renewed = request[r].renewed]}
      BY <1>0, <1>2 DEF Back
    <2>2. \A q \in Requests \ {r} : request'[q] = request[q]
      BY <1>0, <1>2 DEF Back
    <2> QED
      BY <2>1, <2>2 DEF Waiting
  <1>3. ASSUME StoreRenewal(r) PROVE Steps(r)
    <2>1. PICK s \in Rows \cup {FreshRow, AfterRefresh(request[r].seen, request[r].seen.expires)}
                 \cup {AfterRefresh(request[r].seen, x) : x \in Lifetimes},
               p \in {"calling", "choosing"}, t \in {request[r].token, NoToken} :
            request' = [request EXCEPT ![r].phase = p, ![r].token = t, ![r].seen = s,
                                       ![r].renewed = @ \cup {request[r].token}]
      BY <1>3 DEF StoreRenewal, RenewalSucceeds, Renewed
    <2>2. \A q \in Requests \ {r} : request'[q] = request[q]
      BY <1>0, <2>1
    <2>3. request'[r].token = t
      BY <1>0, <1>1, <2>1 DEF RequestStates
    <2> QED
      BY <1>3, <2>1, <2>2, <2>3 DEF Steps, StoreRenewal, RenewalSucceeds, Renewed, WriteBack
  <1>4. ASSUME RenewalLost(r) PROVE Steps(r)
    <2>1. CASE PreflightFails(r)
      BY <1>0, <1>1, <2>1 DEF PreflightFails, Steps, RequestStates, storeVars
    <2>2. CASE RenewalFails(r)
      BY <1>2, <2>2 DEF RenewalFails, Back, Steps, MarkFailure
    <2> QED
      BY <1>4, <2>1, <2>2 DEF RenewalLost
  <1>5. ASSUME Answered(r) PROVE Steps(r) /\ answer[r] = 0
    <2>1. request[r].phase \in {"calling", "choosing"}
      BY <1>5 DEF Answered, CallSucceeds, CallUnauthorized, CallForbidden, CallRateLimited,
                  CallUsageLimited, CallFails, CallAbandoned, GiveUp, Calling
    <2>2. answer[r] = 0
      BY <2>1 DEF AnswersKept, AnswerKept
    <2>3. UNCHANGED <<life, edit>>
      BY <1>5 DEF Answered, CallSucceeds, CallUnauthorized, CallForbidden, CallRateLimited,
                  CallUsageLimited, CallFails, CallAbandoned, GiveUp, MarkFailure,
                  MarkUsageLimit, MarkSuccess, storeVars
    <2>4. CASE request' = [request EXCEPT ![r].phase = "renewing",
                                          ![r].renewed = @ \cup {request[r].token}]
      BY <1>0, <1>1, <2>2, <2>3, <2>4 DEF Steps, RequestStates
    <2>5. CASE Back(r) \/ request' = [request EXCEPT ![r] = Waiting]
      BY <1>2, <2>2, <2>3, <2>5 DEF Steps
    <2> QED
      BY <1>5, <2>4, <2>5 DEF Answered, CallSucceeds, CallUnauthorized, CallForbidden,
                  CallRateLimited, CallUsageLimited, CallFails, CallAbandoned, GiveUp, Back
  <1>6. ASSUME ClaimToken(r)
        PROVE  /\ answer[r] = 0 /\ request'[r].token \in Tokens
               /\ \A q \in Requests \ {r} : request'[q] = request[q]
               /\ UNCHANGED <<life, edit>>
    <2>1. answer[r] = 0
      BY <1>6 DEF ClaimToken, AnswersKept, AnswerKept
    <2> QED
      BY <1>0, <1>1, <1>6, <2>1 DEF ClaimToken, Claim, RequestStates
  <1> QED
    BY <1>3, <1>4, <1>5, <1>6

(* Every step of a request preserves the inductive invariant. *)
LEMMA RequestInv ==
  ASSUME RInv, IInv', NEW r \in Requests, RenewalStep(r)
  PROVE  RInv'
  <1> USE DEF RInv
  <1>0. /\ Admin \in Holders /\ Requests \subseteq Holders /\ Admin \notin Requests
        /\ NoToken \notin Tokens
    BY PoolAssumption
  <1>1. CASE ClaimSecret(r)
    <2> DEFINE t == request'[r].token
    <2>1. /\ answer[r] = 0 /\ t \in Tokens
          /\ \A q \in Requests \ {r} : request'[q] = request[q]
          /\ UNCHANGED <<life, edit, secret, answer, issued, alive>>
      BY <1>1, RequestSteps DEF ClaimSecret
    <2>2. /\ held'[r] = secret[t] /\ held'[Admin] = held[Admin]
          /\ \A q \in Requests \ {r} : held'[q] = held[q]
          /\ held' \in [Holders -> Numbers]
      BY <1>0, <1>1, <2>1 DEF ClaimSecret, SecretsTyped
    <2>3. SecretsTyped'
      BY <2>1, <2>2 DEF SecretsTyped
    <2>4. Numbered'
      <3>1. secret[t] <= issued[t] /\ answer[r] <= issued[t]
        BY <2>1 DEF Numbered, SecretsTyped, Numbers
      <3>2. \A u \in Tokens, q \in Requests :
              request'[q].token = u => held'[q] <= issued[u] /\ answer[q] <= issued[u]
        BY <2>1, <2>2, <3>1 DEF Numbered
      <3> QED
        BY <2>1, <2>2, <3>2 DEF Numbered
    <2>5. AnswersKept'
      <3> SUFFICES ASSUME NEW p \in Requests, answer[p] # 0 PROVE AnswerKept(p)'
        BY <2>1 DEF AnswersKept
      <3>1. p # r /\ AnswerKept(p) /\ request'[p] = request[p]
        BY <2>1 DEF AnswersKept
      <3>2. \A q \in Requests : request'[q].token = request[p].token =>
              held'[q] # answer[p] /\ (q # p => answer[q] # answer[p])
        BY <2>1, <2>2, <3>1 DEF AnswerKept, OnlyWith
      <3> QED
        BY <2>1, <2>2, <3>1, <3>2 DEF AnswerKept, OnlyWith
    <2> QED
      BY <2>3, <2>4, <2>5
  <1>2. CASE ProviderRenews(r)
    <2> DEFINE t == request[r].token
               n == issued[t] + 1
    <2>1. /\ t \in Tokens /\ request[r].phase \in {"preflight", "renewing"}
          /\ issued[t] < MaxIssued /\ held[r] \in alive[t]
          /\ UNCHANGED <<request, edit, life, secret, held>>
      BY <1>2 DEF ProviderRenews, Issue, IInv, InHand, vars, storeVars
    <2>2. /\ answer'[r] = n /\ issued'[t] = n /\ alive'[t] = (alive[t] \ {held[r]}) \cup {n}
          /\ \A q \in Requests \ {r} : answer'[q] = answer[q]
          /\ \A u \in Tokens \ {t} : issued'[u] = issued[u] /\ alive'[u] = alive[u]
      BY <1>2, <2>1 DEF ProviderRenews, Issue, SecretsTyped
    <2>3. issued[t] \in Nat /\ n \in Numbers /\ n # 0
      BY <2>1, RenewalAssumption DEF SecretsTyped, Numbers
    <2>4. SecretsTyped'
      <3>1. (alive[t] \ {held[r]}) \cup {n} \in SUBSET Numbers
        BY <2>1, <2>3 DEF SecretsTyped
      <3> QED
        BY <1>2, <2>1, <2>3, <3>1 DEF SecretsTyped, ProviderRenews, Issue
    <2>5. Numbered'
      <3> SUFFICES ASSUME NEW u \in Tokens
                   PROVE  /\ alive'[u] \subseteq 1..issued'[u]
                          /\ secret[u] <= issued'[u]
                          /\ life[u] = "absent" => secret[u] = 0
                          /\ \A q \in Requests : request[q].token = u =>
                                 held[q] <= issued'[u] /\ answer'[q] <= issued'[u]
                          /\ edit.token = u => held[Admin] <= issued'[u]
        BY <2>1 DEF Numbered
      <3>1. CASE u # t
        BY <2>1, <2>2, <3>1 DEF Numbered
      <3>2. CASE u = t
        <4>1. /\ secret[t] \in Nat /\ held[Admin] \in Nat
              /\ \A q \in Requests : held[q] \in Nat /\ answer[q] \in Nat
          BY <1>0, <2>1 DEF SecretsTyped, Numbers
        <4>2. alive'[t] \subseteq 1..n
          BY <2>1, <2>2, <2>3 DEF Numbered
        <4>3. secret[t] <= n /\ (edit.token = t => held[Admin] <= n)
          BY <2>1, <2>3, <4>1 DEF Numbered
        <4>4. \A q \in Requests : request[q].token = t => held[q] <= n /\ answer'[q] <= n
          BY <2>1, <2>2, <2>3, <4>1 DEF Numbered
        <4> QED
          BY <2>1, <2>2, <3>2, <4>2, <4>3, <4>4 DEF Numbered
      <3> QED
        BY <3>1, <3>2
    <2>6. AnswersKept'
      <3> SUFFICES ASSUME NEW p \in Requests, answer'[p] # 0 PROVE AnswerKept(p)'
        BY DEF AnswersKept
      <3>1. /\ n # secret[t] /\ (edit.token = t => held[Admin] # n)
            /\ \A q \in Requests : request[q].token = t => held[q] # n /\ answer[q] # n
        BY <1>0, <2>1, <2>3 DEF Numbered, SecretsTyped, Numbers
      <3>2. CASE p = r
        BY <2>1, <2>2, <3>1, <3>2 DEF AnswerKept, OnlyWith
      <3>3. CASE p # r
        <4>1. answer'[p] = answer[p] /\ AnswerKept(p)
          BY <2>2, <3>3 DEF AnswersKept
        <4>2. request[p].token \in Tokens
          BY <4>1 DEF AnswerKept, IInv, InHand
        <4>3. answer[p] \in alive'[request[p].token]
          BY <2>1, <2>2, <4>1, <4>2 DEF AnswerKept, OnlyWith
        <4>4. \A q \in Requests : request[q].token = request[p].token =>
                held[q] # answer[p] /\ (q # p => answer'[q] # answer[p])
          BY <2>1, <2>2, <3>1, <4>1 DEF AnswerKept, OnlyWith
        <4> QED
          BY <2>1, <4>1, <4>3, <4>4 DEF AnswerKept, OnlyWith
      <3> QED
        BY <3>2, <3>3
    <2> QED
      BY <2>4, <2>5, <2>6
  <1>3. CASE StoreRenewal(r)
    <2>1. /\ Steps(r) /\ request[r].token \in Tokens /\ life[request[r].token] # "absent"
          /\ secret' = [secret EXCEPT ![request[r].token] = answer[r]]
          /\ answer' = [answer EXCEPT ![r] = 0]
          /\ UNCHANGED <<issued, alive>>
      BY <1>3, RequestSteps DEF StoreRenewal, RenewalSucceeds, Renewed, Stored, IInv, InHand
    <2>2. PICK s \in {0, answer[r]} : held' = [held EXCEPT ![r] = s]
      BY <1>3 DEF StoreRenewal, Keep
    <2> QED
      BY <2>1, <2>2, RequestKeeps
  <1>4. CASE RenewalLost(r)
    <2>1. PICK s \in {0, held[r]} : held' = [held EXCEPT ![r] = s]
      BY <1>4 DEF RenewalLost, Keep
    <2> QED
      BY <1>4, <2>1, RequestSteps, RequestKeeps DEF RenewalLost
  <1>5. CASE Answered(r)
    <2>1. PICK s \in {0, held[r]} : held' = [held EXCEPT ![r] = s]
      BY <1>5 DEF Answered, Keep
    <2>2. answer' = [answer EXCEPT ![r] = 0]
      BY <1>5, RequestSteps DEF Answered, SecretsTyped
    <2> QED
      BY <1>5, <2>1, <2>2, RequestSteps, RequestKeeps DEF Answered
  <1> QED
    BY <1>1, <1>2, <1>3, <1>4, <1>5 DEF RenewalStep

\* The requests keep their tokens, phases, copies and answers.
Stay ==
    /\ \A q \in Requests : /\ request'[q].token = request[q].token
                            /\ request'[q].phase = request[q].phase
                            /\ held'[q] = held[q]
    /\ UNCHANGED answer

\* The administrator's copy is the one there was, or that of a row, or none is left.
Copied ==
    \/ edit'.token = edit.token /\ held'[Admin] = held[Admin]
    \/ edit'.token \in Tokens /\ held'[Admin] = secret'[edit'.token]
    \/ edit'.token = NoToken

\* The row of t gets a new refresh token, or the one in the administrator's hands.
Rewritten(t) ==
    /\ \/ UNCHANGED <<secret, issued, alive>>
       \/ /\ edit.token = t /\ UNCHANGED <<issued, alive>>
          /\ secret' = [secret EXCEPT ![t] = held[Admin]]
       \/ Issue(t, {}) /\ secret' = [secret EXCEPT ![t] = issued[t] + 1]
    /\ \A u \in Tokens : life'[u] = "absent" => life[u] = "absent" /\ secret'[u] = secret[u]

(* No step that leaves the requests alone gives their answers to another. *)
LEMMA StayKeeps ==
  ASSUME RInv, IInv', Stay, Copied, NEW t \in Tokens, Rewritten(t), held' \in [Holders -> Numbers]
  PROVE  RInv'
  <1> USE DEF RInv
  <1>0. /\ Admin \in Holders /\ Requests \subseteq Holders /\ NoToken \notin Tokens
    BY PoolAssumption
  <1>1. /\ \A u \in Tokens : issued[u] \in Nat /\ secret[u] \in Nat
        /\ held[Admin] \in Nat /\ held'[Admin] \in Nat
        /\ \A q \in Requests : held[q] \in Nat /\ answer[q] \in Nat
    BY <1>0 DEF SecretsTyped, Numbers
  <1>2. \A u \in Tokens \ {t} : /\ issued'[u] = issued[u] /\ alive'[u] = alive[u]
                               /\ secret'[u] = secret[u]
    BY DEF Rewritten, Issue, SecretsTyped
  <1>3. /\ issued'[t] \in {issued[t], issued[t] + 1} /\ issued'[t] \in Numbers
        /\ alive'[t] \subseteq alive[t] \cup {issued[t] + 1} /\ alive[t] \subseteq alive'[t]
        /\ issued'[t] = issued[t] => alive'[t] = alive[t]
        /\ \/ secret'[t] = secret[t]
           \/ edit.token = t /\ secret'[t] = held[Admin]
           \/ secret'[t] = issued[t] + 1 /\ issued'[t] = issued[t] + 1
    <2>1. CASE UNCHANGED <<secret, issued, alive>>
      BY <2>1 DEF SecretsTyped
    <2>2. CASE /\ edit.token = t /\ UNCHANGED <<issued, alive>>
               /\ secret' = [secret EXCEPT ![t] = held[Admin]]
      BY <2>2 DEF SecretsTyped
    <2>3. CASE Issue(t, {}) /\ secret' = [secret EXCEPT ![t] = issued[t] + 1]
      <3>1. issued[t] + 1 \in Numbers
        BY <1>1, <2>3, RenewalAssumption DEF Issue, Numbers
      <3>2. /\ issued'[t] = issued[t] + 1 /\ secret'[t] = issued[t] + 1
            /\ alive'[t] = alive[t] \cup {issued[t] + 1}
        BY <2>3 DEF Issue, SecretsTyped
      <3> QED
        BY <1>1, <3>1, <3>2
    <2> QED
      BY <2>1, <2>2, <2>3 DEF Rewritten
  <1>4. SecretsTyped'
    <2>1. secret'[t] \in Numbers /\ alive'[t] \in SUBSET Numbers
      BY <1>0, <1>3, <1>1 DEF SecretsTyped, Numbers
    <2>2. /\ secret' = [secret EXCEPT ![t] = secret'[t]] /\ issued' = [issued EXCEPT ![t] = issued'[t]]
          /\ alive' = [alive EXCEPT ![t] = alive'[t]]
      BY DEF Rewritten, Issue, SecretsTyped
    <2> QED
      BY <1>3, <2>1, <2>2 DEF SecretsTyped, Stay
  <1>5. \A u \in Tokens : issued[u] <= issued'[u]
    BY <1>1, <1>2, <1>3
  <1>6. Numbered'
    <2> SUFFICES ASSUME NEW u \in Tokens
                 PROVE  /\ alive'[u] \subseteq 1..issued'[u]
                        /\ secret'[u] <= issued'[u]
                        /\ life'[u] = "absent" => secret'[u] = 0
                        /\ \A q \in Requests : request'[q].token = u =>
                               held'[q] <= issued'[u] /\ answer'[q] <= issued'[u]
                        /\ edit'.token = u => held'[Admin] <= issued'[u]
      BY DEF Numbered
    <2>1. alive'[u] \subseteq 1..issued'[u]
      <3>1. CASE u # t
        BY <1>2, <3>1 DEF Numbered
      <3>2. CASE u = t /\ issued'[t] = issued[t]
        BY <1>3, <3>2 DEF Numbered
      <3>3. CASE u = t /\ issued'[t] = issued[t] + 1
        BY <1>1, <1>3, <3>3 DEF Numbered
      <3> QED
        BY <1>3, <3>1, <3>2, <3>3
    <2>2. secret'[u] <= issued'[u]
      BY <1>1, <1>2, <1>3 DEF Numbered
    <2>3. life'[u] = "absent" => secret'[u] = 0
      BY DEF Rewritten, Numbered
    <2>4. \A q \in Requests : request'[q].token = u =>
            held'[q] <= issued'[u] /\ answer'[q] <= issued'[u]
      <3>1. issued'[u] \in Nat
        BY <1>4 DEF SecretsTyped, Numbers
      <3> QED
        BY <1>1, <1>5, <3>1 DEF Stay, Numbered
    <2>5. edit'.token = u => held'[Admin] <= issued'[u]
      <3>1. issued'[u] \in Nat
        BY <1>4 DEF SecretsTyped, Numbers
      <3> QED
        BY <1>0, <1>1, <1>5, <2>2, <3>1 DEF Copied, Numbered
    <2> QED
      BY <2>1, <2>2, <2>3, <2>4, <2>5
  <1>7. AnswersKept'
    <2> SUFFICES ASSUME NEW p \in Requests, answer'[p] # 0 PROVE AnswerKept(p)'
      BY DEF AnswersKept
    <2> DEFINE u == request[p].token
    <2>1. AnswerKept(p) /\ answer' = answer /\ request'[p].token = u
      BY DEF AnswersKept, Stay
    <2>2. u \in Tokens
      BY <2>1 DEF AnswerKept, IInv, InHand
    <2>3. answer[p] \in alive'[u]
      BY <1>2, <1>3, <2>1, <2>2 DEF AnswerKept
    <2>4. answer[p] <= issued[u]
      BY <2>2 DEF Numbered
    <2>5. secret'[u] # answer[p]
      BY <1>1, <1>2, <1>3, <2>1, <2>2, <2>4 DEF AnswerKept, OnlyWith
    <2>6. edit'.token = u => held'[Admin] # answer[p]
      BY <1>0, <2>1, <2>2, <2>5 DEF Copied, AnswerKept, OnlyWith
    <2> QED
      BY <2>1, <2>3, <2>5, <2>6 DEF AnswerKept, OnlyWith, Stay
  <1> QED
    BY <1>4, <1>6, <1>7

(* Every step of the administrator and of the clock preserves it. *)
LEMMA EditInv ==
  ASSUME RInv, IInv', EditStep \/ Others
  PROVE  RInv'
  <1> USE DEF RInv
  <1>0. /\ Admin \in Holders /\ Requests \subseteq Holders /\ Admin \notin Requests
        /\ NoToken \notin Tokens
    BY PoolAssumption
  <1>1. life \in [Tokens -> Lives] /\ held \in [Holders -> Numbers] /\ secret \in [Tokens -> Numbers]
    BY DEF IInv, TypeOK, StoreTypeOK, SecretsTyped
  <1>2. 0 \in Numbers
    BY RenewalAssumption DEF Numbers
  <1>3. ASSUME PutDown, UNCHANGED <<request, answer>>
        PROVE  Stay /\ held' \in [Holders -> Numbers]
    BY <1>0, <1>1, <1>2, <1>3 DEF PutDown, Stay
  <1>4. NoEdit.token = NoToken
    BY DEF NoEdit
  <1>5. CASE ReadSecret
    <2>1. PICK t \in Tokens : ReadForEdit(t)
      BY <1>5 DEF ReadSecret
    <2>2. edit'.token = t /\ UNCHANGED <<request, life>>
      BY <2>1 DEF ReadForEdit, TakeCopy
    <2>3. held' = [held EXCEPT ![Admin] = secret[t]]
      BY <1>5, <2>2 DEF ReadSecret
    <2>4. Stay /\ Copied /\ held' \in [Holders -> Numbers]
      BY <1>0, <1>1, <1>5, <2>2, <2>3 DEF ReadSecret, Stay, Copied
    <2>5. Rewritten(t)
      BY <1>5, <2>2 DEF ReadSecret, Rewritten
    <2> QED
      BY <2>4, <2>5, StayKeeps
  <1>6. CASE PatchSecret
    <2>1. edit.token \in Tokens /\ edit' = NoEdit /\ UNCHANGED <<request, life>>
      BY <1>6 DEF PatchSecret, PatchRow, WriteBack, IInv, InHand
    <2>2. Rewritten(edit.token)
      BY <1>1, <1>6, <2>1 DEF PatchSecret, Rewritten, Stored
    <2> QED
      BY <1>3, <1>4, <1>6, <2>1, <2>2, StayKeeps DEF PatchSecret, Copied
  <1>7. CASE ImportSecret
    <2>1. edit.token \in Tokens /\ edit' = NoEdit /\ UNCHANGED <<request, life>>
      BY <1>7 DEF ImportSecret, ImportOverRow, Overwrite, IInv, InHand
    <2>2. Rewritten(edit.token) /\ UNCHANGED answer
      BY <1>1, <1>7, <2>1 DEF ImportSecret, LogIn, Rewritten, Stored
    <2> QED
      BY <1>3, <1>4, <1>7, <2>1, <2>2, StayKeeps DEF ImportSecret, Copied
  <1>8. CASE ImportNewSecret
    <2>1. PICK t \in Tokens :
            /\ ImportNewRow(t)
            /\ IF rows'[t].refresh THEN LogIn(t) ELSE UNCHANGED <<secret, answer, issued, alive>>
      BY <1>8 DEF ImportNewSecret
    <2>2. UNCHANGED <<request, edit, held, answer>> /\ life' = [life EXCEPT ![t] = "stored"]
      BY <1>8, <2>1 DEF ImportNewSecret, ImportNewRow, Insert, LogIn
    <2>3. Rewritten(t)
      BY <1>1, <2>1, <2>2 DEF LogIn, Rewritten
    <2> QED
      BY <1>1, <2>2, <2>3, StayKeeps DEF Stay, Copied
  <1>9. CASE DeleteSecret
    <2>1. PICK t \in Tokens : DeleteRow(t)
      BY <1>9 DEF DeleteSecret
    <2>2. UNCHANGED <<request, edit, secretVars>> /\ life' = [life EXCEPT ![t] = "deleted"]
      BY <1>9, <2>1 DEF DeleteSecret, DeleteRow, Delete
    <2> QED
      BY <1>1, <2>2, StayKeeps DEF Stay, Copied, Rewritten, secretVars
  <1>10. CASE Others
    <2>1. UNCHANGED <<secretVars, life>> /\ edit'.token = edit.token
      BY <1>10 DEF Others, ClearCooldowns, ClearAllTokenCooldowns, Tick, Age, IInv, TypeOK, EditStates
    <2>2. \A q \in Requests : /\ request'[q].token = request[q].token
                              /\ request'[q].phase = request[q].phase
      <3>1. \A q \in Requests : request[q] \in RequestStates
        BY DEF IInv, TypeOK
      <3> QED
        BY <1>10, <3>1 DEF Others, ClearCooldowns, Tick, RequestStates
    <2>3. Stay /\ Copied /\ held' \in [Holders -> Numbers]
      BY <1>1, <2>1, <2>2 DEF Stay, Copied, secretVars
    <2>4. CASE Tokens = {}
      BY <2>1, <2>3, <2>4 DEF SecretsTyped, Numbered, AnswersKept, AnswerKept, IInv, InHand, Stay, secretVars
    <2>5. ASSUME NEW t \in Tokens PROVE RInv'
      BY <2>1, <2>3, StayKeeps DEF Rewritten, secretVars
    <2> QED
      BY <2>4, <2>5
  <1> QED
    BY <1>5, <1>6, <1>7, <1>8, <1>9, <1>10 DEF EditStep

(* Every step preserves the inductive invariant. *)
LEMMA RenewalStepInv == RInv /\ [RenewalNext]_renewalVars => RInv'
  <1> SUFFICES ASSUME RInv, [RenewalNext]_renewalVars PROVE RInv'
    OBVIOUS
  <1>1. CASE RenewalNext
    <2>1. IInv'
      BY <1>1, StepOfPool, StepInv DEF RInv
    <2> QED
      BY <1>1, <2>1, RequestInv, EditInv DEF RenewalNext
  <1>2. CASE UNCHANGED renewalVars
    <2>1. IInv'
      BY <1>2, StepInv DEF RInv, renewalVars
    <2>2. UNCHANGED <<secret, held, answer, issued, alive, request, edit, life>>
      BY <1>2 DEF renewalVars, secretVars, vars, storeVars
    <2> QED
      BY <2>1, <2>2 DEF RInv, SecretsTyped, Numbered, AnswersKept, AnswerKept, OnlyWith
  <1> QED
    BY <1>1, <1>2

(* The inductive invariant holds in every reachable state. *)
THEOREM RenewalInvariance == RenewalSpec => []RInv
  BY RenewalInitInv, RenewalStepInv, PTL DEF RenewalSpec

(* The renewals with their refresh tokens are renewals of the pool, so that  *)
(* whatever holds of the pool holds of them.                                 *)
THEOREM RenewalImplementsPool == RenewalSpec => Spec
  <1>1. RenewalInit => Init
    BY DEF RenewalInit
  <1>2. [RenewalNext]_renewalVars => [Next]_vars
    BY StepOfPool DEF renewalVars
  <1> QED
    BY <1>1, <1>2, PTL DEF RenewalSpec, Spec

(* Every variable of the renewals keeps its type. *)
THEOREM RenewalTypeInvariant == RenewalSpec => []RenewalTypeOK
  <1>1. RInv => RenewalTypeOK
    BY DEF RInv, IInv, SecretsTyped, RenewalTypeOK
  <1> QED
    BY <1>1, RenewalInvariance, PTL

(* A step of one request strands a token only if it loses an answer for it.  *)
LEMMA RequestStrands ==
  ASSUME RInv, NEW r \in Requests, RenewalStep(r), NEW t \in Tokens,
         Renewable(t), ~ (RenewalLost(r) /\ request[r].token = t /\ answer[r] # 0)
  PROVE  Renewable(t)'
  <1> USE DEF RInv
  <1>0. NoToken \notin Tokens
    BY PoolAssumption
  <1>1. /\ life' = life /\ \A q \in Requests \ {r} : request'[q] = request[q]
        /\ \A q \in Requests \ {r} : answer'[q] = answer[q]
    BY RequestSteps DEF RenewalStep, Steps, ClaimSecret, ProviderRenews, StoreRenewal, RenewalLost,
       Answered, vars, storeVars, SecretsTyped
  <1>2. ASSUME UNCHANGED <<secret, alive>>, answer[r] = 0 \/ request[r].token # t
        PROVE  Renewable(t)'
    BY <1>1, <1>2 DEF Renewable, OnTheWay, Stored
  <1>3. CASE ClaimSecret(r)
    BY <1>2, <1>3, RequestSteps DEF ClaimSecret
  <1>4. CASE ProviderRenews(r)
    <2>1. UNCHANGED <<request, secret>> /\ request[r].token \in Tokens
      BY <1>4 DEF ProviderRenews, vars, IInv, InHand
    <2>2. CASE request[r].token = t
      <3>1. answer'[r] # 0
        <4>1. issued[t] \in Nat /\ answer'[r] = issued[t] + 1
          BY <1>4, <2>2 DEF ProviderRenews, SecretsTyped, Numbers
        <4> QED
          BY <4>1
      <3> QED
        BY <2>1, <2>2, <3>1 DEF Renewable, OnTheWay
    <2>3. CASE request[r].token # t
      <3>1. alive'[t] = alive[t]
        BY <1>4, <2>1, <2>3 DEF ProviderRenews, Issue, SecretsTyped
      <3> QED
        BY <1>1, <2>1, <2>3, <3>1 DEF Renewable, OnTheWay, Stored
    <2> QED
      BY <2>2, <2>3
  <1>5. CASE StoreRenewal(r)
    <2>1. CASE request[r].token = t
      <3>1. secret'[t] = answer[r] /\ answer[r] \in alive[t] /\ alive' = alive
        BY <1>5, <2>1 DEF StoreRenewal, SecretsTyped, AnswersKept, AnswerKept
      <3> QED
        BY <3>1 DEF Renewable
    <2>2. CASE request[r].token # t
      <3>1. secret'[t] = secret[t] /\ alive' = alive
        BY <1>5, <2>2 DEF StoreRenewal, SecretsTyped
      <3> QED
        BY <1>1, <2>2, <3>1 DEF Renewable, OnTheWay, Stored
    <2> QED
      BY <2>1, <2>2
  <1>6. CASE RenewalLost(r)
    BY <1>2, <1>6 DEF RenewalLost
  <1>7. CASE Answered(r)
    BY <1>2, <1>7, RequestSteps DEF Answered
  <1> QED
    BY <1>3, <1>4, <1>5, <1>6, <1>7 DEF RenewalStep

(* A step of the administrator does only if it writes back a refresh token   *)
(* that was used up since it was read; one of the clock never does.          *)
LEMMA EditStrands ==
  ASSUME RInv, EditStep \/ Others, NEW t \in Tokens, Renewable(t),
         ~ ((PatchSecret \/ ImportSecret) /\ StaleEdit(t))
  PROVE  Renewable(t)'
  <1> USE DEF RInv
  <1>1. life \in [Tokens -> Lives] /\ secret \in [Tokens -> Numbers] /\ alive \in [Tokens -> SUBSET Numbers]
    BY DEF IInv, TypeOK, StoreTypeOK, SecretsTyped
  <1>2. answer' = answer /\ \A q \in Requests : request'[q].token = request[q].token
    <2>1. CASE EditStep
      BY <2>1 DEF EditStep, ReadSecret, PatchSecret, ImportSecret, ImportNewSecret, DeleteSecret,
         LogIn, ReadForEdit, PatchRow, ImportOverRow, ImportNewRow, DeleteRow, secretVars
    <2>2. CASE Others
      <3>1. \A q \in Requests : request[q] \in RequestStates
        BY DEF IInv, TypeOK
      <3> QED
        BY <2>2, <3>1 DEF Others, ClearCooldowns, Tick, RequestStates, secretVars
    <2> QED
      BY <2>1, <2>2
  <1>3. ASSUME life'[t] = life[t] \/ life'[t] # "stored", secret'[t] = secret[t], alive[t] \subseteq alive'[t]
        PROVE  Renewable(t)'
    BY <1>2, <1>3 DEF Renewable, OnTheWay, Stored
  <1>4. ASSUME NEW u \in Tokens, LogIn(u), u # t \/ life'[t] = "stored",
               life'[t] = life[t] \/ u = t
        PROVE  Renewable(t)'
    <2>1. CASE u = t
      BY <1>1, <1>4, <2>1 DEF LogIn, Issue, Renewable, SecretsTyped
    <2>2. CASE u # t
      BY <1>1, <1>3, <1>4, <2>2 DEF LogIn, Issue
    <2> QED
      BY <2>1, <2>2
  <1>5. CASE ReadSecret
    BY <1>3, <1>5 DEF ReadSecret, ReadForEdit, TakeCopy
  <1>6. CASE PatchSecret \/ ImportSecret
    <2>1. edit.token \in Tokens /\ life' = life
      BY <1>6 DEF PatchSecret, PatchRow, WriteBack, ImportSecret, ImportOverRow, Overwrite, IInv, InHand
    <2>2. CASE UNCHANGED <<secret, alive>>
      BY <1>3, <2>1, <2>2
    <2>3. CASE Stored(edit.token) /\ LogIn(edit.token)
      BY <1>4, <2>1, <2>3 DEF Stored
    <2>4. CASE secret' = [secret EXCEPT ![edit.token] = held[Admin]] /\ UNCHANGED alive
      <3>1. CASE edit.token = t
        BY <1>1, <1>6, <2>4, <3>1 DEF Renewable, StaleEdit
      <3>2. CASE edit.token # t
        BY <1>1, <1>3, <2>1, <2>4, <3>2
      <3> QED
        BY <3>1, <3>2
    <2> QED
      BY <1>6, <2>2, <2>3, <2>4 DEF PatchSecret, ImportSecret
  <1>7. CASE ImportNewSecret
    <2>1. PICK u \in Tokens :
            /\ ImportNewRow(u)
            /\ IF rows'[u].refresh THEN LogIn(u) ELSE UNCHANGED <<secret, answer, issued, alive>>
      BY <1>7 DEF ImportNewSecret
    <2>2. life[u] = "absent" /\ life' = [life EXCEPT ![u] = "stored"]
      BY <2>1 DEF ImportNewRow, Insert
    <2>3. CASE LogIn(u)
      BY <1>1, <1>4, <2>2, <2>3
    <2>4. CASE UNCHANGED <<secret, answer, issued, alive>>
      <3>1. CASE u = t
        BY <2>2, <2>4, <3>1 DEF Numbered, Renewable
      <3>2. CASE u # t
        BY <1>1, <1>3, <2>2, <2>4, <3>2
      <3> QED
        BY <3>1, <3>2
    <2> QED
      BY <2>1, <2>3, <2>4
  <1>8. CASE DeleteSecret
    BY <1>1, <1>3, <1>8 DEF DeleteSecret, DeleteRow, Delete, secretVars
  <1>9. CASE Others
    BY <1>3, <1>9 DEF Others, ClearCooldowns, ClearAllTokenCooldowns, Tick, Age, secretVars
  <1> QED
    BY <1>5, <1>6, <1>7, <1>8, <1>9 DEF EditStep

(* However renewals, edits, imports and deletions overlap: a row whose       *)
(* refresh token the provider takes, or has replaced by an answer that will  *)
(* be stored, stays one, unless an answer is lost or an edit writes back a   *)
(* refresh token that was used up since it was read.                         *)
THEOREM OnlyLossStrands == RenewalSpec => StrandedByLossOrStaleEdit
  <1> DEFINE Kept == \A t \in Tokens : Renewable(t) /\ ~ Renewable(t)' =>
                 \/ \E r \in Requests : RenewalLost(r) /\ request[r].token = t /\ answer[r] # 0
                 \/ (PatchSecret \/ ImportSecret) /\ StaleEdit(t)
  <1>1. RInv /\ [RenewalNext]_renewalVars => [Kept]_renewalVars
    BY RequestStrands, EditStrands DEF RenewalNext
  <1>2. RenewalSpec => [][Kept]_renewalVars
    BY <1>1, RenewalInvariance, PTL DEF RenewalSpec
  <1> QED
    BY <1>2 DEF StrandedByLossOrStaleEdit
=============================================================================
