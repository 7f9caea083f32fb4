------------------------- MODULE RequestLoop_proofs -------------------------
(***************************************************************************)
(* The request loop, for any endpoints, tokens and requests: attempts are  *)
(* counted exactly, no request wastes a second one on an endpoint that     *)
(* rests or on a client that is gone, and each runs out of steps.  For     *)
(* a single request that nobody disturbs: the retry budget lasts for every *)
(* endpoint and token it may use.                                          *)
(***************************************************************************)
EXTENDS RequestLoop, CredentialStore_proofs, FiniteSetTheorems

Busy(e) == {r \in Requests : InAttempt(r) /\ request[r].endpoint = e}

ProxyTypeOK ==
    /\ current \in Endpoints
    /\ cooldown \in [Endpoints -> Times]
    /\ errored \in SUBSET Endpoints
    /\ active \in [Endpoints -> Nat]
    /\ clearing \in BOOLEAN

\* An attempt, or one about to begin, has an endpoint.
ChosenPhases == AttemptPhases \cup {"entering"}
Seated(x) == x.phase \in ChosenPhases => x.endpoint \in Endpoints
Placed == \A r \in Requests : Seated(request[r])

IInv == TypeOK /\ StoreInv /\ Placed /\ ActiveExact

(* The retry budget is a number. *)
LEMMA BudgetType == computeMaxRetries \in Int
  <1>1. IsFiniteSet(Endpoints)
    BY FS_Interval, LoopAssumption DEF Endpoints
  <1>2. IsFiniteSet(Endpoints \X Tokens)
    BY <1>1, FS_Product, LoopAssumption
  <1>3. IsFiniteSet(UsableTokens) /\ IsFiniteSet(UsablePools)
    BY <1>1, <1>2, FS_Subset DEF UsableTokens, UsablePools
  <1>4. Cardinality(UsableTokens) \in Nat /\ Cardinality(UsablePools) \in Nat
    BY <1>3, FS_CardinalityType
  <1> QED
    BY <1>4, LoopAssumption DEF computeMaxRetries

(* The requests in an attempt on an endpoint are finitely many. *)
LEMMA BusyFinite == \A e : IsFiniteSet(Busy(e)) /\ Cardinality(Busy(e)) \in Nat
  BY FS_Subset, FS_CardinalityType, LoopAssumption DEF Busy

-----------------------------------------------------------------------------
(* How one request's step moves the count.                                   *)

\* The other requests stay as they are, and r is what the step makes of it.
Alone(r) ==
    /\ request' = [request EXCEPT ![r] = request'[r]]
    /\ request'[r] \in RequestStates

(* A step of one request keeps the types of all. *)
LEMMA AloneType ==
  ASSUME TypeOK, NEW r \in Requests, Alone(r)
  PROVE  request' \in [Requests -> RequestStates]
  BY DEF TypeOK, Alone

(* A step that neither begins nor ends an attempt keeps the count. *)
LEMMA CountStays ==
  ASSUME IInv, NEW r \in Requests, Alone(r), UNCHANGED active,
         InAttempt(r)' <=> InAttempt(r), Seated(request'[r]),
         InAttempt(r) => request'[r].endpoint = request[r].endpoint
  PROVE  Placed' /\ ActiveExact'
  <1>1. \A q \in Requests : /\ InAttempt(q)' <=> InAttempt(q)
                            /\ InAttempt(q) => request'[q].endpoint = request[q].endpoint
    BY DEF IInv, TypeOK, Alone, InAttempt
  <1>2. \A e : Busy(e)' = Busy(e)
    BY <1>1 DEF Busy
  <1>3. ActiveExact'
    BY <1>2 DEF IInv, ActiveExact, Busy
  <1>4. \A q \in Requests \ {r} : request'[q] = request[q]
    BY DEF IInv, TypeOK, Alone
  <1> QED
    BY <1>3, <1>4 DEF IInv, Placed

(* An attempt that begins is counted. *)
LEMMA CountEnters ==
  ASSUME IInv, NEW r \in Requests, NEW e \in Endpoints, Alone(r),
         ~ InAttempt(r), InAttempt(r)', request'[r].endpoint = e,
         active' = [active EXCEPT ![e] = @ + 1]
  PROVE  Placed' /\ ActiveExact'
  <1>1. \A q \in Requests \ {r} : /\ InAttempt(q)' <=> InAttempt(q)
                                  /\ request'[q].endpoint = request[q].endpoint
    BY DEF IInv, TypeOK, Alone, InAttempt
  <1>2. Busy(e)' = Busy(e) \cup {r} /\ r \notin Busy(e)
    BY <1>1 DEF Busy
  <1>3. \A f \in Endpoints \ {e} : Busy(f)' = Busy(f)
    BY <1>1 DEF Busy
  <1>4. Cardinality(Busy(e)') = Cardinality(Busy(e)) + 1
    BY <1>2, BusyFinite, FS_AddElement
  <1>5. \A f \in Endpoints : active'[f] = Cardinality(Busy(f)')
    BY <1>3, <1>4 DEF IInv, TypeOK, ActiveExact, Busy
  <1>6. \A q \in Requests \ {r} : request'[q] = request[q]
    BY DEF IInv, TypeOK, Alone
  <1>7. Placed'
    BY <1>6 DEF IInv, Placed, Seated
  <1> QED
    BY <1>5, <1>7 DEF ActiveExact, Busy

(* An attempt that ends is no longer counted, and the count was not zero. *)
LEMMA CountLeaves ==
  ASSUME IInv, NEW r \in Requests, NEW e \in Endpoints, Alone(r),
         request[r].endpoint = e, InAttempt(r), ~ InAttempt(r)', Seated(request'[r]), Leave(e)
  PROVE  /\ Placed' /\ ActiveExact'
         /\ active' \in [Endpoints -> Nat]
  <1>1. active \in [Endpoints -> Nat]
    BY DEF IInv, TypeOK
  <1>2. \A q \in Requests \ {r} : /\ InAttempt(q)' <=> InAttempt(q)
                                  /\ request'[q].endpoint = request[q].endpoint
    BY DEF IInv, TypeOK, Alone, InAttempt
  <1>3. Busy(e)' = Busy(e) \ {r} /\ r \in Busy(e)
    BY <1>2 DEF Busy
  <1>4. \A f \in Endpoints \ {e} : Busy(f)' = Busy(f)
    BY <1>2 DEF Busy
  <1>5. Cardinality(Busy(e)') = Cardinality(Busy(e)) - 1
    BY <1>3, BusyFinite, FS_RemoveElement
  <1>6. Cardinality(Busy(e)) # 0 /\ Cardinality(Busy(e)) \in Nat
    BY <1>3, BusyFinite, FS_EmptySet
  <1>7. active[e] = Cardinality(Busy(e))
    BY DEF IInv, ActiveExact, Busy
  <1>8. active' = [active EXCEPT ![e] = active[e] - 1] /\ active[e] > 0
    <2>1. active[e] > 0
      BY <1>6, <1>7
    <2> QED
      BY <1>1, <2>1 DEF Leave
  <1>9. \A f \in Endpoints : active'[f] = Cardinality(Busy(f)')
    BY <1>1, <1>4, <1>5, <1>7, <1>8 DEF IInv, ActiveExact, Busy
  <1>10. active' \in [Endpoints -> Nat]
    BY <1>1, <1>8
  <1>11. ActiveExact'
    BY <1>9 DEF ActiveExact, Busy
  <1>12. Placed'
    <2>1. \A q \in Requests \ {r} : request'[q] = request[q]
      BY DEF IInv, TypeOK, Alone
    <2> QED
      BY <2>1 DEF IInv, Placed
  <1> QED
    BY <1>10, <1>11, <1>12

-----------------------------------------------------------------------------
(* The ways a step moves one request.                                        *)

Counted ==
    /\ active \in [Endpoints -> Nat]
    /\ request \in [Requests -> RequestStates]
    /\ Placed /\ ActiveExact

Memories == {"none", "last", "stale"}

(* Giving up an attempt, for another one or for good, uncounts it. *)
LEMMA LeavingKeeps ==
  ASSUME IInv, NEW r \in Requests, InAttempt(r), Leave(request[r].endpoint),
         Alone(r), ~ InAttempt(r)', Seated(request'[r])
  PROVE  Counted'
  <1>1. PICK e \in Endpoints : e = request[r].endpoint
    BY DEF IInv, Placed, Seated, InAttempt, ChosenPhases
  <1>2. Leave(e)
    BY <1>1 DEF Leave
  <1> QED
    BY <1>1, <1>2, CountLeaves, AloneType DEF Counted, IInv

(* Both kinds of retry give up the attempt. *)
LEMMA RetryKeeps ==
  ASSUME IInv, NEW r \in Requests, InAttempt(r), NEW x \in Memories,
         RetryNext(r, x) \/ RetrySame(r, x)
  PROVE  Counted'
  <1>1. request[r] \in RequestStates /\ r \in DOMAIN request
    BY DEF IInv, TypeOK
  <1>2. AfterAttempt(r) \in RequestStates
    <2>1. request[r].tries + 1 \in Nat
      BY <1>1 DEF RequestStates
    <2>2. AfterAttempt(r) = [request[r] EXCEPT !.token = NoToken, !.cut = FALSE,
                                               !.tries = request[r].tries + 1]
      BY DEF AfterAttempt
    <2> QED
      BY <1>1, <2>1, <2>2 DEF RequestStates
  <1>3. Leave(request[r].endpoint)
    BY DEF RetryNext, RetrySame
  <1>4. PICK p \in {"loop", "rotating"}, n \in Nat :
          request' = [request EXCEPT ![r] =
             [AfterAttempt(r) EXCEPT !.phase = p, !.inARow = n, !.replay = x]]
    <2>1. CASE RetrySame(r, x)
      BY <2>1 DEF RetrySame
    <2>2. CASE RetryNext(r, x)
      <3>1. AfterAttempt(r) = [AfterAttempt(r) EXCEPT !.inARow = request[r].inARow]
        BY <1>1 DEF AfterAttempt, RequestStates
      <3>2. request[r].inARow \in Nat
        BY <1>1 DEF RequestStates
      <3>3. PICK p \in {"loop", "rotating"} : request' = [request EXCEPT ![r] =
             [AfterAttempt(r) EXCEPT !.phase = p, !.replay = x]]
        BY <2>2 DEF RetryNext
      <3>4. [AfterAttempt(r) EXCEPT !.phase = p, !.replay = x] =
            [AfterAttempt(r) EXCEPT !.phase = p, !.inARow = request[r].inARow, !.replay = x]
        BY <1>2, <3>1 DEF RequestStates, AfterAttempt
      <3> QED
        BY <3>2, <3>3, <3>4
    <2> QED
      BY <2>1, <2>2
  <1>5. request'[r] = [AfterAttempt(r) EXCEPT !.phase = p, !.inARow = n, !.replay = x]
    BY <1>1, <1>4
  <1>6. request'[r] \in RequestStates
    BY <1>2, <1>5 DEF RequestStates, Phases, Memories
  <1>7. Alone(r)
    BY <1>4, <1>5, <1>6 DEF Alone
  <1>8. request'[r].phase = p
    BY <1>2, <1>5 DEF RequestStates
  <1>9. ~ InAttempt(r)' /\ Seated(request'[r])
    BY <1>8 DEF InAttempt, AttemptPhases, Seated, ChosenPhases
  <1> QED
    BY <1>3, <1>7, <1>9, LeavingKeeps

(* So does an answer that is the client's. *)
LEMMA EndKeeps ==
  ASSUME IInv, NEW r \in Requests, NEW o \in Outcomes, End(r, o)
  PROVE  /\ InAttempt(r) /\ Leave(request[r].endpoint) => Counted'
         /\ ~ InAttempt(r) /\ UNCHANGED active => Counted'
  <1>1. request[r] \in RequestStates /\ r \in DOMAIN request
    BY DEF IInv, TypeOK
  <1>2. request'[r] = [request[r] EXCEPT !.phase = "done", !.outcome = o,
                                         !.token = NoToken, !.cut = FALSE]
    BY <1>1 DEF End
  <1>3. request'[r] \in RequestStates
    BY <1>1, <1>2 DEF RequestStates, Phases
  <1>4. Alone(r)
    BY <1>2, <1>3 DEF Alone, End
  <1>5. ~ InAttempt(r)' /\ Seated(request'[r])
    <2>1. request'[r].phase = "done"
      BY <1>1, <1>2 DEF RequestStates
    <2> QED
      BY <2>1 DEF InAttempt, AttemptPhases, Seated, ChosenPhases
  <1>6. ASSUME InAttempt(r), Leave(request[r].endpoint) PROVE Counted'
    BY <1>4, <1>5, <1>6, LeavingKeeps
  <1>7. ASSUME ~ InAttempt(r), UNCHANGED active PROVE Counted'
    BY <1>4, <1>5, <1>7, CountStays, AloneType DEF Counted, IInv, TypeOK
  <1> QED
    BY <1>6, <1>7

(* A request that moves on within or outside its attempt. *)
LEMMA MovesKeeps ==
  ASSUME IInv, NEW r \in Requests, UNCHANGED active,
         request' = [request EXCEPT ![r] = request'[r]],
         request'[r] \in RequestStates, Seated(request'[r]),
         InAttempt(r)' <=> InAttempt(r),
         InAttempt(r) => request'[r].endpoint = request[r].endpoint
  PROVE  Counted'
  <1>1. Alone(r)
    BY DEF Alone
  <1> QED
    BY <1>1, CountStays, AloneType DEF Counted, IInv, TypeOK

-----------------------------------------------------------------------------
(* One step of the program.                                                  *)

RestOK ==
    /\ current \in Endpoints
    /\ cooldown \in [Endpoints -> Times]
    /\ errored \in SUBSET Endpoints
    /\ clearing \in BOOLEAN

(* What a step has to keep, piece by piece. *)
LEMMA Pieces == /\ IInv => StoreInv /\ Counted /\ RestOK
                /\ StoreInv' /\ Counted' /\ RestOK' => IInv'
  BY DEF IInv, TypeOK, Counted, RestOK, StoreInv

(* Whatever mark an attempt leaves on its token, the table keeps its invariant. *)
LEMMA MarksKeep ==
  ASSUME IInv, NEW r \in Requests
  PROVE  /\ \A code : Blame(r, code) => StoreInv'
         /\ Credit(r) => StoreInv'
         /\ \A d \in Times : request[r].token # NoToken
                /\ MarkUsageLimit(request[r].token, d, {}) => StoreInv'
  <1>1. UNCHANGED storeVars => StoreInv'
    BY DEF IInv, StoreInv, StoreTypeOK, DeletedTokenStaysGone, storeVars
  <1>2. request[r].token # NoToken => request[r].token \in Tokens
    BY DEF IInv, TypeOK, RequestStates
  <1>3. ASSUME NEW t \in Tokens
        PROVE  /\ \A code : MarkFailure(t, code, {}) => StoreInv'
               /\ \A d \in Times : MarkUsageLimit(t, d, {}) => StoreInv'
               /\ MarkSuccess(t, {}) => StoreInv'
    <2>1. rows[t] \in Rows /\ StoreInv
      BY DEF IInv, StoreInv, StoreTypeOK
    <2>2. ASSUME NEW code, MarkFailure(t, code, {}) PROVE StoreInv'
      BY <2>1, <2>2, MarkType, WriteKeeps, DropKeeps DEF MarkFailure
    <2>3. ASSUME NEW d \in Times, MarkUsageLimit(t, d, {}) PROVE StoreInv'
      BY <2>1, <2>3, MarkType, WriteKeeps, DropKeeps DEF MarkUsageLimit
    <2>4. ASSUME MarkSuccess(t, {}) PROVE StoreInv'
      BY <2>1, <2>4, MarkSuccessKeeps
    <2> QED
      BY <2>2, <2>3, <2>4
  <1>4. \A code : Blame(r, code) => StoreInv'
    BY <1>1, <1>2, <1>3 DEF Blame
  <1>5. Credit(r) => StoreInv'
    BY <1>1, <1>2, <1>3 DEF Credit
  <1>6. \A d \in Times : request[r].token # NoToken
                /\ MarkUsageLimit(request[r].token, d, {}) => StoreInv'
    BY <1>2, <1>3
  <1> QED
    BY <1>4, <1>5, <1>6

(* Nothing of the table or the endpoints changes. *)
LEMMA IdleKeeps ==
  ASSUME IInv
  PROVE  /\ UNCHANGED storeVars => StoreInv'
         /\ UNCHANGED <<current, cooldown, errored, clearing>> => RestOK'
  BY DEF IInv, TypeOK, RestOK, StoreInv, StoreTypeOK, DeletedTokenStaysGone, storeVars

(* What is remembered of an error answer. *)
LEMMA MemoryType ==
  ASSUME IInv, NEW r \in Requests
  PROVE  Kept(r) \in Memories /\ Outdated(r) \in Memories
  BY DEF IInv, TypeOK, RequestStates, Kept, Outdated, Memories

(* What choosing an endpoint makes of a request. *)
LEMMA ChooseFields ==
  ASSUME IInv, NEW r \in Requests, ChooseEndpoint(r)
  PROVE  \E e \in Candidates(r), n \in Nat :
            /\ current' = IF request[r].pin = NoEndpoint THEN e ELSE current
            /\ request'[r] = [request[r] EXCEPT !.phase = "entering", !.endpoint = e, !.inARow = n]
            /\ request' = [request EXCEPT ![r] = request'[r]]
  <1>1. request[r] \in RequestStates /\ r \in DOMAIN request
    BY DEF IInv, TypeOK
  <1>2. PICK e \in Candidates(r) :
          /\ current' = IF request[r].pin = NoEndpoint THEN e ELSE current
          /\ request' = [request EXCEPT
               ![r].phase = "entering", ![r].endpoint = e,
               ![r].inARow = IF request[r].endpoint \in {e, NoEndpoint} THEN @ + 1 ELSE 1]
    BY DEF ChooseEndpoint
  <1>3. PICK n \in {request[r].inARow + 1, 1} :
          request'[r] = [request[r] EXCEPT !.phase = "entering", !.endpoint = e, !.inARow = n]
    BY <1>1, <1>2
  <1>4. n \in Nat
    BY <1>1 DEF RequestStates
  <1>5. request' = [request EXCEPT ![r] = request'[r]]
    BY <1>1, <1>2, <1>3
  <1> QED
    BY <1>2, <1>3, <1>4, <1>5

(* The loop around the attempts, and its beginning. *)
LEMMA LoopKeeps ==
  ASSUME IInv, NEW r \in Requests, Begin(r) \/ Loop(r)
  PROVE  IInv'
  <1> USE Pieces, IdleKeeps
  <1>1. request[r] \in RequestStates /\ r \in DOMAIN request /\ RestOK
    BY DEF IInv, TypeOK
  <1>2. CASE Begin(r)
    <2>1. PICK pin \in Endpoints \cup {NoEndpoint} :
            request' = [request EXCEPT ![r].phase = "loop", ![r].pin = pin,
                                       ![r].budget = computeMaxRetries,
                                       ![r].owed = Owed(pin)]
      BY <1>2 DEF Begin
    <2>2. request'[r] = [request[r] EXCEPT !.phase = "loop", !.pin = pin,
                             !.budget = computeMaxRetries, !.owed = Owed(pin)]
      BY <1>1, <2>1
    <2>3. Owed(pin) \subseteq Endpoints \X (Tokens \cup {NoToken})
      BY DEF Owed
    <2>4. request'[r] \in RequestStates
      BY <1>1, <2>2, <2>3, BudgetType DEF RequestStates, Phases
    <2>5. request' = [request EXCEPT ![r] = request'[r]]
      BY <1>1, <2>1, <2>2
    <2>6. ~ InAttempt(r) /\ ~ InAttempt(r)'
      BY <1>1, <1>2, <2>2 DEF Begin, InAttempt, AttemptPhases, RequestStates
    <2>7. Seated(request'[r])
      BY <1>1, <2>2 DEF Seated, ChosenPhases, AttemptPhases, RequestStates
    <2>8. Counted'
      BY <1>2, <2>4, <2>5, <2>6, <2>7, MovesKeeps DEF Begin, proxyVars
    <2> QED
      BY <1>2, <2>8 DEF Begin, proxyVars
  <1>3. ASSUME NEW o \in Outcomes, request[r].phase \in {"loop", "picking"}, End(r, o),
               UNCHANGED <<storeVars, proxyVars>>
        PROVE  IInv'
    <2>1. ~ InAttempt(r)
      BY <1>3 DEF InAttempt, AttemptPhases
    <2>2. Counted'
      BY <1>3, <2>1, EndKeeps DEF proxyVars
    <2> QED
      BY <1>3, <2>2 DEF proxyVars
  <1>4. CASE Exhaust(r) \/ NoEndpointLeft(r)
    BY <1>3, <1>4 DEF Exhaust, NoEndpointLeft, TurnAway, Outcomes, InLoop
  <1>5. CASE Abandon(r)
    BY <1>3, <1>5 DEF Abandon, Outcomes, InLoop
  <1>6. CASE CheckClient(r)
    <2>1. request'[r] = [request[r] EXCEPT !.phase = "picking"]
      BY <1>1, <1>6 DEF CheckClient
    <2>2. /\ request'[r] \in RequestStates
          /\ request'[r].phase = "picking" /\ request[r].phase = "loop"
      BY <1>1, <1>6, <2>1 DEF RequestStates, Phases, CheckClient, InLoop
    <2>3. request' = [request EXCEPT ![r] = request'[r]]
      BY <1>1, <1>6, <2>1 DEF CheckClient
    <2>4. ~ InAttempt(r) /\ ~ InAttempt(r)' /\ Seated(request'[r])
      BY <2>2 DEF InAttempt, AttemptPhases, Seated, ChosenPhases
    <2>5. Counted'
      BY <1>6, <2>2, <2>3, <2>4, MovesKeeps DEF CheckClient, proxyVars
    <2> QED
      BY <1>6, <2>5 DEF CheckClient, proxyVars
  <1>7. CASE ChooseEndpoint(r)
    <2>1. PICK e \in Candidates(r), n \in Nat :
            /\ current' = IF request[r].pin = NoEndpoint THEN e ELSE current
            /\ request'[r] = [request[r] EXCEPT !.phase = "entering", !.endpoint = e, !.inARow = n]
            /\ request' = [request EXCEPT ![r] = request'[r]]
      BY <1>7, ChooseFields
    <2>2. e \in Endpoints
      BY DEF Candidates, Open
    <2>3. request'[r] \in RequestStates
      BY <1>1, <2>1, <2>2 DEF RequestStates, Phases
    <2>4. ~ InAttempt(r) /\ ~ InAttempt(r)' /\ Seated(request'[r])
      <3>1. request'[r].phase = "entering" /\ request'[r].endpoint = e
        BY <1>1, <2>1 DEF RequestStates
      <3>2. request[r].phase = "picking"
        BY <1>7 DEF ChooseEndpoint
      <3> QED
        BY <2>2, <3>1, <3>2 DEF InAttempt, AttemptPhases, Seated
    <2>5. Counted'
      BY <1>7, <2>1, <2>3, <2>4, MovesKeeps DEF ChooseEndpoint
    <2>6. RestOK'
      BY <1>1, <1>7, <2>1, <2>2 DEF RestOK, ChooseEndpoint
    <2> QED
      BY <1>7, <2>5, <2>6 DEF ChooseEndpoint
  <1>8. CASE StartAttempt(r)
    <2>1. PICK e \in Endpoints : e = request[r].endpoint
      BY <1>8 DEF StartAttempt, IInv, Placed, Seated, ChosenPhases
    <2>2. request'[r] = [request[r] EXCEPT !.phase = "auth", !.vain = @ \cup Vain(r)]
      BY <1>1, <1>8 DEF StartAttempt
    <2>3. Vain(r) \subseteq Endpoints \cup {NoEndpoint}
      BY <2>1 DEF Vain
    <2>4. /\ request'[r] \in RequestStates
          /\ request'[r].phase = "auth" /\ request'[r].endpoint = e
      BY <1>1, <2>1, <2>2, <2>3 DEF RequestStates, Phases, AttemptPhases
    <2>5. request' = [request EXCEPT ![r] = request'[r]]
      BY <1>1, <1>8, <2>2 DEF StartAttempt
    <2>6. ~ InAttempt(r) /\ InAttempt(r)'
      BY <1>8, <2>4 DEF StartAttempt, InAttempt, AttemptPhases
    <2>7. Alone(r)
      BY <2>4, <2>5 DEF Alone
    <2>8. active' = [active EXCEPT ![e] = @ + 1] /\ active' \in [Endpoints -> Nat]
      BY <1>8, <2>1 DEF IInv, TypeOK, StartAttempt
    <2>9. Counted'
      BY <2>1, <2>4, <2>6, <2>7, <2>8, CountEnters, AloneType DEF Counted, IInv
    <2> QED
      BY <1>8, <2>9 DEF StartAttempt
  <1>9. CASE Rotate(r)
    <2>1. request'[r] = [request[r] EXCEPT !.phase = "loop", !.inARow = 0]
      BY <1>1, <1>9 DEF Rotate
    <2>2. request'[r] \in RequestStates
      <3>1. "loop" \in Phases /\ 0 \in Nat
        BY DEF Phases
      <3> QED
        BY <1>1, <2>1, <3>1 DEF RequestStates
    <2>3. request' = [request EXCEPT ![r] = request'[r]]
      BY <1>1, <1>9, <2>1 DEF Rotate
    <2>4. ~ InAttempt(r) /\ ~ InAttempt(r)' /\ Seated(request'[r])
      <3>1. request[r].phase = "rotating" /\ request'[r].phase = "loop"
        BY <1>1, <1>9, <2>1 DEF Rotate, RequestStates
      <3> QED
        BY <3>1 DEF InAttempt, AttemptPhases, Seated, ChosenPhases
    <2>5. Counted'
      BY <1>9, <2>2, <2>3, <2>4, MovesKeeps DEF Rotate
    <2>6. current' \in Endpoints
      BY <1>1, <1>9, LoopAssumption DEF Rotate, RestOK, Endpoints
    <2>7. RestOK'
      BY <1>1, <1>9, <2>6 DEF Rotate, RestOK
    <2> QED
      BY <1>9, <2>5, <2>7 DEF Rotate
  <1> QED
    BY <1>2, <1>4, <1>5, <1>6, <1>7, <1>8, <1>9 DEF Loop

(* Choosing a token and sending. *)
LEMMA PrepareKeeps ==
  ASSUME IInv, NEW r \in Requests, Prepare(r)
  PROVE  IInv'
  <1> USE Pieces, IdleKeeps
  <1>1. request[r] \in RequestStates /\ r \in DOMAIN request /\ RestOK
    BY DEF IInv, TypeOK
  <1>2. ASSUME NEW p \in AttemptPhases, NEW t \in Tokens \cup {NoToken}, InAttempt(r),
               NEW done \in SUBSET (Endpoints \X (Tokens \cup {NoToken})),
               request' = [request EXCEPT ![r] =
                   [request[r] EXCEPT !.phase = p, !.token = t, !.tried = done]],
               UNCHANGED proxyVars
        PROVE  Counted' /\ RestOK'
    <2>1. request'[r] = [request[r] EXCEPT !.phase = p, !.token = t, !.tried = done]
      BY <1>1, <1>2
    <2>2. request'[r] \in RequestStates
      BY <1>1, <2>1 DEF RequestStates, Phases
    <2>3. /\ InAttempt(r)' /\ Seated(request'[r])
          /\ request'[r].endpoint = request[r].endpoint
      BY <1>1, <1>2, <2>1 DEF InAttempt, RequestStates, IInv, Placed, Seated, ChosenPhases
    <2> QED
      BY <1>1, <1>2, <2>1, <2>2, <2>3, MovesKeeps DEF proxyVars
  <1>3. \A p, t : [request[r] EXCEPT !.phase = p, !.token = t]
                = [request[r] EXCEPT !.phase = p, !.token = t, !.tried = request[r].tried]
    BY <1>1 DEF RequestStates
  <1>4. \A p : [request[r] EXCEPT !.phase = p]
             = [request[r] EXCEPT !.phase = p, !.token = request[r].token,
                                  !.tried = request[r].tried]
    BY <1>1 DEF RequestStates
  <1>5. \A p, d : [request[r] EXCEPT !.phase = p, !.tried = d]
                = [request[r] EXCEPT !.phase = p, !.token = request[r].token, !.tried = d]
    BY <1>1 DEF RequestStates
  <1>6. /\ request[r].token \in Tokens \cup {NoToken}
        /\ request[r].tried \in SUBSET (Endpoints \X (Tokens \cup {NoToken}))
    BY <1>1 DEF RequestStates
  <1>7. CASE UseKey(r) \/ FindPoolDry(r)
    <2>1. PICK p \in {"ready", "dry"} :
            request' = [request EXCEPT ![r] = [request[r] EXCEPT !.phase = p]]
      BY <1>1, <1>7 DEF UseKey, FindPoolDry
    <2>2. InAttempt(r) /\ p \in AttemptPhases /\ UNCHANGED <<storeVars, proxyVars>>
      BY <1>7 DEF UseKey, FindPoolDry, InAttempt, AttemptPhases
    <2>3. request' = [request EXCEPT ![r] = [request[r] EXCEPT
              !.phase = p, !.token = request[r].token, !.tried = request[r].tried]]
      BY <1>4, <2>1
    <2>4. Counted' /\ RestOK'
      BY <1>2, <1>6, <2>2, <2>3
    <2> QED
      BY <2>2, <2>4
  <1>8. CASE ClaimToken(r)
    <2>1. PICK t \in Pool[request[r].endpoint] :
            /\ Claim(Pool[request[r].endpoint], t, {})
            /\ request' = [request EXCEPT ![r] =
                               [request[r] EXCEPT !.phase = "ready", !.token = t]]
      BY <1>1, <1>8 DEF ClaimToken
    <2>2. InAttempt(r) /\ "ready" \in AttemptPhases /\ UNCHANGED proxyVars
      BY <1>8 DEF ClaimToken, InAttempt, AttemptPhases
    <2>3. t \in Tokens
      BY <2>2, LoopAssumption DEF IInv, Placed, Seated, InAttempt, ChosenPhases
    <2>4. StoreInv'
      BY <2>1, <2>3, ClaimKeeps DEF IInv
    <2>5. request' = [request EXCEPT ![r] = [request[r] EXCEPT
              !.phase = "ready", !.token = t, !.tried = request[r].tried]]
      BY <1>3, <2>1
    <2>6. Counted' /\ RestOK'
      BY <1>2, <1>6, <2>2, <2>3, <2>5
    <2> QED
      BY <2>4, <2>6
  <1>9. CASE CoolEndpoint(r)
    <2>1. InAttempt(r)
      BY <1>9 DEF CoolEndpoint, InAttempt, AttemptPhases
    <2>2. Counted'
      BY <1>9, <2>1, RetryKeeps, MemoryType DEF CoolEndpoint
    <2>3. PICK e \in Endpoints : e = request[r].endpoint
      BY <2>1 DEF IInv, Placed, Seated, InAttempt, ChosenPhases
    <2>4. Pool[e] \subseteq Tokens
      BY LoopAssumption
    <2>5. \A t \in Cooling(Pool[e]) : rows[t].cooldown \in Times
      <3>1. \A t \in Cooling(Pool[e]) : rows[t] \in Rows
        BY <2>4 DEF Cooling, IInv, StoreInv, StoreTypeOK
      <3>2. \A t \in Cooling(Pool[e]) : rows[t].cooldown > 0 /\ rows[t].cooldown \in NullTimes
        BY <3>1 DEF Cooling, Rows
      <3> QED
        BY <3>2 DEF NullTimes, Times, Null
    <2>6. EarliestTokenCooldown(Pool[e]) \subseteq Times
      BY <2>5, RowAssumption DEF EarliestTokenCooldown, Times
    <2>7. cooldown' \in [Endpoints -> Times]
      BY <1>1, <1>9, <2>3, <2>6 DEF CoolEndpoint, RestOK
    <2> QED
      BY <1>1, <1>9, <2>2, <2>7 DEF CoolEndpoint, RestOK
  <1>10. CASE PrepareFails(r)
    <2>1. InAttempt(r)
      BY <1>10 DEF PrepareFails, InAttempt, AttemptPhases
    <2>2. Counted'
      BY <1>10, <2>1, RetryKeeps, MemoryType DEF PrepareFails
    <2> QED
      BY <1>10, <2>2 DEF PrepareFails
  <1>11. CASE Send(r)
    <2>1. InAttempt(r) /\ "out" \in AttemptPhases /\ UNCHANGED <<storeVars, proxyVars>>
      BY <1>11 DEF Send, InAttempt, AttemptPhases
    <2>2. PICK done \in SUBSET (Endpoints \X (Tokens \cup {NoToken})) :
            request' = [request EXCEPT ![r] =
                            [request[r] EXCEPT !.phase = "out", !.tried = done]]
      <3>1. <<request[r].endpoint, request[r].token>> \in Endpoints \X (Tokens \cup {NoToken})
        BY <1>6, <2>1 DEF IInv, Placed, Seated, InAttempt, ChosenPhases
      <3> DEFINE done == request[r].tried \cup {<<request[r].endpoint, request[r].token>>}
      <3>2. done \in SUBSET (Endpoints \X (Tokens \cup {NoToken}))
        BY <1>6, <3>1
      <3>3. request' = [request EXCEPT ![r] =
                            [request[r] EXCEPT !.phase = "out", !.tried = done]]
        BY <1>1, <1>11 DEF Send
      <3> QED
        BY <3>2, <3>3
    <2>3. request' = [request EXCEPT ![r] = [request[r] EXCEPT
              !.phase = "out", !.token = request[r].token, !.tried = done]]
      BY <1>5, <2>2
    <2>4. Counted' /\ RestOK'
      BY <1>2, <1>6, <2>1, <2>3
    <2> QED
      BY <2>1, <2>4
  <1> QED
    BY <1>7, <1>8, <1>9, <1>10, <1>11 DEF Prepare

(* What comes of an attempt. *)
LEMMA ConcludeKeeps ==
  ASSUME IInv, NEW r \in Requests, Conclude(r)
  PROVE  IInv'
  <1> USE Pieces, IdleKeeps, MemoryType, MarksKeep
  <1>1. request[r] \in RequestStates /\ r \in DOMAIN request /\ RestOK
    BY DEF IInv, TypeOK
  <1>2. \A kind : Answer(r, kind) => request[r].phase = "out"
    BY DEF Answer
  <1>3. request[r].phase \in {"out", "stream"} => InAttempt(r)
    BY DEF InAttempt, AttemptPhases
  <1>4. InAttempt(r) => request[r].endpoint \in Endpoints
    BY DEF IInv, Placed, Seated, InAttempt, ChosenPhases
  <1>5. ASSUME NEW x \in Memories, NEW code, InAttempt(r), FailOver(r, code, x)
        PROVE  IInv'
    <2>1. StoreInv' /\ Counted'
      BY <1>5, RetryKeeps DEF FailOver
    <2>2. RestOK'
      BY <1>1, <1>4, <1>5 DEF FailOver, RestOK
    <2> QED
      BY <2>1, <2>2
  <1>6. ASSUME InAttempt(r), Credit(r)
        PROVE  IInv'
    <2>1. StoreInv' /\ Counted'
      BY <1>6, EndKeeps DEF Credit, Outcomes
    <2>2. RestOK'
      BY <1>1, <1>6 DEF Credit, RestOK
    <2> QED
      BY <2>1, <2>2
  <1>7. CASE SendAbandoned(r)
    <2>1. Counted'
      BY <1>3, <1>7, RetryKeeps DEF SendAbandoned
    <2> QED
      BY <1>7, <2>1 DEF SendAbandoned
  <1>8. CASE SendTransient(r)
    <2>1. Counted'
      BY <1>2, <1>3, <1>8, RetryKeeps DEF SendTransient
    <2> QED
      BY <1>8, <2>1 DEF SendTransient
  <1>9. CASE SendFails(r)
    BY <1>3, <1>5, <1>9 DEF SendFails
  <1>10. CASE StreamOpens(r)
    <2>1. request'[r] = [request[r] EXCEPT !.phase = "stream"]
      BY <1>1, <1>10 DEF StreamOpens
    <2>2. request'[r] \in RequestStates
      BY <1>1, <2>1 DEF RequestStates, Phases, AttemptPhases
    <2>3. request' = [request EXCEPT ![r] = request'[r]]
      BY <1>1, <1>10, <2>1 DEF StreamOpens
    <2>4. /\ InAttempt(r)
          /\ InAttempt(r)' /\ Seated(request'[r])
          /\ request'[r].endpoint = request[r].endpoint
      <3>1. request'[r].phase = "stream" /\ request'[r].endpoint = request[r].endpoint
        BY <1>1, <2>1 DEF RequestStates
      <3> QED
        BY <1>2, <1>3, <1>4, <1>10, <3>1 DEF StreamOpens, InAttempt, AttemptPhases, Seated
    <2>5. Counted'
      BY <1>10, <2>2, <2>3, <2>4, MovesKeeps DEF StreamOpens, proxyVars
    <2> QED
      BY <1>10, <2>5 DEF StreamOpens, proxyVars
  <1>11. CASE StreamEnds(r) \/ BodyServed(r)
    BY <1>2, <1>3, <1>6, <1>11 DEF StreamEnds, BodyServed
  <1>12. CASE BodyFails(r)
    <2>1. StoreInv' /\ Counted'
      BY <1>3, <1>12, RetryKeeps DEF BodyFails
    <2>2. RestOK'
      BY <1>1, <1>3, <1>4, <1>12 DEF BodyFails, RestOK
    <2> QED
      BY <2>1, <2>2
  <1>13. CASE UsageLimited(r)
    <2>1. InAttempt(r) /\ request[r].endpoint \in Endpoints
      BY <1>2, <1>3, <1>4, <1>13 DEF UsageLimited
    <2>2. PICK d \in UsageCooldowns :
            IF request[r].token # NoToken
            THEN /\ MarkUsageLimit(request[r].token, d, {})
                 /\ RetrySame(r, "last")
                 /\ UNCHANGED cooldown
            ELSE /\ cooldown' = [cooldown EXCEPT ![request[r].endpoint] = d]
                 /\ RetryNext(r, "last")
                 /\ UNCHANGED storeVars
      BY <1>13 DEF UsageLimited
    <2>3. d \in Times
      BY LoopAssumption, RowAssumption DEF Times
    <2>4. StoreInv'
      BY <2>2, <2>3
    <2>5. Counted'
      BY <2>1, <2>2, RetryKeeps DEF Memories
    <2>6. cooldown' \in [Endpoints -> Times]
      BY <1>1, <2>2, <2>3 DEF RestOK
    <2>7. RestOK'
      BY <1>1, <1>13, <2>1, <2>6 DEF UsageLimited, RestOK
    <2> QED
      BY <2>4, <2>5, <2>7
  <1>14. CASE PaymentRequired(r)
    <2>1. InAttempt(r) /\ request[r].endpoint \in Endpoints
      BY <1>2, <1>3, <1>4, <1>14 DEF PaymentRequired
    <2>2. StoreInv' /\ Counted'
      BY <1>14, <2>1, RetryKeeps DEF PaymentRequired, Memories
    <2>3. RestOK'
      BY <1>1, <1>14, <2>1 DEF PaymentRequired, RestOK
    <2> QED
      BY <2>2, <2>3
  <1>15. CASE RetryableStatus(r)
    BY <1>2, <1>3, <1>5, <1>15 DEF RetryableStatus
  <1>16. CASE Unauthorized(r)
    <2>1. StoreInv' /\ Counted'
      BY <1>2, <1>3, <1>16, RetryKeeps DEF Unauthorized
    <2> QED
      BY <1>16, <2>1 DEF Unauthorized
  <1>17. CASE PassOn(r)
    <2>1. InAttempt(r)
      BY <1>2, <1>3, <1>17 DEF PassOn
    <2>2. StoreInv'
      BY <1>17 DEF PassOn
    <2>3. Counted'
      BY <1>17, <2>1, EndKeeps DEF PassOn, Outcomes
    <2> QED
      BY <1>17, <2>2, <2>3 DEF PassOn
  <1> QED
    BY <1>7, <1>8, <1>9, <1>10, <1>11, <1>12, <1>13, <1>14, <1>15, <1>16, <1>17 DEF Conclude

(* Clients, the administrator and the clock. *)
LEMMA DisturbKeeps ==
  ASSUME IInv, Disturb \/ Tick
  PROVE  IInv'
  <1> USE Pieces, IdleKeeps
  <1>1. /\ request \in [Requests -> RequestStates] /\ RestOK
        /\ StoreInv /\ Counted
    BY DEF IInv, TypeOK
  <1>2. UNCHANGED <<active, request>> => Counted'
    BY <1>1 DEF Counted, Placed, ActiveExact, InAttempt
  <1>0. ASSUME UNCHANGED active, request' \in [Requests -> RequestStates],
               \A r \in Requests : /\ request'[r].phase = request[r].phase
                                   /\ request'[r].endpoint = request[r].endpoint
        PROVE  Counted'
    <2>1. \A r \in Requests : InAttempt(r)' <=> InAttempt(r)
      BY <1>0 DEF InAttempt
    <2>2. \A f : Busy(f)' = Busy(f)
      BY <1>0, <2>1 DEF Busy
    <2>3. Placed'
      BY <1>0, <1>1 DEF Counted, Placed, Seated
    <2>4. ActiveExact'
      BY <1>0, <1>1, <2>2 DEF Counted, ActiveExact, Busy
    <2> QED
      BY <1>0, <1>1, <2>3, <2>4 DEF Counted
  <1>3. ASSUME NEW r \in Requests, HangUp(r) PROVE IInv'
    <2>1. request'[r] = [request[r] EXCEPT !.here = FALSE]
      BY <1>1, <1>3 DEF HangUp
    <2>2. request'[r] \in RequestStates
      BY <1>1, <2>1 DEF RequestStates
    <2>3. request' = [request EXCEPT ![r] = request'[r]]
      BY <1>1, <1>3, <2>1 DEF HangUp
    <2>4. request'[r].phase = request[r].phase /\ request'[r].endpoint = request[r].endpoint
      BY <1>1, <2>1 DEF RequestStates
    <2>5. InAttempt(r)' <=> InAttempt(r)
      BY <2>4 DEF InAttempt
    <2>6. Counted'
      BY <1>1, <1>3, <2>2, <2>3, <2>4, <2>5, MovesKeeps
         DEF HangUp, proxyVars, Counted, Placed, Seated
    <2> QED
      BY <1>3, <2>6 DEF HangUp, proxyVars
  <1>4. ASSUME NEW e \in Endpoints, Switch(e) PROVE IInv'
    <2>1. \A r \in Requests :
            /\ request'[r] \in RequestStates
            /\ request'[r].phase = request[r].phase
            /\ request'[r].endpoint = request[r].endpoint
      <3> TAKE r \in Requests
      <3>1. request[r] \in RequestStates
        BY <1>1
      <3>2. request'[r] = request[r] \/ request'[r] = [request[r] EXCEPT !.cut = TRUE]
        BY <1>4 DEF Switch
      <3> QED
        BY <3>1, <3>2 DEF RequestStates
    <2>2. request' \in [Requests -> RequestStates]
      BY <1>4, <2>1 DEF Switch
    <2>3. Counted'
      BY <1>0, <1>4, <2>1, <2>2 DEF Switch
    <2>4. RestOK'
      BY <1>1, <1>4 DEF RestOK, Switch
    <2> QED
      BY <1>4, <2>3, <2>4 DEF Switch
  <1>5. ASSUME NEW t \in Tokens, AddToken(t) PROVE IInv'
    <2>1. StoreInv'
      BY <1>1, <1>5, FreshRowType, InsertKeeps DEF AddToken
    <2> QED
      BY <1>2, <1>5, <2>1 DEF AddToken, proxyVars
  <1>9. ASSUME OpenAgain, UNCHANGED active PROVE Counted'
    <2>1. \A r \in Requests :
            /\ request'[r] \in RequestStates
            /\ request'[r].phase = request[r].phase
            /\ request'[r].endpoint = request[r].endpoint
      <3> TAKE r \in Requests
      <3>1. request[r] \in RequestStates
        BY <1>1
      <3>2. PICK v \in SUBSET (Endpoints \cup {NoEndpoint}) :
              request'[r] = [request[r] EXCEPT !.vain = v]
        <4>1. request[r].vain \ Open' \in SUBSET (Endpoints \cup {NoEndpoint})
          BY <3>1 DEF RequestStates
        <4>2. request'[r] = [request[r] EXCEPT !.vain = @ \ Open']
          BY <1>9 DEF OpenAgain
        <4> QED
          BY <3>1, <4>1, <4>2 DEF RequestStates
      <3> QED
        BY <3>1, <3>2 DEF RequestStates
    <2> QED
      BY <1>0, <1>9, <2>1 DEF OpenAgain
  <1>6. CASE ClearEndpoints
    <2>1. 0 \in Times
      BY RowAssumption DEF Times
    <2>2. RestOK'
      BY <1>1, <1>6, <2>1 DEF ClearEndpoints, RestOK
    <2> QED
      BY <1>6, <1>9, <2>2 DEF ClearEndpoints
  <1>7. CASE ClearTokens
    <2>1. StoreInv'
      BY <1>1, <1>7, SweepKeeps DEF ClearTokens
    <2>2. RestOK'
      BY <1>1, <1>7 DEF ClearTokens, RestOK
    <2> QED
      BY <1>2, <1>7, <2>1, <2>2 DEF ClearTokens
  <1>8. CASE Tick
    <2>1. StoreInv'
      BY <1>1, <1>8, SweepKeeps DEF Tick
    <2>2. \A x \in Times : Later(x) \in Times
      BY RowAssumption DEF Later, Times
    <2>3. RestOK'
      BY <1>1, <1>8, <2>2 DEF Tick, RestOK
    <2> QED
      BY <1>8, <1>9, <2>1, <2>3 DEF Tick
  <1> QED
    BY <1>3, <1>4, <1>5, <1>6, <1>7, <1>8 DEF Disturb

-----------------------------------------------------------------------------
(* The invariant.                                                            *)

(* At the start no attempt is under way and none is counted. *)
LEMMA InitInv == Init => IInv
  <1> SUFFICES ASSUME Init PROVE IInv
    OBVIOUS
  <1>1. RestOK
    <2>1. 1 \in Endpoints /\ 0 \in Times
      BY LoopAssumption, RowAssumption DEF Endpoints, Times
    <2> QED
      BY <2>1 DEF Init, RestOK
  <1>2. StoreInv
    <2>1. \A t \in Tokens : life[t] # "deleted"
      BY DEF Init
    <2>2. rows \in [Tokens -> Rows]
      BY FreshRowType, LoopAssumption DEF Init
    <2> QED
      BY <2>1, <2>2 DEF Init, StoreInv, StoreTypeOK, DeletedTokenStaysGone, Lives
  <1>3. \A r \in Requests : request[r].phase = "new" /\ request[r] = NewRequest
    BY DEF Init, NewRequest
  <1>4. NewRequest \in RequestStates
    BY DEF NewRequest, RequestStates, Phases, Outcomes
  <1>5. \A r \in Requests : ~ InAttempt(r)
    BY <1>3 DEF InAttempt, AttemptPhases
  <1>8. Placed
    BY <1>3 DEF Placed, Seated, ChosenPhases, AttemptPhases
  <1>6. ActiveExact
    <2>1. \A e : {r \in Requests : InAttempt(r) /\ request[r].endpoint = e} = {}
      BY <1>5
    <2>2. Cardinality({}) = 0
      BY FS_EmptySet
    <2> QED
      BY <2>1, <2>2 DEF Init, ActiveExact
  <1>7. Counted
    BY <1>4, <1>5, <1>6, <1>8 DEF Init, Counted
  <1> QED
    BY <1>1, <1>2, <1>7 DEF IInv, TypeOK, Counted, RestOK, StoreInv

(* Every step of every request, of the clients and of the administrator keeps it. *)
LEMMA StepInv == IInv /\ [Next]_vars => IInv'
  <1> SUFFICES ASSUME IInv, [Next]_vars PROVE IInv'
    OBVIOUS
  <1>1. CASE UNCHANGED vars
    BY <1>1, Pieces, IdleKeeps
       DEF vars, proxyVars, Counted, Placed, ActiveExact, InAttempt
  <1>2. CASE Next
    BY <1>2, LoopKeeps, PrepareKeeps, ConcludeKeeps, DisturbKeeps DEF Next, Serve
  <1> QED
    BY <1>1, <1>2

(* The inductive invariant holds of every run of the program. *)
THEOREM Invariance == Spec => []IInv
  BY InitInv, StepInv, PTL DEF Spec

(* Every variable of the proxy and of its requests keeps its type. *)
THEOREM TypeInvariant == Spec => []TypeOK
  <1>1. IInv => TypeOK
    BY DEF IInv
  <1> QED
    BY <1>1, Invariance, PTL

(* activeRequests counts the attempts under way exactly, for any number of   *)
(* endpoints, tokens and concurrent requests: whichever way an attempt ends, *)
(* it leaves its endpoint once.                                              *)
THEOREM AttemptsCounted == Spec => []ActiveExact
  <1>1. IInv => ActiveExact
    BY DEF IInv
  <1> QED
    BY <1>1, Invariance, PTL
-----------------------------------------------------------------------------
(* Who enters an attempt.                                                    *)

(* A request's own step leaves every other request as it is. *)
LEMMA OneMoves ==
  ASSUME IInv, NEW q \in Requests, Begin(q) \/ Serve(q), NEW r \in Requests, r # q
  PROVE  request'[r] = request[r]
  <1>1. \E x : request' = [request EXCEPT ![q] = x]
    <2>1. \A y, o : RetryNext(q, y) \/ RetrySame(q, y) \/ End(q, o) =>
              \E x : request' = [request EXCEPT ![q] = x]
      BY DEF RetryNext, RetrySame, End
    <2>2. \A code, y : FailOver(q, code, y) \/ Credit(q) =>
              \E x : request' = [request EXCEPT ![q] = x]
      BY <2>1 DEF FailOver, Credit
    <2>3. Begin(q) \/ Loop(q) => \E x : request' = [request EXCEPT ![q] = x]
      BY <2>1 DEF Begin, Loop, Exhaust, Abandon, CheckClient, NoEndpointLeft, TurnAway,
                  ChooseEndpoint, StartAttempt, Rotate
    <2>4. Prepare(q) => \E x : request' = [request EXCEPT ![q] = x]
      BY <2>1 DEF Prepare, UseKey, ClaimToken, FindPoolDry, CoolEndpoint, PrepareFails, Send
    <2>5. Conclude(q) => \E x : request' = [request EXCEPT ![q] = x]
      BY <2>1, <2>2
         DEF Conclude, SendAbandoned, SendTransient, SendFails, StreamOpens, StreamEnds,
             BodyServed, BodyFails, UsageLimited, PaymentRequired, RetryableStatus,
             Unauthorized, PassOn
    <2> QED
      BY <2>3, <2>4, <2>5 DEF Serve
  <1> QED
    BY <1>1 DEF IInv, TypeOK

(* Preparing and concluding are done within an attempt only. *)
LEMMA WithinAttempt ==
  ASSUME NEW r \in Requests, Prepare(r) \/ Conclude(r)
  PROVE  InAttempt(r)
  BY DEF Prepare, UseKey, ClaimToken, FindPoolDry, CoolEndpoint, PrepareFails, Send,
         Conclude, SendAbandoned, SendTransient, SendFails, StreamOpens, StreamEnds,
         BodyServed, BodyFails, UsageLimited, PaymentRequired, RetryableStatus,
         Unauthorized, PassOn, Answer, InAttempt, AttemptPhases

(* Nobody else moves a request into an attempt. *)
LEMMA OnlyStartEnters ==
  ASSUME IInv, [Next]_vars, NEW r \in Requests, ~ InAttempt(r), InAttempt(r)'
  PROVE  StartAttempt(r)
  <1>1. /\ request \in [Requests -> RequestStates]
        /\ request[r].phase \notin AttemptPhases
        /\ request'[r].phase \in AttemptPhases
    BY DEF IInv, TypeOK, InAttempt
  <1>2. request'[r] # request[r]
    BY <1>1
  <1>3. ASSUME Disturb \/ Tick PROVE FALSE
    <2>1. ASSUME NEW q \in Requests, HangUp(q) PROVE FALSE
      <3>1. request'[r].phase = request[r].phase
        BY <1>1, <2>1 DEF HangUp, RequestStates
      <3> QED
        BY <1>1, <3>1
    <2>2. ASSUME NEW e \in Endpoints, Switch(e) PROVE FALSE
      <3>1. request'[r] = request[r] \/ request'[r] = [request[r] EXCEPT !.cut = TRUE]
        BY <2>2 DEF Switch
      <3>2. request'[r].phase = request[r].phase
        BY <1>1, <3>1 DEF RequestStates
      <3> QED
        BY <1>1, <3>2
    <2>3. ASSUME OpenAgain PROVE FALSE
      <3>1. request'[r].phase = request[r].phase
        BY <1>1, <2>3 DEF OpenAgain, RequestStates
      <3> QED
        BY <1>1, <3>1
    <2> QED
      BY <1>2, <1>3, <2>1, <2>2, <2>3 DEF Disturb, AddToken, ClearEndpoints, ClearTokens, Tick
  <1>4. PICK q \in Requests : Begin(q) \/ Serve(q)
    BY <1>2, <1>3 DEF Next, vars
  <1>5. q = r
    BY <1>2, <1>4, OneMoves
  <1>6. \A o : End(r, o) => request'[r].phase \notin AttemptPhases
    BY <1>1 DEF End, RequestStates, AttemptPhases
  <1>7. ~ Begin(r) /\ ~ Rotate(r)
    <2>1. ASSUME Begin(r) \/ Rotate(r) PROVE request'[r].phase = "loop"
      <3>1. CASE Begin(r)
        <4>1. PICK pin :
                request' = [request EXCEPT ![r].phase = "loop", ![r].pin = pin,
                                           ![r].budget = computeMaxRetries,
                                           ![r].owed = Owed(pin)]
          BY <3>1 DEF Begin
        <4> QED
          BY <1>1, <4>1 DEF RequestStates
      <3>2. CASE Rotate(r)
        BY <1>1, <3>2 DEF Rotate, RequestStates
      <3> QED
        BY <2>1, <3>1, <3>2
    <2> QED
      BY <1>1, <2>1 DEF AttemptPhases
  <1>8. ~ Exhaust(r) /\ ~ Abandon(r) /\ ~ NoEndpointLeft(r)
    BY <1>1, <1>6 DEF Exhaust, Abandon, NoEndpointLeft, TurnAway
  <1>10. ~ CheckClient(r) /\ ~ ChooseEndpoint(r)
    <2>1. ~ CheckClient(r)
      BY <1>1 DEF CheckClient, RequestStates, AttemptPhases
    <2>2. ASSUME ChooseEndpoint(r) PROVE FALSE
      <3>1. request'[r].phase = "entering"
        BY <1>1, <2>2, ChooseFields DEF RequestStates
      <3> QED
        BY <1>1, <3>1 DEF AttemptPhases
    <2> QED
      BY <2>1, <2>2
  <1>9. ~ Prepare(r) /\ ~ Conclude(r)
    BY WithinAttempt
  <1> QED
    BY <1>4, <1>5, <1>7, <1>8, <1>9, <1>10 DEF Serve, Loop

-----------------------------------------------------------------------------
(* Why nothing is wasted twice.                                              *)

\* What attempts were wasted on is still as it was, and is looked at before
\* another one begins.
VainOK(x) ==
    /\ x.vain \cap Open = {}
    /\ (x.here \/ x.phase \in {"picking", "entering"}) => NoEndpoint \notin x.vain
    /\ x.phase = "entering" => x.endpoint \notin x.vain

NothingForgotten == \A r \in Requests : VainOK(request[r])

(* The steps of requests put endpoints to rest and wake none. *)
LEMMA ServingWakesNone ==
  ASSUME IInv, NEW q \in Requests, Begin(q) \/ Serve(q)
  PROVE  Open' \subseteq Open
  <1>1. cooldown \in [Endpoints -> Times]
    BY DEF IInv, TypeOK
  <1>2. UNCHANGED cooldown \/ \E e, d : d # 0 /\ cooldown' = [cooldown EXCEPT ![e] = d]
    <2>1. Begin(q) \/ Loop(q) => UNCHANGED cooldown
      BY DEF Begin, Loop, Exhaust, Abandon, CheckClient, NoEndpointLeft, TurnAway,
             ChooseEndpoint, StartAttempt, Rotate, proxyVars
    <2>2. Prepare(q) => UNCHANGED cooldown \/ CoolEndpoint(q)
      BY DEF Prepare, UseKey, ClaimToken, FindPoolDry, PrepareFails, Send, proxyVars
    <2>3. Conclude(q) => UNCHANGED cooldown \/ UsageLimited(q)
      BY DEF Conclude, SendAbandoned, SendTransient, SendFails, StreamOpens, StreamEnds,
             BodyServed, BodyFails, PaymentRequired, RetryableStatus, Unauthorized, PassOn,
             FailOver, Credit, proxyVars
    <2>4. CoolEndpoint(q) => UNCHANGED cooldown
            \/ \E e, d : d # 0 /\ cooldown' = [cooldown EXCEPT ![e] = d]
      BY DEF CoolEndpoint
    <2>5. UsageLimited(q) => UNCHANGED cooldown
            \/ \E e, d : d # 0 /\ cooldown' = [cooldown EXCEPT ![e] = d]
      <3>1. 0 \notin UsageCooldowns
        BY LoopAssumption, RowAssumption
      <3> QED
        BY <3>1 DEF UsageLimited
    <2> QED
      BY <2>1, <2>2, <2>3, <2>4, <2>5 DEF Serve
  <1> QED
    BY <1>1, <1>2 DEF Open

(* Only the three steps that begin an attempt lead to one, and the last of   *)
(* them alone remembers what it was wasted on.                               *)
LEMMA WasteStays ==
  ASSUME IInv, NEW r \in Requests, Begin(r) \/ Serve(r),
         ~ CheckClient(r), ~ ChooseEndpoint(r), ~ StartAttempt(r)
  PROVE  /\ request'[r].vain = request[r].vain /\ request'[r].here = request[r].here
         /\ request'[r].phase \notin {"picking", "entering"}
  <1> DEFINE x == request[r]
             y == request'[r]
             Same == y.vain = x.vain /\ y.here = x.here /\ y.phase \notin {"picking", "entering"}
  <1>1. request \in [Requests -> RequestStates] /\ x \in RequestStates
    BY DEF IInv, TypeOK
  <1>2. ASSUME NEW o, End(r, o) PROVE Same
    BY <1>1, <1>2 DEF End, RequestStates
  <1>3. ASSUME NEW m, RetryNext(r, m) \/ RetrySame(r, m) PROVE Same
    <2>1. r \in DOMAIN request
      BY <1>1
    <2>2. CASE RetryNext(r, m)
      BY <1>1, <2>1, <2>2 DEF RetryNext, AfterAttempt, RequestStates
    <2>3. CASE RetrySame(r, m)
      BY <1>1, <2>1, <2>3 DEF RetrySame, AfterAttempt, RequestStates
    <2> QED
      BY <1>3, <2>2, <2>3
  <1>4. CASE Begin(r)
    <2>1. PICK pin :
            request' = [request EXCEPT ![r].phase = "loop", ![r].pin = pin,
                                       ![r].budget = computeMaxRetries,
                                       ![r].owed = Owed(pin)]
      BY <1>4 DEF Begin
    <2> QED
      BY <1>1, <2>1 DEF RequestStates
  <1>5. CASE Rotate(r)
    BY <1>1, <1>5 DEF Rotate, RequestStates
  <1>6. CASE Exhaust(r) \/ Abandon(r) \/ NoEndpointLeft(r)
    BY <1>2, <1>6 DEF Exhaust, Abandon, NoEndpointLeft, TurnAway
  <1>7. CASE Prepare(r)
    <2>1. CASE UseKey(r) \/ ClaimToken(r) \/ FindPoolDry(r) \/ Send(r)
      BY <1>1, <2>1 DEF UseKey, ClaimToken, FindPoolDry, Send, RequestStates
    <2>2. CASE CoolEndpoint(r) \/ PrepareFails(r)
      BY <1>3, <2>2 DEF CoolEndpoint, PrepareFails
    <2> QED
      BY <1>7, <2>1, <2>2 DEF Prepare
  <1>8. CASE Conclude(r)
    <2>1. CASE StreamOpens(r)
      BY <1>1, <2>1 DEF StreamOpens, RequestStates
    <2>2. StreamOpens(r) \/ (\E o : End(r, o)) \/ \E m : RetryNext(r, m) \/ RetrySame(r, m)
      <3>1. \A code, m : FailOver(r, code, m) => RetryNext(r, m)
        BY DEF FailOver
      <3>2. Credit(r) => \E o : End(r, o)
        BY DEF Credit
      <3> QED
        BY <1>8, <3>1, <3>2 DEF Conclude, SendAbandoned, SendTransient, SendFails, StreamEnds,
             BodyServed, BodyFails, UsageLimited, PaymentRequired, RetryableStatus,
             Unauthorized, PassOn
    <2> QED
      BY <1>2, <1>3, <2>1, <2>2
  <1> QED
    BY <1>4, <1>5, <1>6, <1>7, <1>8 DEF Serve, Loop

(* A request's own step forgets no waste that still stands. *)
LEMMA OwnStepRemembers ==
  ASSUME IInv, NEW r \in Requests, VainOK(request[r]), Begin(r) \/ Serve(r)
  PROVE  VainOK(request[r])'
  <1>1. /\ request \in [Requests -> RequestStates] /\ request[r] \in RequestStates
        /\ Open \subseteq Endpoints /\ NoEndpoint \notin Endpoints
    BY DEF IInv, TypeOK, Open, NoEndpoint, Endpoints
  <1>2. Open' \subseteq Open
    BY ServingWakesNone
  <1>3. CASE CheckClient(r)
    <2>1. /\ request'[r].phase = "picking" /\ request'[r].vain = request[r].vain
          /\ request'[r].here = request[r].here /\ request[r].here
      BY <1>1, <1>3 DEF CheckClient, RequestStates
    <2> QED
      BY <1>2, <2>1 DEF VainOK
  <1>4. CASE ChooseEndpoint(r)
    <2>1. PICK e \in Candidates(r), n \in Nat :
            /\ current' = IF request[r].pin = NoEndpoint THEN e ELSE current
            /\ request'[r] = [request[r] EXCEPT !.phase = "entering", !.endpoint = e, !.inARow = n]
            /\ request' = [request EXCEPT ![r] = request'[r]]
      BY <1>4, ChooseFields
    <2>2. /\ request'[r].phase = "entering" /\ request'[r].vain = request[r].vain
          /\ request'[r].endpoint = e /\ request[r].phase = "picking"
      BY <1>1, <1>4, <2>1 DEF ChooseEndpoint, RequestStates
    <2>3. e \in Open
      BY DEF Candidates
    <2> QED
      BY <1>2, <2>2, <2>3 DEF VainOK
  <1>5. CASE StartAttempt(r)
    <2>1. /\ request'[r].phase = "auth" /\ request'[r].vain = request[r].vain \cup Vain(r)
          /\ request'[r].here = request[r].here /\ request[r].phase = "entering"
      BY <1>1, <1>5 DEF StartAttempt, RequestStates
    <2>2. request[r].endpoint \in Endpoints
      BY <2>1 DEF IInv, Placed, Seated, ChosenPhases
    <2>3. Vain(r) \cap Open = {} /\ (request[r].here => NoEndpoint \notin Vain(r))
      BY <1>1, <2>2 DEF Vain
    <2> QED
      BY <1>2, <2>1, <2>3 DEF VainOK
  <1>6. CASE ~ CheckClient(r) /\ ~ ChooseEndpoint(r) /\ ~ StartAttempt(r)
    <2>1. /\ request'[r].vain = request[r].vain /\ request'[r].here = request[r].here
          /\ request'[r].phase \notin {"picking", "entering"}
      BY <1>6, WasteStays
    <2> QED
      BY <1>2, <2>1 DEF VainOK
  <1> QED
    BY <1>3, <1>4, <1>5, <1>6

(* Nor does anybody else's. *)
LEMMA StepRemembers ==
  ASSUME IInv, NothingForgotten, [Next]_vars
  PROVE  NothingForgotten'
  <1> SUFFICES ASSUME NEW r \in Requests PROVE VainOK(request[r])'
    BY DEF NothingForgotten
  <1>1. request \in [Requests -> RequestStates] /\ VainOK(request[r])
    BY DEF IInv, TypeOK, NothingForgotten
  <1>2. ASSUME NEW q \in Requests, Begin(q) \/ Serve(q) PROVE VainOK(request[r])'
    <2>1. CASE q = r
      BY <1>1, <1>2, <2>1, OwnStepRemembers
    <2>2. CASE q # r
      BY <1>1, <1>2, <2>2, OneMoves, ServingWakesNone DEF VainOK
    <2> QED
      BY <2>1, <2>2
  <1>3. ASSUME UNCHANGED cooldown,
               \/ request'[r] = request[r]
               \/ request'[r] = [request[r] EXCEPT !.here = FALSE]
               \/ request'[r] = [request[r] EXCEPT !.cut = TRUE]
        PROVE  VainOK(request[r])'
    <2>1. /\ request'[r].vain = request[r].vain /\ request'[r].phase = request[r].phase
          /\ request'[r].endpoint = request[r].endpoint
          /\ request'[r].here = request[r].here \/ ~ request'[r].here
      BY <1>1, <1>3 DEF RequestStates
    <2>2. Open' = Open
      BY <1>3 DEF Open
    <2> QED
      BY <1>1, <2>1, <2>2 DEF VainOK
  <1>4. ASSUME NEW q \in Requests, HangUp(q) PROVE VainOK(request[r])'
    BY <1>1, <1>3, <1>4 DEF HangUp, proxyVars
  <1>5. ASSUME NEW e \in Endpoints, Switch(e) PROVE VainOK(request[r])'
    BY <1>3, <1>5 DEF Switch
  <1>6. ASSUME OpenAgain PROVE VainOK(request[r])'
    <2>1. request'[r] = [request[r] EXCEPT !.vain = request[r].vain \ Open']
      BY <1>6 DEF OpenAgain
    <2>2. /\ request'[r].vain = request[r].vain \ Open' /\ request'[r].here = request[r].here
          /\ request'[r].phase = request[r].phase /\ request'[r].endpoint = request[r].endpoint
      BY <1>1, <2>1 DEF RequestStates
    <2> QED
      BY <1>1, <2>2 DEF VainOK
  <1>7. CASE (\E t \in Tokens : AddToken(t)) \/ ClearTokens \/ UNCHANGED vars
    BY <1>3, <1>7 DEF AddToken, ClearTokens, vars, proxyVars
  <1>8. CASE ClearEndpoints \/ Tick
    BY <1>6, <1>8 DEF ClearEndpoints, Tick
  <1> QED
    BY <1>2, <1>4, <1>5, <1>7, <1>8 DEF Next, Disturb

(* Whatever clients, other requests, the administrator and the clock do      *)
(* between the looks at the client and the cooldowns and the attempt they    *)
(* lead to: a request begins at most one attempt for a client that is gone,  *)
(* and at most one on an endpoint for as long as that rests.                 *)
THEOREM WasteNotRepeated == Spec => NoSecondWaste
  <1>1. Init => NothingForgotten
    BY DEF Init, NewRequest, NothingForgotten, VainOK
  <1>2. IInv /\ NothingForgotten /\ [Next]_vars => NothingForgotten'
    BY StepRemembers
  <1>3. IInv /\ NothingForgotten /\ [Next]_vars =>
          [\A r \in Requests :
              (~ InAttempt(r) /\ InAttempt(r)') => Vain(r) \cap request[r].vain = {}]_vars
    <2> SUFFICES ASSUME IInv, NothingForgotten, [Next]_vars, NEW r \in Requests,
                        ~ InAttempt(r), InAttempt(r)'
                 PROVE  Vain(r) \cap request[r].vain = {}
      OBVIOUS
    <2>1. request[r].phase = "entering"
      BY OnlyStartEnters DEF StartAttempt
    <2>2. NoEndpoint \notin request[r].vain /\ request[r].endpoint \notin request[r].vain
      BY <2>1 DEF NothingForgotten, VainOK
    <2> QED
      BY <2>2 DEF Vain
  <1> QED
    BY <1>1, <1>2, <1>3, Invariance, PTL DEF Spec, NoSecondWaste

-----------------------------------------------------------------------------
(* Why a request ends: the steps it has left run down.                       *)

Underway(r) == request[r].phase \notin {"new", "done"}

\* The steps that an attempt, or the way to the next one, has yet to take at most.
Rank(phase) ==
    CASE phase = "rotating"        -> 8
      [] phase = "loop"            -> 7
      [] phase = "picking"         -> 6
      [] phase = "entering"        -> 5
      [] phase = "auth"            -> 4
      [] phase \in {"dry", "ready"} -> 3
      [] phase = "out"             -> 2
      [] phase = "stream"          -> 1
      [] OTHER                     -> 0

\* An attempt and the way to the next take fewer than nine steps.
StepsLeft(x) == IF x.phase = "done" THEN 0 ELSE 9 * (x.budget - x.tries) + Rank(x.phase)

\* An attempt, or one that is about to begin, is one that the budget has.
Taken(phase) == phase \in ChosenPhases \cup {"picking"}

WithinBudget ==
    \A r \in Requests : Underway(r) =>
        /\ request[r].tries <= request[r].budget
        /\ Taken(request[r].phase) => request[r].tries < request[r].budget

(* The budget is never nothing: an endpoint has two attempts. *)
LEMMA BudgetPositive == computeMaxRetries \in Nat
  <1>1. IsFiniteSet(Endpoints) /\ Cardinality(Endpoints) = N
    BY FS_Interval, LoopAssumption DEF Endpoints
  <1>2. Cardinality(UsablePools) \in Nat /\ Cardinality(UsablePools) <= N
    BY <1>1, FS_Subset, FS_CardinalityType DEF UsablePools
  <1>3. Cardinality(UsableTokens) \in Nat
    <2>1. IsFiniteSet(Endpoints \X Tokens)
      BY <1>1, FS_Product, LoopAssumption
    <2> QED
      BY <2>1, FS_Subset, FS_CardinalityType DEF UsableTokens
  <1> QED
    BY <1>2, <1>3, LoopAssumption DEF computeMaxRetries

\* What a request's own step may do: go on within the attempt, retry, or end.
GoesOn(x, y) ==
    /\ y.tries = x.tries
    /\ <<x.phase, y.phase>> \in {<<"rotating", "loop">>, <<"loop", "picking">>,
                                 <<"picking", "entering">>, <<"entering", "auth">>,
                                 <<"auth", "ready">>, <<"auth", "dry">>,
                                 <<"ready", "out">>, <<"out", "stream">>}
    /\ x.phase = "loop" => x.tries < x.budget

Retries(x, y) ==
    x.phase \in AttemptPhases /\ y.tries = x.tries + 1 /\ y.phase \in {"loop", "rotating"}

(* There is no other way: every branch of the loop, of the preparation and   *)
(* of the handling of an answer counts the attempt or ends the request.      *)
LEMMA ServeMoves ==
  ASSUME IInv, NEW r \in Requests, Serve(r)
  PROVE  /\ Underway(r) /\ request'[r].budget = request[r].budget
         /\ \/ GoesOn(request[r], request'[r])
            \/ Retries(request[r], request'[r])
            \/ request'[r].phase = "done"
  <1> DEFINE x == request[r]
             y == request'[r]
             Moved == /\ x.phase \notin {"new", "done"} /\ y.budget = x.budget
                      /\ GoesOn(x, y) \/ Retries(x, y) \/ y.phase = "done"
  <1>1. /\ request \in [Requests -> RequestStates] /\ x \in RequestStates
        /\ x.tries \in Nat /\ x.budget \in Int
    BY DEF IInv, TypeOK, RequestStates
  <1>2. \A o : (End(r, o) /\ x.phase \notin {"new", "done"}) => Moved
    BY <1>1 DEF End, RequestStates
  <1>3. \A m : ((RetryNext(r, m) \/ RetrySame(r, m)) /\ x.phase \in AttemptPhases) => Moved
    <2>1. AttemptPhases \cap {"new", "done"} = {}
      BY DEF AttemptPhases
    <2>2. ASSUME NEW m, RetryNext(r, m)
          PROVE  y.tries = x.tries + 1 /\ y.budget = x.budget /\ y.phase \in {"loop", "rotating"}
      BY <1>1, <2>2 DEF RetryNext, AfterAttempt, RequestStates
    <2>3. ASSUME NEW m, RetrySame(r, m)
          PROVE  y.tries = x.tries + 1 /\ y.budget = x.budget /\ y.phase = "loop"
      BY <1>1, <2>3 DEF RetrySame, AfterAttempt, RequestStates
    <2> QED
      BY <2>1, <2>2, <2>3 DEF Retries
  <1>4. CASE Loop(r)
    <2>1. CASE CheckClient(r)
      <3>1. x.phase = "loop" /\ ~ (x.tries >= x.budget)
        BY <2>1 DEF CheckClient, InLoop, Spent
      <3>2. y.phase = "picking" /\ y.tries = x.tries /\ y.budget = x.budget
        BY <1>1, <2>1 DEF CheckClient, RequestStates
      <3>3. x.tries < x.budget
        BY <1>1, <3>1
      <3> QED
        BY <3>1, <3>2, <3>3 DEF GoesOn, Underway
    <2>4. CASE ChooseEndpoint(r) \/ StartAttempt(r)
      <3>1. /\ y.tries = x.tries /\ y.budget = x.budget
            /\ \/ x.phase = "picking" /\ y.phase = "entering"
               \/ x.phase = "entering" /\ y.phase = "auth"
        <4>1. CASE ChooseEndpoint(r)
          <5>1. PICK e \in Candidates(r), n \in Nat :
                  /\ current' = IF x.pin = NoEndpoint THEN e ELSE current
                  /\ y = [x EXCEPT !.phase = "entering", !.endpoint = e, !.inARow = n]
                  /\ request' = [request EXCEPT ![r] = y]
            BY <4>1, ChooseFields
          <5> QED
            BY <1>1, <4>1, <5>1 DEF ChooseEndpoint, RequestStates
        <4>2. CASE StartAttempt(r)
          BY <1>1, <4>2 DEF StartAttempt, RequestStates
        <4> QED
          BY <2>4, <4>1, <4>2
      <3> QED
        BY <3>1 DEF GoesOn, Underway
    <2>2. CASE Rotate(r)
      <3>1. y.phase = "loop" /\ y.tries = x.tries /\ y.budget = x.budget /\ x.phase = "rotating"
        BY <1>1, <2>2 DEF Rotate, RequestStates
      <3> QED
        BY <3>1 DEF GoesOn, Underway
    <2>3. CASE Exhaust(r) \/ Abandon(r) \/ NoEndpointLeft(r)
      <3>1. x.phase \in {"loop", "picking"} /\ \E o : End(r, o)
        BY <2>3 DEF Exhaust, Abandon, NoEndpointLeft, TurnAway, InLoop
      <3> QED
        BY <1>2, <3>1 DEF Underway
    <2> QED
      BY <1>4, <2>1, <2>2, <2>3, <2>4 DEF Loop
  <1>5. CASE Prepare(r)
    <2>1. CASE UseKey(r) \/ ClaimToken(r) \/ FindPoolDry(r) \/ Send(r)
      <3>1. /\ y.tries = x.tries /\ y.budget = x.budget
            /\ \/ x.phase = "auth" /\ y.phase \in {"ready", "dry"}
               \/ x.phase = "ready" /\ y.phase = "out"
        BY <1>1, <2>1 DEF UseKey, ClaimToken, FindPoolDry, Send, RequestStates
      <3> QED
        BY <3>1 DEF GoesOn, Underway
    <2>2. CASE CoolEndpoint(r) \/ PrepareFails(r)
      <3>1. x.phase \in AttemptPhases /\ \E m : RetryNext(r, m)
        BY <2>2 DEF CoolEndpoint, PrepareFails, AttemptPhases
      <3> QED
        BY <1>3, <3>1 DEF Underway
    <2> QED
      BY <1>5, <2>1, <2>2 DEF Prepare
  <1>6. CASE Conclude(r)
    <2>1. x.phase \in {"out", "stream"}
      BY <1>6 DEF Conclude, SendAbandoned, SendTransient, SendFails, StreamOpens, StreamEnds,
           BodyServed, BodyFails, UsageLimited, PaymentRequired, RetryableStatus,
           Unauthorized, PassOn, Answer
    <2>2. CASE StreamOpens(r)
      <3>1. y.tries = x.tries /\ y.budget = x.budget /\ y.phase = "stream" /\ x.phase = "out"
        BY <1>1, <2>2 DEF StreamOpens, Answer, RequestStates
      <3> QED
        BY <3>1 DEF GoesOn, Underway
    <2>3. StreamOpens(r) \/ (\E o : End(r, o)) \/ \E m : RetryNext(r, m) \/ RetrySame(r, m)
      <3>1. \A code, m : FailOver(r, code, m) => RetryNext(r, m)
        BY DEF FailOver
      <3>2. Credit(r) => \E o : End(r, o)
        BY DEF Credit
      <3> QED
        BY <1>6, <3>1, <3>2 DEF Conclude, SendAbandoned, SendTransient, SendFails, StreamEnds,
             BodyServed, BodyFails, UsageLimited, PaymentRequired, RetryableStatus,
             Unauthorized, PassOn
    <2>4. x.phase \in AttemptPhases /\ x.phase \notin {"new", "done"}
      BY <2>1 DEF AttemptPhases
    <2> QED
      BY <1>2, <1>3, <2>2, <2>3, <2>4 DEF Underway
  <1> QED
    BY <1>4, <1>5, <1>6 DEF Serve, Underway

(* Steps of others leave the progress of a request as it is.                 *)
LEMMA OthersWait ==
  ASSUME IInv, [Next]_vars, NEW r \in Requests, ~ Begin(r), ~ Serve(r)
  PROVE  /\ request'[r].phase = request[r].phase
         /\ request'[r].tries = request[r].tries
         /\ request'[r].budget = request[r].budget
  <1>1. request \in [Requests -> RequestStates]
    BY DEF IInv, TypeOK
  <1>2. ASSUME NEW q \in Requests, Begin(q) \/ Serve(q) PROVE request'[r] = request[r]
    BY <1>2, OneMoves
  <1>3. ASSUME NEW q \in Requests, HangUp(q)
        PROVE  request'[r] = request[r] \/ request'[r] = [request[r] EXCEPT !.here = FALSE]
    BY <1>1, <1>3 DEF HangUp
  <1>4. ASSUME NEW e \in Endpoints, Switch(e)
        PROVE  request'[r] = request[r] \/ request'[r] = [request[r] EXCEPT !.cut = TRUE]
    BY <1>4 DEF Switch
  <1>5. ASSUME OpenAgain PROVE \E v : request'[r] = [request[r] EXCEPT !.vain = v]
    BY <1>5 DEF OpenAgain
  <1>6. \/ request'[r] = request[r]
        \/ request'[r] = [request[r] EXCEPT !.here = FALSE]
        \/ request'[r] = [request[r] EXCEPT !.cut = TRUE]
        \/ \E v : request'[r] = [request[r] EXCEPT !.vain = v]
    BY <1>2, <1>3, <1>4, <1>5 DEF Next, Disturb, AddToken, ClearEndpoints, ClearTokens, Tick, vars
  <1> QED
    BY <1>1, <1>6 DEF RequestStates

(* A request begins with the whole budget.                                   *)
LEMMA BeginMoves ==
  ASSUME IInv, NEW r \in Requests, Begin(r)
  PROVE  /\ request[r].phase = "new" /\ request'[r].phase = "loop"
         /\ request'[r].tries = request[r].tries /\ request'[r].budget = computeMaxRetries
  <1>1. request \in [Requests -> RequestStates]
    BY DEF IInv, TypeOK
  <1>2. PICK pin :
          request' = [request EXCEPT ![r].phase = "loop", ![r].pin = pin,
                                     ![r].budget = computeMaxRetries, ![r].owed = Owed(pin)]
    BY DEF Begin
  <1> QED
    BY <1>1, <1>2 DEF Begin, RequestStates

\* Before it begins, a request has tried nothing.
Untouched == \A r \in Requests : request[r].phase = "new" => request[r].tries = 0

BInv == IInv /\ WithinBudget /\ Untouched

(* Every step keeps the attempts within the budget.                          *)
LEMMA StepWithin ==
  ASSUME BInv, [Next]_vars
  PROVE  BInv'
  <1>1. IInv'
    BY StepInv DEF BInv
  <1>2. ASSUME NEW r \in Requests
        PROVE  /\ Underway(r)' => /\ request'[r].tries <= request'[r].budget
                                  /\ Taken(request'[r].phase) => request'[r].tries < request'[r].budget
               /\ request'[r].phase = "new" => request'[r].tries = 0
    <2>1. /\ request[r].tries \in Nat /\ request[r].budget \in Int
          /\ Underway(r) => /\ request[r].tries <= request[r].budget
                            /\ Taken(request[r].phase) => request[r].tries < request[r].budget
          /\ request[r].phase = "new" => request[r].tries = 0
      BY DEF BInv, IInv, TypeOK, RequestStates, WithinBudget, Untouched
    <2>2. CASE Begin(r)
      BY <2>1, <2>2, BeginMoves, BudgetPositive DEF BInv, Taken, ChosenPhases, AttemptPhases
    <2>3. CASE Serve(r)
      <3>1. /\ Underway(r) /\ request'[r].budget = request[r].budget
            /\ \/ GoesOn(request[r], request'[r])
               \/ Retries(request[r], request'[r])
               \/ request'[r].phase = "done"
        BY <2>3, ServeMoves DEF BInv
      <3>2. CASE request'[r].phase = "done"
        BY <3>2 DEF Underway
      <3>3. CASE GoesOn(request[r], request'[r])
        BY <2>1, <3>1, <3>3 DEF GoesOn, Taken, ChosenPhases, AttemptPhases, Underway
      <3>4. CASE Retries(request[r], request'[r])
        BY <2>1, <3>1, <3>4 DEF Retries, Taken, ChosenPhases, AttemptPhases
      <3> QED
        BY <3>1, <3>2, <3>3, <3>4
    <2>4. CASE ~ Begin(r) /\ ~ Serve(r)
      BY <2>1, <2>4, OthersWait DEF BInv, Underway, Taken
    <2> QED
      BY <2>2, <2>3, <2>4
  <1> QED
    BY <1>1, <1>2 DEF BInv, WithinBudget, Untouched

(* A request ends whatever its attempts come to and whatever the others, the *)
(* administrator and the clock do: it has a number of steps left, each of    *)
(* its own steps takes at least one off, and no step of anybody else adds    *)
(* any.  What RequestEnds needs besides is that it goes on (fairness), and   *)
(* that it always can.                                                       *)
THEOREM RequestsRunDown ==
  Spec => [][\A r \in Requests : Underway(r) =>
                /\ StepsLeft(request[r]) \in Nat \ {0}
                /\ StepsLeft(request[r])' <= StepsLeft(request[r])
                /\ Serve(r) => StepsLeft(request[r])' < StepsLeft(request[r])]_vars
  <1> DEFINE Down == \A r \in Requests : Underway(r) =>
                /\ StepsLeft(request[r]) \in Nat \ {0}
                /\ StepsLeft(request[r])' <= StepsLeft(request[r])
                /\ Serve(r) => StepsLeft(request[r])' < StepsLeft(request[r])
  <1>1. BInv /\ [Next]_vars => [Down]_vars
    <2> SUFFICES ASSUME BInv, [Next]_vars, NEW r \in Requests, Underway(r)
                 PROVE  /\ StepsLeft(request[r]) \in Nat \ {0}
                        /\ StepsLeft(request[r])' <= StepsLeft(request[r])
                        /\ Serve(r) => StepsLeft(request[r])' < StepsLeft(request[r])
      OBVIOUS
    <2>1. PICK n \in Nat, b \in Int, p \in Phases \ {"new", "done"} :
            /\ n = request[r].tries /\ b = request[r].budget /\ p = request[r].phase
            /\ n <= b
            /\ Taken(p) => n < b
      BY DEF BInv, IInv, TypeOK, RequestStates, WithinBudget, Underway
    <2>2. PICK k \in 1..8 : k = Rank(p)
      BY DEF Rank, Phases, AttemptPhases
    <2>3. StepsLeft(request[r]) = 9 * (b - n) + k
      BY <2>1, <2>2 DEF StepsLeft
    <2>4. StepsLeft(request[r]) \in Nat \ {0}
      BY <2>1, <2>3
    <2>5. CASE Serve(r)
      <3>1. /\ request'[r].budget = b
            /\ \/ GoesOn(request[r], request'[r])
               \/ Retries(request[r], request'[r])
               \/ request'[r].phase = "done"
        BY <2>1, <2>5, ServeMoves DEF BInv
      <3>2. CASE request'[r].phase = "done"
        BY <2>4, <3>2 DEF StepsLeft
      <3>3. CASE GoesOn(request[r], request'[r])
        <4>1. /\ request'[r].phase # "done" /\ request'[r].tries = n
              /\ Rank(request'[r].phase) \in 1..8 /\ Rank(request'[r].phase) < k
          BY <2>1, <2>2, <3>3 DEF GoesOn, Rank
        <4>2. StepsLeft(request[r])' = 9 * (b - n) + Rank(request'[r].phase)
          BY <3>1, <4>1 DEF StepsLeft
        <4> QED
          BY <2>3, <2>4, <4>1, <4>2
      <3>4. CASE Retries(request[r], request'[r])
        <4>1. /\ request'[r].phase # "done" /\ request'[r].tries = n + 1
              /\ Rank(request'[r].phase) \in 7..8 /\ n < b
          BY <2>1, <3>4 DEF Retries, Rank, Taken, ChosenPhases
        <4>2. StepsLeft(request[r])' = 9 * (b - (n + 1)) + Rank(request'[r].phase)
          BY <3>1, <4>1 DEF StepsLeft
        <4> QED
          BY <2>1, <2>3, <2>4, <4>1, <4>2
      <3> QED
        BY <3>1, <3>2, <3>3, <3>4
    <2>6. CASE ~ Serve(r)
      <3>1. ~ Begin(r)
        BY BeginMoves DEF BInv, Underway
      <3>2. StepsLeft(request[r])' = StepsLeft(request[r])
        BY <2>6, <3>1, OthersWait DEF BInv, StepsLeft
      <3> QED
        BY <2>3, <2>4, <2>6, <3>2
    <2> QED
      BY <2>4, <2>5, <2>6
  <1>2. Init => BInv
    BY InitInv DEF BInv, WithinBudget, Untouched, Underway, Init, NewRequest
  <1>3. BInv /\ [Next]_vars => BInv'
    BY StepWithin
  <1> QED
    BY <1>1, <1>2, <1>3, PTL DEF Spec

-----------------------------------------------------------------------------
(* The walk: why the retry budget is big enough.                             *)

\* A walk that nothing gets in the way of: one request, and endpoints that
\* either serve it, refuse it for good or have used up their quota.
QuietWalk ==
    /\ Answers \subseteq {"usage", "stream", "body", "bad"}
    /\ Disturbances \subseteq {"pin"}
    /\ \A q, r \in Requests : q = r

Calling(r) == request[r].phase \in {"out", "stream"}
Attempted(r) == <<request[r].endpoint, request[r].token>>
Untried(r) == request[r].owed \ request[r].tried
Concluded(r) == request[r].tried \ (IF Calling(r) THEN {Attempted(r)} ELSE {})

\* Of a set o of endpoints and tokens: those with a token, their endpoints, and
\* how many of these lie behind endpoint c.
TokenPairs(o) == {p \in o : p[2] \in Tokens}
PoolsIn(o) == {e \in Endpoints : \E p \in TokenPairs(o) : p[1] = e}
Ahead(o, c) == {e \in PoolsIn(o) : e > c}

\* What the attempts after those on endpoint c may need: one for each token that
\* is owed and not tried, two for each endpoint, one of which is the token's first.
Reserve(o, d, c) == Cardinality(TokenPairs(o \ d)) + 2 * (N - c) - Cardinality(Ahead(o, c))

\* What endpoint c may need besides its tokens: an attempt that finds the pool
\* dry and cools it, or two if there is nothing to cool.
Allowance(o, c) == IF c \in PoolsIn(o) THEN 1 ELSE 2

\* Between two attempts, looking for an endpoint.
Searching == {"loop", "picking"}

\* What of it is still to come for request x, when current is c and k are the
\* cooldowns.
Due(x, c, k) ==
    IF x.phase = "rotating" \/ (x.phase \in Searching /\ k[c] > 0) THEN 0
    ELSE IF x.phase \in Searching
    THEN Allowance(x.owed, c) - (IF x.endpoint = c THEN x.inARow ELSE 0)
    ELSE Allowance(x.owed, c) + 1 - x.inARow

\* The token of a call that is out counts as tried, and its attempt is not over.
Extra(x) == IF x.phase = "out" /\ x.token # NoToken THEN 1 ELSE 0

\* Nobody hangs up or cancels anything, and no clearing is under way.
Quiet(r) ==
    /\ request[r].here /\ ~ request[r].cut /\ ~ clearing
    /\ request[r].phase # "done" => request[r].outcome = "none"

Unbegun(r) ==
    request[r].phase = "new" =>
        request[r] = NewRequest /\ current = 1 /\ cooldown = [e \in Endpoints |-> 0]

\* What is owed and not tried is as good as it was at the beginning.
OwedStands(r) ==
    /\ \A p \in request[r].owed :
        /\ request[r].pin \in {NoEndpoint, p[1]}
        /\ p[1] \in KeyEndpoints => p[2] = NoToken
        /\ p[1] \notin KeyEndpoints => p[2] \in Pool[p[1]]
    /\ \A p \in Untried(r) :
        /\ cooldown[p[1]] = 0
        /\ p[1] \notin KeyEndpoints => p[2] \in Usable(Pool[p[1]])

\* No other token has become usable.
UsableOwed(r) ==
    \A e \in Endpoints : request[r].pin \in {NoEndpoint, e} =>
        \A t \in Usable(Pool[e]) : <<e, t>> \in request[r].owed

\* A token whose call is over is cooling.
TriedRests(r) ==
    \A p \in Concluded(r) : p[2] \in Tokens => p[2] \in Cooling(Pool[p[1]])

\* The token of an attempt is the one it will be marked by.
Holding(r) ==
    /\ request[r].phase \notin {"ready", "out", "stream"} => request[r].token = NoToken
    /\ request[r].phase \in {"ready", "out", "stream"} =>
          IF request[r].endpoint \in KeyEndpoints THEN request[r].token = NoToken
          ELSE request[r].token \in Usable(Pool[request[r].endpoint])
    /\ Calling(r) => Attempted(r) \in request[r].tried
    /\ request[r].phase = "dry" =>
          /\ request[r].endpoint \notin KeyEndpoints
          /\ Usable(Pool[request[r].endpoint]) = {}

\* A pinned request stays on its endpoint, with an attempt for each token.
Pinned(x) ==
    x.pin # NoEndpoint =>
        /\ x.phase \in ChosenPhases => x.endpoint = x.pin
        /\ x.phase # "rotating"
        /\ (x.owed \ x.tried # {} /\ x.phase # "stream") =>
               x.budget - x.tries >= Cardinality(TokenPairs(x.owed \ x.tried)) + 1 + Extra(x)

\* Another one walks from the first endpoint to the last: while anything is left
\* to try it lies ahead, and the attempts for it are there.
Walking(x, c, k) ==
    (x.pin = NoEndpoint /\ x.owed \ x.tried # {} /\ x.phase # "stream") =>
        /\ \A p \in x.owed \ x.tried : p[1] >= c
        /\ \A e \in Endpoints : e > c => k[e] = 0
        /\ x.endpoint <= c
        /\ x.endpoint = NoEndpoint => x.inARow = 0
        /\ x.phase \in ChosenPhases =>
              /\ x.endpoint = c /\ k[c] = 0 /\ x.inARow \in {1, 2}
              /\ x.inARow = 2 => c \notin KeyEndpoints \cup PoolsIn(x.owed)
        /\ x.phase = "rotating" => x.endpoint = c /\ c \notin KeyEndpoints \cup PoolsIn(x.owed)
        /\ (x.phase \in Searching /\ x.endpoint = c /\ k[c] = 0) =>
              /\ c \notin KeyEndpoints /\ x.inARow \in {0, 1}
              /\ c \in PoolsIn(x.owed) => x.inARow = 0
        /\ x.budget - x.tries >= Reserve(x.owed, x.tried, c) + Due(x, c, k) + Extra(x)

Accounts(r) ==
    /\ OwedStands(r) /\ UsableOwed(r) /\ TriedRests(r) /\ Holding(r)
    /\ Pinned(request[r]) /\ Walking(request[r], current, cooldown)

WalkOK(r) ==
    /\ Quiet(r) /\ Unbegun(r)
    /\ Underway(r) => Accounts(r)
    /\ request[r].outcome \in TurnedAway => request[r].owed \subseteq request[r].tried

WalkInv == \A r \in Requests : WalkOK(r)

\* What can be owed or tried.
Pairs == Endpoints \X (Tokens \cup {NoToken})

(* What there is to count is finite. *)
LEMMA CountFinite ==
  ASSUME NEW o \in SUBSET Pairs
  PROVE  /\ IsFiniteSet(TokenPairs(o)) /\ Cardinality(TokenPairs(o)) \in Nat
         /\ \A c : IsFiniteSet(Ahead(o, c)) /\ Cardinality(Ahead(o, c)) \in Nat
  <1>1. IsFiniteSet(Endpoints)
    BY FS_Interval, LoopAssumption DEF Endpoints
  <1>2. IsFiniteSet(Endpoints \X Tokens)
    BY <1>1, FS_Product, LoopAssumption
  <1>3. TokenPairs(o) \subseteq Endpoints \X Tokens
    BY DEF TokenPairs, Pairs
  <1>4. \A c : Ahead(o, c) \subseteq Endpoints
    BY DEF Ahead, PoolsIn
  <1> QED
    BY <1>1, <1>2, <1>3, <1>4, FS_Subset, FS_CardinalityType

(* The reserve is at least one attempt for each endpoint and each token, and *)
(* moving on to the next endpoint releases what that one may need.           *)
LEMMA ReserveFacts ==
  ASSUME NEW o \in SUBSET Pairs, NEW d, NEW c \in Endpoints
  PROVE  /\ Reserve(o, d, c) \in Int
         /\ Cardinality(TokenPairs(o \ d)) \in Nat
         /\ Reserve(o, d, c) >= Cardinality(TokenPairs(o \ d)) + (N - c)
         /\ c < N => Reserve(o, d, c) = Reserve(o, d, c + 1) + Allowance(o, c + 1)
  <1>1. c \in Nat /\ N \in Nat /\ c >= 1 /\ c <= N
    BY LoopAssumption DEF Endpoints
  <1>2. Cardinality(TokenPairs(o \ d)) \in Nat
    BY CountFinite
  <1>3. \A b : Cardinality(Ahead(o, b)) \in Nat /\ IsFiniteSet(Ahead(o, b))
    BY CountFinite
  <1>4. Cardinality(Ahead(o, c)) <= N - c
    <2>1. Ahead(o, c) \subseteq (c + 1)..N
      BY <1>1 DEF Ahead, PoolsIn, Endpoints
    <2>2. IsFiniteSet((c + 1)..N) /\ Cardinality((c + 1)..N) = N - c
      BY <1>1, FS_Interval
    <2> QED
      BY <2>1, <2>2, FS_Subset
  <1>5. ASSUME c < N
        PROVE  Cardinality(Ahead(o, c)) =
                   Cardinality(Ahead(o, c + 1)) + (IF c + 1 \in PoolsIn(o) THEN 1 ELSE 0)
    <2>1. CASE c + 1 \in PoolsIn(o)
      <3>1. Ahead(o, c) = Ahead(o, c + 1) \cup {c + 1} /\ c + 1 \notin Ahead(o, c + 1)
        BY <1>1, <2>1 DEF Ahead, PoolsIn, Endpoints
      <3> QED
        BY <1>3, <2>1, <3>1, FS_AddElement
    <2>2. CASE c + 1 \notin PoolsIn(o)
      <3>1. Ahead(o, c) = Ahead(o, c + 1)
        BY <1>1, <2>2 DEF Ahead, PoolsIn, Endpoints
      <3> QED
        BY <1>3, <2>2, <3>1
    <2> QED
      BY <2>1, <2>2
  <1>6. Cardinality(Ahead(o, c + 1)) \in Nat
    BY <1>3
  <1> QED
    BY <1>1, <1>2, <1>3, <1>4, <1>5, <1>6 DEF Reserve, Allowance

(* A call with a key takes nothing off the reserve, ... *)
LEMMA KeySpent ==
  ASSUME NEW o \in SUBSET Pairs, NEW d, NEW c \in Endpoints,
         NEW p \in Pairs, p[2] \notin Tokens
  PROVE  /\ TokenPairs(o \ (d \cup {p})) = TokenPairs(o \ d)
         /\ Reserve(o, d \cup {p}, c) = Reserve(o, d, c)
  <1>1. TokenPairs(o \ (d \cup {p})) = TokenPairs(o \ d)
    BY DEF TokenPairs
  <1> QED
    BY <1>1 DEF Reserve

(* ... one with a token that token. *)
LEMMA TokenSpent ==
  ASSUME NEW o \in SUBSET Pairs, NEW d, NEW c \in Endpoints,
         NEW p \in o \ d, p[2] \in Tokens
  PROVE  /\ Cardinality(TokenPairs(o \ d)) = Cardinality(TokenPairs(o \ (d \cup {p}))) + 1
         /\ Reserve(o, d, c) = Reserve(o, d \cup {p}, c) + 1
  <1>1. Cardinality(TokenPairs(o \ d)) = Cardinality(TokenPairs(o \ (d \cup {p}))) + 1
    <2>1. /\ TokenPairs(o \ d) = TokenPairs(o \ (d \cup {p})) \cup {p}
          /\ p \notin TokenPairs(o \ (d \cup {p}))
      BY DEF TokenPairs
    <2>2. IsFiniteSet(TokenPairs(o \ (d \cup {p})))
      BY CountFinite
    <2> QED
      BY <2>1, <2>2, FS_AddElement
  <1>2. /\ Cardinality(TokenPairs(o \ (d \cup {p}))) \in Nat
        /\ Cardinality(Ahead(o, c)) \in Nat
        /\ N \in Int /\ c \in Int
    <2>1. Cardinality(TokenPairs(o \ (d \cup {p}))) \in Nat
      BY ReserveFacts
    <2>2. Cardinality(Ahead(o, c)) \in Nat
      BY CountFinite
    <2>3. N \in Int /\ c \in Int
      BY LoopAssumption DEF Endpoints
    <2> QED
      BY <2>1, <2>2, <2>3
  <1> QED
    BY <1>1, <1>2 DEF Reserve

(* The endpoints in the order of the walk: none is nearer than current, and  *)
(* the one after it is next.                                                 *)
LEMMA WalkOrder ==
  ASSUME current \in Endpoints, NEW e \in Endpoints
  PROVE  /\ Distance(e) \in Nat
         /\ Distance(e) = 0 <=> e = current
         /\ Distance(e) = 1 /\ current < N => e = current + 1
         /\ e = current + 1 => Distance(e) = 1
  <1>1. /\ N \in Nat /\ N >= 1
        /\ current \in 1..N /\ e \in 1..N
    BY LoopAssumption DEF Endpoints
  <1>2. CASE e >= current
    <2>1. e - current \in 0..(N - 1)
      BY <1>1, <1>2
    <2>2. (e - current + N) % N = e - current
      BY <1>1, <2>1
    <2> QED
      BY <1>1, <1>2, <2>1, <2>2 DEF Distance
  <1>3. CASE e < current
    <2>1. e - current + N \in 1..(N - 1)
      BY <1>1, <1>3
    <2>2. (e - current + N) % N = e - current + N
      BY <1>1, <2>1
    <2> QED
      BY <1>1, <1>3, <2>1, <2>2 DEF Distance
  <1> QED
    BY <1>1, <1>2, <1>3
-----------------------------------------------------------------------------
(* The walk's tokens: what a usage limit takes out of a pool.                *)

(* A cooling row is not usable, and a usage limit leaves such a row behind. *)
LEMMA CoolingNotUsable ==
  ASSUME NEW row \in Rows
  PROVE  /\ row.cooldown > 0 => ~ IsUsable(row)
         /\ IsUsable(row) => row.enabled
         /\ \A d : AfterUsageLimit(row, d).enabled = row.enabled
                   /\ AfterUsageLimit(row, d).cooldown = d
  <1>1. /\ row.cooldown > 0 => ~ IsUsable(row)
        /\ IsUsable(row) => row.enabled
    BY DEF IsUsable, UsableStatuses, DeriveStatus
  <1>2. ASSUME NEW d PROVE AfterUsageLimit(row, d).enabled = row.enabled
                           /\ AfterUsageLimit(row, d).cooldown = d
    BY DEF AfterUsageLimit, Blamed, Rows
  <1> QED
    BY <1>1, <1>2

(* Usable tokens are stored tokens of the pool that do not cool. *)
LEMMA UsableFacts ==
  ASSUME StoreTypeOK, NEW P \in SUBSET Tokens, NEW t \in Usable(P)
  PROVE  t \in P /\ t \in Tokens /\ Stored(t) /\ IsUsable(rows[t]) /\ t \notin Cooling(P)
  BY CoolingNotUsable DEF Usable, Cooling, StoreTypeOK

(* A usage limit takes its token out of every pool's usable tokens, leaves   *)
(* it cooling and touches no other.                                          *)
LEMMA UsageLimitRests ==
  ASSUME StoreTypeOK, NEW t \in Tokens, Stored(t), IsUsable(rows[t]),
         NEW d \in 1..Horizon, MarkUsageLimit(t, d, {})
  PROVE  \A P \in SUBSET Tokens :
            /\ Usable(P)' = Usable(P) \ {t}
            /\ Cooling(P) \subseteq Cooling(P)'
            /\ t \in P => t \in Cooling(P)'
  <1>1. rows \in [Tokens -> Rows] /\ life' = life /\ d > 0 /\ d \in Times
    BY RowAssumption DEF StoreTypeOK, MarkUsageLimit, Times
  <1>2. rows' = [rows EXCEPT ![t] = AfterUsageLimit(rows[t], d)]
    BY DEF MarkUsageLimit, Write
  <1>3. /\ rows'[t].enabled /\ rows'[t].cooldown > 0
        /\ rows'[t] \in Rows
        /\ \A u \in Tokens \ {t} : rows'[u] = rows[u]
    <2>1. rows'[t] = AfterUsageLimit(rows[t], d) /\ rows[t] \in Rows
      BY <1>1, <1>2
    <2>2. rows'[t] \in Rows
      BY <1>1, <2>1, MarkType
    <2>3. rows'[t].enabled = rows[t].enabled /\ rows'[t].cooldown = d /\ rows[t].enabled
      BY <2>1, CoolingNotUsable
    <2> QED
      BY <1>1, <1>2, <2>2, <2>3
  <1>4. ~ IsUsable(rows'[t])
    BY <1>3, CoolingNotUsable
  <1> SUFFICES ASSUME NEW P \in SUBSET Tokens
               PROVE  /\ Usable(P)' = Usable(P) \ {t}
                      /\ Cooling(P) \subseteq Cooling(P)'
                      /\ t \in P => t \in Cooling(P)'
    OBVIOUS
  <1>5. Usable(P)' = {u \in P : Stored(u) /\ IsUsable(rows'[u])}
    BY <1>1 DEF Usable, Stored
  <1>6. Cooling(P)' = {u \in P : Stored(u) /\ rows'[u].enabled /\ rows'[u].cooldown > 0}
    BY <1>1 DEF Cooling, Stored
  <1>7. Usable(P)' = Usable(P) \ {t}
    BY <1>3, <1>4, <1>5 DEF Usable
  <1>8. Cooling(P) \subseteq Cooling(P)' /\ (t \in P => t \in Cooling(P)')
    BY <1>3, <1>6 DEF Cooling
  <1> QED
    BY <1>7, <1>8

(* Calls that write no row leave the pools alone. *)
LEMMA PoolsStay ==
  ASSUME UNCHANGED <<rows, life>>
  PROVE  \A P : Usable(P)' = Usable(P) /\ Cooling(P)' = Cooling(P)
  BY DEF Usable, Cooling, Stored
-----------------------------------------------------------------------------
(* The steps of a walk.                                                      *)

\* What every step of a walk may rely on.
WalkStep(r) == IInv /\ QuietWalk /\ WalkOK(r)

(* The types of what a walk counts with. *)
LEMMA WalkTypes ==
  ASSUME IInv, NEW r \in Requests
  PROVE  /\ request[r] \in RequestStates /\ request \in [Requests -> RequestStates]
         /\ request[r].owed \in SUBSET Pairs /\ request[r].tried \in SUBSET Pairs
         /\ request[r].token \in Tokens \cup {NoToken}
         /\ request[r].endpoint \in Endpoints \cup {NoEndpoint}
         /\ request[r].pin \in Endpoints \cup {NoEndpoint}
         /\ request[r].budget \in Int /\ request[r].tries \in Nat /\ request[r].inARow \in Nat
         /\ current \in Endpoints /\ cooldown \in [Endpoints -> Times]
         /\ \A e \in Endpoints : cooldown[e] \in Nat
         /\ StoreTypeOK
         /\ N \in Nat /\ Endpoints \subseteq Nat \ {0} /\ NoEndpoint = 0
         /\ \A e \in Endpoints : Pool[e] \subseteq Tokens
         /\ NoToken \notin Tokens
  <1>1. IInv => TypeOK /\ StoreInv
    BY DEF IInv
  <1>2. \A e \in Endpoints : cooldown[e] \in Nat
    BY <1>1, RowAssumption DEF TypeOK, Times
  <1>3. request[r] \in RequestStates
    BY <1>1 DEF TypeOK
  <1>4. N \in Nat /\ Endpoints \subseteq Nat \ {0} /\ NoEndpoint = 0
    BY LoopAssumption DEF Endpoints, NoEndpoint
  <1>5. /\ request[r].owed \in SUBSET Pairs /\ request[r].tried \in SUBSET Pairs
        /\ request[r].token \in Tokens \cup {NoToken}
        /\ request[r].endpoint \in Endpoints \cup {NoEndpoint}
        /\ request[r].pin \in Endpoints \cup {NoEndpoint}
        /\ request[r].budget \in Int /\ request[r].tries \in Nat /\ request[r].inARow \in Nat
    BY <1>3 DEF RequestStates, Pairs
  <1>6. (\A e \in Endpoints : Pool[e] \subseteq Tokens) /\ NoToken \notin Tokens
    BY LoopAssumption
  <1> QED
    BY <1>1, <1>2, <1>3, <1>4, <1>5, <1>6 DEF TypeOK

(* A step within the walk keeps the invariant if it keeps the accounts. *)
LEMMA WalkGoesOn ==
  ASSUME NEW r \in Requests, WalkStep(r), Underway(r), Underway(r)', UNCHANGED clearing,
         request'[r].here = request[r].here, request'[r].outcome = request[r].outcome,
         request'[r].cut \in {request[r].cut, FALSE}, Accounts(r)'
  PROVE  WalkOK(r)'
  BY DEF WalkStep, WalkOK, Quiet, Unbegun, Underway, TurnedAway

(* A walk may end when it has tried everything, or with an answer. *)
LEMMA WalkEnds ==
  ASSUME NEW r \in Requests, WalkStep(r), UNCHANGED clearing, NEW o \in Outcomes, End(r, o),
         o \in TurnedAway => request[r].owed \subseteq request[r].tried
  PROVE  WalkOK(r)'
  <1>1. request'[r] = [request[r] EXCEPT !.phase = "done", !.outcome = o,
                                         !.token = NoToken, !.cut = FALSE]
    BY WalkTypes DEF WalkStep, End
  <1>2. /\ request'[r].phase = "done" /\ request'[r].outcome = o /\ request'[r].cut = FALSE
        /\ request'[r].here = request[r].here /\ request'[r].owed = request[r].owed
        /\ request'[r].tried = request[r].tried
    BY <1>1, WalkTypes DEF WalkStep, RequestStates
  <1> QED
    BY <1>2 DEF WalkStep, WalkOK, Quiet, Unbegun, Underway

(* While something is left to try, the budget is not spent ... *)
LEMMA BudgetLasts ==
  ASSUME NEW r \in Requests, WalkStep(r), InLoop(r), Untried(r) # {}
  PROVE  ~ Spent(r)
  <1> DEFINE x == request[r]
  <1>1. /\ x.phase = "loop" /\ Pinned(x) /\ Walking(x, current, cooldown) /\ OwedStands(r)
        /\ x.owed \ x.tried # {}
    BY DEF WalkStep, InLoop, WalkOK, Underway, Accounts, Untried
  <1>2. /\ x.owed \in SUBSET Pairs /\ x.budget \in Int /\ x.tries \in Nat /\ current \in Endpoints
        /\ x.inARow \in Nat /\ N \in Nat /\ Endpoints \subseteq Nat
        /\ \A e \in Endpoints : cooldown[e] \in Nat
    BY WalkTypes DEF WalkStep
  <1>3. /\ Reserve(x.owed, x.tried, current) \in Int
        /\ Cardinality(TokenPairs(x.owed \ x.tried)) \in Nat
        /\ Reserve(x.owed, x.tried, current) >=
               Cardinality(TokenPairs(x.owed \ x.tried)) + (N - current)
    BY <1>2, ReserveFacts
  <1>4. Extra(x) = 0
    BY <1>1 DEF Extra
  <1>5. CASE x.pin # NoEndpoint
    BY <1>1, <1>2, <1>3, <1>4, <1>5 DEF Pinned, Spent
  <1>6. CASE x.pin = NoEndpoint
    <2>1. PICK p \in x.owed \ x.tried : TRUE
      BY <1>1
    <2>2. /\ p[1] \in Endpoints /\ p[1] >= current /\ cooldown[p[1]] = 0
          /\ x.budget - x.tries >= Reserve(x.owed, x.tried, current) + Due(x, current, cooldown)
      BY <1>1, <1>2, <1>3, <1>4, <1>6, <2>1
         DEF Walking, OwedStands, Untried, Pairs, Due, Allowance, Searching
    <2>3. current <= N /\ p[1] <= N /\ p[1] \in Nat /\ current \in Nat
      BY <1>2, <2>2 DEF Endpoints
    <2>4. CASE cooldown[current] > 0
      <3>1. Due(x, current, cooldown) = 0 /\ p[1] # current
        BY <1>1, <2>2, <2>4 DEF Due, Searching
      <3> QED
        BY <1>2, <1>3, <2>2, <2>3, <3>1 DEF Spent
    <2>5. CASE cooldown[current] = 0
      <3>1. Due(x, current, cooldown) >= 1 /\ Due(x, current, cooldown) \in Int
        BY <1>1, <1>2, <1>6, <2>5 DEF Due, Walking, Allowance, Searching
      <3> QED
        BY <1>2, <1>3, <2>2, <2>3, <3>1 DEF Spent
    <2> QED
      BY <1>2, <2>4, <2>5
  <1> QED
    BY <1>5, <1>6

(* ... and there is an endpoint to turn to: the pinned one, the current one, *)
(* or the one after it.                                                      *)
LEMMA NextEndpoint ==
  ASSUME NEW r \in Requests, WalkStep(r), request[r].phase = "picking", Untried(r) # {}
  PROVE  /\ Candidates(r) # {}
         /\ request[r].pin # NoEndpoint => Candidates(r) = {request[r].pin}
         /\ request[r].pin = NoEndpoint =>
               IF cooldown[current] = 0 THEN Candidates(r) = {current}
               ELSE current + 1 \in Endpoints /\ Candidates(r) = {current + 1}
  <1> DEFINE x == request[r]
  <1>1. PICK p \in x.owed \ x.tried : TRUE
    BY DEF Untried
  <1>2. /\ p[1] \in Endpoints /\ current \in Endpoints /\ cooldown[p[1]] = 0
        /\ x.pin \in {NoEndpoint, p[1]}
        /\ Endpoints \subseteq Nat /\ \A e \in Endpoints : cooldown[e] \in Nat
    <2>1. /\ x.owed \in SUBSET Pairs /\ current \in Endpoints
          /\ Endpoints \subseteq Nat /\ \A e \in Endpoints : cooldown[e] \in Nat
      BY WalkTypes DEF WalkStep
    <2>2. OwedStands(r)
      BY DEF WalkStep, WalkOK, Underway, Accounts
    <2> QED
      BY <1>1, <2>1, <2>2 DEF OwedStands, Untried, Pairs
  <1>3. p[1] \in Open /\ Open \subseteq Endpoints
    BY <1>2 DEF Open
  <1>4. CASE x.pin # NoEndpoint
    BY <1>2, <1>3, <1>4 DEF Candidates
  <1>5. CASE x.pin = NoEndpoint
    <2>1. p[1] >= current /\ \A e \in Endpoints : e > current => cooldown[e] = 0
      BY <1>1, <1>5 DEF WalkStep, WalkOK, Underway, Accounts, Walking, Searching
    <2>2. Candidates(r) = {e \in Open : \A f \in Open : Distance(e) <= Distance(f)}
      BY <1>5 DEF Candidates
    <2>3. CASE cooldown[current] = 0
      <3>1. current \in Open /\ Distance(current) = 0
        BY <1>2, <2>3, WalkOrder DEF Open
      <3>2. \A e \in Open : Distance(e) \in Nat /\ (Distance(e) = 0 <=> e = current)
        BY <1>2, <1>3, WalkOrder
      <3>3. Candidates(r) = {current}
        BY <2>2, <3>1, <3>2
      <3> QED
        BY <1>5, <2>3, <3>3
    <2>4. CASE cooldown[current] # 0
      <3>1. /\ current < N /\ current + 1 \in Endpoints /\ current + 1 \in Open
            /\ current \notin Open
        <4>1. /\ p[1] # current /\ p[1] \in Nat /\ current \in Nat /\ p[1] <= N
              /\ current >= 1 /\ N \in Nat
          BY <1>2, <2>4, LoopAssumption DEF Endpoints
        <4>2. current < N /\ current + 1 \in Endpoints
          BY <2>1, <4>1 DEF Endpoints
        <4>3. cooldown[current + 1] = 0
          BY <2>1, <4>1, <4>2
        <4> QED
          BY <2>4, <4>2, <4>3 DEF Open
      <3>2. Distance(current + 1) = 1
        BY <1>2, <3>1, WalkOrder
      <3>3. \A e \in Open : /\ Distance(e) \in Nat
                            /\ Distance(e) # 0
                            /\ Distance(e) = 1 => e = current + 1
        BY <1>2, <1>3, <3>1, WalkOrder
      <3>4. Candidates(r) = {current + 1}
        BY <2>2, <3>1, <3>2, <3>3
      <3> QED
        BY <1>5, <2>4, <3>1, <3>4
    <2> QED
      BY <2>3, <2>4
  <1> QED
    BY <1>4, <1>5

(* The loop turns the request away only when nothing is left to try. *)
LEMMA WalkTurnsAway ==
  ASSUME NEW r \in Requests, WalkStep(r), Exhaust(r) \/ NoEndpointLeft(r) \/ Abandon(r)
  PROVE  WalkOK(r)'
  <1>1. Untried(r) = {} => request[r].owed \subseteq request[r].tried
    BY DEF Untried
  <1>2. ASSUME Exhaust(r) \/ NoEndpointLeft(r) PROVE Untried(r) = {}
    BY <1>2, BudgetLasts, NextEndpoint DEF Exhaust, NoEndpointLeft
  <1>3. ASSUME Exhaust(r) \/ NoEndpointLeft(r) PROVE WalkOK(r)'
    <2>1. PICK o \in Outcomes : End(r, o)
      BY <1>3 DEF Exhaust, NoEndpointLeft, TurnAway, Outcomes
    <2>2. UNCHANGED clearing
      BY <1>3 DEF Exhaust, NoEndpointLeft, TurnAway, proxyVars
    <2> QED
      BY <1>1, <1>2, <1>3, <2>1, <2>2, WalkEnds
  <1>4. ~ Abandon(r)
    BY DEF WalkStep, WalkOK, Quiet, Abandon
  <1> QED
    BY <1>3, <1>4

(* The endpoint that is chosen is where the walk has got to. *)
LEMMA WalkChooses ==
  ASSUME NEW r \in Requests, WalkStep(r), ChooseEndpoint(r)
  PROVE  WalkOK(r)'
  <1>1. PICK x \in RequestStates : x = request[r]
    BY WalkTypes DEF WalkStep
  <1>2. PICK e \in Candidates(r), n \in Nat :
          /\ current' = IF x.pin = NoEndpoint THEN e ELSE current
          /\ n = IF x.endpoint \in {e, NoEndpoint} THEN x.inARow + 1 ELSE 1
          /\ request'[r] = [x EXCEPT !.phase = "entering", !.endpoint = e, !.inARow = n]
    <2>1. PICK e \in Candidates(r) :
          /\ current' = IF x.pin = NoEndpoint THEN e ELSE current
          /\ request' = [request EXCEPT
               ![r].phase = "entering", ![r].endpoint = e,
               ![r].inARow = IF request[r].endpoint \in {e, NoEndpoint} THEN @ + 1 ELSE 1]
      BY <1>1 DEF ChooseEndpoint
    <2> DEFINE n == IF x.endpoint \in {e, NoEndpoint} THEN x.inARow + 1 ELSE 1
    <2>2. n \in Nat
      BY <1>1 DEF RequestStates
    <2>3. request'[r] = [x EXCEPT !.phase = "entering", !.endpoint = e, !.inARow = n]
      BY <1>1, <2>1, WalkTypes DEF WalkStep
    <2> QED
      BY <2>1, <2>2, <2>3
  <1>3. PICK y \in RequestStates : y = request'[r]
    <2>1. e \in Endpoints
      <3>1. e \in Open
        BY DEF Candidates
      <3> QED
        BY <3>1 DEF Open
    <2>2. "entering" \in Phases
      BY DEF Phases
    <2> QED
      BY <1>2, <2>1, <2>2 DEF RequestStates
  <1>4. /\ y.phase = "entering" /\ y.endpoint = e /\ y.inARow = n
        /\ y.here = x.here /\ y.cut = x.cut /\ y.outcome = x.outcome
        /\ y.pin = x.pin /\ y.token = x.token /\ y.budget = x.budget /\ y.tries = x.tries
        /\ y.owed = x.owed /\ y.tried = x.tried
    BY <1>2, <1>3 DEF RequestStates
  <1>5. /\ x.phase = "picking" /\ Accounts(r)
        /\ UNCHANGED <<rows, life, cooldown, clearing>>
    BY <1>1 DEF ChooseEndpoint, WalkStep, WalkOK, Underway, storeVars
  <1>6. OwedStands(r)' /\ UsableOwed(r)' /\ TriedRests(r)' /\ Holding(r)'
    <2>1. \A P : Usable(P)' = Usable(P) /\ Cooling(P)' = Cooling(P)
      BY <1>5, PoolsStay
    <2>2. Untried(r)' = Untried(r) /\ Concluded(r)' = Concluded(r)
      BY <1>1, <1>3, <1>4, <1>5 DEF Untried, Concluded, Calling
    <2>3. OwedStands(r)' /\ UsableOwed(r)'
      BY <1>1, <1>3, <1>4, <1>5, <2>1, <2>2 DEF Accounts, OwedStands, UsableOwed
    <2>4. TriedRests(r)' /\ Holding(r)'
      BY <1>1, <1>3, <1>4, <1>5, <2>1, <2>2 DEF Accounts, TriedRests, Holding, Calling
    <2> QED
      BY <2>3, <2>4
  <1>7. Pinned(x) /\ Walking(x, current, cooldown)
    BY <1>1, <1>5 DEF Accounts
  <1>8. Untried(r) = x.owed \ x.tried
    BY <1>1 DEF Untried
  <1>9. Pinned(y)
    <2>1. ASSUME x.pin # NoEndpoint, x.owed \ x.tried # {} PROVE e = x.pin
      BY <1>1, <1>2, <1>5, <1>8, <2>1, NextEndpoint
    <2>2. x.pin # NoEndpoint => e = x.pin
      BY <1>1, <1>2 DEF Candidates
    <2> QED
      BY <1>4, <1>5, <1>7, <2>2 DEF Pinned, Extra
  <1>10. Walking(y, current', cooldown')
    <2> SUFFICES ASSUME x.pin = NoEndpoint, x.owed \ x.tried # {}
                 PROVE  Walking(y, current', cooldown)
      BY <1>4, <1>5 DEF Walking, Searching
    <2>1. PICK c \in Endpoints : c = current
      BY WalkTypes DEF WalkStep
    <2>2. current' = e
      BY <1>2
    <2>3. /\ x.owed \in SUBSET Pairs /\ x.budget \in Int /\ x.tries \in Nat /\ x.inARow \in Nat
          /\ x.endpoint \in Endpoints \cup {NoEndpoint} /\ NoEndpoint = 0
          /\ Endpoints \subseteq Nat \ {0} /\ N \in Nat /\ c \in Nat /\ c <= N
          /\ \A f \in Endpoints : cooldown[f] \in Nat
      BY <1>1, <2>1, WalkTypes DEF WalkStep, Endpoints
    <2>4. Extra(x) = 0 /\ Extra(y) = 0
      BY <1>4, <1>5 DEF Extra
    <2>5. /\ \A p \in x.owed \ x.tried : p[1] >= c /\ cooldown[p[1]] = 0 /\ p[1] \in Nat
          /\ \A f \in Endpoints : f > c => cooldown[f] = 0
          /\ x.endpoint <= c
          /\ x.endpoint = NoEndpoint => x.inARow = 0
          /\ (x.endpoint = c /\ cooldown[c] = 0) =>
                /\ c \notin KeyEndpoints /\ x.inARow \in {0, 1}
                /\ c \in PoolsIn(x.owed) => x.inARow = 0
          /\ x.budget - x.tries >= Reserve(x.owed, x.tried, c) + Due(x, c, cooldown)
      <3>1. \A p \in x.owed \ x.tried : cooldown[p[1]] = 0 /\ p[1] \in Nat
        BY <1>1, <1>5, <1>8, <2>3 DEF Accounts, OwedStands, Pairs
      <3>2. Due(x, c, cooldown) \in Int /\ Reserve(x.owed, x.tried, c) \in Int
        <4>1. PICK a \in {1, 2} : a = Allowance(x.owed, c)
          BY DEF Allowance
        <4>2. Due(x, c, cooldown) \in {0, a, a - x.inARow}
          BY <1>5, <4>1 DEF Due, Searching
        <4>3. Reserve(x.owed, x.tried, c) \in Int
          BY <2>3, ReserveFacts
        <4> QED
          BY <2>3, <4>2, <4>3
      <3>3. x.budget - x.tries >= Reserve(x.owed, x.tried, c) + Due(x, c, cooldown) + 0
        BY <1>5, <1>7, <2>1, <2>4 DEF Walking, Searching
      <3>4. x.budget - x.tries >= Reserve(x.owed, x.tried, c) + Due(x, c, cooldown)
        BY <3>2, <3>3
      <3> QED
        BY <1>5, <1>7, <2>1, <3>1, <3>4 DEF Walking, Searching
    <2>6. CASE cooldown[c] = 0
      <3>1. e = c
        BY <1>1, <1>2, <1>5, <1>8, <2>1, <2>6, NextEndpoint
      <3>2. /\ n \in {1, 2}
            /\ n = 2 => c \notin KeyEndpoints \cup PoolsIn(x.owed)
        BY <1>2, <2>3, <2>5, <2>6, <3>1
      <3>3. Due(y, c, cooldown) = Due(x, c, cooldown)
        <4>1. PICK a \in {1, 2} : a = Allowance(x.owed, c)
          BY DEF Allowance
        <4>2. Due(x, c, cooldown) = a - (IF x.endpoint = c THEN x.inARow ELSE 0)
          BY <1>5, <2>6, <4>1 DEF Due, Searching
        <4>3. Due(y, c, cooldown) = a + 1 - n
          BY <1>4, <4>1 DEF Due, Searching
        <4>4. n = IF x.endpoint = c THEN x.inARow + 1 ELSE 1
          BY <1>2, <2>3, <2>5, <3>1
        <4> QED
          BY <2>3, <4>2, <4>3, <4>4
      <3>4. x.budget - x.tries >= Reserve(x.owed, x.tried, c) + Due(y, c, cooldown) + 0
        <4>1. Due(y, c, cooldown) \in Int
          <5>1. Due(y, c, cooldown) = Allowance(x.owed, c) + 1 - n
            BY <1>4 DEF Due, Searching
          <5> QED
            BY <5>1 DEF Allowance
        <4>2. Reserve(x.owed, x.tried, c) \in Int
          BY <2>3, ReserveFacts
        <4> QED
          BY <2>3, <2>5, <3>3, <4>1, <4>2
      <3> QED
        BY <1>4, <2>1, <2>2, <2>3, <2>4, <2>5, <2>6, <3>1, <3>2, <3>4
           DEF Walking, ChosenPhases, AttemptPhases, Searching
    <2>7. CASE cooldown[c] # 0
      <3>1. e = c + 1 /\ c + 1 \in Endpoints /\ c + 1 <= N /\ c < N
        BY <1>1, <1>2, <1>5, <1>8, <2>1, <2>3, <2>7, NextEndpoint DEF Endpoints
      <3>2. n = 1 /\ cooldown[c + 1] = 0
        BY <1>2, <2>3, <2>5, <3>1
      <3>3. \A p \in x.owed \ x.tried : p[1] >= c + 1
        BY <2>3, <2>5, <2>7
      <3>4. /\ Due(x, c, cooldown) = 0 /\ Due(y, c + 1, cooldown) = Allowance(x.owed, c + 1)
        BY <1>4, <1>5, <2>3, <2>7, <3>2 DEF Due, Allowance, Searching
      <3>5. /\ Reserve(x.owed, x.tried, c) \in Int
            /\ Reserve(x.owed, x.tried, c + 1) \in Int
            /\ Reserve(x.owed, x.tried, c) =
                  Reserve(x.owed, x.tried, c + 1) + Allowance(x.owed, c + 1)
        BY <2>3, <3>1, ReserveFacts
      <3>6. x.budget - x.tries >= Reserve(x.owed, x.tried, c + 1) + Due(y, c + 1, cooldown) + 0
        BY <2>3, <2>5, <3>4, <3>5
      <3>7. \A f \in Endpoints : f > c + 1 => cooldown[f] = 0
        BY <2>3, <2>5
      <3> QED
        BY <1>4, <2>2, <2>3, <2>4, <3>1, <3>2, <3>3, <3>6, <3>7
           DEF Walking, ChosenPhases, AttemptPhases, Searching
    <2> QED
      BY <2>6, <2>7
  <1>11. Accounts(r)'
    BY <1>3, <1>6, <1>9, <1>10 DEF Accounts
  <1>12. Underway(r) /\ Underway(r)'
    BY <1>1, <1>3, <1>4, <1>5 DEF Underway
  <1> QED
    BY <1>1, <1>3, <1>4, <1>5, <1>11, <1>12, WalkGoesOn

(* Finding the client there, and beginning the attempt, change nothing of the walk. *)
LEMMA WalkPasses ==
  ASSUME NEW r \in Requests, WalkStep(r), CheckClient(r) \/ StartAttempt(r)
  PROVE  WalkOK(r)'
  <1>1. PICK x \in RequestStates : x = request[r]
    BY WalkTypes DEF WalkStep
  <1>2. PICK p, v :
          /\ \/ x.phase = "loop" /\ p = "picking"
             \/ x.phase = "entering" /\ p = "auth"
          /\ request'[r] = [x EXCEPT !.phase = p, !.vain = v]
    <2>1. CASE CheckClient(r)
      <3>1. request'[r] = [x EXCEPT !.phase = "picking"]
        BY <1>1, <2>1, WalkTypes DEF WalkStep, CheckClient
      <3>2. request'[r] = [x EXCEPT !.phase = "picking", !.vain = x.vain]
        BY <3>1 DEF RequestStates
      <3> QED
        BY <1>1, <2>1, <3>2 DEF CheckClient, InLoop
    <2>2. CASE StartAttempt(r)
      <3>1. request'[r] = [x EXCEPT !.phase = "auth", !.vain = x.vain \cup Vain(r)]
        BY <1>1, <2>2, WalkTypes DEF WalkStep, StartAttempt
      <3> QED
        BY <1>1, <2>2, <3>1 DEF StartAttempt
    <2> QED
      BY <2>1, <2>2
  <1>3. PICK y :
          /\ y = request'[r]
          /\ y.phase = p /\ y.endpoint = x.endpoint /\ y.inARow = x.inARow
          /\ y.here = x.here /\ y.cut = x.cut /\ y.outcome = x.outcome
          /\ y.pin = x.pin /\ y.token = x.token /\ y.budget = x.budget /\ y.tries = x.tries
          /\ y.owed = x.owed /\ y.tried = x.tried
    BY <1>2 DEF RequestStates
  <1>4. /\ Accounts(r) /\ Underway(r) /\ Underway(r)'
        /\ UNCHANGED <<rows, life, cooldown, clearing, current>>
    BY <1>1, <1>2, <1>3
       DEF CheckClient, StartAttempt, WalkStep, WalkOK, Underway, storeVars, proxyVars
  <1>5. \A P : Usable(P)' = Usable(P) /\ Cooling(P)' = Cooling(P)
    BY <1>4, PoolsStay
  <1>6. Untried(r)' = Untried(r) /\ Concluded(r)' = Concluded(r)
    BY <1>1, <1>2, <1>3 DEF Untried, Concluded, Calling
  <1>7. OwedStands(r)' /\ UsableOwed(r)'
    BY <1>1, <1>3, <1>4, <1>5, <1>6 DEF Accounts, OwedStands, UsableOwed
  <1>8. TriedRests(r)' /\ Holding(r)'
    BY <1>1, <1>2, <1>3, <1>4, <1>5, <1>6 DEF Accounts, TriedRests, Holding, Calling
  <1>9. Pinned(x) /\ Walking(x, current, cooldown)
    BY <1>1, <1>4 DEF Accounts
  <1>10. Extra(y) = Extra(x) /\ Due(y, current, cooldown) = Due(x, current, cooldown)
    BY <1>2, <1>3 DEF Extra, Due, Searching
  <1>11. Pinned(y)
    BY <1>2, <1>3, <1>9, <1>10 DEF Pinned, ChosenPhases, AttemptPhases
  <1>12. Walking(y, current, cooldown)
    BY <1>2, <1>3, <1>9, <1>10 DEF Walking, ChosenPhases, AttemptPhases, Searching
  <1>13. Accounts(r)'
    BY <1>3, <1>4, <1>7, <1>8, <1>11, <1>12 DEF Accounts
  <1> QED
    BY <1>1, <1>3, <1>4, <1>13, WalkGoesOn

(* A rotation moves on by one, and what is left to try lies there. *)
LEMMA WalkRotates ==
  ASSUME NEW r \in Requests, WalkStep(r), Rotate(r)
  PROVE  WalkOK(r)'
  <1>1. PICK x \in RequestStates : x = request[r]
    BY WalkTypes DEF WalkStep
  <1>2. PICK y \in RequestStates :
          /\ y = request'[r]
          /\ y = [x EXCEPT !.phase = "loop", !.inARow = 0]
    <2>1. request'[r] = [x EXCEPT !.phase = "loop", !.inARow = 0]
      BY <1>1, WalkTypes DEF WalkStep, Rotate
    <2> QED
      BY <2>1 DEF RequestStates, Phases
  <1>3. /\ y.phase = "loop" /\ y.inARow = 0 /\ y.endpoint = x.endpoint
        /\ y.here = x.here /\ y.cut = x.cut /\ y.outcome = x.outcome
        /\ y.pin = x.pin /\ y.token = x.token /\ y.budget = x.budget /\ y.tries = x.tries
        /\ y.owed = x.owed /\ y.tried = x.tried
    BY <1>2 DEF RequestStates
  <1>4. /\ x.phase = "rotating" /\ Accounts(r)
        /\ UNCHANGED <<rows, life, cooldown, clearing>>
    BY <1>1 DEF Rotate, WalkStep, WalkOK, Underway, storeVars
  <1>5. OwedStands(r)' /\ UsableOwed(r)' /\ TriedRests(r)' /\ Holding(r)'
    <2>1. \A P : Usable(P)' = Usable(P) /\ Cooling(P)' = Cooling(P)
      BY <1>4, PoolsStay
    <2>2. Untried(r)' = Untried(r) /\ Concluded(r)' = Concluded(r)
      BY <1>1, <1>2, <1>3, <1>4 DEF Untried, Concluded, Calling
    <2>3. OwedStands(r)' /\ UsableOwed(r)'
      BY <1>1, <1>2, <1>3, <1>4, <2>1, <2>2 DEF Accounts, OwedStands, UsableOwed
    <2>4. TriedRests(r)' /\ Holding(r)'
      BY <1>1, <1>2, <1>3, <1>4, <2>1, <2>2 DEF Accounts, TriedRests, Holding, Calling
    <2> QED
      BY <2>3, <2>4
  <1>6. Pinned(x) /\ Walking(x, current, cooldown)
    BY <1>1, <1>4 DEF Accounts
  <1>7. Pinned(y)
    BY <1>3, <1>4, <1>6 DEF Pinned
  <1>8. Walking(y, current', cooldown')
    <2> SUFFICES ASSUME x.pin = NoEndpoint, x.owed \ x.tried # {}
                 PROVE  Walking(y, current', cooldown)
      BY <1>3, <1>4 DEF Walking, Searching
    <2>1. PICK c \in Endpoints : c = current
      BY WalkTypes DEF WalkStep
    <2>2. /\ x.owed \in SUBSET Pairs /\ x.budget \in Int /\ x.tries \in Nat
          /\ NoEndpoint = 0 /\ Endpoints \subseteq Nat \ {0} /\ N \in Nat /\ c \in 1..N
          /\ \A f \in Endpoints : cooldown[f] \in Nat
      BY <1>1, <2>1, WalkTypes DEF WalkStep, Endpoints
    <2>3. /\ Extra(x) = 0 /\ Extra(y) = 0 /\ Due(x, c, cooldown) = 0
          /\ Reserve(x.owed, x.tried, c) \in Int
      BY <1>3, <1>4, <2>2, ReserveFacts, <2>1 DEF Extra, Due, Searching
    <2>4. /\ \A p \in x.owed \ x.tried : p[1] >= c
          /\ \A f \in Endpoints : f > c => cooldown[f] = 0
          /\ x.endpoint = c /\ c \notin KeyEndpoints \cup PoolsIn(x.owed)
          /\ x.budget - x.tries >= Reserve(x.owed, x.tried, c)
      BY <1>4, <1>6, <2>1, <2>2, <2>3 DEF Walking, Searching
    <2>5. \A p \in x.owed \ x.tried : p[1] \in Endpoints /\ p[1] > c
      <3> TAKE p \in x.owed \ x.tried
      <3>1. p[1] \in Endpoints /\ p[2] \in Tokens \cup {NoToken} /\ p \in Untried(r)
        BY <1>1, <2>2 DEF Pairs, Untried
      <3>2. p[1] \notin KeyEndpoints => p[2] \in Usable(Pool[p[1]])
        BY <1>4, <3>1 DEF Accounts, OwedStands
      <3>3. p[1] \notin KeyEndpoints => p[2] \in Tokens
        <4>1. StoreTypeOK /\ Pool[p[1]] \in SUBSET Tokens
          BY <3>1, WalkTypes DEF WalkStep
        <4>2. \A P \in SUBSET Tokens : Usable(P) \subseteq Tokens
          BY DEF Usable
        <4> QED
          BY <3>2, <4>1, <4>2
      <3>4. p[1] # c
        BY <2>4, <3>1, <3>3 DEF PoolsIn, TokenPairs
      <3>5. p[1] \in Nat /\ p[1] >= c /\ c \in Nat
        BY <2>2, <2>4, <3>1
      <3> QED
        BY <3>1, <3>4, <3>5
    <2>6. c < N /\ c + 1 \in Endpoints
      <3>1. PICK f \in Endpoints : f > c
        BY <2>5
      <3>2. f \in 1..N
        BY DEF Endpoints
      <3> QED
        BY <2>2, <3>1, <3>2 DEF Endpoints
    <2>7. current' = c + 1
      <3>1. c % N = c
        BY <2>2, <2>6
      <3> QED
        BY <2>1, <3>1 DEF Rotate
    <2>8. /\ Reserve(x.owed, x.tried, c + 1) \in Int
          /\ Reserve(x.owed, x.tried, c) =
                Reserve(x.owed, x.tried, c + 1) + Allowance(x.owed, c + 1)
      BY <2>2, <2>6, ReserveFacts
    <2>9. cooldown[c + 1] = 0 /\ Due(y, c + 1, cooldown) = Allowance(x.owed, c + 1)
      BY <1>3, <2>2, <2>4, <2>6 DEF Due, Allowance, Searching
    <2>10. x.budget - x.tries >= Reserve(x.owed, x.tried, c + 1) + Due(y, c + 1, cooldown) + 0
      <3>1. PICK a \in {1, 2} : a = Allowance(x.owed, c + 1)
        BY DEF Allowance
      <3> QED
        BY <2>2, <2>4, <2>8, <2>9, <3>1
    <2>11. /\ \A p \in x.owed \ x.tried : p[1] >= c + 1
           /\ \A f \in Endpoints : f > c + 1 => cooldown[f] = 0
           /\ y.endpoint <= c + 1 /\ y.endpoint # c + 1
      <3>1. \A p \in x.owed \ x.tried : p[1] \in Nat /\ p[1] > c
        BY <2>2, <2>5
      <3> QED
        BY <1>3, <2>2, <2>4, <3>1
    <2> QED
      BY <1>3, <2>2, <2>3, <2>7, <2>10, <2>11 DEF Walking, ChosenPhases, AttemptPhases, Searching
  <1>9. Accounts(r)'
    BY <1>2, <1>5, <1>7, <1>8 DEF Accounts
  <1>10. Underway(r) /\ Underway(r)'
    BY <1>1, <1>2, <1>3, <1>4 DEF Underway
  <1> QED
    BY <1>1, <1>2, <1>3, <1>4, <1>9, <1>10, WalkGoesOn

(* Within an attempt, as long as no call has been made, nothing is spent. *)
LEMMA WalkPrepares ==
  ASSUME NEW r \in Requests, WalkStep(r), UseKey(r) \/ ClaimToken(r) \/ FindPoolDry(r)
  PROVE  WalkOK(r)'
  <1>1. PICK x \in RequestStates : x = request[r]
    BY WalkTypes DEF WalkStep
  <1>2. /\ x.phase = "auth" /\ Accounts(r) /\ Underway(r) /\ x.token = NoToken
        /\ UNCHANGED <<rows, life, cooldown, clearing, current>>
    BY <1>1 DEF UseKey, ClaimToken, FindPoolDry, Claim, WalkStep, WalkOK, Underway, Accounts,
                Holding, storeVars, proxyVars
  <1>3. PICK p \in {"ready", "dry"}, t \in Tokens \cup {NoToken} :
          /\ request'[r] = [x EXCEPT !.phase = p, !.token = t]
          /\ p = "ready" => IF x.endpoint \in KeyEndpoints THEN t = NoToken
                            ELSE t \in Usable(Pool[x.endpoint])
          /\ p = "dry" => /\ t = NoToken /\ x.endpoint \notin KeyEndpoints
                          /\ Usable(Pool[x.endpoint]) = {}
    <2>1. request \in [Requests -> RequestStates] /\ x = [x EXCEPT !.token = x.token]
      BY <1>1, WalkTypes DEF WalkStep, RequestStates
    <2>2. CASE UseKey(r)
      <3>1. request'[r] = [x EXCEPT !.phase = "ready"]
        BY <1>1, <2>1, <2>2 DEF UseKey
      <3>2. request'[r] = [x EXCEPT !.phase = "ready", !.token = NoToken]
        BY <1>2, <3>1 DEF RequestStates
      <3> QED
        BY <1>1, <2>2, <3>2 DEF UseKey
    <2>3. CASE FindPoolDry(r)
      <3>1. request'[r] = [x EXCEPT !.phase = "dry"]
        BY <1>1, <2>1, <2>3 DEF FindPoolDry
      <3>2. request'[r] = [x EXCEPT !.phase = "dry", !.token = NoToken]
        BY <1>2, <3>1 DEF RequestStates
      <3> QED
        BY <1>1, <2>3, <3>2 DEF FindPoolDry
    <2>4. CASE ClaimToken(r)
      <3>1. PICK t \in Pool[x.endpoint] :
              /\ Claim(Pool[x.endpoint], t, {})
              /\ request'[r] = [x EXCEPT !.phase = "ready", !.token = t]
        BY <1>1, <2>1, <2>4 DEF ClaimToken
      <3>2. t \in Usable(Pool[x.endpoint])
        BY <3>1 DEF Claim, Front
      <3>3. x.endpoint \in Endpoints
        BY <1>1, <1>2 DEF WalkStep, IInv, Placed, Seated, ChosenPhases, AttemptPhases
      <3>4. t \in Tokens /\ x.endpoint \notin KeyEndpoints
        BY <3>1, <3>3, LoopAssumption
      <3> QED
        BY <3>1, <3>2, <3>4
    <2> QED
      BY <2>2, <2>3, <2>4
  <1>4. PICK y \in RequestStates : y = request'[r]
    <2>1. p \in Phases
      BY DEF Phases, AttemptPhases
    <2> QED
      BY <1>3, <2>1 DEF RequestStates
  <1>5. /\ y.phase = p /\ y.token = t /\ y.endpoint = x.endpoint /\ y.inARow = x.inARow
        /\ y.here = x.here /\ y.cut = x.cut /\ y.outcome = x.outcome
        /\ y.pin = x.pin /\ y.budget = x.budget /\ y.tries = x.tries
        /\ y.owed = x.owed /\ y.tried = x.tried
    BY <1>3, <1>4 DEF RequestStates
  <1>6. \A P : Usable(P)' = Usable(P) /\ Cooling(P)' = Cooling(P)
    BY <1>2, PoolsStay
  <1>7. Untried(r)' = Untried(r) /\ Concluded(r)' = Concluded(r)
    BY <1>1, <1>2, <1>4, <1>5 DEF Untried, Concluded, Calling
  <1>8. OwedStands(r)' /\ UsableOwed(r)' /\ TriedRests(r)'
    BY <1>1, <1>2, <1>4, <1>5, <1>6, <1>7 DEF Accounts, OwedStands, UsableOwed, TriedRests
  <1>9. Holding(r)'
    BY <1>3, <1>4, <1>5, <1>6 DEF Holding, Calling
  <1>10. Pinned(x) /\ Walking(x, current, cooldown)
    BY <1>1, <1>2 DEF Accounts
  <1>11. Pinned(y)
    BY <1>2, <1>5, <1>10 DEF Pinned, ChosenPhases, AttemptPhases, Extra
  <1>12. Walking(y, current, cooldown)
    <2>1. Due(y, current, cooldown) = Due(x, current, cooldown)
      BY <1>2, <1>5 DEF Due, Searching
    <2>2. Extra(x) = 0 /\ Extra(y) = 0
      BY <1>2, <1>5 DEF Extra
    <2> QED
      BY <1>2, <1>5, <1>10, <2>1, <2>2 DEF Walking, ChosenPhases, AttemptPhases, Searching
  <1>13. Accounts(r)' /\ Underway(r)'
    BY <1>2, <1>4, <1>5, <1>8, <1>9, <1>11, <1>12 DEF Accounts, Underway
  <1> QED
    BY <1>1, <1>2, <1>4, <1>5, <1>13, WalkGoesOn

(* A call takes its token, or its key, off what is left to try. *)
LEMMA WalkSends ==
  ASSUME NEW r \in Requests, WalkStep(r), Send(r)
  PROVE  WalkOK(r)'
  <1>1. PICK x \in RequestStates : x = request[r]
    BY WalkTypes DEF WalkStep
  <1>2. /\ x.phase = "ready" /\ Accounts(r) /\ Underway(r)
        /\ UNCHANGED <<rows, life, cooldown, clearing, current>>
    BY <1>1 DEF Send, WalkStep, WalkOK, Underway, storeVars, proxyVars
  <1>3. /\ x.owed \in SUBSET Pairs /\ x.tried \in SUBSET Pairs
        /\ x.endpoint \in Endpoints /\ x.token \in Tokens \cup {NoToken}
        /\ x.budget \in Int /\ x.tries \in Nat /\ x.inARow \in Nat
        /\ current \in Endpoints /\ NoToken \notin Tokens /\ StoreTypeOK
        /\ Pool[x.endpoint] \subseteq Tokens
    <2>1. x.endpoint \in Endpoints
      BY <1>1, <1>2 DEF WalkStep, IInv, Placed, Seated, ChosenPhases, AttemptPhases
    <2> QED
      BY <1>1, <2>1, WalkTypes DEF WalkStep
  <1>0. PICK c \in Endpoints : c = current
    BY <1>3
  <1>4. PICK pair \in Pairs : pair = <<x.endpoint, x.token>>
    BY <1>3 DEF Pairs
  <1>5. PICK y \in RequestStates :
          /\ y = request'[r]
          /\ y = [x EXCEPT !.phase = "out", !.tried = x.tried \cup {pair}]
    <2>1. request'[r] = [x EXCEPT !.phase = "out", !.tried = x.tried \cup {pair}]
      BY <1>1, <1>4, WalkTypes DEF WalkStep, Send
    <2>2. x.tried \cup {pair} \in SUBSET (Endpoints \X (Tokens \cup {NoToken}))
      BY <1>3 DEF Pairs
    <2> QED
      BY <2>1, <2>2 DEF RequestStates, Phases, AttemptPhases
  <1>6. /\ y.phase = "out" /\ y.token = x.token /\ y.endpoint = x.endpoint
        /\ y.inARow = x.inARow /\ y.here = x.here /\ y.cut = x.cut /\ y.outcome = x.outcome
        /\ y.pin = x.pin /\ y.budget = x.budget /\ y.tries = x.tries
        /\ y.owed = x.owed /\ y.tried = x.tried \cup {pair}
    BY <1>5 DEF RequestStates
  <1>7. \A P : Usable(P)' = Usable(P) /\ Cooling(P)' = Cooling(P)
    BY <1>2, PoolsStay
  <1>8. Untried(r)' \subseteq Untried(r) /\ Concluded(r)' \subseteq Concluded(r)
    BY <1>1, <1>2, <1>4, <1>5, <1>6 DEF Untried, Concluded, Calling, Attempted
  <1>9. OwedStands(r)' /\ UsableOwed(r)' /\ TriedRests(r)'
    BY <1>1, <1>2, <1>5, <1>6, <1>7, <1>8 DEF Accounts, OwedStands, UsableOwed, TriedRests
  <1>10. Holding(r)'
    BY <1>1, <1>2, <1>4, <1>5, <1>6, <1>7 DEF Accounts, Holding, Calling, Attempted
  <1>11. Pinned(x) /\ Walking(x, current, cooldown)
    BY <1>1, <1>2 DEF Accounts
  <1>12. IF x.endpoint \in KeyEndpoints THEN x.token = NoToken
         ELSE x.token \in Usable(Pool[x.endpoint])
    BY <1>1, <1>2 DEF Accounts, Holding
  \* The token that is called with was owed, and had not been tried.
  <1>13. ASSUME x.token # NoToken, x.pin \in {NoEndpoint, x.endpoint}
         PROVE  x.token \in Tokens /\ pair \in x.owed \ x.tried
    <2>1. x.endpoint \notin KeyEndpoints /\ x.token \in Usable(Pool[x.endpoint])
      BY <1>12, <1>13
    <2>2. pair \in x.owed
      BY <1>1, <1>2, <1>3, <1>4, <1>13, <2>1 DEF Accounts, UsableOwed
    <2>3. x.token \in Tokens /\ x.token \notin Cooling(Pool[x.endpoint])
      BY <1>3, <2>1, UsableFacts
    <2>4. pair \notin x.tried
      BY <1>1, <1>2, <1>4, <2>3 DEF Accounts, TriedRests, Concluded, Calling
    <2> QED
      BY <2>2, <2>3, <2>4
  <1>14. ASSUME x.pin \in {NoEndpoint, x.endpoint}
         PROVE  /\ Cardinality(TokenPairs(x.owed \ y.tried)) + Extra(y)
                      = Cardinality(TokenPairs(x.owed \ x.tried)) + Extra(x)
                /\ Reserve(x.owed, y.tried, c) + Extra(y)
                      = Reserve(x.owed, x.tried, c) + Extra(x)
                /\ Extra(x) = 0 /\ Extra(y) \in Nat
    <2>1. /\ Reserve(x.owed, x.tried, c) \in Int
          /\ Cardinality(TokenPairs(x.owed \ x.tried)) \in Nat
      BY <1>3, ReserveFacts
    <2>5. x.owed \in SUBSET Pairs /\ c \in Endpoints /\ pair \in Pairs
      BY <1>3
    <2>2. Extra(x) = 0 /\ Extra(y) = (IF x.token # NoToken THEN 1 ELSE 0)
      BY <1>2, <1>6 DEF Extra
    <2>3. CASE x.token = NoToken
      <3>1. pair[2] \notin Tokens
        BY <1>3, <1>4, <2>3
      <3>2. /\ Cardinality(TokenPairs(x.owed \ y.tried))
                   = Cardinality(TokenPairs(x.owed \ x.tried))
            /\ Reserve(x.owed, y.tried, c) = Reserve(x.owed, x.tried, c)
        <4>1. /\ TokenPairs(x.owed \ (x.tried \cup {pair})) = TokenPairs(x.owed \ x.tried)
              /\ Reserve(x.owed, x.tried \cup {pair}, c) = Reserve(x.owed, x.tried, c)
          BY <2>5, <3>1, KeySpent
        <4> QED
          BY <1>6, <4>1
      <3> QED
        BY <2>1, <2>2, <2>3, <3>2
    <2>4. CASE x.token # NoToken
      <3>1. pair[2] \in Tokens /\ pair \in x.owed \ x.tried
        BY <1>4, <1>13, <1>14, <2>4
      <3>2. /\ Cardinality(TokenPairs(x.owed \ x.tried))
                   = Cardinality(TokenPairs(x.owed \ (x.tried \cup {pair}))) + 1
            /\ Reserve(x.owed, x.tried, c) = Reserve(x.owed, x.tried \cup {pair}, c) + 1
        BY <2>5, <3>1, TokenSpent
      <3>4. Extra(x) = 0 /\ Extra(y) = 1
        BY <2>2, <2>4
      <3>5. /\ Cardinality(TokenPairs(x.owed \ x.tried)) + 0
                   = Cardinality(TokenPairs(x.owed \ (x.tried \cup {pair}))) + 1
            /\ Reserve(x.owed, x.tried, c) + 0 = Reserve(x.owed, x.tried \cup {pair}, c) + 1
        BY <2>1, <3>2
      <3> QED
        BY <1>6, <3>4, <3>5
    <2> QED
      BY <2>3, <2>4
  <1>15. Pinned(y)
    <2> SUFFICES ASSUME x.pin # NoEndpoint PROVE Pinned(y)
      BY <1>6 DEF Pinned
    <2>1. x.endpoint = x.pin
      BY <1>2, <1>11 DEF Pinned, ChosenPhases, AttemptPhases
    <2>2. ASSUME y.owed \ y.tried # {}
          PROVE  y.budget - y.tries >= Cardinality(TokenPairs(y.owed \ y.tried)) + 1 + Extra(y)
      <3>1. x.budget - x.tries >= Cardinality(TokenPairs(x.owed \ x.tried)) + 1 + Extra(x)
        BY <1>2, <1>6, <1>11, <2>2 DEF Pinned
      <3>2. Cardinality(TokenPairs(x.owed \ x.tried)) \in Nat
            /\ Cardinality(TokenPairs(x.owed \ y.tried)) \in Nat
        BY <1>3, ReserveFacts
      <3> QED
        BY <1>3, <1>6, <1>14, <2>1, <3>1, <3>2
    <2> QED
      BY <1>6, <2>1, <2>2 DEF Pinned
  <1>16. Walking(y, current, cooldown)
    <2> SUFFICES ASSUME x.pin = NoEndpoint, y.owed \ y.tried # {}
                 PROVE  Walking(y, current, cooldown)
      BY <1>6 DEF Walking, Searching
    <2>1. Due(y, current, cooldown) = Due(x, current, cooldown)
          /\ Due(x, current, cooldown) \in Int
      BY <1>2, <1>3, <1>6 DEF Due, Allowance, Searching
    <2>2. x.budget - x.tries >=
            Reserve(x.owed, x.tried, current) + Due(x, current, cooldown) + Extra(x)
      BY <1>2, <1>6, <1>11 DEF Walking, Searching
    <2>3. Reserve(x.owed, x.tried, current) \in Int /\ Reserve(x.owed, y.tried, current) \in Int
      BY <1>3, ReserveFacts
    <2>4. y.budget - y.tries >=
            Reserve(y.owed, y.tried, current) + Due(y, current, cooldown) + Extra(y)
      BY <1>3, <1>0, <1>6, <1>14, <2>1, <2>2, <2>3
    <2> QED
      BY <1>2, <1>6, <1>11, <2>4 DEF Walking, ChosenPhases, AttemptPhases, Searching
  <1>17. Accounts(r)' /\ Underway(r)'
    BY <1>2, <1>5, <1>6, <1>9, <1>10, <1>15, <1>16 DEF Accounts, Underway
  <1> QED
    BY <1>1, <1>2, <1>5, <1>6, <1>17, WalkGoesOn
\* What becomes of request x when an attempt of it is given up.
GivenUp(x, y) ==
    /\ y.endpoint = x.endpoint /\ y.token = NoToken /\ y.tries = x.tries + 1
    /\ y.here = x.here /\ y.cut = FALSE /\ y.outcome = x.outcome
    /\ y.pin = x.pin /\ y.budget = x.budget /\ y.owed = x.owed /\ y.tried = x.tried

(* What either retry makes of a request. *)
LEMMA RetryFields ==
  ASSUME IInv, NEW r \in Requests, NEW m \in Memories, RetryNext(r, m) \/ RetrySame(r, m)
  PROVE  /\ request'[r] \in RequestStates
         /\ GivenUp(request[r], request'[r])
         /\ RetryNext(r, m) =>
               /\ request'[r].inARow = request[r].inARow
               /\ request'[r].phase =
                     IF request[r].inARow >= 2 /\ request[r].pin = NoEndpoint
                     THEN "rotating" ELSE "loop"
         /\ RetrySame(r, m) => request'[r].inARow = 0 /\ request'[r].phase = "loop"
  <1>1. PICK x \in RequestStates : x = request[r]
    BY WalkTypes
  <1>2. PICK a \in RequestStates :
          /\ a = AfterAttempt(r)
          /\ a = [x EXCEPT !.token = NoToken, !.cut = FALSE, !.tries = x.tries + 1]
    <2>1. x.tries + 1 \in Nat
      BY <1>1 DEF RequestStates
    <2>2. AfterAttempt(r) = [x EXCEPT !.token = NoToken, !.cut = FALSE, !.tries = x.tries + 1]
      BY <1>1 DEF AfterAttempt
    <2> QED
      BY <2>1, <2>2 DEF RequestStates
  <1>3. /\ a.token = NoToken /\ a.cut = FALSE /\ a.tries = x.tries + 1
        /\ a.endpoint = x.endpoint /\ a.here = x.here /\ a.outcome = x.outcome
        /\ a.pin = x.pin /\ a.budget = x.budget /\ a.owed = x.owed /\ a.tried = x.tried
        /\ a.inARow = x.inARow
    BY <1>2 DEF RequestStates
  <1>4. request \in [Requests -> RequestStates]
    BY WalkTypes
  <1>5. ASSUME RetryNext(r, m)
        PROVE  /\ request'[r] \in RequestStates /\ GivenUp(x, request'[r])
               /\ request'[r].inARow = x.inARow
               /\ request'[r].phase = IF x.inARow >= 2 /\ x.pin = NoEndpoint
                                      THEN "rotating" ELSE "loop"
    <2>1. PICK p \in {"loop", "rotating"} :
            p = IF x.inARow >= 2 /\ x.pin = NoEndpoint THEN "rotating" ELSE "loop"
      OBVIOUS
    <2>2. request'[r] = [a EXCEPT !.phase = p, !.replay = m]
      BY <1>1, <1>2, <1>4, <1>5, <2>1 DEF RetryNext
    <2>3. request'[r] \in RequestStates
      BY <2>2 DEF RequestStates, Phases, Memories
    <2>4. PICK y \in RequestStates : y = request'[r] /\ y = [a EXCEPT !.phase = p, !.replay = m]
      BY <2>2, <2>3
    <2>5. GivenUp(x, y) /\ y.inARow = x.inARow /\ y.phase = p
      BY <1>3, <2>4 DEF RequestStates, GivenUp
    <2> QED
      BY <2>1, <2>4, <2>5
  <1>6. ASSUME RetrySame(r, m)
        PROVE  /\ request'[r] \in RequestStates /\ GivenUp(x, request'[r])
               /\ request'[r].inARow = 0 /\ request'[r].phase = "loop"
    <2>2. request'[r] = [a EXCEPT !.phase = "loop", !.inARow = 0, !.replay = m]
      BY <1>1, <1>2, <1>4, <1>6 DEF RetrySame
    <2>3. request'[r] \in RequestStates
      <3>1. "loop" \in Phases /\ 0 \in Nat /\ m \in {"none", "last", "stale"}
        BY DEF Phases, Memories
      <3> QED
        BY <2>2, <3>1 DEF RequestStates
    <2>4. PICK y \in RequestStates :
            y = request'[r] /\ y = [a EXCEPT !.phase = "loop", !.inARow = 0, !.replay = m]
      BY <2>2, <2>3
    <2>5. GivenUp(x, y) /\ y.inARow = 0 /\ y.phase = "loop"
      BY <1>3, <2>4 DEF RequestStates, GivenUp
    <2> QED
      BY <2>4, <2>5
  <1> QED
    BY <1>1, <1>5, <1>6

(* An endpoint that has nothing left to try is given up, and cools or has    *)
(* nothing to cool: a pool that has run dry, or a key that is used up.       *)
LEMMA WalkRests ==
  ASSUME NEW r \in Requests, WalkStep(r), request[r].phase \in {"dry", "out"},
         request[r].token = NoToken, NEW m \in Memories, RetryNext(r, m),
         UNCHANGED <<rows, life, clearing, current>>,
         \A p \in Untried(r) : p[1] # request[r].endpoint,
         NEW d \in Nat,
         cooldown' = IF d = 0 THEN cooldown
                     ELSE [cooldown EXCEPT ![request[r].endpoint] = d],
         d = 0 => request[r].endpoint \notin KeyEndpoints \cup PoolsIn(request[r].owed)
  PROVE  WalkOK(r)'
  <1>1. PICK x \in RequestStates, e \in Endpoints, c \in Endpoints :
          x = request[r] /\ e = request[r].endpoint /\ c = current
    BY WalkTypes DEF WalkStep, IInv, Placed, Seated, ChosenPhases, AttemptPhases
  <1>2. PICK y \in RequestStates : y = request'[r]
    BY RetryFields DEF WalkStep
  <1>3. /\ GivenUp(x, y) /\ y.inARow = x.inARow
        /\ y.phase = IF x.inARow >= 2 /\ x.pin = NoEndpoint THEN "rotating" ELSE "loop"
    BY <1>1, <1>2, RetryFields DEF WalkStep
  <1>4. PICK k \in [Endpoints -> Nat], l \in [Endpoints -> Nat] :
          /\ k = cooldown /\ l = cooldown'
          /\ l = IF d = 0 THEN k ELSE [k EXCEPT ![e] = d]
    <2>1. cooldown \in [Endpoints -> Nat]
      BY WalkTypes DEF WalkStep
    <2> QED
      BY <1>1, <2>1
  <1>5. Accounts(r) /\ Underway(r)
    BY <1>1 DEF WalkStep, WalkOK, Underway
  <1>6. /\ x.owed \in SUBSET Pairs /\ x.budget \in Int /\ x.tries \in Nat /\ x.inARow \in Nat
        /\ c \in Nat /\ N \in Nat
    BY <1>1, WalkTypes DEF WalkStep
  <1>7. OwedStands(r)' /\ UsableOwed(r)' /\ TriedRests(r)' /\ Holding(r)'
    <2>1. \A P : Usable(P)' = Usable(P) /\ Cooling(P)' = Cooling(P)
      BY PoolsStay
    <2>2. y.phase \in {"loop", "rotating"} /\ y.token = NoToken
      BY <1>3 DEF GivenUp
    <2>3. Untried(r)' = Untried(r)
      BY <1>1, <1>2, <1>3 DEF Untried, GivenUp
    <2>4. \A p \in Concluded(r)' : p[2] \in Tokens => p \in Concluded(r)
      BY <1>1, <1>2, <1>3, <2>2, LoopAssumption
         DEF Concluded, Calling, Attempted, GivenUp
    <2>5. \A p \in Untried(r) : l[p[1]] = k[p[1]]
      BY <1>1, <1>4
    <2>6. OwedStands(r)'
      BY <1>1, <1>2, <1>3, <1>4, <1>5, <2>1, <2>3, <2>5 DEF Accounts, OwedStands, GivenUp
    <2>7. UsableOwed(r)'
      BY <1>1, <1>2, <1>3, <1>5, <2>1 DEF Accounts, UsableOwed, GivenUp
    <2>8. TriedRests(r)'
      BY <1>5, <2>1, <2>4 DEF Accounts, TriedRests
    <2>9. Holding(r)'
      BY <1>2, <2>2 DEF Holding, Calling
    <2> QED
      BY <2>6, <2>7, <2>8, <2>9
  <1>8. Pinned(x) /\ Walking(x, c, k)
    BY <1>1, <1>4, <1>5 DEF Accounts
  <1>9. Pinned(y)
    <2>1. ASSUME x.pin # NoEndpoint PROVE x.owed \ x.tried = {}
      <3>1. x.endpoint = x.pin
        BY <1>1, <1>8, <2>1 DEF Pinned, ChosenPhases, AttemptPhases
      <3>2. \A p \in x.owed \ x.tried : p[1] = x.pin
        BY <1>1, <1>5, <2>1 DEF Accounts, OwedStands, Untried
      <3> QED
        BY <1>1, <3>1, <3>2 DEF Untried
    <2> QED
      BY <1>3, <2>1 DEF Pinned, GivenUp, ChosenPhases, AttemptPhases
  <1>10. Walking(y, c, l)
    <2> SUFFICES ASSUME x.pin = NoEndpoint, x.owed \ x.tried # {}
                 PROVE  Walking(y, c, l)
      BY <1>3 DEF Walking, GivenUp, Searching
    <2>1. PICK a \in {1, 2} : a = Allowance(x.owed, c)
      BY DEF Allowance
    <2>2. PICK n \in Int : n = Reserve(x.owed, x.tried, c)
      BY <1>6, ReserveFacts
    <2>3. Extra(x) = 0 /\ Extra(y) = 0 /\ Due(x, c, k) = a + 1 - x.inARow
      BY <1>1, <1>3, <2>1 DEF Extra, GivenUp, Due, Searching
    <2>4. /\ \A p \in x.owed \ x.tried : p[1] >= c
          /\ \A f \in Endpoints : f > c => k[f] = 0
          /\ x.endpoint = c /\ e = c /\ k[c] = 0 /\ x.inARow \in {1, 2}
          /\ x.inARow = 2 => c \notin KeyEndpoints \cup PoolsIn(x.owed)
          /\ x.budget - x.tries >= n + (a + 1 - x.inARow) + 0
      BY <1>1, <1>8, <2>2, <2>3 DEF Walking, ChosenPhases, AttemptPhases, Searching
    <2>5. \A f \in Endpoints : f > c => l[f] = 0
      BY <1>4, <1>6, <2>4
    <2>6. y.budget - y.tries >= n + (a - x.inARow)
      BY <1>3, <1>6, <2>4 DEF GivenUp
    <2>7. x.inARow = 2 => a = 2
      BY <2>1, <2>4 DEF Allowance
    <2>8. Due(y, c, l) = IF x.inARow = 2 \/ l[c] > 0 THEN 0 ELSE a - x.inARow
      BY <1>3, <2>1, <2>4 DEF Due, GivenUp, Searching
    <2>9. y.budget - y.tries >= n + Due(y, c, l) + 0
      BY <1>3, <1>6, <2>4, <2>6, <2>7, <2>8 DEF GivenUp
    <2>10. y.budget - y.tries >= Reserve(y.owed, y.tried, c) + Due(y, c, l) + Extra(y)
      BY <1>3, <2>2, <2>3, <2>9 DEF GivenUp
    <2>11. y.phase = "loop" => x.inARow = 1
      BY <1>3, <2>4
    <2>12. (y.phase = "loop" /\ l[c] = 0) => c \notin KeyEndpoints \cup PoolsIn(x.owed)
      BY <1>1, <1>4, <2>4
    <2>13. y.phase = "rotating" => c \notin KeyEndpoints \cup PoolsIn(x.owed)
      BY <1>3, <2>4
    <2>14. /\ y.phase \notin ChosenPhases /\ y.phase # "picking"
           /\ y.endpoint = c /\ c # NoEndpoint /\ c <= c
      BY <1>3, <1>6, <2>4 DEF ChosenPhases, AttemptPhases, GivenUp, Endpoints, NoEndpoint
    <2> QED
      BY <1>3, <2>4, <2>5, <2>10, <2>11, <2>12, <2>13, <2>14 DEF Walking, GivenUp, Searching
  <1>11. Accounts(r)'
    BY <1>1, <1>2, <1>4, <1>7, <1>9, <1>10 DEF Accounts
  <1>12. Underway(r)'
    BY <1>2, <1>3 DEF Underway
  <1> QED
    BY <1>1, <1>2, <1>3, <1>5, <1>11, <1>12, WalkGoesOn DEF GivenUp

(* A dry pool that was owed has tokens to wait for, so it cools. *)
LEMMA WalkCools ==
  ASSUME NEW r \in Requests, WalkStep(r), CoolEndpoint(r)
  PROVE  WalkOK(r)'
  <1>1. PICK x \in RequestStates, e \in Endpoints :
          x = request[r] /\ e = request[r].endpoint /\ x.phase = "dry"
    BY WalkTypes DEF WalkStep, IInv, Placed, Seated, ChosenPhases, AttemptPhases, CoolEndpoint
  <1>2. Accounts(r)
    BY <1>1 DEF WalkStep, WalkOK, Underway
  <1>3. /\ x.token = NoToken /\ e \notin KeyEndpoints /\ Usable(Pool[e]) = {}
    BY <1>1, <1>2 DEF Accounts, Holding
  <1>4. x.owed \in SUBSET Pairs /\ StoreTypeOK
    BY <1>1, WalkTypes DEF WalkStep
  <1>5. \A p \in Untried(r) : p[1] # e
    BY <1>1, <1>2, <1>3 DEF Accounts, OwedStands
  <1>6. PICK d \in EarliestTokenCooldown(Pool[e]) :
          cooldown' = IF d = 0 THEN cooldown ELSE [cooldown EXCEPT ![e] = d]
    BY <1>1 DEF CoolEndpoint
  <1>7. d \in Nat /\ (d = 0 => Cooling(Pool[e]) = {})
    <2>1. CASE Cooling(Pool[e]) = {}
      BY <2>1 DEF EarliestTokenCooldown
    <2>2. CASE Cooling(Pool[e]) # {}
      <3>1. PICK t \in Cooling(Pool[e]) : d = rows[t].cooldown
        BY <2>2 DEF EarliestTokenCooldown
      <3>2. rows[t].cooldown > 0 /\ rows[t] \in Rows
        <4>1. t \in Tokens
          BY LoopAssumption DEF Cooling
        <4> QED
          BY <1>4, <4>1 DEF Cooling, StoreTypeOK
      <3>3. rows[t].cooldown \in Nat
        <4>1. NullTimes \subseteq Nat \cup {-1}
          BY RowAssumption DEF NullTimes, Times, Null
        <4>2. rows[t].cooldown \in NullTimes
          BY <3>2 DEF Rows
        <4>3. PICK n \in Nat \cup {-1} : n = rows[t].cooldown
          BY <4>1, <4>2
        <4>4. n > 0
          BY <3>2, <4>3
        <4>5. n \in Nat
          BY <4>4
        <4> QED
          BY <4>3, <4>5
      <3> QED
        BY <3>1, <3>2, <3>3
    <2> QED
      BY <2>1, <2>2
  <1>8. ASSUME e \in PoolsIn(x.owed) PROVE Cooling(Pool[e]) # {}
    <2>1. PICK p \in x.owed : p[2] \in Tokens /\ p[1] = e
      BY <1>8 DEF PoolsIn, TokenPairs
    <2>2. p \in x.tried
      BY <1>1, <1>5, <2>1 DEF Untried
    <2>3. p \in Concluded(r)
      BY <1>1, <2>2 DEF Concluded, Calling
    <2> QED
      BY <1>2, <2>1, <2>3 DEF Accounts, TriedRests
  <1>9. Kept(r) \in Memories /\ RetryNext(r, Kept(r)) /\ UNCHANGED <<rows, life, clearing, current>>
    <2>1. Kept(r) \in Memories
      BY <1>1 DEF Kept, Memories, RequestStates
    <2> QED
      BY <2>1 DEF CoolEndpoint, storeVars
  <1>10. d = 0 => e \notin KeyEndpoints \cup PoolsIn(x.owed)
    BY <1>3, <1>7, <1>8
  <1> QED
    BY <1>1, <1>3, <1>5, <1>6, <1>7, <1>9, <1>10, WalkRests

(* A usage limit of a key rests its endpoint, ... *)
LEMMA WalkKeyLimited ==
  ASSUME NEW r \in Requests, WalkStep(r), UsageLimited(r), request[r].token = NoToken
  PROVE  WalkOK(r)'
  <1>1. PICK x \in RequestStates, e \in Endpoints :
          x = request[r] /\ e = request[r].endpoint /\ x.phase = "out"
    BY WalkTypes DEF WalkStep, IInv, Placed, Seated, ChosenPhases, AttemptPhases, UsageLimited, Answer
  <1>2. Accounts(r)
    BY <1>1 DEF WalkStep, WalkOK, Underway
  <1>3. e \in KeyEndpoints /\ <<e, NoToken>> \in x.tried
    <2>1. \A P \in SUBSET Tokens : Usable(P) \subseteq Tokens
      BY DEF Usable
    <2>2. IF e \in KeyEndpoints THEN TRUE ELSE NoToken \in Usable(Pool[e])
      BY <1>1, <1>2 DEF Accounts, Holding
    <2>3. e \in KeyEndpoints
      BY <2>1, <2>2, LoopAssumption
    <2> QED
      BY <1>1, <1>2, <2>3 DEF Accounts, Holding, Calling, Attempted
  <1>4. \A p \in Untried(r) : p[1] # e
    <2> SUFFICES ASSUME NEW p \in Untried(r), p[1] = e PROVE FALSE
      OBVIOUS
    <2>1. p \in Pairs /\ p[2] = NoToken
      <3>1. x.owed \in SUBSET Pairs
        BY <1>1, WalkTypes DEF WalkStep
      <3> QED
        BY <1>1, <1>2, <1>3, <3>1 DEF Accounts, OwedStands, Untried
    <2>2. p = <<e, NoToken>>
      BY <2>1 DEF Pairs
    <2> QED
      BY <1>1, <1>3, <2>2 DEF Untried
  <1>5. PICK d \in UsageCooldowns :
          /\ cooldown' = [cooldown EXCEPT ![e] = d]
          /\ RetryNext(r, "last") /\ UNCHANGED storeVars
    BY <1>1 DEF UsageLimited
  <1>6. d \in Nat /\ d # 0
    BY LoopAssumption, RowAssumption
  <1>7. "last" \in Memories /\ UNCHANGED <<rows, life, clearing, current>>
    BY <1>5 DEF UsageLimited, storeVars, Memories
  <1> QED
    BY <1>1, <1>4, <1>5, <1>6, <1>7, WalkRests

(* ... one of a token only the token: the next one is asked for at once. *)
LEMMA WalkTokenLimited ==
  ASSUME NEW r \in Requests, WalkStep(r), UsageLimited(r), request[r].token # NoToken
  PROVE  WalkOK(r)'
  <1>1. PICK x \in RequestStates, e \in Endpoints, c \in Endpoints :
          x = request[r] /\ e = request[r].endpoint /\ x.phase = "out" /\ c = current
    BY WalkTypes DEF WalkStep, IInv, Placed, Seated, ChosenPhases, AttemptPhases, UsageLimited, Answer
  <1>2. Accounts(r) /\ Underway(r)
    BY <1>1 DEF WalkStep, WalkOK, Underway
  <1>3. PICK t \in Tokens : t = x.token
    BY <1>1, WalkTypes DEF WalkStep
  <1>4. PICK d \in 1..Horizon : MarkUsageLimit(t, d, {}) /\ RetrySame(r, "last") /\ UNCHANGED cooldown
    BY <1>1, <1>3, LoopAssumption DEF UsageLimited
  <1>5. UNCHANGED <<current, clearing, cooldown>>
    BY <1>4 DEF UsageLimited
  <1>6. PICK y \in RequestStates :
          /\ y = request'[r] /\ GivenUp(x, y) /\ y.inARow = 0 /\ y.phase = "loop"
    BY <1>1, <1>4, RetryFields DEF WalkStep, Memories
  <1>7. /\ e \notin KeyEndpoints /\ t \in Usable(Pool[e]) /\ <<e, t>> \in x.tried
    BY <1>1, <1>2, <1>3 DEF Accounts, Holding, Calling, Attempted
  <1>8. /\ x.owed \in SUBSET Pairs /\ x.budget \in Int /\ x.tries \in Nat /\ x.inARow \in Nat
        /\ c \in Nat /\ N \in Nat /\ StoreTypeOK /\ Pool[e] \in SUBSET Tokens
        /\ \A f \in Endpoints : Pool[f] \in SUBSET Tokens
    BY <1>1, WalkTypes DEF WalkStep
  <1>9. \A P \in SUBSET Tokens :
            /\ Usable(P)' = Usable(P) \ {t}
            /\ Cooling(P) \subseteq Cooling(P)'
            /\ t \in P => t \in Cooling(P)'
    <2>1. Stored(t) /\ IsUsable(rows[t])
      BY <1>7 DEF Usable
    <2> QED
      BY <1>4, <1>8, <2>1, UsageLimitRests
  <1>10. OwedStands(r)' /\ UsableOwed(r)' /\ TriedRests(r)' /\ Holding(r)'
    <2>1. Untried(r)' = Untried(r)
      BY <1>1, <1>6 DEF Untried, GivenUp
    <2>2. \A p \in Untried(r) : p[1] \notin KeyEndpoints => p[2] # t
      <3> SUFFICES ASSUME NEW p \in Untried(r), p[1] \notin KeyEndpoints, p[2] = t PROVE FALSE
        OBVIOUS
      <3>1. p \in Pairs /\ p[1] \in Endpoints
        BY <1>1, <1>8 DEF Untried, Pairs
      <3>2. p[2] \in Usable(Pool[p[1]])
        BY <1>2 DEF Accounts, OwedStands
      <3>3. t \in Pool[p[1]] /\ t \in Pool[e]
        BY <1>7, <3>2 DEF Usable
      <3>4. p[1] = e
        BY <3>1, <3>3, LoopAssumption
      <3>5. p = <<e, t>>
        BY <3>1, <3>4 DEF Pairs
      <3> QED
        BY <1>1, <1>7, <3>5 DEF Untried
    <2>3. \A p \in Untried(r) : p[1] \in Endpoints
      BY <1>1, <1>8 DEF Untried, Pairs
    <2>4. OwedStands(r)'
      <3>1. /\ \A p \in x.owed :
                 /\ x.pin \in {NoEndpoint, p[1]}
                 /\ p[1] \in KeyEndpoints => p[2] = NoToken
                 /\ p[1] \notin KeyEndpoints => p[2] \in Pool[p[1]]
            /\ \A p \in Untried(r) : /\ cooldown[p[1]] = 0
                                     /\ p[1] \notin KeyEndpoints => p[2] \in Usable(Pool[p[1]])
        BY <1>1, <1>2 DEF Accounts, OwedStands
      <3>2. \A p \in Untried(r) : p[1] \notin KeyEndpoints => p[2] \in Usable(Pool[p[1]])'
        BY <1>8, <1>9, <2>2, <2>3, <3>1
      <3> QED
        BY <1>5, <1>6, <2>1, <3>1, <3>2 DEF OwedStands, GivenUp
    <2>5. UsableOwed(r)'
      <3>1. \A f \in Endpoints : Usable(Pool[f])' \subseteq Usable(Pool[f])
        BY <1>8, <1>9
      <3> QED
        BY <1>1, <1>2, <1>6, <3>1 DEF Accounts, UsableOwed, GivenUp
    <2>6. TriedRests(r)'
      <3>1. Concluded(r)' \subseteq x.tried
        BY <1>6 DEF Concluded, GivenUp
      <3>2. ASSUME NEW p \in x.tried, p[2] \in Tokens
            PROVE  p[2] \in Cooling(Pool[p[1]])'
        <4>1. p \in Pairs /\ p[1] \in Endpoints
          BY <1>1, WalkTypes DEF WalkStep, Pairs
        <4>2. CASE p = <<e, t>>
          BY <1>7, <1>8, <1>9, <4>2 DEF Usable
        <4>3. CASE p # <<e, t>>
          <5>1. p \in Concluded(r)
            BY <1>1, <1>3, <4>3 DEF Concluded, Attempted
          <5>2. p[2] \in Cooling(Pool[p[1]])
            BY <1>2, <3>2, <5>1 DEF Accounts, TriedRests
          <5> QED
            BY <1>8, <1>9, <4>1, <5>2
        <4> QED
          BY <4>2, <4>3
      <3> QED
        BY <3>1, <3>2 DEF TriedRests
    <2>7. Holding(r)'
      BY <1>6 DEF Holding, Calling, GivenUp
    <2> QED
      BY <2>4, <2>5, <2>6, <2>7
  <1>11. Pinned(x) /\ Walking(x, c, cooldown)
    BY <1>1, <1>2 DEF Accounts
  <1>12. Extra(x) = 1 /\ Extra(y) = 0
    BY <1>1, <1>6 DEF Extra, GivenUp
  <1>13. Pinned(y)
    <2>1. ASSUME x.pin # NoEndpoint, x.owed \ x.tried # {}
          PROVE  x.budget - (x.tries + 1) >= Cardinality(TokenPairs(x.owed \ x.tried)) + 1 + 0
      <3>1. PICK n \in Nat : n = Cardinality(TokenPairs(x.owed \ x.tried))
        BY <1>8, ReserveFacts
      <3>2. x.budget - x.tries >= n + 1 + 1
        BY <1>1, <1>11, <1>12, <2>1, <3>1 DEF Pinned
      <3> QED
        BY <1>8, <3>1, <3>2
    <2> QED
      BY <1>6, <1>12, <2>1 DEF Pinned, GivenUp, ChosenPhases, AttemptPhases
  <1>14. Walking(y, c, cooldown)
    <2> SUFFICES ASSUME x.pin = NoEndpoint, x.owed \ x.tried # {}
                 PROVE  Walking(y, c, cooldown)
      BY <1>6 DEF Walking, GivenUp, Searching
    <2>1. PICK a \in {1, 2} : a = Allowance(x.owed, c)
      BY DEF Allowance
    <2>2. PICK n \in Int : n = Reserve(x.owed, x.tried, c)
      BY <1>8, ReserveFacts
    <2>3. Due(x, c, cooldown) = a + 1 - x.inARow
      BY <1>1, <2>1 DEF Due, Searching
    <2>4. /\ \A p \in x.owed \ x.tried : p[1] >= c
          /\ \A f \in Endpoints : f > c => cooldown[f] = 0
          /\ x.endpoint = c /\ e = c /\ cooldown[c] = 0 /\ x.inARow \in {1, 2}
          /\ x.inARow = 2 => c \notin KeyEndpoints \cup PoolsIn(x.owed)
          /\ x.budget - x.tries >= n + (a + 1 - x.inARow) + 1
      BY <1>1, <1>11, <1>12, <2>2, <2>3 DEF Walking, ChosenPhases, AttemptPhases, Searching
    <2>5. <<e, t>> \in x.owed
      BY <1>1, <1>2, <1>7 DEF Accounts, UsableOwed
    <2>6. x.inARow = 1
      BY <2>4, <2>5 DEF PoolsIn, TokenPairs
    <2>7. Due(y, c, cooldown) = a
      <3>1. Due(y, c, cooldown) = a - 0
        BY <1>6, <2>1, <2>4 DEF Due, GivenUp, Searching
      <3> QED
        BY <3>1
    <2>8. y.budget - y.tries >= n + a + 0
      BY <1>6, <1>8, <2>4, <2>6 DEF GivenUp
    <2>9. y.budget - y.tries >= Reserve(y.owed, y.tried, c) + Due(y, c, cooldown) + Extra(y)
      BY <1>6, <1>12, <2>2, <2>7, <2>8 DEF GivenUp
    <2>10. y.endpoint = c /\ c # NoEndpoint /\ c <= c /\ c \notin KeyEndpoints
      BY <1>6, <1>7, <1>8, <2>4 DEF GivenUp, Endpoints, NoEndpoint
    <2> QED
      BY <1>6, <2>4, <2>9, <2>10 DEF Walking, GivenUp, ChosenPhases, AttemptPhases, Searching
  <1>15. Accounts(r)'
    BY <1>1, <1>5, <1>6, <1>10, <1>13, <1>14 DEF Accounts
  <1>16. Underway(r)'
    BY <1>6 DEF Underway
  <1> QED
    BY <1>1, <1>2, <1>5, <1>6, <1>15, <1>16, WalkGoesOn DEF GivenUp

(* What is answered is over, or about to be. *)
LEMMA WalkAnswered ==
  ASSUME NEW r \in Requests, WalkStep(r),
         StreamOpens(r) \/ StreamEnds(r) \/ BodyServed(r) \/ PassOn(r)
  PROVE  WalkOK(r)'
  <1>1. CASE StreamOpens(r)
    <2>1. PICK x \in RequestStates : x = request[r] /\ x.phase = "out"
      BY <1>1, WalkTypes DEF WalkStep, StreamOpens, Answer
    <2>2. PICK y \in RequestStates : y = request'[r] /\ y = [x EXCEPT !.phase = "stream"]
      <3>1. request'[r] = [x EXCEPT !.phase = "stream"]
        BY <1>1, <2>1, WalkTypes DEF WalkStep, StreamOpens
      <3> QED
        BY <3>1 DEF RequestStates, Phases, AttemptPhases
    <2>3. /\ y.phase = "stream" /\ y.token = x.token /\ y.endpoint = x.endpoint
          /\ y.here = x.here /\ y.cut = x.cut /\ y.outcome = x.outcome
          /\ y.pin = x.pin /\ y.owed = x.owed /\ y.tried = x.tried
      BY <2>2 DEF RequestStates
    <2>4. /\ Accounts(r) /\ Underway(r) /\ Underway(r)'
          /\ UNCHANGED <<rows, life, cooldown, clearing, current>>
      BY <1>1, <2>1, <2>2, <2>3 DEF WalkStep, WalkOK, Underway, StreamOpens, storeVars, proxyVars
    <2>5. \A P : Usable(P)' = Usable(P) /\ Cooling(P)' = Cooling(P)
      BY <2>4, PoolsStay
    <2>6. Untried(r)' = Untried(r) /\ Concluded(r)' = Concluded(r)
      BY <2>1, <2>2, <2>3 DEF Untried, Concluded, Calling, Attempted
    <2>7. OwedStands(r)' /\ UsableOwed(r)'
      BY <2>1, <2>2, <2>3, <2>4, <2>5, <2>6 DEF Accounts, OwedStands, UsableOwed
    <2>8. TriedRests(r)'
      BY <2>4, <2>5, <2>6 DEF Accounts, TriedRests
    <2>9. Holding(r)'
      BY <2>1, <2>2, <2>3, <2>4, <2>5 DEF Accounts, Holding, Calling, Attempted
    <2>10. Pinned(y) /\ Walking(y, current, cooldown)
      BY <2>1, <2>3, <2>4 DEF Accounts, Pinned, Walking, ChosenPhases, AttemptPhases, Searching
    <2>11. Accounts(r)'
      BY <2>2, <2>4, <2>7, <2>8, <2>9, <2>10 DEF Accounts
    <2> QED
      BY <2>1, <2>2, <2>3, <2>4, <2>11, WalkGoesOn
  <1>2. ASSUME StreamEnds(r) \/ BodyServed(r) \/ PassOn(r) PROVE WalkOK(r)'
    <2>1. PICK o \in {"served", "passed"} : End(r, o)
      BY <1>2 DEF StreamEnds, BodyServed, PassOn, Credit
    <2>2. UNCHANGED clearing
      BY <1>2 DEF StreamEnds, BodyServed, PassOn, Credit
    <2>3. o \in Outcomes /\ o \notin TurnedAway
      BY DEF Outcomes, TurnedAway
    <2> QED
      BY <2>1, <2>2, <2>3, WalkEnds
  <1> QED
    BY <1>1, <1>2

(* What a request may use at first is what the budget is computed from. *)
LEMMA WalkBudget ==
  ASSUME cooldown = [e \in Endpoints |-> 0], NEW pin \in Endpoints \cup {NoEndpoint},
         NEW o, o = Owed(pin)
  PROVE  /\ o \in SUBSET Pairs
         /\ computeMaxRetries >= Cardinality(TokenPairs(o)) + 1
         /\ pin = NoEndpoint =>
               computeMaxRetries = Reserve(o, {}, 1) + Allowance(o, 1)
  <1>1. o \in SUBSET Pairs
    BY DEF Owed, Pairs
  <1>2. TokenPairs(o) \subseteq UsableTokens
    BY LoopAssumption DEF TokenPairs, Owed, UsableTokens
  <1>3. /\ IsFiniteSet(UsableTokens) /\ Cardinality(UsableTokens) \in Nat
        /\ IsFiniteSet(UsablePools) /\ Cardinality(UsablePools) \in Nat
        /\ Cardinality(UsablePools) <= N
    <2>1. IsFiniteSet(Endpoints) /\ Cardinality(Endpoints) = N
      BY FS_Interval, LoopAssumption DEF Endpoints
    <2>2. IsFiniteSet(Endpoints \X Tokens)
      BY <2>1, FS_Product, LoopAssumption
    <2>3. UsableTokens \subseteq Endpoints \X Tokens /\ UsablePools \subseteq Endpoints
      BY DEF UsableTokens, UsablePools
    <2>4. IsFiniteSet(UsableTokens) /\ IsFiniteSet(UsablePools)
      BY <2>1, <2>2, <2>3, FS_Subset
    <2>5. Cardinality(UsablePools) <= N
      BY <2>1, <2>3, FS_Subset
    <2> QED
      BY <2>4, <2>5, FS_CardinalityType
  <1>4. Cardinality(TokenPairs(o)) \in Nat /\ Cardinality(TokenPairs(o)) <= Cardinality(UsableTokens)
    BY <1>2, <1>3, FS_Subset, FS_CardinalityType
  <1>5. N \in Nat /\ N >= 1 /\ 1 \in Endpoints
    BY LoopAssumption DEF Endpoints
  <1>6. computeMaxRetries >= Cardinality(TokenPairs(o)) + 1
    BY <1>3, <1>4, <1>5 DEF computeMaxRetries
  <1>7. ASSUME pin = NoEndpoint
        PROVE  computeMaxRetries = Reserve(o, {}, 1) + Allowance(o, 1)
    <2>1. TokenPairs(o \ {}) = UsableTokens
      <3>1. \A e \in Endpoints : Usable(Pool[e]) \subseteq Pool[e] /\ Pool[e] \subseteq Tokens
        BY LoopAssumption DEF Usable
      <3>2. \A p \in UsableTokens : p[1] \in Endpoints \ KeyEndpoints
        BY <3>1, LoopAssumption DEF UsableTokens
      <3>3. UsableTokens \subseteq o
        BY <1>7, <3>1, <3>2 DEF UsableTokens, Owed
      <3> QED
        BY <1>2, <3>3 DEF TokenPairs, UsableTokens
    <2>2. PoolsIn(o) = UsablePools
      <3>1. TokenPairs(o) = UsableTokens
        BY <2>1
      <3>2. \A e \in Endpoints : (\E p \in UsableTokens : p[1] = e) <=> Usable(Pool[e]) # {}
        <4> TAKE e \in Endpoints
        <4>1. ASSUME NEW t \in Usable(Pool[e]) PROVE \E p \in UsableTokens : p[1] = e
          <5>1. t \in Tokens
            BY LoopAssumption DEF Usable
          <5>2. <<e, t>> \in UsableTokens /\ <<e, t>>[1] = e
            BY <4>1, <5>1 DEF UsableTokens
          <5> QED
            BY <5>2
        <4> QED
          BY <4>1 DEF UsableTokens
      <3> QED
        BY <3>1, <3>2 DEF PoolsIn, UsablePools
    <2>3. /\ IsFiniteSet(Ahead(o, 1)) /\ Cardinality(Ahead(o, 1)) \in Nat
          /\ Cardinality(UsablePools) =
                Cardinality(Ahead(o, 1)) + (IF 1 \in UsablePools THEN 1 ELSE 0)
      <3>1. IsFiniteSet(Ahead(o, 1)) /\ Cardinality(Ahead(o, 1)) \in Nat
        BY <1>1, CountFinite
      <3>2. \A e \in UsablePools : e \in Nat /\ e >= 1
        BY DEF UsablePools, Endpoints
      <3>3. CASE 1 \in UsablePools
        <4>1. UsablePools = Ahead(o, 1) \cup {1} /\ 1 \notin Ahead(o, 1)
          BY <2>2, <3>2, <3>3 DEF Ahead
        <4> QED
          BY <3>1, <3>3, <4>1, FS_AddElement
      <3>4. CASE 1 \notin UsablePools
        <4>1. UsablePools = Ahead(o, 1)
          BY <2>2, <3>2, <3>4 DEF Ahead
        <4> QED
          BY <3>1, <3>4, <4>1
      <3> QED
        BY <3>3, <3>4
    <2>4. PICK a \in {1, 2} : /\ a = Allowance(o, 1)
                              /\ Cardinality(UsablePools) = Cardinality(Ahead(o, 1)) + (2 - a)
      BY <2>2, <2>3 DEF Allowance
    <2>5. computeMaxRetries = 2 * N + (Cardinality(UsableTokens) - Cardinality(UsablePools))
      BY DEF computeMaxRetries
    <2>6. Reserve(o, {}, 1) =
            Cardinality(UsableTokens) + 2 * (N - 1) - Cardinality(Ahead(o, 1))
      BY <2>1 DEF Reserve
    <2> QED
      BY <1>3, <1>5, <2>3, <2>4, <2>5, <2>6
  <1> QED
    BY <1>1, <1>6, <1>7

(* The walk begins with the whole reserve. *)
LEMMA WalkBegins ==
  ASSUME NEW r \in Requests, WalkStep(r), Begin(r)
  PROVE  WalkOK(r)'
  <1>1. /\ request[r] = NewRequest /\ current = 1
        /\ cooldown = [e \in Endpoints |-> 0]
        /\ UNCHANGED <<rows, life, cooldown, clearing, current>>
    BY DEF WalkStep, WalkOK, Unbegun, Begin, storeVars, proxyVars
  <1>2. NewRequest \in RequestStates
    BY <1>1, WalkTypes DEF WalkStep
  <1>3. PICK pin, o, b :
          /\ pin \in Endpoints \cup {NoEndpoint}
          /\ o = Owed(pin) /\ b = computeMaxRetries
          /\ request'[r] = [NewRequest EXCEPT !.phase = "loop", !.pin = pin, !.budget = b, !.owed = o]
    <2>1. PICK pin \in Endpoints \cup {NoEndpoint} :
            request' = [request EXCEPT ![r].phase = "loop", ![r].pin = pin,
                                       ![r].budget = computeMaxRetries,
                                       ![r].owed = Owed(pin)]
      BY DEF Begin
    <2>2. request \in [Requests -> RequestStates]
      BY WalkTypes DEF WalkStep
    <2> QED
      BY <1>1, <2>1, <2>2
  <1>4. /\ o \in SUBSET Pairs /\ b \in Int
        /\ b >= Cardinality(TokenPairs(o)) + 1
        /\ pin = NoEndpoint => b = Reserve(o, {}, 1) + Allowance(o, 1)
    <2>1. b \in Int
      BY <1>3, BudgetType
    <2> QED
      BY <1>1, <1>3, <2>1, WalkBudget
  <1>5. PICK y : /\ y = request'[r]
                 /\ y.phase = "loop" /\ y.pin = pin /\ y.budget = b /\ y.owed = o
                 /\ y.here = TRUE /\ y.cut = FALSE /\ y.endpoint = NoEndpoint
                 /\ y.token = NoToken /\ y.tries = 0 /\ y.inARow = 0
                 /\ y.outcome = "none" /\ y.tried = {}
    BY <1>3 DEF NewRequest
  <1>6. \A e \in Endpoints : cooldown[e] = 0
    BY <1>1
  <1>7. \A P : Usable(P)' = Usable(P) /\ Cooling(P)' = Cooling(P)
    BY <1>1, PoolsStay
  <1>8. OwedStands(r)'
    <2>1. \A p \in o : /\ pin \in {NoEndpoint, p[1]}
                       /\ p[1] \in Endpoints
                       /\ p[1] \in KeyEndpoints => p[2] = NoToken
                       /\ p[1] \notin KeyEndpoints => /\ p[2] \in Usable(Pool[p[1]])
                                                      /\ p[2] \in Pool[p[1]]
      BY <1>3 DEF Owed, Usable
    <2>2. Untried(r)' = o
      BY <1>5 DEF Untried
    <2> QED
      BY <1>1, <1>5, <1>6, <1>7, <2>1, <2>2 DEF OwedStands
  <1>9. UsableOwed(r)'
    <2>1. ASSUME NEW e \in Endpoints, pin \in {NoEndpoint, e}, NEW t \in Usable(Pool[e])
          PROVE  <<e, t>> \in o
      <3>1. t \in Pool[e] /\ t \in Tokens /\ e \notin KeyEndpoints
        BY LoopAssumption DEF Usable
      <3> QED
        BY <1>3, <1>6, <2>1, <3>1 DEF Owed
    <2> QED
      BY <1>5, <1>7, <2>1 DEF UsableOwed
  <1>10. TriedRests(r)' /\ Holding(r)'
    BY <1>5 DEF TriedRests, Concluded, Holding, Calling
  <1>11. Extra(y) = 0 /\ TokenPairs(o \ {}) = TokenPairs(o)
    BY <1>5 DEF Extra, TokenPairs
  <1>12. Pinned(y)
    <2>1. Cardinality(TokenPairs(o)) \in Nat
      BY <1>4, CountFinite
    <2>2. b - 0 >= Cardinality(TokenPairs(o \ {})) + 1 + 0
      BY <1>4, <1>11, <2>1
    <2> QED
      BY <1>5, <1>11, <2>2 DEF Pinned, ChosenPhases, AttemptPhases
  <1>13. Walking(y, 1, cooldown)
    <2>1. 1 \in Endpoints /\ NoEndpoint = 0 /\ \A p \in o : p[1] >= 1
      <3>1. \A p \in o : p[1] \in Endpoints
        BY <1>4 DEF Pairs
      <3> QED
        BY <3>1, LoopAssumption DEF Endpoints, NoEndpoint
    <2>2. PICK a \in {1, 2} : a = Allowance(o, 1)
      BY DEF Allowance
    <2>3. Due(y, 1, cooldown) = a - 0
      BY <1>5, <1>6, <2>1, <2>2 DEF Due, Searching
    <2>4. PICK n \in Int : n = Reserve(o, {}, 1)
      BY <1>4, <2>1, ReserveFacts
    <2>5. pin = NoEndpoint => b - 0 >= n + Due(y, 1, cooldown) + 0
      BY <1>4, <2>2, <2>3, <2>4
    <2> QED
      BY <1>5, <1>6, <1>11, <2>1, <2>4, <2>5 DEF Walking, ChosenPhases, AttemptPhases, Searching
  <1>14. Accounts(r)'
    BY <1>1, <1>5, <1>8, <1>9, <1>10, <1>12, <1>13 DEF Accounts
  <1> QED
    BY <1>1, <1>5, <1>14 DEF WalkStep, WalkOK, Quiet, Unbegun, TurnedAway

(* Every step of a quiet walk keeps the invariant ... *)
LEMMA StepWalk ==
  ASSUME QuietWalk, IInv, WalkInv, [Next]_vars
  PROVE  WalkInv'
  <1> SUFFICES ASSUME NEW r \in Requests PROVE WalkOK(r)'
    BY DEF WalkInv
  <1>1. WalkStep(r) /\ Quiet(r)
    BY DEF WalkInv, WalkStep, WalkOK
  <1>2. CASE UNCHANGED vars
    <2>1. UNCHANGED <<request, current, cooldown, clearing, rows, life>>
      BY <1>2 DEF vars, storeVars, proxyVars
    <2>2. \A P : Usable(P)' = Usable(P) /\ Cooling(P)' = Cooling(P)
      BY <2>1, PoolsStay
    <2>3. Accounts(r) => Accounts(r)'
      BY <2>1, <2>2
         DEF Accounts, OwedStands, Untried, UsableOwed, TriedRests, Concluded, Calling,
             Attempted, Holding
    <2> QED
      BY <1>1, <2>1, <2>3 DEF WalkStep, WalkOK, Quiet, Unbegun, Underway
  <1>3. CASE Next
    <2>1. ~ Disturb /\ ~ Tick
      BY <1>1 DEF QuietWalk, Quiet, Disturb, HangUp, Switch, AddToken, ClearEndpoints,
                  ClearTokens, Tick
    <2>2. Begin(r) \/ Serve(r)
      BY <1>3, <2>1 DEF Next, QuietWalk
    <2>3. ~ PrepareFails(r) /\ ~ SendAbandoned(r) /\ ~ SendTransient(r) /\ ~ SendFails(r)
      BY <1>1 DEF QuietWalk, Quiet, PrepareFails, SendAbandoned, SendTransient, SendFails, Answer
    <2>4. ~ BodyFails(r) /\ ~ PaymentRequired(r) /\ ~ RetryableStatus(r) /\ ~ Unauthorized(r)
      BY <1>1 DEF QuietWalk, Quiet, BodyFails, PaymentRequired, RetryableStatus,
                  Unauthorized, Answer
    <2>5. CASE Begin(r) \/ Loop(r)
      BY <1>1, <2>5, WalkBegins, WalkTurnsAway, WalkPasses, WalkChooses, WalkRotates
         DEF Loop
    <2>6. CASE Prepare(r)
      BY <1>1, <2>3, <2>6, WalkPrepares, WalkCools, WalkSends DEF Prepare
    <2>7. CASE Conclude(r)
      BY <1>1, <2>3, <2>4, <2>7, WalkAnswered, WalkKeyLimited, WalkTokenLimited DEF Conclude
    <2> QED
      BY <2>2, <2>5, <2>6, <2>7 DEF Serve
  <1> QED
    BY <1>2, <1>3

(* ... which holds when the process has just started. *)
LEMMA InitWalk == Init => WalkInv
  <1> SUFFICES ASSUME Init, NEW r \in Requests PROVE WalkOK(r)
    BY DEF WalkInv
  <1>1. request[r] = NewRequest
    BY DEF Init
  <1> QED
    BY <1>1 DEF Init, NewRequest, WalkOK, Quiet, Unbegun, Underway, TurnedAway

(* The retry budget is big enough, for any number of endpoints, pools and    *)
(* tokens: a request that nobody disturbs is turned away only when it has    *)
(* called with every key and every token that was usable when it began,      *)
(* whatever the mixture of used-up quotas, dry pools and final answers on    *)
(* its way.                                                                  *)
THEOREM WalkTriesAll == QuietWalk => (Spec => []TurnedAwayAfterAll)
  <1> SUFFICES ASSUME QuietWalk PROVE Spec => []TurnedAwayAfterAll
    OBVIOUS
  <1>1. IInv /\ WalkInv /\ [Next]_vars => WalkInv'
    BY StepWalk
  <1>2. WalkInv => TurnedAwayAfterAll
    BY DEF WalkInv, WalkOK, TurnedAwayAfterAll
  <1>3. Spec => []IInv
    BY Invariance
  <1> QED
    BY InitWalk, <1>1, <1>2, <1>3, PTL DEF Spec
=============================================================================
