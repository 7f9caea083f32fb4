------------------------- MODULE AdminConfig_proofs -------------------------
(***************************************************************************)
(* Endpoint administration, for any names, requests and handlers: types    *)
(* and what the traffic is on, however the requests of the administrator   *)
(* overlap, and the rest as long as no two of them have.                   *)
(***************************************************************************)
EXTENDS AdminConfig, FiniteSetTheorems, TLAPS

-----------------------------------------------------------------------------
(* The order of a table.                                                     *)

\* A table's positions can be compared.
LEMMA BeforeOrders ==
  ASSUME NEW table, IsTable(table)
  PROVE  /\ DOMAIN table \subseteq Nat
         /\ IsFiniteSet(DOMAIN table)
         /\ \A i \in DOMAIN table : ~ Before(table, i, i)
         /\ \A i, j, k \in DOMAIN table :
                Before(table, i, j) /\ Before(table, j, k) => Before(table, i, k)
         /\ \A i, j \in DOMAIN table :
                i # j => Before(table, i, j) \/ Before(table, j, i)
  <1>1. DOMAIN table \subseteq Nat /\ \A i \in DOMAIN table : table[i].order \in Nat
    BY AdminAssumption DEF IsTable, Rows
  <1>2. IsFiniteSet(DOMAIN table)
    <2>1. IsFiniteSet(1..MaxEndpoints)
      BY FS_Interval, AdminAssumption
    <2> QED
      BY <2>1, FS_Subset DEF IsTable
  <1> DEFINE pos(i) == table[i].order
  <1>3. \A i \in DOMAIN table : i \in Nat /\ pos(i) \in Nat
    BY <1>1
  <1>4. \A i, j : Before(table, i, j) <=> pos(i) < pos(j) \/ (pos(i) = pos(j) /\ i < j)
    BY DEF Before
  <1> HIDE DEF pos
  <1>5. \A i, j, k \in DOMAIN table :
            Before(table, i, j) /\ Before(table, j, k) => Before(table, i, k)
    BY <1>3, <1>4
  <1>6. \A i, j \in DOMAIN table : i # j => Before(table, i, j) \/ Before(table, j, i)
    BY <1>3, <1>4
  <1>7. \A i \in DOMAIN table : ~ Before(table, i, i)
    BY <1>3, <1>4
  <1> QED
    BY <1>1, <1>2, <1>5, <1>6, <1>7

\* Every place from the first to the last is taken by exactly one row.
LEMMA PlaceExact ==
  ASSUME NEW table, IsTable(table)
  PROVE  LET n == Cardinality(DOMAIN table) IN
         /\ n \in Nat
         /\ \A id \in DOMAIN table : Place(table, id) \in 1..n
         /\ \A i, j \in DOMAIN table : Place(table, i) = Place(table, j) => i = j
         /\ \A k \in 1..n : \E id \in DOMAIN table : Place(table, id) = k
  <1> DEFINE D == DOMAIN table
             n == Cardinality(D)
             Firsts(id) == {i \in D : Before(table, i, id)}
             place == [id \in D |-> Place(table, id)]
  <1>1. IsFiniteSet(D) /\ n \in Nat
    BY BeforeOrders, FS_CardinalityType
  <1>2. ASSUME NEW id \in D
        PROVE  /\ IsFiniteSet(Firsts(id))
               /\ Cardinality(Firsts(id)) \in 0..(n - 1)
    <2>1. Firsts(id) \subseteq D /\ Firsts(id) # D
      BY BeforeOrders
    <2>2. IsFiniteSet(Firsts(id)) /\ Cardinality(Firsts(id)) <= n /\ Cardinality(Firsts(id)) # n
      BY <1>1, <2>1, FS_Subset
    <2>3. Cardinality(Firsts(id)) \in Nat
      BY <2>2, FS_CardinalityType
    <2> HIDE DEF n, Firsts
    <2> QED
      BY <1>1, <2>2, <2>3
  <1>3. \A id \in D : Place(table, id) \in 1..n
    <2> TAKE id \in D
    <2>1. Place(table, id) = Cardinality(Firsts(id)) + 1
      BY DEF Place
    <2> HIDE DEF n, Firsts
    <2> QED
      BY <1>1, <1>2, <2>1
  <1>4. ASSUME NEW i \in D, NEW j \in D, Before(table, i, j)
        PROVE  Place(table, i) # Place(table, j)
    <2>1. Firsts(i) \subseteq Firsts(j) /\ i \in Firsts(j) /\ i \notin Firsts(i)
      BY <1>4, BeforeOrders
    <2>2. Cardinality(Firsts(i)) # Cardinality(Firsts(j))
      BY <1>2, <2>1, FS_Subset
    <2>3. Cardinality(Firsts(i)) \in Nat /\ Cardinality(Firsts(j)) \in Nat
      BY <1>2, FS_CardinalityType
    <2>4. Place(table, i) = Cardinality(Firsts(i)) + 1 /\ Place(table, j) = Cardinality(Firsts(j)) + 1
      BY DEF Place
    <2> HIDE DEF Firsts
    <2> QED
      BY <2>2, <2>3, <2>4
  <1>5. \A i, j \in D : Place(table, i) = Place(table, j) => i = j
    BY <1>4, BeforeOrders
  <1>6. \A k \in 1..n : \E id \in D : Place(table, id) = k
    <2> HIDE DEF n
    <2>1. place \in Injection(D, 1..n)
      BY <1>3, <1>5 DEF Injection, IsInjective
    <2>2. IsFiniteSet(1..n) /\ Cardinality(1..n) = n
      BY <1>1, FS_Interval
    <2>3. place \in Surjection(D, 1..n)
      BY <2>1, <2>2, FS_Injection DEF n
    <2> QED
      BY <2>3 DEF Surjection
  <1> QED
    BY <1>1, <1>3, <1>5, <1>6

(* GetEndpoints lists every row once. *)
LEMMA OrderEnumerates ==
  ASSUME NEW table, IsTable(table)
  PROVE  LET n == Cardinality(DOMAIN table) IN
         /\ n \in Nat
         /\ Order(table) \in [1..n -> DOMAIN table]
         /\ \A k \in 1..n : Place(table, Order(table)[k]) = k
         /\ \A id \in DOMAIN table : Place(table, id) \in 1..n /\ Order(table)[Place(table, id)] = id
  <1> DEFINE n == Cardinality(DOMAIN table)
  <1>1. \A k \in 1..n : /\ Order(table)[k] \in DOMAIN table
                         /\ Place(table, Order(table)[k]) = k
    BY PlaceExact DEF Order
  <1>2. Order(table) \in [1..n -> DOMAIN table]
    BY <1>1 DEF Order
  <1>3. \A id \in DOMAIN table : Place(table, id) \in 1..n /\ Order(table)[Place(table, id)] = id
    BY <1>1, PlaceExact
  <1> QED
    BY <1>1, <1>2, <1>3, PlaceExact

\* A function on 1..n is a sequence.
LEMMA FunctionIsSeq ==
  ASSUME NEW N \in Nat, NEW S, NEW g \in [1..N -> S]
  PROVE  g \in Seq(S) /\ Len(g) = N
  OBVIOUS

(* An element of a sequence is of its kind.                                  *)
LEMMA ElementIn ==
  ASSUME NEW S, NEW q \in Seq(S), NEW k \in 1..Len(q)
  PROVE  q[k] \in S
  OBVIOUS

(* What it lists is what the rows say, each name once. *)
LEMMA ListingLists ==
  ASSUME NEW table, IsTable(table)
  PROVE  LET list == Listing(table) IN
         /\ list \in Listings
         /\ \A k \in 1..Len(list) : \E id \in DOMAIN table :
                list[k] = [name |-> table[id].name, enabled |-> table[id].enabled]
         /\ \A id \in DOMAIN table : \E k \in 1..Len(list) :
                list[k] = [name |-> table[id].name, enabled |-> table[id].enabled]
         /\ NamesUnique(table) =>
                \A j, k \in 1..Len(list) : list[j].name = list[k].name => j = k
  <1> DEFINE n == Cardinality(DOMAIN table)
             list == Listing(table)
             entry(id) == [name |-> table[id].name, enabled |-> table[id].enabled]
  <1>1. n \in Nat /\ Order(table) \in [1..n -> DOMAIN table]
    BY OrderEnumerates
  <1>2. Len(Order(table)) = n
    BY <1>1
  <1>3. list = [k \in 1..n |-> entry(Order(table)[k])]
    BY <1>2 DEF Listing
  <1>4. \A id \in DOMAIN table : entry(id) \in [name : Names, enabled : BOOLEAN]
    BY DEF IsTable, Rows
  <1>5. list \in [1..n -> [name : Names, enabled : BOOLEAN]]
    <2> HIDE DEF entry, n, list
    <2> QED
      BY <1>1, <1>3, <1>4
  <1>6. list \in Listings /\ Len(list) = n
    <2> HIDE DEF entry, n, list
    <2> QED
      BY <1>1, <1>5, FunctionIsSeq DEF Listings
  <1>7. \A k \in 1..n : Order(table)[k] \in DOMAIN table /\ list[k] = entry(Order(table)[k])
    <2> HIDE DEF entry, n, list
    <2> QED
      BY <1>1, <1>3
  <1>8. \A id \in DOMAIN table : \E k \in 1..n : list[k] = entry(id)
    <2> HIDE DEF entry, list
    <2> QED
      BY <1>7, OrderEnumerates
  <1>9. ASSUME NamesUnique(table), NEW j \in 1..n, NEW k \in 1..n, list[j].name = list[k].name
        PROVE  j = k
    <2>1. table[Order(table)[j]].name = table[Order(table)[k]].name
      <3>1. list[j] = entry(Order(table)[j]) /\ list[k] = entry(Order(table)[k])
        BY <1>7, <1>9
      <3>2. \A id : entry(id).name = table[id].name
        OBVIOUS
      <3> HIDE DEF entry, list
      <3> QED
        BY <1>9, <3>1, <3>2
    <2>2. Order(table)[j] = Order(table)[k]
      BY <1>7, <1>9, <2>1 DEF NamesUnique
    <2> QED
      BY <2>2, OrderEnumerates
  <1> QED
    BY <1>6, <1>7, <1>8, <1>9

\* A set that is counted up to N has N elements.
LEMMA CountTo ==
  ASSUME NEW N \in Nat, NEW S, NEW g \in Bijection(1..N, S)
  PROVE  Cardinality(S) = N
  BY FS_CountingElements DEF ExistsBijection

(* Rows that are numbered from nought on are listed by their numbers. *)
LEMMA OrderByNumber ==
  ASSUME NEW table, IsTable(table), NEW n \in Nat, NEW q \in [1..n -> DOMAIN table],
         \A id \in DOMAIN table : \E k \in 1..n : q[k] = id,
         \A k \in 1..n : table[q[k]].order = k - 1
  PROVE  Order(table) = q
  <1>1. \A j, k \in 1..n : q[j] = q[k] => j = k
    <2> TAKE j, k \in 1..n
    <2> HAVE q[j] = q[k]
    <2>1. j - 1 = k - 1
      OBVIOUS
    <2> QED
      BY <2>1
  <1>2. Cardinality(DOMAIN table) = n
    <2>1. q \in Bijection(1..n, DOMAIN table)
      BY <1>1 DEF Bijection, Injection, Surjection, IsInjective
    <2> QED
      BY <2>1, CountTo
  <1>3. ASSUME NEW k \in 1..n PROVE Place(table, q[k]) = k
    <2> DEFINE firsts == {i \in DOMAIN table : Before(table, i, q[k])}
               f == [i \in 1..(k - 1) |-> q[i]]
    <2>1. k - 1 \in Nat /\ \A i \in 1..(k - 1) : i \in 1..n
      OBVIOUS
    <2>2. \A i \in 1..n : Before(table, q[i], q[k]) <=> i < k
      <3> TAKE i \in 1..n
      <3>1. table[q[i]].order = i - 1 /\ table[q[k]].order = k - 1
        OBVIOUS
      <3>2. i = k => q[i] = q[k]
        OBVIOUS
      <3>3. q[k] \in Nat
        BY BeforeOrders
      <3>4. Before(table, q[i], q[k]) <=> (i - 1 < k - 1 \/ (i - 1 = k - 1 /\ q[i] < q[k]))
        BY <3>1 DEF Before
      <3>5. i = k => ~ (q[i] < q[k])
        BY <3>2, <3>3
      <3>6. i \in Nat /\ k \in Nat
        OBVIOUS
      <3> HIDE DEF firsts, f
      <3> QED
        BY <3>4, <3>5, <3>6
    <2>3. f \in [1..(k - 1) -> firsts]
      BY <2>1, <2>2
    <2>4. \A x \in firsts : \E i \in 1..(k - 1) : f[i] = x
      <3> TAKE x \in firsts
      <3>1. PICK i \in 1..n : q[i] = x
        OBVIOUS
      <3>2. i \in 1..(k - 1)
        BY <2>2, <3>1
      <3> QED
        BY <3>1, <3>2
    <2>5. \A i, j \in 1..(k - 1) : f[i] = f[j] => i = j
      BY <1>1, <2>1
    <2>6. Cardinality(firsts) = k - 1
      <3> DEFINE m == k - 1
      <3> HIDE DEF firsts, f
      <3>1. m \in Nat /\ f \in Bijection(1..m, firsts)
        BY <2>1, <2>3, <2>4, <2>5 DEF Bijection, Injection, Surjection, IsInjective
      <3> HIDE DEF m
      <3>2. Cardinality(firsts) = m
        BY <3>1, CountTo
      <3> QED
        BY <3>2 DEF m
    <2> QED
      BY <2>6 DEF Place
  <1>4. ASSUME NEW k \in 1..n PROVE Order(table)[k] = q[k]
    <2>1. q[k] \in DOMAIN table /\ Place(table, q[k]) = k
      BY <1>3
    <2> QED
      BY <1>2, <2>1, OrderEnumerates
  <1>5. Order(table) \in [1..n -> DOMAIN table]
    BY <1>2, OrderEnumerates
  <1> QED
    BY <1>4, <1>5

-----------------------------------------------------------------------------
(* Types.                                                                    *)

Target(req) == IF req.kind = "edit" THEN req.to ELSE req.name

\* What is known of a handler at its step; h decides which requests it takes.
Typed(h, s) ==
    /\ "step" \in DOMAIN s /\ s.step \in Steps
    /\ s.step \notin {"idle", "store", "apply", "saving"} =>
           "request" \in DOMAIN s /\ s.request \in Asked(h)
    /\ s.step = "read" => s.request.kind \in {"create", "edit", "toggle", "reorder"}
    /\ s.step = "insert" => s.request.kind = "create"
    /\ s.step = "write" => s.request.kind \in {"edit", "toggle"} /\ s.request.name \in NamesIn(s.seen)
    /\ s.step = "reorder" => s.request.kind = "reorder"
    /\ s.step = "delete" => s.request.kind = "delete"
    /\ s.step = "switch" => s.request.kind = "switch"
    /\ s.step = "forget" => s.request.kind \in {"edit", "delete"}
    /\ s.step = "key" => s.request.kind \in {"create", "edit"}
    /\ s.step = "port" => s.request.kind \in {"port", "config"}
    /\ s.step = "lock" => s.request.kind = "port"
    /\ s.step \in {"insert", "write", "reorder"} =>
           /\ "seen" \in DOMAIN s /\ IsTable(s.seen) /\ NamesUnique(s.seen)
           /\ "next" \in DOMAIN s /\ s.next \in Nat \ {0}
    /\ s.step \in {"store", "apply", "saving"} => "config" \in DOMAIN s /\ s.config \in Configs
    /\ s.step = "saving" => /\ "next" \in DOMAIN s /\ s.next \in Nat \ {0}
                            /\ "names" \in DOMAIN s /\ s.names \subseteq Names

HandlersTyped == DOMAIN handler = Handlers /\ \A h \in Handlers : Typed(h, handler[h])

TableOK ==
    /\ IsTable(endpoints) /\ DOMAIN endpoints \subseteq 1..lastId /\ lastId \in 0..MaxEndpoints
    /\ NamesUnique(endpoints)

CopiesOK ==
    /\ pool \subseteq Names \X Keys
    /\ storedPort \in Ports
    /\ adminConfig \in Configs
    /\ proxyConfig \in Listings
    /\ marked \subseteq Names
    /\ overlaps \in Nat

TInv == TableOK /\ CopiesOK /\ HandlersTyped

(* What the fields of a request are. *)
LEMMA RequestFields ==
  ASSUME NEW h \in Handlers, NEW req \in Asked(h)
  PROVE  /\ req.kind \in RequestKinds
         /\ req.kind \in {"create", "edit"} => req.key \in Keys \cup {NoKey}
         /\ req.kind \in {"create", "edit", "toggle"} => req.enabled \in BOOLEAN
         /\ req.kind \in {"create", "edit", "toggle", "delete", "switch"} => req.name \in Names
         /\ req.kind = "edit" => req.to \in Names
         /\ req.kind = "port" => req.port \in Ports
         /\ req.kind = "config" => req.port \in Ports \cup {NoPort}
         /\ req.kind = "reorder" =>
                /\ \E n \in 0..MaxEndpoints : req.names \in [1..n -> Names]
                /\ IsInjective(req.names)
  <1>1. req \in Requests /\ (req.kind = "reorder" => IsInjective(req.names))
    BY DEF Asked
  <1>2. CASE req \in [kind : {"create"}, name : Names, enabled : BOOLEAN, key : Keys \cup {NoKey}]
    BY <1>2 DEF RequestKinds
  <1>3. CASE req \in [kind : {"edit"}, name : Names, to : Names, enabled : BOOLEAN, key : Keys \cup {NoKey}]
    BY <1>3 DEF RequestKinds
  <1>4. CASE req \in [kind : {"toggle"}, name : Names, enabled : BOOLEAN]
    BY <1>4 DEF RequestKinds
  <1>5. CASE req \in [kind : {"delete", "switch"}, name : Names]
    BY <1>5 DEF RequestKinds
  <1>6. CASE req \in [kind : {"reorder"}, names : UNION {[1..n -> Names] : n \in 0..MaxEndpoints}]
    <2>1. req.kind = "reorder" /\ req.names \in UNION {[1..n -> Names] : n \in 0..MaxEndpoints}
      BY <1>6
    <2> QED
      BY <1>1, <2>1 DEF RequestKinds
  <1>7. CASE req \in [kind : {"port"}, port : Ports]
    BY <1>7 DEF RequestKinds
  <1>8. CASE req \in [kind : {"config"}, port : Ports \cup {NoPort}]
    BY <1>8 DEF RequestKinds
  <1>9. CASE req \in [kind : {"level"}]
    BY <1>9 DEF RequestKinds
  <1> QED
    BY <1>1, <1>2, <1>3, <1>4, <1>5, <1>6, <1>7, <1>8, <1>9 DEF Requests

(* Looking a name up. *)
LEMMA IdOfName ==
  ASSUME NEW table, NEW n \in NamesIn(table)
  PROVE  IdOf(table, n) \in DOMAIN table /\ table[IdOf(table, n)].name = n
  BY DEF IdOf, NamesIn

(* A handler that goes on to another step keeps what it knows. *)
LEMMA Going ==
  ASSUME HandlersTyped, NEW h \in Handlers, NEW step, Goto(h, step)
  PROVE  /\ DOMAIN handler' = Handlers
         /\ handler'[h].step = step /\ DOMAIN handler'[h] = DOMAIN handler[h]
         /\ \A f \in DOMAIN handler[h] \ {"step"} : handler'[h][f] = handler[h][f]
         /\ \A g \in Handlers \ {h} : handler'[g] = handler[g]
  BY DEF Goto, HandlersTyped, Typed

\* What is typed for one handler is for all.
LEMMA OneMoves ==
  ASSUME HandlersTyped, NEW h \in Handlers, DOMAIN handler' = Handlers,
         \A g \in Handlers \ {h} : handler'[g] = handler[g], Typed(h, handler'[h])
  PROVE  HandlersTyped'
  <1> SUFFICES ASSUME NEW g \in Handlers PROVE Typed(g, handler'[g])
    BY DEF HandlersTyped, Typed
  <1>1. CASE g = h
    BY <1>1
  <1>2. CASE g # h
    BY <1>2 DEF HandlersTyped
  <1> QED
    BY <1>1, <1>2

(* A handler that is done is idle, and no other has moved.                   *)
LEMMA DoneMoves ==
  ASSUME HandlersTyped, NEW h \in Handlers, Done(h)
  PROVE  HandlersTyped' /\ handler'[h] = Idle /\ \A g \in Handlers \ {h} : handler'[g] = handler[g]
  <1>1. /\ DOMAIN handler' = Handlers /\ handler'[h] = Idle
        /\ \A g \in Handlers \ {h} : handler'[g] = handler[g]
    BY DEF Done, HandlersTyped
  <1>2. Typed(h, Idle)
    BY DEF Typed, Idle, Steps
  <1> QED
    BY <1>1, <1>2, OneMoves

-----------------------------------------------------------------------------
(* The table's operations.                                                   *)

Owned == \A owned \in pool : owned[1] \in NamesIn(endpoints)

(* SaveEndpoint: a new row under a free name. *)
LEMMA InsertKeeps ==
  ASSUME TableOK, NEW row \in Rows, row.name \notin NamesIn(endpoints), InsertRow(row)
  PROVE  TableOK' /\ row.name \in NamesIn(endpoints)' /\ NamesIn(endpoints) \subseteq NamesIn(endpoints)'
  <1>1. /\ lastId' = lastId + 1 /\ lastId + 1 \in 1..MaxEndpoints
        /\ lastId + 1 \notin DOMAIN endpoints
    BY AdminAssumption DEF TableOK, InsertRow
  <1>2. /\ DOMAIN endpoints' = DOMAIN endpoints \cup {lastId + 1}
        /\ endpoints'[lastId + 1] = row
        /\ \A i \in DOMAIN endpoints : endpoints'[i] = endpoints[i]
    BY <1>1 DEF InsertRow, WithRow
  <1>3. IsTable(endpoints)' /\ (DOMAIN endpoints \subseteq 1..lastId)' /\ lastId' \in 0..MaxEndpoints
    <2>1. 1..lastId \subseteq 1..lastId'
      BY <1>1 DEF TableOK
    <2>2. lastId + 1 \in 1..lastId' /\ lastId' \in 0..MaxEndpoints
      BY <1>1 DEF TableOK
    <2> QED
      BY <1>1, <1>2, <2>1, <2>2 DEF TableOK, IsTable
  <1>4. NamesUnique(endpoints)'
    BY <1>1, <1>2 DEF TableOK, NamesUnique, NamesIn
  <1> QED
    BY <1>2, <1>3, <1>4 DEF TableOK, NamesIn

(* UpdateEndpoint: a row changes, its name at most to a free one, and a pool goes along. *)
LEMMA UpdateKeeps ==
  ASSUME TableOK, pool \subseteq Names \X Keys, NEW id, NEW row \in Rows,
         CanWrite(id, row), UpdateRow(id, row)
  PROVE  /\ TableOK' /\ pool' \subseteq Names \X Keys
         /\ row.name \in NamesIn(endpoints)'
         /\ DOMAIN endpoints' = DOMAIN endpoints /\ endpoints'[id] = row
         /\ \A i \in DOMAIN endpoints \ {id} : endpoints'[i] = endpoints[i]
         /\ Owned => Owned'
  <1>1. /\ id \in DOMAIN endpoints
        /\ \A i \in DOMAIN endpoints \ {id} : endpoints[i].name # row.name
    BY DEF CanWrite
  <1>2. /\ DOMAIN endpoints' = DOMAIN endpoints /\ endpoints'[id] = row
        /\ \A i \in DOMAIN endpoints \ {id} : endpoints'[i] = endpoints[i]
    BY <1>1 DEF UpdateRow, WithRow
  <1>3. IsTable(endpoints)' /\ UNCHANGED lastId
    BY <1>2 DEF TableOK, IsTable, UpdateRow
  <1>4. NamesUnique(endpoints)'
    BY <1>1, <1>2 DEF TableOK, NamesUnique
  <1>5. TableOK' /\ row.name \in NamesIn(endpoints)'
    BY <1>1, <1>2, <1>3, <1>4 DEF TableOK, NamesIn
  <1>6. \A new \in pool' : \E old \in pool :
            new = IF old[1] = endpoints[id].name THEN <<row.name, old[2]>> ELSE old
    BY DEF UpdateRow, RenamePool
  <1>7. row.name \in Names
    BY DEF Rows
  <1>8. pool' \subseteq Names \X Keys
    BY <1>6, <1>7
  <1>9. ASSUME Owned PROVE Owned'
    <2> SUFFICES ASSUME NEW new \in pool' PROVE new[1] \in NamesIn(endpoints)'
      BY DEF Owned
    <2>1. PICK old \in pool : new = IF old[1] = endpoints[id].name THEN <<row.name, old[2]>> ELSE old
      BY <1>6
    <2>2. CASE old[1] = endpoints[id].name
      BY <1>5, <2>1, <2>2
    <2>3. CASE old[1] # endpoints[id].name
      <3>1. PICK i \in DOMAIN endpoints : endpoints[i].name = old[1]
        BY <1>9 DEF Owned, NamesIn
      <3>2. endpoints'[i].name = old[1] /\ i \in DOMAIN endpoints'
        BY <1>2, <2>3, <3>1
      <3> QED
        BY <2>1, <2>3, <3>2 DEF NamesIn
    <2> QED
      BY <2>2, <2>3
  <1> QED
    BY <1>2, <1>5, <1>8, <1>9

(* DeleteEndpoint: a row and its pool go. *)
LEMMA DeleteKeeps ==
  ASSUME TableOK, pool \subseteq Names \X Keys, NEW n, DeleteRow(n)
  PROVE  TableOK' /\ pool' \subseteq Names \X Keys /\ (Owned => Owned')
  <1>1. /\ DOMAIN endpoints' = {i \in DOMAIN endpoints : endpoints[i].name # n}
        /\ \A i \in DOMAIN endpoints' : endpoints'[i] = endpoints[i]
    BY DEF DeleteRow, Without
  <1>2. TableOK'
    BY <1>1 DEF TableOK, IsTable, NamesUnique, DeleteRow
  <1>3. pool' \subseteq pool /\ \A owned \in pool' : owned[1] # n
    BY DEF DeleteRow
  <1>4. Owned => Owned'
    BY <1>1, <1>3 DEF Owned, NamesIn
  <1> QED
    BY <1>2, <1>3, <1>4

(* A reload takes a list of endpoints from the table. *)
LEMMA LoadedType == TableOK => Listing(endpoints) \in Listings
  BY ListingLists DEF TableOK

-----------------------------------------------------------------------------
(* Type correctness.                                                         *)

LEMMA EditedRowType ==
  ASSUME HandlersTyped, NEW h \in Handlers, At(h, "write")
  PROVE  /\ EditedRow(h) \in Rows
         /\ Request(h).kind = "edit" => EditedRow(h).name = Request(h).to
  <1> DEFINE req == Request(h)
             old == handler[h].seen[IdOf(handler[h].seen, req.name)]
  <1>1. /\ req \in Asked(h) /\ req.kind \in {"edit", "toggle"}
        /\ IsTable(handler[h].seen) /\ req.name \in NamesIn(handler[h].seen)
    BY DEF HandlersTyped, Typed, At, Request
  <1>2. old \in Rows
    BY <1>1, IdOfName DEF IsTable
  <1>3. req.enabled \in BOOLEAN /\ (req.kind = "edit" => req.to \in Names)
    BY <1>1, RequestFields
  <1> HIDE DEF old, req
  <1>4. EditedRow(h) = IF req.kind = "edit" THEN [old EXCEPT !.name = req.to, !.enabled = req.enabled]
                       ELSE [old EXCEPT !.enabled = req.enabled]
    BY DEF EditedRow, old, req
  <1>5. EditedRow(h) \in Rows /\ (req.kind = "edit" => EditedRow(h).name = req.to)
    BY <1>2, <1>3, <1>4 DEF Rows
  <1> QED
    BY <1>5 DEF req

\* A handler that goes from one step to another that needs nothing but the request.
LEMMA GoingTyped ==
  ASSUME HandlersTyped, NEW h \in Handlers, NEW step, Goto(h, step),
         handler[h].step \notin {"idle", "store", "apply", "saving"},
         \/ step \in {"load", "save"}
         \/ step = "key" /\ Request(h).kind \in {"create", "edit"}
         \/ step = "forget" /\ Request(h).kind \in {"edit", "delete"}
         \/ step = "port" /\ Request(h).kind \in {"port", "config"}
  PROVE  HandlersTyped' /\ handler'[h].request = Request(h)
  <1>1. "request" \in DOMAIN handler[h] /\ Request(h) \in Asked(h) /\ "step" \in DOMAIN handler[h]
    BY DEF HandlersTyped, Typed, Request
  <1>2. /\ handler'[h].step = step /\ "step" \in DOMAIN handler'[h]
        /\ "request" \in DOMAIN handler'[h] /\ handler'[h].request = Request(h)
    BY <1>1, Going DEF Request
  <1>3. Typed(h, handler'[h])
    BY <1>1, <1>2 DEF Typed, Steps
  <1> QED
    BY <1>2, <1>3, Going, OneMoves

(* The steps that change the table. *)
LEMMA TableStepsTyped ==
  ASSUME TInv, NEW h \in Handlers
  PROVE  /\ CreateEndpoint(h) => TInv'
         /\ UpdateEndpoint(h) => TInv'
         /\ DeleteEndpoint(h) => TInv'
         /\ ReorderNext(h) => TInv'
  <1> USE DEF TInv, CopiesOK
  <1>0. Typed(h, handler[h])
    BY DEF HandlersTyped
  <1>1. ASSUME CreateEndpoint(h) PROVE TInv'
    <2> DEFINE row == [name |-> Request(h).name, enabled |-> Request(h).enabled,
                       order |-> Cardinality(DOMAIN handler[h].seen)]
    <2>1. handler[h].step = "insert" /\ Request(h) \in Asked(h) /\ Request(h).kind = "create"
      BY <1>0, <1>1 DEF CreateEndpoint, At, Typed, Request
    <2>2. Cardinality(DOMAIN handler[h].seen) \in Nat
      BY <1>0, <2>1, BeforeOrders, FS_CardinalityType DEF Typed
    <2>3. row \in Rows
      BY <2>1, <2>2, RequestFields DEF Rows
    <2>4. TableOK'
      BY <1>1, <2>3, InsertKeeps DEF CreateEndpoint
    <2>5. HandlersTyped'
      BY <1>1, <2>1, GoingTyped DEF CreateEndpoint
    <2> QED
      BY <1>1, <2>4, <2>5 DEF CreateEndpoint, proxyVars
  <1>2. ASSUME UpdateEndpoint(h) PROVE TInv'
    <2>1. handler[h].step = "write" /\ Request(h).kind \in {"edit", "toggle"}
      BY <1>0, <1>2 DEF UpdateEndpoint, At, Typed, Request
    <2>2. TableOK' /\ pool' \subseteq Names \X Keys
      BY <1>2, EditedRowType, UpdateKeeps DEF UpdateEndpoint
    <2>3. HandlersTyped'
      <3>1. \/ Goto(h, "load")
            \/ Request(h).kind = "edit" /\ (Goto(h, "forget") \/ Goto(h, "key"))
        BY <1>2, <2>1 DEF UpdateEndpoint
      <3> QED
        BY <2>1, <3>1, GoingTyped
    <2> QED
      BY <1>2, <2>2, <2>3 DEF UpdateEndpoint, UpdateRow, proxyVars
  <1>3. ASSUME DeleteEndpoint(h) PROVE TInv'
    <2>1. handler[h].step = "delete" /\ Request(h).kind = "delete"
      BY <1>0, <1>3 DEF DeleteEndpoint, At, Typed, Request
    <2>2. TableOK' /\ pool' \subseteq Names \X Keys
      BY <1>3, DeleteKeeps DEF DeleteEndpoint
    <2>3. HandlersTyped'
      BY <1>3, <2>1, GoingTyped DEF DeleteEndpoint
    <2> QED
      BY <1>3, <2>2, <2>3 DEF DeleteEndpoint, DeleteRow, proxyVars
  <1>4. ASSUME ReorderNext(h) PROVE TInv'
    <2> DEFINE k == handler[h].next
               seen == handler[h].seen
               n == Request(h).names[k]
               row == [seen[IdOf(seen, n)] EXCEPT !.order = k - 1]
    <2>1. /\ handler[h].step = "reorder" /\ IsTable(seen) /\ k \in Nat \ {0}
      BY <1>0, <1>4 DEF ReorderNext, At, Typed
    <2>2. ASSUME n \in NamesIn(seen) /\ CanWrite(IdOf(seen, n), row)
          PROVE  TableOK' /\ pool' \subseteq Names \X Keys /\ UNCHANGED storedPort
      <3>1. seen[IdOf(seen, n)] \in Rows
        BY <2>1, <2>2, IdOfName DEF IsTable
      <3>2. row \in Rows
        BY <2>1, <3>1 DEF Rows
      <3>3. UpdateRow(IdOf(seen, n), row)
        BY <1>4, <2>2 DEF ReorderNext
      <3> HIDE DEF row, seen, n, k
      <3>4. TableOK' /\ pool' \subseteq Names \X Keys
        BY <2>2, <3>2, <3>3, UpdateKeeps
      <3>5. UNCHANGED storedPort
        BY <3>3 DEF UpdateRow
      <3> QED
        BY <3>4, <3>5
    <2>3. ASSUME ~ (n \in NamesIn(seen) /\ CanWrite(IdOf(seen, n), row))
          PROVE  TableOK' /\ pool' \subseteq Names \X Keys /\ UNCHANGED storedPort
      BY <1>4, <2>3 DEF ReorderNext, tableVars, TableOK
    <2>4. TableOK' /\ pool' \subseteq Names \X Keys /\ UNCHANGED storedPort
      BY <2>2, <2>3
    <2>5. HandlersTyped'
      <3>1. handler' = [handler EXCEPT ![h].next = k + 1]
        BY <1>4 DEF ReorderNext
      <3>2. /\ DOMAIN handler' = Handlers /\ \A g \in Handlers \ {h} : handler'[g] = handler[g]
            /\ DOMAIN handler'[h] = DOMAIN handler[h] /\ handler'[h].next = k + 1
            /\ \A f \in DOMAIN handler[h] \ {"next"} : handler'[h][f] = handler[h][f]
        BY <1>0, <2>1, <3>1 DEF HandlersTyped, Typed
      <3>3. k + 1 \in Nat \ {0}
        BY <2>1
      <3> HIDE DEF k
      <3>4. Typed(h, handler'[h])
        BY <1>0, <2>1, <3>2, <3>3 DEF Typed
      <3> QED
        BY <3>2, <3>4, OneMoves
    <2> QED
      BY <1>4, <2>4, <2>5 DEF ReorderNext, proxyVars
  <1> QED
    BY <1>1, <1>2, <1>3, <1>4

(* The steps of a save. *)
LEMMA SaveStepsTyped ==
  ASSUME TInv, NEW h \in Handlers
  PROVE  /\ BeginSave(h) => TInv'
         /\ SaveKnown(h) => TInv'
         /\ SaveNew(h) => TInv'
         /\ SaveDeletes(h) => TInv'
         /\ EndSave(h) => TInv'
  <1> USE DEF TInv, CopiesOK
  <1>0. Typed(h, handler[h]) /\ DOMAIN handler = Handlers
    BY DEF HandlersTyped
  <1>1. ASSUME BeginSave(h) PROVE TInv'
    <2> DEFINE s == [step |-> "saving", config |-> adminConfig, next |-> 1, names |-> NamesIn(endpoints)]
    <2>1. NamesIn(endpoints) \subseteq Names
      BY DEF TableOK, IsTable, Rows, NamesIn
    <2>2. Typed(h, s)
      BY <2>1 DEF Typed, Steps
    <2>3. handler'[h] = s /\ DOMAIN handler' = Handlers /\ \A g \in Handlers \ {h} : handler'[g] = handler[g]
      BY <1>0, <1>1 DEF BeginSave
    <2> HIDE DEF s
    <2>4. HandlersTyped'
      BY <2>2, <2>3, OneMoves
    <2> QED
      BY <1>1, <2>4 DEF BeginSave, tableVars, proxyVars, TableOK
  <1>2. ASSUME Saving(h)
        PROVE  /\ handler[h].step = "saving" /\ handler[h].next \in 1..Len(handler[h].config.list)
               /\ NextToSave(h) \in [name : Names, enabled : BOOLEAN]
               /\ [name |-> NextToSave(h).name, enabled |-> NextToSave(h).enabled,
                   order |-> handler[h].next - 1] \in Rows
               /\ SavedOne(h) => HandlersTyped'
    <2> DEFINE s == handler[h]
               list == s.config.list
    <2>1. s.step = "saving" /\ list \in Listings /\ s.next \in Nat \ {0} /\ s.next <= Len(list)
      BY <1>0, <1>2 DEF Saving, At, Typed, Configs
    <2>2. s.next \in 1..Len(list) /\ NextToSave(h) \in [name : Names, enabled : BOOLEAN]
      <3> DEFINE k == s.next
      <3>1. NextToSave(h) = list[k]
        BY DEF NextToSave
      <3>2. list \in Seq([name : Names, enabled : BOOLEAN]) /\ k \in Nat \ {0} /\ k <= Len(list)
        BY <2>1 DEF Listings
      <3> HIDE DEF k, list
      <3>3. k \in 1..Len(list)
        BY <3>2
      <3>4. list[k] \in [name : Names, enabled : BOOLEAN]
        BY <3>2, <3>3, ElementIn
      <3> QED
        BY <3>1, <3>3, <3>4 DEF k
    <2>3. [name |-> NextToSave(h).name, enabled |-> NextToSave(h).enabled, order |-> s.next - 1] \in Rows
      BY <2>1, <2>2 DEF Rows
    <2>4. ASSUME SavedOne(h) PROVE HandlersTyped'
      <3>1. /\ DOMAIN handler' = Handlers /\ \A g \in Handlers \ {h} : handler'[g] = handler[g]
            /\ DOMAIN handler'[h] = DOMAIN s
            /\ handler'[h].next = s.next + 1 /\ handler'[h].names = s.names \ {NextToSave(h).name}
            /\ handler'[h].step = s.step /\ handler'[h].config = s.config
        BY <1>0, <2>1, <2>4 DEF SavedOne, Typed
      <3>2. Typed(h, handler'[h])
        BY <1>0, <2>1, <3>1 DEF Typed
      <3> QED
        BY <3>1, <3>2, OneMoves
    <2> QED
      BY <2>1, <2>2, <2>3, <2>4
  <1>3. ASSUME SaveKnown(h) PROVE TInv'
    <2> DEFINE e == NextToSave(h)
               id == IdOf(endpoints, e.name)
               row == [name |-> e.name, enabled |-> e.enabled, order |-> handler[h].next - 1]
    <2>1. Saving(h) /\ e.name \in NamesIn(endpoints) /\ endpoints' = [endpoints EXCEPT ![id] = row]
      BY <1>3 DEF SaveKnown
    <2>2. row \in Rows
      BY <1>2, <2>1
    <2>3. id \in DOMAIN endpoints /\ endpoints[id].name = e.name
      BY <2>1, IdOfName
    <2> HIDE DEF id
    <2>4. /\ DOMAIN endpoints' = DOMAIN endpoints /\ endpoints'[id] = row
          /\ \A i \in DOMAIN endpoints \ {id} : endpoints'[i] = endpoints[i]
      BY <2>1, <2>3
    <2>5. \A i \in DOMAIN endpoints : endpoints'[i].name = endpoints[i].name
      BY <2>3, <2>4
    <2> HIDE DEF row
    <2>6. TableOK'
      <3>1. IsTable(endpoints)'
        BY <2>2, <2>4 DEF TableOK, IsTable
      <3>2. NamesUnique(endpoints)'
        BY <2>4, <2>5 DEF TableOK, NamesUnique
      <3> QED
        BY <1>3, <2>4, <3>1, <3>2 DEF TableOK, SaveKnown
    <2>7. HandlersTyped'
      BY <1>2, <1>3, <2>1 DEF SaveKnown
    <2> QED
      BY <1>3, <2>6, <2>7 DEF SaveKnown, proxyVars
  <1>4. ASSUME SaveNew(h) PROVE TInv'
    <2> DEFINE row == [name |-> NextToSave(h).name, enabled |-> NextToSave(h).enabled,
                       order |-> handler[h].next - 1]
    <2>1. Saving(h) /\ InsertRow(row) /\ row.name \notin NamesIn(endpoints)
      BY <1>4 DEF SaveNew
    <2>2. row \in Rows
      BY <1>2, <2>1
    <2> HIDE DEF row
    <2>3. TableOK'
      BY <2>1, <2>2, InsertKeeps
    <2>4. HandlersTyped'
      BY <1>2, <1>4, <2>1 DEF SaveNew
    <2> QED
      BY <1>4, <2>3, <2>4 DEF SaveNew, proxyVars
  <1>5. ASSUME SaveDeletes(h) PROVE TInv'
    <2>1. PICK n \in handler[h].names :
              DeleteRow(n) /\ handler' = [handler EXCEPT ![h].names = @ \ {n}]
      BY <1>5 DEF SaveDeletes
    <2>2. handler[h].step = "saving"
      BY <1>5 DEF SaveDeletes, At
    <2>3. TableOK' /\ pool' \subseteq Names \X Keys
      BY <2>1, DeleteKeeps
    <2>4. HandlersTyped'
      <3>1. /\ DOMAIN handler' = Handlers /\ \A g \in Handlers \ {h} : handler'[g] = handler[g]
            /\ DOMAIN handler'[h] = DOMAIN handler[h]
            /\ handler'[h].names = handler[h].names \ {n}
            /\ \A f \in DOMAIN handler[h] \ {"names"} : handler'[h][f] = handler[h][f]
        BY <1>0, <2>1, <2>2 DEF Typed
      <3>2. Typed(h, handler'[h])
        BY <1>0, <2>2, <3>1 DEF Typed
      <3> QED
        BY <3>1, <3>2, OneMoves
    <2> QED
      BY <1>5, <2>1, <2>3, <2>4 DEF SaveDeletes, DeleteRow, proxyVars
  <1>6. ASSUME EndSave(h) PROVE TInv'
    <2>1. handler[h].config \in Configs
      BY <1>0, <1>6 DEF EndSave, At, Typed
    <2>2. storedPort' \in Ports
      BY <1>6, <2>1 DEF EndSave, Configs
    <2>3. HandlersTyped'
      BY <1>6, DoneMoves DEF EndSave
    <2> QED
      BY <1>6, <2>2, <2>3 DEF EndSave, proxyVars, TableOK
  <1> QED
    BY <1>1, <1>3, <1>4, <1>5, <1>6

(* The steps that move a handler on, or change what is in memory. *)
LEMMA OtherStepsTyped ==
  ASSUME TInv, NEW h \in Handlers
  PROVE  /\ \A req \in Asked(h) : Receive(h, req) => TInv'
         /\ Refuse(h) \/ WriteFails(h) \/ SaveFails(h) \/ RefusePort(h) \/ SwitchEndpoint(h) => TInv'
         /\ ReadEndpoints(h) => TInv'
         /\ ForgetState(h) => TInv'
         /\ AddToken(h) => TInv'
         /\ Reordered(h) => TInv'
         /\ LoadFromStorage(h) => TInv'
         /\ StoreConfig(h) => TInv'
         /\ ApplyConfig(h) => TInv'
         /\ PassLock(h) => TInv'
         /\ UpdatePort(h) => TInv'
  <1> USE DEF TInv, CopiesOK
  <1>0. Typed(h, handler[h]) /\ DOMAIN handler = Handlers
    BY DEF HandlersTyped
  <1>1. ASSUME NEW req \in Asked(h), Receive(h, req) PROVE TInv'
    <2> DEFINE s == [step |-> FirstStep(req.kind), request |-> req]
    <2>1. req.kind \in RequestKinds
      BY RequestFields
    <2>2. Typed(h, s)
      BY <2>1 DEF Typed, FirstStep, RequestKinds, Steps
    <2>3. handler'[h] = s /\ DOMAIN handler' = Handlers /\ \A g \in Handlers \ {h} : handler'[g] = handler[g]
      BY <1>0, <1>1 DEF Receive
    <2> HIDE DEF s
    <2>4. HandlersTyped'
      BY <2>2, <2>3, OneMoves
    <2>5. overlaps' \in Nat
      BY <1>1 DEF Receive
    <2> QED
      BY <1>1, <2>4, <2>5 DEF Receive, tableVars, proxyVars, TableOK
  <1>2. ASSUME Refuse(h) \/ WriteFails(h) \/ SaveFails(h) \/ RefusePort(h) \/ SwitchEndpoint(h)
        PROVE  TInv'
    <2>1. Done(h) /\ UNCHANGED <<tableVars, adminConfig, proxyConfig, marked, overlaps>>
      BY <1>2 DEF Refuse, WriteFails, SaveFails, RefusePort, SwitchEndpoint, proxyVars
    <2>2. HandlersTyped'
      BY <2>1, DoneMoves
    <2> QED
      BY <2>1, <2>2 DEF tableVars, TableOK
  <1>3. ASSUME ReadEndpoints(h) PROVE TInv'
    <2> DEFINE req == Request(h)
               s == [step |-> NextStep(req.kind), request |-> req, seen |-> endpoints, next |-> 1]
    <2>1. req \in Asked(h) /\ req.kind \in {"create", "edit", "toggle", "reorder"}
      BY <1>0, <1>3 DEF ReadEndpoints, At, Typed, Request
    <2>2. req.kind \in {"edit", "toggle"} => req.name \in NamesIn(endpoints)
      BY <1>3, <2>1 DEF ReadEndpoints, Refused
    <2> HIDE DEF req
    <2>3. Typed(h, s)
      BY <2>1, <2>2 DEF Typed, NextStep, Steps, TableOK
    <2>4. handler'[h] = s /\ DOMAIN handler' = Handlers /\ \A g \in Handlers \ {h} : handler'[g] = handler[g]
      BY <1>0, <1>3 DEF ReadEndpoints, req
    <2> HIDE DEF s
    <2>5. HandlersTyped'
      BY <2>3, <2>4, OneMoves
    <2> QED
      BY <1>3, <2>5 DEF ReadEndpoints, tableVars, proxyVars, TableOK
  <1>4. ASSUME ForgetState(h) PROVE TInv'
    <2>1. handler[h].step = "forget" /\ Request(h).kind \in {"edit", "delete"}
      BY <1>0, <1>4 DEF ForgetState, At, Typed, Request
    <2>2. HandlersTyped'
      <3>1. Goto(h, "load") \/ (Request(h).kind = "edit" /\ Goto(h, "key"))
        BY <1>4, <2>1 DEF ForgetState
      <3> QED
        BY <2>1, <3>1, GoingTyped
    <2> QED
      BY <1>4, <2>2 DEF ForgetState, tableVars, TableOK
  <1>5. ASSUME AddToken(h) PROVE TInv'
    <2> DEFINE req == Request(h)
    <2>1. handler[h].step = "key" /\ req \in Asked(h) /\ req.kind \in {"create", "edit"}
      BY <1>0, <1>5 DEF AddToken, At, Typed, Request
    <2>2. req.name \in Names /\ req.key \in Keys \cup {NoKey} /\ (req.kind = "edit" => req.to \in Names)
      BY <2>1, RequestFields
    <2>3. pool' = IF req.key = NoKey THEN pool
                  ELSE pool \cup {<<IF req.kind = "edit" THEN req.to ELSE req.name, req.key>>}
      BY <1>5 DEF AddToken
    <2>4. pool' \subseteq Names \X Keys
      <3> HIDE DEF req
      <3> QED
        BY <2>2, <2>3
    <2>5. HandlersTyped'
      BY <1>5, <2>1, GoingTyped DEF AddToken
    <2> QED
      BY <1>5, <2>4, <2>5 DEF AddToken, proxyVars, TableOK
  <1>6. ASSUME Reordered(h) PROVE TInv'
    <2>1. HandlersTyped'
      BY <1>6, GoingTyped DEF Reordered, At
    <2> QED
      BY <1>6, <2>1 DEF Reordered, tableVars, proxyVars, TableOK
  <1>7. ASSUME LoadFromStorage(h) PROVE TInv'
    <2>1. Loaded \in Configs
      BY LoadedType DEF Loaded, Configs
    <2>2. Typed(h, [step |-> "store", config |-> Loaded])
      BY <2>1 DEF Typed, Steps
    <2>3. /\ handler'[h] = [step |-> "store", config |-> Loaded]
          /\ DOMAIN handler' = Handlers /\ \A g \in Handlers \ {h} : handler'[g] = handler[g]
      BY <1>0, <1>7 DEF LoadFromStorage
    <2>4. HandlersTyped'
      BY <2>2, <2>3, OneMoves
    <2> QED
      BY <1>7, <2>4 DEF LoadFromStorage, tableVars, proxyVars, TableOK
  <1>8. ASSUME StoreConfig(h) PROVE TInv'
    <2>1. handler[h].step = "store" /\ "config" \in DOMAIN handler[h] /\ handler[h].config \in Configs
          /\ "step" \in DOMAIN handler[h]
      BY <1>0, <1>8 DEF StoreConfig, At, Typed
    <2>2. handler'[h].step = "apply" /\ handler'[h].config = handler[h].config
          /\ "config" \in DOMAIN handler'[h] /\ "step" \in DOMAIN handler'[h]
      BY <1>8, <2>1, Going DEF StoreConfig
    <2>3. Typed(h, handler'[h])
      BY <2>1, <2>2 DEF Typed, Steps
    <2>4. HandlersTyped'
      BY <1>8, <2>3, Going, OneMoves DEF StoreConfig
    <2> QED
      BY <1>8, <2>1, <2>4 DEF StoreConfig, tableVars, proxyVars, TableOK
  <1>9. ASSUME ApplyConfig(h) PROVE TInv'
    <2>1. handler[h].config.list \in Listings
      BY <1>0, <1>9 DEF ApplyConfig, At, Typed, Configs
    <2>2. HandlersTyped'
      BY <1>9, DoneMoves DEF ApplyConfig
    <2> QED
      BY <1>9, <2>1, <2>2 DEF ApplyConfig, UpdateConfig, tableVars, TableOK
  <1>10. ASSUME PassLock(h) PROVE TInv'
    <2>1. handler[h].step = "lock" /\ Request(h).kind = "port"
      BY <1>0, <1>10 DEF PassLock, At, Typed, Request
    <2>2. HandlersTyped'
      BY <1>10, <2>1, GoingTyped DEF PassLock
    <2> QED
      BY <1>10, <2>2 DEF PassLock, tableVars, proxyVars, TableOK
  <1>11. ASSUME UpdatePort(h) PROVE TInv'
    <2>1. handler[h].step = "port" /\ Request(h) \in Asked(h) /\ Request(h).kind \in {"port", "config"}
      BY <1>0, <1>11 DEF UpdatePort, At, Typed, Request
    <2>2. Request(h).port \in Ports \cup {NoPort}
      BY <2>1, RequestFields
    <2>3. adminConfig' \in Configs
      BY <1>11, <2>2 DEF UpdatePort, Configs
    <2>4. HandlersTyped'
      BY <1>11, <2>1, GoingTyped DEF UpdatePort
    <2> QED
      BY <1>11, <2>3, <2>4 DEF UpdatePort, tableVars, proxyVars, TableOK
  <1> QED
    BY <1>1, <1>2, <1>3, <1>4, <1>5, <1>6, <1>7, <1>8, <1>9, <1>10, <1>11

(* A restart, and the traffic. *)
LEMMA RestartTyped ==
  ASSUME TInv, Restart
  PROVE  TInv'
  <1> USE DEF TInv, CopiesOK
  <1>1. TableOK'
    <2>1. CASE endpoints = <<>>
      <3>1. InsertRow(DefaultRow) /\ DefaultRow \in Rows /\ DefaultRow.name \notin NamesIn(endpoints)
        BY <2>1, AdminAssumption DEF Restart, DefaultRow, Rows, NamesIn
      <3> QED
        BY <3>1, InsertKeeps
    <2>2. CASE endpoints # <<>>
      BY <2>2 DEF Restart, TableOK
    <2> QED
      BY <2>1, <2>2
  <1>2. Listing(endpoints') \in Listings
    BY <1>1, ListingLists DEF TableOK
  <1>3. adminConfig' \in Configs
    BY <1>2, AdminAssumption DEF Restart, Started, Configs
  <1>4. HandlersTyped'
    BY DEF Restart, HandlersTyped, Typed, Idle, Steps
  <1> QED
    BY <1>1, <1>2, <1>3, <1>4 DEF Restart

(* A request that passes keeps the types.                                    *)
LEMMA TrafficTyped ==
  ASSUME TInv, Proxy
  PROVE  TInv'
  <1> USE DEF TInv, CopiesOK
  <1>1. CASE RotateEndpoint
    BY <1>1 DEF RotateEndpoint, tableVars, TableOK, HandlersTyped
  <1>2. CASE FailRequest
    <2>1. PICK k \in 1..Len(proxyConfig) : marked' = marked \cup {proxyConfig[k].name}
      BY <1>2 DEF FailRequest
    <2>2. proxyConfig[k] \in [name : Names, enabled : BOOLEAN]
      BY <2>1, ElementIn DEF Listings
    <2>3. marked' \subseteq Names
      BY <2>1, <2>2
    <2> QED
      BY <1>2, <2>3 DEF FailRequest, tableVars, TableOK, HandlersTyped
  <1> QED
    BY <1>1, <1>2 DEF Proxy

(* The types at the start.                                                   *)
LEMMA InitTyped == Init => TInv
  <1> SUFFICES ASSUME Init PROVE TInv
    OBVIOUS
  <1>1. DefaultRow \in Rows
    BY AdminAssumption DEF DefaultRow, Rows
  <1>2. DOMAIN endpoints = {1} /\ endpoints[1] = DefaultRow
    BY DEF Init, WithRow
  <1>3. TableOK
    BY <1>1, <1>2, AdminAssumption DEF Init, TableOK, IsTable, NamesUnique
  <1>4. Listing(endpoints) \in Listings
    BY <1>3, ListingLists DEF TableOK
  <1>5. adminConfig \in Configs
    BY <1>4, AdminAssumption DEF Init, Started, Configs
  <1>6. HandlersTyped
    BY DEF Init, HandlersTyped, Typed, Idle, Steps
  <1> QED
    BY <1>3, <1>4, <1>5, <1>6 DEF Init, TInv, CopiesOK

(* Every step keeps the types.                                               *)
LEMMA StepTyped ==
  ASSUME TInv, [Next]_vars
  PROVE  TInv'
  <1>1. CASE UNCHANGED vars
    BY <1>1 DEF vars, tableVars, proxyVars, TInv, TableOK, CopiesOK, HandlersTyped
  <1>2. ASSUME NEW h \in Handlers, Handle(h) PROVE TInv'
    BY <1>2, TableStepsTyped, SaveStepsTyped, OtherStepsTyped DEF Handle
  <1> QED
    BY <1>1, <1>2, RestartTyped, TrafficTyped DEF Next

-----------------------------------------------------------------------------
(* Where the traffic is.                                                     *)

(* The proxy runs exactly the enabled endpoints of its list, in the order of *)
(* the list.                                                                 *)
LEMMA EnabledLists ==
  ASSUME NEW list, Len(list) \in Nat
  PROVE  /\ Len(Enabled(list)) \in Nat
         /\ Enabled(list) # <<>> => Len(Enabled(list)) > 0
         /\ Enabled(list) = <<>> <=> \A i \in 1..Len(list) : ~ list[i].enabled
         /\ \A k \in 1..Len(Enabled(list)) : \E i \in 1..Len(list) :
                /\ list[i].enabled /\ Enabled(list)[k] = list[i]
                /\ EnabledBefore(list, i) = k - 1
         /\ \A i \in 1..Len(list) : list[i].enabled =>
                /\ EnabledBefore(list, i) + 1 \in 1..Len(Enabled(list))
                /\ Enabled(list)[EnabledBefore(list, i) + 1] = list[i]
         /\ \A i, j \in EnabledIn(list) :
                i < j => EnabledBefore(list, i) < EnabledBefore(list, j)
  <1> DEFINE S == EnabledIn(list)
             n == Cardinality(S)
             Before2(i) == {j \in S : j < i}
             b == [i \in S |-> EnabledBefore(list, i) + 1]
  <1>1. S \subseteq Nat /\ S \subseteq 1..Len(list) /\ IsFiniteSet(S) /\ n \in Nat
    <2>1. S \subseteq 1..Len(list) /\ IsFiniteSet(1..Len(list))
      BY FS_Interval DEF EnabledIn
    <2> QED
      BY <2>1, FS_Subset, FS_CardinalityType
  <1>2. \A i \in S : /\ IsFiniteSet(Before2(i)) /\ Cardinality(Before2(i)) \in Nat
                     /\ Cardinality(Before2(i)) < n
    <2> TAKE i \in S
    <2>1. Before2(i) \subseteq S /\ i \notin Before2(i)
      BY <1>1
    <2>2. IsFiniteSet(Before2(i)) /\ Cardinality(Before2(i)) <= n /\ Cardinality(Before2(i)) # n
      BY <1>1, <2>1, FS_Subset
    <2>3. Cardinality(Before2(i)) \in Nat
      BY <2>2, FS_CardinalityType
    <2> HIDE DEF n, Before2
    <2> QED
      BY <1>1, <2>2, <2>3
  <1>3. \A i \in S : EnabledBefore(list, i) = Cardinality(Before2(i))
    BY DEF EnabledBefore
  <1>4. ASSUME NEW i \in S, NEW j \in S, i < j
        PROVE  EnabledBefore(list, i) < EnabledBefore(list, j)
    <2>1. Before2(i) \subseteq Before2(j) /\ i \in Before2(j) /\ i \notin Before2(i)
      BY <1>1, <1>4
    <2>2. /\ Cardinality(Before2(i)) <= Cardinality(Before2(j))
          /\ Cardinality(Before2(i)) # Cardinality(Before2(j))
      BY <1>2, <2>1, FS_Subset
    <2>3. Cardinality(Before2(i)) \in Nat /\ Cardinality(Before2(j)) \in Nat
      BY <1>2
    <2> HIDE DEF Before2
    <2> QED
      BY <1>3, <2>2, <2>3
  <1>5. \A i \in S : b[i] \in 1..n
    <2> HIDE DEF n, Before2
    <2> QED
      BY <1>1, <1>2, <1>3
  <1>6. \A i, j \in S : b[i] = b[j] => i = j
    <2> TAKE i, j \in S
    <2>1. EnabledBefore(list, i) \in Nat /\ EnabledBefore(list, j) \in Nat /\ i \in Nat /\ j \in Nat
      BY <1>1, <1>2, <1>3
    <2>2. /\ i < j => EnabledBefore(list, i) < EnabledBefore(list, j)
          /\ j < i => EnabledBefore(list, j) < EnabledBefore(list, i)
      BY <1>4
    <2> HIDE DEF S
    <2> QED
      BY <2>1, <2>2
  <1>7. \A k \in 1..n : \E i \in S : b[i] = k
    <2> HIDE DEF n, S
    <2>1. b \in Injection(S, 1..n)
      BY <1>5, <1>6 DEF Injection, IsInjective
    <2>2. IsFiniteSet(1..n) /\ Cardinality(1..n) = n
      BY <1>1, FS_Interval
    <2>3. b \in Surjection(S, 1..n)
      BY <1>1, <2>1, <2>2, FS_Injection DEF n
    <2> QED
      BY <2>3 DEF Surjection
  <1>8. Len(Enabled(list)) = n /\ DOMAIN Enabled(list) = 1..n
    BY <1>1 DEF Enabled
  <1>9. ASSUME NEW k \in 1..n
        PROVE  \E i \in S : Enabled(list)[k] = list[i] /\ EnabledBefore(list, i) = k - 1
    <2>1. PICK i \in S : b[i] = k
      BY <1>7
    <2>2. EnabledBefore(list, i) = k - 1
      <3>1. EnabledBefore(list, i) \in Nat
        BY <1>2, <1>3
      <3>2. EnabledBefore(list, i) + 1 = k
        BY <2>1
      <3> HIDE DEF n, S
      <3> QED
        BY <1>1, <3>1, <3>2
    <2>3. Enabled(list)[k] = list[CHOOSE j \in EnabledIn(list) : EnabledBefore(list, j) = k - 1]
      BY DEF Enabled
    <2> DEFINE c == CHOOSE j \in EnabledIn(list) : EnabledBefore(list, j) = k - 1
    <2>4. c \in S /\ EnabledBefore(list, c) = k - 1
      BY <2>2
    <2> QED
      BY <2>3, <2>4
  <1>10. \A i \in S : b[i] \in 1..n /\ Enabled(list)[b[i]] = list[i]
    <2> TAKE i \in S
    <2>1. b[i] \in 1..n
      BY <1>5
    <2>2. PICK j \in S : Enabled(list)[b[i]] = list[j] /\ EnabledBefore(list, j) = b[i] - 1
      BY <1>9, <2>1
    <2>3. EnabledBefore(list, i) \in Nat /\ EnabledBefore(list, j) \in Nat
      BY <1>2, <1>3
    <2>4. b[j] = b[i]
      BY <2>2, <2>3
    <2> QED
      BY <1>6, <2>1, <2>2, <2>4
  <1>11. Enabled(list) = <<>> <=> n = 0
    BY <1>1, <1>8
  <1>12. n = 0 <=> S = {}
    BY <1>1, FS_EmptySet
  <1>13. S = {i \in 1..Len(list) : list[i].enabled}
    BY DEF EnabledIn
  <1>14. \A i \in S : b[i] = EnabledBefore(list, i) + 1
    OBVIOUS
  <1> HIDE DEF S, n, b
  <1>15. Enabled(list) # <<>> => Len(Enabled(list)) > 0
    BY <1>1, <1>8, <1>11
  <1>16. \A k \in 1..n : \E i \in 1..Len(list) :
             /\ list[i].enabled /\ Enabled(list)[k] = list[i]
             /\ EnabledBefore(list, i) = k - 1
    BY <1>9, <1>13
  <1>17. \A i \in 1..Len(list) : list[i].enabled =>
             /\ EnabledBefore(list, i) + 1 \in 1..n
             /\ Enabled(list)[EnabledBefore(list, i) + 1] = list[i]
    BY <1>10, <1>13, <1>14
  <1>18. \A i, j \in S : i < j => EnabledBefore(list, i) < EnabledBefore(list, j)
    BY <1>4
  <1> QED
    BY <1>1, <1>8, <1>11, <1>12, <1>13, <1>16, <1>17, <1>18, <1>15 DEF S

\* currentIndex points at an enabled endpoint when there is one.
Pointed == current \in Nat /\ (Running # <<>> => current < Len(Running))

(* The enabled entries of a listing are a finite list.                       *)
LEMMA EnabledLength ==
  ASSUME NEW list \in Listings
  PROVE  Len(Enabled(list)) \in Nat /\ (Enabled(list) # <<>> => Len(Enabled(list)) > 0)
  <1>1. Len(list) \in Nat
    BY DEF Listings
  <1> QED
    BY <1>1, EnabledLists

(* A reload points at the endpoint that has the name of the one the traffic  *)
(* was on, or else at the first.                                             *)
LEMMA IndexInBounds ==
  ASSUME NEW list, Len(list) \in Nat
  PROVE  /\ IndexIn(list) \in Nat
         /\ Len(list) > 0 => IndexIn(list) < Len(list)
         /\ (\E k \in 1..Len(list) : list[k].name = Current) =>
               IndexIn(list) + 1 \in 1..Len(list) /\ list[IndexIn(list) + 1].name = Current
  <1>1. CASE \E k \in 1..Len(list) : list[k].name = Current
    <2>1. PICK k \in 1..Len(list) : /\ list[k].name = Current
                                    /\ IndexIn(list) = k - 1
      BY <1>1 DEF IndexIn
    <2> QED
      BY <2>1
  <1>2. CASE ~ \E k \in 1..Len(list) : list[k].name = Current
    <2>1. IndexIn(list) = 0
      BY <1>2 DEF IndexIn
    <2> QED
      BY <1>2, <2>1
  <1> QED
    BY <1>1, <1>2

\* Most steps leave the traffic where it is.
LEMMA TrafficStays ==
  ASSUME NEW h \in Handlers, Handle(h), ~ ApplyConfig(h), ~ SwitchEndpoint(h)
  PROVE  UNCHANGED <<proxyConfig, current>>
  <1>1. CASE \E req \in Asked(h) : Receive(h, req)
    BY <1>1 DEF Receive, proxyVars
  <1>2. CASE \/ Refuse(h) \/ ReadEndpoints(h) \/ CreateEndpoint(h) \/ UpdateEndpoint(h)
             \/ WriteFails(h) \/ DeleteEndpoint(h) \/ ForgetState(h) \/ AddToken(h)
             \/ ReorderNext(h) \/ Reordered(h)
    BY <1>2 DEF Refuse, ReadEndpoints, CreateEndpoint, UpdateEndpoint, WriteFails,
                DeleteEndpoint, ForgetState, AddToken, ReorderNext, Reordered, proxyVars
  <1>3. CASE \/ LoadFromStorage(h) \/ StoreConfig(h) \/ RefusePort(h) \/ PassLock(h)
             \/ UpdatePort(h)
    BY <1>3 DEF LoadFromStorage, StoreConfig, RefusePort, PassLock, UpdatePort, proxyVars
  <1>4. CASE \/ BeginSave(h) \/ SaveKnown(h) \/ SaveNew(h) \/ SaveFails(h) \/ SaveDeletes(h)
             \/ EndSave(h)
    BY <1>4 DEF BeginSave, SaveKnown, SaveNew, SaveFails, SaveDeletes, EndSave, proxyVars
  <1> QED
    BY <1>1, <1>2, <1>3, <1>4 DEF Handle

(* The index stays within the enabled endpoints, whoever moves it and        *)
(* whatever a reload leaves of them.                                         *)
LEMMA StepPointed ==
  ASSUME TInv, TInv', Pointed, [Next]_vars
  PROVE  Pointed'
  <1>1. /\ Len(Running) \in Nat /\ (Running # <<>> => Len(Running) > 0)
        /\ Len(Running') \in Nat /\ (Running' # <<>> => Len(Running') > 0)
    <2>1. proxyConfig \in Listings /\ proxyConfig' \in Listings
      BY DEF TInv, CopiesOK
    <2> QED
      BY <2>1, EnabledLength DEF Running
  <1>2. ASSUME UNCHANGED <<proxyConfig, current>> PROVE Pointed'
    BY <1>2 DEF Pointed, Running
  <1>3. ASSUME NEW h \in Handlers, ApplyConfig(h) PROVE Pointed'
    <2>1. current' = IndexIn(Running')
      BY <1>3 DEF ApplyConfig, UpdateConfig, Running
    <2> QED
      BY <1>1, <2>1, IndexInBounds DEF Pointed
  <1>4. ASSUME NEW h \in Handlers, SwitchEndpoint(h) PROVE Pointed'
    <2>1. proxyConfig' = proxyConfig
      BY <1>4 DEF SwitchEndpoint
    <2>2. current' = current \/ \E k \in 1..Len(Running) : current' = k - 1
      BY <1>4 DEF SwitchEndpoint
    <2> QED
      BY <1>1, <2>1, <2>2 DEF Pointed, Running
  <1>5. ASSUME RotateEndpoint PROVE Pointed'
    <2>1. PICK n \in Nat \ {0} : n = Len(Running)
      BY <1>1, <1>5 DEF RotateEndpoint
    <2>2. current' = ((current % n) + 1) % n /\ proxyConfig' = proxyConfig
      BY <1>5, <2>1 DEF RotateEndpoint
    <2>3. current % n \in Nat
      BY <2>1 DEF Pointed
    <2>4. ((current % n) + 1) % n \in 0..(n - 1)
      BY <2>1, <2>3
    <2> QED
      BY <2>1, <2>2, <2>4 DEF Pointed, Running
  <1>6. ASSUME Restart PROVE Pointed'
    BY <1>1, <1>6 DEF Restart, Pointed
  <1>7. ASSUME FailRequest PROVE Pointed'
    BY <1>2, <1>7 DEF FailRequest
  <1>8. ASSUME UNCHANGED vars PROVE Pointed'
    BY <1>2, <1>8 DEF vars, proxyVars
  <1> QED
    BY <1>2, <1>3, <1>4, <1>5, <1>6, <1>7, <1>8, TrafficStays DEF Next, Proxy

(* At the start the pointer is at an endpoint that runs.                     *)
LEMMA InitPointed == Init => Pointed
  <1> SUFFICES ASSUME Init PROVE Pointed
    OBVIOUS
  <1>1. Len(Running) \in Nat /\ (Running # <<>> => Len(Running) > 0)
    BY InitTyped, EnabledLength DEF TInv, CopiesOK, Running
  <1> QED
    BY <1>1 DEF Init, Pointed

(* Types, unique names and an index within the enabled endpoints, however    *)
(* the requests overlap.                                                     *)
THEOREM TypeInvariant == Spec => []TypeOK
  <1>1. Init => TInv /\ Pointed
    BY InitTyped, InitPointed
  <1>2. TInv /\ Pointed /\ [Next]_vars => (TInv /\ Pointed)'
    BY StepTyped, StepPointed
  <1>3. TInv => StoredOK
    BY DEF TInv, TableOK, CopiesOK, StoredOK, HandlersTyped, Typed, HandlerOK
  <1>4. TInv /\ Pointed => TypeOK
    BY <1>3 DEF Pointed, TypeOK
  <1> QED
    BY <1>1, <1>2, <1>4, PTL DEF Spec

(* A reload leaves the traffic on its endpoint, if that one is still enabled *)
(* anywhere in the list, for any lists and however the handlers overlap.     *)
THEOREM ReloadsKeepCurrent == Spec => CurrentKept
  <1>1. ASSUME TInv, TInv', NEW h \in Handlers, ApplyConfig(h),
               \E k \in 1..Len(Running') : Running'[k].name = Current
        PROVE  Current' = Current
    <2>1. PICK m : m = Current
      OBVIOUS
    <2>2. Len(Running') \in Nat
      <3>1. proxyConfig' \in Listings
        BY <1>1 DEF TInv, CopiesOK
      <3> QED
        BY <3>1, EnabledLength DEF Running
    <2>3. current' = IndexIn(Running')
      BY <1>1 DEF ApplyConfig, UpdateConfig, Running
    <2>4. current' + 1 \in 1..Len(Running') /\ Running'[current' + 1].name = m /\ current' \in Nat
      BY <1>1, <2>1, <2>2, <2>3, IndexInBounds
    <2>5. current' % Len(Running') = current' /\ Running' # <<>>
      BY <2>2, <2>4
    <2> QED
      BY <2>1, <2>4, <2>5 DEF Current
  <1>2. TInv /\ TInv' /\ [Next]_vars =>
          [\A h \in Handlers :
              ApplyConfig(h) /\ (\E k \in 1..Len(Running') : Running'[k].name = Current)
              => Current' = Current]_vars
    BY <1>1
  <1>3. Spec => []TInv
    BY InitTyped, StepTyped, PTL DEF Spec
  <1> QED
    BY <1>2, <1>3, PTL DEF CurrentKept, Spec

-----------------------------------------------------------------------------
(* One request at a time.  While none has met another, at most one handler is  *)
(* busy, and what it has done so far is known from its step: between two       *)
(* requests the three copies agree, and the steps in which they do not lead    *)
(* to a reload.                                                                *)

\* The steps in which a handler has changed nothing yet.
Quiet == {"idle", "read", "insert", "write", "delete", "lock", "port", "save", "switch"}

Agree == adminConfig.list = Listing(endpoints) /\ proxyConfig = Listing(endpoints)

Entry(id) == [name |-> endpoints[id].name, enabled |-> endpoints[id].enabled]
Distinct(list) == \A j, k \in 1..Len(list) : list[j].name = list[k].name => j = k

\* The key goes to a name that is in the table.
KeyOwned(h) ==
    LET s == handler[h] IN
    s.step = "key" \/ (s.step = "forget" /\ s.request.kind = "edit") =>
        Target(s.request) \in NamesIn(endpoints)

\* A reordering has changed nothing but positions, and the first ones are as asked for.
Reordering(h) ==
    LET s == handler[h] IN
    s.step = "reorder" =>
        /\ DOMAIN s.seen = DOMAIN endpoints
        /\ \A i \in DOMAIN endpoints : s.seen[i].name = endpoints[i].name
        /\ s.next <= Len(s.request.names) + 1
        /\ \A j \in 1..(s.next - 1), i \in DOMAIN endpoints :
               endpoints[i].name = s.request.names[j] => endpoints[i].order = j - 1

Reloading(h) ==
    LET s == handler[h] IN
    /\ s.step \in {"store", "apply"} => s.config.list = Listing(endpoints)
    /\ s.step = "apply" => adminConfig.list = Listing(endpoints)

\* A save writes what is in the table already, with positions from nought on.
Saved(s, list) ==
    /\ adminConfig.list = list /\ proxyConfig = list /\ Distinct(list)
    /\ \A id \in DOMAIN endpoints : \E k \in 1..Len(list) : list[k] = Entry(id)
    /\ \A k \in 1..Len(list) : \E id \in DOMAIN endpoints : list[k] = Entry(id)
    /\ s.next \in 1..(Len(list) + 1)
    /\ s.names = {list[k].name : k \in s.next..Len(list)}
    /\ \A k \in 1..(s.next - 1), id \in DOMAIN endpoints :
           endpoints[id].name = list[k].name => endpoints[id].order = k - 1
SavingSame(h) == At(h, "saving") => Saved(handler[h], handler[h].config.list)

StageOK(h) == KeyOwned(h) /\ Reordering(h) /\ Reloading(h) /\ SavingSame(h)

Sole == \A g, h \in Handlers : ~ At(g, "idle") /\ ~ At(h, "idle") => g = h

Settled ==
    overlaps = 0 =>
        /\ Sole
        /\ \A h \in Handlers : StageOK(h)
        /\ (\A h \in Handlers : handler[h].step \in Quiet) => Agree
        /\ Owned

(* A handler that has written nothing owes nothing.                          *)
LEMMA QuietStage ==
  ASSUME NEW h, handler[h].step \in Quiet \cup {"load"}
  PROVE  StageOK(h)
  BY DEF Quiet, StageOK, KeyOwned, Reordering, Reloading, SavingSame, At

\* What a step of the only busy handler has to keep.
LEMMA Solo ==
  ASSUME Settled, overlaps = 0, NEW h \in Handlers, ~ At(h, "idle"),
         \A g \in Handlers \ {h} : handler'[g] = handler[g],
         StageOK(h)', handler'[h].step \in Quiet => Agree', Owned'
  PROVE  Settled'
  <1>1. \A g \in Handlers \ {h} : handler'[g].step = "idle"
    BY DEF Settled, Sole, At
  <1>2. Sole'
    BY <1>1 DEF Sole, At
  <1>3. \A g \in Handlers \ {h} : StageOK(g)'
    BY <1>1 DEF StageOK, KeyOwned, Reordering, Reloading, SavingSame, At
  <1> QED
    BY <1>2, <1>3 DEF Settled

(* While the only busy handler has written nothing, all copies agree.        *)
LEMMA SoleAgree ==
  ASSUME Settled, overlaps = 0, NEW h \in Handlers, ~ At(h, "idle"), handler[h].step \in Quiet
  PROVE  Agree
  <1>1. \A g \in Handlers \ {h} : handler[g].step = "idle"
    BY DEF Settled, Sole, At
  <1> QED
    BY <1>1 DEF Settled, Quiet

(* A request comes, or a handler that has changed nothing goes on or gives up. *)
LEMMA QuietStepsSettled ==
  ASSUME TInv, Settled, overlaps = 0, NEW h \in Handlers
  PROVE  /\ \A req \in Asked(h) : Receive(h, req) => Settled'
         /\ Refuse(h) \/ WriteFails(h) \/ RefusePort(h) \/ SwitchEndpoint(h) => Settled'
         /\ ReadEndpoints(h) => Settled'
         /\ PassLock(h) => Settled'
         /\ UpdatePort(h) => Settled'
  <1>0. HandlersTyped /\ Typed(h, handler[h]) /\ DOMAIN handler = Handlers /\ Owned
    BY DEF TInv, HandlersTyped, Settled
  <1>1. ASSUME NEW req \in Asked(h), Receive(h, req) PROVE Settled'
    <2>1. CASE Alone(h)
      <3>1. \A g \in Handlers \ {h} : handler'[g] = handler[g] /\ handler[g].step = "idle"
        BY <1>0, <1>1, <2>1 DEF Receive, Alone, At
      <3>2. handler'[h].step = FirstStep(req.kind)
        BY <1>0, <1>1 DEF Receive
      <3>3. FirstStep(req.kind) \in Quiet
        BY RequestFields DEF FirstStep, Quiet, RequestKinds
      <3>4. Agree /\ UNCHANGED <<endpoints, pool, adminConfig, proxyConfig>>
        <4>1. handler[h].step = "idle"
          BY <1>1 DEF Receive, At
        <4>2. \A g \in Handlers : handler[g].step \in Quiet
          BY <3>1, <4>1 DEF Quiet
        <4> QED
          BY <1>1, <4>2 DEF Receive, tableVars, proxyVars, Settled
      <3>5. Sole'
        BY <3>1 DEF Sole, At
      <3>6. \A g \in Handlers : StageOK(g)'
        <4>1. \A g \in Handlers : handler'[g].step \in Quiet
          BY <3>1, <3>2, <3>3 DEF Quiet
        <4> QED
          BY <4>1 DEF Quiet, StageOK, KeyOwned, Reordering, Reloading, SavingSame, At
      <3>7. Agree' /\ Owned'
        BY <1>0, <3>4 DEF Agree, Owned
      <3> QED
        BY <3>5, <3>6, <3>7 DEF Settled
    <2>2. CASE ~ Alone(h)
      BY <1>1, <2>2 DEF Receive, Settled
    <2> QED
      BY <2>1, <2>2
  <1>2. ASSUME Refuse(h) \/ WriteFails(h) \/ RefusePort(h) \/ SwitchEndpoint(h) PROVE Settled'
    <2>1. Done(h) /\ UNCHANGED <<endpoints, pool, adminConfig, proxyConfig>>
      BY <1>2 DEF Refuse, WriteFails, RefusePort, SwitchEndpoint, tableVars, proxyVars
    <2>2. handler[h].step \in Quiet /\ ~ At(h, "idle")
      BY <1>2 DEF Refuse, WriteFails, RefusePort, SwitchEndpoint, At, Quiet
    <2>3. handler'[h] = Idle /\ \A g \in Handlers \ {h} : handler'[g] = handler[g]
      BY <1>0, <2>1, DoneMoves
    <2>4. StageOK(h)'
      BY <2>3 DEF Idle, StageOK, KeyOwned, Reordering, Reloading, SavingSame, At
    <2>5. Agree' /\ Owned'
      BY <1>0, <2>1, <2>2, SoleAgree DEF Agree, Owned
    <2> QED
      BY <2>2, <2>3, <2>4, <2>5, Solo
  <1>3. ASSUME ReadEndpoints(h) PROVE Settled'
    <2> DEFINE s == [step |-> NextStep(Request(h).kind), request |-> Request(h), seen |-> endpoints, next |-> 1]
    <2>1. UNCHANGED <<endpoints, pool, adminConfig, proxyConfig>>
      BY <1>3 DEF ReadEndpoints, tableVars, proxyVars
    <2>2. handler[h].step = "read" /\ ~ At(h, "idle") /\ handler[h].step \in Quiet
      BY <1>3 DEF ReadEndpoints, At, Quiet
    <2>3. handler'[h] = s /\ \A g \in Handlers \ {h} : handler'[g] = handler[g]
      BY <1>0, <1>3 DEF ReadEndpoints
    <2>4. Request(h) \in Asked(h)
      BY <1>0, <2>2 DEF Typed, Request
    <2>5. NextStep(Request(h).kind) = "reorder" => Request(h).kind = "reorder"
      BY DEF NextStep
    <2>6. Request(h).kind = "reorder" => Len(Request(h).names) \in Nat
      BY <2>4, RequestFields, FunctionIsSeq
    <2>7. StageOK(h)'
      <3>1. Reordering(h)'
        BY <2>1, <2>3, <2>5, <2>6 DEF Reordering
      <3>2. NextStep(Request(h).kind) \in {"insert", "reorder", "write"}
        BY DEF NextStep
      <3>3. KeyOwned(h)' /\ Reloading(h)' /\ SavingSame(h)'
        BY <2>3, <3>2 DEF KeyOwned, Reloading, SavingSame, At
      <3> QED
        BY <3>1, <3>3 DEF StageOK
    <2>8. Agree' /\ Owned'
      BY <1>0, <2>1, <2>2, SoleAgree DEF Agree, Owned
    <2> QED
      BY <2>2, <2>3, <2>7, <2>8, Solo
  <1>4. ASSUME PassLock(h) PROVE Settled'
    <2>1. UNCHANGED <<endpoints, pool, adminConfig, proxyConfig>> /\ Goto(h, "port")
      BY <1>4 DEF PassLock, tableVars, proxyVars
    <2>2. handler[h].step \in Quiet /\ ~ At(h, "idle")
      BY <1>4 DEF PassLock, At, Quiet
    <2>3. handler'[h].step = "port" /\ \A g \in Handlers \ {h} : handler'[g] = handler[g]
      BY <1>0, <2>1, Going
    <2>4. StageOK(h)'
      BY <2>3 DEF StageOK, KeyOwned, Reordering, Reloading, SavingSame, At
    <2>5. Agree' /\ Owned'
      BY <1>0, <2>1, <2>2, SoleAgree DEF Agree, Owned
    <2> QED
      BY <2>2, <2>3, <2>4, <2>5, Solo
  <1>5. ASSUME UpdatePort(h) PROVE Settled'
    <2>1. UNCHANGED <<endpoints, pool, proxyConfig>> /\ Goto(h, "save") /\ adminConfig'.list = adminConfig.list
      BY <1>5 DEF UpdatePort, tableVars, proxyVars, TInv, CopiesOK, Configs
    <2>2. handler[h].step \in Quiet /\ ~ At(h, "idle")
      BY <1>5 DEF UpdatePort, At, Quiet
    <2>3. handler'[h].step = "save" /\ \A g \in Handlers \ {h} : handler'[g] = handler[g]
      BY <1>0, <2>1, Going
    <2>4. StageOK(h)'
      BY <2>3 DEF StageOK, KeyOwned, Reordering, Reloading, SavingSame, At
    <2>5. Agree' /\ Owned'
      BY <1>0, <2>1, <2>2, SoleAgree DEF Agree, Owned
    <2> QED
      BY <2>2, <2>3, <2>4, <2>5, Solo
  <1> QED
    BY <1>1, <1>2, <1>3, <1>4, <1>5

(* The table changes: the handler is on its way to a reload. *)
LEMMA TableStepsSettled ==
  ASSUME TInv, Settled, overlaps = 0, NEW h \in Handlers
  PROVE  /\ CreateEndpoint(h) => Settled'
         /\ UpdateEndpoint(h) => Settled'
         /\ DeleteEndpoint(h) => Settled'
         /\ ForgetState(h) => Settled'
         /\ AddToken(h) => Settled'
         /\ Reordered(h) => Settled'
  <1>0. /\ HandlersTyped /\ Typed(h, handler[h]) /\ DOMAIN handler = Handlers /\ Owned
        /\ TableOK /\ pool \subseteq Names \X Keys /\ StageOK(h)
    BY DEF TInv, CopiesOK, HandlersTyped, Settled
  <1>1. ASSUME CreateEndpoint(h) PROVE Settled'
    <2> DEFINE row == [name |-> Request(h).name, enabled |-> Request(h).enabled,
                       order |-> Cardinality(DOMAIN handler[h].seen)]
    <2>1. handler[h].step = "insert" /\ Request(h) \in Asked(h) /\ Request(h).kind = "create"
      BY <1>0, <1>1 DEF CreateEndpoint, At, Typed, Request
    <2>2. Cardinality(DOMAIN handler[h].seen) \in Nat
      BY <1>0, <2>1, BeforeOrders, FS_CardinalityType DEF Typed
    <2>3. row \in Rows
      BY <2>1, <2>2, RequestFields DEF Rows
    <2>4. Request(h).name \in NamesIn(endpoints)' /\ NamesIn(endpoints) \subseteq NamesIn(endpoints)'
      BY <1>0, <1>1, <2>3, InsertKeeps DEF CreateEndpoint
    <2> HIDE DEF row
    <2>5. Owned'
      BY <1>0, <1>1, <2>4 DEF Owned, CreateEndpoint
    <2>6. /\ handler'[h].step = "key" /\ handler'[h].request = Request(h)
          /\ \A g \in Handlers \ {h} : handler'[g] = handler[g]
      BY <1>0, <1>1, <2>1, Going, GoingTyped DEF CreateEndpoint
    <2>7. StageOK(h)'
      BY <2>1, <2>4, <2>6 DEF StageOK, KeyOwned, Reordering, Reloading, SavingSame, At, Target
    <2> QED
      BY <2>1, <2>5, <2>6, <2>7, Solo DEF At, Quiet
  <1>2. ASSUME UpdateEndpoint(h) PROVE Settled'
    <2>1. handler[h].step = "write" /\ Request(h).kind \in {"edit", "toggle"} /\ At(h, "write")
      BY <1>0, <1>2 DEF UpdateEndpoint, At, Typed, Request
    <2>2. Owned' /\ EditedRow(h).name \in NamesIn(endpoints)'
      BY <1>0, <1>2, EditedRowType, UpdateKeeps DEF UpdateEndpoint
    <2>3. \/ Goto(h, "load")
          \/ Request(h).kind = "edit" /\ (Goto(h, "forget") \/ Goto(h, "key"))
      BY <1>2, <2>1 DEF UpdateEndpoint
    <2>4. /\ \A g \in Handlers \ {h} : handler'[g] = handler[g]
          /\ handler'[h].request = Request(h)
          /\ \/ handler'[h].step = "load"
             \/ Request(h).kind = "edit" /\ handler'[h].step \in {"forget", "key"}
      BY <1>0, <2>1, <2>3, Going, GoingTyped
    <2>5. Request(h).kind = "edit" => Target(Request(h)) \in NamesIn(endpoints)'
      BY <1>0, <2>1, <2>2, EditedRowType DEF Target
    <2>6. StageOK(h)' /\ handler'[h].step \notin Quiet
      <3>1. KeyOwned(h)'
        BY <2>4, <2>5 DEF KeyOwned
      <3>2. handler'[h].step \in {"load", "forget", "key"}
        BY <2>4
      <3> QED
        BY <3>1, <3>2 DEF StageOK, Reordering, Reloading, SavingSame, At, Quiet
    <2> QED
      BY <2>1, <2>2, <2>4, <2>6, Solo DEF At
  <1>3. ASSUME DeleteEndpoint(h) PROVE Settled'
    <2>1. handler[h].step = "delete" /\ Request(h).kind = "delete"
      BY <1>0, <1>3 DEF DeleteEndpoint, At, Typed, Request
    <2>2. Owned'
      BY <1>0, <1>3, DeleteKeeps DEF DeleteEndpoint
    <2>3. /\ handler'[h].step = "forget" /\ handler'[h].request = Request(h)
          /\ \A g \in Handlers \ {h} : handler'[g] = handler[g]
      BY <1>0, <1>3, <2>1, Going, GoingTyped DEF DeleteEndpoint
    <2>4. StageOK(h)'
      BY <2>1, <2>3 DEF StageOK, KeyOwned, Reordering, Reloading, SavingSame, At
    <2> QED
      BY <2>1, <2>2, <2>3, <2>4, Solo DEF At, Quiet
  <1>4. ASSUME ForgetState(h) PROVE Settled'
    <2>1. handler[h].step = "forget" /\ Request(h).kind \in {"edit", "delete"}
      BY <1>0, <1>4 DEF ForgetState, At, Typed, Request
    <2>2. Owned' /\ UNCHANGED endpoints
      BY <1>0, <1>4 DEF ForgetState, tableVars, Owned
    <2>3. Goto(h, "load") \/ (Request(h).kind = "edit" /\ Goto(h, "key"))
      BY <1>4, <2>1 DEF ForgetState
    <2>4. /\ \A g \in Handlers \ {h} : handler'[g] = handler[g]
          /\ handler'[h].request = Request(h)
          /\ handler'[h].step = "load" \/ (Request(h).kind = "edit" /\ handler'[h].step = "key")
      BY <1>0, <2>1, <2>3, Going, GoingTyped
    <2>5. StageOK(h)' /\ handler'[h].step \notin Quiet
      <3>1. KeyOwned(h)'
        BY <1>0, <2>1, <2>2, <2>4 DEF StageOK, KeyOwned, Request
      <3>2. handler'[h].step \in {"load", "key"}
        BY <2>4
      <3> QED
        BY <3>1, <3>2 DEF StageOK, Reordering, Reloading, SavingSame, At, Quiet
    <2> QED
      BY <2>1, <2>2, <2>4, <2>5, Solo DEF At
  <1>5. ASSUME AddToken(h) PROVE Settled'
    <2>1. handler[h].step = "key" /\ Target(Request(h)) \in NamesIn(endpoints)
      BY <1>0, <1>5 DEF AddToken, At, StageOK, KeyOwned, Request
    <2>2. \A owned \in pool' : owned \in pool \/ owned[1] = Target(Request(h))
      BY <1>5 DEF AddToken, Target
    <2>3. Owned'
      BY <1>0, <1>5, <2>1, <2>2 DEF Owned, AddToken
    <2>4. handler'[h].step = "load" /\ \A g \in Handlers \ {h} : handler'[g] = handler[g]
      BY <1>0, <1>5, Going DEF AddToken
    <2>5. StageOK(h)'
      BY <2>4 DEF StageOK, KeyOwned, Reordering, Reloading, SavingSame, At
    <2> QED
      BY <2>1, <2>3, <2>4, <2>5, Solo DEF At, Quiet
  <1>6. ASSUME Reordered(h) PROVE Settled'
    <2>1. handler[h].step = "reorder" /\ Owned'
      BY <1>0, <1>6 DEF Reordered, At, tableVars, Owned
    <2>2. handler'[h].step = "load" /\ \A g \in Handlers \ {h} : handler'[g] = handler[g]
      BY <1>0, <1>6, Going DEF Reordered
    <2>3. StageOK(h)'
      BY <2>2 DEF StageOK, KeyOwned, Reordering, Reloading, SavingSame, At
    <2> QED
      BY <2>1, <2>2, <2>3, Solo DEF At, Quiet
  <1> QED
    BY <1>1, <1>2, <1>3, <1>4, <1>5, <1>6

(* One endpoint of a reordering gets its position. *)
LEMMA ReorderStepSettled ==
  ASSUME TInv, Settled, overlaps = 0, NEW h \in Handlers, ReorderNext(h)
  PROVE  Settled'
  <1> DEFINE k == handler[h].next
             seen == handler[h].seen
             names == Request(h).names
             n == names[k]
             id == IdOf(seen, n)
             row == [seen[id] EXCEPT !.order = k - 1]
  <1>0. /\ HandlersTyped /\ Typed(h, handler[h]) /\ DOMAIN handler = Handlers /\ Owned
        /\ TableOK /\ pool \subseteq Names \X Keys /\ StageOK(h)
    BY DEF TInv, CopiesOK, HandlersTyped, Settled
  <1>1. /\ handler[h].step = "reorder" /\ IsTable(seen) /\ k \in Nat \ {0} /\ NamesUnique(seen)
        /\ Request(h) \in Asked(h) /\ Request(h).kind = "reorder" /\ k <= Len(names)
    BY <1>0 DEF ReorderNext, At, Typed, Request
  <1>2. PICK len \in Nat : names \in [1..len -> Names] /\ Len(names) = len /\ IsInjective(names)
    <2>1. PICK len \in 0..MaxEndpoints : names \in [1..len -> Names] /\ IsInjective(names)
      BY <1>1, RequestFields
    <2>2. len \in Nat
      BY <2>1, AdminAssumption
    <2> HIDE DEF names
    <2> QED
      BY <2>1, <2>2, FunctionIsSeq
  <1>3. /\ DOMAIN seen = DOMAIN endpoints
        /\ \A i \in DOMAIN endpoints : seen[i].name = endpoints[i].name
        /\ \A j \in 1..(k - 1), i \in DOMAIN endpoints :
               endpoints[i].name = names[j] => endpoints[i].order = j - 1
    BY <1>0, <1>1 DEF StageOK, Reordering, Request
  <1>4. /\ handler' = [handler EXCEPT ![h].next = k + 1] /\ UNCHANGED <<adminConfig, proxyVars, overlaps>>
        /\ IF n \in NamesIn(seen) /\ CanWrite(id, row) THEN UpdateRow(id, row) ELSE UNCHANGED tableVars
    BY DEF ReorderNext
  <1>5. /\ \A g \in Handlers \ {h} : handler'[g] = handler[g]
        /\ DOMAIN handler'[h] = DOMAIN handler[h] /\ handler'[h].next = k + 1
        /\ handler'[h].step = "reorder" /\ handler'[h].seen = seen /\ handler'[h].request = Request(h)
    <2>1. "next" \in DOMAIN handler[h]
      BY <1>0, <1>1 DEF Typed
    <2>2. handler'[h] = [handler[h] EXCEPT !.next = k + 1] /\ \A g \in Handlers \ {h} : handler'[g] = handler[g]
      BY <1>0, <1>4
    <2> HIDE DEF k
    <2> QED
      BY <1>1, <2>1, <2>2 DEF Request
  <1> HIDE DEF k, names
  <1>6. k \in 1..len
    BY <1>1, <1>2
  <1>7. \A j \in 1..(k - 1) : j \in 1..len /\ names[j] # names[k]
    <2> TAKE j \in 1..(k - 1)
    <2>1. j \in 1..len /\ j # k
      BY <1>6
    <2> QED
      BY <1>2, <1>6, <2>1 DEF IsInjective
  <1>8. /\ Owned' /\ DOMAIN endpoints' = DOMAIN endpoints
        /\ \A i \in DOMAIN endpoints : endpoints'[i].name = endpoints[i].name
        /\ \A i \in DOMAIN endpoints : endpoints[i].name # n => endpoints'[i] = endpoints[i]
        /\ \A i \in DOMAIN endpoints : endpoints[i].name = n => endpoints'[i].order = k - 1
    <2>1. CASE n \in NamesIn(seen)
      <3>1. id \in DOMAIN endpoints /\ seen[id].name = n /\ seen[id] \in Rows
        BY <1>1, <1>3, <2>1, IdOfName DEF IsTable
      <3>2. row \in Rows /\ row.name = n /\ row.order = k - 1
        BY <1>1, <3>1 DEF Rows
      <3>3. endpoints[id].name = n
        BY <1>3, <3>1
      <3> HIDE DEF row, id, n
      <3>4. CanWrite(id, row)
        BY <1>0, <3>1, <3>2, <3>3 DEF CanWrite, TableOK, NamesUnique
      <3>5. UpdateRow(id, row)
        BY <1>4, <2>1, <3>4
      <3>6. /\ Owned' /\ DOMAIN endpoints' = DOMAIN endpoints /\ endpoints'[id] = row
            /\ \A i \in DOMAIN endpoints \ {id} : endpoints'[i] = endpoints[i]
        BY <1>0, <3>2, <3>4, <3>5, UpdateKeeps
      <3>7. \A i \in DOMAIN endpoints : endpoints[i].name = n => i = id
        BY <1>0, <3>1, <3>3 DEF TableOK, NamesUnique
      <3> QED
        BY <3>2, <3>3, <3>6, <3>7
    <2>2. CASE n \notin NamesIn(seen)
      <3>1. UNCHANGED tableVars
        BY <1>4, <2>2
      <3>2. \A i \in DOMAIN endpoints : endpoints[i].name # n
        BY <1>3, <2>2 DEF NamesIn
      <3> HIDE DEF n
      <3> QED
        BY <1>0, <3>1, <3>2 DEF tableVars, Owned
    <2> QED
      BY <2>1, <2>2
  <1> HIDE DEF seen
  <1>9. Reordering(h)'
    <2>1. DOMAIN seen = DOMAIN endpoints' /\ \A i \in DOMAIN endpoints' : seen[i].name = endpoints'[i].name
      BY <1>3, <1>8
    <2>2. k + 1 <= Len(names) + 1
      BY <1>2, <1>6
    <2>3. ASSUME NEW j \in 1..k, NEW i \in DOMAIN endpoints', endpoints'[i].name = names[j]
          PROVE  endpoints'[i].order = j - 1
      <3>1. CASE j = k
        BY <1>8, <2>3, <3>1
      <3>2. CASE j # k
        <4>1. j \in 1..(k - 1)
          BY <1>6, <3>2
        <4> QED
          BY <1>3, <1>7, <1>8, <2>3, <4>1
      <3> QED
        BY <3>1, <3>2
    <2>4. (k + 1) - 1 = k
      BY <1>6
    <2>5. handler'[h].request.names = names
      BY <1>5 DEF names
    <2> QED
      BY <1>5, <2>1, <2>2, <2>3, <2>4, <2>5 DEF Reordering
  <1>10. StageOK(h)'
    BY <1>5, <1>9 DEF StageOK, KeyOwned, Reloading, SavingSame, At
  <1> QED
    BY <1>1, <1>5, <1>8, <1>10, Solo DEF At, Quiet

(* reloadConfig: one after the other, the three copies become what the table says. *)
LEMMA ReloadSettled ==
  ASSUME TInv, Settled, overlaps = 0, NEW h \in Handlers
  PROVE  /\ LoadFromStorage(h) => Settled'
         /\ StoreConfig(h) => Settled'
         /\ ApplyConfig(h) => Settled'
  <1>0. /\ HandlersTyped /\ Typed(h, handler[h]) /\ DOMAIN handler = Handlers /\ Owned /\ StageOK(h)
    BY DEF TInv, HandlersTyped, Settled
  <1>1. ASSUME LoadFromStorage(h) PROVE Settled'
    <2>1. /\ handler'[h] = [step |-> "store", config |-> Loaded]
          /\ \A g \in Handlers \ {h} : handler'[g] = handler[g]
          /\ UNCHANGED <<endpoints, pool>> /\ ~ At(h, "idle")
      BY <1>0, <1>1 DEF LoadFromStorage, tableVars, At
    <2>2. Loaded.list = Listing(endpoints)
      BY DEF Loaded
    <2>3. StageOK(h)'
      BY <2>1, <2>2 DEF StageOK, KeyOwned, Reordering, Reloading, SavingSame, At
    <2>4. Owned' /\ handler'[h].step \notin Quiet
      BY <1>0, <2>1 DEF Owned, Quiet
    <2> QED
      BY <2>1, <2>3, <2>4, Solo
  <1>2. ASSUME StoreConfig(h) PROVE Settled'
    <2>1. /\ handler[h].step = "store" /\ ~ At(h, "idle") /\ UNCHANGED <<endpoints, pool>>
          /\ adminConfig' = handler[h].config /\ "config" \in DOMAIN handler[h]
      BY <1>0, <1>2 DEF StoreConfig, tableVars, At, Typed
    <2>2. /\ handler'[h].step = "apply" /\ handler'[h].config = handler[h].config
          /\ \A g \in Handlers \ {h} : handler'[g] = handler[g]
      BY <1>0, <1>2, <2>1, Going DEF StoreConfig
    <2>3. handler[h].config.list = Listing(endpoints)
      BY <1>0, <2>1 DEF StageOK, Reloading
    <2>4. StageOK(h)'
      BY <2>1, <2>2, <2>3 DEF StageOK, KeyOwned, Reordering, Reloading, SavingSame, At
    <2>5. Owned' /\ handler'[h].step \notin Quiet
      BY <1>0, <2>1, <2>2 DEF Owned, Quiet
    <2> QED
      BY <2>1, <2>2, <2>4, <2>5, Solo
  <1>3. ASSUME ApplyConfig(h) PROVE Settled'
    <2>1. /\ handler[h].step = "apply" /\ ~ At(h, "idle") /\ UNCHANGED <<endpoints, pool, adminConfig>>
          /\ proxyConfig' = handler[h].config.list
      BY <1>3 DEF ApplyConfig, UpdateConfig, tableVars, At
    <2>2. Agree'
      BY <1>0, <2>1 DEF StageOK, Reloading, Agree
    <2>3. handler'[h] = Idle /\ \A g \in Handlers \ {h} : handler'[g] = handler[g]
      BY <1>0, <1>3, DoneMoves DEF ApplyConfig
    <2>4. StageOK(h)' /\ Owned'
      BY <1>0, <2>1, <2>3 DEF Idle, StageOK, KeyOwned, Reordering, Reloading, SavingSame, At, Owned
    <2> QED
      BY <2>1, <2>2, <2>3, <2>4, Solo
  <1> QED
    BY <1>1, <1>2, <1>3

(* SaveToStorage, when nothing has been changed since the last reload. *)
LEMMA SaveBeginsSettled ==
  ASSUME TInv, Settled, overlaps = 0, NEW h \in Handlers, BeginSave(h)
  PROVE  Settled'
  <1> DEFINE L == adminConfig.list
             s == [step |-> "saving", config |-> adminConfig, next |-> 1, names |-> NamesIn(endpoints)]
  <1>1. /\ handler[h].step = "save" /\ ~ At(h, "idle") /\ handler[h].step \in Quiet
        /\ UNCHANGED <<endpoints, pool, adminConfig, proxyConfig>>
    BY DEF BeginSave, tableVars, proxyVars, At, Quiet
  <1>2. handler'[h] = s /\ \A g \in Handlers \ {h} : handler'[g] = handler[g]
    BY DEF BeginSave, TInv, HandlersTyped
  <1>3. L = Listing(endpoints) /\ proxyConfig = L
    BY <1>1, SoleAgree DEF Agree
  <1>4. IsTable(endpoints) /\ NamesUnique(endpoints)
    BY DEF TInv, TableOK
  <1>5. /\ L \in Listings /\ Distinct(L)
        /\ \A k \in 1..Len(L) : \E id \in DOMAIN endpoints : L[k] = Entry(id)
        /\ \A id \in DOMAIN endpoints : \E k \in 1..Len(L) : L[k] = Entry(id)
    BY <1>3, <1>4, ListingLists DEF Distinct, Entry
  <1>6. Len(L) \in Nat
    BY <1>5 DEF Listings
  <1> HIDE DEF L
  <1>7. NamesIn(endpoints) = {L[k].name : k \in 1..Len(L)}
    <2>1. \A id : Entry(id).name = endpoints[id].name
      BY DEF Entry
    <2> QED
      BY <1>5, <2>1 DEF NamesIn
  <1>8. /\ s.next = 1 /\ s.names = NamesIn(endpoints) /\ s.config.list = L /\ s.step = "saving"
    BY DEF L
  <1> HIDE DEF s
  <1>9. Saved(s, L)'
    <2>1. 1 \in 1..(Len(L) + 1) /\ 1..(1 - 1) = {}
      BY <1>6
    <2>2. adminConfig'.list = L' /\ proxyConfig' = L'
      BY <1>1, <1>3 DEF L
    <2>3. UNCHANGED L
      BY <1>1 DEF L
    <2>4. \A id : Entry(id)' = Entry(id)
      BY <1>1 DEF Entry
    <2>5. s' = s
      BY <1>1 DEF s
    <2> QED
      BY <1>1, <1>5, <1>7, <1>8, <2>1, <2>2, <2>3, <2>4, <2>5 DEF Saved
  <1>10. StageOK(h)'
    <2>1. SavingSame(h)'
      <3>1. s' = s /\ UNCHANGED L
        BY <1>1 DEF s, L
      <3> QED
        BY <1>2, <1>8, <1>9, <3>1 DEF SavingSame
    <2> QED
      BY <1>2, <1>8, <2>1 DEF StageOK, KeyOwned, Reordering, Reloading
  <1>11. Owned' /\ handler'[h].step \notin Quiet
    BY <1>1, <1>2, <1>8 DEF Settled, Owned, Quiet
  <1> QED
    BY <1>1, <1>2, <1>10, <1>11, Solo

\* While an endpoint is left to save, its name is known and in the table; when
\* none is left, no name is either, and the table lists what was saved.
LEMMA SavingFacts ==
  ASSUME TInv, Settled, overlaps = 0, NEW h \in Handlers, At(h, "saving")
  PROVE  LET L == handler[h].config.list IN
         /\ Saved(handler[h], L) /\ L \in Listings
         /\ Saving(h) => /\ NextToSave(h).name \in handler[h].names
                         /\ NextToSave(h).name \in NamesIn(endpoints)
         /\ ~ Saving(h) => handler[h].names = {} /\ Listing(endpoints) = L
  <1> DEFINE L == handler[h].config.list
             k == handler[h].next
  <1>1. Saved(handler[h], L)
    BY DEF Settled, StageOK, SavingSame
  <1>2. L \in Seq([name : Names, enabled : BOOLEAN]) /\ L \in Listings
    BY DEF TInv, HandlersTyped, Typed, At, Configs, Listings
  <1>3. Saving(h) <=> k <= Len(L)
    BY DEF Saving
  <1>4. NextToSave(h) = L[k]
    BY DEF NextToSave
  <1>5. IsTable(endpoints) /\ NamesUnique(endpoints)
    BY DEF TInv, TableOK
  <1>6. \A i : Entry(i).name = endpoints[i].name
    BY DEF Entry
  <1>7. Len(L) \in Nat /\ k \in 1..(Len(L) + 1)
    BY <1>1, <1>2 DEF Saved
  <1>8. handler[h].names = {L[j].name : j \in k..Len(L)}
    BY <1>1 DEF Saved
  <1> HIDE DEF L, k
  <1>9. ASSUME Saving(h)
        PROVE  L[k].name \in handler[h].names /\ L[k].name \in NamesIn(endpoints)
    <2>1. k \in 1..Len(L) /\ k \in k..Len(L)
      BY <1>3, <1>7, <1>9
    <2>2. PICK id \in DOMAIN endpoints : L[k] = Entry(id)
      BY <1>1, <2>1 DEF Saved
    <2> QED
      BY <1>6, <1>8, <2>1, <2>2 DEF NamesIn
  <1>10. ASSUME ~ Saving(h)
         PROVE  handler[h].names = {} /\ Listing(endpoints) = L
    <2> DEFINE n == Len(L)
    <2>1. k = n + 1
      BY <1>3, <1>7, <1>10
    <2>2. handler[h].names = {}
      BY <1>7, <1>8, <2>1
    <2>3. \A j \in 1..n, i \in DOMAIN endpoints : endpoints[i].name = L[j].name => endpoints[i].order = j - 1
      <3>1. k - 1 = n
        BY <1>7, <2>1
      <3>2. \A j \in 1..(k - 1), i \in DOMAIN endpoints :
                endpoints[i].name = L[j].name => endpoints[i].order = j - 1
        BY <1>1 DEF Saved, k
      <3> QED
        BY <3>1, <3>2
    <2> DEFINE q == [j \in 1..n |-> IdOf(endpoints, L[j].name)]
    <2>4. \A j \in 1..n : /\ q[j] \in DOMAIN endpoints /\ Entry(q[j]) = L[j]
                          /\ endpoints[q[j]].name = L[j].name
      <3> TAKE j \in 1..n
      <3>1. PICK id \in DOMAIN endpoints : L[j] = Entry(id)
        BY <1>1 DEF Saved
      <3>2. L[j].name \in NamesIn(endpoints) /\ endpoints[id].name = L[j].name
        BY <1>6, <3>1 DEF NamesIn
      <3>3. IdOf(endpoints, L[j].name) = id
        BY <1>5, <3>2, IdOfName DEF NamesUnique
      <3> QED
        BY <3>1, <3>2, <3>3
    <2>5. \A id \in DOMAIN endpoints : \E j \in 1..n : q[j] = id
      <3> TAKE id \in DOMAIN endpoints
      <3>1. PICK j \in 1..n : L[j] = Entry(id)
        BY <1>1 DEF Saved
      <3>2. endpoints[q[j]].name = endpoints[id].name
        BY <1>6, <2>4, <3>1
      <3> QED
        BY <1>5, <2>4, <3>2 DEF NamesUnique
    <2>6. q \in [1..n -> DOMAIN endpoints] /\ n \in Nat
      BY <1>7, <2>4
    <2>7. \A j \in 1..n : endpoints[q[j]].order = j - 1
      BY <2>3, <2>4
    <2> HIDE DEF q, n
    <2>8. Order(endpoints) = q
      BY <1>5, <2>5, <2>6, <2>7, OrderByNumber
    <2>9. Listing(endpoints) = [j \in 1..n |-> Entry(q[j])]
      BY <2>6, <2>8, FunctionIsSeq DEF Listing, Entry
    <2>10. Listing(endpoints) = [j \in 1..n |-> L[j]]
      BY <2>4, <2>9
    <2>11. L = [j \in 1..n |-> L[j]]
      BY <1>2 DEF n
    <2> QED
      BY <2>2, <2>10, <2>11
  <1> QED
    BY <1>1, <1>2, <1>4, <1>9, <1>10 DEF L, k

\* An endpoint is written back as it is, at its place in the list.
LEMMA SaveKnownSame ==
  ASSUME TInv, Settled, overlaps = 0, NEW h \in Handlers, SaveKnown(h)
  PROVE  LET k == handler[h].next
             L == handler[h].config.list
         IN  /\ k \in 1..Len(L) /\ DOMAIN endpoints' = DOMAIN endpoints
             /\ \A i \in DOMAIN endpoints : Entry(i)' = Entry(i)
             /\ \A i \in DOMAIN endpoints : endpoints[i].name # L[k].name => endpoints'[i] = endpoints[i]
             /\ \A i \in DOMAIN endpoints : endpoints[i].name = L[k].name => endpoints'[i].order = k - 1
  <1> DEFINE k == handler[h].next
             L == handler[h].config.list
             row == [name |-> L[k].name, enabled |-> L[k].enabled, order |-> k - 1]
  <1>1. /\ At(h, "saving") /\ Saving(h) /\ k <= Len(L) /\ L[k].name \in NamesIn(endpoints)
        /\ endpoints' = [endpoints EXCEPT ![IdOf(endpoints, L[k].name)] = row]
    BY DEF SaveKnown, Saving, NextToSave
  <1>2. Saved(handler[h], L) /\ L \in Listings
    BY <1>1, SavingFacts
  <1>3. k \in 1..Len(L)
    BY <1>1, <1>2 DEF Saved, Listings
  <1>4. NamesUnique(endpoints)
    BY DEF TInv, TableOK
  <1> HIDE DEF k, L
  <1>5. PICK id \in DOMAIN endpoints : id = IdOf(endpoints, L[k].name) /\ endpoints[id].name = L[k].name
    BY <1>1, IdOfName
  <1>6. /\ DOMAIN endpoints' = DOMAIN endpoints /\ endpoints'[id] = row
        /\ \A i \in DOMAIN endpoints \ {id} : endpoints'[i] = endpoints[i]
    BY <1>1, <1>5
  <1>7. Entry(id) = L[k]
    <2>1. PICK i \in DOMAIN endpoints : L[k] = Entry(i)
      BY <1>2, <1>3 DEF Saved
    <2>2. i = id
      BY <1>4, <1>5, <2>1 DEF Entry, NamesUnique
    <2> QED
      BY <2>1, <2>2
  <1>8. Entry(id)' = Entry(id)
    <2>1. Entry(id)' = [name |-> row.name, enabled |-> row.enabled]
      BY <1>6 DEF Entry
    <2>2. Entry(id)' = [name |-> L[k].name, enabled |-> L[k].enabled]
      BY <2>1
    <2>3. Entry(id).name = L[k].name /\ Entry(id).enabled = L[k].enabled
      BY <1>7
    <2> QED
      BY <2>2, <2>3 DEF Entry
  <1>9. \A i \in DOMAIN endpoints : Entry(i)' = Entry(i)
    BY <1>6, <1>8 DEF Entry
  <1>10. \A i \in DOMAIN endpoints : endpoints[i].name = L[k].name => i = id
    BY <1>4, <1>5 DEF NamesUnique
  <1>11. endpoints'[id].order = k - 1
    BY <1>6
  <1> HIDE DEF row
  <1> QED
    BY <1>3, <1>5, <1>6, <1>9, <1>10, <1>11 DEF k, L

(* The steps of a save, for a handler that is alone.                         *)
LEMMA SaveStepsSettled ==
  ASSUME TInv, Settled, overlaps = 0, NEW h \in Handlers
  PROVE  /\ SaveKnown(h) => Settled'
         /\ ~ SaveNew(h) /\ ~ SaveFails(h) /\ ~ SaveDeletes(h)
         /\ EndSave(h) => Settled'
  <1>0. /\ HandlersTyped /\ Typed(h, handler[h]) /\ DOMAIN handler = Handlers /\ Owned
        /\ TableOK
    BY DEF TInv, HandlersTyped, Settled
  <1>1. ASSUME SaveKnown(h) PROVE Settled'
    <2>1. PICK k, L, names :
              /\ k = handler[h].next /\ L = handler[h].config.list /\ names = handler[h].names
      OBVIOUS
    <2>2. /\ At(h, "saving") /\ handler[h].step = "saving" /\ SavedOne(h) /\ NextToSave(h) = L[k]
          /\ UNCHANGED <<pool, adminConfig, proxyConfig>>
      BY <1>1, <2>1 DEF SaveKnown, Saving, NextToSave, At, proxyVars
    <2>3. Saved(handler[h], L) /\ L \in Listings
      BY <2>1, <2>2, SavingFacts
    <2>4. /\ k \in 1..Len(L) /\ DOMAIN endpoints' = DOMAIN endpoints
          /\ \A i \in DOMAIN endpoints : Entry(i)' = Entry(i)
          /\ \A i \in DOMAIN endpoints : endpoints[i].name # L[k].name => endpoints'[i] = endpoints[i]
          /\ \A i \in DOMAIN endpoints : endpoints[i].name = L[k].name => endpoints'[i].order = k - 1
      BY <1>1, <2>1, SaveKnownSame
    <2>5. \A i \in DOMAIN endpoints : endpoints'[i].name = endpoints[i].name
      <3> TAKE i \in DOMAIN endpoints
      <3>1. Entry(i).name = endpoints[i].name /\ Entry(i)'.name = endpoints'[i].name
        BY DEF Entry
      <3> QED
        BY <2>4, <3>1
    <2>6. /\ handler'[h].next = k + 1 /\ handler'[h].names = names \ {L[k].name}
          /\ handler'[h].config = handler[h].config /\ handler'[h].step = "saving"
          /\ \A g \in Handlers \ {h} : handler'[g] = handler[g]
      BY <1>0, <2>1, <2>2 DEF SavedOne, Typed
    <2>7. Len(L) \in Nat
      BY <2>3 DEF Listings
    <2>8. names = {L[j].name : j \in k..Len(L)} /\ Distinct(L)
      BY <2>1, <2>3 DEF Saved
    <2>9. names \ {L[k].name} = {L[j].name : j \in (k + 1)..Len(L)}
      <3>1. k..Len(L) = (k + 1)..Len(L) \cup {k} /\ k \notin (k + 1)..Len(L)
        BY <2>4, <2>7
      <3>2. \A j \in (k + 1)..Len(L) : j \in 1..Len(L)
        BY <2>4, <2>7
      <3>3. \A j \in (k + 1)..Len(L) : L[j].name # L[k].name
        BY <2>4, <2>8, <3>1, <3>2 DEF Distinct
      <3> QED
        BY <2>8, <3>1, <3>3
    <2>10. \A j \in 1..k, i \in DOMAIN endpoints : endpoints'[i].name = L[j].name => endpoints'[i].order = j - 1
      <3> TAKE j \in 1..k, i \in DOMAIN endpoints
      <3> HAVE endpoints'[i].name = L[j].name
      <3>1. CASE j = k
        BY <2>4, <2>5, <3>1
      <3>2. CASE j # k
        <4>1. j \in 1..(k - 1) /\ j \in 1..Len(L)
          BY <2>4, <2>7, <3>2
        <4>2. L[j].name # L[k].name
          BY <2>4, <2>8, <3>2, <4>1 DEF Distinct
        <4>3. endpoints[i].order = j - 1
          BY <2>1, <2>3, <2>5, <4>1 DEF Saved
        <4> QED
          BY <2>4, <2>5, <4>2, <4>3
      <3> QED
        BY <3>1, <3>2
    <2>11. Saved(handler[h], L)'
      <3>1. k + 1 \in 1..(Len(L) + 1) /\ (k + 1) - 1 = k
        BY <2>4, <2>7
      <3>2. /\ adminConfig'.list = L /\ proxyConfig' = L /\ Distinct(L)
        BY <2>2, <2>3 DEF Saved
      <3>3. /\ \A id \in DOMAIN endpoints' : \E j \in 1..Len(L) : L[j] = Entry(id)'
            /\ \A j \in 1..Len(L) : \E id \in DOMAIN endpoints' : L[j] = Entry(id)'
        <4>1. /\ \A id \in DOMAIN endpoints : \E j \in 1..Len(L) : L[j] = Entry(id)
              /\ \A j \in 1..Len(L) : \E id \in DOMAIN endpoints : L[j] = Entry(id)
          BY <2>3 DEF Saved
        <4>2. \A id \in DOMAIN endpoints' : \E j \in 1..Len(L) : L[j] = Entry(id)'
          BY <2>4, <4>1
        <4>3. ASSUME NEW j \in 1..Len(L) PROVE \E id \in DOMAIN endpoints' : L[j] = Entry(id)'
          <5>1. PICK id \in DOMAIN endpoints : L[j] = Entry(id)
            BY <4>1
          <5>2. id \in DOMAIN endpoints' /\ L[j] = Entry(id)'
            BY <2>4, <5>1
          <5> QED
            BY <5>2
        <4> QED
          BY <4>2, <4>3
      <3> QED
        BY <2>4, <2>6, <2>9, <2>10, <3>1, <3>2, <3>3 DEF Saved, Distinct
    <2>12. StageOK(h)'
      <3>1. SavingSame(h)'
        BY <2>1, <2>6, <2>11 DEF SavingSame
      <3> QED
        BY <2>6, <3>1 DEF StageOK, KeyOwned, Reordering, Reloading
    <2>13. Owned'
      BY <1>0, <2>2, <2>4, <2>5 DEF Owned, NamesIn
    <2> QED
      BY <2>2, <2>6, <2>12, <2>13, Solo DEF Quiet, At
  <1>2. ~ SaveNew(h) /\ ~ SaveFails(h) /\ ~ SaveDeletes(h)
    <2>1. SaveNew(h) \/ SaveFails(h) \/ SaveDeletes(h) => At(h, "saving")
      BY DEF SaveNew, SaveFails, SaveDeletes, Saving
    <2> QED
      BY <2>1, SavingFacts DEF SaveNew, SaveFails, SaveDeletes
  <1>3. ASSUME EndSave(h) PROVE Settled'
    <2>1. At(h, "saving") /\ ~ Saving(h) /\ Done(h) /\ UNCHANGED <<endpoints, pool, adminConfig, proxyConfig>>
      BY <1>3 DEF EndSave, proxyVars
    <2>2. Agree
      <3>1. /\ Saved(handler[h], handler[h].config.list)
            /\ Listing(endpoints) = handler[h].config.list
        BY <2>1, SavingFacts
      <3> QED
        BY <3>1 DEF Saved, Agree
    <2>3. Agree' /\ Owned'
      BY <1>0, <2>1, <2>2 DEF Agree, Owned
    <2>4. handler'[h] = Idle /\ \A g \in Handlers \ {h} : handler'[g] = handler[g]
      BY <1>0, <2>1, DoneMoves
    <2>5. StageOK(h)'
      BY <2>4 DEF Idle, StageOK, KeyOwned, Reordering, Reloading, SavingSame, At
    <2> QED
      BY <2>1, <2>3, <2>4, <2>5, Solo DEF At
  <1> QED
    BY <1>1, <1>2, <1>3

(* A restart loads everything anew; the traffic changes none of the copies. *)
LEMMA RestartSettled ==
  ASSUME TInv, Settled, overlaps = 0, Restart
  PROVE  Settled'
  <1>1. \A h \in Handlers : handler'[h] = Idle
    BY DEF Restart
  <1>2. Sole' /\ \A h \in Handlers : StageOK(h)'
    BY <1>1 DEF Idle, Sole, StageOK, KeyOwned, Reordering, Reloading, SavingSame, At
  <1>3. Agree'
    BY DEF Restart, Started, Agree
  <1>4. Owned'
    <2>1. Owned /\ UNCHANGED pool
      BY DEF Settled, Restart
    <2>2. CASE endpoints = <<>>
      BY <2>1, <2>2 DEF Owned, NamesIn
    <2>3. CASE endpoints # <<>>
      BY <2>1, <2>3 DEF Owned, Restart
    <2> QED
      BY <2>2, <2>3
  <1> QED
    BY <1>2, <1>3, <1>4 DEF Settled

(* A step that touches neither tables nor copies nor handlers.               *)
LEMMA SameSettled ==
  ASSUME Settled, UNCHANGED <<endpoints, pool, adminConfig, proxyConfig, handler, overlaps>>
  PROVE  Settled'
  <1>1. Sole' = Sole /\ Agree' = Agree /\ Owned' = Owned
    BY DEF Sole, At, Agree, Owned
  <1>2. \A h \in Handlers : StageOK(h)' = StageOK(h)
    BY DEF StageOK, KeyOwned, Reordering, Reloading, SavingSame, Saved, Entry, At
  <1> QED
    BY <1>1, <1>2 DEF Settled

(* Every step keeps the agreement, as long as no two handlers overlap.       *)
LEMMA StepSettled ==
  ASSUME TInv, Settled, [Next]_vars
  PROVE  Settled'
  <1>1. CASE UNCHANGED vars
    BY <1>1, SameSettled DEF vars, tableVars, proxyVars
  <1>2. CASE Proxy
    BY <1>2, SameSettled DEF Proxy, RotateEndpoint, FailRequest, tableVars
  <1>3. CASE Restart
    <2>1. CASE overlaps = 0
      BY <1>3, <2>1, RestartSettled
    <2>2. CASE overlaps # 0
      BY <1>3, <2>2 DEF Restart, Settled
    <2> QED
      BY <2>1, <2>2
  <1>4. ASSUME NEW h \in Handlers, Handle(h) PROVE Settled'
    <2>1. CASE overlaps = 0
      BY <1>4, <2>1, QuietStepsSettled, TableStepsSettled, ReorderStepSettled, ReloadSettled,
         SaveBeginsSettled, SaveStepsSettled DEF Handle
    <2>2. CASE overlaps # 0
      <3>1. overlaps' # 0
        <4>1. ASSUME NEW req \in Asked(h), Receive(h, req) PROVE overlaps' # 0
          BY <2>2, <4>1 DEF Receive, TInv, CopiesOK
        <4>2. ASSUME \/ Refuse(h) \/ ReadEndpoints(h) \/ CreateEndpoint(h) \/ UpdateEndpoint(h) \/ WriteFails(h)
                     \/ DeleteEndpoint(h) \/ ForgetState(h) \/ AddToken(h) \/ ReorderNext(h) \/ Reordered(h)
              PROVE  overlaps' # 0
          BY <2>2, <4>2 DEF Refuse, ReadEndpoints, CreateEndpoint, UpdateEndpoint, WriteFails,
             DeleteEndpoint, ForgetState, AddToken, ReorderNext, Reordered
        <4>3. ASSUME \/ LoadFromStorage(h) \/ StoreConfig(h) \/ ApplyConfig(h)
                     \/ RefusePort(h) \/ PassLock(h) \/ UpdatePort(h)
                     \/ BeginSave(h) \/ SaveKnown(h) \/ SaveNew(h) \/ SaveFails(h) \/ SaveDeletes(h) \/ EndSave(h)
                     \/ SwitchEndpoint(h)
              PROVE  overlaps' # 0
          BY <2>2, <4>3 DEF LoadFromStorage, StoreConfig, ApplyConfig, RefusePort, PassLock, UpdatePort,
             BeginSave, SaveKnown, SaveNew, SaveFails, SaveDeletes, EndSave, SwitchEndpoint
        <4> QED
          BY <1>4, <4>1, <4>2, <4>3 DEF Handle
      <3> QED
        BY <3>1 DEF Settled
    <2> QED
      BY <2>1, <2>2
  <1> QED
    BY <1>1, <1>2, <1>3, <1>4 DEF Next

(* At the start all copies agree.                                            *)
LEMMA InitSettled == Init => Settled
  <1> SUFFICES ASSUME Init PROVE Settled
    OBVIOUS
  <1>1. \A h \in Handlers : handler[h] = Idle
    BY DEF Init
  <1>2. Sole /\ \A h \in Handlers : StageOK(h)
    BY <1>1 DEF Idle, Sole, StageOK, KeyOwned, Reordering, Reloading, SavingSame, At
  <1>3. Agree /\ Owned
    BY DEF Init, Started, Agree, Owned
  <1> QED
    BY <1>2, <1>3 DEF Settled

(* The types and the agreement hold in every behaviour.                      *)
LEMMA SettledInvariant == Spec => [](TInv /\ Settled)
  <1>1. Init => TInv /\ Settled
    BY InitTyped, InitSettled
  <1>2. TInv /\ Settled /\ [Next]_vars => (TInv /\ Settled)'
    BY StepTyped, StepSettled
  <1> QED
    BY <1>1, <1>2, PTL DEF Spec

-----------------------------------------------------------------------------
(* What it comes to.                                                         *)

(* Every key in a pool belongs to an endpoint that exists, through renames,    *)
(* deletions, keys typed into the form, saves and restarts.                    *)
THEOREM TokensStayOwned == Spec => []TokensOwned
  <1>1. Settled => TokensOwned
    BY DEF Settled, Owned, TokensOwned
  <1> QED
    BY <1>1, SettledInvariant, PTL

(* Between two requests of the administrator, the table, the web API's copy and *)
(* the proxy's list the same endpoints.                                         *)
THEOREM CopiesAgree == Spec => []SettledConfig
  <1>1. Settled => SettledConfig
    <2> SUFFICES ASSUME Settled, overlaps = 0, AllIdle PROVE Agree
      BY DEF SettledConfig, Agree
    <2>1. \A h \in Handlers : handler[h].step \in Quiet
      BY DEF AllIdle, At, Quiet
    <2> QED
      BY <2>1 DEF Settled
  <1> QED
    BY <1>1, SettledInvariant, PTL

(* Saving the settings neither changes nor adds nor deletes an endpoint or a key. *)
THEOREM SavesAreHarmless == Spec => SaveIsHarmless
  <1>1. ASSUME TInv, Settled, overlaps = 0, NEW h \in Handlers, SaveStep(h)
        PROVE  Content' = Content /\ pool' = pool
    <2>1. SaveKnown(h)
      BY <1>1, SaveStepsSettled DEF SaveStep
    <2>2. DOMAIN endpoints' = DOMAIN endpoints /\ \A i \in DOMAIN endpoints : Entry(i)' = Entry(i)
      BY <1>1, <2>1, SaveKnownSame
    <2>3. Content = {Entry(i) : i \in DOMAIN endpoints} /\ Content' = {Entry(i)' : i \in DOMAIN endpoints'}
      BY DEF Content, Entry
    <2>4. Content' = Content
      BY <2>2, <2>3
    <2> QED
      BY <2>1, <2>4 DEF SaveKnown
  <1>2. TInv /\ Settled /\ [Next]_vars =>
            [overlaps = 0 => \A h \in Handlers : SaveStep(h) => Content' = Content /\ pool' = pool]_vars
    BY <1>1
  <1> QED
    BY <1>2, SettledInvariant, PTL DEF SaveIsHarmless, Spec

\* The table lists its endpoints as a reordering of all of them asked for.
LEMMA ReorderedList ==
  ASSUME TInv, Settled, overlaps = 0, NEW h \in Handlers, Reordered(h),
         {Request(h).names[k] : k \in DOMAIN Request(h).names} = NamesIn(endpoints)
  PROVE  [k \in DOMAIN Listing(endpoints) |-> Listing(endpoints)[k].name] = Request(h).names
  <1> DEFINE names == Request(h).names
  <1>1. /\ Typed(h, handler[h]) /\ StageOK(h) /\ IsTable(endpoints) /\ NamesUnique(endpoints)
    BY DEF TInv, TableOK, HandlersTyped, Settled
  <1>2. /\ handler[h].step = "reorder" /\ Request(h) \in Asked(h) /\ Request(h).kind = "reorder"
        /\ handler[h].next \in Nat /\ handler[h].next > Len(names)
    BY <1>1 DEF Reordered, At, Typed, Request
  <1>3. PICK n \in Nat : names \in [1..n -> Names] /\ Len(names) = n
    <2>1. PICK len \in 0..MaxEndpoints : names \in [1..len -> Names]
      BY <1>2, RequestFields
    <2>2. len \in Nat
      BY <2>1, AdminAssumption
    <2> HIDE DEF names
    <2> QED
      BY <2>1, <2>2, FunctionIsSeq
  <1>4. /\ handler[h].next <= n + 1
        /\ \A j \in 1..(handler[h].next - 1), i \in DOMAIN endpoints :
               endpoints[i].name = names[j] => endpoints[i].order = j - 1
    BY <1>1, <1>2, <1>3 DEF StageOK, Reordering, Request
  <1>5. \A j \in 1..n, i \in DOMAIN endpoints : endpoints[i].name = names[j] => endpoints[i].order = j - 1
    <2>1. handler[h].next - 1 = n
      BY <1>2, <1>3, <1>4
    <2> QED
      BY <1>4, <2>1
  <1>6. \A j \in 1..n : names[j] \in NamesIn(endpoints)
    BY <1>3
  <1>7. \A i \in DOMAIN endpoints : \E j \in 1..n : names[j] = endpoints[i].name
    <2> TAKE i \in DOMAIN endpoints
    <2>1. endpoints[i].name \in NamesIn(endpoints)
      BY DEF NamesIn
    <2> QED
      BY <1>3, <2>1
  <1> HIDE DEF names
  <1> DEFINE q == [j \in 1..n |-> IdOf(endpoints, names[j])]
  <1>8. \A j \in 1..n : q[j] \in DOMAIN endpoints /\ endpoints[q[j]].name = names[j]
    BY <1>6, IdOfName
  <1>9. \A i \in DOMAIN endpoints : \E j \in 1..n : q[j] = i
    <2> TAKE i \in DOMAIN endpoints
    <2>1. PICK j \in 1..n : names[j] = endpoints[i].name
      BY <1>7
    <2> QED
      BY <1>1, <1>8, <2>1 DEF NamesUnique
  <1>10. q \in [1..n -> DOMAIN endpoints] /\ \A j \in 1..n : endpoints[q[j]].order = j - 1
    BY <1>5, <1>8
  <1> HIDE DEF q
  <1>11. Order(endpoints) = q
    BY <1>1, <1>3, <1>9, <1>10, OrderByNumber
  <1>12. Listing(endpoints) = [j \in 1..n |-> Entry(q[j])]
    BY <1>3, <1>10, <1>11, FunctionIsSeq DEF Listing, Entry
  <1>13. \A i : Entry(i).name = endpoints[i].name
    BY DEF Entry
  <1>14. DOMAIN Listing(endpoints) = 1..n /\ \A j \in 1..n : Listing(endpoints)[j].name = names[j]
    BY <1>8, <1>12, <1>13
  <1>15. [k \in DOMAIN Listing(endpoints) |-> Listing(endpoints)[k].name] = [k \in 1..n |-> names[k]]
    BY <1>14
  <1>16. [k \in 1..n |-> names[k]] = names
    BY <1>3
  <1> QED
    BY <1>15, <1>16 DEF names

(* A reordering of all endpoints ends in the order asked for, for any list and  *)
(* whatever positions and ties there were.                                      *)
THEOREM ReorderingsTakeEffect == Spec => ReorderTakesEffect
  <1>1. TInv /\ Settled /\ [Next]_vars =>
            [overlaps = 0 => \A h \in Handlers :
                Reordered(h) /\ {Request(h).names[k] : k \in DOMAIN Request(h).names} = NamesIn(endpoints)
                => [k \in DOMAIN Listing(endpoints) |-> Listing(endpoints)[k].name] = Request(h).names]_vars
    BY ReorderedList
  <1> QED
    BY <1>1, SettledInvariant, PTL DEF ReorderTakesEffect, Spec

=============================================================================
