---------------------------- MODULE AdminConfig ----------------------------
(***************************************************************************)
(* Endpoint administration: the web API's handlers edit the endpoints      *)
(* table, reload the configuration from it and hand it to the running      *)
(* proxy, or save the configuration they hold in memory back to it.        *)
(*                                                                         *)
(* There are three copies of the endpoints: the table, Handler.config and  *)
(* Proxy.config.  A handler is a sequence of calls of the storage and of   *)
(* the proxy; each call is atomic (SQLiteStorage.mu, Proxy.mu), and other  *)
(* handlers and the traffic run in between.                                *)
(*                                                                         *)
(* An endpoint is its name and whether it is enabled; url, model, remark   *)
(* and transformer travel with `enabled`.  Every endpoint has a pool: the  *)
(* migration at start and every write force that mode, so the row's own    *)
(* key is always empty and neither cloning it nor moving it does anything. *)
(* SQLite's own errors are left out.                                       *)
(***************************************************************************)
EXTENDS Integers, Sequences, SequencesExt, FiniteSets

CONSTANTS
    Names,          \* what an endpoint may be called
    DefaultName,    \* the endpoint that is made when there is none
    Keys,           \* API keys that may be typed into the form
    Ports,
    FlagPort,       \* the port of the -port flag, or NoPort
    Handlers,       \* how many requests of the web API may be under way
    Kinds,          \* the requests each of them may be, see RequestKinds
    Traffic,        \* what the proxy may do meanwhile, see TrafficKinds
    MaxEndpoints,   \* bound: how many rows are ever inserted
    MaxOverlaps,    \* bound: after that many requests met others, no more come
    NoName, NoKey, NoPort

RequestKinds == {"create", "edit", "toggle", "delete", "reorder", "port", "config", "level", "switch"}
TrafficKinds == {"rotate", "fail", "restart"}

ASSUME AdminAssumption ==
    /\ DefaultName \in Names /\ NoName \notin Names
    /\ NoKey \notin Keys /\ NoPort \notin Ports
    /\ FlagPort \in Ports \cup {NoPort}
    /\ Kinds \in [Handlers -> SUBSET RequestKinds]
    /\ Traffic \subseteq TrafficKinds
    /\ MaxEndpoints \in Nat \ {0}
    /\ MaxOverlaps \in Nat

VARIABLES
    endpoints,    \* the table, by id
    lastId,       \* AUTOINCREMENT
    pool,         \* endpoint_credentials: who owns which key
    storedPort,   \* app_config
    adminConfig,  \* Handler.config
    proxyConfig,  \* Proxy.config
    current,      \* Proxy.currentIndex
    marked,       \* the names in Proxy.endpointStates
    handler,      \* the requests of the web API
    overlaps      \* how many of them came while another was under way
                  \* (not in the code)

tableVars == <<endpoints, lastId, pool, storedPort>>
proxyVars == <<proxyConfig, current, marked>>
vars == <<tableVars, adminConfig, proxyVars, handler, overlaps>>

Rows == [name : Names, enabled : BOOLEAN, order : Nat]
IsTable(table) == /\ DOMAIN table \subseteq 1..MaxEndpoints
                  /\ \A id \in DOMAIN table : table[id] \in Rows
Listings == Seq([name : Names, enabled : BOOLEAN])
Configs == [list : Listings, port : Ports, locked : BOOLEAN]

-----------------------------------------------------------------------------
(* The table.                                                              *)

NamesIn(table) == {table[id].name : id \in DOMAIN table}
IdOf(table, n) == CHOOSE id \in DOMAIN table : table[id].name = n
WithRow(table, id, row) ==
    [i \in DOMAIN table \cup {id} |-> IF i = id THEN row ELSE table[i]]
Without(table, n) ==
    [id \in {i \in DOMAIN table : table[i].name # n} |-> table[id]]

\* ORDER BY sort_order, and equal ones by id.
Before(table, i, j) ==
    \/ table[i].order < table[j].order
    \/ table[i].order = table[j].order /\ i < j
Place(table, id) == Cardinality({i \in DOMAIN table : Before(table, i, id)}) + 1

\* Mutant: the ORDER BY is missing.
OrderById(table) == SetToSortSeq(DOMAIN table, <)

\* SQLiteStorage.GetEndpoints
Order(table) ==
    [k \in 1..Cardinality(DOMAIN table) |-> CHOOSE id \in DOMAIN table : Place(table, id) = k]
Listing(table) ==
    [k \in 1..Len(Order(table)) |-> LET row == table[Order(table)[k]]
                                    IN  [name |-> row.name, enabled |-> row.enabled]]

\* LoadFromStorage.  PortLocked is not stored: it comes out FALSE.
Loaded == [list |-> Listing(endpoints), port |-> storedPort, locked |-> FALSE]

\* SQLiteStorage.SaveEndpoint, where the name is free.
InsertRow(row) ==
    /\ lastId < MaxEndpoints
    /\ lastId' = lastId + 1
    /\ endpoints' = WithRow(endpoints, lastId + 1, row)

\* SQLiteStorage.UpdateEndpoint by id.  It fails when the row is gone or another
\* one has the name; a rename takes the credentials along.
CanWrite(id, row) ==
    /\ id \in DOMAIN endpoints
    /\ \A i \in DOMAIN endpoints \ {id} : endpoints[i].name # row.name
\* Mutant: the credentials stay under the old name.
RenamePoolNot(old, new) == pool
RenamePool(old, new) ==
    {IF owned[1] = old THEN <<new, owned[2]>> ELSE owned : owned \in pool}
UpdateRow(id, row) ==
    /\ endpoints' = WithRow(endpoints, id, row)
    /\ pool' = RenamePool(endpoints[id].name, row.name)
    /\ UNCHANGED <<lastId, storedPort>>

\* SQLiteStorage.DeleteEndpoint, credentials first, under one lock.
DeleteRow(n) ==
    /\ endpoints' = Without(endpoints, n)
    /\ pool' = {owned \in pool : owned[1] # n}
    /\ UNCHANGED <<lastId, storedPort>>

-----------------------------------------------------------------------------
(* The running proxy.                                                      *)

\* getEnabledEndpoints: the enabled ones in their order; the k-th has k - 1 before it.
EnabledIn(list) == {i \in 1..Len(list) : list[i].enabled}
EnabledBefore(list, i) == Cardinality({j \in EnabledIn(list) : j < i})
Enabled(list) ==
    [k \in 1..Cardinality(EnabledIn(list)) |->
        list[CHOOSE i \in EnabledIn(list) : EnabledBefore(list, i) = k - 1]]
Running == Enabled(proxyConfig)

\* getCurrentEndpoint
Current == IF Running = <<>> THEN NoName ELSE Running[(current % Len(Running)) + 1].name

\* Mutant: the number is kept, whatever is at it now.
IndexInSame(list) == current
\* Mutant: every reload starts from the beginning.
IndexInFirst(list) == 0

\* Where UpdateConfig leaves currentIndex: on the endpoint it was on, if that
\* is still there, else at the start.
IndexIn(list) ==
    IF \E k \in 1..Len(list) : list[k].name = Current
    THEN (CHOOSE k \in 1..Len(list) : list[k].name = Current) - 1
    ELSE 0

\* Proxy.UpdateConfig, under Proxy.mu.  It also clears the cached list of models.
UpdateConfig(list) ==
    /\ proxyConfig' = list
    /\ current' = IndexIn(Enabled(list))
    /\ UNCHANGED marked

-----------------------------------------------------------------------------
(* The handlers.                                                           *)

Requests ==
    [kind : {"create"}, name : Names, enabled : BOOLEAN, key : Keys \cup {NoKey}]
    \cup [kind : {"edit"}, name : Names, to : Names, enabled : BOOLEAN, key : Keys \cup {NoKey}]
    \cup [kind : {"toggle"}, name : Names, enabled : BOOLEAN]
    \cup [kind : {"delete", "switch"}, name : Names]
    \cup [kind : {"reorder"}, names : UNION {[1..n -> Names] : n \in 0..MaxEndpoints}]
    \cup [kind : {"port"}, port : Ports]
    \cup [kind : {"config"}, port : Ports \cup {NoPort}]
    \cup [kind : {"level"}]

\* Lists of endpoints in a request of the page name each at most once.
Asked(h) == {req \in Requests : /\ req.kind \in Kinds[h]
                                /\ req.kind = "reorder" => IsInjective(req.names)}

Idle == [step |-> "idle"]
Steps == {"idle", "read", "insert", "write", "reorder", "forget", "key", "delete", "load", "store",
          "apply", "lock", "port", "save", "saving", "cleaning", "switch"}

At(h, step) == handler[h].step = step
Request(h) == handler[h].request
Goto(h, step) == handler' = [handler EXCEPT ![h].step = step]
Done(h) == handler' = [handler EXCEPT ![h] = Idle]

FirstStep(kind) ==
    CASE kind \in {"create", "edit", "toggle", "reorder"} -> "read"
      [] kind = "delete" -> "delete"
      [] kind = "port" -> "lock"
      [] kind = "config" -> "port"
      [] kind = "level" -> "save"
      [] kind = "switch" -> "switch"

Alone(h) == \A other \in Handlers \ {h} : At(other, "idle")

Receive(h, req) ==
    /\ At(h, "idle")
    /\ req.kind = "create" => lastId < MaxEndpoints
    /\ handler' = [handler EXCEPT ![h] = [step |-> FirstStep(req.kind), request |-> req]]
    /\ overlaps' = overlaps + (IF Alone(h) THEN 0 ELSE 1)
    /\ overlaps < MaxOverlaps \/ (overlaps = 0 /\ Alone(h))
    /\ UNCHANGED <<tableVars, adminConfig, proxyVars>>

\* What the request itself lets a handler refuse, from one reading of the table.
Refused(req, table) ==
    CASE req.kind = "create" -> req.name \in NamesIn(table)
      [] req.kind = "edit" -> \/ req.name \notin NamesIn(table)
                              \/ req.to # req.name /\ req.to \in NamesIn(table)
      [] req.kind = "toggle" -> req.name \notin NamesIn(table)
      [] req.kind = "reorder" -> FALSE
NextStep(kind) ==
    CASE kind = "create" -> "insert" [] kind = "reorder" -> "reorder" [] OTHER -> "write"

Refuse(h) ==
    /\ At(h, "read")
    /\ Refused(Request(h), endpoints)
    /\ Done(h)
    /\ UNCHANGED <<tableVars, adminConfig, proxyVars, overlaps>>

ReadEndpoints(h) ==
    /\ At(h, "read")
    /\ ~ Refused(Request(h), endpoints)
    /\ handler' = [handler EXCEPT ![h] = [step |-> NextStep(Request(h).kind),
                                          request |-> Request(h), seen |-> endpoints, next |-> 1]]
    /\ UNCHANGED <<tableVars, adminConfig, proxyVars, overlaps>>

\* createEndpoint: the new endpoint goes to the end of the list that was read.
CreateEndpoint(h) ==
    LET req == Request(h) IN
    /\ At(h, "insert")
    /\ req.name \notin NamesIn(endpoints)
    /\ InsertRow([name |-> req.name, enabled |-> req.enabled,
                  order |-> Cardinality(DOMAIN handler[h].seen)])
    /\ Goto(h, "key")
    /\ UNCHANGED <<pool, storedPort, adminConfig, proxyVars, overlaps>>

\* updateEndpoint and toggleEndpoint write back the whole row they read.
EditedRow(h) ==
    LET req == Request(h)
        old == handler[h].seen[IdOf(handler[h].seen, req.name)]
    IN  IF req.kind = "edit" THEN [old EXCEPT !.name = req.to, !.enabled = req.enabled]
                             ELSE [old EXCEPT !.enabled = req.enabled]

\* Mutant: toggling an endpoint does not reload.
UpdateEndpointOnly(h) ==
    LET id == IdOf(handler[h].seen, Request(h).name) IN
    /\ At(h, "write")
    /\ CanWrite(id, EditedRow(h))
    /\ UpdateRow(id, EditedRow(h))
    /\ IF Request(h).kind = "toggle" THEN Done(h)
       ELSE Goto(h, IF Request(h).to # Request(h).name THEN "forget" ELSE "key")
    /\ UNCHANGED <<adminConfig, proxyVars, overlaps>>

UpdateEndpoint(h) ==
    LET id == IdOf(handler[h].seen, Request(h).name) IN
    /\ At(h, "write")
    /\ CanWrite(id, EditedRow(h))
    /\ UpdateRow(id, EditedRow(h))
    /\ Goto(h, CASE Request(h).kind = "toggle" -> "load"
                 [] Request(h).kind = "edit" -> IF Request(h).to # Request(h).name THEN "forget" ELSE "key")
    /\ UNCHANGED <<adminConfig, proxyVars, overlaps>>

\* The two ways a write fails: the name is taken, the row is gone.  The handler
\* answers 500 and reloads nothing.
WriteFails(h) ==
    /\ \/ At(h, "insert") /\ Request(h).name \in NamesIn(endpoints)
       \/ At(h, "write") /\ ~ CanWrite(IdOf(handler[h].seen, Request(h).name), EditedRow(h))
    /\ Done(h)
    /\ UNCHANGED <<tableVars, adminConfig, proxyVars, overlaps>>

DeleteEndpoint(h) ==
    /\ At(h, "delete")
    /\ DeleteRow(Request(h).name)
    /\ Goto(h, "forget")
    /\ UNCHANGED <<adminConfig, proxyVars, overlaps>>

\* ForgetEndpointState
ForgetState(h) ==
    /\ At(h, "forget")
    /\ marked' = marked \ {Request(h).name}
    /\ Goto(h, IF Request(h).kind = "delete" THEN "load" ELSE "key")
    /\ UNCHANGED <<tableVars, adminConfig, proxyConfig, current, overlaps>>

\* addTokenToPool.  A key the pool has is not added again.
AddToken(h) ==
    LET req == Request(h) IN
    /\ At(h, "key")
    /\ pool' = IF req.key = NoKey THEN pool
               ELSE pool \cup {<<IF req.kind = "edit" THEN req.to ELSE req.name, req.key>>}
    /\ Goto(h, "load")
    /\ UNCHANGED <<endpoints, lastId, storedPort, adminConfig, proxyVars, overlaps>>

\* handleReorderEndpoints, one endpoint of the list at a time.  An endpoint that
\* the table did not have is passed over, and so is a write that fails.
ReorderNext(h) ==
    LET k    == handler[h].next
        seen == handler[h].seen
        n    == Request(h).names[k]
        row  == [seen[IdOf(seen, n)] EXCEPT !.order = k - 1]
    IN  /\ At(h, "reorder")
        /\ k <= Len(Request(h).names)
        /\ IF n \in NamesIn(seen) /\ CanWrite(IdOf(seen, n), row)
           THEN UpdateRow(IdOf(seen, n), row)
           ELSE UNCHANGED tableVars
        /\ handler' = [handler EXCEPT ![h].next = k + 1]
        /\ UNCHANGED <<adminConfig, proxyVars, overlaps>>

Reordered(h) ==
    /\ At(h, "reorder")
    /\ handler[h].next > Len(Request(h).names)
    /\ Goto(h, "load")
    /\ UNCHANGED <<tableVars, adminConfig, proxyVars, overlaps>>

-----------------------------------------------------------------------------
(* reloadConfig: LoadFromStorage, config.Store, Proxy.UpdateConfig.        *)

LoadFromStorage(h) ==
    /\ At(h, "load")
    /\ handler' = [handler EXCEPT ![h] = [step |-> "store", config |-> Loaded]]
    /\ UNCHANGED <<tableVars, adminConfig, proxyVars, overlaps>>

\* Mutant: only the proxy gets the new configuration.
StoreConfigNot(h) ==
    /\ At(h, "store")
    /\ Goto(h, "apply")
    /\ UNCHANGED <<tableVars, adminConfig, proxyVars, overlaps>>

StoreConfig(h) ==
    /\ At(h, "store")
    /\ adminConfig' = handler[h].config
    /\ Goto(h, "apply")
    /\ UNCHANGED <<tableVars, proxyVars, overlaps>>

ApplyConfig(h) ==
    /\ At(h, "apply")
    /\ UpdateConfig(handler[h].config.list)
    /\ Done(h)
    /\ UNCHANGED <<tableVars, adminConfig, overlaps>>

-----------------------------------------------------------------------------
(* Settings: the configuration in memory is changed and saved as a whole.  *)

\* handleConfigPort answers 403 when the port is locked.
RefusePort(h) ==
    /\ At(h, "lock")
    /\ adminConfig.locked
    /\ Done(h)
    /\ UNCHANGED <<tableVars, adminConfig, proxyVars, overlaps>>

PassLock(h) ==
    /\ At(h, "lock")
    /\ ~ adminConfig.locked
    /\ Goto(h, "port")
    /\ UNCHANGED <<tableVars, adminConfig, proxyVars, overlaps>>

\* Config.UpdatePort, which leaves a locked port alone.
UpdatePort(h) ==
    /\ At(h, "port")
    /\ adminConfig' = IF adminConfig.locked \/ Request(h).port = NoPort THEN adminConfig
                      ELSE [adminConfig EXCEPT !.port = Request(h).port]
    /\ Goto(h, "save")
    /\ UNCHANGED <<tableVars, proxyVars, overlaps>>

\* SaveToStorage reads which names there are, writes the endpoints in memory to
\* them by name, and deletes the names that are not in memory.
BeginSave(h) ==
    /\ At(h, "save")
    /\ handler' = [handler EXCEPT ![h] = [step |-> "saving", config |-> adminConfig, next |-> 1,
                                          names |-> NamesIn(endpoints)]]
    /\ UNCHANGED <<tableVars, adminConfig, proxyVars, overlaps>>

Saving(h) == At(h, "saving") /\ handler[h].next <= Len(handler[h].config.list)
NextToSave(h) == handler[h].config.list[handler[h].next]
SavedOne(h) ==
    handler' = [handler EXCEPT ![h].next = @ + 1, ![h].names = @ \ {NextToSave(h).name}]

SaveKnown(h) ==
    LET e == NextToSave(h) IN
    /\ Saving(h)
    /\ e.name \in handler[h].names /\ e.name \in NamesIn(endpoints)
    /\ endpoints' = [endpoints EXCEPT ![IdOf(endpoints, e.name)] =
                        [name |-> e.name, enabled |-> e.enabled, order |-> handler[h].next - 1]]
    /\ SavedOne(h)
    /\ UNCHANGED <<lastId, pool, storedPort, adminConfig, proxyVars, overlaps>>

SaveNew(h) ==
    LET e == NextToSave(h) IN
    /\ Saving(h)
    /\ e.name \notin handler[h].names /\ e.name \notin NamesIn(endpoints)
    /\ InsertRow([name |-> e.name, enabled |-> e.enabled, order |-> handler[h].next - 1])
    /\ SavedOne(h)
    /\ UNCHANGED <<pool, storedPort, adminConfig, proxyVars, overlaps>>

\* The name has come or gone since it was looked up: the save stops half-way.
SaveFails(h) ==
    /\ Saving(h)
    /\ (NextToSave(h).name \in handler[h].names) # (NextToSave(h).name \in NamesIn(endpoints))
    /\ Done(h)
    /\ UNCHANGED <<tableVars, adminConfig, proxyVars, overlaps>>

SaveDeletes(h) ==
    /\ At(h, "saving") /\ ~ Saving(h)
    /\ \E n \in handler[h].names :
          /\ DeleteRow(n)
          /\ handler' = [handler EXCEPT ![h].names = @ \ {n}]
    /\ UNCHANGED <<adminConfig, proxyVars, overlaps>>

EndSave(h) ==
    /\ At(h, "saving") /\ ~ Saving(h)
    /\ handler[h].names = {}
    /\ storedPort' = handler[h].config.port
    /\ Done(h)
    /\ UNCHANGED <<endpoints, lastId, pool, adminConfig, proxyVars, overlaps>>

-----------------------------------------------------------------------------
(* The traffic.                                                            *)

\* handleSwitchEndpoint, SetCurrentEndpoint
SwitchEndpoint(h) ==
    /\ At(h, "switch")
    /\ current' = IF \E k \in 1..Len(Running) : Running[k].name = Request(h).name
                  THEN (CHOOSE k \in 1..Len(Running) : Running[k].name = Request(h).name) - 1
                  ELSE current
    /\ Done(h)
    /\ UNCHANGED <<tableVars, adminConfig, proxyConfig, marked, overlaps>>

\* rotateEndpoint, and currentRequestEndpoint for each endpoint it passes over.
RotateEndpoint ==
    /\ "rotate" \in Traffic
    /\ Running # <<>>
    /\ current' = ((current % Len(Running)) + 1) % Len(Running)
    /\ UNCHANGED <<tableVars, adminConfig, proxyConfig, marked, handler, overlaps>>

\* recordEndpointError, setEndpointCooldown: a request to an endpoint fails.
FailRequest ==
    /\ "fail" \in Traffic
    /\ \E k \in 1..Len(proxyConfig) : /\ proxyConfig[k].enabled
                                      /\ marked' = marked \cup {proxyConfig[k].name}
    /\ UNCHANGED <<tableVars, adminConfig, proxyConfig, current, handler, overlaps>>

\* main: the configuration is loaded, an endpoint is made if there is none, and
\* the flag's port is set and locked.
Started(table, port) ==
    [list |-> Listing(table), port |-> IF FlagPort = NoPort THEN port ELSE FlagPort,
     locked |-> FlagPort # NoPort]
DefaultRow == [name |-> DefaultName, enabled |-> TRUE, order |-> 0]

Restart ==
    /\ "restart" \in Traffic
    /\ IF endpoints = <<>> THEN InsertRow(DefaultRow) ELSE UNCHANGED <<endpoints, lastId>>
    /\ adminConfig' = Started(endpoints', storedPort)
    /\ proxyConfig' = Listing(endpoints')
    /\ current' = 0 /\ marked' = {}
    /\ handler' = [h \in Handlers |-> Idle]
    /\ UNCHANGED <<pool, storedPort, overlaps>>

-----------------------------------------------------------------------------
\* The first start, on an empty database.
Init ==
    /\ endpoints = WithRow(<<>>, 1, DefaultRow)
    /\ lastId = 1
    /\ pool = {}
    /\ storedPort \in Ports
    /\ adminConfig = Started(endpoints, storedPort)
    /\ proxyConfig = Listing(endpoints)
    /\ current = 0
    /\ marked = {}
    /\ handler = [h \in Handlers |-> Idle]
    /\ overlaps = 0

Handle(h) ==
    \/ \E req \in Asked(h) : Receive(h, req)
    \/ Refuse(h) \/ ReadEndpoints(h) \/ CreateEndpoint(h) \/ UpdateEndpoint(h) \/ WriteFails(h)
    \/ DeleteEndpoint(h) \/ ForgetState(h) \/ AddToken(h) \/ ReorderNext(h) \/ Reordered(h)
    \/ LoadFromStorage(h) \/ StoreConfig(h) \/ ApplyConfig(h)
    \/ RefusePort(h) \/ PassLock(h) \/ UpdatePort(h)
    \/ BeginSave(h) \/ SaveKnown(h) \/ SaveNew(h) \/ SaveFails(h) \/ SaveDeletes(h) \/ EndSave(h)
    \/ SwitchEndpoint(h)

Proxy == RotateEndpoint \/ FailRequest

Next == (\E h \in Handlers : Handle(h)) \/ Proxy \/ Restart

Spec == Init /\ [][Next]_vars

-----------------------------------------------------------------------------
(* Properties.                                                             *)

HandlerOK(h) ==
    LET s == handler[h] IN
    /\ s.step \in Steps
    /\ s.step \notin {"idle", "store", "apply", "saving"} => s.request \in Asked(h)
    /\ s.step \in {"insert", "write", "reorder"} => IsTable(s.seen)
    /\ s.step \in {"store", "apply", "saving"} => s.config \in Configs

NamesUnique(table) ==
    \A i, j \in DOMAIN table : table[i].name = table[j].name => i = j

\* Types, and names are unique (endpoints.name is UNIQUE).
StoredOK ==
    /\ IsTable(endpoints) /\ DOMAIN endpoints \subseteq 1..lastId /\ lastId \in 0..MaxEndpoints
    /\ NamesUnique(endpoints)
    /\ pool \subseteq Names \X Keys
    /\ storedPort \in Ports
    /\ adminConfig \in Configs
    /\ proxyConfig \in Listings
    /\ marked \subseteq Names
    /\ overlaps \in Nat
    /\ \A h \in Handlers : HandlerOK(h)

\* Besides, currentIndex points at an enabled endpoint when there is one, on which
\* UpdateConfig relies when it looks up the endpoint to stay on.
TypeOK ==
    /\ StoredOK
    /\ current \in Nat /\ (Running # <<>> => current < Len(Running))

AllIdle == \A h \in Handlers : At(h, "idle")

\* Once a request of the administrator is answered, what is stored, what the web API
\* works on and what the proxy runs are one list: no handler forgets to reload, and
\* a restart in the middle of one repairs it.
SettledConfig ==
    overlaps = 0 /\ AllIdle =>
        adminConfig.list = Listing(endpoints) /\ proxyConfig = Listing(endpoints)

\* Every key in a pool belongs to an endpoint that exists: a rename takes the pool
\* along, a delete takes it away, and a key typed into the form goes to the name the
\* endpoint has by then, wherever a restart interrupts.
TokensOwned == overlaps = 0 => \A owned \in pool : owned[1] \in NamesIn(endpoints)

Content == {[name |-> endpoints[id].name, enabled |-> endpoints[id].enabled] :
               id \in DOMAIN endpoints}
SaveStep(h) == SaveKnown(h) \/ SaveNew(h) \/ SaveDeletes(h)

\* Saving a log level or a port writes every endpoint back and deletes the ones that
\* are not in memory; it must not change, bring back or delete any, nor its keys.
SaveIsHarmless ==
    [][overlaps = 0 => \A h \in Handlers : SaveStep(h) => Content' = Content /\ pool' = pool]_vars

\* A reload leaves the traffic on the endpoint it is on, if that endpoint is still
\* enabled, whatever else was edited, moved or deleted and however handlers overlap.
CurrentKept ==
    [][\A h \in Handlers :
          ApplyConfig(h) /\ (\E k \in 1..Len(Running') : Running'[k].name = Current)
          => Current' = Current]_vars

\* A reordering of all endpoints ends in the order that was asked for, whatever
\* positions and ties there were before.
ReorderTakesEffect ==
    [][overlaps = 0 => \A h \in Handlers :
          Reordered(h) /\ {Request(h).names[k] : k \in DOMAIN Request(h).names} = NamesIn(endpoints)
          => [k \in DOMAIN Listing(endpoints) |-> Listing(endpoints)[k].name] = Request(h).names]_vars

-----------------------------------------------------------------------------
(* What the documents say and the code does not keep.                      *)

\* types.go says of PortLocked "CLI forced port, cannot be changed via API", and
\* LockPort that it "locks the port so it cannot be changed via API": while the
\* flag is given, no request stores another port.
LockHolds == [][FlagPort # NoPort => storedPort' \in {storedPort, FlagPort}]_vars

\* SaveToStorage deletes, it says, "endpoints that no longer exist"; with handlers
\* that overlap it deletes ones that have just been made or renamed.
SaveDeletesNothing ==
    [][\A h \in Handlers : SaveStep(h) => NamesIn(endpoints) \subseteq NamesIn(endpoints')]_vars

\* ForgetEndpointState keeps, it says, a deleted or renamed endpoint from showing up
\* "as a ghost"; it is called before the proxy is told, and the next failure marks
\* the old name again.
NoGhosts == AllIdle => marked \subseteq NamesIn(endpoints)

=============================================================================
