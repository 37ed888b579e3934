# A TLA+ model of the WebSocket gateway

The gateway (`src/`) accepts WebSocket connections from vehicles, remembers
which vehicle is connected through which socket, records in a ScyllaDB table
which gateway host a vehicle is connected to, and forwards every message of a
vehicle as an HTTP request to a local application server whose answer it writes
back to the socket. This directory holds a model of it in TLA+, configurations
that check the model with TLC, and proofs checked by TLAPS.

    tlc -workers 2 -config connections.cfg MCConnectionLifecycle.tla
    tlapm ConnectionLifecycle_proofs.tla

Source paths below are relative to `src/src/`. `PROJECT.json` lists components,
runs, hazards and theorems, and maps every definition to the lines it stands for.

## The system

| component | source | state | operations |
|---|---|---|---|
| Client registry | `websocket/WebSocketComponents.h` | `clients` (client id -> socket), spin lock `clientMapLock` | `addClient`, `setClientNotAvailable`, `removeClient`, two send functions nobody calls |
| Vehicle table | `ScyllaDBManager.h` | one row per vehicle: the host it is connected to, or `NA`; the schema | `connect`, `create_*`, `insert_data`, `delete_data`, `execute_query` (blocking), two queries nobody calls |
| WebSocket connections | `websocket/WebSocketListener.{h,cpp}` (`WSInstanceListener`, `onClose`), `controler/WsController.h` | the socket's coroutine, the counter `SOCKETS` | `onAfterCreate_NonBlocking`, `onClose`, `onBeforeDestroy_NonBlocking` |
| Message forwarding | `WebSocketListener::readMessage`, `SendMessageCoroutine`, `utilis/boostBeastClient.h` | message buffer and port digit of each listener, one coroutine per message | collect frames, one HTTP exchange per message, write the answer; pongs |
| HTTP text conversion | `utilis/HttpParser.h`, `utilis/boostBeastClient.h:53-72` | none | text of a message -> request, response -> text |
| Gateways sharing the table | all of the above, once per host | one registry each, one table | the callbacks of every host; a host dies and is started again |
| Start-up and shutdown | `App.cpp`, `AppComponent.h` | components, listening ports, server threads, the ioThread with its work guard | `run`, `main` |
| Configuration, TLS | `config.h`, `utilis/env.h`, `split.h`, `ipUtils.h`, `sslContext.h` | read once | `getEnvInt`, `getSSLContext`, ... |
| Build and deployment | `Dockerfile`, shell scripts | outside the program | |

How they interact. Server threads accept connections and hand them to the
oatpp executor, a pool of threads that runs the callbacks of a socket one after
the other, and those of different sockets at the same time. `onAfterCreate`
calls `addClient`; `onClose` and `onBeforeDestroy` call
`setClientNotAvailable`, so a connection ended by a close frame makes that call
twice and one ended by a read error once. Each of these calls takes the spin
lock, changes the map, releases the lock and only then runs a query that blocks
the executor thread. A complete message is given to a coroutine on the single
ioThread; its completion handler hands the answer to yet another coroutine of the
executor, which writes to the socket without any lock.

What makes it hard:

* overlapping connections of one vehicle (it reconnects before the gateway has
  seen the end of the old connection): calls are by client id, not by socket;
* map and row change in two steps, with the lock released in between, and a
  query may fail, or time out although it was applied;
* the HTTP coroutine keeps *references* into a listener whose connection may end
  at any of its waits, and shares the listener's port with later messages;
* several coroutines write to one socket, frames are written in parts, answers
  come in any order, or never; a write has no timeout and outlives the reader, so
  that a vehicle that stops reading, or whose link breaks, meets it halfway;
* a vehicle moves from one gateway to another, and a gateway dies with its
  connections and with statements under way, while others write the same rows;
* the text of a message is taken apart by rules of its own (no `": "` ends the
  headers, a value is cut by one character, a length is what a text begins with) and put
  together again in the order of an `unordered_map`;
* the start has many steps, each may fail; processes compete for ports, share
  the database, and are killed and restarted.

What correctness means, per component: the registry's lock excludes and its
calls are atomic on the map; map and table agree whenever the calls allow it; no
entry leads to a dead socket and no dead socket stays; messages are neither mixed
nor left unanswered while their vehicle reads, and no request outlives the memory it
refers to; a row leads to the gateway that has the vehicle, and not to one that has seen it leave; an orderly
request is forwarded as it is and no field of a vehicle passes for the gateway's; a
process serves only when everything it needs is there.

## Modules

    ClientTable            abstract: what the registry promises
       ^ implements
    WebSocketComponent     the registry in detail, with the table's rows
       ^ extends
    ConnectionLifecycle    the callbacks that use it
       | implements
       v
    GatewayCluster         abstract: the connections of any number of gateways
                           over one table, with atomic calls
    MessageService         abstract: a server that does one thing at a time
       ^ implements
    MessagePipeline        a message from its first frame to its answer
    HttpRequest            the text of a message to the request that is sent
    Startup                processes from main to their server threads
    X_proofs               theorems about X; ConnectionCluster_proofs and
                           PipelineService_proofs: two of the refinements
    MCX                    model values for TLC

**WebSocketComponent** has one program counter per executor thread
(`idle -> lock -> read -> write -> unlock -> query -> return`). A mutation of the
`unordered_map` is split into a read of the map into `scratch` and a later
write-back of the whole: a thread that got in between would lose an update, which
is what the lock must prevent. `ExecuteQuery` has three outcomes: success,
failure without effect, failure with effect. `failed` and `tainted` are history
variables: the clients one of whose queries failed, and those whose calls
overlapped, or failed, since they last had none in flight.

**ClientTable** has no lock and no program counter for it: a call stores its
entry in one step and records its row in a later one. That the two are *not* one
step is part of what it says.

**ConnectionLifecycle** adds the sockets: `none -> creating -> listening
[-> closing] -> ended -> destroying -> destroyed`. In `creating`, `closing` and
`destroying` a thread is inside the registry for the socket. The vehicle may close
properly, reset, or vanish without a word at any time; after a reset `onClose` is
called only from `onBeforeDestroy`. `contested` is a history variable: the sockets
that lived together with another one of the same client. An empty client id
(`EmptyId`) is an id like any other because the code that means to refuse it has
no effect.

**GatewayCluster** is what is left of `ConnectionLifecycle` when threads, lock and
map updates are forgotten: a call has the phases `called` (the callback is in the
registry), `stored` (its entry is in the map), `recorded` (its query has returned).
It adds what one process cannot show: several `Hosts` with a map each and one table,
and `Crash`, after which the host's map is empty, its sockets are `lost` without a
callback, and each statement it had under way has been applied or never will be. A
host writes `name[h]` into its rows, which is its own name or, when `getHostAndIP`
finds none, `EmptyName`, the same for all; a row with that name counts as one that
leads to the host, since nothing in the code tells the two apart. The table starts with any contents: rows of
earlier runs are never cleared. `ConnectionLifecycle` implements this module with
itself as the only host: `CallPhase` computes a socket's phase from the program counter
of the thread that works for it.

**HttpRequest** takes a message as a sequence of lines, each a `field` (contains
`": "`), a `text` (does not) or `blank` (nothing but, perhaps, a carriage return);
`cr` says whether it ends in one. That is all `createRequestFromBuffer` tells apart.
A value begins with a number (`Numeric`) or not (`Word`, `Chunked`); `std::stoi` takes the
number and does not look at what stands behind it (`junk`), so that `0x10` is a length of
zero for the parser and goes out as `0x10`. `whole` says whether the character the parser
cuts was the carriage return. `PreparePayload` is what Beast does for a request with a
body: it sets the length and takes `chunked` out of the transfer coding. A body is counted in lines, as characters do not matter to how
many of them are taken. `stage` runs through `headers`, `length`, `request` to `sent` or
`error` (an exception, caught in `asyncHttpClient`). The order of the
`unordered_map` is the choice of a function from `FieldsOf`.

**MessagePipeline** abstracts a text to the set of vehicle messages (numbered)
whose frames went into it. `asyncHttpClient` is one action from one suspension to
the next. `Held(s)` lists the owners of the socket, hence of the listener:
its coroutine, the client map, completion handlers, sending coroutines; `Free`
deletes it when none is left. `out[s]` are the parts of frames written to `s`. The TCP
connection is apart from the reader: `conn` says whether there is a reader, `link` whether
the vehicle still takes in what is written (`up`), does so no more (`stalled`), or the
connection is lost (`broken`), and it only gets worse (`LinkWorsens`). A sending coroutine
holds the socket and writes whether or not there is a reader; on a broken link the write
fails and the coroutine is over (`SendFails`), on a stalled one it may wait for ever.
Here the registry is reduced to the set `mapped`, and a socket leaves it at any
moment (`Unmap`), for good: that is what `ConnectionLifecycle` guarantees
(`MapOnlyLetsGo`).

**MessageService** is what a vehicle may rely on that sends nothing, pings included,
before it has the answer to its last message: the gateway and it take turns, and every
message gets one answer, every ping one pong, in whole frames, as long as the link lasts. It knows no tasks, no
application server, no second writer. A vehicle that does not wait *waives* the promise for
good, and anything may be written to it (`Unspecified`). Of `MessagePipeline` whose turn
it is follows from what is unanswered (`TurnOf`); the history variable `pipelined` holds
the vehicles that did not wait.

**Startup** models several processes on one host that compete for its ports and
share the database's schema. Environments are records of the variables the
code reads; the 8-bit count and the 16-bit ports are taken modulo `CountSpace` and
`PortSpace`. A port of number 0 is chosen by the system. Any step may fail as the
code foresees, `Kill` ends a process at any step, and `Launch` starts it again with
any environment. What was created in the database stays.

Definitions named `Mut...` are deliberately wrong variants of the definition that
follows them (a dropped guard, a missing reset). No specification uses them: put in
place of the right one they must make a property fail, which shows that the
property depends on that piece of code.

## What the runs check

| run | instance | question |
|---|---|---|
| `registry` | 2 threads, 2 vehicles, 2 sockets, every operation | the lock excludes (`MutualExclusion`) and is not left locked by nobody (`LockHasHolder`), map and row agree after calls that did not overlap (`AgreementWhenSerial`), the registry implements `ClientTable` |
| `overlap` | 2 threads, 1 vehicle, 1 socket | *violated*: a row that says `NA` belongs to a vehicle that is not in the map |
| `connections` | 2 connections, 2 vehicles, 2 threads, fairness | no entry outlives its socket (`NoStaleEntry`), and what the map let go of it does not take back (`MapOnlyLetsGo`); with all connections of a vehicle destroyed its row is `NA` (`RowClearedWhenGone`); map and counter are back at rest (`NothingLeftWhenIdle`); a sole connection is its vehicle's entry while it is read; a vehicle that closed or reset is forgotten (`DepartedAreForgotten`); all of it is a behaviour of `GatewayCluster` (`ImplementsCluster`) |
| `reconnect` | 2 connections, of one vehicle or of two | *violated*: a connected vehicle has an entry |
| `emptyid` | 2 connections, one of the two ids is empty | *violated*: an empty client id is refused |
| `pipeline` | 1 socket, 2 messages, 2 pings, fairness | messages are not mixed (`MessageIntegrity`); each part of an answer is written once (`AnswersAreOwnAndOnce`); no listener is deleted under a request (`ListenerOutlivesRequest`); to a vehicle that waits for its answers the gateway is a sequential server (`LockStepVehicleIsServed`, `ImplementsService`); every message is answered unless its vehicle stops reading or the link breaks (`EveryMessageAnswered`); a closed connection is deleted unless an answer waits for a vehicle that does not read (`ClosedAreFreed`) |
| `connectlog` | 1 socket, 2 messages | *violated*: the port named in the log is the one that was dialled |
| `startup` | 2 processes, 4 ports, 4 environments, fairness | who serves has the schema, a session, a running io_context and all its ports; nothing is tried twice and no process disturbs another (`StartAdvances`); every start ends in service or in an exit |
| `portlist` | 1 process, a list of ports | *violated*: the database port is one of those listed |
| `cluster` | 3 connections of 1 vehicle, 2 gateways that die and return, any initial row | a gateway that has destroyed all its connections of a vehicle is not named by its row (`RowNamesNoFormerHost`); a connection that overlaps no other, at any gateway, is found from the table (`SoleConnectionIsFound`); an entry leads to a live connection of that vehicle at that gateway (`EntryLeadsToConnection`) |
| `roaming` | 2 connections of 1 vehicle, 2 gateways | *violated*: of a vehicle whose connections are at different gateways, a row that says `NA` means that no gateway has it |
| `request` | every message of up to 4 lines of 15 kinds | an orderly request is forwarded whole (`OrderlyArrives`); no field of the message takes the place of the gateway's (`GatewayVouches`); a body is announced with its length, and no body by no length or zero (`LengthIsTrue`, within the limits below) |

### Disagreements found

* `overlap`: `addClient` and `setClientNotAvailable` of one vehicle may write the
  map in one order and the row in the other (`WebSocketComponents.h:37`).
* `reconnect`: the end of an old connection erases the entry of the new one
  (`WebSocketListener.cpp:44`): the erase is by client id.
* `emptyid`: the close frame for an empty client id is a coroutine that is dropped,
  and the callback goes on (`WebSocketListener.cpp:156`).
* `connectlog`: the port is a reference to a member that the next message
  redraws (`boostBeastClient.h:44, 88`); only the log is wrong, the address dialled
  is a copy.
* `roaming`: a vehicle moves to another gateway before the first one has seen the
  end of its connection; the first one's `NA` overwrites the row of the new connection
  (`WebSocketComponents.h:37`).
* `portlist`: the loop over the ports converts the whole list each time
  (`ScyllaDBManager.h:49`).

`LengthIsTrue` promises of a request *without* a body only as much as the code does: where
the lines end in carriage returns, the name is spelled `Content-Length` and the number has
nothing behind it. `content-length: 1` and `Content-Length: 0x10` are in the model, and go
out as they came, with an empty body; no text of the repository says otherwise.

The passing properties say what survives these: for instance `NoStaleEntry` and
`RowClearedWhenGone` hold although the wrong entry may be erased.

### Bounds, and why they are enough

Two threads give every interleaving of two registry calls; a third adds only more
waiting for a lock that is shown to exclude two, and the proofs cover any number.
In `connections` two connections, of one vehicle or of two, are the fewest that
overlap; that vehicles interact only through the lock and the map as a whole makes two
of them enough. Three that overlap pairwise, an old one, a new one and a third, are in
`cluster`, where calls are atomic and the state space allows them; that the detailed
callbacks implement it is checked and proved, and the theorems cover any number. Each
socket lives once, so there is no further bound.

In `pipeline` two messages are needed for one to overtake or disturb another, and two
pings for a pong to fall between two frames and between two answers (`MaxMessages`,
`MaxPings`). With one socket TLC cannot show that no frame or answer goes from one
connection to another, the part of `MessageIntegrity` and `AnswersAreOwnAndOnce` about
other sockets: that is what their theorems add, which hold for any set of sockets. The
other properties speak of one socket at a time, and the sockets share nothing but the
order of the tasks. One random draw is enough where the digit does not matter; `connectlog` uses two.

In `request` four lines are the fewest that hold a field, a length, the empty line and
a line of body, or two spellings of one name and a body. In `startup` four ports and
2-bit counts show wrap-around (`CountSpace`, `PortSpace`), a count cut to zero and ports
that overlap between two processes. Deadlock is not checked where every socket or
message of the finite instance may have been used up, or the one message converted; in `registry`
and `startup` it is.

### Fairness

* A thread inside the registry runs on (weak fairness): threads are scheduled by
  the operating system, and the driver sets the future of every query, with success,
  an error or its own timeout. Spinning on the flag is weakly fair only: what keeps a
  thread from spinning for ever in `DepartedAreForgotten` is that the connections of the
  instance, and so the calls of the others, are finite in number. The spin lock is not
  fair, and under an endless stream of calls nothing here says that a given one gets in.
* The next callback of a socket that is due is run by some idle thread of the
  executor. One that waits for a free thread gets one because the registry calls
  of the others end.
* A reset connection is noticed (TCP). Of a vehicle that just vanished nothing
  is assumed, because the gateway sends no pings and sets no read timeout; such
  connections are in the model and not in the promise of `DepartedAreForgotten`.
* The 10 s timer of an HTTP exchange fires, the resolver answers or gives up. The
  application server may never do anything.
* A write goes on while the vehicle reads (`VehicleTakes`) and fails once the connection
  is lost (`SendFails`). Of a vehicle that stops reading nothing is assumed: the write
  waits in `sendOneFrameTextAsync` (`WebSocketListener.cpp:61`) without a timeout, and
  `EveryMessageAnswered` and `ClosedAreFreed` except it by name.
* In `MessagePipeline` a closed socket leaves the client map in the end: this is
  `DepartedAreForgotten`.
* A started process runs on: bind, connect and queries return, well or not.

## What is proved

Every safety property the passing runs check, and every refinement, is a theorem.

*Registry and connections*: for any sets of threads, client ids and sockets, from the
assumption that `NoSocket` is no socket and that the three values of a row differ
(`ConstantsAssumption`), and that the empty id is an id (`EmptyIdAssumption`):

* `RegistryTypeCorrect`, `LifecycleTypeCorrect`: the type invariants.
* `LockExcludes`. `MutualExclusion` is not inductive, as a thread could enter while
  another is inside but the flag is clear; `LockInv` adds that the flag is set
  whenever a thread is between `test_and_set` and `clear`.
* `LockIsHeldBySomeone` (`LockHasHolder`), the other direction: the flag is set only while
  a thread is on its way to `clear`. Every step that leaves the critical section is a
  `clear`.
* `RegistryImplementsTable`: every step of the registry is a step of `ClientTable` or
  a stutter. The write-back needs `WriteInv`: from the read to the write-back
  `scratch[t]` *is* the current map with one entry changed, as nobody else writes
  while the lock is held.
* `SerialCallsAgree`. `AgreementWhenSerial` speaks of idle clients only; `SerialInv`
  says for a client that is not tainted what entry and row are at each place of its
  one call.
* `LifecycleImplementsRegistry`: the callbacks are an environment the registry allows,
  so the theorems about it hold under them.
* `EntriesAreFresh` (`NoStaleEntry`), `LastOneClearsRow` (`RowClearedWhenGone`),
  `SoleIsRegistered` (`SoleConnectionRegistered`), `IdleIsClean`
  (`NothingLeftWhenIdle`). They rest on `OwnInv`: a thread is inside the registry
  exactly for a socket whose state says so, one thread per socket, and the state
  tells which call it is. On top of it `NoStaleEntry` is inductive; `RowInv` adds
  that until a row says `NA` some connection of the client *owes* the query that
  writes it; `SoleInv` that two live connections of one client are both contested,
  so that the only thread that writes an uncontested socket's entry is its own;
  `CountInv` that `SOCKETS` is the cardinality of the counted connections.
* `LetGoForGood` (`MapOnlyLetsGo`), an action property: the only step that puts a socket
  into the map is the write-back of `addClient` in `onAfterCreate`; every other one writes
  back the current map (`WriteInv`) with an entry erased, so an old socket cannot come back.
* `LifecycleImplementsCluster` (`ImplementsCluster`). From `OwnInv` a socket that makes a
  call has exactly one thread, so that `CallPhase` is well defined, and a step of that
  thread moves the phase of this socket only; the write-back is `Store` because of
  `WriteInv`, the query is `Record`, everything else about the lock is a stutter.

*Gateways over one table*: for any hosts, vehicles and sockets, from
`ClusterAssumption` (the special values differ and are no host names):

* `ClusterTypeCorrect`: the type invariant; with it `PhaseInv`, that a socket is in a
  phase of a call exactly when its state is one of a callback.
* `FormerHostIsNotNamed` (`RowNamesNoFormerHost`). `FormerInv`: while a row names a host
  that has had connections of the vehicle since it was started, one of them *owes* the
  `NA`, that is, it has not reached the record of its last call. The argument has to
  survive statements of a dead host that arrive with its crash.
* `SoleIsFound` (`SoleConnectionIsFound`). `SoleInv` says of two live sockets of one
  vehicle that both are contested, and of an uncontested one what entry and row
  are at each phase of its own call.
* `EntriesLeadToConnections` (`EntryLeadsToConnection`). The property is about the entries
  at rest and during a callback alike (a connection that ends is an entry only until its
  call has stored), and with that it is inductive given `PhaseInv`; a host that dies loses
  its map together with its sockets.

*Messages*: for any sockets and any bounds, from `PipelineAssumption` (the bounds are
naturals, the draws positive, the configured digit a digit):

* `PipelineTypeCorrect`: the type invariant.
* `RequestsHoldListener` (`ListenerOutlivesRequest`). The property speaks of requests
  inside the HTTP coroutine; `HeldInv` of every message that is not sent yet, since
  the socket is handed on from the completion handler to the sending coroutine, and
  says that a deleted socket is closed, so that no message is read from it again.
* `MessagesAreNotMixed` (`MessageIntegrity`). The property speaks of dispatched
  messages; `BufferInv` adds that what is in the buffer belongs to the next one.
* `LockStepNeedsNoLock` (`LockStepVehicleIsServed`). The property speaks of what is on
  the wire; `LockInv` of why: at a socket whose vehicle waits for its answers only the
  latest message may be unanswered, and none is while a pong is written, so that at
  most one frame is open (`OpenHead`) and only its writer can write the next part.
* `AnswersAreWrittenOnce` (`AnswersAreOwnAndOnce`), for every vehicle, also where frames mix.
  `OnceInv` ties the wire to the stages: what is written of an answer is nothing
  before it is sent and just its head while it is being sent; the stages lead on from there,
  so that no part comes twice.
* `PipelineImplementsService` (`ImplementsService`): every step is one of `MessageService` or
  a stutter, for each socket on its own (`Elsewhere`: the view of all others stays). From
  `LockInv` a vehicle whose turn it is not has exactly one unanswered message, so that the
  answer the service is about to give is that of the task that writes; the number of a new
  message is larger than any on the wire because all of those have been answered.

*Conversion*: for messages of any length, any header names and methods, from
`TextAssumption` (messages are made of lines, `Content-Length` is a name):

* `HttpTypeCorrect`: the type invariant.
* `SenderIsVouchedFor` (`GatewayVouches`): follows from the one step that builds the
  request (`SendFacts`), whatever the headers are.
* `AnnouncedIsSent` (`LengthIsTrue`). With a body the field is what `PreparePayload`
  made it (`PayloadFacts`). Without one `LengthInv` tells: every header is that of one line
  of the message, and once the body is read a `Content-Length` that lost no character
  begins with the length of the body; with nothing behind it, it is that length.
* `OrderlyIsForwarded` (`OrderlyArrives`). `OrderlyInv` is a loop invariant: while the
  lines are read, `headers` is what the first `pos - 1` of them say (`Collected`); when
  the body is read the stream stands behind the empty line.

*Start-up*: for any processes, environments and widths, from `SpacesAssumption`,
`SessionAssumption` (a port is not the mark for no session) and `CountAssumption`
(`getEnvInt` returns an integer):

* `StartupTypeCorrect`: the type invariant; needs `OffInv`, that a process that is off
  has no session, because its environment changes when it is started again.
* `ServiceHasSchema` (`SchemaBeforeService`), `IoRunsWhileServing`
  (`IoOutlivesServers`). `StageInv` says what must exist, and that the guard is held and
  the thread runs, at each stage of `run()`; the schema only grows.
* `PortsAreExclusive` (`AllPortsOrNone`). `PortInv`: all ports of all providers differ
  from the moment they are bound, and a process past the loop has its whole number.
* `StartsAdvance` (`StartAdvances`), an action property: each step lowers what is `Left` of
  the start, or the `Rest` of the loop it is in, which never falls below zero. `IoInv`
  says that there is an ioThread from the start of the service on only, so that each of
  the loops is entered once.

Model-checked only: the liveness properties (`DepartedAreForgotten`,
`EveryMessageAnswered`, `ClosedAreFreed`, `StartSettles`), as neither fairness nor
ENABLED is within the prover's reach. What they rest on is proved: that the lock is never
left locked (`LockHasHolder`), that a socket does not return to the map (`MapOnlyLetsGo`),
and that starts only go forward, by a measure (`StartAdvances`); that there is a next step until the end, and that it is taken, is
what TLC adds.

## Assumptions about code that is not in the repository

* oatpp runs the callbacks of one socket in sequence, each on any executor
  thread; it destroys a socket's coroutine after its end, then calls
  `onBeforeDestroy_NonBlocking`; it calls `onClose` for a close frame only; it writes
  a frame in parts (header, payload) between which other coroutines may write.
* The TCP connection of a socket stays as long as anyone holds the socket, also after its
  coroutine has ended; a write waits until the connection takes it, without a timeout, and
  returns an error when the connection is lost.
* `std::stoi` converts the number a text begins with and ignores what stands behind it; it
  throws when there is none or when it does not fit.
* A statement on one row of the table takes effect in one step, and the last
  one to take effect wins. Statements of one host reach the table in the order in
  which they are executed.
* A statement a host had in flight when it died has reached the table by the time of the
  next step, or never will.
* Beast's `set` replaces a field of the same name, compared without case;
  `prepare_payload` sets `Content-Length` when there is a body, takes `chunked` out of
  `Transfer-Encoding`, and throws at a `TRACE` with a body, and `method` throws at an unknown verb.
* `io_context::run()` returns when it has neither work nor a guard.
* A port that is in use cannot be bound; the end of a process frees its ports.

## Not modelled

* `buildResponseStringBuffer` (`HttpParser.h:33`): prints a response, keeps no state, and
  nothing in the repository says what a vehicle makes of the text.
* `sendTextMessageToClient`, `sendBinaryMessageToClient`, `query_table`,
  `query_materialized_view`, `isValidIPv4`, `s_valid_ipv6`: they have no caller.
  (`removeClient` has none either, but is part of the registry's interface and model.)
* Contents of certificates, TLS itself, the wording of messages and logs.
* Undefined behaviour inside libraries: each new listener calls `restart()` on an
  io_context that another thread is running (`WebSocketListener.h:23`).
* Build files and shell scripts.

## Plan

What is left, in this order:

1. `MessagePipeline` over `HttpRequest` (a message that throws in the conversion) and over
   `ConnectionLifecycle` instead of the set `mapped`.
2. A run of `GatewayCluster` with two vehicles and three hosts, and `connections` with a
   third socket, as far as the state space allows.
