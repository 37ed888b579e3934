------------------------ MODULE WebSocketComponent ------------------------
(***************************************************************************)
(* The registry of connected vehicles (src/websocket/WebSocketComponents.h)*)
(* with the statements it sends to ScyllaDB (src/ScyllaDBManager.h).       *)
(*                                                                         *)
(* Any thread of the executor may be inside an operation.  An operation    *)
(* spins on clientMapLock, mutates the unordered_map, releases the lock    *)
(* and only then runs a blocking query on the vehicle table.  Mutating an  *)
(* unordered_map is not atomic: it is a read of the map's structure and a  *)
(* later write of it, so that a thread getting between the two would lose  *)
(* an update.                                                              *)
(***************************************************************************)
CONSTANTS
    Threads,        \* executor threads that run the callbacks
    ClientIds,      \* the vehicles (VIN)
    Sockets,        \* one value per accepted connection
    NoSocket,       \* no entry in the map
    AppServerName,  \* host column: this gateway
    NA,             \* host column: "NA", not available
    NoRow,          \* no row in the table
    NoCall          \* the thread is in no operation

ASSUME ConstantsAssumption ==
    /\ NoSocket \notin Sockets
    /\ AppServerName # NA /\ AppServerName # NoRow /\ NA # NoRow

VARIABLES
    clientMapLock,  \* the atomic_flag
    clients,        \* the unordered_map: client id -> socket, or NoSocket
    scratch,        \* per thread: the map it is about to write back
    vehicles,       \* the vehicle table: client id -> host, or NoRow
    pc,             \* per thread: its place in the operation
    call,           \* per thread: the operation and its arguments
    failed,         \* history: clients one of whose queries failed
    tainted         \* history: clients whose latest calls overlapped or failed

registryVars == <<clientMapLock, clients, scratch, vehicles, pc, call, failed, tainted>>

Operations == {"addClient", "setClientNotAvailable", "removeClient"}
Requests   == [op : Operations, id : ClientIds, sock : Sockets]
Maps       == [ClientIds -> Sockets \cup {NoSocket}]
RowValues  == {AppServerName, NA, NoRow}
EmptyMap   == [c \in ClientIds |-> NoSocket]

InFlight(c) == {t \in Threads : pc[t] # "idle" /\ call[t].id = c}

(***************************************************************************)
(* A new process has an empty map.  The table outlives the process: a row  *)
(* may still name this gateway.                                            *)
(***************************************************************************)
RegistryInit ==
    /\ clientMapLock = FALSE
    /\ clients = EmptyMap
    /\ scratch = [t \in Threads |-> EmptyMap]
    /\ vehicles \in [ClientIds -> RowValues]
    /\ pc = [t \in Threads |-> "idle"]
    /\ call = [t \in Threads |-> NoCall]
    /\ failed = {}
    /\ tainted = {c \in ClientIds : vehicles[c] = AppServerName}

Goto(t, from, to) == pc[t] = from /\ pc' = [pc EXCEPT ![t] = to]

Enter(t, r) ==
    /\ Goto(t, "idle", "lock")
    /\ call' = [call EXCEPT ![t] = r]
    /\ tainted' = IF InFlight(r.id) = {} THEN tainted \ {r.id} ELSE tainted \cup {r.id}
    /\ UNCHANGED <<clientMapLock, clients, scratch, vehicles, failed>>

MutTestAndSet(t) ==
    /\ Goto(t, "lock", "read")
    /\ clientMapLock' = TRUE
    /\ UNCHANGED <<clients, scratch, vehicles, call, failed, tainted>>

\* while (test_and_set(acquire)); -- the spin ends when the flag was clear
TestAndSet(t) ==
    /\ ~clientMapLock
    /\ Goto(t, "lock", "read")
    /\ clientMapLock' = TRUE
    /\ UNCHANGED <<clients, scratch, vehicles, call, failed, tainted>>

\* clients[clientId] = socket, or clients.erase(clientId)
MapAfter(r) ==
    [clients EXCEPT ![r.id] = IF r.op = "addClient" THEN r.sock ELSE NoSocket]

BeginUpdate(t) ==
    /\ Goto(t, "read", "write")
    /\ scratch' = [scratch EXCEPT ![t] = MapAfter(call[t])]
    /\ UNCHANGED <<clientMapLock, clients, vehicles, call, failed, tainted>>

EndUpdate(t) ==
    /\ Goto(t, "write", "unlock")
    /\ clients' = scratch[t]
    /\ scratch' = [scratch EXCEPT ![t] = EmptyMap]
    /\ UNCHANGED <<clientMapLock, vehicles, call, failed, tainted>>

MutClearForgotten(t) ==
    /\ Goto(t, "unlock", "query")
    /\ UNCHANGED <<clientMapLock, clients, scratch, vehicles, call, failed, tainted>>

\* clientMapLock.clear(release)
Clear(t) ==
    /\ Goto(t, "unlock", "query")
    /\ clientMapLock' = FALSE
    /\ UNCHANGED <<clients, scratch, vehicles, call, failed, tainted>>

MutRowSwappedArguments(r) ==
    CASE r.op = "addClient"             -> r.id
      [] r.op = "setClientNotAvailable" -> NA
      [] r.op = "removeClient"          -> NoRow

MutRowAlwaysThisHost(r) ==
    CASE r.op = "addClient"             -> AppServerName
      [] r.op = "setClientNotAvailable" -> AppServerName
      [] r.op = "removeClient"          -> NoRow

\* insert_data(vin, host) is an upsert of the row, delete_data(vin) drops it
RowAfter(r) ==
    CASE r.op = "addClient"             -> AppServerName
      [] r.op = "setClientNotAvailable" -> NA
      [] r.op = "removeClient"          -> NoRow

(***************************************************************************)
(* execute_query blocks until the driver's future is set.  A failure is    *)
(* logged and otherwise ignored; when it is a timeout the statement may    *)
(* have been applied all the same.                                         *)
(***************************************************************************)
ExecuteQuery(t) ==
    \E success, applied \in BOOLEAN :
        /\ success => applied
        /\ Goto(t, "query", "return")
        /\ vehicles' = IF applied
                         THEN [vehicles EXCEPT ![call[t].id] = RowAfter(call[t])]
                         ELSE vehicles
        /\ failed'  = IF success THEN failed ELSE failed \cup {call[t].id}
        /\ tainted' = IF success THEN tainted ELSE tainted \cup {call[t].id}
        /\ UNCHANGED <<clientMapLock, clients, scratch, call>>

Leave(t) ==
    /\ Goto(t, "return", "idle")
    /\ call' = [call EXCEPT ![t] = NoCall]
    /\ UNCHANGED <<clientMapLock, clients, scratch, vehicles, failed, tainted>>

\* The steps of an operation between its entry and its return.
Inside(t) == \/ TestAndSet(t)
             \/ BeginUpdate(t)
             \/ EndUpdate(t)
             \/ Clear(t)
             \/ ExecuteQuery(t)

RegistryNext == \E t \in Threads : \/ \E r \in Requests : Enter(t, r)
                                   \/ Inside(t)
                                   \/ Leave(t)

RegistrySpec == RegistryInit /\ [][RegistryNext]_registryVars
-----------------------------------------------------------------------------
(***************************************************************************)
(* Properties                                                              *)
(***************************************************************************)

\* The type invariant of the registry and of the threads inside it.
RegistryTypeOK ==
    /\ clientMapLock \in BOOLEAN
    /\ clients \in Maps
    /\ scratch \in [Threads -> Maps]
    /\ vehicles \in [ClientIds -> RowValues]
    /\ pc \in [Threads -> {"idle", "lock", "read", "write", "unlock", "query", "return"}]
    /\ call \in [Threads -> Requests \cup {NoCall}]
    /\ \A t \in Threads : pc[t] # "idle" => call[t] \in Requests
    /\ failed \subseteq ClientIds
    /\ tainted \subseteq ClientIds

Critical(t) == pc[t] \in {"read", "write", "unlock"}

\* The spin lock excludes: no two threads are ever between test_and_set and
\* clear, so no thread touches the unordered_map while another mutates it.
MutualExclusion ==
    \A t, u \in Threads : Critical(t) /\ Critical(u) => t = u

\* The flag is never left set behind the thread that set it: a thread that spins
\* waits for one that is on its way to clear, and no path through the three
\* operations waits for anything else before (WebSocketComponents.h:22, 36 and 45).
LockHasHolder == clientMapLock => \E t \in Threads : Critical(t)

\* A vehicle is in the map exactly when its row names this gateway.
Agree(c) == clients[c] # NoSocket <=> vehicles[c] = AppServerName

\* The registry is right about every vehicle whose calls did not overlap:
\* when the calls made since the vehicle was last idle ran one at a time and
\* their queries succeeded, map and table agree once they have returned.
AgreementWhenSerial ==
    \A c \in ClientIds : InFlight(c) = {} /\ c \notin tainted => Agree(c)

\* WebSocketComponents.h:31 has the table say of a vehicle whether "it is not
\* connected now": with all calls returned and no query failed, a row that says
\* NA belongs to a vehicle that is not in the map.
NotAvailableMeansNotConnected ==
    \A c \in ClientIds :
        InFlight(c) = {} /\ c \notin failed /\ vehicles[c] = NA => clients[c] = NoSocket

(***************************************************************************)
(* The registry implements ClientTable: taking and releasing the lock and  *)
(* preparing the write are invisible, the write-back is the atomic store.  *)
(***************************************************************************)
PhaseOf(p) == CASE p = "idle"                      -> "idle"
                [] p \in {"lock", "read", "write"} -> "called"
                [] p \in {"unlock", "query"}       -> "stored"
                [] p = "return"                    -> "recorded"

Table == INSTANCE ClientTable WITH phase <- [t \in Threads |-> PhaseOf(pc[t])]

\* Every behaviour of the registry is one of the atomic client table: the lock
\* makes each map mutation one step that touches its own client's entry only.
ImplementsClientTable == Table!Spec
=============================================================================
