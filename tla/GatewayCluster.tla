--------------------------- MODULE GatewayCluster ---------------------------
(***************************************************************************)
(* Several gateways that share one vehicle table.  Each has a registry of  *)
(* its own; a vehicle may leave one gateway and turn up at another, or at  *)
(* both, and a gateway may die without running a callback.                 *)
(*                                                                         *)
(* This is the connections' side of the registry with atomic calls: a call *)
(* stores its entry, then records its row, then returns.  Conversely,      *)
(* ConnectionLifecycle (threads, spin lock, map updates that are not       *)
(* atomic) is shown to implement this module with itself as only gateway.  *)
(***************************************************************************)
CONSTANTS
    Hosts,          \* the gateways, each by its host name
    ClientIds,      \* the vehicles
    Sockets,        \* one value per accepted connection, of any gateway
    NoSocket,       \* no entry in a map
    EmptyName,      \* host column: the name of a gateway that found none
    NA,             \* host column: "NA", not available
    NoRow           \* no row in the table

ASSUME ClusterAssumption ==
    /\ NoSocket \notin Sockets
    /\ {EmptyName, NA, NoRow} \cap Hosts = {}
    /\ NA # EmptyName /\ NA # NoRow /\ EmptyName # NoRow

VARIABLES
    entry,      \* per gateway: its map, client id -> socket, or NoSocket
    row,        \* the vehicle table: client id -> host column, or NoRow
    name,       \* per gateway: the host name it writes into its rows
    state,      \* per socket: where its coroutine is
    phase,      \* per socket: how far its call on the registry is
    hostOf,     \* per socket: the gateway that accepts it
    idOf,       \* per socket: its client id
    failed,     \* history: clients one of whose queries failed
    contested   \* history: sockets whose life overlapped that of another
                \* socket of the same client, at any gateway

clusterVars == <<entry, row, name, state, phase, hostOf, idOf, failed, contested>>

States == {"none", "creating", "listening", "closing", "ended", "destroying",
           "destroyed", "lost"}
Alive  == {"creating", "listening", "closing", "ended", "destroying"}
Phases == {"idle", "called", "stored", "recorded"}

EntryValues == Sockets \cup {NoSocket}
RowValues   == Hosts \cup {EmptyName, NA, NoRow}

\* getHostAndIP: the host's name, or none when it cannot be resolved
NamesOf(h) == {h, EmptyName}

ClusterInit ==
    /\ entry = [h \in Hosts |-> [c \in ClientIds |-> NoSocket]]
    /\ row \in [ClientIds -> RowValues]
    /\ name \in [Hosts -> Hosts \cup {EmptyName}]
    /\ \A h \in Hosts : name[h] \in NamesOf(h)
    /\ state = [s \in Sockets |-> "none"]
    /\ phase = [s \in Sockets |-> "idle"]
    /\ hostOf \in [Sockets -> Hosts]
    /\ idOf \in [Sockets -> ClientIds]
    /\ failed = {}
    /\ contested = {}

Become(s, from, to) == state[s] = from /\ state' = [state EXCEPT ![s] = to]
Advance(s, from, to) == phase[s] = from /\ phase' = [phase EXCEPT ![s] = to]

\* A callback of s calls addClient (it is creating) or setClientNotAvailable.
Calls(s, from, to) == Become(s, from, to) /\ Advance(s, "idle", "called")

OnAfterCreate(s) ==
    LET rivals == {u \in Sockets : state[u] \in Alive /\ idOf[u] = idOf[s]}
    IN  /\ Calls(s, "none", "creating")
        /\ contested' = IF rivals = {} THEN contested ELSE contested \cup rivals \cup {s}
        /\ UNCHANGED <<entry, row, name, hostOf, idOf, failed>>

OnClose(s) ==
    /\ Calls(s, "listening", "closing")
    /\ UNCHANGED <<entry, row, name, hostOf, idOf, failed, contested>>

ReadFails(s) ==
    /\ Become(s, "listening", "ended")
    /\ UNCHANGED <<entry, row, name, phase, hostOf, idOf, failed, contested>>

MutBeforeDestroySilent(s) ==
    /\ Become(s, "ended", "destroyed")
    /\ UNCHANGED <<entry, row, name, phase, hostOf, idOf, failed, contested>>

OnBeforeDestroy(s) ==
    /\ Calls(s, "ended", "destroying")
    /\ UNCHANGED <<entry, row, name, hostOf, idOf, failed, contested>>

Store(s) ==
    /\ Advance(s, "called", "stored")
    /\ entry' = [entry EXCEPT ![hostOf[s]][idOf[s]] =
                     IF state[s] = "creating" THEN s ELSE NoSocket]
    /\ UNCHANGED <<row, name, state, hostOf, idOf, failed, contested>>

MutInsertIfNotExists(s) ==
    IF state[s] # "creating" THEN NA
    ELSE IF row[idOf[s]] \in {NA, NoRow} THEN name[hostOf[s]] ELSE row[idOf[s]]

MutRecordsTheSocket(s) == IF state[s] = "creating" THEN s ELSE NA

\* insert_data writes the row whatever it says: also that of another gateway
RowAfter(s) == IF state[s] = "creating" THEN name[hostOf[s]] ELSE NA

Record(s) ==
    \E success, applied \in BOOLEAN :
        /\ success => applied
        /\ Advance(s, "stored", "recorded")
        /\ row' = IF applied THEN [row EXCEPT ![idOf[s]] = RowAfter(s)] ELSE row
        /\ failed' = IF success THEN failed ELSE failed \cup {idOf[s]}
        /\ UNCHANGED <<entry, name, state, hostOf, idOf, contested>>

AfterCall(st) == CASE st = "creating"   -> "listening"
                   [] st = "closing"    -> "ended"
                   [] st = "destroying" -> "destroyed"

Return(s) ==
    /\ Advance(s, "recorded", "idle")
    /\ state' = [state EXCEPT ![s] = AfterCall(state[s])]
    /\ UNCHANGED <<entry, row, name, hostOf, idOf, failed, contested>>

(***************************************************************************)
(* The process of gateway h ends without its callbacks: App.cpp:49 does    *)
(* nothing about the rows when another takes its place.  A statement it had*)
(* under way has reached the table by then, or never will.                 *)
(***************************************************************************)
Crash(h) ==
    LET taken == {s \in Sockets : hostOf[s] = h /\ state[s] # "none"}
        sent  == {s \in taken : phase[s] = "stored"}
    IN  /\ taken # {}
        /\ entry' = [entry EXCEPT ![h] = [c \in ClientIds |-> NoSocket]]
        /\ state' = [s \in Sockets |-> IF s \in taken THEN "lost" ELSE state[s]]
        /\ phase' = [s \in Sockets |-> IF s \in taken THEN "idle" ELSE phase[s]]
        /\ row' \in [ClientIds -> RowValues]
        /\ \A c \in ClientIds :
              row'[c] \in {row[c]} \cup {RowAfter(s) : s \in {u \in sent : idOf[u] = c}}
        /\ \E n \in NamesOf(h) : name' = [name EXCEPT ![h] = n]
        /\ UNCHANGED <<hostOf, idOf, failed, contested>>

\* A step of socket s.
Step(s) == \/ OnAfterCreate(s)
           \/ OnClose(s)
           \/ ReadFails(s)
           \/ OnBeforeDestroy(s)
           \/ Store(s)
           \/ Record(s)
           \/ Return(s)

ClusterNext == \/ \E s \in Sockets : Step(s)
               \/ \E h \in Hosts : Crash(h)

ClusterSpec == ClusterInit /\ [][ClusterNext]_clusterVars
-----------------------------------------------------------------------------
(***************************************************************************)
(* Properties                                                              *)
(***************************************************************************)

\* The type invariant of the gateways and their table.
ClusterTypeOK ==
    /\ entry \in [Hosts -> [ClientIds -> EntryValues]]
    /\ row \in [ClientIds -> RowValues]
    /\ name \in [Hosts -> Hosts \cup {EmptyName}]
    /\ \A h \in Hosts : name[h] \in NamesOf(h)
    /\ state \in [Sockets -> States]
    /\ phase \in [Sockets -> Phases]
    /\ hostOf \in [Sockets -> Hosts]
    /\ idOf \in [Sockets -> ClientIds]
    /\ failed \subseteq ClientIds
    /\ contested \subseteq Sockets

\* The connections gateway h has had of client c since it was started.
HadOf(h, c) == {s \in Sockets : /\ hostOf[s] = h /\ idOf[s] = c
                                /\ state[s] \notin {"none", "lost"}}

\* A gateway that has destroyed all its connections of a client is not named
\* by the client's row (insert_data, ScyllaDBManager.h:143), whatever the other
\* gateways did meanwhile, those that died with their statements under way
\* included, unless a query for the client failed.
RowNamesNoFormerHost ==
    \A h \in Hosts, c \in ClientIds :
        /\ HadOf(h, c) # {}
        /\ \A s \in HadOf(h, c) : state[s] = "destroyed"
        /\ c \notin failed
        => row[c] # h

\* A connection whose life overlaps no other of its client is found from the
\* table: the row names its gateway (as the gateway names itself) and that
\* gateway's map leads to its socket (WebSocketComponents.h:19-26), even when
\* the row was left by a gateway that died.
SoleConnectionIsFound ==
    \A s \in Sockets \ contested :
        state[s] = "listening" /\ idOf[s] \notin failed
            => row[idOf[s]] = name[hostOf[s]] /\ entry[hostOf[s]][idOf[s]] = s

\* A gateway's map leads to connections of its own that still have their last
\* erase to come (WebSocketListener.cpp:208), never to one of another gateway
\* that has the vehicle, nor to one lost when the gateway died.
EntryLeadsToConnection ==
    \A h \in Hosts, c \in ClientIds : entry[h][c] # NoSocket =>
        LET s == entry[h][c]
        IN  /\ hostOf[s] = h /\ idOf[s] = c
            /\ state[s] \in Alive
            /\ state[s] \in {"closing", "destroying"} => phase[s] = "called"

\* WebSocketComponents.h:31 has the row say NA of a vehicle that "is not
\* connected now": of one that moves, with each of its connections at another
\* gateway, no gateway's map has an entry then, if no call is under way, no query
\* has failed and no gateway died.
NotAvailableMeansNowhereConnected ==
    \A c \in ClientIds :
        LET used == {s \in Sockets : idOf[s] = c /\ state[s] # "none"}
        IN  /\ \A s, r \in used : s # r => hostOf[s] # hostOf[r]
            /\ \A s \in used : phase[s] = "idle" /\ state[s] # "lost"
            /\ c \notin failed
            /\ row[c] = NA
            => \A h \in Hosts : entry[h][c] = NoSocket
=============================================================================
