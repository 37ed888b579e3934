------------------------ MODULE ConnectionLifecycle ------------------------
(***************************************************************************)
(* The life of a WebSocket connection as the gateway sees it: the callbacks*)
(* of src/websocket/WebSocketListener.cpp and the calls they make on the   *)
(* registry.                                                               *)
(*                                                                         *)
(* Any idle thread of the executor may run the next callback of a socket;  *)
(* the callbacks of one socket follow each other, those of different       *)
(* sockets interleave, inside the registry too.  The peer may close, reset *)
(* or silently leave the connection at any moment.                         *)
(***************************************************************************)
EXTENDS WebSocketComponent, Integers

CONSTANT EmptyId    \* the client id of a request whose path ends in ws/by-id/

ASSUME EmptyIdAssumption == EmptyId \in ClientIds

VARIABLES
    state,      \* per socket: where its coroutine is
    idOf,       \* per socket: the ClientId parameter of its upgrade request
    peer,       \* per socket: what the vehicle has done with the connection
    SOCKETS,    \* the counter of connected clients
    contested   \* history: sockets whose life overlapped that of another
                \* socket of the same client

socketVars    == <<state, idOf, peer, SOCKETS, contested>>
lifecycleVars == <<registryVars, socketVars>>

States == {"none", "creating", "listening", "closing", "ended", "destroying", "destroyed"}
Alive  == {"creating", "listening", "closing", "ended", "destroying"}

SocketsOf(c) == {s \in Sockets : state[s] # "none" /\ idOf[s] = c}

LifecycleInit ==
    /\ RegistryInit
    /\ state = [s \in Sockets |-> "none"]
    /\ idOf \in [Sockets -> ClientIds]
    /\ peer = [s \in Sockets |-> "up"]
    /\ SOCKETS = 0
    /\ contested = {}

Become(s, from, to) == state[s] = from /\ state' = [state EXCEPT ![s] = to]

\* A request to the registry made by a callback of socket s.
RequestOf(s, op) == [op |-> op, id |-> idOf[s], sock |-> s]
ReturnsFrom(t, s) == pc[t] = "return" /\ call[t].sock = s

\* onAfterCreate_NonBlocking up to its call of addClient.  For an empty
\* ClientId the code builds a close frame whose coroutine it then drops, and
\* registers the socket like any other.
OnAfterCreate(s, t) ==
    LET rivals == {u \in SocketsOf(idOf[s]) : state[u] \in Alive}
    IN  /\ Become(s, "none", "creating")
        /\ SOCKETS' = SOCKETS + 1
        /\ contested' = IF rivals = {} THEN contested ELSE contested \cup rivals \cup {s}
        /\ Enter(t, RequestOf(s, "addClient"))
        /\ UNCHANGED <<idOf, peer>>

\* addClient returns, setListener: from here on the frames of s are read.
SetListener(s, t) ==
    /\ ReturnsFrom(t, s)
    /\ Become(s, "creating", "listening")
    /\ Leave(t)
    /\ UNCHANGED <<idOf, peer, SOCKETS, contested>>

\* The vehicle sends a close frame, drops the TCP connection, or vanishes
\* without a word.
PeerLeaves(s, how) ==
    /\ state[s] \in {"creating", "listening"} /\ peer[s] = "up"
    /\ peer' = [peer EXCEPT ![s] = how]
    /\ UNCHANGED <<registryVars, state, idOf, SOCKETS, contested>>

MutOnCloseCountsDown(s, t) ==
    /\ peer[s] = "closed"
    /\ Become(s, "listening", "closing")
    /\ SOCKETS' = SOCKETS - 1
    /\ Enter(t, RequestOf(s, "setClientNotAvailable"))
    /\ UNCHANGED <<idOf, peer, contested>>

\* A close frame is read: onClose.
OnClose(s, t) ==
    /\ peer[s] = "closed"
    /\ Become(s, "listening", "closing")
    /\ Enter(t, RequestOf(s, "setClientNotAvailable"))
    /\ UNCHANGED <<idOf, peer, SOCKETS, contested>>

OnCloseReturns(s, t) ==
    /\ ReturnsFrom(t, s)
    /\ Become(s, "closing", "ended")
    /\ Leave(t)
    /\ UNCHANGED <<idOf, peer, SOCKETS, contested>>

\* Reading fails: the listening coroutine ends without calling onClose.  The
\* gateway sends no pings and sets no timeout, so that of a vehicle that just
\* vanished it may never hear.
ReadFails(s) ==
    /\ peer[s] \in {"reset", "vanished"}
    /\ Become(s, "listening", "ended")
    /\ UNCHANGED <<registryVars, idOf, peer, SOCKETS, contested>>

MutBeforeDestroyKeepsClient(s, t) ==
    /\ pc[t] = "idle"
    /\ Become(s, "ended", "destroyed")
    /\ SOCKETS' = SOCKETS - 1
    /\ UNCHANGED <<registryVars, idOf, peer, contested>>

\* onBeforeDestroy_NonBlocking calls the listener's onClose, so that after a
\* close frame the client is set not available twice.
OnBeforeDestroy(s, t) ==
    /\ Become(s, "ended", "destroying")
    /\ SOCKETS' = SOCKETS - 1
    /\ Enter(t, RequestOf(s, "setClientNotAvailable"))
    /\ UNCHANGED <<idOf, peer, contested>>

Destroyed(s, t) ==
    /\ ReturnsFrom(t, s)
    /\ Become(s, "destroying", "destroyed")
    /\ Leave(t)
    /\ UNCHANGED <<idOf, peer, SOCKETS, contested>>

\* The thread that runs a callback makes a step inside the registry.
InRegistry(t) == Inside(t) /\ UNCHANGED socketVars

\* A callback of socket s starts or returns on thread t.
Callback(s, t) == \/ OnAfterCreate(s, t)
                  \/ SetListener(s, t)
                  \/ OnClose(s, t)
                  \/ OnCloseReturns(s, t)
                  \/ OnBeforeDestroy(s, t)
                  \/ Destroyed(s, t)

LifecycleNext ==
    \/ \E s \in Sockets, t \in Threads : Callback(s, t)
    \/ \E s \in Sockets : \/ \E how \in {"closed", "reset", "vanished"} : PeerLeaves(s, how)
                          \/ ReadFails(s)
    \/ \E t \in Threads : InRegistry(t)

LifecycleSpec == LifecycleInit /\ [][LifecycleNext]_lifecycleVars

(***************************************************************************)
(* Fairness.  A runnable thread runs, the executor takes up the callbacks  *)
(* that are due on some idle thread, TCP reports a reset, and the driver   *)
(* sets the future of every query (success, error or its own timeout).     *)
(* Nothing is assumed of the vehicles, new connections, or a peer that     *)
(* vanished.  A spinning thread is only weakly fair.                       *)
(***************************************************************************)
Due(s) == \E t \in Threads : \/ SetListener(s, t)
                             \/ OnClose(s, t)
                             \/ OnCloseReturns(s, t)
                             \/ OnBeforeDestroy(s, t)
                             \/ Destroyed(s, t)

LifecycleFairness ==
    /\ \A t \in Threads : WF_lifecycleVars(InRegistry(t))
    /\ \A s \in Sockets : /\ WF_lifecycleVars(Due(s))
                          /\ WF_lifecycleVars(peer[s] = "reset" /\ ReadFails(s))

FairLifecycleSpec == LifecycleSpec /\ LifecycleFairness
-----------------------------------------------------------------------------
(***************************************************************************)
(* Properties                                                              *)
(***************************************************************************)

\* The type invariant of the connections and of the registry under them.
LifecycleTypeOK ==
    /\ RegistryTypeOK
    /\ state \in [Sockets -> States]
    /\ idOf \in [Sockets -> ClientIds]
    /\ peer \in [Sockets -> {"up", "closed", "reset", "vanished"}]
    /\ SOCKETS \in Int
    /\ contested \subseteq Sockets

\* The callback of s has put its change into the map.
Stored(s) == \E t \in Threads : pc[t] \in {"unlock", "query", "return"} /\ call[t].sock = s

\* The map never leads to a dead socket: the socket of an entry has yet to go
\* through the erase of its own onBeforeDestroy (WebSocketListener.cpp:208),
\* whatever other connections of the same client did in between.
NoStaleEntry ==
    \A c \in ClientIds : clients[c] # NoSocket =>
        LET s == clients[c]
        IN  /\ idOf[s] = c
            /\ \/ state[s] \in {"creating", "listening", "ended"}
               \/ state[s] \in {"closing", "destroying"} /\ ~Stored(s)

\* A client with one connection at a time can be reached for as long as the
\* connection is read: its socket is the entry of its id.
SoleConnectionRegistered ==
    \A s \in Sockets : state[s] = "listening" /\ s \notin contested
                         => clients[idOf[s]] = s

\* When every connection of a client has been destroyed, in whatever order
\* their callbacks ran, its row says NA unless one of its queries failed.
RowClearedWhenGone ==
    \A c \in ClientIds :
        /\ SocketsOf(c) # {}
        /\ \A s \in SocketsOf(c) : state[s] = "destroyed"
        /\ c \notin failed
        => vehicles[c] = NA

\* The counter is right when it can be checked: with no connection left it
\* is back at zero and the map is empty.
NothingLeftWhenIdle ==
    (\A s \in Sockets : state[s] \in {"none", "destroyed"})
        => SOCKETS = 0 /\ clients = EmptyMap

InMap(s) == \E c \in ClientIds : clients[c] = s

\* The map takes a socket in once, when its own addClient stores it
\* (WebSocketListener.cpp:195), and whatever other callbacks write afterwards,
\* a socket that it has let go of never comes back.
MapOnlyLetsGo ==
    [][\A s \in Sockets : InMap(s)' => InMap(s) \/ state[s] = "creating"]_lifecycleVars

\* A vehicle that closes or resets its connection is forgotten: the socket is
\* destroyed and no entry of the map keeps it.
DepartedAreForgotten ==
    \A s \in Sockets :
        peer[s] \in {"closed", "reset"}
            ~> state[s] = "destroyed" /\ \A c \in ClientIds : clients[c] # s

(***************************************************************************)
(* The connections implement GatewayCluster, with this process as the only *)
(* gateway: a socket's call is as far as the thread that makes it, and the *)
(* write-back of the map is the atomic Store.                              *)
(***************************************************************************)
CallIs(s, ph) == \E t \in Threads : PhaseOf(pc[t]) = ph /\ call[t].sock = s

CallPhase(s) == CASE CallIs(s, "called")   -> "called"
                  [] CallIs(s, "stored")   -> "stored"
                  [] CallIs(s, "recorded") -> "recorded"
                  [] OTHER                 -> "idle"

Cluster == INSTANCE GatewayCluster
             WITH Hosts     <- {AppServerName},
                  EmptyName <- "",
                  entry     <- [h \in {AppServerName} |-> clients],
                  row       <- vehicles,
                  name      <- [h \in {AppServerName} |-> AppServerName],
                  phase     <- [s \in Sockets |-> CallPhase(s)],
                  hostOf    <- [s \in Sockets |-> AppServerName]

\* Every behaviour of the callbacks on their threads (WebSocketListener.cpp:
\* 35-211) is one of the cluster with atomic calls: what holds of any gateways
\* holds of this one.
ImplementsCluster == Cluster!ClusterSpec

\* WebSocketListener.h:86 says of the registry that it is there to "maintain
\* all connected sockets": a client one of whose sockets is being read, and
\* none of whose calls is under way, has an entry.
ConnectedSocketsMaintained ==
    \A s \in Sockets : state[s] = "listening" /\ InFlight(idOf[s]) = {}
                         => clients[idOf[s]] # NoSocket

\* WebSocketListener.cpp:153-156 refuses an empty ClientId (an error is logged
\* and a close frame made): no socket is registered under it.
EmptyIdRefused == clients[EmptyId] = NoSocket
=============================================================================
