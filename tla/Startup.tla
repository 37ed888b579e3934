------------------------------- MODULE Startup -------------------------------
(***************************************************************************)
(* The start of gateway processes on one host, from Config to the server   *)
(* threads (src/App.cpp, src/AppComponent.h), and their end.               *)
(*                                                                         *)
(* The processes compete for the ports of the host and share one database. *)
(* A process may be killed at any step and started again, with another     *)
(* environment; what it has created in the database stays.                 *)
(***************************************************************************)
EXTENDS Integers, Sequences, Functions

CONSTANTS
    Gateways,      \* the processes
    Environments,  \* the environments a process may find (see EnvInt)
    Defaults,      \* the default values of the variables
    Unset,         \* a variable that is not set, empty or not a number
    CountSpace,    \* 2^8, the values of a uint8_t
    PortSpace,     \* 2^16, the values of a port
    DriverPort,    \* the database driver's own default port
    NoSession      \* no database session

ASSUME SpacesAssumption == CountSpace \in Nat \ {0} /\ PortSpace \in Nat \ {0}

VARIABLES
    stage,      \* per process: where run() is
    env,        \* per process: its environment
    providers,  \* per process: the ports it listens on, in order
    session,    \* per process: the port its database session uses
    schema,     \* what exists in the database
    spawned,    \* per process: how many providers have had their turn
    servers,    \* per process: the ports whose server thread runs
    workGuard,  \* per process: keeps the io_context running
    ioThread    \* per process: the thread inside io_context::run()

processVars == <<stage, env, providers, session, spawned, servers, workGuard, ioThread>>
vars == <<processVars, schema>>

Ports   == 0 .. PortSpace - 1
Objects == {"keyspace", "table", "view"}
Stages  == {"off", "context", "binding", "connecting"} \cup Objects
             \cup {"ready", "spawning", "joining", "stopping"}

StartupInit ==
    /\ stage = [g \in Gateways |-> "off"]
    /\ env \in [Gateways -> Environments]
    /\ providers = [g \in Gateways |-> <<>>]
    /\ session = [g \in Gateways |-> NoSession]
    /\ schema \in {{}, Objects}
    /\ spawned = [g \in Gateways |-> 0]
    /\ servers = [g \in Gateways |-> {}]
    /\ workGuard = [g \in Gateways |-> FALSE]
    /\ ioThread = [g \in Gateways |-> "none"]

Goto(g, from, to) == stage[g] = from /\ stage' = [stage EXCEPT ![g] = to]

(***************************************************************************)
(* The configuration: integers cut to their field's width.                 *)
(***************************************************************************)
EnvInt(e, name) == IF e[name] = Unset THEN Defaults[name] ELSE e[name]

\* getEnvInt returns an int whatever the text.
ASSUME CountAssumption == \A e \in Environments : EnvInt(e, "WSS_NUMBER_OF_PORTS") \in Int

NumberOfPorts(e) == EnvInt(e, "WSS_NUMBER_OF_PORTS") % CountSpace

BasePort(e) ==
    EnvInt(e, IF e.WSS_USE_MTLS THEN "WSS_MTLS_BASE_PORT" ELSE "WSS_PORT") % PortSpace

\* The port connect gives the driver.  It means to take that of each listed
\* host, but converts the whole text of the list each time, and ignores what
\* is not one number: a list leaves the driver's default.
SessionPort(e) ==
    IF Len(e.WSS_SCYLLADB_PORT) = 1 THEN e.WSS_SCYLLADB_PORT[1] ELSE DriverPort

ASSUME SessionAssumption == \A e \in Environments : SessionPort(e) # NoSession

\* The process ends, by exit(-1), by return from main or by a signal: the
\* system takes back its ports and threads.
End(g) ==
    /\ stage' = [stage EXCEPT ![g] = "off"]
    /\ providers' = [providers EXCEPT ![g] = <<>>]
    /\ session' = [session EXCEPT ![g] = NoSession]
    /\ spawned' = [spawned EXCEPT ![g] = 0]
    /\ servers' = [servers EXCEPT ![g] = {}]
    /\ workGuard' = [workGuard EXCEPT ![g] = FALSE]
    /\ ioThread' = [ioThread EXCEPT ![g] = "none"]
    /\ UNCHANGED env

\* main, Config and the executor
Launch(g) ==
    \E e \in Environments :
        /\ Goto(g, "off", IF e.WSS_USE_MTLS THEN "context" ELSE "binding")
        /\ env' = [env EXCEPT ![g] = e]
        /\ UNCHANGED <<providers, session, schema, spawned, servers, workGuard, ioThread>>

\* getSSLContext: any call that fails ends the process
GetSSLContext(g) ==
    /\ \/ /\ Goto(g, "context", "binding")
          /\ UNCHANGED <<env, providers, session, spawned, servers, workGuard, ioThread>>
       \/ stage[g] = "context" /\ End(g)
    /\ UNCHANGED schema

Listening(port) == \E g \in Gateways : port \in Range(providers[g])

\* The ports the system may give to a provider that asks for a port: for port
\* 0 it picks a free one itself.
Bindable(wanted) ==
    {p \in Ports \ {0} : (p = wanted \/ wanted = 0) /\ ~Listening(p)}

MutBindGoesOn(g) ==
    LET i      == Len(providers[g])
        wanted == (BasePort(env[g]) + i) % PortSpace
    IN  /\ stage[g] = "binding" /\ i < NumberOfPorts(env[g])
        /\ \/ /\ \E p \in Bindable(wanted) : providers' = [providers EXCEPT ![g] = Append(@, p)]
              /\ UNCHANGED <<stage, env, session, spawned, servers, workGuard, ioThread>>
           \/ /\ Bindable(wanted) = {}
              /\ stage' = [stage EXCEPT ![g] = "connecting"]
              /\ UNCHANGED <<env, providers, session, spawned, servers, workGuard, ioThread>>
        /\ UNCHANGED schema

\* One turn of the loop that creates the providers.  A provider listens as
\* soon as it is created; if the port is taken the process ends.
Bind(g) ==
    LET i      == Len(providers[g])
        wanted == (BasePort(env[g]) + i) % PortSpace
    IN  /\ stage[g] = "binding" /\ i < NumberOfPorts(env[g])
        /\ \/ /\ \E p \in Bindable(wanted) : providers' = [providers EXCEPT ![g] = Append(@, p)]
              /\ UNCHANGED <<stage, env, session, spawned, servers, workGuard, ioThread>>
           \/ Bindable(wanted) = {} /\ End(g)
        /\ UNCHANGED schema

\* The loop is over; the other components are created, and run() goes on.
Bound(g) ==
    /\ Len(providers[g]) = NumberOfPorts(env[g])
    /\ Goto(g, "binding", "connecting")
    /\ UNCHANGED <<env, providers, session, schema, spawned, servers, workGuard, ioThread>>

MutConnectSetsNoPort(g) ==
    /\ \/ /\ Goto(g, "connecting", "keyspace")
          /\ session' = [session EXCEPT ![g] = DriverPort]
          /\ UNCHANGED <<env, providers, spawned, servers, workGuard, ioThread>>
       \/ stage[g] = "connecting" /\ End(g)
    /\ UNCHANGED schema

Connect(g) ==
    /\ \/ /\ Goto(g, "connecting", "keyspace")
          /\ session' = [session EXCEPT ![g] = SessionPort(env[g])]
          /\ UNCHANGED <<env, providers, spawned, servers, workGuard, ioThread>>
       \/ stage[g] = "connecting" /\ End(g)
    /\ UNCHANGED schema

After == [keyspace |-> "table", table |-> "view", view |-> "ready"]

MutCreateUnchecked(g, object) ==
    \E success, applied \in BOOLEAN :
        /\ success => applied
        /\ stage[g] = object
        /\ schema' = IF applied THEN schema \cup {object} ELSE schema
        /\ stage' = [stage EXCEPT ![g] = After[object]]
        /\ UNCHANGED <<env, providers, session, spawned, servers, workGuard, ioThread>>

\* create_keyspace, create_table and create_materialized_view, all of them
\* IF NOT EXISTS.  A statement that failed may have been applied all the same.
Create(g, object) ==
    \E success, applied \in BOOLEAN :
        /\ success => applied
        /\ stage[g] = object
        /\ schema' = IF applied THEN schema \cup {object} ELSE schema
        /\ IF success
             THEN /\ stage' = [stage EXCEPT ![g] = After[object]]
                  /\ UNCHANGED <<env, providers, session, spawned, servers, workGuard, ioThread>>
             ELSE End(g)

MutStartIoUnguarded(g) ==
    /\ Goto(g, "ready", "spawning")
    /\ ioThread' = [ioThread EXCEPT ![g] = "running"]
    /\ UNCHANGED <<env, providers, session, schema, spawned, servers, workGuard>>

\* The routes are added; the io_context gets a work guard and its thread.  If
\* the thread cannot be created run() is left through its catch clause.
StartIo(g) ==
    /\ \/ /\ Goto(g, "ready", "spawning")
          /\ workGuard' = [workGuard EXCEPT ![g] = TRUE]
          /\ ioThread' = [ioThread EXCEPT ![g] = "running"]
          /\ UNCHANGED <<env, providers, session, spawned, servers>>
       \/ stage[g] = "ready" /\ End(g)
    /\ UNCHANGED schema

\* One turn of the loop that starts the servers; that a thread could not be
\* created is logged.
Spawn(g) ==
    /\ stage[g] = "spawning" /\ spawned[g] < Len(providers[g])
    /\ spawned' = [spawned EXCEPT ![g] = @ + 1]
    /\ \/ servers' = [servers EXCEPT ![g] = @ \cup {providers[g][spawned'[g]]}]
       \/ UNCHANGED servers
    /\ UNCHANGED <<stage, env, providers, session, schema, workGuard, ioThread>>

AllSpawned(g) ==
    /\ spawned[g] = Len(providers[g])
    /\ Goto(g, "spawning", "joining")
    /\ UNCHANGED <<env, providers, session, schema, spawned, servers, workGuard, ioThread>>

MutJoinedKeepsGuard(g) ==
    /\ servers[g] = {}
    /\ Goto(g, "joining", "stopping")
    /\ UNCHANGED <<env, providers, session, schema, spawned, servers, workGuard, ioThread>>

\* Nothing stops a server, so that the joins return only if there is none.
Joined(g) ==
    /\ servers[g] = {}
    /\ Goto(g, "joining", "stopping")
    /\ workGuard' = [workGuard EXCEPT ![g] = FALSE]
    /\ UNCHANGED <<env, providers, session, schema, spawned, servers, ioThread>>

\* io_context::run() returns when there is neither work nor a guard.
IoReturns(g) ==
    /\ ioThread[g] = "running" /\ ~workGuard[g]
    /\ ioThread' = [ioThread EXCEPT ![g] = "returned"]
    /\ UNCHANGED <<stage, env, providers, session, schema, spawned, servers, workGuard>>

\* ioThread.join() returns, the environment is destroyed, main returns.
Exit(g) == stage[g] = "stopping" /\ ioThread[g] = "returned" /\ End(g) /\ UNCHANGED schema

Kill(g) == stage[g] # "off" /\ End(g) /\ UNCHANGED schema

\* A step of the process itself
Run(g) == \/ GetSSLContext(g) \/ Bind(g) \/ Bound(g) \/ Connect(g)
          \/ \E object \in Objects : Create(g, object)
          \/ StartIo(g) \/ Spawn(g) \/ AllSpawned(g) \/ Joined(g) \/ IoReturns(g) \/ Exit(g)

StartupNext == \E g \in Gateways : Launch(g) \/ Run(g) \/ Kill(g)

StartupSpec == StartupInit /\ [][StartupNext]_vars

\* A started process runs on: bind, connect and queries return, well or not.
FairStartupSpec == StartupSpec /\ \A g \in Gateways : WF_vars(Run(g))
-----------------------------------------------------------------------------
(***************************************************************************)
(* Properties                                                              *)
(***************************************************************************)

\* The type invariant of the processes and of the schema.
StartupTypeOK ==
    /\ stage \in [Gateways -> Stages]
    /\ env \in [Gateways -> Environments]
    /\ providers \in [Gateways -> Seq(Ports)]
    /\ DOMAIN session = Gateways
    /\ \A g \in Gateways : session[g] \in {NoSession, SessionPort(env[g])}
    /\ schema \subseteq Objects
    /\ spawned \in [Gateways -> Nat]
    /\ \A g \in Gateways : spawned[g] <= Len(providers[g])
    /\ servers \in [Gateways -> SUBSET Ports]
    /\ workGuard \in [Gateways -> BOOLEAN]
    /\ ioThread \in [Gateways -> {"none", "running", "returned"}]

\* A vehicle is served only by a process that can register it: the keyspace,
\* the table and the view exist and its session is open, whoever created them
\* and whichever other process failed half way (App.cpp:32-52).
SchemaBeforeService ==
    \A g \in Gateways : servers[g] # {} => schema = Objects /\ session[g] # NoSession

\* The io_context is run for as long as a server is: no message is handed to
\* an io_context that has stopped ("Prevents premature exit", App.cpp:71).
IoOutlivesServers ==
    \A g \in Gateways : servers[g] # {} => ioThread[g] = "running"

\* All or nothing: a process goes on to the database only with as many ports
\* as it was configured for, none of them another's (AppComponent.h:100-103).
AllPortsOrNone ==
    \A g \in Gateways :
        stage[g] \notin {"off", "context", "binding"} =>
            /\ Len(providers[g]) = NumberOfPorts(env[g])
            /\ IsInjective(providers[g])
            /\ \A h \in Gateways \ {g} : Range(providers[g]) \cap Range(providers[h]) = {}

Left == [context |-> 9, binding |-> 8, connecting |-> 7, keyspace |-> 6, table |-> 5,
         view |-> 4, ready |-> 3, spawning |-> 2, joining |-> 1, stopping |-> 0]

\* The turns left of the loop a process is in
Rest(g) == CASE stage[g] = "binding"  -> NumberOfPorts(env[g]) - Len(providers[g])
             [] stage[g] = "spawning" -> Len(providers[g]) - spawned[g]
             [] stage[g] = "stopping" -> IF ioThread[g] = "running" THEN 1 ELSE 0
             [] OTHER                 -> 0

ProcessOf(g) == <<stage[g], providers[g], session[g], spawned[g], servers[g],
                  workGuard[g], ioThread[g]>>

\* Nothing is tried twice and no loop runs without end: whatever a started
\* process does brings it nearer to its joins or ends it (App.cpp:23-115), and
\* what another process does changes nothing of it.
StartAdvances ==
    [][\A g \in Gateways :
          stage[g] # "off" /\ stage'[g] # "off" /\ ProcessOf(g)' # ProcessOf(g) =>
              \/ Left[stage'[g]] < Left[stage[g]]
              \/ stage'[g] = stage[g] /\ 0 <= Rest(g)' /\ Rest(g)' < Rest(g)]_vars

\* A process that is started comes to serve or ends; in particular the one
\* whose number of ports is a multiple of 2^8 ends, and does not wait for an
\* io_context without work (App.cpp:108-114).
StartSettles ==
    \A g \in Gateways :
        stage[g] \in {"context", "binding"}
            ~> \/ stage[g] = "joining" /\ servers[g] # {}
               \/ stage[g] = "off"

\* README.md:32 calls WSS_SCYLLADB_PORT "the servers ports in the vm": the
\* port of an open session is one of them.
ListedPortIsUsed ==
    \A g \in Gateways :
        session[g] # NoSession => session[g] \in Range(env[g].WSS_SCYLLADB_PORT)
=============================================================================
