--------------------------- MODULE Startup_proofs ---------------------------
(***************************************************************************)
(* Proofs about the start of gateway processes, for any number of them,    *)
(* any environments and any widths of the counters.                        *)
(***************************************************************************)
EXTENDS Startup, TLAPS

\* Everything a process does, and its end
ProcessStep(g) == Launch(g) \/ Run(g) \/ Kill(g)

LEMMA StartupCases ==
  ASSUME [StartupNext]_vars
  PROVE  (\E g \in Gateways : ProcessStep(g)) \/ UNCHANGED vars
  BY DEF StartupNext, ProcessStep

\* A process that is off has left nothing behind for the next environment.
OffInv == \A g \in Gateways : stage[g] = "off" => session[g] = NoSession

LEMMA StartupTypeInit == StartupInit => StartupTypeOK /\ OffInv
  BY DEF StartupInit, StartupTypeOK, OffInv, Stages, Objects

LEMMA EndTyped ==
  ASSUME StartupTypeOK, NEW g \in Gateways, End(g), schema' \subseteq Objects
  PROVE  StartupTypeOK'
<1>1. Len(<<>>) = 0 /\ <<>> \in Seq(Ports)
  OBVIOUS
<1>2. /\ providers' \in [Gateways -> Seq(Ports)] /\ spawned' \in [Gateways -> Nat]
      /\ \A h \in Gateways : spawned'[h] <= Len(providers'[h])
  BY <1>1 DEF StartupTypeOK, End
<1>3. /\ DOMAIN session' = Gateways /\ env' = env
      /\ \A h \in Gateways : session'[h] \in {NoSession, SessionPort(env[h])}
  BY DEF StartupTypeOK, End
<1> QED BY <1>2, <1>3 DEF StartupTypeOK, End, Stages

\* One more port that nobody listens on
LEMMA BindFacts ==
  ASSUME StartupTypeOK, NEW g \in Gateways, NEW p,
         \E wanted : p \in Bindable(wanted),
         providers' = [providers EXCEPT ![g] = Append(@, p)]
  PROVE  /\ p \in Ports /\ \A h \in Gateways : p \notin Range(providers[h])
         /\ providers' \in [Gateways -> Seq(Ports)]
         /\ Len(providers'[g]) = Len(providers[g]) + 1
         /\ \A i \in 1 .. Len(providers[g]) : providers'[g][i] = providers[g][i]
         /\ providers'[g][Len(providers[g]) + 1] = p
         /\ \A h \in Gateways \ {g} : providers'[h] = providers[h]
<1>1. p \in Ports /\ \A h \in Gateways : p \notin Range(providers[h])
  BY DEF Bindable, Listening
<1>2. providers[g] \in Seq(Ports) /\ providers \in [Gateways -> Seq(Ports)]
  BY DEF StartupTypeOK
<1>3. providers'[g] = Append(providers[g], p) /\ Append(providers[g], p) \in Seq(Ports)
  BY <1>1, <1>2
<1> QED BY <1>1, <1>2, <1>3

LEMMA StartupTypeStep == StartupTypeOK /\ OffInv /\ [StartupNext]_vars => StartupTypeOK'
<1> SUFFICES ASSUME StartupTypeOK, OffInv, [StartupNext]_vars PROVE StartupTypeOK'
  OBVIOUS
<1>1. ASSUME NEW g \in Gateways, ProcessStep(g)
      PROVE  StartupTypeOK'
  <2> USE DEF StartupTypeOK
  <2>1. CASE Launch(g)
    <3>1. PICK e \in Environments :
            /\ Goto(g, "off", IF e.WSS_USE_MTLS THEN "context" ELSE "binding")
            /\ env' = [env EXCEPT ![g] = e]
            /\ UNCHANGED <<providers, session, schema, spawned, servers, workGuard, ioThread>>
      BY <2>1 DEF Launch
    <3>2. session[g] = NoSession /\ \A h \in Gateways \ {g} : env'[h] = env[h]
      BY <3>1 DEF OffInv, Goto
    <3>3. stage' \in [Gateways -> Stages]
      BY <3>1 DEF Goto, Stages
    <3> QED BY <3>1, <3>2, <3>3
  <2>2. CASE GetSSLContext(g)
    BY <2>2, EndTyped DEF GetSSLContext, Goto, Stages
  <2>3. CASE Bind(g)
    <3>1. CASE End(g) /\ UNCHANGED schema
      BY <3>1, EndTyped
    <3>2. CASE /\ \E p : /\ \E wanted : p \in Bindable(wanted)
                         /\ providers' = [providers EXCEPT ![g] = Append(@, p)]
               /\ UNCHANGED <<stage, env, session, schema, spawned, servers, workGuard, ioThread>>
      <4>1. /\ providers' \in [Gateways -> Seq(Ports)]
            /\ Len(providers'[g]) = Len(providers[g]) + 1
            /\ \A h \in Gateways \ {g} : providers'[h] = providers[h]
        BY <3>2, BindFacts
      <4>2. \A h \in Gateways : Len(providers[h]) \in Nat /\ spawned[h] \in Nat
                                  /\ spawned[h] <= Len(providers[h])
        OBVIOUS
      <4>3. spawned[g] <= Len(providers'[g])
        BY <4>1, <4>2
      <4>4. \A h \in Gateways : spawned[h] <= Len(providers'[h])
        BY <4>1, <4>2, <4>3
      <4> QED BY <3>2, <4>1, <4>4
    <3> QED BY <2>3, <3>1, <3>2 DEF Bind
  <2>4. CASE Bound(g)
    BY <2>4 DEF Bound, Goto, Stages, Objects
  <2>5. CASE Connect(g)
    <3>1. CASE /\ Goto(g, "connecting", "keyspace")
               /\ session' = [session EXCEPT ![g] = SessionPort(env[g])]
               /\ UNCHANGED <<env, providers, schema, spawned, servers, workGuard, ioThread>>
      <4>1. /\ DOMAIN session' = Gateways
            /\ \A h \in Gateways : session'[h] \in {NoSession, SessionPort(env[h])}
        BY <3>1
      <4>2. stage' \in [Gateways -> Stages]
        BY <3>1 DEF Goto, Stages, Objects
      <4> QED BY <3>1, <4>1, <4>2
    <3> QED BY <2>5, <3>1, EndTyped DEF Connect
  <2>6. ASSUME NEW object \in Objects, Create(g, object)
        PROVE  StartupTypeOK'
    <3>1. schema' \subseteq Objects
      BY <2>6 DEF Create
    <3>2. After[object] \in Stages
      BY DEF After, Objects, Stages
    <3> QED BY <2>6, <3>1, <3>2, EndTyped DEF Create
  <2>7. CASE StartIo(g)
    BY <2>7, EndTyped DEF StartIo, Goto, Stages
  <2>8. CASE Spawn(g)
    <3>0. /\ spawned[g] < Len(providers[g]) /\ spawned' = [spawned EXCEPT ![g] = @ + 1]
          /\ UNCHANGED <<stage, env, providers, session, schema, workGuard, ioThread>>
          /\ \/ servers' = [servers EXCEPT ![g] = @ \cup {providers[g][spawned'[g]]}]
             \/ UNCHANGED servers
      BY <2>8 DEF Spawn
    <3>1. spawned[g] \in Nat /\ Len(providers[g]) \in Nat /\ spawned[g] < Len(providers[g])
      BY <3>0
    <3>2. spawned' = [spawned EXCEPT ![g] = spawned[g] + 1] /\ spawned'[g] = spawned[g] + 1
      BY <3>0, <3>1
    <3>3. providers[g][spawned'[g]] \in Ports
      BY <3>1, <3>2
    <3>4. spawned' \in [Gateways -> Nat] /\ \A h \in Gateways : spawned'[h] <= Len(providers[h])
      BY <3>1, <3>2
    <3>5. servers' \in [Gateways -> SUBSET Ports]
      BY <3>0, <3>3
    <3> QED BY <3>0, <3>4, <3>5
  <2>9. CASE AllSpawned(g) \/ Joined(g) \/ IoReturns(g)
    BY <2>9 DEF AllSpawned, Joined, IoReturns, Goto, Stages
  <2>10. CASE Exit(g) \/ Kill(g)
    BY <2>10, EndTyped DEF Exit, Kill
  <2> QED BY <1>1, <2>1, <2>2, <2>3, <2>4, <2>5, <2>6, <2>7, <2>8, <2>9, <2>10
          DEF ProcessStep, Run
<1>2. CASE UNCHANGED vars
  BY <1>2 DEF vars, processVars, StartupTypeOK
<1> QED BY <1>1, <1>2, StartupCases

LEMMA OffStep == StartupTypeOK /\ OffInv /\ [StartupNext]_vars => OffInv'
<1> SUFFICES ASSUME StartupTypeOK, OffInv, [StartupNext]_vars,
                    NEW g \in Gateways, stage'[g] = "off"
             PROVE  session'[g] = NoSession
  BY DEF OffInv
<1>0. stage \in [Gateways -> Stages] /\ DOMAIN session = Gateways
  BY DEF StartupTypeOK
<1>1. ASSUME NEW h \in Gateways, End(h)
      PROVE  session'[g] = NoSession
  BY <1>0, <1>1 DEF End, OffInv
<1>2. ASSUME NEW h \in Gateways, ProcessStep(h), ~End(h)
      PROVE  session'[g] = NoSession
  <2>1. CASE Connect(h)
    BY <1>0, <1>2, <2>1 DEF Connect, Goto, OffInv
  <2>2. ASSUME NEW object \in Objects, Create(h, object)
        PROVE  session'[g] = NoSession
    <3>1. After[object] # "off"
      BY DEF After, Objects
    <3> QED BY <1>0, <1>2, <2>2, <3>1 DEF Create, OffInv
  <2>3. CASE Launch(h)
    BY <1>0, <2>3 DEF Launch, Goto, OffInv
  <2>4. CASE GetSSLContext(h) \/ Bind(h) \/ Bound(h) \/ StartIo(h) \/ Spawn(h)
               \/ AllSpawned(h) \/ Joined(h) \/ IoReturns(h)
    BY <1>0, <1>2, <2>4 DEF GetSSLContext, Bind, Bound, StartIo, Spawn, AllSpawned, Joined,
                            IoReturns, Goto, OffInv
  <2> QED BY <1>2, <2>1, <2>2, <2>3, <2>4 DEF ProcessStep, Run, Exit, Kill
<1>3. CASE UNCHANGED vars
  BY <1>3 DEF vars, processVars, OffInv
<1> QED BY <1>1, <1>2, <1>3, StartupCases

\* StartupTypeOK holds for any processes, environments and widths.
THEOREM StartupTypeCorrect == StartupSpec => []StartupTypeOK
  BY StartupTypeInit, StartupTypeStep, OffStep, PTL DEF StartupSpec
-----------------------------------------------------------------------------
(***************************************************************************)
(* What a process has when it comes to a stage.  Objects are never dropped *)
(* from the schema, so that what it has seen created stays there whoever   *)
(* else fails.  Its threads run only between StartIo and Joined, and the   *)
(* guard of the io_context is held for exactly as long.                    *)
(***************************************************************************)
Serving  == {"spawning", "joining"}
Prepared == {"ready", "spawning", "joining", "stopping"}

StageInv ==
    \A g \in Gateways :
        /\ stage[g] = "table" => "keyspace" \in schema
        /\ stage[g] = "view" => "keyspace" \in schema /\ "table" \in schema
        /\ stage[g] \in Prepared => Objects \subseteq schema
        /\ stage[g] \in Objects \cup Prepared => session[g] # NoSession
        /\ servers[g] # {} => stage[g] \in Serving
        /\ stage[g] \in Serving => workGuard[g] /\ ioThread[g] = "running"

LEMMA StageInit == StartupInit => StageInv
  BY DEF StartupInit, StageInv, Objects, Prepared, Serving

LEMMA StageEnd ==
  ASSUME StartupTypeOK, StageInv, NEW g \in Gateways, End(g), schema \subseteq schema'
  PROVE  StageInv'
<1>1. /\ stage'[g] = "off" /\ servers'[g] = {}
      /\ \A h \in Gateways \ {g} :
           /\ stage'[h] = stage[h] /\ session'[h] = session[h] /\ servers'[h] = servers[h]
           /\ workGuard'[h] = workGuard[h] /\ ioThread'[h] = ioThread[h]
  BY DEF End, StartupTypeOK
<1> QED BY <1>1 DEF StageInv, Objects, Prepared, Serving

LEMMA StageStep == StartupTypeOK /\ StageInv /\ [StartupNext]_vars => StageInv'
<1> SUFFICES ASSUME StartupTypeOK, StageInv, [StartupNext]_vars PROVE StageInv'
  OBVIOUS
<1>0. /\ stage \in [Gateways -> Stages] /\ ioThread \in [Gateways -> {"none", "running", "returned"}]
      /\ servers \in [Gateways -> SUBSET Ports] /\ workGuard \in [Gateways -> BOOLEAN]
  BY DEF StartupTypeOK
<1>1. ASSUME NEW g \in Gateways, ProcessStep(g)
      PROVE  StageInv'
  <2> USE DEF StageInv, Objects, Prepared, Serving
  <2>1. CASE Launch(g)
    <3>1. PICK to \in {"context", "binding"} : Goto(g, "off", to)
      BY <2>1 DEF Launch
    <3>2. UNCHANGED <<session, schema, servers, workGuard, ioThread>>
      BY <2>1 DEF Launch
    <3> QED BY <1>0, <3>1, <3>2 DEF Goto
  <2>2. CASE GetSSLContext(g)
    BY <1>0, <2>2, StageEnd DEF GetSSLContext, Goto
  <2>3. CASE Bind(g) \/ Bound(g)
    BY <1>0, <2>3, StageEnd DEF Bind, Bound, Goto
  <2>4. CASE Connect(g)
    <3>1. CASE End(g) /\ UNCHANGED schema
      BY <3>1, StageEnd
    <3>2. CASE ~End(g)
      <4>1. /\ Goto(g, "connecting", "keyspace") /\ UNCHANGED <<schema, servers, workGuard, ioThread>>
            /\ session' = [session EXCEPT ![g] = SessionPort(env[g])]
        BY <2>4, <3>2 DEF Connect
      <4>2. SessionPort(env[g]) # NoSession
        BY SessionAssumption DEF StartupTypeOK
      <4>3. session'[g] # NoSession /\ \A h \in Gateways \ {g} : session'[h] = session[h]
        BY <4>1, <4>2 DEF StartupTypeOK
      <4> QED BY <1>0, <4>1, <4>3 DEF Goto
    <3> QED BY <2>4, <3>1, <3>2 DEF Connect
  <2>5. ASSUME NEW object \in Objects, Create(g, object)
        PROVE  StageInv'
    <3>1. schema \subseteq schema'
      BY <2>5 DEF Create
    <3>2. CASE End(g)
      BY <3>1, <3>2, StageEnd
    <3>3. CASE ~End(g)
      <4>1. /\ stage[g] = object /\ schema' = schema \cup {object}
            /\ stage' = [stage EXCEPT ![g] = After[object]]
            /\ UNCHANGED <<session, servers, workGuard, ioThread>>
        BY <2>5, <3>3 DEF Create
      <4>2. /\ After["keyspace"] = "table" /\ After["table"] = "view" /\ After["view"] = "ready"
        BY DEF After
      <4>3. object \in {"keyspace", "table", "view"}
        OBVIOUS
      <4>4. CASE object = "keyspace"
        BY <1>0, <4>1, <4>2, <4>4
      <4>5. CASE object = "table"
        BY <1>0, <4>1, <4>2, <4>5
      <4>6. CASE object = "view"
        BY <1>0, <4>1, <4>2, <4>6
      <4> QED BY <4>3, <4>4, <4>5, <4>6
    <3> QED BY <3>2, <3>3
  <2>6. CASE StartIo(g)
    BY <1>0, <2>6, StageEnd DEF StartIo, Goto
  <2>7. CASE Spawn(g)
    <3>1. /\ UNCHANGED <<stage, session, schema, workGuard, ioThread>> /\ stage[g] = "spawning"
          /\ \A h \in Gateways \ {g} : servers'[h] = servers[h]
      BY <1>0, <2>7 DEF Spawn
    <3> QED BY <3>1
  <2>8. CASE AllSpawned(g) \/ Joined(g) \/ IoReturns(g)
    BY <1>0, <2>8 DEF AllSpawned, Joined, IoReturns, Goto
  <2>9. CASE Exit(g) \/ Kill(g)
    BY <2>9, StageEnd DEF Exit, Kill
  <2> QED BY <1>1, <2>1, <2>2, <2>3, <2>4, <2>5, <2>6, <2>7, <2>8, <2>9 DEF ProcessStep, Run
<1>2. CASE UNCHANGED vars
  BY <1>2 DEF vars, processVars, StageInv
<1> QED BY <1>1, <1>2, StartupCases

\* SchemaBeforeService: no process serves vehicles before the schema is there,
\* whatever the others do (App.cpp:32-52).
THEOREM ServiceHasSchema == StartupSpec => []SchemaBeforeService
<1>1. StartupTypeOK /\ StageInv => SchemaBeforeService
  BY DEF StartupTypeOK, StageInv, SchemaBeforeService, Serving, Prepared
<1> QED BY <1>1, StartupTypeInit, StartupTypeStep, OffStep, StageInit, StageStep, PTL DEF StartupSpec

\* IoOutlivesServers: the io_context runs for as long as a server does
\* (App.cpp:70-75 and 108-114).
THEOREM IoRunsWhileServing == StartupSpec => []IoOutlivesServers
<1>1. StageInv => IoOutlivesServers
  BY DEF StageInv, IoOutlivesServers
<1> QED BY <1>1, StartupTypeInit, StartupTypeStep, OffStep, StageInit, StageStep, PTL DEF StartupSpec
-----------------------------------------------------------------------------
(***************************************************************************)
(* Ports.  Two providers never listen on one port, in any stage; a process *)
(* that is past binding has as many as it was configured for.              *)
(***************************************************************************)
PortInv ==
    /\ \A g \in Gateways : IsInjective(providers[g])
    /\ \A g, h \in Gateways : g # h => Range(providers[g]) \cap Range(providers[h]) = {}
    /\ \A g \in Gateways : stage[g] \notin {"off", "context", "binding"} =>
          Len(providers[g]) = NumberOfPorts(env[g])

LEMMA PortInit == StartupInit => PortInv
  BY DEF StartupInit, PortInv, IsInjective, Range

LEMMA PortEnd ==
  ASSUME StartupTypeOK, PortInv, NEW g \in Gateways, End(g)
  PROVE  PortInv'
<1>1. /\ stage'[g] = "off" /\ providers'[g] = <<>> /\ env' = env
      /\ \A h \in Gateways \ {g} : stage'[h] = stage[h] /\ providers'[h] = providers[h]
  BY DEF End, StartupTypeOK
<1>2. Range(<<>>) = {} /\ IsInjective(<<>>)
  BY DEF Range, IsInjective
<1> QED BY <1>1, <1>2 DEF PortInv

LEMMA PortBind ==
  ASSUME StartupTypeOK, PortInv, NEW g \in Gateways, Bind(g), ~End(g)
  PROVE  PortInv'
<1>1. PICK p : /\ \E wanted : p \in Bindable(wanted)
               /\ providers' = [providers EXCEPT ![g] = Append(@, p)]
               /\ UNCHANGED <<stage, env>> /\ stage[g] = "binding"
  BY DEF Bind
<1> DEFINE n == Len(providers[g])
<1>2. /\ \A h \in Gateways : p \notin Range(providers[h])
      /\ DOMAIN providers'[g] = 1 .. (n + 1) /\ DOMAIN providers[g] = 1 .. n /\ n \in Nat
      /\ \A i \in 1 .. n : providers'[g][i] = providers[g][i]
      /\ providers'[g][n + 1] = p
      /\ \A h \in Gateways \ {g} : providers'[h] = providers[h]
  <2>1. providers[g] \in Seq(Ports) /\ providers'[g] \in Seq(Ports) /\ Len(providers'[g]) = n + 1
    BY <1>1, BindFacts DEF StartupTypeOK
  <2>2. /\ DOMAIN providers'[g] = 1 .. (n + 1) /\ DOMAIN providers[g] = 1 .. n /\ n \in Nat
    BY <2>1
  <2> QED BY <1>1, <2>2, BindFacts
<1> HIDE DEF n
<1>3. \A i \in 1 .. (n + 1) : i \in 1 .. n \/ i = n + 1
  BY <1>2
<1>4. Range(providers'[g]) = Range(providers[g]) \cup {p}
  <2>1. Range(providers'[g]) = {providers'[g][i] : i \in 1 .. (n + 1)}
    BY <1>2 DEF Range
  <2>2. Range(providers[g]) = {providers[g][i] : i \in 1 .. n}
    BY <1>2 DEF Range
  <2>3. 1 .. (n + 1) = (1 .. n) \cup {n + 1}
    BY <1>2
  <2>4. {providers'[g][i] : i \in 1 .. n} = {providers[g][i] : i \in 1 .. n}
    BY <1>2
  <2>5. {providers'[g][i] : i \in (1 .. n) \cup {n + 1}}
          = {providers'[g][i] : i \in 1 .. n} \cup {p}
    BY <1>2
  <2> QED BY <2>1, <2>2, <2>3, <2>4, <2>5
<1>5. IsInjective(providers'[g])
  <2>1. \A i \in 1 .. n : providers[g][i] # p
    BY <1>2 DEF Range
  <2>2. \A i, j \in 1 .. n : providers[g][i] = providers[g][j] => i = j
    BY <1>2 DEF PortInv, IsInjective
  <2> QED BY <1>2, <1>3, <2>1, <2>2 DEF IsInjective
<1>6. \A h \in Gateways \ {g} : Range(providers'[h]) = Range(providers[h])
  BY <1>2
<1>7. \A h, i \in Gateways : h # i => Range(providers'[h]) \cap Range(providers'[i]) = {}
  BY <1>2, <1>4, <1>6 DEF PortInv
<1>8. \A h \in Gateways : IsInjective(providers'[h])
  BY <1>2, <1>5 DEF PortInv
<1>9. ASSUME NEW h \in Gateways, stage'[h] \notin {"off", "context", "binding"}
      PROVE  Len(providers'[h]) = NumberOfPorts(env'[h])
  BY <1>1, <1>2, <1>9 DEF PortInv
<1> QED BY <1>7, <1>8, <1>9 DEF PortInv

LEMMA PortStep == StartupTypeOK /\ PortInv /\ [StartupNext]_vars => PortInv'
<1> SUFFICES ASSUME StartupTypeOK, PortInv, [StartupNext]_vars PROVE PortInv'
  OBVIOUS
<1>0. stage \in [Gateways -> Stages] /\ env \in [Gateways -> Environments]
  BY DEF StartupTypeOK
<1>1. ASSUME NEW g \in Gateways, ProcessStep(g)
      PROVE  PortInv'
  <2>1. CASE Launch(g)
    <3>1. PICK e \in Environments :
            /\ Goto(g, "off", IF e.WSS_USE_MTLS THEN "context" ELSE "binding")
            /\ env' = [env EXCEPT ![g] = e] /\ UNCHANGED providers
      BY <2>1 DEF Launch
    <3>2. /\ stage'[g] \in {"context", "binding"}
          /\ \A h \in Gateways \ {g} : stage'[h] = stage[h] /\ env'[h] = env[h]
      BY <1>0, <3>1 DEF Goto
    <3> QED BY <3>1, <3>2 DEF PortInv
  <2>2. CASE Bind(g)
    BY <2>2, PortBind, PortEnd
  <2>3. CASE Bound(g)
    BY <1>0, <2>3 DEF Bound, Goto, PortInv
  <2>4. CASE GetSSLContext(g) \/ Connect(g) \/ StartIo(g)
    BY <1>0, <2>4, PortEnd DEF GetSSLContext, Connect, StartIo, Goto, PortInv
  <2>5. ASSUME NEW object \in Objects, Create(g, object)
        PROVE  PortInv'
    <3>1. \/ End(g)
          \/ /\ stage[g] \notin {"off", "context", "binding"}
             /\ \A h \in Gateways \ {g} : stage'[h] = stage[h]
             /\ UNCHANGED <<env, providers>>
      BY <1>0, <2>5 DEF Create, Objects
    <3> QED BY <3>1, PortEnd DEF PortInv
  <2>6. CASE Spawn(g) \/ AllSpawned(g) \/ Joined(g) \/ IoReturns(g)
    BY <1>0, <2>6 DEF Spawn, AllSpawned, Joined, IoReturns, Goto, PortInv
  <2>7. CASE Exit(g) \/ Kill(g)
    BY <2>7, PortEnd DEF Exit, Kill
  <2> QED BY <1>1, <2>1, <2>2, <2>3, <2>4, <2>5, <2>6, <2>7 DEF ProcessStep, Run
<1>2. CASE UNCHANGED vars
  BY <1>2 DEF vars, processVars, PortInv
<1> QED BY <1>1, <1>2, StartupCases

\* AllPortsOrNone: all its ports or no service, however many processes compete
\* for the ports of the host (AppComponent.h:100-103).
THEOREM PortsAreExclusive == StartupSpec => []AllPortsOrNone
<1>1. PortInv => AllPortsOrNone
  BY DEF PortInv, AllPortsOrNone
<1> QED BY <1>1, StartupTypeInit, StartupTypeStep, OffStep, PortInit, PortStep, PTL DEF StartupSpec
-----------------------------------------------------------------------------
(***************************************************************************)
(* Progress.  The io_context is run from StartIo on and, as its guard is   *)
(* held while anyone serves, can only return when all is joined.           *)
(***************************************************************************)
IoInv == \A g \in Gateways : ioThread[g] # "none" => stage[g] \in Serving \cup {"stopping"}

LEMMA IoInit == StartupInit => IoInv
  BY DEF StartupInit, IoInv

LEMMA IoStep == StartupTypeOK /\ IoInv /\ [StartupNext]_vars => IoInv'
<1> SUFFICES ASSUME StartupTypeOK, IoInv, [StartupNext]_vars PROVE IoInv'
  OBVIOUS
<1>0. stage \in [Gateways -> Stages] /\ ioThread \in [Gateways -> {"none", "running", "returned"}]
  BY DEF StartupTypeOK
<1> USE DEF IoInv, Serving
<1>1. ASSUME NEW g \in Gateways, End(g)
      PROVE  IoInv'
  BY <1>0, <1>1 DEF End
<1>2. ASSUME NEW g \in Gateways, ProcessStep(g), ~End(g)
      PROVE  IoInv'
  <2>1. CASE StartIo(g)
    BY <1>0, <1>2, <2>1 DEF StartIo, Goto
  <2>2. CASE AllSpawned(g) \/ Joined(g) \/ IoReturns(g)
    BY <1>0, <2>2 DEF AllSpawned, Joined, IoReturns, Goto
  <2>3. CASE GetSSLContext(g) \/ Bind(g) \/ Bound(g) \/ Connect(g) \/ Spawn(g)
    BY <1>0, <1>2, <2>3 DEF GetSSLContext, Bind, Bound, Connect, Spawn, Goto
  <2>4. CASE Launch(g)
    <3>1. stage[g] = "off" /\ UNCHANGED ioThread /\ \A h \in Gateways \ {g} : stage'[h] = stage[h]
      BY <1>0, <2>4 DEF Launch, Goto
    <3> QED BY <3>1
  <2>5. ASSUME NEW object \in Objects, Create(g, object)
        PROVE  IoInv'
    <3>1. /\ stage[g] \in Objects /\ UNCHANGED ioThread
          /\ \A h \in Gateways \ {g} : stage'[h] = stage[h]
      BY <1>0, <1>2, <2>5 DEF Create
    <3> QED BY <3>1 DEF Objects
  <2> QED BY <1>2, <2>1, <2>2, <2>3, <2>4, <2>5 DEF ProcessStep, Run, Exit, Kill
<1>3. CASE UNCHANGED vars
  BY <1>3 DEF vars, processVars
<1> QED BY <1>1, <1>2, <1>3, StartupCases

LEMMA CountIsNatural == \A e \in Environments : NumberOfPorts(e) \in Nat
<1>1. \A x \in Int, m \in Nat \ {0} : x % m \in Nat
  OBVIOUS
<1> QED BY <1>1, CountAssumption, SpacesAssumption DEF NumberOfPorts

Nearer(g) == \/ Left[stage'[g]] < Left[stage[g]]
             \/ stage'[g] = stage[g] /\ 0 <= Rest(g)' /\ Rest(g)' < Rest(g)

LEMMA OwnStepAdvances ==
  ASSUME StartupTypeOK, StageInv, IoInv, NEW g \in Gateways, ProcessStep(g),
         stage[g] # "off", stage'[g] # "off"
  PROVE  Nearer(g)
<1>0. /\ stage \in [Gateways -> Stages] /\ providers \in [Gateways -> Seq(Ports)]
      /\ spawned \in [Gateways -> Nat] /\ env[g] \in Environments
      /\ ioThread \in [Gateways -> {"none", "running", "returned"}]
      /\ Len(providers[g]) \in Nat /\ NumberOfPorts(env[g]) \in Nat
  BY CountIsNatural DEF StartupTypeOK
<1>1. ~End(g)
  BY <1>0 DEF End
<1>2. CASE Bind(g)
  <2>1. PICK p : /\ \E wanted : p \in Bindable(wanted)
                 /\ providers' = [providers EXCEPT ![g] = Append(@, p)]
                 /\ UNCHANGED <<stage, env, spawned, ioThread>>
                 /\ stage[g] = "binding" /\ Len(providers[g]) < NumberOfPorts(env[g])
    BY <1>1, <1>2 DEF Bind
  <2>2. Len(providers'[g]) = Len(providers[g]) + 1
    BY <2>1, BindFacts
  <2>3. /\ Rest(g) = NumberOfPorts(env[g]) - Len(providers[g])
        /\ Rest(g)' = NumberOfPorts(env[g]) - (Len(providers[g]) + 1)
    BY <2>1, <2>2 DEF Rest, NumberOfPorts, EnvInt
  <2> QED BY <1>0, <2>1, <2>3 DEF Nearer
<1>3. CASE Spawn(g)
  <2>1. /\ UNCHANGED <<stage, env, providers, ioThread>> /\ spawned'[g] = spawned[g] + 1
        /\ stage[g] = "spawning" /\ spawned[g] < Len(providers[g])
    BY <1>0, <1>3 DEF Spawn
  <2>2. /\ Rest(g) = Len(providers[g]) - spawned[g]
        /\ Rest(g)' = Len(providers[g]) - (spawned[g] + 1)
    BY <2>1 DEF Rest
  <2> QED BY <1>0, <2>1, <2>2 DEF Nearer
<1>4. CASE IoReturns(g)
  <2>1. /\ UNCHANGED stage /\ ioThread[g] = "running" /\ ioThread'[g] = "returned"
        /\ stage[g] = "stopping"
    BY <1>0, <1>4 DEF IoReturns, IoInv, StageInv
  <2>2. Rest(g) = 1 /\ Rest(g)' = 0
    BY <2>1 DEF Rest
  <2> QED BY <2>1, <2>2 DEF Nearer
<1>5. ASSUME NEW object \in Objects, Create(g, object)
      PROVE  Nearer(g)
  <2>1. stage[g] = object /\ stage'[g] = After[object]
    BY <1>0, <1>1, <1>5 DEF Create
  <2> QED BY <2>1 DEF Nearer, Left, After, Objects
<1>6. CASE GetSSLContext(g) \/ Bound(g) \/ Connect(g) \/ StartIo(g) \/ AllSpawned(g) \/ Joined(g)
  BY <1>0, <1>1, <1>6 DEF GetSSLContext, Bound, Connect, StartIo, AllSpawned, Joined, Goto,
                          Nearer, Left
<1>7. ~Launch(g) /\ ~Exit(g) /\ ~Kill(g)
  BY <1>1 DEF Launch, Exit, Kill, Goto
<1> QED BY <1>2, <1>3, <1>4, <1>5, <1>6, <1>7 DEF ProcessStep, Run

\* The processes touch each other's ports and schema, but not each other.
LEMMA OthersUntouched ==
  ASSUME StartupTypeOK, NEW h \in Gateways, ProcessStep(h), NEW g \in Gateways \ {h}
  PROVE  ProcessOf(g)' = ProcessOf(g)
<1> DEFINE Same == /\ stage'[g] = stage[g] /\ providers'[g] = providers[g]
                   /\ session'[g] = session[g] /\ spawned'[g] = spawned[g]
                   /\ servers'[g] = servers[g] /\ workGuard'[g] = workGuard[g]
                   /\ ioThread'[g] = ioThread[g]
<1>1. Same
  <2> USE DEF StartupTypeOK, Goto
  <2>1. CASE End(h)
    BY <2>1 DEF End
  <2>2. CASE Launch(h)
    BY <2>2 DEF Launch
  <2>3. CASE ~End(h) /\ (GetSSLContext(h) \/ Bind(h) \/ Bound(h) \/ Connect(h))
    BY <2>3 DEF GetSSLContext, Bind, Bound, Connect
  <2>4. ASSUME NEW object \in Objects, Create(h, object), ~End(h)
        PROVE  Same
    BY <2>4 DEF Create
  <2>5. CASE ~End(h) /\ (StartIo(h) \/ Spawn(h) \/ AllSpawned(h) \/ Joined(h) \/ IoReturns(h))
    BY <2>5 DEF StartIo, Spawn, AllSpawned, Joined, IoReturns
  <2> QED BY <2>1, <2>2, <2>3, <2>4, <2>5 DEF ProcessStep, Run, Exit, Kill
<1> QED BY <1>1 DEF ProcessOf

\* StartAdvances: a started process goes forward or ends, for any number of
\* processes and ports; with the fairness of Run it settles (App.cpp:23-115).
THEOREM StartsAdvance == StartupSpec => StartAdvances
<1> DEFINE Inv == StartupTypeOK /\ OffInv /\ StageInv /\ IoInv
<1>1. StartupInit => Inv
  BY StartupTypeInit, StageInit, IoInit
<1>2. Inv /\ [StartupNext]_vars => Inv'
  BY StartupTypeStep, OffStep, StageStep, IoStep
<1>3. Inv /\ [StartupNext]_vars =>
        [\A g \in Gateways :
            stage[g] # "off" /\ stage'[g] # "off" /\ ProcessOf(g)' # ProcessOf(g) =>
                \/ Left[stage'[g]] < Left[stage[g]]
                \/ stage'[g] = stage[g] /\ 0 <= Rest(g)' /\ Rest(g)' < Rest(g)]_vars
  BY StartupCases, OwnStepAdvances, OthersUntouched DEF Nearer
<1> HIDE DEF Inv
<1> QED BY <1>1, <1>2, <1>3, PTL DEF StartupSpec, StartAdvances
=============================================================================
