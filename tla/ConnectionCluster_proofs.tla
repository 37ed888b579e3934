---------------------- MODULE ConnectionCluster_proofs ----------------------
(***************************************************************************)
(* The connections of one gateway, with their threads, the spin lock and   *)
(* the two-step updates of the map, implement GatewayCluster for every set *)
(* of threads, vehicles and sockets.  A socket's call is where the thread  *)
(* is that makes it, and OwnInv says that there is one thread at most.     *)
(***************************************************************************)
EXTENDS ConnectionLifecycle_proofs

PCs == {"idle", "lock", "read", "write", "unlock", "query", "return"}

LEMMA PhaseOfFacts ==
  /\ PhaseOf("idle") = "idle" /\ PhaseOf("lock") = "called" /\ PhaseOf("read") = "called"
  /\ PhaseOf("write") = "called" /\ PhaseOf("unlock") = "stored"
  /\ PhaseOf("query") = "stored" /\ PhaseOf("return") = "recorded"
  BY DEF PhaseOf

\* The call of a socket is as far as the one thread that makes it.
LEMMA CallPhaseFacts ==
  ASSUME OwnInv, pc \in [Threads -> PCs], NEW s \in Sockets
  PROVE  /\ \A t \in Threads :
              pc[t] # "idle" /\ call[t].sock = s => CallPhase(s) = PhaseOf(pc[t])
         /\ (\A t \in Threads : pc[t] # "idle" => call[t].sock # s) => CallPhase(s) = "idle"
<1>1. \A t \in Threads : /\ PhaseOf(pc[t]) \in {"idle", "called", "stored", "recorded"}
                         /\ PhaseOf(pc[t]) = "idle" <=> pc[t] = "idle"
  BY PhaseOfFacts DEF PCs
<1>2. ASSUME NEW t \in Threads, pc[t] # "idle", call[t].sock = s
      PROVE  CallPhase(s) = PhaseOf(pc[t])
  <2>1. \A ph \in {"called", "stored", "recorded"} : CallIs(s, ph) <=> ph = PhaseOf(pc[t])
    BY <1>1, <1>2 DEF CallIs, OwnInv
  <2> QED BY <1>1, <1>2, <2>1 DEF CallPhase
<1>3. ASSUME \A t \in Threads : pc[t] # "idle" => call[t].sock # s
      PROVE  CallPhase(s) = "idle"
  <2>1. \A ph \in {"called", "stored", "recorded"} : ~CallIs(s, ph)
    BY <1>1, <1>3 DEF CallIs
  <2> QED BY <2>1 DEF CallPhase
<1> QED BY <1>2, <1>3

\* The same of the next state
LEMMA NextCallPhase ==
  ASSUME OwnInv', pc' \in [Threads -> PCs], NEW s \in Sockets
  PROVE  /\ \A t \in Threads :
              pc'[t] # "idle" /\ call'[t].sock = s => CallPhase(s)' = PhaseOf(pc'[t])
         /\ (\A t \in Threads : pc'[t] # "idle" => call'[t].sock # s) => CallPhase(s)' = "idle"
<1>1. \A t \in Threads : /\ PhaseOf(pc'[t]) \in {"idle", "called", "stored", "recorded"}
                         /\ PhaseOf(pc'[t]) = "idle" <=> pc'[t] = "idle"
  BY PhaseOfFacts DEF PCs
<1>2. ASSUME NEW t \in Threads, pc'[t] # "idle", call'[t].sock = s
      PROVE  CallPhase(s)' = PhaseOf(pc'[t])
  <2>1. \A ph \in {"called", "stored", "recorded"} : CallIs(s, ph)' <=> ph = PhaseOf(pc'[t])
    BY <1>1, <1>2 DEF CallIs, OwnInv
  <2> QED BY <1>1, <1>2, <2>1 DEF CallPhase
<1>3. ASSUME \A t \in Threads : pc'[t] # "idle" => call'[t].sock # s
      PROVE  CallPhase(s)' = "idle"
  <2>1. \A ph \in {"called", "stored", "recorded"} : ~CallIs(s, ph)'
    BY <1>1, <1>3 DEF CallIs
  <2> QED BY <2>1 DEF CallPhase
<1> QED BY <1>2, <1>3

\* A step of a thread that works for s moves no other socket's call.
LEMMA OthersKeepPhase ==
  ASSUME NEW s \in Sockets, NEW t \in Threads,
         pc[t] = "idle" \/ call[t].sock = s,
         pc'[t] = "idle" \/ call'[t].sock = s,
         \A u \in Threads \ {t} : pc'[u] = pc[u] /\ call'[u] = call[u]
  PROVE  \A r \in Sockets \ {s} : CallPhase(r)' = CallPhase(r)
<1> SUFFICES ASSUME NEW r \in Sockets \ {s}
             PROVE  CallPhase(r)' = CallPhase(r)
  OBVIOUS
<1>1. \A ph \in {"called", "stored", "recorded"} : CallIs(r, ph)' <=> CallIs(r, ph)
  BY PhaseOfFacts DEF CallIs
<1> QED BY <1>1 DEF CallPhase

\* The socket a thread works for, and all that its step changes of the calls
LEMMA PhaseMoves ==
  ASSUME LifecycleInv, LifecycleInv', NEW s \in Sockets, NEW t \in Threads,
         pc[t] = "idle" => \A u \in Threads : pc[u] # "idle" => call[u].sock # s,
         pc'[t] = "idle" => \A u \in Threads : pc'[u] # "idle" => call'[u].sock # s,
         pc[t] = "idle" \/ call[t].sock = s,
         pc'[t] = "idle" \/ call'[t].sock = s,
         \A u \in Threads \ {t} : pc'[u] = pc[u] /\ call'[u] = call[u]
  PROVE  /\ CallPhase(s) = PhaseOf(pc[t]) /\ CallPhase(s)' = PhaseOf(pc'[t])
         /\ \A r \in Sockets \ {s} : CallPhase(r)' = CallPhase(r)
<1>1. OwnInv /\ OwnInv' /\ pc \in [Threads -> PCs] /\ pc' \in [Threads -> PCs]
  BY DEF LifecycleInv, LifecycleTypeOK, RegistryTypeOK, PCs
<1>2. CallPhase(s) = PhaseOf(pc[t])
  BY <1>1, CallPhaseFacts, PhaseOfFacts
<1>3. CallPhase(s)' = PhaseOf(pc'[t])
  BY <1>1, NextCallPhase, PhaseOfFacts
<1> QED BY <1>2, <1>3, OthersKeepPhase
-----------------------------------------------------------------------------
LEMMA ClusterInitially == LifecycleInit => Cluster!ClusterInit
<1> SUFFICES ASSUME LifecycleInit PROVE Cluster!ClusterInit
  OBVIOUS
<1>1. \A s \in Sockets : CallPhase(s) = "idle"
  <2>1. \A s \in Sockets, ph \in {"called", "stored", "recorded"} : ~CallIs(s, ph)
    BY PhaseOfFacts DEF CallIs, LifecycleInit, RegistryInit
  <2> QED BY <2>1 DEF CallPhase
<1> QED
  BY <1>1 DEF LifecycleInit, RegistryInit, EmptyMap, RowValues, Cluster!ClusterInit,
              Cluster!RowValues, Cluster!NamesOf

\* A callback that enters the registry is the cluster's callback.
LEMMA ClusterStarts ==
  ASSUME LifecycleInv, LifecycleInv', NEW s \in Sockets, NEW t \in Threads, Starts(s, t)
  PROVE  Cluster!Step(s)
<1>0. LifecycleTypeOK /\ OwnInv
  BY DEF LifecycleInv
<1>1. /\ pc[t] = "idle" /\ pc'[t] = "lock" /\ call'[t].sock = s
      /\ \A u \in Threads \ {t} : pc'[u] = pc[u] /\ call'[u] = call[u]
      /\ state[s] \notin Calling /\ UNCHANGED <<clients, vehicles, failed, idOf>>
  BY <1>0, StartFacts DEF LifecycleTypeOK, RegistryTypeOK
<1>2. \A u \in Threads : pc[u] # "idle" => call[u].sock # s
  BY <1>0, <1>1 DEF OwnInv
<1>3. /\ CallPhase(s) = "idle" /\ CallPhase(s)' = "called"
      /\ \A r \in Sockets \ {s} : CallPhase(r)' = CallPhase(r)
  BY <1>1, <1>2, PhaseMoves, PhaseOfFacts
<1> USE <1>1, <1>3 DEF Become, Cluster!Calls, Cluster!Become, Cluster!Advance, Cluster!Step
<1>4. CASE OnAfterCreate(s, t)
  <2>1. {u \in SocketsOf(idOf[s]) : state[u] \in Alive}
          = {u \in Sockets : state[u] \in Cluster!Alive /\ idOf[u] = idOf[s]}
    BY DEF SocketsOf, Alive, Cluster!Alive
  <2> QED BY <1>4, <2>1 DEF OnAfterCreate, Cluster!OnAfterCreate
<1>5. CASE OnClose(s, t)
  BY <1>5 DEF OnClose, Cluster!OnClose
<1>6. CASE OnBeforeDestroy(s, t)
  BY <1>6 DEF OnBeforeDestroy, Cluster!OnBeforeDestroy
<1> QED BY <1>4, <1>5, <1>6 DEF Starts

\* A callback that comes back from the registry is the cluster's Return.
LEMMA ClusterReturns ==
  ASSUME LifecycleInv, LifecycleInv', NEW s \in Sockets, NEW t \in Threads, Returns(s, t)
  PROVE  Cluster!Step(s)
<1>0. LifecycleTypeOK /\ OwnInv
  BY DEF LifecycleInv
<1>1. /\ pc[t] = "return" /\ pc'[t] = "idle" /\ call[t].sock = s
      /\ \A u \in Threads \ {t} : pc'[u] = pc[u] /\ call'[u] = call[u]
      /\ UNCHANGED <<clients, vehicles, failed, idOf, contested>>
  BY <1>0, ReturnFacts DEF LifecycleTypeOK, RegistryTypeOK
<1>2. \A u \in Threads : pc'[u] # "idle" => call'[u].sock # s
  BY <1>0, <1>1 DEF OwnInv
<1>3. /\ CallPhase(s) = "recorded" /\ CallPhase(s)' = "idle"
      /\ \A r \in Sockets \ {s} : CallPhase(r)' = CallPhase(r)
  BY <1>1, <1>2, PhaseMoves, PhaseOfFacts
<1>4. state' = [state EXCEPT ![s] = Cluster!AfterCall(state[s])]
  <2>1. CASE SetListener(s, t)
    BY <2>1 DEF SetListener, Become, Cluster!AfterCall
  <2>2. CASE OnCloseReturns(s, t)
    BY <2>2 DEF OnCloseReturns, Become, Cluster!AfterCall
  <2>3. CASE Destroyed(s, t)
    BY <2>3 DEF Destroyed, Become, Cluster!AfterCall
  <2> QED BY <2>1, <2>2, <2>3 DEF Returns
<1> QED BY <1>1, <1>3, <1>4 DEF Cluster!Step, Cluster!Return, Cluster!Advance

\* Inside the registry only the write-back and the query are visible.
LEMMA ClusterInside ==
  ASSUME LifecycleInv, LifecycleInv', NEW t \in Threads, InRegistry(t)
  PROVE  (\E s \in Sockets : Cluster!Step(s)) \/ UNCHANGED Cluster!clusterVars
<1>0. LifecycleTypeOK /\ OwnInv
  BY DEF LifecycleInv
<1>1. /\ pc[t] # "idle" /\ pc'[t] # "idle" /\ UNCHANGED <<call, state, idOf, contested>>
      /\ \A u \in Threads \ {t} : pc'[u] = pc[u]
  BY <1>0, InsideFacts
<1>2. PICK s \in Sockets : s = call[t].sock
  BY <1>0, <1>1 DEF LifecycleTypeOK, RegistryTypeOK, Requests
<1>3. /\ CallPhase(s) = PhaseOf(pc[t]) /\ CallPhase(s)' = PhaseOf(pc'[t])
      /\ \A r \in Sockets \ {s} : CallPhase(r)' = CallPhase(r)
  BY <1>1, <1>2, PhaseMoves
<1>4. /\ call[t].id = idOf[s]
      /\ call[t].op = "addClient" <=> state[s] = "creating"
      /\ call[t].op \in {"addClient", "setClientNotAvailable"} /\ idOf[s] \in ClientIds
  BY <1>0, <1>1, <1>2 DEF OwnInv, LifecycleTypeOK, RegistryTypeOK, Requests, Operations
<1>5. ASSUME TestAndSet(t) \/ BeginUpdate(t) \/ Clear(t)
      PROVE  UNCHANGED Cluster!clusterVars
  <2>1. PhaseOf(pc'[t]) = PhaseOf(pc[t]) /\ UNCHANGED <<clients, vehicles, failed>>
    BY <1>0, <1>5, PhaseOfFacts
       DEF TestAndSet, BeginUpdate, Clear, Goto, LifecycleTypeOK, RegistryTypeOK
  <2> QED BY <1>1, <1>3, <2>1 DEF Cluster!clusterVars
<1>6. ASSUME EndUpdate(t)
      PROVE  Cluster!Store(s)
  <2>1. /\ PhaseOf(pc[t]) = "called" /\ PhaseOf(pc'[t]) = "stored" /\ UNCHANGED <<vehicles, failed>>
        /\ clients'[idOf[s]] = IF state[s] = "creating" THEN s ELSE NoSocket
        /\ \A c \in ClientIds \ {idOf[s]} : clients'[c] = clients[c]
    <3>1. /\ pc[t] = "write" /\ pc'[t] = "unlock" /\ UNCHANGED <<vehicles, failed>>
          /\ clients'[call[t].id] = IF call[t].op = "addClient" THEN call[t].sock ELSE NoSocket
          /\ \A c \in ClientIds \ {call[t].id} : clients'[c] = clients[c]
      BY <1>6, WriteBack
    <3> QED BY <1>2, <1>4, <3>1, PhaseOfFacts
  <2>2. clients \in Maps /\ clients' \in Maps
    BY DEF LifecycleInv, LifecycleTypeOK, RegistryTypeOK
  <2>3. clients' = [clients EXCEPT ![idOf[s]] = IF state[s] = "creating" THEN s ELSE NoSocket]
    BY <1>4, <2>1, <2>2 DEF Maps
  <2> QED BY <1>1, <1>3, <2>1, <2>3 DEF Cluster!Store, Cluster!Advance
<1>7. ASSUME ExecuteQuery(t)
      PROVE  Cluster!Record(s)
  <2>1. RowAfter(call[t]) = IF state[s] = "creating" THEN AppServerName ELSE NA
    <3>1. CASE call[t].op = "addClient"
      BY <1>4, <3>1 DEF RowAfter
    <3>2. CASE call[t].op = "setClientNotAvailable"
      BY <1>4, <3>2 DEF RowAfter
    <3> QED BY <1>4, <3>1, <3>2
  <2>2. PICK success, applied \in BOOLEAN :
          /\ success => applied
          /\ Goto(t, "query", "return")
          /\ vehicles' = IF applied
                           THEN [vehicles EXCEPT ![call[t].id] = RowAfter(call[t])]
                           ELSE vehicles
          /\ failed' = IF success THEN failed ELSE failed \cup {call[t].id}
          /\ UNCHANGED clients
    BY <1>7 DEF ExecuteQuery
  <2>3. PhaseOf(pc[t]) = "stored" /\ PhaseOf(pc'[t]) = "recorded"
    BY <1>0, <2>2, PhaseOfFacts DEF Goto, LifecycleTypeOK, RegistryTypeOK
  <2>4. /\ vehicles' = IF applied
                         THEN [vehicles EXCEPT ![idOf[s]] =
                                 IF state[s] = "creating" THEN AppServerName ELSE NA]
                         ELSE vehicles
        /\ failed' = IF success THEN failed ELSE failed \cup {idOf[s]}
    BY <1>4, <2>1, <2>2
  <2> QED BY <1>1, <1>3, <2>2, <2>3, <2>4 DEF Cluster!Record, Cluster!Advance, Cluster!RowAfter
<1> QED BY <1>5, <1>6, <1>7 DEF InRegistry, Inside, Cluster!Step

LEMMA ClusterStep ==
  LifecycleInv /\ LifecycleInv' /\ [LifecycleNext]_lifecycleVars
    => [Cluster!ClusterNext]_Cluster!clusterVars
<1> SUFFICES ASSUME LifecycleInv, LifecycleInv', [LifecycleNext]_lifecycleVars
             PROVE  Cluster!ClusterNext \/ UNCHANGED Cluster!clusterVars
  OBVIOUS
<1>0. UNCHANGED registryVars => \A s \in Sockets : CallPhase(s)' = CallPhase(s)
  BY DEF registryVars, CallPhase, CallIs
<1>1. ASSUME NEW s \in Sockets, NEW t \in Threads, Starts(s, t) \/ Returns(s, t)
      PROVE  Cluster!ClusterNext
  BY <1>1, ClusterStarts, ClusterReturns DEF Cluster!ClusterNext
<1>2. ASSUME NEW s \in Sockets, NEW how, PeerLeaves(s, how)
      PROVE  UNCHANGED Cluster!clusterVars
  BY <1>0, <1>2 DEF PeerLeaves, registryVars, Cluster!clusterVars
<1>3. ASSUME NEW s \in Sockets, ReadFails(s)
      PROVE  Cluster!ClusterNext
  <2>1. Cluster!ReadFails(s)
    BY <1>0, <1>3 DEF ReadFails, registryVars, Become, Cluster!ReadFails, Cluster!Become
  <2> QED BY <2>1 DEF Cluster!ClusterNext, Cluster!Step
<1>4. ASSUME NEW t \in Threads, InRegistry(t)
      PROVE  Cluster!ClusterNext \/ UNCHANGED Cluster!clusterVars
  BY <1>4, ClusterInside DEF Cluster!ClusterNext
<1>5. CASE UNCHANGED lifecycleVars
  BY <1>0, <1>5 DEF lifecycleVars, registryVars, socketVars, Cluster!clusterVars
<1> QED BY <1>1, <1>2, <1>3, <1>4, <1>5, LifecycleCases

\* ImplementsCluster: what is proved of any gateways with atomic calls holds of
\* the callbacks on their threads (WebSocketListener.cpp:35-211 on
\* WebSocketComponents.h:19-40).
THEOREM LifecycleImplementsCluster == LifecycleSpec => ImplementsCluster
  BY LifecycleInvInit, LifecycleInvStep, ClusterInitially, ClusterStep, PTL
     DEF LifecycleSpec, ImplementsCluster, Cluster!ClusterSpec
=============================================================================
