--------------------- MODULE ConnectionLifecycle_proofs ---------------------
(***************************************************************************)
(* Proofs about the connections for every set of threads, vehicles and     *)
(* sockets: they use the registry as WebSocketComponent allows, no entry   *)
(* outlives its socket, a sole connection is its client's entry, and the   *)
(* last one leaves the row at NA, the map empty and the counter at zero.   *)
(***************************************************************************)
EXTENDS ConnectionLifecycle, WebSocketComponent_proofs, FiniteSets, FiniteSetTheorems

\* A callback's call on the registry is one of the calls the registry allows.
LEMMA RegistryUse ==
  ASSUME LifecycleTypeOK, [LifecycleNext]_lifecycleVars
  PROVE  [RegistryNext]_registryVars
<1> USE DEF LifecycleTypeOK
<1>1. \A s \in Sockets : /\ RequestOf(s, "addClient") \in Requests
                         /\ RequestOf(s, "setClientNotAvailable") \in Requests
  BY DEF RequestOf, Requests, Operations
<1>2. ASSUME NEW s \in Sockets, NEW t \in Threads, Callback(s, t)
      PROVE  RegistryNext
  <2>1. CASE OnAfterCreate(s, t)
    BY <1>1, <2>1 DEF OnAfterCreate, RegistryNext
  <2>2. CASE SetListener(s, t)
    BY <2>2 DEF SetListener, RegistryNext
  <2>3. CASE OnClose(s, t)
    BY <1>1, <2>3 DEF OnClose, RegistryNext
  <2>4. CASE OnCloseReturns(s, t)
    BY <2>4 DEF OnCloseReturns, RegistryNext
  <2>5. CASE OnBeforeDestroy(s, t)
    BY <1>1, <2>5 DEF OnBeforeDestroy, RegistryNext
  <2>6. CASE Destroyed(s, t)
    BY <2>6 DEF Destroyed, RegistryNext
  <2> QED BY <1>2, <2>1, <2>2, <2>3, <2>4, <2>5, <2>6 DEF Callback
<1>3. ASSUME NEW s \in Sockets, NEW how, PeerLeaves(s, how)
      PROVE  UNCHANGED registryVars
  BY <1>3 DEF PeerLeaves
<1>4. ASSUME NEW s \in Sockets, ReadFails(s)
      PROVE  UNCHANGED registryVars
  BY <1>4 DEF ReadFails
<1>5. ASSUME NEW t \in Threads, InRegistry(t)
      PROVE  RegistryNext
  BY <1>5 DEF InRegistry, RegistryNext
<1>6. CASE UNCHANGED lifecycleVars
  BY <1>6 DEF lifecycleVars
<1> QED
  BY <1>2, <1>3, <1>4, <1>5, <1>6 DEF LifecycleNext

LEMMA LifecycleTypeInit == LifecycleInit => LifecycleTypeOK
  BY RegistryTypeInit DEF LifecycleInit, LifecycleTypeOK, States

LEMMA LifecycleTypeStep ==
  LifecycleTypeOK /\ [LifecycleNext]_lifecycleVars => LifecycleTypeOK'
<1> SUFFICES ASSUME LifecycleTypeOK, [LifecycleNext]_lifecycleVars
             PROVE  LifecycleTypeOK'
  OBVIOUS
<1>1. RegistryTypeOK'
  BY RegistryUse, RegistryTypeStep DEF LifecycleTypeOK
<1> USE <1>1 DEF LifecycleTypeOK, Become, States
<1>2. ASSUME NEW s \in Sockets, NEW t \in Threads, Callback(s, t)
      PROVE  LifecycleTypeOK'
  <2>1. CASE OnAfterCreate(s, t)
    <3>1. contested' \subseteq Sockets
      BY <2>1 DEF OnAfterCreate, SocketsOf
    <3> QED BY <2>1, <3>1 DEF OnAfterCreate
  <2>2. CASE SetListener(s, t)
    BY <2>2 DEF SetListener
  <2>3. CASE OnClose(s, t)
    BY <2>3 DEF OnClose
  <2>4. CASE OnCloseReturns(s, t)
    BY <2>4 DEF OnCloseReturns
  <2>5. CASE OnBeforeDestroy(s, t)
    BY <2>5 DEF OnBeforeDestroy
  <2>6. CASE Destroyed(s, t)
    BY <2>6 DEF Destroyed
  <2> QED BY <1>2, <2>1, <2>2, <2>3, <2>4, <2>5, <2>6 DEF Callback
<1>3. ASSUME NEW s \in Sockets, NEW how \in {"closed", "reset", "vanished"}, PeerLeaves(s, how)
      PROVE  LifecycleTypeOK'
  BY <1>3 DEF PeerLeaves
<1>4. ASSUME NEW s \in Sockets, ReadFails(s)
      PROVE  LifecycleTypeOK'
  BY <1>4 DEF ReadFails
<1>5. ASSUME NEW t \in Threads, InRegistry(t)
      PROVE  LifecycleTypeOK'
  BY <1>5 DEF InRegistry, socketVars
<1>6. CASE UNCHANGED lifecycleVars
  BY <1>6 DEF lifecycleVars, socketVars
<1> QED
  BY <1>2, <1>3, <1>4, <1>5, <1>6 DEF LifecycleNext

\* LifecycleTypeOK holds of the connections (WebSocketListener.cpp:35-211).
THEOREM LifecycleTypeCorrect == LifecycleSpec => []LifecycleTypeOK
  BY LifecycleTypeInit, LifecycleTypeStep, PTL DEF LifecycleSpec

\* The connections implement the registry's specification: whatever is proved
\* of the registry under arbitrary calls holds under the calls the callbacks
\* make (WebSocketListener.cpp:44 and 195).
THEOREM LifecycleImplementsRegistry == LifecycleSpec => RegistrySpec
<1>1. LifecycleInit => RegistryInit
  BY DEF LifecycleInit
<1>2. LifecycleTypeOK /\ [LifecycleNext]_lifecycleVars => [RegistryNext]_registryVars
  BY RegistryUse
<1> QED
  BY <1>1, <1>2, LifecycleTypeInit, LifecycleTypeStep, PTL DEF LifecycleSpec, RegistrySpec
-----------------------------------------------------------------------------
(***************************************************************************)
(* Who is in the registry for whom.  A socket is in one of three states    *)
(* exactly while one of its callbacks is inside the registry, and its      *)
(* state tells which call that is.                                         *)
(***************************************************************************)
Calling == {"creating", "closing", "destroying"}

OwnInv ==
    /\ \A t \in Threads : pc[t] # "idle" =>
         /\ state[call[t].sock] \in Calling
         /\ call[t].id = idOf[call[t].sock]
         /\ call[t].op = "addClient" <=> state[call[t].sock] = "creating"
         /\ call[t].op # "removeClient"
    /\ \A t, u \in Threads :
         pc[t] # "idle" /\ pc[u] # "idle" /\ call[t].sock = call[u].sock => t = u

Starts(s, t)  == OnAfterCreate(s, t) \/ OnClose(s, t) \/ OnBeforeDestroy(s, t)
Returns(s, t) == SetListener(s, t) \/ OnCloseReturns(s, t) \/ Destroyed(s, t)

\* What the callbacks that enter the registry have in common
LEMMA StartFacts ==
  ASSUME LifecycleTypeOK, NEW s \in Sockets, NEW t \in Threads, Starts(s, t)
  PROVE  /\ pc[t] = "idle" /\ pc' = [pc EXCEPT ![t] = "lock"]
         /\ \A u \in Threads \ {t} : call'[u] = call[u]
         /\ call'[t].sock = s /\ call'[t].id = idOf[s]
         /\ call'[t].op = "addClient" <=> state'[s] = "creating"
         /\ call'[t].op # "removeClient"
         /\ \A r \in Sockets \ {s} : state'[r] = state[r]
         /\ state[s] \notin Calling /\ state'[s] \in Calling
         /\ UNCHANGED <<clients, scratch, vehicles, failed, idOf>>
<1> USE DEF LifecycleTypeOK, RegistryTypeOK, Become, Enter, Goto, RequestOf, Calling
<1>1. CASE OnAfterCreate(s, t)
  BY <1>1 DEF OnAfterCreate
<1>2. CASE OnClose(s, t)
  BY <1>2 DEF OnClose
<1>3. CASE OnBeforeDestroy(s, t)
  BY <1>3 DEF OnBeforeDestroy
<1> QED BY <1>1, <1>2, <1>3 DEF Starts

\* What the callbacks that come back from it have in common
LEMMA ReturnFacts ==
  ASSUME LifecycleTypeOK, NEW s \in Sockets, NEW t \in Threads, Returns(s, t)
  PROVE  /\ pc[t] = "return" /\ pc' = [pc EXCEPT ![t] = "idle"]
         /\ call[t].sock = s
         /\ \A u \in Threads \ {t} : call'[u] = call[u]
         /\ \A r \in Sockets \ {s} : state'[r] = state[r]
         /\ state[s] \in Calling /\ state'[s] \in {"listening", "ended", "destroyed"}
         /\ state'[s] = "destroyed" <=> state[s] = "destroying"
         /\ state'[s] = "listening" <=> state[s] = "creating"
         /\ UNCHANGED <<clients, scratch, vehicles, failed, idOf, contested>>
<1> USE DEF LifecycleTypeOK, RegistryTypeOK, Become, Leave, Goto, ReturnsFrom, Calling
<1>1. CASE SetListener(s, t)
  BY <1>1 DEF SetListener
<1>2. CASE OnCloseReturns(s, t)
  BY <1>2 DEF OnCloseReturns
<1>3. CASE Destroyed(s, t)
  BY <1>3 DEF Destroyed
<1> QED BY <1>1, <1>2, <1>3 DEF Returns

\* A step inside the registry moves the program counter of its thread only.
LEMMA InsideFacts ==
  ASSUME LifecycleTypeOK, NEW t \in Threads, InRegistry(t)
  PROVE  /\ pc[t] # "idle" /\ pc'[t] # "idle"
         /\ \A u \in Threads \ {t} : pc'[u] = pc[u]
         /\ UNCHANGED <<call, state, idOf, contested>>
<1> USE DEF LifecycleTypeOK, RegistryTypeOK, Goto, InRegistry, socketVars
<1>1. CASE TestAndSet(t)
  BY <1>1 DEF TestAndSet
<1>2. CASE BeginUpdate(t)
  BY <1>2 DEF BeginUpdate
<1>3. CASE EndUpdate(t)
  BY <1>3 DEF EndUpdate
<1>4. CASE Clear(t)
  BY <1>4 DEF Clear
<1>5. CASE ExecuteQuery(t)
  BY <1>5 DEF ExecuteQuery
<1> QED BY <1>1, <1>2, <1>3, <1>4, <1>5 DEF Inside

\* The steps of the connections, sorted by what they do to the registry
LEMMA LifecycleCases ==
  ASSUME [LifecycleNext]_lifecycleVars
  PROVE  \/ \E s \in Sockets, t \in Threads : Starts(s, t) \/ Returns(s, t)
         \/ \E s \in Sockets : \/ \E how \in {"closed", "reset", "vanished"} : PeerLeaves(s, how)
                               \/ ReadFails(s)
         \/ \E t \in Threads : InRegistry(t)
         \/ UNCHANGED lifecycleVars
  BY DEF LifecycleNext, Callback, Starts, Returns

LEMMA OwnInit == LifecycleInit => OwnInv
  BY DEF LifecycleInit, RegistryInit, OwnInv

LEMMA OwnStep ==
  LifecycleTypeOK /\ OwnInv /\ [LifecycleNext]_lifecycleVars => OwnInv'
<1> SUFFICES ASSUME LifecycleTypeOK, OwnInv, [LifecycleNext]_lifecycleVars
             PROVE  OwnInv'
  OBVIOUS
<1>0. \A t \in Threads : pc[t] # "idle" => call[t].sock \in Sockets
  BY DEF LifecycleTypeOK, RegistryTypeOK, Requests
<1>1. ASSUME NEW s \in Sockets, NEW t \in Threads, Starts(s, t)
      PROVE  OwnInv'
  <2>1. \A u \in Threads \ {t} :
          /\ pc'[u] = pc[u] /\ call'[u] = call[u]
          /\ pc[u] # "idle" => call[u].sock # s /\ state'[call[u].sock] = state[call[u].sock]
    BY <1>0, <1>1, StartFacts DEF OwnInv, LifecycleTypeOK, RegistryTypeOK
  <2> QED BY <1>1, <2>1, StartFacts DEF OwnInv
<1>2. ASSUME NEW s \in Sockets, NEW t \in Threads, Returns(s, t)
      PROVE  OwnInv'
  <2>1. \A u \in Threads \ {t} :
          /\ pc'[u] = pc[u] /\ call'[u] = call[u]
          /\ pc[u] # "idle" => call[u].sock # s /\ state'[call[u].sock] = state[call[u].sock]
    BY <1>0, <1>2, ReturnFacts DEF OwnInv, LifecycleTypeOK, RegistryTypeOK
  <2>2. pc'[t] = "idle"
    BY <1>2, ReturnFacts DEF LifecycleTypeOK, RegistryTypeOK
  <2> QED BY <1>2, <2>1, <2>2, ReturnFacts DEF OwnInv
<1>3. ASSUME NEW s \in Sockets, NEW how, PeerLeaves(s, how)
      PROVE  OwnInv'
  BY <1>3 DEF PeerLeaves, OwnInv, registryVars
<1>4. ASSUME NEW s \in Sockets, ReadFails(s)
      PROVE  OwnInv'
  <2>1. UNCHANGED registryVars /\ \A r \in Sockets : state[r] \in Calling => state'[r] = state[r]
    BY <1>4 DEF ReadFails, Become, Calling, LifecycleTypeOK
  <2> QED BY <1>0, <1>4, <2>1 DEF OwnInv, registryVars, ReadFails, Calling
<1>5. ASSUME NEW t \in Threads, InRegistry(t)
      PROVE  OwnInv'
  BY <1>5, InsideFacts DEF OwnInv
<1>6. CASE UNCHANGED lifecycleVars
  BY <1>6 DEF lifecycleVars, registryVars, socketVars, OwnInv
<1> QED
  BY <1>1, <1>2, <1>3, <1>4, <1>5, <1>6, LifecycleCases

LifecycleInv == LifecycleTypeOK /\ RegistryInv /\ OwnInv

LEMMA LifecycleInvInit == LifecycleInit => LifecycleInv
  BY LifecycleTypeInit, RegistryInvInit, OwnInit DEF LifecycleInv, LifecycleInit

LEMMA LifecycleInvStep == LifecycleInv /\ [LifecycleNext]_lifecycleVars => LifecycleInv'
  BY LifecycleTypeStep, RegistryUse, RegistryInvStep, OwnStep DEF LifecycleInv
-----------------------------------------------------------------------------
(***************************************************************************)
(* No entry outlives its socket.  NoStaleEntry is inductive given who is   *)
(* in the registry: only the call of a socket's own callback makes the     *)
(* socket Stored, and if that call is no addClient it erases the entry.    *)
(***************************************************************************)
LEMMA StaleInit == LifecycleInit => NoStaleEntry
  BY DEF LifecycleInit, RegistryInit, EmptyMap, NoStaleEntry

\* The write-back of t changes its own client's entry and nothing else.
LEMMA WriteBack ==
  ASSUME LifecycleInv, NEW t \in Threads, EndUpdate(t)
  PROVE  /\ call[t] \in Requests /\ pc[t] = "write" /\ pc'[t] = "unlock"
         /\ clients'[call[t].id] = IF call[t].op = "addClient" THEN call[t].sock ELSE NoSocket
         /\ \A c \in ClientIds \ {call[t].id} : clients'[c] = clients[c]
         /\ UNCHANGED <<vehicles, failed>>
<1>1. pc[t] = "write" /\ pc'[t] = "unlock" /\ clients' = MapAfter(call[t]) /\ call[t] \in Requests
      /\ UNCHANGED <<vehicles, failed>>
  BY DEF EndUpdate, Goto, LifecycleInv, RegistryInv, WriteInv, RegistryTypeOK
<1> QED BY <1>1 DEF MapAfter, Requests, LifecycleInv, RegistryInv, RegistryTypeOK, Maps

LEMMA StaleStep ==
  LifecycleInv /\ NoStaleEntry /\ [LifecycleNext]_lifecycleVars => NoStaleEntry'
<1> DEFINE Fresh(s, c) == /\ idOf[s] = c
                          /\ \/ state[s] \in {"creating", "listening", "ended"}
                             \/ state[s] \in {"closing", "destroying"} /\ ~Stored(s)
<1> SUFFICES ASSUME LifecycleInv, NoStaleEntry, [LifecycleNext]_lifecycleVars,
                    NEW c \in ClientIds, NEW r \in Sockets, clients'[c] = r
             PROVE  Fresh(r, c)'
  <2>1. ASSUME LifecycleInv, [LifecycleNext]_lifecycleVars
        PROVE  clients' \in Maps
    BY <2>1, LifecycleInvStep DEF LifecycleInv, RegistryInv, RegistryTypeOK
  <2> QED BY <2>1 DEF NoStaleEntry, Maps
<1>0. /\ LifecycleTypeOK /\ OwnInv /\ RegistryTypeOK
      /\ pc \in [Threads -> {"idle", "lock", "read", "write", "unlock", "query", "return"}]
      /\ state \in [Sockets -> States] /\ idOf \in [Sockets -> ClientIds]
      /\ clients \in Maps
  BY DEF LifecycleInv, LifecycleTypeOK, RegistryTypeOK
<1>a. clients'[c] = clients[c] => Fresh(r, c)
  BY <1>0, ConstantsAssumption DEF NoStaleEntry
<1>1. ASSUME NEW s \in Sockets, NEW t \in Threads, Starts(s, t)
      PROVE  Fresh(r, c)'
  <2>1. Fresh(r, c) /\ idOf' = idOf
    BY <1>0, <1>1, <1>a, StartFacts
  <2>2. CASE r = s
    \* no thread was inside for s, and t has not stored anything yet
    <3>1. \A u \in Threads : pc[u] # "idle" => call[u].sock # s
      BY <1>0, <1>1, StartFacts DEF OwnInv
    <3>2. ~Stored(s)'
      BY <1>0, <1>1, <3>1, StartFacts DEF Stored
    <3>3. state'[s] \in {"creating", "closing", "destroying"}
      BY <1>0, <1>1, StartFacts DEF Calling
    <3> QED BY <2>1, <2>2, <3>2, <3>3
  <2>3. CASE r # s
    <3>1. state'[r] = state[r]
      BY <1>0, <1>1, <2>1, <2>3, StartFacts
    <3>2. ~Stored(r) => ~Stored(r)'
      BY <1>0, <1>1, <2>3, StartFacts DEF Stored
    <3> QED BY <2>1, <3>1, <3>2
  <2> QED BY <2>2, <2>3
<1>2. ASSUME NEW s \in Sockets, NEW t \in Threads, Returns(s, t)
      PROVE  Fresh(r, c)'
  <2>1. Fresh(r, c) /\ idOf' = idOf
    BY <1>0, <1>2, <1>a, ReturnFacts
  <2>2. CASE r = s
    <3>1. Stored(s)
      BY <1>0, <1>2, ReturnFacts DEF Stored
    <3>2. state[s] = "creating"
      BY <1>0, <1>2, <2>1, <2>2, <3>1, ReturnFacts DEF Calling
    <3>3. state'[s] \in {"listening", "ended"}
      BY <1>0, <1>2, <3>2, ReturnFacts
    <3> QED BY <2>1, <2>2, <3>3
  <2>3. CASE r # s
    <3>1. state'[r] = state[r]
      BY <1>0, <1>2, <2>1, <2>3, ReturnFacts
    <3>2. ~Stored(r) => ~Stored(r)'
      BY <1>0, <1>2, <2>3, ReturnFacts DEF Stored
    <3> QED BY <2>1, <3>1, <3>2
  <2> QED BY <2>2, <2>3
<1>3. ASSUME NEW s \in Sockets, NEW how, PeerLeaves(s, how)
      PROVE  Fresh(r, c)'
  BY <1>3, <1>a DEF PeerLeaves, registryVars, Stored
<1>4. ASSUME NEW s \in Sockets, ReadFails(s)
      PROVE  Fresh(r, c)'
  <2>1. UNCHANGED registryVars /\ UNCHANGED idOf
        /\ (state'[r] = state[r] \/ state'[r] = "ended")
    BY <1>0, <1>4, <1>a DEF ReadFails, Become, registryVars
  <2> QED BY <1>a, <2>1 DEF registryVars, Stored
<1>5. ASSUME NEW t \in Threads, InRegistry(t)
      PROVE  Fresh(r, c)'
  <2>0. UNCHANGED <<call, state, idOf>>
    BY <1>0, <1>5, InsideFacts
  <2>1. CASE EndUpdate(t)
    <3>1. CASE call[t].id = c
      \* t has just added its own socket, which is being created
      <4>1. r = call[t].sock /\ call[t].op = "addClient" /\ pc[t] # "idle"
        BY <2>1, <3>1, WriteBack, ConstantsAssumption
      <4> QED BY <1>0, <2>0, <3>1, <4>1 DEF OwnInv
    <3>2. CASE call[t].id # c
      <4>1. Fresh(r, c)
        BY <1>a, <2>1, <3>2, WriteBack
      <4>2. call[t].sock # r
        BY <1>0, <2>1, <3>2, <4>1, WriteBack DEF OwnInv
      <4>3. ~Stored(r) => ~Stored(r)'
        BY <1>0, <1>5, <2>0, <4>2, InsideFacts DEF Stored
      <4> QED BY <2>0, <4>1, <4>3
    <3> QED BY <3>1, <3>2
  <2>2. CASE ~EndUpdate(t)
    <3>1. /\ clients' = clients
          /\ pc'[t] \in {"unlock", "query", "return"} => pc[t] \in {"unlock", "query", "return"}
      BY <1>0, <1>5, <2>2 DEF InRegistry, Inside, TestAndSet, BeginUpdate, Clear, ExecuteQuery, Goto
    <3>2. ~Stored(r) => ~Stored(r)'
      BY <1>0, <1>5, <2>0, <3>1, InsideFacts DEF Stored
    <3> QED BY <1>a, <2>0, <3>1, <3>2
  <2> QED BY <2>1, <2>2
<1>6. CASE UNCHANGED lifecycleVars
  BY <1>6, <1>a DEF lifecycleVars, registryVars, socketVars, Stored
<1> QED
  BY <1>1, <1>2, <1>3, <1>4, <1>5, <1>6, LifecycleCases

\* NoStaleEntry: the map never holds a socket whose last erase is done, for
\* any number of connections, vehicles and threads (WebSocketListener.cpp:208).
THEOREM EntriesAreFresh == LifecycleSpec => []NoStaleEntry
  BY LifecycleInvInit, LifecycleInvStep, StaleInit, StaleStep, PTL DEF LifecycleSpec

\* Which step puts a socket into the map: the write-back of its own addClient,
\* for what a thread writes back is the map as it is at that moment.
LEMMA LetGoStep ==
  ASSUME LifecycleInv, [LifecycleNext]_lifecycleVars, NEW s \in Sockets, InMap(s)', ~InMap(s)
  PROVE  state[s] = "creating"
<1>1. PICK c \in ClientIds : clients'[c] = s
  BY DEF InMap
<1>2. clients'[c] # clients[c]
  BY <1>1 DEF InMap
<1>3. ASSUME NEW r \in Sockets, NEW t \in Threads, Starts(r, t) \/ Returns(r, t)
      PROVE  FALSE
  BY <1>2, <1>3, StartFacts, ReturnFacts DEF LifecycleInv
<1>4. ASSUME NEW r \in Sockets,
             (\E how \in {"closed", "reset", "vanished"} : PeerLeaves(r, how)) \/ ReadFails(r)
      PROVE  FALSE
  BY <1>2, <1>4 DEF PeerLeaves, ReadFails, registryVars
<1>5. ASSUME NEW t \in Threads, InRegistry(t)
      PROVE  state[s] = "creating"
  <2>1. EndUpdate(t)
    BY <1>2, <1>5 DEF InRegistry, Inside, TestAndSet, BeginUpdate, Clear, ExecuteQuery
  <2>2. call[t].id = c /\ pc[t] = "write"
    BY <1>2, <2>1, WriteBack
  <2>3. call[t].op = "addClient" /\ call[t].sock = s
    BY <1>1, <2>1, <2>2, WriteBack, ConstantsAssumption
  <2> QED BY <2>2, <2>3 DEF LifecycleInv, OwnInv
<1>6. CASE UNCHANGED lifecycleVars
  BY <1>2, <1>6 DEF lifecycleVars, registryVars
<1> QED BY <1>3, <1>4, <1>5, <1>6, LifecycleCases

\* MapOnlyLetsGo: no callback brings back a socket that the map has let go of,
\* for any number of connections, vehicles and threads (WebSocketListener.cpp:195).
THEOREM LetGoForGood == LifecycleSpec => MapOnlyLetsGo
<1>1. LifecycleInv /\ [LifecycleNext]_lifecycleVars
        => [\A s \in Sockets : InMap(s)' => InMap(s) \/ state[s] = "creating"]_lifecycleVars
  BY LetGoStep
<1> QED
  BY <1>1, LifecycleInvInit, LifecycleInvStep, PTL DEF LifecycleSpec, MapOnlyLetsGo
-----------------------------------------------------------------------------
(***************************************************************************)
(* The row of a client that has gone.  RowClearedWhenGone says nothing     *)
(* while a connection is left; RowInv adds that until the row says NA one  *)
(* of the client's connections still owes the query that will make it so.  *)
(***************************************************************************)
Owes(s) ==
    \/ state[s] \in {"creating", "listening", "closing", "ended"}
    \/ /\ state[s] = "destroying"
       /\ \E t \in Threads : /\ pc[t] \in {"lock", "read", "write", "unlock", "query"}
                             /\ call[t].sock = s

RowInv ==
    \A c \in ClientIds \ failed :
        SocketsOf(c) # {} => vehicles[c] = NA \/ \E s \in SocketsOf(c) : Owes(s)

LEMMA RowInit == LifecycleInit => RowInv
  BY DEF LifecycleInit, RowInv, SocketsOf

\* A step inside the registry changes a row only by its query, which writes
\* the row of its own client.
LEMMA RowWrite ==
  ASSUME LifecycleInv, NEW t \in Threads, InRegistry(t)
  PROVE  /\ failed \subseteq failed'
         /\ \A c \in ClientIds :
              c # call[t].id \/ pc'[t] # "return" => vehicles'[c] = vehicles[c]
         /\ pc'[t] = "return" /\ call[t].id \notin failed'
              => vehicles'[call[t].id] = RowAfter(call[t])
         /\ pc'[t] # "return" => pc'[t] \in {"lock", "read", "write", "unlock", "query"}
<1> USE DEF LifecycleInv, LifecycleTypeOK, RegistryTypeOK, Goto
<1>1. CASE TestAndSet(t)
  BY <1>1 DEF TestAndSet
<1>2. CASE BeginUpdate(t)
  BY <1>2 DEF BeginUpdate
<1>3. CASE EndUpdate(t)
  BY <1>3 DEF EndUpdate
<1>4. CASE Clear(t)
  BY <1>4 DEF Clear
<1>5. CASE ExecuteQuery(t)
  BY <1>5 DEF ExecuteQuery, Requests
<1> QED BY <1>1, <1>2, <1>3, <1>4, <1>5 DEF Inside, InRegistry

LEMMA RowStep ==
  LifecycleInv /\ RowInv /\ [LifecycleNext]_lifecycleVars => RowInv'
<1> SUFFICES ASSUME LifecycleInv, RowInv, [LifecycleNext]_lifecycleVars,
                    NEW c \in ClientIds, c \notin failed', (SocketsOf(c) # {})',
                    vehicles'[c] # NA
             PROVE  \E s \in Sockets : (s \in SocketsOf(c) /\ Owes(s))'
  BY DEF RowInv, SocketsOf
<1>0. /\ LifecycleTypeOK /\ OwnInv
      /\ pc \in [Threads -> {"idle", "lock", "read", "write", "unlock", "query", "return"}]
      /\ state \in [Sockets -> States] /\ idOf \in [Sockets -> ClientIds]
  BY DEF LifecycleInv, LifecycleTypeOK, RegistryTypeOK
<1>1. ASSUME NEW s \in Sockets, NEW t \in Threads, Starts(s, t)
      PROVE  \E r \in Sockets : (r \in SocketsOf(c) /\ Owes(r))'
  <2>1. /\ UNCHANGED <<vehicles, failed, idOf>> /\ pc'[t] = "lock" /\ call'[t].sock = s
        /\ state'[s] \in {"creating", "closing", "destroying"}
        /\ \A r \in Sockets \ {s} : state'[r] = state[r]
        /\ pc[t] = "idle"
        /\ \A u \in Threads \ {t} : pc'[u] = pc[u] /\ call'[u] = call[u]
    BY <1>0, <1>1, StartFacts DEF Calling
  <2>2. CASE idOf[s] = c
    BY <2>1, <2>2 DEF SocketsOf, Owes
  <2>3. CASE idOf[s] # c
    <3>1. PICK r \in SocketsOf(c) : Owes(r)
      BY <2>1, <2>3 DEF RowInv, SocketsOf
    <3>2. r \in Sockets \ {s} /\ state'[r] = state[r] /\ idOf'[r] = c
      BY <2>1, <2>3, <3>1 DEF SocketsOf
    <3>3. Owes(r)'
      BY <2>1, <3>1, <3>2 DEF Owes
    <3> QED BY <3>1, <3>2, <3>3 DEF SocketsOf
  <2> QED BY <2>2, <2>3
<1>2. ASSUME NEW s \in Sockets, NEW t \in Threads, Returns(s, t)
      PROVE  \E r \in Sockets : (r \in SocketsOf(c) /\ Owes(r))'
  <2>1. /\ UNCHANGED <<vehicles, failed, idOf>> /\ pc[t] = "return" /\ call[t].sock = s
        /\ state[s] \in Calling /\ state'[s] \in {"listening", "ended", "destroyed"}
        /\ state'[s] = "destroyed" <=> state[s] = "destroying"
        /\ \A r \in Sockets \ {s} : state'[r] = state[r]
        /\ \A u \in Threads \ {t} : pc'[u] = pc[u] /\ call'[u] = call[u]
    BY <1>0, <1>2, ReturnFacts
  <2>2. PICK r \in SocketsOf(c) : Owes(r)
    BY <2>1 DEF RowInv, SocketsOf, Calling
  <2>3. r \in Sockets /\ idOf'[r] = c
    BY <2>1, <2>2 DEF SocketsOf
  <2>4. CASE r = s
    \* had s been at its end, t would have run its query already
    <3>1. state[s] # "destroying"
      BY <1>0, <2>1, <2>2, <2>4 DEF Owes, OwnInv
    <3> QED BY <2>1, <2>3, <2>4, <3>1 DEF Owes, SocketsOf
  <2>5. CASE r # s
    <3>1. state'[r] = state[r]
      BY <2>1, <2>3, <2>5
    <3>2. Owes(r)'
      BY <2>1, <2>2, <2>5, <3>1 DEF Owes
    <3> QED BY <2>2, <2>3, <3>1, <3>2 DEF SocketsOf
  <2> QED BY <2>4, <2>5
<1>3. ASSUME NEW s \in Sockets, NEW how, PeerLeaves(s, how)
      PROVE  \E r \in Sockets : (r \in SocketsOf(c) /\ Owes(r))'
  BY <1>3 DEF PeerLeaves, registryVars, RowInv, SocketsOf, Owes
<1>4. ASSUME NEW s \in Sockets, ReadFails(s)
      PROVE  \E r \in Sockets : (r \in SocketsOf(c) /\ Owes(r))'
  <2>1. /\ UNCHANGED <<registryVars, idOf>> /\ state[s] = "listening" /\ state'[s] = "ended"
        /\ \A r \in Sockets \ {s} : state'[r] = state[r]
    BY <1>0, <1>4 DEF ReadFails, Become
  <2>2. PICK r \in SocketsOf(c) : Owes(r)
    BY <2>1 DEF RowInv, SocketsOf, registryVars
  <2>3. r \in Sockets /\ idOf'[r] = c /\ state'[r] # "none"
    BY <2>1, <2>2 DEF SocketsOf
  <2>4. Owes(r)'
    BY <2>1, <2>2, <2>3 DEF Owes, registryVars
  <2> QED BY <2>3, <2>4 DEF SocketsOf
<1>5. ASSUME NEW t \in Threads, InRegistry(t)
      PROVE  \E r \in Sockets : (r \in SocketsOf(c) /\ Owes(r))'
  <2>1. /\ UNCHANGED <<call, state, idOf>> /\ pc[t] # "idle"
        /\ \A u \in Threads \ {t} : pc'[u] = pc[u]
    BY <1>0, <1>5, InsideFacts
  <2>2. CASE pc'[t] = "return" /\ call[t].id = c
    \* the query of c was no setClientNotAvailable: its socket is new
    <3>1. call[t].op = "addClient"
      BY <1>0, <1>5, <2>1, <2>2, RowWrite
         DEF RowAfter, OwnInv, LifecycleTypeOK, RegistryTypeOK, Requests, Operations
    <3>2. call[t].sock \in Sockets /\ state[call[t].sock] = "creating" /\ idOf[call[t].sock] = c
      BY <1>0, <2>1, <2>2, <3>1 DEF OwnInv, LifecycleTypeOK, RegistryTypeOK, Requests
    <3> QED BY <2>1, <3>2 DEF Owes, SocketsOf
  <2>3. CASE ~(pc'[t] = "return" /\ call[t].id = c)
    <3>1. PICK r \in SocketsOf(c) : Owes(r)
      BY <1>5, <2>1, <2>3, RowWrite DEF RowInv, SocketsOf
    <3>2. r \in Sockets /\ idOf[r] = c
      BY <3>1 DEF SocketsOf
    <3>3. Owes(r)'
      <4>1. CASE state[r] \in {"creating", "listening", "closing", "ended"}
        BY <2>1, <4>1 DEF Owes
      <4>2. CASE state[r] = "destroying"
        <5>1. PICK u \in Threads : /\ pc[u] \in {"lock", "read", "write", "unlock", "query"}
                                   /\ call[u].sock = r
          BY <3>1, <4>2 DEF Owes
        <5>2. pc'[u] \in {"lock", "read", "write", "unlock", "query"}
          BY <1>0, <1>5, <2>1, <2>3, <3>2, <5>1, RowWrite DEF OwnInv
        <5> QED BY <2>1, <4>2, <5>1, <5>2 DEF Owes
      <4> QED BY <3>1, <4>1, <4>2 DEF Owes
    <3> QED BY <2>1, <3>1, <3>3 DEF SocketsOf
  <2> QED BY <2>2, <2>3
<1>6. CASE UNCHANGED lifecycleVars
  BY <1>6 DEF lifecycleVars, registryVars, socketVars, RowInv, SocketsOf, Owes
<1> QED
  BY <1>1, <1>2, <1>3, <1>4, <1>5, <1>6, LifecycleCases

\* RowClearedWhenGone: when all connections of a client are destroyed its row
\* says NA unless one of its queries failed, for any number of them and in
\* whatever order their callbacks ran (WebSocketListener.cpp:208).
THEOREM LastOneClearsRow == LifecycleSpec => []RowClearedWhenGone
<1>1. RowInv => RowClearedWhenGone
  BY DEF RowInv, RowClearedWhenGone, Owes
<1> QED
  BY <1>1, LifecycleInvInit, LifecycleInvStep, RowInit, RowStep, PTL DEF LifecycleSpec
-----------------------------------------------------------------------------
(***************************************************************************)
(* The only connection of a client is its entry.  Two connections of one   *)
(* client that live together are both contested, so the entry of a client  *)
(* whose connection is not was last written by that connection itself.     *)
(***************************************************************************)
SoleInv ==
    /\ \A s, u \in Sockets :
         s # u /\ state[s] \in Alive /\ state[u] \in Alive /\ idOf[s] = idOf[u]
           => s \in contested
    /\ \A s \in Sockets \ contested :
         state[s] = "listening" \/ (state[s] = "creating" /\ Stored(s))
           => clients[idOf[s]] = s

LEMMA SoleInit == LifecycleInit => SoleInv
  BY DEF LifecycleInit, SoleInv, Alive

LEMMA SoleStep ==
  LifecycleInv /\ SoleInv /\ [LifecycleNext]_lifecycleVars => SoleInv'
<1> SUFFICES ASSUME LifecycleInv, SoleInv, [LifecycleNext]_lifecycleVars
             PROVE  SoleInv'
  OBVIOUS
<1>0. /\ LifecycleTypeOK /\ OwnInv
      /\ pc \in [Threads -> {"idle", "lock", "read", "write", "unlock", "query", "return"}]
      /\ state \in [Sockets -> States] /\ idOf \in [Sockets -> ClientIds]
  BY DEF LifecycleInv, LifecycleTypeOK, RegistryTypeOK
<1>1. ASSUME NEW s \in Sockets, NEW t \in Threads, Starts(s, t)
      PROVE  SoleInv'
  <2>1. /\ UNCHANGED <<clients, idOf>> /\ pc[t] = "idle" /\ pc'[t] = "lock"
        /\ \A r \in Sockets \ {s} : state'[r] = state[r]
        /\ \A u \in Threads \ {t} : pc'[u] = pc[u] /\ call'[u] = call[u]
        /\ state[s] \notin Calling /\ state'[s] \in Calling
    BY <1>0, <1>1, StartFacts
  <2>2. /\ contested \subseteq contested'
        /\ \A u \in Sockets \ {s} : state[u] \in Alive /\ idOf[u] = idOf[s]
             => {s, u} \subseteq contested'
    <3>1. CASE OnAfterCreate(s, t)
      BY <3>1 DEF OnAfterCreate, SocketsOf, Alive
    <3>2. CASE OnClose(s, t) \/ OnBeforeDestroy(s, t)
      BY <1>0, <3>2 DEF OnClose, OnBeforeDestroy, Become, SoleInv, Alive
    <3> QED BY <1>1, <3>1, <3>2 DEF Starts
  <2>3. \A r \in Sockets : Stored(r)' => Stored(r) /\ r # s
    BY <1>0, <2>1 DEF Stored, OwnInv
  <2>4. (\A r, u \in Sockets :
           r # u /\ state[r] \in Alive /\ state[u] \in Alive /\ idOf[r] = idOf[u]
             => r \in contested)'
    BY <2>1, <2>2 DEF SoleInv
  <2>5. state'[s] # "listening"
    BY <2>1 DEF Calling
  <2> QED BY <2>1, <2>2, <2>3, <2>4, <2>5 DEF SoleInv
<1>2. ASSUME NEW s \in Sockets, NEW t \in Threads, Returns(s, t)
      PROVE  SoleInv'
  <2>1. /\ UNCHANGED <<clients, idOf, contested>> /\ pc[t] = "return" /\ call[t].sock = s
        /\ \A r \in Sockets \ {s} : state'[r] = state[r]
        /\ pc'[t] = "idle" /\ \A u \in Threads \ {t} : pc'[u] = pc[u] /\ call'[u] = call[u]
        /\ state[s] \in Alive /\ state'[s] # "creating"
        /\ state'[s] = "listening" <=> state[s] = "creating"
    BY <1>0, <1>2, ReturnFacts DEF Calling, Alive
  <2>2. Stored(s)
    BY <2>1 DEF Stored
  <2>3. \A r \in Sockets : Stored(r)' => Stored(r)
    BY <2>1 DEF Stored
  <2>4. \A r \in Sockets : state'[r] \in Alive => state[r] \in Alive
    BY <2>1
  <2> QED BY <2>1, <2>2, <2>3, <2>4 DEF SoleInv
<1>3. ASSUME NEW s \in Sockets, NEW how, PeerLeaves(s, how)
      PROVE  SoleInv'
  BY <1>3 DEF PeerLeaves, registryVars, SoleInv, Stored
<1>4. ASSUME NEW s \in Sockets, ReadFails(s)
      PROVE  SoleInv'
  <2>1. /\ UNCHANGED <<registryVars, idOf, contested>>
        /\ state[s] = "listening" /\ state'[s] = "ended"
        /\ \A r \in Sockets \ {s} : state'[r] = state[r]
    BY <1>0, <1>4 DEF ReadFails, Become
  <2>2. \A r \in Sockets : Stored(r)' <=> Stored(r)
    BY <2>1 DEF Stored, registryVars
  <2> QED BY <2>1, <2>2 DEF SoleInv, Alive, registryVars
<1>5. ASSUME NEW t \in Threads, InRegistry(t)
      PROVE  SoleInv'
  <2>1. /\ UNCHANGED <<call, state, idOf, contested>> /\ pc[t] # "idle"
        /\ \A u \in Threads \ {t} : pc'[u] = pc[u]
    BY <1>0, <1>5, InsideFacts
  <2>2. CASE EndUpdate(t)
    <3>1. /\ call[t].sock \in Sockets /\ state[call[t].sock] \in Alive
          /\ idOf[call[t].sock] = call[t].id
      BY <1>0, <2>1 DEF OwnInv, LifecycleTypeOK, RegistryTypeOK, Requests, Calling, Alive
    <3>2. ASSUME NEW s \in Sockets \ contested,
                 state[s] = "listening" \/ (state[s] = "creating" /\ Stored(s)')
          PROVE  clients'[idOf[s]] = s
      <4>1. CASE idOf[s] = call[t].id
        \* s is not contested, so the thread that writes its entry is its own
        <5>1. call[t].sock = s
          BY <3>1, <3>2, <4>1 DEF SoleInv, Alive
        <5>2. call[t].op = "addClient"
          BY <1>0, <2>1, <3>2, <5>1 DEF OwnInv, Calling
        <5> QED BY <2>2, <4>1, <5>1, <5>2, WriteBack
      <4>2. CASE idOf[s] # call[t].id
        <5>1. Stored(s)' => Stored(s)
          BY <2>1, <3>1, <4>2 DEF Stored
        <5> QED BY <1>0, <2>2, <3>2, <4>2, <5>1, WriteBack DEF SoleInv
      <4> QED BY <4>1, <4>2
    <3> QED BY <2>1, <3>2 DEF SoleInv
  <2>3. CASE ~EndUpdate(t)
    <3>1. /\ clients' = clients
          /\ pc'[t] \in {"unlock", "query", "return"} => pc[t] \in {"unlock", "query", "return"}
      BY <1>0, <1>5, <2>3 DEF InRegistry, Inside, TestAndSet, BeginUpdate, Clear, ExecuteQuery, Goto
    <3>2. \A s \in Sockets : Stored(s)' => Stored(s)
      BY <2>1, <3>1 DEF Stored
    <3> QED BY <2>1, <3>1, <3>2 DEF SoleInv
  <2> QED BY <2>2, <2>3
<1>6. CASE UNCHANGED lifecycleVars
  BY <1>6 DEF lifecycleVars, registryVars, socketVars, SoleInv, Stored
<1> QED
  BY <1>1, <1>2, <1>3, <1>4, <1>5, <1>6, LifecycleCases

\* SoleConnectionRegistered: the socket of a client with one connection at a
\* time is its entry while it is read (WebSocketListener.cpp:195).
THEOREM SoleIsRegistered == LifecycleSpec => []SoleConnectionRegistered
<1>1. SoleInv => SoleConnectionRegistered
  BY DEF SoleInv, SoleConnectionRegistered
<1> QED
  BY <1>1, LifecycleInvInit, LifecycleInvStep, SoleInit, SoleStep, PTL DEF LifecycleSpec
-----------------------------------------------------------------------------
(***************************************************************************)
(* The counter.  It is the number of connections between their two         *)
(* life-cycle callbacks, whatever onClose does in between.                 *)
(***************************************************************************)
Counted == {s \in Sockets : state[s] \in {"creating", "listening", "closing", "ended"}}

CountInv == IsFiniteSet(Counted) /\ SOCKETS = Cardinality(Counted)

LEMMA CountInit == LifecycleInit => CountInv
<1> SUFFICES ASSUME LifecycleInit PROVE CountInv
  OBVIOUS
<1>1. Counted = {} /\ SOCKETS = 0
  BY DEF LifecycleInit, Counted
<1> QED BY <1>1, FS_EmptySet DEF CountInv

LEMMA CountStep ==
  LifecycleTypeOK /\ CountInv /\ [LifecycleNext]_lifecycleVars => CountInv'
<1> SUFFICES ASSUME LifecycleTypeOK, CountInv, [LifecycleNext]_lifecycleVars
             PROVE  CountInv'
  OBVIOUS
<1> USE DEF LifecycleTypeOK, Become
<1>1. ASSUME NEW s \in Sockets, NEW t \in Threads, OnAfterCreate(s, t)
      PROVE  CountInv'
  <2>1. Counted' = Counted \cup {s} /\ s \notin Counted /\ SOCKETS' = SOCKETS + 1
    BY <1>1 DEF OnAfterCreate, Counted
  <2> QED BY <2>1, FS_AddElement DEF CountInv
<1>2. ASSUME NEW s \in Sockets, NEW t \in Threads, OnBeforeDestroy(s, t)
      PROVE  CountInv'
  <2>1. Counted' = Counted \ {s} /\ s \in Counted /\ SOCKETS' = SOCKETS - 1
    BY <1>2 DEF OnBeforeDestroy, Counted
  <2> QED BY <2>1, FS_RemoveElement DEF CountInv
<1>3. ASSUME Counted' = Counted, SOCKETS' = SOCKETS
      PROVE  CountInv'
  BY <1>3 DEF CountInv
<1>4. ASSUME NEW s \in Sockets, NEW t \in Threads,
             \/ SetListener(s, t) \/ OnClose(s, t)
             \/ OnCloseReturns(s, t) \/ Destroyed(s, t)
      PROVE  CountInv'
  <2>1. Counted' = Counted /\ SOCKETS' = SOCKETS
    BY <1>4 DEF SetListener, OnClose, OnCloseReturns, Destroyed, Counted
  <2> QED BY <1>3, <2>1
<1>5. ASSUME NEW s \in Sockets, ReadFails(s) \/ \E how : PeerLeaves(s, how)
      PROVE  CountInv'
  <2>1. Counted' = Counted /\ SOCKETS' = SOCKETS
    BY <1>5 DEF ReadFails, PeerLeaves, Counted
  <2> QED BY <1>3, <2>1
<1>6. CASE UNCHANGED socketVars
  BY <1>3, <1>6 DEF socketVars, Counted
<1> QED
  BY <1>1, <1>2, <1>4, <1>5, <1>6 DEF LifecycleNext, Callback, InRegistry, lifecycleVars

\* NothingLeftWhenIdle: with no connection left the counter is zero and the
\* map is empty (WebSocketListener.cpp:140, 206-208).
THEOREM IdleIsClean == LifecycleSpec => []NothingLeftWhenIdle
<1>1. CountInv /\ LifecycleInv /\ NoStaleEntry => NothingLeftWhenIdle
  <2> SUFFICES ASSUME CountInv, LifecycleInv, NoStaleEntry,
                      \A s \in Sockets : state[s] \in {"none", "destroyed"}
               PROVE  SOCKETS = 0 /\ clients = EmptyMap
    BY DEF NothingLeftWhenIdle
  <2>1. SOCKETS = 0
    <3>1. Counted = {}
      BY DEF Counted
    <3> QED BY <3>1, FS_EmptySet DEF CountInv
  <2>2. clients \in [ClientIds -> Sockets \cup {NoSocket}]
    BY DEF LifecycleInv, LifecycleTypeOK, RegistryTypeOK, Maps
  <2>3. \A c \in ClientIds : clients[c] = NoSocket
    BY <2>2 DEF NoStaleEntry
  <2>4. clients = EmptyMap
    BY <2>2, <2>3 DEF EmptyMap
  <2> QED BY <2>1, <2>4
<1> QED
  BY <1>1, LifecycleInvInit, LifecycleInvStep, StaleInit, StaleStep, CountInit, CountStep, PTL
     DEF LifecycleSpec, LifecycleInv
=============================================================================
