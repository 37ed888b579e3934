--------------------- MODULE WebSocketComponent_proofs ---------------------
(***************************************************************************)
(* Proofs about the registry for every set of threads, vehicles and        *)
(* sockets: its type, the exclusion its spin lock gives, the agreement of  *)
(* map and table, and that it implements ClientTable.                      *)
(***************************************************************************)
EXTENDS WebSocketComponent, TLAPS

LEMMA RegistryTypeInit == RegistryInit => RegistryTypeOK
  BY DEF RegistryInit, RegistryTypeOK, Maps, EmptyMap, RowValues

\* Every step keeps every variable in its type.
LEMMA RegistryTypeStep ==
  RegistryTypeOK /\ [RegistryNext]_registryVars => RegistryTypeOK'
<1> SUFFICES ASSUME RegistryTypeOK, [RegistryNext]_registryVars
             PROVE  RegistryTypeOK'
  OBVIOUS
<1> USE DEF RegistryTypeOK, Maps, EmptyMap, Goto
<1>1. ASSUME NEW t \in Threads, NEW r \in Requests, Enter(t, r)
      PROVE  RegistryTypeOK'
  BY <1>1 DEF Enter, Requests
<1>2. ASSUME NEW t \in Threads, TestAndSet(t) PROVE RegistryTypeOK'
  BY <1>2 DEF TestAndSet
<1>3. ASSUME NEW t \in Threads, BeginUpdate(t) PROVE RegistryTypeOK'
  <2>1. call[t] \in Requests
    BY <1>3 DEF BeginUpdate
  <2>2. MapAfter(call[t]) \in Maps
    BY <2>1 DEF MapAfter, Requests
  <2> QED BY <1>3, <2>2 DEF BeginUpdate
<1>4. ASSUME NEW t \in Threads, EndUpdate(t) PROVE RegistryTypeOK'
  BY <1>4 DEF EndUpdate
<1>5. ASSUME NEW t \in Threads, Clear(t) PROVE RegistryTypeOK'
  BY <1>5 DEF Clear
<1>6. ASSUME NEW t \in Threads, ExecuteQuery(t) PROVE RegistryTypeOK'
  <2>1. call[t] \in Requests /\ call[t].id \in ClientIds
    BY <1>6 DEF ExecuteQuery, Requests
  <2>2. RowAfter(call[t]) \in RowValues
    BY <2>1 DEF RowAfter, RowValues, Requests, Operations
  <2>3. vehicles' \in [ClientIds -> RowValues]
    BY <1>6, <2>1, <2>2 DEF ExecuteQuery
  <2>4. failed' \subseteq ClientIds /\ tainted' \subseteq ClientIds
    BY <1>6, <2>1 DEF ExecuteQuery
  <2> QED BY <1>6, <2>3, <2>4 DEF ExecuteQuery
<1>7. ASSUME NEW t \in Threads, Leave(t) PROVE RegistryTypeOK'
  BY <1>7 DEF Leave
<1>8. CASE UNCHANGED registryVars
  BY <1>8 DEF registryVars
<1> QED
  BY <1>1, <1>2, <1>3, <1>4, <1>5, <1>6, <1>7, <1>8 DEF RegistryNext, Inside

\* RegistryTypeOK holds of the registry whatever its callers do
\* (WebSocketComponents.h:19-49).
THEOREM RegistryTypeCorrect == RegistrySpec => []RegistryTypeOK
  BY RegistryTypeInit, RegistryTypeStep, PTL DEF RegistrySpec
-----------------------------------------------------------------------------
(***************************************************************************)
(* Mutual exclusion.  The invariant that carries it: a thread between      *)
(* test_and_set and clear has the flag set, and it is the only one.        *)
(***************************************************************************)
LockInv == /\ \A t \in Threads : Critical(t) => clientMapLock
           /\ MutualExclusion

LEMMA LockInit == RegistryInit => LockInv
  BY DEF RegistryInit, LockInv, MutualExclusion, Critical

LEMMA LockStep ==
  RegistryTypeOK /\ LockInv /\ [RegistryNext]_registryVars => LockInv'
<1> SUFFICES ASSUME RegistryTypeOK, LockInv, [RegistryNext]_registryVars
             PROVE  LockInv'
  OBVIOUS
<1> USE DEF RegistryTypeOK, LockInv, MutualExclusion, Critical, Goto
<1>1. ASSUME NEW t \in Threads, NEW r \in Requests, Enter(t, r)
      PROVE  LockInv'
  BY <1>1 DEF Enter
<1>2. ASSUME NEW t \in Threads, TestAndSet(t) PROVE LockInv'
  BY <1>2 DEF TestAndSet
<1>3. ASSUME NEW t \in Threads, BeginUpdate(t) PROVE LockInv'
  BY <1>3 DEF BeginUpdate
<1>4. ASSUME NEW t \in Threads, EndUpdate(t) PROVE LockInv'
  BY <1>4 DEF EndUpdate
<1>5. ASSUME NEW t \in Threads, Clear(t) PROVE LockInv'
  BY <1>5 DEF Clear
<1>6. ASSUME NEW t \in Threads, ExecuteQuery(t) PROVE LockInv'
  BY <1>6 DEF ExecuteQuery
<1>7. ASSUME NEW t \in Threads, Leave(t) PROVE LockInv'
  BY <1>7 DEF Leave
<1>8. CASE UNCHANGED registryVars
  BY <1>8 DEF registryVars
<1> QED
  BY <1>1, <1>2, <1>3, <1>4, <1>5, <1>6, <1>7, <1>8 DEF RegistryNext, Inside

\* MutualExclusion holds of the spin lock of WebSocketComponents.h:20-22 for
\* every number of executor threads.
THEOREM LockExcludes == RegistrySpec => []MutualExclusion
<1>1. LockInv => MutualExclusion
  BY DEF LockInv
<1> QED
  BY <1>1, RegistryTypeInit, RegistryTypeStep, LockInit, LockStep, PTL DEF RegistrySpec

\* The flag goes with the one thread that is critical: to clear it is to stop
\* being critical, and nobody else does either.
LEMMA HolderStep ==
  RegistryTypeOK /\ LockHasHolder /\ [RegistryNext]_registryVars => LockHasHolder'
<1> SUFFICES ASSUME RegistryTypeOK, LockHasHolder, [RegistryNext]_registryVars, clientMapLock'
             PROVE  \E t \in Threads : Critical(t)'
  BY DEF LockHasHolder
<1> USE DEF RegistryTypeOK, Critical, Goto
<1>1. ASSUME NEW t \in Threads, TestAndSet(t) PROVE Critical(t)'
  BY <1>1 DEF TestAndSet
<1>2. ASSUME NEW t \in Threads, Clear(t) PROVE FALSE
  BY <1>2 DEF Clear
<1>3. ASSUME UNCHANGED clientMapLock, \A u \in Threads : Critical(u) => Critical(u)'
      PROVE  \E t \in Threads : Critical(t)'
  BY <1>3 DEF LockHasHolder
<1>4. ASSUME NEW t \in Threads,
             \/ \E r \in Requests : Enter(t, r)
             \/ BeginUpdate(t) \/ EndUpdate(t) \/ ExecuteQuery(t) \/ Leave(t)
      PROVE  UNCHANGED clientMapLock /\ \A u \in Threads : Critical(u) => Critical(u)'
  BY <1>4 DEF Enter, BeginUpdate, EndUpdate, ExecuteQuery, Leave
<1>5. CASE UNCHANGED registryVars
  BY <1>3, <1>5 DEF registryVars
<1> QED BY <1>1, <1>2, <1>3, <1>4, <1>5 DEF RegistryNext, Inside

\* LockHasHolder: whoever spins on clientMapLock waits for a thread inside the
\* critical section, for every number of threads (WebSocketComponents.h:19-49).
THEOREM LockIsHeldBySomeone == RegistrySpec => []LockHasHolder
<1>1. RegistryInit => LockHasHolder
  BY DEF RegistryInit, LockHasHolder
<1> QED
  BY <1>1, RegistryTypeInit, RegistryTypeStep, HolderStep, PTL DEF RegistrySpec
-----------------------------------------------------------------------------
(***************************************************************************)
(* The write-back is atomic: what a thread is about to write back is the   *)
(* map as it is now, with its own client's entry changed.  Were the lock   *)
(* to let a second thread in, its update would be lost.                    *)
(***************************************************************************)
WriteInv == \A t \in Threads : pc[t] = "write" => scratch[t] = MapAfter(call[t])

LEMMA WriteStep ==
  RegistryTypeOK /\ LockInv /\ WriteInv /\ [RegistryNext]_registryVars => WriteInv'
<1> SUFFICES ASSUME RegistryTypeOK, LockInv, WriteInv, [RegistryNext]_registryVars
             PROVE  WriteInv'
  OBVIOUS
<1> USE DEF RegistryTypeOK, WriteInv, MapAfter, Goto
<1>1. ASSUME NEW t \in Threads, NEW r \in Requests, Enter(t, r)
      PROVE  WriteInv'
  BY <1>1 DEF Enter
<1>2. ASSUME NEW t \in Threads, TestAndSet(t) PROVE WriteInv'
  BY <1>2 DEF TestAndSet
<1>3. ASSUME NEW t \in Threads, BeginUpdate(t) PROVE WriteInv'
  BY <1>3 DEF BeginUpdate
<1>4. ASSUME NEW t \in Threads, EndUpdate(t) PROVE WriteInv'
  \* no other thread is about to write back: it would be critical as well
  <2>1. \A u \in Threads : pc'[u] # "write"
    BY <1>4 DEF EndUpdate, LockInv, MutualExclusion, Critical
  <2> QED BY <2>1
<1>5. ASSUME NEW t \in Threads, Clear(t) PROVE WriteInv'
  BY <1>5 DEF Clear
<1>6. ASSUME NEW t \in Threads, ExecuteQuery(t) PROVE WriteInv'
  BY <1>6 DEF ExecuteQuery
<1>7. ASSUME NEW t \in Threads, Leave(t) PROVE WriteInv'
  BY <1>7 DEF Leave
<1>8. CASE UNCHANGED registryVars
  BY <1>8 DEF registryVars
<1> QED
  BY <1>1, <1>2, <1>3, <1>4, <1>5, <1>6, <1>7, <1>8 DEF RegistryNext, Inside

RegistryInv == RegistryTypeOK /\ LockInv /\ WriteInv

LEMMA RegistryInvInit == RegistryInit => RegistryInv
  BY RegistryTypeInit, LockInit DEF RegistryInv, RegistryInit, WriteInv

LEMMA RegistryInvStep == RegistryInv /\ [RegistryNext]_registryVars => RegistryInv'
  BY RegistryTypeStep, LockStep, WriteStep DEF RegistryInv
-----------------------------------------------------------------------------
(***************************************************************************)
(* Refinement of ClientTable.                                              *)
(***************************************************************************)
Phases == [t \in Threads |-> PhaseOf(pc[t])]

\* Moving one thread's program counter moves its phase and no other's.
LEMMA PhaseMove ==
  ASSUME RegistryTypeOK, NEW t \in Threads, NEW from, NEW to, Goto(t, from, to)
  PROVE  /\ Phases[t] = PhaseOf(from)
         /\ Phases' = [Phases EXCEPT ![t] = PhaseOf(to)]
<1>1. pc[t] = from /\ pc' = [pc EXCEPT ![t] = to] /\ pc \in [Threads -> {"idle",
        "lock", "read", "write", "unlock", "query", "return"}]
  BY DEF Goto, RegistryTypeOK
<1>2. \A u \in Threads : PhaseOf(pc'[u]) = IF u = t THEN PhaseOf(to) ELSE PhaseOf(pc[u])
  BY <1>1
<1> QED
  BY <1>1, <1>2 DEF Phases

LEMMA PhaseStutter ==
  ASSUME RegistryTypeOK, NEW t \in Threads, NEW from, NEW to, Goto(t, from, to),
         PhaseOf(from) = PhaseOf(to)
  PROVE  UNCHANGED Phases
  BY PhaseMove DEF Phases

\* Every step of the registry is a step of the table or leaves it unchanged.
LEMMA TableStep ==
  RegistryInv /\ [RegistryNext]_registryVars => [Table!Next]_Table!vars
<1> SUFFICES ASSUME RegistryInv, [RegistryNext]_registryVars
             PROVE  [Table!Next]_Table!vars
  OBVIOUS
<1> USE DEF RegistryInv
<1>1. ASSUME NEW t \in Threads, NEW r \in Requests, Enter(t, r)
      PROVE  Table!Call(t, r)
  <2>1. Phases[t] = "idle" /\ Phases' = [Phases EXCEPT ![t] = "called"]
    BY <1>1, PhaseMove DEF Enter, PhaseOf
  <2> QED BY <1>1, <2>1 DEF Enter, Table!Call, Table!Move, Phases
<1>2. ASSUME NEW t \in Threads, TestAndSet(t) PROVE UNCHANGED Table!vars
  <2>1. UNCHANGED Phases
    BY <1>2, PhaseStutter DEF TestAndSet, PhaseOf
  <2> QED BY <1>2, <2>1 DEF TestAndSet, Table!vars, Phases
<1>3. ASSUME NEW t \in Threads, BeginUpdate(t) PROVE UNCHANGED Table!vars
  <2>1. UNCHANGED Phases
    BY <1>3, PhaseStutter DEF BeginUpdate, PhaseOf
  <2> QED BY <1>3, <2>1 DEF BeginUpdate, Table!vars, Phases
<1>4. ASSUME NEW t \in Threads, EndUpdate(t) PROVE Table!Store(t)
  <2>1. Phases[t] = "called" /\ Phases' = [Phases EXCEPT ![t] = "stored"]
    BY <1>4, PhaseMove DEF EndUpdate, PhaseOf
  <2>2. clients' = MapAfter(call[t])
    BY <1>4 DEF EndUpdate, WriteInv, Goto
  <2> QED
    BY <1>4, <2>1, <2>2 DEF EndUpdate, MapAfter, Table!Store, Table!Move, Table!EntryAfter,
       Phases
<1>5. ASSUME NEW t \in Threads, Clear(t) PROVE UNCHANGED Table!vars
  <2>1. UNCHANGED Phases
    BY <1>5, PhaseStutter DEF Clear, PhaseOf
  <2> QED BY <1>5, <2>1 DEF Clear, Table!vars, Phases
<1>6. ASSUME NEW t \in Threads, ExecuteQuery(t) PROVE Table!Record(t)
  <2>1. Phases[t] = "stored" /\ Phases' = [Phases EXCEPT ![t] = "recorded"]
    BY <1>6, PhaseMove DEF ExecuteQuery, PhaseOf
  <2>2. \/ vehicles' = [vehicles EXCEPT ![call[t].id] = RowAfter(call[t])]
        \/ vehicles' = vehicles
    BY <1>6 DEF ExecuteQuery
  <2>3. RowAfter(call[t]) = Table!RowAfter(call[t])
    BY DEF RowAfter, Table!RowAfter
  <2> QED
    BY <1>6, <2>1, <2>2, <2>3 DEF ExecuteQuery, Table!Record, Table!Move, Phases
<1>7. ASSUME NEW t \in Threads, Leave(t) PROVE Table!Return(t)
  <2>1. Phases[t] = "recorded" /\ Phases' = [Phases EXCEPT ![t] = "idle"]
    BY <1>7, PhaseMove DEF Leave, PhaseOf
  <2> QED BY <1>7, <2>1 DEF Leave, Table!Return, Table!Move, Phases
<1>8. CASE UNCHANGED registryVars
  BY <1>8 DEF registryVars, Table!vars
<1>9. Requests = Table!Requests
  BY DEF Requests, Operations, Table!Requests, Table!Operations
<1> QED
  BY <1>1, <1>2, <1>3, <1>4, <1>5, <1>6, <1>7, <1>8, <1>9
  DEF RegistryNext, Inside, Table!Next

LEMMA TableInit == RegistryInit => Table!Init
  BY DEF RegistryInit, EmptyMap, RowValues, PhaseOf, Table!Init, Table!RowValues

\* ImplementsClientTable: WebSocketComponent, spin lock and all, is an atomic
\* client table for its callers (WebSocketComponents.h:19-49).
THEOREM RegistryImplementsTable == RegistrySpec => ImplementsClientTable
  BY RegistryInvInit, RegistryInvStep, TableInit, TableStep, PTL
  DEF RegistrySpec, ImplementsClientTable, Table!Spec
-----------------------------------------------------------------------------
(***************************************************************************)
(* Agreement of map and table.  A client that is not tainted has at most   *)
(* one call in flight; between its store and its query the map already     *)
(* says what the row is about to say, and after the query both agree.      *)
(***************************************************************************)
Serial(c) ==
    /\ \A t, u \in InFlight(c) : t = u
    /\ \A t \in InFlight(c) :
         /\ pc[t] \in {"unlock", "query"} =>
              (clients[c] # NoSocket <=> RowAfter(call[t]) = AppServerName)
         /\ pc[t] = "return" => Agree(c)
    /\ InFlight(c) = {} => Agree(c)

SerialInv == \A c \in ClientIds : c \notin tainted => Serial(c)

LEMMA SerialInit == RegistryInit => SerialInv
  BY DEF RegistryInit, SerialInv, Serial, InFlight, Agree, EmptyMap, RowValues

\* The row a request writes names this gateway only when it adds the client.
LEMMA RowNamesHost ==
  ASSUME NEW r \in Requests
  PROVE  RowAfter(r) = AppServerName <=> r.op = "addClient"
  BY ConstantsAssumption DEF RowAfter, Requests, Operations

\* A step that leaves alone a client's entry and row and the calls in flight
\* for it, program counters between "unlock" and "query" apart, keeps Serial.
LEMMA SerialUndisturbed ==
  ASSUME NEW c \in ClientIds, Serial(c),
         clients'[c] = clients[c], vehicles'[c] = vehicles[c],
         InFlight(c)' = InFlight(c),
         \A t \in InFlight(c) : /\ call'[t] = call[t]
                                /\ \/ pc'[t] = pc[t]
                                   \/ pc'[t] \in {"read", "write"}
                                   \/ pc[t] = "unlock" /\ pc'[t] = "query"
  PROVE  Serial(c)'
  BY DEF Serial, Agree, RowAfter

LEMMA SerialStep ==
  RegistryInv /\ SerialInv /\ [RegistryNext]_registryVars => SerialInv'
<1> SUFFICES ASSUME RegistryInv, SerialInv, [RegistryNext]_registryVars,
                    NEW c \in ClientIds, c \notin tainted'
             PROVE  Serial(c)'
  BY DEF SerialInv
<1> USE DEF RegistryInv, RegistryTypeOK, Goto
<1>1. ASSUME NEW t \in Threads, NEW r \in Requests, Enter(t, r)
      PROVE  Serial(c)'
  <2>0. r.id \in ClientIds /\ call' = [call EXCEPT ![t] = r] /\ pc[t] = "idle"
        /\ pc' = [pc EXCEPT ![t] = "lock"] /\ UNCHANGED <<clients, vehicles>>
    BY <1>1 DEF Enter, Requests
  <2>1. CASE r.id = c
    <3>1. InFlight(c) = {}
      BY <1>1, <2>0, <2>1 DEF Enter
    <3>2. InFlight(c)' = {t}
      BY <2>0, <2>1, <3>1 DEF InFlight
    <3> QED BY <2>0, <3>2 DEF Serial
  <2>2. CASE r.id # c
    <3>1. c \notin tainted
      BY <1>1, <2>2 DEF Enter
    <3>2. InFlight(c)' = InFlight(c) /\ t \notin InFlight(c)
      BY <2>0, <2>2 DEF InFlight
    <3> QED BY <2>0, <3>1, <3>2, SerialUndisturbed DEF SerialInv, InFlight
  <2> QED BY <2>1, <2>2
<1>2. ASSUME NEW t \in Threads, TestAndSet(t) PROVE Serial(c)'
  <2>1. InFlight(c)' = InFlight(c)
    BY <1>2 DEF TestAndSet, InFlight
  <2>2. \A u \in Threads : pc'[u] = pc[u] \/ pc'[u] = "read"
    BY <1>2 DEF TestAndSet
  <2> QED BY <1>2, <2>1, <2>2, SerialUndisturbed DEF TestAndSet, SerialInv, InFlight
<1>3. ASSUME NEW t \in Threads, BeginUpdate(t) PROVE Serial(c)'
  <2>1. InFlight(c)' = InFlight(c)
    BY <1>3 DEF BeginUpdate, InFlight
  <2>2. \A u \in Threads : pc'[u] = pc[u] \/ pc'[u] = "write"
    BY <1>3 DEF BeginUpdate
  <2> QED BY <1>3, <2>1, <2>2, SerialUndisturbed DEF BeginUpdate, SerialInv, InFlight
<1>4. ASSUME NEW t \in Threads, EndUpdate(t) PROVE Serial(c)'
  <2>0. /\ pc[t] = "write" /\ pc' = [pc EXCEPT ![t] = "unlock"]
        /\ clients' = MapAfter(call[t]) /\ call[t] \in Requests
        /\ UNCHANGED <<vehicles, call, tainted>>
    BY <1>4 DEF EndUpdate, WriteInv
  <2>1. InFlight(c)' = InFlight(c) /\ Serial(c)
    BY <2>0 DEF InFlight, SerialInv
  <2>2. CASE call[t].id = c
    <3>1. InFlight(c) = {t}
      BY <2>0, <2>1, <2>2 DEF InFlight, Serial
    <3>2. clients'[c] # NoSocket <=> call[t].op = "addClient"
      BY <2>0, <2>2, ConstantsAssumption DEF MapAfter, Requests, Maps
    <3>3. (RowAfter(call[t]) = AppServerName)' <=> call[t].op = "addClient"
      BY <2>0, RowNamesHost DEF RowAfter
    <3> QED BY <2>0, <2>1, <3>1, <3>2, <3>3 DEF Serial
  <2>3. CASE call[t].id # c
    <3>1. clients'[c] = clients[c]
      BY <2>0, <2>3 DEF MapAfter, Maps
    <3>2. \A u \in InFlight(c) : pc'[u] = pc[u]
      BY <2>0, <2>3 DEF InFlight
    <3> QED BY <2>0, <2>1, <3>1, <3>2, SerialUndisturbed
  <2> QED BY <2>2, <2>3
<1>5. ASSUME NEW t \in Threads, Clear(t) PROVE Serial(c)'
  <2>1. InFlight(c)' = InFlight(c)
    BY <1>5 DEF Clear, InFlight
  <2>2. \A u \in Threads : pc'[u] = pc[u] \/ (pc[u] = "unlock" /\ pc'[u] = "query")
    BY <1>5 DEF Clear
  <2> QED BY <1>5, <2>1, <2>2, SerialUndisturbed DEF Clear, SerialInv, InFlight
<1>6. ASSUME NEW t \in Threads, ExecuteQuery(t) PROVE Serial(c)'
  <2>0. /\ pc[t] = "query" /\ pc' = [pc EXCEPT ![t] = "return"]
        /\ call[t] \in Requests /\ UNCHANGED <<clients, call>>
    BY <1>6 DEF ExecuteQuery
  <2>1. InFlight(c)' = InFlight(c) /\ c \notin tainted /\ Serial(c)
    BY <1>6, <2>0 DEF InFlight, SerialInv, ExecuteQuery
  <2>2. CASE call[t].id = c
    <3>1. vehicles'[c] = RowAfter(call[t])
      BY <1>6, <2>2 DEF ExecuteQuery
    <3>2. InFlight(c) = {t}
      BY <2>0, <2>1, <2>2 DEF InFlight, Serial
    <3> QED BY <2>0, <2>1, <3>1, <3>2 DEF Serial, Agree
  <2>3. CASE call[t].id # c
    <3>1. vehicles'[c] = vehicles[c]
      BY <1>6, <2>3 DEF ExecuteQuery
    <3>2. \A u \in InFlight(c) : pc'[u] = pc[u]
      BY <2>0, <2>3 DEF InFlight
    <3> QED BY <2>0, <2>1, <3>1, <3>2, SerialUndisturbed
  <2> QED BY <2>2, <2>3
<1>7. ASSUME NEW t \in Threads, Leave(t) PROVE Serial(c)'
  <2>0. /\ pc[t] = "return" /\ pc' = [pc EXCEPT ![t] = "idle"]
        /\ call' = [call EXCEPT ![t] = NoCall]
        /\ UNCHANGED <<clients, vehicles, tainted>>
    BY <1>7 DEF Leave
  <2>1. Serial(c)
    BY <2>0 DEF SerialInv
  <2>2. CASE call[t].id = c
    <3>1. InFlight(c) = {t}
      BY <2>0, <2>1, <2>2 DEF InFlight, Serial
    <3>2. InFlight(c)' = {}
      BY <2>0, <3>1 DEF InFlight
    <3> QED BY <2>0, <2>1, <3>1, <3>2 DEF Serial, Agree
  <2>3. CASE call[t].id # c
    <3>1. InFlight(c)' = InFlight(c) /\ t \notin InFlight(c)
      BY <2>0, <2>3 DEF InFlight
    <3> QED BY <2>0, <2>1, <3>1, SerialUndisturbed DEF InFlight
  <2> QED BY <2>2, <2>3
<1>8. CASE UNCHANGED registryVars
  <2>1. InFlight(c)' = InFlight(c)
    BY <1>8 DEF registryVars, InFlight
  <2> QED BY <1>8, <2>1, SerialUndisturbed DEF registryVars, SerialInv
<1> QED
  BY <1>1, <1>2, <1>3, <1>4, <1>5, <1>6, <1>7, <1>8 DEF RegistryNext, Inside

\* AgreementWhenSerial: with its calls one at a time and no failed query, a
\* vehicle's entry and its row agree (WebSocketComponents.h:19-49).
THEOREM SerialCallsAgree == RegistrySpec => []AgreementWhenSerial
<1>1. SerialInv => AgreementWhenSerial
  BY DEF SerialInv, Serial, AgreementWhenSerial
<1> QED
  BY <1>1, RegistryInvInit, RegistryInvStep, SerialInit, SerialStep, PTL DEF RegistrySpec
=============================================================================
