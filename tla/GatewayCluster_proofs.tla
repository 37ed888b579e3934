------------------------ MODULE GatewayCluster_proofs ------------------------
(***************************************************************************)
(* Proofs about the gateways that share the vehicle table, for every number*)
(* of gateways, vehicles and connections: a gateway that has lost its last *)
(* connection of a vehicle is not named by its row, and a sole connection  *)
(* is found from the table, also after gateways have died.                 *)
(***************************************************************************)
EXTENDS GatewayCluster, TLAPS

LEMMA ClusterCases ==
  ASSUME [ClusterNext]_clusterVars
  PROVE  \/ \E s \in Sockets : \/ OnAfterCreate(s) \/ OnClose(s) \/ ReadFails(s)
                               \/ OnBeforeDestroy(s) \/ Store(s) \/ Record(s) \/ Return(s)
         \/ \E h \in Hosts : Crash(h)
         \/ UNCHANGED clusterVars
  BY DEF ClusterNext, Step

LEMMA ClusterTypeInit == ClusterInit => ClusterTypeOK
  BY DEF ClusterInit, ClusterTypeOK, EntryValues, RowValues, States, Phases

\* A gateway writes its own name, no name or "NA".
LEMMA RowAfterType ==
  ASSUME ClusterTypeOK, NEW s \in Sockets
  PROVE  /\ RowAfter(s) \in RowValues
         /\ RowAfter(s) \in {hostOf[s], EmptyName, NA}
  BY DEF ClusterTypeOK, RowAfter, RowValues, NamesOf

(***************************************************************************)
(* A call is under way exactly in the states that wait for one.            *)
(***************************************************************************)
Calling == {"creating", "closing", "destroying"}

PhaseInv == \A s \in Sockets : phase[s] # "idle" <=> state[s] \in Calling

LEMMA PhaseInit == ClusterInit => PhaseInv
  BY DEF ClusterInit, PhaseInv, Calling

LEMMA ClusterTypeStep ==
  ClusterTypeOK /\ PhaseInv /\ [ClusterNext]_clusterVars => ClusterTypeOK' /\ PhaseInv'
<1> SUFFICES ASSUME ClusterTypeOK, PhaseInv, [ClusterNext]_clusterVars
             PROVE  ClusterTypeOK' /\ PhaseInv'
  OBVIOUS
<1> USE DEF ClusterTypeOK, PhaseInv, Calling, Become, Advance, Calls, States, Phases
<1>1. ASSUME NEW s \in Sockets, OnAfterCreate(s) PROVE ClusterTypeOK' /\ PhaseInv'
  BY <1>1 DEF OnAfterCreate
<1>2. ASSUME NEW s \in Sockets, OnClose(s) PROVE ClusterTypeOK' /\ PhaseInv'
  BY <1>2 DEF OnClose
<1>3. ASSUME NEW s \in Sockets, ReadFails(s) PROVE ClusterTypeOK' /\ PhaseInv'
  BY <1>3 DEF ReadFails
<1>4. ASSUME NEW s \in Sockets, OnBeforeDestroy(s) PROVE ClusterTypeOK' /\ PhaseInv'
  BY <1>4 DEF OnBeforeDestroy
<1>5. ASSUME NEW s \in Sockets, Store(s) PROVE ClusterTypeOK' /\ PhaseInv'
  <2>1. entry' \in [Hosts -> [ClientIds -> EntryValues]]
    BY <1>5 DEF Store, EntryValues
  <2> QED BY <1>5, <2>1 DEF Store
<1>6. ASSUME NEW s \in Sockets, Record(s) PROVE ClusterTypeOK' /\ PhaseInv'
  <2>1. row' \in [ClientIds -> RowValues]
    BY <1>6, RowAfterType DEF Record
  <2> QED BY <1>6, <2>1 DEF Record
<1>7. ASSUME NEW s \in Sockets, Return(s) PROVE ClusterTypeOK' /\ PhaseInv'
  <2>1. state[s] \in Calling /\ AfterCall(state[s]) \in States \ Calling
    BY <1>7 DEF Return, AfterCall
  <2> QED BY <1>7, <2>1 DEF Return
<1>8. ASSUME NEW h \in Hosts, Crash(h) PROVE ClusterTypeOK' /\ PhaseInv'
  <2>1. entry' \in [Hosts -> [ClientIds -> EntryValues]]
    BY <1>8 DEF Crash, EntryValues
  <2>2. name' \in [Hosts -> Hosts \cup {EmptyName}] /\ \A g \in Hosts : name'[g] \in NamesOf(g)
    BY <1>8 DEF Crash, NamesOf
  <2>3. /\ state' \in [Sockets -> States] /\ phase' \in [Sockets -> Phases]
        /\ \A s \in Sockets : phase'[s] # "idle" <=> state'[s] \in Calling
    BY <1>8 DEF Crash
  <2> QED BY <1>8, <2>1, <2>2, <2>3 DEF Crash
<1>9. CASE UNCHANGED clusterVars
  BY <1>9 DEF clusterVars
<1> QED BY <1>1, <1>2, <1>3, <1>4, <1>5, <1>6, <1>7, <1>8, <1>9, ClusterCases

ClusterInv == ClusterTypeOK /\ PhaseInv

\* ClusterTypeOK holds of any gateways (WebSocketComponents.h:19-40).
THEOREM ClusterTypeCorrect == ClusterSpec => []ClusterTypeOK
  BY ClusterTypeInit, PhaseInit, ClusterTypeStep, PTL DEF ClusterSpec
-----------------------------------------------------------------------------
(***************************************************************************)
(* The row of a vehicle that has left a gateway.  As long as the row names *)
(* the gateway, one of its connections owes the query that overwrites it;  *)
(* no other gateway, dead or alive, ever writes this one's name.           *)
(***************************************************************************)
Owes(s) == \/ state[s] \in {"creating", "listening", "closing", "ended"}
           \/ state[s] = "destroying" /\ phase[s] \in {"called", "stored"}

FormerInv ==
    \A h \in Hosts, c \in ClientIds \ failed :
        HadOf(h, c) # {} /\ row[c] = h => \E s \in HadOf(h, c) : Owes(s)

LEMMA FormerInit == ClusterInit => FormerInv
  BY DEF ClusterInit, FormerInv, HadOf

\* A step of one socket that writes no row keeps what is owed.
LEMMA FormerQuiet ==
  ASSUME ClusterInv, FormerInv, NEW s \in Sockets,
         UNCHANGED <<row, hostOf, idOf, failed>>,
         \A u \in Sockets \ {s} : state'[u] = state[u] /\ phase'[u] = phase[u],
         state'[s] \notin {"none", "lost"},
         state[s] = "none" \/ Owes(s) => Owes(s)',
         state[s] # "lost"
  PROVE  FormerInv'
<1> SUFFICES ASSUME NEW h \in Hosts, NEW c \in ClientIds, c \notin failed',
                    HadOf(h, c)' # {}, row'[c] = h
             PROVE  \E u \in Sockets : (u \in HadOf(h, c) /\ Owes(u))'
  BY DEF FormerInv, HadOf
<1>1. CASE hostOf[s] = h /\ idOf[s] = c /\ state[s] = "none"
  BY <1>1 DEF HadOf
<1>2. CASE ~(hostOf[s] = h /\ idOf[s] = c /\ state[s] = "none")
  <2>1. HadOf(h, c) # {}
    BY <1>2 DEF HadOf
  <2>2. PICK u \in HadOf(h, c) : Owes(u)
    BY <2>1 DEF FormerInv
  <2>3. u \in HadOf(h, c)'
    BY <2>2 DEF HadOf
  <2>4. Owes(u)'
    BY <2>2 DEF HadOf, Owes
  <2> QED BY <2>3, <2>4 DEF HadOf
<1> QED BY <1>1, <1>2

LEMMA FormerStep ==
  ClusterInv /\ FormerInv /\ [ClusterNext]_clusterVars => FormerInv'
<1> SUFFICES ASSUME ClusterInv, FormerInv, [ClusterNext]_clusterVars
             PROVE  FormerInv'
  OBVIOUS
<1> USE DEF ClusterInv, ClusterTypeOK, Become, Advance, Calls
<1>1. ASSUME NEW s \in Sockets, OnAfterCreate(s) PROVE FormerInv'
  BY <1>1, FormerQuiet DEF OnAfterCreate, Owes
<1>2. ASSUME NEW s \in Sockets, OnClose(s) PROVE FormerInv'
  BY <1>2, FormerQuiet DEF OnClose, Owes
<1>3. ASSUME NEW s \in Sockets, ReadFails(s) PROVE FormerInv'
  BY <1>3, FormerQuiet DEF ReadFails, Owes
<1>4. ASSUME NEW s \in Sockets, OnBeforeDestroy(s) PROVE FormerInv'
  BY <1>4, FormerQuiet DEF OnBeforeDestroy, Owes
<1>5. ASSUME NEW s \in Sockets, Store(s) PROVE FormerInv'
  BY <1>5, FormerQuiet DEF Store, Owes, PhaseInv, Calling
<1>6. ASSUME NEW s \in Sockets, Record(s) PROVE FormerInv'
  <2> SUFFICES ASSUME NEW h \in Hosts, NEW c \in ClientIds, c \notin failed',
                      HadOf(h, c)' # {}, row'[c] = h
               PROVE  \E u \in Sockets : (u \in HadOf(h, c) /\ Owes(u))'
    BY DEF FormerInv, HadOf
  <2>0. /\ UNCHANGED <<state, hostOf, idOf>> /\ failed \subseteq failed'
        /\ phase[s] = "stored" /\ phase' = [phase EXCEPT ![s] = "recorded"]
        /\ idOf[s] \notin failed' => row' = [row EXCEPT ![idOf[s]] = RowAfter(s)]
        /\ idOf[s] # c => row'[c] = row[c]
    BY <1>6 DEF Record
  <2>1. CASE idOf[s] = c
    \* the row names h: s is new, and one of h's own connections
    <3>1. RowAfter(s) = h
      BY <2>0, <2>1
    <3>2. state[s] = "creating" /\ hostOf[s] = h
      BY <3>1, RowAfterType, ClusterAssumption DEF RowAfter, NamesOf
    <3> QED BY <2>0, <2>1, <3>2 DEF HadOf, Owes
  <2>2. CASE idOf[s] # c
    <3>1. PICK u \in HadOf(h, c) : Owes(u)
      BY <2>0, <2>2 DEF FormerInv, HadOf
    <3>2. u \in Sockets \ {s}
      BY <2>2, <3>1 DEF HadOf
    <3>3. (u \in HadOf(h, c))' /\ Owes(u)'
      BY <2>0, <3>1, <3>2 DEF HadOf, Owes
    <3> QED BY <3>2, <3>3
  <2> QED BY <2>1, <2>2
<1>7. ASSUME NEW s \in Sockets, Return(s) PROVE FormerInv'
  <2>1. /\ phase[s] = "recorded" /\ state[s] \in Calling
        /\ state' = [state EXCEPT ![s] = AfterCall(state[s])]
        /\ phase' = [phase EXCEPT ![s] = "idle"]
    BY <1>7 DEF Return, PhaseInv
  <2>2. /\ state'[s] \in {"listening", "ended", "destroyed"}
        /\ state'[s] = "destroyed" => state[s] = "destroying"
    BY <2>1 DEF AfterCall, Calling
  <2>3. state[s] = "none" \/ Owes(s) => Owes(s)'
    BY <2>1, <2>2 DEF Owes, Calling
  <2>4. UNCHANGED <<row, hostOf, idOf, failed>>
    BY <1>7 DEF Return
  <2>5. /\ \A u \in Sockets \ {s} : state'[u] = state[u] /\ phase'[u] = phase[u]
        /\ state[s] # "lost" /\ state'[s] \notin {"none", "lost"}
    BY <2>1, <2>2 DEF Calling
  <2> QED BY <2>3, <2>4, <2>5, FormerQuiet
<1>8. ASSUME NEW g \in Hosts, Crash(g) PROVE FormerInv'
  <2> SUFFICES ASSUME NEW h \in Hosts, NEW c \in ClientIds, c \notin failed',
                      HadOf(h, c)' # {}, row'[c] = h
               PROVE  \E u \in Sockets : (u \in HadOf(h, c) /\ Owes(u))'
    BY DEF FormerInv, HadOf
  <2>1. /\ UNCHANGED <<hostOf, idOf, failed>>
        /\ \A u \in Sockets : hostOf[u] # g => state'[u] = state[u] /\ phase'[u] = phase[u]
        /\ \A u \in Sockets : hostOf[u] = g => state'[u] \in {"none", "lost"}
        /\ row'[c] = row[c] \/ \E u \in Sockets : hostOf[u] = g /\ row'[c] = RowAfter(u)
    BY <1>8 DEF Crash
  <2>2. h # g
    BY <2>1 DEF HadOf
  <2>3. row[c] = h
    BY <2>1, <2>2, RowAfterType, ClusterAssumption
  <2>4. PICK u \in HadOf(h, c) : Owes(u)
    BY <2>1, <2>2, <2>3 DEF FormerInv, HadOf
  <2> QED BY <2>1, <2>2, <2>4 DEF HadOf, Owes
<1>9. CASE UNCHANGED clusterVars
  BY <1>9 DEF clusterVars, FormerInv, HadOf, Owes
<1> QED BY <1>1, <1>2, <1>3, <1>4, <1>5, <1>6, <1>7, <1>8, <1>9, ClusterCases

\* RowNamesNoFormerHost: the row of a vehicle does not name a gateway that has
\* destroyed all its connections of the vehicle, for any number of gateways
\* and whatever they do (ScyllaDBManager.h:143).
THEOREM FormerHostIsNotNamed == ClusterSpec => []RowNamesNoFormerHost
<1>1. FormerInv => RowNamesNoFormerHost
  BY DEF FormerInv, RowNamesNoFormerHost, Owes, HadOf
<1> QED
  BY <1>1, ClusterTypeInit, PhaseInit, ClusterTypeStep, FormerInit, FormerStep, PTL
     DEF ClusterSpec, ClusterInv
-----------------------------------------------------------------------------
(***************************************************************************)
(* The sole connection of a vehicle.  Two that live together are both      *)
(* contested, so nobody but the connection itself, and no statement that a *)
(* dying gateway leaves behind, writes its entry or its row.               *)
(***************************************************************************)
SoleInv ==
    /\ \A s, u \in Sockets :
         s # u /\ state[s] \in Alive /\ state[u] \in Alive /\ idOf[s] = idOf[u]
           => s \in contested
    /\ \A s \in Sockets \ contested : idOf[s] \notin failed =>
         /\ state[s] = "listening" \/ (state[s] = "creating" /\ phase[s] \in {"stored", "recorded"})
              => entry[hostOf[s]][idOf[s]] = s
         /\ state[s] = "listening" \/ (state[s] = "creating" /\ phase[s] = "recorded")
              => row[idOf[s]] = name[hostOf[s]]

LEMMA SoleInit == ClusterInit => SoleInv
  BY DEF ClusterInit, SoleInv, Alive

LEMMA SoleStep ==
  ClusterInv /\ SoleInv /\ [ClusterNext]_clusterVars => SoleInv'
<1> SUFFICES ASSUME ClusterInv, SoleInv, [ClusterNext]_clusterVars
             PROVE  SoleInv'
  OBVIOUS
<1> USE DEF ClusterInv, ClusterTypeOK, Become, Advance, Calls
<1>0. \A s \in Sockets : phase[s] # "idle" => state[s] \in Alive
  BY DEF PhaseInv, Calling, Alive
<1>1. ASSUME NEW s \in Sockets, OnAfterCreate(s) PROVE SoleInv'
  <2>1. /\ contested \subseteq contested'
        /\ \A u \in Sockets : state[u] \in Alive /\ idOf[u] = idOf[s]
             => {s, u} \subseteq contested'
    BY <1>1 DEF OnAfterCreate
  <2> QED BY <1>1, <2>1 DEF OnAfterCreate, SoleInv, Alive
<1>2. ASSUME NEW s \in Sockets, OnClose(s) PROVE SoleInv'
  BY <1>2 DEF OnClose, SoleInv, Alive
<1>3. ASSUME NEW s \in Sockets, ReadFails(s) PROVE SoleInv'
  BY <1>3 DEF ReadFails, SoleInv, Alive
<1>4. ASSUME NEW s \in Sockets, OnBeforeDestroy(s) PROVE SoleInv'
  BY <1>4 DEF OnBeforeDestroy, SoleInv, Alive
<1>5. ASSUME NEW s \in Sockets, Store(s) PROVE SoleInv'
  <2>1. state[s] \in Alive /\ UNCHANGED <<row, name, state, hostOf, idOf, failed, contested>>
    BY <1>0, <1>5 DEF Store
  <2>2. ASSUME NEW u \in Sockets \ contested, u # s, state[u] \in Alive
        PROVE  entry'[hostOf[u]][idOf[u]] = entry[hostOf[u]][idOf[u]] /\ phase'[u] = phase[u]
    <3>1. idOf[u] # idOf[s]
      BY <2>1, <2>2 DEF SoleInv
    <3> QED BY <1>5, <3>1 DEF Store
  <2>3. state[s] = "creating" => entry'[hostOf[s]][idOf[s]] = s
    BY <1>5 DEF Store
  <2>4. phase'[s] = "stored" /\ state[s] # "listening"
    BY <1>5 DEF Store, PhaseInv, Calling
  <2> QED BY <2>1, <2>2, <2>3, <2>4 DEF SoleInv, Alive
<1>6. ASSUME NEW s \in Sockets, Record(s) PROVE SoleInv'
  <2>1. /\ state[s] \in Alive /\ UNCHANGED <<entry, name, state, hostOf, idOf, contested>>
        /\ failed \subseteq failed'
    BY <1>0, <1>6 DEF Record
  <2>2. ASSUME NEW u \in Sockets \ contested, u # s, state[u] \in Alive
        PROVE  row'[idOf[u]] = row[idOf[u]] /\ phase'[u] = phase[u]
    <3>1. idOf[u] # idOf[s]
      BY <2>1, <2>2 DEF SoleInv
    <3> QED BY <1>6, <3>1 DEF Record
  <2>3. state[s] = "creating" /\ idOf[s] \notin failed' => row'[idOf[s]] = name[hostOf[s]]
    BY <1>6 DEF Record, RowAfter
  <2>4. phase[s] = "stored" /\ phase'[s] = "recorded" /\ state[s] # "listening"
    BY <1>6 DEF Record, PhaseInv, Calling
  <2> QED BY <2>1, <2>2, <2>3, <2>4 DEF SoleInv, Alive
<1>7. ASSUME NEW s \in Sockets, Return(s) PROVE SoleInv'
  <2>1. /\ phase[s] = "recorded" /\ state[s] \in Calling
        /\ \A u \in Sockets \ {s} : state'[u] = state[u] /\ phase'[u] = phase[u]
        /\ state'[s] = AfterCall(state[s])
        /\ UNCHANGED <<entry, row, name, hostOf, idOf, failed, contested>>
    BY <1>7 DEF Return, PhaseInv
  <2>2. /\ state'[s] \in {"listening", "ended", "destroyed"} /\ state[s] \in Alive
        /\ state'[s] = "listening" <=> state[s] = "creating"
    BY <2>1 DEF AfterCall, Calling, Alive
  <2>3. \A u \in Sockets : state'[u] \in Alive => state[u] \in Alive
    BY <2>1, <2>2
  <2>4. ASSUME NEW u \in Sockets, state'[u] \in {"creating", "listening"}
        PROVE  \/ state[u] = state'[u] /\ phase[u] = phase'[u]
               \/ state[u] = "creating" /\ phase[u] = "recorded"
    BY <2>1, <2>2, <2>4
  <2> QED BY <2>1, <2>3, <2>4 DEF SoleInv
<1>8. ASSUME NEW g \in Hosts, Crash(g) PROVE SoleInv'
  <2>1. /\ UNCHANGED <<hostOf, idOf, failed, contested>>
        /\ \A u \in Sockets : hostOf[u] # g => state'[u] = state[u] /\ phase'[u] = phase[u]
        /\ \A u \in Sockets : hostOf[u] = g => state'[u] \notin Alive
        /\ \A h \in Hosts \ {g} : entry'[h] = entry[h] /\ name'[h] = name[h]
    BY <1>8 DEF Crash, Alive
  <2>2. ASSUME NEW u \in Sockets \ contested, state'[u] \in Alive
        PROVE  /\ state'[u] = state[u] /\ phase'[u] = phase[u]
               /\ entry'[hostOf[u]] = entry[hostOf[u]] /\ name'[hostOf[u]] = name[hostOf[u]]
               /\ row'[idOf[u]] = row[idOf[u]]
    <3>1. hostOf[u] # g
      BY <2>1, <2>2
    <3>2. \A s \in Sockets : hostOf[s] = g /\ phase[s] = "stored" => idOf[s] # idOf[u]
      BY <1>0, <2>1, <2>2, <3>1 DEF SoleInv
    <3>3. row'[idOf[u]] = row[idOf[u]]
      BY <1>8, <3>2 DEF Crash
    <3> QED BY <2>1, <3>1, <3>3
  <2>3. \A u \in Sockets : state'[u] \in Alive => state[u] \in Alive
    BY <2>1
  <2> QED BY <2>1, <2>2, <2>3 DEF SoleInv, Alive
<1>9. CASE UNCHANGED clusterVars
  BY <1>9 DEF clusterVars, SoleInv
<1> QED BY <1>1, <1>2, <1>3, <1>4, <1>5, <1>6, <1>7, <1>8, <1>9, ClusterCases

\* SoleConnectionIsFound: the row of a vehicle with one connection at a time
\* names its gateway, whose map leads to it, for any number of gateways and
\* crashes (WebSocketComponents.h:19-26).
THEOREM SoleIsFound == ClusterSpec => []SoleConnectionIsFound
<1>1. SoleInv => SoleConnectionIsFound
  BY DEF SoleInv, SoleConnectionIsFound
<1> QED
  BY <1>1, ClusterTypeInit, PhaseInit, ClusterTypeStep, SoleInit, SoleStep, PTL
     DEF ClusterSpec, ClusterInv
-----------------------------------------------------------------------------
(***************************************************************************)
(* Entries.  EntryLeadsToConnection is inductive as it stands, given that  *)
(* a call is under way exactly in the states that wait for one.            *)
(***************************************************************************)
LEMMA EntryInit == ClusterInit => EntryLeadsToConnection
  BY DEF ClusterInit, EntryLeadsToConnection

Leads(h, c) ==
    LET s == entry[h][c]
    IN  /\ hostOf[s] = h /\ idOf[s] = c
        /\ state[s] \in Alive
        /\ state[s] \in {"closing", "destroying"} => phase[s] = "called"

LEMMA EntryStep ==
  ClusterInv /\ EntryLeadsToConnection /\ [ClusterNext]_clusterVars => EntryLeadsToConnection'
<1> SUFFICES ASSUME ClusterInv, EntryLeadsToConnection, [ClusterNext]_clusterVars,
                    NEW h \in Hosts, NEW c \in ClientIds, entry'[h][c] # NoSocket
             PROVE  Leads(h, c)'
  BY DEF EntryLeadsToConnection, Leads
<1> DEFINE r == entry[h][c]
<1>0. /\ r \in EntryValues
      /\ r # NoSocket => /\ r \in Sockets /\ hostOf[r] = h /\ idOf[r] = c /\ state[r] \in Alive
                         /\ state[r] \in {"closing", "destroying"} => phase[r] = "called"
  BY DEF ClusterInv, ClusterTypeOK, EntryLeadsToConnection, EntryValues
<1> HIDE DEF r
<1> USE DEF ClusterInv, ClusterTypeOK, Become, Advance, Calls
<1>1. ASSUME NEW s \in Sockets, OnAfterCreate(s) \/ OnClose(s) \/ OnBeforeDestroy(s) \/ ReadFails(s)
      PROVE  /\ UNCHANGED <<entry, hostOf, idOf>> /\ state'[r] \in Alive
             /\ \/ state'[r] = state[r] /\ phase'[r] = phase[r]
                \/ phase'[r] = "called" \/ state'[r] = "ended"
  <2>1. UNCHANGED <<entry, hostOf, idOf>> /\ r \in Sockets /\ state[r] \in Alive
    BY <1>0, <1>1 DEF OnAfterCreate, OnClose, OnBeforeDestroy, ReadFails, r
  <2> QED BY <1>1, <2>1 DEF OnAfterCreate, OnClose, OnBeforeDestroy, ReadFails, Alive
<1>2. ASSUME NEW s \in Sockets, Store(s)
      PROVE  Leads(h, c)'
  <2>1. /\ UNCHANGED <<state, hostOf, idOf>> /\ phase' = [phase EXCEPT ![s] = "stored"]
        /\ state[s] \in Calling
    BY <1>2 DEF Store, PhaseInv
  <2>2. CASE hostOf[s] = h /\ idOf[s] = c
    \* the entry is there because s has just put itself into it
    <3>1. state[s] = "creating" /\ entry'[h][c] = s
      BY <1>2, <2>2 DEF Store
    <3> QED BY <2>1, <2>2, <3>1 DEF Alive, Leads
  <2>3. CASE ~(hostOf[s] = h /\ idOf[s] = c)
    <3>1. entry'[h][c] = r
      BY <1>2, <2>3 DEF Store, r
    <3>2. r # s /\ r \in Sockets
      BY <1>0, <2>3, <3>1
    <3> QED BY <1>0, <2>1, <3>1, <3>2 DEF Leads
  <2> QED BY <2>2, <2>3
<1>3. ASSUME NEW s \in Sockets, Record(s)
      PROVE  /\ UNCHANGED <<entry, hostOf, idOf, state>>
             /\ state[r] \in {"closing", "destroying"} => phase'[r] = phase[r]
  <2>1. UNCHANGED <<entry, hostOf, idOf, state>> /\ phase[s] = "stored" /\ r \in Sockets
    BY <1>0, <1>3 DEF Record, r
  <2> QED BY <1>0, <1>3, <2>1 DEF Record, r
<1>4. ASSUME NEW s \in Sockets, Return(s)
      PROVE  /\ UNCHANGED <<entry, hostOf, idOf>> /\ state'[r] \in Alive
             /\ (state'[r] = state[r] /\ phase'[r] = phase[r]) \/ state'[r] = "listening"
  <2>1. /\ UNCHANGED <<entry, hostOf, idOf>> /\ phase[s] = "recorded" /\ r \in Sockets
        /\ state[r] \in Alive
        /\ state[r] \in {"closing", "destroying"} => phase[r] = "called"
    BY <1>0, <1>4 DEF Return, r
  <2>2. r = s => state[s] = "creating"
    BY <2>1 DEF PhaseInv, Calling, Alive
  <2>3. CASE r = s
    <3>1. AfterCall("creating") = "listening"
      BY DEF AfterCall
    <3> QED BY <1>4, <2>1, <2>2, <2>3, <3>1 DEF Return, Alive
  <2>4. CASE r # s
    <3> DEFINE next == AfterCall(state[s])
    <3>1. state' = [state EXCEPT ![s] = next] /\ phase' = [phase EXCEPT ![s] = "idle"]
      BY <1>4 DEF Return
    <3> HIDE DEF next
    <3>2. state'[r] = state[r] /\ phase'[r] = phase[r]
      BY <2>1, <2>4, <3>1
    <3> QED BY <2>1, <3>2
  <2> QED BY <2>3, <2>4
<1>5. ASSUME NEW g \in Hosts, Crash(g)
      PROVE  /\ UNCHANGED <<hostOf, idOf>> /\ entry'[h][c] = r /\ r # NoSocket
             /\ state'[r] = state[r] /\ phase'[r] = phase[r]
  <2>1. g # h /\ entry'[h][c] = r /\ r # NoSocket /\ UNCHANGED <<hostOf, idOf>>
    BY <1>5 DEF Crash, r
  <2> QED BY <1>0, <1>5, <2>1 DEF Crash
<1>6. CASE UNCHANGED clusterVars
  BY <1>0, <1>6 DEF clusterVars, r, Leads
<1> HIDE DEF ClusterInv, ClusterTypeOK, Become, Advance, Calls
<1>7. ASSUME UNCHANGED <<hostOf, idOf>>, entry'[h][c] = r, state'[r] \in Alive,
             \/ state'[r] = state[r] /\ phase'[r] = phase[r]
             \/ phase'[r] = "called" \/ state'[r] \in {"ended", "listening"}
      PROVE  Leads(h, c)'
  BY <1>0, <1>7 DEF Leads
<1>8. ASSUME NEW s \in Sockets, Record(s)
      PROVE  Leads(h, c)'
  BY <1>0, <1>3, <1>8 DEF r, Leads
<1> QED BY <1>0, <1>1, <1>2, <1>4, <1>5, <1>6, <1>7, <1>8, ClusterCases DEF r

\* EntryLeadsToConnection: at every gateway an entry leads to a living
\* connection of that gateway, for any number of gateways, moves and crashes
\* (WebSocketListener.cpp:208).
THEOREM EntriesLeadToConnections == ClusterSpec => []EntryLeadsToConnection
  BY ClusterTypeInit, PhaseInit, ClusterTypeStep, EntryInit, EntryStep, PTL
     DEF ClusterSpec, ClusterInv
=============================================================================
