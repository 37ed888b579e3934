---------------------------- MODULE ClientTable ----------------------------
(***************************************************************************)
(* What WebSocketComponent promises its callers, with no lock in sight:    *)
(* every call stores its effect in the client map in ONE step, touching    *)
(* the entry of its own client only, and later records it in the vehicle   *)
(* table.  The two effects of a call are separate steps: the promise does  *)
(* not include that map and table change together.                         *)
(***************************************************************************)
CONSTANTS Threads, ClientIds, Sockets, NoSocket,
          AppServerName, NA, NoRow, NoCall

VARIABLES clients,   \* client id -> socket, or NoSocket
          vehicles,  \* client id -> host column of its row, or NoRow
          phase,     \* what each thread's call has done so far
          call       \* the call each thread is making

vars == <<clients, vehicles, phase, call>>

Operations == {"addClient", "setClientNotAvailable", "removeClient"}
Requests   == [op : Operations, id : ClientIds, sock : Sockets]
RowValues  == {AppServerName, NA, NoRow}

EntryAfter(r) == IF r.op = "addClient" THEN r.sock ELSE NoSocket

RowAfter(r) == CASE r.op = "addClient"             -> AppServerName
                 [] r.op = "setClientNotAvailable" -> NA
                 [] r.op = "removeClient"          -> NoRow

Init == /\ clients = [c \in ClientIds |-> NoSocket]
        /\ vehicles \in [ClientIds -> RowValues]
        /\ phase = [t \in Threads |-> "idle"]
        /\ call = [t \in Threads |-> NoCall]

Move(t, from, to) == phase[t] = from /\ phase' = [phase EXCEPT ![t] = to]

Call(t, r) == /\ Move(t, "idle", "called")
              /\ call' = [call EXCEPT ![t] = r]
              /\ UNCHANGED <<clients, vehicles>>

Store(t) == /\ Move(t, "called", "stored")
            /\ clients' = [clients EXCEPT ![call[t].id] = EntryAfter(call[t])]
            /\ UNCHANGED <<vehicles, call>>

\* A failed query may or may not have reached the table.
Record(t) == /\ Move(t, "stored", "recorded")
             /\ \/ vehicles' = [vehicles EXCEPT ![call[t].id] = RowAfter(call[t])]
                \/ UNCHANGED vehicles
             /\ UNCHANGED <<clients, call>>

Return(t) == /\ Move(t, "recorded", "idle")
             /\ call' = [call EXCEPT ![t] = NoCall]
             /\ UNCHANGED <<clients, vehicles>>

Next == \E t \in Threads : \/ \E r \in Requests : Call(t, r)
                           \/ Store(t)
                           \/ Record(t)
                           \/ Return(t)

Spec == Init /\ [][Next]_vars
=============================================================================
