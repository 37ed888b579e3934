-------------------------- MODULE MessagePipeline --------------------------
(***************************************************************************)
(* What becomes of a message: WebSocketListener collects its frames        *)
(* (src/websocket/WebSocketListener.cpp), a coroutine on the one ioThread  *)
(* turns it into an HTTP request to the application server and waits for   *)
(* the answer (src/utilis/boostBeastClient.h), and a coroutine of the      *)
(* executor writes the answer back to the socket.                          *)
(*                                                                         *)
(* One thread at a time reads a socket, but every answer is written by a   *)
(* coroutine of its own, as is the pong by the reader, and a frame is      *)
(* written in parts.  The HTTP coroutine holds REFERENCES to members of    *)
(* the listener, which lives as long as its socket.                        *)
(*                                                                         *)
(* The TCP connection under a socket lives on while anyone holds the       *)
(* socket, also when its coroutine has ended; writes have no timeout.      *)
(*                                                                         *)
(* Text is abstracted to where it came from: a buffer is the set of the    *)
(* vehicle's messages (counted from 1) that its frames belong to.          *)
(***************************************************************************)
EXTENDS Naturals, Sequences, FiniteSets

CONSTANTS
    Sockets,      \* the connections
    MaxMessages,  \* bound: messages, over all sockets
    MaxPings,     \* bound: pings, over all sockets
    Draws,        \* the random numbers drawn
    Configured    \* the last digit of WSS_HTTP_REQUEST_PORT

ASSUME PipelineAssumption ==
    /\ MaxMessages \in Nat /\ MaxPings \in Nat
    /\ Draws \subseteq Nat \ {0}
    /\ Configured \in 0..9

VARIABLES
    conn,       \* per socket: "none", "open", "closed" (its coroutine destroyed)
    link,       \* per socket: "up", "stalled" (its vehicle takes in no more), "broken"
    mapped,     \* sockets that the client map holds
    freed,      \* sockets deleted, each with its listener
    buffer,     \* per listener: m_messageBuffer
    port,       \* per listener: last digit of http_server_port_
    pong,       \* sockets whose reader is halfway through a pong
    pings,      \* number of pings so far
    tasks,      \* the messages dispatched, in that order
    out,        \* per socket: the parts of frames written to it
    pipelined   \* history: sockets whose vehicle did not wait for an answer

vars == <<conn, link, mapped, freed, buffer, port, pong, pings, tasks, out, pipelined>>

TaskIds == 1..MaxMessages
Timed   == {"connecting", "writing", "reading"}
InHttp  == {"spawned", "resolving"} \cup Timed
Stages  == InHttp \cup {"answered", "queued", "sending", "done"}

TasksOf(s)    == {i \in DOMAIN tasks : tasks[i].sock = s}
Unanswered(s) == {i \in TasksOf(s) : tasks[i].stage # "done"}

Init ==
    /\ conn = [s \in Sockets |-> "none"]
    /\ link = [s \in Sockets |-> "up"]
    /\ mapped = {} /\ freed = {}
    /\ buffer = [s \in Sockets |-> {}]
    /\ port = [s \in Sockets |-> Configured]
    /\ pong = {} /\ pings = 0
    /\ tasks = <<>>
    /\ out = [s \in Sockets |-> <<>>]
    /\ pipelined = {}

\* onAfterCreate: the socket is registered and gets its listener.
Open(s) ==
    /\ conn[s] = "none"
    /\ conn' = [conn EXCEPT ![s] = "open"]
    /\ mapped' = mapped \cup {s}
    /\ UNCHANGED <<link, freed, buffer, port, pong, pings, tasks, out, pipelined>>

MutReadsDuringPong(s) ==
    /\ conn[s] = "open"
    /\ pipelined' = IF Unanswered(s) = {} THEN pipelined ELSE pipelined \cup {s}

\* The reader takes the next frame unless it is still writing a pong.
Reads(s) ==
    /\ conn[s] = "open" /\ s \notin pong
    /\ pipelined' = IF Unanswered(s) = {} THEN pipelined ELSE pipelined \cup {s}

\* readMessage with size > 0: a frame of the vehicle's next message
ReadFrame(s) ==
    /\ Reads(s) /\ Len(tasks) < MaxMessages
    /\ buffer' = [buffer EXCEPT ![s] = @ \cup {Cardinality(TasksOf(s)) + 1}]
    /\ UNCHANGED <<conn, link, mapped, freed, port, pong, pings, tasks, out>>

Dispatch(s) == tasks' = Append(tasks, [sock |-> s, msg |-> buffer[s], stage |-> "spawned",
                                       expired |-> FALSE, dialled |-> Configured])

MutReadEndKeepsBuffer(s) ==
    /\ Reads(s) /\ Len(tasks) < MaxMessages
    /\ Dispatch(s)
    /\ UNCHANGED <<conn, link, mapped, freed, buffer, port, pong, pings, out>>

\* readMessage with size = 0: the message is complete, be it empty.
ReadEnd(s) ==
    /\ Reads(s) /\ Len(tasks) < MaxMessages
    /\ Dispatch(s)
    /\ buffer' = [buffer EXCEPT ![s] = {}]
    /\ UNCHANGED <<conn, link, mapped, freed, port, pong, pings, out>>

\* onPing: the pong is written before the next frame is read.  On a broken link
\* the write fails, and nothing but Close is left.
OnPing(s) ==
    /\ Reads(s) /\ link[s] # "broken" /\ pings < MaxPings
    /\ pings' = pings + 1
    /\ pong' = pong \cup {s}
    /\ out' = [out EXCEPT ![s] = Append(@, <<0, "head">>)]
    /\ UNCHANGED <<conn, link, mapped, freed, buffer, port, tasks>>

PongWritten(s) ==
    /\ s \in pong /\ link[s] # "broken"
    /\ pong' = pong \ {s}
    /\ out' = [out EXCEPT ![s] = Append(@, <<0, "tail">>)]
    /\ UNCHANGED <<conn, link, mapped, freed, buffer, port, pings, tasks, pipelined>>

\* The reader sees a close frame, the end of the stream or an error, and its
\* coroutine is destroyed, whatever other coroutines do with the socket; but
\* while it writes a pong it sees no more than that write fail.
Close(s) ==
    /\ conn[s] = "open" /\ (s \in pong => link[s] = "broken")
    /\ conn' = [conn EXCEPT ![s] = "closed"]
    /\ pong' = pong \ {s}
    /\ UNCHANGED <<link, mapped, freed, buffer, port, pings, tasks, out, pipelined>>

\* The client map lets go of the socket: its entry is erased, or replaced by
\* a newer socket of the client.
Unmap(s) ==
    /\ s \in mapped
    /\ mapped' = mapped \ {s}
    /\ UNCHANGED <<conn, link, freed, buffer, port, pong, pings, tasks, out, pipelined>>

Worse == {<<"up", "stalled">>, <<"up", "broken">>, <<"stalled", "broken">>}

\* The vehicle stops reading for good, or the TCP connection is lost, with the
\* reader still there or not.
LinkWorsens(s) ==
    /\ conn[s] # "none" /\ s \notin freed
    /\ \E to \in {"stalled", "broken"} :
         /\ <<link[s], to>> \in Worse
         /\ link' = [link EXCEPT ![s] = to]
    /\ UNCHANGED <<conn, mapped, freed, buffer, port, pong, pings, tasks, out, pipelined>>
-----------------------------------------------------------------------------
(***************************************************************************)
(* asyncHttpClient on the ioThread: one action from one suspension to the  *)
(* next.  Nothing else runs on that thread in between.                     *)
(***************************************************************************)
Advance(i, from, to) ==
    /\ i \in DOMAIN tasks /\ tasks[i].stage = from
    /\ tasks' = [tasks EXCEPT ![i].stage = to]

SocketsUnchanged == UNCHANGED <<conn, link, mapped, freed, buffer, pong, pings, pipelined>>

MutDigit(draw) == 2 + (draw % 5)

\* The last digit of the port that a draw selects
Digit(draw) == 2 + (draw % 4)

\* The last digit of the LISTENER's port is overwritten.  A message that is
\* no HTTP request throws, and "error" is the answer; for one that is, the
\* resolver takes a copy of the port and the coroutine waits.
Start(i) ==
    /\ i \in DOMAIN tasks /\ tasks[i].stage = "spawned"
    /\ \E draw \in Draws :
         /\ port' = [port EXCEPT ![tasks[i].sock] = Digit(draw)]
         /\ \/ tasks' = [tasks EXCEPT ![i].stage = "answered"]
            \/ /\ tasks[i].msg # {}
               /\ tasks' = [tasks EXCEPT ![i].stage = "resolving", ![i].dialled = Digit(draw)]
    /\ SocketsUnchanged /\ UNCHANGED out

Resolved(i) ==
    /\ \/ Advance(i, "resolving", "connecting")
       \/ Advance(i, "resolving", "answered")
    /\ SocketsUnchanged /\ UNCHANGED <<port, out>>

MutNoDeadline(i) == FALSE /\ UNCHANGED vars

\* expires_after(10 s): past it, connect, write and read only fail.  The
\* resolver is not under this timer.
Expire(i) ==
    /\ i \in DOMAIN tasks /\ tasks[i].stage \in {"resolving"} \cup Timed
    /\ ~tasks[i].expired
    /\ tasks' = [tasks EXCEPT ![i].expired = TRUE]
    /\ SocketsUnchanged /\ UNCHANGED <<port, out>>

NetworkSucceeds(i) ==
    /\ i \in DOMAIN tasks /\ ~tasks[i].expired
    /\ \/ Advance(i, "connecting", "writing")
       \/ Advance(i, "writing", "reading")
       \/ Advance(i, "reading", "answered")
    /\ SocketsUnchanged /\ UNCHANGED <<port, out>>

MutNetworkFailsSilently(i) ==
    /\ \E stage \in Timed : Advance(i, stage, "done")
    /\ SocketsUnchanged /\ UNCHANGED <<port, out>>

\* An error code, the timer's included: "error" is the answer.
NetworkFails(i) ==
    /\ \E stage \in Timed : Advance(i, stage, "answered")
    /\ SocketsUnchanged /\ UNCHANGED <<port, out>>

\* The completion handler of co_spawn: no answer is empty, so each is handed
\* to the executor together with the socket.
Complete(i) ==
    /\ Advance(i, "answered", "queued")
    /\ SocketsUnchanged /\ UNCHANGED <<port, out>>

\* SendMessageCoroutine writes the frame in parts and takes no write lock.  It
\* holds the socket, so that it writes whether or not there is a reader.
WritePart(i, part) ==
    LET s == tasks[i].sock
    IN  /\ link[s] # "broken"
        /\ out' = [out EXCEPT ![s] = Append(@, <<i, part>>)]

SendHead(i) ==
    /\ Advance(i, "queued", "sending")
    /\ WritePart(i, "head")
    /\ SocketsUnchanged /\ UNCHANGED port

MutSendTailAgain(i) ==
    /\ \/ Advance(i, "sending", "queued")
       \/ Advance(i, "sending", "done")
    /\ WritePart(i, "tail")
    /\ SocketsUnchanged /\ UNCHANGED port

SendTail(i) ==
    /\ Advance(i, "sending", "done")
    /\ WritePart(i, "tail")
    /\ SocketsUnchanged /\ UNCHANGED port

\* A write fails, and with it the coroutine.
SendFails(i) ==
    /\ \E stage \in {"queued", "sending"} : Advance(i, stage, "done")
    /\ link[tasks[i].sock] = "broken"
    /\ SocketsUnchanged /\ UNCHANGED <<port, out>>
-----------------------------------------------------------------------------
MutHeld(s) == conn[s] = "open" \/ s \in mapped

\* Who holds the socket, and with it its listener: its own coroutine, the
\* client map, the completion handlers and the coroutines that send.
Held(s) == conn[s] = "open" \/ s \in mapped \/ Unanswered(s) # {}

\* The last shared_ptr to the socket is gone.
Free(s) ==
    /\ conn[s] = "closed" /\ s \notin freed /\ ~Held(s)
    /\ freed' = freed \cup {s}
    /\ UNCHANGED <<conn, link, mapped, buffer, port, pong, pings, tasks, out, pipelined>>

Next ==
    \/ \E s \in Sockets :
         \/ Open(s)
         \/ ReadFrame(s)
         \/ ReadEnd(s)
         \/ OnPing(s)
         \/ PongWritten(s)
         \/ Close(s)
         \/ LinkWorsens(s)
         \/ Unmap(s)
         \/ Free(s)
    \/ \E i \in TaskIds :
         \/ Start(i)
         \/ Resolved(i)
         \/ Expire(i)
         \/ NetworkSucceeds(i)
         \/ NetworkFails(i)
         \/ Complete(i)
         \/ SendHead(i)
         \/ SendTail(i)
         \/ SendFails(i)

Spec == Init /\ [][Next]_vars

(***************************************************************************)
(* Fairness: the ioThread and the executor run what is ready, the resolver *)
(* answers or gives up, the 10 s pass, and a closed socket leaves the      *)
(* client map (ConnectionLifecycle!DepartedAreForgotten).  A write goes on *)
(* while the vehicle reads and fails once the connection is lost; it may   *)
(* wait for ever for a vehicle that does not read.  Nothing is assumed of  *)
(* the application server, nor of what a vehicle does.                     *)
(***************************************************************************)
Progress(i) == \/ Start(i)
               \/ Resolved(i)
               \/ Complete(i)
               \/ SendFails(i)

VehicleTakes(i) ==
    /\ i \in DOMAIN tasks /\ link[tasks[i].sock] = "up"
    /\ SendHead(i) \/ SendTail(i)

DeadlineHits(i) == i \in DOMAIN tasks /\ tasks[i].expired /\ NetworkFails(i)

Fairness ==
    /\ \A i \in TaskIds : /\ WF_vars(Progress(i))
                          /\ WF_vars(VehicleTakes(i))
                          /\ WF_vars(Expire(i))
                          /\ WF_vars(DeadlineHits(i))
    /\ \A s \in Sockets : /\ WF_vars(conn[s] = "closed" /\ Unmap(s))
                          /\ WF_vars(Free(s))

FairSpec == Spec /\ Fairness
-----------------------------------------------------------------------------
(***************************************************************************)
(* Properties                                                              *)
(***************************************************************************)

\* The type invariant of the pipeline.
PipelineTypeOK ==
    /\ conn \in [Sockets -> {"none", "open", "closed"}]
    /\ link \in [Sockets -> {"up", "stalled", "broken"}]
    /\ mapped \subseteq Sockets /\ freed \subseteq Sockets
    /\ buffer \in [Sockets -> SUBSET Nat]
    /\ port \in [Sockets -> (2..5) \cup {Configured}]
    /\ pong \subseteq Sockets /\ pings \in 0..MaxPings
    /\ tasks \in Seq([sock : Sockets, msg : SUBSET Nat, stage : Stages,
                      expired : BOOLEAN, dialled : (2..5) \cup {Configured}])
    /\ Len(tasks) <= MaxMessages
    /\ out \in [Sockets -> Seq((0..MaxMessages) \X {"head", "tail"})]
    /\ pipelined \subseteq Sockets

\* The n-th message a socket dispatches is made of frames of the n-th message
\* of its vehicle only, pings and other sockets notwithstanding
\* (m_messageBuffer, WebSocketListener.cpp:69-83 and 128).
MessageIntegrity ==
    \A i \in DOMAIN tasks :
        tasks[i].msg \subseteq {Cardinality({j \in TasksOf(tasks[i].sock) : j <= i})}

\* The listener whose members asyncHttpClient refers to (boostBeastClient.h:
\* 33-35) is not deleted under it, although the connection may be long gone:
\* the completion handler captures the socket (WebSocketListener.cpp:94).
ListenerOutlivesRequest ==
    \A i \in DOMAIN tasks : tasks[i].stage \in InHttp => tasks[i].sock \notin freed

\* A frame is whole: its tail follows its head with nothing in between.
WholeFrames(parts) ==
    \A k \in DOMAIN parts :
        IF k % 2 = 1 THEN parts[k][2] = "head"
                     ELSE parts[k] = <<parts[k - 1][1], "tail">>

AnswersInOrder(parts) ==
    \A j, k \in DOMAIN parts :
        /\ j < k /\ parts[j][1] # 0 /\ parts[k][1] # 0
        /\ parts[j][2] = "head" /\ parts[k][2] = "head"
        => parts[j][1] < parts[k][1]

\* There is no write lock and no order among answers, and none is needed for
\* a vehicle that sends nothing, pings included, before it has the answer to
\* its last message: it gets whole frames, and each answer once and in order
\* (WebSocketListener.cpp:51-63 and 116).
LockStepVehicleIsServed ==
    \A s \in Sockets \ pipelined : WholeFrames(out[s]) /\ AnswersInOrder(out[s])

\* Whatever the vehicle sends meanwhile, and however the parts of several frames
\* mix: each part of an answer is written to the connection of its message, once,
\* and the tail after the head (WebSocketListener.cpp:94-122).
AnswersAreOwnAndOnce ==
    \A s \in Sockets : \A k \in DOMAIN out[s] : out[s][k][1] # 0 =>
        /\ out[s][k][1] \in TasksOf(s)
        /\ \A j \in DOMAIN out[s] : out[s][j] = out[s][k] => j = k
        /\ out[s][k][2] = "tail" => \E j \in 1..k : out[s][j] = <<out[s][k][1], "head">>

(***************************************************************************)
(* The pipeline implements MessageService: whose turn it is follows from   *)
(* what is unanswered.                                                     *)
(***************************************************************************)
TurnOf(s) ==
    IF link[s] = "broken" THEN "closed"
    ELSE IF s \in pipelined THEN "waived"
    ELSE IF conn[s] = "none" THEN "none"
    ELSE IF s \in pong THEN "ponging"
    ELSE IF Unanswered(s) = {} THEN IF conn[s] = "open" THEN "vehicle" ELSE "closed"
    ELSE IF \E i \in Unanswered(s) : tasks[i].stage = "sending" THEN "answering"
    ELSE "gateway"

CurrentOf(s) ==
    IF TurnOf(s) \in {"gateway", "answering"} THEN CHOOSE i \in Unanswered(s) : TRUE ELSE 0

Service == INSTANCE MessageService
             WITH Messages <- TaskIds,
                  turn     <- [s \in Sockets |-> TurnOf(s)],
                  current  <- [s \in Sockets |-> CurrentOf(s)],
                  wire     <- out

\* To a vehicle that waits for its answers the gateway is a sequential server
\* (WebSocketListener.cpp:51-122): coroutines, threads and the lack of a write
\* lock do not show.
ImplementsService == Service!ServiceSpec

\* Every message is answered, with "error" if need be, unless its vehicle stops
\* reading or the link is lost: whatever the application server does, and also
\* when the reader has ended (boostBeastClient.h:78-107, WebSocketListener.cpp:61).
EveryMessageAnswered ==
    \A i \in TaskIds :
        i \in DOMAIN tasks ~>
            \E s \in Sockets :
                /\ i \in TasksOf(s)
                /\ link[s] # "up" \/ \E k \in DOMAIN out[s] : out[s][k] = <<i, "tail">>

\* A closed connection is deleted in the end: no request keeps its socket for
\* ever, but for an answer that waits to be written to a vehicle that does not
\* read (WebSocketListener.cpp:61, 94 and 116).
ClosedAreFreed ==
    \A s \in Sockets :
        conn[s] = "closed" ~>
            s \in freed \/ (link[s] = "stalled" /\ Unanswered(s) # {})

\* boostBeastClient.h:88 logs "Connect error: {} for host {} port {}" with the
\* listener's port: the one that could not be connected to.
LoggedPortIsDialled ==
    [][\A i \in DOMAIN tasks :
          tasks[i].stage = "connecting" /\ tasks'[i].stage = "answered"
              => port[tasks[i].sock] = tasks[i].dialled]_vars
=============================================================================
