----------------------- MODULE MessagePipeline_proofs -----------------------
(***************************************************************************)
(* Proofs about the messages for any sockets and any bounds: no listener   *)
(* is deleted under a request, no message is made of another's frames,     *)
(* each answer is written once, to its own connection, and a vehicle that  *)
(* waits for its answers gets them whole and in order.                     *)
(***************************************************************************)
EXTENDS MessagePipeline, FiniteSetTheorems, TLAPS

Digits == (2..5) \cup {Configured}
Tasks  == [sock : Sockets, msg : SUBSET Nat, stage : Stages,
           expired : BOOLEAN, dialled : Digits]
Parts  == (0..MaxMessages) \X {"head", "tail"}

LEMMA DigitRange == \A draw \in Draws : Digit(draw) \in 2..5
  BY PipelineAssumption DEF Digit

(***************************************************************************)
(* The steps of a coroutine.  All of them move one task from a stage that  *)
(* is not the last one, and leave its socket and message alone.            *)
(***************************************************************************)
TaskStep(i) == \/ Start(i) \/ Resolved(i) \/ Expire(i) \/ NetworkSucceeds(i)
               \/ NetworkFails(i) \/ Complete(i) \/ SendHead(i) \/ SendTail(i) \/ SendFails(i)

Moves(i) ==
    /\ i \in DOMAIN tasks
    /\ tasks[i].stage # "done"
    /\ \E task \in Tasks :
         /\ tasks' = [tasks EXCEPT ![i] = task]
         /\ task.sock = tasks[i].sock /\ task.msg = tasks[i].msg
         /\ task.stage \in InHttp => tasks[i].stage \in InHttp

LEMMA AdvanceMoves ==
  ASSUME tasks \in Seq(Tasks), NEW i, NEW from, NEW to,
         Advance(i, from, to), from # "done", to \in Stages, to \in InHttp => from \in InHttp
  PROVE  Moves(i)
<1>1. i \in DOMAIN tasks /\ tasks[i] \in Tasks /\ tasks[i].stage = from
  BY DEF Advance
<1>2. [tasks[i] EXCEPT !.stage = to] \in Tasks
  BY <1>1 DEF Tasks
<1>3. tasks' = [tasks EXCEPT ![i] = [tasks[i] EXCEPT !.stage = to]]
  BY <1>1 DEF Advance
<1> QED BY <1>1, <1>2, <1>3 DEF Moves, Tasks

LEMMA TaskStepMoves ==
  ASSUME PipelineTypeOK, NEW i \in TaskIds, TaskStep(i)
  PROVE  Moves(i) /\ SocketsUnchanged
<1>0. tasks \in Seq(Tasks)
  BY DEF PipelineTypeOK, Tasks, Digits
<1>a. i \in DOMAIN tasks => tasks[i] \in Tasks
  BY <1>0
<1> USE DEF Stages, InHttp, Timed
<1>1. CASE Start(i)
  <2>1. PICK draw \in Draws :
          \/ tasks' = [tasks EXCEPT ![i].stage = "answered"]
          \/ tasks' = [tasks EXCEPT ![i].stage = "resolving", ![i].dialled = Digit(draw)]
    BY <1>1 DEF Start
  <2>2. i \in DOMAIN tasks /\ tasks[i].stage = "spawned" /\ SocketsUnchanged
    BY <1>1 DEF Start
  <2>3. CASE tasks' = [tasks EXCEPT ![i].stage = "answered"]
    BY <1>0, <2>2, <2>3, AdvanceMoves DEF Advance
  <2>4. CASE tasks' = [tasks EXCEPT ![i].stage = "resolving", ![i].dialled = Digit(draw)]
    <3> DEFINE task == [tasks[i] EXCEPT !.stage = "resolving", !.dialled = Digit(draw)]
    <3>1. task \in Tasks
      BY <1>a, <2>2, DigitRange DEF Tasks, Digits
    <3>2. tasks' = [tasks EXCEPT ![i] = task]
      BY <1>0, <2>2, <2>4
    <3> QED BY <1>a, <2>2, <3>1, <3>2 DEF Moves, Tasks
  <2> QED BY <2>1, <2>3, <2>4
<1>2. CASE Resolved(i)
  BY <1>0, <1>2, AdvanceMoves DEF Resolved
<1>3. CASE Expire(i)
  <2> DEFINE task == [tasks[i] EXCEPT !.expired = TRUE]
  <2>1. i \in DOMAIN tasks /\ tasks[i].stage # "done" /\ SocketsUnchanged
    BY <1>3 DEF Expire
  <2>2. task \in Tasks
    BY <1>a, <2>1 DEF Tasks
  <2>3. tasks' = [tasks EXCEPT ![i] = task]
    BY <1>0, <1>3, <2>1 DEF Expire
  <2> QED BY <1>a, <2>1, <2>2, <2>3 DEF Moves, Tasks
<1>4. CASE NetworkSucceeds(i)
  BY <1>0, <1>4, AdvanceMoves DEF NetworkSucceeds
<1>5. CASE NetworkFails(i)
  BY <1>0, <1>5, AdvanceMoves DEF NetworkFails
<1>6. CASE Complete(i)
  BY <1>0, <1>6, AdvanceMoves DEF Complete
<1>7. CASE SendHead(i)
  BY <1>0, <1>7, AdvanceMoves DEF SendHead
<1>8. CASE SendTail(i)
  BY <1>0, <1>8, AdvanceMoves DEF SendTail
<1>9. CASE SendFails(i)
  BY <1>0, <1>9, AdvanceMoves DEF SendFails
<1> QED BY <1>1, <1>2, <1>3, <1>4, <1>5, <1>6, <1>7, <1>8, <1>9 DEF TaskStep

LEMMA MoveFacts ==
  ASSUME tasks \in Seq(Tasks), NEW i, Moves(i)
  PROVE  /\ tasks' \in Seq(Tasks) /\ DOMAIN tasks' = DOMAIN tasks /\ Len(tasks') = Len(tasks)
         /\ \A j \in DOMAIN tasks :
              /\ tasks'[j].sock = tasks[j].sock /\ tasks'[j].msg = tasks[j].msg
              /\ tasks'[j].stage \in InHttp => tasks[j].stage \in InHttp
              /\ tasks'[j].stage # "done" => tasks[j].stage # "done"
<1>1. PICK task \in Tasks :
        /\ tasks' = [tasks EXCEPT ![i] = task]
        /\ task.sock = tasks[i].sock /\ task.msg = tasks[i].msg
        /\ task.stage \in InHttp => tasks[i].stage \in InHttp
  BY DEF Moves
<1> QED BY <1>1 DEF Moves
-----------------------------------------------------------------------------
LEMMA PipelineTypeInit == Init => PipelineTypeOK
  BY PipelineAssumption DEF Init, PipelineTypeOK

\* Which steps write to a socket, and what
LEMMA OutStep ==
  ASSUME PipelineTypeOK, NEW i \in TaskIds, TaskStep(i)
  PROVE  /\ out' \in [Sockets -> Seq(Parts)]
         /\ port' \in [Sockets -> Digits]
<1>0. /\ tasks \in Seq(Tasks) /\ out \in [Sockets -> Seq(Parts)] /\ port \in [Sockets -> Digits]
  BY DEF PipelineTypeOK, Tasks, Digits, Parts
<1>1. i \in DOMAIN tasks => tasks[i].sock \in Sockets
  <2>1. i \in DOMAIN tasks => tasks[i] \in Tasks
    BY <1>0
  <2> QED BY <2>1 DEF Tasks
<1>2. CASE Start(i)
  BY <1>0, <1>1, <1>2, DigitRange DEF Start, Digits
<1>3. CASE SendHead(i) \/ SendTail(i)
  <2>1. i \in DOMAIN tasks /\ port' = port
    BY <1>3 DEF SendHead, SendTail, Advance
  <2>2. <<i, "head">> \in Parts /\ <<i, "tail">> \in Parts
    BY PipelineAssumption DEF Parts, TaskIds
  <2>3. out[tasks[i].sock] \in Seq(Parts)
    BY <1>0, <1>1, <2>1
  <2>4. /\ Append(out[tasks[i].sock], <<i, "head">>) \in Seq(Parts)
        /\ Append(out[tasks[i].sock], <<i, "tail">>) \in Seq(Parts)
    BY <2>2, <2>3
  <2> QED BY <1>0, <1>1, <1>3, <2>1, <2>4 DEF SendHead, SendTail, WritePart
<1>4. CASE \/ Resolved(i) \/ Expire(i) \/ NetworkSucceeds(i) \/ NetworkFails(i)
            \/ Complete(i) \/ SendFails(i)
  BY <1>0, <1>4 DEF Resolved, Expire, NetworkSucceeds, NetworkFails, Complete, SendFails
<1> QED BY <1>2, <1>3, <1>4 DEF TaskStep

LEMMA PongParts == <<0, "head">> \in Parts /\ <<0, "tail">> \in Parts
  BY PipelineAssumption DEF Parts

\* What a reader does, apart from the new task
LEMMA DispatchFacts ==
  ASSUME PipelineTypeOK, NEW s \in Sockets, Dispatch(s)
  PROVE  /\ tasks' \in Seq(Tasks) /\ Len(tasks') = Len(tasks) + 1
         /\ \A j \in DOMAIN tasks : tasks'[j] = tasks[j]
         /\ tasks'[Len(tasks')].sock = s /\ tasks'[Len(tasks')].msg = buffer[s]
<1> DEFINE task == [sock |-> s, msg |-> buffer[s], stage |-> "spawned",
                    expired |-> FALSE, dialled |-> Configured]
<1>1. tasks \in Seq(Tasks) /\ task \in Tasks
  BY DEF PipelineTypeOK, Tasks, Digits, Stages, InHttp
<1>2. tasks' = Append(tasks, task)
  BY DEF Dispatch
<1> HIDE DEF task
<1>3. /\ tasks' \in Seq(Tasks) /\ Len(tasks') = Len(tasks) + 1
      /\ \A j \in DOMAIN tasks : tasks'[j] = tasks[j]
      /\ tasks'[Len(tasks')] = task
  BY <1>1, <1>2
<1> QED BY <1>3 DEF task

SocketStep(s) == \/ Open(s) \/ ReadFrame(s) \/ ReadEnd(s) \/ OnPing(s)
                 \/ PongWritten(s) \/ Close(s) \/ LinkWorsens(s) \/ Unmap(s) \/ Free(s)

LEMMA PipelineCases ==
  ASSUME [Next]_vars
  PROVE  (\E s \in Sockets : SocketStep(s)) \/ (\E i \in TaskIds : TaskStep(i)) \/ UNCHANGED vars
  BY DEF Next, SocketStep, TaskStep

LEMMA PipelineTypeStep == PipelineTypeOK /\ [Next]_vars => PipelineTypeOK'
<1> SUFFICES ASSUME PipelineTypeOK, [Next]_vars PROVE PipelineTypeOK'
  OBVIOUS
<1>a. /\ tasks \in Seq(Tasks) /\ Len(tasks) \in Nat /\ Len(tasks) <= MaxMessages
      /\ out \in [Sockets -> Seq(Parts)]
      /\ DOMAIN tasks = 1 .. Len(tasks)
  <2>1. tasks \in Seq(Tasks) /\ Len(tasks) <= MaxMessages /\ out \in [Sockets -> Seq(Parts)]
    BY DEF PipelineTypeOK, Tasks, Digits, Parts
  <2> QED BY <2>1
<1>1. ASSUME NEW s \in Sockets, SocketStep(s)
      PROVE  PipelineTypeOK'
  <2> USE DEF PipelineTypeOK
  <2>1. CASE Open(s)
    BY <2>1 DEF Open
  <2>2. CASE ReadFrame(s)
    <3>1. Cardinality(TasksOf(s)) \in Nat
      <4>1. IsFiniteSet(1 .. Len(tasks)) /\ TasksOf(s) \subseteq 1 .. Len(tasks)
        BY <1>a, FS_Interval DEF TasksOf
      <4> QED BY <4>1, FS_Subset, FS_CardinalityType
    <3> QED BY <2>2, <3>1 DEF ReadFrame, Reads
  <2>3. CASE ReadEnd(s)
    <3>1. tasks' \in Seq(Tasks) /\ Len(tasks') <= MaxMessages
      BY <1>a, <2>3, DispatchFacts, PipelineAssumption DEF ReadEnd
    <3> QED BY <2>3, <3>1 DEF ReadEnd, Reads, Tasks, Digits
  <2>4. CASE OnPing(s)
    <3>1. out' \in [Sockets -> Seq(Parts)] /\ pings' \in 0..MaxPings
      BY <1>a, <2>4, PongParts, PipelineAssumption DEF OnPing
    <3> QED BY <2>4, <3>1 DEF OnPing, Reads, Parts
  <2>5. CASE PongWritten(s)
    <3>1. out' \in [Sockets -> Seq(Parts)]
      BY <1>a, <2>5, PongParts DEF PongWritten
    <3> QED BY <2>5, <3>1 DEF PongWritten, Parts
  <2>6. CASE Close(s)
    BY <2>6 DEF Close
  <2>7. CASE Unmap(s)
    BY <2>7 DEF Unmap
  <2>8. CASE Free(s)
    BY <2>8 DEF Free
  <2>9. CASE LinkWorsens(s)
    BY <2>9 DEF LinkWorsens
  <2> QED BY <1>1, <2>1, <2>2, <2>3, <2>4, <2>5, <2>6, <2>7, <2>8, <2>9 DEF SocketStep
<1>2. ASSUME NEW i \in TaskIds, TaskStep(i)
      PROVE  PipelineTypeOK'
  <2>1. Moves(i) /\ SocketsUnchanged
    BY <1>2, TaskStepMoves
  <2>2. tasks' \in Seq(Tasks) /\ Len(tasks') <= MaxMessages
    BY <1>a, <2>1, MoveFacts
  <2>3. out' \in [Sockets -> Seq(Parts)] /\ port' \in [Sockets -> Digits]
    BY <1>2, OutStep
  <2> QED BY <2>1, <2>2, <2>3 DEF PipelineTypeOK, SocketsUnchanged, Tasks, Digits, Parts
<1>3. CASE UNCHANGED vars
  BY <1>3 DEF vars, PipelineTypeOK
<1> QED BY <1>1, <1>2, <1>3, PipelineCases

\* PipelineTypeOK holds for any sockets and any bounds.
THEOREM PipelineTypeCorrect == Spec => []PipelineTypeOK
  BY PipelineTypeInit, PipelineTypeStep, PTL DEF Spec
-----------------------------------------------------------------------------
(***************************************************************************)
(* Lifetime.  The property is about requests in the HTTP coroutine; the    *)
(* invariant about all messages that are not sent, which hold the socket   *)
(* through the completion handler and the sending coroutine, and about the *)
(* connection, which does not come back once its socket is deleted.        *)
(***************************************************************************)
HeldInv ==
    /\ \A i \in DOMAIN tasks : tasks[i].stage # "done" => tasks[i].sock \notin freed
    /\ \A s \in freed : conn[s] = "closed"

LEMMA HeldInit == Init => HeldInv
  BY DEF Init, HeldInv

LEMMA HeldStep == PipelineTypeOK /\ HeldInv /\ [Next]_vars => HeldInv'
<1> SUFFICES ASSUME PipelineTypeOK, HeldInv, [Next]_vars PROVE HeldInv'
  OBVIOUS
<1>a. tasks \in Seq(Tasks) /\ conn \in [Sockets -> {"none", "open", "closed"}] /\ freed \subseteq Sockets
  BY DEF PipelineTypeOK, Tasks, Digits
<1>1. ASSUME NEW s \in Sockets, SocketStep(s)
      PROVE  HeldInv'
  <2>1. CASE ReadEnd(s)
    \* a message is read from an open connection only
    <3>1. conn[s] = "open" /\ UNCHANGED <<conn, freed>>
      BY <2>1 DEF ReadEnd, Reads
    <3>2. s \notin freed
      BY <3>1 DEF HeldInv
    <3>3. \A j \in DOMAIN tasks' :
            \/ j \in DOMAIN tasks /\ tasks'[j] = tasks[j]
            \/ tasks'[j].sock = s
      BY <1>a, <2>1, DispatchFacts DEF ReadEnd
    <3> QED BY <3>1, <3>2, <3>3 DEF HeldInv
  <2>2. CASE Free(s)
    \* nothing unanswered is left
    BY <2>2 DEF Free, Held, Unanswered, TasksOf, HeldInv
  <2>3. CASE Open(s) \/ Close(s)
    BY <1>a, <2>3 DEF Open, Close, HeldInv
  <2>4. CASE ReadFrame(s) \/ OnPing(s) \/ PongWritten(s) \/ LinkWorsens(s) \/ Unmap(s)
    BY <2>4 DEF ReadFrame, OnPing, PongWritten, LinkWorsens, Unmap, HeldInv
  <2> QED BY <1>1, <2>1, <2>2, <2>3, <2>4 DEF SocketStep
<1>2. ASSUME NEW i \in TaskIds, TaskStep(i)
      PROVE  HeldInv'
  BY <1>a, <1>2, TaskStepMoves, MoveFacts DEF SocketsUnchanged, HeldInv
<1>3. CASE UNCHANGED vars
  BY <1>3 DEF vars, HeldInv
<1> QED BY <1>1, <1>2, <1>3, PipelineCases

\* ListenerOutlivesRequest: the references of asyncHttpClient stay valid
\* whenever the connection ends (boostBeastClient.h:33-35).
THEOREM RequestsHoldListener == Spec => []ListenerOutlivesRequest
<1>1. HeldInv => ListenerOutlivesRequest
  BY DEF HeldInv, ListenerOutlivesRequest, InHttp, Timed
<1> QED
  BY <1>1, PipelineTypeInit, PipelineTypeStep, HeldInit, HeldStep, PTL DEF Spec
-----------------------------------------------------------------------------
(***************************************************************************)
(* Integrity.  What is in the buffer between two frames belongs to the     *)
(* message that the socket dispatches next.                                *)
(***************************************************************************)
Mates(i) == {j \in DOMAIN tasks : tasks[j].sock = tasks[i].sock /\ j <= i}

BufferInv ==
    /\ \A s \in Sockets : buffer[s] \subseteq {Cardinality(TasksOf(s)) + 1}
    /\ \A i \in DOMAIN tasks : tasks[i].msg \subseteq {Cardinality(Mates(i))}

LEMMA TasksOfFinite ==
  ASSUME PipelineTypeOK, NEW s
  PROVE  IsFiniteSet(TasksOf(s)) /\ Cardinality(TasksOf(s)) \in Nat
<1>1. DOMAIN tasks = 1 .. Len(tasks) /\ Len(tasks) \in Nat
  BY DEF PipelineTypeOK
<1>2. IsFiniteSet(1 .. Len(tasks)) /\ TasksOf(s) \subseteq 1 .. Len(tasks)
  BY <1>1, FS_Interval DEF TasksOf
<1> QED BY <1>2, FS_Subset, FS_CardinalityType

LEMMA BufferInit == Init => BufferInv
  BY DEF Init, BufferInv

LEMMA BufferStep == PipelineTypeOK /\ BufferInv /\ [Next]_vars => BufferInv'
<1> SUFFICES ASSUME PipelineTypeOK, BufferInv, [Next]_vars PROVE BufferInv'
  OBVIOUS
<1>a. /\ tasks \in Seq(Tasks) /\ Len(tasks) \in Nat /\ DOMAIN tasks = 1 .. Len(tasks)
      /\ buffer \in [Sockets -> SUBSET Nat]
  <2>1. tasks \in Seq(Tasks) /\ buffer \in [Sockets -> SUBSET Nat]
    BY DEF PipelineTypeOK, Tasks, Digits
  <2> QED BY <2>1
<1>1. ASSUME NEW s \in Sockets, ReadEnd(s)
      PROVE  BufferInv'
  <2>0. PICK n \in Nat : n = Len(tasks) + 1
    BY <1>a
  <2>1. /\ DOMAIN tasks' = 1 .. n
        /\ \A j \in DOMAIN tasks : tasks'[j] = tasks[j]
        /\ tasks'[n].sock = s /\ tasks'[n].msg = buffer[s]
        /\ buffer' = [buffer EXCEPT ![s] = {}]
    <3>1. /\ tasks' \in Seq(Tasks) /\ Len(tasks') = n
          /\ \A j \in DOMAIN tasks : tasks'[j] = tasks[j]
          /\ tasks'[n].sock = s /\ tasks'[n].msg = buffer[s]
      BY <1>1, <2>0, DispatchFacts DEF ReadEnd
    <3> QED BY <1>1, <3>1 DEF ReadEnd
  <2>2. /\ TasksOf(s)' = TasksOf(s) \cup {n}
        /\ \A r \in Sockets \ {s} : TasksOf(r)' = TasksOf(r)
    BY <1>a, <2>0, <2>1 DEF TasksOf
  <2>3. Cardinality(TasksOf(s) \cup {n}) = Cardinality(TasksOf(s)) + 1
    <3>1. n \notin TasksOf(s)
      BY <1>a, <2>0 DEF TasksOf
    <3> QED BY <3>1, TasksOfFinite, FS_AddElement
  <2>4. \A r \in Sockets : (buffer[r] \subseteq {Cardinality(TasksOf(r)) + 1})'
    BY <1>a, <2>1, <2>2 DEF BufferInv
  <2>5. (tasks[n].msg \subseteq {Cardinality(Mates(n))})'
    <3>1. Mates(n)' = TasksOf(s) \cup {n}
      BY <1>a, <2>0, <2>1 DEF Mates, TasksOf
    <3> QED BY <2>1, <2>3, <3>1 DEF BufferInv
  <2>6. ASSUME NEW i \in DOMAIN tasks
        PROVE  (tasks[i].msg \subseteq {Cardinality(Mates(i))})'
    <3>1. Mates(i)' = Mates(i)
      BY <1>a, <2>0, <2>1 DEF Mates
    <3> QED BY <2>1, <3>1 DEF BufferInv
  <2>7. \A i \in DOMAIN tasks' : i \in DOMAIN tasks \/ i = n
    BY <1>a, <2>0, <2>1
  <2> QED BY <2>4, <2>5, <2>6, <2>7 DEF BufferInv
<1>2. ASSUME NEW s \in Sockets, ReadFrame(s)
      PROVE  BufferInv'
  <2>1. tasks' = tasks /\ buffer' = [buffer EXCEPT ![s] = @ \cup {Cardinality(TasksOf(s)) + 1}]
    BY <1>2 DEF ReadFrame
  <2>2. \A r : TasksOf(r)' = TasksOf(r)
    BY <2>1 DEF TasksOf
  <2> QED BY <1>a, <2>1, <2>2 DEF BufferInv, Mates
<1>3. ASSUME UNCHANGED <<tasks, buffer>>
      PROVE  BufferInv'
  BY <1>3 DEF BufferInv, Mates, TasksOf
<1>4. ASSUME NEW s \in Sockets, SocketStep(s)
      PROVE  BufferInv'
  BY <1>1, <1>2, <1>3, <1>4 DEF SocketStep, Open, OnPing, PongWritten, Close, LinkWorsens, Unmap, Free
<1>5. ASSUME NEW i \in TaskIds, TaskStep(i)
      PROVE  BufferInv'
  <2>1. /\ buffer' = buffer /\ DOMAIN tasks' = DOMAIN tasks
        /\ \A j \in DOMAIN tasks : tasks'[j].sock = tasks[j].sock /\ tasks'[j].msg = tasks[j].msg
    BY <1>a, <1>5, TaskStepMoves, MoveFacts DEF SocketsUnchanged
  <2>2. \A s : TasksOf(s)' = TasksOf(s)
    BY <2>1 DEF TasksOf
  <2>3. \A j \in DOMAIN tasks : Mates(j)' = Mates(j)
    BY <2>1 DEF Mates
  <2> QED BY <2>1, <2>2, <2>3 DEF BufferInv
<1> QED BY <1>3, <1>4, <1>5, PipelineCases DEF vars

\* MessageIntegrity: messages are not mixed, for any number of sockets,
\* messages and pings (WebSocketListener.cpp:69-83).
THEOREM MessagesAreNotMixed == Spec => []MessageIntegrity
<1>1. BufferInv => MessageIntegrity
  <2>1. \A i \in DOMAIN tasks : {j \in TasksOf(tasks[i].sock) : j <= i} = Mates(i)
    BY DEF Mates, TasksOf
  <2> QED BY <2>1 DEF BufferInv, MessageIntegrity
<1> QED
  BY <1>1, PipelineTypeInit, PipelineTypeStep, BufferInit, BufferStep, PTL DEF Spec
-----------------------------------------------------------------------------
(***************************************************************************)
(* Lock step.  At a socket whose vehicle waits for its answers only the    *)
(* latest message can be unanswered, and it is not while a pong is under   *)
(* way.  So at most one frame is open, and everyone else who has written   *)
(* is an older message.                                                    *)
(***************************************************************************)
Sending(s)     == {i \in TasksOf(s) : tasks[i].stage = "sending"}
OpenHead(s, x) == Len(out[s]) % 2 = 1 /\ out[s][Len(out[s])] = <<x, "head">>

Alone(s) ==
    /\ \A i \in Unanswered(s), j \in TasksOf(s) : j <= i
    /\ s \in pong => Unanswered(s) = {}
    /\ link[s] # "broken" =>
         /\ s \in pong => OpenHead(s, 0)
         /\ \A i \in Sending(s) : OpenHead(s, i)
         /\ s \notin pong /\ Sending(s) = {} => Len(out[s]) % 2 = 0
    /\ WholeFrames(out[s]) /\ AnswersInOrder(out[s])
    /\ \A k \in DOMAIN out[s] : out[s][k][1] # 0 =>
         /\ out[s][k][1] \in TasksOf(s)
         /\ tasks[out[s][k][1]].stage \in {"sending", "done"}

LockInv ==
    /\ \A s \in Sockets : conn[s] = "none" => TasksOf(s) = {}
    /\ \A s \in pong : conn[s] = "open"
    /\ \A s \in Sockets \ pipelined : Alone(s)

LEMMA LockInit == Init => LockInv
<1> SUFFICES ASSUME Init PROVE LockInv
  OBVIOUS
<1>1. tasks = <<>> /\ pong = {} /\ \A s \in Sockets : conn[s] = "none" /\ out[s] = <<>>
  BY DEF Init
<1>2. \A s : TasksOf(s) = {} /\ Unanswered(s) = {} /\ Sending(s) = {}
  BY <1>1 DEF TasksOf, Unanswered, Sending
<1>3. 0 % 2 = 0 /\ Len(<<>>) = 0 /\ DOMAIN <<>> = {}
  OBVIOUS
<1>4. WholeFrames(<<>>) /\ AnswersInOrder(<<>>)
  BY <1>3 DEF WholeFrames, AnswersInOrder
<1>5. ASSUME NEW s \in Sockets
      PROVE  Alone(s)
  BY <1>1, <1>2, <1>3, <1>4 DEF Alone
<1> QED BY <1>1, <1>2, <1>5 DEF LockInv

LEMMA Parity ==
  /\ 1 % 2 = 1
  /\ \A n \in Nat : n % 2 = 1 => (n + 1) % 2 = 0
  /\ \A n \in Nat : n % 2 = 0 => (n + 1) % 2 = 1
  OBVIOUS

LEMMA FramesBefore ==
  ASSUME NEW parts \in Seq(Parts), NEW more, WholeFrames(parts),
         \A k \in DOMAIN parts : more[k] = parts[k], NEW k \in DOMAIN parts
  PROVE  IF k % 2 = 1 THEN more[k][2] = "head" ELSE more[k] = <<more[k - 1][1], "tail">>
<1>1. CASE k % 2 = 1
  BY <1>1 DEF WholeFrames
<1>2. CASE k % 2 # 1
  <2>1. k # 1 /\ k \in 1 .. Len(parts) /\ Len(parts) \in Nat
    BY <1>2, Parity
  <2>2. k - 1 \in DOMAIN parts
    BY <2>1
  <2>3. parts[k] = <<parts[k - 1][1], "tail">>
    BY <1>2 DEF WholeFrames
  <2> QED BY <1>2, <2>2, <2>3
<1> QED BY <1>1, <1>2

\* Frames: a head where none is open, and the tail of the one that is
LEMMA HeadAppended ==
  ASSUME NEW parts \in Seq(Parts), NEW x, <<x, "head">> \in Parts,
         WholeFrames(parts), Len(parts) % 2 = 0,
         AnswersInOrder(parts), x # 0 => \A k \in DOMAIN parts : parts[k][1] < x
  PROVE  LET more == Append(parts, <<x, "head">>)
         IN  /\ more \in Seq(Parts) /\ DOMAIN more = 1 .. (Len(parts) + 1)
             /\ \A k \in DOMAIN parts : more[k] = parts[k]
             /\ WholeFrames(more) /\ AnswersInOrder(more)
             /\ Len(more) % 2 = 1 /\ more[Len(more)] = <<x, "head">>
<1> DEFINE more == Append(parts, <<x, "head">>)
<1>1. /\ more \in Seq(Parts) /\ Len(more) = Len(parts) + 1 /\ Len(parts) \in Nat
      /\ DOMAIN more = 1 .. (Len(parts) + 1) /\ DOMAIN parts = 1 .. Len(parts)
      /\ \A k \in DOMAIN parts : more[k] = parts[k]
      /\ more[Len(parts) + 1] = <<x, "head">>
  OBVIOUS
<1> HIDE DEF more
<1>2. (Len(parts) + 1) % 2 = 1
  BY <1>1, Parity
<1>3. WholeFrames(more)
  <2>1. \A k \in DOMAIN parts :
          IF k % 2 = 1 THEN more[k][2] = "head" ELSE more[k] = <<more[k - 1][1], "tail">>
    BY <1>1, FramesBefore
  <2>2. \A k \in DOMAIN more : k \in DOMAIN parts \/ k = Len(parts) + 1
    BY <1>1
  <2>3. more[Len(parts) + 1][2] = "head"
    BY <1>1
  <2> QED BY <1>2, <2>1, <2>2, <2>3 DEF WholeFrames
<1>4. AnswersInOrder(more)
  <2> SUFFICES ASSUME NEW j \in DOMAIN more, NEW k \in DOMAIN more, j < k,
                      more[j][1] # 0, more[k][1] # 0,
                      more[j][2] = "head", more[k][2] = "head"
               PROVE  more[j][1] < more[k][1]
    BY DEF AnswersInOrder
  <2>1. j \in DOMAIN parts
    BY <1>1
  <2>2. CASE k \in DOMAIN parts
    BY <1>1, <2>1, <2>2 DEF AnswersInOrder
  <2>3. CASE k = Len(parts) + 1
    BY <1>1, <2>1, <2>3
  <2> QED BY <1>1, <2>2, <2>3
<1> QED BY <1>1, <1>2, <1>3, <1>4 DEF more

LEMMA TailAppended ==
  ASSUME NEW parts \in Seq(Parts), NEW x, <<x, "tail">> \in Parts,
         WholeFrames(parts), AnswersInOrder(parts),
         Len(parts) % 2 = 1, parts[Len(parts)] = <<x, "head">>
  PROVE  LET more == Append(parts, <<x, "tail">>)
         IN  /\ more \in Seq(Parts) /\ DOMAIN more = 1 .. (Len(parts) + 1)
             /\ \A k \in DOMAIN parts : more[k] = parts[k]
             /\ WholeFrames(more) /\ AnswersInOrder(more)
             /\ Len(more) % 2 = 0 /\ more[Len(parts) + 1] = <<x, "tail">>
<1> DEFINE more == Append(parts, <<x, "tail">>)
<1>1. /\ more \in Seq(Parts) /\ Len(more) = Len(parts) + 1 /\ Len(parts) \in Nat
      /\ DOMAIN more = 1 .. (Len(parts) + 1) /\ DOMAIN parts = 1 .. Len(parts)
      /\ \A k \in DOMAIN parts : more[k] = parts[k]
      /\ more[Len(parts) + 1] = <<x, "tail">>
  OBVIOUS
<1> HIDE DEF more
<1>2. (Len(parts) + 1) % 2 = 0 /\ Len(parts) \in DOMAIN parts
  <2>1. Len(parts) # 0
    OBVIOUS
  <2> QED BY <1>1, <2>1, Parity
<1>3. WholeFrames(more)
  <2>1. \A k \in DOMAIN parts :
          IF k % 2 = 1 THEN more[k][2] = "head" ELSE more[k] = <<more[k - 1][1], "tail">>
    BY <1>1, FramesBefore
  <2>2. more[Len(parts) + 1] = <<more[Len(parts)][1], "tail">>
    BY <1>1, <1>2
  <2>3. \A k \in DOMAIN more : k \in DOMAIN parts \/ k = Len(parts) + 1
    BY <1>1
  <2>4. (Len(parts) + 1) - 1 = Len(parts) /\ (Len(parts) + 1) % 2 # 1
    BY <1>1, <1>2
  <2> QED BY <2>1, <2>2, <2>3, <2>4 DEF WholeFrames
<1>4. AnswersInOrder(more)
  BY <1>1 DEF AnswersInOrder
<1> QED BY <1>1, <1>2, <1>3, <1>4 DEF more

\* What a socket's part of the invariant depends on
LEMMA AloneKept ==
  ASSUME NEW s, Alone(s), out'[s] = out[s], s \in pong' => s \in pong,
         link'[s] # "broken" => link[s] # "broken" /\ (s \in pong => s \in pong'),
         TasksOf(s)' = TasksOf(s), \A i \in TasksOf(s) : tasks'[i].stage = tasks[i].stage
  PROVE  Alone(s)'
<1>1. Unanswered(s)' = Unanswered(s) /\ Sending(s)' = Sending(s)
  BY DEF Unanswered, Sending
<1> QED BY <1>1 DEF Alone, OpenHead

\* A step of a coroutine that is no part of a frame
LEMMA QuietStep ==
  ASSUME PipelineTypeOK, NEW i \in TaskIds, TaskStep(i), ~SendHead(i), ~SendTail(i), ~SendFails(i)
  PROVE  /\ out' = out
         /\ i \in DOMAIN tasks /\ tasks[i].stage \notin {"sending", "done"}
         /\ tasks'[i].stage \notin {"sending", "done"}
<1>1. i \in DOMAIN tasks /\ tasks \in Seq(Tasks)
  BY TaskStepMoves DEF Moves, PipelineTypeOK, Tasks, Digits
<1>2. out' = out
  BY DEF TaskStep, Start, Resolved, Expire, NetworkSucceeds, NetworkFails, Complete
<1>3. tasks[i].stage \notin {"sending", "done"}
  BY DEF TaskStep, Start, Resolved, Expire, NetworkSucceeds, NetworkFails, Complete,
         Advance, Timed
<1>4. tasks[i] \in Tasks
  BY <1>1
<1>5. CASE Start(i)
  BY <1>1, <1>4, <1>5 DEF Start, Tasks
<1>6. CASE Expire(i)
  BY <1>1, <1>3, <1>4, <1>6 DEF Expire, Tasks
<1>7. ASSUME NEW from, NEW to \in {"connecting", "writing", "reading", "answered", "queued"},
             Advance(i, from, to)
      PROVE  tasks'[i].stage \notin {"sending", "done"}
  BY <1>1, <1>4, <1>7 DEF Advance, Tasks
<1>8. CASE Resolved(i) \/ NetworkSucceeds(i) \/ NetworkFails(i) \/ Complete(i)
  BY <1>1, <1>2, <1>3, <1>7, <1>8 DEF Resolved, NetworkSucceeds, NetworkFails, Complete
<1> QED BY <1>1, <1>2, <1>3, <1>5, <1>6, <1>8 DEF TaskStep

\* A coroutine finds the socket with nobody else's frame open.
LEMMA SenderFacts ==
  ASSUME PipelineTypeOK, LockInv, NEW i \in DOMAIN tasks, tasks[i].stage # "done",
         NEW s, s = tasks[i].sock, s \notin pipelined
  PROVE  /\ s \in Sockets /\ Alone(s) /\ i \in TasksOf(s)
         /\ s \notin pong
         /\ out[s] \in Seq(Parts)
         /\ \A j \in TasksOf(s) : j <= i /\ (j # i => tasks[j].stage = "done")
<1>1. tasks[i] \in Tasks /\ DOMAIN tasks = 1 .. Len(tasks) /\ Len(tasks) \in Nat
  <2>1. tasks \in Seq(Tasks)
    BY DEF PipelineTypeOK, Tasks, Digits
  <2> QED BY <2>1
<1>2. s \in Sockets /\ out[s] \in Seq(Parts)
  BY <1>1 DEF PipelineTypeOK, Tasks, Parts
<1>3. Alone(s) /\ i \in Unanswered(s) /\ i \in TasksOf(s)
  BY <1>2 DEF LockInv, Unanswered, TasksOf
<1>4. s \notin pong /\ \A j \in TasksOf(s) : j <= i
  BY <1>3 DEF Alone
<1>5. ASSUME NEW j \in TasksOf(s), tasks[j].stage # "done" PROVE j = i
  <2>1. j \in Unanswered(s) /\ j <= i /\ i <= j
    BY <1>3, <1>4, <1>5 DEF Alone, Unanswered
  <2> QED BY <1>1, <1>3, <2>1 DEF TasksOf
<1> QED BY <1>2, <1>3, <1>4, <1>5

LEMMA LockTask ==
  ASSUME PipelineTypeOK, LockInv, NEW i \in TaskIds, TaskStep(i),
         NEW s \in Sockets \ pipelined
  PROVE  Alone(s)'
<1>0. /\ tasks \in Seq(Tasks) /\ i \in DOMAIN tasks /\ tasks[i].stage # "done"
      /\ DOMAIN tasks' = DOMAIN tasks
      /\ \A j \in DOMAIN tasks : tasks'[j].sock = tasks[j].sock
      /\ \A j \in DOMAIN tasks \ {i} : tasks'[j] = tasks[j]
      /\ link' = link /\ pong' = pong /\ Alone(s)
      /\ out \in [Sockets -> Seq(Parts)] /\ Len(tasks) <= MaxMessages /\ i \in Nat \ {0}
  <2>1. tasks \in Seq(Tasks) /\ Moves(i) /\ SocketsUnchanged
    BY TaskStepMoves DEF PipelineTypeOK, Tasks, Digits
  <2>2. out \in [Sockets -> Seq(Parts)] /\ Len(tasks) <= MaxMessages
    BY DEF PipelineTypeOK, Parts
  <2> QED BY <2>1, <2>2, MoveFacts DEF Moves, SocketsUnchanged, LockInv, TaskIds
<1>1. TasksOf(s)' = TasksOf(s)
  BY <1>0 DEF TasksOf
<1>2. CASE tasks[i].sock # s
  <2>1. out'[s] = out[s]
    <3>1. CASE SendHead(i) \/ SendTail(i) \/ SendFails(i)
      BY <1>0, <1>2, <3>1 DEF SendHead, SendTail, SendFails, WritePart
    <3> QED BY <3>1, QuietStep
  <2>2. i \notin TasksOf(s)
    BY <1>2 DEF TasksOf
  <2>3. \A j \in TasksOf(s) : tasks'[j].stage = tasks[j].stage
    BY <1>0, <2>2 DEF TasksOf
  <2> QED BY <1>0, <1>1, <2>1, <2>3, AloneKept
<1>3. CASE tasks[i].sock = s
  <2>0. /\ i \in TasksOf(s) /\ s \notin pong /\ out[s] \in Seq(Parts)
        /\ \A j \in TasksOf(s) : j <= i /\ (j # i => tasks[j].stage = "done")
        /\ \A j \in TasksOf(s) \ {i} : tasks'[j].stage = "done"
    BY <1>0, <1>3, SenderFacts DEF TasksOf
  <2>1. \A j \in TasksOf(s) \ {i} : j \notin Sending(s)' /\ j \notin Unanswered(s)' /\ j < i
    BY <1>0, <1>1, <2>0 DEF Sending, Unanswered, TasksOf
  <2>2. \A j \in Unanswered(s)', k \in TasksOf(s)' : k <= j
    BY <1>1, <2>0, <2>1 DEF Unanswered
  <2>3. CASE ~SendHead(i) /\ ~SendTail(i) /\ ~SendFails(i)
    <3>1. out' = out /\ {tasks[i].stage, tasks'[i].stage} \cap {"sending", "done"} = {}
      BY <2>3, QuietStep
    <3>2. Sending(s)' = {} /\ Sending(s) = {}
      BY <1>0, <1>1, <2>0, <2>1, <3>1 DEF Sending
    <3>3. \A k \in DOMAIN out[s] : out[s][k][1] # 0 =>
             /\ out[s][k][1] \in TasksOf(s)'
             /\ tasks'[out[s][k][1]].stage \in {"sending", "done"}
      BY <1>0, <1>1, <2>0, <3>1 DEF Alone
    <3> QED BY <1>0, <2>0, <2>2, <3>1, <3>2, <3>3 DEF Alone
  <2>4. CASE SendHead(i)
    <3>1. tasks[i].stage = "queued" /\ tasks'[i].stage = "sending"
      <4>1. tasks[i] \in Tasks
        BY <1>0
      <4> QED BY <1>0, <2>4, <4>1 DEF SendHead, Advance, Tasks
    <3>2. Sending(s) = {} /\ Sending(s)' = {i}
      BY <1>0, <1>1, <2>0, <2>1, <3>1 DEF Sending
    <3>3. \A k \in DOMAIN out[s] : out[s][k][1] # 0 =>
             /\ out[s][k][1] \in TasksOf(s) \ {i}
             /\ out[s][k][1] < i
      BY <1>0, <2>1, <3>1 DEF Alone
    <3>4. link[s] # "broken"
      BY <1>3, <2>4 DEF SendHead, WritePart
    <3> DEFINE more == Append(out[s], <<i, "head">>)
    <3>5. out'[s] = more
      BY <1>0, <1>3, <2>4, <3>4 DEF SendHead, WritePart
    <3>6. <<i, "head">> \in Parts /\ Len(out[s]) % 2 = 0
      BY <1>0, <2>0, <3>2, <3>4 DEF Parts, TaskIds, Alone
    <3>7. /\ DOMAIN more = 1 .. (Len(out[s]) + 1) /\ DOMAIN out[s] = 1 .. Len(out[s])
          /\ Len(out[s]) \in Nat
          /\ \A k \in DOMAIN out[s] : more[k] = out[s][k]
          /\ WholeFrames(more) /\ AnswersInOrder(more)
          /\ Len(more) % 2 = 1 /\ more[Len(more)] = <<i, "head">>
          /\ more[Len(out[s]) + 1] = <<i, "head">>
      BY <1>0, <2>0, <3>3, <3>6, HeadAppended DEF Alone
    <3> HIDE DEF more
    <3>8. \A k \in DOMAIN more : more[k][1] # 0 =>
             /\ more[k][1] \in TasksOf(s)'
             /\ tasks'[more[k][1]].stage \in {"sending", "done"}
      <4>1. \A k \in DOMAIN more : k \in DOMAIN out[s] \/ k = Len(out[s]) + 1
        BY <3>7
      <4> QED BY <1>1, <2>0, <3>1, <3>3, <3>7, <4>1
    <3> QED BY <1>0, <2>0, <2>2, <3>2, <3>4, <3>5, <3>7, <3>8 DEF Alone, OpenHead
  <2>5. CASE SendTail(i)
    <3>1. tasks[i].stage = "sending" /\ tasks'[i].stage = "done"
      <4>1. tasks[i] \in Tasks
        BY <1>0
      <4> QED BY <1>0, <2>5, <4>1 DEF SendTail, Advance, Tasks
    <3>2. i \in Sending(s) /\ Sending(s)' = {}
      BY <1>0, <1>1, <2>0, <2>1, <3>1 DEF Sending
    <3>3. \A k \in DOMAIN out[s] : out[s][k][1] # 0 =>
             /\ out[s][k][1] \in TasksOf(s)'
             /\ tasks'[out[s][k][1]].stage \in {"sending", "done"}
      BY <1>0, <1>1, <2>0, <3>1 DEF Alone
    <3>4. link[s] # "broken"
      BY <1>3, <2>5 DEF SendTail, WritePart
    <3> DEFINE more == Append(out[s], <<i, "tail">>)
    <3>5. out'[s] = more
      BY <1>0, <1>3, <2>5, <3>4 DEF SendTail, WritePart
    <3>6. <<i, "tail">> \in Parts /\ Len(out[s]) % 2 = 1 /\ out[s][Len(out[s])] = <<i, "head">>
      BY <1>0, <2>0, <3>2, <3>4 DEF Parts, TaskIds, Alone, OpenHead
    <3>7. /\ DOMAIN more = 1 .. (Len(out[s]) + 1) /\ DOMAIN out[s] = 1 .. Len(out[s])
          /\ Len(out[s]) \in Nat
          /\ \A k \in DOMAIN out[s] : more[k] = out[s][k]
          /\ WholeFrames(more) /\ AnswersInOrder(more)
          /\ Len(more) % 2 = 0 /\ more[Len(out[s]) + 1] = <<i, "tail">>
      BY <1>0, <2>0, <3>6, TailAppended DEF Alone
    <3> HIDE DEF more
    <3>8. \A k \in DOMAIN more : more[k][1] # 0 =>
             /\ more[k][1] \in TasksOf(s)'
             /\ tasks'[more[k][1]].stage \in {"sending", "done"}
      <4>1. \A k \in DOMAIN more : k \in DOMAIN out[s] \/ k = Len(out[s]) + 1
        BY <3>7
      <4> QED BY <1>1, <2>0, <3>1, <3>3, <3>7, <4>1
    <3> QED BY <1>0, <2>0, <2>2, <3>2, <3>4, <3>5, <3>7, <3>8 DEF Alone, OpenHead
  <2>6. CASE SendFails(i)
    <3>1. /\ tasks'[i].stage = "done" /\ link[s] = "broken" /\ out' = out
          /\ tasks[i] \in Tasks
      <4>1. tasks[i] \in Tasks
        BY <1>0
      <4> QED BY <1>0, <1>3, <2>6, <4>1 DEF SendFails, Advance, Tasks
    <3>2. \A k \in DOMAIN out[s] : out[s][k][1] # 0 =>
             /\ out[s][k][1] \in TasksOf(s)'
             /\ tasks'[out[s][k][1]].stage \in {"sending", "done"}
      BY <1>0, <1>1, <2>0, <3>1 DEF Alone
    <3> QED BY <1>0, <2>0, <2>2, <3>1, <3>2 DEF Alone
  <2> QED BY <2>3, <2>4, <2>5, <2>6
<1> QED BY <1>2, <1>3

LEMMA LockSocket ==
  ASSUME PipelineTypeOK, LockInv, NEW r \in Sockets, SocketStep(r),
         NEW s \in Sockets, s \notin pipelined'
  PROVE  Alone(s)'
<1>0. /\ tasks \in Seq(Tasks) /\ DOMAIN tasks = 1 .. Len(tasks) /\ Len(tasks) \in Nat
      /\ out \in [Sockets -> Seq(Parts)]
      /\ conn \in [Sockets -> {"none", "open", "closed"}]
      /\ s \notin pipelined
      /\ link \in [Sockets -> {"up", "stalled", "broken"}]
  <2>1. tasks \in Seq(Tasks) /\ out \in [Sockets -> Seq(Parts)]
    BY DEF PipelineTypeOK, Tasks, Digits, Parts
  <2>2. pipelined \subseteq pipelined'
    BY DEF SocketStep, Open, ReadFrame, ReadEnd, OnPing, PongWritten, Close,
           LinkWorsens, Unmap, Free, Reads
  <2> QED BY <2>1, <2>2 DEF PipelineTypeOK, LockInv
<1>1. Alone(s)
  BY <1>0 DEF LockInv
<1>2. CASE ReadEnd(r)
  <2>0. /\ UNCHANGED <<link, out, pong>> /\ r \notin pong
        /\ s = r => Unanswered(r) = {}
    BY <1>2 DEF ReadEnd, Reads
  <2>1. PICK n \in Nat : n = Len(tasks) + 1
    BY <1>0
  <2>2. /\ DOMAIN tasks' = DOMAIN tasks \cup {n}
        /\ \A j \in DOMAIN tasks : tasks'[j] = tasks[j]
        /\ tasks'[n].sock = r /\ tasks'[n].stage = "spawned"
    <3> DEFINE task == [sock |-> r, msg |-> buffer[r], stage |-> "spawned",
                        expired |-> FALSE, dialled |-> Configured]
    <3>1. task \in Tasks
      BY DEF PipelineTypeOK, Tasks, Digits, Stages, InHttp
    <3>2. tasks' = Append(tasks, task)
      BY <1>2 DEF ReadEnd, Dispatch
    <3>3. task.sock = r /\ task.stage = "spawned"
      OBVIOUS
    <3> HIDE DEF task
    <3> QED BY <1>0, <2>1, <3>1, <3>2, <3>3
  <2>3. CASE s # r
    <3>1. TasksOf(s)' = TasksOf(s)
      BY <1>0, <2>1, <2>2, <2>3 DEF TasksOf
    <3>2. \A j \in TasksOf(s) : tasks'[j].stage = tasks[j].stage
      BY <2>2 DEF TasksOf
    <3> QED BY <1>0, <1>1, <2>0, <3>1, <3>2, AloneKept
  <2>4. CASE s = r
    <3>1. TasksOf(s)' = TasksOf(s) \cup {n}
      BY <1>0, <2>1, <2>2, <2>4 DEF TasksOf
    <3>2. \A j \in TasksOf(s) : j < n /\ tasks[j].stage = "done" /\ tasks'[j].stage = "done"
      BY <1>0, <2>0, <2>1, <2>2, <2>4 DEF Unanswered, TasksOf
    <3>3. Sending(s) = {} /\ Sending(s)' = {} /\ Unanswered(s)' = {n}
      BY <2>2, <3>1, <3>2 DEF Sending, Unanswered
    <3>4. \A k \in DOMAIN out[s] : out[s][k][1] # 0 =>
             /\ out[s][k][1] \in TasksOf(s)'
             /\ tasks'[out[s][k][1]].stage \in {"sending", "done"}
      BY <1>1, <3>1, <3>2 DEF Alone
    <3>5. \A j \in TasksOf(s)' : j <= n
      <4>1. TasksOf(s) \subseteq Nat
        BY <1>0 DEF TasksOf
      <4> QED BY <2>1, <3>1, <3>2, <4>1
    <3> QED BY <1>1, <2>0, <2>4, <3>3, <3>4, <3>5 DEF Alone
  <2> QED BY <2>3, <2>4
<1>3. CASE OnPing(r) /\ s = r
  <2>0. /\ UNCHANGED <<link, tasks>> /\ r \notin pong /\ pong' = pong \cup {r}
        /\ link[r] # "broken" /\ Unanswered(r) = {}
        /\ out'[r] = Append(out[r], <<0, "head">>)
    BY <1>0, <1>3 DEF OnPing, Reads
  <2>1. TasksOf(s)' = TasksOf(s) /\ Unanswered(s)' = {} /\ Sending(s) = {} /\ Sending(s)' = {}
    BY <1>3, <2>0 DEF TasksOf, Unanswered, Sending
  <2>2. Len(out[s]) % 2 = 0 /\ out[s] \in Seq(Parts)
    BY <1>0, <1>1, <1>3, <2>0, <2>1 DEF Alone
  <2> DEFINE more == Append(out[s], <<0, "head">>)
  <2>3. /\ DOMAIN more = 1 .. (Len(out[s]) + 1) /\ DOMAIN out[s] = 1 .. Len(out[s])
        /\ Len(out[s]) \in Nat
        /\ \A k \in DOMAIN out[s] : more[k] = out[s][k]
        /\ WholeFrames(more) /\ AnswersInOrder(more)
        /\ Len(more) % 2 = 1 /\ more[Len(more)] = <<0, "head">>
        /\ more[Len(out[s]) + 1] = <<0, "head">>
    <3>1. /\ DOMAIN out[s] = 1 .. Len(out[s]) /\ Len(out[s]) \in Nat
          /\ more[Len(out[s]) + 1] = <<0, "head">>
      BY <2>2
    <3>2. WholeFrames(out[s]) /\ AnswersInOrder(out[s])
      BY <1>1 DEF Alone
    <3> QED BY <2>2, <3>1, <3>2, PongParts, HeadAppended
  <2>4. out'[s] = more
    BY <1>3, <2>0
  <2> HIDE DEF more
  <2>5. \A k \in DOMAIN more : k \in DOMAIN out[s] \/ k = Len(out[s]) + 1
    BY <2>3
  <2>6. \A k \in DOMAIN more : more[k][1] # 0 =>
           /\ more[k][1] \in TasksOf(s)'
           /\ tasks'[more[k][1]].stage \in {"sending", "done"}
    BY <1>1, <2>0, <2>1, <2>3, <2>5 DEF Alone
  <2> QED BY <1>3, <2>0, <2>1, <2>3, <2>4, <2>6 DEF Alone, OpenHead
<1>4. CASE PongWritten(r) /\ s = r
  <2>0. /\ UNCHANGED <<link, tasks>> /\ r \in pong /\ pong' = pong \ {r}
        /\ link[r] # "broken" /\ Unanswered(r) = {}
        /\ out'[r] = Append(out[r], <<0, "tail">>)
    BY <1>0, <1>1, <1>4 DEF PongWritten, Alone
  <2>1. TasksOf(s)' = TasksOf(s) /\ Unanswered(s)' = {} /\ Sending(s)' = {}
    BY <1>4, <2>0 DEF TasksOf, Unanswered, Sending
  <2>2. Len(out[s]) % 2 = 1 /\ out[s][Len(out[s])] = <<0, "head">> /\ out[s] \in Seq(Parts)
    BY <1>0, <1>1, <1>4, <2>0 DEF Alone, OpenHead
  <2> DEFINE more == Append(out[s], <<0, "tail">>)
  <2>3. /\ DOMAIN more = 1 .. (Len(out[s]) + 1) /\ DOMAIN out[s] = 1 .. Len(out[s])
        /\ Len(out[s]) \in Nat
        /\ \A k \in DOMAIN out[s] : more[k] = out[s][k]
        /\ WholeFrames(more) /\ AnswersInOrder(more)
        /\ Len(more) % 2 = 0 /\ more[Len(out[s]) + 1] = <<0, "tail">>
    <3>1. /\ DOMAIN out[s] = 1 .. Len(out[s]) /\ Len(out[s]) \in Nat
          /\ more[Len(out[s]) + 1] = <<0, "tail">>
      BY <2>2
    <3>2. WholeFrames(out[s]) /\ AnswersInOrder(out[s])
      BY <1>1 DEF Alone
    <3> QED BY <2>2, <3>1, <3>2, PongParts, TailAppended
  <2>4. out'[s] = more
    BY <1>4, <2>0
  <2> HIDE DEF more
  <2>5. \A k \in DOMAIN more : k \in DOMAIN out[s] \/ k = Len(out[s]) + 1
    BY <2>3
  <2>6. \A k \in DOMAIN more : more[k][1] # 0 =>
           /\ more[k][1] \in TasksOf(s)'
           /\ tasks'[more[k][1]].stage \in {"sending", "done"}
    BY <1>1, <2>0, <2>1, <2>3, <2>5 DEF Alone
  <2> QED BY <1>4, <2>0, <2>1, <2>3, <2>4, <2>6 DEF Alone, OpenHead
<1>5. CASE \/ Open(r) \/ ReadFrame(r) \/ Close(r) \/ LinkWorsens(r) \/ Unmap(r) \/ Free(r)
            \/ (OnPing(r) /\ s # r) \/ (PongWritten(r) /\ s # r)
  <2>1. /\ tasks' = tasks /\ out'[s] = out[s] /\ (s \in pong' => s \in pong)
        /\ link'[s] # "broken" => link[s] # "broken" /\ (s \in pong => s \in pong')
    BY <1>0, <1>5 DEF Open, ReadFrame, Close, LinkWorsens, Worse, Unmap, Free, OnPing, PongWritten
  <2>2. TasksOf(s)' = TasksOf(s)
    BY <2>1 DEF TasksOf
  <2> QED BY <1>1, <2>1, <2>2, AloneKept
<1> QED BY <1>2, <1>3, <1>4, <1>5 DEF SocketStep

LEMMA LockStep == PipelineTypeOK /\ LockInv /\ [Next]_vars => LockInv'
<1> SUFFICES ASSUME PipelineTypeOK, LockInv, [Next]_vars PROVE LockInv'
  OBVIOUS
<1>0. tasks \in Seq(Tasks) /\ conn \in [Sockets -> {"none", "open", "closed"}] /\ pong \subseteq Sockets
  BY DEF PipelineTypeOK, Tasks, Digits
<1>1. ASSUME NEW i \in TaskIds, TaskStep(i)
      PROVE  LockInv'
  <2>1. /\ UNCHANGED <<conn, pong, pipelined>> /\ DOMAIN tasks' = DOMAIN tasks
        /\ \A j \in DOMAIN tasks : tasks'[j].sock = tasks[j].sock
    BY <1>0, <1>1, TaskStepMoves, MoveFacts DEF SocketsUnchanged
  <2>2. \A s : TasksOf(s)' = TasksOf(s)
    BY <2>1 DEF TasksOf
  <2> QED BY <1>1, <2>1, <2>2, LockTask DEF LockInv
<1>2. ASSUME NEW r \in Sockets, SocketStep(r)
      PROVE  LockInv'
  <2>1. \A s \in Sockets : conn'[s] = "none" => TasksOf(s)' = {}
    <3>1. CASE ReadEnd(r)
      <4>1. /\ conn' = conn /\ conn[r] = "open"
            /\ \A j \in DOMAIN tasks' : \/ j \in DOMAIN tasks /\ tasks'[j] = tasks[j]
                                        \/ tasks'[j].sock = r
        BY <1>0, <3>1, DispatchFacts DEF ReadEnd, Reads
      <4> QED BY <4>1 DEF LockInv, TasksOf
    <3>2. CASE ~ReadEnd(r)
      <4>1. tasks' = tasks /\ \A s \in Sockets : conn'[s] = "none" => conn[s] = "none"
        BY <1>0, <1>2, <3>2 DEF SocketStep, Open, ReadFrame, OnPing, PongWritten, Close,
                                 LinkWorsens, Unmap, Free
      <4> QED BY <4>1 DEF LockInv, TasksOf
    <3> QED BY <3>1, <3>2
  <2>2. \A s \in pong' : conn'[s] = "open"
    BY <1>0, <1>2 DEF LockInv, SocketStep, Open, ReadFrame, ReadEnd, OnPing, PongWritten,
                      Close, LinkWorsens, Unmap, Free, Reads
  <2> QED BY <1>2, <2>1, <2>2, LockSocket DEF LockInv
<1>3. CASE UNCHANGED vars
  <2>1. UNCHANGED <<conn, link, pong, tasks, out, pipelined>>
    BY <1>3 DEF vars
  <2>2. \A s : TasksOf(s)' = TasksOf(s)
    BY <2>1 DEF TasksOf
  <2>3. ASSUME NEW s \in Sockets \ pipelined
        PROVE  Alone(s)'
    BY <2>1, <2>2, AloneKept DEF LockInv
  <2> QED BY <2>1, <2>2, <2>3 DEF LockInv
<1> QED BY <1>1, <1>2, <1>3, PipelineCases

\* LockStepVehicleIsServed: without a write lock, and with every answer written
\* by a coroutine of its own, a vehicle that waits for its answers gets whole
\* frames in order, for any sockets, messages and pings
\* (WebSocketListener.cpp:51-63 and 116).
THEOREM LockStepNeedsNoLock == Spec => []LockStepVehicleIsServed
<1>1. LockInv => LockStepVehicleIsServed
  BY DEF LockInv, Alone, LockStepVehicleIsServed
<1> QED
  BY <1>1, PipelineTypeInit, PipelineTypeStep, LockInit, LockStep, PTL DEF Spec
-----------------------------------------------------------------------------
(***************************************************************************)
(* Once.  For any vehicle, frames may mix; but what has been written of an *)
(* answer follows from the stage of its message, and the stages only go    *)
(* forward: a head when it is queued, a tail when it is being sent.        *)
(***************************************************************************)
OnceParts(parts) ==
    \A k \in DOMAIN parts : parts[k][1] # 0 =>
        /\ \A j \in DOMAIN parts : parts[j] = parts[k] => j = k
        /\ parts[k][2] = "tail" => \E j \in 1..k : parts[j] = <<parts[k][1], "head">>

Begun(s, part) ==
    /\ part[1] \in TasksOf(s)
    /\ tasks[part[1]].stage \in {"sending", "done"}
    /\ part[2] = "tail" => tasks[part[1]].stage = "done"

Once(s) ==
    /\ OnceParts(out[s])
    /\ \A k \in DOMAIN out[s] : out[s][k][1] # 0 => Begun(s, out[s][k])
    /\ \A i \in Sending(s) : \E k \in DOMAIN out[s] : out[s][k] = <<i, "head">>

OnceInv == \A s \in Sockets : Once(s)

LEMMA OnceInit == Init => OnceInv
<1> SUFFICES ASSUME Init, NEW s \in Sockets PROVE Once(s)
  BY DEF OnceInv
<1>1. out[s] = <<>> /\ Sending(s) = {}
  BY DEF Init, Sending, TasksOf
<1> QED BY <1>1 DEF Once, OnceParts

\* A part of a pong, or one that is new and, if a tail, has its head
LEMMA PartAppended ==
  ASSUME NEW parts \in Seq(Parts), NEW part \in Parts, OnceParts(parts),
         part[1] # 0 => \A j \in DOMAIN parts : parts[j] # part,
         part[1] # 0 /\ part[2] = "tail" => \E j \in DOMAIN parts : parts[j] = <<part[1], "head">>
  PROVE  /\ OnceParts(Append(parts, part))
         /\ \A k \in DOMAIN Append(parts, part) :
              Append(parts, part)[k] = part \/ \E j \in DOMAIN parts : Append(parts, part)[k] = parts[j]
         /\ \A k \in DOMAIN parts : k \in DOMAIN Append(parts, part) /\ Append(parts, part)[k] = parts[k]
         /\ \E k \in DOMAIN Append(parts, part) : Append(parts, part)[k] = part
<1> DEFINE more == Append(parts, part)
           last == Len(parts) + 1
<1>1. /\ DOMAIN parts = 1 .. Len(parts) /\ Len(parts) \in Nat /\ DOMAIN more = 1 .. last
      /\ \A k \in DOMAIN parts : more[k] = parts[k]
      /\ more[last] = part
  OBVIOUS
<1> HIDE DEF more
<1>2. DOMAIN more = DOMAIN parts \cup {last} /\ last \notin DOMAIN parts
  BY <1>1
<1>3. ASSUME NEW k \in DOMAIN more, more[k][1] # 0
      PROVE  /\ \A j \in DOMAIN more : more[j] = more[k] => j = k
             /\ more[k][2] = "tail" => \E j \in 1..k : more[j] = <<more[k][1], "head">>
  <2>1. CASE k = last
    <3>1. DOMAIN parts \subseteq 1..last
      BY <1>1
    <3> QED BY <1>1, <1>2, <1>3, <2>1, <3>1
  <2>2. CASE k \in DOMAIN parts
    <3>1. parts[k] # part /\ more[k] = parts[k]
      BY <1>1, <1>3, <2>2
    <3>2. 1..k \subseteq DOMAIN parts
      BY <1>1, <2>2
    <3>3. /\ \A j \in DOMAIN parts : parts[j] = parts[k] => j = k
          /\ parts[k][2] = "tail" => \E j \in 1..k : parts[j] = <<parts[k][1], "head">>
      BY <1>3, <2>2, <3>1 DEF OnceParts
    <3>4. \A j \in DOMAIN more : more[j] = more[k] => j = k
      BY <1>1, <1>2, <3>1, <3>3
    <3> QED BY <1>1, <3>1, <3>2, <3>3, <3>4
  <2> QED BY <1>2, <2>1, <2>2
<1>4. OnceParts(more)
  BY <1>3 DEF OnceParts
<1> QED BY <1>1, <1>2, <1>4 DEF more

\* What a socket's part of the invariant depends on
LEMMA OnceKept ==
  ASSUME NEW s, Once(s), out'[s] = out[s],
         TasksOf(s) \subseteq TasksOf(s)',
         \A i \in TasksOf(s) : tasks'[i].stage = tasks[i].stage,
         Sending(s)' \subseteq Sending(s)
  PROVE  Once(s)'
  BY DEF Once, Begun

LEMMA OncePong ==
  ASSUME PipelineTypeOK, NEW s \in Sockets, Once(s), NEW part \in {<<0, "head">>, <<0, "tail">>},
         out' = [out EXCEPT ![s] = Append(@, part)], UNCHANGED tasks
  PROVE  Once(s)'
<1>1. out[s] \in Seq(Parts) /\ out'[s] = Append(out[s], part) /\ part \in Parts /\ part[1] = 0
  BY PongParts DEF PipelineTypeOK, Parts
<1>2. TasksOf(s)' = TasksOf(s) /\ Sending(s)' = Sending(s)
  BY DEF TasksOf, Sending
<1>3. OnceParts(out[s])
  BY DEF Once
<1>4. /\ OnceParts(out[s])'
      /\ \A k \in DOMAIN out'[s] :
           out'[s][k] = part \/ \E j \in DOMAIN out[s] : out'[s][k] = out[s][j]
      /\ \A k \in DOMAIN out[s] : k \in DOMAIN out'[s] /\ out'[s][k] = out[s][k]
  BY <1>1, <1>3, PartAppended
<1> QED BY <1>1, <1>2, <1>4 DEF Once, Begun

\* The new task is the last one, and nobody's but its socket's.
LEMMA DispatchAdds ==
  ASSUME PipelineTypeOK, NEW r \in Sockets, Dispatch(r), NEW n, n = Len(tasks) + 1
  PROVE  /\ DOMAIN tasks' = DOMAIN tasks \cup {n} /\ n \notin DOMAIN tasks /\ n \in Nat \ {0}
         /\ \A j \in DOMAIN tasks : j \in Nat /\ j < n /\ tasks'[j] = tasks[j]
         /\ tasks'[n].sock = r /\ tasks'[n].stage = "spawned"
         /\ TasksOf(r)' = TasksOf(r) \cup {n}
         /\ \A s : s # r => TasksOf(s)' = TasksOf(s)
<1> DEFINE task == [sock |-> r, msg |-> buffer[r], stage |-> "spawned",
                    expired |-> FALSE, dialled |-> Configured]
<1>1. tasks \in Seq(Tasks) /\ task \in Tasks
  BY DEF PipelineTypeOK, Tasks, Digits, Stages, InHttp
<1>2. tasks' = Append(tasks, task)
  BY DEF Dispatch
<1>3. task.sock = r /\ task.stage = "spawned"
  OBVIOUS
<1> HIDE DEF task
<1>4. /\ DOMAIN tasks' = DOMAIN tasks \cup {n} /\ n \notin DOMAIN tasks /\ n \in Nat \ {0}
      /\ \A j \in DOMAIN tasks : j \in Nat /\ j < n /\ tasks'[j] = tasks[j]
      /\ tasks'[n] = task
  BY <1>1, <1>2
<1> QED BY <1>3, <1>4 DEF TasksOf

LEMMA OnceSocket ==
  ASSUME PipelineTypeOK, NEW r \in Sockets, SocketStep(r), NEW s \in Sockets, Once(s)
  PROVE  Once(s)'
<1>0. out \in [Sockets -> Seq(Parts)]
  BY DEF PipelineTypeOK, Parts
<1>1. CASE ReadEnd(r)
  <2>1. out' = out /\ Dispatch(r)
    BY <1>1 DEF ReadEnd
  <2>2. /\ TasksOf(s) \subseteq TasksOf(s)'
        /\ \A j \in TasksOf(s) : tasks'[j].stage = tasks[j].stage
        /\ Sending(s)' \subseteq Sending(s)
    BY <2>1, DispatchAdds DEF TasksOf, Sending
  <2> QED BY <2>1, <2>2, OnceKept
<1>2. CASE OnPing(r) \/ PongWritten(r)
  <2>1. tasks' = tasks
    BY <1>2 DEF OnPing, PongWritten
  <2>2. CASE s = r
    BY <1>2, <2>1, <2>2, OncePong DEF OnPing, PongWritten
  <2>3. CASE s # r
    <3>1. out'[s] = out[s] /\ TasksOf(s)' = TasksOf(s) /\ Sending(s)' = Sending(s)
      BY <1>0, <1>2, <2>1, <2>3 DEF OnPing, PongWritten, TasksOf, Sending
    <3> QED BY <2>1, <3>1, OnceKept
  <2> QED BY <2>2, <2>3
<1>3. CASE Open(r) \/ ReadFrame(r) \/ Close(r) \/ LinkWorsens(r) \/ Unmap(r) \/ Free(r)
  <2>1. UNCHANGED <<out, tasks>>
    BY <1>3 DEF Open, ReadFrame, Close, LinkWorsens, Unmap, Free
  <2>2. TasksOf(s)' = TasksOf(s) /\ Sending(s)' = Sending(s)
    BY <2>1 DEF TasksOf, Sending
  <2> QED BY <2>1, <2>2, OnceKept
<1> QED BY <1>1, <1>2, <1>3 DEF SocketStep

LEMMA OnceTask ==
  ASSUME PipelineTypeOK, NEW i \in TaskIds, TaskStep(i), NEW s \in Sockets, Once(s)
  PROVE  Once(s)'
<1>0. /\ tasks \in Seq(Tasks) /\ i \in DOMAIN tasks /\ tasks[i] \in Tasks
      /\ DOMAIN tasks' = DOMAIN tasks
      /\ \A j \in DOMAIN tasks : tasks'[j].sock = tasks[j].sock
      /\ \A j \in DOMAIN tasks \ {i} : tasks'[j] = tasks[j]
      /\ out \in [Sockets -> Seq(Parts)] /\ i # 0
      /\ TasksOf(s)' = TasksOf(s)
  <2>1. tasks \in Seq(Tasks) /\ Moves(i)
    BY TaskStepMoves DEF PipelineTypeOK, Tasks, Digits
  <2>2. out \in [Sockets -> Seq(Parts)] /\ i # 0
    BY DEF PipelineTypeOK, Parts, TaskIds
  <2>3. /\ DOMAIN tasks' = DOMAIN tasks
        /\ \A j \in DOMAIN tasks : tasks'[j].sock = tasks[j].sock
    BY <2>1, MoveFacts
  <2>4. TasksOf(s)' = TasksOf(s)
    BY <2>3 DEF TasksOf
  <2> QED BY <2>1, <2>2, <2>3, <2>4 DEF Moves
<1>1. CASE i \notin TasksOf(s)
  <2>1. out'[s] = out[s]
    <3>1. CASE SendHead(i) \/ SendTail(i) \/ SendFails(i)
      BY <1>0, <1>1, <3>1 DEF SendHead, SendTail, SendFails, WritePart, TasksOf
    <3> QED BY <3>1, QuietStep
  <2>2. \A j \in TasksOf(s) : tasks'[j] = tasks[j]
    BY <1>0, <1>1 DEF TasksOf
  <2>3. Sending(s)' = Sending(s)
    BY <1>0, <2>2 DEF Sending
  <2> QED BY <1>0, <2>1, <2>2, <2>3, OnceKept
<1>2. CASE i \in TasksOf(s)
  <2>0. s = tasks[i].sock
    BY <1>2 DEF TasksOf
  <2>1. \A j \in TasksOf(s) \ {i} : tasks'[j] = tasks[j]
    BY <1>0 DEF TasksOf
  <2>2. CASE ~SendHead(i) /\ ~SendTail(i) /\ ~SendFails(i)
    <3>1. /\ out' = out /\ tasks[i].stage \notin {"sending", "done"}
          /\ tasks'[i].stage \notin {"sending", "done"}
      BY <2>2, QuietStep
    <3>2. Sending(s)' = Sending(s)
      BY <1>0, <1>2, <2>1, <3>1 DEF Sending
    <3> QED BY <1>0, <2>1, <3>1, <3>2 DEF Once, Begun
  <2>3. CASE SendHead(i)
    <3>1. tasks[i].stage = "queued" /\ tasks'[i].stage = "sending"
      BY <1>0, <2>3 DEF SendHead, Advance, Tasks
    <3>2. \A k \in DOMAIN out[s] : out[s][k][1] # i
      BY <1>0, <3>1 DEF Once, Begun
    <3>3. Sending(s)' = Sending(s) \cup {i}
      BY <1>0, <1>2, <2>1, <3>1 DEF Sending
    <3>4. \A part : Begun(s, part) => Begun(s, part)'
      BY <1>0, <2>1, <3>1 DEF Begun
    <3> DEFINE part == <<i, "head">>
    <3>5. out'[s] = Append(out[s], part) /\ part \in Parts /\ out[s] \in Seq(Parts)
      <4>1. part \in Parts
        BY PipelineAssumption DEF TaskIds, Parts
      <4> QED BY <1>0, <2>0, <2>3, <4>1 DEF SendHead, WritePart
    <3>6. part[1] = i /\ part[2] = "head"
      OBVIOUS
    <3> HIDE DEF part
    <3>7. Begun(s, part)'
      BY <1>0, <1>2, <3>1, <3>6 DEF Begun
    <3>8. OnceParts(out[s])
      BY DEF Once
    <3>9. /\ OnceParts(out[s])'
          /\ \A k \in DOMAIN out'[s] :
               out'[s][k] = part \/ \E j \in DOMAIN out[s] : out'[s][k] = out[s][j]
          /\ \A k \in DOMAIN out[s] : k \in DOMAIN out'[s] /\ out'[s][k] = out[s][k]
          /\ \E k \in DOMAIN out'[s] : out'[s][k] = part
      <4> DEFINE parts == out[s]
      <4>1. /\ parts \in Seq(Parts) /\ OnceParts(parts) /\ part \in Parts
            /\ \A j \in DOMAIN parts : parts[j] # part
            /\ part[2] # "tail"
        BY <3>2, <3>5, <3>6, <3>8
      <4> HIDE DEF parts
      <4>2. /\ OnceParts(Append(parts, part))
            /\ \A k \in DOMAIN Append(parts, part) :
                 \/ Append(parts, part)[k] = part
                 \/ \E j \in DOMAIN parts : Append(parts, part)[k] = parts[j]
            /\ \A k \in DOMAIN parts :
                 k \in DOMAIN Append(parts, part) /\ Append(parts, part)[k] = parts[k]
            /\ \E k \in DOMAIN Append(parts, part) : Append(parts, part)[k] = part
        BY <4>1, PartAppended
      <4> QED BY <3>5, <4>2 DEF parts
    <3>10. \A k \in DOMAIN out'[s] : out'[s][k][1] # 0 => Begun(s, out[s][k])'
      BY <3>4, <3>7, <3>9 DEF Once
    <3>11. \A j \in Sending(s)' : \E k \in DOMAIN out'[s] : out'[s][k] = <<j, "head">>
      BY <3>3, <3>9 DEF Once, part
    <3> QED BY <3>9, <3>10, <3>11 DEF Once
  <2>4. CASE SendTail(i)
    <3>1. tasks[i].stage = "sending" /\ tasks'[i].stage = "done"
      BY <1>0, <2>4 DEF SendTail, Advance, Tasks
    <3>2. \A k \in DOMAIN out[s] : out[s][k] # <<i, "tail">>
      BY <1>0, <3>1 DEF Once, Begun
    <3>3. Sending(s)' = Sending(s) \ {i} /\ i \in Sending(s)
      BY <1>0, <1>2, <2>1, <3>1 DEF Sending
    <3>4. \A part : Begun(s, part) => Begun(s, part)'
      BY <1>0, <2>1, <3>1 DEF Begun
    <3> DEFINE part == <<i, "tail">>
    <3>5. out'[s] = Append(out[s], part) /\ part \in Parts /\ out[s] \in Seq(Parts)
      <4>1. part \in Parts
        BY PipelineAssumption DEF TaskIds, Parts
      <4> QED BY <1>0, <2>0, <2>4, <4>1 DEF SendTail, WritePart
    <3>6. /\ part[1] = i /\ part[2] = "tail" /\ \A k \in DOMAIN out[s] : out[s][k] # part
          /\ \E k \in DOMAIN out[s] : out[s][k] = <<part[1], "head">>
      BY <3>2, <3>3 DEF Once
    <3> HIDE DEF part
    <3>7. Begun(s, part)'
      BY <1>0, <1>2, <3>1, <3>6 DEF Begun
    <3>8. OnceParts(out[s])
      BY DEF Once
    <3>9. /\ OnceParts(out[s])'
          /\ \A k \in DOMAIN out'[s] :
               out'[s][k] = part \/ \E j \in DOMAIN out[s] : out'[s][k] = out[s][j]
          /\ \A k \in DOMAIN out[s] : k \in DOMAIN out'[s] /\ out'[s][k] = out[s][k]
      <4> DEFINE parts == out[s]
      <4>1. /\ parts \in Seq(Parts) /\ OnceParts(parts)
            /\ \A j \in DOMAIN parts : parts[j] # part
            /\ \E j \in DOMAIN parts : parts[j] = <<part[1], "head">>
        BY <3>5, <3>6, <3>8
      <4> HIDE DEF parts
      <4>2. /\ OnceParts(Append(parts, part))
            /\ \A k \in DOMAIN Append(parts, part) :
                 \/ Append(parts, part)[k] = part
                 \/ \E j \in DOMAIN parts : Append(parts, part)[k] = parts[j]
            /\ \A k \in DOMAIN parts :
                 k \in DOMAIN Append(parts, part) /\ Append(parts, part)[k] = parts[k]
        BY <3>5, <4>1, PartAppended
      <4> QED BY <3>5, <4>2 DEF parts
    <3>10. \A k \in DOMAIN out'[s] : out'[s][k][1] # 0 => Begun(s, out[s][k])'
      BY <3>4, <3>7, <3>9 DEF Once
    <3>11. \A j \in Sending(s)' : \E k \in DOMAIN out'[s] : out'[s][k] = <<j, "head">>
      BY <3>3, <3>9 DEF Once
    <3> QED BY <3>9, <3>10, <3>11 DEF Once
  <2>5. CASE SendFails(i)
    <3>1. tasks'[i].stage = "done" /\ tasks[i].stage \in {"queued", "sending"} /\ out' = out
      BY <1>0, <2>5 DEF SendFails, Advance, Tasks
    <3>2. Sending(s)' \subseteq Sending(s)
      BY <1>0, <2>1, <3>1 DEF Sending
    <3>3. \A part : Begun(s, part) => Begun(s, part)'
      BY <1>0, <2>1, <3>1 DEF Begun
    <3> QED BY <3>1, <3>2, <3>3 DEF Once
  <2> QED BY <2>2, <2>3, <2>4, <2>5
<1> QED BY <1>1, <1>2

LEMMA OnceStep == PipelineTypeOK /\ OnceInv /\ [Next]_vars => OnceInv'
<1> SUFFICES ASSUME PipelineTypeOK, OnceInv, [Next]_vars, NEW s \in Sockets
             PROVE  Once(s)'
  BY DEF OnceInv
<1>1. Once(s)
  BY DEF OnceInv
<1>2. CASE UNCHANGED vars
  <2>1. UNCHANGED <<tasks, out>>
    BY <1>2 DEF vars
  <2>2. TasksOf(s)' = TasksOf(s) /\ Sending(s)' = Sending(s)
    BY <2>1 DEF TasksOf, Sending
  <2> QED BY <1>1, <2>1, <2>2, OnceKept
<1> QED BY <1>1, <1>2, OnceSocket, OnceTask, PipelineCases

\* AnswersAreOwnAndOnce: no answer is written to another's connection, or twice,
\* or its tail before its head, whatever the vehicles send and however the frames
\* mix (WebSocketListener.cpp:94-122).
THEOREM AnswersAreWrittenOnce == Spec => []AnswersAreOwnAndOnce
<1>1. OnceInv => AnswersAreOwnAndOnce
  BY DEF OnceInv, Once, OnceParts, Begun, AnswersAreOwnAndOnce
<1> QED
  BY <1>1, PipelineTypeInit, PipelineTypeStep, OnceInit, OnceStep, PTL DEF Spec
=============================================================================
