----------------------- MODULE PipelineService_proofs -----------------------
(***************************************************************************)
(* Proof that the pipeline implements MessageService, for any sockets and  *)
(* bounds: to a vehicle that waits for its answers the gateway is a server *)
(* that does one thing at a time.                                          *)
(***************************************************************************)
EXTENDS MessagePipeline_proofs

(***************************************************************************)
(* The view of a socket: whose turn it is, and the message to be answered. *)
(***************************************************************************)
Same(s)      == TurnOf(s)' = TurnOf(s) /\ CurrentOf(s)' = CurrentOf(s)
Elsewhere(s) == \A r \in Sockets \ {s} : Same(r)

Unseen == UNCHANGED Service!serviceVars

LEMMA CurrentIs ==
  ASSUME NEW s
  PROVE  /\ TurnOf(s) \notin {"gateway", "answering"} => CurrentOf(s) = 0
         /\ \A i : TurnOf(s) \in {"gateway", "answering"} /\ Unanswered(s) = {i}
                     => CurrentOf(s) = i
         /\ TurnOf(s)' \notin {"gateway", "answering"} => CurrentOf(s)' = 0
         /\ \A i : TurnOf(s)' \in {"gateway", "answering"} /\ Unanswered(s)' = {i}
                     => CurrentOf(s)' = i
<1>1. \A i : (CHOOSE j \in {i} : TRUE) = i
  OBVIOUS
<1> QED BY <1>1 DEF CurrentOf

LEMMA SeenUnchanged ==
  ASSUME \A s \in Sockets : Same(s), out' = out
  PROVE  Unseen
  BY DEF Unseen, Same, Service!serviceVars

LEMMA SeenTurn ==
  ASSUME NEW s \in Sockets, Elsewhere(s), NEW from, NEW to,
         TurnOf(s) \in from, TurnOf(s)' = to
  PROVE  Service!Turn(s, from, to)
  BY DEF Elsewhere, Same, Service!Turn

LEMMA SeenCurrent ==
  ASSUME NEW s \in Sockets, Elsewhere(s), NEW what, CurrentOf(s)' = what
  PROVE  Service!SetCurrent(s, what)
  BY DEF Elsewhere, Same, Service!SetCurrent

LEMMA SeenKept ==
  ASSUME NEW s \in Sockets, Elsewhere(s)
  PROVE  /\ CurrentOf(s)' = CurrentOf(s) => UNCHANGED [r \in Sockets |-> CurrentOf(r)]
         /\ TurnOf(s)' = TurnOf(s) => UNCHANGED [r \in Sockets |-> TurnOf(r)]
  BY DEF Elsewhere, Same

\* What the view of a socket depends on
LEMMA SameView ==
  ASSUME NEW s, s \in pipelined' <=> s \in pipelined, conn'[s] = conn[s],
         link'[s] = "broken" <=> link[s] = "broken",
         s \in pong' <=> s \in pong, TasksOf(s)' = TasksOf(s),
         \A i \in TasksOf(s) : tasks'[i] = tasks[i]
  PROVE  Same(s)
<1>1. /\ Unanswered(s)' = Unanswered(s)
      /\ \A i \in Unanswered(s) : tasks'[i].stage = tasks[i].stage
  BY DEF Unanswered
<1>2. TurnOf(s)' = TurnOf(s)
  BY <1>1 DEF TurnOf
<1> QED BY <1>1, <1>2 DEF Same, CurrentOf

LEMMA ElsewhereSocket ==
  ASSUME PipelineTypeOK, NEW s \in Sockets, SocketStep(s)
  PROVE  Elsewhere(s)
<1> SUFFICES ASSUME NEW r \in Sockets \ {s} PROVE Same(r)
  BY DEF Elsewhere
<1>0. /\ conn \in [Sockets -> {"none", "open", "closed"}]
      /\ link \in [Sockets -> {"up", "stalled", "broken"}]
  BY DEF PipelineTypeOK
<1>1. /\ r \in pipelined' <=> r \in pipelined
      /\ r \in pong' <=> r \in pong
      /\ conn'[r] = conn[r] /\ link'[r] = link[r]
  BY <1>0 DEF SocketStep, Open, ReadFrame, ReadEnd, OnPing, PongWritten, Close, LinkWorsens,
              Unmap, Free, Reads
<1>2. TasksOf(r)' = TasksOf(r) /\ \A i \in TasksOf(r) : tasks'[i] = tasks[i]
  <2>1. CASE ReadEnd(s)
    BY <2>1, DispatchAdds DEF ReadEnd, TasksOf
  <2>2. CASE ~ReadEnd(s)
    <3>1. tasks' = tasks
      BY <2>2 DEF SocketStep, Open, ReadFrame, OnPing, PongWritten, Close, LinkWorsens, Unmap, Free
    <3> QED BY <3>1 DEF TasksOf
  <2> QED BY <2>1, <2>2
<1> QED BY <1>1, <1>2, SameView

LEMMA ElsewhereTask ==
  ASSUME PipelineTypeOK, NEW i \in TaskIds, TaskStep(i)
  PROVE  Elsewhere(tasks[i].sock)
<1> SUFFICES ASSUME NEW r \in Sockets \ {tasks[i].sock} PROVE Same(r)
  BY DEF Elsewhere
<1>1. Moves(i) /\ SocketsUnchanged /\ tasks \in Seq(Tasks)
  BY TaskStepMoves DEF PipelineTypeOK, Tasks, Digits
<1>2. TasksOf(r)' = TasksOf(r)
  BY <1>1, MoveFacts DEF TasksOf
<1>3. \A j \in TasksOf(r) : tasks'[j] = tasks[j]
  BY <1>1 DEF Moves, TasksOf
<1> QED BY <1>1, <1>2, <1>3, SameView DEF SocketsUnchanged
-----------------------------------------------------------------------------
(***************************************************************************)
(* The steps of a socket's reader                                          *)
(***************************************************************************)
LEMMA LinkGone ==
  ASSUME NEW s \in Sockets, Elsewhere(s), link[s] = "broken", link'[s] = "broken", out' = out
  PROVE  Unseen
<1>1. TurnOf(s) = "closed" /\ TurnOf(s)' = "closed"
  BY DEF TurnOf
<1>2. CurrentOf(s) = 0 /\ CurrentOf(s)' = 0
  BY <1>1, CurrentIs
<1> QED BY <1>1, <1>2, SeenUnchanged DEF Same, Elsewhere

LEMMA Waived ==
  ASSUME NEW s \in Sockets, Elsewhere(s), s \in pipelined, s \in pipelined',
         link[s] # "broken", link'[s] # "broken"
  PROVE  /\ TurnOf(s) = "waived" /\ TurnOf(s)' = "waived"
         /\ \A r \in Sockets : Same(r)
<1>1. TurnOf(s) = "waived" /\ TurnOf(s)' = "waived"
  BY DEF TurnOf
<1>2. CurrentOf(s) = 0 /\ CurrentOf(s)' = 0
  BY <1>1, CurrentIs
<1> QED BY <1>1, <1>2 DEF Same, Elsewhere

LEMMA WriteSeen ==
  ASSUME NEW s, NEW what \in TaskIds \cup {0}, NEW part \in {"head", "tail"},
         out' = [out EXCEPT ![s] = Append(@, <<what, part>>)]
  PROVE  Service!Write(s, what, part) /\ Service!WriteSome(s)
  BY DEF Service!Write, Service!WriteSome

LEMMA UnspecifiedSeen ==
  ASSUME NEW s \in Sockets, Elsewhere(s), s \in pipelined, s \in pipelined', Service!WriteSome(s),
         link[s] # "broken", link'[s] # "broken"
  PROVE  Service!Unspecified(s)
<1>1. TurnOf(s) = "waived" /\ \A r \in Sockets : Same(r)
  BY Waived
<1> QED BY <1>1 DEF Same, Service!Unspecified

LEMMA OpenSeen ==
  ASSUME PipelineTypeOK, LockInv, NEW s \in Sockets, Open(s), Elsewhere(s)
  PROVE  Service!Connect(s) \/ Unseen
<1>1. /\ conn[s] = "none" /\ conn'[s] = "open" /\ TasksOf(s) = {} /\ s \notin pong
      /\ UNCHANGED <<link, tasks, pong, out, pipelined>>
  BY DEF Open, LockInv, PipelineTypeOK
<1>2. Unanswered(s)' = {}
  BY <1>1 DEF Unanswered, TasksOf
<1>3. CASE s \in pipelined /\ link[s] # "broken"
  BY <1>1, <1>3, Waived, SeenUnchanged
<1>4. CASE s \notin pipelined /\ link[s] # "broken"
  <2>1. TurnOf(s) = "none" /\ TurnOf(s)' = "vehicle"
    BY <1>1, <1>2, <1>4 DEF TurnOf
  <2>2. CurrentOf(s)' = CurrentOf(s)
    BY <2>1, CurrentIs
  <2> QED BY <1>1, <2>1, <2>2, SeenTurn, SeenKept DEF Service!Connect
<1> QED BY <1>1, <1>3, <1>4, LinkGone

\* Whatever the reader reads from a vehicle that has not got its answer
LEMMA EarlyRead ==
  ASSUME NEW s \in Sockets, Reads(s), Elsewhere(s), s \notin pipelined, Unanswered(s) # {},
         link[s] # "broken", link' = link,
         out' = out \/ Service!WriteSome(s)
  PROVE  Service!DoesNotWait(s)
<1>1. TurnOf(s) \in {"gateway", "answering"} /\ TurnOf(s)' = "waived"
  BY DEF TurnOf, Reads
<1>2. CurrentOf(s)' = 0
  BY <1>1, CurrentIs
<1> QED BY <1>1, <1>2, SeenTurn, SeenCurrent DEF Service!DoesNotWait

LEMMA TimelyRead ==
  ASSUME NEW s, Reads(s), s \notin pipelined, Unanswered(s) = {}, link[s] # "broken"
  PROVE  s \notin pipelined' /\ TurnOf(s) = "vehicle" /\ CurrentOf(s) = 0
<1>1. s \notin pipelined' /\ TurnOf(s) = "vehicle"
  BY DEF TurnOf, Reads
<1> QED BY <1>1, CurrentIs

LEMMA FrameSeen ==
  ASSUME PipelineTypeOK, NEW s \in Sockets, ReadFrame(s), Elsewhere(s)
  PROVE  Service!DoesNotWait(s) \/ Unseen
<1>1. /\ Reads(s) /\ conn[s] = "open" /\ s \notin pong
      /\ UNCHANGED <<conn, link, pong, tasks, out>>
      /\ pipelined \subseteq pipelined'
  BY DEF ReadFrame, Reads
<1>2. CASE s \in pipelined /\ link[s] # "broken"
  BY <1>1, <1>2, Waived, SeenUnchanged
<1>3. CASE s \notin pipelined /\ Unanswered(s) # {} /\ link[s] # "broken"
  BY <1>1, <1>3, EarlyRead
<1>4. CASE s \notin pipelined /\ Unanswered(s) = {} /\ link[s] # "broken"
  <2>1. s \notin pipelined'
    BY <1>1, <1>4, TimelyRead
  <2>2. TasksOf(s)' = TasksOf(s)
    BY <1>1 DEF TasksOf
  <2>3. Same(s)
    BY <1>1, <1>4, <2>1, <2>2, SameView
  <2> QED BY <1>1, <2>3, SeenUnchanged DEF Elsewhere
<1> QED BY <1>1, <1>2, <1>3, <1>4, LinkGone

LEMMA EndSeen ==
  ASSUME PipelineTypeOK, LockInv, NEW s \in Sockets, ReadEnd(s), Elsewhere(s)
  PROVE  Service!Ask(s) \/ Service!DoesNotWait(s) \/ Unseen
<1>1. /\ Reads(s) /\ conn[s] = "open" /\ s \notin pong /\ Dispatch(s)
      /\ UNCHANGED <<conn, link, pong, out>>
      /\ pipelined \subseteq pipelined'
  BY DEF ReadEnd, Reads
<1>2. CASE s \in pipelined /\ link[s] # "broken"
  BY <1>1, <1>2, Waived, SeenUnchanged
<1>3. CASE s \notin pipelined /\ Unanswered(s) # {} /\ link[s] # "broken"
  BY <1>1, <1>3, EarlyRead
<1>4. CASE s \notin pipelined /\ Unanswered(s) = {} /\ link[s] # "broken"
  <2>0. PICK n : n = Len(tasks) + 1
    OBVIOUS
  <2>1. n \in TaskIds
    BY <2>0, PipelineAssumption DEF ReadEnd, TaskIds, PipelineTypeOK
  <2>2. /\ TasksOf(s)' = TasksOf(s) \cup {n} /\ tasks'[n].stage = "spawned"
        /\ n \notin TasksOf(s) /\ n \in Nat \ {0}
        /\ \A j \in TasksOf(s) : j < n /\ tasks'[j] = tasks[j]
    BY <1>1, <2>0, DispatchAdds DEF TasksOf
  <2>3. Unanswered(s)' = {n}
    BY <1>4, <2>2 DEF Unanswered
  <2>4. TurnOf(s) = "vehicle" /\ s \notin pipelined'
    BY <1>1, <1>4, TimelyRead
  <2>5. TurnOf(s)' = "gateway"
    BY <1>1, <2>2, <2>3, <2>4 DEF TurnOf
  <2>6. CurrentOf(s)' = n
    BY <2>3, <2>5, CurrentIs
  <2>7. \A k \in DOMAIN out[s] : out[s][k][1] < n
    \* who has written before is an older message, or a pong
    <3>1. Alone(s)
      BY <1>4 DEF LockInv
    <3> QED BY <2>2, <3>1 DEF Alone
  <2>8. Service!Turn(s, {"vehicle"}, "gateway") /\ Service!SetCurrent(s, n)
    BY <2>4, <2>5, <2>6, SeenTurn, SeenCurrent
  <2> QED BY <1>1, <2>1, <2>7, <2>8 DEF Service!Ask
<1> QED BY <1>1, <1>2, <1>3, <1>4, LinkGone

LEMMA PingSeen ==
  ASSUME PipelineTypeOK, NEW s \in Sockets, OnPing(s), Elsewhere(s)
  PROVE  Service!BeginPong(s) \/ Service!DoesNotWait(s) \/ Service!Unspecified(s)
<1>1. /\ Reads(s) /\ conn[s] = "open" /\ s \in pong' /\ pipelined \subseteq pipelined'
      /\ link[s] # "broken" /\ UNCHANGED <<conn, link, tasks>>
      /\ out' = [out EXCEPT ![s] = Append(@, <<0, "head">>)]
  BY DEF OnPing, Reads
<1>2. Service!Write(s, 0, "head") /\ Service!WriteSome(s)
  BY <1>1, WriteSeen
<1>3. CASE s \in pipelined
  BY <1>1, <1>2, <1>3, UnspecifiedSeen
<1>4. CASE s \notin pipelined /\ Unanswered(s) # {}
  BY <1>1, <1>2, <1>4, EarlyRead
<1>5. CASE s \notin pipelined /\ Unanswered(s) = {}
  <2>1. TurnOf(s) = "vehicle" /\ CurrentOf(s) = 0 /\ s \notin pipelined'
    BY <1>1, <1>5, TimelyRead
  <2>2. TurnOf(s)' = "ponging"
    BY <1>1, <2>1 DEF TurnOf
  <2>3. CurrentOf(s)' = 0
    BY <2>2, CurrentIs
  <2> QED BY <1>2, <2>1, <2>2, <2>3, SeenTurn, SeenKept DEF Service!BeginPong
<1> QED BY <1>3, <1>4, <1>5

LEMMA PongSeen ==
  ASSUME PipelineTypeOK, LockInv, NEW s \in Sockets, PongWritten(s), Elsewhere(s)
  PROVE  Service!EndPong(s) \/ Service!Unspecified(s)
<1>1. /\ s \in pong /\ s \notin pong' /\ conn[s] = "open" /\ link[s] # "broken"
      /\ UNCHANGED <<conn, link, tasks, pipelined>>
      /\ out' = [out EXCEPT ![s] = Append(@, <<0, "tail">>)]
  BY DEF PongWritten, LockInv
<1>2. Service!Write(s, 0, "tail") /\ Service!WriteSome(s)
  BY <1>1, WriteSeen
<1>3. CASE s \in pipelined
  BY <1>1, <1>2, <1>3, UnspecifiedSeen
<1>4. CASE s \notin pipelined
  <2>1. Unanswered(s)' = {}
    <3>1. Alone(s)
      BY <1>4 DEF LockInv
    <3> QED BY <1>1, <3>1 DEF Alone, Unanswered, TasksOf
  <2>2. TurnOf(s) = "ponging" /\ TurnOf(s)' = "vehicle"
    BY <1>1, <1>4, <2>1 DEF TurnOf
  <2>3. CurrentOf(s) = 0 /\ CurrentOf(s)' = 0
    BY <2>2, CurrentIs
  <2> QED BY <1>2, <2>2, <2>3, SeenTurn, SeenKept DEF Service!EndPong
<1> QED BY <1>3, <1>4

\* The end of the reader shows to a vehicle whose turn it is only; what it has
\* asked before is still answered.
LEMMA CloseSeen ==
  ASSUME PipelineTypeOK, NEW s \in Sockets, Close(s), Elsewhere(s)
  PROVE  Service!Hangup(s) \/ Unseen
<1>1. /\ conn[s] = "open" /\ conn'[s] = "closed" /\ (s \in pong => link[s] = "broken")
      /\ UNCHANGED <<link, tasks, out, pipelined>> /\ s \notin pong'
  BY DEF Close, PipelineTypeOK
<1>2. Unanswered(s)' = Unanswered(s)
  BY <1>1 DEF Unanswered, TasksOf
<1>3. CASE s \in pipelined /\ link[s] # "broken"
  BY <1>1, <1>3, Waived, SeenUnchanged
<1>4. CASE s \notin pipelined /\ link[s] # "broken" /\ Unanswered(s) = {}
  <2>1. TurnOf(s) = "vehicle" /\ TurnOf(s)' = "closed"
    BY <1>1, <1>2, <1>4 DEF TurnOf
  <2>2. CurrentOf(s)' = 0
    BY <2>1, CurrentIs
  <2> QED BY <1>1, <2>1, <2>2, SeenTurn, SeenCurrent DEF Service!Hangup
<1>5. CASE s \notin pipelined /\ link[s] # "broken" /\ Unanswered(s) # {}
  <2>1. TurnOf(s)' = TurnOf(s)
    BY <1>1, <1>2, <1>5 DEF TurnOf
  <2>2. CurrentOf(s)' = CurrentOf(s)
    BY <1>2, <2>1 DEF CurrentOf
  <2> QED BY <1>1, <2>1, <2>2, SeenUnchanged DEF Same, Elsewhere
<1> QED BY <1>1, <1>3, <1>4, <1>5, LinkGone

LEMMA LinkSeen ==
  ASSUME PipelineTypeOK, NEW s \in Sockets, LinkWorsens(s), Elsewhere(s)
  PROVE  Service!Hangup(s) \/ Unseen
<1>1. /\ conn[s] \in {"open", "closed"} /\ link[s] # "broken"
      /\ UNCHANGED <<conn, pong, tasks, out, pipelined>>
  BY DEF LinkWorsens, Worse, PipelineTypeOK
<1>2. CASE link'[s] # "broken"
  <2>1. Same(s)
    BY <1>1, <1>2, SameView DEF TasksOf
  <2> QED BY <1>1, <2>1, SeenUnchanged DEF Elsewhere
<1>3. CASE link'[s] = "broken"
  <2>1. TurnOf(s)' = "closed"
    BY <1>3 DEF TurnOf
  <2>2. CurrentOf(s)' = 0
    BY <2>1, CurrentIs
  <2>3. TurnOf(s) \in {"vehicle", "gateway", "answering", "ponging", "waived", "closed"}
    BY <1>1 DEF TurnOf
  <2>4. CASE TurnOf(s) = "closed"
    <3>1. CurrentOf(s) = 0
      BY <2>4, CurrentIs
    <3> QED BY <1>1, <2>1, <2>2, <2>4, <3>1, SeenUnchanged DEF Same, Elsewhere
  <2>5. CASE TurnOf(s) # "closed"
    BY <1>1, <2>1, <2>2, <2>3, <2>5, SeenTurn, SeenCurrent DEF Service!Hangup
  <2> QED BY <2>4, <2>5
<1> QED BY <1>2, <1>3

LEMMA SocketSeen ==
  ASSUME PipelineTypeOK, LockInv, NEW s \in Sockets, SocketStep(s)
  PROVE  Service!ServiceNext \/ Unseen
<1>1. Elsewhere(s)
  BY ElsewhereSocket
<1>2. CASE Unmap(s) \/ Free(s)
  <2>1. UNCHANGED <<conn, link, pong, tasks, out, pipelined>>
    BY <1>2 DEF Unmap, Free
  <2>2. Same(s)
    BY <2>1, SameView DEF TasksOf
  <2> QED BY <1>1, <2>1, <2>2, SeenUnchanged DEF Elsewhere
<1> QED
  BY <1>1, <1>2, OpenSeen, FrameSeen, EndSeen, PingSeen, PongSeen, CloseSeen, LinkSeen
  DEF SocketStep, Service!ServiceNext
-----------------------------------------------------------------------------
(***************************************************************************)
(* The steps of a coroutine                                                *)
(***************************************************************************)
LEMMA WaivedTaskSeen ==
  ASSUME PipelineTypeOK, NEW i \in TaskIds, TaskStep(i), NEW s \in Sockets, s = tasks[i].sock,
         Elsewhere(s), s \in pipelined \/ link[s] = "broken"
  PROVE  Service!Unspecified(s) \/ Unseen
<1>1. UNCHANGED <<link, pipelined>>
  BY TaskStepMoves DEF SocketsUnchanged
<1>2. \/ out' = out
      \/ link[s] # "broken" /\ \E part \in {"head", "tail"} :
           out' = [out EXCEPT ![s] = Append(@, <<i, part>>)]
  BY QuietStep DEF SendHead, SendTail, SendFails, WritePart
<1>3. CASE link[s] # "broken"
  BY <1>1, <1>2, <1>3, WriteSeen, Waived, SeenUnchanged, UnspecifiedSeen
<1> QED BY <1>1, <1>2, <1>3, LinkGone

\* The coroutine of the one message that a waiting vehicle has
LEMMA ServedTaskSeen ==
  ASSUME PipelineTypeOK, LockInv, NEW i \in TaskIds, TaskStep(i), NEW s \in Sockets,
         s = tasks[i].sock, Elsewhere(s), s \notin pipelined, link[s] # "broken"
  PROVE  Service!BeginAnswer(s) \/ Service!EndAnswer(s) \/ Unseen
<1>0. /\ tasks \in Seq(Tasks) /\ i \in DOMAIN tasks /\ tasks[i] \in Tasks /\ tasks[i].stage # "done"
      /\ UNCHANGED <<conn, link, pong, pipelined>> /\ conn[s] \in {"open", "closed"}
      /\ \A j \in DOMAIN tasks \ {i} : tasks'[j] = tasks[j]
      /\ TasksOf(s)' = TasksOf(s)
  <2>1. Moves(i) /\ SocketsUnchanged /\ tasks \in Seq(Tasks)
    BY TaskStepMoves DEF PipelineTypeOK, Tasks, Digits
  <2>2. TasksOf(s)' = TasksOf(s)
    BY <2>1, MoveFacts DEF TasksOf
  <2>3. conn[s] # "none"
    BY <2>1 DEF Moves, LockInv, TasksOf
  <2> QED BY <2>1, <2>2, <2>3 DEF Moves, SocketsUnchanged, PipelineTypeOK
<1>1. /\ i \in TasksOf(s) /\ s \notin pong
      /\ \A j \in TasksOf(s) \ {i} : tasks[j].stage = "done" /\ tasks'[j].stage = "done"
  BY <1>0, SenderFacts DEF TasksOf
<1>2. Unanswered(s) = {i} /\ (tasks'[i].stage # "done" => Unanswered(s)' = {i})
  BY <1>0, <1>1 DEF Unanswered
<1>3. CASE ~SendHead(i) /\ ~SendTail(i) /\ ~SendFails(i)
  <2>1. /\ out' = out /\ tasks[i].stage \notin {"sending", "done"}
        /\ tasks'[i].stage \notin {"sending", "done"}
    BY <1>3, QuietStep
  <2>2. TurnOf(s) = "gateway" /\ TurnOf(s)' = "gateway"
    BY <1>0, <1>1, <1>2, <2>1 DEF TurnOf
  <2>3. CurrentOf(s) = i /\ CurrentOf(s)' = i
    BY <1>2, <2>1, <2>2, CurrentIs
  <2> QED BY <2>1, <2>2, <2>3, SeenUnchanged DEF Same, Elsewhere
<1>4. CASE SendHead(i)
  <2>1. tasks[i].stage = "queued" /\ tasks'[i].stage = "sending"
    BY <1>0, <1>4 DEF SendHead, Advance, Tasks
  <2>2. TurnOf(s) = "gateway" /\ TurnOf(s)' = "answering"
    BY <1>0, <1>1, <1>2, <2>1 DEF TurnOf
  <2>3. CurrentOf(s) = i /\ CurrentOf(s)' = i
    BY <1>2, <2>1, <2>2, CurrentIs
  <2>4. Service!Write(s, [r \in Sockets |-> CurrentOf(r)][s], "head")
    <3>1. [r \in Sockets |-> CurrentOf(r)][s] = i
      BY <2>3
    <3>2. Service!Write(s, i, "head")
      BY <1>4, WriteSeen DEF SendHead, WritePart
    <3> QED BY <3>1, <3>2
  <2> QED BY <2>2, <2>3, <2>4, SeenTurn, SeenKept DEF Service!BeginAnswer
<1>5. CASE SendTail(i)
  <2>1. tasks[i].stage = "sending" /\ tasks'[i].stage = "done"
    BY <1>0, <1>5 DEF SendTail, Advance, Tasks
  <2>2. Unanswered(s)' = {}
    BY <1>0, <1>1, <2>1 DEF Unanswered
  <2>3. TurnOf(s) = "answering" /\ TurnOf(s)' \in {"vehicle", "closed"}
    BY <1>0, <1>1, <1>2, <2>1, <2>2 DEF TurnOf
  <2>4. CurrentOf(s) = i /\ CurrentOf(s)' = 0
    BY <1>2, <2>3, CurrentIs
  <2>5. Service!Write(s, [r \in Sockets |-> CurrentOf(r)][s], "tail")
    <3>1. [r \in Sockets |-> CurrentOf(r)][s] = i
      BY <2>4
    <3>2. Service!Write(s, i, "tail")
      BY <1>5, WriteSeen DEF SendTail, WritePart
    <3> QED BY <3>1, <3>2
  <2>6. /\ \E to \in {"vehicle", "closed"} : Service!Turn(s, {"answering"}, to)
        /\ Service!SetCurrent(s, 0)
    BY <2>3, <2>4, SeenTurn, SeenCurrent
  <2> QED BY <2>5, <2>6 DEF Service!EndAnswer
<1>6. ~SendFails(i)
  BY DEF SendFails
<1> QED BY <1>3, <1>4, <1>5, <1>6

LEMMA TaskSeen ==
  ASSUME PipelineTypeOK, LockInv, NEW i \in TaskIds, TaskStep(i)
  PROVE  Service!ServiceNext \/ Unseen
<1>1. tasks[i].sock \in Sockets
  <2>1. i \in DOMAIN tasks /\ tasks \in Seq(Tasks)
    BY TaskStepMoves DEF Moves, PipelineTypeOK, Tasks, Digits
  <2>2. tasks[i] \in Tasks
    BY <2>1
  <2> QED BY <2>2 DEF Tasks
<1>2. PICK s \in Sockets : s = tasks[i].sock
  BY <1>1
<1>3. Elsewhere(s)
  BY <1>2, ElsewhereTask
<1> QED BY <1>2, <1>3, WaivedTaskSeen, ServedTaskSeen DEF Service!ServiceNext
-----------------------------------------------------------------------------
LEMMA ServiceInitSeen == Init => Service!ServiceInit
<1> SUFFICES ASSUME Init PROVE Service!ServiceInit
  OBVIOUS
<1>1. \A s \in Sockets : TurnOf(s) = "none"
  BY DEF Init, TurnOf
<1>2. \A s \in Sockets : CurrentOf(s) = 0
  BY <1>1, CurrentIs
<1> QED BY <1>1, <1>2 DEF Init, Service!ServiceInit

\* ImplementsService: coroutines, threads and the lack of a write lock do not
\* show to a vehicle that waits for its answers (WebSocketListener.cpp:51-122).
THEOREM PipelineImplementsService == Spec => ImplementsService
<1>1. PipelineTypeOK /\ LockInv /\ [Next]_vars => [Service!ServiceNext]_Service!serviceVars
  <2> SUFFICES ASSUME PipelineTypeOK, LockInv, [Next]_vars
               PROVE  Service!ServiceNext \/ Unseen
    BY DEF Unseen
  <2>1. CASE UNCHANGED vars
    <3>1. UNCHANGED <<conn, link, pong, tasks, out, pipelined>>
      BY <2>1 DEF vars
    <3>2. \A s \in Sockets : Same(s)
      BY <3>1, SameView DEF TasksOf
    <3> QED BY <3>1, <3>2, SeenUnchanged
  <2> QED BY <2>1, SocketSeen, TaskSeen, PipelineCases
<1> QED
  BY <1>1, ServiceInitSeen, PipelineTypeInit, PipelineTypeStep, LockInit, LockStep, PTL
  DEF Spec, ImplementsService, Service!ServiceSpec
=============================================================================
