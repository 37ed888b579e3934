--------------------------- MODULE MessageService ---------------------------
(***************************************************************************)
(* What the gateway promises a vehicle that sends nothing, pings included, *)
(* before it has the answer to its last message: a sequential server.  The *)
(* two take turns; a message gets one answer, a ping one pong, each a head *)
(* and a tail with nothing in between, until the link is lost.  What the   *)
(* vehicle asked before it closed the connection it is still answered.     *)
(*                                                                         *)
(* A vehicle that does not wait waives all of it for good.  There are no   *)
(* tasks here, no application server and no one who could write a frame    *)
(* at the same time.                                                       *)
(***************************************************************************)
EXTENDS Naturals, Sequences

CONSTANTS Sockets,   \* the connections
          Messages   \* numbers of the messages, in the order of their arrival

VARIABLES turn,      \* per socket: whose turn it is, or why it is nobody's
          current,   \* per socket: the message to be answered, or 0
          wire       \* per socket: the parts of frames written to it

serviceVars == <<turn, current, wire>>

ServiceInit ==
    /\ turn = [s \in Sockets |-> "none"]
    /\ current = [s \in Sockets |-> 0]
    /\ wire = [s \in Sockets |-> <<>>]

Turn(s, from, to) == turn[s] \in from /\ turn' = [turn EXCEPT ![s] = to]
Write(s, what, part) == wire' = [wire EXCEPT ![s] = Append(@, <<what, part>>)]
SetCurrent(s, what) == current' = [current EXCEPT ![s] = what]

Connect(s) == Turn(s, {"none"}, "vehicle") /\ UNCHANGED <<current, wire>>

\* The vehicle sends a message: a later one than any it has an answer to.
Ask(s) ==
    \E m \in Messages :
        /\ Turn(s, {"vehicle"}, "gateway")
        /\ \A k \in DOMAIN wire[s] : wire[s][k][1] < m
        /\ SetCurrent(s, m)
        /\ UNCHANGED wire

BeginAnswer(s) ==
    /\ Turn(s, {"gateway"}, "answering")
    /\ Write(s, current[s], "head")
    /\ UNCHANGED current

\* It is the vehicle's turn again, unless it has closed the connection meanwhile.
EndAnswer(s) ==
    /\ \E to \in {"vehicle", "closed"} : Turn(s, {"answering"}, to)
    /\ Write(s, current[s], "tail")
    /\ SetCurrent(s, 0)

BeginPong(s) ==
    /\ Turn(s, {"vehicle"}, "ponging")
    /\ Write(s, 0, "head")
    /\ UNCHANGED current

EndPong(s) ==
    /\ Turn(s, {"ponging"}, "vehicle")
    /\ Write(s, 0, "tail")
    /\ UNCHANGED current

\* The connection is closed, or the link lost whoever's turn it is.
Hangup(s) ==
    /\ Turn(s, {"vehicle", "gateway", "answering", "ponging", "waived"}, "closed")
    /\ SetCurrent(s, 0)
    /\ UNCHANGED wire

\* Some part of some frame
WriteSome(s) == \E what \in Messages \cup {0}, part \in {"head", "tail"} : Write(s, what, part)

\* The vehicle sends before it has its answer.
DoesNotWait(s) ==
    /\ Turn(s, {"gateway", "answering"}, "waived")
    /\ SetCurrent(s, 0)
    /\ UNCHANGED wire \/ WriteSome(s)

Unspecified(s) == turn[s] = "waived" /\ WriteSome(s) /\ UNCHANGED <<turn, current>>

ServiceNext ==
    \E s \in Sockets : \/ Connect(s)
                       \/ Ask(s)
                       \/ BeginAnswer(s)
                       \/ EndAnswer(s)
                       \/ BeginPong(s)
                       \/ EndPong(s)
                       \/ Hangup(s)
                       \/ DoesNotWait(s)
                       \/ Unspecified(s)

ServiceSpec == ServiceInit /\ [][ServiceNext]_serviceVars
=============================================================================
