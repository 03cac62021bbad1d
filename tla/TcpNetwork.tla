----------------------------- MODULE TcpNetwork -----------------------------
(***************************************************************************)
(* The connections from one node to another, as the kernel and the socket  *)
(* wrapper (utils/socket.cpp) show them to the sending and to the          *)
(* receiving process.  A connection carries units in order: a frame is     *)
(* HeadLen units of length prefix and BodyLen units of message, so that    *)
(* both a prefix and a body can arrive in pieces.                          *)
(***************************************************************************)
EXTENDS Naturals, Sequences, FiniteSets

CONSTANTS MaxConn,   \* connections in use at the same time, at most
          HeadLen,   \* units of the length prefix (4 bytes in the code)
          BodyLen,   \* units of a message
          Buffer     \* units the kernel takes before send() says EAGAIN

ASSUME NetworkAssumption ==
    /\ MaxConn \in Nat \ {0} /\ HeadLen \in Nat \ {0}
    /\ BodyLen \in Nat \ {0} /\ Buffer \in Nat \ {0}

Conn == 1 .. MaxConn
FrameLen == HeadLen + BodyLen

\* The units of message m on the wire: MessageEvent::DoOnWrite puts the length in front.
Frame(m) == [k \in 1 .. FrameLen |-> <<m, k>>]

VARIABLES chan,   \* chan[c]: what became of connection c
          wire,   \* wire[c]: the units written to c and not read yet
          conn,   \* the connection the sending process holds, 0 if none
          held    \* the connections the receiving process has accepted and not closed

netVars == <<chan, wire, conn, held>>

ChanState == {"unused", "connecting", "refused", "open", "closed", "reset"}

NetInit == /\ chan = [c \in Conn |-> "unused"]
           /\ wire = [c \in Conn |-> <<>>]
           /\ conn = 0
           /\ held = {}

NetTypeOK ==
    /\ chan \in [Conn -> ChanState]
    /\ \A c \in Conn : Len(wire[c]) <= Buffer
    /\ conn \in 0 .. MaxConn
    /\ held \subseteq Conn

-----------------------------------------------------------------------------
(* What the two processes do to their sockets.                             *)

\* Socket::connect on a non-blocking socket: the old socket, if any, is closed
\* (its data can still be read, then the reader finds the end) and the new one
\* is connecting when the call returns.  A number is free once nobody holds it.
Free(c) == \/ chan[c] = "unused"
           \/ c = conn /\ c \notin held /\ chan[c] \in {"refused", "reset"}

Abandoned(c) == IF chan[c] = "open" THEN "closed"
                ELSE IF chan[c] = "reset" /\ c \in held THEN "reset" ELSE "unused"

Connect(c) ==
    /\ Free(c)
    /\ conn' = c
    /\ chan' = [x \in Conn |-> IF x = c THEN "connecting"
                               ELSE IF x = conn THEN Abandoned(x) ELSE chan[x]]
    /\ wire' = [wire EXCEPT ![c] = <<>>]
    /\ UNCHANGED held

\* Units that Socket::send hands to the kernel before it would block.
Room(units) == LET free == Buffer - Len(wire[conn])
               IN  IF Len(units) <= free THEN Len(units) ELSE free

\* Units that Socket::receive returns when n are asked for.
Arrived(c, n) == IF Len(wire[c]) <= n THEN Len(wire[c]) ELSE n

\* The receiving process closes its ends of the connections in D.
ReaderCloses(D) ==
    /\ chan' = [c \in Conn |-> IF c \notin D THEN chan[c]
                               ELSE IF c = conn THEN "reset" ELSE "unused"]
    /\ wire' = [c \in Conn |-> IF c \in D THEN <<>> ELSE wire[c]]

-----------------------------------------------------------------------------
(* What the network does.                                                  *)

Establish(c) == /\ chan[c] = "connecting"
                /\ chan' = [chan EXCEPT ![c] = "open"]
                /\ UNCHANGED <<wire, conn, held>>

\* Nobody listens, or nobody answers.
Refuse(c) == /\ chan[c] = "connecting"
             /\ chan' = [chan EXCEPT ![c] = "refused"]
             /\ UNCHANGED <<wire, conn, held>>

\* The connection breaks and the end of what is under way in it is lost.
Break(c) == /\ chan[c] = "open" \/ (chan[c] = "closed" /\ c \in held)
            /\ chan' = [chan EXCEPT ![c] = "reset"]
            /\ \E n \in 0 .. Len(wire[c]) : wire' = [wire EXCEPT ![c] = SubSeq(@, 1, n)]
            /\ UNCHANGED <<conn, held>>
=============================================================================
