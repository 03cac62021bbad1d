--------------------------- MODULE MessageReader ---------------------------
(***************************************************************************)
(* The receiving side: the TcpAcceptor thread, the event loop of the       *)
(* TcpRead thread with a MessageEvent of type RECV for every connection,   *)
(* the UDPRecv thread, and the message queue of the IOLoop thread they     *)
(* all feed.  Objects of finished connections are deleted by ClearEvent,   *)
(* which the acceptor's thread and the loop's thread both call.            *)
(***************************************************************************)
EXTENDS TcpNetwork, Integers

CONSTANTS MaxInQ,    \* QUEUE_MAXLENGTH
          MaxInMem,  \* MAX_QUEUE_MEM_SIZE, in messages
          Datagrams  \* the messages that come by UDP

ASSUME ReaderAssumption == MaxInQ \in Nat /\ MaxInMem \in Nat

Garbled == 0  \* a frame that Base::UnPackBaseMsg would have to refuse
Nothing == -1

VARIABLES fdQueue,   \* EventLoop::m_oFDQueue: accepted, without an object
          object,    \* the MessageEvent of each connection: none, live or destroyed
          readMap,   \* the connections with an entry in the read loop's m_mapEvent
          part,      \* part[c]: the units of the frame being read from c
          inQ,       \* IOLoop::m_oMessageQueue
          inMem,     \* IOLoop::m_iQueueMemSize
          taken,     \* the message the IOLoop thread has popped, 0 if none
          memRead,   \* the m_iQueueMemSize it subtracts from
          heard      \* what Instance::OnReceive has been given by TCP

readerVars == <<fdQueue, object, readMap, part, inQ, inMem, taken, memRead, heard>>
queueVars == <<inQ, inMem, taken, memRead, heard>>

ReaderInit ==
    /\ fdQueue = <<>> /\ object = [c \in Conn |-> "none"]
    /\ readMap = {} /\ part = [c \in Conn |-> <<>>]
    /\ inQ = <<>> /\ inMem = 0 /\ taken = Nothing /\ memRead = 0 /\ heard = {}

-----------------------------------------------------------------------------
(* The queue of the IOLoop.                                                *)

\* IOLoop::AddMessage, under the queue's lock.
AddToQueue(m) ==
    IF Len(inQ) > MaxInQ \/ inMem > MaxInMem
    THEN UNCHANGED <<inQ, inMem>>
    ELSE inQ' = Append(inQ, m) /\ inMem' = inMem + 1

\* IOLoop::OneLoop pops under the lock and lets go of it ...
PopMessage ==
    /\ taken = Nothing /\ inQ # <<>>
    /\ taken' = Head(inQ) /\ inQ' = Tail(inQ)
    /\ memRead' = inMem
    /\ UNCHANGED <<inMem, heard>>

\* ... before it lowers m_iQueueMemSize: when a message has been added since, the
\* addition is lost, or the subtraction, or neither.
OnReceive ==
    /\ taken # Nothing
    /\ inMem' \in {inMem - 1} \cup (IF inMem = memRead THEN {} ELSE {memRead - 1, inMem})
    /\ heard' = heard \cup ({taken} \ Datagrams)
    /\ taken' = Nothing /\ memRead' = 0
    /\ UNCHANGED inQ

-----------------------------------------------------------------------------
(* Accepting connections.                                                  *)

Destroyed == {c \in Conn : object[c] = "destroyed"}

\* EventLoop::ClearEvent deletes what is marked destroyed; deleting closes the socket.
ClearEvent == ReaderCloses(Destroyed)

\* TcpAcceptor::AddEvent counts the live objects of the loop, which clears it
\* (GetActiveEventCount), and queues the descriptor for the loop.
ToLoop(c) ==
    /\ ClearEvent
    /\ held' = (held \ Destroyed) \cup {c}
    /\ object' = [x \in Conn |-> IF x \in Destroyed THEN "none" ELSE object[x]]
    /\ fdQueue' = Append(fdQueue, c)

\* TcpAcceptor::run
Accept(c) ==
    /\ chan[c] \in {"open", "closed", "reset"} /\ c \notin held
    /\ ToLoop(c)
    /\ UNCHANGED <<conn, readMap, part, queueVars>>

\* EventLoop::CreateEvent gives every queued descriptor an object that reads.
CreateEvent ==
    /\ fdQueue # <<>>
    /\ LET new == {fdQueue[i] : i \in DOMAIN fdQueue}
       IN  /\ ClearEvent
           /\ held' = held \ Destroyed
           /\ object' = [x \in Conn |-> IF x \in new THEN "live"
                                    ELSE IF x \in Destroyed THEN "none" ELSE object[x]]
           /\ readMap' = readMap \cup new
           /\ part' = [x \in Conn |-> IF x \in new THEN <<>> ELSE part[x]]
    /\ fdQueue' = <<>>
    /\ UNCHANGED <<conn, queueVars>>

-----------------------------------------------------------------------------
(* Reading.                                                                *)

\* EventLoop::OnError and MessageEvent::OnError of a RECV event: no entry in the
\* map any more, then the mark that lets ClearEvent delete the object.
DropConnection(c) ==
    /\ readMap' = readMap \ {c}
    /\ object' = [object EXCEPT ![c] = "destroyed"]

\* Units that OnRead asks for: the rest of the body when the prefix is in
\* (ReadLeft), else the rest of the prefix and, once it is complete, the body.
Asked(c) ==
    IF Len(part[c]) >= HeadLen \/ Len(part[c]) + Arrived(c, HeadLen - Len(part[c])) >= HeadLen
    THEN FrameLen - Len(part[c])
    ELSE HeadLen - Len(part[c])

\* The units are a whole frame: m_iLeftReadLen is down to 0.
CompleteWithoutRest(units) == Len(units) > HeadLen
Complete(units) == Len(units) = FrameLen

\* What a complete frame holds.
Decoded(units) == IF units = Frame(units[1][1]) THEN units[1][1] ELSE Garbled

\* MessageEvent::OnRead and ReadLeft find units: a complete frame goes to
\* NetWork::OnReceiveMessage, and so to the queue; else it waits for the rest.
OnRead(c) ==
    /\ c \in readMap /\ wire[c] # <<>>
    /\ LET n    == Arrived(c, Asked(c))
           now  == part[c] \o SubSeq(wire[c], 1, n)
           done == Complete(now)
           \* the prefix is complete, and the body is at the connection's end
           broken == chan[c] = "closed" /\ Len(now) = HeadLen
       IN  /\ wire' = [wire EXCEPT ![c] = SubSeq(@, n + 1, Len(@))]
           /\ part' = [part EXCEPT ![c] = IF done \/ broken THEN <<>> ELSE now]
           /\ IF done THEN AddToQueue(Decoded(now)) ELSE UNCHANGED <<inQ, inMem>>
           /\ IF broken THEN DropConnection(c) ELSE UNCHANGED <<readMap, object>>
    /\ UNCHANGED <<chan, conn, held, fdQueue, taken, memRead, heard>>

\* The other end has closed and nothing is left to read, or the connection is broken.
ReadFails(c) ==
    /\ c \in readMap
    /\ chan[c] = "reset" \/ (chan[c] = "closed" /\ wire[c] = <<>>)
    /\ DropConnection(c)
    /\ part' = [part EXCEPT ![c] = <<>>]
    /\ UNCHANGED <<netVars, fdQueue, queueVars>>

ReaderIO == \/ \E c \in Conn : Accept(c) \/ OnRead(c) \/ ReadFails(c)
            \/ CreateEvent

\* The process dies and starts again: the kernel closes its sockets.
ReaderRestarts ==
    /\ ReaderCloses({c \in Conn : chan[c] \in {"open", "closed", "reset"}})
    /\ held' = {}
    /\ fdQueue' = <<>> /\ object' = [c \in Conn |-> "none"]
    /\ readMap' = {} /\ part' = [c \in Conn |-> <<>>]
    /\ inQ' = <<>> /\ inMem' = 0 /\ taken' = Nothing /\ memRead' = 0
    /\ UNCHANGED <<conn, heard>>

ReaderTypeOK ==
    /\ \A i \in DOMAIN fdQueue : fdQueue[i] \in held
    /\ object \in [Conn -> {"none", "live", "destroyed"}]
    /\ readMap \subseteq held
    /\ \A c \in Conn : Len(part[c]) < FrameLen
    /\ Len(inQ) <= MaxInQ + 1 /\ inMem \in Int
=============================================================================
