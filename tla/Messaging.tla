------------------------------ MODULE Messaging ------------------------------
(***************************************************************************)
(* How a message gets from one node to another: Communicate::Send chooses  *)
(* a connection or a datagram, the writing loop (MessageWriter), the       *)
(* network (TcpNetwork) and the reading loop (MessageReader) carry it to   *)
(* the queue of the receiver's IOLoop.  Connections break, the receiver    *)
(* restarts, datagrams are lost, doubled and overtaken.                    *)
(***************************************************************************)
EXTENDS MessageWriter, MessageReader, SequencesExt

CONSTANTS Oversize,   \* the messages larger than MAX_VALUE_SIZE
          MaxUdpQ,    \* UDP_QUEUE_MAXLEN
          MaxFaults   \* broken connections and restarts of the receiver

ASSUME MessagingAssumption ==
    Datagrams \subseteq Message /\ MaxUdpQ \in Nat /\ MaxFaults \in Nat

VARIABLES next,     \* the next message the node above sends
          udpQ,     \* UDPSend::m_oSendQueue
          dgrams,   \* the datagrams under way
          faults

vars == <<netVars, writerVars, readerVars, next, udpQ, dgrams, faults>>

Init == NetInit /\ WriterInit /\ ReaderInit
        /\ next = 1 /\ udpQ = <<>> /\ dgrams = {} /\ faults = 0

-----------------------------------------------------------------------------

\* UDPSend::AddMessage
AddDatagram(m) ==
    /\ udpQ' = IF Len(udpQ) > MaxUdpQ THEN udpQ ELSE Append(udpQ, m)
    /\ UNCHANGED <<netVars, writerVars>>

\* Communicate::Send: a message that is too large is skipped, and the caller told 0.
Send ==
    /\ next <= MaxMsg
    /\ next' = next + 1
    /\ \/ next \in Oversize /\ UNCHANGED <<netVars, writerVars, udpQ>>
       \/ next \in Datagrams \ Oversize /\ AddDatagram(next)
       \/ next \notin Datagrams \cup Oversize /\ AddMessage(next) /\ UNCHANGED udpQ
    /\ UNCHANGED <<readerVars, dgrams, faults>>

Write == WriterLoop /\ UNCHANGED <<readerVars, next, udpQ, dgrams, faults>>

Wait == GoIdle /\ UNCHANGED <<readerVars, next, udpQ, dgrams, faults>>

Read == ReaderIO /\ UNCHANGED <<writerVars, next, udpQ, dgrams, faults>>

Handle == (PopMessage \/ OnReceive)
          /\ UNCHANGED <<netVars, writerVars, fdQueue, object, readMap, part,
                         next, udpQ, dgrams, faults>>

\* UDPSend::run
SendDatagram ==
    /\ udpQ # <<>>
    /\ dgrams' = dgrams \cup {Head(udpQ)}
    /\ udpQ' = Tail(udpQ)
    /\ UNCHANGED <<netVars, writerVars, readerVars, next, faults>>

\* UDPRecv::run
ReceiveDatagram(m) ==
    /\ AddToQueue(m)
    /\ \/ dgrams' = dgrams \ {m} /\ UNCHANGED faults
       \/ /\ faults < MaxFaults   \* it will be delivered again
          /\ faults' = faults + 1
          /\ UNCHANGED dgrams
    /\ UNCHANGED <<netVars, writerVars, fdQueue, object, readMap, part, taken, memRead, heard,
                   next, udpQ>>

LoseDatagram(m) ==
    /\ dgrams' = dgrams \ {m}
    /\ UNCHANGED <<netVars, writerVars, readerVars, next, udpQ, faults>>

Kernel == (\E c \in Conn : Establish(c) \/ Refuse(c))
          /\ UNCHANGED <<writerVars, readerVars, next, udpQ, dgrams, faults>>

Fault == /\ faults < MaxFaults
         /\ faults' = faults + 1
         /\ \/ (\E c \in Conn : Break(c)) /\ UNCHANGED readerVars
            \/ ReaderRestarts
         /\ UNCHANGED <<writerVars, next, udpQ, dgrams>>

Next == \/ Send \/ Write \/ Wait \/ Read \/ Handle \/ SendDatagram
        \/ \E m \in dgrams : ReceiveDatagram(m) \/ LoseDatagram(m)
        \/ Kernel \/ Fault

Spec == Init /\ [][Next]_vars

\* The two event loops run on, the kernel answers every connection attempt, and a
\* timer that is due fires in one of the rounds of the loop. Nobody is left without a
\* message for CONNECTTION_NONACTIVE_TIMEOUT for certain: the learner asks every member
\* every few seconds, and AddMessage counts as activity when it refuses too.
LiveSpec == /\ Spec
            /\ WF_vars(Write) /\ WF_vars(Read) /\ WF_vars(Kernel)
            /\ SF_vars(Write /\ TimerFires)

-----------------------------------------------------------------------------

\* Every variable keeps to its type, and every queue to the bound that is checked on
\* entering it (one more than the limit, which is compared with >).
TypeOK == /\ NetTypeOK /\ WriterTypeOK /\ ReaderTypeOK
          /\ next \in 1 .. MaxMsg + 1 /\ Len(udpQ) <= MaxUdpQ + 1
          /\ dgrams \subseteq Datagrams

\* The frames written to c and not yet handed on: read in part, under way, and, when
\* c is the connection in use, still to be written.
Stream(c) == part[c] \o (IF c \in Range(fdQueue) \cup readMap \/ c \notin held THEN wire[c] ELSE <<>>)
                     \o (IF c = conn /\ chan[c] \in {"connecting", "open"} THEN left ELSE <<>>)

\* A connection carries whole frames, one after the other and in the order of their
\* messages, whatever breaks or fills up between two pieces of a frame: a reader that
\* lost the boundary would take a piece of a message for a length.
FramesAligned ==
    \A c \in Conn : \A i \in DOMAIN Stream(c) :
       LET s == Stream(c)
       IN  /\ s[i][2] = ((i - 1) % FrameLen) + 1
           /\ i > 1 => IF s[i][2] = 1 THEN s[i][1] > s[i - 1][1] ELSE s[i][1] = s[i - 1][1]

\* What the receiver's instance is handed by TCP it is handed once: no unit of such a
\* message is still queued, written or read anywhere, and nothing was garbled.
HeardOnce ==
    LET handed == heard \cup Range(inQ) \cup ({taken} \ {Nothing})
    IN  /\ Garbled \notin handed
        /\ \A m \in handed \ Datagrams :
              /\ m \notin Range(outQ)
              /\ \A c \in Conn : \A i \in DOMAIN Stream(c) : Stream(c)[i][1] # m
        /\ \A i, j \in DOMAIN inQ : i # j /\ inQ[i] = inQ[j] => inQ[i] \in Datagrams

\* A connection that believes it waits for EPOLLOUT is waited for: epoll has it, or
\* a reconnect timer is pending that will find it, or it is given up and reconnects
\* with the next message. The flag is in the event, the entry in the loop, the
\* registration in the kernel; a disagreement makes the destination unreachable.
Armed ==
    /\ \A f \in Fd : entry[f] = "out" <=> f \in polled
    /\ polled \subseteq {fd}
    /\ wants => \/ fd \in polled
                \/ timer = fd /\ entry[fd] # "none"
                \/ destroyed \/ wpc = "clear"

\* An entry of the read loop's map leads to an object that nobody deletes: ClearEvent
\* runs in the acceptor's thread too, and deletes what is marked destroyed.
NoDangling == readMap \subseteq {c \in Conn : object[c] = "live"}

\* The byte count that refuses messages is the size of what is queued, also after the
\* queue was emptied for an idle peer.
MemCounted == outMem = Len(outQ)

\* What event, loops, epoll and queue know of one another agrees.
LoopInv == TypeOK /\ Armed /\ MemCounted /\ NoDangling

\* A message that is queued for a peer leaves the queue, written, dropped or given up,
\* whatever broke before and wherever the loop was then, unless the connections to the
\* peer are refused again and again: a queue for a dead member is tried for ever, as
\* long as there is traffic.
Drained ==
    \A m \in Message :
       []<>(m \notin Range(outQ) \/ (conn # 0 /\ chan[conn] = "refused"))
=============================================================================
