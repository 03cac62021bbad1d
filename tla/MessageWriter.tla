--------------------------- MODULE MessageWriter ---------------------------
(***************************************************************************)
(* The sending side of a TCP connection: TcpClient, the MessageEvent of    *)
(* type SEND for one destination, and the event loop of the TcpWrite       *)
(* thread with its timers and its epoll set.  Other threads add messages;  *)
(* everything else happens in the loop, which goes round timeouts, epoll   *)
(* and DealWithWrite every millisecond.                                    *)
(***************************************************************************)
EXTENDS TcpNetwork

CONSTANTS MaxMsg,     \* messages the node above sends
          MaxQueue,   \* TCP_QUEUE_MAXLEN
          MaxMem      \* MAX_QUEUE_MEM_SIZE, in messages

ASSUME WriterAssumption == MaxMsg \in Nat /\ MaxQueue \in Nat /\ MaxMem \in Nat

Message == 1 .. MaxMsg
Fd == {1, 2}

VARIABLES outQ,       \* MessageEvent::m_oInQueue
          outMem,     \* MessageEvent::m_iQueueMemSize
          left,       \* the units of the frame being written that are still to be written
          wants,      \* MessageEvent::m_iEvents has EPOLLOUT
          fd,         \* the event's socket, 0 until TcpClient creates the event
          destroyed,  \* Event::m_bIsDestroy
          idle,       \* no AddMessage for CONNECTTION_NONACTIVE_TIMEOUT: IsActive() is false
          entry,      \* EventLoop::m_mapEvent: no entry, one with no events, or with EPOLLOUT
          polled,     \* the descriptors in the epoll set
          timer,      \* the descriptor of the pending reconnect timer, 0 if there is none
          wpc         \* where the loop is

writerVars == <<outQ, outMem, left, wants, fd, destroyed, idle, entry, polled, timer, wpc>>

WriterInit ==
    /\ outQ = <<>> /\ outMem = 0 /\ left = <<>>
    /\ wants = FALSE /\ fd = 0 /\ destroyed = FALSE /\ idle = FALSE
    /\ entry = [f \in Fd |-> "none"] /\ polled = {}
    /\ timer = 0 /\ wpc = "timeout"

WriterTypeOK ==
    /\ outQ \in Seq(Message) /\ Len(outQ) <= MaxQueue + 1
    /\ outMem \in 0 .. MaxMem + 1
    /\ Len(left) <= FrameLen
    /\ {wants, destroyed, idle} \subseteq BOOLEAN
    /\ fd \in Fd \cup {0} /\ timer \in Fd \cup {0}
    /\ entry \in [Fd -> {"none", "zero", "out"}] /\ polled \subseteq Fd
    /\ wpc \in {"timeout", "epoll", "onwrite", "clear", "write"}

-----------------------------------------------------------------------------
(* The epoll set and the map of the event loop.                            *)

\* EventLoop::ModEvent with EPOLLOUT: ADD or MOD by the map, and no entry when
\* epoll_ctl refuses (ADD of a member, MOD of a stranger).
ModEvent(f, ents, inSet) ==
    IF (ents[f] = "out") = (f \in inSet)
    THEN /\ entry' = [ents EXCEPT ![f] = "out"]
         /\ polled' = inSet \cup {f}
    ELSE /\ entry' = ents
         /\ polled' = inSet

\* EventLoop::RemoveEvent erases the entry when epoll_ctl(DEL) succeeds.
Removed == IF fd \in polled THEN [entry EXCEPT ![fd] = "none"] ELSE entry

\* Event::AddEvent and RemoveEvent: the event keeps its own mask of what it waits
\* for, and leaves the loop alone when the mask does not change.
AddEvent ==
    IF wants THEN UNCHANGED <<wants, entry, polled>>
    ELSE wants' = TRUE /\ ModEvent(fd, entry, polled)

RemoveEvent ==
    IF ~wants THEN UNCHANGED <<wants, entry, polled>>
    ELSE wants' = FALSE /\ entry' = Removed /\ polled' = polled \ {fd}

\* EventLoop::AddTimer keeps an entry for the descriptor, so that the timer finds its event.
WithTimerOnly(ents) == ents
WithTimer(ents) == [ents EXCEPT ![fd] = IF @ = "none" THEN "zero" ELSE @]

\* MessageEvent::ReConnect: everything about the old connection is forgotten,
\* the socket is closed and another one, of the same number or not, connects.
ReConnectKeepingEvents ==
    \E c \in Conn, f \in Fd :
       /\ Connect(c)
       /\ fd' = f /\ wants' = TRUE /\ left' = <<>>
       /\ IF wants THEN entry' = entry /\ polled' = polled \ {fd}
                   ELSE ModEvent(f, entry, polled \ {fd})

ReConnectKeepingFrame ==
    \E c \in Conn, f \in Fd :
       /\ Connect(c)
       /\ fd' = f /\ wants' = TRUE /\ UNCHANGED left
       /\ ModEvent(f, entry, polled \ {fd})

ReConnect ==
    \E c \in Conn, f \in Fd :
       /\ Connect(c)
       /\ fd' = f /\ wants' = TRUE /\ left' = <<>>
       /\ ModEvent(f, entry, polled \ {fd})

-----------------------------------------------------------------------------
(* The calling thread.                                                     *)

\* TcpClient::GetEvent: the first message for a destination creates its event.
GetEvent ==
    IF fd # 0 THEN UNCHANGED <<fd, netVars>>
    ELSE \E c \in Conn, f \in Fd : Connect(c) /\ fd' = f

\* MessageEvent::AddMessage refuses when the queue is over its length or its bytes.
Queues == Len(outQ) <= MaxQueue /\ outMem <= MaxMem

AddMessage(m) ==
    /\ GetEvent
    /\ idle' = FALSE
    /\ IF Queues THEN outQ' = Append(outQ, m) /\ outMem' = outMem + 1
                 ELSE UNCHANGED <<outQ, outMem>>
    /\ UNCHANGED <<left, wants, destroyed, entry, polled, timer, wpc>>

\* Time passes without a message.
GoIdle ==
    /\ fd # 0 /\ ~idle
    /\ idle' = TRUE
    /\ UNCHANGED <<netVars, outQ, outMem, left, wants, fd, destroyed, entry, polled, timer, wpc>>

-----------------------------------------------------------------------------
(* The loop.                                                               *)

\* EventLoop::DealwithTimeout: the timer is due; its event is found by its descriptor.
TimerFires ==
    /\ wpc = "timeout" /\ timer # 0
    /\ timer' = 0
    /\ wpc' = "epoll"
    /\ IF entry[timer] # "none" THEN ReConnect
                                ELSE UNCHANGED <<netVars, fd, wants, left, entry, polled>>
    /\ UNCHANGED <<outQ, outMem, destroyed, idle>>

NoTimeout ==
    /\ wpc = "timeout"
    /\ wpc' = "epoll"
    /\ UNCHANGED <<netVars, outQ, outMem, left, wants, fd, destroyed, idle, entry, polled, timer>>

\* epoll_wait reports a polled socket that can be written to or is in error.
Ready == /\ fd \in polled
         /\ \/ chan[conn] \in {"refused", "reset"}
            \/ chan[conn] = "open" /\ Len(wire[conn]) < Buffer

NothingReady ==
    /\ wpc = "epoll" /\ ~Ready
    /\ wpc' = "write"
    /\ UNCHANGED <<netVars, outQ, outMem, left, wants, fd, destroyed, idle, entry, polled, timer>>

Writable ==
    /\ wpc = "epoll" /\ Ready /\ chan[conn] # "refused"
    /\ wpc' = "onwrite"
    /\ UNCHANGED <<netVars, outQ, outMem, left, wants, fd, destroyed, idle, entry, polled, timer>>

\* EventLoop::OnError and MessageEvent::OnError: the descriptor leaves the epoll
\* set; an active event tries again in 200 ms, another one is given up.
OnError ==
    /\ polled' = polled \ {fd}
    /\ IF idle THEN entry' = Removed /\ wpc' = "clear" /\ UNCHANGED timer
               ELSE entry' = WithTimer(Removed) /\ wpc' = "write" /\ timer' = fd

SocketError ==
    /\ wpc = "epoll" /\ fd \in polled /\ chan[conn] \in {"refused", "reset"}
    /\ OnError
    /\ UNCHANGED <<netVars, outQ, outMem, left, wants, fd, destroyed, idle>>

\* The event is given up: its queue is emptied under the lock and it is marked.
GiveUp ==
    /\ wpc = "clear"
    /\ outQ' = <<>> /\ outMem' = 0
    /\ destroyed' = TRUE
    /\ wpc' = "write"
    /\ UNCHANGED <<netVars, left, wants, fd, idle, entry, polled, timer>>

\* MessageEvent::WriteLeft, and the first send of DoOnWrite: the kernel takes
\* what it has room for; with no room the loop waits for the next EPOLLOUT;
\* on a broken connection the call throws, or the units vanish.
Put(units) ==
    \/ /\ chan[conn] = "open"
       /\ LET n == Room(units)
          IN  /\ wire' = [wire EXCEPT ![conn] = @ \o SubSeq(units, 1, n)]
              /\ left' = SubSeq(units, n + 1, Len(units))
              /\ wpc' = IF n = 0 THEN "write" ELSE "onwrite"
       /\ UNCHANGED <<chan, conn, held, entry, polled, timer>>
    \/ /\ chan[conn] = "reset"
       /\ left' = <<>>
       /\ UNCHANGED <<netVars, wpc, entry, polled, timer>>
    \/ /\ chan[conn] = "reset"
       /\ left' = units
       /\ OnError
       /\ UNCHANGED netVars

WriteLeft ==
    /\ wpc = "onwrite" /\ left # <<>>
    /\ Put(left)
    /\ UNCHANGED <<outQ, outMem, wants, fd, destroyed, idle>>

\* MessageEvent::DoOnWrite takes the next message, and drops one that has waited
\* longer than TCP_OUTQUEUE_DROP_TIMEMS.
NextMessage ==
    /\ wpc = "onwrite" /\ left = <<>> /\ outQ # <<>>
    /\ outQ' = Tail(outQ) /\ outMem' = outMem - 1
    /\ \/ Put(Frame(Head(outQ)))
       \/ UNCHANGED <<netVars, left, entry, polled, timer, wpc>>
    /\ UNCHANGED <<wants, fd, destroyed, idle>>

\* Every message is written: the event no longer asks for EPOLLOUT.
WriteDone ==
    /\ wpc = "onwrite" /\ left = <<>> /\ outQ = <<>>
    /\ RemoveEvent
    /\ wpc' = "write"
    /\ UNCHANGED <<netVars, outQ, outMem, left, fd, destroyed, idle, timer>>

\* MessageEvent::OpenWrite: with a message queued, a connection that was given up
\* connects again and another one waits for EPOLLOUT.
OpenWrite ==
    \/ outQ # <<>> /\ destroyed /\ destroyed' = FALSE /\ ReConnect
    \/ outQ # <<>> /\ ~destroyed /\ AddEvent /\ UNCHANGED <<netVars, left, fd, destroyed>>
    \/ outQ = <<>> /\ UNCHANGED <<netVars, left, wants, fd, destroyed, entry, polled>>

\* TcpClient::DealWithWrite
DealWithWrite ==
    /\ wpc = "write"
    /\ wpc' = "timeout"
    /\ OpenWrite
    /\ UNCHANGED <<outQ, outMem, idle, timer>>

WriterLoop == \/ TimerFires \/ NoTimeout \/ NothingReady \/ Writable \/ SocketError
              \/ GiveUp \/ WriteLeft \/ NextMessage \/ WriteDone \/ DealWithWrite
=============================================================================
