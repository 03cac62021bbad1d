------------------------------ MODULE LearnerSync -----------------------------
(***************************************************************************)
(* How a node that has fallen behind gets the values it has missed:        *)
(* Learner asks the others (AskforLearn), one that is ahead reserves its   *)
(* LearnerSender and answers (SendNowInstanceID), the learner confirms one *)
(* answer, and the sender's thread sends value after value, held back by   *)
(* acks.                                                                   *)
(*                                                                         *)
(* The values themselves are left out: a message carries the instance of   *)
(* its value, and learning advances the node's instance (PaxosGroup has    *)
(* what is learned, and why it may be).  No instance is deleted here.      *)
(***************************************************************************)
EXTENDS Integers, Sequences, FiniteSets

CONSTANTS
    Node,
    None,          \* nullnode
    SenderLead,    \* LearnerSender_ACK_LEAD
    ReceiverLead,  \* LearnerReceiver_ACK_LEAD
    Askers,        \* the nodes whose timer of AskforLearn runs
    CrashNodes,    \* the nodes that may crash
    Link,          \* the pairs of nodes that hear each other
    MaxInstance,   \* bound: instances
    Setups         \* bound: the instances the nodes may be in at the
                   \* beginning, with a number of events (see Event)

ASSUME SyncAssumption ==
    /\ IsFiniteSet(Node) /\ None \notin Node
    /\ MaxInstance \in Nat
    /\ \A s \in Setups : /\ s.start \in [Node -> 0 .. MaxInstance]
                        /\ s.events \in Nat
    /\ ReceiverLead \in Nat \ {0}
    /\ SenderLead \in Nat /\ SenderLead > ReceiverLead
    /\ Askers \subseteq Node /\ CrashNodes \subseteq Node
    /\ Link \subseteq Node \X Node

VARIABLES
    instanceID,  \* the instance a node is in
    recorded,    \* whether the log is known to have a record of instanceID
    up,          \* whether it runs
    seen,        \* Learner::m_llHighestSeenInstanceID
    learning,    \* Learner::m_bIsIMLearning
    lastAck,     \* Learner::m_llLastAckInstanceID
    sending,     \* LearnerSender::IsIMSending
    confirmed,   \* LearnerSender::m_bIsComfirmed
    begin,       \* LearnerSender::m_llBeginInstanceID, -1 if none
    sendTo,      \* LearnerSender::m_iSendToNodeID
    acked,       \* LearnerSender::m_llAckInstanceID
    lead,        \* LearnerSender::m_iAckLead
    thread,      \* where the sender's thread is
    cursor,      \* llSendInstanceID of SendLearnedValue
    chan,        \* messages in flight: queues by kind and pair of nodes
    events       \* the number of events that may still happen

receiverVars == <<instanceID, recorded, seen, learning, lastAck>>
sessionVars  == <<sending, confirmed, begin, sendTo, acked>>
threadVars   == <<thread, cursor, lead>>
vars == <<receiverVars, sessionVars, threadVars, up, chan, events>>

Kinds == {"ask", "now", "confirm", "value", "ack"}

Queues == Kinds \X Link

Init ==
    /\ \E s \in Setups : instanceID = s.start /\ events = s.events
    /\ recorded = [n \in Node |-> FALSE]
    /\ up = [n \in Node |-> TRUE]
    /\ seen = [n \in Node |-> 0]
    /\ learning = [n \in Node |-> FALSE]
    /\ lastAck = [n \in Node |-> 0]
    /\ sending = [n \in Node |-> FALSE]
    /\ confirmed = [n \in Node |-> FALSE]
    /\ begin = [n \in Node |-> -1]
    /\ sendTo = [n \in Node |-> None]
    /\ acked = [n \in Node |-> 0]
    /\ lead = [n \in Node |-> SenderLead]
    /\ thread = [n \in Node |-> "idle"]
    /\ cursor = [n \in Node |-> 0]
    /\ chan = [c \in Queues |-> <<>>]
-----------------------------------------------------------------------------
(* Something disturbs the session: a message is lost, duplicated or        *)
(* delayed or cannot be sent, a timer fires early, a node crashes or       *)
(* learns by other means.                                                  *)
Event ==
    /\ events > 0
    /\ events' = events - 1

(* Messages.  now is the nowinstanceid of SendNowInstanceID, flag asks for *)
(* an ack (PaxosMsgFlagType_SendLearnValue_NeedAck).                       *)

Message(kind, from, to, inst) ==
    [kind |-> kind, from |-> from, to |-> to, inst |-> inst, now |-> 0,
     flag |-> FALSE]

Now(from, to, inst) ==
    [Message("now", from, to, inst) EXCEPT !.now = instanceID[from]]

Value(from, to, inst, flag) ==
    [Message("value", from, to, inst) EXCEPT !.flag = flag]

QueueOf(m) == <<m.kind, <<m.from, m.to>>>>

(* The queues q with the messages of sent, at most one for a queue, behind *)
(* what is in them.  What is sent to a node that is down or does not hear  *)
(* the sender is lost.                                                     *)
With(q, sent) ==
    [c \in Queues |->
        LET new == {m \in sent : QueueOf(m) = c /\ up[m.to]}
        IN  IF new = {} THEN q[c] ELSE Append(q[c], CHOOSE m \in new : TRUE)]

Send(sent) == chan' = With(chan, sent)

(* A message is received; it may be received again, as an event.           *)
Receive(m, replies) ==
    \/ /\ chan' = With([chan EXCEPT ![QueueOf(m)] = Tail(@)], replies)
       /\ UNCHANGED events
    \/ /\ Event
       /\ chan' = With(chan, replies)

(* A timer leaves the messages it waits for the time to arrive, unless it  *)
(* fires early.                                                            *)
Expire(arrived) ==
    \/ /\ arrived
       /\ UNCHANGED events
    \/ /\ ~arrived
       /\ Event

Arrived(queues) == \A c \in Queues \cap queues : chan[c] = <<>>

(* The queues with the messages about the values n learns, and those n and *)
(* the receiver of its sender exchange in a session.                       *)
LearnerQueues(n) ==
    ({"ask", "confirm", "ack"} \X ({n} \X Node))
        \cup ({"now", "value"} \X (Node \X {n}))

SessionQueues(n) ==
    (Kinds \ {"ask"}) \X {<<n, sendTo[n]>>, <<sendTo[n], n>>}
-----------------------------------------------------------------------------
(* The receiver's side: Learner.                                           *)

SetSeenInstanceID(n, inst) ==
    seen' = [seen EXCEPT ![n] = IF inst > @ THEN inst ELSE @]

(* Mutant of StopLearning: the flag stays.                                 *)
KeepLearning(n) == UNCHANGED learning

StopLearning(n) == learning' = [learning EXCEPT ![n] = FALSE]

(* The timer of AskforLearn.                                               *)
AskforLearn_Noop(n) ==
    /\ up[n]
    /\ n \in Askers
    /\ Expire(Arrived(LearnerQueues(n)))
    /\ StopLearning(n)
    /\ Send({Message("ask", n, m, instanceID[n]) : m \in Node \ {n}})
    /\ UNCHANGED <<instanceID, recorded, seen, lastAck, sessionVars,
                   threadVars, up>>

OnSendNowInstanceID(m) ==
    LET n == m.to
        confirms == /\ m.inst = instanceID[n]
                    /\ m.now > instanceID[n]
                    /\ ~learning[n]
    IN  /\ m.kind = "now"
        /\ SetSeenInstanceID(n, m.now)
        /\ learning' = [learning EXCEPT ![n] = @ \/ confirms]
        /\ Receive(m, {Message("confirm", n, m.from, instanceID[n]) :
                          c \in {TRUE} \cap {confirms}})
        /\ UNCHANGED <<instanceID, recorded, lastAck, sessionVars,
                       threadVars>>

Acks(n, m) == m.flag /\ instanceID[n] >= lastAck[n] + ReceiverLead

Advance(n) ==
    /\ instanceID' = [instanceID EXCEPT ![n] = @ + 1]
    /\ recorded' = [recorded EXCEPT ![n] = FALSE]

(* OnSendLearnValue with SendLearnValue_Ack, which comes before the        *)
(* instance advances.                                                      *)
OnSendLearnValue(m) ==
    LET n == m.to
        acks == m.inst <= instanceID[n] /\ Acks(n, m)
    IN  /\ m.kind = "value"
        /\ IF m.inst = instanceID[n]
           THEN Advance(n)
           ELSE UNCHANGED <<instanceID, recorded>>
        /\ lastAck' = [lastAck EXCEPT ![n] =
                          IF acks THEN instanceID[n] ELSE @]
        /\ Receive(m, {Message("ack", n, m.from, instanceID[n]) :
                          c \in {TRUE} \cap {acks}})
        /\ UNCHANGED <<seen, learning, sessionVars, threadVars>>

(* The node learns its instance by the success message of a proposer.      *)
LearnElsewhere(n) ==
    /\ up[n]
    /\ instanceID[n] < MaxInstance
    /\ Event
    /\ Advance(n)
    /\ UNCHANGED <<seen, learning, lastAck, sessionVars, threadVars, up, chan>>
-----------------------------------------------------------------------------
(* The sender's side: Learner and LearnerSender.                           *)

(* Mutant of MayPrepare: a sender is free once its time has passed.        *)
MayPrepareExpired(n) == ~sending[n]

MayPrepare(n) == ~sending[n] /\ ~confirmed[n]

(* OnAskforLearn with LearnerSender::Prepare.  A sender that is busy sends *)
(* the one value an asker lacks, without wanting an ack.                   *)
OnAskforLearn(m) ==
    LET n == m.to IN
    /\ m.kind = "ask"
    /\ SetSeenInstanceID(n, m.inst)
    /\ \/ /\ m.inst >= instanceID[n]
          /\ Receive(m, {})
          /\ UNCHANGED sessionVars
       \/ /\ m.inst < instanceID[n]
          /\ MayPrepare(n)
          /\ sending' = [sending EXCEPT ![n] = TRUE]
          /\ begin' = [begin EXCEPT ![n] = m.inst]
          /\ acked' = [acked EXCEPT ![n] = m.inst]
          /\ sendTo' = [sendTo EXCEPT ![n] = m.from]
          /\ Receive(m, {Now(n, m.from, m.inst)})
          /\ UNCHANGED confirmed
       \/ /\ m.inst < instanceID[n]
          /\ ~MayPrepare(n)
          /\ Receive(m, {Value(n, m.from, i, FALSE) :
                            i \in {m.inst} \cap {instanceID[n] - 1}})
          /\ UNCHANGED sessionVars
    /\ UNCHANGED <<instanceID, recorded, learning, lastAck, threadVars>>

(* OnComfirmAskForLearn: LearnerSender::Comfirm.                           *)
Comfirms(n, m) ==
    sending[n] /\ ~confirmed[n] /\ begin[n] = m.inst /\ sendTo[n] = m.from

OnComfirmAskForLearn(m) ==
    /\ m.kind = "confirm"
    /\ confirmed' = [confirmed EXCEPT ![m.to] = @ \/ Comfirms(m.to, m)]
    /\ Receive(m, {})
    /\ UNCHANGED <<receiverVars, sending, begin, sendTo, acked, threadVars>>

(* OnSendLearnValue_Ack: LearnerSender::Ack.                               *)
Counts(n, m) == sending[n] /\ confirmed[n] /\ sendTo[n] = m.from

OnSendLearnValue_Ack(m) ==
    LET n == m.to IN
    /\ m.kind = "ack"
    /\ acked' = [acked EXCEPT ![n] =
                    IF Counts(n, m) /\ m.inst > @ THEN m.inst ELSE @]
    /\ Receive(m, {})
    /\ UNCHANGED <<receiverVars, sending, confirmed, begin, sendTo,
                   threadVars>>

(* IsIMSending turns false LearnerSender_PREPARE_TIMEOUT after the last    *)
(* value was sent.                                                         *)
SendExpires(n) ==
    /\ up[n]
    /\ sending[n]
    /\ Expire(/\ Arrived(SessionQueues(n))
              /\ confirmed[n] => thread[n] = "wait")
    /\ sending' = [sending EXCEPT ![n] = FALSE]
    /\ UNCHANGED <<receiverVars, confirmed, begin, sendTo, acked, threadVars,
                   up, chan>>
-----------------------------------------------------------------------------
(* The sender's thread.                                                    *)

WaitToSend(n) ==
    /\ thread[n] = "idle"
    /\ confirmed[n]
    /\ thread' = [thread EXCEPT ![n] = "send"]
    /\ cursor' = [cursor EXCEPT ![n] = begin[n]]
    /\ UNCHANGED <<sessionVars, lead, chan>>

(* The loop of SendLearnedValue.                                           *)
SendOne(n) ==
    /\ thread[n] = "send"
    /\ cursor[n] < instanceID[n]
    /\ Send({Value(n, sendTo[n], cursor[n], TRUE)})
    /\ thread' = [thread EXCEPT ![n] = "check"]
    /\ UNCHANGED <<sessionVars, cursor, lead>>

(* The record cannot be read, or the connection's queue is full.           *)
SendFails(n) ==
    /\ up[n]
    /\ thread[n] = "send"
    /\ cursor[n] < instanceID[n]
    /\ Event
    /\ thread' = [thread EXCEPT ![n] = "done"]
    /\ UNCHANGED <<receiverVars, sessionVars, cursor, lead, up, chan>>

SendEnd(n) ==
    /\ thread[n] = "send"
    /\ cursor[n] >= instanceID[n]
    /\ lead' = [lead EXCEPT ![n] = SenderLead]
    /\ thread' = [thread EXCEPT ![n] = "done"]
    /\ UNCHANGED <<sessionVars, cursor, chan>>

(* Mutant of TooFar: off by one.                                           *)
TooFarByOne(n) == cursor[n] > acked[n] + lead[n] + 1

TooFar(n) == cursor[n] > acked[n] + lead[n]

(* CheckAck allows the next value, and ReleshSending.                      *)
NextValue(n) ==
    /\ thread[n] \in {"check", "wait"}
    /\ thread[n] = "check" => cursor[n] >= acked[n]
    /\ ~TooFar(n)
    /\ cursor' = [cursor EXCEPT ![n] = @ + 1]
    /\ sending' = [sending EXCEPT ![n] = TRUE]
    /\ thread' = [thread EXCEPT ![n] = "send"]
    /\ UNCHANGED <<confirmed, begin, sendTo, acked, lead, chan>>

(* CheckAck finds that the receiver has caught up by other means.          *)
CaughtUp(n) ==
    /\ thread[n] = "check"
    /\ cursor[n] < acked[n]
    /\ lead' = [lead EXCEPT ![n] = SenderLead]
    /\ thread' = [thread EXCEPT ![n] = "done"]
    /\ UNCHANGED <<sessionVars, cursor, chan>>

WaitAck(n) ==
    /\ thread[n] = "check"
    /\ TooFar(n)
    /\ thread' = [thread EXCEPT ![n] = "wait"]
    /\ UNCHANGED <<sessionVars, cursor, lead, chan>>

CutAckLead(n) ==
    lead' = [lead EXCEPT ![n] =
                IF @ - ReceiverLead > ReceiverLead THEN @ - ReceiverLead
                ELSE @]

(* CheckAck gives up LearnerSender_ACK_TIMEOUT after the last ack.         *)
AckTimeout(n) ==
    /\ up[n]
    /\ thread[n] = "wait"
    /\ TooFar(n)
    /\ Expire(Arrived(SessionQueues(n)))
    /\ CutAckLead(n)
    /\ thread' = [thread EXCEPT ![n] = "done"]
    /\ UNCHANGED <<receiverVars, sessionVars, cursor, up, chan>>

SendDone(n) ==
    /\ thread[n] = "done"
    /\ sending' = [sending EXCEPT ![n] = FALSE]
    /\ confirmed' = [confirmed EXCEPT ![n] = FALSE]
    /\ begin' = [begin EXCEPT ![n] = -1]
    /\ sendTo' = [sendTo EXCEPT ![n] = None]
    /\ acked' = [acked EXCEPT ![n] = 0]
    /\ thread' = [thread EXCEPT ![n] = "idle"]
    /\ cursor' = [cursor EXCEPT ![n] = 0]
    /\ UNCHANGED <<lead, chan>>

Thread(n) ==
    /\ up[n]
    /\ \/ WaitToSend(n)
       \/ SendOne(n)
       \/ SendEnd(n)
       \/ NextValue(n)
       \/ CaughtUp(n)
       \/ WaitAck(n)
       \/ SendDone(n)
    /\ UNCHANGED <<receiverVars, up, events>>
-----------------------------------------------------------------------------
(* The network and the nodes fail.                                         *)

(* The first message of a queue is lost, or delayed behind the others.     *)
Lose(c) ==
    /\ chan[c] # <<>>
    /\ Event
    /\ \/ chan' = [chan EXCEPT ![c] = Tail(@)]
       \/ chan' = [chan EXCEPT ![c] = Append(Tail(@), Head(@))]
    /\ UNCHANGED <<receiverVars, sessionVars, threadVars, up>>

(* A node goes down with what is not in its log.  When it comes up again   *)
(* it is in the last instance its log has a record of: the one it was in,  *)
(* or the one before.                                                      *)
Crash(n) ==
    /\ up[n]
    /\ n \in CrashNodes
    /\ Event
    /\ up' = [up EXCEPT ![n] = FALSE]
    /\ \E i \in {instanceID[n], instanceID[n] - 1} \cap Nat :
          /\ recorded[n] => i = instanceID[n]
          /\ instanceID' = [instanceID EXCEPT ![n] = i]
    /\ recorded' = [recorded EXCEPT ![n] = TRUE]
    /\ seen' = [seen EXCEPT ![n] = 0]
    /\ learning' = [learning EXCEPT ![n] = FALSE]
    /\ lastAck' = [lastAck EXCEPT ![n] = 0]
    /\ sending' = [sending EXCEPT ![n] = FALSE]
    /\ confirmed' = [confirmed EXCEPT ![n] = FALSE]
    /\ begin' = [begin EXCEPT ![n] = -1]
    /\ sendTo' = [sendTo EXCEPT ![n] = None]
    /\ acked' = [acked EXCEPT ![n] = 0]
    /\ lead' = [lead EXCEPT ![n] = SenderLead]
    /\ thread' = [thread EXCEPT ![n] = "idle"]
    /\ cursor' = [cursor EXCEPT ![n] = 0]
    /\ chan' = [c \in DOMAIN chan |-> IF c[2][2] = n THEN <<>> ELSE chan[c]]

Restart(n) ==
    /\ ~up[n]
    /\ up' = [up EXCEPT ![n] = TRUE]
    /\ UNCHANGED <<receiverVars, sessionVars, threadVars, chan, events>>
-----------------------------------------------------------------------------
Deliver(c) ==
    /\ chan[c] # <<>>
    /\ LET m == Head(chan[c])
       IN  \/ OnAskforLearn(m)
           \/ OnSendNowInstanceID(m)
           \/ OnComfirmAskForLearn(m)
           \/ OnSendLearnValue(m)
           \/ OnSendLearnValue_Ack(m)
    /\ UNCHANGED up

Next ==
    \/ \E c \in Queues : Deliver(c) \/ Lose(c)
    \/ \E n \in Node :
          \/ AskforLearn_Noop(n)
          \/ LearnElsewhere(n)
          \/ SendExpires(n)
          \/ Thread(n)
          \/ AckTimeout(n)
          \/ SendFails(n)
          \/ Crash(n)
          \/ Restart(n)

Spec == Init /\ [][Next]_vars

(* What arrives is handled, threads run and timers expire.                 *)
LiveSpec ==
    /\ Spec
    /\ \A l \in Link : WF_vars(\E k \in Kinds : Deliver(<<k, l>>))
    /\ \A n \in Node : /\ WF_vars(AskforLearn_Noop(n))
                       /\ WF_vars(SendExpires(n))
                       /\ WF_vars(Thread(n) \/ AckTimeout(n))
-----------------------------------------------------------------------------
(* Properties.                                                             *)

Instances == 0 .. MaxInstance

Messages == [kind : Kinds, from : Node, to : Node, inst : Instances,
             now : Instances, flag : BOOLEAN]

(* Every variable keeps its type; what CutAckLead leaves of the lead still *)
(* exceeds the instances the receiver waits between acks.                  *)
TypeOK ==
    /\ instanceID \in [Node -> Instances]
    /\ recorded \in [Node -> BOOLEAN]
    /\ up \in [Node -> BOOLEAN]
    /\ seen \in [Node -> Instances]
    /\ learning \in [Node -> BOOLEAN]
    /\ lastAck \in [Node -> Instances]
    /\ sending \in [Node -> BOOLEAN]
    /\ confirmed \in [Node -> BOOLEAN]
    /\ begin \in [Node -> Instances \cup {-1}]
    /\ sendTo \in [Node -> Node \cup {None}]
    /\ acked \in [Node -> Instances]
    /\ lead \in [Node -> ReceiverLead + 1 .. SenderLead]
    /\ thread \in [Node -> {"idle", "send", "check", "wait", "done"}]
    /\ cursor \in [Node -> Instances]
    /\ DOMAIN chan = Queues
    /\ \A c \in Queues : chan[c] \in Seq(Messages)
    /\ events \in Nat

(* While the thread sends, nobody takes the session from it: it was        *)
(* confirmed, and neither the receiver nor the first instance changes,     *)
(* although the thread reads them without the lock                         *)
(* (LearnerSender::SendLearnedValue).                                      *)
SessionStable ==
    [][\A n \in Node :
          thread[n] # "idle" /\ thread'[n] # "idle" =>
             /\ confirmed[n] /\ confirmed'[n]
             /\ begin'[n] = begin[n] /\ sendTo'[n] = sendTo[n]]_vars

(* Acks are the receiver's, of values it has, and the sender is never more *)
(* than the lead and one value ahead of it.  A node that has just crashed  *)
(* may have lost the last value it had.                                    *)
FlowControl ==
    \A n \in Node :
        thread[n] # "idle" =>
            LET has == instanceID[sendTo[n]]
                       + IF recorded[sendTo[n]] THEN 1 ELSE 0
            IN  acked[n] <= has /\ cursor[n] <= has + SenderLead + 1

(* With the types, of which that of the lead is what flow control rests on.*)
SenderInv == TypeOK /\ FlowControl

(* A node that runs and has fallen behind a node it hears, one that does   *)
(* not crash, gets level with it, whoever else the senders serve and       *)
(* whatever the network loses.                                             *)
Behind(n) ==
    \E m \in Node \ CrashNodes :
        <<m, n>> \in Link /\ instanceID[m] > instanceID[n]

CatchesUp == \A n \in Askers : Behind(n) ~> (~Behind(n) \/ ~up[n])
=============================================================================
