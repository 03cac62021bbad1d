-------------------------- MODULE LearnerSyncProofs ---------------------------
(***************************************************************************)
(* Proofs about LearnerSender: its session belongs to one receiver while   *)
(* the thread sends, what is counted as acknowledged the receiver has, and *)
(* the thread stays within its lead of it, whatever is lost, doubled or    *)
(* delayed and whoever crashes.                                            *)
(*                                                                         *)
(* They rest on what a node has, the instances before its own and the      *)
(* record that a crash has left of its own: it never shrinks, so that an   *)
(* ask or an ack in flight stays true of its sender however late it comes. *)
(***************************************************************************)
EXTENDS LearnerSync, SequenceTheorems, TLAPS

-----------------------------------------------------------------------------
(* The number of instances n has values of, or would find in its log.      *)
Has(n) == instanceID[n] + IF recorded[n] THEN 1 ELSE 0

HasGrows == \A n \in Node : Has(n) <= Has(n)'

(* An ask or an ack claims no more than its sender has, and a value is one *)
(* of an instance its sender has left.                                     *)
MessageTrue(m) ==
    /\ m \in Messages
    /\ m.kind \in {"ask", "ack"} => m.inst <= Has(m.from)
    /\ m.kind = "value" => m.inst < MaxInstance

InQueue(c) == {m \in Messages : QueueOf(m) = c /\ MessageTrue(m)}

QueuesTrue(q) == \A c \in Queues : q[c] \in Seq(InQueue(c))

ChanInv == DOMAIN chan = Queues /\ QueuesTrue(chan)

(* The thread sends in a confirmed session; a session is with a node that  *)
(* has what it has asked from and what it has acknowledged.                *)
SessionTrue(n) ==
    /\ thread[n] # "idle" => confirmed[n]
    /\ confirmed[n] => sendTo[n] # None /\ begin[n] >= 0
    /\ sendTo[n] # None =>
            acked[n] <= Has(sendTo[n]) /\ begin[n] <= Has(sendTo[n])
    /\ thread[n] \in {"check", "wait"} => cursor[n] < MaxInstance
    /\ thread[n] # "idle" => cursor[n] <= Has(sendTo[n]) + SenderLead + 1

SessionInv == \A n \in Node : SessionTrue(n)

(* The types but for those of the messages.                                *)
StateTypeOK ==
    /\ instanceID \in [Node -> Instances]
    /\ recorded \in [Node -> BOOLEAN]
    /\ up \in [Node -> BOOLEAN]
    /\ seen \in [Node -> Instances]
    /\ learning \in [Node -> BOOLEAN]
    /\ lastAck \in [Node -> Instances]
    /\ sending \in [Node -> BOOLEAN]
    /\ confirmed \in [Node -> BOOLEAN]
    /\ begin \in [Node -> Instances \cup {-1}]
    /\ sendTo \in [Node -> Node \cup {None}]
    /\ acked \in [Node -> Instances]
    /\ lead \in [Node -> ReceiverLead + 1 .. SenderLead]
    /\ thread \in [Node -> {"idle", "send", "check", "wait", "done"}]
    /\ cursor \in [Node -> Instances]
    /\ events \in Nat

IInv == StateTypeOK /\ ChanInv /\ SessionInv

-----------------------------------------------------------------------------
(* Messages and queues.                                                    *)

LEMMA HasNat ==
    ASSUME StateTypeOK, NEW n \in Node
    PROVE  Has(n) \in Nat /\ instanceID[n] <= Has(n)
<1>1. instanceID[n] \in Nat /\ recorded[n] \in BOOLEAN
  BY SyncAssumption DEF StateTypeOK, Instances
<1> QED
  BY <1>1 DEF Has

LEMMA HasNatNext ==
    ASSUME StateTypeOK', NEW n \in Node
    PROVE  Has(n)' \in Nat /\ instanceID'[n] <= Has(n)'
<1>1. instanceID'[n] \in Nat /\ recorded'[n] \in BOOLEAN
  BY SyncAssumption DEF StateTypeOK, Instances
<1> QED
  BY <1>1 DEF Has

(* A queue of messages that stay true is a queue of true messages.         *)
LEMMA QueueGrows ==
    ASSUME StateTypeOK, StateTypeOK', HasGrows, NEW c \in Queues
    PROVE  /\ InQueue(c) \subseteq InQueue(c)'
           /\ \A s \in Seq(InQueue(c)) : s \in Seq(InQueue(c)')
<1>1. ASSUME NEW m \in InQueue(c) PROVE m \in InQueue(c)'
  <2>1. m \in Messages /\ MessageTrue(m) /\ QueueOf(m) = c
    BY DEF InQueue
  <2>2. m.from \in Node /\ m.inst \in Nat
    BY <2>1, SyncAssumption DEF Messages, Instances
  <2>3. Has(m.from) \in Nat /\ Has(m.from)' \in Nat /\ Has(m.from) <= Has(m.from)'
    <3>1. Has(m.from) \in Nat
      BY <2>2, HasNat
    <3>2. Has(m.from)' \in Nat
      BY <2>2, HasNatNext
    <3> QED
      BY <2>2, <3>1, <3>2 DEF HasGrows
  <2>4. MessageTrue(m)'
    BY <2>1, <2>2, <2>3 DEF MessageTrue
  <2> QED
    BY <2>1, <2>4 DEF InQueue
<1>2. InQueue(c) \subseteq InQueue(c)'
  BY <1>1
<1> QED
  BY <1>2, SeqMonotonic

(* What is sent is queued behind what stays true.                          *)
LEMMA WithTrue ==
    ASSUME StateTypeOK, StateTypeOK', HasGrows, NEW q, QueuesTrue(q),
           NEW sent, \A m \in sent : MessageTrue(m)', chan' = With(q, sent)
    PROVE  ChanInv'
<1> SUFFICES ASSUME NEW c \in Queues PROVE chan'[c] \in Seq(InQueue(c)')
  BY DEF ChanInv, QueuesTrue, With
<1> DEFINE new == {m \in sent : QueueOf(m) = c /\ up[m.to]}
<1>1. q[c] \in Seq(InQueue(c)')
  BY QueueGrows DEF QueuesTrue
<1>2. \A m \in new : m \in InQueue(c)'
  BY DEF InQueue, MessageTrue
<1>3. chan'[c] = IF new = {} THEN q[c] ELSE Append(q[c], CHOOSE m \in new : TRUE)
  BY DEF With
<1>4. CASE new = {}
  BY <1>1, <1>3, <1>4
<1>5. CASE new # {}
  <2> DEFINE x == CHOOSE m \in new : TRUE
  <2>1. x \in new
    BY <1>5
  <2>2. x \in InQueue(c)'
    BY <1>2, <2>1
  <2>3. Append(q[c], x) \in Seq(InQueue(c)')
    BY <1>1, <2>2
  <2> QED
    BY <1>3, <1>5, <2>3
<1> QED
  BY <1>4, <1>5

LEMMA SameChan ==
    ASSUME StateTypeOK, StateTypeOK', ChanInv, HasGrows, chan' = chan
    PROVE  ChanInv'
BY QueueGrows DEF ChanInv, QueuesTrue

(* A message at the head of a queue is one of the queue.                   *)
LEMMA HeadInQueue ==
    ASSUME ChanInv, NEW c \in Queues, chan[c] # <<>>
    PROVE  /\ Head(chan[c]) \in InQueue(c)
           /\ Tail(chan[c]) \in Seq(InQueue(c))
BY HeadTailProperties DEF ChanInv, QueuesTrue

LEMMA ReceiveTrue ==
    ASSUME StateTypeOK, StateTypeOK', ChanInv, HasGrows,
           NEW c \in Queues, chan[c] # <<>>, NEW m, m = Head(chan[c]),
           NEW replies, \A r \in replies : MessageTrue(r)',
           Receive(m, replies)
    PROVE  ChanInv'
<1>1. QueueOf(m) = c /\ Tail(chan[c]) \in Seq(InQueue(c))
  BY HeadInQueue DEF InQueue
<1>2. QueuesTrue([chan EXCEPT ![c] = Tail(@)])
  BY <1>1 DEF QueuesTrue, ChanInv
<1> QED
  BY <1>1, <1>2, WithTrue DEF Receive, ChanInv

LEMMA ReceiveNone ==
    ASSUME StateTypeOK, StateTypeOK', ChanInv, HasGrows,
           NEW c \in Queues, chan[c] # <<>>, NEW m, m = Head(chan[c]),
           Receive(m, {})
    PROVE  ChanInv'
<1> DEFINE replies == {}
<1>1. (\A r \in replies : MessageTrue(r)') /\ Receive(m, replies)
  OBVIOUS
<1> HIDE DEF replies
<1> QED
  BY <1>1, ReceiveTrue
-----------------------------------------------------------------------------
(* The receiver's instances, and the sessions of those a step leaves alone.*)

(* Nobody's instances shrink by a step that changes nobody's.              *)
LEMMA HasStays ==
    ASSUME StateTypeOK, UNCHANGED <<instanceID, recorded>>
    PROVE  HasGrows
<1> SUFFICES ASSUME NEW n \in Node PROVE Has(n) <= Has(n)'
  BY DEF HasGrows
<1>1. Has(n)' = Has(n)
  BY DEF Has
<1> QED
  BY <1>1, HasNat

(* The instance ends (Instance::NewInstance): what the next lacks of a     *)
(* record the last has as its value.                                       *)
LEMMA AdvanceGrows ==
    ASSUME StateTypeOK, NEW n \in Node, instanceID[n] < MaxInstance, Advance(n)
    PROVE  /\ HasGrows
           /\ instanceID' \in [Node -> Instances]
           /\ recorded' \in [Node -> BOOLEAN]
<1>1. ASSUME NEW k \in Node PROVE Has(k) <= Has(k)'
  <2>1. instanceID[k] \in Nat /\ recorded[k] \in BOOLEAN
    BY SyncAssumption DEF StateTypeOK, Instances
  <2>2. instanceID'[k] = (IF k = n THEN instanceID[k] + 1 ELSE instanceID[k])
    BY DEF Advance, StateTypeOK
  <2>3. recorded'[k] = (IF k = n THEN FALSE ELSE recorded[k])
    BY DEF Advance, StateTypeOK
  <2> QED
    BY <2>1, <2>2, <2>3 DEF Has
<1>2. instanceID[n] + 1 \in Instances
  BY SyncAssumption DEF StateTypeOK, Instances
<1> QED
  BY <1>1, <1>2 DEF Advance, HasGrows, StateTypeOK

(* The session of a sender that a step does not touch stays true, as its   *)
(* receiver loses nothing.                                                 *)
LEMMA SessionKept ==
    ASSUME StateTypeOK, StateTypeOK', HasGrows, NEW k \in Node, SessionTrue(k),
           confirmed'[k] = confirmed[k], begin'[k] = begin[k],
           sendTo'[k] = sendTo[k], acked'[k] = acked[k],
           thread'[k] = thread[k], cursor'[k] = cursor[k]
    PROVE  SessionTrue(k)'
<1>1. SyncAssumption /\ acked[k] \in Int /\ begin[k] \in Int /\ cursor[k] \in Int
  BY SyncAssumption DEF StateTypeOK, Instances
<1>2. CASE sendTo[k] = None
  BY <1>2 DEF SessionTrue
<1>3. CASE sendTo[k] \in Node
  <2>1. PICK r \in Node : r = sendTo[k] /\ r = sendTo'[k]
    BY <1>3
  <2>2. Has(r) \in Nat /\ Has(r)' \in Nat /\ Has(r) <= Has(r)'
    BY HasNat, HasNatNext DEF HasGrows
  <2>3. Has(sendTo[k]) = Has(r)
    BY <2>1
  <2>4. Has(sendTo[k])' = Has(r)'
    BY <2>1 DEF Has
  <2> QED
    BY <1>1, <2>1, <2>2, <2>3, <2>4, SyncAssumption DEF SessionTrue
<1> QED
  BY <1>2, <1>3 DEF StateTypeOK
-----------------------------------------------------------------------------
(* The handlers of messages.                                               *)

LEMMA HeadTrue ==
    ASSUME IInv, NEW c \in Queues, chan[c] # <<>>, NEW m, m = Head(chan[c])
    PROVE  /\ MessageTrue(m)
           /\ m.from \in Node /\ m.to \in Node
           /\ m.inst \in Instances /\ m.now \in Instances
BY HeadInQueue DEF IInv, InQueue, MessageTrue, Messages

(* An answer is a message.                                                 *)
LEMMA MessageTyped ==
    ASSUME NEW kind \in Kinds, NEW from \in Node, NEW to \in Node,
           NEW inst \in Instances
    PROVE  /\ Message(kind, from, to, inst) \in Messages
           /\ Message(kind, from, to, inst).kind = kind
           /\ Message(kind, from, to, inst).from = from
           /\ Message(kind, from, to, inst).inst = inst
BY SyncAssumption DEF Message, Messages, Instances

LEMMA ValueTyped ==
    ASSUME NEW from \in Node, NEW to \in Node, NEW inst \in Instances,
           NEW flag \in BOOLEAN
    PROVE  /\ Value(from, to, inst, flag) \in Messages
           /\ Value(from, to, inst, flag).kind = "value"
           /\ Value(from, to, inst, flag).inst = inst
<1>1. PICK b : b = Message("value", from, to, inst)
  OBVIOUS
<1>2. b \in Messages /\ b.kind = "value" /\ b.inst = inst
  BY <1>1, MessageTyped DEF Kinds
<1>3. Value(from, to, inst, flag) = [b EXCEPT !.flag = flag]
  BY <1>1 DEF Value
<1> QED
  BY <1>2, <1>3 DEF Messages

LEMMA SeenTyped ==
    ASSUME StateTypeOK, NEW n \in Node, NEW i \in Instances,
           SetSeenInstanceID(n, i)
    PROVE  seen' \in [Node -> Instances]
BY DEF StateTypeOK, SetSeenInstanceID

LEMMA EventsTyped ==
    ASSUME StateTypeOK, Event \/ UNCHANGED events
    PROVE  events' \in Nat
BY DEF StateTypeOK, Event

(* OnSendNowInstanceID: the receiver confirms, or does nothing.            *)
LEMMA OnSendNowInstanceIDKeeps ==
    ASSUME IInv, NEW c \in Queues, chan[c] # <<>>, NEW m, m = Head(chan[c]),
           OnSendNowInstanceID(m), UNCHANGED up
    PROVE  IInv'
<1>1. /\ MessageTrue(m) /\ m.from \in Node /\ m.to \in Node
      /\ m.inst \in Instances /\ m.now \in Instances
  BY HeadTrue
<1> DEFINE n == m.to
           confirms == /\ m.inst = instanceID[n]
                       /\ m.now > instanceID[n]
                       /\ ~learning[n]
           replies == {Message("confirm", n, m.from, instanceID[n]) :
                          x \in {TRUE} \cap {confirms}}
<1>2. StateTypeOK'
  <2>1. seen' \in [Node -> Instances]
    BY <1>1, SeenTyped DEF IInv, OnSendNowInstanceID
  <2>2. events' \in Nat
    BY EventsTyped DEF IInv, OnSendNowInstanceID, Receive
  <2> QED
    BY <2>1, <2>2, <1>1
    DEF IInv, StateTypeOK, OnSendNowInstanceID, sessionVars, threadVars
<1>3. HasGrows
  BY HasStays DEF IInv, OnSendNowInstanceID
<1>4. ChanInv'
  <2>1. \A r \in replies : MessageTrue(r)'
    <3>1. instanceID[n] \in Instances /\ "confirm" \in Kinds
      BY <1>1 DEF IInv, StateTypeOK, Kinds
    <3> QED
      BY <3>1, <1>1, MessageTyped DEF MessageTrue
  <2>2. Receive(m, replies)
    BY DEF OnSendNowInstanceID
  <2> HIDE DEF replies
  <2> QED
    BY <1>2, <1>3, <2>1, <2>2, ReceiveTrue DEF IInv
<1>5. SessionInv'
  BY <1>2, <1>3, SessionKept
  DEF IInv, SessionInv, OnSendNowInstanceID, sessionVars, threadVars
<1> QED
  BY <1>2, <1>4, <1>5 DEF IInv

(* OnSendLearnValue: what the receiver acknowledges it has.                *)
LEMMA OnSendLearnValueKeeps ==
    ASSUME IInv, NEW c \in Queues, chan[c] # <<>>, NEW m, m = Head(chan[c]),
           OnSendLearnValue(m), UNCHANGED up
    PROVE  IInv'
<1>1. /\ MessageTrue(m) /\ m.from \in Node /\ m.to \in Node
      /\ m.inst \in Instances
  BY HeadTrue
<1> DEFINE n == m.to
           acks == m.inst <= instanceID[n] /\ Acks(n, m)
           replies == {Message("ack", n, m.from, instanceID[n]) :
                          x \in {TRUE} \cap {acks}}
<1>2. /\ HasGrows
      /\ instanceID' \in [Node -> Instances]
      /\ recorded' \in [Node -> BOOLEAN]
  <2>1. CASE m.inst = instanceID[n]
    <3>1. Advance(n) /\ instanceID[n] < MaxInstance
      BY <1>1, <2>1 DEF OnSendLearnValue, MessageTrue
    <3> QED
      BY <1>1, <3>1, AdvanceGrows DEF IInv
  <2>2. CASE m.inst # instanceID[n]
    <3>1. UNCHANGED <<instanceID, recorded>>
      BY <2>2 DEF OnSendLearnValue
    <3> QED
      BY <3>1, HasStays DEF IInv, StateTypeOK
  <2> QED
    BY <2>1, <2>2
<1>3. StateTypeOK'
  <2>1. events' \in Nat
    BY EventsTyped DEF IInv, OnSendLearnValue, Receive
  <2>2. lastAck' \in [Node -> Instances]
    BY <1>1 DEF IInv, StateTypeOK, OnSendLearnValue
  <2> QED
    BY <1>2, <2>1, <2>2
    DEF IInv, StateTypeOK, OnSendLearnValue, sessionVars, threadVars
<1>4. ChanInv'
  <2>1. \A r \in replies : MessageTrue(r)'
    <3>1. instanceID[n] \in Instances /\ "ack" \in Kinds
      BY <1>1 DEF IInv, StateTypeOK, Kinds
    <3>2. instanceID[n] \in Nat /\ instanceID[n] <= Has(n) /\ Has(n) \in Nat
      BY <1>1, <3>1, HasNat, SyncAssumption DEF IInv, Instances
    <3>3. Has(n)' \in Nat /\ Has(n) <= Has(n)'
      BY <1>1, <1>2, <1>3, HasNatNext DEF HasGrows
    <3>4. instanceID[n] <= Has(n)'
      BY <3>2, <3>3
    <3> QED
      BY <3>1, <3>4, <1>1, MessageTyped DEF MessageTrue
  <2>2. Receive(m, replies)
    BY DEF OnSendLearnValue
  <2> HIDE DEF replies
  <2> QED
    BY <1>2, <1>3, <2>1, <2>2, ReceiveTrue DEF IInv
<1>5. SessionInv'
  BY <1>2, <1>3, SessionKept
  DEF IInv, SessionInv, OnSendLearnValue, sessionVars, threadVars
<1> QED
  BY <1>3, <1>4, <1>5 DEF IInv
(* OnAskforLearn: a free sender takes a session with a node that has what  *)
(* it has asked from; a confirmed session is not taken over.               *)
LEMMA OnAskforLearnKeeps ==
    ASSUME IInv, NEW c \in Queues, chan[c] # <<>>, NEW m, m = Head(chan[c]),
           OnAskforLearn(m), UNCHANGED up
    PROVE  IInv'
<1>1. /\ MessageTrue(m) /\ m.from \in Node /\ m.to \in Node
      /\ m.inst \in Instances
  BY HeadTrue
<1> DEFINE n == m.to
<1>2. StateTypeOK'
  <2>1. seen' \in [Node -> Instances]
    BY <1>1, SeenTyped DEF IInv, OnAskforLearn
  <2>2. events' \in Nat
    BY EventsTyped DEF IInv, OnAskforLearn, Receive
  <2>3. /\ sending' \in [Node -> BOOLEAN] /\ confirmed' \in [Node -> BOOLEAN]
        /\ begin' \in [Node -> Instances \cup {-1}]
        /\ acked' \in [Node -> Instances]
        /\ sendTo' \in [Node -> Node \cup {None}]
    BY <1>1 DEF IInv, StateTypeOK, OnAskforLearn, sessionVars
  <2> QED
    BY <2>1, <2>2, <2>3 DEF IInv, StateTypeOK, OnAskforLearn, threadVars
<1>3. HasGrows
  BY HasStays DEF IInv, OnAskforLearn
<1>4. ChanInv'
  <2>1. ASSUME NEW replies, Receive(m, replies),
               \A r \in replies : MessageTrue(r)'
        PROVE  ChanInv'
    BY <1>2, <1>3, <2>1, ReceiveTrue DEF IInv
  <2>2. CASE Receive(m, {})
    BY <2>1, <2>2
  <2>3. CASE Receive(m, {Now(n, m.from, m.inst)})
    <3>1. instanceID[n] \in Instances /\ "now" \in Kinds
      BY <1>1 DEF IInv, StateTypeOK, Kinds
    <3>2. /\ Now(n, m.from, m.inst) \in Messages
          /\ Now(n, m.from, m.inst).kind = "now"
      BY <3>1, <1>1 DEF Now, Message, Messages
    <3>3. PICK r : r = Now(n, m.from, m.inst)
      OBVIOUS
    <3>4. MessageTrue(r)'
      BY <3>2, <3>3 DEF MessageTrue
    <3>5. Receive(m, {r})
      BY <2>3, <3>3
    <3>6. \A x \in {r} : MessageTrue(x)'
      BY <3>4
    <3> QED
      BY <2>1, <3>5, <3>6
  <2>4. CASE /\ m.inst < instanceID[n]
             /\ Receive(m, {Value(n, m.from, i, FALSE) :
                               i \in {m.inst} \cap {instanceID[n] - 1}})
    <3>1. instanceID[n] \in Instances /\ m.inst < MaxInstance
      <4>1. instanceID[n] \in Instances /\ m.inst < instanceID[n]
        BY <1>1, <2>4 DEF IInv, StateTypeOK
      <4> QED
        BY <1>1, <4>1, SyncAssumption DEF Instances
    <3>2. /\ Value(n, m.from, m.inst, FALSE) \in Messages
          /\ Value(n, m.from, m.inst, FALSE).kind = "value"
          /\ Value(n, m.from, m.inst, FALSE).inst = m.inst
      BY <3>1, <1>1, ValueTyped
    <3>3. MessageTrue(Value(n, m.from, m.inst, FALSE))'
      BY <3>1, <3>2 DEF MessageTrue
    <3>4. \A r \in {Value(n, m.from, i, FALSE) :
                       i \in {m.inst} \cap {instanceID[n] - 1}} :
             MessageTrue(r)'
      BY <3>3
    <3> QED
      BY <2>1, <2>4, <3>4
  <2> QED
    BY <2>2, <2>3, <2>4 DEF OnAskforLearn
<1>5. ASSUME NEW k \in Node PROVE SessionTrue(k)'
  <2>1. thread' = thread /\ cursor' = cursor
    BY DEF OnAskforLearn, threadVars
  <2>2. CASE UNCHANGED sessionVars
    BY <1>2, <1>3, <2>1, <2>2, SessionKept
    DEF IInv, SessionInv, sessionVars
  <2>3. CASE /\ MayPrepare(n)
             /\ begin' = [begin EXCEPT ![n] = m.inst]
             /\ acked' = [acked EXCEPT ![n] = m.inst]
             /\ sendTo' = [sendTo EXCEPT ![n] = m.from]
             /\ UNCHANGED confirmed
    <3>1. CASE k # n
      BY <1>2, <1>3, <2>1, <2>3, <3>1, SessionKept
      DEF IInv, SessionInv, StateTypeOK
    <3>2. CASE k = n
      <4>1. /\ ~confirmed'[n] /\ thread'[n] = "idle"
            /\ acked'[n] = m.inst /\ begin'[n] = m.inst /\ sendTo'[n] = m.from
        BY <1>1, <2>1, <2>3, <3>2
        DEF IInv, SessionInv, SessionTrue, StateTypeOK, MayPrepare
      <4>2. m.inst <= Has(m.from)
        <5>1. m.kind = "ask"
          BY DEF OnAskforLearn
        <5> QED
          BY <1>1, <5>1 DEF MessageTrue
      <4>3. PICK r \in Node : r = m.from /\ r = sendTo'[n]
        BY <1>1, <4>1
      <4>4. m.inst <= Has(r)'
        <5>1. Has(r) \in Nat /\ Has(r)' \in Nat /\ m.inst \in Nat
          BY <1>1, <1>2, HasNat, HasNatNext, SyncAssumption DEF IInv, Instances
        <5>2. Has(r) <= Has(r)'
          BY <1>3 DEF HasGrows
        <5> QED
          BY <4>2, <4>3, <5>1, <5>2
      <4>5. Has(sendTo[n])' = Has(r)'
        BY <4>3 DEF Has
      <4> QED
        BY <3>2, <4>1, <4>4, <4>5 DEF SessionTrue
    <3> QED
      BY <3>1, <3>2
  <2> QED
    BY <2>2, <2>3 DEF OnAskforLearn
<1> QED
  BY <1>2, <1>4, <1>5 DEF IInv, SessionInv

(* OnComfirmAskForLearn: only a session is confirmed.                      *)
LEMMA OnComfirmAskForLearnKeeps ==
    ASSUME IInv, NEW c \in Queues, chan[c] # <<>>, NEW m, m = Head(chan[c]),
           OnComfirmAskForLearn(m), UNCHANGED up
    PROVE  IInv'
<1>1. /\ MessageTrue(m) /\ m.from \in Node /\ m.to \in Node
      /\ m.inst \in Instances
  BY HeadTrue
<1> DEFINE n == m.to
<1>2. StateTypeOK'
  <2>1. events' \in Nat
    BY EventsTyped DEF IInv, OnComfirmAskForLearn, Receive
  <2>2. confirmed' \in [Node -> BOOLEAN]
    BY <1>1 DEF IInv, StateTypeOK, OnComfirmAskForLearn, Comfirms
  <2> QED
    BY <2>1, <2>2
    DEF IInv, StateTypeOK, OnComfirmAskForLearn, receiverVars, threadVars
<1>3. HasGrows
  BY HasStays DEF IInv, OnComfirmAskForLearn, receiverVars
<1>4. ChanInv'
  <2>1. Receive(m, {}) /\ ChanInv /\ StateTypeOK
    BY DEF OnComfirmAskForLearn, IInv
  <2> QED
    BY <1>2, <1>3, <2>1, ReceiveNone
<1>5. ASSUME NEW k \in Node PROVE SessionTrue(k)'
  <2>1. UNCHANGED <<begin, sendTo, acked, thread, cursor>>
    BY DEF OnComfirmAskForLearn, threadVars
  <2>2. CASE confirmed'[k] = confirmed[k]
    BY <1>2, <1>3, <2>1, <2>2, SessionKept DEF IInv, SessionInv
  <2>3. CASE confirmed'[k] # confirmed[k]
    <3>1. k = n /\ Comfirms(n, m) /\ confirmed'[n]
      BY <1>1, <2>3 DEF OnComfirmAskForLearn, IInv, StateTypeOK
    <3>2. /\ sendTo[n] = m.from /\ sendTo[n] # None
          /\ begin[n] = m.inst /\ begin[n] >= 0
      BY <1>1, <3>1, SyncAssumption DEF Comfirms, Instances
    <3>3. thread[n] = "idle"
      BY <1>1, <3>1 DEF IInv, SessionInv, SessionTrue, Comfirms
    <3>4. PICK r \in Node : r = m.from /\ r = sendTo'[n] /\ r = sendTo[n]
      BY <1>1, <2>1, <3>2
    <3>5. acked[n] <= Has(r) /\ begin[n] <= Has(r)
      BY <1>1, <3>2, <3>4 DEF IInv, SessionInv, SessionTrue
    <3>6. Has(r)' = Has(r)
      BY DEF Has, OnComfirmAskForLearn, receiverVars
    <3>7. Has(sendTo[n])' = Has(r)'
      BY <3>4 DEF Has
    <3> QED
      BY <2>1, <3>1, <3>2, <3>3, <3>5, <3>6, <3>7 DEF SessionTrue
  <2> QED
    BY <2>2, <2>3
<1> QED
  BY <1>2, <1>4, <1>5 DEF IInv, SessionInv

(* OnSendLearnValue_Ack: what counts was acknowledged by the session's     *)
(* receiver, which still has it.                                           *)
LEMMA OnSendLearnValue_AckKeeps ==
    ASSUME IInv, NEW c \in Queues, chan[c] # <<>>, NEW m, m = Head(chan[c]),
           OnSendLearnValue_Ack(m), UNCHANGED up
    PROVE  IInv'
<1>1. /\ MessageTrue(m) /\ m.from \in Node /\ m.to \in Node
      /\ m.inst \in Instances
  BY HeadTrue
<1> DEFINE n == m.to
<1>2. StateTypeOK'
  <2>1. events' \in Nat
    BY EventsTyped DEF IInv, OnSendLearnValue_Ack, Receive
  <2>2. acked' \in [Node -> Instances]
    BY <1>1 DEF IInv, StateTypeOK, OnSendLearnValue_Ack
  <2> QED
    BY <2>1, <2>2
    DEF IInv, StateTypeOK, OnSendLearnValue_Ack, receiverVars, threadVars
<1>3. HasGrows
  BY HasStays DEF IInv, OnSendLearnValue_Ack, receiverVars
<1>4. ChanInv'
  <2>1. Receive(m, {}) /\ ChanInv /\ StateTypeOK
    BY DEF OnSendLearnValue_Ack, IInv
  <2> QED
    BY <1>2, <1>3, <2>1, ReceiveNone
<1>5. ASSUME NEW k \in Node PROVE SessionTrue(k)'
  <2>1. UNCHANGED <<confirmed, begin, sendTo, thread, cursor>>
    BY DEF OnSendLearnValue_Ack, threadVars
  <2>2. CASE acked'[k] = acked[k]
    BY <1>2, <1>3, <2>1, <2>2, SessionKept DEF IInv, SessionInv
  <2>3. CASE acked'[k] # acked[k]
    <3>1. k = n /\ Counts(n, m) /\ acked'[n] = m.inst
      BY <1>1, <2>3 DEF OnSendLearnValue_Ack, IInv, StateTypeOK
    <3>2. PICK r \in Node : r = m.from /\ r = sendTo'[n] /\ r = sendTo[n]
      BY <1>1, <2>1, <3>1 DEF Counts
    <3>3. m.inst <= Has(r)
      <4>1. m.kind = "ack"
        BY DEF OnSendLearnValue_Ack
      <4> QED
        BY <1>1, <3>2, <4>1 DEF MessageTrue
    <3>4. Has(r)' = Has(r)
      BY DEF Has, OnSendLearnValue_Ack, receiverVars
    <3>5. Has(sendTo[n])' = Has(r)'
      BY <3>2 DEF Has
    <3>6. Has(sendTo[n]) = Has(r)
      BY <3>2
    <3>7. SessionTrue(n)
      BY <1>1 DEF IInv, SessionInv
    <3> QED
      BY <2>1, <3>1, <3>3, <3>4, <3>5, <3>6, <3>7 DEF SessionTrue
  <2> QED
    BY <2>2, <2>3
<1> QED
  BY <1>2, <1>4, <1>5 DEF IInv, SessionInv
-----------------------------------------------------------------------------
(* The timers of the learner and of the session.                           *)

(* What is sent on its own is queued behind what stays true.               *)
LEMMA SendTrue ==
    ASSUME StateTypeOK, StateTypeOK', ChanInv, HasGrows,
           NEW sent, \A r \in sent : MessageTrue(r)', Send(sent)
    PROVE  ChanInv'
BY WithTrue DEF ChanInv, Send

(* AskforLearn_Noop: a node asks from the instance it is in.               *)
LEMMA AskforLearn_NoopKeeps ==
    ASSUME IInv, NEW n \in Node, AskforLearn_Noop(n)
    PROVE  IInv'
<1>1. StateTypeOK'
  <2>1. events' \in Nat
    BY EventsTyped DEF IInv, AskforLearn_Noop, Expire
  <2>2. learning' \in [Node -> BOOLEAN]
    BY DEF IInv, StateTypeOK, AskforLearn_Noop, StopLearning
  <2> QED
    BY <2>1, <2>2
    DEF IInv, StateTypeOK, AskforLearn_Noop, sessionVars, threadVars
<1>2. HasGrows
  BY HasStays DEF IInv, AskforLearn_Noop
<1>3. ChanInv'
  <2> DEFINE sent == {Message("ask", n, m, instanceID[n]) : m \in Node \ {n}}
  <2>1. \A r \in sent : MessageTrue(r)'
    <3>1. SUFFICES ASSUME NEW m \in Node, NEW r,
                          r = Message("ask", n, m, instanceID[n])
                   PROVE  MessageTrue(r)'
      OBVIOUS
    <3>2. instanceID[n] \in Instances /\ "ask" \in Kinds
      BY DEF IInv, StateTypeOK, Kinds
    <3>3. r \in Messages /\ r.kind = "ask" /\ r.inst = instanceID[n] /\ r.from = n
      BY <3>1, <3>2, MessageTyped
    <3>4. instanceID'[n] = instanceID[n] /\ instanceID'[n] <= Has(n)'
      BY <1>1, HasNatNext DEF AskforLearn_Noop
    <3> QED
      BY <3>3, <3>4 DEF MessageTrue
  <2>2. Send(sent) /\ StateTypeOK /\ ChanInv
    BY DEF AskforLearn_Noop, IInv
  <2> HIDE DEF sent
  <2> QED
    BY <1>1, <1>2, <2>1, <2>2, SendTrue
<1>4. SessionInv'
  BY <1>1, <1>2, SessionKept
  DEF IInv, SessionInv, AskforLearn_Noop, sessionVars, threadVars
<1> QED
  BY <1>1, <1>3, <1>4 DEF IInv

(* An instance is learned from a proposer's success message.               *)
LEMMA LearnElsewhereKeeps ==
    ASSUME IInv, NEW n \in Node, LearnElsewhere(n)
    PROVE  IInv'
<1>1. /\ HasGrows
      /\ instanceID' \in [Node -> Instances]
      /\ recorded' \in [Node -> BOOLEAN]
  BY AdvanceGrows DEF IInv, LearnElsewhere
<1>2. StateTypeOK'
  <2>1. events' \in Nat
    BY EventsTyped DEF IInv, LearnElsewhere
  <2> QED
    BY <1>1, <2>1
    DEF IInv, StateTypeOK, LearnElsewhere, sessionVars, threadVars
<1>3. ChanInv'
  BY <1>1, <1>2, SameChan DEF IInv, LearnElsewhere
<1>4. SessionInv'
  BY <1>1, <1>2, SessionKept
  DEF IInv, SessionInv, LearnElsewhere, sessionVars, threadVars
<1> QED
  BY <1>2, <1>3, <1>4 DEF IInv

(* A step that changes the flag of sending and events at most.             *)
LEMMA SendingOnlyKeeps ==
    ASSUME IInv, sending' \in [Node -> BOOLEAN], Event \/ UNCHANGED events,
           UNCHANGED <<receiverVars, confirmed, begin, sendTo, acked,
                       threadVars, up, chan>>
    PROVE  IInv'
<1>1. HasGrows
  BY HasStays DEF IInv, receiverVars
<1>2. StateTypeOK'
  <2>1. events' \in Nat
    BY EventsTyped DEF IInv
  <2> QED
    BY <2>1 DEF IInv, StateTypeOK, receiverVars, threadVars
<1>3. ChanInv'
  BY <1>1, <1>2, SameChan DEF IInv
<1>4. SessionInv'
  BY <1>1, <1>2, SessionKept DEF IInv, SessionInv, threadVars
<1> QED
  BY <1>2, <1>3, <1>4 DEF IInv

(* SendExpires: the time of a session that is not refreshed ends.          *)
LEMMA SendExpiresKeeps ==
    ASSUME IInv, NEW n \in Node, SendExpires(n)
    PROVE  IInv'
<1>1. sending' \in [Node -> BOOLEAN] /\ (Event \/ UNCHANGED events)
  BY DEF IInv, StateTypeOK, SendExpires, Expire
<1> QED
  BY <1>1, SendingOnlyKeeps DEF SendExpires

-----------------------------------------------------------------------------
(* The sender's thread.                                                    *)

(* The thread's step leaves the receivers, and the sessions of others.     *)
LEMMA OtherSessions ==
    ASSUME IInv, StateTypeOK', HasGrows, NEW n \in Node,
           \A k \in Node \ {n} :
              /\ confirmed'[k] = confirmed[k] /\ begin'[k] = begin[k]
              /\ sendTo'[k] = sendTo[k] /\ acked'[k] = acked[k]
              /\ thread'[k] = thread[k] /\ cursor'[k] = cursor[k],
           SessionTrue(n)'
    PROVE  SessionInv'
<1> SUFFICES ASSUME NEW k \in Node PROVE SessionTrue(k)'
  BY DEF SessionInv
<1>1. CASE k = n
  BY <1>1
<1>2. CASE k # n
  BY <1>2, SessionKept DEF IInv, SessionInv
<1> QED
  BY <1>1, <1>2

(* What the thread knows of its receiver, which does not move while the    *)
(* thread does.                                                            *)
LEMMA ThreadReceiver ==
    ASSUME IInv, NEW n \in Node, confirmed[n],
           UNCHANGED <<receiverVars, sendTo>>
    PROVE  /\ sendTo[n] \in Node /\ sendTo[n] # None
           /\ Has(sendTo[n]) \in Nat
           /\ Has(sendTo[n])' = Has(sendTo[n])
           /\ acked[n] \in Nat /\ acked[n] <= Has(sendTo[n])
           /\ begin[n] \in Instances /\ begin[n] <= Has(sendTo[n])
           /\ cursor[n] \in Nat
           /\ lead[n] \in Nat /\ lead[n] <= SenderLead
           /\ SenderLead \in Nat /\ MaxInstance \in Nat
<1>1. sendTo[n] \in Node /\ sendTo[n] # None
  BY SyncAssumption DEF IInv, SessionInv, SessionTrue, StateTypeOK
<1>2. acked[n] <= Has(sendTo[n]) /\ begin[n] <= Has(sendTo[n]) /\ begin[n] >= 0
  BY <1>1 DEF IInv, SessionInv, SessionTrue
<1>3. Has(sendTo[n]) \in Nat
  BY <1>1, HasNat DEF IInv
<1>4. Has(sendTo[n])' = Has(sendTo[n])
  BY DEF Has, receiverVars
<1>5. /\ acked[n] \in Nat /\ cursor[n] \in Nat
      /\ lead[n] \in Nat /\ lead[n] <= SenderLead
      /\ begin[n] \in Instances \cup {-1}
  BY SyncAssumption DEF IInv, StateTypeOK, Instances
<1> QED
  BY <1>1, <1>2, <1>3, <1>4, <1>5, SyncAssumption

(* The types, and what a step of the thread has to establish itself.       *)
LEMMA ThreadKeeps ==
    ASSUME IInv, NEW n \in Node, UNCHANGED <<receiverVars, up>>,
           Event \/ UNCHANGED events,
           \/ UNCHANGED chan
           \/ \E m : MessageTrue(m) /\ m.kind = "value" /\ Send({m}),
           sending' \in [Node -> BOOLEAN], confirmed' \in [Node -> BOOLEAN],
           begin' \in [Node -> Instances \cup {-1}],
           sendTo' \in [Node -> Node \cup {None}],
           acked' \in [Node -> Instances],
           lead' \in [Node -> ReceiverLead + 1 .. SenderLead],
           thread' \in [Node -> {"idle", "send", "check", "wait", "done"}],
           cursor' \in [Node -> Instances],
           \A k \in Node \ {n} :
              /\ confirmed'[k] = confirmed[k] /\ begin'[k] = begin[k]
              /\ sendTo'[k] = sendTo[k] /\ acked'[k] = acked[k]
              /\ thread'[k] = thread[k] /\ cursor'[k] = cursor[k],
           SessionTrue(n)'
    PROVE  IInv'
<1>1. StateTypeOK'
  <2>1. events' \in Nat
    BY EventsTyped DEF IInv
  <2> QED
    BY <2>1 DEF IInv, StateTypeOK, receiverVars
<1>2. HasGrows
  BY HasStays DEF IInv, receiverVars
<1>3. ChanInv'
  <2>1. CASE UNCHANGED chan
    BY <1>1, <1>2, <2>1, SameChan DEF IInv
  <2>2. CASE \E m : MessageTrue(m) /\ m.kind = "value" /\ Send({m})
    <3>1. PICK m : MessageTrue(m) /\ m.kind = "value" /\ Send({m})
      BY <2>2
    <3>2. MessageTrue(m)'
      BY <3>1 DEF MessageTrue
    <3>3. \A r \in {m} : MessageTrue(r)'
      BY <3>2
    <3> QED
      BY <1>1, <1>2, <3>1, <3>3, SendTrue DEF IInv
  <2> QED
    BY <2>1, <2>2
<1>4. SessionInv'
  BY <1>1, <1>2, OtherSessions
<1> QED
  BY <1>1, <1>3, <1>4 DEF IInv
(* WaitToSend: the thread starts where the confirmed session begins.       *)
LEMMA WaitToSendKeeps ==
    ASSUME IInv, NEW n \in Node, WaitToSend(n),
           UNCHANGED <<receiverVars, up, events>>
    PROVE  IInv'
<1>1. begin[n] \in Instances
  BY SyncAssumption
  DEF WaitToSend, IInv, SessionInv, SessionTrue, StateTypeOK, Instances
<1>2. StateTypeOK'
  BY <1>1 DEF IInv, StateTypeOK, WaitToSend, sessionVars, receiverVars
<1>3. SessionTrue(n)'
  <2>1. /\ sendTo[n] \in Node /\ sendTo[n] # None
        /\ Has(sendTo[n]) \in Nat
        /\ Has(sendTo[n])' = Has(sendTo[n])
        /\ acked[n] \in Nat /\ acked[n] <= Has(sendTo[n])
        /\ begin[n] <= Has(sendTo[n])
        /\ SenderLead \in Nat
    BY <1>2, ThreadReceiver DEF WaitToSend, sessionVars
  <2>2. /\ cursor'[n] = begin[n] /\ thread'[n] = "send"
        /\ UNCHANGED sessionVars
    BY DEF WaitToSend, IInv, StateTypeOK
  <2>3. begin[n] \in Nat
    BY <1>1, SyncAssumption DEF Instances
  <2> QED
    BY <2>1, <2>2, <2>3 DEF SessionTrue, sessionVars, WaitToSend
<1>4. HasGrows
  BY HasStays DEF IInv, receiverVars
<1>5. SessionInv'
  <2>1. \A k \in Node \ {n} :
           /\ confirmed'[k] = confirmed[k] /\ begin'[k] = begin[k]
           /\ sendTo'[k] = sendTo[k] /\ acked'[k] = acked[k]
           /\ thread'[k] = thread[k] /\ cursor'[k] = cursor[k]
    BY DEF WaitToSend, sessionVars, IInv, StateTypeOK
  <2> QED
    BY <1>2, <1>3, <1>4, <2>1, OtherSessions
<1>6. ChanInv'
  BY <1>2, <1>4, SameChan DEF IInv, WaitToSend
<1> QED
  BY <1>2, <1>5, <1>6 DEF IInv
(* A step within the session: the value that is sent next stays.           *)
LEMMA ThreadMoves ==
    ASSUME IInv, NEW n \in Node, thread[n] # "idle",
           NEW t \in {"send", "check", "wait", "done"},
           thread' = [thread EXCEPT ![n] = t],
           t \in {"check", "wait"} => cursor[n] < MaxInstance,
           UNCHANGED <<receiverVars, sessionVars, cursor, up>>,
           Event \/ UNCHANGED events,
           \/ UNCHANGED chan
           \/ \E m : MessageTrue(m) /\ m.kind = "value" /\ Send({m}),
           lead' \in [Node -> ReceiverLead + 1 .. SenderLead]
    PROVE  IInv'
<1>1. /\ sending' \in [Node -> BOOLEAN] /\ confirmed' \in [Node -> BOOLEAN]
      /\ begin' \in [Node -> Instances \cup {-1}]
      /\ sendTo' \in [Node -> Node \cup {None}]
      /\ acked' \in [Node -> Instances]
      /\ thread' \in [Node -> {"idle", "send", "check", "wait", "done"}]
      /\ cursor' \in [Node -> Instances]
  BY DEF IInv, StateTypeOK, sessionVars
<1>2. \A k \in Node \ {n} :
         /\ confirmed'[k] = confirmed[k] /\ begin'[k] = begin[k]
         /\ sendTo'[k] = sendTo[k] /\ acked'[k] = acked[k]
         /\ thread'[k] = thread[k] /\ cursor'[k] = cursor[k]
  BY DEF sessionVars, IInv, StateTypeOK
<1>3. SessionTrue(n)'
  <2>1. confirmed[n] /\ SessionTrue(n) /\ UNCHANGED sendTo
    BY DEF IInv, SessionInv, SessionTrue, sessionVars
  <2>2. Has(sendTo[n])' = Has(sendTo[n])
    BY <2>1, ThreadReceiver
  <2>3. thread'[n] = t
    BY DEF IInv, StateTypeOK
  <2> QED
    BY <2>1, <2>2, <2>3 DEF SessionTrue, sessionVars
<1> QED
  BY <1>1, <1>2, <1>3, ThreadKeeps

LEMMA LeadTyped ==
    ASSUME IInv, NEW n \in Node
    PROVE  [lead EXCEPT ![n] = SenderLead] \in
              [Node -> ReceiverLead + 1 .. SenderLead]
BY SyncAssumption DEF IInv, StateTypeOK

(* What is left of the lead still exceeds ReceiverLead, so that the next   *)
(* session does not wait for an ack that the receiver does not owe.        *)
LEMMA CutAckLeadTyped ==
    ASSUME IInv, NEW n \in Node, CutAckLead(n)
    PROVE  lead' \in [Node -> ReceiverLead + 1 .. SenderLead]
BY SyncAssumption DEF IInv, StateTypeOK, CutAckLead

(* SendOne, of the loop of SendLearnedValue.                               *)
LEMMA SendOneKeeps ==
    ASSUME IInv, NEW n \in Node, SendOne(n),
           UNCHANGED <<receiverVars, up, events>>
    PROVE  IInv'
<1>1. PICK m : m = Value(n, sendTo[n], cursor[n], TRUE)
  OBVIOUS
<1>2. confirmed[n]
  BY DEF IInv, SessionInv, SessionTrue, SendOne
<1>3. sendTo[n] \in Node
  BY <1>2, ThreadReceiver DEF SendOne, sessionVars
<1>4. cursor[n] \in Instances /\ cursor[n] < MaxInstance
  BY SyncAssumption DEF IInv, StateTypeOK, Instances, SendOne
<1>5. m \in Messages /\ m.kind = "value" /\ m.inst = cursor[n]
  BY <1>1, <1>3, <1>4, ValueTyped
<1>6. MessageTrue(m) /\ m.kind = "value" /\ Send({m})
  BY <1>1, <1>4, <1>5 DEF MessageTrue, SendOne
<1>7. /\ thread[n] # "idle" /\ thread' = [thread EXCEPT ![n] = "check"]
      /\ UNCHANGED <<receiverVars, sessionVars, cursor, up>>
      /\ lead' \in [Node -> ReceiverLead + 1 .. SenderLead]
  BY DEF SendOne, IInv, StateTypeOK
<1>8. \E x : MessageTrue(x) /\ x.kind = "value" /\ Send({x})
  BY <1>6
<1> QED
  BY <1>4, <1>7, <1>8, ThreadMoves

(* The steps at which the loop goes to its end: the record cannot be read, *)
(* everything is sent, the receiver is ahead, or it does not acknowledge.  *)
LEMMA ThreadEnds ==
    ASSUME IInv, NEW n \in Node,
           \/ SendFails(n)
           \/ SendEnd(n) /\ UNCHANGED <<receiverVars, up, events>>
           \/ CaughtUp(n) /\ UNCHANGED <<receiverVars, up, events>>
           \/ AckTimeout(n)
    PROVE  IInv'
<1>1. /\ thread[n] # "idle" /\ thread' = [thread EXCEPT ![n] = "done"]
      /\ UNCHANGED <<receiverVars, sessionVars, cursor, up, chan>>
      /\ Event \/ UNCHANGED events
  BY DEF SendFails, SendEnd, CaughtUp, AckTimeout, Expire
<1>2. lead' \in [Node -> ReceiverLead + 1 .. SenderLead]
  BY LeadTyped, CutAckLeadTyped
  DEF IInv, StateTypeOK, SendFails, SendEnd, CaughtUp, AckTimeout
<1> QED
  BY <1>1, <1>2, ThreadMoves

LEMMA WaitAckKeeps ==
    ASSUME IInv, NEW n \in Node, WaitAck(n),
           UNCHANGED <<receiverVars, up, events>>
    PROVE  IInv'
<1>1. /\ thread[n] # "idle" /\ thread' = [thread EXCEPT ![n] = "wait"]
      /\ cursor[n] < MaxInstance
      /\ UNCHANGED <<receiverVars, sessionVars, cursor, up, chan>>
      /\ lead' \in [Node -> ReceiverLead + 1 .. SenderLead]
  BY DEF WaitAck, IInv, SessionInv, SessionTrue, StateTypeOK
<1> QED
  BY <1>1, ThreadMoves

(* CheckAck allows the next value when the one sent is within the lead of  *)
(* what is acknowledged, which the receiver has.                           *)
LEMMA NextValueKeeps ==
    ASSUME IInv, NEW n \in Node, NextValue(n),
           UNCHANGED <<receiverVars, up, events>>
    PROVE  IInv'
<1>1. cursor[n] + 1 \in Instances
  BY SyncAssumption
  DEF NextValue, IInv, SessionInv, SessionTrue, StateTypeOK, Instances
<1>2. /\ sending' \in [Node -> BOOLEAN] /\ confirmed' \in [Node -> BOOLEAN]
      /\ begin' \in [Node -> Instances \cup {-1}]
      /\ sendTo' \in [Node -> Node \cup {None}]
      /\ acked' \in [Node -> Instances]
      /\ lead' \in [Node -> ReceiverLead + 1 .. SenderLead]
      /\ thread' \in [Node -> {"idle", "send", "check", "wait", "done"}]
      /\ cursor' \in [Node -> Instances]
  BY <1>1 DEF NextValue, IInv, StateTypeOK
<1>3. \A k \in Node \ {n} :
         /\ confirmed'[k] = confirmed[k] /\ begin'[k] = begin[k]
         /\ sendTo'[k] = sendTo[k] /\ acked'[k] = acked[k]
         /\ thread'[k] = thread[k] /\ cursor'[k] = cursor[k]
  BY DEF NextValue, IInv, StateTypeOK
<1>4. SessionTrue(n)'
  <2>1. confirmed[n] /\ SessionTrue(n) /\ UNCHANGED sendTo
    BY DEF IInv, SessionInv, SessionTrue, NextValue
  <2>2. /\ sendTo[n] # None
        /\ Has(sendTo[n]) \in Nat
        /\ Has(sendTo[n])' = Has(sendTo[n])
        /\ acked[n] \in Nat /\ acked[n] <= Has(sendTo[n])
        /\ cursor[n] \in Nat
        /\ lead[n] \in Nat /\ lead[n] <= SenderLead
        /\ SenderLead \in Nat
    BY <2>1, ThreadReceiver
  <2>3. /\ cursor'[n] = cursor[n] + 1 /\ thread'[n] = "send"
        /\ cursor[n] <= acked[n] + lead[n]
    BY <2>2 DEF NextValue, TooFar, IInv, StateTypeOK
  <2>4. cursor'[n] <= Has(sendTo[n])' + SenderLead + 1
    BY <2>2, <2>3
  <2> QED
    BY <2>1, <2>2, <2>3, <2>4 DEF SessionTrue, NextValue
<1> QED
  BY <1>2, <1>3, <1>4, ThreadKeeps DEF NextValue

(* SendDone clears the session.                                            *)
LEMMA SendDoneKeeps ==
    ASSUME IInv, NEW n \in Node, SendDone(n),
           UNCHANGED <<receiverVars, up, events>>
    PROVE  IInv'
<1>1. /\ sending' \in [Node -> BOOLEAN] /\ confirmed' \in [Node -> BOOLEAN]
      /\ begin' \in [Node -> Instances \cup {-1}]
      /\ sendTo' \in [Node -> Node \cup {None}]
      /\ acked' \in [Node -> Instances]
      /\ lead' \in [Node -> ReceiverLead + 1 .. SenderLead]
      /\ thread' \in [Node -> {"idle", "send", "check", "wait", "done"}]
      /\ cursor' \in [Node -> Instances]
  BY SyncAssumption DEF SendDone, IInv, StateTypeOK, Instances
<1>2. \A k \in Node \ {n} :
         /\ confirmed'[k] = confirmed[k] /\ begin'[k] = begin[k]
         /\ sendTo'[k] = sendTo[k] /\ acked'[k] = acked[k]
         /\ thread'[k] = thread[k] /\ cursor'[k] = cursor[k]
  BY DEF SendDone, IInv, StateTypeOK
<1>3. SessionTrue(n)'
  BY DEF SendDone, IInv, StateTypeOK, SessionTrue
<1> QED
  BY <1>1, <1>2, <1>3, ThreadKeeps DEF SendDone
LEMMA ThreadStepKeeps ==
    ASSUME IInv, NEW n \in Node, Thread(n)
    PROVE  IInv'
<1>1. UNCHANGED <<receiverVars, up, events>>
  BY DEF Thread
<1>2. CASE WaitToSend(n)
  BY <1>1, <1>2, WaitToSendKeeps
<1>3. CASE SendOne(n)
  BY <1>1, <1>3, SendOneKeeps
<1>4. CASE SendEnd(n) \/ CaughtUp(n)
  BY <1>1, <1>4, ThreadEnds
<1>5. CASE NextValue(n)
  BY <1>1, <1>5, NextValueKeeps
<1>6. CASE WaitAck(n)
  BY <1>1, <1>6, WaitAckKeeps
<1>7. CASE SendDone(n)
  BY <1>1, <1>7, SendDoneKeeps
<1> QED
  BY <1>2, <1>3, <1>4, <1>5, <1>6, <1>7 DEF Thread

-----------------------------------------------------------------------------
(* The network and the nodes fail.                                         *)

(* A message that is lost or delayed leaves a queue of true messages.      *)
LEMMA LoseKeeps ==
    ASSUME IInv, NEW c \in Queues, Lose(c)
    PROVE  IInv'
<1>1. StateTypeOK' /\ SessionInv'
  <2>1. events' \in Nat
    BY EventsTyped DEF IInv, Lose
  <2>2. StateTypeOK'
    BY <2>1
    DEF IInv, StateTypeOK, Lose, receiverVars, sessionVars, threadVars
  <2>3. HasGrows
    BY HasStays DEF IInv, Lose, receiverVars
  <2> QED
    BY <2>2, <2>3, SessionKept
    DEF IInv, SessionInv, Lose, sessionVars, threadVars
<1>2. HasGrows
  BY HasStays DEF IInv, Lose, receiverVars
<1>3. ChanInv'
  <2>1. Head(chan[c]) \in InQueue(c) /\ Tail(chan[c]) \in Seq(InQueue(c))
    BY HeadInQueue DEF IInv, Lose
  <2>2. Append(Tail(chan[c]), Head(chan[c])) \in Seq(InQueue(c))
    BY <2>1
  <2>3. QueuesTrue(chan') /\ DOMAIN chan' = Queues
    BY <2>1, <2>2 DEF Lose, IInv, ChanInv, QueuesTrue
  <2>4. ASSUME NEW d \in Queues PROVE chan'[d] \in Seq(InQueue(d)')
    BY <1>1, <1>2, <2>3, QueueGrows DEF QueuesTrue, IInv
  <2> QED
    BY <2>3, <2>4 DEF ChanInv, QueuesTrue
<1> QED
  BY <1>1, <1>3 DEF IInv

(* Crash: the last record of the log is found again, of the instance the   *)
(* node comes up in or of the one before the one it was in, so that it has *)
(* no less than before.                                                    *)
LEMMA CrashKeeps ==
    ASSUME IInv, NEW n \in Node, Crash(n)
    PROVE  IInv'
<1>1. PICK i \in {instanceID[n], instanceID[n] - 1} \cap Nat :
         /\ recorded[n] => i = instanceID[n]
         /\ instanceID' = [instanceID EXCEPT ![n] = i]
  BY DEF Crash
<1>2. instanceID[n] \in Nat /\ recorded[n] \in BOOLEAN /\ i \in Instances
  BY <1>1, SyncAssumption DEF IInv, StateTypeOK, Instances
<1>3. StateTypeOK'
  <2>1. events' \in Nat
    BY EventsTyped DEF IInv, Crash
  <2>2. /\ instanceID' \in [Node -> Instances]
        /\ recorded' \in [Node -> BOOLEAN]
        /\ up' \in [Node -> BOOLEAN]
        /\ seen' \in [Node -> Instances]
        /\ learning' \in [Node -> BOOLEAN]
        /\ lastAck' \in [Node -> Instances]
    BY <1>1, <1>2, SyncAssumption DEF IInv, StateTypeOK, Crash, Instances
  <2>3. /\ sending' \in [Node -> BOOLEAN]
        /\ confirmed' \in [Node -> BOOLEAN]
        /\ begin' \in [Node -> Instances \cup {-1}]
        /\ sendTo' \in [Node -> Node \cup {None}]
        /\ acked' \in [Node -> Instances]
    BY SyncAssumption DEF IInv, StateTypeOK, Crash, Instances
  <2>4. /\ lead' \in [Node -> ReceiverLead + 1 .. SenderLead]
        /\ thread' \in [Node -> {"idle", "send", "check", "wait", "done"}]
        /\ cursor' \in [Node -> Instances]
    BY SyncAssumption DEF IInv, StateTypeOK, Crash, Instances
  <2> QED
    BY <2>1, <2>2, <2>3, <2>4 DEF StateTypeOK
<1>4. HasGrows
  <2> SUFFICES ASSUME NEW k \in Node PROVE Has(k) <= Has(k)'
    BY DEF HasGrows
  <2>1. CASE k = n
    <3>1. instanceID'[n] = i /\ recorded'[n] = TRUE
      BY <1>1 DEF Crash, IInv, StateTypeOK
    <3> QED
      BY <1>1, <1>2, <2>1, <3>1 DEF Has
  <2>2. CASE k # n
    <3>1. instanceID'[k] = instanceID[k] /\ recorded'[k] = recorded[k]
      BY <1>1, <2>2 DEF Crash, IInv, StateTypeOK
    <3>2. Has(k)' = Has(k)
      BY <3>1 DEF Has
    <3> QED
      BY <3>2, HasNat DEF IInv
  <2> QED
    BY <2>1, <2>2
<1>5. ChanInv'
  <2>1. ASSUME NEW d \in Queues PROVE chan'[d] \in Seq(InQueue(d)')
    <3>1. chan'[d] = <<>> \/ chan'[d] = chan[d]
      BY DEF Crash, IInv, ChanInv
    <3>2. chan[d] \in Seq(InQueue(d)')
      BY <1>3, <1>4, QueueGrows DEF IInv, ChanInv, QueuesTrue
    <3>3. ASSUME NEW S PROVE <<>> \in Seq(S)
      OBVIOUS
    <3>4. <<>> \in Seq(InQueue(d)')
      BY <3>3
    <3> QED
      BY <3>1, <3>2, <3>4
  <2> QED
    BY <2>1 DEF Crash, IInv, ChanInv, QueuesTrue
<1>6. SessionInv'
  <2>1. SessionTrue(n)'
    BY DEF Crash, IInv, StateTypeOK, SessionTrue
  <2>2. \A k \in Node \ {n} :
           /\ confirmed'[k] = confirmed[k] /\ begin'[k] = begin[k]
           /\ sendTo'[k] = sendTo[k] /\ acked'[k] = acked[k]
           /\ thread'[k] = thread[k] /\ cursor'[k] = cursor[k]
    BY DEF Crash, IInv, StateTypeOK
  <2> QED
    BY <1>3, <1>4, <2>1, <2>2, OtherSessions
<1> QED
  BY <1>3, <1>5, <1>6 DEF IInv

LEMMA RestartKeeps ==
    ASSUME IInv, NEW n \in Node, Restart(n)
    PROVE  IInv'
<1>1. HasGrows
  BY HasStays DEF IInv, Restart, receiverVars
<1>2. StateTypeOK'
  BY DEF IInv, StateTypeOK, Restart, receiverVars, sessionVars, threadVars
<1>3. ChanInv'
  BY <1>1, <1>2, SameChan DEF IInv, Restart
<1>4. SessionInv'
  BY <1>1, <1>2, SessionKept
  DEF IInv, SessionInv, Restart, sessionVars, threadVars
<1> QED
  BY <1>2, <1>3, <1>4 DEF IInv

LEMMA StutterKeeps ==
    ASSUME IInv, UNCHANGED vars
    PROVE  IInv'
<1>1. HasGrows
  BY HasStays DEF IInv, vars, receiverVars
<1>2. StateTypeOK'
  BY DEF IInv, StateTypeOK, vars, receiverVars, sessionVars, threadVars
<1>3. ChanInv'
  BY <1>1, <1>2, SameChan DEF IInv, vars
<1>4. SessionInv'
  BY <1>1, <1>2, SessionKept
  DEF IInv, SessionInv, vars, sessionVars, threadVars
<1> QED
  BY <1>2, <1>3, <1>4 DEF IInv
-----------------------------------------------------------------------------
(* The theorems.                                                           *)

LEMMA InitTrue == Init => IInv
<1> SUFFICES ASSUME Init PROVE IInv
  OBVIOUS
<1>1. PICK s \in Setups : instanceID = s.start /\ events = s.events
  BY DEF Init
<1>2. instanceID \in [Node -> Instances] /\ events \in Nat
  BY <1>1, SyncAssumption DEF Instances
<1>3. StateTypeOK
  BY <1>2, SyncAssumption DEF Init, StateTypeOK, Instances
<1>4. ChanInv
  BY DEF Init, ChanInv, QueuesTrue
<1>5. SessionInv
  BY DEF Init, SessionInv, SessionTrue
<1> QED
  BY <1>3, <1>4, <1>5 DEF IInv

LEMMA StepTrue == IInv /\ [Next]_vars => IInv'
<1> SUFFICES ASSUME IInv, [Next]_vars PROVE IInv'
  OBVIOUS
<1>1. ASSUME NEW c \in Queues, Deliver(c) PROVE IInv'
  <2>1. PICK m : m = Head(chan[c])
    OBVIOUS
  <2>2. chan[c] # <<>> /\ UNCHANGED up
    BY <1>1 DEF Deliver
  <2>3. CASE OnAskforLearn(m)
    BY <2>1, <2>2, <2>3, OnAskforLearnKeeps
  <2>4. CASE OnSendNowInstanceID(m)
    BY <2>1, <2>2, <2>4, OnSendNowInstanceIDKeeps
  <2>5. CASE OnComfirmAskForLearn(m)
    BY <2>1, <2>2, <2>5, OnComfirmAskForLearnKeeps
  <2>6. CASE OnSendLearnValue(m)
    BY <2>1, <2>2, <2>6, OnSendLearnValueKeeps
  <2>7. CASE OnSendLearnValue_Ack(m)
    BY <2>1, <2>2, <2>7, OnSendLearnValue_AckKeeps
  <2> QED
    BY <1>1, <2>1, <2>3, <2>4, <2>5, <2>6, <2>7 DEF Deliver
<1>2. ASSUME NEW c \in Queues, Lose(c) PROVE IInv'
  BY <1>2, LoseKeeps
<1>3. ASSUME NEW n \in Node, AskforLearn_Noop(n) PROVE IInv'
  BY <1>3, AskforLearn_NoopKeeps
<1>4. ASSUME NEW n \in Node, LearnElsewhere(n) PROVE IInv'
  BY <1>4, LearnElsewhereKeeps
<1>5. ASSUME NEW n \in Node, SendExpires(n) PROVE IInv'
  BY <1>5, SendExpiresKeeps
<1>6. ASSUME NEW n \in Node, Thread(n) PROVE IInv'
  BY <1>6, ThreadStepKeeps
<1>7. ASSUME NEW n \in Node, AckTimeout(n) \/ SendFails(n) PROVE IInv'
  BY <1>7, ThreadEnds
<1>8. ASSUME NEW n \in Node, Crash(n) PROVE IInv'
  BY <1>8, CrashKeeps
<1>9. ASSUME NEW n \in Node, Restart(n) PROVE IInv'
  BY <1>9, RestartKeeps
<1>10. CASE UNCHANGED vars
  BY <1>10, StutterKeeps
<1> QED
  BY <1>1, <1>2, <1>3, <1>4, <1>5, <1>6, <1>7, <1>8, <1>9, <1>10 DEF Next

(* What holds of a session while the thread sends is flow control.         *)
LEMMA InvGivesSender == IInv => SenderInv
<1> SUFFICES ASSUME IInv PROVE SenderInv
  OBVIOUS
<1>1. TypeOK
  <2>1. ASSUME NEW c \in Queues PROVE chan[c] \in Seq(Messages)
    <3>1. InQueue(c) \subseteq Messages
      BY DEF InQueue
    <3> QED
      BY <3>1, SeqMonotonic DEF IInv, ChanInv, QueuesTrue
  <2> QED
    BY <2>1 DEF IInv, StateTypeOK, ChanInv, TypeOK
<1>2. FlowControl
  BY DEF FlowControl, Has, IInv, SessionInv, SessionTrue
<1> QED
  BY <1>1, <1>2 DEF SenderInv

(* LearnerSender counts as acknowledged only what its receiver has, and    *)
(* sends no more than LearnerSender_ACK_LEAD and a value ahead of it, for  *)
(* every number of nodes, every lead and every loss, delay and crash.      *)
THEOREM SenderStaysWithinLead == Spec => []SenderInv
<1>1. Spec => []IInv
  BY InitTrue, StepTrue, PTL DEF Spec
<1> QED
  BY <1>1, InvGivesSender, PTL

(* Who gets a step at a session that is confirmed: nobody but its thread   *)
(* and a crash.                                                            *)
LEMMA SessionStableStep ==
    ASSUME IInv, [Next]_vars, NEW n \in Node,
           thread[n] # "idle", thread'[n] # "idle"
    PROVE  /\ confirmed[n] /\ confirmed'[n]
           /\ begin'[n] = begin[n] /\ sendTo'[n] = sendTo[n]
<1>1. confirmed[n]
  BY DEF IInv, SessionInv, SessionTrue
<1>2. confirmed'[n]
  <2>1. IInv'
    BY StepTrue
  <2> QED
    BY <2>1 DEF IInv, SessionInv, SessionTrue
<1>3. begin'[n] = begin[n] /\ sendTo'[n] = sendTo[n]
  <2>1. ASSUME NEW c \in Queues, Deliver(c)
        PROVE  begin'[n] = begin[n] /\ sendTo'[n] = sendTo[n]
    <3>1. PICK m : m = Head(chan[c])
      OBVIOUS
    <3>2. CASE OnAskforLearn(m)
      BY <1>1, <3>2
      DEF OnAskforLearn, MayPrepare, sessionVars, IInv, StateTypeOK
    <3>3. CASE \/ OnSendNowInstanceID(m) \/ OnComfirmAskForLearn(m)
               \/ OnSendLearnValue(m) \/ OnSendLearnValue_Ack(m)
      BY <3>3
      DEF OnSendNowInstanceID, OnComfirmAskForLearn, OnSendLearnValue,
          OnSendLearnValue_Ack, sessionVars
    <3> QED
      BY <2>1, <3>1, <3>2, <3>3 DEF Deliver
  <2>2. ASSUME NEW c \in Queues, Lose(c)
        PROVE  begin'[n] = begin[n] /\ sendTo'[n] = sendTo[n]
    BY <2>2 DEF Lose, sessionVars
  <2>3. ASSUME NEW k \in Node,
               \/ AskforLearn_Noop(k) \/ LearnElsewhere(k) \/ SendExpires(k)
               \/ AckTimeout(k) \/ SendFails(k) \/ Restart(k)
        PROVE  begin'[n] = begin[n] /\ sendTo'[n] = sendTo[n]
    BY <2>3
    DEF AskforLearn_Noop, LearnElsewhere, SendExpires, AckTimeout, SendFails,
        Restart, sessionVars
  <2>4. ASSUME NEW k \in Node, Crash(k)
        PROVE  begin'[n] = begin[n] /\ sendTo'[n] = sendTo[n]
    BY <2>4 DEF Crash, IInv, StateTypeOK
  <2>5. ASSUME NEW k \in Node, Thread(k)
        PROVE  begin'[n] = begin[n] /\ sendTo'[n] = sendTo[n]
    <3>1. CASE SendDone(k)
      BY <3>1 DEF SendDone, IInv, StateTypeOK
    <3>2. CASE \/ WaitToSend(k) \/ SendOne(k) \/ SendEnd(k)
               \/ NextValue(k) \/ CaughtUp(k) \/ WaitAck(k)
      BY <3>2
      DEF WaitToSend, SendOne, SendEnd, NextValue, CaughtUp, WaitAck,
          sessionVars
    <3> QED
      BY <2>5, <3>1, <3>2 DEF Thread
  <2>6. CASE UNCHANGED vars
    BY <2>6 DEF vars, sessionVars
  <2> QED
    BY <2>1, <2>2, <2>3, <2>4, <2>5, <2>6 DEF Next
<1> QED
  BY <1>1, <1>2, <1>3

(* The thread reads the receiver and the first instance without the lock   *)
(* (LearnerSender::SendLearnedValue): neither an ask of another node nor   *)
(* the session's time running out changes them under it.                   *)
THEOREM SessionIsTheThreads == Spec => SessionStable
<1>1. IInv /\ [Next]_vars =>
         [\A n \in Node :
             thread[n] # "idle" /\ thread'[n] # "idle" =>
                /\ confirmed[n] /\ confirmed'[n]
                /\ begin'[n] = begin[n] /\ sendTo'[n] = sendTo[n]]_vars
  BY SessionStableStep
<1>2. Spec => []IInv
  BY InitTrue, StepTrue, PTL DEF Spec
<1> QED
  BY <1>1, <1>2, PTL DEF Spec, SessionStable
=============================================================================
