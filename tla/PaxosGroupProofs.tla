-------------------------- MODULE PaxosGroupProofs --------------------------
(***************************************************************************)
(* Proofs about one paxos group, for every number of nodes, values,        *)
(* instances, proposal ids, crashes and timer expiries: first that it      *)
(* agrees, then what it does with the values of its clients.  A value is   *)
(* chosen in one instance only, the nodes execute what is chosen, clients  *)
(* are told the truth, and the group implements the replicated log.        *)
(***************************************************************************)
EXTENDS PaxosGroup, FiniteSetTheorems, TLAPS

-----------------------------------------------------------------------------
(* Ballots are ordered.                                                    *)
LEMMA BallotFields ==
    ASSUME NEW b \in BallotOrNull
    PROVE  b[1] \in Nat /\ b[2] \in Nat /\ b = <<b[1], b[2]>>
<1>1. Node \subseteq Nat
  BY NodeAssumption
<1>2. CASE b = NullBallot
  BY <1>2 DEF NullBallot
<1>3. CASE b \in Ballot
  <2>1. PICK p \in Nat \ {0}, n \in Node : b = <<p, n>>
    BY <1>3 DEF Ballot
  <2> QED
    BY <2>1, <1>1
<1> QED
  BY <1>2, <1>3 DEF BallotOrNull

LEMMA BallotReflexive ==
    ASSUME NEW b \in BallotOrNull
    PROVE  BallotGE(b, b) /\ BallotGE(b, NullBallot)
BY BallotFields DEF BallotGE, NullBallot

LEMMA BallotTransitive ==
    ASSUME NEW a \in BallotOrNull, NEW b \in BallotOrNull,
           NEW c \in BallotOrNull, BallotGE(a, b), BallotGE(b, c)
    PROVE  BallotGE(a, c)
BY BallotFields DEF BallotGE

-----------------------------------------------------------------------------
(* What the type of a message says of its fields.                          *)
LEMMA MessageFields ==
    ASSUME NEW m \in Message
    PROVE  /\ m.inst \in Instance /\ m.to \in Node
           /\ m.type \in {"prepare", "accept", "success"} => m.bal \in Ballot
           /\ m.type = "accept" => m.value \in Value
           /\ m.type \in {"prepareReply", "acceptReply"} =>
                m.bal \in Ballot /\ m.from \in Node /\ m.reject \in Nat
           /\ m.type = "prepareReply" =>
                m.accepted \in BallotOrNull /\ m.value \in ValueOrNone
           /\ m.type = "learn" => m.bal \in BallotOrNull /\ m.value \in ValueOrNone
BY DEF Message

(* What a node sends to its peers are messages.                            *)
LEMMA SentAreMessages ==
    ASSUME NEW n \in Node, NEW i \in Instance, NEW b \in Ballot
    PROVE  /\ Prepares(n, i, b) \subseteq Message
           /\ Successes(n, i, b) \subseteq Message
           /\ \A v \in Value : Accepts(n, i, b, v) \subseteq Message
<1>1. Peers(n) \subseteq Node
  BY DEF Peers
<1>2. \A to \in Node :
        /\ [type |-> "prepare", to |-> to, inst |-> i, bal |-> b] \in Message
        /\ [type |-> "success", to |-> to, inst |-> i, bal |-> b] \in Message
  BY DEF Message
<1>3. \A to \in Node, v \in Value :
        [type |-> "accept", to |-> to, inst |-> i, bal |-> b, value |-> v]
            \in Message
  BY DEF Message
<1> QED
  BY <1>1, <1>2, <1>3 DEF Prepares, Successes, Accepts
-----------------------------------------------------------------------------
(* The inductive invariant: the types, and what the handlers rely on.      *)
IInv == TypeOK /\ HandlerInv

(* The building blocks of the handlers keep their part of it.              *)
LEMMA ReceiveInv ==
    ASSUME msgs \subseteq Message, MessagesOrdered,
           NEW m, NEW sent \in SUBSET Message,
           \A x \in sent : MessageOrdered(x),
           Receive(m, sent) \/ Send(sent)
    PROVE  msgs' \subseteq Message /\ MessagesOrdered'
<1>1. msgs' \subseteq msgs \cup sent
  BY DEF Receive, Send
<1>2. msgs' \subseteq Message
  BY <1>1
<1>3. \A x \in msgs' : MessageOrdered(x)
  BY <1>1 DEF MessagesOrdered
<1> QED
  BY <1>2, <1>3 DEF MessagesOrdered, MessageOrdered

LEMMA SetAcceptorInv ==
    ASSUME IInv, NEW n \in Node, NEW p \in BallotOrNull, NEW a \in BallotOrNull,
           NEW v \in ValueOrNone, SetAcceptor(n, p, a, v),
           BallotGE(p, a), a # NullBallot => v # None
    PROVE  /\ promiseBallot' \in [Node -> BallotOrNull]
           /\ acceptedBallot' \in [Node -> BallotOrNull]
           /\ acceptedValue' \in [Node -> ValueOrNone]
           /\ AcceptorOrdered'
<1> USE DEF IInv, TypeOK, HandlerInv, AcceptorTypeOK, SetAcceptor
<1>1. /\ promiseBallot' \in [Node -> BallotOrNull]
      /\ acceptedBallot' \in [Node -> BallotOrNull]
      /\ acceptedValue' \in [Node -> ValueOrNone]
  OBVIOUS
<1>2. AcceptorOrdered'
  BY DEF AcceptorOrdered, BallotGE
<1> QED
  BY <1>1, <1>2

(* The acceptor's part of NewInstance: the promise survives.               *)
LEMMA EndOfInstanceInv ==
    ASSUME IInv, NEW n \in Node,
           SetAcceptor(n, promiseBallot[n], NullBallot, None)
    PROVE  /\ promiseBallot' \in [Node -> BallotOrNull]
           /\ acceptedBallot' \in [Node -> BallotOrNull]
           /\ acceptedValue' \in [Node -> ValueOrNone]
           /\ AcceptorOrdered'
           /\ UNCHANGED paxosLog => AcceptorTypeOK' /\ LogOrdered'
<1>1. /\ promiseBallot[n] \in BallotOrNull /\ NullBallot \in BallotOrNull
      /\ None \in ValueOrNone
  BY DEF IInv, TypeOK, AcceptorTypeOK, BallotOrNull, ValueOrNone
<1>2. BallotGE(promiseBallot[n], NullBallot)
  BY <1>1, BallotReflexive
<1>3. /\ promiseBallot' \in [Node -> BallotOrNull]
      /\ acceptedBallot' \in [Node -> BallotOrNull]
      /\ acceptedValue' \in [Node -> ValueOrNone]
      /\ AcceptorOrdered'
  BY <1>1, <1>2, SetAcceptorInv
<1>4. ASSUME UNCHANGED paxosLog PROVE AcceptorTypeOK' /\ LogOrdered'
  BY <1>3, <1>4
  DEF IInv, TypeOK, HandlerInv, AcceptorTypeOK, LogOrdered, Logged
<1> QED
  BY <1>3, <1>4

LEMMA PersistInv ==
    ASSUME IInv, NEW n \in Node, NEW i \in Instance, NEW p \in BallotOrNull,
           NEW a \in BallotOrNull, NEW v \in ValueOrNone, Persist(n, i, p, a, v),
           BallotGE(p, a), a # NullBallot => v # None
    PROVE  /\ paxosLog' \in [Node -> [Instance -> Record \cup {NoRecord}]]
           /\ LogOrdered'
<1> DEFINE r == [promise |-> p, accepted |-> a, value |-> v]
<1>1. r \in Record /\ RecordOrdered(r)
  BY DEF Record, RecordOrdered
<1>2. paxosLog' = [paxosLog EXCEPT ![n][i] = r]
  BY DEF Persist
<1>3. paxosLog \in [Node -> [Instance -> Record \cup {NoRecord}]]
  BY DEF IInv, TypeOK, AcceptorTypeOK
<1> HIDE DEF r
<1>4. paxosLog' \in [Node -> [Instance -> Record \cup {NoRecord}]]
  BY <1>1, <1>2, <1>3
<1>5. \A x \in Node, j \in Instance :
        paxosLog'[x][j] = IF x = n /\ j = i THEN r ELSE paxosLog[x][j]
  BY <1>2, <1>3
<1>6. \A x \in Node : \A j \in Logged(x)' : RecordOrdered(paxosLog'[x][j])
  BY <1>1, <1>5 DEF IInv, HandlerInv, LogOrdered, Logged
<1> QED
  BY <1>4, <1>6 DEF LogOrdered, RecordOrdered

LEMMA ExecuteInv ==
    ASSUME IInv, NEW n \in Node, NEW v \in ValueOrNone, Execute(n, v),
           instanceID[n] \in Instance
    PROVE  /\ LearnerTypeOK'
           /\ \A x \in Node : x # n => instanceID'[x] = instanceID[x]
<1> USE DEF IInv, TypeOK, LearnerTypeOK, Execute
<1>1. instanceID' \in [Node -> 0 .. MaxInstance]
  BY BoundAssumption DEF Instance
<1>2. decided' \subseteq Node \X Instance \X ValueOrNone
  OBVIOUS
<1>3. commit' \in [Node -> ValueOrNone]
  BY DEF ValueOrNone
<1>4. results' \subseteq [node : Node, inst : Instance, value : Value,
                          ret : {"OK", "Conflict"}]
  BY DEF ValueOrNone, CommitResult
<1>5. \A x \in Node : x # n => instanceID'[x] = instanceID[x]
  OBVIOUS
<1> QED
  BY <1>1, <1>2, <1>3, <1>4, <1>5

LEMMA ProposerNewInstanceInv ==
    ASSUME IInv, NEW n \in Node, ProposerNewInstance(n),
           \A x \in Node : x # n => instanceID'[x] = instanceID[x]
    PROVE  /\ highestOther' \in [Node -> Nat]
           /\ value' \in [Node -> ValueOrNone]
           /\ phase' \in
                [Node -> {"idle", "preparing", "selfAccept", "accepting"}]
           /\ granted' \in [Node -> SUBSET Node]
           /\ ProposerReady'
<1> USE DEF IInv, TypeOK, ProposerTypeOK, ProposerNewInstance
<1>1. /\ highestOther' \in [Node -> Nat]
      /\ value' \in [Node -> ValueOrNone]
      /\ granted' \in [Node -> SUBSET Node]
  BY DEF ValueOrNone
<1>2. phase' \in [Node -> {"idle", "preparing", "selfAccept", "accepting"}]
  OBVIOUS
<1>3. ProposerReady'
  BY DEF HandlerInv, ProposerReady
<1> QED
  BY <1>1, <1>2, <1>3

LEMMA UnchangedInv ==
    ASSUME IInv
    PROVE  /\ UNCHANGED acceptorVars =>
                AcceptorTypeOK' /\ AcceptorOrdered' /\ LogOrdered'
           /\ UNCHANGED learnVars => LearnerTypeOK'
           /\ UNCHANGED historyVars => HistoryTypeOK'
           /\ UNCHANGED msgs => msgs' \subseteq Message /\ MessagesOrdered'
<1> USE DEF IInv, TypeOK, HandlerInv
<1>1. ASSUME UNCHANGED acceptorVars
      PROVE  AcceptorTypeOK' /\ AcceptorOrdered' /\ LogOrdered'
  BY <1>1 DEF acceptorVars, AcceptorTypeOK, AcceptorOrdered, LogOrdered, Logged
<1>2. ASSUME UNCHANGED learnVars PROVE LearnerTypeOK'
  BY <1>2 DEF learnVars, LearnerTypeOK
<1>3. ASSUME UNCHANGED historyVars PROVE HistoryTypeOK'
  BY <1>3 DEF historyVars, passVars, HistoryTypeOK
<1>4. ASSUME UNCHANGED msgs PROVE msgs' \subseteq Message /\ MessagesOrdered'
  BY <1>4 DEF MessagesOrdered
<1> QED
  BY <1>1, <1>2, <1>3, <1>4

(* A message in an inbox.                                                  *)
LEMMA InboxFields ==
    ASSUME IInv, NEW n \in Node, NEW types, NEW m \in Inbox(n, types)
    PROVE  /\ m \in Message /\ m \in msgs /\ m.to = n /\ m.type \in types
           /\ MessageOrdered(m) /\ m.inst \in Instance
BY MessageFields DEF Inbox, IInv, TypeOK, HandlerInv, MessagesOrdered

LEMMA LargerInNat ==
    ASSUME NEW a \in Nat, NEW b \in Nat
    PROVE  Larger(a, b) \in Nat /\ Larger(a, b) >= a /\ Larger(a, b) >= b
BY DEF Larger

-----------------------------------------------------------------------------
(* Every action keeps the invariant.  The proposer's actions first.        *)
LEMMA OnExpiredReplyInv ==
    ASSUME IInv, NEW n \in Node, OnExpiredReply(n)
    PROVE  IInv'
<1>1. PICK m \in Inbox(n, {"prepareReply", "acceptReply"}) :
        /\ NoteReject(n, m)
        /\ Receive(m, {})
        /\ UNCHANGED <<learnVars, acceptorVars, proposalID, value, phase,
                       preAcceptBallot, canSkipPrepare, granted, historyVars>>
  BY DEF OnExpiredReply
<1>2. m.reject \in Nat
  BY InboxFields, MessageFields
<1>3. ProposerTypeOK'
  BY <1>1, <1>2, LargerInNat DEF NoteReject, IInv, TypeOK, ProposerTypeOK
<1>4. ProposerReady'
  BY <1>1 DEF IInv, HandlerInv, ProposerReady, learnVars
<1>5. msgs' \subseteq Message /\ MessagesOrdered'
  BY <1>1, ReceiveInv DEF IInv, TypeOK, HandlerInv
<1> QED
  BY <1>1, <1>3, <1>4, <1>5, UnchangedInv DEF IInv, TypeOK, HandlerInv

LEMMA CommitTimeoutInv ==
    ASSUME IInv, NEW n \in Node, CommitTimeout(n)
    PROVE  IInv'
<1> USE DEF IInv, TypeOK, HandlerInv
<1>1. LearnerTypeOK'
  BY DEF CommitTimeout, LearnerTypeOK, ValueOrNone
<1>2. ProposerTypeOK' /\ ProposerReady'
  BY DEF CommitTimeout, ProposerTypeOK, ProposerReady
<1>3. HistoryTypeOK'
  BY DEF CommitTimeout, CountInterrupt, passVars, HistoryTypeOK
<1> QED
  BY <1>1, <1>2, <1>3, UnchangedInv DEF CommitTimeout

LEMMA NextProposalIDInNat ==
    ASSUME IInv, NEW n \in Node, NEW newBallot
    PROVE  NextProposalID(n, newBallot) \in Nat \ {0}
<1>1. proposalID[n] \in Nat \ {0} /\ highestOther[n] \in Nat
  BY DEF IInv, TypeOK, ProposerTypeOK
<1>2. Larger(proposalID[n], highestOther[n]) \in Nat
  BY <1>1, LargerInNat
<1>3. Larger(proposalID[n], highestOther[n]) + 1 \in Nat \ {0}
  BY <1>2
<1> QED
  BY <1>1, <1>3 DEF NextProposalID

(* Proposer::Prepare of a value, by its three outcomes at the own acceptor. *)
LEMMA PrepareInv ==
    ASSUME IInv, NEW n \in Node, NEW newBallot \in BOOLEAN, NEW w \in Value,
           Prepare(n, newBallot, w), instanceID[n] \in Instance
    PROVE  /\ AcceptorTypeOK' /\ AcceptorOrdered' /\ LogOrdered'
           /\ ProposerTypeOK'
           /\ \A x \in Node : phase'[x] # "idle" =>
                value'[x] # None /\ instanceID[x] < MaxInstance
           /\ promises' \subseteq Node \X Instance \X Ballot
           /\ votes' = votes
           /\ msgs' \subseteq Message /\ MessagesOrdered'
<1> DEFINE b == <<NextProposalID(n, newBallot), n>>
           AcceptorInv == AcceptorTypeOK /\ AcceptorOrdered /\ LogOrdered
           MessagesInv == msgs \subseteq Message /\ MessagesOrdered
           Changed == /\ highestOther' \in [Node -> Nat]
                      /\ value' \in [Node -> ValueOrNone]
                      /\ value'[n] # None
                      /\ \A x \in Node \ {n} : value'[x] = value[x]
                      /\ preAcceptBallot' \in [Node -> BallotOrNull]
                      /\ wasReject' \in [Node -> BOOLEAN]
                      /\ granted' \in [Node -> SUBSET Node]
                      /\ promises' \subseteq Node \X Instance \X Ballot
<1> USE DEF IInv, TypeOK, HandlerInv
<1>1. NextProposalID(n, newBallot) \in Nat \ {0}
  BY NextProposalIDInNat
<1>2. b \in Ballot /\ b \in BallotOrNull
  BY <1>1 DEF Ballot, BallotOrNull
<1> HIDE DEF b
<1>3. /\ promiseBallot[n] \in BallotOrNull /\ acceptedBallot[n] \in BallotOrNull
      /\ acceptedValue[n] \in ValueOrNone
      /\ acceptedBallot[n] # NullBallot => acceptedValue[n] # None
      /\ BallotGE(promiseBallot[n], acceptedBallot[n])
  BY DEF AcceptorTypeOK, AcceptorOrdered
<1>4. w \in ValueOrNone /\ w # None
  BY ValueAssumption DEF ValueOrNone
<1>5. NullBallot \in BallotOrNull
  BY DEF BallotOrNull
<1>6. ASSUME BallotGE(b, promiseBallot[n]),
             promiseBallot' = [promiseBallot EXCEPT ![n] = b],
             UNCHANGED <<acceptedBallot, acceptedValue>>
      PROVE  /\ promiseBallot' \in [Node -> BallotOrNull]
             /\ AcceptorOrdered'
  <2>1. BallotGE(b, acceptedBallot[n])
    BY <1>2, <1>3, <1>6, BallotTransitive
  <2> QED
    BY <1>2, <1>6, <2>1 DEF AcceptorTypeOK, AcceptorOrdered
<1>7. UNCHANGED <<acceptedBallot, acceptedValue, votes>>
  BY DEF Prepare
<1>8. ASSUME SelfPromise(n, b, w)
      PROVE  AcceptorInv' /\ Changed /\ MessagesInv'
  <2>1. AcceptorOrdered' /\ promiseBallot' \in [Node -> BallotOrNull]
    BY <1>6, <1>7, <1>8 DEF SelfPromise
  <2>2. BallotGE(b, acceptedBallot[n])
    BY <1>2, <1>3, <1>8, BallotTransitive DEF SelfPromise
  <2>3. /\ LogOrdered'
        /\ paxosLog' \in [Node -> [Instance -> Record \cup {NoRecord}]]
    BY <1>2, <1>3, <1>8, <2>2, PersistInv DEF SelfPromise
  <2>4. AcceptorInv'
    BY <1>7, <2>1, <2>3 DEF AcceptorTypeOK, AcceptorOrdered, LogOrdered, Logged
  <2>5. Changed
    BY <1>2, <1>3, <1>4, <1>8 DEF SelfPromise, ProposerTypeOK, HistoryTypeOK
  <2>6. msgs' \subseteq Message /\ MessagesOrdered'
    <3>1. \A x \in Prepares(n, instanceID[n], b) : MessageOrdered(x)
      BY DEF Prepares, MessageOrdered
    <3> QED
      BY <1>2, <1>8, <3>1, SentAreMessages, ReceiveInv DEF SelfPromise
  <2> QED
    BY <2>4, <2>5, <2>6
<1>9. ASSUME SelfReject(n, b, w)
      PROVE  AcceptorInv' /\ Changed /\ MessagesInv'
  <2>1. AcceptorInv'
    BY <1>7, <1>9, UnchangedInv DEF SelfReject, acceptorVars
  <2>2. promiseBallot[n][1] \in Nat
    BY <1>3, BallotFields
  <2>3. Changed
    BY <1>4, <1>5, <1>9, <2>2, LargerInNat
    DEF SelfReject, ProposerTypeOK, HistoryTypeOK
  <2>4. msgs' \subseteq Message /\ MessagesOrdered'
    <3>1. \A x \in Prepares(n, instanceID[n], b) : MessageOrdered(x)
      BY DEF Prepares, MessageOrdered
    <3> QED
      BY <1>2, <1>9, <3>1, SentAreMessages, ReceiveInv DEF SelfReject
  <2> QED
    BY <2>1, <2>3, <2>4
<1>10. ASSUME SelfPromiseNotPersisted(n, b, w)
      PROVE  AcceptorInv' /\ Changed /\ MessagesInv'
  <2>1. AcceptorInv'
    BY <1>6, <1>7, <1>10
    DEF SelfPromiseNotPersisted, AcceptorTypeOK, LogOrdered, Logged
  <2>2. Changed
    BY <1>4, <1>5, <1>10
    DEF SelfPromiseNotPersisted, ProposerTypeOK, HistoryTypeOK
  <2>3. msgs' \subseteq Message /\ MessagesOrdered'
    BY <1>10, UnchangedInv DEF SelfPromiseNotPersisted
  <2> QED
    BY <2>1, <2>2, <2>3
<1>11. AcceptorInv' /\ Changed /\ MessagesInv'
  BY <1>8, <1>9, <1>10 DEF Prepare, b
<1>12. ProposerTypeOK'
  BY <1>1, <1>11 DEF Prepare, ProposerTypeOK
<1>13. \A x \in Node : phase'[x] # "idle" =>
            value'[x] # None /\ instanceID[x] < MaxInstance
  BY <1>11, BoundAssumption
  DEF Prepare, ProposerReady, ProposerTypeOK, Instance
<1> QED
  BY <1>7, <1>11, <1>12, <1>13

(* Proposer::Accept sends an accept message of a ballot and a value.       *)
LEMMA MyAcceptsAreMessages ==
    ASSUME IInv, NEW n \in Node, NEW w \in Value, instanceID[n] \in Instance
    PROVE  /\ MyAccepts(n, w) \subseteq Message
           /\ \A x \in MyAccepts(n, w) : MessageOrdered(x)
<1>1. <<proposalID[n], n>> \in Ballot
  BY DEF IInv, TypeOK, ProposerTypeOK, Ballot
<1>2. MyAccepts(n, w) \subseteq Message
  BY <1>1, SentAreMessages DEF MyAccepts
<1>3. \A x \in MyAccepts(n, w) : MessageOrdered(x)
  BY DEF MyAccepts, Accepts, MessageOrdered
<1> QED
  BY <1>2, <1>3

LEMMA NewValueInv ==
    ASSUME IInv, NEW n \in Node, NEW v \in Value, NewValue(n, v)
    PROVE  IInv'
<1> DEFINE w == ValueToPropose(n, v)
<1> USE DEF IInv, TypeOK, HandlerInv
<1>1. instanceID[n] \in Instance
  BY BoundAssumption DEF NewValue, LearnerTypeOK, Instance
<1>2. w \in Value
  BY DEF ValueToPropose, ProposerTypeOK, ValueOrNone
<1>3. LearnerTypeOK'
  BY DEF NewValue, LearnerTypeOK, ValueOrNone
<1>4. proposed' \subseteq Value /\ interrupts' \in Nat
  BY DEF NewValue, HistoryTypeOK
<1> HIDE DEF w
<1>5. ASSUME Accept(n, w), Send(MyAccepts(n, w)),
             UNCHANGED <<acceptorVars, proposalID, highestOther, passVars,
                         preAcceptBallot, canSkipPrepare, wasReject>>
      PROVE  IInv'
  <2>1. ProposerTypeOK'
    BY <1>2, <1>5 DEF Accept, ProposerTypeOK, ValueOrNone
  <2>2. ProposerReady'
    BY <1>2, <1>5, ValueAssumption
    DEF NewValue, Accept, ProposerReady, ProposerTypeOK
  <2>3. msgs' \subseteq Message /\ MessagesOrdered'
    BY <1>1, <1>2, <1>5, MyAcceptsAreMessages, ReceiveInv
  <2>4. HistoryTypeOK'
    BY <1>4, <1>5 DEF HistoryTypeOK, passVars
  <2> QED
    BY <1>3, <1>5, <2>1, <2>2, <2>3, <2>4, UnchangedInv
<1>6. ASSUME Prepare(n, wasReject[n], w)
      PROVE  IInv'
  <2>1. wasReject[n] \in BOOLEAN
    BY DEF ProposerTypeOK
  <2>2. /\ AcceptorTypeOK' /\ AcceptorOrdered' /\ LogOrdered'
        /\ ProposerTypeOK'
        /\ \A x \in Node : phase'[x] # "idle" =>
             value'[x] # None /\ instanceID[x] < MaxInstance
        /\ promises' \subseteq Node \X Instance \X Ballot
        /\ votes' = votes
        /\ msgs' \subseteq Message /\ MessagesOrdered'
    BY <1>1, <1>2, <1>6, <2>1, PrepareInv
  <2>3. ProposerReady'
    BY <2>2 DEF NewValue, ProposerReady
  <2>4. HistoryTypeOK'
    BY <1>4, <2>2 DEF HistoryTypeOK
  <2> QED
    BY <1>3, <2>2, <2>3, <2>4
<1> QED
  BY <1>5, <1>6 DEF NewValue, w

LEMMA ProposerTimeoutInv ==
    ASSUME IInv, NEW n \in Node, ProposerTimeout(n)
    PROVE  IInv'
<1> USE DEF IInv, TypeOK, HandlerInv
<1>1. instanceID[n] \in Instance /\ value[n] \in Value
  BY BoundAssumption
  DEF ProposerTimeout, ProposerReady, ProposerTypeOK, LearnerTypeOK,
      ValueOrNone, Instance
<1>2. wasReject[n] \in BOOLEAN
  BY DEF ProposerTypeOK
<1>3. /\ AcceptorTypeOK' /\ AcceptorOrdered' /\ LogOrdered'
      /\ ProposerTypeOK'
      /\ \A x \in Node : phase'[x] # "idle" =>
           value'[x] # None /\ instanceID[x] < MaxInstance
      /\ promises' \subseteq Node \X Instance \X Ballot
      /\ votes' = votes
      /\ msgs' \subseteq Message /\ MessagesOrdered'
  BY <1>1, <1>2, PrepareInv DEF ProposerTimeout
<1>4. LearnerTypeOK'
  BY UnchangedInv DEF ProposerTimeout
<1>5. ProposerReady'
  BY <1>3 DEF ProposerTimeout, learnVars, ProposerReady
<1>6. HistoryTypeOK'
  BY <1>3 DEF ProposerTimeout, CountInterrupt, HistoryTypeOK
<1> QED
  BY <1>3, <1>4, <1>5, <1>6

LEMMA OnPrepareReplyInv ==
    ASSUME IInv, NEW n \in Node, OnPrepareReply(n)
    PROVE  IInv'
<1> USE DEF IInv, TypeOK, HandlerInv
<1>1. PICK m \in Inbox(n, {"prepareReply"}) :
        /\ phase[n] = "preparing"
        /\ m.inst = instanceID[n]
        /\ \/ /\ NoteReject(n, m)
              /\ Receive(m, {})
              /\ UNCHANGED <<value, preAcceptBallot, phase, canSkipPrepare,
                             granted>>
           \/ LET known == AddPreAcceptValue(n, m)
                  yes   == granted[n] \cup {m.from}
              IN  /\ preAcceptBallot' =
                        [preAcceptBallot EXCEPT ![n] = known.bal]
                  /\ \/ /\ canSkipPrepare' = [canSkipPrepare EXCEPT ![n] = TRUE]
                        /\ Accept(n, known.value)
                        /\ Receive(m, MyAccepts(n, known.value))
                     \/ /\ granted' = [granted EXCEPT ![n] = yes]
                        /\ value' = [value EXCEPT ![n] = known.value]
                        /\ Receive(m, {})
                        /\ UNCHANGED <<canSkipPrepare, phase>>
                  /\ UNCHANGED <<wasReject, highestOther>>
        /\ UNCHANGED <<learnVars, acceptorVars, proposalID, historyVars>>
  BY DEF OnPrepareReply
<1>2. /\ m.from \in Node /\ m.reject \in Nat /\ m.accepted \in BallotOrNull
      /\ m.value \in ValueOrNone
      /\ m.accepted # NullBallot => m.value # None
      /\ m.inst \in Instance
  BY InboxFields, MessageFields DEF MessageOrdered
<1>3. value[n] \in Value /\ instanceID[n] \in Instance
  BY <1>1, <1>2 DEF ProposerReady, ProposerTypeOK, ValueOrNone
<1> DEFINE known == AddPreAcceptValue(n, m)
           yes   == granted[n] \cup {m.from}
<1>4. known.value \in Value /\ known.bal \in BallotOrNull
  BY <1>2, <1>3 DEF AddPreAcceptValue, ProposerTypeOK, ValueOrNone
<1>5. yes \in SUBSET Node
  BY <1>2 DEF ProposerTypeOK
<1>6. learnVars' = learnVars /\ instanceID' = instanceID
  BY <1>1 DEF learnVars
<1> HIDE DEF known, yes
<1>7. ASSUME NoteReject(n, m), Receive(m, {}),
             UNCHANGED <<value, preAcceptBallot, phase, canSkipPrepare, granted>>
      PROVE  /\ ProposerTypeOK' /\ ProposerReady'
             /\ msgs' \subseteq Message /\ MessagesOrdered'
  <2>1. ProposerTypeOK'
    BY <1>1, <1>2, <1>7, LargerInNat DEF NoteReject, ProposerTypeOK
  <2>2. ProposerReady'
    BY <1>6, <1>7 DEF ProposerReady
  <2>3. msgs' \subseteq Message /\ MessagesOrdered'
    BY <1>7, ReceiveInv
  <2> QED
    BY <2>1, <2>2, <2>3
<1>8. ASSUME preAcceptBallot' = [preAcceptBallot EXCEPT ![n] = known.bal],
             canSkipPrepare' = [canSkipPrepare EXCEPT ![n] = TRUE],
             Accept(n, known.value), Receive(m, MyAccepts(n, known.value)),
             UNCHANGED <<wasReject, highestOther>>
      PROVE  /\ ProposerTypeOK' /\ ProposerReady'
             /\ msgs' \subseteq Message /\ MessagesOrdered'
  <2>1. ProposerTypeOK'
    BY <1>1, <1>4, <1>8 DEF Accept, ProposerTypeOK, ValueOrNone
  <2>2. ProposerReady'
    BY <1>1, <1>4, <1>6, <1>8, ValueAssumption
    DEF Accept, ProposerReady, ProposerTypeOK
  <2>3. msgs' \subseteq Message /\ MessagesOrdered'
    BY <1>3, <1>4, <1>8, MyAcceptsAreMessages, ReceiveInv
  <2> QED
    BY <2>1, <2>2, <2>3
<1>9. ASSUME preAcceptBallot' = [preAcceptBallot EXCEPT ![n] = known.bal],
             granted' = [granted EXCEPT ![n] = yes],
             value' = [value EXCEPT ![n] = known.value],
             Receive(m, {}),
             UNCHANGED <<canSkipPrepare, phase, wasReject, highestOther>>
      PROVE  /\ ProposerTypeOK' /\ ProposerReady'
             /\ msgs' \subseteq Message /\ MessagesOrdered'
  <2>1. ProposerTypeOK'
    BY <1>1, <1>4, <1>5, <1>9 DEF ProposerTypeOK, ValueOrNone
  <2>2. ProposerReady'
    BY <1>1, <1>4, <1>6, <1>9, ValueAssumption
    DEF ProposerReady, ProposerTypeOK
  <2>3. msgs' \subseteq Message /\ MessagesOrdered'
    BY <1>9, ReceiveInv
  <2> QED
    BY <2>1, <2>2, <2>3
<1>10. /\ ProposerTypeOK' /\ ProposerReady'
       /\ msgs' \subseteq Message /\ MessagesOrdered'
  BY <1>1, <1>7, <1>8, <1>9 DEF known, yes
<1> QED
  BY <1>1, <1>10, UnchangedInv

LEMMA OnAcceptReplyInv ==
    ASSUME IInv, NEW n \in Node, OnAcceptReply(n)
    PROVE  IInv'
<1> USE DEF IInv, TypeOK, HandlerInv
<1> DEFINE Kept == /\ ProposerTypeOK' /\ ProposerReady'
                   /\ AcceptorTypeOK' /\ AcceptorOrdered' /\ LogOrdered'
                   /\ LearnerTypeOK'
                   /\ msgs' \subseteq Message /\ MessagesOrdered'
<1>1. PICK m \in Inbox(n, {"acceptReply"}) :
        /\ phase[n] = "accepting"
        /\ m.inst = instanceID[n]
        /\ \/ /\ NoteReject(n, m)
              /\ Receive(m, {})
              /\ UNCHANGED <<learnVars, acceptorVars, value, phase, granted>>
           \/ /\ granted' = [granted EXCEPT ![n] = @ \cup {m.from}]
              /\ Receive(m, {})
              /\ UNCHANGED <<learnVars, acceptorVars, highestOther, value,
                             phase, wasReject>>
           \/ /\ Receive(m, Successes(n, instanceID[n], m.bal))
              /\ \/ /\ LearnsFromSuccess(n, m.bal)
                    /\ Execute(n, acceptedValue[n])
                    /\ SetAcceptor(n, promiseBallot[n], NullBallot, None)
                    /\ ProposerNewInstance(n)
                 \/ /\ phase' = [phase EXCEPT ![n] = "idle"]
                    /\ granted' = [granted EXCEPT ![n] = @ \cup {m.from}]
                    /\ UNCHANGED <<learnVars, acceptedBallot, acceptedValue,
                                   promiseBallot, highestOther, value>>
              /\ UNCHANGED <<paxosLog, wasReject>>
        /\ UNCHANGED <<proposalID, preAcceptBallot, canSkipPrepare, historyVars>>
  BY DEF OnAcceptReply
<1>2. /\ m.from \in Node /\ m.reject \in Nat /\ m.bal \in Ballot
      /\ m.inst \in Instance /\ instanceID[n] \in Instance
  BY <1>1, InboxFields, MessageFields
<1>3. ASSUME NoteReject(n, m), Receive(m, {}),
             UNCHANGED <<learnVars, acceptorVars, value, phase, granted>>
      PROVE  Kept
  <2>1. ProposerTypeOK'
    BY <1>1, <1>2, <1>3, LargerInNat DEF NoteReject, ProposerTypeOK
  <2>2. ProposerReady'
    BY <1>3 DEF ProposerReady, learnVars
  <2>3. msgs' \subseteq Message /\ MessagesOrdered'
    BY <1>3, ReceiveInv
  <2> QED
    BY <1>3, <2>1, <2>2, <2>3, UnchangedInv
<1>4. ASSUME granted' = [granted EXCEPT ![n] = @ \cup {m.from}],
             Receive(m, {}),
             UNCHANGED <<learnVars, acceptorVars, highestOther, value, phase,
                         wasReject>>
      PROVE  Kept
  <2>1. ProposerTypeOK'
    BY <1>1, <1>2, <1>4 DEF ProposerTypeOK
  <2>2. ProposerReady'
    BY <1>4 DEF ProposerReady, learnVars
  <2>3. msgs' \subseteq Message /\ MessagesOrdered'
    BY <1>4, ReceiveInv
  <2> QED
    BY <1>4, <2>1, <2>2, <2>3, UnchangedInv
<1>5. ASSUME Receive(m, Successes(n, instanceID[n], m.bal))
      PROVE  msgs' \subseteq Message /\ MessagesOrdered'
  <2>1. \A x \in Successes(n, instanceID[n], m.bal) : MessageOrdered(x)
    BY DEF Successes, MessageOrdered
  <2> QED
    BY <1>2, <1>5, <2>1, SentAreMessages, ReceiveInv
<1>6. ASSUME Receive(m, Successes(n, instanceID[n], m.bal)),
             Execute(n, acceptedValue[n]),
             SetAcceptor(n, promiseBallot[n], NullBallot, None),
             ProposerNewInstance(n),
             UNCHANGED <<paxosLog, wasReject>>
      PROVE  Kept
  <2>1. LearnerTypeOK' /\ ProposerReady' /\ ProposerTypeOK'
    BY <1>1, <1>2, <1>6, ExecuteInv, ProposerNewInstanceInv
    DEF AcceptorTypeOK, ProposerTypeOK
  <2>2. AcceptorTypeOK' /\ AcceptorOrdered' /\ LogOrdered'
    BY <1>6, EndOfInstanceInv
  <2> QED
    BY <1>5, <1>6, <2>1, <2>2
<1>7. ASSUME Receive(m, Successes(n, instanceID[n], m.bal)),
             phase' = [phase EXCEPT ![n] = "idle"],
             granted' = [granted EXCEPT ![n] = @ \cup {m.from}],
             UNCHANGED <<learnVars, acceptedBallot, acceptedValue,
                         promiseBallot, highestOther, value>>,
             UNCHANGED <<paxosLog, wasReject>>
      PROVE  Kept
  <2>1. ProposerTypeOK'
    BY <1>1, <1>2, <1>7 DEF ProposerTypeOK
  <2>2. ProposerReady'
    BY <1>7 DEF ProposerReady, ProposerTypeOK, learnVars
  <2>3. UNCHANGED acceptorVars
    BY <1>7 DEF acceptorVars
  <2> QED
    BY <1>5, <1>7, <2>1, <2>2, <2>3, UnchangedInv
<1>8. Kept
  BY <1>1, <1>3, <1>4, <1>6, <1>7
<1> QED
  BY <1>1, <1>8, UnchangedInv

-----------------------------------------------------------------------------
(* The acceptor's actions.                                                 *)

(* Entering the instance of a prepare or accept: what the acceptor has     *)
(* accepted there is as ordered as in its own.                             *)
LEMMA EnterInstanceInv ==
    ASSUME IInv, NEW n \in Node, NEW m \in Message, EnterInstanceOf(n, m),
           UNCHANGED <<proposalID, preAcceptBallot, canSkipPrepare, wasReject>>
    PROVE  /\ LearnerTypeOK' /\ ProposerTypeOK' /\ ProposerReady'
           /\ AcceptedIn(n, m).bal \in BallotOrNull
           /\ AcceptedIn(n, m).value \in ValueOrNone
           /\ BallotGE(promiseBallot[n], AcceptedIn(n, m).bal)
           /\ AcceptedIn(n, m).bal # NullBallot => AcceptedIn(n, m).value # None
<1> USE DEF IInv, TypeOK, HandlerInv
<1>1. m.inst \in Instance
  BY MessageFields
<1>2. CASE /\ m.inst = instanceID[n]
           /\ UNCHANGED <<learnVars, highestOther, value, phase, granted>>
  <2>1. LearnerTypeOK'
    BY <1>2, UnchangedInv
  <2>2. ProposerTypeOK' /\ ProposerReady'
    BY <1>2 DEF ProposerTypeOK, ProposerReady, learnVars
  <2> QED
    BY <1>2, <2>1, <2>2 DEF AcceptedIn, AcceptorTypeOK, AcceptorOrdered
<1>3. CASE /\ SkipsSuccess(n, m)
           /\ Execute(n, acceptedValue[n])
           /\ ProposerNewInstance(n)
  <2>1. m.inst = instanceID[n] + 1 /\ instanceID[n] \in Instance
    BY <1>1, <1>3, BoundAssumption DEF SkipsSuccess, LearnerTypeOK, Instance
  <2>2. LearnerTypeOK' /\ ProposerTypeOK' /\ ProposerReady'
    BY <1>3, <2>1, ExecuteInv, ProposerNewInstanceInv
    DEF AcceptorTypeOK, ProposerTypeOK
  <2>3. AcceptedIn(n, m) = [bal |-> NullBallot, value |-> None]
    BY <2>1 DEF AcceptedIn, Instance
  <2>4. promiseBallot[n] \in BallotOrNull
    BY DEF AcceptorTypeOK
  <2> QED
    BY <2>2, <2>3, <2>4, BallotReflexive DEF BallotOrNull, ValueOrNone
<1> QED
  BY <1>2, <1>3 DEF EnterInstanceOf

LEMMA OnPrepareInv ==
    ASSUME IInv, NEW n \in Node, OnPrepare(n)
    PROVE  IInv'
<1> USE DEF IInv, TypeOK, HandlerInv
<1> DEFINE Reply(m, reject, acc) ==
             [type |-> "prepareReply", to |-> m.bal[2], inst |-> m.inst,
              bal |-> m.bal, from |-> n, reject |-> reject,
              accepted |-> IF reject = 0 THEN acc.bal ELSE NullBallot,
              value |-> IF reject = 0 THEN acc.value ELSE None]
           Kept == /\ AcceptorTypeOK' /\ AcceptorOrdered' /\ LogOrdered'
                   /\ promises' \subseteq Node \X Instance \X Ballot
<1>1. PICK m \in Inbox(n, {"prepare"}) :
        /\ EnterInstanceOf(n, m)
        /\ \/ /\ BallotGE(m.bal, promiseBallot[n])
              /\ SetAcceptor(n, m.bal, AcceptedIn(n, m).bal,
                             AcceptedIn(n, m).value)
              /\ Persist(n, m.inst, m.bal, AcceptedIn(n, m).bal,
                         AcceptedIn(n, m).value)
              /\ promises' = promises \cup {<<n, m.inst, m.bal>>}
              /\ Receive(m, {Reply(m, 0, AcceptedIn(n, m))})
           \/ /\ BallotGE(m.bal, promiseBallot[n])
              /\ SetAcceptor(n, m.bal, AcceptedIn(n, m).bal,
                             AcceptedIn(n, m).value)
              /\ Receive(m, {})
              /\ UNCHANGED <<paxosLog, promises>>
           \/ /\ SetAcceptor(n, promiseBallot[n], AcceptedIn(n, m).bal,
                             AcceptedIn(n, m).value)
              /\ Receive(m, {Reply(m, promiseBallot[n][1], AcceptedIn(n, m))})
              /\ UNCHANGED <<paxosLog, promises>>
        /\ UNCHANGED <<proposalID, preAcceptBallot, canSkipPrepare, wasReject,
                       proposed, votes, interrupts>>
  BY DEF OnPrepare
<1> DEFINE acc == AcceptedIn(n, m)
<1>2. /\ m \in Message /\ m.inst \in Instance
      /\ m.bal \in Ballot /\ m.bal \in BallotOrNull
  BY InboxFields, MessageFields DEF BallotOrNull
<1>3. /\ LearnerTypeOK' /\ ProposerTypeOK' /\ ProposerReady'
      /\ acc.bal \in BallotOrNull /\ acc.value \in ValueOrNone
      /\ BallotGE(promiseBallot[n], acc.bal)
      /\ acc.bal # NullBallot => acc.value # None
  BY <1>1, <1>2, EnterInstanceInv
<1>4. promiseBallot[n] \in BallotOrNull /\ promiseBallot[n][1] \in Nat
  BY BallotFields DEF AcceptorTypeOK
<1>5. \A x \in Nat : Reply(m, x, acc) \in Message
                    /\ MessageOrdered(Reply(m, x, acc))
  <2>1. m.bal[2] \in Node
    BY <1>2 DEF Ballot
  <2>2. NullBallot \in BallotOrNull /\ None \in ValueOrNone
    BY DEF BallotOrNull, ValueOrNone
  <2> SUFFICES ASSUME NEW x \in Nat
               PROVE  Reply(m, x, acc) \in Message
                      /\ MessageOrdered(Reply(m, x, acc))
    OBVIOUS
  <2> DEFINE a == IF x = 0 THEN acc.bal ELSE NullBallot
             v == IF x = 0 THEN acc.value ELSE None
  <2>3. a \in BallotOrNull /\ v \in ValueOrNone /\ (a # NullBallot => v # None)
    BY <1>3, <2>2
  <2> HIDE DEF a, v
  <2> DEFINE r == [type |-> "prepareReply", to |-> m.bal[2], inst |-> m.inst,
                   bal |-> m.bal, from |-> n, reject |-> x,
                   accepted |-> a, value |-> v]
  <2>4. r \in Message
    BY <1>2, <2>1, <2>3 DEF Message
  <2>5. MessageOrdered(r)
    BY <2>3 DEF MessageOrdered
  <2> QED
    BY <2>4, <2>5 DEF a, v
<1> HIDE DEF acc, Reply
<1>6. ASSUME BallotGE(m.bal, promiseBallot[n]),
             SetAcceptor(n, m.bal, acc.bal, acc.value)
      PROVE  /\ BallotGE(m.bal, acc.bal)
             /\ promiseBallot' \in [Node -> BallotOrNull]
             /\ acceptedBallot' \in [Node -> BallotOrNull]
             /\ acceptedValue' \in [Node -> ValueOrNone]
             /\ AcceptorOrdered'
  <2>1. BallotGE(m.bal, acc.bal)
    BY <1>2, <1>3, <1>4, <1>6, BallotTransitive
  <2> QED
    BY <1>2, <1>3, <1>6, <2>1, SetAcceptorInv
<1>7. ASSUME BallotGE(m.bal, promiseBallot[n]),
             SetAcceptor(n, m.bal, acc.bal, acc.value),
             Persist(n, m.inst, m.bal, acc.bal, acc.value),
             promises' = promises \cup {<<n, m.inst, m.bal>>}
      PROVE  Kept
  <2>1. BallotGE(m.bal, acc.bal) /\ AcceptorOrdered'
    BY <1>6, <1>7
  <2>2. /\ paxosLog' \in [Node -> [Instance -> Record \cup {NoRecord}]]
        /\ LogOrdered'
    BY <1>2, <1>3, <1>7, <2>1, PersistInv
  <2>3. promises' \subseteq Node \X Instance \X Ballot
    BY <1>2, <1>7 DEF HistoryTypeOK
  <2>4. AcceptorTypeOK'
    BY <1>6, <1>7, <2>2 DEF AcceptorTypeOK
  <2> QED
    BY <2>1, <2>2, <2>3, <2>4
<1>8. ASSUME /\ promiseBallot' \in [Node -> BallotOrNull]
             /\ acceptedBallot' \in [Node -> BallotOrNull]
             /\ acceptedValue' \in [Node -> ValueOrNone]
             /\ AcceptorOrdered',
             UNCHANGED <<paxosLog, promises>>
      PROVE  Kept
  BY <1>8 DEF AcceptorTypeOK, LogOrdered, Logged, HistoryTypeOK
<1>9. ASSUME BallotGE(m.bal, promiseBallot[n]),
             SetAcceptor(n, m.bal, acc.bal, acc.value),
             UNCHANGED <<paxosLog, promises>>
      PROVE  Kept
  BY <1>6, <1>8, <1>9
<1>10. ASSUME SetAcceptor(n, promiseBallot[n], acc.bal, acc.value),
              UNCHANGED <<paxosLog, promises>>
       PROVE  Kept
  <2>1. /\ promiseBallot' \in [Node -> BallotOrNull]
        /\ acceptedBallot' \in [Node -> BallotOrNull]
        /\ acceptedValue' \in [Node -> ValueOrNone]
        /\ AcceptorOrdered'
    BY <1>3, <1>4, <1>10, SetAcceptorInv
  <2> QED
    BY <1>8, <1>10, <2>1
<1>11. Kept
  BY <1>1, <1>7, <1>9, <1>10 DEF acc
<1>12. msgs' \subseteq Message /\ MessagesOrdered'
  <2>1. PICK sent \in SUBSET {Reply(m, 0, acc), Reply(m, promiseBallot[n][1], acc)} :
            Receive(m, sent)
    BY <1>1 DEF acc
  <2>2. sent \subseteq Message /\ \A x \in sent : MessageOrdered(x)
    BY <1>4, <1>5, <2>1
  <2> QED
    BY <2>1, <2>2, ReceiveInv
<1>13. HistoryTypeOK'
  BY <1>1, <1>11 DEF HistoryTypeOK
<1> QED
  BY <1>3, <1>11, <1>12, <1>13

(* Acceptor::OnAccept when the ballot passes, persisted or not.            *)
LEMMA AcceptPassesInv ==
    ASSUME IInv, NEW n \in Node, NEW i \in Instance, NEW b \in Ballot,
           NEW v \in Value, AcceptPasses(n, i, b, v) \/ AcceptNotPersisted(n, b, v)
    PROVE  /\ AcceptorTypeOK' /\ AcceptorOrdered' /\ LogOrdered'
           /\ votes' \subseteq Node \X Instance \X Ballot \X Value
<1> USE DEF IInv, TypeOK, HandlerInv
<1>1. /\ b \in BallotOrNull /\ BallotGE(b, b)
      /\ v \in ValueOrNone /\ v # None
  BY BallotReflexive, ValueAssumption DEF BallotOrNull, ValueOrNone
<1>2. SetAcceptor(n, b, b, v)
  BY DEF AcceptPasses, AcceptNotPersisted
<1>3. /\ promiseBallot' \in [Node -> BallotOrNull]
      /\ acceptedBallot' \in [Node -> BallotOrNull]
      /\ acceptedValue' \in [Node -> ValueOrNone]
      /\ AcceptorOrdered'
  BY <1>1, <1>2, SetAcceptorInv
<1>4. /\ paxosLog' \in [Node -> [Instance -> Record \cup {NoRecord}]]
      /\ LogOrdered'
  <2>1. CASE AcceptPasses(n, i, b, v)
    BY <1>1, <2>1, PersistInv DEF AcceptPasses
  <2>2. CASE AcceptNotPersisted(n, b, v)
    BY <2>2 DEF AcceptNotPersisted, AcceptorTypeOK, LogOrdered, Logged
  <2> QED
    BY <2>1, <2>2
<1>5. votes' \subseteq Node \X Instance \X Ballot \X Value
  BY DEF AcceptPasses, AcceptNotPersisted, HistoryTypeOK
<1> QED
  BY <1>3, <1>4, <1>5 DEF AcceptorTypeOK

LEMMA OnAcceptInv ==
    ASSUME IInv, NEW n \in Node, OnAccept(n)
    PROVE  IInv'
<1> USE DEF IInv, TypeOK, HandlerInv
<1> DEFINE Reply(m, reject) ==
             [type |-> "acceptReply", to |-> m.bal[2], inst |-> m.inst,
              bal |-> m.bal, from |-> n, reject |-> reject]
           Kept == /\ AcceptorTypeOK' /\ AcceptorOrdered' /\ LogOrdered'
                   /\ votes' \subseteq Node \X Instance \X Ballot \X Value
<1>1. PICK m \in Inbox(n, {"accept"}) :
        /\ EnterInstanceOf(n, m)
        /\ \/ /\ AcceptPasses(n, m.inst, m.bal, m.value)
              /\ Receive(m, {Reply(m, 0)})
           \/ /\ AcceptNotPersisted(n, m.bal, m.value)
              /\ Receive(m, {})
           \/ /\ SetAcceptor(n, promiseBallot[n], AcceptedIn(n, m).bal,
                             AcceptedIn(n, m).value)
              /\ Receive(m, {Reply(m, promiseBallot[n][1])})
              /\ UNCHANGED <<paxosLog, votes>>
        /\ UNCHANGED <<proposalID, preAcceptBallot, canSkipPrepare, wasReject,
                       proposed, promises, interrupts>>
  BY DEF OnAccept
<1>2. /\ m \in Message /\ m.inst \in Instance
      /\ m.bal \in Ballot /\ m.value \in Value
  BY InboxFields, MessageFields
<1>3. /\ LearnerTypeOK' /\ ProposerTypeOK' /\ ProposerReady'
      /\ AcceptedIn(n, m).bal \in BallotOrNull
      /\ AcceptedIn(n, m).value \in ValueOrNone
      /\ BallotGE(promiseBallot[n], AcceptedIn(n, m).bal)
      /\ AcceptedIn(n, m).bal # NullBallot => AcceptedIn(n, m).value # None
  BY <1>1, <1>2, EnterInstanceInv
<1>4. promiseBallot[n] \in BallotOrNull /\ promiseBallot[n][1] \in Nat
  BY BallotFields DEF AcceptorTypeOK
<1>5. \A x \in Nat : Reply(m, x) \in Message /\ MessageOrdered(Reply(m, x))
  <2>1. m.bal[2] \in Node
    BY <1>2 DEF Ballot
  <2> QED
    BY <1>2, <2>1 DEF Message, MessageOrdered
<1> HIDE DEF Reply
<1>6. ASSUME SetAcceptor(n, promiseBallot[n], AcceptedIn(n, m).bal,
                         AcceptedIn(n, m).value),
             UNCHANGED <<paxosLog, votes>>
      PROVE  Kept
  <2>1. /\ promiseBallot' \in [Node -> BallotOrNull]
        /\ acceptedBallot' \in [Node -> BallotOrNull]
        /\ acceptedValue' \in [Node -> ValueOrNone]
        /\ AcceptorOrdered'
    BY <1>3, <1>4, <1>6, SetAcceptorInv
  <2> QED
    BY <1>6, <2>1 DEF AcceptorTypeOK, LogOrdered, Logged, HistoryTypeOK
<1>7. Kept
  BY <1>1, <1>2, <1>6, AcceptPassesInv
<1>8. msgs' \subseteq Message /\ MessagesOrdered'
  <2>1. PICK sent \in SUBSET {Reply(m, 0), Reply(m, promiseBallot[n][1])} :
            Receive(m, sent)
    BY <1>1
  <2>2. sent \subseteq Message /\ \A x \in sent : MessageOrdered(x)
    BY <1>4, <1>5, <2>1
  <2> QED
    BY <2>1, <2>2, ReceiveInv
<1>9. HistoryTypeOK'
  BY <1>1, <1>7 DEF HistoryTypeOK
<1> QED
  BY <1>3, <1>7, <1>8, <1>9

LEMMA SelfAcceptInv ==
    ASSUME IInv, NEW n \in Node, SelfAccept(n)
    PROVE  IInv'
<1> USE DEF IInv, TypeOK, HandlerInv
<1> DEFINE b == <<proposalID[n], n>>
<1>1. /\ b \in Ballot /\ instanceID[n] \in Instance /\ value[n] \in Value
  BY BoundAssumption
  DEF SelfAccept, ProposerReady, ProposerTypeOK, LearnerTypeOK, Ballot,
      ValueOrNone, Instance
<1> HIDE DEF b
<1>2. /\ phase[n] = "selfAccept"
      /\ phase' = [phase EXCEPT ![n] = "accepting"]
      /\ \/ /\ AcceptPasses(n, instanceID[n], b, value[n])
            /\ granted' = [granted EXCEPT ![n] = {n}]
            /\ UNCHANGED <<highestOther, wasReject>>
         \/ /\ AcceptNotPersisted(n, b, value[n])
            /\ UNCHANGED <<highestOther, wasReject, granted>>
         \/ /\ NoteReject(n, [reject |-> promiseBallot[n][1]])
            /\ UNCHANGED <<acceptorVars, granted, votes>>
      /\ UNCHANGED <<learnVars, proposalID, value, preAcceptBallot,
                     canSkipPrepare, msgs, proposed, promises, interrupts>>
  BY DEF SelfAccept, b
<1>3. /\ AcceptorTypeOK' /\ AcceptorOrdered' /\ LogOrdered'
      /\ votes' \subseteq Node \X Instance \X Ballot \X Value
  <2>1. CASE UNCHANGED <<acceptorVars, granted, votes>>
    BY <2>1, UnchangedInv DEF HistoryTypeOK
  <2>2. CASE \/ AcceptPasses(n, instanceID[n], b, value[n])
             \/ AcceptNotPersisted(n, b, value[n])
    BY <1>1, <2>2, AcceptPassesInv
  <2> QED
    BY <1>2, <2>1, <2>2
<1>4. ProposerTypeOK'
  <2>1. promiseBallot[n][1] \in Nat
    BY BallotFields DEF AcceptorTypeOK
  <2>2. /\ highestOther' \in [Node -> Nat] /\ wasReject' \in [Node -> BOOLEAN]
        /\ granted' \in [Node -> SUBSET Node]
    <3>1. CASE NoteReject(n, [reject |-> promiseBallot[n][1]]) /\ UNCHANGED granted
      BY <2>1, <3>1, LargerInNat DEF NoteReject, ProposerTypeOK
    <3>2. CASE /\ UNCHANGED <<highestOther, wasReject>>
               /\ \/ granted' = [granted EXCEPT ![n] = {n}]
                  \/ UNCHANGED granted
      BY <3>2 DEF ProposerTypeOK
    <3> QED
      BY <1>2, <3>1, <3>2
  <2> QED
    BY <1>2, <2>2 DEF ProposerTypeOK
<1>5. ProposerReady'
  BY <1>2 DEF ProposerReady, ProposerTypeOK, learnVars
<1>6. HistoryTypeOK'
  BY <1>2, <1>3 DEF HistoryTypeOK
<1> QED
  BY <1>2, <1>3, <1>4, <1>5, <1>6, UnchangedInv
-----------------------------------------------------------------------------
(* The learner's actions and the restart.                                  *)
LEMMA OnProposerSendSuccessInv ==
    ASSUME IInv, NEW n \in Node, OnProposerSendSuccess(n)
    PROVE  IInv'
<1> USE DEF IInv, TypeOK, HandlerInv
<1>1. PICK m \in Inbox(n, {"success"}) :
        /\ m.inst = instanceID[n]
        /\ Execute(n, acceptedValue[n])
        /\ SetAcceptor(n, promiseBallot[n], NullBallot, None)
        /\ ProposerNewInstance(n)
        /\ Receive(m, {})
        /\ UNCHANGED <<paxosLog, proposalID, preAcceptBallot, canSkipPrepare,
                       wasReject, historyVars>>
  BY DEF OnProposerSendSuccess
<1>2. instanceID[n] \in Instance
  BY <1>1, InboxFields
<1>3. LearnerTypeOK' /\ ProposerReady' /\ ProposerTypeOK'
  BY <1>1, <1>2, ExecuteInv, ProposerNewInstanceInv
  DEF AcceptorTypeOK, ProposerTypeOK
<1>4. AcceptorTypeOK' /\ AcceptorOrdered' /\ LogOrdered'
  BY <1>1, EndOfInstanceInv
<1>5. msgs' \subseteq Message /\ MessagesOrdered'
  BY <1>1, ReceiveInv
<1> QED
  BY <1>1, <1>3, <1>4, <1>5, UnchangedInv

LEMMA SendLearnValueInv ==
    ASSUME IInv, NEW n \in Node, NEW to \in Node, NEW i \in Instance,
           SendLearnValue(n, to, i)
    PROVE  IInv'
<1> USE DEF IInv, TypeOK, HandlerInv
<1> DEFINE r == paxosLog[n][i]
           x == [type |-> "learn", to |-> to, inst |-> i,
                 bal |-> r.accepted, value |-> r.value]
<1>1. r \in Record /\ RecordOrdered(r)
  BY DEF SendLearnValue, AcceptorTypeOK, LogOrdered, Logged
<1>2. r.accepted \in BallotOrNull /\ r.value \in ValueOrNone
  BY <1>1 DEF Record
<1>3. x \in Message /\ MessageOrdered(x)
  BY <1>1, <1>2 DEF Message, MessageOrdered, RecordOrdered
<1>4. /\ Send({x})
      /\ UNCHANGED <<learnVars, acceptorVars, proposerVars, historyVars>>
  BY DEF SendLearnValue
<1> HIDE DEF x
<1>5. msgs' \subseteq Message /\ MessagesOrdered'
  BY <1>3, <1>4, ReceiveInv
<1>6. ProposerTypeOK' /\ ProposerReady'
  BY <1>4 DEF proposerVars, learnVars, ProposerTypeOK, ProposerReady
<1> QED
  BY <1>4, <1>5, <1>6, UnchangedInv

LEMMA OnSendLearnValueInv ==
    ASSUME IInv, NEW n \in Node, OnSendLearnValue(n)
    PROVE  IInv'
<1> USE DEF IInv, TypeOK, HandlerInv
<1>1. PICK m \in Inbox(n, {"learn"}) :
        /\ m.inst = instanceID[n]
        /\ Persist(n, m.inst, m.bal, m.bal, m.value)
        /\ Execute(n, m.value)
        /\ SetAcceptor(n, promiseBallot[n], NullBallot, None)
        /\ ProposerNewInstance(n)
        /\ Receive(m, {})
        /\ UNCHANGED <<proposalID, preAcceptBallot, canSkipPrepare, wasReject,
                       historyVars>>
  BY DEF OnSendLearnValue
<1>2. /\ instanceID[n] \in Instance /\ m.bal \in BallotOrNull
      /\ m.value \in ValueOrNone /\ BallotGE(m.bal, m.bal)
      /\ m.bal # NullBallot => m.value # None
  BY <1>1, InboxFields, MessageFields, BallotReflexive DEF MessageOrdered
<1>3. LearnerTypeOK' /\ ProposerReady' /\ ProposerTypeOK'
  BY <1>1, <1>2, ExecuteInv, ProposerNewInstanceInv DEF ProposerTypeOK
<1>4. /\ paxosLog' \in [Node -> [Instance -> Record \cup {NoRecord}]]
      /\ LogOrdered'
  BY <1>1, <1>2, PersistInv
<1>5. AcceptorTypeOK' /\ AcceptorOrdered'
  BY <1>1, <1>4, EndOfInstanceInv DEF AcceptorTypeOK
<1>6. msgs' \subseteq Message /\ MessagesOrdered'
  BY <1>1, ReceiveInv
<1> QED
  BY <1>1, <1>3, <1>4, <1>5, <1>6, UnchangedInv

(* Instance::Init from record r, the log's last.                           *)
LEMMA LoadInv ==
    ASSUME IInv, NEW n \in Node, NEW last \in Nat, NEW r \in Record,
           RecordOrdered(r), last <= MaxInstance, last = 0 \/ last \in Instance,
           Load(n, last, r), UNCHANGED paxosLog
    PROVE  /\ AcceptorTypeOK' /\ AcceptorOrdered' /\ LogOrdered'
           /\ instanceID' \in [Node -> 0 .. MaxInstance]
           /\ decided' \subseteq Node \X Instance \X ValueOrNone
           /\ proposalID' \in [Node -> Nat \ {0}]
           /\ \A x \in Node : x # n => instanceID'[x] = instanceID[x]
<1> USE DEF IInv, TypeOK, HandlerInv
<1>1. /\ r.promise \in BallotOrNull /\ r.accepted \in BallotOrNull
      /\ r.value \in ValueOrNone
  BY DEF Record
<1>2. /\ promiseBallot' \in [Node -> BallotOrNull]
      /\ acceptedBallot' \in [Node -> BallotOrNull]
      /\ acceptedValue' \in [Node -> ValueOrNone]
      /\ AcceptorOrdered'
  BY <1>1, SetAcceptorInv DEF Load, RecordOrdered
<1>3. AcceptorTypeOK' /\ LogOrdered'
  BY <1>2 DEF AcceptorTypeOK, LogOrdered, Logged
<1>4. /\ instanceID' \in [Node -> 0 .. MaxInstance]
      /\ \A x \in Node : x # n => instanceID'[x] = instanceID[x]
  BY BoundAssumption DEF Load, LearnerTypeOK
<1>5. Replayed(n, last) \subseteq Node \X Instance \X ValueOrNone
  <2>1. \A i \in 0 .. last - 1 :
            i \in Instance /\ paxosLog[n][i].value \in ValueOrNone
    BY DEF Load, Logged, AcceptorTypeOK, Record
  <2> QED
    BY <2>1 DEF Replayed
<1>6. decided' \subseteq Node \X Instance \X ValueOrNone
  BY <1>5 DEF Load, LearnerTypeOK
<1>7. proposalID' \in [Node -> Nat \ {0}]
  <2>1. r.promise[1] + 1 \in Nat \ {0}
    BY <1>1, BallotFields
  <2> QED
    BY <2>1 DEF Load, ProposerTypeOK
<1> QED
  BY <1>2, <1>3, <1>4, <1>6, <1>7

LEMMA RestartInv ==
    ASSUME IInv, NEW n \in Node, Restart(n)
    PROVE  IInv'
<1> USE DEF IInv, TypeOK, HandlerInv
<1> DEFINE Loaded ==
             /\ AcceptorTypeOK' /\ AcceptorOrdered' /\ LogOrdered'
             /\ instanceID' \in [Node -> 0 .. MaxInstance]
             /\ decided' \subseteq Node \X Instance \X ValueOrNone
             /\ proposalID' \in [Node -> Nat \ {0}]
             /\ \A x \in Node : x # n => instanceID'[x] = instanceID[x]
<1>1. UNCHANGED <<paxosLog, results, msgs, proposed, passVars>>
  BY DEF Restart
<1>2. ASSUME Load(n, 0, EmptyState)
      PROVE  Loaded
  <2>1. EmptyState \in Record /\ RecordOrdered(EmptyState)
    BY BallotReflexive
    DEF EmptyState, Record, RecordOrdered, BallotOrNull, ValueOrNone
  <2> QED
    BY <1>1, <1>2, <2>1, LoadInv, BoundAssumption
<1>3. ASSUME NEW last \in Logged(n), Load(n, last, paxosLog[n][last])
      PROVE  Loaded
  <2>1. last \in Instance /\ last \in Nat /\ last <= MaxInstance
    BY BoundAssumption DEF Logged, Instance
  <2>2. paxosLog[n][last] \in Record /\ RecordOrdered(paxosLog[n][last])
    BY DEF Logged, AcceptorTypeOK, LogOrdered
  <2> QED
    BY <1>1, <1>3, <2>1, <2>2, LoadInv
<1>4. Loaded
  BY <1>2, <1>3 DEF Restart
<1> HIDE DEF Loaded
<1>5. LearnerTypeOK'
  BY <1>1, <1>4 DEF Loaded, Restart, LearnerTypeOK, ValueOrNone
<1>6. ProposerTypeOK'
  BY <1>4 DEF Loaded, Restart, ProposerTypeOK, BallotOrNull, ValueOrNone
<1>7. ProposerReady'
  BY <1>4 DEF Loaded, Restart, ProposerReady, ProposerTypeOK
<1>8. HistoryTypeOK'
  BY <1>1 DEF Restart, CountInterrupt, passVars, HistoryTypeOK
<1> QED
  BY <1>1, <1>4, <1>5, <1>6, <1>7, <1>8, UnchangedInv DEF Loaded
-----------------------------------------------------------------------------
LEMMA InitInv == Init => IInv
<1> SUFFICES ASSUME Init PROVE IInv
  OBVIOUS
<1> USE DEF Init
<1>1. NullBallot \in BallotOrNull /\ None \in ValueOrNone
  BY DEF BallotOrNull, ValueOrNone
<1>2. 0 \in 0 .. MaxInstance /\ 1 \in Nat \ {0}
  BY BoundAssumption
<1>3. AcceptorTypeOK /\ ProposerTypeOK /\ LearnerTypeOK /\ HistoryTypeOK
  BY <1>1, <1>2
  DEF AcceptorTypeOK, ProposerTypeOK, LearnerTypeOK, HistoryTypeOK
<1>4. ProposerReady /\ AcceptorOrdered
  BY <1>1, BallotReflexive DEF ProposerReady, AcceptorOrdered
<1>5. LogOrdered /\ MessagesOrdered /\ msgs \subseteq Message
  BY DEF LogOrdered, Logged, MessagesOrdered
<1> QED
  BY <1>3, <1>4, <1>5 DEF IInv, TypeOK, HandlerInv

LEMMA NextInv == IInv /\ [Next]_vars => IInv'
<1> SUFFICES ASSUME IInv, [Next]_vars PROVE IInv'
  OBVIOUS
<1>1. CASE UNCHANGED vars
  BY <1>1
  DEF vars, learnVars, acceptorVars, proposerVars, historyVars, passVars,
      IInv, TypeOK, HandlerInv, AcceptorTypeOK, ProposerTypeOK, LearnerTypeOK,
      HistoryTypeOK, ProposerReady, AcceptorOrdered, LogOrdered, Logged,
      MessagesOrdered
<1>2. CASE Next
  <2>1. PICK n \in Node :
        \/ \E v \in Value : NewValue(n, v)
        \/ ProposerTimeout(n)
        \/ OnPrepareReply(n)
        \/ OnAcceptReply(n)
        \/ OnExpiredReply(n)
        \/ CommitTimeout(n)
        \/ OnPrepare(n)
        \/ OnAccept(n)
        \/ SelfAccept(n)
        \/ OnProposerSendSuccess(n)
        \/ \E to \in Node, i \in Instance : SendLearnValue(n, to, i)
        \/ OnSendLearnValue(n)
        \/ Restart(n)
    BY <1>2 DEF Next
  <2> QED
    BY <2>1, NewValueInv, ProposerTimeoutInv, OnPrepareReplyInv,
       OnAcceptReplyInv, OnExpiredReplyInv, CommitTimeoutInv, OnPrepareInv,
       OnAcceptInv, SelfAcceptInv, OnProposerSendSuccessInv, SendLearnValueInv,
       OnSendLearnValueInv, RestartInv
<1> QED
  BY <1>1, <1>2 DEF vars

(* The invariant holds in every behaviour of a group, with crashes, lost,  *)
(* reordered and duplicated messages, timer expiries and failing writes.   *)
THEOREM InvariantHolds == Spec => []IInv
BY InitInv, NextInv, PTL DEF Spec

(* Every variable and message of the group keeps its type.                 *)
THEOREM TypeCorrect == Spec => []TypeOK
<1>1. IInv => TypeOK
  BY DEF IInv
<1> QED
  BY <1>1, InvariantHolds, PTL

(* No handler ever runs in a state it does not expect: a proposer that     *)
(* prepares or accepts has a value and an instance, an accepted ballot     *)
(* brings its value and is covered by the promise, in memory, in the log   *)
(* (after failed writes and LearnValue's overwrites too) and on the wire.  *)
THEOREM HandlersExpected == Spec => []HandlerInv
<1>1. IInv => HandlerInv
  BY DEF IInv
<1> QED
  BY <1>1, InvariantHolds, PTL

-----------------------------------------------------------------------------
(* Promises.  A promise of an instance that is not executed yet is a       *)
(* promise of the node's own instance, kept in memory and in the log, so   *)
(* that neither a crash nor a failed write of a later one can undo it.     *)
Durable(p) ==
    /\ paxosLog[p[1]][p[2]] # NoRecord
    /\ \/ Executed(p[1], p[2])
       \/ /\ p[2] = instanceID[p[1]]
          /\ BallotGE(promiseBallot[p[1]], p[3])
          /\ BallotGE(paxosLog[p[1]][p[2]].promise, p[3])

DurableInv == \A p \in promises : Durable(p)

(* One node moves: the promises of the others stay durable.                *)
LEMMA DurableFrame ==
    ASSUME IInv, DurableInv, NEW n \in Node, decided \subseteq decided',
           \A x \in Node \ {n} : /\ instanceID'[x] = instanceID[x]
                                 /\ promiseBallot'[x] = promiseBallot[x]
                                 /\ paxosLog'[x] = paxosLog[x],
           \A p \in promises' : p \in promises \/ p[1] = n,
           \A p \in promises' : p[1] = n => Durable(p)',
           IInv'
    PROVE  DurableInv'
<1> SUFFICES ASSUME NEW p \in promises', p[1] # n
             PROVE  Durable(p)'
  BY DEF DurableInv
<1>1. p \in promises /\ p[1] \in Node \ {n}
  BY DEF IInv, TypeOK, HistoryTypeOK
<1>2. Durable(p)
  BY <1>1 DEF DurableInv
<1>3. Executed(p[1], p[2]) => Executed(p[1], p[2])'
  BY DEF Executed
<1> QED
  BY <1>1, <1>2, <1>3 DEF Durable, BallotGE

(* A step that leaves acceptors, instances and promises alone.             *)
LEMMA DurableUnchanged ==
    ASSUME DurableInv, decided \subseteq decided',
           UNCHANGED <<instanceID, promiseBallot, paxosLog, promises>>
    PROVE  DurableInv'
<1> SUFFICES ASSUME NEW p \in promises
             PROVE  Durable(p)'
  BY DEF DurableInv
<1>1. Durable(p)
  BY DEF DurableInv
<1>2. Executed(p[1], p[2]) => Executed(p[1], p[2])'
  BY DEF Executed
<1> QED
  BY <1>1, <1>2 DEF Durable, BallotGE

(* A promise the node makes or repeats in its instance, in memory and, if  *)
(* the write succeeds, in the log.                                         *)
LEMMA DurablePromise ==
    ASSUME IInv, DurableInv, IInv', NEW n \in Node, NEW i \in Instance,
           NEW b \in Ballot, i = instanceID'[n],
           BallotGE(b, promiseBallot[n]), promiseBallot'[n] = b,
           decided \subseteq decided',
           NEW old, old = instanceID[n], i = old \/ Executed(n, old)',
           \A j \in Instance \ {i} : paxosLog'[n][j] = paxosLog[n][j],
           \/ paxosLog'[n][i] = paxosLog[n][i] /\ promises' = promises
           \/ /\ paxosLog'[n][i] # NoRecord /\ paxosLog'[n][i].promise = b
              /\ \/ promises' = promises
                 \/ promises' = promises \cup {<<n, i, b>>},
           NEW p \in promises', p[1] = n
    PROVE  Durable(p)'
<1>1. /\ p[2] \in Instance /\ p[3] \in BallotOrNull
      /\ b \in BallotOrNull /\ promiseBallot[n] \in BallotOrNull
      /\ p \in Node \X Instance \X Ballot
  BY DEF IInv, TypeOK, HistoryTypeOK, AcceptorTypeOK, BallotOrNull
<1>2. Executed(n, p[2]) => Executed(n, p[2])'
  BY DEF Executed
<1>3. CASE p \in promises
  <2>1. Durable(p)
    BY <1>3 DEF DurableInv
  <2>2. paxosLog'[n][p[2]] # NoRecord
    BY <1>1, <2>1 DEF Durable
  <2>3. CASE Executed(n, p[2])
    BY <1>2, <2>2, <2>3 DEF Durable
  <2>4. CASE ~Executed(n, p[2])
    <3>1. /\ p[2] = instanceID[n] /\ BallotGE(promiseBallot[n], p[3])
          /\ BallotGE(paxosLog[n][p[2]].promise, p[3])
      BY <2>1, <2>4 DEF Durable
    <3>2. BallotGE(b, p[3])
      BY <1>1, <3>1, BallotTransitive
    <3>3. CASE i = old
      <4>1. BallotGE(paxosLog'[n][i].promise, p[3])
        BY <3>1, <3>2, <3>3
      <4>2. p[1] = n /\ p[2] = i /\ p[2] = instanceID'[p[1]]
        BY <3>1, <3>3
      <4>3. BallotGE(promiseBallot'[p[1]], p[3])
        BY <3>2, <4>2
      <4>4. BallotGE(paxosLog'[p[1]][p[2]].promise, p[3])
        BY <4>1, <4>2
      <4>5. paxosLog'[p[1]][p[2]] # NoRecord
        BY <2>2, <4>2
      <4> QED
        BY <4>2, <4>3, <4>4, <4>5 DEF Durable, BallotGE
    <3>4. CASE Executed(n, old)'
      BY <2>2, <3>1, <3>4 DEF Durable, Executed
    <3> QED
      BY <3>3, <3>4
  <2> QED
    BY <2>3, <2>4
<1>4. CASE p = <<n, i, b>> /\ p \notin promises
  <2>1. BallotGE(b, b)
    BY <1>1, BallotReflexive
  <2>2. paxosLog'[n][i] # NoRecord /\ paxosLog'[n][i].promise = b
    BY <1>4
  <2> QED
    BY <1>4, <2>1, <2>2 DEF Durable, BallotGE
<1> QED
  BY <1>3, <1>4

(* A step in which n executes its instance, or restarts past it: what is   *)
(* left of its promises is executed.                                       *)
LEMMA DurableExecuted ==
    ASSUME IInv, DurableInv, NEW n \in Node, NEW old, old = instanceID[n],
           Executed(n, old)', decided \subseteq decided', promises' = promises,
           \A j \in Instance : paxosLog[n][j] # NoRecord =>
                                paxosLog'[n][j] # NoRecord,
           NEW p \in promises', p[1] = n
    PROVE  Durable(p)'
<1>1. Durable(p) /\ p[2] \in Instance
  BY DEF DurableInv, IInv, TypeOK, HistoryTypeOK
<1>2. Executed(n, p[2]) => Executed(n, p[2])'
  BY DEF Executed
<1> QED
  BY <1>1, <1>2 DEF Durable, Executed

LEMMA ExecuteExecutes ==
    ASSUME IInv, NEW n \in Node, NEW v \in ValueOrNone, Execute(n, v),
           NEW old, old = instanceID[n]
    PROVE  /\ Executed(n, old)' /\ decided \subseteq decided'
           /\ \A x \in Node \ {n} : instanceID'[x] = instanceID[x]
           /\ instanceID'[n] = old + 1
BY DEF Execute, Executed, IInv, TypeOK, LearnerTypeOK

LEMMA PrepareDurable ==
    ASSUME IInv, DurableInv, IInv', NEW n \in Node, NEW newBallot \in BOOLEAN,
           NEW w \in Value, Prepare(n, newBallot, w), instanceID[n] \in Instance,
           UNCHANGED <<instanceID, decided>>
    PROVE  DurableInv'
<1> DEFINE b == <<NextProposalID(n, newBallot), n>>
<1>1. b \in Ballot
  BY NextProposalIDInNat DEF Ballot
<1> HIDE DEF b
<1>2. CASE SelfPromise(n, b, w)
  <2>1. /\ BallotGE(b, promiseBallot[n]) /\ promiseBallot'[n] = b
        /\ \A x \in Node \ {n} : promiseBallot'[x] = promiseBallot[x]
        /\ promises' = promises \cup {<<n, instanceID[n], b>>}
    BY <1>2 DEF SelfPromise, IInv, TypeOK, AcceptorTypeOK
  <2>2. /\ \A x \in Node \ {n} : paxosLog'[x] = paxosLog[x]
        /\ \A j \in Instance \ {instanceID[n]} : paxosLog'[n][j] = paxosLog[n][j]
        /\ paxosLog'[n][instanceID[n]].promise = b
    BY <1>2 DEF SelfPromise, Persist, IInv, TypeOK, AcceptorTypeOK
  <2>3. paxosLog'[n][instanceID[n]] # NoRecord
    BY <1>1, <1>2, ValueAssumption
    DEF SelfPromise, Persist, Record, BallotOrNull, IInv, TypeOK, AcceptorTypeOK
  <2>4. ASSUME NEW p \in promises', p[1] = n PROVE Durable(p)'
    BY <1>1, <2>1, <2>2, <2>3, <2>4, DurablePromise
  <2> QED
    BY <2>1, <2>2, <2>4, DurableFrame
<1>3. CASE SelfReject(n, b, w)
  BY <1>3, DurableUnchanged DEF SelfReject
<1>4. CASE SelfPromiseNotPersisted(n, b, w)
  <2>1. /\ BallotGE(b, promiseBallot[n]) /\ promiseBallot'[n] = b
        /\ \A x \in Node \ {n} : promiseBallot'[x] = promiseBallot[x]
        /\ promises' = promises /\ paxosLog' = paxosLog
    BY <1>4 DEF SelfPromiseNotPersisted, IInv, TypeOK, AcceptorTypeOK
  <2>2. ASSUME NEW p \in promises', p[1] = n PROVE Durable(p)'
    BY <1>1, <2>1, <2>2, DurablePromise
  <2> QED
    BY <2>1, <2>2, DurableFrame
<1> QED
  BY <1>2, <1>3, <1>4 DEF Prepare, b

LEMMA ExecuteDurable ==
    ASSUME IInv, DurableInv, IInv', NEW n \in Node, NEW v \in ValueOrNone,
           Execute(n, v), promises' = promises,
           \A x \in Node \ {n} : /\ promiseBallot'[x] = promiseBallot[x]
                                 /\ paxosLog'[x] = paxosLog[x],
           \A j \in Instance : paxosLog[n][j] # NoRecord =>
                                paxosLog'[n][j] # NoRecord
    PROVE  DurableInv'
<1>1. PICK old : old = instanceID[n]
  OBVIOUS
<1>2. /\ Executed(n, old)' /\ decided \subseteq decided'
      /\ \A x \in Node \ {n} : instanceID'[x] = instanceID[x]
  BY <1>1, ExecuteExecutes
<1>3. \A p \in promises' : p[1] = n => Durable(p)'
  BY <1>1, <1>2, DurableExecuted
<1> QED
  BY <1>2, <1>3, DurableFrame

LEMMA EnterInstanceExecutes ==
    ASSUME IInv, NEW n \in Node, NEW m \in Message, EnterInstanceOf(n, m),
           NEW old, old = instanceID[n]
    PROVE  /\ decided \subseteq decided'
           /\ \A x \in Node \ {n} : instanceID'[x] = instanceID[x]
           /\ instanceID'[n] = m.inst
           /\ m.inst = old \/ Executed(n, old)'
<1>1. CASE m.inst = instanceID[n] /\ UNCHANGED learnVars
  BY <1>1 DEF learnVars
<1>2. CASE SkipsSuccess(n, m) /\ Execute(n, acceptedValue[n])
  <2>1. acceptedValue[n] \in ValueOrNone
    BY DEF IInv, TypeOK, AcceptorTypeOK
  <2> QED
    BY <1>2, <2>1, ExecuteExecutes DEF SkipsSuccess
<1> QED
  BY <1>1, <1>2 DEF EnterInstanceOf

(* What the acceptor promises or accepts at n, by a message of a peer or   *)
(* by the proposer of n, when the ballot b passes.                         *)
LEMMA PassDurable ==
    ASSUME IInv, DurableInv, IInv', NEW n \in Node, NEW i \in Instance,
           NEW b \in Ballot, NEW a \in BallotOrNull, NEW v \in ValueOrNone,
           NEW old, old = instanceID[n], i = old \/ Executed(n, old)',
           decided \subseteq decided', instanceID'[n] = i,
           \A x \in Node \ {n} : instanceID'[x] = instanceID[x],
           BallotGE(b, promiseBallot[n]), SetAcceptor(n, b, a, v),
           \/ UNCHANGED <<paxosLog, promises>>
           \/ /\ Persist(n, i, b, a, v)
              /\ \/ promises' = promises
                 \/ promises' = promises \cup {<<n, i, b>>}
    PROVE  DurableInv'
<1>1. /\ promiseBallot'[n] = b
      /\ \A x \in Node \ {n} : promiseBallot'[x] = promiseBallot[x]
  BY DEF SetAcceptor, IInv, TypeOK, AcceptorTypeOK
<1>2. CASE UNCHANGED <<paxosLog, promises>>
  <2>1. \A p \in promises' : p[1] = n => Durable(p)'
    BY <1>1, <1>2, DurablePromise
  <2> QED
    BY <1>1, <1>2, <2>1, DurableFrame
<1>3. CASE /\ Persist(n, i, b, a, v)
           /\ \/ promises' = promises
              \/ promises' = promises \cup {<<n, i, b>>}
  <2>1. /\ \A x \in Node \ {n} : paxosLog'[x] = paxosLog[x]
        /\ \A j \in Instance \ {i} : paxosLog'[n][j] = paxosLog[n][j]
        /\ paxosLog'[n][i] = [promise |-> b, accepted |-> a, value |-> v]
    BY <1>3 DEF Persist, IInv, TypeOK, AcceptorTypeOK
  <2>2. paxosLog'[n][i].promise = b /\ paxosLog'[n][i] # NoRecord
    <3>1. [promise |-> b, accepted |-> a, value |-> v] \in Record
      BY DEF Record, BallotOrNull
    <3> QED
      BY <2>1, <3>1, ValueAssumption
  <2>3. promises' = promises \/ promises' = promises \cup {<<n, i, b>>}
    BY <1>3
  <2>4. ASSUME NEW p \in promises', p[1] = n PROVE Durable(p)'
    BY <1>1, <2>1, <2>2, <2>3, <2>4, DurablePromise
  <2>5. \A p \in promises' : p \in promises \/ p[1] = n
    BY <2>3
  <2> QED
    BY <1>1, <2>1, <2>4, <2>5, DurableFrame
<1> QED
  BY <1>2, <1>3

(* The acceptor rejects a ballot, in its instance or in the next one.      *)
LEMMA RejectDurable ==
    ASSUME IInv, DurableInv, IInv', NEW n \in Node, NEW i,
           NEW old, old = instanceID[n], i = old \/ Executed(n, old)',
           decided \subseteq decided', instanceID'[n] = i,
           \A x \in Node \ {n} : instanceID'[x] = instanceID[x],
           NEW a, NEW v, SetAcceptor(n, promiseBallot[n], a, v),
           UNCHANGED <<paxosLog, promises>>
    PROVE  DurableInv'
<1>1. promiseBallot' = promiseBallot
  BY DEF SetAcceptor, IInv, TypeOK, AcceptorTypeOK
<1>2. CASE i = old
  <2>1. instanceID' = instanceID
    BY <1>2 DEF IInv, TypeOK, LearnerTypeOK
  <2> QED
    BY <1>1, <2>1, DurableUnchanged
<1>3. CASE Executed(n, old)'
  <2>1. \A p \in promises' : p[1] = n => Durable(p)'
    BY <1>3, DurableExecuted
  <2> QED
    BY <1>1, <2>1, DurableFrame
<1> QED
  BY <1>2, <1>3

LEMMA OnPrepareDurable ==
    ASSUME IInv, DurableInv, IInv', NEW n \in Node, OnPrepare(n)
    PROVE  DurableInv'
<1>1. PICK m \in Inbox(n, {"prepare"}) :
        /\ EnterInstanceOf(n, m)
        /\ \/ /\ BallotGE(m.bal, promiseBallot[n])
              /\ SetAcceptor(n, m.bal, AcceptedIn(n, m).bal,
                             AcceptedIn(n, m).value)
              /\ \/ /\ Persist(n, m.inst, m.bal, AcceptedIn(n, m).bal,
                               AcceptedIn(n, m).value)
                    /\ promises' = promises \cup {<<n, m.inst, m.bal>>}
                 \/ UNCHANGED <<paxosLog, promises>>
           \/ /\ SetAcceptor(n, promiseBallot[n], AcceptedIn(n, m).bal,
                             AcceptedIn(n, m).value)
              /\ UNCHANGED <<paxosLog, promises>>
        /\ UNCHANGED <<proposalID, preAcceptBallot, canSkipPrepare, wasReject>>
  BY DEF OnPrepare
<1>2. m \in Message /\ m.inst \in Instance /\ m.bal \in Ballot
  BY InboxFields, MessageFields
<1>3. AcceptedIn(n, m).bal \in BallotOrNull /\ AcceptedIn(n, m).value \in ValueOrNone
  BY <1>1, <1>2, EnterInstanceInv
<1>4. PICK old : old = instanceID[n]
  OBVIOUS
<1>5. /\ decided \subseteq decided'
      /\ \A x \in Node \ {n} : instanceID'[x] = instanceID[x]
      /\ instanceID'[n] = m.inst
      /\ m.inst = old \/ Executed(n, old)'
  BY <1>1, <1>2, <1>4, EnterInstanceExecutes
<1>6. CASE BallotGE(m.bal, promiseBallot[n])
           /\ SetAcceptor(n, m.bal, AcceptedIn(n, m).bal, AcceptedIn(n, m).value)
  BY <1>1, <1>2, <1>3, <1>4, <1>5, <1>6, PassDurable
<1>7. CASE /\ SetAcceptor(n, promiseBallot[n], AcceptedIn(n, m).bal,
                          AcceptedIn(n, m).value)
           /\ UNCHANGED <<paxosLog, promises>>
  BY <1>4, <1>5, <1>7, RejectDurable
<1> QED
  BY <1>1, <1>6, <1>7

LEMMA OnAcceptDurable ==
    ASSUME IInv, DurableInv, IInv', NEW n \in Node, OnAccept(n)
    PROVE  DurableInv'
<1>1. PICK m \in Inbox(n, {"accept"}) :
        /\ EnterInstanceOf(n, m)
        /\ \/ AcceptPasses(n, m.inst, m.bal, m.value)
           \/ AcceptNotPersisted(n, m.bal, m.value)
           \/ /\ SetAcceptor(n, promiseBallot[n], AcceptedIn(n, m).bal,
                             AcceptedIn(n, m).value)
              /\ UNCHANGED paxosLog
        /\ UNCHANGED <<proposalID, preAcceptBallot, canSkipPrepare, wasReject,
                       promises>>
  BY DEF OnAccept
<1>2. /\ m \in Message /\ m.inst \in Instance
      /\ m.bal \in Ballot /\ m.value \in Value
  BY InboxFields, MessageFields
<1>3. m.bal \in BallotOrNull /\ m.value \in ValueOrNone
  BY <1>2 DEF BallotOrNull, ValueOrNone
<1>4. PICK old : old = instanceID[n]
  OBVIOUS
<1>5. /\ decided \subseteq decided'
      /\ \A x \in Node \ {n} : instanceID'[x] = instanceID[x]
      /\ instanceID'[n] = m.inst
      /\ m.inst = old \/ Executed(n, old)'
  BY <1>1, <1>2, <1>4, EnterInstanceExecutes
<1>6. CASE \/ AcceptPasses(n, m.inst, m.bal, m.value)
           \/ AcceptNotPersisted(n, m.bal, m.value)
  <2>1. /\ BallotGE(m.bal, promiseBallot[n])
        /\ SetAcceptor(n, m.bal, m.bal, m.value)
        /\ \/ UNCHANGED paxosLog
           \/ Persist(n, m.inst, m.bal, m.bal, m.value)
    BY <1>6 DEF AcceptPasses, AcceptNotPersisted
  <2> QED
    BY <1>1, <1>2, <1>3, <1>4, <1>5, <2>1, PassDurable
<1>7. CASE /\ SetAcceptor(n, promiseBallot[n], AcceptedIn(n, m).bal,
                          AcceptedIn(n, m).value)
           /\ UNCHANGED paxosLog
  <2>1. AcceptedIn(n, m).bal \in BallotOrNull
    BY <1>1, <1>2, EnterInstanceInv
  <2> QED
    BY <1>1, <1>4, <1>5, <1>7, RejectDurable
<1> QED
  BY <1>1, <1>6, <1>7

LEMMA SelfAcceptDurable ==
    ASSUME IInv, DurableInv, IInv', NEW n \in Node, SelfAccept(n)
    PROVE  DurableInv'
<1>1. PICK b : b = <<proposalID[n], n>>
  OBVIOUS
<1>2. PICK old : old = instanceID[n]
  OBVIOUS
<1>3. PICK v : v = value[n]
  OBVIOUS
<1>4. /\ b \in Ballot /\ b \in BallotOrNull
      /\ old \in Instance /\ v \in ValueOrNone
  BY <1>1, <1>2, <1>3, BoundAssumption
  DEF IInv, TypeOK, HandlerInv, SelfAccept, ProposerReady, ProposerTypeOK,
      LearnerTypeOK, Ballot, BallotOrNull, Instance
<1>5. /\ \/ AcceptPasses(n, old, b, v)
         \/ AcceptNotPersisted(n, b, v)
         \/ UNCHANGED acceptorVars
      /\ UNCHANGED <<learnVars, promises>>
  BY <1>1, <1>2, <1>3 DEF SelfAccept
<1>6. UNCHANGED <<instanceID, decided>>
  BY <1>5 DEF learnVars
<1>7. CASE UNCHANGED acceptorVars
  BY <1>5, <1>6, <1>7, DurableUnchanged DEF acceptorVars
<1>8. CASE AcceptPasses(n, old, b, v) \/ AcceptNotPersisted(n, b, v)
  <2>1. /\ BallotGE(b, promiseBallot[n])
        /\ SetAcceptor(n, b, b, v)
        /\ \/ UNCHANGED paxosLog
           \/ Persist(n, old, b, b, v)
    BY <1>8 DEF AcceptPasses, AcceptNotPersisted
  <2> QED
    BY <1>2, <1>4, <1>5, <1>6, <2>1, PassDurable
<1> QED
  BY <1>5, <1>7, <1>8

LEMMA LearnDurable ==
    ASSUME IInv, DurableInv, IInv', NEW n \in Node,
           OnAcceptReply(n) \/ OnProposerSendSuccess(n) \/ OnSendLearnValue(n)
    PROVE  DurableInv'
<1> USE DEF IInv, TypeOK, AcceptorTypeOK
<1>1. ASSUME NEW v \in ValueOrNone, Execute(n, v),
             SetAcceptor(n, promiseBallot[n], NullBallot, None),
             UNCHANGED <<paxosLog, promises>>
      PROVE  DurableInv'
  BY <1>1, ExecuteDurable DEF SetAcceptor
<1>2. CASE OnAcceptReply(n)
  <2>1. UNCHANGED <<paxosLog, promises>>
    BY <1>2 DEF OnAcceptReply, acceptorVars, historyVars, passVars
  <2>2. \/ /\ Execute(n, acceptedValue[n])
           /\ SetAcceptor(n, promiseBallot[n], NullBallot, None)
        \/ UNCHANGED <<instanceID, decided, promiseBallot>>
    BY <1>2 DEF OnAcceptReply, acceptorVars, learnVars
  <2>3. PICK v \in ValueOrNone : v = acceptedValue[n]
    OBVIOUS
  <2> QED
    BY <1>1, <2>1, <2>2, <2>3, DurableUnchanged
<1>3. CASE OnProposerSendSuccess(n)
  <2>1. /\ Execute(n, acceptedValue[n])
        /\ SetAcceptor(n, promiseBallot[n], NullBallot, None)
        /\ UNCHANGED <<paxosLog, promises>>
    BY <1>3 DEF OnProposerSendSuccess, historyVars, passVars
  <2>2. PICK v \in ValueOrNone : v = acceptedValue[n]
    OBVIOUS
  <2> QED
    BY <1>1, <2>1, <2>2
<1>4. CASE OnSendLearnValue(n)
  <2>1. PICK m \in Inbox(n, {"learn"}) :
          /\ Persist(n, m.inst, m.bal, m.bal, m.value)
          /\ Execute(n, m.value)
          /\ SetAcceptor(n, promiseBallot[n], NullBallot, None)
          /\ UNCHANGED promises
    BY <1>4 DEF OnSendLearnValue, historyVars, passVars
  <2>2. m.value \in ValueOrNone /\ m.bal \in BallotOrNull /\ m.inst \in Instance
    BY InboxFields, MessageFields
  <2>3. [promise |-> m.bal, accepted |-> m.bal, value |-> m.value] # NoRecord
    BY <2>2, ValueAssumption DEF Record
  <2>4. /\ \A x \in Node \ {n} : paxosLog'[x] = paxosLog[x]
        /\ \A j \in Instance : paxosLog[n][j] # NoRecord =>
                                paxosLog'[n][j] # NoRecord
    BY <2>1, <2>2, <2>3 DEF Persist
  <2>5. \A x \in Node \ {n} : promiseBallot'[x] = promiseBallot[x]
    BY <2>1 DEF SetAcceptor
  <2> QED
    BY <2>1, <2>2, <2>4, <2>5, ExecuteDurable
<1> QED
  BY <1>2, <1>3, <1>4

(* Instance::Init loads the last record, which no open promise is behind.  *)
LEMMA RestartDurable ==
    ASSUME IInv, DurableInv, IInv', NEW n \in Node, Restart(n)
    PROVE  DurableInv'
<1> USE DEF IInv, TypeOK, AcceptorTypeOK
<1>1. UNCHANGED <<paxosLog, promises>>
  BY DEF Restart, passVars
<1>2. ASSUME NEW last, NEW r, Load(n, last, r)
      PROVE  /\ decided \subseteq decided' /\ Replayed(n, last) \subseteq decided'
             /\ instanceID'[n] = last /\ promiseBallot'[n] = r.promise
             /\ \A x \in Node \ {n} : /\ instanceID'[x] = instanceID[x]
                                      /\ promiseBallot'[x] = promiseBallot[x]
  BY <1>2 DEF Load, SetAcceptor, LearnerTypeOK
<1>3. \A p \in promises : p[1] = n => p[2] \in Logged(n)
  BY DEF DurableInv, Durable, Logged, HistoryTypeOK
<1>4. CASE Logged(n) = {} /\ Load(n, 0, EmptyState)
  <2>1. \A p \in promises' : p[1] = n => Durable(p)'
    BY <1>1, <1>3, <1>4
  <2> QED
    BY <1>1, <1>2, <1>4, <2>1, DurableFrame
<1>5. ASSUME NEW last \in Logged(n), \A i \in Logged(n) : i <= last,
             Load(n, last, paxosLog[n][last])
      PROVE  DurableInv'
  <2>1. PICK r : r = paxosLog[n][last]
    OBVIOUS
  <2>2. /\ decided \subseteq decided' /\ Replayed(n, last) \subseteq decided'
        /\ instanceID'[n] = last /\ promiseBallot'[n] = r.promise
        /\ \A x \in Node \ {n} : /\ instanceID'[x] = instanceID[x]
                                 /\ promiseBallot'[x] = promiseBallot[x]
    BY <1>2, <1>5, <2>1
  <2>3. ASSUME NEW p \in promises', p[1] = n
        PROVE  Durable(p)'
    <3>1. p \in promises /\ Durable(p) /\ p[2] \in Logged(n) /\ p[2] <= last
      BY <1>1, <1>3, <1>5, <2>3 DEF DurableInv
    <3>2. paxosLog'[n][p[2]] # NoRecord
      BY <1>1, <3>1 DEF Logged
    <3>3. CASE p[2] = last
      <4>1. CASE Executed(n, p[2])
        BY <2>2, <2>3, <3>2, <4>1 DEF Durable, Executed
      <4>2. CASE ~Executed(n, p[2])
        <5>1. BallotGE(r.promise, p[3])
          BY <2>1, <2>3, <3>1, <3>3, <4>2 DEF Durable
        <5>2. /\ BallotGE(promiseBallot'[n], p[3])
              /\ BallotGE(paxosLog'[n][p[2]].promise, p[3])
          BY <1>1, <2>1, <2>2, <3>3, <5>1
        <5> QED
          BY <2>2, <2>3, <3>2, <3>3, <5>2 DEF Durable, BallotGE
      <4> QED
        BY <4>1, <4>2
    <3>4. CASE p[2] # last
      <4>1. p[2] \in 0 .. last - 1
        BY <3>1, <3>4 DEF Logged, Instance
      <4>2. paxosLog[n][p[2]].value \in ValueOrNone
        BY <3>1 DEF Logged, Record
      <4>3. <<n, p[2], paxosLog[n][p[2]].value>> \in decided'
        BY <2>2, <4>1 DEF Replayed
      <4>4. Executed(n, p[2])'
        BY <4>2, <4>3 DEF Executed
      <4> QED
        BY <2>3, <3>2, <4>4 DEF Durable
    <3> QED
      BY <3>3, <3>4
  <2> QED
    BY <1>1, <2>2, <2>3, DurableFrame
<1> QED
  BY <1>4, <1>5 DEF Restart

LEMMA NextDurable == IInv /\ IInv' /\ DurableInv /\ [Next]_vars => DurableInv'
<1> SUFFICES ASSUME IInv, IInv', DurableInv, [Next]_vars PROVE DurableInv'
  OBVIOUS
<1>1. CASE UNCHANGED vars
  BY <1>1, DurableUnchanged
  DEF vars, learnVars, acceptorVars, historyVars, passVars
<1>2. ASSUME NEW n \in Node, NEW v \in Value, NewValue(n, v) PROVE DurableInv'
  <2>1. PICK w \in Value : w = ValueToPropose(n, v)
    BY DEF ValueToPropose, IInv, TypeOK, ProposerTypeOK, ValueOrNone
  <2>2. PICK new \in BOOLEAN : new = wasReject[n]
    BY DEF IInv, TypeOK, ProposerTypeOK
  <2>3. instanceID[n] \in Instance /\ UNCHANGED <<instanceID, decided>>
    BY <1>2, BoundAssumption
    DEF NewValue, IInv, TypeOK, LearnerTypeOK, Instance
  <2>4. Prepare(n, new, w) \/ UNCHANGED <<acceptorVars, passVars>>
    BY <1>2, <2>1, <2>2 DEF NewValue
  <2> QED
    BY <2>3, <2>4, PrepareDurable, DurableUnchanged DEF acceptorVars, passVars
<1>3. ASSUME NEW n \in Node, ProposerTimeout(n) PROVE DurableInv'
  <2>1. PICK w \in Value : w = value[n]
    BY <1>3
    DEF ProposerTimeout, IInv, TypeOK, HandlerInv, ProposerReady,
        ProposerTypeOK, ValueOrNone
  <2>2. PICK new \in BOOLEAN : new = wasReject[n]
    BY DEF IInv, TypeOK, ProposerTypeOK
  <2>3. instanceID[n] \in Instance
    BY <1>3, BoundAssumption
    DEF ProposerTimeout, IInv, TypeOK, HandlerInv, ProposerReady,
        LearnerTypeOK, Instance
  <2>4. Prepare(n, new, w) /\ UNCHANGED <<instanceID, decided>>
    BY <1>3, <2>1, <2>2 DEF ProposerTimeout, learnVars
  <2> QED
    BY <2>3, <2>4, PrepareDurable
<1>4. ASSUME NEW n \in Node,
             \/ OnPrepareReply(n) \/ OnExpiredReply(n) \/ CommitTimeout(n)
             \/ \E to \in Node, i \in Instance : SendLearnValue(n, to, i)
      PROVE  DurableInv'
  BY <1>4, DurableUnchanged
  DEF OnPrepareReply, OnExpiredReply, CommitTimeout, SendLearnValue, learnVars,
      acceptorVars, historyVars, passVars
<1> QED
  BY <1>1, <1>2, <1>3, <1>4, OnPrepareDurable, OnAcceptDurable,
     SelfAcceptDurable, LearnDurable, RestartDurable DEF Next

LEMMA DurableHolds == Spec => [](IInv /\ DurableInv)
<1>1. Init => IInv /\ DurableInv
  BY InitInv DEF Init, DurableInv
<1>2. IInv /\ DurableInv /\ [Next]_vars => IInv' /\ DurableInv'
  BY NextInv, NextDurable
<1> QED
  BY <1>1, <1>2, PTL DEF Spec

(* Only an accept that passes the acceptor of n votes, in the instance the *)
(* node is in or moves to, and in a ballot its promise allows.             *)
LEMMA VotesPass ==
    ASSUME IInv, Next, NEW vt \in votes' \ votes
    PROVE  /\ vt[1] \in Node /\ vt[3] \in Ballot
           /\ BallotGE(vt[3], promiseBallot[vt[1]])
           /\ vt[2] = instanceID[vt[1]] \/ vt[2] = instanceID[vt[1]] + 1
<1>1. ASSUME NEW n \in Node,
             \/ \E v \in Value : NewValue(n, v)
             \/ ProposerTimeout(n)
      PROVE  votes' = votes
  BY <1>1 DEF NewValue, ProposerTimeout, Prepare, passVars
<1>2. PICK n \in Node : OnAccept(n) \/ SelfAccept(n)
  <2>1. ASSUME NEW n \in Node,
               \/ OnPrepareReply(n) \/ OnAcceptReply(n) \/ OnExpiredReply(n)
               \/ CommitTimeout(n) \/ OnPrepare(n)
               \/ OnProposerSendSuccess(n) \/ OnSendLearnValue(n)
               \/ \E to \in Node, i \in Instance : SendLearnValue(n, to, i)
               \/ Restart(n)
        PROVE  votes' = votes
    BY <2>1
    DEF OnPrepareReply, OnAcceptReply, OnExpiredReply, CommitTimeout, OnPrepare,
        OnProposerSendSuccess, SendLearnValue, OnSendLearnValue, Restart,
        historyVars, passVars
  <2>2. PICK n \in Node :
          \/ OnAccept(n) \/ SelfAccept(n)
          \/ (\E v \in Value : NewValue(n, v)) \/ ProposerTimeout(n)
          \/ OnPrepareReply(n) \/ OnAcceptReply(n) \/ OnExpiredReply(n)
          \/ CommitTimeout(n) \/ OnPrepare(n)
          \/ OnProposerSendSuccess(n) \/ OnSendLearnValue(n)
          \/ (\E to \in Node, i \in Instance : SendLearnValue(n, to, i))
          \/ Restart(n)
    BY DEF Next
  <2>3. votes' # votes
    OBVIOUS
  <2>4. OnAccept(n) \/ SelfAccept(n)
    BY <1>1, <2>1, <2>2, <2>3
  <2> QED
    BY <2>4
<1>3. CASE OnAccept(n)
  <2>1. PICK m \in Inbox(n, {"accept"}) :
          EnterInstanceOf(n, m) /\ AcceptPasses(n, m.inst, m.bal, m.value)
    BY <1>3 DEF OnAccept, AcceptNotPersisted
  <2>2. m.bal \in Ballot
    BY InboxFields, MessageFields
  <2>3. vt = <<n, m.inst, m.bal, m.value>>
    BY <2>1 DEF AcceptPasses
  <2> QED
    BY <2>1, <2>2, <2>3 DEF AcceptPasses, EnterInstanceOf, SkipsSuccess
<1>4. CASE SelfAccept(n)
  <2>1. AcceptPasses(n, instanceID[n], <<proposalID[n], n>>, value[n])
    BY <1>4 DEF SelfAccept, AcceptNotPersisted
  <2>2. <<proposalID[n], n>> \in Ballot
    BY DEF IInv, TypeOK, ProposerTypeOK, Ballot
  <2>3. vt = <<n, instanceID[n], <<proposalID[n], n>>, value[n]>>
    BY <2>1 DEF AcceptPasses
  <2> QED
    BY <2>1, <2>2, <2>3 DEF AcceptPasses
<1> QED
  BY <1>2, <1>3, <1>4

(* In every behaviour, with crashes and failed writes, an acceptor keeps   *)
(* its promise of an instance until it has executed it.                    *)
THEOREM PromiseSurvives == Spec => PromiseDurable
<1>1. IInv /\ DurableInv /\ [Next]_vars =>
        [\A vt \in votes' \ votes : \A p \in promises :
            p[1] = vt[1] /\ p[2] = vt[2] /\ ~Executed(p[1], p[2])
              => BallotGE(vt[3], p[3])]_vars
  <2> SUFFICES ASSUME IInv, DurableInv, Next, NEW vt \in votes' \ votes,
                      NEW p \in promises, p[1] = vt[1], p[2] = vt[2],
                      ~Executed(p[1], p[2])
               PROVE  BallotGE(vt[3], p[3])
    OBVIOUS
  <2>1. /\ BallotGE(vt[3], promiseBallot[vt[1]])
        /\ vt[1] \in Node /\ vt[3] \in BallotOrNull
    BY VotesPass DEF BallotOrNull
  <2>2. BallotGE(promiseBallot[vt[1]], p[3])
    BY DEF DurableInv, Durable
  <2>3. p[3] \in BallotOrNull /\ promiseBallot[vt[1]] \in BallotOrNull
    BY <2>1 DEF IInv, TypeOK, HistoryTypeOK, AcceptorTypeOK, BallotOrNull
  <2> QED
    BY <2>1, <2>2, <2>3, BallotTransitive
<1> QED
  BY <1>1, DurableHolds, PTL DEF Spec, PromiseDurable

-----------------------------------------------------------------------------
(* Without restarts a promise only grows, from one instance to the next.   *)
PromisesHeld == \A p \in promises : BallotGE(promiseBallot[p[1]], p[3])

(* What one handler does to the promise of its node.                       *)
LEMMA PromiseMoves ==
    ASSUME IInv, Next, RestartNodes = {}
    PROVE  \E n \in Node :
             /\ \A x \in Node \ {n} : promiseBallot'[x] = promiseBallot[x]
             /\ \/ promiseBallot' = promiseBallot
                \/ BallotGE(promiseBallot'[n], promiseBallot[n])
             /\ \A p \in promises' \ promises :
                    p[1] = n /\ p[3] = promiseBallot'[n]
<1> USE DEF IInv, TypeOK, AcceptorTypeOK
<1> DEFINE Moves(n) ==
             /\ \A x \in Node \ {n} : promiseBallot'[x] = promiseBallot[x]
             /\ \/ promiseBallot' = promiseBallot
                \/ BallotGE(promiseBallot'[n], promiseBallot[n])
             /\ \A p \in promises' \ promises :
                    p[1] = n /\ p[3] = promiseBallot'[n]
<1>1. PICK n \in Node :
        \/ OnAccept(n) \/ SelfAccept(n)
        \/ (\E v \in Value : NewValue(n, v)) \/ ProposerTimeout(n)
        \/ OnPrepareReply(n) \/ OnAcceptReply(n) \/ OnExpiredReply(n)
        \/ CommitTimeout(n) \/ OnPrepare(n)
        \/ OnProposerSendSuccess(n) \/ OnSendLearnValue(n)
        \/ (\E to \in Node, i \in Instance : SendLearnValue(n, to, i))
        \/ Restart(n)
  BY DEF Next
<1>2. ~Restart(n)
  BY DEF Restart
<1>3. ASSUME NEW b, BallotGE(b, promiseBallot[n]),
             promiseBallot' = [promiseBallot EXCEPT ![n] = b],
             NEW i, promises' = promises \/ promises' = promises \cup {<<n, i, b>>}
      PROVE  Moves(n)
  BY <1>3
<1>4. ASSUME UNCHANGED <<promiseBallot, promises>> PROVE Moves(n)
  BY <1>4
<1>5. ASSUME NEW a, NEW v, SetAcceptor(n, promiseBallot[n], a, v),
             UNCHANGED promises
      PROVE  Moves(n)
  BY <1>5 DEF SetAcceptor
<1>6. ASSUME NEW newBallot \in BOOLEAN, NEW w, Prepare(n, newBallot, w)
      PROVE  Moves(n)
  <2>1. PICK b : b = <<NextProposalID(n, newBallot), n>>
    OBVIOUS
  <2>2. PICK i : i = instanceID[n]
    OBVIOUS
  <2>3. SelfPromise(n, b, w) \/ SelfReject(n, b, w) \/ SelfPromiseNotPersisted(n, b, w)
    BY <1>6, <2>1 DEF Prepare
  <2>4. CASE SelfPromise(n, b, w)
    BY <1>3, <2>2, <2>4 DEF SelfPromise
  <2>5. CASE SelfReject(n, b, w)
    BY <1>4, <2>5 DEF SelfReject
  <2>6. CASE SelfPromiseNotPersisted(n, b, w)
    BY <1>3, <2>6 DEF SelfPromiseNotPersisted
  <2> QED
    BY <2>3, <2>4, <2>5, <2>6
<1>7. ASSUME \/ \E v \in Value : NewValue(n, v)
             \/ ProposerTimeout(n)
      PROVE  Moves(n)
  <2>1. PICK new \in BOOLEAN : new = wasReject[n]
    BY DEF ProposerTypeOK
  <2>2. CASE ProposerTimeout(n)
    <3>1. PICK w : w = value[n]
      OBVIOUS
    <3> QED
      BY <1>6, <2>1, <2>2, <3>1 DEF ProposerTimeout
  <2>3. ASSUME NEW v \in Value, NewValue(n, v) PROVE Moves(n)
    <3>1. PICK w : w = ValueToPropose(n, v)
      OBVIOUS
    <3>2. Prepare(n, new, w) \/ UNCHANGED <<promiseBallot, promises>>
      BY <2>1, <2>3, <3>1 DEF NewValue, acceptorVars, passVars
    <3> QED
      BY <1>4, <1>6, <3>2
  <2> QED
    BY <1>7, <2>2, <2>3
<1>8. ASSUME OnPrepare(n) PROVE Moves(n)
  <2>1. PICK m \in Inbox(n, {"prepare"}) :
          \/ /\ BallotGE(m.bal, promiseBallot[n])
             /\ SetAcceptor(n, m.bal, AcceptedIn(n, m).bal,
                            AcceptedIn(n, m).value)
             /\ \/ promises' = promises \cup {<<n, m.inst, m.bal>>}
                \/ UNCHANGED promises
          \/ /\ SetAcceptor(n, promiseBallot[n], AcceptedIn(n, m).bal,
                            AcceptedIn(n, m).value)
             /\ UNCHANGED promises
    BY <1>8 DEF OnPrepare
  <2>2. PICK acc : acc = AcceptedIn(n, m)
    OBVIOUS
  <2>3. CASE /\ SetAcceptor(n, promiseBallot[n], acc.bal, acc.value)
             /\ UNCHANGED promises
    BY <1>5, <2>3
  <2>4. CASE /\ BallotGE(m.bal, promiseBallot[n])
             /\ SetAcceptor(n, m.bal, acc.bal, acc.value)
             /\ \/ promises' = promises \cup {<<n, m.inst, m.bal>>}
                \/ UNCHANGED promises
    BY <1>3, <2>4 DEF SetAcceptor
  <2> QED
    BY <2>1, <2>2, <2>3, <2>4
<1>9. ASSUME NEW i, NEW b, NEW v,
             AcceptPasses(n, i, b, v) \/ AcceptNotPersisted(n, b, v),
             UNCHANGED promises
      PROVE  Moves(n)
  BY <1>3, <1>9 DEF AcceptPasses, AcceptNotPersisted, SetAcceptor
<1>10. ASSUME OnAccept(n) PROVE Moves(n)
  <2>1. PICK m \in Inbox(n, {"accept"}) :
          /\ \/ AcceptPasses(n, m.inst, m.bal, m.value)
             \/ AcceptNotPersisted(n, m.bal, m.value)
             \/ SetAcceptor(n, promiseBallot[n], AcceptedIn(n, m).bal,
                            AcceptedIn(n, m).value)
          /\ UNCHANGED promises
    BY <1>10 DEF OnAccept
  <2>2. PICK acc : acc = AcceptedIn(n, m)
    OBVIOUS
  <2> QED
    BY <1>5, <1>9, <2>1, <2>2
<1>11. ASSUME SelfAccept(n) PROVE Moves(n)
  <2>1. PICK b : b = <<proposalID[n], n>>
    OBVIOUS
  <2>2. PICK i : i = instanceID[n]
    OBVIOUS
  <2>3. PICK v : v = value[n]
    OBVIOUS
  <2>4. /\ \/ AcceptPasses(n, i, b, v)
           \/ AcceptNotPersisted(n, b, v)
           \/ UNCHANGED promiseBallot
        /\ UNCHANGED promises
    BY <1>11, <2>1, <2>2, <2>3 DEF SelfAccept, acceptorVars
  <2> QED
    BY <1>4, <1>9, <2>4
<1>12. ASSUME OnAcceptReply(n) \/ OnProposerSendSuccess(n) \/ OnSendLearnValue(n)
       PROVE  Moves(n)
  <2>1. UNCHANGED promises
    BY <1>12 DEF OnAcceptReply, OnProposerSendSuccess, OnSendLearnValue,
                 historyVars, passVars
  <2>2. \/ SetAcceptor(n, promiseBallot[n], NullBallot, None)
        \/ UNCHANGED promiseBallot
    BY <1>12 DEF OnAcceptReply, OnProposerSendSuccess, OnSendLearnValue,
                 acceptorVars
  <2>3. CASE SetAcceptor(n, promiseBallot[n], NullBallot, None)
    BY <1>5, <2>1, <2>3
  <2> QED
    BY <1>4, <2>1, <2>2, <2>3
<1>13. ASSUME \/ OnPrepareReply(n) \/ OnExpiredReply(n) \/ CommitTimeout(n)
              \/ \E to \in Node, i \in Instance : SendLearnValue(n, to, i)
       PROVE  Moves(n)
  BY <1>4, <1>13
  DEF OnPrepareReply, OnExpiredReply, CommitTimeout, SendLearnValue,
      acceptorVars, historyVars, passVars
<1> HIDE DEF Moves
<1>14. Moves(n)
  BY <1>1, <1>2, <1>7, <1>8, <1>10, <1>11, <1>12, <1>13
<1> QED
  BY <1>14 DEF Moves

LEMMA PromisesHeldStep ==
    ASSUME RestartNodes = {}, IInv, IInv', PromisesHeld, [Next]_vars
    PROVE  PromisesHeld'
<1>1. CASE UNCHANGED vars
  BY <1>1 DEF vars, acceptorVars, historyVars, passVars, PromisesHeld, BallotGE
<1>2. CASE Next
  <2>1. PICK n \in Node :
          /\ \A x \in Node \ {n} : promiseBallot'[x] = promiseBallot[x]
          /\ \/ promiseBallot' = promiseBallot
             \/ BallotGE(promiseBallot'[n], promiseBallot[n])
          /\ \A p \in promises' \ promises :
                 p[1] = n /\ p[3] = promiseBallot'[n]
    BY <1>2, PromiseMoves
  <2>2. ASSUME NEW p \in promises'
        PROVE  BallotGE(promiseBallot'[p[1]], p[3])
    <3>1. /\ p[1] \in Node /\ p[3] \in BallotOrNull
          /\ promiseBallot'[p[1]] \in BallotOrNull
          /\ promiseBallot[p[1]] \in BallotOrNull
      BY DEF IInv, TypeOK, AcceptorTypeOK, HistoryTypeOK, BallotOrNull
    <3>2. CASE p \notin promises
      BY <2>1, <3>1, <3>2, BallotReflexive
    <3>3. CASE p \in promises
      <4>1. BallotGE(promiseBallot[p[1]], p[3])
        BY <3>3 DEF PromisesHeld
      <4>2. \/ promiseBallot'[p[1]] = promiseBallot[p[1]]
            \/ BallotGE(promiseBallot'[p[1]], promiseBallot[p[1]])
        BY <2>1, <3>1
      <4> QED
        BY <3>1, <4>1, <4>2, BallotTransitive
    <3> QED
      BY <3>2, <3>3
  <2> QED
    BY <2>2 DEF PromisesHeld, BallotGE
<1> QED
  BY <1>1, <1>2

(* On nodes that do not restart, the promise of an instance also binds the *)
(* later ones: an acceptor never votes below any promise it has made, the  *)
(* ground on which Proposer::NewValue skips the prepare phase.             *)
THEOREM PromiseKept ==
    ASSUME RestartNodes = {}
    PROVE  Spec => PromiseHonoured
<1>1. Init => IInv /\ PromisesHeld
  BY InitInv DEF Init, PromisesHeld
<1>2. IInv /\ PromisesHeld /\ [Next]_vars => IInv' /\ PromisesHeld'
  BY NextInv, PromisesHeldStep
<1>3. IInv /\ PromisesHeld /\ [Next]_vars =>
        [\A vt \in votes' \ votes : \A p \in promises :
            p[1] = vt[1] /\ p[2] <= vt[2] => BallotGE(vt[3], p[3])]_vars
  <2> SUFFICES ASSUME IInv, PromisesHeld, Next, NEW vt \in votes' \ votes,
                      NEW p \in promises, p[1] = vt[1]
               PROVE  BallotGE(vt[3], p[3])
    OBVIOUS
  <2>1. /\ BallotGE(vt[3], promiseBallot[vt[1]])
        /\ vt[1] \in Node /\ vt[3] \in BallotOrNull
    BY VotesPass DEF BallotOrNull
  <2>2. BallotGE(promiseBallot[vt[1]], p[3])
    BY DEF PromisesHeld
  <2>3. p[3] \in BallotOrNull /\ promiseBallot[vt[1]] \in BallotOrNull
    BY <2>1 DEF IInv, TypeOK, HistoryTypeOK, AcceptorTypeOK, BallotOrNull
  <2> QED
    BY <2>1, <2>2, <2>3, BallotTransitive
<1> QED
  BY <1>1, <1>2, <1>3, PTL DEF Spec, PromiseHonoured

-----------------------------------------------------------------------------
(***************************************************************************)
(* Agreement in one paxos group: no ballot has two values, and no instance *)
(* has two values chosen, for every number of nodes, values, instances,    *)
(* proposal ids and timer expiries, with messages lost and doubled and     *)
(* writes of the log that fail.                                            *)
(*                                                                         *)
(* Two things break it.  A restart may load a promise that a learned value *)
(* has lowered, so that the nodes do not restart here.  And a proposer     *)
(* whose accept timer fires prepares again with the same ballot            *)
(* (Proposer::OnAcceptTimeout), even if its own acceptor has promised      *)
(* another one meanwhile and nobody has said so: the steps in which that   *)
(* happens are the hypothesis RetriesKeepVote.                             *)
(***************************************************************************)

Own(n) == <<proposalID[n], n>>
Below(c, b) == ~BallotGE(c, b)

(* n has sent accepts of its ballot in this instance, or it prepares the   *)
(* ballot again and has found its own acceptance of it.                    *)
HasOpened(n) ==
    \/ phase[n] \in {"selfAccept", "accepting"}
    \/ value[n] # None /\ preAcceptBallot[n] = Own(n)

(* A proposer that prepares again a ballot it has sent accepts of, as      *)
(* Proposer::OnAcceptTimeout does when nobody has rejected it, finds that  *)
(* its own acceptor still holds the value it has accepted in it.           *)
RetryKeepsVote(n) ==
    HasOpened(n) /\ phase'[n] = "preparing" /\ proposalID'[n] = proposalID[n]
        => preAcceptBallot'[n] = Own(n)

RetriesKeepVote == [][\A n \in Node : RetryKeepsVote(n)]_vars

-----------------------------------------------------------------------------
(* The values proposed in a ballot of an instance, as far as anybody still *)
(* knows of them: in a vote, in an accept message, in an acceptor, in a    *)
(* reply to a prepare, in a proposer that has adopted it or opened its     *)
(* ballot with it.                                                         *)
Voted(i, b, v) == \E a \in Node : <<a, i, b, v>> \in votes
Asked(i, b, v) ==
    \E m \in msgs :
        m.type = "accept" /\ m.inst = i /\ m.bal = b /\ m.value = v
Held(i, b, v) ==
    \E a \in Node :
        instanceID[a] = i /\ acceptedBallot[a] = b /\ acceptedValue[a] = v
Reported(i, b, v) ==
    \E m \in msgs :
        m.type = "prepareReply" /\ m.inst = i /\ m.accepted = b /\ m.value = v
Adopted(i, b, v) ==
    \E n \in Node : /\ phase[n] = "preparing" /\ instanceID[n] = i
                    /\ preAcceptBallot[n] = b /\ value[n] = v
Opened(i, b, v) ==
    \E n \in Node : /\ canSkipPrepare[n] /\ instanceID[n] = i
                    /\ b = Own(n) /\ value[n] = v

Proposed(i, b, v) ==
    \/ Voted(i, b, v) \/ Asked(i, b, v) \/ Held(i, b, v)
    \/ Reported(i, b, v) \/ Adopted(i, b, v) \/ Opened(i, b, v)

(* Acceptor a has not voted in ballot c of instance i and never will.      *)
WontVote(a, i, c) ==
    /\ \A vt \in votes : ~(vt[1] = a /\ vt[2] = i /\ vt[3] = c)
    /\ \E p \in promises : p[1] = a /\ p[2] <= i /\ Below(c, p[3])

(* No value but v has been or will be chosen below ballot b.               *)
SafeAt(i, b, v) ==
    \A c \in Ballot : Below(c, b) =>
        \E Q \in SUBSET Node :
            /\ IsMajority(Q)
            /\ \A a \in Q : <<a, i, c, v>> \in votes \/ WontVote(a, i, c)

-----------------------------------------------------------------------------
(* The inductive invariant.                                                *)

OneProposal ==
    \A i \in Instance, b \in Ballot, v, w \in Value :
        Proposed(i, b, v) /\ Proposed(i, b, w) => v = w

ProposalsSafe ==
    \A i \in Instance, b \in Ballot, v \in Value :
        Proposed(i, b, v) => SafeAt(i, b, v)

(* The proposer of a ballot has left its instance, or has gone to a higher *)
(* ballot, or remembers the value.                                         *)
Remembers(n, b, v) ==
    /\ proposalID[n] = b[1] /\ value[n] = v
    /\ canSkipPrepare[n] \/ preAcceptBallot[n] = b

OwnerKnows ==
    \A i \in Instance, b \in Ballot, v \in Value :
        Proposed(i, b, v) =>
            \/ instanceID[b[2]] > i
            \/ /\ instanceID[b[2]] = i
               /\ proposalID[b[2]] > b[1] \/ Remembers(b[2], b, v)

(* An acceptor has no votes of instances it has not reached, and in its    *)
(* instance none above the ballot it holds.                                *)
VotesHeld ==
    \A vt \in votes :
        \/ instanceID[vt[1]] > vt[2]
        \/ instanceID[vt[1]] = vt[2] /\ BallotGE(acceptedBallot[vt[1]], vt[3])

PromisesReached == \A p \in promises : p[2] <= instanceID[p[1]]

(* A promise binds in every later instance.                                *)
PromisesBind ==
    \A p \in promises, vt \in votes :
        vt[1] = p[1] /\ p[2] < vt[2] => BallotGE(vt[3], p[3])

(* a has promised ballot b in instance i, and has no votes between the     *)
(* ballots c and b there.                                                  *)
Answered(a, i, b, c) ==
    /\ <<a, i, b>> \in promises
    /\ \A vt \in votes : vt[1] = a /\ vt[2] = i =>
            BallotGE(c, vt[3]) \/ BallotGE(vt[3], b)

RepliesTrue ==
    \A m \in msgs : m.type = "prepareReply" /\ m.reject = 0 =>
        /\ Answered(m.from, m.inst, m.bal, m.accepted)
        /\ BallotGE(m.bal, m.accepted)

GrantsTrue ==
    \A n \in Node :
        /\ phase[n] = "preparing" =>
            /\ ~canSkipPrepare[n]
            /\ BallotGE(Own(n), preAcceptBallot[n])
            /\ \A a \in granted[n] :
                    Answered(a, instanceID[n], Own(n), preAcceptBallot[n])
        /\ phase[n] \in {"selfAccept", "accepting"} => canSkipPrepare[n]

(* The prepare phase is skipped on the promises of a majority, given in an *)
(* earlier instance if the proposer has not opened its ballot in this one. *)
SkipsTrue ==
    \A n \in Node : canSkipPrepare[n] =>
        \E Q \in SUBSET Node, j \in Instance :
            /\ IsMajority(Q)
            /\ \A a \in Q : <<a, j, Own(n)>> \in promises
            /\ j <= instanceID[n]
            /\ value[n] = None => j < instanceID[n]

HistoryInv == VotesHeld /\ PromisesHeld /\ PromisesReached /\ PromisesBind
RoundInv == RepliesTrue /\ GrantsTrue /\ SkipsTrue
ProposalInv == OneProposal /\ ProposalsSafe /\ OwnerKnows

AInv == HistoryInv /\ RoundInv /\ ProposalInv

-----------------------------------------------------------------------------
(* Ballots form a total order.                                             *)
LEMMA BallotOrder ==
    ASSUME NEW b \in BallotOrNull, NEW c \in BallotOrNull
    PROVE  /\ BallotGE(b, c) \/ BallotGE(c, b)
           /\ BallotGE(b, c) /\ BallotGE(c, b) => b = c
           /\ b \in Ballot => ~BallotGE(NullBallot, b)
<1>1. /\ b[1] \in Nat /\ b[2] \in Nat /\ b = <<b[1], b[2]>>
      /\ c[1] \in Nat /\ c[2] \in Nat /\ c = <<c[1], c[2]>>
  BY BallotFields
<1>2. BallotGE(b, c) \/ BallotGE(c, b)
  BY <1>1 DEF BallotGE
<1>3. ASSUME BallotGE(b, c), BallotGE(c, b) PROVE b = c
  <2>1. b[1] = c[1] /\ b[2] = c[2]
    BY <1>1, <1>3 DEF BallotGE
  <2> QED
    BY <1>1, <2>1
<1>4. b \in Ballot => ~BallotGE(NullBallot, b)
  BY DEF Ballot, BallotGE, NullBallot
<1> QED
  BY <1>2, <1>3, <1>4

(* What the type of the state says of the histories and of one's own       *)
(* ballot.                                                                 *)
LEMMA TypeFacts ==
    ASSUME IInv
    PROVE  /\ \A vt \in votes : /\ vt[1] \in Node /\ vt[2] \in Instance
                                 /\ vt[3] \in Ballot /\ vt[4] \in Value
                                 /\ vt = <<vt[1], vt[2], vt[3], vt[4]>>
           /\ \A p \in promises : /\ p[1] \in Node /\ p[2] \in Instance
                                   /\ p[3] \in Ballot
                                   /\ p = <<p[1], p[2], p[3]>>
           /\ \A n \in Node : /\ Own(n) \in Ballot
                               /\ promiseBallot[n] \in BallotOrNull
                               /\ acceptedBallot[n] \in BallotOrNull
                               /\ preAcceptBallot[n] \in BallotOrNull
                               /\ instanceID[n] \in Nat
           /\ Ballot \subseteq BallotOrNull /\ NullBallot \in BallotOrNull
<1> USE DEF IInv, TypeOK
<1>1. \A vt \in votes : /\ vt[1] \in Node /\ vt[2] \in Instance
                        /\ vt[3] \in Ballot /\ vt[4] \in Value
                        /\ vt = <<vt[1], vt[2], vt[3], vt[4]>>
  BY DEF HistoryTypeOK
<1>2. \A p \in promises : /\ p[1] \in Node /\ p[2] \in Instance
                          /\ p[3] \in Ballot
                          /\ p = <<p[1], p[2], p[3]>>
  BY DEF HistoryTypeOK
<1>3. \A n \in Node : /\ Own(n) \in Ballot
                      /\ promiseBallot[n] \in BallotOrNull
                      /\ acceptedBallot[n] \in BallotOrNull
                      /\ preAcceptBallot[n] \in BallotOrNull
  BY DEF ProposerTypeOK, AcceptorTypeOK, Own, Ballot
<1>4. \A n \in Node : instanceID[n] \in Nat
  BY BoundAssumption DEF LearnerTypeOK
<1> QED
  BY <1>1, <1>2, <1>3, <1>4 DEF BallotOrNull

(* The handlers of a node that does not restart.                           *)
Handles(n) ==
    \/ \E v \in Value : NewValue(n, v)
    \/ ProposerTimeout(n)
    \/ OnPrepareReply(n) \/ OnAcceptReply(n) \/ OnExpiredReply(n)
    \/ CommitTimeout(n) \/ OnPrepare(n) \/ OnAccept(n) \/ SelfAccept(n)
    \/ OnProposerSendSuccess(n)
    \/ \E to \in Node, i \in Instance : SendLearnValue(n, to, i)
    \/ OnSendLearnValue(n)

LEMMA SomeoneHandles ==
    ASSUME Next, RestartNodes = {}
    PROVE  \E n \in Node : Handles(n)
BY DEF Next, Handles, Restart

(* An own message of a ballot is one's own ballot.                         *)
LEMMA ReplyIsOwn ==
    ASSUME IInv, NEW n \in Node, NEW m \in Inbox(n, {"prepareReply"}),
           m.bal[1] = proposalID[n]
    PROVE  m.bal = Own(n)
<1>1. m \in Message /\ MessageOrdered(m) /\ m.type = "prepareReply" /\ m.to = n
  BY DEF Inbox, IInv, TypeOK, HandlerInv, MessagesOrdered
<1>2. m.bal \in BallotOrNull /\ m.bal[2] = n
  BY <1>1, MessageFields DEF MessageOrdered, BallotOrNull
<1> QED
  BY <1>2, BallotFields DEF Own
-----------------------------------------------------------------------------
(* One step of a node, by what it does to the acceptor, to the proposer    *)
(* and to the messages: every handler is one of these, and the invariant   *)
(* is proved from them.                                                    *)

Untouched(n) ==
    \A x \in Node \ {n} :
        /\ instanceID'[x] = instanceID[x]
        /\ promiseBallot'[x] = promiseBallot[x]
        /\ acceptedBallot'[x] = acceptedBallot[x]
        /\ acceptedValue'[x] = acceptedValue[x]
        /\ proposalID'[x] = proposalID[x] /\ value'[x] = value[x]
        /\ preAcceptBallot'[x] = preAcceptBallot[x]
        /\ phase'[x] = phase[x] /\ granted'[x] = granted[x]
        /\ canSkipPrepare'[x] = canSkipPrepare[x]

(* The acceptor keeps what it holds, forgets it with the instance, or      *)
(* takes what it is asked to accept, by itself or by another node.         *)
KeepsVote(n) ==
    /\ instanceID'[n] = instanceID[n] /\ votes' = votes
    /\ acceptedBallot'[n] = acceptedBallot[n]
    /\ acceptedValue'[n] = acceptedValue[n]

ForgetsVote(n) ==
    /\ instanceID'[n] = instanceID[n] + 1 /\ votes' = votes
    /\ acceptedBallot'[n] = NullBallot

TakesVote(n) ==
    /\ instanceID'[n] \in {instanceID[n], instanceID[n] + 1}
    /\ BallotGE(acceptedBallot'[n], promiseBallot[n])
    /\ \/ votes' = votes
       \/ votes' = votes \cup {<<n, instanceID'[n], acceptedBallot'[n],
                                 acceptedValue'[n]>>}
    /\ \/ Asked(instanceID'[n], acceptedBallot'[n], acceptedValue'[n])
       \/ /\ phase[n] = "selfAccept" /\ instanceID'[n] = instanceID[n]
          /\ acceptedBallot'[n] = Own(n) /\ acceptedValue'[n] = value[n]

AcceptorStep(n) ==
    /\ KeepsVote(n) \/ ForgetsVote(n) \/ TakesVote(n)
    /\ BallotGE(promiseBallot'[n], promiseBallot[n])
    /\ \/ promises' = promises
       \/ promises' = promises \cup {<<n, instanceID'[n], promiseBallot'[n]>>}

SameRound(n) ==
    instanceID'[n] = instanceID[n] /\ proposalID'[n] = proposalID[n]

(* The proposer keeps its round, or is through with the instance.          *)
KeepsRound(n) ==
    /\ SameRound(n)
    /\ value'[n] = value[n] /\ preAcceptBallot'[n] = preAcceptBallot[n]
    /\ canSkipPrepare'[n] = canSkipPrepare[n]
    /\ \/ phase'[n] = phase[n]
       \/ phase'[n] = "idle"
       \/ phase[n] = "selfAccept" /\ phase'[n] = "accepting"
    /\ phase'[n] = "preparing" => granted'[n] = granted[n]

EndsInstance(n) ==
    /\ instanceID'[n] = instanceID[n] + 1
    /\ proposalID'[n] = proposalID[n]
    /\ value'[n] = None /\ phase'[n] = "idle"
    /\ canSkipPrepare'[n] = canSkipPrepare[n]

(* It sends its accepts: on earlier promises, or on those of a majority.   *)
SkipsPrepare(n) ==
    /\ SameRound(n)
    /\ preAcceptBallot'[n] = preAcceptBallot[n]
    /\ canSkipPrepare[n] /\ canSkipPrepare'[n]
    /\ phase[n] # "selfAccept" /\ phase'[n] = "selfAccept"
    /\ value[n] # None => value'[n] = value[n]

(* m is a promise for the ballot n prepares.                               *)
PromiseFor(n, m) ==
    /\ m \in msgs /\ m.type = "prepareReply" /\ m.reject = 0
    /\ m.inst = instanceID[n] /\ m.bal = Own(n)

HearsPromise(n, m) ==
    /\ SameRound(n)
    /\ phase[n] = "preparing"
    /\ PromiseFor(n, m)
    /\ preAcceptBallot'[n] = AddPreAcceptValue(n, m).bal
    /\ value'[n] = AddPreAcceptValue(n, m).value

OpensBallot(n, m) ==
    /\ HearsPromise(n, m)
    /\ IsMajority(granted[n] \cup {m.from})
    /\ canSkipPrepare'[n] /\ phase'[n] = "selfAccept"

CountsPromise(n, m) ==
    /\ HearsPromise(n, m)
    /\ granted'[n] = granted[n] \cup {m.from}
    /\ canSkipPrepare'[n] = canSkipPrepare[n] /\ phase'[n] = "preparing"

(* It prepares, with a higher ballot or with the one it had; its own       *)
(* acceptor promises the ballot or does not.                               *)
PreparesBallot(n) ==
    /\ instanceID'[n] = instanceID[n]
    /\ phase'[n] = "preparing" /\ ~canSkipPrepare'[n]
    /\ \/ proposalID'[n] > proposalID[n]
       \/ /\ proposalID'[n] = proposalID[n]
          /\ ~canSkipPrepare[n] \/ phase[n] \in {"preparing", "accepting"}
    /\ \/ /\ granted'[n] = {n}
          /\ promiseBallot'[n] = Own(n)'
          /\ <<n, instanceID[n], Own(n)'>> \in promises'
          /\ acceptedBallot'[n] = acceptedBallot[n]
          /\ preAcceptBallot'[n] = acceptedBallot[n]
          /\ acceptedBallot[n] # NullBallot => value'[n] = acceptedValue[n]
       \/ /\ granted'[n] = {}
          /\ preAcceptBallot'[n] = NullBallot

ProposerStep(n) ==
    \/ KeepsRound(n) \/ EndsInstance(n) \/ SkipsPrepare(n) \/ PreparesBallot(n)
    \/ \E m \in msgs : OpensBallot(n, m) \/ CountsPromise(n, m)

Opens(n) == phase[n] # "selfAccept" /\ phase'[n] = "selfAccept"

(* A new accept message carries the value the ballot is opened with, a new *)
(* reply to a prepare the state its acceptor is in.                        *)
AcceptsSent(n) ==
    \A m \in msgs' \ msgs : m.type = "accept" =>
        /\ Opens(n) /\ m.inst = instanceID[n]
        /\ m.bal = Own(n) /\ m.value = value'[n]

RepliesSent(n) ==
    \A m \in msgs' \ msgs : m.type = "prepareReply" =>
        \/ m.reject # 0 /\ m.accepted = NullBallot
        \/ /\ m.from = n /\ m.inst = instanceID'[n]
           /\ m.bal = promiseBallot'[n]
           /\ m.accepted = acceptedBallot'[n] /\ m.value = acceptedValue'[n]
           /\ <<n, m.inst, m.bal>> \in promises'

Step(n) == /\ Untouched(n)
           /\ AcceptorStep(n) /\ ProposerStep(n)
           /\ AcceptsSent(n) /\ RepliesSent(n)

(* Nothing is sent but other messages.                                     *)
Quiet == \A m \in msgs' \ msgs : m.type \notin {"accept", "prepareReply"}

LEMMA QuietSends ==
    ASSUME Quiet, NEW n \in Node
    PROVE  AcceptsSent(n) /\ RepliesSent(n)
BY DEF Quiet, AcceptsSent, RepliesSent

(* Everything of the step that does not concern the acceptor.              *)
SameAcceptor == UNCHANGED <<instanceID, promiseBallot, acceptedBallot,
                            acceptedValue, promises, votes>>

LEMMA SameAcceptorStep ==
    ASSUME IInv, NEW n \in Node, SameAcceptor
    PROVE  AcceptorStep(n)
<1>1. promiseBallot[n] \in BallotOrNull
  BY TypeFacts
<1>2. BallotGE(promiseBallot'[n], promiseBallot[n])
  BY <1>1, BallotReflexive DEF SameAcceptor
<1> QED
  BY <1>2 DEF SameAcceptor, AcceptorStep, KeepsVote
(* The end of an instance.                                                 *)
LEMMA ExecuteStep ==
    ASSUME IInv, NEW n \in Node, NEW v, Execute(n, v),
           SetAcceptor(n, promiseBallot[n], NullBallot, None),
           ProposerNewInstance(n),
           UNCHANGED <<proposalID, preAcceptBallot, canSkipPrepare, passVars>>
    PROVE  Untouched(n) /\ AcceptorStep(n) /\ ProposerStep(n)
<1> USE DEF IInv, TypeOK, AcceptorTypeOK, ProposerTypeOK, LearnerTypeOK
<1> USE DEF Execute, SetAcceptor, ProposerNewInstance, passVars
<1>1. Untouched(n)
  BY DEF Untouched
<1>2. ForgetsVote(n) /\ promiseBallot'[n] = promiseBallot[n]
  BY DEF ForgetsVote
<1>3. BallotGE(promiseBallot'[n], promiseBallot[n])
  BY <1>2, BallotReflexive
<1>4. AcceptorStep(n)
  BY <1>2, <1>3 DEF AcceptorStep
<1>5. EndsInstance(n)
  BY DEF EndsInstance
<1> QED
  BY <1>1, <1>4, <1>5 DEF ProposerStep

LEMMA OnAcceptReplyStep ==
    ASSUME IInv, NEW n \in Node, OnAcceptReply(n)
    PROVE  Step(n)
<1>1. PICK m \in Inbox(n, {"acceptReply"}) :
        /\ phase[n] = "accepting"
        /\ UNCHANGED <<proposalID, preAcceptBallot, canSkipPrepare, passVars>>
        /\ \/ /\ Receive(m, {})
              /\ UNCHANGED <<learnVars, acceptorVars, value, phase>>
              /\ granted' \in {granted, [granted EXCEPT ![n] = @ \cup {m.from}]}
           \/ /\ Receive(m, Successes(n, instanceID[n], m.bal))
              /\ \/ /\ Execute(n, acceptedValue[n])
                    /\ SetAcceptor(n, promiseBallot[n], NullBallot, None)
                    /\ ProposerNewInstance(n)
                 \/ /\ phase' = [phase EXCEPT ![n] = "idle"]
                    /\ granted' = [granted EXCEPT ![n] = @ \cup {m.from}]
                    /\ UNCHANGED <<learnVars, acceptedBallot, acceptedValue,
                                   promiseBallot, value>>
  BY DEF OnAcceptReply, historyVars
<1>2. Quiet
  BY <1>1 DEF Quiet, Receive, Successes
<1>3. CASE /\ Execute(n, acceptedValue[n])
           /\ SetAcceptor(n, promiseBallot[n], NullBallot, None)
           /\ ProposerNewInstance(n)
  BY <1>1, <1>2, <1>3, ExecuteStep, QuietSends DEF Step
<1>4. CASE /\ UNCHANGED <<learnVars, acceptedBallot, acceptedValue,
                          promiseBallot, value>>
           /\ granted' \in {granted, [granted EXCEPT ![n] = @ \cup {m.from}]}
           /\ \/ phase' = phase
              \/ phase' = [phase EXCEPT ![n] = "idle"]
  <2>1. SameAcceptor
    BY <1>1, <1>4 DEF SameAcceptor, learnVars, passVars
  <2>2. Untouched(n)
    BY <1>1, <1>4, <2>1
    DEF Untouched, SameAcceptor, IInv, TypeOK, ProposerTypeOK
  <2>3. KeepsRound(n)
    BY <1>1, <1>4
    DEF KeepsRound, SameRound, learnVars, IInv, TypeOK, ProposerTypeOK
  <2> QED
    BY <1>2, <2>1, <2>2, <2>3, SameAcceptorStep, QuietSends
    DEF Step, ProposerStep
<1> QED
  BY <1>1, <1>3, <1>4 DEF acceptorVars

(* The handlers that do not touch the acceptor, nor send accepts.          *)
LEMMA QuietStep ==
    ASSUME IInv, NEW n \in Node,
           \/ OnExpiredReply(n) \/ CommitTimeout(n)
           \/ \E to \in Node, i \in Instance : SendLearnValue(n, to, i)
    PROVE  Step(n)
<1>1. SameAcceptor
  BY DEF SameAcceptor, OnExpiredReply, CommitTimeout, SendLearnValue, learnVars,
         acceptorVars, historyVars, passVars
<1>2. Quiet
  BY DEF Quiet, OnExpiredReply, CommitTimeout, SendLearnValue, Receive, Send
<1>3. /\ UNCHANGED <<proposalID, value, preAcceptBallot, canSkipPrepare,
                     granted>>
      /\ phase' \in {phase, [phase EXCEPT ![n] = "idle"]}
  BY DEF OnExpiredReply, CommitTimeout, SendLearnValue, proposerVars
<1>4. Untouched(n)
  BY <1>1, <1>3 DEF Untouched, SameAcceptor, IInv, TypeOK, ProposerTypeOK
<1>5. KeepsRound(n)
  BY <1>1, <1>3
  DEF KeepsRound, SameRound, SameAcceptor, IInv, TypeOK, ProposerTypeOK
<1> QED
  BY <1>1, <1>2, <1>4, <1>5, SameAcceptorStep, QuietSends
  DEF Step, ProposerStep

LEMMA LearnStep ==
    ASSUME IInv, NEW n \in Node, OnProposerSendSuccess(n) \/ OnSendLearnValue(n)
    PROVE  Step(n)
<1>1. PICK m, v :
        /\ Execute(n, v)
        /\ SetAcceptor(n, promiseBallot[n], NullBallot, None)
        /\ ProposerNewInstance(n)
        /\ Receive(m, {})
        /\ UNCHANGED <<proposalID, preAcceptBallot, canSkipPrepare, passVars>>
  BY DEF OnProposerSendSuccess, OnSendLearnValue, historyVars
<1>2. Quiet
  BY <1>1 DEF Quiet, Receive
<1> QED
  BY <1>1, <1>2, ExecuteStep, QuietSends DEF Step

(* Moving to the instance of a prepare or accept ends the instance before, *)
(* as far as the proposer is concerned.                                    *)
LEMMA EnterInstanceStep ==
    ASSUME IInv, NEW n \in Node, NEW m, EnterInstanceOf(n, m),
           UNCHANGED <<proposalID, preAcceptBallot, canSkipPrepare>>
    PROVE  /\ instanceID'[n] = m.inst
           /\ m.inst \in {instanceID[n], instanceID[n] + 1}
           /\ \A x \in Node \ {n} :
                /\ instanceID'[x] = instanceID[x]
                /\ proposalID'[x] = proposalID[x] /\ value'[x] = value[x]
                /\ preAcceptBallot'[x] = preAcceptBallot[x]
                /\ phase'[x] = phase[x] /\ granted'[x] = granted[x]
                /\ canSkipPrepare'[x] = canSkipPrepare[x]
           /\ ProposerStep(n)
           /\ phase'[n] \in {phase[n], "idle"}
<1> USE DEF IInv, TypeOK, ProposerTypeOK, LearnerTypeOK
<1>1. CASE /\ m.inst = instanceID[n]
           /\ UNCHANGED <<learnVars, highestOther, value, phase, granted>>
  <2>1. KeepsRound(n)
    BY <1>1 DEF KeepsRound, SameRound, learnVars
  <2> QED
    BY <1>1, <2>1 DEF learnVars, ProposerStep
<1>2. CASE /\ SkipsSuccess(n, m)
           /\ Execute(n, acceptedValue[n])
           /\ ProposerNewInstance(n)
  <2>1. EndsInstance(n)
    BY <1>2 DEF EndsInstance, Execute, ProposerNewInstance
  <2> QED
    BY <1>2, <2>1 DEF SkipsSuccess, Execute, ProposerNewInstance, ProposerStep
<1> QED
  BY <1>1, <1>2 DEF EnterInstanceOf
LEMMA OnPrepareStep ==
    ASSUME IInv, NEW n \in Node, OnPrepare(n)
    PROVE  Step(n)
<1> USE DEF IInv, TypeOK, AcceptorTypeOK
<1> DEFINE Acc(m) == AcceptedIn(n, m)
<1>1. PICK m \in Inbox(n, {"prepare"}) :
        /\ EnterInstanceOf(n, m)
        /\ UNCHANGED <<proposalID, preAcceptBallot, canSkipPrepare, votes>>
        /\ \/ /\ BallotGE(m.bal, promiseBallot[n])
              /\ SetAcceptor(n, m.bal, Acc(m).bal, Acc(m).value)
              /\ promises' = promises \cup {<<n, m.inst, m.bal>>}
              /\ Receive(m,
                    {[type |-> "prepareReply", to |-> m.bal[2],
                      inst |-> m.inst, bal |-> m.bal, from |-> n, reject |-> 0,
                      accepted |-> Acc(m).bal, value |-> Acc(m).value]})
           \/ /\ BallotGE(m.bal, promiseBallot[n])
              /\ SetAcceptor(n, m.bal, Acc(m).bal, Acc(m).value)
              /\ Receive(m, {})
              /\ UNCHANGED promises
           \/ /\ ~BallotGE(m.bal, promiseBallot[n])
              /\ SetAcceptor(n, promiseBallot[n], Acc(m).bal, Acc(m).value)
              /\ Receive(m,
                    {[type |-> "prepareReply", to |-> m.bal[2],
                      inst |-> m.inst, bal |-> m.bal, from |-> n,
                      reject |-> promiseBallot[n][1],
                      accepted |-> IF promiseBallot[n][1] = 0
                                   THEN Acc(m).bal ELSE NullBallot,
                      value |-> IF promiseBallot[n][1] = 0
                                THEN Acc(m).value ELSE None]})
              /\ UNCHANGED promises
  BY DEF OnPrepare
<1>2. PICK acc : acc = AcceptedIn(n, m)
  OBVIOUS
<1> HIDE DEF Acc
<1>3. /\ instanceID'[n] = m.inst
      /\ m.inst \in {instanceID[n], instanceID[n] + 1}
      /\ ProposerStep(n)
      /\ \A x \in Node \ {n} :
            /\ instanceID'[x] = instanceID[x]
            /\ proposalID'[x] = proposalID[x] /\ value'[x] = value[x]
            /\ preAcceptBallot'[x] = preAcceptBallot[x]
            /\ phase'[x] = phase[x] /\ granted'[x] = granted[x]
            /\ canSkipPrepare'[x] = canSkipPrepare[x]
  BY <1>1, EnterInstanceStep
<1>4. /\ m.bal \in BallotOrNull /\ m.bal[1] # 0
      /\ promiseBallot[n] \in BallotOrNull
  BY InboxFields, MessageFields DEF BallotOrNull, Ballot
<1>5. /\ acceptedBallot' = [acceptedBallot EXCEPT ![n] = acc.bal]
      /\ acceptedValue' = [acceptedValue EXCEPT ![n] = acc.value]
      /\ \/ promiseBallot' = [promiseBallot EXCEPT ![n] = m.bal]
         \/ promiseBallot' = [promiseBallot EXCEPT ![n] = promiseBallot[n]]
  BY <1>1, <1>2 DEF SetAcceptor, Acc
<1>6. Untouched(n)
  BY <1>3, <1>5 DEF Untouched
<1>7. BallotGE(promiseBallot'[n], promiseBallot[n])
  BY <1>1, <1>4, BallotReflexive DEF SetAcceptor
<1>8. \/ promises' = promises
      \/ promises' = promises \cup {<<n, instanceID'[n], promiseBallot'[n]>>}
  BY <1>1, <1>3 DEF SetAcceptor
<1>9. KeepsVote(n) \/ ForgetsVote(n)
  <2>1. CASE m.inst = instanceID[n]
    <3>1. acc.bal = acceptedBallot[n] /\ acc.value = acceptedValue[n]
      BY <1>2, <2>1 DEF AcceptedIn
    <3> QED
      BY <1>1, <1>3, <1>5, <2>1, <3>1 DEF KeepsVote
  <2>2. CASE m.inst = instanceID[n] + 1
    <3>1. instanceID[n] \in Nat
      BY TypeFacts
    <3>2. acc.bal = NullBallot
      BY <1>2, <2>2, <3>1 DEF AcceptedIn
    <3> QED
      BY <1>1, <1>3, <1>5, <2>2, <3>2 DEF ForgetsVote
  <2> QED
    BY <1>3, <2>1, <2>2
<1>10. AcceptsSent(n)
  BY <1>1 DEF AcceptsSent, Receive
<1>11. RepliesSent(n)
  <2>1. CASE /\ SetAcceptor(n, m.bal, acc.bal, acc.value)
             /\ promises' = promises \cup {<<n, m.inst, m.bal>>}
             /\ Receive(m,
                    {[type |-> "prepareReply", to |-> m.bal[2],
                      inst |-> m.inst, bal |-> m.bal, from |-> n, reject |-> 0,
                      accepted |-> acc.bal, value |-> acc.value]})
    <3>1. /\ promiseBallot'[n] = m.bal /\ acceptedBallot'[n] = acc.bal
          /\ acceptedValue'[n] = acc.value
      BY <2>1 DEF SetAcceptor
    <3> QED
      BY <1>3, <2>1, <3>1 DEF RepliesSent, Receive
  <2>2. CASE Receive(m, {})
    BY <2>2 DEF RepliesSent, Receive
  <2>3. CASE /\ ~BallotGE(m.bal, promiseBallot[n])
             /\ Receive(m,
                    {[type |-> "prepareReply", to |-> m.bal[2],
                      inst |-> m.inst, bal |-> m.bal, from |-> n,
                      reject |-> promiseBallot[n][1],
                      accepted |-> IF promiseBallot[n][1] = 0
                                   THEN acc.bal ELSE NullBallot,
                      value |-> IF promiseBallot[n][1] = 0
                                THEN acc.value ELSE None]})
    <3>1. promiseBallot[n][1] # 0
      BY <1>4, <2>3, BallotFields DEF BallotGE
    <3> QED
      BY <2>3, <3>1 DEF RepliesSent, Receive
  <2> QED
    BY <1>1, <1>2, <2>1, <2>2, <2>3 DEF Acc
<1> QED
  BY <1>3, <1>6, <1>7, <1>8, <1>9, <1>10, <1>11 DEF Step, AcceptorStep

(* An accept that passes, whether or not the vote is written.              *)
LEMMA AcceptStep ==
    ASSUME IInv, NEW n \in Node, NEW i, NEW b \in BallotOrNull, NEW v,
           AcceptPasses(n, i, b, v) \/ AcceptNotPersisted(n, b, v),
           instanceID'[n] = i, i \in {instanceID[n], instanceID[n] + 1},
           UNCHANGED promises,
           \/ Asked(i, b, v)
           \/ /\ phase[n] = "selfAccept" /\ i = instanceID[n]
              /\ b = Own(n) /\ v = value[n]
    PROVE  /\ AcceptorStep(n)
           /\ \A x \in Node \ {n} : /\ promiseBallot'[x] = promiseBallot[x]
                                    /\ acceptedBallot'[x] = acceptedBallot[x]
                                    /\ acceptedValue'[x] = acceptedValue[x]
<1> USE DEF IInv, TypeOK, AcceptorTypeOK
<1>1. /\ BallotGE(b, promiseBallot[n])
      /\ SetAcceptor(n, b, b, v)
      /\ votes' = votes \/ votes' = votes \cup {<<n, i, b, v>>}
  BY DEF AcceptPasses, AcceptNotPersisted
<1>2. /\ promiseBallot'[n] = b /\ acceptedBallot'[n] = b
      /\ acceptedValue'[n] = v
      /\ \A x \in Node \ {n} : /\ promiseBallot'[x] = promiseBallot[x]
                               /\ acceptedBallot'[x] = acceptedBallot[x]
                               /\ acceptedValue'[x] = acceptedValue[x]
  BY <1>1 DEF SetAcceptor
<1>3. TakesVote(n)
  BY <1>1, <1>2 DEF TakesVote
<1> QED
  BY <1>1, <1>2, <1>3 DEF AcceptorStep

LEMMA OnAcceptStep ==
    ASSUME IInv, NEW n \in Node, OnAccept(n)
    PROVE  Step(n)
<1> USE DEF IInv, TypeOK, AcceptorTypeOK
<1>1. PICK m \in Inbox(n, {"accept"}) :
        /\ EnterInstanceOf(n, m)
        /\ UNCHANGED <<proposalID, preAcceptBallot, canSkipPrepare, promises>>
        /\ \/ AcceptPasses(n, m.inst, m.bal, m.value)
           \/ AcceptNotPersisted(n, m.bal, m.value)
           \/ /\ SetAcceptor(n, promiseBallot[n], AcceptedIn(n, m).bal,
                             AcceptedIn(n, m).value)
              /\ UNCHANGED votes
  BY DEF OnAccept
<1>2. PICK acc : acc = AcceptedIn(n, m)
  OBVIOUS
<1>3. /\ instanceID'[n] = m.inst
      /\ m.inst \in {instanceID[n], instanceID[n] + 1}
      /\ ProposerStep(n)
      /\ \A x \in Node \ {n} :
            /\ instanceID'[x] = instanceID[x]
            /\ proposalID'[x] = proposalID[x] /\ value'[x] = value[x]
            /\ preAcceptBallot'[x] = preAcceptBallot[x]
            /\ phase'[x] = phase[x] /\ granted'[x] = granted[x]
            /\ canSkipPrepare'[x] = canSkipPrepare[x]
  BY <1>1, EnterInstanceStep
<1>4. m \in msgs /\ m.type = "accept" /\ m.bal \in BallotOrNull
  BY InboxFields, MessageFields DEF BallotOrNull, Inbox
<1>5. /\ AcceptorStep(n)
      /\ \A x \in Node \ {n} : /\ promiseBallot'[x] = promiseBallot[x]
                               /\ acceptedBallot'[x] = acceptedBallot[x]
                               /\ acceptedValue'[x] = acceptedValue[x]
  <2>1. CASE \/ AcceptPasses(n, m.inst, m.bal, m.value)
             \/ AcceptNotPersisted(n, m.bal, m.value)
    <3>1. Asked(m.inst, m.bal, m.value)
      BY <1>4 DEF Asked
    <3> QED
      BY <1>1, <1>3, <1>4, <2>1, <3>1, AcceptStep
  <2>2. CASE /\ SetAcceptor(n, promiseBallot[n], acc.bal, acc.value)
             /\ UNCHANGED votes
    <3>1. /\ acceptedBallot'[n] = acc.bal /\ acceptedValue'[n] = acc.value
          /\ promiseBallot'[n] = promiseBallot[n]
          /\ \A x \in Node \ {n} : /\ promiseBallot'[x] = promiseBallot[x]
                                   /\ acceptedBallot'[x] = acceptedBallot[x]
                                   /\ acceptedValue'[x] = acceptedValue[x]
      BY <2>2 DEF SetAcceptor
    <3>2. BallotGE(promiseBallot'[n], promiseBallot[n])
      BY <3>1, BallotReflexive
    <3>3. KeepsVote(n) \/ ForgetsVote(n)
      <4>1. CASE m.inst = instanceID[n]
        BY <1>2, <1>3, <2>2, <3>1, <4>1 DEF AcceptedIn, KeepsVote
      <4>2. CASE m.inst = instanceID[n] + 1
        <5>1. instanceID[n] \in Nat
          BY TypeFacts
        <5> QED
          BY <1>2, <1>3, <2>2, <3>1, <4>2, <5>1 DEF AcceptedIn, ForgetsVote
      <4> QED
        BY <1>3, <4>1, <4>2
    <3> QED
      BY <1>1, <3>1, <3>2, <3>3 DEF AcceptorStep
  <2> QED
    BY <1>1, <1>2, <2>1, <2>2
<1>6. Untouched(n)
  BY <1>3, <1>5 DEF Untouched
<1>7. Quiet
  BY DEF Quiet, OnAccept, Receive
<1> QED
  BY <1>3, <1>5, <1>6, <1>7, QuietSends DEF Step

LEMMA SelfAcceptStep ==
    ASSUME IInv, NEW n \in Node, SelfAccept(n)
    PROVE  Step(n)
<1> USE DEF IInv, TypeOK, AcceptorTypeOK, ProposerTypeOK
<1>1. PICK b, v :
        /\ b = Own(n) /\ v = value[n]
        /\ phase[n] = "selfAccept"
        /\ phase' = [phase EXCEPT ![n] = "accepting"]
        /\ \/ AcceptPasses(n, instanceID[n], b, v)
           \/ AcceptNotPersisted(n, b, v)
           \/ UNCHANGED <<acceptorVars, votes>>
        /\ granted' \in {granted, [granted EXCEPT ![n] = {n}]}
        /\ UNCHANGED <<learnVars, proposalID, value, preAcceptBallot,
                       canSkipPrepare, msgs, promises>>
  BY DEF SelfAccept, Own
<1>2. b \in BallotOrNull
  BY <1>1, TypeFacts
<1>3. /\ AcceptorStep(n)
      /\ \A x \in Node \ {n} : /\ promiseBallot'[x] = promiseBallot[x]
                               /\ acceptedBallot'[x] = acceptedBallot[x]
                               /\ acceptedValue'[x] = acceptedValue[x]
  <2>1. instanceID' = instanceID
    BY <1>1 DEF learnVars
  <2>2. CASE \/ AcceptPasses(n, instanceID[n], b, v)
             \/ AcceptNotPersisted(n, b, v)
    <3>1. PICK i : i = instanceID[n]
      OBVIOUS
    <3> QED
      BY <1>1, <1>2, <2>1, <2>2, <3>1, AcceptStep
  <2>3. CASE UNCHANGED <<acceptorVars, votes>>
    <3>1. SameAcceptor
      BY <1>1, <2>1, <2>3 DEF SameAcceptor, acceptorVars
    <3> QED
      BY <3>1, SameAcceptorStep DEF SameAcceptor
  <2> QED
    BY <1>1, <2>2, <2>3
<1>4. Untouched(n)
  BY <1>1, <1>3 DEF Untouched, learnVars
<1>5. KeepsRound(n)
  BY <1>1 DEF KeepsRound, SameRound, learnVars
<1>6. Quiet
  BY <1>1 DEF Quiet
<1> QED
  BY <1>3, <1>4, <1>5, <1>6, QuietSends DEF Step, ProposerStep
LEMMA OnPrepareReplyStep ==
    ASSUME IInv, IInv', NEW n \in Node, OnPrepareReply(n)
    PROVE  Step(n)
<1> USE DEF IInv, TypeOK, ProposerTypeOK
<1>1. PICK m \in Inbox(n, {"prepareReply"}) :
        /\ phase[n] = "preparing"
        /\ m.inst = instanceID[n]
        /\ m.bal[1] = proposalID[n]
        /\ UNCHANGED <<learnVars, acceptorVars, proposalID, historyVars>>
        /\ \/ /\ m.reject # 0
              /\ Receive(m, {})
              /\ UNCHANGED <<value, preAcceptBallot, phase, canSkipPrepare,
                             granted>>
           \/ LET known == AddPreAcceptValue(n, m)
                  yes   == granted[n] \cup {m.from}
              IN  /\ m.reject = 0
                  /\ preAcceptBallot' = [preAcceptBallot EXCEPT ![n] = known.bal]
                  /\ \/ /\ IsMajority(yes)
                        /\ canSkipPrepare' = [canSkipPrepare EXCEPT ![n] = TRUE]
                        /\ Accept(n, known.value)
                        /\ Receive(m, MyAccepts(n, known.value))
                     \/ /\ ~IsMajority(yes)
                        /\ granted' = [granted EXCEPT ![n] = yes]
                        /\ value' = [value EXCEPT ![n] = known.value]
                        /\ Receive(m, {})
                        /\ UNCHANGED <<canSkipPrepare, phase>>
  BY DEF OnPrepareReply
<1>2. m.bal = Own(n) /\ m \in msgs /\ m.type = "prepareReply"
  BY <1>1, ReplyIsOwn DEF Inbox
<1>3. SameAcceptor /\ UNCHANGED <<instanceID, proposalID>>
  BY <1>1 DEF SameAcceptor, learnVars, acceptorVars, historyVars, passVars
<1>4. SameRound(n) /\ AcceptorStep(n)
  BY <1>3, SameAcceptorStep DEF SameRound
<1>5. PICK k, w : k = AddPreAcceptValue(n, m).bal /\ w = AddPreAcceptValue(n, m).value
  OBVIOUS
<1>6. CASE /\ m.reject # 0
           /\ Receive(m, {})
           /\ UNCHANGED <<value, preAcceptBallot, phase, canSkipPrepare, granted>>
  <2>1. KeepsRound(n) /\ Untouched(n)
    BY <1>3, <1>4, <1>6 DEF KeepsRound, Untouched, SameAcceptor
  <2>2. Quiet
    BY <1>6 DEF Quiet, Receive
  <2> QED
    BY <1>4, <2>1, <2>2, QuietSends DEF Step, ProposerStep
<1>7. CASE /\ m.reject = 0
           /\ preAcceptBallot' = [preAcceptBallot EXCEPT ![n] = k]
           /\ IsMajority(granted[n] \cup {m.from})
           /\ canSkipPrepare' = [canSkipPrepare EXCEPT ![n] = TRUE]
           /\ Accept(n, w)
           /\ Receive(m, MyAccepts(n, w))
  <2>1. OpensBallot(n, m)
    BY <1>1, <1>2, <1>4, <1>5, <1>7 DEF OpensBallot, HearsPromise, PromiseFor, Accept
  <2>2. Untouched(n)
    BY <1>3, <1>7 DEF Untouched, SameAcceptor, Accept
  <2>3. AcceptsSent(n)
    BY <1>1, <1>7 DEF AcceptsSent, Receive, MyAccepts, Accepts, Opens, Accept, Own
  <2>4. RepliesSent(n)
    BY <1>7 DEF RepliesSent, Receive, MyAccepts, Accepts
  <2> QED
    BY <1>2, <1>4, <2>1, <2>2, <2>3, <2>4 DEF Step, ProposerStep
<1>8. CASE /\ m.reject = 0
           /\ preAcceptBallot' = [preAcceptBallot EXCEPT ![n] = k]
           /\ granted' = [granted EXCEPT ![n] = granted[n] \cup {m.from}]
           /\ value' = [value EXCEPT ![n] = w]
           /\ Receive(m, {})
           /\ UNCHANGED <<canSkipPrepare, phase>>
  <2>1. CountsPromise(n, m)
    BY <1>1, <1>2, <1>4, <1>5, <1>8 DEF CountsPromise, HearsPromise, PromiseFor
  <2>2. Untouched(n)
    BY <1>3, <1>8 DEF Untouched, SameAcceptor
  <2>3. Quiet
    BY <1>8 DEF Quiet, Receive
  <2> QED
    BY <1>2, <1>4, <2>1, <2>2, <2>3, QuietSends DEF Step, ProposerStep
<1> QED
  BY <1>1, <1>5, <1>6, <1>7, <1>8

(* Proposer::Prepare, when it is called.                                   *)
LEMMA PrepareStep ==
    ASSUME IInv, NEW n \in Node, NEW newBallot \in BOOLEAN, NEW w,
           Prepare(n, newBallot, w), UNCHANGED instanceID,
           newBallot \/ ~canSkipPrepare[n] \/ phase[n] \in {"preparing", "accepting"}
    PROVE  Step(n)
<1> USE DEF IInv, TypeOK, ProposerTypeOK, AcceptorTypeOK
<1>1. PICK id, b :
        /\ id = NextProposalID(n, newBallot) /\ b = <<id, n>>
        /\ proposalID' = [proposalID EXCEPT ![n] = id]
        /\ phase' = [phase EXCEPT ![n] = "preparing"]
        /\ canSkipPrepare' = [canSkipPrepare EXCEPT ![n] = FALSE]
        /\ \/ SelfPromise(n, b, w)
           \/ SelfReject(n, b, w)
           \/ SelfPromiseNotPersisted(n, b, w)
        /\ UNCHANGED <<acceptedBallot, acceptedValue, votes>>
  BY DEF Prepare
<1>2. /\ id > proposalID[n] \/ (id = proposalID[n] /\ ~newBallot)
      /\ id \in Nat \ {0}
  BY <1>1, NextProposalIDInNat DEF NextProposalID, Larger
<1>3. Own(n)' = b /\ b \in BallotOrNull
  BY <1>1, <1>2 DEF Own, BallotOrNull, Ballot
<1>4. /\ proposalID'[n] > proposalID[n]
         \/ /\ proposalID'[n] = proposalID[n]
            /\ ~canSkipPrepare[n] \/ phase[n] \in {"preparing", "accepting"}
      /\ phase'[n] = "preparing" /\ ~canSkipPrepare'[n]
  BY <1>1, <1>2
<1>5. Quiet
  BY <1>1 DEF Quiet, SelfPromise, SelfReject, SelfPromiseNotPersisted, Send, Prepares
<1>6. /\ promiseBallot' \in {promiseBallot, [promiseBallot EXCEPT ![n] = b]}
      /\ \E z : granted' = [granted EXCEPT ![n] = z]
      /\ \E z : preAcceptBallot' = [preAcceptBallot EXCEPT ![n] = z]
      /\ \E z : value' = [value EXCEPT ![n] = z]
  BY <1>1 DEF SelfPromise, SelfReject, SelfPromiseNotPersisted
<1>7. Untouched(n)
  BY <1>1, <1>6 DEF Untouched
<1>8. AcceptorStep(n)
  <2>1. KeepsVote(n)
    BY <1>1 DEF KeepsVote
  <2>2. BallotGE(promiseBallot'[n], promiseBallot[n])
    BY <1>1, BallotReflexive DEF SelfPromise, SelfReject, SelfPromiseNotPersisted
  <2>3. \/ promises' = promises
        \/ promises' = promises \cup {<<n, instanceID'[n], promiseBallot'[n]>>}
    BY <1>1 DEF SelfPromise, SelfReject, SelfPromiseNotPersisted
  <2> QED
    BY <2>1, <2>2, <2>3 DEF AcceptorStep
<1>9. PreparesBallot(n)
  <2>1. CASE SelfPromise(n, b, w)
    <3>1. /\ granted'[n] = {n} /\ promiseBallot'[n] = b
          /\ <<n, instanceID[n], b>> \in promises'
          /\ acceptedBallot'[n] = acceptedBallot[n]
          /\ preAcceptBallot'[n] = acceptedBallot[n]
          /\ acceptedBallot[n] # NullBallot => value'[n] = acceptedValue[n]
      BY <1>1, <2>1 DEF SelfPromise
    <3> QED
      BY <1>3, <1>4, <3>1 DEF PreparesBallot
  <2>2. CASE SelfReject(n, b, w) \/ SelfPromiseNotPersisted(n, b, w)
    BY <1>4, <2>2 DEF PreparesBallot, SelfReject, SelfPromiseNotPersisted
  <2> QED
    BY <1>1, <2>1, <2>2
<1> QED
  BY <1>5, <1>7, <1>8, <1>9, QuietSends DEF Step, ProposerStep

LEMMA NewValueStep ==
    ASSUME IInv, NEW n \in Node, NEW v \in Value, NewValue(n, v)
    PROVE  Step(n)
<1> USE DEF IInv, TypeOK, ProposerTypeOK
<1>1. PICK w, new :
        /\ w = ValueToPropose(n, v) /\ new = wasReject[n]
        /\ Free(n)
        /\ UNCHANGED instanceID
        /\ \/ /\ canSkipPrepare[n] /\ Accept(n, w) /\ Send(MyAccepts(n, w))
              /\ UNCHANGED <<acceptorVars, proposalID, passVars,
                             preAcceptBallot, canSkipPrepare>>
           \/ ~canSkipPrepare[n] /\ Prepare(n, new, w)
           \/ new /\ Prepare(n, new, w)
  BY DEF NewValue
<1>2. new \in BOOLEAN
  BY <1>1
<1>3. CASE /\ canSkipPrepare[n] /\ Accept(n, w) /\ Send(MyAccepts(n, w))
           /\ UNCHANGED <<acceptorVars, proposalID, passVars,
                          preAcceptBallot, canSkipPrepare>>
  <2>1. SameAcceptor
    BY <1>1, <1>3 DEF SameAcceptor, acceptorVars, passVars
  <2>2. Untouched(n)
    BY <1>3, <2>1 DEF Untouched, SameAcceptor, Accept
  <2>3. SkipsPrepare(n)
    BY <1>1, <1>3
    DEF SkipsPrepare, SameRound, Accept, Free, ValueToPropose
  <2>4. AcceptsSent(n)
    BY <1>1, <1>3 DEF AcceptsSent, Send, MyAccepts, Accepts, Opens, Accept, Own, Free
  <2>5. RepliesSent(n)
    BY <1>3 DEF RepliesSent, Send, MyAccepts, Accepts
  <2> QED
    BY <2>1, <2>2, <2>3, <2>4, <2>5, SameAcceptorStep DEF Step, ProposerStep
<1>4. CASE Prepare(n, new, w) /\ (~canSkipPrepare[n] \/ new)
  BY <1>1, <1>2, <1>4, PrepareStep
<1> QED
  BY <1>1, <1>3, <1>4

LEMMA ProposerTimeoutStep ==
    ASSUME IInv, NEW n \in Node, ProposerTimeout(n)
    PROVE  Step(n)
<1>1. PICK w, new :
        /\ new = wasReject[n] /\ Prepare(n, new, w)
        /\ phase[n] \in {"preparing", "accepting"}
        /\ UNCHANGED instanceID
  BY DEF ProposerTimeout, learnVars
<1>2. new \in BOOLEAN
  BY <1>1 DEF IInv, TypeOK, ProposerTypeOK
<1> QED
  BY <1>1, <1>2, PrepareStep

(* Every handler is a step of its node.                                    *)
LEMMA HandlesStep ==
    ASSUME IInv, IInv', NEW n \in Node, Handles(n)
    PROVE  Step(n)
BY NewValueStep, ProposerTimeoutStep, OnPrepareReplyStep, OnAcceptReplyStep,
   QuietStep, OnPrepareStep, OnAcceptStep, SelfAcceptStep, LearnStep
DEF Handles

LEMMA SomeoneSteps ==
    ASSUME IInv, IInv', Next, RestartNodes = {}
    PROVE  \E n \in Node : Step(n)
BY SomeoneHandles, HandlesStep
-----------------------------------------------------------------------------
(* The histories.                                                          *)

(* What a step adds to the histories, and what it leaves.                  *)
LEMMA StepHistory ==
    ASSUME IInv, NEW n \in Node, Step(n)
    PROVE  /\ instanceID'[n] = instanceID[n] \/ instanceID'[n] = instanceID[n] + 1
           /\ votes \subseteq votes' /\ promises \subseteq promises'
           /\ \A vt \in votes' \ votes :
                /\ vt = <<n, instanceID'[n], acceptedBallot'[n],
                          acceptedValue'[n]>>
                /\ BallotGE(vt[3], promiseBallot[n])
           /\ \A p \in promises' \ promises :
                p = <<n, instanceID'[n], promiseBallot'[n]>>
BY DEF Step, AcceptorStep, KeepsVote, ForgetsVote, TakesVote

(* The ballot an acceptor holds grows within an instance.                  *)
LEMMA AcceptedGrows ==
    ASSUME IInv, NEW n \in Node, Step(n), instanceID'[n] = instanceID[n]
    PROVE  BallotGE(acceptedBallot'[n], acceptedBallot[n])
<1>1. /\ acceptedBallot[n] \in BallotOrNull /\ promiseBallot[n] \in BallotOrNull
      /\ instanceID[n] \in Nat
      /\ BallotGE(promiseBallot[n], acceptedBallot[n])
  BY TypeFacts DEF IInv, HandlerInv, AcceptorOrdered
<1>2. CASE KeepsVote(n)
  BY <1>1, <1>2, BallotReflexive DEF KeepsVote
<1>3. ~ForgetsVote(n)
  BY <1>1 DEF ForgetsVote
<1>4. CASE TakesVote(n)
  <2>1. acceptedBallot'[n] \in BallotOrNull
    <3>1. CASE Asked(instanceID'[n], acceptedBallot'[n], acceptedValue'[n])
      BY <3>1, MessageFields DEF Asked, IInv, TypeOK, BallotOrNull
    <3>2. CASE acceptedBallot'[n] = Own(n)
      BY <3>2, TypeFacts
    <3> QED
      BY <1>4, <3>1, <3>2 DEF TakesVote
  <2> QED
    BY <1>1, <1>4, <2>1, BallotTransitive DEF TakesVote
<1> QED
  BY <1>2, <1>3, <1>4 DEF Step, AcceptorStep

LEMMA VotesHeldStep ==
    ASSUME IInv, IInv', VotesHeld, NEW n \in Node, Step(n)
    PROVE  VotesHeld'
<1> SUFFICES ASSUME NEW vt \in votes'
             PROVE  \/ instanceID'[vt[1]] > vt[2]
                    \/ /\ instanceID'[vt[1]] = vt[2]
                       /\ BallotGE(acceptedBallot'[vt[1]], vt[3])
  BY DEF VotesHeld, BallotGE
<1>1. /\ vt[1] \in Node /\ vt[2] \in Nat /\ vt[3] \in BallotOrNull
      /\ \A a \in Node : /\ acceptedBallot[a] \in BallotOrNull
                         /\ instanceID[a] \in Nat
                         /\ acceptedBallot'[a] \in BallotOrNull
                         /\ instanceID'[a] \in Nat
  <2>1. \A x \in votes : x[1] \in Node /\ x[2] \in Instance /\ x[3] \in Ballot
    BY TypeFacts
  <2>2. vt[1] \in Node /\ vt[2] \in Instance /\ vt[3] \in Ballot
    BY DEF IInv, TypeOK, HistoryTypeOK
  <2>3. \A a \in Node : /\ acceptedBallot'[a] \in BallotOrNull
                        /\ instanceID'[a] \in Nat
    BY BoundAssumption DEF IInv, TypeOK, AcceptorTypeOK, LearnerTypeOK
  <2> QED
    BY <2>2, <2>3, TypeFacts DEF BallotOrNull, Instance
<1>2. CASE vt \notin votes
  BY <1>1, <1>2, StepHistory, BallotReflexive
<1>3. CASE vt \in votes /\ vt[1] # n
  <2>1. /\ instanceID'[vt[1]] = instanceID[vt[1]]
        /\ acceptedBallot'[vt[1]] = acceptedBallot[vt[1]]
    BY <1>1, <1>3 DEF Step, Untouched
  <2> QED
    BY <1>3, <2>1 DEF VotesHeld
<1>4. CASE vt \in votes /\ vt[1] = n
  <2>1. \/ instanceID[n] > vt[2]
        \/ instanceID[n] = vt[2] /\ BallotGE(acceptedBallot[n], vt[3])
    BY <1>4 DEF VotesHeld
  <2>2. CASE instanceID'[n] = instanceID[n] + 1
    BY <1>1, <1>4, <2>1, <2>2
  <2>3. CASE instanceID'[n] = instanceID[n]
    BY <1>1, <1>4, <2>1, <2>3, AcceptedGrows, BallotTransitive
  <2> QED
    BY <2>2, <2>3, StepHistory
<1> QED
  BY <1>2, <1>3, <1>4

LEMMA PromisesReachedStep ==
    ASSUME IInv, IInv', PromisesReached, NEW n \in Node, Step(n)
    PROVE  PromisesReached'
<1>1. \A a \in Node : instanceID[a] \in Nat /\ instanceID'[a] \in Nat
  BY BoundAssumption DEF IInv, TypeOK, LearnerTypeOK
<1>2. \A p \in promises' : p[1] \in Node /\ p[2] \in Nat
  BY DEF IInv, TypeOK, HistoryTypeOK, Instance
<1>3. \A a \in Node : instanceID[a] <= instanceID'[a]
  BY <1>1, StepHistory DEF Step, Untouched
<1>4. ASSUME NEW p \in promises' PROVE p[2] <= instanceID'[p[1]]
  <2>1. CASE p \in promises
    BY <1>1, <1>2, <1>3, <2>1 DEF PromisesReached
  <2>2. CASE p \notin promises
    BY <1>1, <2>2, StepHistory
  <2> QED
    BY <2>1, <2>2
<1> QED
  BY <1>4 DEF PromisesReached

(* A new vote is in no lower ballot than any promise of its acceptor.      *)
LEMMA NewVoteAbove ==
    ASSUME IInv, IInv', PromisesHeld, NEW n \in Node, Step(n),
           NEW vt \in votes' \ votes, NEW p \in promises, p[1] = vt[1]
    PROVE  BallotGE(vt[3], p[3])
<1>1. vt[1] = n /\ BallotGE(vt[3], promiseBallot[n])
  BY StepHistory
<1>2. BallotGE(promiseBallot[n], p[3])
  BY <1>1 DEF PromisesHeld
<1>3. /\ vt[3] \in BallotOrNull /\ promiseBallot[n] \in BallotOrNull
      /\ p[3] \in BallotOrNull
  BY TypeFacts DEF IInv, TypeOK, HistoryTypeOK, BallotOrNull
<1> QED
  BY <1>1, <1>2, <1>3, BallotTransitive

LEMMA PromisesBindStep ==
    ASSUME IInv, IInv', HistoryInv, VotesHeld', NEW n \in Node, Step(n)
    PROVE  PromisesBind'
<1> SUFFICES ASSUME NEW p \in promises', NEW vt \in votes',
                    vt[1] = p[1], p[2] < vt[2]
             PROVE  BallotGE(vt[3], p[3])
  BY DEF PromisesBind, BallotGE
<1>1. CASE p \notin promises
  <2>1. p[1] = n /\ p[2] = instanceID'[n]
    BY <1>1, StepHistory
  <2>2. instanceID'[n] \in Nat /\ vt[2] \in Nat
    BY BoundAssumption DEF IInv, TypeOK, LearnerTypeOK, HistoryTypeOK, Instance
  <2>3. instanceID'[n] > vt[2] \/ instanceID'[n] = vt[2]
    BY <2>1 DEF VotesHeld
  <2> QED
    BY <2>1, <2>2, <2>3
<1>2. CASE p \in promises /\ vt \in votes
  BY <1>2 DEF HistoryInv, PromisesBind
<1>3. CASE p \in promises /\ vt \notin votes
  BY <1>3, NewVoteAbove DEF HistoryInv
<1> QED
  BY <1>1, <1>2, <1>3

LEMMA HistoryStep ==
    ASSUME IInv, IInv', HistoryInv, PromisesHeld', NEW n \in Node, Step(n)
    PROVE  HistoryInv'
BY VotesHeldStep, PromisesReachedStep, PromisesBindStep DEF HistoryInv

-----------------------------------------------------------------------------
(* What has been promised stays promised.                                  *)
LEMMA AnsweredStable ==
    ASSUME IInv, IInv', PromisesHeld, NEW n \in Node, Step(n),
           NEW a, NEW i, NEW b, NEW c, Answered(a, i, b, c)
    PROVE  Answered(a, i, b, c)'
<1>1. <<a, i, b>> \in promises /\ <<a, i, b>> \in promises'
  BY StepHistory DEF Answered
<1>2. ASSUME NEW vt \in votes', vt[1] = a, vt[2] = i
      PROVE  BallotGE(c, vt[3]) \/ BallotGE(vt[3], b)
  <2>1. CASE vt \in votes
    BY <1>2, <2>1 DEF Answered
  <2>2. CASE vt \notin votes
    <3>1. PICK p \in promises : p = <<a, i, b>>
      BY <1>1
    <3> QED
      BY <1>2, <2>2, <3>1, NewVoteAbove
  <2> QED
    BY <2>1, <2>2
<1> QED
  BY <1>1, <1>2 DEF Answered, BallotGE

LEMMA SafeAtStable ==
    ASSUME IInv, IInv', PromisesHeld, NEW n \in Node, Step(n),
           NEW i \in Instance, NEW b \in Ballot, NEW v \in Value, SafeAt(i, b, v)
    PROVE  SafeAt(i, b, v)'
<1>1. ASSUME NEW c \in Ballot, NEW a \in Node, WontVote(a, i, c)
      PROVE  WontVote(a, i, c)'
  <2>1. PICK p \in promises : p[1] = a /\ p[2] <= i /\ Below(c, p[3])
    BY <1>1 DEF WontVote
  <2>2. p \in promises'
    BY StepHistory
  <2>3. ASSUME NEW vt \in votes' \ votes, vt[1] = a, vt[3] = c PROVE FALSE
    BY <2>1, <2>3, NewVoteAbove DEF Below
  <2> QED
    BY <1>1, <2>1, <2>2, <2>3 DEF WontVote, Below, BallotGE
<1>2. ASSUME NEW c \in Ballot, Below(c, b)
      PROVE  \E Q \in SUBSET Node :
                /\ IsMajority(Q)
                /\ \A a \in Q : <<a, i, c, v>> \in votes' \/ WontVote(a, i, c)'
  <2>1. PICK Q \in SUBSET Node :
          /\ IsMajority(Q)
          /\ \A a \in Q : <<a, i, c, v>> \in votes \/ WontVote(a, i, c)
    BY <1>2 DEF SafeAt
  <2> QED
    BY <1>1, <2>1, StepHistory
<1> QED
  BY <1>2 DEF SafeAt, Below, BallotGE, IsMajority
-----------------------------------------------------------------------------
(* The rounds.                                                             *)

LEMMA RepliesTrueStep ==
    ASSUME IInv, IInv', HistoryInv, HistoryInv', RoundInv,
           NEW n \in Node, Step(n)
    PROVE  RepliesTrue'
<1> SUFFICES ASSUME NEW m \in msgs', m.type = "prepareReply", m.reject = 0
             PROVE  /\ Answered(m.from, m.inst, m.bal, m.accepted)'
                    /\ BallotGE(m.bal, m.accepted)
  BY DEF RepliesTrue, BallotGE, Answered
<1>1. CASE m \in msgs
  <2>1. /\ Answered(m.from, m.inst, m.bal, m.accepted)
        /\ BallotGE(m.bal, m.accepted)
    BY <1>1 DEF RoundInv, RepliesTrue
  <2> QED
    BY <2>1, AnsweredStable DEF HistoryInv
<1>2. CASE m \notin msgs
  <2>1. /\ m.from = n /\ m.inst = instanceID'[n]
        /\ m.bal = promiseBallot'[n]
        /\ m.accepted = acceptedBallot'[n]
        /\ <<n, m.inst, m.bal>> \in promises'
    BY <1>2 DEF Step, RepliesSent
  <2>2. BallotGE(m.bal, m.accepted)
    BY <2>1 DEF IInv, HandlerInv, AcceptorOrdered, BallotGE
  <2>3. instanceID'[n] \in Nat
    BY BoundAssumption DEF IInv, TypeOK, LearnerTypeOK
  <2>4. Answered(n, m.inst, m.bal, m.accepted)'
    BY <2>1, <2>3 DEF Answered, HistoryInv, VotesHeld, BallotGE
  <2> QED
    BY <2>1, <2>2, <2>4
<1> QED
  BY <1>1, <1>2

(* A promise that knows of fewer votes knows less.                         *)
LEMMA AnsweredWeaken ==
    ASSUME IInv, NEW a, NEW i, NEW b, NEW c \in BallotOrNull,
           NEW d \in BallotOrNull, Answered(a, i, b, c), BallotGE(d, c)
    PROVE  Answered(a, i, b, d)
<1>1. \A vt \in votes : vt[3] \in BallotOrNull
  BY TypeFacts
<1> QED
  BY <1>1, BallotTransitive DEF Answered

(* The value to propose is that of the highest ballot heard of.            *)
LEMMA HeardOfMost ==
    ASSUME IInv, RoundInv, NEW n \in Node, phase[n] = "preparing",
           NEW m, PromiseFor(n, m), NEW k, k = AddPreAcceptValue(n, m).bal,
           NEW w, w = AddPreAcceptValue(n, m).value
    PROVE  /\ k \in BallotOrNull
           /\ BallotGE(k, preAcceptBallot[n])
           /\ BallotGE(k, m.accepted)
           /\ BallotGE(Own(n), k)
           /\ m.from \in Node
           /\ \A a \in granted[n] \cup {m.from} :
                Answered(a, instanceID[n], Own(n), k)
           /\ \/ k = preAcceptBallot[n] /\ w = value[n]
              \/ /\ k = m.accepted /\ w = m.value /\ k # NullBallot
                 /\ ~BallotGE(preAcceptBallot[n], k)
<1>1. /\ m.accepted \in BallotOrNull /\ preAcceptBallot[n] \in BallotOrNull
      /\ m.from \in Node
  BY TypeFacts, MessageFields DEF PromiseFor, IInv, TypeOK
<1>2. /\ BallotGE(Own(n), m.accepted)
      /\ Answered(m.from, instanceID[n], Own(n), m.accepted)
  BY DEF PromiseFor, RoundInv, RepliesTrue
<1>3. /\ BallotGE(Own(n), preAcceptBallot[n])
      /\ \A a \in granted[n] :
            Answered(a, instanceID[n], Own(n), preAcceptBallot[n])
  BY DEF RoundInv, GrantsTrue
<1>4. \/ k = preAcceptBallot[n] /\ w = value[n] /\ BallotGE(k, m.accepted)
      \/ /\ k = m.accepted /\ w = m.value /\ k # NullBallot
         /\ ~BallotGE(preAcceptBallot[n], k)
  BY <1>1, BallotReflexive DEF AddPreAcceptValue
<1>5. BallotGE(k, preAcceptBallot[n]) /\ BallotGE(k, m.accepted)
  BY <1>1, <1>4, BallotReflexive, BallotOrder
<1>6. \A a \in granted[n] \cup {m.from} : Answered(a, instanceID[n], Own(n), k)
  BY <1>1, <1>2, <1>3, <1>4, <1>5, AnsweredWeaken
<1> QED
  BY <1>1, <1>2, <1>3, <1>4, <1>5, <1>6

LEMMA GrantsTrueStep ==
    ASSUME IInv, IInv', HistoryInv, HistoryInv', RoundInv,
           NEW n \in Node, Step(n)
    PROVE  GrantsTrue'
<1> DEFINE Grants(x) ==
        /\ phase[x] = "preparing" =>
            /\ ~canSkipPrepare[x]
            /\ BallotGE(Own(x), preAcceptBallot[x])
            /\ \A a \in granted[x] :
                    Answered(a, instanceID[x], Own(x), preAcceptBallot[x])
        /\ phase[x] \in {"selfAccept", "accepting"} => canSkipPrepare[x]
<1>1. \A x \in Node : Grants(x)
  BY DEF RoundInv, GrantsTrue
<1>2. ASSUME NEW x \in Node, SameRound(x),
             phase'[x] = "preparing" =>
                /\ phase[x] = "preparing"
                /\ granted'[x] = granted[x]
                /\ preAcceptBallot'[x] = preAcceptBallot[x],
             phase'[x] \in {"selfAccept", "accepting"} =>
                phase[x] \in {"selfAccept", "accepting"},
             canSkipPrepare'[x] = canSkipPrepare[x]
      PROVE  Grants(x)'
  <2>1. CASE phase'[x] = "preparing"
    <3>1. PICK i, b, c :
            i = instanceID[x] /\ b = Own(x) /\ c = preAcceptBallot[x]
      OBVIOUS
    <3>2. i = instanceID'[x] /\ b = Own(x)' /\ c = preAcceptBallot'[x]
      BY <1>2, <2>1, <3>1 DEF SameRound, Own
    <3>3. \A a \in granted[x] : Answered(a, i, b, c)'
      BY <1>1, <1>2, <2>1, <3>1, AnsweredStable DEF HistoryInv
    <3>4. \A a \in granted'[x] : Answered(a, instanceID[x], Own(x), preAcceptBallot[x])'
      BY <1>2, <2>1, <3>2, <3>3 DEF Answered, BallotGE, Own
    <3> QED
      BY <1>1, <1>2, <2>1, <3>1, <3>2, <3>4 DEF BallotGE
  <2>2. CASE phase'[x] # "preparing"
    BY <1>1, <1>2, <2>2
  <2> QED
    BY <2>1, <2>2
<1>3. ASSUME NEW x \in Node \ {n} PROVE Grants(x)'
  <2> HIDE DEF Grants
  <2>1. /\ SameRound(x) /\ phase'[x] = phase[x]
        /\ granted'[x] = granted[x] /\ canSkipPrepare'[x] = canSkipPrepare[x]
        /\ preAcceptBallot'[x] = preAcceptBallot[x]
    BY DEF Step, Untouched, SameRound
  <2> QED
    BY <1>2, <2>1
<1>4. Grants(n)'
  <2>1. CASE KeepsRound(n)
    <3> HIDE DEF Grants
    <3> QED
      BY <1>2, <2>1 DEF KeepsRound
  <2>2. CASE EndsInstance(n) \/ SkipsPrepare(n)
    BY <2>2 DEF EndsInstance, SkipsPrepare
  <2>3. ASSUME NEW m, OpensBallot(n, m) PROVE Grants(n)'
    BY <2>3 DEF OpensBallot
  <2>4. ASSUME NEW m, CountsPromise(n, m) PROVE Grants(n)'
    <3>1. PICK i, b, k, w : /\ i = instanceID[n] /\ b = Own(n)
                            /\ k = AddPreAcceptValue(n, m).bal
                            /\ w = AddPreAcceptValue(n, m).value
      OBVIOUS
    <3>2. phase[n] = "preparing" /\ PromiseFor(n, m)
      BY <2>4 DEF CountsPromise, HearsPromise
    <3>3. /\ i = instanceID'[n] /\ b = Own(n)' /\ k = preAcceptBallot'[n]
          /\ granted'[n] = granted[n] \cup {m.from}
      BY <2>4, <3>1 DEF CountsPromise, HearsPromise, SameRound, Own
    <3>4. /\ BallotGE(b, k)
          /\ \A a \in granted[n] \cup {m.from} : Answered(a, i, b, k)
      BY <3>1, <3>2, HeardOfMost
    <3>5. \A a \in granted[n] \cup {m.from} : Answered(a, i, b, k)'
      BY <3>4, AnsweredStable DEF HistoryInv
    <3>6. \A a \in granted'[n] : Answered(a, instanceID[n], Own(n), preAcceptBallot[n])'
      BY <3>3, <3>5 DEF Answered, BallotGE, Own
    <3>7. ~canSkipPrepare'[n] /\ phase'[n] = "preparing"
      BY <1>1, <2>4, <3>2 DEF CountsPromise
    <3> QED
      BY <3>3, <3>4, <3>6, <3>7 DEF BallotGE
  <2>5. CASE PreparesBallot(n)
    <3>1. phase'[n] = "preparing" /\ ~canSkipPrepare'[n]
      BY <2>5 DEF PreparesBallot
    <3>2. CASE /\ granted'[n] = {n}
               /\ promiseBallot'[n] = Own(n)'
               /\ <<n, instanceID[n], Own(n)'>> \in promises'
               /\ acceptedBallot'[n] = acceptedBallot[n]
               /\ preAcceptBallot'[n] = acceptedBallot[n]
      <4>1. BallotGE(Own(n), preAcceptBallot[n])'
        BY <3>2 DEF IInv, HandlerInv, AcceptorOrdered, BallotGE, Own
      <4>2. instanceID'[n] \in Nat /\ instanceID'[n] = instanceID[n]
        BY <2>5, BoundAssumption DEF IInv, TypeOK, LearnerTypeOK, PreparesBallot
      <4>3. Answered(n, instanceID[n], Own(n), preAcceptBallot[n])'
        BY <3>2, <4>2 DEF HistoryInv, VotesHeld, Answered, BallotGE, Own
      <4> QED
        BY <3>1, <3>2, <4>1, <4>3
    <3>3. CASE granted'[n] = {} /\ preAcceptBallot'[n] = NullBallot
      <4>1. Own(n)' \in BallotOrNull
        BY DEF Own, IInv, TypeOK, ProposerTypeOK, BallotOrNull, Ballot
      <4>2. BallotGE(Own(n), preAcceptBallot[n])'
        BY <3>3, <4>1, BallotReflexive DEF BallotGE, Own
      <4> QED
        BY <3>1, <3>3, <4>2
    <3> QED
      BY <2>5, <3>2, <3>3 DEF PreparesBallot
  <2> HIDE DEF Grants
  <2> QED
    BY <2>1, <2>2, <2>3, <2>4, <2>5 DEF Step, ProposerStep
<1>5. \A x \in Node : Grants(x)'
  BY <1>3, <1>4
<1> QED
  BY <1>5 DEF GrantsTrue, Answered, BallotGE, Own
LEMMA SkipsTrueStep ==
    ASSUME IInv, IInv', HistoryInv, RoundInv, NEW n \in Node, Step(n)
    PROVE  SkipsTrue'
<1> DEFINE Promised(x, i, b, v) ==
        \E Q \in SUBSET Node, j \in Instance :
            /\ IsMajority(Q)
            /\ \A a \in Q : <<a, j, b>> \in promises
            /\ j <= i
            /\ v = None => j < i
<1>1. \A x \in Node : /\ instanceID[x] \in Nat /\ instanceID'[x] \in Nat
                      /\ phase'[x] # "idle" => value'[x] # None
  BY BoundAssumption DEF IInv, TypeOK, LearnerTypeOK, HandlerInv, ProposerReady
<1>2. \A x \in Node : canSkipPrepare[x] =>
        Promised(x, instanceID[x], Own(x), value[x])
  BY DEF RoundInv, SkipsTrue
<1>3. ASSUME NEW x \in Node, canSkipPrepare[x],
             proposalID'[x] = proposalID[x],
             \/ /\ instanceID'[x] = instanceID[x]
                /\ value'[x] = value[x] \/ value'[x] # None
             \/ instanceID'[x] = instanceID[x] + 1
      PROVE  Promised(x, instanceID[x], Own(x), value[x])'
  <2>1. PICK Q \in SUBSET Node, j \in Instance :
          /\ IsMajority(Q)
          /\ \A a \in Q : <<a, j, Own(x)>> \in promises
          /\ j <= instanceID[x]
          /\ value[x] = None => j < instanceID[x]
    BY <1>2, <1>3
  <2>2. \A a \in Q : <<a, j, Own(x)'>> \in promises'
    BY <1>3, <2>1, StepHistory DEF Own
  <2>3. j <= instanceID'[x] /\ (value'[x] = None => j < instanceID'[x])
    BY <1>1, <1>3, <2>1 DEF Instance
  <2> QED
    BY <2>1, <2>2, <2>3 DEF IsMajority, Own
<1>4. ASSUME NEW m, OpensBallot(n, m)
      PROVE  Promised(n, instanceID[n], Own(n), value[n])'
  <2>1. /\ SameRound(n) /\ phase[n] = "preparing" /\ PromiseFor(n, m)
        /\ IsMajority(granted[n] \cup {m.from})
        /\ value'[n] # None
    BY <1>1, <1>4 DEF OpensBallot, HearsPromise
  <2>2. /\ \A a \in granted[n] \cup {m.from} :
             <<a, instanceID[n], Own(n)>> \in promises
        /\ granted[n] \cup {m.from} \in SUBSET Node
    BY <2>1, HeardOfMost DEF Answered, IInv, TypeOK, ProposerTypeOK
  <2>3. instanceID[n] \in Instance
    BY <1>1, <2>1, BoundAssumption
    DEF IInv, HandlerInv, ProposerReady, Instance, TypeOK, LearnerTypeOK
  <2>4. \A a \in granted[n] \cup {m.from} :
             <<a, instanceID[n], Own(n)'>> \in promises'
    BY <2>1, <2>2, StepHistory DEF SameRound, Own
  <2>5. instanceID'[n] = instanceID[n] /\ instanceID[n] <= instanceID'[n]
    BY <1>1, <2>1 DEF SameRound
  <2> QED
    BY <2>1, <2>2, <2>3, <2>4, <2>5 DEF IsMajority, Own
<1> HIDE DEF Promised
<1>5. ASSUME NEW x \in Node, canSkipPrepare'[x]
      PROVE  Promised(x, instanceID[x], Own(x), value[x])'
  <2>1. CASE x # n
    BY <1>3, <1>5, <2>1 DEF Step, Untouched
  <2>2. CASE x = n
    <3>1. CASE KeepsRound(n)
      BY <1>3, <1>5, <2>2, <3>1 DEF KeepsRound, SameRound
    <3>2. CASE EndsInstance(n)
      BY <1>3, <1>5, <2>2, <3>2 DEF EndsInstance
    <3>3. CASE SkipsPrepare(n)
      BY <1>1, <1>3, <2>2, <3>3 DEF SkipsPrepare, SameRound
    <3>4. ~PreparesBallot(n)
      BY <1>5, <2>2 DEF PreparesBallot
    <3>5. ASSUME NEW m PROVE ~CountsPromise(n, m)
      BY <1>5, <2>2 DEF CountsPromise, HearsPromise, RoundInv, GrantsTrue
    <3> QED
      BY <1>4, <2>2, <3>1, <3>2, <3>3, <3>4, <3>5 DEF Step, ProposerStep
  <2> QED
    BY <2>1, <2>2
<1> QED
  BY <1>5 DEF SkipsTrue, Promised, IsMajority, Own

LEMMA RoundStep ==
    ASSUME IInv, IInv', HistoryInv, HistoryInv', RoundInv,
           NEW n \in Node, Step(n)
    PROVE  RoundInv'
BY RepliesTrueStep, GrantsTrueStep, SkipsTrueStep DEF RoundInv

-----------------------------------------------------------------------------
(* The proposals.                                                          *)

(* Nothing new is proposed but by opening a ballot.                        *)
LEMMA ProposedStep ==
    ASSUME IInv, IInv', RoundInv, NEW n \in Node, Step(n),
           NEW i \in Instance, NEW b \in Ballot, NEW v \in Value,
           Proposed(i, b, v)'
    PROVE  \/ Proposed(i, b, v)
           \/ Opens(n) /\ i = instanceID[n] /\ b = Own(n) /\ v = value'[n]
<1> DEFINE Now == Opens(n) /\ i = instanceID[n] /\ b = Own(n) /\ v = value'[n]
<1>1. b # NullBallot /\ v # None /\ instanceID[n] \in Nat
  BY NodeAssumption, ValueAssumption, TypeFacts DEF Ballot, NullBallot
<1>2. ASSUME Held(i, b, v)' PROVE Proposed(i, b, v)
  <2>1. PICK a \in Node : /\ instanceID'[a] = i /\ acceptedBallot'[a] = b
                          /\ acceptedValue'[a] = v
    BY <1>2 DEF Held
  <2>2. CASE a # n
    BY <2>1, <2>2 DEF Step, Untouched, Proposed, Held
  <2>3. CASE a = n /\ KeepsVote(n)
    BY <2>1, <2>3 DEF KeepsVote, Proposed, Held
  <2>4. CASE a = n /\ ForgetsVote(n)
    BY <1>1, <2>1, <2>4 DEF ForgetsVote
  <2>5. CASE a = n /\ TakesVote(n)
    <3>1. CASE Asked(i, b, v)
      BY <3>1 DEF Proposed
    <3>2. CASE phase[n] = "selfAccept" /\ instanceID[n] = i /\ b = Own(n) /\ v = value[n]
      <4>1. canSkipPrepare[n]
        BY <3>2 DEF RoundInv, GrantsTrue
      <4> QED
        BY <3>2, <4>1 DEF Proposed, Opened
    <3> QED
      BY <2>1, <2>5, <3>1, <3>2 DEF TakesVote
  <2> QED
    BY <2>2, <2>3, <2>4, <2>5 DEF Step, AcceptorStep
<1>3. ASSUME Voted(i, b, v)' PROVE Proposed(i, b, v)
  <2>1. PICK a \in Node : <<a, i, b, v>> \in votes'
    BY <1>3 DEF Voted
  <2>2. CASE <<a, i, b, v>> \in votes
    BY <2>2 DEF Voted, Proposed
  <2>3. CASE <<a, i, b, v>> \notin votes
    <3>1. <<a, i, b, v>> = <<n, instanceID'[n], acceptedBallot'[n], acceptedValue'[n]>>
      BY <2>1, <2>3, StepHistory
    <3>2. Held(i, b, v)'
      BY <3>1 DEF Held
    <3> QED
      BY <1>2, <3>2
  <2> QED
    BY <2>2, <2>3
<1>4. ASSUME Asked(i, b, v)' PROVE Proposed(i, b, v) \/ Now
  <2>1. PICK m \in msgs' : m.type = "accept" /\ m.inst = i /\ m.bal = b /\ m.value = v
    BY <1>4 DEF Asked
  <2>2. CASE m \in msgs
    BY <2>1, <2>2 DEF Asked, Proposed
  <2>3. CASE m \notin msgs
    BY <2>1, <2>3 DEF Step, AcceptsSent
  <2> QED
    BY <2>2, <2>3
<1>5. ASSUME Reported(i, b, v)' PROVE Proposed(i, b, v)
  <2>1. PICK m \in msgs' : /\ m.type = "prepareReply" /\ m.inst = i
                           /\ m.accepted = b /\ m.value = v
    BY <1>5 DEF Reported
  <2>2. CASE m \in msgs
    BY <2>1, <2>2 DEF Reported, Proposed
  <2>3. CASE m \notin msgs
    <3>1. /\ m.inst = instanceID'[n]
          /\ m.accepted = acceptedBallot'[n] /\ m.value = acceptedValue'[n]
      BY <1>1, <2>1, <2>3 DEF Step, RepliesSent
    <3>2. Held(i, b, v)'
      BY <2>1, <3>1 DEF Held
    <3> QED
      BY <1>2, <3>2
  <2> QED
    BY <2>2, <2>3
<1>6. ASSUME NEW x \in Node, phase[x] = "preparing", instanceID[x] = i,
             preAcceptBallot[x] = b, value[x] = v
      PROVE  Proposed(i, b, v)
  BY <1>6 DEF Adopted, Proposed
<1>7. ASSUME NEW m, HearsPromise(n, m), instanceID[n] = i,
             preAcceptBallot'[n] = b, value'[n] = v
      PROVE  Proposed(i, b, v)
  <2>1. /\ phase[n] = "preparing" /\ PromiseFor(n, m)
        /\ \/ preAcceptBallot[n] = b /\ value[n] = v
           \/ m.accepted = b /\ m.value = v
    BY <1>7 DEF HearsPromise, AddPreAcceptValue
  <2> QED
    BY <1>6, <1>7, <2>1 DEF PromiseFor, Reported, Proposed
<1>8. ASSUME Adopted(i, b, v)' PROVE Proposed(i, b, v)
  <2>1. PICK x \in Node : /\ phase'[x] = "preparing" /\ instanceID'[x] = i
                          /\ preAcceptBallot'[x] = b /\ value'[x] = v
    BY <1>8 DEF Adopted
  <2>2. CASE x # n
    BY <1>6, <2>1, <2>2 DEF Step, Untouched
  <2>3. CASE x = n /\ KeepsRound(n)
    BY <1>6, <2>1, <2>3 DEF KeepsRound, SameRound
  <2>4. CASE x = n /\ (EndsInstance(n) \/ SkipsPrepare(n))
    BY <2>1, <2>4 DEF EndsInstance, SkipsPrepare
  <2>5. ASSUME x = n, NEW m, OpensBallot(n, m) \/ CountsPromise(n, m)
        PROVE  Proposed(i, b, v)
    BY <1>7, <2>1, <2>5 DEF OpensBallot, CountsPromise, HearsPromise, SameRound
  <2>6. CASE x = n /\ PreparesBallot(n)
    <3>1. /\ instanceID[n] = i /\ acceptedBallot[n] = b /\ acceptedValue[n] = v
      BY <1>1, <2>1, <2>6 DEF PreparesBallot
    <3> QED
      BY <3>1 DEF Held, Proposed
  <2> QED
    BY <2>2, <2>3, <2>4, <2>5, <2>6 DEF Step, ProposerStep
<1>9. ASSUME Opened(i, b, v)' PROVE Proposed(i, b, v) \/ Now
  <2>1. PICK x \in Node : /\ canSkipPrepare'[x] /\ instanceID'[x] = i
                          /\ b = Own(x)' /\ value'[x] = v
    BY <1>9 DEF Opened
  <2>2. ASSUME canSkipPrepare[x], instanceID[x] = i, b = Own(x), value[x] = v
        PROVE  Proposed(i, b, v)
    BY <2>2 DEF Opened, Proposed
  <2>3. CASE x # n
    BY <2>1, <2>2, <2>3 DEF Step, Untouched, Own
  <2>4. CASE x = n /\ KeepsRound(n)
    BY <2>1, <2>2, <2>4 DEF KeepsRound, SameRound, Own
  <2>5. CASE x = n /\ EndsInstance(n)
    BY <1>1, <2>1, <2>5 DEF EndsInstance
  <2>6. CASE x = n /\ SkipsPrepare(n)
    BY <2>1, <2>6 DEF SkipsPrepare, SameRound, Opens, Own
  <2>7. ASSUME x = n, NEW m, OpensBallot(n, m) PROVE Now
    BY <2>1, <2>7 DEF OpensBallot, HearsPromise, SameRound, Opens, Own
  <2>8. ASSUME x = n, NEW m, CountsPromise(n, m) PROVE FALSE
    BY <2>1, <2>8 DEF CountsPromise, HearsPromise, RoundInv, GrantsTrue
  <2>9. CASE x = n /\ PreparesBallot(n)
    BY <2>1, <2>9 DEF PreparesBallot
  <2> QED
    BY <2>3, <2>4, <2>5, <2>6, <2>7, <2>8, <2>9 DEF Step, ProposerStep
<1> QED
  BY <1>2, <1>3, <1>4, <1>5, <1>8, <1>9 DEF Proposed
(* A proposer that opens its ballot has not proposed another value in it.  *)
LEMMA OpensOne ==
    ASSUME AInv, IInv, NEW n \in Node, Step(n), Opens(n),
           instanceID[n] \in Instance,
           NEW w \in Value, Proposed(instanceID[n], Own(n), w)
    PROVE  value'[n] = w
<1>1. Own(n) \in Ballot /\ Own(n)[1] = proposalID[n] /\ Own(n)[2] = n
  BY TypeFacts DEF Own
<1>2. instanceID[n] \in Nat /\ proposalID[n] \in Nat
  BY TypeFacts DEF IInv, TypeOK, ProposerTypeOK
<1>3. Remembers(n, Own(n), w)
  BY <1>1, <1>2 DEF AInv, ProposalInv, OwnerKnows
<1>4. value[n] = w /\ w # None
  BY <1>3, ValueAssumption DEF Remembers
<1>5. CASE SkipsPrepare(n)
  BY <1>4, <1>5 DEF SkipsPrepare
<1>6. ASSUME NEW m, OpensBallot(n, m) PROVE value'[n] = w
  <2>1. PICK k, v : k = AddPreAcceptValue(n, m).bal /\ v = AddPreAcceptValue(n, m).value
    OBVIOUS
  <2>2. /\ phase[n] = "preparing" /\ PromiseFor(n, m)
        /\ value'[n] = v
    BY <1>6, <2>1 DEF OpensBallot, HearsPromise
  <2>3. preAcceptBallot[n] = Own(n)
    BY <1>3, <2>2 DEF Remembers, AInv, RoundInv, GrantsTrue
  <2>4. /\ k \in BallotOrNull /\ BallotGE(Own(n), k)
        /\ \/ k = preAcceptBallot[n] /\ v = value[n]
           \/ ~BallotGE(preAcceptBallot[n], k)
    BY <2>1, <2>2, HeardOfMost DEF AInv
  <2> QED
    BY <1>4, <2>2, <2>3, <2>4
<1>7. ~KeepsRound(n) /\ ~EndsInstance(n) /\ ~PreparesBallot(n)
  BY DEF Opens, KeepsRound, EndsInstance, PreparesBallot
<1>8. ASSUME NEW m, CountsPromise(n, m) PROVE FALSE
  BY <1>8 DEF Opens, CountsPromise
<1> QED
  BY <1>5, <1>6, <1>7, <1>8 DEF Step, ProposerStep

(* The value it opens its ballot with is safe: on promises of an earlier   *)
(* instance every value is, and on those of a majority the value accepted  *)
(* in the highest ballot they tell of.                                     *)
LEMMA SkipIsSafe ==
    ASSUME AInv, IInv, NEW n \in Node, SkipsPrepare(n),
           instanceID[n] \in Instance, value'[n] \in Value
    PROVE  SafeAt(instanceID[n], Own(n), value'[n])
<1>1. Own(n) \in Ballot
  BY TypeFacts
<1>2. CASE value[n] # None
  <2>1. Proposed(instanceID[n], Own(n), value'[n])
    BY <1>2 DEF SkipsPrepare, Proposed, Opened
  <2> QED
    BY <1>1, <2>1 DEF AInv, ProposalInv, ProposalsSafe
<1>3. CASE value[n] = None
  <2>1. PICK Q \in SUBSET Node, j \in Instance :
          /\ IsMajority(Q)
          /\ \A a \in Q : <<a, j, Own(n)>> \in promises
          /\ j < instanceID[n]
    BY <1>3 DEF SkipsPrepare, AInv, RoundInv, SkipsTrue
  <2>2. ASSUME NEW c \in Ballot, Below(c, Own(n)), NEW a \in Q
        PROVE  WontVote(a, instanceID[n], c)
    <3>1. PICK p \in promises : p = <<a, j, Own(n)>>
      BY <2>1
    <3>2. \A vt \in votes : vt[1] = a /\ vt[2] = instanceID[n] =>
                BallotGE(vt[3], Own(n))
      BY <2>1, <3>1 DEF AInv, HistoryInv, PromisesBind
    <3>3. j <= instanceID[n]
      BY <2>1 DEF Instance
    <3> QED
      BY <2>2, <3>1, <3>2, <3>3 DEF WontVote, Below
  <2> QED
    BY <2>1, <2>2 DEF SafeAt
<1> QED
  BY <1>2, <1>3

LEMMA OpenIsSafe ==
    ASSUME AInv, IInv, NEW n \in Node, NEW m, OpensBallot(n, m),
           instanceID[n] \in Instance, value'[n] \in Value
    PROVE  SafeAt(instanceID[n], Own(n), value'[n])
<1>1. PICK i, b, k, v :
        /\ i = instanceID[n] /\ b = Own(n)
        /\ k = AddPreAcceptValue(n, m).bal /\ v = AddPreAcceptValue(n, m).value
  OBVIOUS
<1>2. /\ phase[n] = "preparing" /\ PromiseFor(n, m) /\ v = value'[n]
      /\ IsMajority(granted[n] \cup {m.from})
  BY <1>1 DEF OpensBallot, HearsPromise
<1>3. /\ k \in BallotOrNull /\ m.from \in Node
      /\ \A a \in granted[n] \cup {m.from} : Answered(a, i, b, k)
      /\ \/ k = preAcceptBallot[n] /\ v = value[n]
         \/ k = m.accepted /\ v = m.value
  <2>1. phase[n] = "preparing" /\ PromiseFor(n, m) /\ RoundInv
    BY <1>2 DEF AInv
  <2>2. /\ k \in BallotOrNull /\ m.from \in Node
        /\ \A a \in granted[n] \cup {m.from} :
                Answered(a, instanceID[n], Own(n), k)
        /\ \/ k = preAcceptBallot[n] /\ v = value[n]
           \/ k = m.accepted /\ v = m.value
    BY <1>1, <2>1, HeardOfMost
  <2> QED
    BY <1>1, <2>2
<1>4. granted[n] \cup {m.from} \in SUBSET Node
  BY <1>3 DEF IInv, TypeOK, ProposerTypeOK
<1>5. i \in Instance /\ b \in Ballot /\ v \in Value /\ i \in Nat
  BY <1>1, <1>2, TypeFacts
<1>6. Adopted(i, k, v) \/ Reported(i, k, v)
  BY <1>1, <1>2, <1>3 DEF Adopted, Reported, PromiseFor
<1>7. ASSUME NEW c \in Ballot, Below(c, b), NEW a \in granted[n] \cup {m.from},
             ~BallotGE(k, c) \/ c = k
      PROVE  <<a, i, c, v>> \in votes \/ WontVote(a, i, c)
  <2>1. /\ <<a, i, b>> \in promises
        /\ \A vt \in votes : vt[1] = a /\ vt[2] = i =>
                BallotGE(k, vt[3]) \/ BallotGE(vt[3], b)
    BY <1>3 DEF Answered
  <2>2. PICK p \in promises : p[1] = a /\ p[2] = i /\ p[3] = b
    BY <2>1
  <2>3. WontVote(a, i, c) \/ \E vt \in votes : vt[1] = a /\ vt[2] = i /\ vt[3] = c
    BY <1>5, <1>7, <2>2 DEF WontVote
  <2>4. ASSUME NEW vt \in votes, vt[1] = a, vt[2] = i, vt[3] = c
        PROVE  <<a, i, c, v>> \in votes
    <3>1. c = k
      BY <1>7, <2>1, <2>4 DEF Below
    <3>2. /\ vt[1] \in Node /\ vt[4] \in Value /\ vt = <<a, i, c, vt[4]>>
      BY <2>4, TypeFacts
    <3>3. Proposed(i, c, vt[4]) /\ Proposed(i, c, v)
      BY <1>6, <2>4, <3>1, <3>2 DEF Proposed, Voted
    <3>4. vt[4] = v
      BY <1>5, <3>2, <3>3 DEF AInv, ProposalInv, OneProposal
    <3> QED
      BY <3>2, <3>4
  <2> QED
    BY <2>3, <2>4
<1>8. ASSUME NEW c \in Ballot, Below(c, b)
      PROVE  \E Q \in SUBSET Node :
                /\ IsMajority(Q)
                /\ \A a \in Q : <<a, i, c, v>> \in votes \/ WontVote(a, i, c)
  <2>1. CASE ~BallotGE(k, c) \/ c = k
    BY <1>2, <1>4, <1>7, <1>8, <2>1
  <2>2. CASE BallotGE(k, c) /\ c # k
    <3>1. c \in BallotOrNull
      BY DEF BallotOrNull
    <3>2. Below(c, k) /\ k \in Ballot
      BY <1>3, <2>2, <3>1, BallotOrder DEF Below, BallotOrNull
    <3>3. SafeAt(i, k, v)
      BY <1>5, <1>6, <3>2 DEF Proposed, AInv, ProposalInv, ProposalsSafe
    <3> QED
      BY <3>2, <3>3 DEF SafeAt
  <2> QED
    BY <2>1, <2>2
<1> QED
  BY <1>1, <1>2, <1>8 DEF SafeAt

LEMMA OpensSafe ==
    ASSUME AInv, IInv, NEW n \in Node, Step(n), Opens(n),
           instanceID[n] \in Instance, value'[n] \in Value
    PROVE  SafeAt(instanceID[n], Own(n), value'[n])
<1>1. ~KeepsRound(n) /\ ~EndsInstance(n) /\ ~PreparesBallot(n)
  BY DEF Opens, KeepsRound, EndsInstance, PreparesBallot
<1>2. ASSUME NEW m, CountsPromise(n, m) PROVE FALSE
  BY <1>2 DEF Opens, CountsPromise
<1> QED
  BY <1>1, <1>2, SkipIsSafe, OpenIsSafe DEF Step, ProposerStep
(* A proposer that prepares again forgets its own proposal only if it      *)
(* takes a higher ballot.                                                  *)
LEMMA PrepareRemembers ==
    ASSUME AInv, IInv, IInv', NEW n \in Node, PreparesBallot(n),
           RetryKeepsVote(n), proposalID'[n] = proposalID[n],
           instanceID[n] \in Instance,
           NEW b \in Ballot, NEW v \in Value, b = Own(n),
           Proposed(instanceID[n], b, v), Remembers(n, b, v)
    PROVE  Remembers(n, b, v)'
<1>1. value[n] = v /\ v # None /\ proposalID[n] = b[1] /\ b # NullBallot
  BY ValueAssumption, NodeAssumption DEF Remembers, Ballot, NullBallot
<1>2. HasOpened(n)
  <2>1. CASE phase[n] \in {"selfAccept", "accepting"}
    BY <2>1 DEF HasOpened
  <2>2. CASE phase[n] \notin {"selfAccept", "accepting"}
    <3>1. ~canSkipPrepare[n]
      <4>1. \/ proposalID'[n] > proposalID[n]
            \/ ~canSkipPrepare[n] \/ phase[n] \in {"preparing", "accepting"}
        BY DEF PreparesBallot
      <4>2. proposalID[n] \in Nat
        BY DEF IInv, TypeOK, ProposerTypeOK
      <4>3. ~canSkipPrepare[n] \/ phase[n] = "preparing"
        BY <2>2, <4>1, <4>2
      <4> QED
        BY <4>3 DEF AInv, RoundInv, GrantsTrue
    <3> QED
      BY <1>1, <3>1 DEF HasOpened, Remembers
  <2> QED
    BY <2>1, <2>2
<1>3. preAcceptBallot'[n] = b
  BY <1>2 DEF RetryKeepsVote, PreparesBallot
<1>4. acceptedBallot[n] = b /\ value'[n] = acceptedValue[n]
  BY <1>1, <1>3 DEF PreparesBallot
<1>5. acceptedValue[n] \in Value
  BY <1>1, <1>4
  DEF IInv, HandlerInv, AcceptorOrdered, TypeOK, AcceptorTypeOK, ValueOrNone
<1>6. Proposed(instanceID[n], b, acceptedValue[n])
  BY <1>4 DEF Proposed, Held
<1>7. acceptedValue[n] = v
  BY <1>5, <1>6 DEF AInv, ProposalInv, OneProposal
<1> QED
  BY <1>1, <1>3, <1>4, <1>7 DEF Remembers

LEMMA StepRemembers ==
    ASSUME AInv, IInv, IInv', NEW n \in Node, Step(n), RetryKeepsVote(n),
           instanceID[n] \in Instance, instanceID'[n] = instanceID[n],
           NEW b \in Ballot, NEW v \in Value, b = Own(n),
           Proposed(instanceID[n], b, v), Remembers(n, b, v)
    PROVE  proposalID'[n] > b[1] \/ Remembers(n, b, v)'
<1>1. /\ value[n] = v /\ v # None /\ proposalID[n] = b[1]
      /\ canSkipPrepare[n] \/ preAcceptBallot[n] = b
      /\ instanceID[n] \in Nat /\ proposalID[n] \in Nat
  BY ValueAssumption, TypeFacts DEF Remembers, IInv, TypeOK, ProposerTypeOK
<1>2. CASE KeepsRound(n) \/ SkipsPrepare(n)
  BY <1>1, <1>2 DEF KeepsRound, SkipsPrepare, SameRound, Remembers
<1>3. ~EndsInstance(n)
  BY <1>1 DEF EndsInstance
<1>4. ASSUME NEW m, OpensBallot(n, m) PROVE Remembers(n, b, v)'
  <2>1. Opens(n) /\ SameRound(n) /\ canSkipPrepare'[n]
    BY <1>4 DEF Opens, OpensBallot, HearsPromise
  <2>2. value'[n] = v
    BY <2>1, OpensOne
  <2> QED
    BY <1>1, <2>1, <2>2 DEF Remembers, SameRound
<1>5. ASSUME NEW m, CountsPromise(n, m) PROVE Remembers(n, b, v)'
  <2>1. PICK k, w : k = AddPreAcceptValue(n, m).bal /\ w = AddPreAcceptValue(n, m).value
    OBVIOUS
  <2>2. /\ phase[n] = "preparing" /\ PromiseFor(n, m) /\ SameRound(n)
        /\ preAcceptBallot'[n] = k /\ value'[n] = w
    BY <1>5, <2>1 DEF CountsPromise, HearsPromise
  <2>3. preAcceptBallot[n] = b
    BY <1>1, <2>2 DEF AInv, RoundInv, GrantsTrue
  <2>4. /\ k \in BallotOrNull /\ BallotGE(Own(n), k)
        /\ \/ k = preAcceptBallot[n] /\ w = value[n]
           \/ ~BallotGE(preAcceptBallot[n], k)
    BY <2>1, <2>2, HeardOfMost DEF AInv
  <2> QED
    BY <1>1, <2>2, <2>3, <2>4 DEF Remembers, SameRound
<1>6. CASE PreparesBallot(n)
  BY <1>1, <1>6, PrepareRemembers DEF PreparesBallot
<1> QED
  BY <1>2, <1>3, <1>4, <1>5, <1>6 DEF Step, ProposerStep

LEMMA ProposalIDGrows ==
    ASSUME IInv, IInv', NEW n \in Node, Step(n)
    PROVE  proposalID'[n] >= proposalID[n]
<1>1. proposalID[n] \in Nat /\ proposalID'[n] \in Nat
  BY DEF IInv, TypeOK, ProposerTypeOK
<1>2. proposalID'[n] = proposalID[n] \/ proposalID'[n] > proposalID[n]
  BY DEF Step, ProposerStep, KeepsRound, EndsInstance, SkipsPrepare,
         PreparesBallot, OpensBallot, CountsPromise, HearsPromise, SameRound
<1> QED
  BY <1>1, <1>2

LEMMA OwnerKnowsStep ==
    ASSUME AInv, IInv, IInv', NEW n \in Node, Step(n), RetryKeepsVote(n)
    PROVE  OwnerKnows'
<1> DEFINE Knows(i, b, v) ==
        \/ instanceID[b[2]] > i
        \/ /\ instanceID[b[2]] = i
           /\ proposalID[b[2]] > b[1] \/ Remembers(b[2], b, v)
<1> SUFFICES ASSUME NEW i \in Instance, NEW b \in Ballot, NEW v \in Value,
                    Proposed(i, b, v)'
             PROVE  Knows(i, b, v)'
  BY DEF OwnerKnows
<1>1. /\ b[2] \in Node /\ b[1] \in Nat /\ b = <<b[1], b[2]>> /\ i \in Nat
      /\ \A x \in Node : /\ instanceID[x] \in Nat /\ instanceID'[x] \in Nat
                         /\ proposalID[x] \in Nat /\ proposalID'[x] \in Nat
  BY BoundAssumption
  DEF Ballot, IInv, TypeOK, LearnerTypeOK, ProposerTypeOK, Instance
<1>2. CASE Opens(n) /\ i = instanceID[n] /\ b = Own(n) /\ v = value'[n]
  <2>1. b[1] = proposalID[n] /\ b[2] = n
    BY <1>2 DEF Own
  <2>2. SameRound(n) /\ canSkipPrepare'[n]
    BY <1>2 DEF Opens, Step, ProposerStep, KeepsRound, EndsInstance,
      SkipsPrepare, PreparesBallot, OpensBallot, CountsPromise, HearsPromise
  <2> QED
    BY <1>2, <2>1, <2>2 DEF SameRound, Remembers
<1>3. CASE Proposed(i, b, v)
  <2>1. Knows(i, b, v)
    BY <1>3 DEF AInv, ProposalInv, OwnerKnows
  <2>2. CASE b[2] # n
    BY <1>1, <2>1, <2>2 DEF Step, Untouched, Remembers
  <2>3. CASE b[2] = n /\ (instanceID[n] > i \/ instanceID'[n] = instanceID[n] + 1)
    BY <1>1, <2>1, <2>3, StepHistory
  <2>4. CASE b[2] = n /\ instanceID[n] = i /\ instanceID'[n] = i
    <3>1. CASE proposalID[n] > b[1]
      BY <1>1, <2>4, <3>1, ProposalIDGrows
    <3>2. CASE Remembers(n, b, v)
      <4>1. b = Own(n)
        BY <1>1, <2>4, <3>2 DEF Remembers, Own
      <4>2. proposalID'[n] > b[1] \/ Remembers(n, b, v)'
        BY <1>3, <2>4, <3>2, <4>1, StepRemembers
      <4> QED
        BY <2>4, <4>2 DEF Remembers
    <3> QED
      BY <1>1, <2>1, <2>4, <3>1, <3>2
  <2> QED
    BY <2>1, <2>2, <2>3, <2>4, StepHistory
<1> QED
  BY <1>2, <1>3, ProposedStep DEF AInv

LEMMA ProposalStep ==
    ASSUME AInv, IInv, IInv', NEW n \in Node, Step(n), RetryKeepsVote(n)
    PROVE  ProposalInv'
<1>1. ASSUME NEW i \in Instance, NEW b \in Ballot, NEW v \in Value,
             Proposed(i, b, v)'
      PROVE  SafeAt(i, b, v)'
  <2>1. CASE Proposed(i, b, v)
    <3>1. SafeAt(i, b, v)
      BY <2>1 DEF AInv, ProposalInv, ProposalsSafe
    <3> QED
      BY <3>1, SafeAtStable DEF AInv, HistoryInv
  <2>2. CASE Opens(n) /\ i = instanceID[n] /\ b = Own(n) /\ v = value'[n]
    <3>1. SafeAt(i, b, v)
      BY <2>2, OpensSafe
    <3> QED
      BY <3>1, SafeAtStable DEF AInv, HistoryInv
  <2> QED
    BY <1>1, <2>1, <2>2, ProposedStep DEF AInv
<1>2. ASSUME NEW i \in Instance, NEW b \in Ballot, NEW v \in Value,
             NEW w \in Value, Proposed(i, b, v)', Proposed(i, b, w)'
      PROVE  v = w
  <2>1. \/ Proposed(i, b, v)
        \/ Opens(n) /\ i = instanceID[n] /\ b = Own(n) /\ v = value'[n]
    BY <1>2, ProposedStep DEF AInv
  <2>2. \/ Proposed(i, b, w)
        \/ Opens(n) /\ i = instanceID[n] /\ b = Own(n) /\ w = value'[n]
    BY <1>2, ProposedStep DEF AInv
  <2>3. CASE Proposed(i, b, v) /\ Proposed(i, b, w)
    BY <2>3 DEF AInv, ProposalInv, OneProposal
  <2> QED
    BY <2>1, <2>2, <2>3, OpensOne
<1>3. ProposalsSafe'
  BY <1>1 DEF ProposalsSafe
<1>4. OneProposal'
  BY <1>2 DEF OneProposal
<1> QED
  BY <1>3, <1>4, OwnerKnowsStep DEF ProposalInv
-----------------------------------------------------------------------------
(* The conclusion.                                                         *)

LEMMA AgreementInit == Init => AInv
<1> SUFFICES ASSUME Init PROVE AInv
  OBVIOUS
<1>1. /\ promises = {} /\ votes = {} /\ msgs = {}
      /\ \A n \in Node : /\ phase[n] = "idle" /\ ~canSkipPrepare[n]
                         /\ acceptedBallot[n] = NullBallot
  BY DEF Init
<1>2. HistoryInv
  BY <1>1
  DEF HistoryInv, VotesHeld, PromisesHeld, PromisesReached, PromisesBind
<1>3. RoundInv
  BY <1>1 DEF RoundInv, RepliesTrue, GrantsTrue, SkipsTrue
<1>4. ASSUME NEW i \in Instance, NEW b \in Ballot, NEW v \in Value
      PROVE  ~Proposed(i, b, v)
  <2>1. b # NullBallot
    BY DEF Ballot, NullBallot
  <2> QED
    BY <1>1, <2>1
    DEF Proposed, Voted, Asked, Held, Reported, Adopted, Opened
<1>5. ProposalInv
  BY <1>4 DEF ProposalInv, OneProposal, ProposalsSafe, OwnerKnows
<1> QED
  BY <1>2, <1>3, <1>5 DEF AInv

LEMMA AgreementStep ==
    ASSUME RestartNodes = {}, IInv, IInv', AInv, [Next]_vars,
           \A n \in Node : RetryKeepsVote(n)
    PROVE  AInv'
<1>1. CASE UNCHANGED vars
  <2> USE <1>1
      DEF vars, learnVars, acceptorVars, proposerVars, historyVars, passVars
  <2>1. HistoryInv'
    BY DEF AInv, HistoryInv, VotesHeld, PromisesHeld, PromisesReached,
           PromisesBind, BallotGE
  <2>2. RoundInv'
    BY DEF AInv, RoundInv, RepliesTrue, GrantsTrue, SkipsTrue, Answered,
           BallotGE, Own, IsMajority
  <2>3. \A i, b, v : Proposed(i, b, v)' <=> Proposed(i, b, v)
    BY DEF Proposed, Voted, Asked, Held, Reported, Adopted, Opened, Own
  <2>4. \A i, b, v : SafeAt(i, b, v)' <=> SafeAt(i, b, v)
    BY DEF SafeAt, WontVote, Below, BallotGE, IsMajority
  <2>5. \A n, b, v : Remembers(n, b, v)' <=> Remembers(n, b, v)
    BY DEF Remembers
  <2>6. ProposalInv'
    BY <2>3, <2>4, <2>5
    DEF AInv, ProposalInv, OneProposal, ProposalsSafe, OwnerKnows
  <2> QED
    BY <2>1, <2>2, <2>6 DEF AInv
<1>2. CASE Next
  <2>1. PICK n \in Node : Step(n)
    BY <1>2, SomeoneSteps
  <2>2. PromisesHeld'
    BY PromisesHeldStep DEF AInv, HistoryInv
  <2>3. HistoryInv'
    BY <2>1, <2>2, HistoryStep DEF AInv
  <2>4. RoundInv'
    BY <2>1, <2>3, RoundStep DEF AInv
  <2>5. ProposalInv'
    BY <2>1, ProposalStep
  <2> QED
    BY <2>3, <2>4, <2>5 DEF AInv
<1> QED
  BY <1>1, <1>2

(* Two majorities have a node in common.                                   *)
LEMMA MajoritiesMeet ==
    ASSUME NEW P \in SUBSET Node, NEW Q \in SUBSET Node,
           IsMajority(P), IsMajority(Q)
    PROVE  \E a \in Node : a \in P /\ a \in Q
<1>1. IsFiniteSet(Node)
  BY NodeAssumption
<1>2. IsFiniteSet(P) /\ IsFiniteSet(Q)
  BY <1>1, FS_Subset
<1>3. Cardinality(P) \in Nat /\ Cardinality(Q) \in Nat /\ Cardinality(Node) \in Nat
  BY <1>1, <1>2, FS_CardinalityType
<1>4. Cardinality(P) + Cardinality(Q) > Cardinality(Node)
  BY <1>3 DEF IsMajority
<1>5. P \cap Q # {}
  BY <1>1, <1>4, FS_MajoritiesIntersect
<1> QED
  BY <1>5

(* What is chosen below or in a ballot is what the ballot proposes.        *)
LEMMA ChosenAgree ==
    ASSUME IInv, AInv, NEW i \in Instance, NEW b \in Ballot, NEW c \in Ballot,
           NEW v \in Value, NEW w \in Value, BallotGE(b, c),
           IsMajority(VotersFor(i, b, v)), IsMajority(VotersFor(i, c, w))
    PROVE  v = w
<1>1. VotersFor(i, b, v) \in SUBSET Node /\ VotersFor(i, c, w) \in SUBSET Node
  BY DEF VotersFor
<1>2. PICK a \in Node : a \in VotersFor(i, b, v)
  BY <1>1, MajoritiesMeet
<1>3. Proposed(i, b, v)
  BY <1>2 DEF VotersFor, Proposed, Voted
<1>4. PICK x \in Node : x \in VotersFor(i, c, w)
  BY <1>1, MajoritiesMeet
<1>5. Proposed(i, c, w)
  BY <1>4 DEF VotersFor, Proposed, Voted
<1>6. CASE b = c
  BY <1>3, <1>5, <1>6 DEF AInv, ProposalInv, OneProposal
<1>7. CASE b # c
  <2>1. Below(c, b)
    BY <1>7, BallotOrder DEF Below, BallotOrNull
  <2>2. SafeAt(i, b, v)
    BY <1>3 DEF AInv, ProposalInv, ProposalsSafe
  <2>3. PICK Q \in SUBSET Node :
          /\ IsMajority(Q)
          /\ \A y \in Q : <<y, i, c, v>> \in votes \/ WontVote(y, i, c)
    BY <2>1, <2>2 DEF SafeAt
  <2>4. PICK y \in Node : y \in Q /\ y \in VotersFor(i, c, w)
    BY <1>1, <2>3, MajoritiesMeet
  <2>5. <<y, i, c, w>> \in votes
    BY <2>4 DEF VotersFor
  <2>6. ~WontVote(y, i, c)
    BY <2>5 DEF WontVote
  <2>7. Proposed(i, c, v)
    BY <2>3, <2>4, <2>6 DEF Proposed, Voted
  <2> QED
    BY <1>5, <2>7 DEF AInv, ProposalInv, OneProposal
<1> QED
  BY <1>6, <1>7

(* An instance has one value chosen.                                       *)
LEMMA ChosenIsOne ==
    ASSUME IInv, AInv, NEW i \in Instance, NEW v \in ChosenValues(i),
           NEW w \in ChosenValues(i)
    PROVE  v = w
<1>1. BallotsOf(i) \subseteq Ballot
  BY TypeFacts DEF BallotsOf
<1>2. PICK b \in Ballot, c \in Ballot :
        IsMajority(VotersFor(i, b, v)) /\ IsMajority(VotersFor(i, c, w))
  BY <1>1 DEF ChosenValues
<1>3. BallotGE(b, c) \/ BallotGE(c, b)
  BY BallotOrder DEF BallotOrNull
<1>4. v \in Value /\ w \in Value
  BY DEF ChosenValues
<1> QED
  BY <1>2, <1>3, <1>4, ChosenAgree

LEMMA AgreementFollows ==
    ASSUME IInv, AInv
    PROVE  BallotsAgree /\ VotesAgree
<1>1. OneValuePerBallot
  <2> SUFFICES ASSUME NEW v1 \in votes, NEW v2 \in votes,
                      v1[2] = v2[2], v1[3] = v2[3]
               PROVE  v1[4] = v2[4]
    BY DEF OneValuePerBallot
  <2>1. /\ v1[1] \in Node /\ v1[2] \in Instance /\ v1[3] \in Ballot
        /\ v1[4] \in Value /\ v1 = <<v1[1], v1[2], v1[3], v1[4]>>
        /\ v2[1] \in Node /\ v2[4] \in Value
        /\ v2 = <<v2[1], v2[2], v2[3], v2[4]>>
    BY TypeFacts
  <2>2. /\ Proposed(v1[2], v1[3], v1[4])
        /\ Proposed(v1[2], v1[3], v2[4])
    BY <2>1 DEF Proposed, Voted
  <2> QED
    BY <2>1, <2>2 DEF AInv, ProposalInv, OneProposal
<1>2. ASSUME NEW i \in Instance PROVE Cardinality(ChosenValues(i)) <= 1
  <2>1. CASE ChosenValues(i) = {}
    BY <2>1, FS_EmptySet
  <2>2. CASE ChosenValues(i) # {}
    <3>1. PICK v : ChosenValues(i) = {v}
      BY <2>2, ChosenIsOne
    <3>2. Cardinality(ChosenValues(i)) = 1
      BY <3>1, FS_Singleton
    <3> QED
      BY <3>2
  <2> QED
    BY <2>1, <2>2
<1>3. ASSUME NEW i \in Instance, NEW b, HasTwoValues(i, b) PROVE FALSE
  <2>1. PICK v \in Value, w \in Value :
          v # w /\ VotersFor(i, b, v) # {} /\ VotersFor(i, b, w) # {}
    BY <1>3 DEF HasTwoValues
  <2>2. PICK n \in Node, m \in Node :
          <<n, i, b, v>> \in votes /\ <<m, i, b, w>> \in votes
    BY <2>1 DEF VotersFor
  <2> QED
    BY <1>1, <2>1, <2>2 DEF OneValuePerBallot
<1>4. ASSUME NEW i \in Instance, Cardinality(ChosenValues(i)) > 1 PROVE FALSE
  <2>1. Cardinality(ChosenValues(i)) <= 1
    BY <1>2
  <2>2. Cardinality(ChosenValues(i)) \in Nat
    <3>1. CASE ChosenValues(i) = {}
      BY <3>1, FS_EmptySet
    <3>2. CASE ChosenValues(i) # {}
      <4>1. PICK v : ChosenValues(i) = {v}
        BY <3>2, ChosenIsOne
      <4> QED
        BY <4>1, FS_Singleton
    <3> QED
      BY <3>1, <3>2
  <2> QED
    BY <1>4, <2>1, <2>2
<1> QED
  BY <1>1, <1>2, <1>3, <1>4 DEF BallotsAgree, VotesAgree, ChosenUnique

(* A stuttering step retries nothing.                                      *)
LEMMA StutterRetries ==
    ASSUME [\A n \in Node : RetryKeepsVote(n)]_vars
    PROVE  \A n \in Node : RetryKeepsVote(n)
<1>1. CASE UNCHANGED vars
  <2>1. /\ phase' = phase /\ proposalID' = proposalID /\ value' = value
        /\ preAcceptBallot' = preAcceptBallot
    BY <1>1 DEF vars, proposerVars
  <2> QED
    BY <2>1 DEF RetryKeepsVote, HasOpened
<1> QED
  BY <1>1

(* No ballot has two values and no instance two chosen ones, on nodes that *)
(* do not restart, as long as a proposer that repeats a ballot after       *)
(* Proposer::OnAcceptTimeout still holds its own acceptance of it: the     *)
(* promises of AcceptorState, AddPreAcceptValue and the skipped prepare    *)
(* of Proposer::NewValue together keep what may have been chosen.          *)
THEOREM Agreement ==
    ASSUME RestartNodes = {}
    PROVE  Spec /\ RetriesKeepVote => [](BallotsAgree /\ VotesAgree)
<1>1. Init => IInv /\ AInv
  BY InitInv, AgreementInit
<1>2. /\ IInv /\ AInv /\ [Next]_vars
      /\ [\A n \in Node : RetryKeepsVote(n)]_vars
      => IInv' /\ AInv'
  <2> SUFFICES ASSUME IInv, AInv, [Next]_vars,
                      [\A n \in Node : RetryKeepsVote(n)]_vars
               PROVE  IInv' /\ AInv'
    OBVIOUS
  <2>1. IInv'
    BY NextInv
  <2>2. \A n \in Node : RetryKeepsVote(n)
    BY StutterRetries
  <2> QED
    BY <2>1, <2>2, AgreementStep
<1>3. IInv /\ AInv => BallotsAgree /\ VotesAgree
  BY AgreementFollows
<1> QED
  BY <1>1, <1>2, <1>3, PTL DEF Spec, RetriesKeepVote

-----------------------------------------------------------------------------
(* A client's value enters the group in one instance.                      *)

(* Some variable of a node, some record, message or vote has value v for   *)
(* instance i.                                                             *)
Occurs(i, v) ==
    \/ \E vt \in votes : vt[2] = i /\ vt[4] = v
    \/ \E m \in msgs : /\ m.type \in {"accept", "prepareReply", "learn"}
                       /\ m.inst = i /\ m.value = v
    \/ \E a \in Node : instanceID[a] = i /\ acceptedValue[a] = v
    \/ \E a \in Node : i \in Logged(a) /\ paxosLog[a][i].value = v
    \/ \E a \in Node : instanceID[a] = i /\ value[a] = v

OccursProposed ==
    \A i \in Instance, v \in Value : Occurs(i, v) => v \in proposed

OccursOnce ==
    \A i, j \in Instance, v \in Value : Occurs(i, v) /\ Occurs(j, v) => i = j

ValueInv == OccursProposed /\ OccursOnce

(* In a step of n, v is no value, or it comes from somewhere in its        *)
(* instance, or a client of n has just committed it.                       *)
Copied(n, i, v) ==
    \/ v \notin Value
    \/ Occurs(i, v)
    \/ v \in proposed' \ proposed /\ i = instanceID[n]

CopiesMemory(n) ==
    /\ \A x \in Node \ {n} : /\ instanceID'[x] = instanceID[x]
                             /\ acceptedValue'[x] = acceptedValue[x]
                             /\ value'[x] = value[x]
                             /\ paxosLog'[x] = paxosLog[x]
    /\ Copied(n, instanceID'[n], acceptedValue'[n])
    /\ Copied(n, instanceID'[n], value'[n])

CopiesLog(n) ==
    \A i \in Instance : paxosLog'[n][i] # NoRecord =>
        \/ paxosLog'[n][i] = paxosLog[n][i]
        \/ Copied(n, i, paxosLog'[n][i].value)

CopiesVotes(n) == \A vt \in votes' \ votes : Copied(n, vt[2], vt[4])

CopiesMessages(n) ==
    \A m \in msgs' \ msgs : m.type \in {"accept", "prepareReply", "learn"} =>
        Copied(n, m.inst, m.value)

Copies(n) == /\ CopiesMemory(n) /\ CopiesLog(n)
             /\ CopiesVotes(n) /\ CopiesMessages(n)
             /\ proposed \subseteq proposed'
             /\ \A u, v \in proposed' \ proposed : u = v

-----------------------------------------------------------------------------
(* What a node holds occurs in its instance.                               *)
LEMMA HeldOccurs ==
    ASSUME NEW n \in Node, NEW i
    PROVE  /\ Copied(n, instanceID[n], acceptedValue[n])
           /\ Copied(n, instanceID[n], value[n])
           /\ i \in Logged(n) => Copied(n, i, paxosLog[n][i].value)
           /\ Copied(n, i, None)
           /\ \A m \in msgs : m.type \in {"accept", "prepareReply", "learn"} =>
                Copied(n, m.inst, m.value)
<1>1. None \notin Value
  BY ValueAssumption
<1> QED
  BY <1>1 DEF Copied, Occurs

(* A handler that writes no record, or one, for an instance.               *)
LEMMA PersistCopies ==
    ASSUME IInv, NEW n \in Node, NEW i, NEW p, NEW a, NEW v,
           Persist(n, i, p, a, v), Copied(n, i, v)
    PROVE  CopiesLog(n) /\ \A x \in Node \ {n} : paxosLog'[x] = paxosLog[x]
<1> DEFINE r == [promise |-> p, accepted |-> a, value |-> v]
<1>1. /\ paxosLog' = [paxosLog EXCEPT ![n][i] = r]
      /\ paxosLog \in [Node -> [Instance -> Record \cup {NoRecord}]]
  BY DEF Persist, IInv, TypeOK, AcceptorTypeOK
<1>2. r.value = v
  OBVIOUS
<1> HIDE DEF r
<1>3. \A j \in Instance :
        paxosLog'[n][j] = paxosLog[n][j] \/ (j = i /\ paxosLog'[n][j] = r)
  BY <1>1
<1>4. \A x \in Node \ {n} : paxosLog'[x] = paxosLog[x]
  BY <1>1
<1> QED
  BY <1>2, <1>3, <1>4 DEF CopiesLog

LEMMA SameLogCopies ==
    ASSUME NEW n \in Node, UNCHANGED paxosLog
    PROVE  CopiesLog(n)
BY DEF CopiesLog

(* The end of an instance, by whatever has been learned.                   *)
LEMMA ExecuteCopies ==
    ASSUME IInv, NEW n \in Node, NEW v, Execute(n, v),
           SetAcceptor(n, promiseBallot[n], NullBallot, None),
           ProposerNewInstance(n),
           \A x \in Node \ {n} : paxosLog'[x] = paxosLog[x]
    PROVE  CopiesMemory(n)
<1> USE DEF IInv, TypeOK, AcceptorTypeOK, ProposerTypeOK, LearnerTypeOK
<1>1. acceptedValue'[n] = None /\ value'[n] = None
  BY DEF SetAcceptor, ProposerNewInstance
<1>2. \A x \in Node \ {n} : /\ instanceID'[x] = instanceID[x]
                            /\ acceptedValue'[x] = acceptedValue[x]
                            /\ value'[x] = value[x]
  BY DEF Execute, SetAcceptor, ProposerNewInstance
<1>3. None \notin Value
  BY ValueAssumption
<1> QED
  BY <1>1, <1>2, <1>3 DEF CopiesMemory, Copied

LEMMA OnAcceptReplyCopies ==
    ASSUME IInv, NEW n \in Node, OnAcceptReply(n)
    PROVE  Copies(n)
<1>1. UNCHANGED <<paxosLog, votes, proposed>>
  BY DEF OnAcceptReply, acceptorVars, historyVars, passVars
<1>2. CopiesMessages(n)
  BY DEF OnAcceptReply, CopiesMessages, Receive, Successes
<1>3. CopiesMemory(n)
  <2>1. CASE UNCHANGED <<instanceID, acceptedValue, value>>
    BY <1>1, <2>1, HeldOccurs DEF CopiesMemory
  <2>2. CASE /\ Execute(n, acceptedValue[n])
             /\ SetAcceptor(n, promiseBallot[n], NullBallot, None)
             /\ ProposerNewInstance(n)
    BY <1>1, <2>2, ExecuteCopies
  <2> QED
    BY <2>1, <2>2 DEF OnAcceptReply, learnVars, acceptorVars
<1> QED
  BY <1>1, <1>2, <1>3, SameLogCopies DEF Copies, CopiesVotes

LEMMA QuietCopies ==
    ASSUME IInv, NEW n \in Node,
           \/ OnExpiredReply(n) \/ CommitTimeout(n)
           \/ \E to \in Node, i \in Instance : SendLearnValue(n, to, i)
    PROVE  Copies(n)
<1>1. UNCHANGED <<instanceID, acceptedValue, value, paxosLog, votes, proposed>>
  BY DEF OnExpiredReply, CommitTimeout, SendLearnValue, learnVars, acceptorVars,
         proposerVars, historyVars, passVars
<1>2. CopiesMemory(n)
  BY <1>1, HeldOccurs DEF CopiesMemory
<1>3. CopiesMessages(n)
  <2>1. CASE OnExpiredReply(n) \/ CommitTimeout(n)
    BY <2>1 DEF CopiesMessages, OnExpiredReply, CommitTimeout, Receive
  <2>2. ASSUME NEW to \in Node, NEW i \in Instance, SendLearnValue(n, to, i)
        PROVE  CopiesMessages(n)
    <3>1. /\ i \in Logged(n)
          /\ msgs' = msgs \cup
                {[type |-> "learn", to |-> to, inst |-> i,
                  bal |-> paxosLog[n][i].accepted,
                  value |-> paxosLog[n][i].value]}
      BY <2>2 DEF SendLearnValue, Logged, Send
    <3>2. Copied(n, i, paxosLog[n][i].value)
      BY <3>1, HeldOccurs
    <3> QED
      BY <3>1, <3>2 DEF CopiesMessages
  <2> QED
    BY <2>1, <2>2
<1> QED
  BY <1>1, <1>2, <1>3, SameLogCopies DEF Copies, CopiesVotes

LEMMA LearnCopies ==
    ASSUME IInv, NEW n \in Node, OnProposerSendSuccess(n) \/ OnSendLearnValue(n)
    PROVE  Copies(n)
<1>1. PICK m, v :
        /\ Execute(n, v)
        /\ SetAcceptor(n, promiseBallot[n], NullBallot, None)
        /\ ProposerNewInstance(n)
        /\ Receive(m, {})
        /\ UNCHANGED <<votes, proposed>>
  BY DEF OnProposerSendSuccess, OnSendLearnValue, historyVars, passVars
<1>2. CopiesLog(n) /\ \A x \in Node \ {n} : paxosLog'[x] = paxosLog[x]
  <2>1. CASE OnProposerSendSuccess(n)
    BY <2>1, SameLogCopies DEF OnProposerSendSuccess
  <2>2. CASE OnSendLearnValue(n)
    <3>1. PICK l \in Inbox(n, {"learn"}) :
            Persist(n, l.inst, l.bal, l.bal, l.value)
      BY <2>2 DEF OnSendLearnValue
    <3>2. Copied(n, l.inst, l.value)
      BY HeldOccurs DEF Inbox
    <3> QED
      BY <3>1, <3>2, PersistCopies
  <2> QED
    BY <2>1, <2>2
<1>3. CopiesMessages(n)
  BY <1>1 DEF CopiesMessages, Receive
<1> QED
  BY <1>1, <1>2, <1>3, ExecuteCopies DEF Copies, CopiesVotes
(* A prepare or an accept is handled in its own instance.                  *)
LEMMA EnterInstanceCopies ==
    ASSUME IInv, NEW n \in Node, NEW m, EnterInstanceOf(n, m)
    PROVE  /\ instanceID'[n] = m.inst
           /\ \A x \in Node \ {n} : /\ instanceID'[x] = instanceID[x]
                                    /\ value'[x] = value[x]
           /\ Copied(n, instanceID'[n], value'[n])
<1> USE DEF IInv, TypeOK, LearnerTypeOK, ProposerTypeOK
<1>1. CASE m.inst = instanceID[n] /\ UNCHANGED <<learnVars, value>>
  BY <1>1, HeldOccurs DEF learnVars
<1>2. CASE SkipsSuccess(n, m) /\ Execute(n, acceptedValue[n]) /\ ProposerNewInstance(n)
  BY <1>2, HeldOccurs DEF SkipsSuccess, Execute, ProposerNewInstance
<1> QED
  BY <1>1, <1>2 DEF EnterInstanceOf

LEMMA AcceptedInCopied ==
    ASSUME IInv, NEW n \in Node, NEW m
    PROVE  Copied(n, m.inst, AcceptedIn(n, m).value)
BY HeldOccurs DEF AcceptedIn

LEMMA OnPrepareCopies ==
    ASSUME IInv, NEW n \in Node, OnPrepare(n)
    PROVE  Copies(n)
<1>1. PICK m, b, p :
        /\ m \in Inbox(n, {"prepare"})
        /\ EnterInstanceOf(n, m)
        /\ UNCHANGED <<votes, proposed>>
        /\ SetAcceptor(n, p, b, AcceptedIn(n, m).value)
        /\ \/ Persist(n, m.inst, p, b, AcceptedIn(n, m).value)
           \/ UNCHANGED paxosLog
  BY DEF OnPrepare
<1>2. PICK v : v = AcceptedIn(n, m).value /\ Copied(n, m.inst, v)
  BY AcceptedInCopied
<1>3. CopiesMessages(n)
  <2>1. PICK l \in Inbox(n, {"prepare"}) :
          \A r \in msgs' \ msgs : r.inst = l.inst /\
             (r.value = None \/ r.value = AcceptedIn(n, l).value)
    BY DEF OnPrepare, Receive
  <2>2. Copied(n, l.inst, AcceptedIn(n, l).value) /\ Copied(n, l.inst, None)
    BY AcceptedInCopied, HeldOccurs
  <2> QED
    BY <2>1, <2>2 DEF CopiesMessages
<1>4. CopiesLog(n) /\ \A x \in Node \ {n} : paxosLog'[x] = paxosLog[x]
  BY <1>1, <1>2, PersistCopies, SameLogCopies
<1>5. /\ acceptedValue'[n] = v
      /\ \A x \in Node \ {n} : acceptedValue'[x] = acceptedValue[x]
  BY <1>1, <1>2 DEF SetAcceptor, IInv, TypeOK, AcceptorTypeOK
<1>6. CopiesMemory(n)
  BY <1>1, <1>2, <1>4, <1>5, EnterInstanceCopies DEF CopiesMemory
<1> QED
  BY <1>1, <1>3, <1>4, <1>6 DEF Copies, CopiesVotes

(* An accept that passes, whether or not the vote is written.              *)
LEMMA AcceptCopies ==
    ASSUME IInv, NEW n \in Node, NEW i, NEW b, NEW v, Copied(n, i, v),
           AcceptPasses(n, i, b, v) \/ AcceptNotPersisted(n, b, v)
    PROVE  /\ CopiesLog(n) /\ CopiesVotes(n)
           /\ acceptedValue'[n] = v
           /\ \A x \in Node \ {n} : /\ acceptedValue'[x] = acceptedValue[x]
                                    /\ paxosLog'[x] = paxosLog[x]
<1>1. /\ SetAcceptor(n, b, b, v)
      /\ Persist(n, i, b, b, v) \/ UNCHANGED paxosLog
      /\ votes' = votes \/ votes' = votes \cup {<<n, i, b, v>>}
  BY DEF AcceptPasses, AcceptNotPersisted
<1>2. CopiesLog(n) /\ \A x \in Node \ {n} : paxosLog'[x] = paxosLog[x]
  BY <1>1, PersistCopies, SameLogCopies
<1>3. CopiesVotes(n)
  BY <1>1 DEF CopiesVotes
<1>4. /\ acceptedValue'[n] = v
      /\ \A x \in Node \ {n} : acceptedValue'[x] = acceptedValue[x]
  BY <1>1 DEF SetAcceptor, IInv, TypeOK, AcceptorTypeOK
<1> QED
  BY <1>2, <1>3, <1>4

LEMMA OnAcceptCopies ==
    ASSUME IInv, NEW n \in Node, OnAccept(n)
    PROVE  Copies(n)
<1>1. PICK m \in Inbox(n, {"accept"}) :
        /\ EnterInstanceOf(n, m)
        /\ UNCHANGED proposed
        /\ \/ AcceptPasses(n, m.inst, m.bal, m.value)
           \/ AcceptNotPersisted(n, m.bal, m.value)
           \/ /\ SetAcceptor(n, promiseBallot[n], AcceptedIn(n, m).bal,
                             AcceptedIn(n, m).value)
              /\ UNCHANGED <<paxosLog, votes>>
  BY DEF OnAccept
<1>2. CopiesMessages(n)
  BY DEF OnAccept, CopiesMessages, Receive
<1>3. PICK v, b : v = AcceptedIn(n, m).value /\ b = AcceptedIn(n, m).bal
  OBVIOUS
<1>4. Copied(n, m.inst, v) /\ Copied(n, m.inst, m.value)
  BY <1>3, AcceptedInCopied, HeldOccurs DEF Inbox
<1>5. /\ CopiesLog(n) /\ CopiesVotes(n)
      /\ Copied(n, m.inst, acceptedValue'[n])
      /\ \A x \in Node \ {n} : /\ acceptedValue'[x] = acceptedValue[x]
                               /\ paxosLog'[x] = paxosLog[x]
  <2>1. CASE \/ AcceptPasses(n, m.inst, m.bal, m.value)
             \/ AcceptNotPersisted(n, m.bal, m.value)
    BY <1>4, <2>1, AcceptCopies
  <2>2. CASE SetAcceptor(n, promiseBallot[n], b, v) /\ UNCHANGED <<paxosLog, votes>>
    BY <1>4, <2>2, SameLogCopies
    DEF SetAcceptor, CopiesVotes, IInv, TypeOK, AcceptorTypeOK
  <2> QED
    BY <1>1, <1>3, <2>1, <2>2
<1>6. CopiesMemory(n)
  BY <1>1, <1>5, EnterInstanceCopies DEF CopiesMemory
<1> QED
  BY <1>1, <1>2, <1>5, <1>6 DEF Copies

LEMMA SelfAcceptCopies ==
    ASSUME IInv, NEW n \in Node, SelfAccept(n)
    PROVE  Copies(n)
<1>1. PICK b, i, v :
        /\ i = instanceID[n] /\ v = value[n]
        /\ \/ AcceptPasses(n, i, b, v)
           \/ AcceptNotPersisted(n, b, v)
           \/ UNCHANGED <<acceptorVars, votes>>
        /\ UNCHANGED <<instanceID, value, msgs, proposed>>
  BY DEF SelfAccept, learnVars
<1>2. Copied(n, i, v) /\ Copied(n, i, acceptedValue[n])
  BY <1>1, HeldOccurs
<1>3. /\ CopiesLog(n) /\ CopiesVotes(n)
      /\ Copied(n, i, acceptedValue'[n])
      /\ \A x \in Node \ {n} : /\ acceptedValue'[x] = acceptedValue[x]
                               /\ paxosLog'[x] = paxosLog[x]
  <2>1. CASE AcceptPasses(n, i, b, v) \/ AcceptNotPersisted(n, b, v)
    BY <1>2, <2>1, AcceptCopies
  <2>2. CASE UNCHANGED <<acceptorVars, votes>>
    BY <1>2, <2>2 DEF acceptorVars, CopiesLog, CopiesVotes
  <2> QED
    BY <1>1, <2>1, <2>2
<1>4. CopiesMemory(n)
  BY <1>1, <1>2, <1>3 DEF CopiesMemory
<1>5. CopiesMessages(n)
  BY <1>1 DEF CopiesMessages
<1> QED
  BY <1>1, <1>3, <1>4, <1>5 DEF Copies

(* Changes of the proposer alone, or with it of the promise.               *)
LEMMA ProposerCopies ==
    ASSUME IInv, NEW n \in Node, NEW w, Copied(n, instanceID[n], w),
           value' = [value EXCEPT ![n] = w],
           UNCHANGED <<instanceID, acceptedValue, votes>>,
           \/ UNCHANGED paxosLog
           \/ \E p, a : Persist(n, instanceID[n], p, a, acceptedValue[n])
    PROVE  CopiesMemory(n) /\ CopiesLog(n) /\ CopiesVotes(n)
<1>1. CopiesLog(n) /\ \A x \in Node \ {n} : paxosLog'[x] = paxosLog[x]
  BY HeldOccurs, PersistCopies, SameLogCopies
<1>2. CopiesMemory(n)
  BY <1>1, HeldOccurs DEF CopiesMemory, IInv, TypeOK, ProposerTypeOK
<1> QED
  BY <1>1, <1>2 DEF CopiesVotes

LEMMA MyAcceptsCopied ==
    ASSUME NEW n \in Node, NEW w, Copied(n, instanceID[n], w),
           msgs' \subseteq msgs \cup MyAccepts(n, w)
    PROVE  CopiesMessages(n)
BY DEF CopiesMessages, MyAccepts, Accepts

LEMMA OnPrepareReplyCopies ==
    ASSUME IInv, NEW n \in Node, OnPrepareReply(n)
    PROVE  Copies(n)
<1>1. PICK m, w :
        /\ m \in Inbox(n, {"prepareReply"})
        /\ m.inst = instanceID[n]
        /\ w = value[n] \/ w = m.value
        /\ value' = [value EXCEPT ![n] = w]
        /\ msgs' \subseteq msgs \cup MyAccepts(n, w)
        /\ UNCHANGED <<instanceID, acceptorVars, votes, proposed>>
  <2>1. PICK m \in Inbox(n, {"prepareReply"}) :
          /\ m.inst = instanceID[n]
          /\ \/ UNCHANGED value /\ msgs' \subseteq msgs
             \/ /\ value' = [value EXCEPT ![n] = AddPreAcceptValue(n, m).value]
                /\ msgs' \subseteq
                        msgs \cup MyAccepts(n, AddPreAcceptValue(n, m).value)
          /\ UNCHANGED <<instanceID, acceptorVars, votes, proposed>>
    BY DEF OnPrepareReply, Accept, Receive, learnVars, historyVars, passVars
  <2>2. PICK w : w = AddPreAcceptValue(n, m).value
    OBVIOUS
  <2>3. w = value[n] \/ w = m.value
    BY <2>2 DEF AddPreAcceptValue
  <2>4. value = [value EXCEPT ![n] = value[n]]
    BY DEF IInv, TypeOK, ProposerTypeOK
  <2>5. CASE UNCHANGED value /\ msgs' \subseteq msgs
    BY <2>1, <2>4, <2>5
  <2> QED
    BY <2>1, <2>2, <2>3, <2>5
<1>2. Copied(n, instanceID[n], w)
  BY <1>1, HeldOccurs DEF Inbox
<1>3. CopiesMemory(n) /\ CopiesLog(n) /\ CopiesVotes(n)
  BY <1>1, <1>2, ProposerCopies DEF acceptorVars
<1> QED
  BY <1>1, <1>2, <1>3, MyAcceptsCopied DEF Copies

LEMMA PrepareCopies ==
    ASSUME IInv, NEW n \in Node, NEW newBallot, NEW w,
           Copied(n, instanceID[n], w),
           Prepare(n, newBallot, w), UNCHANGED instanceID
    PROVE  CopiesMemory(n) /\ CopiesLog(n) /\ CopiesVotes(n) /\ CopiesMessages(n)
<1>1. PICK u :
        /\ u = w \/ u = acceptedValue[n]
        /\ value' = [value EXCEPT ![n] = u]
        /\ \/ UNCHANGED paxosLog
           \/ \E p, a : Persist(n, instanceID[n], p, a, acceptedValue[n])
        /\ UNCHANGED <<acceptedValue, votes>>
  BY DEF Prepare, SelfPromise, SelfReject, SelfPromiseNotPersisted
<1>2. Copied(n, instanceID[n], u)
  BY <1>1, HeldOccurs
<1>3. CopiesMessages(n)
  BY DEF Prepare, SelfPromise, SelfReject, SelfPromiseNotPersisted,
         CopiesMessages, Send, Prepares
<1> QED
  BY <1>1, <1>2, <1>3, ProposerCopies

LEMMA NewValueCopies ==
    ASSUME IInv, NEW n \in Node, NEW v \in Value, NewValue(n, v)
    PROVE  Copies(n)
<1>1. PICK w, new :
        /\ w = v \/ w = value[n]
        /\ v \notin proposed /\ proposed' = proposed \cup {v}
        /\ UNCHANGED instanceID
        /\ \/ /\ Accept(n, w) /\ Send(MyAccepts(n, w))
              /\ UNCHANGED <<acceptorVars, votes>>
           \/ Prepare(n, new, w)
  BY DEF NewValue, ValueToPropose, passVars
<1>2. Copied(n, instanceID[n], w)
  BY <1>1, HeldOccurs DEF Copied
<1>3. CopiesMemory(n) /\ CopiesLog(n) /\ CopiesVotes(n) /\ CopiesMessages(n)
  <2>1. CASE /\ Accept(n, w) /\ Send(MyAccepts(n, w))
             /\ UNCHANGED <<acceptorVars, votes>>
    BY <1>1, <1>2, <2>1, ProposerCopies, MyAcceptsCopied
    DEF Accept, Send, acceptorVars
  <2> QED
    BY <1>1, <1>2, <2>1, PrepareCopies
<1> QED
  BY <1>1, <1>3 DEF Copies

LEMMA ProposerTimeoutCopies ==
    ASSUME IInv, NEW n \in Node, ProposerTimeout(n)
    PROVE  Copies(n)
<1>1. PICK w, new : /\ w = value[n] /\ Prepare(n, new, w)
                    /\ UNCHANGED <<instanceID, proposed>>
  BY DEF ProposerTimeout, learnVars
<1> QED
  BY <1>1, HeldOccurs, PrepareCopies DEF Copies

(* A restart loads the last record as that of the instance it is of.       *)
LEMMA RestartCopies ==
    ASSUME IInv, NEW n \in Node, Restart(n)
    PROVE  Copies(n)
<1> USE DEF IInv, TypeOK, LearnerTypeOK, AcceptorTypeOK, ProposerTypeOK
<1>1. UNCHANGED <<paxosLog, msgs, proposed, votes>>
  BY DEF Restart, passVars
<1>2. value' = [value EXCEPT ![n] = None]
  BY DEF Restart
<1>3. PICK last, v :
        /\ instanceID' = [instanceID EXCEPT ![n] = last]
        /\ acceptedValue' = [acceptedValue EXCEPT ![n] = v]
        /\ v = None \/ (last \in Logged(n) /\ v = paxosLog[n][last].value)
  <2>1. CASE Logged(n) = {} /\ Load(n, 0, EmptyState)
    BY <2>1 DEF Load, SetAcceptor, EmptyState
  <2>2. ASSUME NEW last \in Logged(n), Load(n, last, paxosLog[n][last])
        PROVE  /\ instanceID' = [instanceID EXCEPT ![n] = last]
               /\ acceptedValue' =
                    [acceptedValue EXCEPT ![n] = paxosLog[n][last].value]
    BY <2>2 DEF Load, SetAcceptor
  <2> QED
    BY <2>1, <2>2 DEF Restart
<1>4. CopiesMemory(n)
  BY <1>1, <1>2, <1>3, HeldOccurs DEF CopiesMemory
<1> QED
  BY <1>1, <1>4, SameLogCopies DEF Copies, CopiesVotes, CopiesMessages

-----------------------------------------------------------------------------
LEMMA HandlesCopies ==
    ASSUME IInv, NEW n \in Node, Handles(n) \/ Restart(n)
    PROVE  Copies(n)
BY NewValueCopies, ProposerTimeoutCopies, OnPrepareReplyCopies,
   OnAcceptReplyCopies, QuietCopies, OnPrepareCopies, OnAcceptCopies,
   SelfAcceptCopies, LearnCopies, RestartCopies
DEF Handles

LEMMA SomeoneCopies ==
    ASSUME IInv, Next
    PROVE  \E n \in Node : Copies(n)
BY HandlesCopies DEF Next, Handles

(* What occurs after a step occurred before, or is the value the client of *)
(* the node has just committed.                                            *)
LEMMA OccursStep ==
    ASSUME IInv, IInv', NEW n \in Node, Copies(n),
           NEW i \in Instance, NEW v \in Value, Occurs(i, v)'
    PROVE  Copied(n, i, v)
<1>1. CASE \E vt \in votes' : vt[2] = i /\ vt[4] = v
  BY <1>1 DEF Copies, CopiesVotes, Copied, Occurs
<1>2. CASE \E m \in msgs' : /\ m.type \in {"accept", "prepareReply", "learn"}
                            /\ m.inst = i /\ m.value = v
  BY <1>2, HeldOccurs DEF Copies, CopiesMessages
<1>3. CASE \E a \in Node : instanceID'[a] = i /\ acceptedValue'[a] = v
  BY <1>3 DEF Copies, CopiesMemory, Copied, Occurs
<1>4. CASE \E a \in Node : instanceID'[a] = i /\ value'[a] = v
  BY <1>4 DEF Copies, CopiesMemory, Copied, Occurs
<1>5. CASE \E a \in Node : i \in Logged(a)' /\ paxosLog'[a][i].value = v
  <2>1. PICK a \in Node : paxosLog'[a][i] # NoRecord /\ paxosLog'[a][i].value = v
    BY <1>5 DEF Logged
  <2>2. CASE paxosLog'[a][i] = paxosLog[a][i]
    BY <2>1, <2>2 DEF Logged, Copied, Occurs
  <2>3. CASE paxosLog'[a][i] # paxosLog[a][i]
    <3>1. a = n
      BY <2>3 DEF Copies, CopiesMemory
    <3> QED
      BY <2>1, <2>3, <3>1 DEF Copies, CopiesLog
  <2> QED
    BY <2>2, <2>3
<1> QED
  BY <1>1, <1>2, <1>3, <1>4, <1>5 DEF Occurs

LEMMA ValueStep ==
    ASSUME IInv, IInv', ValueInv, [Next]_vars
    PROVE  ValueInv'
<1>1. CASE UNCHANGED vars
  <2>1. \A i \in Instance, v \in Value : Occurs(i, v)' <=> Occurs(i, v)
    BY <1>1 DEF vars, learnVars, acceptorVars, proposerVars, historyVars,
                passVars, Occurs, Logged
  <2> QED
    BY <1>1, <2>1
    DEF vars, historyVars, ValueInv, OccursProposed, OccursOnce
<1>2. CASE Next
  <2>1. PICK n \in Node : Copies(n)
    BY <1>2, SomeoneCopies
  <2>2. ASSUME NEW i \in Instance, NEW v \in Value, Occurs(i, v)'
        PROVE  \/ Occurs(i, v) /\ v \in proposed
               \/ v \in proposed' \ proposed /\ i = instanceID[n]
    BY <2>1, <2>2, OccursStep DEF Copied, ValueInv, OccursProposed
  <2>3. OccursProposed'
    BY <2>1, <2>2 DEF OccursProposed, Copies
  <2>4. OccursOnce'
    BY <2>2 DEF OccursOnce, ValueInv
  <2> QED
    BY <2>3, <2>4 DEF ValueInv
<1> QED
  BY <1>1, <1>2

LEMMA ValueInit == Init => ValueInv
<1> SUFFICES ASSUME Init PROVE ValueInv
  OBVIOUS
<1>1. None \notin Value
  BY ValueAssumption
<1>2. \A i \in Instance, v \in Value : ~Occurs(i, v)
  BY <1>1 DEF Init, Occurs, Logged
<1> QED
  BY <1>2 DEF ValueInv, OccursProposed, OccursOnce

LEMMA ValuesHold == Spec => [](IInv /\ ValueInv)
<1>1. Init => IInv /\ ValueInv
  BY InitInv, ValueInit
<1>2. IInv /\ ValueInv /\ [Next]_vars => IInv' /\ ValueInv'
  BY NextInv, ValueStep
<1> QED
  BY <1>1, <1>2, PTL DEF Spec

(* What is chosen has got a vote.                                          *)
LEMMA ChosenOccurs ==
    ASSUME NEW i, NEW v \in ChosenValues(i)
    PROVE  v \in Value /\ Occurs(i, v)
<1>1. PICK b : IsMajority(VotersFor(i, b, v))
  BY DEF ChosenValues
<1>2. PICK a \in Node : a \in VotersFor(i, b, v)
  BY <1>1, MajoritiesMeet DEF VotersFor
<1> QED
  BY <1>2 DEF VotersFor, Occurs, ChosenValues

(* No value is chosen in two instances, although OnNewValueCommitTimeout   *)
(* leaves it with the proposer and Proposer::NewValue proposes it again:   *)
(* InitForNewPaxosInstance drops it with the instance.  In every group,    *)
(* with restarts, failed writes, timeouts and messages lost and doubled.   *)
THEOREM ChosenInOneInstance == Spec => []ChosenOnce
<1>1. IInv /\ ValueInv => ChosenOnce
  <2> SUFFICES ASSUME IInv, ValueInv, NEW i \in Instance, NEW j \in Instance,
                      NEW v \in ChosenValues(i), v \in ChosenValues(j)
               PROVE  i = j
    BY DEF ChosenOnce
  <2> QED
    BY ChosenOccurs DEF ValueInv, OccursOnce
<1> QED
  BY <1>1, ValuesHold, PTL
-----------------------------------------------------------------------------
(* What is executed is chosen.  Two more departures have to be kept out: a *)
(* record that lacks an accepted value because its write failed, so that   *)
(* writes succeed here, and a message of the next instance that is taken   *)
(* for the success of a ballot that has not succeeded, the steps of which  *)
(* are the hypothesis SkipsLearnChosen.                                    *)

(* A prepare or accept of the next instance that is taken for the success  *)
(* of this one (Instance::ReceiveMsgForAcceptor) comes when the value the  *)
(* acceptor then learns is chosen.                                         *)
SkipLearnsChosen(n) ==
    \A m \in Inbox(n, {"prepare", "accept"}) :
        SkipsSuccess(n, m) /\ instanceID'[n] = m.inst
            => acceptedValue[n] \in ChosenValues(instanceID[n])

SkipsLearnChosen == [][\A n \in Node : SkipLearnsChosen(n)]_vars

(* Ballot b of instance i has a value chosen.                              *)
Succeeded(i, b) == \E v \in Value : IsMajority(VotersFor(i, b, v))

AcceptReplyTrue(m) ==
    m.type = "acceptReply" /\ m.reject = 0 =>
        \E v \in Value : <<m.from, m.inst, m.bal, v>> \in votes

SuccessTrue(m) == m.type = "success" => Succeeded(m.inst, m.bal)

LearnTrue(m) == m.type = "learn" => m.value \in ChosenValues(m.inst)

MessagesTrue ==
    \A m \in msgs : AcceptReplyTrue(m) /\ SuccessTrue(m) /\ LearnTrue(m)

CountTrue(n) ==
    /\ phase[n] = "selfAccept" => granted[n] = {}
    /\ phase[n] = "accepting" =>
            \A a \in granted[n] : <<a, instanceID[n], Own(n), value[n]>> \in votes

CountsTrue == \A n \in Node : CountTrue(n)

(* The records of executed instances hold what was chosen, that of the     *)
(* running instance what the acceptor holds.                               *)
RecordsTrue ==
    \A n \in Node :
        /\ \A i \in Logged(n) :
                i < instanceID[n] => paxosLog[n][i].value \in ChosenValues(i)
        /\ acceptedBallot[n] # NullBallot /\ instanceID[n] \in Instance =>
                /\ instanceID[n] \in Logged(n)
                /\ paxosLog[n][instanceID[n]].value = acceptedValue[n]

(* A node has executed the instances before its own.                       *)
ExecutesInOrder ==
    \A n \in Node, i \in Instance : Executed(n, i) <=> i < instanceID[n]

ExecutionInv == /\ MessagesTrue /\ CountsTrue /\ RecordsTrue
                /\ LearnedIsChosen /\ ExecutesInOrder

-----------------------------------------------------------------------------
(* What contains a majority is one.                                        *)
LEMMA LargerMajority ==
    ASSUME NEW T \in SUBSET Node, NEW S \in SUBSET T, IsMajority(S)
    PROVE  IsMajority(T)
<1>1. IsFiniteSet(T) /\ IsFiniteSet(S) /\ IsFiniteSet(Node)
  BY NodeAssumption, FS_Subset
<1>2. Cardinality(S) <= Cardinality(T)
  BY <1>1, FS_Subset
<1>3. /\ Cardinality(S) \in Nat /\ Cardinality(T) \in Nat
      /\ Cardinality(Node) \in Nat
  BY <1>1, FS_CardinalityType
<1>4. 2 * Cardinality(S) > Cardinality(Node)
  BY DEF IsMajority
<1>5. 2 * Cardinality(T) > Cardinality(Node)
  BY <1>2, <1>3, <1>4
<1> QED
  BY <1>5 DEF IsMajority

(* What is chosen stays chosen.                                            *)
LEMMA ChosenStays ==
    ASSUME votes \subseteq votes'
    PROVE  /\ \A i, b, v : IsMajority(VotersFor(i, b, v)) =>
                                IsMajority(VotersFor(i, b, v)')
           /\ \A i : ChosenValues(i) \subseteq ChosenValues(i)'
           /\ \A i, b : Succeeded(i, b) => Succeeded(i, b)'
<1>1. ASSUME NEW i, NEW b, NEW v, IsMajority(VotersFor(i, b, v))
      PROVE  IsMajority(VotersFor(i, b, v)')
  <2>1. /\ VotersFor(i, b, v) \in SUBSET (VotersFor(i, b, v)')
        /\ VotersFor(i, b, v)' \in SUBSET Node
    BY DEF VotersFor
  <2>2. \A T \in SUBSET Node : \A S \in SUBSET T :
          IsMajority(S) => IsMajority(T)
    BY LargerMajority
  <2> QED
    BY <1>1, <2>1, <2>2 DEF IsMajority
<1>2. \A i : BallotsOf(i) \subseteq BallotsOf(i)'
  BY DEF BallotsOf
<1>3. \A i : ChosenValues(i) \subseteq ChosenValues(i)'
  BY <1>1, <1>2 DEF ChosenValues, IsMajority
<1>4. \A i, b : Succeeded(i, b) => Succeeded(i, b)'
  BY <1>1 DEF Succeeded, IsMajority
<1> QED
  BY <1>1, <1>3, <1>4

(* A majority of votes in a ballot chooses its value.                      *)
LEMMA MajorityChooses ==
    ASSUME NEW i, NEW b, NEW v \in Value, IsMajority(VotersFor(i, b, v))
    PROVE  v \in ChosenValues(i)
<1>1. PICK a \in Node : a \in VotersFor(i, b, v)
  BY MajoritiesMeet DEF VotersFor
<1>2. <<a, i, b, v>> \in votes
  BY <1>1 DEF VotersFor
<1>3. b \in BallotsOf(i)
  BY <1>2 DEF BallotsOf
<1> QED
  BY <1>3 DEF ChosenValues

(* An acceptor that holds the ballot of a success message holds what was   *)
(* chosen in it.                                                           *)
LEMMA SuccessMeansChosen ==
    ASSUME IInv, AInv, NEW n \in Node, NEW b, LearnsFromSuccess(n, b),
           instanceID[n] \in Instance, Succeeded(instanceID[n], b)
    PROVE  acceptedValue[n] \in ChosenValues(instanceID[n])
<1>1. PICK w \in Value : IsMajority(VotersFor(instanceID[n], b, w))
  BY DEF Succeeded
<1>2. acceptedBallot[n] = b /\ b \in Ballot /\ acceptedValue[n] \in Value
  BY DEF LearnsFromSuccess, IInv, TypeOK, HandlerInv, AcceptorTypeOK,
         AcceptorOrdered, BallotOrNull, ValueOrNone
<1>3. PICK a \in Node : a \in VotersFor(instanceID[n], b, w)
  BY <1>1, MajoritiesMeet DEF VotersFor
<1>4. /\ Proposed(instanceID[n], b, w)
      /\ Proposed(instanceID[n], b, acceptedValue[n])
  BY <1>2, <1>3 DEF VotersFor, Proposed, Voted, Held
<1>5. acceptedValue[n] = w
  BY <1>2, <1>4 DEF AInv, ProposalInv, OneProposal
<1> QED
  BY <1>1, <1>5, MajorityChooses

(* A proposer that has counted a majority of accepts has its value chosen. *)
LEMMA CountedMeansChosen ==
    ASSUME IInv, AInv, ExecutionInv, NEW n \in Node, phase[n] = "accepting",
           NEW m \in Inbox(n, {"acceptReply"}), m.inst = instanceID[n],
           m.bal[1] = proposalID[n], m.reject = 0
    PROVE  /\ m.bal = Own(n) /\ instanceID[n] \in Instance
           /\ \A a \in granted[n] \cup {m.from} :
                <<a, instanceID[n], Own(n), value[n]>> \in votes
           /\ IsMajority(granted[n] \cup {m.from}) =>
                Succeeded(instanceID[n], m.bal)
<1>1. m \in msgs /\ m.type = "acceptReply" /\ m.to = n
  BY DEF Inbox
<1>2. m \in Message /\ MessageOrdered(m)
  BY <1>1 DEF IInv, TypeOK, HandlerInv, MessagesOrdered
<1>3. /\ m.bal \in BallotOrNull /\ m.bal[2] = n
      /\ instanceID[n] \in Instance /\ m.from \in Node
  BY <1>1, <1>2, MessageFields DEF MessageOrdered, BallotOrNull
<1>4. m.bal = Own(n)
  BY <1>3, BallotFields DEF Own
<1>5. PICK v \in Value : <<m.from, instanceID[n], Own(n), v>> \in votes
  BY <1>1, <1>4 DEF ExecutionInv, MessagesTrue, AcceptReplyTrue
<1>6. value[n] \in Value /\ Own(n) \in Ballot
  BY ValueAssumption, TypeFacts
  DEF IInv, TypeOK, HandlerInv, ProposerReady, ProposerTypeOK, ValueOrNone
<1>7. Opened(instanceID[n], Own(n), value[n])
  BY DEF Opened, AInv, RoundInv, GrantsTrue
<1>8. v = value[n]
  BY <1>3, <1>5, <1>6, <1>7
  DEF Proposed, Voted, AInv, ProposalInv, OneProposal
<1>9. \A a \in granted[n] \cup {m.from} :
        <<a, instanceID[n], Own(n), value[n]>> \in votes
  BY <1>5, <1>8 DEF ExecutionInv, CountsTrue, CountTrue
<1>10. ASSUME IsMajority(granted[n] \cup {m.from})
       PROVE  Succeeded(instanceID[n], m.bal)
  <2>1. granted[n] \cup {m.from} \in SUBSET Node
    BY <1>3 DEF IInv, TypeOK, ProposerTypeOK
  <2>2. /\ granted[n] \cup {m.from}
                \in SUBSET VotersFor(instanceID[n], Own(n), value[n])
        /\ VotersFor(instanceID[n], Own(n), value[n]) \in SUBSET Node
    BY <1>9, <2>1 DEF VotersFor
  <2>3. IsMajority(VotersFor(instanceID[n], Own(n), value[n]))
    BY <1>10, <2>2, LargerMajority
  <2> QED
    BY <1>4, <1>6, <2>3 DEF Succeeded
<1> QED
  BY <1>3, <1>4, <1>9, <1>10
-----------------------------------------------------------------------------
(* What a step of n does to the record, the messages and the counts.       *)

EInv == IInv /\ AInv /\ ExecutionInv

ExecutesChosen(n) ==
    \/ UNCHANGED <<instanceID, decided, results>>
    \/ /\ instanceID[n] \in Instance
       /\ \E v \in ChosenValues(instanceID[n]) : Execute(n, v)
       /\ paxosLog'[n][instanceID[n]].value \in ChosenValues(instanceID[n])

KeepsRecords(n) ==
    /\ \A x \in Node \ {n} : paxosLog'[x] = paxosLog[x]
    /\ \A i \in Instance :
            i < instanceID[n] => paxosLog'[n][i] = paxosLog[n][i]
    /\ acceptedBallot'[n] # NullBallot /\ instanceID'[n] \in Instance =>
            /\ paxosLog'[n][instanceID'[n]] # NoRecord
            /\ paxosLog'[n][instanceID'[n]].value = acceptedValue'[n]

SendsTrue(n) ==
    \A m \in msgs' \ msgs :
        AcceptReplyTrue(m)' /\ SuccessTrue(m)' /\ LearnTrue(m)'

Executes(n) ==
    ExecutesChosen(n) /\ KeepsRecords(n) /\ SendsTrue(n) /\ CountTrue(n)'

(* A record written with what the acceptor then holds.                     *)
LEMMA PersistKeepsRecords ==
    ASSUME EInv, NEW n \in Node, NEW i \in Instance, NEW p, NEW a, NEW v,
           Persist(n, i, p, a, v), instanceID'[n] = i, acceptedValue'[n] = v,
           i \in {instanceID[n], instanceID[n] + 1}, NoRecord \notin Record,
           p \in BallotOrNull, a \in BallotOrNull, v \in ValueOrNone
    PROVE  KeepsRecords(n)
<1> DEFINE r == [promise |-> p, accepted |-> a, value |-> v]
<1>1. /\ paxosLog' = [paxosLog EXCEPT ![n][i] = r]
      /\ paxosLog \in [Node -> [Instance -> Record \cup {NoRecord}]]
      /\ instanceID[n] \in Nat
  BY TypeFacts DEF Persist, EInv, IInv, TypeOK, AcceptorTypeOK
<1>2. r.value = v /\ r # NoRecord
  BY DEF Record
<1> HIDE DEF r
<1>3. \A j \in Instance : j # i => paxosLog'[n][j] = paxosLog[n][j]
  BY <1>1
<1>4. \A x \in Node \ {n} : paxosLog'[x] = paxosLog[x]
  BY <1>1
<1>5. paxosLog'[n][i] = r
  BY <1>1
<1>6. \A j \in Instance : j < instanceID[n] => j # i
  BY <1>1 DEF Instance
<1> QED
  BY <1>2, <1>3, <1>4, <1>5, <1>6 DEF KeepsRecords

(* Nothing that concerns the record of the running instance changes, or    *)
(* the acceptor forgets it.                                                *)
LEMMA SameKeepsRecords ==
    ASSUME EInv, NEW n \in Node, UNCHANGED paxosLog,
           \/ UNCHANGED <<instanceID, acceptedBallot, acceptedValue>>
           \/ acceptedBallot'[n] = NullBallot
    PROVE  KeepsRecords(n)
BY DEF KeepsRecords, EInv, ExecutionInv, RecordsTrue, Logged

(* The end of the running instance by its success.                         *)
LEMMA SuccessExecutes ==
    ASSUME EInv, NEW n \in Node, instanceID[n] \in Instance,
           acceptedBallot[n] # NullBallot,
           acceptedValue[n] \in ChosenValues(instanceID[n]),
           Execute(n, acceptedValue[n]),
           paxosLog'[n][instanceID[n]] = paxosLog[n][instanceID[n]]
    PROVE  ExecutesChosen(n)
BY DEF ExecutesChosen, EInv, ExecutionInv, RecordsTrue

LEMMA CountStays ==
    ASSUME EInv, NEW n \in Node, votes \subseteq votes',
           SameRound(n), value'[n] = value[n],
           phase'[n] = phase[n] /\ granted'[n] = granted[n]
    PROVE  CountTrue(n)'
BY DEF EInv, ExecutionInv, CountsTrue, CountTrue, SameRound, Own

LEMMA OnAcceptReplyExecutes ==
    ASSUME EInv, NEW n \in Node, OnAcceptReply(n)
    PROVE  Executes(n)
<1> USE DEF EInv
<1>1. PICK m \in Inbox(n, {"acceptReply"}) :
        /\ phase[n] = "accepting"
        /\ m.inst = instanceID[n]
        /\ m.bal[1] = proposalID[n]
        /\ UNCHANGED <<proposalID, paxosLog, votes>>
        /\ \/ /\ Receive(m, {})
              /\ UNCHANGED <<learnVars, acceptorVars, value, phase, granted>>
           \/ /\ m.reject = 0
              /\ granted' = [granted EXCEPT ![n] = @ \cup {m.from}]
              /\ Receive(m, {})
              /\ UNCHANGED <<learnVars, acceptorVars, value, phase>>
           \/ /\ m.reject = 0
              /\ IsMajority(granted[n] \cup {m.from})
              /\ Receive(m, Successes(n, instanceID[n], m.bal))
              /\ \/ /\ LearnsFromSuccess(n, m.bal)
                    /\ Execute(n, acceptedValue[n])
                    /\ SetAcceptor(n, promiseBallot[n], NullBallot, None)
                    /\ ProposerNewInstance(n)
                 \/ /\ phase' = [phase EXCEPT ![n] = "idle"]
                    /\ UNCHANGED <<learnVars, acceptedBallot, acceptedValue>>
  BY DEF OnAcceptReply, acceptorVars, historyVars, passVars
<1>2. CASE /\ Receive(m, {})
           /\ UNCHANGED <<learnVars, acceptorVars, value, phase>>
           /\ \/ UNCHANGED granted
              \/ /\ m.reject = 0
                 /\ granted' = [granted EXCEPT ![n] = @ \cup {m.from}]
  <2>1. ExecutesChosen(n) /\ KeepsRecords(n)
    BY <1>2, SameKeepsRecords DEF ExecutesChosen, learnVars, acceptorVars
  <2>2. SendsTrue(n)
    BY <1>2 DEF SendsTrue, Receive
  <2>3. \A a \in granted'[n] :
            <<a, instanceID[n], Own(n), value[n]>> \in votes
    <3>1. CASE UNCHANGED granted
      BY <1>1, <3>1 DEF ExecutionInv, CountsTrue, CountTrue
    <3>2. CASE m.reject = 0 /\ granted' = [granted EXCEPT ![n] = @ \cup {m.from}]
      <4>1. granted'[n] = granted[n] \cup {m.from}
        BY <3>2 DEF IInv, TypeOK, ProposerTypeOK
      <4> QED
        BY <1>1, <3>2, <4>1, CountedMeansChosen
    <3> QED
      BY <1>2, <3>1, <3>2
  <2>4. CountTrue(n)'
    BY <1>1, <1>2, <2>3 DEF CountTrue, Own, learnVars
  <2> QED
    BY <2>1, <2>2, <2>4 DEF Executes
<1>3. CASE /\ m.reject = 0
           /\ IsMajority(granted[n] \cup {m.from})
           /\ Receive(m, Successes(n, instanceID[n], m.bal))
  <2>1. Succeeded(instanceID[n], m.bal) /\ instanceID[n] \in Instance
    BY <1>1, <1>3, CountedMeansChosen
  <2>2. SendsTrue(n)
    <3>1. PICK i : i = instanceID[n]
      OBVIOUS
    <3>2. Succeeded(i, m.bal)'
      BY <1>1, <2>1, <3>1, ChosenStays
    <3>3. \A x \in msgs' \ msgs :
            x.type = "success" /\ x.inst = i /\ x.bal = m.bal
      BY <1>3, <3>1 DEF Receive, Successes
    <3>4. ASSUME NEW x \in msgs' \ msgs
          PROVE  AcceptReplyTrue(x)' /\ SuccessTrue(x)' /\ LearnTrue(x)'
      BY <3>2, <3>3 DEF AcceptReplyTrue, SuccessTrue, LearnTrue
    <3> QED
      BY <3>4 DEF SendsTrue
  <2>3. CASE /\ LearnsFromSuccess(n, m.bal)
             /\ Execute(n, acceptedValue[n])
             /\ SetAcceptor(n, promiseBallot[n], NullBallot, None)
             /\ ProposerNewInstance(n)
    <3>1. ExecutesChosen(n)
      BY <1>1, <2>1, <2>3, SuccessMeansChosen, SuccessExecutes
      DEF LearnsFromSuccess
    <3>2. KeepsRecords(n)
      BY <1>1, <2>3, SameKeepsRecords
      DEF SetAcceptor, IInv, TypeOK, AcceptorTypeOK
    <3>3. CountTrue(n)'
      BY <2>3 DEF CountTrue, ProposerNewInstance, IInv, TypeOK, ProposerTypeOK
    <3> QED
      BY <2>2, <3>1, <3>2, <3>3 DEF Executes
  <2>4. CASE /\ phase' = [phase EXCEPT ![n] = "idle"]
             /\ UNCHANGED <<learnVars, acceptedBallot, acceptedValue>>
    <3>1. ExecutesChosen(n) /\ KeepsRecords(n)
      BY <1>1, <2>4, SameKeepsRecords DEF ExecutesChosen, learnVars
    <3>2. CountTrue(n)'
      BY <2>4 DEF CountTrue, IInv, TypeOK, ProposerTypeOK
    <3> QED
      BY <2>2, <3>1, <3>2 DEF Executes
  <2>5. \/ /\ LearnsFromSuccess(n, m.bal)
           /\ Execute(n, acceptedValue[n])
           /\ SetAcceptor(n, promiseBallot[n], NullBallot, None)
           /\ ProposerNewInstance(n)
        \/ /\ phase' = [phase EXCEPT ![n] = "idle"]
           /\ UNCHANGED <<learnVars, acceptedBallot, acceptedValue>>
        \/ Executes(n)
    BY <1>1, <1>2
  <2> QED
    BY <2>3, <2>4, <2>5
<1> QED
  BY <1>1, <1>2, <1>3

(* Handlers that change neither acceptor nor instance, and send nothing    *)
(* but prepares and accepts.                                               *)
LEMMA ElseExecutes ==
    ASSUME EInv, NEW n \in Node,
           UNCHANGED <<instanceID, decided, results>>, KeepsRecords(n),
           \A m \in msgs' \ msgs : m.type \in {"prepare", "accept", "prepareReply"},
           CountTrue(n)'
    PROVE  Executes(n)
BY DEF Executes, ExecutesChosen, SendsTrue, AcceptReplyTrue, SuccessTrue,
       LearnTrue

LEMMA OnPrepareReplyExecutes ==
    ASSUME EInv, NEW n \in Node, OnPrepareReply(n)
    PROVE  Executes(n)
<1> USE DEF EInv, IInv, TypeOK, ProposerTypeOK
<1>1. /\ UNCHANGED <<instanceID, decided, results, acceptedBallot,
                     acceptedValue, paxosLog>>
      /\ phase[n] = "preparing"
      /\ \/ UNCHANGED phase
         \/ \E w : Accept(n, w)
  BY DEF OnPrepareReply, learnVars, acceptorVars
<1>2. CountTrue(n)'
  BY <1>1 DEF Accept, CountTrue
<1>3. KeepsRecords(n)
  BY <1>1, SameKeepsRecords
<1>4. \A m \in msgs' \ msgs : m.type = "accept"
  BY DEF OnPrepareReply, Receive, MyAccepts, Accepts
<1> QED
  BY <1>1, <1>2, <1>3, <1>4, ElseExecutes

LEMMA QuietExecutes ==
    ASSUME EInv, NEW n \in Node, OnExpiredReply(n) \/ CommitTimeout(n)
    PROVE  Executes(n)
<1> USE DEF EInv, IInv, TypeOK, ProposerTypeOK
<1>1. /\ UNCHANGED <<instanceID, decided, results, acceptedBallot,
                     acceptedValue, paxosLog, votes, proposalID, value, granted>>
      /\ phase' \in {phase, [phase EXCEPT ![n] = "idle"]}
      /\ msgs' \subseteq msgs
  BY DEF OnExpiredReply, CommitTimeout, learnVars, acceptorVars, historyVars,
         passVars, Receive
<1>2. CountTrue(n)'
  <2>1. CASE phase' = phase
    BY <1>1, <2>1, CountStays DEF SameRound
  <2>2. CASE phase' = [phase EXCEPT ![n] = "idle"]
    BY <2>2 DEF CountTrue
  <2> QED
    BY <1>1, <2>1, <2>2
<1>3. KeepsRecords(n)
  BY <1>1, SameKeepsRecords
<1> QED
  BY <1>1, <1>2, <1>3, ElseExecutes
LEMMA SendLearnExecutes ==
    ASSUME EInv, NEW n \in Node, NEW to \in Node, NEW i \in Instance,
           SendLearnValue(n, to, i)
    PROVE  Executes(n)
<1> USE DEF EInv
<1>1. /\ UNCHANGED <<instanceID, decided, results, acceptedBallot,
                     acceptedValue, paxosLog, votes, proposalID, value, phase,
                     granted>>
      /\ i < instanceID[n] /\ i \in Logged(n)
      /\ \A m \in msgs' \ msgs : /\ m.type = "learn" /\ m.inst = i
                                 /\ m.value = paxosLog[n][i].value
  BY DEF SendLearnValue, HasLearnt, Logged, Send, learnVars, acceptorVars,
         proposerVars, historyVars, passVars
<1>2. paxosLog[n][i].value \in ChosenValues(i)
  BY <1>1 DEF ExecutionInv, RecordsTrue
<1>3. PICK w : w = paxosLog[n][i].value
  OBVIOUS
<1>4. w \in ChosenValues(i)'
  BY <1>1, <1>2, <1>3, ChosenStays
<1>5. ASSUME NEW m \in msgs' \ msgs
      PROVE  AcceptReplyTrue(m)' /\ SuccessTrue(m)' /\ LearnTrue(m)'
  BY <1>1, <1>3, <1>4 DEF AcceptReplyTrue, SuccessTrue, LearnTrue
<1>6. KeepsRecords(n) /\ ExecutesChosen(n)
  BY <1>1, SameKeepsRecords DEF ExecutesChosen
<1>7. CountTrue(n)'
  BY <1>1, CountStays DEF SameRound
<1> QED
  BY <1>5, <1>6, <1>7 DEF Executes, SendsTrue

LEMMA OnProposerSendSuccessExecutes ==
    ASSUME EInv, NEW n \in Node, OnProposerSendSuccess(n)
    PROVE  Executes(n)
<1> USE DEF EInv
<1>1. PICK m \in Inbox(n, {"success"}) :
        /\ m.inst = instanceID[n]
        /\ LearnsFromSuccess(n, m.bal)
        /\ Execute(n, acceptedValue[n])
        /\ SetAcceptor(n, promiseBallot[n], NullBallot, None)
        /\ ProposerNewInstance(n)
        /\ Receive(m, {})
        /\ UNCHANGED paxosLog
  BY DEF OnProposerSendSuccess
<1>2. m \in msgs /\ m.type = "success"
  BY DEF Inbox
<1>3. instanceID[n] \in Instance
  BY <1>1, <1>2, MessageFields DEF IInv, TypeOK
<1>4. Succeeded(instanceID[n], m.bal)
  BY <1>1, <1>2 DEF ExecutionInv, MessagesTrue, SuccessTrue
<1>5. ExecutesChosen(n)
  BY <1>1, <1>3, <1>4, SuccessMeansChosen, SuccessExecutes
  DEF LearnsFromSuccess
<1>6. KeepsRecords(n)
  BY <1>1, SameKeepsRecords DEF SetAcceptor, IInv, TypeOK, AcceptorTypeOK
<1>7. CountTrue(n)'
  BY <1>1 DEF CountTrue, ProposerNewInstance, IInv, TypeOK, ProposerTypeOK
<1>8. SendsTrue(n)
  BY <1>1 DEF SendsTrue, Receive
<1> QED
  BY <1>5, <1>6, <1>7, <1>8 DEF Executes

LEMMA OnSendLearnValueExecutes ==
    ASSUME EInv, NEW n \in Node, OnSendLearnValue(n)
    PROVE  Executes(n)
<1> USE DEF EInv
<1>1. PICK m \in Inbox(n, {"learn"}) :
        /\ m.inst = instanceID[n]
        /\ Persist(n, m.inst, m.bal, m.bal, m.value)
        /\ Execute(n, m.value)
        /\ SetAcceptor(n, promiseBallot[n], NullBallot, None)
        /\ ProposerNewInstance(n)
        /\ Receive(m, {})
  BY DEF OnSendLearnValue
<1>2. m \in msgs /\ m.type = "learn"
  BY DEF Inbox
<1>3. instanceID[n] \in Instance
  BY <1>1, <1>2, MessageFields DEF IInv, TypeOK
<1>4. m.value \in ChosenValues(instanceID[n])
  BY <1>1, <1>2 DEF ExecutionInv, MessagesTrue, LearnTrue
<1>5. /\ paxosLog'[n][instanceID[n]].value = m.value
      /\ \A x \in Node \ {n} : paxosLog'[x] = paxosLog[x]
      /\ \A i \in Instance :
            i # instanceID[n] => paxosLog'[n][i] = paxosLog[n][i]
  BY <1>1, <1>3 DEF Persist, IInv, TypeOK, AcceptorTypeOK
<1>6. ExecutesChosen(n)
  BY <1>1, <1>3, <1>4, <1>5 DEF ExecutesChosen
<1>7. acceptedBallot'[n] = NullBallot
  BY <1>1 DEF SetAcceptor, IInv, TypeOK, AcceptorTypeOK
<1>8. KeepsRecords(n)
  <2>1. \A i \in Instance : i < instanceID[n] => i # instanceID[n]
    BY <1>3 DEF Instance
  <2> QED
    BY <1>5, <1>7, <2>1 DEF KeepsRecords
<1>9. CountTrue(n)'
  BY <1>1 DEF CountTrue, ProposerNewInstance, IInv, TypeOK, ProposerTypeOK
<1>10. SendsTrue(n)
  BY <1>1 DEF SendsTrue, Receive
<1> QED
  BY <1>6, <1>8, <1>9, <1>10 DEF Executes

(* A node prepares: its own acceptor stores the promise with the value it  *)
(* has accepted.                                                           *)
LEMMA PrepareExecutes ==
    ASSUME EInv, FaultyStore = {}, NEW n \in Node, NEW newBallot, NEW w,
           Prepare(n, newBallot, w), instanceID[n] \in Instance,
           UNCHANGED <<instanceID, decided, results>>
    PROVE  Executes(n)
<1> USE DEF EInv
<1>1. PICK b : b = <<NextProposalID(n, newBallot), n>>
  OBVIOUS
<1>2. /\ SelfPromise(n, b, w) \/ SelfReject(n, b, w)
      /\ phase' = [phase EXCEPT ![n] = "preparing"]
      /\ proposalID' = [proposalID EXCEPT ![n] = b[1]]
      /\ UNCHANGED <<acceptedBallot, acceptedValue>>
  BY <1>1 DEF Prepare, SelfPromiseNotPersisted, WriteFails
<1>3. CountTrue(n)'
  BY <1>2 DEF CountTrue, IInv, TypeOK, ProposerTypeOK
<1>4. \A m \in msgs' \ msgs : m.type = "prepare"
  BY <1>2 DEF SelfPromise, SelfReject, Send, Prepares
<1>5. KeepsRecords(n)
  <2>1. CASE SelfReject(n, b, w)
    BY <1>2, <2>1, SameKeepsRecords DEF SelfReject
  <2>2. CASE SelfPromise(n, b, w)
    <3>1. Persist(n, instanceID[n], b, acceptedBallot[n], acceptedValue[n])
      BY <2>2 DEF SelfPromise
    <3>2. b \in BallotOrNull
      BY <1>1, NextProposalIDInNat DEF BallotOrNull, Ballot
    <3> QED
      BY <1>2, <3>1, <3>2, PersistKeepsRecords, ValueAssumption
      DEF IInv, TypeOK, AcceptorTypeOK
  <2> QED
    BY <1>2, <2>1, <2>2
<1> QED
  BY <1>3, <1>4, <1>5, ElseExecutes
(* A prepare or accept of the next instance ends this one.                 *)
LEMMA EnterInstanceEnds ==
    ASSUME EInv, NEW n \in Node, NEW m \in Inbox(n, {"prepare", "accept"}),
           EnterInstanceOf(n, m), SkipLearnsChosen(n),
           UNCHANGED proposalID, votes \subseteq votes',
           \A i \in Instance :
                i # m.inst => paxosLog'[n][i] = paxosLog[n][i]
    PROVE  ExecutesChosen(n) /\ CountTrue(n)'
<1> USE DEF EInv
<1>1. CASE /\ m.inst = instanceID[n]
           /\ UNCHANGED <<learnVars, highestOther, value, phase, granted>>
  <2>1. ExecutesChosen(n)
    BY <1>1 DEF ExecutesChosen, learnVars
  <2>2. CountTrue(n)'
    BY <1>1, CountStays DEF SameRound, learnVars
  <2> QED
    BY <2>1, <2>2
<1>2. CASE /\ SkipsSuccess(n, m)
           /\ Execute(n, acceptedValue[n])
           /\ ProposerNewInstance(n)
  <2>1. m.inst = instanceID[n] + 1 /\ LearnsFromSuccess(n, m.bal)
    BY <1>2 DEF SkipsSuccess
  <2>2. instanceID[n] \in Instance /\ m.inst # instanceID[n]
    <3>1. m.inst \in Instance /\ instanceID[n] \in Nat
      BY MessageFields, TypeFacts DEF Inbox, IInv, TypeOK
    <3> QED
      BY <2>1, <3>1, BoundAssumption DEF Instance
  <2>3. instanceID'[n] = m.inst
    BY <1>2, <2>1 DEF Execute, IInv, TypeOK, LearnerTypeOK
  <2>4. acceptedValue[n] \in ChosenValues(instanceID[n])
    BY <1>2, <2>3 DEF SkipLearnsChosen
  <2>5. ExecutesChosen(n)
    BY <1>2, <2>1, <2>2, <2>4, SuccessExecutes DEF LearnsFromSuccess
  <2>6. CountTrue(n)'
    BY <1>2 DEF CountTrue, ProposerNewInstance, IInv, TypeOK, ProposerTypeOK
  <2> QED
    BY <2>5, <2>6
<1> QED
  BY <1>1, <1>2 DEF EnterInstanceOf

(* What a node that has refused a prepare or accept holds in the instance  *)
(* of the message.                                                         *)
LEMMA RefusalKeepsRecords ==
    ASSUME EInv, NEW n \in Node, NEW m \in Inbox(n, {"prepare", "accept"}),
           instanceID'[n] = m.inst,
           m.inst \in {instanceID[n], instanceID[n] + 1},
           SetAcceptor(n, promiseBallot[n], AcceptedIn(n, m).bal,
                       AcceptedIn(n, m).value),
           UNCHANGED paxosLog
    PROVE  KeepsRecords(n)
<1> USE DEF EInv
<1>1. /\ acceptedBallot'[n] = AcceptedIn(n, m).bal
      /\ acceptedValue'[n] = AcceptedIn(n, m).value
  BY DEF SetAcceptor, IInv, TypeOK, AcceptorTypeOK
<1>2. instanceID[n] \in Nat
  BY TypeFacts
<1>3. \/ /\ instanceID'[n] = instanceID[n]
         /\ acceptedBallot'[n] = acceptedBallot[n]
         /\ acceptedValue'[n] = acceptedValue[n]
      \/ acceptedBallot'[n] = NullBallot
  BY <1>1, <1>2 DEF AcceptedIn
<1> QED
  BY <1>3 DEF KeepsRecords, ExecutionInv, RecordsTrue, Logged

LEMMA OnPrepareExecutes ==
    ASSUME EInv, FaultyStore = {}, NEW n \in Node, OnPrepare(n),
           SkipLearnsChosen(n)
    PROVE  Executes(n)
<1> USE DEF EInv
<1>1. PICK m, acc :
        /\ m \in Inbox(n, {"prepare"})
        /\ acc = AcceptedIn(n, m)
        /\ EnterInstanceOf(n, m)
        /\ UNCHANGED <<proposalID, preAcceptBallot, canSkipPrepare, wasReject,
                       votes>>
        /\ \A x \in msgs' \ msgs : x.type = "prepareReply"
        /\ \/ /\ SetAcceptor(n, m.bal, acc.bal, acc.value)
              /\ Persist(n, m.inst, m.bal, acc.bal, acc.value)
           \/ /\ SetAcceptor(n, promiseBallot[n], acc.bal, acc.value)
              /\ UNCHANGED paxosLog
  BY DEF OnPrepare, Receive, WriteFails
<1>2. m \in Inbox(n, {"prepare", "accept"}) /\ m \in Message
      /\ m.inst \in Instance /\ m.bal \in BallotOrNull
  BY <1>1, MessageFields DEF Inbox, IInv, TypeOK, BallotOrNull
<1>3. /\ instanceID'[n] = m.inst
      /\ m.inst \in {instanceID[n], instanceID[n] + 1}
  BY <1>1, EnterInstanceStep
<1>4. acc.bal \in BallotOrNull /\ acc.value \in ValueOrNone
  BY <1>1, <1>2, EnterInstanceInv
<1>5. KeepsRecords(n)
  <2>1. CASE /\ SetAcceptor(n, m.bal, acc.bal, acc.value)
             /\ Persist(n, m.inst, m.bal, acc.bal, acc.value)
    <3>1. acceptedValue'[n] = acc.value
      BY <2>1 DEF SetAcceptor, IInv, TypeOK, AcceptorTypeOK
    <3> QED
      BY <1>2, <1>3, <1>4, <2>1, <3>1, PersistKeepsRecords, ValueAssumption
  <2>2. CASE /\ SetAcceptor(n, promiseBallot[n], acc.bal, acc.value)
             /\ UNCHANGED paxosLog
    BY <1>1, <1>2, <1>3, <2>2, RefusalKeepsRecords
  <2> QED
    BY <1>1, <2>1, <2>2
<1>6. \A i \in Instance : i # m.inst => paxosLog'[n][i] = paxosLog[n][i]
  BY <1>1 DEF Persist, IInv, TypeOK, AcceptorTypeOK
<1>7. ExecutesChosen(n) /\ CountTrue(n)'
  BY <1>1, <1>2, <1>6, EnterInstanceEnds
<1>8. SendsTrue(n)
  BY <1>1 DEF SendsTrue, AcceptReplyTrue, SuccessTrue, LearnTrue
<1> QED
  BY <1>5, <1>7, <1>8 DEF Executes

LEMMA OnAcceptExecutes ==
    ASSUME EInv, FaultyStore = {}, NEW n \in Node, OnAccept(n),
           SkipLearnsChosen(n)
    PROVE  Executes(n)
<1> USE DEF EInv
<1>1. PICK m, acc :
        /\ m \in Inbox(n, {"accept"})
        /\ acc = AcceptedIn(n, m)
        /\ EnterInstanceOf(n, m)
        /\ UNCHANGED <<proposalID, preAcceptBallot, canSkipPrepare, wasReject>>
        /\ \A x \in msgs' \ msgs :
              /\ x.type = "acceptReply" /\ x.from = n
              /\ x.inst = m.inst /\ x.bal = m.bal
        /\ \/ AcceptPasses(n, m.inst, m.bal, m.value)
           \/ /\ ~BallotGE(m.bal, promiseBallot[n])
              /\ SetAcceptor(n, promiseBallot[n], acc.bal, acc.value)
              /\ \A x \in msgs' \ msgs : x.reject = promiseBallot[n][1]
              /\ UNCHANGED <<paxosLog, votes>>
  BY DEF OnAccept, Receive, AcceptNotPersisted, WriteFails
<1>2. m \in Inbox(n, {"prepare", "accept"}) /\ m \in Message
      /\ m.inst \in Instance /\ m.bal \in Ballot /\ m.value \in Value
  BY <1>1, MessageFields DEF Inbox, IInv, TypeOK
<1>3. /\ instanceID'[n] = m.inst
      /\ m.inst \in {instanceID[n], instanceID[n] + 1}
  BY <1>1, EnterInstanceStep
<1>4. KeepsRecords(n)
  <2>1. CASE AcceptPasses(n, m.inst, m.bal, m.value)
    <3>1. acceptedValue'[n] = m.value
      BY <2>1 DEF AcceptPasses, SetAcceptor, IInv, TypeOK, AcceptorTypeOK
    <3> QED
      BY <1>2, <1>3, <2>1, <3>1, PersistKeepsRecords, ValueAssumption
      DEF AcceptPasses, BallotOrNull, ValueOrNone
  <2>2. CASE /\ SetAcceptor(n, promiseBallot[n], acc.bal, acc.value)
             /\ UNCHANGED paxosLog
    BY <1>1, <1>2, <1>3, <2>2, RefusalKeepsRecords
  <2> QED
    BY <1>1, <2>1, <2>2
<1>5. \A i \in Instance : i # m.inst => paxosLog'[n][i] = paxosLog[n][i]
  BY <1>1 DEF AcceptPasses, Persist, IInv, TypeOK, AcceptorTypeOK
<1>6. votes \subseteq votes'
  BY <1>1 DEF AcceptPasses
<1>7. ExecutesChosen(n) /\ CountTrue(n)'
  BY <1>1, <1>2, <1>5, <1>6, EnterInstanceEnds
<1>8. \A x \in msgs' \ msgs :
        x.reject = 0 => <<n, m.inst, m.bal, m.value>> \in votes'
  <2>1. CASE AcceptPasses(n, m.inst, m.bal, m.value)
    BY <2>1 DEF AcceptPasses
  <2>2. CASE /\ ~BallotGE(m.bal, promiseBallot[n])
             /\ \A x \in msgs' \ msgs : x.reject = promiseBallot[n][1]
    <3>1. promiseBallot[n] # NullBallot /\ promiseBallot[n] \in BallotOrNull
      BY <1>2, <2>2, BallotReflexive, TypeFacts
    <3>2. promiseBallot[n][1] # 0
      BY <3>1 DEF BallotOrNull, Ballot
    <3> QED
      BY <2>2, <3>2
  <2> QED
    BY <1>1, <2>1, <2>2
<1>9. ASSUME NEW x \in msgs' \ msgs
      PROVE  AcceptReplyTrue(x)' /\ SuccessTrue(x)' /\ LearnTrue(x)'
  BY <1>1, <1>2, <1>8 DEF AcceptReplyTrue, SuccessTrue, LearnTrue
<1> QED
  BY <1>4, <1>7, <1>9 DEF Executes, SendsTrue

LEMMA SelfAcceptExecutes ==
    ASSUME EInv, FaultyStore = {}, NEW n \in Node, SelfAccept(n)
    PROVE  Executes(n)
<1> USE DEF EInv
<1>1. /\ phase[n] = "selfAccept" /\ phase' = [phase EXCEPT ![n] = "accepting"]
      /\ UNCHANGED <<instanceID, decided, results, proposalID, value, msgs>>
      /\ \/ /\ AcceptPasses(n, instanceID[n], Own(n), value[n])
            /\ granted' = [granted EXCEPT ![n] = {n}]
         \/ UNCHANGED <<acceptorVars, granted, votes>>
  BY DEF SelfAccept, Own, AcceptNotPersisted, WriteFails, learnVars
<1>2. instanceID[n] \in Instance /\ value[n] \in Value /\ Own(n) \in Ballot
  <2>1. value[n] # None /\ instanceID[n] < MaxInstance
    BY <1>1 DEF IInv, HandlerInv, ProposerReady
  <2> QED
    BY <2>1, TypeFacts, BoundAssumption
    DEF IInv, TypeOK, ProposerTypeOK, ValueOrNone, Instance
<1>3. granted[n] = {}
  BY <1>1 DEF ExecutionInv, CountsTrue, CountTrue
<1>4. KeepsRecords(n) /\ CountTrue(n)'
  <2>1. CASE /\ AcceptPasses(n, instanceID[n], Own(n), value[n])
             /\ granted' = [granted EXCEPT ![n] = {n}]
    <3>1. acceptedValue'[n] = value[n]
      BY <2>1 DEF AcceptPasses, SetAcceptor, IInv, TypeOK, AcceptorTypeOK
    <3>2. KeepsRecords(n)
      BY <1>1, <1>2, <2>1, <3>1, PersistKeepsRecords, ValueAssumption
      DEF AcceptPasses, BallotOrNull, ValueOrNone
    <3>3. granted'[n] = {n} /\ <<n, instanceID[n], Own(n), value[n]>> \in votes'
      BY <2>1 DEF AcceptPasses, IInv, TypeOK, ProposerTypeOK
    <3>4. phase'[n] = "accepting"
      BY <1>1 DEF IInv, TypeOK, ProposerTypeOK
    <3>5. CountTrue(n)'
      BY <1>1, <3>3, <3>4 DEF CountTrue, Own
    <3> QED
      BY <3>2, <3>5
  <2>2. CASE UNCHANGED <<acceptorVars, granted, votes>>
    <3>1. KeepsRecords(n)
      BY <1>1, <2>2, SameKeepsRecords DEF acceptorVars
    <3>2. granted'[n] = {}
      BY <1>3, <2>2
    <3>3. CountTrue(n)'
      BY <3>2 DEF CountTrue
    <3> QED
      BY <3>1, <3>3
  <2> QED
    BY <1>1, <2>1, <2>2
<1> QED
  BY <1>1, <1>4 DEF Executes, ExecutesChosen, SendsTrue
LEMMA ProposesExecutes ==
    ASSUME EInv, FaultyStore = {}, NEW n \in Node,
           ProposerTimeout(n) \/ \E v \in Value : NewValue(n, v)
    PROVE  Executes(n)
<1> USE DEF EInv
<1>1. /\ UNCHANGED <<instanceID, decided, results>>
      /\ \/ \E newBallot, w : Prepare(n, newBallot, w)
         \/ \E w : /\ Accept(n, w) /\ Send(MyAccepts(n, w))
                   /\ UNCHANGED acceptorVars
  BY DEF ProposerTimeout, NewValue, learnVars
<1>2. instanceID[n] \in Instance
  <2>1. instanceID[n] < MaxInstance
    BY DEF ProposerTimeout, NewValue, IInv, HandlerInv, ProposerReady
  <2> QED
    BY <2>1, TypeFacts, BoundAssumption DEF Instance
<1>3. CASE \E newBallot, w : Prepare(n, newBallot, w)
  BY <1>1, <1>2, <1>3, PrepareExecutes
<1>4. CASE \E w : /\ Accept(n, w) /\ Send(MyAccepts(n, w))
                  /\ UNCHANGED acceptorVars
  <2>1. CountTrue(n)'
    BY <1>4 DEF Accept, CountTrue, IInv, TypeOK, ProposerTypeOK
  <2>2. \A m \in msgs' \ msgs : m.type = "accept"
    BY <1>4 DEF Send, MyAccepts, Accepts
  <2>3. KeepsRecords(n)
    BY <1>1, <1>4, SameKeepsRecords DEF acceptorVars
  <2> QED
    BY <1>1, <2>1, <2>2, <2>3, ElseExecutes
<1> QED
  BY <1>1, <1>3, <1>4

LEMMA HandlesExecutes ==
    ASSUME EInv, FaultyStore = {}, NEW n \in Node, Handles(n),
           SkipLearnsChosen(n)
    PROVE  Executes(n)
BY ProposesExecutes, OnPrepareReplyExecutes, OnAcceptReplyExecutes,
   QuietExecutes, OnPrepareExecutes, OnAcceptExecutes, SelfAcceptExecutes,
   OnProposerSendSuccessExecutes, SendLearnExecutes, OnSendLearnValueExecutes
DEF Handles

-----------------------------------------------------------------------------
(* The invariant of the execution.                                         *)

(* A step executes the running instance of its node or none.               *)
LEMMA ExecutesOne ==
    ASSUME EInv, NEW n \in Node, Step(n), Executes(n)
    PROVE  /\ decided \subseteq decided'
           /\ \/ /\ instanceID'[n] = instanceID[n] /\ decided' = decided
                 /\ results' = results
              \/ \E v \in Value :
                    /\ instanceID[n] \in Instance
                    /\ v \in ChosenValues(instanceID[n])
                    /\ instanceID'[n] = instanceID[n] + 1
                    /\ decided' = decided \cup {<<n, instanceID[n], v>>}
BY DEF Executes, ExecutesChosen, Execute, ChosenValues, EInv, IInv, TypeOK,
       LearnerTypeOK

LEMMA MessagesStep ==
    ASSUME EInv, NEW n \in Node, Executes(n), votes \subseteq votes'
    PROVE  MessagesTrue'
<1> SUFFICES ASSUME NEW m \in msgs'
             PROVE  AcceptReplyTrue(m)' /\ SuccessTrue(m)' /\ LearnTrue(m)'
  BY DEF MessagesTrue
<1>1. CASE m \in msgs
  <2>1. AcceptReplyTrue(m) /\ SuccessTrue(m) /\ LearnTrue(m)
    BY <1>1 DEF EInv, ExecutionInv, MessagesTrue
  <2>2. AcceptReplyTrue(m)'
    BY <2>1 DEF AcceptReplyTrue
  <2>3. SuccessTrue(m)' /\ LearnTrue(m)'
    BY <2>1, ChosenStays DEF SuccessTrue, LearnTrue
  <2> QED
    BY <2>2, <2>3
<1>2. CASE m \notin msgs
  BY <1>2 DEF Executes, SendsTrue
<1> QED
  BY <1>1, <1>2

LEMMA CountsStep ==
    ASSUME EInv, NEW n \in Node, Untouched(n), Executes(n),
           votes \subseteq votes'
    PROVE  CountsTrue'
<1> SUFFICES ASSUME NEW x \in Node PROVE CountTrue(x)'
  BY DEF CountsTrue
<1>1. CASE x = n
  BY <1>1 DEF Executes
<1>2. CASE x # n
  <2>1. /\ SameRound(x) /\ value'[x] = value[x]
        /\ phase'[x] = phase[x] /\ granted'[x] = granted[x]
    BY <1>2 DEF Untouched, SameRound
  <2> QED
    BY <2>1, CountStays
<1> QED
  BY <1>1, <1>2

LEMMA RecordsStep ==
    ASSUME EInv, NEW n \in Node, Step(n), Executes(n), votes \subseteq votes'
    PROVE  RecordsTrue'
<1> USE DEF EInv
<1>1. ASSUME NEW x \in Node \ {n}, NEW i \in Instance,
             i \in Logged(x)', (i < instanceID[x])'
      PROVE  (paxosLog[x][i].value)' \in ChosenValues(i)'
  <2>1. paxosLog'[x] = paxosLog[x] /\ instanceID'[x] = instanceID[x]
    BY DEF Executes, KeepsRecords, Step, Untouched
  <2>2. paxosLog[x][i].value \in ChosenValues(i)
    BY <1>1, <2>1 DEF ExecutionInv, RecordsTrue, Logged
  <2> QED
    BY <2>1, <2>2, ChosenStays
<1>2. ASSUME NEW i \in Instance, i \in Logged(n)', (i < instanceID[n])'
      PROVE  (paxosLog[n][i].value)' \in ChosenValues(i)'
  <2>1. CASE i < instanceID[n]
    <3>1. paxosLog'[n][i] = paxosLog[n][i]
      BY <2>1 DEF Executes, KeepsRecords
    <3>2. paxosLog[n][i].value \in ChosenValues(i)
      BY <1>2, <2>1, <3>1 DEF ExecutionInv, RecordsTrue, Logged
    <3> QED
      BY <3>1, <3>2, ChosenStays
  <2>2. CASE ~(i < instanceID[n])
    <3>1. instanceID[n] \in Nat /\ i \in Nat
      BY TypeFacts DEF Instance
    <3>2. instanceID'[n] # instanceID[n]
      BY <1>2, <2>2
    <3>3. i = instanceID[n]
      BY <1>2, <2>2, <3>1, <3>2, ExecutesOne
    <3>4. paxosLog'[n][i].value \in ChosenValues(i)
      BY <3>2, <3>3 DEF Executes, ExecutesChosen
    <3> QED
      BY <3>4, ChosenStays
  <2> QED
    BY <2>1, <2>2
<1>3. ASSUME NEW x \in Node, acceptedBallot'[x] # NullBallot,
             instanceID'[x] \in Instance
      PROVE  /\ paxosLog'[x][instanceID'[x]] # NoRecord
             /\ paxosLog'[x][instanceID'[x]].value = acceptedValue'[x]
  <2>1. CASE x = n
    BY <1>3, <2>1 DEF Executes, KeepsRecords
  <2>2. CASE x # n
    BY <1>3, <2>2
    DEF Executes, KeepsRecords, Step, Untouched, ExecutionInv, RecordsTrue,
        Logged
  <2> QED
    BY <2>1, <2>2
<1> QED
  BY <1>1, <1>2, <1>3 DEF RecordsTrue, Logged

LEMMA LearnedStep ==
    ASSUME EInv, NEW n \in Node, Step(n), Executes(n), votes \subseteq votes'
    PROVE  LearnedIsChosen'
<1> SUFFICES ASSUME NEW d \in decided' PROVE d[3] \in ChosenValues(d[2])'
  BY DEF LearnedIsChosen
<1>1. d[3] \in ChosenValues(d[2])
  <2>1. CASE d \in decided
    BY <2>1 DEF EInv, ExecutionInv, LearnedIsChosen
  <2>2. CASE d \notin decided
    BY <2>2, ExecutesOne
  <2> QED
    BY <2>1, <2>2
<1> QED
  BY <1>1, ChosenStays

LEMMA InOrderStep ==
    ASSUME EInv, NEW n \in Node, Step(n), Executes(n)
    PROVE  ExecutesInOrder'
<1> SUFFICES ASSUME NEW x \in Node, NEW i \in Instance
             PROVE  Executed(x, i)' <=> i < instanceID'[x]
  BY DEF ExecutesInOrder
<1>1. Executed(x, i) <=> i < instanceID[x]
  BY DEF EInv, ExecutionInv, ExecutesInOrder
<1>2. instanceID[x] \in Nat /\ i \in Nat
  BY TypeFacts DEF EInv, Instance
<1>3. x # n => instanceID'[x] = instanceID[x]
  BY DEF Step, Untouched
<1>4. CASE instanceID'[n] = instanceID[n] /\ decided' = decided
  BY <1>1, <1>3, <1>4 DEF Executed
<1>5. ASSUME NEW v \in Value,
             instanceID'[n] = instanceID[n] + 1,
             decided' = decided \cup {<<n, instanceID[n], v>>}
      PROVE  Executed(x, i)' <=> i < instanceID'[x]
  <2>1. Executed(x, i)' <=> Executed(x, i) \/ (x = n /\ i = instanceID[n])
    BY <1>5 DEF Executed, ValueOrNone
  <2> QED
    BY <1>1, <1>2, <1>3, <1>5, <2>1
<1> QED
  BY <1>4, <1>5, ExecutesOne
LEMMA ExecutionInit == Init => ExecutionInv
<1> SUFFICES ASSUME Init PROVE ExecutionInv
  OBVIOUS
<1>1. MessagesTrue /\ CountsTrue /\ LearnedIsChosen
  BY DEF Init, MessagesTrue, CountsTrue, CountTrue, LearnedIsChosen
<1>2. RecordsTrue
  BY DEF Init, RecordsTrue, Logged
<1>3. ExecutesInOrder
  BY DEF Init, ExecutesInOrder, Executed, Instance
<1> QED
  BY <1>1, <1>2, <1>3 DEF ExecutionInv

LEMMA ExecutionStep ==
    ASSUME EInv, IInv', RestartNodes = {}, FaultyStore = {}, Next,
           \A n \in Node : SkipLearnsChosen(n)
    PROVE  ExecutionInv'
<1>1. PICK n \in Node : Step(n) /\ Executes(n)
  BY SomeoneHandles, HandlesStep, HandlesExecutes DEF EInv
<1>2. votes \subseteq votes'
  BY <1>1, StepHistory DEF EInv
<1>3. MessagesTrue'
  BY <1>1, <1>2, MessagesStep
<1>4. CountsTrue'
  BY <1>1, <1>2, CountsStep DEF Step
<1>5. RecordsTrue'
  BY <1>1, <1>2, RecordsStep
<1>6. LearnedIsChosen' /\ ExecutesInOrder'
  BY <1>1, <1>2, LearnedStep, InOrderStep
<1> QED
  BY <1>3, <1>4, <1>5, <1>6 DEF ExecutionInv

LEMMA ExecutionStutter ==
    ASSUME ExecutionInv, UNCHANGED vars
    PROVE  ExecutionInv'
<1> USE DEF vars, learnVars, acceptorVars, proposerVars, historyVars, passVars
<1>1. \A i, b : Succeeded(i, b)' <=> Succeeded(i, b)
  BY DEF Succeeded, VotersFor, IsMajority
<1>2. \A i, v : v \in ChosenValues(i)' <=> v \in ChosenValues(i)
  BY DEF ChosenValues, BallotsOf, VotersFor, IsMajority
<1>3. MessagesTrue'
  BY <1>1, <1>2
  DEF ExecutionInv, MessagesTrue, AcceptReplyTrue, SuccessTrue, LearnTrue
<1>4. CountsTrue'
  BY DEF ExecutionInv, CountsTrue, CountTrue, Own
<1>5. RecordsTrue' /\ LearnedIsChosen'
  BY <1>2 DEF ExecutionInv, RecordsTrue, Logged, LearnedIsChosen
<1>6. ExecutesInOrder'
  BY DEF ExecutionInv, ExecutesInOrder, Executed
<1> QED
  BY <1>3, <1>4, <1>5, <1>6 DEF ExecutionInv
-----------------------------------------------------------------------------
(* What clients are told.                                                  *)

(* The value of a commit in flight is nowhere but in its instance.         *)
CommitInv ==
    \A n \in Node : commit[n] # None =>
        /\ commit[n] \in proposed
        /\ \A i \in Instance : Occurs(i, commit[n]) => i = instanceID[n]

(* A conflict is told of a value that is nowhere but in an instance that   *)
(* has chosen another one.                                                 *)
ResultTrue(r) ==
    IF r.ret = "OK" THEN r.value \in ChosenValues(r.inst)
    ELSE /\ r.value \in proposed
         /\ \E w \in ChosenValues(r.inst) : w # r.value
         /\ \A i \in Instance : Occurs(i, r.value) => i = r.inst

ResultInv == \A r \in results : ResultTrue(r)

(* What a step of n does to its commit.                                    *)
EndsCommit(n) ==
    \/ results' = results
    \/ /\ instanceID[n] \in Instance /\ commit[n] # None
       /\ \E v \in ChosenValues(instanceID[n]) :
            results' = results \cup {CommitResult(n, v)}

Commits(n) ==
    /\ \A x \in Node \ {n} : commit'[x] = commit[x]
    /\ \/ /\ commit'[n] = commit[n] /\ instanceID'[n] = instanceID[n]
          /\ results' = results
       \/ commit'[n] = None /\ EndsCommit(n)
       \/ /\ commit'[n] \in proposed' \ proposed
          /\ instanceID'[n] = instanceID[n] /\ results' = results

LEMMA HandlesCommits ==
    ASSUME EInv, NEW n \in Node, Handles(n), Executes(n)
    PROVE  Commits(n)
<1> USE DEF EInv, IInv, TypeOK, LearnerTypeOK
<1>1. CASE \E v \in Value : NewValue(n, v)
  <2>1. PICK v \in Value :
            /\ v \notin proposed /\ proposed' = proposed \cup {v}
            /\ commit' = [commit EXCEPT ![n] = v]
            /\ UNCHANGED <<instanceID, results>>
    BY <1>1 DEF NewValue
  <2> QED
    BY <2>1 DEF Commits
<1>2. CASE CommitTimeout(n)
  BY <1>2 DEF CommitTimeout, Commits, EndsCommit
<1>3. CASE UNCHANGED learnVars
  BY <1>3 DEF learnVars, Commits
<1>4. ASSUME NEW w, Execute(n, w) PROVE Commits(n)
  <2>1. instanceID'[n] # instanceID[n]
    BY <1>4, TypeFacts DEF Execute
  <2>2. PICK v \in ChosenValues(instanceID[n]) :
            instanceID[n] \in Instance /\ Execute(n, v)
    BY <2>1 DEF Executes, ExecutesChosen
  <2>3. EndsCommit(n)
    BY <2>2 DEF Execute, EndsCommit
  <2> QED
    BY <2>2, <2>3 DEF Execute, Commits
<1>5. \/ \E v \in Value : NewValue(n, v)
      \/ CommitTimeout(n)
      \/ UNCHANGED learnVars
      \/ \E w : Execute(n, w)
  BY DEF Handles, ProposerTimeout, OnPrepareReply, OnAcceptReply,
         OnExpiredReply, OnPrepare, OnAccept, EnterInstanceOf, SelfAccept,
         OnProposerSendSuccess, SendLearnValue, OnSendLearnValue
<1> QED
  BY <1>1, <1>2, <1>3, <1>4, <1>5

(* A value known to clients occurs in no new instance.                     *)
LEMMA KnownStays ==
    ASSUME IInv, IInv', NEW n \in Node, Copies(n), NEW v \in proposed,
           NEW i \in Instance, Occurs(i, v)'
    PROVE  Occurs(i, v)
<1>1. v \in Value
  BY DEF IInv, TypeOK, HistoryTypeOK
<1> QED
  BY <1>1, OccursStep DEF Copied

LEMMA CommitStep ==
    ASSUME EInv, IInv', ValueInv, CommitInv, NEW n \in Node, Step(n), Copies(n),
           Commits(n)
    PROVE  CommitInv'
<1> USE DEF EInv
<1> SUFFICES ASSUME NEW x \in Node, NEW u, u = commit'[x], u # None
             PROVE  /\ u \in proposed'
                    /\ \A i \in Instance : Occurs(i, u)' => i = instanceID'[x]
  BY DEF CommitInv
<1>1. CASE u = commit[x] /\ instanceID'[x] = instanceID[x]
  <2>1. u \in proposed /\ \A i \in Instance : Occurs(i, u) => i = instanceID[x]
    BY <1>1 DEF CommitInv
  <2>2. u \in proposed'
    BY <2>1 DEF Copies
  <2>3. \A i \in Instance : Occurs(i, u)' => i = instanceID'[x]
    BY <1>1, <2>1, KnownStays
  <2> QED
    BY <2>2, <2>3
<1>2. CASE x = n /\ u \in proposed' \ proposed /\ instanceID'[n] = instanceID[n]
  <2>1. u \in Value
    BY <1>2 DEF IInv, TypeOK, HistoryTypeOK
  <2>2. \A i \in Instance : ~Occurs(i, u)
    BY <1>2, <2>1 DEF ValueInv, OccursProposed
  <2>3. \A i \in Instance : Occurs(i, u)' => i = instanceID'[x]
    BY <1>2, <2>1, <2>2, OccursStep DEF Copied
  <2> QED
    BY <1>2, <2>3
<1> QED
  BY <1>1, <1>2 DEF Commits, Step, Untouched

LEMMA ResultStep ==
    ASSUME EInv, IInv', ValueInv, CommitInv, ResultInv, NEW n \in Node,
           Step(n), Copies(n), Commits(n)
    PROVE  ResultInv'
<1> USE DEF EInv
<1>1. votes \subseteq votes' /\ proposed \subseteq proposed'
  BY StepHistory DEF Copies
<1> SUFFICES ASSUME NEW r \in results' PROVE ResultTrue(r)'
  BY DEF ResultInv
<1>2. ResultTrue(r)
  <2>1. CASE r \in results
    BY <2>1 DEF ResultInv
  <2>2. CASE r \notin results
    <3>1. PICK v \in ChosenValues(instanceID[n]) :
            commit[n] # None /\ r = CommitResult(n, v)
      BY <2>2 DEF Commits, EndsCommit
    <3>2. /\ r.value = commit[n] /\ r.inst = instanceID[n]
          /\ r.ret = "OK" <=> commit[n] = v
      BY <3>1 DEF CommitResult
    <3>3. /\ commit[n] \in proposed
          /\ \A i \in Instance : Occurs(i, commit[n]) => i = instanceID[n]
      BY <3>1 DEF CommitInv
    <3> QED
      BY <3>1, <3>2, <3>3 DEF ResultTrue
  <2> QED
    BY <2>1, <2>2
<1>3. CASE r.ret = "OK"
  BY <1>1, <1>2, <1>3, ChosenStays DEF ResultTrue
<1>4. CASE r.ret # "OK"
  <2>1. /\ r.value \in proposed
        /\ \E w \in ChosenValues(r.inst) : w # r.value
        /\ \A i \in Instance : Occurs(i, r.value) => i = r.inst
    BY <1>2, <1>4 DEF ResultTrue
  <2>2. \A i \in Instance : Occurs(i, r.value)' => i = r.inst
    BY <2>1, KnownStays
  <2>3. \E w \in ChosenValues(r.inst)' : w # r.value
    BY <1>1, <2>1, ChosenStays
  <2> QED
    BY <1>1, <1>4, <2>1, <2>2, <2>3 DEF ResultTrue
<1> QED
  BY <1>3, <1>4
-----------------------------------------------------------------------------
(* The whole invariant.                                                    *)

GroupInv == EInv /\ ValueInv /\ CommitInv /\ ResultInv

LEMMA GroupInit == Init => GroupInv
<1>1. Init => CommitInv /\ ResultInv
  BY DEF Init, CommitInv, ResultInv
<1> QED
  BY <1>1, InitInv, AgreementInit, ExecutionInit, ValueInit DEF GroupInv, EInv

LEMMA ClientStutter ==
    ASSUME CommitInv, ResultInv, UNCHANGED vars
    PROVE  CommitInv' /\ ResultInv'
<1> USE DEF vars, learnVars, acceptorVars, proposerVars, historyVars, passVars
<1>1. ASSUME NEW i, NEW v PROVE Occurs(i, v)' <=> Occurs(i, v)
  BY DEF Occurs, Logged
<1>2. ASSUME NEW i, NEW v
      PROVE  v \in ChosenValues(i)' <=> v \in ChosenValues(i)
  BY DEF ChosenValues, BallotsOf, VotersFor, IsMajority
<1>3. CommitInv'
  <2> SUFFICES ASSUME NEW n \in Node, NEW u, u = commit[n], u # None
               PROVE  /\ u \in proposed
                      /\ \A i \in Instance : Occurs(i, u)' => i = instanceID[n]
    BY DEF CommitInv
  <2> QED
    BY <1>1 DEF CommitInv
<1>4. ResultInv'
  <2> SUFFICES ASSUME NEW r \in results PROVE ResultTrue(r)'
    BY DEF ResultInv
  <2> QED
    BY <1>1, <1>2 DEF ResultInv, ResultTrue
<1> QED
  BY <1>3, <1>4

LEMMA GroupStep ==
    ASSUME RestartNodes = {}, FaultyStore = {}, GroupInv, [Next]_vars,
           [\A n \in Node : RetryKeepsVote(n)]_vars,
           [\A n \in Node : SkipLearnsChosen(n)]_vars
    PROVE  GroupInv'
<1> USE DEF GroupInv, EInv
<1>1. IInv'
  BY NextInv
<1>2. ValueInv'
  BY <1>1, ValueStep
<1>3. \A n \in Node : RetryKeepsVote(n)
  BY StutterRetries
<1>4. AInv'
  BY <1>1, <1>3, AgreementStep
<1>5. CASE UNCHANGED vars
  BY <1>1, <1>2, <1>4, <1>5, ExecutionStutter, ClientStutter
<1>6. CASE Next /\ ~UNCHANGED vars
  <2>1. \A n \in Node : SkipLearnsChosen(n)
    BY <1>6
  <2>2. ExecutionInv'
    BY <1>1, <1>6, <2>1, ExecutionStep
  <2>3. PICK n \in Node : Handles(n)
    BY <1>6, SomeoneHandles
  <2>4. Step(n) /\ Executes(n) /\ Copies(n)
    BY <1>1, <2>1, <2>3, HandlesStep, HandlesExecutes, HandlesCopies
  <2>5. Commits(n)
    BY <2>3, <2>4, HandlesCommits
  <2> QED
    BY <1>1, <1>2, <1>4, <2>2, <2>4, <2>5, CommitStep, ResultStep
<1> QED
  BY <1>5, <1>6

LEMMA GroupHolds ==
    ASSUME RestartNodes = {}, FaultyStore = {}
    PROVE  Spec /\ RetriesKeepVote /\ SkipsLearnChosen => []GroupInv
<1>1. Init => GroupInv
  BY GroupInit
<1>2. /\ GroupInv /\ [Next]_vars
      /\ [\A n \in Node : RetryKeepsVote(n)]_vars
      /\ [\A n \in Node : SkipLearnsChosen(n)]_vars
      => GroupInv'
  BY GroupStep
<1> QED
  BY <1>1, <1>2, PTL DEF Spec, RetriesKeepVote, SkipsLearnChosen

(* Every value a node executes is one its group has chosen in that place,  *)
(* whether Learner::OnProposerSendSuccess, the next instance's prepare or  *)
(* accept or Learner::OnSendLearnValue brought it: on nodes that do not    *)
(* restart and whose log writes succeed, as long as no message of the next *)
(* instance is taken for a success that has not happened.                  *)
THEOREM ExecutedIsChosen ==
    ASSUME RestartNodes = {}, FaultyStore = {}
    PROVE  Spec /\ RetriesKeepVote /\ SkipsLearnChosen => []LearnedIsChosen
<1>1. GroupInv => LearnedIsChosen
  BY DEF GroupInv, EInv, ExecutionInv
<1> QED
  BY <1>1, GroupHolds, PTL

(* What CommitCtx::SetResult tells a client is true: an OK of a value that *)
(* is chosen in its instance, a conflict of one that is chosen nowhere.    *)
THEOREM ClientsToldTruth ==
    ASSUME RestartNodes = {}, FaultyStore = {}
    PROVE  Spec /\ RetriesKeepVote /\ SkipsLearnChosen
                => []CommitResultTruthful
<1>1. GroupInv => CommitResultTruthful
  <2> SUFFICES ASSUME GroupInv, NEW r \in results
               PROVE  IF r.ret = "OK" THEN r.value \in ChosenValues(r.inst)
                      ELSE \A i \in Instance : r.value \notin ChosenValues(i)
    BY DEF CommitResultTruthful
  <2>1. ResultTrue(r)
    BY DEF GroupInv, ResultInv
  <2>2. r.inst \in Instance /\ r.value \in Value
    BY DEF GroupInv, EInv, IInv, TypeOK, LearnerTypeOK
  <2>3. ASSUME r.ret # "OK", NEW i \in Instance, r.value \in ChosenValues(i)
        PROVE  FALSE
    <3>1. Occurs(i, r.value)
      BY <2>3, ChosenOccurs
    <3>2. i = r.inst /\ \E w \in ChosenValues(r.inst) : w # r.value
      BY <2>1, <2>3, <3>1 DEF ResultTrue
    <3> QED
      BY <2>3, <3>2, ChosenIsOne DEF GroupInv, EInv
  <2> QED
    BY <2>1, <2>3 DEF ResultTrue
<1> QED
  BY <1>1, GroupHolds, PTL
-----------------------------------------------------------------------------
(* The group implements the replicated log.                                *)

(* A vote is for the instance its acceptor is in after the step.           *)
LEMMA ChosenElsewhere ==
    ASSUME IInv, NEW n \in Node, Step(n), NEW i, i # instanceID'[n]
    PROVE  ChosenValues(i)' = ChosenValues(i)
<1>1. \A vt : vt[2] = i => (vt \in votes' <=> vt \in votes)
  BY StepHistory
<1>2. \A b, v : VotersFor(i, b, v)' = VotersFor(i, b, v)
  <2>1. ASSUME NEW b, NEW v, NEW a
        PROVE  <<a, i, b, v>> \in votes' <=> <<a, i, b, v>> \in votes
    BY <1>1
  <2> QED
    BY <2>1 DEF VotersFor
<1>3. BallotsOf(i)' = BallotsOf(i)
  BY <1>1 DEF BallotsOf
<1> QED
  BY <1>2, <1>3 DEF ChosenValues, IsMajority

(* The instances before that of an acceptor have a value chosen.           *)
LEMMA EarlierChosen ==
    ASSUME GroupInv, NEW n \in Node, Step(n), Executes(n),
           NEW j \in Instance, j < instanceID'[n]
    PROVE  ChosenValues(j) # {}
<1> USE DEF GroupInv, EInv
<1>1. CASE j < instanceID[n]
  <2>1. PICK v : <<n, j, v>> \in decided
    BY <1>1 DEF ExecutionInv, ExecutesInOrder, Executed
  <2> QED
    BY <2>1 DEF ExecutionInv, LearnedIsChosen
<1>2. CASE ~(j < instanceID[n])
  <2>1. instanceID[n] \in Nat /\ j \in Nat
    BY TypeFacts DEF Instance
  <2>2. instanceID'[n] # instanceID[n]
    BY <1>2
  <2> QED
    BY <1>2, <2>1, <2>2, ExecutesOne
<1> QED
  BY <1>1, <1>2

(* What an instance has chosen is one value, that of a client.             *)
ChosenFacts ==
    \A i \in Instance : \A v \in ChosenValues(i) :
        /\ v \in Value /\ v \in proposed
        /\ \A w \in ChosenValues(i) : w = v

LEMMA ChosenFactsHold == GroupInv => ChosenFacts
BY ChosenIsOne, ChosenOccurs
DEF GroupInv, EInv, ValueInv, OccursProposed, ChosenFacts

(* A step chooses at most one value, a client's, in the first instance     *)
(* that has none.                                                          *)
LEMMA ChoosesOne ==
    ASSUME GroupInv, ChosenFacts', NEW n \in Node, Step(n), Executes(n),
           UNCHANGED proposed
    PROVE  \/ \A i \in Instance : ChosenValues(i)' = ChosenValues(i)
           \/ \E i \in Instance, v \in Value :
                /\ v \in proposed /\ ChosenValues(i) = {}
                /\ \A j \in Instance : j < i => ChosenValues(j) # {}
                /\ ChosenValues(i)' = {v}
                /\ \A j \in Instance \ {i} : ChosenValues(j)' = ChosenValues(j)
<1> USE DEF GroupInv, EInv
<1>1. PICK i : i = instanceID'[n]
  OBVIOUS
<1>2. \A j \in Instance \ {i} : ChosenValues(j)' = ChosenValues(j)
  BY <1>1, ChosenElsewhere
<1>3. CASE i \notin Instance \/ ChosenValues(i)' = ChosenValues(i)
  BY <1>2, <1>3
<1>4. CASE i \in Instance /\ ChosenValues(i)' # ChosenValues(i)
  <2>1. ChosenValues(i) \subseteq ChosenValues(i)'
    BY StepHistory, ChosenStays
  <2>2. PICK v : v \in ChosenValues(i)' /\ v \notin ChosenValues(i)
    BY <1>4, <2>1
  <2>3. /\ v \in Value /\ v \in proposed'
        /\ \A u \in ChosenValues(i)' : u = v
    BY <1>4, <2>2 DEF ChosenFacts
  <2>4. ChosenValues(i)' = {v} /\ ChosenValues(i) = {}
    BY <2>1, <2>2, <2>3
  <2>5. \A j \in Instance : j < i => ChosenValues(j) # {}
    BY <1>1, EarlierChosen
  <2> QED
    BY <1>2, <1>4, <2>3, <2>4, <2>5
<1> QED
  BY <1>3, <1>4

(* A step executes the next value of its node, or nothing.                 *)
LEMMA LearnsOne ==
    ASSUME GroupInv, NEW n \in Node, Step(n), Executes(n)
    PROVE  \/ UNCHANGED decided
           \/ \E i \in RL!Instance, v \in Value : RL!Learn(n, i, v)
<1> USE DEF GroupInv, EInv
<1>1. ASSUME NEW v \in Value,
             instanceID[n] \in Instance,
             v \in ChosenValues(instanceID[n]),
             decided' = decided \cup {<<n, instanceID[n], v>>}
      PROVE  \E i \in RL!Instance : RL!Learn(n, i, v)
  <2>1. PICK i \in Instance : i = instanceID[n]
    BY <1>1
  <2>2. \A j \in Instance : Executed(n, j) <=> j < i
    BY <2>1 DEF ExecutionInv, ExecutesInOrder
  <2>3. \A j \in Instance : Executed(n, j) <=> RL!HasLearned(n, j)
    BY DEF Executed, RL!HasLearned, ExecutionInv, LearnedIsChosen,
           ChosenValues, ValueOrNone
  <2>4. ~RL!HasLearned(n, i) /\ \A j \in Instance : j < i => RL!HasLearned(n, j)
    BY <2>2, <2>3 DEF Instance
  <2> QED
    BY <1>1, <2>1, <2>4 DEF RL!Learn, RL!Instance, Instance
<1> QED
  BY <1>1, ExecutesOne
(* Only a client's call changes the values proposed, and it chooses and    *)
(* executes nothing.                                                       *)
LEMMA ProposesOrNot ==
    ASSUME NEW n \in Node, Handles(n)
    PROVE  \/ UNCHANGED proposed
           \/ /\ UNCHANGED <<votes, decided>>
              /\ \E v \in Value : proposed' = proposed \cup {v}
<1>1. CASE \E v \in Value : NewValue(n, v)
  BY <1>1 DEF NewValue, passVars, Prepare
<1>2. \/ \E v \in Value : NewValue(n, v)
      \/ UNCHANGED proposed
  BY DEF Handles, ProposerTimeout, OnPrepareReply, OnAcceptReply,
         OnExpiredReply, CommitTimeout, OnPrepare, OnAccept, SelfAccept,
         OnProposerSendSuccess, SendLearnValue, OnSendLearnValue, historyVars
<1> QED
  BY <1>1, <1>2

LEMMA RefinementInit == Init => RL!Init
<1> SUFFICES ASSUME Init PROVE RL!Init
  OBVIOUS
<1>1. \A i : BallotsOf(i) = {}
  BY DEF Init, BallotsOf
<1>2. \A i : ChosenValues(i) = {}
  BY <1>1 DEF ChosenValues
<1> QED
  BY <1>2 DEF Init, RL!Init, RL!Instance, Instance

LEMMA RefinementStep ==
    ASSUME GroupInv, ChosenFacts', NEW n \in Node, Handles(n), Step(n),
           Executes(n)
    PROVE  RL!Next
<1>1. CASE /\ UNCHANGED <<votes, decided>>
           /\ \E v \in Value : proposed' = proposed \cup {v}
  <2>1. \A i \in Instance : ChosenValues(i)' = ChosenValues(i)
    BY <1>1 DEF ChosenValues, BallotsOf, VotersFor, IsMajority
  <2>2. PICK v \in Value : proposed' = proposed \cup {v}
    BY <1>1
  <2>3. RL!Propose(v)
    BY <1>1, <2>1, <2>2 DEF RL!Propose
  <2> QED
    BY <2>3 DEF RL!Next
<1>2. CASE UNCHANGED proposed
  <2>1. \/ UNCHANGED [i \in Instance |-> ChosenValues(i)]
        \/ \E i \in RL!Instance, v \in Value : RL!Choose(i, v)
    <3>1. CASE \A i \in Instance : ChosenValues(i)' = ChosenValues(i)
      BY <3>1
    <3>2. ASSUME NEW i \in Instance, NEW v \in Value,
                 v \in proposed, ChosenValues(i) = {},
                 \A j \in Instance : j < i => ChosenValues(j) # {},
                 ChosenValues(i)' = {v},
                 \A j \in Instance \ {i} : ChosenValues(j)' = ChosenValues(j)
          PROVE  i \in RL!Instance /\ RL!Choose(i, v)
      BY <3>2 DEF RL!Choose, RL!Instance, Instance
    <3> QED
      BY <1>2, <3>1, <3>2, ChoosesOne
  <2> QED
    BY <1>2, <2>1, LearnsOne DEF RL!Next
<1> QED
  BY <1>1, <1>2, ProposesOrNot

(* The group implements the replicated log of ReplicatedLog: a value a     *)
(* client has committed is chosen in the first instance that has none, and *)
(* every node executes the chosen values one after the other, in every     *)
(* order in which Instance::OnReceive can handle the messages.             *)
THEOREM GroupImplementsLog ==
    ASSUME RestartNodes = {}, FaultyStore = {}
    PROVE  Spec /\ RetriesKeepVote /\ SkipsLearnChosen
                => ImplementsReplicatedLog
<1>1. Init => RL!Init
  BY RefinementInit
<1>2. /\ GroupInv /\ ChosenFacts' /\ [Next]_vars
      /\ [\A n \in Node : SkipLearnsChosen(n)]_vars
      => [RL!Next]_RL!vars
  <2> SUFFICES ASSUME GroupInv, ChosenFacts', [Next]_vars,
                      [\A n \in Node : SkipLearnsChosen(n)]_vars
               PROVE  [RL!Next]_RL!vars
    OBVIOUS
  <2>1. CASE UNCHANGED vars
    <3>1. UNCHANGED <<proposed, votes, decided>>
      BY <2>1 DEF vars, learnVars, historyVars, passVars
    <3>2. \A i \in Instance : ChosenValues(i)' = ChosenValues(i)
      BY <3>1 DEF ChosenValues, BallotsOf, VotersFor, IsMajority
    <3> QED
      BY <3>1, <3>2 DEF RL!vars
  <2>2. CASE Next /\ ~UNCHANGED vars
    <3>1. PICK n \in Node : Handles(n)
      BY <2>2, SomeoneHandles
    <3>2. Step(n) /\ Executes(n)
      BY <2>2, <3>1, NextInv, HandlesStep, HandlesExecutes DEF GroupInv, EInv
    <3> QED
      BY <3>1, <3>2, RefinementStep
  <2> QED
    BY <2>1, <2>2
<1>3. GroupInv => ChosenFacts
  BY ChosenFactsHold
<1> QED
  BY <1>1, <1>2, <1>3, GroupHolds, PTL
  DEF Spec, RL!Spec, ImplementsReplicatedLog, SkipsLearnChosen

(* README.md, line 159: all nodes execute the same values in the same      *)
(* places, under the same conditions.                                      *)
COROLLARY NodesExecuteAlike ==
    ASSUME RestartNodes = {}, FaultyStore = {}
    PROVE  Spec /\ RetriesKeepVote /\ SkipsLearnChosen => []SameOrder
<1>1. GroupInv => SameOrder
  <2> SUFFICES ASSUME GroupInv, NEW d \in decided, NEW e \in decided,
                      d[2] = e[2]
               PROVE  d[3] = e[3]
    BY DEF SameOrder
  <2>1. /\ d[2] \in Instance
        /\ d[3] \in ChosenValues(d[2]) /\ e[3] \in ChosenValues(d[2])
    BY DEF GroupInv, EInv, IInv, TypeOK, LearnerTypeOK, ExecutionInv,
           LearnedIsChosen
  <2> QED
    BY <2>1, ChosenIsOne DEF GroupInv, EInv
<1> QED
  BY <1>1, GroupHolds, PTL

(* What the nodes have given to their state machines (Instance::SMExecute) *)
(* are prefixes of one log: no node has left out an instance, and where    *)
(* two nodes have got to, they have executed the same.  It is what         *)
(* ReplicatedLog promises, of the handlers of the group.                   *)
THEOREM NodesExecutePrefixes ==
    ASSUME RestartNodes = {}, FaultyStore = {}
    PROVE  Spec /\ RetriesKeepVote /\ SkipsLearnChosen
                => [](RL!InOrder /\ RL!Agreement)
<1>1. GroupInv => RL!InOrder
  <2> SUFFICES ASSUME GroupInv, NEW n \in Node,
                      NEW i \in Instance, NEW j \in Instance,
                      RL!HasLearned(n, i), j < i
               PROVE  RL!HasLearned(n, j)
    BY DEF RL!InOrder, RL!Instance, Instance
  <2>1. Executed(n, i)
    BY DEF RL!HasLearned, Executed, ValueOrNone
  <2>2. instanceID[n] \in Nat /\ i \in Nat /\ j \in Nat
    BY BoundAssumption DEF GroupInv, EInv, IInv, TypeOK, LearnerTypeOK, Instance
  <2>3. Executed(n, j)
    BY <2>1, <2>2 DEF GroupInv, EInv, ExecutionInv, ExecutesInOrder
  <2>4. PICK v : <<n, j, v>> \in decided
    BY <2>3 DEF Executed
  <2>5. v \in ChosenValues(j)
    BY <2>4 DEF GroupInv, EInv, ExecutionInv, LearnedIsChosen
  <2> QED
    BY <2>4, <2>5 DEF RL!HasLearned, ChosenValues
<1>2. GroupInv => RL!Agreement
  BY ChosenIsOne DEF GroupInv, EInv, ExecutionInv, LearnedIsChosen,
     RL!Agreement, RL!Instance, Instance
<1> QED
  BY <1>1, <1>2, GroupHolds, PTL

-----------------------------------------------------------------------------
(***************************************************************************)
(* In a group of up to four nodes a message of the next instance is never  *)
(* taken for a success that has not happened.  A proposer whose own        *)
(* acceptor has not accepted its ballot has noticed the reject, and takes  *)
(* a new ballot before it goes on; and the majority that may have chosen   *)
(* another value leaves out both the proposer and the acceptor that learns *)
(* by the message.  With five nodes it can, as the run SkipSuccess shows.  *)
(***************************************************************************)

(* What an acceptor holds it has voted for.                                *)
HeldVoted ==
    \A n \in Node : acceptedBallot[n] # NullBallot =>
        <<n, instanceID[n], acceptedBallot[n], acceptedValue[n]>> \in votes

(* No ballot is used that its proposer has not reached.                    *)
BallotsReached ==
    \A i \in Instance, b \in Ballot, v \in Value :
        Proposed(i, b, v) => b[1] <= proposalID[b[2]]

VotedOwn(i, b) == \E w \in Value : <<b[2], i, b, w>> \in votes

(* n has proposed in its ballot, and its own acceptor has not accepted it. *)
Missed(n) ==
    \E i \in Instance, v \in Value :
        /\ Proposed(i, Own(n), v) /\ ~VotedOwn(i, Own(n))
        /\ ~(i = instanceID[n] /\ phase[n] = "selfAccept")

MissesNoticed ==
    \A n \in Node :
        Missed(n) => wasReject[n] /\ phase[n] \in {"idle", "accepting"}

(* The proposer of a prepare or accept has accepted what it has proposed   *)
(* in the same ballot in earlier instances.                                *)
OwnVotes(m) ==
    m.type \in {"prepare", "accept"} =>
        /\ m.inst <= instanceID[m.bal[2]]
        /\ \A i \in Instance, v \in Value :
                i < m.inst /\ Proposed(i, m.bal, v) => VotedOwn(i, m.bal)

SendersVoted == \A m \in msgs : OwnVotes(m)

SkipInv == HeldVoted /\ BallotsReached /\ MissesNoticed /\ SendersVoted

-----------------------------------------------------------------------------
(* A step of n, by what it does to the round of its proposer.              *)

HoldsVote(n) ==
    \/ acceptedBallot'[n] = NullBallot
    \/ /\ instanceID'[n] = instanceID[n]
       /\ acceptedBallot'[n] = acceptedBallot[n]
       /\ acceptedValue'[n] = acceptedValue[n]
    \/ <<n, instanceID'[n], acceptedBallot'[n], acceptedValue'[n]>> \in votes'

Asks(m) == m.type \in {"prepare", "accept"}
AsksNothing == \A m \in msgs' \ msgs : ~Asks(m)
AsksOwn(n) ==
    \A m \in msgs' \ msgs : Asks(m) =>
        m.inst = instanceID[n] /\ m.bal = Own(n)'

StaysInRound(n) ==
    /\ proposalID'[n] = proposalID[n] /\ ~Opens(n) /\ AsksNothing
    /\ wasReject[n] => wasReject'[n]
    /\ phase'[n] = "idle" \/ phase'[n] = phase[n]
    /\ phase[n] = "selfAccept" =>
            phase'[n] = phase[n] /\ instanceID'[n] = instanceID[n]

OpensRound(n) ==
    /\ SameRound(n) /\ Opens(n)
    /\ ~wasReject[n] \/ phase[n] = "preparing"

AcceptsItself(n) ==
    /\ SameRound(n) /\ AsksNothing
    /\ phase[n] = "selfAccept" /\ phase'[n] = "accepting"
    /\ wasReject'[n] \/ <<n, instanceID[n], Own(n), value[n]>> \in votes'

PreparesRound(n) ==
    /\ instanceID'[n] = instanceID[n]
    /\ phase[n] # "selfAccept" /\ phase'[n] = "preparing"
    /\ \/ proposalID'[n] > proposalID[n]
       \/ proposalID'[n] = proposalID[n] /\ ~wasReject[n]

Rounds(n) ==
    /\ \A x \in Node \ {n} : wasReject'[x] = wasReject[x]
    /\ HoldsVote(n) /\ AsksOwn(n)
    /\ \/ StaysInRound(n) \/ OpensRound(n)
       \/ AcceptsItself(n) \/ PreparesRound(n)

LEMMA PrepareRounds ==
    ASSUME IInv, NEW n \in Node, NEW w, Prepare(n, wasReject[n], w),
           UNCHANGED instanceID, phase[n] # "selfAccept"
    PROVE  Rounds(n)
<1> USE DEF IInv, TypeOK, ProposerTypeOK
<1>1. PICK id, b :
        /\ id = NextProposalID(n, wasReject[n]) /\ b = <<id, n>>
        /\ proposalID' = [proposalID EXCEPT ![n] = id]
        /\ phase' = [phase EXCEPT ![n] = "preparing"]
        /\ SelfPromise(n, b, w) \/ SelfReject(n, b, w)
           \/ SelfPromiseNotPersisted(n, b, w)
        /\ UNCHANGED <<acceptedBallot, acceptedValue>>
  BY DEF Prepare
<1>2. id > proposalID[n] \/ (id = proposalID[n] /\ ~wasReject[n])
  BY <1>1 DEF NextProposalID, Larger
<1>3. PreparesRound(n)
  BY <1>1, <1>2 DEF PreparesRound
<1>4. \A m \in msgs' \ msgs : m.inst = instanceID[n] /\ m.bal = b
  BY <1>1 DEF SelfPromise, SelfReject, SelfPromiseNotPersisted, Send, Prepares
<1>5. Own(n)' = b
  BY <1>1 DEF Own
<1>6. \A x \in Node \ {n} : wasReject'[x] = wasReject[x]
  BY <1>1 DEF SelfPromise, SelfReject, SelfPromiseNotPersisted
<1>7. HoldsVote(n)
  BY <1>1 DEF HoldsVote
<1> QED
  BY <1>3, <1>4, <1>5, <1>6, <1>7 DEF Rounds, AsksOwn

LEMMA NewValueRounds ==
    ASSUME IInv, NEW n \in Node, NEW v \in Value, NewValue(n, v)
    PROVE  Rounds(n)
<1>1. PICK w : /\ UNCHANGED instanceID /\ phase[n] # "selfAccept"
               /\ \/ /\ ~wasReject[n] /\ Accept(n, w) /\ Send(MyAccepts(n, w))
                     /\ UNCHANGED <<acceptorVars, proposalID, wasReject>>
                  \/ Prepare(n, wasReject[n], w)
  BY DEF NewValue, Free
<1>2. CASE /\ ~wasReject[n] /\ Accept(n, w) /\ Send(MyAccepts(n, w))
           /\ UNCHANGED <<acceptorVars, proposalID, wasReject>>
  <2>1. OpensRound(n)
    BY <1>1, <1>2
    DEF OpensRound, Opens, SameRound, Accept, IInv, TypeOK, ProposerTypeOK
  <2>2. AsksOwn(n)
    BY <1>2 DEF AsksOwn, Send, MyAccepts, Accepts, Own
  <2>3. HoldsVote(n)
    BY <1>1, <1>2 DEF HoldsVote, acceptorVars
  <2> QED
    BY <1>2, <2>1, <2>2, <2>3 DEF Rounds
<1> QED
  BY <1>1, <1>2, PrepareRounds

LEMMA ProposerTimeoutRounds ==
    ASSUME IInv, NEW n \in Node, ProposerTimeout(n)
    PROVE  Rounds(n)
BY PrepareRounds DEF ProposerTimeout, learnVars

(* The end of an instance leaves the round of the proposer.                *)
LEMMA ExecuteStays ==
    ASSUME IInv, NEW n \in Node, NEW v, ProposerNewInstance(n),
           phase[n] # "selfAccept", UNCHANGED <<proposalID, wasReject>>,
           AsksNothing
    PROVE  StaysInRound(n)
BY DEF StaysInRound, Opens, ProposerNewInstance, IInv, TypeOK, ProposerTypeOK

LEMMA OnPrepareReplyRounds ==
    ASSUME IInv, NEW n \in Node, OnPrepareReply(n)
    PROVE  Rounds(n)
<1> USE DEF IInv, TypeOK, ProposerTypeOK
<1>1. PICK m : /\ phase[n] = "preparing"
               /\ UNCHANGED <<learnVars, acceptorVars, proposalID>>
               /\ \/ /\ Receive(m, {}) /\ UNCHANGED phase
                     /\ UNCHANGED wasReject \/ NoteReject(n, m)
                  \/ /\ UNCHANGED wasReject
                     /\ \E w : Accept(n, w) /\ Receive(m, MyAccepts(n, w))
  BY DEF OnPrepareReply
<1>2. HoldsVote(n) /\ SameRound(n)
  BY <1>1 DEF HoldsVote, SameRound, acceptorVars, learnVars
<1>3. CASE /\ Receive(m, {}) /\ UNCHANGED phase
           /\ UNCHANGED wasReject \/ NoteReject(n, m)
  <2>1. AsksNothing /\ AsksOwn(n)
    BY <1>3 DEF AsksNothing, AsksOwn, Receive
  <2>2. /\ \A x \in Node \ {n} : wasReject'[x] = wasReject[x]
        /\ wasReject[n] => wasReject'[n]
    BY <1>3 DEF NoteReject
  <2>3. StaysInRound(n)
    BY <1>1, <1>2, <1>3, <2>1, <2>2 DEF StaysInRound, Opens, SameRound
  <2> QED
    BY <1>2, <2>1, <2>2, <2>3 DEF Rounds
<1>4. CASE /\ UNCHANGED wasReject
           /\ \E w : Accept(n, w) /\ Receive(m, MyAccepts(n, w))
  <2>1. OpensRound(n)
    BY <1>1, <1>2, <1>4 DEF OpensRound, Opens, Accept
  <2>2. AsksOwn(n)
    BY <1>1, <1>4 DEF AsksOwn, Receive, MyAccepts, Accepts, Own
  <2> QED
    BY <1>2, <1>4, <2>1, <2>2 DEF Rounds
<1> QED
  BY <1>1, <1>3, <1>4

LEMMA OnAcceptReplyRounds ==
    ASSUME IInv, NEW n \in Node, OnAcceptReply(n)
    PROVE  Rounds(n)
<1> USE DEF IInv, TypeOK, ProposerTypeOK, AcceptorTypeOK
<1>1. PICK m, i, b :
        /\ phase[n] = "accepting" /\ UNCHANGED proposalID
        /\ UNCHANGED wasReject \/ NoteReject(n, m)
        /\ Receive(m, {}) \/ Receive(m, Successes(n, i, b))
        /\ \/ SetAcceptor(n, promiseBallot[n], NullBallot, None)
           \/ UNCHANGED <<instanceID, acceptedBallot, acceptedValue>>
        /\ phase' = phase \/ phase' = [phase EXCEPT ![n] = "idle"]
  BY DEF OnAcceptReply, learnVars, acceptorVars, ProposerNewInstance
<1>2. AsksNothing /\ AsksOwn(n)
  BY <1>1 DEF AsksNothing, AsksOwn, Asks, Receive, Successes
<1>3. HoldsVote(n)
  BY <1>1 DEF HoldsVote, SetAcceptor
<1>4. /\ \A x \in Node \ {n} : wasReject'[x] = wasReject[x]
      /\ wasReject[n] => wasReject'[n]
  BY <1>1 DEF NoteReject
<1>5. StaysInRound(n)
  BY <1>1, <1>2, <1>4 DEF StaysInRound, Opens
<1> QED
  BY <1>2, <1>3, <1>4, <1>5 DEF Rounds

LEMMA QuietRounds ==
    ASSUME IInv, NEW n \in Node,
           \/ OnExpiredReply(n) \/ CommitTimeout(n)
           \/ \E to \in Node, i \in Instance : SendLearnValue(n, to, i)
           \/ OnProposerSendSuccess(n) \/ OnSendLearnValue(n)
    PROVE  Rounds(n)
<1> USE DEF IInv, TypeOK, ProposerTypeOK, AcceptorTypeOK
<1>1. PICK m :
        /\ phase[n] # "selfAccept" \/ UNCHANGED <<phase, instanceID>>
        /\ UNCHANGED proposalID
        /\ UNCHANGED wasReject \/ NoteReject(n, m)
        /\ \A x \in msgs' \ msgs : x.type = "learn"
        /\ \/ SetAcceptor(n, promiseBallot[n], NullBallot, None)
           \/ UNCHANGED <<instanceID, acceptedBallot, acceptedValue>>
        /\ phase' = phase \/ phase' = [phase EXCEPT ![n] = "idle"]
  <2>1. CASE OnExpiredReply(n)
    BY <2>1 DEF OnExpiredReply, Receive, Free, learnVars, acceptorVars
  <2>2. CASE CommitTimeout(n)
    BY <2>2 DEF CommitTimeout, Free, acceptorVars
  <2>3. CASE \E to \in Node, i \in Instance : SendLearnValue(n, to, i)
    BY <2>3 DEF SendLearnValue, Send, learnVars, acceptorVars, proposerVars
  <2>4. CASE OnProposerSendSuccess(n) \/ OnSendLearnValue(n)
    BY <2>4 DEF OnProposerSendSuccess, OnSendLearnValue, Receive, Free,
                ProposerNewInstance
  <2> QED
    BY <2>1, <2>2, <2>3, <2>4
<1>2. AsksNothing /\ AsksOwn(n)
  BY <1>1 DEF AsksNothing, AsksOwn, Asks
<1>3. HoldsVote(n)
  BY <1>1 DEF HoldsVote, SetAcceptor
<1>4. /\ \A x \in Node \ {n} : wasReject'[x] = wasReject[x]
      /\ wasReject[n] => wasReject'[n]
  BY <1>1 DEF NoteReject
<1>5. StaysInRound(n)
  BY <1>1, <1>2, <1>4 DEF StaysInRound, Opens
<1> QED
  BY <1>2, <1>3, <1>4, <1>5 DEF Rounds

(* Handling a prepare or an accept does not concern the round either, but  *)
(* that it may end the instance.                                           *)
LEMMA AcceptorRounds ==
    ASSUME IInv, FaultyStore = {}, NEW n \in Node, OnPrepare(n) \/ OnAccept(n)
    PROVE  Rounds(n)
<1> USE DEF IInv, TypeOK, ProposerTypeOK, AcceptorTypeOK, LearnerTypeOK
<1>1. PICK m, acc, p :
        /\ acc = AcceptedIn(n, m)
        /\ phase[n] # "selfAccept"
        /\ EnterInstanceOf(n, m)
        /\ UNCHANGED <<proposalID, preAcceptBallot, canSkipPrepare, wasReject>>
        /\ \A x \in msgs' \ msgs : x.type \in {"prepareReply", "acceptReply"}
        /\ \/ SetAcceptor(n, p, acc.bal, acc.value)
           \/ AcceptPasses(n, m.inst, m.bal, m.value)
  <2>1. CASE OnPrepare(n)
    <3>1. PICK m :
            /\ phase[n] # "selfAccept" /\ EnterInstanceOf(n, m)
            /\ UNCHANGED <<proposalID, preAcceptBallot, canSkipPrepare,
                           wasReject>>
            /\ \A x \in msgs' \ msgs : x.type = "prepareReply"
            /\ \/ SetAcceptor(n, m.bal, AcceptedIn(n, m).bal,
                              AcceptedIn(n, m).value)
               \/ SetAcceptor(n, promiseBallot[n], AcceptedIn(n, m).bal,
                              AcceptedIn(n, m).value)
      BY <2>1 DEF OnPrepare, Receive, Free
    <3> QED
      BY <3>1
  <2>2. CASE OnAccept(n)
    <3>1. PICK m :
            /\ phase[n] # "selfAccept" /\ EnterInstanceOf(n, m)
            /\ UNCHANGED <<proposalID, preAcceptBallot, canSkipPrepare,
                           wasReject>>
            /\ \A x \in msgs' \ msgs : x.type = "acceptReply"
            /\ \/ SetAcceptor(n, promiseBallot[n], AcceptedIn(n, m).bal,
                              AcceptedIn(n, m).value)
               \/ AcceptPasses(n, m.inst, m.bal, m.value)
      BY <2>2 DEF OnAccept, Receive, Free, AcceptNotPersisted, WriteFails
    <3> QED
      BY <3>1
  <2> QED
    BY <2>1, <2>2
<1>2. instanceID'[n] = m.inst /\ phase'[n] \in {phase[n], "idle"}
  BY <1>1, EnterInstanceStep
<1>3. AsksNothing /\ AsksOwn(n)
  BY <1>1 DEF AsksNothing, AsksOwn, Asks
<1>4. HoldsVote(n)
  <2>1. CASE SetAcceptor(n, p, acc.bal, acc.value)
    BY <1>1, <1>2, <2>1 DEF HoldsVote, SetAcceptor, AcceptedIn
  <2>2. CASE AcceptPasses(n, m.inst, m.bal, m.value)
    BY <1>2, <2>2 DEF HoldsVote, AcceptPasses, SetAcceptor
  <2> QED
    BY <1>1, <2>1, <2>2
<1>5. StaysInRound(n)
  BY <1>1, <1>2, <1>3 DEF StaysInRound, Opens
<1> QED
  BY <1>1, <1>3, <1>4, <1>5 DEF Rounds

LEMMA SelfAcceptRounds ==
    ASSUME IInv, FaultyStore = {}, NEW n \in Node, SelfAccept(n)
    PROVE  Rounds(n)
<1> USE DEF IInv, TypeOK, ProposerTypeOK, AcceptorTypeOK
<1>1. PICK m :
        /\ phase[n] = "selfAccept" /\ phase' = [phase EXCEPT ![n] = "accepting"]
        /\ UNCHANGED <<instanceID, proposalID, msgs>>
        /\ \/ /\ AcceptPasses(n, instanceID[n], Own(n), value[n])
              /\ UNCHANGED wasReject
           \/ NoteReject(n, m) /\ UNCHANGED acceptorVars
  BY DEF SelfAccept, Own, AcceptNotPersisted, WriteFails, learnVars
<1>2. HoldsVote(n)
  BY <1>1 DEF HoldsVote, AcceptPasses, SetAcceptor, acceptorVars
<1>3. AsksNothing /\ AsksOwn(n)
  BY <1>1 DEF AsksNothing, AsksOwn
<1>4. wasReject'[n] \/ <<n, instanceID[n], Own(n), value[n]>> \in votes'
  BY <1>1 DEF NoteReject, AcceptPasses
<1>5. \A x \in Node \ {n} : wasReject'[x] = wasReject[x]
  BY <1>1 DEF NoteReject
<1>6. AcceptsItself(n)
  BY <1>1, <1>3, <1>4 DEF AcceptsItself, SameRound
<1> QED
  BY <1>2, <1>3, <1>5, <1>6 DEF Rounds

LEMMA HandlesRounds ==
    ASSUME IInv, FaultyStore = {}, NEW n \in Node, Handles(n)
    PROVE  Rounds(n)
BY NewValueRounds, ProposerTimeoutRounds, OnPrepareReplyRounds,
   OnAcceptReplyRounds, QuietRounds, AcceptorRounds, SelfAcceptRounds
DEF Handles
-----------------------------------------------------------------------------
(* The invariant, from the steps.                                          *)

LEMMA SkipInit == Init => SkipInv
<1> SUFFICES ASSUME Init PROVE SkipInv
  OBVIOUS
<1>1. HeldVoted /\ SendersVoted
  BY DEF Init, HeldVoted, SendersVoted
<1>2. \A i, b : \A v \in Value : ~Proposed(i, b, v)
  BY ValueAssumption
  DEF Init, Proposed, Voted, Asked, Held, Reported, Adopted, Opened
<1>3. BallotsReached /\ MissesNoticed
  BY <1>2 DEF BallotsReached, MissesNoticed, Missed
<1> QED
  BY <1>1, <1>3 DEF SkipInv

LEMMA HeldVotedStep ==
    ASSUME IInv, HeldVoted, NEW n \in Node, Step(n), Rounds(n)
    PROVE  HeldVoted'
BY StepHistory DEF HeldVoted, Step, Untouched, Rounds, HoldsVote

LEMMA BallotsReachedStep ==
    ASSUME IInv, IInv', AInv, BallotsReached, NEW n \in Node, Step(n)
    PROVE  BallotsReached'
<1> SUFFICES ASSUME NEW i \in Instance, NEW b \in Ballot, NEW v \in Value,
                    Proposed(i, b, v)'
             PROVE  b[1] <= proposalID'[b[2]]
  BY DEF BallotsReached
<1>1. /\ b[2] \in Node /\ b[1] \in Nat
      /\ \A x \in Node : proposalID[x] \in Nat /\ proposalID'[x] \in Nat
  BY DEF Ballot, IInv, TypeOK, ProposerTypeOK
<1>2. b[1] <= proposalID[b[2]]
  <2>1. CASE Proposed(i, b, v)
    BY <2>1 DEF BallotsReached
  <2>2. CASE b = Own(n)
    BY <1>1, <2>2 DEF Own
  <2> QED
    BY <2>1, <2>2, ProposedStep DEF AInv
<1>3. proposalID'[b[2]] >= proposalID[b[2]]
  <2>1. CASE b[2] = n
    BY <2>1, ProposalIDGrows
  <2>2. CASE b[2] # n
    BY <1>1, <2>2 DEF Step, Untouched
  <2> QED
    BY <2>1, <2>2
<1> QED
  BY <1>1, <1>2, <1>3

(* A ballot above the one its proposer has reached is unused.              *)
LEMMA NewBallotUnused ==
    ASSUME IInv, IInv', AInv, BallotsReached, NEW n \in Node, Step(n),
           ~Opens(n), proposalID'[n] > proposalID[n],
           NEW b, b = Own(n)', NEW i \in Instance, NEW v \in Value
    PROVE  ~Proposed(i, b, v)'
<1>1. /\ b \in Ballot /\ b[1] = proposalID'[n] /\ b[2] = n
      /\ proposalID[n] \in Nat /\ proposalID'[n] \in Nat
  BY DEF Own, Ballot, IInv, TypeOK, ProposerTypeOK
<1>2. ~Proposed(i, b, v)
  BY <1>1 DEF BallotsReached
<1> QED
  BY <1>1, <1>2, ProposedStep DEF AInv

LEMMA VotedStays ==
    ASSUME votes \subseteq votes', NEW i, NEW b, VotedOwn(i, b)
    PROVE  VotedOwn(i, b)'
BY DEF VotedOwn

LEMMA MissesNoticedStep ==
    ASSUME IInv, IInv', AInv, SkipInv, NEW n \in Node, Step(n), Rounds(n)
    PROVE  MissesNoticed'
<1> SUFFICES ASSUME NEW x \in Node, NEW b, b = Own(x)',
                    NEW i \in Instance, NEW v \in Value,
                    Proposed(i, b, v)', ~VotedOwn(i, b)',
                    ~(i = instanceID'[x] /\ phase'[x] = "selfAccept")
             PROVE  wasReject'[x] /\ phase'[x] \in {"idle", "accepting"}
  BY DEF MissesNoticed, Missed
<1>1. votes \subseteq votes'
  BY StepHistory
<1>2. /\ b \in Ballot /\ b = <<proposalID'[x], x>> /\ ~VotedOwn(i, b)
      /\ value[n] \in ValueOrNone
  BY <1>1, TypeFacts, VotedStays DEF Own, Ballot, IInv, TypeOK, ProposerTypeOK
<1>3. \/ Proposed(i, b, v)
      \/ Opens(n) /\ i = instanceID[n] /\ b = Own(n)
  BY <1>2, ProposedStep DEF AInv
<1>4. CASE x # n
  <2>1. /\ Own(x) = b /\ instanceID'[x] = instanceID[x]
        /\ phase'[x] = phase[x] /\ wasReject'[x] = wasReject[x]
    BY <1>2, <1>4 DEF Own, Step, Untouched, Rounds
  <2>2. Proposed(i, b, v)
    BY <1>2, <1>3, <1>4 DEF Own
  <2> QED
    BY <1>2, <2>1, <2>2 DEF SkipInv, MissesNoticed, Missed
<1>5. CASE x = n /\ StaysInRound(n)
  <2>1. b = Own(n) /\ Proposed(i, b, v)
    BY <1>2, <1>3, <1>5 DEF StaysInRound, Own
  <2>2. ~(i = instanceID[n] /\ phase[n] = "selfAccept")
    BY <1>5 DEF StaysInRound
  <2>3. wasReject[n] /\ phase[n] \in {"idle", "accepting"}
    BY <1>2, <2>1, <2>2 DEF SkipInv, MissesNoticed, Missed
  <2> QED
    BY <1>5, <2>3 DEF StaysInRound
<1>6. CASE x = n /\ OpensRound(n)
  <2>1. b = Own(n) /\ i # instanceID[n] /\ phase[n] # "selfAccept"
    BY <1>2, <1>6 DEF OpensRound, SameRound, Opens, Own
  <2>2. Missed(n)
    BY <1>2, <1>3, <2>1 DEF Missed
  <2> QED
    BY <1>6, <2>2 DEF OpensRound, SkipInv, MissesNoticed
<1>7. CASE x = n /\ AcceptsItself(n)
  <2>1. b = Own(n) /\ Proposed(i, b, v)
    BY <1>2, <1>3, <1>7 DEF AcceptsItself, SameRound, Own, Opens
  <2>2. i = instanceID[n]
    <3>1. ~Missed(n)
      BY <1>7 DEF AcceptsItself, SkipInv, MissesNoticed
    <3> QED
      BY <1>2, <2>1, <3>1 DEF Missed
  <2>3. value[n] # None
    BY <1>7 DEF AcceptsItself, IInv, HandlerInv, ProposerReady
  <2>4. <<n, i, b, value[n]>> \notin votes'
    BY <1>2, <2>1, <2>3 DEF VotedOwn, Own, ValueOrNone
  <2> QED
    BY <1>7, <2>1, <2>2, <2>4 DEF AcceptsItself
<1>8. CASE x = n /\ PreparesRound(n)
  <2>1. phase'[n] = "preparing" /\ ~Opens(n)
    BY <1>8 DEF PreparesRound, Opens
  <2>2. proposalID'[n] = proposalID[n] /\ ~wasReject[n]
    BY <1>8, <2>1, NewBallotUnused DEF PreparesRound, SkipInv
  <2>3. Missed(n)
    BY <1>2, <1>3, <1>8, <2>1, <2>2 DEF Missed, Own, PreparesRound
  <2> QED
    BY <2>2, <2>3 DEF SkipInv, MissesNoticed
<1> QED
  BY <1>4, <1>5, <1>6, <1>7, <1>8 DEF Rounds

LEMMA SendersVotedStep ==
    ASSUME IInv, IInv', AInv, SkipInv, NEW n \in Node, Step(n), Rounds(n)
    PROVE  SendersVoted'
<1>1. votes \subseteq votes'
  BY StepHistory
<1>2. \A x \in Node : /\ instanceID[x] \in Nat /\ instanceID'[x] \in Nat
                      /\ instanceID'[x] >= instanceID[x]
  BY StepHistory, BoundAssumption
  DEF IInv, TypeOK, LearnerTypeOK, Step, Untouched
<1> SUFFICES ASSUME NEW m \in msgs', Asks(m)
             PROVE  /\ m.inst <= instanceID'[m.bal[2]]
                    /\ \A i \in Instance, v \in Value :
                        i < m.inst /\ Proposed(i, m.bal, v)'
                            => VotedOwn(i, m.bal)'
  BY DEF SendersVoted, OwnVotes, Asks
<1>3. m.bal \in Ballot /\ m.bal[2] \in Node /\ m.inst \in Nat
  BY MessageFields DEF IInv, TypeOK, Asks, Ballot, Instance
<1>4. CASE m \in msgs
  <2>1. /\ m.inst <= instanceID[m.bal[2]]
        /\ \A i \in Instance, v \in Value :
                i < m.inst /\ Proposed(i, m.bal, v) => VotedOwn(i, m.bal)
    BY <1>4 DEF SkipInv, SendersVoted, OwnVotes, Asks
  <2>2. ASSUME NEW i \in Instance, NEW v \in Value,
               i < m.inst, Proposed(i, m.bal, v)'
        PROVE  VotedOwn(i, m.bal)'
    <3>1. ~(i = instanceID[n] /\ m.bal = Own(n))
      BY <1>2, <1>3, <2>1, <2>2 DEF Own
    <3>2. Proposed(i, m.bal, v)
      BY <1>3, <2>2, <3>1, ProposedStep DEF AInv
    <3> QED
      BY <1>1, <2>1, <2>2, <3>2, VotedStays
  <2> QED
    BY <1>2, <1>3, <2>1, <2>2
<1>5. CASE m \notin msgs
  <2>1. m.inst = instanceID[n] /\ m.bal = Own(n)'
    BY <1>5 DEF Rounds, AsksOwn
  <2>2. m.bal[2] = n
    BY <2>1 DEF Own
  <2>3. ASSUME NEW i \in Instance, NEW v \in Value,
               i < m.inst, Proposed(i, m.bal, v)'
        PROVE  VotedOwn(i, m.bal)'
    <3>1. ~Missed(n) /\ m.bal = Own(n) /\ phase[n] # "selfAccept"
      <4>1. CASE OpensRound(n)
        BY <2>1, <4>1
        DEF OpensRound, SameRound, Own, Opens, SkipInv, MissesNoticed
      <4>2. CASE PreparesRound(n)
        <5>1. ~Opens(n)
          BY <4>2 DEF PreparesRound, Opens
        <5>2. proposalID'[n] = proposalID[n] /\ ~wasReject[n]
          BY <2>1, <2>3, <4>2, <5>1, NewBallotUnused DEF PreparesRound, SkipInv
        <5> QED
          BY <2>1, <4>2, <5>2 DEF PreparesRound, Own, SkipInv, MissesNoticed
      <4> QED
        BY <1>5, <4>1, <4>2
        DEF Rounds, StaysInRound, AcceptsItself, AsksNothing
    <3>2. i # instanceID[n]
      BY <1>2, <1>3, <2>1, <2>3
    <3>3. Proposed(i, m.bal, v)
      BY <1>3, <2>3, <3>2, ProposedStep DEF AInv
    <3> QED
      BY <1>1, <3>1, <3>2, <3>3, VotedStays DEF Missed
  <2> QED
    BY <1>2, <2>1, <2>2, <2>3
<1> QED
  BY <1>4, <1>5

LEMMA SkipStutter ==
    ASSUME SkipInv, UNCHANGED vars
    PROVE  SkipInv'
<1> USE DEF vars, learnVars, acceptorVars, proposerVars, historyVars, passVars
<1>1. ASSUME NEW i, NEW b, NEW v PROVE Proposed(i, b, v)' <=> Proposed(i, b, v)
  BY DEF Proposed, Voted, Asked, Held, Reported, Adopted, Opened, Own
<1>2. ASSUME NEW i, NEW b PROVE VotedOwn(i, b)' <=> VotedOwn(i, b)
  BY DEF VotedOwn
<1>3. HeldVoted' /\ BallotsReached'
  BY <1>1 DEF SkipInv, HeldVoted, BallotsReached
<1>4. SendersVoted'
  BY <1>1, <1>2 DEF SkipInv, SendersVoted, OwnVotes
<1>5. MissesNoticed'
  <2> SUFFICES ASSUME NEW n \in Node, NEW b, b = Own(n), NEW i \in Instance,
                      NEW v \in Value, Proposed(i, b, v)', ~VotedOwn(i, b)',
                      ~(i = instanceID[n] /\ phase[n] = "selfAccept")
               PROVE  wasReject[n] /\ phase[n] \in {"idle", "accepting"}
    BY DEF MissesNoticed, Missed, Own
  <2> QED
    BY <1>1, <1>2 DEF SkipInv, MissesNoticed, Missed
<1> QED
  BY <1>3, <1>4, <1>5 DEF SkipInv
-----------------------------------------------------------------------------
(* A majority of at most four nodes leaves out one node only.              *)
LEMMA MajorityMissesOne ==
    ASSUME Cardinality(Node) <= 4, NEW Q \in SUBSET Node, IsMajority(Q),
           NEW p \in Node \ Q, NEW n \in Node \ Q
    PROVE  p = n
<1> SUFFICES ASSUME p # n PROVE FALSE
  OBVIOUS
<1>1. IsFiniteSet(Node) /\ IsFiniteSet(Q)
  BY NodeAssumption, FS_Subset
<1>2. /\ IsFiniteSet(Q \cup {p})
      /\ Cardinality(Q \cup {p}) = Cardinality(Q) + 1
  BY <1>1, FS_AddElement
<1>3. /\ IsFiniteSet((Q \cup {p}) \cup {n})
      /\ Cardinality((Q \cup {p}) \cup {n}) = Cardinality(Q) + 2
  <2>1. n \notin Q \cup {p}
    OBVIOUS
  <2>2. Cardinality((Q \cup {p}) \cup {n}) = Cardinality(Q \cup {p}) + 1
    BY <1>2, <2>1, FS_AddElement
  <2>3. IsFiniteSet((Q \cup {p}) \cup {n})
    BY <1>2, FS_AddElement
  <2>4. Cardinality(Q) \in Nat
    BY <1>1, FS_CardinalityType
  <2> QED
    BY <1>1, <1>2, <2>2, <2>3, <2>4
<1>4. (Q \cup {p}) \cup {n} \in SUBSET Node
  OBVIOUS
<1>5. Cardinality((Q \cup {p}) \cup {n}) <= Cardinality(Node)
  BY <1>1, <1>4, FS_Subset
<1>6. Cardinality(Q) \in Nat /\ Cardinality(Node) \in Nat
  BY <1>1, FS_CardinalityType
<1>7. 2 * Cardinality(Q) > Cardinality(Node)
  BY DEF IsMajority
<1> QED
  BY <1>3, <1>5, <1>6, <1>7

(* The value an acceptor learns when a prepare or accept of the next       *)
(* instance reaches it (Instance::ReceiveMsgForAcceptor) is chosen: its    *)
(* sender accepted it too, and no majority leaves out both of them.        *)
LEMMA SkipsAreChosen ==
    ASSUME EInv, SkipInv, Cardinality(Node) <= 4, NEW n \in Node,
           NEW m \in Inbox(n, {"prepare", "accept"}), SkipsSuccess(n, m)
    PROVE  acceptedValue[n] \in ChosenValues(instanceID[n])
<1> DEFINE i == instanceID[n]
           b == m.bal
           v == acceptedValue[n]
           p == b[2]
<1> USE DEF EInv
<1>1. /\ m \in msgs /\ m.type \in {"prepare", "accept"} /\ m \in Message
      /\ m.inst = i + 1 /\ acceptedBallot[n] = b /\ b # NullBallot
  BY DEF Inbox, SkipsSuccess, LearnsFromSuccess, IInv, TypeOK, HandlerInv
<1>2. /\ b \in Ballot /\ v \in Value /\ p \in Node
  BY <1>1 DEF IInv, TypeOK, HandlerInv, AcceptorTypeOK, AcceptorOrdered,
              BallotOrNull, ValueOrNone, Ballot
<1>3. i \in Instance
  <2>1. m.inst \in Instance /\ i \in Nat
    BY <1>1, TypeFacts, MessageFields
  <2> QED
    BY <1>1, <2>1, BoundAssumption DEF Instance
<1>4. Proposed(i, b, v) /\ <<n, i, b, v>> \in votes
  BY <1>1, <1>2 DEF SkipInv, HeldVoted, Proposed, Voted
<1>5. i + 1 <= instanceID[p] /\ VotedOwn(i, b)
  <2>1. OwnVotes(m)
    BY <1>1 DEF SkipInv, SendersVoted
  <2>2. i < m.inst
    BY <1>1, <1>3, BoundAssumption DEF Instance
  <2> QED
    BY <1>1, <1>2, <1>3, <1>4, <2>1, <2>2 DEF OwnVotes
<1>6. PICK w \in Value : <<p, i, b, w>> \in votes
  BY <1>5 DEF VotedOwn
<1>7. w = v
  BY <1>2, <1>3, <1>4, <1>6
  DEF Proposed, Voted, AInv, ProposalInv, OneProposal
<1>8. p # n
  BY <1>3, <1>5, BoundAssumption DEF Instance
<1>9. PICK u \in Value : u \in ChosenValues(i)
  <2>1. i < instanceID[p]
    BY <1>2, <1>3, <1>5, TypeFacts, BoundAssumption DEF Instance
  <2>2. Executed(p, i)
    BY <1>2, <1>3, <2>1 DEF ExecutionInv, ExecutesInOrder
  <2>3. PICK x : <<p, i, x>> \in decided
    BY <2>2 DEF Executed
  <2>4. x \in ChosenValues(i)
    BY <2>3 DEF ExecutionInv, LearnedIsChosen
  <2> QED
    BY <2>4 DEF ChosenValues
<1>10. PICK c \in Ballot : IsMajority(VotersFor(i, c, u))
  BY <1>9, TypeFacts DEF ChosenValues, BallotsOf
<1>11. PICK a \in Node : a \in VotersFor(i, c, u)
  BY <1>10, MajoritiesMeet DEF VotersFor
<1>12. Proposed(i, c, u)
  BY <1>11 DEF VotersFor, Proposed, Voted
<1>13. CASE b = c
  BY <1>2, <1>3, <1>4, <1>9, <1>12, <1>13
  DEF AInv, ProposalInv, OneProposal
<1>14. CASE Below(c, b)
  <2>1. PICK Q \in SUBSET Node :
          /\ IsMajority(Q)
          /\ \A y \in Q : <<y, i, c, v>> \in votes \/ WontVote(y, i, c)
    BY <1>2, <1>3, <1>4, <1>14 DEF AInv, ProposalInv, ProposalsSafe, SafeAt
  <2>2. VotersFor(i, c, u) \in SUBSET Node
    BY DEF VotersFor
  <2>3. PICK y \in Node : y \in Q /\ y \in VotersFor(i, c, u)
    BY <1>10, <2>1, <2>2, MajoritiesMeet
  <2>4. <<y, i, c, u>> \in votes /\ ~WontVote(y, i, c)
    BY <2>3 DEF VotersFor, WontVote
  <2>5. Proposed(i, c, v)
    BY <2>1, <2>3, <2>4 DEF Proposed, Voted
  <2>6. u = v
    BY <1>2, <1>3, <1>12, <2>5 DEF AInv, ProposalInv, OneProposal
  <2> QED
    BY <1>9, <2>6
<1>15. CASE Below(b, c)
  <2>1. PICK Q \in SUBSET Node :
          /\ IsMajority(Q)
          /\ \A y \in Q : <<y, i, b, u>> \in votes \/ WontVote(y, i, b)
    BY <1>2, <1>3, <1>12, <1>15 DEF AInv, ProposalInv, ProposalsSafe, SafeAt
  <2>2. ASSUME NEW y \in Q PROVE <<y, i, b, u>> \in votes \/ (y # n /\ y # p)
    BY <1>4, <1>6, <2>1 DEF WontVote
  <2>3. PICK y \in Q : <<y, i, b, u>> \in votes
    BY <1>2, <1>8, <2>1, <2>2, MajorityMissesOne
  <2>4. Proposed(i, b, u)
    BY <2>3 DEF Proposed, Voted
  <2>5. u = v
    BY <1>2, <1>3, <1>4, <2>4 DEF AInv, ProposalInv, OneProposal
  <2> QED
    BY <1>9, <2>5
<1>16. b = c \/ Below(c, b) \/ Below(b, c)
  BY <1>2, BallotOrder DEF Below, BallotOrNull
<1> QED
  BY <1>13, <1>14, <1>15, <1>16
-----------------------------------------------------------------------------
(* The invariant and its consequences.                                     *)

LEMMA SkipStep ==
    ASSUME RestartNodes = {}, FaultyStore = {}, GroupInv, SkipInv, [Next]_vars,
           [\A n \in Node : RetryKeepsVote(n)]_vars
    PROVE  SkipInv'
<1>1. CASE UNCHANGED vars
  BY <1>1, SkipStutter
<1>2. CASE Next /\ ~UNCHANGED vars
  <2>1. IInv /\ IInv' /\ AInv /\ AInv'
    BY <1>2, NextInv, AgreementStep DEF GroupInv, EInv
  <2>2. PICK n \in Node : Handles(n)
    BY <1>2, SomeoneHandles
  <2>3. Step(n) /\ Rounds(n)
    BY <1>2, <2>1, <2>2, HandlesStep, HandlesRounds
  <2> QED
    BY <2>1, <2>3, HeldVotedStep, BallotsReachedStep, MissesNoticedStep,
       SendersVotedStep
    DEF SkipInv
<1> QED
  BY <1>1, <1>2

LEMMA SmallGroupHolds ==
    ASSUME RestartNodes = {}, FaultyStore = {}, Cardinality(Node) <= 4
    PROVE  Spec /\ RetriesKeepVote => SkipsLearnChosen
<1>1. Init => GroupInv /\ SkipInv
  BY GroupInit, SkipInit
<1>2. GroupInv /\ SkipInv => \A n \in Node : SkipLearnsChosen(n)
  BY SkipsAreChosen DEF SkipLearnsChosen, GroupInv
<1>3. /\ GroupInv /\ SkipInv /\ [Next]_vars
      /\ [\A n \in Node : RetryKeepsVote(n)]_vars
      => GroupInv' /\ SkipInv'
  BY <1>2, GroupStep, SkipStep
<1> QED
  BY <1>1, <1>2, <1>3, PTL DEF Spec, RetriesKeepVote, SkipsLearnChosen

(* In a group of up to four nodes what a node executes is chosen, also     *)
(* what it learns from a prepare or accept of the next instance            *)
(* (Instance::ReceiveMsgForAcceptor): the bound is tight, as the run       *)
(* SkipSuccess finds five nodes that learn a value nobody has chosen.      *)
THEOREM SmallGroupsLearnChosen ==
    ASSUME RestartNodes = {}, FaultyStore = {}, Cardinality(Node) <= 4
    PROVE  Spec /\ RetriesKeepVote =>
                [](LearnedIsChosen /\ SameOrder /\ CommitResultTruthful)
BY SmallGroupHolds, ExecutedIsChosen, NodesExecuteAlike, ClientsToldTruth, PTL

(* Such a group implements the replicated log.                             *)
THEOREM SmallGroupsImplementLog ==
    ASSUME RestartNodes = {}, FaultyStore = {}, Cardinality(Node) <= 4
    PROVE  Spec /\ RetriesKeepVote => ImplementsReplicatedLog
BY SmallGroupHolds, GroupImplementsLog, PTL

-----------------------------------------------------------------------------
(* Where no timer fires no proposer prepares twice in an instance.         *)

IdleUncommitted ==
    \A n \in Node : commit[n] = None => phase[n] = "idle" /\ value[n] = None

(* What a handler that starts no commit does to a proposer.                *)
Follows(n) ==
    /\ phase[n] = "idle" => phase'[n] = "idle" /\ value'[n] \in {value[n], None}
    /\ \/ commit'[n] = commit[n]
       \/ phase'[n] = "idle" /\ value'[n] = None
    /\ phase'[n] = "preparing" =>
            /\ phase[n] = "preparing"
            /\ \/ preAcceptBallot'[n] = preAcceptBallot[n]
               \/ \E m \in msgs : CountsPromise(n, m)

LEMMA UntimedFollows ==
    ASSUME IInv, TimerNodes = {}, NEW n \in Node, Handles(n),
           ~\E v \in Value : NewValue(n, v)
    PROVE  /\ \A x \in Node \ {n} : commit'[x] = commit[x]
           /\ Follows(n)
<1> USE DEF IInv, TypeOK, ProposerTypeOK, LearnerTypeOK, Follows
<1>1. CASE OnPrepareReply(n)
  <2>1. PICK m \in Inbox(n, {"prepareReply"}) :
          /\ phase[n] = "preparing" /\ m.inst = instanceID[n]
          /\ m.bal[1] = proposalID[n] /\ UNCHANGED <<learnVars, proposalID>>
          /\ \/ UNCHANGED preAcceptBallot
             \/ phase' = [phase EXCEPT ![n] = "selfAccept"]
             \/ /\ m.reject = 0
                /\ LET known == AddPreAcceptValue(n, m)
                   IN  /\ preAcceptBallot' =
                            [preAcceptBallot EXCEPT ![n] = known.bal]
                       /\ value' = [value EXCEPT ![n] = known.value]
                /\ granted' = [granted EXCEPT ![n] = @ \cup {m.from}]
                /\ UNCHANGED <<canSkipPrepare, phase>>
    BY <1>1 DEF OnPrepareReply, Accept
  <2>2. m \in msgs /\ m.type = "prepareReply" /\ m.bal = Own(n)
    BY <2>1, ReplyIsOwn DEF Inbox
  <2>3. UNCHANGED commit /\ UNCHANGED instanceID
    BY <2>1 DEF learnVars
  <2> QED
    BY <2>1, <2>2, <2>3
    DEF CountsPromise, HearsPromise, SameRound, PromiseFor
<1>2. CASE OnAcceptReply(n)
  <2>1. phase[n] = "accepting"
    BY <1>2 DEF OnAcceptReply
  <2>2. \/ UNCHANGED <<learnVars, phase>>
        \/ UNCHANGED learnVars /\ phase' = [phase EXCEPT ![n] = "idle"]
        \/ \E w : Execute(n, w) /\ ProposerNewInstance(n)
    BY <1>2 DEF OnAcceptReply
  <2> QED
    BY <2>1, <2>2 DEF learnVars, Execute, ProposerNewInstance
<1>3. CASE OnExpiredReply(n) \/ \E to \in Node, i \in Instance :
                                    SendLearnValue(n, to, i)
  BY <1>3 DEF OnExpiredReply, SendLearnValue, learnVars, proposerVars
<1>4. CASE OnPrepare(n) \/ OnAccept(n)
  <2>1. \E m : EnterInstanceOf(n, m) /\ UNCHANGED preAcceptBallot
    BY <1>4 DEF OnPrepare, OnAccept
  <2> QED
    BY <2>1 DEF EnterInstanceOf, learnVars, Execute, ProposerNewInstance
<1>5. CASE SelfAccept(n)
  <2>1. /\ phase[n] = "selfAccept" /\ UNCHANGED learnVars
        /\ phase' = [phase EXCEPT ![n] = "accepting"]
    BY <1>5 DEF SelfAccept
  <2> QED
    BY <2>1 DEF learnVars
<1>6. CASE OnProposerSendSuccess(n) \/ OnSendLearnValue(n)
  BY <1>6 DEF OnProposerSendSuccess, OnSendLearnValue, learnVars, Execute,
              ProposerNewInstance, proposerVars
<1> QED
  BY <1>1, <1>2, <1>3, <1>4, <1>5, <1>6
  DEF Handles, ProposerTimeout, CommitTimeout

LEMMA IdleStep ==
    ASSUME IInv, TimerNodes = {}, IdleUncommitted, NEW n \in Node, Handles(n),
           Step(n)
    PROVE  IdleUncommitted'
<1> USE DEF IdleUncommitted
<1>1. \A x \in Node \ {n} : phase'[x] = phase[x] /\ value'[x] = value[x]
  BY DEF Step, Untouched
<1>2. CASE \E v \in Value : NewValue(n, v)
  <2>1. PICK v \in Value : commit' = [commit EXCEPT ![n] = v]
    BY <1>2 DEF NewValue
  <2>2. commit'[n] # None /\ \A x \in Node \ {n} : commit'[x] = commit[x]
    BY <2>1, ValueAssumption DEF IInv, TypeOK, LearnerTypeOK
  <2> QED
    BY <1>1, <2>2
<1>3. CASE ~\E v \in Value : NewValue(n, v)
  BY <1>1, <1>3, UntimedFollows DEF Follows
<1> QED
  BY <1>2, <1>3

(* A proposer that still holds its own vote counts no promise with a       *)
(* higher one.                                                             *)
LEMMA RetryStep ==
    ASSUME IInv, AInv, TimerNodes = {}, IdleUncommitted, NEW n \in Node,
           Handles(n), NEW x \in Node, Untouched(n)
    PROVE  RetryKeepsVote(x)
<1> SUFFICES ASSUME HasOpened(x), phase'[x] = "preparing",
                    proposalID'[x] = proposalID[x]
             PROVE  preAcceptBallot'[x] = Own(x)
  BY DEF RetryKeepsVote
<1>1. CASE x # n
  BY <1>1 DEF Untouched, HasOpened
<1>2. CASE x = n /\ \E v \in Value : NewValue(n, v)
  <2>1. commit[x] = None
    BY <1>2 DEF NewValue
  <2> QED
    BY <2>1 DEF IdleUncommitted, HasOpened
<1>3. CASE x = n /\ ~\E v \in Value : NewValue(n, v)
  <2>1. /\ phase[n] = "preparing" /\ preAcceptBallot[n] = Own(n)
        /\ \/ preAcceptBallot'[n] = preAcceptBallot[n]
           \/ \E m \in msgs : CountsPromise(n, m)
    BY <1>3, UntimedFollows DEF Follows, HasOpened
  <2>2. ASSUME NEW m \in msgs, CountsPromise(n, m)
        PROVE  preAcceptBallot'[n] = Own(n)
    <3>1. BallotGE(Own(n), m.accepted)
      BY <2>2 DEF CountsPromise, HearsPromise, PromiseFor, AInv, RoundInv,
                  RepliesTrue
    <3> QED
      BY <2>1, <2>2, <3>1 DEF CountsPromise, HearsPromise, AddPreAcceptValue
  <2> QED
    BY <1>3, <2>1, <2>2
<1> QED
  BY <1>1, <1>2, <1>3
LEMMA UntimedStep ==
    ASSUME RestartNodes = {}, TimerNodes = {}, IInv, AInv, IdleUncommitted,
           [Next]_vars
    PROVE  /\ IInv' /\ AInv' /\ IdleUncommitted'
           /\ \A x \in Node : RetryKeepsVote(x)
<1>1. IInv'
  BY NextInv
<1>2. CASE UNCHANGED vars
  <2>1. [\A x \in Node : RetryKeepsVote(x)]_vars
    BY <1>2
  <2>2. \A x \in Node : RetryKeepsVote(x)
    BY <2>1, StutterRetries
  <2>3. IdleUncommitted'
    BY <1>2 DEF vars, learnVars, proposerVars, IdleUncommitted
  <2> QED
    BY <1>1, <2>2, <2>3, AgreementStep
<1>3. CASE Next /\ ~UNCHANGED vars
  <2>1. PICK n \in Node : Handles(n)
    BY <1>3, SomeoneHandles
  <2>2. Step(n)
    BY <1>1, <2>1, HandlesStep
  <2>3. \A x \in Node : RetryKeepsVote(x)
    BY <2>1, <2>2, RetryStep DEF Step
  <2>4. IdleUncommitted'
    BY <2>1, <2>2, IdleStep
  <2> QED
    BY <1>1, <2>3, <2>4, AgreementStep
<1> QED
  BY <1>2, <1>3

LEMMA UntimedRetries ==
    ASSUME RestartNodes = {}, TimerNodes = {}
    PROVE  Spec => RetriesKeepVote
<1>1. Init => IInv /\ AInv /\ IdleUncommitted
  <2>1. Init => IdleUncommitted
    BY DEF Init, IdleUncommitted
  <2> QED
    BY <2>1, InitInv, AgreementInit
<1>2. /\ IInv /\ AInv /\ IdleUncommitted /\ [Next]_vars
      => /\ IInv' /\ AInv' /\ IdleUncommitted'
         /\ \A n \in Node : RetryKeepsVote(n)
  BY UntimedStep
<1> QED
  BY <1>1, <1>2, PTL DEF Spec, RetriesKeepVote

(* Without timers, restarts and failing writes nothing else is assumed: in *)
(* every interleaving of the handlers of Instance, with any number of      *)
(* proposers and any messages lost, delayed or reordered, no instance has  *)
(* two chosen values.                                                      *)
THEOREM UntimedAgreement ==
    ASSUME RestartNodes = {}, TimerNodes = {}
    PROVE  Spec => [](BallotsAgree /\ VotesAgree)
BY UntimedRetries, Agreement, PTL

(* And a group of up to four such nodes implements the replicated log.     *)
THEOREM UntimedImplementsLog ==
    ASSUME RestartNodes = {}, FaultyStore = {}, TimerNodes = {},
           Cardinality(Node) <= 4
    PROVE  Spec => ImplementsReplicatedLog
BY UntimedRetries, SmallGroupsImplementLog, PTL
=============================================================================
