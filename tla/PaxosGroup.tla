----------------------------- MODULE PaxosGroup -----------------------------
(***************************************************************************)
(* One paxos group of phxpaxos: on every node the Proposer, the Acceptor   *)
(* and the Learner of src/algorithm, glued together by Instance, plus the  *)
(* part of the paxos log and of the CommitCtx they depend on.              *)
(*                                                                         *)
(* All handlers of a node run in its IOLoop thread, so one handler is one  *)
(* action.  A message a node sends to itself is handled inside the send    *)
(* (Base::SendMessage), and is therefore part of the action that sends it, *)
(* with one exception: Proposer::Accept runs its own acceptor after the    *)
(* network send (RunSelf_Final), and a crash may separate the two.  That   *)
(* point is the phase "selfAccept".                                        *)
(***************************************************************************)
EXTENDS Integers, FiniteSets

CONSTANTS
    Node,           \* node ids, positive integers: ballots are ordered by them
    Value,          \* the values clients commit
    None,           \* the empty string: no value
    NoRecord,       \* what the log holds of an instance never written
    MaxInstance,    \* bound: instances 0 .. MaxInstance - 1 are run
    MaxProposalID,  \* bound: the largest proposal id a prepare may use
    MaxInterrupts,  \* bound: timer expiries and crashes in a behaviour
    Proposers,      \* the nodes on which clients commit values
    RestartNodes,   \* the nodes that may crash and restart
    TimerNodes,     \* the nodes whose prepare, accept and commit timers fire
    FaultyStore,    \* the nodes whose log writes may fail
    Link,           \* <<a, b>> : messages from a to b may be delivered
    Duplicates      \* whether the network may deliver a message twice

-----------------------------------------------------------------------------
Instance   == 0 .. MaxInstance - 1

(* BallotNumber: a proposal id and the node that owns it.                  *)
NullBallot   == <<0, 0>>
Ballot       == (Nat \ {0}) \X Node
BallotOrNull == Ballot \cup {NullBallot}
BallotGE(b, c) == b[1] > c[1] \/ (b[1] = c[1] /\ b[2] >= c[2])

ValueOrNone == Value \cup {None}

(* AcceptorStateData: what the log keeps of an instance.                   *)
Record ==
    [promise : BallotOrNull, accepted : BallotOrNull, value : ValueOrNone]

Larger(a, b) == IF a >= b THEN a ELSE b
IsMajority(S) == 2 * Cardinality(S) > Cardinality(Node)

ASSUME NodeAssumption == /\ Node \subseteq Nat \ {0}
                         /\ IsFiniteSet(Node)
                         /\ Cardinality(Node) >= 2
ASSUME ValueAssumption == None \notin Value /\ NoRecord \notin Record
ASSUME BoundAssumption ==
    MaxInstance \in Nat /\ MaxProposalID \in Nat /\ MaxInterrupts \in Nat
ASSUME PartAssumption == /\ Proposers \subseteq Node
                         /\ RestartNodes \subseteq Node
                         /\ TimerNodes \subseteq Node
                         /\ FaultyStore \subseteq Node
                         /\ Link \subseteq Node \X Node
                         /\ Duplicates \in BOOLEAN

VARIABLES
    instanceID,      \* Base::m_llInstanceID, the same in the three roles
    promiseBallot,   \* AcceptorState::m_oPromiseBallot
    acceptedBallot,  \* AcceptorState::m_oAcceptedBallot
    acceptedValue,   \* AcceptorState::m_sAcceptedValue
    paxosLog,        \* LogStorage: the AcceptorStateData of every instance
    proposalID,      \* ProposerState::m_llProposalID
    highestOther,    \* ProposerState::m_llHighestOtherProposalID
    value,           \* ProposerState::m_sValue
    preAcceptBallot, \* ProposerState::m_oHighestOtherPreAcceptBallot
    phase,           \* Proposer::m_bIsPreparing and m_bIsAccepting
    canSkipPrepare,  \* Proposer::m_bCanSkipPrepare
    wasReject,       \* Proposer::m_bWasRejectBySomeone
    granted,         \* MsgCounter::m_setPromiseOrAcceptMsgNodeID
    commit,          \* CommitCtx::m_psValue of a started, unfinished commit
    msgs,            \* messages in flight; one that is never handled is lost
    proposed,        \* history: values clients have committed
    promises,        \* history: <<acceptor, instance, ballot>> passed
    votes,           \* history: <<acceptor, instance, ballot, value>> passed
    decided,         \* history: <<node, instance, value>> given to SMExecute
    results,         \* history: the outcomes reported, OK and conflict
    interrupts       \* history: timer expiries and crashes so far

acceptorVars == <<promiseBallot, acceptedBallot, acceptedValue, paxosLog>>
proposerVars == <<proposalID, highestOther, value, preAcceptBallot, phase,
                  canSkipPrepare, wasReject, granted>>
learnVars    == <<instanceID, decided, commit, results>>
passVars     == <<promises, votes>>
historyVars  == <<proposed, passVars, interrupts>>
vars == <<learnVars, acceptorVars, proposerVars, msgs, historyVars>>

-----------------------------------------------------------------------------
(* Messages.  A prepare, an accept and a success message carry the         *)
(* proposer in the ballot; a reply goes to the owner of the ballot it      *)
(* answers, and "reject" is rejectbypromiseid, 0 when the ballot passed.   *)
Message ==
         [type : {"prepare", "success"}, to : Node, inst : Instance,
          bal : Ballot]
    \cup [type : {"accept"}, to : Node, inst : Instance, bal : Ballot,
          value : Value]
    \cup [type : {"prepareReply"}, to : Node, inst : Instance, bal : Ballot,
          from : Node, reject : Nat, accepted : BallotOrNull,
          value : ValueOrNone]
    \cup [type : {"acceptReply"}, to : Node, inst : Instance, bal : Ballot,
          from : Node, reject : Nat]
    \cup [type : {"learn"}, to : Node, inst : Instance,
          bal : BallotOrNull, value : ValueOrNone]

(* The network: unordered and lossy, as UDP is.                            *)
Peers(n) == {to \in Node \ {n} : <<n, to>> \in Link}

Prepares(n, i, b) ==
    {[type |-> "prepare", to |-> to, inst |-> i, bal |-> b] : to \in Peers(n)}
Accepts(n, i, b, v) ==
    {[type |-> "accept", to |-> to, inst |-> i, bal |-> b, value |-> v] :
        to \in Peers(n)}
Successes(n, i, b) ==
    {[type |-> "success", to |-> to, inst |-> i, bal |-> b] : to \in Peers(n)}

Send(sent) == msgs' = msgs \cup sent

Receive(m, sent) ==
    msgs' = (IF Duplicates THEN msgs ELSE msgs \ {m}) \cup sent

Inbox(n, types) == {m \in msgs : m.to = n /\ m.type \in types}

(* n's IOLoop thread is not inside Proposer::Accept.                       *)
Free(n) == phase[n] # "selfAccept"

(* The nodes whose next write of the log may return an error.              *)
WriteFails(n) == n \in FaultyStore
-----------------------------------------------------------------------------
Init ==
    /\ instanceID = [n \in Node |-> 0]
    /\ promiseBallot = [n \in Node |-> NullBallot]
    /\ acceptedBallot = [n \in Node |-> NullBallot]
    /\ acceptedValue = [n \in Node |-> None]
    /\ paxosLog = [n \in Node |-> [i \in Instance |-> NoRecord]]
    /\ proposalID = [n \in Node |-> 1]
    /\ highestOther = [n \in Node |-> 0]
    /\ value = [n \in Node |-> None]
    /\ preAcceptBallot = [n \in Node |-> NullBallot]
    /\ phase = [n \in Node |-> "idle"]
    /\ canSkipPrepare = [n \in Node |-> FALSE]
    /\ wasReject = [n \in Node |-> FALSE]
    /\ granted = [n \in Node |-> {}]
    /\ commit = [n \in Node |-> None]
    /\ msgs = {}
    /\ proposed = {}
    /\ promises = {}
    /\ votes = {}
    /\ decided = {}
    /\ results = {}
    /\ interrupts = 0
-----------------------------------------------------------------------------
(* Acceptor state changes.                                                 *)

SetAcceptor(n, promise, accepted, v) ==
    /\ promiseBallot' = [promiseBallot EXCEPT ![n] = promise]
    /\ acceptedBallot' = [acceptedBallot EXCEPT ![n] = accepted]
    /\ acceptedValue' = [acceptedValue EXCEPT ![n] = v]

(* Mutant of Persist: the record keeps no promise but the accepted ballot. *)
PersistAcceptedOnly(n, i, promise, accepted, v) ==
    paxosLog' = [paxosLog EXCEPT ![n][i] =
                    [promise |-> accepted, accepted |-> accepted, value |-> v]]

(* AcceptorState::Persist.                                                 *)
Persist(n, i, promise, accepted, v) ==
    paxosLog' = [paxosLog EXCEPT ![n][i] =
                    [promise |-> promise, accepted |-> accepted, value |-> v]]
-----------------------------------------------------------------------------
(* The learned branch of Instance::ReceiveMsgForLearner, without the       *)
(* acceptor's part of NewInstance: n executes v at its instance, ends the  *)
(* commit in flight and moves to the next instance.  proposalID,           *)
(* canSkipPrepare, wasReject and preAcceptBallot survive.                  *)

(* Mutant of CommitResult: whatever is learned ends the commit well.       *)
CommitResultOK(n, v) ==
    [node |-> n, inst |-> instanceID[n], value |-> commit[n], ret |-> "OK"]

(* CommitCtx::SetResult, compared with the value of the commit.            *)
CommitResult(n, v) ==
    [node |-> n, inst |-> instanceID[n], value |-> commit[n],
     ret |-> IF commit[n] = v THEN "OK" ELSE "Conflict"]

Execute(n, v) ==
    /\ instanceID' = [instanceID EXCEPT ![n] = @ + 1]
    /\ decided' = decided \cup {<<n, instanceID[n], v>>}
    /\ commit' = [commit EXCEPT ![n] = None]
    /\ results' = IF commit[n] = None THEN results
                  ELSE results \cup {CommitResult(n, v)}

(* Mutants of ProposerNewInstance: the timers and the phase survive; the   *)
(* value survives.                                                         *)
ProposerKeepsPhase(n) ==
    /\ highestOther' = [highestOther EXCEPT ![n] = 0]
    /\ value' = [value EXCEPT ![n] = None]
    /\ granted' = [granted EXCEPT ![n] = {}]
    /\ UNCHANGED phase

ProposerKeepsValue(n) ==
    /\ highestOther' = [highestOther EXCEPT ![n] = 0]
    /\ phase' = [phase EXCEPT ![n] = "idle"]
    /\ granted' = [granted EXCEPT ![n] = {}]
    /\ UNCHANGED value

(* Proposer::InitForNewPaxosInstance.                                      *)
ProposerNewInstance(n) ==
    /\ highestOther' = [highestOther EXCEPT ![n] = 0]
    /\ value' = [value EXCEPT ![n] = None]
    /\ phase' = [phase EXCEPT ![n] = "idle"]
    /\ granted' = [granted EXCEPT ![n] = {}]

(* Mutant of LearnsFromSuccess: any accepted value is learned.             *)
LearnsAnyAccepted(n, b) == acceptedBallot[n] # NullBallot

(* Learner::OnProposerSendSuccess: the proposer of ballot b says its value *)
(* is chosen, and b is what n accepted last.                               *)
LearnsFromSuccess(n, b) ==
    acceptedBallot[n] # NullBallot /\ acceptedBallot[n] = b
-----------------------------------------------------------------------------
(* Proposer.                                                               *)

(* ProposerState::NewPrepare, when Prepare asks for a new ballot.          *)
NextProposalID(n, newBallot) ==
    IF newBallot THEN Larger(proposalID[n], highestOther[n]) + 1
    ELSE proposalID[n]

(* Proposer::Prepare with value w.  The prepare message first runs the     *)
(* node's own acceptor, whose reply is handled in the same call; if the    *)
(* acceptor cannot persist its promise nothing is sent.                    *)
SelfPromise(n, b, w) ==
    /\ BallotGE(b, promiseBallot[n])
    /\ promiseBallot' = [promiseBallot EXCEPT ![n] = b]
    /\ Persist(n, instanceID[n], b, acceptedBallot[n], acceptedValue[n])
    /\ promises' = promises \cup {<<n, instanceID[n], b>>}
    /\ granted' = [granted EXCEPT ![n] = {n}]
    /\ preAcceptBallot' = [preAcceptBallot EXCEPT ![n] = acceptedBallot[n]]
    /\ value' = [value EXCEPT ![n] = IF acceptedBallot[n] = NullBallot
                                     THEN w ELSE acceptedValue[n]]
    /\ UNCHANGED highestOther
    /\ wasReject' = [wasReject EXCEPT ![n] = FALSE]
    /\ Send(Prepares(n, instanceID[n], b))

SelfReject(n, b, w) ==
    /\ ~BallotGE(b, promiseBallot[n])
    /\ granted' = [granted EXCEPT ![n] = {}]
    /\ value' = [value EXCEPT ![n] = w]
    /\ preAcceptBallot' = [preAcceptBallot EXCEPT ![n] = NullBallot]
    /\ highestOther' =
            [highestOther EXCEPT ![n] = Larger(@, promiseBallot[n][1])]
    /\ wasReject' = [wasReject EXCEPT ![n] = TRUE]
    /\ Send(Prepares(n, instanceID[n], b))
    /\ UNCHANGED <<promiseBallot, paxosLog, promises>>

SelfPromiseNotPersisted(n, b, w) ==
    /\ WriteFails(n)
    /\ BallotGE(b, promiseBallot[n])
    /\ value' = [value EXCEPT ![n] = w]
    /\ promiseBallot' = [promiseBallot EXCEPT ![n] = b]
    /\ granted' = [granted EXCEPT ![n] = {}]
    /\ preAcceptBallot' = [preAcceptBallot EXCEPT ![n] = NullBallot]
    /\ wasReject' = [wasReject EXCEPT ![n] = FALSE]
    /\ UNCHANGED <<paxosLog, highestOther, msgs, promises>>

Prepare(n, newBallot, w) ==
    LET id == NextProposalID(n, newBallot)
        b  == <<id, n>>
    IN  /\ id <= MaxProposalID
        /\ proposalID' = [proposalID EXCEPT ![n] = id]
        /\ phase' = [phase EXCEPT ![n] = "preparing"]
        /\ canSkipPrepare' = [canSkipPrepare EXCEPT ![n] = FALSE]
        /\ \/ SelfPromise(n, b, w)
           \/ SelfReject(n, b, w)
           \/ SelfPromiseNotPersisted(n, b, w)
        /\ UNCHANGED <<acceptedBallot, acceptedValue, votes>>

(* Proposer::Accept up to its network send, the accept messages of w.      *)
MyAccepts(n, w) == Accepts(n, instanceID[n], <<proposalID[n], n>>, w)

Accept(n, w) ==
    /\ phase' = [phase EXCEPT ![n] = "selfAccept"]
    /\ value' = [value EXCEPT ![n] = w]
    /\ granted' = [granted EXCEPT ![n] = {}]

(* A value still held from an earlier commit of this instance goes first.  *)
ValueToPropose(n, v) == IF value[n] = None THEN v ELSE value[n]

(* Committer::NewValueGetID hands v to the IOLoop, Instance::CheckNewValue *)
(* starts the commit and Proposer::NewValue proposes it.  The test of      *)
(* Learner::IsIMLatest is left out: a node that lags may propose as well.  *)
NewValue(n, v) ==
    /\ n \in Proposers
    /\ Free(n)
    /\ commit[n] = None
    /\ instanceID[n] < MaxInstance
    /\ v \notin proposed
    /\ commit' = [commit EXCEPT ![n] = v]
    /\ proposed' = proposed \cup {v}
    /\ LET w == ValueToPropose(n, v)
       IN  \/ /\ canSkipPrepare[n] /\ ~wasReject[n]
              /\ Accept(n, w)
              /\ Send(MyAccepts(n, w))
              /\ UNCHANGED <<acceptorVars, proposalID, highestOther, passVars,
                             preAcceptBallot, canSkipPrepare, wasReject>>
           \/ /\ ~canSkipPrepare[n] \/ wasReject[n]
              /\ Prepare(n, wasReject[n], w)
    /\ UNCHANGED <<instanceID, decided, results, interrupts>>

CountInterrupt ==
    interrupts < MaxInterrupts /\ interrupts' = interrupts + 1

(* Proposer::OnPrepareTimeout and OnAcceptTimeout.  The timers are armed   *)
(* exactly while the proposer is in the phase.                             *)
ProposerTimeout(n) ==
    /\ n \in TimerNodes
    /\ phase[n] \in {"preparing", "accepting"}
    /\ Prepare(n, wasReject[n], value[n])
    /\ CountInterrupt
    /\ UNCHANGED <<learnVars, proposed>>

(* A reject reply, expired or not: Proposer::OnExpiredPrepareReply and the *)
(* reject branches of OnPrepareReply and OnAcceptReply.                    *)
NoteReject(n, m) ==
    /\ wasReject' = [wasReject EXCEPT ![n] = TRUE]
    /\ highestOther' = [highestOther EXCEPT ![n] = Larger(@, m.reject)]

(* Mutants of AddPreAcceptValue: no test of isnull and >= for >; the       *)
(* accepted values of the repliers are ignored.                            *)
AddNullPreAcceptValue(n, m) ==
    IF BallotGE(m.accepted, preAcceptBallot[n])
    THEN [bal |-> m.accepted, value |-> m.value]
    ELSE [bal |-> preAcceptBallot[n], value |-> value[n]]

IgnorePreAcceptValue(n, m) ==
    [bal |-> preAcceptBallot[n], value |-> value[n]]

(* ProposerState::AddPreAcceptValue.                                       *)
AddPreAcceptValue(n, m) ==
    IF m.accepted # NullBallot /\ ~BallotGE(preAcceptBallot[n], m.accepted)
    THEN [bal |-> m.accepted, value |-> m.value]
    ELSE [bal |-> preAcceptBallot[n], value |-> value[n]]

(* Proposer::OnPrepareReply.                                               *)
OnPrepareReply(n) ==
    \E m \in Inbox(n, {"prepareReply"}) :
        /\ phase[n] = "preparing"
        /\ m.inst = instanceID[n]
        /\ m.bal[1] = proposalID[n]
        /\ \/ /\ m.reject # 0
              /\ NoteReject(n, m)
              /\ Receive(m, {})
              /\ UNCHANGED <<value, preAcceptBallot, phase, canSkipPrepare,
                             granted>>
           \/ /\ m.reject = 0
              /\ LET known == AddPreAcceptValue(n, m)
                     yes   == granted[n] \cup {m.from}
                 IN  /\ preAcceptBallot' =
                            [preAcceptBallot EXCEPT ![n] = known.bal]
                     /\ \/ /\ IsMajority(yes)
                           /\ canSkipPrepare' =
                                [canSkipPrepare EXCEPT ![n] = TRUE]
                           /\ Accept(n, known.value)
                           /\ Receive(m, MyAccepts(n, known.value))
                        \/ /\ ~IsMajority(yes)
                           /\ granted' = [granted EXCEPT ![n] = yes]
                           /\ value' = [value EXCEPT ![n] = known.value]
                           /\ Receive(m, {})
                           /\ UNCHANGED <<canSkipPrepare, phase>>
              /\ UNCHANGED <<wasReject, highestOther>>
        /\ UNCHANGED <<learnVars, acceptorVars, proposalID, historyVars>>

(* Proposer::OnAcceptReply.  On a majority the node tells everyone, itself *)
(* first (Learner::ProposerSendSuccess); it learns only if its own         *)
(* acceptor still holds this ballot.                                       *)
OnAcceptReply(n) ==
    \E m \in Inbox(n, {"acceptReply"}) :
        /\ phase[n] = "accepting"
        /\ m.inst = instanceID[n]
        /\ m.bal[1] = proposalID[n]
        /\ \/ /\ m.reject # 0
              /\ NoteReject(n, m)
              /\ Receive(m, {})
              /\ UNCHANGED <<learnVars, acceptorVars, value, phase, granted>>
           \/ /\ m.reject = 0
              /\ ~IsMajority(granted[n] \cup {m.from})
              /\ granted' = [granted EXCEPT ![n] = @ \cup {m.from}]
              /\ Receive(m, {})
              /\ UNCHANGED <<learnVars, acceptorVars, highestOther, value,
                             phase, wasReject>>
           \/ /\ m.reject = 0
              /\ IsMajority(granted[n] \cup {m.from})
              /\ Receive(m, Successes(n, instanceID[n], m.bal))
              /\ \/ /\ LearnsFromSuccess(n, m.bal)
                    /\ Execute(n, acceptedValue[n])
                    /\ SetAcceptor(n, promiseBallot[n], NullBallot, None)
                    /\ ProposerNewInstance(n)
                 \/ /\ ~LearnsFromSuccess(n, m.bal)
                    /\ phase' = [phase EXCEPT ![n] = "idle"]
                    /\ granted' = [granted EXCEPT ![n] = @ \cup {m.from}]
                    /\ UNCHANGED <<learnVars, acceptedBallot, acceptedValue,
                                   promiseBallot, highestOther, value>>
              /\ UNCHANGED <<paxosLog, wasReject>>
        /\ UNCHANGED <<proposalID, preAcceptBallot, canSkipPrepare,
                       historyVars>>

(* Instance::ReceiveMsgForProposer on a reply of the previous instance.    *)
OnExpiredReply(n) ==
    \E m \in Inbox(n, {"prepareReply", "acceptReply"}) :
        /\ Free(n)
        /\ m.inst + 1 = instanceID[n]
        /\ m.reject # 0
        /\ NoteReject(n, m)
        /\ Receive(m, {})
        /\ UNCHANGED <<learnVars, acceptorVars, proposalID, value, phase,
                       preAcceptBallot, canSkipPrepare, granted, historyVars>>

(* Instance::OnNewValueCommitTimeout.  m_sValue is kept.                   *)
CommitTimeout(n) ==
    /\ n \in TimerNodes
    /\ Free(n)
    /\ commit[n] # None
    /\ phase' = [phase EXCEPT ![n] = "idle"]
    /\ commit' = [commit EXCEPT ![n] = None]
    /\ CountInterrupt
    /\ UNCHANGED <<instanceID, decided, results, acceptorVars, proposalID,
                   highestOther, value, preAcceptBallot, canSkipPrepare,
                   wasReject, granted, msgs, proposed, passVars>>
-----------------------------------------------------------------------------
(* Acceptor.                                                               *)

(* Instance::ReceiveMsgForAcceptor: a prepare or accept of the next        *)
(* instance counts as the success message of its ballot in this one (skip  *)
(* success), and is then handled in the next instance.  Any other message  *)
(* of a later instance waits in the retry queue, that is in msgs.          *)
SkipsSuccess(n, m) ==
    m.inst = instanceID[n] + 1 /\ LearnsFromSuccess(n, m.bal)

EnterInstanceOf(n, m) ==
    \/ /\ m.inst = instanceID[n]
       /\ UNCHANGED <<learnVars, highestOther, value, phase, granted>>
    \/ /\ SkipsSuccess(n, m)
       /\ Execute(n, acceptedValue[n])
       /\ ProposerNewInstance(n)

AcceptedIn(n, m) ==
    IF m.inst = instanceID[n]
    THEN [bal |-> acceptedBallot[n], value |-> acceptedValue[n]]
    ELSE [bal |-> NullBallot, value |-> None]

(* Acceptor::OnPrepare.                                                    *)
OnPrepare(n) ==
    \E m \in Inbox(n, {"prepare"}) :
        LET acc == AcceptedIn(n, m)
            Reply(reject) ==
                [type |-> "prepareReply", to |-> m.bal[2], inst |-> m.inst,
                 bal |-> m.bal, from |-> n, reject |-> reject,
                 accepted |-> IF reject = 0 THEN acc.bal ELSE NullBallot,
                 value |-> IF reject = 0 THEN acc.value ELSE None]
        IN  /\ Free(n)
            /\ EnterInstanceOf(n, m)
            /\ \/ /\ BallotGE(m.bal, promiseBallot[n])
                  /\ SetAcceptor(n, m.bal, acc.bal, acc.value)
                  /\ Persist(n, m.inst, m.bal, acc.bal, acc.value)
                  /\ promises' = promises \cup {<<n, m.inst, m.bal>>}
                  /\ Receive(m, {Reply(0)})
               \/ /\ BallotGE(m.bal, promiseBallot[n])
                  /\ WriteFails(n)
                  /\ SetAcceptor(n, m.bal, acc.bal, acc.value)
                  /\ Receive(m, {})
                  /\ UNCHANGED <<paxosLog, promises>>
               \/ /\ ~BallotGE(m.bal, promiseBallot[n])
                  /\ SetAcceptor(n, promiseBallot[n], acc.bal, acc.value)
                  /\ Receive(m, {Reply(promiseBallot[n][1])})
                  /\ UNCHANGED <<paxosLog, promises>>
            /\ UNCHANGED <<proposalID, preAcceptBallot, canSkipPrepare,
                           wasReject, proposed, votes, interrupts>>

(* Mutant of AcceptPasses: the ballot is not compared with the promise.    *)
AcceptAnyBallot(n, i, b, v) ==
    /\ SetAcceptor(n, b, b, v)
    /\ Persist(n, i, b, b, v)
    /\ votes' = votes \cup {<<n, i, b, v>>}

(* Acceptor::OnAccept on ballot b and value v of instance i, when it       *)
(* passes: the vote counts once the log holds it.                          *)
AcceptPasses(n, i, b, v) ==
    /\ BallotGE(b, promiseBallot[n])
    /\ SetAcceptor(n, b, b, v)
    /\ Persist(n, i, b, b, v)
    /\ votes' = votes \cup {<<n, i, b, v>>}

AcceptNotPersisted(n, b, v) ==
    /\ BallotGE(b, promiseBallot[n])
    /\ WriteFails(n)
    /\ SetAcceptor(n, b, b, v)
    /\ UNCHANGED <<paxosLog, votes>>

OnAccept(n) ==
    \E m \in Inbox(n, {"accept"}) :
        LET acc == AcceptedIn(n, m)
            Reply(reject) ==
                [type |-> "acceptReply", to |-> m.bal[2], inst |-> m.inst,
                 bal |-> m.bal, from |-> n, reject |-> reject]
        IN  /\ Free(n)
            /\ EnterInstanceOf(n, m)
            /\ \/ /\ AcceptPasses(n, m.inst, m.bal, m.value)
                  /\ Receive(m, {Reply(0)})
               \/ /\ AcceptNotPersisted(n, m.bal, m.value)
                  /\ Receive(m, {})
               \/ /\ ~BallotGE(m.bal, promiseBallot[n])
                  /\ SetAcceptor(n, promiseBallot[n], acc.bal, acc.value)
                  /\ Receive(m, {Reply(promiseBallot[n][1])})
                  /\ UNCHANGED <<paxosLog, votes>>
            /\ UNCHANGED <<proposalID, preAcceptBallot, canSkipPrepare,
                           wasReject, proposed, promises, interrupts>>

(* The rest of Proposer::Accept: the node's own acceptor, and its reply.   *)
SelfAccept(n) ==
    LET b == <<proposalID[n], n>>
    IN  /\ phase[n] = "selfAccept"
        /\ phase' = [phase EXCEPT ![n] = "accepting"]
        /\ \/ /\ AcceptPasses(n, instanceID[n], b, value[n])
              /\ granted' = [granted EXCEPT ![n] = {n}]
              /\ UNCHANGED <<highestOther, wasReject>>
           \/ /\ AcceptNotPersisted(n, b, value[n])
              /\ UNCHANGED <<highestOther, wasReject, granted>>
           \/ /\ ~BallotGE(b, promiseBallot[n])
              /\ NoteReject(n, [reject |-> promiseBallot[n][1]])
              /\ UNCHANGED <<acceptorVars, granted, votes>>
        /\ UNCHANGED <<learnVars, proposalID, value, preAcceptBallot,
                       canSkipPrepare, msgs, proposed, promises, interrupts>>
-----------------------------------------------------------------------------
(* Learner.                                                                *)

(* Instance::ReceiveMsgForLearner on a success message.                    *)
OnProposerSendSuccess(n) ==
    \E m \in Inbox(n, {"success"}) :
        /\ Free(n)
        /\ m.inst = instanceID[n]
        /\ LearnsFromSuccess(n, m.bal)
        /\ Execute(n, acceptedValue[n])
        /\ SetAcceptor(n, promiseBallot[n], NullBallot, None)
        /\ ProposerNewInstance(n)
        /\ Receive(m, {})
        /\ UNCHANGED <<paxosLog, proposalID, preAcceptBallot, canSkipPrepare,
                       wasReject, historyVars>>

(* Mutant of HasLearnt: the running instance counts as learned.            *)
HasReached(n, i) == i <= instanceID[n]

HasLearnt(n, i) == i < instanceID[n]

(* LearnerSender::SendOne, and the single value of OnAskforLearn: node n   *)
(* serves the record its log holds of an instance behind its own to a node *)
(* that has not passed it.                                                 *)
SendLearnValue(n, to, i) ==
    LET r == paxosLog[n][i]
    IN  /\ to \in Peers(n)
        /\ instanceID[to] <= i
        /\ HasLearnt(n, i)
        /\ r # NoRecord
        /\ Send({[type |-> "learn", to |-> to, inst |-> i,
                  bal |-> r.accepted, value |-> r.value]})
        /\ UNCHANGED <<learnVars, acceptorVars, proposerVars, historyVars>>

(* Learner::OnSendLearnValue: the record of the instance is overwritten,   *)
(* its promise included (LearnerState::LearnValue); a failed write learns  *)
(* nothing.                                                                *)
OnSendLearnValue(n) ==
    \E m \in Inbox(n, {"learn"}) :
        /\ Free(n)
        /\ m.inst = instanceID[n]
        /\ Persist(n, m.inst, m.bal, m.bal, m.value)
        /\ Execute(n, m.value)
        /\ SetAcceptor(n, promiseBallot[n], NullBallot, None)
        /\ ProposerNewInstance(n)
        /\ Receive(m, {})
        /\ UNCHANGED <<proposalID, preAcceptBallot, canSkipPrepare, wasReject,
                       historyVars>>
-----------------------------------------------------------------------------
(* A crash of the process and Instance::Init: the acceptor loads the last  *)
(* record of the log, the state machine replays the earlier ones, and the  *)
(* proposer starts above the loaded promise.  With a hole in the log Init  *)
(* fails and the node stays down.                                          *)
Logged(n) == {i \in Instance : paxosLog[n][i] # NoRecord}

Replayed(n, last) == {<<n, i, paxosLog[n][i].value>> : i \in 0 .. last - 1}

EmptyState == [promise |-> NullBallot, accepted |-> NullBallot, value |-> None]

Load(n, last, r) ==
    /\ 0 .. last - 1 \subseteq Logged(n)
    /\ instanceID' = [instanceID EXCEPT ![n] = last]
    /\ SetAcceptor(n, r.promise, r.accepted, r.value)
    /\ decided' = decided \cup Replayed(n, last)
    /\ proposalID' = [proposalID EXCEPT ![n] = r.promise[1] + 1]

Restart(n) ==
    /\ n \in RestartNodes
    /\ \/ /\ Logged(n) = {}
          /\ Load(n, 0, EmptyState)
       \/ \E last \in Logged(n) :
            /\ \A i \in Logged(n) : i <= last
            /\ Load(n, last, paxosLog[n][last])
    /\ highestOther' = [highestOther EXCEPT ![n] = 0]
    /\ value' = [value EXCEPT ![n] = None]
    /\ preAcceptBallot' = [preAcceptBallot EXCEPT ![n] = NullBallot]
    /\ phase' = [phase EXCEPT ![n] = "idle"]
    /\ canSkipPrepare' = [canSkipPrepare EXCEPT ![n] = FALSE]
    /\ wasReject' = [wasReject EXCEPT ![n] = FALSE]
    /\ granted' = [granted EXCEPT ![n] = {}]
    /\ commit' = [commit EXCEPT ![n] = None]
    /\ CountInterrupt
    /\ UNCHANGED <<paxosLog, results, msgs, proposed, passVars>>
-----------------------------------------------------------------------------
Next ==
    \E n \in Node :
        \/ \E v \in Value : NewValue(n, v)
        \/ ProposerTimeout(n)
        \/ OnPrepareReply(n)
        \/ OnAcceptReply(n)
        \/ OnExpiredReply(n)
        \/ CommitTimeout(n)
        \/ OnPrepare(n)
        \/ OnAccept(n)
        \/ SelfAccept(n)
        \/ OnProposerSendSuccess(n)
        \/ \E to \in Node, i \in Instance : SendLearnValue(n, to, i)
        \/ OnSendLearnValue(n)
        \/ Restart(n)

Spec == Init /\ [][Next]_vars
-----------------------------------------------------------------------------
(* Properties.                                                             *)

(* The decisions of the protocol, from the votes acceptors have replied.   *)
VotersFor(i, b, v) == {n \in Node : <<n, i, b, v>> \in votes}
BallotsOf(i) == {vt[3] : vt \in {x \in votes : x[2] = i}}
ChosenValues(i) ==
    {v \in Value : \E b \in BallotsOf(i) : IsMajority(VotersFor(i, b, v))}

(* Every variable and every message stays in the set the code's types and  *)
(* conventions give it: an accept always carries a value, a proposal id    *)
(* sent is never 0, the id that means "no ballot".                         *)
AcceptorTypeOK ==
    /\ promiseBallot \in [Node -> BallotOrNull]
    /\ acceptedBallot \in [Node -> BallotOrNull]
    /\ acceptedValue \in [Node -> ValueOrNone]
    /\ paxosLog \in [Node -> [Instance -> Record \cup {NoRecord}]]

ProposerTypeOK ==
    /\ proposalID \in [Node -> Nat \ {0}]
    /\ highestOther \in [Node -> Nat]
    /\ value \in [Node -> ValueOrNone]
    /\ preAcceptBallot \in [Node -> BallotOrNull]
    /\ phase \in [Node -> {"idle", "preparing", "selfAccept", "accepting"}]
    /\ canSkipPrepare \in [Node -> BOOLEAN]
    /\ wasReject \in [Node -> BOOLEAN]
    /\ granted \in [Node -> SUBSET Node]

LearnerTypeOK ==
    /\ instanceID \in [Node -> 0 .. MaxInstance]
    /\ decided \subseteq Node \X Instance \X ValueOrNone
    /\ commit \in [Node -> ValueOrNone]
    /\ results \subseteq [node : Node, inst : Instance, value : Value,
                          ret : {"OK", "Conflict"}]

HistoryTypeOK ==
    /\ proposed \subseteq Value
    /\ promises \subseteq Node \X Instance \X Ballot
    /\ votes \subseteq Node \X Instance \X Ballot \X Value
    /\ interrupts \in Nat

TypeOK ==
    /\ AcceptorTypeOK
    /\ ProposerTypeOK
    /\ LearnerTypeOK
    /\ HistoryTypeOK
    /\ msgs \subseteq Message

(* What the handlers rely on without testing it: a working proposer has an *)
(* instance to run and a value to propose, an accepted ballot comes with   *)
(* its value and never exceeds the promise, in memory, in the log and in   *)
(* the messages; a reply goes to the owner of the ballot it answers.       *)
ProposerReady ==
    \A n \in Node :
        phase[n] # "idle" => value[n] # None /\ instanceID[n] < MaxInstance

AcceptorOrdered ==
    \A n \in Node :
        /\ acceptedBallot[n] # NullBallot => acceptedValue[n] # None
        /\ BallotGE(promiseBallot[n], acceptedBallot[n])

RecordOrdered(r) ==
    /\ r.accepted # NullBallot => r.value # None
    /\ BallotGE(r.promise, r.accepted)

LogOrdered ==
    \A n \in Node : \A i \in Logged(n) : RecordOrdered(paxosLog[n][i])

MessageOrdered(m) ==
    /\ m.type \in {"prepareReply", "acceptReply"} => m.bal[2] = m.to
    /\ m.type = "prepareReply" /\ m.accepted # NullBallot => m.value # None
    /\ m.type = "learn" /\ m.bal # NullBallot => m.value # None

MessagesOrdered == \A m \in msgs : MessageOrdered(m)

HandlerInv ==
    ProposerReady /\ AcceptorOrdered /\ LogOrdered /\ MessagesOrdered

(* At most one value is ever accepted by a majority in one ballot of an    *)
(* instance: Proposer::AddPreAcceptValue and Acceptor::OnAccept keep what  *)
(* an earlier ballot may have chosen.                                      *)
ChosenUnique == \A i \in Instance : Cardinality(ChosenValues(i)) <= 1

(* A value a node hands to its state machine is one the group has chosen,  *)
(* whether it came by a success message, by the next instance's prepare or *)
(* accept, by SendLearnValue or by a replay of the log.                    *)
LearnedIsChosen == \A d \in decided : d[3] \in ChosenValues(d[2])

(* README.md, line 159: all nodes execute the values in the same order, so *)
(* that no two state machines get different values for one instance.       *)
SameOrder == \A d, e \in decided : d[2] = e[2] => d[3] = e[3]

(* What GetResult tells a client is true: after PaxosTryCommitRet_OK its   *)
(* value is chosen in the instance it was given, after                     *)
(* PaxosTryCommitRet_Conflict it is chosen nowhere (CommitCtx::SetResult). *)
CommitResultTruthful ==
    \A r \in results :
        IF r.ret = "OK" THEN r.value \in ChosenValues(r.inst)
                        ELSE \A i \in Instance : r.value \notin ChosenValues(i)

(* A value is chosen in one instance only, although a commit that timed    *)
(* out leaves its value with the proposer (OnNewValueCommitTimeout).       *)
ChosenOnce ==
    \A i, j \in Instance : i # j => ChosenValues(i) \cap ChosenValues(j) = {}

(* No two values are voted for in one ballot of an instance: a retry of    *)
(* Prepare without a new ballot, a kept m_sValue, a restart.               *)
OneValuePerBallot ==
    \A v1, v2 \in votes :
        v1[2] = v2[2] /\ v1[3] = v2[3] => v1[4] = v2[4]

(* The two together hold of proposers that open every ballot once.         *)
BallotsAgree == OneValuePerBallot /\ ChosenUnique

HasTwoValues(i, b) ==
    \E v, w \in Value :
        v # w /\ VotersFor(i, b, v) # {} /\ VotersFor(i, b, w) # {}

(* The acceptor of the node that owns ballot b has promised or accepted a  *)
(* higher ballot of another node.                                          *)
Overtaken(i, b) ==
    \/ \E p \in promises :
           p[1] = b[2] /\ p[2] = i /\ p[3][2] # b[2] /\ BallotGE(p[3], b)
    \/ \E vt \in votes :
           vt[1] = b[2] /\ vt[2] = i /\ vt[3][2] # b[2] /\ BallotGE(vt[3], b)

(* What Proposer and Acceptor owe one another across the ballots of an     *)
(* instance: a second value is chosen only after one ballot has had two,   *)
(* and a ballot has two only if its owner's own acceptor had gone over to  *)
(* another's when OnAcceptTimeout prepared it once more (proposer.cpp:510  *)
(* asks for a new ballot only after a reject).                             *)
VotesAgree ==
    \A i \in Instance :
        /\ \A b \in BallotsOf(i) : HasTwoValues(i, b) => Overtaken(i, b)
        /\ Cardinality(ChosenValues(i)) > 1
              => \E b \in BallotsOf(i) : HasTwoValues(i, b)

(* An acceptor that has promised a ballot in an instance does not vote in  *)
(* a lower ballot of that instance or a later one, which is the ground on  *)
(* which Proposer::NewValue skips the prepare phase.  For nodes that do    *)
(* not restart: LearnerState::LearnValue lowers the promise in the log.    *)
PromiseHonoured ==
    [][\A vt \in votes' \ votes : \A p \in promises :
          p[1] = vt[1] /\ p[2] <= vt[2] => BallotGE(vt[3], p[3])]_vars

(* In an instance it has not executed, an acceptor that has promised a     *)
(* ballot does not vote in a lower one, not even after crashes and failed  *)
(* log writes (Acceptor::OnPrepare replies after Persist, Acceptor::Init   *)
(* loads what was persisted).                                              *)
Executed(n, i) == \E v \in ValueOrNone : <<n, i, v>> \in decided

PromiseDurable ==
    [][\A vt \in votes' \ votes : \A p \in promises :
          p[1] = vt[1] /\ p[2] = vt[2] /\ ~Executed(p[1], p[2])
            => BallotGE(vt[3], p[3])]_vars

(* The group implements a replicated log: a value is chosen by the votes   *)
(* of a majority, and learned when it reaches the state machine.           *)
RL == INSTANCE ReplicatedLog WITH
        chosen <- [i \in Instance |-> ChosenValues(i)],
        learned <- decided

ImplementsReplicatedLog == RL!Spec
=============================================================================
