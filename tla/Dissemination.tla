---------------------------- MODULE Dissemination ---------------------------
(***************************************************************************)
(* Who hears what in a group: Instance's checks of the messages it gets,   *)
(* and the nodes a message goes to.  Members propose and vote; a node that *)
(* is not in the sender's membership is remembered as a temporary node and *)
(* asked for values; a newcomer has no gid and no members, and gets both   *)
(* from the log or with SendNowInstanceID; a follower asks everybody and   *)
(* is sent what the node it follows learns.  Each value carries the        *)
(* checksum of all before it.                                              *)
(*                                                                         *)
(* A round of Paxos, prepare and accept, is one step here (PaxosGroup has  *)
(* its messages), as is the transfer a confirmed ask starts (LearnerSync), *)
(* whose values still arrive late, in any order or not at all.             *)
(***************************************************************************)
EXTENDS Membership, Sequences, FiniteSets

CONSTANTS
    Newcomer,      \* nodes configured with no other nodes
    FollowTo,      \* what every node may be configured to follow, or nobody
    Change,        \* the changes of the membership that are proposed
    RestartNodes,  \* bound: nodes that crash
    Gap,           \* instances a node must lag to be sent the members, 50
    MaxLog,        \* bound: instances
    MaxRounds,     \* bound: rounds of Paxos
    MaxFaults      \* bound: crashes, losses, and entries that run out

ASSUME DisseminationAssumption ==
    /\ Newcomer \subseteq Node \ Founders
    /\ FollowTo \subseteq [Node -> Node \cup {None}]
    /\ RestartNodes \subseteq Node
    /\ {Gap, MaxLog, MaxRounds, MaxFaults} \subseteq Nat

VARIABLES
    followTo,      \* m_iFollowToNodeID, None if no follower
    log,           \* the records of the instances a node has executed
    accepted,      \* the record of its running instance, or None
    lastChecksum,  \* m_iLastChecksum
    seen,          \* m_llHighestSeenInstanceID
    tmpNode,       \* keys of m_mapTmpNodeOnlyForLearn
    follower,      \* keys of m_mapMyFollower
    msgs,          \* messages of the Learner on their way
    chosen,        \* the rounds a majority has accepted: success messages
    round,         \* history: rounds so far, the ballot of the last
    heard,         \* history: nodes without a gid that were sent an accept
    lapsed,        \* history: nodes that have lost a temporary node
    early,         \* history: instances a node has proposed in with members
                   \* that were not yet those of the instance
    faults         \* history: crashes, losses and entries run out

recordVars == <<log, accepted, lastChecksum>>
routeVars  == <<seen, tmpNode, follower>>
historyVars == <<round, heard, lapsed, early, faults>>
vars == <<memberVars, followTo, recordVars, routeVars, msgs, chosen, historyVars>>

Instance(n) == Len(log[n])   \* m_llInstanceID

(* Config::Init: every node has the founders, a newcomer has nobody.       *)
ConfigInit ==
    /\ gid = [n \in Node |-> None]
    /\ sysVersion = [n \in Node |-> NoSysVersion]
    /\ members = [n \in Node |-> IF n \in Newcomer THEN {} ELSE Founders]

Init ==
    /\ ConfigInit
    /\ followTo \in FollowTo
    /\ log = [n \in Node |-> <<>>]
    /\ accepted = [n \in Node |-> None]
    /\ lastChecksum = [n \in Node |-> <<>>]
    /\ seen = [n \in Node |-> 0]
    /\ tmpNode = [n \in Node |-> {}]
    /\ follower = [n \in Node |-> {}]
    /\ msgs = {}
    /\ chosen = {}
    /\ round = 0 /\ heard = {} /\ lapsed = {} /\ early = {} /\ faults = 0
-----------------------------------------------------------------------------
(* Checksums.  crc32 of a value over the checksum before it stands for the *)
(* sequence of values it is taken of; <<>> is 0, which from instance 1 on  *)
(* means that the checksum is not known.                                   *)

Unknown(i, sum) == i > 0 /\ sum = <<>>

(* AcceptorState::Persist and LearnerState::LearnValue.                    *)
NewChecksum(i, last, v) ==
    IF Unknown(i, last) THEN <<>> ELSE Append(last, v)

(* Mutant of AfterChecksumLogic: the instance is not compared.             *)
AdoptAnyChecksum(n, inst, last) ==
    IF last # <<>> /\ Unknown(Instance(n), lastChecksum[n])
    THEN last ELSE lastChecksum[n]

(* Instance::ChecksumLogic: what n has after a message of instance inst.   *)
AfterChecksumLogic(n, inst, last) ==
    IF /\ last # <<>>
       /\ inst = Instance(n)
       /\ Unknown(inst, lastChecksum[n])
    THEN last ELSE lastChecksum[n]
-----------------------------------------------------------------------------
(* Whom a node takes messages from, and of which kind.                     *)

(* Base::PackBaseMsg: what the header of a message of n says.              *)
HeaderGid(n) == gid[n]

(* Instance::ReceiveMsgHeaderCheck of a message of from.                   *)
ReceiveMsgHeaderCheck(n, from) ==
    gid[n] = None \/ HeaderGid(from) \in {None, gid[n]}

(* Config::IsValidNodeID.                                                  *)
IsValidNodeID(n, m) == gid[n] = None \/ m \in members[n]

IsIMFollower(n) == followTo[n] # None

(* Mutant of AddTmpNodeOnlyForLearn: nobody is remembered.                 *)
NoTmpNode(n, m) == tmpNode[n]

(* Config::AddTmpNodeOnlyForLearn.                                         *)
AddTmpNodeOnlyForLearn(n, m) ==
    IF m \in members[n] THEN tmpNode[n] ELSE tmpNode[n] \cup {m}

(* Instance::OnReceivePaxosMsg on a prepare or accept.                     *)
Remembers(n, from) ==
    /\ ReceiveMsgHeaderCheck(n, from)
    /\ gid[n] = None \/ ~IsValidNodeID(n, from)

Takes(n, from) ==
    ReceiveMsgHeaderCheck(n, from) /\ IsValidNodeID(n, from)

(* Instance::ReceiveMsgForAcceptor: n answers a message of from's round.   *)
Answers(n, from) ==
    Takes(n, from) /\ ~IsIMFollower(n) /\ Instance(n) = Instance(from)
-----------------------------------------------------------------------------
(* A round of Paxos.                                                       *)

IsMajority(n, who) == Cardinality(who) > Cardinality(members[n]) \div 2

(* Learner::IsIMLatest.                                                    *)
IsIMLatest(n) == Instance(n) + 1 >= seen[n]

(* What Instance::CheckNewValue may propose: the gid, before there is one; *)
(* else a value, or a change of the members.  (Bound: nobody asks for a    *)
(* follower to be a member.)                                               *)
Lists(n) ==
    {list \in {NewMembers(c, members[n]) : c \in Change} :
        list # None /\ \A m \in list : ~IsIMFollower(m)}

Values(n) ==
    IF Instance(n) = 0 \/ gid[n] = None THEN {CreateGidOpValue(n)}
    ELSE {[sm |-> "user", node |-> n]} \cup
         {MembershipOpValue(n, sysVersion[n], list) : list \in Lists(n)}

(* Prepare makes the value of the highest ballot win.                      *)
ValuesAfterPrepare(n, who) ==
    LET known == {accepted[m] : m \in {x \in who : accepted[x] # None}}
    IN  IF known = {} THEN Values(n)
        ELSE {r.value : r \in {x \in known :
                                  \A y \in known : y.bal <= x.bal}}

Record(n, last, b, v) ==
    [value |-> v, bal |-> b, checksum |-> NewChecksum(Instance(n), last, v)]

(* The nodes in reach are sent n's prepare and accept messages             *)
(* (Communicate::BroadcastMessage goes to the members); of the acceptors   *)
(* that promise, those in voters get the accept.                           *)
Accept(n, promised, b) ==
    \E v \in ValuesAfterPrepare(n, promised), voters \in SUBSET promised :
        /\ n \in voters
        /\ accepted' = [m \in Node |->
              IF m \in voters
              THEN Record(m, AfterChecksumLogic(m, Instance(n),
                                                lastChecksum[n]), b, v)
              ELSE accepted[m]]
        /\ lastChecksum' = [m \in Node |->
              IF m \in voters
              THEN AfterChecksumLogic(m, Instance(n), lastChecksum[n])
              ELSE lastChecksum[m]]
        /\ chosen' = IF IsMajority(n, voters)
                     THEN chosen \cup {[inst |-> Instance(n), bal |-> b,
                                        last |-> lastChecksum[n]]}
                     ELSE chosen

Round(n, reach) ==
    LET promised == {n} \cup {m \in reach : Answers(m, n)}
    IN  /\ IsIMLatest(n)
        /\ ~IsIMFollower(n)
        /\ CheckConfig(n)
        /\ reach \subseteq members[n] \ {n}
        /\ Instance(n) < MaxLog
        /\ round < MaxRounds
        /\ round' = round + 1
        /\ tmpNode' = [m \in Node |->
              IF m \in reach /\ Remembers(m, n)
              THEN AddTmpNodeOnlyForLearn(m, n) ELSE tmpNode[m]]
        /\ heard' = heard \cup {m \in reach : gid[m] = None}
        /\ \/ /\ IsMajority(n, promised)
              /\ Accept(n, promised, round')
              /\ early' = IF sysVersion[n] < Instance(n) THEN early
                          ELSE early \cup {Instance(n)}
           \/ /\ ~IsMajority(n, promised)
              /\ UNCHANGED <<accepted, lastChecksum, chosen, early>>
        /\ UNCHANGED <<memberVars, followTo, log, seen, follower, msgs, lapsed,
                       faults>>
-----------------------------------------------------------------------------
(* The Learner.                                                            *)

(* The learned branch of Instance::ReceiveMsgForLearner.                   *)
Learn(n, r) ==
    /\ log' = [log EXCEPT ![n] = Append(@, r)]
    /\ accepted' = [accepted EXCEPT ![n] = None]
    /\ lastChecksum' = [lastChecksum EXCEPT ![n] = r.checksum]
    /\ IF r.value.sm = "system"
       THEN ExecuteChange(n, r.value, Instance(n))
       ELSE UNCHANGED memberVars

LearnMsg(from, to, i, v, b, last) ==
    [type |-> "value", from |-> from, to |-> to, inst |-> i, value |-> v,
     bal |-> b, last |-> last]

(* Learner::TransmitToFollower, BroadcastMessageFollower.                  *)
TransmitToFollower(n, last) ==
    {LearnMsg(n, f, Instance(n), accepted[n].value, accepted[n].bal, last) :
        f \in follower[n]}

(* Learner::OnProposerSendSuccess.                                         *)
OnProposerSendSuccess(n) ==
    \E c \in chosen :
        LET last == AfterChecksumLogic(n, c.inst, c.last)
        IN  /\ c.inst = Instance(n)
            /\ accepted[n] # None /\ accepted[n].bal = c.bal
            /\ Learn(n, accepted[n])
            /\ msgs' = msgs \cup TransmitToFollower(n, last)
            /\ UNCHANGED <<followTo, routeVars, chosen, historyVars>>

(* Learner::SetSeenInstanceID.                                             *)
SetSeenInstanceID(n, i) == IF i > seen[n] THEN i ELSE seen[n]

(* Learner::SendNowInstanceID, the answer to a node that lags.             *)
NowInstanceID(h, n) ==
    [type |-> "now", from |-> h, to |-> n, inst |-> Instance(n),
     now |-> Instance(h),
     vars |-> IF Instance(h) - Instance(n) > Gap
              THEN SystemCheckpoint(h) ELSE None]

(* Learner::AskforLearn goes to the members and to the temporary nodes.    *)
AskTargets(n) == (members[n] \cup tmpNode[n]) \ {n}

(* Learner::AskforLearn, and OnAskforLearn at a node it reaches.           *)
AskforLearn(n, h) ==
    /\ h \in AskTargets(n)
    /\ ReceiveMsgHeaderCheck(h, n)
    /\ ~\E m \in msgs : m.to = n
    /\ seen' = [seen EXCEPT ![h] = SetSeenInstanceID(h, Instance(n))]
    /\ follower' = IF followTo[n] = h
                   THEN [follower EXCEPT ![h] = @ \cup {n}] ELSE follower
    /\ msgs' = IF Instance(n) < Instance(h)
               THEN msgs \cup {NowInstanceID(h, n)} ELSE msgs
    /\ UNCHANGED <<memberVars, followTo, recordVars, tmpNode, chosen,
                   historyVars>>

(* Mutant of SentValues: those after the first.                            *)
LaterValues(h, n) ==
    {LearnMsg(h, n, i - 1, log[h][i].value, log[h][i].bal,
              log[h][i - 1].checksum) : i \in Instance(n) + 2 .. Instance(h)}

(* LearnerSender::SendLearnedValue to a node that has confirmed: the       *)
(* records from its instance on, each with the checksum of the last one.   *)
SentValues(h, n) ==
    {LearnMsg(h, n, i - 1, log[h][i].value, log[h][i].bal,
              IF i = Instance(n) + 1 THEN <<>> ELSE log[h][i - 1].checksum) :
        i \in Instance(n) + 1 .. Instance(h)}

(* Learner::OnSendNowInstanceID: new members end the handling.             *)
OnSendNowInstanceID(n) ==
    \E m \in msgs :
        /\ m.type = "now" /\ m.to = n
        /\ seen' = [seen EXCEPT ![n] = SetSeenInstanceID(n, m.now)]
        /\ IF ChangedByCheckpoint(n, m.vars)
           THEN /\ UpdateSystemVariables(n, m.vars)
                /\ msgs' = msgs \ {m}
           ELSE /\ msgs' = (msgs \ {m}) \cup
                           (IF m.inst = Instance(n) /\ m.now > Instance(n)
                            THEN SentValues(m.from, n) ELSE {})
                /\ UNCHANGED memberVars
        /\ UNCHANGED <<followTo, recordVars, tmpNode, follower, chosen,
                       historyVars>>

(* Learner::OnSendLearnValue.                                              *)
OnSendLearnValue(n) ==
    \E m \in msgs :
        LET last == AfterChecksumLogic(n, m.inst, m.last)
        IN  /\ m.type = "value" /\ m.to = n
            /\ msgs' = msgs \ {m}
            /\ \/ /\ m.inst = Instance(n)
                  /\ Learn(n, Record(n, last, m.bal, m.value))
               \/ /\ m.inst # Instance(n)
                  /\ lastChecksum' = [lastChecksum EXCEPT ![n] = last]
                  /\ UNCHANGED <<memberVars, log, accepted>>
            /\ UNCHANGED <<followTo, routeVars, chosen, historyVars>>
-----------------------------------------------------------------------------
Fault == faults < MaxFaults /\ faults' = faults + 1

(* A message that is lost, a confirmed ask or its values among them.       *)
Lose ==
    \E m \in msgs :
        /\ Fault
        /\ msgs' = msgs \ {m}
        /\ UNCHANGED <<memberVars, followTo, recordVars, routeVars, chosen,
                       round, heard, lapsed, early>>

(* Config::GetTmpNodeMap and GetMyFollowerMap leave out what has run out.  *)
TmpNodeTimeout(n) ==
    \E m \in tmpNode[n] :
        /\ Fault
        /\ tmpNode' = [tmpNode EXCEPT ![n] = @ \ {m}]
        /\ lapsed' = lapsed \cup {n}
        /\ UNCHANGED <<memberVars, followTo, recordVars, seen, follower, msgs,
                       chosen, round, heard, early>>

FollowerTimeout(n) ==
    \E f \in follower[n] :
        /\ Fault
        /\ follower' = [follower EXCEPT ![n] = @ \ {f}]
        /\ UNCHANGED <<memberVars, followTo, recordVars, seen, tmpNode, msgs,
                       chosen, round, heard, lapsed, early>>

(* A crash and Instance::Init: the running instance is the last one with a *)
(* record, and InitLastCheckSum reads the record before it, which the      *)
(* cleaner may have deleted.  The members are those written last.          *)
InitLastCheckSum(n, records) ==
    {<<>>} \cup {records[i].checksum : i \in {Len(records)} \ {0}}

Restart(n) ==
    LET last == IF log[n] = <<>> THEN None ELSE log[n][Len(log[n])]
    IN  /\ n \in RestartNodes
        /\ Fault
        /\ \/ UNCHANGED <<log, accepted>>
           \/ /\ accepted[n] = None /\ log[n] # <<>>
              /\ log' = [log EXCEPT ![n] = SubSeq(@, 1, Len(@) - 1)]
              /\ accepted' = [accepted EXCEPT ![n] = last]
        /\ \E sum \in InitLastCheckSum(n, log'[n]) :
              lastChecksum' = [lastChecksum EXCEPT ![n] = sum]
        /\ seen' = [seen EXCEPT ![n] = 0]
        /\ tmpNode' = [tmpNode EXCEPT ![n] = {}]
        /\ follower' = [follower EXCEPT ![n] = {}]
        /\ UNCHANGED <<memberVars, followTo, msgs, chosen, round, heard, lapsed,
                       early>>
-----------------------------------------------------------------------------
Next ==
    \/ Lose
    \/ \E n \in Node :
           \/ \E reach \in SUBSET Node : Round(n, reach)
           \/ \E h \in Node : AskforLearn(n, h)
           \/ OnProposerSendSuccess(n)
           \/ OnSendNowInstanceID(n)
           \/ OnSendLearnValue(n)
           \/ TmpNodeTimeout(n)
           \/ FollowerTimeout(n)
           \/ Restart(n)

Spec == Init /\ [][Next]_vars

(* The timer of AskforLearn_Noop runs on every node, now and then all the  *)
(* nodes it asks are in reach, and a node handles what has arrived.        *)
LiveSpec ==
    /\ Spec
    /\ \A n \in Node :
          /\ \A h \in Node \ {n} : WF_vars(AskforLearn(n, h))
          /\ WF_vars(OnSendNowInstanceID(n) \/ OnSendLearnValue(n))
-----------------------------------------------------------------------------
(* Properties.                                                             *)

Instances == 0 .. MaxLog
AllValues ==
    [sm : {"user"}, node : Node] \cup
    [sm : {"system"}, gid : Node, version : Instances \cup {NoSysVersion},
     members : SUBSET Node]
Records == [value : AllValues, bal : 1 .. MaxRounds, checksum : Seq(AllValues)]

(* Every variable keeps its type, no node is its own temporary node or     *)
(* follower, and a node has a gid exactly when it has a version, as        *)
(* SystemVSM::GetCheckpointBuffer takes for granted.                       *)
TypeOK ==
    /\ \A n \in Node : /\ Instance(n) \in Instances
                       /\ \A i \in DOMAIN log[n] : log[n][i] \in Records
                       /\ accepted[n] \in Records \cup {None}
                       /\ lastChecksum[n] \in Seq(AllValues)
                       /\ n \notin tmpNode[n] \cup follower[n]
                       /\ gid[n] = None <=> sysVersion[n] = NoSysVersion
    /\ seen \in [Node -> Instances]
    /\ gid \in [Node -> Node \cup {None}]
    /\ members \in [Node -> SUBSET Node]

(* No two nodes, members, newcomers or followers, execute different values *)
(* in an instance, although they learn the members at different times, old *)
(* and new members may have no node in common, and some have the members   *)
(* of a later instance (Learner::OnSendNowInstanceID).  One thing breaks   *)
(* it: a node that has taken later members proposes in an instance they    *)
(* are not for, when it is one behind (IsIMLatest) or has restarted and    *)
(* forgotten what it has seen.  From that instance on nothing is said.     *)
SameOrder ==
    \A m, n \in Node : \A i \in DOMAIN log[m] \cap DOMAIN log[n] :
        early \cap 0 .. i - 1 = {} => log[m][i].value = log[n][i].value

(* A checksum is that of the values executed, or not known: the assertion  *)
(* of Instance::ChecksumLogic holds for all that share an instance.        *)
ChecksumsAgree ==
    \A n \in Node :
        LET done == [i \in DOMAIN log[n] |-> log[n][i].value]
        IN  /\ lastChecksum[n] \in {<<>>, done}
            /\ \A i \in DOMAIN log[n] :
                  log[n][i].checksum \in {<<>>, SubSeq(done, 1, i)}

(* What a node keeps of the group and of its history.  Where two values    *)
(* are chosen for an instance the checksums do not agree either.           *)
NodeInv == TypeOK /\ (early = {} => ChecksumsAgree)

(* A node that is told of the group by an accept of a member it does not   *)
(* know learns what the founders have, if the entry of that member lasts.  *)
(* Behind looks at the founders that are members still: others that are    *)
(* ahead need not be known of before the group chooses something more.     *)
Behind(n) ==
    \E m \in Founders : m \in members[m] /\ Instance(m) > Instance(n)

NewcomerLearns ==
    \A n \in Newcomer : []<>(n \in heard => ~Behind(n) \/ n \in lapsed)

(* A follower gets level with the founders of the group.                   *)
FollowerLearns ==
    \A n \in {m \in Node : \E c \in FollowTo : c[m] # None} :
        []<>(IsIMFollower(n) => ~Behind(n))
=============================================================================
