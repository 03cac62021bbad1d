---------------------------- MODULE StateMachines ---------------------------
(***************************************************************************)
(* The state machines PhxPaxos itself puts into a group, master election   *)
(* and membership, at all the nodes, with what drives them: the MasterMgr  *)
(* thread and the calls that change the membership propose values, each    *)
(* node executes the decided values in their order, nodes that lag get     *)
(* both machines' checkpoints with SendNowInstanceID, nodes crash, and     *)
(* clocks run.                                                             *)
(*                                                                         *)
(* The choice of the values is the environment, as PaxosGroup and          *)
(* ReplicatedLog have it: of the values offered for the next instance one  *)
(* is decided.  Instances count from 0: log[i + 1] is the value of i.      *)
(***************************************************************************)
EXTENDS MasterLease, Membership, Sequences, FiniteSets

CONSTANTS
    Change,       \* bound: the changes that are called for, each once
    Candidates,   \* the nodes that run a MasterMgr
    Starters,     \* bound: those that try before the first instance
    Senders,      \* bound: nodes that send checkpoints
    Lagging,      \* bound: nodes that are sent them
    Late,         \* bound: nodes whose clock may be late
    Faulty,       \* bound: nodes that crash and whose commits fail
    Gap,          \* instances a node must lag to be sent checkpoints, 50
    MaxRetries,   \* iRetryCount of Committer::NewValueGetID, 3
    MaxLog,       \* bound: instances
    MaxRequests,  \* bound: tries to be master and calls to change members
    MaxFaults,    \* bound: crashes, timeouts and failures
    MaxSends,     \* bound: checkpoints sent
    MaxLag        \* ticks a clock is late, within the Margin

(* The values that are proposed, of the two machines.                      *)
MasterOp == [sm : {"master"}, node : Node, version : Int, lastVersion : Int,
             sid : Int]
SystemOp == [sm : {"system"}, gid : Node, version : Int,
             members : SUBSET Node]
Value == MasterOp \cup SystemOp

(* None is no try and no commit.                                           *)
ASSUME ControlAssumption ==
    /\ Change \subseteq
          [at : Node, type : {"add", "remove"}, node : Node]
            \cup [at : Node, type : {"change"}, node : Node, to : Node]
    /\ Candidates \cup Senders \cup Lagging \cup Faulty \subseteq Node
    /\ MaxLag \in Nat
    /\ None \notin [op : MasterOp, left : Nat]
                     \cup [by : {"mgr", "admin"}, value : Value]

VARIABLES
    log,       \* the decided values
    offered,   \* values that may be decided in the next instance
    executed,  \* instances a node has executed
    try,       \* the value of a node's MasterMgr, with the lease left, or None
    admin,     \* the call to change the membership at a node, or None
    commit,    \* CommitCtx: whose value, and the value, or None
    sent,      \* SendNowInstanceID messages, which may be doubled or lost
    changed,   \* history: <<change, instance>> of calls that returned 0
    asked,     \* history: the changes called for
    requests, faults, lag   \* history: how many so far

ctlVars == <<log, offered, executed, try, admin, commit, sent, changed, asked,
             requests, faults, lag>>
vars == <<masterVars, memberVars, ctlVars>>

Init ==
    /\ MasterInit
    /\ MemberInit
    /\ log = <<>>
    /\ offered = {}
    /\ executed = [n \in Node |-> 0]
    /\ try = [n \in Node |-> None]
    /\ admin = [n \in Node |-> None]
    /\ commit = [n \in Node |-> None]
    /\ sent = {}
    /\ changed = {}
    /\ asked = {}
    /\ requests = 0 /\ faults = 0 /\ lag = 0
-----------------------------------------------------------------------------
(* What the log says, whoever executes it: the versions and the members    *)
(* after its first k values.                                               *)

MasterAfter(k) ==
    LET at[i \in 0 .. k] ==
          IF i = 0 THEN [master |-> None, version |-> NoVersion]
          ELSE IF /\ log[i].sm = "master"
                  /\ log[i].version = at[i - 1].version
               THEN [master |-> log[i].node, version |-> i - 1]
               ELSE at[i - 1]
    IN  at[k]

MembersAfter(k) ==
    LET at[i \in 0 .. k] ==
          IF i = 0
          THEN [gid |-> None, version |-> NoSysVersion, members |-> Founders]
          ELSE IF /\ log[i].sm = "system"
                  /\ log[i].version = at[i - 1].version
               THEN [gid |-> log[i].gid, version |-> i - 1,
                     members |-> log[i].members]
               ELSE at[i - 1]
    IN  at[k]
-----------------------------------------------------------------------------
(* MasterMgr::TryBeMaster: reads the version, makes the value and the end  *)
(* of the lease, and calls Propose.  Values that are under way differ in   *)
(* their sid.  (Tries before the first instance, which go to the gid, are  *)
(* not counted.)                                                           *)
TryBeMaster(n) ==
    /\ try[n] = None
    /\ requests < MaxRequests
    /\ executed[n] = 0 => n \in Starters
    /\ MayTryBeMaster(n)
    /\ try' = [try EXCEPT ![n] = [op   |-> MakeOpValue(n, requests + faults),
                                  left |-> OwnLease]]
    /\ requests' = IF executed[n] = 0 THEN requests ELSE requests + 1
    /\ UNCHANGED <<masterVars, memberVars, log, offered, executed, admin,
                   commit, sent, changed, asked, faults, lag>>

(* AddMember, RemoveMember or ChangeMember, with a gid: GetMembership      *)
(* reads the version first and the nodes later, without a lock.  (Nodes    *)
(* read while they are written go with an old version.)                    *)
ReadVersion(n, c) ==
    /\ admin[n] = None
    /\ c \notin asked
    /\ requests < MaxRequests
    /\ gid[n] # None
    /\ admin' = [admin EXCEPT ![n] = [change  |-> c,
                                      version |-> sysVersion[n],
                                      op      |-> None,
                                      retries |-> 0]]
    /\ asked' = asked \cup {c}
    /\ requests' = requests + 1
    /\ UNCHANGED <<masterVars, memberVars, log, offered, executed, try, commit,
                   sent, changed, faults, lag>>

ReadMembers(n) ==
    /\ admin[n] # None /\ admin[n].op = None
    /\ LET list == NewMembers(admin[n].change, members[n])
       IN  admin' = [admin EXCEPT ![n] =
                       IF list = None THEN None
                       ELSE [@ EXCEPT !.op =
                               MembershipOpValue(n, admin[n].version, list)]]
    /\ UNCHANGED <<masterVars, memberVars, log, offered, executed, try, commit,
                   sent, changed, asked, requests, faults, lag>>

Waiting(n) ==
    {by \in {"mgr", "admin"} :
        IF by = "mgr" THEN try[n] # None
        ELSE admin[n] # None /\ admin[n].op # None}

(* A call returns.                                                         *)
Return(n, by) ==
    /\ try' = IF by = "mgr" THEN [try EXCEPT ![n] = None] ELSE try
    /\ admin' = IF by = "admin" THEN [admin EXCEPT ![n] = None] ELSE admin

(* CheckNewValue: the first instance, and the first value of a group       *)
(* without a gid, is to make the gid.                                      *)
Offer(n, v) == offered' = IF executed[n] = Len(log) THEN offered \cup {v}
                          ELSE offered

(* SMFac::BeforePropose: only the master's state machine has a hook.       *)
ProposedBy(n, by) ==
    IF by = "mgr" THEN BeforePropose(n, try[n].op) ELSE admin[n].op

CheckNewValue(n, by) ==
    /\ commit[n] = None
    /\ by \in Waiting(n)
    /\ IF ~CheckConfig(n)
         THEN /\ Return(n, by)
              /\ UNCHANGED <<commit, offered>>
         ELSE LET own == IF by = "admin" THEN admin[n].op ELSE try[n].op
                  new == executed[n] = 0 \/ gid[n] = None
                  val == IF new THEN own ELSE ProposedBy(n, by)
              IN  /\ commit' = [commit EXCEPT ![n] =
                                   [by |-> by, value |-> val]]
                  /\ Offer(n, IF new THEN CreateGidOpValue(n) ELSE val)
                  /\ UNCHANGED <<try, admin>>
    /\ UNCHANGED <<masterVars, memberVars, log, executed, sent, changed, asked,
                   requests, faults, lag>>

Decide(v) ==
    /\ Len(log) < MaxLog
    /\ log' = Append(log, v)
    /\ offered' = {}
    /\ UNCHANGED <<masterVars, memberVars, executed, try, admin, commit, sent,
                   changed, asked, requests, faults, lag>>
-----------------------------------------------------------------------------
(* The next decided value is executed and ends the commit of its instance: *)
(* with the caller's context if it is the caller's value.  The committer   *)
(* tries a value that has lost once more, unless it is the MasterMgr's.    *)
EndCommit(n, by, isMine, accepted) ==
    IF by = "mgr" \/ isMine
    THEN /\ Return(n, by)
         /\ changed' = IF by = "admin" /\ accepted
                       THEN changed \cup {<<admin[n].change, executed[n]>>}
                       ELSE changed
    ELSE /\ IF admin[n].retries < MaxRetries
              THEN /\ admin' = [admin EXCEPT ![n].retries = @ + 1]
                   /\ UNCHANGED try
              ELSE Return(n, by)
         /\ UNCHANGED changed

ExecuteNext(n) ==
    /\ executed[n] < Len(log)
    /\ LET v == log[executed[n] + 1]
           isMine == commit[n] # None /\ commit[n].value = v
       IN  /\ IF v.sm = "master"
                THEN /\ LearnMaster(n, v, executed[n],
                                    IF isMine THEN try[n].left ELSE 0)
                     /\ UNCHANGED memberVars
                ELSE /\ ExecuteChange(n, v, executed[n])
                     /\ UNCHANGED masterVars
           /\ IF commit[n] = None THEN UNCHANGED <<try, admin, changed>>
              ELSE EndCommit(n, commit[n].by, isMine,
                             v.sm = "system" /\ Accepts(n, v))
    /\ executed' = [executed EXCEPT ![n] = @ + 1]
    /\ commit' = [commit EXCEPT ![n] = None]
    /\ UNCHANGED <<log, offered, sent, asked, requests, faults, lag>>

(* The commit times out, or its value could not be written to the store    *)
(* when it was executed and will be once more: without its context.        *)
CommitFails(n) ==
    /\ commit[n] # None
    /\ faults < MaxFaults
    /\ faults' = faults + 1
    /\ Return(n, commit[n].by)
    /\ commit' = [commit EXCEPT ![n] = None]
    /\ UNCHANGED <<masterVars, memberVars, log, offered, executed, sent,
                   changed, asked, requests, lag>>

(* A crash: PlayLog executes again what follows the checkpoint of the      *)
(* other state machines, wherever that is.                                 *)
Restart(n, from) ==
    /\ faults < MaxFaults
    /\ faults' = faults + 1
    /\ RestartMaster(n)
    /\ executed' = [executed EXCEPT ![n] = from]
    /\ try' = [try EXCEPT ![n] = None]
    /\ admin' = [admin EXCEPT ![n] = None]
    /\ commit' = [commit EXCEPT ![n] = None]
    /\ UNCHANGED <<memberVars, log, offered, sent, changed, asked,
                   requests, lag>>

(* SendNowInstanceID to a node that has asked, some time ago.              *)
SendNowInstanceID(n, to) ==
    /\ executed[n] > Gap
    /\ Cardinality(sent) < MaxSends
    /\ sent' = sent \cup {[to     |-> to,
                           system |-> SystemCheckpoint(n),
                           master |-> GetCheckpointBuffer(n)]}
    /\ UNCHANGED <<masterVars, memberVars, log, offered, executed, try, admin,
                   commit, changed, asked, requests, faults, lag>>

(* What is left of the message when the members have changed is skipped.   *)
OnSendNowInstanceID(m) ==
    /\ IF ChangedByCheckpoint(m.to, m.system)
         THEN UpdateSystemVariables(m.to, m.system) /\ UNCHANGED masterVars
         ELSE UpdateByCheckpoint(m.to, m.master) /\ UNCHANGED memberVars
    /\ UNCHANGED ctlVars

(* A tick of all the clocks but those of the nodes late.                   *)
Tick(late) ==
    /\ late # {} => lag < MaxLag
    /\ lag' = IF late = {} THEN lag ELSE lag + 1
    /\ LeaseTick(Node \ late)
    /\ try' = [n \in Node |->
                 IF try[n] # None /\ n \notin late /\ try[n].left > 0
                 THEN [try[n] EXCEPT !.left = @ - 1] ELSE try[n]]
    /\ UNCHANGED <<memberVars, log, offered, executed, admin, commit, sent,
                   changed, asked, requests, faults>>

Next ==
    \/ \E n \in Candidates : TryBeMaster(n)
    \/ \E c \in Change : ReadVersion(c.at, c)
    \/ \E n \in Node :
          \/ ReadMembers(n)
          \/ \E by \in {"mgr", "admin"} : CheckNewValue(n, by)
          \/ ExecuteNext(n)
    \/ \E n \in Faulty :
          \/ CommitFails(n)
          \/ \E from \in 0 .. executed[n] : Restart(n, from)
    \/ \E n \in Senders, to \in Lagging : n # to /\ SendNowInstanceID(n, to)
    \/ \E m \in sent : OnSendNowInstanceID(m)
    \/ \E v \in offered : Decide(v)
    \/ \E late \in {{}} \cup {{n} : n \in Late} : Tick(late)

Spec == Init /\ [][Next]_vars
-----------------------------------------------------------------------------
(* Properties.                                                             *)

(* The types of the variables.                                             *)
TypeOK ==
    /\ master \in [Node -> Node \cup {None}]
    /\ \A n \in Node :
          /\ version[n] \in NoVersion .. Len(log) - 1
          /\ sysVersion[n] \in NoSysVersion .. Len(log) - 1
          /\ remains[n] \in 0 .. Lease /\ leaseTime[n] \in {0, Lease}
          /\ saved[n].version = version[n]
          /\ executed[n] \in 0 .. Len(log)
          /\ try[n] # None => try[n].left \in 0 .. OwnLease
          /\ commit[n] # None => commit[n].by \in Waiting(n)
    /\ gid \in [Node -> Node \cup {None}]
    /\ members \in [Node -> SUBSET Node]

(* A node that has restarted, or has its master from a checkpoint, gives   *)
(* others the lease of n's election, or of a later one of n's that n has   *)
(* not executed yet, with the length 0: GetCheckpointBuffer sends          *)
(* m_iLeaseTime, which only LearnMaster sets.                              *)
Disowned(n) ==
    \E m \in sent : /\ m.master # None /\ m.master.lease = 0
                     /\ m.master.master = n /\ m.master.version >= version[n]

(* MasterStateMachine and MasterMgr: no two nodes hold themselves to be    *)
(* the master at one time, although each counts the lease by its own       *)
(* clock, from another moment, nodes restart and some take the master from *)
(* others.  One thing breaks it, against README.md:393 (of the program):   *)
(* whoever takes a lease of 0 may be elected while the master, who has not *)
(* heard of it, still counts its own.                                      *)
OneMaster ==
    \A m, n \in Node :
        IsIMMaster(m) /\ IsIMMaster(n) => m = n \/ Disowned(m) \/ Disowned(n)

Latest(k, v) == IF k > v THEN k ELSE v + 1

(* LearnMaster, Init and UpdateByCheckpoint: a node's version is the one   *)
(* the log gives, as far as the node has executed it or, after a           *)
(* checkpoint or a restart, has the variables of later values; the node    *)
(* has the master of that version or, if it lost its memory or heard from  *)
(* one that did, none.                                                     *)
MasterIsLog ==
    \A n \in Node :
        LET now == MasterAfter(Latest(executed[n], version[n]))
        IN  version[n] = now.version /\ master[n] \in {now.master, None}

(* SystemVSM::Execute and UpdateByCheckpoint: the same of the members, so  *)
(* that nodes with one version have one gid and one majority.              *)
MembersAreLog ==
    \A n \in Node :
        [gid |-> gid[n], version |-> sysVersion[n], members |-> members[n]]
            = MembersAfter(Latest(executed[n], sysVersion[n]))

(* The variables of both state machines, saved or in memory, executed here *)
(* or taken from another node, are those of one place in the log each.     *)
VariablesAreLog == TypeOK /\ MasterIsLog /\ MembersAreLog

(* PNode::AddMember, RemoveMember and ChangeMember, GetMembership and the  *)
(* version check: a call that returns 0 has changed the members the group  *)
(* had just before, whatever other calls at whatever node were under way.  *)
NoLostChange ==
    \A c \in changed :
        MembersAfter(c[2] + 1).members =
            NewMembers(c[1], MembersAfter(c[2]).members)
=============================================================================
