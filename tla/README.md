# PhxPaxos in TLA+

TLA+ modules, model-checking runs and machine-checked proofs for PhxPaxos, a
library that replicates state machines with Multi-Paxos. File and line numbers
refer to the repository; `algorithm/` and the like are short for
`src/src/algorithm/`.

## 1. Inventory

A process holds one *node*; a node holds several independent *paxos groups*,
each with its own IOLoop thread. In a group:

| component | state | operations | what makes it correct |
|---|---|---|---|
| Proposer (`algorithm/proposer.cpp`, `msg_counter.cpp`) | proposal id, highest id seen, value, best accepted ballot reported, the phase and its timer, the flags "skip prepare" and "was rejected", the repliers | NewValue, Prepare, Accept, replies (on time or expired), two timeouts, InitForNewPaxosInstance | proposes the value an earlier ballot may have chosen; one value per ballot; may skip prepare only on promises that hold |
| Acceptor (`algorithm/acceptor.cpp`) | promised ballot, accepted ballot and value, its record in the log | OnPrepare, OnAccept, Init | keeps promises through crashes and failed writes |
| Learner (`algorithm/learner.cpp`) | instance id, what is seen of the others, the noop timer | OnProposerSendSuccess, OnSendLearnValue, AskforLearn and the handshake after it | learns only what is chosen; a lagging node catches up |
| LearnerSender (`algorithm/learner_sender.cpp`) | a thread: sending / confirmed flags, begin instance, acks | Prepare, Comfirm, Ack, SendLearnedValue | one receiver at a time; never blocked for ever |
| Instance (`algorithm/instance.cpp`, `base.cpp`) | commit timer, checksum | dispatch by message type and instance id, CheckNewValue, NewInstance, Init and PlayLog | the three roles move to the next instance together |
| Commit path (`algorithm/committer.cpp`, `commitctx.cpp`, `utils/wait_lock.cpp`) | the commit in flight, its result, the waiters | NewValueGetID, NewCommit, StartCommit, SetResult, GetResult, Lock, UnLock | the result belongs to the caller's value; one commit at a time; nobody waits for ever |
| IOLoop (`algorithm/ioloop.cpp`, `utils/timer.cpp`) | message queue, retry queue, timers | AddMessage, AddNotify, AddRetryPaxosMsg, OneLoop, timers | one handler at a time; the queue stays within its limits |
| Log (`logstorage/`) | value files, an index in LevelDB, the least chosen instance, system and master variables | Put, Get, Del, Init with RebuildIndex, ClearAllLog, SetMinChosenInstanceID, SetSystemVariables, SetMasterVariables | what was written with sync is there after a crash; the log opens again |
| Checkpoint (`checkpoint/`, `algorithm/checkpoint_*.cpp`) | least chosen instance, replayer and cleaner threads, a transfer in sequence | DeleteOne, PlayOne, Pause, Continue, SendCheckpoint, ReceiveCheckpoint, Finish | never deletes what a state machine still needs; a transfer is whole or not at all; a sender ends |
| Membership (`config/`) | group id, member set, version, temporary nodes, followers | AddMember, RemoveMember, ChangeMember as values of a state machine | concurrent changes do not overwrite one another; a newcomer and a follower learn |
| Master (`master/`) | master, version, lease end | TryBeMaster, LearnMaster, Execute | at most one node believes itself master |
| State machine factory (`sm-base/`) | the state machines | Execute, BatchExecute, PackPaxosValue, BeforePropose, checkpoints of all | a value is executed by its state machine, once, and its caller gets the result |
| Propose batch (`node/propose_batch.cpp`) | a queue of proposals, a thread | Propose, Run, DoPropose, Stop | every caller is woken with the result of its own value |
| Communication (`communicate/`, `communicate/tcp/`) | sockets, events, send queues, timers | Send, AddMessage, OnRead, OnWrite, OnError, OneLoop | a frame arrives whole or not at all; a queue does not stop |
| Sample phxkv (`sample/phxkv/`) | keys with versions, a checkpoint record | Put, Get, Delete, Execute, Init | the store is what the decided operations make of it |

The rest: the assembly of nodes and groups (`node/`), options, logging,
breakpoints, plugins, utilities, the other samples, benchmarks, tests and tools.

**Interaction.** Clients' threads call Committer, which waits for its turn
(WaitLock), puts the value in CommitCtx and wakes the IOLoop; ProposeBatch has a
thread of its own that calls Committer for many callers at a time, MasterMgr one
that proposes the node as master, and phxkv calls the node from those of its users.
All handlers of the three roles run in the IOLoop thread; they share Instance and
the instance id and call each other directly. A value that is learned goes to the
state machine its id names (SMFac); the members and the master are state
machines of the group, too. Messages between nodes go through the network, whose
writing and reading loops have threads and queues of their own; it loses,
reorders and duplicates. A message a node sends to itself is a function call
inside the send. The log is written inside the handlers. The LearnerSender, the
Replayer, the Cleaner and the CheckpointSender are threads that read the log and
CheckpointMgr beside the IOLoop.

**What is hard.** Promises outlive instances, because the prepare phase is
skipped; a restart, a learned value or a failed write changes what a promise
rests on; timers end a round or a commit whose messages are still in flight;
messages of neighbouring instances meet; learning and proposing race. The log,
the checkpoints, the minimum of the log and the variables are written one after
the other, and a crash comes between any two. Members and the master travel
beside the log and may overtake it. Leases rest on several clocks. The list
with line numbers is `hazards` in `PROJECT.json`.

## 2. Modules

| module | models | 
|---|---|
| `PaxosGroup` | one paxos group: Proposer, Acceptor, Learner, Instance, records of the log, CommitCtx |
| `ReplicatedLog` | what a group promises: one value per instance, chosen and executed in order |
| `CommitPath` | the way of a client's value through one node: Committer, WaitLock, CommitCtx, the part of Instance that starts and ends commits |
| `LearnerSync` | how a node that lags gets values from another: Learner's handshake and the LearnerSender |
| `LogStore` | the log of a group on one disk: value files, meta file, index, variables, crashes of the process and of the machine |
| `LogCleaning` | what a node keeps of its log: Cleaner, Replayer, CheckpointMgr, the start of an Instance |
| `CheckpointTransfer` | with it: a node that lags too far pulls a checkpoint from another |
| `KVStore` | phxkv: the store, its state machine, what a user is told |
| `ProposeBatch` | the queue, the batching thread, the callers of BatchPropose |
| `Application` | both over one node: SMFac, batches of values, checkpoints, restarts |
| `GroupNodes` | the nodes of a group, for the modules below |
| `MasterLease`, `Membership` | the state machines of the master and of the members, and what proposes their values |
| `StateMachines` | both over one log of decided values; variables sent beside it |
| `Dissemination` | who hears of a value: acceptors, members, a newcomer, temporary nodes, followers, checksums |
| `TcpNetwork` | sockets and epoll (external) |
| `MessageWriter`, `MessageReader` | the sending loop with its reconnecting, the reading loop with the IOLoop's queue |
| `Messaging` | both ends of a connection |
| `MC...` | instances for TLC; `MCThreeNodes` puts two instances of `PaxosGroup` that differ in their bounds side by side |
| `PaxosGroupProofs` | type correctness, the handlers' assumptions, promises; a ballot has one value, an instance one chosen value; what is executed is chosen, clients are told the truth, the refinement of `ReplicatedLog`; groups of up to four nodes, groups without timers |
| `CommitPathProofs` | the lock, the results, the retries and the contexts of calls |
| `LearnerSyncProofs` | the lead and the session of the LearnerSender |
| `StateMachinesProofs` | the variables beside the log, the members' changes, one master at a time |
| `CheckpointTransferProofs` | the log a node serves and starts from, the blocks of a checkpoint and their order |
| `MessagingProofs` | the agreement of the loops, the frames of a connection, messages handed on once |
| `ApplicationProofs` | the store is the log's, users and callers of BatchPropose are told the truth |

### PaxosGroup

One action per handler. The IOLoop runs one handler at a time, so a handler is
atomic; what a node sends to itself is handled in the same action. There is one
exception: `Proposer::Accept` broadcasts first and runs its own acceptor last
(`BroadcastMessage_Type_RunSelf_Final`), so the node may crash in between. There
the handler is cut in two, at phase `"selfAccept"`; other nodes may act between
the halves, the node itself can only crash (`Free`).

| variable | code |
|---|---|
| `instanceID` | `Base::m_llInstanceID`, which NewInstance advances in the three roles together |
| `promiseBallot`, `acceptedBallot`, `acceptedValue` | `AcceptorState` |
| `paxosLog` | the `AcceptorStateData` stored for each instance, `NoRecord` if none |
| `proposalID`, `highestOther`, `value`, `preAcceptBallot` | `ProposerState` |
| `phase` | `m_bIsPreparing`, `m_bIsAccepting`; the timer of a phase is armed exactly in it |
| `canSkipPrepare`, `wasReject`, `granted` | `Proposer`, `MsgCounter` |
| `commit` | the value of `CommitCtx` after StartCommit |
| `msgs` | messages in flight |
| `proposed`, `promises`, `votes`, `decided`, `results`, `interrupts` | history variables |

`promises` and `votes` record what an acceptor has written and answered, so
"chosen" is defined by votes of a majority and not by what anyone believes.
`decided` records what was given to the state machine, replays included.

Abstractions, all towards more behaviours unless said otherwise:

- a message not handled is lost; one of a later instance waits in `msgs` for
  the instance, which is what the retry queue does as long as it has room;
- timers may fire at any moment. The counts of received and rejecting replies
  only shorten the timers and are left out;
- a lagging node may propose as well: `CheckNewValue` waits for
  `Learner::IsIMLatest`, a guess from what was seen of other nodes;
- any node may send the record of an instance it has passed to one that has
  not: the handshake of the Learners only restricts when;
- a restart finds every write that returned, synced or not: a crash is one of
  the process, not of the machine. (`AcceptorState::Persist` syncs as
  `bSync` and `iSyncInterval` say, `LearnerState::LearnValue` does not sync.);
- fewer behaviours: the set of nodes is fixed, there are no followers, a state
  machine always succeeds, and message and group checks always pass. The first
  value of a group is the client's and not the one that creates the group id.

### ReplicatedLog

An abstract log whose steps choose at most one value, in order, and let nodes
learn chosen values, in order. The mapping takes `chosen[i]` from the votes and
`learned` from `decided`. One step of a group may choose and learn: an acceptor
that takes an accept of the next instance for a success first learns its own.

### CommitPath

The clients' threads and the IOLoop thread of one node, step by step. The
critical sections of WaitLock and of CommitCtx are atomic; taking the lock and
`NewCommit` are one step, because the ended commit that is visible in between
takes no more results. A *call* is a client's value, and values are distinct
(the code compares contents, so two equal values would share a result); an
*attempt* is one of the up to three `NewValueGetIDNoRetry` of a call and stands
for its SMCtx.

| variable | code |
|---|---|
| `pc`, `calls`, `try` | a client's thread: before the lock, waiting for it, about to give it back, in `GetResult` |
| `timed` | whether `Committer::m_iTimeoutMs` has been set |
| `lockUsing`, `waitCount`, `notified` | `WaitLock`, and the threads its condition variable has woken |
| `commitInst`, `commitValue`, `commitCtx`, `commitEnd`, `commitRet` | `CommitCtx` |
| `commitTimer`, `armed` | `Instance::m_iCommitTimerID`, the commit timers in `IOLoop::m_mapTimerIDExist` |
| `held`, `offered`, `learned` | the proposer's value, what it has proposed in the instance, what is learned and not executed |
| `behind` | not `Learner::IsIMLatest` |
| `executed`, `handed`, `returned` | history variables |

The rest of the group is an environment: in every instance it decides for a
value this node has proposed there or for one of another node. Which of them,
and that it is one only, is the business of `PaxosGroup`. When Execute
fails, any later message of the Learner runs the learned branch again
(`ExecuteAgain`). Left out: the random rejections of WaitLock, and that the
master's values are not tried again.

### LearnerSync

Every node has both sides. A node asks all others (`AskforLearn_Noop`, by a
timer); one that is ahead reserves its sender (`OnAskforLearn` with
`LearnerSender::Prepare`) and answers; the asker confirms one of the answers;
the confirmation wakes the sender's thread, which sends value after value and
waits when it is more than the lead in front of the last ack.

| variable | code |
|---|---|
| `instanceID`, `recorded` | the instance, and whether the log surely has a record of it, which a crash falls back on |
| `seen`, `learning`, `lastAck` | `Learner::m_llHighestSeenInstanceID`, `m_bIsIMLearning`, `m_llLastAckInstanceID` |
| `sending` | `LearnerSender::IsIMSending`, the flag and its timeout in one |
| `confirmed`, `begin`, `sendTo`, `acked`, `lead` | `m_bIsComfirmed`, `m_llBeginInstanceID`, `m_iSendToNodeID`, `m_llAckInstanceID`, `m_iAckLead` |
| `thread`, `cursor` | where the thread is in `run`: waiting to send, sending, in CheckAck, waiting there, before SendDone; `llSendInstanceID` |
| `chan` | messages in flight |
| `events` | how many disturbances are left |

The thread's steps are its critical sections and the sends between them, so
handlers of the IOLoop come in between; the thread reads `begin` and `sendTo`
once, at the start, without the lock.

Values are left out: learning an instance is advancing, and that what is sent
is what was chosen is the business of `PaxosGroup`. Messages of one kind between
two nodes stay in order unless delayed; messages of different kinds or pairs
overtake each other freely. A loss, a duplicate, a delay, a send that fails, a
crash, a value learned from a proposer and a timer that fires early are
*events*, and their number is bounded. A timer that is not early leaves the
messages it waits for the time to arrive: the noop timer those about the values
of its node, the sender's two those of the session.

Left out: a write of a learned value that fails. Followers, temporary nodes and
checksums are in `Dissemination`; deleted instances, for which a node asks for a
checkpoint, in `CheckpointTransfer`; the system and master variables that travel
with SendNowInstanceID in `StateMachines`.
`OnSendLearnValue` restarts the noop timer; the model
has that as the timer not being early.

Two observations that no property is about. In the large-buffer mode
`LearnerSender_PREPARE_TIMEOUT` is 6 s and `LearnerSender_ACK_TIMEOUT` 60 s
(`comm/inside_options.cpp` lines 183 and 195), so a sender that has waited 6 s for an
ack is no longer `IsIMSending`, and `Ack` ignores the ack when it comes: `SendExpires`
in `"wait"` has this. And an ack that is above the receiver's instance is possible
after the receiver has crashed and lost its last record; `FlowControl` allows for it.

### LogStore

One log of one group. A file is an array of units, a record a header and a body,
and the content of a record is the call of `Put` that wrote it.

| variable | code |
|---|---|
| `files`, `meta` | what the system has of `<vfile>/<id>.f` and of the meta file |
| `synced` | what the disk is sure to have of the files |
| `base`, `wal` | LevelDB: the index up to the last sync, and the operations since |
| `variables`, `kept` | the system and the master variables, and what ClearAllLog has read of them |
| `state`, `fileID`, `isOpen`, `offset`, `size`, `deletedMax` | `LogStore`'s members, and whether `Init` has succeeded |
| `step`, `deleting` | how far the IOLoop is in `Append` or `ClearAllLog`, and the cleaner in `Del` |
| the rest | what was asked, acknowledged, deleted or lost: history variables |

Each system call is a step of its own, so that a crash of the process, of the machine,
a failing call, or the cleaner's thread comes between any two. A crash of the machine
loses a suffix of what was not synced in each file and in LevelDB; names, lengths and
the meta file count as durable at once. Left out: `ForceDel`, the wrappers that pass a
call to the database of a group, and reading beside the writer, which has a lock and a
descriptor of its own.

A record is two units of length, one of instance id, and its data, and a write may
end, or a crash of the machine cut what was not synced, at any of them. What
`RebuildIndexForOneFile` reads there is zeros, what was written, or, where a length is not
whole or an older record shines through, anything (`Garbage`). Data
that is not all of one write is taken not to parse: the fields of
`AcceptorStateData` are required and the last of them ends the record. One case is
left out by this, a record that has lost nothing but the last byte of its last field, a
varint, where the zero of an expanded file may end the number.

### LogCleaning and CheckpointTransfer

`LogCleaning` has the log of a node as the set of instances with a record, and
a state machine as the set of instances it has executed; only its checkpoint
survives. `CheckpointTransfer` adds the messages between nodes.

| variable | code |
|---|---|
| `now`, `minCache`, `minSaved` | `m_llMaxChosenInstanceID`, `m_llMinChosenInstanceID` and its copy on the disk |
| `lastSave`, `cleaner` | `Cleaner::m_llLastSave`, where `run` is and the limits it has read |
| `canRun`, `isPaused`, `replayer` | the two flags of the `Replayer`, and where `run` is |
| `log`, `ckpt`, `missed` | records, checkpoints, instances no state machine of the node has executed |
| `asking` | `m_bInAskforCheckpointMode` |
| `sender`, `receiver`, `tmp` | `CheckpointSender` with its thread, `CheckpointReceiver`, the temporary files |
| `net` | messages from node to node, in order, some lost when a connection breaks |
| `phase`, `torn`, `raced` | history: how far a transfer has replaced the log (`"hollow"`: it cleared a log the node keeps); a checkpoint loaded by some state machines only, or taken from a node with such a one; a checkpoint that may change under its sender |

A user may pause and continue the replayer at any time, whether the node runs one
(`bUseCheckpointReplayer`) or not; calls that the code tests may fail, nodes crash.
The queue to the receiver may refuse whatever the sender sends: the begin, which ends
the sender, a block, which it sends again after a sleep (`SendFails`, `WakesUp`), and the
end, which it does not send again. A block of a file carries what the state
machine had executed when it was read, which is how a checkpoint that changed
under the sender shows. A state machine that has a checkpoint gives at least one
file for it (`TransferAssumption`): one without files would not be loaded by the receiver.

### KVStore, ProposeBatch and Application

`Application` composes the sample's state machine and the batches with `SMFac`
and a second state machine without checkpoints. What is decided is the
environment: a proposed value is decided next, or its call ends without that, by
a timeout perhaps before it is.

| variable | code |
|---|---|
| `db`, `savedCP`, `unsynced` | the keys with value, version and deletion mark, the checkpoint record, what an unsynced write has replaced |
| `checkpoint`, `skipTimes` | `m_llCheckpointInstanceID`, `m_iSkipSyncCheckpointTimes` |
| `queue`, `queueSize`, `isEnd`, `isStarted` | `ProposeBatch`'s members |
| `pc`, `batcher`, `request` | where the callers and `Run` are, and what each thread proposes |
| `notified`, `place` | a caller's pipe, and `*pllInstanceID` with `*piBatchIndex` |
| `log`, `executed`, `pos` | decided values, instances executed, entries of the next executed so far |
| `op`, `mine`, `floating` | a user's operation, whose commit it is, values that may still be decided |

Left out: changing the batch's options at run time, the gRPC server and its
redirection to the master.

### MasterLease, Membership and StateMachines

`StateMachines` runs both of the group's own state machines at all nodes over
one log of decided values.

| variable | code |
|---|---|
| `master`, `version`, `leaseTime`, `remains` | `MasterStateMachine`'s members; `m_llAbsExpireTime` as the time left on the node's own clock |
| `saved` | `MasterVariablesStore` |
| `gid`, `sysVersion`, `members` | `SystemVSM::m_oSystemVariables` and `m_setNodeID` |
| `try`, `admin` | what MasterMgr, or a call to change the members, has read and proposes |
| `offered`, `commit`, `log`, `executed` | values that may be decided, CommitCtx, the log, how far a node is |
| `sent` | SendNowInstanceID messages with the variables of both, lost or doubled |

`Tick` lets a unit of time pass at every node but one whose clock may be late by
less than the margin the master takes off. An attempt to be master starts its lease
when it is proposed, everybody else's starts when they execute it. Left out:
`DropMaster`, which lengthens a sleep, and changing the lease at run time.

### Dissemination

Who hears what: the checks a message meets (`ReceiveMsgHeaderCheck`,
the tests of membership in `Instance`), to whom the answers go, and what travels
along. A round of Paxos is one step, `PaxosGroup` has its messages.

| variable | code |
|---|---|
| `log`, `accepted` | records with ballot and checksum, of executed instances and of the running one |
| `lastChecksum`, `seen` | `Instance::m_iLastChecksum`, `Learner::m_llHighestSeenInstanceID` |
| `tmpNode`, `follower` | `Config::m_mapTmpNodeOnlyForLearn`, `m_mapMyFollower` |
| `msgs`, `chosen` | SendLearnValue and SendNowInstanceID, success messages |
| `followTo` | the follower's option, if it has one |
| `round`, `heard`, `lapsed`, `early`, `faults` | history variables; `early` has the instances a node has proposed in with the members of a later one |

A checksum is the sequence of values it is computed from. Who is a follower is not
asked to be a member (`Lists`). An entry of `tmpNode` or `follower` may run out
(`TmpNodeTimeout`, `FollowerTimeout`), a node may crash, a message be lost: these are
counted.

### TcpNetwork, MessageWriter, MessageReader and Messaging

One direction between two nodes: threads that send, the writing loop, sockets, the
reading loop and the acceptor, the queue of the IOLoop.

| variable | code |
|---|---|
| `chan`, `wire`, `conn`, `held` | sockets, external: state and content of each connection, the one the writer holds, those the reader has accepted |
| `outQ`, `outMem` | `MessageEvent::m_oInQueue`, `m_iQueueMemSize` |
| `left`, `wants`, `fd`, `destroyed`, `timer` | the rest of the frame being written, `m_iEvents`, the socket, `m_bIsDestroy`, `m_iReconnectTimeoutID` |
| `entry`, `polled` | `EventLoop::m_mapEvent`, the epoll set |
| `fdQueue`, `object`, `readMap`, `part` | `m_oFDQueue`, `m_vecCreatedEvent`, the reading loop's `m_mapEvent`, what is read of a frame |
| `inQ`, `inMem`, `memRead` | `IOLoop::m_oMessageQueue`, `m_iQueueMemSize` |
| `wpc` | where the writing loop is in its round |

A message is `HeadLen` units of length and `BodyLen` units of body, so that both
arrive in pieces. Left out: several writing and reading loops, which share
nothing; failures of `socket()` and of `epoll_ctl`; the empty entries of
`AddNotify`.

## 3. Runs

| run | instance | shows |
|---|---|---|
| `ThreeNodes` | 3 nodes, one of them with prepare, accept and commit timers; either all messages arrive, with 2 proposers and 2 instances, or four of the six links, with 3 proposers and 1 instance | `VotesAgree`, `ChosenOnce`, `CommitResultTruthful`, `PromiseHonoured`, `ImplementsReplicatedLog` |
| `TwoNodes` | 2 nodes with a restart or a timer, failing writes, duplicated messages | `TypeOK`, `HandlerInv`, `LearnedIsChosen`, `PromiseDurable` |
| `LostPromise`, `SkipSuccess` | see section 5 | `SameOrder` is violated |
| `Commit` | 3 threads with or without timeouts, one of them refused, room for 1 waiter, a failing state machine, 2 values of others, 1 lag | `LockInv`, `ResultTruthful`, `ExecutedOnce`, `ContextAlive`, `CallsReturn` |
| `LearnerSync` | 3 nodes, two of which hear the third only; one lags four instances with one event, or two lag without | `SenderInv`, `SessionStable`, `CatchesUp` |
| `Storage` | files of 9 units, records of 4 and 5, 3 calls of Put over 2 instances, 2 events | `FilesInv`, `ReadBack`, `VariablesKept` |
| `Checkpoint` | a node with a cleaner, and a replayer or not, one that lags, one that has its whole log and from which the second may learn meanwhile; 2 state machines, 4 instances, 2 requests, 1 event | `OnlyMinMissing`, `RecoversWhole`, `TransferInv`, `SendsFrozen`, `SendersEnd` |
| `Application` | 1 user, 2 callers of BatchPropose, 1 key, values of another node, 1 fault | `StoreIsLog`, `UsersTold`, `CallersTold`, `CallsReturn` |
| `StateMachines` | 3 nodes, of which 2 are founders and candidates; 3 changes of the members, 4 instances, 1 crash or failure of any node, 1 checkpoint sent | `OneMaster`, `VariablesAreLog`, `NoLostChange` |
| `Messaging` | 4 messages, one by UDP and one too large, 2 connections at a time, 1 fault, queues of one | `FramesAligned`, `HeardOnce`, `LoopInv`, `Drained` |
| `Dissemination` | a founder, a newcomer, a node that takes the founder's place or follows the newcomer; 3 instances, 4 rounds, 1 fault | `SameOrder`, `NodeInv`, `NewcomerLearns`, `FollowerLearns` |

Some invariants are conjunctions of named parts, the type invariant among them:
`LockInv` of `TypeOK`, `CommitExclusive` and `WaitersCounted`; `SenderInv` of `TypeOK`
and `FlowControl`; `FilesInv` of `TypeOK` and `StartsAgain`; `RecoversWhole` of
`RestartsOK` and `NoGap`; `TransferInv` of `TypeOK` and `ReceivedInOrder`;
`CallersTold` of `TypeOK`, `BatchTold` and `RefusedStaysOut`; `VariablesAreLog` of
`TypeOK`, `MasterIsLog` and `MembersAreLog`; `LoopInv` of `TypeOK`, `Armed`,
`MemCounted` and `NoDangling`; `NodeInv` of `TypeOK` and, while `early` is empty,
`ChecksumsAgree`.

**Bounds.** `MaxInstance = 2` lets an instance follow another, which is what skipping
prepare, skip success and expired replies need. `MaxProposalID = 2` lets every
proposer start one round above another's (a reject, a retry and an adoption of an
accepted value all happen). `MaxInterrupts` counts timer expiries and crashes. `Link`
removes pairs of nodes whose messages are never delivered. For a ballot to get two
values its proposer must be overtaken between two rounds of it: that takes three
competing proposers and one expired timer, which `ThreeNodes` has where only four of
the six links work, with the smallest ballots, one instance and no end of a behaviour
but that very ballot (`MCBound`); where all links work two values are committed. In
`CommitPath` three threads are a holder, a waiter and one that is rejected or takes
the lock in front of the waiter; two values of others let a call meet a conflict
twice. In `LearnerSync` a lead of 2 and an ack for every instance make the sender of
four values wait; two nodes that lag behind a third compete for its sender, and the
one refused gets a single value or asks again.

In `LogStore` a file of nine units holds two records, of four and of five or of four
each, so the third call opens a second file, and a shorter record can follow the rest
of a longer one; a write can end in any of its units, the length of two units and the
id among them; two events are a failing write and a crash after it, or two crashes. In
`CheckpointTransfer` an interval of 2 over three instances leaves a window between the
saved and the cached minimum; the state machines have two blocks and one, so a
transfer has four messages for a lead of 1, and two requests let acks of one transfer
arrive in another; one event is any one crash, failure, broken connection or call of
the user. Refused sends are not counted. `MCBound` allows the second request only
where no log has been written or cleaned under the first transfer and the replayer
runs: what lies beyond, a second transfer after such a one, is not explored. In
`Application` two callers and a user make a batch, a single value and a value of
another node meet in one key. In `StateMachines` a lease is 2 ticks with a margin of 1
and a clock may be one tick late; any node may crash, among them the one that sends
its variables, which then gives away a lease of 0; four instances are enough for two
changes of the master and two of the members. In `Messaging` `MaxQueue = 0` lets one
message wait and refuses the next, because the code compares with `>`; a buffer of 2
units cuts a frame of 4 in the length and in the body; two connections are the one in
use and one that broke or was given up and that the receiver still reads; one fault is
a broken connection or a restarted receiver, and connections may be refused without
limit. In `Dissemination` three instances are the founder's first value, the change of
the members and one value after it. The change adds the newcomer, so that majorities
of `{a}` and of `{a, b}` meet, or puts another node in the founder's place, so that
those of `{a}` and of `{f}` share nobody; the node that comes in may be behind and
restart.

**View and symmetry.** Values are interchangeable in `PaxosGroup` (`ValueSymmetry`).
`LiveView` leaves out messages no handler will act on any more: those of a past
instance or of a round the proposer has left. Instance ids and proposal ids of a
running node only grow, so such a message stays dead; messages to nodes that may
restart are kept. No run with a liveness property has either. `Checkpoint` has a
constraint and a liveness property: behaviours that leave the constraint are not
followed, those that stay in it are judged whole. A property `P ~> Q` with `~P => Q`
is written `[]<>Q`, which is the same and needs no tableau. `CHECK_DEADLOCK FALSE`: at
the bounds everything stops.

**LearnedIsChosen** is stated for two nodes, where a majority is everyone.
With more nodes it fails by the findings of section 5 as soon as restarts,
failing writes or five nodes are allowed; without them it is proved
(`ExecutedIsChosen`, `SmallGroupsLearnChosen`).

**VotesAgree.** Two values per ballot do happen (section 5), with one expired timer.
The property says how they come about and what follows from them: a ballot gets a
second value only if the acceptor of its own proposer has gone over to another ballot
in between (`Overtaken`), and a second value is chosen only in an instance one ballot
of which has two. `MCBound` ends a behaviour at such a ballot, so what the other
properties of the run say they say up to there. `BallotsAgree`, without exceptions, is
what the theorems of section 4 prove from `RetriesKeepVote`.

**What the other properties except.** An exception is a predicate with a name, and section 5
says what the code does there.

| property | but for | |
|---|---|---|
| `FilesInv` | `HeadCut`, `RestLeft`, `FileIDTorn`, `tailMet` | a store that does not start again |
| `VariablesKept` | `cleared` | a crash in the middle of ClearAllLog |
| `RecoversWhole`, `SendsFrozen` | `torn`, `phase`; `raced` | a checkpoint loaded in part or changed under its sender |
| `SendersEnd` | `asleep`, `NobodyPauses` | a block refused for ever; no replayer to wait for |
| `CallersTold` | `ProposedAlone` | the index of a value in a batch of one |
| `CallsReturn` of `Application` | `Stranded` | a value queued after the batcher's end |
| `OneMaster` | `Disowned` | a lease handed out with the length 0 |
| `Drained` | a connection that is refused | a queue to a member that is gone |
| `SameOrder`, `NodeInv` of `Dissemination` | `early` | values proposed with the members of a later instance |
| `NewcomerLearns` | `lapsed` | a temporary entry that ran out |

**Fairness.** The properties of `PaxosGroup` are safety properties; a liveness
property of it would be that of Paxos with competing proposers and unbounded
proposal ids, which the code does not guarantee. Elsewhere it is weak fairness
of single actions, with one exception, and none for faults:

- `CommitPath`: threads are scheduled, waits expire, the IOLoop wakes at least
  once a second and calls `CheckNewValue`, timers fire (`NodeSpec`); the node
  catches up with the others, and, only if calls have no timeout, something this
  node has proposed is decided and executed in the end (`LiveSpec`). The first
  needs another node that answers, the second a majority and no endless duel of
  proposers. A waiter can lose the lock to threads that did not wait; that it
  gets its turn rests on the number of calls being bounded.
- `LearnerSync`: delivery on each link, the noop timer, the sender's time-out
  and its thread: sockets are drained, threads are scheduled, clocks go on.
  `CatchesUp` is for a node that lags behind one that stays up; it is the
  `CatchUp` that `CommitPath` assumes. A group that advances for ever may keep a
  node behind for ever: the number of instances is bounded.
- `CheckpointTransfer`: the sender's thread and the replayer's. The wait for an ack
  and the sleep after a refused block have a limit, so that the thread goes on; the
  wait for the replayer and the number of refusals have none, and no fairness makes a
  queue take a block (`SendersEnd` names both). The subscripts name the variables each
  of these steps changes, one of them at least, which is the fairness `vars` would
  give.
- `Application`: each caller between its steps, `Run`, execution and the
  decision of what is proposed; a state machine fails a bounded number of times.
- `Messaging`: the two loops, and a kernel that answers every attempt to connect,
  by establishing or by refusing it. A timer
  that is due fires although the loop is also ready for other things: the loop
  goes round, which is strong fairness of that step. There is none for
  `CONNECTTION_NONACTIVE_TIMEOUT`: the learner asks every member every few seconds
  (`algorithm/learner.cpp` 220-258), and `AddMessage` counts as activity even
  when it refuses (`message_event.cpp` 96).
- `Dissemination`: a node asks again (the noop timer) and handles what has
  arrived. `Behind` looks at the founders that are still members: one that has been put out
  need not be asked, and what it has more is heard of with the next value.

## 4. Proofs

Everything below holds for every set of nodes, clients and values, every bound,
and every number of faults, within the assumptions of the modules (node ids are
positive, a group has at least two nodes, `None` is no value, and the like) and
the hypotheses each theorem names. Where the runs of section 3
check the same property, they do so for one small instance.

| theorem | states | hypotheses |
|---|---|---|
| `TypeCorrect`, `HandlersExpected`, `PromiseSurvives` | `TypeOK`, `HandlerInv`, `PromiseDurable` | none |
| `PromiseKept` | `PromiseHonoured` | no restart |
| `Agreement` | `BallotsAgree`, and with it `VotesAgree` | no restart, `RetriesKeepVote` |
| `UntimedAgreement` | the same two | no restart, no timers |
| `ChosenInOneInstance` | `ChosenOnce` | none |
| `ExecutedIsChosen`, `ClientsToldTruth`, `NodesExecuteAlike`, `GroupImplementsLog`, `NodesExecutePrefixes` | `LearnedIsChosen`, `CommitResultTruthful`, `SameOrder`, the refinement of `ReplicatedLog`, and what it promises: `RL!InOrder`, `RL!Agreement` | no restart, no failed write, `RetriesKeepVote`, `SkipsLearnChosen` |
| `SmallGroupsLearnChosen`, `SmallGroupsImplementLog` | the first four of them | no restart, no failed write, `RetriesKeepVote`, up to four nodes |
| `UntimedImplementsLog` | the refinement | no restart, no failed write, no timers, up to four nodes |
| `LockIsHeldByOne`, `CallersToldTruth`, `RetriesExecuteOnce`, `ContextsAlive` | `LockInv`, `ResultTruthful`, `ExecutedOnce`, `ContextAlive` | none |
| `SenderStaysWithinLead`, `SessionIsTheThreads` | `SenderInv`, `SessionStable` | none |
| `VariablesOfThePlace`, `ChangesAreKept` | `VariablesAreLog`, `NoLostChange` | none |
| `OneAtATime` | `OneMaster` | `ClocksWithinMargin` |
| `ServesWhatItOffers`, `ComesBackWhole`, `ReceivesInOrder`, `CheckpointFrozen` | `OnlyMinMissing`, `RecoversWhole`, `TransferInv`, `SendsFrozen` | none |
| `LoopsAgree`, `ConnectionsCarryFrames`, `MessagesHeardOnce` | `LoopInv`, `FramesAligned`, `HeardOnce` | none |
| `StoreFollowsLog`, `UsersToldTruth`, `BatchCallersToldTruth` | `StoreIsLog`, `UsersTold`, `CallersTold` | none |

**The group.** Each hypothesis is there because of a departure of section 5:

- no restart (`RestartNodes = {}`): a restarted node may have a promise that a
  learned value has lowered; `LostPromise` shows two values chosen;
- no failed write (`FaultyStore = {}`): a record without its value is served to
  others. `Agreement` does not need it;
- `RetriesKeepVote`: a proposer that prepares a ballot again after an accept
  timeout finds its own acceptance of it. It is proved where there are no
  timers;
- `SkipsLearnChosen`: a message of the next instance that is taken for the
  success of this one comes when the value is chosen. It is proved for up to
  four nodes; `SkipSuccess` has five and violates it.

The last two are formulas about steps, not about constants: a behaviour in which
the departure does not happen satisfies them, however many timers fire.

`IInv` in `PaxosGroupProofs` is `TypeOK /\ HandlerInv`: neither half is inductive
alone, because the type of an accept message rests on a proposer in a phase
having a value, and that on accepted ballots coming with values in the log and in
messages. `PromiseSurvives` adds `DurableInv`: for every promise of an instance
not executed, the log of that instance has a promise at least as high, the node
is in that instance or would load it, and its promise in memory is at least as
high. `PromiseKept` adds `PromisesHeld`: no promise exceeds the one in memory,
and none is of a later instance. Both action properties follow because a vote
is cast only by `AcceptPasses`, whose guard compares with the promise in memory.

`AInv` in `PaxosGroupProofs` says of every value proposed in a ballot that
anybody still knows of (in a vote, a message, an acceptor or a proposer) that it
is the only one of its ballot and that no other value can have been or be chosen
below it (`SafeAt`, by a majority each of which has voted for it or will not
vote). Skipping the prepare phase makes this longer than for one instance: what
entitles a proposer to a ballot is a majority of promises of this or of an earlier
instance (`SkipsTrue`), which bind later ones only while memory lasts.

`ValueInv` says that a value occurs in one instance
only; it needs none of the above. `ExecutionInv` says that accept replies,
success messages, learned values and records tell what was voted and chosen,
`CommitInv` and `ResultInv` the same of what clients are told. The refinement maps
each step of a handler to choosing a value, to a node learning one, to both, or to
a stutter.

**CommitPath.** `LInv` ties the commit to the thread that waits for it and the count of
waiters to the waiting threads. `PathInv` follows a value: until `CheckNewValue`
takes it only its call has it; while it is proposed, the commit runs in the running
instance; when that instance ends without it the proposer forgets it with all
it has offered, so that a conflict is final.

**LearnerSync.** What a node has, executed instances and the record a crash leaves
of its own (`Has`), never shrinks. So an ask or an ack in flight stays true of its
sender however late it arrives (`ChanInv`), and the session it starts or
advances stays within the lead (`SessionInv`).

**StateMachines.** What the log says after `k` values is defined by recursion;
`History` and `SetInduction`, from the well-founded order of the numbers, give its
existence, its steps and its prefixes. The invariant says that the variables of a
node, in memory, saved and in flight, are those of one place of the log (`MasterInv`,
`MembersInv`, `SentInv`), and that every value that is or may be decided was proposed
with a version the log had before (`LogInv`), which is what makes the version check of
`Execute` enough. For `OneMaster` it adds the sids that tell a node's attempts apart
(`TryInv`), and `LeaseInv`: while one node counts a lease no other becomes master,
because whoever has executed the same value waits longer and whoever has not proposes
what will be refused; or somebody has sent the lease with the length 0 (`DisownedAt`).
Nodes restart and send what they have after that. So what is saved or sent either has
the master of its version, with the whole lease or with that exception, or none, and
then the node the log gives for the version no longer counts a lease of it (`Whole`,
`Lost`; `WholeStays`, `SentVersions`). `ClocksWithinMargin` (clocks differ within the
margin) holds in the run `StateMachines`; TLC finds two masters if a clock may lag 2
with a margin of 1.

**CheckpointTransfer.** The invariant has four parts beside the types.

- `LogInv`: at a node whose log no transfer has cleared, the minimum on the
  disk, the one in memory, the checkpoint and the current instance are in this order; every
  record between the minimum and the current instance is there, except the one at
  the minimum, which the cleaner deletes first; and the cleaner, which reads its limits
  once, is at the minimum or one past it. Neither half of `OnlyMinMissing` and
  `RestartsOK` can do without the other: `FixMinChosenInstanceID` finds the true minimum
  after a crash only because nothing but an interval of records is missing.
- `CheckpointInv`: the checkpoints of the state machines together have executed
  what is below an instance, and the replayer goes on from there.
- `PausedInv`: a replayer that says it is paused does not play, and a sender has
  seen it say so before it locks the checkpoint.
- `SessionInv`: there is a record of every transfer so far (what the state
  machines of the sender had executed, the blocks sent, whether the end was sent),
  of which senders, messages under way and receivers all tell the truth. A receiver has the
  first blocks of one record, a message has the block at its own sequence number,
  so that blocks of an earlier transfer, acks that come late and a sender that
  starts again cannot mix two of them. The records are not variables of the
  model: the invariant says that some exist, and each step of the proof gives
  the new ones.

`ReceivesInOrder` and `CheckpointFrozen` follow from the last two; a received
checkpoint is whole, so that `CheckpointInv` survives loading it, because both
hold at the sender. The number of state machines, of blocks each has, of nodes, of
requests, crashes and lost messages is arbitrary.

**Messaging.** `LoopInv` is not inductive: that a connection which waits for `EPOLLOUT`
is waited for depends on where the writing loop is in its round. The invariant has five
parts beside the types.

- `EventInv`: for each place of the loop, which of the event's flag, the entry in the
  loop's map, the registration in epoll and the timer the event has. A timer is
  pending only for the socket in use, and only while the flag is set and the entry is
  there; without this a timer of a socket that `ReConnect` replaced would find the
  entry of another.
- `ConnInv`: what writer, kernel and reader know of a connection. Nothing has been
  written to one that is not established, and only the writer's own is open.
- `ObjectInv`: an accepted connection waits in the acceptor's queue or has an object,
  not both, and the map of the reading loop has the objects that are live. An object
  marked destroyed belongs to a connection that has ended, so that no further event
  of epoll can lead to it.
- `StreamInv`: what is read of a frame, what is under way and what is left to write are,
  in this order, the stream of a connection (`Stream`). It is frames one after the
  other in the order of their messages, and as long as the connection is in use it ends
  with the end of a frame, although each of the three pieces may end anywhere. That is
  why a new connection must not inherit the rest of a frame (`ReConnect`).
- `OnceInv`: a message sent over TCP is in the queue, on one connection or handed on,
  and what is queued is younger than anything on a connection.

Three kinds of step change a stream: `DoOnWrite` appends a frame, `OnRead` takes the first
away, and a break or a close cuts its end off. All others move units from one piece
to the next. The lemmas `Aligned...` are about these three alone. The two last parts
are proved together: a frame keeps the order of messages because the queue is younger.
Numbers of connections, messages and faults, the sizes of length, message and kernel
buffer and the limits of the queues are arbitrary.

**Application.** What the log says of a key (`Wins`) is a recursive function over the
log; `WinsIn` is the same for any log, so that two logs, or a log before and after a
decision, can be compared (`WinsPrefix`, `WinsNextLen`, `WinsGrow`).

- `ReflectInv`: the store is what the log says up to some instance not before the
  next to be executed; each state a crash of the machine may bring back is so for some
  instance not before the checkpoint. While an own commit runs the instance is exactly
  the executed one, which is why its caller may believe what `Execute` returned.
- `VersionsInv`: an operation carries a version that the log had for its key before it,
  wherever it is: with its user, floating after a timeout, or decided. Together they
  show that repeating an instance changes nothing: a version that the key had before an
  instance is no longer the key's after it (`ReflectsAgain`).
- `CallInv`, `ToldInv`: the operation of a call that runs is in the log only as the
  commit under way, and one whose user was told its fate can no longer be decided.
- `QueueInv`: the value of a caller is with the caller, in the queue, in one request
  or answered, never at two of these places.
- `OldInv`, `WaitInv`, `EndedInv`, `GivenInv`, `DoneInv`: no id is decided whose value
  was still in the queue when `Run` ended; a caller with an answer knows the place of
  its value; a context was handed over for a caller that has its answer, or by the
  attempt under way, which has handed over all it has passed.

`CallerMoves` says once what a step may do to callers, and each action is shown to do
no more. Keys, users, callers, values and faults are arbitrary.

**Model-checked only.** Liveness, which the provers cannot do: `CallsReturn`,
`CatchesUp`, `SendersEnd`, `Drained`, `NewcomerLearns`, `FollowerLearns`. The
properties of `LogStore` and `Dissemination`: the index of the first is a
fold over the operations since the last sync, of which a proof would need an induction
over data. For the second no
inductive invariant has been found short of one that repeats the argument of
`PaxosGroupProofs` for a changing set of members. Theorems of the library that take a
predicate as a parameter cannot be used by the installed provers; `SetInduction`
stands in for them.

## 5. Where the code departs from its promise

`README.md` line 159: "PhxPaxos guarantees all nodes will execute `sPaxosValue`
in the same order to achieve strong consistency". Two runs find behaviours in
which two nodes execute different values in one instance (`SameOrder`).

- `LostPromise`. `LearnerState::LearnValue` overwrites the acceptor's record of
  the instance and writes the learned ballot as the promise, even if the
  acceptor had promised a higher one. A node that restarts then loads the lower
  promise, and keeps it for the next instance. The proposer it had promised
  still skips the prepare phase; two proposers get a value chosen each. `TwoDecide`
  cuts away the behaviours in which the first instance is settled another way.
- `SkipSuccess`. A prepare or accept of the next instance is taken for the
  success of the same ballot in this one. But a proposer that learned this
  instance from somebody else keeps its ballot and skips the prepare phase, so
  its accept of the next instance carries a ballot that only a minority may
  have accepted in this one. With five nodes an acceptor of that minority
  executes the wrong value. With three nodes the
  minority is the proposer alone and nothing happens.

The models have other departures in them, which their properties except by name
(section 3). They are reachable in the modules named; no run is kept for them.

- `PaxosGroup` (`algorithm/proposer.cpp` 510): `OnAcceptTimeout` calls
  `Prepare(m_bWasRejectBySomeone)`. If no reject has been noticed, the proposer
  prepares again with the ballot it has already sent accepts of. Usually its own
  acceptor holds the accepted value of that ballot and hands it back. But if
  that acceptor has promised a higher ballot meanwhile, its own prepare is
  rejected there, the proposer starts from the values the others report, and late
  replies of the first round count for the second: the value may change and the
  same ballot is proposed with two values. With three nodes, three
  proposers and one expired timer `BallotsAgree` fails in one instance, without any crash,
  and in time two nodes execute different values, a third way to break
  `README.md` line 159. `VotesAgree` says how; `RetriesKeepVote` in
  `PaxosGroupProofs` is the statement that it does not happen.
- `PaxosGroup` (`algorithm/acceptor.cpp` 315): when the write of an accepted
  value fails, OnAccept sends no reply but has changed the state in memory. The
  node then learns from a success message, and later serves the record of its
  log, which has no value, to a node that asks. With three nodes and a failing
  write `SameOrder` fails.
- `CommitPath` (`algorithm/instance.cpp` 727): when `Execute` fails, the learned
  branch returns before `RemoveTimer`. The timer stays armed, its id is
  overwritten by the next commit, and when it fires it ends the commit of
  another call before the timeout `SetTimeoutMs` promised it
  (`include/phxpaxos/node.h` line 110).
- `CommitPath` (`algorithm/instance.cpp` 300): `CheckNewValue` returns before
  `StartCommit` and `AddTimer` while the node is not the latest, and the
  client's thread waits in `GetResult` without a limit of its own: a node that
  never catches up never times out either.
- `LogStore` (`logstorage/log_store.cpp` 664-692): the rebuilding looks at the instance id
  before it looks whether the record is whole. A record whose length is on the disk and
  whose id is not (zeros, below the last instance) makes `Init` fail for ever, where one
  torn further behind is cut off; so may a length of which a part is missing, which is
  taken as it stands (`HeadCut`). Both come of a write that ended there as well
  as of a crash of the machine.
- `LogStore` (`logstorage/log_store.cpp` 650, 674): a file too short for a length or a
  record leaves the offset of the rebuilding as it was, at 0 or that of the file
  before, and the next record goes over the file's beginning (`tailMet`), although
  `include/phxpaxos/storage.h` lines 37-39 and `options.h` lines 190-192 let a synced
  write count as safe. Of the same module: `IncreaseFileID` writes the meta file
  before the new file exists, and a crash between the two makes `Init` fail for ever;
  a failed long write followed by a shorter one leaves a rest that `Init` does not get
  past (`RestLeft`); an entry of the index may outlive a machine crash that its
  unsynced record does not (`lost`); a crash inside `ClearAllLog` loses the system and
  the master variables (`cleared`).
- `LogCleaning`, `CheckpointTransfer`: a node that learned instances between
  ClearAllLog and the end of a transfer refuses to start (`phase`, the "normal case"
  of the comment at `algorithm/instance.cpp` 160-171); a sender without a checkpoint
  sends 2^64-1, which becomes the receiver's minimum; a partial `LoadCheckpointState`
  leaves state machines with gaps, because the start takes the maximum of their
  checkpoints (`torn`); a `Continue` that races with the replayer's pausing step
  leaves `isPaused` true while it runs (`raced`), and one without
  `bUseCheckpointReplayer` leaves it false for ever, so a sender waits for ever
  (`NobodyPauses`); a block that the queue to the receiver refuses is sent again every
  30 s without a limit (`algorithm/checkpoint_sender.cpp` 303-331), and the node can
  serve nobody else meanwhile (`asleep`); a node that loads a checkpoint while it
  sends its own sends blocks of both (`raced`); the beginning of a transfer is not
  compared with the receiver's own instance (`algorithm/learner.cpp` 745-763), so that
  a late one clears the log of a node that has caught up, which then offers what it no
  longer has (`"hollow"`); a sender's `Continue` undoes a user's `Pause`; a learner at
  the deleted minimum is told to learn and gets nothing until the cleaner moves;
  `m_setNeedAsk` is never cleared.
- `ProposeBatch` (`node/propose_batch.cpp` 69): a value queued after `Run` has drained
  the queue waits for ever unless more follow (`Stranded`); `Stop` before `Run` has
  set `m_bIsStarted` does not wait for it, and deletes a joinable thread;
  `OnlyOnePropose`, for a batch of one, leaves `*piBatchIndex` as it was
  (`node/propose_batch.cpp` 266-271; `Unset`, `ProposedAlone`), against
  `include/phxpaxos/node.h` lines 87-88: "the return value iBatchIndex means the
  execute order index, start from 0". Of `SMFac`: a value for an unknown state machine
  is never executed and blocks all after it, and only the first value of a state
  machine in a batch gets BeforePropose; a batch with a value that fails is executed
  again from its first value, and nothing says that a state machine may not get a
  value twice. Of `phxkv`: all groups share one checkpoint key (`kv_paxos.cpp` 83-93),
  and a checkpoint synced by one value of a batch covers those behind it, which a
  crash then loses.
- `MasterLease` (`master/master_sm.cpp` 296): `m_iLeaseTime` is set when a master is
  learned and by neither `Init` nor `UpdateByCheckpoint`. A restarted node sends a
  lease of 0 with its variables, the receiver holds the master's lease for ended and
  may be elected, and two nodes are master at a time, against `README.md` line 393.
  The run has it, and so does the theorem `OneAtATime`: `Disowned` is the exception of
  both. A node that lost its variables proposes version -1, and others take that over.
- `Membership`: GetMembership is read while the IOLoop writes it; a stale
  version is refused, a torn read is undefined. A value between the largest
  that `CheckNewValue` lets pass and the largest `Communicate::Send` does, which counts the
  overhead, is never sent (`communicate/communicate.cpp` 43).
- `Messaging`: `IOLoop::m_iQueueMemSize` is lowered outside the lock
  (`algorithm/ioloop.cpp` 196) and may drift (`memRead`); the message being
  written when a connection breaks is lost, and one queued while an idle event
  is cleared; the socket of a broken received connection stays open until the
  next accept; an error of `connect` other than EINPROGRESS is an exception
  nobody catches; `TcpClient::m_vecEvent` is read without its lock; the checksum
  of a message covers every seventh byte.
- `Messaging` (`communicate/tcp/message_event.cpp` 96, 406): the event of a member
  that refuses connections tries again every 200 ms as long as it is active, and every
  message handed to it makes it active, also one it refuses. The learner's asking
  alone does that every few seconds, so the queue to a dead member is neither written
  nor given up, and what is in it is old when the member is back.
- `Dissemination` (`algorithm/learner.cpp` 347-372, 189-192, `algorithm/instance.cpp`
  300): a node takes the members of a later instance with SendNowInstanceID and may
  then propose in an earlier one, with a majority of those members: at once if it is
  one instance behind, which `IsIMLatest` lets pass, or after a restart, which forgets
  `m_llHighestSeenInstanceID`. If `{a}` has been replaced by `{f}`, the two majorities
  share nobody and the instance gets a second value: again two nodes execute different
  values in it. `early` has the instances of such proposals, and `SameOrder` without
  it is violated in the run's instance.
- `Dissemination`: a newcomer configured with itself only would found a group of
  its own; a node that restarts forgets its temporary nodes until the next accept.

## 6. Not modelled

- `ForceDel`, the wrappers of `PaxosLog` and `MultiDatabase`: they pass a call on.
- The retry queue of the IOLoop: a message of a later instance stays in flight, may be
  lost and may be handled in any order. The bound of 300, the order and the clearing
  are not there.
- The random rejections of WaitLock and the counts that shorten timers: they
  choose among behaviours the models have.
- Changing batch sizes, the lease or other options at run time.
- Options, logger, breakpoints, plugins, buffers, clocks and checksums: no state
  of a protocol. The remaining samples use the library as phxkv does.
- Benchmarks, tests and tools.

## 7. Plan

Proofs that are left, in this order: `SameOrder` of `Dissemination`, with the members
of an instance as the group; `FilesInv` of `LogStore`, whose folds over the operations
of LevelDB come last.
