--------------------------- MODULE CheckpointTransfer ------------------------
(***************************************************************************)
(* A node that is behind what the others still have in their logs pulls a  *)
(* checkpoint: it asks, a CheckpointSender thread of the other node stops  *)
(* the replayer, locks the state machines and sends their files block by   *)
(* block, the CheckpointReceiver writes them to temporary directories, and *)
(* at the end every state machine loads its own and the process exits.     *)
(*                                                                         *)
(* A block stands for what the state machine's checkpoint held when it was *)
(* read.  The messages of one node to another arrive in order (TCP), but a *)
(* broken connection loses some of them.                                   *)
(***************************************************************************)
EXTENDS LogCleaning, Sequences, SequencesExt

CONSTANTS
    SMList,         \* SMFac::m_vecSMList
    BlocksOf,       \* the blocks the files of a state machine make
    Lead,           \* Checkpoint_ACK_LEAD
    MaxAsks         \* bound: requests for a checkpoint

\* A state machine that has a checkpoint gives files for it.
ASSUME TransferAssumption ==
    /\ SMList \in Seq(SM) /\ IsInjective(SMList) /\ ToSet(SMList) = SM
    /\ BlocksOf \in [SM -> Nat \ {0}]
    /\ Lead \in Nat /\ MaxAsks \in Nat

VARIABLES
    asking,     \* m_bInAskforCheckpointMode
    sender,     \* m_poCheckpointSender
    receiver,   \* m_oCheckpointReceiver
    tmp,        \* the files in the cp_tmp_ directories
    net,        \* the messages of a node to another one
    asks,       \* requests so far
    sessions,   \* senders so far; the number of one is its UUID
    phase,      \* "cleared" from ClearAllLog to a start with a checkpoint,
                \* "hollow" if the minimum then offers what has been cleared,
                \* "mixed" once the node writes or cleans its log meanwhile
    torn,       \* the checkpoint is not what one node held at one moment
    raced       \* the checkpoint may change although the replayer says that
                \* it is paused

transferVars == <<asking, sender, receiver, tmp, net, asks, sessions>>
history == <<phase, torn, raced>>
vars == <<logVars, transferVars, history>>

-----------------------------------------------------------------------------
(* The blocks and the messages *)

\* SendFile sends a file in blocks.
Block == UNION {{[sm |-> s, off |-> k] : k \in 1..BlocksOf[s]} : s \in SM}

\* SendCheckpoint goes through the state machines, SendCheckpointFofaSM
\* through the files of one, if it has a checkpoint.  LockCheckpointState
\* holds the files.
BlocksHeld(c) == {b \in Block : c[b.sm] # {}}
Before(b, c) ==
    \E i, j \in 1..Len(SMList) :
        /\ SMList[i] = b.sm /\ SMList[j] = c.sm
        /\ i < j \/ (i = j /\ b.off < c.off)
First(bs) == CHOOSE b \in bs : \A c \in bs \ {b} : Before(b, c)

\* Learner::SendCheckpointBegin, SendCheckpoint and SendCheckpointEnd.
BeginMsg(n) == [flag |-> "BEGIN", uuid |-> sender[n].uuid, seq |-> 0,
                cp |-> Unsigned(GetCheckpointInstanceID(ckpt[n]))]
BlockMsg(n) == LET b == First(sender[n].left) IN
               [flag |-> "ING", uuid |-> sender[n].uuid, seq |-> sender[n].seq,
                block |-> b, data |-> ckpt[n][b.sm]]
\* The end carries the history of what has been sent.
EndMsg(n) == [flag |-> "END", uuid |-> sender[n].uuid, seq |-> sender[n].seq,
              torn |-> torn[n] \/ raced[n]]

\* Learner::AskforCheckpoint and SendCheckpointAck.
AskMsg == [flag |-> "ASK"]
AckMsg(m, ok) == [flag |-> "ACK", uuid |-> m.uuid, seq |-> m.seq, ok |-> ok]

NoSender == [pc |-> "none", to |-> CHOOSE n \in Node : TRUE, uuid |-> 0,
             seq |-> 0, left |-> {}, ack |-> 0, end |-> FALSE,
             needContinue |-> FALSE, asleep |-> FALSE]
NoReceiver == [uuid |-> 0, seq |-> 0]
NoFiles == [s \in SM |-> <<>>]

Ended(n) == sender[n].pc \in {"none", "ended"}
Sending(n) == sender[n].pc \in {"begin", "blocks"}

Arrives(m, n) == up[n] = "up" /\ net[m][n] # <<>>
Received(m, n) == net' = [net EXCEPT ![m][n] = Tail(@)]
Answer(m, n, msg) == net' = [[net EXCEPT ![m][n] = Tail(@)]
                                 EXCEPT ![n][m] = Append(@, msg)]
Post(n, m, msgs) == net' = [net EXCEPT ![n][m] = @ \o msgs]

-----------------------------------------------------------------------------
(* The node that is behind *)

\* Learner::OnSendNowInstanceID finds a minimum above its instance and
\* PrepareForAskforCheckpoint agrees: enough nodes have said so, or it is
\* long enough that the first one has.
AskforCheckpoint(n, m) ==
    /\ up[n] = "up" /\ up[m] = "up" /\ ~asking[n] /\ asks < MaxAsks
    /\ now[n] < now[m] /\ now[n] < minCache[m]
    /\ asking' = [asking EXCEPT ![n] = TRUE]
    /\ asks' = asks + 1
    /\ Post(n, m, <<AskMsg>>)
    /\ UNCHANGED <<logVars, sender, receiver, tmp, sessions, history>>

\* Learner::AskforLearn_Noop, whose timer runs, ends the mode.
ExitCheckpointMode(n) ==
    /\ up[n] = "up" /\ asking[n]
    /\ asking' = [asking EXCEPT ![n] = FALSE]
    /\ UNCHANGED <<logVars, sender, receiver, tmp, net, asks, sessions, history>>

-----------------------------------------------------------------------------
(* CheckpointSender *)

\* Learner::OnAskforCheckpoint and GetNewCheckpointSender: one at a time.
\* In the mode itself, the node ignores it (Instance::OnReceive).
OnAskforCheckpoint(m, n) ==
    /\ Arrives(m, n) /\ Head(net[m][n]).flag = "ASK"
    /\ Received(m, n)
    /\ IF ~asking[n] /\ Ended(n)
       THEN /\ sessions' = sessions + 1
            /\ sender' = [sender EXCEPT ![n] = [NoSender EXCEPT
                    !.pc = "pausing", !.to = m, !.uuid = sessions + 1]]
       ELSE UNCHANGED <<sessions, sender>>
    /\ UNCHANGED <<logVars, asking, receiver, tmp, asks, history>>

SenderAt(n, pc) == sender' = [sender EXCEPT ![n].pc = pc]

\* A slip: the replayer is told to pause and not waited for.
WaitReplayerNot(n) ==
    /\ up[n] = "up" /\ sender[n].pc = "pausing"
    /\ sender' = [sender EXCEPT ![n].pc = "locking",
                                 ![n].needContinue = ~isPaused[n]]
    /\ Pause(n)
    /\ UNCHANGED <<up, now, log, ckpt, missed, minSaved, minCache, cleanerVars,
                   isPaused, replayer, events, asking, receiver, tmp, net, asks,
                   sessions, history>>

\* CheckpointSender::run until the replayer says that it is paused.
WaitReplayer(n) ==
    /\ up[n] = "up" /\ sender[n].pc = "pausing"
    /\ \/ isPaused[n] /\ SenderAt(n, "locking") /\ UNCHANGED canRun
       \/ ~isPaused[n] /\ sender[n].end /\ SenderAt(n, "ended") /\ UNCHANGED canRun
       \/ /\ ~isPaused[n] /\ ~sender[n].end
          /\ canRun[n] \/ ~sender[n].needContinue
          /\ sender' = [sender EXCEPT ![n].needContinue = TRUE]
          /\ Pause(n)
    /\ UNCHANGED <<up, now, log, ckpt, missed, minSaved, minCache, cleanerVars,
                   isPaused, replayer, events, asking, receiver, tmp, net, asks,
                   sessions, history>>

\* CheckpointSender::LockCheckpoint.
LockCheckpoint(n) ==
    /\ up[n] = "up" /\ sender[n].pc = "locking"
    /\ \/ SenderAt(n, "begin") /\ UNCHANGED events
       \/ /\ events < MaxEvents /\ events' = events + 1
          /\ SenderAt(n, "finishing")
    /\ UNCHANGED <<up, now, log, ckpt, missed, minSaved, minCache, cleanerVars,
                   replayVars, asking, receiver, tmp, net, asks, sessions,
                   history>>

\* CheckpointSender::SendCheckpoint sends the begin twice and ends if it cannot
\* send one of them, ...
SendCheckpointBegin(n) ==
    /\ up[n] = "up" /\ sender[n].pc = "begin"
    /\ \/ /\ Post(n, sender[n].to, <<BeginMsg(n), BeginMsg(n)>>)
          /\ sender' = [sender EXCEPT ![n].pc = "blocks", ![n].seq = 1,
                                       ![n].left = BlocksHeld(ckpt[n])]
       \/ /\ Post(n, sender[n].to, <<BeginMsg(n)>>) \/ UNCHANGED net
          /\ SenderAt(n, "finishing")
    /\ UNCHANGED <<logVars, asking, receiver, tmp, asks, sessions, history>>

\* CheckpointSender::CheckAck lets the sender lead by so many acks.
CheckAck(n) == sender[n].seq <= sender[n].ack + Lead

\* The sender has a block to send and does not sleep.
AtBlock(n) ==
    /\ up[n] = "up" /\ sender[n].pc = "blocks" /\ sender[n].left # {}
    /\ ~sender[n].asleep

\* ... then a block, SendFile and SendBuffer, ...
SendBuffer(n) ==
    /\ AtBlock(n) /\ ~sender[n].end /\ CheckAck(n)
    /\ Post(n, sender[n].to, <<BlockMsg(n)>>)
    /\ sender' = [sender EXCEPT ![n].seq = @ + 1,
                                 ![n].left = @ \ {First(@)}]
    /\ UNCHANGED <<logVars, asking, receiver, tmp, asks, sessions, history>>

\* ... which the queue to the receiver may refuse (MessageEvent::AddMessage):
\* the sender sleeps and tries again, as often as it takes, ...
SendFails(n) ==
    /\ AtBlock(n) /\ ~sender[n].end /\ CheckAck(n)
    /\ sender' = [sender EXCEPT ![n].asleep = TRUE]
    /\ UNCHANGED <<logVars, asking, receiver, tmp, net, asks, sessions, history>>

WakesUp(n) ==
    /\ up[n] = "up" /\ sender[n].asleep
    /\ sender' = [sender EXCEPT ![n].asleep = FALSE]
    /\ UNCHANGED <<logVars, asking, receiver, tmp, net, asks, sessions, history>>

\* A slip: without an ack the sender waits until it is told to end.
GiveUpWhenTold(n) ==
    /\ AtBlock(n) /\ sender[n].end
    /\ SenderAt(n, "finishing")
    /\ UNCHANGED <<logVars, asking, receiver, tmp, net, asks, sessions, history>>

\* ... or gives up: it is told to end, no ack comes in Checkpoint_ACK_TIMEOUT
\* or a file cannot be read, ...
GiveUp(n) ==
    /\ AtBlock(n)
    /\ \/ (sender[n].end \/ ~CheckAck(n)) /\ UNCHANGED events
       \/ events < MaxEvents /\ events' = events + 1
    /\ SenderAt(n, "finishing")
    /\ UNCHANGED <<up, now, log, ckpt, missed, minSaved, minCache, cleanerVars,
                   replayVars, asking, receiver, tmp, net, asks, sessions,
                   history>>

\* ... and last the end, which is not sent again if that fails.
SendCheckpointEnd(n) ==
    /\ up[n] = "up" /\ sender[n].pc = "blocks" /\ sender[n].left = {}
    /\ Post(n, sender[n].to, <<EndMsg(n)>>) \/ UNCHANGED net
    /\ SenderAt(n, "finishing")
    /\ UNCHANGED <<logVars, asking, receiver, tmp, asks, sessions, history>>

\* CheckpointSender::run after UnLockCheckpoint.  What nobody reads of a sender
\* that has ended is forgotten.
Finish(n) ==
    /\ up[n] = "up" /\ sender[n].pc = "finishing"
    /\ sender' = [sender EXCEPT ![n] = [@ EXCEPT
            !.pc = "ended", !.ack = 0, !.end = FALSE, !.needContinue = FALSE]]
    /\ IF sender[n].needContinue
       THEN /\ Continue(n)
            /\ raced' = [raced EXCEPT ![n] = @ \/ replayer[n].pc = "pausing"]
       ELSE UNCHANGED <<canRun, isPaused, raced>>
    /\ UNCHANGED <<up, now, log, ckpt, missed, minSaved, minCache, cleanerVars,
                   replayer, events, asking, receiver, tmp, net, asks, sessions,
                   phase, torn>>

\* CheckpointSender::Ack.
Acked(s, m, ack) ==
    IF s.to = m /\ s.uuid = ack.uuid /\ s.ack = ack.seq
    THEN [s EXCEPT !.ack = @ + 1] ELSE s

\* Learner::OnSendCheckpointAck: a failure ends whatever sender there is.
OnSendCheckpointAck(m, n) ==
    LET ack == Head(net[m][n])
    IN  /\ Arrives(m, n) /\ ack.flag = "ACK"
        /\ Received(m, n)
        /\ sender' = [sender EXCEPT ![n] =
                IF Ended(n) THEN @
                ELSE IF ack.ok THEN Acked(@, m, ack) ELSE [@ EXCEPT !.end = TRUE]]
        /\ UNCHANGED <<logVars, asking, receiver, tmp, asks, sessions, history>>

-----------------------------------------------------------------------------
(* CheckpointReceiver *)

\* The log has been cleared and nothing written since.
Clearing(n) == phase[n] \in {"cleared", "hollow"}

\* The node handles the first message from m, of that kind.
Handles(m, n, flag) ==
    Arrives(m, n) /\ Head(net[m][n]).flag = flag /\ asking[n]

\* Learner::OnSendCheckpoint after the handler of the kind.
Accept(m, n, r) ==
    /\ receiver' = [receiver EXCEPT ![n] = r]
    /\ Answer(m, n, AckMsg(Head(net[m][n]), TRUE))
Reject(m, n) ==
    /\ receiver' = [receiver EXCEPT ![n] = NoReceiver]
    /\ Answer(m, n, AckMsg(Head(net[m][n]), FALSE))

\* Instance::OnReceiveCheckpointMsg outside the mode.
IgnoreCheckpointMsg(m, n) ==
    /\ Arrives(m, n) /\ Head(net[m][n]).flag \in {"BEGIN", "ING", "END"}
    /\ ~asking[n]
    /\ Received(m, n)
    /\ UNCHANGED <<logVars, asking, sender, receiver, tmp, asks, sessions,
                   history>>

\* A slip: the files of an earlier transfer stay.
NewReceiverKeeping(n) ==
    /\ log' = [log EXCEPT ![n] = {}]
    /\ UNCHANGED tmp

\* CheckpointReceiver::NewReceiver: Database::ClearAllLog drops the minimum
\* on the disk with the records.
NewReceiver(n) ==
    /\ tmp' = [tmp EXCEPT ![n] = NoFiles]
    /\ log' = [log EXCEPT ![n] = {}]

\* Learner::OnSendCheckpoint_Begin.  It can fail before or after the log is
\* cleared.
OnSendCheckpoint_Begin(m, n) ==
    LET msg == Head(net[m][n])
    IN  /\ Handles(m, n, "BEGIN")
        /\ \/ /\ NewReceiver(n)
              /\ SetMin(n, msg.cp)
              /\ Accept(m, n, [uuid |-> msg.uuid, seq |-> 0])
              /\ phase' = [phase EXCEPT ![n] =
                    IF now[n] <= msg.cp + 1 THEN "cleared" ELSE "hollow"]
              /\ UNCHANGED events
           \/ /\ events < MaxEvents /\ events' = events + 1
              /\ \/ UNCHANGED <<tmp, log, minSaved, phase>>
                 \/ /\ NewReceiver(n)
                    /\ minSaved' = [minSaved EXCEPT ![n] = 0]
                    /\ phase' = [phase EXCEPT ![n] = "hollow"]
              /\ Reject(m, n)
              /\ UNCHANGED minCache
        /\ UNCHANGED <<up, now, ckpt, missed, cleanerVars, replayVars, asking,
                       sender, asks, sessions, torn, raced>>

\* The next block the receiver waits for, at the end of its file.
Expected(n, msg) ==
    /\ msg.uuid = receiver[n].uuid /\ msg.seq = receiver[n].seq + 1
    /\ Len(tmp[n][msg.block.sm]) = msg.block.off - 1

\* CheckpointReceiver::ReceiveCheckpoint.
OnSendCheckpoint_Ing(m, n) ==
    LET msg == Head(net[m][n])
        again == msg.uuid = receiver[n].uuid /\ msg.seq = receiver[n].seq
        written == [uuid |-> msg.uuid, off |-> msg.block.off, data |-> msg.data]
    IN  /\ Handles(m, n, "ING")
        /\ \/ /\ again \/ Expected(n, msg)
              /\ tmp' = IF again THEN tmp
                        ELSE [tmp EXCEPT ![n][msg.block.sm] = Append(@, written)]
              /\ Accept(m, n, [receiver[n] EXCEPT !.seq = msg.seq])
              /\ UNCHANGED events
           \/ /\ ~again
              /\ Expected(n, msg) => events < MaxEvents
              /\ events' = IF Expected(n, msg) THEN events + 1 ELSE events
              /\ Reject(m, n)
              /\ UNCHANGED tmp
        /\ UNCHANGED <<up, now, log, ckpt, missed, minSaved, minCache,
                       cleanerVars, replayVars, asking, sender, asks, sessions,
                       history>>

\* A slip: the end of the same sender will do.
IsReceiverFinishAnyway(n, msg) == msg.uuid = receiver[n].uuid

\* CheckpointReceiver::IsReceiverFinish.
IsReceiverFinish(n, msg) ==
    msg.uuid = receiver[n].uuid /\ msg.seq = receiver[n].seq + 1

\* StateMachine::LoadCheckpointState of those of the first k state machines
\* that have files: each then holds what its files do.
Load(n, k) ==
    ckpt' = [ckpt EXCEPT ![n] = [s \in SM |->
        IF tmp[n][s] # <<>> /\ \E i \in 1..k : SMList[i] = s
        THEN Last(tmp[n][s]).data ELSE @[s]]]

\* A state machine without files keeps a checkpoint of its own.
KeepsOwn(n) == \E s \in SM : tmp[n][s] = <<>> /\ ckpt[n][s] # {}

\* Learner::OnSendCheckpoint_End: all state machines load and the process
\* exits, or one fails, or the process stops between two of them.  The node
\* may be sending its own checkpoint meanwhile.
OnSendCheckpoint_End(m, n) ==
    LET msg == Head(net[m][n])
    IN  /\ Handles(m, n, "END")
        /\ \/ /\ ~IsReceiverFinish(n, msg)
              /\ Reject(m, n)
              /\ UNCHANGED <<ckpt, up, events, torn, raced>>
           \/ /\ IsReceiverFinish(n, msg)
              /\ Load(n, Len(SMList))
              /\ Stopped(n)
              /\ Received(m, n)
              /\ torn' = [torn EXCEPT ![n] = msg.torn \/ KeepsOwn(n)]
              /\ raced' = [raced EXCEPT ![n] = @ \/ ~Ended(n)]
              /\ UNCHANGED <<events, receiver>>
           \/ /\ IsReceiverFinish(n, msg)
              /\ events < MaxEvents /\ events' = events + 1
              /\ \E k \in 1..Len(SMList) :
                    tmp[n][SMList[k]] # <<>> /\ Load(n, k - 1)
              /\ torn' = [torn EXCEPT ![n] = @ \/ ckpt'[n] # ckpt[n]]
              /\ raced' = [raced EXCEPT ![n] = @ \/ ~Ended(n)]
              /\ \/ Reject(m, n) /\ UNCHANGED up
                 \/ Stopped(n) /\ Received(m, n) /\ UNCHANGED receiver
        /\ UNCHANGED <<now, log, missed, minSaved, minCache, cleanerVars,
                       replayVars, asking, sender, tmp, asks, sessions, phase>>

-----------------------------------------------------------------------------
(* The network and the other steps of a node *)

\* A connection breaks.
Lose(m, n) ==
    /\ net[m][n] # <<>> /\ events < MaxEvents
    /\ events' = events + 1
    /\ \E i \in 1..Len(net[m][n]) :
          net' = [net EXCEPT ![m][n] = RemoveAt(@, i)]
    /\ UNCHANGED <<up, now, log, ckpt, missed, minSaved, minCache, cleanerVars,
                   replayVars, asking, sender, receiver, tmp, asks, sessions,
                   history>>

\* A value is learned, from a peer or as the chosen one, outside the mode.
Learn(n) ==
    /\ ~asking[n]
    /\ Chosen(n) \/ \E m \in Node : LearnFrom(n, m)
    /\ phase' = [phase EXCEPT ![n] = IF Clearing(n) THEN "mixed" ELSE @]
    /\ UNCHANGED <<transferVars, torn, raced>>

\* The cleaner goes on although the log has been cleared under it.
Clean(n) ==
    /\ CleanerReads(n) \/ DeleteOne(n) \/ DeleteFails(n)
    /\ phase' = [phase EXCEPT ![n] =
            IF Clearing(n) /\ cleaner[n].busy THEN "mixed" ELSE @]
    /\ UNCHANGED <<transferVars, torn, raced>>

Replay(n) ==
    /\ ReplayerTests(n) \/ ReplayerPauses(n) \/ PlayOne(n)
    /\ UNCHANGED <<transferVars, history>>

User(n) ==
    /\ UserPauses(n) \/ UserContinues(n)
    /\ raced' = [raced EXCEPT ![n] =
            \/ @
            \/ canRun'[n] /\ (replayer[n].pc = "pausing" \/ ~Ended(n))]
    /\ UNCHANGED <<transferVars, phase, torn>>

\* A process that stops takes its sender, its receiver and its connections
\* with it.
Fall(n) ==
    /\ Crash(n)
    /\ UNCHANGED <<transferVars, history>>

Rise(n) ==
    /\ Restart(n) \/ Refuse(n)
    /\ asking' = [asking EXCEPT ![n] = FALSE]
    /\ sender' = [sender EXCEPT ![n] = NoSender]
    /\ receiver' = [receiver EXCEPT ![n] = NoReceiver]
    /\ net' = [m \in Node |-> [k \in Node |->
                    IF n \in {m, k} THEN <<>> ELSE net[m][k]]]
    /\ phase' = [phase EXCEPT ![n] =
            IF ~Clearing(n) THEN @
            ELSE IF StartMin(n) <= CPInstanceID(n) THEN "none" ELSE "cleared"]
    /\ raced' = [raced EXCEPT ![n] = FALSE]
    /\ UNCHANGED <<tmp, asks, sessions, torn>>

-----------------------------------------------------------------------------

Init ==
    /\ LogInit
    /\ asking = [n \in Node |-> FALSE]
    /\ sender = [n \in Node |-> NoSender]
    /\ receiver = [n \in Node |-> NoReceiver]
    /\ tmp = [n \in Node |-> NoFiles]
    /\ net = [m \in Node |-> [n \in Node |-> <<>>]]
    /\ asks = 0 /\ sessions = 0
    /\ phase = [n \in Node |-> "none"]
    /\ torn = [n \in Node |-> FALSE] /\ raced = [n \in Node |-> FALSE]

SenderStep(n) ==
    \/ WaitReplayer(n) \/ LockCheckpoint(n) \/ SendCheckpointBegin(n)
    \/ SendBuffer(n) \/ SendFails(n) \/ WakesUp(n) \/ GiveUp(n)
    \/ SendCheckpointEnd(n) \/ Finish(n)

Deliver(m, n) ==
    \/ OnAskforCheckpoint(m, n) \/ OnSendCheckpointAck(m, n)
    \/ IgnoreCheckpointMsg(m, n)
    \/ OnSendCheckpoint_Begin(m, n) \/ OnSendCheckpoint_Ing(m, n)
    \/ OnSendCheckpoint_End(m, n)

Next ==
    \/ \E n \in Node :
          \/ Learn(n) \/ Clean(n) \/ Replay(n) \/ User(n) \/ Fall(n) \/ Rise(n)
          \/ SenderStep(n) \/ ExitCheckpointMode(n)
    \/ \E m, n \in Node : AskforCheckpoint(m, n)
    \/ \E m \in Node : \E n \in {k \in Node : net[m][k] # <<>>} :
          Deliver(m, n) \/ Lose(m, n)

\* The senders and the replayers are threads that go on, and time passes.  That
\* a message is ever taken into the queue is not assumed.  The subscripts are
\* what every one of these steps changes.
Fairness ==
    /\ \A n \in Node : WF_<<sender, canRun>>(~Ended(n) /\ SenderStep(n))
    /\ \A n \in Replayers : WF_replayer(Replay(n))

Spec == Init /\ [][Next]_vars
LiveSpec == Spec /\ Fairness

-----------------------------------------------------------------------------

\* The types of the two modules' variables.
TypeOK ==
    /\ LogTypeOK
    /\ asking \in [Node -> BOOLEAN]
    /\ sender \in [Node ->
            [pc : {"none", "pausing", "locking", "begin", "blocks", "finishing",
                   "ended"},
             to : Node, uuid : 0..sessions, seq : 0..(Cardinality(Block) + 1),
             left : SUBSET Block, ack : Nat, end : BOOLEAN,
             needContinue : BOOLEAN, asleep : BOOLEAN]]
    /\ receiver \in [Node -> [uuid : 0..sessions, seq : 0..Cardinality(Block)]]
    /\ asks \in 0..MaxAsks /\ sessions \in Nat
    /\ phase \in [Node -> {"none", "cleared", "hollow", "mixed"}]
    /\ torn \in [Node -> BOOLEAN] /\ raced \in [Node -> BOOLEAN]

\* A node that offers the instances from its minimum on (OnAskforLearn) has
\* the record of every one of them but the minimum itself, which the cleaner
\* has deleted when it caches it (SetMinChosenInstanceIDCache): through lost
\* saves, crashes and FixMinChosenInstanceID, unless a transfer broke off or
\* its first message came when the node had learned more than it brings.
OnlyMinMissing ==
    \A n \in Node : up[n] = "up" /\ phase[n] \notin {"hollow", "mixed"} =>
        (minCache[n] + 1)..(now[n] - 1) \subseteq log[n]

\* Instance::Init succeeds whatever the cleaner, a crash or a transfer left,
\* unless the node has written or cleaned its log after ClearAllLog, before it
\* has started with a checkpoint that reaches the minimum.
RestartsOK == \A n \in Node : up[n] = "refused" => phase[n] = "mixed"

\* The state machines a node runs have executed every instance before its
\* current one: the checkpoint and the records played on it leave no gap,
\* unless only some of the state machines have loaded a checkpoint or one
\* was read while it changed, here or at a node it has come from.
NoGap == \A n \in Node : up[n] = "up" /\ missed[n] # {} => torn[n]

\* A node comes back after whatever befell log and checkpoint, and whole.
RecoversWhole == RestartsOK /\ NoGap

\* What the receiver counts is what it has: the first blocks of one sender,
\* each once and in their order.
ReceivedInOrder ==
    \A n \in Node : LET r == receiver[n]
                        files == tmp[n]
                        got == UNION {{s} \X DOMAIN files[s] : s \in SM}
                    IN  up[n] = "up" /\ r.uuid # 0 =>
        /\ Cardinality(got) = r.seq
        /\ \A g \in got : LET b == files[g[1]][g[2]]
                         IN  b.uuid = r.uuid /\ b.off = g[2]
        /\ \A i, j \in 1..Len(SMList) :
              i < j /\ files[SMList[i]] # <<>> /\ files[SMList[j]] # <<>> =>
                Len(files[SMList[i]]) = BlocksOf[SMList[i]]

\* Both ends of a transfer: their types, and what the one has of the other.
TransferInv == TypeOK /\ ReceivedInOrder

\* The checkpoint does not change while a sender reads it: the replayer has
\* stopped before the state machines are locked, unless a call of Continue
\* met the replayer as it paused, the user called it meanwhile, or the node
\* loads the checkpoint of another one while it sends its own.
SendsFrozen ==
    [][\A n \in Node : Sending(n) /\ ~raced'[n] => ckpt'[n] = ckpt[n]]_vars

\* The user of a node without a replayer has called Continue: nothing ever says
\* again that it is paused.
NobodyPauses(n) ==
    replayer[n].pc = "off" /\ sender[n].pc = "pausing" /\ ~isPaused[n]

\* Once nobody asks any more a sender ends, however many of its blocks, acks or
\* their receiver are lost, so that the node can serve the next request; only a
\* node that has stopped still has one.  There are two ways not to end: the
\* queue refuses the same block again and again, for which SendBuffer has no
\* limit, and run() waits for a replayer that was never started.  (The same as
\* ~Ended(n) ~> the formula below, for it holds while the sender has ended.)
SendersEnd ==
    \A n \in Node : []<>(\/ Ended(n) \/ up[n] # "up"
                        \/ sender[n].asleep \/ NobodyPauses(n))

=============================================================================
