------------------------------ MODULE LogCleaning ----------------------------
(***************************************************************************)
(* How a node's log grows at one end and is deleted at the other: the      *)
(* checkpoints of its state machines, the Replayer that advances them from *)
(* the log, the Cleaner that deletes what they cover, and the start of an  *)
(* Instance, which plays what is left of the log on the checkpoint.        *)
(*                                                                         *)
(* Instance i holds a value of the state machine SMOf[i].  A state machine *)
(* is the set of the instances it has executed; only the one in its        *)
(* checkpoint survives a restart.  The log is the set of the instances     *)
(* that have a record.                                                     *)
(***************************************************************************)
EXTENDS Integers, FiniteSets, FiniteSetsExt

CONSTANTS
    Node,
    SM,             \* the user's state machines
    SMOf,           \* whose value an instance holds
    StartAt,        \* the instance a node is in at first, its log complete
    Interval,       \* DELETE_SAVE_INTERVAL
    Hold,           \* m_llHoldCount
    Cleaners,       \* the nodes whose cleaner runs
    Replayers,      \* the nodes that have used a replayer
    Faulty,         \* bound: the nodes that crash
    MaxInstance,    \* bound: instances
    MaxEvents       \* bound: crashes, calls that fail and calls of the user

ASSUME CleaningAssumption ==
    /\ MaxInstance \in Nat /\ MaxEvents \in Nat /\ Hold \in Nat
    /\ Interval \in Nat \ {0}
    /\ SMOf \in [0..MaxInstance -> SM]
    /\ StartAt \in [Node -> 0..MaxInstance]
    /\ Cleaners \subseteq Node /\ Replayers \subseteq Node /\ Faulty \subseteq Node

VARIABLES
    up,         \* "up", "down", or "refused" when Init has failed
    now,        \* the current instance, which is m_llMaxChosenInstanceID
    log,        \* the instances with a record
    ckpt,       \* what the checkpoint of every state machine holds
    missed,     \* instances before now its state machines have not executed
    minSaved,   \* the minimum chosen instance on the disk
    minCache,   \* m_llMinChosenInstanceID
    lastSave,   \* m_llLastSave
    cleaner,    \* run()'s llInstanceID and the limits it has read, or idle
    canRun,     \* the replayer's m_bCanrun
    isPaused,   \* the replayer's m_bIsPaused
    replayer,   \* run()'s llInstanceID and where it is in its loop, "off"
                \* without bUseCheckpointReplayer
    events

cleanerVars == <<lastSave, cleaner>>
replayVars == <<canRun, isPaused, replayer>>
logVars == <<up, now, log, ckpt, missed, minSaved, minCache, lastSave,
             cleaner, canRun, isPaused, replayer, events>>

Instances == 0..MaxInstance
NoCheckpoint == -1

\* 2^64 - 1, which NoCheckpoint is as a uint64_t: above every instance.
MaxUInt64 == MaxInstance + 1
Unsigned(i) == IF i = NoCheckpoint THEN MaxUInt64 ELSE i

Idle == [busy |-> FALSE, at |-> 0, cp |-> 0, max |-> 0]

LogTypeOK ==
    /\ up \in [Node -> {"up", "down", "refused"}]
    /\ now \in [Node -> 0..MaxUInt64]
    /\ log \in [Node -> SUBSET Instances]
    /\ ckpt \in [Node -> [SM -> SUBSET Instances]]
    /\ missed \in [Node -> SUBSET Instances]
    /\ minSaved \in [Node -> 0..MaxUInt64] /\ minCache \in [Node -> 0..MaxUInt64]
    /\ lastSave \in [Node -> Instances]
    /\ cleaner \in [Node -> [busy : BOOLEAN, at : Instances,
                             cp : 0..MaxUInt64, max : Instances]]
    /\ canRun \in [Node -> BOOLEAN] /\ isPaused \in [Node -> BOOLEAN]
    /\ replayer \in [Node -> [at : 0..MaxUInt64, 
                              pc : {"off", "top", "pausing", "playing"}]]
    /\ events \in 0..MaxEvents

-----------------------------------------------------------------------------
(* What the checkpoints say *)

\* StateMachine::GetCheckpointInstanceID: the last instance it has executed.
CheckpointOf(held) == IF held = {} THEN NoCheckpoint ELSE Max(held)

\* SMFac::GetCheckpointInstanceID: the highest one of the state machines.
GetCheckpointInstanceID(c) == Max({CheckpointOf(c[s]) : s \in SM})

\* The instance Init goes on from.
CPInstanceID(n) == GetCheckpointInstanceID(ckpt[n]) + 1

-----------------------------------------------------------------------------
(* The log at its head *)

\* Instance::NewInstance: the value of the current instance is in the log
\* and has been executed, and the node goes to the next one.
NewInstance(n) ==
    /\ log' = [log EXCEPT ![n] = @ \union {now[n]}]
    /\ now' = [now EXCEPT ![n] = @ + 1]
    /\ UNCHANGED <<up, ckpt, missed, minSaved, minCache, cleanerVars,
                   replayVars, events>>

\* A value is chosen in the instance nobody is past, or the node's acceptor
\* has a record of the instance and learns that its value is chosen.
Chosen(n) ==
    /\ up[n] = "up" /\ now[n] < MaxInstance
    /\ now[n] \in log[n] \/ \A m \in Node : now[m] <= now[n]
    /\ NewInstance(n)

\* OnAskforLearn serves an instance from its minimum on, if it has it.
Serves(m, i) == up[m] = "up" /\ minCache[m] <= i /\ i < now[m]

LearnFrom(n, m) ==
    /\ up[n] = "up" /\ Serves(m, now[n])
    /\ now[n] \in log[m]
    /\ NewInstance(n)

-----------------------------------------------------------------------------
(* Cleaner *)

\* CheckpointMgr::SetMinChosenInstanceID: on the disk, synced, and cached.
SetMin(n, i) ==
    /\ minSaved' = [minSaved EXCEPT ![n] = i]
    /\ minCache' = [minCache EXCEPT ![n] = i]

\* Cleaner::run reads its start and the two limits.
CleanerReads(n) ==
    /\ n \in Cleaners /\ up[n] = "up" /\ ~cleaner[n].busy
    /\ minCache[n] + Hold < CPInstanceID(n) /\ minCache[n] + Hold < now[n]
    /\ cleaner' = [cleaner EXCEPT ![n] =
            [busy |-> TRUE, at |-> minCache[n], cp |-> CPInstanceID(n),
             max |-> now[n]]]
    /\ UNCHANGED <<up, now, log, ckpt, missed, minSaved, minCache, lastSave,
                   replayVars, events>>

MayDelete(c) == c.at + Hold < c.cp /\ c.at + Hold < c.max

\* The interval has passed, so the minimum goes to the disk.
NeedsSave(n) == cleaner[n].at >= lastSave[n] + Interval

\* Cleaner::run after DeleteOne: the next instance, or the end of the loop.
Advance(n) ==
    LET c == [cleaner[n] EXCEPT !.at = @ + 1]
    IN  cleaner' = [cleaner EXCEPT ![n] = IF MayDelete(c) THEN c ELSE Idle]

\* Cleaner::DeleteOne.
DeleteOne(n) ==
    LET i == cleaner[n].at
    IN  /\ up[n] = "up" /\ cleaner[n].busy
        /\ log' = [log EXCEPT ![n] = @ \ {i}]
        /\ IF NeedsSave(n)
           THEN /\ SetMin(n, i + 1)
                /\ lastSave' = [lastSave EXCEPT ![n] = i]
           ELSE /\ minCache' = [minCache EXCEPT ![n] = i]
                /\ UNCHANGED <<minSaved, lastSave>>
        /\ Advance(n)
        /\ UNCHANGED <<up, now, ckpt, missed, replayVars, events>>

\* Del fails, or the minimum cannot be saved after the record is gone: the
\* loop ends either way.
DeleteFails(n) ==
    LET i == cleaner[n].at
    IN  /\ up[n] = "up" /\ cleaner[n].busy /\ events < MaxEvents
        /\ \/ UNCHANGED <<log, minCache>>
           \/ /\ NeedsSave(n)
              /\ log' = [log EXCEPT ![n] = @ \ {i}]
              /\ minCache' = [minCache EXCEPT ![n] = i]
        /\ cleaner' = [cleaner EXCEPT ![n] = Idle]
        /\ events' = events + 1
        /\ UNCHANGED <<up, now, ckpt, missed, minSaved, lastSave, replayVars>>

-----------------------------------------------------------------------------
(* Replayer *)

\* Replayer::Pause, by the user or by a sender of a checkpoint.
Pause(n) == canRun' = [canRun EXCEPT ![n] = FALSE]

\* Replayer::Continue.  An order of its two writes in which the replayer
\* comes between them ends in a state this step and its next one reach, too.
Continue(n) ==
    /\ isPaused' = [isPaused EXCEPT ![n] = FALSE]
    /\ canRun' = [canRun EXCEPT ![n] = TRUE]

PlayerAt(n, pc) == replayer' = [replayer EXCEPT ![n].pc = pc]

\* Replayer::run tests m_bCanrun, ...
ReplayerTests(n) ==
    /\ up[n] = "up" /\ replayer[n].pc = "top"
    /\ IF canRun[n]
       THEN replayer[n].at < now[n] /\ PlayerAt(n, "playing")
       ELSE PlayerAt(n, "pausing")
    /\ UNCHANGED <<up, now, log, ckpt, missed, minSaved, minCache,
                   cleanerVars, canRun, isPaused, events>>

\* ... says that it is paused, ...
ReplayerPauses(n) ==
    /\ up[n] = "up" /\ replayer[n].pc = "pausing"
    /\ isPaused' = [isPaused EXCEPT ![n] = TRUE]
    /\ PlayerAt(n, "top")
    /\ UNCHANGED <<up, now, log, ckpt, missed, minSaved, minCache,
                   cleanerVars, canRun, events>>

\* SMFac::ExecuteForCheckpoint, when the state machine of i does not fail.
ExecuteForCheckpoint(n, i) == [ckpt EXCEPT ![n][SMOf[i]] = @ \union {i}]

\* ... or executes an instance for the checkpoint.  Without the record, or
\* when the state machine fails, it tries again.
PlayOne(n) ==
    LET i == replayer[n].at
    IN  /\ up[n] = "up" /\ replayer[n].pc = "playing"
        /\ \/ /\ i \in log[n]
              /\ ckpt' = ExecuteForCheckpoint(n, i)
              /\ replayer' = [replayer EXCEPT ![n] =
                                [at |-> i + 1, pc |-> "top"]]
              /\ UNCHANGED events
           \/ /\ i \in log[n] => events < MaxEvents
              /\ events' = IF i \in log[n] THEN events + 1 ELSE events
              /\ PlayerAt(n, "top")
              /\ UNCHANGED ckpt
        /\ UNCHANGED <<up, now, log, missed, minSaved, minCache, cleanerVars,
                       canRun, isPaused>>

\* PNode::PauseCheckpointReplayer and ContinueCheckpointReplayer, whether the
\* replayer runs or not; run() does not continue by itself.
UserPauses(n) ==
    /\ up[n] = "up" /\ canRun[n] /\ events < MaxEvents
    /\ Pause(n)
    /\ events' = events + 1
    /\ UNCHANGED <<up, now, log, ckpt, missed, minSaved, minCache,
                   cleanerVars, isPaused, replayer>>

UserContinues(n) ==
    /\ up[n] = "up" /\ ~canRun[n] /\ events < MaxEvents
    /\ Continue(n)
    /\ events' = events + 1
    /\ UNCHANGED <<up, now, log, ckpt, missed, minSaved, minCache,
                   cleanerVars, replayer>>

-----------------------------------------------------------------------------
(* A node stops and starts *)

Stopped(n) == up' = [up EXCEPT ![n] = "down"]

Crash(n) ==
    /\ n \in Faulty /\ up[n] = "up" /\ events < MaxEvents
    /\ Stopped(n)
    /\ events' = events + 1
    /\ UNCHANGED <<now, log, ckpt, missed, minSaved, minCache, cleanerVars,
                   replayVars>>

\* AcceptorState::Load: the last instance in the log, 0 if it is empty.
LogMax(n) == IF log[n] = {} THEN 0 ELSE Max(log[n])

\* A slip: the minimum is taken as it was saved.
FixMinNot(n) == minSaved[n]

\* Cleaner::FixMinChosenInstanceID: past the instances that were deleted
\* after the minimum was saved, an interval at most.
FixMin(n) ==
    LET window == minSaved[n] .. minSaved[n] + Interval - 1
        stops == {i \in window : i >= CPInstanceID(n) \/ i \in log[n]}
    IN  IF stops = {} THEN minSaved[n] + Interval ELSE Min(stops)

\* Instance::PlayLog of the instances from b to the one before e.
CanPlay(n, b, e) == FixMin(n) <= b /\ b..(e - 1) \subseteq log[n]

\* Instance::ProtectionLogic_IsCheckpointInstanceIDCorrect.
Protected(cp, max) == cp > max + 1 /\ max # 0

\* Instance::Init succeeds.
CanStart(n) ==
    LET cp == CPInstanceID(n)
    IN  IF cp < LogMax(n) THEN CanPlay(n, cp, LogMax(n))
                          ELSE ~Protected(cp, LogMax(n))

\* The minimum Init leaves: without a log it becomes the checkpoint's.
StartMin(n) ==
    IF CPInstanceID(n) > LogMax(n) + 1 THEN CPInstanceID(n) ELSE FixMin(n)

\* Instance::Init and Start.
Restart(n) ==
    LET cp == CPInstanceID(n)
        start == Max({cp, LogMax(n)})
        executed == (UNION {ckpt[n][s] : s \in SM}) \union cp..(start - 1)
    IN  /\ up[n] = "down" /\ CanStart(n)
        /\ up' = [up EXCEPT ![n] = "up"]
        /\ now' = [now EXCEPT ![n] = start]
        /\ missed' = [missed EXCEPT ![n] = 0..(start - 1) \ executed]
        /\ SetMin(n, StartMin(n))
        /\ lastSave' = [lastSave EXCEPT ![n] = 0]
        /\ cleaner' = [cleaner EXCEPT ![n] = Idle]
        /\ canRun' = [canRun EXCEPT ![n] = FALSE]
        /\ isPaused' = [isPaused EXCEPT ![n] = TRUE]
        /\ replayer' = [replayer EXCEPT ![n] =
                [at |-> cp, pc |-> IF @.pc = "off" THEN "off" ELSE "top"]]
        /\ UNCHANGED <<log, ckpt, events>>

\* Init returns an error; CheckpointMgr::Init may have moved the minimum.
Refuse(n) ==
    /\ up[n] = "down" /\ ~CanStart(n)
    /\ up' = [up EXCEPT ![n] = "refused"]
    /\ SetMin(n, FixMin(n))
    /\ UNCHANGED <<now, log, ckpt, missed, cleanerVars, replayVars, events>>

-----------------------------------------------------------------------------

\* Every node is up, and its user may have continued its replayer.  A replayer
\* runs or not (bUseCheckpointReplayer); one that does not has done all it could
\* before the last start.
LogInit ==
    /\ up = [n \in Node |-> "up"]
    /\ now = StartAt
    /\ log = [n \in Node |-> 0..(StartAt[n] - 1)]
    /\ missed = [n \in Node |-> {}]
    /\ minSaved = [n \in Node |-> 0] /\ minCache = [n \in Node |-> 0]
    /\ lastSave = [n \in Node |-> 0]
    /\ cleaner = [n \in Node |-> Idle]
    /\ canRun \in {[n \in Node |-> n \in R] : R \in SUBSET Replayers}
    /\ isPaused = [n \in Node |-> ~canRun[n]]
    /\ \E R \in SUBSET Replayers :
          /\ ckpt = [n \in Node |-> [s \in SM |->
                IF n \in Replayers \ R
                THEN {i \in 0..(StartAt[n] - 1) : SMOf[i] = s} ELSE {}]]
          /\ replayer = [n \in Node |->
                [at |-> IF n \in Replayers \ R THEN StartAt[n] ELSE 0,
                 pc |-> IF n \in R THEN "top" ELSE "off"]]
    /\ events = 0

=============================================================================
