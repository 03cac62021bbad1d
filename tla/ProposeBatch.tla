---------------------------- MODULE ProposeBatch ----------------------------
(***************************************************************************)
(* Node::BatchPropose of one group: threads queue their values and wait on *)
(* a notifier; the thread that fills the queue, or a daemon thread when    *)
(* the oldest value has waited long enough, takes values off the queue and *)
(* proposes them as one.  This module has the queue and the threads;       *)
(* Application answers what they propose.                                  *)
(***************************************************************************)
EXTENDS Integers, Sequences, FiniteSets, SequencesExt

CONSTANTS
    Caller,      \* threads that call BatchPropose
    Batcher,     \* the thread that runs ProposeBatch::Run
    Big,         \* callers whose values fill a batch by their size
    MaxSize,     \* m_iBatchMaxSize, in units of the other callers' values
    BatchCount,  \* m_iBatchCount
    MaxBatched   \* bound: calls of a caller

ASSUME BatchAssumption ==
    /\ IsFiniteSet(Caller) /\ Batcher \notin Caller /\ Big \subseteq Caller
    /\ MaxSize \in Nat \ {0} /\ BatchCount \in Nat \ {0} /\ MaxBatched \in Nat

VARIABLES
    pc,          \* where a caller is
    batched,     \* calls a caller has made
    queue,       \* m_oQueue, by caller
    queueSize,   \* m_iNowQueueValueSize
    isEnd,       \* m_bIsEnd
    isStarted,   \* m_bIsStarted
    batcher,     \* where Run is
    request,     \* vecRequest of each thread that runs DoPropose
    notified,    \* the results written to each caller's pipe
    place        \* what *pllInstanceID and *piBatchIndex are

batchVars == <<pc, batched, queue, queueSize, isEnd, isStarted,
               batcher, request, notified, place>>

Threads == Caller \cup {Batcher}
Unset   == -1
NoPlace == [inst |-> 0, index |-> Unset]

BatchInit ==
    /\ pc = [c \in Caller |-> "idle"]
    /\ batched = [c \in Caller |-> 0]
    /\ queue = <<>>
    /\ queueSize = 0
    /\ isEnd = FALSE
    /\ isStarted = FALSE
    /\ batcher = "new"
    /\ request = [t \in Threads |-> <<>>]
    /\ notified = [c \in Caller |-> <<>>]
    /\ place = [c \in Caller |-> NoPlace]
-----------------------------------------------------------------------------
(* The queue, under m_oMutex.                                              *)

Size(c) == IF c \in Big THEN MaxSize ELSE 1
SizeOf(q) ==
    LET sum[n \in 0 .. Len(q)] ==
          IF n = 0 THEN 0 ELSE sum[n - 1] + Size(q[n])
    IN  sum[Len(q)]

(* NeedBatch; late is that the oldest value has waited m_iBatchDelayTimeMs.*)
NeedBatch(q, size, late) ==
    \/ Len(q) >= BatchCount
    \/ size >= MaxSize
    \/ q # <<>> /\ late

(* PluckProposal takes values until they are enough or there are no more.  *)
Enough(q, n) == n >= BatchCount \/ SizeOf(SubSeq(q, 1, n)) >= MaxSize
Plucked(q) ==
    LET enough == {n \in 1 .. Len(q) : Enough(q, n)}
    IN  IF enough = {} THEN Len(q)
        ELSE CHOOSE n \in enough : \A m \in enough : n <= m

PluckProposal(t, q, size) ==
    LET n == Plucked(q)
    IN  /\ request' = [request EXCEPT ![t] = SubSeq(q, 1, n)]
        /\ queue' = SubSeq(q, n + 1, Len(q))
        /\ queueSize' = size - SizeOf(SubSeq(q, 1, n))
-----------------------------------------------------------------------------
(* The callers.                                                            *)

(* Propose up to GetNotifier: m_bIsEnd is read without the lock.           *)
Propose(c) ==
    /\ pc[c] = "idle"
    /\ batched[c] < MaxBatched
    /\ ~isEnd
    /\ pc' = [pc EXCEPT ![c] = "add"]
    /\ batched' = [batched EXCEPT ![c] = @ + 1]
    /\ place' = [place EXCEPT ![c] = NoPlace]
    /\ UNCHANGED <<queue, queueSize, isEnd, isStarted, batcher,
                   request, notified>>

(* AddProposal: the caller queues its value and, if that is enough for a   *)
(* batch, takes one off the queue and proposes it itself.                  *)
AddProposal(c) ==
    LET q == Append(queue, c)
        size == queueSize + Size(c)
    IN  /\ pc[c] = "add"
        /\ \E late \in BOOLEAN :
              IF NeedBatch(q, size, late)
                THEN /\ PluckProposal(c, q, size)
                     /\ pc' = [pc EXCEPT ![c] = "propose"]
                ELSE /\ queue' = q
                     /\ queueSize' = size
                     /\ pc' = [pc EXCEPT ![c] = "wait"]
                     /\ UNCHANGED request
        /\ UNCHANGED <<batched, isEnd, isStarted, batcher,
                       notified, place>>

(* WaitNotify reads one result from the caller's pipe; Propose returns it. *)
WaitNotify(c) ==
    /\ pc[c] = "wait"
    /\ notified[c] # <<>>
    /\ pc' = [pc EXCEPT ![c] = "idle"]
    /\ notified' = [notified EXCEPT ![c] = Tail(@)]
    /\ UNCHANGED <<batched, queue, queueSize, isEnd, isStarted,
                   batcher, request, place>>
-----------------------------------------------------------------------------
(* Run, the daemon thread.                                                 *)

RunStarts ==
    /\ batcher = "new"
    /\ isStarted' = TRUE
    /\ batcher' = "loop"
    /\ UNCHANGED <<pc, batched, queue, queueSize, isEnd, request,
                   notified, place>>

(* One turn of the loop, which does not look at the age of the values.  It *)
(* waits after a turn, but Stop or the time may end that at any moment.    *)
RunLoops ==
    /\ batcher = "loop"
    /\ IF isEnd
         THEN /\ batcher' = "drain"
              /\ UNCHANGED <<queue, queueSize, request>>
         ELSE /\ PluckProposal(Batcher, queue, queueSize)
              /\ queue # <<>>
              /\ batcher' = "propose"
    /\ UNCHANGED <<pc, batched, isEnd, isStarted, notified, place>>

(* Mutant of RunEnds: the callers of the values left are not told.         *)
RunEndsSilently ==
    /\ batcher = "drain"
    /\ queue' = <<>>
    /\ batcher' = "ended"
    /\ UNCHANGED <<pc, batched, queueSize, isEnd, isStarted, request, notified,
                   place>>

(* After the loop the lock is taken anew, and whoever waits in the queue   *)
(* by then is told Paxos_SystemError.                                      *)
RunEnds ==
    /\ batcher = "drain"
    /\ notified' = [c \in Caller |->
          IF c \in Range(queue) THEN Append(notified[c], "SystemError")
          ELSE notified[c]]
    /\ queue' = <<>>
    /\ batcher' = "ended"
    /\ UNCHANGED <<pc, batched, queueSize, isEnd, isStarted,
                   request, place>>

(* Stop; it then joins the thread.  Without m_bIsStarted it does nothing,  *)
(* and deleting the running thread ends the process.                       *)
Stop ==
    /\ isStarted
    /\ isEnd' = TRUE
    /\ UNCHANGED <<pc, batched, queue, queueSize, isStarted,
                   batcher, request, notified, place>>

-----------------------------------------------------------------------------
(* DoPropose, in the thread of a caller or of Run.                         *)

Proposing(t) == IF t = Batcher THEN batcher = "propose" ELSE pc[t] = "propose"

(* Mutant of Placed: the places of a batch are counted from one.           *)
PlacedFromOne(r, inst) ==
    [c \in Caller |->
        IF c \notin Range(r) THEN place[c]
        ELSE [inst  |-> inst,
              index |-> IF Len(r) = 1 THEN Unset
                        ELSE CHOOSE i \in DOMAIN r : r[i] = c]]

(* OnlyOnePropose leaves *piBatchIndex as it is, Unset here.               *)
Placed(r, inst) ==
    [c \in Caller |->
        IF c \notin Range(r) THEN place[c]
        ELSE [inst  |-> inst,
              index |-> IF Len(r) = 1 THEN Unset
                        ELSE (CHOOSE i \in DOMAIN r : r[i] = c) - 1]]

(* Node::Propose has returned ret, with the instance if it was chosen:     *)
(* every caller of the batch is told.                                      *)
ProposeReturns(t, ret, inst) ==
    /\ Proposing(t)
    /\ notified' = [c \in Caller |->
          IF c \in Range(request[t]) THEN Append(notified[c], ret)
          ELSE notified[c]]
    /\ place' = Placed(request[t], inst)
    /\ request' = [request EXCEPT ![t] = <<>>]
    /\ IF t = Batcher
         THEN batcher' = "loop" /\ UNCHANGED pc
         ELSE pc' = [pc EXCEPT ![t] = "wait"] /\ UNCHANGED batcher
    /\ UNCHANGED <<batched, queue, queueSize, isEnd, isStarted>>

(* The process has died; a new one starts with new threads.                *)
RestartBatch ==
    /\ pc' = [c \in Caller |-> "idle"]
    /\ queue' = <<>>
    /\ queueSize' = 0
    /\ isEnd' = FALSE
    /\ isStarted' = FALSE
    /\ batcher' = "new"
    /\ request' = [t \in Threads |-> <<>>]
    /\ notified' = [c \in Caller |-> <<>>]
    /\ place' = [c \in Caller |-> NoPlace]
    /\ UNCHANGED batched
=============================================================================
