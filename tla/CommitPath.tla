------------------------------ MODULE CommitPath ------------------------------
(***************************************************************************)
(* The way of a client's value through one node: threads call              *)
(* Committer::NewValueGetID, take turns by WaitLock, put their value into  *)
(* CommitCtx and wait for the IOLoop thread, which starts the commit       *)
(* (Instance::CheckNewValue), learns the values of the instances, executes *)
(* them and sets the result.                                               *)
(*                                                                         *)
(* The rest of the group is the environment here: an instance is decided   *)
(* for a value this node has proposed in it or for the value of another    *)
(* node.  What makes that choice is the subject of PaxosGroup.             *)
(***************************************************************************)
EXTENDS Integers, FiniteSets

CONSTANTS
    Client,      \* threads that propose
    Other,       \* the values other nodes propose
    None,        \* a null pointer, no value, timer id 0
    SMFails,     \* whether the state machine's Execute may return false
    Refused,     \* clients whose values CheckNewValue refuses, as too large
    MaxWaiting,  \* WaitLock::m_iMaxWaitLockCount, -1 for no limit
    MaxCalls,    \* bound: calls of a client
    MaxOther,    \* bound: values of other nodes that are learned
    MaxLags      \* bound: times the node learns that it has fallen behind

ASSUME PathAssumption ==
    /\ IsFiniteSet(Client)
    /\ SMFails \in BOOLEAN
    /\ Refused \subseteq Client
    /\ MaxWaiting \in Nat \cup {-1}
    /\ MaxCalls \in Nat /\ MaxOther \in Nat /\ MaxLags \in Nat

(* The iRetryCount of NewValueGetID.                                       *)
MaxTries == 3

(* A call is a client's value; an attempt is one NewValueGetIDNoRetry.     *)
Calls    == Client \X (1 .. MaxCalls)
Attempts == Client \X (1 .. MaxCalls) \X (1 .. MaxTries)

ASSUME ValueAssumption == Other \notin Calls /\ None \notin Calls \cup {Other}
                          /\ None \notin Attempts

VARIABLES
    timed,          \* whether SetTimeoutMs has given calls a timeout
    pc,             \* where a client's thread is
    calls,          \* calls a client has made
    try,            \* the attempt of the call
    lockUsing,      \* WaitLock::m_bIsLockUsing
    waitCount,      \* WaitLock::m_iWaitLockCount
    notified,       \* waiting threads the condition variable has woken
    commitInst,     \* CommitCtx::m_llInstanceID, -1 before StartCommit
    commitValue,    \* CommitCtx::m_psValue
    commitCtx,      \* CommitCtx::m_poSMCtx, an object of the attempt
    commitEnd,      \* CommitCtx::m_bIsCommitEnd
    commitRet,      \* CommitCtx::m_iCommitRet
    instanceID,     \* the running instance
    behind,         \* ~Learner::IsIMLatest
    held,           \* ProposerState::m_sValue
    offered,        \* values this node has proposed in the instance
    learned,        \* LearnerState::m_sLearnedValue, if not yet executed
    commitTimer,    \* Instance::m_iCommitTimerID
    armed,          \* the commit timers in IOLoop::m_mapTimerIDExist
    executed,       \* history: <<instance, value>> executed
    handed,         \* history: <<attempt, instance>> whose SMCtx Execute got
    returned,       \* history: what calls have returned
    others,         \* history: values of other nodes learned
    lags            \* history: times the node fell behind

threadVars == <<pc, calls, try>>
lockVars   == <<lockUsing, waitCount, notified>>
ctxVars    == <<commitInst, commitValue, commitCtx, commitEnd, commitRet>>
loopVars   == <<instanceID, held, offered, learned, commitTimer, armed>>
envVars    == <<behind, lags, timed>>
pastVars   == <<executed, handed, others>>
vars == <<threadVars, lockVars, ctxVars, loopVars, envVars, pastVars,
          returned>>

Call(c)    == <<c, calls[c]>>
Attempt(c) == <<c, calls[c], try[c]>>

Init ==
    /\ timed \in BOOLEAN
    /\ pc = [c \in Client |-> "idle"]
    /\ calls = [c \in Client |-> 0]
    /\ try = [c \in Client |-> 1]
    /\ lockUsing = FALSE
    /\ waitCount = 0
    /\ notified = {}
    /\ commitInst = -1
    /\ commitValue = None
    /\ commitCtx = None
    /\ commitEnd = FALSE
    /\ commitRet = None
    /\ instanceID = 0
    /\ behind = FALSE
    /\ held = None
    /\ offered = {}
    /\ learned = None
    /\ commitTimer = None
    /\ armed = {}
    /\ executed = {}
    /\ handed = {}
    /\ returned = {}
    /\ others = 0
    /\ lags = 0
-----------------------------------------------------------------------------
(* Committer and WaitLock, in the clients' threads.                        *)

Propose(c) ==
    /\ pc[c] = "idle"
    /\ calls[c] < MaxCalls
    /\ calls' = [calls EXCEPT ![c] = @ + 1]
    /\ try' = [try EXCEPT ![c] = 1]
    /\ pc' = [pc EXCEPT ![c] = "lock"]
    /\ UNCHANGED <<lockVars, ctxVars, loopVars, envVars, pastVars, returned>>

(* A call returns; inst is the llInstanceID it sets, -1 if it sets none.   *)
Return(c, ret, inst) ==
    /\ pc' = [pc EXCEPT ![c] = "idle"]
    /\ returned' = returned \cup
            {[attempt |-> Attempt(c), ret |-> ret, inst |-> inst]}

(* CommitCtx::NewCommit by the thread that has got the lock.               *)
NewCommit(c) ==
    /\ pc' = [pc EXCEPT ![c] = "commit"]
    /\ lockUsing' = TRUE
    /\ commitInst' = -1
    /\ commitValue' = Call(c)
    /\ commitCtx' = Attempt(c)
    /\ commitEnd' = FALSE
    /\ commitRet' = None

(* WaitLock::CanLock, without the random rejections.                       *)
CanLock == MaxWaiting = -1 \/ waitCount < MaxWaiting

(* WaitLock::Lock up to the first wait.                                    *)
Lock(c) ==
    /\ pc[c] = "lock"
    /\ \/ /\ ~CanLock
          /\ Return(c, "Reject", -1)
          /\ UNCHANGED <<lockVars, ctxVars>>
       \/ /\ CanLock
          /\ ~lockUsing
          /\ NewCommit(c)
          /\ UNCHANGED <<waitCount, notified, returned>>
       \/ /\ CanLock
          /\ lockUsing
          /\ waitCount' = waitCount + 1
          /\ pc' = [pc EXCEPT ![c] = "wait"]
          /\ UNCHANGED <<lockUsing, notified, ctxVars, returned>>
    /\ UNCHANGED <<calls, try, loopVars, envVars, pastVars>>

(* Mutant of LeaveWait: a waiter that leaves stays counted.                *)
LeaveWaitCounted(c) ==
    /\ notified' = notified \ {c}
    /\ UNCHANGED waitCount

(* The loop of Lock goes on as long as another thread has the lock.        *)
MayTake == ~lockUsing

LeaveWait(c) ==
    /\ notified' = notified \ {c}
    /\ waitCount' = waitCount - 1

(* A waiting thread looks at the lock again: woken by Interupt, or, when   *)
(* it has no timeout, once a second.  If it then has less than 200 ms left *)
(* it gives the lock back (late).                                          *)
Recheck(c) ==
    /\ pc[c] = "wait"
    /\ c \in notified \/ ~timed
    /\ \/ /\ ~MayTake
          /\ notified' = notified \ {c}
          /\ UNCHANGED <<pc, lockUsing, waitCount, ctxVars>>
       \/ /\ MayTake
          /\ LeaveWait(c)
          /\ NewCommit(c)
       \/ /\ MayTake
          /\ timed
          /\ LeaveWait(c)
          /\ lockUsing' = TRUE
          /\ pc' = [pc EXCEPT ![c] = "late"]
          /\ UNCHANGED ctxVars
    /\ UNCHANGED <<calls, try, loopVars, envVars, pastVars, returned>>

(* The wait times out, whether or not the lock is free by now; a thread    *)
(* may be woken and time out at once, and then nobody is woken in its      *)
(* place.                                                                  *)
LockTimeout(c) ==
    /\ timed
    /\ pc[c] = "wait"
    /\ LeaveWait(c)
    /\ Return(c, "LockTimeout", -1)
    /\ UNCHANGED <<calls, try, lockUsing, ctxVars, loopVars, envVars,
                   pastVars>>

(* WaitLock::UnLock: notify_one.                                           *)
UnLock ==
    LET asleep == {d \in Client : pc[d] = "wait"} \ notified
    IN  /\ lockUsing' = FALSE
        /\ \/ /\ asleep = {}
              /\ UNCHANGED notified
           \/ \E d \in asleep : notified' = notified \cup {d}

GiveUp(c) ==
    /\ pc[c] = "late"
    /\ UnLock
    /\ Return(c, "LockTimeout", -1)
    /\ UNCHANGED <<calls, try, waitCount, ctxVars, loopVars, envVars,
                   pastVars>>

(* CommitCtx::GetResult, which sets llInstanceID only on success, and      *)
(* another attempt after a conflict.                                       *)
TakeResult(c) ==
    /\ pc[c] = "commit"
    /\ commitEnd
    /\ UnLock
    /\ \/ /\ commitRet = "Conflict"
          /\ try[c] < MaxTries
          /\ try' = [try EXCEPT ![c] = @ + 1]
          /\ pc' = [pc EXCEPT ![c] = "lock"]
          /\ UNCHANGED returned
       \/ /\ commitRet # "Conflict" \/ try[c] = MaxTries
          /\ Return(c, commitRet, IF commitRet = "OK" THEN commitInst ELSE -1)
          /\ UNCHANGED try
    /\ UNCHANGED <<calls, waitCount, ctxVars, loopVars, envVars, pastVars>>
-----------------------------------------------------------------------------
(* The IOLoop thread.                                                      *)

(* Mutant of CommitRet: no comparison of the learned value with the        *)
(* committed one.                                                          *)
CommitRetAsIs(ret, v) == ret

CommitRet(ret, v) == IF ret = "OK" /\ commitValue # v THEN "Conflict" ELSE ret

(* CommitCtx::SetResult on the result of an instance.                      *)
SetResult(ret, inst, v) ==
    IF commitEnd \/ commitInst # inst
    THEN UNCHANGED <<commitRet, commitEnd, commitValue>>
    ELSE /\ commitRet' = CommitRet(ret, v)
         /\ commitEnd' = TRUE
         /\ commitValue' = None

(* Mutant of Refuse: CheckNewValue just returns.                           *)
RefuseSilently ==
    UNCHANGED <<commitInst, commitValue, commitEnd, commitRet>>

(* SetResultOnlyRet before the commit has started.                         *)
Refuse ==
    /\ SetResult("Refused", -1, None)
    /\ UNCHANGED commitInst

(* IOLoop::AddTimer for the commit, if it has a timeout.                   *)
AddTimer ==
    IF timed THEN /\ commitTimer' = commitCtx
                  /\ armed' = armed \cup {commitCtx}
             ELSE UNCHANGED <<commitTimer, armed>>

(* Instance::CheckNewValue and Proposer::NewValue.                         *)
CheckNewValue ==
    /\ commitInst = -1 /\ commitValue # None
    /\ ~behind
    /\ \/ /\ commitValue[1] \in Refused
          /\ Refuse
          /\ UNCHANGED loopVars
       \/ /\ commitValue[1] \notin Refused
          /\ commitInst' = instanceID
          /\ AddTimer
          /\ held' = IF held = None THEN commitValue ELSE held
          /\ offered' = offered \cup {held'}
          /\ UNCHANGED <<commitValue, commitEnd, commitRet, instanceID,
                         learned>>
    /\ UNCHANGED <<threadVars, lockVars, commitCtx, envVars, pastVars,
                   returned>>

(* A promise reply makes the proposer adopt the value of another node.     *)
Adopt ==
    /\ held \notin {None, Other}
    /\ held' = Other
    /\ UNCHANGED <<threadVars, lockVars, ctxVars, instanceID, offered,
                   learned, commitTimer, armed, envVars, pastVars, returned>>

(* Mutant of IsMyCommit: any commit of the instance is mine.               *)
IsMyInstance(v) == commitInst = instanceID

(* CommitCtx::IsMyCommit.                                                  *)
IsMyCommit(v) == ~commitEnd /\ commitInst = instanceID /\ commitValue = v

(* Mutant of HeldAfter: the proposer keeps its value.                      *)
HeldKept == held

(* Proposer::InitForNewPaxosInstance.                                      *)
HeldAfter == None

RemoveTimer ==
    /\ armed' = armed \ {commitTimer}
    /\ commitTimer' = None

(* The learned branch of Instance::ReceiveMsgForLearner with value v.  If  *)
(* the state machine fails the instance stays, the value stays learned,    *)
(* and so does the commit timer.                                           *)
ExecuteLearned(v) ==
    /\ handed' = IF IsMyCommit(v)
                 THEN handed \cup {<<commitCtx, instanceID>>} ELSE handed
    /\ \/ /\ SetResult("OK", instanceID, v)
          /\ executed' = executed \cup {<<instanceID, v>>}
          /\ RemoveTimer
          /\ instanceID' = instanceID + 1
          /\ held' = HeldAfter
          /\ offered' = {}
          /\ learned' = None
       \/ /\ SMFails
          /\ SetResult("ExecuteFail", instanceID, v)
          /\ learned' = v
          /\ UNCHANGED <<executed, commitTimer, armed, instanceID, held,
                         offered>>
    /\ UNCHANGED <<threadVars, lockVars, commitInst, commitCtx, envVars,
                   returned>>

LearnOwn ==
    /\ learned = None
    /\ \E v \in offered \ {Other} : ExecuteLearned(v)
    /\ UNCHANGED others

LearnOther ==
    /\ learned = None
    /\ others < MaxOther
    /\ others' = others + 1
    /\ ExecuteLearned(Other)

(* Any later message for the Learner runs the branch again.                *)
ExecuteAgain ==
    /\ learned # None
    /\ ExecuteLearned(learned)
    /\ UNCHANGED others

(* IOLoop::DealwithTimeoutOne and Instance::OnNewValueCommitTimeout.       *)
CommitTimeout ==
    \E t \in armed :
        /\ armed' = armed \ {t}
        /\ SetResult("Timeout", instanceID, None)
        /\ UNCHANGED <<threadVars, lockVars, commitInst, commitCtx,
                       instanceID, held, offered, learned, commitTimer,
                       envVars, executed, handed, others, returned>>

(* What the node hears of other nodes' instances, and catching up.         *)
FallBehind ==
    /\ ~behind
    /\ lags < MaxLags
    /\ behind' = TRUE
    /\ lags' = lags + 1
    /\ UNCHANGED <<timed, threadVars, lockVars, ctxVars, loopVars, pastVars,
                   returned>>

CatchUp ==
    /\ behind
    /\ behind' = FALSE
    /\ UNCHANGED <<timed, lags, threadVars, lockVars, ctxVars, loopVars,
                   pastVars, returned>>
-----------------------------------------------------------------------------
Thread(c) ==
    \/ Lock(c)
    \/ Recheck(c)
    \/ GiveUp(c)
    \/ TakeResult(c)

Next ==
    \/ \E c \in Client : Propose(c) \/ Thread(c) \/ LockTimeout(c)
    \/ CheckNewValue
    \/ Adopt
    \/ LearnOwn
    \/ LearnOther
    \/ ExecuteAgain
    \/ CommitTimeout
    \/ FallBehind
    \/ CatchUp

Spec == Init /\ [][Next]_vars

(* Threads run, timers expire, the IOLoop looks for a new value at least   *)
(* once a second.                                                          *)
NodeFairness ==
    /\ \A c \in Client : WF_vars(Thread(c)) /\ WF_vars(LockTimeout(c))
    /\ WF_vars(CheckNewValue)
    /\ WF_vars(CommitTimeout)

NodeSpec == Spec /\ NodeFairness

(* The other nodes answer: this one catches up; and, if its calls have no  *)
(* timeout, what it has proposed is decided one way or the other, and the  *)
(* answers to AskforLearn run the learned branch again.                    *)
LiveSpec ==
    /\ NodeSpec
    /\ WF_vars(CatchUp)
    /\ WF_vars(~timed /\ LearnOwn)
    /\ WF_vars(~timed /\ ExecuteAgain)
-----------------------------------------------------------------------------
(* Properties.                                                             *)

Results == {"OK", "Conflict", "ExecuteFail", "Timeout", "Refused", "Reject",
            "LockTimeout"}

(* Every variable keeps its type; the count of waiting threads is never    *)
(* negative (WaitLock::Lock).                                              *)
TypeOK ==
    /\ timed \in BOOLEAN
    /\ pc \in [Client -> {"idle", "lock", "wait", "late", "commit"}]
    /\ calls \in [Client -> 0 .. MaxCalls]
    /\ try \in [Client -> 1 .. MaxTries]
    /\ lockUsing \in BOOLEAN
    /\ waitCount \in Nat
    /\ notified \subseteq Client
    /\ commitInst \in Nat \cup {-1}
    /\ commitValue \in Calls \cup {None}
    /\ commitCtx \in Attempts \cup {None}
    /\ commitEnd \in BOOLEAN
    /\ commitRet \in Results \cup {None}
    /\ instanceID \in Nat
    /\ behind \in BOOLEAN
    /\ held \in Calls \cup {Other, None}
    /\ offered \subseteq Calls \cup {Other}
    /\ learned \in Calls \cup {Other, None}
    /\ commitTimer \in Attempts \cup {None}
    /\ armed \subseteq Attempts
    /\ executed \subseteq Nat \X (Calls \cup {Other})
    /\ handed \subseteq Attempts \X Nat
    /\ returned \subseteq [attempt : Attempts, ret : Results,
                           inst : Nat \cup {-1}]
    /\ others \in Nat
    /\ lags \in Nat

(* CommitCtx belongs to the one thread that holds the lock: a commit that  *)
(* has not ended is that thread's present attempt, and the value and the   *)
(* SMCtx it points to are alive, as the thread is inside GetResult.        *)
Holders == {c \in Client : pc[c] \in {"late", "commit"}}

CommitExclusive ==
    /\ \A c, d \in Holders : c = d
    /\ lockUsing <=> Holders # {}
    /\ commitValue # None =>
        \E c \in Client : /\ pc[c] = "commit"
                          /\ commitValue = Call(c)
                          /\ commitCtx = Attempt(c)

(* The waiting threads are the ones counted, to the limit given to         *)
(* SetMaxHoldThreads: a thread that leaves no longer takes a place.        *)
WaitersCounted ==
    /\ waitCount = Cardinality({c \in Client : pc[c] = "wait"})
    /\ MaxWaiting = -1 \/ waitCount <= MaxWaiting

(* WaitLock and CommitCtx fit the threads: everything is of its type, one  *)
(* thread has the lock and the commit, and the others are counted.         *)
LockInv == TypeOK /\ CommitExclusive /\ WaitersCounted

(* What a call returns is true of its value: PaxosTryCommitRet_OK means    *)
(* executed in the instance returned; a conflict, a refusal or no turn in  *)
(* time means not executed, then or later.  ExecuteFail and a commit that  *)
(* timed out say nothing of the value.  With OK the state machine had the  *)
(* SMCtx of that very attempt in that instance, so the response is there.  *)
ValueOf(a) == <<a[1], a[2]>>

ResultTruthful ==
    \A r \in returned :
        /\ r.ret = "OK" => /\ <<r.inst, ValueOf(r.attempt)>> \in executed
                           /\ <<r.attempt, r.inst>> \in handed
        /\ r.ret \in {"Conflict", "Refused", "Reject", "LockTimeout"} =>
             \A e \in executed : e[2] # ValueOf(r.attempt)

(* However often a call tries and whatever times out, its value is         *)
(* executed in at most one instance.                                       *)
ExecutedOnce ==
    \A d, e \in executed : d[2] = e[2] /\ d[2] # Other => d = e

(* Execute gets the SMCtx of a call only while the call waits for it.      *)
ContextAlive ==
    [][\A h \in handed' \ handed :
          pc[h[1][1]] = "commit" /\ Attempt(h[1][1]) = h[1]]_vars

(* Every call returns.                                                     *)
CallsReturn == \A c \in Client : pc[c] # "idle" ~> pc[c] = "idle"
=============================================================================
