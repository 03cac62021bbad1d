--------------------------- MODULE CommitPathProofs ---------------------------
(***************************************************************************)
(* Proofs about the way of a value through a node: WaitLock and CommitCtx  *)
(* fit the threads, what a call returns is true of its value, a value is   *)
(* executed once, and Execute gets no context of a call that has returned. *)
(*                                                                         *)
(* The argument follows a call's value.  Until CheckNewValue takes it no   *)
(* one but the call has it; while it is proposed the commit runs in the    *)
(* running instance; and when the instance ends without it, the proposer   *)
(* forgets it with everything it has offered in the instance, so that a    *)
(* conflict is final.                                                      *)
(***************************************************************************)
EXTENDS CommitPath, FiniteSetTheorems, TLAPS

-----------------------------------------------------------------------------
(* The lock.                                                               *)

(* A thread that is in a call has made one.                                *)
InCall == \A c \in Client : pc[c] # "idle" => calls[c] >= 1

(* An ended commit has a result and no value; one that has not ended is    *)
(* that of the thread that waits for it.                                   *)
CommitHeld ==
    /\ commitEnd => commitValue = None /\ commitRet \in Results
    /\ ~commitEnd => \A c \in Client : pc[c] = "commit" =>
                        commitValue = Call(c) /\ commitCtx = Attempt(c)

LInv == LockInv /\ InCall /\ CommitHeld

Waiting == {c \in Client : pc[c] = "wait"}
Counted == waitCount = Cardinality(Waiting)

LEMMA CallTypes ==
    ASSUME TypeOK, InCall, NEW c \in Client, pc[c] # "idle"
    PROVE  /\ Call(c) \in Calls /\ Attempt(c) \in Attempts
           /\ Call(c) # None /\ Attempt(c) # None
           /\ Call(c) # Other
<1>1. calls[c] \in 1 .. MaxCalls /\ try[c] \in 1 .. MaxTries
  BY PathAssumption DEF TypeOK, InCall
<1>2. Call(c) \in Calls /\ Attempt(c) \in Attempts
  BY <1>1 DEF Call, Attempt, Calls, Attempts
<1> QED
  BY <1>2, ValueAssumption

LEMMA WaitingFinite == IsFiniteSet(Waiting)
BY PathAssumption, FS_Subset DEF Waiting

(* The count follows a thread that begins to wait and one that leaves.     *)
LEMMA CountWait ==
    ASSUME TypeOK, Counted, NEW c \in Client,
           pc[c] # "wait", pc' = [pc EXCEPT ![c] = "wait"],
           waitCount' = waitCount + 1
    PROVE  Counted'
<1>1. Waiting' = Waiting \cup {c} /\ c \notin Waiting
  BY DEF Waiting, TypeOK
<1>2. Cardinality(Waiting \cup {c}) = Cardinality(Waiting) + 1
  BY <1>1, WaitingFinite, FS_AddElement
<1> QED
  BY <1>1, <1>2 DEF Counted

LEMMA CountLeave ==
    ASSUME TypeOK, Counted, NEW c \in Client,
           pc[c] = "wait", NEW s, s # "wait", pc' = [pc EXCEPT ![c] = s],
           LeaveWait(c)
    PROVE  Counted' /\ waitCount' \in Nat /\ waitCount' <= waitCount
<1>1. Waiting' = Waiting \ {c} /\ c \in Waiting
  BY DEF Waiting, TypeOK
<1>2. Cardinality(Waiting \ {c}) = Cardinality(Waiting) - 1
  BY <1>1, WaitingFinite, FS_RemoveElement
<1>3. IsFiniteSet(Waiting \ {c})
  BY WaitingFinite, FS_Subset
<1>4. Cardinality(Waiting \ {c}) \in Nat /\ Cardinality(Waiting) \in Nat
  BY <1>3, WaitingFinite, FS_CardinalityType
<1> QED
  BY <1>1, <1>2, <1>4 DEF Counted, LeaveWait

LEMMA CountSame ==
    ASSUME Counted, waitCount' = waitCount,
           \A c \in Client : pc[c] = "wait" <=> pc'[c] = "wait"
    PROVE  Counted'
<1>1. Waiting' = Waiting
  BY DEF Waiting
<1> QED
  BY <1>1 DEF Counted
(* A thread moves, and the others with their calls stay.                   *)
LEMMA OthersStay ==
    ASSUME TypeOK, NEW c \in Client, NEW s, pc' = [pc EXCEPT ![c] = s],
           \A d \in Client \ {c} : calls'[d] = calls[d] /\ try'[d] = try[d]
    PROVE  /\ pc'[c] = s
           /\ \A d \in Client \ {c} :
                 pc'[d] = pc[d] /\ Call(d)' = Call(d) /\ Attempt(d)' = Attempt(d)
BY DEF TypeOK, Call, Attempt

(* The thread that starts a commit has the lock and is alone with it.      *)
LEMMA NewCommitHeld ==
    ASSUME LInv, NEW c \in Client, pc[c] \in {"lock", "wait"}, ~lockUsing,
           NewCommit(c), UNCHANGED <<calls, try>>
    PROVE  /\ CommitExclusive' /\ InCall' /\ CommitHeld'
           /\ commitValue' \in Calls /\ commitCtx' \in Attempts
<1> USE DEF LInv, LockInv, CommitExclusive
<1>1. \A d \in Client : pc[d] \notin {"late", "commit"}
  BY DEF Holders
<1>2. /\ pc'[c] = "commit" /\ Call(c)' = Call(c) /\ Attempt(c)' = Attempt(c)
      /\ \A d \in Client \ {c} : pc'[d] = pc[d]
  BY OthersStay DEF NewCommit, Call, Attempt
<1>3. Holders' = {c}
  BY <1>1, <1>2 DEF Holders
<1>4. CommitExclusive'
  BY <1>2, <1>3 DEF NewCommit
<1>5. InCall'
  BY <1>2 DEF InCall
<1>6. CommitHeld'
  BY <1>1, <1>2 DEF CommitHeld, NewCommit
<1> QED
  BY <1>4, <1>5, <1>6, CallTypes DEF NewCommit

(* A thread that is not in the commit moves, and the lock stays.           *)
LEMMA SameHolder ==
    ASSUME LInv, NEW c \in Client, NEW s \in {"idle", "lock", "wait"},
           pc[c] \notin {"late", "commit"}, pc' = [pc EXCEPT ![c] = s],
           \A d \in Client \ {c} : calls'[d] = calls[d] /\ try'[d] = try[d],
           s # "idle" => calls'[c] >= 1,
           UNCHANGED <<lockUsing, ctxVars>>
    PROVE  CommitExclusive' /\ InCall' /\ CommitHeld'
<1> USE DEF LInv, LockInv, ctxVars
<1>1. /\ pc'[c] = s
      /\ \A d \in Client \ {c} :
           pc'[d] = pc[d] /\ Call(d)' = Call(d) /\ Attempt(d)' = Attempt(d)
  BY OthersStay
<1>2. Holders' = Holders /\ c \notin Holders
  BY <1>1 DEF Holders
<1>3. CommitExclusive'
  BY <1>1, <1>2 DEF CommitExclusive
<1>4. InCall'
  BY <1>1 DEF InCall
<1>5. CommitHeld'
  BY <1>1 DEF CommitHeld
<1> QED
  BY <1>3, <1>4, <1>5

(* The holder unlocks, and its commit has ended or was none.               *)
LEMMA HolderLeaves ==
    ASSUME LInv, NEW c \in Client, NEW s \in {"idle", "lock"},
           pc[c] \in {"late", "commit"}, pc' = [pc EXCEPT ![c] = s],
           \A d \in Client \ {c} : calls'[d] = calls[d] /\ try'[d] = try[d],
           s # "idle" => calls'[c] >= 1,
           lockUsing' = FALSE, UNCHANGED ctxVars,
           pc[c] = "commit" => commitEnd
    PROVE  CommitExclusive' /\ InCall' /\ CommitHeld'
<1> USE DEF LInv, LockInv, ctxVars
<1>1. /\ pc'[c] = s
      /\ \A d \in Client \ {c} :
           pc'[d] = pc[d] /\ Call(d)' = Call(d) /\ Attempt(d)' = Attempt(d)
  BY OthersStay
<1>2. Holders = {c}
  BY DEF Holders, CommitExclusive
<1>3. Holders' = {} /\ \A d \in Client : pc'[d] # "commit"
  BY <1>1, <1>2 DEF Holders
<1>4. commitValue = None
  BY <1>2 DEF CommitExclusive, CommitHeld, Holders
<1>5. CommitExclusive'
  BY <1>3, <1>4 DEF CommitExclusive
<1>6. InCall'
  BY <1>1 DEF InCall
<1>7. CommitHeld'
  BY <1>3 DEF CommitHeld
<1> QED
  BY <1>5, <1>6, <1>7
(* The rest of a thread's step: types and the count.                       *)
LEMMA ThreadRest ==
    ASSUME LInv, UNCHANGED <<loopVars, envVars, pastVars>>,
           CommitExclusive', InCall', CommitHeld', Counted',
           MaxWaiting = -1 \/ waitCount' <= MaxWaiting,
           waitCount' \in Nat,
           pc' \in [Client -> {"idle", "lock", "wait", "late", "commit"}],
           calls' \in [Client -> 0 .. MaxCalls],
           try' \in [Client -> 1 .. MaxTries],
           lockUsing' \in BOOLEAN, notified' \subseteq Client,
           \/ UNCHANGED ctxVars
           \/ /\ commitInst' = -1 /\ commitEnd' = FALSE /\ commitRet' = None
              /\ commitValue' \in Calls /\ commitCtx' \in Attempts,
           \/ UNCHANGED returned
           \/ \E c \in Client, ret \in Results, inst \in Nat \cup {-1} :
                /\ pc[c] # "idle"
                /\ returned' = returned \cup
                    {[attempt |-> Attempt(c), ret |-> ret, inst |-> inst]}
    PROVE  LInv'
<1> USE DEF LInv, LockInv, TypeOK
<1>1. returned' \subseteq [attempt : Attempts, ret : Results,
                           inst : Nat \cup {-1}]
  BY CallTypes
<1>2. /\ commitInst' \in Nat \cup {-1} /\ commitValue' \in Calls \cup {None}
      /\ commitCtx' \in Attempts \cup {None} /\ commitEnd' \in BOOLEAN
      /\ commitRet' \in Results \cup {None}
  BY DEF ctxVars
<1>3. TypeOK'
  BY <1>1, <1>2 DEF loopVars, envVars, pastVars
<1>4. WaitersCounted'
  BY DEF WaitersCounted, Counted, Waiting
<1> QED
  BY <1>3, <1>4

LEMMA ProposeLocks ==
    ASSUME LInv, NEW c \in Client, Propose(c)
    PROVE  LInv'
<1> USE DEF LInv, LockInv, TypeOK
<1>1. /\ pc' = [pc EXCEPT ![c] = "lock"] /\ pc[c] = "idle"
      /\ calls' = [calls EXCEPT ![c] = @ + 1] /\ calls[c] < MaxCalls
      /\ try' = [try EXCEPT ![c] = 1]
      /\ UNCHANGED <<lockVars, ctxVars, returned>>
  BY DEF Propose
<1>2. calls'[c] \in 1 .. MaxCalls /\ 1 \in 1 .. MaxTries
  BY <1>1, PathAssumption DEF MaxTries
<1>3. CommitExclusive' /\ InCall' /\ CommitHeld'
  <2>1. /\ \A d \in Client \ {c} : calls'[d] = calls[d] /\ try'[d] = try[d]
        /\ calls'[c] >= 1 /\ UNCHANGED <<lockUsing, ctxVars>>
    BY <1>1, <1>2 DEF lockVars
  <2> QED
    BY <1>1, <2>1, SameHolder
<1>4. Counted'
  BY <1>1, CountSame DEF lockVars, WaitersCounted, Counted, Waiting
<1> QED
  BY <1>1, <1>2, <1>3, <1>4, ThreadRest
  DEF Propose, lockVars, WaitersCounted

LEMMA LockLocks ==
    ASSUME LInv, NEW c \in Client, Lock(c)
    PROVE  LInv'
<1> USE DEF LInv, LockInv, TypeOK
<1>1. /\ pc[c] = "lock" /\ UNCHANGED <<calls, try>> /\ calls[c] >= 1
  BY DEF Lock, InCall
<1>2. CASE ~CanLock /\ Return(c, "Reject", -1) /\ UNCHANGED <<lockVars, ctxVars>>
  <2>1. CommitExclusive' /\ InCall' /\ CommitHeld'
    BY <1>1, <1>2, SameHolder DEF Return, lockVars
  <2>2. Counted'
    BY <1>1, <1>2, CountSame DEF Return, lockVars, WaitersCounted, Counted, Waiting
  <2>3. "Reject" \in Results /\ -1 \in Nat \cup {-1}
    BY DEF Results
  <2> QED
    BY <1>1, <1>2, <2>1, <2>2, <2>3, ThreadRest
    DEF Lock, Return, lockVars, WaitersCounted
<1>3. CASE ~lockUsing /\ NewCommit(c) /\ UNCHANGED <<waitCount, notified, returned>>
  <2>1. CommitExclusive' /\ InCall' /\ CommitHeld'
        /\ commitValue' \in Calls /\ commitCtx' \in Attempts
    BY <1>1, <1>3, NewCommitHeld
  <2>2. Counted'
    BY <1>1, <1>3, CountSame DEF NewCommit, WaitersCounted, Counted, Waiting
  <2> QED
    BY <1>1, <1>3, <2>1, <2>2, ThreadRest
    DEF Lock, NewCommit, WaitersCounted
<1>4. CASE /\ CanLock /\ waitCount' = waitCount + 1
           /\ pc' = [pc EXCEPT ![c] = "wait"]
           /\ UNCHANGED <<lockUsing, notified, ctxVars, returned>>
  <2>1. CommitExclusive' /\ InCall' /\ CommitHeld'
    BY <1>1, <1>4, SameHolder
  <2>2. Counted'
    <3>1. TypeOK /\ Counted /\ pc[c] # "wait"
      BY <1>1 DEF WaitersCounted, Counted, Waiting
    <3> HIDE DEF TypeOK
    <3> QED
      BY <1>4, <3>1, CountWait
  <2>3. MaxWaiting = -1 \/ waitCount' <= MaxWaiting
    BY <1>4, PathAssumption DEF CanLock
  <2> QED
    BY <1>1, <1>4, <2>1, <2>2, <2>3, ThreadRest DEF Lock
<1> QED
  BY <1>2, <1>3, <1>4 DEF Lock

(* A waiter leaves the condition variable.                                 *)
LEMMA WaiterLeaves ==
    ASSUME LInv, NEW c \in Client, pc[c] = "wait", LeaveWait(c),
           NEW s \in {"idle", "late", "commit"}, pc' = [pc EXCEPT ![c] = s]
    PROVE  /\ Counted' /\ waitCount' \in Nat /\ notified' \subseteq Client
           /\ MaxWaiting = -1 \/ waitCount' <= MaxWaiting
<1>1. Counted' /\ waitCount' \in Nat /\ waitCount' <= waitCount
  BY CountLeave DEF LInv, LockInv, WaitersCounted, Counted, Waiting
<1> QED
  BY <1>1, PathAssumption DEF LInv, LockInv, TypeOK, WaitersCounted, LeaveWait
LEMMA RecheckLocks ==
    ASSUME LInv, NEW c \in Client, Recheck(c)
    PROVE  LInv'
<1> USE DEF LInv, LockInv, TypeOK
<1>1. /\ pc[c] = "wait" /\ UNCHANGED <<calls, try>> /\ calls[c] >= 1
      /\ UNCHANGED <<loopVars, envVars, pastVars, returned>>
  BY DEF Recheck, InCall
<1>2. CASE notified' = notified \ {c} /\ UNCHANGED <<pc, lockUsing, waitCount, ctxVars>>
  <2>1. CommitExclusive' /\ InCall' /\ CommitHeld'
    BY <1>1, <1>2
    DEF CommitExclusive, InCall, CommitHeld, Holders, Call, Attempt, ctxVars
  <2>2. Counted'
    BY <1>2, CountSame DEF WaitersCounted, Counted, Waiting
  <2> QED
    BY <1>1, <1>2, <2>1, <2>2, ThreadRest DEF WaitersCounted
<1>3. CASE MayTake /\ LeaveWait(c) /\ NewCommit(c)
  <2>1. /\ CommitExclusive' /\ InCall' /\ CommitHeld'
        /\ commitValue' \in Calls /\ commitCtx' \in Attempts
    BY <1>1, <1>3, NewCommitHeld DEF MayTake
  <2>2. pc' = [pc EXCEPT ![c] = "commit"]
    BY <1>3 DEF NewCommit
  <2>3. /\ Counted' /\ waitCount' \in Nat /\ notified' \subseteq Client
        /\ MaxWaiting = -1 \/ waitCount' <= MaxWaiting
    BY <1>1, <1>3, <2>2, WaiterLeaves
  <2> QED
    BY <1>1, <1>3, <2>1, <2>2, <2>3, ThreadRest DEF NewCommit
<1>4. CASE /\ MayTake /\ LeaveWait(c) /\ lockUsing' = TRUE
           /\ pc' = [pc EXCEPT ![c] = "late"] /\ UNCHANGED ctxVars
  <2>1. /\ Counted' /\ waitCount' \in Nat /\ notified' \subseteq Client
        /\ MaxWaiting = -1 \/ waitCount' <= MaxWaiting
    BY <1>1, <1>4, WaiterLeaves
  <2>2. /\ pc'[c] = "late"
        /\ \A d \in Client \ {c} :
             pc'[d] = pc[d] /\ Call(d)' = Call(d) /\ Attempt(d)' = Attempt(d)
    BY <1>1, <1>4, OthersStay
  <2>3. Holders = {} /\ Holders' = {c}
    BY <1>4, <2>2 DEF MayTake, CommitExclusive, Holders
  <2>4. commitValue = None
    BY <2>3 DEF CommitExclusive, Holders
  <2>5. CommitExclusive'
    BY <1>4, <2>3, <2>4 DEF CommitExclusive, ctxVars
  <2>6. InCall'
    BY <1>1, <2>2 DEF InCall
  <2>7. CommitHeld'
    BY <1>4, <2>2 DEF CommitHeld, ctxVars
  <2> QED
    BY <1>1, <1>4, <2>1, <2>5, <2>6, <2>7, ThreadRest
<1> QED
  BY <1>2, <1>3, <1>4 DEF Recheck

LEMMA LockTimeoutLocks ==
    ASSUME LInv, NEW c \in Client, LockTimeout(c)
    PROVE  LInv'
<1> USE DEF LInv, LockInv, TypeOK
<1>1. /\ pc[c] = "wait" /\ UNCHANGED <<calls, try, lockUsing, ctxVars>>
      /\ LeaveWait(c) /\ Return(c, "LockTimeout", -1)
      /\ UNCHANGED <<loopVars, envVars, pastVars>>
  BY DEF LockTimeout
<1>2. pc' = [pc EXCEPT ![c] = "idle"]
  BY <1>1 DEF Return
<1>3. CommitExclusive' /\ InCall' /\ CommitHeld'
  BY <1>1, <1>2, SameHolder
<1>4. /\ Counted' /\ waitCount' \in Nat /\ notified' \subseteq Client
      /\ MaxWaiting = -1 \/ waitCount' <= MaxWaiting
  BY <1>1, <1>2, WaiterLeaves
<1>5. "LockTimeout" \in Results /\ -1 \in Nat \cup {-1}
  BY DEF Results
<1> QED
  BY <1>1, <1>2, <1>3, <1>4, <1>5, ThreadRest DEF Return

LEMMA UnLockTypes ==
    ASSUME TypeOK, UnLock
    PROVE  lockUsing' = FALSE /\ notified' \subseteq Client
BY DEF TypeOK, UnLock

LEMMA GiveUpLocks ==
    ASSUME LInv, NEW c \in Client, GiveUp(c)
    PROVE  LInv'
<1> USE DEF LInv, LockInv, TypeOK
<1>1. /\ pc[c] = "late" /\ UNCHANGED <<calls, try, waitCount, ctxVars>>
      /\ Return(c, "LockTimeout", -1)
      /\ UNCHANGED <<loopVars, envVars, pastVars>>
  BY DEF GiveUp
<1>2. pc' = [pc EXCEPT ![c] = "idle"] /\ lockUsing' = FALSE
      /\ notified' \subseteq Client
  BY <1>1, UnLockTypes DEF Return, GiveUp
<1>3. CommitExclusive' /\ InCall' /\ CommitHeld'
  BY <1>1, <1>2, HolderLeaves
<1>4. Counted'
  BY <1>1, <1>2, CountSame DEF WaitersCounted, Counted, Waiting
<1>5. "LockTimeout" \in Results /\ -1 \in Nat \cup {-1}
  BY DEF Results
<1> QED
  BY <1>1, <1>2, <1>3, <1>4, <1>5, ThreadRest DEF Return, WaitersCounted

LEMMA TakeResultLocks ==
    ASSUME LInv, NEW c \in Client, TakeResult(c)
    PROVE  LInv'
<1> USE DEF LInv, LockInv, TypeOK
<1>1. /\ pc[c] = "commit" /\ commitEnd /\ calls[c] >= 1
      /\ UNCHANGED <<calls, waitCount, ctxVars>>
      /\ UNCHANGED <<loopVars, envVars, pastVars>>
      /\ lockUsing' = FALSE /\ notified' \subseteq Client
  BY UnLockTypes DEF TakeResult, InCall
<1>2. PICK s \in {"idle", "lock"} : pc' = [pc EXCEPT ![c] = s]
  BY DEF TakeResult, Return
<1>3. /\ try' \in [Client -> 1 .. MaxTries]
      /\ \A d \in Client \ {c} : try'[d] = try[d]
  BY DEF TakeResult, MaxTries
<1>4. CommitExclusive' /\ InCall' /\ CommitHeld'
  BY <1>1, <1>2, <1>3, HolderLeaves
<1>5. Counted'
  BY <1>1, <1>2, CountSame DEF WaitersCounted, Counted, Waiting
<1>6. commitRet \in Results
  BY <1>1 DEF CommitHeld
<1>7. \/ UNCHANGED returned
      \/ \E ret \in Results, inst \in Nat \cup {-1} :
           returned' = returned \cup
                {[attempt |-> Attempt(c), ret |-> ret, inst |-> inst]}
  BY <1>6 DEF TakeResult, Return
<1>8. pc[c] # "idle"
  BY <1>1
<1> QED
  BY <1>1, <1>2, <1>3, <1>4, <1>5, <1>7, <1>8, ThreadRest DEF WaitersCounted
(* The IOLoop thread leaves the threads and the lock; it may end the       *)
(* commit.                                                                 *)
EndsCommit ==
    /\ ~commitEnd /\ commitEnd' = TRUE /\ commitValue' = None
    /\ commitRet' \in Results

LEMMA SetResultEnds ==
    ASSUME NEW ret \in Results, NEW inst, NEW v, SetResult(ret, inst, v)
    PROVE  \/ UNCHANGED <<commitRet, commitEnd, commitValue>>
           \/ EndsCommit
BY DEF SetResult, EndsCommit, CommitRet, Results

LEMMA LoopLocks ==
    ASSUME LInv,
           UNCHANGED <<threadVars, lockVars, commitCtx, returned>>,
           commitInst' \in Nat \cup {-1},
           UNCHANGED <<commitRet, commitEnd, commitValue>> \/ EndsCommit,
           timed' = timed, behind' \in BOOLEAN, lags' \in Nat, others' \in Nat,
           instanceID' \in Nat,
           held' \in Calls \cup {Other, None}, offered' \subseteq Calls \cup {Other},
           learned' \in Calls \cup {Other, None},
           commitTimer' \in Attempts \cup {None}, armed' \subseteq Attempts,
           executed' \subseteq Nat \X (Calls \cup {Other}),
           handed' \subseteq Attempts \X Nat
    PROVE  LInv'
<1> USE DEF LInv, LockInv, threadVars, lockVars
<1>1. TypeOK'
  BY DEF TypeOK, EndsCommit
<1>2. Holders' = Holders /\ \A c \in Client : /\ Call(c)' = Call(c)
                                              /\ Attempt(c)' = Attempt(c)
  BY DEF Holders, Call, Attempt
<1>3. CommitExclusive'
  BY <1>2 DEF CommitExclusive, EndsCommit
<1>4. InCall' /\ WaitersCounted'
  BY DEF InCall, WaitersCounted
<1>5. CommitHeld'
  <2>1. CASE UNCHANGED <<commitRet, commitEnd, commitValue>>
    BY <1>2, <2>1 DEF CommitHeld
  <2>2. CASE EndsCommit
    BY <2>2 DEF CommitHeld, EndsCommit
  <2> QED
    BY <2>1, <2>2
<1> QED
  BY <1>1, <1>3, <1>4, <1>5
LEMMA CheckNewValueLocks ==
    ASSUME LInv, CheckNewValue
    PROVE  LInv'
<1> USE DEF LInv, LockInv
<1>1. PICK c \in Client : /\ pc[c] = "commit" /\ commitValue = Call(c)
                          /\ commitCtx = Attempt(c)
  BY DEF CheckNewValue, CommitExclusive
<1>2. commitValue \in Calls /\ commitCtx \in Attempts
  BY <1>1, CallTypes
<1>3. CASE Refuse /\ UNCHANGED loopVars
  <2>1. UNCHANGED <<commitRet, commitEnd, commitValue>> \/ EndsCommit
    BY <1>3, SetResultEnds DEF Refuse, Results
  <2> QED
    BY <1>3, <2>1, LoopLocks
    DEF CheckNewValue, Refuse, loopVars, envVars, pastVars, TypeOK
<1>4. CASE /\ commitInst' = instanceID /\ AddTimer
           /\ held' = IF held = None THEN commitValue ELSE held
           /\ offered' = offered \cup {held'}
           /\ UNCHANGED <<commitValue, commitEnd, commitRet, instanceID, learned>>
  <2>1. held' \in Calls \cup {Other} /\ offered' \subseteq Calls \cup {Other}
    BY <1>2, <1>4 DEF TypeOK
  <2>2. commitTimer' \in Attempts \cup {None} /\ armed' \subseteq Attempts
    BY <1>2, <1>4 DEF AddTimer, TypeOK
  <2> QED
    BY <1>4, <2>1, <2>2, LoopLocks
    DEF CheckNewValue, envVars, pastVars, TypeOK
<1> QED
  BY <1>3, <1>4 DEF CheckNewValue

LEMMA ExecuteLocks ==
    ASSUME LInv, NEW v \in Calls \cup {Other}, ExecuteLearned(v),
           others' \in Nat
    PROVE  LInv'
<1> USE DEF LInv, LockInv
<1>1. UNCHANGED <<commitRet, commitEnd, commitValue>> \/ EndsCommit
  BY SetResultEnds DEF ExecuteLearned, Results
<1>2. handed' \subseteq Attempts \X Nat
  <2>1. CASE IsMyCommit(v)
    <3>1. commitValue # None
      BY <2>1, ValueAssumption DEF IsMyCommit
    <3>2. commitCtx \in Attempts
      BY <3>1, CallTypes DEF CommitExclusive
    <3> QED
      BY <2>1, <3>2 DEF ExecuteLearned, TypeOK
  <2>2. CASE ~IsMyCommit(v)
    BY <2>2 DEF ExecuteLearned, TypeOK
  <2> QED
    BY <2>1, <2>2
<1>3. /\ UNCHANGED <<threadVars, lockVars, commitInst, commitCtx, envVars,
                     returned>>
      /\ instanceID' \in Nat /\ executed' \subseteq Nat \X (Calls \cup {Other})
      /\ held' \in Calls \cup {Other, None} /\ offered' \subseteq Calls \cup {Other}
      /\ learned' \in Calls \cup {Other, None}
      /\ commitTimer' \in Attempts \cup {None} /\ armed' \subseteq Attempts
  BY DEF ExecuteLearned, TypeOK, RemoveTimer, HeldAfter
<1> QED
  BY <1>1, <1>2, <1>3, LoopLocks DEF envVars, TypeOK

LEMMA LoopStepLocks ==
    ASSUME LInv,
           \/ Adopt \/ LearnOwn \/ LearnOther \/ ExecuteAgain
           \/ CommitTimeout \/ FallBehind \/ CatchUp
    PROVE  LInv'
<1> USE DEF LInv, LockInv
<1>1. CASE Adopt
  BY <1>1, LoopLocks DEF Adopt, ctxVars, envVars, pastVars, TypeOK
<1>2. CASE LearnOwn \/ LearnOther \/ ExecuteAgain
  BY <1>2, ExecuteLocks DEF LearnOwn, LearnOther, ExecuteAgain, TypeOK
<1>3. CASE CommitTimeout
  <2>1. PICK t \in armed :
          /\ armed' = armed \ {t} /\ SetResult("Timeout", instanceID, None)
          /\ UNCHANGED <<threadVars, lockVars, commitInst, commitCtx,
                         instanceID, held, offered, learned, commitTimer,
                         envVars, executed, handed, others, returned>>
    BY <1>3 DEF CommitTimeout
  <2>2. UNCHANGED <<commitRet, commitEnd, commitValue>> \/ EndsCommit
    BY <2>1, SetResultEnds DEF Results
  <2> QED
    BY <2>1, <2>2, LoopLocks DEF envVars, TypeOK
<1>4. CASE FallBehind \/ CatchUp
  <2>1. /\ UNCHANGED <<threadVars, lockVars, ctxVars, loopVars, pastVars,
                       returned, timed>>
        /\ behind' \in BOOLEAN /\ lags' \in Nat
    <3>1. CASE FallBehind
      BY <3>1 DEF FallBehind, TypeOK
    <3>2. CASE CatchUp
      BY <3>2 DEF CatchUp, TypeOK
    <3> QED
      BY <1>4, <3>1, <3>2
  <2> QED
    BY <2>1, LoopLocks DEF ctxVars, loopVars, pastVars, TypeOK
<1> QED
  BY <1>1, <1>2, <1>3, <1>4

LEMMA LockInit == Init => LInv
<1> SUFFICES ASSUME Init PROVE LInv
  OBVIOUS
<1>1. TypeOK
  <2>1. 0 \in 0 .. MaxCalls /\ 1 \in 1 .. MaxTries
    BY PathAssumption DEF MaxTries
  <2> QED
    BY <2>1 DEF Init, TypeOK
<1>2. Holders = {} /\ \A c \in Client : pc[c] = "idle"
  BY DEF Init, Holders
<1>3. CommitExclusive /\ InCall /\ CommitHeld
  BY <1>2 DEF Init, CommitExclusive, InCall, CommitHeld
<1>4. WaitersCounted
  <2>1. {c \in Client : pc[c] = "wait"} = {}
    BY DEF Init
  <2>2. Cardinality({c \in Client : pc[c] = "wait"}) = 0
    BY <2>1, FS_EmptySet
  <2> QED
    BY <2>2, PathAssumption DEF Init, WaitersCounted
<1> QED
  BY <1>1, <1>3, <1>4 DEF LInv, LockInv

LEMMA LockStep ==
    ASSUME LInv, [Next]_vars
    PROVE  LInv'
<1>1. CASE UNCHANGED vars
  BY <1>1, LoopLocks
  DEF vars, ctxVars, loopVars, envVars, pastVars, LInv, LockInv, TypeOK
<1>2. CASE Next
  BY <1>2, ProposeLocks, LockLocks, RecheckLocks, LockTimeoutLocks,
     GiveUpLocks, TakeResultLocks, CheckNewValueLocks, LoopStepLocks
  DEF Next, Thread
<1> QED
  BY <1>1, <1>2

(* CommitCtx belongs to the thread that holds WaitLock, and the count of   *)
(* waiting threads (WaitLock::Lock, UnLock) is right and never above       *)
(* SetMaxHoldThreads, with any number of threads that wait, time out and   *)
(* are woken at once.                                                      *)
THEOREM LockIsHeldByOne == Spec => []LockInv
<1>1. LInv => LockInv
  BY DEF LInv
<1> QED
  BY <1>1, LockInit, LockStep, PTL DEF Spec
-----------------------------------------------------------------------------
(* The value of a call.                                                    *)

(* The proposer does not offer value u, and it is not executed.            *)
Unplaced(u) == u \notin offered /\ \A e \in executed : e[2] # u

(* What the proposer holds and what waits to be executed is offered in     *)
(* this instance, or comes from another node; nothing that is offered is   *)
(* executed already.                                                       *)
OfferInv ==
    /\ held \in offered \cup {None, Other}
    /\ learned \in offered \cup {None, Other}
    /\ \A u \in offered \ {Other} : \A e \in executed : e[2] # u

NotExecuted == {"Conflict", "Refused", "Reject", "LockTimeout"}

(* The commit of c, before CheckNewValue, in its instance and at its end.  *)
CommitTrue(c) ==
    /\ ~commitEnd /\ commitInst = -1 => Unplaced(Call(c))
    /\ ~commitEnd /\ commitInst # -1 =>
            commitInst = instanceID /\ \A e \in executed : e[2] # Call(c)
    /\ commitEnd /\ commitRet = "OK" =>
            <<commitInst, Call(c)>> \in executed
            /\ <<Attempt(c), commitInst>> \in handed
    /\ commitEnd /\ commitRet \in NotExecuted => Unplaced(Call(c))

CallsTrue ==
    \A c \in Client :
        /\ pc[c] \in {"lock", "wait", "late"} => Unplaced(Call(c))
        /\ pc[c] = "commit" => CommitTrue(c)
        /\ \A k \in 1 .. MaxCalls : k > calls[c] => Unplaced(<<c, k>>)

(* Nothing happens to a value of which a call has said it was not executed *)
(* once the call has returned.                                             *)
Over(a) ==
    \/ a[2] < calls[a[1]]
    \/ a[2] = calls[a[1]] /\ pc[a[1]] = "idle"

ReturnTrue(r) ==
    /\ Over(r.attempt)
    /\ r.ret = "OK" => /\ <<r.inst, ValueOf(r.attempt)>> \in executed
                       /\ <<r.attempt, r.inst>> \in handed
    /\ r.ret \in NotExecuted => Unplaced(ValueOf(r.attempt))

ReturnsTrue == \A r \in returned : ReturnTrue(r)

PathInv == LInv /\ OfferInv /\ CallsTrue /\ ReturnsTrue /\ ExecutedOnce

LEMMA ReturnTypes ==
    ASSUME TypeOK, NEW r \in returned
    PROVE  /\ r.attempt \in Attempts /\ r.attempt[1] \in Client
           /\ r.attempt[2] \in 1 .. MaxCalls
           /\ ValueOf(r.attempt) \in Calls
           /\ r.ret \in Results
BY DEF TypeOK, Attempts, Calls, ValueOf

-----------------------------------------------------------------------------
(* A thread's step places no value: what it may do to its call.            *)

(* The thread of c leaves its call with ret, takes another turn, or is in  *)
(* the call still.                                                         *)
ReturnFits(c, ret, inst) ==
    /\ pc'[c] = "idle" /\ pc[c] # "idle"
    /\ returned' = returned \cup
            {[attempt |-> Attempt(c), ret |-> ret, inst |-> inst]}
    /\ ret = "OK" => /\ <<inst, Call(c)>> \in executed
                     /\ <<Attempt(c), inst>> \in handed
    /\ ret \in NotExecuted => Unplaced(Call(c))

ThreadMoves(c) ==
    /\ UNCHANGED <<loopVars, envVars, pastVars>>
    /\ \A d \in Client \ {c} :
            pc'[d] = pc[d] /\ calls'[d] = calls[d] /\ try'[d] = try[d]
    /\ pc[c] # "idle" => calls'[c] = calls[c]
    /\ pc[c] = "idle" => calls'[c] = calls[c] + 1 /\ pc'[c] = "lock"
    /\ \/ UNCHANGED ctxVars
       \/ /\ \A d \in Client : pc[d] # "commit"
          /\ commitInst' = -1 /\ commitEnd' = FALSE
    /\ pc'[c] \in {"lock", "wait", "late"} /\ pc[c] # "idle" => Unplaced(Call(c))
    /\ pc'[c] = "commit" =>
            Unplaced(Call(c)) /\ commitInst' = -1 /\ commitEnd' = FALSE
    /\ \/ UNCHANGED returned
       \/ \E ret, inst : ReturnFits(c, ret, inst)

LEMMA ThreadKeeps ==
    ASSUME PathInv, LInv', NEW c \in Client, ThreadMoves(c)
    PROVE  PathInv'
<1> USE DEF PathInv, LInv, LockInv
<1>1. /\ UNCHANGED <<offered, executed, handed, held, learned, instanceID>>
      /\ \A u : Unplaced(u)' = Unplaced(u)
      /\ \A d \in Client : calls[d] \in 0 .. MaxCalls
  BY DEF ThreadMoves, loopVars, pastVars, Unplaced, TypeOK
<1>2. \A d \in Client \ {c} : /\ pc'[d] = pc[d] /\ calls'[d] = calls[d]
                              /\ Call(d)' = Call(d)
                              /\ Attempt(d)' = Attempt(d)
  BY DEF ThreadMoves, Call, Attempt
<1>3. OfferInv' /\ ExecutedOnce'
  BY <1>1 DEF OfferInv, ExecutedOnce
<1>4. calls'[c] >= calls[c] /\ calls'[c] \in 0 .. MaxCalls
  BY <1>1 DEF ThreadMoves, TypeOK
<1>5. CallsTrue'
  <2>1. ASSUME NEW d \in Client, d # c
        PROVE  /\ pc'[d] \in {"lock", "wait", "late"} => Unplaced(Call(d))'
               /\ pc'[d] = "commit" => CommitTrue(d)'
               /\ \A k \in 1 .. MaxCalls : k > calls'[d] => Unplaced(<<d, k>>)'
    <3>1. pc'[d] = "commit" => UNCHANGED ctxVars
      BY <1>2, <2>1 DEF ThreadMoves
    <3>2. Unplaced(Call(d))' <=> Unplaced(Call(d))
      BY <1>1, <1>2, <2>1 DEF Unplaced
    <3>3. pc'[d] = "commit" => CommitTrue(d)'
      <4> SUFFICES ASSUME pc'[d] = "commit" PROVE CommitTrue(d)'
        OBVIOUS
      <4>1. CommitTrue(d) /\ UNCHANGED ctxVars
        BY <1>2, <2>1, <3>1 DEF CallsTrue
      <4> QED
        BY <1>1, <1>2, <2>1, <3>2, <4>1 DEF CommitTrue, ctxVars
    <3>4. pc'[d] \in {"lock", "wait", "late"} => Unplaced(Call(d))'
      BY <1>2, <2>1, <3>2 DEF CallsTrue
    <3>5. \A k \in 1 .. MaxCalls : k > calls'[d] => Unplaced(<<d, k>>)'
      BY <1>1, <1>2, <2>1 DEF CallsTrue
    <3> QED
      BY <3>3, <3>4, <3>5
  <2>2. pc'[c] \in {"lock", "wait", "late"} => Unplaced(Call(c))'
    <3>1. CASE pc[c] = "idle"
      <4>1. calls'[c] \in 1 .. MaxCalls /\ calls'[c] > calls[c]
        BY <1>1, <1>4, <3>1 DEF ThreadMoves
      <4> QED
        BY <1>1, <4>1 DEF CallsTrue, Call
    <3>2. CASE pc[c] # "idle"
      BY <1>1, <3>2 DEF ThreadMoves, Call
    <3> QED
      BY <3>1, <3>2
  <2>3. pc'[c] = "commit" => CommitTrue(c)'
    <3>1. ASSUME pc'[c] = "commit" PROVE calls'[c] = calls[c] \/ pc[c] = "idle"
      BY DEF ThreadMoves
    <3> QED
      BY <1>1, <3>1 DEF ThreadMoves, CommitTrue, Call
  <2>4. \A k \in 1 .. MaxCalls : k > calls'[c] => Unplaced(<<c, k>>)'
    BY <1>1, <1>4 DEF CallsTrue
  <2> QED
    BY <2>1, <2>2, <2>3, <2>4 DEF CallsTrue
<1>6. ReturnsTrue'
  <2>1. ASSUME NEW r \in returned PROVE ReturnTrue(r)'
    <3>1. ReturnTrue(r) /\ r.attempt[1] \in Client
      BY ReturnTypes DEF ReturnsTrue
    <3>2. Over(r.attempt)'
      BY <1>1, <1>2, <1>4, <3>1, ReturnTypes DEF ReturnTrue, Over, ThreadMoves
    <3> QED
      BY <1>1, <3>1, <3>2 DEF ReturnTrue, ValueOf
  <2>2. ASSUME NEW ret, NEW inst, ReturnFits(c, ret, inst), NEW r,
               r = [attempt |-> Attempt(c), ret |-> ret, inst |-> inst]
        PROVE  ReturnTrue(r)'
    <3>1. calls'[c] = calls[c]
      BY <2>2 DEF ReturnFits, ThreadMoves
    <3>2. /\ r.attempt = Attempt(c) /\ r.ret = ret /\ r.inst = inst
          /\ ValueOf(Attempt(c)) = Call(c) /\ Attempt(c)[1] = c
          /\ Attempt(c)[2] = calls[c]
      BY <2>2 DEF Attempt, Call, ValueOf
    <3>3. Over(r.attempt)'
      BY <2>2, <3>1, <3>2 DEF ReturnFits, Over
    <3> QED
      BY <1>1, <2>2, <3>2, <3>3 DEF ReturnFits, ReturnTrue, ValueOf
  <2> QED
    BY <2>1, <2>2 DEF ThreadMoves, ReturnFits, ReturnsTrue
<1> QED
  BY <1>3, <1>5, <1>6
LEMMA ThreadsMove ==
    ASSUME PathInv, NEW c \in Client, Propose(c) \/ Thread(c) \/ LockTimeout(c)
    PROVE  ThreadMoves(c)
<1> USE DEF PathInv, LInv, LockInv
<1>1. ASSUME pc[c] \in {"lock", "wait", "late"} PROVE Unplaced(Call(c))
  BY <1>1 DEF CallsTrue
<1>2. /\ pc \in [Client -> {"idle", "lock", "wait", "late", "commit"}]
      /\ calls \in [Client -> 0 .. MaxCalls] /\ try \in [Client -> 1 .. MaxTries]
  BY DEF TypeOK
<1>3. ~lockUsing => \A d \in Client : pc[d] # "commit"
  BY DEF CommitExclusive, Holders
<1>4. CASE Propose(c)
  BY <1>2, <1>4 DEF Propose, ThreadMoves
<1>5. CASE Lock(c)
  <2>1. CASE Return(c, "Reject", -1) /\ UNCHANGED ctxVars
    <3>1. ReturnFits(c, "Reject", -1)
      BY <1>1, <1>2, <1>5, <2>1 DEF Lock, Return, ReturnFits
    <3> QED
      BY <1>2, <1>5, <2>1, <3>1 DEF Lock, Return, ThreadMoves
  <2>2. CASE ~lockUsing /\ NewCommit(c) /\ UNCHANGED returned
    BY <1>1, <1>2, <1>3, <1>5, <2>2 DEF Lock, NewCommit, ThreadMoves
  <2>3. CASE pc' = [pc EXCEPT ![c] = "wait"] /\ UNCHANGED <<ctxVars, returned>>
    BY <1>1, <1>2, <1>5, <2>3 DEF Lock, ThreadMoves
  <2> QED
    BY <1>5, <2>1, <2>2, <2>3 DEF Lock
<1>6. CASE Recheck(c)
  <2>1. CASE UNCHANGED <<pc, ctxVars>>
    BY <1>1, <1>6, <2>1 DEF Recheck, ThreadMoves
  <2>2. CASE MayTake /\ NewCommit(c)
    BY <1>1, <1>2, <1>3, <1>6, <2>2 DEF Recheck, NewCommit, MayTake, ThreadMoves
  <2>3. CASE pc' = [pc EXCEPT ![c] = "late"] /\ UNCHANGED ctxVars
    BY <1>1, <1>2, <1>6, <2>3 DEF Recheck, ThreadMoves
  <2> QED
    BY <1>6, <2>1, <2>2, <2>3 DEF Recheck
<1>7. CASE GiveUp(c) \/ LockTimeout(c)
  <2>1. /\ pc[c] \in {"wait", "late"} /\ Return(c, "LockTimeout", -1)
        /\ UNCHANGED <<calls, try, ctxVars, loopVars, envVars, pastVars>>
    BY <1>7 DEF GiveUp, LockTimeout
  <2>2. ReturnFits(c, "LockTimeout", -1)
    BY <1>1, <1>2, <2>1 DEF Return, ReturnFits
  <2> QED
    BY <1>2, <2>1, <2>2 DEF Return, ThreadMoves
<1>8. CASE TakeResult(c)
  <2>1. /\ pc[c] = "commit" /\ commitEnd /\ CommitTrue(c)
        /\ UNCHANGED <<calls, ctxVars, loopVars, envVars, pastVars>>
    BY <1>8 DEF TakeResult, CallsTrue
  <2>2. CASE /\ commitRet = "Conflict"
             /\ try' = [try EXCEPT ![c] = @ + 1]
             /\ pc' = [pc EXCEPT ![c] = "lock"] /\ UNCHANGED returned
    BY <1>2, <2>1, <2>2 DEF CommitTrue, NotExecuted, ThreadMoves
  <2>3. ASSUME NEW inst, inst = IF commitRet = "OK" THEN commitInst ELSE -1,
               Return(c, commitRet, inst), UNCHANGED try
        PROVE  ThreadMoves(c)
    <3>1. ReturnFits(c, commitRet, inst)
      BY <1>2, <2>1, <2>3 DEF Return, ReturnFits, CommitTrue
    <3> QED
      BY <1>2, <2>1, <2>3, <3>1 DEF Return, ThreadMoves
  <2> QED
    BY <1>8, <2>2, <2>3 DEF TakeResult
<1> QED
  BY <1>4, <1>5, <1>6, <1>7, <1>8 DEF Thread
-----------------------------------------------------------------------------
(* A step of the IOLoop thread.                                            *)

LEMMA LoopKeeps ==
    ASSUME PathInv, LInv', UNCHANGED <<threadVars, returned>>,
           executed \subseteq executed', handed \subseteq handed',
           OfferInv', ExecutedOnce',
           \A u \in Calls : Unplaced(u) /\ u # commitValue => Unplaced(u)',
           \A c \in Client : pc[c] = "commit" => CommitTrue(c)'
    PROVE  PathInv'
<1> USE DEF PathInv, LInv, LockInv
<1>1. UNCHANGED <<pc, calls, try>>
  BY DEF threadVars
<1>2. \A c \in Client : Call(c)' = Call(c) /\ Attempt(c)' = Attempt(c)
  BY <1>1 DEF Call, Attempt
<1>3. commitValue # None =>
        \E c \in Client : pc[c] = "commit" /\ commitValue = <<c, calls[c]>>
  BY DEF CommitExclusive, Call
<1>4. None \notin Calls
  BY ValueAssumption
<1>5. CallsTrue'
  <2>1. ASSUME NEW d \in Client, pc[d] \in {"lock", "wait", "late"}
        PROVE  Unplaced(Call(d))'
    <3>1. Call(d) \in Calls /\ Call(d) = <<d, calls[d]>> /\ pc[d] # "commit"
      BY <2>1, CallTypes DEF Call
    <3>2. Call(d) # commitValue
      BY <1>3, <1>4, <3>1
    <3>3. Unplaced(Call(d))
      BY <2>1 DEF CallsTrue
    <3>4. Call(d)' = Call(d)
      BY <1>2
    <3> QED
      BY <3>1, <3>2, <3>3, <3>4 DEF Unplaced
  <2>2. ASSUME NEW d \in Client, NEW k \in 1 .. MaxCalls, k > calls[d]
        PROVE  Unplaced(<<d, k>>)'
    <3>1. <<d, k>> \in Calls
      BY DEF Calls
    <3>2. calls[d] \in Nat /\ calls[d] # k
      BY <2>2, PathAssumption DEF TypeOK
    <3>3. <<d, k>> # commitValue
      BY <1>3, <1>4, <3>1, <3>2
    <3> QED
      BY <2>2, <3>1, <3>3 DEF CallsTrue
  <2> QED
    BY <1>1, <2>1, <2>2 DEF CallsTrue
<1>6. ReturnsTrue'
  <2> SUFFICES ASSUME NEW r \in returned PROVE ReturnTrue(r)'
    BY DEF ReturnsTrue
  <2>1. ReturnTrue(r) /\ Over(r.attempt)
    BY DEF ReturnsTrue, ReturnTrue
  <2>2. Over(r.attempt)'
    BY <1>1, <2>1 DEF Over
  <2>3. ValueOf(r.attempt) \in Calls
    BY ReturnTypes
  <2>4. ValueOf(r.attempt) # commitValue
    <3>1. ASSUME NEW c \in Client, pc[c] = "commit",
                 ValueOf(r.attempt) = <<c, calls[c]>>
          PROVE  FALSE
      <4>1. r.attempt[1] = c /\ r.attempt[2] = calls[c] /\ calls[c] \in Nat
        BY <3>1, PathAssumption DEF ValueOf, TypeOK
      <4> QED
        BY <2>1, <3>1, <4>1 DEF Over
    <3> QED
      BY <1>3, <1>4, <2>3, <3>1
  <2>5. r.ret \in NotExecuted => Unplaced(ValueOf(r.attempt))'
    BY <2>1, <2>3, <2>4 DEF ReturnTrue, Unplaced, ValueOf
  <2> QED
    BY <2>1, <2>2, <2>5 DEF ReturnTrue, ValueOf
<1> QED
  BY <1>5, <1>6

(* The commit in flight is that of the one thread that waits for it.       *)
LEMMA OneCommits ==
    ASSUME LInv, NEW c \in Client, pc[c] = "commit"
    PROVE  /\ ~commitEnd => commitValue = Call(c) /\ commitCtx = Attempt(c)
           /\ commitEnd => commitValue = None
           /\ Call(c) \in Calls
BY CallTypes DEF LInv, LockInv, CommitHeld

LEMMA CheckNewValueKeeps ==
    ASSUME PathInv, LInv', CheckNewValue
    PROVE  PathInv'
<1> USE DEF PathInv
<1>1. PICK c \in Client : pc[c] = "commit" /\ commitValue = Call(c)
  BY DEF CheckNewValue, LInv, LockInv, CommitExclusive
<1>2. /\ ~commitEnd /\ commitInst = -1 /\ Unplaced(Call(c)) /\ Call(c) \in Calls
      /\ Call(c) # None /\ Call(c) # Other
      /\ \A d \in Client : pc[d] = "commit" => d = c
  BY <1>1, CallTypes, ValueAssumption
  DEF CheckNewValue, LInv, LockInv, CommitHeld, CommitExclusive, Holders,
      CallsTrue, CommitTrue
<1>3. /\ UNCHANGED <<threadVars, returned, executed, handed, instanceID, learned>>
      /\ Call(c)' = Call(c) /\ Attempt(c)' = Attempt(c)
  BY DEF CheckNewValue, loopVars, pastVars, threadVars, Call, Attempt
<1>4. ExecutedOnce'
  BY <1>3 DEF ExecutedOnce
<1>5. CASE Refuse /\ UNCHANGED loopVars
  <2>1. UNCHANGED <<held, offered>>
    BY <1>5 DEF loopVars
  <2>2. OfferInv' /\ \A u : Unplaced(u) => Unplaced(u)'
    BY <1>3, <2>1 DEF OfferInv, Unplaced
  <2>3. commitEnd' /\ commitRet' = "Refused"
    BY <1>2, <1>5 DEF Refuse, SetResult, CommitRet
  <2>4. CommitTrue(c)'
    BY <1>2, <1>3, <2>2, <2>3 DEF CommitTrue, NotExecuted
  <2> QED
    BY <1>2, <1>3, <1>4, <2>2, <2>4, LoopKeeps DEF threadVars
<1>6. CASE /\ commitInst' = instanceID
           /\ held' = IF held = None THEN commitValue ELSE held
           /\ offered' = offered \cup {held'}
           /\ UNCHANGED <<commitValue, commitEnd, commitRet>>
  <2>1. held' \in offered \cup {Other, commitValue}
    BY <1>6 DEF OfferInv
  <2>2. OfferInv'
    BY <1>1, <1>2, <1>3, <1>6, <2>1 DEF OfferInv, Unplaced
  <2>3. \A u \in Calls : Unplaced(u) /\ u # commitValue => Unplaced(u)'
    BY <1>3, <1>6, <2>1, ValueAssumption DEF Unplaced
  <2>4. CommitTrue(c)'
    <3>1. instanceID # -1
      BY DEF LInv, LockInv, TypeOK
    <3> QED
      BY <1>2, <1>3, <1>6, <3>1 DEF CommitTrue, Unplaced
  <2> QED
    BY <1>2, <1>3, <1>4, <2>2, <2>3, <2>4, LoopKeeps DEF threadVars
<1> QED
  BY <1>5, <1>6 DEF CheckNewValue
(* An instance ends with v, or its execution fails.                        *)
LEMMA ExecuteKeeps ==
    ASSUME PathInv, LInv', NEW v \in offered \cup {Other}, ExecuteLearned(v)
    PROVE  PathInv'
<1> USE DEF PathInv
<1>1. /\ UNCHANGED <<threadVars, returned, commitInst, commitCtx>>
      /\ handed \subseteq handed'
      /\ IsMyCommit(v) => <<commitCtx, instanceID>> \in handed'
      /\ \A c : Call(c)' = Call(c) /\ Attempt(c)' = Attempt(c)
  BY DEF ExecuteLearned, threadVars, Call, Attempt
<1>2. v = Other \/ \A e \in executed : e[2] # v
  BY DEF OfferInv
<1>3. v \in Calls \cup {Other} /\ v # None /\ instanceID \in Nat
  BY ValueAssumption DEF LInv, LockInv, TypeOK
<1>4. \A u \in Calls : Unplaced(u) => u # v
  BY ValueAssumption DEF Unplaced
<1>5. CASE /\ SetResult("OK", instanceID, v)
           /\ executed' = executed \cup {<<instanceID, v>>}
           /\ instanceID' = instanceID + 1
           /\ held' = None /\ offered' = {} /\ learned' = None
  <2>1. OfferInv' /\ executed \subseteq executed'
    BY <1>5 DEF OfferInv
  <2>2. ExecutedOnce'
    BY <1>2, <1>5 DEF ExecutedOnce
  <2>3. ASSUME NEW u \in Calls, \A e \in executed : e[2] # u, u # v
        PROVE  Unplaced(u)'
    BY <1>5, <2>3 DEF Unplaced
  <2>4. \A u \in Calls : Unplaced(u) => Unplaced(u)'
    BY <1>4, <2>3 DEF Unplaced
  <2>5. ASSUME NEW c \in Client, pc[c] = "commit" PROVE CommitTrue(c)'
    <3>1. /\ CommitTrue(c) /\ Call(c) \in Calls
          /\ ~commitEnd => commitValue = Call(c) /\ commitCtx = Attempt(c)
      BY <2>5, OneCommits DEF CallsTrue
    <3>2. CASE commitEnd
      BY <1>1, <1>5, <2>1, <2>4, <3>1, <3>2 DEF SetResult, CommitTrue
    <3>3. CASE ~commitEnd /\ commitInst # instanceID
      <4>1. commitInst = -1 /\ UNCHANGED <<commitRet, commitEnd>>
        BY <1>5, <3>1, <3>3 DEF SetResult, CommitTrue
      <4> QED
        BY <1>1, <2>4, <3>1, <3>3, <4>1 DEF CommitTrue
    <3>4. CASE ~commitEnd /\ commitInst = instanceID /\ Call(c) = v
      <4>1. commitRet' = "OK" /\ commitEnd'
        BY <1>5, <3>1, <3>4 DEF SetResult, CommitRet
      <4>2. <<commitInst, Call(c)>> \in executed'
        BY <1>5, <3>4
      <4>3. <<Attempt(c), commitInst>> \in handed'
        BY <1>1, <3>1, <3>4 DEF IsMyCommit
      <4> QED
        BY <1>1, <4>1, <4>2, <4>3 DEF CommitTrue, NotExecuted
    <3>5. CASE ~commitEnd /\ commitInst = instanceID /\ Call(c) # v
      <4>1. commitRet' = "Conflict" /\ commitEnd'
        BY <1>5, <3>1, <3>5 DEF SetResult, CommitRet
      <4>2. \A e \in executed : e[2] # Call(c)
        BY <1>3, <3>1, <3>5 DEF CommitTrue
      <4>3. Unplaced(Call(c))'
        BY <1>1, <2>3, <3>1, <3>5, <4>2 DEF Unplaced
      <4> QED
        BY <4>1, <4>3 DEF CommitTrue
    <3> QED
      BY <3>2, <3>3, <3>4, <3>5
  <2> QED
    BY <1>1, <2>1, <2>2, <2>4, <2>5, LoopKeeps
<1>6. CASE /\ SetResult("ExecuteFail", instanceID, v) /\ learned' = v
           /\ UNCHANGED <<executed, instanceID, held, offered>>
  <2>1. OfferInv' /\ ExecutedOnce' /\ executed \subseteq executed'
    BY <1>6 DEF OfferInv, ExecutedOnce
  <2>2. \A u : Unplaced(u) => Unplaced(u)'
    BY <1>6 DEF Unplaced
  <2>3. ASSUME NEW c \in Client, pc[c] = "commit" PROVE CommitTrue(c)'
    <3>1. CommitTrue(c)
      BY <2>3 DEF CallsTrue
    <3>2. \/ UNCHANGED <<commitRet, commitEnd>>
          \/ commitRet' = "ExecuteFail" /\ commitEnd'
      BY <1>6 DEF SetResult, CommitRet
    <3>3. Unplaced(Call(c)) => Unplaced(Call(c))'
      BY <1>1, <2>2, <1>6 DEF Unplaced
    <3> QED
      BY <1>1, <1>6, <3>1, <3>2, <3>3 DEF CommitTrue, NotExecuted
  <2> QED
    BY <1>1, <2>1, <2>2, <2>3, LoopKeeps
<1> QED
  BY <1>5, <1>6 DEF ExecuteLearned, HeldAfter

LEMMA LoopStepKeeps ==
    ASSUME PathInv, LInv',
           \/ Adopt \/ LearnOwn \/ LearnOther \/ ExecuteAgain
           \/ CommitTimeout \/ FallBehind \/ CatchUp
    PROVE  PathInv'
<1> USE DEF PathInv
<1>1. CASE LearnOwn \/ LearnOther \/ ExecuteAgain
  BY <1>1, ExecuteKeeps DEF LearnOwn, LearnOther, ExecuteAgain, OfferInv
<1>2. CASE Adopt \/ CommitTimeout \/ FallBehind \/ CatchUp
  <2>1. /\ UNCHANGED <<threadVars, returned, commitInst, instanceID, offered,
                       learned, executed, handed>>
        /\ held' \in {held, Other}
        /\ \/ UNCHANGED <<commitRet, commitEnd>>
           \/ commitRet' = "Timeout" /\ commitEnd'
    BY <1>2
    DEF Adopt, CommitTimeout, FallBehind, CatchUp, SetResult, CommitRet,
        ctxVars, loopVars, pastVars
  <2>2. \A c : Call(c)' = Call(c) /\ Attempt(c)' = Attempt(c)
    BY <2>1 DEF threadVars, Call, Attempt
  <2>3. OfferInv' /\ ExecutedOnce'
    BY <2>1 DEF OfferInv, ExecutedOnce
  <2>4. \A u : Unplaced(u) => Unplaced(u)'
    BY <2>1 DEF Unplaced
  <2>5. ASSUME NEW c \in Client, pc[c] = "commit" PROVE CommitTrue(c)'
    <3>1. CommitTrue(c)
      BY <2>5 DEF CallsTrue
    <3>2. Unplaced(Call(c)) => Unplaced(Call(c))'
      BY <2>1, <2>2 DEF Unplaced
    <3> QED
      BY <2>1, <2>2, <3>1, <3>2 DEF CommitTrue, NotExecuted
  <2> QED
    BY <2>1, <2>3, <2>4, <2>5, LoopKeeps DEF threadVars
<1> QED
  BY <1>1, <1>2

LEMMA PathInit == Init => PathInv
<1> SUFFICES ASSUME Init PROVE PathInv
  OBVIOUS
<1>1. OfferInv /\ ReturnsTrue /\ ExecutedOnce
  BY DEF Init, OfferInv, ReturnsTrue, ExecutedOnce
<1>2. CallsTrue
  BY DEF Init, CallsTrue, Unplaced
<1> QED
  BY <1>1, <1>2, LockInit DEF PathInv

LEMMA PathStep ==
    ASSUME PathInv, [Next]_vars
    PROVE  PathInv'
<1>1. LInv'
  BY LockStep DEF PathInv
<1>2. CASE UNCHANGED vars
  <2>1. /\ UNCHANGED <<threadVars, returned, executed, handed, held, offered,
                       learned, instanceID, ctxVars>>
        /\ \A c : Call(c)' = Call(c) /\ Attempt(c)' = Attempt(c)
    BY <1>2 DEF vars, loopVars, pastVars, threadVars, Call, Attempt
  <2>2. OfferInv' /\ ExecutedOnce' /\ \A u : Unplaced(u) => Unplaced(u)'
    BY <2>1 DEF PathInv, OfferInv, ExecutedOnce, Unplaced
  <2>3. ASSUME NEW c \in Client, pc[c] = "commit" PROVE CommitTrue(c)'
    <3>1. CommitTrue(c)
      BY <2>3 DEF PathInv, CallsTrue
    <3>2. Unplaced(Call(c)) => Unplaced(Call(c))'
      BY <2>1 DEF Unplaced
    <3> QED
      BY <2>1, <3>1, <3>2 DEF CommitTrue, ctxVars
  <2> QED
    BY <1>1, <2>1, <2>2, <2>3, LoopKeeps
<1>3. CASE Next
  BY <1>1, <1>3, ThreadsMove, ThreadKeeps, CheckNewValueKeeps, LoopStepKeeps
  DEF Next
<1> QED
  BY <1>2, <1>3

LEMMA PathHolds == Spec => []PathInv
BY PathInit, PathStep, PTL DEF Spec

(* What NewValueGetID returns is true of the value: after OK it is         *)
(* executed in the instance told and its SMCtx was the one of the attempt  *)
(* that succeeded; after a conflict in the last retry, a refusal or no     *)
(* turn in time it is not executed, and never will be.                     *)
THEOREM CallersToldTruth == Spec => []ResultTruthful
<1>1. PathInv => ResultTruthful
  BY DEF PathInv, ReturnsTrue, ReturnTrue, ResultTruthful, NotExecuted, Unplaced
<1> QED
  BY <1>1, PathHolds, PTL

(* The retries of NewValueGetID after PaxosTryCommitRet_Conflict execute   *)
(* no value twice, as InitForNewPaxosInstance forgets what the proposer    *)
(* still held.                                                             *)
THEOREM RetriesExecuteOnce == Spec => []ExecutedOnce
<1>1. PathInv => ExecutedOnce
  BY DEF PathInv
<1> QED
  BY <1>1, PathHolds, PTL

(* CommitCtx::IsMyCommit hands Execute the SMCtx of a call only while the  *)
(* call's thread is in GetResult: the object lives on its stack.           *)
THEOREM ContextsAlive == Spec => ContextAlive
<1>1. ASSUME PathInv, [Next]_vars
      PROVE  [\A h \in handed' \ handed :
                pc[h[1][1]] = "commit" /\ Attempt(h[1][1]) = h[1]]_vars
  <2> SUFFICES ASSUME Next, NEW h \in handed' \ handed
               PROVE  pc[h[1][1]] = "commit" /\ Attempt(h[1][1]) = h[1]
    BY <1>1
  <2>1. PICK v \in offered \cup {Other} : ExecuteLearned(v)
    BY <1>1
    DEF Next, Propose, Thread, Lock, Recheck, GiveUp, TakeResult, LockTimeout,
        CheckNewValue, Adopt, LearnOwn, LearnOther, ExecuteAgain,
        CommitTimeout, FallBehind, CatchUp, pastVars, PathInv, OfferInv
  <2>2. h = <<commitCtx, instanceID>> /\ commitValue = v
    BY <2>1 DEF ExecuteLearned, IsMyCommit
  <2>3. v # None
    BY <1>1, ValueAssumption DEF PathInv, LInv, LockInv, TypeOK
  <2>4. PICK c \in Client : pc[c] = "commit" /\ commitCtx = Attempt(c)
    BY <1>1, <2>2, <2>3 DEF PathInv, LInv, LockInv, CommitExclusive
  <2> QED
    BY <2>2, <2>4 DEF Attempt
<1> QED
  BY <1>1, PathHolds, PTL DEF Spec, ContextAlive
=============================================================================
