----------------------------- MODULE MasterLease ----------------------------
(***************************************************************************)
(* Master election: MasterStateMachine, the state machine PhxPaxos adds to *)
(* a group with bIsUseMaster, at every node.  A node that knows of no      *)
(* master with a lease proposes itself, for the version (the instance of   *)
(* the last change) it has read.                                           *)
(*                                                                         *)
(* Every node has its own steady clock: an absolute expire time of the     *)
(* code is the time left until it, in ticks of Lease.                      *)
(***************************************************************************)
EXTENDS GroupNodes, Integers

CONSTANTS
    Lease,    \* m_iLeaseTime of the MasterMgr, 10000 ms
    Margin    \* what a master takes off its own lease, 100 ms

ASSUME MasterAssumption ==
    Lease \in Nat /\ Margin \in Nat /\ Margin < Lease

VARIABLES
    master,     \* m_iMasterNodeID
    version,    \* m_llMasterVersion
    remains,    \* m_llAbsExpireTime, less the node's clock
    leaseTime,  \* m_iLeaseTime of the state machine
    saved       \* the MasterVariables in the store, which are written synced

masterVars == <<master, version, remains, leaseTime, saved>>

NoVersion == -1   \* (uint64_t)-1

NothingSaved == [master |-> None, version |-> NoVersion, lease |-> 0]

MasterInit ==
    /\ master = [n \in Node |-> None]
    /\ version = [n \in Node |-> NoVersion]
    /\ remains = [n \in Node |-> 0]
    /\ leaseTime = [n \in Node |-> 0]
    /\ saved = [n \in Node |-> NothingSaved]
-----------------------------------------------------------------------------
GetMaster(n)  == IF remains[n] = 0 THEN None ELSE master[n]
IsIMMaster(n) == GetMaster(n) = n

(* TryBeMaster: the value, and the lease its proposer will count.          *)
MayTryBeMaster(n) == GetMaster(n) \in {None, n}
OwnLease == Lease - Margin

MakeOpValue(n, sid) ==
    [sm |-> "master", node |-> n, version |-> version[n], lastVersion |-> 0,
     sid |-> sid]

(* MasterStateMachine::BeforePropose, when the instance of the proposal is *)
(* known.                                                                  *)
BeforePropose(n, op) == [op EXCEPT !.lastVersion = version[n]]

(* A node whose version is not the one the proposer had takes that of the  *)
(* proposer.                                                               *)
Repaired(n, op, inst) ==
    IF /\ op.lastVersion # 0
       /\ version[n] # NoVersion /\ inst > version[n]
       /\ op.lastVersion # version[n]
    THEN op.lastVersion ELSE version[n]

(* The new master counts the time from before it proposed, of which left   *)
(* remains, or nothing if this was not its commit; the others count the    *)
(* whole lease from now on.                                                *)
NewLeaseFromNow(n, op, left) == IF op.node = n THEN OwnLease ELSE Lease
NewLease(n, op, left) == IF op.node = n THEN left ELSE Lease

UpdateMasterToStore(n, vars) == saved' = [saved EXCEPT ![n] = vars]

LearnMaster(n, op, inst, left) ==
    IF op.version = Repaired(n, op, inst)
    THEN /\ UpdateMasterToStore(n, [master |-> op.node, version |-> inst,
                                    lease |-> Lease])
         /\ master' = [master EXCEPT ![n] = op.node]
         /\ remains' = [remains EXCEPT ![n] = NewLease(n, op, left)]
         /\ leaseTime' = [leaseTime EXCEPT ![n] = Lease]
         /\ version' = [version EXCEPT ![n] = inst]
    ELSE /\ version' = [version EXCEPT ![n] = Repaired(n, op, inst)]
         /\ UNCHANGED <<master, remains, leaseTime, saved>>

(* What Init and UpdateByCheckpoint make of stored or received variables:  *)
(* a node that was the master is not, for the others the lease begins      *)
(* again.                                                                  *)
TakeVariables(n, vars) ==
    /\ version' = [version EXCEPT ![n] = vars.version]
    /\ master' = [master EXCEPT ![n] = IF vars.master = n THEN None
                                       ELSE vars.master]
    /\ remains' = [remains EXCEPT ![n] = IF vars.master = n THEN 0
                                         ELSE vars.lease]

(* A new MasterStateMachine; Init does not set m_iLeaseTime.               *)
RestartMaster(n) ==
    /\ TakeVariables(n, saved[n])
    /\ leaseTime' = [leaseTime EXCEPT ![n] = 0]
    /\ UNCHANGED saved

GetCheckpointBuffer(n) ==
    IF version[n] = NoVersion THEN None
    ELSE [master |-> master[n], version |-> version[n], lease |-> leaseTime[n]]

UpdateByCheckpoint(n, cp) ==
    IF cp # None /\ (version[n] = NoVersion \/ cp.version > version[n])
    THEN /\ UpdateMasterToStore(n, cp)
         /\ TakeVariables(n, cp)
         /\ UNCHANGED leaseTime
    ELSE UNCHANGED masterVars

(* Time passes at the nodes of N.                                          *)
LeaseTick(N) ==
    /\ remains' = [n \in Node |-> IF n \in N /\ remains[n] > 0
                                  THEN remains[n] - 1 ELSE remains[n]]
    /\ UNCHANGED <<master, version, leaseTime, saved>>
=============================================================================
