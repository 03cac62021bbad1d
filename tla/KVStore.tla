------------------------------- MODULE KVStore -------------------------------
(***************************************************************************)
(* The state machine of the sample phxkv on one node: PhxKVSM, which       *)
(* executes operations on a LevelDB through KVClient.  An operation        *)
(* carries the version its client has read, and changes the key only if    *)
(* that is still its version.  The store writes its data without a sync    *)
(* and, every few executions, a checkpoint instance id with one; a restart *)
(* executes the log again from there.                                      *)
(*                                                                         *)
(* This module has the store; Application has the log that feeds it.       *)
(***************************************************************************)
EXTENDS Integers, Sequences, SequencesExt

CONSTANTS
    Key,         \* the keys of the store
    None,        \* no value
    MaxSkips     \* executions without a checkpoint (5 in the code)

ASSUME StoreAssumption == MaxSkips \in Nat

VARIABLES
    db,          \* the KVData of each key; version 0 is a key not found
    unsynced,    \* what db was before each write since the last sync
    savedCP,     \* the record KV_CHECKPOINT_KEY, 0 if there is none
    checkpoint,  \* PhxKVSM::m_llCheckpointInstanceID, 0 for NoCheckpoint
    skipTimes    \* PhxKVSM::m_iSkipSyncCheckpointTimes

storeVars == <<db, unsynced, savedCP, checkpoint, skipTimes>>

NotFound == [value |-> None, version |-> 0, deleted |-> TRUE]

(* What a KVOperator carries.  The value of a write is the id: no two      *)
(* operations write the same.                                              *)
Operation(id, type, k, version) ==
    [id |-> id, type |-> type, key |-> k, version |-> version]

StoreInit ==
    /\ db = [k \in Key |-> NotFound]
    /\ unsynced = <<>>
    /\ savedCP = 0
    /\ checkpoint = 0
    /\ skipTimes = 0
-----------------------------------------------------------------------------
(* KVClient.                                                               *)

(* Mutant of Get: a deleted key has no version.                            *)
GetForgetsVersion(k) ==
    [ret     |-> IF db[k].deleted THEN "KEY_NOTEXIST" ELSE "OK",
     value   |-> IF db[k].deleted THEN None ELSE db[k].value,
     version |-> IF db[k].deleted THEN 0 ELSE db[k].version]

(* Get: the version of a deleted key is still returned, its value is not.  *)
Get(k) == [ret     |-> IF db[k].deleted THEN "KEY_NOTEXIST" ELSE "OK",
           value   |-> IF db[k].deleted THEN None ELSE db[k].value,
           version |-> db[k].version]

VersionConflict(op) == Get(op.key).version # op.version

(* The record that Set and Del put in place of the old one.                *)
Set(op) == [value |-> op.id, version |-> Get(op.key).version + 1,
            deleted |-> FALSE]
Del(op) == [value |-> Get(op.key).value, version |-> Get(op.key).version + 1,
            deleted |-> TRUE]

Put(op) == IF op.type = "write" THEN Set(op) ELSE Del(op)

(* What the caller finds in PhxKVSMCtx::iExecuteRet.                       *)
ExecuteRet(op) ==
    IF op.type = "read" THEN Get(op.key).ret
    ELSE IF VersionConflict(op) THEN "VERSION_CONFLICT" ELSE "OK"

(* The write of Set or Del, to LevelDB's log without a sync.               *)
Perform(op) ==
    IF ExecuteRet(op) = "OK" /\ op.type # "read"
      THEN /\ db' = [db EXCEPT ![op.key] = Put(op)]
           /\ unsynced' = Append(unsynced, db)
      ELSE UNCHANGED <<db, unsynced>>
-----------------------------------------------------------------------------
(* PhxKVSM.                                                                *)

(* SyncCheckpointInstanceID: the checkpoint is written with a sync, which  *)
(* also makes every earlier write durable.  If LevelDB fails, the caller   *)
(* does not look at the return value and the next execution tries again.   *)
SyncCheckpoint(inst) ==
    /\ skipTimes >= MaxSkips
    /\ savedCP' = inst
    /\ checkpoint' = inst
    /\ skipTimes' = 0

SkipCheckpoint ==
    /\ skipTimes' = IF skipTimes < MaxSkips THEN skipTimes + 1 ELSE skipTimes
    /\ UNCHANGED <<savedCP, checkpoint>>

(* Mutant of Execute: the checkpoint is written before the operation.      *)
ExecuteSyncFirst(op, inst) ==
    /\ Perform(op)
    /\ IF skipTimes < MaxSkips THEN SkipCheckpoint ELSE SyncCheckpoint(inst)

(* Execute of one operation that does not end in KVCLIENT_SYS_FAIL.        *)
Execute(op, inst) ==
    \/ /\ Perform(op)
       /\ skipTimes < MaxSkips
       /\ SkipCheckpoint
    \/ /\ db' = IF ExecuteRet(op) = "OK" /\ op.type # "read"
                THEN [db EXCEPT ![op.key] = Put(op)] ELSE db
       /\ SyncCheckpoint(inst)
       /\ unsynced' = <<>>

(* Execute whose SetCheckpointInstanceID fails.                            *)
ExecuteUnsaved(op) ==
    /\ skipTimes >= MaxSkips
    /\ Perform(op)
    /\ SkipCheckpoint

(* PhxKVSM::Init in a new process.                                         *)
RestartStore ==
    /\ checkpoint' = savedCP
    /\ skipTimes' = 0
    /\ UNCHANGED savedCP

(* A crash of the machine, unlike one of the process, loses a tail of the  *)
(* writes since the last sync.                                             *)
LoseUnsynced ==
    /\ db' \in {db} \cup Range(unsynced)
    /\ unsynced' = <<>>
=============================================================================
