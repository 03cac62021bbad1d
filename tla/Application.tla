---------------------------- MODULE Application -----------------------------
(***************************************************************************)
(* One node of a group as an application sees it: threads of the sample    *)
(* phxkv put and delete keys (PhxKV, through Node::Propose), other threads *)
(* call Node::BatchPropose, and SMFac executes what the group decides, one *)
(* instance after the other, on the state machines: the key value store    *)
(* and one without checkpoints.                                            *)
(*                                                                         *)
(* The choice of the values is the environment (PaxosGroup and CommitPath  *)
(* model it): a proposed value is decided in the next instance, or its     *)
(* call ends without it being decided, in a timeout perhaps before it is.  *)
(***************************************************************************)
EXTENDS KVStore, ProposeBatch

CONSTANTS
    User,        \* threads that call PhxKV::Put and Delete
    Plain,       \* callers of BatchPropose without an SMCtx
    Other,       \* who proposes at other nodes
    UserTypes,   \* bound: what users call
    OtherTypes,  \* bound: what is proposed at other nodes
    MaxPuts,     \* bound: calls of a user
    MaxOther,    \* bound: operations proposed at other nodes
    MaxFaults    \* bound: failures, timeouts and crashes

ASSUME ApplicationAssumption ==
    /\ IsFiniteSet(User) /\ User \cap Threads = {} /\ Plain \subseteq Caller
    /\ Other \notin User \cup Threads /\ None \notin User \cup Threads
    /\ UserTypes \subseteq {"write", "delete"}
    /\ OtherTypes \subseteq {"write", "delete", "read"}
    /\ MaxPuts \in Nat /\ MaxOther \in Nat /\ MaxFaults \in Nat

VARIABLES
    op,          \* the operation a user's call proposes, or None
    puts,        \* history: calls a user, or the other nodes, have made
    log,         \* the decided values, each a sequence of entries
    executed,    \* instances executed
    pos,         \* entries of the next instance executed in this attempt
    mine,        \* the thread whose commit the next instance is, or None
    ready,       \* Init has played the log
    floating,    \* values that may still be decided after their call ended
    told,        \* history: what users' calls have returned
    given,       \* history: <<entry id, instance>> executed with its SMCtx
    ended,       \* history: what BatchPropose has returned
    faults       \* history: faults so far

appVars == <<op, puts, log, executed, pos, mine, ready, floating, told, given,
             ended, faults>>
vars == <<storeVars, batchVars, appVars>>

Init ==
    /\ StoreInit
    /\ BatchInit
    /\ op = [u \in User |-> None]
    /\ puts = [u \in User \cup {Other} |-> 0]
    /\ log = <<>>
    /\ executed = 0
    /\ pos = 0
    /\ mine = None
    /\ ready = TRUE
    /\ floating = {}
    /\ told = {}
    /\ given = {}
    /\ ended = {}
    /\ faults = 0
-----------------------------------------------------------------------------
(* What the log says, whoever executes it.                                 *)

(* The operations on k that found the version they carry.                  *)
Wins(k, n) ==
    LET wins[i \in 0 .. n] ==
          IF i = 0 THEN <<>>
          ELSE LET e == log[i][1]
               IN  IF /\ e.sm = "kv" /\ e.op.key = k /\ e.op.type # "read"
                      /\ e.op.version = Len(wins[i - 1])
                   THEN Append(wins[i - 1], e.op) ELSE wins[i - 1]
    IN  wins[n]

-----------------------------------------------------------------------------
(* The values.                                                             *)

KVEntry(o) == [sm |-> "kv", id |-> o.id, op |-> o]

(* Node::Propose packs the id of the state machine, DoPropose one for each *)
(* value of the batch.                                                     *)
BatchEntry(c) == [sm |-> IF c \in Plain THEN "none" ELSE "user",
                  id |-> <<c, batched[c]>>, op |-> None]

Value(t) == IF t \in User THEN <<KVEntry(op[t])>>
            ELSE [i \in DOMAIN request[t] |-> BatchEntry(request[t][i])]

InPropose(t) == IF t \in User THEN op[t] # None ELSE Proposing(t)
Proposers    == {t \in User \cup Threads : InPropose(t) /\ mine # t}
-----------------------------------------------------------------------------
(* The users: PhxKV::Put, Delete and KVPropose.                            *)

Call(u, k, type, version) ==
    /\ ready
    /\ op[u] = None
    /\ puts[u] < MaxPuts
    /\ op' = [op EXCEPT ![u] = Operation(<<u, puts[u] + 1>>, type, k, version)]
    /\ puts' = [puts EXCEPT ![u] = @ + 1]
    /\ UNCHANGED <<storeVars, batchVars, log, executed, pos, mine, ready,
                   floating, told, given, ended, faults>>

(* A user has read the version somewhere, on this node or on another: the  *)
(* log has it already.                                                     *)
UserCalls(u) ==
    \E k \in Key, type \in UserTypes, n \in 0 .. Len(log) :
        Call(u, k, type, Len(Wins(k, n)))

(* Put and Delete look at the PhxKVSMCtx only if Propose has returned 0.   *)
Status(ret, executeRet) ==
    IF ret # "OK" THEN "FAIL"
    ELSE CASE executeRet = "OK"               -> "SUCC"
           [] executeRet = "VERSION_CONFLICT" -> "VERSION_CONFLICT"
           [] OTHER                           -> "FAIL"

UserReturns(u, ret, executeRet) ==
    /\ told' = told \cup {[op |-> op[u], status |-> Status(ret, executeRet)]}
    /\ op' = [op EXCEPT ![u] = None]
    /\ UNCHANGED <<batchVars, ended>>

(* BatchPropose returns what WaitNotify read, and where the value is.      *)
CallerReturns(c) ==
    /\ WaitNotify(c)
    /\ ended' = ended \cup {[id    |-> <<c, batched[c]>>,
                             ret   |-> Head(notified[c]),
                             place |-> place[c]]}
    /\ UNCHANGED <<storeVars, op, puts, log, executed, pos, mine, ready,
                   floating, told, given, faults>>

Batching ==
    /\ ready
    /\ \/ \E c \in Caller : Propose(c) \/ AddProposal(c)
       \/ RunStarts \/ RunLoops \/ RunEnds \/ Stop
    /\ UNCHANGED <<storeVars, appVars>>

(* Node::Propose returns to its thread.                                    *)
ProposeEnds(t, ret, inst, executeRet) ==
    IF t \in User THEN UserReturns(t, ret, executeRet)
    ELSE ProposeReturns(t, ret, inst) /\ UNCHANGED <<op, told, ended>>
-----------------------------------------------------------------------------
(* The group decides.                                                      *)

Idle == ready /\ executed = Len(log)

DecideMine(t) ==
    /\ Idle
    /\ t \in Proposers
    /\ log' = Append(log, Value(t))
    /\ mine' = t
    /\ UNCHANGED <<storeVars, batchVars, op, puts, executed, pos, ready,
                   floating, told, given, ended, faults>>

(* A value whose call has ended is decided after all.                      *)
DecideFloating(v) ==
    /\ Idle
    /\ log' = Append(log, v)
    /\ floating' = floating \ {v}
    /\ UNCHANGED <<storeVars, batchVars, op, puts, executed, pos, mine, ready,
                   told, given, ended, faults>>

(* An operation of another node, of a user who has read the log's version; *)
(* it may be a read, which the sample's users never propose.               *)
DecideOther(k, type) ==
    /\ Idle
    /\ puts[Other] < MaxOther
    /\ puts' = [puts EXCEPT ![Other] = @ + 1]
    /\ log' = Append(log, <<KVEntry(Operation(<<Other, puts[Other] + 1>>, type,
                                              k, Len(Wins(k, Len(log)))))>>)
    /\ UNCHANGED <<storeVars, batchVars, op, executed, pos, mine, ready,
                   floating, told, given, ended, faults>>

(* A call ends without its value: a conflict, or a timeout, after which    *)
(* the value may still be decided.                                         *)
NotDecided(t, ret) ==
    /\ ready
    /\ t \in Proposers
    /\ faults < MaxFaults
    /\ faults' = faults + 1
    /\ floating' = IF ret = "Timeout" THEN floating \cup {Value(t)}
                   ELSE floating
    /\ ProposeEnds(t, ret, 0, None)
    /\ UNCHANGED <<storeVars, puts, log, executed, pos, mine, ready, given>>
-----------------------------------------------------------------------------
(* SMFac, in the IOLoop thread or, after a restart, in Init.               *)

Entry  == log[executed + 1][pos + 1]
AtLast == pos + 1 = Len(log[executed + 1])

(* DoExecute of one entry; BatchExecute goes on to the next, and after the *)
(* last one the commit of the instance succeeds.                           *)
ExecuteEntry ==
    /\ executed < Len(log)
    /\ IF Entry.sm = "kv"
         THEN \/ Execute(Entry.op, executed + 1)
              \/ ExecuteUnsaved(Entry.op)
         ELSE UNCHANGED storeVars
    /\ given' = IF mine # None /\ Entry.sm # "none"
                THEN given \cup {<<Entry.id, executed + 1>>} ELSE given
    /\ IF AtLast
         THEN /\ executed' = executed + 1
              /\ pos' = 0
              /\ mine' = None
              /\ IF mine # None
                   THEN ProposeEnds(mine, "OK", executed + 1,
                            IF Entry.sm = "kv" THEN ExecuteRet(Entry.op)
                            ELSE None)
                   ELSE UNCHANGED <<batchVars, op, told, ended>>
         ELSE /\ pos' = pos + 1
              /\ UNCHANGED <<executed, mine, batchVars, op, told, ended>>
    /\ UNCHANGED <<puts, log, ready, floating, faults>>

(* A state machine returns false: the commit ends, and the instance is     *)
(* executed again, from its first entry and without SMCtx.                 *)
ExecuteFails ==
    /\ ready
    /\ executed < Len(log)
    /\ Entry.sm # "none"
    /\ faults < MaxFaults
    /\ faults' = faults + 1
    /\ pos' = 0
    /\ mine' = None
    /\ IF mine # None THEN ProposeEnds(mine, "ExecuteFail", 0, None)
       ELSE UNCHANGED <<batchVars, op, told, ended>>
    /\ UNCHANGED <<storeVars, puts, log, executed, ready, floating, given>>

(* If it does so in PlayLog, Init fails and the node is started again.     *)
PlayLogFails ==
    /\ ~ready
    /\ executed < Len(log)
    /\ Entry.sm # "none"
    /\ RestartStore /\ UNCHANGED <<db, unsynced>>
    /\ executed' = savedCP
    /\ pos' = 0
    /\ UNCHANGED <<batchVars, op, puts, log, mine, ready, floating, told, given,
                   ended, faults>>

(* The process or the machine dies; the values proposed may have been      *)
(* accepted.  PlayLog executes from the checkpoint, GetCheckpointInstanceID*)
(* of the only state machine that has one.                                 *)
Crash(machine, accepted) ==
    /\ faults < MaxFaults
    /\ faults' = faults + 1
    /\ RestartStore
    /\ IF machine THEN LoseUnsynced ELSE UNCHANGED <<db, unsynced>>
    /\ RestartBatch
    /\ executed' = savedCP
    /\ pos' = 0
    /\ mine' = None
    /\ ready' = FALSE
    /\ op' = [u \in User |-> None]
    /\ floating' = floating \cup {Value(t) : t \in accepted}
    /\ UNCHANGED <<puts, log, told, given, ended>>

(* Init has played the log up to the instance the acceptor was in, which   *)
(* the last decided one may still be.                                      *)
Ready ==
    /\ ~ready
    /\ executed >= Len(log) - 1
    /\ pos = 0
    /\ ready' = TRUE
    /\ UNCHANGED <<storeVars, batchVars, op, puts, log, executed, pos, mine,
                   floating, told, given, ended, faults>>

Next ==
    \/ \E u \in User : UserCalls(u)
    \/ Batching
    \/ \E c \in Caller : CallerReturns(c)
    \/ \E t \in User \cup Threads :
          \/ DecideMine(t)
          \/ \E ret \in {"Timeout", "Conflict"} : NotDecided(t, ret)
    \/ \E v \in floating : DecideFloating(v)
    \/ \E k \in Key, type \in OtherTypes : DecideOther(k, type)
    \/ ExecuteEntry
    \/ ExecuteFails
    \/ PlayLogFails
    \/ \E machine \in BOOLEAN, accepted \in SUBSET Proposers :
          Cardinality(accepted) <= 1 /\ Crash(machine, accepted)
    \/ Ready

Spec == Init /\ [][Next]_vars

(* Threads run, a group with a majority decides what is proposed, and the  *)
(* node executes it; faults are few.                                       *)
LiveSpec ==
    /\ Spec
    /\ \A c \in Caller :
          /\ WF_vars(ready /\ AddProposal(c) /\ UNCHANGED <<storeVars, appVars>>)
          /\ WF_vars(CallerReturns(c))
    /\ WF_vars(ready /\ (RunStarts \/ RunLoops \/ RunEnds)
               /\ UNCHANGED <<storeVars, appVars>>)
    /\ WF_vars(\E t \in User \cup Threads : DecideMine(t))
    /\ WF_vars(ExecuteEntry)
    /\ WF_vars(Ready)
-----------------------------------------------------------------------------
(* Properties.                                                             *)

(* The types of the variables; no caller has two results in its pipe.      *)
TypeOK ==
    /\ \A k \in Key : db[k].version \in Nat /\ db[k].deleted \in BOOLEAN
    /\ savedCP \in 0 .. Len(log) /\ checkpoint = savedCP
    /\ skipTimes \in 0 .. MaxSkips
    /\ pc \in [Caller -> {"idle", "add", "propose", "wait"}]
    /\ queue \in Seq(Caller) /\ queueSize \in Nat
    /\ batcher \in {"new", "loop", "propose", "drain", "ended"}
    /\ \A t \in Threads : request[t] \in Seq(Caller)
    /\ \A c \in Caller : Len(notified[c]) <= 1
    /\ mine \in User \cup Threads \cup {None}
    /\ executed \in 0 .. Len(log) /\ pos \in Nat /\ ready \in BOOLEAN

(* SMFac::Execute, PlayLog and KVClient: the store of a node at the log's  *)
(* end is what the log says, each operation once, although failed          *)
(* instances are executed again and a restart executes again what the      *)
(* store already has.                                                      *)
StoreIsLog ==
    Idle => \A k \in Key :
        LET wins == Wins(k, executed)
        IN  /\ db[k].version = Len(wins)
            /\ wins # <<>> =>
                  db[k].deleted = (Last(wins).type = "delete")

(* KVClient's versions, PhxKVSMCtx and PhxKV::Put and Delete: of the       *)
(* operations with a key's version one user at most is told SUCC, the one  *)
(* the log has first, and a conflict is told only of the others.           *)
UsersTold ==
    \A r \in told :
        LET wins == Range(Wins(r.op.key, Len(log)))
            inLog == \E i \in DOMAIN log : log[i] = <<KVEntry(r.op)>>
        IN  /\ r.status = "SUCC" => r.op \in wins
            /\ r.status = "VERSION_CONFLICT" => inLog /\ r.op \notin wins

(* OnlyOnePropose, for a batch of one, never writes *piBatchIndex: a caller*)
(* whose value went alone has what its variable held before, although      *)
(* node.h:86 says that the index starts from 0.                            *)
ProposedAlone(e) == Len(log[e.place.inst]) = 1

(* DoPropose and BatchExecute: a BatchPropose that returns OK names the    *)
(* instance that has its value and, unless the value went alone, its index *)
(* in the batch; its state machine got its SMCtx, in that instance only.   *)
BatchTold ==
    \A e \in ended : e.ret = "OK" =>
        LET inst == e.place.inst
            at == IF ProposedAlone(e) THEN 1 ELSE e.place.index + 1
        IN  /\ inst \in DOMAIN log
            /\ at \in DOMAIN log[inst]
            /\ log[inst][at].id = e.id
            /\ log[inst][at].sm # "none" =>
                  {g \in given : g[1] = e.id} = {<<e.id, inst>>}

(* Run at its end: who is told Paxos_SystemError has not proposed, and     *)
(* nobody proposes the value afterwards.                                   *)
RefusedStaysOut ==
    \A e \in ended : e.ret = "SystemError" =>
        \A v \in Range(log) \cup floating : \A i \in DOMAIN v : v[i].id # e.id

(* What BatchPropose tells its callers, whether the value was decided or   *)
(* given up, and that nobody is told twice.  It says nothing of the times  *)
(* a state machine gets a value: BatchExecute repeats those before one that*)
(* failed, without their SMCtx.                                            *)
CallersTold == TypeOK /\ BatchTold /\ RefusedStaysOut

(* Who waits on a notifier is told, by the thread that took its value off  *)
(* the queue or by Run at its end.  The exception is the code's: a value   *)
(* queued after that is taken only if more values follow.                  *)
Stranded(c) == batcher = "ended" /\ c \in Range(queue)
CallsReturn ==
    \A c \in Caller : []<>(pc[c] = "idle" \/ Stranded(c))
=============================================================================
