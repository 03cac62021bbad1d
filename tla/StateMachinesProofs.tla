-------------------------- MODULE StateMachinesProofs -------------------------
(***************************************************************************)
(* Proofs about the state machines PhxPaxos itself puts into a group: the  *)
(* variables of every node are those of a place in the log, no change of   *)
(* the members is lost, and no two nodes hold themselves to be the master. *)
(*                                                                         *)
(* What the log says is defined by recursion over it.  The first section   *)
(* proves what is needed of it, once for both machines: it exists, each    *)
(* value takes it one step on, and it goes back to none.                   *)
(***************************************************************************)
EXTENDS StateMachines, SequenceTheorems, WellFoundedInduction, TLAPS

-----------------------------------------------------------------------------
(* Induction over the naturals, for sets.                                  *)

Below == {p \in Nat \X Nat : p[1] < p[2]}

(* The instances count upwards from a first one.                           *)
LEMMA BelowWellFounded == IsWellFoundedOn(Below, Nat)
<1>1. OpToRel(<, Nat) = Below
  BY DEF OpToRel, Below
<1> QED
  BY <1>1, NatLessThanWellFounded

(* Some number of a set of numbers is the least.                           *)
LEMMA Least ==
  ASSUME NEW T, T \subseteq Nat, T # {}
  PROVE  \E x \in T : \A y \in T : x <= y
<1>1. PICK x \in T : \A y \in T : ~(<<y, x>> \in Below)
  BY BelowWellFounded, WFMin
<1>2. SUFFICES ASSUME NEW y \in T PROVE x <= y
  BY <1>1
<1>3. <<y, x>> \in Nat \X Nat /\ <<y, x>>[1] = y /\ <<y, x>>[2] = x
  OBVIOUS
<1> QED
  BY <1>1, <1>3 DEF Below

(* A set that has 0 and with a number the next has all of them.            *)
LEMMA SetInduction ==
  ASSUME NEW T, T \subseteq Nat, 0 \in T, \A n \in T : n + 1 \in T
  PROVE  T = Nat
<1> SUFFICES ASSUME T # Nat PROVE FALSE
  OBVIOUS
<1> DEFINE U == Nat \ T
<1>1. PICK x \in U : \A y \in U : x <= y
  BY Least
<1>2. x # 0 /\ x - 1 \in Nat /\ x - 1 \notin U
  BY <1>1
<1>3. (x - 1) + 1 \in T
  BY <1>2
<1> QED
  BY <1>1, <1>3

-----------------------------------------------------------------------------
(* What a machine has after the first k values of a log l: the values of   *)
(* its kind that were proposed with the version before them take effect,   *)
(* new[i] is what the i-th makes of it.                                    *)

History(kind, l, new, first, f, k) ==
    f = [i \in 0 .. k |->
           IF i = 0 THEN first
           ELSE IF l[i].sm = kind /\ l[i].version = f[i - 1].version
                THEN new[i] ELSE f[i - 1]]

After(kind, l, new, first, k) ==
    (CHOOSE f : History(kind, l, new, first, f, k))[k]

MasterFirst == [master |-> None, version |-> NoVersion]
MasterNew(l) == [i \in Nat |-> [master |-> l[i].node, version |-> i - 1]]
MasterLog(l, k) == After("master", l, MasterNew(l), MasterFirst, k)

SystemFirst == [gid |-> None, version |-> NoSysVersion, members |-> Founders]
SystemNew(l) == [i \in Nat |-> [gid |-> l[i].gid, version |-> i - 1,
                                members |-> l[i].members]]
SystemLog(l, k) == After("system", l, SystemNew(l), SystemFirst, k)

-----------------------------------------------------------------------------
(* The checkpoints and the types.                                          *)

MasterCheckpoint == [master : Node \cup {None}, version : Int,
                     lease : {0, Lease}]
MembersCheckpoint == [gid : Node, version : Int, members : SUBSET Node]

MasterTypes ==
    /\ master \in [Node -> Node \cup {None}]
    /\ version \in [Node -> Int]
    /\ remains \in [Node -> 0 .. Lease]
    /\ leaseTime \in [Node -> {0, Lease}]
    /\ saved \in [Node -> MasterCheckpoint]

MemberTypes ==
    /\ gid \in [Node -> Node \cup {None}]
    /\ sysVersion \in [Node -> Int]
    /\ members \in [Node -> SUBSET Node]

LogTypes ==
    /\ log \in Seq(Value)
    /\ offered \subseteq Value
    /\ executed \in [Node -> 0 .. Len(log)]

CallTypes ==
    /\ try \in [Node -> {None} \cup [op : MasterOp, left : 0 .. OwnLease]]
    /\ admin \in [Node -> {None} \cup
                    [change : Change, version : Int, op : {None} \cup SystemOp,
                     retries : Int]]
    /\ commit \in [Node -> {None} \cup
                     [by : {"mgr", "admin"}, value : Value]]
    /\ changed \subseteq Change \X Nat
    /\ requests \in Nat /\ faults \in Nat /\ lag \in Nat

SentTypes ==
    sent \subseteq [to : Node, system : {None} \cup MembersCheckpoint,
                    master : {None} \cup MasterCheckpoint]

StateTypeOK ==
    MasterTypes /\ MemberTypes /\ LogTypes /\ CallTypes /\ SentTypes

(* A value for instance k has been proposed with a version the log had     *)
(* before; if it is for the master, its proposer knew the last one; if it  *)
(* changes the members, it names the gid the group has, if it has one.     *)
Fits(v, k) ==
    /\ v.version < k
    /\ v.sm = "master" => v.lastVersion = MasterLog(log, k).version
    /\ v.sm = "system" /\ v.version = SystemLog(log, k).version
         => SystemLog(log, k).gid \in {None, v.gid}

LogInv ==
    /\ \A k \in 0 .. Len(log) - 1 : Fits(log[k + 1], k)
    /\ \A v \in offered : Fits(v, Len(log))

(* x and v are the master and version of one place in the log, or the      *)
(* master has been forgotten.                                              *)
MasterOf(x, v) ==
    /\ v \in NoVersion .. Len(log) - 1
    /\ MasterLog(log, v + 1).version = v
    /\ x \in {None, MasterLog(log, v + 1).master}

MembersOf(g, v, list) ==
    /\ v \in NoSysVersion .. Len(log) - 1
    /\ SystemLog(log, v + 1) = [gid |-> g, version |-> v, members |-> list]

(* The variables of a node, in memory and saved, are those of one place,   *)
(* and up to what it has executed nothing follows there.                   *)
MasterInv == \A n \in Node :
    /\ MasterOf(master[n], version[n])
    /\ version[n] < executed[n]
         => MasterLog(log, executed[n]).version = version[n]
    /\ saved[n].version = version[n]
    /\ MasterOf(saved[n].master, version[n])

MembersInv == \A n \in Node :
    /\ MembersOf(gid[n], sysVersion[n], members[n])
    /\ sysVersion[n] < executed[n]
         => SystemLog(log, executed[n]).version = sysVersion[n]

SentInv == \A m \in sent :
    /\ m.master # None =>
          /\ MasterOf(m.master.master, m.master.version)
          /\ m.master.version # NoVersion
    /\ m.system # None =>
          /\ MembersOf(m.system.gid, m.system.version, m.system.members)
          /\ m.system.version # NoSysVersion

(* A commit is of a call that waits, with its value.                       *)
CommitInv == \A n \in Node :
    /\ try[n] # None => try[n].op.version < Len(log)
    /\ commit[n] # None /\ commit[n].by = "mgr" =>
          try[n] # None /\ commit[n].value.sm = "master"
    /\ commit[n] # None /\ commit[n].by = "admin" =>
          /\ admin[n] # None /\ admin[n].op # None
          /\ commit[n].value = admin[n].op

(* What a call has read and made is of the members as they are, or of an   *)
(* older version than the node has by now.                                 *)
AdminInv == \A n \in Node : admin[n] # None =>
    /\ gid[n] # None
    /\ admin[n].version <= sysVersion[n]
    /\ admin[n].op # None =>
          /\ admin[n].op.version = admin[n].version
          /\ admin[n].op.gid = gid[n]
          /\ admin[n].version = sysVersion[n] =>
                admin[n].op.members = NewMembers(admin[n].change, members[n])

CallInv == CommitInv /\ AdminInv

ChangedInv == \A c \in changed :
    /\ c[2] < Len(log)
    /\ SystemLog(log, c[2] + 1).members =
           NewMembers(c[1], SystemLog(log, c[2]).members)

IInv ==
    /\ StateTypeOK
    /\ LogInv /\ MasterInv /\ MembersInv /\ SentInv /\ CallInv /\ ChangedInv
-----------------------------------------------------------------------------
(* The history of a log.                                                   *)

(* There is a history of any length: one value more extends it.            *)
LEMMA HistoryExists ==
  ASSUME NEW kind, NEW l, NEW new, NEW first
  PROVE  \A k \in Nat : \E f : History(kind, l, new, first, f, k)
<1> DEFINE T == {k \in Nat : \E f : History(kind, l, new, first, f, k)}
<1>1. 0 \in T
  <2>1. History(kind, l, new, first, [i \in 0 .. 0 |-> first], 0)
    BY DEF History
  <2> QED
    BY <2>1
<1>2. ASSUME NEW k \in T PROVE k + 1 \in T
  <2>1. PICK f : History(kind, l, new, first, f, k)
    OBVIOUS
  <2> DEFINE g == [i \in 0 .. k + 1 |->
                     IF i <= k THEN f[i]
                     ELSE IF l[i].sm = kind /\ l[i].version = f[k].version
                          THEN new[i] ELSE f[k]]
  <2>2. \A i \in 0 .. k + 1 :
           g[i] = IF i = 0 THEN first
                  ELSE IF l[i].sm = kind /\ l[i].version = g[i - 1].version
                       THEN new[i] ELSE g[i - 1]
    <3> SUFFICES ASSUME NEW i \in 0 .. k + 1
                 PROVE g[i] = IF i = 0 THEN first
                              ELSE IF /\ l[i].sm = kind
                                      /\ l[i].version = g[i - 1].version
                                   THEN new[i] ELSE g[i - 1]
      OBVIOUS
    <3>1. CASE i <= k
      <4>1. g[i] = f[i] /\ (i # 0 => g[i - 1] = f[i - 1])
        BY <3>1
      <4>2. f[i] = IF i = 0 THEN first
                   ELSE IF l[i].sm = kind /\ l[i].version = f[i - 1].version
                        THEN new[i] ELSE f[i - 1]
        BY <2>1, <3>1 DEF History
      <4> QED
        BY <4>1, <4>2
    <3>2. CASE i = k + 1
      BY <3>2
    <3> QED
      BY <3>1, <3>2
  <2>3. History(kind, l, new, first, g, k + 1)
    BY <2>2 DEF History
  <2> QED
    BY <2>3
<1>3. T = Nat
  BY <1>1, <1>2, SetInduction
<1> QED
  BY <1>3

(* Histories of logs with a common beginning agree as far.                 *)
LEMMA HistoriesAgree ==
  ASSUME NEW kind, NEW l, NEW new, NEW first, NEW f, NEW j \in Nat,
         NEW m, NEW newm, NEW g, NEW k \in Nat,
         History(kind, l, new, first, f, j),
         History(kind, m, newm, first, g, k), j <= k,
         \A i \in 1 .. j : l[i] = m[i] /\ new[i] = newm[i]
  PROVE  \A i \in 0 .. j : f[i] = g[i]
<1> DEFINE T == {i \in Nat : i <= j => f[i] = g[i]}
<1>1. 0 \in T
  BY DEF History
<1>2. ASSUME NEW i \in T PROVE i + 1 \in T
  <2>1. CASE i + 1 <= j
    <3>1. f[i] = g[i] /\ l[i + 1] = m[i + 1] /\ new[i + 1] = newm[i + 1]
      BY <2>1
    <3>2. f[i + 1] = IF l[i + 1].sm = kind /\ l[i + 1].version = f[i].version
                     THEN new[i + 1] ELSE f[i]
      BY <2>1 DEF History
    <3>3. g[i + 1] = IF m[i + 1].sm = kind /\ m[i + 1].version = g[i].version
                     THEN newm[i + 1] ELSE g[i]
      BY <2>1 DEF History
    <3> QED
      BY <3>1, <3>2, <3>3
  <2> QED
    BY <2>1
<1>3. T = Nat
  BY <1>1, <1>2, SetInduction
<1> QED
  BY <1>3

(* The history that After takes its last element of is one.                *)
LEMMA AfterLast ==
  ASSUME NEW kind, NEW l, NEW new, NEW first, NEW k \in Nat,
         NEW f, History(kind, l, new, first, f, k)
  PROVE  After(kind, l, new, first, k) = f[k]
<1> DEFINE g == CHOOSE h : History(kind, l, new, first, h, k)
<1>1. History(kind, l, new, first, g, k)
  OBVIOUS
<1>2. g[k] = f[k]
  BY <1>1, HistoriesAgree
<1> QED
  BY <1>2 DEF After

(* At the beginning the log says what the machine starts with.             *)
LEMMA AfterNone ==
  ASSUME NEW kind, NEW l, NEW new, NEW first
  PROVE  After(kind, l, new, first, 0) = first
<1>1. PICK f : History(kind, l, new, first, f, 0)
  BY HistoryExists
<1>2. f[0] = first
  BY <1>1 DEF History
<1>3. After(kind, l, new, first, 0) = f[0]
  BY <1>1, AfterLast
<1> QED
  BY <1>2, <1>3

(* Each value takes what the log says one step on.                         *)
LEMMA AfterStep ==
  ASSUME NEW kind, NEW l, NEW new, NEW first, NEW k \in Nat
  PROVE  After(kind, l, new, first, k + 1) =
             IF /\ l[k + 1].sm = kind
                /\ l[k + 1].version = After(kind, l, new, first, k).version
             THEN new[k + 1] ELSE After(kind, l, new, first, k)
<1>1. PICK g : History(kind, l, new, first, g, k)
  BY HistoryExists
<1>2. PICK h : History(kind, l, new, first, h, k + 1)
  BY HistoryExists
<1>3. After(kind, l, new, first, k) = g[k]
  BY <1>1, AfterLast
<1>4. After(kind, l, new, first, k + 1) = h[k + 1]
  BY <1>2, AfterLast
<1>5. g[k] = h[k]
  BY <1>1, <1>2, HistoriesAgree
<1>6. h[k + 1] = IF l[k + 1].sm = kind /\ l[k + 1].version = h[k].version
                 THEN new[k + 1] ELSE h[k]
  BY <1>2 DEF History
<1> QED
  BY <1>3, <1>4, <1>5, <1>6

(* What follows in a log changes nothing of what it says before.           *)
LEMMA AfterPrefix ==
  ASSUME NEW kind, NEW l, NEW new, NEW first, NEW m, NEW newm, NEW k \in Nat,
         \A i \in 1 .. k : l[i] = m[i] /\ new[i] = newm[i]
  PROVE  After(kind, l, new, first, k) = After(kind, m, newm, first, k)
<1>1. PICK f : History(kind, l, new, first, f, k)
  BY HistoryExists
<1>2. PICK g : History(kind, m, newm, first, g, k)
  BY HistoryExists
<1>3. f[k] = g[k]
  BY <1>1, <1>2, HistoriesAgree
<1> QED
  BY <1>1, <1>2, <1>3, AfterLast

(* A version is the instance of the value that made it, and until the next *)
(* one that takes effect nothing changes.                                  *)
LEMMA AfterVersion ==
  ASSUME NEW kind, NEW l, NEW new, NEW first,
         first.version = -1, \A i \in Nat \ {0} : new[i].version = i - 1
  PROVE  \A k \in Nat :
            LET v == After(kind, l, new, first, k).version
            IN  /\ v \in -1 .. k - 1
                /\ \A j \in v + 1 .. k : After(kind, l, new, first, j)
                                           = After(kind, l, new, first, k)
<1> DEFINE A(k) == After(kind, l, new, first, k)
           T == {k \in Nat : /\ A(k).version \in -1 .. k - 1
                             /\ \A j \in A(k).version + 1 .. k : A(j) = A(k)}
<1>0. A(0) = first
  BY AfterNone
<1>1. ASSUME NEW k \in Nat
      PROVE  A(k + 1) = IF /\ l[k + 1].sm = kind
                           /\ l[k + 1].version = A(k).version
                        THEN new[k + 1] ELSE A(k)
  BY AfterStep
<1> HIDE DEF A
<1>2. 0 \in T
  BY <1>0
<1>3. ASSUME NEW k \in T PROVE k + 1 \in T
  <2>1. A(k).version \in -1 .. k - 1
        /\ \A j \in A(k).version + 1 .. k : A(j) = A(k)
    OBVIOUS
  <2>2. CASE A(k + 1) = new[k + 1]
    <3>1. A(k + 1).version = k
      BY <2>2
    <3>2. \A j \in A(k + 1).version + 1 .. k + 1 : j = k + 1
      BY <3>1
    <3> QED
      BY <3>1, <3>2
  <2>3. CASE A(k + 1) = A(k)
    <3>1. \A j \in A(k + 1).version + 1 .. k + 1 : j \in A(k).version + 1 .. k
                                                   \/ j = k + 1
      BY <2>1, <2>3
    <3>2. A(k + 1).version \in -1 .. k
      BY <2>1, <2>3
    <3> QED
      BY <2>1, <2>3, <3>1, <3>2
  <2> QED
    BY <1>1, <2>2, <2>3
<1>4. T = Nat
  BY <1>2, <1>3, SetInduction
<1> QED
  BY <1>4 DEF A
-----------------------------------------------------------------------------
(* The same of each of the two machines.                                   *)

(* MasterStateMachine starts without a master; each value for it executes. *)
LEMMA MasterStart == ASSUME NEW l PROVE MasterLog(l, 0) = MasterFirst
BY AfterNone DEF MasterLog

(* Execute takes a value for the master if its version is the last.        *)
LEMMA MasterStep ==
  ASSUME NEW l, NEW k \in Nat
  PROVE  MasterLog(l, k + 1) =
             IF /\ l[k + 1].sm = "master"
                /\ l[k + 1].version = MasterLog(l, k).version
             THEN [master |-> l[k + 1].node, version |-> k]
             ELSE MasterLog(l, k)
<1>1. MasterNew(l)[k + 1] = [master |-> l[k + 1].node, version |-> k]
  BY DEF MasterNew
<1>2. MasterLog(l, k + 1) =
         IF /\ l[k + 1].sm = "master"
            /\ l[k + 1].version = MasterLog(l, k).version
         THEN MasterNew(l)[k + 1] ELSE MasterLog(l, k)
  BY AfterStep DEF MasterLog
<1> QED
  BY <1>1, <1>2

(* An instance executes once: later values do not change what was so.      *)
LEMMA MasterPrefix ==
  ASSUME NEW l, NEW m, NEW k \in Nat, \A i \in 1 .. k : l[i] = m[i]
  PROVE  MasterLog(l, k) = MasterLog(m, k)
<1>1. \A i \in 1 .. k : MasterNew(l)[i] = MasterNew(m)[i]
  BY DEF MasterNew
<1> QED
  BY <1>1, AfterPrefix DEF MasterLog

(* The version is the instance of the last value taken, nothing since.     *)
LEMMA MasterSince ==
  ASSUME NEW l, NEW k \in Nat
  PROVE  /\ MasterLog(l, k).version \in -1 .. k - 1
         /\ \A j \in MasterLog(l, k).version + 1 .. k :
               MasterLog(l, j) = MasterLog(l, k)
<1>1. \A i \in Nat \ {0} : MasterNew(l)[i].version = i - 1
  BY DEF MasterNew
<1>2. MasterFirst.version = -1
  BY DEF MasterFirst, NoVersion
<1> QED
  BY <1>1, <1>2, AfterVersion DEF MasterLog

(* LearnMaster only ever takes a later instance for the version.           *)
LEMMA MasterGrows ==
  ASSUME NEW l, NEW j \in Nat, NEW k \in Nat, j <= k
  PROVE  MasterLog(l, j).version <= MasterLog(l, k).version
<1>1. CASE j \in MasterLog(l, k).version + 1 .. k
  BY <1>1, MasterSince
<1>2. CASE j <= MasterLog(l, k).version
  BY <1>2, MasterSince
<1> QED
  BY <1>1, <1>2, MasterSince

(* A version stands for one master.                                        *)
LEMMA MasterSame ==
  ASSUME NEW l, NEW j \in Nat, NEW k \in Nat,
         MasterLog(l, j).version = MasterLog(l, k).version
  PROVE  MasterLog(l, j) = MasterLog(l, k)
<1>1. CASE j <= k
  BY <1>1, MasterSince
<1>2. CASE k <= j
  BY <1>2, MasterSince
<1> QED
  BY <1>1, <1>2

(* SystemVSM starts with the founders; each value for it executes.         *)
LEMMA SystemStart == ASSUME NEW l PROVE SystemLog(l, 0) = SystemFirst
BY AfterNone DEF SystemLog

(* SystemVSM::Execute takes a change if its version is the last.           *)
LEMMA SystemStep ==
  ASSUME NEW l, NEW k \in Nat
  PROVE  SystemLog(l, k + 1) =
             IF /\ l[k + 1].sm = "system"
                /\ l[k + 1].version = SystemLog(l, k).version
             THEN [gid |-> l[k + 1].gid, version |-> k,
                   members |-> l[k + 1].members]
             ELSE SystemLog(l, k)
<1>1. SystemNew(l)[k + 1] = [gid |-> l[k + 1].gid, version |-> k,
                   members |-> l[k + 1].members]
  BY DEF SystemNew
<1>2. SystemLog(l, k + 1) =
         IF /\ l[k + 1].sm = "system"
            /\ l[k + 1].version = SystemLog(l, k).version
         THEN SystemNew(l)[k + 1] ELSE SystemLog(l, k)
  BY AfterStep DEF SystemLog
<1> QED
  BY <1>1, <1>2

(* An instance executes once: later values do not change what was so.      *)
LEMMA SystemPrefix ==
  ASSUME NEW l, NEW m, NEW k \in Nat, \A i \in 1 .. k : l[i] = m[i]
  PROVE  SystemLog(l, k) = SystemLog(m, k)
<1>1. \A i \in 1 .. k : SystemNew(l)[i] = SystemNew(m)[i]
  BY DEF SystemNew
<1> QED
  BY <1>1, AfterPrefix DEF SystemLog

(* The version is the instance of the last change, nothing since.          *)
LEMMA SystemSince ==
  ASSUME NEW l, NEW k \in Nat
  PROVE  /\ SystemLog(l, k).version \in -1 .. k - 1
         /\ \A j \in SystemLog(l, k).version + 1 .. k :
               SystemLog(l, j) = SystemLog(l, k)
<1>1. \A i \in Nat \ {0} : SystemNew(l)[i].version = i - 1
  BY DEF SystemNew
<1>2. SystemFirst.version = -1
  BY DEF SystemFirst, NoSysVersion
<1> QED
  BY <1>1, <1>2, AfterVersion DEF SystemLog

(* SystemVSM::Execute only ever takes a later instance for the version.    *)
LEMMA SystemGrows ==
  ASSUME NEW l, NEW j \in Nat, NEW k \in Nat, j <= k
  PROVE  SystemLog(l, j).version <= SystemLog(l, k).version
<1>1. CASE j \in SystemLog(l, k).version + 1 .. k
  BY <1>1, SystemSince
<1>2. CASE j <= SystemLog(l, k).version
  BY <1>2, SystemSince
<1> QED
  BY <1>1, <1>2, SystemSince

(* A version stands for one group id and one set of members.               *)
LEMMA SystemSame ==
  ASSUME NEW l, NEW j \in Nat, NEW k \in Nat,
         SystemLog(l, j).version = SystemLog(l, k).version
  PROVE  SystemLog(l, j) = SystemLog(l, k)
<1>1. CASE j <= k
  BY <1>1, SystemSince
<1>2. CASE k <= j
  BY <1>2, SystemSince
<1> QED
  BY <1>1, <1>2

(* What the model says the log says is that.                               *)
LEMMA MasterAfterIsLog ==
  ASSUME NEW k \in Nat
  PROVE  MasterAfter(k) = MasterLog(log, k)
<1> DEFINE At(f) == f = [i \in 0 .. k |->
                          IF i = 0 THEN [master |-> None, version |-> NoVersion]
                          ELSE IF /\ log[i].sm = "master"
                                  /\ log[i].version = f[i - 1].version
                               THEN [master |-> log[i].node, version |-> i - 1]
                               ELSE f[i - 1]]
           Is(f) == History("master", log, MasterNew(log), MasterFirst, f, k)
<1>1. ASSUME NEW f PROVE At(f) <=> Is(f)
  <2>1. \A i \in 1 .. k :
           MasterNew(log)[i] = [master |-> log[i].node, version |-> i - 1]
    BY DEF MasterNew
  <2>2. MasterFirst = [master |-> None, version |-> NoVersion]
    BY DEF MasterFirst
  <2> DEFINE a(i) == IF i = 0 THEN [master |-> None, version |-> NoVersion]
                     ELSE IF /\ log[i].sm = "master"
                             /\ log[i].version = f[i - 1].version
                          THEN [master |-> log[i].node, version |-> i - 1]
                          ELSE f[i - 1]
             b(i) == IF i = 0 THEN MasterFirst
                     ELSE IF /\ log[i].sm = "master"
                             /\ log[i].version = f[i - 1].version
                          THEN MasterNew(log)[i] ELSE f[i - 1]
  <2>3. \A i \in 0 .. k : a(i) = b(i)
    BY <2>1, <2>2
  <2>4. At(f) <=> f = [i \in 0 .. k |-> a(i)]
    OBVIOUS
  <2>5. Is(f) <=> f = [i \in 0 .. k |-> b(i)]
    BY DEF History
  <2> HIDE DEF a, b, At, Is
  <2>6. [i \in 0 .. k |-> a(i)] = [i \in 0 .. k |-> b(i)]
    BY <2>3
  <2> QED
    BY <2>4, <2>5, <2>6
<1>2. PICK h : Is(h)
  BY HistoryExists
<1> DEFINE g == CHOOSE f : At(f)
<1>3. At(g)
  <2>1. At(h)
    BY <1>1, <1>2
  <2> HIDE DEF At
  <2> QED
    BY <2>1
<1>4. MasterAfter(k) = g[k]
  BY DEF MasterAfter
<1>5. Is(g)
  <2> HIDE DEF At, Is, g
  <2> QED
    BY <1>1, <1>3
<1> HIDE DEF g
<1>6. MasterLog(log, k) = g[k]
  BY <1>5, AfterLast DEF MasterLog
<1> QED
  BY <1>4, <1>6

(* The same of the members.                                                *)
LEMMA MembersAfterIsLog ==
  ASSUME NEW k \in Nat
  PROVE  MembersAfter(k) = SystemLog(log, k)
<1> DEFINE At(f) == f = [i \in 0 .. k |->
                          IF i = 0 THEN [gid |-> None, version |-> NoSysVersion,
                                         members |-> Founders]
                          ELSE IF /\ log[i].sm = "system"
                                  /\ log[i].version = f[i - 1].version
                               THEN [gid |-> log[i].gid, version |-> i - 1,
                                     members |-> log[i].members]
                               ELSE f[i - 1]]
           Is(f) == History("system", log, SystemNew(log), SystemFirst, f, k)
<1>1. ASSUME NEW f PROVE At(f) <=> Is(f)
  <2>1. \A i \in 1 .. k :
           SystemNew(log)[i] = [gid |-> log[i].gid, version |-> i - 1,
                                members |-> log[i].members]
    BY DEF SystemNew
  <2>2. SystemFirst = [gid |-> None, version |-> NoSysVersion,
                       members |-> Founders]
    BY DEF SystemFirst
  <2> DEFINE a(i) == IF i = 0 THEN [gid |-> None, version |-> NoSysVersion,
                                    members |-> Founders]
                     ELSE IF /\ log[i].sm = "system"
                             /\ log[i].version = f[i - 1].version
                          THEN [gid |-> log[i].gid, version |-> i - 1,
                                members |-> log[i].members]
                          ELSE f[i - 1]
             b(i) == IF i = 0 THEN SystemFirst
                     ELSE IF /\ log[i].sm = "system"
                             /\ log[i].version = f[i - 1].version
                          THEN SystemNew(log)[i] ELSE f[i - 1]
  <2>3. \A i \in 0 .. k : a(i) = b(i)
    BY <2>1, <2>2
  <2>4. At(f) <=> f = [i \in 0 .. k |-> a(i)]
    OBVIOUS
  <2>5. Is(f) <=> f = [i \in 0 .. k |-> b(i)]
    BY DEF History
  <2> HIDE DEF a, b, At, Is
  <2>6. [i \in 0 .. k |-> a(i)] = [i \in 0 .. k |-> b(i)]
    BY <2>3
  <2> QED
    BY <2>4, <2>5, <2>6
<1>2. PICK h : Is(h)
  BY HistoryExists
<1> DEFINE g == CHOOSE f : At(f)
<1>3. At(g)
  <2>1. At(h)
    BY <1>1, <1>2
  <2> HIDE DEF At
  <2> QED
    BY <2>1
<1>4. MembersAfter(k) = g[k]
  BY DEF MembersAfter
<1>5. Is(g)
  <2> HIDE DEF At, Is, g
  <2> QED
    BY <1>1, <1>3
<1> HIDE DEF g
<1>6. SystemLog(log, k) = g[k]
  BY <1>5, AfterLast DEF SystemLog
<1> QED
  BY <1>4, <1>6
-----------------------------------------------------------------------------
(* What a step leaves alone.                                               *)

(* No value was decided or offered.                                        *)
LEMMA LogKept ==
  ASSUME LogInv, UNCHANGED <<log, offered>> PROVE LogInv'
BY DEF LogInv, Fits

(* No value was executed, no variables of the master were taken.           *)
LEMMA MasterKept ==
  ASSUME MasterInv, UNCHANGED <<log, executed, master, version, saved>>
  PROVE  MasterInv'
BY DEF MasterInv, MasterOf

(* No value was executed, no members were taken.                           *)
LEMMA MembersKept ==
  ASSUME MembersInv, UNCHANGED <<log, executed, memberVars>> PROVE MembersInv'
BY DEF MembersInv, MembersOf, memberVars

(* Nothing was sent.                                                       *)
LEMMA SentKept ==
  ASSUME SentInv, UNCHANGED <<log, sent>> PROVE SentInv'
BY DEF SentInv, MasterOf, MembersOf

(* No call that changes the members returned 0.                            *)
LEMMA ChangedKept ==
  ASSUME ChangedInv, UNCHANGED <<log, changed>> PROVE ChangedInv'
BY DEF ChangedInv

(* No call was made and none returned.                                     *)
LEMMA CallsKept ==
  ASSUME CallInv, UNCHANGED <<log, try, admin, commit, memberVars>>
  PROVE  CallInv'
BY DEF CallInv, CommitInv, AdminInv, memberVars

-----------------------------------------------------------------------------
(* TryBeMaster: the version that is read is older than the next instance.  *)
LEMMA TryBeMasterKeeps ==
  ASSUME IInv, NEW n \in Candidates, TryBeMaster(n) PROVE IInv'
<1>0. n \in Node
  BY ControlAssumption
<1> USE DEF IInv, StateTypeOK
<1>1. MakeOpValue(n, requests + faults) \in MasterOp
  BY <1>0 DEF MakeOpValue, MasterOp, MasterTypes, CallTypes
<1>2. OwnLease \in 0 .. OwnLease
  BY MasterAssumption DEF OwnLease
<1>3. [op |-> MakeOpValue(n, requests + faults), left |-> OwnLease]
        \in [op : MasterOp, left : 0 .. OwnLease]
  BY <1>1, <1>2
<1>4. CallTypes'
  BY <1>0, <1>3 DEF CallTypes, TryBeMaster
<1>5. CallInv'
  <2>1. version[n] < Len(log)
    BY <1>0 DEF MasterInv, MasterOf, LogTypes, NoVersion
  <2>2. try'[n].op.version < Len(log)
    BY <1>0, <2>1 DEF CallTypes, TryBeMaster, MakeOpValue
  <2>3. \A m \in Node \ {n} : try'[m] = try[m]
    BY <1>0 DEF CallTypes, TryBeMaster
  <2> QED
    BY <1>0, <2>2, <2>3
    DEF CallInv, CommitInv, AdminInv, TryBeMaster, memberVars
<1> QED
  BY <1>4, <1>5, LogKept, MasterKept, MembersKept, SentKept, ChangedKept
  DEF TryBeMaster, masterVars, memberVars, MasterTypes, MemberTypes, LogTypes,
      SentTypes

(* ReadVersion: the version is that of the members the node has.           *)
LEMMA ReadVersionKeeps ==
  ASSUME IInv, NEW c \in Change, ReadVersion(c.at, c) PROVE IInv'
<1>0. c.at \in Node
  BY ControlAssumption
<1> USE DEF IInv, StateTypeOK
<1>1. [change |-> c, version |-> sysVersion[c.at], op |-> None, retries |-> 0]
        \in [change : Change, version : Int, op : {None} \cup SystemOp,
             retries : Int]
  BY <1>0 DEF MemberTypes
<1>2. CallTypes'
  BY <1>0, <1>1 DEF CallTypes, ReadVersion
<1>3. CallInv'
  <2>1. /\ admin'[c.at].version = sysVersion[c.at] /\ admin'[c.at].op = None
        /\ sysVersion[c.at] <= sysVersion[c.at]
    BY <1>0 DEF CallTypes, MemberTypes, ReadVersion
  <2>2. \A m \in Node \ {c.at} : admin'[m] = admin[m]
    BY <1>0 DEF CallTypes, ReadVersion
  <2> QED
    BY <1>0, <2>1, <2>2
    DEF CallInv, CommitInv, AdminInv, ReadVersion, memberVars
<1> QED
  BY <1>2, <1>3, LogKept, MasterKept, MembersKept, SentKept, ChangedKept
  DEF ReadVersion, masterVars, memberVars, MasterTypes, MemberTypes, LogTypes,
      SentTypes
(* A list is of nodes.                                                     *)
LEMMA NewMembersTyped ==
  ASSUME NEW c \in Change, NEW list \in SUBSET Node
  PROVE  NewMembers(c, list) \in {None} \cup SUBSET Node
<1>1. c.type \in {"add", "remove", "change"} /\ c.node \in Node
      /\ (c.type = "change" => c.to \in Node)
  BY ControlAssumption
<1>2. CASE c.type = "add"
  BY <1>1, <1>2 DEF NewMembers, AddMember
<1>3. CASE c.type = "remove"
  BY <1>1, <1>3 DEF NewMembers, RemoveMember
<1>4. CASE c.type = "change"
  BY <1>1, <1>4 DEF NewMembers, ChangeMember
<1> QED
  BY <1>1, <1>2, <1>3, <1>4

(* GetMembership: the members are those of the version that was read, or   *)
(* the version is an old one by now.                                       *)
LEMMA ReadMembersKeeps ==
  ASSUME IInv, NEW n \in Node, ReadMembers(n) PROVE IInv'
<1> USE DEF IInv, StateTypeOK
<1> DEFINE list == NewMembers(admin[n].change, members[n])
           op == MembershipOpValue(n, admin[n].version, list)
<1>1. /\ admin[n] \in [change : Change, version : Int,
                       op : {None} \cup SystemOp, retries : Int]
      /\ admin[n].op = None
  BY DEF CallTypes, ReadMembers
<1>2. list \in {None} \cup SUBSET Node
  BY <1>1, NewMembersTyped DEF MemberTypes
<1>3. list # None => op \in SystemOp
  BY <1>1, <1>2 DEF MembershipOpValue, SystemOp, MemberTypes, CallInv, AdminInv,
                    ReadMembers
<1>4. /\ admin' = [admin EXCEPT ![n] = IF list = None THEN None
                                       ELSE [admin[n] EXCEPT !.op = op]]
      /\ UNCHANGED <<try, commit, changed, requests, faults, lag, log,
                     memberVars>>
  BY DEF ReadMembers, memberVars
<1>5. CallTypes'
  <2>1. list # None => [admin[n] EXCEPT !.op = op]
                         \in [change : Change, version : Int,
                              op : {None} \cup SystemOp, retries : Int]
    BY <1>1, <1>3
  <2> HIDE DEF op, list
  <2> QED
    BY <1>4, <2>1 DEF CallTypes
<1>6. CallInv'
  <2>1. list # None => /\ admin'[n].version = admin[n].version
                       /\ admin'[n].change = admin[n].change
                       /\ admin'[n].op = op
    <3> HIDE DEF op, list
    <3> QED
      BY <1>1, <1>4 DEF CallTypes
  <2>2. op.version = admin[n].version /\ op.gid = gid[n] /\ op.members = list
    BY DEF MembershipOpValue
  <2>3. list = None => admin'[n] = None
    BY <1>4 DEF CallTypes
  <2>4. \A m \in Node \ {n} : admin'[m] = admin[m]
    BY <1>4 DEF CallTypes
  <2>5. ~(commit[n] # None /\ commit[n].by = "admin")
    BY <1>1 DEF CallInv, CommitInv, AdminInv
  <2>6. admin[n] # None
    BY DEF ReadMembers
  <2> HIDE DEF op
  <2> QED
    BY <1>4, <2>1, <2>2, <2>3, <2>4, <2>5, <2>6
    DEF CallInv, CommitInv, AdminInv, memberVars
<1> QED
  BY <1>5, <1>6, LogKept, MasterKept, MembersKept, SentKept, ChangedKept
  DEF ReadMembers, masterVars, memberVars, MasterTypes, MemberTypes, LogTypes,
      SentTypes

(* What a call holds goes when it returns, or stays as it is.              *)
AdminKept(n) ==
    admin'[n] # None => /\ admin[n] # None
                        /\ admin'[n].change = admin[n].change
                        /\ admin'[n].version = admin[n].version
                        /\ admin'[n].op = admin[n].op

(* A call returns: what it waited with is gone.                            *)
LEMMA ReturnKeeps ==
  ASSUME CallTypes, CommitInv, NEW n \in Node, NEW by \in {"mgr", "admin"},
         Return(n, by),
         commit' = commit \/ commit' = [commit EXCEPT ![n] = None],
         commit[n] = None \/ commit'[n] = None, log' = log
  PROVE  /\ try' \in [Node -> {None} \cup [op : MasterOp, left : 0 .. OwnLease]]
         /\ admin' \in [Node -> {None} \cup
                    [change : Change, version : Int, op : {None} \cup SystemOp,
                     retries : Int]]
         /\ commit' \in [Node -> {None} \cup
                           [by : {"mgr", "admin"}, value : Value]]
         /\ CommitInv' /\ \A m \in Node : AdminKept(m)
<1>1. /\ try' \in [Node -> {None} \cup [op : MasterOp, left : 0 .. OwnLease]]
      /\ admin' \in [Node -> {None} \cup
                    [change : Change, version : Int, op : {None} \cup SystemOp,
                     retries : Int]]
      /\ commit' \in [Node -> {None} \cup
                        [by : {"mgr", "admin"}, value : Value]]
  BY DEF Return, CallTypes
<1>2. /\ try'[n] \in {None, try[n]} /\ admin'[n] \in {None, admin[n]}
      /\ commit'[n] = None
  BY DEF Return, CallTypes
<1>3. \A m \in Node \ {n} : /\ try'[m] = try[m] /\ admin'[m] = admin[m]
                            /\ commit'[m] = commit[m]
  BY DEF Return, CallTypes
<1>4. CommitInv'
  BY <1>2, <1>3 DEF CommitInv
<1>5. \A m \in Node : AdminKept(m)
  BY <1>2, <1>3 DEF AdminKept
<1> QED
  BY <1>1, <1>4, <1>5

(* The members of no node but n have changed, and those of n to what was   *)
(* made later, in the same group.                                          *)
LEMMA CallsSurvive ==
  ASSUME CallTypes, AdminInv, NEW n \in Node, MemberTypes, MemberTypes',
         \A m \in Node : AdminKept(m),
         \A m \in Node \ {n} : /\ gid'[m] = gid[m]
                               /\ sysVersion'[m] = sysVersion[m]
                               /\ members'[m] = members[m],
         \/ /\ gid'[n] = gid[n] /\ sysVersion'[n] = sysVersion[n]
            /\ members'[n] = members[n]
         \/ /\ sysVersion[n] < sysVersion'[n]
            /\ gid[n] # None => gid'[n] = gid[n]
  PROVE  AdminInv'
<1> SUFFICES ASSUME NEW m \in Node, admin'[m] # None
             PROVE  /\ gid'[m] # None
                    /\ admin'[m].version <= sysVersion'[m]
                    /\ admin'[m].op # None =>
                          /\ admin'[m].op.version = admin'[m].version
                          /\ admin'[m].op.gid = gid'[m]
                          /\ admin'[m].version = sysVersion'[m] =>
                                admin'[m].op.members =
                                    NewMembers(admin'[m].change, members'[m])
  BY DEF AdminInv
<1>1. /\ admin[m] # None /\ admin'[m].change = admin[m].change
      /\ admin'[m].version = admin[m].version /\ admin'[m].op = admin[m].op
      /\ admin[m].version \in Int
  BY DEF AdminKept, CallTypes
<1>2. /\ gid[m] # None /\ admin[m].version <= sysVersion[m]
      /\ admin[m].op # None =>
            /\ admin[m].op.version = admin[m].version
            /\ admin[m].op.gid = gid[m]
            /\ admin[m].version = sysVersion[m] =>
                  admin[m].op.members =
                      NewMembers(admin[m].change, members[m])
  BY <1>1 DEF AdminInv
<1>3. CASE /\ gid'[m] = gid[m] /\ sysVersion'[m] = sysVersion[m]
           /\ members'[m] = members[m]
  BY <1>1, <1>2, <1>3
<1>4. CASE sysVersion[m] < sysVersion'[m] /\ gid'[m] = gid[m]
  <2>1. sysVersion[m] \in Int /\ sysVersion'[m] \in Int
    BY DEF MemberTypes
  <2>2. admin[m].version <= sysVersion'[m] /\ admin[m].version # sysVersion'[m]
    BY <1>1, <1>2, <1>4, <2>1
  <2> QED
    BY <1>1, <1>2, <1>4, <2>2
<1> QED
  BY <1>2, <1>3, <1>4

(* A node whose last change was executed has the members of its place.     *)
LEMMA MembersHere ==
  ASSUME MembersInv, LogTypes, MemberTypes, NEW n \in Node,
         sysVersion[n] < executed[n]
  PROVE  SystemLog(log, executed[n]) =
           [gid |-> gid[n], version |-> sysVersion[n], members |-> members[n]]
<1>1. SystemLog(log, executed[n]).version = sysVersion[n]
  BY DEF MembersInv
<1>2. /\ SystemLog(log, sysVersion[n] + 1) =
           [gid |-> gid[n], version |-> sysVersion[n], members |-> members[n]]
      /\ sysVersion[n] + 1 \in Nat
  BY DEF MembersInv, MembersOf, LogTypes, NoSysVersion
<1>3. executed[n] \in Nat
  BY DEF LogTypes
<1> QED
  BY <1>1, <1>2, <1>3, SystemSame

(* CheckNewValue: what is offered fits the next instance.                  *)
LEMMA CheckNewValueKeeps ==
  ASSUME IInv, NEW n \in Node, NEW by \in {"mgr", "admin"},
         CheckNewValue(n, by)
  PROVE  IInv'
<1> USE DEF IInv, StateTypeOK
<1>1. by = "mgr" => try[n] # None /\ try[n].op \in MasterOp
  BY DEF CheckNewValue, Waiting, CallTypes
<1>2. by = "admin" => /\ admin[n] # None /\ admin[n].op # None
                      /\ admin[n].op \in SystemOp
  BY DEF CheckNewValue, Waiting, CallTypes
<1>3. CASE ~CheckConfig(n)
  <2>1. Return(n, by) /\ UNCHANGED <<commit, offered>> /\ commit[n] = None
    BY <1>3 DEF CheckNewValue
  <2>2. UNCHANGED <<log, memberVars, changed, requests, faults, lag>>
    BY DEF CheckNewValue
  <2>3. CallTypes' /\ CommitInv' /\ \A m \in Node : AdminKept(m)
    BY <2>1, <2>2, ReturnKeeps DEF CallTypes, CallInv
  <2>4. AdminInv'
    BY <2>2, <2>3, CallsSurvive DEF memberVars, MemberTypes, CallInv
  <2> QED
    BY <2>1, <2>3, <2>4, LogKept, MasterKept, MembersKept, SentKept,
       ChangedKept
    DEF CheckNewValue, masterVars, memberVars, MasterTypes, MemberTypes,
        LogTypes, SentTypes, CallInv
<1>4. CASE CheckConfig(n)
  <2> DEFINE own == IF by = "admin" THEN admin[n].op ELSE try[n].op
             new == executed[n] = 0 \/ gid[n] = None
             val == IF new THEN own ELSE ProposedBy(n, by)
             put == IF new THEN CreateGidOpValue(n) ELSE val
  <2>1. /\ commit' = [commit EXCEPT ![n] = [by |-> by, value |-> val]]
        /\ offered' = IF executed[n] = Len(log) THEN offered \cup {put}
                      ELSE offered
        /\ UNCHANGED <<try, admin, masterVars, memberVars, log, executed,
                       sent, changed, requests, faults, lag>>
    BY <1>4 DEF CheckNewValue, Offer
  <2>2. ~new /\ by = "mgr" => /\ val \in MasterOp
                              /\ val.version = try[n].op.version
                              /\ val.lastVersion = version[n]
    BY <1>1 DEF ProposedBy, BeforePropose, MasterOp, MasterTypes
  <2>3. by = "admin" => val = admin[n].op
    BY DEF ProposedBy
  <2>4. by = "mgr" => val \in MasterOp
    BY <1>1, <2>2
  <2>5. val \in Value
    BY <1>2, <2>3, <2>4 DEF Value
  <2>6. CreateGidOpValue(n) \in SystemOp
    BY DEF CreateGidOpValue, SystemOp, MemberTypes
  <2>7. put \in Value
    BY <2>5, <2>6 DEF Value
  <2>8. CallTypes' /\ LogTypes'
    <3>1. [by |-> by, value |-> val] \in [by : {"mgr", "admin"}, value : Value]
      BY <2>5
    <3> HIDE DEF val, put
    <3> QED
      BY <2>1, <2>7, <3>1 DEF CallTypes, LogTypes
  <2>9. CallInv'
    <3>1. commit'[n].by = by /\ commit'[n].value = val
      BY <2>1 DEF CallTypes
    <3>2. \A m \in Node \ {n} : commit'[m] = commit[m]
      BY <2>1 DEF CallTypes
    <3>3. by = "mgr" => val.sm = "master"
      BY <2>4 DEF MasterOp
    <3> HIDE DEF val
    <3> QED
      BY <1>1, <1>2, <2>1, <2>3, <3>1, <3>2, <3>3
      DEF CallInv, CommitInv, AdminInv, memberVars
  <2>10. executed[n] = Len(log) => Fits(put, Len(log))
    <3> SUFFICES ASSUME executed[n] = Len(log) PROVE Fits(put, Len(log))
      OBVIOUS
    <3>1. Len(log) \in Nat
      BY DEF LogTypes
    <3>2. /\ sysVersion[n] < Len(log) /\ version[n] < Len(log)
          /\ sysVersion[n] \in Int /\ version[n] \in Int
      <4>1. version[n] \in NoVersion .. Len(log) - 1
            /\ sysVersion[n] \in NoSysVersion .. Len(log) - 1
        BY DEF MembersInv, MembersOf, MasterInv, MasterOf
      <4> QED
        BY <3>1, <4>1 DEF NoVersion, NoSysVersion
    <3>3. SystemLog(log, Len(log)).gid = gid[n]
      <4>1. sysVersion[n] < executed[n]
        BY <3>2
      <4>2. SystemLog(log, executed[n]) =
              [gid |-> gid[n], version |-> sysVersion[n],
               members |-> members[n]]
        BY <4>1, MembersHere
      <4> QED
        BY <4>2
    <3>4. MasterLog(log, Len(log)).version = version[n]
      BY <3>2 DEF MasterInv
    <3>5. CASE new
      <4>1. gid[n] = None
        BY <3>1, <3>3, <3>5, SystemStart DEF SystemFirst
      <4>2. put.version = sysVersion[n] /\ put.sm = "system"
        BY <3>5 DEF CreateGidOpValue
      <4> QED
        BY <3>2, <3>3, <4>1, <4>2 DEF Fits
    <3>6. CASE ~new /\ by = "mgr"
      <4>1. /\ put.version < Len(log) /\ put.lastVersion = version[n]
            /\ put.sm = "master"
        BY <1>1, <2>2, <3>6 DEF CallInv, CommitInv, AdminInv, MasterOp
      <4> QED
        BY <3>4, <4>1 DEF Fits
    <3>7. CASE ~new /\ by = "admin"
      <4>1. /\ put.version <= sysVersion[n] /\ put.gid = gid[n]
            /\ put.sm = "system" /\ put.version \in Int
        BY <1>2, <2>3, <3>7 DEF CallInv, CommitInv, AdminInv, SystemOp
      <4> QED
        BY <3>2, <3>3, <4>1 DEF Fits
    <3> QED
      BY <3>5, <3>6, <3>7
  <2>11. LogInv'
    <3> HIDE DEF put
    <3> QED
      BY <2>1, <2>10 DEF LogInv, Fits
  <2> HIDE DEF val, put
  <2> QED
    BY <2>1, <2>8, <2>9, <2>11, MasterKept, MembersKept, SentKept,
       ChangedKept
    DEF masterVars, memberVars, MasterTypes, MemberTypes, SentTypes
<1> QED
  BY <1>3, <1>4

(* Decide: a value more changes nothing of what the log says before it.    *)
LEMMA LogGrows ==
  ASSUME LogTypes, NEW v \in Value, log' = Append(log, v)
  PROVE  /\ log' \in Seq(Value) /\ Len(log) \in Nat /\ Len(log') = Len(log) + 1
         /\ \A i \in 1 .. Len(log) : log'[i] = log[i]
         /\ log'[Len(log) + 1] = v
         /\ \A k \in 0 .. Len(log) : /\ MasterLog(log', k) = MasterLog(log, k)
                                     /\ SystemLog(log', k) = SystemLog(log, k)
<1>1. /\ log' \in Seq(Value) /\ Len(log) \in Nat /\ Len(log') = Len(log) + 1
      /\ \A i \in 1 .. Len(log) : log'[i] = log[i]
      /\ log'[Len(log) + 1] = v
  BY DEF LogTypes
<1>2. ASSUME NEW k \in 0 .. Len(log)
      PROVE  /\ MasterLog(log', k) = MasterLog(log, k)
             /\ SystemLog(log', k) = SystemLog(log, k)
  <2>1. k \in Nat /\ \A i \in 1 .. k : log'[i] = log[i]
    BY <1>1
  <2> QED
    BY <2>1, MasterPrefix, SystemPrefix
<1> QED
  BY <1>1, <1>2

(* Decide: the value fits the instance it was offered for.                 *)
LEMMA DecideKeeps ==
  ASSUME IInv, NEW v \in offered, Decide(v) PROVE IInv'
<1> USE DEF IInv, StateTypeOK
<1>0. v \in Value
  BY DEF LogTypes
<1>1. /\ log' \in Seq(Value) /\ Len(log) \in Nat /\ Len(log') = Len(log) + 1
      /\ \A i \in 1 .. Len(log) : log'[i] = log[i]
      /\ log'[Len(log) + 1] = v
      /\ \A k \in 0 .. Len(log) : /\ MasterLog(log', k) = MasterLog(log, k)
                                  /\ SystemLog(log', k) = SystemLog(log, k)
  BY <1>0, LogGrows DEF Decide
<1>2. /\ UNCHANGED <<masterVars, memberVars, executed, try, admin, commit,
                     sent, changed, requests, faults, lag>>
      /\ offered' = {}
  BY DEF Decide
<1>3. LogTypes'
  BY <1>1, <1>2 DEF LogTypes
<1>4. LogInv'
  <2>1. ASSUME NEW k \in 0 .. Len(log') - 1 PROVE Fits(log[k + 1], k)'
    <3>1. CASE k < Len(log)
      <4>1. k \in 0 .. Len(log) - 1 /\ k + 1 \in 1 .. Len(log)
        BY <1>1, <3>1
      <4>2. Fits(log[k + 1], k) /\ log'[k + 1] = log[k + 1]
        BY <1>1, <4>1 DEF LogInv
      <4> QED
        BY <1>1, <4>1, <4>2 DEF Fits
    <3>2. CASE k = Len(log)
      <4>1. Fits(v, Len(log)) /\ log'[k + 1] = v
        BY <1>1, <3>2 DEF LogInv
      <4> QED
        BY <1>1, <3>2, <4>1 DEF Fits
    <3> QED
      BY <1>1, <3>1, <3>2
  <2> QED
    BY <1>2, <2>1 DEF LogInv
<1>5. \A x, u : MasterOf(x, u) => MasterOf(x, u)'
  BY <1>1 DEF MasterOf, NoVersion
<1>6. \A g, u, list : MembersOf(g, u, list) => MembersOf(g, u, list)'
  BY <1>1 DEF MembersOf, NoSysVersion
<1>7. \A n \in Node : executed[n] \in 0 .. Len(log)
  BY DEF LogTypes
<1>8. MasterInv'
  BY <1>1, <1>2, <1>5, <1>7 DEF MasterInv, masterVars
<1>9. MembersInv'
  BY <1>1, <1>2, <1>6, <1>7 DEF MembersInv, memberVars
<1>10. SentInv'
  BY <1>2, <1>5, <1>6 DEF SentInv
<1>11. CallInv'
  <2>1. \A n \in Node : try[n] # None => try[n].op.version \in Int
    BY DEF CallTypes, MasterOp
  <2> QED
    BY <1>1, <1>2, <2>1 DEF CallInv, CommitInv, AdminInv, memberVars
<1>12. ChangedInv'
  <2> SUFFICES ASSUME NEW c \in changed
               PROVE /\ c[2] < Len(log')
                     /\ SystemLog(log', c[2] + 1).members =
                          NewMembers(c[1], SystemLog(log', c[2]).members)
    BY <1>2 DEF ChangedInv
  <2>1. c[2] \in Nat
    BY DEF CallTypes
  <2> QED
    BY <1>1, <2>1 DEF ChangedInv
<1> QED
  BY <1>2, <1>3, <1>4, <1>8, <1>9, <1>10, <1>11, <1>12
  DEF masterVars, memberVars, MasterTypes, MemberTypes, CallTypes, SentTypes
-----------------------------------------------------------------------------
(* LearnMaster: the node had what the log says before the value, so its    *)
(* version is never the proposer's, and it takes the value if the log does.*)
LEMMA LearnMasterKeeps ==
  ASSUME MasterTypes, LogTypes, LogInv, MasterInv,
         NEW n \in Node, NEW inst \in Nat, inst = executed[n],
         NEW v \in Value, NEW left \in 0 .. Lease,
         executed[n] < Len(log), v = log[executed[n] + 1], v.sm = "master",
         LearnMaster(n, v, executed[n], left),
         executed' = [executed EXCEPT ![n] = @ + 1], log' = log
  PROVE  /\ MasterTypes' /\ MasterInv'
         /\ \/ /\ v.version = MasterLog(log, executed[n]).version
               /\ version' = [version EXCEPT ![n] = executed[n]]
               /\ master' = [master EXCEPT ![n] = v.node]
               /\ remains' = [remains EXCEPT ![n] = NewLease(n, v, left)]
               /\ leaseTime' = [leaseTime EXCEPT ![n] = Lease]
               /\ saved' = [saved EXCEPT ![n] =
                              [master |-> v.node, version |-> executed[n],
                               lease |-> Lease]]
               /\ version[n] < executed[n]
               /\ MasterLog(log, executed[n] + 1).master = v.node
            \/ UNCHANGED masterVars
<1>1. /\ inst \in Nat /\ Len(log) \in Nat /\ inst + 1 <= Len(log)
      /\ version[n] \in Int /\ -1 <= version[n] /\ version[n] < Len(log)
  BY DEF LogTypes, MasterTypes, MasterInv, MasterOf, NoVersion
<1>2. v \in MasterOp
  BY DEF Value, SystemOp
<1>3. v.version < inst /\ v.lastVersion = MasterLog(log, inst).version
  BY <1>1 DEF LogInv, Fits
<1>4. Repaired(n, v, inst) = version[n]
  BY <1>1, <1>3 DEF Repaired, MasterInv
<1>5. MasterLog(log, inst + 1) =
         IF v.version = MasterLog(log, inst).version
         THEN [master |-> v.node, version |-> inst] ELSE MasterLog(log, inst)
  BY <1>1, MasterStep
<1>6. /\ \A m \in Node \ {n} : executed'[m] = executed[m]
      /\ executed'[n] = inst + 1
  BY DEF LogTypes
<1>7. CASE v.version = version[n]
  <2>1. version[n] < inst /\ MasterLog(log, inst).version = version[n]
    BY <1>1, <1>2, <1>3, <1>7 DEF MasterInv, MasterOp
  <2>2. MasterLog(log, inst + 1) = [master |-> v.node, version |-> inst]
    BY <1>5, <1>7, <2>1
  <2>3. /\ version' = [version EXCEPT ![n] = inst]
        /\ master' = [master EXCEPT ![n] = v.node]
        /\ remains' = [remains EXCEPT ![n] = NewLease(n, v, left)]
        /\ leaseTime' = [leaseTime EXCEPT ![n] = Lease]
        /\ saved' = [saved EXCEPT ![n] = [master |-> v.node, version |-> inst,
                                          lease |-> Lease]]
    BY <1>4, <1>7 DEF LearnMaster, UpdateMasterToStore
  <2>4. NewLease(n, v, left) \in 0 .. Lease /\ Lease \in {0, Lease}
    BY MasterAssumption DEF NewLease
  <2>5. [master |-> v.node, version |-> inst, lease |-> Lease]
          \in MasterCheckpoint
    BY <1>1, <1>2 DEF MasterCheckpoint, MasterOp
  <2>6. MasterTypes'
    <3>1. v.node \in Node
      BY <1>2 DEF MasterOp
    <3>2. /\ version' \in [Node -> Int]
          /\ master' \in [Node -> Node \cup {None}]
          /\ remains' \in [Node -> 0 .. Lease]
          /\ leaseTime' \in [Node -> {0, Lease}]
      BY <1>1, <2>3, <2>4, <3>1 DEF MasterTypes
    <3>3. saved' \in [Node -> MasterCheckpoint]
      BY <2>3, <2>5 DEF MasterTypes
    <3> QED
      BY <3>2, <3>3 DEF MasterTypes
  <2>7. MasterInv'
    <3>1. MasterOf(v.node, inst)'
      BY <1>1, <2>2 DEF MasterOf, NoVersion
    <3>2. /\ master'[n] = v.node /\ version'[n] = inst
          /\ saved'[n].master = v.node /\ saved'[n].version = inst
      BY <2>3 DEF MasterTypes
    <3>3. \A m \in Node \ {n} : /\ master'[m] = master[m]
                                /\ version'[m] = version[m]
                                /\ saved'[m] = saved[m]
      BY <2>3 DEF MasterTypes
    <3>4. MasterLog(log', executed'[n]).version = version'[n]
      <4>1. MasterLog(log, inst + 1).version = inst
        BY <2>2
      <4>2. executed'[n] = inst + 1 /\ version'[n] = inst
        BY <1>6, <3>2
      <4> QED
        BY <4>1, <4>2
    <3>5. \A x, u : MasterOf(x, u)' <=> MasterOf(x, u)
      BY DEF MasterOf
    <3> QED
      BY <1>6, <3>1, <3>2, <3>3, <3>4, <3>5 DEF MasterInv
  <2> QED
    BY <1>7, <2>1, <2>2, <2>3, <2>6, <2>7
<1>8. CASE v.version # version[n]
  <2>1. UNCHANGED masterVars
    <3>1. version' = [version EXCEPT ![n] = version[n]]
          /\ UNCHANGED <<master, remains, leaseTime, saved>>
      BY <1>4, <1>8 DEF LearnMaster
    <3> QED
      BY <3>1 DEF masterVars, MasterTypes
  <2>2. version[n] < inst + 1
          => MasterLog(log, inst + 1).version = version[n]
    <3>1. CASE version[n] < inst
      BY <1>5, <1>8, <3>1 DEF MasterInv
    <3>2. CASE version[n] = inst
      BY <3>2 DEF MasterInv, MasterOf
    <3> QED
      BY <1>1, <3>1, <3>2
  <2>3. MasterInv'
    BY <1>6, <2>1, <2>2 DEF MasterInv, MasterOf, masterVars
  <2> QED
    BY <2>1, <2>3 DEF MasterTypes, masterVars
<1> QED
  BY <1>7, <1>8

(* A value that is not for the master leaves the rest of the log as it was.*)
LEMMA NoMasterKeeps ==
  ASSUME MasterTypes, LogTypes, MasterInv,
         NEW n \in Node, NEW inst \in Nat, inst = executed[n],
         executed[n] < Len(log), log[executed[n] + 1].sm # "master",
         UNCHANGED masterVars,
         executed' = [executed EXCEPT ![n] = @ + 1], log' = log
  PROVE  MasterTypes' /\ MasterInv'
<1>1. inst \in Nat /\ version[n] \in Int
  BY DEF LogTypes, MasterTypes
<1>2. MasterLog(log, inst + 1) = MasterLog(log, inst)
  BY <1>1, MasterStep
<1>3. /\ \A m \in Node \ {n} : executed'[m] = executed[m]
      /\ executed'[n] = inst + 1
  BY DEF LogTypes
<1>4. version[n] < inst + 1 => MasterLog(log, inst + 1).version = version[n]
  <2>1. CASE version[n] < inst
    BY <1>2, <2>1 DEF MasterInv
  <2>2. CASE version[n] = inst
    BY <2>2 DEF MasterInv, MasterOf
  <2> QED
    BY <1>1, <2>1, <2>2
<1>5. MasterInv'
  BY <1>3, <1>4 DEF MasterInv, MasterOf, masterVars
<1> QED
  BY <1>5 DEF MasterTypes, masterVars

(* SystemVSM::Execute, the same: the gid of a value that has the version   *)
(* of the group is the group's.                                            *)
LEMMA ExecuteChangeKeeps ==
  ASSUME MemberTypes, LogTypes, LogInv, MembersInv,
         NEW n \in Node, NEW inst \in Nat, inst = executed[n],
         NEW v \in Value,
         executed[n] < Len(log), v = log[executed[n] + 1], v.sm = "system",
         ExecuteChange(n, v, executed[n]),
         executed' = [executed EXCEPT ![n] = @ + 1], log' = log
  PROVE  /\ MemberTypes' /\ MembersInv'
         /\ \/ /\ Accepts(n, v)
               /\ gid' = [gid EXCEPT ![n] = v.gid]
               /\ sysVersion' = [sysVersion EXCEPT ![n] = executed[n]]
               /\ members' = [members EXCEPT ![n] = v.members]
               /\ sysVersion[n] < executed[n]
               /\ SystemLog(log, executed[n]).members = members[n]
               /\ SystemLog(log, executed[n] + 1).members = v.members
            \/ ~Accepts(n, v) /\ UNCHANGED memberVars
<1>1. /\ inst \in Nat /\ Len(log) \in Nat /\ inst + 1 <= Len(log)
      /\ sysVersion[n] \in Int /\ -1 <= sysVersion[n]
      /\ sysVersion[n] < Len(log)
  <2>1. sysVersion[n] \in NoSysVersion .. Len(log) - 1
    BY DEF MembersInv, MembersOf
  <2> QED
    BY <2>1 DEF LogTypes, MemberTypes, NoSysVersion
<1>2. v \in SystemOp
  BY DEF Value, MasterOp
<1>3. /\ v.version < inst
      /\ v.version = SystemLog(log, inst).version
           => SystemLog(log, inst).gid \in {None, v.gid}
  BY <1>1 DEF LogInv, Fits
<1>4. SystemLog(log, inst + 1) =
         IF v.version = SystemLog(log, inst).version
         THEN [gid |-> v.gid, version |-> inst, members |-> v.members]
         ELSE SystemLog(log, inst)
  BY <1>1, SystemStep
<1>5. /\ \A m \in Node \ {n} : executed'[m] = executed[m]
      /\ executed'[n] = inst + 1
  BY DEF LogTypes
<1>6. sysVersion[n] < inst
        => SystemLog(log, inst) = [gid |-> gid[n], version |-> sysVersion[n],
                                   members |-> members[n]]
  BY MembersHere
<1>7. CASE v.version = sysVersion[n]
  <2>1. sysVersion[n] < inst
    BY <1>1, <1>2, <1>3, <1>7 DEF SystemOp
  <2>2. /\ SystemLog(log, inst) = [gid |-> gid[n], version |-> sysVersion[n],
                                   members |-> members[n]]
        /\ SystemLog(log, inst + 1) =
             [gid |-> v.gid, version |-> inst, members |-> v.members]
    BY <1>4, <1>6, <1>7, <2>1
  <2>3. Accepts(n, v)
    BY <1>3, <1>7, <2>2 DEF Accepts
  <2>4. /\ gid' = [gid EXCEPT ![n] = v.gid]
        /\ sysVersion' = [sysVersion EXCEPT ![n] = inst]
        /\ members' = [members EXCEPT ![n] = v.members]
    BY <1>2, <2>3 DEF ExecuteChange, UpdateSystemVariables, SystemOp
  <2>5. MemberTypes'
    BY <1>1, <1>2, <2>4 DEF MemberTypes, SystemOp
  <2>6. MembersInv'
    <3>1. MembersOf(v.gid, inst, v.members)'
      BY <1>1, <2>2 DEF MembersOf, NoSysVersion
    <3>2. /\ gid'[n] = v.gid /\ sysVersion'[n] = inst
          /\ members'[n] = v.members
      BY <2>4 DEF MemberTypes
    <3>3. \A m \in Node \ {n} : /\ gid'[m] = gid[m]
                                /\ sysVersion'[m] = sysVersion[m]
                                /\ members'[m] = members[m]
      BY <2>4 DEF MemberTypes
    <3>4. SystemLog(log', executed'[n]).version = sysVersion'[n]
      <4>1. SystemLog(log, inst + 1).version = inst
        BY <2>2
      <4>2. executed'[n] = inst + 1 /\ sysVersion'[n] = inst
        BY <1>5, <3>2
      <4> QED
        BY <4>1, <4>2
    <3>5. \A g, u, list : MembersOf(g, u, list)' <=> MembersOf(g, u, list)
      BY DEF MembersOf
    <3> QED
      BY <1>5, <3>1, <3>2, <3>3, <3>4, <3>5 DEF MembersInv
  <2> QED
    BY <2>1, <2>2, <2>3, <2>4, <2>5, <2>6
<1>8. CASE v.version # sysVersion[n]
  <2>1. ~Accepts(n, v) /\ UNCHANGED memberVars
    BY <1>8 DEF ExecuteChange, Accepts
  <2>2. sysVersion[n] < inst + 1
          => SystemLog(log, inst + 1).version = sysVersion[n]
    <3>1. CASE sysVersion[n] < inst
      BY <1>4, <1>8, <3>1 DEF MembersInv
    <3>2. CASE sysVersion[n] = inst
      <4>1. SystemLog(log, sysVersion[n] + 1).version = sysVersion[n]
        <5>1. MembersOf(gid[n], sysVersion[n], members[n])
          BY DEF MembersInv
        <5> QED
          BY <5>1 DEF MembersOf
      <4> QED
        BY <3>2, <4>1
    <3> QED
      BY <1>1, <3>1, <3>2
  <2>3. MembersInv'
    BY <1>5, <2>1, <2>2 DEF MembersInv, MembersOf, memberVars
  <2> QED
    BY <2>1, <2>3 DEF MemberTypes, memberVars
<1> QED
  BY <1>7, <1>8

(* SystemVSM does not see a value of another state machine.                *)
LEMMA NoChangeKeeps ==
  ASSUME MemberTypes, LogTypes, MembersInv,
         NEW n \in Node, NEW inst \in Nat, inst = executed[n],
         executed[n] < Len(log), log[executed[n] + 1].sm # "system",
         UNCHANGED memberVars,
         executed' = [executed EXCEPT ![n] = @ + 1], log' = log
  PROVE  MemberTypes' /\ MembersInv'
<1>1. inst \in Nat /\ sysVersion[n] \in Int
  BY DEF LogTypes, MemberTypes
<1>2. SystemLog(log, inst + 1) = SystemLog(log, inst)
  BY <1>1, SystemStep
<1>3. /\ \A m \in Node \ {n} : executed'[m] = executed[m]
      /\ executed'[n] = inst + 1
  BY DEF LogTypes
<1>4. sysVersion[n] < inst + 1
        => SystemLog(log, inst + 1).version = sysVersion[n]
  <2>1. CASE sysVersion[n] < inst
    BY <1>2, <2>1 DEF MembersInv
  <2>2. CASE sysVersion[n] = inst
    <3>1. SystemLog(log, sysVersion[n] + 1).version = sysVersion[n]
      <4>1. MembersOf(gid[n], sysVersion[n], members[n])
        BY DEF MembersInv
      <4> QED
        BY <4>1 DEF MembersOf
    <3> QED
      BY <2>2, <3>1
  <2> QED
    BY <1>1, <2>1, <2>2
<1>5. MembersInv'
  BY <1>3, <1>4 DEF MembersInv, MembersOf, memberVars
<1> QED
  BY <1>5 DEF MemberTypes, memberVars
(* A commit whose value is the decided one: whose it is.                   *)
LEMMA MineIsTheCalls ==
  ASSUME CallTypes, CommitInv, NEW n \in Node, commit[n] # None
  PROVE  /\ commit[n].by \in {"mgr", "admin"}
         /\ commit[n].by = "mgr" => /\ try[n] # None
                                    /\ try[n].left \in 0 .. OwnLease
                                    /\ commit[n].value.sm = "master"
         /\ commit[n].by = "admin" => /\ admin[n] # None
                                      /\ admin[n].op # None
                                      /\ admin[n].op \in SystemOp
                                      /\ commit[n].value = admin[n].op
BY DEF CallTypes, CommitInv

(* EndCommit: a call that returns 0 has changed the members it has read.   *)
LEMMA EndCommitKeeps ==
  ASSUME CallTypes, CommitInv, NEW n \in Node,
         NEW isMine \in BOOLEAN, NEW accepted \in BOOLEAN,
         commit[n] # None, commit' = [commit EXCEPT ![n] = None],
         EndCommit(n, commit[n].by, isMine, accepted),
         LogTypes, UNCHANGED <<log, requests, faults, lag>>
  PROVE  /\ CallTypes' /\ CommitInv' /\ \A m \in Node : AdminKept(m)
         /\ \A c \in changed' \ changed :
               /\ isMine /\ accepted /\ commit[n].by = "admin"
               /\ c = <<admin[n].change, executed[n]>>
<1>0. commit[n].by \in {"mgr", "admin"}
  BY MineIsTheCalls
<1>1. CASE commit[n].by = "mgr" \/ isMine
  <2>1. /\ Return(n, commit[n].by)
        /\ changed' = IF commit[n].by = "admin" /\ accepted
                      THEN changed \cup {<<admin[n].change, executed[n]>>}
                      ELSE changed
    BY <1>1 DEF EndCommit
  <2>2. commit[n].by = "admin" => admin[n].change \in Change
    BY MineIsTheCalls DEF CallTypes
  <2>3. executed[n] \in Nat
    BY DEF LogTypes
  <2>4. changed' \subseteq Change \X Nat
    BY <2>1, <2>2, <2>3 DEF CallTypes
  <2>5. commit'[n] = None
    BY DEF CallTypes
  <2>6. CallTypes' /\ CommitInv' /\ \A m \in Node : AdminKept(m)
    BY <1>0, <2>1, <2>4, <2>5, ReturnKeeps DEF CallTypes
  <2> QED
    BY <1>1, <2>1, <2>6
<1>2. CASE ~(commit[n].by = "mgr" \/ isMine) /\ admin[n].retries < MaxRetries
  <2>1. /\ admin' = [admin EXCEPT ![n].retries = @ + 1]
        /\ UNCHANGED <<try, changed>>
    BY <1>2 DEF EndCommit
  <2>2. admin[n] \in [change : Change, version : Int,
                      op : {None} \cup SystemOp, retries : Int]
    BY <1>0, <1>2, MineIsTheCalls DEF CallTypes
  <2>3. [admin[n] EXCEPT !.retries = @ + 1]
          \in [change : Change, version : Int, op : {None} \cup SystemOp,
               retries : Int]
    BY <2>2
  <2>4. CallTypes'
    BY <2>1, <2>3 DEF CallTypes
  <2>5. \A m \in Node \ {n} : admin'[m] = admin[m] /\ commit'[m] = commit[m]
    BY <2>1 DEF CallTypes
  <2>6. /\ admin'[n].change = admin[n].change
        /\ admin'[n].version = admin[n].version
        /\ admin'[n].op = admin[n].op
        /\ commit'[n] = None /\ admin[n] # None
    BY <1>0, <1>2, <2>1, <2>2, MineIsTheCalls DEF CallTypes
  <2>7. CommitInv' /\ \A m \in Node : AdminKept(m)
    BY <2>1, <2>5, <2>6 DEF CommitInv, AdminKept
  <2> QED
    BY <2>1, <2>4, <2>7
<1>3. CASE /\ ~(commit[n].by = "mgr" \/ isMine)
           /\ ~(admin[n].retries < MaxRetries)
  <2>1. Return(n, commit[n].by) /\ UNCHANGED changed
    BY <1>3 DEF EndCommit
  <2>2. commit'[n] = None
    BY DEF CallTypes
  <2>3. CallTypes' /\ CommitInv' /\ \A m \in Node : AdminKept(m)
    BY <1>0, <2>1, <2>2, ReturnKeeps DEF CallTypes
  <2> QED
    BY <2>1, <2>3
<1> QED
  BY <1>1, <1>2, <1>3
(* The next decided value is executed: it takes the node one step on in    *)
(* what the log says, and ends the commit.                                 *)
LEMMA ExecuteNextKeeps ==
  ASSUME IInv, NEW n \in Node, ExecuteNext(n) PROVE IInv'
<1> USE DEF IInv, StateTypeOK
<1>1. PICK inst \in Nat : inst = executed[n]
  BY DEF LogTypes
<1> DEFINE v == log[inst + 1]
           isMine == commit[n] # None /\ commit[n].value = v
           left == IF isMine THEN try[n].left ELSE 0
           accepted == v.sm = "system" /\ Accepts(n, v)
<1>2. /\ executed[n] < Len(log)
      /\ IF v.sm = "master"
           THEN LearnMaster(n, v, inst, left) /\ UNCHANGED memberVars
           ELSE ExecuteChange(n, v, inst) /\ UNCHANGED masterVars
      /\ IF commit[n] = None THEN UNCHANGED <<try, admin, changed>>
         ELSE EndCommit(n, commit[n].by, isMine, accepted)
      /\ executed' = [executed EXCEPT ![n] = @ + 1]
      /\ commit' = [commit EXCEPT ![n] = None]
      /\ UNCHANGED <<log, offered, sent, requests, faults, lag>>
  BY <1>1 DEF ExecuteNext
<1>3. /\ v \in Value /\ inst + 1 \in 1 .. Len(log)
      /\ v.sm = "master" => v \in MasterOp
      /\ v.sm # "master" => v.sm = "system" /\ v \in SystemOp
  <2>1. Len(log) \in Nat /\ inst + 1 \in 1 .. Len(log)
    BY <1>1, <1>2 DEF LogTypes
  <2>2. v \in Value
    BY <2>1 DEF LogTypes
  <2> HIDE DEF v
  <2> QED
    BY <2>1, <2>2 DEF Value, MasterOp, SystemOp
<1>4. v.sm = "master" => left \in 0 .. Lease
  <2>1. OwnLease \in Nat /\ OwnLease <= Lease
    BY MasterAssumption DEF OwnLease
  <2>2. isMine /\ v.sm = "master" => try[n].left \in 0 .. OwnLease
    BY MineIsTheCalls DEF CallInv, SystemOp
  <2> QED
    BY <2>1, <2>2, MasterAssumption
<1>5. LogTypes'
  BY <1>1, <1>2, <1>3 DEF LogTypes
<1>6. /\ MasterTypes' /\ MasterInv'
      /\ MemberTypes' /\ MembersInv'
      /\ \/ /\ accepted
            /\ gid' = [gid EXCEPT ![n] = v.gid]
            /\ sysVersion' = [sysVersion EXCEPT ![n] = inst]
            /\ members' = [members EXCEPT ![n] = v.members]
            /\ sysVersion[n] < inst
            /\ SystemLog(log, inst).members = members[n]
            /\ SystemLog(log, inst + 1).members = v.members
         \/ ~accepted /\ UNCHANGED memberVars
  <2>0. v \in Value /\ v = log[executed[n] + 1]
    BY <1>1, <1>3
  <2> HIDE DEF v
  <2>1. CASE v.sm = "master"
    <3>1. MasterTypes' /\ MasterInv'
      <4> HIDE DEF left
      <4> QED
        BY <1>1, <1>2, <1>3, <1>4, <2>0, <2>1, LearnMasterKeeps
    <3>2. MemberTypes' /\ MembersInv'
      BY <1>1, <1>2, <2>0, <2>1, NoChangeKeeps
    <3> QED
      BY <1>2, <2>1, <3>1, <3>2
  <2>2. CASE v.sm # "master"
    <3>1. MasterTypes' /\ MasterInv'
      BY <1>1, <1>2, <2>0, <2>2, NoMasterKeeps
    <3>2. /\ MemberTypes' /\ MembersInv'
          /\ \/ /\ Accepts(n, v)
                /\ gid' = [gid EXCEPT ![n] = v.gid]
                /\ sysVersion' = [sysVersion EXCEPT ![n] = inst]
                /\ members' = [members EXCEPT ![n] = v.members]
                /\ sysVersion[n] < inst
                /\ SystemLog(log, inst).members = members[n]
                /\ SystemLog(log, inst + 1).members = v.members
             \/ ~Accepts(n, v) /\ UNCHANGED memberVars
      BY <1>1, <1>2, <1>3, <2>0, <2>2, ExecuteChangeKeeps
    <3> QED
      BY <1>3, <2>2, <3>1, <3>2
  <2> QED
    BY <2>1, <2>2
<1>7. /\ CallTypes' /\ CommitInv' /\ \A m \in Node : AdminKept(m)
      /\ \A c \in changed' \ changed :
            /\ isMine /\ accepted /\ commit[n].by = "admin"
            /\ c = <<admin[n].change, inst>>
  <2>1. CASE commit[n] = None
    <3>1. commit' = commit
      BY <1>2, <2>1 DEF CallTypes
    <3> QED
      BY <1>2, <2>1, <3>1 DEF CallTypes, CallInv, CommitInv, AdminKept
  <2>2. CASE commit[n] # None
    <3>1. isMine \in BOOLEAN /\ accepted \in BOOLEAN
      BY DEF Accepts
    <3>2. EndCommit(n, commit[n].by, isMine, accepted)
      BY <1>2, <2>2
    <3> HIDE DEF isMine, accepted
    <3> QED
      BY <1>1, <1>2, <2>2, <3>1, <3>2, EndCommitKeeps DEF CallInv
  <2> QED
    BY <2>1, <2>2
<1>8. AdminInv'
  <2>1. \A m \in Node \ {n} : /\ gid'[m] = gid[m]
                              /\ sysVersion'[m] = sysVersion[m]
                              /\ members'[m] = members[m]
    BY <1>6 DEF MemberTypes, memberVars
  <2>2. \/ /\ gid'[n] = gid[n] /\ sysVersion'[n] = sysVersion[n]
           /\ members'[n] = members[n]
        \/ /\ sysVersion[n] < sysVersion'[n]
           /\ gid[n] # None => gid'[n] = gid[n]
    <3>1. CASE accepted
      <4>1. gid'[n] = v.gid /\ sysVersion'[n] = inst
        BY <1>6, <3>1 DEF MemberTypes
      <4> QED
        BY <1>6, <3>1, <4>1 DEF Accepts
    <3>2. CASE ~accepted
      BY <1>6, <3>2 DEF memberVars
    <3> QED
      BY <3>1, <3>2
  <2> QED
    BY <1>6, <1>7, <2>1, <2>2, CallsSurvive DEF CallInv
<1>9. ChangedInv'
  <2> SUFFICES ASSUME NEW c \in changed', c \notin changed
               PROVE  /\ c[2] < Len(log)
                      /\ SystemLog(log, c[2] + 1).members =
                           NewMembers(c[1], SystemLog(log, c[2]).members)
    BY <1>2 DEF ChangedInv
  <2>1. /\ isMine /\ accepted /\ commit[n].by = "admin"
        /\ c = <<admin[n].change, inst>>
    BY <1>7
  <2>2. /\ SystemLog(log, inst).members = members[n]
        /\ SystemLog(log, inst + 1).members = v.members
    BY <1>6, <2>1
  <2>3. /\ admin[n] # None /\ admin[n].op # None /\ v = admin[n].op
    BY <2>1, MineIsTheCalls DEF CallInv
  <2>4. v.version = sysVersion[n]
    BY <2>1 DEF Accepts
  <2>5. v.members = NewMembers(admin[n].change, members[n])
    BY <2>3, <2>4 DEF CallInv, AdminInv
  <2> QED
    BY <1>1, <1>2, <2>1, <2>2, <2>5
<1> QED
  BY <1>2, <1>5, <1>6, <1>7, <1>8, <1>9, LogKept, SentKept
  DEF CallInv, SentTypes
-----------------------------------------------------------------------------
(* CommitFails: the call returns, its value may still be decided.          *)
LEMMA CommitFailsKeeps ==
  ASSUME IInv, NEW n \in Faulty, CommitFails(n) PROVE IInv'
<1>0. n \in Node
  BY ControlAssumption
<1> USE DEF IInv, StateTypeOK
<1>1. /\ commit[n].by \in {"mgr", "admin"} /\ Return(n, commit[n].by)
      /\ commit' = [commit EXCEPT ![n] = None] /\ commit'[n] = None
      /\ faults' = faults + 1
      /\ UNCHANGED <<masterVars, memberVars, log, offered, executed, sent,
                     changed, requests, lag>>
  BY <1>0 DEF CommitFails, CallTypes
<1>2. CallTypes' /\ CommitInv' /\ \A m \in Node : AdminKept(m)
  <2>1. /\ try' \in [Node -> {None} \cup
                              [op : MasterOp, left : 0 .. OwnLease]]
        /\ admin' \in [Node -> {None} \cup
                    [change : Change, version : Int, op : {None} \cup SystemOp,
                     retries : Int]]
        /\ commit' \in [Node -> {None} \cup
                          [by : {"mgr", "admin"}, value : Value]]
        /\ CommitInv' /\ \A m \in Node : AdminKept(m)
    BY <1>0, <1>1, ReturnKeeps DEF CallInv
  <2> QED
    BY <1>1, <2>1 DEF CallTypes
<1>3. AdminInv'
  BY <1>0, <1>1, <1>2, CallsSurvive DEF memberVars, MemberTypes, CallInv
<1> QED
  BY <1>1, <1>2, <1>3, LogKept, MasterKept, MembersKept, SentKept, ChangedKept
  DEF masterVars, memberVars, MasterTypes, MemberTypes, LogTypes, SentTypes,
      CallInv

(* Variables of one place in the log, from the store or another node,      *)
(* which are not older than the node's.                                    *)
LEMMA TakeVariablesKeeps ==
  ASSUME MasterTypes, LogTypes, MasterInv, NEW n \in Node,
         NEW cp \in MasterCheckpoint, MasterOf(cp.master, cp.version),
         TakeVariables(n, cp),
         \/ saved' = saved /\ cp.version = version[n]
         \/ saved' = [saved EXCEPT ![n] = cp],
         leaseTime' = leaseTime \/ leaseTime' = [leaseTime EXCEPT ![n] = 0],
         executed' \in [Node -> 0 .. Len(log)], log' = log,
         \A m \in Node \ {n} : executed'[m] = executed[m],
         cp.version < executed'[n]
           => MasterLog(log, executed'[n]).version = cp.version
  PROVE  MasterTypes' /\ MasterInv'
<1>1. /\ cp.master \in Node \cup {None} /\ cp.version \in Int
      /\ cp.lease \in 0 .. Lease
  BY MasterAssumption DEF MasterCheckpoint
<1>2. /\ version' = [version EXCEPT ![n] = cp.version]
      /\ master' = [master EXCEPT ![n] = IF cp.master = n THEN None
                                         ELSE cp.master]
      /\ remains' = [remains EXCEPT ![n] = IF cp.master = n THEN 0
                                           ELSE cp.lease]
  BY DEF TakeVariables
<1>3. MasterTypes'
  <2>1. /\ (IF cp.master = n THEN None ELSE cp.master) \in Node \cup {None}
        /\ (IF cp.master = n THEN 0 ELSE cp.lease) \in 0 .. Lease
        /\ 0 \in {0, Lease}
    BY <1>1, MasterAssumption
  <2>2. master' \in [Node -> Node \cup {None}]
        /\ remains' \in [Node -> 0 .. Lease]
        /\ version' \in [Node -> Int]
    BY <1>1, <1>2, <2>1 DEF MasterTypes
  <2>3. leaseTime' \in [Node -> {0, Lease}]
        /\ saved' \in [Node -> MasterCheckpoint]
    BY DEF MasterTypes
  <2> QED
    BY <2>2, <2>3 DEF MasterTypes
<1>4. /\ master'[n] \in {None, cp.master} /\ version'[n] = cp.version
      /\ saved'[n] \in {cp, saved[n]}
      /\ saved'[n].version = cp.version
  BY <1>2 DEF MasterTypes, MasterInv
<1>5. \A m \in Node \ {n} : /\ master'[m] = master[m]
                            /\ version'[m] = version[m]
                            /\ saved'[m] = saved[m]
  BY <1>2 DEF MasterTypes
<1>6. \A x, u : MasterOf(x, u)' <=> MasterOf(x, u)
  BY DEF MasterOf
<1>7. MasterOf(master'[n], cp.version)
  BY <1>4 DEF MasterOf
<1>8. MasterOf(saved'[n].master, cp.version)
  BY <1>4 DEF MasterInv
<1> QED
  BY <1>3, <1>4, <1>5, <1>6, <1>7, <1>8 DEF MasterInv

(* Restart: Init finds the last variables in both stores, and PlayLog      *)
(* executes what it has already executed, for which they are too new.      *)
LEMMA RestartKeeps ==
  ASSUME IInv, NEW n \in Faulty, NEW from \in 0 .. executed[n],
         Restart(n, from)
  PROVE  IInv'
<1>0. n \in Node
  BY ControlAssumption
<1> USE DEF IInv, StateTypeOK
<1>1. /\ RestartMaster(n) /\ faults' = faults + 1
      /\ executed' = [executed EXCEPT ![n] = from]
      /\ try' = [try EXCEPT ![n] = None]
      /\ admin' = [admin EXCEPT ![n] = None]
      /\ commit' = [commit EXCEPT ![n] = None]
      /\ UNCHANGED <<memberVars, log, offered, sent, changed, requests, lag>>
  BY DEF Restart
<1>2. /\ executed' \in [Node -> 0 .. Len(log)] /\ executed'[n] = from
      /\ \A m \in Node \ {n} : executed'[m] = executed[m]
      /\ executed[n] \in Nat /\ from \in Nat /\ from <= executed[n]
  BY <1>0, <1>1 DEF LogTypes
<1>3. LogTypes' /\ CallTypes'
  BY <1>0, <1>1, <1>2 DEF LogTypes, CallTypes
<1>4. version[n] < from => MasterLog(log, from).version = version[n]
  <2> SUFFICES ASSUME version[n] < from
               PROVE MasterLog(log, from).version = version[n]
    OBVIOUS
  <2>1. version[n] \in Int /\ version[n] < executed[n]
    BY <1>0, <1>2 DEF MasterTypes
  <2>2. MasterLog(log, executed[n]).version = version[n]
    BY <1>0, <2>1 DEF MasterInv
  <2>3. from \in MasterLog(log, executed[n]).version + 1 .. executed[n]
    BY <1>2, <2>1, <2>2
  <2>4. MasterLog(log, from) = MasterLog(log, executed[n])
    BY <1>2, <2>3, MasterSince
  <2> QED
    BY <2>2, <2>4
<1>5. MasterTypes' /\ MasterInv'
  <2>1. /\ saved[n] \in MasterCheckpoint /\ saved[n].version = version[n]
        /\ MasterOf(saved[n].master, saved[n].version)
    BY <1>0 DEF MasterTypes, MasterInv
  <2>2. /\ TakeVariables(n, saved[n]) /\ saved' = saved
        /\ leaseTime' = [leaseTime EXCEPT ![n] = 0]
    BY <1>1 DEF RestartMaster
  <2> QED
    BY <1>0, <1>1, <1>2, <1>4, <2>1, <2>2, TakeVariablesKeeps
<1>6. MembersInv'
  <2>1. sysVersion[n] < from => SystemLog(log, from).version = sysVersion[n]
    <3> SUFFICES ASSUME sysVersion[n] < from
                 PROVE SystemLog(log, from).version = sysVersion[n]
      OBVIOUS
    <3>1. sysVersion[n] \in Int /\ sysVersion[n] < executed[n]
      BY <1>0, <1>2 DEF MemberTypes
    <3>2. SystemLog(log, executed[n]).version = sysVersion[n]
      BY <1>0, <3>1 DEF MembersInv
    <3>3. from \in SystemLog(log, executed[n]).version + 1 .. executed[n]
      BY <1>2, <3>1, <3>2
    <3>4. SystemLog(log, from) = SystemLog(log, executed[n])
      BY <1>2, <3>3, SystemSince
    <3> QED
      BY <3>2, <3>4
  <2> QED
    BY <1>1, <1>2, <2>1 DEF MembersInv, MembersOf, memberVars
<1>7. CallInv'
  <2>1. try'[n] = None /\ admin'[n] = None /\ commit'[n] = None
    BY <1>0, <1>1 DEF CallTypes
  <2>2. \A m \in Node \ {n} : /\ try'[m] = try[m] /\ admin'[m] = admin[m]
                              /\ commit'[m] = commit[m]
    BY <1>1 DEF CallTypes
  <2> QED
    BY <1>1, <2>1, <2>2 DEF CallInv, CommitInv, AdminInv, memberVars
<1> QED
  BY <1>1, <1>3, <1>5, <1>6, <1>7, LogKept, SentKept, ChangedKept
  DEF memberVars, MemberTypes, SentTypes

(* SendNowInstanceID: the variables that go out are of one place each.     *)
LEMMA SendNowInstanceIDKeeps ==
  ASSUME IInv, NEW n \in Senders, NEW to \in Lagging, SendNowInstanceID(n, to)
  PROVE  IInv'
<1>0. n \in Node /\ to \in Node
  BY ControlAssumption
<1> USE DEF IInv, StateTypeOK
<1> DEFINE msg == [to     |-> to,
                   system |-> SystemCheckpoint(n),
                   master |-> GetCheckpointBuffer(n)]
<1>1. /\ sent' = sent \cup {msg}
      /\ UNCHANGED <<masterVars, memberVars, log, offered, executed, try,
                     admin, commit, changed, requests, faults, lag>>
  BY DEF SendNowInstanceID
<1>2. /\ msg.system # None =>
           /\ msg.system = [gid |-> gid[n], version |-> sysVersion[n],
                            members |-> members[n]]
           /\ gid[n] # None /\ sysVersion[n] # NoSysVersion
      /\ msg.master # None =>
           /\ msg.master = [master |-> master[n], version |-> version[n],
                            lease |-> leaseTime[n]]
           /\ version[n] # NoVersion
  BY DEF SystemCheckpoint, GetCheckpointBuffer
<1>3. SentTypes'
  <2>1. msg.system \in {None} \cup MembersCheckpoint
    BY <1>0, <1>2 DEF MemberTypes, MembersCheckpoint
  <2>2. msg.master \in {None} \cup MasterCheckpoint
    BY <1>0, <1>2 DEF MasterTypes, MasterCheckpoint
  <2> QED
    BY <1>0, <1>1, <2>1, <2>2 DEF SentTypes
<1>4. SentInv'
  <2>1. MasterOf(master[n], version[n])
        /\ MembersOf(gid[n], sysVersion[n], members[n])
    BY <1>0 DEF MasterInv, MembersInv
  <2>2. /\ msg.master # None =>
              /\ MasterOf(msg.master.master, msg.master.version)
              /\ msg.master.version # NoVersion
        /\ msg.system # None =>
              /\ MembersOf(msg.system.gid, msg.system.version,
                           msg.system.members)
              /\ msg.system.version # NoSysVersion
    BY <1>2, <2>1
  <2> HIDE DEF msg
  <2> QED
    BY <1>1, <2>2 DEF SentInv, MasterOf, MembersOf
<1> QED
  BY <1>1, <1>3, <1>4, LogKept, MasterKept, MembersKept, CallsKept, ChangedKept
  DEF masterVars, memberVars, MasterTypes, MemberTypes, LogTypes, CallTypes

(* UpdateByCheckpoint: variables newer than the node's are those of a      *)
(* place in the log it has not executed.                                   *)
LEMMA OnSendNowInstanceIDKeeps ==
  ASSUME IInv, NEW m \in sent, OnSendNowInstanceID(m) PROVE IInv'
<1> USE DEF IInv, StateTypeOK
<1> DEFINE n == m.to
<1>0. /\ n \in Node /\ m.system \in {None} \cup MembersCheckpoint
      /\ m.master \in {None} \cup MasterCheckpoint
  BY DEF SentTypes
<1>1. UNCHANGED ctlVars
  BY DEF OnSendNowInstanceID
<1>2. UNCHANGED <<log, offered, executed, try, admin, commit, sent, changed,
                  requests, faults, lag>>
  BY <1>1 DEF ctlVars
<1>3. executed[n] \in Nat
  BY <1>0 DEF LogTypes
<1>4. CASE /\ ChangedByCheckpoint(n, m.system)
           /\ UpdateSystemVariables(n, m.system) /\ UNCHANGED masterVars
  <2> DEFINE cp == m.system
  <2>1. /\ cp # None /\ cp \in MembersCheckpoint
        /\ gid[n] # None => gid[n] = cp.gid
        /\ sysVersion[n] = NoSysVersion \/ cp.version > sysVersion[n]
        /\ gid' = [gid EXCEPT ![n] = cp.gid]
        /\ sysVersion' = [sysVersion EXCEPT ![n] = cp.version]
        /\ members' = [members EXCEPT ![n] = cp.members]
    BY <1>0, <1>4 DEF ChangedByCheckpoint, UpdateSystemVariables
  <2>2. MembersOf(cp.gid, cp.version, cp.members)
        /\ cp.version # NoSysVersion
    BY <2>1 DEF SentInv
  <2> HIDE DEF n, cp
  <2>3. /\ cp.version \in Nat /\ cp.version < Len(log) /\ Len(log) \in Nat
        /\ sysVersion[n] \in Int /\ sysVersion[n] < cp.version
    BY <1>0, <2>1, <2>2 DEF MembersOf, NoSysVersion, MemberTypes, LogTypes
  <2>4. MemberTypes'
    BY <1>0, <2>1, <2>3 DEF MemberTypes, MembersCheckpoint
  <2>5. /\ gid'[n] = cp.gid /\ sysVersion'[n] = cp.version
        /\ members'[n] = cp.members
        /\ \A x \in Node \ {n} : /\ gid'[x] = gid[x]
                                 /\ sysVersion'[x] = sysVersion[x]
                                 /\ members'[x] = members[x]
    BY <1>0, <2>1 DEF MemberTypes
  <2>6. ~(cp.version < executed[n])
    <3> SUFFICES ASSUME cp.version < executed[n] PROVE FALSE
      OBVIOUS
    <3>1. SystemLog(log, executed[n]).version = sysVersion[n]
      BY <1>0, <1>3, <2>3 DEF MembersInv
    <3>2. SystemLog(log, cp.version + 1).version = cp.version
      BY <2>2 DEF MembersOf
    <3>3. cp.version <= sysVersion[n]
      BY <1>3, <2>3, <3>1, <3>2, SystemGrows
    <3> QED
      BY <2>3, <3>3
  <2>7. MembersInv'
    <3>1. \A g, u, list : MembersOf(g, u, list)' <=> MembersOf(g, u, list)
      BY <1>2 DEF MembersOf
    <3> QED
      BY <1>2, <2>2, <2>5, <2>6, <3>1 DEF MembersInv
  <2>8. CommitInv'
    BY <1>2 DEF CallInv, CommitInv
  <2>9. AdminInv'
    <3>1. \A x \in Node : AdminKept(x)
      BY <1>2 DEF AdminKept
    <3> QED
      BY <1>0, <2>1, <2>3, <2>4, <2>5, <3>1, CallsSurvive DEF CallInv
  <2> QED
    BY <1>2, <1>4, <2>4, <2>7, <2>8, <2>9, LogKept, MasterKept, SentKept,
       ChangedKept
    DEF masterVars, MasterTypes, LogTypes, CallTypes, SentTypes, CallInv
<1>5. CASE UpdateByCheckpoint(n, m.master) /\ UNCHANGED memberVars
  <2> DEFINE cp == m.master
  <2>1. MasterTypes' /\ MasterInv'
    <3>1. CASE UNCHANGED masterVars
      BY <1>2, <3>1, MasterKept DEF masterVars, MasterTypes
    <3>2. CASE /\ cp # None
               /\ version[n] = NoVersion \/ cp.version > version[n]
               /\ UpdateMasterToStore(n, cp) /\ TakeVariables(n, cp)
               /\ UNCHANGED leaseTime
      <4>1. /\ cp \in MasterCheckpoint /\ MasterOf(cp.master, cp.version)
            /\ cp.version # NoVersion
        BY <1>0, <3>2 DEF SentInv
      <4>2. saved' = [saved EXCEPT ![n] = cp]
        BY <3>2 DEF UpdateMasterToStore
      <4> HIDE DEF n, cp
      <4>3. /\ cp.version \in Nat /\ cp.version < Len(log)
            /\ version[n] \in Int /\ version[n] < cp.version
        BY <1>0, <3>2, <4>1 DEF MasterOf, NoVersion, MasterTypes, LogTypes
      <4>4. ~(cp.version < executed[n])
        <5> SUFFICES ASSUME cp.version < executed[n] PROVE FALSE
          OBVIOUS
        <5>1. MasterLog(log, executed[n]).version = version[n]
          BY <1>0, <1>3, <4>3 DEF MasterInv
        <5>2. MasterLog(log, cp.version + 1).version = cp.version
          BY <4>1 DEF MasterOf
        <5>3. cp.version <= version[n]
          BY <1>3, <4>3, <5>1, <5>2, MasterGrows
        <5> QED
          BY <4>3, <5>3
      <4> QED
        BY <1>0, <1>2, <3>2, <4>1, <4>2, <4>4, TakeVariablesKeeps DEF LogTypes
    <3> QED
      BY <1>5, <3>1, <3>2 DEF UpdateByCheckpoint
  <2> QED
    BY <1>2, <1>5, <2>1, LogKept, MembersKept, SentKept, CallsKept, ChangedKept
    DEF memberVars, MemberTypes, LogTypes, CallTypes, SentTypes
<1> QED
  BY <1>4, <1>5 DEF OnSendNowInstanceID

(* Tick: the lease of a value under way runs.                              *)
LEMMA TickRuns ==
  ASSUME CallTypes, NEW late, Tick(late), NEW n \in Node
  PROVE  /\ try'[n] \in {None} \cup [op : MasterOp, left : 0 .. OwnLease]
         /\ try'[n] # None <=> try[n] # None
         /\ try[n] # None =>
               /\ try'[n].op = try[n].op
               /\ try'[n].left = IF n \notin late /\ try[n].left > 0
                                 THEN try[n].left - 1 ELSE try[n].left
<1>1. \/ /\ try'[n] = try[n]
         /\ try[n] # None => ~(n \notin late /\ try[n].left > 0)
      \/ /\ try[n] # None /\ n \notin late /\ try[n].left > 0
         /\ try'[n] = [try[n] EXCEPT !.left = @ - 1]
  BY DEF Tick
<1>2. CASE /\ try[n] # None /\ n \notin late /\ try[n].left > 0
           /\ try'[n] = [try[n] EXCEPT !.left = @ - 1]
  <2>1. try[n] \in [op : MasterOp, left : 0 .. OwnLease]
    BY <1>2 DEF CallTypes
  <2>2. OwnLease \in Nat
    BY MasterAssumption DEF OwnLease
  <2>3. /\ try'[n] \in [op : MasterOp, left : 0 .. OwnLease]
        /\ try'[n].op = try[n].op /\ try'[n].left = try[n].left - 1
    BY <1>2, <2>1, <2>2
  <2>4. try'[n] # None
    <3>1. try'[n] \in [op : MasterOp, left : Nat]
      BY <2>2, <2>3
    <3> QED
      BY <3>1, ControlAssumption
  <2> QED
    BY <1>2, <2>3, <2>4
<1> QED
  BY <1>1, <1>2 DEF CallTypes

(* Tick: the leases run.                                                   *)
LEMMA TickKeeps ==
  ASSUME IInv, NEW late, Tick(late) PROVE IInv'
<1> USE DEF IInv, StateTypeOK
<1>1. /\ remains' = [n \in Node |-> IF n \in Node \ late /\ remains[n] > 0
                                    THEN remains[n] - 1 ELSE remains[n]]
      /\ UNCHANGED <<master, version, leaseTime, saved>>
      /\ UNCHANGED <<memberVars, log, offered, executed, admin, commit, sent,
                     changed, requests, faults>>
      /\ lag' \in {lag, lag + 1}
  BY DEF Tick, LeaseTick
<1>2. MasterTypes'
  BY <1>1, MasterAssumption DEF MasterTypes
<1>3. \A n \in Node :
         /\ try'[n] \in {None} \cup [op : MasterOp, left : 0 .. OwnLease]
         /\ try'[n] # None <=> try[n] # None
         /\ try'[n] # None => try'[n].op = try[n].op
  BY TickRuns
<1>4. CallTypes'
  <2>1. try' \in [Node -> {None} \cup [op : MasterOp, left : 0 .. OwnLease]]
    BY <1>3 DEF Tick
  <2> QED
    BY <1>1, <2>1 DEF CallTypes
<1>5. CallInv'
  BY <1>1, <1>3 DEF CallInv, CommitInv, AdminInv, memberVars
<1> QED
  BY <1>1, <1>2, <1>4, <1>5, LogKept, MasterKept, MembersKept, SentKept,
     ChangedKept
  DEF memberVars, MemberTypes, LogTypes, SentTypes
-----------------------------------------------------------------------------
(* All of it.                                                              *)
LEMMA InitInv == Init => IInv
<1> SUFFICES ASSUME Init PROVE IInv
  OBVIOUS
<1> USE DEF Init, MasterInit, MemberInit
<1>1. Len(log) = 0 /\ log \in Seq(Value)
  OBVIOUS
<1>2. NothingSaved \in MasterCheckpoint
  BY MasterAssumption DEF NothingSaved, MasterCheckpoint, NoVersion
<1>3. MasterTypes
  BY <1>2, MasterAssumption DEF MasterTypes, NoVersion
<1>4. MemberTypes
  BY MembershipAssumption DEF MemberTypes, NoSysVersion
<1>5. LogTypes /\ CallTypes /\ SentTypes
  BY <1>1 DEF LogTypes, CallTypes, SentTypes
<1>6. LogInv /\ SentInv /\ ChangedInv /\ CallInv
  BY <1>1 DEF LogInv, SentInv, ChangedInv, CallInv, CommitInv, AdminInv
<1>7. MasterInv
  <2>1. MasterOf(None, NoVersion)
    BY <1>1, MasterStart DEF MasterOf, NoVersion, MasterFirst
  <2>2. MasterLog(log, 0).version = NoVersion
    BY MasterStart DEF MasterFirst
  <2>3. \A n \in Node : /\ master[n] = None /\ version[n] = NoVersion
                       /\ executed[n] = 0 /\ saved[n].master = None
                       /\ saved[n].version = NoVersion
    BY DEF NothingSaved
  <2> QED
    BY <2>1, <2>2, <2>3 DEF MasterInv
<1>8. MembersInv
  <2>1. MembersOf(None, NoSysVersion, Founders)
    BY <1>1, SystemStart DEF MembersOf, NoSysVersion, SystemFirst
  <2>2. SystemLog(log, 0).version = NoSysVersion
    BY SystemStart DEF SystemFirst
  <2>3. \A n \in Node : /\ gid[n] = None /\ sysVersion[n] = NoSysVersion
                       /\ members[n] = Founders /\ executed[n] = 0
    OBVIOUS
  <2> QED
    BY <2>1, <2>2, <2>3 DEF MembersInv
<1> QED
  BY <1>3, <1>4, <1>5, <1>6, <1>7, <1>8 DEF IInv, StateTypeOK

(* Nothing happens.                                                        *)
LEMMA StutterKeeps == ASSUME IInv, UNCHANGED vars PROVE IInv'
<1> USE DEF IInv, StateTypeOK
<1>1. UNCHANGED <<masterVars, memberVars, log, offered, executed, try, admin,
                  commit, sent, changed, requests, faults, lag>>
  BY DEF vars, ctlVars
<1> QED
  BY <1>1, LogKept, MasterKept, MembersKept, SentKept, CallsKept, ChangedKept
  DEF masterVars, memberVars, MasterTypes, MemberTypes, LogTypes, CallTypes,
      SentTypes

(* Every step.                                                             *)
LEMMA NextInv == IInv /\ [Next]_vars => IInv'
<1> SUFFICES ASSUME IInv, [Next]_vars PROVE IInv'
  OBVIOUS
<1>1. ASSUME NEW n \in Candidates, TryBeMaster(n) PROVE IInv'
  BY <1>1, TryBeMasterKeeps
<1>2. ASSUME NEW c \in Change, ReadVersion(c.at, c) PROVE IInv'
  BY <1>2, ReadVersionKeeps
<1>3. ASSUME NEW n \in Node, ReadMembers(n) PROVE IInv'
  BY <1>3, ReadMembersKeeps
<1>4. ASSUME NEW n \in Node, NEW by \in {"mgr", "admin"}, CheckNewValue(n, by)
      PROVE IInv'
  BY <1>4, CheckNewValueKeeps
<1>5. ASSUME NEW n \in Node, ExecuteNext(n) PROVE IInv'
  BY <1>5, ExecuteNextKeeps
<1>6. ASSUME NEW n \in Faulty, CommitFails(n) PROVE IInv'
  BY <1>6, CommitFailsKeeps
<1>7. ASSUME NEW n \in Faulty, NEW from \in 0 .. executed[n], Restart(n, from)
      PROVE IInv'
  BY <1>7, RestartKeeps
<1>8. ASSUME NEW n \in Senders, NEW to \in Lagging, SendNowInstanceID(n, to)
      PROVE IInv'
  BY <1>8, SendNowInstanceIDKeeps
<1>9. ASSUME NEW m \in sent, OnSendNowInstanceID(m) PROVE IInv'
  BY <1>9, OnSendNowInstanceIDKeeps
<1>10. ASSUME NEW v \in offered, Decide(v) PROVE IInv'
  BY <1>10, DecideKeeps
<1>11. ASSUME NEW late, Tick(late) PROVE IInv'
  BY <1>11, TickKeeps
<1>12. CASE UNCHANGED vars
  BY <1>12, StutterKeeps
<1> QED
  BY <1>1, <1>2, <1>3, <1>4, <1>5, <1>6, <1>7, <1>8, <1>9, <1>10, <1>11,
     <1>12 DEF Next

(* Every state of every behaviour.                                         *)
LEMMA Invariance == Spec => []IInv
BY InitInv, NextInv, PTL DEF Spec

-----------------------------------------------------------------------------
(* What a node has is what the log says as far as the node has it.         *)
LEMMA InvIsLog == IInv => VariablesAreLog
<1> SUFFICES ASSUME IInv PROVE VariablesAreLog
  OBVIOUS
<1> USE DEF IInv, StateTypeOK
<1>0. Len(log) \in Nat /\ \A n \in Node : executed[n] \in 0 .. Len(log)
  BY DEF LogTypes
<1>1. MasterIsLog
  <2> SUFFICES ASSUME NEW n \in Node
               PROVE LET now == MasterAfter(Latest(executed[n], version[n]))
                     IN  /\ version[n] = now.version
                         /\ master[n] \in {now.master, None}
    BY DEF MasterIsLog
  <2>1. PICK k : k = Latest(executed[n], version[n])
    OBVIOUS
  <2>2. version[n] \in Int /\ version[n] + 1 \in Nat
    BY <1>0 DEF MasterInv, MasterOf, NoVersion, MasterTypes
  <2>3. MasterOf(master[n], version[n])
    BY DEF MasterInv
  <2>4. k \in Nat /\ MasterLog(log, k) = MasterLog(log, version[n] + 1)
    <3>1. CASE executed[n] > version[n]
      <4>1. k = executed[n] /\ k \in Nat
        BY <1>0, <2>1, <3>1 DEF Latest
      <4>2. MasterLog(log, k).version = MasterLog(log, version[n] + 1).version
        BY <1>0, <2>2, <2>3, <3>1, <4>1 DEF MasterInv, MasterOf
      <4> QED
        BY <2>2, <4>1, <4>2, MasterSame
    <3>2. CASE ~(executed[n] > version[n])
      BY <2>1, <2>2, <3>2 DEF Latest
    <3> QED
      BY <3>1, <3>2
  <2>5. MasterAfter(k) = MasterLog(log, k)
    BY <2>4, MasterAfterIsLog
  <2> QED
    BY <2>1, <2>3, <2>4, <2>5 DEF MasterOf
<1>2. MembersAreLog
  <2> SUFFICES ASSUME NEW n \in Node
               PROVE [gid |-> gid[n], version |-> sysVersion[n],
                      members |-> members[n]]
                        = MembersAfter(Latest(executed[n], sysVersion[n]))
    BY DEF MembersAreLog
  <2>1. PICK k : k = Latest(executed[n], sysVersion[n])
    OBVIOUS
  <2>2. MembersOf(gid[n], sysVersion[n], members[n])
    BY DEF MembersInv
  <2>3. sysVersion[n] \in Int /\ sysVersion[n] + 1 \in Nat
    BY <1>0, <2>2 DEF MembersOf, NoSysVersion, MemberTypes
  <2>4. k \in Nat /\ SystemLog(log, k) =
                       [gid |-> gid[n], version |-> sysVersion[n],
                        members |-> members[n]]
    <3>1. CASE executed[n] > sysVersion[n]
      <4>1. k = executed[n] /\ k \in Nat /\ sysVersion[n] < executed[n]
        BY <1>0, <2>1, <2>3, <3>1 DEF Latest
      <4> QED
        BY <4>1, MembersHere
    <3>2. CASE ~(executed[n] > sysVersion[n])
      BY <2>1, <2>2, <2>3, <3>2 DEF Latest, MembersOf
    <3> QED
      BY <3>1, <3>2
  <2>5. MembersAfter(k) = SystemLog(log, k)
    BY <2>4, MembersAfterIsLog
  <2> QED
    BY <2>1, <2>4, <2>5
<1>3. TypeOK
  <2> SUFFICES ASSUME NEW n \in Node
               PROVE /\ version[n] \in NoVersion .. Len(log) - 1
                     /\ sysVersion[n] \in NoSysVersion .. Len(log) - 1
                     /\ remains[n] \in 0 .. Lease /\ leaseTime[n] \in {0, Lease}
                     /\ saved[n].version = version[n]
                     /\ executed[n] \in 0 .. Len(log)
                     /\ try[n] # None => try[n].left \in 0 .. OwnLease
                     /\ commit[n] # None => commit[n].by \in Waiting(n)
    BY DEF TypeOK, MasterTypes, MemberTypes
  <2>1. /\ version[n] \in NoVersion .. Len(log) - 1
        /\ sysVersion[n] \in NoSysVersion .. Len(log) - 1
        /\ saved[n].version = version[n]
    BY DEF MasterInv, MasterOf, MembersInv, MembersOf
  <2>2. /\ remains[n] \in 0 .. Lease /\ leaseTime[n] \in {0, Lease}
        /\ executed[n] \in 0 .. Len(log)
        /\ try[n] # None => try[n].left \in 0 .. OwnLease
    BY DEF MasterTypes, LogTypes, CallTypes
  <2>3. commit[n] # None => commit[n].by \in Waiting(n)
    BY MineIsTheCalls DEF Waiting, CallInv
  <2> QED
    BY <2>1, <2>2, <2>3
<1> QED
  BY <1>1, <1>2, <1>3 DEF VariablesAreLog

(* MasterStateMachine and SystemVSM: in memory and in the store, executed  *)
(* here or taken from a checkpoint, the variables of a node are those of   *)
(* one place in the log, whatever is decided in what order, whoever        *)
(* crashes and whatever checkpoint arrives how late.                       *)
THEOREM VariablesOfThePlace == Spec => []VariablesAreLog
BY Invariance, InvIsLog, PTL

(* GetMembership and the version check of SystemVSM::Execute: a call that  *)
(* changes the members and returns 0 has changed those the group had just  *)
(* before, although it has read them in two steps and long ago.            *)
THEOREM ChangesAreKept == Spec => []NoLostChange
<1>1. IInv => NoLostChange
  <2> SUFFICES ASSUME IInv, NEW c \in changed
               PROVE MembersAfter(c[2] + 1).members =
                       NewMembers(c[1], MembersAfter(c[2]).members)
    BY DEF NoLostChange
  <2>1. c[2] \in Nat /\ c[2] + 1 \in Nat
    BY DEF IInv, StateTypeOK, CallTypes
  <2>2. /\ MembersAfter(c[2]) = SystemLog(log, c[2])
        /\ MembersAfter(c[2] + 1) = SystemLog(log, c[2] + 1)
    BY <2>1, MembersAfterIsLog
  <2> QED
    BY <2>2 DEF IInv, ChangedInv
<1> QED
  BY <1>1, Invariance, PTL
-----------------------------------------------------------------------------
(* Who is the master, and for how long.                                    *)
(*                                                                         *)
(* The sid of a value tells the tries of a node from each other: what was  *)
(* proposed before this one and is not executed here yet has a smaller     *)
(* one, so that the commit that ends is the one that was begun.            *)

Trying(n) == commit[n] # None /\ commit[n].by = "mgr"

Older(n, v) ==
    v.sid < IF try[n] # None THEN try[n].op.sid ELSE requests + faults

Before(n, v) == v.sm = "master" /\ v.node = n => Older(n, v)

Issued(v) == v.sm = "master" => v.sid <= requests + faults

TryTrue(n) ==
    /\ try[n] # None => /\ try[n].op.node = n
                        /\ try[n].op.sid <= requests + faults
    /\ Trying(n) => /\ commit[n].value.node = n
                    /\ commit[n].value.sid = try[n].op.sid
    /\ \A v \in offered : \/ Before(n, v)
                          \/ Trying(n) /\ executed[n] = Len(log)
    /\ \A k \in 1 .. Len(log) :
          k > executed[n] => \/ Before(n, log[k])
                             \/ Trying(n) /\ k = executed[n] + 1

TryInv == \A n \in Node : TryTrue(n)

IssuedInv ==
    /\ \A v \in offered : Issued(v)
    /\ \A k \in 1 .. Len(log) : Issued(log[k])

(* x waits no more for the value of v: it has executed it, and later ones, *)
(* or is not the master of it any more.                                    *)
Lost(x, v) == x \in Node => \/ version[x] > v
                            \/ version[x] = v /\ master[x] # x

(* The lease of x is given away with a length of 0, that of v or a later.  *)
DisownedAt(x, v) ==
    \E m \in sent : /\ m.master # None /\ m.master.lease = 0
                     /\ m.master.master = x /\ m.master.version >= v

(* What a node has saved and what is sent has the master of its version,   *)
(* and his whole lease if no other has been sent; or no master, and then   *)
(* the one of its version counts no lease of it.                           *)
Whole(x, v, time) ==
    LET owner == MasterLog(log, v + 1).master
    IN  \/ x = owner /\ (time = Lease \/ DisownedAt(x, v))
        \/ x = None /\ Lost(owner, v)

MemoryInv ==
    /\ lag <= Margin
    /\ \A m \in sent : m.master # None =>
          Whole(m.master.master, m.master.version, m.master.lease)
    /\ \A n \in Node : version[n] # NoVersion =>
          /\ Whole(saved[n].master, version[n], saved[n].lease)
          /\ master[n] = None =>
                Lost(MasterLog(log, version[n] + 1).master, version[n])

(* x counts a lease, of which r is left, since the value of instance v: or *)
(* will when it executes it, because it is the one it has proposed.        *)
Coming(x) ==
    /\ Trying(x) /\ executed[x] < Len(log)
    /\ commit[x].value = log[executed[x] + 1]
    /\ commit[x].value.version = MasterLog(log, executed[x]).version
    /\ version[x] < executed[x]

Claim(x, v, r) ==
    \/ master[x] = x /\ version[x] = v /\ remains[x] = r /\ r > 0
    \/ Coming(x) /\ executed[x] = v /\ try[x].left = r /\ r > 0

(* Then no other becomes the master: no value that was or may be proposed  *)
(* by another is taken, who has executed v waits longer than x counts, and *)
(* who has not proposes what will not be taken.                            *)
Alone(x, v, r) ==
    /\ v \in 0 .. Len(log) - 1 /\ r \in 1 .. OwnLease
    /\ \A k \in v + 1 .. Len(log) : MasterLog(log, k).master = x
    /\ \A w \in offered : w.sm = "master" /\ w.node # x => w.version < v
    /\ \A m \in Node \ {x} :
          /\ try[m] # None => try[m].op.version < v
          /\ version[m] >= v => /\ master[m] = x
                                /\ r + Margin <= remains[m] + lag

LeaseInv == \A x \in Node, v \in Int, r \in Int :
    Claim(x, v, r) => Alone(x, v, r) \/ DisownedAt(x, v)

MInv == IInv /\ TryInv /\ IssuedInv /\ MemoryInv /\ LeaseInv

-----------------------------------------------------------------------------
(* The tries.                                                              *)

(* What CheckNewValue commits and offers is of the call.                   *)
LEMMA CheckNewValueOffers ==
  ASSUME StateTypeOK, NEW n \in Node, NEW by \in {"mgr", "admin"},
         CheckNewValue(n, by)
  PROVE  /\ commit[n] = None
         /\ by = "mgr" => try[n] # None /\ try[n].op \in MasterOp
         /\ \/ Return(n, by) /\ UNCHANGED <<commit, offered>>
            \/ /\ UNCHANGED <<try, admin>>
               /\ \E val \in Value, put \in Value :
                     /\ commit' = [commit EXCEPT ![n] =
                                     [by |-> by, value |-> val]]
                     /\ offered' = IF executed[n] = Len(log)
                                   THEN offered \cup {put} ELSE offered
                     /\ by = "mgr" => /\ val.node = try[n].op.node
                                      /\ val.sid = try[n].op.sid
                     /\ put.sm = "master" =>
                           /\ by = "mgr"
                           /\ put.node = try[n].op.node
                           /\ put.sid = try[n].op.sid
                           /\ put.version = try[n].op.version
<1> USE DEF StateTypeOK
<1>1. by = "mgr" => try[n] # None /\ try[n].op \in MasterOp
  BY DEF CheckNewValue, Waiting, CallTypes
<1>2. by = "admin" => admin[n].op \in SystemOp
  BY DEF CheckNewValue, Waiting, CallTypes
<1>3. commit[n] = None
  BY DEF CheckNewValue
<1>4. CASE ~CheckConfig(n)
  BY <1>1, <1>3, <1>4 DEF CheckNewValue
<1>5. CASE CheckConfig(n)
  <2> DEFINE own == IF by = "admin" THEN admin[n].op ELSE try[n].op
             new == executed[n] = 0 \/ gid[n] = None
             val == IF new THEN own ELSE ProposedBy(n, by)
             put == IF new THEN CreateGidOpValue(n) ELSE val
  <2>1. /\ commit' = [commit EXCEPT ![n] = [by |-> by, value |-> val]]
        /\ offered' = IF executed[n] = Len(log) THEN offered \cup {put}
                      ELSE offered
        /\ UNCHANGED <<try, admin>>
    BY <1>5 DEF CheckNewValue, Offer
  <2>2. by = "mgr" => /\ val \in MasterOp
                      /\ val.node = try[n].op.node
                      /\ val.sid = try[n].op.sid
                      /\ val.version = try[n].op.version
    BY <1>1 DEF ProposedBy, BeforePropose, MasterOp, MasterTypes
  <2>3. by = "admin" => val \in SystemOp
    BY <1>2 DEF ProposedBy
  <2>4. CreateGidOpValue(n) \in SystemOp
    BY DEF CreateGidOpValue, SystemOp, MemberTypes
  <2>5. val \in Value /\ put \in Value
    BY <2>2, <2>3, <2>4 DEF Value
  <2>6. put.sm = "master" => by = "mgr" /\ put = val
    BY <2>2, <2>3, <2>4 DEF SystemOp
  <2> HIDE DEF val, put
  <2> QED
    BY <1>1, <1>3, <2>1, <2>2, <2>5, <2>6
<1> QED
  BY <1>4, <1>5

(* Numbers that the proofs below compare.                                  *)
LEMMA SidsTyped ==
  ASSUME StateTypeOK
  PROVE  /\ requests + faults \in Nat
         /\ \A v \in Value : v.sm = "master" => v.sid \in Int
         /\ \A v \in offered : v \in Value
         /\ \A k \in 1 .. Len(log) : log[k] \in Value
         /\ \A n \in Node : try[n] # None => try[n].op.sid \in Int
<1>1. \A v \in Value : v.sm = "master" => v.sid \in Int
  BY DEF Value, MasterOp, SystemOp
<1>2. /\ \A v \in offered : v \in Value
      /\ \A k \in 1 .. Len(log) : log[k] \in Value
  BY DEF StateTypeOK, LogTypes
<1>3. \A n \in Node : try[n] # None => try[n].op.sid \in Int
  BY DEF StateTypeOK, CallTypes, MasterOp
<1> QED
  BY <1>1, <1>2, <1>3 DEF StateTypeOK, CallTypes

(* A value that was issued stays one that was.                             *)
LEMMA IssuedKept ==
  ASSUME StateTypeOK, IssuedInv, UNCHANGED log,
         NEW sum \in Nat, sum = requests' + faults', requests + faults <= sum,
         \A v \in offered' \ offered : Issued(v)'
  PROVE  IssuedInv'
<1>1. \A v \in Value : Issued(v) => Issued(v)'
  BY SidsTyped DEF Issued
<1>2. \A k \in 1 .. Len(log) : Issued(log[k])'
  BY <1>1, SidsTyped DEF IssuedInv, Issued
<1>3. \A v \in offered : Issued(v)'
  BY <1>1, SidsTyped DEF IssuedInv
<1> QED
  BY <1>2, <1>3 DEF IssuedInv

(* A step that leaves the try of n alone, and its commit if it is of it.   *)
LEMMA TryKept ==
  ASSUME StateTypeOK, NEW n \in Node, TryTrue(n), log' = log,
         \/ executed'[n] = executed[n] /\ commit'[n] = commit[n]
         \/ /\ ~Trying(n) /\ ~Trying(n)'
            /\ executed'[n] \in Nat /\ executed[n] <= executed'[n],
         NEW sum \in Nat, sum = requests' + faults', requests + faults <= sum,
         try'[n] # None <=> try[n] # None,
         try[n] # None => try'[n].op = try[n].op,
         \A v \in offered' \ offered : ~(v.sm = "master" /\ v.node = n)
  PROVE  TryTrue(n)'
<1>1. \A v \in Value : Before(n, v) => Before(n, v)'
  BY SidsTyped DEF Before, Older
<1>2. /\ Trying(n)' <=> Trying(n)
      /\ Trying(n) => executed'[n] = executed[n] /\ commit'[n] = commit[n]
      /\ executed[n] \in Nat /\ executed'[n] \in Nat
      /\ executed[n] <= executed'[n]
  BY DEF Trying, StateTypeOK, LogTypes
<1>3. try'[n] # None => /\ try'[n].op.node = n
                        /\ try'[n].op.sid <= requests' + faults'
  BY SidsTyped DEF TryTrue
<1>4. Trying(n)' => /\ commit'[n].value.node = n
                    /\ commit'[n].value.sid = try'[n].op.sid
  <2>1. CASE try[n] # None
    BY <1>2, <2>1 DEF TryTrue
  <2>2. CASE try[n] = None
    BY <1>2, <2>2 DEF TryTrue
  <2> QED
    BY <2>1, <2>2
<1>5. \A v \in offered' : \/ Before(n, v)'
                          \/ Trying(n)' /\ executed'[n] = Len(log)
  <2>1. \A v \in offered : \/ Before(n, v)'
                           \/ Trying(n)' /\ executed'[n] = Len(log)
    BY <1>1, <1>2, SidsTyped DEF TryTrue
  <2>2. \A v \in offered' \ offered : Before(n, v)'
    BY DEF Before
  <2> QED
    BY <2>1, <2>2
<1>6. \A k \in 1 .. Len(log) :
         k > executed'[n] => \/ Before(n, log[k])'
                             \/ Trying(n)' /\ k = executed'[n] + 1
  <2>1. \A k \in 1 .. Len(log) : Before(n, log[k]) => Before(n, log[k])'
    BY <1>1, SidsTyped DEF Before, Older
  <2>2. \A k \in 1 .. Len(log) : k > executed'[n] => k > executed[n]
    BY <1>2
  <2> QED
    BY <1>2, <2>1, <2>2 DEF TryTrue
<1> QED
  BY <1>3, <1>4, <1>5, <1>6 DEF TryTrue

(* A step that ends the try of n, or its commit fails: what is left of the *)
(* values of n is older than the next.                                     *)
LEMMA TryEnds ==
  ASSUME StateTypeOK, NEW n \in Node, IssuedInv,
         log' = log, offered' = offered,
         NEW sum \in Nat, sum = requests' + faults', requests + faults <= sum,
         try'[n] = None, ~Trying(n)',
         executed'[n] \in Nat,
         \/ requests + faults < sum
         \/ /\ \A v \in offered : Before(n, v)
            /\ \A k \in 1 .. Len(log) : k > executed'[n] => Before(n, log[k])
            /\ try[n] # None => try[n].op.sid <= requests + faults
  PROVE  TryTrue(n)'
<1>1. \A v \in Value : \/ Issued(v) /\ requests + faults < sum
                       \/ /\ Before(n, v)
                          /\ try[n] # None
                               => try[n].op.sid <= requests + faults
                       => Before(n, v)'
  BY SidsTyped DEF Before, Older, Issued
<1>2. \A v \in offered : Before(n, v)'
  BY <1>1, SidsTyped DEF IssuedInv
<1>3. \A k \in 1 .. Len(log) : k > executed'[n] => Before(n, log[k])'
  <2> SUFFICES ASSUME NEW k \in 1 .. Len(log), k > executed'[n]
               PROVE Before(n, log[k])'
    OBVIOUS
  <2>1. PICK v \in Value : v = log[k]
    BY SidsTyped
  <2>2. Before(n, v)'
    BY <1>1, <2>1 DEF IssuedInv
  <2> QED
    BY <2>1, <2>2 DEF Before, Older
<1> QED
  BY <1>2, <1>3 DEF TryTrue

(* A step that neither begins nor ends anything.                           *)
LEMMA TriesKept ==
  ASSUME StateTypeOK, TryInv, IssuedInv,
         UNCHANGED <<log, offered, executed, commit, faults>>,
         requests' \in Nat, requests <= requests',
         \A n \in Node : /\ try'[n] # None <=> try[n] # None
                         /\ try[n] # None => try'[n].op = try[n].op
  PROVE  TryInv' /\ IssuedInv'
<1>1. PICK sum \in Nat : sum = requests' + faults' /\ requests + faults <= sum
  BY DEF StateTypeOK, CallTypes
<1>2. IssuedInv'
  BY <1>1, IssuedKept
<1>3. ASSUME NEW n \in Node PROVE TryTrue(n)'
  BY <1>1, TryKept DEF TryInv
<1> QED
  BY <1>2, <1>3 DEF TryInv

(* TryBeMaster: the sid of a try is above those before it.                 *)
LEMMA TryBeMasterTries ==
  ASSUME IInv, TryInv, IssuedInv, NEW n \in Candidates, TryBeMaster(n)
  PROVE  TryInv' /\ IssuedInv'
<1>0. n \in Node
  BY ControlAssumption
<1> USE DEF IInv
<1>1. PICK sum \in Nat : sum = requests' + faults' /\ requests + faults <= sum
  BY DEF StateTypeOK, CallTypes, TryBeMaster
<1>2. /\ UNCHANGED <<log, offered, executed, commit>>
      /\ try[n] = None
      /\ try' = [try EXCEPT ![n] = [op   |-> MakeOpValue(n, requests + faults),
                                    left |-> OwnLease]]
  BY DEF TryBeMaster
<1>3. /\ try'[n].op.node = n /\ try'[n].op.sid = requests + faults
      /\ \A m \in Node \ {n} : try'[m] = try[m]
  BY <1>0, <1>2 DEF StateTypeOK, CallTypes, MakeOpValue
<1>4. IssuedInv'
  BY <1>1, <1>2, IssuedKept
<1>5. \A m \in Node \ {n} : TryTrue(m)'
  BY <1>1, <1>2, <1>3, TryKept DEF TryInv
<1>6. TryTrue(n)'
  <2>1. ~Trying(n) /\ ~Trying(n)'
    BY <1>0, <1>2 DEF Trying, CallInv, CommitInv
  <2>0. try'[n] # None
    <3>1. MakeOpValue(n, requests + faults) \in MasterOp
      BY <1>0
      DEF MakeOpValue, MasterOp, StateTypeOK, MasterTypes, CallTypes
    <3>2. OwnLease \in Nat
      BY MasterAssumption DEF OwnLease
    <3>3. try'[n] \in [op : MasterOp, left : Nat]
      BY <1>0, <1>2, <3>1, <3>2 DEF StateTypeOK, CallTypes
    <3> QED
      BY <3>3, ControlAssumption
  <2>2. \A v : Before(n, v) => Before(n, v)'
    BY <1>2, <1>3, <2>0 DEF Before, Older
  <2>3. \A k \in 1 .. Len(log) : Before(n, log[k]) => Before(n, log[k])'
    BY <1>2, <1>3, <2>0 DEF Before, Older
  <2> QED
    BY <1>0, <1>1, <1>2, <1>3, <2>1, <2>2, <2>3 DEF TryTrue, TryInv
<1> QED
  BY <1>0, <1>4, <1>5, <1>6 DEF TryInv

(* CheckNewValue: the commit that begins is of the try that waits.         *)
LEMMA CheckNewValueTries ==
  ASSUME IInv, TryInv, IssuedInv, NEW n \in Node, NEW by \in {"mgr", "admin"},
         CheckNewValue(n, by)
  PROVE  TryInv' /\ IssuedInv'
<1> USE DEF IInv
<1>1. PICK sum \in Nat : sum = requests' + faults' /\ requests + faults <= sum
  BY DEF StateTypeOK, CallTypes, CheckNewValue
<1>2. UNCHANGED <<log, executed, requests, faults>>
  BY DEF CheckNewValue
<1>3. /\ commit[n] = None
      /\ by = "mgr" => try[n] # None /\ try[n].op \in MasterOp
  BY CheckNewValueOffers
<1>4. ~Trying(n)
  BY <1>3 DEF Trying
<1>5. CASE Return(n, by) /\ UNCHANGED <<commit, offered>>
  <2>1. IssuedInv'
    BY <1>1, <1>2, <1>5, IssuedKept
  <2>2. \A m \in Node \ {n} : TryTrue(m)'
    <3>1. \A m \in Node \ {n} : try'[m] = try[m]
      BY <1>5 DEF Return, StateTypeOK, CallTypes
    <3> QED
      BY <1>1, <1>2, <1>5, <3>1, TryKept DEF TryInv
  <2>3. CASE by = "mgr"
    <3>1. try'[n] = None
      BY <1>5, <2>3 DEF Return, StateTypeOK, CallTypes
    <3>2. ~Trying(n)' /\ executed'[n] \in Nat
      BY <1>2, <1>4, <1>5 DEF Trying, StateTypeOK, LogTypes
    <3>3. /\ \A v \in offered : Before(n, v)
          /\ \A k \in 1 .. Len(log) : k > executed'[n] => Before(n, log[k])
          /\ try[n] # None => try[n].op.sid <= requests + faults
      BY <1>2, <1>4 DEF TryInv, TryTrue
    <3>4. TryTrue(n)'
      BY <1>1, <1>2, <1>5, <3>1, <3>2, <3>3, TryEnds
    <3> QED
      BY <2>1, <2>2, <3>4 DEF TryInv
  <2>4. CASE by = "admin"
    <3>1. try' = try
      BY <1>5, <2>4 DEF Return
    <3>2. TryTrue(n)'
      BY <1>1, <1>2, <1>5, <3>1, TryKept DEF TryInv
    <3> QED
      BY <2>1, <2>2, <3>2 DEF TryInv
  <2> QED
    BY <2>3, <2>4
<1>6. ASSUME NEW val \in Value, NEW put \in Value,
             UNCHANGED <<try, admin>>,
             commit' = [commit EXCEPT ![n] = [by |-> by, value |-> val]],
             offered' = IF executed[n] = Len(log)
                        THEN offered \cup {put} ELSE offered,
             by = "mgr" => /\ val.node = try[n].op.node
                           /\ val.sid = try[n].op.sid,
             put.sm = "master" => /\ by = "mgr"
                                  /\ put.node = try[n].op.node
                                  /\ put.sid = try[n].op.sid
                                  /\ put.version = try[n].op.version
      PROVE  TryInv' /\ IssuedInv'
  <2>1. by = "mgr" => /\ try[n].op.node = n
                      /\ try[n].op.sid <= requests + faults
    BY <1>3 DEF TryInv, TryTrue
  <2>2. Issued(put)'
    BY <1>2, <1>6, <2>1 DEF Issued
  <2>3. IssuedInv'
    BY <1>1, <1>2, <1>6, <2>2, IssuedKept
  <2>4. \A m \in Node \ {n} : TryTrue(m)'
    <3>1. \A m \in Node \ {n} : /\ commit'[m] = commit[m]
                                /\ ~(put.sm = "master" /\ put.node = m)
      BY <1>6, <2>1 DEF StateTypeOK, CallTypes
    <3> QED
      BY <1>1, <1>2, <1>6, <3>1, TryKept DEF TryInv
  <2>5. commit'[n].by = by /\ commit'[n].value = val
    BY <1>6 DEF StateTypeOK, CallTypes
  <2>6. CASE by = "mgr"
    <3>1. /\ \A v \in offered : Before(n, v)
          /\ \A k \in 1 .. Len(log) : k > executed[n] => Before(n, log[k])
      BY <1>4 DEF TryInv, TryTrue
    <3>2. Trying(n)' => commit'[n].value.node = n
                        /\ commit'[n].value.sid = try[n].op.sid
      BY <1>6, <2>1, <2>5, <2>6
    <3>3. \A v : Before(n, v) => Before(n, v)'
      BY <1>2, <1>6 DEF Before, Older
    <3>4. \A k \in 1 .. Len(log) : Before(n, log[k]) => Before(n, log[k])'
      BY <1>2, <1>6 DEF Before, Older
    <3>5. commit'[n] # None => Trying(n)'
      BY <2>5, <2>6 DEF Trying
    <3>6. commit'[n] # None
      <4>1. commit'[n] \in [by : {"mgr", "admin"}, value : Value]
        BY <1>6 DEF StateTypeOK, CallTypes
      <4> QED
        BY <4>1, ControlAssumption
    <3> QED
      BY <1>2, <1>3, <1>6, <2>1, <2>3, <2>4, <2>6, <3>1, <3>2, <3>3, <3>4,
         <3>5, <3>6 DEF TryInv, TryTrue
  <2>7. CASE by = "admin"
    <3>1. ~Trying(n)'
      BY <2>5, <2>7 DEF Trying
    <3>2. \A v \in offered' : Before(n, v)'
      <4>1. Before(n, put)'
        BY <1>6, <2>7 DEF Before
      <4>2. \A v \in offered : Before(n, v)'
        BY <1>2, <1>4, <1>6 DEF Before, Older, TryInv, TryTrue
      <4> QED
        BY <1>6, <4>1, <4>2
    <3>3. \A k \in 1 .. Len(log) : k > executed[n] => Before(n, log[k])'
      BY <1>2, <1>4, <1>6 DEF Before, Older, TryInv, TryTrue
    <3>4. TryTrue(n)'
      BY <1>2, <1>6, <3>1, <3>2, <3>3 DEF TryInv, TryTrue
    <3> QED
      BY <2>3, <2>4, <3>4 DEF TryInv
  <2> QED
    BY <2>6, <2>7
<1> QED
  BY <1>5, <1>6, CheckNewValueOffers
(* Decide: the next value is an older one of n, of another, or the one n   *)
(* waits for.                                                              *)
LEMMA DecideTries ==
  ASSUME IInv, TryInv, IssuedInv, NEW v \in offered, Decide(v)
  PROVE  TryInv' /\ IssuedInv'
<1> USE DEF IInv
<1>1. v \in Value
  BY SidsTyped
<1>2. /\ UNCHANGED <<executed, try, commit, requests, faults>>
      /\ offered' = {} /\ log' = Append(log, v)
  BY DEF Decide
<1>3. /\ Len(log) \in Nat /\ Len(log') = Len(log) + 1
      /\ \A i \in 1 .. Len(log) : log'[i] = log[i]
      /\ log'[Len(log) + 1] = v
  BY <1>1, <1>2, LogGrows DEF StateTypeOK
<1>4. IssuedInv'
  <2>1. \A k \in 1 .. Len(log') : Issued(log'[k])
    BY <1>3 DEF IssuedInv
  <2> QED
    BY <1>2, <2>1 DEF IssuedInv, Issued
<1>5. ASSUME NEW n \in Node PROVE TryTrue(n)'
  <2>1. \A w : Before(n, w) <=> Before(n, w)'
    BY <1>2 DEF Before, Older
  <2>2. Trying(n)' <=> Trying(n)
    BY <1>2 DEF Trying
  <2>3. \A k \in 1 .. Len(log') :
           k > executed[n] => \/ Before(n, log'[k])
                              \/ Trying(n) /\ k = executed[n] + 1
    <3> SUFFICES ASSUME NEW k \in 1 .. Len(log'), k > executed[n]
                 PROVE  \/ Before(n, log'[k])
                        \/ Trying(n) /\ k = executed[n] + 1
      OBVIOUS
    <3>1. CASE k \in 1 .. Len(log)
      BY <1>3, <3>1 DEF TryInv, TryTrue
    <3>2. CASE k = Len(log) + 1
      BY <1>3, <3>2 DEF TryInv, TryTrue
    <3> QED
      BY <1>3, <3>1, <3>2
  <2>4. \A k \in 1 .. Len(log') : Before(n, log'[k]) <=> Before(n, log[k])'
    BY <1>2 DEF Before, Older
  <2> QED
    BY <1>2, <2>1, <2>2, <2>3, <2>4 DEF TryInv, TryTrue
<1> QED
  BY <1>4, <1>5 DEF TryInv

(* What ends a commit of n is by whom it was begun.                        *)
LEMMA ExecuteNextEnds ==
  ASSUME StateTypeOK, NEW n \in Node, ExecuteNext(n)
  PROVE  /\ UNCHANGED <<log, offered, requests, faults, lag, sent>>
         /\ executed' = [executed EXCEPT ![n] = @ + 1]
         /\ commit' = [commit EXCEPT ![n] = None]
         /\ commit'[n] = None
         /\ executed[n] \in Nat /\ executed[n] < Len(log)
         /\ log[executed[n] + 1] \in Value
         /\ IF Trying(n) THEN try' = [try EXCEPT ![n] = None] ELSE try' = try
<1> USE DEF StateTypeOK
<1>1. /\ UNCHANGED <<log, offered, requests, faults, lag, sent>>
      /\ executed' = [executed EXCEPT ![n] = @ + 1]
      /\ commit' = [commit EXCEPT ![n] = None]
      /\ executed[n] < Len(log)
  BY DEF ExecuteNext
<1>2. commit'[n] = None /\ executed[n] \in Nat
  BY <1>1 DEF LogTypes, CallTypes
<1>3. log[executed[n] + 1] \in Value
  <2>1. executed[n] + 1 \in 1 .. Len(log)
    BY <1>1, <1>2 DEF LogTypes
  <2> QED
    BY <2>1 DEF LogTypes
<1>4. CASE commit[n] = None
  BY <1>1, <1>2, <1>3, <1>4 DEF ExecuteNext, Trying
<1>5. CASE commit[n] # None
  <2>1. PICK mine, accepted : EndCommit(n, commit[n].by, mine, accepted)
    BY <1>5 DEF ExecuteNext
  <2>2. commit[n].by \in {"mgr", "admin"}
    BY <1>5 DEF CallTypes
  <2>3. IF Trying(n) THEN try' = [try EXCEPT ![n] = None] ELSE try' = try
    BY <1>5, <2>1, <2>2 DEF EndCommit, Return, Trying
  <2> QED
    BY <1>1, <1>2, <1>3, <2>3
<1> QED
  BY <1>4, <1>5

(* ExecuteNext: the commit that ends takes its try with it.                *)
LEMMA ExecuteNextTries ==
  ASSUME IInv, TryInv, IssuedInv, NEW n \in Node, ExecuteNext(n)
  PROVE  TryInv' /\ IssuedInv'
<1> USE DEF IInv
<1>0. /\ UNCHANGED <<log, offered, requests, faults>>
      /\ executed' = [executed EXCEPT ![n] = @ + 1]
      /\ commit' = [commit EXCEPT ![n] = None]
      /\ commit'[n] = None
      /\ executed[n] \in Nat /\ executed[n] < Len(log) /\ Len(log) \in Nat
      /\ IF Trying(n) THEN try' = [try EXCEPT ![n] = None] ELSE try' = try
  BY ExecuteNextEnds DEF StateTypeOK, LogTypes
<1>1. PICK sum \in Nat : sum = requests' + faults' /\ requests + faults <= sum
  BY <1>0 DEF StateTypeOK, CallTypes
<1>2. IssuedInv'
  BY <1>0, <1>1, IssuedKept
<1>3. ASSUME NEW m \in Node \ {n} PROVE TryTrue(m)'
  <2>1. /\ executed'[m] = executed[m] /\ commit'[m] = commit[m]
        /\ try'[m] = try[m]
    BY <1>0 DEF StateTypeOK, CallTypes, LogTypes
  <2> QED
    BY <1>0, <1>1, <2>1, TryKept DEF TryInv
<1>4. /\ executed'[n] = executed[n] + 1 /\ executed'[n] \in Nat
      /\ executed[n] <= executed'[n] /\ ~Trying(n)'
  BY <1>0 DEF StateTypeOK, LogTypes, Trying
<1>5. CASE Trying(n)
  <2>1. try'[n] = None
    BY <1>0, <1>5 DEF StateTypeOK, CallTypes
  <2>2. /\ \A v \in offered : Before(n, v)
        /\ \A k \in 1 .. Len(log) : k > executed'[n] => Before(n, log[k])
        /\ try[n] # None => try[n].op.sid <= requests + faults
    BY <1>0, <1>4 DEF TryInv, TryTrue
  <2>3. TryTrue(n)'
    BY <1>0, <1>1, <1>4, <2>1, <2>2, TryEnds
  <2> QED
    BY <1>2, <1>3, <2>3 DEF TryInv
<1>6. CASE ~Trying(n)
  <2>1. TryTrue(n)'
    BY <1>0, <1>1, <1>4, <1>6, TryKept DEF TryInv
  <2> QED
    BY <1>2, <1>3, <2>1 DEF TryInv
<1> QED
  BY <1>5, <1>6

(* CommitFails and Restart: what n proposed may still be decided, but is   *)
(* older than what it will propose.                                        *)
LEMMA CommitFailsTries ==
  ASSUME IInv, TryInv, IssuedInv, NEW n \in Faulty, CommitFails(n)
  PROVE  TryInv' /\ IssuedInv'
<1>0. n \in Node
  BY ControlAssumption
<1> USE DEF IInv
<1>1. /\ UNCHANGED <<log, offered, executed, requests>>
      /\ faults' = faults + 1
      /\ commit[n] # None /\ commit[n].by \in {"mgr", "admin"}
      /\ Return(n, commit[n].by)
      /\ commit' = [commit EXCEPT ![n] = None]
      /\ commit'[n] = None
  BY <1>0 DEF CommitFails, StateTypeOK, CallTypes
<1>2. PICK sum \in Nat : sum = requests' + faults' /\ requests + faults < sum
                         /\ requests + faults <= sum
  BY <1>1 DEF StateTypeOK, CallTypes
<1>3. IssuedInv'
  BY <1>1, <1>2, IssuedKept
<1>4. ASSUME NEW m \in Node \ {n} PROVE TryTrue(m)'
  <2>1. executed'[m] = executed[m] /\ commit'[m] = commit[m]
        /\ try'[m] = try[m]
    BY <1>1 DEF StateTypeOK, CallTypes, Return
  <2> QED
    BY <1>1, <1>2, <2>1, TryKept DEF TryInv
<1>5. ~Trying(n)' /\ executed'[n] \in Nat
  BY <1>0, <1>1 DEF Trying, StateTypeOK, LogTypes
<1>6. CASE Trying(n)
  <2>1. try'[n] = None
    BY <1>0, <1>1, <1>6 DEF Trying, Return, StateTypeOK, CallTypes
  <2>2. TryTrue(n)'
    BY <1>0, <1>1, <1>2, <1>5, <2>1, TryEnds
  <2> QED
    BY <1>3, <1>4, <2>2 DEF TryInv
<1>7. CASE ~Trying(n)
  <2>1. try' = try
    BY <1>1, <1>7 DEF Trying, Return
  <2>2. TryTrue(n)'
    BY <1>0, <1>1, <1>2, <1>5, <1>7, <2>1, TryKept DEF TryInv
  <2> QED
    BY <1>3, <1>4, <2>2 DEF TryInv
<1> QED
  BY <1>6, <1>7

(* Restart: the tries of the node are forgotten, not its values.           *)
LEMMA RestartTries ==
  ASSUME IInv, TryInv, IssuedInv, NEW n \in Faulty,
         NEW from \in 0 .. executed[n], Restart(n, from)
  PROVE  TryInv' /\ IssuedInv'
<1>0. n \in Node
  BY ControlAssumption
<1> USE DEF IInv
<1>1. /\ UNCHANGED <<log, offered, requests>> /\ faults' = faults + 1
      /\ executed' = [executed EXCEPT ![n] = from]
      /\ try' = [try EXCEPT ![n] = None]
      /\ commit' = [commit EXCEPT ![n] = None]
  BY DEF Restart
<1>2. PICK sum \in Nat : sum = requests' + faults' /\ requests + faults < sum
                         /\ requests + faults <= sum
  BY <1>1 DEF StateTypeOK, CallTypes
<1>3. IssuedInv'
  BY <1>1, <1>2, IssuedKept
<1>4. ASSUME NEW m \in Node \ {n} PROVE TryTrue(m)'
  <2>1. executed'[m] = executed[m] /\ commit'[m] = commit[m]
        /\ try'[m] = try[m]
    BY <1>1 DEF StateTypeOK, CallTypes, LogTypes
  <2> QED
    BY <1>1, <1>2, <2>1, TryKept DEF TryInv
<1>5. TryTrue(n)'
  <2>1. /\ try'[n] = None /\ commit'[n] = None /\ executed'[n] \in Nat
    BY <1>0, <1>1 DEF StateTypeOK, CallTypes, LogTypes
  <2>2. ~Trying(n)'
    BY <2>1 DEF Trying
  <2> QED
    BY <1>0, <1>1, <1>2, <2>1, <2>2, TryEnds
<1> QED
  BY <1>3, <1>4, <1>5 DEF TryInv
(* Every step.                                                             *)
LEMMA NextTries ==
  ASSUME IInv, TryInv, IssuedInv, [Next]_vars PROVE TryInv' /\ IssuedInv'
<1>0. StateTypeOK /\ requests \in Nat
  BY DEF IInv, StateTypeOK, CallTypes
<1>1. ASSUME NEW n \in Candidates, TryBeMaster(n) PROVE TryInv' /\ IssuedInv'
  BY <1>1, TryBeMasterTries
<1>2. ASSUME NEW c \in Change, ReadVersion(c.at, c)
      PROVE TryInv' /\ IssuedInv'
  BY <1>0, <1>2, TriesKept DEF ReadVersion
<1>3. ASSUME NEW n \in Node, ReadMembers(n) PROVE TryInv' /\ IssuedInv'
  BY <1>0, <1>3, TriesKept DEF ReadMembers
<1>4. ASSUME NEW n \in Node, NEW by \in {"mgr", "admin"}, CheckNewValue(n, by)
      PROVE TryInv' /\ IssuedInv'
  BY <1>4, CheckNewValueTries
<1>5. ASSUME NEW n \in Node, ExecuteNext(n) PROVE TryInv' /\ IssuedInv'
  BY <1>5, ExecuteNextTries
<1>6. ASSUME NEW n \in Faulty, CommitFails(n) PROVE TryInv' /\ IssuedInv'
  BY <1>6, CommitFailsTries
<1>7. ASSUME NEW n \in Faulty, NEW from \in 0 .. executed[n], Restart(n, from)
      PROVE TryInv' /\ IssuedInv'
  BY <1>7, RestartTries
<1>8. ASSUME NEW n \in Senders, NEW to \in Lagging, SendNowInstanceID(n, to)
      PROVE TryInv' /\ IssuedInv'
  BY <1>0, <1>8, TriesKept DEF SendNowInstanceID
<1>9. ASSUME NEW m \in sent, OnSendNowInstanceID(m) PROVE TryInv' /\ IssuedInv'
  BY <1>0, <1>9, TriesKept DEF OnSendNowInstanceID, ctlVars
<1>10. ASSUME NEW v \in offered, Decide(v) PROVE TryInv' /\ IssuedInv'
  BY <1>10, DecideTries
<1>11. ASSUME NEW late, Tick(late) PROVE TryInv' /\ IssuedInv'
  <2>1. /\ UNCHANGED <<log, offered, executed, commit, requests, faults>>
        /\ requests <= requests'
    BY <1>0, <1>11 DEF Tick
  <2>2. \A n \in Node : /\ try'[n] # None <=> try[n] # None
                        /\ try[n] # None => try'[n].op = try[n].op
    BY <1>0, <1>11, TickRuns DEF StateTypeOK
  <2> QED
    BY <1>0, <2>1, <2>2, TriesKept
<1>12. CASE UNCHANGED vars
  BY <1>0, <1>12, TriesKept DEF vars, ctlVars
<1> QED
  BY <1>1, <1>2, <1>3, <1>4, <1>5, <1>6, <1>7, <1>8, <1>9, <1>10, <1>11,
     <1>12 DEF Next
-----------------------------------------------------------------------------
(* What nodes remember and send.                                           *)

(* Versions only grow, and no node takes back an election it has lost.     *)
Forward == \A n \in Node :
    \/ version'[n] > version[n]
    \/ version'[n] = version[n] /\ (master'[n] = master[n] \/ master'[n] # n)

(* What is given away or lost stays so.                                    *)
LEMMA WholeStays ==
  ASSUME MasterTypes, MasterTypes', Forward, sent \subseteq sent',
         NEW x, NEW v \in Int, NEW time,
         MasterLog(log', v + 1) = MasterLog(log, v + 1)
  PROVE  /\ \A y : Lost(y, v) => Lost(y, v)'
         /\ Whole(x, v, time) => Whole(x, v, time)'
<1>1. ASSUME NEW y, Lost(y, v) PROVE Lost(y, v)'
  <2> SUFFICES ASSUME y \in Node
               PROVE  \/ version'[y] > v
                      \/ version'[y] = v /\ master'[y] # y
    BY DEF Lost
  <2>1. version[y] \in Int /\ version'[y] \in Int
    BY DEF MasterTypes
  <2>2. version[y] > v \/ (version[y] = v /\ master[y] # y)
    BY <1>1 DEF Lost
  <2> QED
    BY <2>1, <2>2 DEF Forward
<1>2. DisownedAt(x, v) => DisownedAt(x, v)'
  BY DEF DisownedAt
<1> QED
  BY <1>1, <1>2 DEF Whole

(* It is kept by steps that save and send what is known.                   *)
LEMMA MemoryStays ==
  ASSUME IInv, MasterTypes', MemoryInv, Forward, sent \subseteq sent',
         lag' <= Margin,
         \A u \in -1 .. Len(log) - 1 :
            MasterLog(log', u + 1) = MasterLog(log, u + 1),
         \A m \in sent' \ sent : m.master # None =>
            Whole(m.master.master, m.master.version, m.master.lease)',
         \A n \in Node :
            \/ /\ version'[n] = version[n] /\ saved'[n] = saved[n]
               /\ master'[n] = master[n]
            \/ /\ Whole(saved[n].master, version[n], saved[n].lease)'
               /\ (master[n] = None =>
                     Lost(MasterLog(log, version[n] + 1).master, version[n]))'
  PROVE  MemoryInv'
<1> USE DEF IInv, StateTypeOK
<1>1. \A n \in Node : /\ version[n] \in -1 .. Len(log) - 1
                      /\ version[n] \in Int
  BY DEF MasterInv, MasterOf, NoVersion, MasterTypes
<1>2. ASSUME NEW m \in sent, m.master # None
      PROVE  Whole(m.master.master, m.master.version, m.master.lease)'
  <2>1. m.master.version \in -1 .. Len(log) - 1 /\ m.master.version \in Int
    BY <1>2 DEF SentTypes, SentInv, MasterOf, NoVersion, MasterCheckpoint
  <2>2. Whole(m.master.master, m.master.version, m.master.lease)
    BY <1>2 DEF MemoryInv
  <2> QED
    BY <2>1, <2>2, WholeStays
<1>3. ASSUME NEW n \in Node, version[n] # NoVersion,
             version'[n] = version[n], saved'[n] = saved[n],
             master'[n] = master[n]
      PROVE  /\ Whole(saved[n].master, version[n], saved[n].lease)'
             /\ (master[n] = None =>
                   Lost(MasterLog(log, version[n] + 1).master, version[n]))'
  <2> DEFINE x == saved[n].master
             v == version[n]
             time == saved[n].lease
             owner == MasterLog(log, v + 1).master
  <2>1. /\ Whole(x, v, time)
        /\ master[n] = None => Lost(owner, v)
    BY <1>3 DEF MemoryInv
  <2>2. v \in Int /\ MasterLog(log', v + 1) = MasterLog(log, v + 1)
    BY <1>1
  <2>3. x = saved'[n].master /\ v = version'[n] /\ time = saved'[n].lease
        /\ owner = MasterLog(log', v + 1).master
    BY <1>3, <2>2
  <2> HIDE DEF x, v, time, owner
  <2>4. /\ Lost(owner, v) => (version'[n] = v => \/ owner \notin Node
                                               \/ version'[owner] > v
                                               \/ /\ version'[owner] = v
                                                  /\ master'[owner] # owner)
    BY <2>2, WholeStays DEF Lost
  <2>5. Whole(x, v, time) =>
          \/ /\ x = owner
             /\ time = Lease \/ \E m \in sent' :
                  /\ m.master # None /\ m.master.lease = 0
                  /\ m.master.master = x /\ m.master.version >= v
          \/ x = None /\ (\/ owner \notin Node
                          \/ version'[owner] > v
                          \/ version'[owner] = v /\ master'[owner] # owner)
    BY <2>2, <2>3, <2>4 DEF Whole, DisownedAt
  <2> QED
    BY <1>3, <2>1, <2>3, <2>4, <2>5 DEF Whole, DisownedAt, Lost
<1>4. ASSUME NEW n \in Node, version'[n] # NoVersion
      PROVE  /\ Whole(saved[n].master, version[n], saved[n].lease)'
             /\ (master[n] = None =>
                   Lost(MasterLog(log, version[n] + 1).master, version[n]))'
  BY <1>3, <1>4
<1> QED
  BY <1>2, <1>4 DEF MemoryInv

(* It is the same as long as it is not touched.                            *)
LEMMA MemoryKept ==
  ASSUME MemoryInv, UNCHANGED <<log, sent, masterVars, lag>> PROVE MemoryInv'
BY DEF MemoryInv, Whole, Lost, DisownedAt, masterVars

(* LearnMaster saves the value it executes, with the whole lease.          *)
LEMMA ExecuteNextLearns ==
  ASSUME IInv, NEW n \in Node, ExecuteNext(n),
         NEW inst \in Nat, inst = executed[n],
         NEW v \in Value, v = log[inst + 1]
  PROVE  \/ /\ v \in MasterOp
            /\ v.version = MasterLog(log, inst).version
            /\ MasterLog(log, inst + 1).master = v.node
            /\ version[n] < inst
            /\ version' = [version EXCEPT ![n] = inst]
            /\ master' = [master EXCEPT ![n] = v.node]
            /\ leaseTime' = [leaseTime EXCEPT ![n] = Lease]
            /\ saved' = [saved EXCEPT ![n] = [master |-> v.node,
                                              version |-> inst,
                                              lease |-> Lease]]
            /\ \E left \in 0 .. Lease :
                  /\ remains' = [remains EXCEPT ![n] = NewLease(n, v, left)]
                  /\ IF commit[n] # None /\ commit[n].value = v
                     THEN left = try[n].left ELSE left = 0
         \/ UNCHANGED masterVars
<1>0. /\ MasterTypes /\ LogTypes /\ CallTypes
      /\ LogInv /\ MasterInv /\ CommitInv
  BY DEF IInv, StateTypeOK, CallInv
<1> DEFINE isMine == commit[n] # None /\ commit[n].value = v
           left == IF isMine THEN try[n].left ELSE 0
<1>1. CASE v.sm = "master"
  <2>1. /\ LearnMaster(n, v, executed[n], left) /\ log' = log
        /\ executed[n] < Len(log)
        /\ executed' = [executed EXCEPT ![n] = @ + 1]
    BY <1>1 DEF ExecuteNext
  <2>2. left \in 0 .. Lease
    <3>1. OwnLease \in Nat /\ OwnLease <= Lease
      BY MasterAssumption DEF OwnLease
    <3>2. isMine => try[n].left \in 0 .. OwnLease
      BY <1>0, <1>1, MineIsTheCalls DEF SystemOp
    <3> QED
      BY <3>1, <3>2, MasterAssumption
  <2>3. v \in MasterOp
    BY <1>1 DEF Value, SystemOp
  <2>4. PICK l \in 0 .. Lease : l = left
    BY <2>2
  <2>5. IF isMine THEN l = try[n].left ELSE l = 0
    BY <2>4
  <2> HIDE DEF left
  <2>6. LearnMaster(n, v, executed[n], l) /\ v = log[executed[n] + 1]
    BY <2>1, <2>4
  <2>7. \/ /\ v.version = MasterLog(log, executed[n]).version
           /\ version' = [version EXCEPT ![n] = executed[n]]
           /\ master' = [master EXCEPT ![n] = v.node]
           /\ remains' = [remains EXCEPT ![n] = NewLease(n, v, l)]
           /\ leaseTime' = [leaseTime EXCEPT ![n] = Lease]
           /\ saved' = [saved EXCEPT ![n] = [master |-> v.node,
                                             version |-> executed[n],
                                             lease |-> Lease]]
           /\ version[n] < executed[n]
           /\ MasterLog(log, executed[n] + 1).master = v.node
        \/ UNCHANGED masterVars
    BY <1>0, <1>1, <2>1, <2>6, LearnMasterKeeps
  <2>8. ASSUME ~UNCHANGED masterVars
        PROVE  /\ v.version = MasterLog(log, inst).version
               /\ version' = [version EXCEPT ![n] = inst]
               /\ saved' = [saved EXCEPT ![n] = [master |-> v.node,
                                                 version |-> inst,
                                                 lease |-> Lease]]
               /\ version[n] < inst
               /\ MasterLog(log, inst + 1).master = v.node
    BY <2>7, <2>8
  <2> QED
    BY <2>3, <2>5, <2>7, <2>8
<1>2. CASE v.sm # "master"
  BY <1>2 DEF ExecuteNext
<1> QED
  BY <1>1, <1>2

(* What is known of clocks.                                                *)
ClocksWithinMargin == MaxLag <= Margin

(* ExecuteNext: who learns a master saves him with the whole lease.        *)
LEMMA ExecuteNextMemory ==
  ASSUME IInv, MasterTypes', MemoryInv, NEW n \in Node, ExecuteNext(n)
  PROVE  MemoryInv'
<1> USE DEF IInv, StateTypeOK
<1>1. UNCHANGED <<log, sent, lag>>
  BY ExecuteNextEnds
<1>2. PICK inst \in Nat, v \in Value :
         inst = executed[n] /\ v = log[inst + 1]
  BY ExecuteNextEnds
<1>3. CASE UNCHANGED masterVars
  BY <1>1, <1>3, MemoryKept
<1>4. CASE /\ v \in MasterOp /\ version[n] < inst
           /\ MasterLog(log, inst + 1).master = v.node
           /\ version' = [version EXCEPT ![n] = inst]
           /\ master' = [master EXCEPT ![n] = v.node]
           /\ saved' = [saved EXCEPT ![n] = [master |-> v.node,
                                             version |-> inst,
                                             lease |-> Lease]]
  <2>1. /\ version'[n] = inst /\ master'[n] = v.node
        /\ saved'[n].master = v.node /\ saved'[n].lease = Lease
    BY <1>4 DEF MasterTypes
  <2>2. \A m \in Node \ {n} :
           /\ version'[m] = version[m] /\ master'[m] = master[m]
           /\ saved'[m] = saved[m]
    BY <1>4 DEF MasterTypes
  <2>3. v.node \in Node /\ v.node # None
    BY <1>4, NodesAssumption DEF MasterOp
  <2>4. /\ Whole(saved[n].master, version[n], saved[n].lease)'
        /\ (master[n] = None =>
              Lost(MasterLog(log, version[n] + 1).master, version[n]))'
    BY <1>1, <1>4, <2>1, <2>3 DEF Whole
  <2>5. Forward
    <3>1. version[n] \in Int
      BY DEF MasterTypes
    <3> QED
      BY <1>4, <2>1, <2>2, <3>1 DEF Forward
  <2>6. lag' <= Margin
    BY <1>1 DEF MemoryInv
  <2> QED
    BY <1>1, <2>2, <2>4, <2>5, <2>6, MemoryStays
<1> QED
  BY <1>2, <1>3, <1>4, ExecuteNextLearns

(* Init and UpdateByCheckpoint: a node that was the master is it no more.  *)
LEMMA TakeVariablesMemory ==
  ASSUME IInv, MasterTypes', MemoryInv, NEW n \in Node,
         NEW cp \in MasterCheckpoint, TakeVariables(n, cp),
         cp.version # NoVersion => Whole(cp.master, cp.version, cp.lease),
         cp.version >= version[n],
         \/ UNCHANGED saved /\ saved[n] = cp
         \/ saved' = [saved EXCEPT ![n] = cp],
         UNCHANGED <<log, sent, lag>>
  PROVE  MemoryInv'
<1> USE DEF IInv, StateTypeOK
<1>1. /\ version'[n] = cp.version /\ saved'[n] = cp
      /\ master'[n] = IF cp.master = n THEN None ELSE cp.master
      /\ version[n] \in Int /\ cp.version \in Int
  BY DEF TakeVariables, MasterTypes, MasterCheckpoint
<1>2. \A m \in Node \ {n} :
         /\ version'[m] = version[m] /\ master'[m] = master[m]
         /\ saved'[m] = saved[m]
  BY DEF TakeVariables, MasterTypes
<1>3. Forward
  <2>1. master'[n] # n
    BY <1>1, NodesAssumption
  <2> QED
    BY <1>1, <1>2, <2>1 DEF Forward
<1>4. CASE cp.version = NoVersion
  <2>1. lag' <= Margin
    BY DEF MemoryInv
  <2>2. version[n] = NoVersion
    BY <1>1, <1>4 DEF MasterInv, MasterOf, NoVersion
  <2>3. \A m \in sent : m.master # None =>
          Whole(m.master.master, m.master.version, m.master.lease)'
    <3> SUFFICES ASSUME NEW m \in sent, m.master # None
                 PROVE  Whole(m.master.master, m.master.version,
                              m.master.lease)'
      OBVIOUS
    <3>1. m.master.version \in Int
      BY DEF SentTypes, MasterCheckpoint
    <3> QED
      BY <1>3, <3>1, WholeStays DEF MemoryInv
  <2>4. ASSUME NEW m \in Node, version'[m] # NoVersion
        PROVE  /\ Whole(saved[m].master, version[m], saved[m].lease)'
               /\ (master[m] = None =>
                     Lost(MasterLog(log, version[m] + 1).master, version[m]))'
    <3>1. m \in Node \ {n}
      BY <1>1, <1>4, <2>4
    <3>2. /\ version'[m] = version[m] /\ master'[m] = master[m]
          /\ saved'[m] = saved[m] /\ version[m] \in Int
      BY <1>2, <3>1 DEF MasterTypes
    <3>3. /\ Whole(saved[m].master, version[m], saved[m].lease)
          /\ master[m] = None =>
                Lost(MasterLog(log, version[m] + 1).master, version[m])
      BY <2>4, <3>2 DEF MemoryInv
    <3> QED
      BY <1>3, <3>2, <3>3, WholeStays DEF Whole, Lost, DisownedAt
  <2> QED
    BY <2>1, <2>3, <2>4 DEF MemoryInv
<1>5. CASE cp.version # NoVersion
  <2> DEFINE owner == MasterLog(log, cp.version + 1).master
  <2>1. Whole(cp.master, cp.version, cp.lease)'
    BY <1>1, <1>3, <1>5, WholeStays
  <2>2. master'[n] = None => Lost(owner, cp.version)'
    <3>1. CASE cp.master = n
      <4>1. owner = n
        BY <1>5, <3>1, NodesAssumption DEF Whole
      <4> QED
        BY <1>1, <3>1, <4>1, NodesAssumption DEF Lost
    <3>2. CASE cp.master = None
      <4>1. owner = None \/ Lost(owner, cp.version)
        BY <1>5, <3>2 DEF Whole
      <4>2. owner = None => Lost(owner, cp.version)'
        BY NodesAssumption DEF Lost
      <4> QED
        BY <1>1, <1>3, <4>1, <4>2, WholeStays
    <3> QED
      BY <1>1, <3>1, <3>2
  <2>3. /\ Whole(saved[n].master, version[n], saved[n].lease)'
        /\ (master[n] = None =>
              Lost(MasterLog(log, version[n] + 1).master, version[n]))'
    BY <1>1, <2>1, <2>2 DEF Whole, Lost, DisownedAt
  <2>4. lag' <= Margin
    BY DEF MemoryInv
  <2> QED
    BY <1>2, <1>3, <2>3, <2>4, MemoryStays
<1> QED
  BY <1>4, <1>5

(* Restart: RestartMaster takes what was saved.                            *)
LEMMA RestartMemory ==
  ASSUME IInv, MasterTypes', MemoryInv, NEW n \in Faulty,
         NEW from \in 0 .. executed[n], Restart(n, from)
  PROVE  MemoryInv'
<1> USE DEF IInv, StateTypeOK
<1>0. n \in Node
  BY ControlAssumption
<1>1. UNCHANGED <<log, sent, lag, saved>> /\ TakeVariables(n, saved[n])
  BY DEF Restart, RestartMaster
<1>2. /\ saved[n] \in MasterCheckpoint /\ saved[n].version = version[n]
      /\ version[n] \in Int
      /\ version[n] # NoVersion =>
            Whole(saved[n].master, saved[n].version, saved[n].lease)
  BY <1>0 DEF MasterTypes, MasterInv, MemoryInv
<1> QED
  BY <1>0, <1>1, <1>2, TakeVariablesMemory

(* GetCheckpointBuffer: the sender gives away its master and, of his lease,*)
(* what LearnMaster has set since it started: the whole or nothing.        *)
LEMMA SendNowInstanceIDMemory ==
  ASSUME IInv, MasterTypes', MemoryInv, NEW n \in Senders,
         NEW to \in Lagging, SendNowInstanceID(n, to)
  PROVE  MemoryInv'
<1> USE DEF IInv, StateTypeOK
<1>0. n \in Node
  BY ControlAssumption
<1>1. PICK msg : /\ msg.master = GetCheckpointBuffer(n)
                 /\ sent' = sent \cup {msg}
                 /\ UNCHANGED <<log, masterVars, lag>>
  BY DEF SendNowInstanceID
<1>2. msg.master # None =>
         /\ msg.master = [master |-> master[n], version |-> version[n],
                          lease |-> leaseTime[n]]
         /\ version[n] # NoVersion
  BY <1>1 DEF GetCheckpointBuffer
<1>3. msg \in sent'
  BY <1>1
<1>4. ASSUME msg.master # None
      PROVE  Whole(msg.master.master, msg.master.version, msg.master.lease)'
  <2> DEFINE owner == MasterLog(log, version[n] + 1).master
  <2>1. master[n] \in {None, owner} /\ leaseTime[n] \in {0, Lease}
        /\ version[n] \in Int
    BY <1>0 DEF MasterInv, MasterOf, MasterTypes
  <2>2. CASE master[n] = None
    <3>1. Lost(owner, version[n])
      BY <1>0, <1>2, <1>4, <2>2 DEF MemoryInv
    <3> QED
      BY <1>1, <1>2, <1>4, <2>2, <3>1 DEF Whole, Lost, masterVars
  <2>3. CASE master[n] = owner /\ leaseTime[n] = Lease
    BY <1>1, <1>2, <1>4, <2>3 DEF Whole, masterVars
  <2>4. CASE master[n] = owner /\ leaseTime[n] = 0
    <3>1. DisownedAt(msg.master.master, msg.master.version)'
      BY <1>2, <1>3, <1>4, <2>1, <2>4 DEF DisownedAt
    <3> QED
      BY <1>1, <1>2, <1>4, <2>4, <3>1 DEF Whole, masterVars
  <2> QED
    BY <2>1, <2>2, <2>3, <2>4
<1>5. Forward /\ lag' <= Margin
  BY <1>1 DEF Forward, MemoryInv, masterVars
<1>6. \A m \in sent' \ sent : m = msg
  BY <1>1
<1> QED
  BY <1>1, <1>4, <1>5, <1>6, MemoryStays DEF masterVars

(* UpdateByCheckpoint: it saves and takes what has been sent.              *)
LEMMA OnSendNowInstanceIDMemory ==
  ASSUME IInv, MasterTypes', MemoryInv, NEW m \in sent,
         OnSendNowInstanceID(m)
  PROVE  MemoryInv'
<1> USE DEF IInv, StateTypeOK
<1>1. UNCHANGED <<log, sent, lag>>
  BY DEF OnSendNowInstanceID, ctlVars
<1>2. CASE UNCHANGED masterVars
  BY <1>1, <1>2, MemoryKept
<1>3. CASE UpdateByCheckpoint(m.to, m.master) /\ ~UNCHANGED masterVars
  <2>1. /\ m.master # None /\ saved' = [saved EXCEPT ![m.to] = m.master]
        /\ TakeVariables(m.to, m.master)
        /\ version[m.to] = NoVersion \/ m.master.version > version[m.to]
    BY <1>3 DEF UpdateByCheckpoint, UpdateMasterToStore
  <2>2. /\ m.to \in Node /\ m.master \in MasterCheckpoint
        /\ Whole(m.master.master, m.master.version, m.master.lease)
        /\ m.master.version \in NoVersion .. Len(log) - 1
    BY <2>1 DEF SentTypes, SentInv, MasterOf, MemoryInv
  <2>3. m.master.version >= version[m.to]
    BY <2>1, <2>2 DEF MasterTypes, NoVersion
  <2> QED
    BY <1>1, <2>1, <2>2, <2>3, TakeVariablesMemory
<1> QED
  BY <1>2, <1>3 DEF OnSendNowInstanceID

(* Decide: who was the master stays who was.                               *)
LEMMA DecideMemory ==
  ASSUME IInv, MasterTypes', MemoryInv, NEW v \in offered, Decide(v)
  PROVE  MemoryInv'
<1> USE DEF IInv, StateTypeOK
<1>1. v \in Value
  BY SidsTyped
<1>2. log' = Append(log, v) /\ UNCHANGED <<sent, masterVars, lag>>
  BY DEF Decide
<1>3. /\ Len(log) \in Nat
      /\ \A k \in 0 .. Len(log) : MasterLog(log', k) = MasterLog(log, k)
  BY <1>1, <1>2, LogGrows
<1>4. \A u \in -1 .. Len(log) - 1 :
         MasterLog(log', u + 1) = MasterLog(log, u + 1)
  BY <1>3
<1>5. Forward /\ lag' <= Margin
  BY <1>2 DEF Forward, MemoryInv, masterVars
<1> QED
  BY <1>2, <1>4, <1>5, MemoryStays DEF masterVars

(* Every step.                                                             *)
LEMMA NextMemory ==
  ASSUME ClocksWithinMargin, IInv, MasterTypes', MemoryInv, [Next]_vars
  PROVE  MemoryInv'
<1>0. lag \in Nat /\ lag <= Margin
  BY DEF MemoryInv, IInv, StateTypeOK, CallTypes
<1>1. ASSUME NEW n \in Candidates, TryBeMaster(n) PROVE MemoryInv'
  BY <1>1, MemoryKept DEF TryBeMaster
<1>2. ASSUME NEW c \in Change, ReadVersion(c.at, c) PROVE MemoryInv'
  BY <1>2, MemoryKept DEF ReadVersion
<1>3. ASSUME NEW n \in Node, ReadMembers(n) PROVE MemoryInv'
  BY <1>3, MemoryKept DEF ReadMembers
<1>4. ASSUME NEW n \in Node, NEW by \in {"mgr", "admin"}, CheckNewValue(n, by)
      PROVE MemoryInv'
  BY <1>4, MemoryKept DEF CheckNewValue
<1>5. ASSUME NEW n \in Node, ExecuteNext(n) PROVE MemoryInv'
  BY <1>5, ExecuteNextMemory
<1>6. ASSUME NEW n \in Faulty, CommitFails(n) PROVE MemoryInv'
  BY <1>6, MemoryKept DEF CommitFails
<1>7. ASSUME NEW n \in Faulty, NEW from \in 0 .. executed[n], Restart(n, from)
      PROVE MemoryInv'
  BY <1>7, RestartMemory
<1>8. ASSUME NEW n \in Senders, NEW to \in Lagging, SendNowInstanceID(n, to)
      PROVE MemoryInv'
  BY <1>8, SendNowInstanceIDMemory
<1>9. ASSUME NEW m \in sent, OnSendNowInstanceID(m) PROVE MemoryInv'
  BY <1>9, OnSendNowInstanceIDMemory
<1>10. ASSUME NEW v \in offered, Decide(v) PROVE MemoryInv'
  BY <1>10, DecideMemory
<1>11. ASSUME NEW late, Tick(late) PROVE MemoryInv'
  <2>1. /\ UNCHANGED <<log, sent, master, version, leaseTime, saved>>
        /\ lag' = lag \/ (lag < MaxLag /\ lag' = lag + 1)
    BY <1>11 DEF Tick, LeaseTick
  <2>2. lag' <= Margin
    BY <1>0, <2>1, ControlAssumption, MasterAssumption
    DEF ClocksWithinMargin
  <2> QED
    BY <2>1, <2>2 DEF MemoryInv, Whole, Lost, DisownedAt
<1>12. CASE UNCHANGED vars
  BY <1>12, MemoryKept DEF vars, ctlVars
<1> QED
  BY <1>1, <1>2, <1>3, <1>4, <1>5, <1>6, <1>7, <1>8, <1>9, <1>10, <1>11,
     <1>12 DEF Next
-----------------------------------------------------------------------------
(* Who counts a lease.                                                     *)

(* What a claim stands for: a value that the log has taken.                *)
LEMMA ClaimPlace ==
  ASSUME IInv, NEW x \in Node, NEW v \in Int, NEW r \in Int,
         Claim(x, v, r), Alone(x, v, r)
  PROVE  /\ v \in Nat /\ v < Len(log) /\ Len(log) \in Nat
         /\ MasterLog(log, v + 1).version = v
<1> USE DEF IInv, StateTypeOK
<1>1. v \in Nat /\ v < Len(log) /\ Len(log) \in Nat
  BY DEF Alone, LogTypes
<1>2. CASE master[x] = x /\ version[x] = v
  BY <1>1, <1>2 DEF MasterInv, MasterOf
<1>3. CASE Coming(x) /\ executed[x] = v
  <2>1. commit[x].value.sm = "master"
    BY <1>3 DEF Coming, Trying, CallInv, CommitInv
  <2>2. /\ log[v + 1].sm = "master"
        /\ log[v + 1].version = MasterLog(log, v).version
    BY <1>3, <2>1 DEF Coming
  <2>3. MasterLog(log, v + 1) = [master |-> log[v + 1].node, version |-> v]
    BY <1>1, <2>2, MasterStep
  <2> QED
    BY <1>1, <2>3
<1> QED
  BY <1>1, <1>2, <1>3 DEF Claim

(* A claim that nobody has given away was not given away before.           *)
LEMMA AloneBefore ==
  ASSUME LeaseInv, NEW x \in Node, NEW v \in Int, NEW r \in Int,
         Claim(x, v, r), ~DisownedAt(x, v)', sent \subseteq sent'
  PROVE  Alone(x, v, r)
BY DEF LeaseInv, DisownedAt

(* A node that is not touched, with its commit, claims what it did.        *)
LEMMA ClaimKept ==
  ASSUME NEW x, NEW v, NEW r, Claim(x, v, r)',
         log' = log, master'[x] = master[x], version'[x] = version[x],
         remains'[x] = remains[x],
         Coming(x)' => /\ commit'[x] = commit[x]
                       /\ executed'[x] = executed[x]
                       /\ try'[x].left = try[x].left
  PROVE  Claim(x, v, r)
BY DEF Claim, Coming, Trying

(* Others may do what does not compete.                                    *)
LEMMA AloneKept ==
  ASSUME StateTypeOK, NEW x \in Node, NEW v \in Int, NEW r \in Int,
         Alone(x, v, r), log' = log, lag' = lag,
         \A w \in offered' \ offered :
            w.sm = "master" /\ w.node # x => w.version < v,
         \A m \in Node \ {x} : try'[m] # None =>
            \/ try'[m] = try[m]
            \/ try'[m].op.version < v,
         \A m \in Node \ {x} :
            \/ /\ version'[m] = version[m] /\ master'[m] = master[m]
               /\ remains'[m] = remains[m]
            \/ version'[m] >= v => /\ master'[m] = x
                                   /\ r + Margin <= remains'[m] + lag
  PROVE  Alone(x, v, r)'
BY DEF Alone

(* Steps that leave what was learned, executed and decided as it is.       *)
LEMMA LeaseKept ==
  ASSUME IInv, LeaseInv,
         UNCHANGED <<log, offered, executed, masterVars, try, commit, lag>>,
         sent \subseteq sent'
  PROVE  LeaseInv'
<1> SUFFICES ASSUME NEW x \in Node, NEW v \in Int, NEW r \in Int,
                    Claim(x, v, r)', ~DisownedAt(x, v)'
             PROVE  Alone(x, v, r)'
  BY DEF LeaseInv
<1>1. Claim(x, v, r)
  BY ClaimKept DEF masterVars
<1>2. Alone(x, v, r)
  BY <1>1, AloneBefore
<1> QED
  BY <1>2, AloneKept DEF masterVars, IInv

(* TryBeMaster: a node that has executed v still counts the lease of x.    *)
LEMMA TryBeMasterLease ==
  ASSUME IInv, MemoryInv, LeaseInv, NEW n \in Candidates, TryBeMaster(n)
  PROVE  LeaseInv'
<1> USE DEF IInv, StateTypeOK
<1>0. n \in Node
  BY ControlAssumption
<1>1. /\ UNCHANGED <<log, offered, executed, masterVars, commit, sent, lag>>
      /\ try[n] = None /\ MayTryBeMaster(n)
      /\ try' = [try EXCEPT ![n] = [op   |-> MakeOpValue(n, requests + faults),
                                    left |-> OwnLease]]
  BY DEF TryBeMaster
<1>2. /\ try'[n].op.version = version[n]
      /\ \A m \in Node \ {n} : try'[m] = try[m]
  BY <1>0, <1>1 DEF CallTypes, MakeOpValue
<1> SUFFICES ASSUME NEW x \in Node, NEW v \in Int, NEW r \in Int,
                    Claim(x, v, r)', ~DisownedAt(x, v)'
             PROVE  Alone(x, v, r)'
  BY DEF LeaseInv
<1>3. ~Coming(n)'
  BY <1>0, <1>1 DEF Coming, Trying, CallInv, CommitInv
<1>4. Claim(x, v, r)
  <2>1. Coming(x)' => try'[x].left = try[x].left
    BY <1>2, <1>3
  <2> QED
    BY <1>1, <2>1, ClaimKept DEF masterVars
<1>5. Alone(x, v, r)
  BY <1>1, <1>4, AloneBefore
<1>6. n # x => version[n] < v
  <2> SUFFICES ASSUME n # x, ~(version[n] < v) PROVE FALSE
    OBVIOUS
  <2>1. version[n] \in Int /\ remains[n] \in Int /\ lag \in Int
    BY <1>0 DEF MasterTypes, CallTypes
  <2>2. master[n] = x /\ r + Margin <= remains[n] + lag /\ r > 0
    BY <1>0, <1>5, <2>1 DEF Alone
  <2>3. lag <= Margin
    BY DEF MemoryInv
  <2>4. remains[n] # 0
    BY <2>1, <2>2, <2>3, MasterAssumption
  <2> QED
    BY <1>1, <2>2, <2>4, NodesAssumption DEF MayTryBeMaster, GetMaster
<1> QED
  BY <1>1, <1>2, <1>5, <1>6, AloneKept DEF masterVars

(* CheckNewValue: the value that is proposed is not decided yet, and it is *)
(* of the version its proposer has read.                                   *)
LEMMA CheckNewValueLease ==
  ASSUME IInv, IInv', TryInv, LeaseInv,
         NEW n \in Node, NEW by \in {"mgr", "admin"}, CheckNewValue(n, by)
  PROVE  LeaseInv'
<1> USE DEF IInv
<1>1. UNCHANGED <<log, executed, masterVars, sent, lag>>
  BY DEF CheckNewValue
<1>2. commit[n] = None /\ ~Trying(n)
  BY CheckNewValueOffers DEF Trying
<1>3. CASE Return(n, by) /\ UNCHANGED <<commit, offered>>
  <2> SUFFICES ASSUME NEW x \in Node, NEW v \in Int, NEW r \in Int,
                      Claim(x, v, r)', ~DisownedAt(x, v)'
               PROVE  Alone(x, v, r)'
    BY DEF LeaseInv
  <2>1. /\ \A m \in Node \ {n} : try'[m] = try[m]
        /\ try'[n] # None => try'[n] = try[n]
    BY <1>3 DEF Return, StateTypeOK, CallTypes
  <2>2. ~Coming(n)'
    BY <1>2, <1>3 DEF Coming, Trying
  <2>3. Claim(x, v, r)
    <3>1. Coming(x)' => try'[x].left = try[x].left
      BY <2>1, <2>2
    <3> QED
      BY <1>1, <1>3, <3>1, ClaimKept DEF masterVars
  <2>4. Alone(x, v, r)
    BY <1>1, <2>3, AloneBefore
  <2> QED
    BY <1>1, <1>3, <2>1, <2>4, AloneKept DEF masterVars
<1>4. ASSUME NEW val \in Value, NEW put \in Value,
             UNCHANGED <<try, admin>>,
             commit' = [commit EXCEPT ![n] = [by |-> by, value |-> val]],
             offered' = IF executed[n] = Len(log)
                        THEN offered \cup {put} ELSE offered,
             by = "mgr" => /\ val.node = try[n].op.node
                           /\ val.sid = try[n].op.sid,
             put.sm = "master" => /\ by = "mgr"
                                  /\ put.node = try[n].op.node
                                  /\ put.version = try[n].op.version
      PROVE  LeaseInv'
  <2> SUFFICES ASSUME NEW x \in Node, NEW v \in Int, NEW r \in Int,
                      Claim(x, v, r)', ~DisownedAt(x, v)'
               PROVE  Alone(x, v, r)'
    BY DEF LeaseInv
  <2>0. by = "mgr" => /\ try[n] # None /\ try[n].op.node = n
                      /\ try[n].op.sid \in Int
    BY CheckNewValueOffers, SidsTyped DEF TryInv, TryTrue
  <2>1. /\ commit'[n].by = by /\ commit'[n].value = val
        /\ \A m \in Node \ {n} : commit'[m] = commit[m]
    BY <1>4 DEF StateTypeOK, CallTypes
  <2>2. ~Coming(n)'
    <3> SUFFICES ASSUME Coming(n)' PROVE FALSE
      OBVIOUS
    <3>1. /\ by = "mgr" /\ executed[n] < Len(log)
          /\ val = log[executed[n] + 1] /\ val.sm = "master"
      BY <1>1, <2>1 DEF Coming, Trying, CallInv, CommitInv
    <3>2. executed[n] + 1 \in 1 .. Len(log) /\ executed[n] \in Nat
      BY <3>1 DEF StateTypeOK, LogTypes
    <3>3. Before(n, val)
      BY <1>2, <3>1, <3>2 DEF TryInv, TryTrue
    <3>4. val.sid < try[n].op.sid /\ val.sid = try[n].op.sid
      BY <1>4, <2>0, <3>1, <3>3 DEF Before, Older
    <3> QED
      BY <2>0, <3>1, <3>4
  <2>3. Claim(x, v, r)
    <3>1. Coming(x)' => commit'[x] = commit[x]
      BY <2>1, <2>2
    <3> QED
      BY <1>1, <1>4, <3>1, ClaimKept DEF masterVars
  <2>4. Alone(x, v, r)
    BY <1>1, <2>3, AloneBefore
  <2>5. put.sm = "master" /\ put.node # x => put.version < v
    BY <1>4, <2>0, <2>4 DEF Alone
  <2>6. \A w \in offered' \ offered :
           w.sm = "master" /\ w.node # x => w.version < v
    BY <1>4, <2>5
  <2> QED
    BY <1>1, <1>4, <2>4, <2>6, AloneKept DEF masterVars
<1> QED
  BY <1>3, <1>4, CheckNewValueOffers
(* CommitFails: the call has returned, nothing comes of it here.           *)
LEMMA CommitFailsLease ==
  ASSUME IInv, LeaseInv, NEW n \in Faulty, CommitFails(n)
  PROVE  LeaseInv'
<1> USE DEF IInv, StateTypeOK
<1>0. n \in Node
  BY ControlAssumption
<1>1. /\ UNCHANGED <<log, offered, executed, masterVars, sent, lag>>
      /\ commit' = [commit EXCEPT ![n] = None]
      /\ commit[n].by \in {"mgr", "admin"} /\ Return(n, commit[n].by)
  BY <1>0 DEF CommitFails, CallTypes
<1>2. /\ \A m \in Node \ {n} : try'[m] = try[m] /\ commit'[m] = commit[m]
      /\ try'[n] # None => try'[n] = try[n]
      /\ commit'[n] = None
  BY <1>0, <1>1 DEF Return, CallTypes
<1> SUFFICES ASSUME NEW x \in Node, NEW v \in Int, NEW r \in Int,
                    Claim(x, v, r)', ~DisownedAt(x, v)'
             PROVE  Alone(x, v, r)'
  BY DEF LeaseInv
<1>3. ~Coming(n)'
  BY <1>2 DEF Coming, Trying
<1>4. Claim(x, v, r)
  <2>1. Coming(x)' => commit'[x] = commit[x] /\ try'[x].left = try[x].left
    BY <1>2, <1>3
  <2> QED
    BY <1>1, <2>1, ClaimKept DEF masterVars
<1>5. Alone(x, v, r)
  BY <1>1, <1>4, AloneBefore
<1> QED
  BY <1>1, <1>2, <1>5, AloneKept DEF masterVars

(* ExecuteNext: the master counts what was left of the lease he asked for, *)
(* the others the whole of it from now on.                                 *)
LEMMA ExecuteNextLease ==
  ASSUME IInv, LeaseInv, NEW n \in Node, ExecuteNext(n) PROVE LeaseInv'
<1>0. /\ UNCHANGED <<log, offered, sent, lag>>
      /\ executed' = [executed EXCEPT ![n] = @ + 1]
      /\ commit' = [commit EXCEPT ![n] = None]
      /\ commit'[n] = None
      /\ executed[n] \in Nat /\ executed[n] < Len(log)
      /\ IF Trying(n) THEN try' = [try EXCEPT ![n] = None] ELSE try' = try
  BY ExecuteNextEnds DEF IInv
<1>1. PICK inst \in Nat, val \in Value :
         inst = executed[n] /\ val = log[inst + 1]
  BY ExecuteNextEnds DEF IInv
<1>2. \/ UNCHANGED masterVars
      \/ /\ val \in MasterOp
         /\ val.version = MasterLog(log, inst).version
         /\ MasterLog(log, inst + 1).master = val.node
         /\ version[n] < inst
         /\ version' = [version EXCEPT ![n] = inst]
         /\ master' = [master EXCEPT ![n] = val.node]
         /\ \E left \in 0 .. Lease :
               /\ remains' = [remains EXCEPT ![n] = NewLease(n, val, left)]
               /\ IF commit[n] # None /\ commit[n].value = val
                  THEN left = try[n].left ELSE left = 0
  BY <1>1, ExecuteNextLearns
<1> USE DEF IInv, StateTypeOK
<1>3. /\ \A m \in Node \ {n} : /\ try'[m] = try[m]
                               /\ commit'[m] = commit[m]
                               /\ executed'[m] = executed[m]
      /\ try'[n] # None => try'[n] = try[n]
  BY <1>0 DEF CallTypes, LogTypes
<1>4. ~Coming(n)'
  BY <1>0 DEF Coming, Trying
<1>5. \A m \in Node \ {n} : /\ version'[m] = version[m]
                            /\ master'[m] = master[m]
                            /\ remains'[m] = remains[m]
  BY <1>2 DEF masterVars, MasterTypes
<1>6. \/ UNCHANGED masterVars
      \/ /\ val \in MasterOp
         /\ val.version = MasterLog(log, inst).version
         /\ MasterLog(log, inst + 1).master = val.node
         /\ version'[n] = inst /\ master'[n] = val.node
         /\ \E left \in 0 .. Lease :
               /\ remains'[n] = NewLease(n, val, left)
               /\ IF commit[n] # None /\ commit[n].value = val
                  THEN left = try[n].left ELSE left = 0
  BY <1>2 DEF MasterTypes
<1> SUFFICES ASSUME NEW x \in Node, NEW v \in Int, NEW r \in Int,
                    Claim(x, v, r)', ~DisownedAt(x, v)'
             PROVE  Alone(x, v, r)'
  BY DEF LeaseInv
<1>7. Claim(x, v, r)
  <2>1. CASE x # n
    BY <1>0, <1>3, <1>5, <2>1, ClaimKept
  <2>2. CASE x = n
    <3>1. CASE UNCHANGED masterVars
      BY <1>0, <1>4, <2>2, <3>1, ClaimKept DEF masterVars
    <3>2. CASE ~UNCHANGED masterVars
      <4>1. master'[n] = n /\ version'[n] = v /\ remains'[n] = r /\ r > 0
        BY <1>4, <2>2 DEF Claim
      <4>2. v = inst /\ val.node = n
        BY <1>6, <3>2, <4>1
      <4>3. /\ commit[n] # None /\ commit[n].value = val
            /\ try[n].left = r
        BY <1>6, <3>2, <4>1, <4>2 DEF NewLease
      <4>4. commit[n].by = "mgr"
        <5>1. val \in MasterOp
          BY <1>6, <3>2
        <5>2. val \notin SystemOp
          BY <5>1 DEF MasterOp, SystemOp
        <5> QED
          BY <4>3, <5>2, MineIsTheCalls DEF CallInv
      <4>5. val.version = MasterLog(log, inst).version /\ version[n] < inst
        BY <1>2, <3>2
      <4> QED
        BY <1>0, <1>1, <2>2, <4>1, <4>2, <4>3, <4>4, <4>5
        DEF Claim, Coming, Trying
    <3> QED
      BY <3>1, <3>2
  <2> QED
    BY <2>1, <2>2
<1>8. Alone(x, v, r)
  BY <1>0, <1>7, AloneBefore
<1>9. n # x =>
        \/ /\ version'[n] = version[n] /\ master'[n] = master[n]
           /\ remains'[n] = remains[n]
        \/ version'[n] >= v => /\ master'[n] = x
                               /\ r + Margin <= remains'[n] + lag
  <2> SUFFICES ASSUME n # x, ~UNCHANGED masterVars, version'[n] >= v
               PROVE  /\ master'[n] = x
                      /\ r + Margin <= remains'[n] + lag
    BY DEF masterVars
  <2>1. inst >= v
    BY <1>6
  <2>2. inst + 1 \in v + 1 .. Len(log)
    BY <1>0, <1>1, <2>1 DEF Alone
  <2>3. MasterLog(log, inst + 1).master = x
    BY <1>8, <2>2 DEF Alone
  <2>4. master'[n] = x /\ val.node = x
    BY <1>6, <2>3
  <2>5. remains'[n] = Lease
    BY <1>6, <2>4 DEF NewLease
  <2>6. r <= Lease - Margin /\ lag \in Nat
    BY <1>8, MasterAssumption DEF Alone, OwnLease, CallTypes
  <2> QED
    BY <2>4, <2>5, <2>6, MasterAssumption
<1> QED
  BY <1>0, <1>3, <1>5, <1>8, <1>9, AloneKept

(* The versions that are sent are numbers.                                 *)
LEMMA SentVersions ==
  ASSUME SentTypes PROVE \A m \in sent : m.master # None => m.master.version \in Int
BY DEF SentTypes, MasterCheckpoint

(* Init and UpdateByCheckpoint: a node that takes the variables of v or    *)
(* later has the master of the log, and waits for the whole lease; itself  *)
(* it does not become the master.                                          *)
LEMMA TakeVariablesLease ==
  ASSUME IInv, MemoryInv, LeaseInv, NEW n \in Node,
         NEW cp \in MasterCheckpoint, TakeVariables(n, cp),
         cp.version # NoVersion => Whole(cp.master, cp.version, cp.lease),
         cp.version \in NoVersion .. Len(log) - 1, cp.version >= version[n],
         UNCHANGED <<log, offered, sent, lag>>,
         \A m \in Node \ {n} : /\ try'[m] = try[m]
                               /\ commit'[m] = commit[m]
                               /\ executed'[m] = executed[m],
         \/ UNCHANGED <<try, commit, executed>>
         \/ try'[n] = None /\ commit'[n] = None
  PROVE  LeaseInv'
<1> USE DEF IInv, StateTypeOK
<1>1. /\ version'[n] = cp.version
      /\ master'[n] = IF cp.master = n THEN None ELSE cp.master
      /\ remains'[n] = IF cp.master = n THEN 0 ELSE cp.lease
      /\ \A m \in Node \ {n} : /\ version'[m] = version[m]
                               /\ master'[m] = master[m]
                               /\ remains'[m] = remains[m]
  BY DEF TakeVariables, MasterTypes
<1> SUFFICES ASSUME NEW x \in Node, NEW v \in Int, NEW r \in Int,
                    Claim(x, v, r)', ~DisownedAt(x, v)'
             PROVE  Alone(x, v, r)'
  BY DEF LeaseInv
<1>2. Claim(x, v, r)
  <2>1. CASE x # n
    BY <1>1, <2>1, ClaimKept
  <2>2. CASE x = n
    <3>1. master'[n] # n
      BY <1>1, NodesAssumption
    <3>2. Coming(x)' /\ executed'[x] = v /\ try'[x].left = r /\ r > 0
      BY <2>2, <3>1 DEF Claim
    <3>3. UNCHANGED <<try, commit, executed>>
      BY <2>2, <3>2 DEF Coming, Trying
    <3> QED
      <4>1. executed[n] \in Int /\ version[n] \in Int /\ cp.version \in Int
        BY DEF LogTypes, MasterTypes, MasterCheckpoint
      <4>2. version[n] < executed[n]
        BY <1>1, <2>2, <3>2, <3>3, <4>1 DEF Coming
      <4> QED
        BY <2>2, <3>2, <3>3, <4>2 DEF Claim, Coming, Trying
  <2> QED
    BY <2>1, <2>2
<1>3. Alone(x, v, r)
  BY <1>2, AloneBefore
<1>4. n # x /\ version'[n] >= v
        => master'[n] = x /\ r + Margin <= remains'[n] + lag
  <2> SUFFICES ASSUME n # x, cp.version >= v
               PROVE  master'[n] = x /\ r + Margin <= remains'[n] + lag
    BY <1>1
  <2>1. v \in Nat /\ Len(log) \in Nat /\ cp.version \in Int
    BY <1>3 DEF Alone, LogTypes, MasterCheckpoint
  <2>2. cp.version # NoVersion /\ cp.version + 1 \in v + 1 .. Len(log)
    BY <2>1 DEF NoVersion
  <2>3. cp.master = x /\ cp.lease = Lease
    <3>1. MasterLog(log, cp.version + 1).master = x
      BY <1>3, <2>2 DEF Alone
    <3>2. ~DisownedAt(x, cp.version)
      BY <2>1, SentVersions DEF DisownedAt
    <3>3. ~Lost(x, cp.version)
      <4>1. version[x] \in Int
        BY DEF MasterTypes
      <4>2. \/ master[x] = x /\ version[x] = v
            \/ version[x] < v
        BY <1>2 DEF Claim, Coming
      <4> QED
        BY <2>1, <4>1, <4>2 DEF Lost
    <3> QED
      BY <2>2, <3>1, <3>2, <3>3 DEF Whole
  <2>4. master'[n] = x /\ remains'[n] = Lease
    BY <1>1, <2>3
  <2>5. r <= Lease - Margin /\ lag \in Nat
    BY <1>3, MasterAssumption DEF Alone, OwnLease, CallTypes
  <2> QED
    BY <2>4, <2>5, MasterAssumption
<1>5. \A m \in Node \ {x} : try'[m] # None => try'[m] = try[m]
  OBVIOUS
<1> QED
  BY <1>1, <1>3, <1>4, <1>5, AloneKept

(* Restart: RestartMaster takes what was saved.                            *)
LEMMA RestartLease ==
  ASSUME IInv, MemoryInv, LeaseInv, NEW n \in Faulty,
         NEW from \in 0 .. executed[n], Restart(n, from)
  PROVE  LeaseInv'
<1> USE DEF IInv, StateTypeOK
<1>0. n \in Node
  BY ControlAssumption
<1>1. /\ TakeVariables(n, saved[n])
      /\ UNCHANGED <<log, offered, sent, lag>>
      /\ executed' = [executed EXCEPT ![n] = from]
      /\ try' = [try EXCEPT ![n] = None]
      /\ commit' = [commit EXCEPT ![n] = None]
  BY DEF Restart, RestartMaster
<1>2. /\ saved[n] \in MasterCheckpoint /\ saved[n].version = version[n]
      /\ version[n] \in NoVersion .. Len(log) - 1 /\ version[n] \in Int
      /\ version[n] # NoVersion =>
            Whole(saved[n].master, saved[n].version, saved[n].lease)
  BY <1>0 DEF MasterTypes, MasterInv, MasterOf, MemoryInv
<1>3. /\ \A m \in Node \ {n} : /\ try'[m] = try[m]
                               /\ commit'[m] = commit[m]
                               /\ executed'[m] = executed[m]
      /\ try'[n] = None /\ commit'[n] = None
  BY <1>0, <1>1 DEF CallTypes, LogTypes
<1> QED
  BY <1>0, <1>1, <1>2, <1>3, TakeVariablesLease

(* OnSendNowInstanceID: UpdateByCheckpoint takes what was sent.            *)
LEMMA OnSendNowInstanceIDLease ==
  ASSUME IInv, MemoryInv, LeaseInv, NEW m \in sent, OnSendNowInstanceID(m)
  PROVE  LeaseInv'
<1> USE DEF IInv, StateTypeOK
<1>1. UNCHANGED <<log, offered, executed, try, commit, sent, lag>>
  BY DEF OnSendNowInstanceID, ctlVars
<1>2. CASE UNCHANGED masterVars
  BY <1>1, <1>2, LeaseKept
<1>3. CASE /\ m.master # None /\ TakeVariables(m.to, m.master)
           /\ version[m.to] = NoVersion \/ m.master.version > version[m.to]
  <2>1. /\ m.to \in Node /\ m.master \in MasterCheckpoint
        /\ Whole(m.master.master, m.master.version, m.master.lease)
        /\ m.master.version \in NoVersion .. Len(log) - 1
    BY <1>3 DEF SentTypes, SentInv, MasterOf, MemoryInv
  <2>2. m.master.version >= version[m.to]
    BY <1>3, <2>1 DEF MasterTypes, NoVersion
  <2> QED
    BY <1>1, <1>3, <2>1, <2>2, TakeVariablesLease
<1> QED
  BY <1>2, <1>3 DEF OnSendNowInstanceID, UpdateByCheckpoint
(* Decide: a value takes effect if its proposer had read the last version; *)
(* one of x is what it waits for, others of another node are too old.      *)
LEMMA DecideLease ==
  ASSUME IInv, TryInv, LeaseInv, NEW val \in offered, Decide(val)
  PROVE  LeaseInv'
<1> USE DEF IInv, StateTypeOK
<1>0. val \in Value
  BY SidsTyped
<1>1. /\ UNCHANGED <<masterVars, executed, try, commit, sent, lag>>
      /\ offered' = {} /\ log' = Append(log, val)
  BY DEF Decide
<1>2. /\ Len(log) \in Nat /\ Len(log') = Len(log) + 1
      /\ \A i \in 1 .. Len(log) : log'[i] = log[i]
      /\ log'[Len(log) + 1] = val
      /\ \A k \in 0 .. Len(log) : MasterLog(log', k) = MasterLog(log, k)
  BY <1>0, <1>1, LogGrows
<1>3. MasterLog(log', Len(log) + 1) =
         IF val.sm = "master" /\ val.version = MasterLog(log, Len(log)).version
         THEN [master |-> val.node, version |-> Len(log)]
         ELSE MasterLog(log, Len(log))
  BY <1>2, MasterStep
<1>4. \A m \in Node : /\ version[m] \in Int /\ version[m] < Len(log)
                      /\ executed[m] \in Nat /\ executed[m] <= Len(log)
                      /\ try[m] # None => /\ try[m].op.version < Len(log)
                                          /\ try[m].left \in 0 .. OwnLease
  BY <1>2 DEF MasterInv, MasterOf, NoVersion, MasterTypes, LogTypes, CallTypes,
              CallInv, CommitInv
<1> SUFFICES ASSUME NEW x \in Node, NEW v \in Int, NEW r \in Int,
                    Claim(x, v, r)', ~DisownedAt(x, v)'
             PROVE  Alone(x, v, r)'
  BY DEF LeaseInv
<1>5. CASE Claim(x, v, r)
  <2>1. Alone(x, v, r)
    BY <1>1, <1>5, AloneBefore
  <2>2. /\ v \in Nat /\ v < Len(log)
        /\ MasterLog(log, v + 1).version = v
    BY <1>5, <2>1, ClaimPlace
  <2>3. MasterLog(log, Len(log)).version >= v
        /\ MasterLog(log, Len(log)).version \in Int
    BY <1>2, <2>2, MasterGrows, MasterSince
  <2>4. MasterLog(log', Len(log) + 1).master = x
    <3>1. MasterLog(log, Len(log)).master = x
      BY <1>2, <2>1, <2>2 DEF Alone
    <3>2. CASE /\ val.sm = "master"
               /\ val.version = MasterLog(log, Len(log)).version
      <4>1. val.node = x
        BY <2>1, <2>2, <2>3, <3>2 DEF Alone
      <4> QED
        BY <1>3, <3>2, <4>1
    <3> QED
      BY <1>3, <3>1, <3>2
  <2>5. \A k \in v + 1 .. Len(log') : MasterLog(log', k).master = x
    <3> SUFFICES ASSUME NEW k \in v + 1 .. Len(log')
                 PROVE MasterLog(log', k).master = x
      OBVIOUS
    <3>1. CASE k <= Len(log)
      BY <1>2, <2>1, <2>2, <3>1 DEF Alone
    <3>2. CASE k = Len(log) + 1
      BY <2>4, <3>2
    <3> QED
      BY <1>2, <2>2, <3>1, <3>2
  <2> QED
    BY <1>1, <1>2, <2>1, <2>2, <2>5 DEF Alone, masterVars
<1>6. CASE ~Claim(x, v, r)
  <2>1. /\ Coming(x)' /\ ~Coming(x)
        /\ executed[x] = v /\ try[x].left = r /\ r > 0
    BY <1>1, <1>6 DEF Claim, masterVars
  <2>2. /\ Trying(x) /\ executed[x] < Len(log')
        /\ commit[x].value = log'[executed[x] + 1]
        /\ commit[x].value.version = MasterLog(log', executed[x]).version
    BY <1>1, <2>1 DEF Coming, Trying
  <2>3. executed[x] = Len(log)
    <3> SUFFICES ASSUME executed[x] < Len(log) PROVE FALSE
      BY <1>4
    <3>1. /\ log'[executed[x] + 1] = log[executed[x] + 1]
          /\ MasterLog(log', executed[x]) = MasterLog(log, executed[x])
      BY <1>2, <1>4
    <3>2. version[x] < executed[x]
      BY <1>1, <2>1 DEF Coming, masterVars
    <3> QED
      BY <2>1, <2>2, <3>1, <3>2 DEF Coming
  <2>4. /\ commit[x].value = val
        /\ val.version = MasterLog(log, Len(log)).version
    BY <1>2, <2>2, <2>3
  <2>5. val.sm = "master" /\ val.node = x /\ try[x] # None
    BY <2>2, <2>4 DEF Trying, CallInv, CommitInv, TryInv, TryTrue
  <2>6. MasterLog(log', Len(log) + 1).master = x
    BY <1>3, <2>4, <2>5
  <2>7. r \in 1 .. OwnLease /\ v \in 0 .. Len(log') - 1 /\ v = Len(log)
    <3>1. OwnLease \in Nat
      BY MasterAssumption DEF OwnLease
    <3> QED
      BY <1>2, <1>4, <2>1, <2>3, <2>5, <3>1
  <2>8. \A k \in v + 1 .. Len(log') : k = Len(log) + 1
    BY <1>2, <2>7
  <2> QED
    BY <1>1, <1>4, <2>6, <2>7, <2>8 DEF Alone, masterVars
<1> QED
  BY <1>5, <1>6

(* Tick: a tick the clock of x misses is one less of the margin.           *)
LEMMA TickLease ==
  ASSUME IInv, LeaseInv, NEW late, Tick(late) PROVE LeaseInv'
<1> USE DEF IInv, StateTypeOK
<1>1. /\ remains' = [n \in Node |-> IF n \in Node \ late /\ remains[n] > 0
                                    THEN remains[n] - 1 ELSE remains[n]]
      /\ UNCHANGED <<master, version, log, offered, executed, commit, sent>>
      /\ lag' = IF late = {} THEN lag ELSE lag + 1
  BY DEF Tick, LeaseTick
<1>2. \A n \in Node :
         /\ try'[n] # None <=> try[n] # None
         /\ try[n] # None =>
               /\ try'[n].op = try[n].op
               /\ try'[n].left = IF n \notin late /\ try[n].left > 0
                                 THEN try[n].left - 1 ELSE try[n].left
  BY TickRuns
<1>3. \A n \in Node : /\ remains[n] \in Nat /\ lag \in Nat
                      /\ try[n] # None => try[n].left \in Nat
  <2>1. OwnLease \in Nat
    BY MasterAssumption DEF OwnLease
  <2> QED
    BY <2>1, MasterAssumption DEF MasterTypes, CallTypes
<1> SUFFICES ASSUME NEW x \in Node, NEW v \in Int, NEW r \in Int,
                    Claim(x, v, r)', ~DisownedAt(x, v)'
             PROVE  Alone(x, v, r)'
  BY DEF LeaseInv
<1>4. PICK s \in Int : /\ s = IF x \in late THEN r ELSE r + 1
                       /\ r > 0 /\ Claim(x, v, s)
  <2>1. r > 0
    BY DEF Claim
  <2>2. CASE master'[x] = x /\ version'[x] = v /\ remains'[x] = r
    <3>1. CASE x \in late
      BY <1>1, <2>1, <2>2, <3>1 DEF Claim
    <3>2. CASE x \notin late
      <4>1. remains[x] = r + 1
        BY <1>1, <1>3, <2>1, <2>2, <3>2
      <4> QED
        BY <1>1, <2>1, <2>2, <3>2, <4>1 DEF Claim
    <3> QED
      BY <3>1, <3>2
  <2>3. CASE Coming(x)' /\ executed'[x] = v /\ try'[x].left = r
    <3>1. Coming(x) /\ executed[x] = v
      BY <1>1, <2>3 DEF Coming, Trying
    <3>2. try[x] # None
      BY <3>1 DEF Coming, Trying, CallInv, CommitInv
    <3>3. try[x].left = IF x \in late THEN r ELSE r + 1
      BY <1>2, <1>3, <2>1, <2>3, <3>2
    <3> QED
      BY <2>1, <3>1, <3>3 DEF Claim
  <2> QED
    BY <2>2, <2>3 DEF Claim
<1>5. Alone(x, v, s)
  BY <1>1, <1>4, AloneBefore
<1>6. r \in 1 .. OwnLease
  <2>1. OwnLease \in Nat /\ s \in 1 .. OwnLease
    BY <1>5, MasterAssumption DEF OwnLease, Alone
  <2> QED
    BY <1>4, <2>1
<1>7. ASSUME NEW m \in Node \ {x}, version[m] >= v
      PROVE  master[m] = x /\ r + Margin <= remains'[m] + lag'
  <2>1. master[m] = x /\ s + Margin <= remains[m] + lag
    BY <1>5, <1>7 DEF Alone
  <2>2. remains'[m] \in Nat /\ remains'[m] >= remains[m] - 1
    BY <1>1, <1>3
  <2>3. CASE x \in late
    <3>1. lag' = lag + 1
      BY <1>1, <2>3
    <3> QED
      BY <1>3, <1>4, <2>1, <2>2, <2>3, <3>1, MasterAssumption
  <2>4. CASE x \notin late
    <3>1. lag' >= lag /\ lag' \in Nat
      BY <1>1, <1>3
    <3> QED
      BY <1>3, <1>4, <2>1, <2>2, <2>4, <3>1, MasterAssumption
  <2> QED
    BY <2>3, <2>4
<1>8. \A m \in Node \ {x} : try'[m] # None => try'[m].op.version < v
  BY <1>2, <1>5 DEF Alone
<1> QED
  BY <1>1, <1>5, <1>6, <1>7, <1>8 DEF Alone

(* Every step.                                                             *)
LEMMA NextLease ==
  ASSUME IInv, IInv', TryInv, MemoryInv, LeaseInv, [Next]_vars
  PROVE  LeaseInv'
<1>1. ASSUME NEW n \in Candidates, TryBeMaster(n) PROVE LeaseInv'
  BY <1>1, TryBeMasterLease
<1>2. ASSUME NEW c \in Change, ReadVersion(c.at, c) PROVE LeaseInv'
  BY <1>2, LeaseKept DEF ReadVersion
<1>3. ASSUME NEW n \in Node, ReadMembers(n) PROVE LeaseInv'
  BY <1>3, LeaseKept DEF ReadMembers
<1>4. ASSUME NEW n \in Node, NEW by \in {"mgr", "admin"}, CheckNewValue(n, by)
      PROVE LeaseInv'
  BY <1>4, CheckNewValueLease
<1>5. ASSUME NEW n \in Node, ExecuteNext(n) PROVE LeaseInv'
  BY <1>5, ExecuteNextLease
<1>6. ASSUME NEW n \in Faulty, CommitFails(n) PROVE LeaseInv'
  BY <1>6, CommitFailsLease
<1>7. ASSUME NEW n \in Faulty, NEW from \in 0 .. executed[n], Restart(n, from)
      PROVE LeaseInv'
  BY <1>7, RestartLease
<1>8. ASSUME NEW n \in Senders, NEW to \in Lagging, SendNowInstanceID(n, to)
      PROVE LeaseInv'
  BY <1>8, LeaseKept DEF SendNowInstanceID
<1>9. ASSUME NEW m \in sent, OnSendNowInstanceID(m) PROVE LeaseInv'
  BY <1>9, OnSendNowInstanceIDLease
<1>10. ASSUME NEW v \in offered, Decide(v) PROVE LeaseInv'
  BY <1>10, DecideLease
<1>11. ASSUME NEW late, Tick(late) PROVE LeaseInv'
  BY <1>11, TickLease
<1>12. CASE UNCHANGED vars
  BY <1>12, LeaseKept DEF vars, ctlVars
<1> QED
  BY <1>1, <1>2, <1>3, <1>4, <1>5, <1>6, <1>7, <1>8, <1>9, <1>10, <1>11,
     <1>12 DEF Next
-----------------------------------------------------------------------------
(* The master.                                                             *)

(* At first there is no master and no value.                               *)
LEMMA InitMaster == Init => MInv
<1> SUFFICES ASSUME Init PROVE MInv
  OBVIOUS
<1>1. /\ Len(log) = 0 /\ offered = {} /\ sent = {} /\ lag = 0
      /\ \A n \in Node : /\ try[n] = None /\ commit[n] = None
                         /\ master[n] = None /\ version[n] = NoVersion
  BY DEF Init, MasterInit
<1>2. TryInv /\ IssuedInv
  BY <1>1 DEF TryInv, TryTrue, Trying, IssuedInv
<1>3. MemoryInv
  BY <1>1, MasterAssumption DEF MemoryInv
<1>4. LeaseInv
  BY <1>1, NodesAssumption DEF LeaseInv, Claim, Coming, Trying
<1> QED
  BY <1>2, <1>3, <1>4, InitInv DEF MInv

(* Of two nodes that count a lease, the one that has the later version     *)
(* would know the other as the master.                                     *)
LEMMA OneCounts == MInv => OneMaster
<1> SUFFICES ASSUME MInv PROVE OneMaster
  OBVIOUS
<1> USE DEF MInv, IInv, StateTypeOK
<1> SUFFICES ASSUME NEW m \in Node, NEW n \in Node,
                    IsIMMaster(m), IsIMMaster(n), m # n,
                    ~Disowned(m), ~Disowned(n)
             PROVE  FALSE
  BY DEF OneMaster
<1>1. /\ master[m] = m /\ master[n] = n
      /\ remains[m] \in Int /\ remains[n] \in Int
      /\ remains[m] > 0 /\ remains[n] > 0
      /\ version[m] \in Int /\ version[n] \in Int
  BY NodesAssumption, MasterAssumption
  DEF IsIMMaster, GetMaster, MasterTypes
<1>2. ~DisownedAt(m, version[m]) /\ ~DisownedAt(n, version[n])
  BY DEF Disowned, DisownedAt
<1>3. /\ Alone(m, version[m], remains[m])
      /\ Alone(n, version[n], remains[n])
  BY <1>1, <1>2 DEF LeaseInv, Claim
<1>4. version[n] < version[m] /\ version[m] < version[n]
  BY <1>1, <1>3 DEF Alone
<1> QED
  BY <1>1, <1>4

(* MasterStateMachine and MasterMgr: no two nodes hold themselves to be    *)
(* the master at one time, whatever is proposed, lost, restarted or sent,  *)
(* by nodes that have restarted too, if the clocks of a lease differ by no *)
(* more than the margin a master takes off; unless a checkpoint with the   *)
(* lease of one of them, of the election it counts or of a later one, has  *)
(* been sent with the length 0 (Disowned: Init does not set m_iLeaseTime,  *)
(* master_sm.cpp, and LearnMaster is the only one that does).              *)
THEOREM OneAtATime ==
  ASSUME ClocksWithinMargin PROVE Spec => []OneMaster
<1>1. MInv /\ [Next]_vars => MInv'
  <2> SUFFICES ASSUME MInv, [Next]_vars PROVE MInv'
    OBVIOUS
  <2>1. IInv'
    BY NextInv DEF MInv
  <2>2. TryInv' /\ IssuedInv'
    BY NextTries DEF MInv
  <2>3. MemoryInv'
    BY <2>1, NextMemory DEF MInv, IInv, StateTypeOK
  <2>4. LeaseInv'
    BY <2>1, NextLease DEF MInv
  <2> QED
    BY <2>1, <2>2, <2>3, <2>4 DEF MInv
<1> QED
  BY <1>1, InitMaster, OneCounts, PTL DEF Spec
=============================================================================
