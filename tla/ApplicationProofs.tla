-------------------------- MODULE ApplicationProofs --------------------------
(***************************************************************************)
(* Proofs about one node as an application sees it: the store is what the  *)
(* log says, and users and callers of BatchPropose are told what became of *)
(* their values.                                                           *)
(***************************************************************************)
EXTENDS Application, SequenceTheorems, WellFoundedInduction, TLAPS

-----------------------------------------------------------------------------
(* What the types leave out.                                               *)

OpIds      == (User \cup {Other}) \X Nat
Operations == [id : OpIds, type : {"write", "delete", "read"}, key : Key,
               version : Nat]
Entries    == [sm : {"kv"}, id : OpIds, op : Operations]
                \cup [sm : {"none", "user"}, id : Caller \X Nat, op : {None}]

(* A value is one operation, or what a batch has taken off the queue.      *)
IsKV(v)    == Len(v) = 1 /\ v[1].sm = "kv" /\ v[1] = KVEntry(v[1].op)
IsBatch(v) == v # <<>> /\ \A i \in 1 .. Len(v) : v[i].sm # "kv"
Values     == {v \in Seq(Entries) : IsKV(v) \/ IsBatch(v)}

Records == [value : OpIds \cup {None}, version : Nat, deleted : BOOLEAN]
Stores  == [Key -> Records]
Results == {"OK", "Timeout", "Conflict", "ExecuteFail", "SystemError"}
Places  == [inst : Nat, index : Int]

StoreTypes ==
    /\ db \in Stores /\ unsynced \in Seq(Stores)
    /\ savedCP \in 0 .. executed /\ checkpoint = savedCP
    /\ skipTimes \in 0 .. MaxSkips

BatchTypes ==
    /\ pc \in [Caller -> {"idle", "add", "propose", "wait"}]
    /\ batched \in [Caller -> Nat]
    /\ queue \in Seq(Caller) /\ queueSize \in Nat /\ SizeOf(queue) <= queueSize
    /\ isEnd \in BOOLEAN /\ isStarted \in BOOLEAN
    /\ batcher \in {"new", "loop", "propose", "drain", "ended"}
    /\ request \in [Threads -> Seq(Caller)]
    /\ notified \in [Caller -> Seq(Results)]
    /\ place \in [Caller -> Places]

AppTypes ==
    /\ op \in [User -> Operations \cup {None}]
    /\ puts \in [User \cup {Other} -> Nat]
    /\ log \in Seq(Values)
    /\ executed \in 0 .. Len(log) /\ pos \in Nat
    /\ mine \in User \cup Threads \cup {None} /\ ready \in BOOLEAN
    /\ floating \subseteq Values
    /\ told \subseteq [op : Operations,
                       status : {"SUCC", "VERSION_CONFLICT", "FAIL"}]
    /\ given \subseteq (OpIds \cup (Caller \X Nat)) \X Nat
    /\ ended \subseteq [id : Caller \X Nat, ret : Results, place : Places]
    /\ faults \in Nat

Types == StoreTypes /\ BatchTypes /\ AppTypes

-----------------------------------------------------------------------------
(* Where the value of a caller is: with the caller, in the queue, in one   *)
(* request, or answered; never at two of them.                             *)
Once(s) == \A i, j \in 1 .. Len(s) : i # j => s[i] # s[j]

Requested(c) == \E t \in Threads : c \in Range(request[t])

QueueInv ==
    /\ Once(queue) /\ \A t \in Threads : Once(request[t])
    /\ \A t \in Threads : request[t] = <<>> <=> ~Proposing(t)
    /\ \A t, u \in Threads : t # u => Range(request[t]) \cap Range(request[u]) = {}
    /\ \A c \in Range(queue) : ~Requested(c) /\ notified[c] = <<>>
    /\ \A c \in Caller :
          /\ Len(notified[c]) <= 1
          /\ c \in Range(queue) \/ Requested(c) \/ notified[c] # <<>> =>
                pc[c] \in {"propose", "wait"}
          /\ Requested(c) => notified[c] = <<>>

(* The instance that is executed, and the commit it may be.                *)
ExecInv ==
    /\ IF executed < Len(log) THEN pos < Len(log[executed + 1]) ELSE pos = 0
    /\ mine # None => /\ ready /\ executed + 1 = Len(log)
                      /\ InPropose(mine) /\ log[Len(log)] = Value(mine)

-----------------------------------------------------------------------------
(* The values of callers.  An id stands for one call.                      *)

IdOf(c) == <<c, batched[c]>>
Known   == Range(log) \cup floating

Decided(values, id) == \E v \in values : \E i \in 1 .. Len(v) : v[i].id = id

(* The id of a call that was made, of one that is over.                    *)
Old(calls, id)         == id[2] <= calls[id[1]]
Over(calls, where, id) == Old(calls, id) /\ (id[2] = calls[id[1]] => where[id[1]] = "idle")

(* What a caller that is told OK may rely on, in a log l.                  *)
PlaceTrue(l, handed, id, p) ==
    LET at == IF p.index = Unset THEN 1 ELSE p.index + 1
    IN  /\ p.inst \in 1 .. Len(l)
        /\ at \in 1 .. Len(l[p.inst])
        /\ l[p.inst][at].id = id
        /\ p.index = Unset => Len(l[p.inst]) = 1
        /\ l[p.inst][at].sm # "none" =>
              {g \in handed : g[1] = id} = {<<id, p.inst>>}

OldInv == \A v \in Known : \A i \in 1 .. Len(v) :
              v[i].sm # "kv" => Old(batched, v[i].id)

(* A caller whose value nobody has proposed, and nobody will if it is told.*)
Unproposed(c) == \/ pc[c] = "add" \/ c \in Range(queue)
                 \/ notified[c] = <<"SystemError">>

WaitInv ==
    \A c \in Caller :
        /\ Unproposed(c) => ~Decided(Known, IdOf(c))
        /\ notified[c] = <<"OK">> => PlaceTrue(log, given, IdOf(c), place[c])

EndedInv ==
    \A e \in ended :
        /\ Over(batched, pc, e.id)
        /\ e.ret = "SystemError" => ~Decided(Known, e.id)
        /\ e.ret = "OK" => PlaceTrue(log, given, e.id, e.place)

(* Who was handed its SMCtx has its answer, or the commit is its own.      *)
GivenInv ==
    \A g \in given : g[1][1] \in Caller =>
        /\ Old(batched, g[1])
        /\ \/ Over(batched, pc, g[1])
           \/ notified[g[1][1]] # <<>>
           \/ /\ mine \in Threads /\ g[1][1] \in Range(request[mine])
              /\ g[2] = executed + 1

(* What this attempt has executed of the commit's instance.                *)
DoneInv ==
    mine \in Threads => \A i \in 1 .. pos :
        log[executed + 1][i].sm # "none" =>
            <<log[executed + 1][i].id, executed + 1>> \in given

CallerInv == OldInv /\ WaitInv /\ EndedInv /\ GivenInv /\ DoneInv

-----------------------------------------------------------------------------
(* Wins, for any log l: the operations that win, value by value.           *)

WinsNext(v, k, w) == /\ v[1].sm = "kv" /\ v[1].op.key = k /\ v[1].op.type # "read"
                     /\ v[1].op.version = Len(w)

AfterValue(v, k, w) == IF WinsNext(v, k, w) THEN Append(w, v[1].op) ELSE w

Wins0(l, k, f, n) ==
    f = [i \in 0 .. n |-> IF i = 0 THEN <<>> ELSE AfterValue(l[i], k, f[i - 1])]

WinsIn(l, k, n) == (CHOOSE f : Wins0(l, k, f, n))[n]

(* What the store is: the log up to some instance.                         *)
Reflects(d, l, n) ==
    \A k \in Key :
       /\ d[k].version = Len(WinsIn(l, k, n))
       /\ WinsIn(l, k, n) # <<>> =>
             d[k].deleted = (Last(WinsIn(l, k, n)).type = "delete")

(* An operation carries a version the log had before it.                   *)
HadVersion(o, l, n) == o.version <= Len(WinsIn(l, o.key, n))

VersionsInv ==
    /\ \A i \in 1 .. Len(log) : log[i][1].sm = "kv" =>
          HadVersion(log[i][1].op, log, i - 1)
    /\ \A v \in floating : v[1].sm = "kv" => HadVersion(v[1].op, log, Len(log))
    /\ \A u \in User : op[u] # None /\ mine # u => HadVersion(op[u], log, Len(log))

ReflectInv ==
    /\ \E n \in executed .. Len(log) : Reflects(db, log, n)
    /\ mine # None => Reflects(db, log, executed)
    /\ \A i \in 1 .. Len(unsynced) :
          \E n \in savedCP .. Len(log) : Reflects(unsynced[i], log, n)

-----------------------------------------------------------------------------
(* The operations of users.                                                *)

(* The value is the operation with an id.                                  *)
Has(v, id) == v[1].sm = "kv" /\ v[1].op.id = id

(* What a user has been told, of a log l.                                  *)
TellsTruth(r, l) ==
    LET wins == Range(WinsIn(l, r.op.key, Len(l)))
    IN  /\ r.status = "SUCC" => r.op \in wins
        /\ r.status = "VERSION_CONFLICT" =>
              (\E i \in 1 .. Len(l) : l[i] = <<KVEntry(r.op)>>) /\ r.op \notin wins

(* An id stands for one call.                                              *)
NumberInv ==
    \A v \in Range(log) \cup floating :
        v[1].sm = "kv" => v[1].op.id[2] <= puts[v[1].op.id[1]]

(* A call that runs: its operation is nowhere but in the commit.           *)
CallInv ==
    \A u \in User : op[u] # None =>
        /\ op[u].id = <<u, puts[u]>> /\ op[u].type # "read"
        /\ \A v \in floating : ~Has(v, op[u].id)
        /\ \A i \in 1 .. Len(log) :
              Has(log[i], op[u].id) => mine = u /\ i = Len(log)

(* A call that is over, and decided for good if it was told so.            *)
ToldInv ==
    \A r \in told :
        /\ r.op.id[1] \in User /\ r.op.id[2] <= puts[r.op.id[1]]
        /\ r.op.id[2] = puts[r.op.id[1]] => op[r.op.id[1]] = None
        /\ r.status # "FAIL" => \A v \in floating : ~Has(v, r.op.id)
        /\ TellsTruth(r, log)

UserInv == NumberInv /\ CallInv /\ ToldInv

IInv == /\ Types /\ QueueInv /\ ExecInv /\ CallerInv
        /\ UserInv /\ VersionsInv /\ ReflectInv

-----------------------------------------------------------------------------
(* Induction over the naturals, for sets.                                  *)

Below == {p \in Nat \X Nat : p[1] < p[2]}

LEMMA BelowWellFounded == IsWellFoundedOn(Below, Nat)
<1>1. OpToRel(<, Nat) = Below
  BY DEF OpToRel, Below
<1> QED
  BY <1>1, NatLessThanWellFounded

(* Some number of a set of numbers is the least.                           *)
LEMMA Least ==
  ASSUME NEW T, T \subseteq Nat, T # {}
  PROVE  \E x \in T : \A y \in T : x <= y
<1>1. PICK x \in T : \A y \in T : ~(<<y, x>> \in Below)
  BY BelowWellFounded, WFMin
<1>2. SUFFICES ASSUME NEW y \in T PROVE x <= y
  BY <1>1
<1>3. <<y, x>> \in Nat \X Nat /\ <<y, x>>[1] = y /\ <<y, x>>[2] = x
  OBVIOUS
<1> QED
  BY <1>1, <1>3 DEF Below

(* A set that has 0 and with a number the next has all of them.            *)
LEMMA SetInduction ==
  ASSUME NEW T, T \subseteq Nat, 0 \in T, \A n \in T : n + 1 \in T
  PROVE  T = Nat
<1> SUFFICES ASSUME T # Nat PROVE FALSE
  OBVIOUS
<1> DEFINE U == Nat \ T
<1>1. PICK x \in U : \A y \in U : x <= y
  BY Least
<1>2. x # 0 /\ x - 1 \in Nat /\ x - 1 \notin U
  BY <1>1
<1>3. (x - 1) + 1 \in T
  BY <1>2
<1> QED
  BY <1>1, <1>3

-----------------------------------------------------------------------------
(* The operations that win, value by value, of any log l.                  *)

LEMMA WinsUnfold ==
  ASSUME NEW l, NEW k, NEW f, NEW n \in Nat, Wins0(l, k, f, n)
  PROVE  /\ f[0] = <<>>
         /\ \A i \in 0 .. n : i + 1 <= n => f[i + 1] = AfterValue(l[i + 1], k, f[i])
<1>1. 0 \in 0 .. n
  OBVIOUS
<1>2. f[0] = <<>>
  BY <1>1 DEF Wins0
<1>3. ASSUME NEW i \in 0 .. n, i + 1 <= n PROVE f[i + 1] = AfterValue(l[i + 1], k, f[i])
  <2>1. i + 1 \in 0 .. n /\ i + 1 # 0 /\ (i + 1) - 1 = i
    BY <1>3
  <2>2. f[i + 1] = AfterValue(l[i + 1], k, f[(i + 1) - 1])
    BY <2>1 DEF Wins0
  <2> QED
    BY <2>1, <2>2
<1> QED
  BY <1>2, <1>3

LEMMA WinsExist ==
  ASSUME NEW l, NEW k
  PROVE  \A n \in Nat : \E f : Wins0(l, k, f, n)
<1> DEFINE T == {n \in Nat : \E f : Wins0(l, k, f, n)}
<1>1. 0 \in T
  <2>1. Wins0(l, k, [i \in 0 .. 0 |-> <<>>], 0)
    BY DEF Wins0
  <2> QED
    BY <2>1
<1>2. ASSUME NEW n \in T PROVE n + 1 \in T
  <2>1. PICK f : Wins0(l, k, f, n)
    OBVIOUS
  <2>2. PICK g : g = [i \in 0 .. n + 1 |->
                        IF i <= n THEN f[i] ELSE AfterValue(l[i], k, f[n])]
    OBVIOUS
  <2>3. ASSUME NEW i \in 0 .. n + 1
        PROVE  g[i] = IF i = 0 THEN <<>> ELSE AfterValue(l[i], k, g[i - 1])
    <3>1. CASE i = 0
      <4>1. 0 \in 0 .. n + 1 /\ 0 <= n
        OBVIOUS
      <4>2. g[0] = f[0]
        BY <2>2, <4>1
      <4> QED
        BY <2>1, <3>1, <4>2, WinsUnfold
    <3>2. CASE i # 0 /\ i <= n
      <4>1. i - 1 \in 0 .. n /\ i - 1 \in 0 .. n + 1 /\ i - 1 <= n /\ (i - 1) + 1 = i
        BY <3>2
      <4>2. g[i] = f[i] /\ g[i - 1] = f[i - 1]
        BY <2>2, <3>2, <4>1
      <4>3. f[i] = AfterValue(l[i], k, f[i - 1])
        BY <2>1, <3>2, <4>1 DEF Wins0
      <4> QED
        BY <3>2, <4>2, <4>3
    <3>3. CASE i = n + 1
      <4>1. i - 1 = n /\ n \in 0 .. n + 1 /\ n <= n /\ ~(i <= n) /\ i # 0
        BY <3>3
      <4>2. g[i] = AfterValue(l[i], k, f[n]) /\ g[n] = f[n]
        BY <2>2, <4>1
      <4> QED
        BY <4>1, <4>2
    <3> QED
      BY <3>1, <3>2, <3>3
  <2>4. g = [i \in 0 .. n + 1 |-> g[i]]
    BY <2>2
  <2>5. g = [i \in 0 .. n + 1 |-> IF i = 0 THEN <<>> ELSE AfterValue(l[i], k, g[i - 1])]
    BY <2>3, <2>4
  <2> QED
    BY <2>5 DEF Wins0
<1>3. T = Nat
  BY <1>1, <1>2, SetInduction
<1> QED
  BY <1>3

LEMMA WinsAgree ==
  ASSUME NEW l, NEW m, NEW k, NEW f, NEW g, NEW n \in Nat, NEW j \in 0 .. n,
         Wins0(l, k, f, j), Wins0(m, k, g, n), \A i \in 1 .. j : l[i] = m[i]
  PROVE  f[j] = g[j]
<1> DEFINE T == {i \in Nat : i <= j => f[i] = g[i]}
<1>0. j \in Nat
  OBVIOUS
<1>1. 0 \in T
  BY <1>0, WinsUnfold
<1>2. ASSUME NEW i \in T PROVE i + 1 \in T
  <2>1. CASE i + 1 <= j
    <3>1. f[i] = g[i] /\ l[i + 1] = m[i + 1] /\ i \in 0 .. j /\ i \in 0 .. n /\ i + 1 <= n
      BY <2>1
    <3>2. f[i + 1] = AfterValue(l[i + 1], k, f[i])
      BY <1>0, <2>1, <3>1, WinsUnfold
    <3>3. g[i + 1] = AfterValue(m[i + 1], k, g[i])
      BY <3>1, WinsUnfold
    <3> QED
      BY <3>1, <3>2, <3>3
  <2> QED
    BY <2>1
<1>3. T = Nat
  BY <1>1, <1>2, SetInduction
<1> QED
  BY <1>0, <1>3

LEMMA WinsLast ==
  ASSUME NEW l, NEW m, NEW k, NEW g, NEW n \in Nat, NEW j \in 0 .. n,
         Wins0(m, k, g, n), \A i \in 1 .. j : l[i] = m[i]
  PROVE  WinsIn(l, k, j) = g[j]
<1>1. PICK f : f = CHOOSE h : Wins0(l, k, h, j)
  OBVIOUS
<1>2. j \in Nat
  OBVIOUS
<1>3. Wins0(l, k, f, j)
  BY <1>1, <1>2, WinsExist
<1>4. f[j] = g[j]
  BY <1>3, WinsAgree
<1> QED
  BY <1>1, <1>4 DEF WinsIn

(* One value more.                                                         *)
LEMMA WinsStep ==
  ASSUME NEW l, NEW k
  PROVE  /\ WinsIn(l, k, 0) = <<>>
         /\ \A n \in Nat : WinsIn(l, k, n + 1) = AfterValue(l[n + 1], k, WinsIn(l, k, n))
<1>1. WinsIn(l, k, 0) = <<>>
  <2>1. PICK f : Wins0(l, k, f, 0)
    BY WinsExist
  <2>2. 0 \in 0 .. 0 /\ 0 \in Nat
    OBVIOUS
  <2>3. WinsIn(l, k, 0) = f[0]
    BY <2>1, <2>2, WinsLast
  <2> QED
    BY <2>1, <2>2, <2>3, WinsUnfold
<1>2. ASSUME NEW n \in Nat
      PROVE  WinsIn(l, k, n + 1) = AfterValue(l[n + 1], k, WinsIn(l, k, n))
  <2>1. n + 1 \in Nat /\ n + 1 \in 0 .. n + 1 /\ n \in 0 .. n + 1 /\ n + 1 <= n + 1
    OBVIOUS
  <2>2. PICK f : Wins0(l, k, f, n + 1)
    BY <2>1, WinsExist
  <2>3. WinsIn(l, k, n + 1) = f[n + 1] /\ WinsIn(l, k, n) = f[n]
    BY <2>1, <2>2, WinsLast
  <2>4. f[n + 1] = AfterValue(l[n + 1], k, f[n])
    BY <2>1, <2>2, WinsUnfold
  <2> QED
    BY <2>3, <2>4
<1> QED
  BY <1>1, <1>2

(* Who has won depends on the values so far.                               *)
LEMMA WinsPrefix ==
  ASSUME NEW l, NEW m, NEW k, NEW n \in Nat, \A i \in 1 .. n : l[i] = m[i]
  PROVE  WinsIn(l, k, n) = WinsIn(m, k, n)
<1>1. PICK g : Wins0(m, k, g, n)
  BY WinsExist
<1>2. n \in 0 .. n
  OBVIOUS
<1>3. WinsIn(l, k, n) = g[n]
  BY <1>1, <1>2, WinsLast
<1>4. WinsIn(m, k, n) = g[n]
  BY <1>1, <1>2, WinsLast
<1> QED
  BY <1>3, <1>4

LEMMA WinsIsIn ==
  ASSUME NEW k, NEW n
  PROVE  Wins(k, n) = WinsIn(log, k, n) /\ Wins(k, n)' = WinsIn(log', k, n)
<1>1. Wins(k, n) = WinsIn(log, k, n)
  BY DEF Wins, WinsIn, Wins0, AfterValue, WinsNext
<1>2. Wins(k, n)' = WinsIn(log', k, n)
  BY DEF Wins, WinsIn, Wins0, AfterValue, WinsNext
<1> QED
  BY <1>1, <1>2

-----------------------------------------------------------------------------
(* Sequences.                                                              *)

LEMMA Appended ==
  ASSUME NEW S, NEW q \in Seq(S), NEW x \in S
  PROVE  /\ Append(q, x) \in Seq(S) /\ Len(Append(q, x)) = Len(q) + 1 /\ Len(q) \in Nat
         /\ \A i \in 1 .. Len(q) : Append(q, x)[i] = q[i]
         /\ Append(q, x)[Len(q) + 1] = x /\ Append(q, x) # <<>>
         /\ Range(Append(q, x)) = Range(q) \union {x}
<1>1. /\ Append(q, x) \in Seq(S) /\ Len(Append(q, x)) = Len(q) + 1 /\ Len(q) \in Nat
      /\ \A i \in 1 .. Len(q) : Append(q, x)[i] = q[i]
      /\ Append(q, x)[Len(q) + 1] = x /\ Append(q, x) # <<>>
  BY AppendProperties, LenProperties
<1>2. /\ Range(q) = {q[i] : i \in 1 .. Len(q)}
      /\ Range(Append(q, x)) = {Append(q, x)[i] : i \in 1 .. Len(Append(q, x))}
  BY <1>1, RangeEquality
<1>3. ASSUME NEW y \in Range(q) \union {x} PROVE y \in Range(Append(q, x))
  <2>1. CASE y = x
    <3>1. Len(q) + 1 \in 1 .. Len(Append(q, x))
      BY <1>1
    <3> QED
      BY <1>1, <1>2, <2>1, <3>1
  <2>2. CASE y \in Range(q)
    <3>1. PICK i \in 1 .. Len(q) : y = q[i]
      BY <1>2, <2>2
    <3>2. i \in 1 .. Len(Append(q, x)) /\ Append(q, x)[i] = y
      BY <1>1, <3>1
    <3> QED
      BY <1>2, <3>2
  <2> QED
    BY <2>1, <2>2
<1>4. ASSUME NEW y \in Range(Append(q, x)) PROVE y \in Range(q) \union {x}
  <2>1. PICK i \in 1 .. Len(Append(q, x)) : y = Append(q, x)[i]
    BY <1>2
  <2>2. i \in 1 .. Len(q) \/ i = Len(q) + 1
    BY <1>1
  <2> QED
    BY <1>1, <1>2, <2>1, <2>2
<1> QED
  BY <1>1, <1>3, <1>4

LEMMA Ranges ==
  ASSUME NEW S, NEW q \in Seq(S)
  PROVE  /\ Range(q) \subseteq S /\ Len(q) \in Nat
         /\ \A i \in 1 .. Len(q) : q[i] \in Range(q) /\ q[i] \in S
         /\ \A x \in Range(q) : \E i \in 1 .. Len(q) : q[i] = x
         /\ q = <<>> <=> Len(q) = 0
         /\ Range(<<>>) = {} /\ <<>> \in Seq(S)
<1>1. Range(q) = {q[i] : i \in 1 .. Len(q)} /\ Len(q) \in Nat
  BY RangeEquality, LenProperties
<1>2. \A i \in 1 .. Len(q) : q[i] \in S
  BY ElementOfSeq
<1>3. q = <<>> <=> Len(q) = 0
  BY EmptySeq
<1>4. Range(<<>>) = {} /\ <<>> \in Seq(S)
  BY DEF Range
<1> QED
  BY <1>1, <1>2, <1>3, <1>4

(* The first n of a sequence, and those after them.                        *)
LEMMA Cut ==
  ASSUME NEW S, NEW s \in Seq(S), NEW n \in 0 .. Len(s)
  PROVE  /\ SubSeq(s, 1, n) \in Seq(S) /\ Len(SubSeq(s, 1, n)) = n
         /\ \A i \in 1 .. n : SubSeq(s, 1, n)[i] = s[i]
         /\ SubSeq(s, n + 1, Len(s)) \in Seq(S)
         /\ Len(SubSeq(s, n + 1, Len(s))) = Len(s) - n
         /\ \A i \in 1 .. (Len(s) - n) : SubSeq(s, n + 1, Len(s))[i] = s[n + i]
<1>1. Len(s) \in Nat /\ n \in Nat
  BY LenProperties
<1>2. \A i \in 1 .. Len(s) : s[i] \in S
  BY ElementOfSeq
<1>3. /\ SubSeq(s, 1, n) \in Seq(S) /\ Len(SubSeq(s, 1, n)) = n
      /\ \A i \in 1 .. n : SubSeq(s, 1, n)[i] = s[i]
  <2>1. \A i \in 1 .. n : s[i] \in S
    BY <1>1, <1>2
  <2>2. /\ SubSeq(s, 1, n) \in Seq(S)
        /\ Len(SubSeq(s, 1, n)) = IF 1 <= n THEN n - 1 + 1 ELSE 0
        /\ \A i \in 1 .. (n - 1 + 1) : SubSeq(s, 1, n)[i] = s[1 + i - 1]
    BY <1>1, <2>1, SubSeqProperties
  <2> QED
    BY <1>1, <2>2
<1>4. /\ SubSeq(s, n + 1, Len(s)) \in Seq(S)
      /\ Len(SubSeq(s, n + 1, Len(s))) = Len(s) - n
      /\ \A i \in 1 .. (Len(s) - n) : SubSeq(s, n + 1, Len(s))[i] = s[n + i]
  <2>1. \A i \in (n + 1) .. Len(s) : s[i] \in S
    BY <1>1, <1>2
  <2>2. /\ SubSeq(s, n + 1, Len(s)) \in Seq(S)
        /\ Len(SubSeq(s, n + 1, Len(s))) = IF n + 1 <= Len(s) THEN Len(s) - (n + 1) + 1 ELSE 0
        /\ \A i \in 1 .. (Len(s) - (n + 1) + 1) :
              SubSeq(s, n + 1, Len(s))[i] = s[(n + 1) + i - 1]
    BY <1>1, <2>1, SubSeqProperties
  <2> QED
    BY <1>1, <2>2
<1> QED
  BY <1>3, <1>4

LEMMA CutRanges ==
  ASSUME NEW S, NEW s \in Seq(S), NEW n \in 0 .. Len(s)
  PROVE  /\ Range(SubSeq(s, 1, n)) \cup Range(SubSeq(s, n + 1, Len(s))) = Range(s)
         /\ Once(s) => /\ Once(SubSeq(s, 1, n)) /\ Once(SubSeq(s, n + 1, Len(s)))
                       /\ Range(SubSeq(s, 1, n)) \cap Range(SubSeq(s, n + 1, Len(s))) = {}
<1>1. PICK a, b : a = SubSeq(s, 1, n) /\ b = SubSeq(s, n + 1, Len(s))
  OBVIOUS
<1>2. PICK k : k = Len(s) - n
  OBVIOUS
<1>3. Len(s) \in Nat /\ n \in Nat /\ k \in Nat /\ n + k = Len(s)
  BY <1>2, LenProperties
<1>4. /\ a \in Seq(S) /\ Len(a) = n /\ \A i \in 1 .. n : a[i] = s[i]
      /\ b \in Seq(S) /\ Len(b) = k /\ \A i \in 1 .. k : b[i] = s[n + i]
  BY <1>1, <1>2, Cut
<1>5. /\ \A i \in 1 .. n : i \in 1 .. Len(s)
      /\ \A i \in 1 .. k : n + i \in 1 .. Len(s)
      /\ \A i \in 1 .. Len(s) : i \in 1 .. n \/ (i - n \in 1 .. k /\ n + (i - n) = i)
  BY <1>3
<1>6. /\ Range(a) = {a[i] : i \in 1 .. n} /\ Range(b) = {b[i] : i \in 1 .. k}
      /\ Range(s) = {s[i] : i \in 1 .. Len(s)}
  <2>1. Range(a) = {a[i] : i \in 1 .. Len(a)}
    BY <1>4, RangeEquality
  <2>2. Range(b) = {b[i] : i \in 1 .. Len(b)}
    BY <1>4, RangeEquality
  <2>3. Range(s) = {s[i] : i \in 1 .. Len(s)}
    BY RangeEquality
  <2>4. Len(a) = n /\ Len(b) = k
    BY <1>4
  <2> QED
    BY <2>1, <2>2, <2>3, <2>4
<1>7. Range(a) \cup Range(b) = Range(s)
  <2>1. ASSUME NEW x \in Range(s) PROVE x \in Range(a) \cup Range(b)
    <3>1. PICK i \in 1 .. Len(s) : x = s[i]
      BY <1>6
    <3>2. CASE i \in 1 .. n
      BY <1>4, <1>6, <3>1, <3>2
    <3>3. CASE i - n \in 1 .. k /\ n + (i - n) = i
      <4>1. b[i - n] = x
        BY <1>4, <3>1, <3>3
      <4> QED
        BY <1>6, <3>3, <4>1
    <3> QED
      BY <1>5, <3>2, <3>3
  <2>2. ASSUME NEW x \in Range(a) PROVE x \in Range(s)
    BY <1>4, <1>5, <1>6
  <2>3. ASSUME NEW x \in Range(b) PROVE x \in Range(s)
    BY <1>4, <1>5, <1>6
  <2> QED
    BY <2>1, <2>2, <2>3
<1>8. ASSUME Once(s) PROVE Once(a) /\ Once(b) /\ Range(a) \cap Range(b) = {}
  <2>1. \A i, j \in 1 .. Len(s) : i # j => s[i] # s[j]
    BY <1>8 DEF Once
  <2>2. ASSUME NEW i \in 1 .. n, NEW j \in 1 .. n, i # j PROVE a[i] # a[j]
    BY <1>4, <1>5, <2>1, <2>2
  <2>3. ASSUME NEW i \in 1 .. k, NEW j \in 1 .. k, i # j PROVE b[i] # b[j]
    <3>1. n + i # n + j
      BY <1>3, <2>3
    <3>2. n + i \in 1 .. Len(s) /\ n + j \in 1 .. Len(s)
      BY <1>5
    <3>3. s[n + i] # s[n + j]
      BY <2>1, <3>1, <3>2
    <3> QED
      BY <1>4, <3>3
  <2>4. ASSUME NEW i \in 1 .. n, NEW j \in 1 .. k PROVE a[i] # b[j]
    <3>1. i # n + j
      BY <1>3
    <3>2. i \in 1 .. Len(s) /\ n + j \in 1 .. Len(s)
      BY <1>5
    <3>3. s[i] # s[n + j]
      BY <2>1, <3>1, <3>2
    <3> QED
      BY <1>4, <3>3
  <2>5. Range(a) \cap Range(b) = {}
    BY <1>6, <2>4
  <2> QED
    BY <1>4, <2>2, <2>3, <2>5 DEF Once
<1> QED
  BY <1>1, <1>7, <1>8

-----------------------------------------------------------------------------
(* The size of a queue.                                                    *)

Sum0(q, f, m) == f = [n \in 0 .. m |-> IF n = 0 THEN 0 ELSE f[n - 1] + Size(q[n])]

SizeTo(q, m) == (CHOOSE f : Sum0(q, f, m))[m]

LEMMA SumUnfold ==
  ASSUME NEW q, NEW f, NEW m \in Nat, Sum0(q, f, m)
  PROVE  /\ f[0] = 0
         /\ \A i \in 0 .. m : i + 1 <= m => f[i + 1] = f[i] + Size(q[i + 1])
<1>1. 0 \in 0 .. m
  OBVIOUS
<1>2. f[0] = 0
  BY <1>1 DEF Sum0
<1>3. ASSUME NEW i \in 0 .. m, i + 1 <= m PROVE f[i + 1] = f[i] + Size(q[i + 1])
  <2>1. i + 1 \in 0 .. m /\ i + 1 # 0 /\ (i + 1) - 1 = i
    BY <1>3
  <2>2. f[i + 1] = f[(i + 1) - 1] + Size(q[i + 1])
    BY <2>1 DEF Sum0
  <2> QED
    BY <2>1, <2>2
<1> QED
  BY <1>2, <1>3

LEMMA SumExists ==
  ASSUME NEW q
  PROVE  \A m \in Nat : \E f : Sum0(q, f, m)
<1> DEFINE T == {m \in Nat : \E f : Sum0(q, f, m)}
<1>1. 0 \in T
  <2>1. Sum0(q, [i \in 0 .. 0 |-> 0], 0)
    BY DEF Sum0
  <2> QED
    BY <2>1
<1>2. ASSUME NEW m \in T PROVE m + 1 \in T
  <2>1. PICK f : Sum0(q, f, m)
    OBVIOUS
  <2>2. PICK g : g = [i \in 0 .. m + 1 |-> IF i <= m THEN f[i] ELSE f[m] + Size(q[i])]
    OBVIOUS
  <2>3. ASSUME NEW i \in 0 .. m + 1
        PROVE  g[i] = IF i = 0 THEN 0 ELSE g[i - 1] + Size(q[i])
    <3>1. CASE i = 0
      <4>1. 0 \in 0 .. m + 1 /\ 0 <= m
        OBVIOUS
      <4>2. g[0] = f[0]
        BY <2>2, <4>1
      <4> QED
        BY <2>1, <3>1, <4>2, SumUnfold
    <3>2. CASE i # 0 /\ i <= m
      <4>1. i \in 0 .. m /\ i - 1 \in 0 .. m + 1 /\ i - 1 <= m
        BY <3>2
      <4>2. g[i] = f[i] /\ g[i - 1] = f[i - 1]
        BY <2>2, <3>2, <4>1
      <4>3. f[i] = f[i - 1] + Size(q[i])
        BY <2>1, <3>2, <4>1 DEF Sum0
      <4> QED
        BY <3>2, <4>2, <4>3
    <3>3. CASE i = m + 1
      <4>1. i - 1 = m /\ m \in 0 .. m + 1 /\ m <= m /\ ~(i <= m) /\ i # 0
        BY <3>3
      <4>2. g[i] = f[m] + Size(q[i]) /\ g[m] = f[m]
        BY <2>2, <4>1
      <4> QED
        BY <4>1, <4>2
    <3> QED
      BY <3>1, <3>2, <3>3
  <2>4. g = [i \in 0 .. m + 1 |-> g[i]]
    BY <2>2
  <2>5. g = [i \in 0 .. m + 1 |-> IF i = 0 THEN 0 ELSE g[i - 1] + Size(q[i])]
    BY <2>3, <2>4
  <2> QED
    BY <2>5 DEF Sum0
<1>3. T = Nat
  BY <1>1, <1>2, SetInduction
<1> QED
  BY <1>3

LEMMA SumsAgree ==
  ASSUME NEW p, NEW q, NEW f, NEW g, NEW m \in Nat, NEW j \in 0 .. m,
         Sum0(p, f, j), Sum0(q, g, m), \A n \in 1 .. j : p[n] = q[n]
  PROVE  f[j] = g[j]
<1> DEFINE T == {i \in Nat : i <= j => f[i] = g[i]}
<1>0. j \in Nat
  OBVIOUS
<1>1. 0 \in T
  BY <1>0, SumUnfold
<1>2. ASSUME NEW i \in T PROVE i + 1 \in T
  <2>1. CASE i + 1 <= j
    <3>1. f[i] = g[i] /\ p[i + 1] = q[i + 1] /\ i \in 0 .. j /\ i \in 0 .. m /\ i + 1 <= m
      BY <2>1
    <3>2. f[i + 1] = f[i] + Size(p[i + 1])
      BY <1>0, <2>1, <3>1, SumUnfold
    <3>3. g[i + 1] = g[i] + Size(q[i + 1])
      BY <3>1, SumUnfold
    <3> QED
      BY <3>1, <3>2, <3>3
  <2> QED
    BY <2>1
<1>3. T = Nat
  BY <1>1, <1>2, SetInduction
<1> QED
  BY <1>0, <1>3

LEMMA SumLast ==
  ASSUME NEW p, NEW q, NEW g, NEW m \in Nat, NEW j \in 0 .. m,
         Sum0(q, g, m), \A n \in 1 .. j : p[n] = q[n]
  PROVE  SizeTo(p, j) = g[j]
<1>1. PICK f : f = CHOOSE h : Sum0(p, h, j)
  OBVIOUS
<1>2. j \in Nat
  OBVIOUS
<1>3. Sum0(p, f, j)
  BY <1>1, <1>2, SumExists
<1>4. f[j] = g[j]
  BY <1>3, SumsAgree
<1> QED
  BY <1>1, <1>4 DEF SizeTo

LEMMA SumStep ==
  ASSUME NEW q
  PROVE  /\ SizeTo(q, 0) = 0
         /\ \A n \in Nat : SizeTo(q, n + 1) = SizeTo(q, n) + Size(q[n + 1])
<1>1. SizeTo(q, 0) = 0
  <2>1. PICK f : Sum0(q, f, 0)
    BY SumExists
  <2>2. 0 \in 0 .. 0 /\ 0 \in Nat
    OBVIOUS
  <2>3. SizeTo(q, 0) = f[0]
    BY <2>1, <2>2, SumLast
  <2> QED
    BY <2>1, <2>2, <2>3, SumUnfold
<1>2. ASSUME NEW n \in Nat PROVE SizeTo(q, n + 1) = SizeTo(q, n) + Size(q[n + 1])
  <2>1. n + 1 \in Nat /\ n + 1 \in 0 .. n + 1 /\ n \in 0 .. n + 1 /\ n + 1 <= n + 1
    OBVIOUS
  <2>2. PICK f : Sum0(q, f, n + 1)
    BY <2>1, SumExists
  <2>3. SizeTo(q, n + 1) = f[n + 1] /\ SizeTo(q, n) = f[n]
    BY <2>1, <2>2, SumLast
  <2>4. f[n + 1] = f[n] + Size(q[n + 1])
    BY <2>1, <2>2, SumUnfold
  <2> QED
    BY <2>3, <2>4
<1> QED
  BY <1>1, <1>2

LEMMA SumPrefix ==
  ASSUME NEW p, NEW q, NEW n \in Nat, \A i \in 1 .. n : p[i] = q[i]
  PROVE  SizeTo(p, n) = SizeTo(q, n)
<1>1. PICK g : Sum0(q, g, n)
  BY SumExists
<1>2. n \in 0 .. n
  OBVIOUS
<1>3. SizeTo(p, n) = g[n]
  BY <1>1, <1>2, SumLast
<1>4. SizeTo(q, n) = g[n]
  BY <1>1, <1>2, SumLast
<1> QED
  BY <1>3, <1>4

LEMMA SizeIsSum == \A q : SizeOf(q) = SizeTo(q, Len(q))
BY DEF SizeOf, SizeTo, Sum0

LEMMA SizeNat == \A c : Size(c) \in Nat \ {0}
BY BatchAssumption DEF Size

LEMMA SumNat ==
  ASSUME NEW q
  PROVE  \A n \in Nat : SizeTo(q, n) \in Nat
<1> DEFINE T == {n \in Nat : SizeTo(q, n) \in Nat}
<1>1. 0 \in T
  BY SumStep
<1>2. ASSUME NEW n \in T PROVE n + 1 \in T
  <2>1. SizeTo(q, n + 1) = SizeTo(q, n) + Size(q[n + 1]) /\ SizeTo(q, n) \in Nat
    BY SumStep
  <2> QED
    BY <2>1, SizeNat
<1>3. T = Nat
  BY <1>1, <1>2, SetInduction
<1> QED
  BY <1>3

LEMMA SumParts ==
  ASSUME NEW q, NEW b, NEW n \in Nat, NEW k \in Nat,
         \A i \in 1 .. k : b[i] = q[n + i]
  PROVE  SizeTo(q, n + k) = SizeTo(q, n) + SizeTo(b, k)
<1> DEFINE T == {i \in Nat : i <= k => SizeTo(q, n + i) = SizeTo(q, n) + SizeTo(b, i)}
<1>0. \A i \in Nat : /\ SizeTo(q, i) \in Nat /\ SizeTo(b, i) \in Nat
                     /\ SizeTo(q, i + 1) = SizeTo(q, i) + Size(q[i + 1])
                     /\ SizeTo(b, i + 1) = SizeTo(b, i) + Size(b[i + 1])
  BY SumNat, SumStep
<1>1. 0 \in T
  <2>1. n + 0 = n /\ SizeTo(q, n) \in Nat /\ SizeTo(b, 0) = 0
    BY <1>0, SumStep
  <2> QED
    BY <2>1
<1>2. ASSUME NEW i \in T PROVE i + 1 \in T
  <2>1. CASE i + 1 <= k
    <3>1. SizeTo(q, n + i) = SizeTo(q, n) + SizeTo(b, i) /\ b[i + 1] = q[n + (i + 1)]
      BY <2>1
    <3>2. n + i \in Nat /\ (n + i) + 1 = n + (i + 1)
      OBVIOUS
    <3>3. SizeTo(q, (n + i) + 1) = SizeTo(q, n + i) + Size(q[(n + i) + 1])
      BY <1>0, <3>2
    <3>4. SizeTo(b, i + 1) = SizeTo(b, i) + Size(b[i + 1])
      BY <1>0
    <3>5. /\ SizeTo(q, n) \in Nat /\ SizeTo(b, i) \in Nat /\ Size(b[i + 1]) \in Nat
          /\ Size(q[(n + i) + 1]) = Size(b[i + 1])
      BY <1>0, <3>1, <3>2, SizeNat
    <3>6. SizeTo(q, n + (i + 1)) = SizeTo(q, n) + SizeTo(b, i + 1)
      BY <3>1, <3>2, <3>3, <3>4, <3>5
    <3> QED
      BY <3>6
  <2> QED
    BY <2>1
<1>3. T = Nat
  <2> HIDE DEF T
  <2>1. T \subseteq Nat
    BY DEF T
  <2> QED
    BY <1>1, <1>2, <2>1, SetInduction
<1>4. k \in T
  BY <1>3
<1> QED
  BY <1>4

LEMMA Sizes ==
  ASSUME NEW q \in Seq(Caller)
  PROVE  /\ SizeOf(q) \in Nat /\ SizeOf(<<>>) = 0
         /\ \A c \in Caller : SizeOf(Append(q, c)) = SizeOf(q) + Size(c)
         /\ \A n \in 0 .. Len(q) :
               SizeOf(q) = SizeOf(SubSeq(q, 1, n)) + SizeOf(SubSeq(q, n + 1, Len(q)))
<1>1. Len(q) \in Nat /\ SizeOf(q) = SizeTo(q, Len(q))
  BY LenProperties, SizeIsSum
<1>2. SizeOf(q) \in Nat
  BY <1>1, SumNat
<1>3. SizeOf(<<>>) = 0
  <2>1. PICK e : e = <<>>
    OBVIOUS
  <2>2. Len(e) = 0
    BY <2>1
  <2>3. SizeOf(e) = SizeTo(e, Len(e))
    BY SizeIsSum
  <2>4. SizeTo(e, 0) = 0
    BY SumStep
  <2> QED
    BY <2>1, <2>2, <2>3, <2>4
<1>4. ASSUME NEW c \in Caller PROVE SizeOf(Append(q, c)) = SizeOf(q) + Size(c)
  <2>1. PICK p : p = Append(q, c)
    OBVIOUS
  <2>2. Len(p) = Len(q) + 1 /\ p[Len(q) + 1] = c /\ \A i \in 1 .. Len(q) : p[i] = q[i]
    BY <2>1, AppendProperties
  <2>3. SizeOf(p) = SizeTo(p, Len(q) + 1)
    BY <2>2, SizeIsSum
  <2>4. SizeTo(p, Len(q) + 1) = SizeTo(p, Len(q)) + Size(c)
    BY <1>1, <2>2, SumStep
  <2>5. SizeTo(p, Len(q)) = SizeTo(q, Len(q))
    BY <1>1, <2>2, SumPrefix
  <2> QED
    BY <1>1, <2>1, <2>3, <2>4, <2>5
<1>5. ASSUME NEW n \in 0 .. Len(q)
      PROVE  SizeOf(q) = SizeOf(SubSeq(q, 1, n)) + SizeOf(SubSeq(q, n + 1, Len(q)))
  <2>1. PICK a, b : a = SubSeq(q, 1, n) /\ b = SubSeq(q, n + 1, Len(q))
    OBVIOUS
  <2>2. PICK k : k = Len(q) - n
    OBVIOUS
  <2>3. n \in Nat /\ k \in Nat /\ Len(q) = n + k
    BY <1>1, <2>2
  <2>4. /\ Len(a) = n /\ \A i \in 1 .. n : a[i] = q[i]
        /\ Len(b) = k /\ \A i \in 1 .. k : b[i] = q[n + i]
    BY <2>1, <2>2, Cut
  <2>8. \A i \in 1 .. k : b[i] = q[n + i]
    BY <2>4
  <2>9. n + k \in Nat /\ SizeTo(q, n + k) = SizeTo(q, n) + SizeTo(b, k)
    BY <2>3, <2>8, SumParts
  <2>5. SizeTo(q, Len(q)) = SizeTo(q, n) + SizeTo(b, k)
    BY <2>3, <2>9
  <2>6. SizeTo(a, n) = SizeTo(q, n)
    BY <2>3, <2>4, SumPrefix
  <2>7. SizeOf(a) = SizeTo(a, n) /\ SizeOf(b) = SizeTo(b, k)
    BY <2>4, SizeIsSum
  <2> QED
    BY <1>1, <2>1, <2>5, <2>6, <2>7
<1> QED
  BY <1>2, <1>3, <1>4, <1>5

(* PluckProposal takes some value of a queue that has any.                 *)
LEMMA PluckedSome ==
  ASSUME NEW q \in Seq(Caller)
  PROVE  Plucked(q) \in 0 .. Len(q) /\ (q # <<>> => Plucked(q) >= 1)
<1>1. Len(q) \in Nat /\ (q # <<>> => Len(q) >= 1)
  BY EmptySeq, LenProperties
<1>2. PICK enough : enough = {n \in 1 .. Len(q) : Enough(q, n)}
  OBVIOUS
<1>3. Plucked(q) = IF enough = {} THEN Len(q)
                   ELSE CHOOSE n \in enough : \A m \in enough : n <= m
  BY <1>2 DEF Plucked
<1>4. CASE enough = {}
  BY <1>1, <1>3, <1>4
<1>5. CASE enough # {}
  <2>1. enough \subseteq Nat /\ enough \subseteq 1 .. Len(q)
    BY <1>1, <1>2
  <2>2. \E n \in enough : \A m \in enough : n <= m
    BY <1>5, <2>1, Least
  <2>3. Plucked(q) \in enough
    BY <1>3, <1>5, <2>2
  <2>4. Plucked(q) \in 1 .. Len(q)
    BY <2>1, <2>3
  <2> QED
    BY <1>1, <2>4
<1> QED
  BY <1>4, <1>5

-----------------------------------------------------------------------------
(* Values, operations and logs.                                            *)

LEMMA OperationFacts ==
  ASSUME NEW o \in Operations
  PROVE  /\ o.id \in OpIds /\ o.type \in {"write", "delete", "read"}
         /\ o.key \in Key /\ o.version \in Nat
         /\ o.id[1] \in User \cup {Other} /\ o.id[2] \in Nat
         /\ o.id = <<o.id[1], o.id[2]>>
<1>1. /\ o.id \in OpIds /\ o.type \in {"write", "delete", "read"}
      /\ o.key \in Key /\ o.version \in Nat
  BY DEF Operations
<1> QED
  BY <1>1 DEF OpIds

LEMMA ValueFacts ==
  ASSUME NEW v \in Values
  PROVE  /\ Len(v) \in Nat \ {0} /\ 1 \in 1 .. Len(v) /\ v \in Seq(Entries)
         /\ \A i \in 1 .. Len(v) : v[i] \in Entries /\ v[i].sm \in {"kv", "none", "user"}
         /\ \A i \in 1 .. Len(v) : v[i].sm = "kv" =>
               /\ i = 1 /\ Len(v) = 1 /\ v = <<KVEntry(v[1].op)>>
               /\ v[1].op \in Operations /\ v[1].id = v[1].op.id
         /\ \A i \in 1 .. Len(v) : v[i].sm # "kv" => v[i].id \in Caller \X Nat
<1>1. v \in Seq(Entries) /\ Len(v) \in Nat /\ (IsKV(v) \/ IsBatch(v))
  BY LenProperties DEF Values
<1>2. Len(v) # 0
  BY <1>1, EmptySeq DEF IsKV, IsBatch
<1>3. \A i \in 1 .. Len(v) : v[i] \in Entries
  BY <1>1, ElementOfSeq
<1>4. \A e \in Entries : /\ e.sm \in {"kv", "none", "user"}
                         /\ e.sm = "kv" => e.op \in Operations
                         /\ e.sm # "kv" => e.id \in Caller \X Nat
  BY DEF Entries
<1>5. 1 \in 1 .. Len(v)
  BY <1>1, <1>2
<1>6. ASSUME NEW i \in 1 .. Len(v), v[i].sm = "kv"
      PROVE  /\ i = 1 /\ Len(v) = 1 /\ v = <<KVEntry(v[1].op)>>
             /\ v[1].op \in Operations /\ v[1].id = v[1].op.id
  <2>1. IsKV(v)
    BY <1>1, <1>6 DEF IsBatch
  <2>2. i = 1 /\ Len(v) = 1 /\ v[1].sm = "kv" /\ v[1] = KVEntry(v[1].op)
    BY <2>1 DEF IsKV
  <2>3. v[1].op \in Operations
    BY <1>3, <1>4, <1>5, <2>2
  <2>4. v[1].id = v[1].op.id
    <3>1. \A o : KVEntry(o).id = o.id
      BY DEF KVEntry
    <3> QED
      BY <2>2, <3>1
  <2>5. v = <<KVEntry(v[1].op)>>
    <3>1. PICK x : x = KVEntry(v[1].op)
      OBVIOUS
    <3>2. v = <<x>>
      <4>1. PICK w : w = <<x>>
        OBVIOUS
      <4>2. x \in Entries
        BY <1>3, <1>5, <2>2, <3>1
      <4>3. w \in Seq(Entries) /\ Len(w) = 1 /\ w[1] = x
        BY <4>1, <4>2
      <4>4. \A j \in 1 .. Len(v) : v[j] = w[j]
        BY <2>2, <3>1, <4>3
      <4> QED
        BY <1>1, <2>2, <4>1, <4>3, <4>4, SeqEqual
    <3> QED
      BY <3>1, <3>2
  <2> QED
    BY <2>2, <2>3, <2>4, <2>5
<1> QED
  BY <1>1, <1>2, <1>3, <1>4, <1>5, <1>6

LEMMA LogFacts ==
  ASSUME NEW l \in Seq(Values)
  PROVE  /\ Len(l) \in Nat /\ \A i \in 1 .. Len(l) : l[i] \in Values
         /\ Range(l) = {l[i] : i \in 1 .. Len(l)}
BY LenProperties, ElementOfSeq, RangeEquality

LEMMA WinsTyped ==
  ASSUME NEW l \in Seq(Values), NEW k
  PROVE  \A n \in 0 .. Len(l) : WinsIn(l, k, n) \in Seq(Operations)
<1> DEFINE T == {n \in Nat : n <= Len(l) => WinsIn(l, k, n) \in Seq(Operations)}
<1>1. Len(l) \in Nat
  BY LogFacts
<1>2. 0 \in T
  BY WinsStep, EmptySeq
<1>3. ASSUME NEW n \in T PROVE n + 1 \in T
  <2>1. CASE n + 1 <= Len(l)
    <3>1. WinsIn(l, k, n) \in Seq(Operations) /\ n + 1 \in 1 .. Len(l) /\ n \in Nat
      BY <1>1, <2>1
    <3>2. l[n + 1] \in Values
      BY <3>1, LogFacts
    <3>3. l[n + 1][1].sm = "kv" => l[n + 1][1].op \in Operations
      BY <3>2, ValueFacts
    <3>4. WinsIn(l, k, n + 1) = AfterValue(l[n + 1], k, WinsIn(l, k, n))
      BY <3>1, WinsStep
    <3>5. AfterValue(l[n + 1], k, WinsIn(l, k, n)) \in Seq(Operations)
      BY <3>1, <3>3, AppendProperties DEF AfterValue, WinsNext
    <3> QED
      BY <3>4, <3>5
  <2> QED
    BY <1>1, <2>1
<1>4. T = Nat
  <2> HIDE DEF T
  <2>1. T \subseteq Nat
    BY DEF T
  <2> QED
    BY <1>2, <1>3, <2>1, SetInduction
<1> QED
  BY <1>1, <1>4

(* The next value wins, or nothing changes.                                *)
LEMMA WinsNextLen ==
  ASSUME NEW l \in Seq(Values), NEW k, NEW n \in Nat, n + 1 <= Len(l)
  PROVE  LET a == WinsIn(l, k, n)
             b == WinsIn(l, k, n + 1)
         IN  /\ a \in Seq(Operations) /\ b \in Seq(Operations)
             /\ Len(a) \in Nat /\ Len(b) \in Nat
             /\ Range(a) \subseteq Range(b)
             /\ IF WinsNext(l[n + 1], k, a)
                THEN /\ b = Append(a, l[n + 1][1].op) /\ Len(b) = Len(a) + 1
                     /\ Range(b) = Range(a) \cup {l[n + 1][1].op}
                     /\ b # <<>> /\ Last(b) = l[n + 1][1].op
                ELSE b = a
<1>1. PICK a, b : a = WinsIn(l, k, n) /\ b = WinsIn(l, k, n + 1)
  OBVIOUS
<1>2. Len(l) \in Nat /\ n \in 0 .. Len(l) /\ n + 1 \in 0 .. Len(l) /\ n + 1 \in 1 .. Len(l)
  BY LogFacts
<1>3. a \in Seq(Operations) /\ b \in Seq(Operations) /\ Len(a) \in Nat /\ Len(b) \in Nat
  BY <1>1, <1>2, WinsTyped, LenProperties
<1>4. b = AfterValue(l[n + 1], k, a)
  BY <1>1, WinsStep
<1>5. CASE WinsNext(l[n + 1], k, a)
  <2>1. PICK o : o = l[n + 1][1].op
    OBVIOUS
  <2>2. b = Append(a, o)
    BY <1>4, <1>5, <2>1 DEF AfterValue
  <2>3. l[n + 1] \in Values /\ l[n + 1][1].sm = "kv"
    BY <1>2, <1>5, LogFacts DEF WinsNext
  <2>4. o \in Operations
    BY <2>1, <2>3, ValueFacts
  <2>5. /\ Len(b) = Len(a) + 1 /\ b[Len(a) + 1] = o /\ b # <<>>
        /\ Range(b) = Range(a) \cup {o}
    BY <1>3, <2>2, <2>4, Appended
  <2>6. Last(b) = o
    BY <2>5 DEF Last
  <2> QED
    BY <1>1, <1>3, <1>5, <2>1, <2>2, <2>5, <2>6
<1>6. CASE ~WinsNext(l[n + 1], k, a)
  <2>1. b = a
    BY <1>4, <1>6 DEF AfterValue
  <2> QED
    BY <1>1, <1>3, <1>6, <2>1
<1> QED
  BY <1>5, <1>6

(* Who has won stays.                                                      *)
LEMMA WinsGrow ==
  ASSUME NEW l \in Seq(Values), NEW k, NEW n \in Nat, NEW m \in Nat,
         n <= m, m <= Len(l)
  PROVE  /\ Len(WinsIn(l, k, n)) <= Len(WinsIn(l, k, m))
         /\ Len(WinsIn(l, k, n)) \in Nat /\ Len(WinsIn(l, k, m)) \in Nat
         /\ Range(WinsIn(l, k, n)) \subseteq Range(WinsIn(l, k, m))
<1> DEFINE W(i) == WinsIn(l, k, i)
           T == {i \in Nat : n + i <= Len(l) =>
                   /\ Len(W(n)) <= Len(W(n + i)) /\ Len(W(n)) \in Nat
                   /\ Len(W(n + i)) \in Nat /\ Range(W(n)) \subseteq Range(W(n + i))}
<1>1. Len(l) \in Nat
  BY LogFacts
<1>2. 0 \in T
  <2>1. n \in 0 .. Len(l) /\ n + 0 = n
    BY <1>1
  <2>2. Len(W(n)) \in Nat
    BY <2>1, WinsTyped, LenProperties
  <2> QED
    BY <2>1, <2>2
<1>3. ASSUME NEW i \in T PROVE i + 1 \in T
  <2>1. CASE n + (i + 1) <= Len(l)
    <3>1. n + i \in Nat /\ (n + i) + 1 <= Len(l) /\ (n + i) + 1 = n + (i + 1) /\ n + i <= Len(l)
      BY <1>1, <2>1
    <3>2. /\ Len(W(n)) <= Len(W(n + i)) /\ Len(W(n)) \in Nat
          /\ Len(W(n + i)) \in Nat /\ Range(W(n)) \subseteq Range(W(n + i))
      BY <3>1
    <3>3. /\ Len(W((n + i) + 1)) \in Nat /\ Len(W((n + i) + 1)) >= Len(W(n + i))
          /\ Range(W(n + i)) \subseteq Range(W((n + i) + 1))
      BY <3>1, WinsNextLen
    <3> HIDE DEF W
    <3>4. /\ Len(W(n)) <= Len(W(n + (i + 1))) /\ Len(W(n)) \in Nat
          /\ Len(W(n + (i + 1))) \in Nat /\ Range(W(n)) \subseteq Range(W(n + (i + 1)))
      BY <3>1, <3>2, <3>3
    <3> QED
      BY <3>4
  <2> QED
    BY <1>1, <2>1
<1>4. T = Nat
  <2> HIDE DEF T
  <2>1. T \subseteq Nat
    BY DEF T
  <2> QED
    BY <1>2, <1>3, <2>1, SetInduction
<1>5. PICK i \in Nat : n + i = m
  <2>1. m - n \in Nat /\ n + (m - n) = m
    OBVIOUS
  <2> QED
    BY <2>1
<1>6. /\ Len(W(n)) <= Len(W(n + i)) /\ Len(W(n)) \in Nat
      /\ Len(W(n + i)) \in Nat /\ Range(W(n)) \subseteq Range(W(n + i))
  <2>1. i \in T
    <3> HIDE DEF T
    <3> QED
      BY <1>4
  <2>2. n + i <= Len(l)
    BY <1>5
  <2> QED
    BY <2>1, <2>2
<1> QED
  BY <1>5, <1>6

(* Who has won is an operation of the log.                                 *)
LEMMA WinsSource ==
  ASSUME NEW l \in Seq(Values), NEW k, NEW n \in 0 .. Len(l),
         NEW w \in Range(WinsIn(l, k, n))
  PROVE  \E j \in 1 .. n : l[j][1].sm = "kv" /\ l[j][1].op = w
<1> DEFINE From(i) == \A x \in Range(WinsIn(l, k, i)) :
                         \E j \in 1 .. i : l[j][1].sm = "kv" /\ l[j][1].op = x
           T == {i \in Nat : i <= Len(l) => From(i)}
<1>1. Len(l) \in Nat
  BY LogFacts
<1>2. 0 \in T
  <2>1. Range(WinsIn(l, k, 0)) = {}
    BY WinsStep, Ranges
  <2> QED
    BY <2>1
<1>3. ASSUME NEW i \in T PROVE i + 1 \in T
  <2>1. CASE i + 1 <= Len(l)
    <3>1. i \in Nat /\ From(i)
      BY <1>1, <2>1
    <3>2. Range(WinsIn(l, k, i + 1)) \subseteq Range(WinsIn(l, k, i)) \cup
             (IF WinsNext(l[i + 1], k, WinsIn(l, k, i)) THEN {l[i + 1][1].op} ELSE {})
      BY <2>1, <3>1, WinsNextLen
    <3>3. ASSUME NEW x \in Range(WinsIn(l, k, i + 1))
          PROVE  \E j \in 1 .. i + 1 : l[j][1].sm = "kv" /\ l[j][1].op = x
      <4>1. CASE x \in Range(WinsIn(l, k, i))
        <5>1. PICK j \in 1 .. i : l[j][1].sm = "kv" /\ l[j][1].op = x
          BY <3>1, <4>1
        <5>2. j \in 1 .. i + 1
          BY <3>1
        <5> QED
          BY <5>1, <5>2
      <4>2. CASE WinsNext(l[i + 1], k, WinsIn(l, k, i)) /\ x = l[i + 1][1].op
        <5>1. i + 1 \in 1 .. i + 1
          BY <3>1
        <5> QED
          BY <4>2, <5>1 DEF WinsNext
      <4> QED
        BY <3>2, <4>1, <4>2
    <3> QED
      BY <3>3
  <2> QED
    BY <1>1, <2>1
<1>4. T = Nat
  <2> HIDE DEF T
  <2>1. T \subseteq Nat
    BY DEF T
  <2> QED
    BY <1>2, <1>3, <2>1, SetInduction
<1>5. From(n)
  <2>1. n \in T /\ n <= Len(l)
    BY <1>1, <1>4
  <2> QED
    BY <2>1
<1> QED
  BY <1>5

-----------------------------------------------------------------------------
(* Types.                                                                  *)

LEMMA ThreadFacts ==
  /\ Batcher \notin Caller /\ Threads = Caller \cup {Batcher} /\ User \cap Threads = {}
  /\ None \notin User /\ None \notin Threads /\ Other \notin User /\ Other \notin Threads
  /\ Caller \subseteq Threads /\ Batcher \in Threads
BY BatchAssumption, ApplicationAssumption DEF Threads

LEMMA TypesInit == Init => Types
<1> SUFFICES ASSUME Init PROVE Types
  OBVIOUS
<1> USE DEF Init, StoreInit, BatchInit
<1>1. StoreTypes
  <2>1. db \in Stores
    BY DEF Stores, Records, NotFound
  <2>2. unsynced \in Seq(Stores)
    BY EmptySeq
  <2> QED
    BY <2>1, <2>2, StoreAssumption DEF StoreTypes
<1>2. BatchTypes
  <2>1. <<>> \in Seq(Caller) /\ <<>> \in Seq(Results) /\ SizeOf(<<>>) = 0
    BY EmptySeq, Sizes
  <2>2. place \in [Caller -> Places]
    BY DEF Places, NoPlace, Unset
  <2>3. SizeOf(queue) <= queueSize /\ queueSize \in Nat /\ queue \in Seq(Caller)
    BY <2>1
  <2>4. request \in [Threads -> Seq(Caller)] /\ notified \in [Caller -> Seq(Results)]
    BY <2>1
  <2>5. pc \in [Caller -> {"idle", "add", "propose", "wait"}] /\ batched \in [Caller -> Nat]
    OBVIOUS
  <2> QED
    BY <2>2, <2>3, <2>4, <2>5 DEF BatchTypes
<1>3. AppTypes
  <2>1. log \in Seq(Values) /\ Len(log) = 0
    BY EmptySeq
  <2> QED
    BY <2>1 DEF AppTypes
<1> QED
  BY <1>1, <1>2, <1>3 DEF Types

(* The queue and the threads of BatchPropose.                              *)
LEMMA PluckTypes ==
  ASSUME BatchTypes, NEW t \in Threads, NEW q \in Seq(Caller), NEW size \in Nat,
         SizeOf(q) <= size, PluckProposal(t, q, size)
  PROVE  /\ queue' \in Seq(Caller) /\ queueSize' \in Nat /\ SizeOf(queue') <= queueSize'
         /\ request' \in [Threads -> Seq(Caller)]
         /\ request' = [request EXCEPT ![t] = SubSeq(q, 1, Plucked(q))]
<1> DEFINE n == Plucked(q)
           a == SubSeq(q, 1, n)
           b == SubSeq(q, n + 1, Len(q))
<1>1. n \in 0 .. Len(q)
  BY PluckedSome
<1>2. a \in Seq(Caller) /\ b \in Seq(Caller)
  BY <1>1, Cut
<1>3. SizeOf(q) = SizeOf(a) + SizeOf(b)
  BY <1>1, Sizes
<1>4. SizeOf(a) \in Nat /\ SizeOf(b) \in Nat /\ SizeOf(q) \in Nat
  BY <1>2, Sizes
<1>5. request' = [request EXCEPT ![t] = a] /\ queue' = b /\ queueSize' = size - SizeOf(a)
  BY DEF PluckProposal
<1> HIDE DEF a, b, n
<1>6. size - SizeOf(a) \in Nat /\ SizeOf(b) <= size - SizeOf(a)
  BY <1>3, <1>4
<1> QED
  BY <1>2, <1>5, <1>6 DEF BatchTypes, a, n

LEMMA AddTypes ==
  ASSUME BatchTypes, NEW c \in Caller, AddProposal(c)
  PROVE  BatchTypes'
<1> DEFINE q == Append(queue, c)
           size == queueSize + Size(c)
<1>1. queue \in Seq(Caller) /\ q \in Seq(Caller) /\ size \in Nat /\ SizeOf(q) <= size
  <2>1. q \in Seq(Caller) /\ queue \in Seq(Caller)
    BY AppendProperties DEF BatchTypes
  <2>2. SizeOf(q) = SizeOf(queue) + Size(c)
    BY <2>1, Sizes
  <2>3. SizeOf(queue) \in Nat /\ SizeOf(queue) <= queueSize /\ queueSize \in Nat
    BY <2>1, Sizes DEF BatchTypes
  <2> QED
    BY <2>1, <2>2, <2>3, SizeNat
<1>2. CASE PluckProposal(c, q, size) /\ pc' = [pc EXCEPT ![c] = "propose"]
  <2>1. c \in Threads
    BY ThreadFacts
  <2>2. /\ queue' \in Seq(Caller) /\ queueSize' \in Nat /\ SizeOf(queue') <= queueSize'
        /\ request' \in [Threads -> Seq(Caller)]
    BY <1>1, <1>2, <2>1, PluckTypes
  <2> QED
    BY <1>2, <2>2 DEF AddProposal, BatchTypes
<1>3. CASE /\ queue' = q /\ queueSize' = size /\ pc' = [pc EXCEPT ![c] = "wait"]
           /\ UNCHANGED request
  <2> HIDE DEF q, size
  <2> QED
    BY <1>1, <1>3 DEF AddProposal, BatchTypes
<1> QED
  BY <1>2, <1>3 DEF AddProposal

LEMMA AnswerTypes ==
  ASSUME BatchTypes, NEW C \in SUBSET Caller, NEW ret \in Results
  PROVE  [c \in Caller |-> IF c \in C THEN Append(notified[c], ret) ELSE notified[c]]
            \in [Caller -> Seq(Results)]
<1>1. \A c \in Caller : notified[c] \in Seq(Results)
  BY DEF BatchTypes
<1>2. \A c \in Caller : Append(notified[c], ret) \in Seq(Results)
  BY <1>1, AppendProperties
<1> QED
  BY <1>1, <1>2

LEMMA PlacedFacts ==
  ASSUME NEW r \in Seq(Caller), NEW inst \in Nat, BatchTypes
  PROVE  /\ Placed(r, inst) \in [Caller -> Places]
         /\ \A c \in Caller \ Range(r) : Placed(r, inst)[c] = place[c]
         /\ \A c \in Range(r) :
               /\ Placed(r, inst)[c].inst = inst
               /\ \E i \in 1 .. Len(r) :
                     /\ r[i] = c
                     /\ Placed(r, inst)[c].index = IF Len(r) = 1 THEN Unset ELSE i - 1
<1>1. DOMAIN r = 1 .. Len(r) /\ Len(r) \in Nat /\ Range(r) \subseteq Caller
      /\ \A c \in Range(r) : \E i \in 1 .. Len(r) : r[i] = c
  BY Ranges, LenProperties
<1>2. \A c \in Range(r) : (CHOOSE i \in DOMAIN r : r[i] = c) \in 1 .. Len(r)
                          /\ r[CHOOSE i \in DOMAIN r : r[i] = c] = c
  BY <1>1
<1> DEFINE at(c) == CHOOSE i \in DOMAIN r : r[i] = c
           p(c) == [inst |-> inst, index |-> IF Len(r) = 1 THEN Unset ELSE at(c) - 1]
<1>3. Placed(r, inst) = [c \in Caller |-> IF c \notin Range(r) THEN place[c] ELSE p(c)]
  BY DEF Placed
<1>4. \A c \in Range(r) : at(c) \in 1 .. Len(r) /\ r[at(c)] = c
  BY <1>2
<1> HIDE DEF at
<1>5. \A c \in Range(r) : p(c) \in Places
  BY <1>1, <1>4 DEF Places, Unset
<1>6. \A c \in Range(r) : p(c).inst = inst /\ p(c).index = IF Len(r) = 1 THEN Unset ELSE at(c) - 1
  OBVIOUS
<1> HIDE DEF p
<1> QED
  BY <1>1, <1>3, <1>4, <1>5, <1>6 DEF BatchTypes

LEMMA ReturnTypes ==
  ASSUME BatchTypes, NEW t \in Threads, NEW ret \in Results, NEW inst \in Nat,
         ProposeReturns(t, ret, inst)
  PROVE  BatchTypes'
<1>1. request[t] \in Seq(Caller) /\ Range(request[t]) \subseteq Caller /\ <<>> \in Seq(Caller)
  BY Ranges DEF BatchTypes
<1>2. notified' \in [Caller -> Seq(Results)]
  BY <1>1, AnswerTypes DEF ProposeReturns
<1>3. place' \in [Caller -> Places]
  BY <1>1, PlacedFacts DEF ProposeReturns
<1>4. request' \in [Threads -> Seq(Caller)]
  BY <1>1 DEF ProposeReturns, BatchTypes
<1>5. /\ pc' \in [Caller -> {"idle", "add", "propose", "wait"}]
      /\ batcher' \in {"new", "loop", "propose", "drain", "ended"}
  BY ThreadFacts DEF ProposeReturns, BatchTypes
<1> QED
  BY <1>2, <1>3, <1>4, <1>5 DEF ProposeReturns, BatchTypes

LEMMA BatchingTypes ==
  ASSUME BatchTypes,
         \/ \E c \in Caller : Propose(c) \/ AddProposal(c) \/ WaitNotify(c)
         \/ RunStarts \/ RunLoops \/ RunEnds \/ Stop \/ RestartBatch
         \/ UNCHANGED batchVars
  PROVE  BatchTypes'
<1>1. ASSUME NEW c \in Caller, Propose(c) PROVE BatchTypes'
  <2>1. NoPlace \in Places
    BY DEF Places, NoPlace, Unset
  <2> QED
    BY <1>1, <2>1 DEF Propose, BatchTypes
<1>2. ASSUME NEW c \in Caller, WaitNotify(c) PROVE BatchTypes'
  <2>1. notified[c] \in Seq(Results) /\ notified[c] # <<>>
    BY <1>2 DEF WaitNotify, BatchTypes
  <2>2. Tail(notified[c]) \in Seq(Results)
    BY <2>1, HeadTailProperties
  <2> QED
    BY <1>2, <2>2 DEF WaitNotify, BatchTypes
<1>3. ASSUME RunStarts PROVE BatchTypes'
  BY <1>3 DEF RunStarts, BatchTypes
<1>4. ASSUME RunLoops PROVE BatchTypes'
  <2>1. CASE isEnd
    BY <1>4, <2>1 DEF RunLoops, BatchTypes
  <2>2. CASE ~isEnd
    <3>1. PluckProposal(Batcher, queue, queueSize)
      BY <1>4, <2>2 DEF RunLoops
    <3>2. Batcher \in Threads /\ queue \in Seq(Caller) /\ queueSize \in Nat
          /\ SizeOf(queue) <= queueSize
      BY ThreadFacts DEF BatchTypes
    <3>3. /\ queue' \in Seq(Caller) /\ queueSize' \in Nat /\ SizeOf(queue') <= queueSize'
          /\ request' \in [Threads -> Seq(Caller)]
      BY <3>1, <3>2, PluckTypes
    <3> QED
      BY <1>4, <2>2, <3>3 DEF RunLoops, BatchTypes
  <2> QED
    BY <2>1, <2>2
<1>5. ASSUME RunEnds PROVE BatchTypes'
  <2>1. Range(queue) \subseteq Caller /\ <<>> \in Seq(Caller)
    BY Ranges DEF BatchTypes
  <2>2. notified' \in [Caller -> Seq(Results)]
    BY <1>5, <2>1, AnswerTypes DEF RunEnds, Results
  <2>3. SizeOf(queue') <= queueSize /\ queue' \in Seq(Caller)
    BY <1>5, <2>1, Sizes DEF RunEnds, BatchTypes
  <2> QED
    BY <1>5, <2>2, <2>3 DEF RunEnds, BatchTypes
<1>6. ASSUME Stop PROVE BatchTypes'
  BY <1>6 DEF Stop, BatchTypes
<1>7. ASSUME RestartBatch PROVE BatchTypes'
  <2>1. <<>> \in Seq(Caller) /\ <<>> \in Seq(Results) /\ SizeOf(<<>>) = 0
    BY EmptySeq, Sizes
  <2>2. NoPlace \in Places
    BY DEF Places, NoPlace, Unset
  <2>3. SizeOf(queue') <= queueSize' /\ queueSize' \in Nat /\ queue' \in Seq(Caller)
    BY <1>7, <2>1 DEF RestartBatch
  <2>4. place' \in [Caller -> Places]
    BY <1>7, <2>2 DEF RestartBatch
  <2>5. request' \in [Threads -> Seq(Caller)] /\ notified' \in [Caller -> Seq(Results)]
    BY <1>7, <2>1 DEF RestartBatch
  <2>6. pc' \in [Caller -> {"idle", "add", "propose", "wait"}]
    BY <1>7 DEF RestartBatch
  <2> QED
    BY <1>7, <2>3, <2>4, <2>5, <2>6 DEF RestartBatch, BatchTypes
<1>8. ASSUME UNCHANGED batchVars PROVE BatchTypes'
  BY <1>8 DEF batchVars, BatchTypes
<1> QED
  BY <1>1, <1>2, <1>3, <1>4, <1>5, <1>6, <1>7, <1>8, AddTypes

-----------------------------------------------------------------------------
(* The values that are proposed.                                           *)

LEMMA ValueOf ==
  ASSUME Types, QueueInv, NEW t \in User \cup Threads, InPropose(t)
  PROVE  /\ Value(t) \in Values
         /\ t \in User => /\ op[t] \in Operations /\ Value(t) = <<KVEntry(op[t])>>
                          /\ Len(Value(t)) = 1 /\ Value(t)[1].sm = "kv"
                          /\ Value(t)[1].op = op[t] /\ Value(t)[1].id = op[t].id
         /\ t \in Threads => /\ request[t] \in Seq(Caller) /\ request[t] # <<>>
                             /\ Len(Value(t)) = Len(request[t])
                             /\ \A i \in 1 .. Len(request[t]) :
                                   /\ Value(t)[i].sm =
                                         IF request[t][i] \in Plain THEN "none" ELSE "user"
                                   /\ Value(t)[i].id = IdOf(request[t][i])
                                   /\ request[t][i] \in Caller
<1>1. CASE t \in User
  <2>1. op[t] # None /\ op[t] \in Operations /\ t \notin Threads
    BY <1>1, ThreadFacts DEF InPropose, Types, AppTypes
  <2>2. PICK o \in Operations : o = op[t]
    BY <2>1
  <2>3. Value(t) = <<KVEntry(o)>>
    BY <1>1, <2>2 DEF Value
  <2>4. KVEntry(o) \in Entries /\ KVEntry(o).sm = "kv" /\ KVEntry(o).op = o /\ KVEntry(o).id = o.id
    BY OperationFacts DEF KVEntry, Entries
  <2>5. PICK v : v = <<KVEntry(o)>>
    OBVIOUS
  <2>6. v \in Seq(Entries) /\ Len(v) = 1 /\ v[1] = KVEntry(o)
    BY <2>4, <2>5
  <2>7. v \in Values
    BY <2>4, <2>6 DEF Values, IsKV
  <2> QED
    BY <1>1, <2>1, <2>2, <2>3, <2>4, <2>5, <2>6, <2>7
<1>2. CASE t \in Threads
  <2>1. t \notin User /\ request[t] \in Seq(Caller) /\ request[t] # <<>>
    BY <1>2, ThreadFacts DEF InPropose, Types, BatchTypes, QueueInv
  <2>2. PICK r \in Seq(Caller) : r = request[t] /\ r # <<>>
    BY <2>1
  <2>3. DOMAIN r = 1 .. Len(r) /\ Len(r) \in Nat /\ Len(r) # 0
        /\ \A i \in 1 .. Len(r) : r[i] \in Caller
    BY <2>2, LenProperties, EmptySeq, ElementOfSeq
  <2>4. PICK v : v = [i \in 1 .. Len(r) |-> BatchEntry(r[i])]
    OBVIOUS
  <2>5. Value(t) = v
    BY <2>1, <2>2, <2>3, <2>4 DEF Value
  <2>6. \A c \in Caller :
           /\ BatchEntry(c) \in Entries /\ BatchEntry(c).id = IdOf(c)
           /\ BatchEntry(c).sm = IF c \in Plain THEN "none" ELSE "user"
           /\ BatchEntry(c).sm # "kv"
    BY DEF BatchEntry, Entries, IdOf, Types, BatchTypes
  <2>7. v \in [1 .. Len(r) -> Entries] /\ \A i \in 1 .. Len(r) : v[i] = BatchEntry(r[i])
    BY <2>3, <2>4, <2>6
  <2>8. v \in Seq(Entries) /\ Len(v) = Len(r)
    BY <2>3, <2>7
  <2>9. v # <<>>
    BY <2>3, <2>8
  <2>10. v \in Values
    BY <2>3, <2>6, <2>7, <2>8, <2>9 DEF Values, IsBatch
  <2> QED
    BY <2>1, <2>2, <2>3, <2>5, <2>6, <2>7, <2>8, <2>10
<1> QED
  BY <1>1, <1>2

-----------------------------------------------------------------------------
(* The store.                                                              *)

(* KVClient writes if the operation is no read and its version is the      *)
(* key's.                                                                  *)
Writes(o) == ExecuteRet(o) = "OK" /\ o.type # "read"

LEMMA WriteFacts ==
  ASSUME db \in Stores, NEW o \in Operations
  PROVE  /\ Writes(o) <=> o.type # "read" /\ db[o.key].version = o.version
         /\ o.type # "read" => ExecuteRet(o) \in {"OK", "VERSION_CONFLICT"}
         /\ Put(o) \in Records
         /\ Put(o).version = db[o.key].version + 1
         /\ o.type # "read" => Put(o).deleted = (o.type = "delete")
<1>1. db[o.key] \in Records /\ db[o.key].version \in Nat
  BY OperationFacts DEF Stores, Records
<1>2. Get(o.key).version = db[o.key].version
  BY DEF Get
<1>3. /\ Writes(o) <=> o.type # "read" /\ db[o.key].version = o.version
      /\ o.type # "read" => ExecuteRet(o) \in {"OK", "VERSION_CONFLICT"}
  BY <1>2 DEF Writes, ExecuteRet, VersionConflict
<1>4. Get(o.key).value \in OpIds \cup {None}
  BY <1>1 DEF Get, Records
<1>5. /\ Set(o) \in Records /\ Set(o).version = db[o.key].version + 1 /\ Set(o).deleted = FALSE
      /\ Del(o) \in Records /\ Del(o).version = db[o.key].version + 1 /\ Del(o).deleted = TRUE
  <2>1. o.id \in OpIds
    BY OperationFacts
  <2> QED
    BY <1>1, <1>2, <1>4, <2>1 DEF Set, Del, Records
<1>6. o.type \in {"write", "delete", "read"}
  BY OperationFacts
<1> QED
  BY <1>3, <1>5, <1>6 DEF Put

LEMMA ExecuteStore ==
  ASSUME StoreTypes, NEW o \in Operations, NEW inst \in Nat,
         Execute(o, inst) \/ ExecuteUnsaved(o)
  PROVE  /\ db' = IF Writes(o) THEN [db EXCEPT ![o.key] = Put(o)] ELSE db
         /\ db' \in Stores /\ unsynced' \in Seq(Stores)
         /\ checkpoint' = savedCP' /\ skipTimes' \in 0 .. MaxSkips
         /\ \/ savedCP' = savedCP /\ unsynced' \in {unsynced, Append(unsynced, db)}
            \/ savedCP' = inst /\ unsynced' = <<>>
<1>1. db \in Stores /\ unsynced \in Seq(Stores) /\ Put(o) \in Records
  BY WriteFacts DEF StoreTypes
<1>2. Append(unsynced, db) \in Seq(Stores) /\ <<>> \in Seq(Stores)
  BY <1>1, AppendProperties, EmptySeq
<1>3. [db EXCEPT ![o.key] = Put(o)] \in Stores
  BY <1>1 DEF Stores
<1>4. MaxSkips \in Nat /\ skipTimes \in 0 .. MaxSkips /\ checkpoint = savedCP
  BY StoreAssumption DEF StoreTypes
<1>5. ASSUME Perform(o), SkipCheckpoint
      PROVE  /\ db' = IF Writes(o) THEN [db EXCEPT ![o.key] = Put(o)] ELSE db
             /\ checkpoint' = savedCP' /\ skipTimes' \in 0 .. MaxSkips
             /\ savedCP' = savedCP /\ unsynced' \in {unsynced, Append(unsynced, db)}
  BY <1>4, <1>5 DEF Perform, SkipCheckpoint, Writes
<1>6. CASE Execute(o, inst)
  <2>1. CASE Perform(o) /\ SkipCheckpoint
    BY <1>1, <1>2, <1>3, <1>5, <2>1
  <2>2. CASE /\ db' = IF Writes(o) THEN [db EXCEPT ![o.key] = Put(o)] ELSE db
             /\ SyncCheckpoint(inst) /\ unsynced' = <<>>
    BY <1>1, <1>2, <1>3, <1>4, <2>2 DEF SyncCheckpoint
  <2> QED
    BY <1>6, <2>1, <2>2 DEF Execute, Writes
<1>7. CASE ExecuteUnsaved(o)
  BY <1>1, <1>2, <1>3, <1>5, <1>7 DEF ExecuteUnsaved
<1> QED
  BY <1>6, <1>7

(* The entry that is executed next.                                        *)
LEMMA EntryFacts ==
  ASSUME Types, ExecInv, executed < Len(log)
  PROVE  /\ log[executed + 1] \in Values /\ executed + 1 \in 1 .. Len(log)
         /\ Entry \in Entries /\ pos + 1 \in 1 .. Len(log[executed + 1])
         /\ Entry.id \in OpIds \cup (Caller \X Nat)
         /\ Entry.sm = "kv" => /\ pos = 0 /\ AtLast /\ Entry.op \in Operations
                               /\ Entry = log[executed + 1][1]
                               /\ log[executed + 1] = <<KVEntry(Entry.op)>>
<1>1. executed \in Nat /\ Len(log) \in Nat /\ log \in Seq(Values)
  BY LogFacts DEF Types, AppTypes
<1>2. executed + 1 \in 1 .. Len(log) /\ log[executed + 1] \in Values
  BY <1>1, LogFacts
<1>3. PICK v \in Values : v = log[executed + 1]
  BY <1>2
<1>4. Len(v) \in Nat /\ pos \in Nat /\ pos < Len(v)
  BY <1>3, ValueFacts DEF ExecInv, Types, AppTypes
<1>5. pos + 1 \in 1 .. Len(v) /\ Entry = v[pos + 1]
  BY <1>3, <1>4 DEF Entry
<1>6. v[pos + 1] \in Entries /\ (v[pos + 1].sm # "kv" => v[pos + 1].id \in Caller \X Nat)
  BY <1>5, ValueFacts
<1>7. v[pos + 1].sm = "kv" => /\ pos = 0 /\ Len(v) = 1 /\ v[1].op \in Operations
                              /\ v = <<KVEntry(v[1].op)>> /\ v[1].id = v[1].op.id
  <2>1. v[pos + 1].sm = "kv" => /\ pos + 1 = 1 /\ Len(v) = 1 /\ v[1].op \in Operations
                                /\ v = <<KVEntry(v[1].op)>> /\ v[1].id = v[1].op.id
    BY <1>5, ValueFacts
  <2> QED
    BY <1>4, <2>1
<1>8. v[pos + 1].id \in OpIds \cup (Caller \X Nat)
  BY <1>6, <1>7, OperationFacts
<1>9. ASSUME Entry.sm = "kv"
      PROVE  /\ pos = 0 /\ AtLast /\ Entry.op \in Operations
             /\ Entry = log[executed + 1][1]
             /\ log[executed + 1] = <<KVEntry(Entry.op)>>
  <2>1. /\ pos = 0 /\ Len(v) = 1 /\ v[1].op \in Operations /\ v = <<KVEntry(v[1].op)>>
    BY <1>5, <1>7, <1>9
  <2>2. pos + 1 = 1
    BY <2>1
  <2>3. Entry = v[1] /\ AtLast
    BY <1>3, <1>5, <2>1, <2>2 DEF AtLast
  <2> QED
    BY <1>3, <2>1, <2>3
<1> QED
  BY <1>2, <1>3, <1>5, <1>6, <1>8, <1>9

-----------------------------------------------------------------------------
(* The steps keep the types.                                               *)

ToldTypes == told \subseteq [op : Operations, status : {"SUCC", "VERSION_CONFLICT", "FAIL"}]

LEMMA EndsFacts ==
  ASSUME Types, QueueInv, NEW t \in User \cup Threads, InPropose(t),
         NEW ret \in Results, NEW inst \in Nat, NEW er, ProposeEnds(t, ret, inst, er)
  PROVE  /\ BatchTypes' /\ op' \in [User -> Operations \cup {None}] /\ ToldTypes'
         /\ ended' = ended
         /\ t \in User => /\ UNCHANGED batchVars /\ op' = [op EXCEPT ![t] = None]
                          /\ told' = told \cup {[op |-> op[t], status |-> Status(ret, er)]}
         /\ t \in Threads => ProposeReturns(t, ret, inst) /\ UNCHANGED <<op, told>>
<1>1. CASE t \in User
  <2>1. t \notin Threads /\ op[t] \in Operations
    BY <1>1, ThreadFacts, ValueOf
  <2>2. UserReturns(t, ret, er)
    BY <1>1 DEF ProposeEnds
  <2>3. Status(ret, er) \in {"SUCC", "VERSION_CONFLICT", "FAIL"}
    <3>1. CASE ret # "OK"
      BY <3>1 DEF Status
    <3>2. CASE ret = "OK" /\ er = "OK"
      BY <3>2 DEF Status
    <3>3. CASE ret = "OK" /\ er = "VERSION_CONFLICT"
      BY <3>3 DEF Status
    <3>4. CASE ret = "OK" /\ er # "OK" /\ er # "VERSION_CONFLICT"
      BY <3>4 DEF Status
    <3> QED
      BY <3>1, <3>2, <3>3, <3>4
  <2>4. ToldTypes' /\ op' \in [User -> Operations \cup {None}]
    BY <2>1, <2>2, <2>3 DEF UserReturns, Types, AppTypes, ToldTypes
  <2>5. BatchTypes'
    BY <2>2, BatchingTypes DEF UserReturns, Types
  <2> QED
    BY <2>1, <2>2, <2>4, <2>5 DEF UserReturns
<1>2. CASE t \in Threads
  <2>1. t \notin User
    BY <1>2, ThreadFacts
  <2>2. ProposeReturns(t, ret, inst) /\ UNCHANGED <<op, told, ended>>
    BY <2>1 DEF ProposeEnds
  <2>3. BatchTypes'
    BY <1>2, <2>2, ReturnTypes DEF Types
  <2> QED
    BY <2>1, <2>2, <2>3 DEF Types, AppTypes, ToldTypes
<1> QED
  BY <1>1, <1>2

LEMMA LogGrows ==
  ASSUME NEW l \in Seq(Values), NEW v \in Values
  PROVE  /\ Append(l, v) \in Seq(Values) /\ Len(Append(l, v)) = Len(l) + 1
         /\ Len(l) \in Nat /\ Len(l) + 1 \in Nat
         /\ \A i \in 1 .. Len(l) : Append(l, v)[i] = l[i] /\ l[i] \in Values
         /\ Append(l, v)[Len(l) + 1] = v
         /\ Range(Append(l, v)) = Range(l) \cup {v}
BY Appended, ElementOfSeq

(* A value is decided.                                                     *)
LEMMA DecideTypes ==
  ASSUME Types, NEW v \in Values, log' = Append(log, v),
         UNCHANGED <<storeVars, batchVars, op, executed, pos, ready, told, given, ended, faults>>,
         puts' \in [User \cup {Other} -> Nat], mine' \in User \cup Threads \cup {None},
         floating' \subseteq floating
  PROVE  Types'
<1>1. /\ log' \in Seq(Values) /\ Len(log') = Len(log) + 1 /\ Len(log) \in Nat
  BY LogGrows DEF Types, AppTypes
<1>2. BatchTypes'
  BY BatchingTypes DEF Types
<1>3. StoreTypes'
  BY DEF Types, StoreTypes, storeVars
<1>4. executed' \in 0 .. Len(log')
  BY <1>1 DEF Types, AppTypes
<1>5. AppTypes'
  BY <1>1, <1>4 DEF Types, AppTypes
<1> QED
  BY <1>2, <1>3, <1>5 DEF Types

LEMMA CallTypes ==
  ASSUME Types, NEW u \in User, UserCalls(u)
  PROVE  /\ Types'
         /\ \E k \in Key, type \in UserTypes, n \in 0 .. Len(log) :
               /\ Call(u, k, type, Len(Wins(k, n)))
               /\ Operation(<<u, puts[u] + 1>>, type, k, Len(Wins(k, n))) \in Operations
<1>1. PICK k \in Key, type \in UserTypes, n \in 0 .. Len(log) : Call(u, k, type, Len(Wins(k, n)))
  BY DEF UserCalls
<1>2. Len(Wins(k, n)) \in Nat
  <2>1. Wins(k, n) \in Seq(Operations)
    BY WinsIsIn, WinsTyped DEF Types, AppTypes
  <2> QED
    BY <2>1, LenProperties
<1>3. puts[u] \in Nat /\ <<u, puts[u] + 1>> \in OpIds
  BY DEF Types, AppTypes, OpIds
<1>4. type \in {"write", "delete"}
  BY ApplicationAssumption
<1>5. Operation(<<u, puts[u] + 1>>, type, k, Len(Wins(k, n))) \in Operations
  BY <1>2, <1>3, <1>4 DEF Operation, Operations
<1>6. BatchTypes' /\ StoreTypes'
  BY <1>1, BatchingTypes DEF Call, Types, StoreTypes, storeVars
<1>7. AppTypes'
  BY <1>1, <1>3, <1>5 DEF Call, Types, AppTypes
<1> QED
  BY <1>1, <1>5, <1>6, <1>7 DEF Types

LEMMA CallerReturnTypes ==
  ASSUME Types, NEW c \in Caller, CallerReturns(c)
  PROVE  Types'
<1>1. BatchTypes'
  BY BatchingTypes DEF CallerReturns, Types
<1>2. StoreTypes'
  BY DEF CallerReturns, Types, StoreTypes, storeVars
<1>3. notified[c] \in Seq(Results) /\ notified[c] # <<>>
  BY DEF CallerReturns, WaitNotify, Types, BatchTypes
<1>4. Head(notified[c]) \in Results
  BY <1>3, HeadTailProperties
<1>5. ended' \subseteq [id : Caller \X Nat, ret : Results, place : Places]
  BY <1>4 DEF CallerReturns, Types, AppTypes, BatchTypes
<1>6. AppTypes'
  BY <1>5 DEF CallerReturns, Types, AppTypes
<1> QED
  BY <1>1, <1>2, <1>6 DEF Types

LEMMA OtherValue ==
  ASSUME Types, NEW k \in Key, NEW type \in OtherTypes, DecideOther(k, type)
  PROVE  LET o == Operation(<<Other, puts[Other] + 1>>, type, k, Len(Wins(k, Len(log))))
         IN  /\ o \in Operations /\ <<KVEntry(o)>> \in Values
             /\ log' = Append(log, <<KVEntry(o)>>) /\ <<KVEntry(o)>>[1].sm = "kv"
             /\ <<KVEntry(o)>>[1].op = o /\ Len(<<KVEntry(o)>>) = 1
             /\ <<KVEntry(o)>>[1].id = o.id
             /\ o.id = <<Other, puts[Other] + 1>> /\ o.version = Len(Wins(k, Len(log)))
             /\ o.key = k
<1>1. Len(Wins(k, Len(log))) \in Nat
  <2>1. Len(log) \in 0 .. Len(log)
    BY LogFacts DEF Types, AppTypes
  <2>2. Wins(k, Len(log)) \in Seq(Operations)
    BY <2>1, WinsIsIn, WinsTyped DEF Types, AppTypes
  <2> QED
    BY <2>2, LenProperties
<1>2. puts[Other] \in Nat /\ <<Other, puts[Other] + 1>> \in OpIds
  BY DEF Types, AppTypes, OpIds
<1>3. type \in {"write", "delete", "read"}
  BY ApplicationAssumption
<1>4. PICK o : o = Operation(<<Other, puts[Other] + 1>>, type, k, Len(Wins(k, Len(log))))
  OBVIOUS
<1>5. o \in Operations /\ o.id = <<Other, puts[Other] + 1>> /\ o.version = Len(Wins(k, Len(log)))
      /\ o.key = k
  BY <1>1, <1>2, <1>3, <1>4 DEF Operation, Operations
<1>6. KVEntry(o) \in Entries /\ KVEntry(o).sm = "kv" /\ KVEntry(o).op = o /\ KVEntry(o).id = o.id
  BY <1>5, OperationFacts DEF KVEntry, Entries
<1>7. PICK v : v = <<KVEntry(o)>>
  OBVIOUS
<1>8. v \in Seq(Entries) /\ Len(v) = 1 /\ v[1] = KVEntry(o)
  BY <1>6, <1>7
<1>9. v \in Values
  BY <1>6, <1>8 DEF Values, IsKV
<1>10. log' = Append(log, <<KVEntry(o)>>)
  BY <1>4 DEF DecideOther
<1> QED
  BY <1>4, <1>5, <1>6, <1>7, <1>8, <1>9, <1>10

LEMMA NotDecidedTypes ==
  ASSUME Types, QueueInv, NEW t \in User \cup Threads, NEW ret \in {"Timeout", "Conflict"},
         NotDecided(t, ret)
  PROVE  Types'
<1>1. InPropose(t) /\ ProposeEnds(t, ret, 0, None)
  BY DEF NotDecided, Proposers
<1>2. ret \in Results
  BY DEF Results
<1>3. /\ BatchTypes' /\ op' \in [User -> Operations \cup {None}] /\ ToldTypes'
      /\ ended' = ended
  BY <1>1, <1>2, EndsFacts
<1>4. floating' \subseteq Values
  BY <1>1, ValueOf DEF NotDecided, Types, AppTypes
<1>5. StoreTypes'
  BY DEF NotDecided, Types, StoreTypes, storeVars
<1>6. AppTypes'
  BY <1>3, <1>4 DEF NotDecided, Types, AppTypes, ToldTypes
<1> QED
  BY <1>3, <1>5, <1>6 DEF Types

LEMMA ExecuteTypes ==
  ASSUME Types, QueueInv, ExecInv, ExecuteEntry
  PROVE  Types'
<1>1. /\ executed < Len(log) /\ executed \in Nat /\ Len(log) \in Nat
      /\ executed + 1 \in 1 .. Len(log) /\ Entry.id \in OpIds \cup (Caller \X Nat)
      /\ Entry.sm = "kv" => AtLast /\ Entry.op \in Operations
  BY EntryFacts, LogFacts DEF ExecuteEntry, Types, AppTypes
<1>2. given' \subseteq (OpIds \cup (Caller \X Nat)) \X Nat
  BY <1>1 DEF ExecuteEntry, Types, AppTypes
<1>3. executed' \in executed .. Len(log) /\ pos' \in Nat /\ mine' \in User \cup Threads \cup {None}
      /\ (AtLast => executed' = executed + 1)
  BY <1>1 DEF ExecuteEntry, Types, AppTypes
<1>4. StoreTypes'
  <2>1. CASE Entry.sm = "kv"
    <3>1. Entry.op \in Operations /\ AtLast /\ executed + 1 \in Nat
      BY <1>1, <2>1
    <3>2. Execute(Entry.op, executed + 1) \/ ExecuteUnsaved(Entry.op)
      BY <2>1 DEF ExecuteEntry
    <3>3. /\ db' \in Stores /\ unsynced' \in Seq(Stores)
          /\ checkpoint' = savedCP' /\ skipTimes' \in 0 .. MaxSkips
          /\ savedCP' = savedCP \/ savedCP' = executed + 1
      BY <3>1, <3>2, ExecuteStore DEF Types
    <3>4. savedCP' \in 0 .. executed'
      BY <1>1, <1>3, <3>1, <3>3 DEF Types, StoreTypes
    <3> QED
      BY <3>3, <3>4 DEF StoreTypes
  <2>2. CASE Entry.sm # "kv"
    <3>1. UNCHANGED storeVars
      BY <2>2 DEF ExecuteEntry
    <3>2. savedCP' \in 0 .. executed'
      BY <1>1, <1>3, <3>1 DEF Types, StoreTypes, storeVars
    <3> QED
      BY <3>1, <3>2 DEF Types, StoreTypes, storeVars
  <2> QED
    BY <2>1, <2>2
<1>5. /\ BatchTypes' /\ op' \in [User -> Operations \cup {None}] /\ ToldTypes'
      /\ ended' = ended
  <2>1. CASE AtLast /\ mine # None
    <3>1. PICK er : ProposeEnds(mine, "OK", executed + 1, er)
      BY <2>1 DEF ExecuteEntry
    <3>2. InPropose(mine) /\ mine \in User \cup Threads /\ "OK" \in Results /\ executed + 1 \in Nat
      BY <1>1, <2>1 DEF ExecInv, Types, AppTypes, Results
    <3> QED
      BY <3>1, <3>2, EndsFacts
  <2>2. CASE UNCHANGED <<batchVars, op, told, ended>>
    BY <2>2, BatchingTypes DEF Types, AppTypes, ToldTypes
  <2> QED
    BY <2>1, <2>2 DEF ExecuteEntry
<1>6. AppTypes'
  BY <1>1, <1>2, <1>3, <1>5 DEF ExecuteEntry, Types, AppTypes, ToldTypes
<1> QED
  BY <1>4, <1>5, <1>6 DEF Types

LEMMA FailTypes ==
  ASSUME Types, QueueInv, ExecInv, ExecuteFails
  PROVE  Types'
<1>1. /\ BatchTypes' /\ op' \in [User -> Operations \cup {None}] /\ ToldTypes'
      /\ ended' = ended
  <2>1. CASE mine # None
    <3>1. ProposeEnds(mine, "ExecuteFail", 0, None)
      BY <2>1 DEF ExecuteFails
    <3>2. InPropose(mine) /\ mine \in User \cup Threads /\ "ExecuteFail" \in Results /\ 0 \in Nat
      BY <2>1 DEF ExecInv, Types, AppTypes, Results
    <3> QED
      BY <3>1, <3>2, EndsFacts
  <2>2. CASE UNCHANGED <<batchVars, op, told, ended>>
    BY <2>2, BatchingTypes DEF Types, AppTypes, ToldTypes
  <2> QED
    BY <2>1, <2>2 DEF ExecuteFails
<1>2. StoreTypes'
  BY DEF ExecuteFails, Types, StoreTypes, storeVars
<1>3. AppTypes'
  BY <1>1 DEF ExecuteFails, Types, AppTypes, ToldTypes
<1> QED
  BY <1>1, <1>2, <1>3 DEF Types

LEMMA PlayLogFailsTypes ==
  ASSUME Types, PlayLogFails
  PROVE  Types'
<1>1. BatchTypes'
  BY BatchingTypes DEF PlayLogFails, Types
<1>2. savedCP \in 0 .. executed /\ savedCP \in Nat /\ savedCP \in 0 .. Len(log)
  BY LogFacts DEF Types, StoreTypes, AppTypes
<1>3. StoreTypes'
  BY <1>2, StoreAssumption DEF PlayLogFails, RestartStore, Types, StoreTypes
<1>4. AppTypes'
  BY <1>2 DEF PlayLogFails, Types, AppTypes
<1> QED
  BY <1>1, <1>3, <1>4 DEF Types

LEMMA CrashTypes ==
  ASSUME Types, QueueInv, NEW machine \in BOOLEAN, NEW accepted \in SUBSET Proposers,
         Crash(machine, accepted)
  PROVE  Types'
<1>1. BatchTypes'
  BY BatchingTypes DEF Crash, Types
<1>2. savedCP \in 0 .. executed /\ savedCP \in Nat /\ savedCP \in 0 .. Len(log)
  BY LogFacts DEF Types, StoreTypes, AppTypes
<1>3. db' \in Stores /\ unsynced' \in Seq(Stores)
  <2>1. CASE machine
    <3>1. db' \in {db} \cup Range(unsynced) /\ unsynced' = <<>>
      BY <2>1 DEF Crash, LoseUnsynced
    <3>2. Range(unsynced) \subseteq Stores /\ db \in Stores /\ <<>> \in Seq(Stores)
      BY Ranges DEF Types, StoreTypes
    <3> QED
      BY <3>1, <3>2
  <2>2. CASE ~machine
    BY <2>2 DEF Crash, Types, StoreTypes
  <2> QED
    BY <2>1, <2>2
<1>4. StoreTypes'
  BY <1>2, <1>3, StoreAssumption DEF Crash, RestartStore, Types, StoreTypes
<1>5. floating' \subseteq Values
  <2>1. \A t \in accepted : Value(t) \in Values
    BY ValueOf DEF Proposers
  <2> QED
    BY <2>1 DEF Crash, Types, AppTypes
<1>6. AppTypes'
  <2>1. op' \in [User -> Operations \cup {None}]
    BY DEF Crash
  <2>2. /\ puts' = puts /\ log' = log /\ told' = told /\ given' = given /\ ended' = ended
        /\ executed' = savedCP /\ pos' = 0 /\ mine' = None /\ ready' = FALSE
        /\ faults' = faults + 1
    BY DEF Crash
  <2>3. executed' \in 0 .. Len(log') /\ pos' \in Nat
    BY <1>2, <2>2
  <2>4. faults' \in Nat
    BY <2>2 DEF Types, AppTypes
  <2>5. ready' \in BOOLEAN /\ mine' \in User \cup Threads \cup {None}
    BY <2>2
  <2> QED
    BY <1>5, <2>1, <2>2, <2>3, <2>4, <2>5 DEF Types, AppTypes
<1> QED
  BY <1>1, <1>4, <1>6 DEF Types

LEMMA TypesStep ==
  ASSUME Types, QueueInv, ExecInv, [Next]_vars
  PROVE  Types'
<1>1. ASSUME UNCHANGED vars PROVE Types'
  <2>1. UNCHANGED batchVars /\ UNCHANGED storeVars /\ UNCHANGED appVars
    BY <1>1 DEF vars
  <2>2. BatchTypes'
    BY <2>1, BatchingTypes DEF Types
  <2>3. StoreTypes'
    <3>1. db' = db /\ unsynced' = unsynced /\ savedCP' = savedCP /\ checkpoint' = checkpoint
          /\ skipTimes' = skipTimes
      BY <2>1 DEF storeVars
    <3>2. executed' = executed
      BY <2>1 DEF appVars
    <3> QED
      BY <3>1, <3>2 DEF Types, StoreTypes
  <2>4. AppTypes'
    BY <2>1 DEF Types, AppTypes, appVars
  <2> QED
    BY <2>2, <2>3, <2>4 DEF Types
<1>2. ASSUME Batching PROVE Types'
  <2>1. BatchTypes'
    BY <1>2, BatchingTypes DEF Batching, Types
  <2>2. StoreTypes' /\ AppTypes'
    BY <1>2 DEF Batching, Types, AppTypes, StoreTypes, appVars, storeVars
  <2> QED
    BY <2>1, <2>2 DEF Types
<1>3. ASSUME NEW t \in User \cup Threads, DecideMine(t) PROVE Types'
  <2>1. Value(t) \in Values
    BY <1>3, ValueOf DEF DecideMine, Proposers
  <2>2. puts' \in [User \cup {Other} -> Nat]
    BY <1>3 DEF DecideMine, Types, AppTypes
  <2> QED
    BY <1>3, <2>1, <2>2, DecideTypes DEF DecideMine
<1>4. ASSUME NEW v \in floating, DecideFloating(v) PROVE Types'
  <2>1. v \in Values /\ puts' \in [User \cup {Other} -> Nat] /\ mine' \in User \cup Threads \cup {None}
        /\ floating' \subseteq floating
    BY <1>4 DEF DecideFloating, Types, AppTypes
  <2> QED
    BY <1>4, <2>1, DecideTypes DEF DecideFloating
<1>5. ASSUME NEW k \in Key, NEW type \in OtherTypes, DecideOther(k, type) PROVE Types'
  <2>1. PICK v \in Values : log' = Append(log, v)
    BY <1>5, OtherValue
  <2>2. puts' \in [User \cup {Other} -> Nat] /\ mine' \in User \cup Threads \cup {None}
        /\ floating' \subseteq floating
    BY <1>5 DEF DecideOther, Types, AppTypes
  <2> QED
    BY <1>5, <2>1, <2>2, DecideTypes DEF DecideOther
<1>6. ASSUME Ready PROVE Types'
  <2>1. BatchTypes' /\ StoreTypes'
    BY <1>6, BatchingTypes DEF Ready, Types, StoreTypes, storeVars
  <2>2. AppTypes'
    BY <1>6 DEF Ready, Types, AppTypes
  <2> QED
    BY <2>1, <2>2 DEF Types
<1> QED
  BY <1>1, <1>2, <1>3, <1>4, <1>5, <1>6, CallTypes, CallerReturnTypes, NotDecidedTypes,
     ExecuteTypes, FailTypes, PlayLogFailsTypes, CrashTypes DEF Next

-----------------------------------------------------------------------------
(* A value is at one place.                                                *)

LEMMA NoRange == Range(<<>>) = {} /\ Len(<<>>) = 0 /\ Once(<<>>)
<1>1. <<>> \in Seq({})
  BY EmptySeq
<1> QED
  BY <1>1, Ranges DEF Once

LEMMA OneResult ==
  ASSUME NEW x, NEW s, s = <<x>>
  PROVE  Len(s) = 1 /\ Len(s) <= 1 /\ s # <<>> /\ Head(s) = x /\ Tail(s) = <<>>
<1>1. Len(s) = 1 /\ s # <<>>
  OBVIOUS
<1>2. Head(s) = x /\ Tail(s) = <<>>
  OBVIOUS
<1> QED
  BY <1>1, <1>2

(* Values are taken off a queue q.                                         *)
LEMMA PluckQueue ==
  ASSUME BatchTypes, QueueInv, NEW t \in Threads, ~Proposing(t),
         NEW q \in Seq(Caller), q # <<>>, Once(q), NEW size, PluckProposal(t, q, size),
         \A c \in Range(q) : ~Requested(c) /\ notified[c] = <<>>,
         Range(queue) \subseteq Range(q), notified' = notified,
         \A u \in Threads : Proposing(u)' <=> (u = t \/ Proposing(u)),
         \A c \in Range(q) : pc'[c] \in {"propose", "wait"},
         \A c \in Caller : pc[c] \in {"propose", "wait"} => pc'[c] \in {"propose", "wait"}
  PROVE  QueueInv' /\ \A u \in Threads : u # t => request'[u] = request[u]
<1>1. Plucked(q) \in 1 .. Len(q) /\ Plucked(q) \in 0 .. Len(q) /\ Len(q) \in Nat
  BY PluckedSome, Ranges
<1>2. PICK a, b : a = SubSeq(q, 1, Plucked(q)) /\ b = SubSeq(q, Plucked(q) + 1, Len(q))
  OBVIOUS
<1>3. /\ a \in Seq(Caller) /\ b \in Seq(Caller) /\ Once(a) /\ Once(b) /\ Len(a) = Plucked(q)
      /\ Range(a) \cup Range(b) = Range(q) /\ Range(a) \cap Range(b) = {}
  BY <1>1, <1>2, Cut, CutRanges
<1>4. a # <<>> /\ Range(q) \subseteq Caller
  BY <1>1, <1>3, Ranges
<1>5. request' = [request EXCEPT ![t] = a] /\ queue' = b /\ request \in [Threads -> Seq(Caller)]
  BY <1>2 DEF PluckProposal, BatchTypes
<1>6. request[t] = <<>> /\ Range(request[t]) = {}
  BY Ranges DEF QueueInv
<1>7. request'[t] = a /\ \A u \in Threads : u # t => request'[u] = request[u]
  BY <1>5
<1>8. \A c \in Caller : Requested(c)' <=> c \in Range(a) \/ Requested(c)
  BY <1>6, <1>7 DEF Requested
<1>9. Once(queue') /\ \A u \in Threads : Once(request'[u])
  BY <1>3, <1>5, <1>7 DEF QueueInv
<1>10. \A u \in Threads : request'[u] = <<>> <=> ~Proposing(u)'
  BY <1>4, <1>7 DEF QueueInv
<1>11. \A u, v \in Threads : u # v => Range(request'[u]) \cap Range(request'[v]) = {}
  <2>1. \A u \in Threads : u # t => Range(request[u]) \cap Range(q) = {}
    BY DEF Requested
  <2> QED
    BY <1>3, <1>7, <2>1 DEF QueueInv
<1>12. \A c \in Range(queue') : ~Requested(c)' /\ notified'[c] = <<>>
  BY <1>3, <1>4, <1>5, <1>8
<1>13. ASSUME NEW c \in Caller
       PROVE  /\ Len(notified'[c]) <= 1
              /\ c \in Range(queue') \/ Requested(c)' \/ notified'[c] # <<>> =>
                    pc'[c] \in {"propose", "wait"}
              /\ Requested(c)' => notified'[c] = <<>>
  BY <1>3, <1>5, <1>8 DEF QueueInv
<1> QED
  BY <1>7, <1>9, <1>10, <1>11, <1>12, <1>13 DEF QueueInv

(* Those whose values were proposed are told.                              *)
LEMMA ReturnQueue ==
  ASSUME BatchTypes, QueueInv, NEW t \in Threads, NEW ret, NEW inst, ProposeReturns(t, ret, inst)
  PROVE  /\ QueueInv' /\ \A u \in Threads : u # t => /\ request'[u] = request[u]
                                                     /\ Proposing(u)' <=> Proposing(u)
         /\ \A c \in Caller : IF c \in Range(request[t])
                              THEN notified[c] = <<>> /\ notified'[c] = <<ret>>
                              ELSE notified'[c] = notified[c]
<1>1. /\ request \in [Threads -> Seq(Caller)] /\ request' = [request EXCEPT ![t] = <<>>]
      /\ Range(<<>>) = {} /\ Proposing(t) /\ queue' = queue /\ Range(queue) \subseteq Caller
  BY Ranges DEF ProposeReturns, BatchTypes
<1>2. request'[t] = <<>> /\ \A u \in Threads : u # t => request'[u] = request[u]
  BY <1>1
<1>3. ~Proposing(t)' /\ \A u \in Threads : u # t => (Proposing(u)' <=> Proposing(u))
  BY ThreadFacts DEF ProposeReturns, Proposing, BatchTypes
<1>4. \A c \in Caller : Requested(c)' <=> Requested(c) /\ c \notin Range(request[t])
  BY <1>1, <1>2 DEF Requested, QueueInv
<1>5. \A c \in Caller : IF c \in Range(request[t])
                        THEN notified[c] = <<>> /\ notified'[c] = <<ret>>
                        ELSE notified'[c] = notified[c]
  <2>1. \A c \in Range(request[t]) : Requested(c)
    BY DEF Requested
  <2>2. Append(<<>>, ret) = <<ret>>
    OBVIOUS
  <2> QED
    BY <2>1, <2>2 DEF ProposeReturns, QueueInv
<1>6. \A u \in Threads : request'[u] = <<>> <=> ~Proposing(u)'
  BY <1>2, <1>3 DEF QueueInv
<1>7. \A u \in Threads : Once(request'[u])
  BY <1>2, NoRange DEF QueueInv
<1>8. \A u, v \in Threads : u # v => Range(request'[u]) \cap Range(request'[v]) = {}
  BY <1>1, <1>2 DEF QueueInv
<1>9. \A c \in Range(queue') : ~Requested(c)' /\ notified'[c] = <<>>
  <2>1. \A c \in Range(queue) : c \notin Range(request[t])
    BY DEF QueueInv, Requested
  <2> QED
    BY <1>1, <1>4, <1>5, <2>1 DEF QueueInv
<1>10. \A c \in Caller : pc[c] \in {"propose", "wait"} => pc'[c] \in {"propose", "wait"}
  BY DEF ProposeReturns, BatchTypes
<1>11. ASSUME NEW c \in Caller
       PROVE  /\ Len(notified'[c]) <= 1
              /\ c \in Range(queue') \/ Requested(c)' \/ notified'[c] # <<>> =>
                    pc'[c] \in {"propose", "wait"}
              /\ Requested(c)' => notified'[c] = <<>>
  <2>1. c \in Range(request[t]) => Requested(c)
    BY DEF Requested
  <2>2. CASE c \in Range(request[t])
    <3>1. Len(notified'[c]) <= 1 /\ notified'[c] # <<>>
      BY <1>5, <2>2, OneResult
    <3>2. ~Requested(c)' /\ pc'[c] \in {"propose", "wait"}
      BY <1>4, <1>10, <2>1, <2>2 DEF QueueInv
    <3> QED
      BY <3>1, <3>2
  <2>3. CASE c \notin Range(request[t])
    BY <1>1, <1>4, <1>5, <1>10, <2>3 DEF QueueInv
  <2> QED
    BY <2>2, <2>3
<1> QED
  BY <1>1, <1>2, <1>3, <1>5, <1>6, <1>7, <1>8, <1>9, <1>11 DEF QueueInv

LEMMA QueueInit == Init => QueueInv
<1> SUFFICES ASSUME Init PROVE QueueInv
  OBVIOUS
<1>1. /\ queue = <<>> /\ \A t \in Threads : request[t] = <<>>
      /\ \A c \in Caller : notified[c] = <<>> /\ pc[c] = "idle"
      /\ batcher = "new" /\ Range(<<>>) = {} /\ Len(<<>>) = 0
  BY NoRange DEF Init, BatchInit
<1>2. \A t \in Threads : ~Proposing(t)
  BY <1>1, ThreadFacts DEF Proposing
<1> QED
  BY <1>1, <1>2 DEF QueueInv, Once, Requested

LEMMA SameQueue ==
  ASSUME QueueInv, UNCHANGED batchVars
  PROVE  QueueInv'
<1>1. UNCHANGED <<pc, queue, request, notified, batcher>> BY DEF batchVars
<1>2. \A t \in Threads : Proposing(t)' = Proposing(t) BY <1>1 DEF Proposing
<1>3. \A c \in Caller : Requested(c)' = Requested(c) BY <1>1 DEF Requested
<1>4. Once(queue') BY <1>1 DEF QueueInv
<1>5. \A t \in Threads : Once(request'[t]) /\ (request'[t] = <<>> <=> ~Proposing(t)')
  BY <1>1, <1>2 DEF QueueInv
<1>6. \A t, u \in Threads :
         t # u => Range(request'[t]) \cap Range(request'[u]) = {}
  BY <1>1 DEF QueueInv
<1>7. \A c \in Range(queue') : ~Requested(c)' /\ notified'[c] = <<>>
  BY <1>1 DEF QueueInv, Requested
<1>8. \A c \in Caller :
         /\ Len(notified'[c]) <= 1
         /\ c \in Range(queue') \/ Requested(c)' \/ notified'[c] # <<>> =>
               pc'[c] \in {"propose", "wait"}
         /\ Requested(c)' => notified'[c] = <<>>
  BY <1>1, <1>3 DEF QueueInv
<1>9. QED BY <1>4, <1>5, <1>6, <1>7, <1>8 DEF QueueInv, Once

LEMMA AddQueue ==
  ASSUME BatchTypes, QueueInv, NEW c \in Caller, AddProposal(c)
  PROVE  QueueInv' /\ \A u \in Threads : u # c => request'[u] = request[u]
<1>1. PICK q : q = Append(queue, c)
  OBVIOUS
<1>2. queue \in Seq(Caller) /\ c \in Threads /\ c # Batcher
  BY ThreadFacts DEF BatchTypes
<1>3. /\ q \in Seq(Caller) /\ Len(q) = Len(queue) + 1 /\ Len(queue) \in Nat /\ q # <<>>
      /\ \A i \in 1 .. Len(queue) : q[i] = queue[i] /\ queue[i] \in Range(queue)
      /\ q[Len(queue) + 1] = c /\ Range(q) = Range(queue) \cup {c}
  BY <1>1, <1>2, Appended, Ranges
<1>4. pc[c] = "add" /\ c \notin Range(queue) /\ ~Requested(c) /\ notified[c] = <<>>
  BY DEF AddProposal, QueueInv
<1>5. Once(q)
  <2>1. ASSUME NEW i \in 1 .. Len(q), NEW j \in 1 .. Len(q), i # j PROVE q[i] # q[j]
    <3>1. CASE i \in 1 .. Len(queue) /\ j \in 1 .. Len(queue)
      BY <1>3, <2>1, <3>1 DEF QueueInv, Once
    <3>2. CASE i = Len(queue) + 1 /\ j \in 1 .. Len(queue)
      BY <1>3, <1>4, <3>2
    <3>3. CASE j = Len(queue) + 1 /\ i \in 1 .. Len(queue)
      BY <1>3, <1>4, <3>3
    <3> QED
      BY <1>3, <2>1, <3>1, <3>2, <3>3
  <2> QED
    BY <2>1 DEF Once
<1>6. \A d \in Range(q) : ~Requested(d) /\ notified[d] = <<>>
  BY <1>3, <1>4 DEF QueueInv
<1>7. notified' = notified /\ batcher' = batcher /\ pc \in [Caller -> {"idle", "add", "propose", "wait"}]
  BY DEF AddProposal, BatchTypes
<1>8. \A d \in Range(queue) : d \in Caller /\ pc[d] \in {"propose", "wait"}
  BY <1>2, Ranges DEF QueueInv
<1>9. CASE PluckProposal(c, q, queueSize + Size(c)) /\ pc' = [pc EXCEPT ![c] = "propose"]
  <2>1. ~Proposing(c)
    BY <1>2, <1>4 DEF Proposing
  <2>2. \A u \in Threads : Proposing(u)' <=> (u = c \/ Proposing(u))
    BY <1>2, <1>4, <1>7, <1>9, ThreadFacts DEF Proposing
  <2>3. /\ \A d \in Range(q) : pc'[d] \in {"propose", "wait"}
        /\ \A d \in Caller : pc[d] \in {"propose", "wait"} => pc'[d] \in {"propose", "wait"}
    BY <1>3, <1>7, <1>8, <1>9
  <2> QED
    BY <1>2, <1>3, <1>5, <1>6, <1>7, <1>9, <2>1, <2>2, <2>3, PluckQueue
<1>10. CASE queue' = q /\ pc' = [pc EXCEPT ![c] = "wait"] /\ UNCHANGED request
  <2>1. \A d \in Caller : Requested(d)' <=> Requested(d)
    BY <1>10 DEF Requested
  <2>2. \A u \in Threads : Proposing(u)' <=> Proposing(u)
    BY <1>2, <1>4, <1>7, <1>10, ThreadFacts DEF Proposing
  <2>3. \A d \in Caller : pc'[d] = IF d = c THEN "wait" ELSE pc[d]
    BY <1>7, <1>10
  <2>4. Range(q) \subseteq Caller
    BY <1>3, Ranges
  <2>5. \A d \in Range(queue') : ~Requested(d)' /\ notified'[d] = <<>>
    BY <1>6, <1>7, <1>10, <2>1, <2>4
  <2>6. ASSUME NEW d \in Caller
        PROVE  /\ Len(notified'[d]) <= 1
               /\ d \in Range(queue') \/ Requested(d)' \/ notified'[d] # <<>> =>
                     pc'[d] \in {"propose", "wait"}
               /\ Requested(d)' => notified'[d] = <<>>
    BY <1>3, <1>7, <1>10, <2>1, <2>3 DEF QueueInv
  <2>7. /\ Once(queue') /\ \A u \in Threads : Once(request'[u])
        /\ \A u \in Threads : request'[u] = <<>> <=> ~Proposing(u)'
        /\ \A u, v \in Threads : u # v => Range(request'[u]) \cap Range(request'[v]) = {}
    BY <1>5, <1>10, <2>2 DEF QueueInv
  <2> QED
    BY <1>10, <2>5, <2>6, <2>7 DEF QueueInv
<1> QED
  BY <1>1, <1>9, <1>10 DEF AddProposal

LEMMA LoopQueue ==
  ASSUME BatchTypes, QueueInv, RunLoops
  PROVE  QueueInv' /\ \A u \in Caller : request'[u] = request[u]
<1>1. batcher = "loop" /\ pc' = pc /\ notified' = notified
  BY DEF RunLoops
<1>2. CASE isEnd
  <2>1. UNCHANGED <<pc, notified, queue, request>> /\ batcher' = "drain"
    BY <1>2 DEF RunLoops
  <2>2. \A u \in Threads : Proposing(u)' <=> Proposing(u)
    BY <1>1, <2>1 DEF Proposing
  <2> QED
    BY <2>1, <2>2 DEF QueueInv, Requested, Once
<1>3. CASE ~isEnd
  <2>1. PluckProposal(Batcher, queue, queueSize) /\ queue # <<>> /\ batcher' = "propose"
    BY <1>3 DEF RunLoops
  <2>2. queue \in Seq(Caller) /\ Range(queue) \subseteq Caller
    BY Ranges DEF BatchTypes
  <2>3. ~Proposing(Batcher) /\ \A u \in Threads : Proposing(u)' <=> (u = Batcher \/ Proposing(u))
    BY <1>1, <2>1 DEF Proposing
  <2>4. /\ Once(queue) /\ \A c \in Range(queue) : ~Requested(c) /\ notified[c] = <<>>
        /\ \A c \in Range(queue) : pc'[c] \in {"propose", "wait"}
    BY <1>1, <2>2 DEF QueueInv
  <2>5. QueueInv' /\ \A u \in Threads : u # Batcher => request'[u] = request[u]
    BY <1>1, <2>1, <2>2, <2>3, <2>4, ThreadFacts, PluckQueue
  <2> QED
    BY <2>5, ThreadFacts
<1> QED
  BY <1>2, <1>3

(* The steps of callers and of Run.                                        *)
LEMMA BatchingQueue ==
  ASSUME BatchTypes, QueueInv,
         \/ \E c \in Caller : Propose(c) \/ AddProposal(c) \/ WaitNotify(c)
         \/ RunStarts \/ RunLoops \/ RunEnds \/ Stop \/ RestartBatch
  PROVE  QueueInv'
<1>1. ASSUME NEW c \in Caller, Propose(c) PROVE QueueInv'
  <2>1. /\ UNCHANGED <<queue, request, notified, batcher>> /\ pc[c] = "idle"
        /\ \A d \in Caller : pc'[d] = IF d = c THEN "add" ELSE pc[d]
    BY <1>1 DEF Propose, BatchTypes
  <2>2. \A u \in Threads : Proposing(u)' <=> Proposing(u)
    BY <2>1, ThreadFacts DEF Proposing
  <2>3. \A d \in Caller : Requested(d)' <=> Requested(d)
    BY <2>1 DEF Requested
  <2>4. ASSUME NEW d \in Caller
        PROVE  d \in Range(queue') \/ Requested(d)' \/ notified'[d] # <<>> =>
                     pc'[d] \in {"propose", "wait"}
    <3>1. d \in Range(queue) \/ Requested(d) \/ notified[d] # <<>> => pc[d] \in {"propose", "wait"}
      BY DEF QueueInv
    <3> QED
      BY <2>1, <2>3, <3>1
  <2> QED
    BY <2>1, <2>2, <2>3, <2>4 DEF QueueInv, Requested
<1>2. ASSUME NEW c \in Caller, WaitNotify(c) PROVE QueueInv'
  <2>1. /\ UNCHANGED <<queue, request, batcher>> /\ pc[c] = "wait" /\ notified[c] # <<>>
        /\ \A d \in Caller : pc'[d] = IF d = c THEN "idle" ELSE pc[d]
        /\ \A d \in Caller : notified'[d] = IF d = c THEN Tail(notified[c]) ELSE notified[d]
        /\ notified[c] \in Seq(Results)
    BY <1>2 DEF WaitNotify, BatchTypes
  <2>2. Tail(notified[c]) = <<>> /\ Len(<<>>) = 0
    <3>1. Len(notified[c]) <= 1
      BY DEF QueueInv
    <3> QED
      BY <2>1, <3>1
  <2>3. \A u \in Threads : Proposing(u)' <=> Proposing(u)
    BY <2>1, ThreadFacts DEF Proposing
  <2>4. \A d \in Caller : Requested(d)' <=> Requested(d)
    BY <2>1 DEF Requested
  <2>5. c \notin Range(queue) /\ ~Requested(c) /\ Range(queue) \subseteq Caller
    BY <2>1, Ranges DEF QueueInv, BatchTypes
  <2>6. \A d \in Range(queue') : ~Requested(d)' /\ notified'[d] = <<>>
    BY <2>1, <2>4, <2>5 DEF QueueInv
  <2>7. ASSUME NEW d \in Caller
        PROVE  /\ Len(notified'[d]) <= 1
               /\ d \in Range(queue') \/ Requested(d)' \/ notified'[d] # <<>> =>
                     pc'[d] \in {"propose", "wait"}
               /\ Requested(d)' => notified'[d] = <<>>
    <3>1. CASE d = c
      <4>1. notified'[d] = <<>> /\ Len(notified'[d]) = 0
        BY <2>1, <2>2, <3>1
      <4> QED
        BY <2>1, <2>4, <2>5, <3>1, <4>1
    <3>2. CASE d # c
      BY <2>1, <2>4, <3>2 DEF QueueInv
    <3> QED
      BY <3>1, <3>2
  <2> QED
    BY <2>1, <2>3, <2>6, <2>7 DEF QueueInv
<1>3. ASSUME RunStarts \/ Stop PROVE QueueInv'
  <2>1. /\ UNCHANGED <<pc, queue, request, notified>>
        /\ batcher' = batcher \/ (batcher = "new" /\ batcher' = "loop")
    <3>1. CASE RunStarts
      BY <3>1 DEF RunStarts
    <3>2. CASE Stop
      BY <3>2 DEF Stop
    <3> QED
      BY <1>3, <3>1, <3>2
  <2>2. \A u \in Threads : Proposing(u)' <=> Proposing(u)
    BY <2>1 DEF Proposing
  <2> QED
    BY <2>1, <2>2 DEF QueueInv, Requested
<1>4. ASSUME RunEnds PROVE QueueInv'
  <2>1. /\ UNCHANGED <<pc, request>> /\ batcher = "drain" /\ batcher' = "ended" /\ queue' = <<>>
        /\ \A c \in Caller : notified'[c] = IF c \in Range(queue)
                                            THEN Append(notified[c], "SystemError") ELSE notified[c]
        /\ Range(<<>>) = {} /\ Len(<<>>) = 0 /\ Range(queue) \subseteq Caller
    BY <1>4, Ranges DEF RunEnds, BatchTypes
  <2>2. \A u \in Threads : Proposing(u)' <=> Proposing(u)
    BY <2>1 DEF Proposing
  <2>3. \A d \in Caller : Requested(d)' <=> Requested(d)
    BY <2>1 DEF Requested
  <2>4. \A c \in Range(queue) : notified'[c] = <<"SystemError">> /\ ~Requested(c)
    <3>1. Append(<<>>, "SystemError") = <<"SystemError">>
      OBVIOUS
    <3> QED
      BY <2>1, <3>1 DEF QueueInv
  <2>5. ASSUME NEW d \in Caller
        PROVE  /\ Len(notified'[d]) <= 1
               /\ Requested(d)' \/ notified'[d] # <<>> => pc'[d] \in {"propose", "wait"}
               /\ Requested(d)' => notified'[d] = <<>>
    <3>1. CASE d \in Range(queue)
      <4>1. Len(notified'[d]) <= 1
        BY <2>4, <3>1, OneResult
      <4>2. ~Requested(d)' /\ pc'[d] \in {"propose", "wait"}
        BY <2>1, <2>3, <2>4, <3>1 DEF QueueInv
      <4> QED
        BY <4>1, <4>2
    <3>2. CASE d \notin Range(queue)
      BY <2>1, <2>3, <3>2 DEF QueueInv
    <3> QED
      BY <3>1, <3>2
  <2>6. Once(<<>>)
    BY NoRange
  <2> QED
    BY <2>1, <2>2, <2>5, <2>6 DEF QueueInv
<1>5. ASSUME RestartBatch PROVE QueueInv'
  <2>1. /\ queue' = <<>> /\ \A t \in Threads : request'[t] = <<>>
        /\ \A c \in Caller : notified'[c] = <<>> /\ pc'[c] = "idle"
        /\ batcher' = "new" /\ Range(<<>>) = {} /\ Len(<<>>) = 0
    BY <1>5, NoRange DEF RestartBatch
  <2>2. \A t \in Threads : ~Proposing(t)'
    BY <2>1, ThreadFacts DEF Proposing
  <2> QED
    BY <2>1, <2>2 DEF QueueInv, Once, Requested
<1> QED
  BY <1>1, <1>2, <1>3, <1>4, <1>5, AddQueue, LoopQueue

-----------------------------------------------------------------------------
(* A value stays what it is while its call goes on.                        *)

LEMMA SameValue ==
  ASSUME Types, QueueInv, QueueInv', NEW t \in User \cup Threads, InPropose(t),
         t \in User => op'[t] = op[t], t \in Threads => request'[t] = request[t],
         \A c \in Caller : Requested(c) => batched'[c] = batched[c]
  PROVE  Value(t)' = Value(t) /\ InPropose(t)'
<1>1. CASE t \in User
  BY <1>1 DEF Value, InPropose
<1>2. CASE t \in Threads
  <2>1. t \notin User /\ request'[t] = request[t] /\ request[t] # <<>>
        /\ request[t] \in Seq(Caller)
    BY <1>2, ThreadFacts DEF InPropose, QueueInv, Types, BatchTypes
  <2>2. InPropose(t)'
    BY <1>2, <2>1 DEF InPropose, QueueInv
  <2>3. PICK r \in Seq(Caller) : r = request[t]
    BY <2>1
  <2>4. DOMAIN r = 1 .. Len(r) /\ \A i \in 1 .. Len(r) : r[i] \in Range(r) /\ r[i] \in Caller
    BY Ranges, LenProperties
  <2>5. \A i \in 1 .. Len(r) : Requested(r[i])
    BY <1>2, <2>3, <2>4 DEF Requested
  <2>6. \A i \in 1 .. Len(r) : BatchEntry(r[i])' = BatchEntry(r[i])
    BY <2>4, <2>5 DEF BatchEntry
  <2>7. Value(t) = [i \in 1 .. Len(r) |-> BatchEntry(r[i])]
    BY <2>1, <2>3, <2>4 DEF Value
  <2>8. Value(t)' = [i \in 1 .. Len(r) |-> BatchEntry(r[i])']
    BY <2>1, <2>3, <2>4 DEF Value
  <2>9. [i \in 1 .. Len(r) |-> BatchEntry(r[i])'] = [i \in 1 .. Len(r) |-> BatchEntry(r[i])]
    BY <2>6
  <2> QED
    BY <2>2, <2>7, <2>8, <2>9
<1> QED
  BY <1>1, <1>2

(* Nothing is sent or answered.                                            *)
LEMMA SameKeeps ==
  ASSUME Types, QueueInv, UNCHANGED batchVars, NEW t \in User \cup Threads, InPropose(t),
         t \in User => op'[t] = op[t]
  PROVE  Value(t)' = Value(t) /\ InPropose(t)'
<1>1. QueueInv'
  BY SameQueue
<1>2. request' = request /\ batched' = batched
  BY DEF batchVars
<1> QED
  BY <1>1, <1>2, SameValue

LEMMA CallerReturnKeeps ==
  ASSUME Types, QueueInv, NEW c \in Caller, CallerReturns(c)
  PROVE  /\ QueueInv'
         /\ \A t \in User \cup Threads : InPropose(t) => Value(t)' = Value(t) /\ InPropose(t)'
<1>1. QueueInv'
  BY BatchingQueue DEF CallerReturns, Types
<1>2. request' = request /\ batched' = batched /\ op' = op
  BY DEF CallerReturns, WaitNotify
<1> QED
  BY <1>1, <1>2, SameValue

LEMMA BatchingKeeps ==
  ASSUME Types, QueueInv, Batching
  PROVE  /\ QueueInv'
         /\ \A t \in User \cup Threads : InPropose(t) => Value(t)' = Value(t) /\ InPropose(t)'
         /\ \A t \in Threads : Proposing(t) => request'[t] = request[t]
         /\ \A c \in Caller : Requested(c) => batched'[c] = batched[c]
<1>1. QueueInv'
  BY BatchingQueue DEF Batching, Types
<1>2. op' = op
  BY DEF Batching, appVars
<1>3. /\ \A t \in Threads : Proposing(t) => request'[t] = request[t]
      /\ \A c \in Caller : Requested(c) => batched'[c] = batched[c]
  <2>1. ASSUME NEW c \in Caller, Propose(c)
        PROVE  request' = request /\ \A d \in Caller : Requested(d) => batched'[d] = batched[d]
    <3>1. request' = request /\ \A d \in Caller : d # c => batched'[d] = batched[d]
      BY <2>1 DEF Propose, Types, BatchTypes
    <3>2. ~Requested(c)
      BY <2>1 DEF Propose, QueueInv
    <3> QED
      BY <3>1, <3>2
  <2>2. ASSUME NEW c \in Caller, AddProposal(c)
        PROVE  batched' = batched /\ \A t \in Threads : Proposing(t) => request'[t] = request[t]
    <3>1. batched' = batched /\ pc[c] = "add" /\ c # Batcher
      BY <2>2, ThreadFacts DEF AddProposal
    <3>2. ~Proposing(c)
      BY <3>1 DEF Proposing
    <3> QED
      BY <2>2, <3>1, <3>2, AddQueue DEF Types
  <2>3. ASSUME RunLoops
        PROVE  batched' = batched /\ \A t \in Threads : Proposing(t) => request'[t] = request[t]
    <3>1. batched' = batched /\ ~Proposing(Batcher)
      BY <2>3 DEF RunLoops, Proposing
    <3> QED
      BY <2>3, <3>1, LoopQueue, ThreadFacts DEF Types
  <2>4. ASSUME RunStarts \/ RunEnds \/ Stop PROVE batched' = batched /\ request' = request
    BY <2>4 DEF RunStarts, RunEnds, Stop
  <2> QED
    BY <2>1, <2>2, <2>3, <2>4 DEF Batching
<1>4. ASSUME NEW t \in User \cup Threads, InPropose(t) PROVE Value(t)' = Value(t) /\ InPropose(t)'
  <2>1. t \in Threads => Proposing(t)
    BY <1>4, ThreadFacts DEF InPropose
  <2> QED
    BY <1>1, <1>2, <1>3, <1>4, <2>1, SameValue
<1> QED
  BY <1>1, <1>3, <1>4

LEMMA EndsKeep ==
  ASSUME Types, QueueInv, NEW t \in User \cup Threads, InPropose(t),
         NEW ret \in Results, NEW inst \in Nat, NEW er, ProposeEnds(t, ret, inst, er)
  PROVE  /\ QueueInv' /\ batched' = batched
         /\ \A u \in User \cup Threads : u # t /\ InPropose(u) =>
               Value(u)' = Value(u) /\ InPropose(u)'
<1>1. /\ t \in User => /\ UNCHANGED batchVars /\ op' = [op EXCEPT ![t] = None]
      /\ t \in Threads => ProposeReturns(t, ret, inst) /\ op' = op
  BY EndsFacts
<1>2. /\ QueueInv' /\ batched' = batched
      /\ \A u \in Threads : u # t => request'[u] = request[u]
  <2>1. CASE t \in User
    <3>1. UNCHANGED batchVars
      BY <1>1, <2>1
    <3>2. QueueInv'
      BY <3>1, SameQueue
    <3> QED
      BY <3>1, <3>2 DEF batchVars
  <2>2. CASE t \in Threads
    <3>1. ProposeReturns(t, ret, inst)
      BY <1>1, <2>2
    <3>2. batched' = batched
      BY <3>1 DEF ProposeReturns
    <3> QED
      BY <2>2, <3>1, <3>2, ReturnQueue DEF Types
  <2> QED
    BY <2>1, <2>2
<1>3. \A u \in User : u # t => op'[u] = op[u]
  <2>1. CASE t \in User
    BY <1>1, <2>1 DEF Types, AppTypes
  <2>2. CASE t \in Threads
    BY <1>1, <2>2
  <2> QED
    BY <2>1, <2>2
<1> QED
  BY <1>2, <1>3, SameValue

(* The entry is executed, perhaps as the last one of the instance.         *)
LEMMA ExecuteEnds ==
  ASSUME Types, QueueInv, ExecInv, ExecuteEntry
  PROVE  IF AtLast /\ mine # None
         THEN /\ mine \in User \cup Threads /\ InPropose(mine)
              /\ ProposeEnds(mine, "OK", executed + 1,
                             IF Entry.sm = "kv" THEN ExecuteRet(Entry.op) ELSE None)
              /\ "OK" \in Results /\ executed + 1 \in Nat
         ELSE UNCHANGED <<batchVars, op, told, ended>>
<1>1. executed + 1 \in Nat
  BY DEF Types, AppTypes
<1>2. mine # None => mine \in User \cup Threads /\ InPropose(mine)
  BY DEF Types, AppTypes, ExecInv
<1>3. "OK" \in Results
  BY DEF Results
<1> QED
  BY <1>1, <1>2, <1>3 DEF ExecuteEntry

LEMMA FailEnds ==
  ASSUME Types, QueueInv, ExecInv, ExecuteFails
  PROVE  IF mine # None
         THEN /\ mine \in User \cup Threads /\ InPropose(mine)
              /\ ProposeEnds(mine, "ExecuteFail", 0, None)
              /\ "ExecuteFail" \in Results /\ 0 \in Nat
         ELSE UNCHANGED <<batchVars, op, told, ended>>
<1>1. mine # None => mine \in User \cup Threads /\ InPropose(mine)
  BY DEF Types, AppTypes, ExecInv
<1>2. "ExecuteFail" \in Results
  BY DEF Results
<1> QED
  BY <1>1, <1>2 DEF ExecuteFails

(* The steps keep QueueInv.                                                *)
LEMMA QueueStep ==
  ASSUME Types, QueueInv, ExecInv, [Next]_vars
  PROVE  QueueInv'
<1>1. ASSUME UNCHANGED batchVars PROVE QueueInv'
  BY <1>1, SameQueue
<1>2. ASSUME NEW t \in User \cup Threads, NEW ret \in {"Timeout", "Conflict"}, NotDecided(t, ret)
      PROVE  QueueInv'
  <2>1. InPropose(t) /\ ProposeEnds(t, ret, 0, None) /\ ret \in Results
    BY <1>2 DEF NotDecided, Proposers, Results
  <2> QED
    BY <2>1, EndsKeep
<1>3. ASSUME ExecuteEntry PROVE QueueInv'
  BY <1>1, <1>3, ExecuteEnds, EndsKeep
<1>4. ASSUME ExecuteFails PROVE QueueInv'
  BY <1>1, <1>4, FailEnds, EndsKeep
<1>5. ASSUME NEW machine \in BOOLEAN, NEW accepted \in SUBSET Proposers, Crash(machine, accepted)
      PROVE  QueueInv'
  BY <1>5, BatchingQueue DEF Crash, Types
<1>6. ASSUME \/ UNCHANGED vars \/ \E u \in User : UserCalls(u)
             \/ \E t \in User \cup Threads : DecideMine(t)
             \/ \E v \in floating : DecideFloating(v)
             \/ \E k \in Key, type \in OtherTypes : DecideOther(k, type)
             \/ PlayLogFails \/ Ready
      PROVE  UNCHANGED batchVars
  BY <1>6 DEF vars, UserCalls, Call, DecideMine, DecideFloating, DecideOther, PlayLogFails, Ready
<1> QED
  BY <1>1, <1>2, <1>3, <1>4, <1>5, <1>6, BatchingKeeps, CallerReturnKeeps DEF Next

LEMMA ExecInit == Init => ExecInv
<1> SUFFICES ASSUME Init PROVE ExecInv
  OBVIOUS
<1>1. log = <<>> /\ executed = 0 /\ pos = 0 /\ mine = None /\ Len(<<>>) = 0
  BY DEF Init
<1> QED
  BY <1>1 DEF ExecInv

(* A value is decided: nothing was being executed.                         *)
LEMMA DecideFacts ==
  ASSUME Types, ExecInv, Idle, NEW v \in Values, log' = Append(log, v), executed' = executed,
         pos' = pos
  PROVE  /\ mine = None /\ pos = 0 /\ Len(log) = executed /\ Len(log') = Len(log) + 1
         /\ Len(log) \in Nat /\ log'[Len(log')] = v /\ Range(log') = Range(log) \cup {v}
         /\ \A i \in 1 .. Len(log) : log'[i] = log[i]
         /\ IF executed' < Len(log') THEN pos' < Len(log'[executed' + 1]) ELSE pos' = 0
<1>1. log \in Seq(Values) /\ Len(v) \in Nat \ {0}
  BY ValueFacts DEF Types, AppTypes
<1>2. /\ Len(log') = Len(log) + 1 /\ Len(log) \in Nat /\ log'[Len(log) + 1] = v
      /\ Range(log') = Range(log) \cup {v} /\ \A i \in 1 .. Len(log) : log'[i] = log[i]
  BY <1>1, LogGrows
<1>3. mine = None /\ pos = 0 /\ executed = Len(log) /\ executed < Len(log')
  BY <1>2 DEF Idle, ExecInv
<1> QED
  BY <1>1, <1>2, <1>3

LEMMA NextInstance == ASSUME NEW x \in Nat, NEW y \in Nat, x < y PROVE x + 1 \in 1 .. y
OBVIOUS

LEMMA ExecStep ==
  ASSUME Types, QueueInv, ExecInv, [Next]_vars
  PROVE  ExecInv'
<1>1. ASSUME UNCHANGED <<log, executed, pos, mine, ready>>,
             mine # None => Value(mine)' = Value(mine) /\ InPropose(mine)'
      PROVE  ExecInv'
  BY <1>1 DEF ExecInv
<1>2. mine # None => mine \in User \cup Threads /\ InPropose(mine)
  BY DEF Types, AppTypes, ExecInv
<1>3. ASSUME UNCHANGED vars PROVE ExecInv'
  <2>1. UNCHANGED <<log, executed, pos, mine, ready>> /\ op' = op /\ UNCHANGED batchVars
    BY <1>3 DEF vars, appVars
  <2> QED
    BY <1>1, <1>2, <2>1, SameKeeps
<1>4. ASSUME NEW u \in User, UserCalls(u) PROVE ExecInv'
  <2>1. /\ UNCHANGED <<log, executed, pos, mine, ready>> /\ UNCHANGED batchVars
        /\ op[u] = None /\ \A w \in User : w # u => op'[w] = op[w]
    BY <1>4 DEF UserCalls, Call, Types, AppTypes
  <2>2. mine # u
    BY <1>2, <2>1, ThreadFacts DEF InPropose
  <2> QED
    BY <1>1, <1>2, <2>1, <2>2, SameKeeps
<1>5. ASSUME Batching PROVE ExecInv'
  <2>1. UNCHANGED <<log, executed, pos, mine, ready>>
    BY <1>5 DEF Batching, appVars
  <2> QED
    BY <1>1, <1>2, <1>5, <2>1, BatchingKeeps
<1>6. ASSUME NEW c \in Caller, CallerReturns(c) PROVE ExecInv'
  <2>1. UNCHANGED <<log, executed, pos, mine, ready>>
    BY <1>6 DEF CallerReturns
  <2> QED
    BY <1>1, <1>2, <1>6, <2>1, CallerReturnKeeps
<1>7. ASSUME NEW t \in User \cup Threads, NEW ret \in {"Timeout", "Conflict"}, NotDecided(t, ret)
      PROVE  ExecInv'
  <2>1. InPropose(t) /\ ProposeEnds(t, ret, 0, None) /\ ret \in Results /\ mine # t
        /\ UNCHANGED <<log, executed, pos, mine, ready>>
    BY <1>7 DEF NotDecided, Proposers, Results
  <2> QED
    BY <1>1, <1>2, <2>1, EndsKeep
<1>8. ASSUME NEW t \in User \cup Threads, DecideMine(t) PROVE ExecInv'
  <2>1. InPropose(t) /\ UNCHANGED batchVars /\ op' = op /\ mine' = t /\ executed' = executed
        /\ pos' = pos /\ ready' = ready /\ log' = Append(log, Value(t)) /\ Idle
    BY <1>8 DEF DecideMine, Proposers
  <2>2. Value(t) \in Values /\ Value(t)' = Value(t) /\ InPropose(t)'
    BY <2>1, ValueOf, SameKeeps
  <2> QED
    BY <2>1, <2>2, DecideFacts DEF ExecInv, Idle
<1>9. ASSUME \/ \E v \in floating : DecideFloating(v)
             \/ \E k \in Key, type \in OtherTypes : DecideOther(k, type)
      PROVE  ExecInv'
  <2>1. Idle /\ executed' = executed /\ pos' = pos /\ mine' = mine
    BY <1>9 DEF DecideFloating, DecideOther
  <2>2. PICK v \in Values : log' = Append(log, v)
    <3>1. CASE \E v \in floating : DecideFloating(v)
      BY <3>1 DEF DecideFloating, Types, AppTypes
    <3>2. CASE \E k \in Key, type \in OtherTypes : DecideOther(k, type)
      BY <3>2, OtherValue
    <3> QED
      BY <1>9, <3>1, <3>2
  <2> QED
    BY <2>1, <2>2, DecideFacts DEF ExecInv
<1>10. /\ Len(log) \in Nat /\ executed \in 0 .. Len(log) /\ savedCP \in 0 .. Len(log)
       /\ \A i \in 1 .. Len(log) : Len(log[i]) \in Nat /\ 0 < Len(log[i])
  <2>1. log \in Seq(Values) /\ executed \in 0 .. Len(log) /\ savedCP \in 0 .. executed
    BY DEF Types, AppTypes, StoreTypes
  <2> QED
    BY <2>1, LogFacts, ValueFacts
<1>11. ASSUME log' = log, NEW n \in 0 .. Len(log), executed' = n, pos' = 0, mine' = None
       PROVE  ExecInv'
  <2>1. n \in Nat /\ Len(log) \in Nat
    BY <1>10
  <2>2. CASE n < Len(log)
    <3>1. n + 1 \in 1 .. Len(log)
      BY <2>1, <2>2
    <3>2. 0 < Len(log[n + 1])
      BY <1>10, <3>1
    <3> QED
      BY <1>11, <2>2, <3>2 DEF ExecInv
  <2>3. CASE ~(n < Len(log))
    BY <1>11, <2>3 DEF ExecInv
  <2> QED
    BY <2>2, <2>3
<1>12. ASSUME ExecuteEntry PROVE ExecInv'
  <2>1. CASE AtLast
    <3>1. executed' = executed + 1 /\ executed < Len(log) /\ log' = log /\ pos' = 0 /\ mine' = None
      BY <1>12, <2>1 DEF ExecuteEntry
    <3>2. executed + 1 \in 0 .. Len(log)
      BY <1>10, <3>1
    <3> QED
      BY <1>11, <3>1, <3>2
  <2>2. CASE ~AtLast
    <3>1. /\ executed' = executed /\ executed < Len(log) /\ log' = log /\ pos' = pos + 1
          /\ mine' = mine /\ ready' = ready /\ UNCHANGED batchVars /\ op' = op
      BY <1>12, <2>2 DEF ExecuteEntry
    <3>2. executed + 1 \in 1 .. Len(log) /\ pos \in Nat /\ pos < Len(log[executed + 1])
          /\ pos + 1 # Len(log[executed + 1])
      BY <1>10, <2>2, <3>1 DEF AtLast, ExecInv, Types, AppTypes
    <3>3. pos' < Len(log'[executed' + 1])
      BY <1>10, <3>1, <3>2
    <3>4. mine # None => Value(mine)' = Value(mine) /\ InPropose(mine)'
      BY <1>2, <3>1, SameKeeps
    <3> QED
      BY <3>1, <3>3, <3>4 DEF ExecInv
  <2> QED
    BY <2>1, <2>2
<1>13. ASSUME ExecuteFails PROVE ExecInv'
  BY <1>10, <1>11, <1>13 DEF ExecuteFails
<1>14. ASSUME PlayLogFails PROVE ExecInv'
  <2>1. mine' = None
    BY <1>14 DEF PlayLogFails, ExecInv
  <2> QED
    BY <1>10, <1>11, <1>14, <2>1 DEF PlayLogFails
<1>15. ASSUME NEW machine \in BOOLEAN, NEW accepted \in SUBSET Proposers, Crash(machine, accepted)
       PROVE  ExecInv'
  BY <1>10, <1>11, <1>15 DEF Crash
<1>16. ASSUME Ready PROVE ExecInv'
  <2>1. UNCHANGED <<log, executed, pos, mine>> /\ mine = None
    BY <1>16 DEF Ready, ExecInv
  <2> QED
    BY <2>1 DEF ExecInv
<1> QED
  BY <1>3, <1>4, <1>5, <1>6, <1>7, <1>8, <1>9, <1>12, <1>13, <1>14, <1>15, <1>16 DEF Next


-----------------------------------------------------------------------------
(* The versions of operations.                                             *)

LEMMA VersionOlder ==
  ASSUME NEW l \in Seq(Values), NEW m, NEW o \in Operations, NEW n \in Nat, NEW j \in Nat,
         n <= Len(l), \A i \in 1 .. n : l[i] = m[i], HadVersion(o, m, j), j <= n
  PROVE  HadVersion(o, l, n)
<1>1. WinsIn(l, o.key, j) = WinsIn(m, o.key, j)
  BY WinsPrefix
<1>2. /\ Len(WinsIn(l, o.key, j)) <= Len(WinsIn(l, o.key, n))
      /\ Len(WinsIn(l, o.key, n)) \in Nat /\ Len(WinsIn(l, o.key, j)) \in Nat
  BY WinsGrow
<1>3. o.version \in Nat
  BY OperationFacts
<1> QED
  BY <1>1, <1>2, <1>3 DEF HadVersion

(* A value that a proposer has, if it is an operation of a user.           *)
LEMMA ProposedVersion ==
  ASSUME Types, QueueInv, VersionsInv, NEW t \in Proposers, Value(t)[1].sm = "kv"
  PROVE  /\ t \in User /\ op[t] \in Operations /\ Value(t)[1].op = op[t]
         /\ HadVersion(op[t], log, Len(log))
<1>1. t \in User \cup Threads /\ InPropose(t) /\ mine # t
  BY DEF Proposers
<1>2. Value(t) \in Values /\ 1 \in 1 .. Len(Value(t))
  BY <1>1, ValueOf, ValueFacts
<1>3. t \notin Threads
  <2> SUFFICES ASSUME t \in Threads PROVE FALSE
    OBVIOUS
  <2> QED
    BY <1>1, <1>2, ValueOf
<1>4. t \in User /\ op[t] \in Operations /\ Value(t)[1].op = op[t]
  BY <1>1, <1>3, ValueOf
<1>5. op[t] # None
  BY <1>1, <1>4 DEF InPropose
<1> QED
  BY <1>1, <1>4, <1>5 DEF VersionsInv

(* A step that leaves the log alone.                                       *)
LEMMA VersionsSame ==
  ASSUME Types, QueueInv, VersionsInv, log' = log,
         floating' \subseteq floating \cup {Value(t) : t \in Proposers},
         \A u \in User : op'[u] # None /\ mine' # u =>
            HadVersion(op'[u], log, Len(log)) \/ (op'[u] = op[u] /\ mine # u)
  PROVE  VersionsInv'
<1>1. \A i \in 1 .. Len(log') : log'[i][1].sm = "kv" =>
          HadVersion(log'[i][1].op, log', i - 1)
  BY DEF VersionsInv
<1>2. ASSUME NEW v \in floating', v[1].sm = "kv" PROVE HadVersion(v[1].op, log', Len(log'))
  <2>1. CASE v \in floating
    BY <2>1, <1>2 DEF VersionsInv
  <2>2. CASE v \notin floating
    <3>1. PICK t \in Proposers : v = Value(t)
      BY <2>2
    <3> QED
      BY <3>1, <1>2, ProposedVersion
  <2> QED
    BY <2>1, <2>2
<1>3. \A u \in User : op'[u] # None /\ mine' # u => HadVersion(op'[u], log', Len(log'))
  BY DEF VersionsInv
<1> QED
  BY <1>1, <1>2, <1>3 DEF VersionsInv

(* A decision.                                                             *)
LEMMA VersionsGrow ==
  ASSUME Types, VersionsInv, NEW v \in Values, log' = Append(log, v), op' = op,
         floating' \subseteq floating,
         v[1].sm = "kv" => HadVersion(v[1].op, log, Len(log)),
         \A u \in User : op[u] # None /\ mine' # u => mine # u
  PROVE  VersionsInv'
<1>0. log \in Seq(Values) /\ floating \subseteq Values /\ op \in [User -> Operations \cup {None}]
  BY DEF Types, AppTypes
<1>1. /\ log' \in Seq(Values) /\ Len(log') = Len(log) + 1 /\ Len(log) \in Nat
      /\ \A i \in 1 .. Len(log) : log'[i] = log[i] /\ log[i] \in Values
      /\ log'[Len(log) + 1] = v
  BY <1>0, LogGrows
<1>2. ASSUME NEW o \in Operations, NEW n \in Nat, NEW j \in Nat, j <= n, n <= Len(log'),
             j <= Len(log), HadVersion(o, log, j)
      PROVE  HadVersion(o, log', n)
  <2>1. \A i \in 1 .. j : log'[i] = log[i]
    BY <1>1, <1>2
  <2>2. j <= Len(log')
    BY <1>1, <1>2
  <2>3. HadVersion(o, log', j)
    <3>1. WinsIn(log, o.key, j) = WinsIn(log', o.key, j)
      BY <2>1, WinsPrefix
    <3> QED
      BY <3>1, <1>2 DEF HadVersion
  <2> QED
    BY <2>3, <1>1, <1>2, VersionOlder
<1>3. ASSUME NEW i \in 1 .. Len(log'), log'[i][1].sm = "kv"
      PROVE  HadVersion(log'[i][1].op, log', i - 1)
  <2>1. CASE i \in 1 .. Len(log)
    <3>1. log'[i] = log[i] /\ log[i] \in Values /\ i - 1 \in Nat /\ i - 1 <= Len(log)
          /\ i - 1 <= Len(log')
      BY <2>1, <1>1
    <3>2. log[i][1].op \in Operations
      BY <3>1, <1>3, ValueFacts
    <3>3. HadVersion(log[i][1].op, log, i - 1)
      BY <3>1, <2>1, <1>3 DEF VersionsInv
    <3> QED
      BY <3>1, <3>2, <3>3, <1>2
  <2>2. CASE i \notin 1 .. Len(log)
    <3>1. i = Len(log) + 1 /\ i - 1 = Len(log) /\ i - 1 <= Len(log')
      BY <2>2, <1>1
    <3>2. log'[i] = v /\ v[1].op \in Operations
      BY <3>1, <1>1, <1>3, ValueFacts
    <3> QED
      BY <3>1, <3>2, <1>1, <1>2, <1>3
  <2> QED
    BY <2>1, <2>2
<1>4. Len(log) \in Nat /\ Len(log') \in Nat /\ Len(log) <= Len(log')
  BY <1>1
<1>5. ASSUME NEW w \in floating', w[1].sm = "kv" PROVE HadVersion(w[1].op, log', Len(log'))
  <2>1. w \in floating /\ w \in Values /\ w[1].op \in Operations
    <3>1. w \in floating /\ w \in Values
      BY <1>0
    <3> QED
      BY <3>1, <1>5, ValueFacts
  <2>2. HadVersion(w[1].op, log, Len(log))
    BY <2>1, <1>5 DEF VersionsInv
  <2> QED
    BY <2>1, <2>2, <1>4, <1>2
<1>6. ASSUME NEW u \in User, op'[u] # None, mine' # u PROVE HadVersion(op'[u], log', Len(log'))
  <2>1. op'[u] = op[u] /\ op[u] \in Operations /\ mine # u
    BY <1>6, <1>0
  <2>2. HadVersion(op[u], log, Len(log))
    BY <2>1, <1>6 DEF VersionsInv
  <2> QED
    BY <2>1, <2>2, <1>4, <1>2
<1> QED
  BY <1>3, <1>5, <1>6 DEF VersionsInv

(* Who is not told yet has its operation still.                            *)
LEMMA EndsOps ==
  ASSUME Types, QueueInv, NEW t \in User \cup Threads, InPropose(t),
         NEW ret \in Results, NEW inst \in Nat, NEW er, ProposeEnds(t, ret, inst, er)
  PROVE  \A u \in User : op'[u] # None => u # t /\ op'[u] = op[u]
<1>1. op \in [User -> Operations \cup {None}]
  BY DEF Types, AppTypes
<1>2. CASE t \in User
  <2>1. op' = [op EXCEPT ![t] = None]
    BY <1>2, EndsFacts
  <2> QED
    BY <2>1, <1>1
<1>3. CASE t \in Threads
  <2>1. op' = op
    BY <1>3, EndsFacts
  <2> QED
    BY <2>1, <1>3, ThreadFacts
<1> QED
  BY <1>2, <1>3

(* The end of the commit that the instance was, however it ends.           *)
LEMMA CommitOps ==
  ASSUME Types, QueueInv, ExecInv, (ExecuteEntry /\ AtLast) \/ ExecuteFails
  PROVE  /\ log' = log /\ floating' = floating
         /\ \A u \in User : op'[u] # None => u # mine /\ op'[u] = op[u]
<1>1. log' = log /\ floating' = floating
  BY DEF ExecuteEntry, ExecuteFails
<1>2. CASE mine = None
  <2>1. op' = op
    BY <1>2 DEF ExecuteEntry, ExecuteFails
  <2> QED
    BY <1>1, <1>2, <2>1, ThreadFacts
<1>3. CASE mine # None /\ ExecuteEntry /\ AtLast
  BY <1>1, <1>3, ExecuteEnds, EndsOps
<1>4. CASE mine # None /\ ExecuteFails
  BY <1>1, <1>4, FailEnds, EndsOps
<1> QED
  BY <1>2, <1>3, <1>4

(* A version that a user has read.                                         *)
LEMMA VersionRead ==
  ASSUME Types, NEW k, NEW n \in 0 .. Len(log), NEW o \in Operations, o.key = k,
         o.version = Len(Wins(k, n))
  PROVE  HadVersion(o, log, Len(log))
<1>1. log \in Seq(Values) /\ Len(log) \in Nat /\ n \in Nat /\ n <= Len(log)
  BY LogFacts DEF Types, AppTypes
<1>2. HadVersion(o, log, n)
  <2>1. o.version = Len(WinsIn(log, o.key, n))
    BY WinsIsIn
  <2> QED
    BY <2>1, <1>1, WinsGrow DEF HadVersion
<1> QED
  BY <1>1, <1>2, VersionOlder

LEMMA VersionsInit == Init => VersionsInv
<1> SUFFICES ASSUME Init PROVE VersionsInv
  OBVIOUS
<1>1. log = <<>> /\ floating = {} /\ \A u \in User : op[u] = None
  BY DEF Init
<1>2. Len(log) = 0
  BY <1>1
<1> QED
  BY <1>1, <1>2 DEF VersionsInv

LEMMA VersionsStep ==
  ASSUME Types, QueueInv, ExecInv, VersionsInv, [Next]_vars
  PROVE  VersionsInv'
<1>1. ASSUME log' = log, floating' = floating, op' = op, mine' = mine PROVE VersionsInv'
  BY <1>1, VersionsSame
<1>2. ASSUME UNCHANGED vars PROVE VersionsInv'
  BY <1>1, <1>2 DEF vars, appVars
<1>3. ASSUME NEW u \in User, UserCalls(u) PROVE VersionsInv'
  <2>1. PICK k \in Key, type \in UserTypes, n \in 0 .. Len(log) :
           /\ Call(u, k, type, Len(Wins(k, n)))
           /\ Operation(<<u, puts[u] + 1>>, type, k, Len(Wins(k, n))) \in Operations
    BY <1>3, CallTypes
  <2>2. PICK o \in Operations : o = Operation(<<u, puts[u] + 1>>, type, k, Len(Wins(k, n)))
    BY <2>1
  <2>3. o.key = k /\ o.version = Len(Wins(k, n))
    BY <2>2 DEF Operation
  <2>4. HadVersion(o, log, Len(log))
    BY <2>3, VersionRead
  <2>5. log' = log /\ floating' = floating /\ mine' = mine /\ op' = [op EXCEPT ![u] = o]
    BY <2>1, <2>2 DEF Call
  <2>6. op \in [User -> Operations \cup {None}]
    BY DEF Types, AppTypes
  <2>7. \A w \in User : op'[w] # None /\ mine' # w =>
           HadVersion(op'[w], log, Len(log)) \/ (op'[w] = op[w] /\ mine # w)
    BY <2>4, <2>5, <2>6
  <2> QED
    BY <2>5, <2>7, VersionsSame
<1>4. ASSUME Batching PROVE VersionsInv'
  BY <1>1, <1>4 DEF Batching, appVars
<1>5. ASSUME NEW c \in Caller, CallerReturns(c) PROVE VersionsInv'
  BY <1>1, <1>5 DEF CallerReturns
<1>6. ASSUME NEW t \in User \cup Threads, NEW ret \in {"Timeout", "Conflict"}, NotDecided(t, ret)
      PROVE  VersionsInv'
  <2>1. /\ InPropose(t) /\ ProposeEnds(t, ret, 0, None) /\ ret \in Results /\ t \in Proposers
        /\ log' = log /\ mine' = mine /\ 0 \in Nat
        /\ floating' \subseteq floating \cup {Value(t)}
    BY <1>6 DEF NotDecided, Proposers, Results
  <2>2. \A u \in User : op'[u] # None => op'[u] = op[u]
    BY <2>1, EndsOps
  <2> QED
    BY <2>1, <2>2, VersionsSame
<1>7. ASSUME NEW t \in User \cup Threads, DecideMine(t) PROVE VersionsInv'
  <2>1. t \in Proposers /\ InPropose(t) /\ log' = Append(log, Value(t)) /\ Idle
        /\ op' = op /\ floating' = floating
    BY <1>7 DEF DecideMine, Proposers
  <2>2. Value(t) \in Values /\ (Value(t)[1].sm = "kv" => HadVersion(Value(t)[1].op, log, Len(log)))
    BY <2>1, ValueOf, ProposedVersion
  <2>3. mine = None
    BY <2>1, <2>2, <1>7, DecideFacts DEF DecideMine
  <2> QED
    BY <2>1, <2>2, <2>3, ThreadFacts, VersionsGrow
<1>8. ASSUME NEW v \in floating, DecideFloating(v) PROVE VersionsInv'
  <2>1. log' = Append(log, v) /\ op' = op /\ floating' \subseteq floating /\ mine' = mine
    BY <1>8 DEF DecideFloating
  <2>2. v \in Values /\ (v[1].sm = "kv" => HadVersion(v[1].op, log, Len(log)))
    BY DEF Types, AppTypes, VersionsInv
  <2> QED
    BY <2>1, <2>2, VersionsGrow
<1>9. ASSUME NEW k \in Key, NEW type \in OtherTypes, DecideOther(k, type) PROVE VersionsInv'
  <2>1. PICK o \in Operations : /\ <<KVEntry(o)>> \in Values
                                /\ log' = Append(log, <<KVEntry(o)>>)
                                /\ <<KVEntry(o)>>[1].op = o
                                /\ o.version = Len(Wins(k, Len(log))) /\ o.key = k
    BY <1>9, OtherValue
  <2>2. PICK v \in Values : v = <<KVEntry(o)>>
    BY <2>1
  <2>3. HadVersion(v[1].op, log, Len(log))
    <3>1. Len(log) \in 0 .. Len(log)
      BY LogFacts DEF Types, AppTypes
    <3> QED
      BY <2>1, <2>2, <3>1, VersionRead
  <2>4. op' = op /\ floating' = floating /\ mine' = mine /\ log' = Append(log, v)
    BY <1>9, <2>1, <2>2 DEF DecideOther
  <2> QED
    BY <2>3, <2>4, VersionsGrow
<1>10. ASSUME ExecuteEntry PROVE VersionsInv'
  <2>1. CASE AtLast
    BY <1>10, <2>1, CommitOps, VersionsSame
  <2>2. CASE ~AtLast
    BY <1>1, <1>10, <2>2 DEF ExecuteEntry
  <2> QED
    BY <2>1, <2>2
<1>11. ASSUME ExecuteFails PROVE VersionsInv'
  BY <1>11, CommitOps, VersionsSame
<1>12. ASSUME PlayLogFails PROVE VersionsInv'
  BY <1>1, <1>12 DEF PlayLogFails
<1>13. ASSUME NEW machine \in BOOLEAN, NEW accepted \in SUBSET Proposers, Crash(machine, accepted)
       PROVE  VersionsInv'
  <2>1. /\ log' = log /\ floating' \subseteq floating \cup {Value(t) : t \in Proposers}
        /\ \A u \in User : op'[u] = None
    BY <1>13 DEF Crash
  <2> QED
    BY <2>1, VersionsSame
<1>14. ASSUME Ready PROVE VersionsInv'
  BY <1>1, <1>14 DEF Ready
<1> QED
  BY <1>2, <1>3, <1>4, <1>5, <1>6, <1>7, <1>8, <1>9, <1>10, <1>11, <1>12, <1>13, <1>14 DEF Next

-----------------------------------------------------------------------------
(* The store.                                                              *)

LEMMA ReflectsPrefix ==
  ASSUME NEW d, NEW l, NEW m, NEW n \in Nat, \A i \in 1 .. n : l[i] = m[i], Reflects(d, l, n)
  PROVE  Reflects(d, m, n)
<1>1. \A k \in Key : WinsIn(l, k, n) = WinsIn(m, k, n)
  BY WinsPrefix
<1> QED
  BY <1>1 DEF Reflects

(* An instance without an operation changes nothing.                       *)
LEMMA ReflectsOther ==
  ASSUME NEW d, NEW l \in Seq(Values), NEW n \in Nat, n + 1 <= Len(l), l[n + 1][1].sm # "kv",
         Reflects(d, l, n)
  PROVE  Reflects(d, l, n + 1)
<1>1. ASSUME NEW k \in Key PROVE WinsIn(l, k, n + 1) = WinsIn(l, k, n)
  <2>1. ~WinsNext(l[n + 1], k, WinsIn(l, k, n))
    BY DEF WinsNext
  <2> QED
    BY <2>1, WinsNextLen
<1> QED
  BY <1>1 DEF Reflects

(* The next instance, executed once: the write of the store is the log's.  *)
LEMMA ReflectsNext ==
  ASSUME db \in Stores, NEW l \in Seq(Values), NEW n \in Nat, n + 1 <= Len(l),
         NEW o \in Operations, l[n + 1][1].sm = "kv", l[n + 1][1].op = o,
         Reflects(db, l, n), NEW d,
         d = IF Writes(o) THEN [db EXCEPT ![o.key] = Put(o)] ELSE db
  PROVE  Reflects(d, l, n + 1)
<1> DEFINE a(k) == WinsIn(l, k, n)
           b(k) == WinsIn(l, k, n + 1)
<1>1. o.key \in Key
  BY OperationFacts
<1>2. Writes(o) <=> o.type # "read" /\ o.version = Len(a(o.key))
  BY <1>1, WriteFacts DEF Reflects
<1>3. \A k \in Key : WinsNext(l[n + 1], k, a(k)) <=> k = o.key /\ Writes(o)
  BY <1>2 DEF WinsNext
<1>4. SUFFICES ASSUME NEW k \in Key
               PROVE  /\ d[k].version = Len(b(k))
                      /\ b(k) # <<>> => d[k].deleted = (Last(b(k)).type = "delete")
  BY DEF Reflects
<1>5. db[k].version = Len(a(k)) /\ (a(k) # <<>> => db[k].deleted = (Last(a(k)).type = "delete"))
  BY DEF Reflects
<1>6. CASE k = o.key /\ Writes(o)
  <2>1. Len(b(k)) = Len(a(k)) + 1 /\ Last(b(k)) = o
    BY <1>3, <1>6, WinsNextLen
  <2>2. d[k] = Put(o)
    BY <1>6 DEF Stores
  <2>3. Put(o).version = db[k].version + 1 /\ Put(o).deleted = (o.type = "delete")
    BY <1>2, <1>6, WriteFacts
  <2> QED
    BY <1>5, <2>1, <2>2, <2>3
<1>7. CASE ~(k = o.key /\ Writes(o))
  <2>1. b(k) = a(k)
    BY <1>3, <1>7, WinsNextLen
  <2>2. d[k] = db[k]
    BY <1>7 DEF Stores
  <2> QED
    BY <1>5, <2>1, <2>2
<1> QED
  BY <1>6, <1>7

(* An operation that the store has had already writes nothing: its version *)
(* was the key's before, or never.                                         *)
LEMMA ReflectsAgain ==
  ASSUME db \in Stores, NEW l \in Seq(Values), NEW n \in Nat, NEW m \in Nat,
         n < m, m <= Len(l), NEW o \in Operations,
         l[n + 1][1].sm = "kv", l[n + 1][1].op = o, HadVersion(o, l, n), Reflects(db, l, m)
  PROVE  ~Writes(o)
<1>1. SUFFICES ASSUME o.type # "read" PROVE db[o.key].version # o.version
  BY WriteFacts
<1>2. o.key \in Key /\ o.version \in Nat
  BY OperationFacts
<1>3. db[o.key].version = Len(WinsIn(l, o.key, m))
  BY <1>2 DEF Reflects
<1>4. n + 1 \in Nat /\ n + 1 <= m /\ n + 1 <= Len(l)
  BY LogFacts
<1>5. /\ Len(WinsIn(l, o.key, n)) \in Nat /\ Len(WinsIn(l, o.key, n + 1)) \in Nat
      /\ IF WinsNext(l[n + 1], o.key, WinsIn(l, o.key, n))
         THEN Len(WinsIn(l, o.key, n + 1)) = Len(WinsIn(l, o.key, n)) + 1
         ELSE WinsIn(l, o.key, n + 1) = WinsIn(l, o.key, n)
  BY <1>4, WinsNextLen
<1>6. Len(WinsIn(l, o.key, n + 1)) <= Len(WinsIn(l, o.key, m)) /\ Len(WinsIn(l, o.key, m)) \in Nat
  BY <1>4, WinsGrow
<1>7. o.version <= Len(WinsIn(l, o.key, n))
  BY DEF HadVersion
<1>8. o.version < Len(WinsIn(l, o.key, n + 1))
  <2>1. CASE WinsNext(l[n + 1], o.key, WinsIn(l, o.key, n))
    BY <1>2, <1>5, <1>7, <2>1
  <2>2. CASE ~WinsNext(l[n + 1], o.key, WinsIn(l, o.key, n))
    <3>1. o.version # Len(WinsIn(l, o.key, n))
      BY <1>1, <2>2 DEF WinsNext
    <3> QED
      BY <1>2, <1>5, <1>7, <2>2, <3>1
  <2> QED
    BY <2>1, <2>2
<1> QED
  BY <1>2, <1>3, <1>5, <1>6, <1>8

LEMMA ReflectInit == Init => ReflectInv
<1> SUFFICES ASSUME Init PROVE ReflectInv
  OBVIOUS
<1>1. /\ log = <<>> /\ executed = 0 /\ mine = None /\ unsynced = <<>>
      /\ db = [k \in Key |-> NotFound]
  BY DEF Init, StoreInit
<1>2. Len(log) = 0 /\ 0 \in executed .. Len(log)
  BY <1>1
<1>3. Reflects(db, log, 0)
  <2>1. \A k : WinsIn(log, k, 0) = <<>>
    BY WinsStep
  <2>2. \A k \in Key : db[k].version = 0
    BY <1>1 DEF NotFound
  <2> QED
    BY <2>1, <2>2 DEF Reflects
<1>4. Len(unsynced) = 0
  BY <1>1
<1> QED
  BY <1>1, <1>2, <1>3, <1>4 DEF ReflectInv

LEMMA ReflectSame ==
  ASSUME ReflectInv, UNCHANGED <<log, executed, mine, storeVars>>
  PROVE  ReflectInv'
BY DEF ReflectInv, storeVars

(* A decision, when the node is idle.                                      *)
LEMMA ReflectGrow ==
  ASSUME Types, ExecInv, ReflectInv, Idle, NEW v \in Values, log' = Append(log, v),
         UNCHANGED <<executed, storeVars>>
  PROVE  ReflectInv'
<1>0. log \in Seq(Values) /\ savedCP \in 0 .. executed /\ executed \in 0 .. Len(log)
      /\ executed = Len(log)
  BY DEF Types, AppTypes, StoreTypes, Idle
<1>1. /\ Len(log') = Len(log) + 1 /\ Len(log) \in Nat
      /\ \A i \in 1 .. Len(log) : log'[i] = log[i]
  BY <1>0, LogGrows
<1>2. ASSUME NEW d, NEW n \in 0 .. Len(log), Reflects(d, log, n) PROVE Reflects(d, log', n)
  <2>1. n \in Nat /\ \A i \in 1 .. n : log'[i] = log[i]
    BY <1>1
  <2> QED
    BY <2>1, <1>2, ReflectsPrefix
<1>3. UNCHANGED <<db, unsynced, savedCP>>
  BY DEF storeVars
<1>4. Reflects(db, log, executed)
  <2>1. PICK n \in executed .. Len(log) : Reflects(db, log, n)
    BY DEF ReflectInv
  <2>2. n = executed
    BY <1>0, <1>1
  <2> QED
    BY <2>1, <2>2
<1>5. Reflects(db', log', executed') /\ executed' \in executed' .. Len(log')
  BY <1>0, <1>1, <1>2, <1>3, <1>4
<1>6. ASSUME NEW i \in 1 .. Len(unsynced')
      PROVE  \E n \in savedCP' .. Len(log') : Reflects(unsynced'[i], log', n)
  <2>1. PICK n \in savedCP .. Len(log) : Reflects(unsynced[i], log, n)
    BY <1>3, <1>6 DEF ReflectInv
  <2>2. n \in 0 .. Len(log) /\ n \in savedCP' .. Len(log')
    BY <1>0, <1>1, <1>3
  <2> QED
    BY <1>2, <1>3, <2>1, <2>2
<1> QED
  BY <1>5, <1>6 DEF ReflectInv

(* The restart: execution goes back to the checkpoint.                     *)
LEMMA ReflectRestart ==
  ASSUME Types, ReflectInv, log' = log, executed' = savedCP, savedCP' = savedCP, mine' = None,
         \/ UNCHANGED <<db, unsynced>>
         \/ db' \in {db} \cup Range(unsynced) /\ unsynced' = <<>>
  PROVE  ReflectInv'
<1>0. /\ Len(log) \in Nat /\ savedCP \in 0 .. executed /\ executed \in 0 .. Len(log)
      /\ unsynced \in Seq(Stores)
  BY LogFacts DEF Types, AppTypes, StoreTypes
<1>1. PICK n \in executed .. Len(log) : Reflects(db, log, n)
  BY DEF ReflectInv
<1>2. n \in savedCP .. Len(log)
  BY <1>0
<1>3. CASE UNCHANGED <<db, unsynced>>
  BY <1>1, <1>2, <1>3 DEF ReflectInv
<1>4. CASE db' \in {db} \cup Range(unsynced) /\ unsynced' = <<>>
  <2>1. \E m \in savedCP .. Len(log) : Reflects(db', log, m)
    <3>1. CASE db' = db
      BY <1>1, <1>2, <3>1
    <3>2. CASE db' \in Range(unsynced)
      <4>1. PICK i \in 1 .. Len(unsynced) : unsynced[i] = db'
        BY <1>0, <3>2, Ranges
      <4> QED
        BY <4>1 DEF ReflectInv
    <3> QED
      BY <1>4, <3>1, <3>2
  <2>2. Len(unsynced') = 0
    BY <1>4
  <2> QED
    BY <2>1, <2>2 DEF ReflectInv
<1> QED
  BY <1>3, <1>4

LEMMA ReflectExecute ==
  ASSUME Types, QueueInv, ExecInv, VersionsInv, ReflectInv, ExecuteEntry
  PROVE  ReflectInv'
<1>0. /\ log \in Seq(Values) /\ Len(log) \in Nat /\ executed \in Nat /\ executed < Len(log)
      /\ savedCP \in 0 .. executed /\ StoreTypes /\ db \in Stores /\ unsynced \in Seq(Stores)
      /\ log' = log
  BY LogFacts DEF Types, AppTypes, StoreTypes, ExecuteEntry
<1>1. PICK n \in executed .. Len(log) : Reflects(db, log, n)
  BY DEF ReflectInv
<1>2. CASE Entry.sm = "kv"
  <2>1. /\ AtLast /\ Entry.op \in Operations /\ log[executed + 1] \in Values
        /\ Entry = log[executed + 1][1]
    BY <1>0, <1>2, EntryFacts
  <2>2. PICK o \in Operations : o = Entry.op
    BY <2>1
  <2>3. log[executed + 1][1].sm = "kv" /\ log[executed + 1][1].op = o
    BY <1>2, <2>1, <2>2
  <2>4. executed' = executed + 1 /\ mine' = None
    BY <2>1 DEF ExecuteEntry
  <2>5. Execute(o, executed + 1) \/ ExecuteUnsaved(o)
    BY <1>2, <2>2 DEF ExecuteEntry
  <2>6. /\ db' = IF Writes(o) THEN [db EXCEPT ![o.key] = Put(o)] ELSE db
        /\ \/ savedCP' = savedCP /\ unsynced' \in {unsynced, Append(unsynced, db)}
           \/ savedCP' = executed + 1 /\ unsynced' = <<>>
    <3>1. executed + 1 \in Nat
      BY <1>0
    <3> QED
      BY <1>0, <2>5, <3>1, ExecuteStore
  <2>7. \E m \in executed' .. Len(log') : Reflects(db', log', m)
    <3>1. CASE n = executed
      <4>1. executed + 1 <= Len(log)
        BY <1>0
      <4>2. Reflects(db', log, executed + 1)
        BY <1>0, <1>1, <2>3, <2>6, <3>1, <4>1, ReflectsNext
      <4>3. executed + 1 \in executed' .. Len(log')
        BY <1>0, <2>4, <4>1
      <4> QED
        BY <1>0, <4>2, <4>3
    <3>2. CASE n # executed
      <4>1. executed < n /\ n <= Len(log) /\ n \in Nat /\ n \in executed' .. Len(log')
        BY <1>0, <2>4, <3>2
      <4>2. HadVersion(o, log, executed)
        <5>1. executed + 1 \in 1 .. Len(log) /\ (executed + 1) - 1 = executed
          BY <1>0
        <5>2. HadVersion(log[executed + 1][1].op, log, (executed + 1) - 1)
          BY <2>3, <5>1 DEF VersionsInv
        <5> QED
          BY <2>3, <5>1, <5>2
      <4>3. ~Writes(o)
        BY <1>0, <1>1, <2>3, <4>1, <4>2, ReflectsAgain
      <4> QED
        BY <1>0, <1>1, <2>6, <4>1, <4>3
    <3> QED
      BY <3>1, <3>2
  <2>8. ASSUME NEW i \in 1 .. Len(unsynced')
        PROVE  \E m \in savedCP' .. Len(log') : Reflects(unsynced'[i], log', m)
    <3>1. ASSUME NEW j \in 1 .. Len(unsynced)
          PROVE  \E m \in savedCP .. Len(log) : Reflects(unsynced[j], log, m)
      BY DEF ReflectInv
    <3>2. n \in savedCP .. Len(log)
      BY <1>0
    <3>3. CASE savedCP' = savedCP /\ unsynced' = unsynced
      BY <1>0, <3>1, <3>3
    <3>4. CASE savedCP' = savedCP /\ unsynced' = Append(unsynced, db)
      <4>1. /\ Len(unsynced') = Len(unsynced) + 1 /\ Len(unsynced) \in Nat
            /\ \A j \in 1 .. Len(unsynced) : unsynced'[j] = unsynced[j]
            /\ unsynced'[Len(unsynced) + 1] = db
        BY <1>0, <3>4, Appended
      <4>2. CASE i \in 1 .. Len(unsynced)
        BY <1>0, <3>1, <3>4, <4>1, <4>2
      <4>3. CASE i = Len(unsynced) + 1
        BY <1>0, <1>1, <3>2, <3>4, <4>1, <4>3
      <4>4. i \in 1 .. Len(unsynced) \/ i = Len(unsynced) + 1
        BY <4>1
      <4> QED
        BY <4>2, <4>3, <4>4
    <3>5. CASE unsynced' = <<>>
      BY <3>5
    <3> QED
      BY <2>6, <3>3, <3>4, <3>5
  <2> QED
    BY <2>4, <2>7, <2>8 DEF ReflectInv
<1>3. CASE Entry.sm # "kv"
  <2>1. UNCHANGED storeVars
    BY <1>3 DEF ExecuteEntry
  <2>2. UNCHANGED <<db, unsynced, savedCP>>
    BY <2>1 DEF storeVars
  <2>3. CASE ~AtLast
    <3>1. executed' = executed /\ mine' = mine
      BY <2>3 DEF ExecuteEntry
    <3> QED
      BY <1>0, <2>1, <3>1, ReflectSame
  <2>4. CASE AtLast
    <3>1. executed' = executed + 1 /\ mine' = None
      BY <2>4 DEF ExecuteEntry
    <3>2. log[executed + 1][1].sm # "kv"
      <4>1. log[executed + 1] \in Values /\ pos + 1 \in 1 .. Len(log[executed + 1])
        BY <1>0, EntryFacts
      <4>2. SUFFICES ASSUME log[executed + 1][1].sm = "kv" PROVE FALSE
        OBVIOUS
      <4>3. Len(log[executed + 1]) = 1
        BY <4>1, <4>2, ValueFacts
      <4>4. pos + 1 = 1
        BY <4>1, <4>3
      <4> QED
        BY <1>3, <4>2, <4>4 DEF Entry
    <3>3. \E m \in executed' .. Len(log') : Reflects(db', log', m)
      <4>1. CASE n = executed
        <5>1. executed + 1 <= Len(log) /\ executed + 1 \in executed' .. Len(log')
          BY <1>0, <3>1
        <5>2. Reflects(db, log, executed + 1)
          BY <1>0, <1>1, <3>2, <4>1, <5>1, ReflectsOther
        <5> QED
          BY <1>0, <2>2, <5>1, <5>2
      <4>2. CASE n # executed
        <5>1. n \in executed' .. Len(log')
          BY <1>0, <3>1, <4>2
        <5> QED
          BY <1>0, <1>1, <2>2, <5>1
      <4> QED
        BY <4>1, <4>2
    <3>4. \A i \in 1 .. Len(unsynced') :
             \E m \in savedCP' .. Len(log') : Reflects(unsynced'[i], log', m)
      BY <1>0, <2>2 DEF ReflectInv
    <3> QED
      BY <3>1, <3>3, <3>4 DEF ReflectInv
  <2> QED
    BY <2>3, <2>4
<1> QED
  BY <1>2, <1>3

LEMMA ReflectStep ==
  ASSUME Types, QueueInv, ExecInv, VersionsInv, ReflectInv, [Next]_vars
  PROVE  ReflectInv'
<1>1. ASSUME UNCHANGED vars PROVE ReflectInv'
  BY <1>1, ReflectSame DEF vars, appVars
<1>2. ASSUME NEW u \in User, UserCalls(u) PROVE ReflectInv'
  BY <1>2, ReflectSame DEF UserCalls, Call
<1>3. ASSUME Batching PROVE ReflectInv'
  BY <1>3, ReflectSame DEF Batching, appVars
<1>4. ASSUME NEW c \in Caller, CallerReturns(c) PROVE ReflectInv'
  BY <1>4, ReflectSame DEF CallerReturns
<1>5. ASSUME NEW t \in User \cup Threads, NEW ret \in {"Timeout", "Conflict"}, NotDecided(t, ret)
      PROVE  ReflectInv'
  BY <1>5, ReflectSame DEF NotDecided
<1>6. ASSUME NEW t \in User \cup Threads, DecideMine(t) PROVE ReflectInv'
  <2>1. InPropose(t) /\ log' = Append(log, Value(t)) /\ Idle /\ UNCHANGED <<executed, storeVars>>
    BY <1>6 DEF DecideMine, Proposers
  <2>2. Value(t) \in Values
    BY <2>1, ValueOf
  <2> QED
    BY <2>1, <2>2, ReflectGrow
<1>7. ASSUME NEW v \in floating, DecideFloating(v) PROVE ReflectInv'
  <2>1. v \in Values
    BY DEF Types, AppTypes
  <2> QED
    BY <1>7, <2>1, ReflectGrow DEF DecideFloating
<1>8. ASSUME NEW k \in Key, NEW type \in OtherTypes, DecideOther(k, type) PROVE ReflectInv'
  <2>1. PICK v \in Values : log' = Append(log, v)
    BY <1>8, OtherValue
  <2> QED
    BY <1>8, <2>1, ReflectGrow DEF DecideOther
<1>9. ASSUME ExecuteEntry PROVE ReflectInv'
  BY <1>9, ReflectExecute
<1>10. ASSUME ExecuteFails PROVE ReflectInv'
  <2>1. UNCHANGED <<log, executed, storeVars>> /\ mine' = None
    BY <1>10 DEF ExecuteFails
  <2> QED
    BY <2>1 DEF ReflectInv, storeVars
<1>11. ASSUME PlayLogFails PROVE ReflectInv'
  <2>1. mine = None
    BY <1>11 DEF PlayLogFails, ExecInv
  <2> QED
    BY <1>11, <2>1, ReflectRestart DEF PlayLogFails, RestartStore
<1>12. ASSUME NEW machine \in BOOLEAN, NEW accepted \in SUBSET Proposers, Crash(machine, accepted)
       PROVE  ReflectInv'
  <2>1. /\ log' = log /\ executed' = savedCP /\ savedCP' = savedCP /\ mine' = None
        /\ \/ UNCHANGED <<db, unsynced>>
           \/ db' \in {db} \cup Range(unsynced) /\ unsynced' = <<>>
    BY <1>12 DEF Crash, RestartStore, LoseUnsynced
  <2> QED
    BY <2>1, ReflectRestart
<1>13. ASSUME Ready PROVE ReflectInv'
  BY <1>13, ReflectSame DEF Ready
<1> QED
  BY <1>1, <1>2, <1>3, <1>4, <1>5, <1>6, <1>7, <1>8, <1>9, <1>10, <1>11, <1>12, <1>13 DEF Next

(* An idle node has executed the whole log.                                *)
LEMMA IdleStore ==
  ASSUME Types, ReflectInv
  PROVE  StoreIsLog
<1>0. Len(log) \in Nat /\ executed \in 0 .. Len(log)
  BY LogFacts DEF Types, AppTypes
<1>1. PICK n \in executed .. Len(log) : Reflects(db, log, n)
  BY DEF ReflectInv
<1>2. SUFFICES ASSUME Idle, NEW k \in Key
               PROVE  LET wins == Wins(k, executed)
                      IN  /\ db[k].version = Len(wins)
                          /\ wins # <<>> => db[k].deleted = (Last(wins).type = "delete")
  BY DEF StoreIsLog
<1>3. n = executed
  BY <1>0, <1>2 DEF Idle
<1>4. Wins(k, executed) = WinsIn(log, k, n)
  BY <1>3, WinsIsIn
<1> QED
  BY <1>1, <1>4 DEF Reflects

-----------------------------------------------------------------------------
(* What users are told.                                                    *)

LEMMA HasFacts ==
  ASSUME NEW v \in Values, NEW id, Has(v, id)
  PROVE  /\ v = <<KVEntry(v[1].op)>> /\ v[1].op \in Operations /\ v[1].sm = "kv"
         /\ id = v[1].op.id /\ id = <<id[1], id[2]>>
         /\ id[1] \in User \cup {Other} /\ id[2] \in Nat
<1>1. 1 \in 1 .. Len(v)
  BY ValueFacts
<1>2. v = <<KVEntry(v[1].op)>> /\ v[1].op \in Operations /\ v[1].sm = "kv" /\ id = v[1].op.id
  BY <1>1, ValueFacts DEF Has
<1> QED
  BY <1>2, OperationFacts

LEMMA ToldFacts ==
  ASSUME Types, NEW r \in told
  PROVE  /\ r.op \in Operations /\ r.status \in {"SUCC", "VERSION_CONFLICT", "FAIL"}
         /\ r.op.id = <<r.op.id[1], r.op.id[2]>> /\ r.op.id[2] \in Nat
<1>1. r \in [op : Operations, status : {"SUCC", "VERSION_CONFLICT", "FAIL"}]
  BY DEF Types, AppTypes
<1>2. r.op \in Operations /\ r.status \in {"SUCC", "VERSION_CONFLICT", "FAIL"}
  BY <1>1
<1> QED
  BY <1>2, OperationFacts

(* The operation of a user that proposes.                                  *)
LEMMA ProposedOp ==
  ASSUME Types, QueueInv, UserInv, NEW t \in Proposers, NEW id, Has(Value(t), id)
  PROVE  t \in User /\ op[t] # None /\ op[t] \in Operations /\ id = op[t].id
         /\ id = <<t, puts[t]>> /\ mine # t
<1>1. t \in User \cup Threads /\ InPropose(t) /\ mine # t
  BY DEF Proposers
<1>2. Value(t) \in Values /\ 1 \in 1 .. Len(Value(t)) /\ Value(t)[1].sm = "kv"
      /\ Value(t)[1].op.id = id
  BY <1>1, ValueOf, ValueFacts DEF Has
<1>3. t \notin Threads
  <2> SUFFICES ASSUME t \in Threads PROVE FALSE
    OBVIOUS
  <2> QED
    BY <1>1, <1>2, ValueOf
<1>4. t \in User /\ op[t] \in Operations /\ Value(t)[1].op = op[t]
  BY <1>1, <1>3, ValueOf
<1>5. op[t] # None
  BY <1>1, <1>4 DEF InPropose
<1>6. op[t].id = <<t, puts[t]>>
  BY <1>4, <1>5 DEF UserInv, CallInv
<1> QED
  BY <1>1, <1>2, <1>4, <1>5, <1>6

(* A step that leaves the log alone; the calls of P end and their values   *)
(* float.                                                                  *)
LEMMA UserSame ==
  ASSUME Types, QueueInv, UserInv, log' = log, puts' = puts, NEW P \in SUBSET Proposers,
         floating' \subseteq floating \cup {Value(t) : t \in P},
         \A u \in User : op'[u] # None =>
            op'[u] = op[u] /\ u \notin P /\ (u # mine \/ mine' = mine),
         \A r \in told' \ told : \E u \in User :
            /\ op[u] # None /\ op'[u] = None /\ r.op = op[u] /\ TellsTruth(r, log)
            /\ r.status = "FAIL" \/ u \notin P
  PROVE  UserInv'
<1>0. /\ puts \in [User \cup {Other} -> Nat] /\ log \in Seq(Values) /\ floating \subseteq Values
      /\ op \in [User -> Operations \cup {None}]
  BY DEF Types, AppTypes
<1>1. ASSUME NEW v \in floating', NEW id, Has(v, id)
      PROVE  \/ v \in floating /\ Has(v, id)
             \/ \E t \in P : t \in User /\ op[t] # None /\ id = op[t].id /\ id = <<t, puts[t]>>
  <2>1. CASE v \in floating
    BY <2>1, <1>1
  <2>2. CASE v \notin floating
    <3>1. PICK t \in P : v = Value(t)
      BY <2>2
    <3> QED
      BY <3>1, <1>1, ProposedOp
  <2> QED
    BY <2>1, <2>2
<1>2. NumberInv'
  <2>1. SUFFICES ASSUME NEW v \in Range(log) \cup floating', v[1].sm = "kv"
                 PROVE  v[1].op.id[2] <= puts[v[1].op.id[1]]
    BY DEF NumberInv
  <2>2. CASE v \in Range(log) \cup floating
    BY <2>1, <2>2 DEF UserInv, NumberInv
  <2>3. CASE v \notin Range(log) \cup floating
    <3>1. v \in floating' /\ Has(v, v[1].op.id)
      BY <2>1, <2>3 DEF Has
    <3>2. PICK t \in P : t \in User /\ v[1].op.id = <<t, puts[t]>>
      BY <1>1, <2>3, <3>1
    <3>3. puts[t] \in Nat
      BY <1>0, <3>2
    <3>4. v[1].op.id[1] = t /\ v[1].op.id[2] = puts[t]
      BY <3>2
    <3> QED
      BY <3>3, <3>4
  <2> QED
    BY <2>2, <2>3
<1>3. CallInv'
  <2>1. SUFFICES ASSUME NEW u \in User, op'[u] # None
                 PROVE  /\ op'[u].id = <<u, puts[u]>> /\ op'[u].type # "read"
                        /\ \A v \in floating' : ~Has(v, op'[u].id)
                        /\ \A i \in 1 .. Len(log) :
                              Has(log[i], op'[u].id) => mine' = u /\ i = Len(log)
    BY DEF CallInv, Has
  <2>2. op'[u] = op[u] /\ u \notin P /\ (u # mine \/ mine' = mine)
    BY <2>1
  <2>3. /\ op[u].id = <<u, puts[u]>> /\ op[u].type # "read"
        /\ \A v \in floating : ~Has(v, op[u].id)
        /\ \A i \in 1 .. Len(log) : Has(log[i], op[u].id) => mine = u /\ i = Len(log)
    BY <2>1, <2>2 DEF UserInv, CallInv
  <2>4. ASSUME NEW v \in floating', Has(v, op[u].id) PROVE FALSE
    <3>1. PICK t \in P : op[u].id = <<t, puts[t]>>
      BY <1>1, <2>3, <2>4
    <3>2. t = u
      BY <2>3, <3>1
    <3> QED
      BY <2>2, <3>2
  <2> QED
    BY <2>2, <2>3, <2>4
<1>4. ToldInv'
  <2>1. SUFFICES ASSUME NEW r \in told'
                 PROVE  /\ r.op.id[1] \in User /\ r.op.id[2] <= puts[r.op.id[1]]
                        /\ r.op.id[2] = puts[r.op.id[1]] => op'[r.op.id[1]] = None
                        /\ r.status # "FAIL" => \A v \in floating' : ~Has(v, r.op.id)
                        /\ TellsTruth(r, log)
    BY DEF ToldInv, Has, TellsTruth
  <2>2. CASE r \in told
    <3>1. /\ r.op.id[1] \in User /\ r.op.id[2] <= puts[r.op.id[1]]
          /\ r.op.id[2] = puts[r.op.id[1]] => op[r.op.id[1]] = None
          /\ r.status # "FAIL" => \A v \in floating : ~Has(v, r.op.id)
          /\ TellsTruth(r, log)
      BY <2>2 DEF UserInv, ToldInv
    <3>2. r.op.id[2] = puts[r.op.id[1]] => op'[r.op.id[1]] = None
      BY <3>1
    <3>3. ASSUME r.status # "FAIL", NEW v \in floating', Has(v, r.op.id) PROVE FALSE
      <4>1. PICK t \in P : op[t] # None /\ r.op.id = <<t, puts[t]>>
        BY <1>1, <3>1, <3>3
      <4>2. r.op.id[1] = t /\ r.op.id[2] = puts[t]
        BY <4>1
      <4> QED
        BY <3>1, <4>1, <4>2
    <3> QED
      BY <3>1, <3>2, <3>3
  <2>3. CASE r \notin told
    <3>1. PICK u \in User : /\ op[u] # None /\ op'[u] = None /\ r.op = op[u]
                            /\ TellsTruth(r, log) /\ (r.status = "FAIL" \/ u \notin P)
      BY <2>1, <2>3
    <3>2. /\ op[u].id = <<u, puts[u]>> /\ \A v \in floating : ~Has(v, op[u].id)
      BY <3>1 DEF UserInv, CallInv
    <3>3. r.op.id[1] = u /\ r.op.id[2] = puts[u] /\ puts[u] \in Nat
      BY <1>0, <3>1, <3>2
    <3>4. ASSUME r.status # "FAIL", NEW v \in floating', Has(v, op[u].id) PROVE FALSE
      <4>1. PICK t \in P : op[u].id = <<t, puts[t]>>
        BY <1>1, <3>2, <3>4
      <4>2. t = u
        BY <3>2, <4>1
      <4> QED
        BY <3>1, <3>4, <4>2
    <3> QED
      BY <3>1, <3>3, <3>4
  <2> QED
    BY <2>2, <2>3
<1> QED
  BY <1>2, <1>3, <1>4 DEF UserInv

(* A decision.                                                             *)
LEMMA UserGrow ==
  ASSUME Types, ExecInv, UserInv, Idle, NEW v \in Values, log' = Append(log, v),
         executed' = executed, pos' = pos, op' = op, told' = told, floating' \subseteq floating,
         puts' \in [User \cup {Other} -> Nat], \A u \in User : puts'[u] = puts[u],
         puts'[Other] >= puts[Other],
         \A id : Has(v, id) =>
            /\ id[2] <= puts'[id[1]]
            /\ \A u \in User : op[u] # None /\ op[u].id = id => mine' = u
            /\ \A r \in told : r.status # "FAIL" => r.op.id # id
  PROVE  UserInv'
<1>0. /\ puts \in [User \cup {Other} -> Nat] /\ log \in Seq(Values) /\ floating \subseteq Values
      /\ op \in [User -> Operations \cup {None}]
  BY DEF Types, AppTypes
<1>1. /\ mine = None /\ Len(log') = Len(log) + 1 /\ Len(log) \in Nat /\ log'[Len(log')] = v
      /\ Range(log') = Range(log) \cup {v} /\ \A i \in 1 .. Len(log) : log'[i] = log[i]
  BY DecideFacts
<1>2. ASSUME NEW w \in Range(log') \cup floating', w[1].sm = "kv"
      PROVE  w[1].op.id[2] <= puts'[w[1].op.id[1]]
  <2>1. CASE w = v
    BY <2>1, <1>2 DEF Has
  <2>2. CASE w # v
    <3>1. w \in Range(log) \cup floating /\ w \in Values
      BY <1>0, <1>1, <2>2, LogFacts
    <3>2. w[1].op.id[2] <= puts[w[1].op.id[1]]
      BY <1>2, <3>1 DEF UserInv, NumberInv
    <3>3. Has(w, w[1].op.id)
      BY <1>2 DEF Has
    <3>4. w[1].op.id[1] \in User \cup {Other} /\ w[1].op.id[2] \in Nat
      BY <3>1, <3>3, HasFacts
    <3>5. puts[w[1].op.id[1]] <= puts'[w[1].op.id[1]]
          /\ puts[w[1].op.id[1]] \in Nat /\ puts'[w[1].op.id[1]] \in Nat
      BY <1>0, <3>4
    <3> QED
      BY <3>2, <3>4, <3>5
  <2> QED
    BY <2>1, <2>2
<1>3. ASSUME NEW u \in User, op'[u] # None
      PROVE  /\ op'[u].id = <<u, puts'[u]>> /\ op'[u].type # "read"
             /\ \A w \in floating' : ~Has(w, op'[u].id)
             /\ \A i \in 1 .. Len(log') : Has(log'[i], op'[u].id) => mine' = u /\ i = Len(log')
  <2>1. /\ op[u].id = <<u, puts[u]>> /\ op[u].type # "read"
        /\ \A w \in floating : ~Has(w, op[u].id)
        /\ \A i \in 1 .. Len(log) : Has(log[i], op[u].id) => mine = u /\ i = Len(log)
    BY <1>3 DEF UserInv, CallInv
  <2>2. ASSUME NEW i \in 1 .. Len(log'), Has(log'[i], op[u].id) PROVE mine' = u /\ i = Len(log')
    <3>1. CASE i \in 1 .. Len(log)
      <4>1. mine = u
        BY <1>1, <2>1, <2>2, <3>1
      <4> QED
        BY <1>1, <4>1, ThreadFacts
    <3>2. CASE i \notin 1 .. Len(log)
      <4>1. i = Len(log')
        BY <1>1, <3>2
      <4>2. Has(v, op[u].id)
        BY <1>1, <2>2, <4>1
      <4> QED
        BY <1>3, <4>1, <4>2
    <3> QED
      BY <3>1, <3>2
  <2> QED
    BY <2>1, <2>2
<1>4. ASSUME NEW r \in told'
      PROVE  /\ r.op.id[1] \in User /\ r.op.id[2] <= puts'[r.op.id[1]]
             /\ r.op.id[2] = puts'[r.op.id[1]] => op'[r.op.id[1]] = None
             /\ r.status # "FAIL" => \A w \in floating' : ~Has(w, r.op.id)
             /\ TellsTruth(r, log')
  <2>1. /\ r.op.id[1] \in User /\ r.op.id[2] <= puts[r.op.id[1]]
        /\ r.op.id[2] = puts[r.op.id[1]] => op[r.op.id[1]] = None
        /\ r.status # "FAIL" => \A w \in floating : ~Has(w, r.op.id)
        /\ TellsTruth(r, log)
    BY DEF UserInv, ToldInv
  <2> DEFINE a == WinsIn(log', r.op.key, Len(log))
             b == WinsIn(log', r.op.key, Len(log'))
  <2>2. a = WinsIn(log, r.op.key, Len(log))
    <3>1. PICK l : l = log'
      OBVIOUS
    <3>2. Len(log) \in Nat /\ \A i \in 1 .. Len(log) : l[i] = log[i]
      BY <1>1, <3>1
    <3>3. WinsIn(l, r.op.key, Len(log)) = WinsIn(log, r.op.key, Len(log))
      BY <3>2, WinsPrefix
    <3> QED
      BY <3>1, <3>3
  <2>3. /\ log' \in Seq(Values) /\ Range(a) \subseteq Range(b)
        /\ IF WinsNext(v, r.op.key, a) THEN Range(b) = Range(a) \cup {v[1].op} ELSE b = a
    <3>1. log' \in Seq(Values) /\ Len(log) + 1 <= Len(log')
      BY <1>0, <1>1, LogGrows
    <3>2. PICK l \in Seq(Values) : l = log'
      BY <3>1
    <3>3. Len(l) = Len(log) + 1 /\ l[Len(log) + 1] = v /\ Len(log) \in Nat
          /\ Len(log) + 1 <= Len(l)
      BY <1>1, <3>1, <3>2
    <3>4. /\ Range(WinsIn(l, r.op.key, Len(log))) \subseteq Range(WinsIn(l, r.op.key, Len(l)))
          /\ IF WinsNext(v, r.op.key, WinsIn(l, r.op.key, Len(log)))
             THEN Range(WinsIn(l, r.op.key, Len(l)))
                     = Range(WinsIn(l, r.op.key, Len(log))) \cup {v[1].op}
             ELSE WinsIn(l, r.op.key, Len(l)) = WinsIn(l, r.op.key, Len(log))
      BY <3>3, WinsNextLen
    <3> QED
      BY <3>2, <3>4
  <2>4. r.status = "SUCC" => r.op \in Range(b)
    BY <2>1, <2>2, <2>3 DEF TellsTruth
  <2>5. ASSUME r.status = "VERSION_CONFLICT"
        PROVE  (\E i \in 1 .. Len(log') : log'[i] = <<KVEntry(r.op)>>) /\ r.op \notin Range(b)
    <3>1. (\E i \in 1 .. Len(log) : log[i] = <<KVEntry(r.op)>>) /\ r.op \notin Range(a)
      BY <2>1, <2>2, <2>5 DEF TellsTruth
    <3>2. \E i \in 1 .. Len(log') : log'[i] = <<KVEntry(r.op)>>
      BY <1>1, <3>1
    <3>3. ASSUME WinsNext(v, r.op.key, a), v[1].op = r.op PROVE FALSE
      <4>1. Has(v, r.op.id)
        BY <3>3 DEF WinsNext, Has
      <4> QED
        BY <2>5, <4>1
    <3> QED
      BY <2>3, <3>1, <3>2, <3>3
  <2> QED
    BY <2>1, <2>4, <2>5 DEF TellsTruth
<1>5. NumberInv'
  BY <1>2 DEF NumberInv
<1>6. CallInv'
  BY <1>3 DEF CallInv
<1>7. ToldInv'
  BY <1>4 DEF ToldInv
<1> QED
  BY <1>5, <1>6, <1>7 DEF UserInv

(* What the user is told whose operation has just been executed.           *)
LEMMA ExecuteTruth ==
  ASSUME Types, QueueInv, ExecInv, UserInv, ReflectInv, ExecuteEntry, AtLast, mine \in User
  PROVE  LET er == IF Entry.sm = "kv" THEN ExecuteRet(Entry.op) ELSE None
         IN  /\ op[mine] # None /\ op[mine] \in Operations
             /\ TellsTruth([op |-> op[mine], status |-> Status("OK", er)], log)
<1>1. /\ log \in Seq(Values) /\ Len(log) \in Nat /\ executed + 1 = Len(log) /\ executed \in Nat
      /\ mine # None /\ InPropose(mine) /\ log[Len(log)] = Value(mine)
      /\ op[mine] # None /\ db \in Stores /\ mine \in User \cup Threads /\ executed < Len(log)
  <2>1. mine # None
    BY ThreadFacts
  <2>2. mine \in User \cup Threads /\ executed + 1 = Len(log) /\ InPropose(mine)
        /\ log[Len(log)] = Value(mine) /\ executed < Len(log)
    BY <2>1 DEF ExecInv, ExecuteEntry
  <2>3. log \in Seq(Values) /\ executed \in 0 .. Len(log) /\ db \in Stores
    BY DEF Types, AppTypes, StoreTypes
  <2> QED
    BY <2>1, <2>2, <2>3, LogFacts DEF InPropose
<1>2. /\ op[mine] \in Operations /\ log[executed + 1] = <<KVEntry(op[mine])>>
      /\ log[executed + 1][1].sm = "kv" /\ log[executed + 1][1].op = op[mine]
      /\ Len(log[executed + 1]) = 1
  BY <1>1, ValueOf
<1>3. PICK o \in Operations : o = op[mine]
  BY <1>2
<1>4. Entry.sm = "kv" /\ Entry.op = o
  <2>1. pos + 1 \in 1 .. Len(log[executed + 1])
    BY <1>1, EntryFacts
  <2>2. pos + 1 = 1
    BY <1>2, <2>1
  <2> QED
    BY <1>2, <1>3, <2>2 DEF Entry
<1>5. /\ o.type # "read" /\ o.id = <<mine, puts[mine]>>
      /\ \A i \in 1 .. Len(log) : Has(log[i], o.id) => i = Len(log)
  BY <1>1, <1>3 DEF UserInv, CallInv
<1>6. o.key \in Key
  BY OperationFacts
<1> DEFINE a == WinsIn(log, o.key, executed)
           b == WinsIn(log, o.key, Len(log))
<1>7. Writes(o) <=> o.version = Len(a)
  <2>1. db[o.key].version = Len(a)
    BY <1>1, <1>6 DEF ReflectInv, Reflects
  <2> QED
    BY <1>1, <1>5, <2>1, WriteFacts
<1>8. WinsNext(log[executed + 1], o.key, a) <=> Writes(o)
  BY <1>2, <1>3, <1>5, <1>7 DEF WinsNext
<1>9. IF Writes(o) THEN Range(b) = Range(a) \cup {o} ELSE b = a
  <2>1. executed + 1 <= Len(log)
    BY <1>1
  <2>2. IF WinsNext(log[executed + 1], o.key, a)
        THEN Range(WinsIn(log, o.key, executed + 1)) = Range(a) \cup {log[executed + 1][1].op}
        ELSE WinsIn(log, o.key, executed + 1) = a
    BY <1>1, <2>1, WinsNextLen
  <2> QED
    BY <1>1, <1>2, <1>3, <1>8, <2>2
<1>10. o \notin Range(a)
  <2> SUFFICES ASSUME o \in Range(a) PROVE FALSE
    OBVIOUS
  <2>1. executed \in 0 .. Len(log)
    BY <1>1
  <2>2. PICK j \in 1 .. executed : log[j][1].sm = "kv" /\ log[j][1].op = o
    BY <1>1, <2>1, WinsSource
  <2>3. j \in 1 .. Len(log) /\ Has(log[j], o.id) /\ j # Len(log)
    BY <1>1, <2>2 DEF Has
  <2> QED
    BY <1>5, <2>3
<1>11. ExecuteRet(o) \in {"OK", "VERSION_CONFLICT"} /\ (Writes(o) <=> ExecuteRet(o) = "OK")
  BY <1>1, <1>5, WriteFacts DEF Writes
<1>12. /\ Status("OK", ExecuteRet(o)) = "SUCC" => o \in Range(b)
       /\ Status("OK", ExecuteRet(o)) = "VERSION_CONFLICT" => o \notin Range(b)
  BY <1>9, <1>10, <1>11 DEF Status
<1>13. \E i \in 1 .. Len(log) : log[i] = <<KVEntry(o)>>
  BY <1>1, <1>2, <1>3
<1>14. PICK r : r = [op |-> o, status |-> Status("OK", ExecuteRet(o))]
  OBVIOUS
<1>15. r.op = o /\ r.status = Status("OK", ExecuteRet(o))
  BY <1>14
<1>16. TellsTruth(r, log)
  BY <1>12, <1>13, <1>15 DEF TellsTruth
<1> QED
  BY <1>1, <1>2, <1>3, <1>4, <1>14, <1>16

LEMMA TellsFail ==
  ASSUME NEW r, r.status = "FAIL", NEW l
  PROVE  TellsTruth(r, l)
BY DEF TellsTruth

LEMMA UserInit == Init => UserInv
<1> SUFFICES ASSUME Init PROVE UserInv
  OBVIOUS
<1>1. log = <<>> /\ floating = {} /\ told = {} /\ \A u \in User : op[u] = None
  BY DEF Init
<1>2. Len(log) = 0 /\ Range(log) = {}
  BY <1>1, NoRange
<1> QED
  BY <1>1, <1>2 DEF UserInv, NumberInv, CallInv, ToldInv

(* A new call has an id of its own.                                        *)
LEMMA UserCallStep ==
  ASSUME Types, UserInv, NEW u \in User, UserCalls(u)
  PROVE  UserInv'
<1>0. /\ puts \in [User \cup {Other} -> Nat] /\ log \in Seq(Values) /\ floating \subseteq Values
      /\ op \in [User -> Operations \cup {None}] /\ puts[u] \in Nat
  BY DEF Types, AppTypes
<1>1. PICK k \in Key, type \in UserTypes, n \in 0 .. Len(log) :
         /\ Call(u, k, type, Len(Wins(k, n)))
         /\ Operation(<<u, puts[u] + 1>>, type, k, Len(Wins(k, n))) \in Operations
  BY CallTypes
<1>2. PICK o \in Operations : o = Operation(<<u, puts[u] + 1>>, type, k, Len(Wins(k, n)))
  BY <1>1
<1>3. o.id = <<u, puts[u] + 1>> /\ o.type # "read"
  <2>1. o.id = <<u, puts[u] + 1>> /\ o.type = type
    BY <1>2 DEF Operation
  <2>2. "read" \notin UserTypes
    BY ApplicationAssumption
  <2> QED
    BY <2>1, <2>2
<1>4. /\ op[u] = None /\ op' = [op EXCEPT ![u] = o] /\ puts' = [puts EXCEPT ![u] = puts[u] + 1]
      /\ UNCHANGED <<log, floating, mine, told>>
  BY <1>1, <1>2 DEF Call
<1>5. \A w \in User \cup {Other} : puts'[w] \in Nat /\ puts'[w] >= puts[w] /\ puts[w] \in Nat
                                  /\ (w # u => puts'[w] = puts[w])
  BY <1>0, <1>4
<1>6. puts'[u] = puts[u] + 1
  BY <1>0, <1>4
<1>7. Range(log) \subseteq Values /\ \A i \in 1 .. Len(log) : log[i] \in Range(log)
  BY <1>0, LogFacts
<1>8. ASSUME NEW v \in Range(log) \cup floating, v[1].sm = "kv"
      PROVE  /\ v[1].op.id[2] <= puts'[v[1].op.id[1]] /\ ~Has(v, o.id)
  <2>1. v[1].op.id[2] <= puts[v[1].op.id[1]]
    BY <1>8 DEF UserInv, NumberInv
  <2>2. v[1].op.id[1] \in User \cup {Other} /\ v[1].op.id[2] \in Nat
    <3>1. v \in Values /\ Has(v, v[1].op.id)
      BY <1>0, <1>7, <1>8 DEF Has
    <3> QED
      BY <3>1, HasFacts
  <2>3. v[1].op.id[2] <= puts'[v[1].op.id[1]]
    BY <1>5, <2>1, <2>2
  <2>4. ASSUME Has(v, o.id) PROVE FALSE
    <3>1. v[1].op.id = <<u, puts[u] + 1>>
      BY <1>3, <2>4 DEF Has
    <3>2. v[1].op.id[1] = u /\ v[1].op.id[2] = puts[u] + 1
      BY <3>1
    <3> QED
      BY <1>0, <2>1, <3>2
  <2> QED
    BY <2>3, <2>4
<1>9. NumberInv'
  BY <1>4, <1>8 DEF NumberInv
<1>10. ASSUME NEW w \in User, op'[w] # None
       PROVE  /\ op'[w].id = <<w, puts'[w]>> /\ op'[w].type # "read"
              /\ \A v \in floating' : ~Has(v, op'[w].id)
              /\ \A i \in 1 .. Len(log') : Has(log'[i], op'[w].id) => mine' = w /\ i = Len(log')
  <2>1. CASE w = u
    <3>1. op'[w] = o
      BY <1>0, <1>4, <2>1
    <3>2. \A v \in Range(log) \cup floating : ~Has(v, o.id)
      BY <1>8 DEF Has
    <3> QED
      BY <1>3, <1>4, <1>6, <1>7, <2>1, <3>1, <3>2
  <2>2. CASE w # u
    <3>1. op'[w] = op[w] /\ puts'[w] = puts[w]
      BY <1>0, <1>4, <1>5, <2>2
    <3> QED
      BY <1>4, <1>10, <3>1 DEF UserInv, CallInv
  <2> QED
    BY <2>1, <2>2
<1>11. CallInv'
  BY <1>10 DEF CallInv
<1>12. ASSUME NEW r \in told
       PROVE  /\ r.op.id[1] \in User /\ r.op.id[2] <= puts'[r.op.id[1]]
              /\ r.op.id[2] = puts'[r.op.id[1]] => op'[r.op.id[1]] = None
              /\ r.status # "FAIL" => \A v \in floating : ~Has(v, r.op.id)
              /\ TellsTruth(r, log)
  <2>1. /\ r.op.id[1] \in User /\ r.op.id[2] <= puts[r.op.id[1]]
        /\ r.op.id[2] = puts[r.op.id[1]] => op[r.op.id[1]] = None
        /\ r.status # "FAIL" => \A v \in floating : ~Has(v, r.op.id)
        /\ TellsTruth(r, log)
    BY DEF UserInv, ToldInv
  <2>2. r.op.id[2] \in Nat
    BY ToldFacts
  <2>3. CASE r.op.id[1] = u
    BY <1>0, <1>6, <2>1, <2>2, <2>3
  <2>4. CASE r.op.id[1] # u
    <3>1. op'[r.op.id[1]] = op[r.op.id[1]] /\ puts'[r.op.id[1]] = puts[r.op.id[1]]
      BY <1>0, <1>4, <1>5, <2>1, <2>4
    <3> QED
      BY <2>1, <3>1
  <2> QED
    BY <2>3, <2>4
<1>13. ToldInv'
  BY <1>4, <1>12 DEF ToldInv
<1> QED
  BY <1>9, <1>11, <1>13 DEF UserInv

LEMMA UserStep ==
  ASSUME Types, QueueInv, ExecInv, UserInv, ReflectInv, [Next]_vars
  PROVE  UserInv'
<1>0. PICK P \in SUBSET Proposers : P = {}
  OBVIOUS
<1>1. ASSUME UNCHANGED <<log, puts, floating, op, mine, told>> PROVE UserInv'
  <2>1. told' \ told = {} /\ \A u \in User : op'[u] = op[u] /\ u \notin P
    BY <1>1, <1>0
  <2> QED
    BY <1>1, <2>1, UserSame
<1>2. ASSUME UNCHANGED vars PROVE UserInv'
  BY <1>1, <1>2 DEF vars, appVars
<1>3. ASSUME NEW u \in User, UserCalls(u) PROVE UserInv'
  BY <1>3, UserCallStep
<1>4. ASSUME Batching PROVE UserInv'
  BY <1>1, <1>4 DEF Batching, appVars
<1>5. ASSUME NEW c \in Caller, CallerReturns(c) PROVE UserInv'
  BY <1>1, <1>5 DEF CallerReturns
<1>6. ASSUME NEW t \in User \cup Threads, NEW ret \in Results, InPropose(t), NEW inst \in Nat,
             NEW er, ProposeEnds(t, ret, inst, er), NEW r \in told' \ told
      PROVE  /\ t \in User /\ op[t] # None /\ op'[t] = None /\ r.op = op[t]
             /\ r = [op |-> op[t], status |-> Status(ret, er)]
             /\ r.status = Status(ret, er)
  <2>1. t \in User
    BY <1>6, EndsFacts
  <2>2. op' = [op EXCEPT ![t] = None] /\ r = [op |-> op[t], status |-> Status(ret, er)]
    BY <1>6, <2>1, EndsFacts
  <2>3. op[t] # None /\ op \in [User -> Operations \cup {None}]
    BY <1>6, <2>1 DEF InPropose, Types, AppTypes
  <2> QED
    BY <2>1, <2>2, <2>3
<1>7. ASSUME NEW t \in User \cup Threads, NEW ret \in {"Timeout", "Conflict"}, NotDecided(t, ret)
      PROVE  UserInv'
  <2>1. /\ InPropose(t) /\ ProposeEnds(t, ret, 0, None) /\ ret \in Results /\ t \in Proposers
        /\ log' = log /\ mine' = mine /\ 0 \in Nat /\ puts' = puts
        /\ floating' \subseteq floating \cup {Value(t)} /\ ret # "OK"
    BY <1>7 DEF NotDecided, Proposers, Results
  <2>2. \A u \in User : op'[u] # None => op'[u] = op[u] /\ u # t
    BY <2>1, EndsOps
  <2>3. ASSUME NEW r \in told' \ told
        PROVE  \E u \in User : /\ op[u] # None /\ op'[u] = None /\ r.op = op[u]
                               /\ TellsTruth(r, log) /\ r.status = "FAIL"
    <3>1. t \in User /\ op[t] # None /\ op'[t] = None /\ r.op = op[t] /\ r.status = "FAIL"
      BY <1>6, <2>1 DEF Status
    <3> QED
      BY <3>1, TellsFail
  <2>4. PICK Q \in SUBSET Proposers : Q = {t}
    BY <2>1
  <2>5. floating' \subseteq floating \cup {Value(u) : u \in Q}
    BY <2>1, <2>4
  <2> QED
    BY <2>1, <2>2, <2>3, <2>4, <2>5, UserSame
<1>8. ASSUME NEW t \in User \cup Threads, DecideMine(t) PROVE UserInv'
  <2>1. /\ t \in Proposers /\ InPropose(t) /\ log' = Append(log, Value(t)) /\ Idle /\ mine' = t
        /\ UNCHANGED <<executed, pos, op, told, floating, puts>>
    BY <1>8 DEF DecideMine, Proposers
  <2>2. Value(t) \in Values
    BY <2>1, ValueOf
  <2>3. puts \in [User \cup {Other} -> Nat]
    BY DEF Types, AppTypes
  <2>4. ASSUME NEW id, Has(Value(t), id)
        PROVE  /\ id[2] <= puts[id[1]]
               /\ \A u \in User : op[u] # None /\ op[u].id = id => t = u
               /\ \A r \in told : r.op.id # id
    <3>1. t \in User /\ op[t] # None /\ id = <<t, puts[t]>>
      BY <2>1, <2>4, ProposedOp
    <3>2. id[1] = t /\ id[2] = puts[t] /\ puts[t] \in Nat
      BY <2>3, <3>1
    <3>3. \A u \in User : op[u] # None => op[u].id = <<u, puts[u]>>
      BY DEF UserInv, CallInv
    <3>4. ASSUME NEW r \in told, r.op.id = id PROVE FALSE
      <4>1. op[r.op.id[1]] = None
        BY <3>2, <3>4 DEF UserInv, ToldInv
      <4> QED
        BY <3>1, <3>2, <3>4, <4>1
    <3> QED
      BY <3>1, <3>2, <3>3, <3>4
  <2>5. puts[Other] >= puts[Other]
    BY <2>3
  <2> QED
    BY <2>1, <2>2, <2>3, <2>4, <2>5, UserGrow
<1>9. ASSUME NEW v \in floating, DecideFloating(v) PROVE UserInv'
  <2>1. /\ log' = Append(log, v) /\ Idle /\ floating' \subseteq floating
        /\ UNCHANGED <<executed, pos, op, told, puts>>
    BY <1>9 DEF DecideFloating
  <2>2. v \in Values /\ puts \in [User \cup {Other} -> Nat]
    BY DEF Types, AppTypes
  <2>3. ASSUME NEW id, Has(v, id)
        PROVE  /\ id[2] <= puts[id[1]]
               /\ \A u \in User : op[u] # None => op[u].id # id
               /\ \A r \in told : r.status # "FAIL" => r.op.id # id
    <3>1. v[1].sm = "kv" /\ v[1].op.id = id
      BY <2>3 DEF Has
    <3> QED
      BY <2>3, <3>1 DEF UserInv, NumberInv, CallInv, ToldInv
  <2>4. puts[Other] >= puts[Other]
    BY <2>2
  <2> QED
    BY <2>1, <2>2, <2>3, <2>4, UserGrow
<1>10. ASSUME NEW k \in Key, NEW type \in OtherTypes, DecideOther(k, type) PROVE UserInv'
  <2>1. PICK o \in Operations : /\ <<KVEntry(o)>> \in Values
                                /\ log' = Append(log, <<KVEntry(o)>>)
                                /\ <<KVEntry(o)>>[1].op = o
                                /\ o.id = <<Other, puts[Other] + 1>>
    BY <1>10, OtherValue
  <2>2. PICK v \in Values : v = <<KVEntry(o)>>
    BY <2>1
  <2>3. /\ log' = Append(log, v) /\ Idle /\ UNCHANGED <<executed, pos, op, told, floating>>
        /\ puts' = [puts EXCEPT ![Other] = puts[Other] + 1]
    BY <1>10, <2>1, <2>2 DEF DecideOther
  <2>4. /\ puts \in [User \cup {Other} -> Nat] /\ puts' \in [User \cup {Other} -> Nat]
        /\ \A u \in User : puts'[u] = puts[u]
        /\ puts'[Other] = puts[Other] + 1 /\ puts[Other] \in Nat
    BY <2>3, ThreadFacts DEF Types, AppTypes
  <2>5. ASSUME NEW id, Has(v, id)
        PROVE  /\ id[2] <= puts'[id[1]]
               /\ \A u \in User : op[u] # None => op[u].id # id
               /\ \A r \in told : r.op.id # id
    <3>1. id = <<Other, puts[Other] + 1>>
      BY <2>1, <2>2, <2>5 DEF Has
    <3>2. id[1] = Other /\ id[2] = puts[Other] + 1
      BY <3>1
    <3>3. \A u \in User : op[u] # None => op[u].id = <<u, puts[u]>>
      BY DEF UserInv, CallInv
    <3>4. \A r \in told : r.op.id[1] \in User
      BY DEF UserInv, ToldInv
    <3> QED
      BY <2>4, <3>1, <3>2, <3>3, <3>4, ThreadFacts
  <2>6. puts'[Other] >= puts[Other]
    BY <2>4
  <2> QED
    BY <2>3, <2>4, <2>5, <2>6, UserGrow
<1>11. ASSUME ExecuteEntry PROVE UserInv'
  <2>1. CASE ~AtLast
    BY <1>1, <1>11, <2>1 DEF ExecuteEntry
  <2>2. CASE AtLast
    <3>1. /\ log' = log /\ floating' = floating /\ puts' = puts
          /\ \A u \in User : op'[u] # None => u # mine /\ op'[u] = op[u]
      BY <1>11, <2>2, CommitOps DEF ExecuteEntry
    <3>2. ASSUME NEW r \in told' \ told
          PROVE  \E u \in User : /\ op[u] # None /\ op'[u] = None /\ r.op = op[u]
                                 /\ TellsTruth(r, log)
      <4>1. mine # None
        BY <1>11, <2>2, <3>2 DEF ExecuteEntry
      <4>2. PICK er : er = IF Entry.sm = "kv" THEN ExecuteRet(Entry.op) ELSE None
        OBVIOUS
      <4>3. /\ mine \in User \cup Threads /\ InPropose(mine) /\ "OK" \in Results
            /\ executed + 1 \in Nat /\ ProposeEnds(mine, "OK", executed + 1, er)
        BY <1>11, <2>2, <4>1, <4>2, ExecuteEnds
      <4>4. /\ mine \in User /\ op[mine] # None /\ op'[mine] = None /\ r.op = op[mine]
            /\ r = [op |-> op[mine], status |-> Status("OK", er)]
        BY <1>6, <3>2, <4>3
      <4>5. TellsTruth(r, log)
        BY <1>11, <2>2, <4>2, <4>4, ExecuteTruth
      <4> QED
        BY <4>4, <4>5
    <3> QED
      BY <1>0, <3>1, <3>2, UserSame
  <2> QED
    BY <2>1, <2>2
<1>12. ASSUME ExecuteFails PROVE UserInv'
  <2>1. /\ log' = log /\ floating' = floating /\ puts' = puts
        /\ \A u \in User : op'[u] # None => u # mine /\ op'[u] = op[u]
    BY <1>12, CommitOps DEF ExecuteFails
  <2>2. ASSUME NEW r \in told' \ told
        PROVE  \E u \in User : /\ op[u] # None /\ op'[u] = None /\ r.op = op[u]
                               /\ TellsTruth(r, log)
    <3>1. mine # None
      BY <1>12, <2>2 DEF ExecuteFails
    <3>2. /\ mine \in User \cup Threads /\ InPropose(mine) /\ "ExecuteFail" \in Results
          /\ 0 \in Nat /\ ProposeEnds(mine, "ExecuteFail", 0, None)
      BY <1>12, <3>1, FailEnds
    <3>3. mine \in User /\ op[mine] # None /\ op'[mine] = None /\ r.op = op[mine]
          /\ r.status = "FAIL"
      BY <1>6, <2>2, <3>2 DEF Status
    <3> QED
      BY <3>3, TellsFail
  <2> QED
    BY <1>0, <2>1, <2>2, UserSame
<1>13. ASSUME PlayLogFails PROVE UserInv'
  BY <1>1, <1>13 DEF PlayLogFails
<1>14. ASSUME NEW machine \in BOOLEAN, NEW accepted \in SUBSET Proposers, Crash(machine, accepted)
       PROVE  UserInv'
  <2>1. /\ log' = log /\ floating' \subseteq floating \cup {Value(t) : t \in accepted}
        /\ \A u \in User : op'[u] = None /\ UNCHANGED <<puts, told>>
    BY <1>14 DEF Crash
  <2>2. puts' = puts /\ told' = told
    BY <1>14 DEF Crash
  <2> QED
    BY <2>1, <2>2, UserSame
<1>15. ASSUME Ready PROVE UserInv'
  BY <1>1, <1>15 DEF Ready
<1> QED
  BY <1>2, <1>3, <1>4, <1>5, <1>7, <1>8, <1>9, <1>10, <1>11, <1>12, <1>13, <1>14, <1>15 DEF Next

LEMMA UsersTruth ==
  ASSUME Types, UserInv
  PROVE  UsersTold
<1> SUFFICES ASSUME NEW r \in told
             PROVE  LET wins == Range(Wins(r.op.key, Len(log)))
                        inLog == \E i \in DOMAIN log : log[i] = <<KVEntry(r.op)>>
                    IN  /\ r.status = "SUCC" => r.op \in wins
                        /\ r.status = "VERSION_CONFLICT" => inLog /\ r.op \notin wins
  BY DEF UsersTold
<1>1. TellsTruth(r, log)
  BY DEF UserInv, ToldInv
<1>2. Wins(r.op.key, Len(log)) = WinsIn(log, r.op.key, Len(log))
  BY WinsIsIn
<1>3. DOMAIN log = 1 .. Len(log)
  BY DEF Types, AppTypes
<1> QED
  BY <1>1, <1>2, <1>3 DEF TellsTruth

-----------------------------------------------------------------------------
(* What callers of BatchPropose are told.                                  *)

(* What may still be decided, or is, comes from the proposers P.           *)
ValuesFrom(P) ==
    \A v \in Known' : \/ v \in Known \/ \E t \in P : v = Value(t)
                      \/ v \in Values /\ v[1].sm = "kv"

LogKept == log' = log \/ \E v \in Values : log' = Append(log, v)

(* A caller makes its next call only when the last one is over.            *)
Moves(c) == \/ batched'[c] = batched[c] /\ (pc[c] = "idle" => pc'[c] = "idle")
            \/ batched'[c] = batched[c] + 1 /\ pc[c] = "idle"

LEMMA IdFacts ==
  ASSUME Types, NEW c \in Caller
  PROVE  IdOf(c)[1] = c /\ IdOf(c)[2] = batched[c] /\ batched[c] \in Nat
         /\ IdOf(c) = <<c, batched[c]>>
<1>1. batched[c] \in Nat
  BY DEF Types, BatchTypes
<1> QED
  BY <1>1 DEF IdOf

LEMMA RequestedFacts ==
  ASSUME QueueInv, NEW t \in Threads, NEW c \in Caller, c \in Range(request[t])
  PROVE  /\ Requested(c) /\ notified[c] = <<>> /\ pc[c] \in {"propose", "wait"}
         /\ ~Unproposed(c)
<1>1. Requested(c)
  BY DEF Requested
<1>2. notified[c] = <<>> /\ pc[c] \in {"propose", "wait"} /\ c \notin Range(queue)
  BY <1>1 DEF QueueInv
<1>3. notified[c] # <<"SystemError">>
  <2>1. PICK s : s = <<"SystemError">>
    OBVIOUS
  <2>2. s # <<>>
    BY <2>1, OneResult
  <2> QED
    BY <1>2, <2>1, <2>2
<1> QED
  BY <1>1, <1>2, <1>3 DEF Unproposed

(* The ids of callers in the values of proposers.                          *)
LEMMA NewIds ==
  ASSUME Types, QueueInv, NEW P \in SUBSET Proposers, NEW v,
         (\E t \in P : v = Value(t)) \/ (v \in Values /\ v[1].sm = "kv"),
         NEW i \in 1 .. Len(v), v[i].id[1] \in Caller \/ v[i].sm # "kv"
  PROVE  \E t \in P : \E c \in Caller :
            t \in Threads /\ c \in Range(request[t]) /\ v[i].id = IdOf(c)
<1>1. CASE v \in Values /\ v[1].sm = "kv"
  <2>1. 1 \in 1 .. Len(v) /\ Len(v) = 1 /\ v[1].op \in Operations /\ v[1].id = v[1].op.id
    BY <1>1, ValueFacts
  <2>2. i = 1
    BY <2>1
  <2>3. v[1].id[1] \in User \cup {Other}
    BY <2>1, OperationFacts
  <2> QED
    BY <1>1, <2>2, <2>3, ThreadFacts
<1>2. CASE \E t \in P : v = Value(t)
  <2>1. PICK t \in P : v = Value(t)
    BY <1>2
  <2>2. t \in User \cup Threads /\ InPropose(t)
    BY DEF Proposers
  <2>3. CASE t \in User
    <3>1. v \in Values /\ v[1].sm = "kv"
      BY <2>1, <2>2, <2>3, ValueOf
    <3> QED
      BY <1>1, <3>1
  <2>4. CASE t \in Threads
    <3>1. /\ request[t] \in Seq(Caller) /\ Len(v) = Len(request[t])
          /\ \A j \in 1 .. Len(request[t]) : v[j].id = IdOf(request[t][j]) /\ request[t][j] \in Caller
      BY <2>1, <2>2, <2>4, ValueOf
    <3>2. i \in 1 .. Len(request[t])
      BY <3>1
    <3>3. request[t][i] \in Range(request[t])
      BY <3>1, <3>2, Ranges
    <3> QED
      BY <2>4, <3>1, <3>2, <3>3
  <2> QED
    BY <2>2, <2>3, <2>4
<1> QED
  BY <1>1, <1>2

LEMMA DecidedFrom ==
  ASSUME Types, QueueInv, NEW P \in SUBSET Proposers, ValuesFrom(P),
         NEW c \in Caller, NEW n, Decided(Known', <<c, n>>), ~Decided(Known, <<c, n>>)
  PROVE  /\ n = batched[c] /\ Requested(c) /\ notified[c] = <<>>
         /\ pc[c] \in {"propose", "wait"} /\ ~Unproposed(c)
<1>1. PICK v \in Known' : \E i \in 1 .. Len(v) : v[i].id = <<c, n>>
  BY DEF Decided
<1>2. PICK i \in 1 .. Len(v) : v[i].id = <<c, n>>
  BY <1>1
<1>3. v \notin Known
  BY <1>2 DEF Decided
<1>4. (\E t \in P : v = Value(t)) \/ (v \in Values /\ v[1].sm = "kv")
  BY <1>3 DEF ValuesFrom
<1>5. v[i].id[1] = c
  BY <1>2
<1>6. PICK t \in P, d \in Caller : t \in Threads /\ d \in Range(request[t]) /\ v[i].id = IdOf(d)
  BY <1>4, <1>5, NewIds
<1>7. d = c /\ n = batched[c]
  BY <1>2, <1>6 DEF IdOf
<1> QED
  BY <1>6, <1>7, RequestedFacts

LEMMA OldStep ==
  ASSUME Types, QueueInv, OldInv, NEW P \in SUBSET Proposers, ValuesFrom(P),
         \A c \in Caller : Moves(c)
  PROVE  OldInv'
<1>1. SUFFICES ASSUME NEW v \in Known', NEW i \in 1 .. Len(v), v[i].sm # "kv"
               PROVE  Old(batched', v[i].id)
  BY DEF OldInv, Old
<1>2. CASE v \in Known
  <2>1. Old(batched, v[i].id)
    BY <1>1, <1>2 DEF OldInv
  <2>2. v[i].id \in Caller \X Nat
    <3>1. v \in Values
      BY <1>2, LogFacts DEF Known, Types, AppTypes
    <3> QED
      BY <1>1, <3>1, ValueFacts
  <2>3. PICK c \in Caller, n \in Nat : v[i].id = <<c, n>>
    BY <2>2
  <2>4. batched[c] \in Nat /\ n <= batched[c]
    BY <2>1, <2>3 DEF Old, Types, BatchTypes
  <2>5. n <= batched'[c]
    BY <2>4 DEF Moves
  <2> QED
    BY <2>3, <2>5 DEF Old
<1>3. CASE v \notin Known
  <2>1. (\E t \in P : v = Value(t)) \/ (v \in Values /\ v[1].sm = "kv")
    BY <1>3 DEF ValuesFrom
  <2>2. PICK t \in P, c \in Caller : t \in Threads /\ c \in Range(request[t]) /\ v[i].id = IdOf(c)
    BY <1>1, <2>1, NewIds
  <2>3. batched[c] \in Nat /\ v[i].id[1] = c /\ v[i].id[2] = batched[c]
    BY <2>2, IdFacts
  <2>4. batched[c] <= batched'[c]
    BY <2>3 DEF Moves
  <2> QED
    BY <2>3, <2>4 DEF Old
<1> QED
  BY <1>2, <1>3

(* The place of a value in the log is for good.                            *)
LEMMA PlaceKept ==
  ASSUME Types, LogKept, NEW id, NEW p \in Places, PlaceTrue(log, given, id, p),
         given \subseteq given', \A g \in given' \ given : g[1] # id
  PROVE  PlaceTrue(log', given', id, p)
<1>1. log \in Seq(Values)
  BY DEF Types, AppTypes
<1>2. /\ Len(log) \in Nat /\ Len(log') \in Nat /\ Len(log) <= Len(log')
      /\ \A i \in 1 .. Len(log) : log'[i] = log[i]
  <2>1. CASE log' = log
    BY <1>1, <2>1, LogFacts
  <2>2. CASE \E v \in Values : log' = Append(log, v)
    BY <1>1, <2>2, LogGrows
  <2> QED
    BY <2>1, <2>2 DEF LogKept
<1>3. p.inst \in 1 .. Len(log) /\ p.inst \in 1 .. Len(log') /\ log'[p.inst] = log[p.inst]
  BY <1>2 DEF PlaceTrue
<1>4. {g \in given' : g[1] = id} = {g \in given : g[1] = id}
  OBVIOUS
<1> QED
  BY <1>3, <1>4 DEF PlaceTrue

(* What a step may do to callers.  The values of P may be decided after it.*)
LEMMA CallerMoves ==
  ASSUME Types, Types', QueueInv, CallerInv, NEW P \in SUBSET Proposers, ValuesFrom(P), LogKept,
         \A c \in Caller : Moves(c),
         \A c \in Caller : batched'[c] = batched[c] /\ Unproposed(c)' => Unproposed(c),
         \A c \in Caller : notified'[c] = <<"OK">> =>
            \/ notified[c] = <<"OK">> /\ place'[c] = place[c] /\ batched'[c] = batched[c]
            \/ PlaceTrue(log', given', <<c, batched'[c]>>, place'[c]),
         \A c \in Caller : notified[c] # <<>> => notified'[c] # <<>> \/ pc'[c] = "idle",
         mine \in Threads => \A c \in Range(request[mine]) :
            \/ pc'[c] = "idle" \/ notified'[c] # <<>>
            \/ mine' = mine /\ c \in Range(request'[mine]) /\ executed' = executed,
         given \subseteq given',
         \A g \in given' \ given :
            \/ g[1][1] \notin Caller
            \/ /\ mine \in Threads
               /\ \E c \in Range(request[mine]) : g[1] = IdOf(c) /\ g[2] = executed + 1,
         \A e \in ended' \ ended : \E c \in Caller :
            /\ e.id = IdOf(c) /\ notified[c] = <<e.ret>> /\ e.place = place[c]
            /\ pc'[c] = "idle",
         DoneInv'
  PROVE  CallerInv'
<1>0. /\ batched \in [Caller -> Nat] /\ batched' \in [Caller -> Nat] /\ place \in [Caller -> Places]
      /\ place' \in [Caller -> Places] /\ request \in [Threads -> Seq(Caller)]
      /\ \A e \in ended : e.id \in Caller \X Nat /\ e.place \in Places
      /\ \A e \in ended' : e.id \in Caller \X Nat /\ e.place \in Places
  <2>1. batched \in [Caller -> Nat] /\ place \in [Caller -> Places]
        /\ request \in [Threads -> Seq(Caller)]
    BY DEF Types, BatchTypes
  <2>2. batched' \in [Caller -> Nat] /\ place' \in [Caller -> Places]
    BY DEF Types, BatchTypes
  <2>3. ended \subseteq [id : Caller \X Nat, ret : Results, place : Places]
        /\ ended' \subseteq [id : Caller \X Nat, ret : Results, place : Places]
    BY DEF Types, AppTypes
  <2> QED
    BY <2>1, <2>2, <2>3
<1>1. OldInv'
  BY OldStep DEF CallerInv
<1>2. OldInv /\ WaitInv /\ EndedInv /\ GivenInv
  BY DEF CallerInv
<1>3. mine \in Threads => \A c \in Range(request[mine]) :
         c \in Caller /\ Requested(c) /\ notified[c] = <<>> /\ pc[c] # "idle"
         /\ batched'[c] = batched[c]
  <2> SUFFICES ASSUME mine \in Threads, NEW c \in Range(request[mine])
               PROVE  c \in Caller /\ Requested(c) /\ notified[c] = <<>> /\ pc[c] # "idle"
                      /\ batched'[c] = batched[c]
    OBVIOUS
  <2>1. c \in Caller
    BY <1>0, Ranges
  <2> QED
    BY <2>1, RequestedFacts DEF Moves
(* A handed SMCtx is not that of a caller with an answer, nor of an old call. *)
<1>4. ASSUME NEW g \in given' \ given, NEW c \in Caller, g[1] = IdOf(c)
      PROVE  notified[c] = <<>> /\ pc[c] # "idle" /\ Requested(c)
  <2>1. g[1][1] = c
    BY <1>4, IdFacts
  <2>2. PICK d \in Range(request[mine]) : mine \in Threads /\ g[1] = IdOf(d)
    BY <2>1
  <2>3. d = c
    BY <1>3, <1>4, <2>1, <2>2, IdFacts
  <2> QED
    BY <1>3, <2>2, <2>3
<1>5. ASSUME NEW id \in Caller \X Nat, Over(batched, pc, id)
      PROVE  /\ Over(batched', pc', id) /\ \A g \in given' \ given : g[1] # id
             /\ ~Decided(Known, id) => ~Decided(Known', id)
  <2>1. PICK c \in Caller, n \in Nat : id = <<c, n>>
    OBVIOUS
  <2>2. batched[c] \in Nat /\ batched'[c] \in Nat /\ n <= batched[c]
        /\ (n = batched[c] => pc[c] = "idle") /\ id[1] = c /\ id[2] = n
    BY <1>0, <1>5, <2>1 DEF Over, Old
  <2>3. n <= batched'[c] /\ (n = batched'[c] => pc'[c] = "idle")
    BY <2>2 DEF Moves
  <2>4. ASSUME NEW g \in given' \ given, g[1] = id PROVE FALSE
    <3>1. g[1][1] = c
      BY <2>1, <2>4
    <3>2. PICK d \in Range(request[mine]) : mine \in Threads /\ g[1] = IdOf(d)
      BY <3>1
    <3>3. d = c /\ n = batched[c]
      BY <1>3, <2>1, <2>4, <3>2, IdFacts
    <3> QED
      BY <1>3, <2>2, <3>2, <3>3
  <2>5. ASSUME Decided(Known', id), ~Decided(Known, id) PROVE FALSE
    <3>1. n = batched[c] /\ pc[c] \in {"propose", "wait"}
      BY <2>1, <2>5, DecidedFrom
    <3> QED
      BY <2>2, <3>1
  <2> QED
    BY <2>1, <2>2, <2>3, <2>4, <2>5 DEF Over, Old
<1>6. WaitInv'
  <2>1. SUFFICES ASSUME NEW c \in Caller
                 PROVE  /\ Unproposed(c)' => ~Decided(Known', <<c, batched'[c]>>)
                        /\ notified'[c] = <<"OK">> =>
                              PlaceTrue(log', given', <<c, batched'[c]>>, place'[c])
    BY DEF WaitInv, IdOf, Decided, PlaceTrue
  <2>2. ASSUME Unproposed(c)', Decided(Known', <<c, batched'[c]>>) PROVE FALSE
    <3>1. CASE batched'[c] = batched[c]
      <4>1. Unproposed(c)
        BY <2>2, <3>1
      <4>2. ~Decided(Known, <<c, batched'[c]>>)
        BY <1>2, <3>1, <4>1 DEF WaitInv, IdOf
      <4> QED
        BY <2>2, <4>1, <4>2, DecidedFrom
    <3>2. CASE batched'[c] # batched[c]
      <4>1. batched'[c] = batched[c] + 1 /\ batched[c] \in Nat
        BY <1>0, <3>2 DEF Moves
      <4>2. ~Decided(Known, <<c, batched'[c]>>)
        <5>1. SUFFICES ASSUME NEW v \in Known, NEW i \in 1 .. Len(v),
                              v[i].id = <<c, batched'[c]>>
                       PROVE  FALSE
          BY DEF Decided
        <5>2. v \in Values
          BY LogFacts DEF Known, Types, AppTypes
        <5>3. v[i].id[1] = c /\ v[i].id[2] = batched[c] + 1
          BY <4>1, <5>1
        <5>4. v[i].sm # "kv"
          <6> SUFFICES ASSUME v[i].sm = "kv" PROVE FALSE
            OBVIOUS
          <6>1. v[i].id[1] \in User \cup {Other}
            BY <5>2, ValueFacts, OperationFacts
          <6> QED
            BY <5>3, <6>1, ThreadFacts
        <5>5. v[i].id[2] <= batched[v[i].id[1]]
          BY <1>2, <5>4 DEF OldInv, Old
        <5> QED
          BY <4>1, <5>3, <5>5
      <4>3. batched'[c] = batched[c]
        BY <2>2, <4>2, DecidedFrom
      <4> QED
        BY <3>2, <4>3
    <3> QED
      BY <3>1, <3>2
  <2>3. ASSUME notified[c] = <<"OK">>, place'[c] = place[c], batched'[c] = batched[c]
        PROVE  PlaceTrue(log', given', <<c, batched'[c]>>, place'[c])
    <3>1. PlaceTrue(log, given, <<c, batched[c]>>, place[c])
      BY <1>2, <2>3 DEF WaitInv, IdOf
    <3>2. \A g \in given' \ given : g[1] # <<c, batched[c]>>
      <4>1. PICK s : s = <<"OK">>
        OBVIOUS
      <4>2. s # <<>>
        BY <4>1, OneResult
      <4> QED
        BY <1>4, <2>3, <4>1, <4>2 DEF IdOf
    <3>3. place[c] \in Places
      BY <1>0
    <3> QED
      BY <2>3, <3>1, <3>2, <3>3, PlaceKept
  <2> QED
    BY <2>2, <2>3
<1>7. EndedInv'
  <2>1. SUFFICES ASSUME NEW e \in ended'
                 PROVE  /\ Over(batched', pc', e.id)
                        /\ e.ret = "SystemError" => ~Decided(Known', e.id)
                        /\ e.ret = "OK" => PlaceTrue(log', given', e.id, e.place)
    BY DEF EndedInv, Over, Old, Decided, PlaceTrue
  <2>2. CASE e \in ended
    <3>1. Over(batched, pc, e.id)
          /\ (e.ret = "SystemError" => ~Decided(Known, e.id))
          /\ (e.ret = "OK" => PlaceTrue(log, given, e.id, e.place))
      BY <1>2, <2>2 DEF EndedInv
    <3>2. e.id \in Caller \X Nat /\ e.place \in Places
      BY <1>0, <2>2
    <3> QED
      BY <1>5, <3>1, <3>2, PlaceKept
  <2>3. CASE e \notin ended
    <3>1. PICK c \in Caller : /\ e.id = IdOf(c) /\ notified[c] = <<e.ret>> /\ e.place = place[c]
                              /\ pc'[c] = "idle"
      BY <2>1, <2>3
    <3>2. notified[c] # <<>>
      <4>1. PICK s : s = <<e.ret>>
        OBVIOUS
      <4> QED
        BY <3>1, <4>1, OneResult
    <3>3. e.id = <<c, batched[c]>> /\ e.id[1] = c /\ e.id[2] = batched[c]
          /\ batched[c] \in Nat /\ e.place \in Places
      BY <1>0, <3>1, IdFacts
    <3>4. Over(batched', pc', e.id)
      <4>1. batched[c] <= batched'[c]
        BY <3>3 DEF Moves
      <4> QED
        BY <3>1, <3>3, <4>1 DEF Over, Old
    <3>5. \A g \in given' \ given : g[1] # e.id
      BY <1>4, <3>1, <3>2
    <3>6. e.ret = "SystemError" => ~Decided(Known', e.id)
      <4>1. SUFFICES ASSUME e.ret = "SystemError", Decided(Known', e.id) PROVE FALSE
        OBVIOUS
      <4>2. Unproposed(c)
        BY <3>1, <4>1 DEF Unproposed
      <4>3. ~Decided(Known, e.id)
        BY <1>2, <3>1, <4>2 DEF WaitInv
      <4> QED
        BY <3>3, <4>1, <4>2, <4>3, DecidedFrom
    <3>7. e.ret = "OK" => PlaceTrue(log', given', e.id, e.place)
      <4>1. SUFFICES ASSUME e.ret = "OK" PROVE PlaceTrue(log', given', e.id, e.place)
        OBVIOUS
      <4>2. PlaceTrue(log, given, e.id, e.place)
        BY <1>2, <3>1, <4>1 DEF WaitInv
      <4> QED
        BY <3>3, <3>5, <4>2, PlaceKept
    <3> QED
      BY <3>4, <3>6, <3>7
  <2> QED
    BY <2>2, <2>3
<1>8. GivenInv'
  <2>1. SUFFICES ASSUME NEW g \in given', g[1][1] \in Caller
                 PROVE  /\ Old(batched', g[1])
                        /\ \/ Over(batched', pc', g[1])
                           \/ notified'[g[1][1]] # <<>>
                           \/ /\ mine' \in Threads /\ g[1][1] \in Range(request'[mine'])
                              /\ g[2] = executed' + 1
    BY DEF GivenInv, Over, Old
  <2>2. PICK c \in Caller : c = g[1][1]
    BY <2>1
  <2>3. g[1] = <<c, g[1][2]>> /\ g[1][2] \in Nat /\ g[1] \in Caller \X Nat
    <3>1. g[1] \in OpIds \cup (Caller \X Nat)
      <4>1. given' \subseteq (OpIds \cup (Caller \X Nat)) \X Nat
        BY DEF Types, AppTypes
      <4> QED
        BY <4>1
    <3>2. g[1] \in Caller \X Nat
      BY <2>1, <3>1, ThreadFacts DEF OpIds
    <3> QED
      BY <2>2, <3>2
  <2>4. batched[c] \in Nat /\ batched'[c] \in Nat /\ batched[c] <= batched'[c]
    BY <1>0 DEF Moves
  <2>5. ASSUME mine \in Threads, c \in Range(request[mine]), g[2] = executed + 1, g[1][2] <= batched[c]
        PROVE  /\ Old(batched', g[1])
               /\ \/ Over(batched', pc', g[1])
                  \/ notified'[c] # <<>>
                  \/ mine' \in Threads /\ c \in Range(request'[mine']) /\ g[2] = executed' + 1
    <3>1. batched'[c] = batched[c]
      BY <1>3, <2>5
    <3>2. Old(batched', g[1])
      BY <2>2, <2>5, <3>1 DEF Old
    <3>3. CASE pc'[c] = "idle"
      BY <2>2, <3>2, <3>3 DEF Over
    <3>4. CASE notified'[c] # <<>>
      BY <3>2, <3>4
    <3>5. CASE mine' = mine /\ c \in Range(request'[mine]) /\ executed' = executed
      BY <2>5, <3>2, <3>5
    <3> QED
      BY <2>5, <3>3, <3>4, <3>5
  <2>6. CASE g \in given
    <3>1. /\ Old(batched, g[1])
          /\ \/ Over(batched, pc, g[1]) \/ notified[c] # <<>>
             \/ mine \in Threads /\ c \in Range(request[mine]) /\ g[2] = executed + 1
      BY <1>2, <2>1, <2>2, <2>6 DEF GivenInv
    <3>2. g[1][2] <= batched[c] /\ g[1][2] <= batched'[c]
      BY <2>2, <2>3, <2>4, <3>1 DEF Old
    <3>3. CASE Over(batched, pc, g[1])
      <4>1. Over(batched', pc', g[1])
        BY <1>5, <2>3, <3>3
      <4> QED
        BY <4>1 DEF Over
    <3>4. CASE notified[c] # <<>>
      <4>1. Old(batched', g[1])
        BY <2>2, <3>2 DEF Old
      <4> QED
        BY <2>2, <3>4, <4>1 DEF Over
    <3>5. CASE mine \in Threads /\ c \in Range(request[mine]) /\ g[2] = executed + 1
      BY <2>2, <2>5, <3>2, <3>5
    <3> QED
      BY <3>1, <3>3, <3>4, <3>5
  <2>7. CASE g \notin given
    <3>1. PICK d \in Range(request[mine]) :
             mine \in Threads /\ g[1] = IdOf(d) /\ g[2] = executed + 1
      BY <2>1, <2>7
    <3>2. d \in Caller /\ d = c /\ g[1][2] = batched[c]
      BY <1>3, <2>2, <3>1, IdFacts
    <3>3. g[1][2] <= batched[c]
      BY <2>4, <3>2
    <3> QED
      BY <2>2, <2>5, <3>1, <3>2, <3>3
  <2> QED
    BY <2>6, <2>7
<1> QED
  BY <1>1, <1>6, <1>7, <1>8 DEF CallerInv

LEMMA DoneNone ==
  ASSUME mine' \notin Threads \/ pos' = 0
  PROVE  DoneInv'
BY DEF DoneInv

LEMMA DoneSame ==
  ASSUME DoneInv, UNCHANGED <<log, executed, pos, mine>>, given \subseteq given'
  PROVE  DoneInv'
BY DEF DoneInv

LEMMA SameValues ==
  ASSUME log' = log, floating' \subseteq floating, NEW P
  PROVE  LogKept /\ ValuesFrom(P)
<1>1. Known' \subseteq Known
  BY DEF Known
<1> QED
  BY <1>1 DEF LogKept, ValuesFrom

(* A step that leaves the callers alone.                                   *)
LEMMA CallerSame ==
  ASSUME Types, Types', QueueInv, CallerInv, NEW P \in SUBSET Proposers, ValuesFrom(P), LogKept,
         UNCHANGED <<batchVars, given, ended>>, mine \in Threads => mine' = mine /\ executed' = executed,
         DoneInv'
  PROVE  CallerInv'
<1>1. UNCHANGED <<pc, batched, queue, request, notified, place>>
  BY DEF batchVars
<1>2. \A c \in Caller : Moves(c)
  BY <1>1 DEF Moves
<1>3. \A c \in Caller : Unproposed(c)' => Unproposed(c)
  BY <1>1 DEF Unproposed
<1>4. given' \ given = {} /\ ended' \ ended = {}
  OBVIOUS
<1> QED
  BY <1>1, <1>2, <1>3, <1>4, CallerMoves

(* What AddProposal and Run leave in the queue was there before.           *)
LEMMA PluckRanges ==
  ASSUME NEW q \in Seq(Caller), NEW t, NEW size, PluckProposal(t, q, size)
  PROVE  Range(queue') \subseteq Range(q)
<1>1. Plucked(q) \in 0 .. Len(q)
  BY PluckedSome
<1>2. queue' = SubSeq(q, Plucked(q) + 1, Len(q))
  BY DEF PluckProposal
<1> QED
  BY <1>1, <1>2, CutRanges

LEMMA AddRanges ==
  ASSUME BatchTypes, NEW c \in Caller, AddProposal(c)
  PROVE  Range(queue') \subseteq Range(queue) \cup {c}
<1>1. queue \in Seq(Caller)
  BY DEF BatchTypes
<1>2. PICK q \in Seq(Caller) : q = Append(queue, c)
  BY <1>1, Appended
<1>3. Range(q) = Range(queue) \cup {c}
  BY <1>1, <1>2, Appended
<1>4. PluckProposal(c, q, queueSize + Size(c)) \/ queue' = q
  BY <1>2 DEF AddProposal
<1> QED
  BY <1>3, <1>4, PluckRanges

LEMMA DifferentResults == <<"OK">> # <<"SystemError">> /\ <<>> # <<"OK">> /\ <<>> # <<"SystemError">>
<1>1. PICK s : s = <<"OK">>
  OBVIOUS
<1>2. PICK r : r = <<"SystemError">>
  OBVIOUS
<1> QED
  BY <1>1, <1>2, OneResult

(* The threads and the queue.                                              *)
LEMMA BatchMoves ==
  ASSUME BatchTypes, QueueInv, NEW d \in Caller,
         \/ \E c \in Caller : Propose(c) \/ AddProposal(c) \/ WaitNotify(c)
         \/ RunStarts \/ RunLoops \/ RunEnds \/ Stop
  PROVE  /\ Moves(d)
         /\ batched'[d] = batched[d] /\ Unproposed(d)' => Unproposed(d)
         /\ notified'[d] = <<"OK">> => /\ notified[d] = <<"OK">> /\ place'[d] = place[d]
                                       /\ batched'[d] = batched[d]
         /\ notified[d] # <<>> => notified'[d] # <<>> \/ pc'[d] = "idle"
<1>0. /\ pc \in [Caller -> {"idle", "add", "propose", "wait"}] /\ batched \in [Caller -> Nat]
      /\ notified \in [Caller -> Seq(Results)] /\ place \in [Caller -> Places]
      /\ queue \in Seq(Caller) /\ batched[d] \in Nat /\ batched[d] + 1 # batched[d]
  BY DEF BatchTypes
<1>1. pc[d] = "idle" => notified[d] = <<>>
  BY DEF QueueInv
<1>2. ASSUME NEW c \in Caller, Propose(c)
      PROVE  /\ Moves(d) /\ (batched'[d] = batched[d] /\ Unproposed(d)' => Unproposed(d))
             /\ notified'[d] = <<"OK">> => /\ notified[d] = <<"OK">> /\ place'[d] = place[d]
                                           /\ batched'[d] = batched[d]
             /\ notified[d] # <<>> => notified'[d] # <<>> \/ pc'[d] = "idle"
  <2>1. /\ pc[c] = "idle" /\ pc' = [pc EXCEPT ![c] = "add"]
        /\ batched' = [batched EXCEPT ![c] = batched[c] + 1]
        /\ place' = [place EXCEPT ![c] = NoPlace] /\ queue' = queue /\ notified' = notified
    BY <1>2 DEF Propose
  <2>2. CASE d = c
    <3>1. notified[d] = <<>> /\ notified'[d] = <<>>
      BY <1>1, <2>1, <2>2
    <3> QED
      BY <1>0, <2>1, <2>2, <3>1, DifferentResults DEF Moves
  <2>3. CASE d # c
    BY <1>0, <2>1, <2>3 DEF Moves, Unproposed
  <2> QED
    BY <2>2, <2>3
<1>3. ASSUME NEW c \in Caller, AddProposal(c)
      PROVE  /\ Moves(d) /\ (Unproposed(d)' => Unproposed(d))
             /\ notified'[d] = notified[d] /\ place'[d] = place[d] /\ batched'[d] = batched[d]
  <2>1. /\ pc[c] = "add" /\ (pc' = [pc EXCEPT ![c] = "propose"] \/ pc' = [pc EXCEPT ![c] = "wait"])
        /\ batched' = batched /\ notified' = notified /\ place' = place
    BY <1>3 DEF AddProposal
  <2>2. Range(queue') \subseteq Range(queue) \cup {c}
    BY <1>3, AddRanges
  <2> QED
    BY <1>0, <2>1, <2>2 DEF Moves, Unproposed
<1>4. ASSUME NEW c \in Caller, WaitNotify(c)
      PROVE  /\ Moves(d) /\ (Unproposed(d)' => Unproposed(d)) /\ batched'[d] = batched[d]
             /\ notified'[d] = <<"OK">> => notified[d] = <<"OK">> /\ place'[d] = place[d]
             /\ notified[d] # <<>> => notified'[d] # <<>> \/ pc'[d] = "idle"
  <2>1. /\ pc[c] = "wait" /\ pc' = [pc EXCEPT ![c] = "idle"] /\ batched' = batched
        /\ notified' = [notified EXCEPT ![c] = Tail(notified[c])] /\ place' = place
        /\ notified[c] # <<>> /\ queue' = queue
    BY <1>4 DEF WaitNotify
  <2>2. CASE d = c
    <3>1. notified[d] \in Seq(Results) /\ Len(notified[d]) <= 1 /\ notified[d] # <<>>
      BY <1>0, <2>1, <2>2 DEF QueueInv
    <3>2. notified'[d] = <<>>
      BY <1>0, <2>1, <2>2, <3>1
    <3>3. pc'[d] = "idle"
      BY <1>0, <2>1, <2>2
    <3> QED
      BY <1>0, <2>1, <2>2, <3>2, <3>3, DifferentResults DEF Moves, Unproposed
  <2>3. CASE d # c
    BY <1>0, <2>1, <2>3 DEF Moves, Unproposed
  <2> QED
    BY <2>2, <2>3
<1>5. ASSUME RunStarts \/ RunLoops \/ Stop
      PROVE  /\ Moves(d) /\ (Unproposed(d)' => Unproposed(d))
             /\ notified'[d] = notified[d] /\ place'[d] = place[d] /\ batched'[d] = batched[d]
  <2>1. UNCHANGED <<pc, batched, notified, place>>
    BY <1>5 DEF RunStarts, RunLoops, Stop
  <2>2. Range(queue') \subseteq Range(queue)
    <3>1. queue' = queue \/ PluckProposal(Batcher, queue, queueSize)
      BY <1>5 DEF RunStarts, RunLoops, Stop
    <3> QED
      BY <1>0, <3>1, PluckRanges
  <2> QED
    BY <2>1, <2>2 DEF Moves, Unproposed
<1>6. ASSUME RunEnds
      PROVE  /\ Moves(d) /\ (Unproposed(d)' => Unproposed(d)) /\ place'[d] = place[d]
             /\ batched'[d] = batched[d]
             /\ notified'[d] = <<"OK">> => notified[d] = <<"OK">>
             /\ notified[d] # <<>> => notified'[d] # <<>>
  <2>1. /\ UNCHANGED <<pc, batched, place>> /\ queue' = <<>>
        /\ notified'[d] = IF d \in Range(queue) THEN Append(notified[d], "SystemError")
                          ELSE notified[d]
    BY <1>6 DEF RunEnds
  <2>2. CASE d \in Range(queue)
    <3>1. notified[d] = <<>>
      BY <2>2 DEF QueueInv
    <3>2. notified'[d] = <<"SystemError">>
      BY <2>1, <2>2, <3>1
    <3> QED
      BY <2>1, <2>2, <3>1, <3>2, DifferentResults DEF Moves, Unproposed
  <2>3. CASE d \notin Range(queue)
    <3>1. d \notin Range(queue')
      BY <2>1, NoRange
    <3> QED
      BY <2>1, <2>3, <3>1 DEF Moves, Unproposed
  <2> QED
    BY <2>2, <2>3
<1> QED
  BY <1>2, <1>3, <1>4, <1>5, <1>6

(* A batch that is answered, though never with Paxos_SystemError.          *)
LEMMA ReturnMoves ==
  ASSUME BatchTypes, QueueInv, NEW t \in Threads, NEW ret \in Results, ret # "SystemError",
         NEW inst \in Nat, ProposeReturns(t, ret, inst), NEW d \in Caller
  PROVE  /\ Moves(d) /\ batched'[d] = batched[d] /\ (Unproposed(d)' => Unproposed(d))
         /\ d \notin Range(request[t]) => notified'[d] = notified[d] /\ place'[d] = place[d]
         /\ d \in Range(request[t]) => notified'[d] = <<ret>> /\ notified'[d] # <<>>
<1>0. /\ pc \in [Caller -> {"idle", "add", "propose", "wait"}] /\ request[t] \in Seq(Caller)
  BY DEF BatchTypes
<1>1. /\ batched' = batched /\ queue' = queue /\ place' = Placed(request[t], inst)
      /\ IF t = Batcher THEN pc' = pc ELSE pc' = [pc EXCEPT ![t] = "wait"]
      /\ t # Batcher => pc[t] = "propose"
  BY DEF ProposeReturns, Proposing
<1>2. IF d \in Range(request[t]) THEN notified[d] = <<>> /\ notified'[d] = <<ret>>
                                 ELSE notified'[d] = notified[d]
  BY ReturnQueue
<1>3. pc'[d] = pc[d] \/ (pc[d] = "propose" /\ pc'[d] = "wait")
  BY <1>0, <1>1
<1>4. d \in Range(request[t]) => notified'[d] # <<>> /\ notified'[d] # <<"SystemError">>
  <2>1. PICK s : s = <<ret>>
    OBVIOUS
  <2>2. PICK r : r = <<"SystemError">>
    OBVIOUS
  <2> QED
    BY <1>2, <2>1, <2>2, OneResult
<1>5. d \notin Range(request[t]) => place'[d] = place[d]
  BY <1>0, <1>1, PlacedFacts
<1> QED
  BY <1>1, <1>2, <1>3, <1>4, <1>5 DEF Moves, Unproposed

LEMMA CallerInit == Init => CallerInv
<1> SUFFICES ASSUME Init PROVE CallerInv
  OBVIOUS
<1>1. /\ log = <<>> /\ floating = {} /\ ended = {} /\ given = {} /\ mine = None /\ queue = <<>>
      /\ \A c \in Caller : pc[c] = "idle" /\ notified[c] = <<>>
  BY DEF Init, BatchInit
<1>2. Known = {} /\ Range(queue) = {}
  BY <1>1, NoRange DEF Known
<1>3. OldInv /\ EndedInv /\ GivenInv /\ DoneInv
  BY <1>1, <1>2, ThreadFacts DEF OldInv, EndedInv, GivenInv, DoneInv
<1>4. WaitInv
  BY <1>1, <1>2, DifferentResults DEF WaitInv, Unproposed
<1> QED
  BY <1>3, <1>4 DEF CallerInv

LEMMA MineRequest ==
  ASSUME Types, ExecInv, mine \in Threads
  PROVE  mine # None /\ InPropose(mine) /\ Proposing(mine) /\ executed + 1 = Len(log)
         /\ log[Len(log)] = Value(mine) /\ mine \in User \cup Threads
<1>1. mine # None /\ mine \notin User
  BY ThreadFacts
<1> QED
  BY <1>1 DEF ExecInv, InPropose

(* The threads, the queue and the results that are read.                   *)
LEMMA CallerBatching ==
  ASSUME Types, Types', QueueInv, ExecInv, CallerInv,
         Batching \/ \E c \in Caller : CallerReturns(c)
  PROVE  CallerInv'
<1>0. BatchTypes
  BY DEF Types
<1>1. UNCHANGED <<log, floating, given, mine, executed, pos>>
  BY DEF Batching, CallerReturns, appVars
<1>2. \/ \E c \in Caller : Propose(c) \/ AddProposal(c) \/ WaitNotify(c)
      \/ RunStarts \/ RunLoops \/ RunEnds \/ Stop
  BY DEF Batching, CallerReturns
<1>3. \A d \in Caller :
         /\ Moves(d)
         /\ batched'[d] = batched[d] /\ Unproposed(d)' => Unproposed(d)
         /\ notified'[d] = <<"OK">> => /\ notified[d] = <<"OK">> /\ place'[d] = place[d]
                                       /\ batched'[d] = batched[d]
         /\ notified[d] # <<>> => notified'[d] # <<>> \/ pc'[d] = "idle"
  BY <1>0, <1>2, BatchMoves
<1>4. PICK P \in SUBSET Proposers : P = {}
  OBVIOUS
<1>5. LogKept /\ ValuesFrom(P)
  BY <1>1, SameValues
<1>6. mine \in Threads => request'[mine] = request[mine]
  <2>1. CASE Batching
    BY <2>1, MineRequest, BatchingKeeps
  <2>2. CASE \E c \in Caller : CallerReturns(c)
    BY <2>2 DEF CallerReturns, WaitNotify
  <2> QED
    BY <2>1, <2>2
<1>7. mine \in Threads => \A c \in Range(request[mine]) :
         mine' = mine /\ c \in Range(request'[mine]) /\ executed' = executed
  BY <1>1, <1>6
<1>8. ASSUME NEW e \in ended' \ ended
      PROVE  \E c \in Caller : /\ e.id = IdOf(c) /\ notified[c] = <<e.ret>> /\ e.place = place[c]
                               /\ pc'[c] = "idle"
  <2>1. ended' # ended
    BY <1>8
  <2>2. PICK c \in Caller : CallerReturns(c)
    BY <2>1 DEF Batching, appVars
  <2>3. PICK r : r = [id |-> <<c, batched[c]>>, ret |-> Head(notified[c]), place |-> place[c]]
    OBVIOUS
  <2>4. e = r /\ WaitNotify(c)
    BY <1>8, <2>2, <2>3 DEF CallerReturns
  <2>5. e.id = IdOf(c) /\ e.ret = Head(notified[c]) /\ e.place = place[c]
    BY <2>3, <2>4 DEF IdOf
  <2>6. notified[c] \in Seq(Results) /\ Len(notified[c]) <= 1 /\ notified[c] # <<>>
        /\ pc'[c] = "idle"
    BY <2>4 DEF WaitNotify, QueueInv, Types, BatchTypes
  <2>7. notified[c] = <<Head(notified[c])>>
    BY <2>6
  <2> QED
    BY <2>5, <2>6, <2>7
<1>9. DoneInv'
  BY <1>1, DoneSame DEF CallerInv
<1>10. given' \ given = {} /\ given \subseteq given'
  BY <1>1
<1> QED
  BY <1>3, <1>5, <1>7, <1>8, <1>9, <1>10, CallerMoves

(* A call that ends without its value having been decided, or before.      *)
LEMMA CallerNotDecided ==
  ASSUME Types, Types', QueueInv, ExecInv, CallerInv, NEW t \in User \cup Threads,
         NEW ret \in {"Timeout", "Conflict"}, NotDecided(t, ret)
  PROVE  CallerInv'
<1>1. /\ InPropose(t) /\ ProposeEnds(t, ret, 0, None) /\ ret \in Results /\ t \in Proposers
      /\ UNCHANGED <<log, given, mine, executed, pos>> /\ 0 \in Nat
      /\ floating' \subseteq floating \cup {Value(t)} /\ ret # "OK" /\ ret # "SystemError"
      /\ mine # t
  BY DEF NotDecided, Proposers, Results
<1>2. PICK P \in SUBSET Proposers : P = {t}
  BY <1>1
<1>3. LogKept /\ ValuesFrom(P)
  BY <1>1, <1>2 DEF LogKept, ValuesFrom, Known
<1>4. ended' = ended /\ DoneInv'
  BY <1>1, EndsFacts, DoneSame DEF CallerInv
<1>5. CASE t \in User
  <2>1. UNCHANGED batchVars
    BY <1>1, <1>5, EndsFacts
  <2> QED
    BY <1>1, <1>3, <1>4, <2>1, CallerSame
<1>6. CASE t \in Threads
  <2>0. ProposeReturns(t, ret, 0) /\ BatchTypes
    BY <1>1, <1>6, EndsFacts DEF Types
  <2>1. \A d \in Caller :
           /\ Moves(d) /\ batched'[d] = batched[d] /\ (Unproposed(d)' => Unproposed(d))
           /\ d \notin Range(request[t]) => notified'[d] = notified[d] /\ place'[d] = place[d]
           /\ d \in Range(request[t]) => notified'[d] = <<ret>> /\ notified'[d] # <<>>
    BY <1>1, <1>6, <2>0, ReturnMoves
  <2>2. <<ret>> # <<"OK">>
    <3>1. PICK s : s = <<ret>>
      OBVIOUS
    <3>2. PICK r : r = <<"OK">>
      OBVIOUS
    <3> QED
      BY <1>1, <3>1, <3>2, OneResult
  <2>3. mine \in Threads => request'[mine] = request[mine]
    BY <1>1, <1>6, <2>0, ReturnQueue
  <2>4. mine \in Threads => \A c \in Range(request[mine]) :
           mine' = mine /\ c \in Range(request'[mine]) /\ executed' = executed
    BY <1>1, <2>3
  <2>5. \A c \in Caller : notified'[c] = <<"OK">> =>
           notified[c] = <<"OK">> /\ place'[c] = place[c] /\ batched'[c] = batched[c]
    BY <2>1, <2>2
  <2>6. \A c \in Caller : notified[c] # <<>> => notified'[c] # <<>>
    BY <2>1
  <2>7. given' \ given = {} /\ given \subseteq given' /\ ended' \ ended = {}
    BY <1>1, <1>4
  <2> QED
    BY <1>3, <1>4, <2>1, <2>4, <2>5, <2>6, <2>7, CallerMoves
<1> QED
  BY <1>5, <1>6

LEMMA CallerCrash ==
  ASSUME Types, Types', QueueInv, CallerInv, NEW machine \in BOOLEAN,
         NEW accepted \in SUBSET Proposers, Crash(machine, accepted)
  PROVE  CallerInv'
<1>1. /\ UNCHANGED <<log, given, ended>> /\ mine' = None
      /\ floating' = floating \cup {Value(t) : t \in accepted} /\ batched' = batched
      /\ queue' = <<>> /\ \A c \in Caller : pc'[c] = "idle" /\ notified'[c] = <<>>
  BY DEF Crash, RestartBatch
<1>2. LogKept /\ ValuesFrom(accepted)
  BY <1>1 DEF LogKept, ValuesFrom, Known
<1>3. \A c \in Caller : Moves(c)
  BY <1>1 DEF Moves
<1>4. \A c \in Caller : ~Unproposed(c)'
  BY <1>1, NoRange, DifferentResults DEF Unproposed
<1>5. \A c \in Caller : notified'[c] # <<"OK">>
  BY <1>1, DifferentResults
<1>6. request \in [Threads -> Seq(Caller)]
  BY DEF Types, BatchTypes
<1>7. mine \in Threads => \A c \in Range(request[mine]) : pc'[c] = "idle"
  BY <1>1, <1>6, Ranges
<1>8. DoneInv'
  BY <1>1, DoneNone, ThreadFacts
<1>9. given' \ given = {} /\ given \subseteq given' /\ ended' \ ended = {}
  BY <1>1
<1> QED
  BY <1>1, <1>2, <1>3, <1>4, <1>5, <1>7, <1>8, <1>9, CallerMoves

(* What a decision adds to the log.                                        *)
LEMMA CallerDecide ==
  ASSUME Types, Types', QueueInv, ExecInv, CallerInv, Idle, NEW v \in Values,
         log' = Append(log, v), floating' \subseteq floating,
         UNCHANGED <<batchVars, given, ended, executed, pos>>,
         NEW P \in SUBSET Proposers, (\E t \in P : v = Value(t)) \/ v \in floating \/ v[1].sm = "kv"
  PROVE  CallerInv'
<1>1. mine = None /\ pos = 0 /\ Range(log') = Range(log) \cup {v}
  BY DecideFacts
<1>2. LogKept /\ ValuesFrom(P)
  BY <1>1 DEF LogKept, ValuesFrom, Known
<1>3. mine \notin Threads /\ pos' = 0
  BY <1>1, ThreadFacts
<1> QED
  BY <1>2, <1>3, DoneNone, CallerSame

LEMMA CallerFails ==
  ASSUME Types, Types', QueueInv, ExecInv, CallerInv, ExecuteFails
  PROVE  CallerInv'
<1>1. /\ UNCHANGED <<log, given, floating>> /\ mine' = None /\ pos' = 0
  BY DEF ExecuteFails
<1>2. PICK P \in SUBSET Proposers : P = {}
  OBVIOUS
<1>3. LogKept /\ ValuesFrom(P) /\ DoneInv'
  BY <1>1, SameValues, DoneNone
<1>4. CASE mine \notin Threads
  <2>1. UNCHANGED <<batchVars, ended>>
    <3>1. CASE mine = None
      BY <3>1 DEF ExecuteFails
    <3>2. CASE mine # None
      <4>1. mine \in User
        BY <1>4, <3>2 DEF Types, AppTypes
      <4> QED
        BY <3>2, <4>1, FailEnds, EndsFacts
    <3> QED
      BY <3>1, <3>2
  <2> QED
    BY <1>1, <1>3, <1>4, <2>1, CallerSame
<1>5. CASE mine \in Threads
  <2>1. /\ mine # None /\ InPropose(mine) /\ ProposeEnds(mine, "ExecuteFail", 0, None)
        /\ mine \in User \cup Threads
    BY <1>5, MineRequest, FailEnds
  <2>2. "ExecuteFail" \in Results /\ 0 \in Nat /\ BatchTypes
    BY DEF Results, Types
  <2>3. ProposeReturns(mine, "ExecuteFail", 0) /\ ended' = ended
    BY <1>5, <2>1, <2>2, EndsFacts
  <2>4. \A d \in Caller :
           /\ Moves(d) /\ batched'[d] = batched[d] /\ (Unproposed(d)' => Unproposed(d))
           /\ d \notin Range(request[mine]) => notified'[d] = notified[d] /\ place'[d] = place[d]
           /\ d \in Range(request[mine]) => notified'[d] = <<"ExecuteFail">> /\ notified'[d] # <<>>
    BY <1>5, <2>2, <2>3, ReturnMoves
  <2>5. <<"ExecuteFail">> # <<"OK">>
    <3>1. PICK s : s = <<"ExecuteFail">>
      OBVIOUS
    <3>2. PICK r : r = <<"OK">>
      OBVIOUS
    <3> QED
      BY <3>1, <3>2, OneResult
  <2>6. \A c \in Range(request[mine]) : notified'[c] # <<>>
    <3>1. request[mine] \in Seq(Caller)
      BY <1>5, <2>2 DEF BatchTypes
    <3> QED
      BY <2>4, <3>1, Ranges
  <2>7. \A c \in Caller : notified'[c] = <<"OK">> =>
           notified[c] = <<"OK">> /\ place'[c] = place[c] /\ batched'[c] = batched[c]
    BY <2>4, <2>5
  <2>8. \A c \in Caller : notified[c] # <<>> => notified'[c] # <<>>
    BY <2>4
  <2>9. given' \ given = {} /\ given \subseteq given' /\ ended' \ ended = {}
    BY <1>1, <2>3
  <2> QED
    BY <1>3, <2>4, <2>6, <2>7, <2>8, <2>9, CallerMoves
<1> QED
  BY <1>4, <1>5

(* The entry that is executed for a batch is that of one of its callers,   *)
(* which is in no other place of the batch.                                *)
LEMMA BatchEntryOf ==
  ASSUME Types, QueueInv, ExecInv, ExecuteEntry, mine \in Threads
  PROVE  /\ request[mine] \in Seq(Caller) /\ Len(log[executed + 1]) = Len(request[mine])
         /\ \A i \in 1 .. Len(request[mine]) :
               /\ log[executed + 1][i].id = IdOf(request[mine][i])
               /\ request[mine][i] \in Range(request[mine]) /\ request[mine][i] \in Caller
         /\ pos \in Nat /\ pos + 1 \in 1 .. Len(request[mine])
         /\ Entry = log[executed + 1][pos + 1] /\ Entry.id = IdOf(request[mine][pos + 1])
         /\ executed' # executed => AtLast
<1>1. /\ InPropose(mine) /\ executed + 1 = Len(log) /\ log[Len(log)] = Value(mine)
      /\ mine \in User \cup Threads
  BY MineRequest
<1>2. /\ request[mine] \in Seq(Caller) /\ Len(Value(mine)) = Len(request[mine])
      /\ \A i \in 1 .. Len(request[mine]) :
            Value(mine)[i].id = IdOf(request[mine][i]) /\ request[mine][i] \in Caller
  BY <1>1, ValueOf
<1>3. executed < Len(log) /\ (executed' # executed => AtLast)
  BY DEF ExecuteEntry
<1>4. pos + 1 \in 1 .. Len(log[executed + 1]) /\ pos \in Nat
  BY <1>3, EntryFacts DEF Types, AppTypes
<1>5. \A i \in 1 .. Len(request[mine]) : request[mine][i] \in Range(request[mine])
  BY <1>2, Ranges
<1> QED
  BY <1>1, <1>2, <1>3, <1>4, <1>5 DEF Entry

LEMMA GivenNew ==
  ASSUME Types, QueueInv, ExecInv, ExecuteEntry
  PROVE  /\ given \subseteq given'
         /\ \A g \in given' \ given :
               \/ g[1][1] \notin Caller
               \/ /\ mine \in Threads
                  /\ \E c \in Range(request[mine]) : g[1] = IdOf(c) /\ g[2] = executed + 1
         /\ mine \in Threads /\ Entry.sm # "none" => <<Entry.id, executed + 1>> \in given'
<1>1. given' = IF mine # None /\ Entry.sm # "none"
               THEN given \cup {<<Entry.id, executed + 1>>} ELSE given
  BY DEF ExecuteEntry
<1>2. ASSUME NEW g \in given' \ given
      PROVE  \/ g[1][1] \notin Caller
             \/ /\ mine \in Threads
                /\ \E c \in Range(request[mine]) : g[1] = IdOf(c) /\ g[2] = executed + 1
  <2>1. mine # None /\ g = <<Entry.id, executed + 1>>
    BY <1>1, <1>2
  <2>2. g[1] = Entry.id /\ g[2] = executed + 1
    BY <2>1
  <2>3. CASE mine \in Threads
    <3>1. /\ pos + 1 \in 1 .. Len(request[mine]) /\ Entry.id = IdOf(request[mine][pos + 1])
          /\ request[mine][pos + 1] \in Range(request[mine])
      BY <2>3, BatchEntryOf
    <3> QED
      BY <2>2, <2>3, <3>1
  <2>4. CASE mine \notin Threads
    <3>1. mine \in User /\ InPropose(mine) /\ log[Len(log)] = Value(mine)
          /\ executed + 1 = Len(log) /\ executed < Len(log)
      BY <2>1, <2>4 DEF Types, AppTypes, ExecInv, ExecuteEntry
    <3>2. /\ Len(log[executed + 1]) = 1 /\ log[executed + 1][1].id = op[mine].id
          /\ op[mine] \in Operations
      BY <3>1, ValueOf
    <3>3. pos + 1 \in 1 .. Len(log[executed + 1])
      BY <3>1, EntryFacts
    <3>4. pos + 1 = 1
      BY <3>2, <3>3
    <3>5. g[1] = op[mine].id
      BY <2>2, <3>2, <3>4 DEF Entry
    <3>6. g[1][1] \in User \cup {Other}
      BY <3>2, <3>5, OperationFacts
    <3> QED
      BY <3>6, ThreadFacts
  <2> QED
    BY <2>3, <2>4
<1>3. mine \in Threads => mine # None
  BY ThreadFacts
<1> QED
  BY <1>1, <1>2, <1>3

(* A batch is answered when its last entry has been executed.              *)
LEMMA PlaceFound ==
  ASSUME Types, Types', QueueInv, ExecInv, CallerInv, ExecuteEntry, AtLast, mine \in Threads,
         ProposeReturns(mine, "OK", executed + 1), NEW c \in Range(request[mine])
  PROVE  PlaceTrue(log', given', <<c, batched'[c]>>, place'[c])
<1>1. /\ request[mine] \in Seq(Caller) /\ Len(log[executed + 1]) = Len(request[mine])
      /\ \A i \in 1 .. Len(request[mine]) :
            /\ log[executed + 1][i].id = IdOf(request[mine][i])
            /\ request[mine][i] \in Range(request[mine]) /\ request[mine][i] \in Caller
      /\ pos \in Nat /\ Entry = log[executed + 1][pos + 1]
  BY BatchEntryOf
<1>2. /\ executed < Len(log) /\ log' = log /\ pos + 1 = Len(request[mine])
      /\ executed \in 0 .. Len(log) /\ Len(log) \in Nat
  BY <1>1, LogFacts DEF ExecuteEntry, AtLast, Types, AppTypes
<1>3. executed + 1 \in Nat /\ executed + 1 \in 1 .. Len(log) /\ BatchTypes
  BY <1>2 DEF Types
<1>4. place' = Placed(request[mine], executed + 1) /\ batched' = batched
  BY DEF ProposeReturns
<1>5. c \in Caller
  BY <1>1, Ranges
<1>6. PICK p : p = place'[c]
  OBVIOUS
<1>7. p.inst = executed + 1 /\ \E i \in 1 .. Len(request[mine]) :
         /\ request[mine][i] = c
         /\ p.index = IF Len(request[mine]) = 1 THEN Unset ELSE i - 1
  <2>1. PICK r \in Seq(Caller) : r = request[mine]
    BY <1>1
  <2>2. PICK n \in Nat : n = executed + 1
    BY <1>3
  <2>3. c \in Range(r)
    BY <2>1
  <2>4. /\ Placed(r, n)[c].inst = n
        /\ \E i \in 1 .. Len(r) :
              /\ r[i] = c
              /\ Placed(r, n)[c].index = IF Len(r) = 1 THEN Unset ELSE i - 1
    BY <1>3, <2>3, PlacedFacts
  <2>5. p = Placed(r, n)[c]
    BY <1>4, <1>6, <2>1, <2>2
  <2> QED
    BY <2>1, <2>2, <2>4, <2>5
<1>8. PICK i \in 1 .. Len(request[mine]) :
         /\ request[mine][i] = c
         /\ p.index = IF Len(request[mine]) = 1 THEN Unset ELSE i - 1
  BY <1>7
<1>9. Len(request[mine]) \in Nat
  BY <1>1
<1>10. /\ (IF p.index = Unset THEN 1 ELSE p.index + 1) = i
       /\ p.index = Unset => Len(log[executed + 1]) = 1
  <2>1. i - 1 # -1 /\ (i - 1) + 1 = i
    BY <1>9
  <2>2. CASE Len(request[mine]) = 1
    <3>1. i = 1
      BY <2>2
    <3> QED
      BY <1>1, <1>8, <2>2, <3>1
  <2>3. CASE Len(request[mine]) # 1
    BY <1>8, <2>1, <2>3 DEF Unset
  <2> QED
    BY <2>2, <2>3
<1>11. log[executed + 1][i].id = <<c, batched[c]>>
  BY <1>1, <1>8 DEF IdOf
<1>12. ASSUME log[executed + 1][i].sm # "none"
       PROVE  {g \in given' : g[1] = <<c, batched[c]>>} = {<<(<<c, batched[c]>>), executed + 1>>}
  <2>1. <<(<<c, batched[c]>>), executed + 1>> \in given'
    <3>1. CASE i \in 1 .. pos
      <4>1. <<log[executed + 1][i].id, executed + 1>> \in given
        BY <1>12, <3>1 DEF CallerInv, DoneInv
      <4> QED
        BY <1>11, <4>1, GivenNew
    <3>2. CASE i \notin 1 .. pos
      <4>1. i = pos + 1
        BY <1>1, <1>2, <3>2
      <4> QED
        BY <1>1, <1>11, <1>12, <4>1, GivenNew
    <3> QED
      BY <3>1, <3>2
  <2>2. ASSUME NEW g \in given', g[1] = <<c, batched[c]>>
        PROVE  g = <<(<<c, batched[c]>>), executed + 1>>
    <3>1. g[1][1] = c /\ g[1][2] = batched[c]
      BY <2>2
    <3>2. notified[c] = <<>> /\ pc[c] \in {"propose", "wait"}
      BY <1>5, RequestedFacts
    <3>3. g[2] = executed + 1
      <4>1. CASE g \in given
        <5>1. ~Over(batched, pc, g[1])
          BY <3>1, <3>2 DEF Over
        <5> QED
          BY <1>5, <3>1, <3>2, <4>1, <5>1 DEF CallerInv, GivenInv
      <4>2. CASE g \notin given
        BY <1>5, <3>1, <4>2, GivenNew
      <4> QED
        BY <4>1, <4>2
    <3>4. g \in (OpIds \cup (Caller \X Nat)) \X Nat
      BY DEF Types, AppTypes
    <3> QED
      BY <2>2, <3>3, <3>4
  <2> QED
    BY <2>1, <2>2
<1>13. PlaceTrue(log, given', <<c, batched[c]>>, p)
  BY <1>1, <1>3, <1>7, <1>10, <1>11, <1>12 DEF PlaceTrue
<1> QED
  BY <1>2, <1>4, <1>6, <1>13

LEMMA CallerExecute ==
  ASSUME Types, Types', QueueInv, ExecInv, CallerInv, ExecuteEntry
  PROVE  CallerInv'
<1>1. UNCHANGED <<log, floating>> /\ executed < Len(log)
  BY DEF ExecuteEntry
<1>2. PICK P \in SUBSET Proposers : P = {}
  OBVIOUS
<1>3. LogKept /\ ValuesFrom(P)
  BY <1>1, SameValues
<1>4. /\ given \subseteq given'
      /\ \A g \in given' \ given :
            \/ g[1][1] \notin Caller
            \/ /\ mine \in Threads
               /\ \E c \in Range(request[mine]) : g[1] = IdOf(c) /\ g[2] = executed + 1
      /\ mine \in Threads /\ Entry.sm # "none" => <<Entry.id, executed + 1>> \in given'
  BY GivenNew
<1>5. DoneInv'
  <2>1. CASE AtLast
    BY <2>1, DoneNone DEF ExecuteEntry
  <2>2. CASE ~AtLast
    <3>1. executed' = executed /\ mine' = mine /\ pos' = pos + 1 /\ pos \in Nat
      BY <2>2 DEF ExecuteEntry, Types, AppTypes
    <3>2. SUFFICES ASSUME mine \in Threads, NEW i \in 1 .. (pos + 1),
                          log[executed + 1][i].sm # "none"
                   PROVE  <<log[executed + 1][i].id, executed + 1>> \in given'
      BY <1>1, <3>1 DEF DoneInv
    <3>3. CASE i \in 1 .. pos
      BY <1>4, <3>2, <3>3 DEF CallerInv, DoneInv
    <3>4. CASE i = pos + 1
      BY <1>4, <3>2, <3>4 DEF Entry
    <3> QED
      BY <3>1, <3>3, <3>4
  <2> QED
    BY <2>1, <2>2
<1>6. CASE UNCHANGED <<batchVars, ended>> /\ (mine \in Threads => mine' = mine /\ executed' = executed)
  <2>1. UNCHANGED <<pc, batched, queue, request, notified, place>>
    BY <1>6 DEF batchVars
  <2>2. \A c \in Caller : Moves(c) /\ (Unproposed(c)' => Unproposed(c))
    BY <2>1 DEF Moves, Unproposed
  <2>3. ended' \ ended = {}
    BY <1>6
  <2> QED
    BY <1>3, <1>4, <1>5, <1>6, <2>1, <2>2, <2>3, CallerMoves
<1>7. CASE ~AtLast
  BY <1>6, <1>7 DEF ExecuteEntry
<1>8. CASE AtLast /\ mine \notin Threads
  <2>1. CASE mine = None
    BY <1>6, <1>8, <2>1 DEF ExecuteEntry
  <2>2. CASE mine # None
    <3>1. mine \in User
      BY <1>8, <2>2 DEF Types, AppTypes
    <3> QED
      BY <1>6, <1>8, <2>2, <3>1, ExecuteEnds, EndsFacts
  <2> QED
    BY <2>1, <2>2
<1>9. CASE AtLast /\ mine \in Threads
  <2>1. PICK er : er = IF Entry.sm = "kv" THEN ExecuteRet(Entry.op) ELSE None
    OBVIOUS
  <2>2. /\ mine \in User \cup Threads /\ InPropose(mine) /\ "OK" \in Results /\ executed + 1 \in Nat
        /\ ProposeEnds(mine, "OK", executed + 1, er)
    BY <1>9, <2>1, MineRequest, ExecuteEnds
  <2>3. ProposeReturns(mine, "OK", executed + 1) /\ ended' = ended
    BY <1>9, <2>2, EndsFacts
  <2>4. BatchTypes /\ request[mine] \in Seq(Caller)
    BY <1>9 DEF Types, BatchTypes
  <2>5. \A d \in Caller :
           /\ Moves(d) /\ batched'[d] = batched[d] /\ (Unproposed(d)' => Unproposed(d))
           /\ d \notin Range(request[mine]) => notified'[d] = notified[d] /\ place'[d] = place[d]
           /\ d \in Range(request[mine]) => notified'[d] = <<"OK">> /\ notified'[d] # <<>>
    BY <1>9, <2>2, <2>3, <2>4, ReturnMoves
  <2>6. \A c \in Caller : notified'[c] = <<"OK">> =>
           \/ notified[c] = <<"OK">> /\ place'[c] = place[c] /\ batched'[c] = batched[c]
           \/ PlaceTrue(log', given', <<c, batched'[c]>>, place'[c])
    BY <1>9, <2>3, <2>5, PlaceFound
  <2>7. \A c \in Range(request[mine]) : notified'[c] # <<>>
    BY <2>4, <2>5, Ranges
  <2>8. \A c \in Caller : notified[c] # <<>> => notified'[c] # <<>>
    BY <2>5
  <2>9. ended' \ ended = {}
    BY <2>3
  <2> QED
    BY <1>3, <1>4, <1>5, <2>5, <2>6, <2>7, <2>8, <2>9, CallerMoves
<1> QED
  BY <1>7, <1>8, <1>9

LEMMA CallerStep ==
  ASSUME Types, Types', QueueInv, ExecInv, CallerInv, [Next]_vars
  PROVE  CallerInv'
<1>1. PICK P \in SUBSET Proposers : P = {}
  OBVIOUS
<1>2. ASSUME UNCHANGED <<batchVars, log, floating, given, ended, executed, pos, mine>>
      PROVE  CallerInv'
  <2>1. LogKept /\ ValuesFrom(P)
    BY <1>2, SameValues
  <2>2. DoneInv'
    BY <1>2, DoneSame DEF CallerInv
  <2> QED
    BY <1>2, <2>1, <2>2, CallerSame
<1>3. ASSUME UNCHANGED vars PROVE CallerInv'
  BY <1>2, <1>3 DEF vars, appVars
<1>4. ASSUME NEW u \in User, UserCalls(u) PROVE CallerInv'
  BY <1>2, <1>4 DEF UserCalls, Call
<1>5. ASSUME Batching \/ \E c \in Caller : CallerReturns(c) PROVE CallerInv'
  BY <1>5, CallerBatching
<1>6. ASSUME NEW t \in User \cup Threads, NEW ret \in {"Timeout", "Conflict"}, NotDecided(t, ret)
      PROVE  CallerInv'
  BY <1>6, CallerNotDecided
<1>7. ASSUME NEW t \in User \cup Threads, DecideMine(t) PROVE CallerInv'
  <2>1. /\ t \in Proposers /\ InPropose(t) /\ log' = Append(log, Value(t)) /\ Idle
        /\ floating' = floating /\ UNCHANGED <<batchVars, given, ended, executed, pos>>
    BY <1>7 DEF DecideMine, Proposers
  <2>2. PICK Q \in SUBSET Proposers : Q = {t}
    BY <2>1
  <2>3. Value(t) \in Values /\ \E u \in Q : Value(t) = Value(u)
    BY <2>1, <2>2, ValueOf
  <2> QED
    BY <2>1, <2>3, CallerDecide
<1>8. ASSUME NEW v \in floating, DecideFloating(v) PROVE CallerInv'
  <2>1. /\ log' = Append(log, v) /\ Idle /\ floating' \subseteq floating /\ v \in Values
        /\ UNCHANGED <<batchVars, given, ended, executed, pos>>
    BY <1>8 DEF DecideFloating, Types, AppTypes
  <2> QED
    BY <1>1, <2>1, CallerDecide
<1>9. ASSUME NEW k \in Key, NEW type \in OtherTypes, DecideOther(k, type) PROVE CallerInv'
  <2>1. PICK v \in Values : log' = Append(log, v) /\ v[1].sm = "kv"
    BY <1>9, OtherValue
  <2>2. /\ Idle /\ floating' = floating /\ UNCHANGED <<batchVars, given, ended, executed, pos>>
    BY <1>9 DEF DecideOther
  <2> QED
    BY <1>1, <2>1, <2>2, CallerDecide
<1>10. ASSUME ExecuteEntry PROVE CallerInv'
  BY <1>10, CallerExecute
<1>11. ASSUME ExecuteFails PROVE CallerInv'
  BY <1>11, CallerFails
<1>12. ASSUME PlayLogFails PROVE CallerInv'
  <2>1. UNCHANGED <<batchVars, log, floating, given, ended, mine>> /\ mine = None /\ pos' = 0
    BY <1>12 DEF PlayLogFails, ExecInv
  <2>2. LogKept /\ ValuesFrom(P)
    BY <2>1, SameValues
  <2> QED
    BY <2>1, <2>2, DoneNone, ThreadFacts, CallerSame
<1>13. ASSUME NEW machine \in BOOLEAN, NEW accepted \in SUBSET Proposers, Crash(machine, accepted)
       PROVE  CallerInv'
  BY <1>13, CallerCrash
<1>14. ASSUME Ready PROVE CallerInv'
  BY <1>2, <1>14 DEF Ready
<1> QED
  BY <1>3, <1>4, <1>5, <1>6, <1>7, <1>8, <1>9, <1>10, <1>11, <1>12, <1>13, <1>14 DEF Next

-----------------------------------------------------------------------------
(* The invariant, and what it says.                                        *)

LEMMA IInvInit == Init => IInv
BY TypesInit, QueueInit, ExecInit, CallerInit, UserInit, VersionsInit, ReflectInit DEF IInv

LEMMA IInvStep == IInv /\ [Next]_vars => IInv'
<1> SUFFICES ASSUME IInv, [Next]_vars PROVE IInv'
  OBVIOUS
<1>1. Types /\ QueueInv /\ ExecInv /\ CallerInv /\ UserInv /\ VersionsInv /\ ReflectInv
  BY DEF IInv
<1>2. Types'
  BY <1>1, TypesStep
<1>3. QueueInv' /\ ExecInv' /\ CallerInv'
  BY <1>1, <1>2, QueueStep, ExecStep, CallerStep
<1>4. UserInv' /\ VersionsInv' /\ ReflectInv'
  BY <1>1, UserStep, VersionsStep, ReflectStep
<1> QED
  BY <1>2, <1>3, <1>4 DEF IInv

LEMMA AlwaysIInv == Spec => []IInv
BY IInvInit, IInvStep, PTL DEF Spec

LEMMA TypesHold ==
  ASSUME Types, QueueInv
  PROVE  TypeOK
<1>1. /\ db \in Stores /\ savedCP \in 0 .. executed /\ checkpoint = savedCP
      /\ skipTimes \in 0 .. MaxSkips /\ executed \in 0 .. Len(log) /\ log \in Seq(Values)
      /\ mine \in User \cup Threads \cup {None} /\ pos \in Nat /\ ready \in BOOLEAN
  BY DEF Types, StoreTypes, AppTypes
<1>2. /\ pc \in [Caller -> {"idle", "add", "propose", "wait"}]
      /\ queue \in Seq(Caller) /\ queueSize \in Nat
      /\ batcher \in {"new", "loop", "propose", "drain", "ended"}
      /\ \A t \in Threads : request[t] \in Seq(Caller)
  BY DEF Types, BatchTypes
<1>3. \A c \in Caller : Len(notified[c]) <= 1
  BY DEF QueueInv
<1>4. \A k \in Key : db[k].version \in Nat /\ db[k].deleted \in BOOLEAN
  BY <1>1 DEF Stores, Records
<1>5. savedCP \in 0 .. Len(log)
  BY <1>1, LogFacts
<1> QED
  BY <1>1, <1>2, <1>3, <1>4, <1>5 DEF TypeOK

LEMMA EndedTruth ==
  ASSUME Types, EndedInv
  PROVE  BatchTold /\ RefusedStaysOut
<1>0. /\ log \in Seq(Values) /\ floating \subseteq Values /\ DOMAIN log = 1 .. Len(log)
  BY DEF Types, AppTypes
<1>1. /\ Range(log) \cup floating \subseteq Values
      /\ \A v \in Values : DOMAIN v = 1 .. Len(v)
      /\ \A i \in 1 .. Len(log) : log[i] \in Values
  BY <1>0, LogFacts, ValueFacts
<1>2. BatchTold
  <2>1. SUFFICES ASSUME NEW e \in ended, e.ret = "OK"
                 PROVE  LET inst == e.place.inst
                            at == IF Len(log[inst]) = 1 THEN 1
                                  ELSE e.place.index + 1
                        IN  /\ inst \in DOMAIN log
                            /\ at \in DOMAIN log[inst]
                            /\ log[inst][at].id = e.id
                            /\ log[inst][at].sm # "none" =>
                                  {g \in given : g[1] = e.id} = {<<e.id, inst>>}
    BY DEF BatchTold, ProposedAlone
  <2>2. PlaceTrue(log, given, e.id, e.place)
    BY <2>1 DEF EndedInv
  <2>3. e.place.inst \in 1 .. Len(log)
    BY <2>2 DEF PlaceTrue
  <2>4. DOMAIN log[e.place.inst] = 1 .. Len(log[e.place.inst])
    BY <1>1, <2>3
  <2>5. LET at == IF e.place.index = Unset THEN 1 ELSE e.place.index + 1
        IN  /\ at \in 1 .. Len(log[e.place.inst])
            /\ Len(log[e.place.inst]) = 1 => at = 1
            /\ Len(log[e.place.inst]) # 1 => at = e.place.index + 1
    BY <2>2, <2>3 DEF PlaceTrue
  <2> QED
    BY <1>0, <2>2, <2>3, <2>4, <2>5 DEF PlaceTrue
<1>3. RefusedStaysOut
  <2>1. SUFFICES ASSUME NEW e \in ended, e.ret = "SystemError",
                        NEW v \in Range(log) \cup floating, NEW i \in DOMAIN v
                 PROVE  v[i].id # e.id
    BY DEF RefusedStaysOut
  <2>2. ~Decided(Known, e.id)
    BY <2>1 DEF EndedInv
  <2>3. i \in 1 .. Len(v)
    BY <1>1
  <2> QED
    BY <2>2, <2>3 DEF Decided, Known
<1> QED
  BY <1>2, <1>3

(* PhxKVSM, KVClient and SMFac: whatever fails and whenever the process or *)
(* the machine dies, the store of a node that has executed the log is what *)
(* the log says, for any number of keys, users and checkpoint intervals.   *)
(* Execution after a restart repeats instances that the store has had; it  *)
(* changes nothing because an operation carries a version the key had      *)
(* before it.                                                              *)
THEOREM StoreFollowsLog == Spec => []StoreIsLog
<1>1. IInv => StoreIsLog
  BY IdleStore DEF IInv
<1> QED
  BY <1>1, AlwaysIInv, PTL

(* PhxKV::Put and Delete: a user who is told SUCC has made the write that  *)
(* the log has with that version, one who is told of a conflict has not    *)
(* and never will, even if the call of another timed out meanwhile.        *)
THEOREM UsersToldTruth == Spec => []UsersTold
<1>1. IInv => UsersTold
  BY UsersTruth DEF IInv
<1> QED
  BY <1>1, AlwaysIInv, PTL

(* ProposeBatch and SMFac::BatchExecute: a caller that is told OK knows    *)
(* the instance of its value and, if the value was batched with others, its*)
(* index there (OnlyOnePropose sets none), and its state machine has had   *)
(* its context there and nowhere else; the value of a caller that is told  *)
(* Paxos_SystemError at the end of Run is never decided.                   *)
THEOREM BatchCallersToldTruth == Spec => []CallersTold
<1>1. IInv => CallersTold
  BY TypesHold, EndedTruth DEF IInv, CallerInv, CallersTold
<1> QED
  BY <1>1, AlwaysIInv, PTL
=============================================================================
