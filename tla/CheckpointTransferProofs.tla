----------------------- MODULE CheckpointTransferProofs -----------------------
(***************************************************************************)
(* Proofs about the log of a node, its cleaner and replayer, its restarts, *)
(* and the transfer of a checkpoint from one node to another.              *)
(***************************************************************************)
EXTENDS CheckpointTransfer, FiniteSetTheorems, SequenceTheorems,
        WellFoundedInduction, TLAPS

-----------------------------------------------------------------------------
(* What the types leave out: no instance after MaxInstance - 1 is decided, *)
(* and all there is in memory, files and messages is below it.             *)
Past == SUBSET (0 .. MaxInstance - 1)

(* The messages of a transfer, and of which set all on their way are.      *)
Asks == {AskMsg}
Acks == [flag : {"ACK"}, uuid : Nat, seq : Nat, ok : BOOLEAN]
Begins == [flag : {"BEGIN"}, uuid : Nat, seq : {0}, cp : 0..MaxUInt64]
Ings == [flag : {"ING"}, uuid : Nat, seq : Nat, block : Block,
         data : Past]
Ends == [flag : {"END"}, uuid : Nat, seq : Nat, torn : BOOLEAN]
Message == Asks \union Acks \union Begins \union Ings \union Ends

Carries(S) == net \in [Node -> [Node -> Seq(S)]]

Written == [uuid : Nat, off : Nat, data : Past]

SenderRecord ==
    [pc : {"none", "pausing", "locking", "begin", "blocks", "finishing", "ended"},
     to : Node, uuid : Nat, seq : Nat, left : SUBSET Block, ack : Nat,
     end : BOOLEAN, needContinue : BOOLEAN, asleep : BOOLEAN]

LogTypes ==
    /\ LogTypeOK
    /\ now \in [Node -> 0..MaxInstance]
    /\ ckpt \in [Node -> [SM -> Past]]

TransferTypes ==
    /\ asking \in [Node -> BOOLEAN]
    /\ sender \in [Node -> SenderRecord]
    /\ receiver \in [Node -> [uuid : Nat, seq : Nat]]
    /\ tmp \in [Node -> [SM -> Seq(Written)]]
    /\ Carries(Message)
    /\ asks \in 0..MaxAsks /\ sessions \in Nat

HistoryTypes ==
    /\ phase \in [Node -> {"none", "cleared", "hollow", "mixed"}]
    /\ torn \in [Node -> BOOLEAN] /\ raced \in [Node -> BOOLEAN]

Types == LogTypes /\ TransferTypes /\ HistoryTypes

-----------------------------------------------------------------------------
(* The log of a node whose log has not been cleared.  The minimum in       *)
(* memory is at most an interval ahead of the one on the disk, and what is *)
(* below the checkpoint may be missing at the minimum only.  The cleaner   *)
(* is at the minimum, or behind it when it has just deleted it.            *)
MinimumsFit(n) ==
    /\ minSaved[n] <= minCache[n] /\ minCache[n] <= minSaved[n] + Interval
    /\ minCache[n] <= CPInstanceID(n) /\ CPInstanceID(n) <= now[n]
    /\ lastSave[n] <= minSaved[n]

RecordsFit(n) ==
    /\ log[n] \subseteq minCache[n]..now[n]
    /\ \A i \in minCache[n]..(now[n] - 1) :
          i \in log[n] \/ (i = minCache[n] /\ i < CPInstanceID(n))

CleanerFits(n) ==
    LET c == cleaner[n] IN
    c.busy =>
        /\ c.at = minCache[n] \/ c.at = minCache[n] + 1
        /\ MayDelete(c) /\ c.cp <= CPInstanceID(n) /\ c.max <= now[n]
        /\ c.at = minCache[n] + 1 =>
              minCache[n] \notin log[n] /\ minCache[n] < minSaved[n] + Interval

LogFits(n) == MinimumsFit(n) /\ RecordsFit(n) /\ CleanerFits(n)

(* ... and once it has been cleared: a receiver that has begun has cleared *)
(* it, and RestartsOK.                                                     *)
ClearedFits(n) ==
    /\ Clearing(n) => log[n] = {}
    /\ phase[n] = "cleared" /\ up[n] = "up" => now[n] <= minCache[n] + 1
    /\ up[n] = "up" /\ receiver[n].uuid # 0 => phase[n] # "none"
    /\ up[n] = "refused" => phase[n] = "mixed"

LogInv == \A n \in Node : (phase[n] = "none" => LogFits(n)) /\ ClearedFits(n)

-----------------------------------------------------------------------------
(* The state machines together have executed what is below an instance,    *)
(* and the replayer goes on from there.                                    *)
Held(c) == UNION {c[s] : s \in SM}
Whole(c) == \E k \in Nat : Held(c) = 0..(k - 1)

CheckpointInv ==
    \A n \in Node :
        /\ ~torn[n] => Whole(ckpt[n])
        /\ up[n] = "up" /\ (~torn[n] \/ phase[n] = "none") =>
              replayer[n].at = CPInstanceID(n)
        /\ replayer[n].pc = "playing" => replayer[n].at < now[n]
        /\ up[n] = "up" /\ missed[n] # {} => torn[n]

-----------------------------------------------------------------------------
(* A replayer that says it is paused does not play, and a sender that has  *)
(* locked the checkpoint has seen it say so.                               *)
PausedInv ==
    \A n \in Node : up[n] # "refused" /\ ~raced[n] =>
        /\ replayer[n].pc = "pausing" => ~canRun[n]
        /\ isPaused[n] => ~canRun[n] /\ replayer[n].pc # "playing"
        /\ sender[n].pc \in {"locking", "begin", "blocks", "finishing"} =>
              isPaused[n]

-----------------------------------------------------------------------------
(* The least and the greatest of a set of numbers.                         *)
Below == {p \in Nat \X Nat : p[1] < p[2]}

LEMMA Least ==
  ASSUME NEW T, T \subseteq Nat, T # {}
  PROVE  \E x \in T : \A y \in T : x <= y
<1>1. OpToRel(<, Nat) = Below
  BY DEF OpToRel, Below
<1>2. PICK x \in T : \A y \in T : ~(<<y, x>> \in Below)
  BY <1>1, NatLessThanWellFounded, WFMin
<1>3. SUFFICES ASSUME NEW y \in T PROVE x <= y
  BY <1>2
<1>4. <<y, x>> \in Nat \X Nat /\ <<y, x>>[1] = y /\ <<y, x>>[2] = x
  OBVIOUS
<1> QED
  BY <1>2, <1>4 DEF Below

LEMMA MinIs ==
  ASSUME NEW T, T \subseteq Nat, T # {}
  PROVE  Min(T) \in T /\ \A y \in T : Min(T) <= y
BY Least DEF Min

LEMMA MaxIs ==
  ASSUME NEW T, T \subseteq Int, T # {}, NEW b \in Int, \A y \in T : y <= b
  PROVE  Max(T) \in T /\ \A y \in T : y <= Max(T)
<1> DEFINE U == {b - y : y \in T}
<1>0. \A y \in T : y \in Int /\ b - y \in Nat
  OBVIOUS
<1>1. U \subseteq Nat /\ U # {}
  BY <1>0
<1>2. PICK u \in U : \A w \in U : u <= w
  BY <1>1, Least
<1>3. PICK x \in T : u = b - x
  OBVIOUS
<1>4. \A y \in T : y <= x
  <2> TAKE y \in T
  <2>1. b - x <= b - y
    BY <1>2, <1>3
  <2> QED
    BY <1>0, <2>1
<1> QED
  BY <1>4 DEF Max

-----------------------------------------------------------------------------
(* The instance a checkpoint goes up to.                                   *)

(* There is a state machine.                                               *)
LEMMA SomeSM == SM # {}
<1>1. 0 \in 0..MaxInstance
  BY CleaningAssumption
<1> QED
  BY <1>1, CleaningAssumption

(* Init goes on from the instance after all of the checkpoint's, which is  *)
(* 0 or follows one of them.                                               *)
LEMMA CheckpointEnd ==
  ASSUME NEW c \in [SM -> Past]
  PROVE  LET cp == GetCheckpointInstanceID(c) + 1
         IN  /\ GetCheckpointInstanceID(c) \in Int /\ cp \in 0..MaxInstance
             /\ \A i \in Held(c) : i < cp
             /\ cp = 0 \/ cp - 1 \in Held(c)
<1> DEFINE top == {CheckpointOf(c[s]) : s \in SM}
<1>1. ASSUME NEW s \in SM
      PROVE  /\ CheckpointOf(c[s]) \in -1..(MaxInstance - 1)
             /\ \A i \in c[s] : i <= CheckpointOf(c[s])
             /\ CheckpointOf(c[s]) = -1 \/ CheckpointOf(c[s]) \in c[s]
  <2>1. c[s] \subseteq 0..(MaxInstance - 1) /\ MaxInstance \in Nat
    BY CleaningAssumption DEF Past
  <2>2. CASE c[s] = {}
    BY <2>1, <2>2 DEF CheckpointOf, NoCheckpoint
  <2>3. CASE c[s] # {}
    <3>1. c[s] \subseteq Int /\ MaxInstance - 1 \in Int
          /\ \A y \in c[s] : y <= MaxInstance - 1
      BY <2>1
    <3>2. Max(c[s]) \in c[s] /\ \A y \in c[s] : y <= Max(c[s])
      BY <3>1, <2>3, MaxIs
    <3> QED
      BY <2>1, <2>3, <3>2 DEF CheckpointOf
  <2> QED
    BY <2>2, <2>3
<1>2. MaxInstance \in Nat
  BY CleaningAssumption
<1>3. top \subseteq Int /\ top # {} /\ \A y \in top : y <= MaxInstance - 1
  BY <1>1, <1>2, SomeSM
<1>4. Max(top) \in top /\ \A y \in top : y <= Max(top)
  BY <1>2, <1>3, MaxIs, MaxInstance - 1 \in Int
<1>5. GetCheckpointInstanceID(c) = Max(top)
  BY DEF GetCheckpointInstanceID
<1>6. PICK s \in SM : Max(top) = CheckpointOf(c[s])
  BY <1>4
<1>7. \A i \in Held(c) : i <= Max(top)
  <2> TAKE i \in Held(c)
  <2>1. PICK t \in SM : i \in c[t]
    BY DEF Held
  <2>2. CheckpointOf(c[t]) \in top /\ i \in 0..(MaxInstance - 1)
    BY <2>1 DEF Past
  <2> QED
    BY <1>1, <1>2, <1>3, <1>4, <2>1, <2>2
<1>8. Max(top) = -1 \/ Max(top) \in Held(c)
  BY <1>1, <1>6 DEF Held
<1>9. Held(c) \subseteq 0..(MaxInstance - 1)
  BY DEF Held, Past
<1> HIDE DEF top
<1> QED
  BY <1>1, <1>2, <1>5, <1>6, <1>7, <1>8, <1>9

(* ... and there is one such instance only.                                *)
LEMMA CheckpointEndIs ==
  ASSUME NEW c \in [SM -> Past], NEW k \in Nat,
         \A i \in Held(c) : i < k, k = 0 \/ k - 1 \in Held(c)
  PROVE  GetCheckpointInstanceID(c) + 1 = k
<1> DEFINE cp == GetCheckpointInstanceID(c) + 1
<1>1. cp \in Nat /\ (\A i \in Held(c) : i < cp) /\ (cp = 0 \/ cp - 1 \in Held(c))
  BY CheckpointEnd, CleaningAssumption
<1>2. Held(c) \subseteq Nat
  BY CleaningAssumption DEF Held, Past
<1> HIDE DEF cp
<1>3. cp = k
  BY <1>1, <1>2
<1> QED
  BY <1>3 DEF cp

LEMMA WholeUpTo ==
  ASSUME NEW c \in [SM -> Past], Whole(c)
  PROVE  Held(c) = 0..GetCheckpointInstanceID(c)
<1>1. PICK k \in Nat : Held(c) = 0..(k - 1)
  BY DEF Whole
<1>2. GetCheckpointInstanceID(c) + 1 = k
  BY <1>1, CheckpointEndIs
<1>3. GetCheckpointInstanceID(c) \in Int
  BY CheckpointEnd
<1>4. GetCheckpointInstanceID(c) = k - 1
  BY <1>2, <1>3
<1> QED
  BY <1>1, <1>4

(* Executing that instance for the checkpoint takes it one further.        *)
LEMMA PlayedOne ==
  ASSUME NEW c \in [SM -> Past], NEW i \in 0..(MaxInstance - 1),
         i = GetCheckpointInstanceID(c) + 1,
         NEW d \in [SM -> Past], d = [c EXCEPT ![SMOf[i]] = @ \union {i}]
  PROVE  /\ GetCheckpointInstanceID(d) + 1 = i + 1
         /\ Whole(c) => Whole(d)
<1>1. MaxInstance \in Nat /\ SMOf[i] \in SM /\ i \in Nat
  BY CleaningAssumption
<1>2. Held(d) = Held(c) \union {i}
  BY <1>1 DEF Held
<1>3. GetCheckpointInstanceID(d) + 1 = i + 1
  <2>1. \A j \in Held(d) : j < i + 1
    <3>1. ASSUME NEW j \in Held(c) PROVE j < i + 1
      <4>1. j < i /\ j \in Int
        BY <1>1, CheckpointEnd DEF Held, Past
      <4> QED
        BY <1>1, <4>1
    <3> QED
      BY <1>2, <3>1
  <2>2. i + 1 \in Nat
    BY <1>1
  <2>3. (i + 1) - 1 = i
    BY <1>1
  <2>4. i \in Held(d)
    BY <1>2
  <2> QED
    BY <2>1, <2>2, <2>3, <2>4, CheckpointEndIs
<1>4. ASSUME Whole(c) PROVE Held(d) = 0..((i + 1) - 1)
  <2>1. Held(c) = 0..(i - 1)
    <3>1. GetCheckpointInstanceID(c) = i - 1
      BY CheckpointEnd
    <3> QED
      BY <1>4, <3>1, WholeUpTo
  <2>2. 0..(i - 1) \union {i} = 0..i
    BY <1>1
  <2>3. (i + 1) - 1 = i
    BY <1>1
  <2> QED
    BY <1>2, <2>1, <2>2, <2>3
<1> QED
  <2>1. i + 1 \in Nat
    BY <1>1
  <2> QED
    BY <1>3, <1>4, <2>1 DEF Whole

-----------------------------------------------------------------------------
(* What a start makes of the log.                                          *)

LEMMA InitGoesOn ==
  ASSUME LogTypes, NEW n \in Node
  PROVE  /\ CPInstanceID(n) \in 0..MaxInstance
         /\ GetCheckpointInstanceID(ckpt[n]) = CPInstanceID(n) - 1
<1>1. ckpt[n] \in [SM -> Past]
  BY DEF LogTypes
<1> QED
  BY <1>1, CheckpointEnd DEF CPInstanceID

LEMMA LogMaxIs ==
  ASSUME LogTypes, NEW n \in Node
  PROVE  /\ LogMax(n) \in 0..MaxInstance
         /\ \A i \in log[n] : i <= LogMax(n)
         /\ log[n] = {} => LogMax(n) = 0
         /\ log[n] # {} => LogMax(n) \in log[n]
<1>1. log[n] \subseteq Int /\ (\A i \in log[n] : i <= MaxInstance)
      /\ MaxInstance \in Nat /\ log[n] \subseteq 0..MaxInstance
  BY CleaningAssumption DEF LogTypes, LogTypeOK, Instances
<1>2. CASE log[n] = {}
  BY <1>1, <1>2 DEF LogMax
<1>3. CASE log[n] # {}
  <2>1. Max(log[n]) \in log[n] /\ \A y \in log[n] : y <= Max(log[n])
    BY <1>1, <1>3, MaxIs
  <2> QED
    BY <1>1, <1>3, <2>1 DEF LogMax
<1> QED
  BY <1>2, <1>3

(* FixMinChosenInstanceID moves the minimum to the first instance of the   *)
(* interval after it that has a record or is not in the checkpoint.        *)
LEMMA FixMinIs ==
  ASSUME LogTypes, NEW n \in Node
  PROVE  /\ FixMin(n) \in 0..MaxUInt64
         /\ minSaved[n] <= FixMin(n) /\ FixMin(n) <= minSaved[n] + Interval
         /\ \A i \in log[n] : minSaved[n] <= i => FixMin(n) <= i
         /\ minSaved[n] <= CPInstanceID(n) => FixMin(n) <= CPInstanceID(n)
         /\ \/ FixMin(n) \in log[n]
            \/ FixMin(n) >= CPInstanceID(n)
            \/ FixMin(n) = minSaved[n] + Interval
<1> DEFINE window == minSaved[n] .. minSaved[n] + Interval - 1
           stops == {i \in window : i >= CPInstanceID(n) \/ i \in log[n]}
<1>1. /\ minSaved[n] \in 0..(MaxInstance + 1) /\ log[n] \subseteq 0..MaxInstance
      /\ CPInstanceID(n) \in 0..MaxInstance
  BY InitGoesOn DEF LogTypes, LogTypeOK, MaxUInt64, Instances
<1>2. MaxInstance \in Nat /\ Interval \in Nat /\ Interval > 0
  BY CleaningAssumption
<1>3. FixMin(n) = IF stops = {} THEN minSaved[n] + Interval ELSE Min(stops)
  BY DEF FixMin
<1>4. CASE stops = {}
  <2>1. FixMin(n) = minSaved[n] + Interval
    BY <1>3, <1>4
  <2>2. minSaved[n] + Interval - 1 \in window
    BY <1>1, <1>2
  <2>3. minSaved[n] + Interval - 1 < CPInstanceID(n)
    BY <1>1, <1>2, <1>4, <2>2
  <2>4. ASSUME NEW i \in log[n], minSaved[n] <= i
        PROVE  minSaved[n] + Interval <= i
    <3>1. i \notin window
      BY <1>4
    <3> QED
      BY <1>1, <1>2, <2>4, <3>1
  <2> HIDE DEF window, stops
  <2> QED
    BY <1>1, <1>2, <2>1, <2>3, <2>4 DEF MaxUInt64
<1>5. CASE stops # {}
  <2>1. stops \subseteq Nat
    BY <1>1, <1>2
  <2>2. FixMin(n) \in stops /\ \A y \in stops : FixMin(n) <= y
    BY <1>3, <1>5, <2>1, MinIs
  <2>3. FixMin(n) \in window
        /\ (FixMin(n) >= CPInstanceID(n) \/ FixMin(n) \in log[n])
    BY <2>2
  <2>4. ASSUME NEW i \in 0..MaxInstance, minSaved[n] <= i,
               i \in log[n] \/ i >= CPInstanceID(n)
        PROVE  FixMin(n) <= i
    <3>1. CASE i \in window
      BY <2>2, <2>4, <3>1
    <3>2. CASE i \notin window
      BY <1>1, <1>2, <2>3, <2>4, <3>2
    <3> QED
      BY <3>1, <3>2
  <2>5. FixMin(n) <= MaxInstance + 1
    <3>1. CASE minSaved[n] <= CPInstanceID(n)
      BY <1>1, <1>2, <2>3, <2>4, <3>1
    <3>2. CASE minSaved[n] > CPInstanceID(n)
      <4>1. minSaved[n] \in stops
        BY <1>1, <1>2, <3>2
      <4> QED
        BY <1>1, <1>2, <2>2, <2>3, <4>1
    <3> QED
      BY <1>1, <1>2, <3>1, <3>2
  <2>6. FixMin(n) \in Nat /\ minSaved[n] <= FixMin(n)
        /\ FixMin(n) <= minSaved[n] + Interval
    BY <1>1, <1>2, <2>3
  <2> HIDE DEF window, stops
  <2> QED
    BY <1>1, <1>2, <2>3, <2>4, <2>5, <2>6 DEF MaxUInt64
<1> QED
  BY <1>4, <1>5

(* The instance a node starts in.                                          *)
LEMMA StartIs ==
  ASSUME LogTypes, NEW n \in Node
  PROVE  LET start == Max({CPInstanceID(n), LogMax(n)})
         IN  /\ start \in 0..MaxInstance
             /\ start = CPInstanceID(n) \/ start = LogMax(n)
             /\ CPInstanceID(n) <= start /\ LogMax(n) <= start
<1>1. /\ CPInstanceID(n) \in 0..MaxInstance /\ LogMax(n) \in 0..MaxInstance
      /\ MaxInstance \in Nat
  BY InitGoesOn, LogMaxIs, CleaningAssumption
<1> DEFINE S == {CPInstanceID(n), LogMax(n)}
<1>2. S \subseteq Int /\ S # {} /\ MaxInstance \in Int /\ \A y \in S : y <= MaxInstance
  BY <1>1
<1>3. Max(S) \in S /\ \A y \in S : y <= Max(S)
  BY <1>2, MaxIs
<1> QED
  BY <1>1, <1>3

-----------------------------------------------------------------------------
(* The messages on their way stay in the set they are from.                *)

LEMMA PostCarries ==
  ASSUME NEW S, Carries(S), NEW n \in Node, NEW m \in Node,
         NEW msgs \in Seq(S), Post(n, m, msgs)
  PROVE  Carries(S)'
<1>1. net[n][m] \o msgs \in Seq(S)
  BY DEF Carries
<1> QED
  BY <1>1 DEF Carries, Post

LEMMA FirstCarried ==
  ASSUME NEW S, Carries(S), NEW m \in Node, NEW n \in Node, Arrives(m, n)
  PROVE  Head(net[m][n]) \in S /\ Tail(net[m][n]) \in Seq(S)
BY DEF Carries, Arrives

LEMMA ReceivedCarries ==
  ASSUME NEW S, Carries(S), NEW m \in Node, NEW n \in Node, Arrives(m, n),
         Received(m, n)
  PROVE  Carries(S)'
BY FirstCarried DEF Carries, Received

LEMMA AnswerCarries ==
  ASSUME NEW S, Carries(S), NEW m \in Node, NEW n \in Node, Arrives(m, n),
         NEW msg \in S, Answer(m, n, msg)
  PROVE  Carries(S)'
<1> DEFINE mid == [net EXCEPT ![m][n] = Tail(@)]
<1>1. mid \in [Node -> [Node -> Seq(S)]]
  BY FirstCarried DEF Carries
<1>2. net' = [mid EXCEPT ![n][m] = Append(@, msg)]
  BY DEF Answer
<1>3. Append(mid[n][m], msg) \in Seq(S)
  BY <1>1
<1> HIDE DEF mid
<1> QED
  BY <1>1, <1>2, <1>3 DEF Carries

LEMMA LoseCarries ==
  ASSUME NEW S, Carries(S), NEW m \in Node, NEW n \in Node, Lose(m, n)
  PROVE  Carries(S)'
<1>1. PICK i \in 1..Len(net[m][n]) :
            net' = [net EXCEPT ![m][n] = RemoveAt(@, i)]
  BY DEF Lose
<1>2. RemoveAt(net[m][n], i) \in Seq(S)
  <2>1. net[m][n] \in Seq(S)
    BY DEF Carries
  <2>2. SubSeq(net[m][n], 1, i - 1) \in Seq(S)
        /\ SubSeq(net[m][n], i + 1, Len(net[m][n])) \in Seq(S)
    BY <2>1
  <2> QED
    BY <2>2 DEF RemoveAt
<1> QED
  BY <1>1, <1>2 DEF Carries

LEMMA RiseCarries ==
  ASSUME NEW S, Carries(S), NEW n \in Node, Rise(n)
  PROVE  Carries(S)'
BY DEF Carries, Rise

-----------------------------------------------------------------------------
(* The blocks are in one order.                                            *)

LEMMA BlockFields ==
  ASSUME NEW b \in Block
  PROVE  /\ b.sm \in SM /\ b.off \in 1..BlocksOf[b.sm] /\ b.off \in Nat
         /\ b = [sm |-> b.sm, off |-> b.off]
         /\ BlocksOf[b.sm] \in Nat
BY TransferAssumption DEF Block

LEMMA ListedOnce ==
  /\ Len(SMList) \in Nat
  /\ \A i \in 1..Len(SMList) : SMList[i] \in SM
  /\ \A s \in SM : \E i \in 1..Len(SMList) : SMList[i] = s
  /\ \A i, j \in 1..Len(SMList) : SMList[i] = SMList[j] => i = j
<1>1. SMList \in Seq(SM) /\ DOMAIN SMList = 1..Len(SMList)
  BY TransferAssumption
<1>2. SM = {SMList[i] : i \in 1..Len(SMList)}
  BY <1>1, TransferAssumption DEF ToSet
<1>3. \A i, j \in 1..Len(SMList) : SMList[i] = SMList[j] => i = j
  BY <1>1, TransferAssumption DEF IsInjective
<1> QED
  BY <1>1, <1>2, <1>3

LEMMA BeforeIsOrder ==
  ASSUME NEW b \in Block, NEW c \in Block
  PROVE  /\ ~Before(b, b)
         /\ b # c => Before(b, c) \/ Before(c, b)
         /\ ~(Before(b, c) /\ Before(c, b))
<1>1. /\ b.off \in Nat /\ c.off \in Nat /\ b.sm \in SM /\ c.sm \in SM
      /\ (b.sm = c.sm /\ b.off = c.off => b = c)
  BY BlockFields
<1> QED
  BY <1>1, ListedOnce DEF Before

LEMMA BeforeIsTransitive ==
  ASSUME NEW b \in Block, NEW c \in Block, NEW d \in Block,
         Before(b, c), Before(c, d)
  PROVE  Before(b, d)
<1>1. b.off \in Nat /\ c.off \in Nat /\ d.off \in Nat
  BY BlockFields
<1> QED
  BY <1>1, ListedOnce DEF Before

LEMMA FirstIs ==
  ASSUME NEW bs \in SUBSET Block, bs # {}
  PROVE  First(bs) \in bs /\ \A c \in bs \ {First(bs)} : Before(First(bs), c)
<1> DEFINE I == {i \in 1..Len(SMList) : \E b \in bs : SMList[i] = b.sm}
<1>1. I \subseteq Nat /\ I # {}
  BY ListedOnce, BlockFields
<1>2. PICK i \in I : \A j \in I : i <= j
  BY <1>1, Least
<1> DEFINE K == {b.off : b \in {x \in bs : x.sm = SMList[i]}}
<1>3. K \subseteq Nat /\ K # {}
  BY <1>2, BlockFields
<1>4. PICK k \in K : \A o \in K : k <= o
  BY <1>3, Least
<1>5. PICK b \in bs : b.sm = SMList[i] /\ b.off = k
  OBVIOUS
<1>6. ASSUME NEW c \in bs \ {b} PROVE Before(b, c)
  <2>1. PICK j \in I : SMList[j] = c.sm
    BY ListedOnce, BlockFields
  <2>2. CASE j = i
    <3>1. c.off \in K
      BY <2>1, <2>2
    <3>2. c.off # b.off
      BY <1>5, <1>6, <2>1, <2>2, BlockFields
    <3>3. b.off < c.off
      <4>1. k \in Nat /\ c.off \in Nat /\ k <= c.off
        BY <1>3, <1>4, <3>1
      <4> QED
        BY <1>5, <3>2, <4>1
    <3>4. i \in 1..Len(SMList) /\ SMList[i] = b.sm /\ SMList[i] = c.sm
      BY <1>5, <2>1, <2>2
    <3> HIDE DEF I, K
    <3> QED
      BY <3>3, <3>4 DEF Before
  <2>3. CASE j # i
    BY <1>1, <1>2, <1>5, <2>1, <2>3 DEF Before
  <2> QED
    BY <2>2, <2>3
<1> HIDE DEF I, K
<1> QED
  BY <1>6 DEF First

-----------------------------------------------------------------------------
(* Types, for the steps of the log.                                        *)

LEMMA Numbers ==
  /\ MaxInstance \in Nat /\ Hold \in Nat /\ Interval \in Nat /\ Interval > 0
  /\ MaxEvents \in Nat
BY CleaningAssumption

LEMMA LearnTypes ==
  ASSUME Types, NEW n \in Node, Learn(n)
  PROVE  LogTypes'
<1>1. NewInstance(n) /\ now[n] < MaxInstance
  <2>1. CASE Chosen(n)
    BY <2>1 DEF Chosen
  <2>2. ASSUME NEW m \in Node, LearnFrom(n, m)
        PROVE  NewInstance(n) /\ now[n] < MaxInstance
    <3>1. now[n] < now[m] /\ now[n] \in 0..MaxInstance /\ now[m] \in 0..MaxInstance
      BY <2>2 DEF LearnFrom, Serves, Types, LogTypes
    <3> QED
      BY <2>2, <3>1, Numbers DEF LearnFrom
  <2> QED
    BY <2>1, <2>2 DEF Learn
<1>2. now[n] \in Instances /\ now[n] + 1 \in 0..MaxInstance
      /\ now[n] + 1 \in 0..MaxUInt64
  BY <1>1, Numbers DEF Types, LogTypes, Instances, MaxUInt64
<1>3. log[n] \union {now[n]} \in SUBSET Instances
  BY <1>2 DEF Types, LogTypes, LogTypeOK
<1> QED
  BY <1>1, <1>2, <1>3
     DEF Types, LogTypes, LogTypeOK, NewInstance, cleanerVars, replayVars

(* The cleaner's place while it may delete.                                *)
LEMMA CleanerTypes ==
  ASSUME LogTypes, NEW n \in Node, NEW c, c.at \in Nat, c.cp \in 0..MaxUInt64,
         c.max \in Instances, MayDelete(c), c.busy \in BOOLEAN,
         c = [busy |-> c.busy, at |-> c.at, cp |-> c.cp, max |-> c.max]
  PROVE  c \in [busy : BOOLEAN, at : Instances, cp : 0..MaxUInt64, max : Instances]
<1>1. c.at \in Instances
  BY Numbers DEF MayDelete, Instances
<1> QED
  BY <1>1

LEMMA CleanTypes ==
  ASSUME Types, NEW n \in Node, Clean(n)
  PROVE  LogTypes'
<1> DEFINE Cleaner == [busy : BOOLEAN, at : Instances, cp : 0..MaxUInt64,
                       max : Instances]
<1>1. /\ LogTypes /\ cleaner[n] \in Cleaner
      /\ minCache[n] \in 0..MaxUInt64 /\ now[n] \in Instances
      /\ Idle \in Cleaner
  BY Numbers DEF Types, LogTypes, LogTypeOK, Instances, Idle, MaxUInt64
<1>2. CASE CleanerReads(n)
  <2> DEFINE c == [busy |-> TRUE, at |-> minCache[n], cp |-> CPInstanceID(n),
                   max |-> now[n]]
  <2>1. CPInstanceID(n) \in 0..MaxUInt64 /\ minCache[n] \in Nat
    BY <1>1, InitGoesOn, Numbers DEF MaxUInt64
  <2>2. c \in Cleaner
    <3>1. minCache[n] + Hold < now[n]
      BY <1>2 DEF CleanerReads
    <3>2. minCache[n] \in Instances
      BY <1>1, <2>1, <3>1, Numbers DEF Instances
    <3> QED
      BY <1>1, <2>1, <3>2
  <2> QED
    BY <1>1, <1>2, <2>2 DEF CleanerReads, LogTypes, LogTypeOK, replayVars
<1>3. CASE DeleteOne(n)
  <2> DEFINE c == [cleaner[n] EXCEPT !.at = @ + 1]
  <2>1. cleaner'[n] \in Cleaner /\ cleaner' = [cleaner EXCEPT ![n] = cleaner'[n]]
    <3>1. cleaner' = [cleaner EXCEPT ![n] = IF MayDelete(c) THEN c ELSE Idle]
      BY <1>3 DEF DeleteOne, Advance
    <3>2. ASSUME MayDelete(c) PROVE c \in Cleaner
      <4>1. c.at \in Nat /\ c.cp \in 0..MaxUInt64 /\ c.max \in Instances
            /\ c.busy \in BOOLEAN
            /\ c = [busy |-> c.busy, at |-> c.at, cp |-> c.cp, max |-> c.max]
        BY <1>1 DEF Instances
      <4> HIDE DEF c
      <4> QED
        BY <1>1, <3>2, <4>1, CleanerTypes
    <3>3. (IF MayDelete(c) THEN c ELSE Idle) \in Cleaner
      BY <1>1, <3>2
    <3> HIDE DEF c, Cleaner
    <3> QED
      BY <1>1, <3>1, <3>3 DEF LogTypes, LogTypeOK
  <2>2. cleaner[n].at \in Instances /\ cleaner[n].at \in 0..MaxUInt64
        /\ cleaner[n].at + 1 \in 0..MaxUInt64
    BY <1>1, Numbers DEF Instances, MaxUInt64
  <2>3. minSaved' \in [Node -> 0..MaxUInt64] /\ minCache' \in [Node -> 0..MaxUInt64]
        /\ lastSave' \in [Node -> Instances]
    <3>1. CASE NeedsSave(n)
      <4>1. /\ minSaved' = [minSaved EXCEPT ![n] = cleaner[n].at + 1]
            /\ minCache' = [minCache EXCEPT ![n] = cleaner[n].at + 1]
            /\ lastSave' = [lastSave EXCEPT ![n] = cleaner[n].at]
        BY <1>3, <3>1 DEF DeleteOne, SetMin
      <4> QED
        BY <1>1, <2>2, <4>1 DEF LogTypes, LogTypeOK
    <3>2. CASE ~NeedsSave(n)
      BY <1>1, <1>3, <2>2, <3>2 DEF DeleteOne, LogTypes, LogTypeOK
    <3> QED
      BY <3>1, <3>2
  <2>4. log' \in [Node -> SUBSET Instances]
    <3>1. log[n] \ {cleaner[n].at} \in SUBSET Instances
      BY <1>1 DEF LogTypes, LogTypeOK
    <3> QED
      BY <1>1, <1>3, <3>1 DEF DeleteOne, LogTypes, LogTypeOK
  <2>5. cleaner' \in [Node -> Cleaner]
    BY <1>1, <2>1 DEF LogTypes, LogTypeOK
  <2> HIDE DEF c
  <2> QED
    BY <1>1, <1>3, <2>3, <2>4, <2>5 DEF DeleteOne, LogTypes, LogTypeOK, replayVars
<1>4. CASE DeleteFails(n)
  <2>1. cleaner[n].at \in 0..MaxUInt64
    BY <1>1, Numbers DEF Instances, MaxUInt64
  <2>2. minCache' \in [Node -> 0..MaxUInt64] /\ log' \in [Node -> SUBSET Instances]
    <3>1. log[n] \ {cleaner[n].at} \in SUBSET Instances
      BY <1>1 DEF LogTypes, LogTypeOK
    <3>2. CASE UNCHANGED <<log, minCache>>
      BY <1>1, <3>2 DEF LogTypes, LogTypeOK
    <3>3. CASE /\ log' = [log EXCEPT ![n] = @ \ {cleaner[n].at}]
               /\ minCache' = [minCache EXCEPT ![n] = cleaner[n].at]
      BY <1>1, <2>1, <3>1, <3>3 DEF LogTypes, LogTypeOK
    <3> QED
      BY <1>4, <3>2, <3>3 DEF DeleteFails
  <2>3. events' \in 0..MaxEvents
    BY <1>1, <1>4, Numbers DEF DeleteFails, LogTypes, LogTypeOK
  <2> QED
    BY <1>1, <1>4, <2>2, <2>3 DEF DeleteFails, LogTypes, LogTypeOK, replayVars
<1> QED
  BY <1>2, <1>3, <1>4 DEF Clean

LEMMA ReplayTypes ==
  ASSUME Types, NEW n \in Node, Replay(n),
         replayer[n].pc = "playing" => replayer[n].at < now[n]
  PROVE  LogTypes'
<1>1. /\ LogTypes /\ now[n] \in 0..MaxInstance /\ replayer[n].at \in 0..MaxUInt64
      /\ events \in 0..MaxEvents
  BY DEF Types, LogTypes, LogTypeOK
<1>2. CASE ReplayerTests(n)
  <2>1. PICK pc \in {"playing", "pausing"} :
              replayer' = [replayer EXCEPT ![n].pc = pc]
    BY <1>2 DEF ReplayerTests, PlayerAt
  <2>2. replayer' \in [Node -> [at : 0..MaxUInt64,
                               pc : {"off", "top", "pausing", "playing"}]]
    BY <1>1, <2>1 DEF LogTypes, LogTypeOK
  <2> QED
    BY <1>1, <1>2, <2>2 DEF ReplayerTests, LogTypes, LogTypeOK, cleanerVars
<1>3. CASE ReplayerPauses(n)
  BY <1>1, <1>3 DEF ReplayerPauses, PlayerAt, LogTypes, LogTypeOK, cleanerVars
<1>4. CASE PlayOne(n)
  <2> DEFINE i == replayer[n].at
  <2>1. i \in 0..(MaxInstance - 1) /\ i \in 0..MaxInstance
        /\ i + 1 \in 0..MaxUInt64
    BY <1>1, <1>4, Numbers DEF PlayOne, MaxUInt64
  <2>2. CASE /\ ckpt' = ExecuteForCheckpoint(n, i)
             /\ replayer' = [replayer EXCEPT ![n] = [at |-> i + 1, pc |-> "top"]]
             /\ UNCHANGED events
    <3>1. SMOf[i] \in SM
      BY <2>1, CleaningAssumption
    <3>2. ckpt[n][SMOf[i]] \union {i} \in Past
      BY <1>1, <2>1, <3>1 DEF LogTypes, Past
    <3>3. ckpt' \in [Node -> [SM -> Past]]
      BY <1>1, <2>2, <3>1, <3>2 DEF ExecuteForCheckpoint, LogTypes
    <3>4. Past \subseteq SUBSET Instances
      BY Numbers DEF Past, Instances
    <3>5. ckpt' \in [Node -> [SM -> SUBSET Instances]]
      BY <3>3, <3>4
    <3> HIDE DEF i
    <3> QED
      BY <1>1, <1>4, <2>1, <2>2, <3>3, <3>5
         DEF PlayOne, LogTypes, LogTypeOK, cleanerVars
  <2>3. CASE /\ i \in log[n] => events < MaxEvents
             /\ events' = IF i \in log[n] THEN events + 1 ELSE events
             /\ PlayerAt(n, "top")
             /\ UNCHANGED ckpt
    <3>1. events' \in 0..MaxEvents
      BY <1>1, <2>3, Numbers
    <3> HIDE DEF i
    <3>2. replayer' \in [Node -> [at : 0..MaxUInt64,
                                 pc : {"off", "top", "pausing", "playing"}]]
      BY <1>1, <2>3 DEF PlayerAt, LogTypes, LogTypeOK
    <3> QED
      BY <1>1, <1>4, <2>3, <3>1, <3>2
         DEF PlayOne, LogTypes, LogTypeOK, cleanerVars
  <2> QED
    BY <1>4, <2>2, <2>3 DEF PlayOne
<1> QED
  BY <1>2, <1>3, <1>4 DEF Replay

LEMMA UserTypes ==
  ASSUME Types, NEW n \in Node, User(n)
  PROVE  LogTypes'
<1>1. events \in 0..MaxEvents
  BY DEF Types, LogTypes, LogTypeOK
<1>2. events' \in 0..MaxEvents
  BY <1>1, Numbers DEF User, UserPauses, UserContinues
<1> QED
  BY <1>2 DEF User, UserPauses, UserContinues, Pause, Continue, Types, LogTypes,
              LogTypeOK, cleanerVars

LEMMA FallTypes ==
  ASSUME Types, NEW n \in Node, Fall(n)
  PROVE  LogTypes'
<1>1. events \in 0..MaxEvents
  BY DEF Types, LogTypes, LogTypeOK
<1>2. events' \in 0..MaxEvents
  BY <1>1, Numbers DEF Fall, Crash
<1> QED
  BY <1>2 DEF Fall, Crash, Stopped, Types, LogTypes, LogTypeOK, cleanerVars,
              replayVars

LEMMA RiseTypes ==
  ASSUME Types, NEW n \in Node, Rise(n)
  PROVE  LogTypes'
<1>1. LogTypes
  BY DEF Types
<1>2. CPInstanceID(n) \in 0..MaxInstance /\ CPInstanceID(n) \in 0..MaxUInt64
      /\ FixMin(n) \in 0..MaxUInt64
  BY <1>1, InitGoesOn, FixMinIs, Numbers DEF MaxUInt64
<1>3. CASE Restart(n)
  <2> DEFINE cp == CPInstanceID(n)
             start == Max({cp, LogMax(n)})
             executed == (UNION {ckpt[n][s] : s \in SM}) \union cp..(start - 1)
             pc == IF replayer[n].pc = "off" THEN "off" ELSE "top"
  <2>1. start \in 0..MaxInstance /\ start \in 0..MaxUInt64
    BY <1>1, StartIs, Numbers DEF MaxUInt64
  <2>2. 0..(start - 1) \ executed \in SUBSET Instances
    BY <2>1, Numbers DEF Instances
  <2>3. StartMin(n) \in 0..MaxUInt64
    BY <1>2 DEF StartMin
  <2>4. Idle \in [busy : BOOLEAN, at : Instances, cp : 0..MaxUInt64, max : Instances]
        /\ 0 \in Instances
    BY Numbers DEF Idle, Instances, MaxUInt64
  <2>5. /\ up' = [up EXCEPT ![n] = "up"]
        /\ now' = [now EXCEPT ![n] = start]
        /\ missed' = [missed EXCEPT ![n] = 0..(start - 1) \ executed]
        /\ minSaved' = [minSaved EXCEPT ![n] = StartMin(n)]
        /\ minCache' = [minCache EXCEPT ![n] = StartMin(n)]
        /\ lastSave' = [lastSave EXCEPT ![n] = 0]
        /\ cleaner' = [cleaner EXCEPT ![n] = Idle]
        /\ canRun' = [canRun EXCEPT ![n] = FALSE]
        /\ isPaused' = [isPaused EXCEPT ![n] = TRUE]
        /\ replayer' = [replayer EXCEPT ![n] = [at |-> cp, pc |-> pc]]
        /\ log' = log /\ ckpt' = ckpt /\ events' = events
    BY <1>3 DEF Restart, SetMin
  <2> HIDE DEF cp, start, executed
  <2>6. cp \in 0..MaxUInt64
    BY <1>2 DEF cp
  <2> HIDE DEF pc
  <2>7. pc \in {"off", "top"}
    BY DEF pc
  <2> QED
    BY <1>1, <2>1, <2>2, <2>3, <2>4, <2>5, <2>6, <2>7 DEF LogTypes, LogTypeOK
<1>4. CASE Refuse(n)
  BY <1>1, <1>2, <1>4
     DEF Refuse, SetMin, LogTypes, LogTypeOK, cleanerVars, replayVars
<1> QED
  BY <1>3, <1>4 DEF Rise

-----------------------------------------------------------------------------
(* Types, for the steps of a transfer.                                     *)

(* What the senders and the receivers write.                               *)
LEMMA MessagesSent ==
  ASSUME Types, NEW n \in Node
  PROVE  /\ BeginMsg(n) \in Message /\ EndMsg(n) \in Message
         /\ sender[n].left # {} => BlockMsg(n) \in Message
         /\ AskMsg \in Message
<1>1. sender[n] \in SenderRecord /\ torn[n] \in BOOLEAN /\ raced[n] \in BOOLEAN
      /\ ckpt[n] \in [SM -> Past]
  BY DEF Types, LogTypes, TransferTypes, HistoryTypes
<1>2. sender[n].uuid \in Nat /\ sender[n].seq \in Nat /\ sender[n].left \in SUBSET Block
  BY <1>1 DEF SenderRecord
<1>3. Unsigned(GetCheckpointInstanceID(ckpt[n])) \in 0..MaxUInt64
  BY <1>1, CheckpointEnd, Numbers DEF Unsigned, NoCheckpoint, MaxUInt64
<1>4. ASSUME sender[n].left # {}
      PROVE  First(sender[n].left) \in Block
             /\ ckpt[n][First(sender[n].left).sm] \in Past
  BY <1>1, <1>2, <1>4, FirstIs, BlockFields
<1> QED
  BY <1>1, <1>2, <1>3, <1>4
     DEF BeginMsg, EndMsg, BlockMsg, Message, Begins, Ends, Ings, Asks

(* The steps that change nothing but the sender.                           *)
LEMMA SenderSteps ==
  ASSUME Types, NEW n \in Node, SenderStep(n)
  PROVE  /\ sender' \in [Node -> SenderRecord]
         /\ events' \in 0..MaxEvents
         /\ UNCHANGED <<up, now, log, ckpt, missed, minSaved, minCache,
                        cleanerVars, replayer, asking, receiver, tmp, asks,
                        sessions, phase, torn>>
<1>1. /\ sender \in [Node -> SenderRecord] /\ sender[n] \in SenderRecord
      /\ events \in 0..MaxEvents /\ ckpt[n] \in [SM -> Past]
      /\ isPaused[n] \in BOOLEAN
  BY DEF Types, LogTypes, LogTypeOK, TransferTypes
<1>0. \A pc \in {"locking", "ended", "begin", "finishing"} :
          [sender EXCEPT ![n].pc = pc] \in [Node -> SenderRecord]
  BY <1>1 DEF SenderRecord
<1> USE DEF SenderAt
<1>2. CASE WaitReplayer(n)
  <2>1. \/ sender' = [sender EXCEPT ![n].pc = "locking"]
        \/ sender' = [sender EXCEPT ![n].pc = "ended"]
        \/ sender' = [sender EXCEPT ![n].needContinue = TRUE]
    BY <1>2 DEF WaitReplayer
  <2>2. [sender EXCEPT ![n].needContinue = TRUE] \in [Node -> SenderRecord]
    BY <1>1 DEF SenderRecord
  <2>3. sender' \in [Node -> SenderRecord]
    BY <1>0, <2>1, <2>2
  <2> QED
    BY <1>1, <1>2, <2>3 DEF WaitReplayer, cleanerVars, history
<1>3. CASE LockCheckpoint(n)
  <2>1. \/ sender' = [sender EXCEPT ![n].pc = "begin"]
        \/ sender' = [sender EXCEPT ![n].pc = "finishing"]
    BY <1>3 DEF LockCheckpoint
  <2>2. sender' \in [Node -> SenderRecord]
    BY <1>0, <2>1
  <2>3. events' \in 0..MaxEvents
    BY <1>1, <1>3, Numbers DEF LockCheckpoint
  <2> QED
    BY <1>3, <2>2, <2>3 DEF LockCheckpoint, cleanerVars, replayVars, history
<1>4. CASE SendCheckpointBegin(n)
  <2>1. BlocksHeld(ckpt[n]) \in SUBSET Block
    BY DEF BlocksHeld
  <2>2. \/ sender' = [sender EXCEPT ![n].pc = "blocks", ![n].seq = 1,
                                     ![n].left = BlocksHeld(ckpt[n])]
        \/ sender' = [sender EXCEPT ![n].pc = "finishing"]
    BY <1>4 DEF SendCheckpointBegin
  <2>3. [sender EXCEPT ![n].pc = "blocks", ![n].seq = 1,
                       ![n].left = BlocksHeld(ckpt[n])] \in [Node -> SenderRecord]
    BY <1>1, <2>1 DEF SenderRecord
  <2>4. sender' \in [Node -> SenderRecord]
    BY <1>0, <2>2, <2>3
  <2> QED
    BY <1>1, <1>4, <2>4 DEF SendCheckpointBegin, logVars, cleanerVars, history
<1>5. CASE SendBuffer(n)
  <2>1. sender[n].seq + 1 \in Nat
        /\ sender[n].left \ {First(sender[n].left)} \in SUBSET Block
    BY <1>1 DEF SenderRecord
  <2> QED
    BY <1>1, <1>5, <2>1
       DEF SendBuffer, SenderRecord, logVars, cleanerVars, history
<1>6. CASE GiveUp(n)
  BY <1>1, <1>6, Numbers DEF GiveUp, SenderRecord, replayVars, history
<1>7. CASE SendCheckpointEnd(n)
  BY <1>1, <1>7 DEF SendCheckpointEnd, SenderRecord, logVars, cleanerVars, history
<1>8. CASE Finish(n)
  BY <1>1, <1>8 DEF Finish, Continue, SenderRecord
<1>9. CASE SendFails(n) \/ WakesUp(n)
  <2>1. \/ sender' = [sender EXCEPT ![n].asleep = TRUE]
        \/ sender' = [sender EXCEPT ![n].asleep = FALSE]
    BY <1>9 DEF SendFails, WakesUp
  <2>2. \A b \in BOOLEAN :
            [sender EXCEPT ![n].asleep = b] \in [Node -> SenderRecord]
    BY <1>1 DEF SenderRecord
  <2>3. sender' \in [Node -> SenderRecord]
    BY <2>1, <2>2
  <2> QED
    BY <1>1, <1>9, <2>3 DEF SendFails, WakesUp, logVars, cleanerVars, history
<1> QED
  BY <1>2, <1>3, <1>4, <1>5, <1>6, <1>7, <1>8, <1>9 DEF SenderStep

LEMMA SenderTypes ==
  ASSUME Types, NEW n \in Node, SenderStep(n)
  PROVE  Types'
<1>1. Carries(Message)'
  <2>1. Carries(Message) /\ sender[n].to \in Node
    BY DEF Types, TransferTypes, SenderRecord
  <2>2. CASE SendCheckpointBegin(n)
    <3>1. <<BeginMsg(n), BeginMsg(n)>> \in Seq(Message)
          /\ <<BeginMsg(n)>> \in Seq(Message)
      BY MessagesSent
    <3>2. \/ Post(n, sender[n].to, <<BeginMsg(n), BeginMsg(n)>>)
          \/ Post(n, sender[n].to, <<BeginMsg(n)>>)
          \/ UNCHANGED net
      BY <2>2 DEF SendCheckpointBegin
    <3>3. UNCHANGED net => Carries(Message)'
      BY <2>1 DEF Carries
    <3> QED
      BY <2>1, <3>1, <3>2, <3>3, PostCarries
  <2>3. CASE SendBuffer(n)
    <3>1. <<BlockMsg(n)>> \in Seq(Message)
      BY <2>3, MessagesSent DEF SendBuffer, AtBlock
    <3> QED
      BY <2>1, <2>3, <3>1, PostCarries DEF SendBuffer
  <2>4. CASE SendCheckpointEnd(n)
    <3>1. <<EndMsg(n)>> \in Seq(Message)
      BY MessagesSent
    <3>2. UNCHANGED net => Carries(Message)'
      BY <2>1 DEF Carries
    <3> QED
      BY <2>1, <2>4, <3>1, <3>2, PostCarries DEF SendCheckpointEnd
  <2>5. CASE UNCHANGED net
    BY <2>1, <2>5 DEF Carries
  <2> QED
    BY <2>2, <2>3, <2>4, <2>5
       DEF SenderStep, WaitReplayer, LockCheckpoint, SendFails, WakesUp, GiveUp,
           Finish
<1>2. /\ canRun' \in [Node -> BOOLEAN] /\ isPaused' \in [Node -> BOOLEAN]
      /\ raced' \in [Node -> BOOLEAN]
  BY DEF SenderStep, WaitReplayer, LockCheckpoint, SendCheckpointBegin, SendBuffer,
         SendFails, WakesUp, GiveUp, SendCheckpointEnd, Finish, Pause, Continue,
         SenderAt, logVars, replayVars, history, Types, LogTypes, LogTypeOK, HistoryTypes
<1>3. LogTypes' /\ HistoryTypes'
  BY <1>2, SenderSteps DEF Types, LogTypes, LogTypeOK, HistoryTypes, cleanerVars
<1>4. TransferTypes'
  BY <1>1, SenderSteps DEF Types, TransferTypes
<1> QED
  BY <1>3, <1>4 DEF Types

(* What a message that arrives is.                                         *)
LEMMA MessageKinds ==
  ASSUME NEW msg \in Message
  PROVE  /\ msg.flag = "ACK" => msg \in Acks
         /\ msg.flag = "BEGIN" => msg \in Begins
         /\ msg.flag = "ING" => msg \in Ings
         /\ msg.flag = "END" => msg \in Ends
BY DEF Message, Asks, AskMsg, Acks, Begins, Ings, Ends

LEMMA AckSent ==
  ASSUME NEW msg \in Begins \union Ings \union Ends, NEW ok \in BOOLEAN
  PROVE  AckMsg(msg, ok) \in Message
BY DEF AckMsg, Message, Acks, Begins, Ings, Ends

LEMMA NoSenderFits ==
  ASSUME NEW n \in Node
  PROVE  NoSender \in SenderRecord /\ NoSender.pc = "none" /\ NoSender.uuid = 0
<1>1. PICK k \in Node : NoSender =
          [pc |-> "none", to |-> k, uuid |-> 0, seq |-> 0, left |-> {}, ack |-> 0,
           end |-> FALSE, needContinue |-> FALSE, asleep |-> FALSE]
  BY DEF NoSender
<1> QED
  BY <1>1 DEF SenderRecord

(* The requests, their acks and what the network does.                     *)
LEMMA RequestTypes ==
  ASSUME Types, NEW m \in Node, NEW n \in Node,
         \/ AskforCheckpoint(n, m) \/ ExitCheckpointMode(n)
         \/ OnAskforCheckpoint(m, n) \/ OnSendCheckpointAck(m, n)
         \/ IgnoreCheckpointMsg(m, n) \/ Lose(m, n)
  PROVE  Types'
<1>1. /\ sender \in [Node -> SenderRecord] /\ sender[n] \in SenderRecord
      /\ Carries(Message) /\ asks \in 0..MaxAsks /\ sessions \in Nat
      /\ events \in 0..MaxEvents /\ LogTypes /\ HistoryTypes
  BY DEF Types, LogTypes, LogTypeOK, TransferTypes
<1>2. CASE AskforCheckpoint(n, m)
  <2>1. <<AskMsg>> \in Seq(Message)
    BY MessagesSent
  <2>2. Carries(Message)'
    BY <1>1, <1>2, <2>1, PostCarries DEF AskforCheckpoint
  <2>3. asks' \in 0..MaxAsks
    BY <1>1, <1>2, TransferAssumption DEF AskforCheckpoint
  <2> QED
    BY <1>2, <2>2, <2>3
       DEF AskforCheckpoint, logVars, cleanerVars, replayVars, history, Types,
           LogTypes, LogTypeOK, TransferTypes, HistoryTypes
<1>3. CASE ExitCheckpointMode(n)
  BY <1>3 DEF ExitCheckpointMode, logVars, cleanerVars, replayVars, history, Types,
              LogTypes, LogTypeOK, TransferTypes, HistoryTypes, Carries
<1>4. CASE OnAskforCheckpoint(m, n)
  <2>1. Carries(Message)'
    BY <1>1, <1>4, ReceivedCarries DEF OnAskforCheckpoint
  <2>2. [NoSender EXCEPT !.pc = "pausing", !.to = m, !.uuid = sessions + 1]
            \in SenderRecord
    <3>1. NoSender \in SenderRecord
      BY <1>1, NoSenderFits
    <3>2. sessions + 1 \in Nat
      BY <1>1
    <3> QED
      BY <3>1, <3>2 DEF SenderRecord
  <2>3. sender' \in [Node -> SenderRecord] /\ sessions' \in Nat
    BY <1>1, <1>4, <2>2 DEF OnAskforCheckpoint
  <2> QED
    BY <1>4, <2>1, <2>3
       DEF OnAskforCheckpoint, logVars, cleanerVars, replayVars, history, Types,
           LogTypes, LogTypeOK, TransferTypes, HistoryTypes
<1>5. CASE OnSendCheckpointAck(m, n)
  <2> DEFINE ack == Head(net[m][n])
  <2>1. Carries(Message)'
    BY <1>1, <1>5, ReceivedCarries DEF OnSendCheckpointAck
  <2>2. Acked(sender[n], m, ack) \in SenderRecord
        /\ [sender[n] EXCEPT !.end = TRUE] \in SenderRecord
    <3>1. sender[n].ack + 1 \in Nat
      BY <1>1 DEF SenderRecord
    <3>2. [sender[n] EXCEPT !.ack = @ + 1] \in SenderRecord
      BY <1>1, <3>1 DEF SenderRecord
    <3>3. [sender[n] EXCEPT !.end = TRUE] \in SenderRecord
      BY <1>1 DEF SenderRecord
    <3> QED
      BY <1>1, <3>2, <3>3 DEF Acked
  <2>3. sender' \in [Node -> SenderRecord]
    BY <1>1, <1>5, <2>2 DEF OnSendCheckpointAck
  <2> QED
    BY <1>5, <2>1, <2>3
       DEF OnSendCheckpointAck, logVars, cleanerVars, replayVars, history, Types,
           LogTypes, LogTypeOK, TransferTypes, HistoryTypes
<1>6. CASE IgnoreCheckpointMsg(m, n)
  <2>1. Carries(Message)'
    BY <1>1, <1>6, ReceivedCarries DEF IgnoreCheckpointMsg
  <2> QED
    BY <1>6, <2>1
       DEF IgnoreCheckpointMsg, logVars, cleanerVars, replayVars, history, Types,
           LogTypes, LogTypeOK, TransferTypes, HistoryTypes
<1>7. CASE Lose(m, n)
  <2>1. Carries(Message)'
    BY <1>1, <1>7, LoseCarries
  <2>2. events' \in 0..MaxEvents
    BY <1>1, <1>7, Numbers DEF Lose
  <2> QED
    BY <1>7, <2>1, <2>2
       DEF Lose, logVars, cleanerVars, replayVars, history, Types,
           LogTypes, LogTypeOK, TransferTypes, HistoryTypes
<1> QED
  BY <1>2, <1>3, <1>4, <1>5, <1>6, <1>7

LEMMA EntryReplaced ==
  ASSUME NEW A, NEW B, NEW C, NEW f \in [A -> [B -> C]],
         NEW a \in A, NEW b \in B, NEW v \in C
  PROVE  [f EXCEPT ![a][b] = v] \in [A -> [B -> C]]
OBVIOUS

(* Both answers of a receiver.                                             *)
LEMMA ReceiverAnswers ==
  ASSUME Types, NEW m \in Node, NEW n \in Node,
         NEW flag \in {"BEGIN", "ING", "END"}, Handles(m, n, flag)
  PROVE  \A r \in [uuid : Nat, seq : Nat] :
            Reject(m, n) \/ Accept(m, n, r) =>
                /\ Carries(Message)'
                /\ receiver' \in [Node -> [uuid : Nat, seq : Nat]]
<1> DEFINE msg == Head(net[m][n])
<1>1. Carries(Message) /\ Arrives(m, n) /\ msg \in Message /\ msg.flag = flag
  BY FirstCarried DEF Types, TransferTypes, Handles
<1>2. msg \in Begins \union Ings \union Ends
  BY <1>1, MessageKinds
<1>3. AckMsg(msg, TRUE) \in Message /\ AckMsg(msg, FALSE) \in Message
  BY <1>2, AckSent
<1> HIDE DEF msg
<1>4. TAKE r \in [uuid : Nat, seq : Nat]
<1>5. Reject(m, n) \/ Accept(m, n, r) => Carries(Message)'
  BY <1>1, <1>3, AnswerCarries DEF Accept, Reject, msg
<1>6. NoReceiver \in [uuid : Nat, seq : Nat]
  BY DEF NoReceiver
<1>7. Reject(m, n) \/ Accept(m, n, r) =>
            receiver' \in [Node -> [uuid : Nat, seq : Nat]]
  BY <1>6 DEF Accept, Reject, Types, TransferTypes
<1> QED
  BY <1>5, <1>7

LEMMA BeginTypes ==
  ASSUME Types, NEW m \in Node, NEW n \in Node, OnSendCheckpoint_Begin(m, n)
  PROVE  Types'
<1> DEFINE msg == Head(net[m][n])
<1>1. Handles(m, n, "BEGIN") /\ msg \in Begins
  BY FirstCarried, MessageKinds
     DEF OnSendCheckpoint_Begin, Handles, Types, TransferTypes
<1>2. msg.uuid \in Nat /\ msg.cp \in 0..MaxUInt64
  BY <1>1 DEF Begins
<1>3. ASSUME NewReceiver(n)
      PROVE  /\ tmp' \in [Node -> [SM -> Seq(Written)]]
             /\ log' \in [Node -> SUBSET Instances]
  <2>1. NoFiles \in [SM -> Seq(Written)] /\ {} \in SUBSET Instances
    BY DEF NoFiles
  <2> QED
    BY <1>3, <2>1 DEF NewReceiver, Types, TransferTypes, LogTypes, LogTypeOK
<1>4. tmp' \in [Node -> [SM -> Seq(Written)]] /\ log' \in [Node -> SUBSET Instances]
  BY <1>3 DEF OnSendCheckpoint_Begin, Types, TransferTypes, LogTypes, LogTypeOK
<1>5. Carries(Message)' /\ receiver' \in [Node -> [uuid : Nat, seq : Nat]]
  <2>1. Reject(m, n) \/ Accept(m, n, [uuid |-> msg.uuid, seq |-> 0])
    BY DEF OnSendCheckpoint_Begin
  <2>2. [uuid |-> msg.uuid, seq |-> 0] \in [uuid : Nat, seq : Nat]
    BY <1>2
  <2> QED
    BY <1>1, <2>1, <2>2, ReceiverAnswers
<1>6. minSaved' \in [Node -> 0..MaxUInt64] /\ minCache' \in [Node -> 0..MaxUInt64]
  <2>1. \/ SetMin(n, msg.cp)
        \/ minSaved' = [minSaved EXCEPT ![n] = 0] /\ UNCHANGED minCache
        \/ UNCHANGED <<minSaved, minCache>>
    BY DEF OnSendCheckpoint_Begin
  <2>2. 0 \in 0..MaxUInt64
    BY Numbers DEF MaxUInt64
  <2>3. /\ minSaved \in [Node -> 0..MaxUInt64]
        /\ minCache \in [Node -> 0..MaxUInt64]
    BY DEF Types, LogTypes, LogTypeOK
  <2> HIDE DEF msg
  <2>4. CASE SetMin(n, msg.cp)
    BY <1>2, <2>3, <2>4 DEF SetMin
  <2>5. CASE ~SetMin(n, msg.cp)
    BY <2>1, <2>2, <2>3, <2>5
  <2> QED
    BY <2>4, <2>5
<1>7. phase' \in [Node -> {"none", "cleared", "hollow", "mixed"}]
      /\ events' \in 0..MaxEvents
  <2>1. /\ \/ UNCHANGED phase
           \/ \E p \in {"cleared", "hollow"} : phase' = [phase EXCEPT ![n] = p]
        /\ events' = events \/ (events < MaxEvents /\ events' = events + 1)
    BY DEF OnSendCheckpoint_Begin
  <2>2. /\ phase \in [Node -> {"none", "cleared", "hollow", "mixed"}]
        /\ events \in 0..MaxEvents
    BY DEF Types, HistoryTypes, LogTypes, LogTypeOK
  <2> QED
    BY <2>1, <2>2, Numbers
<1> HIDE DEF msg
<1> QED
  BY <1>4, <1>5, <1>6, <1>7
     DEF OnSendCheckpoint_Begin, cleanerVars, replayVars, Types, LogTypes,
         LogTypeOK, TransferTypes, HistoryTypes

LEMMA IngTypes ==
  ASSUME Types, NEW m \in Node, NEW n \in Node, OnSendCheckpoint_Ing(m, n)
  PROVE  Types'
<1> DEFINE msg == Head(net[m][n])
           again == msg.uuid = receiver[n].uuid /\ msg.seq = receiver[n].seq
           written == [uuid |-> msg.uuid, off |-> msg.block.off, data |-> msg.data]
<1>1. Handles(m, n, "ING") /\ msg \in Ings
  BY FirstCarried, MessageKinds
     DEF OnSendCheckpoint_Ing, Handles, Types, TransferTypes
<1>2. msg.uuid \in Nat /\ msg.seq \in Nat /\ msg.block.sm \in SM
      /\ written \in Written
  BY <1>1, BlockFields DEF Ings, Written
<1>3. tmp' \in [Node -> [SM -> Seq(Written)]]
  <2>1. Append(tmp[n][msg.block.sm], written) \in Seq(Written)
    BY <1>2 DEF Types, TransferTypes
  <2>2. \/ tmp' = tmp
        \/ tmp' = [tmp EXCEPT ![n][msg.block.sm] = Append(@, written)]
    BY DEF OnSendCheckpoint_Ing
  <2>3. msg.block.sm \in SM /\ tmp \in [Node -> [SM -> Seq(Written)]]
    BY <1>2 DEF Types, TransferTypes
  <2> HIDE DEF msg, written
  <2>4. [tmp EXCEPT ![n][msg.block.sm] = Append(@, written)]
            \in [Node -> [SM -> Seq(Written)]]
    BY <2>1, <2>3, EntryReplaced
  <2> QED
    BY <2>2, <2>3, <2>4
<1>4. Carries(Message)' /\ receiver' \in [Node -> [uuid : Nat, seq : Nat]]
  <2>1. Reject(m, n) \/ Accept(m, n, [receiver[n] EXCEPT !.seq = msg.seq])
    BY DEF OnSendCheckpoint_Ing
  <2>2. [receiver[n] EXCEPT !.seq = msg.seq] \in [uuid : Nat, seq : Nat]
    BY <1>2 DEF Types, TransferTypes
  <2> QED
    BY <1>1, <2>1, <2>2, ReceiverAnswers
<1>5. events' \in 0..MaxEvents
  <2>1. events' = events \/ (events < MaxEvents /\ events' = events + 1)
    BY DEF OnSendCheckpoint_Ing
  <2> QED
    BY <2>1, Numbers DEF Types, LogTypes, LogTypeOK
<1> HIDE DEF msg, again, written
<1> QED
  BY <1>3, <1>4, <1>5
     DEF OnSendCheckpoint_Ing, cleanerVars, replayVars, history, Types, LogTypes,
         LogTypeOK, TransferTypes, HistoryTypes

LEMMA LoadTypes ==
  ASSUME Types, NEW n \in Node, NEW k \in Nat, Load(n, k)
  PROVE  ckpt' \in [Node -> [SM -> Past]]
<1>1. ASSUME NEW s \in SM, tmp[n][s] # <<>> PROVE Last(tmp[n][s]).data \in Past
  <2>1. tmp[n][s] \in Seq(Written)
    BY DEF Types, TransferTypes
  <2>2. Last(tmp[n][s]) \in Written
    BY <1>1, <2>1 DEF Last
  <2> QED
    BY <2>2 DEF Written
<1> QED
  BY <1>1 DEF Load, Types, LogTypes

LEMMA EndTypes ==
  ASSUME Types, NEW m \in Node, NEW n \in Node, OnSendCheckpoint_End(m, n)
  PROVE  Types'
<1> DEFINE msg == Head(net[m][n])
<1>1. Handles(m, n, "END") /\ msg \in Ends /\ Carries(Message)
  BY FirstCarried, MessageKinds
     DEF OnSendCheckpoint_End, Handles, Types, TransferTypes
<1>2. ckpt' \in [Node -> [SM -> Past]]
  BY LoadTypes, ListedOnce DEF OnSendCheckpoint_End, Types, LogTypes
<1>3. ckpt' \in [Node -> [SM -> SUBSET Instances]]
  BY <1>2, Numbers DEF Past, Instances
<1>4. Carries(Message)' /\ receiver' \in [Node -> [uuid : Nat, seq : Nat]]
  <2>1. Reject(m, n) \/ (Received(m, n) /\ UNCHANGED receiver)
    BY DEF OnSendCheckpoint_End
  <2>2. ASSUME Received(m, n) PROVE Carries(Message)'
    BY <1>1, <2>2, ReceivedCarries DEF Handles
  <2>3. receiver[n] \in [uuid : Nat, seq : Nat]
    BY DEF Types, TransferTypes
  <2> QED
    BY <1>1, <2>1, <2>2, <2>3, ReceiverAnswers DEF Types, TransferTypes
<1>5. events' \in 0..MaxEvents /\ up' \in [Node -> {"up", "down", "refused"}]
  <2>1. events' = events \/ (events < MaxEvents /\ events' = events + 1)
    BY DEF OnSendCheckpoint_End
  <2>2. up' = up \/ Stopped(n)
    BY DEF OnSendCheckpoint_End
  <2>3. events' \in 0..MaxEvents
    BY <2>1, Numbers DEF Types, LogTypes, LogTypeOK
  <2>4. up' \in [Node -> {"up", "down", "refused"}]
    BY <2>2 DEF Stopped, Types, LogTypes, LogTypeOK
  <2> QED
    BY <2>3, <2>4
<1>6. torn' \in [Node -> BOOLEAN] /\ raced' \in [Node -> BOOLEAN]
  BY <1>1 DEF OnSendCheckpoint_End, Ends, KeepsOwn, Types, HistoryTypes
<1> HIDE DEF msg
<1> QED
  BY <1>2, <1>3, <1>4, <1>5, <1>6
     DEF OnSendCheckpoint_End, cleanerVars, replayVars, Types, LogTypes,
         LogTypeOK, TransferTypes, HistoryTypes

(* What the replayers that do not run have done.                           *)
LEMMA InitialCheckpoints ==
  ASSUME Init
  PROVE  /\ ckpt \in [Node -> [SM -> Past]]
         /\ replayer \in [Node -> [at : 0..MaxInstance,
                                  pc : {"off", "top", "pausing", "playing"}]]
         /\ \A n \in Node :
              /\ \E k \in {0, StartAt[n]} : Held(ckpt[n]) = 0..(k - 1)
              /\ CPInstanceID(n) = replayer[n].at /\ replayer[n].pc \in {"off", "top"}
              /\ replayer[n].at \in {0, StartAt[n]}
<1>1. StartAt \in [Node -> 0..MaxInstance] /\ MaxInstance \in Nat
      /\ SMOf \in [0..MaxInstance -> SM]
  BY CleaningAssumption
<1>2. PICK R \in SUBSET Replayers :
        /\ ckpt = [n \in Node |-> [s \in SM |->
              IF n \in Replayers \ R
              THEN {i \in 0..(StartAt[n] - 1) : SMOf[i] = s} ELSE {}]]
        /\ replayer = [n \in Node |->
              [at |-> IF n \in Replayers \ R THEN StartAt[n] ELSE 0,
               pc |-> IF n \in R THEN "top" ELSE "off"]]
  BY DEF Init, LogInit
<1>3. \A n \in Node : StartAt[n] \in 0..MaxInstance
  BY <1>1
<1>4. ckpt \in [Node -> [SM -> Past]]
  BY <1>1, <1>2, <1>3 DEF Past
<1>5. /\ replayer \in [Node -> [at : 0..MaxInstance,
                                  pc : {"off", "top", "pausing", "playing"}]]
      /\ \A n \in Node : replayer[n].pc \in {"off", "top"}
      /\ \A n \in Node : replayer[n].at \in {0, StartAt[n]}
  BY <1>1, <1>2, <1>3
<1>6. ASSUME NEW n \in Node
      PROVE  Held(ckpt[n]) = 0..(replayer[n].at - 1)
  <2>1. CASE n \in Replayers \ R
    <3>1. /\ \A s \in SM : ckpt[n][s] = {i \in 0..(StartAt[n] - 1) : SMOf[i] = s}
          /\ replayer[n].at = StartAt[n]
      BY <1>2, <2>1
    <3>2. \A i \in 0..(StartAt[n] - 1) : SMOf[i] \in SM
      BY <1>1, <1>3
    <3> QED
      BY <3>1, <3>2 DEF Held
  <2>2. CASE n \notin Replayers \ R
    <3>1. (\A s \in SM : ckpt[n][s] = {}) /\ replayer[n].at = 0
      BY <1>2, <2>2
    <3> QED
      BY <3>1 DEF Held
  <2> QED
    BY <2>1, <2>2
<1>7. ASSUME NEW n \in Node
      PROVE  CPInstanceID(n) = replayer[n].at
  <2>1. ckpt[n] \in [SM -> Past] /\ replayer[n].at \in Nat
    BY <1>3, <1>4, <1>5
  <2> QED
    BY <1>6, <2>1, CheckpointEndIs DEF CPInstanceID
<1> QED
  BY <1>4, <1>5, <1>6, <1>7

LEMMA TypesInit == Init => Types
<1> SUFFICES ASSUME Init PROVE Types
  OBVIOUS
<1>1. Idle \in [busy : BOOLEAN, at : Instances, cp : 0..MaxUInt64, max : Instances]
      /\ 0 \in Instances /\ 0 \in 0..MaxUInt64 /\ 0 \in 0..MaxEvents
  BY Numbers DEF Idle, Instances, MaxUInt64
<1>2. StartAt \in [Node -> 0..MaxInstance] /\ StartAt \in [Node -> 0..MaxUInt64]
  BY CleaningAssumption, Numbers DEF MaxUInt64
<1>3. [n \in Node |-> 0..(StartAt[n] - 1)] \in [Node -> SUBSET Instances]
  BY <1>2, Numbers DEF Instances
<1>4. canRun \in [Node -> BOOLEAN] /\ isPaused \in [Node -> BOOLEAN]
  <2>1. PICK R \in SUBSET Replayers : canRun = [n \in Node |-> n \in R]
    BY DEF Init, LogInit
  <2>2. isPaused = [n \in Node |-> ~canRun[n]]
    BY DEF Init, LogInit
  <2> QED
    BY <2>1, <2>2
<1>5. LogTypes
  <2>1. /\ ckpt \in [Node -> [SM -> Past]]
        /\ ckpt \in [Node -> [SM -> SUBSET Instances]]
    BY InitialCheckpoints, Numbers DEF Past, Instances
  <2>2. replayer \in [Node -> [at : 0..MaxUInt64,
                               pc : {"off", "top", "pausing", "playing"}]]
    BY InitialCheckpoints, Numbers DEF MaxUInt64
  <2> QED
    BY <1>1, <1>2, <1>3, <1>4, <2>1, <2>2 DEF Init, LogInit, LogTypes, LogTypeOK
<1>6. TransferTypes
  <2>1. NoFiles \in [SM -> Seq(Written)] /\ NoReceiver \in [uuid : Nat, seq : Nat]
    BY DEF NoFiles, NoReceiver
  <2>2. \A n \in Node : NoSender \in SenderRecord
    BY NoSenderFits
  <2>3. Carries(Message)
    BY DEF Init, Carries
  <2> QED
    BY <2>1, <2>2, <2>3, TransferAssumption DEF Init, TransferTypes
<1>7. HistoryTypes
  BY DEF Init, HistoryTypes
<1> QED
  BY <1>5, <1>6, <1>7 DEF Types

LEMMA TypesStep ==
  ASSUME Types, [Next]_vars,
         \A n \in Node : replayer[n].pc = "playing" => replayer[n].at < now[n]
  PROVE  Types'
<1>1. CASE UNCHANGED vars
  BY <1>1 DEF vars, logVars, cleanerVars, replayVars, transferVars, history, Types,
              LogTypes, LogTypeOK, TransferTypes, HistoryTypes, Carries
<1>2. ASSUME NEW n \in Node, Learn(n) \/ Clean(n) PROVE Types'
  <2>1. phase' \in [Node -> {"none", "cleared", "hollow", "mixed"}]
        /\ torn' = torn /\ raced' = raced
    BY <1>2 DEF Learn, Clean, Types, HistoryTypes
  <2>2. UNCHANGED transferVars
    BY <1>2 DEF Learn, Clean
  <2> QED
    BY <1>2, <2>1, <2>2, LearnTypes, CleanTypes
       DEF transferVars, Types, TransferTypes, HistoryTypes, Carries
<1>3. ASSUME NEW n \in Node, Replay(n) \/ User(n) \/ Fall(n) PROVE Types'
  <2>1. raced' \in [Node -> BOOLEAN] /\ torn' = torn /\ phase' = phase
    <3>1. CASE User(n)
      BY <3>1, UserTypes DEF User, Types, HistoryTypes, LogTypes, LogTypeOK
    <3>2. CASE Replay(n) \/ Fall(n)
      BY <3>2 DEF Replay, Fall, history, Types, HistoryTypes
    <3> QED
      BY <1>3, <3>1, <3>2
  <2>2. UNCHANGED transferVars
    BY <1>3 DEF Replay, User, Fall
  <2> QED
    BY <1>3, <2>1, <2>2, ReplayTypes, UserTypes, FallTypes
       DEF transferVars, Types, TransferTypes, HistoryTypes, Carries
<1>4. ASSUME NEW n \in Node, Rise(n) PROVE Types'
  <2>1. LogTypes' /\ Carries(Message)'
    BY <1>4, RiseTypes, RiseCarries DEF Types, TransferTypes
  <2>2. sender' \in [Node -> SenderRecord]
        /\ receiver' \in [Node -> [uuid : Nat, seq : Nat]]
    <3>1. NoSender \in SenderRecord /\ NoReceiver \in [uuid : Nat, seq : Nat]
      BY NoSenderFits DEF NoReceiver
    <3> QED
      BY <1>4, <3>1 DEF Rise, Types, TransferTypes
  <2>3. HistoryTypes'
    BY <1>4 DEF Rise, Types, HistoryTypes
  <2> QED
    BY <1>4, <2>1, <2>2, <2>3 DEF Rise, Types, TransferTypes
<1>5. ASSUME NEW n \in Node, SenderStep(n) PROVE Types'
  BY <1>5, SenderTypes
<1>6. ASSUME NEW n \in Node, ExitCheckpointMode(n) PROVE Types'
  BY <1>6, RequestTypes
<1>7. ASSUME NEW m \in Node, NEW n \in Node,
             AskforCheckpoint(m, n) \/ Deliver(m, n) \/ Lose(m, n)
      PROVE  Types'
  BY <1>7, RequestTypes, BeginTypes, IngTypes, EndTypes DEF Deliver
<1> QED
  BY <1>1, <1>2, <1>3, <1>4, <1>5, <1>6, <1>7 DEF Next

-----------------------------------------------------------------------------
(* What befalls the log.  The steps of a node leave the others' alone.     *)

SameLog(k) ==
    /\ up'[k] = up[k] /\ now'[k] = now[k] /\ log'[k] = log[k]
    /\ ckpt'[k] = ckpt[k] /\ minSaved'[k] = minSaved[k]
    /\ minCache'[k] = minCache[k] /\ lastSave'[k] = lastSave[k]
    /\ cleaner'[k] = cleaner[k] /\ phase'[k] = phase[k]
    /\ receiver'[k] = receiver[k]

NodeLog(n) == (phase[n] = "none" => LogFits(n)) /\ ClearedFits(n)

LEMMA LogSame ==
  ASSUME NEW k \in Node, NodeLog(k), SameLog(k)
  PROVE  NodeLog(k)'
<1>1. CPInstanceID(k)' = CPInstanceID(k)
  BY DEF SameLog, CPInstanceID
<1>2. MinimumsFit(k)' = MinimumsFit(k) /\ RecordsFit(k)' = RecordsFit(k)
  BY <1>1 DEF MinimumsFit, RecordsFit, SameLog
<1>3. CleanerFits(k)' = CleanerFits(k)
  BY <1>1 DEF CleanerFits, SameLog, MayDelete
<1> QED
  BY <1>2, <1>3 DEF NodeLog, LogFits, ClearedFits, Clearing, SameLog

LEMMA LogElsewhere ==
  ASSUME LogInv, NEW n \in Node, NodeLog(n)',
         \A k \in Node \ {n} : SameLog(k)
  PROVE  LogInv'
<1>1. ASSUME NEW k \in Node PROVE NodeLog(k)'
  <2>1. NodeLog(k)
    BY DEF LogInv, NodeLog
  <2> QED
    BY <2>1, LogSame
<1> QED
  BY <1>1 DEF LogInv, NodeLog

(* Every value the invariant speaks of is a number.                        *)
LEMMA LogNumbers ==
  ASSUME Types, NEW n \in Node
  PROVE  /\ now[n] \in Nat /\ minSaved[n] \in Nat /\ minCache[n] \in Nat
         /\ lastSave[n] \in Nat /\ log[n] \subseteq Nat
         /\ cleaner[n].at \in Nat /\ cleaner[n].cp \in Nat
         /\ cleaner[n].max \in Nat
         /\ CPInstanceID(n) \in Nat /\ Hold \in Nat /\ Interval \in Nat \ {0}
<1>1. CPInstanceID(n) \in Nat
  BY InitGoesOn, Numbers DEF Types
<1>2. cleaner[n] \in [busy : BOOLEAN, at : Instances, cp : 0..MaxUInt64,
                      max : Instances]
  BY DEF Types, LogTypes, LogTypeOK
<1> QED
  BY <1>1, <1>2, Numbers, CleaningAssumption
     DEF Types, LogTypes, LogTypeOK, Instances, MaxUInt64

LEMMA LearnLog ==
  ASSUME Types, LogInv, NEW n \in Node, Learn(n)
  PROVE  LogInv'
<1>1. up[n] = "up" /\ NewInstance(n)
  BY DEF Learn, Chosen, LearnFrom
<1>2. /\ now' = [now EXCEPT ![n] = @ + 1]
      /\ log' = [log EXCEPT ![n] = @ \union {now[n]}]
      /\ UNCHANGED <<up, ckpt, minSaved, minCache, lastSave, cleaner, receiver>>
      /\ phase' = [phase EXCEPT ![n] = IF Clearing(n) THEN "mixed" ELSE @]
  BY <1>1 DEF NewInstance, Learn, cleanerVars, transferVars
<1>3. \A k \in Node \ {n} : SameLog(k)
  BY <1>2 DEF SameLog, Types, LogTypes, LogTypeOK, HistoryTypes
<1>4. NodeLog(n)'
  <2>1. /\ now'[n] = now[n] + 1 /\ log'[n] = log[n] \union {now[n]}
        /\ phase'[n] = IF Clearing(n) THEN "mixed" ELSE phase[n]
    BY <1>2 DEF Types, LogTypes, LogTypeOK, HistoryTypes
  <2>2. CPInstanceID(n)' = CPInstanceID(n)
    BY <1>2 DEF CPInstanceID
  <2>3. ClearedFits(n)'
    BY <1>1, <1>2, <2>1 DEF ClearedFits, Clearing, LogInv
  <2>4. ASSUME phase'[n] = "none" PROVE LogFits(n)'
    <3>1. LogFits(n)
      BY <2>1, <2>4 DEF LogInv, Clearing
    <3>2. MinimumsFit(n)'
      BY <1>2, <2>1, <2>2, <3>1, LogNumbers DEF LogFits, MinimumsFit
    <3>3. RecordsFit(n)'
      BY <1>2, <2>1, <2>2, <3>1, LogNumbers DEF LogFits, RecordsFit, MinimumsFit
    <3>4. CleanerFits(n)'
      BY <1>2, <2>1, <2>2, <3>1, LogNumbers
         DEF LogFits, CleanerFits, MinimumsFit, MayDelete
    <3> QED
      BY <3>2, <3>3, <3>4 DEF LogFits
  <2> QED
    BY <2>3, <2>4 DEF NodeLog
<1> QED
  BY <1>3, <1>4, LogElsewhere

LEMMA CleanLog ==
  ASSUME Types, LogInv, NEW n \in Node, Clean(n)
  PROVE  LogInv'
<1> DEFINE i == cleaner[n].at
<1>0. /\ now[n] \in Nat /\ minSaved[n] \in Nat /\ minCache[n] \in Nat
      /\ lastSave[n] \in Nat /\ log[n] \subseteq Nat /\ i \in Nat
      /\ cleaner[n].cp \in Nat /\ cleaner[n].max \in Nat
      /\ CPInstanceID(n) \in Nat /\ Hold \in Nat /\ Interval \in Nat \ {0}
  BY LogNumbers
<1>1. /\ UNCHANGED <<up, now, ckpt, receiver>>
      /\ phase' = [phase EXCEPT ![n] =
              IF Clearing(n) /\ cleaner[n].busy THEN "mixed" ELSE @]
  BY DEF Clean, CleanerReads, DeleteOne, DeleteFails, transferVars
<1>2. /\ phase'[n] = IF Clearing(n) /\ cleaner[n].busy THEN "mixed" ELSE phase[n]
      /\ CPInstanceID(n)' = CPInstanceID(n) /\ up'[n] = "up" /\ up[n] = "up"
      /\ now'[n] = now[n] /\ receiver'[n] = receiver[n]
  BY <1>1 DEF Clean, CleanerReads, DeleteOne, DeleteFails, CPInstanceID, Types,
              HistoryTypes
<1>3. CASE CleanerReads(n)
  <2>1. /\ cleaner'[n] = [busy |-> TRUE, at |-> minCache[n],
                          cp |-> CPInstanceID(n), max |-> now[n]]
        /\ minSaved'[n] = minSaved[n] /\ minCache'[n] = minCache[n]
        /\ lastSave'[n] = lastSave[n] /\ log'[n] = log[n]
        /\ ~cleaner[n].busy
        /\ minCache[n] + Hold < CPInstanceID(n) /\ minCache[n] + Hold < now[n]
    BY <1>3 DEF CleanerReads, Types, LogTypes, LogTypeOK
  <2>2. \A k \in Node \ {n} : SameLog(k)
    BY <1>1, <1>3 DEF CleanerReads, SameLog, Types, LogTypes, LogTypeOK, HistoryTypes
  <2>3. ClearedFits(n)'
    BY <1>2, <2>1 DEF ClearedFits, Clearing, LogInv
  <2>4. ASSUME phase'[n] = "none" PROVE LogFits(n)'
    <3>1. LogFits(n)
      BY <1>2, <2>4, <2>1 DEF LogInv
    <3>2. MinimumsFit(n)' /\ RecordsFit(n)'
      BY <1>2, <2>1, <3>1 DEF LogFits, MinimumsFit, RecordsFit
    <3>3. CleanerFits(n)'
      BY <1>0, <1>2, <2>1, <3>1 DEF CleanerFits, MayDelete
    <3> QED
      BY <3>2, <3>3 DEF LogFits
  <2> QED
    BY <2>2, <2>3, <2>4, LogElsewhere DEF NodeLog
<1>4. CASE DeleteOne(n) \/ DeleteFails(n)
  <2>1. cleaner[n].busy
    BY <1>4 DEF DeleteOne, DeleteFails
  <2>2. \A k \in Node \ {n} : SameLog(k)
    <3> TAKE k \in Node \ {n}
    <3>1. cleaner'[k] = cleaner[k] /\ log'[k] = log[k] /\ minSaved'[k] = minSaved[k]
          /\ minCache'[k] = minCache[k] /\ lastSave'[k] = lastSave[k]
      BY <1>4 DEF DeleteOne, DeleteFails, Advance, SetMin, Types, LogTypes, LogTypeOK
    <3> QED
      BY <1>1, <3>1 DEF SameLog, Types, LogTypes, LogTypeOK, HistoryTypes
  <2>3. ClearedFits(n)'
    BY <1>2, <2>1 DEF ClearedFits, Clearing, LogInv
  <2>4. ASSUME phase'[n] = "none" PROVE LogFits(n)'
    <3>1. MinimumsFit(n) /\ RecordsFit(n) /\ CleanerFits(n)
      BY <1>2, <2>4 DEF LogInv, LogFits
    <3>2. /\ i = minCache[n] \/ i = minCache[n] + 1
          /\ i + Hold < cleaner[n].cp /\ i + Hold < cleaner[n].max
          /\ cleaner[n].cp <= CPInstanceID(n) /\ cleaner[n].max <= now[n]
          /\ i = minCache[n] + 1 =>
                minCache[n] \notin log[n] /\ minCache[n] < minSaved[n] + Interval
          /\ i < CPInstanceID(n) /\ i < now[n] /\ i <= minSaved[n] + Interval
      BY <1>0, <2>1, <3>1 DEF CleanerFits, MayDelete, MinimumsFit
    <3>3. log[n] \ {i} \subseteq i..now[n]
          /\ log[n] \ {i} \subseteq (i + 1)..now[n]
          /\ \A j \in (i + 1)..(now[n] - 1) : j \in log[n]
      BY <1>0, <3>1, <3>2 DEF RecordsFit
    <3> HIDE DEF i
    <3>4. CASE DeleteOne(n) /\ NeedsSave(n)
      <4>1. /\ log'[n] = log[n] \ {i} /\ minSaved'[n] = i + 1
            /\ minCache'[n] = i + 1 /\ lastSave'[n] = i
            /\ cleaner'[n] = IF MayDelete([cleaner[n] EXCEPT !.at = @ + 1])
                             THEN [cleaner[n] EXCEPT !.at = @ + 1] ELSE Idle
        BY <3>4 DEF DeleteOne, SetMin, Advance, i, Types, LogTypes, LogTypeOK
      <4>2. MinimumsFit(n)'
        BY <1>0, <1>2, <3>1, <3>2, <4>1 DEF MinimumsFit
      <4>3. RecordsFit(n)'
        BY <1>0, <1>2, <3>2, <3>3, <4>1 DEF RecordsFit
      <4>4. CleanerFits(n)'
        <5>1. cleaner'[n] = Idle \/
                /\ MayDelete(cleaner'[n]) /\ cleaner'[n].at = i + 1
                /\ cleaner'[n].cp = cleaner[n].cp /\ cleaner'[n].max = cleaner[n].max
          BY <4>1 DEF i, Types, LogTypes, LogTypeOK
        <5> QED
          BY <1>0, <1>2, <3>2, <4>1, <5>1 DEF CleanerFits, Idle
      <4> QED
        BY <4>2, <4>3, <4>4 DEF LogFits
    <3>5. CASE DeleteOne(n) /\ ~NeedsSave(n)
      <4>1. /\ log'[n] = log[n] \ {i} /\ minSaved'[n] = minSaved[n]
            /\ minCache'[n] = i /\ lastSave'[n] = lastSave[n]
            /\ cleaner'[n] = IF MayDelete([cleaner[n] EXCEPT !.at = @ + 1])
                             THEN [cleaner[n] EXCEPT !.at = @ + 1] ELSE Idle
        BY <3>5 DEF DeleteOne, Advance, i, Types, LogTypes, LogTypeOK
      <4>2. i < minSaved[n] + Interval
        BY <1>0, <3>1, <3>5 DEF NeedsSave, MinimumsFit, i
      <4>3. MinimumsFit(n)'
        BY <1>0, <1>2, <3>1, <3>2, <4>1 DEF MinimumsFit
      <4>4. RecordsFit(n)'
        BY <1>0, <1>2, <3>2, <3>3, <4>1 DEF RecordsFit
      <4>5. CleanerFits(n)'
        <5>1. cleaner'[n] = Idle \/
                /\ MayDelete(cleaner'[n]) /\ cleaner'[n].at = i + 1
                /\ cleaner'[n].cp = cleaner[n].cp /\ cleaner'[n].max = cleaner[n].max
          BY <4>1 DEF i, Types, LogTypes, LogTypeOK
        <5> QED
          BY <1>0, <1>2, <3>2, <4>1, <4>2, <5>1 DEF CleanerFits, Idle
      <4> QED
        BY <4>3, <4>4, <4>5 DEF LogFits
    <3>6. CASE DeleteFails(n)
      <4>1. /\ minSaved'[n] = minSaved[n] /\ lastSave'[n] = lastSave[n]
            /\ cleaner'[n] = Idle
            /\ \/ log'[n] = log[n] /\ minCache'[n] = minCache[n]
               \/ log'[n] = log[n] \ {i} /\ minCache'[n] = i
        BY <3>6 DEF DeleteFails, i, Types, LogTypes, LogTypeOK
      <4>2. MinimumsFit(n)'
        BY <1>0, <1>2, <3>1, <3>2, <4>1 DEF MinimumsFit
      <4>3. RecordsFit(n)'
        <5>1. CASE log'[n] = log[n] /\ minCache'[n] = minCache[n]
          BY <1>2, <3>1, <5>1 DEF RecordsFit
        <5>2. CASE log'[n] = log[n] \ {i} /\ minCache'[n] = i
          BY <1>0, <1>2, <3>2, <3>3, <5>2 DEF RecordsFit
        <5> QED
          BY <4>1, <5>1, <5>2
      <4>4. CleanerFits(n)'
        BY <4>1 DEF CleanerFits, Idle
      <4> QED
        BY <4>2, <4>3, <4>4 DEF LogFits
    <3> QED
      BY <1>4, <3>4, <3>5, <3>6
  <2> QED
    BY <2>2, <2>3, <2>4, LogElsewhere DEF NodeLog
<1> QED
  BY <1>3, <1>4 DEF Clean

(* A start succeeds, unless the log has been written or cleaned after it   *)
(* had been cleared.                                                       *)
LEMMA StartsWell ==
  ASSUME Types, LogInv, NEW n \in Node, phase[n] # "mixed"
  PROVE  /\ CanStart(n)
         /\ CPInstanceID(n) > LogMax(n) + 1 => log[n] = {}
<1> DEFINE cp == CPInstanceID(n)
           max == LogMax(n)
<1>1. /\ cp \in Nat /\ max \in Nat /\ log[n] \subseteq Nat
      /\ minCache[n] \in Nat /\ minSaved[n] \in Nat /\ now[n] \in Nat
  BY LogNumbers, LogMaxIs, Numbers DEF Types
<1>2. /\ \A i \in log[n] : i <= max
      /\ log[n] = {} => max = 0
      /\ log[n] # {} => max \in log[n]
      /\ FixMin(n) \in Nat
      /\ minSaved[n] <= cp => FixMin(n) <= cp
  BY LogMaxIs, FixMinIs, Numbers DEF Types, MaxUInt64
<1>3. CASE Clearing(n)
  <2>1. log[n] = {}
    BY <1>3 DEF LogInv, ClearedFits
  <2> QED
    BY <1>1, <1>2, <2>1 DEF CanStart, Protected
<1>4. CASE phase[n] = "none"
  <2>1. /\ minSaved[n] <= minCache[n] /\ minCache[n] <= cp /\ cp <= now[n]
        /\ log[n] \subseteq minCache[n]..now[n]
        /\ \A i \in minCache[n]..(now[n] - 1) :
              i \in log[n] \/ (i = minCache[n] /\ i < cp)
    BY <1>4 DEF LogInv, LogFits, MinimumsFit, RecordsFit
  <2> HIDE DEF cp, max
  <2>2. CASE cp < max
    <3>1. log[n] # {} /\ max <= now[n]
      BY <1>1, <1>2, <2>1, <2>2
    <3>2. cp..(max - 1) \subseteq log[n]
      BY <1>1, <2>1, <2>2, <3>1
    <3>3. FixMin(n) <= cp
      BY <1>1, <1>2, <2>1
    <3> QED
      BY <1>1, <2>2, <3>2, <3>3 DEF CanStart, CanPlay, cp, max
  <2>3. CASE ~(cp < max)
    <3>1. ASSUME cp > max + 1, log[n] # {} PROVE FALSE
      <4>1. max \in log[n] /\ max + 1 \in minCache[n]..(now[n] - 1)
            /\ max + 1 # minCache[n]
        BY <1>1, <1>2, <2>1, <3>1
      <4> QED
        BY <1>1, <1>2, <2>1, <4>1
    <3> QED
      BY <1>2, <2>3, <3>1 DEF CanStart, Protected, cp, max
  <2>4. cp > max + 1 => ~(cp < max)
    BY <1>1
  <2>5. ASSUME cp > max + 1, log[n] # {} PROVE FALSE
    <3>1. max \in log[n] /\ max + 1 \in minCache[n]..(now[n] - 1)
          /\ max + 1 # minCache[n]
      BY <1>1, <1>2, <2>1, <2>5
    <3> QED
      BY <1>1, <1>2, <2>1, <3>1
  <2> QED
    BY <2>2, <2>3, <2>5 DEF cp, max
<1> QED
  BY <1>3, <1>4 DEF Clearing, Types, HistoryTypes

LEMMA RiseLog ==
  ASSUME Types, LogInv, NEW n \in Node, Rise(n)
  PROVE  LogInv'
<1> DEFINE cp == CPInstanceID(n)
           max == LogMax(n)
           start == Max({cp, max})
<1>1. /\ cp \in Nat /\ max \in Nat /\ log[n] \subseteq Nat
      /\ minCache[n] \in Nat /\ minSaved[n] \in Nat /\ now[n] \in Nat
      /\ start \in Nat /\ FixMin(n) \in Nat /\ Interval \in Nat
  BY LogNumbers, LogMaxIs, StartIs, FixMinIs, Numbers DEF Types, MaxUInt64
<1>2. /\ \A i \in log[n] : i <= max
      /\ log[n] = {} => max = 0
      /\ log[n] # {} => max \in log[n]
      /\ start = cp \/ start = max
      /\ cp <= start /\ max <= start
      /\ FixMin(n) <= minSaved[n] + Interval
      /\ \A i \in log[n] : minSaved[n] <= i => FixMin(n) <= i
      /\ minSaved[n] <= cp => FixMin(n) <= cp
      /\ \/ FixMin(n) \in log[n]
         \/ FixMin(n) >= cp
         \/ FixMin(n) = minSaved[n] + Interval
  BY LogMaxIs, StartIs, FixMinIs DEF Types
<1>3. /\ log' = log /\ ckpt' = ckpt
      /\ receiver' = [receiver EXCEPT ![n] = NoReceiver]
      /\ phase' = [phase EXCEPT ![n] =
            IF ~Clearing(n) THEN @
            ELSE IF StartMin(n) <= CPInstanceID(n) THEN "none" ELSE "cleared"]
  BY DEF Rise, Restart, Refuse
<1>4. receiver'[n].uuid = 0 /\ CPInstanceID(n)' = cp /\ log'[n] = log[n]
      /\ phase'[n] = IF ~Clearing(n) THEN phase[n]
                     ELSE IF StartMin(n) <= cp THEN "none" ELSE "cleared"
  BY <1>3 DEF CPInstanceID, NoReceiver, Types, TransferTypes, HistoryTypes
<1>5. \A k \in Node \ {n} : SameLog(k)
  <2>1. \A k \in Node \ {n} :
            /\ up'[k] = up[k] /\ now'[k] = now[k] /\ minSaved'[k] = minSaved[k]
            /\ minCache'[k] = minCache[k] /\ lastSave'[k] = lastSave[k]
            /\ cleaner'[k] = cleaner[k]
    BY DEF Rise, Restart, Refuse, SetMin, cleanerVars, Types, LogTypes, LogTypeOK
  <2> QED
    BY <1>3, <2>1 DEF SameLog, Types, TransferTypes, HistoryTypes
<1>6. CASE Refuse(n)
  <2>1. phase[n] = "mixed"
    BY <1>6, StartsWell DEF Refuse
  <2>2. up'[n] = "refused" /\ phase'[n] = "mixed"
    BY <1>4, <1>6, <2>1 DEF Refuse, Clearing, Types, LogTypes, LogTypeOK
  <2> QED
    BY <1>5, <2>2, LogElsewhere DEF NodeLog, ClearedFits, Clearing
<1>7. CASE Restart(n)
  <2>1. /\ up'[n] = "up" /\ now'[n] = start /\ lastSave'[n] = 0
        /\ minSaved'[n] = StartMin(n) /\ minCache'[n] = StartMin(n)
        /\ cleaner'[n] = Idle
    BY <1>7 DEF Restart, SetMin, Types, LogTypes, LogTypeOK
  <2>2. StartMin(n) = IF cp > max + 1 THEN cp ELSE FixMin(n)
    BY DEF StartMin
  <2>3. CleanerFits(n)'
    BY <2>1 DEF CleanerFits, Idle
  <2> HIDE DEF cp, max, start
  <2>4. CASE phase[n] = "mixed"
    BY <1>4, <1>5, <2>4, LogElsewhere, <2>1 DEF NodeLog, ClearedFits, Clearing
  <2>5. CASE Clearing(n)
    <3>1. log[n] = {} /\ max = 0 /\ start = cp
      BY <1>1, <1>2, <2>5 DEF LogInv, ClearedFits
    <3>2. ClearedFits(n)'
      <4>1. phase'[n] = "cleared" => cp < StartMin(n)
        BY <1>1, <1>4, <2>2, <2>5
      <4> QED
        BY <1>1, <1>4, <2>1, <2>2, <3>1, <4>1 DEF ClearedFits, Clearing
    <3>3. ASSUME phase'[n] = "none" PROVE LogFits(n)'
      <4>1. StartMin(n) <= cp /\ StartMin(n) \in Nat /\ cp <= StartMin(n) + 1
        BY <1>1, <1>4, <2>2, <2>5, <3>1, <3>3
      <4>2. MinimumsFit(n)'
        BY <1>1, <1>4, <2>1, <3>1, <4>1 DEF MinimumsFit
      <4>3. RecordsFit(n)'
        BY <1>1, <1>4, <2>1, <3>1, <4>1 DEF RecordsFit
      <4> QED
        BY <2>3, <4>2, <4>3 DEF LogFits
    <3> QED
      BY <1>5, <3>2, <3>3, LogElsewhere DEF NodeLog
  <2>6. CASE phase[n] = "none"
    <3>1. phase'[n] = "none"
      BY <1>4, <2>6 DEF Clearing
    <3>2. ClearedFits(n)'
      BY <1>4, <2>1, <3>1 DEF ClearedFits, Clearing
    <3>3. /\ minSaved[n] <= minCache[n] /\ minCache[n] <= minSaved[n] + Interval
          /\ minCache[n] <= cp /\ cp <= now[n]
          /\ log[n] \subseteq minCache[n]..now[n]
          /\ \A i \in minCache[n]..(now[n] - 1) :
                i \in log[n] \/ (i = minCache[n] /\ i < cp)
      BY <2>6 DEF LogInv, LogFits, MinimumsFit, RecordsFit, cp
    <3>4. StartMin(n) <= cp /\ StartMin(n) \in Nat
      BY <1>1, <1>2, <2>2, <3>3
    <3>5. MinimumsFit(n)'
      BY <1>1, <1>2, <1>4, <2>1, <3>4 DEF MinimumsFit
    <3>6. RecordsFit(n)'
      <4>1. CASE cp > max + 1
        <5>1. log[n] = {} /\ start = cp /\ StartMin(n) = cp
          BY <1>1, <1>2, <2>2, <2>6, <4>1, StartsWell DEF cp, max
        <5> QED
          BY <1>1, <1>4, <2>1, <5>1 DEF RecordsFit
      <4>2. CASE ~(cp > max + 1)
        <5>1. StartMin(n) = FixMin(n) /\ minCache[n] <= FixMin(n)
          BY <1>1, <1>2, <2>2, <3>3, <4>2
        <5>2. start <= now[n]
          BY <1>1, <1>2, <3>3
        <5>3. \A i \in log[n] : FixMin(n) <= i
          BY <1>1, <1>2, <3>3
        <5>4. log[n] \subseteq FixMin(n)..start
          BY <1>1, <1>2, <5>3
        <5>5. \A i \in FixMin(n)..(start - 1) :
                  i \in log[n] \/ (i = FixMin(n) /\ i < cp)
          BY <1>1, <3>3, <5>1, <5>2
        <5> QED
          BY <1>4, <2>1, <5>1, <5>4, <5>5 DEF RecordsFit
      <4> QED
        BY <4>1, <4>2
    <3> QED
      BY <1>5, <2>3, <3>1, <3>2, <3>5, <3>6, LogElsewhere DEF NodeLog, LogFits
  <2> QED
    BY <2>4, <2>5, <2>6 DEF Clearing, Types, HistoryTypes
<1> QED
  BY <1>6, <1>7 DEF Rise

LEMMA ReplayLog ==
  ASSUME Types, LogInv, CheckpointInv, NEW n \in Node, Replay(n)
  PROVE  LogInv'
<1> DEFINE i == replayer[n].at
<1>1. UNCHANGED <<up, now, log, minSaved, minCache, lastSave, cleaner, phase, receiver>>
  BY DEF Replay, ReplayerTests, ReplayerPauses, PlayOne, cleanerVars, transferVars,
         history
<1>2. \A k \in Node \ {n} : SameLog(k)
  <2>1. \A k \in Node \ {n} : ckpt'[k] = ckpt[k]
    BY DEF Replay, ReplayerTests, ReplayerPauses, PlayOne, ExecuteForCheckpoint,
           Types, LogTypes, LogTypeOK
  <2> QED
    BY <1>1, <2>1 DEF SameLog
<1>3. ClearedFits(n)'
  BY <1>1 DEF ClearedFits, Clearing, LogInv
<1>4. CASE ckpt'[n] = ckpt[n]
  <2>1. NodeLog(n)'
    BY <1>1, <1>4, LogSame DEF SameLog, NodeLog, LogInv
  <2> QED
    BY <1>2, <2>1, LogElsewhere
<1>5. CASE ckpt'[n] # ckpt[n]
  <2>1. /\ up[n] = "up" /\ replayer[n].pc = "playing"
        /\ ckpt' = ExecuteForCheckpoint(n, i)
    BY <1>5 DEF Replay, ReplayerTests, ReplayerPauses, PlayOne
  <2>2. ASSUME phase'[n] = "none" PROVE LogFits(n)'
    <3>1. LogFits(n) /\ i = CPInstanceID(n) /\ i < now[n]
      BY <1>1, <2>1, <2>2 DEF LogInv, CheckpointInv
    <3>2. i \in 0..(MaxInstance - 1) /\ ckpt[n] \in [SM -> Past]
      BY <3>1, Numbers DEF Types, LogTypes, LogTypeOK
    <3>3. ckpt'[n] = [ckpt[n] EXCEPT ![SMOf[i]] = @ \union {i}]
      BY <2>1 DEF ExecuteForCheckpoint, Types, LogTypes
    <3>4. ckpt'[n] \in [SM -> Past]
      BY <1>1, ReplayTypes DEF CheckpointInv, LogTypes
    <3>5. CPInstanceID(n)' = i + 1
      BY <3>1, <3>2, <3>3, <3>4, PlayedOne DEF CPInstanceID
    <3> HIDE DEF i
    <3>6. CPInstanceID(n) < CPInstanceID(n)' /\ CPInstanceID(n)' <= now[n]
          /\ CPInstanceID(n)' \in Nat
      BY <3>1, <3>2, <3>5, LogNumbers
    <3>7. MinimumsFit(n)'
      BY <1>1, <3>1, <3>6, LogNumbers DEF LogFits, MinimumsFit
    <3>8. RecordsFit(n)'
      BY <1>1, <3>1, <3>6, LogNumbers DEF LogFits, RecordsFit
    <3>9. CleanerFits(n)'
      BY <1>1, <3>1, <3>6, LogNumbers DEF LogFits, CleanerFits, MayDelete
    <3> QED
      BY <3>7, <3>8, <3>9 DEF LogFits
  <2> QED
    BY <1>2, <1>3, <2>2, LogElsewhere DEF NodeLog
<1> QED
  BY <1>4, <1>5

(* The steps that leave the log and what is said of it alone; a node whose *)
(* log has been cleared may load a checkpoint.                             *)
LEMMA LogQuiet ==
  ASSUME Types, LogInv,
         UNCHANGED <<now, log, minSaved, minCache, lastSave, cleaner, phase>>,
         \A k \in Node : /\ up'[k] = up[k] \/ up'[k] = "down"
                         /\ receiver'[k].uuid \in {0, receiver[k].uuid}
                         /\ ckpt'[k] = ckpt[k] \/ phase[k] # "none"
  PROVE  LogInv'
<1> SUFFICES ASSUME NEW k \in Node PROVE NodeLog(k)'
  BY DEF LogInv, NodeLog
<1>1. ClearedFits(k)'
  BY DEF ClearedFits, Clearing, LogInv
<1>2. ASSUME phase[k] = "none" PROVE LogFits(k)'
  <2>1. CPInstanceID(k)' = CPInstanceID(k)
    BY <1>2 DEF CPInstanceID
  <2>2. LogFits(k)
    BY <1>2 DEF LogInv
  <2>3. MinimumsFit(k)' /\ RecordsFit(k)'
    BY <2>1, <2>2 DEF LogFits, MinimumsFit, RecordsFit
  <2>4. CleanerFits(k)'
    BY <2>1, <2>2 DEF LogFits, CleanerFits, MayDelete
  <2> QED
    BY <2>3, <2>4 DEF LogFits
<1> QED
  BY <1>1, <1>2 DEF NodeLog

(* The steps that do not come near a log.                                  *)
LEMMA OtherLog ==
  ASSUME Types, LogInv, NEW n \in Node, NEW m \in Node,
         \/ User(n) \/ Fall(n) \/ SenderStep(n) \/ ExitCheckpointMode(n)
         \/ AskforCheckpoint(m, n) \/ OnAskforCheckpoint(m, n)
         \/ OnSendCheckpointAck(m, n) \/ IgnoreCheckpointMsg(m, n)
         \/ OnSendCheckpoint_Ing(m, n) \/ Lose(m, n)
  PROVE  LogInv'
<1>1. /\ UNCHANGED <<now, log, ckpt, minSaved, minCache, lastSave, cleaner, phase>>
      /\ up' = up \/ Stopped(n)
      /\ receiver' = receiver \/ OnSendCheckpoint_Ing(m, n)
  <2>1. CASE SenderStep(n)
    BY <2>1, SenderSteps DEF cleanerVars
  <2>2. CASE ~SenderStep(n)
    BY <2>2 DEF User, UserPauses, UserContinues, Fall, Crash, ExitCheckpointMode,
           AskforCheckpoint, OnAskforCheckpoint, OnSendCheckpointAck,
           IgnoreCheckpointMsg, OnSendCheckpoint_Ing, Lose, logVars, cleanerVars,
           transferVars, history
  <2> QED
    BY <2>1, <2>2
<1>2. \A k \in Node : receiver'[k].uuid \in {0, receiver[k].uuid}
  <2>1. receiver \in [Node -> [uuid : Nat, seq : Nat]]
    BY DEF Types, TransferTypes
  <2>2. \/ receiver' = receiver
        \/ receiver' = [receiver EXCEPT ![n] = NoReceiver]
        \/ receiver' = [receiver EXCEPT ![n] =
              [receiver[n] EXCEPT !.seq = Head(net[m][n]).seq]]
    BY <1>1 DEF OnSendCheckpoint_Ing, Accept, Reject
  <2> QED
    BY <2>1, <2>2 DEF NoReceiver
<1>3. \A k \in Node : up'[k] = up[k] \/ up'[k] = "down"
  BY <1>1 DEF Stopped, Types, LogTypes, LogTypeOK
<1> QED
  BY <1>1, <1>2, <1>3, LogQuiet

LEMMA BeginLog ==
  ASSUME Types, LogInv, NEW m \in Node, NEW n \in Node,
         OnSendCheckpoint_Begin(m, n)
  PROVE  LogInv'
<1> DEFINE msg == Head(net[m][n])
<1>1. /\ UNCHANGED <<up, now, ckpt, lastSave, cleaner>> /\ up[n] = "up"
  BY DEF OnSendCheckpoint_Begin, Handles, Arrives, cleanerVars
<1>2. \A k \in Node \ {n} : SameLog(k)
  <2>1. \A k \in Node \ {n} :
            /\ log'[k] = log[k] /\ minSaved'[k] = minSaved[k]
            /\ minCache'[k] = minCache[k] /\ phase'[k] = phase[k]
            /\ receiver'[k] = receiver[k]
    <3>1. \A k \in Node \ {n} : log'[k] = log[k] /\ phase'[k] = phase[k]
      BY DEF OnSendCheckpoint_Begin, NewReceiver, Types, LogTypes, LogTypeOK,
             HistoryTypes
    <3>2. \A k \in Node \ {n} : minSaved'[k] = minSaved[k] /\ minCache'[k] = minCache[k]
      BY DEF OnSendCheckpoint_Begin, SetMin, Types, LogTypes, LogTypeOK
    <3>3. \A k \in Node \ {n} : receiver'[k] = receiver[k]
      BY DEF OnSendCheckpoint_Begin, Accept, Reject, Types, TransferTypes
    <3> QED
      BY <3>1, <3>2, <3>3
  <2> QED
    BY <1>1, <2>1 DEF SameLog
<1>3. CASE NewReceiver(n)
  <2>1. log'[n] = {}
    BY <1>3 DEF NewReceiver, Types, LogTypes, LogTypeOK
  <2>2. \/ phase'[n] = "hollow"
        \/ phase'[n] = "cleared" /\ now[n] <= msg.cp + 1 /\ minCache'[n] = msg.cp
        \/ /\ UNCHANGED <<tmp, log, minSaved, minCache, phase>>
           /\ Reject(m, n)
    BY DEF OnSendCheckpoint_Begin, SetMin, Types, LogTypes, LogTypeOK, HistoryTypes
  <2> HIDE DEF msg
  <2>3. CASE phase'[n] = "hollow"
    BY <1>1, <1>2, <2>1, <2>3, LogElsewhere DEF NodeLog, ClearedFits, Clearing
  <2>4. CASE phase'[n] = "cleared" /\ now[n] <= msg.cp + 1 /\ minCache'[n] = msg.cp
    BY <1>1, <1>2, <2>1, <2>4, LogElsewhere DEF NodeLog, ClearedFits, Clearing
  <2>5. CASE /\ UNCHANGED <<tmp, log, minSaved, minCache, phase>>
             /\ Reject(m, n)
    BY <1>1, <2>5, LogQuiet DEF Reject, NoReceiver, Types, TransferTypes
  <2> QED
    BY <2>2, <2>3, <2>4, <2>5
<1>4. CASE ~NewReceiver(n)
  <2>1. UNCHANGED <<log, minSaved, minCache, phase>> /\ Reject(m, n)
    BY <1>4 DEF OnSendCheckpoint_Begin
  <2> QED
    BY <1>1, <2>1, LogQuiet DEF Reject, NoReceiver, Types, TransferTypes
<1> QED
  BY <1>3, <1>4

(* The end of a transfer, when it has come from a sender.                  *)
LEMMA EndLog ==
  ASSUME Types, LogInv, NEW m \in Node, NEW n \in Node,
         OnSendCheckpoint_End(m, n), Head(net[m][n]).uuid # 0
  PROVE  LogInv'
<1>1. /\ UNCHANGED <<now, log, minSaved, minCache, lastSave, cleaner, phase>>
      /\ up[n] = "up" /\ (up' = up \/ Stopped(n))
      /\ receiver' = receiver \/ Reject(m, n)
      /\ ckpt' = ckpt \/ \E k \in Nat : Load(n, k) /\ IsReceiverFinish(n, Head(net[m][n]))
  BY ListedOnce DEF OnSendCheckpoint_End, Handles, Arrives, cleanerVars
<1>2. \A k \in Node : ckpt'[k] = ckpt[k] \/ phase[k] # "none"
  <2>1. CASE ckpt' = ckpt
    BY <2>1
  <2>2. ASSUME NEW k \in Nat, Load(n, k), IsReceiverFinish(n, Head(net[m][n]))
        PROVE  \A j \in Node : ckpt'[j] = ckpt[j] \/ phase[j] # "none"
    <3>1. receiver[n].uuid # 0
      BY <2>2 DEF IsReceiverFinish
    <3>2. phase[n] # "none"
      BY <1>1, <3>1 DEF LogInv, ClearedFits
    <3>3. \A j \in Node \ {n} : ckpt'[j] = ckpt[j]
      BY <2>2 DEF Load, Types, LogTypes
    <3> QED
      BY <3>2, <3>3
  <2> QED
    BY <1>1, <2>1, <2>2
<1>3. \A k \in Node : receiver'[k].uuid \in {0, receiver[k].uuid}
  <2>1. receiver \in [Node -> [uuid : Nat, seq : Nat]]
    BY DEF Types, TransferTypes
  <2>2. receiver' = receiver \/ receiver' = [receiver EXCEPT ![n] = NoReceiver]
    BY <1>1 DEF Reject
  <2> QED
    BY <2>1, <2>2 DEF NoReceiver
<1>4. \A k \in Node : up'[k] = up[k] \/ up'[k] = "down"
  BY <1>1 DEF Stopped, Types, LogTypes, LogTypeOK
<1> QED
  BY <1>1, <1>2, <1>3, <1>4, LogQuiet

LEMMA LogInitially == Init => LogInv
<1> SUFFICES ASSUME Init, NEW n \in Node PROVE NodeLog(n)
  BY DEF LogInv, NodeLog
<1>1. Types
  BY TypesInit
<1>2. CPInstanceID(n) \in {0, StartAt[n]}
  BY InitialCheckpoints
<1>3. StartAt[n] \in Nat
  BY CleaningAssumption
<1>4. /\ up[n] = "up" /\ now[n] = StartAt[n] /\ log[n] = 0..(StartAt[n] - 1)
      /\ minSaved[n] = 0 /\ minCache[n] = 0 /\ lastSave[n] = 0
      /\ cleaner[n] = Idle /\ phase[n] = "none" /\ receiver[n] = NoReceiver
  BY DEF Init, LogInit
<1>5. MinimumsFit(n) /\ RecordsFit(n)
  BY <1>2, <1>3, <1>4, Numbers DEF MinimumsFit, RecordsFit
<1>6. CleanerFits(n) /\ ClearedFits(n)
  BY <1>4 DEF CleanerFits, ClearedFits, Clearing, Idle, NoReceiver
<1> QED
  BY <1>5, <1>6 DEF NodeLog, LogFits

-----------------------------------------------------------------------------
(* What befalls the checkpoints.                                           *)

NodeCheckpoint(n) ==
    /\ ~torn[n] => Whole(ckpt[n])
    /\ up[n] = "up" /\ (~torn[n] \/ phase[n] = "none") =>
          replayer[n].at = CPInstanceID(n)
    /\ replayer[n].pc = "playing" => replayer[n].at < now[n]
    /\ up[n] = "up" /\ missed[n] # {} => torn[n]

SameCheckpoint(k) ==
    /\ ckpt'[k] = ckpt[k] /\ replayer'[k] = replayer[k] /\ missed'[k] = missed[k]
    /\ torn'[k] = torn[k] /\ now[k] <= now'[k]
    /\ up'[k] = up[k] \/ up'[k] = "down"
    /\ phase'[k] = "none" => phase[k] = "none"

LEMMA CheckpointSame ==
  ASSUME Types, NEW k \in Node, NodeCheckpoint(k), SameCheckpoint(k),
         now'[k] \in Nat
  PROVE  NodeCheckpoint(k)'
<1>1. CPInstanceID(k)' = CPInstanceID(k)
  BY DEF SameCheckpoint, CPInstanceID
<1>2. replayer[k].at \in Nat /\ now[k] \in Nat
  BY Numbers DEF Types, LogTypes, LogTypeOK
<1> QED
  BY <1>1, <1>2 DEF NodeCheckpoint, SameCheckpoint

LEMMA CheckpointElsewhere ==
  ASSUME Types, Types', CheckpointInv, NEW n \in Node, NodeCheckpoint(n)',
         \A k \in Node \ {n} : SameCheckpoint(k)
  PROVE  CheckpointInv'
<1>1. ASSUME NEW k \in Node PROVE NodeCheckpoint(k)'
  <2>1. NodeCheckpoint(k) /\ now'[k] \in Nat
    BY DEF CheckpointInv, NodeCheckpoint, Types, LogTypes
  <2> QED
    BY <2>1, CheckpointSame
<1> QED
  BY <1>1 DEF CheckpointInv, NodeCheckpoint

(* The steps that change neither a checkpoint nor where the replayer is.   *)
LEMMA OtherCheckpoint ==
  ASSUME Types, Types', CheckpointInv, NEW n \in Node, NEW m \in Node,
         \/ Learn(n) \/ Clean(n) \/ User(n) \/ Fall(n) \/ SenderStep(n)
         \/ ExitCheckpointMode(n) \/ AskforCheckpoint(m, n)
         \/ OnAskforCheckpoint(m, n) \/ OnSendCheckpointAck(m, n)
         \/ IgnoreCheckpointMsg(m, n) \/ OnSendCheckpoint_Begin(m, n)
         \/ OnSendCheckpoint_Ing(m, n) \/ Lose(m, n)
  PROVE  CheckpointInv'
<1>1. /\ UNCHANGED <<ckpt, replayer, missed, torn>>
      /\ up' = up \/ Stopped(n)
      /\ now' = now \/ Learn(n)
      /\ UNCHANGED phase \/ Learn(n) \/ Clean(n) \/ OnSendCheckpoint_Begin(m, n)
  <2>1. CASE SenderStep(n)
    BY <2>1, SenderSteps
  <2>2. CASE Learn(n) \/ Clean(n)
    BY <2>2 DEF Learn, Chosen, LearnFrom, NewInstance, Clean, CleanerReads, DeleteOne,
           DeleteFails, replayVars
  <2>3. CASE ~SenderStep(n) /\ ~Learn(n) /\ ~Clean(n)
    BY <2>3 DEF User, UserPauses, UserContinues, Fall, Crash, ExitCheckpointMode,
           AskforCheckpoint, OnAskforCheckpoint, OnSendCheckpointAck,
           IgnoreCheckpointMsg, OnSendCheckpoint_Begin, OnSendCheckpoint_Ing, Lose,
           logVars, replayVars, history
  <2> QED
    BY <2>1, <2>2, <2>3
<1>2. \A k \in Node : phase'[k] = "none" => phase[k] = "none"
  BY <1>1 DEF Learn, Clean, OnSendCheckpoint_Begin, Types, HistoryTypes
<1>3. \A k \in Node : up'[k] = up[k] \/ up'[k] = "down"
  BY <1>1 DEF Stopped, Types, LogTypes, LogTypeOK
<1>4. \A k \in Node : now[k] <= now'[k]
  <2>1. now' = now \/ now' = [now EXCEPT ![n] = @ + 1]
    BY <1>1 DEF Learn, Chosen, LearnFrom, NewInstance
  <2>2. now \in [Node -> 0..MaxInstance]
    BY DEF Types, LogTypes
  <2> QED
    BY <2>1, <2>2, Numbers
<1>5. ASSUME NEW k \in Node PROVE NodeCheckpoint(k)'
  <2>1. NodeCheckpoint(k) /\ now'[k] \in Nat /\ SameCheckpoint(k)
    BY <1>1, <1>2, <1>3, <1>4
       DEF CheckpointInv, NodeCheckpoint, SameCheckpoint, Types, LogTypes
  <2> QED
    BY <2>1, CheckpointSame
<1> QED
  BY <1>5 DEF CheckpointInv, NodeCheckpoint

LEMMA ReplayCheckpoint ==
  ASSUME Types, Types', CheckpointInv, NEW n \in Node, Replay(n)
  PROVE  CheckpointInv'
<1> DEFINE i == replayer[n].at
<1>1. UNCHANGED <<up, now, missed, torn, phase>>
  BY DEF Replay, ReplayerTests, ReplayerPauses, PlayOne, history
<1>2. \A k \in Node \ {n} : SameCheckpoint(k)
  <2>1. \A k \in Node \ {n} : ckpt'[k] = ckpt[k] /\ replayer'[k] = replayer[k]
    BY DEF Replay, ReplayerTests, ReplayerPauses, PlayerAt, PlayOne,
           ExecuteForCheckpoint, Types, LogTypes, LogTypeOK
  <2>2. \A k \in Node : now[k] <= now[k]
    BY Numbers DEF Types, LogTypes
  <2> QED
    BY <1>1, <2>1, <2>2 DEF SameCheckpoint
<1>3. NodeCheckpoint(n)
  BY DEF CheckpointInv, NodeCheckpoint
<1>4. replayer[n] = [at |-> i, pc |-> replayer[n].pc] /\ i \in Nat /\ now[n] \in Nat
  BY Numbers DEF Types, LogTypes, LogTypeOK, MaxUInt64
<1>5. CASE /\ ckpt' = ckpt /\ replayer'[n].at = i
           /\ replayer'[n].pc = "playing" => i < now[n]
  <2>1. CPInstanceID(n)' = CPInstanceID(n)
    BY <1>5 DEF CPInstanceID
  <2>2. NodeCheckpoint(n)'
    BY <1>1, <1>3, <1>5, <2>1 DEF NodeCheckpoint
  <2> QED
    BY <1>2, <2>2, CheckpointElsewhere
<1>6. CASE /\ PlayOne(n) /\ ckpt' = ExecuteForCheckpoint(n, i)
           /\ replayer'[n] = [at |-> i + 1, pc |-> "top"]
  <2>1. i < now[n]
    BY <1>3, <1>6 DEF PlayOne, NodeCheckpoint
  <2>2. i \in 0..(MaxInstance - 1) /\ ckpt[n] \in [SM -> Past]
    BY <1>4, <2>1, Numbers DEF Types, LogTypes
  <2>3. ckpt'[n] = [ckpt[n] EXCEPT ![SMOf[i]] = @ \union {i}]
        /\ ckpt'[n] \in [SM -> Past]
    BY <1>6 DEF ExecuteForCheckpoint, Types, LogTypes
  <2>4. ASSUME i = CPInstanceID(n)
        PROVE  CPInstanceID(n)' = i + 1 /\ (Whole(ckpt[n]) => Whole(ckpt'[n]))
    BY <2>2, <2>3, <2>4, PlayedOne DEF CPInstanceID
  <2>5. ~torn[n] \/ phase[n] = "none" => i = CPInstanceID(n)
    BY <1>3, <1>6 DEF NodeCheckpoint, PlayOne
  <2> HIDE DEF i
  <2>6. NodeCheckpoint(n)'
    BY <1>1, <1>3, <1>6, <2>4, <2>5 DEF NodeCheckpoint
  <2> QED
    BY <1>2, <2>6, CheckpointElsewhere
<1> HIDE DEF i
<1>7. CASE ReplayerTests(n) \/ ReplayerPauses(n)
  <2>1. ckpt' = ckpt
    BY <1>7 DEF ReplayerTests, ReplayerPauses
  <2>2. \E pc \in {"playing", "pausing", "top"} :
            /\ replayer' = [replayer EXCEPT ![n].pc = pc]
            /\ pc = "playing" => i < now[n]
    BY <1>7 DEF ReplayerTests, ReplayerPauses, PlayerAt, i
  <2>3. replayer'[n].at = i /\ (replayer'[n].pc = "playing" => i < now[n])
    BY <2>2 DEF i, Types, LogTypes, LogTypeOK
  <2> QED
    BY <1>5, <2>1, <2>3
<1>8. CASE PlayOne(n)
  <2>1. CASE PlayerAt(n, "top") /\ UNCHANGED ckpt
    <3>1. replayer'[n].at = i /\ replayer'[n].pc = "top"
      BY <2>1 DEF PlayerAt, i, Types, LogTypes, LogTypeOK
    <3> QED
      BY <1>5, <2>1, <3>1
  <2>2. CASE ~(PlayerAt(n, "top") /\ UNCHANGED ckpt)
    <3>1. /\ ckpt' = ExecuteForCheckpoint(n, i)
          /\ replayer' = [replayer EXCEPT ![n] = [at |-> i + 1, pc |-> "top"]]
      BY <1>8, <2>2 DEF PlayOne, i
    <3>2. replayer'[n] = [at |-> i + 1, pc |-> "top"]
      BY <3>1 DEF Types, LogTypes, LogTypeOK
    <3> QED
      BY <1>6, <1>8, <3>1, <3>2
  <2> QED
    BY <2>1, <2>2
<1> QED
  BY <1>7, <1>8 DEF Replay

LEMMA RiseCheckpoint ==
  ASSUME Types, Types', CheckpointInv, NEW n \in Node, Rise(n)
  PROVE  CheckpointInv'
<1>1. ckpt' = ckpt /\ torn' = torn
      /\ \A k \in Node \ {n} :
            /\ replayer'[k] = replayer[k] /\ missed'[k] = missed[k]
            /\ now'[k] = now[k] /\ up'[k] = up[k] /\ phase'[k] = phase[k]
  <2>1. \A k \in Node \ {n} : phase'[k] = phase[k]
    BY DEF Rise, Types, HistoryTypes
  <2>2. \A k \in Node \ {n} :
            /\ replayer'[k] = replayer[k] /\ missed'[k] = missed[k]
            /\ now'[k] = now[k] /\ up'[k] = up[k]
    <3>1. /\ replayer \in [Node -> [at : 0..MaxUInt64,
                                pc : {"off", "top", "pausing", "playing"}]]
          /\ missed \in [Node -> SUBSET Instances] /\ now \in [Node -> 0..MaxInstance]
          /\ up \in [Node -> {"up", "down", "refused"}]
      BY DEF Types, LogTypes, LogTypeOK
    <3>2. CASE Restart(n)
      BY <3>1, <3>2 DEF Restart
    <3>3. CASE Refuse(n)
      BY <3>1, <3>3 DEF Refuse, replayVars
    <3> QED
      BY <3>2, <3>3 DEF Rise
  <2>3. ckpt' = ckpt /\ torn' = torn
    BY DEF Rise, Restart, Refuse
  <2> QED
    BY <2>1, <2>2, <2>3
<1>2. \A k \in Node \ {n} : SameCheckpoint(k)
  <2>1. \A k \in Node : now[k] <= now[k]
    BY Numbers DEF Types, LogTypes
  <2> QED
    BY <1>1, <2>1 DEF SameCheckpoint
<1>3. NodeCheckpoint(n) /\ CPInstanceID(n)' = CPInstanceID(n)
  BY <1>1 DEF CheckpointInv, NodeCheckpoint, CPInstanceID
<1>4. CASE Refuse(n)
  <2>1. up'[n] = "refused" /\ replayer'[n] = replayer[n] /\ now'[n] = now[n]
    BY <1>4 DEF Refuse, replayVars, Types, LogTypes, LogTypeOK
  <2>2. NodeCheckpoint(n)'
    BY <1>1, <1>3, <2>1 DEF NodeCheckpoint
  <2> QED
    BY <1>2, <2>2, CheckpointElsewhere
<1>5. CASE Restart(n)
  <2> DEFINE cp == CPInstanceID(n)
             start == Max({cp, LogMax(n)})
             executed == (UNION {ckpt[n][s] : s \in SM}) \union cp..(start - 1)
             pc == IF replayer[n].pc = "off" THEN "off" ELSE "top"
  <2>1. /\ replayer'[n] = [at |-> cp, pc |-> pc]
        /\ missed'[n] = 0..(start - 1) \ executed
    <3>1. /\ replayer' = [replayer EXCEPT ![n] = [at |-> cp, pc |-> pc]]
          /\ missed' = [missed EXCEPT ![n] = 0..(start - 1) \ executed]
      BY <1>5 DEF Restart
    <3> HIDE DEF cp, start, executed, pc
    <3> QED
      BY <3>1 DEF Types, LogTypes, LogTypeOK
  <2>2. ~torn[n] => missed'[n] = {}
    <3>1. ASSUME ~torn[n] PROVE Held(ckpt[n]) = 0..(cp - 1)
      BY <1>3, <3>1, WholeUpTo, InitGoesOn DEF NodeCheckpoint, Types, LogTypes
    <3>2. cp \in Nat /\ start \in Nat
      BY StartIs, InitGoesOn, Numbers DEF Types
    <3>3. ASSUME ~torn[n], NEW i \in 0..(start - 1) PROVE i \in executed
      <4> HIDE DEF cp, start
      <4>1. CASE i < cp
        <5>1. i \in Held(ckpt[n])
          BY <3>1, <3>2, <3>3, <4>1
        <5>2. PICK s \in SM : i \in ckpt[n][s]
          BY <5>1 DEF Held
        <5> QED
          BY <5>2
      <4>2. CASE ~(i < cp)
        BY <3>2, <3>3, <4>2
      <4> QED
        BY <4>1, <4>2
    <3> HIDE DEF cp, start, executed
    <3> QED
      BY <2>1, <3>3
  <2>3. replayer'[n].at = CPInstanceID(n)' /\ replayer'[n].pc # "playing"
        /\ torn'[n] = torn[n] /\ ckpt'[n] = ckpt[n]
    BY <1>1, <1>3, <2>1
  <2>4. NodeCheckpoint(n)'
    BY <1>3, <2>2, <2>3 DEF NodeCheckpoint
  <2> QED
    BY <1>2, <2>4, CheckpointElsewhere
<1> QED
  BY <1>4, <1>5 DEF Rise

(* The end of a transfer, when what it brings is whole unless it says that *)
(* it is torn.                                                             *)
LEMMA EndCheckpoint ==
  ASSUME Types, Types', LogInv, CheckpointInv, NEW m \in Node, NEW n \in Node,
         OnSendCheckpoint_End(m, n), Head(net[m][n]).uuid # 0,
         ( /\ IsReceiverFinish(n, Head(net[m][n])) /\ Load(n, Len(SMList))
           /\ ~Head(net[m][n]).torn /\ ~KeepsOwn(n) ) => Whole(ckpt'[n])
  PROVE  CheckpointInv'
<1> DEFINE msg == Head(net[m][n])
<1>1. /\ UNCHANGED <<now, missed, replayer, phase>>
      /\ up' = up \/ Stopped(n)
  BY DEF OnSendCheckpoint_End, replayVars
<1>2. \A k \in Node \ {n} : SameCheckpoint(k)
  <2>1. \A k \in Node \ {n} : ckpt'[k] = ckpt[k] /\ torn'[k] = torn[k]
    <3>1. /\ ckpt' = ckpt \/ \E i \in Nat : Load(n, i)
          /\ \A k \in Node \ {n} : torn'[k] = torn[k]
      BY ListedOnce DEF OnSendCheckpoint_End, Types, HistoryTypes
    <3>2. ASSUME NEW i \in Nat, Load(n, i)
          PROVE  \A k \in Node \ {n} : ckpt'[k] = ckpt[k]
      BY <3>2 DEF Load, Types, LogTypes
    <3> QED
      BY <3>1, <3>2
  <2>2. \A k \in Node \ {n} : up'[k] = up[k]
    BY <1>1 DEF Stopped, Types, LogTypes, LogTypeOK
  <2>3. \A k \in Node : now[k] <= now[k]
    BY Numbers DEF Types, LogTypes
  <2> QED
    BY <1>1, <2>1, <2>2, <2>3 DEF SameCheckpoint
<1>3. NodeCheckpoint(n)
  BY DEF CheckpointInv, NodeCheckpoint
<1>4. up'[n] = up[n] \/ up'[n] = "down"
  BY <1>1 DEF Stopped, Types, LogTypes, LogTypeOK
<1>5. CASE ckpt'[n] = ckpt[n] /\ torn'[n] = torn[n]
  <2>1. SameCheckpoint(n)
    BY <1>1, <1>4, <1>5, Numbers DEF SameCheckpoint, Types, LogTypes
  <2>2. now'[n] \in Nat
    BY <1>1, Numbers DEF Types, LogTypes
  <2> QED
    BY <1>2, <1>3, <2>1, <2>2, CheckpointSame, CheckpointElsewhere
<1>6. CASE IsReceiverFinish(n, msg) /\ up[n] = "up" /\ torn'[n]
  <2>1. phase[n] # "none"
    BY <1>6 DEF IsReceiverFinish, LogInv, ClearedFits
  <2>2. NodeCheckpoint(n)'
    BY <1>1, <1>3, <1>6, <2>1 DEF NodeCheckpoint
  <2> QED
    BY <1>2, <2>2, CheckpointElsewhere
<1>7. CASE /\ IsReceiverFinish(n, msg) /\ Load(n, Len(SMList)) /\ Stopped(n)
           /\ torn'[n] = (msg.torn \/ KeepsOwn(n))
  <2>1. up'[n] = "down"
    BY <1>7 DEF Stopped, Types, LogTypes, LogTypeOK
  <2>2. ~torn'[n] => Whole(ckpt'[n])
    BY <1>7
  <2>3. NodeCheckpoint(n)'
    BY <1>1, <1>3, <2>1, <2>2 DEF NodeCheckpoint
  <2> QED
    BY <1>2, <2>3, CheckpointElsewhere
<1>8. up[n] = "up" /\ torn \in [Node -> BOOLEAN]
  BY DEF OnSendCheckpoint_End, Handles, Arrives, Types, HistoryTypes
<1>9. \/ UNCHANGED <<ckpt, torn>>
      \/ /\ IsReceiverFinish(n, msg) /\ Load(n, Len(SMList)) /\ Stopped(n)
         /\ torn' = [torn EXCEPT ![n] = msg.torn \/ KeepsOwn(n)]
      \/ /\ IsReceiverFinish(n, msg)
         /\ torn' = [torn EXCEPT ![n] = @ \/ ckpt'[n] # ckpt[n]]
  BY DEF OnSendCheckpoint_End
<1> HIDE DEF msg
<1>10. CASE UNCHANGED <<ckpt, torn>>
  BY <1>5, <1>10
<1>11. CASE /\ IsReceiverFinish(n, msg) /\ Load(n, Len(SMList)) /\ Stopped(n)
            /\ torn' = [torn EXCEPT ![n] = msg.torn \/ KeepsOwn(n)]
  BY <1>7, <1>8, <1>11
<1>12. CASE /\ IsReceiverFinish(n, msg)
            /\ torn' = [torn EXCEPT ![n] = @ \/ ckpt'[n] # ckpt[n]]
  <2>1. torn'[n] = (torn[n] \/ ckpt'[n] # ckpt[n])
    BY <1>8, <1>12
  <2> QED
    BY <1>5, <1>6, <1>8, <1>12, <2>1
<1> QED
  BY <1>9, <1>10, <1>11, <1>12

LEMMA CheckpointInitially == Init => CheckpointInv
<1> SUFFICES ASSUME Init, NEW n \in Node PROVE NodeCheckpoint(n)
  BY DEF CheckpointInv, NodeCheckpoint
<1>1. StartAt[n] \in Nat
  BY CleaningAssumption
<1>2. replayer[n].at = CPInstanceID(n) /\ replayer[n].pc \in {"off", "top"}
  BY InitialCheckpoints
<1>3. Whole(ckpt[n])
  BY <1>1, InitialCheckpoints DEF Whole
<1> QED
  BY <1>2, <1>3 DEF NodeCheckpoint, Init, LogInit

-----------------------------------------------------------------------------
(* What befalls the replayer's two flags.                                  *)

Locked == {"locking", "begin", "blocks", "finishing"}

NodePaused(n) ==
    up[n] # "refused" /\ ~raced[n] =>
        /\ replayer[n].pc = "pausing" => ~canRun[n]
        /\ isPaused[n] => ~canRun[n] /\ replayer[n].pc # "playing"
        /\ sender[n].pc \in Locked => isPaused[n]

SamePaused(k) ==
    /\ up'[k] # "refused" => up[k] # "refused"
    /\ raced[k] => raced'[k]
    /\ replayer'[k] = replayer[k] /\ canRun'[k] = canRun[k]
    /\ isPaused'[k] = isPaused[k]
    /\ sender'[k].pc \in Locked => sender[k].pc \in Locked \/ isPaused[k]

LEMMA PausedSame ==
  ASSUME NEW k \in Node, NodePaused(k), SamePaused(k)
  PROVE  NodePaused(k)'
BY DEF NodePaused, SamePaused

LEMMA PausedElsewhere ==
  ASSUME PausedInv, NEW n \in Node, NodePaused(n)',
         \A k \in Node \ {n} : SamePaused(k)
  PROVE  PausedInv'
<1>1. ASSUME NEW k \in Node PROVE NodePaused(k)'
  <2>1. NodePaused(k)
    BY DEF PausedInv, NodePaused, Locked
  <2> QED
    BY <2>1, PausedSame
<1> QED
  BY <1>1 DEF PausedInv, NodePaused, Locked

(* The steps that change neither flag nor what the replayer is about.      *)
LEMMA OtherPaused ==
  ASSUME Types, PausedInv, NEW n \in Node, NEW m \in Node,
         \/ Learn(n) \/ Clean(n) \/ Fall(n) \/ ExitCheckpointMode(n)
         \/ AskforCheckpoint(m, n) \/ OnAskforCheckpoint(m, n)
         \/ OnSendCheckpointAck(m, n) \/ IgnoreCheckpointMsg(m, n)
         \/ OnSendCheckpoint_Begin(m, n) \/ OnSendCheckpoint_Ing(m, n)
         \/ OnSendCheckpoint_End(m, n) \/ Lose(m, n)
  PROVE  PausedInv'
<1>1. /\ UNCHANGED replayVars
      /\ up' = up \/ Stopped(n)
      /\ raced' = raced \/ raced' = [raced EXCEPT ![n] = @ \/ ~Ended(n)]
      /\ UNCHANGED sender \/ OnAskforCheckpoint(m, n) \/ OnSendCheckpointAck(m, n)
  <2>1. CASE Learn(n) \/ Clean(n) \/ Fall(n) \/ ExitCheckpointMode(n)
    BY <2>1 DEF Learn, Chosen, LearnFrom, NewInstance, Clean, CleanerReads, DeleteOne,
           DeleteFails, Fall, Crash, ExitCheckpointMode, logVars, replayVars,
           transferVars, history
  <2>2. CASE ~(Learn(n) \/ Clean(n) \/ Fall(n) \/ ExitCheckpointMode(n))
    BY <2>2 DEF AskforCheckpoint, OnAskforCheckpoint, OnSendCheckpointAck,
           IgnoreCheckpointMsg, OnSendCheckpoint_Begin, OnSendCheckpoint_Ing,
           OnSendCheckpoint_End, Lose, logVars, replayVars, history
  <2> QED
    BY <2>1, <2>2
<1>2. /\ sender \in [Node -> SenderRecord] /\ up \in [Node -> {"up", "down", "refused"}]
      /\ raced \in [Node -> BOOLEAN]
  BY DEF Types, LogTypes, LogTypeOK, TransferTypes, HistoryTypes
<1>3. \A k \in Node : sender'[k].pc \in Locked => sender[k].pc \in Locked
  <2>1. CASE OnAskforCheckpoint(m, n)
    <3>1. \/ sender' = sender
          \/ sender' = [sender EXCEPT ![n] = [NoSender EXCEPT
                    !.pc = "pausing", !.to = m, !.uuid = sessions + 1]]
      BY <2>1 DEF OnAskforCheckpoint
    <3>2. [NoSender EXCEPT !.pc = "pausing", !.to = m,
                           !.uuid = sessions + 1].pc = "pausing"
      BY NoSenderFits DEF SenderRecord
    <3> QED
      BY <1>2, <3>1, <3>2 DEF Locked
  <2>2. CASE OnSendCheckpointAck(m, n)
    <3> DEFINE ack == Head(net[m][n])
               new == IF Ended(n) THEN sender[n]
                      ELSE IF ack.ok THEN Acked(sender[n], m, ack)
                                     ELSE [sender[n] EXCEPT !.end = TRUE]
    <3>1. sender' = [sender EXCEPT ![n] = new]
      BY <2>2 DEF OnSendCheckpointAck
    <3>2. new.pc = sender[n].pc
      BY <1>2 DEF Acked, SenderRecord
    <3> HIDE DEF new
    <3> QED
      BY <1>2, <3>1, <3>2
  <2> QED
    BY <1>1, <2>1, <2>2
<1>4. \A k \in Node : up'[k] # "refused" => up[k] # "refused"
  <2>1. up' = up \/ (Stopped(n) /\ up[n] = "up")
    BY <1>1 DEF OnSendCheckpoint_End, Handles, Arrives, Fall, Crash, Learn, Chosen,
       LearnFrom, NewInstance, Clean, CleanerReads, DeleteOne, DeleteFails,
       ExitCheckpointMode, AskforCheckpoint, OnAskforCheckpoint, OnSendCheckpointAck,
       IgnoreCheckpointMsg, OnSendCheckpoint_Begin, OnSendCheckpoint_Ing, Lose, logVars
  <2> QED
    BY <1>2, <2>1 DEF Stopped
<1>5. \A k \in Node : raced[k] => raced'[k]
  BY <1>1, <1>2
<1>6. ASSUME NEW k \in Node PROVE NodePaused(k)'
  <2>1. SamePaused(k)
    BY <1>1, <1>3, <1>4, <1>5 DEF SamePaused, replayVars
  <2>2. NodePaused(k)
    BY DEF PausedInv, NodePaused, Locked
  <2> QED
    BY <2>1, <2>2, PausedSame
<1> QED
  BY <1>6 DEF PausedInv, NodePaused, Locked

LEMMA ReplayPaused ==
  ASSUME Types, PausedInv, NEW n \in Node, Replay(n)
  PROVE  PausedInv'
<1>1. UNCHANGED <<up, raced, sender, canRun>> /\ up[n] = "up"
  BY DEF Replay, ReplayerTests, ReplayerPauses, PlayOne, transferVars, history
<1>2. \A k \in Node \ {n} : SamePaused(k)
  <2>1. \A k \in Node \ {n} : replayer'[k] = replayer[k] /\ isPaused'[k] = isPaused[k]
    BY DEF Replay, ReplayerTests, ReplayerPauses, PlayOne, PlayerAt, Types, LogTypes,
           LogTypeOK
  <2> QED
    BY <1>1, <2>1 DEF SamePaused
<1>3. NodePaused(n)
  BY DEF PausedInv, NodePaused, Locked
<1>4. \/ /\ replayer[n].pc = "pausing" /\ replayer'[n].pc = "top" /\ isPaused'[n]
      \/ /\ replayer'[n].pc = (IF canRun[n] THEN "playing" ELSE "pausing")
         /\ isPaused'[n] = isPaused[n]
      \/ /\ replayer'[n].pc = "top" /\ isPaused'[n] = isPaused[n]
  BY DEF Replay, ReplayerTests, ReplayerPauses, PlayOne, PlayerAt, Types, LogTypes,
         LogTypeOK
<1>5. NodePaused(n)'
  BY <1>1, <1>3, <1>4 DEF NodePaused
<1> QED
  BY <1>2, <1>5, PausedElsewhere

LEMMA UserPaused ==
  ASSUME Types, PausedInv, NEW n \in Node, User(n)
  PROVE  PausedInv'
<1>1. UNCHANGED <<up, sender, replayer>>
  BY DEF User, UserPauses, UserContinues, transferVars
<1>2. \A k \in Node \ {n} : SamePaused(k)
  <2>1. \A k \in Node \ {n} : /\ canRun'[k] = canRun[k] /\ isPaused'[k] = isPaused[k]
                              /\ raced'[k] = raced[k]
    BY DEF User, UserPauses, UserContinues, Pause, Continue, Types, LogTypes,
           LogTypeOK, HistoryTypes
  <2> QED
    BY <1>1, <2>1 DEF SamePaused
<1>3. NodePaused(n)
  BY DEF PausedInv, NodePaused, Locked
<1>4. raced'[n] = (raced[n] \/ (canRun'[n] /\ (replayer[n].pc = "pausing" \/ ~Ended(n))))
  BY DEF User, Types, HistoryTypes
<1>7. \/ ~canRun'[n] /\ isPaused'[n] = isPaused[n]
      \/ canRun'[n] /\ ~isPaused'[n]
  BY DEF User, UserPauses, UserContinues, Pause, Continue, Types, LogTypes, LogTypeOK
<1>5. sender[n].pc \in Locked => ~Ended(n)
  BY DEF Locked, Ended
<1>6. NodePaused(n)'
  BY <1>1, <1>3, <1>4, <1>5, <1>7 DEF NodePaused
<1> QED
  BY <1>2, <1>6, PausedElsewhere

LEMMA RisePaused ==
  ASSUME Types, PausedInv, NEW n \in Node, Rise(n)
  PROVE  PausedInv'
<1>1. \A k \in Node \ {n} : SamePaused(k)
  <2>1. \A k \in Node \ {n} : sender'[k] = sender[k] /\ raced'[k] = raced[k]
    BY DEF Rise, Types, TransferTypes, HistoryTypes
  <2>2. \A k \in Node \ {n} :
            /\ up'[k] = up[k] /\ replayer'[k] = replayer[k]
            /\ canRun'[k] = canRun[k] /\ isPaused'[k] = isPaused[k]
    BY DEF Rise, Restart, Refuse, replayVars, Types, LogTypes, LogTypeOK
  <2> QED
    BY <2>1, <2>2 DEF SamePaused
<1>2. CASE Refuse(n)
  <2>1. up'[n] = "refused"
    BY <1>2 DEF Refuse, Types, LogTypes, LogTypeOK
  <2> QED
    BY <1>1, <2>1, PausedElsewhere DEF NodePaused
<1>3. CASE Restart(n)
  <2>1. ~canRun'[n] /\ isPaused'[n] /\ replayer'[n].pc \in {"off", "top"}
    BY <1>3 DEF Restart, Types, LogTypes, LogTypeOK
  <2> QED
    BY <1>1, <2>1, PausedElsewhere DEF NodePaused
<1> QED
  BY <1>2, <1>3 DEF Rise

LEMMA SenderPaused ==
  ASSUME Types, PausedInv, NEW n \in Node, SenderStep(n)
  PROVE  PausedInv'
<1>1. UNCHANGED <<up, replayer>> /\ up[n] = "up"
  BY SenderSteps DEF SenderStep, WaitReplayer, LockCheckpoint, SendCheckpointBegin,
     SendBuffer, SendFails, WakesUp, AtBlock, GiveUp, SendCheckpointEnd, Finish
<1>2. NodePaused(n)
  BY DEF PausedInv, NodePaused, Locked
<1>3. /\ sender \in [Node -> SenderRecord] /\ canRun \in [Node -> BOOLEAN]
      /\ isPaused \in [Node -> BOOLEAN] /\ raced \in [Node -> BOOLEAN]
  BY DEF Types, LogTypes, LogTypeOK, TransferTypes, HistoryTypes
<1>4. \A k \in Node \ {n} : SamePaused(k)
  <2>1. \A k \in Node \ {n} : sender'[k] = sender[k]
    BY <1>3 DEF SenderStep, WaitReplayer, LockCheckpoint, SendCheckpointBegin,
       SendBuffer, SendFails, WakesUp, GiveUp, SendCheckpointEnd, Finish, SenderAt
  <2>2. \A k \in Node \ {n} :
            /\ canRun'[k] = canRun[k] /\ isPaused'[k] = isPaused[k]
            /\ raced'[k] = raced[k]
    BY <1>3 DEF SenderStep, WaitReplayer, LockCheckpoint, SendCheckpointBegin,
       SendBuffer, SendFails, WakesUp, GiveUp, SendCheckpointEnd, Finish, Pause,
       Continue, logVars, replayVars, history
  <2> QED
    BY <1>1, <2>1, <2>2 DEF SamePaused
<1>5. CASE WaitReplayer(n)
  <2>1. /\ isPaused'[n] = isPaused[n] /\ raced'[n] = raced[n]
        /\ canRun'[n] = canRun[n] \/ ~canRun'[n]
    BY <1>3, <1>5 DEF WaitReplayer, Pause, history
  <2>2. sender'[n].pc \in Locked => sender[n].pc \in Locked \/ isPaused[n]
    BY <1>3, <1>5 DEF WaitReplayer, SenderAt, Locked, SenderRecord
  <2>3. NodePaused(n)'
    BY <1>1, <1>2, <2>1, <2>2 DEF NodePaused
  <2> QED
    BY <1>4, <2>3, PausedElsewhere
<1>6. CASE Finish(n)
  <2>1. sender'[n].pc \notin Locked
    BY <1>3, <1>6 DEF Finish, SenderAt, Locked, SenderRecord
  <2>2. \/ /\ canRun'[n] = canRun[n] /\ isPaused'[n] = isPaused[n]
           /\ raced'[n] = raced[n]
        \/ /\ canRun'[n] /\ ~isPaused'[n]
           /\ raced'[n] = (raced[n] \/ replayer[n].pc = "pausing")
    BY <1>3, <1>6 DEF Finish, Continue
  <2>3. NodePaused(n)'
    BY <1>1, <1>2, <2>1, <2>2 DEF NodePaused
  <2> QED
    BY <1>4, <2>3, PausedElsewhere
<1>7. CASE \/ LockCheckpoint(n) \/ SendCheckpointBegin(n) \/ SendBuffer(n)
           \/ GiveUp(n) \/ SendCheckpointEnd(n)
  <2>1. UNCHANGED <<canRun, isPaused, raced>>
    BY <1>7 DEF LockCheckpoint, SendCheckpointBegin, SendBuffer, GiveUp,
       SendCheckpointEnd, logVars, replayVars, history
  <2>2. sender[n].pc \in Locked
    BY <1>7 DEF LockCheckpoint, SendCheckpointBegin, SendBuffer, AtBlock, GiveUp,
       SendCheckpointEnd, Locked
  <2>3. SamePaused(n)
    BY <1>1, <2>1, <2>2 DEF SamePaused
  <2> QED
    BY <1>2, <1>4, <2>3, PausedSame, PausedElsewhere
<1>8. CASE SendFails(n) \/ WakesUp(n)
  <2>1. UNCHANGED <<canRun, isPaused, raced>>
    BY <1>8 DEF SendFails, WakesUp, logVars, replayVars, history
  <2>2. sender'[n].pc = sender[n].pc
    BY <1>3, <1>8 DEF SendFails, WakesUp, SenderRecord
  <2>3. SamePaused(n)
    BY <1>1, <2>1, <2>2 DEF SamePaused
  <2> QED
    BY <1>2, <1>4, <2>3, PausedSame, PausedElsewhere
<1> QED
  BY <1>5, <1>6, <1>7, <1>8 DEF SenderStep

LEMMA PausedInitially == Init => PausedInv
<1> SUFFICES ASSUME Init, NEW n \in Node PROVE NodePaused(n)
  BY DEF PausedInv, NodePaused, Locked
<1>1. replayer[n].pc \in {"off", "top"} /\ isPaused[n] = ~canRun[n]
      /\ sender[n].pc = "none"
  BY NoSenderFits DEF Init, LogInit
<1> QED
  BY <1>1 DEF NodePaused, Locked

(* A checkpoint that a sender reads does not change.                       *)
LEMMA Frozen ==
  ASSUME Types, PausedInv, [Next]_vars, NEW n \in Node, Sending(n), ~raced'[n]
  PROVE  ckpt'[n] = ckpt[n]
<1>1. CASE UNCHANGED vars
  BY <1>1 DEF vars, logVars
<1>2. ASSUME NEW k \in Node, Replay(k) PROVE ckpt'[n] = ckpt[n]
  <2>1. CASE k # n
    BY <1>2, <2>1 DEF Replay, ReplayerTests, ReplayerPauses, PlayOne,
       ExecuteForCheckpoint, Types, LogTypes
  <2>2. CASE k = n
    <3>1. up[n] = "up" /\ raced'[n] = raced[n]
      BY <1>2, <2>2 DEF Replay, ReplayerTests, ReplayerPauses, PlayOne, history
    <3>2. replayer[n].pc # "playing"
      BY <3>1 DEF PausedInv, Sending
    <3> QED
      BY <1>2, <2>2, <3>2 DEF Replay, ReplayerTests, ReplayerPauses, PlayOne
  <2> QED
    BY <2>1, <2>2
<1>3. ASSUME NEW m \in Node, NEW k \in Node, OnSendCheckpoint_End(m, k)
      PROVE  ckpt'[n] = ckpt[n]
  <2>1. CASE k # n
    BY <1>3, <2>1 DEF OnSendCheckpoint_End, Load, Types, LogTypes
  <2>2. CASE k = n
    <3>1. ~Ended(n)
      BY DEF Sending, Ended
    <3>2. UNCHANGED ckpt \/ raced' = [raced EXCEPT ![n] = @ \/ ~Ended(n)]
      BY <1>3, <2>2 DEF OnSendCheckpoint_End
    <3> QED
      BY <3>1, <3>2 DEF Types, HistoryTypes
  <2> QED
    BY <2>1, <2>2
<1>4. ASSUME NEW k \in Node,
             \/ Learn(k) \/ Clean(k) \/ User(k) \/ Fall(k) \/ Rise(k)
             \/ SenderStep(k) \/ ExitCheckpointMode(k)
      PROVE  ckpt' = ckpt
  <2>1. CASE SenderStep(k)
    BY <2>1, SenderSteps
  <2>2. CASE ~SenderStep(k)
    BY <1>4, <2>2 DEF Learn, Chosen, LearnFrom, NewInstance, Clean, CleanerReads,
       DeleteOne, DeleteFails, User, UserPauses, UserContinues, Fall, Crash, Rise,
       Restart, Refuse, ExitCheckpointMode, logVars
  <2> QED
    BY <2>1, <2>2
<1>5. ASSUME NEW m \in Node, NEW k \in Node,
             \/ AskforCheckpoint(m, k) \/ OnAskforCheckpoint(m, k)
             \/ OnSendCheckpointAck(m, k) \/ IgnoreCheckpointMsg(m, k)
             \/ OnSendCheckpoint_Begin(m, k) \/ OnSendCheckpoint_Ing(m, k)
             \/ Lose(m, k)
      PROVE  ckpt' = ckpt
  BY <1>5 DEF AskforCheckpoint, OnAskforCheckpoint, OnSendCheckpointAck,
     IgnoreCheckpointMsg, OnSendCheckpoint_Begin, OnSendCheckpoint_Ing, Lose, logVars
<1> QED
  BY <1>1, <1>2, <1>3, <1>4, <1>5 DEF Next, Deliver

-----------------------------------------------------------------------------
(* The transfers that have begun: what the state machines of the sender    *)
(* held then, the blocks it has sent, whether one of them may hold         *)
(* something else, and whether it has sent the end.                        *)
Session == [held : [SM -> Past], sent : Seq(Block), bad : BOOLEAN, done : BOOLEAN]

Sent(a, b) == \E i \in 1..Len(a.sent) : a.sent[i] = b

(* Blocks go out in their order, none is left out, and what is whole is    *)
(* what one node held.                                                     *)
SessionOK(a) ==
    /\ \A i \in 1..Len(a.sent) : a.sent[i] \in BlocksHeld(a.held)
    /\ \A i, j \in 1..Len(a.sent) : i < j => Before(a.sent[i], a.sent[j])
    /\ \A b \in BlocksHeld(a.held), i \in 1..Len(a.sent) :
          Sent(a, b) \/ Before(a.sent[i], b)
    /\ a.done => \A b \in BlocksHeld(a.held) : Sent(a, b)
    /\ ~a.bad => Whole(a.held)

(* A message is of a transfer that has begun, and true of it.              *)
Told(U, of) == {msg \in Message :
    /\ msg.flag = "BEGIN" => msg.uuid \in U
    /\ msg.flag = "ING" =>
          /\ msg.uuid \in U
          /\ msg.seq \in 1..Len(of[msg.uuid].sent)
          /\ msg.block = of[msg.uuid].sent[msg.seq]
          /\ of[msg.uuid].bad \/ msg.data = of[msg.uuid].held[msg.block.sm]
    /\ msg.flag = "END" =>
          /\ msg.uuid \in U
          /\ of[msg.uuid].done
          /\ msg.seq = Len(of[msg.uuid].sent) + 1
          /\ of[msg.uuid].bad => msg.torn}

SenderFits(n, U, of) ==
    /\ sender[n].pc \in {"pausing", "locking", "begin"} =>
          sender[n].uuid \in Nat \ (U \union {0})
    /\ sender[n].pc = "blocks" =>
          LET a == of[sender[n].uuid]
          IN  /\ sender[n].uuid \in U
              /\ ~a.done
              /\ sender[n].seq = Len(a.sent) + 1
              /\ sender[n].left = {b \in BlocksHeld(a.held) : ~Sent(a, b)}
              /\ torn[n] \/ raced[n] \/ (~a.bad /\ ckpt[n] = a.held)

(* The files are made of the first q blocks of the transfer u.             *)
InFiles(a, q, u, files) ==
    /\ \A i \in 1..q : a.sent[i].off \in 1..Len(files[a.sent[i].sm])
    /\ \A s \in SM : \A k \in 1..Len(files[s]) :
          /\ \E i \in 1..q : a.sent[i].sm = s /\ a.sent[i].off = k
          /\ files[s][k].uuid = u /\ files[s][k].off = k
          /\ a.bad \/ files[s][k].data = a.held[s]

(* The receiver has the first blocks of a transfer.                        *)
ReceiverFits(n, U, of) ==
    LET u == receiver[n].uuid
    IN  u # 0 => /\ u \in U /\ receiver[n].seq <= Len(of[u].sent)
                 /\ InFiles(of[u], receiver[n].seq, u, tmp[n])

(* A sender has a number of its own.                                       *)
Numbered(U) ==
    /\ U \subseteq 1..sessions
    /\ \A n \in Node : /\ sender[n].uuid <= sessions
                       /\ sender[n].seq <= Cardinality(Block) + 1
                       /\ receiver[n].uuid = 0 => receiver[n].seq = 0
    /\ \A m, n \in Node : sender[n].uuid # 0 /\ sender[m].uuid = sender[n].uuid => m = n

SessionsFit(U, of) ==
    /\ of \in [U -> Session] /\ \A u \in U : SessionOK(of[u])
    /\ Carries(Told(U, of))
    /\ \A n \in Node : SenderFits(n, U, of) /\ ReceiverFits(n, U, of)
    /\ Numbered(U)

SessionInv == \E U \in SUBSET Nat : \E of \in [U -> Session] : SessionsFit(U, of)

(* A session goes on: more is sent, or less of it is sure.                 *)
GoesOn(a, b) ==
    /\ b.held = a.held /\ (a.bad => b.bad) /\ (a.done => b = a)
    /\ Len(a.sent) <= Len(b.sent)
    /\ \A i \in 1..Len(a.sent) : b.sent[i] = a.sent[i]

LEMMA SessionFields ==
  ASSUME NEW a \in Session
  PROVE  /\ a.held \in [SM -> Past] /\ a.sent \in Seq(Block)
         /\ a.bad \in BOOLEAN /\ a.done \in BOOLEAN
         /\ Len(a.sent) \in Nat
         /\ \A i \in 1..Len(a.sent) : a.sent[i] \in Block
<1>1. a.sent \in Seq(Block)
  BY DEF Session
<1> QED
  BY <1>1 DEF Session

LEMMA CarriesMore ==
  ASSUME NEW S, NEW T, S \subseteq T, Carries(S)
  PROVE  Carries(T)
<1>1. ASSUME NEW q \in Seq(S) PROVE q \in Seq(T)
  <2>1. Len(q) \in Nat /\ q \in [1..Len(q) -> S]
    BY <1>1
  <2>2. q \in [1..Len(q) -> T]
    BY <2>1
  <2> QED
    BY <2>1, <2>2
<1> QED
  BY <1>1 DEF Carries

LEMMA ToldGrows ==
  ASSUME NEW U, NEW V, U \subseteq V, NEW of \in [U -> Session],
         NEW to \in [V -> Session], \A u \in U : GoesOn(of[u], to[u])
  PROVE  Told(U, of) \subseteq Told(V, to)
<1> SUFFICES ASSUME NEW msg \in Told(U, of) PROVE msg \in Told(V, to)
  OBVIOUS
<1>1. msg \in Message
  BY DEF Told
<1>2. msg.flag = "BEGIN" => msg.uuid \in V
  BY DEF Told
<1>3. ASSUME msg.flag = "ING"
      PROVE  /\ msg.uuid \in V
             /\ msg.seq \in 1..Len(to[msg.uuid].sent)
             /\ msg.block = to[msg.uuid].sent[msg.seq]
             /\ to[msg.uuid].bad \/ msg.data = to[msg.uuid].held[msg.block.sm]
  <2>1. msg.uuid \in U /\ GoesOn(of[msg.uuid], to[msg.uuid])
        /\ of[msg.uuid] \in Session /\ to[msg.uuid] \in Session
    BY <1>3 DEF Told
  <2>2. Len(of[msg.uuid].sent) \in Nat /\ Len(to[msg.uuid].sent) \in Nat
    BY <2>1, SessionFields
  <2>3. /\ msg.seq \in 1..Len(of[msg.uuid].sent)
        /\ msg.block = of[msg.uuid].sent[msg.seq]
        /\ of[msg.uuid].bad \/ msg.data = of[msg.uuid].held[msg.block.sm]
    BY <1>3 DEF Told
  <2> QED
    BY <2>1, <2>2, <2>3 DEF GoesOn
<1>4. ASSUME msg.flag = "END"
      PROVE  /\ msg.uuid \in V
             /\ to[msg.uuid].done
             /\ msg.seq = Len(to[msg.uuid].sent) + 1
             /\ to[msg.uuid].bad => msg.torn
  BY <1>4 DEF Told, GoesOn
<1> QED
  BY <1>1, <1>2, <1>3, <1>4 DEF Told

LEMMA ReceiverGrows ==
  ASSUME NEW U, NEW V, U \subseteq V, NEW of \in [U -> Session],
         NEW to \in [V -> Session], \A u \in U : GoesOn(of[u], to[u]),
         NEW n \in Node, Types, ReceiverFits(n, U, of)
  PROVE  ReceiverFits(n, V, to)
<1> SUFFICES ASSUME receiver[n].uuid # 0 PROVE ReceiverFits(n, V, to)
  BY DEF ReceiverFits
<1> DEFINE u == receiver[n].uuid
           r == receiver[n]
<1>1. u \in U /\ u \in V /\ GoesOn(of[u], to[u]) /\ of[u] \in Session /\ to[u] \in Session
  BY DEF ReceiverFits
<1>2. Len(of[u].sent) \in Nat /\ Len(to[u].sent) \in Nat /\ r.seq \in Nat
      /\ r.seq <= Len(of[u].sent)
  BY <1>1, SessionFields DEF ReceiverFits, Types, TransferTypes
<1>3. \A i \in 1..r.seq : to[u].sent[i] = of[u].sent[i]
  BY <1>1, <1>2 DEF GoesOn
<1>4. r.seq <= Len(to[u].sent)
  BY <1>1, <1>2 DEF GoesOn
<1>5. InFiles(of[u], r.seq, u, tmp[n])
  BY DEF ReceiverFits
<1>6. InFiles(to[u], r.seq, u, tmp[n])
  <2>1. \A i \in 1..r.seq : to[u].sent[i].off \in 1..Len(tmp[n][to[u].sent[i].sm])
    BY <1>3, <1>5 DEF InFiles
  <2>2. ASSUME NEW s \in SM, NEW k \in 1..Len(tmp[n][s])
        PROVE  /\ \E i \in 1..r.seq : to[u].sent[i].sm = s /\ to[u].sent[i].off = k
               /\ tmp[n][s][k].uuid = u /\ tmp[n][s][k].off = k
               /\ to[u].bad \/ tmp[n][s][k].data = to[u].held[s]
    <3>1. PICK i \in 1..r.seq : of[u].sent[i].sm = s /\ of[u].sent[i].off = k
      BY <1>5 DEF InFiles
    <3>2. /\ tmp[n][s][k].uuid = u /\ tmp[n][s][k].off = k
          /\ of[u].bad \/ tmp[n][s][k].data = of[u].held[s]
      BY <1>5 DEF InFiles
    <3>3. to[u].held = of[u].held /\ (of[u].bad => to[u].bad)
      BY <1>1 DEF GoesOn
    <3> QED
      BY <1>3, <3>1, <3>2, <3>3
  <2> QED
    BY <2>1, <2>2 DEF InFiles
<1> HIDE DEF u, r
<1> QED
  BY <1>1, <1>4, <1>6 DEF ReceiverFits, u, r

LEMMA StaysSame ==
  ASSUME NEW U, NEW of \in [U -> Session]
  PROVE  \A u \in U : GoesOn(of[u], of[u])
<1> SUFFICES ASSUME NEW u \in U PROVE GoesOn(of[u], of[u])
  OBVIOUS
<1>1. Len(of[u].sent) \in Nat
  BY SessionFields
<1> QED
  BY <1>1 DEF GoesOn

(* There are so many blocks, and a transfer sends each once.               *)
LEMMA BlocksFinite == IsFiniteSet(Block) /\ Cardinality(Block) \in Nat
<1> DEFINE Of(s) == {[sm |-> s, off |-> k] : k \in 1..BlocksOf[s]}
<1>1. IsFiniteSet(SM)
  <2>1. SMList \in Surjection(1..Len(SMList), SM)
    <3>1. SMList \in [1..Len(SMList) -> SM]
      BY TransferAssumption
    <3> QED
      BY <3>1, ListedOnce DEF Surjection
  <2>2. IsFiniteSet(1..Len(SMList))
    BY ListedOnce, FS_Interval
  <2> QED
    BY <2>1, <2>2, FS_Surjection
<1>2. ASSUME NEW s \in SM PROVE IsFiniteSet(Of(s))
  <2> DEFINE f == [k \in 1..BlocksOf[s] |-> [sm |-> s, off |-> k]]
  <2>1. f \in Surjection(1..BlocksOf[s], Of(s))
    BY DEF Surjection
  <2>2. IsFiniteSet(1..BlocksOf[s])
    BY TransferAssumption, FS_Interval
  <2> HIDE DEF f, Of
  <2> QED
    BY <2>1, <2>2, FS_Surjection
<1>3. IsFiniteSet({Of(s) : s \in SM})
  <2> DEFINE f == [s \in SM |-> Of(s)]
  <2> HIDE DEF Of
  <2>1. f \in Surjection(SM, {Of(s) : s \in SM})
    BY DEF Surjection
  <2> HIDE DEF f
  <2> QED
    BY <1>1, <2>1, FS_Surjection
<1>4. Block = UNION {Of(s) : s \in SM}
  BY Zenon DEF Block
<1>5. \A T \in {Of(s) : s \in SM} : IsFiniteSet(T)
  <2> HIDE DEF Of
  <2> QED
    BY <1>2
<1> HIDE DEF Of
<1>6. IsFiniteSet(Block)
  BY <1>3, <1>4, <1>5, FS_UNION
<1> QED
  BY <1>6, FS_CardinalityType

LEMMA SentOnce ==
  ASSUME NEW a \in Session, SessionOK(a)
  PROVE  /\ \A i, j \in 1..Len(a.sent) : a.sent[i] = a.sent[j] => i = j
         /\ Len(a.sent) <= Cardinality(Block)
<1>1. Len(a.sent) \in Nat /\ a.sent \in [1..Len(a.sent) -> Block]
  BY SessionFields
<1>2. ASSUME NEW i \in 1..Len(a.sent), NEW j \in 1..Len(a.sent),
             a.sent[i] = a.sent[j]
      PROVE  i = j
  <2>1. a.sent[i] \in Block /\ a.sent[j] \in Block
    BY SessionFields
  <2>2. ~(i < j) /\ ~(j < i)
    BY <1>2, <2>1, BeforeIsOrder DEF SessionOK
  <2> QED
    BY <1>1, <2>2
<1>3. a.sent \in Injection(1..Len(a.sent), Block)
  BY <1>1, <1>2 DEF Injection, IsInjective
<1>4. Cardinality(1..Len(a.sent)) = Len(a.sent)
  BY <1>1, FS_Interval
<1> QED
  BY <1>2, <1>3, <1>4, BlocksFinite, FS_Injection

-----------------------------------------------------------------------------
(* The steps that neither begin a transfer nor send or take a block.       *)

LEMMA SenderSame ==
  ASSUME Types, NEW U, NEW of, NEW n \in Node, SenderFits(n, U, of),
         sender'[n].uuid = sender[n].uuid,
         \/ sender'[n].pc \notin {"pausing", "locking", "begin", "blocks"}
         \/ /\ sender'[n].pc \in {"locking", "begin", "pausing"}
            /\ sender[n].pc \in {"pausing", "locking", "begin"}
         \/ /\ sender'[n].pc = sender[n].pc /\ sender'[n].seq = sender[n].seq
            /\ sender'[n].left = sender[n].left,
         torn[n] \/ raced[n] => torn'[n] \/ raced'[n],
         Sending(n) => ckpt'[n] = ckpt[n] \/ raced'[n]
  PROVE  SenderFits(n, U, of)'
BY DEF SenderFits, Sending

LEMMA ReceiverSame ==
  ASSUME Types, NEW U, NEW of, NEW n \in Node, ReceiverFits(n, U, of),
         receiver'[n].uuid = 0 \/ (receiver'[n] = receiver[n] /\ tmp'[n] = tmp[n])
  PROVE  ReceiverFits(n, U, of)'
<1>1. CASE receiver'[n].uuid = 0
  BY <1>1 DEF ReceiverFits
<1>2. CASE receiver'[n] = receiver[n] /\ tmp'[n] = tmp[n]
  BY <1>2 DEF ReceiverFits
<1> QED
  BY <1>1, <1>2

LEMMA NumberedSame ==
  ASSUME NEW U, Numbered(U), Types, sessions' = sessions,
         \A n \in Node :
            /\ \/ /\ sender'[n].uuid = sender[n].uuid
                  /\ sender'[n].seq = sender[n].seq
               \/ sender'[n].uuid = 0 /\ sender'[n].seq = 0
            /\ receiver'[n] = receiver[n] \/ receiver'[n].seq = 0
                  \/ receiver'[n].uuid # 0
  PROVE  Numbered(U)'
<1>1. sessions \in Nat /\ Cardinality(Block) \in Nat
  BY BlocksFinite DEF Types, TransferTypes
<1>2. U \subseteq 1..sessions'
  BY DEF Numbered
<1>3. ASSUME NEW n \in Node
      PROVE  /\ sender'[n].uuid <= sessions'
             /\ sender'[n].seq <= Cardinality(Block) + 1
             /\ receiver'[n].uuid = 0 => receiver'[n].seq = 0
  BY <1>1 DEF Numbered
<1>4. ASSUME NEW m \in Node, NEW n \in Node,
             sender'[n].uuid # 0, sender'[m].uuid = sender'[n].uuid
      PROVE  m = n
  BY <1>4 DEF Numbered
<1> QED
  BY <1>2, <1>3, <1>4 DEF Numbered

(* What such a step leaves of the senders.                                 *)
SenderKept(k) ==
    /\ sender'[k].uuid = sender[k].uuid
    /\ sender'[k].seq = sender[k].seq /\ sender'[k].left = sender[k].left
    /\ \/ sender'[k].pc = sender[k].pc
       \/ sender'[k].pc \in {"finishing", "ended"}
       \/ /\ sender[k].pc \in {"pausing", "locking"}
          /\ sender'[k].pc \in {"locking", "begin"}

LEMMA SessionsKept ==
  ASSUME Types, Types', PausedInv, [Next]_vars,
         NEW U, NEW of, SessionsFit(U, of),
         Carries(Told(U, of))', sessions' = sessions,
         \A k \in Node :
            /\ SenderKept(k)
            /\ receiver'[k].uuid = 0
                  \/ (receiver'[k] = receiver[k] /\ tmp'[k] = tmp[k])
            /\ torn[k] \/ raced[k] => torn'[k] \/ raced'[k],
         \A k \in Node : receiver'[k].uuid = 0 => receiver'[k] = receiver[k]
                                                     \/ receiver'[k].seq = 0
  PROVE  SessionsFit(U, of)'
<1>1. ASSUME NEW k \in Node PROVE SenderFits(k, U, of)'
  <2>1. Sending(k) => ckpt'[k] = ckpt[k] \/ raced'[k]
    BY Frozen DEF Types, HistoryTypes
  <2>2. SenderFits(k, U, of) /\ SenderKept(k)
    BY DEF SessionsFit
  <2> QED
    BY <2>1, <2>2, SenderSame DEF SenderKept
<1>2. ASSUME NEW k \in Node PROVE ReceiverFits(k, U, of)'
  BY ReceiverSame DEF SessionsFit
<1>3. Numbered(U)'
  BY NumberedSame DEF SessionsFit, SenderKept
<1> QED
  BY <1>1, <1>2, <1>3 DEF SessionsFit

(* The steps of one node.                                                  *)
LEMMA NodeSessions ==
  ASSUME Types, Types', PausedInv, [Next]_vars, NEW n \in Node,
         \/ Learn(n) \/ Clean(n) \/ Replay(n) \/ User(n) \/ Fall(n)
         \/ ExitCheckpointMode(n) \/ WaitReplayer(n) \/ LockCheckpoint(n)
         \/ SendFails(n) \/ WakesUp(n) \/ GiveUp(n) \/ Finish(n)
         \/ (SendCheckpointEnd(n) /\ UNCHANGED net) \/ UNCHANGED vars,
         NEW U, NEW of, SessionsFit(U, of)
  PROVE  SessionsFit(U, of)'
<1>1. sender \in [Node -> SenderRecord] /\ raced \in [Node -> BOOLEAN]
  BY DEF Types, TransferTypes, HistoryTypes
<1>2. UNCHANGED <<net, receiver, tmp, sessions, torn>>
  BY DEF Learn, Clean, Replay, User, Fall, ExitCheckpointMode, WaitReplayer,
     LockCheckpoint, SendFails, WakesUp, GiveUp, Finish, SendCheckpointEnd, vars,
     transferVars, history
<1>3. \A k \in Node : raced[k] => raced'[k]
  <2>1. CASE User(n)
    BY <1>1, <2>1 DEF User
  <2>2. CASE Finish(n)
    BY <1>1, <2>2 DEF Finish
  <2>3. CASE ~User(n) /\ ~Finish(n)
    BY <2>3 DEF Learn, Clean, Replay, Fall, ExitCheckpointMode, WaitReplayer,
       LockCheckpoint, SendFails, WakesUp, GiveUp, SendCheckpointEnd, vars, history
  <2> QED
    BY <2>1, <2>2, <2>3
<1>4. \A k \in Node : SenderKept(k)
  <2>1. CASE UNCHANGED sender
    BY <2>1 DEF SenderKept
  <2>2. ASSUME NEW pc \in {"locking", "begin", "finishing", "ended"},
               sender' = [sender EXCEPT ![n].pc = pc],
               pc \in {"locking", "begin"} => sender[n].pc \in {"pausing", "locking"}
        PROVE  \A k \in Node : SenderKept(k)
    BY <1>1, <2>2 DEF SenderKept, SenderRecord
  <2>3. ASSUME \/ sender' = [sender EXCEPT ![n].needContinue = TRUE]
               \/ sender' = [sender EXCEPT ![n].asleep = TRUE]
               \/ sender' = [sender EXCEPT ![n].asleep = FALSE]
        PROVE  \A k \in Node : SenderKept(k)
    BY <1>1, <2>3 DEF SenderKept, SenderRecord
  <2>4. CASE Finish(n)
    BY <1>1, <2>4 DEF Finish, SenderKept, SenderRecord
  <2>5. \/ Finish(n)
        \/ UNCHANGED sender
        \/ sender' = [sender EXCEPT ![n].needContinue = TRUE]
        \/ sender' = [sender EXCEPT ![n].asleep = TRUE]
        \/ sender' = [sender EXCEPT ![n].asleep = FALSE]
        \/ \E pc \in {"locking", "begin", "finishing", "ended"} :
              /\ sender' = [sender EXCEPT ![n].pc = pc]
              /\ pc \in {"locking", "begin"} => sender[n].pc \in {"pausing", "locking"}
    <3>1. CASE WaitReplayer(n)
      BY <3>1 DEF WaitReplayer, SenderAt
    <3>2. CASE LockCheckpoint(n)
      BY <3>2 DEF LockCheckpoint, SenderAt
    <3>3. CASE GiveUp(n)
      BY <3>3 DEF GiveUp, SenderAt
    <3>5. CASE SendFails(n) \/ WakesUp(n)
      BY <3>5 DEF SendFails, WakesUp
    <3>6. CASE SendCheckpointEnd(n)
      BY <3>6 DEF SendCheckpointEnd, SenderAt
    <3>4. CASE ~(\/ WaitReplayer(n) \/ LockCheckpoint(n) \/ GiveUp(n) \/ Finish(n)
                 \/ SendFails(n) \/ WakesUp(n) \/ SendCheckpointEnd(n))
      BY <3>4 DEF Learn, Clean, Replay, User, Fall, ExitCheckpointMode, vars,
         transferVars
    <3> QED
      BY <3>1, <3>2, <3>3, <3>4, <3>5, <3>6
  <2> QED
    BY <2>1, <2>2, <2>3, <2>4, <2>5
<1>5. Carries(Told(U, of))'
  BY <1>2 DEF SessionsFit, Carries
<1> QED
  BY <1>2, <1>3, <1>4, <1>5, SessionsKept

(* Requests and acks.                                                      *)
LEMMA RequestSessions ==
  ASSUME Types, Types', PausedInv, [Next]_vars, NEW n \in Node, NEW m \in Node,
         \/ AskforCheckpoint(n, m) \/ OnSendCheckpointAck(m, n)
         \/ IgnoreCheckpointMsg(m, n) \/ Lose(m, n),
         NEW U, NEW of, SessionsFit(U, of)
  PROVE  SessionsFit(U, of)'
<1>1. sender \in [Node -> SenderRecord] /\ Carries(Told(U, of))
  BY DEF Types, TransferTypes, SessionsFit
<1>2. UNCHANGED <<receiver, tmp, sessions, torn, raced>>
  BY DEF AskforCheckpoint, OnSendCheckpointAck, IgnoreCheckpointMsg, Lose, history
<1>3. Carries(Told(U, of))'
  <2>1. CASE AskforCheckpoint(n, m)
    <3>1. AskMsg \in Told(U, of)
      BY MessagesSent DEF Told, AskMsg
    <3>2. <<AskMsg>> \in Seq(Told(U, of))
      BY <3>1
    <3> QED
      BY <1>1, <2>1, <3>2, PostCarries DEF AskforCheckpoint
  <2>2. CASE Lose(m, n)
    BY <1>1, <2>2, LoseCarries
  <2>3. CASE OnSendCheckpointAck(m, n) \/ IgnoreCheckpointMsg(m, n)
    BY <1>1, <2>3, ReceivedCarries DEF OnSendCheckpointAck, IgnoreCheckpointMsg
  <2> QED
    BY <2>1, <2>2, <2>3
<1>4. \A k \in Node : SenderKept(k)
  <2>1. CASE UNCHANGED sender
    BY <2>1 DEF SenderKept
  <2>2. CASE OnSendCheckpointAck(m, n)
    <3> DEFINE ack == Head(net[m][n])
               new == IF Ended(n) THEN sender[n]
                      ELSE IF ack.ok THEN Acked(sender[n], m, ack)
                                     ELSE [sender[n] EXCEPT !.end = TRUE]
    <3>1. sender' = [sender EXCEPT ![n] = new]
      BY <2>2 DEF OnSendCheckpointAck
    <3>2. /\ new.pc = sender[n].pc /\ new.uuid = sender[n].uuid
          /\ new.seq = sender[n].seq /\ new.left = sender[n].left
      BY <1>1 DEF Acked, SenderRecord
    <3> HIDE DEF new
    <3> QED
      BY <1>1, <3>1, <3>2 DEF SenderKept
  <2> QED
    BY <2>1, <2>2 DEF AskforCheckpoint, IgnoreCheckpointMsg, Lose
<1> QED
  BY <1>2, <1>3, <1>4, SessionsKept

(* A sender that starts has a number of its own.                           *)
LEMMA AskSessions ==
  ASSUME Types, Types', NEW n \in Node, NEW m \in Node, OnAskforCheckpoint(m, n),
         NEW U, NEW of, SessionsFit(U, of)
  PROVE  SessionsFit(U, of)'
<1> DEFINE new == [NoSender EXCEPT !.pc = "pausing", !.to = m, !.uuid = sessions + 1]
<1>1. /\ sender \in [Node -> SenderRecord] /\ Carries(Told(U, of))
      /\ sessions \in Nat /\ Numbered(U)
  BY DEF Types, TransferTypes, SessionsFit
<1>2. UNCHANGED <<receiver, tmp, torn, raced, ckpt>>
  BY DEF OnAskforCheckpoint, logVars, history
<1>3. Carries(Told(U, of))'
  BY <1>1, ReceivedCarries DEF OnAskforCheckpoint
<1>4. new.pc = "pausing" /\ new.uuid = sessions + 1 /\ new.seq = 0
  <2>1. NoSender \in SenderRecord /\ NoSender.seq = 0
    BY NoSenderFits DEF NoSender
  <2> QED
    BY <2>1 DEF SenderRecord
<1>5. \/ UNCHANGED <<sessions, sender>>
      \/ sessions' = sessions + 1 /\ sender' = [sender EXCEPT ![n] = new]
  BY DEF OnAskforCheckpoint
<1> HIDE DEF new
<1>6. ASSUME NEW k \in Node PROVE SenderFits(k, U, of)'
  <2>1. CASE sender'[k] = sender[k]
    <3>1. SenderFits(k, U, of)
      BY DEF SessionsFit
    <3> QED
      BY <1>2, <2>1, <3>1 DEF SenderFits
  <2>2. CASE sender'[k] = new /\ sessions' = sessions + 1
    <3>1. sessions + 1 \in Nat \ (U \union {0})
      BY <1>1 DEF Numbered
    <3> QED
      BY <1>4, <2>2, <3>1 DEF SenderFits
  <2> QED
    BY <1>1, <1>5, <2>1, <2>2
<1>7. ASSUME NEW k \in Node PROVE ReceiverFits(k, U, of)'
  BY <1>2, ReceiverSame DEF SessionsFit
<1>8. Numbered(U)'
  <2>1. CASE UNCHANGED <<sessions, sender>>
    BY <1>1, <1>2, <2>1 DEF Numbered
  <2>2. CASE sessions' = sessions + 1 /\ sender' = [sender EXCEPT ![n] = new]
    <3>1. Cardinality(Block) \in Nat
      BY BlocksFinite
    <3>2. U \subseteq 1..sessions'
      BY <1>1, <2>2 DEF Numbered
    <3>3. \A k \in Node : sender[k].uuid \in Nat /\ sender[k].uuid <= sessions
                          /\ sender[k].seq <= Cardinality(Block) + 1
      BY <1>1 DEF Numbered, SenderRecord
    <3>4. \A k \in Node : sender'[k] = IF k = n THEN new ELSE sender[k]
      BY <1>1, <2>2
    <3>5. \A k \in Node : /\ sender'[k].uuid <= sessions'
                          /\ sender'[k].seq <= Cardinality(Block) + 1
                          /\ receiver'[k].uuid = 0 => receiver'[k].seq = 0
      BY <1>1, <1>2, <1>4, <2>2, <3>1, <3>3, <3>4 DEF Numbered
    <3>6. ASSUME NEW j \in Node, NEW k \in Node,
                 sender'[k].uuid # 0, sender'[j].uuid = sender'[k].uuid
          PROVE  j = k
      BY <1>1, <1>4, <3>3, <3>4, <3>6 DEF Numbered
    <3> QED
      BY <3>2, <3>5, <3>6 DEF Numbered
  <2> QED
    BY <1>5, <2>1, <2>2
<1> QED
  BY <1>3, <1>6, <1>7, <1>8 DEF SessionsFit

(* A process that starts has no sender and no receiver.                    *)
LEMMA RiseSessions ==
  ASSUME Types, Types', NEW n \in Node, Rise(n), NEW U, NEW of, SessionsFit(U, of)
  PROVE  SessionsFit(U, of)'
<1>1. /\ sender \in [Node -> SenderRecord] /\ Carries(Told(U, of))
      /\ receiver \in [Node -> [uuid : Nat, seq : Nat]]
  BY DEF Types, TransferTypes, SessionsFit
<1>2. /\ sender' = [sender EXCEPT ![n] = NoSender]
      /\ receiver' = [receiver EXCEPT ![n] = NoReceiver]
      /\ UNCHANGED <<tmp, torn, sessions, ckpt>>
      /\ raced' = [raced EXCEPT ![n] = FALSE]
  BY DEF Rise, Restart, Refuse
<1>3. Carries(Told(U, of))'
  BY <1>1, RiseCarries
<1>4. NoSender.pc = "none" /\ NoSender.uuid = 0 /\ NoSender.seq = 0
      /\ NoReceiver.uuid = 0 /\ NoReceiver.seq = 0
  BY NoSenderFits DEF NoSender, NoReceiver
<1>5. ASSUME NEW k \in Node PROVE SenderFits(k, U, of)'
  <2>1. CASE k = n
    BY <1>1, <1>2, <1>4, <2>1 DEF SenderFits
  <2>2. CASE k # n
    <3>1. SenderFits(k, U, of)
      BY DEF SessionsFit
    <3>2. sender'[k] = sender[k] /\ raced'[k] = raced[k]
      BY <1>1, <1>2, <2>2 DEF Types, HistoryTypes
    <3> QED
      BY <1>2, <3>1, <3>2 DEF SenderFits
  <2> QED
    BY <2>1, <2>2
<1>6. ASSUME NEW k \in Node PROVE ReceiverFits(k, U, of)'
  <2>1. receiver'[k].uuid = 0 \/ receiver'[k] = receiver[k]
    BY <1>1, <1>2, <1>4
  <2> QED
    BY <1>2, <2>1, ReceiverSame DEF SessionsFit
<1>7. Numbered(U)'
  <2>1. \A k \in Node :
            /\ sender'[k] = sender[k]
               \/ (sender'[k].uuid = 0 /\ sender'[k].seq = 0)
            /\ receiver'[k] = receiver[k] \/ receiver'[k].seq = 0
    BY <1>1, <1>2, <1>4
  <2> QED
    BY <1>2, <2>1, NumberedSame DEF SessionsFit
<1> QED
  BY <1>3, <1>5, <1>6, <1>7 DEF SessionsFit

-----------------------------------------------------------------------------
(* The steps of a sender that send.                                        *)

LEMMA BeginSessions ==
  ASSUME Types, CheckpointInv, NEW n \in Node, SendCheckpointBegin(n),
         NEW U \in SUBSET Nat, NEW of, SessionsFit(U, of)
  PROVE  \E V \in SUBSET Nat : \E to \in [V -> Session] : SessionsFit(V, to)'
<1>0. /\ sender \in [Node -> SenderRecord] /\ Carries(Told(U, of))
      /\ sessions \in Nat /\ Numbered(U) /\ of \in [U -> Session]
      /\ sender[n].uuid \in Nat \ (U \union {0}) /\ sender[n].to \in Node
  BY DEF Types, TransferTypes, SessionsFit, SenderFits, SendCheckpointBegin,
     SenderRecord
<1>w. PICK w \in Nat \ (U \union {0}) : w = sender[n].uuid
  BY <1>0
<1>1. /\ sender \in [Node -> SenderRecord] /\ Carries(Told(U, of))
      /\ sessions \in Nat /\ Numbered(U) /\ of \in [U -> Session]
      /\ w \in Nat \ (U \union {0}) /\ sender[n].to \in Node
  BY <1>0, <1>w
<1>2. PICK new \in Session :
          new = [held |-> ckpt[n], sent |-> <<>>, bad |-> torn[n] \/ raced[n],
                 done |-> FALSE]
  <2>1. ckpt[n] \in [SM -> Past] /\ torn[n] \in BOOLEAN /\ raced[n] \in BOOLEAN
    BY DEF Types, LogTypes, HistoryTypes
  <2>2. <<>> \in Seq(Block)
    OBVIOUS
  <2>3. (torn[n] \/ raced[n]) \in BOOLEAN
    OBVIOUS
  <2>4. [held |-> ckpt[n], sent |-> <<>>, bad |-> torn[n] \/ raced[n],
         done |-> FALSE] \in Session
    BY <2>1, <2>2, <2>3 DEF Session
  <2> QED
    BY <2>4
<1>3. /\ new.held = ckpt[n] /\ Len(new.sent) = 0
      /\ new.bad = (torn[n] \/ raced[n]) /\ ~new.done
  BY <1>2
<1>4. Whole(ckpt[n]) \/ torn[n]
  BY DEF CheckpointInv
<1> DEFINE V == U \union {w}
           to == [v \in V |-> IF v = w THEN new ELSE of[v]]
<1>5. V \in SUBSET Nat /\ U \subseteq V /\ w \in V
      /\ to \in [V -> Session] /\ to[w] = new /\ \A u \in U : to[u] = of[u]
  BY <1>1, <1>2
<1> HIDE DEF V, to
<1>6. /\ \/ sender' = [sender EXCEPT ![n].pc = "blocks", ![n].seq = 1,
                                     ![n].left = BlocksHeld(ckpt[n])]
         \/ sender' = [sender EXCEPT ![n].pc = "finishing"]
      /\ UNCHANGED <<receiver, tmp, torn, raced, ckpt, sessions>>
      /\ \/ Post(n, sender[n].to, <<BeginMsg(n), BeginMsg(n)>>)
         \/ Post(n, sender[n].to, <<BeginMsg(n)>>)
         \/ UNCHANGED net
  BY DEF SendCheckpointBegin, SenderAt, logVars, history
<1>7. /\ sender'[n].uuid = w
      /\ \/ /\ sender'[n].pc = "blocks" /\ sender'[n].seq = 1
            /\ sender'[n].left = BlocksHeld(ckpt[n])
         \/ sender'[n].pc = "finishing" /\ sender'[n].seq = sender[n].seq
      /\ \A k \in Node \ {n} : sender'[k] = sender[k]
  BY <1>1, <1>6, <1>w DEF SenderRecord
<1>8. SessionOK(new)
  <2>1. \A i \in 1..Len(new.sent) : FALSE
    BY <1>3
  <2>2. ~new.bad => Whole(new.held)
    BY <1>3, <1>4
  <2> QED
    BY <1>3, <2>1, <2>2 DEF SessionOK
<1>9. \A v \in V : SessionOK(to[v])
  BY <1>5, <1>8 DEF SessionsFit, V
<1>10. \A u \in U : GoesOn(of[u], to[u])
  BY <1>1, <1>5, StaysSame
<1>11. Carries(Told(V, to))'
  <2>1. Carries(Told(V, to))
    BY <1>1, <1>5, <1>10, ToldGrows, CarriesMore
  <2>2. BeginMsg(n) \in Told(V, to)
    BY <1>5, <1>w, MessagesSent DEF Told, BeginMsg
  <2>3. /\ <<BeginMsg(n), BeginMsg(n)>> \in Seq(Told(V, to))
        /\ <<BeginMsg(n)>> \in Seq(Told(V, to))
    BY <2>2
  <2>4. UNCHANGED net => Carries(Told(V, to))'
    BY <2>1 DEF Carries
  <2> QED
    BY <1>1, <1>6, <2>1, <2>3, <2>4, PostCarries
<1>12. ASSUME NEW k \in Node PROVE SenderFits(k, V, to)'
  <2>3. CASE k = n /\ sender'[n].pc = "finishing"
    BY <2>3 DEF SenderFits
  <2>1. CASE k = n /\ sender'[n].pc = "blocks"
    <3>1. {b \in BlocksHeld(new.held) : ~Sent(new, b)} = BlocksHeld(ckpt[n])
      BY <1>3 DEF Sent
    <3>2. sender'[n].pc = "blocks" /\ sender'[n].uuid = w /\ to[w] = new
      BY <1>5, <1>7, <2>1
    <3>3. w \in V /\ ~new.done /\ sender'[n].seq = Len(new.sent) + 1
          /\ sender'[n].left = {b \in BlocksHeld(new.held) : ~Sent(new, b)}
      BY <1>3, <1>5, <1>7, <2>1, <3>1
    <3>4. torn'[n] \/ raced'[n] \/ (~new.bad /\ ckpt'[n] = new.held)
      BY <1>3, <1>6
    <3> QED
      BY <2>1, <3>2, <3>3, <3>4 DEF SenderFits
  <2>2. CASE k # n
    <3>1. SenderFits(k, U, of) /\ sender'[k] = sender[k]
      BY <1>7, <2>2 DEF SessionsFit
    <3>2. sender[k].uuid # w
      BY <1>1, <1>w, <2>2 DEF Numbered
    <3>3. /\ sender[k].uuid \in Nat \ (U \union {0}) =>
                sender[k].uuid \in Nat \ (V \union {0})
          /\ sender[k].uuid \in U => sender[k].uuid \in V
                                     /\ to[sender[k].uuid] = of[sender[k].uuid]
      BY <1>5, <3>2 DEF V
    <3> QED
      BY <1>6, <3>1, <3>3 DEF SenderFits
  <2> QED
    BY <1>7, <2>1, <2>2, <2>3
<1>13. ASSUME NEW k \in Node PROVE ReceiverFits(k, V, to)'
  <2>1. ReceiverFits(k, V, to)
    BY <1>1, <1>5, <1>10, ReceiverGrows DEF SessionsFit
  <2> QED
    BY <1>6, <2>1, ReceiverSame
<1>14. Numbered(V)'
  <2>1. V \subseteq 1..sessions'
    <3>1. w <= sessions
      BY <1>w DEF SessionsFit, Numbered
    <3>2. w \in 1..sessions
      BY <1>1, <3>1
    <3> QED
      BY <1>1, <1>6, <3>2 DEF Numbered, V
  <2>2. Cardinality(Block) \in Nat
    BY BlocksFinite
  <2>3. \A k \in Node : /\ sender'[k].uuid = sender[k].uuid
                        /\ sender'[k].seq = sender[k].seq \/ sender'[k].seq = 1
    BY <1>1, <1>7, <1>w
  <2> QED
    BY <1>1, <1>6, <2>1, <2>2, <2>3 DEF Numbered
<1>15. SessionsFit(V, to)'
  BY <1>5, <1>9, <1>11, <1>12, <1>13, <1>14 DEF SessionsFit
<1> QED
  BY <1>5, <1>15

(* A transfer goes on at its sender.                                       *)
LEMMA SendsOn ==
  ASSUME Types, NEW n \in Node, sender[n].pc = "blocks",
         NEW U, NEW of, SessionsFit(U, of),
         NEW b \in Session, GoesOn(of[sender[n].uuid], b), SessionOK(b),
         NEW to \in [U -> Session], to[sender[n].uuid] = b,
         \A v \in U \ {sender[n].uuid} : to[v] = of[v],
         SenderFits(n, U, to)', sender'[n].uuid = sender[n].uuid,
         sender'[n].seq <= Cardinality(Block) + 1,
         \A k \in Node \ {n} : sender'[k] = sender[k],
         UNCHANGED <<receiver, tmp, torn, raced, ckpt, sessions>>,
         NEW msg \in Told(U, to), Post(n, sender[n].to, <<msg>>)
  PROVE  SessionsFit(U, to)'
<1> DEFINE u == sender[n].uuid
<1>0. SenderFits(n, U, of)
  BY DEF SessionsFit
<1>1. /\ sender \in [Node -> SenderRecord] /\ Carries(Told(U, of))
      /\ sessions \in Nat /\ Numbered(U) /\ of \in [U -> Session]
      /\ u \in U /\ sender[n].to \in Node /\ u # 0
  <2>1. u \in U
    BY <1>0 DEF SenderFits
  <2>2. U \subseteq 1..sessions /\ sessions \in Nat
    BY DEF SessionsFit, Numbered, Types, TransferTypes
  <2>3. u # 0
    BY <2>1, <2>2
  <2>4. sender \in [Node -> SenderRecord]
    BY DEF Types, TransferTypes
  <2>5. sender[n].to \in Node
    BY <2>4 DEF SenderRecord
  <2> QED
    BY <2>1, <2>2, <2>3, <2>4, <2>5 DEF SessionsFit
<1> HIDE DEF u
<1>2. to \in [U -> Session] /\ to[u] = b /\ \A v \in U \ {u} : to[v] = of[v]
  BY <1>1 DEF u
<1>s. U \subseteq U
  OBVIOUS
<1>3. \A v \in U : GoesOn(of[v], to[v]) /\ SessionOK(to[v])
  BY <1>1, <1>2, StaysSame DEF u, SessionsFit
<1>4. Carries(Told(U, to))'
  <2>0. \A v \in U : GoesOn(of[v], to[v])
    BY <1>3
  <2>3. Told(U, of) \subseteq Told(U, to)
    BY <1>1, <1>2, <1>s, <2>0, ToldGrows
  <2>1. Carries(Told(U, to))
    BY <1>1, <2>3, CarriesMore
  <2>2. <<msg>> \in Seq(Told(U, to))
    OBVIOUS
  <2> QED
    BY <1>1, <2>1, <2>2, PostCarries
<1>5. ASSUME NEW k \in Node PROVE SenderFits(k, U, to)'
  <2>1. CASE k # n
    <3>1. SenderFits(k, U, of) /\ sender'[k] = sender[k]
      BY <2>1 DEF SessionsFit
    <3>2. sender[k].uuid # u
      BY <1>1, <2>1 DEF Numbered, u
    <3>3. sender[k].uuid \in U => to[sender[k].uuid] = of[sender[k].uuid]
      BY <1>2, <3>2
    <3> QED
      BY <3>1, <3>3 DEF SenderFits
  <2> QED
    BY <2>1
<1>6. ASSUME NEW k \in Node PROVE ReceiverFits(k, U, to)'
  <2>2. ReceiverFits(k, U, of) /\ \A v \in U : GoesOn(of[v], to[v])
    BY <1>3 DEF SessionsFit
  <2>1. ReceiverFits(k, U, to)
    BY <1>1, <1>2, <1>s, <2>2, ReceiverGrows
  <2> QED
    BY <2>1, ReceiverSame
<1>7. Numbered(U)'
  BY <1>1 DEF Numbered
<1> QED
  BY <1>2, <1>3, <1>4, <1>5, <1>6, <1>7 DEF SessionsFit

LEMMA BufferSessions ==
  ASSUME Types, NEW n \in Node, SendBuffer(n),
         NEW U \in SUBSET Nat, NEW of, SessionsFit(U, of)
  PROVE  \E to \in [U -> Session] : SessionsFit(U, to)'
<1>1. /\ sender \in [Node -> SenderRecord] /\ of \in [U -> Session]
      /\ sender[n].pc = "blocks" /\ sender[n].left # {}
      /\ sender[n].left \in SUBSET Block
  BY DEF SendBuffer, AtBlock, Types, TransferTypes, SessionsFit, SenderRecord
<1>0. SenderFits(n, U, of)
  BY DEF SessionsFit
<1>u. PICK u \in U : u = sender[n].uuid
  BY <1>0, <1>1 DEF SenderFits
<1> DEFINE a == of[u]
<1>2. /\ u \in U /\ ~a.done /\ sender[n].seq = Len(a.sent) + 1
      /\ sender[n].left = {c \in BlocksHeld(a.held) : ~Sent(a, c)}
      /\ torn[n] \/ raced[n] \/ (~a.bad /\ ckpt[n] = a.held)
  BY <1>0, <1>1, <1>u DEF SenderFits
<1>3. a \in Session /\ SessionOK(a) /\ a.sent \in Seq(Block) /\ Len(a.sent) \in Nat
  BY <1>1, <1>2, SessionFields DEF SessionsFit
<1>b. PICK b \in Block : b = First(sender[n].left)
  BY <1>1, FirstIs
<1>4. b \in sender[n].left /\ \A c \in sender[n].left \ {b} : Before(b, c)
  BY <1>1, <1>b, FirstIs
<1>5. PICK new \in Session :
          new = [held |-> a.held, sent |-> Append(a.sent, b),
                 bad |-> a.bad \/ torn[n] \/ raced[n], done |-> FALSE]
  <2>1. Append(a.sent, b) \in Seq(Block)
    BY <1>3, <1>4
  <2>2. a.held \in [SM -> Past] /\ a.bad \in BOOLEAN
    BY <1>3, SessionFields
  <2>3. torn[n] \in BOOLEAN /\ raced[n] \in BOOLEAN
    BY DEF Types, HistoryTypes
  <2>4. (a.bad \/ torn[n] \/ raced[n]) \in BOOLEAN
    OBVIOUS
  <2>5. [held |-> a.held, sent |-> Append(a.sent, b),
         bad |-> a.bad \/ torn[n] \/ raced[n], done |-> FALSE] \in Session
    BY <2>1, <2>2, <2>4 DEF Session
  <2> QED
    BY <2>5
<1> DEFINE to == [of EXCEPT ![u] = new]
<1> HIDE DEF a
<1>6. /\ new.held = a.held /\ ~new.done /\ new.bad = (a.bad \/ torn[n] \/ raced[n])
      /\ Len(new.sent) = Len(a.sent) + 1
      /\ \A i \in 1..Len(a.sent) : new.sent[i] = a.sent[i]
      /\ new.sent[Len(a.sent) + 1] = b
  BY <1>3, <1>4, <1>5
<1>7. GoesOn(a, new)
  <2>1. Len(a.sent) <= Len(new.sent)
    BY <1>3, <1>6
  <2> QED
    BY <1>2, <1>6, <2>1 DEF GoesOn
<1>8. \A c : Sent(new, c) <=> Sent(a, c) \/ c = b
  <2> TAKE c
  <2>1. 1..(Len(a.sent) + 1) = 1..Len(a.sent) \union {Len(a.sent) + 1}
    BY <1>3
  <2> QED
    BY <1>6, <2>1 DEF Sent
<1>9. SessionOK(new)
  <2>1. \A i \in 1..Len(new.sent) : new.sent[i] \in BlocksHeld(new.held)
    <3>1. b \in BlocksHeld(a.held)
      BY <1>2, <1>4
    <3>2. \A i \in 1..Len(new.sent) : i \in 1..Len(a.sent) \/ i = Len(a.sent) + 1
      BY <1>3, <1>6
    <3> QED
      BY <1>3, <1>6, <3>1, <3>2 DEF SessionOK
  <2>2. ASSUME NEW i \in 1..Len(new.sent), NEW j \in 1..Len(new.sent), i < j
        PROVE  Before(new.sent[i], new.sent[j])
    <3>1. i \in 1..Len(a.sent)
      BY <1>3, <1>6, <2>2
    <3>2. CASE j \in 1..Len(a.sent)
      BY <1>3, <1>6, <2>2, <3>1, <3>2 DEF SessionOK
    <3>3. CASE j = Len(a.sent) + 1
      BY <1>2, <1>3, <1>4, <1>6, <3>1, <3>3 DEF SessionOK
    <3> QED
      BY <1>3, <1>6, <3>2, <3>3
  <2>3. ASSUME NEW c \in BlocksHeld(new.held), NEW i \in 1..Len(new.sent),
               ~Sent(new, c)
        PROVE  Before(new.sent[i], c)
    <3>1. ~Sent(a, c) /\ c # b /\ c \in sender[n].left
      BY <1>2, <1>6, <1>8, <2>3
    <3>2. CASE i \in 1..Len(a.sent)
      BY <1>3, <1>6, <2>3, <3>1, <3>2 DEF SessionOK
    <3>3. CASE i = Len(a.sent) + 1
      BY <1>4, <1>6, <3>1, <3>3
    <3> QED
      BY <1>3, <1>6, <3>2, <3>3
  <2>4. ~new.bad => Whole(new.held)
    BY <1>3, <1>6 DEF SessionOK
  <2> QED
    BY <1>6, <2>1, <2>2, <2>3, <2>4 DEF SessionOK
<1>10. to \in [U -> Session] /\ to[u] = new
  BY <1>1, <1>2, <1>5
<1>11. /\ sender' = [sender EXCEPT ![n].seq = @ + 1, ![n].left = @ \ {First(@)}]
       /\ UNCHANGED <<receiver, tmp, torn, raced, ckpt, sessions>>
       /\ Post(n, sender[n].to, <<BlockMsg(n)>>)
  BY DEF SendBuffer, logVars, history
<1>12. /\ sender'[n].pc = "blocks" /\ sender'[n].seq = sender[n].seq + 1
       /\ sender'[n].uuid = u /\ sender'[n].left = sender[n].left \ {b}
       /\ \A k \in Node \ {n} : sender'[k] = sender[k]
  BY <1>1, <1>11, <1>u, <1>b DEF SenderRecord
<1> HIDE DEF to
<1>13. SenderFits(n, U, to)'
  <2>1. sender'[n].left = {c \in BlocksHeld(new.held) : ~Sent(new, c)}
    BY <1>2, <1>6, <1>8, <1>12
  <2>2. torn[n] \/ raced[n] \/ (~new.bad /\ ckpt[n] = new.held)
    BY <1>2, <1>6
  <2>3. sender'[n].seq = Len(new.sent) + 1
    BY <1>2, <1>6, <1>12
  <2> QED
    BY <1>2, <1>6, <1>10, <1>11, <1>12, <2>1, <2>2, <2>3 DEF SenderFits
<1>14. BlockMsg(n) \in Told(U, to)
  <2>1. /\ BlockMsg(n) \in Message /\ BlockMsg(n).flag = "ING"
        /\ BlockMsg(n).uuid = u /\ BlockMsg(n).seq = Len(a.sent) + 1
        /\ BlockMsg(n).block = b /\ BlockMsg(n).data = ckpt[n][b.sm]
    BY <1>1, <1>2, <1>u, <1>b, MessagesSent DEF BlockMsg
  <2>2. Len(a.sent) + 1 \in 1..Len(new.sent)
    BY <1>3, <1>6
  <2>3. new.bad \/ ckpt[n][b.sm] = new.held[b.sm]
    BY <1>2, <1>6
  <2> QED
    BY <1>2, <1>6, <1>10, <2>1, <2>2, <2>3 DEF Told
<1>15. sender'[n].seq <= Cardinality(Block) + 1
  BY <1>2, <1>3, <1>5, <1>6, <1>9, <1>12, SentOnce, BlocksFinite
<1>16. SessionsFit(U, to)'
  <2>1. /\ GoesOn(of[sender[n].uuid], new) /\ to[sender[n].uuid] = new
        /\ \A v \in U \ {sender[n].uuid} : to[v] = of[v]
        /\ sender'[n].uuid = sender[n].uuid
    BY <1>1, <1>7, <1>10, <1>12, <1>u DEF to, a
  <2> QED
    BY <1>1, <1>9, <1>10, <1>11, <1>12, <1>13, <1>14, <1>15, <2>1, SendsOn
<1> QED
  BY <1>10, <1>16

LEMMA FinalSessions ==
  ASSUME Types, NEW n \in Node, SendCheckpointEnd(n),
         Post(n, sender[n].to, <<EndMsg(n)>>),
         NEW U \in SUBSET Nat, NEW of, SessionsFit(U, of)
  PROVE  \E to \in [U -> Session] : SessionsFit(U, to)'
<1>1. /\ sender \in [Node -> SenderRecord] /\ of \in [U -> Session]
      /\ sender[n].pc = "blocks" /\ sender[n].left = {}
  BY DEF SendCheckpointEnd, Types, TransferTypes, SessionsFit
<1>0. SenderFits(n, U, of)
  BY DEF SessionsFit
<1>u. PICK u \in U : u = sender[n].uuid
  BY <1>0, <1>1 DEF SenderFits
<1> DEFINE a == of[u]
           new == [a EXCEPT !.done = TRUE]
           to == [of EXCEPT ![u] = new]
<1>2. /\ u \in U /\ ~a.done /\ sender[n].seq = Len(a.sent) + 1
      /\ sender[n].left = {c \in BlocksHeld(a.held) : ~Sent(a, c)}
      /\ torn[n] \/ raced[n] \/ ~a.bad
  BY <1>0, <1>1, <1>u DEF SenderFits
<1>3. a \in Session /\ SessionOK(a) /\ Len(a.sent) \in Nat
  BY <1>1, <1>2, SessionFields DEF SessionsFit
<1>4. new \in Session /\ new.held = a.held /\ new.sent = a.sent /\ new.bad = a.bad
      /\ new.done
  BY <1>3 DEF Session
<1> HIDE DEF a, new
<1>5. GoesOn(a, new)
  BY <1>2, <1>3, <1>4 DEF GoesOn
<1>6. \A c \in BlocksHeld(new.held) : Sent(new, c)
  BY <1>1, <1>2, <1>4 DEF Sent
<1>7. SessionOK(new)
  BY <1>3, <1>4, <1>6 DEF SessionOK
<1>8. to \in [U -> Session] /\ to[u] = new
  BY <1>1, <1>2, <1>4
<1>9. /\ sender' = [sender EXCEPT ![n].pc = "finishing"]
      /\ UNCHANGED <<receiver, tmp, torn, raced, ckpt, sessions>>
      /\ Post(n, sender[n].to, <<EndMsg(n)>>)
  BY DEF SendCheckpointEnd, SenderAt, logVars, history
<1>10. /\ sender'[n].pc = "finishing" /\ sender'[n].seq = sender[n].seq
       /\ sender'[n].uuid = u
       /\ \A k \in Node \ {n} : sender'[k] = sender[k]
  BY <1>1, <1>9, <1>u DEF SenderRecord
<1> HIDE DEF to
<1>11. SenderFits(n, U, to)'
  BY <1>10 DEF SenderFits
<1>12. EndMsg(n) \in Told(U, to)
  <2>1. /\ EndMsg(n) \in Message /\ EndMsg(n).flag = "END"
        /\ EndMsg(n).uuid = u /\ EndMsg(n).seq = Len(a.sent) + 1
        /\ EndMsg(n).torn = (torn[n] \/ raced[n])
    BY <1>2, <1>u, MessagesSent DEF EndMsg
  <2> QED
    BY <1>2, <1>4, <1>8, <2>1 DEF Told
<1>13. sender'[n].seq <= Cardinality(Block) + 1
  BY <1>10 DEF SessionsFit, Numbered
<1>14. SessionsFit(U, to)'
  <2>1. /\ GoesOn(of[sender[n].uuid], new) /\ to[sender[n].uuid] = new
        /\ \A v \in U \ {sender[n].uuid} : to[v] = of[v]
        /\ sender'[n].uuid = sender[n].uuid
    BY <1>1, <1>5, <1>8, <1>10, <1>u DEF to, a
  <2> QED
    BY <1>1, <1>4, <1>7, <1>8, <1>9, <1>10, <1>11, <1>12, <1>13, <2>1, SendsOn
<1> QED
  BY <1>8, <1>14

-----------------------------------------------------------------------------
(* The steps of a receiver.                                                *)

LEMMA ReceiverTold ==
  ASSUME NEW U, NEW of, Carries(Told(U, of)), NEW m \in Node, NEW n \in Node,
         NEW flag \in {"BEGIN", "ING", "END"}, Handles(m, n, flag)
  PROVE  /\ Head(net[m][n]) \in Told(U, of) /\ Head(net[m][n]) \in Message
         /\ Received(m, n) => Carries(Told(U, of))'
         /\ \A r : Reject(m, n) \/ Accept(m, n, r) => Carries(Told(U, of))'
<1>0. PICK msg \in Told(U, of) : msg = Head(net[m][n])
  BY FirstCarried DEF Handles
<1>1. Arrives(m, n) /\ msg \in Message /\ msg.flag = flag
  BY <1>0 DEF Handles, Told
<1>2. msg \in Begins \union Ings \union Ends
  BY <1>1, MessageKinds
<1>3. ASSUME NEW ok \in BOOLEAN PROVE AckMsg(msg, ok) \in Told(U, of)
  <2>1. AckMsg(msg, ok) \in Message
    BY <1>2, AckSent
  <2>2. AckMsg(msg, ok).flag = "ACK"
    BY DEF AckMsg
  <2> QED
    BY <2>1, <2>2 DEF Told
<1>4. Answer(m, n, AckMsg(msg, TRUE)) \/ Answer(m, n, AckMsg(msg, FALSE)) =>
          Carries(Told(U, of))'
  BY <1>1, <1>3, AnswerCarries
<1>5. Received(m, n) => Carries(Told(U, of))'
  BY <1>1, ReceivedCarries
<1> QED
  BY <1>0, <1>1, <1>4, <1>5 DEF Accept, Reject

LEMMA ReceiverSessions ==
  ASSUME Types, PausedInv, [Next]_vars, NEW U, NEW of, SessionsFit(U, of),
         NEW n \in Node, UNCHANGED <<sender, sessions>>, Carries(Told(U, of))',
         \A k \in Node \ {n} : receiver'[k] = receiver[k] /\ tmp'[k] = tmp[k],
         ReceiverFits(n, U, of)', receiver'[n].uuid = 0 => receiver'[n].seq = 0,
         \A k \in Node : Sending(k) /\ (torn[k] \/ raced[k]) => torn'[k] \/ raced'[k]
  PROVE  SessionsFit(U, of)'
<1>1. ASSUME NEW k \in Node PROVE SenderFits(k, U, of)'
  <2>1. Sending(k) => ckpt'[k] = ckpt[k] \/ raced'[k]
    BY Frozen DEF Types, HistoryTypes
  <2>2. SenderFits(k, U, of) /\ sender'[k] = sender[k]
    BY DEF SessionsFit
  <2>3. sender[k].pc = "blocks" => Sending(k)
    BY DEF Sending
  <2> QED
    BY <2>1, <2>2, <2>3 DEF SenderFits
<1>2. ASSUME NEW k \in Node PROVE ReceiverFits(k, U, of)'
  <2>1. CASE k # n
    <3>1. receiver'[k] = receiver[k] /\ tmp'[k] = tmp[k] /\ ReceiverFits(k, U, of)
      BY <2>1 DEF SessionsFit
    <3> QED
      BY <3>1, ReceiverSame
  <2> QED
    BY <2>1
<1>3. Numbered(U)'
  <2>1. \A k \in Node : receiver'[k] = receiver[k] \/ receiver'[k].seq = 0
                            \/ receiver'[k].uuid # 0
    OBVIOUS
  <2> QED
    BY <2>1, NumberedSame DEF SessionsFit
<1> QED
  BY <1>1, <1>2, <1>3 DEF SessionsFit

LEMMA NoReceiverFits ==
  ASSUME NEW U, NEW of, NEW n \in Node, receiver'[n] = NoReceiver
  PROVE  ReceiverFits(n, U, of)' /\ receiver'[n].seq = 0
BY DEF ReceiverFits, NoReceiver

LEMMA BeginReceived ==
  ASSUME Types, Types', PausedInv, [Next]_vars, NEW m \in Node, NEW n \in Node,
         OnSendCheckpoint_Begin(m, n), NEW U, NEW of, SessionsFit(U, of)
  PROVE  SessionsFit(U, of)'
<1> DEFINE msg == Head(net[m][n])
<1>0. Handles(m, n, "BEGIN") /\ Carries(Told(U, of))
  BY DEF OnSendCheckpoint_Begin, SessionsFit
<1>1. /\ msg \in Told(U, of) /\ Carries(Told(U, of))'
  BY <1>0, ReceiverTold DEF OnSendCheckpoint_Begin
<1>2. msg.uuid \in U
  BY <1>0, <1>1 DEF Told, Handles
<1> HIDE DEF msg
<1>3. /\ UNCHANGED <<sender, sessions, torn, raced>>
      /\ \/ Reject(m, n)
         \/ NewReceiver(n) /\ Accept(m, n, [uuid |-> msg.uuid, seq |-> 0])
      /\ UNCHANGED tmp \/ NewReceiver(n)
  BY DEF OnSendCheckpoint_Begin, msg
<1>4. receiver \in [Node -> [uuid : Nat, seq : Nat]] /\ tmp \in [Node -> [SM -> Seq(Written)]]
  BY DEF Types, TransferTypes
<1>5. \A k \in Node \ {n} : receiver'[k] = receiver[k] /\ tmp'[k] = tmp[k]
  BY <1>3, <1>4 DEF Reject, Accept, NewReceiver
<1>6. ReceiverFits(n, U, of)' /\ (receiver'[n].uuid = 0 => receiver'[n].seq = 0)
  <2>1. CASE Reject(m, n)
    BY <1>4, <2>1, NoReceiverFits DEF Reject
  <2>2. CASE NewReceiver(n) /\ Accept(m, n, [uuid |-> msg.uuid, seq |-> 0])
    <3>1. /\ receiver'[n] = [uuid |-> msg.uuid, seq |-> 0]
          /\ tmp'[n] = NoFiles
      BY <1>4, <2>2 DEF NewReceiver, Accept
    <3>2. PICK u \in U : u = msg.uuid
      BY <1>2
    <3>3. receiver'[n].uuid = u /\ receiver'[n].seq = 0
      BY <3>1, <3>2
    <3>4. Len(of[u].sent) \in Nat
      BY SessionFields DEF SessionsFit
    <3>5. \A s \in SM : tmp'[n][s] = <<>> /\ Len(tmp'[n][s]) = 0
      BY <3>1 DEF NoFiles
    <3> QED
      BY <3>3, <3>4, <3>5 DEF ReceiverFits, InFiles
  <2> QED
    BY <1>3, <2>1, <2>2
<1> QED
  BY <1>1, <1>3, <1>5, <1>6, ReceiverSessions

(* A block that is expected becomes the next one of its file.              *)
LEMMA BlockWritten ==
  ASSUME NEW a \in Session, NEW q \in Nat, q + 1 \in 1..Len(a.sent),
         NEW b \in Block, b = a.sent[q + 1],
         NEW f \in [SM -> Seq(Written)], NEW w \in Written,
         Len(f[b.sm]) = w.off - 1, w.off = b.off,
         a.bad \/ w.data = a.held[b.sm], InFiles(a, q, w.uuid, f)
  PROVE  InFiles(a, q + 1, w.uuid, [f EXCEPT ![b.sm] = Append(@, w)])
<1>s. PICK s \in SM : s = b.sm
  BY BlockFields
<1>w. f[s] \in Seq(Written) /\ w.off \in Nat
  BY DEF Written
<1>a. Append(f[s], w) \in Seq(Written) /\ Len(f[s]) \in Nat
  BY <1>w
<1>g. PICK g \in [SM -> Seq(Written)] : g = [f EXCEPT ![s] = Append(@, w)]
  BY <1>a
<1>1. /\ w.off \in Nat /\ Len(f[s]) \in Nat /\ w.off = Len(f[s]) + 1
      /\ f[s] \in Seq(Written)
  BY <1>s, <1>w, <1>a
<1>2. /\ Len(g[s]) = Len(f[s]) + 1 /\ g[s][Len(f[s]) + 1] = w
      /\ \A k \in 1..Len(f[s]) : g[s][k] = f[s][k]
      /\ \A x \in SM \ {s} : g[x] = f[x]
  BY <1>1, <1>g
<1>0. \A i \in 1..(q + 1) : i \in 1..Len(a.sent) /\ (i \in 1..q \/ i = q + 1)
  BY SessionFields
<1>3. ASSUME NEW i \in 1..(q + 1)
      PROVE  a.sent[i].off \in 1..Len(g[a.sent[i].sm])
  <2>1. CASE i = q + 1
    <3>1. a.sent[i].sm = s /\ a.sent[i].off = Len(g[s])
      BY <1>1, <1>2, <1>s, <2>1
    <3>2. Len(g[s]) \in 1..Len(g[s])
      BY <1>1, <1>2
    <3> QED
      BY <3>1, <3>2
  <2>2. CASE i \in 1..q
    <3>1. a.sent[i].off \in 1..Len(f[a.sent[i].sm])
      BY <2>2 DEF InFiles
    <3>3. a.sent[i].sm \in SM
      BY <1>0, SessionFields, BlockFields
    <3>4. CASE a.sent[i].sm = s
      BY <1>1, <1>2, <3>1, <3>4
    <3>5. CASE a.sent[i].sm # s
      BY <1>2, <3>1, <3>3, <3>5
    <3> QED
      BY <3>4, <3>5
  <2> QED
    BY <1>0, <2>1, <2>2
<1>4. ASSUME NEW x \in SM, NEW k \in 1..Len(g[x])
      PROVE  /\ \E i \in 1..(q + 1) : a.sent[i].sm = x /\ a.sent[i].off = k
             /\ g[x][k].uuid = w.uuid /\ g[x][k].off = k
             /\ a.bad \/ g[x][k].data = a.held[x]
  <2>1. CASE k \in 1..Len(f[x])
    <3>1. g[x][k] = f[x][k]
      BY <1>2, <2>1
    <3>2. PICK i \in 1..q : a.sent[i].sm = x /\ a.sent[i].off = k
      BY <2>1 DEF InFiles
    <3>3. /\ f[x][k].uuid = w.uuid /\ f[x][k].off = k
          /\ a.bad \/ f[x][k].data = a.held[x]
      BY <2>1 DEF InFiles
    <3>4. i \in 1..(q + 1)
      OBVIOUS
    <3> QED
      BY <3>1, <3>2, <3>3, <3>4
  <2>2. CASE k \notin 1..Len(f[x])
    <3>1. x = s /\ k = Len(f[s]) + 1
      BY <1>1, <1>2, <2>2
    <3>2. g[x][k] = w /\ w.off = k
      BY <1>1, <1>2, <3>1
    <3>3. q + 1 \in 1..(q + 1)
      OBVIOUS
    <3>4. a.sent[q + 1].sm = x /\ a.sent[q + 1].off = k
      BY <1>s, <3>1, <3>2
    <3> QED
      BY <1>s, <3>1, <3>2, <3>3, <3>4
  <2> QED
    BY <2>1, <2>2
<1>5. InFiles(a, q + 1, w.uuid, g)
  BY <1>3, <1>4 DEF InFiles
<1> QED
  BY <1>5, <1>s, <1>g

LEMMA BlockReceived ==
  ASSUME Types, Types', PausedInv, [Next]_vars, NEW m \in Node, NEW n \in Node,
         OnSendCheckpoint_Ing(m, n), NEW U, NEW of, SessionsFit(U, of)
  PROVE  SessionsFit(U, of)'
<1>0. Handles(m, n, "ING") /\ Carries(Told(U, of))
  BY DEF OnSendCheckpoint_Ing, SessionsFit
<1>m. PICK msg \in Told(U, of) : msg = Head(net[m][n]) /\ msg \in Ings
  BY <1>0, ReceiverTold, MessageKinds DEF Handles
<1> DEFINE w == [uuid |-> msg.uuid, off |-> msg.block.off, data |-> msg.data]
           r == receiver[n]
           again == msg.uuid = r.uuid /\ msg.seq = r.seq
<1>1. Carries(Told(U, of))'
  BY <1>0, ReceiverTold DEF OnSendCheckpoint_Ing
<1>2. /\ UNCHANGED <<sender, sessions, torn, raced>>
      /\ \/ Reject(m, n) /\ UNCHANGED tmp
         \/ Accept(m, n, [r EXCEPT !.seq = msg.seq]) /\ again /\ UNCHANGED tmp
         \/ /\ Accept(m, n, [r EXCEPT !.seq = msg.seq]) /\ Expected(n, msg)
            /\ tmp' = [tmp EXCEPT ![n][msg.block.sm] = Append(@, w)]
  BY <1>m DEF OnSendCheckpoint_Ing, history
<1>3. /\ receiver \in [Node -> [uuid : Nat, seq : Nat]]
      /\ tmp \in [Node -> [SM -> Seq(Written)]]
      /\ tmp' \in [Node -> [SM -> Seq(Written)]]
      /\ r \in [uuid : Nat, seq : Nat]
  BY DEF Types, TransferTypes
<1>4. /\ msg.uuid \in U /\ msg.seq \in 1..Len(of[msg.uuid].sent)
      /\ msg.block = of[msg.uuid].sent[msg.seq]
      /\ of[msg.uuid].bad \/ msg.data = of[msg.uuid].held[msg.block.sm]
      /\ msg.seq \in Nat /\ msg.block.sm \in SM /\ w \in Written
  BY <1>m, BlockFields DEF Told, Ings, Written
<1>5. \A k \in Node \ {n} : receiver'[k] = receiver[k] /\ tmp'[k] = tmp[k]
  BY <1>2, <1>3 DEF Reject, Accept
<1>6. ReceiverFits(n, U, of) /\ (r.uuid = 0 => r.seq = 0) /\ of \in [U -> Session]
      /\ U \subseteq 1..sessions /\ sessions \in Nat
  BY DEF SessionsFit, Numbered, Types, TransferTypes
<1>7. ReceiverFits(n, U, of)' /\ (receiver'[n].uuid = 0 => receiver'[n].seq = 0)
  <2>1. CASE Reject(m, n)
    BY <1>3, <2>1, NoReceiverFits DEF Reject
  <2>2. CASE Accept(m, n, [r EXCEPT !.seq = msg.seq]) /\ again /\ UNCHANGED tmp
    <3>1. receiver'[n] = receiver[n] /\ tmp'[n] = tmp[n]
      BY <1>3, <2>2 DEF Accept
    <3> QED
      BY <1>6, <3>1, ReceiverSame
  <2>3. CASE /\ Accept(m, n, [r EXCEPT !.seq = msg.seq]) /\ Expected(n, msg)
             /\ tmp' = [tmp EXCEPT ![n][msg.block.sm] = Append(@, w)]
    <3>1. PICK u \in U : u = r.uuid /\ u = msg.uuid
      BY <1>4, <2>3 DEF Expected
    <3>2. PICK q \in Nat : q = r.seq /\ q + 1 = msg.seq
      BY <1>3, <2>3 DEF Expected
    <3>3. PICK b \in Block : b = msg.block
      BY <1>m DEF Ings
    <3>4. PICK f \in [SM -> Seq(Written)] : f = tmp[n]
      BY <1>3
    <3>5. PICK a \in Session : a = of[u]
      BY <1>6
    <3>6. u # 0
      BY <1>6
    <3>7. receiver'[n].uuid = u /\ receiver'[n].seq = q + 1
      BY <1>3, <2>3, <3>1, <3>2 DEF Accept
    <3>8. tmp'[n] = [f EXCEPT ![b.sm] = Append(@, w)]
      BY <1>3, <1>4, <2>3, <3>3, <3>4
    <3>9. /\ q + 1 \in 1..Len(a.sent) /\ b = a.sent[q + 1]
          /\ Len(f[b.sm]) = w.off - 1 /\ w.off = b.off
          /\ a.bad \/ w.data = a.held[b.sm]
      BY <1>4, <2>3, <3>1, <3>2, <3>3, <3>4, <3>5 DEF Expected
    <3>10. w \in Written /\ w.uuid = u
      BY <1>4, <3>1
    <3> HIDE DEF w
    <3>11. InFiles(a, q, w.uuid, f)
      BY <1>6, <3>1, <3>2, <3>4, <3>5, <3>6, <3>10 DEF ReceiverFits
    <3>12. InFiles(a, q + 1, w.uuid, [f EXCEPT ![b.sm] = Append(@, w)])
      BY <3>9, <3>10, <3>11, BlockWritten
    <3>13. q + 1 <= Len(a.sent)
      BY <3>9
    <3> QED
      BY <3>5, <3>6, <3>7, <3>8, <3>10, <3>12, <3>13 DEF ReceiverFits
  <2> QED
    BY <1>2, <2>1, <2>2, <2>3
<1> HIDE DEF w, r, again
<1> QED
  BY <1>1, <1>2, <1>5, <1>7, ReceiverSessions

LEMMA EndReceived ==
  ASSUME Types, Types', PausedInv, [Next]_vars, NEW m \in Node, NEW n \in Node,
         OnSendCheckpoint_End(m, n), NEW U, NEW of, SessionsFit(U, of)
  PROVE  SessionsFit(U, of)'
<1>0. Handles(m, n, "END") /\ Carries(Told(U, of))
  BY DEF OnSendCheckpoint_End, SessionsFit
<1>1. Carries(Told(U, of))'
  BY <1>0, ReceiverTold DEF OnSendCheckpoint_End
<1>2. /\ UNCHANGED <<sender, sessions, tmp>>
      /\ Reject(m, n) \/ UNCHANGED receiver
  BY DEF OnSendCheckpoint_End
<1>3. receiver \in [Node -> [uuid : Nat, seq : Nat]]
      /\ torn \in [Node -> BOOLEAN] /\ raced \in [Node -> BOOLEAN]
  BY DEF Types, TransferTypes, HistoryTypes
<1>4. \A k \in Node \ {n} : receiver'[k] = receiver[k] /\ tmp'[k] = tmp[k]
  BY <1>2, <1>3 DEF Reject
<1>5. ReceiverFits(n, U, of)' /\ (receiver'[n].uuid = 0 => receiver'[n].seq = 0)
  <2>1. CASE Reject(m, n)
    BY <1>3, <2>1, NoReceiverFits DEF Reject
  <2>2. CASE UNCHANGED receiver
    <3>1. receiver'[n] = receiver[n] /\ tmp'[n] = tmp[n] /\ ReceiverFits(n, U, of)
      BY <1>2, <2>2 DEF SessionsFit
    <3>2. receiver[n].uuid = 0 => receiver[n].seq = 0
      BY DEF SessionsFit, Numbered
    <3> QED
      BY <3>1, <3>2, ReceiverSame
  <2> QED
    BY <1>2, <2>1, <2>2
<1>6. ASSUME NEW k \in Node, Sending(k), torn[k] \/ raced[k]
      PROVE  torn'[k] \/ raced'[k]
  <2>1. ~Ended(k)
    BY <1>6 DEF Sending, Ended
  <2>2. \/ UNCHANGED <<torn, raced>>
        \/ /\ raced' = [raced EXCEPT ![n] = @ \/ ~Ended(n)]
           /\ \A j \in Node \ {n} : torn'[j] = torn[j]
    BY <1>3 DEF OnSendCheckpoint_End
  <2> QED
    BY <1>3, <1>6, <2>1, <2>2
<1> QED
  BY <1>1, <1>2, <1>4, <1>5, <1>6, ReceiverSessions

-----------------------------------------------------------------------------
(* What follows from the transfers.                                        *)

(* An end that is taken comes after all the blocks of a transfer: the      *)
(* state machines that load then hold what the sender's held when it began.*)
LEMMA EndLoads ==
  ASSUME Types, NEW m \in Node, NEW n \in Node, OnSendCheckpoint_End(m, n),
         NEW U, NEW of, SessionsFit(U, of)
  PROVE  /\ Head(net[m][n]).uuid # 0
         /\ ( /\ IsReceiverFinish(n, Head(net[m][n])) /\ Load(n, Len(SMList))
              /\ ~Head(net[m][n]).torn /\ ~KeepsOwn(n) ) => Whole(ckpt'[n])
<1>0. Handles(m, n, "END") /\ Carries(Told(U, of))
  BY DEF OnSendCheckpoint_End, SessionsFit
<1>m. PICK msg \in Told(U, of) : msg = Head(net[m][n]) /\ msg.flag = "END"
  BY <1>0, ReceiverTold DEF Handles
<1>u. PICK u \in U : u = msg.uuid
  BY <1>m DEF Told
<1>a. PICK a \in Session : a = of[u]
  BY DEF SessionsFit
<1>1. a.done /\ msg.seq = Len(a.sent) + 1 /\ (a.bad => msg.torn)
  BY <1>m, <1>u, <1>a DEF Told
<1>2. u # 0
  BY DEF SessionsFit, Numbered, Types, TransferTypes
<1>3. SessionOK(a) /\ ReceiverFits(n, U, of)
  BY <1>a DEF SessionsFit
<1>4. ASSUME IsReceiverFinish(n, msg), Load(n, Len(SMList)), ~msg.torn, ~KeepsOwn(n)
      PROVE  Whole(ckpt'[n])
  <2>f. PICK f \in [SM -> Seq(Written)] : f = tmp[n]
    BY DEF Types, TransferTypes
  <2>1. Len(a.sent) \in Nat /\ receiver[n].seq \in Nat /\ a.held \in [SM -> Past]
    BY SessionFields DEF Types, TransferTypes
  <2>2. receiver[n].uuid = u /\ receiver[n].seq = Len(a.sent)
    BY <1>1, <1>4, <1>u, <2>1 DEF IsReceiverFinish
  <2>3. InFiles(a, Len(a.sent), u, f)
    BY <1>2, <1>3, <1>a, <2>2, <2>f DEF ReceiverFits
  <2>4. ckpt'[n] = [s \in SM |->
            IF f[s] # <<>> /\ \E i \in 1..Len(SMList) : SMList[i] = s
            THEN Last(f[s]).data ELSE ckpt[n][s]]
    BY <1>4, <2>f DEF Load, Types, LogTypes
  <2>5. ASSUME NEW s \in SM PROVE ckpt'[n][s] = a.held[s]
    <3>1. f[s] \in Seq(Written) /\ Len(f[s]) \in Nat
      OBVIOUS
    <3>2. CASE f[s] # <<>>
      <4>1. Len(f[s]) \in 1..Len(f[s])
        BY <3>1, <3>2
      <4>2. f[s][Len(f[s])].data = a.held[s]
        BY <1>1, <1>4, <2>3, <4>1 DEF InFiles
      <4> QED
        BY <2>4, <3>2, <4>2, ListedOnce DEF Last
    <3>3. CASE f[s] = <<>>
      <4> DEFINE b == [sm |-> s, off |-> 1]
      <4>1. ckpt'[n][s] = {}
        BY <1>4, <2>4, <2>f, <3>3 DEF KeepsOwn
      <4>2. b \in Block /\ b.sm = s /\ b.off = 1
        <5>1. 1 \in 1..BlocksOf[s]
          BY TransferAssumption
        <5> QED
          BY <5>1 DEF Block
      <4> HIDE DEF b
      <4>3. ASSUME a.held[s] # {} PROVE FALSE
        <5>1. b \in BlocksHeld(a.held)
          BY <4>2, <4>3 DEF BlocksHeld
        <5>2. PICK i \in 1..Len(a.sent) : a.sent[i] = b
          BY <1>1, <1>3, <5>1 DEF SessionOK, Sent
        <5>3. 1 \in 1..Len(f[s])
          BY <2>3, <4>2, <5>2 DEF InFiles
        <5> QED
          BY <3>3, <5>3
      <4> QED
        BY <4>1, <4>3
    <3> QED
      BY <3>2, <3>3
  <2>6. ckpt'[n] \in [SM -> Past]
    BY <1>4, LoadTypes, ListedOnce
  <2>7. ckpt'[n] = a.held
    BY <2>1, <2>5, <2>6
  <2> QED
    BY <1>1, <1>3, <1>4, <2>7 DEF SessionOK
<1>5. msg.uuid # 0
  BY <1>u, <1>2
<1> QED
  BY <1>m, <1>4, <1>5

(* The bounds of the numbers of both ends.                                 *)
LEMMA TypesBound ==
  ASSUME Types, NEW U, NEW of, SessionsFit(U, of)
  PROVE  TypeOK
<1>1. Cardinality(Block) \in Nat /\ sessions \in Nat
      /\ sender \in [Node -> SenderRecord]
      /\ receiver \in [Node -> [uuid : Nat, seq : Nat]]
  BY BlocksFinite DEF Types, TransferTypes
<1>2. ASSUME NEW n \in Node
      PROVE  /\ sender[n].uuid \in 0..sessions
             /\ sender[n].seq \in 0..(Cardinality(Block) + 1)
  BY <1>1 DEF SessionsFit, Numbered, SenderRecord
<1>3. ASSUME NEW n \in Node
      PROVE  /\ receiver[n].uuid \in 0..sessions
             /\ receiver[n].seq \in 0..Cardinality(Block)
  <2>1. CASE receiver[n].uuid = 0
    BY <1>1, <2>1 DEF SessionsFit, Numbered
  <2>2. CASE receiver[n].uuid # 0
    <3>1. PICK u \in U : u = receiver[n].uuid
      BY <2>2 DEF SessionsFit, ReceiverFits
    <3>2. PICK a \in Session : a = of[u]
      BY DEF SessionsFit
    <3>3. receiver[n].seq <= Len(a.sent) /\ SessionOK(a)
      BY <2>2, <3>1, <3>2 DEF SessionsFit, ReceiverFits
    <3>4. Len(a.sent) \in Nat /\ Len(a.sent) <= Cardinality(Block)
      BY <3>3, SentOnce, SessionFields
    <3>5. u \in 1..sessions
      BY DEF SessionsFit, Numbered
    <3> QED
      BY <1>1, <3>1, <3>3, <3>4, <3>5
  <2> QED
    BY <2>1, <2>2
<1>4. sender \in [Node ->
            [pc : {"none", "pausing", "locking", "begin", "blocks", "finishing",
                   "ended"},
             to : Node, uuid : 0..sessions, seq : 0..(Cardinality(Block) + 1),
             left : SUBSET Block, ack : Nat, end : BOOLEAN,
             needContinue : BOOLEAN, asleep : BOOLEAN]]
  BY <1>1, <1>2 DEF SenderRecord
<1>5. receiver \in [Node -> [uuid : 0..sessions, seq : 0..Cardinality(Block)]]
  BY <1>1, <1>3
<1> QED
  BY <1>4, <1>5 DEF TypeOK, Types, LogTypes, TransferTypes, HistoryTypes

(* What is in the files of a receiver.                                     *)
LEMMA CountedBlocks ==
  ASSUME NEW a \in Session, SessionOK(a), NEW q \in Nat, q <= Len(a.sent),
         NEW u, NEW f \in [SM -> Seq(Written)], InFiles(a, q, u, f)
  PROVE  Cardinality(UNION {{s} \X DOMAIN f[s] : s \in SM}) = q
<1> DEFINE got == UNION {{s} \X DOMAIN f[s] : s \in SM}
           at == [i \in 1..q |-> <<a.sent[i].sm, a.sent[i].off>>]
<1>1. Len(a.sent) \in Nat /\ \A i \in 1..q : i \in 1..Len(a.sent) /\ a.sent[i] \in Block
  BY SessionFields
<1>2. \A s \in SM : DOMAIN f[s] = 1..Len(f[s])
  OBVIOUS
<1>3. ASSUME NEW i \in 1..q PROVE at[i] \in got
  <2>1. a.sent[i].sm \in SM /\ a.sent[i].off \in DOMAIN f[a.sent[i].sm]
    BY <1>1, <1>2, BlockFields DEF InFiles
  <2> QED
    BY <2>1
<1>4. ASSUME NEW i \in 1..q, NEW j \in 1..q, at[i] = at[j] PROVE i = j
  <2>1. a.sent[i].sm = a.sent[j].sm /\ a.sent[i].off = a.sent[j].off
    BY <1>4
  <2>2. a.sent[i] = a.sent[j]
    BY <1>1, <2>1, BlockFields
  <2> QED
    BY <1>1, <2>2, SentOnce
<1>5. ASSUME NEW g \in got PROVE \E i \in 1..q : at[i] = g
  <2>1. PICK s \in SM : \E k \in 1..Len(f[s]) : g = <<s, k>>
    BY <1>2
  <2>k. PICK k \in 1..Len(f[s]) : g = <<s, k>>
    BY <2>1
  <2>2. PICK i \in 1..q : a.sent[i].sm = s /\ a.sent[i].off = k
    BY DEF InFiles
  <2> QED
    BY <2>k, <2>2
<1>6. at \in Bijection(1..q, got)
  <2>1. at \in [1..q -> got]
    BY <1>3
  <2> HIDE DEF at, got
  <2> QED
    BY <1>4, <1>5, <2>1 DEF Bijection, Injection, IsInjective, Surjection
<1>7. IsFiniteSet(1..q) /\ Cardinality(1..q) = q
  BY FS_Interval
<1> HIDE DEF at, got
<1>8. ExistsBijection(1..q, got)
  BY <1>6 DEF ExistsBijection
<1>9. Cardinality(got) = q
  BY <1>7, <1>8, FS_Bijection
<1> QED
  BY <1>9 DEF got

(* A state machine has all its blocks before the next one has any.         *)
LEMMA BlocksComplete ==
  ASSUME NEW a \in Session, SessionOK(a), NEW q \in Nat, q <= Len(a.sent),
         NEW u, NEW f \in [SM -> Seq(Written)], InFiles(a, q, u, f),
         NEW i \in 1..Len(SMList), NEW j \in 1..Len(SMList), i < j,
         f[SMList[i]] # <<>>, f[SMList[j]] # <<>>
  PROVE  Len(f[SMList[i]]) = BlocksOf[SMList[i]]
<1>s. PICK s \in SM, t \in SM : s = SMList[i] /\ t = SMList[j]
  BY ListedOnce
<1>1. /\ Len(a.sent) \in Nat /\ Len(f[s]) \in Nat /\ BlocksOf[s] \in Nat
      /\ 1 \in 1..Len(f[s]) /\ 1 \in 1..Len(f[t])
      /\ \A k \in 1..q : k \in 1..Len(a.sent)
      /\ \A k \in 1..Len(a.sent) : a.sent[k] \in Block
  <2>1. f[s] \in Seq(Written) /\ f[t] \in Seq(Written) /\ f[s] # <<>> /\ f[t] # <<>>
    BY <1>s
  <2>2. Len(f[s]) \in Nat /\ 1 \in 1..Len(f[s]) /\ 1 \in 1..Len(f[t])
    BY <2>1
  <2>3. Len(a.sent) \in Nat /\ \A k \in 1..Len(a.sent) : a.sent[k] \in Block
    BY SessionFields
  <2>4. BlocksOf[s] \in Nat
    BY TransferAssumption
  <2> QED
    BY <2>2, <2>3, <2>4
<1>2. PICK p \in 1..q : a.sent[p].sm = t
  BY <1>1 DEF InFiles
<1>3. PICK p0 \in 1..q : a.sent[p0].sm = s
  BY <1>1 DEF InFiles
<1>4. a.held[s] # {}
  BY <1>1, <1>3 DEF SessionOK, BlocksHeld
<1>5. ASSUME NEW k \in 1..BlocksOf[s] PROVE k \in 1..Len(f[s])
  <2> DEFINE b == [sm |-> s, off |-> k]
  <2>1. b \in Block /\ b.sm = s /\ b.off = k
    BY DEF Block
  <2> HIDE DEF b
  <2>2. b \in BlocksHeld(a.held)
    BY <1>4, <2>1 DEF BlocksHeld
  <2>3. Before(b, a.sent[p])
    BY <1>2, <1>s, <2>1 DEF Before
  <2>4. ~Before(a.sent[p], b) /\ b # a.sent[p]
    BY <1>1, <2>1, <2>3, BeforeIsOrder
  <2>5. PICK x \in 1..Len(a.sent) : a.sent[x] = b
    BY <1>1, <2>2, <2>4 DEF SessionOK, Sent
  <2>6. ~(p < x) /\ p # x
    BY <1>1, <2>4, <2>5 DEF SessionOK
  <2>7. x \in 1..q
    BY <1>1, <2>6
  <2> QED
    BY <2>1, <2>5, <2>7 DEF InFiles
<1>6. ASSUME NEW k \in 1..Len(f[s]) PROVE k \in 1..BlocksOf[s]
  <2>1. PICK x \in 1..q : a.sent[x].sm = s /\ a.sent[x].off = k
    BY DEF InFiles
  <2> QED
    BY <1>1, <2>1, BlockFields
<1>7. BlocksOf[s] \in 1..BlocksOf[s] /\ Len(f[s]) \in 1..Len(f[s])
  BY <1>1, TransferAssumption
<1>8. BlocksOf[s] <= Len(f[s]) /\ Len(f[s]) <= BlocksOf[s]
  BY <1>5, <1>6, <1>7
<1> QED
  BY <1>1, <1>8, <1>s

LEMMA InOrder ==
  ASSUME Types, NEW U, NEW of, SessionsFit(U, of)
  PROVE  ReceivedInOrder
<1> SUFFICES ASSUME NEW n \in Node, receiver[n].uuid # 0
             PROVE  LET r == receiver[n]
                        files == tmp[n]
                        got == UNION {{s} \X DOMAIN files[s] : s \in SM}
                    IN  /\ Cardinality(got) = r.seq
                        /\ \A g \in got : LET b == files[g[1]][g[2]]
                                         IN  b.uuid = r.uuid /\ b.off = g[2]
                        /\ \A i, j \in 1..Len(SMList) :
                              i < j /\ files[SMList[i]] # <<>>
                                    /\ files[SMList[j]] # <<>> =>
                                Len(files[SMList[i]]) = BlocksOf[SMList[i]]
  BY DEF ReceivedInOrder
<1>u. PICK u \in U : u = receiver[n].uuid
  BY DEF SessionsFit, ReceiverFits
<1>a. PICK a \in Session : a = of[u]
  BY DEF SessionsFit
<1>q. PICK q \in Nat : q = receiver[n].seq
  BY DEF Types, TransferTypes
<1>f. PICK f \in [SM -> Seq(Written)] : f = tmp[n]
  BY DEF Types, TransferTypes
<1>1. SessionOK(a) /\ q <= Len(a.sent) /\ InFiles(a, q, u, f)
  BY <1>u, <1>a, <1>q, <1>f DEF SessionsFit, ReceiverFits
<1> DEFINE got == UNION {{s} \X DOMAIN f[s] : s \in SM}
<1>2. Cardinality(got) = q
  BY <1>1, CountedBlocks
<1>3. ASSUME NEW g \in got PROVE f[g[1]][g[2]].uuid = u /\ f[g[1]][g[2]].off = g[2]
  <2>1. \A s \in SM : DOMAIN f[s] = 1..Len(f[s])
    OBVIOUS
  <2>2. PICK s \in SM : \E k \in 1..Len(f[s]) : g = <<s, k>>
    BY <2>1
  <2>k. PICK k \in 1..Len(f[s]) : g = <<s, k>>
    BY <2>2
  <2>3. f[s][k].uuid = u /\ f[s][k].off = k
    BY <1>1 DEF InFiles
  <2> QED
    BY <2>k, <2>3
<1>4. \A i, j \in 1..Len(SMList) :
          i < j /\ f[SMList[i]] # <<>> /\ f[SMList[j]] # <<>> =>
            Len(f[SMList[i]]) = BlocksOf[SMList[i]]
  BY <1>1, BlocksComplete
<1> QED
  BY <1>2, <1>3, <1>4, <1>u, <1>q, <1>f

-----------------------------------------------------------------------------
(* The invariants together.                                                *)

LEMMA SessionsInitially == Init => SessionInv
<1> SUFFICES ASSUME Init PROVE SessionInv
  OBVIOUS
<1> DEFINE of == [u \in {} |-> u]
<1>1. {} \in SUBSET Nat /\ of \in [{} -> Session]
  OBVIOUS
<1> HIDE DEF of
<1>2. Carries(Told({}, of))
  BY DEF Init, Carries
<1>3. \A n \in Node : /\ sender[n].pc = "none" /\ sender[n].uuid = 0
                      /\ sender[n].seq = 0
                      /\ receiver[n].uuid = 0 /\ receiver[n].seq = 0
  BY NoSenderFits DEF Init, NoSender, NoReceiver
<1>4. \A n \in Node : SenderFits(n, {}, of) /\ ReceiverFits(n, {}, of)
  BY <1>3 DEF SenderFits, ReceiverFits
<1>5. Numbered({})
  <2>1. sessions = 0 /\ Cardinality(Block) \in Nat
    BY BlocksFinite DEF Init
  <2> QED
    BY <1>3, <2>1 DEF Numbered
<1>6. SessionsFit({}, of)
  BY <1>1, <1>2, <1>4, <1>5 DEF SessionsFit
<1> QED
  BY <1>1, <1>6 DEF SessionInv

LEMMA SessionStep ==
  ASSUME Types, Types', PausedInv, CheckpointInv, SessionInv, [Next]_vars
  PROVE  SessionInv'
<1>1. PICK U \in SUBSET Nat : \E of \in [U -> Session] : SessionsFit(U, of)
  BY DEF SessionInv
<1>2. PICK of \in [U -> Session] : SessionsFit(U, of)
  BY <1>1
<1>3. ASSUME SessionsFit(U, of)' PROVE SessionInv'
  BY <1>3 DEF SessionInv
<1>4. CASE UNCHANGED vars
  <2>1. SessionsFit(U, of)' \/ Node = {}
    BY <1>2, <1>4, NodeSessions
  <2>2. ASSUME Node = {} PROVE SessionsFit(U, of)'
    BY <1>2, <1>4, <2>2
       DEF SessionsFit, Carries, Numbered, vars, transferVars
  <2> QED
    BY <1>3, <2>1, <2>2
<1>5. ASSUME NEW n \in Node,
             \/ Learn(n) \/ Clean(n) \/ Replay(n) \/ User(n) \/ Fall(n)
             \/ ExitCheckpointMode(n) \/ WaitReplayer(n) \/ LockCheckpoint(n)
             \/ SendFails(n) \/ WakesUp(n) \/ GiveUp(n) \/ Finish(n)
             \/ (SendCheckpointEnd(n) /\ UNCHANGED net)
      PROVE  SessionInv'
  BY <1>2, <1>3, <1>5, NodeSessions
<1>6. ASSUME NEW n \in Node, Rise(n) PROVE SessionInv'
  BY <1>2, <1>3, <1>6, RiseSessions
<1>7. ASSUME NEW n \in Node, SendCheckpointBegin(n) PROVE SessionInv'
  BY <1>2, <1>7, BeginSessions DEF SessionInv
<1>8. ASSUME NEW n \in Node, SendBuffer(n) PROVE SessionInv'
  BY <1>2, <1>8, BufferSessions DEF SessionInv
<1>9. ASSUME NEW n \in Node, SendCheckpointEnd(n) PROVE SessionInv'
  <2>1. CASE UNCHANGED net
    BY <1>5, <1>9, <2>1
  <2>2. CASE Post(n, sender[n].to, <<EndMsg(n)>>)
    BY <1>2, <1>9, <2>2, FinalSessions DEF SessionInv
  <2> QED
    BY <1>9, <2>1, <2>2 DEF SendCheckpointEnd
<1>10. ASSUME NEW m \in Node, NEW n \in Node,
              \/ AskforCheckpoint(m, n) \/ OnSendCheckpointAck(m, n)
              \/ IgnoreCheckpointMsg(m, n) \/ Lose(m, n)
       PROVE  SessionInv'
  BY <1>2, <1>3, <1>10, RequestSessions
<1>11. ASSUME NEW m \in Node, NEW n \in Node, OnAskforCheckpoint(m, n)
       PROVE  SessionInv'
  BY <1>2, <1>3, <1>11, AskSessions
<1>12. ASSUME NEW m \in Node, NEW n \in Node,
              \/ OnSendCheckpoint_Begin(m, n) \/ OnSendCheckpoint_Ing(m, n)
              \/ OnSendCheckpoint_End(m, n)
       PROVE  SessionInv'
  BY <1>2, <1>3, <1>12, BeginReceived, BlockReceived, EndReceived
<1> QED
  BY <1>4, <1>5, <1>6, <1>7, <1>8, <1>9, <1>10, <1>11, <1>12
     DEF Next, SenderStep, Deliver

LEMMA LogStep ==
  ASSUME Types, LogInv, CheckpointInv, SessionInv, [Next]_vars
  PROVE  LogInv'
<1>1. CASE UNCHANGED vars
  BY <1>1, LogQuiet DEF vars, logVars, cleanerVars, transferVars, history
<1>2. ASSUME NEW n \in Node,
             \/ Learn(n) \/ Clean(n) \/ Replay(n) \/ User(n) \/ Fall(n) \/ Rise(n)
             \/ SenderStep(n) \/ ExitCheckpointMode(n)
      PROVE  LogInv'
  BY <1>2, LearnLog, CleanLog, ReplayLog, OtherLog, RiseLog
<1>3. ASSUME NEW m \in Node, NEW n \in Node,
             AskforCheckpoint(m, n) \/ Lose(m, n)
      PROVE  LogInv'
  BY <1>3, OtherLog
<1>4. ASSUME NEW m \in Node, NEW n \in Node, Deliver(m, n) PROVE LogInv'
  <2>1. CASE OnSendCheckpoint_End(m, n)
    BY <2>1, EndLoads, EndLog DEF SessionInv
  <2> QED
    BY <1>4, <2>1, OtherLog, BeginLog DEF Deliver
<1> QED
  BY <1>1, <1>2, <1>3, <1>4 DEF Next

LEMMA CheckpointStep ==
  ASSUME Types, Types', LogInv, CheckpointInv, SessionInv, [Next]_vars
  PROVE  CheckpointInv'
<1>1. CASE UNCHANGED vars
  BY <1>1 DEF vars, logVars, replayVars, history, CheckpointInv, Whole, Held,
              CPInstanceID
<1>2. ASSUME NEW n \in Node,
             \/ Learn(n) \/ Clean(n) \/ Replay(n) \/ User(n) \/ Fall(n) \/ Rise(n)
             \/ SenderStep(n) \/ ExitCheckpointMode(n)
      PROVE  CheckpointInv'
  BY <1>2, ReplayCheckpoint, RiseCheckpoint, OtherCheckpoint
<1>3. ASSUME NEW m \in Node, NEW n \in Node,
             AskforCheckpoint(m, n) \/ Lose(m, n)
      PROVE  CheckpointInv'
  BY <1>3, OtherCheckpoint
<1>4. ASSUME NEW m \in Node, NEW n \in Node, Deliver(m, n) PROVE CheckpointInv'
  <2>1. CASE OnSendCheckpoint_End(m, n)
    <3>1. PICK U \in SUBSET Nat : \E of \in [U -> Session] : SessionsFit(U, of)
      BY DEF SessionInv
    <3>2. PICK of \in [U -> Session] : SessionsFit(U, of)
      BY <3>1
    <3> QED
      BY <2>1, <3>2, EndLoads, EndCheckpoint
  <2> QED
    BY <1>4, <2>1, OtherCheckpoint DEF Deliver
<1> QED
  BY <1>1, <1>2, <1>3, <1>4 DEF Next

LEMMA PausedStep ==
  ASSUME Types, PausedInv, [Next]_vars
  PROVE  PausedInv'
<1>1. CASE UNCHANGED vars
  BY <1>1 DEF vars, logVars, replayVars, transferVars, history, PausedInv
<1>2. ASSUME NEW n \in Node,
             \/ Learn(n) \/ Clean(n) \/ Replay(n) \/ User(n) \/ Fall(n) \/ Rise(n)
             \/ SenderStep(n) \/ ExitCheckpointMode(n)
      PROVE  PausedInv'
  BY <1>2, ReplayPaused, UserPaused, RisePaused, SenderPaused, OtherPaused
<1>3. ASSUME NEW m \in Node, NEW n \in Node,
             AskforCheckpoint(m, n) \/ Deliver(m, n) \/ Lose(m, n)
      PROVE  PausedInv'
  BY <1>3, OtherPaused DEF Deliver
<1> QED
  BY <1>1, <1>2, <1>3 DEF Next

IInv == Types /\ LogInv /\ CheckpointInv /\ PausedInv /\ SessionInv

LEMMA IInvInitially == Init => IInv
BY TypesInit, LogInitially, CheckpointInitially, PausedInitially, SessionsInitially
   DEF IInv

LEMMA IInvStep == IInv /\ [Next]_vars => IInv'
<1> SUFFICES ASSUME IInv, [Next]_vars PROVE IInv'
  OBVIOUS
<1>1. Types'
  BY TypesStep DEF IInv, CheckpointInv
<1> QED
  BY <1>1, LogStep, CheckpointStep, PausedStep, SessionStep DEF IInv

LEMMA IInvAlways == Spec => []IInv
BY IInvInitially, IInvStep, PTL DEF Spec

-----------------------------------------------------------------------------
(* The theorems.                                                           *)

(* A node that serves the instances from its minimum on (OnAskforLearn)    *)
(* has every record after the minimum, which the cleaner deletes before it *)
(* moves the minimum and saves only once in an interval.                   *)
THEOREM ServesWhatItOffers == Spec => []OnlyMinMissing
<1>1. IInv => OnlyMinMissing
  <2> SUFFICES ASSUME IInv, NEW n \in Node, up[n] = "up",
                      phase[n] \notin {"hollow", "mixed"},
                      NEW i \in (minCache[n] + 1)..(now[n] - 1)
               PROVE  i \in log[n]
    BY DEF OnlyMinMissing
  <2>1. minCache[n] \in Nat /\ now[n] \in Nat
    BY LogNumbers DEF IInv
  <2>2. phase[n] \in {"none", "cleared"}
    BY DEF IInv, Types, HistoryTypes
  <2>3. CASE phase[n] = "none"
    BY <2>1, <2>3 DEF IInv, LogInv, LogFits, RecordsFit
  <2>4. CASE phase[n] = "cleared"
    BY <2>1, <2>4 DEF IInv, LogInv, ClearedFits
  <2> QED
    BY <2>2, <2>3, <2>4
<1> QED
  BY <1>1, IInvAlways, PTL

(* Instance::Init fails only where the log was written after a transfer    *)
(* had cleared it, and what a node plays of its log on its checkpoint      *)
(* leaves no instance out, if the checkpoint is one that a node held.      *)
THEOREM ComesBackWhole == Spec => []RecoversWhole
<1>1. IInv => RecoversWhole
  BY DEF IInv, LogInv, ClearedFits, CheckpointInv, RecoversWhole, RestartsOK, NoGap
<1> QED
  BY <1>1, IInvAlways, PTL

(* What CheckpointReceiver counts by m_llSequence are the first blocks of  *)
(* one sender, each once, in the files in their order, and the numbers of  *)
(* both ends stay in their bounds.                                         *)
THEOREM ReceivesInOrder == Spec => []TransferInv
<1>1. IInv => TransferInv
  BY TypesBound, InOrder DEF IInv, SessionInv, TransferInv
<1> QED
  BY <1>1, IInvAlways, PTL

(* Between CheckpointSender::LockCheckpoint and the end of what it sends   *)
(* the checkpoint does not change: the replayer has said that it is paused *)
(* and nobody has continued it.                                            *)
THEOREM CheckpointFrozen == Spec => SendsFrozen
<1>1. IInv /\ [Next]_vars =>
        [\A n \in Node : Sending(n) /\ ~raced'[n] => ckpt'[n] = ckpt[n]]_vars
  BY Frozen DEF IInv
<1> QED
  BY <1>1, IInvAlways, PTL DEF Spec, SendsFrozen
=============================================================================
