--------------------------- MODULE MessagingProofs ---------------------------
(***************************************************************************)
(* Proofs about a connection from one node to another: what the writing    *)
(* loop, epoll and the timers know of one another, the objects of the      *)
(* reading loop, and the frames that the connection carries.               *)
(***************************************************************************)
EXTENDS Messaging, SequenceTheorems, TLAPS

-----------------------------------------------------------------------------
(* What the types leave out.                                               *)
Unit == Message \X (1..FrameLen)
Wpc == {"timeout", "epoll", "onwrite", "clear", "write"}

NetTypes ==
    /\ chan \in [Conn -> ChanState] /\ wire \in [Conn -> Seq(Unit)]
    /\ conn \in 0..MaxConn /\ held \in SUBSET Conn
    /\ \A c \in Conn : Len(wire[c]) <= Buffer

WriterTypes ==
    /\ outQ \in Seq(Message) /\ outMem \in Nat /\ left \in Seq(Unit)
    /\ wants \in BOOLEAN /\ destroyed \in BOOLEAN /\ idle \in BOOLEAN
    /\ fd \in Fd \union {0} /\ timer \in Fd \union {0}
    /\ entry \in [Fd -> {"none", "zero", "out"}] /\ polled \in SUBSET Fd
    /\ wpc \in Wpc
    /\ Len(outQ) <= MaxQueue + 1 /\ outMem <= MaxMem + 1 /\ Len(left) <= FrameLen

ReaderTypes ==
    /\ fdQueue \in Seq(Conn) /\ object \in [Conn -> {"none", "live", "destroyed"}]
    /\ readMap \in SUBSET Conn /\ part \in [Conn -> Seq(Unit)]
    /\ inQ \in Seq(Message) /\ inMem \in Int /\ taken \in Message \union {Nothing}
    /\ memRead \in Int /\ heard \in SUBSET Message
    /\ \A c \in Conn : Len(part[c]) < FrameLen
    /\ Len(inQ) <= MaxInQ + 1

SenderTypes ==
    /\ next \in 1..MaxMsg + 1 /\ udpQ \in Seq(Datagrams) /\ Len(udpQ) <= MaxUdpQ + 1
    /\ dgrams \in SUBSET Datagrams /\ faults \in 0..MaxFaults

Types == NetTypes /\ WriterTypes /\ ReaderTypes /\ SenderTypes

-----------------------------------------------------------------------------
(* The event of the writing loop, its entry, its timer and its place in    *)
(* epoll: where the loop is says which of them it has.                     *)
EventInv ==
    /\ \A f \in Fd : entry[f] = "out" <=> f \in polled
    /\ polled \subseteq {fd}
    /\ fd \in polled => wants /\ timer = 0 /\ ~destroyed
    /\ wpc = "onwrite" => fd \in polled
    /\ wpc = "clear" => wants /\ fd \notin polled /\ timer = 0 /\ ~destroyed
    /\ timer # 0 => timer = fd /\ wants /\ entry[fd] # "none"
    /\ destroyed => wants /\ timer = 0
    /\ wants => \/ fd \in polled \/ timer = fd \/ destroyed \/ wpc = "clear"
    /\ wants \/ outQ # <<>> => fd # 0
    /\ outMem = Len(outQ)

(* What the writer, the kernel and the reader know of a connection.        *)
ConnInv ==
    /\ fd = 0 <=> conn = 0
    /\ conn = 0 => left = <<>>
    /\ conn # 0 => chan[conn] \in {"connecting", "refused", "open", "reset"}
    /\ wpc = "onwrite" => chan[conn] \in {"open", "reset"}
    /\ \A c \in Conn :
          /\ chan[c] \in {"connecting", "refused"} =>
                c = conn /\ wire[c] = <<>> /\ left = <<>>
          /\ chan[c] = "open" => c = conn
          /\ c \in held => chan[c] \in {"open", "closed", "reset"}

ObjectInv ==
    /\ held = Range(fdQueue) \union {c \in Conn : object[c] # "none"}
    /\ readMap = {c \in Conn : object[c] = "live"}
    /\ \A c \in Conn :
          /\ c \in Range(fdQueue) => object[c] = "none"
          /\ object[c] = "destroyed" => chan[c] \in {"closed", "reset"}
          /\ part[c] # <<>> => c \in readMap

-----------------------------------------------------------------------------
(* The place in its frame of the i-th unit of a stream.                    *)
Place(i) == ((i - 1) % FrameLen) + 1

(* Frames one after the other, in the order of their messages.             *)
Aligned(s) ==
    \A i \in 1..Len(s) :
       /\ s[i][2] = Place(i)
       /\ \A j \in i..Len(s) :
             IF j - i = s[j][2] - s[i][2] THEN s[j][1] = s[i][1]
                                          ELSE s[j][1] > s[i][1]

Units(s) == {s[i][1] : i \in 1..Len(s)}
Carried(c) == Units(Stream(c))
Handed == heard \union Range(inQ) \union ({taken} \ {Nothing})

StreamInv ==
    \A c \in Conn :
       /\ Aligned(Stream(c))
       /\ c = conn /\ chan[c] = "open" => Len(Stream(c)) % FrameLen = 0

OnceInv ==
    /\ \A m \in Handed : m < next
    /\ \A m \in Range(outQ) : m < next /\ m \notin Datagrams \union Handed
    /\ \A i, j \in 1..Len(outQ) : i < j => outQ[i] < outQ[j]
    /\ \A m \in Range(udpQ) \union dgrams : m < next
    /\ \A i, j \in 1..Len(inQ) : i # j /\ inQ[i] = inQ[j] => inQ[i] \in Datagrams
    /\ \A c \in Conn : \A m \in Carried(c) :
          /\ m < next /\ m \notin Datagrams \union Handed
          /\ \A k \in Range(outQ) : m < k
          /\ \A d \in Conn \ {c} : m \notin Carried(d)

IInv == Types /\ EventInv /\ ConnInv /\ ObjectInv /\ StreamInv /\ OnceInv

-----------------------------------------------------------------------------
(* Remainders.                                                             *)

LEMMA Remainder ==
  ASSUME NEW k \in Nat \ {0}, NEW a \in Nat
  PROVE  /\ a % k \in 0..(k - 1)
         /\ a \div k \in Nat
         /\ a = k * (a \div k) + (a % k)
OBVIOUS

LEMMA RemainderUnique ==
  ASSUME NEW k \in Nat \ {0}, NEW p \in Int, NEW q \in Int,
         NEW r \in 0..(k - 1), NEW s \in 0..(k - 1), k * p + r = k * q + s
  PROVE  r = s
<1>1. k * (p - q) = s - r
  OBVIOUS
<1>2. ASSUME p - q >= 1 PROVE FALSE
  <2>1. k * (p - q) >= k
    BY <1>2
  <2> QED
    BY <1>1, <2>1
<1>3. ASSUME p - q <= -1 PROVE FALSE
  <2>1. k * (p - q) <= -k
    BY <1>3
  <2> QED
    BY <1>1, <2>1
<1>4. p - q = 0
  BY <1>2, <1>3
<1> QED
  BY <1>1, <1>4

LEMMA RemainderOf ==
  ASSUME NEW k \in Nat \ {0}, NEW a \in Nat, NEW q \in Int,
         NEW r \in 0..(k - 1), a = k * q + r
  PROVE  a % k = r
<1>1. /\ a % k \in 0..(k - 1) /\ a \div k \in Nat
      /\ a = k * (a \div k) + (a % k)
  BY Remainder
<1>2. k * (a \div k) + (a % k) = k * q + r
  BY <1>1
<1>3. a \div k \in Int /\ a % k \in 0..(k - 1)
  BY <1>1
<1> QED
  BY <1>2, <1>3, RemainderUnique

LEMMA RemainderAdds ==
  ASSUME NEW k \in Nat \ {0}, NEW a \in Nat, NEW b \in 0..(k - 1)
  PROVE  /\ b % k = b
         /\ (a + k) % k = a % k
         /\ a >= k => (a - k) % k = a % k
         /\ a % k = 0 => (a + b) % k = b
         /\ (a + 1) % k = 0 \/ (a + 1) % k = (a % k) + 1
<1> DEFINE q == a \div k
           r == a % k
<1>1. r \in 0..(k - 1) /\ q \in Nat /\ a = k * q + r
  BY Remainder
<1> HIDE DEF q, r
<1>2. a + k = k * (q + 1) + r /\ a - k = k * (q - 1) + r
  BY <1>1
<1>3. b % k = b
  <2>1. b = k * 0 + b
    OBVIOUS
  <2> QED
    BY <2>1, RemainderOf
<1>4. (a + k) % k = r
  BY <1>1, <1>2, RemainderOf
<1>5. a >= k => (a - k) % k = r
  BY <1>1, <1>2, RemainderOf
<1>6. ASSUME r = 0 PROVE (a + b) % k = b
  <2>1. a + b = k * q + b
    BY <1>1, <1>6
  <2> QED
    BY <1>1, <2>1, RemainderOf
<1>7. CASE r = k - 1
  <2>1. a + 1 = k * (q + 1) + 0
    BY <1>1, <1>7
  <2>2. (a + 1) % k = 0
    BY <1>1, <2>1, RemainderOf
  <2> QED
    BY <1>3, <1>4, <1>5, <1>6, <2>2 DEF r
<1>8. CASE r # k - 1
  <2>1. a + 1 = k * q + (r + 1) /\ r + 1 \in 0..(k - 1)
    BY <1>1, <1>8
  <2>2. (a + 1) % k = r + 1
    BY <1>1, <2>1, RemainderOf
  <2> QED
    BY <1>3, <1>4, <1>5, <1>6, <2>2 DEF r
<1> QED
  BY <1>7, <1>8

(* The length of a frame.                                                  *)
LEMMA Lengths ==
  /\ HeadLen \in Nat \ {0} /\ BodyLen \in Nat \ {0} /\ FrameLen \in Nat \ {0}
  /\ FrameLen = HeadLen + BodyLen /\ MaxConn \in Nat \ {0} /\ Buffer \in Nat \ {0}
  /\ 0 \notin Conn
BY NetworkAssumption DEF FrameLen, Conn

LEMMA Places ==
  ASSUME NEW n \in Nat
  PROVE  /\ \A i \in 1..FrameLen : Place(i) = i
         /\ \A i \in Nat \ {0} : Place(i + FrameLen) = Place(i) /\ Place(i) \in 1..FrameLen
         /\ \A i \in Nat \ {0} : Place(i + 1) = 1 \/ Place(i + 1) = Place(i) + 1
         /\ n % FrameLen = 0 =>
               /\ \A i \in 1..FrameLen : Place(n + i) = i
               /\ (n + FrameLen) % FrameLen = 0
               /\ n >= FrameLen => (n - FrameLen) % FrameLen = 0
<1> DEFINE k == FrameLen
<1>1. k \in Nat \ {0}
  BY Lengths
<1> HIDE DEF k
<1>2. ASSUME NEW i \in 1..k PROVE ((i - 1) % k) + 1 = i
  <2>1. i - 1 \in 0..(k - 1)
    BY <1>1
  <2>2. (i - 1) % k = i - 1
    BY <1>1, <2>1, RemainderAdds
  <2> QED
    BY <2>2
<1>3. ASSUME NEW i \in Nat \ {0}
      PROVE  /\ (((i + k) - 1) % k) + 1 = ((i - 1) % k) + 1
             /\ ((i - 1) % k) + 1 \in 1..k
             /\ ((((i + 1) - 1) % k) + 1 = 1) \/ ((((i + 1) - 1) % k) + 1 = (((i - 1) % k) + 1) + 1)
  <2>1. i - 1 \in Nat /\ (i + k) - 1 = (i - 1) + k /\ (i + 1) - 1 = (i - 1) + 1 /\ 0 \in 0..(k - 1)
    BY <1>1
  <2>2. /\ ((i - 1) + k) % k = (i - 1) % k
        /\ ((i - 1) + 1) % k = 0 \/ ((i - 1) + 1) % k = ((i - 1) % k) + 1
    BY <1>1, <2>1, RemainderAdds
  <2>3. (i - 1) % k \in 0..(k - 1)
    BY <1>1, <2>1, Remainder
  <2> QED
    BY <1>1, <2>1, <2>2, <2>3
<1>4. ASSUME n % k = 0
      PROVE  /\ \A i \in 1..k : (((n + i) - 1) % k) + 1 = i
             /\ (n + k) % k = 0
             /\ n >= k => (n - k) % k = 0
  <2>1. ASSUME NEW i \in 1..k PROVE ((n + i) - 1) % k = i - 1
    <3>1. (n + i) - 1 = n + (i - 1) /\ i - 1 \in 0..(k - 1)
      BY <1>1
    <3>2. (n + (i - 1)) % k = i - 1
      BY <1>1, <1>4, <3>1, RemainderAdds
    <3> QED
      BY <3>1, <3>2
  <2>2. (n + k) % k = 0 /\ (n >= k => (n - k) % k = 0)
    <3>1. 0 \in 0..(k - 1)
      BY <1>1
    <3>2. (n + k) % k = n % k /\ (n >= k => (n - k) % k = n % k)
      BY <1>1, <3>1, RemainderAdds
    <3> QED
      BY <1>4, <3>2
  <2> QED
    BY <2>1, <2>2
<1> QED
  BY <1>2, <1>3, <1>4 DEF k, Place

-----------------------------------------------------------------------------
(* Sequences of units.                                                     *)

LEMMA UnitFields ==
  ASSUME NEW s \in Seq(Unit), NEW i \in 1..Len(s)
  PROVE  /\ s[i] = <<s[i][1], s[i][2]>> /\ s[i][1] \in Message /\ s[i][1] \in Nat
         /\ s[i][2] \in 1..FrameLen /\ s[i][2] \in Nat
<1>1. s[i] \in Unit
  BY ElementOfSeq
<1> QED
  BY <1>1, WriterAssumption, Lengths DEF Unit, Message

LEMMA FrameType ==
  ASSUME NEW m \in Message
  PROVE  /\ Frame(m) \in Seq(Unit) /\ Len(Frame(m)) = FrameLen
         /\ \A i \in 1..FrameLen : Frame(m)[i] = <<m, i>>
<1>1. FrameLen \in Nat
  BY Lengths
<1>2. Frame(m) \in [1..FrameLen -> Unit]
  BY DEF Frame, Unit
<1>3. Frame(m) \in Seq(Unit) /\ Len(Frame(m)) = FrameLen
  BY <1>1, <1>2, IsASeq
<1> QED
  BY <1>3 DEF Frame

(* The first units of a stream are a stream.                               *)
LEMMA AlignedPrefix ==
  ASSUME NEW s \in Seq(Unit), Aligned(s), NEW t \in Seq(Unit), Len(t) <= Len(s),
         \A i \in 1..Len(t) : t[i] = s[i]
  PROVE  Aligned(t)
<1>1. Len(t) \in Nat /\ Len(s) \in Nat
  BY LenProperties
<1>2. ASSUME NEW i \in 1..Len(t)
      PROVE  /\ t[i][2] = Place(i)
             /\ \A j \in i..Len(t) :
                   IF j - i = t[j][2] - t[i][2] THEN t[j][1] = t[i][1]
                                                ELSE t[j][1] > t[i][1]
  <2>1. i \in 1..Len(s) /\ t[i] = s[i]
    BY <1>1
  <2>2. ASSUME NEW j \in i..Len(t)
        PROVE  j \in i..Len(s) /\ t[j] = s[j]
    BY <1>1
  <2> QED
    BY <2>1, <2>2 DEF Aligned
<1> QED
  BY <1>2 DEF Aligned

(* What follows a whole frame of a stream is a stream of later messages.   *)
LEMMA AlignedRest ==
  ASSUME NEW s \in Seq(Unit), Aligned(s), NEW t \in Seq(Unit),
         Len(s) = FrameLen + Len(t),
         \A i \in 1..Len(t) : t[i] = s[i + FrameLen]
  PROVE  /\ Aligned(t)
         /\ \A i \in 1..Len(t) : t[i][1] > s[1][1]
         /\ Len(s) % FrameLen = 0 => Len(t) % FrameLen = 0
<1> DEFINE k == FrameLen
<1>1. Len(t) \in Nat /\ Len(s) \in Nat /\ k \in Nat \ {0}
  BY LenProperties, Lengths
<1>2. \A i \in Nat \ {0} : Place(i + k) = Place(i)
  BY <1>1, Places
<1>3. ASSUME NEW i \in 1..Len(t)
      PROVE  /\ t[i][2] = Place(i)
             /\ \A j \in i..Len(t) :
                   IF j - i = t[j][2] - t[i][2] THEN t[j][1] = t[i][1]
                                                ELSE t[j][1] > t[i][1]
             /\ t[i][1] > s[1][1]
  <2>1. i + k \in 1..Len(s) /\ t[i] = s[i + k] /\ 1 \in 1..Len(s)
    BY <1>1
  <2>2. t[i][2] = Place(i)
    <3>1. s[i + k][2] = Place(i + k)
      BY <2>1 DEF Aligned
    <3>2. Place(i + k) = Place(i)
      BY <1>1, <1>2
    <3> QED
      BY <2>1, <3>1, <3>2
  <2>3. ASSUME NEW j \in i..Len(t)
        PROVE  IF j - i = t[j][2] - t[i][2] THEN t[j][1] = t[i][1]
                                            ELSE t[j][1] > t[i][1]
    <3>1. j + k \in (i + k)..Len(s) /\ t[j] = s[j + k] /\ (j + k) - (i + k) = j - i
      BY <1>1
    <3>2. IF (j + k) - (i + k) = s[j + k][2] - s[i + k][2]
          THEN s[j + k][1] = s[i + k][1] ELSE s[j + k][1] > s[i + k][1]
      BY <2>1, <3>1 DEF Aligned
    <3> QED
      BY <2>1, <3>1, <3>2
  <2>4. t[i][1] > s[1][1]
    <3>1. s[1][2] = 1
      <4>1. Place(1) = 1
        BY <1>1, Places
      <4> QED
        BY <2>1, <4>1 DEF Aligned
    <3>2. s[i + k][2] \in 1..k
      BY <2>1, UnitFields
    <3>3. (i + k) - 1 # s[i + k][2] - s[1][2]
      BY <1>1, <3>1, <3>2
    <3>4. i + k \in 1..Len(s)
      BY <2>1
    <3> QED
      BY <2>1, <3>3, <3>4 DEF Aligned
  <2> QED
    BY <2>2, <2>3, <2>4
<1>4. Len(s) % k = 0 => Len(t) % k = 0
  <2>1. Len(s) % k = 0 => (Len(s) - k) % k = 0
    BY <1>1, Places
  <2>2. Len(s) - k = Len(t)
    BY <1>1
  <2> QED
    BY <2>1, <2>2
<1> QED
  BY <1>3, <1>4 DEF Aligned

(* The first frame of a stream is that of its first message.               *)
LEMMA AlignedFirst ==
  ASSUME NEW s \in Seq(Unit), Aligned(s), Len(s) = FrameLen
  PROVE  s[1][1] \in Message /\ s = Frame(s[1][1])
<1>1. FrameLen \in Nat \ {0} /\ 1 \in 1..Len(s)
  BY Lengths
<1>2. s[1][1] \in Message
  BY <1>1, UnitFields
<1>3. ASSUME NEW i \in 1..FrameLen PROVE s[i] = <<s[1][1], i>>
  <2>1. Place(i) = i /\ Place(1) = 1
    BY <1>1, Places
  <2>2. s[i][2] = i /\ s[1][2] = 1
    BY <1>1, <2>1 DEF Aligned
  <2>3. s[i][1] = s[1][1]
    BY <1>1, <2>2 DEF Aligned
  <2> QED
    BY <1>1, <2>2, <2>3, UnitFields
<1>4. /\ Frame(s[1][1]) \in Seq(Unit) /\ Len(Frame(s[1][1])) = FrameLen
      /\ \A i \in 1..FrameLen : Frame(s[1][1])[i] = <<s[1][1], i>>
  BY <1>2, FrameType
<1>5. s = Frame(s[1][1])
  BY <1>1, <1>3, <1>4, SeqEqual
<1> QED
  BY <1>2, <1>5

(* A whole stream goes on with the frame of a later message.               *)
LEMMA AlignedFrame ==
  ASSUME NEW s \in Seq(Unit), Aligned(s), Len(s) % FrameLen = 0, NEW m \in Message,
         \A i \in 1..Len(s) : s[i][1] < m
  PROVE  Aligned(s \o Frame(m)) /\ Len(s \o Frame(m)) % FrameLen = 0
<1> DEFINE k == FrameLen
           n == Len(s)
           t == s \o Frame(m)
<1>1. k \in Nat \ {0} /\ n \in Nat
  BY Lengths, LenProperties
<1>2. /\ Len(t) = n + k
      /\ \A i \in 1..n : t[i] = s[i]
      /\ \A i \in 1..k : t[n + i] = <<m, i>>
  <2>1. /\ Frame(m) \in Seq(Unit) /\ Len(Frame(m)) = k
        /\ \A i \in 1..k : Frame(m)[i] = <<m, i>>
    BY FrameType
  <2>2. /\ Len(t) = n + k
        /\ \A i \in 1..(n + k) : t[i] = IF i <= n THEN s[i] ELSE Frame(m)[i - n]
    BY <2>1, ConcatProperties
  <2>3. ASSUME NEW i \in 1..n PROVE t[i] = s[i]
    BY <1>1, <2>2
  <2>4. ASSUME NEW i \in 1..k PROVE t[n + i] = <<m, i>>
    <3>1. n + i \in 1..(n + k) /\ ~(n + i <= n) /\ (n + i) - n = i
      BY <1>1
    <3> QED
      BY <2>1, <2>2, <3>1
  <2> QED
    BY <2>2, <2>3, <2>4
<1>3. /\ \A i \in 1..k : Place(n + i) = i
      /\ (n + k) % k = 0
  BY <1>1, Places
<1> HIDE DEF t
<1>4. ASSUME NEW i \in 1..Len(t)
      PROVE  /\ t[i][2] = Place(i)
             /\ \A j \in i..Len(t) :
                   IF j - i = t[j][2] - t[i][2] THEN t[j][1] = t[i][1]
                                                ELSE t[j][1] > t[i][1]
  <2>1. ASSUME NEW j \in 1..Len(t), j > n
        PROVE  t[j] = <<m, j - n>> /\ j - n \in 1..k /\ Place(j) = j - n
    <3>1. j - n \in 1..k /\ n + (j - n) = j
      BY <1>1, <1>2, <2>1
    <3> QED
      BY <1>2, <1>3, <3>1
  <2>2. CASE i <= n
    <3>1. i \in 1..n /\ t[i] = s[i]
      BY <1>1, <1>2, <2>2
    <3>2. t[i][2] = Place(i) /\ s[i][2] \in 1..k /\ s[i][1] < m /\ m \in Nat /\ s[i][1] \in Nat
      BY <3>1, UnitFields, WriterAssumption DEF Aligned, Message
    <3>3. ASSUME NEW j \in i..Len(t), j <= n
          PROVE  IF j - i = t[j][2] - t[i][2] THEN t[j][1] = t[i][1]
                                              ELSE t[j][1] > t[i][1]
      <4>1. j \in i..n /\ t[j] = s[j]
        BY <1>1, <1>2, <3>3
      <4> QED
        BY <3>1, <4>1 DEF Aligned
    <3>4. ASSUME NEW j \in i..Len(t), j > n
          PROVE  j - i # t[j][2] - t[i][2] /\ t[j][1] > t[i][1]
      <4>1. j \in 1..Len(t)
        BY <1>1, <1>2
      <4>2. t[j] = <<m, j - n>> /\ j - n \in 1..k
        BY <2>1, <3>4, <4>1
      <4> QED
        BY <1>1, <3>1, <3>2, <4>2
    <3> QED
      BY <1>1, <1>2, <3>2, <3>3, <3>4
  <2>3. CASE i > n
    <3>1. t[i] = <<m, i - n>> /\ i - n \in 1..k /\ Place(i) = i - n
      BY <2>1, <2>3
    <3>2. ASSUME NEW j \in i..Len(t) PROVE t[j] = <<m, j - n>>
      BY <1>1, <1>2, <2>1, <2>3
    <3> QED
      BY <1>1, <1>2, <3>1, <3>2
  <2> QED
    BY <1>1, <1>2, <2>2, <2>3
<1> QED
  BY <1>2, <1>3, <1>4 DEF Aligned, t

(* The first n units of a sequence, and those after them.                  *)
LEMMA Cut ==
  ASSUME NEW s \in Seq(Unit), NEW n \in 0..Len(s)
  PROVE  /\ SubSeq(s, 1, n) \in Seq(Unit) /\ Len(SubSeq(s, 1, n)) = n
         /\ \A i \in 1..n : SubSeq(s, 1, n)[i] = s[i]
         /\ SubSeq(s, n + 1, Len(s)) \in Seq(Unit)
         /\ Len(SubSeq(s, n + 1, Len(s))) = Len(s) - n
         /\ \A i \in 1..(Len(s) - n) : SubSeq(s, n + 1, Len(s))[i] = s[n + i]
         /\ SubSeq(s, 1, n) \o SubSeq(s, n + 1, Len(s)) = s
<1>1. Len(s) \in Nat /\ n \in Nat
  BY LenProperties
<1>2. \A i \in 1..Len(s) : s[i] \in Unit
  BY ElementOfSeq
<1>3. /\ SubSeq(s, 1, n) \in Seq(Unit) /\ Len(SubSeq(s, 1, n)) = n
      /\ \A i \in 1..n : SubSeq(s, 1, n)[i] = s[i]
  <2>1. \A i \in 1..n : s[i] \in Unit
    BY <1>1, <1>2
  <2>2. /\ SubSeq(s, 1, n) \in Seq(Unit)
        /\ Len(SubSeq(s, 1, n)) = IF 1 <= n THEN n - 1 + 1 ELSE 0
        /\ \A i \in 1..(n - 1 + 1) : SubSeq(s, 1, n)[i] = s[1 + i - 1]
    BY <1>1, <2>1, SubSeqProperties
  <2> QED
    BY <1>1, <2>2
<1>4. /\ SubSeq(s, n + 1, Len(s)) \in Seq(Unit)
      /\ Len(SubSeq(s, n + 1, Len(s))) = Len(s) - n
      /\ \A i \in 1..(Len(s) - n) : SubSeq(s, n + 1, Len(s))[i] = s[n + i]
  <2>1. \A i \in (n + 1)..Len(s) : s[i] \in Unit
    BY <1>1, <1>2
  <2>2. /\ SubSeq(s, n + 1, Len(s)) \in Seq(Unit)
        /\ Len(SubSeq(s, n + 1, Len(s))) = IF n + 1 <= Len(s) THEN Len(s) - (n + 1) + 1 ELSE 0
        /\ \A i \in 1..(Len(s) - (n + 1) + 1) :
              SubSeq(s, n + 1, Len(s))[i] = s[(n + 1) + i - 1]
    BY <1>1, <2>1, SubSeqProperties
  <2> QED
    BY <1>1, <2>2
<1>5. SubSeq(s, 1, n) \o SubSeq(s, n + 1, Len(s)) = s
  <2> DEFINE a == SubSeq(s, 1, n)
             b == SubSeq(s, n + 1, Len(s))
  <2>3. /\ a \in Seq(Unit) /\ Len(a) = n /\ \A i \in 1..n : a[i] = s[i]
        /\ b \in Seq(Unit) /\ Len(b) = Len(s) - n
        /\ \A i \in 1..(Len(s) - n) : b[i] = s[n + i]
    BY <1>3, <1>4
  <2> HIDE DEF a, b
  <2>1. /\ a \o b \in Seq(Unit) /\ Len(a \o b) = n + (Len(s) - n)
        /\ \A i \in 1..(n + (Len(s) - n)) : (a \o b)[i] = IF i <= n THEN a[i] ELSE b[i - n]
    BY <2>3, ConcatProperties
  <2>2. ASSUME NEW i \in 1..Len(s) PROVE (a \o b)[i] = s[i]
    <3>1. CASE i <= n
      BY <1>1, <2>3, <2>1, <3>1
    <3>2. CASE i > n
      <4>1. i - n \in 1..(Len(s) - n) /\ n + (i - n) = i
        BY <1>1, <3>2
      <4>2. b[i - n] = s[i]
        BY <2>3, <4>1
      <4> QED
        BY <1>1, <2>1, <3>2, <4>2
    <3>3. i <= n \/ i > n
      BY <1>1
    <3> QED
      BY <3>1, <3>2, <3>3
  <2> QED
    <3>2. Len(a \o b) = Len(s)
      BY <1>1, <2>1
    <3>3. \A i \in 1..Len(a \o b) : (a \o b)[i] = s[i]
      BY <2>2, <3>2
    <3>1. a \o b = s
      BY <2>1, <3>2, <3>3, SeqEqual
    <3> QED
      BY <3>1 DEF a, b
<1> QED
  BY <1>3, <1>4, <1>5

LEMMA Heads ==
  ASSUME NEW S, NEW q \in Seq(S), q # <<>>
  PROVE  /\ Head(q) \in S /\ Tail(q) \in Seq(S) /\ Len(Tail(q)) = Len(q) - 1
         /\ Len(q) \in Nat \ {0} /\ Head(q) = q[1]
         /\ \A i \in 1..Len(Tail(q)) : Tail(q)[i] = q[i + 1]
         /\ Range(q) = Range(Tail(q)) \union {Head(q)}
<1>1. /\ Head(q) \in S /\ Tail(q) \in Seq(S) /\ Len(Tail(q)) = Len(q) - 1
      /\ \A i \in 1..Len(Tail(q)) : Tail(q)[i] = q[i + 1]
  BY HeadTailProperties
<1>2. Len(q) \in Nat \ {0} /\ Head(q) = q[1]
  BY EmptySeq
<1>3. /\ Range(q) = {q[i] : i \in 1..Len(q)}
      /\ Range(Tail(q)) = {Tail(q)[i] : i \in 1..Len(Tail(q))}
  BY <1>1, RangeEquality
<1>4. ASSUME NEW x \in Range(q) PROVE x \in Range(Tail(q)) \union {Head(q)}
  <2>1. PICK i \in 1..Len(q) : x = q[i]
    BY <1>3
  <2>2. i = 1 \/ (i - 1 \in 1..Len(Tail(q)) /\ (i - 1) + 1 = i)
    BY <1>1, <1>2
  <2> QED
    BY <1>1, <1>2, <1>3, <2>1, <2>2
<1>5. ASSUME NEW x \in Range(Tail(q)) \union {Head(q)} PROVE x \in Range(q)
  <2>1. CASE x = Head(q)
    BY <1>2, <1>3, <2>1
  <2>2. CASE x \in Range(Tail(q))
    <3>1. PICK i \in 1..Len(Tail(q)) : x = q[i + 1]
      BY <1>1, <1>3, <2>2
    <3>2. i + 1 \in 1..Len(q)
      BY <1>1, <1>2
    <3> QED
      BY <1>3, <3>1, <3>2
  <2> QED
    BY <2>1, <2>2
<1> QED
  BY <1>1, <1>2, <1>4, <1>5

LEMMA Appended ==
  ASSUME NEW S, NEW q \in Seq(S), NEW x \in S
  PROVE  /\ Append(q, x) \in Seq(S) /\ Len(Append(q, x)) = Len(q) + 1 /\ Len(q) \in Nat
         /\ \A i \in 1..Len(q) : Append(q, x)[i] = q[i]
         /\ Append(q, x)[Len(q) + 1] = x /\ Append(q, x) # <<>>
         /\ Range(Append(q, x)) = Range(q) \union {x}
<1>1. /\ Append(q, x) \in Seq(S) /\ Len(Append(q, x)) = Len(q) + 1 /\ Len(q) \in Nat
      /\ \A i \in 1..Len(q) : Append(q, x)[i] = q[i]
      /\ Append(q, x)[Len(q) + 1] = x /\ Append(q, x) # <<>>
  BY AppendProperties, LenProperties
<1>2. /\ Range(q) = {q[i] : i \in 1..Len(q)}
      /\ Range(Append(q, x)) = {Append(q, x)[i] : i \in 1..Len(Append(q, x))}
  BY <1>1, RangeEquality
<1>3. ASSUME NEW y \in Range(q) \union {x} PROVE y \in Range(Append(q, x))
  <2>1. CASE y = x
    <3>1. Len(q) + 1 \in 1..Len(Append(q, x))
      BY <1>1
    <3> QED
      BY <1>1, <1>2, <2>1, <3>1
  <2>2. CASE y \in Range(q)
    <3>1. PICK i \in 1..Len(q) : y = q[i]
      BY <1>2, <2>2
    <3>2. i \in 1..Len(Append(q, x)) /\ Append(q, x)[i] = y
      BY <1>1, <3>1
    <3> QED
      BY <1>2, <3>2
  <2> QED
    BY <2>1, <2>2
<1>4. ASSUME NEW y \in Range(Append(q, x)) PROVE y \in Range(q) \union {x}
  <2>1. PICK i \in 1..Len(Append(q, x)) : y = Append(q, x)[i]
    BY <1>2
  <2>2. i \in 1..Len(q) \/ i = Len(q) + 1
    BY <1>1
  <2> QED
    BY <1>1, <1>2, <2>1, <2>2
<1> QED
  BY <1>1, <1>3, <1>4

LEMMA Ranges ==
  ASSUME NEW S, NEW q \in Seq(S)
  PROVE  /\ Range(q) \subseteq S /\ Len(q) \in Nat
         /\ \A i \in 1..Len(q) : q[i] \in Range(q) /\ q[i] \in S
         /\ \A x \in Range(q) : \E i \in 1..Len(q) : q[i] = x
         /\ q = <<>> <=> Len(q) = 0
         /\ Range(<<>>) = {} /\ <<>> \in Seq(S)
<1>1. Range(q) = {q[i] : i \in 1..Len(q)} /\ Len(q) \in Nat
  BY RangeEquality, LenProperties
<1>2. \A i \in 1..Len(q) : q[i] \in S
  BY ElementOfSeq
<1>3. q = <<>> <=> Len(q) = 0
  BY EmptySeq
<1>4. Range(<<>>) = {} /\ <<>> \in Seq(S)
  BY DEF Range
<1> QED
  BY <1>1, <1>2, <1>3, <1>4

-----------------------------------------------------------------------------
(* The parts of a stream: read, under way, to be written.                  *)
Wired(c) == IF c \in Range(fdQueue) \union readMap \/ c \notin held THEN wire[c] ELSE <<>>
Rest(c) == IF c = conn /\ chan[c] \in {"connecting", "open"} THEN left ELSE <<>>

LEMMA Glued ==
  ASSUME NEW s \in Seq(Unit), NEW t \in Seq(Unit)
  PROVE  /\ s \o t \in Seq(Unit) /\ Len(s \o t) = Len(s) + Len(t)
         /\ \A i \in 1..(Len(s) + Len(t)) : (s \o t)[i] = IF i <= Len(s) THEN s[i] ELSE t[i - Len(s)]
  BY ConcatProperties

LEMMA Joined ==
  ASSUME NEW P \in Seq(Unit), NEW W \in Seq(Unit), NEW R \in Seq(Unit)
  PROVE  /\ (P \o W) \o R \in Seq(Unit) /\ P \o (W \o R) = (P \o W) \o R
         /\ Len((P \o W) \o R) = Len(P) + Len(W) + Len(R)
         /\ Len(P) \in Nat /\ Len(W) \in Nat /\ Len(R) \in Nat
         /\ P \o W \in Seq(Unit) /\ W \o R \in Seq(Unit)
         /\ \A i \in 1..(Len(P) + Len(W)) : ((P \o W) \o R)[i] = (P \o W)[i]
         /\ \A i \in 1..Len(P) : ((P \o W) \o R)[i] = P[i]
<1>1. /\ P \o W \in Seq(Unit) /\ Len(P \o W) = Len(P) + Len(W) /\ W \o R \in Seq(Unit)
      /\ \A i \in 1..(Len(P) + Len(W)) : (P \o W)[i] = IF i <= Len(P) THEN P[i] ELSE W[i - Len(P)]
      /\ P \o (W \o R) = (P \o W) \o R
      /\ Len(P) \in Nat /\ Len(W) \in Nat /\ Len(R) \in Nat
  BY ConcatProperties, ConcatAssociative, LenProperties
<1>2. PICK Q \in Seq(Unit) : Q = P \o W
  BY <1>1
<1>3. /\ Q \o R \in Seq(Unit) /\ Len(Q \o R) = Len(Q) + Len(R)
      /\ \A i \in 1..(Len(Q) + Len(R)) : (Q \o R)[i] = IF i <= Len(Q) THEN Q[i] ELSE R[i - Len(Q)]
  BY Glued
<1>4. \A i \in 1..(Len(P) + Len(W)) : (Q \o R)[i] = Q[i]
  BY <1>1, <1>2, <1>3
<1>5. \A i \in 1..Len(P) : (Q \o R)[i] = P[i]
  BY <1>1, <1>2, <1>4
<1> QED
  BY <1>1, <1>2, <1>3, <1>4, <1>5

Run(P, W, R) == (P \o W) \o R

(* Concatenation under a name: the provers regroup it faster when they do   *)
(* not look inside.                                                         *)
Glue(s, t) == s \o t

LEMMA GlueAssociative ==
  ASSUME NEW p \in Seq(Unit), NEW a \in Seq(Unit), NEW b \in Seq(Unit)
  PROVE  Glue(Glue(p, a), b) = Glue(p, Glue(a, b))
  BY ConcatAssociative DEF Glue

LEMMA GlueType ==
  ASSUME NEW p \in Seq(Unit), NEW a \in Seq(Unit)
  PROVE  Glue(p, a) \in Seq(Unit)
  BY Glued DEF Glue

LEMMA Regrouped ==
  ASSUME NEW p \in Seq(Unit), NEW w \in Seq(Unit), NEW a \in Seq(Unit), NEW b \in Seq(Unit)
  PROVE  Glue(Glue(p, Glue(w, a)), b) = Glue(Glue(p, w), Glue(a, b))
<1>1. Glue(p, Glue(w, a)) = Glue(Glue(p, w), a)
  BY GlueAssociative
<1>2. Glue(p, w) \in Seq(Unit)
  BY GlueType
<1>3. Glue(Glue(Glue(p, w), a), b) = Glue(Glue(p, w), Glue(a, b))
  BY <1>2, GlueAssociative
<1> QED
  BY <1>1, <1>3

LEMMA PutRun ==
  ASSUME NEW P \in Seq(Unit), NEW W \in Seq(Unit), NEW u \in Seq(Unit), NEW n \in 0..Len(u)
  PROVE  Run(P, W \o SubSeq(u, 1, n), SubSeq(u, n + 1, Len(u))) = Run(P, W, u)
<1>1. PICK a \in Seq(Unit), b \in Seq(Unit) : a = SubSeq(u, 1, n) /\ b = SubSeq(u, n + 1, Len(u))
  BY Cut
<1>2. a \o b = u
  BY <1>1, Cut
<1>3. Glue(Glue(P, Glue(W, a)), b) = Glue(Glue(P, W), Glue(a, b))
  BY Regrouped
<1> QED
  BY <1>1, <1>2, <1>3 DEF Run, Glue

LEMMA StreamParts ==
  ASSUME Types, NEW c \in Conn
  PROVE  /\ part[c] \in Seq(Unit) /\ Wired(c) \in Seq(Unit) /\ Rest(c) \in Seq(Unit)
         /\ wire[c] \in Seq(Unit)
         /\ Stream(c) = (part[c] \o Wired(c)) \o Rest(c)
         /\ Stream(c) \in Seq(Unit)
<1>1. part[c] \in Seq(Unit) /\ Wired(c) \in Seq(Unit) /\ Rest(c) \in Seq(Unit) /\ wire[c] \in Seq(Unit)
  BY DEF Types, NetTypes, ReaderTypes, WriterTypes, Wired, Rest
<1>2. Stream(c) = (part[c] \o Wired(c)) \o Rest(c)
  BY DEF Stream, Wired, Rest
<1> QED
  BY <1>1, <1>2, Joined

(* What OnRead asks for and finds.                                         *)
LEMMA Reads ==
  ASSUME Types, NEW c \in Conn
  PROVE  /\ Arrived(c, Asked(c)) \in 0..Len(wire[c])
         /\ Len(part[c]) + Arrived(c, Asked(c)) <= FrameLen
         /\ part[c] \o SubSeq(wire[c], 1, Arrived(c, Asked(c))) \in Seq(Unit)
         /\ Len(part[c] \o SubSeq(wire[c], 1, Arrived(c, Asked(c))))
              = Len(part[c]) + Arrived(c, Asked(c))
<1> DEFINE n == Arrived(c, Asked(c))
<1>1. /\ part[c] \in Seq(Unit) /\ wire[c] \in Seq(Unit) /\ Len(part[c]) \in Nat
      /\ Len(wire[c]) \in Nat /\ Len(part[c]) < FrameLen
  BY LenProperties DEF Types, NetTypes, ReaderTypes
<1>2. n \in 0..Len(wire[c]) /\ Len(part[c]) + n <= FrameLen
  <2> DEFINE p == Len(part[c])
             w == Len(wire[c])
  <2>1. /\ p \in Nat /\ w \in Nat /\ p < FrameLen /\ FrameLen \in Nat /\ HeadLen \in Nat
        /\ HeadLen <= FrameLen
    BY <1>1, Lengths
  <2>2. \/ Asked(c) = FrameLen - p
        \/ ~(p >= HeadLen) /\ Asked(c) = HeadLen - p
    BY DEF Asked
  <2>3. \/ n = w /\ w <= Asked(c)
        \/ n = Asked(c) /\ ~(w <= Asked(c))
    BY DEF Arrived
  <2> HIDE DEF p, w, n
  <2>4. Asked(c) \in Nat /\ p + Asked(c) <= FrameLen
    BY <2>1, <2>2
  <2>5. n \in 0..w /\ p + n <= FrameLen
    BY <2>1, <2>3, <2>4
  <2> QED
    BY <2>5 DEF p, w
<1> HIDE DEF n
<1>3. SubSeq(wire[c], 1, n) \in Seq(Unit) /\ Len(SubSeq(wire[c], 1, n)) = n
  BY <1>1, <1>2, Cut
<1>4. /\ part[c] \o SubSeq(wire[c], 1, n) \in Seq(Unit)
      /\ Len(part[c] \o SubSeq(wire[c], 1, n)) = Len(part[c]) + n
  BY <1>1, <1>3, ConcatProperties
<1> QED
  BY <1>2, <1>4 DEF n

LEMMA EmptySeqLen == Len(<<>>) = 0
OBVIOUS

(* A complete frame is the first of its stream, and is decoded.            *)
LEMMA ReadFrame ==
  ASSUME Types, ObjectInv, StreamInv, NEW c \in readMap,
         Complete(part[c] \o SubSeq(wire[c], 1, Arrived(c, Asked(c))))
  PROVE  /\ Stream(c) # <<>> /\ 1 \in 1..Len(Stream(c))
         /\ Decoded(part[c] \o SubSeq(wire[c], 1, Arrived(c, Asked(c)))) = Stream(c)[1][1]
         /\ Stream(c)[1][1] \in Message
<1> DEFINE n == Arrived(c, Asked(c))
           a == SubSeq(wire[c], 1, n)
           b == SubSeq(wire[c], n + 1, Len(wire[c]))
           now == part[c] \o a
<1>1. c \in Conn
  BY DEF Types, ReaderTypes
<1>2. /\ n \in 0..Len(wire[c]) /\ now \in Seq(Unit)
  BY <1>1, Reads
<1>3. Len(now) = FrameLen
  BY DEF Complete
<1>4. /\ part[c] \in Seq(Unit) /\ wire[c] \in Seq(Unit) /\ Rest(c) \in Seq(Unit)
      /\ Stream(c) = (part[c] \o wire[c]) \o Rest(c) /\ Stream(c) \in Seq(Unit)
  BY <1>1, StreamParts DEF Wired
<1>5. a \in Seq(Unit) /\ b \in Seq(Unit) /\ a \o b = wire[c]
  BY <1>2, <1>4, Cut
<1> HIDE DEF n, a, b
<1>6. Stream(c) = (now \o b) \o Rest(c)
  <2>1. part[c] \o (a \o b) = (part[c] \o a) \o b
    <3>1. part[c] \in Seq(Unit) /\ a \in Seq(Unit) /\ b \in Seq(Unit)
      BY <1>4, <1>5
    <3> QED
      BY <3>1, Joined
  <2> QED
    BY <1>4, <1>5, <2>1
<1> HIDE DEF now
<1>7. /\ Len(Stream(c)) >= FrameLen /\ Len(Stream(c)) \in Nat
      /\ \A i \in 1..Len(now) : Stream(c)[i] = now[i]
  BY <1>2, <1>3, <1>4, <1>5, <1>6, Joined, LenProperties, Lengths
<1>8. Aligned(now)
  BY <1>1, <1>2, <1>3, <1>4, <1>7, AlignedPrefix DEF StreamInv
<1>9. now[1][1] \in Message /\ now = Frame(now[1][1])
  BY <1>2, <1>3, <1>8, AlignedFirst
<1>10. /\ 1 \in 1..Len(now) /\ 1 \in 1..Len(Stream(c)) /\ Stream(c) # <<>>
  <2>1. Len(now) >= 1 /\ Len(Stream(c)) >= 1 /\ Len(now) \in Nat
    BY <1>3, <1>7, Lengths
  <2> QED
    BY <1>7, <2>1, EmptySeqLen
<1>11. Decoded(now) = Stream(c)[1][1] /\ Stream(c)[1][1] \in Message
  BY <1>7, <1>9, <1>10 DEF Decoded
<1> QED
  BY <1>10, <1>11 DEF now, a, n

-----------------------------------------------------------------------------
(* Every step keeps the types.                                             *)

LEMMA EmptyUnits == <<>> \in Seq(Unit) /\ Len(<<>>) = 0
OBVIOUS

LEMMA ConnectTypes ==
  ASSUME NetTypes, NEW c \in Conn, Connect(c)
  PROVE  NetTypes'
<1>1. conn' \in 0..MaxConn /\ held' \in SUBSET Conn
  BY DEF NetTypes, Connect, Conn
<1>2. chan' \in [Conn -> ChanState]
  BY DEF NetTypes, Connect, Abandoned, ChanState
<1>3. /\ wire' \in [Conn -> Seq(Unit)]
      /\ \A x \in Conn : Len(wire'[x]) <= Buffer
  <2>1. wire' = [wire EXCEPT ![c] = <<>>]
    BY DEF Connect
  <2>2. \A x \in Conn : wire'[x] = IF x = c THEN <<>> ELSE wire[x]
    BY <2>1 DEF NetTypes
  <2>3. 0 <= Buffer
    BY Lengths
  <2> QED
    BY <2>1, <2>2, <2>3, EmptyUnits DEF NetTypes
<1> QED
  BY <1>1, <1>2, <1>3 DEF NetTypes

LEMMA ClosesTypes ==
  ASSUME NetTypes, NEW D \in SUBSET Conn, ReaderCloses(D), conn' = conn,
         held' \in SUBSET Conn
  PROVE  NetTypes'
<1>1. chan' \in [Conn -> ChanState]
  BY DEF NetTypes, ReaderCloses, ChanState
<1>2. \A x \in Conn : wire'[x] = IF x \in D THEN <<>> ELSE wire[x]
  BY DEF ReaderCloses
<1>3. wire' \in [Conn -> Seq(Unit)]
  BY EmptyUnits DEF NetTypes, ReaderCloses
<1>4. \A x \in Conn : Len(wire'[x]) <= Buffer
  BY <1>2, Lengths, EmptyUnits DEF NetTypes
<1> QED
  BY <1>1, <1>3, <1>4 DEF NetTypes

LEMMA RoomFor ==
  ASSUME NetTypes, conn \in Conn, NEW u \in Seq(Unit)
  PROVE  /\ Room(u) \in 0..Len(u) /\ Len(wire[conn]) \in Nat
         /\ Len(wire[conn]) + Room(u) <= Buffer
<1> DEFINE w == Len(wire[conn])
           k == Len(u)
<1>1. w \in Nat /\ k \in Nat /\ w <= Buffer /\ Buffer \in Nat
  BY Lengths, LenProperties DEF NetTypes
<1>2. \/ k <= Buffer - w /\ Room(u) = k
      \/ ~(k <= Buffer - w) /\ Room(u) = Buffer - w
  BY DEF Room
<1> HIDE DEF w, k
<1>3. Room(u) \in 0..k /\ w + Room(u) <= Buffer
  BY <1>1, <1>2
<1> QED
  BY <1>1, <1>3 DEF w, k

LEMMA ModTypes ==
  ASSUME entry \in [Fd -> {"none", "zero", "out"}], NEW f \in Fd,
         NEW P \in SUBSET Fd, ModEvent(f, entry, P)
  PROVE  entry' \in [Fd -> {"none", "zero", "out"}] /\ polled' \in SUBSET Fd
BY DEF ModEvent

LEMMA ReConnectTypes ==
  ASSUME Types, ReConnect
  PROVE  /\ NetTypes' /\ left' = <<>> /\ fd' \in Fd /\ wants' = TRUE
         /\ entry' \in [Fd -> {"none", "zero", "out"}] /\ polled' \in SUBSET Fd
         /\ left' \in Seq(Unit) /\ Len(left') <= FrameLen
<1>0. <<>> \in Seq(Unit) /\ Len(<<>>) <= FrameLen
  BY EmptyUnits, Lengths
<1>1. PICK c \in Conn, f \in Fd :
         /\ Connect(c)
         /\ fd' = f /\ wants' = TRUE /\ left' = <<>>
         /\ ModEvent(f, entry, polled \ {fd})
  BY DEF ReConnect
<1>2. NetTypes'
  BY <1>1, ConnectTypes DEF Types
<1>3. polled \ {fd} \in SUBSET Fd
  BY DEF Types, WriterTypes
<1> QED
  BY <1>0, <1>1, <1>2, <1>3, ModTypes DEF Types, WriterTypes

LEMMA OnErrorTypes ==
  ASSUME WriterTypes, OnError
  PROVE  /\ entry' \in [Fd -> {"none", "zero", "out"}] /\ polled' \in SUBSET Fd
         /\ wpc' \in Wpc /\ timer' \in Fd \union {0}
<1>1. Removed \in [Fd -> {"none", "zero", "out"}]
  BY DEF Removed, WriterTypes
<1>2. WithTimer(Removed) \in [Fd -> {"none", "zero", "out"}]
  BY <1>1 DEF WithTimer
<1> QED
  BY <1>1, <1>2 DEF OnError, WriterTypes, Wpc

LEMMA PutTypes ==
  ASSUME Types, conn \in Conn, wpc \in Wpc, NEW u \in Seq(Unit), Len(u) <= FrameLen, Put(u)
  PROVE  /\ NetTypes' /\ left' \in Seq(Unit) /\ Len(left') <= FrameLen
         /\ entry' \in [Fd -> {"none", "zero", "out"}] /\ polled' \in SUBSET Fd
         /\ wpc' \in Wpc /\ timer' \in Fd \union {0}
<1>1. CASE /\ chan[conn] = "open"
           /\ LET n == Room(u)
              IN  /\ wire' = [wire EXCEPT ![conn] = @ \o SubSeq(u, 1, n)]
                  /\ left' = SubSeq(u, n + 1, Len(u))
                  /\ wpc' = IF n = 0 THEN "write" ELSE "onwrite"
           /\ UNCHANGED <<chan, conn, held, entry, polled, timer>>
  <2> DEFINE n == Room(u)
             a == SubSeq(u, 1, n)
  <2>1. /\ n \in 0..Len(u) /\ Len(wire[conn]) + n <= Buffer /\ wire[conn] \in Seq(Unit)
    BY RoomFor DEF Types, NetTypes
  <2>2. wire' = [wire EXCEPT ![conn] = @ \o a] /\ left' = SubSeq(u, n + 1, Len(u))
    BY <1>1
  <2> HIDE DEF n
  <2>3. a \in Seq(Unit) /\ Len(a) = n /\ left' \in Seq(Unit) /\ Len(left') = Len(u) - n
    BY <2>1, <2>2, Cut
  <2> HIDE DEF a
  <2>4. wire[conn] \o a \in Seq(Unit) /\ Len(wire[conn] \o a) = Len(wire[conn]) + n
    BY <2>1, <2>3, ConcatProperties
  <2>5. \A x \in Conn : wire'[x] = IF x = conn THEN wire[conn] \o a ELSE wire[x]
    BY <2>2 DEF Types, NetTypes
  <2>6. wire' \in [Conn -> Seq(Unit)] /\ \A x \in Conn : Len(wire'[x]) <= Buffer
    BY <2>1, <2>2, <2>4, <2>5 DEF Types, NetTypes
  <2>7. Len(left') <= FrameLen
    <3>1. Len(u) \in Nat /\ FrameLen \in Nat /\ n \in Nat
      BY <2>1, LenProperties, Lengths
    <3> QED
      BY <2>3, <3>1
  <2>8. NetTypes'
    BY <1>1, <2>6 DEF Types, NetTypes
  <2> QED
    BY <1>1, <2>3, <2>7, <2>8 DEF Types, WriterTypes, Wpc
<1>2. CASE left' = <<>> /\ UNCHANGED <<netVars, wpc, entry, polled, timer>>
  <2>1. Len(left') <= FrameLen /\ left' \in Seq(Unit)
    BY <1>2, Lengths, EmptyUnits
  <2> QED
    BY <1>2, <2>1 DEF Types, NetTypes, WriterTypes, netVars, Wpc
<1>3. CASE left' = u /\ OnError /\ UNCHANGED netVars
  BY <1>3, OnErrorTypes DEF Types, NetTypes, netVars
<1> QED
  BY <1>1, <1>2, <1>3 DEF Put

LEMMA OnWriteConn ==
  ASSUME Types, EventInv, ConnInv, wpc = "onwrite"
  PROVE  conn \in Conn /\ fd \in Fd /\ fd \in polled /\ chan[conn] \in {"open", "reset"}
<1>1. fd \in Fd /\ fd \in polled /\ fd # 0
  BY DEF EventInv, Types, WriterTypes, Fd
<1>2. conn # 0
  BY <1>1 DEF ConnInv
<1> QED
  BY <1>1, <1>2 DEF ConnInv, Types, NetTypes, Conn

(* The event: its queue, its flags, the loop.                              *)
LEMMA AddTypes ==
  ASSUME Types, next \in Message, AddMessage(next)
  PROVE  NetTypes' /\ WriterTypes'
<1>1. NetTypes' /\ fd' \in Fd \union {0}
  <2>1. CASE fd # 0
    BY <2>1 DEF AddMessage, GetEvent, netVars, Types, NetTypes, WriterTypes
  <2>2. CASE fd = 0
    <3>1. PICK c \in Conn, f \in Fd : Connect(c) /\ fd' = f
      BY <2>2 DEF AddMessage, GetEvent
    <3> QED
      BY <3>1, ConnectTypes DEF Types
  <2> QED
    BY <2>1, <2>2
<1>2. /\ outQ' \in Seq(Message) /\ Len(outQ') <= MaxQueue + 1
      /\ outMem' \in Nat /\ outMem' <= MaxMem + 1
  <2>1. CASE Queues
    <3>1. outQ' = Append(outQ, next) /\ outMem' = outMem + 1
      BY <2>1 DEF AddMessage
    <3>2. outQ' \in Seq(Message) /\ Len(outQ') = Len(outQ) + 1 /\ Len(outQ) \in Nat
      BY <3>1, Appended DEF Types, WriterTypes
    <3> QED
      BY <2>1, <3>1, <3>2, WriterAssumption DEF Queues, Types, WriterTypes
  <2> QED
    BY <2>1 DEF AddMessage, Types, WriterTypes
<1> QED
  BY <1>1, <1>2 DEF AddMessage, Types, WriterTypes

LEMMA TimerTypes ==
  ASSUME Types, TimerFires
  PROVE  NetTypes' /\ WriterTypes'
<1>1. CASE ReConnect
  BY <1>1, ReConnectTypes DEF TimerFires, Types, WriterTypes, Wpc
<1>2. CASE UNCHANGED <<netVars, fd, wants, left, entry, polled>>
  BY <1>2 DEF TimerFires, Types, NetTypes, WriterTypes, Wpc, netVars
<1> QED
  BY <1>1, <1>2 DEF TimerFires

LEMMA WriteTypes ==
  ASSUME Types, EventInv, ConnInv, \/ WriteLeft \/ NextMessage
  PROVE  NetTypes' /\ WriterTypes'
<1>1. conn \in Conn /\ wpc \in Wpc
  BY OnWriteConn DEF WriteLeft, NextMessage, Types, WriterTypes
<1>2. CASE WriteLeft
  <2>1. /\ NetTypes' /\ left' \in Seq(Unit) /\ Len(left') <= FrameLen
        /\ entry' \in [Fd -> {"none", "zero", "out"}] /\ polled' \in SUBSET Fd
        /\ wpc' \in Wpc /\ timer' \in Fd \union {0}
    BY <1>1, <1>2, PutTypes DEF WriteLeft, Types, WriterTypes
  <2> QED
    BY <1>2, <2>1 DEF WriteLeft, Types, WriterTypes
<1>3. CASE NextMessage
  <2>1. /\ outQ' = Tail(outQ) /\ outQ # <<>> /\ outMem' = outMem - 1
        /\ Head(outQ) \in Message /\ Tail(outQ) \in Seq(Message)
        /\ Len(Tail(outQ)) = Len(outQ) - 1 /\ Len(outQ) \in Nat \ {0}
        /\ outMem = Len(outQ)
    BY <1>3, Heads DEF NextMessage, Types, WriterTypes, EventInv
  <2>2. /\ outQ' \in Seq(Message) /\ Len(outQ') <= MaxQueue + 1
        /\ outMem' \in Nat /\ outMem' <= MaxMem + 1
    BY <2>1, WriterAssumption DEF Types, WriterTypes
  <2>3. CASE Put(Frame(Head(outQ)))
    <3>1. Frame(Head(outQ)) \in Seq(Unit) /\ Len(Frame(Head(outQ))) <= FrameLen
      BY <2>1, FrameType, Lengths
    <3>2. /\ NetTypes' /\ left' \in Seq(Unit) /\ Len(left') <= FrameLen
          /\ entry' \in [Fd -> {"none", "zero", "out"}] /\ polled' \in SUBSET Fd
          /\ wpc' \in Wpc /\ timer' \in Fd \union {0}
      BY <1>1, <2>3, <3>1, PutTypes
    <3> QED
      BY <1>3, <2>2, <3>2 DEF NextMessage, Types, WriterTypes
  <2>4. CASE UNCHANGED <<netVars, left, entry, polled, timer, wpc>>
    BY <1>3, <2>2, <2>4 DEF NextMessage, Types, NetTypes, WriterTypes, netVars
  <2> QED
    BY <1>3, <2>3, <2>4 DEF NextMessage
<1> QED
  BY <1>2, <1>3

LEMMA DealTypes ==
  ASSUME Types, EventInv, DealWithWrite
  PROVE  NetTypes' /\ WriterTypes'
<1>1. wpc' \in Wpc /\ UNCHANGED <<outQ, outMem, idle, timer>>
  BY DEF DealWithWrite, Wpc
<1>2. CASE destroyed' = FALSE /\ ReConnect
  BY <1>1, <1>2, ReConnectTypes DEF Types, WriterTypes
<1>3. CASE outQ # <<>> /\ AddEvent /\ UNCHANGED <<netVars, left, fd, destroyed>>
  <2>1. CASE wants
    BY <1>1, <1>3, <2>1 DEF AddEvent, Types, NetTypes, WriterTypes, netVars
  <2>2. CASE ~wants
    <3>1. fd \in Fd /\ polled \in SUBSET Fd
      BY <1>3 DEF EventInv, Types, WriterTypes
    <3>2. wants' = TRUE /\ ModEvent(fd, entry, polled)
      BY <1>3, <2>2 DEF AddEvent
    <3>3. entry' \in [Fd -> {"none", "zero", "out"}] /\ polled' \in SUBSET Fd
      BY <3>1, <3>2, ModTypes DEF Types, WriterTypes
    <3> QED
      BY <1>1, <1>3, <3>2, <3>3 DEF Types, NetTypes, WriterTypes, netVars
  <2> QED
    BY <2>1, <2>2
<1>4. CASE UNCHANGED <<netVars, left, wants, fd, destroyed, entry, polled>>
  BY <1>1, <1>4 DEF Types, NetTypes, WriterTypes, netVars
<1> QED
  BY <1>2, <1>3, <1>4 DEF DealWithWrite, OpenWrite

LEMMA LoopTypes ==
  ASSUME Types, EventInv, ConnInv, WriterLoop \/ GoIdle
  PROVE  NetTypes' /\ WriterTypes'
<1>1. CASE NoTimeout \/ NothingReady \/ Writable \/ GoIdle
  BY <1>1 DEF NoTimeout, NothingReady, Writable, GoIdle, Types, NetTypes, WriterTypes, Wpc, netVars
<1>2. CASE SocketError
  <2>1. /\ entry' \in [Fd -> {"none", "zero", "out"}] /\ polled' \in SUBSET Fd
        /\ wpc' \in Wpc /\ timer' \in Fd \union {0}
    BY <1>2, OnErrorTypes DEF SocketError, Types
  <2> QED
    BY <1>2, <2>1 DEF SocketError, Types, NetTypes, WriterTypes, netVars
<1>3. CASE GiveUp
  <2>1. <<>> \in Seq(Message) /\ Len(<<>>) = 0
    OBVIOUS
  <2> QED
    BY <1>3, <2>1, WriterAssumption DEF GiveUp, Types, NetTypes, WriterTypes, Wpc, netVars
<1>4. CASE WriteDone
  <2>1. /\ entry' \in [Fd -> {"none", "zero", "out"}] /\ polled' \in SUBSET Fd
        /\ wants' \in BOOLEAN
    BY <1>4 DEF WriteDone, RemoveEvent, Removed, Types, WriterTypes
  <2> QED
    BY <1>4, <2>1 DEF WriteDone, Types, NetTypes, WriterTypes, Wpc, netVars
<1> QED
  BY <1>1, <1>2, <1>3, <1>4, TimerTypes, WriteTypes, DealTypes DEF WriterLoop

(* The objects of the reading loop and the queue of the IOLoop.            *)
LEMMA InTypes ==
  ASSUME ReaderTypes, NEW m \in Message, AddToQueue(m)
  PROVE  inQ' \in Seq(Message) /\ inMem' \in Int /\ Len(inQ') <= MaxInQ + 1
<1>1. CASE UNCHANGED <<inQ, inMem>>
  BY <1>1 DEF ReaderTypes
<1>2. CASE /\ ~(Len(inQ) > MaxInQ) /\ inQ' = Append(inQ, m) /\ inMem' = inMem + 1
  <2>1. inQ' \in Seq(Message) /\ Len(inQ') = Len(inQ) + 1 /\ Len(inQ) \in Nat
    BY <1>2, Appended DEF ReaderTypes
  <2> QED
    BY <1>2, <2>1, ReaderAssumption DEF ReaderTypes
<1> QED
  BY <1>1, <1>2 DEF AddToQueue

LEMMA DestroyedTypes == Destroyed \in SUBSET Conn
BY DEF Destroyed

LEMMA AcceptTypes ==
  ASSUME Types, NEW c \in Conn, Accept(c)
  PROVE  NetTypes' /\ ReaderTypes'
<1>1. /\ ReaderCloses(Destroyed) /\ conn' = conn /\ held' \in SUBSET Conn
      /\ object' \in [Conn -> {"none", "live", "destroyed"}]
      /\ fdQueue' = Append(fdQueue, c)
  BY DEF Accept, ToLoop, ClearEvent, Types, NetTypes, ReaderTypes
<1>2. fdQueue' \in Seq(Conn)
  BY <1>1, Appended DEF Types, ReaderTypes
<1>3. NetTypes'
  BY <1>1, DestroyedTypes, ClosesTypes DEF Types
<1> QED
  BY <1>1, <1>2, <1>3 DEF Accept, Types, ReaderTypes, queueVars

LEMMA CreateTypes ==
  ASSUME Types, CreateEvent
  PROVE  NetTypes' /\ ReaderTypes'
<1> DEFINE new == {fdQueue[i] : i \in DOMAIN fdQueue}
<1>1. new \subseteq Conn
  BY Ranges DEF Types, ReaderTypes, Range
<1>2. /\ ReaderCloses(Destroyed) /\ conn' = conn /\ held' \in SUBSET Conn
      /\ object' = [x \in Conn |-> IF x \in new THEN "live"
                               ELSE IF x \in Destroyed THEN "none" ELSE object[x]]
      /\ readMap' = readMap \union new
      /\ part' = [x \in Conn |-> IF x \in new THEN <<>> ELSE part[x]]
      /\ fdQueue' = <<>> /\ UNCHANGED queueVars
  BY DEF CreateEvent, ClearEvent, Types, NetTypes
<1> HIDE DEF new
<1>3. NetTypes'
  BY <1>2, DestroyedTypes, ClosesTypes DEF Types
<1>4. /\ fdQueue' \in Seq(Conn) /\ readMap' \in SUBSET Conn
      /\ object' \in [Conn -> {"none", "live", "destroyed"}]
  BY <1>1, <1>2 DEF Types, ReaderTypes
<1>5. part' \in [Conn -> Seq(Unit)] /\ \A x \in Conn : Len(part'[x]) < FrameLen
  BY <1>2, EmptyUnits, Lengths DEF Types, ReaderTypes
<1> QED
  BY <1>2, <1>3, <1>4, <1>5 DEF Types, ReaderTypes, queueVars

LEMMA ReadTypes ==
  ASSUME Types, ObjectInv, StreamInv, NEW c \in Conn, OnRead(c)
  PROVE  NetTypes' /\ ReaderTypes'
<1> DEFINE n == Arrived(c, Asked(c))
           now == part[c] \o SubSeq(wire[c], 1, n)
           done == Complete(now)
           broken == chan[c] = "closed" /\ Len(now) = HeadLen
<1>1. /\ c \in readMap /\ n \in 0..Len(wire[c]) /\ now \in Seq(Unit)
      /\ Len(now) = Len(part[c]) + n /\ Len(part[c]) + n <= FrameLen
      /\ wire[c] \in Seq(Unit)
  BY Reads DEF OnRead, Types, NetTypes
<1>2. done => Decoded(now) \in Message
  BY <1>1, ReadFrame
<1>3. Complete(now) <=> Len(now) = FrameLen
  BY DEF Complete
<1> HIDE DEF n, now
<1>4. /\ wire' = [wire EXCEPT ![c] = SubSeq(@, n + 1, Len(@))]
      /\ part' = [part EXCEPT ![c] = IF done \/ broken THEN <<>> ELSE now]
      /\ (IF done THEN AddToQueue(Decoded(now)) ELSE UNCHANGED <<inQ, inMem>>)
      /\ (IF broken THEN DropConnection(c) ELSE UNCHANGED <<readMap, object>>)
      /\ UNCHANGED <<chan, conn, held, fdQueue, taken, memRead, heard>>
  BY DEF OnRead, n, now
<1>5. NetTypes'
  <2>1. \A x \in Conn : wire'[x] = IF x = c THEN SubSeq(wire[c], n + 1, Len(wire[c])) ELSE wire[x]
    BY <1>4 DEF Types, NetTypes
  <2>2. /\ SubSeq(wire[c], n + 1, Len(wire[c])) \in Seq(Unit)
        /\ Len(SubSeq(wire[c], n + 1, Len(wire[c]))) = Len(wire[c]) - n
    BY <1>1, Cut
  <2>3. Len(wire[c]) - n <= Buffer
    BY <1>1, LenProperties, Lengths DEF Types, NetTypes
  <2>4. wire' \in [Conn -> Seq(Unit)] /\ \A x \in Conn : Len(wire'[x]) <= Buffer
    BY <1>4, <2>1, <2>2, <2>3 DEF Types, NetTypes
  <2> QED
    BY <1>4, <2>4 DEF Types, NetTypes
<1>6. part' \in [Conn -> Seq(Unit)] /\ \A x \in Conn : Len(part'[x]) < FrameLen
  <2>1. ~done => Len(now) < FrameLen
    <3>1. Len(now) \in Nat /\ FrameLen \in Nat
      BY <1>1, LenProperties, Lengths
    <3> QED
      BY <1>1, <1>3, <3>1
  <2>2. \A x \in Conn : part'[x] = IF x = c THEN (IF done \/ broken THEN <<>> ELSE now) ELSE part[x]
    BY <1>4 DEF Types, ReaderTypes
  <2>3. (IF done \/ broken THEN <<>> ELSE now) \in Seq(Unit)
    BY <1>1
  <2>4. Len(IF done \/ broken THEN <<>> ELSE now) < FrameLen
    BY <2>1, EmptyUnits, Lengths
  <2>5. part' \in [Conn -> Seq(Unit)]
    BY <1>4, <2>3 DEF Types, ReaderTypes
  <2> QED
    BY <2>2, <2>4, <2>5 DEF Types, ReaderTypes
<1>7. inQ' \in Seq(Message) /\ inMem' \in Int /\ Len(inQ') <= MaxInQ + 1
  <2>1. CASE done
    BY <1>2, <1>4, <2>1, InTypes DEF Types
  <2> QED
    BY <1>4, <2>1 DEF Types, ReaderTypes
<1>8. readMap' \in SUBSET Conn /\ object' \in [Conn -> {"none", "live", "destroyed"}]
  BY <1>4 DEF DropConnection, Types, ReaderTypes
<1> QED
  BY <1>4, <1>5, <1>6, <1>7, <1>8 DEF Types, ReaderTypes

LEMMA FailTypes ==
  ASSUME Types, NEW c \in Conn, ReadFails(c)
  PROVE  NetTypes' /\ ReaderTypes'
<1>1. part' \in [Conn -> Seq(Unit)] /\ \A x \in Conn : Len(part'[x]) < FrameLen
  BY EmptyUnits, Lengths DEF ReadFails, Types, ReaderTypes
<1>2. readMap' \in SUBSET Conn /\ object' \in [Conn -> {"none", "live", "destroyed"}]
  BY DEF ReadFails, DropConnection, Types, ReaderTypes
<1> QED
  BY <1>1, <1>2 DEF ReadFails, Types, NetTypes, ReaderTypes, netVars, queueVars

LEMMA HandleTypes ==
  ASSUME ReaderTypes, PopMessage \/ OnReceive,
         UNCHANGED <<fdQueue, object, readMap, part>>
  PROVE  ReaderTypes'
<1>1. CASE PopMessage
  <2>1. Head(inQ) \in Message /\ Tail(inQ) \in Seq(Message) /\ Len(Tail(inQ)) = Len(inQ) - 1
    BY <1>1, Heads DEF PopMessage, ReaderTypes
  <2>2. Len(inQ) \in Nat
    BY LenProperties DEF ReaderTypes
  <2> QED
    BY <1>1, <2>1, <2>2, ReaderAssumption DEF PopMessage, ReaderTypes
<1>2. CASE OnReceive
  <2>1. heard' \in SUBSET Message
    BY <1>2 DEF OnReceive, ReaderTypes
  <2>2. inMem' \in Int
    BY <1>2 DEF OnReceive, ReaderTypes
  <2> QED
    BY <1>2, <2>1, <2>2 DEF OnReceive, ReaderTypes
<1> QED
  BY <1>1, <1>2

LEMMA RestartTypes ==
  ASSUME Types, ReaderRestarts
  PROVE  NetTypes' /\ ReaderTypes'
<1>1. NetTypes'
  <2>1. {c \in Conn : chan[c] \in {"open", "closed", "reset"}} \in SUBSET Conn
    OBVIOUS
  <2> QED
    BY <2>1, ClosesTypes DEF ReaderRestarts, Types
<1>2. part' \in [Conn -> Seq(Unit)] /\ \A x \in Conn : Len(part'[x]) < FrameLen
  BY EmptyUnits, Lengths DEF ReaderRestarts
<1>3. Len(inQ') <= MaxInQ + 1 /\ inQ' \in Seq(Message)
  <2>1. <<>> \in Seq(Message) /\ Len(<<>>) = 0
    OBVIOUS
  <2> QED
    BY <2>1, ReaderAssumption DEF ReaderRestarts
<1> QED
  BY <1>1, <1>2, <1>3 DEF ReaderRestarts, Types, ReaderTypes

LEMMA KernelTypes ==
  ASSUME NetTypes, NEW c \in Conn, Establish(c) \/ Refuse(c) \/ Break(c)
  PROVE  NetTypes'
<1>1. CASE Establish(c) \/ Refuse(c)
  BY <1>1 DEF NetTypes, Establish, Refuse, ChanState
<1>2. CASE Break(c)
  <2>1. PICK n \in 0..Len(wire[c]) : wire' = [wire EXCEPT ![c] = SubSeq(@, 1, n)]
    BY <1>2 DEF Break
  <2>2. wire[c] \in Seq(Unit) /\ Len(wire[c]) \in Nat
    BY LenProperties DEF NetTypes
  <2>3. SubSeq(wire[c], 1, n) \in Seq(Unit) /\ Len(SubSeq(wire[c], 1, n)) = n
    BY <2>2, Cut
  <2>4. \A x \in Conn : wire'[x] = IF x = c THEN SubSeq(wire[c], 1, n) ELSE wire[x]
    BY <2>1 DEF NetTypes
  <2>5. n <= Buffer
    BY <2>2, Lengths DEF NetTypes
  <2>6. wire' \in [Conn -> Seq(Unit)] /\ \A x \in Conn : Len(wire'[x]) <= Buffer
    BY <2>1, <2>3, <2>4, <2>5 DEF NetTypes
  <2> QED
    BY <1>2, <2>6 DEF Break, NetTypes, ChanState
<1> QED
  BY <1>1, <1>2

LEMMA TypesInit == Init => Types
<1> SUFFICES ASSUME Init PROVE Types
  OBVIOUS
<1>1. NetTypes
  BY EmptyUnits, Lengths DEF Init, NetInit, NetTypes, ChanState
<1>2. WriterTypes
  <2>1. <<>> \in Seq(Message) /\ Len(<<>>) = 0
    OBVIOUS
  <2> QED
    <3>1. /\ outQ \in Seq(Message) /\ outMem \in Nat /\ left \in Seq(Unit)
          /\ entry \in [Fd -> {"none", "zero", "out"}] /\ polled \in SUBSET Fd
          /\ wpc \in Wpc
      BY <2>1, EmptyUnits DEF Init, WriterInit, Wpc
    <3>2. Len(outQ) <= MaxQueue + 1 /\ outMem <= MaxMem + 1 /\ Len(left) <= FrameLen
      BY <2>1, EmptyUnits, Lengths, WriterAssumption DEF Init, WriterInit
    <3> QED
      BY <3>1, <3>2 DEF Init, WriterInit, WriterTypes
<1>3. ReaderTypes
  <2>1. <<>> \in Seq(Message) /\ Len(<<>>) = 0 /\ <<>> \in Seq(Conn)
    OBVIOUS
  <2> QED
    BY <2>1, EmptyUnits, Lengths, ReaderAssumption DEF Init, ReaderInit, ReaderTypes
<1>4. SenderTypes
  <2>1. <<>> \in Seq(Datagrams) /\ Len(<<>>) = 0
    OBVIOUS
  <2> QED
    BY <2>1, WriterAssumption, MessagingAssumption DEF Init, SenderTypes
<1> QED
  BY <1>1, <1>2, <1>3, <1>4 DEF Types

LEMMA NextMessages ==
  ASSUME Types, next <= MaxMsg
  PROVE  next \in Message /\ next \in Nat
BY WriterAssumption DEF Types, SenderTypes, Message

LEMMA SendTypes ==
  ASSUME Types, Send
  PROVE  Types'
<1>1. next \in Message /\ next' = next + 1 /\ next \in Nat
  BY NextMessages DEF Send
<1>2. ReaderTypes'
  BY DEF Send, readerVars, Types, ReaderTypes
<1>3. NetTypes' /\ WriterTypes'
  <2>1. CASE UNCHANGED <<netVars, writerVars>>
    BY <2>1 DEF netVars, writerVars, Types, NetTypes, WriterTypes
  <2>2. CASE AddMessage(next)
    BY <1>1, <2>2, AddTypes
  <2> QED
    BY <2>1, <2>2 DEF Send, AddDatagram
<1>4. SenderTypes'
  <2>1. udpQ' \in Seq(Datagrams) /\ Len(udpQ') <= MaxUdpQ + 1
    <3>1. CASE udpQ' = udpQ
      BY <3>1 DEF Types, SenderTypes
    <3>2. CASE next \in Datagrams /\ ~(Len(udpQ) > MaxUdpQ) /\ udpQ' = Append(udpQ, next)
      <4>1. udpQ' \in Seq(Datagrams) /\ Len(udpQ') = Len(udpQ) + 1 /\ Len(udpQ) \in Nat
        BY <3>2, Appended DEF Types, SenderTypes
      <4> QED
        BY <3>2, <4>1, MessagingAssumption DEF Types, SenderTypes
    <3> QED
      BY <3>1, <3>2 DEF Send, AddDatagram
  <2>2. next' \in 1..MaxMsg + 1
    BY <1>1, WriterAssumption DEF Message
  <2> QED
    BY <2>1, <2>2 DEF Send, Types, SenderTypes
<1> QED
  BY <1>2, <1>3, <1>4 DEF Types

LEMMA DatagramTypes ==
  ASSUME Types, SendDatagram \/ \E m \in dgrams : ReceiveDatagram(m) \/ LoseDatagram(m)
  PROVE  Types'
<1>1. CASE SendDatagram
  <2>1. Head(udpQ) \in Datagrams /\ Tail(udpQ) \in Seq(Datagrams)
        /\ Len(Tail(udpQ)) = Len(udpQ) - 1 /\ Len(udpQ) \in Nat
    BY <1>1, Heads DEF SendDatagram, Types, SenderTypes
  <2>2. SenderTypes'
    BY <1>1, <2>1, MessagingAssumption DEF SendDatagram, Types, SenderTypes
  <2> QED
    BY <1>1, <2>2 DEF SendDatagram, netVars, writerVars, readerVars,
                      Types, NetTypes, WriterTypes, ReaderTypes
<1>2. ASSUME NEW m \in dgrams, ReceiveDatagram(m) PROVE Types'
  <2>1. m \in Message
    BY MessagingAssumption DEF Types, SenderTypes
  <2>2. inQ' \in Seq(Message) /\ inMem' \in Int /\ Len(inQ') <= MaxInQ + 1
    BY <1>2, <2>1, InTypes DEF ReceiveDatagram, Types
  <2>3. SenderTypes'
    BY <1>2, MessagingAssumption DEF ReceiveDatagram, Types, SenderTypes
  <2> QED
    BY <1>2, <2>2, <2>3 DEF ReceiveDatagram, netVars, writerVars,
                            Types, NetTypes, WriterTypes, ReaderTypes
<1>3. ASSUME NEW m \in dgrams, LoseDatagram(m) PROVE Types'
  BY <1>3 DEF LoseDatagram, netVars, writerVars, readerVars,
              Types, NetTypes, WriterTypes, ReaderTypes, SenderTypes
<1> QED
  BY <1>1, <1>2, <1>3

LEMMA TypesStep ==
  ASSUME Types, EventInv, ConnInv, ObjectInv, StreamInv, [Next]_vars
  PROVE  Types'
<1>1. CASE UNCHANGED vars
  BY <1>1 DEF vars, netVars, writerVars, readerVars, Types, NetTypes, WriterTypes,
              ReaderTypes, SenderTypes
<1>2. CASE Write \/ Wait
  <2>1. NetTypes' /\ WriterTypes'
    BY <1>2, LoopTypes DEF Write, Wait
  <2> QED
    BY <1>2, <2>1 DEF Write, Wait, readerVars, Types, ReaderTypes, SenderTypes
<1>3. CASE Read
  <2>1. NetTypes' /\ ReaderTypes'
    BY <1>3, AcceptTypes, CreateTypes, ReadTypes, FailTypes DEF Read, ReaderIO
  <2> QED
    BY <1>3, <2>1 DEF Read, writerVars, Types, WriterTypes, SenderTypes
<1>4. CASE Handle
  <2>1. ReaderTypes'
    BY <1>4, HandleTypes DEF Handle, Types
  <2> QED
    BY <1>4, <2>1 DEF Handle, netVars, writerVars, Types, NetTypes, WriterTypes, SenderTypes
<1>5. CASE Kernel
  <2>1. NetTypes'
    BY <1>5, KernelTypes DEF Kernel, Types
  <2> QED
    BY <1>5, <2>1 DEF Kernel, writerVars, readerVars, Types, WriterTypes, ReaderTypes, SenderTypes
<1>6. CASE Fault
  <2>1. NetTypes' /\ ReaderTypes'
    <3>1. CASE (\E c \in Conn : Break(c)) /\ UNCHANGED readerVars
      BY <3>1, KernelTypes DEF Types, ReaderTypes, readerVars
    <3> QED
      BY <1>6, <3>1, RestartTypes DEF Fault
  <2>2. SenderTypes'
    BY <1>6, MessagingAssumption DEF Fault, Types, SenderTypes
  <2> QED
    BY <1>6, <2>1, <2>2 DEF Fault, writerVars, Types, WriterTypes
<1> QED
  BY <1>1, <1>2, <1>3, <1>4, <1>5, <1>6, SendTypes, DatagramTypes DEF Next

-----------------------------------------------------------------------------
(* The event, its entry, its timer and epoll agree after every step.       *)

LEMMA EventInitially == Init => EventInv
BY DEF Init, NetInit, WriterInit, EventInv, Fd

LEMMA EventQuiet ==
  ASSUME EventInv, UNCHANGED writerVars
  PROVE  EventInv'
BY DEF EventInv, writerVars

LEMMA AddEvents ==
  ASSUME Types, EventInv, next \in Message, AddMessage(next)
  PROVE  EventInv'
<1>1. outMem' = Len(outQ')
  <2>1. CASE Queues
    <3>1. outQ' = Append(outQ, next) /\ outMem' = outMem + 1
      BY <2>1 DEF AddMessage
    <3>2. Len(outQ') = Len(outQ) + 1
      BY <3>1, Appended DEF Types, WriterTypes
    <3> QED
      BY <3>1, <3>2 DEF EventInv
  <2> QED
    BY <2>1 DEF AddMessage, EventInv
<1>2. UNCHANGED <<wants, destroyed, entry, polled, timer, wpc>>
  BY DEF AddMessage
<1>3. fd' \in Fd /\ (fd # 0 => fd' = fd)
  <2>1. CASE fd # 0
    BY <2>1 DEF AddMessage, GetEvent, Types, WriterTypes
  <2>2. CASE fd = 0
    BY <2>2 DEF AddMessage, GetEvent
  <2> QED
    BY <2>1, <2>2
<1>4. fd' # 0
  BY <1>3 DEF Fd
<1>5. CASE fd # 0
  BY <1>1, <1>2, <1>3, <1>5 DEF EventInv
<1>6. CASE fd = 0
  <2>1. polled = {} /\ ~wants /\ timer = 0 /\ ~destroyed /\ wpc # "onwrite" /\ wpc # "clear"
    BY <1>6 DEF EventInv, Types, WriterTypes, Fd
  <2> QED
    BY <1>1, <1>2, <1>4, <2>1 DEF EventInv
<1> QED
  BY <1>5, <1>6

LEMMA ReConnectEvents ==
  ASSUME Types, EventInv, ReConnect, fd \notin polled, timer' = 0, destroyed' = FALSE,
         wpc' \notin {"onwrite", "clear"}, outQ' = outQ, outMem' = outMem
  PROVE  EventInv'
<1>1. PICK f \in Fd : /\ fd' = f /\ wants' = TRUE
                      /\ ModEvent(f, entry, polled \ {fd})
  BY DEF ReConnect
<1>2. polled = {} /\ entry[f] # "out"
  BY DEF EventInv
<1>3. entry' = [entry EXCEPT ![f] = "out"] /\ polled' = {f}
  BY <1>1, <1>2 DEF ModEvent
<1>4. \A g \in Fd : entry'[g] = "out" <=> g \in polled'
  BY <1>2, <1>3 DEF EventInv, Types, WriterTypes
<1>5. f # 0
  BY DEF Fd
<1> QED
  BY <1>1, <1>3, <1>4, <1>5 DEF EventInv

LEMMA OnErrorEvents ==
  ASSUME Types, EventInv, OnError, fd \in polled, UNCHANGED <<wants, fd, destroyed>>,
         outMem' = Len(outQ')
  PROVE  EventInv'
<1>1. fd \in Fd /\ wants /\ timer = 0 /\ ~destroyed /\ fd # 0
  BY DEF EventInv, Types, WriterTypes, Fd
<1>2. polled' = {} /\ polled = {fd}
  BY DEF OnError, EventInv
<1>3. Removed \in [Fd -> {"none", "zero", "out"}] /\ \A g \in Fd : Removed[g] # "out"
  BY <1>1, <1>2 DEF Removed, EventInv, Types, WriterTypes
<1>4. CASE idle
  BY <1>1, <1>2, <1>3, <1>4 DEF OnError, EventInv
<1>5. CASE ~idle
  <2>1. \A g \in Fd : WithTimer(Removed)[g] # "out"
    BY <1>3 DEF WithTimer
  <2>2. WithTimer(Removed)[fd] # "none"
    BY <1>1, <1>3 DEF WithTimer
  <2> QED
    BY <1>1, <1>2, <1>5, <2>1, <2>2 DEF OnError, EventInv
<1> QED
  BY <1>4, <1>5

LEMMA EventStep ==
  ASSUME Types, EventInv, ConnInv, [Next]_vars
  PROVE  EventInv'
<1>1. CASE UNCHANGED writerVars
  BY <1>1, EventQuiet
<1>2. CASE Send
  <2>1. CASE AddMessage(next)
    BY <1>2, <2>1, AddEvents, NextMessages DEF Send
  <2> QED
    BY <1>1, <1>2, <2>1 DEF Send, AddDatagram
<1>3. CASE TimerFires
  <2>1. fd \notin polled /\ entry[timer] # "none" /\ ~destroyed
    BY <1>3 DEF TimerFires, EventInv
  <2>2. ReConnect
    BY <1>3, <2>1 DEF TimerFires
  <2>3. /\ timer' = 0 /\ destroyed' = FALSE /\ wpc' \notin {"onwrite", "clear"}
        /\ outQ' = outQ /\ outMem' = outMem
    BY <1>3, <2>1 DEF TimerFires, Types, WriterTypes
  <2> QED
    BY <2>1, <2>2, <2>3, ReConnectEvents
<1>4. CASE NoTimeout \/ NothingReady \/ Writable \/ GoIdle
  <2>1. /\ UNCHANGED <<outQ, outMem, wants, fd, destroyed, entry, polled, timer>>
        /\ wpc' = "onwrite" => fd \in polled
        /\ (wpc' = "clear" <=> wpc = "clear")
    BY <1>4 DEF NoTimeout, NothingReady, Writable, Ready, GoIdle, EventInv
  <2> QED
    BY <2>1 DEF EventInv
<1>5. CASE SocketError
  BY <1>5, OnErrorEvents DEF SocketError, EventInv
<1>6. CASE GiveUp
  <2>1. Len(<<>>) = 0
    OBVIOUS
  <2> QED
    BY <1>6, <2>1 DEF GiveUp, EventInv
<1>7. ASSUME NEW u, Put(u), wpc = "onwrite", UNCHANGED <<wants, fd, destroyed>>,
             outMem' = Len(outQ'), outQ # <<>> \/ outQ' = outQ
      PROVE  EventInv'
  <2>1. fd \in polled /\ fd # 0
    BY <1>7, OnWriteConn DEF Fd
  <2>2. CASE UNCHANGED <<entry, polled, timer>> /\ wpc' \in {"write", "onwrite"}
    BY <1>7, <2>1, <2>2 DEF EventInv
  <2>3. CASE OnError
    BY <1>7, <2>1, <2>3, OnErrorEvents
  <2> QED
    BY <1>7, <2>2, <2>3 DEF Put
<1>8. CASE WriteLeft
  BY <1>7, <1>8 DEF WriteLeft, EventInv
<1>9. CASE NextMessage
  <2>1. outMem' = Len(outQ') /\ outQ # <<>>
    <3>1. Len(Tail(outQ)) = Len(outQ) - 1
      BY <1>9, Heads DEF NextMessage, Types, WriterTypes
    <3> QED
      BY <1>9, <3>1 DEF NextMessage, EventInv
  <2>2. CASE UNCHANGED <<netVars, left, entry, polled, timer, wpc>>
    BY <1>9, <2>1, <2>2 DEF NextMessage, EventInv
  <2> QED
    BY <1>7, <1>9, <2>1, <2>2 DEF NextMessage
<1>10. CASE WriteDone
  <2>1. wants /\ fd \in polled /\ polled = {fd} /\ timer = 0 /\ ~destroyed
    BY <1>10 DEF WriteDone, EventInv
  <2>2. wants' = FALSE /\ entry' = Removed /\ polled' = {}
    BY <1>10, <2>1 DEF WriteDone, RemoveEvent
  <2>3. \A g \in Fd : Removed[g] # "out"
    BY <2>1 DEF Removed, EventInv, Types, WriterTypes
  <2> QED
    BY <1>10, <2>1, <2>2, <2>3 DEF WriteDone, EventInv
<1>11. CASE DealWithWrite
  <2>1. wpc = "write" /\ wpc' = "timeout" /\ UNCHANGED <<outQ, outMem, timer>>
    BY <1>11 DEF DealWithWrite
  <2>2. CASE destroyed /\ destroyed' = FALSE /\ ReConnect
    <3>1. fd \notin polled /\ timer' = 0
      BY <2>1, <2>2 DEF EventInv
    <3> QED
      BY <2>1, <2>2, <3>1, ReConnectEvents
  <2>3. CASE outQ # <<>> /\ ~destroyed /\ AddEvent /\ UNCHANGED <<netVars, left, fd, destroyed>>
    <3>1. CASE wants
      BY <2>1, <2>3, <3>1 DEF AddEvent, EventInv
    <3>2. CASE ~wants
      <4>1. fd \in Fd /\ polled = {} /\ timer = 0 /\ entry[fd] # "out" /\ fd # 0
        BY <2>3, <3>2 DEF EventInv, Types, WriterTypes
      <4>2. wants' = TRUE /\ entry' = [entry EXCEPT ![fd] = "out"] /\ polled' = {fd}
        BY <2>3, <3>2, <4>1 DEF AddEvent, ModEvent
      <4>3. \A g \in Fd : entry'[g] = "out" <=> g \in polled'
        BY <4>1, <4>2 DEF EventInv, Types, WriterTypes
      <4> QED
        BY <2>1, <2>3, <4>1, <4>2, <4>3 DEF EventInv
    <3> QED
      BY <3>1, <3>2
  <2>4. CASE outQ = <<>> /\ UNCHANGED <<netVars, left, wants, fd, destroyed, entry, polled>>
    BY <2>1, <2>4 DEF EventInv
  <2> QED
    BY <1>11, <2>2, <2>3, <2>4 DEF DealWithWrite, OpenWrite
<1> QED
  BY <1>1, <1>2, <1>3, <1>4, <1>5, <1>6, <1>8, <1>9, <1>10, <1>11
     DEF Next, Write, WriterLoop, Wait, Read, Handle, SendDatagram, ReceiveDatagram,
         LoseDatagram, Kernel, Fault, vars

-----------------------------------------------------------------------------
(* Both ends of a connection after every step.                             *)

LEMMA ConnInitially == Init => ConnInv /\ ObjectInv
<1> SUFFICES ASSUME Init PROVE ConnInv /\ ObjectInv
  OBVIOUS
<1>1. Range(<<>>) = {}
  BY DEF Range
<1> QED
  BY <1>1 DEF Init, NetInit, WriterInit, ReaderInit, ConnInv, ObjectInv, Conn

(* The writer connects: it takes a connection nobody holds.                *)
LEMMA ConnectConn ==
  ASSUME Types, ConnInv, ObjectInv, NEW c \in Conn, Connect(c),
         left' = <<>>, fd' \in Fd, wpc' # "onwrite",
         UNCHANGED <<fdQueue, object, readMap, part>>
  PROVE  ConnInv' /\ ObjectInv'
<1>1. c \notin held /\ c # 0
  BY Lengths DEF Connect, Free, ConnInv
<1>2. /\ conn' = c /\ held' = held /\ chan'[c] = "connecting" /\ wire'[c] = <<>>
      /\ \A x \in Conn \ {c, conn} : chan'[x] = chan[x] /\ wire'[x] = wire[x]
      /\ conn \in Conn \ {c} =>
            chan'[conn] = Abandoned(conn)
  <2>1. /\ conn' = c /\ held' = held /\ wire' = [wire EXCEPT ![c] = <<>>]
        /\ chan' = [x \in Conn |-> IF x = c THEN "connecting"
                                   ELSE IF x = conn THEN Abandoned(x) ELSE chan[x]]
    BY DEF Connect
  <2>2. chan'[c] = "connecting" /\ wire'[c] = <<>>
    BY <2>1 DEF Types, NetTypes
  <2>3. ASSUME NEW x \in Conn \ {c, conn} PROVE chan'[x] = chan[x] /\ wire'[x] = wire[x]
    BY <2>1, <2>3 DEF Types, NetTypes
  <2>4. ASSUME conn \in Conn \ {c}
        PROVE  chan'[conn] = Abandoned(conn)
    BY <2>1, <2>4
  <2> QED
    BY <2>1, <2>2, <2>3, <2>4
<1>3. conn \in Conn \ {c} =>
        /\ chan'[conn] \in {"closed", "reset", "unused"}
        /\ conn \in held => chan[conn] \in {"open", "reset"} /\ chan'[conn] \in {"closed", "reset"}
  <2> SUFFICES ASSUME conn \in Conn \ {c}
               PROVE  /\ chan'[conn] \in {"closed", "reset", "unused"}
                      /\ conn \in held => chan[conn] \in {"open", "reset"}
                                            /\ chan'[conn] \in {"closed", "reset"}
    OBVIOUS
  <2>1. conn # 0 /\ chan[conn] \in {"connecting", "refused", "open", "reset"}
    BY Lengths DEF ConnInv
  <2>2. conn \in held => chan[conn] \in {"open", "reset"}
    BY <2>1 DEF ConnInv
  <2> QED
    BY <1>2, <2>2 DEF Abandoned
<1>4. ConnInv'
  <2>1. fd' # 0
    BY DEF Fd
  <2>2. ASSUME NEW x \in Conn
        PROVE  /\ chan'[x] \in {"connecting", "refused"} =>
                     x = conn' /\ wire'[x] = <<>> /\ left' = <<>>
               /\ chan'[x] = "open" => x = conn'
               /\ x \in held' => chan'[x] \in {"open", "closed", "reset"}
    <3>1. CASE x = c
      BY <1>1, <1>2, <3>1
    <3>2. CASE x # c /\ x = conn
      BY <1>2, <1>3, <3>2
    <3>3. CASE x # c /\ x # conn
      BY <1>2, <3>3 DEF ConnInv
    <3> QED
      BY <3>1, <3>2, <3>3
  <2> QED
    BY <1>1, <1>2, <2>1, <2>2 DEF ConnInv
<1>5. ObjectInv'
  <2>1. ASSUME NEW x \in Conn, object[x] = "destroyed"
        PROVE  chan'[x] \in {"closed", "reset"}
    <3>1. x \in held /\ x # c /\ chan[x] \in {"closed", "reset"}
      BY <1>1, <2>1 DEF ObjectInv
    <3>2. CASE x = conn
      BY <1>2, <1>3, <3>1, <3>2
    <3>3. CASE x # conn
      BY <1>2, <3>1, <3>3
    <3> QED
      BY <3>2, <3>3
  <2> QED
    BY <1>2, <2>1 DEF ObjectInv
<1> QED
  BY <1>4, <1>5

(* The reader closes connections that are up or were.                      *)
LEMMA ClosesConn ==
  ASSUME Types, EventInv, ConnInv, NEW D \in SUBSET Conn, ReaderCloses(D), UNCHANGED <<fd, conn, left, wpc>>,
         \A c \in D : chan[c] \in {"open", "closed", "reset"},
         \A c \in held' : c \notin D /\ chan[c] \in {"open", "closed", "reset"},
         held' \subseteq Conn
  PROVE  ConnInv'
<1>1. \A c \in Conn :
        /\ c \notin D => chan'[c] = chan[c] /\ wire'[c] = wire[c]
        /\ c \in D => (c = conn /\ chan'[c] = "reset") \/ (c # conn /\ chan'[c] = "unused")
  <2> TAKE c \in Conn
  <2>1. /\ chan'[c] = IF c \notin D THEN chan[c] ELSE IF c = conn THEN "reset" ELSE "unused"
        /\ wire'[c] = IF c \in D THEN <<>> ELSE wire[c]
    BY DEF ReaderCloses
  <2> QED
    BY <2>1
<1>2. conn # 0 => chan'[conn] \in {"connecting", "refused", "open", "reset"}
  <2>1. conn # 0 => conn \in Conn
    BY DEF Types, NetTypes, Conn
  <2> QED
    BY <1>1, <2>1 DEF ConnInv
<1>3. wpc' = "onwrite" => chan'[conn] \in {"open", "reset"}
  <2>1. wpc = "onwrite" => conn \in Conn /\ chan[conn] \in {"open", "reset"}
    BY OnWriteConn
  <2> QED
    BY <1>1, <2>1
<1> QED
  BY <1>1, <1>2, <1>3 DEF ConnInv

(* A step that leaves the sockets alone and writes nothing.                *)
LEMMA ConnQuiet ==
  ASSUME ConnInv, UNCHANGED <<netVars, fd>>, left' = left \/ left' = <<>>,
         wpc' = "onwrite" => chan[conn] \in {"open", "reset"}
  PROVE  ConnInv'
BY DEF ConnInv, netVars

LEMMA ObjectQuiet ==
  ASSUME ObjectInv, UNCHANGED <<chan, held, fdQueue, object, readMap, part>>
  PROVE  ObjectInv'
BY DEF ObjectInv

(* The first message for the peer.                                         *)
LEMMA AddConn ==
  ASSUME Types, EventInv, ConnInv, ObjectInv, AddMessage(next),
         UNCHANGED <<fdQueue, object, readMap, part>>
  PROVE  ConnInv' /\ ObjectInv'
<1>1. CASE fd # 0
  <2>1. UNCHANGED <<netVars, fd, left, wpc>>
    BY <1>1 DEF AddMessage, GetEvent
  <2> QED
    BY <2>1, ConnQuiet, ObjectQuiet DEF netVars, ConnInv
<1>2. CASE fd = 0
  <2>1. PICK c \in Conn, f \in Fd : Connect(c) /\ fd' = f
    BY <1>2 DEF AddMessage, GetEvent
  <2>2. wpc' # "onwrite" /\ left' = <<>>
    BY <1>2 DEF AddMessage, ConnInv, EventInv, Types, WriterTypes, Fd
  <2> QED
    BY <2>1, <2>2, ConnectConn
<1> QED
  BY <1>1, <1>2

LEMMA ReConnectConn ==
  ASSUME Types, ConnInv, ObjectInv, ReConnect, wpc' # "onwrite",
         UNCHANGED <<fdQueue, object, readMap, part>>
  PROVE  ConnInv' /\ ObjectInv'
<1>1. PICK c \in Conn : Connect(c)
  BY DEF ReConnect
<1>2. left' = <<>> /\ fd' \in Fd
  BY DEF ReConnect
<1> QED
  BY <1>1, <1>2, ConnectConn

LEMMA PutConn ==
  ASSUME Types, EventInv, ConnInv, wpc = "onwrite", NEW u, Put(u), UNCHANGED fd
  PROVE  ConnInv' /\ UNCHANGED <<chan, conn, held>>
<1>1. conn \in Conn /\ chan[conn] \in {"open", "reset"}
  BY OnWriteConn
<1>2. \A x \in Conn : chan[x] \notin {"connecting", "refused"}
  BY <1>1 DEF ConnInv
<1>3. UNCHANGED <<chan, conn, held>>
  BY DEF Put, netVars
<1>4. conn # 0
  BY <1>1, Lengths
<1> QED
  BY <1>1, <1>2, <1>3, <1>4 DEF ConnInv

LEMMA LoopConn ==
  ASSUME Types, EventInv, ConnInv, ObjectInv, WriterLoop \/ GoIdle,
         UNCHANGED <<fdQueue, object, readMap, part>>
  PROVE  ConnInv' /\ ObjectInv'
<1>1. CASE NoTimeout \/ NothingReady \/ GoIdle \/ GiveUp \/ WriteDone \/ SocketError
  <2>1. UNCHANGED <<netVars, fd, left>>
    BY <1>1 DEF NoTimeout, NothingReady, GoIdle, GiveUp, WriteDone, SocketError
  <2>2. wpc' = "onwrite" => wpc = "onwrite"
    BY <1>1 DEF NoTimeout, NothingReady, GoIdle, GiveUp, WriteDone, SocketError, OnError
  <2> QED
    BY <2>1, <2>2, ConnQuiet, ObjectQuiet DEF netVars, ConnInv
<1>2. CASE Writable
  <2>1. UNCHANGED <<netVars, fd, left>> /\ chan[conn] \in {"open", "reset"}
    BY <1>2 DEF Writable, Ready
  <2> QED
    BY <2>1, ConnQuiet, ObjectQuiet DEF netVars
<1>3. CASE TimerFires
  <2>1. wpc' # "onwrite"
    BY <1>3 DEF TimerFires
  <2>2. CASE UNCHANGED <<netVars, fd, wants, left, entry, polled>>
    BY <2>1, <2>2, ConnQuiet, ObjectQuiet DEF netVars
  <2> QED
    BY <1>3, <2>1, <2>2, ReConnectConn DEF TimerFires
<1>4. CASE DealWithWrite
  <2>1. wpc' # "onwrite"
    BY <1>4 DEF DealWithWrite
  <2>2. CASE UNCHANGED <<netVars, left, fd>>
    BY <2>1, <2>2, ConnQuiet, ObjectQuiet DEF netVars
  <2> QED
    BY <1>4, <2>1, <2>2, ReConnectConn DEF DealWithWrite, OpenWrite
<1>5. CASE WriteLeft
  <2>1. wpc = "onwrite" /\ Put(left) /\ UNCHANGED fd
    BY <1>5 DEF WriteLeft
  <2> QED
    BY <2>1, PutConn, ObjectQuiet
<1>6. CASE NextMessage
  <2>1. wpc = "onwrite" /\ UNCHANGED fd
    BY <1>6 DEF NextMessage
  <2>2. CASE UNCHANGED <<netVars, left, entry, polled, timer, wpc>>
    BY <2>1, <2>2, ConnQuiet, ObjectQuiet DEF netVars, ConnInv
  <2> QED
    BY <1>6, <2>1, <2>2, PutConn, ObjectQuiet DEF NextMessage
<1> QED
  BY <1>1, <1>2, <1>3, <1>4, <1>5, <1>6 DEF WriterLoop

(* The reader accepts, gives the accepted an object, reads and closes.     *)
LEMMA AcceptConn ==
  ASSUME Types, EventInv, ConnInv, ObjectInv, NEW c \in Conn, Accept(c),
         UNCHANGED <<fd, left, wpc>>
  PROVE  ConnInv' /\ ObjectInv'
<1>1. /\ ReaderCloses(Destroyed) /\ conn' = conn /\ readMap' = readMap /\ part' = part
      /\ held' = (held \ Destroyed) \union {c} /\ fdQueue' = Append(fdQueue, c)
      /\ object' = [x \in Conn |-> IF x \in Destroyed THEN "none" ELSE object[x]]
      /\ chan[c] \in {"open", "closed", "reset"} /\ c \notin held
  BY DEF Accept, ToLoop, ClearEvent
<1>2. /\ Destroyed \in SUBSET Conn /\ held \subseteq Conn
      /\ \A x \in Destroyed : chan[x] \in {"closed", "reset"} /\ x \in held
      /\ \A x \in held : chan[x] \in {"open", "closed", "reset"}
  BY DEF Destroyed, ObjectInv, ConnInv, Types, NetTypes
<1>3. ConnInv'
  BY <1>1, <1>2, ClosesConn
<1>4. Range(fdQueue') = Range(fdQueue) \union {c} /\ Range(fdQueue) \subseteq Conn
  BY <1>1, Appended, Ranges DEF Types, ReaderTypes
<1>5. \A x \in Conn : /\ object'[x] = IF x \in Destroyed THEN "none" ELSE object[x]
                      /\ x \in Destroyed <=> object[x] = "destroyed"
  BY <1>1 DEF Destroyed
<1>6. held' = Range(fdQueue') \union {x \in Conn : object'[x] # "none"}
  BY <1>1, <1>2, <1>4, <1>5 DEF ObjectInv
<1>7. readMap' = {x \in Conn : object'[x] = "live"}
  BY <1>1, <1>5 DEF ObjectInv
<1>8. \A x \in Conn : /\ x \in Range(fdQueue') => object'[x] = "none"
                      /\ object'[x] # "destroyed"
                      /\ part'[x] # <<>> => x \in readMap'
  BY <1>1, <1>4, <1>5 DEF ObjectInv
<1> QED
  BY <1>3, <1>6, <1>7, <1>8 DEF ObjectInv

LEMMA CreateConn ==
  ASSUME Types, EventInv, ConnInv, ObjectInv, CreateEvent, UNCHANGED <<fd, left, wpc>>
  PROVE  ConnInv' /\ ObjectInv'
<1>1. /\ ReaderCloses(Destroyed) /\ conn' = conn /\ held' = held \ Destroyed
      /\ readMap' = readMap \union Range(fdQueue) /\ fdQueue' = <<>>
      /\ object' = [x \in Conn |-> IF x \in Range(fdQueue) THEN "live"
                                   ELSE IF x \in Destroyed THEN "none" ELSE object[x]]
      /\ part' = [x \in Conn |-> IF x \in Range(fdQueue) THEN <<>> ELSE part[x]]
  BY DEF CreateEvent, ClearEvent, Range
<1>2. /\ Destroyed \in SUBSET Conn /\ held \subseteq Conn
      /\ \A x \in Destroyed : chan[x] \in {"closed", "reset"} /\ x \in held
      /\ \A x \in held : chan[x] \in {"open", "closed", "reset"}
  BY DEF Destroyed, ObjectInv, ConnInv, Types, NetTypes
<1>3. ConnInv'
  BY <1>1, <1>2, ClosesConn
<1>4. Range(fdQueue') = {} /\ Range(fdQueue) \subseteq Conn
  BY <1>1, Ranges DEF Types, ReaderTypes
<1>5. \A x \in Conn :
        /\ object'[x] = IF x \in Range(fdQueue) THEN "live"
                        ELSE IF x \in Destroyed THEN "none" ELSE object[x]
        /\ part'[x] = IF x \in Range(fdQueue) THEN <<>> ELSE part[x]
        /\ x \in Destroyed <=> object[x] = "destroyed"
  BY <1>1 DEF Destroyed
<1>6. held' = Range(fdQueue') \union {x \in Conn : object'[x] # "none"}
  BY <1>1, <1>2, <1>4, <1>5 DEF ObjectInv
<1>7. readMap' = {x \in Conn : object'[x] = "live"}
  BY <1>1, <1>4, <1>5 DEF ObjectInv
<1>8. \A x \in Conn : /\ x \in Range(fdQueue') => object'[x] = "none"
                      /\ object'[x] # "destroyed"
                      /\ part'[x] # <<>> => x \in readMap'
  BY <1>1, <1>4, <1>5 DEF ObjectInv
<1> QED
  BY <1>3, <1>6, <1>7, <1>8 DEF ObjectInv

LEMMA ReadConn ==
  ASSUME Types, ConnInv, ObjectInv, NEW c \in Conn, OnRead(c) \/ ReadFails(c),
         UNCHANGED <<fd, left, wpc>>
  PROVE  ConnInv' /\ ObjectInv'
<1>1. /\ UNCHANGED <<chan, conn, held, fdQueue>> /\ c \in readMap
      /\ part' = [part EXCEPT ![c] = part'[c]]
      /\ \/ UNCHANGED <<readMap, object>>
         \/ /\ DropConnection(c) /\ part'[c] = <<>> /\ chan[c] \in {"closed", "reset"}
  <2>1. CASE OnRead(c)
    BY <2>1 DEF OnRead, Types, ReaderTypes
  <2>2. CASE ReadFails(c)
    BY <2>2 DEF ReadFails, netVars, Types, ReaderTypes
  <2> QED
    BY <2>1, <2>2
<1>2. wire'[c] = <<>> \/ wire[c] # <<>> \/ wire' = wire
  BY DEF OnRead, ReadFails, netVars
<1>3. \A x \in Conn \ {c} : wire'[x] = wire[x] /\ part'[x] = part[x]
  BY DEF OnRead, ReadFails, netVars, Types, NetTypes, ReaderTypes
<1>4. object[c] = "live" /\ c \in held /\ chan[c] \in {"open", "closed", "reset"} /\ c \notin Range(fdQueue)
  BY <1>1 DEF ObjectInv, ConnInv
<1>5. ConnInv'
  BY <1>1, <1>3, <1>4 DEF ConnInv
<1>6. CASE UNCHANGED <<readMap, object>>
  <2>1. \A x \in Conn : part'[x] # <<>> => x \in readMap'
    BY <1>1, <1>3, <1>6 DEF ObjectInv
  <2> QED
    BY <1>1, <1>5, <1>6, <2>1 DEF ObjectInv
<1>7. CASE DropConnection(c) /\ part'[c] = <<>> /\ chan[c] \in {"closed", "reset"}
  <2>1. /\ readMap' = readMap \ {c}
        /\ \A x \in Conn : object'[x] = IF x = c THEN "destroyed" ELSE object[x]
    BY <1>7 DEF DropConnection, Types, ReaderTypes
  <2>2. \A x \in Conn : part'[x] # <<>> => x \in readMap'
    BY <1>3, <1>7, <2>1 DEF ObjectInv
  <2>3. held' = Range(fdQueue') \union {x \in Conn : object'[x] # "none"}
    BY <1>1, <1>4, <2>1 DEF ObjectInv
  <2>4. readMap' = {x \in Conn : object'[x] = "live"}
    BY <1>1, <2>1 DEF ObjectInv
  <2> QED
    BY <1>1, <1>4, <1>5, <1>7, <2>1, <2>2, <2>3, <2>4 DEF ObjectInv
<1> QED
  BY <1>1, <1>6, <1>7

LEMMA RestartConn ==
  ASSUME Types, EventInv, ConnInv, ObjectInv, ReaderRestarts, UNCHANGED <<fd, left, wpc>>
  PROVE  ConnInv' /\ ObjectInv'
<1> DEFINE D == {c \in Conn : chan[c] \in {"open", "closed", "reset"}}
<1>1. ReaderCloses(D) /\ conn' = conn /\ held' = {}
  BY DEF ReaderRestarts
<1>2. ConnInv'
  BY <1>1, ClosesConn
<1>3. Range(fdQueue') = {}
  BY DEF ReaderRestarts, Range
<1> QED
  BY <1>2, <1>3 DEF ReaderRestarts, ObjectInv

(* The network.                                                            *)
LEMMA KernelConn ==
  ASSUME Types, EventInv, ConnInv, ObjectInv, NEW c \in Conn, Establish(c) \/ Refuse(c) \/ Break(c),
         UNCHANGED <<fd, left, wpc, fdQueue, object, readMap, part>>
  PROVE  ConnInv' /\ ObjectInv'
<1>1. /\ UNCHANGED <<conn, held>>
      /\ \A x \in Conn \ {c} : chan'[x] = chan[x] /\ wire'[x] = wire[x]
  BY DEF Establish, Refuse, Break, Types, NetTypes
<1>2. \/ /\ chan[c] = "connecting" /\ wire' = wire
         /\ chan'[c] \in {"open", "refused"}
      \/ /\ chan[c] \in {"open", "closed"} /\ chan'[c] = "reset"
  BY DEF Establish, Refuse, Break, Types, NetTypes
<1>3. ConnInv'
  <2>1. ASSUME NEW x \in Conn
        PROVE  /\ chan'[x] \in {"connecting", "refused"} =>
                     x = conn' /\ wire'[x] = <<>> /\ left' = <<>>
               /\ chan'[x] = "open" => x = conn'
               /\ x \in held' => chan'[x] \in {"open", "closed", "reset"}
    BY <1>1, <1>2 DEF ConnInv
  <2>2. conn # 0 => conn \in Conn
    BY DEF Types, NetTypes, Conn
  <2>3. conn # 0 => chan'[conn] \in {"connecting", "refused", "open", "reset"}
    BY <1>1, <1>2, <2>2 DEF ConnInv
  <2>4. wpc' = "onwrite" => chan'[conn] \in {"open", "reset"}
    <3>1. CASE conn = c
      BY <1>2, <3>1 DEF ConnInv
    <3>2. wpc = "onwrite" => conn \in Conn
      BY OnWriteConn
    <3> QED
      BY <1>1, <3>1, <3>2 DEF ConnInv
  <2> QED
    BY <1>1, <2>1, <2>3, <2>4 DEF ConnInv
<1>4. \A x \in Conn : object[x] = "destroyed" => chan'[x] \in {"closed", "reset"}
  BY <1>1, <1>2 DEF ObjectInv
<1> QED
  BY <1>1, <1>3, <1>4 DEF ObjectInv

LEMMA ConnStep ==
  ASSUME Types, EventInv, ConnInv, ObjectInv, [Next]_vars
  PROVE  ConnInv' /\ ObjectInv'
<1>1. CASE UNCHANGED <<netVars, writerVars, fdQueue, object, readMap, part>>
  BY <1>1, ConnQuiet, ObjectQuiet DEF netVars, writerVars, ConnInv
<1>2. CASE UNCHANGED vars \/ Handle \/ SendDatagram \/ \E m \in dgrams : ReceiveDatagram(m) \/ LoseDatagram(m)
  BY <1>1, <1>2 DEF vars, readerVars, Handle, SendDatagram, ReceiveDatagram, LoseDatagram
<1>3. CASE Send
  BY <1>1, <1>3, AddConn DEF Send, AddDatagram, readerVars
<1>4. CASE Write \/ Wait
  BY <1>4, LoopConn DEF Write, Wait, readerVars
<1>5. CASE Read
  BY <1>5, AcceptConn, CreateConn, ReadConn DEF Read, ReaderIO, writerVars
<1>6. CASE Kernel \/ Fault
  BY <1>6, KernelConn, RestartConn DEF Kernel, Fault, writerVars, readerVars
<1> QED
  BY <1>2, <1>3, <1>4, <1>5, <1>6 DEF Next

-----------------------------------------------------------------------------
(* What a step does to the stream of a connection: it loses its end or     *)
(* nothing, and the connection in use keeps whole frames.                  *)
Begins(t, s) == Len(t) <= Len(s) /\ \A i \in 1..Len(t) : t[i] = s[i]

Shrinks(c) ==
    /\ Begins(Stream(c)', Stream(c))
    /\ c = conn' /\ chan'[c] = "open" => Len(Stream(c)') % FrameLen = 0

Steady(c) ==
    /\ part'[c] = part[c] /\ Wired(c)' = Wired(c) /\ Rest(c)' = Rest(c)
    /\ c = conn' /\ chan'[c] = "open" => c = conn /\ chan[c] = "open"

Gone(c) == part'[c] = <<>> /\ Wired(c)' = <<>> /\ Rest(c)' = <<>>

LEMMA StreamPartsNext ==
  ASSUME Types', NEW c \in Conn
  PROVE  /\ part'[c] \in Seq(Unit) /\ Wired(c)' \in Seq(Unit) /\ Rest(c)' \in Seq(Unit)
         /\ wire'[c] \in Seq(Unit)
         /\ Stream(c)' = (part'[c] \o Wired(c)') \o Rest(c)'
         /\ Stream(c)' \in Seq(Unit)
<1>1. part'[c] \in Seq(Unit) /\ Wired(c)' \in Seq(Unit) /\ Rest(c)' \in Seq(Unit)
      /\ wire'[c] \in Seq(Unit)
  BY DEF Types, NetTypes, ReaderTypes, WriterTypes, Wired, Rest
<1>2. Stream(c)' = (part'[c] \o Wired(c)') \o Rest(c)'
  BY DEF Stream, Wired, Rest
<1> QED
  BY <1>1, <1>2, Joined

LEMMA BeginsKeeps ==
  ASSUME NEW s \in Seq(Unit), NEW t \in Seq(Unit), Begins(t, s)
  PROVE  Units(t) \subseteq Units(s) /\ (Aligned(s) => Aligned(t))
<1>1. Len(t) \in Nat /\ Len(s) \in Nat
  BY LenProperties
<1>2. Aligned(s) => Aligned(t)
  BY AlignedPrefix DEF Begins
<1>3. ASSUME NEW i \in 1..Len(t) PROVE t[i][1] \in Units(s)
  <2>1. i \in 1..Len(s) /\ t[i] = s[i]
    BY <1>1 DEF Begins
  <2> QED
    BY <2>1 DEF Units
<1> QED
  BY <1>2, <1>3 DEF Units

LEMMA ShrinkKeeps ==
  ASSUME Types, Types', StreamInv, \A c \in Conn : Shrinks(c)
  PROVE  StreamInv' /\ \A c \in Conn : Units(Stream(c)') \subseteq Units(Stream(c))
<1>1. ASSUME NEW c \in Conn
      PROVE  /\ Aligned(Stream(c)')
             /\ Units(Stream(c)') \subseteq Units(Stream(c))
             /\ c = conn' /\ chan'[c] = "open" => Len(Stream(c)') % FrameLen = 0
  <2>1. Stream(c) \in Seq(Unit) /\ Stream(c)' \in Seq(Unit)
    BY StreamParts, StreamPartsNext
  <2>2. Aligned(Stream(c)) /\ Shrinks(c)
    BY DEF StreamInv
  <2> QED
    BY <2>1, <2>2, BeginsKeeps DEF Shrinks
<1> QED
  BY <1>1 DEF StreamInv

LEMMA SteadyStream ==
  ASSUME NEW c \in Conn, Steady(c)
  PROVE  Stream(c)' = Stream(c)
<1>1. Stream(c)' = (part'[c] \o Wired(c)') \o Rest(c)'
  BY DEF Stream, Wired, Rest
<1>2. Stream(c) = (part[c] \o Wired(c)) \o Rest(c)
  BY DEF Stream, Wired, Rest
<1> QED
  BY <1>1, <1>2 DEF Steady

LEMMA SteadyShrinks ==
  ASSUME Types, StreamInv, NEW c \in Conn, Steady(c)
  PROVE  Shrinks(c)
<1>1. Stream(c) \in Seq(Unit) /\ Stream(c)' = Stream(c)
  BY StreamParts, SteadyStream
<1>2. Begins(Stream(c)', Stream(c))
  <2>1. Len(Stream(c)) \in Nat
    BY <1>1, LenProperties
  <2> QED
    BY <1>1, <2>1 DEF Begins
<1> QED
  BY <1>1, <1>2 DEF Shrinks, Steady, StreamInv

LEMMA EmptyStream ==
  /\ (<<>> \o <<>>) \o <<>> = <<>> /\ Aligned(<<>>) /\ Len(<<>>) % FrameLen = 0
  /\ Units(<<>>) = {}
  /\ \A s \in Seq(Unit) : /\ Begins(<<>>, s) /\ <<>> \o s = s /\ s \o <<>> = s
                          /\ (<<>> \o s) \o <<>> = s /\ Len(s) \in Nat
                          /\ (Len(s) = 0 => s = <<>>)
<1>1. \A s \in Seq(Unit) : /\ <<>> \o s = s /\ s \o <<>> = s /\ Len(s) \in Nat
                           /\ (Len(s) = 0 => s = <<>>)
  BY ConcatEmptySeq, LenProperties, EmptySeq
<1>2. <<>> \in Seq(Unit) /\ Len(<<>>) = 0 /\ 1..0 = {}
  BY EmptyUnits
<1>3. 0 % FrameLen = 0
  <2>1. FrameLen \in Nat \ {0} /\ 0 \in 0..(FrameLen - 1)
    BY Lengths
  <2> QED
    BY <2>1, RemainderAdds
<1>4. \A s \in Seq(Unit) : Begins(<<>>, s)
  BY <1>1, <1>2 DEF Begins
<1>5. Units(<<>>) = {} /\ Aligned(<<>>)
  BY <1>2 DEF Units, Aligned
<1> QED
  BY <1>1, <1>2, <1>3, <1>4, <1>5

LEMMA GoneShrinks ==
  ASSUME Types, NEW c \in Conn, Gone(c)
  PROVE  Shrinks(c) /\ Stream(c)' = <<>>
<1>1. Stream(c)' = (part'[c] \o Wired(c)') \o Rest(c)'
  BY DEF Stream, Wired, Rest
<1>2. Stream(c)' = <<>>
  BY <1>1, EmptyStream DEF Gone
<1>3. Stream(c) \in Seq(Unit)
  BY StreamParts
<1> QED
  BY <1>2, <1>3, EmptyStream DEF Shrinks

(* Units under way and units still to be written are lost.                 *)
LEMMA LossShrinks ==
  ASSUME Types, Types', NEW c \in Conn, part'[c] = part[c], Begins(Wired(c)', Wired(c)),
         Rest(c)' = <<>>, ~(c = conn' /\ chan'[c] = "open")
  PROVE  Shrinks(c)
<1> DEFINE P == part[c]
           W == Wired(c)
           R == Rest(c)
           V == Wired(c)'
<1>1. /\ P \in Seq(Unit) /\ W \in Seq(Unit) /\ R \in Seq(Unit) /\ V \in Seq(Unit)
      /\ Stream(c) = (P \o W) \o R /\ Stream(c)' = (P \o V) \o <<>>
  BY StreamParts, StreamPartsNext
<1>2. Len(V) <= Len(W) /\ \A i \in 1..Len(V) : V[i] = W[i]
  BY DEF Begins
<1>3. SUFFICES ASSUME NEW p \in Seq(Unit), NEW w \in Seq(Unit), NEW r \in Seq(Unit),
                      NEW v \in Seq(Unit), Len(v) <= Len(w),
                      \A i \in 1..Len(v) : v[i] = w[i]
               PROVE  Begins((p \o v) \o <<>>, (p \o w) \o r)
  BY <1>1, <1>2 DEF Shrinks
<1>4. /\ p \o v \in Seq(Unit) /\ p \o w \in Seq(Unit)
      /\ Len(p) \in Nat /\ Len(v) \in Nat /\ Len(w) \in Nat /\ Len(r) \in Nat
      /\ Len(p \o v) = Len(p) + Len(v)
      /\ \A i \in 1..(Len(p) + Len(v)) : (p \o v)[i] = IF i <= Len(p) THEN p[i] ELSE v[i - Len(p)]
      /\ \A i \in 1..(Len(p) + Len(w)) : (p \o w)[i] = IF i <= Len(p) THEN p[i] ELSE w[i - Len(p)]
  BY ConcatProperties, LenProperties
<1>5. /\ (p \o v) \o <<>> = p \o v
      /\ Len((p \o w) \o r) = Len(p) + Len(w) + Len(r)
      /\ \A i \in 1..(Len(p) + Len(w)) : ((p \o w) \o r)[i] = (p \o w)[i]
  BY <1>4, Joined, EmptyStream
<1>6. ASSUME NEW i \in 1..(Len(p) + Len(v)) PROVE (p \o v)[i] = (p \o w)[i]
  <2>1. i \in 1..(Len(p) + Len(w))
    BY <1>3, <1>4
  <2>2. CASE i <= Len(p)
    BY <1>4, <2>1, <2>2
  <2>3. CASE i > Len(p)
    <3>1. i - Len(p) \in 1..Len(v)
      BY <1>4, <2>3
    <3> QED
      BY <1>3, <1>4, <2>1, <2>3, <3>1
  <2>4. i <= Len(p) \/ i > Len(p)
    BY <1>4
  <2> QED
    BY <2>2, <2>3, <2>4
<1>7. Len(p \o v) <= Len((p \o w) \o r)
  BY <1>3, <1>4, <1>5
<1>8. ASSUME NEW i \in 1..Len(p \o v) PROVE (p \o v)[i] = ((p \o w) \o r)[i]
  <2>1. i \in 1..(Len(p) + Len(v)) /\ i \in 1..(Len(p) + Len(w))
    BY <1>3, <1>4
  <2> QED
    BY <1>5, <1>6, <2>1
<1> QED
  BY <1>5, <1>7, <1>8 DEF Begins

(* What each step does to every stream.                                    *)
LEMMA Untouched ==
  ASSUME Types, StreamInv, UNCHANGED <<netVars, left, fdQueue, readMap, part>>
  PROVE  \A c \in Conn : Shrinks(c)
<1>1. ASSUME NEW c \in Conn PROVE Steady(c)
  BY DEF Steady, Wired, Rest, netVars
<1> QED
  BY <1>1, SteadyShrinks

LEMMA ConnectShrinks ==
  ASSUME Types, Types', ConnInv, ObjectInv, StreamInv, NEW c \in Conn, Connect(c), left' = <<>>,
         UNCHANGED <<fdQueue, readMap, part>>
  PROVE  \A x \in Conn : Shrinks(x)
<1>1. /\ conn' = c /\ held' = held /\ wire' = [wire EXCEPT ![c] = <<>>]
      /\ chan' = [x \in Conn |-> IF x = c THEN "connecting"
                                 ELSE IF x = conn THEN Abandoned(x) ELSE chan[x]]
  BY DEF Connect
<1>2. chan'[c] = "connecting" /\ wire'[c] = <<>>
  BY <1>1 DEF Types, NetTypes
<1>3. c \notin held /\ part[c] = <<>>
  BY DEF Connect, Free, ConnInv, ObjectInv
<1>4. Shrinks(c)
  <2>1. Gone(c)
    BY <1>1, <1>2, <1>3 DEF Gone, Wired, Rest
  <2> QED
    BY <2>1, GoneShrinks
<1>5. ASSUME NEW x \in Conn, x # c PROVE Shrinks(x)
  <2>1. part'[x] = part[x] /\ Wired(x)' = Wired(x) /\ Rest(x)' = <<>> /\ x # conn'
    BY <1>1, <1>5 DEF Wired, Rest, Types, NetTypes
  <2>2. Begins(Wired(x)', Wired(x))
    <3>1. Len(Wired(x)) \in Nat
      BY StreamParts, LenProperties
    <3> QED
      BY <2>1, <3>1 DEF Begins
  <2> QED
    BY <2>1, <2>2, LossShrinks
<1> QED
  BY <1>4, <1>5

(* The units put on a connection stay in its stream.                       *)
LEMMA PutStreams ==
  ASSUME Types, Types', EventInv, ConnInv, ObjectInv, wpc = "onwrite",
         NEW u \in Seq(Unit), Put(u), left = <<>> \/ left = u,
         UNCHANGED <<fdQueue, readMap, part>>
  PROVE  /\ conn \in Conn /\ conn' = conn /\ chan' = chan
         /\ \A c \in Conn \ {conn} : Steady(c)
         /\ \/ chan[conn] = "open" /\ left = u /\ Stream(conn)' = Stream(conn)
            \/ chan[conn] = "open" /\ left = <<>> /\ Stream(conn)' = Stream(conn) \o u
            \/ chan[conn] = "reset" /\ Steady(conn)
<1>1. /\ conn \in Conn /\ chan[conn] \in {"open", "reset"}
      /\ UNCHANGED <<chan, conn, held>> /\ wire \in [Conn -> Seq(Unit)]
      /\ conn \in {conn}
  BY OnWriteConn DEF Put, netVars, Types, NetTypes
<1>2. \A c \in Conn \ {conn} : wire'[c] = wire[c]
  BY <1>1 DEF Put, netVars
<1>3. \A c \in Conn \ {conn} : Steady(c)
  BY <1>1, <1>2 DEF Steady, Wired, Rest
<1>4. CASE chan[conn] = "reset"
  <2>1. UNCHANGED netVars
    BY <1>4 DEF Put
  <2>2. Steady(conn)
    BY <1>4, <2>1 DEF Steady, Wired, Rest, netVars
  <2> QED
    BY <1>1, <1>3, <1>4, <2>2
<1>5. CASE chan[conn] = "open"
  <2> DEFINE n == Room(u)
             P == part[conn]
             W == wire[conn]
  <2>1. wire' = [wire EXCEPT ![conn] = W \o SubSeq(u, 1, n)] /\ left' = SubSeq(u, n + 1, Len(u))
    BY <1>5 DEF Put
  <2>2. n \in 0..Len(u)
    BY <1>1, RoomFor DEF Types
  <2> HIDE DEF n
  <2>3. wire'[conn] = W \o SubSeq(u, 1, n)
    BY <1>1, <2>1
  <2>4. conn \in Range(fdQueue) \union readMap \/ conn \notin held
    BY <1>1, <1>5 DEF ObjectInv, Types, ReaderTypes
  <2>5. P \in Seq(Unit) /\ W \in Seq(Unit) /\ Stream(conn) = (P \o W) \o left
    <3>1. Wired(conn) = wire[conn] /\ Rest(conn) = left
      BY <1>5, <2>4 DEF Wired, Rest
    <3> QED
      BY <1>1, <3>1, StreamParts
  <2>6. Stream(conn)' = Run(P, W \o SubSeq(u, 1, n), SubSeq(u, n + 1, Len(u)))
    <3>1. /\ part'[conn] = P /\ Wired(conn)' = W \o SubSeq(u, 1, n)
          /\ Rest(conn)' = SubSeq(u, n + 1, Len(u))
      BY <1>1, <1>5, <2>1, <2>3, <2>4 DEF Wired, Rest
    <3> QED
      BY <1>1, <3>1, StreamPartsNext DEF Run
  <2>7. Stream(conn)' = (P \o W) \o u
    BY <2>2, <2>5, <2>6, PutRun DEF Run
  <2>8. left = <<>> => Stream(conn) = P \o W
    <3>1. P \o W \in Seq(Unit)
      BY <2>5, Joined
    <3> QED
      BY <2>5, <3>1, EmptyStream
  <2> QED
    BY <1>1, <1>3, <1>5, <2>5, <2>7, <2>8
<1> QED
  BY <1>1, <1>4, <1>5

(* The steps of the loop but for DoOnWrite with a message.                 *)
LEMMA LoopShrinks ==
  ASSUME Types, Types', EventInv, ConnInv, ObjectInv, StreamInv, WriterLoop \/ GoIdle,
         UNCHANGED <<fdQueue, readMap, part>>
  PROVE  NextMessage \/ \A c \in Conn : Shrinks(c)
<1>1. CASE UNCHANGED <<netVars, left>>
  BY <1>1, Untouched
<1>2. CASE ReConnect
  <2>1. PICK c \in Conn : Connect(c)
    BY <1>2 DEF ReConnect
  <2>2. left' = <<>>
    BY <1>2 DEF ReConnect
  <2> QED
    BY <2>1, <2>2, ConnectShrinks
<1>3. CASE WriteLeft
  <2>1. wpc = "onwrite" /\ Put(left) /\ left \in Seq(Unit)
    BY <1>3 DEF WriteLeft, Types, WriterTypes
  <2>2. /\ conn \in Conn /\ conn' = conn /\ chan' = chan
        /\ \A c \in Conn \ {conn} : Steady(c)
        /\ \/ chan[conn] = "open" /\ Stream(conn)' = Stream(conn)
           \/ Steady(conn)
    <3>1. left # <<>>
      BY <1>3 DEF WriteLeft
    <3> QED
      BY <2>1, <3>1, PutStreams
  <2>3. ASSUME chan[conn] = "open", Stream(conn)' = Stream(conn) PROVE Shrinks(conn)
    <3>1. Len(Stream(conn)) \in Nat
      BY <2>2, StreamParts, LenProperties
    <3> QED
      BY <2>2, <2>3, <3>1 DEF Shrinks, Begins, StreamInv
  <2> QED
    BY <2>2, <2>3, SteadyShrinks
<1> QED
  BY <1>1, <1>2, <1>3 DEF WriterLoop, GoIdle, TimerFires, NoTimeout, NothingReady, Writable,
                          SocketError, GiveUp, WriteDone, DealWithWrite, OpenWrite

(* The reader's steps but for a whole frame.                               *)
LEMMA AcceptShrinks ==
  ASSUME Types, Types', ConnInv, ObjectInv, StreamInv, ReaderCloses(Destroyed),
         conn' = conn, left' = left, part' = part,
         \/ \E c \in Conn : /\ held' = (held \ Destroyed) \union {c} /\ c \notin held
                            /\ fdQueue' = Append(fdQueue, c) /\ readMap' = readMap
         \/ /\ held' = held \ Destroyed
            /\ fdQueue' = <<>> /\ readMap' = readMap \union Range(fdQueue)
  PROVE  \A c \in Conn : Shrinks(c)
<1>1. ASSUME NEW x \in Conn
      PROVE  /\ chan'[x] = IF x \notin Destroyed THEN chan[x]
                           ELSE IF x = conn THEN "reset" ELSE "unused"
             /\ wire'[x] = IF x \in Destroyed THEN <<>> ELSE wire[x]
  BY DEF ReaderCloses
<1>2. Range(<<>>) = {}
  BY DEF Range
<1>3. ASSUME NEW x \in Conn, x \in Destroyed PROVE Gone(x)
  <2>1. object[x] = "destroyed"
    BY <1>3 DEF Destroyed
  <2>2. x \notin Range(fdQueue) \union readMap /\ x \in held /\ part[x] = <<>>
    BY <2>1 DEF ObjectInv
  <2>3. wire'[x] = <<>> /\ chan'[x] \in {"reset", "unused"}
    BY <1>1, <1>3
  <2> QED
    BY <2>2, <2>3 DEF Gone, Wired, Rest
<1>4. ASSUME NEW x \in Conn, x \notin Destroyed PROVE Steady(x)
  <2>1. chan'[x] = chan[x] /\ wire'[x] = wire[x]
    BY <1>1, <1>4
  <2>2. (x \in Range(fdQueue') \union readMap' \/ x \notin held')
          <=> (x \in Range(fdQueue) \union readMap \/ x \notin held)
    <3>1. ASSUME NEW c \in Conn, held' = (held \ Destroyed) \union {c}, c \notin held,
                 fdQueue' = Append(fdQueue, c), readMap' = readMap
          PROVE  (x \in Range(fdQueue') \union readMap' \/ x \notin held')
                   <=> (x \in Range(fdQueue) \union readMap \/ x \notin held)
      <4>1. Range(fdQueue') = Range(fdQueue) \union {c}
        BY <3>1, Appended DEF Types, ReaderTypes
      <4> QED
        BY <1>4, <3>1, <4>1
    <3>2. CASE held' = held \ Destroyed /\ fdQueue' = <<>> /\ readMap' = readMap \union Range(fdQueue)
      BY <1>2, <1>4, <3>2
    <3> QED
      BY <3>1, <3>2
  <2> QED
    BY <2>1, <2>2 DEF Steady, Wired, Rest
<1> QED
  BY <1>3, <1>4, GoneShrinks, SteadyShrinks

LEMMA CreateShrinks ==
  ASSUME Types, Types', ConnInv, ObjectInv, StreamInv, UNCHANGED left,
         CreateEvent \/ \E c \in Conn : Accept(c)
  PROVE  \A c \in Conn : Shrinks(c)
<1>1. CASE \E c \in Conn : Accept(c)
  BY <1>1, AcceptShrinks DEF Accept, ToLoop, ClearEvent
<1>2. CASE CreateEvent
  <2>1. /\ ReaderCloses(Destroyed) /\ conn' = conn /\ held' = held \ Destroyed
        /\ readMap' = readMap \union Range(fdQueue) /\ fdQueue' = <<>>
        /\ part' = [x \in Conn |-> IF x \in Range(fdQueue) THEN <<>> ELSE part[x]]
    BY <1>2 DEF CreateEvent, ClearEvent, Range
  <2>2. \A x \in Conn : x \in Range(fdQueue) => part[x] = <<>>
    BY DEF ObjectInv
  <2>3. part' = part
    BY <2>1, <2>2 DEF Types, ReaderTypes
  <2> QED
    BY <2>1, <2>3, AcceptShrinks
<1> QED
  BY <1>1, <1>2

LEMMA RestartShrinks ==
  ASSUME Types, Types', ConnInv, ObjectInv, StreamInv, ReaderRestarts, left' = left
  PROVE  \A c \in Conn : Shrinks(c)
<1> DEFINE D == {c \in Conn : chan[c] \in {"open", "closed", "reset"}}
<1>1. /\ ReaderCloses(D) /\ conn' = conn /\ held' = {}
      /\ \A x \in Conn : part'[x] = <<>>
  BY DEF ReaderRestarts
<1>2. ASSUME NEW x \in Conn
      PROVE  /\ chan'[x] = IF x \notin D THEN chan[x]
                           ELSE IF x = conn THEN "reset" ELSE "unused"
             /\ wire'[x] = IF x \in D THEN <<>> ELSE wire[x]
  BY <1>1 DEF ReaderCloses
<1>3. ASSUME NEW x \in D PROVE Gone(x)
  BY <1>1, <1>2, <1>3 DEF Gone, Wired, Rest
<1>4. ASSUME NEW x \in Conn \ D PROVE Steady(x)
  <2>1. chan'[x] = chan[x] /\ wire'[x] = wire[x]
    BY <1>2, <1>4
  <2>2. x \notin held /\ part[x] = <<>>
    BY <1>4 DEF ConnInv, ObjectInv
  <2> QED
    BY <1>1, <2>1, <2>2 DEF Steady, Wired, Rest
<1> QED
  BY <1>3, <1>4, GoneShrinks, SteadyShrinks

LEMMA KernelShrinks ==
  ASSUME Types, Types', ConnInv, ObjectInv, StreamInv, NEW c \in Conn,
         Establish(c) \/ Refuse(c) \/ Break(c), UNCHANGED <<left, fdQueue, readMap, part>>
  PROVE  \A x \in Conn : Shrinks(x)
<1>1. /\ UNCHANGED <<conn, held>>
      /\ \A x \in Conn \ {c} : chan'[x] = chan[x] /\ wire'[x] = wire[x]
  BY DEF Establish, Refuse, Break, Types, NetTypes
<1>2. ASSUME NEW x \in Conn \ {c} PROVE Shrinks(x)
  <2>1. Steady(x)
    BY <1>1, <1>2 DEF Steady, Wired, Rest
  <2> QED
    BY <2>1, SteadyShrinks
<1>3. CASE chan[c] = "connecting" /\ wire' = wire
  <2>1. part[c] = <<>> /\ wire[c] = <<>> /\ left = <<>>
    BY <1>3 DEF ConnInv, ObjectInv
  <2>2. Gone(c)
    BY <1>3, <2>1 DEF Gone, Wired, Rest
  <2> QED
    BY <1>2, <2>2, GoneShrinks
<1>4. CASE Break(c)
  <2>1. PICK n \in 0..Len(wire[c]) : wire' = [wire EXCEPT ![c] = SubSeq(@, 1, n)]
    BY <1>4 DEF Break
  <2>2. /\ wire'[c] = SubSeq(wire[c], 1, n) /\ chan'[c] = "reset"
    BY <1>4, <2>1 DEF Break, Types, NetTypes
  <2>3. /\ Len(wire'[c]) = n /\ n <= Len(wire[c])
        /\ \A i \in 1..n : wire'[c][i] = wire[c][i]
    BY <2>1, <2>2, Cut, LenProperties DEF Types, NetTypes
  <2>4. Begins(Wired(c)', Wired(c))
    BY <1>1, <2>3, EmptyUnits DEF Begins, Wired
  <2> QED
    BY <1>2, <2>2, <2>4, LossShrinks DEF Rest
<1> QED
  BY <1>3, <1>4 DEF Establish, Refuse

(* Units read move from the connection to the frame that is being read.    *)
LEMMA ReadRun ==
  ASSUME NEW P \in Seq(Unit), NEW W \in Seq(Unit), NEW R \in Seq(Unit), NEW n \in 0..Len(W)
  PROVE  Run(P \o SubSeq(W, 1, n), SubSeq(W, n + 1, Len(W)), R) = Run(P, W, R)
<1>1. PICK a \in Seq(Unit), b \in Seq(Unit) : a = SubSeq(W, 1, n) /\ b = SubSeq(W, n + 1, Len(W))
  BY Cut
<1>2. a \o b = W
  BY <1>1, Cut
<1>3. Glue(Glue(P, a), b) = Glue(P, Glue(a, b))
  BY GlueAssociative
<1> QED
  BY <1>1, <1>2, <1>3 DEF Run, Glue

(* A frame that is handed on leaves the rest of the stream.                *)
LEMMA DropRun ==
  ASSUME NEW f \in Seq(Unit), NEW b \in Seq(Unit), NEW R \in Seq(Unit)
  PROVE  /\ Len(Run(f, b, R)) = Len(f) + Len(Run(<<>>, b, R))
         /\ \A i \in 1..Len(Run(<<>>, b, R)) :
               Run(<<>>, b, R)[i] = Run(f, b, R)[i + Len(f)]
<1>1. PICK r \in Seq(Unit) : r = b \o R
  BY Joined
<1>2. Run(<<>>, b, R) = r
  BY <1>1, EmptyStream DEF Run
<1>3. Run(f, b, R) = f \o r
  BY <1>1, Joined DEF Run
<1>4. /\ Len(f \o r) = Len(f) + Len(r) /\ Len(f) \in Nat /\ Len(r) \in Nat
      /\ \A i \in 1..(Len(f) + Len(r)) : (f \o r)[i] = IF i <= Len(f) THEN f[i] ELSE r[i - Len(f)]
  BY ConcatProperties, LenProperties
<1>5. ASSUME NEW i \in 1..Len(r) PROVE r[i] = (f \o r)[i + Len(f)]
  <2>1. i + Len(f) \in 1..(Len(f) + Len(r)) /\ ~(i + Len(f) <= Len(f)) /\ (i + Len(f)) - Len(f) = i
    BY <1>4
  <2> QED
    BY <1>4, <2>1
<1> QED
  BY <1>2, <1>3, <1>4, <1>5

LEMMA ReadStreams ==
  ASSUME Types, Types', ConnInv, ObjectInv, StreamInv, NEW c \in Conn, OnRead(c), left' = left
  PROVE  /\ \A x \in Conn \ {c} : Shrinks(x)
         /\ \/ Shrinks(c) /\ UNCHANGED <<inQ, inMem>>
            \/ /\ Len(Stream(c)) = FrameLen + Len(Stream(c)')
               /\ \A i \in 1..Len(Stream(c)') : Stream(c)'[i] = Stream(c)[i + FrameLen]
               /\ 1 \in 1..Len(Stream(c)) /\ Stream(c)[1][1] \in Message
               /\ AddToQueue(Stream(c)[1][1])
<1> DEFINE n == Arrived(c, Asked(c))
           now == part[c] \o SubSeq(wire[c], 1, n)
           b == SubSeq(wire[c], n + 1, Len(wire[c]))
           done == Complete(now)
           broken == chan[c] = "closed" /\ Len(now) = HeadLen
<1>1. /\ c \in readMap /\ n \in 0..Len(wire[c]) /\ now \in Seq(Unit)
      /\ wire[c] \in Seq(Unit) /\ part[c] \in Seq(Unit) /\ Rest(c) \in Seq(Unit)
      /\ Stream(c) = Run(part[c], wire[c], Rest(c))
  <2>1. c \in readMap
    BY DEF OnRead
  <2>2. Wired(c) = wire[c]
    BY <2>1 DEF Wired
  <2> QED
    BY <2>1, <2>2, Reads, StreamParts DEF Run
<1>2. /\ wire' = [wire EXCEPT ![c] = SubSeq(@, n + 1, Len(@))]
      /\ part' = [part EXCEPT ![c] = IF done \/ broken THEN <<>> ELSE now]
      /\ (IF done THEN AddToQueue(Decoded(now)) ELSE UNCHANGED <<inQ, inMem>>)
      /\ (IF broken THEN DropConnection(c) ELSE UNCHANGED <<readMap, object>>)
      /\ UNCHANGED <<chan, conn, held, fdQueue, taken, memRead, heard>>
  BY DEF OnRead
<1>3. done => /\ Decoded(now) = Stream(c)[1][1] /\ 1 \in 1..Len(Stream(c))
              /\ Stream(c)[1][1] \in Message
  BY <1>1, ReadFrame
<1>4. ~(done /\ broken)
  <2>1. FrameLen # HeadLen
    BY Lengths
  <2> QED
    BY <2>1 DEF Complete
<1>5. c \in held /\ c \notin Range(fdQueue) /\ b \in Seq(Unit)
  <2>1. c \in held /\ c \notin Range(fdQueue)
    BY <1>1 DEF ObjectInv
  <2> QED
    BY <1>1, <2>1, Cut
<1>6. Run(now, b, Rest(c)) = Stream(c)
  BY <1>1, ReadRun
<1>7. done => Len(now) = FrameLen
  BY DEF Complete
<1> HIDE DEF n, now, done
<1>8. wire'[c] = b /\ part'[c] = IF done \/ broken THEN <<>> ELSE now
  BY <1>2 DEF Types, NetTypes, ReaderTypes
<1> HIDE DEF b, broken
<1>9. readMap' = IF broken THEN readMap \ {c} ELSE readMap
  BY <1>2 DEF DropConnection
<1>10. Rest(c)' = Rest(c) /\ (broken => Rest(c)' = <<>>)
  BY <1>2 DEF Rest, broken
<1>11. ASSUME NEW x \in Conn \ {c} PROVE Shrinks(x)
  <2>1. wire'[x] = wire[x] /\ part'[x] = part[x]
    BY <1>2, <1>11 DEF Types, NetTypes, ReaderTypes
  <2>2. Steady(x)
    BY <1>2, <1>9, <1>11, <2>1 DEF Steady, Wired, Rest
  <2> QED
    BY <2>2, SteadyShrinks
<1>12. Stream(c)' = Run(part'[c], Wired(c)', Rest(c)')
  BY StreamPartsNext DEF Run
<1>13. CASE broken
  <2>1. Gone(c)
    BY <1>2, <1>4, <1>5, <1>8, <1>9, <1>10, <1>13 DEF Gone, Wired
  <2> QED
    BY <1>2, <1>4, <1>11, <1>13, <2>1, GoneShrinks
<1>14. CASE ~broken
  <2>1. Wired(c)' = b
    BY <1>1, <1>8, <1>9, <1>14 DEF Wired
  <2>2. CASE ~done
    <3>1. Stream(c)' = Stream(c)
      BY <1>6, <1>8, <1>10, <1>12, <1>14, <2>1, <2>2
    <3>2. Shrinks(c)
      <4>1. Len(Stream(c)) \in Nat
        BY StreamParts, LenProperties
      <4> QED
        BY <1>2, <3>1, <4>1 DEF Shrinks, Begins, StreamInv
    <3> QED
      BY <1>2, <1>11, <2>2, <3>2
  <2>3. CASE done
    <3>1. Stream(c)' = Run(<<>>, b, Rest(c))
      BY <1>8, <1>10, <1>12, <2>1, <2>3
    <3>2. /\ Len(Stream(c)) = FrameLen + Len(Stream(c)')
          /\ \A i \in 1..Len(Stream(c)') : Stream(c)'[i] = Stream(c)[i + FrameLen]
      <4>1. now \in Seq(Unit) /\ b \in Seq(Unit) /\ Rest(c) \in Seq(Unit)
        BY <1>1, <1>5
      <4>2. /\ Len(Run(now, b, Rest(c))) = Len(now) + Len(Run(<<>>, b, Rest(c)))
            /\ \A i \in 1..Len(Run(<<>>, b, Rest(c))) :
                  Run(<<>>, b, Rest(c))[i] = Run(now, b, Rest(c))[i + Len(now)]
        BY <4>1, DropRun
      <4> QED
        BY <1>6, <1>7, <2>3, <3>1, <4>2
    <3> QED
      BY <1>2, <1>3, <1>11, <2>3, <3>2
  <2> QED
    BY <2>2, <2>3
<1> QED
  BY <1>13, <1>14

LEMMA FailShrinks ==
  ASSUME Types, Types', ObjectInv, StreamInv, NEW c \in Conn, ReadFails(c), left' = left
  PROVE  \A x \in Conn : Shrinks(x)
<1>1. /\ c \in readMap /\ chan[c] \in {"reset", "closed"} /\ readMap' = readMap \ {c}
      /\ part' = [part EXCEPT ![c] = <<>>] /\ UNCHANGED <<netVars, fdQueue>>
  BY DEF ReadFails, DropConnection
<1>2. c \in held /\ c \notin Range(fdQueue) /\ part'[c] = <<>>
  BY <1>1 DEF ObjectInv, Types, ReaderTypes
<1>3. Gone(c)
  BY <1>1, <1>2 DEF Gone, Wired, Rest, netVars
<1>4. ASSUME NEW x \in Conn \ {c} PROVE Steady(x)
  BY <1>1, <1>4 DEF Steady, Wired, Rest, netVars, Types, ReaderTypes
<1> QED
  BY <1>3, <1>4, GoneShrinks, SteadyShrinks

-----------------------------------------------------------------------------
(* A message is queued, then on one connection, then handed on: a step     *)
(* moves it from one to the next, or loses it.                             *)
LEMMA OnceKept ==
  ASSUME Types, OnceInv, next' \in {next, next + 1},
         \A c \in Conn : \A m \in Units(Stream(c)') :
            \/ m \in Units(Stream(c))
            \/ m \in Range(outQ) /\ c = conn /\ \A k \in Range(outQ') : m < k,
         \A m \in Handed' :
            \/ m \in Handed \union dgrams
            \/ /\ \E c \in Conn : m \in Units(Stream(c))
               /\ \A c \in Conn : m \notin Units(Stream(c)'),
         \A k \in Range(outQ') :
            k \in Range(outQ) \/ (k = next /\ k \notin Datagrams /\ next' = next + 1),
         \A i, j \in 1..Len(outQ') : i < j => outQ'[i] < outQ'[j],
         \A m \in Range(udpQ') \union dgrams' :
            m \in Range(udpQ) \union dgrams \/ (m = next /\ next' = next + 1),
         \A i, j \in 1..Len(inQ') : i # j /\ inQ'[i] = inQ'[j] => inQ'[i] \in Datagrams
  PROVE  OnceInv'
<1>1. /\ next \in Nat /\ dgrams \subseteq Datagrams /\ Datagrams \subseteq Nat
      /\ Range(outQ) \subseteq Nat /\ Range(udpQ) \subseteq Nat /\ Handed \subseteq Nat
  <2>1. Message \subseteq Nat /\ Datagrams \subseteq Message
    BY MessagingAssumption, WriterAssumption DEF Message
  <2>2. Range(outQ) \subseteq Message /\ Range(udpQ) \subseteq Datagrams /\ Range(inQ) \subseteq Message
    BY Ranges DEF Types, SenderTypes, WriterTypes, ReaderTypes
  <2>3. heard \subseteq Message /\ {taken} \ {Nothing} \subseteq Message
    BY DEF Types, ReaderTypes
  <2>4. next \in Nat /\ dgrams \subseteq Datagrams
    BY DEF Types, SenderTypes
  <2> QED
    BY <2>1, <2>2, <2>3, <2>4 DEF Handed
<1>2. \A c \in Conn : Units(Stream(c)) \subseteq Nat
  <2> SUFFICES ASSUME NEW c \in Conn, NEW i \in 1..Len(Stream(c))
               PROVE  Stream(c)[i][1] \in Nat
    BY DEF Units
  <2> QED
    BY StreamParts, UnitFields
<1>7. /\ \A m \in Handed : m < next
      /\ \A m \in Range(outQ) : m < next /\ m \notin Datagrams /\ m \notin Handed
      /\ \A m \in Range(udpQ) \union dgrams : m < next
      /\ \A c \in Conn : \A m \in Units(Stream(c)) :
            /\ m < next /\ m \notin Datagrams /\ m \notin Handed
            /\ \A k \in Range(outQ) : m < k
            /\ \A d \in Conn \ {c} : m \notin Units(Stream(d))
  BY DEF OnceInv, Carried
<1>8. \A m \in Nat : m < next => m < next' /\ m # next
  BY <1>1
<1>3. ASSUME NEW m \in Handed' PROVE m < next'
  <2>1. CASE m \in Handed \union dgrams
    BY <1>1, <1>7, <1>8, <2>1
  <2>2. CASE \E c \in Conn : m \in Units(Stream(c))
    BY <1>2, <1>7, <1>8, <2>2
  <2> QED
    BY <2>1, <2>2
<1>4. ASSUME NEW k \in Range(outQ') PROVE k < next' /\ k \notin Datagrams \union Handed'
  <2>0. k \in Range(outQ) \/ (k = next /\ k \notin Datagrams /\ next' = next + 1)
    OBVIOUS
  <2>1. k < next'
    BY <1>1, <1>7, <1>8, <2>0
  <2>2. k \notin Datagrams /\ k \notin Handed /\ k \in Nat
    BY <1>1, <1>7, <2>0
  <2>3. ASSUME k \in Handed' PROVE FALSE
    <3>1. CASE k \in Handed \union dgrams
      BY <1>1, <2>2, <3>1
    <3>2. CASE \E c \in Conn : k \in Units(Stream(c))
      BY <1>1, <1>2, <1>7, <2>0, <3>2
    <3> QED
      BY <2>3, <3>1, <3>2
  <2> QED
    BY <2>1, <2>2, <2>3
<1>5. ASSUME NEW m \in Range(udpQ') \union dgrams' PROVE m < next'
  <2>1. m \in Range(udpQ) \union dgrams \/ (m = next /\ next' = next + 1)
    OBVIOUS
  <2>2. CASE m \in Range(udpQ) \union dgrams
    <3>1. m \in Nat /\ m < next
      BY <1>1, <1>7, <2>2
    <3> QED
      BY <1>8, <3>1
  <2>3. CASE m = next /\ next' = next + 1
    BY <1>1, <2>3
  <2> QED
    BY <2>1, <2>2, <2>3
<1>6. ASSUME NEW c \in Conn, NEW m \in Units(Stream(c)')
      PROVE  /\ m < next' /\ m \notin Datagrams \union Handed'
             /\ \A k \in Range(outQ') : m < k
             /\ \A d \in Conn \ {c} : m \notin Units(Stream(d)')
  <2>1. CASE m \in Units(Stream(c))
    <3>1. m \in Nat /\ m < next /\ m \notin Datagrams /\ m \notin Handed
      BY <1>2, <1>7, <2>1
    <3>2. \A k \in Range(outQ') : m < k
      BY <1>1, <1>7, <2>1, <3>1
    <3>3. \A d \in Conn \ {c} : m \notin Units(Stream(d)')
      <4>1. m \notin Range(outQ)
        BY <1>7, <2>1, <3>1
      <4> QED
        BY <1>7, <2>1, <4>1
    <3>4. m \notin Handed'
      BY <1>1, <3>1
    <3> QED
      BY <1>8, <3>1, <3>2, <3>3, <3>4
  <2>2. CASE /\ m \in Range(outQ) /\ c = conn /\ \A k \in Range(outQ') : m < k
    <3>1. m \in Nat /\ m < next /\ m \notin Datagrams /\ m \notin Handed
      BY <1>1, <1>7, <2>2
    <3>2. \A d \in Conn : m \notin Units(Stream(d))
      BY <1>7, <2>2, <3>1
    <3>3. \A d \in Conn \ {c} : m \notin Units(Stream(d)')
      BY <2>2, <3>2
    <3>4. m \notin Handed'
      BY <1>1, <3>1, <3>2
    <3> QED
      BY <1>8, <2>2, <3>1, <3>3, <3>4
  <2> QED
    BY <2>1, <2>2
<1> QED
  BY <1>3, <1>4, <1>5, <1>6 DEF OnceInv, Carried

(* A step that loses messages, if it does anything to them.                *)
LEMMA OnceLost ==
  ASSUME Types, OnceInv, UNCHANGED <<next, udpQ>>, dgrams' \subseteq dgrams,
         \A c \in Conn : Units(Stream(c)') \subseteq Units(Stream(c)),
         Handed' \subseteq Handed, outQ' = outQ \/ outQ' = <<>>,
         \A i, j \in 1..Len(inQ') : i # j /\ inQ'[i] = inQ'[j] => inQ'[i] \in Datagrams
  PROVE  OnceInv'
<1>1. Range(outQ') \subseteq Range(outQ)
  BY DEF Range
<1>2. \A i, j \in 1..Len(outQ') : i < j => outQ'[i] < outQ'[j]
  <2>1. Len(<<>>) = 0 /\ 1..0 = {}
    OBVIOUS
  <2> QED
    BY <2>1 DEF OnceInv
<1> QED
  BY <1>1, <1>2, OnceKept

(* The queue of the IOLoop takes a message it does not hold, or a datagram. *)
LEMMA QueueOnce ==
  ASSUME Types, OnceInv, NEW m \in Message, AddToQueue(m), UNCHANGED <<taken, heard>>,
         m \in Datagrams \/ m \notin Handed
  PROVE  /\ Handed' \subseteq Handed \union {m}
         /\ \A i, j \in 1..Len(inQ') : i # j /\ inQ'[i] = inQ'[j] => inQ'[i] \in Datagrams
<1>1. CASE inQ' = inQ
  BY <1>1 DEF Handed, OnceInv
<1>2. CASE inQ' = Append(inQ, m)
  <2>1. /\ Len(inQ') = Len(inQ) + 1 /\ Len(inQ) \in Nat
        /\ \A i \in 1..Len(inQ) : inQ'[i] = inQ[i]
        /\ inQ'[Len(inQ) + 1] = m /\ Range(inQ') = Range(inQ) \union {m}
    BY <1>2, Appended DEF Types, ReaderTypes
  <2>2. \A i \in 1..Len(inQ) : inQ[i] \in Handed
    BY Ranges DEF Types, ReaderTypes, Handed
  <2>3. \A i \in 1..Len(inQ') : i \in 1..Len(inQ) \/ i = Len(inQ) + 1
    BY <2>1
  <2>4. ASSUME NEW i \in 1..Len(inQ'), NEW j \in 1..Len(inQ'), i # j, inQ'[i] = inQ'[j]
        PROVE  inQ'[i] \in Datagrams
    <3>1. CASE i \in 1..Len(inQ) /\ j \in 1..Len(inQ)
      BY <2>1, <2>4, <3>1 DEF OnceInv
    <3>2. CASE i = Len(inQ) + 1 /\ j \in 1..Len(inQ)
      BY <2>1, <2>2, <2>4, <3>2
    <3>3. CASE i \in 1..Len(inQ) /\ j = Len(inQ) + 1
      BY <2>1, <2>2, <2>4, <3>3
    <3> QED
      BY <2>3, <2>4, <3>1, <3>2, <3>3
  <2> QED
    BY <2>1, <2>4 DEF Handed
<1> QED
  BY <1>1, <1>2 DEF AddToQueue

LEMMA SendOnce ==
  ASSUME Types, OnceInv, Send, \A c \in Conn : Units(Stream(c)') \subseteq Units(Stream(c))
  PROVE  OnceInv'
<1>1. /\ next \in Message /\ next' = next + 1 /\ next \in Nat
      /\ UNCHANGED <<inQ, taken, heard, dgrams>>
  BY NextMessages DEF Send, readerVars
<1>2. Handed' = Handed
  BY <1>1 DEF Handed
<1>3. \A i, j \in 1..Len(inQ') : i # j /\ inQ'[i] = inQ'[j] => inQ'[i] \in Datagrams
  BY <1>1 DEF OnceInv
<1>4. CASE outQ' = outQ
  <2>1. Range(udpQ') \subseteq Range(udpQ) \union {next}
    <3>1. CASE udpQ' = udpQ
      BY <3>1
    <3>2. CASE udpQ' = Append(udpQ, next) /\ next \in Datagrams
      BY <3>2, Appended DEF Types, SenderTypes
    <3> QED
      BY <3>1, <3>2 DEF Send, AddDatagram
  <2>2. \A i, j \in 1..Len(outQ') : i < j => outQ'[i] < outQ'[j]
    BY <1>4 DEF OnceInv
  <2> QED
    BY <1>1, <1>2, <1>3, <1>4, <2>1, <2>2, OnceKept
<1>5. CASE outQ' = Append(outQ, next) /\ next \notin Datagrams /\ udpQ' = udpQ
  <2>1. /\ Len(outQ') = Len(outQ) + 1 /\ Len(outQ) \in Nat
        /\ \A i \in 1..Len(outQ) : outQ'[i] = outQ[i] /\ outQ[i] \in Range(outQ)
        /\ outQ'[Len(outQ) + 1] = next /\ Range(outQ') = Range(outQ) \union {next}
    BY <1>1, <1>5, Appended, Ranges DEF Types, WriterTypes
  <2>2. ASSUME NEW i \in 1..Len(outQ'), NEW j \in 1..Len(outQ'), i < j
        PROVE  outQ'[i] < outQ'[j]
    <3>1. i \in 1..Len(outQ) /\ (j \in 1..Len(outQ) \/ j = Len(outQ) + 1)
      BY <2>1, <2>2
    <3>2. CASE j \in 1..Len(outQ)
      BY <2>1, <2>2, <3>1, <3>2 DEF OnceInv
    <3>3. CASE j = Len(outQ) + 1
      BY <2>1, <3>1, <3>3 DEF OnceInv
    <3> QED
      BY <3>1, <3>2, <3>3
  <2> QED
    BY <1>1, <1>2, <1>3, <1>5, <2>1, <2>2, OnceKept
<1> QED
  BY <1>4, <1>5 DEF Send, AddDatagram, AddMessage, writerVars

LEMMA HandleOnce ==
  ASSUME Types, OnceInv, Handle
  PROVE  OnceInv'
<1>1. /\ UNCHANGED <<netVars, left, outQ, fdQueue, readMap, part, next, udpQ, dgrams>>
  BY DEF Handle, writerVars
<1>2. \A c \in Conn : Units(Stream(c)') = Units(Stream(c))
  <2>1. ASSUME NEW c \in Conn PROVE Stream(c)' = Stream(c)
    <3>1. Steady(c)
      BY <1>1 DEF Steady, Wired, Rest, netVars
    <3> QED
      BY <3>1, SteadyStream
  <2> QED
    BY <2>1
<1>3. CASE PopMessage
  <2>1. /\ taken = Nothing /\ taken' = Head(inQ) /\ inQ' = Tail(inQ) /\ heard' = heard
        /\ Head(inQ) \in Message /\ Len(inQ') = Len(inQ) - 1 /\ Len(inQ) \in Nat
        /\ \A i \in 1..Len(inQ') : inQ'[i] = inQ[i + 1]
        /\ Range(inQ) = Range(inQ') \union {Head(inQ)}
    BY <1>3, Heads DEF PopMessage, Types, ReaderTypes
  <2>2. Handed' \subseteq Handed
    BY <2>1 DEF Handed
  <2>3. ASSUME NEW i \in 1..Len(inQ'), NEW j \in 1..Len(inQ'), i # j, inQ'[i] = inQ'[j]
        PROVE  inQ'[i] \in Datagrams
    <3>1. i + 1 \in 1..Len(inQ) /\ j + 1 \in 1..Len(inQ) /\ i + 1 # j + 1
      BY <2>1, <2>3
    <3> QED
      BY <2>1, <2>3, <3>1 DEF OnceInv
  <2> QED
    BY <1>1, <1>2, <2>2, <2>3, OnceLost
<1>4. CASE OnReceive
  <2>1. Handed' \subseteq Handed /\ inQ' = inQ
    BY <1>4 DEF OnReceive, Handed
  <2>2. \A i, j \in 1..Len(inQ') : i # j /\ inQ'[i] = inQ'[j] => inQ'[i] \in Datagrams
    BY <2>1 DEF OnceInv
  <2> QED
    BY <1>1, <1>2, <2>1, <2>2, OnceLost
<1> QED
  BY <1>3, <1>4 DEF Handle

LEMMA DatagramOnce ==
  ASSUME Types, OnceInv, \A c \in Conn : Units(Stream(c)') = Units(Stream(c)),
         SendDatagram \/ \E m \in dgrams : ReceiveDatagram(m) \/ LoseDatagram(m)
  PROVE  OnceInv'
<1>1. /\ UNCHANGED <<outQ, taken, heard, next>>
      /\ \A i, j \in 1..Len(outQ) : i < j => outQ[i] < outQ[j]
  BY DEF SendDatagram, ReceiveDatagram, LoseDatagram, readerVars, writerVars, OnceInv
<1>2. CASE SendDatagram
  <2>1. /\ inQ' = inQ /\ dgrams' = dgrams \union {Head(udpQ)}
        /\ Range(udpQ) = Range(udpQ') \union {Head(udpQ)}
    BY <1>2, Heads DEF SendDatagram, readerVars, Types, SenderTypes
  <2>2. Handed' = Handed
    BY <1>1, <2>1 DEF Handed
  <2>3. \A i, j \in 1..Len(inQ') : i # j /\ inQ'[i] = inQ'[j] => inQ'[i] \in Datagrams
    BY <2>1 DEF OnceInv
  <2> QED
    BY <1>1, <2>1, <2>2, <2>3, OnceKept
<1>3. ASSUME NEW m \in dgrams, ReceiveDatagram(m) PROVE OnceInv'
  <2>1. m \in Datagrams /\ m \in Message /\ AddToQueue(m) /\ udpQ' = udpQ /\ dgrams' \subseteq dgrams
    BY <1>3, MessagingAssumption DEF ReceiveDatagram, Types, SenderTypes
  <2>2. /\ Handed' \subseteq Handed \union {m}
        /\ \A i, j \in 1..Len(inQ') : i # j /\ inQ'[i] = inQ'[j] => inQ'[i] \in Datagrams
    BY <1>1, <2>1, QueueOnce
  <2> QED
    BY <1>1, <2>1, <2>2, OnceKept
<1>4. ASSUME NEW m \in dgrams, LoseDatagram(m) PROVE OnceInv'
  <2>1. inQ' = inQ /\ udpQ' = udpQ /\ dgrams' \subseteq dgrams
    BY <1>4 DEF LoseDatagram, readerVars
  <2>2. Handed' = Handed
    BY <1>1, <2>1 DEF Handed
  <2>3. \A i, j \in 1..Len(inQ') : i # j /\ inQ'[i] = inQ'[j] => inQ'[i] \in Datagrams
    BY <2>1 DEF OnceInv
  <2> QED
    BY <1>1, <2>1, <2>2, <2>3, OnceLost
<1> QED
  BY <1>2, <1>3, <1>4

(* DoOnWrite with a message: its frame goes to the end of the stream, or   *)
(* it is dropped, or it is lost on a connection that is broken.            *)
LEMMA UnitsJoined ==
  ASSUME NEW s \in Seq(Unit), NEW m \in Message
  PROVE  /\ Units(s \o Frame(m)) \subseteq Units(s) \union {m}
         /\ s \o Frame(m) \in Seq(Unit)
<1>1. /\ Frame(m) \in Seq(Unit) /\ Len(Frame(m)) = FrameLen /\ FrameLen \in Nat
      /\ \A i \in 1..FrameLen : Frame(m)[i] = <<m, i>>
  BY FrameType, Lengths
<1>2. /\ s \o Frame(m) \in Seq(Unit) /\ Len(s \o Frame(m)) = Len(s) + FrameLen /\ Len(s) \in Nat
      /\ \A i \in 1..(Len(s) + FrameLen) :
            (s \o Frame(m))[i] = IF i <= Len(s) THEN s[i] ELSE Frame(m)[i - Len(s)]
  BY <1>1, ConcatProperties, LenProperties
<1>3. ASSUME NEW i \in 1..(Len(s) + FrameLen)
      PROVE  (s \o Frame(m))[i][1] \in Units(s) \union {m}
  <2>1. CASE i <= Len(s)
    <3>1. i \in 1..Len(s) /\ (s \o Frame(m))[i] = s[i]
      BY <1>2, <2>1
    <3> QED
      BY <3>1 DEF Units
  <2>2. CASE i > Len(s)
    <3>1. i - Len(s) \in 1..FrameLen /\ (s \o Frame(m))[i] = Frame(m)[i - Len(s)]
      BY <1>1, <1>2, <2>2
    <3>2. (s \o Frame(m))[i] = <<m, i - Len(s)>>
      BY <1>1, <3>1
    <3> QED
      BY <3>2
  <2>3. i <= Len(s) \/ i > Len(s)
    BY <1>1, <1>2
  <2> QED
    BY <2>1, <2>2, <2>3
<1>4. Units(s \o Frame(m)) = {(s \o Frame(m))[i][1] : i \in 1..(Len(s) + FrameLen)}
  BY <1>2 DEF Units
<1> QED
  BY <1>2, <1>3, <1>4

LEMMA NextStep ==
  ASSUME Types, Types', EventInv, ConnInv, ObjectInv, StreamInv, OnceInv, NextMessage,
         UNCHANGED <<readerVars, next, udpQ, dgrams>>
  PROVE  StreamInv' /\ OnceInv'
<1> DEFINE m == Head(outQ)
<1>1. /\ wpc = "onwrite" /\ left = <<>> /\ outQ' = Tail(outQ)
      /\ m \in Message /\ m \in Range(outQ) /\ Range(outQ') \subseteq Range(outQ)
      /\ Len(outQ') = Len(outQ) - 1 /\ Len(outQ) \in Nat \ {0} /\ m = outQ[1]
      /\ \A i \in 1..Len(outQ') : outQ'[i] = outQ[i + 1]
  BY Heads DEF NextMessage, Types, WriterTypes
<1> HIDE DEF m
<1>2. \A i, j \in 1..Len(outQ') : i < j => outQ'[i] < outQ'[j]
  <2>1. ASSUME NEW i \in 1..Len(outQ'), NEW j \in 1..Len(outQ'), i < j
        PROVE  outQ'[i] < outQ'[j]
    <3>1. i + 1 \in 1..Len(outQ) /\ j + 1 \in 1..Len(outQ) /\ i + 1 < j + 1
      BY <1>1, <2>1
    <3> QED
      BY <1>1, <3>1 DEF OnceInv
  <2> QED
    BY <2>1
<1>3. ASSUME NEW k \in Range(outQ') PROVE m < k
  <2>1. Range(outQ') = {outQ'[i] : i \in 1..Len(outQ')}
    BY RangeEquality DEF Types, WriterTypes
  <2>2. PICK i \in 1..Len(outQ') : k = outQ'[i]
    BY <1>3, <2>1
  <2>3. i + 1 \in 1..Len(outQ) /\ 1 \in 1..Len(outQ) /\ 1 < i + 1
    BY <1>1, <2>2
  <2> QED
    BY <1>1, <2>2, <2>3 DEF OnceInv
<1>4. /\ Handed' = Handed
      /\ \A i, j \in 1..Len(inQ') : i # j /\ inQ'[i] = inQ'[j] => inQ'[i] \in Datagrams
  BY DEF readerVars, Handed, OnceInv
<1>5. ASSUME \A c \in Conn : \A x \in Units(Stream(c)') :
                x \in Units(Stream(c)) \/ (x = m /\ c = conn)
      PROVE  OnceInv'
  BY <1>1, <1>2, <1>3, <1>4, <1>5, OnceKept
<1>6. ASSUME \A c \in Conn : Shrinks(c) PROVE StreamInv' /\ OnceInv'
  BY <1>5, <1>6, ShrinkKeeps
<1>7. CASE UNCHANGED <<netVars, left, entry, polled, timer, wpc>>
  BY <1>6, <1>7, Untouched DEF readerVars
<1>8. CASE Put(Frame(m))
  <2>1. Frame(m) \in Seq(Unit) /\ Frame(m) # <<>>
    <3>1. Len(Frame(m)) = FrameLen /\ FrameLen # 0 /\ Frame(m) \in Seq(Unit)
      BY <1>1, FrameType, Lengths
    <3> QED
      BY <3>1, EmptySeqLen
  <2>2. /\ conn \in Conn /\ conn' = conn /\ chan' = chan
        /\ \A c \in Conn \ {conn} : Steady(c)
        /\ \/ chan[conn] = "open" /\ Stream(conn)' = Stream(conn) \o Frame(m)
           \/ chan[conn] = "reset" /\ Steady(conn)
    <3>1. UNCHANGED <<fdQueue, readMap, part>>
      BY DEF readerVars
    <3> QED
      BY <1>1, <1>8, <2>1, <3>1, PutStreams
  <2>3. CASE chan[conn] = "reset" /\ Steady(conn)
    BY <1>6, <2>2, <2>3, SteadyShrinks
  <2>4. CASE chan[conn] = "open" /\ Stream(conn)' = Stream(conn) \o Frame(m)
    <3>1. Stream(conn) \in Seq(Unit) /\ Aligned(Stream(conn)) /\ Len(Stream(conn)) % FrameLen = 0
      BY <2>2, <2>4, StreamParts DEF StreamInv
    <3>2. \A i \in 1..Len(Stream(conn)) : Stream(conn)[i][1] < m
      BY <1>1, <2>2 DEF OnceInv, Carried, Units
    <3>3. Aligned(Stream(conn)') /\ Len(Stream(conn)') % FrameLen = 0
      BY <1>1, <2>4, <3>1, <3>2, AlignedFrame
    <3>4. Units(Stream(conn)') \subseteq Units(Stream(conn)) \union {m}
      BY <1>1, <2>4, <3>1, UnitsJoined
    <3>5. ASSUME NEW c \in Conn \ {conn}
          PROVE  /\ Aligned(Stream(c)') /\ c # conn'
                 /\ Units(Stream(c)') \subseteq Units(Stream(c))
      <4>1. Stream(c)' = Stream(c)
        BY <2>2, SteadyStream
      <4> QED
        BY <2>2, <4>1 DEF StreamInv
    <3>6. StreamInv'
      BY <2>2, <3>3, <3>5 DEF StreamInv
    <3> QED
      BY <1>5, <2>2, <3>4, <3>5, <3>6
  <2> QED
    BY <2>2, <2>3, <2>4
<1> QED
  BY <1>7, <1>8 DEF NextMessage, m

(* OnRead: a whole frame goes from the connection to the queue.            *)
LEMMA ReadStep ==
  ASSUME Types, Types', ConnInv, ObjectInv, StreamInv, OnceInv, NEW c \in Conn, OnRead(c),
         UNCHANGED <<writerVars, next, udpQ, dgrams>>
  PROVE  StreamInv' /\ OnceInv'
<1>1. UNCHANGED <<left, outQ, taken, heard, chan, conn>>
  BY DEF writerVars, OnRead
<1>2. \A i, j \in 1..Len(outQ') : i < j => outQ'[i] < outQ'[j]
  BY <1>1 DEF OnceInv
<1>3. \A x \in Conn \ {c} : Shrinks(x)
  BY <1>1, ReadStreams
<1>4. CASE Shrinks(c) /\ UNCHANGED <<inQ, inMem>>
  <2>1. StreamInv' /\ \A x \in Conn : Units(Stream(x)') \subseteq Units(Stream(x))
    BY <1>3, <1>4, ShrinkKeeps
  <2>2. /\ Handed' = Handed
        /\ \A i, j \in 1..Len(inQ') : i # j /\ inQ'[i] = inQ'[j] => inQ'[i] \in Datagrams
    BY <1>1, <1>4 DEF Handed, OnceInv
  <2> QED
    BY <1>1, <2>1, <2>2, OnceLost
<1>5. CASE /\ Len(Stream(c)) = FrameLen + Len(Stream(c)')
           /\ \A i \in 1..Len(Stream(c)') : Stream(c)'[i] = Stream(c)[i + FrameLen]
           /\ 1 \in 1..Len(Stream(c)) /\ Stream(c)[1][1] \in Message
           /\ AddToQueue(Stream(c)[1][1])
  <2>1. PICK s \in Seq(Unit), t \in Seq(Unit) : s = Stream(c) /\ t = Stream(c)'
    BY StreamParts, StreamPartsNext
  <2> DEFINE m == s[1][1]
  <2>2. /\ Len(s) = FrameLen + Len(t) /\ Len(t) \in Nat /\ FrameLen \in Nat
        /\ \A i \in 1..Len(t) : t[i] = s[i + FrameLen]
        /\ m \in Units(s) /\ m \in Message /\ AddToQueue(m) /\ Aligned(s)
    BY <1>5, <2>1, LenProperties, Lengths DEF StreamInv, Units
  <2>3. /\ Aligned(t) /\ \A i \in 1..Len(t) : t[i][1] > m
        /\ Len(s) % FrameLen = 0 => Len(t) % FrameLen = 0
    BY <2>2, AlignedRest
  <2>4. Units(t) \subseteq Units(s) /\ m \notin Units(t)
    <3>1. \A i \in 1..Len(t) : i + FrameLen \in 1..Len(s) /\ t[i][1] = s[i + FrameLen][1]
      BY <2>2
    <3>2. m \in Nat
      BY <2>2, WriterAssumption DEF Message
    <3> QED
      BY <2>3, <3>1, <3>2 DEF Units
  <2> HIDE DEF m
  <2>5. m \notin Datagrams \union Handed /\ \A d \in Conn \ {c} : m \notin Units(Stream(d))
    BY <2>1, <2>2 DEF OnceInv, Carried
  <2>6. /\ Handed' \subseteq Handed \union {m}
        /\ \A i, j \in 1..Len(inQ') : i # j /\ inQ'[i] = inQ'[j] => inQ'[i] \in Datagrams
    BY <1>1, <2>2, <2>5, QueueOnce
  <2>7. ASSUME NEW x \in Conn
        PROVE  /\ Aligned(Stream(x)') /\ Units(Stream(x)') \subseteq Units(Stream(x))
               /\ m \notin Units(Stream(x)')
               /\ x = conn' /\ chan'[x] = "open" => Len(Stream(x)') % FrameLen = 0
    <3>1. CASE x = c
      <4>1. x = conn' /\ chan'[x] = "open" => Len(s) % FrameLen = 0
        BY <1>1, <2>1, <3>1 DEF StreamInv
      <4> QED
        BY <2>1, <2>3, <2>4, <3>1, <4>1
    <3>2. CASE x # c
      <4>1. /\ Shrinks(x) /\ Stream(x) \in Seq(Unit) /\ Stream(x)' \in Seq(Unit)
            /\ Aligned(Stream(x))
        BY <1>3, <3>2, StreamParts, StreamPartsNext DEF StreamInv
      <4> QED
        BY <2>5, <3>2, <4>1, BeginsKeeps DEF Shrinks
    <3> QED
      BY <3>1, <3>2
  <2>8. StreamInv'
    BY <2>7 DEF StreamInv
  <2>9. m \in Units(Stream(c))
    BY <2>1, <2>2
  <2> QED
    BY <1>1, <1>2, <2>6, <2>7, <2>8, <2>9, OnceKept
<1> QED
  BY <1>1, <1>4, <1>5, ReadStreams

LEMMA MessagesStep ==
  ASSUME Types, Types', EventInv, ConnInv, ObjectInv, StreamInv, OnceInv, [Next]_vars
  PROVE  StreamInv' /\ OnceInv'
<1>1. ASSUME \A c \in Conn : Shrinks(c)
      PROVE  StreamInv' /\ \A c \in Conn : Units(Stream(c)') \subseteq Units(Stream(c))
  BY <1>1, ShrinkKeeps
<1>2. ASSUME UNCHANGED <<netVars, left, fdQueue, readMap, part>>
      PROVE  StreamInv' /\ \A c \in Conn : Units(Stream(c)') = Units(Stream(c))
  <2>1. ASSUME NEW c \in Conn PROVE Stream(c)' = Stream(c)
    <3>1. Steady(c)
      BY <1>2 DEF Steady, Wired, Rest, netVars
    <3> QED
      BY <3>1, SteadyStream
  <2> QED
    BY <1>1, <1>2, <2>1, Untouched
<1>3. ASSUME \A c \in Conn : Shrinks(c), UNCHANGED <<next, udpQ, dgrams>>,
             outQ' = outQ \/ outQ' = <<>>, UNCHANGED <<inQ, taken, heard>>
      PROVE  StreamInv' /\ OnceInv'
  <2>1. /\ Handed' = Handed
        /\ \A i, j \in 1..Len(inQ') : i # j /\ inQ'[i] = inQ'[j] => inQ'[i] \in Datagrams
    BY <1>3 DEF Handed, OnceInv
  <2> QED
    BY <1>1, <1>3, <2>1, OnceLost
<1>4. CASE UNCHANGED vars
  <2>1. /\ UNCHANGED <<netVars, left, fdQueue, readMap, part, next, udpQ, dgrams, outQ>>
        /\ UNCHANGED <<inQ, taken, heard>>
    BY <1>4 DEF vars, writerVars, readerVars
  <2> QED
    BY <1>3, <2>1, Untouched
<1>5. CASE Send
  <2>1. UNCHANGED <<fdQueue, readMap, part>>
    BY <1>5 DEF Send, readerVars
  <2>2. \A c \in Conn : Shrinks(c)
    <3>1. CASE UNCHANGED <<netVars, left>>
      BY <2>1, <3>1, Untouched
    <3>2. CASE fd = 0 /\ AddMessage(next)
      <4>1. PICK c \in Conn : Connect(c)
        BY <3>2 DEF AddMessage, GetEvent
      <4>2. left' = <<>>
        BY <3>2 DEF AddMessage, ConnInv
      <4> QED
        BY <2>1, <4>1, <4>2, ConnectShrinks
    <3> QED
      BY <1>5, <3>1, <3>2 DEF Send, AddDatagram, AddMessage, GetEvent, writerVars
  <2> QED
    BY <1>1, <1>5, <2>2, SendOnce
<1>6. CASE Write \/ Wait
  <2>1. UNCHANGED <<fdQueue, readMap, part, inQ, taken, heard, next, udpQ, dgrams, readerVars>>
    BY <1>6 DEF Write, Wait, readerVars
  <2>2. NextMessage \/ outQ' = outQ \/ outQ' = <<>>
    BY <1>6 DEF Write, Wait, WriterLoop, GoIdle, TimerFires, NoTimeout, NothingReady, Writable,
                SocketError, GiveUp, WriteLeft, WriteDone, DealWithWrite
  <2> QED
    BY <1>3, <1>6, <2>1, <2>2, NextStep, LoopShrinks DEF Write, Wait
<1>7. CASE Read
  <2>1. UNCHANGED <<left, outQ, next, udpQ, dgrams>>
    BY <1>7 DEF Read, writerVars
  <2>2. CASE CreateEvent \/ \E c \in Conn : Accept(c) \/ ReadFails(c)
    <3>1. UNCHANGED <<inQ, taken, heard>>
      BY <2>2 DEF CreateEvent, Accept, ReadFails, queueVars
    <3>2. \A c \in Conn : Shrinks(c)
      BY <2>1, <2>2, CreateShrinks, FailShrinks
    <3> QED
      BY <1>3, <2>1, <3>1, <3>2
  <2>3. CASE \E c \in Conn : OnRead(c)
    BY <1>7, <2>3, ReadStep DEF Read
  <2> QED
    BY <1>7, <2>2, <2>3 DEF Read, ReaderIO
<1>8. CASE Handle
  BY <1>2, <1>8, HandleOnce DEF Handle, writerVars
<1>9. CASE SendDatagram \/ \E m \in dgrams : ReceiveDatagram(m) \/ LoseDatagram(m)
  <2>1. UNCHANGED <<netVars, left, fdQueue, readMap, part>>
    BY <1>9 DEF SendDatagram, ReceiveDatagram, LoseDatagram, writerVars, readerVars
  <2> QED
    BY <1>2, <1>9, <2>1, DatagramOnce
<1>10. CASE Kernel \/ (Fault /\ \E c \in Conn : Break(c) /\ UNCHANGED readerVars)
  <2>1. UNCHANGED <<left, outQ, fdQueue, readMap, part, inQ, taken, heard, next, udpQ, dgrams>>
    BY <1>10 DEF Kernel, Fault, writerVars, readerVars
  <2>2. \A c \in Conn : Shrinks(c)
    BY <1>10, <2>1, KernelShrinks DEF Kernel
  <2> QED
    BY <1>3, <2>1, <2>2
<1>11. CASE Fault /\ ReaderRestarts
  <2>1. UNCHANGED <<left, outQ, next, udpQ, dgrams>> /\ inQ' = <<>> /\ taken' = Nothing /\ heard' = heard
    BY <1>11 DEF Fault, ReaderRestarts, writerVars
  <2>2. \A c \in Conn : Shrinks(c)
    BY <1>11, <2>1, RestartShrinks
  <2>3. Handed' \subseteq Handed
    BY <2>1 DEF Handed, Range
  <2>4. \A i, j \in 1..Len(inQ') : i # j /\ inQ'[i] = inQ'[j] => inQ'[i] \in Datagrams
    <3>1. Len(<<>>) = 0 /\ 1..0 = {}
      OBVIOUS
    <3> QED
      BY <2>1, <3>1
  <2> QED
    BY <1>1, <2>1, <2>2, <2>3, <2>4, OnceLost
<1> QED
  BY <1>4, <1>5, <1>6, <1>7, <1>8, <1>9, <1>10, <1>11 DEF Next, Fault

-----------------------------------------------------------------------------
(* The inductive invariant.                                                *)

LEMMA StreamsInitially == Init => StreamInv /\ OnceInv
<1> SUFFICES ASSUME Init PROVE StreamInv /\ OnceInv
  OBVIOUS
<1>1. Range(<<>>) = {} /\ Len(<<>>) = 0 /\ 1..0 = {}
  BY DEF Range
<1>2. ASSUME NEW c \in Conn PROVE Stream(c) = <<>>
  <2>1. part[c] = <<>> /\ Wired(c) = <<>> /\ Rest(c) = <<>>
    BY DEF Init, NetInit, WriterInit, ReaderInit, Wired, Rest
  <2>2. Stream(c) = (part[c] \o Wired(c)) \o Rest(c)
    BY DEF Stream, Wired, Rest
  <2> QED
    BY <2>1, <2>2, EmptyStream
<1>3. StreamInv
  BY <1>2, EmptyStream DEF StreamInv
<1>4. Handed = {} /\ outQ = <<>> /\ inQ = <<>> /\ udpQ = <<>> /\ dgrams = {}
  BY <1>1 DEF Init, WriterInit, ReaderInit, Handed
<1>5. \A c \in Conn : Units(Stream(c)) = {}
  BY <1>2, EmptyStream
<1>6. OnceInv
  BY <1>1, <1>4, <1>5 DEF OnceInv, Carried
<1> QED
  BY <1>3, <1>6

(* The processes start without a connection and with empty queues.         *)
THEOREM MessagingInitial == Init => IInv
BY TypesInit, EventInitially, ConnInitially, StreamsInitially DEF IInv

(* No call of a sender, no round of a loop and no fault of the network     *)
(* takes the invariant away.                                               *)
THEOREM MessagingStep == IInv /\ [Next]_vars => IInv'
<1> SUFFICES ASSUME IInv, [Next]_vars PROVE IInv'
  OBVIOUS
<1>1. Types /\ EventInv /\ ConnInv /\ ObjectInv /\ StreamInv /\ OnceInv
  BY DEF IInv
<1>2. Types' /\ EventInv'
  BY <1>1, TypesStep, EventStep
<1>3. ConnInv' /\ ObjectInv'
  BY <1>1, ConnStep
<1>4. StreamInv' /\ OnceInv'
  BY <1>1, <1>2, MessagesStep
<1> QED
  BY <1>2, <1>3, <1>4 DEF IInv

(* What the loops and the connection know of one another always holds.     *)
THEOREM MessagingAlways == Spec => []IInv
BY MessagingInitial, MessagingStep, PTL DEF Spec

-----------------------------------------------------------------------------
(* What the invariant says of the runs' properties.                        *)

LEMMA LoopHolds == IInv => LoopInv
<1> SUFFICES ASSUME IInv PROVE LoopInv
  OBVIOUS
<1>1. Types /\ EventInv /\ ObjectInv
  BY DEF IInv
<1>2. NetTypeOK
  BY <1>1 DEF NetTypeOK, Types, NetTypes
<1>3. WriterTypeOK
  BY <1>1, WriterAssumption DEF WriterTypeOK, Types, WriterTypes, Wpc
<1>4. ReaderTypeOK
  <2>1. \A i \in DOMAIN fdQueue : fdQueue[i] \in held
    BY <1>1, Ranges DEF ObjectInv, Range
  <2>2. readMap \subseteq held
    BY <1>1 DEF ObjectInv
  <2> QED
    BY <1>1, <2>1, <2>2 DEF ReaderTypeOK, Types, ReaderTypes
<1>5. TypeOK
  BY <1>1, <1>2, <1>3, <1>4 DEF TypeOK, Types, SenderTypes
<1>6. Armed
  BY <1>1 DEF Armed, EventInv
<1>7. MemCounted /\ NoDangling
  BY <1>1 DEF MemCounted, NoDangling, EventInv, ObjectInv
<1> QED
  BY <1>5, <1>6, <1>7 DEF LoopInv

LEMMA AlignedHolds == IInv => FramesAligned
<1> SUFFICES ASSUME IInv, NEW c \in Conn, NEW i \in DOMAIN Stream(c)
             PROVE  LET s == Stream(c)
                    IN  /\ s[i][2] = ((i - 1) % FrameLen) + 1
                        /\ i > 1 => IF s[i][2] = 1 THEN s[i][1] > s[i - 1][1]
                                                   ELSE s[i][1] = s[i - 1][1]
  BY DEF FramesAligned
<1>1. PICK s \in Seq(Unit) : s = Stream(c) /\ Aligned(s)
  BY StreamParts DEF IInv, StreamInv
<1>2. i \in 1..Len(s) /\ Len(s) \in Nat
  BY <1>1, LenProperties
<1>3. s[i][2] = Place(i)
  BY <1>1, <1>2 DEF Aligned
<1>4. ASSUME i > 1
      PROVE  IF s[i][2] = 1 THEN s[i][1] > s[i - 1][1] ELSE s[i][1] = s[i - 1][1]
  <2>1. i - 1 \in 1..Len(s) /\ i \in (i - 1)..Len(s) /\ i - (i - 1) = 1
    BY <1>2, <1>4
  <2>2. /\ s[i - 1][2] = Place(i - 1)
        /\ IF 1 = s[i][2] - s[i - 1][2] THEN s[i][1] = s[i - 1][1]
                                        ELSE s[i][1] > s[i - 1][1]
    BY <1>1, <2>1 DEF Aligned
  <2>3. Place(i) = 1 \/ Place(i) = Place(i - 1) + 1
    <3>1. i - 1 \in Nat \ {0} /\ (i - 1) + 1 = i
      BY <1>2, <1>4
    <3> QED
      BY <3>1, Places
  <2>4. s[i - 1][2] \in 1..FrameLen
    BY <2>1, UnitFields
  <2> QED
    BY <1>3, <2>2, <2>3, <2>4
<1> QED
  BY <1>1, <1>3, <1>4 DEF Place

LEMMA OnceHolds == IInv => HeardOnce
<1> SUFFICES ASSUME IInv PROVE HeardOnce
  OBVIOUS
<1>1. Types /\ OnceInv
  BY DEF IInv
<1>2. Garbled \notin Handed
  <2>1. Range(inQ) \subseteq Message
    BY <1>1, Ranges DEF Types, ReaderTypes
  <2>2. Handed \subseteq Message
    BY <1>1, <2>1 DEF Types, ReaderTypes, Handed
  <2> QED
    BY <2>2, WriterAssumption DEF Message, Garbled
<1>3. ASSUME NEW m \in Handed \ Datagrams
      PROVE  /\ m \notin Range(outQ)
             /\ \A c \in Conn : \A i \in DOMAIN Stream(c) : Stream(c)[i][1] # m
  <2>1. m \notin Range(outQ)
    BY <1>1 DEF OnceInv
  <2>2. ASSUME NEW c \in Conn, NEW i \in DOMAIN Stream(c) PROVE Stream(c)[i][1] # m
    <3>1. i \in 1..Len(Stream(c))
      BY <1>1, StreamParts, LenProperties
    <3> QED
      BY <1>1, <3>1 DEF OnceInv, Carried, Units
  <2> QED
    BY <2>1, <2>2
<1>4. \A i, j \in DOMAIN inQ : i # j /\ inQ[i] = inQ[j] => inQ[i] \in Datagrams
  <2>1. DOMAIN inQ = 1..Len(inQ)
    BY <1>1, LenProperties DEF Types, ReaderTypes
  <2> QED
    BY <1>1, <2>1 DEF OnceInv
<1> QED
  BY <1>2, <1>3, <1>4 DEF HeardOnce, Handed

(* The event of a destination, the map and the epoll set of the writing    *)
(* loop, its timers and the object of the reading loop agree whenever one  *)
(* of them is read: a connection that waits for EPOLLOUT is waited for     *)
(* (MessageEvent::OnError, ReConnect, TcpClient::DealWithWrite), the count *)
(* of queued bytes is that of the queue, and no entry of the reading loop  *)
(* leads to an object that EventLoop::ClearEvent deletes.                  *)
THEOREM LoopsAgree == Spec => []LoopInv
<1>1. Spec => []IInv
  BY MessagingAlways
<1>2. IInv => LoopInv
  BY LoopHolds
<1> QED
  BY <1>1, <1>2, PTL

(* MessageEvent::DoOnWrite, WriteLeft, OnRead and ReadLeft keep every       *)
(* connection on the boundaries of its frames, and the frames in the order *)
(* of their messages, whatever part of a frame the kernel takes or returns *)
(* at a time and wherever the connection breaks.                           *)
THEOREM ConnectionsCarryFrames == Spec => []FramesAligned
<1>1. Spec => []IInv
  BY MessagingAlways
<1>2. IInv => FramesAligned
  BY AlignedHolds
<1> QED
  BY <1>1, <1>2, PTL

(* What Instance::OnReceive gets from a connection is a message that was   *)
(* sent, whole, and gets it once: it is no longer in MessageEvent's queue, *)
(* on a connection or in IOLoop's queue, after every reconnection too.     *)
THEOREM MessagesHeardOnce == Spec => []HeardOnce
<1>1. Spec => []IInv
  BY MessagingAlways
<1>2. IInv => HeardOnce
  BY OnceHolds
<1> QED
  BY <1>1, <1>2, PTL
=============================================================================
