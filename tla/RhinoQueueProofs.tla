-------------------------- MODULE RhinoQueueProofs ---------------------------
(***************************************************************************)
(* Theorems about the message queue (RhinoQueue) and the ring buffer       *)
(* below it (RingBuf), for every set of tasks, priorities, messages and    *)
(* sizes of the ring.                                                      *)
(*                                                                         *)
(* The ring: counted from head, round the end of the memory, its bytes are *)
(* a content; push appends to it, head_push puts in front, pop takes from  *)
(* the front (AppendRing, PrependRing, TakeRing).  The content of a ring   *)
(* in use is its messages in their stored form, one after the other        *)
(* (Stores), and the recursive reading of the content, Messages, gives     *)
(* them back (StoresReads): each length found in a header is the one       *)
(* written there.  So a push, a pop or a reset changes Messages as it      *)
(* would a sequence (StoresPush, StoresFront, StoresPop, StoresEmpty).     *)
(*                                                                         *)
(* The queue: QueueInv says that the counter is the number of messages     *)
(* stored, that the waiters are in the order of their priorities, and that *)
(* a task waits only while nothing is stored.  Every action keeps it and   *)
(* is a step of MsgQueue.  ringbuf_head_push exchanges the two pieces of a *)
(* message that wraps; the two theorems on what is received are therefore  *)
(* about messages sent to the front whose bytes are all equal              *)
(* (FrontUniform), and MCQueueFront shows what others come to.             *)
(***************************************************************************)
EXTENDS RhinoQueue, RhinoListProofs

\* Quotient and remainder are what division with remainder says.
LEMMA DivMod ==
    ASSUME NEW b \in Nat \ {0}, NEW q \in Nat, NEW r \in 0 .. b - 1
    PROVE  (q * b + r) \div b = q /\ (q * b + r) % b = r
OBVIOUS

\* Every number has a quotient and a remainder.
LEMMA DivModExists ==
    ASSUME NEW a \in Nat, NEW b \in Nat \ {0}
    PROVE  /\ a \div b \in Nat /\ a % b \in 0 .. b - 1
           /\ a = (a \div b) * b + (a % b)
OBVIOUS

\* The remainder of a number below twice the divisor: at most one wrap.
LEMMA ModOnce ==
    ASSUME NEW b \in Nat \ {0}, NEW x \in 0 .. 2 * b - 1
    PROVE  x % b = IF x < b THEN x ELSE x - b
OBVIOUS

\* The recursion of MessagesFrom.
MessageStep(type, c, from, k) ==
    IF ~Whole(type, c, k) THEN <<>>
    ELSE <<SubSeq(c, Len(c) - k + LenBytes(type, c, k) + 1,
                  Len(c) - k + LenBytes(type, c, k) + MsgSize(type, c, k))>>
         \o from[k - LenBytes(type, c, k) - MsgSize(type, c, k)]

\* A function on the first n + 1 numbers satisfies it.
Solves(type, c, g, n) == g = [k \in 0 .. n |-> MessageStep(type, c, g, k)]

\* If some function satisfies the recursion of MessagesFrom, MessagesFrom does.
LEMMA MessagesFromFix ==
    ASSUME NEW type, NEW c, NEW g, Solves(type, c, g, Len(c))
    PROVE  Solves(type, c, MessagesFrom(type, c), Len(c))
BY Zenon DEF MessagesFrom, MessageStep, Solves

-----------------------------------------------------------------------------
(***************************************************************************)
(* The length field of a message.                                          *)
(***************************************************************************)
\* The masks in quarters of a byte.
LEMMA Quarters ==
    \E q \in Nat \ {0} :
        /\ ByteMod = 4 * q /\ VLE_2BYTES = 2 * q /\ VLE_3BYTES = 3 * q
        /\ ByteMod \div 4 = q
        /\ LEN_1BYTE_MAXVALUE = 2 * q - 1
        /\ LEN_2BYTES_MAXVALUE = q * ByteMod - 1
        /\ LEN_3BYTES_MAXVALUE = (q * ByteMod) * ByteMod - 1
<1>. DEFINE q == ByteMod \div 4
<1>1. ByteMod \in Nat \ {0} /\ ByteMod % 4 = 0
  BY RingAssumption
<1>2. q \in Nat \ {0} /\ ByteMod = 4 * q /\ ByteMod \div 2 = 2 * q
  BY <1>1
<1>. HIDE DEF q
<1>3. /\ VLE_2BYTES = 2 * q /\ VLE_3BYTES = 3 * q /\ ByteMod \div 4 = q
      /\ LEN_1BYTE_MAXVALUE = 2 * q - 1
      /\ LEN_2BYTES_MAXVALUE = q * ByteMod - 1
      /\ LEN_3BYTES_MAXVALUE = (q * ByteMod) * ByteMod - 1
  BY <1>2 DEF VLE_2BYTES, VLE_3BYTES, LEN_1BYTE_MAXVALUE, LEN_2BYTES_MAXVALUE,
              LEN_3BYTES_MAXVALUE, q
<1>. QED BY <1>2, <1>3

\* ringbuf_headlen_decompress reads back what ringbuf_headlen_compress wrote, and
\* the first byte alone tells how many bytes to read.
LEMMA HeadlenRoundTrip ==
    ASSUME NEW n \in Nat, n <= LEN_3BYTES_MAXVALUE
    PROVE  /\ ringbuf_headlen_compress(n) \in Seq(Byte)
           /\ COMPRESS_LEN(n) \in 1 .. 3
           /\ Len(ringbuf_headlen_compress(n)) = COMPRESS_LEN(n)
           /\ HeadLen(ringbuf_headlen_compress(n)[1]) = COMPRESS_LEN(n)
           /\ ringbuf_headlen_decompress(ringbuf_headlen_compress(n)) = n
<1>. PICK q \in Nat \ {0} :
        /\ ByteMod = 4 * q /\ VLE_2BYTES = 2 * q /\ VLE_3BYTES = 3 * q
        /\ ByteMod \div 4 = q
        /\ LEN_1BYTE_MAXVALUE = 2 * q - 1
        /\ LEN_2BYTES_MAXVALUE = q * ByteMod - 1
        /\ LEN_3BYTES_MAXVALUE = (q * ByteMod) * ByteMod - 1
  BY Quarters
<1>. DEFINE B == ByteMod
            low == n % B
            high == n \div B
            b == ringbuf_headlen_compress(n)
<1>0. B \in Nat \ {0} /\ Byte = 0 .. B - 1
  BY DEF Byte
<1>1. low \in 0 .. B - 1 /\ high \in Nat /\ n = high * B + low
  BY <1>0, DivModExists
<1>2. \A h \in 0 .. q - 1 : (2 * q + h) % q = h /\ (3 * q + h) % q = h
  BY DivMod
<1>3. CASE n <= LEN_1BYTE_MAXVALUE
  <2>1. COMPRESS_LEN(n) = 1 /\ b = <<n>>
    BY <1>3 DEF COMPRESS_LEN, ringbuf_headlen_compress
  <2>2. n \in Byte /\ HeadLen(n) = 1
    BY <1>3, <1>0 DEF HeadLen
  <2>3. ringbuf_headlen_decompress(<<n>>) = n
    BY DEF ringbuf_headlen_decompress
  <2>. QED BY <2>1, <2>2, <2>3
<1>4. CASE n > LEN_1BYTE_MAXVALUE /\ n <= LEN_2BYTES_MAXVALUE
  <2>1. COMPRESS_LEN(n) = 2 /\ b = <<2 * q + high, low>>
    BY <1>4 DEF COMPRESS_LEN, ringbuf_headlen_compress
  <2>2. high \in 0 .. q - 1
    <3>. HIDE DEF low, high
    <3>1. n < q * B
      BY <1>4
    <3>2. high >= q => high * B >= q * B
      BY <1>0, <1>1
    <3>. QED BY <1>0, <1>1, <3>1, <3>2
  <2>. HIDE DEF low, high, b
  <2>3. 2 * q + high \in Byte /\ low \in Byte /\ HeadLen(2 * q + high) = 2
    BY <1>0, <1>1, <2>2 DEF HeadLen
  <2>4. ringbuf_headlen_decompress(b) = high * B + low
    <3>1. Len(b) = 2 /\ b[1] = 2 * q + high /\ b[2] = low
      BY <2>1
    <3>2. (2 * q + high) % q = high
      BY <1>2, <2>2
    <3>. QED BY <3>1, <3>2 DEF ringbuf_headlen_decompress
  <2>5. b \in Seq(Byte) /\ Len(b) = 2 /\ HeadLen(b[1]) = 2
    BY <2>1, <2>3
  <2>6. ringbuf_headlen_decompress(b) = n
    BY <1>1, <2>4
  <2>. QED BY <2>1, <2>5, <2>6 DEF b
<1>5. CASE n > LEN_2BYTES_MAXVALUE
  <2>. DEFINE top == high \div B
              mid == high % B
  <2>1. COMPRESS_LEN(n) = 3 /\ b = <<3 * q + top, mid, low>>
    <3>1. q * B >= 2 * q
      BY <1>0
    <3>. QED BY <1>5, <3>1 DEF COMPRESS_LEN, ringbuf_headlen_compress
  <2>2. mid \in 0 .. B - 1 /\ top \in Nat /\ high = top * B + mid
    <3>. HIDE DEF low, high
    <3>. QED BY <1>0, <1>1, DivModExists
  <2>. HIDE DEF low, high, b, top, mid
  <2>3. top \in 0 .. q - 1
    <3>1. n < (q * B) * B
      BY <1>0
    <3>2. ASSUME high >= q * B PROVE FALSE
      <4>1. high * B >= (q * B) * B
        BY <1>0, <1>1, <3>2
      <4>2. q * B \in Nat /\ (q * B) * B \in Nat /\ high * B \in Nat
        BY <1>0, <1>1
      <4>. QED BY <1>0, <1>1, <3>1, <4>1, <4>2
    <3>3. ASSUME top >= q PROVE FALSE
      <4>1. top * B >= q * B
        BY <1>0, <2>2, <3>3
      <4>2. q * B \in Nat /\ top * B \in Nat
        BY <1>0, <2>2
      <4>. QED BY <1>1, <2>2, <3>2, <4>1, <4>2
    <3>. QED BY <2>2, <3>3
  <2>4. /\ 3 * q + top \in Byte /\ mid \in Byte /\ low \in Byte
        /\ HeadLen(3 * q + top) = 3
    BY <1>0, <1>1, <2>2, <2>3 DEF HeadLen
  <2>5. ringbuf_headlen_decompress(b) = (top * B + mid) * B + low
    <3>1. Len(b) = 3 /\ b[1] = 3 * q + top /\ b[2] = mid /\ b[3] = low
      BY <2>1
    <3>2. (3 * q + top) % q = top
      BY <1>2, <2>3
    <3>. QED BY <3>1, <3>2 DEF ringbuf_headlen_decompress
  <2>6. b \in Seq(Byte) /\ Len(b) = 3 /\ HeadLen(b[1]) = 3
    BY <2>1, <2>4
  <2>7. ringbuf_headlen_decompress(b) = n
    BY <1>1, <2>2, <2>5
  <2>. QED BY <2>1, <2>6, <2>7 DEF b
<1>6. LEN_1BYTE_MAXVALUE \in Int /\ LEN_2BYTES_MAXVALUE \in Int
  BY <1>0
<1>. QED BY <1>3, <1>4, <1>5, <1>6

-----------------------------------------------------------------------------
(***************************************************************************)
(* The bytes of a ring.                                                    *)
(***************************************************************************)
\* Where head or tail really stands, and the position x - 1 bytes after buf.
Off(p) == IF p = RingSize THEN 0 ELSE p
\* A position counted past the end of the memory.
Wrapped(x) == IF x < RingSize THEN x ELSE x - RingSize

\* The bytes in use end at tail.
RingInv(r) == r \in Ring /\ Wrapped(Off(r.head) + Used(r)) = Off(r.tail)

\* What RingAssumption says of the constants.
LEMMA Sizes ==
    /\ RingSize \in Nat \ {0} /\ BlkSize \in Nat \ {0} /\ ByteMod \in Nat \ {0}
    /\ RingSize % BlkSize = 0
BY RingAssumption

\* The ranges of the fields of a ring, and of what is computed from them.
LEMMA RingFields ==
    ASSUME NEW r \in Ring
    PROVE  /\ r.type \in {"fix", "dyn"} /\ r.mem \in [0 .. RingSize - 1 -> Byte]
           /\ r.head \in 0 .. RingSize /\ r.tail \in 0 .. RingSize
           /\ r.freesize \in 0 .. RingSize
           /\ r = [type |-> r.type, mem |-> r.mem, head |-> r.head,
                   tail |-> r.tail, freesize |-> r.freesize]
           /\ Used(r) \in 0 .. RingSize /\ Used(r) = RingSize - r.freesize
           /\ Off(r.head) \in 0 .. RingSize - 1 /\ Off(r.tail) \in 0 .. RingSize - 1
BY Sizes DEF Ring, Used, Off

\* Counting from head by %, as Content does.
LEMMA PosMod ==
    ASSUME NEW h \in 0 .. RingSize, NEW i \in 1 .. RingSize
    PROVE  /\ Wrapped(Off(h) + i - 1) \in 0 .. RingSize - 1
           /\ (h + i - 1) % RingSize = Wrapped(Off(h) + i - 1)
<1>. DEFINE x == h + i - 1
<1>1. x \in 0 .. 2 * RingSize - 1
  BY Sizes
<1>2. x % RingSize = IF x < RingSize THEN x ELSE x - RingSize
  <2>. HIDE DEF x
  <2>. QED BY <1>1, Sizes, ModOnce
<1>. QED BY <1>1, <1>2, Sizes DEF Wrapped, Off

\* The content by positions.
LEMMA ContentAt ==
    ASSUME NEW r \in Ring
    PROVE  /\ Content(r) \in Seq(Byte) /\ Len(Content(r)) = Used(r)
           /\ \A i \in 1 .. Used(r) :
                /\ Wrapped(Off(r.head) + i - 1) \in 0 .. RingSize - 1
                /\ Content(r)[i] = r.mem[Wrapped(Off(r.head) + i - 1)]
<1>1. /\ r.mem \in [0 .. RingSize - 1 -> Byte] /\ r.head \in 0 .. RingSize
      /\ Used(r) \in 0 .. RingSize /\ Off(r.head) \in 0 .. RingSize - 1
  BY RingFields
<1>2. ASSUME NEW i \in 1 .. Used(r)
      PROVE  /\ Wrapped(Off(r.head) + i - 1) \in 0 .. RingSize - 1
             /\ (r.head + i - 1) % RingSize = Wrapped(Off(r.head) + i - 1)
  <2>1. i \in 1 .. RingSize
    BY <1>1, Sizes
  <2>. QED BY <1>1, <2>1, PosMod
<1>3. Content(r) = [i \in 1 .. Used(r) |-> r.mem[Wrapped(Off(r.head) + i - 1)]]
  BY <1>2 DEF Content
<1>4. \A i \in 1 .. Used(r) : r.mem[Wrapped(Off(r.head) + i - 1)] \in Byte
  BY <1>1, <1>2
<1>5. Content(r) \in [1 .. Used(r) -> Byte]
  BY <1>3, <1>4
<1>6. Content(r) \in Seq(Byte) /\ Len(Content(r)) = Used(r)
  <2>. DEFINE c == Content(r)
              n == Used(r)
  <2>1. c \in [1 .. n -> Byte] /\ n \in Nat
    BY <1>1, <1>5
  <2>. HIDE DEF c, n
  <2>2. c \in Seq(Byte) /\ Len(c) = n
    BY <2>1
  <2>. QED BY <2>2 DEF c, n
<1>. QED BY <1>2, <1>3, <1>6

\* Two sequences with the same bytes are one.
LEMMA SeqEq ==
    ASSUME NEW S, NEW a \in Seq(S), NEW b \in Seq(S), Len(a) = Len(b),
           \A i \in 1 .. Len(a) : a[i] = b[i]
    PROVE  a = b
OBVIOUS

\* The elements of a concatenation.
LEMMA Concat ==
    ASSUME NEW S, NEW a \in Seq(S), NEW b \in Seq(S)
    PROVE  /\ a \o b \in Seq(S) /\ Len(a \o b) = Len(a) + Len(b)
           /\ \A i \in 1 .. Len(a) : (a \o b)[i] = a[i]
           /\ \A i \in 1 .. Len(b) : (a \o b)[Len(a) + i] = b[i]
<1>1. a \o b \in Seq(S) /\ Len(a \o b) = Len(a) + Len(b)
  OBVIOUS
<1>2. \A i \in 1 .. Len(a) : (a \o b)[i] = a[i]
  OBVIOUS
<1>3. \A i \in 1 .. Len(b) : (a \o b)[Len(a) + i] = b[i]
  OBVIOUS
<1>. QED BY <1>1, <1>2, <1>3

\* A sequence that is a concatenation.
LEMMA ConcatEq ==
    ASSUME NEW S, NEW a \in Seq(S), NEW b \in Seq(S), NEW d \in Seq(S),
           Len(d) = Len(a) + Len(b),
           \A i \in 1 .. Len(a) : d[i] = a[i],
           \A i \in 1 .. Len(b) : d[Len(a) + i] = b[i]
    PROVE  d = a \o b
<1>1. /\ a \o b \in Seq(S) /\ Len(a \o b) = Len(a) + Len(b)
      /\ \A i \in 1 .. Len(a) : (a \o b)[i] = a[i]
      /\ \A i \in 1 .. Len(b) : (a \o b)[Len(a) + i] = b[i]
  BY Concat
<1>2. ASSUME NEW i \in 1 .. Len(d) PROVE d[i] = (a \o b)[i]
  <2>1. CASE i \in 1 .. Len(a)
    BY <1>1, <2>1
  <2>2. CASE i \notin 1 .. Len(a)
    <3>1. i - Len(a) \in 1 .. Len(b) /\ i = Len(a) + (i - Len(a))
      BY <2>2
    <3>. QED BY <1>1, <3>1
  <2>. QED BY <2>1, <2>2
<1>. QED BY <1>1, <1>2, SeqEq

\* memcpy keeps the memory a memory.
LEMMA CopyAt ==
    ASSUME NEW mem \in [0 .. RingSize - 1 -> Byte], NEW at \in Nat,
           NEW bytes \in Seq(Byte)
    PROVE  /\ Copy(mem, at, bytes) \in [0 .. RingSize - 1 -> Byte]
           /\ \A p \in 0 .. RingSize - 1 :
                Copy(mem, at, bytes)[p] =
                  IF p >= at /\ p <= at + Len(bytes) - 1 THEN bytes[p - at + 1]
                  ELSE mem[p]
<1>1. \A p \in 0 .. RingSize - 1 : p \in at .. at + Len(bytes) - 1 <=>
                                   p >= at /\ p <= at + Len(bytes) - 1
  BY Sizes
<1>2. \A p \in 0 .. RingSize - 1 :
        p >= at /\ p <= at + Len(bytes) - 1 => bytes[p - at + 1] \in Byte
  BY Sizes
<1>. QED BY <1>1, <1>2 DEF Copy

\* m2 is mem with the bytes copied to position at on.
Copied(mem, at, bytes, m2) ==
    /\ m2 \in [0 .. RingSize - 1 -> Byte]
    /\ \A p \in 0 .. RingSize - 1 :
         m2[p] = IF p >= at /\ p <= at + Len(bytes) - 1 THEN bytes[p - at + 1] ELSE mem[p]

\* memcpy within the memory, with its result named.
LEMMA CopyIs ==
    ASSUME NEW mem \in [0 .. RingSize - 1 -> Byte], NEW at \in Nat,
           NEW bytes \in Seq(Byte)
    PROVE  Copied(mem, at, bytes, Copy(mem, at, bytes))
BY CopyAt DEF Copied

\* memcpy of bytes of a sequence from byte k + 1 on.
LEMMA CopyPart ==
    ASSUME NEW mem \in [0 .. RingSize - 1 -> Byte], NEW at \in Nat,
           NEW bytes \in Seq(Byte), NEW j \in 0 .. Len(bytes), NEW k \in 0 .. j
    PROVE  /\ SubSeq(bytes, k + 1, j) \in Seq(Byte) /\ Len(SubSeq(bytes, k + 1, j)) = j - k
           /\ Copy(mem, at, SubSeq(bytes, k + 1, j)) \in [0 .. RingSize - 1 -> Byte]
           /\ \A p \in 0 .. RingSize - 1 :
                Copy(mem, at, SubSeq(bytes, k + 1, j))[p] =
                  IF p >= at /\ p <= at + (j - k) - 1 THEN bytes[p - at + k + 1]
                  ELSE mem[p]
<1>. DEFINE b == SubSeq(bytes, k + 1, j)
<1>1. b \in Seq(Byte) /\ Len(b) = j - k /\ \A i \in 1 .. j - k : b[i] = bytes[k + i]
  OBVIOUS
<1>. HIDE DEF b
<1>2. /\ Copy(mem, at, b) \in [0 .. RingSize - 1 -> Byte]
      /\ \A p \in 0 .. RingSize - 1 :
           Copy(mem, at, b)[p] =
             IF p >= at /\ p <= at + Len(b) - 1 THEN b[p - at + 1] ELSE mem[p]
  BY <1>1, CopyAt
<1>3. ASSUME NEW p \in 0 .. RingSize - 1, p >= at, p <= at + (j - k) - 1
      PROVE  b[p - at + 1] = bytes[p - at + k + 1]
  <2>1. p - at + 1 \in 1 .. j - k /\ k + (p - at + 1) = p - at + k + 1
    BY <1>3, Sizes
  <2>. QED BY <1>1, <2>1
<1>4. \A p \in 0 .. RingSize - 1 :
           Copy(mem, at, b)[p] =
             IF p >= at /\ p <= at + (j - k) - 1 THEN bytes[p - at + k + 1] ELSE mem[p]
  BY <1>1, <1>2, <1>3
<1>. QED BY <1>1, <1>2, <1>4 DEF b

\* A ring that grew at its tail.
LEMMA GrowBack ==
    ASSUME NEW r \in Ring, NEW q \in Ring, NEW bytes \in Seq(Byte),
           q.head = r.head, Used(q) = Used(r) + Len(bytes),
           \A i \in 1 .. Used(r) : q.mem[Wrapped(Off(r.head) + i - 1)] =
                                   r.mem[Wrapped(Off(r.head) + i - 1)],
           \A i \in 1 .. Len(bytes) :
              q.mem[Wrapped(Off(r.head) + Used(r) + i - 1)] = bytes[i]
    PROVE  Content(q) = Content(r) \o bytes
<1>. DEFINE c == Content(r)
            d == Content(q)
            u == Used(r)
            h == Off(r.head)
<1>1. /\ c \in Seq(Byte) /\ Len(c) = u
      /\ \A i \in 1 .. u : c[i] = r.mem[Wrapped(h + i - 1)]
  BY ContentAt
<1>2. /\ d \in Seq(Byte) /\ Len(d) = u + Len(bytes)
      /\ \A i \in 1 .. u + Len(bytes) : d[i] = q.mem[Wrapped(h + i - 1)]
  BY ContentAt
<1>3. u \in Nat /\ h \in Nat
  BY RingFields
<1>4. \A i \in 1 .. Len(bytes) : q.mem[Wrapped(h + u + i - 1)] = bytes[i]
  OBVIOUS
<1>5. \A i \in 1 .. u : q.mem[Wrapped(h + i - 1)] = r.mem[Wrapped(h + i - 1)]
  OBVIOUS
<1>. HIDE DEF c, d, u, h
<1>6. ASSUME NEW i \in 1 .. u PROVE d[i] = c[i]
  <2>1. i \in 1 .. u + Len(bytes)
    BY <1>3
  <2>. QED BY <1>1, <1>2, <1>5, <2>1
<1>7. ASSUME NEW i \in 1 .. Len(bytes) PROVE d[u + i] = bytes[i]
  <2>1. u + i \in 1 .. u + Len(bytes) /\ h + u + i - 1 = h + (u + i) - 1
    BY <1>3
  <2>. QED BY <1>2, <1>4, <2>1
<1>8. d = c \o bytes
  BY <1>1, <1>2, <1>6, <1>7, ConcatEq, Zenon
<1>. QED BY <1>8 DEF c, d

\* Counting on from a position n bytes further.
LEMMA WrappedAdd ==
    ASSUME NEW h \in 0 .. RingSize - 1, NEW g \in 0 .. RingSize - 1, NEW n \in Nat,
           Wrapped(g + n) = h, NEW i \in Nat \ {0}, n + i <= RingSize
    PROVE  Wrapped(g + (n + i) - 1) = Wrapped(h + i - 1)
BY Sizes DEF Wrapped

\* Counting on in two steps.
LEMMA WrappedTwice ==
    ASSUME NEW h \in 0 .. RingSize - 1, NEW n \in Nat, NEW k \in Nat, k + n <= RingSize
    PROVE  Wrapped(Wrapped(h + n) + k) = Wrapped(h + (k + n))
BY Sizes DEF Wrapped

\* A ring that grew at its head.
LEMMA GrowFront ==
    ASSUME NEW r \in Ring, NEW q \in Ring, NEW bytes \in Seq(Byte),
           Wrapped(Off(q.head) + Len(bytes)) = Off(r.head),
           Used(q) = Used(r) + Len(bytes),
           \A i \in 1 .. Used(r) : q.mem[Wrapped(Off(r.head) + i - 1)] =
                                   r.mem[Wrapped(Off(r.head) + i - 1)],
           \A i \in 1 .. Len(bytes) : q.mem[Wrapped(Off(q.head) + i - 1)] = bytes[i]
    PROVE  Content(q) = bytes \o Content(r)
<1>. DEFINE c == Content(r)
            d == Content(q)
            u == Used(r)
            h == Off(r.head)
            g == Off(q.head)
            n == Len(bytes)
<1>1. /\ c \in Seq(Byte) /\ Len(c) = u
      /\ \A i \in 1 .. u : c[i] = r.mem[Wrapped(h + i - 1)]
  BY ContentAt
<1>2. /\ d \in Seq(Byte) /\ Len(d) = u + n
      /\ \A i \in 1 .. u + n : d[i] = q.mem[Wrapped(g + i - 1)]
  BY ContentAt
<1>3. /\ u \in Nat /\ h \in 0 .. RingSize - 1 /\ g \in 0 .. RingSize - 1 /\ n \in Nat
      /\ u + n <= RingSize /\ Wrapped(g + n) = h
  BY RingFields
<1>4. \A i \in 1 .. n : q.mem[Wrapped(g + i - 1)] = bytes[i]
  OBVIOUS
<1>5. \A i \in 1 .. u : q.mem[Wrapped(h + i - 1)] = r.mem[Wrapped(h + i - 1)]
  OBVIOUS
<1>. HIDE DEF c, d, u, h, g
<1>. HIDE DEF n
<1>6. ASSUME NEW i \in 1 .. n PROVE d[i] = bytes[i]
  <2>1. i \in 1 .. u + n
    BY <1>3
  <2>. QED BY <1>2, <1>4, <2>1
<1>7. ASSUME NEW j \in 1 .. u PROVE d[n + j] = c[j]
  <2>1. j \in Nat \ {0} /\ n + j <= RingSize /\ n + j \in 1 .. u + n
    BY <1>3, Sizes
  <2>2. Wrapped(g + (n + j) - 1) = Wrapped(h + j - 1)
    <3>1. h \in 0 .. RingSize - 1 /\ g \in 0 .. RingSize - 1 /\ n \in Nat /\ Wrapped(g + n) = h
      BY <1>3
    <3>2. \A x, y \in 0 .. RingSize - 1, k \in Nat, i \in Nat \ {0} :
            Wrapped(y + k) = x /\ k + i <= RingSize =>
              Wrapped(y + (k + i) - 1) = Wrapped(x + i - 1)
      BY WrappedAdd
    <3>. QED BY <2>1, <3>1, <3>2, ZenonT(30)
  <2>. QED BY <1>1, <1>2, <1>5, <2>1, <2>2
<1>8. d = bytes \o c
  <2>1. Len(d) = Len(bytes) + Len(c)
    BY <1>1, <1>2, <1>3 DEF n
  <2>. QED BY <1>1, <1>2, <1>6, <1>7, <2>1, ConcatEq, Zenon DEF n
<1>. QED BY <1>8 DEF c, d

\* A ring that lost its first n bytes.
LEMMA Shrink ==
    ASSUME NEW r \in Ring, NEW q \in Ring, NEW n \in 0 .. Used(r), q.mem = r.mem,
           Wrapped(Off(r.head) + n) = Off(q.head), Used(q) = Used(r) - n
    PROVE  Content(q) = SubSeq(Content(r), n + 1, Used(r))
<1>. DEFINE c == Content(r)
            d == Content(q)
            u == Used(r)
            h == Off(r.head)
            g == Off(q.head)
            e == SubSeq(c, n + 1, u)
<1>1. /\ c \in Seq(Byte) /\ Len(c) = u
      /\ \A i \in 1 .. u : c[i] = r.mem[Wrapped(h + i - 1)]
  BY ContentAt
<1>2. /\ d \in Seq(Byte) /\ Len(d) = u - n
      /\ \A i \in 1 .. u - n : d[i] = r.mem[Wrapped(g + i - 1)]
  BY ContentAt
<1>3. /\ u \in Nat /\ h \in 0 .. RingSize - 1 /\ g \in 0 .. RingSize - 1
      /\ n \in 0 .. u /\ u <= RingSize /\ Wrapped(h + n) = g
  BY RingFields
<1>. HIDE DEF c, d, u, h, g
<1>4. /\ e \in Seq(Byte) /\ Len(e) = u - n
      /\ \A i \in 1 .. u - n : e[i] = c[n + i]
  BY <1>1, <1>3
<1>. HIDE DEF e
<1>5. ASSUME NEW i \in 1 .. u - n PROVE d[i] = e[i]
  <2>1. n + i \in 1 .. u /\ i \in Nat \ {0} /\ n + i <= RingSize /\ n \in Nat
    BY <1>3, Sizes
  <2>2. Wrapped(h + (n + i) - 1) = Wrapped(g + i - 1)
    BY <1>3, <2>1, WrappedAdd
  <2>. QED BY <1>1, <1>2, <1>4, <2>1, <2>2
<1>6. d = e
  BY <1>2, <1>4, <1>5, SeqEq
<1>. QED BY <1>6 DEF c, d, e, u

\* The split and the position at of Append1.
SplitLen(head, t, n) == IF t >= head /\ RingSize - t < n THEN RingSize - t ELSE 0
\* Where the second part of the bytes goes.
SplitAt(head, t, n) == IF SplitLen(head, t, n) > 0 THEN 0 ELSE t

\* With u bytes in use from h to t, n bytes of which s go up to the end of the
\* memory and the others from at on all go to free positions, in order.
Placed(h, t, u, n, s, at) ==
    /\ s \in 0 .. n /\ at \in Nat /\ at + n - s \in 0 .. RingSize
    /\ Wrapped(h + (u + n)) = Off(at + n - s)
    /\ \A i \in 1 .. u :
         /\ Wrapped(h + i - 1) \in 0 .. RingSize - 1
         /\ Wrapped(h + i - 1) < at \/ Wrapped(h + i - 1) >= at + (n - s)
         /\ Wrapped(h + i - 1) < t \/ Wrapped(h + i - 1) >= t + s
    /\ \A i \in 1 .. n :
         /\ Wrapped(h + u + i - 1) \in 0 .. RingSize - 1
         /\ i <= s => /\ Wrapped(h + u + i - 1) = t + i - 1
                      /\ Wrapped(h + u + i - 1) >= at + (n - s)
         /\ i > s => Wrapped(h + u + i - 1) = at + i - s - 1

\* That is where Append1 puts them.
LEMMA AppendPlan ==
    ASSUME NEW head \in 0 .. RingSize, NEW h \in 0 .. RingSize - 1, h = Off(head),
           NEW t \in 0 .. RingSize - 1, NEW u \in 0 .. RingSize,
           NEW n \in Nat, u + n <= RingSize, Wrapped(h + u) = t
    PROVE  Placed(h, t, u, n, SplitLen(head, t, n), SplitAt(head, t, n))
<1>. DEFINE s == SplitLen(head, t, n)
            at == SplitAt(head, t, n)
<1>0. /\ s = (IF t >= head /\ RingSize - t < n THEN RingSize - t ELSE 0)
      /\ at = (IF s > 0 THEN 0 ELSE t)
  BY DEF SplitLen, SplitAt
<1>. SUFFICES Placed(h, t, u, n, s, at)
  OBVIOUS
<1>. HIDE DEF s, at
<1>1. h \in 0 .. RingSize - 1 /\ (head = RingSize => h = 0) /\ (head # RingSize => h = head)
  BY Sizes DEF Off
<1>2. CASE t >= head /\ RingSize - t < n
  <2>1. s = RingSize - t /\ s > 0 /\ at = 0 /\ h = head /\ h + u = t /\ n - s <= h
    BY <1>0, <1>1, <1>2, Sizes DEF Wrapped
  <2>2. /\ s \in 0 .. n /\ at \in Nat /\ at + n - s \in 0 .. RingSize
        /\ Wrapped(h + (u + n)) = Off(at + n - s)
    BY <1>1, <2>1, <1>2, Sizes DEF Wrapped, Off
  <2>3. ASSUME NEW i \in 1 .. u
        PROVE  Wrapped(h + i - 1) = h + i - 1
    BY <1>1, <2>1, Sizes DEF Wrapped
  <2>4. ASSUME NEW i \in 1 .. n
        PROVE  Wrapped(h + u + i - 1) = IF i <= s THEN t + i - 1 ELSE i - s - 1
    BY <1>1, <2>1, Sizes DEF Wrapped
  <2>5. ASSUME NEW i \in 1 .. u
        PROVE  /\ Wrapped(h + i - 1) \in 0 .. RingSize - 1
               /\ Wrapped(h + i - 1) < at \/ Wrapped(h + i - 1) >= at + (n - s)
               /\ Wrapped(h + i - 1) < t \/ Wrapped(h + i - 1) >= t + s
    <3>1. Wrapped(h + i - 1) = h + i - 1
      BY <2>3
    <3>2. h + i - 1 \in 0 .. RingSize - 1 /\ h + i - 1 >= at + (n - s) /\ h + i - 1 < t
      BY <1>1, <2>1, Sizes
    <3>. QED BY <3>1, <3>2
  <2>6. ASSUME NEW i \in 1 .. n
        PROVE  /\ Wrapped(h + u + i - 1) \in 0 .. RingSize - 1
               /\ i <= s => /\ Wrapped(h + u + i - 1) = t + i - 1
                            /\ Wrapped(h + u + i - 1) >= at + (n - s)
               /\ i > s => Wrapped(h + u + i - 1) = at + i - s - 1
    <3>1. CASE i <= s
      <4>1. Wrapped(h + u + i - 1) = t + i - 1
        BY <2>4, <3>1
      <4>2. ~(i > s) /\ t + i - 1 \in 0 .. RingSize - 1 /\ t + i - 1 >= at + (n - s)
        BY <1>1, <2>1, <3>1, Sizes
      <4>. QED BY <3>1, <4>1, <4>2
    <3>2. CASE i > s
      <4>1. ~(i <= s) /\ i - s - 1 \in 0 .. RingSize - 1 /\ at + i - s - 1 = i - s - 1
        BY <1>1, <2>1, <3>2, Sizes
      <4>. QED BY <2>4, <3>2, <4>1
    <3>. QED BY <2>1, <3>1, <3>2, Sizes
  <2>. QED BY <2>2, <2>5, <2>6 DEF Placed
<1>3. CASE ~(t >= head /\ RingSize - t < n)
  <2>1. s = 0 /\ at = t
    BY <1>0, <1>3
  <2>2. t + n <= RingSize /\ (h + u = t \/ (h + u = t + RingSize /\ t + n <= h))
    BY <1>1, <1>3, Sizes DEF Wrapped
  <2>3. /\ s \in 0 .. n /\ at \in Nat /\ at + n - s \in 0 .. RingSize
        /\ Wrapped(h + (u + n)) = Off(at + n - s)
    BY <1>1, <2>1, <2>2, Sizes DEF Wrapped, Off
  <2>4. ASSUME NEW i \in 1 .. u
        PROVE  /\ Wrapped(h + i - 1) \in 0 .. RingSize - 1
               /\ Wrapped(h + i - 1) < t \/ Wrapped(h + i - 1) >= t + n
    BY <1>1, <2>2, Sizes DEF Wrapped
  <2>5. ASSUME NEW i \in 1 .. n
        PROVE  Wrapped(h + u + i - 1) = t + i - 1 /\ t + i - 1 \in 0 .. RingSize - 1
    <3>1. t + i - 1 \in 0 .. RingSize - 1
      BY <2>2, Sizes
    <3>2. CASE h + u = t
      <4>1. h + u + i - 1 = t + i - 1
        BY <1>1, <3>2
      <4>. QED BY <3>1, <4>1, Sizes DEF Wrapped
    <3>3. CASE h + u = t + RingSize
      <4>1. h + u + i - 1 = t + i - 1 + RingSize
        BY <1>1, <3>3, Sizes
      <4>. QED BY <3>1, <4>1, Sizes DEF Wrapped
    <3>. QED BY <2>2, <3>2, <3>3, <3>1
  <2>. QED BY <2>1, <2>3, <2>4, <2>5 DEF Placed
<1>. QED BY <1>2, <1>3

\* The memory after the two copies of Append1.
BothCopied(mem, bytes, t, at, s, m2) ==
    /\ m2 \in [0 .. RingSize - 1 -> Byte]
    /\ \A p \in 0 .. RingSize - 1 :
         m2[p] = IF p >= at /\ p <= at + (Len(bytes) - s) - 1
                 THEN bytes[p - at + s + 1]
                 ELSE IF p >= t /\ p <= t + s - 1 THEN bytes[p - t + 1]
                 ELSE mem[p]

\* Two memcpy calls, of the first s bytes to t and of the others to at.
LEMMA TwoCopies ==
    ASSUME NEW mem \in [0 .. RingSize - 1 -> Byte], NEW bytes \in Seq(Byte),
           NEW t \in Nat, NEW at \in Nat, NEW s \in 0 .. Len(bytes)
    PROVE  BothCopied(mem, bytes, t, at, s,
                      Copy(Copy(mem, t, SubSeq(bytes, 1, s)), at,
                           SubSeq(bytes, s + 1, Len(bytes))))
<1>. DEFINE m2 == Copy(Copy(mem, t, SubSeq(bytes, 1, s)), at,
                       SubSeq(bytes, s + 1, Len(bytes)))
<1>. DEFINE n == Len(bytes)
            m1 == Copy(mem, t, SubSeq(bytes, 1, s))
<1>. SUFFICES BothCopied(mem, bytes, t, at, s, m2)
  OBVIOUS
<1>. HIDE DEF m2
<1>1. /\ m1 \in [0 .. RingSize - 1 -> Byte]
      /\ \A p \in 0 .. RingSize - 1 :
           m1[p] = IF p >= t /\ p <= t + s - 1 THEN bytes[p - t + 1] ELSE mem[p]
  <2>1. \A k \in 0 .. s :
          /\ Copy(mem, t, SubSeq(bytes, k + 1, s)) \in [0 .. RingSize - 1 -> Byte]
          /\ \A p \in 0 .. RingSize - 1 :
                Copy(mem, t, SubSeq(bytes, k + 1, s))[p] =
                  IF p >= t /\ p <= t + (s - k) - 1 THEN bytes[p - t + k + 1]
                  ELSE mem[p]
    BY CopyPart
  <2>2. 0 \in 0 .. s /\ 0 + 1 = 1 /\ s - 0 = s
    OBVIOUS
  <2>3. \A p \in 0 .. RingSize - 1 : p - t + 0 + 1 = p - t + 1
    BY Sizes
  <2>4. m1 = Copy(mem, t, SubSeq(bytes, 0 + 1, s))
    BY <2>2
  <2>. HIDE DEF m1
  <2>. QED BY <2>1, <2>2, <2>3, <2>4
<1>. HIDE DEF m1
<1>2. /\ m2 \in [0 .. RingSize - 1 -> Byte]
      /\ \A p \in 0 .. RingSize - 1 :
           m2[p] = IF p >= at /\ p <= at + (n - s) - 1 THEN bytes[p - at + s + 1]
                   ELSE m1[p]
  <2>1. m2 = Copy(m1, at, SubSeq(bytes, s + 1, n))
    BY DEF m1, m2
  <2>2. n \in 0 .. Len(bytes) /\ s \in 0 .. n
    OBVIOUS
  <2>. HIDE DEF n
  <2>3. \A m \in [0 .. RingSize - 1 -> Byte], j \in 0 .. Len(bytes) : \A k \in 0 .. j :
          /\ Copy(m, at, SubSeq(bytes, k + 1, j)) \in [0 .. RingSize - 1 -> Byte]
          /\ \A p \in 0 .. RingSize - 1 :
                Copy(m, at, SubSeq(bytes, k + 1, j))[p] =
                  IF p >= at /\ p <= at + (j - k) - 1 THEN bytes[p - at + k + 1]
                  ELSE m[p]
    BY CopyPart
  <2>4. /\ Copy(m1, at, SubSeq(bytes, s + 1, n)) \in [0 .. RingSize - 1 -> Byte]
        /\ \A p \in 0 .. RingSize - 1 :
              Copy(m1, at, SubSeq(bytes, s + 1, n))[p] =
                IF p >= at /\ p <= at + (n - s) - 1 THEN bytes[p - at + s + 1]
                ELSE m1[p]
    BY <1>1, <2>2, <2>3
  <2>. QED BY <2>1, <2>4
<1>. QED BY <1>1, <1>2 DEF BothCopied

\* The u bytes in use from h on are left alone, and bytes are put behind them.
Appended(mem, bytes, h, u, m2) ==
    /\ m2 \in [0 .. RingSize - 1 -> Byte]
    /\ \A i \in 1 .. u : m2[Wrapped(h + i - 1)] = mem[Wrapped(h + i - 1)]
    /\ \A i \in 1 .. Len(bytes) : m2[Wrapped(h + u + i - 1)] = bytes[i]

\* The copies of Append1 do that.
LEMMA AppendMem ==
    ASSUME NEW mem \in [0 .. RingSize - 1 -> Byte], NEW bytes \in Seq(Byte),
           NEW h \in 0 .. RingSize - 1, NEW t \in 0 .. RingSize - 1,
           NEW u \in 0 .. RingSize, NEW s \in 0 .. Len(bytes), NEW at \in Nat,
           Placed(h, t, u, Len(bytes), s, at)
    PROVE  Appended(mem, bytes, h, u,
                    Copy(Copy(mem, t, SubSeq(bytes, 1, s)), at,
                         SubSeq(bytes, s + 1, Len(bytes))))
<1>1. PICK n \in Nat : n = Len(bytes) /\ s <= n
  OBVIOUS
<1>2. PICK m2 : m2 = Copy(Copy(mem, t, SubSeq(bytes, 1, s)), at,
                          SubSeq(bytes, s + 1, Len(bytes)))
  OBVIOUS
<1>3. /\ m2 \in [0 .. RingSize - 1 -> Byte]
      /\ \A p \in 0 .. RingSize - 1 :
           m2[p] = IF p >= at /\ p <= at + (n - s) - 1 THEN bytes[p - at + s + 1]
                   ELSE IF p >= t /\ p <= t + s - 1 THEN bytes[p - t + 1]
                   ELSE mem[p]
  <2>1. t \in Nat
    BY Sizes
  <2>2. /\ m2 \in [0 .. RingSize - 1 -> Byte]
        /\ \A p \in 0 .. RingSize - 1 :
             m2[p] = IF p >= at /\ p <= at + (Len(bytes) - s) - 1 THEN bytes[p - at + s + 1]
                     ELSE IF p >= t /\ p <= t + s - 1 THEN bytes[p - t + 1]
                     ELSE mem[p]
    <3>1. BothCopied(mem, bytes, t, at, s, m2)
      BY <1>2, <2>1, TwoCopies, Zenon
    <3>. QED BY <3>1 DEF BothCopied
  <2>. QED BY <1>1, <2>2
<1>4. ASSUME NEW i \in 1 .. u
      PROVE  m2[Wrapped(h + i - 1)] = mem[Wrapped(h + i - 1)]
  <2>1. PICK p \in 0 .. RingSize - 1 :
          /\ p = Wrapped(h + i - 1)
          /\ p < at \/ p >= at + (n - s)
          /\ p < t \/ p >= t + s
    BY <1>1 DEF Placed
  <2>2. ~(p >= at /\ p <= at + (n - s) - 1) /\ ~(p >= t /\ p <= t + s - 1)
    BY <1>1, <2>1, Sizes
  <2>. QED BY <1>3, <2>1, <2>2
<1>5. ASSUME NEW i \in 1 .. n
      PROVE  m2[Wrapped(h + u + i - 1)] = bytes[i]
  <2>1. PICK p \in 0 .. RingSize - 1 :
          /\ p = Wrapped(h + u + i - 1)
          /\ i <= s => p = t + i - 1 /\ p >= at + (n - s)
          /\ i > s => p = at + i - s - 1
    BY <1>1 DEF Placed
  <2>2. CASE i <= s
    <3>1. ~(p >= at /\ p <= at + (n - s) - 1) /\ p >= t /\ p <= t + s - 1 /\ p - t + 1 = i
      BY <1>1, <2>1, <2>2, Sizes, SMTT(30)
    <3>. QED BY <1>3, <2>1, <3>1
  <2>3. CASE i > s
    <3>1. p >= at /\ p <= at + (n - s) - 1 /\ p - at + s + 1 = i
      BY <1>1, <2>1, <2>3, Sizes, SMTT(30)
    <3>. QED BY <1>3, <2>1, <3>1
  <2>. QED BY <2>2, <2>3
<1>6. Appended(mem, bytes, h, u, m2)
  BY <1>1, <1>3, <1>4, <1>5 DEF Appended
<1>. QED BY <1>2, <1>6

\* Append1 puts the bytes behind the content, whether it splits them or not.
LEMMA AppendRing ==
    ASSUME NEW r, RingInv(r), NEW bytes \in Seq(Byte), Len(bytes) <= r.freesize
    PROVE  /\ RingInv(Append1(r, bytes))
           /\ Append1(r, bytes).type = r.type
           /\ Append1(r, bytes).head = r.head
           /\ Append1(r, bytes).freesize = r.freesize - Len(bytes)
           /\ Content(Append1(r, bytes)) = Content(r) \o bytes
<1>. DEFINE h == Off(r.head)
            t == Off(r.tail)
            u == Used(r)
            n == Len(bytes)
            f == r.freesize
            s == SplitLen(r.head, t, n)
            at == SplitAt(r.head, t, n)
            m2 == Copy(Copy(r.mem, t, SubSeq(bytes, 1, s)), at, SubSeq(bytes, s + 1, n))
            q == Append1(r, bytes)
<1>0. r \in Ring /\ Wrapped(h + u) = t
  BY DEF RingInv
<1>1. /\ r.type \in {"fix", "dyn"} /\ r.mem \in [0 .. RingSize - 1 -> Byte]
      /\ r.head \in 0 .. RingSize /\ f \in 0 .. RingSize
      /\ r = [type |-> r.type, mem |-> r.mem, head |-> r.head,
              tail |-> r.tail, freesize |-> f]
      /\ u \in 0 .. RingSize /\ u = RingSize - f
      /\ h \in 0 .. RingSize - 1 /\ t \in 0 .. RingSize - 1
  BY <1>0, RingFields
<1>2. n \in Nat /\ n <= f
  OBVIOUS
<1>3. q = [r EXCEPT !.mem = m2, !.tail = at + n - s, !.freesize = f - n]
  BY DEF Append1, Off, SplitLen, SplitAt
<1>4. h = Off(r.head)
  OBVIOUS
<1>5. \A i \in 1 .. u : Wrapped(h + i - 1) = Wrapped(Off(r.head) + i - 1)
  OBVIOUS
<1>. HIDE DEF h, t, u, n, f, s, at, m2, q
<1>6. u + n <= RingSize /\ f - n \in 0 .. RingSize /\ RingSize - (f - n) = u + n
  BY <1>1, <1>2, Sizes, SMTT(30)
<1>7. Placed(h, t, u, n, s, at)
  BY <1>0, <1>1, <1>2, <1>4, <1>6, AppendPlan DEF s, at
<1>8. /\ s \in 0 .. Len(bytes) /\ at \in Nat /\ at + n - s \in 0 .. RingSize
      /\ Wrapped(h + (u + n)) = Off(at + n - s)
      /\ Placed(h, t, u, Len(bytes), s, at)
  BY <1>7 DEF Placed, n
<1>9. /\ m2 \in [0 .. RingSize - 1 -> Byte]
      /\ \A i \in 1 .. u : m2[Wrapped(h + i - 1)] = r.mem[Wrapped(h + i - 1)]
      /\ \A i \in 1 .. Len(bytes) : m2[Wrapped(h + u + i - 1)] = bytes[i]
  <2>1. Appended(r.mem, bytes, h, u, m2)
    BY <1>1, <1>8, AppendMem, Zenon DEF m2, n
  <2>. QED BY <2>1 DEF Appended
<1>10. /\ q = [type |-> r.type, mem |-> m2, head |-> r.head, tail |-> at + n - s,
               freesize |-> f - n]
  BY <1>1, <1>3
<1>11. q \in Ring /\ Used(q) = u + n
  BY <1>1, <1>6, <1>8, <1>9, <1>10 DEF Ring, Used
<1>12. /\ q.mem = m2 /\ q.head = r.head /\ q.type = r.type /\ q.freesize = f - n
       /\ q.tail = at + n - s
  BY <1>10
<1>13. RingInv(q)
  BY <1>8, <1>11, <1>12 DEF RingInv, h
<1>14. Content(q) = Content(r) \o bytes
  <2>1. /\ \A i \in 1 .. Used(r) : q.mem[Wrapped(Off(r.head) + i - 1)] =
                                   r.mem[Wrapped(Off(r.head) + i - 1)]
        /\ \A i \in 1 .. Len(bytes) :
              q.mem[Wrapped(Off(r.head) + Used(r) + i - 1)] = bytes[i]
        /\ Used(q) = Used(r) + Len(bytes)
    BY <1>9, <1>11, <1>12, Zenon DEF h, u, n
  <2>. QED BY <1>0, <1>11, <1>12, <2>1, GrowBack, Zenon
<1>. QED BY <1>12, <1>13, <1>14 DEF q, f, n

-----------------------------------------------------------------------------
(***************************************************************************)
(* Bytes put in front of the content.                                      *)
(***************************************************************************)
\* e bytes from g on and k bytes at the start of the memory go to free positions
\* in front of the u bytes in use from h on, and end where those start.
PlacedFront(g, h, t, u, k, e) ==
    /\ g \in 0 .. RingSize - 1
    /\ Wrapped(g + (e + k)) = h
    /\ Wrapped(g + (u + (e + k))) = t
    /\ \A i \in 1 .. u :
         /\ Wrapped(h + i - 1) \in 0 .. RingSize - 1
         /\ Wrapped(h + i - 1) >= k
         /\ Wrapped(h + i - 1) < g \/ Wrapped(h + i - 1) >= g + e
    /\ \A i \in 1 .. e : Wrapped(g + i - 1) = g + i - 1 /\ g + i - 1 \in 0 .. RingSize - 1
    /\ \A i \in 1 .. k : /\ Wrapped(g + (e + i) - 1) = i - 1
                         /\ i - 1 \in 0 .. RingSize - 1 /\ i - 1 < g

\* FrontPos and WrapLen choose such positions.
LEMMA PrependPlan ==
    ASSUME NEW head \in 0 .. RingSize, NEW h \in 0 .. RingSize - 1, h = Off(head),
           NEW tail \in 0 .. RingSize, NEW t \in 0 .. RingSize - 1, t = Off(tail),
           NEW u \in 0 .. RingSize, Wrapped(h + u) = t,
           NEW k \in Nat, NEW e \in Nat \ {0}, u + (e + k) <= RingSize,
           NEW F \in Nat, F = (IF head = 0 THEN RingSize ELSE head),
           k = (IF F <= tail /\ F < e + k THEN F ELSE 0),
           NEW g \in Int, g = (IF k = 0 THEN F ELSE RingSize) - e
    PROVE  PlacedFront(g, h, t, u, k, e)
<1>1. /\ (head = RingSize => h = 0) /\ (head # RingSize => h = head)
      /\ (tail = RingSize => t = 0) /\ (tail # RingSize => t = tail)
  BY DEF Off
<1>2. CASE k > 0
  <2>1. F = head /\ head > 0 /\ head < RingSize /\ h = head /\ k = h /\ h <= tail /\ g = RingSize - e
    BY <1>1, <1>2, Sizes
  <2>2. h + u <= RingSize /\ g >= h + u /\ g \in 0 .. RingSize - 1
    BY <1>1, <1>2, <2>1, Sizes DEF Wrapped
  <2>3. Wrapped(g + (e + k)) = h /\ Wrapped(g + (u + (e + k))) = t
    <3>1. g + (e + k) = RingSize + h /\ g + (u + (e + k)) = RingSize + (h + u)
      BY <2>1, Sizes
    <3>2. Wrapped(RingSize + h) = h
      BY Sizes DEF Wrapped
    <3>3. Wrapped(RingSize + (h + u)) = h + u
      BY Sizes, <2>2 DEF Wrapped
    <3>4. h + u < RingSize
      BY <2>2, Sizes
    <3>5. h + u = t
      BY <3>4 DEF Wrapped
    <3>. QED BY <3>1, <3>2, <3>3, <3>5
  <2>4. ASSUME NEW i \in 1 .. u
        PROVE  /\ Wrapped(h + i - 1) \in 0 .. RingSize - 1
               /\ Wrapped(h + i - 1) >= k
               /\ Wrapped(h + i - 1) < g \/ Wrapped(h + i - 1) >= g + e
    <3>1. h + i - 1 \in 0 .. RingSize - 1 /\ h + i - 1 >= k /\ h + i - 1 < g
      BY <2>1, <2>2, Sizes
    <3>2. Wrapped(h + i - 1) = h + i - 1
      BY <3>1 DEF Wrapped
    <3>. QED BY <3>1, <3>2
  <2>5. ASSUME NEW i \in 1 .. e
        PROVE  Wrapped(g + i - 1) = g + i - 1 /\ g + i - 1 \in 0 .. RingSize - 1
    <3>1. g + i - 1 \in 0 .. RingSize - 1
      BY <2>1, <2>2, Sizes
    <3>. QED BY <3>1 DEF Wrapped
  <2>6. ASSUME NEW i \in 1 .. k
        PROVE  Wrapped(g + (e + i) - 1) = i - 1 /\ i - 1 \in 0 .. RingSize - 1 /\ i - 1 < g
    <3>1. g + (e + i) - 1 = RingSize + (i - 1) /\ i - 1 \in 0 .. RingSize - 1 /\ i - 1 < g
      BY <2>1, <2>2, Sizes
    <3>. QED BY <3>1, Sizes DEF Wrapped
  <2>. QED BY <2>2, <2>3, <2>4, <2>5, <2>6 DEF PlacedFront
<1>3. CASE k = 0
  <2>1. g = F - e /\ (F > tail \/ F >= e)
    BY <1>3
  <2>2. /\ F = h \/ (h = 0 /\ F = RingSize)
        /\ F \in 1 .. RingSize
    BY <1>1, Sizes
  <2>3. /\ g \in 0 .. RingSize - 1
        /\ h = 0 => g >= u
        /\ h > 0 => F = h /\ g < h
        /\ h > 0 /\ h + u >= RingSize => g >= h + u - RingSize
    BY <1>1, <1>3, <2>1, <2>2, Sizes DEF Wrapped
  <2>4. Wrapped(g + (e + k)) = h /\ Wrapped(g + (u + (e + k))) = t
    <3>1. g + (e + k) = F /\ g + (u + (e + k)) = F + u
      BY <1>3, <2>1, <2>2
    <3>2. Wrapped(F) = h /\ Wrapped(F + u) = t
      <4>1. CASE F = h
        BY <4>1, <2>2, Sizes DEF Wrapped
      <4>2. CASE h = 0 /\ F = RingSize
        BY <4>2, <2>3, Sizes DEF Wrapped
      <4>. QED BY <2>2, <4>1, <4>2
    <3>. QED BY <3>1, <3>2
  <2>5. ASSUME NEW i \in 1 .. u
        PROVE  /\ Wrapped(h + i - 1) \in 0 .. RingSize - 1
               /\ Wrapped(h + i - 1) >= k
               /\ Wrapped(h + i - 1) < g \/ Wrapped(h + i - 1) >= g + e
    <3>1. CASE h + i - 1 < RingSize
      <4>1. Wrapped(h + i - 1) = h + i - 1
        BY <3>1 DEF Wrapped
      <4>2. CASE h = 0
        <5>1. h + i - 1 < g /\ h + i - 1 \in 0 .. RingSize - 1
          BY <2>3, <3>1, <4>2
        <5>. QED BY <1>3, <4>1, <5>1
      <4>3. CASE h > 0
        <5>1. h + i - 1 >= g + e /\ h + i - 1 \in 0 .. RingSize - 1
          BY <2>1, <2>3, <3>1, <4>3
        <5>. QED BY <1>3, <4>1, <5>1
      <4>. QED BY <4>2, <4>3
    <3>2. CASE h + i - 1 >= RingSize
      <4>1. Wrapped(h + i - 1) = h + i - 1 - RingSize
        BY <3>2, Sizes DEF Wrapped
      <4>2. h > 0 /\ h + u >= RingSize
        BY <3>2, Sizes
      <4>3. h + i - 1 - RingSize < g /\ h + i - 1 - RingSize \in 0 .. RingSize - 1
        BY <2>3, <3>2, <4>2, Sizes
      <4>. QED BY <1>3, <4>1, <4>3
    <3>. QED BY <3>1, <3>2, Sizes
  <2>6. ASSUME NEW i \in 1 .. e
        PROVE  Wrapped(g + i - 1) = g + i - 1 /\ g + i - 1 \in 0 .. RingSize - 1
    <3>1. g + i - 1 \in 0 .. RingSize - 1
      BY <2>1, <2>2, <2>3, Sizes
    <3>. QED BY <3>1 DEF Wrapped
  <2>7. \A i \in 1 .. k : FALSE
    BY <1>3
  <2>. QED BY <2>3, <2>4, <2>5, <2>6, <2>7 DEF PlacedFront
<1>. QED BY <1>2, <1>3

\* The u bytes in use from h on are left alone, and data starts at g.
Prepended(mem, data, g, h, u, m2) ==
    /\ m2 \in [0 .. RingSize - 1 -> Byte]
    /\ \A i \in 1 .. u : m2[Wrapped(h + i - 1)] = mem[Wrapped(h + i - 1)]
    /\ \A i \in 1 .. Len(data) : m2[Wrapped(g + i - 1)] = data[i]

\* The copies of Prepend do that.
LEMMA PrependMem ==
    ASSUME NEW mem \in [0 .. RingSize - 1 -> Byte],
           NEW atBuf \in Seq(Byte), NEW atEnd \in Seq(Byte),
           NEW g \in Nat, NEW h \in 0 .. RingSize - 1, NEW t, NEW u \in 0 .. RingSize,
           PlacedFront(g, h, t, u, Len(atBuf), Len(atEnd))
    PROVE  Prepended(mem, atEnd \o atBuf, g, h, u, Copy(Copy(mem, 0, atBuf), g, atEnd))
<1>1. PICK k \in Nat, e \in Nat : k = Len(atBuf) /\ e = Len(atEnd)
  OBVIOUS
<1>2. PICK m1 : m1 = Copy(mem, 0, atBuf)
  OBVIOUS
<1>3. PICK m2 : m2 = Copy(m1, g, atEnd)
  OBVIOUS
<1>4. PICK data : data = atEnd \o atBuf
  OBVIOUS
<1>5. /\ m1 \in [0 .. RingSize - 1 -> Byte]
      /\ \A p \in 0 .. RingSize - 1 :
           m1[p] = IF p >= 0 /\ p <= 0 + k - 1 THEN atBuf[p - 0 + 1] ELSE mem[p]
  <2>1. 0 \in Nat
    OBVIOUS
  <2>2. Copied(mem, 0, atBuf, m1)
    BY <1>2, <2>1, CopyIs, Zenon
  <2>. QED BY <1>1, <2>2 DEF Copied
<1>6. /\ m2 \in [0 .. RingSize - 1 -> Byte]
      /\ \A p \in 0 .. RingSize - 1 :
           m2[p] = IF p >= g /\ p <= g + e - 1 THEN atEnd[p - g + 1] ELSE m1[p]
  <2>1. Copied(m1, g, atEnd, m2)
    BY <1>3, <1>5, CopyIs, Zenon
  <2>. QED BY <1>1, <2>1 DEF Copied
<1>7. /\ data \in Seq(Byte) /\ Len(data) = e + k
      /\ \A i \in 1 .. e : data[i] = atEnd[i]
      /\ \A i \in 1 .. k : data[e + i] = atBuf[i]
  BY <1>1, <1>4, Concat
<1>8. ASSUME NEW i \in 1 .. u
      PROVE  m2[Wrapped(h + i - 1)] = mem[Wrapped(h + i - 1)]
  <2>1. PICK p \in 0 .. RingSize - 1 :
          /\ p = Wrapped(h + i - 1)
          /\ p >= k
          /\ p < g \/ p >= g + e
    BY <1>1 DEF PlacedFront
  <2>2. ~(p >= 0 /\ p <= 0 + k - 1) /\ ~(p >= g /\ p <= g + e - 1)
    BY <2>1, Sizes
  <2>. QED BY <1>5, <1>6, <2>1, <2>2
<1>9. ASSUME NEW i \in 1 .. e + k
      PROVE  m2[Wrapped(g + i - 1)] = data[i]
  <2>1. CASE i <= e
    <3>1. i \in 1 .. e /\ g + i - 1 >= g /\ g + i - 1 <= g + e - 1 /\ g + i - 1 - g + 1 = i
      BY <2>1
    <3>2. Wrapped(g + i - 1) = g + i - 1 /\ g + i - 1 \in 0 .. RingSize - 1
      BY <1>1, <3>1 DEF PlacedFront
    <3>3. PICK p \in 0 .. RingSize - 1 : p = g + i - 1
      BY <3>2
    <3>4. m2[p] = atEnd[i]
      <4>1. p >= g /\ p <= g + e - 1 /\ p - g + 1 = i
        BY <3>1, <3>3
      <4>. QED BY <1>6, <4>1
    <3>. QED BY <1>7, <3>1, <3>2, <3>3, <3>4
  <2>2. CASE i > e
    <3>1. PICK j \in 1 .. k : i = e + j
      <4>1. i - e \in 1 .. k /\ i = e + (i - e)
        BY <2>2
      <4>. QED BY <4>1
    <3>2. Wrapped(g + i - 1) = j - 1 /\ j - 1 \in 0 .. RingSize - 1 /\ j - 1 < g
      BY <1>1, <3>1 DEF PlacedFront
    <3>3. /\ ~(j - 1 >= g /\ j - 1 <= g + e - 1) /\ j - 1 >= 0 /\ j - 1 <= 0 + k - 1
          /\ j - 1 - 0 + 1 = j
      BY <3>2
    <3>4. m2[j - 1] = m1[j - 1] /\ m1[j - 1] = atBuf[j]
      BY <1>5, <1>6, <3>2, <3>3
    <3>. QED BY <1>7, <3>1, <3>2, <3>4
  <2>. QED BY <2>1, <2>2
<1>10. Prepended(mem, data, g, h, u, m2)
  BY <1>6, <1>7, <1>8, <1>9 DEF Prepended
<1>. QED BY <1>2, <1>3, <1>4, <1>10

\* With u of R bytes in use and f free, n = e + k bytes fit, and what is free then.
Fits(R, f, u, k, e) ==
    /\ u + (e + k) <= R /\ f - k - e \in 0 .. R
    /\ R - (f - k - e) = u + (e + k) /\ f - k - e = f - (e + k)

\* The counts of bytes after n = e + k were added, when they fit.
LEMMA FreeAfter ==
    ASSUME NEW R \in Nat, NEW f \in 0 .. R, NEW u \in 0 .. R, u = R - f,
           NEW k \in Nat, NEW e \in Nat, e + k <= f
    PROVE  Fits(R, f, u, k, e)
BY DEF Fits

\* Prepend puts the bytes at the end of the memory, then those at its start, in
\* front of the content, when WrapLen says how many there are at the start.
LEMMA PrependRing ==
    ASSUME NEW r, RingInv(r), NEW atBuf \in Seq(Byte), NEW atEnd \in Seq(Byte),
           Len(atEnd) > 0, Len(atEnd) + Len(atBuf) <= r.freesize,
           Len(atBuf) = WrapLen(r, Len(atEnd) + Len(atBuf))
    PROVE  /\ RingInv(Prepend(r, atBuf, atEnd))
           /\ Prepend(r, atBuf, atEnd).type = r.type
           /\ Prepend(r, atBuf, atEnd).tail = r.tail
           /\ Prepend(r, atBuf, atEnd).freesize = r.freesize - (Len(atEnd) + Len(atBuf))
           /\ Wrapped(Off(Prepend(r, atBuf, atEnd).head) + (Len(atEnd) + Len(atBuf)))
                = Off(r.head)
           /\ Content(Prepend(r, atBuf, atEnd)) = (atEnd \o atBuf) \o Content(r)
<1>. DEFINE h == Off(r.head)
            t == Off(r.tail)
            u == Used(r)
            k == Len(atBuf)
            e == Len(atEnd)
            f == r.freesize
            F == FrontPos(r)
            g == (IF k = 0 THEN F ELSE RingSize) - e
            m2 == Copy(Copy(r.mem, 0, atBuf), g, atEnd)
            q == Prepend(r, atBuf, atEnd)
<1>0. r \in Ring /\ Wrapped(h + u) = t
  BY DEF RingInv
<1>1. /\ r.type \in {"fix", "dyn"} /\ r.mem \in [0 .. RingSize - 1 -> Byte]
      /\ r.head \in 0 .. RingSize /\ r.tail \in 0 .. RingSize /\ f \in 0 .. RingSize
      /\ r = [type |-> r.type, mem |-> r.mem, head |-> r.head,
              tail |-> r.tail, freesize |-> f]
      /\ u \in 0 .. RingSize /\ u = RingSize - f
      /\ h \in 0 .. RingSize - 1 /\ t \in 0 .. RingSize - 1
  BY <1>0, RingFields
<1>2. k \in Nat /\ e \in Nat \ {0} /\ e + k <= f
  OBVIOUS
<1>3. q = [r EXCEPT !.mem = m2, !.head = g, !.freesize = f - k - e]
  <2>1. atBuf = <<>> <=> k = 0
    OBVIOUS
  <2>. QED BY <2>1 DEF Prepend
<1>4. h = Off(r.head) /\ t = Off(r.tail)
  OBVIOUS
<1>5. /\ F = (IF r.head = 0 THEN RingSize ELSE r.head)
      /\ k = (IF F <= r.tail /\ F < e + k THEN F ELSE 0)
  BY DEF FrontPos, WrapLen
<1>6. g = (IF k = 0 THEN F ELSE RingSize) - e
  OBVIOUS
<1>. HIDE DEF h, t, u, k, e, f, F, g, m2, q
<1>7. /\ u + (e + k) <= RingSize /\ f - k - e \in 0 .. RingSize
      /\ RingSize - (f - k - e) = u + (e + k) /\ f - k - e = f - (e + k)
  <2>1. RingSize \in Nat /\ e \in Nat
    BY <1>2, Sizes
  <2>2. f \in 0 .. RingSize /\ u \in 0 .. RingSize /\ u = RingSize - f
    BY <1>1, Zenon
  <2>3. k \in Nat /\ e + k <= f
    BY <1>2, Zenon
  <2>4. Fits(RingSize, f, u, k, e)
    BY <2>1, <2>2, <2>3, FreeAfter, Zenon
  <2>. QED BY <2>4 DEF Fits
<1>8. F \in Nat /\ g \in Int
  BY <1>1, <1>2, <1>5, <1>6, Sizes, SMTT(30)
<1>9. PlacedFront(g, h, t, u, k, e)
  BY <1>0, <1>1, <1>2, <1>4, <1>5, <1>6, <1>7, <1>8, PrependPlan
<1>10. /\ g \in 0 .. RingSize - 1 /\ Wrapped(g + (e + k)) = h
       /\ Wrapped(g + (u + (e + k))) = t
       /\ PlacedFront(g, h, t, u, Len(atBuf), Len(atEnd))
  BY <1>9 DEF PlacedFront, k, e
<1>11. Prepended(r.mem, atEnd \o atBuf, g, h, u, m2)
  <2>1. g \in Nat
    BY <1>10, Sizes
  <2>. QED BY <1>1, <1>10, <2>1, PrependMem, Zenon DEF m2
<1>12. /\ m2 \in [0 .. RingSize - 1 -> Byte]
       /\ \A i \in 1 .. u : m2[Wrapped(h + i - 1)] = r.mem[Wrapped(h + i - 1)]
       /\ \A i \in 1 .. Len(atEnd \o atBuf) : m2[Wrapped(g + i - 1)] = (atEnd \o atBuf)[i]
  BY <1>11 DEF Prepended
<1>13. q = [type |-> r.type, mem |-> m2, head |-> g, tail |-> r.tail,
            freesize |-> f - k - e]
  BY <1>1, <1>3
<1>14. /\ q.mem = m2 /\ q.head = g /\ q.type = r.type /\ q.freesize = f - (e + k)
       /\ q.tail = r.tail
  BY <1>7, <1>13
<1>15. q \in Ring /\ Used(q) = u + (e + k)
  <2>1. g \in 0 .. RingSize
    BY <1>10, Sizes
  <2>. QED BY <1>1, <1>7, <1>12, <1>13, <2>1 DEF Ring, Used
<1>16. Off(g) = g
  BY <1>10, Sizes DEF Off
<1>17. RingInv(q)
  BY <1>4, <1>10, <1>14, <1>15, <1>16 DEF RingInv
<1>18. Content(q) = (atEnd \o atBuf) \o Content(r)
  <2>1. atEnd \o atBuf \in Seq(Byte) /\ Len(atEnd \o atBuf) = e + k
    BY Concat DEF e, k
  <2>2. PICK d \in Seq(Byte) : d = atEnd \o atBuf
    BY <2>1
  <2>3. /\ \A i \in 1 .. Used(r) : q.mem[Wrapped(Off(r.head) + i - 1)] =
                                   r.mem[Wrapped(Off(r.head) + i - 1)]
        /\ \A i \in 1 .. Len(d) : q.mem[Wrapped(Off(q.head) + i - 1)] = d[i]
        /\ Used(q) = Used(r) + Len(d)
        /\ Wrapped(Off(q.head) + Len(d)) = Off(r.head)
    BY <1>10, <1>12, <1>14, <1>15, <1>16, <2>1, <2>2, Zenon DEF h, u
  <2>. QED BY <1>0, <1>15, <2>2, <2>3, GrowFront, Zenon
<1>19. Wrapped(Off(q.head) + (e + k)) = Off(r.head)
  BY <1>4, <1>10, <1>14, <1>16, Zenon
<1>. QED BY <1>14, <1>17, <1>18, <1>19 DEF q, f, e, k

-----------------------------------------------------------------------------
(***************************************************************************)
(* Bytes taken off the front of the content.                               *)
(***************************************************************************)
\* The split and the position at of Take.
TakeSplit(h, n, wrap) == IF wrap /\ RingSize - h < n THEN RingSize - h ELSE 0
\* Where the second part of the bytes is read from.
TakeAt(h, n, wrap) == IF TakeSplit(h, n, wrap) > 0 THEN 0 ELSE h

\* With u bytes in use from h to t, the position p is n bytes further than h.
Skipped(h, t, u, n, p) ==
    /\ p \in 0 .. RingSize /\ Off(p) = Wrapped(h + n)
    /\ Wrapped(Wrapped(h + n) + (u - n)) = t

\* Copying s bytes from h on and the others from at on reads n bytes in order.
Taken(h, n, at, s) ==
    \A i \in 1 .. n : (IF i <= s THEN h + i - 1 ELSE at + i - s - 1) = Wrapped(h + i - 1)

\* The two reads of Take are n bytes in order, round the end of the memory when it
\* may wrap.
LEMMA TakePlan ==
    ASSUME NEW h \in 0 .. RingSize - 1, NEW u \in 0 .. RingSize, NEW n \in 0 .. u,
           NEW wrap \in BOOLEAN, ~wrap => h + n <= RingSize,
           NEW t \in 0 .. RingSize - 1, Wrapped(h + u) = t
    PROVE  /\ Skipped(h, t, u, n, TakeAt(h, n, wrap) + n - TakeSplit(h, n, wrap))
           /\ Taken(h, n, TakeAt(h, n, wrap), TakeSplit(h, n, wrap))
<1>1. CASE RingSize - h < n
  <2>1. wrap
    BY <1>1, Sizes
  <2>2. TakeSplit(h, n, wrap) = RingSize - h /\ TakeAt(h, n, wrap) = 0
    BY <1>1, <2>1, Sizes DEF TakeSplit, TakeAt
  <2>3. 0 + n - (RingSize - h) \in 0 .. RingSize - 1 /\ h + n >= RingSize
    BY <1>1, Sizes
  <2>4. Wrapped(h + n) = 0 + n - (RingSize - h)
    BY <2>3, Sizes DEF Wrapped
  <2>5. Off(0 + n - (RingSize - h)) = 0 + n - (RingSize - h)
    BY <2>3, Sizes DEF Off
  <2>6. Wrapped((0 + n - (RingSize - h)) + (u - n)) = t
    BY <1>1, Sizes DEF Wrapped
  <2>7. Taken(h, n, 0, RingSize - h)
    BY <1>1, Sizes DEF Wrapped, Taken
  <2>8. Skipped(h, t, u, n, 0 + n - (RingSize - h))
    BY <2>3, <2>4, <2>5, <2>6, Sizes DEF Skipped
  <2>. QED BY <2>2, <2>7, <2>8
<1>2. CASE ~(RingSize - h < n)
  <2>2. TakeSplit(h, n, wrap) = 0 /\ TakeAt(h, n, wrap) = h
    BY <1>2, Sizes DEF TakeSplit, TakeAt
  <2>3. h + n - 0 = h + n /\ h + n \in 0 .. RingSize
    BY <1>2, Sizes
  <2>4. Off(h + n) = Wrapped(h + n)
    BY <2>3, Sizes DEF Off, Wrapped
  <2>5. Wrapped(Wrapped(h + n) + (u - n)) = t
    BY <2>3, Sizes DEF Wrapped
  <2>6. Taken(h, n, h, 0)
    BY <1>2, Sizes DEF Wrapped, Taken
  <2>7. Skipped(h, t, u, n, h + n - 0)
    BY <2>3, <2>4, <2>5 DEF Skipped
  <2>. QED BY <2>2, <2>6, <2>7
<1>. QED BY <1>1, <1>2

\* With u of R bytes in use and f free, what is free without n of the u bytes.
Frees(R, f, u, n) == f + n \in 0 .. R /\ R - (f + n) = u - n

\* The counts of bytes after n were taken.
LEMMA FreeAgain ==
    ASSUME NEW R \in Nat, NEW f \in 0 .. R, NEW u \in 0 .. R, u = R - f, NEW n \in 0 .. u
    PROVE  Frees(R, f, u, n)
BY DEF Frees

\* Take gives the first n bytes of the content when it may wrap or need not.
LEMMA TakeRing ==
    ASSUME NEW r, RingInv(r), NEW n \in 0 .. Used(r), NEW wrap \in BOOLEAN,
           ~wrap => Off(r.head) + n <= RingSize
    PROVE  /\ RingInv(Take(r, n, wrap).ring)
           /\ Take(r, n, wrap).ring.type = r.type
           /\ Take(r, n, wrap).ring.tail = r.tail
           /\ Take(r, n, wrap).ring.freesize = r.freesize + n
           /\ Off(Take(r, n, wrap).ring.head) = Wrapped(Off(r.head) + n)
           /\ Take(r, n, wrap).bytes = SubSeq(Content(r), 1, n)
           /\ Content(Take(r, n, wrap).ring) = SubSeq(Content(r), n + 1, Used(r))
<1>. DEFINE h == Off(r.head)
            t == Off(r.tail)
            u == Used(r)
            f == r.freesize
            s == TakeSplit(h, n, wrap)
            at == TakeAt(h, n, wrap)
            b == [i \in 1 .. n |-> r.mem[IF i <= s THEN h + i - 1 ELSE at + i - s - 1]]
            q == Take(r, n, wrap).ring
<1>0. r \in Ring /\ Wrapped(h + u) = t
  BY DEF RingInv
<1>1. /\ r.type \in {"fix", "dyn"} /\ r.mem \in [0 .. RingSize - 1 -> Byte]
      /\ r.head \in 0 .. RingSize /\ r.tail \in 0 .. RingSize /\ f \in 0 .. RingSize
      /\ r = [type |-> r.type, mem |-> r.mem, head |-> r.head,
              tail |-> r.tail, freesize |-> f]
      /\ u \in 0 .. RingSize /\ u = RingSize - f
      /\ h \in 0 .. RingSize - 1 /\ t \in 0 .. RingSize - 1
  BY <1>0, RingFields
<1>2. /\ q = [r EXCEPT !.head = at + n - s, !.freesize = f + n]
      /\ Take(r, n, wrap).bytes = b
  BY DEF Take, Off, TakeSplit, TakeAt
<1>3. (~wrap => h + n <= RingSize) /\ n \in 0 .. u
  OBVIOUS
<1>4. b = [i \in 1 .. n |-> r.mem[IF i <= s THEN h + i - 1 ELSE at + i - s - 1]]
  OBVIOUS
<1>5. /\ Content(r) \in Seq(Byte) /\ Len(Content(r)) = u
      /\ \A i \in 1 .. u : /\ Wrapped(h + i - 1) \in 0 .. RingSize - 1
                           /\ Content(r)[i] = r.mem[Wrapped(h + i - 1)]
  BY <1>0, ContentAt
<1>. HIDE DEF h, t, u, f, s, at, b, q
<1>6. /\ at + n - s \in 0 .. RingSize /\ Off(at + n - s) = Wrapped(h + n)
      /\ f + n \in 0 .. RingSize /\ RingSize - (f + n) = u - n
      /\ Wrapped(Wrapped(h + n) + (u - n)) = t
  <2>1. Skipped(h, t, u, n, at + n - s)
    <3>1. /\ h \in 0 .. RingSize - 1 /\ u \in 0 .. RingSize /\ t \in 0 .. RingSize - 1
          /\ n \in 0 .. u /\ (~wrap => h + n <= RingSize) /\ Wrapped(h + u) = t
      BY <1>0, <1>1, <1>3, Zenon
    <3>. QED BY <3>1, TakePlan, Zenon DEF s, at
  <2>2. RingSize \in Nat
    BY Sizes
  <2>3. Frees(RingSize, f, u, n)
    <3>1. f \in 0 .. RingSize /\ u \in 0 .. RingSize /\ n \in 0 .. u
      BY <1>1, <1>3, Zenon
    <3>2. u = RingSize - f
      BY <1>1, Zenon
    <3>. QED BY <3>1, <3>2, <2>2, FreeAgain, Zenon
  <2>. QED BY <2>1, <2>3 DEF Skipped, Frees
<1>7. \A i \in 1 .. n :
        (IF i <= s THEN h + i - 1 ELSE at + i - s - 1) = Wrapped(h + i - 1)
  <2>1. /\ h \in 0 .. RingSize - 1 /\ u \in 0 .. RingSize /\ t \in 0 .. RingSize - 1
        /\ n \in 0 .. u /\ (~wrap => h + n <= RingSize) /\ Wrapped(h + u) = t
    BY <1>0, <1>1, <1>3, Zenon
  <2>2. Taken(h, n, at, s)
    BY <2>1, TakePlan, Zenon DEF s, at
  <2>. QED BY <2>2, Zenon DEF Taken
<1>8. q = [type |-> r.type, mem |-> r.mem, head |-> at + n - s, tail |-> r.tail,
           freesize |-> f + n]
  BY <1>1, <1>2
<1>9. /\ q.mem = r.mem /\ q.head = at + n - s /\ q.type = r.type /\ q.tail = r.tail
      /\ q.freesize = f + n
  BY <1>8
<1>10. q \in Ring /\ Used(q) = u - n
  BY <1>1, <1>6, <1>8 DEF Ring, Used
<1>11. RingInv(q)
  BY <1>6, <1>9, <1>10 DEF RingInv, t
<1>12. Content(q) = SubSeq(Content(r), n + 1, Used(r))
  <2>1. /\ Wrapped(Off(r.head) + n) = Off(q.head) /\ Used(q) = Used(r) - n
        /\ n \in 0 .. Used(r)
    BY <1>3, <1>6, <1>9, <1>10 DEF h, u
  <2>. QED BY <1>0, <1>9, <1>10, <2>1, Shrink
<1>13. b = SubSeq(Content(r), 1, n)
  <2>1. PICK c \in Seq(Byte) : c = Content(r)
    BY <1>5
  <2>2. n \in Nat /\ n <= Len(c)
    BY <1>1, <1>3, <1>5, <2>1
  <2>3. /\ SubSeq(c, 1, n) \in Seq(Byte) /\ Len(SubSeq(c, 1, n)) = n
        /\ \A i \in 1 .. n : SubSeq(c, 1, n)[i] = c[i] /\ c[i] \in Byte
    BY <2>2
  <2>4. \A i \in 1 .. n : i \in 1 .. u
    BY <1>1, <1>3
  <2>5. \A i \in 1 .. n : b[i] = c[i]
    BY <1>4, <1>5, <1>7, <2>1, <2>4
  <2>6. b \in [1 .. n -> Byte]
    BY <1>4, <1>5, <1>7, <2>1, <2>3, <2>4
  <2>7. b \in Seq(Byte) /\ Len(b) = n
    BY <2>2, <2>6
  <2>. QED BY <2>1, <2>3, <2>5, <2>7, SeqEq
<1>. QED BY <1>2, <1>6, <1>9, <1>11, <1>12, <1>13 DEF q, f, h

-----------------------------------------------------------------------------
(***************************************************************************)
(* Messages put into the ring and taken out of it, as bytes of its content.*)
(***************************************************************************)
\* The bytes a message is stored as.
Enc(type, m) == IF type = "fix" THEN m ELSE ringbuf_headlen_compress(Len(m)) \o m

\* A message a ring of this type can hold.
Sized(type, m) ==
    /\ m \in Seq(Byte)
    /\ type = "fix" => Len(m) = BlkSize
    /\ type # "fix" => Len(m) > 0 /\ Len(m) <= LEN_3BYTES_MAXVALUE

\* Concatenation is associative.
LEMMA ConcatAssoc ==
    \A a, b, c \in Seq(Byte) : (a \o b) \o c = a \o (b \o c)
OBVIOUS

\* The length field of a message, in front of it.
LEMMA Field ==
    ASSUME NEW m \in Seq(Byte), Sized("dyn", m)
    PROVE  /\ ringbuf_headlen_compress(Len(m)) \in Seq(Byte)
           /\ COMPRESS_LEN(Len(m)) \in 1 .. 3
           /\ Len(ringbuf_headlen_compress(Len(m))) = COMPRESS_LEN(Len(m))
           /\ HeadLen(ringbuf_headlen_compress(Len(m))[1]) = COMPRESS_LEN(Len(m))
           /\ ringbuf_headlen_decompress(ringbuf_headlen_compress(Len(m))) = Len(m)
<1>1. Len(m) \in Nat /\ Len(m) <= LEN_3BYTES_MAXVALUE
  BY DEF Sized
<1>. QED BY <1>1, HeadlenRoundTrip

\* Those bytes take the room of the message, and are not empty.
LEMMA EncProps ==
    ASSUME NEW type \in {"fix", "dyn"}, NEW m, Sized(type, m)
    PROVE  /\ Enc(type, m) \in Seq(Byte) /\ Len(Enc(type, m)) = Room(type, m)
           /\ Room(type, m) \in Nat \ {0}
<1>1. CASE type = "fix"
  BY <1>1, Sizes DEF Enc, Sized, Room
<1>2. CASE type = "dyn"
  <2>. DEFINE hd == ringbuf_headlen_compress(Len(m))
  <2>1. m \in Seq(Byte) /\ Sized("dyn", m) /\ Len(m) > 0
    BY <1>2 DEF Sized
  <2>2. hd \in Seq(Byte) /\ Len(hd) = COMPRESS_LEN(Len(m)) /\ COMPRESS_LEN(Len(m)) \in 1 .. 3
    BY <2>1, Field
  <2>3. Enc(type, m) = hd \o m /\ Room(type, m) = Len(m) + COMPRESS_LEN(Len(m))
    BY <1>2 DEF Enc, Room
  <2>. HIDE DEF hd
  <2>. QED BY <2>1, <2>2, <2>3
<1>. QED BY <1>1, <1>2

\* What ringbuf_push does: the message is behind the content.
Pushed(r, m, q) ==
    /\ RingInv(q) /\ q.type = r.type /\ q.head = r.head
    /\ q.freesize = r.freesize - Room(r.type, m)
    /\ Content(q) = Content(r) \o Enc(r.type, m)

\* ringbuf_push of a message that fits, in either kind of ring: for a "dyn" one the
\* header and the data, each round the end of the memory if need be.
LEMMA PushRing ==
    ASSUME NEW r, RingInv(r), NEW m, Sized(r.type, m), CanPush(r, Len(m))
    PROVE  Pushed(r, m, ringbuf_push(r, m))
<1>0. r \in Ring
  BY DEF RingInv
<1>1. /\ r.type \in {"fix", "dyn"} /\ r.freesize \in Nat /\ m \in Seq(Byte)
      /\ Content(r) \in Seq(Byte)
  BY <1>0, RingFields, ContentAt, Sizes DEF Sized
<1>2. CASE r.type = "fix"
  <2>1. Len(m) <= r.freesize
    BY <1>1, <1>2, Sizes DEF Sized, CanPush, ringbuf_is_full
  <2>2. Room(r.type, m) = Len(m) /\ Enc(r.type, m) = m /\ ringbuf_push(r, m) = Append1(r, m)
    BY <1>1, <1>2 DEF Room, Enc, ringbuf_push
  <2>. QED BY <1>1, <2>1, <2>2, AppendRing DEF Pushed
<1>3. CASE r.type = "dyn"
  <2>1. Sized("dyn", m) /\ r.freesize >= COMPRESS_LEN(Len(m)) + Len(m)
    BY <1>3 DEF CanPush
  <2>2. PICK hd \in Seq(Byte) : /\ hd = ringbuf_headlen_compress(Len(m))
                                /\ Len(hd) = COMPRESS_LEN(Len(m))
    BY <1>1, <2>1, Field
  <2>3. /\ Room(r.type, m) = Len(m) + Len(hd) /\ Enc(r.type, m) = hd \o m
        /\ ringbuf_push(r, m) = Append1(Append1(r, hd), m)
    BY <1>3, <2>2 DEF Room, Enc, ringbuf_push
  <2>4. Len(hd) <= r.freesize /\ Len(m) <= r.freesize - Len(hd)
        /\ r.freesize - Len(hd) - Len(m) = r.freesize - (Len(m) + Len(hd))
    BY <1>1, <2>1, <2>2
  <2>5. PICK q : q = Append1(r, hd)
    OBVIOUS
  <2>6. /\ RingInv(q) /\ q.type = r.type /\ q.head = r.head
        /\ q.freesize = r.freesize - Len(hd) /\ Content(q) = Content(r) \o hd
    BY <2>4, <2>5, AppendRing, Zenon
  <2>7. PICK z : z = Append1(q, m)
    OBVIOUS
  <2>8. /\ RingInv(z) /\ z.type = q.type /\ z.head = q.head
        /\ z.freesize = q.freesize - Len(m) /\ Content(z) = Content(q) \o m
    BY <1>1, <2>4, <2>6, <2>7, AppendRing, Zenon
  <2>9. Content(z) = Content(r) \o (hd \o m)
    <3>1. Content(r) \in Seq(Byte) /\ hd \in Seq(Byte) /\ m \in Seq(Byte)
      BY <1>1
    <3>2. (Content(r) \o hd) \o m = Content(r) \o (hd \o m)
      BY ONLY <3>1, ConcatAssoc, Zenon
    <3>. QED BY <2>6, <2>8, <3>2, Zenon
  <2>10. z.freesize = r.freesize - (Len(m) + Len(hd))
    BY <2>4, <2>6, <2>8, Zenon
  <2>. QED BY <2>3, <2>5, <2>6, <2>7, <2>8, <2>9, <2>10, Zenon DEF Pushed
<1>. QED BY <1>1, <1>2, <1>3

\* The data as ringbuf_head_push lays it out: with its first n bytes at the start
\* of the memory, which comes after the end.
Rotated(m, n) == SubSeq(m, n + 1, Len(m)) \o SubSeq(m, 1, n)

\* A rotated message has the bytes of the message, and is the message when these
\* are all the same.
LEMMA RotatedProps ==
    ASSUME NEW m \in Seq(Byte), NEW n \in 0 .. Len(m)
    PROVE  /\ SubSeq(m, n + 1, Len(m)) \in Seq(Byte) /\ SubSeq(m, 1, n) \in Seq(Byte)
           /\ Len(SubSeq(m, n + 1, Len(m))) = Len(m) - n /\ Len(SubSeq(m, 1, n)) = n
           /\ Rotated(m, n) \in Seq(Byte) /\ Len(Rotated(m, n)) = Len(m)
           /\ (\A i, j \in 1 .. Len(m) : m[i] = m[j]) => Rotated(m, n) = m
           /\ n = 0 => Rotated(m, n) = m
<1>. DEFINE a == SubSeq(m, n + 1, Len(m))
            b == SubSeq(m, 1, n)
            d == Rotated(m, n)
<1>1. /\ a \in Seq(Byte) /\ Len(a) = Len(m) - n
      /\ \A i \in 1 .. Len(m) - n : a[i] = m[n + i]
  OBVIOUS
<1>2. /\ b \in Seq(Byte) /\ Len(b) = n
      /\ \A i \in 1 .. n : b[i] = m[i]
  OBVIOUS
<1>3. d = a \o b
  BY DEF Rotated
<1>. HIDE DEF a, b, d
<1>4. /\ d \in Seq(Byte) /\ Len(d) = Len(a) + Len(b)
      /\ \A i \in 1 .. Len(a) : d[i] = a[i]
      /\ \A i \in 1 .. Len(b) : d[Len(a) + i] = b[i]
  <2>1. a \in Seq(Byte) /\ b \in Seq(Byte)
    BY <1>1, <1>2
  <2>2. /\ a \o b \in Seq(Byte) /\ Len(a \o b) = Len(a) + Len(b)
        /\ \A i \in 1 .. Len(a) : (a \o b)[i] = a[i]
        /\ \A i \in 1 .. Len(b) : (a \o b)[Len(a) + i] = b[i]
    BY ONLY <2>1, Concat, SMT
  <2>. QED BY ONLY <1>3, <2>2, Zenon
<1>5. Len(d) = Len(m)
  <2>1. Len(m) \in Nat /\ n \in 0 .. Len(m)
    OBVIOUS
  <2>. QED BY ONLY <1>1, <1>2, <1>4, <2>1
<1>6. ASSUME NEW i \in 1 .. Len(m)
      PROVE  \E j \in 1 .. Len(m) : d[i] = m[j] /\ (n = 0 => j = i)
  <2>1. CASE i \in 1 .. Len(m) - n
    <3>1. d[i] = m[n + i] /\ n + i \in 1 .. Len(m) /\ (n = 0 => n + i = i)
      BY <1>1, <1>4, <2>1
    <3>. QED BY <3>1
  <2>2. CASE i \notin 1 .. Len(m) - n
    <3>1. i - (Len(m) - n) \in 1 .. n /\ i = (Len(m) - n) + (i - (Len(m) - n))
          /\ i - (Len(m) - n) \in 1 .. Len(m) /\ n # 0
      BY <2>2
    <3>2. d[i] = m[i - (Len(m) - n)]
      BY <1>1, <1>2, <1>4, <3>1
    <3>. QED BY <3>1, <3>2
  <2>. QED BY <2>1, <2>2
<1>7. (\A i, j \in 1 .. Len(m) : m[i] = m[j]) => d = m
  <2>. SUFFICES ASSUME \A i, j \in 1 .. Len(m) : m[i] = m[j] PROVE d = m
    OBVIOUS
  <2>1. \A i \in 1 .. Len(d) : d[i] = m[i]
    BY <1>5, <1>6
  <2>. QED BY <1>4, <1>5, <2>1, SeqEq
<1>8. n = 0 => d = m
  <2>1. n = 0 => \A i \in 1 .. Len(d) : d[i] = m[i]
    BY <1>5, <1>6
  <2>. QED BY <1>4, <1>5, <2>1, SeqEq
<1>. QED BY <1>1, <1>2, <1>4, <1>5, <1>7, <1>8 DEF a, b, d

\* How much of the data ringbuf_head_push puts at the start of the memory.
Turn(r, m) == IF r.type = "fix" THEN 0 ELSE WrapLen(r, Len(m))

\* What ringbuf_head_push does: a message is in front of the content, the one
\* pushed with its first bytes last.
Fronted(r, m, q) ==
    /\ RingInv(q) /\ q.type = r.type
    /\ q.freesize = r.freesize - Room(r.type, m)
    /\ Content(q) = Enc(r.type, Rotated(m, Turn(r, m))) \o Content(r)
    /\ r.type = "fix" => Wrapped(Off(q.head) + BlkSize) = Off(r.head)

\* Not all of the bytes are put at the start of the memory.
LEMMA WrapBelow ==
    ASSUME NEW r \in Ring, NEW n \in Nat \ {0}
    PROVE  WrapLen(r, n) \in 0 .. n - 1
BY RingFields, Sizes DEF WrapLen, FrontPos

\* Prepend with the pieces named.
Before(r, a, b, q) ==
    /\ RingInv(q) /\ q.type = r.type
    /\ q.freesize = r.freesize - (Len(a) + Len(b))
    /\ Wrapped(Off(q.head) + (Len(a) + Len(b))) = Off(r.head)
    /\ Content(q) = (a \o b) \o Content(r)

\* PrependRing with its result named.
LEMMA PrependBefore ==
    ASSUME NEW r, RingInv(r), NEW b \in Seq(Byte), NEW a \in Seq(Byte),
           Len(a) > 0, Len(a) + Len(b) <= r.freesize,
           Len(b) = WrapLen(r, Len(a) + Len(b))
    PROVE  Before(r, a, b, Prepend(r, b, a))
BY ONLY RingInv(r), b \in Seq(Byte), a \in Seq(Byte), Len(a) > 0,
        Len(a) + Len(b) <= r.freesize, Len(b) = WrapLen(r, Len(a) + Len(b)),
        PrependRing, Zenon DEF Before

\* The pieces PrependData and PrependHead make of n bytes are as PrependRing asks.
LEMMA PiecesFit ==
    ASSUME NEW n \in Nat \ {0}, NEW w \in 0 .. n - 1, NEW f \in Nat, n <= f
    PROVE  /\ (n - w) + w = n /\ n - w > 0 /\ (n - w) + w <= f
           /\ n - w \in 0 .. n /\ n - (n - w) = w
OBVIOUS

\* The data of a message put in front of the content: when it wraps, its two pieces
\* are exchanged (ringbuf_head_push copies the wrong part first).
LEMMA PrependDataRing ==
    ASSUME NEW r, RingInv(r), NEW m \in Seq(Byte), Len(m) > 0, Len(m) <= r.freesize
    PROVE  /\ RingInv(PrependData(r, m)) /\ PrependData(r, m).type = r.type
           /\ PrependData(r, m).freesize = r.freesize - Len(m)
           /\ Content(PrependData(r, m)) = Rotated(m, WrapLen(r, Len(m))) \o Content(r)
           /\ Rotated(m, WrapLen(r, Len(m))) \in Seq(Byte)
           /\ Len(Rotated(m, WrapLen(r, Len(m)))) = Len(m)
<1>1. PICK w : w = WrapLen(r, Len(m))
  OBVIOUS
<1>2. PICK a : a = SubSeq(m, w + 1, Len(m))
  OBVIOUS
<1>3. PICK b : b = SubSeq(m, 1, w)
  OBVIOUS
<1>4. r \in Ring /\ r.freesize \in Nat
  BY RingFields, Sizes DEF RingInv
<1>5. Len(m) \in Nat \ {0} /\ w \in 0 .. Len(m) - 1 /\ w \in 0 .. Len(m)
  <2>1. Len(m) \in Nat \ {0}
    OBVIOUS
  <2>2. w \in 0 .. Len(m) - 1
    BY ONLY <1>1, <1>4, <2>1, WrapBelow
  <2>. QED BY ONLY <2>1, <2>2
<1>6. /\ a \in Seq(Byte) /\ b \in Seq(Byte) /\ Len(a) = Len(m) - w /\ Len(b) = w
      /\ Rotated(m, w) = a \o b
      /\ Rotated(m, w) \in Seq(Byte) /\ Len(Rotated(m, w)) = Len(m)
  <2>1. m \in Seq(Byte)
    OBVIOUS
  <2>. QED BY ONLY <1>2, <1>3, <1>5, <2>1, RotatedProps, Zenon DEF Rotated
<1>7. Len(a) > 0 /\ Len(a) + Len(b) <= r.freesize /\ Len(a) + Len(b) = Len(m)
  <2>1. Len(m) <= r.freesize
    OBVIOUS
  <2>. QED BY ONLY <1>4, <1>5, <1>6, <2>1, PiecesFit
<1>8. PrependData(r, m) = Prepend(r, b, a)
  BY ONLY <1>1, <1>2, <1>3, Zenon DEF PrependData
<1>9. Before(r, a, b, Prepend(r, b, a))
  <2>1. RingInv(r)
    OBVIOUS
  <2>2. Len(b) = WrapLen(r, Len(a) + Len(b))
    BY ONLY <1>1, <1>6, <1>7, Zenon
  <2>. QED BY ONLY <1>6, <1>7, <2>1, <2>2, PrependBefore, Zenon
<1>. QED BY ONLY <1>1, <1>6, <1>7, <1>8, <1>9, Zenon DEF Before

\* The header of a message put in front of the content: its pieces are in order.
LEMMA PrependHeadRing ==
    ASSUME NEW r, RingInv(r), NEW hd \in Seq(Byte), Len(hd) > 0, Len(hd) <= r.freesize
    PROVE  /\ RingInv(PrependHead(r, hd)) /\ PrependHead(r, hd).type = r.type
           /\ PrependHead(r, hd).freesize = r.freesize - Len(hd)
           /\ Content(PrependHead(r, hd)) = hd \o Content(r)
<1>1. PICK w : w = WrapLen(r, Len(hd))
  OBVIOUS
<1>2. PICK k : k = Len(hd) - w
  OBVIOUS
<1>3. PICK a : a = SubSeq(hd, 1, k)
  OBVIOUS
<1>4. PICK b : b = SubSeq(hd, k + 1, Len(hd))
  OBVIOUS
<1>5. r \in Ring /\ r.freesize \in Nat
  BY RingFields, Sizes DEF RingInv
<1>6. Len(hd) \in Nat \ {0} /\ w \in 0 .. Len(hd) - 1 /\ k \in 0 .. Len(hd)
  <2>1. Len(hd) \in Nat \ {0}
    OBVIOUS
  <2>2. w \in 0 .. Len(hd) - 1
    BY ONLY <1>1, <1>5, <2>1, WrapBelow
  <2>. QED BY ONLY <1>2, <2>1, <2>2
<1>7. hd \in Seq(Byte)
  OBVIOUS
<1>8. /\ a \in Seq(Byte) /\ b \in Seq(Byte) /\ Len(a) = k /\ Len(b) = Len(hd) - k
      /\ hd = a \o b
  <2>1. /\ a \in Seq(Byte) /\ b \in Seq(Byte) /\ Len(a) = k /\ Len(b) = Len(hd) - k
        /\ \A i \in 1 .. k : hd[i] = a[i]
        /\ \A i \in 1 .. Len(hd) - k : hd[k + i] = b[i]
    BY ONLY <1>3, <1>4, <1>6, <1>7
  <2>2. Len(hd) = Len(a) + Len(b)
    BY ONLY <1>6, <2>1
  <2>3. hd = a \o b
    <3>1. /\ \A i \in 1 .. Len(a) : hd[i] = a[i]
          /\ \A i \in 1 .. Len(b) : hd[Len(a) + i] = b[i]
      BY ONLY <2>1, Zenon
    <3>2. a \in Seq(Byte) /\ b \in Seq(Byte)
      BY ONLY <2>1, Zenon
    <3>. QED BY ONLY <1>7, <2>2, <3>1, <3>2, ConcatEq, Zenon
  <2>. QED BY ONLY <2>1, <2>3, Zenon
<1>9. Len(a) > 0 /\ Len(a) + Len(b) <= r.freesize /\ Len(a) + Len(b) = Len(hd) /\ Len(b) = w
  <2>1. Len(hd) <= r.freesize
    OBVIOUS
  <2>. QED BY ONLY <1>2, <1>5, <1>6, <1>8, <2>1
<1>10. PrependHead(r, hd) = Prepend(r, b, a)
  BY ONLY <1>1, <1>2, <1>3, <1>4, Zenon DEF PrependHead
<1>11. Before(r, a, b, Prepend(r, b, a))
  <2>1. RingInv(r)
    OBVIOUS
  <2>2. Len(b) = WrapLen(r, Len(a) + Len(b))
    BY ONLY <1>1, <1>9, Zenon
  <2>. QED BY ONLY <1>8, <1>9, <2>1, <2>2, PrependBefore, Zenon
<1>. QED BY ONLY <1>8, <1>9, <1>10, <1>11, Zenon DEF Before

\* A block that is put at the end of the memory, or in front of head, does not wrap.
LEMMA HeadPushRing ==
    ASSUME NEW r, RingInv(r), NEW m, Sized(r.type, m), CanPush(r, Len(m)),
           r.type = "fix" => BlkSize <= FrontPos(r)
    PROVE  Fronted(r, m, ringbuf_head_push(r, m))
<1>0. r \in Ring
  BY DEF RingInv
<1>1. /\ r.type \in {"fix", "dyn"} /\ r.freesize \in Nat /\ m \in Seq(Byte)
      /\ Content(r) \in Seq(Byte)
  BY <1>0, RingFields, ContentAt, Sizes DEF Sized
<1>2. CASE r.type = "fix"
  <2>1. Len(m) <= r.freesize /\ Len(m) = BlkSize /\ Len(m) > 0
    BY <1>1, <1>2, Sizes DEF Sized, CanPush, ringbuf_is_full
  <2>2. /\ Room(r.type, m) = Len(m) /\ Turn(r, m) = 0
        /\ ringbuf_head_push(r, m) = Prepend(r, <<>>, m)
        /\ Enc(r.type, Rotated(m, 0)) = Rotated(m, 0)
    BY <1>1, <1>2 DEF Room, Enc, ringbuf_head_push, Turn
  <2>3. Rotated(m, 0) = m /\ 0 \in 0 .. Len(m)
    <3>1. 0 \in 0 .. Len(m)
      BY <1>1
    <3>. QED BY ONLY <1>1, <3>1, RotatedProps, Zenon
  <2>4. /\ <<>> \in Seq(Byte) /\ Len(<<>>) = 0 /\ Len(m) + Len(<<>>) = Len(m)
        /\ m \o <<>> = m
    BY <1>1
  <2>5. WrapLen(r, Len(m)) = 0
    <3>1. BlkSize <= FrontPos(r) /\ FrontPos(r) \in Nat
      BY <1>0, <1>2, RingFields, Sizes DEF FrontPos
    <3>. QED BY ONLY <2>1, <3>1, Sizes DEF WrapLen
  <2>6. Before(r, m, <<>>, Prepend(r, <<>>, m))
    <3>1. Len(<<>>) = WrapLen(r, Len(m) + Len(<<>>)) /\ Len(m) + Len(<<>>) <= r.freesize
      BY ONLY <2>1, <2>4, <2>5, Zenon
    <3>2. RingInv(r)
      OBVIOUS
    <3>. QED BY ONLY <1>1, <2>1, <2>4, <3>1, <3>2, PrependBefore, Zenon
  <2>. QED BY ONLY <2>1, <2>2, <2>3, <2>4, <2>6, Zenon DEF Before, Fronted
<1>3. CASE r.type = "dyn"
  <2>1. /\ Sized("dyn", m) /\ r.freesize >= COMPRESS_LEN(Len(m)) + Len(m)
        /\ Len(m) \in Nat \ {0}
    BY <1>3 DEF CanPush, Sized
  <2>2. PICK hd \in Seq(Byte) : /\ hd = ringbuf_headlen_compress(Len(m))
                                /\ Len(hd) = COMPRESS_LEN(Len(m)) /\ Len(hd) \in 1 .. 3
    BY <1>1, <2>1, Field
  <2>3. PICK w : w = WrapLen(r, Len(m))
    OBVIOUS
  <2>4. PICK d : d = Rotated(m, w)
    OBVIOUS
  <2>5. /\ Len(m) <= r.freesize /\ Len(m) > 0
        /\ Len(hd) <= r.freesize - Len(m) /\ Len(hd) > 0
        /\ r.freesize - Len(m) - Len(hd) = r.freesize - (Len(m) + Len(hd))
    BY ONLY <1>1, <2>1, <2>2
  <2>6. PICK q : q = PrependData(r, m)
    OBVIOUS
  <2>7. RingInv(r)
    OBVIOUS
  <2>8. /\ RingInv(q) /\ q.type = r.type /\ q.freesize = r.freesize - Len(m)
        /\ Content(q) = d \o Content(r) /\ d \in Seq(Byte) /\ Len(d) = Len(m)
    BY ONLY <1>1, <2>3, <2>4, <2>5, <2>6, <2>7, PrependDataRing, Zenon
  <2>9. PICK z : z = PrependHead(q, hd)
    OBVIOUS
  <2>10. Len(hd) <= q.freesize
    BY ONLY <2>5, <2>8, Zenon
  <2>11. /\ RingInv(z) /\ z.type = q.type /\ z.freesize = q.freesize - Len(hd)
         /\ Content(z) = hd \o Content(q)
    BY ONLY <2>2, <2>5, <2>8, <2>9, <2>10, PrependHeadRing, Zenon
  <2>12. Content(z) = (hd \o d) \o Content(r)
    <3>1. (hd \o d) \o Content(r) = hd \o (d \o Content(r))
      BY ONLY <1>1, <2>2, <2>8, ConcatAssoc, Zenon
    <3>. QED BY ONLY <2>8, <2>11, <3>1, Zenon
  <2>13. /\ Room(r.type, m) = Len(m) + Len(hd) /\ Enc(r.type, d) = hd \o d
         /\ Turn(r, m) = w /\ ringbuf_head_push(r, m) = z /\ r.type # "fix"
    BY ONLY <1>3, <2>2, <2>3, <2>6, <2>8, <2>9 DEF Room, Enc, Turn, ringbuf_head_push
  <2>14. z.freesize = r.freesize - (Len(m) + Len(hd))
    BY ONLY <2>5, <2>8, <2>11, Zenon
  <2>. QED BY ONLY <2>4, <2>8, <2>11, <2>12, <2>13, <2>14, Zenon DEF Fronted
<1>. QED BY <1>1, <1>2, <1>3

\* Take with the result named.
Took(r, n, p) ==
    /\ RingInv(p.ring) /\ p.ring.type = r.type /\ p.ring.tail = r.tail
    /\ p.ring.freesize = r.freesize + n
    /\ Off(p.ring.head) = Wrapped(Off(r.head) + n)
    /\ p.bytes = SubSeq(Content(r), 1, n)
    /\ Content(p.ring) = SubSeq(Content(r), n + 1, Used(r))

\* TakeRing with its result named.
LEMMA TakeTook ==
    ASSUME NEW r, RingInv(r), NEW n \in 0 .. Used(r), NEW wrap \in BOOLEAN,
           ~wrap => Off(r.head) + n <= RingSize
    PROVE  Took(r, n, Take(r, n, wrap))
BY ONLY RingInv(r), n \in 0 .. Used(r), wrap \in BOOLEAN,
        ~wrap => Off(r.head) + n <= RingSize, TakeRing, Zenon DEF Took

\* The bytes of a, then those of b, at the front of c.
LEMMA FrontOf ==
    ASSUME NEW a \in Seq(Byte), NEW b \in Seq(Byte), NEW c \in Seq(Byte),
           Len(a) + Len(b) <= Len(c),
           \A j \in 1 .. Len(a) + Len(b) : c[j] = (a \o b)[j]
    PROVE  /\ SubSeq(c, 1, Len(a)) = a
           /\ SubSeq(SubSeq(c, Len(a) + 1, Len(c)), 1, Len(b)) = b
<1>. DEFINE x == SubSeq(c, 1, Len(a))
            y == SubSeq(c, Len(a) + 1, Len(c))
            z == SubSeq(y, 1, Len(b))
<1>1. x \in Seq(Byte) /\ Len(x) = Len(a) /\ \A j \in 1 .. Len(a) : x[j] = c[j]
  OBVIOUS
<1>2. /\ y \in Seq(Byte) /\ Len(y) = Len(c) - Len(a)
      /\ \A j \in 1 .. Len(c) - Len(a) : y[j] = c[Len(a) + j]
  OBVIOUS
<1>3. a \in Seq(Byte) /\ b \in Seq(Byte) /\ Len(a) \in Nat /\ Len(b) \in Nat
      /\ Len(c) \in Nat /\ Len(a) + Len(b) <= Len(c)
  OBVIOUS
<1>4. \A j \in 1 .. Len(a) + Len(b) : c[j] = (a \o b)[j]
  OBVIOUS
<1>. HIDE DEF x, y
<1>5. z \in Seq(Byte) /\ Len(z) = Len(b) /\ \A j \in 1 .. Len(b) : z[j] = y[j]
  BY ONLY <1>2, <1>3
<1>. HIDE DEF z
<1>6. /\ \A i \in 1 .. Len(a) : (a \o b)[i] = a[i]
      /\ \A i \in 1 .. Len(b) : (a \o b)[Len(a) + i] = b[i]
  BY ONLY <1>3, Concat, SMT
<1>7. \A j \in 1 .. Len(a) : x[j] = a[j]
  BY ONLY <1>1, <1>3, <1>4, <1>6
<1>8. \A j \in 1 .. Len(b) : z[j] = b[j]
  <2>1. ASSUME NEW j \in 1 .. Len(b) PROVE z[j] = b[j]
    <3>1. /\ j \in 1 .. Len(b) /\ j \in 1 .. Len(c) - Len(a)
          /\ Len(a) + j \in 1 .. Len(a) + Len(b)
      BY ONLY <1>3, j \in 1 .. Len(b)
    <3>2. z[j] = y[j] /\ y[j] = c[Len(a) + j] /\ c[Len(a) + j] = (a \o b)[Len(a) + j]
          /\ (a \o b)[Len(a) + j] = b[j]
      BY ONLY <1>2, <1>4, <1>5, <1>6, <3>1, Zenon
    <3>. QED BY ONLY <3>2, Zenon
  <2>. QED BY <2>1
<1>9. x = a /\ z = b
  BY ONLY <1>1, <1>3, <1>5, <1>7, <1>8, SeqEq, Zenon
<1>. QED BY <1>9 DEF x, y, z

\* Dropping twice is dropping once.
LEMMA DropTwice ==
    ASSUME NEW c \in Seq(Byte), NEW n \in 0 .. Len(c), NEW k \in 0 .. Len(c) - n
    PROVE  SubSeq(SubSeq(c, n + 1, Len(c)), k + 1, Len(c) - n) = SubSeq(c, k + n + 1, Len(c))
<1>. DEFINE y == SubSeq(c, n + 1, Len(c))
            z == SubSeq(y, k + 1, Len(c) - n)
            w == SubSeq(c, k + n + 1, Len(c))
<1>1. /\ y \in Seq(Byte) /\ Len(y) = Len(c) - n
      /\ \A j \in 1 .. Len(c) - n : y[j] = c[n + j]
  OBVIOUS
<1>2. /\ w \in Seq(Byte) /\ Len(w) = Len(c) - n - k
      /\ \A j \in 1 .. Len(c) - n - k : w[j] = c[n + (k + j)]
  OBVIOUS
<1>3. Len(c) \in Nat /\ n \in 0 .. Len(c) /\ k \in 0 .. Len(c) - n
  OBVIOUS
<1>. HIDE DEF y, w
<1>4. /\ z \in Seq(Byte) /\ Len(z) = Len(c) - n - k
      /\ \A j \in 1 .. Len(c) - n - k : z[j] = y[k + j]
  BY ONLY <1>1, <1>3
<1>. HIDE DEF z
<1>5. \A j \in 1 .. Len(c) - n - k : z[j] = w[j]
  BY ONLY <1>1, <1>2, <1>3, <1>4
<1>6. z = w
  BY ONLY <1>2, <1>4, <1>5, SeqEq, SMT
<1>. QED BY <1>6 DEF y, z, w

\* A message at the front of the content of a ring.
First(r, m) ==
    /\ Sized(r.type, m) /\ Room(r.type, m) <= Used(r)
    /\ \A j \in 1 .. Room(r.type, m) : Content(r)[j] = Enc(r.type, m)[j]

\* What ringbuf_pop does.
Popped(r, m, p) ==
    /\ RingInv(p.ring) /\ p.ring.type = r.type
    /\ p.ring.freesize = r.freesize + Room(r.type, m)
    /\ Off(p.ring.head) = Wrapped(Off(r.head) + Room(r.type, m))
    /\ p.bytes = m
    /\ Content(p.ring) = SubSeq(Content(r), Room(r.type, m) + 1, Used(r))

\* A message that is not split although the ring is used beyond it: the bytes in
\* use go from head to tail and not over the end of the memory.
LEMMA NoWrap ==
    ASSUME NEW q, RingInv(q), NEW n \in Nat, n <= Used(q), q.freesize > 0,
           ~(Off(q.head) > q.tail)
    PROVE  Off(q.head) + n <= RingSize
<1>1. /\ Off(q.head) \in 0 .. RingSize - 1 /\ q.tail \in 0 .. RingSize
      /\ Used(q) \in 0 .. RingSize /\ Used(q) = RingSize - q.freesize
      /\ q.freesize \in 0 .. RingSize
      /\ Wrapped(Off(q.head) + Used(q)) = Off(q.tail)
  BY RingFields DEF RingInv
<1>. QED BY <1>1, Sizes DEF Wrapped, Off

\* A ring whose first bytes are a message gives that message.
LEMMA PopRing ==
    ASSUME NEW r, RingInv(r), NEW m, First(r, m),
           r.type = "fix" => Off(r.head) + BlkSize <= RingSize
    PROVE  Popped(r, m, ringbuf_pop(r))
<1>1. PICK c : c = Content(r)
  OBVIOUS
<1>2. PICK h : h = Off(r.head)
  OBVIOUS
<1>3. /\ RingInv(r) /\ r \in Ring /\ r.type \in {"fix", "dyn"}
      /\ Used(r) \in 0 .. RingSize /\ Used(r) = RingSize - r.freesize /\ r.freesize \in 0 .. RingSize
      /\ h \in 0 .. RingSize - 1 /\ Wrapped(h + Used(r)) = Off(r.tail)
  BY <1>2, RingFields DEF RingInv
<1>4. c \in Seq(Byte) /\ Len(c) = Used(r)
  BY <1>1, <1>3, ContentAt
<1>5. /\ Sized(r.type, m) /\ Room(r.type, m) <= Used(r) /\ m \in Seq(Byte)
      /\ \A j \in 1 .. Room(r.type, m) : c[j] = Enc(r.type, m)[j]
  BY <1>1 DEF First, Sized
<1>6. CASE r.type = "fix"
  <2>1. /\ Len(m) = BlkSize /\ Room(r.type, m) = BlkSize /\ Enc(r.type, m) = m
        /\ ringbuf_pop(r) = Take(r, BlkSize, FALSE) /\ h + BlkSize <= RingSize
    BY <1>2, <1>5, <1>6 DEF Sized, Room, Enc, ringbuf_pop
  <2>2. BlkSize \in 0 .. Used(r) /\ FALSE \in BOOLEAN
    BY ONLY <1>3, <1>5, <2>1, Sizes
  <2>3. Took(r, BlkSize, Take(r, BlkSize, FALSE))
    BY ONLY <1>2, <1>3, <2>1, <2>2, TakeTook, Zenon
  <2>4. SubSeq(c, 1, BlkSize) = m
    <3>1. m \in Seq(Byte) /\ <<>> \in Seq(Byte) /\ m \o <<>> = m /\ Len(<<>>) = 0
          /\ Len(m) + Len(<<>>) = Len(m) /\ Len(m) <= Len(c)
      BY ONLY <1>4, <1>5, <2>1
    <3>2. \A j \in 1 .. Len(m) + Len(<<>>) : c[j] = (m \o <<>>)[j]
      BY ONLY <1>5, <2>1, <3>1, Zenon
    <3>3. SubSeq(c, 1, Len(m)) = m
      BY ONLY <1>4, <3>1, <3>2, FrontOf, ZenonT(30)
    <3>. QED BY ONLY <2>1, <3>3, Zenon
  <2>. QED BY ONLY <1>1, <2>1, <2>3, <2>4, Zenon DEF Took, Popped
<1>7. CASE r.type = "dyn"
  <2>1. Sized("dyn", m) /\ Len(m) \in Nat \ {0}
    BY ONLY <1>5, <1>7 DEF Sized
  <2>2. PICK hd \in Seq(Byte) :
          /\ hd = ringbuf_headlen_compress(Len(m)) /\ Len(hd) = COMPRESS_LEN(Len(m))
          /\ Len(hd) \in 1 .. 3 /\ HeadLen(hd[1]) = Len(hd)
          /\ ringbuf_headlen_decompress(hd) = Len(m)
    BY <1>5, <2>1, Field
  <2>3. /\ Room(r.type, m) = Len(m) + Len(hd) /\ Enc(r.type, m) = hd \o m
    BY ONLY <1>7, <2>2 DEF Room, Enc
  <2>4. /\ Len(hd) + Len(m) <= Len(c) /\ Len(hd) + Len(m) = Len(m) + Len(hd)
        /\ Len(hd) \in 0 .. Used(r) /\ TRUE \in BOOLEAN
        /\ Len(m) \in 0 .. Used(r) - Len(hd) /\ Len(hd) \in 0 .. Len(c)
        /\ Len(m) \in 0 .. Len(c) - Len(hd)
    BY ONLY <1>3, <1>4, <1>5, <2>1, <2>2, <2>3
  <2>5. \A j \in 1 .. Len(hd) + Len(m) : c[j] = (hd \o m)[j]
    BY ONLY <1>5, <2>3, <2>4, Zenon
  <2>6. SubSeq(c, 1, Len(hd)) = hd /\ SubSeq(SubSeq(c, Len(hd) + 1, Len(c)), 1, Len(m)) = m
    BY ONLY <1>4, <1>5, <2>2, <2>4, <2>5, FrontOf, Zenon
  <2>7. r.mem[h] = hd[1]
    <3>1. 1 \in 1 .. Used(r) /\ h + 1 - 1 = h /\ Wrapped(h) = h
      BY ONLY <1>3, <2>2, <2>4, Sizes, SMTT(30) DEF Wrapped
    <3>2. c[1] = r.mem[h]
      BY ONLY <1>1, <1>2, <1>3, <3>1, ContentAt, SMT
    <3>3. SubSeq(c, 1, Len(hd))[1] = c[1]
      BY ONLY <1>4, <2>2, <2>4
    <3>. QED BY ONLY <2>6, <3>2, <3>3, Zenon
  <2>8. PICK t : t = Take(r, Len(hd), TRUE)
    OBVIOUS
  <2>9. Took(r, Len(hd), t)
    BY ONLY <1>3, <2>4, <2>8, TakeTook, Zenon
  <2>10. /\ RingInv(t.ring) /\ t.ring.type = r.type /\ t.ring.tail = r.tail
         /\ t.ring.freesize = r.freesize + Len(hd)
         /\ Off(t.ring.head) = Wrapped(h + Len(hd)) /\ t.bytes = hd
         /\ Content(t.ring) = SubSeq(c, Len(hd) + 1, Len(c))
    BY ONLY <1>1, <1>2, <1>4, <2>6, <2>9, Zenon DEF Took
  <2>11. TakeLen(r) = [len |-> Len(m), ring |-> t.ring]
    BY ONLY <1>2, <2>2, <2>7, <2>8, <2>10, Zenon DEF TakeLen, Off
  <2>12. PICK q : q = t.ring
    OBVIOUS
  <2>13. PICK w \in BOOLEAN : w = (Off(q.head) > q.tail)
    <3>1. (Off(q.head) > q.tail) \in BOOLEAN
      OBVIOUS
    <3>. QED BY ONLY <3>1, Zenon
  <2>14. ringbuf_pop(r) = Take(q, Len(m), w)
    <3>1. TakeLen(r).len = Len(m) /\ TakeLen(r).ring = q
      BY ONLY <2>11, <2>12
    <3>2. r.type # "fix"
      BY ONLY <1>7
    <3>. QED BY ONLY <2>13, <3>1, <3>2, Zenon DEF ringbuf_pop, Off
  <2>15. Used(q) = Used(r) - Len(hd) /\ q.freesize > 0 /\ Len(m) \in 0 .. Used(q)
         /\ Len(m) <= Used(q) /\ Len(m) \in Nat
    <3>1. Used(q) = RingSize - (r.freesize + Len(hd)) /\ q.freesize = r.freesize + Len(hd)
      BY ONLY <2>10, <2>12, Zenon DEF Used
    <3>2. PICK u \in 0 .. RingSize : u = Used(r) /\ u = RingSize - r.freesize
      BY ONLY <1>3, Zenon
    <3>3. PICK f \in 0 .. RingSize : f = r.freesize
      BY ONLY <1>3, Zenon
    <3>4. PICK e \in 1 .. 3 : e = Len(hd)
      BY ONLY <2>2, Zenon
    <3>5. PICK l \in Nat : l = Len(m)
      BY ONLY <2>1
    <3>6. l \in 0 .. u - e /\ u = RingSize - f
      BY ONLY <2>4, <3>2, <3>3, <3>4, <3>5, Zenon
    <3>7. RingSize - (f + e) = u - e /\ f + e > 0 /\ l \in 0 .. u - e /\ l <= u - e
      BY ONLY <3>6, Sizes, f \in 0 .. RingSize, u \in 0 .. RingSize, e \in 1 .. 3, l \in Nat
    <3>. QED BY ONLY <3>1, <3>2, <3>3, <3>4, <3>5, <3>7, l \in Nat, Zenon
  <2>16. ~w => Off(q.head) + Len(m) <= RingSize
    BY ONLY <2>10, <2>12, <2>13, <2>15, NoWrap, Zenon
  <2>17. PICK p : p = Take(q, Len(m), w)
    OBVIOUS
  <2>18. Took(q, Len(m), p)
    BY ONLY <2>10, <2>12, <2>13, <2>15, <2>16, <2>17, TakeTook, Zenon
  <2>19. /\ RingInv(p.ring) /\ p.ring.type = r.type
         /\ p.ring.freesize = r.freesize + Len(hd) + Len(m)
         /\ Off(p.ring.head) = Wrapped(Wrapped(h + Len(hd)) + Len(m))
         /\ p.bytes = m
         /\ Content(p.ring) = SubSeq(SubSeq(c, Len(hd) + 1, Len(c)), Len(m) + 1, Len(c) - Len(hd))
    BY ONLY <1>4, <2>6, <2>10, <2>12, <2>15, <2>18, Zenon DEF Took
  <2>20. r.freesize + Len(hd) + Len(m) = r.freesize + (Len(m) + Len(hd))
    BY ONLY <1>3, <2>1, <2>2
  <2>21. Wrapped(Wrapped(h + Len(hd)) + Len(m)) = Wrapped(h + (Len(m) + Len(hd)))
    <3>1. /\ Len(hd) \in Nat /\ Len(m) \in Nat /\ Len(m) + Len(hd) <= RingSize
          /\ h \in 0 .. RingSize - 1
      BY ONLY <1>3, <1>4, <2>1, <2>2, <2>4, Sizes
    <3>. QED BY ONLY <3>1, WrappedTwice, Zenon
  <2>22. SubSeq(SubSeq(c, Len(hd) + 1, Len(c)), Len(m) + 1, Len(c) - Len(hd))
           = SubSeq(c, Len(m) + Len(hd) + 1, Len(c))
    BY ONLY <1>4, <2>4, DropTwice, Zenon
  <2>. QED BY ONLY <1>1, <1>2, <1>4, <2>3, <2>14, <2>17, <2>19, <2>20, <2>21, <2>22, Zenon DEF Popped
<1>. QED BY <1>3, <1>6, <1>7

-----------------------------------------------------------------------------
(***************************************************************************)
(* A content that is pieces one after the other: f gives where each ends.  *)
(***************************************************************************)
Cut(c, es, f) ==
    /\ f \in [0 .. Len(es) -> 0 .. Len(c)]
    /\ f[0] = 0 /\ f[Len(es)] = Len(c)
    /\ \A i \in 1 .. Len(es) :
         /\ f[i] = f[i - 1] + Len(es[i])
         /\ \A j \in 1 .. Len(es[i]) : c[f[i - 1] + j] = es[i][j]
    /\ \A i, j \in 0 .. Len(es) : i <= j => j - i <= f[j] - f[i]

\* No pieces.
LEMMA CutNone == Cut(<<>>, <<>>, [i \in {0} |-> 0])
<1>1. Len(<<>>) = 0 /\ 0 .. 0 = {0} /\ 1 .. 0 = {}
  OBVIOUS
<1>. QED BY <1>1 DEF Cut

\* No piece is empty, so there are no more pieces than bytes.
LEMMA CutLen ==
    ASSUME NEW c \in Seq(Byte), NEW es \in Seq(Seq(Byte)), NEW f, Cut(c, es, f)
    PROVE  Len(es) <= Len(c) /\ (Len(es) = 0 <=> Len(c) = 0)
<1>1. Len(es) \in Nat /\ Len(c) \in Nat
  OBVIOUS
<1>2. /\ f[0] = 0 /\ f[Len(es)] = Len(c)
      /\ \A i, j \in 0 .. Len(es) : i <= j => j - i <= f[j] - f[i]
  BY DEF Cut
<1>3. Len(es) <= Len(c)
  <2>1. 0 \in 0 .. Len(es) /\ Len(es) \in 0 .. Len(es) /\ 0 <= Len(es)
    BY ONLY <1>1
  <2>2. Len(es) - 0 <= Len(c) - 0
    BY ONLY <1>2, <2>1, Zenon
  <2>. QED BY ONLY <1>1, <2>2
<1>. QED BY ONLY <1>1, <1>2, <1>3

\* A piece more at the end.
LEMMA CutBack ==
    ASSUME NEW c \in Seq(Byte), NEW es \in Seq(Seq(Byte)), NEW f, Cut(c, es, f),
           NEW e \in Seq(Byte), Len(e) > 0
    PROVE  \E g : Cut(c \o e, Append(es, e), g)
<1>1. PICK n \in Nat : n = Len(es)
  OBVIOUS
<1>2. PICK x \in Nat : x = Len(c)
  OBVIOUS
<1>3. PICK y \in Nat : y = Len(e) /\ y > 0
  OBVIOUS
<1>4. PICK d : d = c \o e
  OBVIOUS
<1>5. PICK fs : fs = Append(es, e)
  OBVIOUS
<1>6. /\ d \in Seq(Byte) /\ Len(d) = x + y
      /\ \A i \in 1 .. x : d[i] = c[i]
      /\ \A i \in 1 .. y : d[x + i] = e[i]
  <2>1. c \in Seq(Byte) /\ e \in Seq(Byte)
    OBVIOUS
  <2>. QED BY ONLY <1>2, <1>3, <1>4, <2>1, Concat, SMT
<1>7. /\ Len(fs) = n + 1 /\ \A i \in 1 .. n : fs[i] = es[i]
      /\ fs[n + 1] = e
  BY <1>1, <1>5
<1>8. Cut(c, es, f)
  OBVIOUS
<1>9. f \in [0 .. n -> 0 .. x] /\ f[0] = 0 /\ f[n] = x
  BY ONLY <1>1, <1>2, <1>8, Zenon DEF Cut
<1>10. \A i \in 1 .. n : f[i] = f[i - 1] + Len(es[i])
  BY ONLY <1>1, <1>8, Zenon DEF Cut
<1>11. \A i \in 1 .. n : \A j \in 1 .. Len(es[i]) : c[f[i - 1] + j] = es[i][j]
  BY ONLY <1>1, <1>8, Zenon DEF Cut
<1>12. \A i, j \in 0 .. n : i <= j => j - i <= f[j] - f[i]
  BY ONLY <1>1, <1>8, Zenon DEF Cut
<1>13. \A i \in 1 .. n : es[i] \in Seq(Byte) /\ Len(es[i]) \in Nat
  BY <1>1
<1>14. PICK g : g = [i \in 0 .. n + 1 |-> IF i = n + 1 THEN x + y ELSE f[i]]
  OBVIOUS
<1>15. \A i \in 0 .. n : f[i] \in 0 .. x /\ i \in 0 .. n + 1 /\ i # n + 1
  BY ONLY <1>9, n \in Nat
<1>16. /\ g \in [0 .. n + 1 -> 0 .. x + y]
       /\ g[n + 1] = x + y
       /\ \A i \in 0 .. n : g[i] = f[i]
  BY ONLY <1>14, <1>15, n \in Nat, x \in Nat, y \in Nat
<1>17. g[0] = 0
  BY ONLY <1>9, <1>16, n \in Nat
<1>18. ASSUME NEW i \in 1 .. n + 1
       PROVE  /\ g[i] = g[i - 1] + Len(fs[i])
              /\ \A j \in 1 .. Len(fs[i]) : d[g[i - 1] + j] = fs[i][j]
  <2>1. CASE i = n + 1
    <3>1. i - 1 = n /\ n \in 0 .. n
      BY ONLY <2>1, n \in Nat
    <3>2. g[i - 1] = x /\ fs[i] = e /\ Len(fs[i]) = y /\ g[i] = x + y
      BY ONLY <1>3, <1>7, <1>9, <1>16, <2>1, <3>1, Zenon
    <3>. QED BY ONLY <1>6, <3>2, Zenon
  <2>2. CASE i # n + 1
    <3>1. i \in 1 .. n /\ i \in 0 .. n /\ i - 1 \in 0 .. n
      BY ONLY <2>2, n \in Nat, i \in 1 .. n + 1
    <3>2. g[i - 1] = f[i - 1] /\ fs[i] = es[i] /\ g[i] = f[i]
      BY ONLY <1>7, <1>16, <3>1, Zenon
    <3>3. ASSUME NEW j \in 1 .. Len(es[i]) PROVE d[f[i - 1] + j] = es[i][j]
      <4>1. f[i - 1] \in 0 .. x /\ f[i] \in 0 .. x /\ f[i] = f[i - 1] + Len(es[i])
            /\ Len(es[i]) \in Nat
        BY ONLY <1>10, <1>13, <1>15, <3>1, Zenon
      <4>2. PICK a \in 0 .. x : a = f[i - 1]
        BY ONLY <4>1, Zenon
      <4>3. PICK l \in Nat : l = Len(es[i])
        BY ONLY <4>1, Zenon
      <4>4. a + l \in 0 .. x /\ j \in 1 .. l
        BY ONLY <4>1, <4>2, <4>3, j \in 1 .. Len(es[i]), Zenon
      <4>5. a + j \in 1 .. x
        BY ONLY <4>4, a \in 0 .. x, l \in Nat, x \in Nat
      <4>. QED BY ONLY <1>6, <1>11, <3>1, <4>2, <4>5, j \in 1 .. Len(es[i]), Zenon
    <3>. QED BY ONLY <1>10, <3>1, <3>2, <3>3, Zenon
  <2>. QED BY <2>1, <2>2
<1>19. \A i, j \in 0 .. n + 1 : i <= j => j - i <= g[j] - g[i]
  <2>1. ASSUME NEW i \in 0 .. n + 1, NEW j \in 0 .. n + 1, i <= j
        PROVE  j - i <= g[j] - g[i]
    <3>1. CASE j # n + 1
      <4>1. i \in 0 .. n /\ j \in 0 .. n
        BY ONLY <3>1, n \in Nat, i \in 0 .. n + 1, j \in 0 .. n + 1, i <= j
      <4>. QED BY ONLY <1>12, <1>16, <4>1, i <= j, Zenon
    <3>2. CASE j = n + 1 /\ i # n + 1
      <4>1. i \in 0 .. n /\ n \in 0 .. n /\ i <= n
        BY ONLY <3>2, n \in Nat, i \in 0 .. n + 1
      <4>2. n - i <= x - f[i] /\ f[i] \in 0 .. x /\ g[i] = f[i] /\ g[j] = x + y
        BY ONLY <1>9, <1>12, <1>15, <1>16, <3>2, <4>1, Zenon
      <4>3. y > 0 /\ y \in Nat
        BY ONLY <1>3, y \in Nat
      <4>. QED BY ONLY <3>2, <4>1, <4>2, <4>3, n \in Nat, x \in Nat
    <3>3. CASE j = n + 1 /\ i = n + 1
      BY ONLY <1>16, <3>3, n \in Nat, x \in Nat, y \in Nat
    <3>. QED BY <3>1, <3>2, <3>3
  <2>. QED BY <2>1
<1>20. Cut(d, fs, g)
  BY ONLY <1>6, <1>7, <1>16, <1>17, <1>18, <1>19, Zenon DEF Cut
<1>. QED BY ONLY <1>4, <1>5, <1>20, Zenon

\* A piece more at the front.
LEMMA CutFront ==
    ASSUME NEW c \in Seq(Byte), NEW es \in Seq(Seq(Byte)), NEW f, Cut(c, es, f),
           NEW e \in Seq(Byte), Len(e) > 0
    PROVE  \E g : Cut(e \o c, <<e>> \o es, g)
<1>1. PICK n \in Nat : n = Len(es)
  OBVIOUS
<1>2. PICK x \in Nat : x = Len(c)
  OBVIOUS
<1>3. PICK y \in Nat : y = Len(e) /\ y > 0
  OBVIOUS
<1>4. PICK d : d = e \o c
  OBVIOUS
<1>5. PICK fs : fs = <<e>> \o es
  OBVIOUS
<1>6. /\ d \in Seq(Byte) /\ Len(d) = y + x
      /\ \A i \in 1 .. y : d[i] = e[i]
      /\ \A i \in 1 .. x : d[y + i] = c[i]
  <2>1. c \in Seq(Byte) /\ e \in Seq(Byte)
    OBVIOUS
  <2>. QED BY ONLY <1>2, <1>3, <1>4, <2>1, Concat, SMT
<1>7. /\ Len(fs) = n + 1 /\ fs[1] = e
      /\ \A i \in 1 .. n : fs[i + 1] = es[i]
  <2>1. /\ es \in Seq(Seq(Byte)) /\ <<e>> \in Seq(Seq(Byte)) /\ Len(<<e>>) = 1
        /\ <<e>>[1] = e
    OBVIOUS
  <2>2. /\ Len(<<e>> \o es) = 1 + n /\ (<<e>> \o es)[1] = e
        /\ \A i \in 1 .. n : (<<e>> \o es)[1 + i] = es[i]
    BY ONLY <1>1, <2>1, Concat, n \in Nat
  <2>3. 1 + n = n + 1 /\ \A i \in 1 .. n : 1 + i = i + 1
    BY ONLY n \in Nat
  <2>. QED BY ONLY <1>5, <2>2, <2>3, Zenon
<1>8. Cut(c, es, f)
  OBVIOUS
<1>9. f \in [0 .. n -> 0 .. x] /\ f[0] = 0 /\ f[n] = x
  BY ONLY <1>1, <1>2, <1>8, Zenon DEF Cut
<1>10. \A i \in 1 .. n : f[i] = f[i - 1] + Len(es[i])
  BY ONLY <1>1, <1>8, Zenon DEF Cut
<1>11. \A i \in 1 .. n : \A j \in 1 .. Len(es[i]) : c[f[i - 1] + j] = es[i][j]
  BY ONLY <1>1, <1>8, Zenon DEF Cut
<1>12. \A i, j \in 0 .. n : i <= j => j - i <= f[j] - f[i]
  BY ONLY <1>1, <1>8, Zenon DEF Cut
<1>13. \A i \in 1 .. n : es[i] \in Seq(Byte) /\ Len(es[i]) \in Nat
  BY <1>1
<1>14. PICK g : g = [i \in 0 .. n + 1 |-> IF i = 0 THEN 0 ELSE y + f[i - 1]]
  OBVIOUS
<1>15. \A i \in 0 .. n : f[i] \in 0 .. x /\ i + 1 \in 0 .. n + 1 /\ i + 1 # 0 /\ i + 1 - 1 = i
  BY ONLY <1>9, n \in Nat
<1>16. \A i \in 0 .. n : g[i + 1] = y + f[i]
  BY ONLY <1>14, n \in Nat
<1>17. g \in [0 .. n + 1 -> 0 .. y + x] /\ g[0] = 0 /\ g[n + 1] = y + x
  <2>1. g[0] = 0
    BY ONLY <1>14, n \in Nat
  <2>2. \A i \in 0 .. n + 1 : g[i] \in 0 .. y + x
    <3>1. ASSUME NEW i \in 0 .. n + 1, i # 0 PROVE g[i] \in 0 .. y + x
      <4>1. i - 1 \in 0 .. n /\ (i - 1) + 1 = i
        BY ONLY <3>1, n \in Nat, i \in 0 .. n + 1
      <4>2. g[i] = y + f[i - 1] /\ f[i - 1] \in 0 .. x
        BY ONLY <1>15, <1>16, <4>1, Zenon
      <4>. QED BY ONLY <4>2, y \in Nat, x \in Nat
    <3>2. 0 \in 0 .. y + x
      BY ONLY y \in Nat, x \in Nat
    <3>. QED BY ONLY <2>1, <3>1, <3>2, Zenon
  <2>3. n \in 0 .. n
    BY ONLY n \in Nat
  <2>4. g[n + 1] = y + x
    BY ONLY <1>9, <1>16, <2>3, Zenon
  <2>5. g = [i \in 0 .. n + 1 |-> g[i]]
    BY ONLY <1>14
  <2>. QED BY ONLY <2>1, <2>2, <2>4, <2>5
<1>18. ASSUME NEW i \in 1 .. n + 1
       PROVE  /\ g[i] = g[i - 1] + Len(fs[i])
              /\ \A j \in 1 .. Len(fs[i]) : d[g[i - 1] + j] = fs[i][j]
  <2>1. CASE i = 1
    <3>1. 1 - 1 = 0 /\ 0 \in 0 .. n /\ 0 + 1 = 1 /\ y + 0 = y /\ 0 + y = y
          /\ \A j \in 1 .. y : 0 + j = j
      BY ONLY n \in Nat, y \in Nat
    <3>2. g[i - 1] = 0 /\ fs[i] = e /\ Len(fs[i]) = y /\ g[i] = y
      BY ONLY <1>3, <1>7, <1>9, <1>16, <1>17, <2>1, <3>1, Zenon
    <3>3. g[i] = g[i - 1] + Len(fs[i])
      BY ONLY <3>1, <3>2, Zenon
    <3>4. ASSUME NEW j \in 1 .. Len(fs[i]) PROVE d[g[i - 1] + j] = fs[i][j]
      <4>1. j \in 1 .. y /\ 0 + j = j
        BY ONLY <3>1, <3>2, j \in 1 .. Len(fs[i]), Zenon
      <4>2. d[0 + j] = e[j]
        BY ONLY <1>6, <4>1, Zenon
      <4>. QED BY ONLY <3>2, <4>2, Zenon
    <3>. QED BY ONLY <3>3, <3>4, Zenon
  <2>2. CASE i # 1
    <3>1. PICK k \in 1 .. n : k + 1 = i
      <4>1. i - 1 \in 1 .. n /\ (i - 1) + 1 = i
        BY ONLY <2>2, n \in Nat, i \in 1 .. n + 1
      <4>. QED BY ONLY <4>1, Zenon
    <3>2. k - 1 \in 0 .. n /\ k \in 0 .. n /\ i - 1 = (k - 1) + 1
      BY ONLY <3>1, n \in Nat, k \in 1 .. n
    <3>3. /\ g[i - 1] = y + f[k - 1] /\ fs[i] = es[k] /\ g[i] = y + f[k]
          /\ f[k - 1] \in 0 .. x /\ f[k] \in 0 .. x /\ f[k] = f[k - 1] + Len(es[k])
          /\ Len(es[k]) \in Nat
      BY ONLY <1>7, <1>10, <1>13, <1>15, <1>16, <3>1, <3>2, Zenon
    <3>4. PICK a \in 0 .. x : a = f[k - 1]
      BY ONLY <3>3, Zenon
    <3>5. PICK l \in Nat : l = Len(es[k])
      BY ONLY <3>3, Zenon
    <3>6. a + l \in 0 .. x /\ g[i] = y + (a + l) /\ g[i - 1] = y + a
      BY ONLY <3>3, <3>4, <3>5, Zenon
    <3>7. y + (a + l) = (y + a) + l
      BY ONLY y \in Nat, a \in 0 .. x, l \in Nat, x \in Nat
    <3>8. ASSUME NEW j \in 1 .. l PROVE d[(y + a) + j] = es[k][j]
      <4>1. a + j \in 1 .. x /\ (y + a) + j = y + (a + j)
        BY ONLY <3>6, a \in 0 .. x, l \in Nat, x \in Nat, y \in Nat, j \in 1 .. l
      <4>2. c[a + j] = es[k][j]
        BY ONLY <1>11, <3>4, <3>5, k \in 1 .. n, j \in 1 .. l, Zenon
      <4>. QED BY ONLY <1>6, <4>1, <4>2, Zenon
    <3>. QED BY ONLY <3>3, <3>5, <3>6, <3>7, <3>8, Zenon
  <2>. QED BY <2>1, <2>2
<1>19. \A i, j \in 0 .. n + 1 : i <= j => j - i <= g[j] - g[i]
  <2>1. ASSUME NEW i \in 0 .. n + 1, NEW j \in 0 .. n + 1, i <= j
        PROVE  j - i <= g[j] - g[i]
    <3>1. CASE i # 0
      <4>1. i - 1 \in 0 .. n /\ j - 1 \in 0 .. n /\ i - 1 <= j - 1
            /\ (i - 1) + 1 = i /\ (j - 1) + 1 = j
        BY ONLY <2>1, <3>1, n \in Nat, i \in 0 .. n + 1, j \in 0 .. n + 1
      <4>2. /\ (j - 1) - (i - 1) <= f[j - 1] - f[i - 1]
            /\ g[j] = y + f[j - 1] /\ g[i] = y + f[i - 1]
            /\ f[j - 1] \in 0 .. x /\ f[i - 1] \in 0 .. x
        BY ONLY <1>12, <1>15, <1>16, <4>1, Zenon
      <4>. QED BY ONLY <4>2, n \in Nat, x \in Nat, y \in Nat, i \in 0 .. n + 1, j \in 0 .. n + 1
    <3>2. CASE i = 0 /\ j # 0
      <4>1. j - 1 \in 0 .. n /\ 0 \in 0 .. n /\ 0 <= j - 1 /\ (j - 1) + 1 = j
        BY ONLY <3>2, n \in Nat, j \in 0 .. n + 1
      <4>2. /\ (j - 1) - 0 <= f[j - 1] - 0 /\ f[j - 1] \in 0 .. x
            /\ g[j] = y + f[j - 1] /\ g[i] = 0
        BY ONLY <1>9, <1>12, <1>15, <1>16, <1>17, <3>2, <4>1, Zenon
      <4>3. y > 0 /\ y \in Nat
        BY ONLY <1>3, y \in Nat
      <4>. QED BY ONLY <3>2, <4>2, <4>3, n \in Nat, x \in Nat, j \in 0 .. n + 1
    <3>3. CASE i = 0 /\ j = 0
      BY ONLY <1>17, <3>3
    <3>. QED BY <3>1, <3>2, <3>3
  <2>. QED BY <2>1
<1>20. Cut(d, fs, g)
  BY ONLY <1>6, <1>7, <1>17, <1>18, <1>19, Zenon DEF Cut
<1>. QED BY ONLY <1>4, <1>5, <1>20, Zenon

\* The first piece taken off.
LEMMA CutTail ==
    ASSUME NEW c \in Seq(Byte), NEW es \in Seq(Seq(Byte)), NEW f, Cut(c, es, f),
           Len(es) > 0
    PROVE  /\ Len(es[1]) <= Len(c) /\ \A j \in 1 .. Len(es[1]) : c[j] = es[1][j]
           /\ \E g : Cut(SubSeq(c, Len(es[1]) + 1, Len(c)), Tail(es), g)
<1>1. PICK n \in Nat : n + 1 = Len(es)
  <2>1. Len(es) \in Nat /\ Len(es) - 1 \in Nat /\ (Len(es) - 1) + 1 = Len(es)
    OBVIOUS
  <2>. QED BY ONLY <2>1, Zenon
<1>2. PICK z \in Nat : z = Len(c)
  OBVIOUS
<1>3. \A i \in 1 .. n + 1 : es[i] \in Seq(Byte) /\ Len(es[i]) \in Nat
  BY <1>1
<1>4. 1 \in 1 .. n + 1 /\ 0 \in 0 .. n + 1 /\ 1 \in 0 .. n + 1 /\ n + 1 \in 0 .. n + 1
      /\ 1 - 1 = 0 /\ 1 <= n + 1
  BY ONLY n \in Nat
<1>5. PICK y \in Nat : y = Len(es[1])
  BY ONLY <1>3, <1>4, Zenon
<1>8. Cut(c, es, f)
  OBVIOUS
<1>9. f \in [0 .. n + 1 -> 0 .. z] /\ f[0] = 0 /\ f[n + 1] = z
  BY ONLY <1>1, <1>2, <1>8, Zenon DEF Cut
<1>10. \A i \in 1 .. n + 1 : f[i] = f[i - 1] + Len(es[i])
  BY ONLY <1>1, <1>8, Zenon DEF Cut
<1>11. \A i \in 1 .. n + 1 : \A j \in 1 .. Len(es[i]) : c[f[i - 1] + j] = es[i][j]
  BY ONLY <1>1, <1>8, Zenon DEF Cut
<1>12. \A i, j \in 0 .. n + 1 : i <= j => j - i <= f[j] - f[i]
  BY ONLY <1>1, <1>8, Zenon DEF Cut
<1>13. \A i \in 0 .. n + 1 : f[i] \in 0 .. z
  BY ONLY <1>9
<1>14. f[1] = y /\ y \in 0 .. z /\ \A j \in 1 .. y : c[j] = es[1][j]
  <2>1. f[1] = 0 + y /\ 0 + y = y /\ \A j \in 1 .. y : 0 + j = j
    <3>1. 0 + y = y /\ \A j \in 1 .. y : 0 + j = j
      BY ONLY y \in Nat
    <3>. QED BY ONLY <1>4, <1>5, <1>9, <1>10, <3>1, Zenon
  <2>2. \A j \in 1 .. y : c[0 + j] = es[1][j]
    <3>1. \A j \in 1 .. Len(es[1]) : c[f[1 - 1] + j] = es[1][j]
      BY ONLY <1>4, <1>11, Zenon
    <3>2. f[1 - 1] = 0
      BY ONLY <1>4, <1>9, Zenon
    <3>. QED BY ONLY <1>5, <3>1, <3>2, Zenon
  <2>. QED BY ONLY <1>4, <1>13, <2>1, <2>2, Zenon
<1>15. PICK d : d = SubSeq(c, y + 1, z)
  OBVIOUS
<1>16. /\ d \in Seq(Byte) /\ Len(d) = z - y
       /\ \A j \in 1 .. z - y : d[j] = c[y + j]
  <2>1. c \in Seq(Byte)
    OBVIOUS
  <2>. QED BY ONLY <1>2, <1>14, <1>15, <2>1, y \in Nat, z \in Nat
<1>17. PICK fs : fs = Tail(es)
  OBVIOUS
<1>18. Len(fs) = n /\ \A i \in 1 .. n : fs[i] = es[i + 1]
  BY <1>1, <1>17
<1>19. \A i \in 0 .. n : f[i + 1] \in y .. z
  <2>1. ASSUME NEW i \in 0 .. n PROVE f[i + 1] \in y .. z
    <3>1. i + 1 \in 0 .. n + 1 /\ 1 <= i + 1
      BY ONLY n \in Nat, i \in 0 .. n
    <3>2. (i + 1) - 1 <= f[i + 1] - y /\ f[i + 1] \in 0 .. z
      BY ONLY <1>4, <1>12, <1>13, <1>14, <3>1, Zenon
    <3>. QED BY ONLY <3>2, n \in Nat, i \in 0 .. n, y \in Nat, z \in Nat
  <2>. QED BY <2>1
<1>20. PICK g : g = [i \in 0 .. n |-> f[i + 1] - y]
  OBVIOUS
<1>21. \A i \in 0 .. n : g[i] = f[i + 1] - y /\ f[i + 1] - y \in 0 .. z - y
  <2>1. \A i \in 0 .. n : g[i] = f[i + 1] - y
    BY ONLY <1>20, Zenon
  <2>2. ASSUME NEW i \in 0 .. n PROVE f[i + 1] - y \in 0 .. z - y
    <3>1. PICK a \in y .. z : a = f[i + 1]
      BY ONLY <1>19, i \in 0 .. n, Zenon
    <3>2. a - y \in 0 .. z - y
      BY ONLY a \in y .. z, y \in Nat, z \in Nat
    <3>. QED BY ONLY <3>1, <3>2, Zenon
  <2>. QED BY <2>1, <2>2, Zenon
<1>22. g \in [0 .. n -> 0 .. z - y] /\ g[0] = 0 /\ g[n] = z - y
  <2>1. 0 \in 0 .. n /\ n \in 0 .. n /\ 0 + 1 = 1 /\ y - y = 0
    BY ONLY n \in Nat, y \in Nat
  <2>2. g = [i \in 0 .. n |-> g[i]]
    BY ONLY <1>20
  <2>3. g \in [0 .. n -> 0 .. z - y]
    BY ONLY <1>21, <2>2, Zenon
  <2>. QED BY ONLY <1>9, <1>14, <1>21, <2>1, <2>3, Zenon
<1>23. ASSUME NEW i \in 1 .. n
       PROVE  /\ g[i] = g[i - 1] + Len(fs[i])
              /\ \A j \in 1 .. Len(fs[i]) : d[g[i - 1] + j] = fs[i][j]
  <2>1. /\ i \in 0 .. n /\ i - 1 \in 0 .. n /\ (i - 1) + 1 = i /\ i + 1 \in 1 .. n + 1
        /\ (i + 1) - 1 = i
    BY ONLY n \in Nat, i \in 1 .. n
  <2>2. PICK a \in y .. z : a = f[i]
    BY ONLY <1>19, <2>1, Zenon
  <2>3. PICK l \in Nat : l = Len(es[i + 1])
    BY ONLY <1>3, <2>1, Zenon
  <2>4. g[i - 1] = a - y /\ g[i] = (a + l) - y /\ (a + l) \in y .. z
    BY ONLY <1>10, <1>19, <1>21, <2>1, <2>2, <2>3, Zenon
  <2>5. (a + l) - y = (a - y) + l
    BY ONLY a \in y .. z, l \in Nat, y \in Nat, z \in Nat
  <2>6. ASSUME NEW j \in 1 .. l PROVE d[(a - y) + j] = es[i + 1][j]
    <3>1. (a - y) + j \in 1 .. z - y /\ y + ((a - y) + j) = a + j
      BY ONLY <2>4, a \in y .. z, l \in Nat, y \in Nat, z \in Nat, j \in 1 .. l
    <3>2. c[a + j] = es[i + 1][j]
      BY ONLY <1>11, <2>1, <2>2, <2>3, j \in 1 .. l, Zenon
    <3>. QED BY ONLY <1>16, <3>1, <3>2, Zenon
  <2>. QED BY ONLY <1>18, <2>3, <2>4, <2>5, <2>6, i \in 1 .. n, Zenon
<1>24. \A i, j \in 0 .. n : i <= j => j - i <= g[j] - g[i]
  <2>1. ASSUME NEW i \in 0 .. n, NEW j \in 0 .. n, i <= j
        PROVE  j - i <= g[j] - g[i]
    <3>1. i + 1 \in 0 .. n + 1 /\ j + 1 \in 0 .. n + 1 /\ i + 1 <= j + 1
      BY ONLY <2>1, n \in Nat, i \in 0 .. n, j \in 0 .. n
    <3>2. /\ (j + 1) - (i + 1) <= f[j + 1] - f[i + 1]
          /\ g[j] = f[j + 1] - y /\ g[i] = f[i + 1] - y
          /\ f[j + 1] \in y .. z /\ f[i + 1] \in y .. z
      BY ONLY <1>12, <1>19, <1>21, <3>1, i \in 0 .. n, j \in 0 .. n, Zenon
    <3>. QED BY ONLY <3>2, n \in Nat, y \in Nat, z \in Nat, i \in 0 .. n, j \in 0 .. n
  <2>. QED BY <2>1
<1>25. Cut(d, fs, g)
  BY ONLY <1>16, <1>18, <1>22, <1>23, <1>24, Zenon DEF Cut
<1>26. y <= z
  BY ONLY <1>14, y \in Nat, z \in Nat
<1>. QED BY ONLY <1>2, <1>5, <1>14, <1>15, <1>17, <1>25, <1>26, Zenon

-----------------------------------------------------------------------------
(***************************************************************************)
(* Reading a content as messages.  MessagesFrom is a recursive function:   *)
(* that it exists, and what it is at the start of a message, is proved by  *)
(* induction on the bytes that are left, and the induction by the least    *)
(* counterexample.                                                         *)
(***************************************************************************)
LEMMA SetInduction ==
    ASSUME NEW S, 0 \in S, \A n \in Nat : n \in S => n + 1 \in S
    PROVE  \A n \in Nat : n \in S
<1>. DEFINE D == {n \in Nat : n \notin S}
<1>1. ASSUME D # {} PROVE FALSE
  <2>1. PICK m \in D : \A y \in D : m <= y
    <3>1. D \in SUBSET Nat
      OBVIOUS
    <3>. HIDE DEF D
    <3>. QED BY <1>1, <3>1, NatMin
  <2>2. m \in Nat /\ m \notin S /\ m # 0
    OBVIOUS
  <2>3. m - 1 \in Nat /\ (m - 1) + 1 = m /\ ~(m <= m - 1)
    BY <2>2
  <2>4. m - 1 \in S
    BY <2>1, <2>3
  <2>. QED BY <2>2, <2>3, <2>4
<1>. QED BY <1>1

\* The bytes of a length field decompress to a number.
LEMMA DecompressInt ==
    ASSUME NEW b \in Seq(Byte), Len(b) \in 1 .. 3
    PROVE  ringbuf_headlen_decompress(b) \in Int
<1>1. PICK q \in Nat \ {0} : ByteMod = 4 * q /\ ByteMod \div 4 = q
  BY Quarters
<1>2. ByteMod \in Nat /\ \A i \in 1 .. Len(b) : b[i] \in Int
  BY Sizes DEF Byte
<1>3. b[1] \in Nat
  <2>1. 1 \in 1 .. Len(b)
    OBVIOUS
  <2>2. b[1] \in Byte
    BY ONLY <2>1, b \in Seq(Byte)
  <2>. QED BY ONLY <2>2, Sizes DEF Byte
<1>4. b[1] % q \in Int
  BY ONLY <1>3, q \in Nat \ {0}
<1>5. CASE Len(b) = 1
  BY <1>3, <1>5 DEF ringbuf_headlen_decompress
<1>6. CASE Len(b) = 2
  <2>1. PICK x \in Int, y \in Int : x = b[1] % q /\ y = b[2]
    BY <1>2, <1>4, <1>6
  <2>2. ringbuf_headlen_decompress(b) = x * ByteMod + y
    BY ONLY <1>1, <1>6, <2>1 DEF ringbuf_headlen_decompress
  <2>. QED BY ONLY <1>2, <2>2, x \in Int, y \in Int
<1>7. CASE Len(b) = 3
  <2>1. PICK x \in Int, y \in Int, z \in Int : x = b[1] % q /\ y = b[2] /\ z = b[3]
    BY <1>2, <1>4, <1>7
  <2>2. ringbuf_headlen_decompress(b) = (x * ByteMod + y) * ByteMod + z
    BY ONLY <1>1, <1>7, <2>1 DEF ringbuf_headlen_decompress
  <2>. QED BY ONLY <1>2, <2>2, x \in Int, y \in Int, z \in Int
<1>. QED BY <1>5, <1>6, <1>7

\* The message after a whole one has fewer bytes left.
LEMMA WholeBack ==
    ASSUME NEW type, NEW c \in Seq(Byte), NEW k \in 0 .. Len(c), Whole(type, c, k)
    PROVE  k - LenBytes(type, c, k) - MsgSize(type, c, k) \in 0 .. k - 1
<1>1. PICK l : l = LenBytes(type, c, k)
  OBVIOUS
<1>2. PICK s : s = MsgSize(type, c, k)
  OBVIOUS
<1>3. k > 0 /\ l <= k /\ s > 0 /\ l + s <= k
  BY <1>1, <1>2 DEF Whole
<1>4. l \in 0 .. 3 /\ (type # "fix" => l \in 1 .. 3)
  BY <1>1 DEF LenBytes, HeadLen
<1>5. s \in Int
  <2>1. CASE type = "fix"
    BY <1>2, <2>1, Sizes DEF MsgSize
  <2>2. CASE type # "fix"
    <3>1. s = ringbuf_headlen_decompress(SubSeq(c, Len(c) - k + 1, Len(c) - k + l))
      BY <1>1, <1>2, <2>2 DEF MsgSize
    <3>2. PICK a \in Nat : a = Len(c) - k
      <4>1. Len(c) \in Nat /\ k \in 0 .. Len(c)
        OBVIOUS
      <4>2. Len(c) - k \in Nat
        BY ONLY <4>1
      <4>. QED BY ONLY <4>2, Zenon
    <3>3. a + l <= Len(c) /\ c \in Seq(Byte) /\ l \in 1 .. 3
      BY <1>3, <1>4, <2>2, <3>2
    <3>4. SubSeq(c, a + 1, a + l) \in Seq(Byte) /\ Len(SubSeq(c, a + 1, a + l)) = l
      BY ONLY <3>3, a \in Nat
    <3>. QED BY ONLY <3>1, <3>2, <3>3, <3>4, DecompressInt, Zenon
  <2>. QED BY <2>1, <2>2
<1>6. k - l - s \in 0 .. k - 1
  <2>1. k \in Nat
    OBVIOUS
  <2>. QED BY ONLY <1>3, <1>4, <1>5, <2>1
<1>. QED BY ONLY <1>1, <1>2, <1>6, Zenon

\* So a step only looks at what is read of fewer bytes.
LEMMA StepLocal ==
    ASSUME NEW type, NEW c \in Seq(Byte), NEW k \in 0 .. Len(c), NEW g, NEW h,
           \A j \in 0 .. k - 1 : g[j] = h[j]
    PROVE  MessageStep(type, c, g, k) = MessageStep(type, c, h, k)
<1>1. CASE Whole(type, c, k)
  <2>1. k - LenBytes(type, c, k) - MsgSize(type, c, k) \in 0 .. k - 1
    BY <1>1, WholeBack
  <2>2. g[k - LenBytes(type, c, k) - MsgSize(type, c, k)]
          = h[k - LenBytes(type, c, k) - MsgSize(type, c, k)]
    BY <2>1, Zenon
  <2>. QED BY <1>1, <2>2, Zenon DEF MessageStep
<1>2. CASE ~Whole(type, c, k)
  BY <1>2, Zenon DEF MessageStep
<1>. QED BY <1>1, <1>2

\* MessagesFrom exists: it satisfies its recursion.
LEMMA MessagesFromIs ==
    ASSUME NEW type, NEW c \in Seq(Byte)
    PROVE  \A k \in 0 .. Len(c) :
             MessagesFrom(type, c)[k] = MessageStep(type, c, MessagesFrom(type, c), k)
<1>. DEFINE S == {n \in Nat : n <= Len(c) => \E g : Solves(type, c, g, n)}
<1>1. 0 \in S
  <2>. DEFINE g == [k \in 0 .. 0 |-> MessageStep(type, c, <<>>, k)]
  <2>1. \A k \in 0 .. 0 : \A j \in 0 .. k - 1 : g[j] = <<>>[j]
    OBVIOUS
  <2>2. \A k \in 0 .. 0 : k \in 0 .. Len(c)
    OBVIOUS
  <2>3. \A k \in 0 .. 0 : MessageStep(type, c, <<>>, k) = MessageStep(type, c, g, k)
    <3>. HIDE DEF g
    <3>. QED BY <2>1, <2>2, StepLocal
  <2>4. Solves(type, c, g, 0)
    BY <2>3 DEF Solves
  <2>. QED BY <2>4
<1>2. ASSUME NEW n \in Nat, n \in S PROVE n + 1 \in S
  <2>. SUFFICES ASSUME n + 1 <= Len(c) PROVE \E h : Solves(type, c, h, n + 1)
    OBVIOUS
  <2>0. n <= Len(c) /\ Len(c) \in Nat
    OBVIOUS
  <2>1. PICK g : Solves(type, c, g, n)
    BY <1>2, <2>0
  <2>2. \A k \in 0 .. n : g[k] = MessageStep(type, c, g, k)
    BY <2>1 DEF Solves
  <2>. DEFINE h == [k \in 0 .. n + 1 |-> MessageStep(type, c, g, k)]
  <2>3. \A k \in 0 .. n : h[k] = g[k]
    BY <2>2
  <2>4. h = [k \in 0 .. n + 1 |-> MessageStep(type, c, g, k)]
    OBVIOUS
  <2>. HIDE DEF h
  <2>5. ASSUME NEW k \in 0 .. n + 1
        PROVE  MessageStep(type, c, g, k) = MessageStep(type, c, h, k)
    <3>1. k \in 0 .. Len(c) /\ \A j \in 0 .. k - 1 : j \in 0 .. n
      BY <2>0
    <3>2. \A j \in 0 .. k - 1 : g[j] = h[j]
      BY <2>3, <3>1
    <3>. QED BY <3>1, <3>2, StepLocal, Zenon
  <2>6. Solves(type, c, h, n + 1)
    BY <2>4, <2>5, Zenon DEF Solves
  <2>. QED BY <2>6
<1>3. \A n \in Nat : n \in S
  <2>. HIDE DEF S
  <2>. QED BY <1>1, <1>2, SetInduction
<1>4. PICK g : Solves(type, c, g, Len(c))
  BY <1>3
<1>5. Solves(type, c, MessagesFrom(type, c), Len(c))
  BY <1>4, MessagesFromFix, Zenon
<1>. QED BY <1>5, Zenon DEF Solves

\* A piece of a sequence.
LEMMA PieceAt ==
    ASSUME NEW c \in Seq(Byte), NEW p \in Nat, NEW a \in Seq(Byte),
           p + Len(a) <= Len(c), \A j \in 1 .. Len(a) : c[p + j] = a[j]
    PROVE  SubSeq(c, p + 1, p + Len(a)) = a
<1>. DEFINE b == SubSeq(c, p + 1, p + Len(a))
<1>1. PICK n \in Nat : n = Len(a)
  OBVIOUS
<1>2. c \in Seq(Byte) /\ p + n <= Len(c) /\ a \in Seq(Byte)
  BY <1>1
<1>3. /\ b \in Seq(Byte) /\ Len(b) = n
      /\ \A j \in 1 .. n : b[j] = c[p + j]
  BY ONLY <1>1, <1>2, p \in Nat, n \in Nat
<1>4. \A j \in 1 .. n : c[p + j] = a[j]
  BY <1>1
<1>. HIDE DEF b
<1>5. Len(b) = Len(a) /\ \A j \in 1 .. Len(b) : b[j] = a[j]
  BY ONLY <1>1, <1>3, <1>4, Zenon
<1>6. b = a
  BY ONLY <1>2, <1>3, <1>5, SeqEq, Zenon
<1>. QED BY <1>6 DEF b

\* The bytes of a message stand p bytes after the start of c.
Bears(type, c, p, m) ==
    /\ p + Room(type, m) <= Len(c)
    /\ \A j \in 1 .. Room(type, m) : c[p + j] = Enc(type, m)[j]

\* There, the message is read and then what comes after it.
Reads(type, c, p, m, g) ==
    MessageStep(type, c, g, Len(c) - p) = <<m>> \o g[Len(c) - (p + Room(type, m))]

\* One step of MessagesFrom, where the content bears a message: the length in its
\* header is that of the message, and the data follows.
LEMMA MessageAt ==
    ASSUME NEW type \in {"fix", "dyn"}, NEW c \in Seq(Byte), NEW p \in Nat,
           NEW m, Sized(type, m), Bears(type, c, p, m), NEW g
    PROVE  Reads(type, c, p, m, g)
<1>0. m \in Seq(Byte) /\ c \in Seq(Byte) /\ Len(c) \in Nat /\ Len(m) \in Nat
  BY DEF Sized
<1>1. PICK k : k = Len(c) - p
  OBVIOUS
<1>2. PICK R : R = Room(type, m)
  OBVIOUS
<1>3. R \in Nat \ {0} /\ p + R <= Len(c) /\ Len(c) - k = p /\ k \in Nat /\ R <= k /\ k > 0
  <2>1. R \in Nat \ {0}
    BY <1>2, EncProps
  <2>2. p + R <= Len(c)
    BY <1>2 DEF Bears
  <2>. QED BY ONLY <1>0, <1>1, <2>1, <2>2, p \in Nat
<1>4. CASE type = "fix"
  <2>1. LenBytes(type, c, k) = 0 /\ MsgSize(type, c, k) = BlkSize /\ Len(m) = BlkSize
        /\ R = BlkSize /\ Enc(type, m) = m
    BY <1>2, <1>4 DEF LenBytes, MsgSize, Sized, Room, Enc
  <2>2. Whole(type, c, k)
    BY ONLY <1>3, <2>1, Sizes DEF Whole
  <2>3. \A j \in 1 .. Len(m) : c[p + j] = m[j]
    BY <1>2, <2>1 DEF Bears
  <2>4. SubSeq(c, p + 1, p + Len(m)) = m
    BY ONLY <1>0, <1>3, <2>1, <2>3, PieceAt, p \in Nat, Zenon
  <2>5. p + 0 + 1 = p + 1 /\ p + 0 + BlkSize = p + BlkSize /\ k - 0 - BlkSize = Len(c) - (p + R)
    BY ONLY <1>0, <1>1, <2>1, p \in Nat, Sizes
  <2>6. MessageStep(type, c, g, k) =
          <<SubSeq(c, p + 0 + 1, p + 0 + BlkSize)>> \o g[k - 0 - BlkSize]
    BY ONLY <1>3, <2>1, <2>2, Zenon DEF MessageStep
  <2>. QED BY ONLY <1>1, <1>2, <2>1, <2>4, <2>5, <2>6, Zenon DEF Reads
<1>5. CASE type = "dyn"
  <2>1. Sized("dyn", m) /\ Len(m) > 0
    BY <1>5 DEF Sized
  <2>2. PICK hd \in Seq(Byte) :
          /\ hd = ringbuf_headlen_compress(Len(m)) /\ Len(hd) = COMPRESS_LEN(Len(m))
          /\ Len(hd) \in 1 .. 3 /\ HeadLen(hd[1]) = Len(hd)
          /\ ringbuf_headlen_decompress(hd) = Len(m)
    BY ONLY <1>0, <2>1, Field, Zenon
  <2>3. PICK l \in 1 .. 3 : l = Len(hd)
    BY ONLY <2>2, Zenon
  <2>4. PICK s \in Nat \ {0} : s = Len(m)
    BY ONLY <1>0, <2>1
  <2>5. R = s + l /\ Enc(type, m) = hd \o m
    BY ONLY <1>2, <1>5, <2>2, <2>3, <2>4 DEF Room, Enc
  <2>6. \A j \in 1 .. s + l : c[p + j] = (hd \o m)[j]
    BY <1>2, <2>5 DEF Bears
  <2>7. /\ \A i \in 1 .. l : (hd \o m)[i] = hd[i]
        /\ \A i \in 1 .. s : (hd \o m)[l + i] = m[i]
    <3>1. hd \in Seq(Byte)
      BY <2>2
    <3>. QED BY ONLY <1>0, <3>1, <2>3, <2>4, Concat, SMT
  <2>8. /\ \A i \in 1 .. l : i \in 1 .. s + l
        /\ \A i \in 1 .. s : l + i \in 1 .. s + l /\ p + (l + i) = (p + l) + i
        /\ 1 \in 1 .. l
        /\ p + l <= Len(c) /\ (p + l) + s <= Len(c) /\ p + l \in Nat
        /\ (p + l) + s = p + l + s /\ (p + l) + 1 = p + l + 1
        /\ k - l - s = Len(c) - (p + R) /\ l <= k /\ s > 0 /\ l + s <= k
    BY ONLY <1>0, <1>1, <1>3, <2>5, p \in Nat, l \in 1 .. 3, s \in Nat \ {0}
  <2>9. \A j \in 1 .. Len(hd) : c[p + j] = hd[j]
    BY ONLY <2>3, <2>6, <2>7, <2>8, Zenon
  <2>10. SubSeq(c, p + 1, p + l) = hd
    BY ONLY <1>0, <2>3, <2>8, <2>9, hd \in Seq(Byte), p \in Nat, PieceAt, Zenon
  <2>11. \A j \in 1 .. Len(m) : c[(p + l) + j] = m[j]
    BY ONLY <2>4, <2>6, <2>7, <2>8, Zenon
  <2>12. SubSeq(c, p + l + 1, p + l + s) = m
    BY ONLY <1>0, <2>4, <2>8, <2>11, PieceAt, Zenon
  <2>13. LenBytes(type, c, k) = l
    <3>1. LenBytes(type, c, k) = HeadLen(c[p + 1])
      BY ONLY <1>3, <1>5 DEF LenBytes
    <3>. QED BY ONLY <2>2, <2>3, <2>8, <2>9, <3>1, Zenon
  <2>14. MsgSize(type, c, k) = s
    <3>1. MsgSize(type, c, k) = ringbuf_headlen_decompress(SubSeq(c, p + 1, p + l))
      BY ONLY <1>3, <1>5, <2>13 DEF MsgSize
    <3>. QED BY ONLY <2>2, <2>4, <2>10, <3>1, Zenon
  <2>15. Whole(type, c, k)
    BY ONLY <1>3, <2>8, <2>13, <2>14, Zenon DEF Whole
  <2>16. MessageStep(type, c, g, k) = <<SubSeq(c, p + l + 1, p + l + s)>> \o g[k - l - s]
    BY ONLY <1>3, <2>13, <2>14, <2>15, Zenon DEF MessageStep
  <2>. QED BY ONLY <1>1, <1>2, <2>8, <2>12, <2>16, Zenon DEF Reads
<1>. QED BY <1>4, <1>5

\* The elements from i on.
LEMMA SeqFrom ==
    ASSUME NEW S, NEW s \in Seq(S), NEW i \in 1 .. Len(s)
    PROVE  <<s[i]>> \o SubSeq(s, i + 1, Len(s)) = SubSeq(s, i, Len(s))
OBVIOUS

\* The messages as they are stored.
Encs(type, ms) == [i \in 1 .. Len(ms) |-> Enc(type, ms[i])]

\* Each message is one the object accepts.
AllSized(type, ms) == \A i \in 1 .. Len(ms) : Sized(type, ms[i])

\* The stored form is one sequence of bytes per message, of the length Room gives.
LEMMA EncsProps ==
    ASSUME NEW type \in {"fix", "dyn"}, NEW ms \in Seq(Seq(Byte)), AllSized(type, ms)
    PROVE  /\ Encs(type, ms) \in Seq(Seq(Byte)) /\ Len(Encs(type, ms)) = Len(ms)
           /\ \A i \in 1 .. Len(ms) : /\ Encs(type, ms)[i] = Enc(type, ms[i])
                                      /\ Len(Encs(type, ms)[i]) = Room(type, ms[i])
                                      /\ Room(type, ms[i]) \in Nat \ {0}
<1>1. \A i \in 1 .. Len(ms) : /\ Enc(type, ms[i]) \in Seq(Byte)
                              /\ Len(Enc(type, ms[i])) = Room(type, ms[i])
                              /\ Room(type, ms[i]) \in Nat \ {0}
  BY EncProps DEF AllSized
<1>2. Len(ms) \in Nat
  OBVIOUS
<1>3. Encs(type, ms) \in Seq(Seq(Byte)) /\ Len(Encs(type, ms)) = Len(ms)
  <2>. DEFINE n == Len(ms)
              es == Encs(type, ms)
  <2>1. n \in Nat /\ es \in [1 .. n -> Seq(Byte)]
    BY ONLY <1>1, <1>2 DEF Encs
  <2>. HIDE DEF n, es
  <2>2. es \in Seq(Seq(Byte)) /\ Len(es) = n
    BY ONLY <2>1
  <2>. QED BY <2>2 DEF n, es
<1>4. \A i \in 1 .. Len(ms) : Encs(type, ms)[i] = Enc(type, ms[i])
  BY DEF Encs
<1>. QED BY ONLY <1>1, <1>3, <1>4, Zenon

\* A content that is stored messages reads as those messages.
LEMMA ReadAll ==
    ASSUME NEW type \in {"fix", "dyn"}, NEW c \in Seq(Byte),
           NEW ms \in Seq(Seq(Byte)), AllSized(type, ms),
           NEW f, Cut(c, Encs(type, ms), f)
    PROVE  MessagesFrom(type, c)[Len(c)] = ms
<1>1. PICK n \in Nat : n = Len(ms)
  OBVIOUS
<1>2. PICK x \in Nat : x = Len(c)
  OBVIOUS
<1>3. PICK M : M = MessagesFrom(type, c)
  OBVIOUS
<1>4. \A k \in 0 .. x : M[k] = MessageStep(type, c, M, k)
  BY <1>2, <1>3, MessagesFromIs
<1>5. PICK es : es = Encs(type, ms)
  OBVIOUS
<1>6. /\ Len(es) = n
      /\ \A i \in 1 .. n : /\ es[i] = Enc(type, ms[i])
                           /\ Len(es[i]) = Room(type, ms[i])
                           /\ Room(type, ms[i]) \in Nat \ {0}
  BY <1>1, <1>5, EncsProps
<1>7. Cut(c, es, f)
  BY <1>5
<1>8. f \in [0 .. n -> 0 .. x] /\ f[0] = 0 /\ f[n] = x
  BY ONLY <1>2, <1>6, <1>7, Zenon DEF Cut
<1>9. \A i \in 1 .. n : /\ f[i] = f[i - 1] + Room(type, ms[i])
                        /\ \A j \in 1 .. Room(type, ms[i]) : c[f[i - 1] + j] = Enc(type, ms[i])[j]
  <2>1. \A i \in 1 .. n : /\ f[i] = f[i - 1] + Len(es[i])
                          /\ \A j \in 1 .. Len(es[i]) : c[f[i - 1] + j] = es[i][j]
    BY ONLY <1>6, <1>7, Zenon DEF Cut
  <2>2. ASSUME NEW i \in 1 .. n
        PROVE  /\ f[i] = f[i - 1] + Room(type, ms[i])
               /\ \A j \in 1 .. Room(type, ms[i]) : c[f[i - 1] + j] = Enc(type, ms[i])[j]
    <3>1. es[i] = Enc(type, ms[i]) /\ Len(es[i]) = Room(type, ms[i])
      BY ONLY <1>6, i \in 1 .. n, Zenon
    <3>2. f[i] = f[i - 1] + Len(es[i]) /\ \A j \in 1 .. Len(es[i]) : c[f[i - 1] + j] = es[i][j]
      BY ONLY <2>1, i \in 1 .. n, Zenon
    <3>. QED BY ONLY <3>1, <3>2, Zenon
  <2>. QED BY <2>2
<1>10. \A i \in 0 .. n : f[i] \in 0 .. x
  BY ONLY <1>8
<1>11. /\ type \in {"fix", "dyn"} /\ c \in Seq(Byte) /\ ms \in Seq(Seq(Byte))
       /\ \A i \in 1 .. n : Sized(type, ms[i])
  BY <1>1 DEF AllSized
<1>. DEFINE S == {d \in Nat : d <= n => M[x - f[n - d]] = SubSeq(ms, (n - d) + 1, n)}
<1>12. 0 \in S
  <2>1. x - f[n - 0] = 0 /\ (n - 0) + 1 = n + 1 /\ 0 \in 0 .. x
    BY ONLY <1>8, n \in Nat, x \in Nat
  <2>2. ~Whole(type, c, 0)
    BY DEF Whole
  <2>3. M[0] = <<>>
    BY ONLY <1>4, <2>1, <2>2, Zenon DEF MessageStep
  <2>4. SubSeq(ms, n + 1, n) = <<>>
    BY ONLY <1>11, n \in Nat
  <2>. QED BY ONLY <2>1, <2>3, <2>4
<1>13. ASSUME NEW d \in Nat, d \in S PROVE d + 1 \in S
  <2>. SUFFICES ASSUME d + 1 <= n
                PROVE  M[x - f[n - (d + 1)]] = SubSeq(ms, (n - (d + 1)) + 1, n)
    BY DEF S
  <2>1. PICK i \in 1 .. n : /\ i = n - d /\ n - (d + 1) = i - 1 /\ (n - (d + 1)) + 1 = i
    <3>1. n - d \in 1 .. n /\ n - (d + 1) = (n - d) - 1 /\ (n - (d + 1)) + 1 = n - d
      BY ONLY n \in Nat, d \in Nat, d + 1 <= n
    <3>. QED BY ONLY <3>1, Zenon
  <2>2. M[x - f[i]] = SubSeq(ms, i + 1, n)
    <3>1. d <= n
      BY ONLY n \in Nat, d \in Nat, d + 1 <= n
    <3>2. d <= n => M[x - f[n - d]] = SubSeq(ms, (n - d) + 1, n)
      BY ONLY <1>13 DEF S
    <3>. QED BY ONLY <2>1, <3>1, <3>2, Zenon
  <2>3. i - 1 \in 0 .. n /\ i \in 0 .. n
    BY ONLY n \in Nat, i \in 1 .. n
  <2>4. PICK p \in 0 .. x : p = f[i - 1]
    BY ONLY <1>10, <2>3, Zenon
  <2>5. PICK m : m = ms[i]
    OBVIOUS
  <2>6. /\ Sized(type, m) /\ f[i] = p + Room(type, m) /\ f[i] \in 0 .. x
        /\ \A j \in 1 .. Room(type, m) : c[p + j] = Enc(type, m)[j]
    BY ONLY <1>9, <1>10, <1>11, <2>3, <2>4, <2>5, i \in 1 .. n, Zenon
  <2>7. p \in Nat /\ p + Room(type, m) <= Len(c) /\ x - p \in 0 .. x
    BY ONLY <1>2, <2>6, x \in Nat, p \in 0 .. x
  <2>8. MessageStep(type, c, M, Len(c) - p) = <<m>> \o M[Len(c) - (p + Room(type, m))]
    <3>1. Bears(type, c, p, m)
      BY ONLY <2>6, <2>7, Zenon DEF Bears
    <3>2. Reads(type, c, p, m, M)
      BY ONLY <1>11, <2>6, <2>7, <3>1, MessageAt, Zenon
    <3>. QED BY ONLY <3>2 DEF Reads
  <2>9. M[x - p] = <<m>> \o SubSeq(ms, i + 1, n)
    BY ONLY <1>2, <1>4, <2>2, <2>6, <2>7, <2>8, Zenon
  <2>10. <<m>> \o SubSeq(ms, i + 1, n) = SubSeq(ms, i, n)
    <3>1. ms \in Seq(Seq(Byte)) /\ i \in 1 .. Len(ms)
      BY ONLY <1>1, <1>11, i \in 1 .. n, Zenon
    <3>2. <<ms[i]>> \o SubSeq(ms, i + 1, Len(ms)) = SubSeq(ms, i, Len(ms))
      BY ONLY <3>1, SeqFrom, Zenon
    <3>. QED BY ONLY <1>1, <2>5, <3>2, Zenon
  <2>. QED BY ONLY <2>1, <2>4, <2>9, <2>10, Zenon
<1>14. \A d \in Nat : d \in S
  <2>. HIDE DEF S
  <2>. QED BY ONLY <1>12, <1>13, SetInduction, Zenon
<1>15. M[x - f[n - n]] = SubSeq(ms, (n - n) + 1, n)
  <2>1. n \in Nat /\ n <= n
    BY n \in Nat
  <2>. QED BY ONLY <1>14, <2>1 DEF S
<1>16. n - n = 0 /\ 0 + 1 = 1 /\ x - 0 = x
  BY ONLY n \in Nat, x \in Nat
<1>17. M[x] = SubSeq(ms, 1, n)
  BY ONLY <1>8, <1>15, <1>16, Zenon
<1>18. SubSeq(ms, 1, n) = ms
  BY ONLY <1>1, <1>11
<1>. QED BY ONLY <1>2, <1>3, <1>17, <1>18, Zenon

\* The recursion of RoomOf.
Sums(type, ms, g) ==
    g = [i \in 0 .. Len(ms) |-> IF i = 0 THEN 0 ELSE g[i - 1] + Room(type, ms[i])]

\* If some function satisfies it, RoomOf is the last value of one that does.
LEMMA RoomOfFix ==
    ASSUME NEW type, NEW ms, NEW g, Sums(type, ms, g)
    PROVE  \E h : Sums(type, ms, h) /\ RoomOf(type, ms) = h[Len(ms)]
BY Zenon DEF RoomOf, Sums

\* Only one function satisfies it.
LEMMA SumsUnique ==
    ASSUME NEW type, NEW ms \in Seq(Seq(Byte)), NEW g, Sums(type, ms, g),
           NEW h, Sums(type, ms, h)
    PROVE  g[Len(ms)] = h[Len(ms)]
<1>1. PICK n \in Nat : n = Len(ms)
  OBVIOUS
<1>2. /\ \A i \in 0 .. n : g[i] = IF i = 0 THEN 0 ELSE g[i - 1] + Room(type, ms[i])
      /\ \A i \in 0 .. n : h[i] = IF i = 0 THEN 0 ELSE h[i - 1] + Room(type, ms[i])
  BY <1>1, Zenon DEF Sums
<1>. DEFINE S == {i \in Nat : i <= n => g[i] = h[i]}
<1>3. 0 \in S
  <2>1. 0 \in 0 .. n
    BY ONLY n \in Nat
  <2>. QED BY ONLY <1>2, <2>1
<1>4. ASSUME NEW i \in Nat, i \in S PROVE i + 1 \in S
  <2>. SUFFICES ASSUME i + 1 <= n PROVE g[i + 1] = h[i + 1]
    BY DEF S
  <2>1. i + 1 \in 0 .. n /\ i + 1 # 0 /\ (i + 1) - 1 = i /\ i <= n
    BY ONLY n \in Nat, i \in Nat, i + 1 <= n
  <2>2. g[i] = h[i]
    BY ONLY <1>4, <2>1 DEF S
  <2>3. g[i + 1] = g[i] + Room(type, ms[i + 1]) /\ h[i + 1] = h[i] + Room(type, ms[i + 1])
    BY ONLY <1>2, <2>1
  <2>. QED BY ONLY <2>2, <2>3, Zenon
<1>5. \A i \in Nat : i \in S
  <2>. HIDE DEF S
  <2>. QED BY ONLY <1>3, <1>4, SetInduction, Zenon
<1>6. n <= n
  BY ONLY n \in Nat
<1>7. g[n] = h[n]
  BY ONLY <1>5, <1>6, n \in Nat DEF S
<1>. QED BY ONLY <1>1, <1>7, Zenon

\* Stored messages take the room of the content.
LEMMA RoomOfAll ==
    ASSUME NEW type \in {"fix", "dyn"}, NEW c \in Seq(Byte),
           NEW ms \in Seq(Seq(Byte)), AllSized(type, ms),
           NEW f, Cut(c, Encs(type, ms), f)
    PROVE  RoomOf(type, ms) = Len(c)
<1>1. PICK n \in Nat : n = Len(ms)
  OBVIOUS
<1>2. PICK es : es = Encs(type, ms)
  OBVIOUS
<1>3. Len(es) = n /\ \A i \in 1 .. n : Len(es[i]) = Room(type, ms[i])
  BY <1>1, <1>2, EncsProps
<1>4. Cut(c, es, f)
  BY <1>2
<1>5. /\ f \in [0 .. n -> 0 .. Len(c)] /\ f[0] = 0 /\ f[n] = Len(c)
      /\ \A i \in 1 .. n : f[i] = f[i - 1] + Len(es[i])
  BY ONLY <1>3, <1>4, Zenon DEF Cut
<1>6. Sums(type, ms, f)
  <2>1. f = [i \in 0 .. n |-> f[i]]
    BY ONLY <1>5
  <2>2. ASSUME NEW i \in 0 .. n
        PROVE  f[i] = IF i = 0 THEN 0 ELSE f[i - 1] + Room(type, ms[i])
    <3>1. CASE i = 0
      BY ONLY <1>5, <3>1
    <3>2. CASE i # 0
      <4>1. i \in 1 .. n
        BY ONLY <3>2, i \in 0 .. n, n \in Nat
      <4>2. f[i] = f[i - 1] + Room(type, ms[i])
        BY ONLY <1>3, <1>5, <4>1, Zenon
      <4>. QED BY ONLY <3>2, <4>2, Zenon
    <3>. QED BY <3>1, <3>2
  <2>3. f = [i \in 0 .. n |-> IF i = 0 THEN 0 ELSE f[i - 1] + Room(type, ms[i])]
    BY ONLY <2>1, <2>2, Zenon
  <2>. QED BY ONLY <1>1, <2>3, Zenon DEF Sums
<1>7. PICK h : Sums(type, ms, h) /\ RoomOf(type, ms) = h[Len(ms)]
  BY ONLY <1>6, RoomOfFix, Zenon
<1>8. f[Len(ms)] = h[Len(ms)]
  BY ONLY <1>6, <1>7, ms \in Seq(Seq(Byte)), SumsUnique, Zenon
<1>. QED BY ONLY <1>1, <1>5, <1>7, <1>8, Zenon

-----------------------------------------------------------------------------
(***************************************************************************)
(* Multiples of the size of a block.                                       *)
(***************************************************************************)
Blocks(x) == \E a \in Nat : x = a * BlkSize

\* Sums and differences, and the room left before a greater multiple.
LEMMA BlocksSum ==
    ASSUME NEW x \in Nat, NEW y \in Nat, Blocks(x), Blocks(y)
    PROVE  Blocks(x + y) /\ (y <= x => Blocks(x - y)) /\ (y < x => y + BlkSize <= x)
<1>1. BlkSize \in Nat \ {0}
  BY Sizes
<1>2. PICK a \in Nat : x = a * BlkSize
  BY DEF Blocks
<1>3. PICK b \in Nat : y = b * BlkSize
  BY DEF Blocks
<1>4. x + y = (a + b) * BlkSize /\ a + b \in Nat
  BY ONLY <1>1, <1>2, <1>3, a \in Nat, b \in Nat
<1>5. x - y = (a - b) * BlkSize
  BY ONLY <1>1, <1>2, <1>3, a \in Nat, b \in Nat
<1>6. ASSUME b > a PROVE y >= x + BlkSize
  <2>1. PICK d \in Nat : b = (a + d) + 1
    <3>1. b - a - 1 \in Nat /\ b = (a + (b - a - 1)) + 1
      BY ONLY <1>6, a \in Nat, b \in Nat
    <3>. QED BY ONLY <3>1, Zenon
  <2>2. y = (a * BlkSize + d * BlkSize) + BlkSize
    BY ONLY <1>1, <1>3, <2>1, a \in Nat, d \in Nat
  <2>3. d * BlkSize \in Nat /\ a * BlkSize \in Nat
    BY ONLY <1>1, a \in Nat, d \in Nat
  <2>. QED BY ONLY <1>1, <1>2, <2>2, <2>3
<1>7. ASSUME a > b PROVE x >= y + BlkSize
  <2>1. PICK d \in Nat : a = (b + d) + 1
    <3>1. a - b - 1 \in Nat /\ a = (b + (a - b - 1)) + 1
      BY ONLY <1>7, a \in Nat, b \in Nat
    <3>. QED BY ONLY <3>1, Zenon
  <2>2. x = (b * BlkSize + d * BlkSize) + BlkSize
    BY ONLY <1>1, <1>2, <2>1, b \in Nat, d \in Nat
  <2>3. d * BlkSize \in Nat /\ b * BlkSize \in Nat
    BY ONLY <1>1, b \in Nat, d \in Nat
  <2>. QED BY ONLY <1>1, <1>3, <2>2, <2>3
<1>8. y <= x => a - b \in Nat
  BY ONLY <1>1, <1>6, x \in Nat, y \in Nat, a \in Nat, b \in Nat
<1>9. y < x => a > b
  <2>1. ASSUME y < x, ~(a > b) PROVE FALSE
    <3>1. a # b
      BY ONLY <1>2, <1>3, <2>1, x \in Nat, y \in Nat
    <3>2. b > a
      BY ONLY <2>1, <3>1, a \in Nat, b \in Nat
    <3>. QED BY ONLY <1>1, <1>6, <2>1, <3>2, x \in Nat, y \in Nat
  <2>. QED BY <2>1
<1>10. Blocks(x + y)
  BY ONLY <1>4, Zenon DEF Blocks
<1>11. y <= x => Blocks(x - y)
  BY ONLY <1>5, <1>8, Zenon DEF Blocks
<1>12. y < x => y + BlkSize <= x
  BY ONLY <1>1, <1>7, <1>9, x \in Nat, y \in Nat
<1>. QED BY <1>10, <1>11, <1>12

\* The sizes of a "fix" ring are whole blocks, as RingAssumption says.
LEMMA BlocksSizes == Blocks(0) /\ Blocks(BlkSize) /\ Blocks(RingSize) /\ BlkSize <= RingSize
<1>1. RingSize \in Nat \ {0} /\ BlkSize \in Nat \ {0} /\ RingSize % BlkSize = 0
  BY Sizes
<1>2. 0 = 0 * BlkSize /\ BlkSize = 1 * BlkSize /\ 0 \in Nat /\ 1 \in Nat
  BY ONLY <1>1
<1>3. RingSize = (RingSize \div BlkSize) * BlkSize /\ RingSize \div BlkSize \in Nat
  <2>1. /\ RingSize \div BlkSize \in Nat
        /\ RingSize = (RingSize \div BlkSize) * BlkSize + (RingSize % BlkSize)
    BY ONLY <1>1, DivModExists
  <2>2. PICK q \in Nat : q = RingSize \div BlkSize
    BY ONLY <2>1, Zenon
  <2>3. RingSize = q * BlkSize + 0
    BY ONLY <1>1, <2>1, <2>2, Zenon
  <2>4. RingSize = q * BlkSize
    BY ONLY <1>1, <2>3, q \in Nat
  <2>. QED BY ONLY <2>2, <2>4, q \in Nat, Zenon
<1>4. Blocks(0) /\ Blocks(BlkSize) /\ Blocks(RingSize)
  BY ONLY <1>2, <1>3, Zenon DEF Blocks
<1>5. RingSize \in Nat /\ 0 \in Nat /\ 0 < RingSize /\ 0 + BlkSize = BlkSize
  BY ONLY <1>1
<1>6. BlkSize <= RingSize
  BY ONLY <1>4, <1>5, BlocksSum, SMT
<1>. QED BY <1>4, <1>6

\* head and the head a block further or before are multiples together.
LEMMA BlocksHead ==
    ASSUME NEW h \in 0 .. RingSize, NEW g \in 0 .. RingSize, Blocks(h),
           \/ Wrapped(Off(g) + BlkSize) = Off(h)
           \/ Wrapped(Off(h) + BlkSize) = Off(g)
    PROVE  Blocks(g)
<1>1. /\ RingSize \in Nat \ {0} /\ BlkSize \in Nat \ {0} /\ BlkSize <= RingSize
      /\ h \in 0 .. RingSize /\ g \in 0 .. RingSize
  BY Sizes, BlocksSizes
<1>2. Blocks(0) /\ Blocks(BlkSize) /\ Blocks(RingSize) /\ Blocks(h)
  BY BlocksSizes
<1>3. Off(h) \in 0 .. RingSize - 1 /\ Off(g) \in 0 .. RingSize - 1
      /\ (Off(h) = h \/ Off(h) = 0) /\ (Off(g) = g \/ g = RingSize)
  BY ONLY <1>1 DEF Off
<1>4. PICK x \in 0 .. RingSize - 1 : x = Off(h) /\ Blocks(x)
  BY ONLY <1>2, <1>3, Zenon
<1>5. PICK y \in 0 .. RingSize - 1 : y = Off(g)
  BY ONLY <1>3, Zenon
<1>6. x \in Nat /\ y \in Nat /\ BlkSize \in Nat /\ RingSize \in Nat /\ x + RingSize \in Nat
      /\ x + BlkSize \in Nat
  BY ONLY <1>1, x \in 0 .. RingSize - 1, y \in 0 .. RingSize - 1
<1>7. Blocks(x + RingSize) /\ Blocks(x + BlkSize)
  BY ONLY <1>2, <1>4, <1>6, BlocksSum, Zenon
<1>8. Blocks(y)
  <2>1. CASE Wrapped(Off(g) + BlkSize) = Off(h)
    <3>1. (y = x - BlkSize /\ BlkSize <= x)
          \/ (y = (x + RingSize) - BlkSize /\ BlkSize <= x + RingSize)
      BY ONLY <1>1, <1>4, <1>5, <2>1, x \in 0 .. RingSize - 1, y \in 0 .. RingSize - 1
         DEF Wrapped
    <3>2. BlkSize <= x => Blocks(x - BlkSize)
      BY ONLY <1>2, <1>4, <1>6, BlocksSum, Zenon
    <3>3. BlkSize <= x + RingSize => Blocks((x + RingSize) - BlkSize)
      BY ONLY <1>2, <1>6, <1>7, BlocksSum, Zenon
    <3>. QED BY ONLY <3>1, <3>2, <3>3, Zenon
  <2>2. CASE Wrapped(Off(h) + BlkSize) = Off(g)
    <3>1. y = x + BlkSize \/ (y = (x + BlkSize) - RingSize /\ RingSize <= x + BlkSize)
      BY ONLY <1>1, <1>4, <1>5, <2>2, x \in 0 .. RingSize - 1, y \in 0 .. RingSize - 1
         DEF Wrapped
    <3>2. RingSize <= x + BlkSize => Blocks((x + BlkSize) - RingSize)
      BY ONLY <1>2, <1>6, <1>7, BlocksSum, Zenon
    <3>. QED BY ONLY <1>7, <3>1, <3>2, Zenon
  <2>. QED BY <2>1, <2>2
<1>. QED BY ONLY <1>2, <1>3, <1>5, <1>8, Zenon

\* The blocks of a ring whose head is a multiple: the next fits below the end of
\* the memory, and one more fits in front of head or at the end.
LEMMA BlockFits ==
    ASSUME NEW h \in 0 .. RingSize, Blocks(h)
    PROVE  /\ Off(h) + BlkSize <= RingSize
           /\ BlkSize <= IF h = 0 THEN RingSize ELSE h
<1>1. /\ RingSize \in Nat \ {0} /\ BlkSize \in Nat \ {0} /\ BlkSize <= RingSize
      /\ h \in 0 .. RingSize
  BY Sizes, BlocksSizes
<1>2. Blocks(0) /\ Blocks(RingSize) /\ Blocks(h)
  BY BlocksSizes
<1>3. PICK x \in Nat : x = Off(h) /\ Blocks(x) /\ x < RingSize
  <2>1. Off(h) \in Nat /\ Off(h) < RingSize /\ (Off(h) = h \/ Off(h) = 0)
    BY ONLY <1>1 DEF Off
  <2>. QED BY ONLY <1>2, <2>1, Zenon
<1>4. h \in Nat /\ RingSize \in Nat /\ 0 \in Nat /\ (h # 0 => 0 < h) /\ 0 + BlkSize = BlkSize
  BY ONLY <1>1
<1>5. x + BlkSize <= RingSize
  BY ONLY <1>2, <1>3, <1>4, x \in Nat, BlocksSum, Zenon
<1>6. h # 0 => BlkSize <= h
  <2>1. 0 < h => 0 + BlkSize <= h
    BY ONLY <1>2, <1>4, BlocksSum, Zenon
  <2>. QED BY ONLY <1>4, <2>1, Zenon
<1>7. CASE h = 0
  BY ONLY <1>1, <1>3, <1>5, <1>7
<1>8. CASE h # 0
  BY ONLY <1>3, <1>5, <1>6, <1>8
<1>. QED BY <1>7, <1>8

-----------------------------------------------------------------------------
(***************************************************************************)
(* A ring that stores the messages ms.  A "fix" ring holds whole blocks    *)
(* and its head stands between two of them.                                *)
(***************************************************************************)
Stores(r, ms) ==
    /\ RingInv(r)
    /\ ms \in Seq(Seq(Byte)) /\ AllSized(r.type, ms)
    /\ \E f : Cut(Content(r), Encs(r.type, ms), f)
    /\ r.type = "fix" => /\ Used(r) = Len(ms) * BlkSize
                         /\ Blocks(r.head)

\* Counting by % the bytes in use end at tail.
LEMMA EndsAt ==
    ASSUME NEW h \in 0 .. RingSize, NEW t \in 0 .. RingSize, NEW u \in 0 .. RingSize,
           Wrapped(Off(h) + u) = Off(t)
    PROVE  (h + u) % RingSize = t % RingSize
<1>1. RingSize \in Nat \ {0}
  BY Sizes
<1>2. \A z \in 0 .. 2 * RingSize - 1 :
        z % RingSize = IF z < RingSize THEN z ELSE z - RingSize
  BY ONLY <1>1, ModOnce
<1>3. t % RingSize = Off(t)
  BY ONLY <1>1, <1>2, t \in 0 .. RingSize DEF Off
<1>4. CASE h + u < 2 * RingSize
  <2>1. (h + u) % RingSize = IF h + u < RingSize THEN h + u ELSE h + u - RingSize
    BY ONLY <1>1, <1>2, <1>4, h \in 0 .. RingSize, u \in 0 .. RingSize
  <2>2. Wrapped(Off(h) + u) = IF h + u < RingSize THEN h + u ELSE h + u - RingSize
    BY ONLY <1>1, <1>4, h \in 0 .. RingSize, u \in 0 .. RingSize DEF Off, Wrapped
  <2>. QED BY <1>3, <2>1, <2>2
<1>5. CASE ~(h + u < 2 * RingSize)
  <2>1. h = RingSize /\ u = RingSize /\ h + u = 2 * RingSize + 0
    BY ONLY <1>1, <1>5, h \in 0 .. RingSize, u \in 0 .. RingSize
  <2>2. (2 * RingSize + 0) % RingSize = 0
    BY ONLY <1>1, DivMod
  <2>3. Wrapped(Off(h) + u) = 0
    BY ONLY <1>1, <2>1 DEF Off, Wrapped
  <2>. QED BY <1>3, <2>1, <2>2, <2>3
<1>. QED BY <1>4, <1>5

\* Then those messages can be read, they take the bytes in use, they end at tail,
\* and the ring is empty exactly when there are none.
LEMMA StoresReads ==
    ASSUME NEW r, NEW ms, Stores(r, ms)
    PROVE  /\ r \in Ring
           /\ Messages(r) = ms
           /\ RoomOf(r.type, ms) = Used(r)
           /\ (r.head + Used(r)) % RingSize = r.tail % RingSize
           /\ ms \in Seq(Seq(Byte))
           /\ Len(ms) \in 0 .. RingSize
           /\ ringbuf_is_empty(r) <=> ms = <<>>
<1>1. RingInv(r) /\ ms \in Seq(Seq(Byte)) /\ AllSized(r.type, ms)
  BY DEF Stores
<1>2. PICK f : Cut(Content(r), Encs(r.type, ms), f)
  BY DEF Stores
<1>3. /\ r \in Ring /\ r.type \in {"fix", "dyn"} /\ r.head \in 0 .. RingSize
      /\ r.tail \in 0 .. RingSize /\ r.freesize \in 0 .. RingSize
      /\ Used(r) \in 0 .. RingSize /\ Used(r) = RingSize - r.freesize
      /\ Off(r.head) \in 0 .. RingSize - 1 /\ Off(r.tail) \in 0 .. RingSize - 1
      /\ Wrapped(Off(r.head) + Used(r)) = Off(r.tail)
  BY <1>1, RingFields DEF RingInv
<1>4. Content(r) \in Seq(Byte) /\ Len(Content(r)) = Used(r)
  BY <1>3, ContentAt
<1>5. Messages(r) = ms
  <2>1. MessagesFrom(r.type, Content(r))[Len(Content(r))] = ms
    BY ONLY <1>1, <1>2, <1>3, <1>4, ReadAll, Zenon
  <2>. QED BY ONLY <1>4, <2>1, Zenon DEF Messages
<1>6. RoomOf(r.type, ms) = Used(r)
  <2>1. RoomOf(r.type, ms) = Len(Content(r))
    BY ONLY <1>1, <1>2, <1>3, <1>4, RoomOfAll, Zenon
  <2>. QED BY ONLY <1>4, <2>1, Zenon
<1>7. (r.head + Used(r)) % RingSize = r.tail % RingSize
  <2>1. PICK h \in 0 .. RingSize : h = r.head
    BY ONLY <1>3, Zenon
  <2>2. PICK t \in 0 .. RingSize : t = r.tail
    BY ONLY <1>3, Zenon
  <2>3. PICK u \in 0 .. RingSize : u = Used(r)
    BY ONLY <1>3, Zenon
  <2>4. Wrapped(Off(h) + u) = Off(t)
    BY ONLY <1>3, <2>1, <2>2, <2>3, Zenon
  <2>5. (h + u) % RingSize = t % RingSize
    BY ONLY <2>4, EndsAt, h \in 0 .. RingSize, t \in 0 .. RingSize, u \in 0 .. RingSize, Zenon
  <2>. QED BY ONLY <2>1, <2>2, <2>3, <2>5, Zenon
<1>8. Len(ms) <= Used(r) /\ (Len(ms) = 0 <=> Used(r) = 0)
  <2>1. Encs(r.type, ms) \in Seq(Seq(Byte)) /\ Len(Encs(r.type, ms)) = Len(ms)
    BY ONLY <1>1, <1>3, EncsProps, Zenon
  <2>2. Len(Encs(r.type, ms)) <= Len(Content(r))
        /\ (Len(Encs(r.type, ms)) = 0 <=> Len(Content(r)) = 0)
    BY ONLY <1>2, <1>4, <2>1, CutLen, Zenon
  <2>. QED BY ONLY <1>4, <2>1, <2>2, Zenon
<1>9. Len(ms) \in Nat /\ (Len(ms) = 0 <=> ms = <<>>)
  BY <1>1
<1>10. Len(ms) \in 0 .. RingSize
  BY ONLY <1>3, <1>8, <1>9, Sizes
<1>11. ringbuf_is_empty(r) <=> ms = <<>>
  <2>1. ringbuf_is_empty(r) <=> Used(r) = 0
    BY ONLY <1>3, Sizes DEF ringbuf_is_empty
  <2>. QED BY ONLY <1>8, <1>9, <2>1, Zenon
<1>. QED BY ONLY <1>1, <1>3, <1>5, <1>6, <1>7, <1>10, <1>11, Zenon

\* The elements of a sequence with one more at either end, or without its first.
LEMMA AppendAt ==
    ASSUME NEW S, NEW s \in Seq(S), NEW e \in S
    PROVE  /\ Append(s, e) \in Seq(S) /\ Len(Append(s, e)) = Len(s) + 1
           /\ Append(s, e)[Len(s) + 1] = e
           /\ \A i \in 1 .. Len(s) : Append(s, e)[i] = s[i]
OBVIOUS

\* A sequence with an element before its first.
LEMMA ConsAt ==
    ASSUME NEW S, NEW s \in Seq(S), NEW e \in S
    PROVE  /\ <<e>> \o s \in Seq(S) /\ Len(<<e>> \o s) = Len(s) + 1
           /\ (<<e>> \o s)[1] = e
           /\ \A i \in 1 .. Len(s) : (<<e>> \o s)[i + 1] = s[i]
OBVIOUS

\* A sequence without its first element.
LEMMA TailAt ==
    ASSUME NEW S, NEW s \in Seq(S), Len(s) > 0
    PROVE  /\ Tail(s) \in Seq(S) /\ Len(Tail(s)) = Len(s) - 1
           /\ Head(s) = s[1]
           /\ \A i \in 1 .. Len(s) - 1 : Tail(s)[i] = s[i + 1]
OBVIOUS

\* EncsProps with the stored form named.
EncsAre(type, ms, es) ==
    /\ es \in Seq(Seq(Byte)) /\ Len(es) = Len(ms)
    /\ \A i \in 1 .. Len(ms) : es[i] = Enc(type, ms[i]) /\ Len(es[i]) = Room(type, ms[i])

\* The lemma EncsProps in these words.
LEMMA EncsNamed ==
    ASSUME NEW type \in {"fix", "dyn"}, NEW ms \in Seq(Seq(Byte)), AllSized(type, ms)
    PROVE  EncsAre(type, ms, Encs(type, ms))
BY EncsProps DEF EncsAre

\* The stored form of a sequence with one message more, or without its first.
LEMMA EncsBack ==
    ASSUME NEW type \in {"fix", "dyn"}, NEW ms \in Seq(Seq(Byte)), AllSized(type, ms),
           NEW m \in Seq(Byte), Sized(type, m)
    PROVE  /\ Append(ms, m) \in Seq(Seq(Byte)) /\ Len(Append(ms, m)) = Len(ms) + 1
           /\ AllSized(type, Append(ms, m))
           /\ Encs(type, Append(ms, m)) = Append(Encs(type, ms), Enc(type, m))
<1>1. PICK n \in Nat : n = Len(ms)
  OBVIOUS
<1>2. PICK ns : ns = Append(ms, m)
  OBVIOUS
<1>3. /\ ns \in Seq(Seq(Byte)) /\ Len(ns) = n + 1 /\ ns[n + 1] = m
      /\ \A i \in 1 .. n : ns[i] = ms[i]
  BY ONLY <1>1, <1>2, ms \in Seq(Seq(Byte)), m \in Seq(Byte)
<1>4. AllSized(type, ns)
  <2>1. \A i \in 1 .. n : Sized(type, ms[i])
    BY ONLY <1>1, AllSized(type, ms), Zenon DEF AllSized
  <2>2. \A i \in 1 .. n + 1 : i = n + 1 \/ i \in 1 .. n
    BY ONLY n \in Nat
  <2>3. \A i \in 1 .. n + 1 : Sized(type, ns[i])
    BY ONLY <1>3, <2>1, <2>2, Sized(type, m), Zenon
  <2>. QED BY ONLY <1>3, <2>3, Zenon DEF AllSized
<1>5. PICK es : es = Encs(type, ms)
  OBVIOUS
<1>6. PICK e : e = Enc(type, m)
  OBVIOUS
<1>7. PICK fs : fs = Encs(type, ns)
  OBVIOUS
<1>8. es \in Seq(Seq(Byte)) /\ Len(es) = n /\ \A i \in 1 .. n : es[i] = Enc(type, ms[i])
  <2>1. EncsAre(type, ms, es)
    BY ONLY <1>5, EncsNamed, type \in {"fix", "dyn"}, ms \in Seq(Seq(Byte)), AllSized(type, ms), Zenon
  <2>. QED BY ONLY <1>1, <2>1, Zenon DEF EncsAre
<1>9. fs \in Seq(Seq(Byte)) /\ Len(fs) = n + 1 /\ \A i \in 1 .. n + 1 : fs[i] = Enc(type, ns[i])
  <2>1. EncsAre(type, ns, fs)
    BY ONLY <1>3, <1>4, <1>7, EncsNamed, type \in {"fix", "dyn"}, Zenon
  <2>. QED BY ONLY <1>3, <2>1, Zenon DEF EncsAre
<1>10. e \in Seq(Byte)
  BY <1>6, EncProps
<1>11. /\ Append(es, e) \in Seq(Seq(Byte)) /\ Len(Append(es, e)) = n + 1
       /\ Append(es, e)[n + 1] = e /\ \A i \in 1 .. n : Append(es, e)[i] = es[i]
  <2>1. es \in Seq(Seq(Byte)) /\ e \in Seq(Byte)
    BY ONLY <1>8, <1>10, Zenon
  <2>2. /\ Append(es, e) \in Seq(Seq(Byte)) /\ Len(Append(es, e)) = Len(es) + 1
        /\ Append(es, e)[Len(es) + 1] = e
        /\ \A i \in 1 .. Len(es) : Append(es, e)[i] = es[i]
    BY ONLY <2>1, AppendAt
  <2>. QED BY ONLY <1>8, <2>2, Zenon
<1>12. PICK gs : gs = Append(es, e)
  OBVIOUS
<1>13. \A i \in 1 .. n + 1 : fs[i] = gs[i]
  BY ONLY <1>3, <1>6, <1>8, <1>9, <1>11, <1>12, n \in Nat
<1>14. fs = gs
  BY ONLY <1>9, <1>11, <1>12, <1>13, SeqEq, Zenon
<1>. QED BY ONLY <1>1, <1>2, <1>3, <1>4, <1>5, <1>6, <1>7, <1>12, <1>14, Zenon

\* The same with one message more in front.
LEMMA EncsFront ==
    ASSUME NEW type \in {"fix", "dyn"}, NEW ms \in Seq(Seq(Byte)), AllSized(type, ms),
           NEW m \in Seq(Byte), Sized(type, m)
    PROVE  /\ <<m>> \o ms \in Seq(Seq(Byte)) /\ Len(<<m>> \o ms) = Len(ms) + 1
           /\ AllSized(type, <<m>> \o ms)
           /\ Encs(type, <<m>> \o ms) = <<Enc(type, m)>> \o Encs(type, ms)
<1>1. PICK n \in Nat : n = Len(ms)
  OBVIOUS
<1>2. PICK ns : ns = <<m>> \o ms
  OBVIOUS
<1>3. /\ ns \in Seq(Seq(Byte)) /\ Len(ns) = n + 1 /\ ns[1] = m
      /\ \A i \in 1 .. n : ns[i + 1] = ms[i]
  BY ONLY <1>1, <1>2, ms \in Seq(Seq(Byte)), m \in Seq(Byte)
<1>4. \A i \in 1 .. n + 1 : i = 1 \/ (i - 1 \in 1 .. n /\ (i - 1) + 1 = i)
  BY ONLY n \in Nat
<1>5. AllSized(type, ns)
  <2>1. \A i \in 1 .. n : Sized(type, ms[i])
    BY ONLY <1>1, AllSized(type, ms), Zenon DEF AllSized
  <2>2. \A i \in 1 .. n + 1 : Sized(type, ns[i])
    BY ONLY <1>3, <1>4, <2>1, Sized(type, m), Zenon
  <2>. QED BY ONLY <1>3, <2>2, Zenon DEF AllSized
<1>6. PICK es : es = Encs(type, ms)
  OBVIOUS
<1>7. PICK e : e = Enc(type, m)
  OBVIOUS
<1>8. PICK fs : fs = Encs(type, ns)
  OBVIOUS
<1>9. es \in Seq(Seq(Byte)) /\ Len(es) = n /\ \A i \in 1 .. n : es[i] = Enc(type, ms[i])
  <2>1. EncsAre(type, ms, es)
    BY ONLY <1>6, EncsNamed, type \in {"fix", "dyn"}, ms \in Seq(Seq(Byte)), AllSized(type, ms), Zenon
  <2>. QED BY ONLY <1>1, <2>1, Zenon DEF EncsAre
<1>10. fs \in Seq(Seq(Byte)) /\ Len(fs) = n + 1 /\ \A i \in 1 .. n + 1 : fs[i] = Enc(type, ns[i])
  <2>1. EncsAre(type, ns, fs)
    BY ONLY <1>3, <1>5, <1>8, EncsNamed, type \in {"fix", "dyn"}, Zenon
  <2>. QED BY ONLY <1>3, <2>1, Zenon DEF EncsAre
<1>11. e \in Seq(Byte)
  BY <1>7, EncProps
<1>12. PICK gs : gs = <<e>> \o es
  OBVIOUS
<1>13. /\ gs \in Seq(Seq(Byte)) /\ Len(gs) = n + 1 /\ gs[1] = e
       /\ \A i \in 1 .. n : gs[i + 1] = es[i]
  <2>1. es \in Seq(Seq(Byte)) /\ e \in Seq(Byte)
    BY ONLY <1>9, <1>11, Zenon
  <2>2. /\ <<e>> \o es \in Seq(Seq(Byte)) /\ Len(<<e>> \o es) = Len(es) + 1
        /\ (<<e>> \o es)[1] = e
        /\ \A i \in 1 .. Len(es) : (<<e>> \o es)[i + 1] = es[i]
    BY ONLY <2>1, ConsAt
  <2>. QED BY ONLY <1>9, <1>12, <2>2, Zenon
<1>14. \A i \in 1 .. n + 1 : fs[i] = gs[i]
  <2>1. fs[1] = gs[1]
    BY ONLY <1>3, <1>7, <1>10, <1>13, n \in Nat
  <2>2. \A i \in 1 .. n : i + 1 \in 1 .. n + 1
    BY ONLY n \in Nat
  <2>3. \A i \in 1 .. n : fs[i + 1] = gs[i + 1]
    BY ONLY <1>3, <1>9, <1>10, <1>13, <2>2, ZenonT(30)
  <2>. QED BY ONLY <1>4, <2>1, <2>3, Zenon
<1>15. fs = gs
  BY ONLY <1>10, <1>13, <1>14, SeqEq, Zenon
<1>. QED BY ONLY <1>1, <1>2, <1>3, <1>5, <1>6, <1>7, <1>8, <1>12, <1>15, Zenon

\* The same without the first message.
LEMMA EncsTail ==
    ASSUME NEW type \in {"fix", "dyn"}, NEW ms \in Seq(Seq(Byte)), AllSized(type, ms),
           Len(ms) > 0
    PROVE  /\ Tail(ms) \in Seq(Seq(Byte)) /\ Len(Tail(ms)) = Len(ms) - 1
           /\ AllSized(type, Tail(ms))
           /\ Encs(type, Tail(ms)) = Tail(Encs(type, ms))
           /\ Sized(type, ms[1]) /\ Encs(type, ms)[1] = Enc(type, ms[1])
           /\ Len(Encs(type, ms)[1]) = Room(type, ms[1])
           /\ Len(Encs(type, ms)) > 0 /\ Head(ms) = ms[1]
<1>1. PICK n \in Nat : n + 1 = Len(ms)
  <2>1. Len(ms) \in Nat /\ Len(ms) - 1 \in Nat /\ (Len(ms) - 1) + 1 = Len(ms)
    OBVIOUS
  <2>. QED BY ONLY <2>1, Zenon
<1>2. PICK ns : ns = Tail(ms)
  OBVIOUS
<1>3. /\ ns \in Seq(Seq(Byte)) /\ Len(ns) = n /\ \A i \in 1 .. n : ns[i] = ms[i + 1]
      /\ Head(ms) = ms[1]
  BY ONLY <1>1, <1>2, ms \in Seq(Seq(Byte)), n \in Nat
<1>4. \A i \in 1 .. n : i + 1 \in 1 .. n + 1
  BY ONLY n \in Nat
<1>5. 1 \in 1 .. n + 1 /\ n + 1 > 0 /\ n = (n + 1) - 1
  BY ONLY n \in Nat
<1>6. \A i \in 1 .. n + 1 : Sized(type, ms[i])
  BY ONLY <1>1, AllSized(type, ms), Zenon DEF AllSized
<1>7. AllSized(type, ns)
  BY ONLY <1>3, <1>4, <1>6, Zenon DEF AllSized
<1>8. PICK es : es = Encs(type, ms)
  OBVIOUS
<1>9. PICK fs : fs = Encs(type, ns)
  OBVIOUS
<1>10. /\ es \in Seq(Seq(Byte)) /\ Len(es) = n + 1
       /\ \A i \in 1 .. n + 1 : es[i] = Enc(type, ms[i]) /\ Len(es[i]) = Room(type, ms[i])
  <2>1. EncsAre(type, ms, es)
    BY ONLY <1>8, EncsNamed, type \in {"fix", "dyn"}, ms \in Seq(Seq(Byte)), AllSized(type, ms), Zenon
  <2>. QED BY ONLY <1>1, <2>1, Zenon DEF EncsAre
<1>11. fs \in Seq(Seq(Byte)) /\ Len(fs) = n /\ \A i \in 1 .. n : fs[i] = Enc(type, ns[i])
  <2>1. EncsAre(type, ns, fs)
    BY ONLY <1>3, <1>7, <1>9, EncsNamed, type \in {"fix", "dyn"}, Zenon
  <2>. QED BY ONLY <1>3, <2>1, Zenon DEF EncsAre
<1>12. PICK gs : gs = Tail(es)
  OBVIOUS
<1>13. gs \in Seq(Seq(Byte)) /\ Len(gs) = n /\ \A i \in 1 .. n : gs[i] = es[i + 1]
  BY ONLY <1>5, <1>10, <1>12, TailAt
<1>14. \A i \in 1 .. n : fs[i] = gs[i]
  BY ONLY <1>3, <1>4, <1>10, <1>11, <1>13, Zenon
<1>15. fs = gs
  BY ONLY <1>11, <1>13, <1>14, SeqEq, Zenon
<1>. QED BY ONLY <1>1, <1>2, <1>3, <1>5, <1>6, <1>7, <1>8, <1>9, <1>10, <1>12, <1>15, Zenon

-----------------------------------------------------------------------------
(***************************************************************************)
(* What the operations make of a ring that stores the messages ms.         *)
(***************************************************************************)
\* An empty ring stores no messages, whatever its memory holds.
LEMMA StoresEmpty ==
    ASSUME NEW r \in Ring, r.head = 0, r.tail = 0, r.freesize = RingSize
    PROVE  Stores(r, <<>>)
<1>1. RingInv(r) /\ Used(r) = 0
  BY Sizes DEF RingInv, Ring, Used, Off, Wrapped
<1>2. Content(r) = <<>>
  <2>1. Content(r) \in Seq(Byte) /\ Len(Content(r)) = 0
    BY ONLY <1>1, ContentAt, r \in Ring
  <2>. QED BY ONLY <2>1
<1>3. /\ <<>> \in Seq(Seq(Byte)) /\ Len(<<>>) = 0 /\ 1 .. 0 = {}
      /\ Encs(r.type, <<>>) = <<>> /\ AllSized(r.type, <<>>)
  BY DEF Encs, AllSized
<1>4. Cut(Content(r), Encs(r.type, <<>>), [i \in {0} |-> 0])
  BY ONLY <1>2, <1>3, CutNone, Zenon
<1>5. \E f : Cut(Content(r), Encs(r.type, <<>>), f)
  BY ONLY <1>4, Zenon
<1>6. Used(r) = Len(<<>>) * BlkSize /\ Blocks(r.head)
  <2>1. Len(<<>>) * BlkSize = 0
    BY ONLY <1>3, Sizes
  <2>. QED BY ONLY <1>1, <2>1, BlocksSizes, r.head = 0, Zenon
<1>. QED BY ONLY <1>1, <1>3, <1>5, <1>6, Zenon DEF Stores

\* Stores, taken apart.
LEMMA StoresParts ==
    ASSUME NEW r, NEW ms, Stores(r, ms)
    PROVE  /\ r \in Ring /\ RingInv(r) /\ r.type \in {"fix", "dyn"}
           /\ r.head \in 0 .. RingSize
           /\ Used(r) = RingSize - r.freesize /\ r.freesize \in 0 .. RingSize
           /\ Used(r) \in 0 .. RingSize
           /\ Content(r) \in Seq(Byte) /\ Len(Content(r)) = Used(r)
           /\ ms \in Seq(Seq(Byte)) /\ AllSized(r.type, ms) /\ Len(ms) \in Nat
           /\ Encs(r.type, ms) \in Seq(Seq(Byte))
<1>1. /\ RingInv(r) /\ r \in Ring /\ ms \in Seq(Seq(Byte)) /\ AllSized(r.type, ms)
  BY DEF Stores, RingInv
<1>2. /\ r.type \in {"fix", "dyn"} /\ r.head \in 0 .. RingSize
      /\ Used(r) = RingSize - r.freesize /\ r.freesize \in 0 .. RingSize
      /\ Used(r) \in 0 .. RingSize
  BY ONLY <1>1, RingFields
<1>3. Content(r) \in Seq(Byte) /\ Len(Content(r)) = Used(r)
  BY ONLY <1>1, ContentAt, Zenon
<1>4. Encs(r.type, ms) \in Seq(Seq(Byte))
  BY ONLY <1>1, <1>2, EncsProps, Zenon
<1>5. Len(ms) \in Nat
  BY ONLY <1>1
<1>. QED BY ONLY <1>1, <1>2, <1>3, <1>4, <1>5, Zenon

\* A message pushed is behind the others.
LEMMA StoresPush ==
    ASSUME NEW r, NEW ms, Stores(r, ms), NEW m, Sized(r.type, m), CanPush(r, Len(m))
    PROVE  /\ Stores(ringbuf_push(r, m), Append(ms, m))
           /\ ringbuf_push(r, m).type = r.type
<1>1. PICK q : q = ringbuf_push(r, m)
  OBVIOUS
<1>2. /\ r \in Ring /\ RingInv(r) /\ r.type \in {"fix", "dyn"}
      /\ Used(r) = RingSize - r.freesize /\ r.freesize \in 0 .. RingSize
      /\ Content(r) \in Seq(Byte)
      /\ ms \in Seq(Seq(Byte)) /\ AllSized(r.type, ms) /\ Len(ms) \in Nat
      /\ Encs(r.type, ms) \in Seq(Seq(Byte))
  BY ONLY Stores(r, ms), StoresParts, Zenon
<1>3. PICK type : type = r.type
  OBVIOUS
<1>4. type \in {"fix", "dyn"} /\ Sized(type, m) /\ m \in Seq(Byte)
  <2>1. type \in {"fix", "dyn"} /\ Sized(type, m)
    BY ONLY <1>2, <1>3, Sized(r.type, m), Zenon
  <2>. QED BY ONLY <2>1, Zenon DEF Sized
<1>5. Pushed(r, m, q)
  BY ONLY <1>1, <1>2, PushRing, Sized(r.type, m), CanPush(r, Len(m)), Zenon
<1>6. /\ RingInv(q) /\ q.type = type /\ q.head = r.head
      /\ q.freesize = r.freesize - Room(type, m)
      /\ Content(q) = Content(r) \o Enc(type, m)
  BY ONLY <1>3, <1>5, Zenon DEF Pushed
<1>7. /\ Append(ms, m) \in Seq(Seq(Byte)) /\ Len(Append(ms, m)) = Len(ms) + 1
      /\ AllSized(type, Append(ms, m))
      /\ Encs(type, Append(ms, m)) = Append(Encs(type, ms), Enc(type, m))
  BY ONLY <1>2, <1>3, <1>4, EncsBack, Zenon
<1>8. Enc(type, m) \in Seq(Byte) /\ Len(Enc(type, m)) > 0
  <2>1. /\ Enc(type, m) \in Seq(Byte) /\ Len(Enc(type, m)) = Room(type, m)
        /\ Room(type, m) \in Nat \ {0}
    BY ONLY <1>4, EncProps
  <2>. QED BY ONLY <2>1
<1>9. \E g : Cut(Content(q), Encs(type, Append(ms, m)), g)
  <2>1. PICK f : Cut(Content(r), Encs(type, ms), f)
    BY ONLY <1>3, Stores(r, ms), Zenon DEF Stores
  <2>2. \E g : Cut(Content(r) \o Enc(type, m), Append(Encs(type, ms), Enc(type, m)), g)
    BY ONLY <1>2, <1>3, <1>8, <2>1, CutBack, Zenon
  <2>. QED BY ONLY <1>6, <1>7, <2>2, Zenon
<1>10. ASSUME type = "fix"
       PROVE  Used(q) = Len(Append(ms, m)) * BlkSize /\ Blocks(q.head)
  <2>1. Used(r) = Len(ms) * BlkSize /\ Blocks(r.head)
    BY ONLY <1>3, <1>10, Stores(r, ms), Zenon DEF Stores
  <2>2. Room(type, m) = BlkSize
    BY ONLY <1>4, <1>10, Sizes DEF Room, Sized
  <2>3. Used(q) = Used(r) + BlkSize
    BY ONLY <1>2, <1>6, <2>2, Sizes DEF Used
  <2>4. (Len(ms) + 1) * BlkSize = Len(ms) * BlkSize + BlkSize
    BY ONLY <1>2, Sizes
  <2>. QED BY ONLY <1>6, <1>7, <2>1, <2>3, <2>4, Zenon
<1>11. Stores(q, Append(ms, m))
  BY ONLY <1>6, <1>7, <1>9, <1>10, Zenon DEF Stores
<1>. QED BY ONLY <1>1, <1>3, <1>6, <1>11, Zenon

\* A message pushed to the front is before the others, as it is laid out there.
LEMMA StoresFront ==
    ASSUME NEW r, NEW ms, Stores(r, ms), NEW m, Sized(r.type, m), CanPush(r, Len(m))
    PROVE  /\ Stores(ringbuf_head_push(r, m), <<Rotated(m, Turn(r, m))>> \o ms)
           /\ ringbuf_head_push(r, m).type = r.type
           /\ Turn(r, m) \in 0 .. Len(m)
<1>1. PICK q : q = ringbuf_head_push(r, m)
  OBVIOUS
<1>2. /\ r \in Ring /\ RingInv(r) /\ r.type \in {"fix", "dyn"} /\ r.head \in 0 .. RingSize
      /\ Used(r) = RingSize - r.freesize /\ r.freesize \in 0 .. RingSize
      /\ Content(r) \in Seq(Byte)
      /\ ms \in Seq(Seq(Byte)) /\ AllSized(r.type, ms) /\ Len(ms) \in Nat
      /\ Encs(r.type, ms) \in Seq(Seq(Byte))
  BY ONLY Stores(r, ms), StoresParts, Zenon
<1>3. PICK type : type = r.type
  OBVIOUS
<1>4. /\ type \in {"fix", "dyn"} /\ Sized(type, m) /\ m \in Seq(Byte)
      /\ Len(m) \in Nat \ {0}
  <2>1. type \in {"fix", "dyn"} /\ Sized(type, m)
    BY ONLY <1>2, <1>3, Sized(r.type, m), Zenon
  <2>. QED BY ONLY <2>1, Sizes DEF Sized
<1>5. PICK k : k = Turn(r, m)
  OBVIOUS
<1>6. k \in 0 .. Len(m)
  <2>1. WrapLen(r, Len(m)) \in 0 .. Len(m) - 1
    BY ONLY <1>2, <1>4, WrapBelow, Zenon
  <2>2. k = 0 \/ k = WrapLen(r, Len(m))
    BY ONLY <1>5, Zenon DEF Turn
  <2>. QED BY ONLY <1>4, <2>1, <2>2
<1>7. PICK d : d = Rotated(m, k)
  OBVIOUS
<1>8. d \in Seq(Byte) /\ Len(d) = Len(m)
  BY ONLY <1>4, <1>6, <1>7, RotatedProps, Zenon
<1>9. Sized(type, d) /\ Room(type, d) = Room(type, m)
  BY ONLY <1>4, <1>8 DEF Sized, Room
<1>10. type = "fix" => BlkSize <= FrontPos(r)
  <2>1. type = "fix" => Blocks(r.head)
    BY ONLY <1>3, Stores(r, ms), Zenon DEF Stores
  <2>2. Blocks(r.head) => BlkSize <= IF r.head = 0 THEN RingSize ELSE r.head
    BY ONLY <1>2, BlockFits, Zenon
  <2>. QED BY ONLY <2>1, <2>2, Zenon DEF FrontPos
<1>11. Fronted(r, m, q)
  BY ONLY <1>1, <1>2, <1>3, <1>10, HeadPushRing, Sized(r.type, m), CanPush(r, Len(m)), Zenon
<1>12. /\ RingInv(q) /\ q.type = type
       /\ q.freesize = r.freesize - Room(type, m)
       /\ Content(q) = Enc(type, d) \o Content(r)
       /\ type = "fix" => Wrapped(Off(q.head) + BlkSize) = Off(r.head)
  BY ONLY <1>3, <1>5, <1>7, <1>11, Zenon DEF Fronted
<1>13. /\ <<d>> \o ms \in Seq(Seq(Byte)) /\ Len(<<d>> \o ms) = Len(ms) + 1
       /\ AllSized(type, <<d>> \o ms)
       /\ Encs(type, <<d>> \o ms) = <<Enc(type, d)>> \o Encs(type, ms)
  BY ONLY <1>2, <1>3, <1>4, <1>8, <1>9, EncsFront, Zenon
<1>14. Enc(type, d) \in Seq(Byte) /\ Len(Enc(type, d)) > 0
  <2>1. /\ Enc(type, d) \in Seq(Byte) /\ Len(Enc(type, d)) = Room(type, d)
        /\ Room(type, d) \in Nat \ {0}
    BY ONLY <1>4, <1>9, EncProps
  <2>. QED BY ONLY <2>1
<1>15. \E g : Cut(Content(q), Encs(type, <<d>> \o ms), g)
  <2>1. PICK f : Cut(Content(r), Encs(type, ms), f)
    BY ONLY <1>3, Stores(r, ms), Zenon DEF Stores
  <2>2. \E g : Cut(Enc(type, d) \o Content(r), <<Enc(type, d)>> \o Encs(type, ms), g)
    BY ONLY <1>2, <1>3, <1>14, <2>1, CutFront, Zenon
  <2>. QED BY ONLY <1>12, <1>13, <2>2, Zenon
<1>16. ASSUME type = "fix"
       PROVE  Used(q) = Len(<<d>> \o ms) * BlkSize /\ Blocks(q.head)
  <2>1. Used(r) = Len(ms) * BlkSize /\ Blocks(r.head)
    BY ONLY <1>3, <1>16, Stores(r, ms), Zenon DEF Stores
  <2>2. Room(type, m) = BlkSize
    BY ONLY <1>4, <1>16, Sizes DEF Room, Sized
  <2>3. Used(q) = Used(r) + BlkSize
    BY ONLY <1>2, <1>12, <2>2, Sizes DEF Used
  <2>4. (Len(ms) + 1) * BlkSize = Len(ms) * BlkSize + BlkSize
    BY ONLY <1>2, Sizes
  <2>5. q.head \in 0 .. RingSize
    BY ONLY <1>12, RingFields, Zenon DEF RingInv
  <2>6. Blocks(q.head)
    BY ONLY <1>2, <1>12, <1>16, <2>1, <2>5, BlocksHead, Zenon
  <2>. QED BY ONLY <1>13, <2>1, <2>3, <2>4, <2>6, Zenon
<1>17. Stores(q, <<d>> \o ms)
  BY ONLY <1>12, <1>13, <1>15, <1>16, Zenon DEF Stores
<1>. QED BY ONLY <1>1, <1>3, <1>5, <1>6, <1>7, <1>12, <1>17, Zenon

\* A message popped is the first, and the others are left.
LEMMA StoresPop ==
    ASSUME NEW r, NEW ms, Stores(r, ms), ms # <<>>
    PROVE  /\ Stores(ringbuf_pop(r).ring, Tail(ms))
           /\ ringbuf_pop(r).ring.type = r.type
           /\ ringbuf_pop(r).bytes = Head(ms)
<1>1. PICK p : p = ringbuf_pop(r)
  OBVIOUS
<1>2. /\ r \in Ring /\ RingInv(r) /\ r.type \in {"fix", "dyn"} /\ r.head \in 0 .. RingSize
      /\ Used(r) = RingSize - r.freesize /\ r.freesize \in 0 .. RingSize
      /\ Content(r) \in Seq(Byte) /\ Len(Content(r)) = Used(r)
      /\ ms \in Seq(Seq(Byte)) /\ AllSized(r.type, ms) /\ Len(ms) \in Nat
      /\ Encs(r.type, ms) \in Seq(Seq(Byte))
  BY ONLY Stores(r, ms), StoresParts, Zenon
<1>3. PICK type : type = r.type
  OBVIOUS
<1>4. Len(ms) > 0
  BY ONLY <1>2, ms # <<>>
<1>5. PICK m : m = ms[1]
  OBVIOUS
<1>6. /\ Tail(ms) \in Seq(Seq(Byte)) /\ Len(Tail(ms)) = Len(ms) - 1
      /\ AllSized(type, Tail(ms)) /\ Encs(type, Tail(ms)) = Tail(Encs(type, ms))
      /\ Sized(type, m) /\ Encs(type, ms)[1] = Enc(type, m)
      /\ Len(Encs(type, ms)[1]) = Room(type, m)
      /\ Len(Encs(type, ms)) > 0 /\ Head(ms) = m
  BY ONLY <1>2, <1>3, <1>4, <1>5, EncsTail, Zenon
<1>7. PICK f : Cut(Content(r), Encs(type, ms), f)
  BY ONLY <1>3, Stores(r, ms), Zenon DEF Stores
<1>8. /\ Room(type, m) <= Used(r)
      /\ \A j \in 1 .. Room(type, m) : Content(r)[j] = Enc(type, m)[j]
      /\ \E g : Cut(SubSeq(Content(r), Room(type, m) + 1, Used(r)), Tail(Encs(type, ms)), g)
  <2>1. /\ Len(Encs(type, ms)[1]) <= Len(Content(r))
        /\ \A j \in 1 .. Len(Encs(type, ms)[1]) : Content(r)[j] = Encs(type, ms)[1][j]
        /\ \E g : Cut(SubSeq(Content(r), Len(Encs(type, ms)[1]) + 1, Len(Content(r))),
                      Tail(Encs(type, ms)), g)
    BY ONLY <1>2, <1>3, <1>6, <1>7, CutTail, Zenon
  <2>. QED BY ONLY <1>2, <1>6, <2>1, Zenon
<1>9. First(r, m)
  BY ONLY <1>3, <1>6, <1>8, Zenon DEF First
<1>10. type = "fix" => Off(r.head) + BlkSize <= RingSize
  <2>1. type = "fix" => Blocks(r.head)
    BY ONLY <1>3, Stores(r, ms), Zenon DEF Stores
  <2>2. Blocks(r.head) => Off(r.head) + BlkSize <= RingSize
    BY ONLY <1>2, BlockFits, Zenon
  <2>. QED BY ONLY <2>1, <2>2, Zenon
<1>11. Popped(r, m, p)
  BY ONLY <1>1, <1>2, <1>3, <1>9, <1>10, PopRing, Zenon
<1>12. /\ RingInv(p.ring) /\ p.ring.type = type
       /\ p.ring.freesize = r.freesize + Room(type, m)
       /\ Off(p.ring.head) = Wrapped(Off(r.head) + Room(type, m))
       /\ p.bytes = m
       /\ Content(p.ring) = SubSeq(Content(r), Room(type, m) + 1, Used(r))
  BY ONLY <1>3, <1>11, Zenon DEF Popped
<1>13. \E g : Cut(Content(p.ring), Encs(type, Tail(ms)), g)
  BY ONLY <1>6, <1>8, <1>12, Zenon
<1>14. ASSUME type = "fix"
       PROVE  Used(p.ring) = Len(Tail(ms)) * BlkSize /\ Blocks(p.ring.head)
  <2>1. Used(r) = Len(ms) * BlkSize /\ Blocks(r.head)
    BY ONLY <1>3, <1>14, Stores(r, ms), Zenon DEF Stores
  <2>2. Room(type, m) = BlkSize
    BY ONLY <1>6, <1>14, Sizes DEF Room, Sized
  <2>3. Used(p.ring) = Used(r) - BlkSize
    BY ONLY <1>2, <1>12, <2>2, Sizes DEF Used
  <2>4. (Len(ms) - 1) * BlkSize = Len(ms) * BlkSize - BlkSize
    BY ONLY <1>2, Sizes
  <2>5. p.ring.head \in 0 .. RingSize
    BY ONLY <1>12, RingFields, Zenon DEF RingInv
  <2>6. Wrapped(Off(r.head) + BlkSize) = Off(p.ring.head)
    BY ONLY <1>12, <2>2, Zenon
  <2>7. Blocks(p.ring.head)
    BY ONLY <1>2, <2>1, <2>5, <2>6, BlocksHead, Zenon
  <2>. QED BY ONLY <1>6, <2>1, <2>3, <2>4, <2>7, Zenon
<1>15. Stores(p.ring, Tail(ms))
  BY ONLY <1>6, <1>12, <1>13, <1>14, Zenon DEF Stores
<1>. QED BY ONLY <1>1, <1>3, <1>6, <1>12, <1>15, Zenon

\* A "fix" ring with fewer messages than blocks has room for one more.
LEMMA StoresRoom ==
    ASSUME NEW r, NEW ms, Stores(r, ms), r.type = "fix",
           Len(ms) < RingSize \div BlkSize, NEW n
    PROVE  CanPush(r, n)
<1>1. /\ Used(r) = RingSize - r.freesize /\ r.freesize \in 0 .. RingSize
      /\ Len(ms) \in Nat
  BY ONLY Stores(r, ms), StoresParts, Zenon
<1>2. Used(r) = Len(ms) * BlkSize
  BY ONLY Stores(r, ms), r.type = "fix", Zenon DEF Stores
<1>3. PICK k \in Nat : k = Len(ms)
  BY ONLY <1>1, Zenon
<1>4. PICK d \in Nat : d = RingSize \div BlkSize
  BY ONLY DivModExists, Sizes
<1>5. RingSize = d * BlkSize
  <2>1. RingSize = (RingSize \div BlkSize) * BlkSize + (RingSize % BlkSize)
    BY ONLY DivModExists, Sizes
  <2>2. d * BlkSize \in Nat /\ RingSize % BlkSize = 0
    BY ONLY Sizes, d \in Nat
  <2>. QED BY ONLY <1>4, <2>1, <2>2
<1>6. PICK e \in Nat : d = (k + e) + 1
  <2>1. d - k - 1 \in Nat /\ d = (k + (d - k - 1)) + 1
    BY ONLY <1>3, <1>4, d \in Nat, k \in Nat, Len(ms) < RingSize \div BlkSize
  <2>. QED BY ONLY <2>1, Zenon
<1>7. RingSize = (k * BlkSize + e * BlkSize) + BlkSize
  BY ONLY <1>5, <1>6, Sizes, k \in Nat, e \in Nat
<1>8. k * BlkSize \in Nat /\ e * BlkSize \in Nat
  BY ONLY Sizes, k \in Nat, e \in Nat
<1>9. r.freesize >= BlkSize
  BY ONLY <1>1, <1>2, <1>3, <1>7, <1>8, Sizes
<1>. QED BY ONLY <1>1, <1>9, Sizes, r.type = "fix" DEF CanPush, ringbuf_is_full

-----------------------------------------------------------------------------
(***************************************************************************)
(* The application sends to the front of a "dyn" ring only messages whose  *)
(* bytes are all the same.  ringbuf_head_push splits other messages in the *)
(* wrong order when they wrap (the run MCQueueFront shows it), and then    *)
(* what is received is not what was sent.                                  *)
(***************************************************************************)
FrontUniform == \A m \in FrontMsg : \A i, j \in 1 .. Len(m) : m[i] = m[j]

\* Store: one message more in the ring, and under FrontUniform the one sent.
LEMMA StoreRing ==
    ASSUME NEW r, NEW ms, Stores(r, ms), NEW m, Sized(r.type, m), CanPush(r, Len(m)),
           NEW to \in {"back", "front"}, to = "front" /\ r.type = "dyn" => m \in FrontMsg
    PROVE  \E ns : LET q == IF to = "front" THEN ringbuf_head_push(r, m)
                            ELSE ringbuf_push(r, m)
                   IN  /\ Stores(q, ns) /\ q.type = r.type /\ Len(ns) = Len(ms) + 1
                       /\ FrontUniform => ns = IF to = "back" THEN Append(ms, m)
                                               ELSE <<m>> \o ms
<1>1. r.type \in {"fix", "dyn"} /\ ms \in Seq(Seq(Byte)) /\ m \in Seq(Byte)
  <2>1. r.type \in {"fix", "dyn"} /\ ms \in Seq(Seq(Byte))
    BY ONLY Stores(r, ms), StoresParts, Zenon
  <2>. QED BY ONLY <2>1, Sized(r.type, m), Zenon DEF Sized
<1>2. CASE to = "back"
  <2>1. Stores(ringbuf_push(r, m), Append(ms, m)) /\ ringbuf_push(r, m).type = r.type
    BY ONLY Stores(r, ms), Sized(r.type, m), CanPush(r, Len(m)), StoresPush, Zenon
  <2>2. Len(Append(ms, m)) = Len(ms) + 1
    BY ONLY <1>1
  <2>3. "back" # "front"
    OBVIOUS
  <2>. QED BY ONLY <1>2, <2>1, <2>2, <2>3, Zenon
<1>3. CASE to = "front"
  <2>1. PICK k : k = Turn(r, m)
    OBVIOUS
  <2>2. PICK d : d = Rotated(m, k)
    OBVIOUS
  <2>3. /\ Stores(ringbuf_head_push(r, m), <<d>> \o ms)
        /\ ringbuf_head_push(r, m).type = r.type
        /\ k \in 0 .. Len(m)
    BY ONLY <2>1, <2>2, Stores(r, ms), Sized(r.type, m), CanPush(r, Len(m)), StoresFront, Zenon
  <2>4. d \in Seq(Byte)
    BY ONLY <1>1, <2>2, <2>3, RotatedProps, Zenon
  <2>5. Len(<<d>> \o ms) = Len(ms) + 1
    BY ONLY <1>1, <2>4
  <2>6. FrontUniform => d = m
    <3>1. CASE r.type = "fix"
      <4>1. k = 0
        BY ONLY <2>1, <3>1, Zenon DEF Turn
      <4>. QED BY ONLY <1>1, <2>2, <2>3, <4>1, RotatedProps, Zenon
    <3>2. CASE r.type = "dyn"
      <4>1. FrontUniform => \A i, j \in 1 .. Len(m) : m[i] = m[j]
        BY ONLY <1>3, <3>2, to = "front" /\ r.type = "dyn" => m \in FrontMsg, Zenon
           DEF FrontUniform
      <4>2. (\A i, j \in 1 .. Len(m) : m[i] = m[j]) => Rotated(m, k) = m
        BY ONLY <1>1, <2>3, RotatedProps, Zenon
      <4>. QED BY ONLY <2>2, <4>1, <4>2, Zenon
    <3>. QED BY <1>1, <3>1, <3>2
  <2>7. "front" # "back"
    OBVIOUS
  <2>. QED BY ONLY <1>3, <2>3, <2>5, <2>6, <2>7, Zenon
<1>. QED BY <1>2, <1>3

-----------------------------------------------------------------------------
(***************************************************************************)
(* The inductive invariant.  The waiters and their outcomes: the tasks on  *)
(* blk_list are in a receive call, in the order of their priorities, and   *)
(* blk_state tells which of the others have an outcome to return with.     *)
(***************************************************************************)
WaitOf(list, state, msg, recv) ==
    /\ list \in Seq(Task)
    /\ state \in [Task -> BlkStates]
    /\ msg \in [Task -> Msg \cup {<<>>}]
    /\ recv \subseteq Task
    /\ IsInjective(list) /\ Sorted(list, Pri)
    /\ ToSet(list) \subseteq recv
    /\ \A t \in Task : state[t] # "none" <=> t \in recv \ ToSet(list)

\* The messages stored: none while there is no object.
StoredOf(obj, r) == IF obj = "none" THEN <<>> ELSE Messages(r)

\* The ring, the kind of the object and its counter agree.
StoreOf(obj, r, n) ==
    /\ obj \in ObjTypes
    /\ r \in Ring
    /\ n \in 0 .. RingSize
    /\ obj = "queue" => r.type = "fix"
    /\ obj # "none" => Stores(r, StoredOf(obj, r)) /\ Len(StoredOf(obj, r)) = n
    /\ FrontUniform => ToSet(StoredOf(obj, r)) \subseteq Msg

\* The inductive invariant: a task only waits at an object that is in use and stores
\* no message.
QueueInv ==
    /\ WaitOf(blk_list, blk_state, task_msg, in_recv)
    /\ StoreOf(obj_type, ringbuf, cur_num)
    /\ blk_list # <<>> => obj_type # "none" /\ cur_num = 0

\* A ring that stores messages keeps StoreOf.
LEMMA StoreOfStores ==
    ASSUME NEW obj \in {"queue", "buf_queue"}, NEW r, NEW n, NEW ms, Stores(r, ms),
           Len(ms) = n, obj = "queue" => r.type = "fix", FrontUniform => ToSet(ms) \subseteq Msg
    PROVE  StoreOf(obj, r, n) /\ StoredOf(obj, r) = ms
<1>1. r \in Ring /\ Messages(r) = ms /\ Len(ms) \in 0 .. RingSize
  BY ONLY Stores(r, ms), StoresReads, Zenon
<1>2. obj \in ObjTypes /\ obj # "none"
  BY DEF ObjTypes
<1>3. StoredOf(obj, r) = ms
  BY ONLY <1>1, <1>2, Zenon DEF StoredOf
<1>. QED BY ONLY <1>1, <1>2, <1>3, Stores(r, ms), Len(ms) = n,
                 obj = "queue" => r.type = "fix", FrontUniform => ToSet(ms) \subseteq Msg, Zenon
        DEF StoreOf

\* What StoreOf says of an object in use.
InUse(obj, r, n, ms) ==
    /\ Stores(r, ms) /\ Len(ms) = n
    /\ ms \in Seq(Seq(Byte))
    /\ obj \in {"queue", "buf_queue"} /\ (obj = "queue" => r.type = "fix")
    /\ FrontUniform => ToSet(ms) \subseteq Msg
    /\ n \in 0 .. RingSize
    /\ n = 0 <=> ms = <<>>
    /\ ringbuf_is_empty(r) <=> ms = <<>>

\* What a reader of the ring relies on: counter, emptiness and content agree.
LEMMA StoreOfParts ==
    ASSUME NEW obj, NEW r, NEW n, StoreOf(obj, r, n), obj # "none"
    PROVE  InUse(obj, r, n, StoredOf(obj, r))
<1>1. PICK ms : ms = StoredOf(obj, r)
  OBVIOUS
<1>2. /\ Stores(r, ms) /\ Len(ms) = n /\ n \in 0 .. RingSize
      /\ (obj = "queue" => r.type = "fix") /\ (FrontUniform => ToSet(ms) \subseteq Msg)
      /\ obj \in ObjTypes
  BY ONLY <1>1, StoreOf(obj, r, n), obj # "none", Zenon DEF StoreOf
<1>3. ms \in Seq(Seq(Byte))
  BY ONLY <1>2, StoresReads, Zenon
<1>4. ringbuf_is_empty(r) <=> ms = <<>>
  BY ONLY <1>2, StoresReads
<1>5. n = 0 <=> ms = <<>>
  BY ONLY <1>2, <1>3
<1>6. obj \in {"queue", "buf_queue"}
  BY ONLY <1>2, obj # "none" DEF ObjTypes
<1>7. InUse(obj, r, n, ms)
  BY ONLY <1>2, <1>3, <1>4, <1>5, <1>6, Zenon DEF InUse
<1>. QED BY ONLY <1>1, <1>7, Zenon

-----------------------------------------------------------------------------
(***************************************************************************)
(* What each operation makes of the waiters, and of the outcomes that      *)
(* MsgQueue sees: those of the tasks whose wait has ended.                 *)
(***************************************************************************)
OutcomeOf(state, msg, t) ==
    IF state[t] = "finish" THEN Outcome("success", msg[t]) ELSE Outcome(state[t], <<>>)

\* What MsgQueue calls got: the outcome of each task that has left blk_list and not
\* yet returned.
GotOf(list, state, msg, recv) ==
    [t \in Task |-> IF t \in recv \ ToSet(list) THEN OutcomeOf(state, msg, t)
                    ELSE Outcome("none", <<>>)]

\* The outcome of one task.
LEMMA GotAt ==
    ASSUME NEW list, NEW state, NEW msg, NEW recv, NEW t \in Task
    PROVE  GotOf(list, state, msg, recv)[t]
             = IF t \in recv \ ToSet(list) THEN OutcomeOf(state, msg, t)
               ELSE Outcome("none", <<>>)
BY DEF GotOf

\* f with the value v for the tasks in S.
Over(S, v, f) == [t \in Task |-> IF t \in S THEN v ELSE f[t]]

\* task_msg_recv: the first n waiters are done and have the message.
Handed(list, state, msg, recv, T, m, list2, state2, msg2) ==
    /\ WaitOf(list2, state2, msg2, recv)
    /\ ToSet(list2) = ToSet(list) \ T
    /\ T \subseteq ToSet(list)
    /\ GotOf(list2, state2, msg2, recv)
         = Over(T, Outcome("success", m), GotOf(list, state, msg, recv))

\* The first n waiters.
Firsts(list, n) == {list[i] : i \in 1 .. n}

\* task_msg_recv, once for a send and for each waiter with WAKE_ALL_TASK.
LEMMA WaitHand ==
    ASSUME NEW list, NEW state, NEW msg, NEW recv, WaitOf(list, state, msg, recv),
           NEW n \in 1 .. Len(list), NEW m \in Msg
    PROVE  Handed(list, state, msg, recv, Firsts(list, n), m,
                  SubSeq(list, n + 1, Len(list)),
                  Over(Firsts(list, n), "finish", state), Over(Firsts(list, n), m, msg))
<1>. SUFFICES ASSUME NEW T, T = {list[i] : i \in 1 .. n},
                     NEW list2, list2 = SubSeq(list, n + 1, Len(list)),
                     NEW state2, state2 = Over(T, "finish", state),
                     NEW msg2, msg2 = Over(T, m, msg)
              PROVE  Handed(list, state, msg, recv, T, m, list2, state2, msg2)
  BY Zenon DEF Firsts
<1>1. /\ list \in Seq(Task) /\ state \in [Task -> BlkStates]
      /\ msg \in [Task -> Msg \cup {<<>>}] /\ recv \subseteq Task
      /\ IsInjective(list) /\ Sorted(list, Pri) /\ ToSet(list) \subseteq recv
      /\ \A t \in Task : state[t] # "none" <=> t \in recv \ ToSet(list)
  BY ONLY WaitOf(list, state, msg, recv), Zenon DEF WaitOf
<1>2. n \in 0 .. Len(list)
  BY ONLY <1>1, n \in 1 .. Len(list)
<1>3. /\ list2 \in Seq(Task) /\ T \subseteq ToSet(list)
      /\ ToSet(list2) = ToSet(list) \ T
      /\ IsInjective(list2) /\ Sorted(list2, Pri)
  BY ONLY <1>1, <1>2, T = {list[i] : i \in 1 .. n},
          list2 = SubSeq(list, n + 1, Len(list)), DropProps, Zenon
<1>4. \A t \in Task : state2[t] = IF t \in T THEN "finish" ELSE state[t]
  BY ONLY state2 = Over(T, "finish", state), Zenon DEF Over
<1>5. \A t \in Task : msg2[t] = IF t \in T THEN m ELSE msg[t]
  BY ONLY msg2 = Over(T, m, msg), Zenon DEF Over
<1>6. state2 \in [Task -> BlkStates]
  BY ONLY <1>1, state2 = Over(T, "finish", state)
     DEF BlkStates, Over
<1>7. msg2 \in [Task -> Msg \cup {<<>>}]
  BY ONLY <1>1, m \in Msg, msg2 = Over(T, m, msg) DEF Over
<1>8. \A t \in Task : t \in recv \ ToSet(list2) <=> t \in T \/ t \in recv \ ToSet(list)
  BY ONLY <1>1, <1>3
<1>9. \A t \in Task : state2[t] # "none" <=> t \in recv \ ToSet(list2)
  BY ONLY <1>1, <1>3, <1>4, <1>8
<1>10. WaitOf(list2, state2, msg2, recv)
  BY ONLY <1>1, <1>3, <1>6, <1>7, <1>9 DEF WaitOf
<1>11. ASSUME NEW t \in Task
       PROVE  GotOf(list2, state2, msg2, recv)[t]
                = IF t \in T THEN Outcome("success", m) ELSE GotOf(list, state, msg, recv)[t]
  <2>1. CASE t \in T
    <3>1. t \in recv \ ToSet(list2)
      BY ONLY <1>8, <2>1, t \in Task, Zenon
    <3>2. OutcomeOf(state2, msg2, t) = Outcome("success", m)
      BY ONLY <1>4, <1>5, <2>1, t \in Task, Zenon DEF OutcomeOf
    <3>. QED BY ONLY <2>1, <3>1, <3>2, t \in Task, GotAt, Zenon
  <2>2. CASE t \notin T
    <3>1. t \in recv \ ToSet(list2) <=> t \in recv \ ToSet(list)
      BY ONLY <1>8, <2>2, t \in Task, Zenon
    <3>2. OutcomeOf(state2, msg2, t) = OutcomeOf(state, msg, t)
      BY ONLY <1>4, <1>5, <2>2, t \in Task, Zenon DEF OutcomeOf
    <3>3. GotOf(list2, state2, msg2, recv)[t]
            = IF t \in recv \ ToSet(list2) THEN OutcomeOf(state2, msg2, t)
              ELSE Outcome("none", <<>>)
      BY ONLY t \in Task, GotAt, Zenon
    <3>4. GotOf(list, state, msg, recv)[t]
            = IF t \in recv \ ToSet(list) THEN OutcomeOf(state, msg, t)
              ELSE Outcome("none", <<>>)
      BY ONLY t \in Task, GotAt, Zenon
    <3>. QED BY ONLY <2>2, <3>1, <3>2, <3>3, <3>4, Zenon
  <2>. QED BY <2>1, <2>2
<1>12. GotOf(list2, state2, msg2, recv)
         = Over(T, Outcome("success", m), GotOf(list, state, msg, recv))
  <2>1. GotOf(list2, state2, msg2, recv)
          = [t \in Task |-> GotOf(list2, state2, msg2, recv)[t]]
    BY ONLY Zenon DEF GotOf
  <2>. QED BY ONLY <1>11, <2>1, Zenon DEF Over
<1>. QED BY ONLY <1>3, <1>10, <1>12, Zenon DEF Handed

\* queue_del: every waiter is told.
Deleted(list, state, msg, recv, state2) ==
    /\ WaitOf(<<>>, state2, msg, recv)
    /\ ToSet(<<>>) = {}
    /\ GotOf(<<>>, state2, msg, recv)
         = Over(ToSet(list), Outcome("obj_del", <<>>), GotOf(list, state, msg, recv))

\* The loop of krhino_queue_del wakes every waiter with RHINO_BLK_DEL.
LEMMA WaitDelete ==
    ASSUME NEW list, NEW state, NEW msg, NEW recv, WaitOf(list, state, msg, recv)
    PROVE  Deleted(list, state, msg, recv, Over(ToSet(list), "obj_del", state))
<1>. SUFFICES ASSUME NEW state2, state2 = Over(ToSet(list), "obj_del", state)
              PROVE  Deleted(list, state, msg, recv, state2)
  BY Zenon
<1>1. /\ list \in Seq(Task) /\ state \in [Task -> BlkStates]
      /\ msg \in [Task -> Msg \cup {<<>>}] /\ recv \subseteq Task
      /\ IsInjective(list) /\ Sorted(list, Pri) /\ ToSet(list) \subseteq recv
      /\ \A t \in Task : state[t] # "none" <=> t \in recv \ ToSet(list)
  BY ONLY WaitOf(list, state, msg, recv), Zenon DEF WaitOf
<1>2. <<>> \in Seq(Task) /\ Len(<<>>) = 0 /\ 1 .. 0 = {} /\ DOMAIN <<>> = {}
  OBVIOUS
<1>3. IsInjective(<<>>) /\ Sorted(<<>>, Pri)
  BY ONLY <1>2, Zenon DEF IsInjective, Sorted
<1>4. ToSet(<<>>) = {}
  BY ONLY <1>2, ToSetProps, Zenon
<1>5. \A t \in Task : state2[t] = IF t \in ToSet(list) THEN "obj_del" ELSE state[t]
  BY ONLY state2 = Over(ToSet(list), "obj_del", state), Zenon DEF Over
<1>6. state2 \in [Task -> BlkStates]
  BY ONLY <1>1, state2 = Over(ToSet(list), "obj_del", state)
     DEF BlkStates, Over
<1>7. \A t \in Task : t \in recv \ ToSet(<<>>)
                      <=> t \in ToSet(list) \/ t \in recv \ ToSet(list)
  BY ONLY <1>1, <1>4
<1>8. \A t \in Task : state2[t] # "none" <=> t \in recv \ ToSet(<<>>)
  BY ONLY <1>1, <1>5, <1>7
<1>9. WaitOf(<<>>, state2, msg, recv)
  <2>1. ToSet(<<>>) \subseteq recv
    BY ONLY <1>4
  <2>. QED BY ONLY <1>1, <1>2, <1>3, <1>6, <1>8, <2>1, Zenon DEF WaitOf
<1>10. ASSUME NEW t \in Task
       PROVE  GotOf(<<>>, state2, msg, recv)[t]
                = IF t \in ToSet(list) THEN Outcome("obj_del", <<>>)
                  ELSE GotOf(list, state, msg, recv)[t]
  <2>1. GotOf(<<>>, state2, msg, recv)[t]
          = IF t \in recv \ ToSet(<<>>) THEN OutcomeOf(state2, msg, t)
            ELSE Outcome("none", <<>>)
    BY ONLY t \in Task, GotAt, Zenon
  <2>2. GotOf(list, state, msg, recv)[t]
          = IF t \in recv \ ToSet(list) THEN OutcomeOf(state, msg, t)
            ELSE Outcome("none", <<>>)
    BY ONLY t \in Task, GotAt, Zenon
  <2>3. CASE t \in ToSet(list)
    <3>1. OutcomeOf(state2, msg, t) = Outcome("obj_del", <<>>)
      BY ONLY <1>5, <2>3, t \in Task DEF OutcomeOf
    <3>. QED BY ONLY <1>7, <2>1, <2>3, <3>1, t \in Task, Zenon
  <2>4. CASE t \notin ToSet(list)
    <3>1. OutcomeOf(state2, msg, t) = OutcomeOf(state, msg, t)
      BY ONLY <1>5, <2>4, t \in Task, Zenon DEF OutcomeOf
    <3>2. t \in recv \ ToSet(<<>>) <=> t \in recv \ ToSet(list)
      BY ONLY <1>7, <2>4, t \in Task, Zenon
    <3>. QED BY ONLY <2>1, <2>2, <2>4, <3>1, <3>2, Zenon
  <2>. QED BY <2>3, <2>4
<1>11. GotOf(<<>>, state2, msg, recv)
         = Over(ToSet(list), Outcome("obj_del", <<>>), GotOf(list, state, msg, recv))
  <2>1. GotOf(<<>>, state2, msg, recv) = [t \in Task |-> GotOf(<<>>, state2, msg, recv)[t]]
    BY ONLY Zenon DEF GotOf
  <2>. QED BY ONLY <1>10, <2>1, Zenon DEF Over
<1>. QED BY ONLY <1>4, <1>9, <1>11, Zenon DEF Deleted

\* recv_pend: one waiter more, and no outcome changes.
Joined(list, state, msg, recv, t, list2) ==
    /\ WaitOf(list2, state, msg, recv \cup {t})
    /\ ToSet(list2) = ToSet(list) \cup {t}
    /\ GotOf(list2, state, msg, recv \cup {t}) = GotOf(list, state, msg, recv)

\* pend_to_blk_obj of a task that is in no receive call.
LEMMA WaitAdd ==
    ASSUME NEW list, NEW state, NEW msg, NEW recv, WaitOf(list, state, msg, recv),
           NEW t \in Task, t \notin recv
    PROVE  Joined(list, state, msg, recv, t, pend_list_add(list, t, Pri))
<1>. SUFFICES ASSUME NEW list2, list2 = pend_list_add(list, t, Pri)
              PROVE  Joined(list, state, msg, recv, t, list2)
  BY Zenon
<1>1. /\ list \in Seq(Task) /\ state \in [Task -> BlkStates]
      /\ msg \in [Task -> Msg \cup {<<>>}] /\ recv \subseteq Task
      /\ IsInjective(list) /\ Sorted(list, Pri) /\ ToSet(list) \subseteq recv
      /\ \A u \in Task : state[u] # "none" <=> u \in recv \ ToSet(list)
  BY ONLY WaitOf(list, state, msg, recv), Zenon DEF WaitOf
<1>2. t \notin ToSet(list)
  BY ONLY <1>1, t \notin recv, Zenon
<1>3. list2 \in Seq(Task) /\ ToSet(list2) = ToSet(list) \cup {t} /\ IsInjective(list2)
  <2>1. /\ pend_list_add(list, t, Pri) \in Seq(Task)
        /\ ToSet(pend_list_add(list, t, Pri)) = ToSet(list) \cup {t}
        /\ IsInjective(pend_list_add(list, t, Pri))
    BY ONLY <1>1, <1>2, t \in Task, PendListAdd
  <2>. QED BY ONLY <2>1, list2 = pend_list_add(list, t, Pri), Zenon
<1>4. Sorted(list2, Pri)
  <2>1. Pri \in [Task -> Int]
    BY ONLY QueueAssumption
  <2>. QED BY ONLY <1>1, <2>1, t \in Task, list2 = pend_list_add(list, t, Pri), SortedAdd, Zenon
<1>5. (recv \cup {t}) \ ToSet(list2) = recv \ ToSet(list)
  BY ONLY <1>1, <1>2, <1>3, t \notin recv
<1>6. WaitOf(list2, state, msg, recv \cup {t})
  <2>1. recv \cup {t} \subseteq Task /\ ToSet(list2) \subseteq recv \cup {t}
    BY ONLY <1>1, <1>3, t \in Task
  <2>. QED BY ONLY <1>1, <1>3, <1>4, <1>5, <2>1, Zenon DEF WaitOf
<1>7. GotOf(list2, state, msg, recv \cup {t}) = GotOf(list, state, msg, recv)
  BY ONLY <1>5, Zenon DEF GotOf
<1>. QED BY ONLY <1>3, <1>6, <1>7, Zenon DEF Joined

\* wait_end: a waiter less, with an outcome.
GaveUp(list, state, msg, recv, t, why, list2, state2) ==
    /\ WaitOf(list2, state2, msg, recv)
    /\ ToSet(list2) = ToSet(list) \ {t}
    /\ list # <<>>
    /\ GotOf(list2, state2, msg, recv)
         = [GotOf(list, state, msg, recv) EXCEPT ![t] = Outcome(why, <<>>)]

\* tick_list_update or krhino_task_wait_abort takes one waiter off the list.
LEMMA WaitEnd ==
    ASSUME NEW list, NEW state, NEW msg, NEW recv, WaitOf(list, state, msg, recv),
           NEW t \in ToSet(list), NEW why \in {"timeout", "abort"}
    PROVE  GaveUp(list, state, msg, recv, t, why, klist_rm(list, t),
                  [state EXCEPT ![t] = why])
<1>. SUFFICES ASSUME NEW list2, list2 = klist_rm(list, t),
                     NEW state2, state2 = [state EXCEPT ![t] = why]
              PROVE  GaveUp(list, state, msg, recv, t, why, list2, state2)
  BY Zenon
<1>1. /\ list \in Seq(Task) /\ state \in [Task -> BlkStates]
      /\ msg \in [Task -> Msg \cup {<<>>}] /\ recv \subseteq Task
      /\ IsInjective(list) /\ Sorted(list, Pri) /\ ToSet(list) \subseteq recv
      /\ \A u \in Task : state[u] # "none" <=> u \in recv \ ToSet(list)
  BY ONLY WaitOf(list, state, msg, recv), Zenon DEF WaitOf
<1>2. t \in recv /\ t \in Task
  BY ONLY <1>1, t \in ToSet(list)
<1>3. list2 \in Seq(Task) /\ ToSet(list2) = ToSet(list) \ {t} /\ IsInjective(list2)
  BY ONLY <1>1, list2 = klist_rm(list, t), KlistRm, Zenon
<1>4. Sorted(list2, Pri)
  BY ONLY <1>1, list2 = klist_rm(list, t), SortedRm, Zenon
<1>5. list # <<>>
  <2>1. list = <<>> <=> ToSet(list) = {}
    BY ONLY <1>1, ToSetProps
  <2>. QED BY ONLY <2>1, t \in ToSet(list)
<1>6. why \in BlkStates /\ why # "none" /\ why # "finish"
  BY ONLY why \in {"timeout", "abort"} DEF BlkStates
<1>7. \A u \in Task : state2[u] = IF u = t THEN why ELSE state[u]
  BY ONLY <1>1, state2 = [state EXCEPT ![t] = why]
<1>8. state2 \in [Task -> BlkStates]
  BY ONLY <1>1, <1>6, state2 = [state EXCEPT ![t] = why]
<1>9. \A u \in Task : u \in recv \ ToSet(list2) <=> u = t \/ u \in recv \ ToSet(list)
  BY ONLY <1>2, <1>3
<1>10. WaitOf(list2, state2, msg, recv)
  <2>1. \A u \in Task : state2[u] # "none" <=> u \in recv \ ToSet(list2)
    BY ONLY <1>1, <1>6, <1>7, <1>9
  <2>2. ToSet(list2) \subseteq recv
    BY ONLY <1>1, <1>3
  <2>. QED BY ONLY <1>1, <1>3, <1>4, <1>8, <2>1, <2>2, Zenon DEF WaitOf
<1>11. ASSUME NEW u \in Task
       PROVE  GotOf(list2, state2, msg, recv)[u]
                = IF u = t THEN Outcome(why, <<>>) ELSE GotOf(list, state, msg, recv)[u]
  <2>1. GotOf(list2, state2, msg, recv)[u]
          = IF u \in recv \ ToSet(list2) THEN OutcomeOf(state2, msg, u)
            ELSE Outcome("none", <<>>)
    BY ONLY u \in Task, GotAt, Zenon
  <2>2. GotOf(list, state, msg, recv)[u]
          = IF u \in recv \ ToSet(list) THEN OutcomeOf(state, msg, u)
            ELSE Outcome("none", <<>>)
    BY ONLY u \in Task, GotAt, Zenon
  <2>3. CASE u = t
    <3>1. OutcomeOf(state2, msg, u) = Outcome(why, <<>>)
      BY ONLY <1>6, <1>7, <2>3, u \in Task, Zenon DEF OutcomeOf
    <3>. QED BY ONLY <1>9, <2>1, <2>3, <3>1, u \in Task, Zenon
  <2>4. CASE u # t
    <3>1. OutcomeOf(state2, msg, u) = OutcomeOf(state, msg, u)
      BY ONLY <1>7, <2>4, u \in Task, Zenon DEF OutcomeOf
    <3>2. u \in recv \ ToSet(list2) <=> u \in recv \ ToSet(list)
      BY ONLY <1>9, <2>4, u \in Task, Zenon
    <3>. QED BY ONLY <2>1, <2>2, <2>4, <3>1, <3>2, Zenon
  <2>. QED BY <2>3, <2>4
<1>12. GotOf(list2, state2, msg, recv)
         = [GotOf(list, state, msg, recv) EXCEPT ![t] = Outcome(why, <<>>)]
  <2>1. PICK g : g = GotOf(list, state, msg, recv)
    OBVIOUS
  <2>2. PICK h : h = GotOf(list2, state2, msg, recv)
    OBVIOUS
  <2>3. g = [u \in Task |-> g[u]] /\ h = [u \in Task |-> h[u]]
    BY ONLY <2>1, <2>2, Zenon DEF GotOf
  <2>4. \A u \in Task : h[u] = IF u = t THEN Outcome(why, <<>>) ELSE g[u]
    BY ONLY <1>11, <2>1, <2>2, Zenon
  <2>5. h = [g EXCEPT ![t] = Outcome(why, <<>>)]
    BY ONLY <2>3, <2>4
  <2>. QED BY ONLY <2>1, <2>2, <2>5, Zenon
<1>. QED BY ONLY <1>3, <1>5, <1>10, <1>12, Zenon DEF GaveUp

\* pend_state_end_proc: the outcome is returned and forgotten.
Returned(list, state, msg, recv, t, state2, msg2) ==
    /\ WaitOf(list, state2, msg2, recv \ {t})
    /\ GotOf(list, state, msg, recv)[t] = OutcomeOf(state, msg, t)
    /\ OutcomeOf(state, msg, t) # Outcome("none", <<>>)
    /\ GotOf(list, state2, msg2, recv \ {t})
         = [GotOf(list, state, msg, recv) EXCEPT ![t] = Outcome("none", <<>>)]

\* pend_state_end_proc: the task returns with its outcome and has none any more.
LEMMA WaitReturn ==
    ASSUME NEW list, NEW state, NEW msg, NEW recv, WaitOf(list, state, msg, recv),
           NEW t \in recv, t \notin ToSet(list)
    PROVE  Returned(list, state, msg, recv, t, [state EXCEPT ![t] = "none"],
                    [msg EXCEPT ![t] = <<>>])
<1>. SUFFICES ASSUME NEW state2, state2 = [state EXCEPT ![t] = "none"],
                     NEW msg2, msg2 = [msg EXCEPT ![t] = <<>>]
              PROVE  Returned(list, state, msg, recv, t, state2, msg2)
  BY Zenon
<1>1. /\ list \in Seq(Task) /\ state \in [Task -> BlkStates]
      /\ msg \in [Task -> Msg \cup {<<>>}] /\ recv \subseteq Task
      /\ IsInjective(list) /\ Sorted(list, Pri) /\ ToSet(list) \subseteq recv
      /\ \A u \in Task : state[u] # "none" <=> u \in recv \ ToSet(list)
  BY ONLY WaitOf(list, state, msg, recv), Zenon DEF WaitOf
<1>2. t \in Task /\ t \in recv \ ToSet(list) /\ state[t] # "none"
  BY ONLY <1>1, t \in recv, t \notin ToSet(list)
<1>3. \A u \in Task : state2[u] = IF u = t THEN "none" ELSE state[u]
  BY ONLY <1>1, state2 = [state EXCEPT ![t] = "none"]
<1>4. \A u \in Task : msg2[u] = IF u = t THEN <<>> ELSE msg[u]
  BY ONLY <1>1, msg2 = [msg EXCEPT ![t] = <<>>]
<1>5. state2 \in [Task -> BlkStates]
  BY ONLY <1>1, state2 = [state EXCEPT ![t] = "none"] DEF BlkStates
<1>6. msg2 \in [Task -> Msg \cup {<<>>}]
  BY ONLY <1>1, msg2 = [msg EXCEPT ![t] = <<>>]
<1>7. \A u \in Task : u \in (recv \ {t}) \ ToSet(list)
                      <=> u # t /\ u \in recv \ ToSet(list)
  OBVIOUS
<1>8. WaitOf(list, state2, msg2, recv \ {t})
  <2>1. \A u \in Task : state2[u] # "none" <=> u \in (recv \ {t}) \ ToSet(list)
    BY ONLY <1>1, <1>3, <1>7
  <2>2. ToSet(list) \subseteq recv \ {t} /\ recv \ {t} \subseteq Task
    BY ONLY <1>1, t \notin ToSet(list)
  <2>. QED BY ONLY <1>1, <1>5, <1>6, <2>1, <2>2, Zenon DEF WaitOf
<1>9. GotOf(list, state, msg, recv)[t] = OutcomeOf(state, msg, t)
  BY ONLY <1>2, GotAt, Zenon
<1>10. OutcomeOf(state, msg, t) # Outcome("none", <<>>)
  <2>1. OutcomeOf(state, msg, t).ret = "success" \/ OutcomeOf(state, msg, t).ret = state[t]
    BY DEF OutcomeOf, Outcome
  <2>2. Outcome("none", <<>>).ret = "none"
    BY DEF Outcome
  <2>3. OutcomeOf(state, msg, t).ret # "none"
    BY ONLY <1>2, <2>1
  <2>. QED BY ONLY <2>2, <2>3, Zenon
<1>11. ASSUME NEW u \in Task
       PROVE  GotOf(list, state2, msg2, recv \ {t})[u]
                = IF u = t THEN Outcome("none", <<>>) ELSE GotOf(list, state, msg, recv)[u]
  <2>1. GotOf(list, state2, msg2, recv \ {t})[u]
          = IF u \in (recv \ {t}) \ ToSet(list) THEN OutcomeOf(state2, msg2, u)
            ELSE Outcome("none", <<>>)
    BY ONLY u \in Task, GotAt, Zenon
  <2>2. GotOf(list, state, msg, recv)[u]
          = IF u \in recv \ ToSet(list) THEN OutcomeOf(state, msg, u)
            ELSE Outcome("none", <<>>)
    BY ONLY u \in Task, GotAt, Zenon
  <2>3. CASE u = t
    BY ONLY <1>7, <2>1, <2>3, u \in Task, Zenon
  <2>4. CASE u # t
    <3>1. OutcomeOf(state2, msg2, u) = OutcomeOf(state, msg, u)
      BY ONLY <1>3, <1>4, <2>4, u \in Task, Zenon DEF OutcomeOf
    <3>2. u \in (recv \ {t}) \ ToSet(list) <=> u \in recv \ ToSet(list)
      BY ONLY <1>7, <2>4, u \in Task, Zenon
    <3>. QED BY ONLY <2>1, <2>2, <2>4, <3>1, <3>2, Zenon
  <2>. QED BY <2>3, <2>4
<1>12. GotOf(list, state2, msg2, recv \ {t})
         = [GotOf(list, state, msg, recv) EXCEPT ![t] = Outcome("none", <<>>)]
  <2>1. PICK g : g = GotOf(list, state, msg, recv)
    OBVIOUS
  <2>2. PICK h : h = GotOf(list, state2, msg2, recv \ {t})
    OBVIOUS
  <2>3. g = [u \in Task |-> g[u]] /\ h = [u \in Task |-> h[u]]
    BY ONLY <2>1, <2>2, Zenon DEF GotOf
  <2>4. \A u \in Task : h[u] = IF u = t THEN Outcome("none", <<>>) ELSE g[u]
    BY ONLY <1>11, <2>1, <2>2, Zenon
  <2>5. h = [g EXCEPT ![t] = Outcome("none", <<>>)]
    BY ONLY <2>3, <2>4
  <2>. QED BY ONLY <2>1, <2>2, <2>5, Zenon
<1>. QED BY ONLY <1>8, <1>9, <1>10, <1>12, Zenon DEF Returned

-----------------------------------------------------------------------------
(***************************************************************************)
(* What MsgQueue sees: the messages stored and the outcomes.               *)
(***************************************************************************)
Stored == StoredOf(obj_type, ringbuf)
\* The outcomes MsgQueue sees.
Got == GotOf(blk_list, blk_state, task_msg, in_recv)

\* The actions of MsgQueue, of what it sees.
LEMMA SeenPut ==
    ASSUME NEW m, NEW to, ToSet(blk_list) = {},
           Stored' = IF to = "back" THEN Append(Stored, m) ELSE <<m>> \o Stored,
           ToSet(blk_list)' = ToSet(blk_list), Got' = Got
    PROVE  Q!Put(m, to)
BY DEF Q!Put, Stored, StoredOf, Got, GotOf, OutcomeOf, Ended

\* The message goes to a waiter no other is more urgent than.
LEMMA SeenHand ==
    ASSUME NEW m, NEW t \in ToSet(blk_list),
           \A u \in ToSet(blk_list) : Pri[t] <= Pri[u],
           ToSet(blk_list)' = ToSet(blk_list) \ {t},
           Got' = [Got EXCEPT ![t] = Outcome("success", m)], Stored' = Stored
    PROVE  Q!Hand(m)
BY DEF Q!Hand, Q!MostUrgent, Q!Outcome, Outcome, Stored, StoredOf, Got, GotOf, OutcomeOf, Ended

\* The message goes to every waiter.
LEMMA SeenHandAll ==
    ASSUME NEW m, ToSet(blk_list) # {}, ToSet(blk_list)' = {},
           Got' = Over(ToSet(blk_list), Outcome("success", m), Got),
           Stored' = Stored
    PROVE  Q!HandAll(m)
BY DEF Over, Q!HandAll, Q!Outcome, Outcome, Stored, StoredOf, Got, GotOf, OutcomeOf, Ended

\* A receive takes the first message.
LEMMA SeenGet ==
    ASSUME NEW t, t \notin ToSet(blk_list), Got[t] = Outcome("none", <<>>),
           Stored # <<>>, ev' = Received(t, Outcome("success", Head(Stored))),
           Stored' = Tail(Stored), ToSet(blk_list)' = ToSet(blk_list), Got' = Got
    PROVE  Q!Get(t)
BY DEF Q!Get, Q!Nothing, Q!Outcome, Q!Received, Outcome, Received,
       Stored, StoredOf, Got, GotOf, OutcomeOf, Ended

\* A receive with RHINO_NO_WAIT finds no message.
LEMMA SeenGetNothing ==
    ASSUME NEW t, t \notin ToSet(blk_list), Got[t] = Outcome("none", <<>>),
           Stored = <<>>, ev' = Received(t, Outcome("no_pend_wait", <<>>)),
           Stored' = Stored, ToSet(blk_list)' = ToSet(blk_list), Got' = Got
    PROVE  Q!GetNothing(t)
BY DEF Q!GetNothing, Q!Nothing, Q!Outcome, Q!Received, Outcome, Received,
       Stored, StoredOf, Got, GotOf, OutcomeOf, Ended

\* A receive finds no message and waits.
LEMMA SeenWait ==
    ASSUME NEW t, t \notin ToSet(blk_list), Got[t] = Outcome("none", <<>>),
           Stored = <<>>, ev' = Quiet,
           Stored' = Stored, ToSet(blk_list)' = ToSet(blk_list) \cup {t}, Got' = Got
    PROVE  Q!Wait(t)
BY DEF Q!Wait, Q!Nothing, Q!Outcome, Q!Quiet, Quiet, Outcome,
       Stored, StoredOf, Got, GotOf, OutcomeOf, Ended

\* A wait ends by timeout or abort.
LEMMA SeenGiveUp ==
    ASSUME NEW t \in ToSet(blk_list), NEW why, ev' = Quiet,
           ToSet(blk_list)' = ToSet(blk_list) \ {t},
           Got' = [Got EXCEPT ![t] = Outcome(why, <<>>)], Stored' = Stored
    PROVE  Q!GiveUp(t, why)
BY DEF Q!GiveUp, Q!Outcome, Q!Quiet, Quiet, Outcome,
       Stored, StoredOf, Got, GotOf, OutcomeOf, Ended

\* A task returns with the outcome it has.
LEMMA SeenReturn ==
    ASSUME NEW t, Got[t] # Outcome("none", <<>>), ev' = Received(t, Got[t]),
           Got' = [Got EXCEPT ![t] = Outcome("none", <<>>)],
           Stored' = Stored, ToSet(blk_list)' = ToSet(blk_list)
    PROVE  Q!Return(t)
BY DEF Q!Return, Q!Nothing, Q!Outcome, Q!Received, Outcome, Received,
       Stored, StoredOf, Got, GotOf, OutcomeOf, Ended

\* All messages are dropped.
LEMMA SeenFlush ==
    ASSUME ev' = Quiet, Stored' = <<>>, ToSet(blk_list)' = ToSet(blk_list), Got' = Got
    PROVE  Q!Flush
BY DEF Q!Flush, Q!Quiet, Quiet, Stored, StoredOf, Got, GotOf, OutcomeOf, Ended

\* The object is deleted under its waiters.
LEMMA SeenDelete ==
    ASSUME ev' = Quiet, Stored' = <<>>, ToSet(blk_list)' = {},
           Got' = Over(ToSet(blk_list), Outcome("obj_del", <<>>), Got)
    PROVE  Q!Delete
BY DEF Over, Q!Delete, Q!Outcome, Q!Quiet, Quiet, Outcome,
       Stored, StoredOf, Got, GotOf, OutcomeOf, Ended

\* The three parts of the invariant after a step.
LEMMA InvAfter ==
    ASSUME WaitOf(blk_list', blk_state', task_msg', in_recv'),
           StoreOf(obj_type', ringbuf', cur_num'),
           blk_list' # <<>> => obj_type' # "none" /\ cur_num' = 0
    PROVE  QueueInv'
BY DEF QueueInv

\* What MsgQueue sees after a step, of the variables after it.
LEMMA SeenAfter ==
    /\ Stored' = StoredOf(obj_type', ringbuf')
    /\ Got' = GotOf(blk_list', blk_state', task_msg', in_recv')
    /\ ToSet(blk_list)' = ToSet(blk_list')
BY DEF Stored, Got

-----------------------------------------------------------------------------
(***************************************************************************)
(* The steps: each keeps QueueInv, and is a step of MsgQueue.              *)
(***************************************************************************)
\* The parts of the invariant.
LEMMA InvParts ==
    ASSUME QueueInv
    PROVE  /\ WaitOf(blk_list, blk_state, task_msg, in_recv)
           /\ StoreOf(obj_type, ringbuf, cur_num)
           /\ blk_list # <<>> => obj_type # "none" /\ cur_num = 0
           /\ blk_list \in Seq(Task) /\ in_recv \subseteq Task
           /\ ringbuf \in Ring
           /\ ToSet(blk_list) \subseteq in_recv
           /\ ToSet(blk_list) = {} <=> blk_list = <<>>
<1>1. /\ WaitOf(blk_list, blk_state, task_msg, in_recv)
      /\ StoreOf(obj_type, ringbuf, cur_num)
      /\ blk_list # <<>> => obj_type # "none" /\ cur_num = 0
  BY DEF QueueInv
<1>2. blk_list \in Seq(Task) /\ in_recv \subseteq Task /\ ToSet(blk_list) \subseteq in_recv
  BY ONLY <1>1, Zenon DEF WaitOf
<1>3. ringbuf \in Ring
  BY ONLY <1>1, Zenon DEF StoreOf
<1>4. ToSet(blk_list) = {} <=> blk_list = <<>>
  BY ONLY <1>2, ToSetProps
<1>. QED BY ONLY <1>1, <1>2, <1>3, <1>4, Zenon

\* A ring that has just been created or reset.
LEMMA RingCreated ==
    ASSUME NEW r \in Ring, NEW type \in {"fix", "dyn"}
    PROVE  /\ Stores(ringbuf_init(type, r.mem), <<>>) /\ ringbuf_init(type, r.mem).type = type
           /\ Stores(ringbuf_reset(r), <<>>) /\ ringbuf_reset(r).type = r.type
<1>1. PICK q : q = ringbuf_init(type, r.mem)
  OBVIOUS
<1>2. PICK p : p = ringbuf_reset(r)
  OBVIOUS
<1>3. q \in Ring /\ q.head = 0 /\ q.tail = 0 /\ q.freesize = RingSize /\ q.type = type
  BY ONLY <1>1, Sizes, r \in Ring, type \in {"fix", "dyn"} DEF Ring, ringbuf_init
<1>4. p \in Ring /\ p.head = 0 /\ p.tail = 0 /\ p.freesize = RingSize /\ p.type = r.type
  <2>1. /\ r.type \in {"fix", "dyn"} /\ r.mem \in [0 .. RingSize - 1 -> Byte]
        /\ r = [type |-> r.type, mem |-> r.mem, head |-> r.head,
                tail |-> r.tail, freesize |-> r.freesize]
    BY ONLY r \in Ring, RingFields
  <2>2. p = [type |-> r.type, mem |-> r.mem, head |-> 0, tail |-> 0, freesize |-> RingSize]
    BY ONLY <1>2, <2>1 DEF ringbuf_reset
  <2>. QED BY ONLY <2>1, <2>2, Sizes DEF Ring
<1>5. Stores(q, <<>>) /\ Stores(p, <<>>)
  BY ONLY <1>3, <1>4, StoresEmpty, Zenon
<1>. QED BY ONLY <1>1, <1>2, <1>3, <1>4, <1>5, Zenon

\* No messages are messages that were sent.
LEMMA NoneSent == Len(<<>>) = 0 /\ ToSet(<<>>) \subseteq Msg
<1>1. <<>> \in Seq(Msg)
  OBVIOUS
<1>. QED BY ONLY <1>1, ToSetProps

\* krhino_queue_create and krhino_buf_queue_create: to MsgQueue, an empty queue.
LEMMA CreateStep ==
    ASSUME QueueInv, NEW obj \in {"queue", "buf_queue"}, NEW type \in {"fix", "dyn"},
           obj = "queue" => type = "fix", Create(obj, type)
    PROVE  QueueInv' /\ Q!Flush
<1>1. /\ WaitOf(blk_list, blk_state, task_msg, in_recv) /\ ringbuf \in Ring
      /\ blk_list # <<>> => obj_type # "none"
  BY ONLY QueueInv, InvParts, Zenon
<1>2. /\ obj_type = "none" /\ obj_type' = obj
      /\ ringbuf' = ringbuf_init(type, ringbuf.mem) /\ cur_num' = 0 /\ blk_list' = <<>>
      /\ ev' = Quiet /\ blk_state' = blk_state /\ task_msg' = task_msg /\ in_recv' = in_recv
  BY ONLY Create(obj, type), Zenon DEF Create
<1>3. blk_list = <<>>
  BY ONLY <1>1, <1>2, Zenon
<1>4. Stores(ringbuf', <<>>) /\ ringbuf'.type = type
  BY ONLY <1>1, <1>2, type \in {"fix", "dyn"}, RingCreated, Zenon
<1>5. StoreOf(obj_type', ringbuf', cur_num') /\ StoredOf(obj_type', ringbuf') = <<>>
  BY ONLY <1>2, <1>4, NoneSent, obj \in {"queue", "buf_queue"},
          obj = "queue" => type = "fix", StoreOfStores, Zenon
<1>6. QueueInv'
  <2>1. WaitOf(blk_list', blk_state', task_msg', in_recv')
    BY ONLY <1>1, <1>2, <1>3, Zenon
  <2>. QED BY ONLY <1>2, <1>5, <2>1, InvAfter, Zenon
<1>7. Stored' = <<>> /\ Got' = Got /\ ToSet(blk_list)' = ToSet(blk_list)
  BY ONLY <1>2, <1>3, <1>5, SeenAfter, Zenon DEF Got
<1>. QED BY ONLY <1>2, <1>6, <1>7, SeenFlush, Zenon

\* krhino_queue_del.
LEMMA DeleteStep ==
    ASSUME QueueInv, queue_del
    PROVE  QueueInv' /\ Q!Delete
<1>1. /\ WaitOf(blk_list, blk_state, task_msg, in_recv) /\ ringbuf \in Ring
      /\ StoreOf(obj_type, ringbuf, cur_num)
  BY ONLY QueueInv, InvParts, Zenon
<1>2. /\ obj_type' = "none" /\ blk_list' = <<>>
      /\ blk_state' = Over(ToSet(blk_list), "obj_del", blk_state)
      /\ ringbuf' = ringbuf_reset(ringbuf) /\ ev' = Quiet
      /\ cur_num' = cur_num /\ task_msg' = task_msg /\ in_recv' = in_recv
  BY ONLY queue_del, Zenon DEF queue_del, Over
<1>3. /\ WaitOf(<<>>, blk_state', task_msg, in_recv) /\ ToSet(<<>>) = {}
      /\ GotOf(<<>>, blk_state', task_msg, in_recv)
           = Over(ToSet(blk_list), Outcome("obj_del", <<>>),
                  GotOf(blk_list, blk_state, task_msg, in_recv))
  <2>1. Deleted(blk_list, blk_state, task_msg, in_recv,
                Over(ToSet(blk_list), "obj_del", blk_state))
    BY ONLY <1>1, WaitDelete, Zenon
  <2>2. Deleted(blk_list, blk_state, task_msg, in_recv, blk_state')
    BY ONLY <1>2, <2>1, Zenon
  <2>. QED BY ONLY <2>2, Zenon DEF Deleted
<1>4. StoreOf(obj_type', ringbuf', cur_num')
  <2>1. ringbuf' \in Ring
    <3>1. ringbuf.type \in {"fix", "dyn"} /\ Stores(ringbuf', <<>>)
      BY ONLY <1>1, <1>2, RingFields, RingCreated
    <3>. QED BY ONLY <3>1, StoresReads, Zenon
  <2>2. cur_num' \in 0 .. RingSize
    BY ONLY <1>1, <1>2, Zenon DEF StoreOf
  <2>3. obj_type' \in ObjTypes /\ obj_type' # "queue"
    BY ONLY <1>2 DEF ObjTypes
  <2>4. StoredOf(obj_type', ringbuf') = <<>>
    BY ONLY <1>2, Zenon DEF StoredOf
  <2>. QED BY ONLY <1>2, <2>1, <2>2, <2>3, <2>4, NoneSent, Zenon DEF StoreOf
<1>5. QueueInv'
  <2>1. WaitOf(blk_list', blk_state', task_msg', in_recv')
    BY ONLY <1>2, <1>3, Zenon
  <2>. QED BY ONLY <1>2, <1>4, <2>1, InvAfter, Zenon
<1>6. Stored' = <<>>
  BY ONLY <1>2, SeenAfter, Zenon DEF StoredOf
<1>7. /\ ToSet(blk_list)' = {}
      /\ Got' = Over(ToSet(blk_list), Outcome("obj_del", <<>>), Got)
  BY ONLY <1>2, <1>3, SeenAfter, Zenon DEF Got
<1>. QED BY ONLY <1>2, <1>5, <1>6, <1>7, SeenDelete, Zenon

\* krhino_queue_flush and krhino_buf_queue_flush.
LEMMA FlushStep ==
    ASSUME QueueInv, queue_flush
    PROVE  QueueInv' /\ Q!Flush
<1>1. /\ WaitOf(blk_list, blk_state, task_msg, in_recv) /\ ringbuf \in Ring
      /\ StoreOf(obj_type, ringbuf, cur_num)
  BY ONLY QueueInv, InvParts, Zenon
<1>2. /\ obj_type # "none" /\ obj_type' = obj_type
      /\ ringbuf' = ringbuf_reset(ringbuf) /\ cur_num' = 0 /\ ev' = Quiet
      /\ blk_list' = blk_list /\ blk_state' = blk_state /\ task_msg' = task_msg
      /\ in_recv' = in_recv
  BY ONLY queue_flush DEF queue_flush, waitVars
<1>3. Stores(ringbuf', <<>>) /\ ringbuf'.type = ringbuf.type
  <2>1. ringbuf.type \in {"fix", "dyn"}
    BY ONLY <1>1, RingFields
  <2>. QED BY ONLY <1>1, <1>2, <2>1, RingCreated, Zenon
<1>4. obj_type \in {"queue", "buf_queue"} /\ (obj_type = "queue" => ringbuf.type = "fix")
  <2>1. InUse(obj_type, ringbuf, cur_num, StoredOf(obj_type, ringbuf))
    BY ONLY <1>1, <1>2, StoreOfParts, Zenon
  <2>. QED BY ONLY <2>1, Zenon DEF InUse
<1>5. StoreOf(obj_type', ringbuf', cur_num') /\ StoredOf(obj_type', ringbuf') = <<>>
  BY ONLY <1>2, <1>3, <1>4, NoneSent, StoreOfStores, Zenon
<1>6. QueueInv'
  <2>1. WaitOf(blk_list', blk_state', task_msg', in_recv')
    BY ONLY <1>1, <1>2, Zenon
  <2>. QED BY ONLY <1>2, <1>5, <2>1, InvAfter, Zenon
<1>7. Stored' = <<>> /\ Got' = Got /\ ToSet(blk_list)' = ToSet(blk_list)
  BY ONLY <1>2, <1>5, SeenAfter, Zenon DEF Got
<1>. QED BY ONLY <1>2, <1>6, <1>7, SeenFlush, Zenon

\* task_msg_recv, as MsgQueue sees it: to the first waiter or to all of them.
LEMMA HandStep ==
    ASSUME QueueInv, NEW m \in Msg, NEW n \in 1 .. Len(blk_list), blk_list # <<>>,
           task_msg_recv(n, m)
    PROVE  /\ QueueInv'
           /\ n = 1 => Q!Hand(m)
           /\ n = Len(blk_list) => Q!HandAll(m)
<1>1. /\ WaitOf(blk_list, blk_state, task_msg, in_recv)
      /\ StoreOf(obj_type, ringbuf, cur_num)
      /\ obj_type # "none" /\ cur_num = 0
      /\ blk_list \in Seq(Task) /\ ToSet(blk_list) # {}
  BY ONLY QueueInv, InvParts, blk_list # <<>>, Zenon
<1>2. PICK T : T = Firsts(blk_list, n)
  OBVIOUS
<1>3. PICK list2 : list2 = SubSeq(blk_list, n + 1, Len(blk_list))
  OBVIOUS
<1>4. PICK state2 : state2 = Over(T, "finish", blk_state)
  OBVIOUS
<1>5. PICK msg2 : msg2 = Over(T, m, task_msg)
  OBVIOUS
<1>6. /\ blk_list' = list2 /\ blk_state' = state2 /\ task_msg' = msg2
      /\ obj_type' = obj_type /\ ringbuf' = ringbuf /\ cur_num' = cur_num
      /\ in_recv' = in_recv
  BY ONLY <1>2, <1>3, <1>4, <1>5, task_msg_recv(n, m) DEF task_msg_recv, Over, Firsts
<1>7. Handed(blk_list, blk_state, task_msg, in_recv, T, m, list2, state2, msg2)
  <2>1. WaitOf(blk_list, blk_state, task_msg, in_recv)
    BY ONLY <1>1, Zenon
  <2>2. Handed(blk_list, blk_state, task_msg, in_recv, Firsts(blk_list, n), m,
               SubSeq(blk_list, n + 1, Len(blk_list)),
               Over(Firsts(blk_list, n), "finish", blk_state),
               Over(Firsts(blk_list, n), m, task_msg))
    BY ONLY <2>1, n \in 1 .. Len(blk_list), m \in Msg, WaitHand, Zenon
  <2>. QED BY ONLY <1>2, <1>3, <1>4, <1>5, <2>2, Zenon
<1>8. /\ WaitOf(list2, state2, msg2, in_recv)
      /\ ToSet(list2) = ToSet(blk_list) \ T /\ T \subseteq ToSet(blk_list)
      /\ GotOf(list2, state2, msg2, in_recv)
           = Over(T, Outcome("success", m), GotOf(blk_list, blk_state, task_msg, in_recv))
  BY ONLY <1>7, Zenon DEF Handed
<1>10. QueueInv'
  <2>1. WaitOf(blk_list', blk_state', task_msg', in_recv')
    BY ONLY <1>6, <1>8, Zenon
  <2>2. StoreOf(obj_type', ringbuf', cur_num')
    BY ONLY <1>1, <1>6, Zenon
  <2>. QED BY ONLY <1>1, <1>6, <2>1, <2>2, InvAfter, Zenon
<1>11. /\ Stored' = Stored
       /\ Got' = Over(T, Outcome("success", m), Got)
       /\ ToSet(blk_list)' = ToSet(blk_list) \ T
  BY ONLY <1>6, <1>8, SeenAfter, Zenon DEF Got, Stored
<1>12. ASSUME n = 1 PROVE Q!Hand(m)
  <2>1. PICK h : h = blk_list[1]
    OBVIOUS
  <2>2. T = {h} /\ h \in ToSet(blk_list) /\ h = Head(blk_list)
    <3>1. 1 .. 1 = {1}
      OBVIOUS
    <3>2. T = {h}
      BY ONLY <1>2, <1>12, <2>1, <3>1 DEF Firsts
    <3>3. h \in ToSet(blk_list)
      BY ONLY <1>8, <3>2
    <3>4. h = Head(blk_list)
      BY ONLY <1>1, <2>1
    <3>. QED BY ONLY <3>2, <3>3, <3>4, Zenon
  <2>3. \A u \in ToSet(blk_list) : Pri[h] <= Pri[u]
    <3>1. Sorted(blk_list, Pri)
      BY ONLY <1>1, Zenon DEF WaitOf
    <3>2. Pri \in [Task -> Int]
      BY ONLY QueueAssumption
    <3>3. \A u \in ToSet(blk_list) : Pri[Head(blk_list)] <= Pri[u]
      BY ONLY <1>1, <3>1, <3>2, blk_list # <<>>, HeadSorted, Zenon
    <3>. QED BY ONLY <2>2, <3>3, Zenon
  <2>4. Got' = [Got EXCEPT ![h] = Outcome("success", m)]
    <3>1. PICK g : g = Got
      OBVIOUS
    <3>2. g = [u \in Task |-> g[u]]
      BY ONLY <3>1, Zenon DEF Got, GotOf
    <3>3. Over({h}, Outcome("success", m), g) = [g EXCEPT ![h] = Outcome("success", m)]
      BY ONLY <3>2 DEF Over
    <3>. QED BY ONLY <1>11, <2>2, <3>1, <3>3, Zenon
  <2>5. ToSet(blk_list)' = ToSet(blk_list) \ {h} /\ h \in ToSet(blk_list)
    BY ONLY <1>11, <2>2, Zenon
  <2>. QED BY ONLY <1>11, <2>3, <2>4, <2>5, SeenHand, Zenon
<1>13. ASSUME n = Len(blk_list) PROVE Q!HandAll(m)
  <2>1. T = ToSet(blk_list)
    <3>1. \A x : x \in ToSet(blk_list) <=> \E i \in 1 .. Len(blk_list) : blk_list[i] = x
      BY ONLY <1>1, ToSetProps, Zenon
    <3>2. \A x : x \in T <=> \E i \in 1 .. n : blk_list[i] = x
      BY ONLY <1>2, Zenon DEF Firsts
    <3>. QED BY ONLY <1>13, <3>1, <3>2
  <2>2. ToSet(blk_list)' = {}
    BY ONLY <1>11, <2>1
  <2>3. Got' = Over(ToSet(blk_list), Outcome("success", m), Got)
    BY ONLY <1>11, <2>1, Zenon
  <2>. QED BY ONLY <1>1, <1>11, <2>2, <2>3, SeenHandAll, Zenon
<1>. QED BY <1>10, <1>12, <1>13

\* The elements of a sequence with one more at either end.
EndsAre(s, t) == ToSet(Append(s, t)) = ToSet(s) \cup {t}
                 /\ ToSet(<<t>> \o s) = ToSet(s) \cup {t}

\* Appending and prepending add that one element.
LEMMA EndsSet ==
    ASSUME NEW S, NEW s \in Seq(S), NEW t \in S
    PROVE  EndsAre(s, t)
<1>1. ToSet(Append(s, t)) = ToSet(s) \cup {t}
  <2>1. PICK n \in Nat : n = Len(s)
    BY ONLY s \in Seq(S)
  <2>2. PICK a : a = Append(s, t)
    OBVIOUS
  <2>3. /\ a \in Seq(S) /\ Len(a) = n + 1 /\ a[n + 1] = t
        /\ \A i \in 1 .. n : a[i] = s[i]
    <3>1. /\ Append(s, t) \in Seq(S) /\ Len(Append(s, t)) = Len(s) + 1
          /\ Append(s, t)[Len(s) + 1] = t
          /\ \A i \in 1 .. Len(s) : Append(s, t)[i] = s[i]
      BY ONLY s \in Seq(S), t \in S, AppendAt
    <3>. QED BY ONLY <2>1, <2>2, <3>1, Zenon
  <2>4. \A x : x \in ToSet(a) <=> \E i \in 1 .. n + 1 : a[i] = x
    BY ONLY <2>3, ToSetProps
  <2>5. \A x : x \in ToSet(s) <=> \E i \in 1 .. n : s[i] = x
    BY ONLY <2>1, s \in Seq(S), ToSetProps
  <2>6. n + 1 \in 1 .. n + 1 /\ \A i \in 1 .. n + 1 : i = n + 1 \/ i \in 1 .. n
    BY ONLY n \in Nat
  <2>7. \A i \in 1 .. n : i \in 1 .. n + 1
    BY ONLY n \in Nat
  <2>8. \A x : x \in ToSet(a) <=> x \in ToSet(s) \/ x = t
    BY ONLY <2>3, <2>4, <2>5, <2>6, <2>7, Zenon
  <2>. QED BY ONLY <2>2, <2>8
<1>2. ToSet(<<t>> \o s) = ToSet(s) \cup {t}
  BY ONLY s \in Seq(S), t \in S, EndsProps
<1>. QED BY ONLY <1>1, <1>2, Zenon DEF EndsAre

\* Store, when nobody waits and the ring has room.
LEMMA StoreStep ==
    ASSUME QueueInv, NEW m \in Msg, NEW to \in {"back", "front"},
           obj_type # "none", blk_list = <<>>,
           Sized(ringbuf.type, m), CanPush(ringbuf, Len(m)),
           to = "front" /\ ringbuf.type = "dyn" => m \in FrontMsg,
           Store(m, to)
    PROVE  QueueInv' /\ (FrontUniform => Q!Put(m, to))
<1>1. /\ WaitOf(blk_list, blk_state, task_msg, in_recv)
      /\ StoreOf(obj_type, ringbuf, cur_num) /\ ToSet(blk_list) = {}
  BY ONLY QueueInv, InvParts, blk_list = <<>>, Zenon
<1>2. PICK ms : ms = StoredOf(obj_type, ringbuf)
  OBVIOUS
<1>3. /\ Stores(ringbuf, ms) /\ Len(ms) = cur_num /\ ms \in Seq(Seq(Byte))
      /\ obj_type \in {"queue", "buf_queue"}
      /\ obj_type = "queue" => ringbuf.type = "fix"
      /\ FrontUniform => ToSet(ms) \subseteq Msg
  <2>1. InUse(obj_type, ringbuf, cur_num, ms)
    BY ONLY <1>1, <1>2, obj_type # "none", StoreOfParts, Zenon
  <2>. QED BY ONLY <2>1, Zenon DEF InUse
<1>4. PICK q : q = IF to = "front" THEN ringbuf_head_push(ringbuf, m)
                   ELSE ringbuf_push(ringbuf, m)
  OBVIOUS
<1>5. /\ ringbuf' = q /\ cur_num' = cur_num + 1
      /\ obj_type' = obj_type /\ blk_list' = blk_list /\ blk_state' = blk_state
      /\ task_msg' = task_msg /\ in_recv' = in_recv
  BY ONLY <1>4, Store(m, to) DEF Store, waitVars
<1>6. PICK ns : /\ Stores(q, ns) /\ q.type = ringbuf.type /\ Len(ns) = Len(ms) + 1
                /\ FrontUniform => ns = IF to = "back" THEN Append(ms, m) ELSE <<m>> \o ms
  <2>1. PICK r : r = ringbuf
    OBVIOUS
  <2>2. \E ns : LET p == IF to = "front" THEN ringbuf_head_push(r, m)
                         ELSE ringbuf_push(r, m)
                IN  /\ Stores(p, ns) /\ p.type = r.type /\ Len(ns) = Len(ms) + 1
                    /\ FrontUniform => ns = IF to = "back" THEN Append(ms, m)
                                            ELSE <<m>> \o ms
    <3>1. /\ Stores(r, ms) /\ Sized(r.type, m) /\ CanPush(r, Len(m))
          /\ to = "front" /\ r.type = "dyn" => m \in FrontMsg
      BY ONLY <1>3, <2>1, Sized(ringbuf.type, m), CanPush(ringbuf, Len(m)),
              to = "front" /\ ringbuf.type = "dyn" => m \in FrontMsg, Zenon
    <3>. QED BY ONLY <3>1, to \in {"back", "front"}, StoreRing, Zenon
  <2>. QED BY ONLY <1>4, <2>1, <2>2, Zenon
<1>7. FrontUniform => ToSet(ns) \subseteq Msg
  <2>1. m \in Seq(Byte)
    BY ONLY Sized(ringbuf.type, m), Zenon DEF Sized
  <2>2. ToSet(Append(ms, m)) = ToSet(ms) \cup {m} /\ ToSet(<<m>> \o ms) = ToSet(ms) \cup {m}
    <3>1. ms \in Seq(Seq(Byte))
      BY ONLY <1>3, Zenon
    <3>2. EndsAre(ms, m)
      BY ONLY <2>1, <3>1, EndsSet, Zenon
    <3>. QED BY ONLY <3>2, Zenon DEF EndsAre
  <2>. QED BY ONLY <1>3, <1>6, <2>2, m \in Msg
<1>8. StoreOf(obj_type', ringbuf', cur_num') /\ StoredOf(obj_type', ringbuf') = ns
  <2>1. obj_type = "queue" => q.type = "fix"
    BY ONLY <1>3, <1>6, Zenon
  <2>2. Len(ns) = cur_num + 1
    BY ONLY <1>3, <1>6, Zenon
  <2>3. StoreOf(obj_type, q, cur_num + 1) /\ StoredOf(obj_type, q) = ns
    BY ONLY <1>3, <1>6, <1>7, <2>1, <2>2, StoreOfStores, Zenon
  <2>. QED BY ONLY <1>5, <2>3, Zenon
<1>9. QueueInv'
  <2>1. WaitOf(blk_list', blk_state', task_msg', in_recv')
    BY ONLY <1>1, <1>5, Zenon
  <2>2. blk_list' = <<>>
    BY ONLY <1>5, blk_list = <<>>, Zenon
  <2>. QED BY ONLY <1>8, <2>1, <2>2, InvAfter, Zenon
<1>10. Got' = Got /\ ToSet(blk_list)' = ToSet(blk_list)
  BY ONLY <1>5, SeenAfter, Zenon DEF Got
<1>11. ASSUME FrontUniform PROVE Q!Put(m, to)
  <2>1. Stored' = IF to = "back" THEN Append(Stored, m) ELSE <<m>> \o Stored
    <3>1. Stored = ms /\ Stored' = ns
      BY ONLY <1>2, <1>8, SeenAfter, Zenon DEF Stored
    <3>. QED BY ONLY <1>6, <1>11, <3>1, Zenon
  <2>. QED BY ONLY <1>1, <1>10, <2>1, SeenPut, Zenon
<1>. QED BY <1>9, <1>11

\* A kqueue_t: a pointer is stored or handed over, to one waiter or to all.
LEMMA MsgSendStep ==
    ASSUME QueueInv, NEW m \in Msg, NEW to \in {"back", "front"},
           NEW wake \in {"one", "all"}, msg_send(m, to, wake)
    PROVE  /\ QueueInv'
           /\ FrontUniform => /\ wake = "one" => Q!Send(m, to)
                              /\ wake = "all" => Q!SendAll(m, to)
<1>1. /\ WaitOf(blk_list, blk_state, task_msg, in_recv)
      /\ StoreOf(obj_type, ringbuf, cur_num) /\ blk_list \in Seq(Task)
  BY ONLY QueueInv, InvParts, Zenon
<1>2. /\ obj_type = "queue" /\ obj_type # "none" /\ Len(m) = BlkSize
      /\ cur_num < QueueSize /\ ev' = Sent(m, to, wake)
      /\ blk_list = <<>> => Store(m, to)
      /\ blk_list # <<>> => task_msg_recv(IF wake = "all" THEN Len(blk_list) ELSE 1, m)
  BY ONLY msg_send(m, to, wake) DEF msg_send
<1>3. PICK ms : ms = StoredOf(obj_type, ringbuf)
  OBVIOUS
<1>4. Stores(ringbuf, ms) /\ Len(ms) = cur_num /\ ringbuf.type = "fix"
  <2>1. InUse(obj_type, ringbuf, cur_num, ms)
    BY ONLY <1>1, <1>2, <1>3, StoreOfParts, Zenon
  <2>. QED BY ONLY <1>2, <2>1, Zenon DEF InUse
<1>5. Sized(ringbuf.type, m)
  BY ONLY <1>2, <1>4, m \in Msg, QueueAssumption DEF Sized
<1>6. CanPush(ringbuf, Len(m))
  BY ONLY <1>2, <1>4, StoresRoom, Zenon DEF QueueSize
<1>7. CASE blk_list = <<>>
  <2>1. ringbuf.type # "dyn" /\ Store(m, to)
    BY ONLY <1>2, <1>4, <1>7
  <2>2. QueueInv' /\ (FrontUniform => Q!Put(m, to))
    BY ONLY QueueInv, <1>2, <1>5, <1>6, <1>7, <2>1, m \in Msg, to \in {"back", "front"},
            StoreStep, Zenon
  <2>. QED BY ONLY <1>2, <2>2, wake \in {"one", "all"}
           DEF Q!Send, Q!SendAll, Q!Sent, Sent
<1>8. CASE blk_list # <<>>
  <2>1. Len(blk_list) \in Nat \ {0} /\ 1 \in 1 .. Len(blk_list)
        /\ Len(blk_list) \in 1 .. Len(blk_list)
    BY ONLY <1>1, <1>8
  <2>2. CASE wake = "one"
    <3>1. task_msg_recv(1, m) /\ wake # "all"
      BY ONLY <1>2, <1>8, <2>2
    <3>2. QueueInv' /\ Q!Hand(m)
      BY ONLY QueueInv, <1>8, <2>1, <3>1, m \in Msg, HandStep, Zenon
    <3>. QED BY ONLY <1>2, <2>2, <3>1, <3>2, Zenon DEF Q!Send, Q!Sent, Sent
  <2>3. CASE wake = "all"
    <3>1. task_msg_recv(Len(blk_list), m) /\ wake # "one"
      BY ONLY <1>2, <1>8, <2>3
    <3>2. QueueInv' /\ Q!HandAll(m)
      BY ONLY QueueInv, <1>8, <2>1, <3>1, m \in Msg, HandStep, Zenon
    <3>. QED BY ONLY <1>2, <2>3, <3>1, <3>2, Zenon DEF Q!SendAll, Q!Sent, Sent
  <2>. QED BY <2>2, <2>3
<1>. QED BY <1>7, <1>8

\* A kbuf_queue_t: a message is stored or handed to the first waiter.
LEMMA BufSendStep ==
    ASSUME QueueInv, NEW m \in Msg, NEW to \in {"back", "front"}, buf_queue_send(m, to)
    PROVE  QueueInv' /\ (FrontUniform => Q!Send(m, to))
<1>1. /\ WaitOf(blk_list, blk_state, task_msg, in_recv) /\ ringbuf \in Ring
      /\ StoreOf(obj_type, ringbuf, cur_num) /\ blk_list \in Seq(Task)
  BY ONLY QueueInv, InvParts, Zenon
<1>2. /\ obj_type # "none" /\ Len(m) > 0 /\ (ringbuf.type = "fix" => Len(m) = BlkSize)
      /\ to = "front" /\ ringbuf.type = "dyn" => m \in FrontMsg
      /\ ev' = Sent(m, to, "one")
      /\ \/ blk_list = <<>> /\ CanPush(ringbuf, Len(m)) /\ Store(m, to)
         \/ blk_list # <<>> /\ task_msg_recv(1, m)
  BY ONLY buf_queue_send(m, to) DEF buf_queue_send
<1>3. CASE blk_list = <<>> /\ CanPush(ringbuf, Len(m)) /\ Store(m, to)
  <2>1. ringbuf.type \in {"fix", "dyn"}
    BY ONLY <1>1, RingFields
  <2>2. Sized(ringbuf.type, m)
    BY ONLY <1>2, <1>3, <2>1, m \in Msg, QueueAssumption DEF Sized, CanPush
  <2>3. QueueInv' /\ (FrontUniform => Q!Put(m, to))
    BY ONLY QueueInv, <1>2, <1>3, <2>2, m \in Msg, to \in {"back", "front"},
            StoreStep, Zenon
  <2>. QED BY ONLY <1>2, <2>3, Zenon DEF Q!Send, Q!Sent, Sent
<1>4. CASE blk_list # <<>> /\ task_msg_recv(1, m)
  <2>1. 1 \in 1 .. Len(blk_list)
    BY ONLY <1>1, <1>4
  <2>2. QueueInv' /\ Q!Hand(m)
    BY ONLY QueueInv, <1>4, <2>1, m \in Msg, HandStep, Zenon
  <2>. QED BY ONLY <1>2, <2>2, Zenon DEF Q!Send, Q!Sent, Sent
<1>. QED BY <1>2, <1>3, <1>4

\* What the receiver looks at tells whether a message is stored.
LEMMA HasMessageIs ==
    ASSUME QueueInv, obj_type # "none"
    PROVE  HasMessage <=> Stored # <<>>
<1>1. PICK ms : ms = StoredOf(obj_type, ringbuf)
  OBVIOUS
<1>2. InUse(obj_type, ringbuf, cur_num, ms)
  BY ONLY <1>1, QueueInv, obj_type # "none", InvParts, StoreOfParts, Zenon
<1>3. /\ obj_type \in {"queue", "buf_queue"} /\ cur_num \in 0 .. RingSize
      /\ (cur_num = 0 <=> ms = <<>>) /\ (ringbuf_is_empty(ringbuf) <=> ms = <<>>)
  BY ONLY <1>2, Zenon DEF InUse
<1>4. HasMessage <=> ms # <<>>
  <2>1. cur_num > 0 <=> cur_num # 0
    BY ONLY <1>3, Sizes
  <2>. QED BY ONLY <1>3, <2>1, Zenon DEF HasMessage
<1>. QED BY ONLY <1>1, <1>4, Zenon DEF Stored

\* The messages of the tail are messages.
LEMMA TailSent ==
    ASSUME NEW ms \in Seq(Seq(Byte)), ms # <<>>
    PROVE  ToSet(Tail(ms)) \subseteq ToSet(ms)
<1>1. PICK k \in Nat : k = Len(ms) /\ k > 0
  OBVIOUS
<1>2. PICK ns : ns = Tail(ms)
  OBVIOUS
<1>3. ns \in Seq(Seq(Byte)) /\ Len(ns) = k - 1 /\ \A i \in 1 .. k - 1 : ns[i] = ms[i + 1]
  BY ONLY <1>1, <1>2, ms \in Seq(Seq(Byte)), TailAt
<1>4. \A x : x \in ToSet(ns) <=> \E i \in 1 .. k - 1 : ns[i] = x
  <2>1. \A x : x \in ToSet(ns) <=> \E i \in 1 .. Len(ns) : ns[i] = x
    BY ONLY <1>3, ToSetProps, Zenon
  <2>. QED BY ONLY <1>3, <2>1, Zenon
<1>5. \A x : x \in ToSet(ms) <=> \E i \in 1 .. k : ms[i] = x
  BY ONLY <1>1, ms \in Seq(Seq(Byte)), ToSetProps
<1>6. \A i \in 1 .. k - 1 : i + 1 \in 1 .. k
  BY ONLY k \in Nat
<1>7. \A x : x \in ToSet(ns) => x \in ToSet(ms)
  BY ONLY <1>3, <1>4, <1>5, <1>6, Zenon
<1>. QED BY ONLY <1>2, <1>7

\* A task that is not in a receive call does not wait and has no outcome.
LEMMA NotReceiving ==
    ASSUME QueueInv, NEW t \in Task, t \notin in_recv
    PROVE  t \notin ToSet(blk_list) /\ Got[t] = Outcome("none", <<>>)
<1>1. t \notin ToSet(blk_list)
  <2>1. ToSet(blk_list) \subseteq in_recv
    BY ONLY QueueInv, InvParts, Zenon
  <2>. QED BY ONLY <2>1, t \notin in_recv
<1>2. Got[t] = IF t \in in_recv \ ToSet(blk_list) THEN OutcomeOf(blk_state, task_msg, t)
               ELSE Outcome("none", <<>>)
  BY ONLY t \in Task, GotAt, Zenon DEF Got
<1>. QED BY ONLY <1>1, <1>2, t \notin in_recv, Zenon

\* A receive that finds a message: ringbuf_pop gives the oldest stored.
LEMMA PopStep ==
    ASSUME QueueInv, NEW t \in Task, recv_pop(t)
    PROVE  QueueInv' /\ Q!Get(t)
<1>1. /\ WaitOf(blk_list, blk_state, task_msg, in_recv)
      /\ StoreOf(obj_type, ringbuf, cur_num)
      /\ blk_list # <<>> => cur_num = 0
  BY ONLY QueueInv, InvParts, Zenon
<1>2. PICK p : p = ringbuf_pop(ringbuf)
  OBVIOUS
<1>3. /\ obj_type # "none" /\ t \notin in_recv /\ HasMessage
      /\ ringbuf' = p.ring /\ ev' = Received(t, Outcome("success", p.bytes))
      /\ cur_num' = cur_num - 1
      /\ obj_type' = obj_type /\ blk_list' = blk_list /\ blk_state' = blk_state
      /\ task_msg' = task_msg /\ in_recv' = in_recv
  BY ONLY <1>2, recv_pop(t) DEF recv_pop, waitVars
<1>4. PICK ms : ms = StoredOf(obj_type, ringbuf)
  OBVIOUS
<1>5. /\ Stores(ringbuf, ms) /\ Len(ms) = cur_num /\ ms \in Seq(Seq(Byte))
      /\ obj_type \in {"queue", "buf_queue"}
      /\ obj_type = "queue" => ringbuf.type = "fix"
      /\ FrontUniform => ToSet(ms) \subseteq Msg
      /\ cur_num = 0 <=> ms = <<>>
  <2>1. InUse(obj_type, ringbuf, cur_num, ms)
    BY ONLY <1>1, <1>3, <1>4, StoreOfParts, Zenon
  <2>. QED BY ONLY <2>1, Zenon DEF InUse
<1>6. ms # <<>> /\ Stored = ms
  <2>1. HasMessage <=> Stored # <<>>
    BY ONLY QueueInv, <1>3, HasMessageIs, Zenon
  <2>. QED BY ONLY <1>3, <1>4, <2>1, Zenon DEF Stored
<1>7. Stores(p.ring, Tail(ms)) /\ p.ring.type = ringbuf.type /\ p.bytes = Head(ms)
  BY ONLY <1>2, <1>5, <1>6, StoresPop, Zenon
<1>8. StoreOf(obj_type', ringbuf', cur_num') /\ StoredOf(obj_type', ringbuf') = Tail(ms)
  <2>1. Len(Tail(ms)) = cur_num - 1
    BY ONLY <1>5, <1>6
  <2>2. FrontUniform => ToSet(Tail(ms)) \subseteq Msg
    <3>1. ToSet(Tail(ms)) \subseteq ToSet(ms)
      BY ONLY <1>5, <1>6, TailSent, Zenon
    <3>. QED BY ONLY <1>5, <3>1
  <2>3. obj_type = "queue" => p.ring.type = "fix"
    BY ONLY <1>5, <1>7, Zenon
  <2>4. StoreOf(obj_type, p.ring, cur_num - 1) /\ StoredOf(obj_type, p.ring) = Tail(ms)
    BY ONLY <1>5, <1>7, <2>1, <2>2, <2>3, StoreOfStores, Zenon
  <2>. QED BY ONLY <1>3, <2>4, Zenon
<1>9. QueueInv'
  <2>1. WaitOf(blk_list', blk_state', task_msg', in_recv')
    BY ONLY <1>1, <1>3, Zenon
  <2>2. blk_list' = <<>>
    BY ONLY <1>1, <1>3, <1>5, <1>6, Zenon
  <2>. QED BY ONLY <1>8, <2>1, <2>2, InvAfter, Zenon
<1>10. Got' = Got /\ ToSet(blk_list)' = ToSet(blk_list) /\ Stored' = Tail(Stored)
  BY ONLY <1>3, <1>6, <1>8, SeenAfter, Zenon DEF Got
<1>11. t \notin ToSet(blk_list) /\ Got[t] = Outcome("none", <<>>)
  BY ONLY QueueInv, <1>3, t \in Task, NotReceiving, Zenon
<1>12. Stored # <<>> /\ ev' = Received(t, Outcome("success", Head(Stored)))
  BY ONLY <1>3, <1>6, <1>7, Zenon
<1>13. Q!Get(t)
  BY ONLY <1>10, <1>11, <1>12, SeenGet, Zenon
<1>. QED BY ONLY <1>9, <1>13, Zenon

\* A receive with RHINO_NO_WAIT that finds none.
LEMMA NoWaitStep ==
    ASSUME QueueInv, NEW t \in Task, recv_no_wait(t)
    PROVE  QueueInv' /\ Q!GetNothing(t)
<1>1. /\ obj_type # "none" /\ t \notin in_recv /\ ~HasMessage
      /\ ev' = Received(t, Outcome("no_pend_wait", <<>>))
      /\ obj_type' = obj_type /\ ringbuf' = ringbuf /\ cur_num' = cur_num
      /\ blk_list' = blk_list /\ blk_state' = blk_state
      /\ task_msg' = task_msg /\ in_recv' = in_recv
  BY ONLY recv_no_wait(t) DEF recv_no_wait, waitVars
<1>2. QueueInv'
  BY ONLY QueueInv, <1>1, Zenon DEF QueueInv
<1>3. Stored = <<>>
  BY ONLY QueueInv, <1>1, HasMessageIs, Zenon
<1>4. Stored' = Stored /\ Got' = Got /\ ToSet(blk_list)' = ToSet(blk_list)
  BY ONLY <1>1, SeenAfter, Zenon DEF Got, Stored
<1>5. t \notin ToSet(blk_list) /\ Got[t] = Outcome("none", <<>>)
  BY ONLY QueueInv, <1>1, t \in Task, NotReceiving, Zenon
<1>6. Q!GetNothing(t)
  BY ONLY <1>1, <1>3, <1>4, <1>5, SeenGetNothing, Zenon
<1>. QED BY ONLY <1>2, <1>6, Zenon

\* A receive that finds none and waits.
LEMMA PendStep ==
    ASSUME QueueInv, NEW t \in Task, recv_pend(t)
    PROVE  QueueInv' /\ Q!Wait(t)
<1>1. WaitOf(blk_list, blk_state, task_msg, in_recv) /\ StoreOf(obj_type, ringbuf, cur_num)
  BY ONLY QueueInv, InvParts, Zenon
<1>2. PICK list2 : list2 = pend_list_add(blk_list, t, Pri)
  OBVIOUS
<1>3. /\ obj_type # "none" /\ t \notin in_recv /\ ~HasMessage /\ ev' = Quiet
      /\ blk_list' = list2 /\ in_recv' = in_recv \cup {t}
      /\ obj_type' = obj_type /\ ringbuf' = ringbuf /\ cur_num' = cur_num
      /\ blk_state' = blk_state /\ task_msg' = task_msg
  BY ONLY <1>2, recv_pend(t) DEF recv_pend, pend_to_blk_obj
<1>4. Stored = <<>>
  BY ONLY QueueInv, <1>3, HasMessageIs, Zenon
<1>5. cur_num = 0
  <2>1. InUse(obj_type, ringbuf, cur_num, Stored)
    BY ONLY <1>1, <1>3, StoreOfParts, Zenon DEF Stored
  <2>. QED BY ONLY <1>4, <2>1, Zenon DEF InUse
<1>6. Joined(blk_list, blk_state, task_msg, in_recv, t, list2)
  BY ONLY <1>1, <1>2, <1>3, t \in Task, WaitAdd, Zenon
<1>7. /\ WaitOf(list2, blk_state, task_msg, in_recv \cup {t})
      /\ ToSet(list2) = ToSet(blk_list) \cup {t}
  BY ONLY <1>6, Zenon DEF Joined
<1>8. GotOf(list2, blk_state, task_msg, in_recv \cup {t})
        = GotOf(blk_list, blk_state, task_msg, in_recv)
  BY ONLY <1>6, Zenon DEF Joined
<1>9. QueueInv'
  <2>1. WaitOf(blk_list', blk_state', task_msg', in_recv')
    BY ONLY <1>3, <1>7, Zenon
  <2>2. StoreOf(obj_type', ringbuf', cur_num') /\ obj_type' # "none" /\ cur_num' = 0
    BY ONLY <1>1, <1>3, <1>5, Zenon
  <2>. QED BY ONLY <2>1, <2>2, InvAfter, Zenon
<1>10. Stored' = Stored /\ Got' = Got /\ ToSet(blk_list)' = ToSet(blk_list) \cup {t}
  BY ONLY <1>3, <1>7, <1>8, SeenAfter, Zenon DEF Got, Stored
<1>11. t \notin ToSet(blk_list) /\ Got[t] = Outcome("none", <<>>)
  BY ONLY QueueInv, <1>3, t \in Task, NotReceiving, Zenon
<1>12. Q!Wait(t)
  BY ONLY <1>3, <1>4, <1>10, <1>11, SeenWait, Zenon
<1>. QED BY ONLY <1>9, <1>12, Zenon

\* The end of a wait by timeout or abort.
LEMMA WaitEndStep ==
    ASSUME QueueInv, NEW t \in Task, NEW why \in {"timeout", "abort"}, wait_end(t, why)
    PROVE  QueueInv' /\ Q!GiveUp(t, why)
<1>1. /\ WaitOf(blk_list, blk_state, task_msg, in_recv)
      /\ StoreOf(obj_type, ringbuf, cur_num)
      /\ blk_list # <<>> => obj_type # "none" /\ cur_num = 0
  BY ONLY QueueInv, InvParts, Zenon
<1>2. PICK list2 : list2 = klist_rm(blk_list, t)
  OBVIOUS
<1>3. PICK state2 : state2 = [blk_state EXCEPT ![t] = why]
  OBVIOUS
<1>4. /\ t \in ToSet(blk_list) /\ blk_list' = list2 /\ blk_state' = state2 /\ ev' = Quiet
      /\ obj_type' = obj_type /\ ringbuf' = ringbuf /\ cur_num' = cur_num
      /\ in_recv' = in_recv /\ task_msg' = task_msg
  BY ONLY <1>2, <1>3, wait_end(t, why) DEF wait_end
<1>5. GaveUp(blk_list, blk_state, task_msg, in_recv, t, why, list2, state2)
  BY ONLY <1>1, <1>2, <1>3, <1>4, why \in {"timeout", "abort"}, WaitEnd, Zenon
<1>6. /\ WaitOf(list2, state2, task_msg, in_recv)
      /\ ToSet(list2) = ToSet(blk_list) \ {t} /\ blk_list # <<>>
  BY ONLY <1>5, Zenon DEF GaveUp
<1>7. GotOf(list2, state2, task_msg, in_recv)
        = [GotOf(blk_list, blk_state, task_msg, in_recv) EXCEPT ![t] = Outcome(why, <<>>)]
  BY ONLY <1>5, Zenon DEF GaveUp
<1>8. QueueInv'
  <2>1. WaitOf(blk_list', blk_state', task_msg', in_recv')
    BY ONLY <1>4, <1>6, Zenon
  <2>2. StoreOf(obj_type', ringbuf', cur_num') /\ obj_type' # "none" /\ cur_num' = 0
    BY ONLY <1>1, <1>4, <1>6, Zenon
  <2>. QED BY ONLY <2>1, <2>2, InvAfter, Zenon
<1>9. /\ Stored' = Stored /\ ToSet(blk_list)' = ToSet(blk_list) \ {t}
      /\ Got' = [Got EXCEPT ![t] = Outcome(why, <<>>)]
  BY ONLY <1>4, <1>6, <1>7, SeenAfter, Zenon DEF Got, Stored
<1>10. Q!GiveUp(t, why)
  BY ONLY <1>4, <1>9, SeenGiveUp, Zenon
<1>. QED BY ONLY <1>8, <1>10, Zenon

\* The return from a receive that waited.
LEMMA ReturnStep ==
    ASSUME QueueInv, NEW t \in Task, pend_state_end_proc(t)
    PROVE  QueueInv' /\ Q!Return(t)
<1>1. /\ WaitOf(blk_list, blk_state, task_msg, in_recv)
      /\ StoreOf(obj_type, ringbuf, cur_num)
      /\ blk_list # <<>> => obj_type # "none" /\ cur_num = 0
  BY ONLY QueueInv, InvParts, Zenon
<1>2. PICK state2 : state2 = [blk_state EXCEPT ![t] = "none"]
  OBVIOUS
<1>3. PICK msg2 : msg2 = [task_msg EXCEPT ![t] = <<>>]
  OBVIOUS
<1>4. /\ t \in in_recv /\ t \notin ToSet(blk_list)
      /\ ev' = Received(t, OutcomeOf(blk_state, task_msg, t))
      /\ in_recv' = in_recv \ {t} /\ blk_state' = state2 /\ task_msg' = msg2
      /\ obj_type' = obj_type /\ ringbuf' = ringbuf /\ cur_num' = cur_num
      /\ blk_list' = blk_list
  BY ONLY <1>2, <1>3, pend_state_end_proc(t) DEF pend_state_end_proc, Ended, OutcomeOf
<1>5. Returned(blk_list, blk_state, task_msg, in_recv, t, state2, msg2)
  BY ONLY <1>1, <1>2, <1>3, <1>4, WaitReturn, Zenon
<1>6. /\ WaitOf(blk_list, state2, msg2, in_recv \ {t})
      /\ GotOf(blk_list, blk_state, task_msg, in_recv)[t] = OutcomeOf(blk_state, task_msg, t)
      /\ OutcomeOf(blk_state, task_msg, t) # Outcome("none", <<>>)
  BY ONLY <1>5, Zenon DEF Returned
<1>7. GotOf(blk_list, state2, msg2, in_recv \ {t})
        = [GotOf(blk_list, blk_state, task_msg, in_recv) EXCEPT ![t] = Outcome("none", <<>>)]
  BY ONLY <1>5, Zenon DEF Returned
<1>8. QueueInv'
  <2>1. WaitOf(blk_list', blk_state', task_msg', in_recv')
    BY ONLY <1>4, <1>6, Zenon
  <2>2. StoreOf(obj_type', ringbuf', cur_num')
        /\ (blk_list' # <<>> => obj_type' # "none" /\ cur_num' = 0)
    BY ONLY <1>1, <1>4, Zenon
  <2>. QED BY ONLY <2>1, <2>2, InvAfter, Zenon
<1>9. /\ Stored' = Stored /\ ToSet(blk_list)' = ToSet(blk_list)
      /\ Got' = [Got EXCEPT ![t] = Outcome("none", <<>>)]
  BY ONLY <1>4, <1>7, SeenAfter, Zenon DEF Got, Stored
<1>10. Got[t] # Outcome("none", <<>>) /\ ev' = Received(t, Got[t])
  BY ONLY <1>4, <1>6, Zenon DEF Got
<1>11. Q!Return(t)
  BY ONLY <1>9, <1>10, SeenReturn, Zenon
<1>. QED BY ONLY <1>8, <1>11, Zenon

-----------------------------------------------------------------------------
(***************************************************************************)
(* The theorems.                                                           *)
(***************************************************************************)
LEMMA InitHolds ==
    ASSUME Init
    PROVE  QueueInv /\ Q!Init
<1>1. /\ obj_type = "none"
      /\ ringbuf = ringbuf_init("fix", [p \in 0 .. RingSize - 1 |-> 0])
      /\ cur_num = 0 /\ blk_list = <<>> /\ blk_state = [t \in Task |-> "none"]
      /\ task_msg = [t \in Task |-> <<>>] /\ in_recv = {} /\ ev = Quiet
  BY ONLY Init, Zenon DEF Init
<1>2. <<>> \in Seq(Task) /\ ToSet(<<>>) = {} /\ IsInjective(<<>>) /\ Sorted(<<>>, Pri)
  <2>1. <<>> \in Seq(Task) /\ Len(<<>>) = 0 /\ 1 .. 0 = {} /\ DOMAIN <<>> = {}
    OBVIOUS
  <2>2. IsInjective(<<>>) /\ Sorted(<<>>, Pri)
    BY ONLY <2>1, Zenon DEF IsInjective, Sorted
  <2>3. ToSet(<<>>) = {}
    BY ONLY <2>1, ToSetProps, Zenon
  <2>. QED BY ONLY <2>1, <2>2, <2>3, Zenon
<1>3. WaitOf(blk_list, blk_state, task_msg, in_recv)
  BY ONLY <1>1, <1>2 DEF WaitOf, BlkStates
<1>4. ringbuf \in Ring
  <2>1. 0 \in Byte
    BY ONLY Sizes DEF Byte
  <2>2. [p \in 0 .. RingSize - 1 |-> 0] \in [0 .. RingSize - 1 -> Byte]
    BY ONLY <2>1
  <2>. QED BY ONLY <1>1, <2>2, Sizes DEF Ring, ringbuf_init
<1>5. StoreOf(obj_type, ringbuf, cur_num) /\ StoredOf(obj_type, ringbuf) = <<>>
  <2>1. obj_type \in ObjTypes /\ obj_type # "queue"
    BY ONLY <1>1 DEF ObjTypes
  <2>2. cur_num \in 0 .. RingSize
    BY ONLY <1>1, Sizes
  <2>3. StoredOf(obj_type, ringbuf) = <<>>
    BY ONLY <1>1, Zenon DEF StoredOf
  <2>. QED BY ONLY <1>1, <1>4, <2>1, <2>2, <2>3, NoneSent, Zenon DEF StoreOf
<1>6. QueueInv
  BY ONLY <1>1, <1>3, <1>5, Zenon DEF QueueInv
<1>7. Stored = <<>> /\ Got = [t \in Task |-> Outcome("none", <<>>)]
  <2>1. Stored = <<>>
    BY ONLY <1>5, Zenon DEF Stored
  <2>2. Got = [t \in Task |-> Outcome("none", <<>>)]
    BY ONLY <1>1 DEF Got, GotOf
  <2>. QED BY ONLY <2>1, <2>2, Zenon
<1>8. Q!Init
  BY ONLY <1>1, <1>2, <1>7 DEF Q!Init, Q!Nothing, Q!Outcome, Q!Quiet, Quiet, Outcome,
     Stored, StoredOf, Got, GotOf, OutcomeOf, Ended
<1>. QED BY ONLY <1>6, <1>8, Zenon

\* Every step keeps the invariant, and is a step of MsgQueue.
LEMMA StepHolds ==
    ASSUME QueueInv, Next
    PROVE  QueueInv' /\ (FrontUniform => Q!Next)
<1>1. CASE krhino_queue_create
  <2>1. QueueInv' /\ Q!Flush
    BY ONLY QueueInv, <1>1, CreateStep, SMT DEF krhino_queue_create
  <2>. QED BY ONLY <2>1, Zenon DEF Q!Next
<1>2. CASE krhino_buf_queue_create
  <2>1. QueueInv' /\ Q!Flush
    BY ONLY QueueInv, <1>2, CreateStep, SMT DEF krhino_buf_queue_create
  <2>. QED BY ONLY <2>1, Zenon DEF Q!Next
<1>3. CASE krhino_fix_buf_queue_create
  <2>1. QueueInv' /\ Q!Flush
    BY ONLY QueueInv, <1>3, CreateStep, SMT DEF krhino_fix_buf_queue_create
  <2>. QED BY ONLY <2>1, Zenon DEF Q!Next
<1>4. CASE queue_del
  <2>1. QueueInv' /\ Q!Delete
    BY ONLY QueueInv, <1>4, DeleteStep, Zenon
  <2>. QED BY ONLY <2>1, Zenon DEF Q!Next
<1>5. CASE queue_flush
  <2>1. QueueInv' /\ Q!Flush
    BY ONLY QueueInv, <1>5, FlushStep, Zenon
  <2>. QED BY ONLY <2>1, Zenon DEF Q!Next
<1>6. ASSUME NEW m \in Msg, NEW to \in {"back", "front"}, NEW wake \in {"one", "all"},
             msg_send(m, to, wake)
      PROVE  QueueInv' /\ (FrontUniform => Q!Next)
  <2>1. /\ QueueInv'
        /\ FrontUniform => /\ wake = "one" => Q!Send(m, to)
                           /\ wake = "all" => Q!SendAll(m, to)
    BY ONLY QueueInv, <1>6, m \in Msg, to \in {"back", "front"}, wake \in {"one", "all"},
            MsgSendStep, Zenon
  <2>2. FrontUniform => Q!Send(m, to) \/ Q!SendAll(m, to)
    BY ONLY <2>1, wake \in {"one", "all"}, Zenon
  <2>. QED BY ONLY <2>1, <2>2, m \in Msg, to \in {"back", "front"}, Zenon DEF Q!Next
<1>7. ASSUME NEW m \in Msg, NEW to \in {"back", "front"}, buf_queue_send(m, to)
      PROVE  QueueInv' /\ (FrontUniform => Q!Next)
  <2>1. QueueInv' /\ (FrontUniform => Q!Send(m, to))
    BY ONLY QueueInv, <1>7, m \in Msg, to \in {"back", "front"}, BufSendStep, Zenon
  <2>. QED BY ONLY <2>1, m \in Msg, to \in {"back", "front"}, Zenon DEF Q!Next
<1>8. ASSUME NEW t \in Task, recv_pop(t) PROVE QueueInv' /\ Q!Next
  <2>1. QueueInv' /\ Q!Get(t)
    BY ONLY QueueInv, <1>8, t \in Task, PopStep, Zenon
  <2>. QED BY ONLY <2>1, t \in Task, Zenon DEF Q!Next
<1>9. ASSUME NEW t \in Task, recv_no_wait(t) PROVE QueueInv' /\ Q!Next
  <2>1. QueueInv' /\ Q!GetNothing(t)
    BY ONLY QueueInv, <1>9, t \in Task, NoWaitStep, Zenon
  <2>. QED BY ONLY <2>1, t \in Task, Zenon DEF Q!Next
<1>10. ASSUME NEW t \in Task, recv_pend(t) PROVE QueueInv' /\ Q!Next
  <2>1. QueueInv' /\ Q!Wait(t)
    BY ONLY QueueInv, <1>10, t \in Task, PendStep, Zenon
  <2>. QED BY ONLY <2>1, t \in Task, Zenon DEF Q!Next
<1>11. ASSUME NEW t \in Task, wait_end(t, "timeout") PROVE QueueInv' /\ Q!Next
  <2>1. "timeout" \in {"timeout", "abort"}
    OBVIOUS
  <2>2. QueueInv' /\ Q!GiveUp(t, "timeout")
    BY ONLY QueueInv, <1>11, <2>1, t \in Task, WaitEndStep, Zenon
  <2>. QED BY ONLY <2>2, t \in Task, Zenon DEF Q!Next
<1>12. ASSUME NEW t \in Task, wait_end(t, "abort") PROVE QueueInv' /\ Q!Next
  <2>1. "abort" \in {"timeout", "abort"}
    OBVIOUS
  <2>2. QueueInv' /\ Q!GiveUp(t, "abort")
    BY ONLY QueueInv, <1>12, <2>1, t \in Task, WaitEndStep, Zenon
  <2>. QED BY ONLY <2>2, t \in Task, Zenon DEF Q!Next
<1>13. ASSUME NEW t \in Task, pend_state_end_proc(t) PROVE QueueInv' /\ Q!Next
  <2>1. QueueInv' /\ Q!Return(t)
    BY ONLY QueueInv, <1>13, t \in Task, ReturnStep, Zenon
  <2>. QED BY ONLY <2>1, t \in Task, Zenon DEF Q!Next
<1>. QED BY ONLY Next, <1>1, <1>2, <1>3, <1>4, <1>5, <1>6, <1>7, <1>8, <1>9, <1>10, <1>11,
             <1>12, <1>13, Zenon DEF Next

\* Steps that change nothing keep the invariant and change nothing MsgQueue sees.
LEMMA StutterHolds ==
    ASSUME QueueInv, UNCHANGED vars
    PROVE  QueueInv' /\ UNCHANGED Q!vars
<1>1. /\ obj_type' = obj_type /\ ringbuf' = ringbuf /\ cur_num' = cur_num
      /\ blk_list' = blk_list /\ blk_state' = blk_state
      /\ task_msg' = task_msg /\ in_recv' = in_recv /\ ev' = ev
  BY ONLY UNCHANGED vars DEF vars, waitVars
<1>2. QueueInv'
  BY ONLY QueueInv, <1>1, Zenon DEF QueueInv
<1>3. UNCHANGED Q!vars
  BY ONLY <1>1 DEF Q!vars, Ended
<1>. QED BY ONLY <1>2, <1>3, Zenon

(***************************************************************************)
(* The invariant the other results rest on: waiters and outcomes agree,    *)
(* the bytes of the ring are cur_num whole messages one after the other,   *)
(* and nobody waits while one is stored.                                   *)
(***************************************************************************)
THEOREM QueueInvariant == Spec => []QueueInv
<1>1. Init => QueueInv
  BY InitHolds
<1>2. QueueInv /\ [Next]_vars => QueueInv'
  BY ONLY StepHolds, StutterHolds, Zenon
<1>. QED BY <1>1, <1>2, PTL DEF Spec

\* The ring and its counters stay within their bounds, whatever is sent, for every
\* size of the ring, of a block and of a message.
THEOREM QueueTypeCorrect == Spec => []TypeOK
<1>1. QueueInv => TypeOK
  <2>. SUFFICES ASSUME QueueInv PROVE TypeOK
    OBVIOUS
  <2>1. WaitOf(blk_list, blk_state, task_msg, in_recv)
        /\ StoreOf(obj_type, ringbuf, cur_num)
    BY ONLY QueueInv, InvParts, Zenon
  <2>. QED BY ONLY <2>1, Zenon DEF WaitOf, StoreOf, TypeOK
<1>. QED BY <1>1, QueueInvariant, PTL

\* No receiver waits while a message is stored.
THEOREM QueueNoMissedMessage == Spec => []NoWaiterMissesMessage
<1>1. QueueInv => NoWaiterMissesMessage
  <2>. SUFFICES ASSUME QueueInv, blk_list # <<>>
                PROVE  cur_num = 0 /\ ringbuf_is_empty(ringbuf)
    BY DEF NoWaiterMissesMessage
  <2>1. obj_type # "none" /\ cur_num = 0 /\ StoreOf(obj_type, ringbuf, cur_num)
    BY ONLY QueueInv, blk_list # <<>>, InvParts, Zenon
  <2>2. InUse(obj_type, ringbuf, cur_num, StoredOf(obj_type, ringbuf))
    BY ONLY <2>1, StoreOfParts, Zenon
  <2>. QED BY ONLY <2>1, <2>2, Zenon DEF InUse
<1>. QED BY <1>1, QueueInvariant, PTL

\* The messages read from the ring are as many as cur_num says, they are messages
\* that were sent, they take the bytes in use and end at tail.
THEOREM QueueRingHoldsSent ==
    ASSUME FrontUniform
    PROVE  Spec => []RingHoldsSentMessages
<1>1. QueueInv => RingHoldsSentMessages
  <2>. SUFFICES ASSUME QueueInv PROVE RingHoldsSentMessages
    OBVIOUS
  <2>1. CASE obj_type = "none"
    BY ONLY <2>1, Zenon DEF RingHoldsSentMessages
  <2>2. CASE obj_type # "none"
    <3>1. PICK ms : ms = StoredOf(obj_type, ringbuf)
      OBVIOUS
    <3>2. InUse(obj_type, ringbuf, cur_num, ms)
      BY ONLY QueueInv, <2>2, <3>1, InvParts, StoreOfParts, Zenon
    <3>3. Stores(ringbuf, ms) /\ Len(ms) = cur_num /\ ToSet(ms) \subseteq Msg
      BY ONLY FrontUniform, <3>2, Zenon DEF InUse
    <3>4. /\ RoomOf(ringbuf.type, ms) = Used(ringbuf)
          /\ (ringbuf.head + Used(ringbuf)) % RingSize = ringbuf.tail % RingSize
      BY ONLY <3>3, StoresReads, Zenon
    <3>5. Messages(ringbuf) = ms
      BY ONLY <2>2, <3>1, Zenon DEF StoredOf
    <3>. QED BY ONLY <3>3, <3>4, <3>5, Zenon DEF RingHoldsSentMessages
  <2>. QED BY <2>1, <2>2
<1>. QED BY <1>1, QueueInvariant, PTL

\* Every behaviour of the queue is one of MsgQueue.
THEOREM QueueRefines ==
    ASSUME FrontUniform
    PROVE  Spec => ImplementsMsgQueue
<1>1. Init => Q!Init
  BY InitHolds
<1>2. QueueInv /\ [Next]_vars => [Q!Next]_Q!vars
  BY ONLY FrontUniform, StepHolds, StutterHolds, Zenon
<1>. QED BY <1>1, <1>2, QueueInvariant, PTL DEF Spec, ImplementsMsgQueue, Q!Spec

=============================================================================
