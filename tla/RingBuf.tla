------------------------------- MODULE RingBuf -------------------------------
(***************************************************************************)
(* The byte ring of kernel/rhino/core/k_ringbuf.c, as operators on a       *)
(* k_ringbuf_t.  Its memory is a function from positions to bytes, buf is  *)
(* position 0 and end is RingSize; head and tail may stand at end until    *)
(* the next operation moves them to buf.  A message is a sequence of       *)
(* bytes.  A ring of type "dyn" keeps the length of each message in one to *)
(* three bytes in front of it; a ring of type "fix" holds blocks of        *)
(* BlkSize bytes.                                                          *)
(*                                                                         *)
(* ByteMod is 256 in the code.  The masks of k_ringbuf.h are the halves    *)
(* and quarters of it, so a smaller ByteMod keeps the encoding and makes   *)
(* lengths of two and three bytes appear in short messages.                *)
(***************************************************************************)
EXTENDS Integers, Sequences, SequencesExt

CONSTANTS RingSize, BlkSize, ByteMod

ASSUME RingAssumption ==
    /\ RingSize \in Nat \ {0}
    /\ BlkSize \in Nat \ {0}
    /\ RingSize % BlkSize = 0
    /\ ByteMod \in Nat \ {0} /\ ByteMod % 4 = 0

Byte == 0 .. ByteMod - 1
VLE_2BYTES == ByteMod \div 2
VLE_3BYTES == VLE_2BYTES + ByteMod \div 4
LEN_1BYTE_MAXVALUE == VLE_2BYTES - 1
LEN_2BYTES_MAXVALUE == (ByteMod \div 4) * ByteMod - 1
LEN_3BYTES_MAXVALUE == (ByteMod \div 4) * ByteMod * ByteMod - 1

Ring == [type : {"fix", "dyn"}, mem : [0 .. RingSize - 1 -> Byte],
         head : 0 .. RingSize, tail : 0 .. RingSize, freesize : 0 .. RingSize]

ringbuf_reset(r) == [r EXCEPT !.head = 0, !.tail = 0, !.freesize = RingSize]

\* memset is not called: a new ring keeps the bytes the memory held.
ringbuf_init(type, mem) ==
    [type |-> type, mem |-> mem, head |-> 0, tail |-> 0, freesize |-> RingSize]

COMPRESS_LEN(n) == IF n <= LEN_1BYTE_MAXVALUE THEN 1
                   ELSE IF n <= LEN_2BYTES_MAXVALUE THEN 2 ELSE 3

ringbuf_headlen_compress(n) ==
    LET low == n % ByteMod
        high == n \div ByteMod
    IN  CASE COMPRESS_LEN(n) = 1 -> <<n>>
          [] COMPRESS_LEN(n) = 2 -> <<VLE_2BYTES + high, low>>
          [] COMPRESS_LEN(n) = 3 ->
                 <<VLE_3BYTES + high \div ByteMod, high % ByteMod, low>>

\* The number of length bytes, told by the two highest bits of the first.
HeadLen(b) == IF b < VLE_2BYTES THEN 1 ELSE IF b < VLE_3BYTES THEN 2 ELSE 3

ringbuf_headlen_decompress(bytes) ==
    LET first == bytes[1] % (ByteMod \div 4)
    IN  CASE Len(bytes) = 1 -> bytes[1]
          [] Len(bytes) = 2 -> first * ByteMod + bytes[2]
          [] Len(bytes) = 3 -> (first * ByteMod + bytes[2]) * ByteMod + bytes[3]

ringbuf_is_empty(r) == r.freesize = RingSize

ringbuf_is_full(r) == r.freesize < IF r.type = "dyn" THEN 2 ELSE BlkSize

\* ringbuf_push and ringbuf_head_push return an error without a change unless
\* this holds.
CanPush(r, n) ==
    /\ ~ringbuf_is_full(r)
    /\ r.type = "dyn" => /\ n <= LEN_3BYTES_MAXVALUE
                         /\ r.freesize >= COMPRESS_LEN(n) + n

\* memcpy to the ring.
Copy(mem, at, bytes) ==
    [p \in DOMAIN mem |->
        IF p \in at .. at + Len(bytes) - 1 THEN bytes[p - at + 1] ELSE mem[p]]
------------------------------------------------------------------------------
\* Mutant: the bytes are copied in one piece, past the end of the memory.
Append1_NoSplit(r, bytes) ==
    LET tail == IF r.tail = RingSize THEN 0 ELSE r.tail
    IN  [r EXCEPT !.mem = Copy(@, tail, bytes), !.tail = tail + Len(bytes),
                  !.freesize = @ - Len(bytes)]

\* memcpy at the tail, in two pieces when the end of the memory is near.
Append1(r, bytes) ==
    LET tail  == IF r.tail = RingSize THEN 0 ELSE r.tail
        split == IF tail >= r.head /\ RingSize - tail < Len(bytes)
                 THEN RingSize - tail ELSE 0
        at    == IF split > 0 THEN 0 ELSE tail
    IN  [r EXCEPT
          !.mem  = Copy(Copy(@, tail, SubSeq(bytes, 1, split)),
                        at, SubSeq(bytes, split + 1, Len(bytes))),
          !.tail = at + Len(bytes) - split,
          !.freesize = @ - Len(bytes)]

\* Mutant: the length field is not taken off freesize.
ringbuf_push_FreeHead(r, data) ==
    IF r.type = "fix"
    THEN Append1(r, data)
    ELSE LET h == Append1(r, ringbuf_headlen_compress(Len(data)))
         IN  Append1([h EXCEPT !.freesize = r.freesize], data)

\* A "fix" ring has room for whole blocks, so Append1 does not split.
ringbuf_push(r, data) ==
    IF r.type = "fix"
    THEN Append1(r, data)
    ELSE Append1(Append1(r, ringbuf_headlen_compress(Len(data))), data)
------------------------------------------------------------------------------
\* ringbuf_head_push: head as the next bytes are put in front of it, how many
\* of n bytes go to the start of the memory, and the two copies.
FrontPos(r) == IF r.head = 0 THEN RingSize ELSE r.head

WrapLen(r, n) == IF FrontPos(r) <= r.tail /\ FrontPos(r) < n THEN FrontPos(r) ELSE 0

Prepend(r, atBuf, atEnd) ==
    LET head == (IF atBuf = <<>> THEN FrontPos(r) ELSE RingSize) - Len(atEnd)
    IN  [r EXCEPT !.mem  = Copy(Copy(@, 0, atBuf), head, atEnd),
                  !.head = head,
                  !.freesize = @ - Len(atBuf) - Len(atEnd)]

\* The data that does not fit below head: its first bytes are the ones copied
\* to the start of the memory.
PrependData(r, data) ==
    LET n == WrapLen(r, Len(data))
    IN  Prepend(r, SubSeq(data, 1, n), SubSeq(data, n + 1, Len(data)))

\* The length field: its last bytes are copied to the start of the memory.
PrependHead(r, bytes) ==
    LET k == Len(bytes) - WrapLen(r, Len(bytes))
    IN  Prepend(r, SubSeq(bytes, k + 1, Len(bytes)), SubSeq(bytes, 1, k))

ringbuf_head_push(r, data) ==
    IF r.type = "fix"
    THEN Prepend(r, <<>>, data)
    ELSE PrependHead(PrependData(r, data), ringbuf_headlen_compress(Len(data)))
------------------------------------------------------------------------------
\* memcpy of n bytes from the head, in two pieces when wrap allows it.
Take(r, n, wrap) ==
    LET head  == IF r.head = RingSize THEN 0 ELSE r.head
        split == IF wrap /\ RingSize - head < n THEN RingSize - head ELSE 0
        at    == IF split > 0 THEN 0 ELSE head
    IN  [bytes |-> [i \in 1 .. n |-> r.mem[IF i <= split THEN head + i - 1
                                           ELSE at + i - split - 1]],
         ring  |-> [r EXCEPT !.head = at + n - split, !.freesize = @ + n]]

\* The length of the message at the head of a "dyn" ring, and what is left.
TakeLen(r) ==
    LET head == IF r.head = RingSize THEN 0 ELSE r.head
        t    == Take(r, HeadLen(r.mem[head]), TRUE)
    IN  [len |-> ringbuf_headlen_decompress(t.bytes), ring |-> t.ring]

\* [bytes, ring]: the message popped and the ring after it.
ringbuf_pop(r) ==
    IF r.type = "fix"
    THEN Take(r, BlkSize, FALSE)
    ELSE LET t    == TakeLen(r)
             head == IF t.ring.head = RingSize THEN 0 ELSE t.ring.head
         IN  Take(t.ring, t.len, head > t.ring.tail)
------------------------------------------------------------------------------
(***************************************************************************)
(* What a ring means: the bytes from head on, as far as they are in use,   *)
(* read as messages by the format of the ring.  This does not use          *)
(* ringbuf_pop, and asks nothing about where the bytes wrap.               *)
(***************************************************************************)
Used(r) == RingSize - r.freesize

Content(r) == [i \in 1 .. Used(r) |-> r.mem[(r.head + i - 1) % RingSize]]

\* The message that starts k bytes before the end of the content c: its length
\* bytes, its size, and whether the k bytes hold all of it.
LenBytes(type, c, k) == IF type = "fix" THEN 0 ELSE HeadLen(c[Len(c) - k + 1])

MsgSize(type, c, k) ==
    IF type = "fix" THEN BlkSize
    ELSE ringbuf_headlen_decompress(
             SubSeq(c, Len(c) - k + 1, Len(c) - k + LenBytes(type, c, k)))

Whole(type, c, k) ==
    /\ k > 0
    /\ LenBytes(type, c, k) <= k
    /\ MsgSize(type, c, k) > 0
    /\ LenBytes(type, c, k) + MsgSize(type, c, k) <= k

\* The messages in the last k bytes of c, for every k; <<>> where they end in
\* the middle of a message.
MessagesFrom(type, c) ==
    LET start(k) == Len(c) - k + LenBytes(type, c, k)
        from[k \in 0 .. Len(c)] ==
            IF ~Whole(type, c, k) THEN <<>>
            ELSE <<SubSeq(c, start(k) + 1, start(k) + MsgSize(type, c, k))>>
                 \o from[k - LenBytes(type, c, k) - MsgSize(type, c, k)]
    IN  from

Messages(r) == MessagesFrom(r.type, Content(r))[Used(r)]

\* The bytes a message, and a sequence of messages, take in a ring of this type.
Room(type, m) == Len(m) + IF type = "fix" THEN 0 ELSE COMPRESS_LEN(Len(m))

RoomOf(type, ms) ==
    LET room[i \in 0 .. Len(ms)] ==
            IF i = 0 THEN 0 ELSE room[i - 1] + Room(type, ms[i])
    IN  room[Len(ms)]
==============================================================================
