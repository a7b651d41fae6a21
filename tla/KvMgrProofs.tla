----------------------------- MODULE KvMgrProofs -----------------------------
(***************************************************************************)
(* What the key-value store promises across power failures, for any number *)
(* of keys, values, clients, calls and failures and any size of a block.   *)
(***************************************************************************)
EXTENDS KvMgr, FiniteSetTheorems, TLAPS

(***************************************************************************)
(* The inductive invariant.                                                *)
(***************************************************************************)
\* Item i of block b is normal; the items of b; what its header says.
Normal(b, i) == items[b][i].state = "normal"
Index(b) == 1 .. Len(items[b])
InUse(b) == hdr[b] \in {"used", "dirty"}
CleanEmpty(b) == hdr[b] = "clean" /\ items[b] = <<>>
CleanFull(b) == hdr[b] = "clean" /\ items[b] # <<>>
\* The items of key k.
Has(b, k) == {i \in Index(b) : Normal(b, i) /\ items[b][i].key = k}
\* Those a reader can trust.
Live(b, k) == {i \in Has(b, k) : items[b][i].crc}

\* Where a client, kv_init and the collector can be, and with which locals.
ClientPlace == {"none", "load", "count", "sem", "wait", "lock",
                "store", "delete", "dirty", "unlock"}
Holding == {"store", "delete", "dirty", "unlock"}
ClientType == [at : ClientPlace, key : Key \cup {NULL}, val : Val \cup {NoVal},
               old : Place, n : Nat]
BootType == [at : {"scan", "format", "item", "mark", "unclean", "wpos", "up"},
             blk : Blk, j : Nat, unclean : SUBSET Blk, mark : Blk]
GcHolding == {"copy", "format", "used", "exit"}
GcType == [at : {"none", "lock"} \cup GcHolding, src : Blk, dst : Blk, j : Nat]

\* TypeOK and the types of the control state.
Types ==
    /\ hdr \in [Blk -> {"erased", "clean", "used", "dirty"}]
    /\ items \in [Blk -> Seq(ItemType)]
    /\ \A b \in Blk : Len(items[b]) <= Cap
    /\ \A b \in Blk : \A i \in Index(b) : items[b][i].crc => items[b][i].val \in Val
    /\ state \in [Blk -> {"none", "clean", "used", "dirty"}]
    /\ clean_blk_nums \in 0 .. 2 /\ wblk \in Blk
    /\ gc_triggered \in BOOLEAN /\ gc_waiter \in Nat /\ gc_sem \in Nat /\ tails \in Nat
    /\ kv_mutex \in Client \cup {"gc", NULL}
    /\ boot \in BootType
    /\ gc \in GcType
    /\ client \in [Client -> ClientType]
    /\ \A c \in Client : client[c].at # "none" => client[c].key \in Key
    /\ allowed \in [Key -> SUBSET (Val \cup {NoVal})]

\* One task at a time works on the store, and nobody before kv_init is done.
Mutexed ==
    /\ \A c \in Client : client[c].at \in Holding <=> kv_mutex = c
    /\ gc.at \in GcHolding <=> kv_mutex = "gc"
    /\ ~gc_triggered => gc.at = "none"
    /\ ~Up => kv_mutex = NULL /\ ~gc_triggered /\ \A c \in Client : client[c].at = "none"

\* What a power failure finds: one block in use at most, and the copies of one
\* collection.
FlashOK ==
    \A b \in Blk :
        /\ InUse(b) => ~InUse(1 - b)
        /\ hdr[b] = "erased" => items[b] = <<>>
        /\ CleanFull(b) => ~CleanFull(1 - b)

\* The traversal of kv_init has not come to item i of block b.
Scanning == boot.at \in {"scan", "item", "mark"} \/ (boot.at = "format" /\ boot.j > 0)
Ahead(b, i) ==
    /\ Scanning
    /\ \/ b > boot.blk
       \/ b = boot.blk /\ (i > boot.j \/ (i = boot.j /\ boot.at # "mark"))

\* The traversal has left block b, and it is not being formatted after that.
Reformat == boot.at = "format" /\ boot.j = 0
Passed(b) == IF Scanning THEN b < boot.blk ELSE ~(Reformat /\ b = boot.blk)

\* kv_init knows the blocks it has passed.
BootOK ==
    /\ ~Up =>
        /\ boot.unclean = {b \in Blk : Passed(b) /\ CleanFull(b)}
        /\ clean_blk_nums = (IF Passed(0) /\ CleanEmpty(0) THEN 1 ELSE 0)
                          + (IF Passed(1) /\ CleanEmpty(1) THEN 1 ELSE 0)
        /\ wblk = 0
    /\ Scanning =>
        /\ boot.j >= 1
        /\ \A b \in Blk : b < boot.blk => state[b] = hdr[b] /\ hdr[b] # "erased"
        /\ \A b \in Blk : b > boot.blk => state[b] = "none"
        /\ boot.at = "scan" => boot.j = 1
        /\ boot.at = "format" => hdr[boot.blk] = "erased"
        /\ boot.at \in {"item", "mark"} =>
             state[boot.blk] = hdr[boot.blk] /\ hdr[boot.blk] # "erased"
        /\ boot.at = "mark" =>
             /\ boot.j <= Len(items[boot.blk])
             /\ boot.mark # boot.blk => Normal(boot.blk, boot.j)
    /\ boot.at \in {"unclean", "wpos"} =>
        \A b \in Blk : state[b] = hdr[b] /\ hdr[b] # "erased"
    /\ boot.at = "wpos" => boot.unclean = {} /\ clean_blk_nums >= 1
    /\ Reformat =>
        /\ hdr[boot.blk] \in {"clean", "erased"} /\ state[boot.blk] = "clean"
        /\ InUse(1 - boot.blk) /\ state[1 - boot.blk] = hdr[1 - boot.blk]

\* Nothing but wblk holds items, in flash and in RAM.
Idle ==
    /\ hdr = state
    /\ InUse(wblk) /\ CleanEmpty(1 - wblk)
    /\ clean_blk_nums = 1

\* Every item of s is the copy of an item of the block collected, and the other
\* way round for those it has passed.
CopyOK ==
    /\ gc.j \in 1 .. Len(items[gc.src]) + 1
    /\ Len(items[gc.dst]) < gc.j
    /\ \A x \in Index(gc.dst) : \E i \in Index(gc.src) :
         i < gc.j /\ Normal(gc.src, i) /\ items[gc.dst][x] = items[gc.src][i]
    /\ \A i \in Index(gc.src) : i < gc.j /\ Normal(gc.src, i) =>
         \E x \in Index(gc.dst) : items[gc.dst][x] = items[gc.src][i]

\* Where the collector is, and what the blocks hold then.
GcOK ==
    Up => IF gc.at \notin {"copy", "format", "used"} THEN Idle
          ELSE /\ gc.src = 1 - gc.dst /\ wblk = gc.dst
               /\ hdr[gc.dst] = "clean" /\ state[gc.dst] = "clean"
               /\ \A x \in Index(gc.dst) : Normal(gc.dst, x)
               /\ gc.at = "copy" =>
                    /\ hdr[gc.src] = "dirty" /\ state[gc.src] = "dirty" /\ clean_blk_nums = 1
                    /\ CopyOK
               /\ gc.at = "format" => hdr[gc.src] = "erased" /\ clean_blk_nums = 1
               /\ gc.at = "used" =>
                    CleanEmpty(gc.src) /\ state[gc.src] = "clean" /\ clean_blk_nums = 2

\* A block in use with an item that is gone is marked, or will be.
MarkOK ==
    \A b \in Blk : \A i \in Index(b) :
        hdr[b] = "used" /\ ~Normal(b, i) =>
            \/ \E c \in Client : client[c].at = "dirty"
            \/ Ahead(b, i)
            \/ boot.at = "mark" /\ boot.mark = b

\* Items that were torn are gone, or will be.
CrcOK == \A b \in Blk : \A i \in Index(b) :
            Normal(b, i) => items[b][i].crc \/ Ahead(b, i)

\* A second item of a key was torn or names the first one, which is about to be
\* deleted.
PairOK ==
    \A b \in Blk : \A i, j \in Index(b) :
        i < j /\ Normal(b, i) /\ Normal(b, j) /\ items[b][i].key = items[b][j].key =>
            /\ ~items[b][j].crc \/ items[b][j].origin = <<b, i>>
            /\ \/ Ahead(b, j)
               \/ \E c \in Client : client[c].at = "delete" /\ client[c].old = <<b, i>>

\* What the call of c that holds the mutex knows: before the new item is
\* written, before the old one is deleted, and when the value is as promised.
StoreOK(k, v, old) ==
    /\ v \in Val /\ v \in allowed[k] /\ Len(items[wblk]) < Cap
    /\ \A i \in Has(wblk, k) : old = <<wblk, i>>
    /\ old # NULL => \E i \in Has(wblk, k) : old = <<wblk, i>>
DeleteOK(k, v, old) ==
    \E i \in Has(wblk, k) :
        /\ old = <<wblk, i>>
        /\ v = NoVal => NoVal \in allowed[k] /\ Has(wblk, k) = {i}
        /\ v # NoVal =>
             LET n == Len(items[wblk])
             IN Has(wblk, k) = {i, n} /\ i < n /\ items[wblk][n].val = v
Settled(k, v) ==
    /\ \A i \in Has(wblk, k) : items[wblk][i].val = v
    /\ Has(wblk, k) = {} => v = NoVal
HoldOK ==
    \A c \in Client :
        LET k == client[c].key
            v == client[c].val
            old == client[c].old
        IN  /\ client[c].at = "store" => StoreOK(k, v, old)
            /\ client[c].at = "delete" => DeleteOK(k, v, old)
            /\ client[c].at = "dirty" => state[wblk] = "used" /\ old[1] = wblk
            /\ client[c].at \in {"dirty", "unlock"} => Settled(k, v)

\* The block that holds the data: the one in use, or the copies of a collection
\* whose source is erased.
Main(b) == InUse(b) \/ (CleanFull(b) /\ ~InUse(1 - b))

\* What a reader finds after recovery.
ValOK ==
    \A k \in Key :
        /\ \A b \in Blk : Main(b) => \A i \in Live(b, k) : items[b][i].val \in allowed[k]
        /\ (\A b \in Blk : Main(b) => Live(b, k) = {}) => NoVal \in allowed[k] \/ k \in at_risk

\* A copy whose origin is an item of the block in use, while kv_init runs: the
\* key is at risk.
RiskOK ==
    ~Up => \A b \in Blk : InUse(b) => \A x \in Index(1 - b) : \A i \in Index(b) :
        (/\ Normal(1 - b, x) /\ items[1 - b][x].crc /\ items[1 - b][x].origin = <<b, i>>
         /\ Normal(b, i) /\ items[b][i].key = items[1 - b][x].key) =>
            items[b][i].key \in at_risk

\* A client on its way to gc_sem is known to the collector, or missed.
WaitOK ==
    \A c \in Client \ missed :
        /\ client[c].at \in {"load", "count", "sem"} => gc_triggered
        /\ client[c].at \in {"sem", "wait"} => gc_waiter > 0
        /\ client[c].at = "wait" => gc_triggered \/ tails > 0

\* What the proof of durability needs, and the whole.
Core ==
    /\ Types /\ Mutexed /\ FlashOK /\ BootOK /\ GcOK /\ MarkOK /\ CrcOK /\ PairOK
    /\ HoldOK /\ ValOK /\ RiskOK
IInv == Core /\ WaitOK

USE DEF flashVars, blockVars, trigVars, gcVars, waitVars, ghostVars
-----------------------------------------------------------------------------
(***************************************************************************)
(* Blocks, items and records.                                              *)
(***************************************************************************)
\* There are two blocks.
LEMMA BlkProps ==
    /\ 0 \in Blk /\ 1 \in Blk
    /\ \A b \in Blk : b \in Int /\ 1 - b \in Blk /\ 1 - b # b /\ 1 - (1 - b) = b
    /\ \A a, b \in Blk : a # b => a = 1 - b
    /\ \A b \in Blk : b = 0 \/ b = 1
BY DEF Blk

\* What the assumption says of the model values.
LEMMA Values ==
    /\ NoVal \notin Val /\ NULL \notin Client /\ "gc" \notin Client /\ NULL # "gc"
    /\ Cap \in Nat /\ Cap >= 2
    /\ \A b \in Blk : \A i \in 1 .. Cap : <<b, i>> # NULL /\ <<b, i>> \in Place
    /\ NULL \in Place
BY KvAssumption DEF Blk, Place

\* The items that are not junk.
Written == [state : {"normal", "delete"}, key : Key, val : Val \cup {NULL},
            crc : BOOLEAN, origin : Place]

\* The fields of an item.
LEMMA WrittenProps ==
    ASSUME NEW x \in Written
    PROVE  /\ x \in ItemType /\ x.key \in Key /\ x.origin \in Place
           /\ x.crc \in BOOLEAN /\ x.state \in {"normal", "delete"}
<1>1. x \in ItemType
  BY DEF ItemType, Written
<1>. QED BY <1>1 DEF Written

\* What is normal is not junk.
LEMMA JunkProps ==
    /\ Junk \in ItemType /\ Junk.state = "junk" /\ Junk.crc = FALSE
    /\ \A x \in ItemType : x.state = "normal" => x \in Written
<1>1. Junk \in ItemType
  BY DEF ItemType
<1>2. Junk.state = "junk" /\ Junk.crc = FALSE
  BY DEF Junk
<1>3. \A x \in ItemType : x = Junk \/ x \in Written
  BY DEF ItemType, Written
<1>. QED BY <1>1, <1>2, <1>3

\* An item that is deleted keeps the rest.
LEMMA DeletedProps ==
    ASSUME NEW x \in Written, NEW y, y = [x EXCEPT !.state = "delete"]
    PROVE  /\ y \in Written /\ y.state = "delete" /\ y.key = x.key /\ y.val = x.val
           /\ y.crc = x.crc /\ y.origin = x.origin
<1>1. y \in Written
  BY DEF Written
<1>2. y.state = "delete" /\ y.key = x.key /\ y.val = x.val /\ y.origin = x.origin
  BY DEF Written
<1>3. y.crc = x.crc
  BY DEF Written
<1>. QED BY <1>1, <1>2, <1>3

\* A new item.
LEMMA NewProps ==
    ASSUME NEW k \in Key, NEW v \in Val, NEW o \in Place, NEW y, y = Item(k, v, o)
    PROVE  /\ y \in Written /\ y.state = "normal" /\ y.key = k /\ y.val = v
           /\ y.crc = TRUE /\ y.origin = o
<1>1. y \in Written
  BY DEF Written, Item
<1>2. y.state = "normal" /\ y.key = k /\ y.val = v /\ y.crc = TRUE /\ y.origin = o
  BY DEF Item
<1>. QED BY <1>1, <1>2

\* An item of which the power cut the data.
LEMMA TornProps ==
    ASSUME NEW x \in Written, NEW y, y = [x EXCEPT !.crc = FALSE, !.val = NULL]
    PROVE  /\ y \in Written /\ y.crc = FALSE /\ y.key = x.key
           /\ y.state = x.state /\ y.origin = x.origin
<1>1. y \in Written
  BY DEF Written
<1>2. y.crc = FALSE
  BY DEF Written
<1>3. y.key = x.key /\ y.state = x.state /\ y.origin = x.origin
  BY DEF Written
<1>. QED BY <1>1, <1>2, <1>3

\* Deleting an item changes nothing but its state.
LEMMA DeleteProps ==
    ASSUME NEW b \in Blk, NEW i \in Index(b), Types, Normal(b, i),
           items' = DeleteAt(<<b, i>>)
    PROVE  /\ items' \in [Blk -> Seq(ItemType)]
           /\ \A a \in Blk : Len(items'[a]) = Len(items[a]) /\ Index(a)' = Index(a)
           /\ items'[b][i].state = "delete"
           /\ \A a \in Blk : \A x \in Index(a) :
                /\ ~(a = b /\ x = i) => items'[a][x] = items[a][x]
                /\ items'[a][x].key = items[a][x].key
                /\ items'[a][x].val = items[a][x].val
                /\ items'[a][x].crc = items[a][x].crc
                /\ items'[a][x].origin = items[a][x].origin
<1>. DEFINE y == [items[b][i] EXCEPT !.state = "delete"]
            s == [items[b] EXCEPT ![i] = y]
<1>1. items' = [items EXCEPT ![b] = s]
  BY DEF DeleteAt
<1>2. items \in [Blk -> Seq(ItemType)] /\ items[b] \in Seq(ItemType)
      /\ i \in 1 .. Len(items[b]) /\ items[b][i] \in ItemType
  BY DEF Types, Index
<1>3. /\ y \in ItemType /\ y.state = "delete" /\ y.key = items[b][i].key
      /\ y.val = items[b][i].val /\ y.crc = items[b][i].crc /\ y.origin = items[b][i].origin
  BY <1>2, JunkProps, DeletedProps, WrittenProps DEF Normal
<1>. HIDE DEF y
<1>4. s \in Seq(ItemType) /\ Len(s) = Len(items[b]) /\ s[i] = y
      /\ \A x \in 1 .. Len(items[b]) : x # i => s[x] = items[b][x]
  BY <1>2, <1>3
<1>. HIDE DEF s
<1>5. items' \in [Blk -> Seq(ItemType)] /\ items'[b] = s
      /\ \A a \in Blk : a # b => items'[a] = items[a]
  BY <1>1, <1>2, <1>4
<1>. QED BY <1>3, <1>4, <1>5 DEF Index

\* Writing an item adds it at the end.
LEMMA AppendProps ==
    ASSUME NEW b \in Blk, NEW e \in ItemType, Types,
           items' = [items EXCEPT ![b] = Append(items[b], e)]
    PROVE  /\ items' \in [Blk -> Seq(ItemType)]
           /\ Len(items'[b]) = Len(items[b]) + 1 /\ Len(items[b]) \in Nat
           /\ items'[b][Len(items[b]) + 1] = e
           /\ \A a \in Blk : a # b => items'[a] = items[a]
           /\ \A x \in Index(b) : items'[b][x] = items[b][x]
<1>1. items \in [Blk -> Seq(ItemType)] /\ items[b] \in Seq(ItemType)
  BY DEF Types
<1>2. /\ Append(items[b], e) \in Seq(ItemType)
      /\ Len(Append(items[b], e)) = Len(items[b]) + 1 /\ Len(items[b]) \in Nat
      /\ Append(items[b], e)[Len(items[b]) + 1] = e
      /\ \A x \in 1 .. Len(items[b]) : Append(items[b], e)[x] = items[b][x]
  BY <1>1
<1>. QED BY <1>1, <1>2 DEF Index

-----------------------------------------------------------------------------
(***************************************************************************)
(* The tasks that wait for a collection.                                   *)
(***************************************************************************)
\* The places on the way to gc_sem.
Entering == {"load", "count", "sem", "wait"}

\* A step that puts nobody on the way to gc_sem, and may start a collection.
LEMMA WaitKept ==
    ASSUME WaitOK, UNCHANGED tails, trigger_gc \/ UNCHANGED trigVars,
           \A u \in Client : client'[u].at \in Entering => client'[u].at = client[u].at
    PROVE  WaitOK'
<1>. SUFFICES ASSUME NEW c \in Client, c \notin missed', client'[c].at \in Entering
              PROVE  /\ client'[c].at \in {"load", "count", "sem"} => gc_triggered'
                     /\ client'[c].at \in {"sem", "wait"} => gc_waiter' > 0
                     /\ client'[c].at = "wait" => gc_triggered' \/ tails' > 0
  BY DEF WaitOK, Entering
<1>1. client'[c].at = client[c].at
  OBVIOUS
<1>2. CASE UNCHANGED trigVars
  BY <1>1, <1>2 DEF WaitOK
<1>3. CASE trigger_gc /\ ~ UNCHANGED trigVars
  <2>1. ~gc_triggered /\ missed' = missed \cup {u \in Client : client[u].at = "wait"}
    BY <1>3 DEF trigger_gc
  <2>2. c \notin missed /\ client[c].at # "wait"
    BY <2>1
  <2>. QED BY <1>1, <2>1, <2>2 DEF WaitOK, Entering
<1>. QED BY <1>2, <1>3

\* A task on its way to gc_sem stays known to the collector.
LEMMA NextWait == IInv /\ [Next]_vars => WaitOK'
<1>. SUFFICES ASSUME IInv, [Next]_vars PROVE WaitOK'
  OBVIOUS
<1>0. /\ WaitOK /\ client \in [Client -> ClientType] /\ gc_waiter \in Nat /\ tails \in Nat
      /\ \A c \in Client : client[c].n \in Nat
  BY DEF IInv, Core, Types, ClientType
<1>1. ASSUME UNCHANGED <<gc_triggered, gc_waiter, gc, tails, missed, client>> PROVE WaitOK'
  BY <1>1 DEF IInv, WaitOK
<1>2. CASE kv_init
  <2>1. CASE kv_init_write_pos
    BY <1>0, <2>1, WaitKept DEF kv_init_write_pos
  <2>2. CASE ~kv_init_write_pos
    BY <1>1, <1>2, <2>2
       DEF kv_init, kv_init_block, kv_init_item, kv_init_mark, kv_init_block_end,
           kv_block_erase, kv_block_format, kv_init_unclean, kv_init_last, BootOnly
  <2>. QED BY <2>1, <2>2
<1>3. CASE ClientStep
  <2>. PICK c \in Client :
         \/ aos_kv_set(c) \/ aos_kv_del(c)
         \/ gc_waiter_load(c) \/ gc_waiter_store(c) \/ gc_sem_wait(c)
         \/ kv_set_begin(c) \/ kv_del_begin(c)
         \/ kv_item_store(c) \/ kv_item_del(c) \/ kv_item_del_dirty(c)
         \/ kv_return(c)
    BY <1>3 DEF ClientStep
  <2>1. ASSUME NEW at, client' = [client EXCEPT ![c].at = at], at \notin Entering,
               UNCHANGED <<gc_triggered, gc_waiter, gc, tails, missed>>
        PROVE  WaitOK'
    <3>1. \A u \in Client : client'[u].at \in Entering => client'[u].at = client[u].at
      BY <1>0, <2>1 DEF ClientType
    <3>. QED BY <1>0, <2>1, <3>1, WaitKept
  <2>2. CASE aos_kv_set(c) \/ aos_kv_del(c)
    <3>1. PICK o : /\ o.at \in {"load", "lock"} /\ (o.at = "load" => gc_triggered)
                   /\ client' = [client EXCEPT ![c] = o]
                   /\ UNCHANGED <<gc_triggered, gc_waiter, tails, missed>>
      BY <2>2 DEF aos_kv_set, aos_kv_del, Call, Op
    <3>2. \A u \in Client : u # c => client'[u] = client[u]
      BY <1>0, <3>1
    <3>3. client'[c] = o
      BY <1>0, <3>1
    <3>. QED BY <1>0, <3>1, <3>2, <3>3 DEF WaitOK
  <2>3. CASE gc_waiter_load(c)
    <3>1. /\ client[c].at = "load" /\ client'[c].at = "count"
          /\ \A u \in Client : u # c => client'[u] = client[u]
          /\ UNCHANGED <<gc_triggered, gc_waiter, tails, missed>>
      BY <1>0, <2>3 DEF gc_waiter_load, ClientAt, ClientType
    <3>. QED BY <1>0, <3>1 DEF WaitOK
  <2>4. CASE gc_waiter_store(c)
    <3>1. /\ client[c].at = "count" /\ client'[c].at = "sem" /\ gc_waiter' = client[c].n + 1
          /\ \A u \in Client : u # c => client'[u] = client[u]
          /\ UNCHANGED <<gc_triggered, tails, missed>>
      BY <1>0, <2>4 DEF gc_waiter_store, ClientAt, ClientType
    <3>2. gc_waiter' > 0
      BY <1>0, <3>1
    <3>. QED BY <1>0, <3>1, <3>2 DEF WaitOK
  <2>5. CASE gc_sem_wait(c)
    <3>1. /\ client[c].at = "sem" /\ client'[c].at \in {"lock", "wait"}
          /\ \A u \in Client : u # c => client'[u] = client[u]
          /\ UNCHANGED <<gc_triggered, gc_waiter, tails>>
          /\ missed' \in {missed, missed \ {c}} /\ (client'[c].at = "wait" => missed' = missed)
      BY <1>0, <2>5 DEF gc_sem_wait, ClientAt, Goto, ClientType
    <3>. QED BY <1>0, <3>1 DEF WaitOK
  <2>6. CASE kv_set_begin(c) \/ kv_del_begin(c)
    <3>1. /\ UNCHANGED tails /\ (trigger_gc \/ UNCHANGED trigVars)
          /\ \E at \in Holding : \E v : Begin(c, at, v)
      BY <2>6 DEF kv_set_begin, kv_del_begin, Lock, Holding
    <3>. PICK at \in Holding : \E v : Begin(c, at, v)
      BY <3>1
    <3>. PICK v : Begin(c, at, v)
      OBVIOUS
    <3>2. client' = [client EXCEPT ![c].at = at, ![c].val = v,
                                   ![c].old = kv_item_get(client[c].key)]
      BY DEF Begin
    <3>3. /\ client'[c].at = at
          /\ \A u \in Client : u # c => client'[u] = client[u]
      BY <1>0, <3>2 DEF ClientType
    <3>4. \A u \in Client : client'[u].at \in Entering => client'[u].at = client[u].at
      BY <3>3 DEF Holding, Entering
    <3>. QED BY <1>0, <3>1, <3>4, WaitKept
  <2>7. CASE kv_item_store(c) \/ kv_item_del(c) \/ kv_item_del_dirty(c)
    <3>1. /\ UNCHANGED <<gc_triggered, gc_waiter, gc, tails, missed>>
          /\ \E at \in Holding : client' = [client EXCEPT ![c].at = at]
      BY <2>7 DEF kv_item_store, kv_item_del, kv_item_del_dirty, WriteOnly, Goto, Holding
    <3>. QED BY <2>1, <3>1 DEF Holding, Entering
  <2>8. CASE kv_return(c)
    <3>1. /\ UNCHANGED <<gc_triggered, gc_waiter, gc, tails, missed>>
          /\ client' = [client EXCEPT ![c] = NoOp] /\ NoOp.at = "none"
      BY <2>8 DEF kv_return, NoOp, Op
    <3>2. \A u \in Client : client'[u].at \in Entering => client'[u].at = client[u].at
      BY <1>0, <3>1 DEF Entering
    <3>. QED BY <1>0, <3>1, <3>2, WaitKept
  <2>. QED BY <2>2, <2>3, <2>4, <2>5, <2>6, <2>7, <2>8
<1>4. CASE aos_kv_gc
  <2>1. CASE gc_exit
    <3>1. /\ missed' = missed \cup {c \in Client : client[c].at \in {"load", "count", "sem"}}
          /\ tails' > 0 /\ UNCHANGED <<gc_waiter, client>>
      BY <1>0, <2>1 DEF gc_exit, GcOnly
    <3>. QED BY <1>0, <3>1 DEF WaitOK
  <2>2. CASE gc_signal
    <3>0. UNCHANGED <<gc_triggered, gc_waiter>>
      BY <2>2 DEF gc_signal
    <3>1. CASE gc_waiter > 0
      <4>1. \A c \in Client : IF client[c].at = "wait" THEN client'[c].at = "lock"
                              ELSE client'[c] = client[c]
        BY <1>0, <2>2, <3>1 DEF gc_signal, Wake, Waiting, ClientType
      <4>2. missed' = missed \ Waiting
        BY <2>2, <3>1 DEF gc_signal, Wake
      <4>. QED BY <1>0, <3>0, <4>1, <4>2 DEF WaitOK, Waiting
    <3>2. CASE ~(gc_waiter > 0)
      <4>1. \A c \in Client : client'[c] = client[c]
        BY <2>2, <3>2 DEF gc_signal, Wake
      <4>2. missed' = missed
        BY <2>2, <3>2 DEF gc_signal, Wake
      <4>. QED BY <1>0, <3>0, <3>2, <4>1, <4>2 DEF WaitOK
    <3>. QED BY <3>1, <3>2
  <2>3. CASE gc_begin \/ gc_copy \/ gc_erase \/ gc_format \/ gc_used
    <3>1. UNCHANGED <<gc_triggered, gc_waiter, tails, missed, client>>
      BY <2>3 DEF gc_begin, gc_copy, gc_erase, gc_format, gc_used, GcOnly
    <3>. QED BY <1>0, <3>1 DEF WaitOK
  <2>. QED BY <1>4, <2>1, <2>2, <2>3 DEF aos_kv_gc
<1>5. CASE PowerFailure
  <2>1. \A c \in Client : client'[c].at = "none"
    BY <1>5 DEF PowerFailure, NoOp, Op
  <2>. QED BY <2>1 DEF WaitOK
<1>6. CASE UNCHANGED vars
  BY <1>1, <1>6 DEF vars
<1>. QED BY <1>2, <1>3, <1>4, <1>5, <1>6 DEF Next
-----------------------------------------------------------------------------
(***************************************************************************)
(* kv_init.                                                                *)
(***************************************************************************)
\* What is in flash has its type.
FlashType ==
    /\ hdr \in [Blk -> {"erased", "clean", "used", "dirty"}]
    /\ items \in [Blk -> Seq(ItemType)]
    /\ \A b \in Blk : Len(items[b]) <= Cap
    /\ \A b \in Blk : \A i \in Index(b) : items[b][i].crc => items[b][i].val \in Val

\* A block without items.
LEMMA EmptyProps ==
    ASSUME Types, NEW b \in Blk
    PROVE  /\ Len(items[b]) \in Nat /\ (items[b] = <<>> <=> Len(items[b]) = 0)
           /\ (items[b] = <<>> <=> Index(b) = {})
<1>1. items[b] \in Seq(ItemType)
  BY DEF Types
<1>2. Len(items[b]) \in Nat /\ (items[b] = <<>> <=> Len(items[b]) = 0)
  BY <1>1
<1>3. \A n \in Nat : n = 0 <=> 1 .. n = {}
  <2>1. \A n \in Nat : n # 0 => 1 \in 1 .. n
    OBVIOUS
  <2>2. 1 .. 0 = {}
    OBVIOUS
  <2>. QED BY <2>1, <2>2
<1>4. items[b] = <<>> <=> Index(b) = {}
  BY <1>2, <1>3 DEF Index
<1>. QED BY <1>2, <1>4

\* What holds while kv_init runs.
LEMMA BootProps ==
    ASSUME Core, ~Up
    PROVE  /\ Types /\ boot \in BootType
           /\ boot.at \in {"scan", "format", "item", "mark", "unclean", "wpos"}
           /\ boot.blk \in Blk /\ boot.j \in Nat /\ boot.unclean \in SUBSET Blk
           /\ boot.mark \in Blk
           /\ \A c \in Client : client[c].at = "none"
           /\ kv_mutex = NULL /\ ~gc_triggered /\ gc.at = "none" /\ wblk = 0
<1>1. Types /\ boot \in BootType /\ Mutexed /\ BootOK
  BY DEF Core, Types
<1>2. /\ boot.at \in {"scan", "format", "item", "mark", "unclean", "wpos"}
      /\ boot.blk \in Blk /\ boot.j \in Nat /\ boot.unclean \in SUBSET Blk
      /\ boot.mark \in Blk
  BY <1>1 DEF BootType, Up
<1>3. /\ \A c \in Client : client[c].at = "none"
      /\ kv_mutex = NULL /\ ~gc_triggered /\ gc.at = "none" /\ wblk = 0
  BY <1>1 DEF Mutexed, BootOK
<1>. QED BY <1>1, <1>2, <1>3

\* What a step of kv_init leaves to be shown.
LEMMA BootFrame ==
    ASSUME Core, ~Up, ~Up', BootOnly, boot' \in BootType, FlashType',
           state' \in [Blk -> {"none", "clean", "used", "dirty"}],
           UNCHANGED wblk, FlashOK', BootOK', MarkOK', CrcOK', PairOK', ValOK', RiskOK'
    PROVE  Core'
<1>1. /\ \A c \in Client : client'[c].at = "none"
      /\ kv_mutex' = NULL /\ ~gc_triggered' /\ gc'.at = "none"
  BY BootProps DEF BootOnly
<1>2. clean_blk_nums' \in 0 .. 2
  <2>1. clean_blk_nums' = (IF Passed(0)' /\ CleanEmpty(0)' THEN 1 ELSE 0)
                        + (IF Passed(1)' /\ CleanEmpty(1)' THEN 1 ELSE 0)
    BY DEF BootOK
  <2>. QED BY <2>1
<1>3. Types'
  <2>1. /\ wblk' \in Blk
        /\ gc_triggered' \in BOOLEAN /\ gc_waiter' \in Nat /\ gc_sem' \in Nat /\ tails' \in Nat
        /\ kv_mutex' \in Client \cup {"gc", NULL}
        /\ gc' \in GcType
        /\ client' \in [Client -> ClientType]
        /\ \A c \in Client : client'[c].at # "none" => client'[c].key \in Key
        /\ allowed' \in [Key -> SUBSET (Val \cup {NoVal})]
    BY DEF Core, Types, BootOnly
  <2>. QED BY <1>2, <2>1 DEF Types, FlashType
<1>4. Mutexed'
  BY <1>1, Values DEF Mutexed, Holding, GcHolding
<1>5. GcOK'
  BY DEF GcOK
<1>6. HoldOK'
  BY <1>1 DEF HoldOK
<1>. QED BY <1>3, <1>4, <1>5, <1>6 DEF Core

\* A step of the traversal that leaves the flash alone: of an item it passes it
\* has seen that nothing is to be done, or has found it gone.
LEMMA BootWalk ==
    ASSUME Core, ~Up, ~Up', BootOnly, boot' \in BootType,
           state' \in [Blk -> {"none", "clean", "used", "dirty"}],
           UNCHANGED <<hdr, items, wblk>>, BootOK', boot.at # "mark",
           \A b \in Blk : \A i \in Index(b) : Ahead(b, i) =>
             \/ Ahead(b, i)'
             \/ ~Normal(b, i) /\ boot'.at = "mark" /\ boot'.mark = b
             \/ /\ Normal(b, i) /\ items[b][i].crc
                /\ \A h \in Index(b) :
                     h < i /\ Normal(b, h) /\ items[b][h].key = items[b][i].key =>
                       items[b][i].origin # <<b, h>>
    PROVE  Core'
<1>0. Types /\ FlashOK /\ MarkOK /\ CrcOK /\ PairOK /\ ValOK /\ RiskOK
      /\ \A c \in Client : client[c].at = "none"
  BY BootProps DEF Core
<1>1. UNCHANGED <<client, allowed, at_risk>>
  BY DEF BootOnly
<1>2. FlashType'
  BY <1>0 DEF Types, FlashType, Index
<1>3. FlashOK'
  BY <1>0 DEF FlashOK, InUse, CleanFull
<1>4. MarkOK'
  BY <1>0 DEF MarkOK, Index, Normal
<1>5. CrcOK'
  BY <1>0 DEF CrcOK, Index, Normal
<1>6. PairOK'
  <2>. SUFFICES ASSUME NEW b \in Blk, NEW i \in Index(b), NEW j \in Index(b),
                       i < j, Normal(b, i), Normal(b, j), items[b][i].key = items[b][j].key
                PROVE  /\ ~items[b][j].crc \/ items[b][j].origin = <<b, i>>
                       /\ Ahead(b, j)'
    BY DEF PairOK, Index, Normal
  <2>1. (~items[b][j].crc \/ items[b][j].origin = <<b, i>>) /\ Ahead(b, j)
    BY <1>0 DEF PairOK
  <2>. QED BY <2>1
<1>7. ValOK'
  BY <1>0, <1>1 DEF ValOK, Main, InUse, CleanFull, Live, Has, Index, Normal
<1>8. RiskOK'
  BY <1>0, <1>1 DEF RiskOK, InUse, Index, Normal
<1>. QED BY <1>2, <1>3, <1>4, <1>5, <1>6, <1>7, <1>8, BootFrame

\* The record of a place in kv_init.
LEMMA BootRecord ==
    ASSUME NEW at \in {"scan", "format", "item", "mark", "unclean", "wpos", "up"},
           NEW b \in Blk, NEW j \in Nat, NEW u \in SUBSET Blk
    PROVE  /\ Boot(at, b, j, u) \in BootType /\ Boot(at, b, j, u).at = at
           /\ Boot(at, b, j, u).blk = b /\ Boot(at, b, j, u).j = j
           /\ Boot(at, b, j, u).unclean = u
BY BlkProps DEF Boot, BootType

\* A step to another place of the traversal, at the same block.
LEMMA BootMove ==
    ASSUME boot \in BootType, NEW at \in {"scan", "format", "item", "mark"},
           NEW j \in Nat, NEW m \in Blk,
           boot' = [boot EXCEPT !.at = at, !.j = j, !.mark = m]
    PROVE  /\ boot' \in BootType /\ boot'.at = at /\ boot'.blk = boot.blk /\ boot'.j = j
           /\ boot'.unclean = boot.unclean /\ boot'.mark = m
BY DEF BootType

\* kv_init reads the header of a block.
LEMMA InitBlock ==
    ASSUME Core, kv_init_block PROVE Core'
<1>0. /\ ~Up /\ boot.at = "scan" /\ boot.blk \in Blk /\ boot.j = 1
      /\ UNCHANGED <<hdr, items, clean_blk_nums, wblk>> /\ BootOnly
  BY DEF kv_init_block, Up
<1>1. Types /\ boot \in BootType /\ boot.mark \in Blk /\ BootOK
  BY <1>0, BootProps DEF Core
<1>2. PICK at \in {"format", "item"} :
         /\ boot' = [boot EXCEPT !.at = at]
         /\ at = "format" => hdr[boot.blk] = "erased" /\ UNCHANGED state
         /\ at = "item" => /\ hdr[boot.blk] # "erased"
                           /\ state' = [state EXCEPT ![boot.blk] = hdr[boot.blk]]
  <2>1. CASE hdr[boot.blk] = "erased"
    BY <2>1 DEF kv_init_block
  <2>2. CASE hdr[boot.blk] # "erased"
    BY <2>2 DEF kv_init_block
  <2>. QED BY <2>1, <2>2
<1>3. /\ boot' \in BootType /\ boot'.at = at /\ boot'.blk = boot.blk /\ boot'.j = 1
      /\ boot'.unclean = boot.unclean /\ boot'.mark = boot.mark
  BY <1>0, <1>1, <1>2 DEF BootType
<1>4. state' \in [Blk -> {"none", "clean", "used", "dirty"}]
  BY <1>0, <1>1, <1>2 DEF Types
<1>5. ~Up'
  BY <1>3 DEF Up
<1>6. Scanning /\ Scanning' /\ ~Reformat'
  BY <1>0, <1>3 DEF Scanning, Reformat
<1>7. \A b \in Blk : \A i \in Index(b) : Ahead(b, i) => Ahead(b, i)'
  BY <1>0, <1>3, <1>6 DEF Ahead
<1>8. BootOK'
  <2>1. \A b \in Blk : Passed(b)' <=> Passed(b)
    BY <1>3, <1>6 DEF Passed
  <2>2. \A b \in Blk : (CleanFull(b)' <=> CleanFull(b)) /\ (CleanEmpty(b)' <=> CleanEmpty(b))
    BY <1>0 DEF CleanFull, CleanEmpty
  <2>3. /\ boot'.unclean = {b \in Blk : Passed(b)' /\ CleanFull(b)'}
        /\ clean_blk_nums' = (IF Passed(0)' /\ CleanEmpty(0)' THEN 1 ELSE 0)
                           + (IF Passed(1)' /\ CleanEmpty(1)' THEN 1 ELSE 0)
        /\ wblk' = 0
    BY <1>0, <1>1, <1>3, <2>1, <2>2, BlkProps DEF BootOK, Up
  <2>4. /\ \A b \in Blk : b < boot'.blk => state'[b] = hdr'[b] /\ hdr'[b] # "erased"
        /\ \A b \in Blk : b > boot'.blk => state'[b] = "none"
        /\ boot'.at = "format" => hdr'[boot'.blk] = "erased"
        /\ boot'.at = "item" => state'[boot'.blk] = hdr'[boot'.blk] /\ hdr'[boot'.blk] # "erased"
    BY <1>0, <1>1, <1>2, <1>3, <1>6, BlkProps DEF BootOK, Types
  <2>. QED BY <1>3, <1>6, <2>3, <2>4 DEF BootOK
<1>. QED BY <1>0, <1>3, <1>4, <1>5, <1>7, <1>8, BootWalk

\* A step inside a block leaves what kv_init knows of the blocks.
LEMMA SameBlock ==
    ASSUME Core, boot.at \in {"item", "mark"}, UNCHANGED <<clean_blk_nums, wblk>>,
           boot'.at \in {"item", "mark"}, boot'.blk = boot.blk, boot'.j >= 1,
           boot'.unclean = boot.unclean,
           \A b \in Blk : /\ CleanFull(b)' <=> CleanFull(b)
                          /\ CleanEmpty(b)' <=> CleanEmpty(b)
                          /\ hdr'[b] = "erased" => hdr[b] = "erased"
                          /\ state[b] = hdr[b] => state'[b] = hdr'[b]
                          /\ state[b] = "none" => state'[b] = "none",
           boot'.at = "mark" =>
             /\ boot'.j <= Len(items'[boot'.blk])
             /\ boot'.mark # boot'.blk => items'[boot'.blk][boot'.j].state = "normal"
    PROVE  BootOK'
<1>0. ~Up /\ ~Up'
  BY DEF Up
<1>1. BootOK /\ boot.blk \in Blk
  BY <1>0, BootProps DEF Core
<1>2. Scanning /\ Scanning' /\ ~Reformat'
  BY DEF Scanning, Reformat
<1>3. \A b \in Blk : Passed(b)' <=> Passed(b)
  BY <1>2 DEF Passed
<1>4. /\ boot'.unclean = {b \in Blk : Passed(b)' /\ CleanFull(b)'}
      /\ clean_blk_nums' = (IF Passed(0)' /\ CleanEmpty(0)' THEN 1 ELSE 0)
                         + (IF Passed(1)' /\ CleanEmpty(1)' THEN 1 ELSE 0)
      /\ wblk' = 0
  BY <1>0, <1>1, <1>3, BlkProps DEF BootOK
<1>5. /\ \A b \in Blk : b < boot'.blk => state'[b] = hdr'[b] /\ hdr'[b] # "erased"
      /\ \A b \in Blk : b > boot'.blk => state'[b] = "none"
      /\ state'[boot'.blk] = hdr'[boot'.blk] /\ hdr'[boot'.blk] # "erased"
  BY <1>1, <1>2 DEF BootOK
<1>. QED BY <1>2, <1>4, <1>5 DEF BootOK, Normal

\* What the traversal knows at an item.
LEMMA AtItem ==
    ASSUME Core, boot.at = "item", boot.j <= Len(items[boot.blk])
    PROVE  /\ ~Up /\ Scanning /\ boot.blk \in Blk /\ boot.j \in Index(boot.blk)
           /\ boot.j \in Nat /\ boot.j >= 1 /\ boot.mark \in Blk
           /\ state[boot.blk] = hdr[boot.blk] /\ hdr[boot.blk] # "erased"
<1>1. ~Up /\ Scanning
  BY DEF Up, Scanning
<1>2. BootOK /\ boot.blk \in Blk /\ boot.j \in Nat /\ Types /\ boot.mark \in Blk
  BY <1>1, BootProps DEF Core
<1>3. boot.j >= 1 /\ state[boot.blk] = hdr[boot.blk] /\ hdr[boot.blk] # "erased"
  BY <1>1, <1>2 DEF BootOK
<1>4. Len(items[boot.blk]) \in Nat
  BY <1>2, EmptyProps
<1>. QED BY <1>1, <1>2, <1>3, <1>4 DEF Index

\* What __item_recovery_cb wants to delete: the item itself if it was torn, else
\* the one it replaced.
LEMMA RecoveryPlace ==
    ASSUME Types, NEW a \in Blk, NEW n \in Index(a), Normal(a, n),
           NEW d, d = item_recovery_cb(<<a, n>>), d # NULL
    PROVE  \E c \in Blk : \E i \in Index(c) :
              /\ Normal(c, i) /\ d = <<c, i>>
              /\ IF items[a][n].crc
                 THEN /\ d # <<a, n>> /\ items[a][n].origin = d
                      /\ items[c][i].key = items[a][n].key
                 ELSE d = <<a, n>>
<1>0. At(<<a, n>>) = items[a][n]
  BY DEF At
<1>1. CASE ~items[a][n].crc
  <2>1. d = <<a, n>>
    BY <1>0, <1>1 DEF item_recovery_cb
  <2>. QED BY <1>1, <2>1
<1>2. CASE items[a][n].crc
  <2>1. HasOrigin(items[a][n], <<a, n>>) /\ d = items[a][n].origin
    BY <1>0, <1>2 DEF item_recovery_cb
  <2>2. /\ d \in Places /\ At(d).state = "normal" /\ At(d).key = items[a][n].key
        /\ d # <<a, n>>
    BY <2>1 DEF HasOrigin
  <2>3. PICK c \in Blk, i \in 1 .. Cap : d = <<c, i>>
    BY <2>2 DEF Places
  <2>4. i <= Len(items[c]) /\ items[c][i].state = "normal" /\ items[c][i].key = items[a][n].key
    BY <2>2, <2>3 DEF Places, At
  <2>5. i \in Index(c) /\ Normal(c, i)
    BY <2>4, EmptyProps DEF Index, Normal
  <2>6. items[a][n].origin = d
    BY <2>1
  <2>. QED BY <1>2, <2>2, <2>3, <2>4, <2>5, <2>6
<1>. QED BY <1>1, <1>2

\* An item of which nothing is to be done, or that is gone.
LEMMA InitItemPass ==
    ASSUME Core, kv_init_item, UNCHANGED items PROVE Core'
<1>. DEFINE a == boot.blk
            n == boot.j
<1>0. /\ boot.at = "item" /\ n <= Len(items[a])
      /\ UNCHANGED <<hdr, state, clean_blk_nums, wblk>> /\ BootOnly
  BY DEF kv_init_item
<1>1. /\ ~Up /\ Scanning /\ a \in Blk /\ n \in Index(a) /\ n \in Nat /\ n >= 1
      /\ boot.mark \in Blk /\ Types /\ boot \in BootType /\ PairOK
  BY <1>0, AtItem, BootProps DEF Core
<1>2. At(<<a, n>>) = items[a][n] /\ (Normal(a, n) <=> items[a][n].state = "normal")
  BY DEF At, Normal
<1>3. items[a][n] \in ItemType
  BY <1>1 DEF Types, Index
<1>4. CASE Normal(a, n)
  <2>1. item_recovery_cb(<<a, n>>) = NULL
    <3>1. CASE item_recovery_cb(<<a, n>>) # NULL
      <4>. DEFINE d == item_recovery_cb(<<a, n>>)
      <4>1. items' = DeleteAt(d)
        BY <1>2, <1>4, <3>1 DEF kv_init_item
      <4>2. \E c \in Blk : \E i \in Index(c) : Normal(c, i) /\ d = <<c, i>>
        BY <1>1, <1>4, <3>1, RecoveryPlace
      <4>. PICK c \in Blk : \E i \in Index(c) : Normal(c, i) /\ d = <<c, i>>
        BY <4>2
      <4>3. PICK i \in Index(c) : Normal(c, i) /\ d = <<c, i>>
        OBVIOUS
      <4>4. items'[c][i].state = "delete"
        BY <1>1, <4>1, <4>3, DeleteProps
      <4>. QED BY <4>3, <4>4 DEF Normal
    <3>. QED BY <3>1
  <2>2. boot' = [boot EXCEPT !.j = @ + 1]
    BY <1>2, <1>4, <2>1 DEF kv_init_item
  <2>3. items[a][n].crc /\ ~HasOrigin(items[a][n], <<a, n>>)
    <3>1. items[a][n].crc
      BY <1>1, <1>2, <2>1, Values DEF item_recovery_cb, Index, Types
    <3>2. HasOrigin(items[a][n], <<a, n>>) => items[a][n].origin = NULL
      BY <1>2, <2>1, <3>1 DEF item_recovery_cb
    <3>. QED BY <3>1, <3>2 DEF HasOrigin
  <2>4. /\ boot' \in BootType /\ boot'.at = "item" /\ boot'.blk = a /\ boot'.j = n + 1
        /\ boot'.unclean = boot.unclean
    BY <1>0, <1>1, <2>2 DEF BootType
  <2>5. BootOK'
    <3>1. \A b \in Blk : /\ CleanFull(b)' <=> CleanFull(b)
                         /\ CleanEmpty(b)' <=> CleanEmpty(b)
      BY <1>0 DEF CleanFull, CleanEmpty
    <3>. QED BY <1>0, <1>1, <2>4, <3>1, SameBlock
  <2>6. \A h \in Index(a) : h < n /\ Normal(a, h) /\ items[a][h].key = items[a][n].key =>
                       items[a][n].origin # <<a, h>>
    <3>. SUFFICES ASSUME NEW h \in Index(a), h < n, Normal(a, h),
                         items[a][h].key = items[a][n].key, items[a][n].origin = <<a, h>>
                  PROVE  FALSE
      OBVIOUS
    <3>1. h \in 1 .. Cap /\ h <= Len(items[a])
      BY <1>1, EmptyProps, Values DEF Index, Types
    <3>2. <<a, h>> \in Places
      BY <1>1, <3>1 DEF Places
    <3>3. <<a, h>> # NULL /\ <<a, h>> # <<a, n>>
      BY <1>1, <3>1, Values
    <3>4. At(<<a, h>>) = items[a][h]
      BY DEF At
    <3>. QED BY <2>3, <3>2, <3>3, <3>4 DEF HasOrigin, Normal
  <2>7. \A b \in Blk : \A i \in Index(b) : Ahead(b, i) => Ahead(b, i)' \/ (b = a /\ i = n)
    <3>1. Scanning' /\ \A b \in Blk : \A i \in Index(b) : i \in Nat
      BY <2>4 DEF Scanning, Index
    <3>. QED BY <1>0, <1>1, <2>4, <3>1 DEF Ahead
  <2>8. ~Up'
    BY <2>4 DEF Up
  <2>9. state' \in [Blk -> {"none", "clean", "used", "dirty"}]
    BY <1>0, <1>1 DEF Types
  <2>. QED BY <1>0, <1>1, <1>4, <2>3, <2>4, <2>5, <2>6, <2>7, <2>8, <2>9, BootWalk
<1>5. CASE ~Normal(a, n)
  <2>1. boot' = [boot EXCEPT !.at = "mark", !.mark = a]
    BY <1>2, <1>5 DEF kv_init_item
  <2>2. /\ boot' \in BootType /\ boot'.at = "mark" /\ boot'.blk = a /\ boot'.j = n
        /\ boot'.unclean = boot.unclean /\ boot'.mark = a
    BY <1>0, <1>1, <2>1 DEF BootType
  <2>3. BootOK'
    <3>1. \A b \in Blk : /\ CleanFull(b)' <=> CleanFull(b)
                         /\ CleanEmpty(b)' <=> CleanEmpty(b)
      BY <1>0 DEF CleanFull, CleanEmpty
    <3>. QED BY <1>0, <1>1, <2>2, <3>1, SameBlock
  <2>4. \A b \in Blk : \A i \in Index(b) : Ahead(b, i) => Ahead(b, i)' \/ (b = a /\ i = n)
    <3>1. Scanning'
      BY <2>2 DEF Scanning
    <3>. QED BY <1>0, <1>1, <2>2, <3>1 DEF Ahead
  <2>5. ~Up'
    BY <2>2 DEF Up
  <2>6. state' \in [Blk -> {"none", "clean", "used", "dirty"}]
    BY <1>0, <1>1 DEF Types
  <2>. QED BY <1>0, <1>1, <1>5, <2>2, <2>3, <2>4, <2>5, <2>6, BootWalk
<1>. QED BY <1>4, <1>5

\* An item is deleted: it was torn, or the item before the traversal replaced
\* it.
LEMMA InitItemDelete ==
    ASSUME Core, kv_init_item, items' # items PROVE Core'
<1>. DEFINE a == boot.blk
            n == boot.j
            d == item_recovery_cb(<<a, n>>)
<1>0. /\ boot.at = "item" /\ n <= Len(items[a])
      /\ UNCHANGED <<hdr, state, clean_blk_nums, wblk>> /\ BootOnly
  BY DEF kv_init_item
<1>1. /\ ~Up /\ Scanning /\ a \in Blk /\ n \in Index(a) /\ n \in Nat /\ n >= 1
      /\ boot.mark \in Blk /\ Types /\ boot \in BootType
      /\ hdr[a] # "erased" /\ \A c \in Client : client[c].at = "none"
  BY <1>0, AtItem, BootProps
<1>2. PairOK /\ FlashOK /\ MarkOK /\ CrcOK /\ ValOK /\ RiskOK
  BY DEF Core
<1>3. At(<<a, n>>) = items[a][n] /\ (Normal(a, n) <=> items[a][n].state = "normal")
  BY DEF At, Normal
<1>4. /\ Normal(a, n) /\ d # NULL /\ items' = DeleteAt(d)
      /\ boot' = [boot EXCEPT !.at = "mark", !.mark = d[1]]
  BY <1>3 DEF kv_init_item
<1>5. \E c \in Blk : \E i \in Index(c) :
              /\ Normal(c, i) /\ d = <<c, i>>
              /\ IF items[a][n].crc
                 THEN /\ d # <<a, n>> /\ items[a][n].origin = d
                      /\ items[c][i].key = items[a][n].key
                 ELSE d = <<a, n>>
  BY <1>1, <1>4, RecoveryPlace
<1>. HIDE DEF d
<1>. PICK c \in Blk : \E i \in Index(c) :
              /\ Normal(c, i) /\ d = <<c, i>>
              /\ IF items[a][n].crc
                 THEN /\ d # <<a, n>> /\ items[a][n].origin = d
                      /\ items[c][i].key = items[a][n].key
                 ELSE d = <<a, n>>
  BY <1>5
<1>6. PICK i \in Index(c) :
              /\ Normal(c, i) /\ d = <<c, i>>
              /\ IF items[a][n].crc
                 THEN /\ d # <<a, n>> /\ items[a][n].origin = d
                      /\ items[c][i].key = items[a][n].key
                 ELSE d = <<a, n>>
  OBVIOUS
<1>7. /\ items' \in [Blk -> Seq(ItemType)]
      /\ \A b \in Blk : Len(items'[b]) = Len(items[b]) /\ Index(b)' = Index(b)
      /\ items'[c][i].state = "delete"
      /\ \A b \in Blk : \A x \in Index(b) :
                /\ ~(b = c /\ x = i) => items'[b][x] = items[b][x]
                /\ items'[b][x].key = items[b][x].key
                /\ items'[b][x].val = items[b][x].val
                /\ items'[b][x].crc = items[b][x].crc
                /\ items'[b][x].origin = items[b][x].origin
  BY <1>1, <1>4, <1>6, DeleteProps
<1>8. \A b \in Blk : \A x \in Index(b) : Normal(b, x)' <=> Normal(b, x) /\ ~(b = c /\ x = i)
  BY <1>7 DEF Normal
<1>9. /\ boot' \in BootType /\ boot'.at = "mark" /\ boot'.blk = a /\ boot'.j = n
      /\ boot'.unclean = boot.unclean /\ boot'.mark = c
  BY <1>0, <1>1, <1>4, <1>6 DEF BootType
<1>10. \A b \in Blk : \A x \in Index(b) : Ahead(b, x) => Ahead(b, x)' \/ (b = a /\ x = n)
  <2>1. Scanning'
    BY <1>9 DEF Scanning
  <2>. QED BY <1>0, <1>1, <1>9, <2>1 DEF Ahead
<1>11. \A b \in Blk : items'[b] = <<>> <=> items[b] = <<>>
  <2>. TAKE b \in Blk
  <2>1. items'[b] \in Seq(ItemType) /\ Len(items'[b]) = Len(items[b])
    BY <1>7
  <2>2. items'[b] = <<>> <=> Len(items'[b]) = 0
    BY <2>1
  <2>. QED BY <1>1, <2>1, <2>2, EmptyProps
<1>12. \A b \in Blk : /\ CleanFull(b)' <=> CleanFull(b)
                      /\ CleanEmpty(b)' <=> CleanEmpty(b)
                      /\ InUse(b)' <=> InUse(b)
                      /\ Main(b)' <=> Main(b)
  BY <1>0, <1>11, BlkProps DEF CleanFull, CleanEmpty, InUse, Main
<1>13. FlashType'
  <2>1. \A b \in Blk : \A x \in Index(b)' : items'[b][x].crc => items'[b][x].val \in Val
    <3>. SUFFICES ASSUME NEW b \in Blk, NEW x \in Index(b), items'[b][x].crc
                  PROVE  items'[b][x].val \in Val
      BY <1>7
    <3>1. items[b][x].crc
      BY <1>7
    <3>2. items[b][x].val \in Val
      BY <1>1, <3>1 DEF Types
    <3>. QED BY <1>7, <3>2
  <2>2. \A b \in Blk : Len(items'[b]) <= Cap
    BY <1>1, <1>7 DEF Types
  <2>3. hdr' \in [Blk -> {"erased", "clean", "used", "dirty"}]
    BY <1>0, <1>1 DEF Types
  <2>. QED BY <1>7, <2>1, <2>2, <2>3 DEF FlashType
<1>14. FlashOK'
  BY <1>0, <1>2, <1>11, <1>12, BlkProps DEF FlashOK
<1>15. BootOK'
  <2>1. boot'.j <= Len(items'[boot'.blk])
    BY <1>0, <1>1, <1>7, <1>9
  <2>2. boot'.mark # boot'.blk => items'[boot'.blk][boot'.j].state = "normal"
    <3>1. c # a => Normal(a, n)'
      BY <1>1, <1>4, <1>8
    <3>. QED BY <1>9, <3>1 DEF Normal
  <2>. QED BY <1>0, <1>1, <1>9, <1>12, <2>1, <2>2, SameBlock
<1>16. MarkOK'
  <2>. SUFFICES ASSUME NEW b \in Blk, NEW x \in Index(b), hdr[b] = "used", ~Normal(b, x)'
                PROVE  Ahead(b, x)' \/ c = b
    BY <1>0, <1>7, <1>9 DEF MarkOK
  <2>1. CASE Normal(b, x)
    BY <1>8, <2>1
  <2>2. CASE ~Normal(b, x)
    <3>1. Ahead(b, x)
      BY <1>0, <1>1, <1>2, <2>2 DEF MarkOK
    <3>. QED BY <1>4, <1>10, <2>2, <3>1
  <2>. QED BY <2>1, <2>2
<1>17. CrcOK'
  <2>. SUFFICES ASSUME NEW b \in Blk, NEW x \in Index(b), Normal(b, x)'
                PROVE  items[b][x].crc \/ Ahead(b, x)'
    BY <1>7 DEF CrcOK
  <2>1. Normal(b, x) /\ ~(b = c /\ x = i)
    BY <1>8
  <2>2. items[b][x].crc \/ Ahead(b, x)
    BY <1>2, <2>1 DEF CrcOK
  <2>. QED BY <1>6, <1>10, <2>1, <2>2
<1>18. PairOK'
  <2>. SUFFICES ASSUME NEW b \in Blk, NEW x \in Index(b), NEW y \in Index(b), x < y,
                       Normal(b, x)', Normal(b, y)', items[b][x].key = items[b][y].key
                PROVE  /\ ~items[b][y].crc \/ items[b][y].origin = <<b, x>>
                       /\ Ahead(b, y)'
    BY <1>7 DEF PairOK
  <2>1. Normal(b, x) /\ Normal(b, y) /\ ~(b = c /\ x = i) /\ ~(b = c /\ y = i)
    BY <1>8
  <2>2. (~items[b][y].crc \/ items[b][y].origin = <<b, x>>) /\ Ahead(b, y)
    BY <1>1, <1>2, <2>1 DEF PairOK
  <2>. QED BY <1>6, <1>10, <2>1, <2>2
<1>19. RiskOK'
  <2>. SUFFICES ASSUME NEW b \in Blk, InUse(b), NEW x \in Index(1 - b), NEW y \in Index(b),
                       Normal(1 - b, x)', items[1 - b][x].crc,
                       items[1 - b][x].origin = <<b, y>>,
                       Normal(b, y)', items[b][y].key = items[1 - b][x].key
                PROVE  items[b][y].key \in at_risk'
    <3>1. \A b \in Blk : 1 - b \in Blk /\ Index(b)' = Index(b) /\ (InUse(b)' <=> InUse(b))
      BY <1>7, <1>12, BlkProps
    <3>2. \A b \in Blk : Index(1 - b)' = Index(1 - b)
      BY <1>7, <3>1
    <3>3. \A b \in Blk : \A x \in Index(1 - b) :
            /\ items'[1 - b][x].crc = items[1 - b][x].crc
            /\ items'[1 - b][x].key = items[1 - b][x].key
            /\ items'[1 - b][x].origin = items[1 - b][x].origin
      BY <1>7, <3>1
    <3>4. \A b \in Blk : \A x \in Index(b) : items'[b][x].key = items[b][x].key
      BY <1>7
    <3>. QED BY <3>1, <3>2, <3>3, <3>4 DEF RiskOK
  <2>1. Normal(1 - b, x) /\ Normal(b, y)
    BY <1>8, BlkProps
  <2>2. UNCHANGED at_risk
    BY <1>0 DEF BootOnly
  <2>. QED BY <1>1, <1>2, <2>1, <2>2 DEF RiskOK
<1>20. ValOK'
  <2>0. UNCHANGED <<allowed, at_risk>>
    BY <1>0 DEF BootOnly
  <2>. SUFFICES ASSUME NEW k \in Key
                PROVE  /\ \A b \in Blk : Main(b) => \A x \in Live(b, k)' : items[b][x].val \in allowed[k]
                       /\ (\A b \in Blk : Main(b) => Live(b, k)' = {}) =>
                            NoVal \in allowed[k] \/ k \in at_risk
    <3>1. \A q \in Key : \A b \in Blk : \A x \in Live(b, q)' :
             items'[b][x].val = items[b][x].val
      BY <1>7 DEF Live, Has
    <3>. QED BY <1>12, <2>0, <3>1 DEF ValOK
  <2>1. \A b \in Blk : Live(b, k)' = {x \in Live(b, k) : ~(b = c /\ x = i)}
    BY <1>7, <1>8 DEF Live, Has
  <2>2. /\ \A b \in Blk : Main(b) => \A x \in Live(b, k) : items[b][x].val \in allowed[k]
        /\ (\A b \in Blk : Main(b) => Live(b, k) = {}) => NoVal \in allowed[k] \/ k \in at_risk
    BY <1>2 DEF ValOK
  <2>3. ASSUME \A b \in Blk : Main(b) => Live(b, k)' = {}
        PROVE  NoVal \in allowed[k] \/ k \in at_risk
    <3>1. CASE \A b \in Blk : Main(b) => Live(b, k) = {}
      BY <2>2, <3>1
    <3>2. CASE \E b \in Blk : Main(b) /\ Live(b, k) # {}
      <4>1. Main(c) /\ i \in Live(c, k)
        BY <2>1, <2>3, <3>2
      <4>2. items[c][i].crc /\ items[c][i].key = k
        BY <4>1 DEF Live, Has
      <4>3. /\ items[a][n].crc /\ d # <<a, n>> /\ items[a][n].origin = <<c, i>>
            /\ items[a][n].key = k
        BY <1>6, <4>2
      <4>4. n \in Live(a, k) /\ ~(a = c /\ n = i)
        BY <1>1, <1>4, <1>6, <4>3 DEF Live, Has
      <4>5. \A b \in Blk : b = a => n \in Live(b, k)'
        BY <1>1, <2>1, <4>4
      <4>6. ~Main(a)
        BY <1>1, <2>3, <4>5
      <4>7. a # c /\ c = 1 - a /\ a = 1 - c
        BY <1>1, <4>1, <4>6, BlkProps
      <4>8. InUse(c)
        <5>1. items[a] # <<>>
          BY <1>1, EmptyProps
        <5>2. hdr[a] = "clean" \/ InUse(a)
          BY <1>1 DEF InUse, Types
        <5>3. CleanFull(a)
          BY <4>6, <5>1, <5>2 DEF Main, CleanFull
        <5>4. ~CleanFull(c)
          BY <1>1, <1>2, <4>7, <5>3 DEF FlashOK
        <5>. QED BY <4>1, <5>4 DEF Main
      <4>9. k \in at_risk
        BY <1>1, <1>2, <1>4, <1>6, <4>2, <4>3, <4>7, <4>8 DEF RiskOK
      <4>. QED BY <4>9
    <3>. QED BY <3>1, <3>2
  <2>. QED BY <2>1, <2>2, <2>3
<1>21. ~Up' /\ state' \in [Blk -> {"none", "clean", "used", "dirty"}] /\ UNCHANGED wblk
  BY <1>0, <1>1, <1>9 DEF Up, Types
<1>. QED BY <1>0, <1>1, <1>9, <1>13, <1>14, <1>15, <1>16, <1>17, <1>18, <1>19, <1>20, <1>21,
            BootFrame

\* kv_init recovers an item.
LEMMA InitItem ==
    ASSUME Core, kv_init_item PROVE Core'
BY InitItemPass, InitItemDelete

\* A step that marks a block, or leaves the headers, and no item.
LEMMA SameItems ==
    ASSUME Types, UNCHANGED items
    PROVE  /\ \A b \in Blk : Index(b)' = Index(b) /\ (CleanFull(b)' <=> hdr'[b] = "clean" /\ items[b] # <<>>)
           /\ \A b \in Blk : CleanEmpty(b)' <=> hdr'[b] = "clean" /\ items[b] = <<>>
           /\ \A b \in Blk : \A i \in Index(b) : Normal(b, i)' <=> Normal(b, i)
           /\ \A b \in Blk, k \in Key : Has(b, k)' = Has(b, k) /\ Live(b, k)' = Live(b, k)
BY DEF Index, CleanFull, CleanEmpty, Normal, Has, Live

\* kv_init marks a block with an item that is gone.
LEMMA InitMark ==
    ASSUME Core, kv_init_mark PROVE Core'
<1>. PICK m \in Blk : m = boot.mark
  BY BootProps DEF kv_init_mark, Up
<1>0. /\ boot.at = "mark" /\ ~Up
      /\ hdr' = [hdr EXCEPT ![m] = IF state[m] = "used" THEN "dirty" ELSE hdr[m]]
      /\ state' = [state EXCEPT ![m] = IF state[m] = "used" THEN "dirty" ELSE state[m]]
      /\ boot' = [boot EXCEPT !.at = "item", !.j = boot.j + 1]
      /\ UNCHANGED <<items, clean_blk_nums, wblk>> /\ BootOnly
  BY DEF kv_init_mark, Up
<1>1. /\ Types /\ boot \in BootType /\ boot.blk \in Blk /\ boot.j \in Nat
      /\ \A c \in Client : client[c].at = "none"
  BY <1>0, BootProps
<1>2. PairOK /\ FlashOK /\ MarkOK /\ CrcOK /\ ValOK /\ RiskOK /\ BootOK
  BY DEF Core
<1>3. Scanning
  BY <1>0 DEF Scanning
<1>4. /\ boot' \in BootType /\ boot'.at = "item" /\ boot'.blk = boot.blk
      /\ boot'.j = boot.j + 1 /\ boot'.unclean = boot.unclean
  <2>1. boot.j + 1 \in Nat
    BY <1>1
  <2>. QED BY <1>0, <1>1, <2>1 DEF BootType
<1>5. /\ hdr' \in [Blk -> {"erased", "clean", "used", "dirty"}]
      /\ state' \in [Blk -> {"none", "clean", "used", "dirty"}]
  BY <1>0, <1>1 DEF Types
<1>6. \A b \in Blk : \/ hdr'[b] = hdr[b] /\ state'[b] = state[b]
                     \/ hdr[b] = "used" /\ state[b] = "used"
                        /\ hdr'[b] = "dirty" /\ state'[b] = "dirty"
  <2>1. \A b \in Blk : b # m => hdr'[b] = hdr[b] /\ state'[b] = state[b]
    BY <1>0, <1>1 DEF Types
  <2>2. state[m] = "used" => hdr[m] = "used"
    <3>1. /\ \A b \in Blk : b < boot.blk => state[b] = hdr[b]
          /\ \A b \in Blk : b > boot.blk => state[b] = "none"
          /\ state[boot.blk] = hdr[boot.blk]
      BY <1>0, <1>2, <1>3 DEF BootOK
    <3>2. m < boot.blk \/ m > boot.blk \/ m = boot.blk
      BY <1>1, BlkProps
    <3>. QED BY <3>1, <3>2
  <2>3. IF state[m] = "used" THEN hdr'[m] = "dirty" /\ state'[m] = "dirty"
        ELSE hdr'[m] = hdr[m] /\ state'[m] = state[m]
    BY <1>0, <1>1 DEF Types
  <2>. QED BY <2>1, <2>2, <2>3
<1>7. \A b \in Blk : \A i \in Index(b) : Ahead(b, i) => Ahead(b, i)'
  <2>1. Scanning' /\ \A b \in Blk : \A i \in Index(b) : i \in Nat
    BY <1>4 DEF Scanning, Index
  <2>. QED BY <1>0, <1>1, <1>4, <2>1 DEF Ahead
<1>8. \A b \in Blk : /\ CleanFull(b)' <=> CleanFull(b)
                     /\ CleanEmpty(b)' <=> CleanEmpty(b)
                     /\ InUse(b)' <=> InUse(b)
                     /\ Main(b)' <=> Main(b)
  BY <1>0, <1>6, BlkProps DEF CleanFull, CleanEmpty, InUse, Main
<1>9. FlashType'
  BY <1>0, <1>1, <1>5 DEF FlashType, Types, Index
<1>10. FlashOK'
  BY <1>0, <1>2, <1>6, <1>8, BlkProps DEF FlashOK
<1>11. BootOK'
  <2>1. boot'.j >= 1
    BY <1>1, <1>4
  <2>. QED BY <1>0, <1>4, <1>6, <1>8, <2>1, SameBlock
<1>12. MarkOK'
  <2>. SUFFICES ASSUME NEW b \in Blk, NEW i \in Index(b), hdr'[b] = "used", ~Normal(b, i)
                PROVE  Ahead(b, i)'
    BY <1>0 DEF MarkOK, Index, Normal
  <2>1. hdr[b] = "used" /\ (Ahead(b, i) \/ m = b)
    BY <1>1, <1>2, <1>6 DEF MarkOK
  <2>2. CASE m = b
    <3>1. state[b] # "used"
      BY <1>0, <1>1, <2>2 DEF Types
    <3>2. b > boot.blk
      BY <1>0, <1>1, <1>2, <1>3, <2>1, <3>1, BlkProps DEF BootOK
    <3>. QED BY <1>3, <1>7, <3>2 DEF Ahead
  <2>. QED BY <1>7, <2>1, <2>2
<1>13. CrcOK'
  BY <1>0, <1>2, <1>7 DEF CrcOK, Index, Normal
<1>14. PairOK'
  <2>. SUFFICES ASSUME NEW b \in Blk, NEW x \in Index(b), NEW y \in Index(b), x < y,
                       Normal(b, x), Normal(b, y), items[b][x].key = items[b][y].key
                PROVE  /\ ~items[b][y].crc \/ items[b][y].origin = <<b, x>>
                       /\ Ahead(b, y)'
    BY <1>0 DEF PairOK, Index, Normal
  <2>. QED BY <1>1, <1>2, <1>7 DEF PairOK
<1>15. UNCHANGED <<allowed, at_risk>>
  BY <1>0 DEF BootOnly
<1>16. ValOK'
  BY <1>0, <1>1, <1>2, <1>8, <1>15, SameItems DEF ValOK
<1>17. RiskOK'
  BY <1>0, <1>2, <1>8, <1>15 DEF RiskOK, Index, Normal
<1>18. ~Up' /\ UNCHANGED wblk
  BY <1>0, <1>4 DEF Up
<1>. QED BY <1>0, <1>4, <1>5, <1>9, <1>10, <1>11, <1>12, <1>13, <1>14, <1>16, <1>17, <1>18,
            BootFrame

\* Where kv_init goes from a block.
LEMMA NextBlockProps ==
    ASSUME NEW b \in Blk, boot \in BootType
    PROVE  /\ NextBlock(b) \in BootType /\ NextBlock(b).unclean = boot.unclean
           /\ b = 0 => NextBlock(b).at = "scan" /\ NextBlock(b).blk = 1 /\ NextBlock(b).j = 1
           /\ b = 1 => NextBlock(b).at = "unclean"
<1>1. boot.unclean \in SUBSET Blk
  BY DEF BootType
<1>2. CASE b = 0
  BY <1>1, <1>2, BlkProps, BootRecord DEF NextBlock
<1>3. CASE b = 1
  BY <1>1, <1>3, BlkProps, BootRecord DEF NextBlock
<1>. QED BY <1>2, <1>3, BlkProps

\* kv_init leaves block b, which it has scanned or formatted, for the next.
LEMMA LeaveBlock ==
    ASSUME Core, ~Up, Scanning, NEW b \in Blk, b = boot.blk, boot' \in BootType,
           b = 0 => boot'.at = "scan" /\ boot'.blk = 1 /\ boot'.j = 1,
           b = 1 => boot'.at = "unclean",
           state'[b] = hdr'[b], hdr'[b] # "erased", UNCHANGED wblk,
           \A a \in Blk : a # b => /\ hdr'[a] = hdr[a] /\ state'[a] = state[a]
                                   /\ items'[a] = items[a],
           boot'.unclean = boot.unclean \cup {a \in {b} : CleanFull(a)'},
           clean_blk_nums' = clean_blk_nums + (IF CleanEmpty(b)' THEN 1 ELSE 0)
    PROVE  BootOK' /\ ~Up'
<1>1. BootOK /\ boot.blk \in Blk
  BY BootProps DEF Core
<1>2. /\ \A a \in Blk : a < b => state[a] = hdr[a] /\ hdr[a] # "erased"
      /\ \A a \in Blk : a > b => state[a] = "none"
      /\ boot.unclean = {a \in Blk : Passed(a) /\ CleanFull(a)}
      /\ clean_blk_nums = (IF Passed(0) /\ CleanEmpty(0) THEN 1 ELSE 0)
                        + (IF Passed(1) /\ CleanEmpty(1) THEN 1 ELSE 0)
      /\ wblk = 0
  BY <1>1 DEF BootOK
<1>3. ~Up' /\ ~Reformat'
  BY BlkProps DEF Up, Reformat
<1>4. \A a \in Blk : /\ a # b => (CleanFull(a)' <=> CleanFull(a)) /\ (CleanEmpty(a)' <=> CleanEmpty(a))
  BY DEF CleanFull, CleanEmpty
<1>5. CASE b = 0
  <2>1. Scanning' /\ boot'.at = "scan" /\ boot'.blk = 1 /\ boot'.j = 1
    BY <1>5 DEF Scanning
  <2>2. ~Passed(0) /\ ~Passed(1) /\ Passed(0)' /\ ~Passed(1)'
    BY <1>5, <2>1 DEF Passed
  <2>0. \A a \in Blk : (a < 1 <=> a = 0) /\ ~(a > 1)
    BY DEF Blk
  <2>3. boot'.unclean = {a \in Blk : Passed(a)' /\ CleanFull(a)'}
    <3>1. \A a \in Blk : ~Passed(a) /\ (Passed(a)' <=> a = b)
      BY <1>5, <2>2, BlkProps
    <3>2. boot.unclean = {}
      BY <1>2, <3>1
    <3>. QED BY <3>1, <3>2
  <2>4. clean_blk_nums' = (IF Passed(0)' /\ CleanEmpty(0)' THEN 1 ELSE 0)
                        + (IF Passed(1)' /\ CleanEmpty(1)' THEN 1 ELSE 0)
    BY <1>2, <1>5, <2>2
  <2>5. \A a \in Blk : a < boot'.blk => state'[a] = hdr'[a] /\ hdr'[a] # "erased"
    BY <1>5, <2>0, <2>1
  <2>6. \A a \in Blk : ~(a > boot'.blk)
    BY <2>0, <2>1
  <2>. QED BY <1>2, <1>3, <2>1, <2>3, <2>4, <2>5, <2>6 DEF BootOK
<1>6. CASE b = 1
  <2>1. ~Scanning' /\ boot'.at = "unclean"
    BY <1>6 DEF Scanning
  <2>2. Passed(0) /\ ~Passed(1) /\ Passed(0)' /\ Passed(1)'
    BY <1>3, <1>6, <2>1 DEF Passed
  <2>3. boot'.unclean = {a \in Blk : Passed(a)' /\ CleanFull(a)'}
    BY <1>2, <1>4, <1>6, <2>2, BlkProps
  <2>4. CleanEmpty(0)' <=> CleanEmpty(0)
    BY <1>4, <1>6, BlkProps
  <2>5. clean_blk_nums' = (IF Passed(0)' /\ CleanEmpty(0)' THEN 1 ELSE 0)
                        + (IF Passed(1)' /\ CleanEmpty(1)' THEN 1 ELSE 0)
    BY <1>2, <1>6, <2>2, <2>4
  <2>6. \A a \in Blk : state'[a] = hdr'[a] /\ hdr'[a] # "erased"
    <3>1. state[0] = hdr[0] /\ hdr[0] # "erased" /\ 0 # b
      BY <1>2, <1>6, BlkProps
    <3>2. state'[0] = hdr'[0] /\ hdr'[0] # "erased"
      BY <3>1, BlkProps
    <3>. QED BY <1>6, <3>2, BlkProps
  <2>. QED BY <1>2, <1>3, <2>1, <2>3, <2>5, <2>6 DEF BootOK
<1>. QED BY <1>3, <1>5, <1>6, BlkProps

\* Of what is ahead, all is ahead in the next block.
LEMMA LeaveAhead ==
    ASSUME Core, ~Up, Scanning, NEW b \in Blk, b = boot.blk,
           b = 0 => boot'.at = "scan" /\ boot'.blk = 1 /\ boot'.j = 1,
           boot.j > Len(items[b])
    PROVE  \A a \in Blk : \A i \in Index(a) : Ahead(a, i) => Ahead(a, i)'
<1>1. \A a \in Blk : Len(items[a]) \in Nat /\ \A i \in Index(a) : i \in Nat /\ i >= 1 /\ i <= Len(items[a])
  BY BootProps, EmptyProps DEF Index
<1>2. \A a \in Blk : \A i \in Index(a) : Ahead(a, i) => a > b
  BY <1>1, BootProps DEF Ahead
<1>3. CASE b = 0
  <2>1. Scanning'
    BY <1>3 DEF Scanning
  <2>2. \A a \in Blk : a > 0 => a = 1
    BY BlkProps
  <2>. QED BY <1>1, <1>2, <1>3, <2>1, <2>2 DEF Ahead
<1>4. CASE b = 1
  BY <1>2, <1>4, BlkProps
<1>. QED BY <1>3, <1>4, BlkProps

\* kv_init has come to the end of a block.
LEMMA InitBlockEnd ==
    ASSUME Core, kv_init_block_end PROVE Core'
<1>. PICK b \in Blk : b = boot.blk
  BY BootProps DEF kv_init_block_end, Up
<1>. DEFINE u == IF hdr[b] = "clean" /\ items[b] # <<>> THEN boot.unclean \cup {b} ELSE boot.unclean
<1>0. /\ boot.at = "item" /\ boot.j > Len(items[b]) /\ ~Up /\ Scanning
      /\ clean_blk_nums' = IF hdr[b] = "clean" /\ items[b] = <<>> THEN clean_blk_nums + 1
                           ELSE clean_blk_nums
      /\ UNCHANGED <<hdr, items, state, wblk>> /\ BootOnly
  BY DEF kv_init_block_end, Up, Scanning
<1>1. /\ Types /\ boot \in BootType /\ BootOK /\ boot.unclean \in SUBSET Blk
  BY <1>0, BootProps DEF Core
<1>2. boot' = [NextBlock(b) EXCEPT !.unclean = u]
  <2>1. NextBlock(b).unclean = boot.unclean
    BY <1>1, NextBlockProps
  <2>. QED BY <2>1 DEF kv_init_block_end
<1>3. u \in SUBSET Blk
  BY <1>1
<1>4. /\ boot' \in BootType /\ boot'.unclean = u
      /\ b = 0 => boot'.at = "scan" /\ boot'.blk = 1 /\ boot'.j = 1
      /\ b = 1 => boot'.at = "unclean"
  <2>. HIDE DEF u
  <2>. DEFINE nb == NextBlock(b)
  <2>1. /\ nb \in BootType
        /\ b = 0 => nb.at = "scan" /\ nb.blk = 1 /\ nb.j = 1
        /\ b = 1 => nb.at = "unclean"
    BY <1>1, NextBlockProps
  <2>. HIDE DEF nb
  <2>2. boot' = [nb EXCEPT !.unclean = u]
    BY <1>2 DEF nb
  <2>. QED BY <1>3, <2>1, <2>2 DEF BootType
<1>5. \A a \in Blk : \A i \in Index(a) : Ahead(a, i) => Ahead(a, i)'
  BY <1>0, <1>4, LeaveAhead
<1>6. state[b] = hdr[b] /\ hdr[b] # "erased"
  BY <1>0, <1>1 DEF BootOK
<1>7. /\ CleanFull(b)' <=> hdr[b] = "clean" /\ items[b] # <<>>
      /\ CleanEmpty(b)' <=> hdr[b] = "clean" /\ items[b] = <<>>
  BY <1>0 DEF CleanFull, CleanEmpty
<1>8. boot'.unclean = boot.unclean \cup {a \in {b} : CleanFull(a)'}
  BY <1>4, <1>7
<1>9. clean_blk_nums' = clean_blk_nums + (IF CleanEmpty(b)' THEN 1 ELSE 0)
  <2>1. clean_blk_nums \in Nat
    BY <1>1 DEF Types
  <2>. QED BY <1>0, <1>7, <2>1
<1>10. BootOK' /\ ~Up'
  BY <1>0, <1>4, <1>6, <1>8, <1>9, LeaveBlock
<1>11. state' \in [Blk -> {"none", "clean", "used", "dirty"}]
  BY <1>0, <1>1 DEF Types
<1>. QED BY <1>0, <1>4, <1>5, <1>10, <1>11, BootWalk

\* While a block is formatted after the traversal, the data is in the other.
LEMMA InitErase ==
    ASSUME Core, kv_block_erase PROVE Core'
<1>. PICK b \in Blk : b = boot.blk
  BY BootProps DEF kv_block_erase, Up
<1>0. /\ boot.at = "format" /\ (hdr[b] # "erased" \/ items[b] # <<>>) /\ ~Up /\ ~Up'
      /\ hdr' = [hdr EXCEPT ![b] = "erased"]
      /\ items' = [items EXCEPT ![b] = <<>>]
      /\ UNCHANGED <<state, clean_blk_nums, wblk, boot>> /\ BootOnly
  BY DEF kv_block_erase, Up
<1>1. /\ Types /\ boot \in BootType /\ BootOK /\ boot.j \in Nat
      /\ \A c \in Client : client[c].at = "none"
  BY <1>0, BootProps DEF Core
<1>2. PairOK /\ FlashOK /\ MarkOK /\ CrcOK /\ ValOK /\ RiskOK
  BY DEF Core
<1>3. Reformat /\ ~Scanning
  <2>1. CASE boot.j > 0
    <3>1. hdr[b] = "erased"
      BY <1>0, <1>1, <2>1 DEF BootOK, Scanning
    <3>. QED BY <1>0, <1>2, <3>1 DEF FlashOK
  <2>2. CASE boot.j = 0
    BY <1>0, <2>2 DEF Reformat, Scanning
  <2>. QED BY <1>1, <2>1, <2>2
<1>4. /\ hdr[b] \in {"clean", "erased"} /\ state[b] = "clean"
      /\ InUse(1 - b) /\ state[1 - b] = hdr[1 - b]
  BY <1>1, <1>3 DEF BootOK
<1>5. Reformat' /\ ~Scanning' /\ \A a \in Blk, i \in Nat : ~Ahead(a, i) /\ ~Ahead(a, i)'
  BY <1>0, <1>3 DEF Reformat, Scanning, Ahead
<1>6. /\ items' \in [Blk -> Seq(ItemType)] /\ hdr' \in [Blk -> {"erased", "clean", "used", "dirty"}]
      /\ items'[b] = <<>> /\ hdr'[b] = "erased" /\ 1 - b \in Blk
      /\ items'[1 - b] = items[1 - b] /\ hdr'[1 - b] = hdr[1 - b]
      /\ \A a \in Blk : a = b \/ a = 1 - b
  BY <1>0, <1>1, BlkProps DEF Types
<1>7. Index(b)' = {} /\ Index(1 - b)' = Index(1 - b)
  BY <1>6, EmptyProps DEF Index
<1>8. FlashType'
  <2>0. /\ \A a \in Blk : Len(items[a]) <= Cap
        /\ \A a \in Blk : \A i \in Index(a) : items[a][i].crc => items[a][i].val \in Val
    BY <1>1 DEF Types
  <2>1. \A a \in Blk : Len(items'[a]) <= Cap
    <3>1. Len(<<>>) <= Cap
      BY Values
    <3>. QED BY <1>6, <2>0, <3>1
  <2>2. \A a \in Blk : \A i \in Index(a)' : items'[a][i].crc => items'[a][i].val \in Val
    <3>1. \A i \in Index(1 - b)' : items'[1 - b][i].crc => items'[1 - b][i].val \in Val
      BY <1>6, <1>7, <2>0
    <3>. QED BY <1>6, <1>7, <3>1
  <2>. QED BY <1>6, <2>1, <2>2 DEF FlashType
<1>9. /\ ~InUse(b)' /\ ~CleanFull(b)' /\ ~CleanEmpty(b)' /\ InUse(1 - b)'
      /\ ~CleanFull(1 - b)' /\ ~CleanEmpty(1 - b)'
      /\ ~InUse(b) /\ ~CleanFull(1 - b) /\ ~CleanEmpty(1 - b)
  BY <1>4, <1>6 DEF InUse, CleanFull, CleanEmpty
<1>10. FlashOK'
  BY <1>6, <1>9, BlkProps DEF FlashOK, InUse
<1>11. BootOK'
  <2>1. Passed(1 - b) /\ Passed(1 - b)' /\ ~Passed(b) /\ ~Passed(b)'
    BY <1>0, <1>3, <1>5, BlkProps DEF Passed
  <2>2. boot.unclean = {} /\ clean_blk_nums = 0 /\ wblk = 0
    <3>1. boot.unclean = {a \in Blk : Passed(a) /\ CleanFull(a)}
      BY <1>0, <1>1 DEF BootOK
    <3>2. clean_blk_nums = (IF Passed(0) /\ CleanEmpty(0) THEN 1 ELSE 0)
                         + (IF Passed(1) /\ CleanEmpty(1) THEN 1 ELSE 0) /\ wblk = 0
      BY <1>0, <1>1 DEF BootOK
    <3>3. ~(Passed(0) /\ CleanEmpty(0)) /\ ~(Passed(1) /\ CleanEmpty(1))
      BY <1>6, <1>9, <2>1, BlkProps
    <3>4. \A a \in Blk : ~(Passed(a) /\ CleanFull(a))
      BY <1>6, <1>9, <2>1
    <3>. QED BY <3>1, <3>2, <3>3, <3>4
  <2>3. \A a \in Blk : ~(Passed(a)' /\ CleanFull(a)')
    BY <1>6, <1>9, <2>1
  <2>4. ~(Passed(0)' /\ CleanEmpty(0)') /\ ~(Passed(1)' /\ CleanEmpty(1)')
    BY <1>6, <1>9, <2>1, BlkProps
  <2>5. /\ boot'.unclean = {a \in Blk : Passed(a)' /\ CleanFull(a)'}
        /\ clean_blk_nums' = (IF Passed(0)' /\ CleanEmpty(0)' THEN 1 ELSE 0)
                           + (IF Passed(1)' /\ CleanEmpty(1)' THEN 1 ELSE 0)
        /\ wblk' = 0
    BY <1>0, <2>2, <2>3, <2>4
  <2>6. /\ hdr'[boot'.blk] \in {"clean", "erased"} /\ state'[boot'.blk] = "clean"
        /\ hdr'[1 - boot'.blk] \in {"used", "dirty"} /\ state'[1 - boot'.blk] = hdr'[1 - boot'.blk]
    BY <1>0, <1>4, <1>6 DEF InUse
  <2>. QED BY <1>0, <1>5, <2>5, <2>6 DEF BootOK, InUse
<1>12. MarkOK'
  <2>1. \A a \in Blk : \A i \in Index(a)' : a = 1 - b /\ i \in Index(a) /\ i \in Nat
                                           /\ (Normal(a, i)' <=> Normal(a, i))
    BY <1>6, <1>7 DEF Normal, Index
  <2>2. \A a \in Blk : \A i \in Index(a) : hdr[a] = "used" => Normal(a, i)
    BY <1>0, <1>1, <1>2, <1>5 DEF MarkOK, Index
  <2>. QED BY <1>6, <2>1, <2>2 DEF MarkOK
<1>13. CrcOK'
  <2>1. \A a \in Blk : \A i \in Index(a)' : a = 1 - b /\ i \in Index(a) /\ i \in Nat
                                           /\ (Normal(a, i)' <=> Normal(a, i))
    BY <1>6, <1>7 DEF Normal, Index
  <2>2. \A a \in Blk : \A i \in Index(a) : Normal(a, i) => items[a][i].crc
    BY <1>2, <1>5 DEF CrcOK, Index
  <2>. QED BY <1>6, <2>1, <2>2 DEF CrcOK
<1>14. PairOK'
  <2>. SUFFICES ASSUME NEW a \in Blk, NEW x \in Index(a)', NEW y \in Index(a)', x < y,
                       Normal(a, x)', Normal(a, y)', items'[a][x].key = items'[a][y].key
                PROVE  FALSE
    BY DEF PairOK
  <2>1. /\ a = 1 - b /\ x \in Index(a) /\ y \in Index(a) /\ Normal(a, x) /\ Normal(a, y)
        /\ items[a][x].key = items[a][y].key /\ y \in Nat
    BY <1>6, <1>7 DEF Normal, Index
  <2>. QED BY <1>1, <1>2, <1>5, <2>1 DEF PairOK
<1>15. UNCHANGED <<allowed, at_risk>>
  BY <1>0 DEF BootOnly
<1>16. ValOK'
  <2>1. ~Main(b) /\ ~Main(b)' /\ Main(1 - b) /\ Main(1 - b)'
    BY <1>4, <1>9, BlkProps DEF Main
  <2>2. \A k \in Key : Live(1 - b, k)' = Live(1 - b, k)
    BY <1>6, <1>7 DEF Live, Has, Normal
  <2>3. \A a \in Blk : a = b \/ a = 1 - b
    BY BlkProps
  <2>4. ASSUME NEW k \in Key
        PROVE  /\ \A i \in Live(1 - b, k) : items[1 - b][i].val \in allowed[k]
               /\ Live(1 - b, k) = {} => NoVal \in allowed[k] \/ k \in at_risk
    BY <1>2, <2>1, <2>3, BlkProps DEF ValOK
  <2>5. \A k \in Key : \A i \in Live(1 - b, k)' : items'[1 - b][i].val \in allowed'[k]
    BY <1>6, <1>15, <2>2, <2>4
  <2>6. \A k \in Key : Live(1 - b, k)' = {} => NoVal \in allowed'[k] \/ k \in at_risk'
    BY <1>15, <2>2, <2>4
  <2>. QED BY <2>1, <2>3, <2>5, <2>6, BlkProps DEF ValOK
<1>17. RiskOK'
  <2>. SUFFICES ASSUME NEW a \in Blk, InUse(a)', NEW x \in Index(1 - a)' PROVE FALSE
    BY DEF RiskOK
  <2>1. a = 1 - b /\ 1 - a = b
    BY <1>6, <1>9, BlkProps
  <2>. QED BY <1>7, <2>1
<1>18. state' \in [Blk -> {"none", "clean", "used", "dirty"}] /\ boot' \in BootType
  BY <1>0, <1>1 DEF Types
<1>. QED BY <1>0, <1>8, <1>10, <1>11, <1>12, <1>13, <1>14, <1>16, <1>17, <1>18, BootFrame

\* A step that writes a header and no item, and leaves the data where it is.
LEMMA BootHeader ==
    ASSUME Core, ~Up, ~Up', BootOnly, UNCHANGED <<items, wblk>>, boot' \in BootType,
           hdr' \in [Blk -> {"erased", "clean", "used", "dirty"}],
           state' \in [Blk -> {"none", "clean", "used", "dirty"}],
           BootOK', FlashOK', boot.at # "mark",
           \A b \in Blk : \A i \in Index(b) : Ahead(b, i) => Ahead(b, i)',
           \A b \in Blk : /\ hdr'[b] = "used" => hdr[b] = "used"
                          /\ Main(b)' <=> Main(b)
                          /\ InUse(b)' => InUse(b) \/ items[1 - b] = <<>>
    PROVE  Core'
<1>0. /\ Types /\ MarkOK /\ CrcOK /\ PairOK /\ ValOK /\ RiskOK
      /\ \A c \in Client : client[c].at = "none"
  BY BootProps DEF Core
<1>1. UNCHANGED <<client, allowed, at_risk>>
  BY DEF BootOnly
<1>2. FlashType'
  BY <1>0 DEF Types, FlashType, Index
<1>3. MarkOK'
  BY <1>0 DEF MarkOK, Index, Normal
<1>4. CrcOK'
  BY <1>0 DEF CrcOK, Index, Normal
<1>5. PairOK'
  <2>. SUFFICES ASSUME NEW b \in Blk, NEW i \in Index(b), NEW j \in Index(b),
                       i < j, Normal(b, i), Normal(b, j), items[b][i].key = items[b][j].key
                PROVE  /\ ~items[b][j].crc \/ items[b][j].origin = <<b, i>>
                       /\ Ahead(b, j)'
    BY DEF PairOK, Index, Normal
  <2>. QED BY <1>0 DEF PairOK
<1>6. ValOK'
  BY <1>0, <1>1, SameItems DEF ValOK
<1>7. RiskOK'
  <2>1. \A b \in Blk : InUse(b)' => InUse(b) \/ Index(1 - b) = {}
    BY <1>0, BlkProps, EmptyProps
  <2>. QED BY <1>0, <1>1, <2>1 DEF RiskOK, Index, Normal
<1>. QED BY <1>2, <1>3, <1>4, <1>5, <1>6, <1>7, BootFrame

\* kv_init writes the header of a block it has erased.
LEMMA InitFormat ==
    ASSUME Core, kv_block_format PROVE Core'
<1>. PICK b \in Blk : b = boot.blk
  BY BootProps DEF kv_block_format, Up
<1>0. /\ boot.at = "format" /\ hdr[b] = "erased" /\ items[b] = <<>> /\ ~Up
      /\ hdr' = [hdr EXCEPT ![b] = "clean"]
      /\ state' = [state EXCEPT ![b] = "clean"]
      /\ clean_blk_nums' = clean_blk_nums + 1
      /\ boot' = IF boot.j > 0 THEN NextBlock(b) ELSE Boot("unclean", 0, 0, boot.unclean)
      /\ UNCHANGED <<items, wblk>> /\ BootOnly
  BY DEF kv_block_format, Up
<1>1. /\ Types /\ boot \in BootType /\ BootOK /\ boot.j \in Nat /\ boot.unclean \in SUBSET Blk
      /\ FlashOK
  BY <1>0, BootProps DEF Core
<1>2. /\ hdr' \in [Blk -> {"erased", "clean", "used", "dirty"}]
      /\ state' \in [Blk -> {"none", "clean", "used", "dirty"}]
      /\ hdr'[b] = "clean" /\ state'[b] = "clean"
      /\ \A a \in Blk : a # b => hdr'[a] = hdr[a] /\ state'[a] = state[a]
  BY <1>0, <1>1 DEF Types
<1>3. \A a \in Blk : /\ (InUse(a)' <=> InUse(a)) /\ (CleanFull(a)' <=> CleanFull(a))
                     /\ hdr'[a] = "used" => hdr[a] = "used"
  BY <1>0, <1>2 DEF InUse, CleanFull
<1>4. \A a \in Blk : Main(a)' <=> Main(a)
  BY <1>3, BlkProps DEF Main
<1>5. CleanEmpty(b)' /\ ~CleanFull(b)' /\ ~CleanEmpty(b) /\ ~CleanFull(b)
  BY <1>0, <1>2 DEF CleanEmpty, CleanFull
<1>6. FlashOK'
  <2>1. \A a \in Blk : hdr'[a] = "erased" => items'[a] = <<>>
    BY <1>0, <1>1, <1>2 DEF FlashOK
  <2>2. \A a \in Blk : 1 - a \in Blk
    BY BlkProps
  <2>3. \A a \in Blk : (InUse(a) => ~InUse(1 - a)) /\ (CleanFull(a) => ~CleanFull(1 - a))
    BY <1>1 DEF FlashOK
  <2>4. \A a \in Blk : (InUse(1 - a)' <=> InUse(1 - a)) /\ (CleanFull(1 - a)' <=> CleanFull(1 - a))
    BY <1>3, <2>2
  <2>. QED BY <1>3, <2>1, <2>3, <2>4 DEF FlashOK
<1>7. CASE boot.j > 0
  <2>1. Scanning
    BY <1>0, <1>7 DEF Scanning
  <2>2. /\ boot' \in BootType /\ boot'.unclean = boot.unclean
        /\ b = 0 => boot'.at = "scan" /\ boot'.blk = 1 /\ boot'.j = 1
        /\ b = 1 => boot'.at = "unclean"
    BY <1>0, <1>1, <1>7, NextBlockProps
  <2>3. boot'.unclean = boot.unclean \cup {a \in {b} : CleanFull(a)'}
    BY <1>5, <2>2
  <2>4. clean_blk_nums' = clean_blk_nums + (IF CleanEmpty(b)' THEN 1 ELSE 0)
    BY <1>0, <1>5
  <2>5. BootOK' /\ ~Up'
    BY <1>0, <1>2, <2>1, <2>2, <2>3, <2>4, LeaveBlock
  <2>6. boot.j > Len(items[b])
    BY <1>0, <1>7
  <2>7. \A a \in Blk : \A i \in Index(a) : Ahead(a, i) => Ahead(a, i)'
    BY <1>0, <2>1, <2>2, <2>6, LeaveAhead
  <2>. QED BY <1>0, <1>2, <1>3, <1>4, <1>6, <2>2, <2>5, <2>7, BootHeader
<1>8. CASE ~(boot.j > 0)
  <2>1. ~Scanning /\ Reformat
    BY <1>0, <1>1, <1>8 DEF Scanning, Reformat
  <2>2. boot' \in BootType /\ boot'.at = "unclean" /\ boot'.unclean = boot.unclean
    BY <1>0, <1>1, <1>8, BlkProps, BootRecord
  <2>3. ~Scanning' /\ ~Reformat' /\ ~Up'
    BY <2>2 DEF Scanning, Reformat, Up
  <2>4. \A a \in Blk : \A i \in Index(a) : Ahead(a, i) => Ahead(a, i)'
    BY <2>1 DEF Ahead
  <2>5. InUse(1 - b) /\ state[1 - b] = hdr[1 - b] /\ 1 - b \in Blk /\ 1 - b # b
    BY <1>1, <2>1, BlkProps DEF BootOK
  <2>6. ~Passed(b) /\ Passed(1 - b) /\ Passed(b)' /\ Passed(1 - b)'
    BY <2>1, <2>3, <2>5 DEF Passed
  <2>7. ~CleanEmpty(1 - b) /\ ~CleanEmpty(1 - b)' /\ ~CleanFull(1 - b) /\ ~CleanFull(1 - b)'
    BY <1>2, <2>5 DEF CleanEmpty, CleanFull, InUse
  <2>8. boot'.unclean = {a \in Blk : Passed(a)' /\ CleanFull(a)'}
    <3>1. \A a \in Blk : ~CleanFull(a) /\ ~CleanFull(a)'
      BY <1>5, <2>7, BlkProps
    <3>2. boot.unclean = {a \in Blk : Passed(a) /\ CleanFull(a)}
      BY <1>0, <1>1 DEF BootOK
    <3>. QED BY <2>2, <3>1, <3>2
  <2>9. clean_blk_nums' = (IF Passed(0)' /\ CleanEmpty(0)' THEN 1 ELSE 0)
                        + (IF Passed(1)' /\ CleanEmpty(1)' THEN 1 ELSE 0) /\ wblk' = 0
    <3>1. clean_blk_nums = (IF Passed(0) /\ CleanEmpty(0) THEN 1 ELSE 0)
                         + (IF Passed(1) /\ CleanEmpty(1) THEN 1 ELSE 0) /\ wblk = 0
      BY <1>0, <1>1 DEF BootOK
    <3>2. CASE b = 0
      BY <1>0, <1>5, <2>6, <2>7, <3>1, <3>2
    <3>3. CASE b = 1
      BY <1>0, <1>5, <2>6, <2>7, <3>1, <3>3
    <3>. QED BY <3>2, <3>3, BlkProps
  <2>10. \A a \in Blk : state'[a] = hdr'[a] /\ hdr'[a] # "erased"
    BY <1>2, <2>5, BlkProps DEF InUse
  <2>11. BootOK'
    BY <2>2, <2>3, <2>8, <2>9, <2>10 DEF BootOK
  <2>. QED BY <1>0, <1>2, <1>3, <1>4, <1>6, <2>2, <2>3, <2>4, <2>11, BootHeader
<1>. QED BY <1>7, <1>8

\* kv_init keeps the copies in an unclean block, or drops them.
LEMMA InitUnclean ==
    ASSUME Core, kv_init_unclean PROVE Core'
<1>0. boot.at = "unclean" /\ boot.unclean # {} /\ ~Up /\ UNCHANGED <<items, clean_blk_nums, wblk>> /\ BootOnly
  BY DEF kv_init_unclean, Up
<1>1. /\ Types /\ boot \in BootType /\ BootOK /\ boot.unclean \in SUBSET Blk /\ FlashOK
  BY <1>0, BootProps DEF Core
<1>2. ~Scanning /\ ~Reformat /\ \A a \in Blk : Passed(a)
  BY <1>0 DEF Scanning, Reformat, Passed
<1>3. /\ boot.unclean = {a \in Blk : CleanFull(a)}
      /\ clean_blk_nums = (IF CleanEmpty(0) THEN 1 ELSE 0) + (IF CleanEmpty(1) THEN 1 ELSE 0)
      /\ wblk = 0
  <2>1. /\ boot.unclean = {a \in Blk : Passed(a) /\ CleanFull(a)}
        /\ clean_blk_nums = (IF Passed(0) /\ CleanEmpty(0) THEN 1 ELSE 0)
                          + (IF Passed(1) /\ CleanEmpty(1) THEN 1 ELSE 0)
        /\ wblk = 0
    BY <1>0, <1>1 DEF BootOK
  <2>. QED BY <1>2, <2>1, BlkProps
<1>4. PICK b \in Blk : CleanFull(b)
  BY <1>0, <1>3
<1>5. boot.unclean = {b} /\ 1 - b \in Blk /\ ~CleanFull(1 - b)
  BY <1>1, <1>3, <1>4, BlkProps DEF FlashOK
<1>6. b = CHOOSE a \in boot.unclean : \A c \in boot.unclean : c <= a
  BY <1>5, BlkProps
<1>7. /\ \A a \in Blk : state[a] = hdr[a] /\ hdr[a] # "erased"
  BY <1>0, <1>1 DEF BootOK
<1>8. hdr[b] = "clean" /\ items[b] # <<>> /\ ~CleanEmpty(b) /\ ~InUse(b)
  BY <1>4 DEF CleanFull, CleanEmpty, InUse
<1>9. clean_blk_nums >= 1 <=> CleanEmpty(1 - b)
  <2>1. CASE b = 0
    BY <1>3, <1>8, <2>1
  <2>2. CASE b = 1
    BY <1>3, <1>8, <2>2
  <2>. QED BY <2>1, <2>2, BlkProps
<1>10. CASE clean_blk_nums >= 1
  <2>1. /\ hdr' = [hdr EXCEPT ![b] = "dirty"]
        /\ state' = [state EXCEPT ![b] = "dirty"]
        /\ boot' = [boot EXCEPT !.unclean = boot.unclean \ {b}]
    BY <1>6, <1>10 DEF kv_init_unclean, KV_GC_RESERVED
  <2>2. /\ boot' \in BootType /\ boot'.at = "unclean" /\ boot'.unclean = {}
    BY <1>0, <1>1, <1>5, <2>1 DEF BootType
  <2>3. /\ hdr' \in [Blk -> {"erased", "clean", "used", "dirty"}]
        /\ state' \in [Blk -> {"none", "clean", "used", "dirty"}]
        /\ hdr'[b] = "dirty" /\ state'[b] = "dirty"
        /\ \A a \in Blk : a # b => hdr'[a] = hdr[a] /\ state'[a] = state[a]
    BY <1>1, <2>1 DEF Types
  <2>4. 1 - b # b /\ hdr[1 - b] = "clean" /\ items[1 - b] = <<>> /\ hdr'[1 - b] = hdr[1 - b]
    BY <1>9, <1>10, <2>3, BlkProps DEF CleanEmpty
  <2>5. /\ InUse(b)' /\ ~InUse(1 - b) /\ ~InUse(1 - b)' /\ ~CleanFull(1 - b)' /\ ~CleanFull(b)'
        /\ ~CleanEmpty(b)' /\ CleanEmpty(1 - b)'
    BY <1>0, <2>3, <2>4 DEF InUse, CleanFull, CleanEmpty
  <2>6. \A a \in Blk : Main(a)' <=> Main(a)
    <3>1. \A a \in Blk : a = b \/ a = 1 - b
      BY BlkProps
    <3>2. 1 - (1 - b) = b
      BY BlkProps
    <3>3. Main(b)' <=> Main(b)
      BY <1>4, <2>5 DEF Main
    <3>4. Main(1 - b)' <=> Main(1 - b)
      BY <1>5, <2>5 DEF Main
    <3>. QED BY <3>1, <3>3, <3>4
  <2>7. ~Scanning' /\ ~Reformat' /\ ~Up'
    BY <2>2 DEF Scanning, Reformat, Up
  <2>8. FlashOK'
    BY <1>0, <1>1, <1>4, <2>3, <2>4, <2>5, BlkProps DEF FlashOK
  <2>9. BootOK'
    <3>1. \A a \in Blk : Passed(a)' /\ ~CleanFull(a)'
      BY <2>5, <2>7, BlkProps DEF Passed
    <3>2. clean_blk_nums' = (IF Passed(0)' /\ CleanEmpty(0)' THEN 1 ELSE 0)
                          + (IF Passed(1)' /\ CleanEmpty(1)' THEN 1 ELSE 0)
      <4>1. CleanEmpty(1 - b)
        BY <1>9, <1>10
      <4>2. \A a \in Blk : CleanEmpty(a)' <=> CleanEmpty(a)
        BY <1>8, <2>5, <4>1, BlkProps
      <4>. QED BY <1>0, <1>3, <3>1, <4>2, BlkProps
    <3>3. boot'.unclean = {a \in Blk : Passed(a)' /\ CleanFull(a)'} /\ wblk' = 0
      BY <1>0, <1>3, <2>2, <3>1
    <3>4. \A a \in Blk : state'[a] = hdr'[a] /\ hdr'[a] # "erased"
      BY <1>7, <2>3
    <3>. QED BY <2>2, <2>7, <3>2, <3>3, <3>4 DEF BootOK
  <2>10. \A a \in Blk : /\ hdr'[a] = "used" => hdr[a] = "used"
                        /\ InUse(a)' => InUse(a) \/ items[1 - a] = <<>>
    <3>1. \A a \in Blk : a = b \/ a = 1 - b
      BY BlkProps
    <3>2. /\ hdr'[b] = "used" => hdr[b] = "used"
          /\ InUse(b)' => InUse(b) \/ items[1 - b] = <<>>
      BY <2>3, <2>4
    <3>3. /\ hdr'[1 - b] = "used" => hdr[1 - b] = "used"
          /\ InUse(1 - b)' => InUse(1 - b) \/ items[1 - (1 - b)] = <<>>
      BY <2>4, <2>5
    <3>. QED BY <3>1, <3>2, <3>3
  <2>11. \A a \in Blk : \A i \in Index(a) : Ahead(a, i) => Ahead(a, i)'
    BY <1>2 DEF Ahead
  <2>. QED BY <1>0, <2>2, <2>3, <2>6, <2>7, <2>8, <2>9, <2>10, <2>11, BootHeader
<1>11. CASE ~(clean_blk_nums >= 1)
  <2>1. /\ boot' = Boot("format", b, 0, boot.unclean \ {b})
        /\ UNCHANGED <<hdr, state>>
    BY <1>6, <1>11 DEF kv_init_unclean, KV_GC_RESERVED
  <2>2. /\ boot' \in BootType /\ boot'.at = "format" /\ boot'.unclean = {}
        /\ boot'.blk = b /\ boot'.j = 0
    BY <1>5, <2>1, BootRecord
  <2>3. ~Scanning' /\ Reformat' /\ ~Up'
    BY <2>2 DEF Scanning, Reformat, Up
  <2>4. InUse(1 - b)
    BY <1>1, <1>5, <1>7, <1>9, <1>11 DEF CleanEmpty, CleanFull, InUse, Types
  <2>5. \A a \in Blk : /\ (CleanFull(a)' <=> CleanFull(a)) /\ (InUse(a)' <=> InUse(a))
                       /\ CleanEmpty(a)' <=> CleanEmpty(a)
    BY <1>0, <2>1 DEF CleanFull, CleanEmpty, InUse
  <2>6. \A a \in Blk : Main(a)' <=> Main(a)
    BY <2>5, BlkProps DEF Main
  <2>7. FlashOK'
    BY <1>0, <1>1, <2>1, <2>5, BlkProps DEF FlashOK
  <2>8. BootOK'
    <3>1. ~Passed(b)' /\ ~CleanFull(1 - b)' /\ ~CleanEmpty(1 - b)'
      BY <1>5, <1>9, <1>11, <2>2, <2>3, <2>5 DEF Passed
    <3>2. \A a \in Blk : ~(Passed(a)' /\ CleanFull(a)') /\ ~(Passed(a)' /\ CleanEmpty(a)')
      BY <3>1, BlkProps
    <3>3. clean_blk_nums' = (IF Passed(0)' /\ CleanEmpty(0)' THEN 1 ELSE 0)
                          + (IF Passed(1)' /\ CleanEmpty(1)' THEN 1 ELSE 0)
      BY <1>0, <1>1, <1>11, <3>2, BlkProps DEF Types
    <3>4. boot'.unclean = {a \in Blk : Passed(a)' /\ CleanFull(a)'} /\ wblk' = 0
      BY <1>0, <1>3, <2>2, <3>2
    <3>5. /\ hdr'[b] \in {"clean", "erased"} /\ state'[b] = "clean"
          /\ hdr'[1 - b] \in {"used", "dirty"} /\ state'[1 - b] = hdr'[1 - b]
      BY <1>5, <1>7, <1>8, <2>1, <2>4 DEF InUse
    <3>. QED BY <2>2, <2>3, <3>3, <3>4, <3>5 DEF BootOK, InUse
  <2>9. \A a \in Blk : \A i \in Index(a) : Ahead(a, i) => Ahead(a, i)'
    BY <1>2 DEF Ahead
  <2>10. /\ hdr' \in [Blk -> {"erased", "clean", "used", "dirty"}]
         /\ state' \in [Blk -> {"none", "clean", "used", "dirty"}]
    BY <1>1, <2>1 DEF Types
  <2>. QED BY <1>0, <2>1, <2>2, <2>3, <2>5, <2>6, <2>7, <2>8, <2>9, <2>10, BootHeader
<1>. QED BY <1>10, <1>11

\* One block is always clean: there is none to format at the end.
LEMMA InitLast ==
    ASSUME Core, kv_init_last PROVE Core'
<1>0. boot.at = "unclean" /\ boot.unclean = {} /\ ~Up /\ BootOnly
      /\ UNCHANGED <<hdr, items, state, clean_blk_nums, wblk>>
  BY DEF kv_init_last, Up
<1>1. /\ Types /\ boot \in BootType /\ BootOK /\ FlashOK
  BY <1>0, BootProps DEF Core
<1>2. ~Scanning /\ ~Reformat /\ \A a \in Blk : Passed(a)
  BY <1>0 DEF Scanning, Reformat, Passed
<1>3. /\ {a \in Blk : Passed(a) /\ CleanFull(a)} = {}
      /\ clean_blk_nums = (IF Passed(0) /\ CleanEmpty(0) THEN 1 ELSE 0)
                        + (IF Passed(1) /\ CleanEmpty(1) THEN 1 ELSE 0)
      /\ wblk = 0
      /\ \A a \in Blk : state[a] = hdr[a] /\ hdr[a] # "erased"
  BY <1>0, <1>1 DEF BootOK
<1>4. \A a \in Blk : ~CleanFull(a)
  BY <1>2, <1>3
<1>5. CleanEmpty(0) \/ CleanEmpty(1)
  <2>1. \A a \in Blk : InUse(a) \/ CleanEmpty(a)
    BY <1>1, <1>3, <1>4 DEF InUse, CleanEmpty, CleanFull, Types
  <2>2. InUse(0) => ~InUse(1)
    BY <1>1, BlkProps DEF FlashOK
  <2>. QED BY <2>1, <2>2, BlkProps
<1>6. clean_blk_nums >= 1
  BY <1>2, <1>3, <1>5, BlkProps
<1>7. boot' = Boot("wpos", 0, 0, {})
  BY <1>6 DEF kv_init_last
<1>8. boot' \in BootType /\ boot'.at = "wpos" /\ boot'.unclean = {}
  BY <1>7, BlkProps, BootRecord
<1>9. ~Scanning' /\ ~Reformat' /\ ~Up'
  BY <1>8 DEF Scanning, Reformat, Up
<1>10. BootOK'
  <2>1. \A a \in Blk : Passed(a)' /\ (CleanFull(a)' <=> CleanFull(a))
                                  /\ (CleanEmpty(a)' <=> CleanEmpty(a))
    BY <1>0, <1>9 DEF Passed, CleanFull, CleanEmpty
  <2>2. clean_blk_nums' = (IF Passed(0)' /\ CleanEmpty(0)' THEN 1 ELSE 0)
                        + (IF Passed(1)' /\ CleanEmpty(1)' THEN 1 ELSE 0)
    BY <1>0, <1>2, <1>3, <2>1, BlkProps
  <2>3. boot'.unclean = {a \in Blk : Passed(a)' /\ CleanFull(a)'} /\ wblk' = 0
    BY <1>0, <1>3, <1>4, <1>8, <2>1
  <2>4. clean_blk_nums' >= 1 /\ \A a \in Blk : state'[a] = hdr'[a] /\ hdr'[a] # "erased"
    BY <1>0, <1>3, <1>6
  <2>. QED BY <1>8, <1>9, <2>2, <2>3, <2>4 DEF BootOK
<1>11. \A a \in Blk : \A i \in Index(a) : Ahead(a, i) => Ahead(a, i)'
  BY <1>2 DEF Ahead
<1>12. state' \in [Blk -> {"none", "clean", "used", "dirty"}]
  BY <1>0, <1>1 DEF Types
<1>. QED BY <1>0, <1>8, <1>9, <1>10, <1>11, <1>12, BootWalk

\* What starting a collection does to the types.
LEMMA TriggerProps ==
    ASSUME Types, trigger_gc \/ UNCHANGED trigVars
    PROVE  /\ gc' \in GcType /\ gc_triggered' \in BOOLEAN /\ gc_waiter' \in Nat
           /\ gc_triggered => gc' = gc /\ gc_triggered'
           /\ gc' = gc \/ gc'.at = "lock"
           /\ gc' # gc => gc_triggered'
           /\ ~gc_triggered' => gc' = gc /\ ~gc_triggered
<1>1. CASE UNCHANGED trigVars
  BY <1>1 DEF Types
<1>2. CASE trigger_gc /\ ~ UNCHANGED trigVars
  <2>1. ~gc_triggered /\ gc_triggered' = TRUE /\ gc_waiter' = 0 /\ gc' = Gc("lock", 0, 0, 0)
    BY <1>2 DEF trigger_gc
  <2>2. gc' \in GcType /\ gc'.at = "lock"
    BY <2>1, BlkProps DEF Gc, GcType
  <2>. QED BY <2>1, <2>2
<1>. QED BY <1>1, <1>2

\* The store is up: the one block in use is written to.
LEMMA InitWritePos ==
    ASSUME Core, kv_init_write_pos PROVE Core'
<1>0. /\ boot.at = "wpos" /\ ~Up /\ boot' = Boot("up", 0, 0, {})
      /\ trigger_gc \/ UNCHANGED trigVars
      /\ UNCHANGED <<items, gc_sem, tails, kv_mutex, client, allowed, at_risk>>
  BY DEF kv_init_write_pos, Up
<1>1. /\ Types /\ boot \in BootType /\ BootOK /\ FlashOK /\ ~gc_triggered /\ gc.at = "none"
      /\ kv_mutex = NULL /\ MarkOK /\ CrcOK /\ PairOK /\ ValOK
      /\ \A c \in Client : client[c].at = "none"
  BY <1>0, BootProps DEF Core
<1>2. ~Scanning /\ ~Reformat /\ \A a \in Blk : Passed(a)
  BY <1>0 DEF Scanning, Reformat, Passed
<1>3. /\ {a \in Blk : Passed(a) /\ CleanFull(a)} = {}
      /\ clean_blk_nums = (IF Passed(0) /\ CleanEmpty(0) THEN 1 ELSE 0)
                        + (IF Passed(1) /\ CleanEmpty(1) THEN 1 ELSE 0)
      /\ clean_blk_nums >= 1
      /\ \A a \in Blk : state[a] = hdr[a] /\ hdr[a] # "erased"
  BY <1>0, <1>1 DEF BootOK
<1>4. \A a \in Blk : ~CleanFull(a) /\ (InUse(a) \/ CleanEmpty(a)) /\ ~(InUse(a) /\ CleanEmpty(a))
  <2>1. \A a \in Blk : ~CleanFull(a)
    BY <1>2, <1>3
  <2>. QED BY <1>1, <1>3, <2>1 DEF InUse, CleanEmpty, CleanFull, Types
<1>5. boot' \in BootType /\ Up' /\ ~Scanning' /\ ~Reformat' /\ boot'.at = "up"
  BY <1>0, BlkProps, BootRecord DEF Up, Scanning, Reformat
<1>6. /\ gc' \in GcType /\ gc_triggered' \in BOOLEAN /\ gc_waiter' \in Nat
      /\ gc'.at \in {"none", "lock"} /\ (~gc_triggered' => gc'.at = "none")
  BY <1>0, <1>1, TriggerProps
<1>7. /\ wblk' \in Blk /\ clean_blk_nums' = 1
      /\ hdr' \in [Blk -> {"erased", "clean", "used", "dirty"}]
      /\ hdr' = state'
      /\ \/ InUse(wblk') /\ UNCHANGED hdr
         \/ wblk' = 0 /\ CleanEmpty(0) /\ hdr' = [hdr EXCEPT ![0] = "used"]
      /\ CleanEmpty(1 - wblk')
  <2>0. hdr = state
    BY <1>1, <1>3 DEF Types
  <2>1. CASE clean_blk_nums = 2
    <3>1. CleanEmpty(0) /\ CleanEmpty(1)
      BY <1>3, <2>1
    <3>2. /\ wblk' = 0 /\ hdr' = [hdr EXCEPT ![0] = "used"]
          /\ state' = [state EXCEPT ![0] = "used"] /\ clean_blk_nums' = 1
      BY <2>1 DEF kv_init_write_pos
    <3>. QED BY <1>1, <2>0, <3>1, <3>2, BlkProps DEF Types
  <2>2. CASE clean_blk_nums # 2
    <3>1. UNCHANGED <<hdr, state, clean_blk_nums>>
      BY <2>2 DEF kv_init_write_pos
    <3>2. clean_blk_nums = 1
      BY <1>1, <1>3, <2>2 DEF Types
    <3>3. PICK b \in Blk : CleanEmpty(1 - b) /\ ~CleanEmpty(b)
      <4>1. CASE CleanEmpty(0)
        <5>1. ~CleanEmpty(1)
          BY <1>2, <1>3, <3>2, <4>1, BlkProps
        <5>. QED BY <4>1, <5>1, BlkProps
      <4>2. CASE ~CleanEmpty(0)
        <5>1. CleanEmpty(1)
          BY <1>2, <1>3, <3>2, <4>2, BlkProps
        <5>. QED BY <4>2, <5>1, BlkProps
      <4>. QED BY <4>1, <4>2
    <3>4. InUse(b) /\ state[b] # "clean" /\ state[1 - b] = "clean" /\ 1 - b \in Blk
      BY <1>3, <1>4, <3>3, BlkProps DEF InUse, CleanEmpty
    <3>5. {a \in Blk : state[a] # "clean" /\ state[1 - a] = "clean"} = {b}
      BY <3>4, BlkProps
    <3>6. wblk' = Min({b})
      BY <2>2, <3>5 DEF kv_init_write_pos
    <3>7. wblk' = b
      BY <3>6, BlkProps DEF Min
    <3>. QED BY <1>1, <2>0, <3>1, <3>2, <3>3, <3>4, <3>7 DEF Types
  <2>. QED BY <2>1, <2>2
<1>. PICK w \in Blk : w = wblk'
  BY <1>7
<1>8. /\ InUse(w)' /\ CleanEmpty(1 - w)' /\ ~CleanFull(w)' /\ ~CleanFull(1 - w)' /\ ~InUse(1 - w)'
      /\ 1 - w \in Blk
  <2>1. hdr'[w] \in {"used", "dirty"} /\ hdr'[1 - w] = "clean" /\ items'[1 - w] = <<>> /\ 1 - w \in Blk
    BY <1>0, <1>1, <1>7, BlkProps DEF InUse, CleanEmpty, Types
  <2>. QED BY <2>1 DEF InUse, CleanEmpty, CleanFull
<1>9. Types'
  <2>1. state' \in [Blk -> {"none", "clean", "used", "dirty"}]
    <3>1. \A a \in Blk : hdr'[a] # "erased"
      BY <1>8, BlkProps DEF InUse, CleanEmpty
    <3>. QED BY <1>7, <3>1
  <2>2. /\ items' \in [Blk -> Seq(ItemType)] /\ \A b \in Blk : Len(items'[b]) <= Cap
        /\ \A b \in Blk : \A i \in Index(b)' : items'[b][i].crc => items'[b][i].val \in Val
        /\ gc_sem' \in Nat /\ tails' \in Nat
        /\ kv_mutex' \in Client \cup {"gc", NULL}
        /\ client' \in [Client -> ClientType]
        /\ \A c \in Client : client'[c].at # "none" => client'[c].key \in Key
        /\ allowed' \in [Key -> SUBSET (Val \cup {NoVal})]
    BY <1>0, <1>1 DEF Types, Index
  <2>. QED BY <1>5, <1>6, <1>7, <2>1, <2>2 DEF Types
<1>10. Mutexed'
  BY <1>0, <1>1, <1>5, <1>6, Values DEF Mutexed, Holding, GcHolding
<1>11. FlashOK'
  BY <1>8, BlkProps DEF FlashOK, InUse, CleanEmpty
<1>12. BootOK'
  BY <1>5 DEF BootOK
<1>13. GcOK'
  <2>1. hdr' = state' /\ InUse(wblk)' /\ CleanEmpty(1 - wblk)' /\ clean_blk_nums' = 1
    BY <1>7, <1>8 DEF InUse, CleanEmpty
  <2>2. Idle'
    BY <2>1 DEF Idle
  <2>. QED BY <1>6, <2>2 DEF GcOK
<1>14. \A b \in Blk : \A i \in Index(b) : ~Ahead(b, i)
  BY <1>2 DEF Ahead
<1>15. MarkOK'
  <2>1. \A b \in Blk : \A i \in Index(b) : hdr'[b] = "used" => hdr[b] = "used" \/ Index(b) = {}
    BY <1>1, <1>7, BlkProps, EmptyProps DEF Types, CleanEmpty
  <2>2. \A b \in Blk : \A i \in Index(b) : hdr[b] = "used" => Normal(b, i)
    BY <1>0, <1>1, <1>14 DEF MarkOK
  <2>. QED BY <1>0, <2>1, <2>2 DEF MarkOK, Index, Normal
<1>16. CrcOK'
  BY <1>0, <1>1, <1>14 DEF CrcOK, Index, Normal
<1>17. PairOK'
  BY <1>0, <1>1, <1>14 DEF PairOK, Index, Normal
<1>18. HoldOK'
  BY <1>0, <1>1 DEF HoldOK
<1>19. ValOK'
  <2>1. Main(w)' /\ ~Main(1 - w)' /\ \A b \in Blk : b = w \/ b = 1 - w
    BY <1>8, BlkProps DEF Main
  <2>2. \A k \in Key : Live(w, k)' = Live(w, k)
    BY <1>0, <1>1, SameItems
  <2>3. ~Main(1 - w)
    BY <1>4, <1>7, <1>8, BlkProps DEF Main
  <2>4. Main(w) \/ \A k \in Key : Live(w, k) = {}
    <3>1. CASE InUse(w)
      BY <3>1 DEF Main
    <3>2. CASE CleanEmpty(w)
      BY <1>1, <3>2, EmptyProps DEF Live, Has, CleanEmpty
    <3>. QED BY <1>4, <3>1, <3>2
  <2>. QED BY <1>0, <1>1, <2>1, <2>2, <2>3, <2>4 DEF ValOK
<1>20. RiskOK'
  BY <1>5 DEF RiskOK
<1>. QED BY <1>9, <1>10, <1>11, <1>12, <1>13, <1>15, <1>16, <1>17, <1>18, <1>19, <1>20 DEF Core
-----------------------------------------------------------------------------
(***************************************************************************)
(* Steps that leave the store alone.                                       *)
(***************************************************************************)
Working == {"copy", "format", "used"}

\* A step that leaves flash, blocks and kv_init alone, and the calls that hold the mutex.
LEMMA Quiet ==
    ASSUME Core, Types', Mutexed',
           UNCHANGED <<hdr, items, state, clean_blk_nums, wblk, boot, allowed, at_risk>>,
           gc' = gc \/ (gc.at \notin Working /\ gc'.at \notin Working),
           \A c \in Client : client[c].at \in Holding \/ client'[c].at \in Holding =>
                               client'[c] = client[c]
    PROVE  Core'
<1>0. FlashOK /\ BootOK /\ GcOK /\ MarkOK /\ CrcOK /\ PairOK /\ HoldOK /\ ValOK /\ RiskOK
  BY DEF Core
<1>1. \A b \in Blk : \A i \in Index(b) : Ahead(b, i)' <=> Ahead(b, i)
  BY DEF Ahead, Scanning
<1>2. FlashOK'
  BY <1>0 DEF FlashOK, InUse, CleanFull
<1>3. BootOK'
  BY <1>0 DEF BootOK, Up, Passed, Scanning, Reformat, CleanFull, CleanEmpty, InUse, Normal
<1>4. GcOK'
  <2>1. (Up' <=> Up) /\ (Idle' <=> Idle)
    BY DEF Up, Idle, InUse, CleanEmpty
  <2>2. CASE gc' = gc
    <3>1. CopyOK' <=> CopyOK
      BY <2>2 DEF CopyOK, Index, Normal
    <3>. QED BY <1>0, <2>1, <2>2, <3>1 DEF GcOK, CleanEmpty, Index, Normal
  <2>3. CASE gc.at \notin Working /\ gc'.at \notin Working
    BY <1>0, <2>1, <2>3 DEF GcOK, Working
  <2>. QED BY <2>2, <2>3
<1>5. \A c \in Client : /\ client[c].at = "dirty" => client'[c].at = "dirty"
                        /\ client[c].at = "delete" => client'[c] = client[c]
  BY DEF Holding
<1>6. MarkOK'
  BY <1>0, <1>1, <1>5 DEF MarkOK, Index, Normal
<1>7. CrcOK'
  BY <1>0, <1>1 DEF CrcOK, Index, Normal
<1>8. PairOK'
  <2>. SUFFICES ASSUME NEW b \in Blk, NEW i \in Index(b), NEW j \in Index(b),
                       i < j, Normal(b, i), Normal(b, j), items[b][i].key = items[b][j].key
                PROVE  /\ ~items[b][j].crc \/ items[b][j].origin = <<b, i>>
                       /\ \/ Ahead(b, j)'
                          \/ \E c \in Client : client'[c].at = "delete" /\ client'[c].old = <<b, i>>
    <3>1. \A b \in Blk : Index(b)' = Index(b) /\ \A i \in Index(b) : Normal(b, i)' <=> Normal(b, i)
      BY DEF Index, Normal
    <3>. QED BY <3>1 DEF PairOK
  <2>1. /\ ~items[b][j].crc \/ items[b][j].origin = <<b, i>>
        /\ \/ Ahead(b, j)
           \/ \E c \in Client : client[c].at = "delete" /\ client[c].old = <<b, i>>
    BY <1>0 DEF PairOK
  <2>. QED BY <1>1, <1>5, <2>1
<1>9. HoldOK'
  <2>. SUFFICES ASSUME NEW c \in Client, client'[c].at \in Holding
                PROVE  /\ client'[c].at = "store" =>
                            StoreOK(client[c].key, client[c].val, client[c].old)'
                       /\ client'[c].at = "delete" =>
                            DeleteOK(client[c].key, client[c].val, client[c].old)'
                       /\ client'[c].at = "dirty" => state'[wblk'] = "used" /\ client'[c].old[1] = wblk'
                       /\ client'[c].at \in {"dirty", "unlock"} =>
                            Settled(client[c].key, client[c].val)'
    BY DEF HoldOK, Holding
  <2>1. client'[c] = client[c]
    OBVIOUS
  <2>2. /\ client[c].at = "store" => StoreOK(client[c].key, client[c].val, client[c].old)
        /\ client[c].at = "delete" => DeleteOK(client[c].key, client[c].val, client[c].old)
        /\ client[c].at = "dirty" => state[wblk] = "used" /\ client[c].old[1] = wblk
        /\ client[c].at \in {"dirty", "unlock"} => Settled(client[c].key, client[c].val)
    BY <1>0 DEF HoldOK
  <2>. QED BY <2>1, <2>2 DEF StoreOK, DeleteOK, Settled, Has, Index, Normal
<1>10. ValOK'
  BY <1>0 DEF ValOK, Main, InUse, CleanFull, Live, Has, Index, Normal
<1>11. RiskOK'
  BY <1>0 DEF RiskOK, Up, InUse, Index, Normal
<1>. QED BY <1>2, <1>3, <1>4, <1>6, <1>7, <1>8, <1>9, <1>10, <1>11 DEF Core

\* A step of a client, seen from the types.
LEMMA ClientTypes ==
    ASSUME Core, NEW c \in Client, NEW r \in ClientType, r.at # "none" => r.key \in Key,
           client' = [client EXCEPT ![c] = r],
           UNCHANGED <<hdr, items, state, clean_blk_nums, wblk, boot, allowed>>,
           gc_triggered' \in BOOLEAN, gc_waiter' \in Nat, gc_sem' \in Nat, tails' \in Nat,
           kv_mutex' \in Client \cup {"gc", NULL}, gc' \in GcType
    PROVE  Types'
<1>1. /\ hdr' \in [Blk -> {"erased", "clean", "used", "dirty"}]
      /\ items' \in [Blk -> Seq(ItemType)] /\ \A b \in Blk : Len(items'[b]) <= Cap
      /\ \A b \in Blk : \A i \in Index(b)' : items'[b][i].crc => items'[b][i].val \in Val
      /\ state' \in [Blk -> {"none", "clean", "used", "dirty"}]
      /\ clean_blk_nums' \in 0 .. 2 /\ wblk' \in Blk
      /\ boot' \in BootType
      /\ allowed' \in [Key -> SUBSET (Val \cup {NoVal})]
  BY DEF Core, Types, Index
<1>2. client' \in [Client -> ClientType]
  BY DEF Core, Types
<1>3. \A u \in Client : client'[u].at # "none" => client'[u].key \in Key
  BY DEF Core, Types
<1>. QED BY <1>1, <1>2, <1>3 DEF Types

\* A client that does not hold the mutex goes to another place on its way to it.
LEMMA ClientMoves ==
    ASSUME Core, NEW c \in Client, NEW r \in ClientType, client[c].at \notin Holding,
           r.at \notin Holding, r.at # "none" => r.key \in Key, Up,
           client' = [client EXCEPT ![c] = r],
           UNCHANGED <<hdr, items, state, clean_blk_nums, wblk, boot, allowed, at_risk,
                       kv_mutex, gc, gc_triggered, tails>>,
           gc_waiter' \in Nat, gc_sem' \in Nat
    PROVE  Core'
<1>0. Types /\ Mutexed
  BY DEF Core
<1>1. Types'
  BY <1>0, ClientTypes DEF Types
<1>2. /\ client'[c] = r /\ \A u \in Client : u # c => client'[u] = client[u]
  BY <1>0 DEF Types
<1>3. Up'
  BY DEF Up
<1>4. Mutexed'
  BY <1>0, <1>2, <1>3 DEF Mutexed
<1>5. \A u \in Client : client[u].at \in Holding \/ client'[u].at \in Holding =>
                               client'[u] = client[u]
  BY <1>2
<1>. QED BY <1>1, <1>4, <1>5, Quiet

\* The calls, the wait for a collection and the end of one.
LEMMA QuietSteps ==
    ASSUME Core, NEW c \in Client,
           aos_kv_set(c) \/ aos_kv_del(c) \/ gc_waiter_load(c) \/ gc_waiter_store(c)
             \/ gc_sem_wait(c)
    PROVE  Core'
<1>0. /\ client \in [Client -> ClientType] /\ client[c] \in ClientType
      /\ client[c].n \in Nat /\ gc_waiter \in Nat /\ gc_sem \in Nat
      /\ client[c].at # "none" => client[c].key \in Key
  BY DEF Core, Types, ClientType
<1>1. CASE aos_kv_set(c) \/ aos_kv_del(c)
  <2>1. \E at \in {"load", "lock"}, k \in Key, v \in Val \cup {NoVal} : Call(c, Op(at, k, v))
    <3>1. CASE aos_kv_set(c)
      <4>1. PICK k \in Key, v \in Val : Call(c, Op(IF gc_triggered THEN "load" ELSE "lock", k, v))
        BY <3>1 DEF aos_kv_set
      <4>2. CASE gc_triggered
        BY <4>1, <4>2
      <4>3. CASE ~gc_triggered
        BY <4>1, <4>3
      <4>. QED BY <4>2, <4>3
    <3>2. CASE aos_kv_del(c)
      BY <3>2 DEF aos_kv_del
    <3>. QED BY <1>1, <3>1, <3>2
  <2>2. PICK at \in {"load", "lock"}, k \in Key, v \in Val \cup {NoVal} : Call(c, Op(at, k, v))
    BY <2>1
  <2>3. Op(at, k, v) \in ClientType /\ Op(at, k, v).at = at /\ Op(at, k, v).key = k
    BY Values DEF Op, ClientType, ClientPlace
  <2>. HIDE DEF Op
  <2>4. /\ client[c].at = "none" /\ Up /\ client' = [client EXCEPT ![c] = Op(at, k, v)]
        /\ UNCHANGED <<hdr, items, state, clean_blk_nums, wblk, boot, allowed, at_risk,
                       kv_mutex, gc, gc_triggered, tails, gc_waiter, gc_sem>>
    BY <2>2 DEF Call, ClientAt
  <2>. QED BY <1>0, <2>3, <2>4, ClientMoves DEF Holding
<1>2. CASE gc_waiter_load(c)
  <2>. DEFINE r == [client[c] EXCEPT !.at = "count", !.n = gc_waiter]
  <2>1. /\ client[c].at = "load" /\ Up /\ client' = [client EXCEPT ![c] = r]
        /\ UNCHANGED <<hdr, items, state, clean_blk_nums, wblk, boot, allowed, at_risk,
                       kv_mutex, gc, gc_triggered, tails, gc_waiter, gc_sem>>
    BY <1>0, <1>2 DEF gc_waiter_load, ClientAt, ClientOnly
  <2>2. r \in ClientType /\ r.at = "count" /\ r.key = client[c].key
    BY <1>0 DEF ClientType, ClientPlace
  <2>. HIDE DEF r
  <2>. QED BY <1>0, <2>1, <2>2, ClientMoves DEF Holding
<1>3. CASE gc_waiter_store(c)
  <2>. DEFINE r == [client[c] EXCEPT !.at = "sem", !.n = 0]
  <2>1. /\ client[c].at = "count" /\ Up /\ client' = [client EXCEPT ![c] = r]
        /\ gc_waiter' = client[c].n + 1
        /\ UNCHANGED <<hdr, items, state, clean_blk_nums, wblk, boot, allowed, at_risk,
                       kv_mutex, gc, gc_triggered, tails, gc_sem>>
    BY <1>0, <1>3 DEF gc_waiter_store, ClientAt, ClientOnly
  <2>2. r \in ClientType /\ r.at = "sem" /\ r.key = client[c].key
    BY <1>0 DEF ClientType, ClientPlace
  <2>3. gc_waiter' \in Nat
    BY <1>0, <2>1
  <2>. HIDE DEF r
  <2>. QED BY <1>0, <2>1, <2>2, <2>3, ClientMoves DEF Holding
<1>4. CASE gc_sem_wait(c)
  <2>1. PICK at \in {"lock", "wait"} : client' = [client EXCEPT ![c].at = at]
    BY <1>4 DEF gc_sem_wait, Goto
  <2>. DEFINE r == [client[c] EXCEPT !.at = at]
  <2>2. /\ client[c].at = "sem" /\ Up /\ client' = [client EXCEPT ![c] = r]
        /\ UNCHANGED <<hdr, items, state, clean_blk_nums, wblk, boot, allowed, at_risk,
                       kv_mutex, gc, gc_triggered, tails, gc_waiter>>
    BY <1>0, <1>4, <2>1 DEF gc_sem_wait, ClientAt, ClientOnly
  <2>3. r \in ClientType /\ r.at = at /\ r.key = client[c].key
    BY <1>0 DEF ClientType, ClientPlace
  <2>4. gc_sem' \in Nat
    BY <1>0, <1>4 DEF gc_sem_wait
  <2>. HIDE DEF r
  <2>. QED BY <1>0, <2>2, <2>3, <2>4, ClientMoves DEF Holding
<1>. QED BY <1>1, <1>2, <1>3, <1>4

\* The collector returns: nobody copies any more.
LEMMA GcExit ==
    ASSUME Core, gc_exit PROVE Core'
<1>0. /\ gc.at = "exit" /\ gc_triggered' = FALSE /\ kv_mutex' = NULL /\ gc' = NoGc
      /\ tails' = tails + 1
      /\ UNCHANGED <<hdr, items, state, clean_blk_nums, wblk, boot, allowed, at_risk, client,
                     gc_waiter, gc_sem>>
  BY DEF gc_exit, GcOnly
<1>1. Types /\ Mutexed /\ tails \in Nat
  BY DEF Core, Types
<1>2. gc' \in GcType /\ gc'.at = "none"
  BY <1>0, BlkProps DEF NoGc, Gc, GcType
<1>3. Types'
  <2>1. tails' \in Nat
    BY <1>0, <1>1
  <2>2. gc_triggered' \in BOOLEAN /\ kv_mutex' \in Client \cup {"gc", NULL}
    BY <1>0
  <2>. QED BY <1>0, <1>1, <1>2, <2>1, <2>2 DEF Types, Index
<1>4. Mutexed'
  <2>1. Up /\ kv_mutex = "gc"
    BY <1>0, <1>1, Values DEF Mutexed, GcHolding
  <2>2. \A c \in Client : client[c].at \notin Holding
    BY <1>1, <2>1, Values DEF Mutexed
  <2>3. Up'
    BY <1>0, <2>1 DEF Up
  <2>. QED BY <1>0, <1>2, <2>2, <2>3, Values DEF Mutexed, GcHolding
<1>. QED BY <1>0, <1>2, <1>3, <1>4, Quiet DEF Working

\* The collector signals the tasks that wait.
LEMMA GcSignal ==
    ASSUME Core, gc_signal PROVE Core'
<1>. DEFINE W == IF gc_waiter > 0 THEN Waiting ELSE {}
<1>0. /\ UNCHANGED <<hdr, items, state, clean_blk_nums, wblk, boot, allowed, at_risk,
                     gc_waiter, gc_triggered, gc, kv_mutex>>
      /\ tails > 0 /\ tails' = tails - 1
      /\ gc_sem' = IF gc_waiter > 0 /\ Waiting = {} THEN gc_sem + 1 ELSE gc_sem
      /\ Wake(W)
  BY DEF gc_signal
<1>1. Types /\ Mutexed /\ tails \in Nat /\ gc_sem \in Nat /\ client \in [Client -> ClientType]
  BY DEF Core, Types
<1>2. \A c \in W : client[c].at = "wait"
  BY DEF Waiting
<1>3. client' = [c \in Client |-> IF c \in W THEN [client[c] EXCEPT !.at = "lock"] ELSE client[c]]
  BY <1>0 DEF Wake
<1>. HIDE DEF W
<1>4. \A c \in Client : \/ client'[c] = client[c]
                        \/ /\ client[c].at = "wait" /\ client'[c].at = "lock"
                           /\ client'[c] \in ClientType /\ client'[c].key = client[c].key
  <2>. TAKE c \in Client
  <2>1. CASE c \in W
    <3>1. client'[c] = [client[c] EXCEPT !.at = "lock"] /\ client[c].at = "wait"
      BY <1>2, <1>3, <2>1
    <3>2. client[c] \in ClientType
      BY <1>1
    <3>. QED BY <3>1, <3>2 DEF ClientType, ClientPlace
  <2>2. CASE c \notin W
    BY <1>3, <2>2
  <2>. QED BY <2>1, <2>2
<1>5. client' \in [Client -> ClientType]
  <2>1. \A c \in Client : client'[c] \in ClientType
    BY <1>1, <1>4
  <2>2. client' = [c \in Client |-> client'[c]]
    BY <1>3
  <2>. QED BY <2>1, <2>2
<1>6. Types'
  <2>1. tails' \in Nat /\ gc_sem' \in Nat
    BY <1>0, <1>1
  <2>2. \A c \in Client : client'[c].at # "none" => client'[c].key \in Key
    BY <1>1, <1>4 DEF Types
  <2>. QED BY <1>0, <1>1, <1>5, <2>1, <2>2 DEF Types, Index
<1>7. Mutexed'
  <2>1. \A c \in Client : (client'[c].at \in Holding <=> client[c].at \in Holding)
                          /\ (client[c].at = "none" => client'[c].at = "none")
    BY <1>4 DEF Holding
  <2>2. Up' <=> Up
    BY <1>0 DEF Up
  <2>. QED BY <1>0, <1>1, <2>1, <2>2 DEF Mutexed
<1>8. \A c \in Client : client[c].at \in Holding \/ client'[c].at \in Holding =>
                               client'[c] = client[c]
  BY <1>4 DEF Holding
<1>. QED BY <1>0, <1>6, <1>7, <1>8, Quiet
-----------------------------------------------------------------------------
(***************************************************************************)
(* aos_kv_set and aos_kv_del.                                              *)
(***************************************************************************)
\* When the collector does not hold the mutex, one block is in use.
LEMMA IdleProps ==
    ASSUME Core, Up, kv_mutex # "gc"
    PROVE  /\ Idle /\ gc.at \in {"none", "lock"} /\ wblk \in Blk /\ 1 - wblk \in Blk
           /\ hdr = state /\ InUse(wblk) /\ ~InUse(1 - wblk) /\ CleanEmpty(1 - wblk)
           /\ hdr[1 - wblk] = "clean" /\ items[1 - wblk] = <<>> /\ Index(1 - wblk) = {}
           /\ clean_blk_nums = 1 /\ ~CleanFull(wblk) /\ ~CleanFull(1 - wblk)
           /\ Main(wblk) /\ ~Main(1 - wblk) /\ \A b \in Blk : b = wblk \/ b = 1 - wblk
<1>1. Types /\ Mutexed /\ GcOK /\ wblk \in Blk /\ 1 - wblk \in Blk /\ gc \in GcType
  BY BlkProps DEF Core, Types
<1>2. gc.at \notin GcHolding /\ gc.at \in {"none", "lock"}
  BY <1>1 DEF Mutexed, GcType
<1>3. Idle
  BY <1>1, <1>2 DEF GcOK
<1>4. hdr = state /\ InUse(wblk) /\ CleanEmpty(1 - wblk) /\ clean_blk_nums = 1
  BY <1>3 DEF Idle
<1>5. hdr[1 - wblk] = "clean" /\ items[1 - wblk] = <<>>
  BY <1>4 DEF CleanEmpty
<1>6. Index(1 - wblk) = {}
  BY <1>1, <1>5, EmptyProps
<1>7. ~InUse(1 - wblk) /\ ~CleanFull(1 - wblk) /\ ~CleanFull(wblk)
  BY <1>4, <1>5 DEF InUse, CleanFull
<1>8. Main(wblk) /\ ~Main(1 - wblk)
  BY <1>4, <1>7 DEF Main
<1>. QED BY <1>1, <1>2, <1>3, <1>4, <1>5, <1>6, <1>7, <1>8, BlkProps

\* Nothing is ahead of kv_init when it is done.
LEMMA UpProps ==
    ASSUME Up PROVE ~Scanning /\ ~Reformat /\ \A b, i : ~Ahead(b, i)
BY DEF Up, Scanning, Reformat, Ahead

\* When nobody holds the mutex no key has two items, and every item is good.
LEMMA GetProps ==
    ASSUME Core, Up, kv_mutex = NULL, NEW k \in Key
    PROVE  /\ Found(k) = {<<wblk, i>> : i \in Has(wblk, k)}
           /\ Live(wblk, k) = Has(wblk, k)
           /\ \/ Has(wblk, k) = {} /\ kv_item_get(k) = NULL /\ aos_kv_get(k) = NoVal
              \/ \E i \in Index(wblk) :
                   /\ Has(wblk, k) = {i} /\ kv_item_get(k) = <<wblk, i>>
                   /\ aos_kv_get(k) = items[wblk][i].val /\ items[wblk][i].val \in Val
<1>0. /\ wblk \in Blk /\ 1 - wblk \in Blk /\ hdr = state /\ InUse(wblk) /\ state[1 - wblk] = "clean"
      /\ state[wblk] # "clean" /\ \A b \in Blk : b = wblk \/ b = 1 - wblk
  BY IdleProps, Values DEF InUse
<1>1. Types /\ Mutexed /\ CrcOK /\ PairOK
  BY DEF Core
<1>2. \A b, i : ~Ahead(b, i)
  BY UpProps
<1>3. \A c \in Client : client[c].at \notin Holding
  BY <1>1, Values DEF Mutexed
<1>4. Found(k) = {<<wblk, i>> : i \in Has(wblk, k)}
  <2>1. ASSUME NEW p \in Found(k) PROVE p \in {<<wblk, i>> : i \in Has(wblk, k)}
    <3>1. p \in Places /\ state[p[1]] # "clean" /\ At(p).state = "normal" /\ At(p).key = k
      BY <2>1 DEF Found
    <3>2. PICK b \in Blk, i \in 1 .. Cap : p = <<b, i>>
      BY <3>1 DEF Places
    <3>3. /\ i <= Len(items[b]) /\ state[b] # "clean" /\ items[b][i].state = "normal"
          /\ items[b][i].key = k
      BY <3>1, <3>2 DEF Places, At
    <3>4. b = wblk /\ i \in Has(wblk, k)
      BY <1>0, <1>1, <3>3, EmptyProps DEF Has, Index, Normal
    <3>. QED BY <3>2, <3>4
  <2>2. ASSUME NEW i \in Has(wblk, k) PROVE <<wblk, i>> \in Found(k)
    <3>1. i \in 1 .. Cap /\ i <= Len(items[wblk]) /\ items[wblk][i].state = "normal"
          /\ items[wblk][i].key = k
      BY <1>0, <1>1, <2>2, EmptyProps, Values DEF Has, Index, Normal, Types
    <3>2. <<wblk, i>> \in Places /\ At(<<wblk, i>>) = items[wblk][i]
      BY <1>0, <3>1 DEF Places, At
    <3>. QED BY <1>0, <3>1, <3>2 DEF Found
  <2>. QED BY <2>1, <2>2
<1>5. Live(wblk, k) = Has(wblk, k)
  BY <1>0, <1>1, <1>2 DEF Live, Has, CrcOK
<1>6. CASE Has(wblk, k) = {}
  <2>1. Found(k) = {}
    BY <1>4, <1>6
  <2>2. kv_item_get(k) = NULL /\ aos_kv_get(k) = NoVal
    BY <2>1 DEF kv_item_get, aos_kv_get
  <2>. QED BY <1>4, <1>5, <1>6, <2>2
<1>7. CASE Has(wblk, k) # {}
  <2>1. PICK i \in Has(wblk, k) : TRUE
    BY <1>7
  <2>2. ASSUME NEW j \in Has(wblk, k), j # i PROVE FALSE
    <3>1. /\ i \in Index(wblk) /\ j \in Index(wblk) /\ Normal(wblk, i) /\ Normal(wblk, j)
          /\ items[wblk][i].key = items[wblk][j].key
      BY <2>1 DEF Has
    <3>2. i < j \/ j < i
      BY <2>2, <3>1 DEF Index
    <3>3. \A c \in Client : client[c].at # "delete"
      BY <1>3 DEF Holding
    <3>. QED BY <1>0, <1>1, <1>2, <3>1, <3>2, <3>3 DEF PairOK
  <2>3. Has(wblk, k) = {i} /\ i \in Index(wblk)
    BY <2>1, <2>2 DEF Has
  <2>4. Found(k) = {<<wblk, i>>}
    BY <1>4, <2>3
  <2>5. kv_item_get(k) = <<wblk, i>>
    <3>1. Before(<<wblk, i>>, <<wblk, i>>)
      BY <1>0, <2>3 DEF Before, Index
    <3>. QED BY <2>4, <3>1 DEF kv_item_get
  <2>6. <<wblk, i>> # NULL
    BY <1>0, <1>1, <2>3, EmptyProps, Values DEF Index, Types
  <2>7. aos_kv_get(k) = items[wblk][i].val
    BY <2>5, <2>6 DEF aos_kv_get, At
  <2>8. items[wblk][i].crc
    BY <1>5, <2>1 DEF Live
  <2>9. items[wblk][i].val \in Val
    BY <1>0, <1>1, <2>3, <2>8 DEF Types
  <2>. QED BY <1>4, <1>5, <2>3, <2>5, <2>7, <2>9
<1>. QED BY <1>6, <1>7

\* The holder of the mutex is alone.
LEMMA HolderProps ==
    ASSUME Core, NEW c \in Client, client[c].at \in Holding
    PROVE  /\ Up /\ kv_mutex = c /\ kv_mutex # "gc"
           /\ \A u \in Client : u # c => client[u].at \notin Holding
           /\ client \in [Client -> ClientType] /\ client[c] \in ClientType
           /\ client[c].key \in Key /\ client[c].val \in Val \cup {NoVal}
           /\ client[c].old \in Place
<1>1. Mutexed /\ Types
  BY DEF Core
<1>2. /\ client \in [Client -> ClientType] /\ client[c] \in ClientType
      /\ client[c].key \in Key
  BY <1>1 DEF Types, Holding
<1>3. client[c].val \in Val \cup {NoVal} /\ client[c].old \in Place
  BY <1>2 DEF ClientType
<1>4. kv_mutex = c
  BY <1>1 DEF Mutexed
<1>5. Up
  BY <1>1, <1>4, Values DEF Mutexed
<1>. QED BY <1>1, <1>2, <1>3, <1>4, <1>5, Values DEF Mutexed

\* What a call begins to do: write, delete, or return.
LEMMA BeginStep ==
    ASSUME Core, NEW c \in Client, Lock(c), trigger_gc \/ UNCHANGED trigVars,
           NEW at \in {"store", "delete", "unlock"}, NEW v \in Val \cup {NoVal},
           Begin(c, at, v),
           at = "store" => v \in Val /\ HasRoom,
           at = "delete" => v = NoVal /\ kv_item_get(client[c].key) # NULL,
           at = "unlock" => v = aos_kv_get(client[c].key)
    PROVE  Core'
<1>0. /\ client[c].at = "lock" /\ Up /\ kv_mutex = NULL /\ kv_mutex' = c
      /\ UNCHANGED <<hdr, items, state, clean_blk_nums, wblk, gc_sem, tails, boot, at_risk>>
  BY DEF Lock, ClientAt
<1>1. Types /\ Mutexed /\ FlashOK /\ BootOK /\ MarkOK /\ CrcOK /\ PairOK /\ ValOK /\ RiskOK
  BY DEF Core
<1>2. PICK k \in Key : k = client[c].key
  BY <1>0, <1>1 DEF Types
<1>3. PICK o : o = kv_item_get(k)
  OBVIOUS
<1>4. PICK now : now = aos_kv_get(k)
  OBVIOUS
<1>. PICK w \in Blk : w = wblk
  BY <1>1 DEF Types
<1>5. /\ Live(w, k) = Has(w, k)
      /\ \/ Has(w, k) = {} /\ o = NULL /\ now = NoVal
         \/ \E i \in Index(w) :
               /\ Has(w, k) = {i} /\ o = <<w, i>>
               /\ now = items[w][i].val /\ items[w][i].val \in Val
  BY <1>0, <1>3, <1>4, GetProps
<1>6. /\ hdr = state /\ InUse(w) /\ CleanEmpty(1 - w) /\ gc.at \in {"none", "lock"} /\ Idle
      /\ 1 - w \in Blk /\ Main(w) /\ ~Main(1 - w) /\ \A b \in Blk : b = w \/ b = 1 - w
  BY <1>0, IdleProps, Values
<1>7. /\ client' = [client EXCEPT ![c].at = at, ![c].val = v, ![c].old = o]
      /\ allowed' = [allowed EXCEPT ![k] = {now, v}]
  BY <1>2, <1>3, <1>4 DEF Begin
<1>8. o \in Place /\ now \in Val \cup {NoVal}
  BY <1>1, <1>5, Values, EmptyProps DEF Index, Types
<1>9. /\ client \in [Client -> ClientType] /\ client' \in [Client -> ClientType]
      /\ client'[c].at = at /\ client'[c].val = v /\ client'[c].old = o /\ client'[c].key = k
      /\ \A u \in Client : u # c => client'[u] = client[u]
  <2>1. client \in [Client -> ClientType]
    BY <1>1 DEF Types
  <2>. DEFINE r == [client[c] EXCEPT !.at = at, !.val = v, !.old = o]
  <2>2. client' = [client EXCEPT ![c] = r]
    BY <1>7, <2>1
  <2>3. r \in ClientType /\ r.at = at /\ r.val = v /\ r.old = o /\ r.key = k
    BY <1>2, <1>8, <2>1 DEF ClientType, ClientPlace
  <2>. HIDE DEF r
  <2>. QED BY <2>1, <2>2, <2>3
<1>10. /\ allowed' \in [Key -> SUBSET (Val \cup {NoVal})] /\ allowed'[k] = {now, v}
       /\ \A q \in Key : q # k => allowed'[q] = allowed[q]
  BY <1>1, <1>7, <1>8 DEF Types
<1>11. /\ gc' \in GcType /\ gc_triggered' \in BOOLEAN /\ gc_waiter' \in Nat
       /\ gc'.at \in {"none", "lock"} /\ (~gc_triggered' => gc'.at = "none")
  <2>1. ~gc_triggered => gc.at = "none"
    BY <1>1 DEF Mutexed
  <2>. QED BY <1>1, <1>6, <2>1, TriggerProps
<1>12. Types'
  <2>1. \A u \in Client : client'[u].at # "none" => client'[u].key \in Key
    BY <1>1, <1>9 DEF Types
  <2>2. /\ hdr' \in [Blk -> {"erased", "clean", "used", "dirty"}]
        /\ items' \in [Blk -> Seq(ItemType)] /\ \A b \in Blk : Len(items'[b]) <= Cap
        /\ \A b \in Blk : \A i \in Index(b)' : items'[b][i].crc => items'[b][i].val \in Val
        /\ state' \in [Blk -> {"none", "clean", "used", "dirty"}]
        /\ clean_blk_nums' \in 0 .. 2 /\ wblk' \in Blk
        /\ boot' \in BootType /\ gc_sem' \in Nat /\ tails' \in Nat
    BY <1>0, <1>1 DEF Types, Index
  <2>3. kv_mutex' \in Client \cup {"gc", NULL}
    BY <1>0
  <2>. QED BY <1>9, <1>10, <1>11, <2>1, <2>2, <2>3 DEF Types
<1>13. Up' /\ (\A b, i : ~Ahead(b, i)) /\ \A b, i : ~Ahead(b, i)'
  <2>1. Up'
    BY <1>0 DEF Up
  <2>. QED BY <1>0, <2>1 DEF Up, Ahead, Scanning
<1>14. \A u \in Client : client[u].at \notin Holding
  BY <1>0, <1>1, Values DEF Mutexed
<1>15. Mutexed'
  <2>1. \A u \in Client : client'[u].at \in Holding <=> kv_mutex' = u
    BY <1>0, <1>9, <1>14 DEF Holding
  <2>2. ~(gc'.at \in GcHolding) /\ kv_mutex' # "gc"
    BY <1>0, <1>11, Values DEF GcHolding
  <2>. QED BY <1>11, <1>13, <2>1, <2>2 DEF Mutexed
<1>16. FlashOK'
  BY <1>0, <1>1 DEF FlashOK, InUse, CleanFull
<1>17. BootOK'
  BY <1>13 DEF BootOK, Up, Scanning, Reformat
<1>18. GcOK'
  <2>1. Idle'
    BY <1>0, <1>6 DEF Idle, InUse, CleanEmpty
  <2>. QED BY <1>11, <2>1 DEF GcOK
<1>19. MarkOK'
  <2>1. \A b \in Blk : \A i \in Index(b) : ~(hdr[b] = "used" /\ ~Normal(b, i))
    BY <1>0, <1>1, <1>13, <1>14 DEF MarkOK, Up, Holding
  <2>. QED BY <1>0, <2>1 DEF MarkOK, Index, Normal
<1>20. CrcOK'
  BY <1>0, <1>1, <1>13 DEF CrcOK, Index, Normal
<1>21. PairOK'
  <2>1. \A b \in Blk : \A i, j \in Index(b) :
          ~(i < j /\ Normal(b, i) /\ Normal(b, j) /\ items[b][i].key = items[b][j].key)
    BY <1>1, <1>13, <1>14 DEF PairOK, Holding
  <2>. QED BY <1>0, <2>1 DEF PairOK, Index, Normal
<1>22. Has(w, k)' = Has(w, k) /\ Len(items'[w]) = Len(items[w]) /\ wblk' = w
  BY <1>0, <1>1, SameItems
<1>23. HoldOK'
  <2>1. at = "store" => StoreOK(k, v, o)'
    <3>. SUFFICES ASSUME at = "store" PROVE StoreOK(k, v, o)'
      OBVIOUS
    <3>1. v \in Val /\ v \in allowed'[k]
      BY <1>10
    <3>2. Len(items'[w]) < Cap
      BY <1>1, <1>22, EmptyProps, Values DEF HasRoom, Space
    <3>3. /\ \A i \in Has(w, k) : o = <<w, i>>
          /\ o # NULL => \E i \in Has(w, k) : o = <<w, i>>
      BY <1>5
    <3>. QED BY <1>22, <3>1, <3>2, <3>3 DEF StoreOK
  <2>2. at = "delete" => DeleteOK(k, v, o)'
    <3>. SUFFICES ASSUME at = "delete" PROVE DeleteOK(k, v, o)'
      OBVIOUS
    <3>1. v = NoVal /\ o # NULL /\ NoVal \in allowed'[k]
      BY <1>2, <1>3, <1>10
    <3>2. PICK i \in Index(w) : Has(w, k) = {i} /\ o = <<w, i>>
      BY <1>5, <3>1
    <3>. QED BY <1>22, <3>1, <3>2 DEF DeleteOK
  <2>3. at = "unlock" => Settled(k, v)'
    <3>. SUFFICES ASSUME at = "unlock" PROVE Settled(k, v)'
      OBVIOUS
    <3>1. v = now
      BY <1>2, <1>4
    <3>. QED BY <1>0, <1>5, <1>22, <3>1 DEF Settled
  <2>4. ASSUME NEW u \in Client, client'[u].at \in Holding
        PROVE  u = c
    BY <1>9, <1>14, <2>4
  <2>. QED BY <1>9, <2>1, <2>2, <2>3, <2>4 DEF HoldOK, Holding
<1>24. ValOK'
  <2>1. (Main(w)' <=> Main(w)) /\ (Main(1 - w)' <=> Main(1 - w))
    BY <1>0 DEF Main, InUse, CleanFull
  <2>2. \A q \in Key : Live(w, q)' = Live(w, q)
    BY <1>0, <1>1, SameItems
  <2>3. \A q \in Key : /\ \A i \in Live(w, q) : items[w][i].val \in allowed[q]
                       /\ Live(w, q) = {} => NoVal \in allowed[q] \/ q \in at_risk
    BY <1>1, <1>6 DEF ValOK
  <2>4. /\ \A i \in Live(w, k) : items[w][i].val \in allowed'[k]
        /\ Live(w, k) = {} => NoVal \in allowed'[k]
    BY <1>5, <1>10
  <2>5. \A q \in Key : /\ \A i \in Live(w, q) : items[w][i].val \in allowed'[q]
                       /\ Live(w, q) = {} => NoVal \in allowed'[q] \/ q \in at_risk
    BY <1>10, <2>3, <2>4
  <2>. QED BY <1>0, <1>6, <2>1, <2>2, <2>5 DEF ValOK
<1>25. RiskOK'
  BY <1>13 DEF RiskOK
<1>. QED BY <1>12, <1>15, <1>16, <1>17, <1>18, <1>19, <1>20, <1>21, <1>23, <1>24, <1>25 DEF Core

\* aos_kv_set has locked the store.
LEMMA SetBegin ==
    ASSUME Core, NEW c \in Client, kv_set_begin(c) PROVE Core'
<1>. DEFINE v == client[c].val
            now == aos_kv_get(client[c].key)
<1>0. Lock(c) /\ v # NoVal /\ client[c].at = "lock" /\ Up /\ kv_mutex = NULL
  BY DEF kv_set_begin, Lock, ClientAt
<1>1. client[c].key \in Key /\ v \in Val
  BY <1>0 DEF Core, Types, ClientType
<1>2. now \in Val \cup {NoVal}
  BY <1>0, <1>1, GetProps
<1>3. CASE now = v /\ Begin(c, "unlock", v) /\ UNCHANGED trigVars
  BY <1>0, <1>1, <1>3, BeginStep
<1>4. CASE ~HasRoom /\ Begin(c, "unlock", now) /\ trigger_gc
  BY <1>0, <1>2, <1>4, BeginStep
<1>5. CASE HasRoom /\ Begin(c, "store", v) /\ (trigger_gc \/ UNCHANGED trigVars)
  BY <1>0, <1>1, <1>5, BeginStep
<1>. QED BY <1>3, <1>4, <1>5 DEF kv_set_begin

\* aos_kv_del has locked the store.
LEMMA DelBegin ==
    ASSUME Core, NEW c \in Client, kv_del_begin(c) PROVE Core'
<1>0. Lock(c) /\ client[c].at = "lock" /\ Up /\ kv_mutex = NULL /\ UNCHANGED trigVars
  BY DEF kv_del_begin, Lock, ClientAt
<1>1. client[c].key \in Key
  BY <1>0 DEF Core, Types
<1>2. CASE kv_item_get(client[c].key) = NULL
  <2>1. Begin(c, "unlock", NoVal)
    BY <1>2 DEF kv_del_begin
  <2>2. aos_kv_get(client[c].key) = NoVal
    BY <1>2 DEF aos_kv_get
  <2>. QED BY <1>0, <2>1, <2>2, BeginStep
<1>3. CASE kv_item_get(client[c].key) # NULL
  <2>1. Begin(c, "delete", NoVal)
    BY <1>3 DEF kv_del_begin
  <2>. QED BY <1>0, <1>3, <2>1, BeginStep
<1>. QED BY <1>2, <1>3

\* What a step of the holder of the mutex leaves to be shown.
LEMMA HolderFrame ==
    ASSUME Core, NEW c \in Client, client[c].at \in Holding,
           NEW at \in Holding, Goto(c, at),
           UNCHANGED <<clean_blk_nums, wblk, gc_triggered, gc_waiter, gc_sem, tails, gc, kv_mutex,
                       boot, allowed>>,
           FlashType', hdr' = state', NEW w \in Blk, w = wblk,
           hdr'[w] \in {"used", "dirty"}, hdr'[1 - w] = "clean", items'[1 - w] = <<>>,
           MarkOK', CrcOK', PairOK', ValOK',
           NEW k, k = client[c].key, NEW v, v = client[c].val, NEW old, old = client[c].old,
           at = "store" => StoreOK(k, v, old)',
           at = "delete" => DeleteOK(k, v, old)',
           at = "dirty" => state'[w] = "used" /\ old[1] = w,
           at \in {"dirty", "unlock"} => Settled(k, v)'
    PROVE  Core'
<1>0. /\ Up /\ kv_mutex = c /\ kv_mutex # "gc"
      /\ \A u \in Client : u # c => client[u].at \notin Holding
      /\ client \in [Client -> ClientType] /\ client[c] \in ClientType
      /\ client[c].key \in Key
  BY HolderProps
<1>1. Types /\ Mutexed
  BY DEF Core
<1>2. /\ client' \in [Client -> ClientType]
      /\ client'[c].at = at /\ client'[c].val = v /\ client'[c].old = old /\ client'[c].key = k
      /\ \A u \in Client : u # c => client'[u] = client[u]
  <2>. DEFINE r == [client[c] EXCEPT !.at = at]
  <2>1. client' = [client EXCEPT ![c] = r]
    BY <1>0 DEF Goto
  <2>2. r \in ClientType /\ r.at = at /\ r.val = v /\ r.old = old /\ r.key = k
    BY <1>0 DEF ClientType, ClientPlace, Holding
  <2>. HIDE DEF r
  <2>. QED BY <1>0, <2>1, <2>2
<1>3. Up'
  BY <1>0 DEF Up
<1>4. /\ Idle /\ gc.at \in {"none", "lock"} /\ clean_blk_nums = 1 /\ 1 - w \in Blk
      /\ \A b \in Blk : b = w \/ b = 1 - w
  BY <1>0, IdleProps
<1>5. Types'
  <2>1. \A u \in Client : client'[u].at # "none" => client'[u].key \in Key
    BY <1>0, <1>1, <1>2 DEF Types
  <2>2. state' \in [Blk -> {"none", "clean", "used", "dirty"}]
    BY <1>4 DEF FlashType
  <2>3. /\ clean_blk_nums' \in 0 .. 2 /\ wblk' \in Blk
        /\ boot' \in BootType /\ gc_sem' \in Nat /\ tails' \in Nat /\ gc' \in GcType
        /\ gc_triggered' \in BOOLEAN /\ gc_waiter' \in Nat
        /\ kv_mutex' \in Client \cup {"gc", NULL}
        /\ allowed' \in [Key -> SUBSET (Val \cup {NoVal})]
    BY <1>1 DEF Types
  <2>. QED BY <1>2, <2>1, <2>2, <2>3 DEF Types, FlashType
<1>6. Mutexed'
  <2>1. \A u \in Client : client'[u].at \in Holding <=> client[u].at \in Holding
    BY <1>2
  <2>. QED BY <1>1, <1>3, <2>1 DEF Mutexed
<1>7. FlashOK'
  BY <1>4, BlkProps DEF FlashOK, InUse, CleanFull
<1>8. BootOK'
  BY <1>3 DEF BootOK, Up, Scanning, Reformat
<1>9. GcOK'
  <2>1. Idle'
    BY <1>4 DEF Idle, InUse, CleanEmpty
  <2>. QED BY <1>4, <2>1 DEF GcOK
<1>10. HoldOK'
  <2>1. \A u \in Client : client'[u].at \in Holding => u = c
    BY <1>0, <1>2
  <2>. QED BY <1>2, <2>1 DEF HoldOK, Holding
<1>11. RiskOK'
  BY <1>3 DEF RiskOK
<1>. QED BY <1>5, <1>6, <1>7, <1>8, <1>9, <1>10, <1>11 DEF Core

\* The new item is written.
LEMMA ItemStore ==
    ASSUME Core, NEW c \in Client, kv_item_store(c) PROVE Core'
<1>0. /\ client[c].at = "store" /\ client[c].at \in Holding
      /\ items' = [items EXCEPT ![wblk] = Append(items[wblk], NewItem(c))]
      /\ Goto(c, IF client[c].old = NULL THEN "unlock" ELSE "delete")
      /\ UNCHANGED <<hdr, state, clean_blk_nums, wblk, gc_triggered, gc_waiter, gc_sem, tails, gc,
                     kv_mutex, boot, allowed, at_risk>>
  BY DEF kv_item_store, ClientAt, WriteOnly, Holding
<1>1. /\ Up /\ kv_mutex = c /\ kv_mutex # "gc"
      /\ \A u \in Client : u # c => client[u].at \notin Holding
      /\ client \in [Client -> ClientType]
  BY <1>0, HolderProps
<1>. PICK k \in Key : k = client[c].key
  BY <1>0, HolderProps
<1>. PICK v \in Val \cup {NoVal} : v = client[c].val
  BY <1>0, HolderProps
<1>. PICK old \in Place : old = client[c].old
  BY <1>0, HolderProps
<1>2. /\ Types /\ Mutexed /\ MarkOK /\ CrcOK /\ PairOK /\ ValOK
      /\ StoreOK(k, v, old)
  BY <1>0 DEF Core, HoldOK
<1>. PICK w \in Blk : w = wblk
  BY <1>2 DEF Types
<1>3. /\ v \in Val /\ v \in allowed[k] /\ Len(items[w]) < Cap
      /\ \A i \in Has(w, k) : old = <<w, i>>
      /\ old # NULL => \E i \in Has(w, k) : old = <<w, i>>
  BY <1>2 DEF StoreOK
<1>4. PICK e : e = NewItem(c)
  OBVIOUS
<1>5. /\ e \in Written /\ e.state = "normal" /\ e.key = k /\ e.val = v
      /\ e.crc = TRUE /\ e.origin = old /\ e \in ItemType
  <2>1. e = Item(k, v, old)
    BY <1>4 DEF NewItem
  <2>2. v \in Val
    BY <1>3
  <2>3. e \in Written
    BY <2>1, <2>2, NewProps
  <2>4. /\ e.state = "normal" /\ e.key = k /\ e.val = v
        /\ e.crc = TRUE /\ e.origin = old
    BY <2>1 DEF Item
  <2>. QED BY <2>3, <2>4, WrittenProps
<1>. PICK n \in Nat : n = Len(items[w]) + 1
  BY <1>2, EmptyProps
<1>6. /\ items' \in [Blk -> Seq(ItemType)]
      /\ Len(items'[w]) = n /\ Len(items[w]) \in Nat
      /\ items'[w][n] = e
      /\ \A a \in Blk : a # w => items'[a] = items[a]
      /\ \A x \in Index(w) : items'[w][x] = items[w][x]
  BY <1>0, <1>2, <1>4, <1>5, AppendProps
<1>7. /\ Index(w)' = Index(w) \cup {n} /\ n \notin Index(w) /\ \A x \in Index(w) : x < n /\ x \in Nat
      /\ \A a \in Blk : a # w => Index(a)' = Index(a)
  BY <1>6 DEF Index
<1>8. /\ hdr = state /\ InUse(w) /\ hdr[1 - w] = "clean" /\ items[1 - w] = <<>> /\ Index(1 - w) = {}
      /\ 1 - w \in Blk /\ 1 - w # w /\ Main(w) /\ ~Main(1 - w) /\ \A b \in Blk : b = w \/ b = 1 - w
  BY <1>1, IdleProps, BlkProps
<1>9. Index(1 - w)' = {} /\ items'[1 - w] = <<>>
  BY <1>6, <1>7, <1>8
<1>10. Normal(w, n)' /\ \A x \in Index(w) : Normal(w, x)' <=> Normal(w, x)
  BY <1>5, <1>6 DEF Normal
<1>11. \A q \in Key : Has(w, q)' = Has(w, q) \cup {x \in {n} : q = k}
  <2>1. \A q \in Key : \A x \in Index(w) : x \in Has(w, q)' <=> x \in Has(w, q)
    BY <1>6, <1>7, <1>10 DEF Has
  <2>2. \A q \in Key : n \in Has(w, q)' <=> q = k
    BY <1>5, <1>6, <1>7, <1>10 DEF Has
  <2>3. \A q \in Key : Has(w, q)' \subseteq Index(w) \cup {n} /\ Has(w, q) \subseteq Index(w)
    BY <1>7 DEF Has
  <2>. QED BY <1>7, <2>1, <2>2, <2>3
<1>12. FlashType'
  <2>1. \A b \in Blk : Len(items'[b]) <= Cap
    <3>1. Len(items'[w]) <= Cap
      BY <1>3, <1>6, Values
    <3>2. Len(items[1 - w]) <= Cap
      BY <1>2, <1>8 DEF Types
    <3>. QED BY <1>6, <1>8, <3>1, <3>2
  <2>2. \A x \in Index(w)' : items'[w][x].crc => items'[w][x].val \in Val
    <3>1. \A x \in Index(w) : items[w][x].crc => items[w][x].val \in Val
      BY <1>2 DEF Types
    <3>2. \A x \in Index(w) : items'[w][x].crc => items'[w][x].val \in Val
      BY <1>6, <3>1
    <3>. QED BY <1>3, <1>5, <1>6, <1>7, <3>2
  <2>3. \A b \in Blk : \A x \in Index(b)' : items'[b][x].crc => items'[b][x].val \in Val
    BY <1>8, <1>9, <2>2
  <2>4. hdr' \in [Blk -> {"erased", "clean", "used", "dirty"}]
    BY <1>0, <1>2 DEF Types
  <2>. QED BY <1>6, <2>1, <2>3, <2>4 DEF FlashType
<1>13. \A b, i : ~Ahead(b, i)
  BY <1>1, UpProps
<1>14. \A u \in Client : client[u].at # "dirty" /\ client[u].at # "delete"
  BY <1>0, <1>1 DEF Holding
<1>15. MarkOK'
  <2>1. \A x \in Index(w)' : hdr'[w] = "used" => Normal(w, x)'
    BY <1>0, <1>1, <1>2, <1>7, <1>10, <1>13, <1>14 DEF MarkOK, Up
  <2>. QED BY <1>8, <1>9, <2>1 DEF MarkOK
<1>16. CrcOK'
  <2>1. \A x \in Index(w)' : Normal(w, x)' => items'[w][x].crc
    <3>1. \A x \in Index(w) : Normal(w, x) => items[w][x].crc
      BY <1>2, <1>13 DEF CrcOK
    <3>2. \A x \in Index(w) : Normal(w, x)' => items'[w][x].crc
      BY <1>6, <1>10, <3>1
    <3>. QED BY <1>5, <1>6, <1>7, <3>2
  <2>. QED BY <1>8, <1>9, <2>1 DEF CrcOK
<1>17. client'[c].at = (IF old = NULL THEN "unlock" ELSE "delete") /\ client'[c].old = old
  BY <1>0, <1>1 DEF Goto, ClientType
<1>18. PairOK'
  <2>. SUFFICES ASSUME NEW x \in Index(w)', NEW y \in Index(w)', x < y, Normal(w, x)', Normal(w, y)',
                       items'[w][x].key = items'[w][y].key
                PROVE  items'[w][y].origin = <<w, x>> /\ client'[c].at = "delete" /\ client'[c].old = <<w, x>>
    BY <1>8, <1>9 DEF PairOK
  <2>1. x \in Index(w)
    BY <1>7
  <2>2. CASE y = n
    <3>1. items[w][x].key = k /\ Normal(w, x)
      BY <1>5, <1>6, <1>10, <2>1, <2>2
    <3>2. old = <<w, x>>
      BY <1>3, <2>1, <3>1 DEF Has
    <3>3. old # NULL
      BY <1>2, <2>1, <3>2, EmptyProps, Values DEF Index, Types
    <3>. QED BY <1>5, <1>6, <1>17, <2>2, <3>2, <3>3
  <2>3. CASE y \in Index(w)
    <3>1. Normal(w, x) /\ Normal(w, y) /\ items[w][x].key = items[w][y].key
      BY <1>6, <1>10, <2>1, <2>3
    <3>. QED BY <1>2, <1>13, <1>14, <2>1, <2>3, <3>1 DEF PairOK
  <2>. QED BY <1>7, <2>2, <2>3
<1>19. ValOK'
  <2>1. \A q \in Key : /\ \A i \in Live(w, q) : items[w][i].val \in allowed[q]
                       /\ Live(w, q) = {} => NoVal \in allowed[q] \/ q \in at_risk
    BY <1>2, <1>8 DEF ValOK
  <2>2. \A q \in Key : Live(w, q)' = Live(w, q) \cup {x \in {n} : q = k}
    <3>1. \A x \in Index(w) : items'[w][x].crc <=> items[w][x].crc
      BY <1>6
    <3>2. items'[w][n].crc
      BY <1>5, <1>6
    <3>3. \A q \in Key : Has(w, q) \subseteq Index(w)
      BY DEF Has
    <3>. QED BY <1>11, <3>1, <3>2, <3>3 DEF Live
  <2>3. \A q \in Key : \A i \in Live(w, q)' : items'[w][i].val \in allowed[q]
    <3>1. \A q \in Key : Live(w, q) \subseteq Index(w)
      BY DEF Live, Has
    <3>. QED BY <1>3, <1>5, <1>6, <2>1, <2>2, <3>1
  <2>4. Main(w)' /\ ~Main(1 - w)'
    <3>1. InUse(w)' /\ ~InUse(1 - w)' /\ ~CleanFull(1 - w)'
      BY <1>0, <1>8, <1>9 DEF InUse, CleanFull
    <3>. QED BY <3>1 DEF Main
  <2>. QED BY <1>0, <1>8, <2>1, <2>2, <2>3, <2>4 DEF ValOK
<1>20. CASE old = NULL
  <2>1. Has(w, k)' = {n} /\ items'[w][n].val = v
    <3>1. Has(w, k) = {}
      <4>. SUFFICES ASSUME NEW i \in Has(w, k) PROVE FALSE
        OBVIOUS
      <4>1. <<w, i>> = NULL
        BY <1>3, <1>20
      <4>2. i \in 1 .. Cap
        BY <1>2, EmptyProps, Values DEF Index, Types, Has
      <4>. QED BY <4>1, <4>2, Values
    <3>. QED BY <1>5, <1>6, <1>11, <3>1
  <2>2. Settled(k, v)'
    BY <1>0, <2>1 DEF Settled
  <2>3. Goto(c, "unlock")
    BY <1>0, <1>20
  <2>. QED BY <1>0, <1>8, <1>9, <1>12, <1>15, <1>16, <1>18, <1>19, <2>2, <2>3, HolderFrame
           DEF Holding, InUse
<1>21. CASE old # NULL
  <2>1. PICK i \in Has(w, k) : old = <<w, i>>
    BY <1>3, <1>21
  <2>2. Has(w, k) = {i} /\ i < n
    BY <1>3, <1>7, <2>1 DEF Has
  <2>3. Has(w, k)' = {i, n} /\ items'[w][n].val = v /\ v # NoVal /\ Len(items'[w]) = n
    BY <1>3, <1>5, <1>6, <1>11, <2>2, Values
  <2>4. DeleteOK(k, v, old)'
    <3>1. i \in Has(wblk, k)' /\ old = <<wblk', i>>
      BY <1>0, <2>1, <2>3
    <3>. QED BY <1>0, <2>2, <2>3, <3>1 DEF DeleteOK
  <2>5. Goto(c, "delete")
    BY <1>0, <1>21
  <2>. QED BY <1>0, <1>8, <1>9, <1>12, <1>15, <1>16, <1>18, <1>19, <2>4, <2>5, HolderFrame
           DEF Holding, InUse
<1>. QED BY <1>20, <1>21

\* The old item is deleted.
LEMMA ItemDel ==
    ASSUME Core, NEW c \in Client, kv_item_del(c) PROVE Core'
<1>0. /\ client[c].at = "delete" /\ client[c].at \in Holding
      /\ items' = DeleteAt(client[c].old)
      /\ Goto(c, IF state[client[c].old[1]] = "used" THEN "dirty" ELSE "unlock")
      /\ UNCHANGED <<hdr, state, clean_blk_nums, wblk, gc_triggered, gc_waiter, gc_sem, tails, gc,
                     kv_mutex, boot, allowed, at_risk>>
  BY DEF kv_item_del, ClientAt, WriteOnly, Holding
<1>1. /\ Up /\ kv_mutex = c /\ kv_mutex # "gc"
      /\ \A u \in Client : u # c => client[u].at \notin Holding
      /\ client \in [Client -> ClientType]
  BY <1>0, HolderProps
<1>. PICK k \in Key : k = client[c].key
  BY <1>0, HolderProps
<1>. PICK v \in Val \cup {NoVal} : v = client[c].val
  BY <1>0, HolderProps
<1>. PICK old \in Place : old = client[c].old
  BY <1>0, HolderProps
<1>2. /\ Types /\ MarkOK /\ CrcOK /\ PairOK /\ ValOK /\ DeleteOK(k, v, old)
  BY <1>0 DEF Core, HoldOK
<1>. PICK w \in Blk : w = wblk
  BY <1>2 DEF Types
<1>3. PICK i \in Has(w, k) :
        /\ old = <<w, i>>
        /\ v = NoVal => NoVal \in allowed[k] /\ Has(w, k) = {i}
        /\ v # NoVal => /\ Has(w, k) = {i, Len(items[w])} /\ i < Len(items[w])
                        /\ items[w][Len(items[w])].val = v
  BY <1>2 DEF DeleteOK
<1>4. i \in Index(w) /\ Normal(w, i) /\ items[w][i].key = k /\ old[1] = w
  BY <1>3 DEF Has
<1>5. /\ items' \in [Blk -> Seq(ItemType)]
      /\ \A b \in Blk : Len(items'[b]) = Len(items[b]) /\ Index(b)' = Index(b)
      /\ items'[w][i].state = "delete"
      /\ \A b \in Blk : \A x \in Index(b) :
                /\ ~(b = w /\ x = i) => items'[b][x] = items[b][x]
                /\ items'[b][x].key = items[b][x].key
                /\ items'[b][x].val = items[b][x].val
                /\ items'[b][x].crc = items[b][x].crc
                /\ items'[b][x].origin = items[b][x].origin
  BY <1>0, <1>2, <1>3, <1>4, DeleteProps
<1>6. /\ hdr = state /\ InUse(w) /\ hdr[1 - w] = "clean" /\ items[1 - w] = <<>> /\ Index(1 - w) = {}
      /\ 1 - w \in Blk /\ 1 - w # w /\ Main(w) /\ ~Main(1 - w) /\ \A b \in Blk : b = w \/ b = 1 - w
  BY <1>1, IdleProps, BlkProps
<1>7. Index(1 - w)' = {} /\ items'[1 - w] = <<>> /\ Index(w)' = Index(w)
  <2>1. Index(1 - w)' = {} /\ Index(w)' = Index(w)
    BY <1>5, <1>6
  <2>2. items'[1 - w] \in Seq(ItemType) /\ Len(items'[1 - w]) = 0
    BY <1>2, <1>5, <1>6, EmptyProps
  <2>3. items'[1 - w] = <<>>
    BY <2>2
  <2>. QED BY <2>1, <2>3
<1>8. \A x \in Index(w) : Normal(w, x)' <=> Normal(w, x) /\ x # i
  BY <1>5 DEF Normal
<1>9. \A q \in Key : Has(w, q)' = Has(w, q) \ {i} /\ Live(w, q)' = Live(w, q) \ {i}
  <2>1. \A q \in Key : Has(w, q)' = Has(w, q) \ {i}
    BY <1>5, <1>7, <1>8 DEF Has
  <2>2. \A x \in Index(w) : items'[w][x].crc <=> items[w][x].crc
    BY <1>5
  <2>3. \A q \in Key : Has(w, q) \subseteq Index(w)
    BY DEF Has
  <2>. QED BY <2>1, <2>2, <2>3 DEF Live
<1>10. FlashType'
  <2>1. \A x \in Index(w) : items'[w][x].crc => items'[w][x].val \in Val
    <3>1. \A x \in Index(w) : items[w][x].crc => items[w][x].val \in Val
      BY <1>2 DEF Types
    <3>2. \A x \in Index(w) : (items'[w][x].crc <=> items[w][x].crc) /\ items'[w][x].val = items[w][x].val
      BY <1>5
    <3>. QED BY <3>1, <3>2
  <2>2. \A b \in Blk : \A x \in Index(b)' : items'[b][x].crc => items'[b][x].val \in Val
    BY <1>6, <1>7, <2>1
  <2>3. \A b \in Blk : Len(items'[b]) <= Cap
    BY <1>2, <1>5 DEF Types
  <2>4. hdr' \in [Blk -> {"erased", "clean", "used", "dirty"}]
    BY <1>0, <1>2 DEF Types
  <2>. QED BY <1>5, <2>2, <2>3, <2>4 DEF FlashType
<1>11. \A b, x : ~Ahead(b, x)
  BY <1>1, UpProps
<1>12. \A u \in Client : client[u].at # "dirty" /\ (client[u].at = "delete" => u = c)
  BY <1>0, <1>1 DEF Holding
<1>13. client'[c].at = (IF state[w] = "used" THEN "dirty" ELSE "unlock")
  BY <1>0, <1>1, <1>4 DEF Goto, ClientType
<1>14. MarkOK'
  <2>1. hdr'[w] = "used" => client'[c].at = "dirty"
    BY <1>0, <1>6, <1>13
  <2>. QED BY <1>6, <1>7, <2>1 DEF MarkOK
<1>15. CrcOK'
  <2>1. \A x \in Index(w) : Normal(w, x)' => items'[w][x].crc
    <3>1. \A x \in Index(w) : Normal(w, x) => items[w][x].crc
      BY <1>2, <1>11 DEF CrcOK
    <3>. QED BY <1>5, <1>8, <3>1
  <2>. QED BY <1>6, <1>7, <2>1 DEF CrcOK
<1>16. PairOK'
  <2>. SUFFICES ASSUME NEW x \in Index(w), NEW y \in Index(w), x < y, Normal(w, x)', Normal(w, y)',
                       items'[w][x].key = items'[w][y].key
                PROVE  FALSE
    BY <1>6, <1>7 DEF PairOK
  <2>1. Normal(w, x) /\ Normal(w, y) /\ x # i /\ items[w][x].key = items[w][y].key
    BY <1>5, <1>8
  <2>2. old = <<w, x>>
    BY <1>2, <1>11, <1>12, <2>1 DEF PairOK
  <2>. QED BY <1>3, <2>1, <2>2
<1>17. Has(w, k)' = (IF v = NoVal THEN {} ELSE {Len(items[w])})
  <2>1. CASE v = NoVal
    BY <1>3, <1>9, <2>1
  <2>2. CASE v # NoVal
    <3>1. Has(w, k) = {i, Len(items[w])} /\ i # Len(items[w])
      BY <1>2, <1>3, <1>4, <2>2, EmptyProps DEF Index
    <3>. QED BY <1>9, <2>2, <3>1
  <2>. QED BY <2>1, <2>2
<1>18. Settled(k, v)'
  <2>1. \A x \in Has(w, k)' : items'[w][x].val = v
    <3>1. \A x \in Has(w, k)' : x \in Index(w) /\ items[w][x].val = v
      BY <1>3, <1>7, <1>17 DEF Has
    <3>. QED BY <1>5, <3>1
  <2>. QED BY <1>0, <1>17, <2>1 DEF Settled
<1>19. ValOK'
  <2>1. \A q \in Key : /\ \A x \in Live(w, q) : items[w][x].val \in allowed[q]
                       /\ Live(w, q) = {} => NoVal \in allowed[q] \/ q \in at_risk
    BY <1>2, <1>6 DEF ValOK
  <2>2. \A q \in Key : \A x \in Live(w, q)' : items'[w][x].val \in allowed[q]
    <3>1. \A q \in Key : Live(w, q) \subseteq Index(w)
      BY DEF Live, Has
    <3>. QED BY <1>5, <1>9, <2>1, <3>1
  <2>3. ASSUME NEW q \in Key, Live(w, q)' = {} PROVE NoVal \in allowed[q] \/ q \in at_risk
    <3>1. CASE q = k
      <4>1. CASE v = NoVal
        BY <1>3, <3>1, <4>1
      <4>2. CASE v # NoVal
        <5>. PICK n : n = Len(items[w])
          OBVIOUS
        <5>1. n \in Has(w, k)'
          BY <1>17, <4>2
        <5>2. n \in Index(w) /\ Normal(w, n) /\ n # i
          BY <1>7, <1>9, <5>1 DEF Has
        <5>3. items[w][n].crc
          BY <1>2, <1>11, <5>2 DEF CrcOK
        <5>4. n \in Live(w, k)
          BY <1>9, <5>1, <5>3 DEF Live
        <5>. QED BY <1>9, <2>3, <3>1, <5>2, <5>4
      <4>. QED BY <4>1, <4>2
    <3>2. CASE q # k
      <4>1. i \notin Live(w, q)
        BY <1>4, <3>2 DEF Live, Has
      <4>. QED BY <1>9, <2>1, <2>3, <4>1
    <3>. QED BY <3>1, <3>2
  <2>4. Main(w)' /\ ~Main(1 - w)'
    <3>1. InUse(w)' /\ ~InUse(1 - w)' /\ ~CleanFull(1 - w)'
      BY <1>0, <1>6, <1>7 DEF InUse, CleanFull
    <3>. QED BY <3>1 DEF Main
  <2>. QED BY <1>0, <1>6, <2>2, <2>3, <2>4 DEF ValOK
<1>20. CASE state[w] = "used"
  <2>1. Goto(c, "dirty")
    BY <1>0, <1>4, <1>20
  <2>. QED BY <1>0, <1>4, <1>6, <1>7, <1>10, <1>14, <1>15, <1>16, <1>18, <1>19, <1>20, <2>1, HolderFrame
           DEF Holding, InUse
<1>21. CASE state[w] # "used"
  <2>1. Goto(c, "unlock")
    BY <1>0, <1>4, <1>21
  <2>. QED BY <1>0, <1>6, <1>7, <1>10, <1>14, <1>15, <1>16, <1>18, <1>19, <2>1, HolderFrame
           DEF Holding, InUse
<1>. QED BY <1>20, <1>21

\* The block is marked.
LEMMA ItemDelDirty ==
    ASSUME Core, NEW c \in Client, kv_item_del_dirty(c) PROVE Core'
<1>. PICK w \in Blk : w = wblk
  BY DEF Core, Types
<1>. PICK k : k = client[c].key
  OBVIOUS
<1>. PICK v : v = client[c].val
  OBVIOUS
<1>. PICK old : old = client[c].old
  OBVIOUS
<1>0. /\ client[c].at = "dirty" /\ client[c].at \in Holding
      /\ hdr' = [hdr EXCEPT ![old[1]] = "dirty"] /\ state' = [state EXCEPT ![old[1]] = "dirty"]
      /\ Goto(c, "unlock")
      /\ UNCHANGED <<items, clean_blk_nums, wblk, gc_triggered, gc_waiter, gc_sem, tails, gc,
                     kv_mutex, boot, allowed, at_risk>>
  BY DEF kv_item_del_dirty, ClientAt, Holding
<1>1. /\ Up /\ kv_mutex # "gc" /\ k \in Key
      /\ \A u \in Client : u # c => client[u].at \notin Holding
  BY <1>0, HolderProps
<1>2. /\ Types /\ MarkOK /\ CrcOK /\ PairOK /\ ValOK
      /\ old[1] = w /\ Settled(k, v)
  BY <1>0 DEF Core, HoldOK
<1>3. /\ hdr = state /\ InUse(w) /\ hdr[1 - w] = "clean" /\ items[1 - w] = <<>> /\ Index(1 - w) = {}
      /\ 1 - w \in Blk /\ 1 - w # w /\ Main(w) /\ ~Main(1 - w) /\ \A b \in Blk : b = w \/ b = 1 - w
  BY <1>1, IdleProps, BlkProps
<1>4. /\ hdr' = state' /\ hdr' \in [Blk -> {"erased", "clean", "used", "dirty"}]
      /\ hdr'[w] = "dirty" /\ hdr'[1 - w] = "clean"
  BY <1>0, <1>2, <1>3 DEF Types
<1>5. FlashType'
  BY <1>0, <1>2, <1>4 DEF FlashType, Types, Index
<1>6. \A b, x : ~Ahead(b, x)
  BY <1>1, UpProps
<1>7. \A u \in Client : client[u].at # "delete"
  BY <1>0, <1>1 DEF Holding
<1>8. MarkOK'
  BY <1>3, <1>4 DEF MarkOK
<1>9. CrcOK'
  BY <1>0, <1>2, <1>6 DEF CrcOK, Index, Normal
<1>10. PairOK'
  BY <1>0, <1>2, <1>6, <1>7 DEF PairOK, Index, Normal
<1>11. ValOK'
  <2>1. Main(w)' /\ ~Main(1 - w)'
    <3>1. InUse(w)' /\ ~InUse(1 - w)' /\ ~CleanFull(1 - w)'
      BY <1>0, <1>3, <1>4 DEF InUse, CleanFull
    <3>. QED BY <3>1 DEF Main
  <2>2. \A b \in Blk : Main(b)' <=> Main(b)
    BY <1>3, <2>1
  <2>. QED BY <1>0, <1>2, <2>2, SameItems DEF ValOK
<1>12. Settled(k, v)'
  BY <1>0, <1>2 DEF Settled, Has, Index, Normal
<1>. QED BY <1>0, <1>3, <1>4, <1>5, <1>8, <1>9, <1>10, <1>11, <1>12, HolderFrame DEF Holding

\* The call returns: its value is the one the key has.
LEMMA KvReturn ==
    ASSUME Core, NEW c \in Client, kv_return(c) PROVE Core'
<1>. PICK k : k = client[c].key
  OBVIOUS
<1>. PICK v : v = client[c].val
  OBVIOUS
<1>0. /\ client[c].at = "unlock" /\ client[c].at \in Holding /\ kv_mutex' = NULL
      /\ client' = [client EXCEPT ![c] = NoOp]
      /\ allowed' = [allowed EXCEPT ![k] = {v}]
      /\ at_risk' = at_risk \ {k}
      /\ UNCHANGED <<hdr, items, state, clean_blk_nums, wblk, gc_triggered, gc_waiter, gc_sem, tails,
                     gc, boot>>
  BY DEF kv_return, ClientAt, Holding
<1>1. /\ Up /\ kv_mutex = c /\ kv_mutex # "gc" /\ k \in Key /\ v \in Val \cup {NoVal}
      /\ \A u \in Client : u # c => client[u].at \notin Holding
      /\ client \in [Client -> ClientType]
  BY <1>0, HolderProps
<1>2. /\ Types /\ Mutexed /\ FlashOK /\ MarkOK /\ CrcOK /\ PairOK /\ ValOK /\ GcOK /\ Settled(k, v)
  BY <1>0 DEF Core, HoldOK
<1>. PICK w \in Blk : w = wblk
  BY <1>2 DEF Types
<1>3. /\ Idle /\ gc.at \in {"none", "lock"} /\ Main(w) /\ ~Main(1 - w) /\ 1 - w \in Blk
      /\ \A b \in Blk : b = w \/ b = 1 - w
  BY <1>1, IdleProps
<1>4. /\ NoOp \in ClientType /\ NoOp.at = "none"
  BY Values DEF NoOp, Op, ClientType, ClientPlace
<1>5. /\ client' \in [Client -> ClientType] /\ client'[c].at = "none"
      /\ \A u \in Client : u # c => client'[u] = client[u]
  BY <1>0, <1>1, <1>4
<1>6. /\ allowed' \in [Key -> SUBSET (Val \cup {NoVal})] /\ allowed'[k] = {v}
      /\ \A q \in Key : q # k => allowed'[q] = allowed[q]
  BY <1>0, <1>1, <1>2 DEF Types
<1>7. Types'
  <2>1. \A u \in Client : client'[u].at # "none" => client'[u].key \in Key
    BY <1>2, <1>5 DEF Types
  <2>2. kv_mutex' \in Client \cup {"gc", NULL}
    BY <1>0
  <2>. QED BY <1>0, <1>2, <1>5, <1>6, <2>1, <2>2 DEF Types, Index
<1>8. \A u \in Client : client'[u].at \notin Holding
  BY <1>1, <1>5 DEF Holding
<1>9. Up'
  BY <1>0, <1>1 DEF Up
<1>10. Mutexed'
  <2>1. \A u \in Client : kv_mutex' # u
    BY <1>0, Values
  <2>2. gc'.at \notin GcHolding /\ kv_mutex' # "gc"
    BY <1>0, <1>3, Values DEF GcHolding
  <2>. QED BY <1>0, <1>2, <1>8, <1>9, <2>1, <2>2 DEF Mutexed
<1>11. FlashOK'
  BY <1>0, <1>2 DEF FlashOK, InUse, CleanFull
<1>12. BootOK'
  BY <1>9 DEF BootOK, Up, Scanning, Reformat
<1>13. GcOK'
  <2>1. Idle'
    BY <1>0, <1>3 DEF Idle, InUse, CleanEmpty
  <2>. QED BY <1>0, <1>3, <2>1 DEF GcOK
<1>14. /\ \A b, x : ~Ahead(b, x)
       /\ \A u \in Client : client[u].at # "delete" /\ client[u].at # "dirty"
  BY <1>0, <1>1, UpProps DEF Holding
<1>15. MarkOK'
  BY <1>0, <1>1, <1>2, <1>14 DEF MarkOK, Index, Normal, Up
<1>16. CrcOK'
  BY <1>0, <1>2, <1>14 DEF CrcOK, Index, Normal
<1>17. PairOK'
  BY <1>0, <1>2, <1>14 DEF PairOK, Index, Normal
<1>18. HoldOK'
  BY <1>8 DEF HoldOK, Holding
<1>19. ValOK'
  <2>1. \A b \in Blk : Main(b)' <=> Main(b)
    BY <1>0 DEF Main, InUse, CleanFull
  <2>2. \A q \in Key : Live(w, q)' = Live(w, q)
    BY <1>0, <1>2, SameItems
  <2>3. \A q \in Key : /\ \A x \in Live(w, q) : items[w][x].val \in allowed[q]
                       /\ Live(w, q) = {} => NoVal \in allowed[q] \/ q \in at_risk
    BY <1>2, <1>3 DEF ValOK
  <2>4. Live(w, k) = Has(w, k)
    BY <1>2, <1>14 DEF Live, Has, CrcOK
  <2>5. /\ \A x \in Live(w, k) : items[w][x].val = v
        /\ Live(w, k) = {} => v = NoVal
    BY <1>2, <2>4 DEF Settled
  <2>6. \A q \in Key : /\ \A x \in Live(w, q) : items[w][x].val \in allowed'[q]
                       /\ Live(w, q) = {} => NoVal \in allowed'[q] \/ q \in at_risk'
    BY <1>0, <1>1, <1>6, <2>3, <2>5
  <2>. QED BY <1>0, <1>3, <2>1, <2>2, <2>6 DEF ValOK
<1>20. RiskOK'
  BY <1>9 DEF RiskOK
<1>. QED BY <1>7, <1>10, <1>11, <1>12, <1>13, <1>15, <1>16, <1>17, <1>18, <1>19, <1>20 DEF Core
-----------------------------------------------------------------------------
(***************************************************************************)
(* aos_kv_gc.                                                              *)
(***************************************************************************)
\* What holds while the collector works.
LEMMA GcProps ==
    ASSUME Core, gc.at \in Working
    PROVE  /\ Up /\ kv_mutex = "gc" /\ gc_triggered /\ Types
           /\ \A c \in Client : client[c].at \notin Holding
           /\ \A b, i : ~Ahead(b, i)
           /\ gc \in GcType /\ gc.src \in Blk /\ gc.dst \in Blk /\ gc.src = 1 - gc.dst
           /\ gc.dst = 1 - gc.src /\ gc.src # gc.dst /\ wblk = gc.dst
           /\ \A b \in Blk : b = gc.src \/ b = gc.dst
           /\ hdr[gc.dst] = "clean" /\ state[gc.dst] = "clean"
           /\ \A x \in Index(gc.dst) : Normal(gc.dst, x)
           /\ gc.at = "copy" =>
                /\ hdr[gc.src] = "dirty" /\ state[gc.src] = "dirty" /\ clean_blk_nums = 1
                /\ CopyOK
           /\ gc.at = "format" => hdr[gc.src] = "erased" /\ clean_blk_nums = 1
           /\ gc.at = "used" => /\ hdr[gc.src] = "clean" /\ items[gc.src] = <<>>
                                /\ state[gc.src] = "clean" /\ clean_blk_nums = 2
           /\ \A b \in Blk : \A x \in Index(b) : Normal(b, x) => items[b][x].crc
           /\ \A b \in Blk : \A i, j \in Index(b) :
                ~(i < j /\ Normal(b, i) /\ Normal(b, j) /\ items[b][i].key = items[b][j].key)
<1>1. Types /\ Mutexed /\ GcOK /\ CrcOK /\ PairOK /\ gc \in GcType
  BY DEF Core, Types
<1>2. kv_mutex = "gc" /\ gc_triggered
  BY <1>1 DEF Mutexed, GcHolding, Working
<1>3. Up
  BY <1>1, <1>2, Values DEF Mutexed
<1>4. \A c \in Client : client[c].at \notin Holding
  BY <1>1, <1>2, Values DEF Mutexed
<1>5. \A b, i : ~Ahead(b, i)
  BY <1>3, UpProps
<1>6. gc.src \in Blk /\ gc.dst \in Blk
  BY <1>1 DEF GcType
<1>7. /\ gc.src = 1 - gc.dst /\ wblk = gc.dst
      /\ hdr[gc.dst] = "clean" /\ state[gc.dst] = "clean"
      /\ \A x \in Index(gc.dst) : Normal(gc.dst, x)
      /\ gc.at = "copy" =>
                /\ hdr[gc.src] = "dirty" /\ state[gc.src] = "dirty" /\ clean_blk_nums = 1
                /\ CopyOK
      /\ gc.at = "format" => hdr[gc.src] = "erased" /\ clean_blk_nums = 1
      /\ gc.at = "used" => /\ hdr[gc.src] = "clean" /\ items[gc.src] = <<>>
                           /\ state[gc.src] = "clean" /\ clean_blk_nums = 2
  BY <1>1, <1>3 DEF GcOK, Working, CleanEmpty
<1>8. \A b \in Blk : \A x \in Index(b) : Normal(b, x) => items[b][x].crc
  BY <1>1, <1>5 DEF CrcOK
<1>9. \A b \in Blk : \A i, j \in Index(b) :
                ~(i < j /\ Normal(b, i) /\ Normal(b, j) /\ items[b][i].key = items[b][j].key)
  BY <1>1, <1>4, <1>5 DEF PairOK, Holding
<1>10. gc.dst = 1 - gc.src /\ gc.src # gc.dst /\ \A b \in Blk : b = gc.src \/ b = gc.dst
  BY <1>6, <1>7, BlkProps
<1>. QED BY <1>1, <1>2, <1>3, <1>4, <1>5, <1>6, <1>7, <1>8, <1>9, <1>10

\* What a step of the collector leaves to be shown.
LEMMA GcFrame ==
    ASSUME Core, gc.at \in Working, gc' \in GcType, gc'.at \in GcHolding, FlashType',
           state' \in [Blk -> {"none", "clean", "used", "dirty"}], clean_blk_nums' \in 0 .. 2,
           UNCHANGED <<wblk, gc_triggered, gc_waiter, gc_sem, tails, kv_mutex, boot, client,
                       allowed, at_risk>>,
           FlashOK', GcOK', MarkOK', CrcOK', PairOK', ValOK'
    PROVE  Core'
<1>1. /\ Up /\ kv_mutex = "gc" /\ gc_triggered /\ Types
      /\ \A c \in Client : client[c].at \notin Holding
  BY GcProps
<1>2. Mutexed
  BY DEF Core
<1>3. Up'
  BY <1>1 DEF Up
<1>4. Types'
  <2>1. /\ wblk' \in Blk
        /\ gc_triggered' \in BOOLEAN /\ gc_waiter' \in Nat /\ gc_sem' \in Nat /\ tails' \in Nat
        /\ kv_mutex' \in Client \cup {"gc", NULL}
        /\ boot' \in BootType
        /\ client' \in [Client -> ClientType]
        /\ \A c \in Client : client'[c].at # "none" => client'[c].key \in Key
        /\ allowed' \in [Key -> SUBSET (Val \cup {NoVal})]
    BY <1>1 DEF Types
  <2>. QED BY <2>1 DEF Types, FlashType
<1>5. Mutexed'
  BY <1>1, <1>2, <1>3 DEF Mutexed
<1>6. BootOK'
  BY <1>3 DEF BootOK, Up, Scanning, Reformat
<1>7. HoldOK'
  BY <1>1 DEF HoldOK, Holding
<1>8. RiskOK'
  BY <1>3 DEF RiskOK
<1>. QED BY <1>4, <1>5, <1>6, <1>7, <1>8 DEF Core

\* The record of the collector.
LEMMA GcRecord ==
    ASSUME NEW at \in {"none", "lock"} \cup GcHolding, NEW s \in Blk, NEW d \in Blk, NEW j \in Nat
    PROVE  /\ Gc(at, s, d, j) \in GcType /\ Gc(at, s, d, j).at = at /\ Gc(at, s, d, j).src = s
           /\ Gc(at, s, d, j).dst = d /\ Gc(at, s, d, j).j = j
BY DEF Gc, GcType

\* The collector takes the mutex: it copies the block in use to the clean one.
LEMMA GcBegin ==
    ASSUME Core, gc_begin PROVE Core'
<1>0. /\ gc.at = "lock" /\ kv_mutex = NULL /\ kv_mutex' = "gc"
      /\ UNCHANGED <<hdr, items, state, clean_blk_nums, gc_triggered, gc_waiter, gc_sem, tails, boot,
                     client, allowed, at_risk>>
  BY DEF gc_begin, GcOnly
<1>1. Types /\ Mutexed /\ FlashOK /\ BootOK /\ MarkOK /\ CrcOK /\ PairOK /\ ValOK
  BY DEF Core
<1>2. Up /\ gc_triggered /\ \A c \in Client : client[c].at \notin Holding
  BY <1>0, <1>1, Values DEF Mutexed
<1>3. Up' /\ (\A b, i : ~Ahead(b, i)) /\ \A b, i : ~Ahead(b, i)'
  BY <1>0, <1>2 DEF Up, Ahead, Scanning
<1>. PICK w \in Blk : w = wblk
  BY <1>1 DEF Types
<1>4. /\ Idle /\ hdr = state /\ InUse(w) /\ hdr[1 - w] = "clean" /\ items[1 - w] = <<>>
      /\ Index(1 - w) = {} /\ clean_blk_nums = 1 /\ 1 - w \in Blk /\ \A b \in Blk : b = w \/ b = 1 - w
  BY <1>0, <1>2, IdleProps, Values
<1>5. \/ gc' = Gc("exit", 0, 0, 0) /\ UNCHANGED wblk
      \/ hdr[w] = "dirty" /\ gc' = Gc("copy", w, 1 - w, 1) /\ wblk' = 1 - w
  <2>1. hdr[w] \in {"used", "dirty"}
    BY <1>4 DEF InUse
  <2>2. Clean = {1 - w} /\ (1 - w \notin Dirty) /\ (Dirty # {} => hdr[w] = "dirty")
    BY <1>4, <2>1 DEF Clean, Dirty
  <2>3. FirstDirty = w
    BY <2>2 DEF FirstDirty
  <2>4. Min(Clean) = 1 - w
    BY <1>4, <2>2, BlkProps DEF Min
  <2>5. CASE clean_blk_nums = 0 \/ Clean = {} \/ Dirty = {}
    BY <2>5 DEF gc_begin
  <2>6. CASE ~(clean_blk_nums = 0 \/ Clean = {} \/ Dirty = {})
    BY <2>2, <2>3, <2>4, <2>6 DEF gc_begin
  <2>. QED BY <2>5, <2>6
<1>6. gc' \in GcType /\ gc'.at \in GcHolding /\ wblk' \in Blk
  <2>1. wblk' \in Blk
    BY <1>4, <1>5
  <2>2. Gc("exit", 0, 0, 0) \in GcType /\ Gc("exit", 0, 0, 0).at = "exit"
    BY BlkProps, GcRecord DEF GcHolding
  <2>3. Gc("copy", w, 1 - w, 1) \in GcType /\ Gc("copy", w, 1 - w, 1).at = "copy"
    BY <1>4, GcRecord DEF GcHolding
  <2>. QED BY <1>5, <2>1, <2>2, <2>3 DEF GcHolding
<1>7. Types'
  <2>1. kv_mutex' \in Client \cup {"gc", NULL}
    BY <1>0
  <2>. QED BY <1>0, <1>1, <1>6, <2>1 DEF Types, Index
<1>8. Mutexed'
  <2>1. \A c \in Client : kv_mutex' # c
    BY <1>0, Values
  <2>. QED BY <1>0, <1>2, <1>3, <1>6, <2>1 DEF Mutexed
<1>9. FlashOK'
  BY <1>0, <1>1 DEF FlashOK, InUse, CleanFull
<1>10. BootOK'
  BY <1>3 DEF BootOK, Up, Scanning, Reformat
<1>11. GcOK'
  <2>1. CASE gc' = Gc("exit", 0, 0, 0) /\ UNCHANGED wblk
    <3>1. Idle'
      BY <1>0, <1>4, <2>1 DEF Idle, InUse, CleanEmpty
    <3>2. gc'.at = "exit"
      BY <2>1 DEF Gc
    <3>. QED BY <3>1, <3>2 DEF GcOK
  <2>2. CASE hdr[w] = "dirty" /\ gc' = Gc("copy", w, 1 - w, 1) /\ wblk' = 1 - w
    <3>1. gc'.at = "copy" /\ gc'.src = w /\ gc'.dst = 1 - w /\ gc'.j = 1
      BY <2>2 DEF Gc
    <3>2. CopyOK'
      <4>1. Len(items[w]) \in Nat /\ Len(items[1 - w]) = 0
        BY <1>1, <1>4, EmptyProps
      <4>2. gc'.j \in 1 .. Len(items'[gc'.src]) + 1 /\ Len(items'[gc'.dst]) < gc'.j
        BY <1>0, <3>1, <4>1
      <4>3. Index(1 - w)' = {} /\ Index(w)' = Index(w)
        BY <1>0, <1>4 DEF Index
      <4>4. \A i \in Index(w) : ~(i < gc'.j)
        BY <3>1 DEF Index
      <4>5. Index(gc.dst)' = {} /\ Index(gc.src)' = Index(w)
        BY <1>0, <3>1, <4>3 DEF Index
      <4>. QED BY <4>2, <4>4, <4>5 DEF CopyOK
    <3>3. Index(gc.dst)' = {}
      BY <1>0, <1>4, <3>1 DEF Index
    <3>4. w = 1 - (1 - w)
      BY BlkProps
    <3>5. /\ gc'.src = 1 - gc'.dst /\ wblk' = gc'.dst
          /\ hdr'[gc'.dst] = "clean" /\ state'[gc'.dst] = "clean"
          /\ hdr'[gc'.src] = "dirty" /\ state'[gc'.src] = "dirty" /\ clean_blk_nums' = 1
      BY <1>0, <1>4, <2>2, <3>1, <3>4
    <3>. QED BY <3>1, <3>2, <3>3, <3>5 DEF GcOK
  <2>. QED BY <1>5, <2>1, <2>2
<1>12. MarkOK'
  BY <1>0, <1>1, <1>2, <1>3 DEF MarkOK, Index, Normal, Holding, Up
<1>13. CrcOK'
  BY <1>0, <1>1, <1>3 DEF CrcOK, Index, Normal
<1>14. PairOK'
  BY <1>0, <1>1, <1>2, <1>3 DEF PairOK, Index, Normal, Holding
<1>15. HoldOK'
  BY <1>0, <1>2 DEF HoldOK, Holding
<1>16. ValOK'
  BY <1>0, <1>1 DEF ValOK, Main, InUse, CleanFull, Live, Has, Index, Normal
<1>17. RiskOK'
  BY <1>3 DEF RiskOK
<1>. QED BY <1>7, <1>8, <1>9, <1>10, <1>11, <1>12, <1>13, <1>14, <1>15, <1>16, <1>17 DEF Core

\* An item is copied, or one that is gone is passed.
LEMMA GcCopy ==
    ASSUME Core, gc_copy PROVE Core'
<1>0. /\ gc.at = "copy" /\ gc.at \in Working /\ gc.j <= Len(items[gc.src])
      /\ items' = IF GcItem.state = "normal"
                  THEN [items EXCEPT ![wblk] = Append(items[wblk], GcItem)] ELSE items
      /\ gc' = [gc EXCEPT !.j = gc.j + 1]
      /\ UNCHANGED <<hdr, state, clean_blk_nums, wblk, gc_triggered, gc_waiter, gc_sem, tails,
                     kv_mutex, boot, client, allowed, at_risk>>
  BY DEF gc_copy, GcOnly, Working
<1>1. /\ Types /\ Up /\ gc \in GcType
      /\ \A c \in Client : client[c].at \notin Holding
  BY <1>0, GcProps
<1>a. \A b \in Blk : \A y \in ItemType :
        items' = [items EXCEPT ![b] = Append(items[b], y)] =>
          /\ items' \in [Blk -> Seq(ItemType)]
          /\ Len(items'[b]) = Len(items[b]) + 1
          /\ items'[b][Len(items[b]) + 1] = y
          /\ \A a \in Blk : a # b => items'[a] = items[a]
          /\ \A x \in Index(b) : items'[b][x] = items[b][x]
  BY <1>1, AppendProps
<1>. PICK s \in Blk : s = gc.src
  BY <1>0, GcProps
<1>. PICK d \in Blk : d = gc.dst
  BY <1>0, GcProps
<1>. PICK m \in Nat : m = gc.j
  BY <1>1 DEF GcType
<1>2. /\ s = 1 - d /\ d = 1 - s /\ s # d /\ wblk = d /\ hdr[d] = "clean" /\ state[d] = "clean"
      /\ hdr[s] = "dirty" /\ state[s] = "dirty" /\ clean_blk_nums = 1 /\ CopyOK
      /\ \A b \in Blk : b = s \/ b = d
      /\ \A x \in Index(d) : Normal(d, x)
      /\ \A b \in Blk : \A x \in Index(b) : Normal(b, x) => items[b][x].crc
      /\ \A b \in Blk : \A i, j \in Index(b) :
           ~(i < j /\ Normal(b, i) /\ Normal(b, j) /\ items[b][i].key = items[b][j].key)
  BY <1>0, GcProps
<1>3. /\ m \in 1 .. Len(items[s]) + 1 /\ Len(items[d]) < m
      /\ \A x \in Index(d) : \E i \in Index(s) :
           i < m /\ Normal(s, i) /\ items[d][x] = items[s][i]
      /\ \A i \in Index(s) : i < m /\ Normal(s, i) =>
           \E x \in Index(d) : items[d][x] = items[s][i]
  BY <1>2 DEF CopyOK
<1>4. /\ Len(items[s]) \in Nat /\ Len(items[d]) \in Nat /\ Len(items[s]) <= Cap
      /\ m \in Index(s) /\ m <= Len(items[s])
  BY <1>0, <1>1, <1>3, EmptyProps DEF Index, Types
<1>5. /\ gc' \in GcType /\ gc'.at = "copy" /\ gc'.src = s /\ gc'.dst = d /\ gc'.j = m + 1
  <2>1. m + 1 \in Nat
    OBVIOUS
  <2>. QED BY <1>0, <1>1, <2>1 DEF GcType
<1>6. ValOK /\ FlashOK
  BY DEF Core
<1>7. PICK e : e = items[s][m]
  OBVIOUS
<1>8. e \in ItemType /\ (Normal(s, m) <=> e.state = "normal") /\ GcItem = e
  BY <1>1, <1>4, <1>7 DEF Types, Index, Normal, GcItem
<1>9. /\ items' \in [Blk -> Seq(ItemType)] /\ items'[s] = items[s] /\ Index(s)' = Index(s)
      /\ Len(items'[d]) \in Nat /\ Len(items'[d]) <= Len(items[d]) + 1
      /\ \A x \in Index(d) : x \in Index(d)' /\ items'[d][x] = items[d][x]
      /\ \A x \in Index(d)' : x \in Index(d) \/ (e.state = "normal" /\ items'[d][x] = e
                                                 /\ x = Len(items[d]) + 1)
      /\ e.state = "normal" => \E x \in Index(d)' : items'[d][x] = e
  <2>1. CASE e.state = "normal"
    <3>1. items' = [items EXCEPT ![d] = Append(items[d], e)]
      BY <1>0, <1>2, <1>8, <2>1
    <3>2. /\ items' \in [Blk -> Seq(ItemType)]
          /\ Len(items'[d]) = Len(items[d]) + 1
          /\ items'[d][Len(items[d]) + 1] = e
          /\ \A a \in Blk : a # d => items'[a] = items[a]
          /\ \A x \in Index(d) : items'[d][x] = items[d][x]
      BY <1>8, <1>a, <3>1
    <3>. PICK n \in Nat : n = Len(items[d])
      BY <1>4
    <3>3. items'[s] = items[s] /\ Index(s)' = Index(s)
      BY <1>2, <3>2 DEF Index
    <3>4. Index(d)' = Index(d) \cup {n + 1}
      <4>1. 1 .. (n + 1) = (1 .. n) \cup {n + 1}
        OBVIOUS
      <4>. QED BY <3>2, <4>1 DEF Index
    <3>. QED BY <2>1, <3>2, <3>3, <3>4
  <2>2. CASE e.state # "normal"
    <3>1. items' = items
      BY <1>0, <1>8, <2>2
    <3>2. Index(d)' = Index(d) /\ Index(s)' = Index(s)
      BY <3>1 DEF Index
    <3>. QED BY <1>1, <1>4, <2>2, <3>1, <3>2 DEF Types
  <2>. QED BY <2>1, <2>2
<1>10. \A x \in Index(d)' : \E i \in Index(s) :
          i < m + 1 /\ Normal(s, i) /\ items'[d][x] = items[s][i]
  <2>. TAKE x \in Index(d)'
  <2>1. CASE x \in Index(d)
    <3>1. PICK i \in Index(s) : i < m /\ Normal(s, i) /\ items[d][x] = items[s][i]
      BY <1>3, <2>1
    <3>. QED BY <1>9, <2>1, <3>1 DEF Index
  <2>2. CASE e.state = "normal" /\ items'[d][x] = e
    BY <1>4, <1>7, <1>8, <2>2
  <2>. QED BY <1>9, <2>1, <2>2
<1>11. \A i \in Index(s) : Normal(s, i)' <=> Normal(s, i)
  BY <1>9 DEF Normal
<1>12. \A x \in Index(d)' : Normal(d, x)' /\ items'[d][x].crc
  <2>. TAKE x \in Index(d)'
  <2>1. PICK i \in Index(s) : i < m + 1 /\ Normal(s, i) /\ items'[d][x] = items[s][i]
    BY <1>10
  <2>. QED BY <1>2, <2>1 DEF Normal
<1>13. CopyOK'
  <2>1. gc'.j \in 1 .. Len(items'[s]) + 1 /\ Len(items'[d]) < gc'.j
    <3>1. PICK l \in Nat, ld \in Nat : l = Len(items[s]) /\ ld = Len(items'[d])
      BY <1>4, <1>9
    <3>2. m + 1 \in 1 .. l + 1 /\ ld < m + 1
      BY <1>3, <1>4, <1>9, <3>1
    <3>. QED BY <1>5, <1>9, <3>1, <3>2
  <2>2. \A x \in Index(d)' : \E i \in Index(s)' :
          i < gc'.j /\ Normal(s, i)' /\ items'[d][x] = items'[s][i]
    BY <1>5, <1>9, <1>10, <1>11
  <2>3. \A i \in Index(s)' : i < gc'.j /\ Normal(s, i)' =>
           \E x \in Index(d)' : items'[d][x] = items'[s][i]
    <3>. SUFFICES ASSUME NEW i \in Index(s), i < m + 1, Normal(s, i)
                  PROVE  \E x \in Index(d)' : items'[d][x] = items[s][i]
      BY <1>5, <1>9, <1>11
    <3>1. CASE i < m
      <4>1. PICK x \in Index(d) : items[d][x] = items[s][i]
        BY <1>3, <3>1
      <4>. QED BY <1>9, <4>1
    <3>2. CASE i = m
      BY <1>7, <1>8, <1>9, <3>2
    <3>. QED BY <3>1, <3>2 DEF Index
  <2>. QED BY <1>5, <2>1, <2>2, <2>3 DEF CopyOK, Index, Normal
<1>14. GcOK'
  <2>1. /\ gc'.src = 1 - gc'.dst /\ wblk' = gc'.dst
        /\ hdr'[gc'.dst] = "clean" /\ state'[gc'.dst] = "clean"
        /\ hdr'[gc'.src] = "dirty" /\ state'[gc'.src] = "dirty" /\ clean_blk_nums' = 1
    BY <1>0, <1>2, <1>5
  <2>2. \A x \in Index(gc.dst)' : Normal(gc.dst, x)'
    BY <1>5, <1>12 DEF Index, Normal
  <2>. QED BY <1>5, <1>13, <2>1, <2>2 DEF GcOK
<1>15. FlashType'
  <2>1. \A b \in Blk : Len(items'[b]) <= Cap
    <3>1. Len(items'[d]) <= Cap /\ Len(items'[s]) <= Cap
      BY <1>3, <1>4, <1>9, Values
    <3>. QED BY <1>2, <3>1
  <2>2. \A b \in Blk : \A x \in Index(b)' : items'[b][x].crc => items'[b][x].val \in Val
    <3>1. \A x \in Index(s) : items[s][x].crc => items[s][x].val \in Val
      BY <1>1 DEF Types
    <3>2. \A x \in Index(d)' : items'[d][x].crc => items'[d][x].val \in Val
      <4>. TAKE x \in Index(d)'
      <4>1. PICK i \in Index(s) : items'[d][x] = items[s][i]
        BY <1>10
      <4>. QED BY <3>1, <4>1
    <3>3. \A x \in Index(s)' : items'[s][x].crc => items'[s][x].val \in Val
      BY <1>9, <3>1
    <3>. QED BY <1>2, <3>2, <3>3
  <2>3. hdr' \in [Blk -> {"erased", "clean", "used", "dirty"}]
    BY <1>0, <1>1 DEF Types
  <2>. QED BY <1>9, <2>1, <2>2, <2>3 DEF FlashType
<1>16. FlashOK'
  BY <1>0, <1>2 DEF FlashOK, InUse, CleanFull
<1>17. MarkOK'
  BY <1>0, <1>2 DEF MarkOK
<1>18. CrcOK'
  <2>1. \A x \in Index(s)' : Normal(s, x)' => items'[s][x].crc
    BY <1>2, <1>9, <1>11
  <2>. QED BY <1>2, <1>12, <2>1 DEF CrcOK
<1>19. PairOK'
  <2>. SUFFICES ASSUME NEW b \in Blk, NEW x \in Index(b)', NEW y \in Index(b)', x < y,
                       Normal(b, x)', Normal(b, y)', items'[b][x].key = items'[b][y].key
                PROVE  FALSE
    BY DEF PairOK
  <2>1. CASE b = s
    BY <1>2, <1>9, <1>11, <2>1
  <2>2. CASE b = d
    <3>1. CASE y \in Index(d)
      <4>1. x \in Index(d)
        BY <1>9, <2>2, <3>1 DEF Index
      <4>2. items[d][x].key = items[d][y].key
        BY <1>9, <2>2, <3>1, <4>1
      <4>. QED BY <1>2, <2>2, <3>1, <4>1, <4>2
    <3>2. CASE y \notin Index(d)
      <4>1. /\ items'[d][y] = e /\ e.state = "normal" /\ y = Len(items[d]) + 1
        BY <1>9, <2>2, <3>2
      <4>2. x \in Index(d)
        <5>1. x \in Index(d) \/ x = y
          BY <1>9, <2>2, <4>1
        <5>2. y \in Nat
          BY <1>4, <4>1
        <5>. QED BY <5>1, <5>2
      <4>3. PICK i \in Index(s) : i < m /\ Normal(s, i) /\ items[d][x] = items[s][i]
        BY <1>3, <4>2
      <4>4. items[s][i].key = items[s][m].key /\ Normal(s, m)
        BY <1>7, <1>8, <1>9, <2>2, <4>1, <4>2, <4>3
      <4>. QED BY <1>2, <1>4, <4>3, <4>4
    <3>. QED BY <3>1, <3>2
  <2>. QED BY <1>2, <2>1, <2>2
<1>20. ValOK'
  <2>1. Main(s) /\ ~Main(d) /\ Main(s)' /\ ~Main(d)'
    BY <1>0, <1>2 DEF Main, InUse, CleanFull
  <2>2. \A k \in Key : Live(s, k)' = Live(s, k)
    BY <1>9 DEF Live, Has, Normal
  <2>3. \A k \in Key : /\ \A i \in Live(s, k) : items[s][i].val \in allowed[k]
                       /\ Live(s, k) = {} => NoVal \in allowed[k] \/ k \in at_risk
    BY <1>2, <1>6, <2>1 DEF ValOK
  <2>. QED BY <1>0, <1>2, <1>9, <2>1, <2>2, <2>3 DEF ValOK
<1>21. state' \in [Blk -> {"none", "clean", "used", "dirty"}] /\ clean_blk_nums' \in 0 .. 2
  BY <1>0, <1>1 DEF Types
<1>. QED BY <1>0, <1>5, <1>14, <1>15, <1>16, <1>17, <1>18, <1>19, <1>20, <1>21, GcFrame DEF GcHolding

\* The block that was copied is erased: the copies are all there.
LEMMA GcErase ==
    ASSUME Core, gc_erase PROVE Core'
<1>0. /\ gc.at = "copy" /\ gc.at \in Working /\ gc.j > Len(items[gc.src])
      /\ hdr' = [hdr EXCEPT ![gc.src] = "erased"]
      /\ items' = [items EXCEPT ![gc.src] = <<>>]
      /\ gc' = [gc EXCEPT !.at = "format"]
      /\ UNCHANGED <<state, clean_blk_nums, wblk, gc_triggered, gc_waiter, gc_sem, tails,
                     kv_mutex, boot, client, allowed, at_risk>>
  BY DEF gc_erase, GcOnly, Working
<1>1. /\ Types /\ Up /\ gc \in GcType /\ ValOK
      /\ \A c \in Client : client[c].at \notin Holding
  BY <1>0, GcProps DEF Core
<1>. PICK s \in Blk : s = gc.src
  BY <1>0, GcProps
<1>. PICK d \in Blk : d = gc.dst
  BY <1>0, GcProps
<1>2. /\ s = 1 - d /\ d = 1 - s /\ s # d /\ wblk = d /\ hdr[d] = "clean" /\ state[d] = "clean"
      /\ hdr[s] = "dirty" /\ state[s] = "dirty" /\ clean_blk_nums = 1 /\ CopyOK
      /\ \A b \in Blk : b = s \/ b = d
      /\ \A x \in Index(d) : Normal(d, x)
      /\ \A b \in Blk : \A x \in Index(b) : Normal(b, x) => items[b][x].crc
      /\ \A b \in Blk : \A i, j \in Index(b) :
           ~(i < j /\ Normal(b, i) /\ Normal(b, j) /\ items[b][i].key = items[b][j].key)
  BY <1>0, GcProps
<1>3. /\ \A x \in Index(d) : \E i \in Index(s) : Normal(s, i) /\ items[d][x] = items[s][i]
      /\ \A i \in Index(s) : Normal(s, i) => \E x \in Index(d) : items[d][x] = items[s][i]
  <2>1. \A i \in Index(s) : i < gc.j
    <3>1. Len(items[s]) \in Nat /\ gc.j \in Nat
      BY <1>1, EmptyProps DEF GcType
    <3>. QED BY <1>0, <3>1 DEF Index
  <2>. QED BY <1>2, <2>1 DEF CopyOK
<1>4. /\ gc' \in GcType /\ gc'.at = "format" /\ gc'.src = s /\ gc'.dst = d
  BY <1>0, <1>1 DEF GcType, GcHolding
<1>5. /\ items' \in [Blk -> Seq(ItemType)] /\ hdr' \in [Blk -> {"erased", "clean", "used", "dirty"}]
      /\ items'[s] = <<>> /\ hdr'[s] = "erased" /\ items'[d] = items[d] /\ hdr'[d] = "clean"
  BY <1>0, <1>1, <1>2 DEF Types
<1>6. Index(s)' = {} /\ Index(d)' = Index(d)
  BY <1>5 DEF Index
<1>7. \A x \in Index(d) : Normal(d, x)' <=> Normal(d, x)
  BY <1>5 DEF Normal
<1>8. FlashType'
  <2>0. /\ \A a \in Blk : Len(items[a]) <= Cap
        /\ \A a \in Blk : \A i \in Index(a) : items[a][i].crc => items[a][i].val \in Val
    BY <1>1 DEF Types
  <2>1. \A a \in Blk : Len(items'[a]) <= Cap
    <3>1. Len(<<>>) <= Cap
      BY Values
    <3>. QED BY <1>2, <1>5, <2>0, <3>1
  <2>2. \A a \in Blk : \A i \in Index(a)' : items'[a][i].crc => items'[a][i].val \in Val
    <3>1. \A i \in Index(d)' : items'[d][i].crc => items'[d][i].val \in Val
      BY <1>5, <1>6, <2>0
    <3>. QED BY <1>2, <1>6, <3>1
  <2>. QED BY <1>5, <2>1, <2>2 DEF FlashType
<1>9. FlashOK'
  BY <1>2, <1>5 DEF FlashOK, InUse, CleanFull
<1>10. GcOK'
  <2>1. /\ gc'.src = 1 - gc'.dst /\ wblk' = gc'.dst
        /\ hdr'[gc'.dst] = "clean" /\ state'[gc'.dst] = "clean"
        /\ hdr'[gc'.src] = "erased" /\ clean_blk_nums' = 1
    BY <1>0, <1>2, <1>4, <1>5
  <2>2. \A x \in Index(gc.dst)' : Normal(gc.dst, x)'
    BY <1>2, <1>4, <1>5 DEF Index, Normal
  <2>. QED BY <1>4, <2>1, <2>2 DEF GcOK
<1>11. MarkOK'
  BY <1>2, <1>5 DEF MarkOK
<1>12. CrcOK'
  <2>1. \A x \in Index(d)' : Normal(d, x)' => items'[d][x].crc
    BY <1>2, <1>5, <1>6, <1>7
  <2>. QED BY <1>2, <1>6, <2>1 DEF CrcOK
<1>13. PairOK'
  <2>. SUFFICES ASSUME NEW b \in Blk, NEW x \in Index(b)', NEW y \in Index(b)', x < y,
                       Normal(b, x)', Normal(b, y)', items'[b][x].key = items'[b][y].key
                PROVE  FALSE
    BY DEF PairOK
  <2>1. b = d
    BY <1>2, <1>6
  <2>2. x \in Index(d) /\ y \in Index(d)
    BY <1>6, <2>1
  <2>3. Normal(d, x) /\ Normal(d, y)
    BY <1>7, <2>1, <2>2
  <2>4. items[d][x].key = items[d][y].key
    BY <1>5, <2>1
  <2>. QED BY <1>2, <2>2, <2>3, <2>4
<1>14. ValOK'
  <2>1. Main(s) /\ ~Main(d)
    BY <1>2 DEF Main, InUse, CleanFull
  <2>2. ~Main(s)' /\ (items[d] # <<>> => Main(d)')
    BY <1>2, <1>5 DEF Main, InUse, CleanFull
  <2>3. \A k \in Key : /\ \A i \in Live(s, k) : items[s][i].val \in allowed[k]
                       /\ Live(s, k) = {} => NoVal \in allowed[k] \/ k \in at_risk
    BY <1>1, <1>2, <2>1 DEF ValOK
  <2>4. \A k \in Key : Live(d, k)' = Live(d, k)
    BY <1>5, <1>6 DEF Live, Has, Normal
  <2>5. ASSUME NEW k \in Key, NEW x \in Live(d, k) PROVE items[d][x].val \in allowed[k]
    <3>1. x \in Index(d) /\ items[d][x].key = k /\ items[d][x].crc
      BY <2>5 DEF Live, Has
    <3>2. PICK i \in Index(s) : Normal(s, i) /\ items[d][x] = items[s][i]
      BY <1>3, <3>1
    <3>3. i \in Live(s, k)
      BY <3>1, <3>2 DEF Live, Has
    <3>. QED BY <2>3, <3>2, <3>3
  <2>6. ASSUME NEW k \in Key, Main(d)' => Live(d, k) = {} PROVE NoVal \in allowed[k] \/ k \in at_risk
    <3>1. Live(s, k) = {}
      <4>. SUFFICES ASSUME NEW i \in Live(s, k) PROVE FALSE
        OBVIOUS
      <4>1. i \in Index(s) /\ Normal(s, i) /\ items[s][i].key = k /\ items[s][i].crc
        BY DEF Live, Has
      <4>2. PICK x \in Index(d) : items[d][x] = items[s][i]
        BY <1>3, <4>1
      <4>3. x \in Live(d, k)
        BY <1>2, <4>1, <4>2 DEF Live, Has
      <4>4. items[d] # <<>>
        BY <1>1, <4>2, EmptyProps
      <4>. QED BY <2>2, <2>6, <4>3, <4>4
    <3>. QED BY <2>3, <3>1
  <2>. QED BY <1>0, <1>2, <1>5, <2>2, <2>4, <2>5, <2>6 DEF ValOK
<1>15. state' \in [Blk -> {"none", "clean", "used", "dirty"}] /\ clean_blk_nums' \in 0 .. 2
  BY <1>0, <1>1 DEF Types
<1>. QED BY <1>0, <1>4, <1>8, <1>9, <1>10, <1>11, <1>12, <1>13, <1>14, <1>15, GcFrame DEF GcHolding

\* The block that was erased gets its header, then the other one is used.
LEMMA GcHeader ==
    ASSUME Core, gc_format \/ gc_used PROVE Core'
<1>0. /\ gc.at \in {"format", "used"} /\ gc.at \in Working
      /\ UNCHANGED <<items, wblk, gc_triggered, gc_waiter, gc_sem, tails,
                     kv_mutex, boot, client, allowed, at_risk>>
  BY DEF gc_format, gc_used, GcOnly, Working
<1>1. /\ Types /\ Up /\ gc \in GcType /\ ValOK /\ FlashOK
      /\ \A c \in Client : client[c].at \notin Holding
  BY <1>0, GcProps DEF Core
<1>. PICK s \in Blk : s = gc.src
  BY <1>0, GcProps
<1>. PICK d \in Blk : d = gc.dst
  BY <1>0, GcProps
<1>2. /\ s = 1 - d /\ d = 1 - s /\ s # d /\ wblk = d /\ hdr[d] = "clean" /\ state[d] = "clean"
      /\ gc.at = "format" => hdr[s] = "erased" /\ clean_blk_nums = 1
      /\ gc.at = "used" => /\ hdr[s] = "clean" /\ items[s] = <<>>
                           /\ state[s] = "clean" /\ clean_blk_nums = 2
      /\ \A b \in Blk : b = s \/ b = d
      /\ \A x \in Index(d) : Normal(d, x)
      /\ \A b \in Blk : \A x \in Index(b) : Normal(b, x) => items[b][x].crc
      /\ \A b \in Blk : \A i, j \in Index(b) :
           ~(i < j /\ Normal(b, i) /\ Normal(b, j) /\ items[b][i].key = items[b][j].key)
  BY <1>0, GcProps
<1>3. items[s] = <<>> /\ ~InUse(s) /\ ~InUse(d)
  BY <1>0, <1>1, <1>2 DEF FlashOK, InUse
<1>4. /\ Index(s)' = {} /\ Index(d)' = Index(d)
      /\ \A x \in Index(d) : Normal(d, x)' <=> Normal(d, x)
  <2>1. Index(s) = {}
    BY <1>1, <1>3, EmptyProps
  <2>. QED BY <1>0, <2>1 DEF Index, Normal
<1>5. CrcOK'
  <2>1. \A x \in Index(d)' : Normal(d, x)' => items'[d][x].crc
    BY <1>0, <1>2, <1>4
  <2>. QED BY <1>2, <1>4, <2>1 DEF CrcOK
<1>6. PairOK'
  <2>. SUFFICES ASSUME NEW b \in Blk, NEW x \in Index(b)', NEW y \in Index(b)', x < y,
                       Normal(b, x)', Normal(b, y)', items'[b][x].key = items'[b][y].key
                PROVE  FALSE
    BY DEF PairOK
  <2>. QED BY <1>0, <1>2, <1>4
<1>7. MarkOK'
  BY <1>2, <1>4 DEF MarkOK
<1>8. ASSUME hdr' \in [Blk -> {"erased", "clean", "used", "dirty"}],
             hdr'[s] = "clean", hdr'[d] \in {"clean", "used"}
      PROVE  FlashType' /\ FlashOK' /\ ValOK'
  <2>1. FlashType'
    BY <1>0, <1>1, <1>8 DEF FlashType, Types, Index
  <2>2. FlashOK'
    BY <1>0, <1>2, <1>3, <1>8 DEF FlashOK, InUse, CleanFull
  <2>3. ~Main(s) /\ (Main(d) <=> items[d] # <<>>)
    BY <1>2, <1>3 DEF Main, CleanFull
  <2>4. ~Main(s)' /\ (items[d] # <<>> => Main(d)')
    BY <1>0, <1>2, <1>3, <1>8 DEF Main, CleanFull, InUse
  <2>5. items[d] = <<>> => \A k \in Key : Live(d, k) = {}
    BY <1>1, EmptyProps DEF Live, Has
  <2>6. \A k \in Key : Live(d, k)' = Live(d, k)
    BY <1>0, <1>1, SameItems
  <2>7. \A k \in Key : /\ \A i \in Live(d, k) : items[d][i].val \in allowed[k]
                       /\ Live(d, k) = {} => NoVal \in allowed[k] \/ k \in at_risk
    BY <1>1, <1>2, <2>3, <2>5 DEF ValOK
  <2>8. \A k \in Key : (\A b \in Blk : Main(b)' => Live(b, k)' = {}) => Live(d, k) = {}
    BY <2>4, <2>5, <2>6
  <2>9. ValOK'
    BY <1>0, <1>2, <2>4, <2>6, <2>7, <2>8 DEF ValOK
  <2>. QED BY <2>1, <2>2, <2>9
<1>9. CASE gc_format
  <2>1. /\ gc.at = "format" /\ hdr' = [hdr EXCEPT ![s] = "clean"]
        /\ state' = [state EXCEPT ![s] = "clean"]
        /\ clean_blk_nums' = clean_blk_nums + 1 /\ gc' = [gc EXCEPT !.at = "used"]
    BY <1>9 DEF gc_format
  <2>2. gc' \in GcType /\ gc'.at = "used" /\ gc'.src = s /\ gc'.dst = d
    BY <1>1, <2>1 DEF GcType, GcHolding
  <2>3. /\ hdr' \in [Blk -> {"erased", "clean", "used", "dirty"}]
        /\ state' \in [Blk -> {"none", "clean", "used", "dirty"}] /\ clean_blk_nums' = 2
        /\ hdr'[s] = "clean" /\ hdr'[d] = "clean" /\ state'[s] = "clean" /\ state'[d] = "clean"
    <3>1. clean_blk_nums' = 2
      BY <1>2, <2>1
    <3>2. /\ hdr \in [Blk -> {"erased", "clean", "used", "dirty"}]
          /\ state \in [Blk -> {"none", "clean", "used", "dirty"}]
      BY <1>1 DEF Types
    <3>. QED BY <1>2, <2>1, <3>1, <3>2
  <2>4. GcOK'
    <3>1. /\ gc'.src = 1 - gc'.dst /\ wblk' = gc'.dst
          /\ hdr'[gc'.dst] = "clean" /\ state'[gc'.dst] = "clean"
          /\ hdr'[gc'.src] = "clean" /\ items'[gc'.src] = <<>> /\ state'[gc'.src] = "clean"
          /\ clean_blk_nums' = 2
      BY <1>0, <1>2, <1>3, <2>2, <2>3
    <3>2. \A x \in Index(gc.dst)' : Normal(gc.dst, x)'
      BY <1>0, <1>2, <2>2 DEF Index, Normal
    <3>. QED BY <2>2, <3>1, <3>2 DEF GcOK, CleanEmpty
  <2>. QED BY <1>0, <1>5, <1>6, <1>7, <1>8, <2>2, <2>3, <2>4, GcFrame DEF GcHolding
<1>10. CASE gc_used
  <2>1. /\ gc.at = "used" /\ hdr' = [hdr EXCEPT ![d] = "used"]
        /\ state' = [state EXCEPT ![d] = "used"]
        /\ clean_blk_nums' = clean_blk_nums - 1 /\ gc' = [gc EXCEPT !.at = "exit"]
    BY <1>2, <1>10 DEF gc_used
  <2>2. gc' \in GcType /\ gc'.at = "exit"
    BY <1>1, <2>1 DEF GcType, GcHolding
  <2>3. /\ hdr' \in [Blk -> {"erased", "clean", "used", "dirty"}]
        /\ state' \in [Blk -> {"none", "clean", "used", "dirty"}] /\ clean_blk_nums' = 1
        /\ hdr'[s] = "clean" /\ hdr'[d] = "used" /\ state'[s] = "clean" /\ state'[d] = "used"
    BY <1>1, <1>2, <2>1 DEF Types
  <2>4. hdr' = state'
    BY <1>2, <2>3
  <2>5. Idle'
    BY <1>0, <1>2, <1>3, <2>3, <2>4 DEF Idle, InUse, CleanEmpty
  <2>6. GcOK'
    BY <2>2, <2>5 DEF GcOK
  <2>. QED BY <1>0, <1>5, <1>6, <1>7, <1>8, <2>2, <2>3, <2>6, GcFrame DEF GcHolding
<1>. QED BY <1>9, <1>10

-----------------------------------------------------------------------------
(***************************************************************************)
(* The power fails.                                                        *)
(***************************************************************************)
\* A write that is cut short leaves one item at most, in the block written to,
\* and its crc does not match.
LEMMA TornWrite ==
    ASSUME Core, PowerFailure
    PROVE  \/ UNCHANGED items
           \/ \E e \in ItemType :
                /\ e.crc = FALSE
                /\ items' = [items EXCEPT ![wblk] = Append(items[wblk], e)]
                /\ Len(items[wblk]) < Cap /\ Up
                /\ InUse(wblk) \/ gc.at = "copy"
<1>. PICK w \in Blk : w = wblk
  BY DEF Core, Types
<1>1. items \in [Blk -> Seq(ItemType)] /\ items[w] \in Seq(ItemType) /\ Types
  BY DEF Core, Types
<1>2. PICK s \in {items[w]} \cup UNION {Torn(items[w], i) : i \in InFlight} :
        items' = [items EXCEPT ![w] = s]
  BY DEF PowerFailure
<1>3. CASE s = items[w]
  BY <1>1, <1>2, <1>3
<1>4. CASE s # items[w]
  <2>1. PICK x \in InFlight : s \in Torn(items[w], x)
    BY <1>2, <1>4
  <2>2. PICK e : /\ e = Junk \/ e = [x EXCEPT !.crc = FALSE, !.val = NULL]
                 /\ s = Append(items[w], e)
    BY <1>4, <2>1 DEF Torn
  <2>3. x \in Written /\ Len(items[w]) < Cap /\ Up /\ (InUse(w) \/ gc.at = "copy")
    <3>1. CASE \E c \in Client : client[c].at = "store" /\ x = NewItem(c)
      <4>1. PICK c \in Client : client[c].at = "store" /\ x = NewItem(c)
        BY <3>1
      <4>2. client[c].at \in Holding
        BY <4>1 DEF Holding
      <4>3. Up /\ InUse(w) /\ client[c].key \in Key /\ client[c].old \in Place
        BY <4>2, HolderProps, IdleProps
      <4>4. client[c].val \in Val /\ Len(items[w]) < Cap
        <5>1. StoreOK(client[c].key, client[c].val, client[c].old)
          BY <4>1 DEF Core, HoldOK
        <5>. QED BY <5>1 DEF StoreOK
      <4>5. x \in Written
        <5>1. \A k \in Key, v \in Val, o \in Place : Item(k, v, o) \in Written
          BY NewProps
        <5>. QED BY <4>1, <4>3, <4>4, <5>1 DEF NewItem
      <4>. QED BY <4>3, <4>4, <4>5
    <3>2. CASE /\ gc.at = "copy" /\ gc.j <= Len(items[gc.src])
               /\ GcItem.state = "normal" /\ x = GcItem
      <4>1. gc.at \in Working
        BY <3>2 DEF Working
      <4>2. /\ Up /\ gc.src \in Blk /\ gc.dst = w /\ CopyOK
        BY <3>2, <4>1, GcProps
      <4>3. /\ Len(items[w]) < gc.j /\ gc.j \in 1 .. Len(items[gc.src]) + 1
        BY <4>2 DEF CopyOK
      <4>4. /\ items[gc.src] \in Seq(ItemType) /\ Len(items[gc.src]) <= Cap
            /\ Len(items[gc.src]) \in Nat /\ Len(items[w]) \in Nat
        BY <1>1, <4>2 DEF Types
      <4>5. gc.j \in 1 .. Len(items[gc.src]) /\ Len(items[w]) < Cap
        BY <3>2, <4>3, <4>4, Values
      <4>6. x \in ItemType
        BY <3>2, <4>4, <4>5 DEF GcItem
      <4>7. x \in Written
        BY <3>2, <4>6, JunkProps
      <4>. QED BY <3>2, <4>2, <4>5, <4>7
    <3>. QED BY <2>1, <3>1, <3>2 DEF InFlight
  <2>4. e \in ItemType /\ e.crc = FALSE
    <3>1. CASE e = Junk
      BY <3>1, JunkProps
    <3>2. CASE e = [x EXCEPT !.crc = FALSE, !.val = NULL]
      BY <2>3, <3>2, TornProps, WrittenProps
    <3>. QED BY <2>2, <3>1, <3>2
  <2>. QED BY <1>2, <2>2, <2>3, <2>4
<1>. QED BY <1>3, <1>4

\* What the flash holds after a power failure.
LEMMA TornFlash ==
    ASSUME Core, PowerFailure
    PROVE  /\ items' \in [Blk -> Seq(ItemType)]
           /\ \A b \in Blk : Len(items'[b]) <= Cap
           /\ \A b \in Blk : \A i \in Index(b) : i \in Index(b)' /\ items'[b][i] = items[b][i]
           /\ \A b \in Blk : \A i \in Index(b)' :
                i \in Index(b) \/ (items'[b][i].crc = FALSE /\ \A h \in Index(b) : h < i)
           /\ \A b \in Blk : \/ items'[b] = items[b] /\ Index(b)' = Index(b)
                             \/ b = wblk /\ Up /\ (InUse(b) \/ gc.at = "copy")
<1>1. /\ Types /\ items \in [Blk -> Seq(ItemType)] /\ \A b \in Blk : Len(items[b]) <= Cap
      /\ wblk \in Blk
  BY DEF Core, Types
<1>2. CASE UNCHANGED items
  BY <1>1, <1>2 DEF Index
<1>3. CASE ~UNCHANGED items
  <2>. PICK w \in Blk : w = wblk
    BY <1>1
  <2>1. \A y \in ItemType : items' = [items EXCEPT ![w] = Append(items[w], y)] =>
           /\ items' \in [Blk -> Seq(ItemType)]
           /\ Len(items'[w]) = Len(items[w]) + 1 /\ Len(items[w]) \in Nat
           /\ items'[w][Len(items[w]) + 1] = y
           /\ \A a \in Blk : a # w => items'[a] = items[a]
           /\ \A x \in Index(w) : items'[w][x] = items[w][x]
    BY <1>1, AppendProps
  <2>2. PICK e \in ItemType :
          /\ e.crc = FALSE
          /\ items' = [items EXCEPT ![w] = Append(items[w], e)]
          /\ Len(items[w]) < Cap /\ Up
          /\ InUse(w) \/ gc.at = "copy"
    BY <1>3, TornWrite
  <2>3. /\ items' \in [Blk -> Seq(ItemType)]
        /\ Len(items'[w]) = Len(items[w]) + 1 /\ Len(items[w]) \in Nat
        /\ items'[w][Len(items[w]) + 1] = e
        /\ \A a \in Blk : a # w => items'[a] = items[a]
        /\ \A x \in Index(w) : items'[w][x] = items[w][x]
    BY <2>1, <2>2
  <2>4. \A b \in Blk : Len(items'[b]) <= Cap
    <3>1. Len(items'[w]) <= Cap
      BY <2>2, <2>3, Values
    <3>. QED BY <1>1, <2>3, <3>1
  <2>5. \A b \in Blk : b # w => Index(b)' = Index(b)
    BY <2>3 DEF Index
  <2>6. /\ \A i \in Index(w) : i \in Index(w)' /\ i < Len(items[w]) + 1
        /\ \A i \in Index(w)' : i \in Index(w) \/ i = Len(items[w]) + 1
    BY <2>3 DEF Index
  <2>. QED BY <2>2, <2>3, <2>4, <2>5, <2>6
<1>. QED BY <1>2, <1>3

\* Where the store stands when it starts again.
LEMMA Reboot ==
    ASSUME boot' = Boot("scan", 0, 1, {}), state' = [b \in Blk |-> "none"],
           clean_blk_nums' = 0, wblk' = 0, kv_mutex' = NULL, gc_triggered' = FALSE,
           gc' = NoGc, client' = [c \in Client |-> NoOp]
    PROVE  /\ ~Up' /\ BootOK' /\ GcOK' /\ HoldOK' /\ Mutexed' /\ boot' \in BootType
           /\ gc' \in GcType /\ client' \in [Client -> ClientType]
           /\ \A c \in Client : client'[c].at = "none"
           /\ \A b \in Blk : \A i \in Nat : i >= 1 => Ahead(b, i)'
<1>1. /\ boot' \in BootType /\ boot'.at = "scan" /\ boot'.blk = 0 /\ boot'.j = 1
      /\ boot'.unclean = {}
  BY BlkProps, BootRecord
<1>2. Scanning' /\ ~Up' /\ ~Reformat'
  BY <1>1 DEF Scanning, Up, Reformat
<1>3. \A b \in Blk : ~Passed(b)'
  BY <1>1, <1>2, BlkProps DEF Passed
<1>4. BootOK'
  <2>1. boot'.unclean = {b \in Blk : Passed(b)' /\ CleanFull(b)'}
    BY <1>1, <1>3
  <2>2. clean_blk_nums' = (IF Passed(0)' /\ CleanEmpty(0)' THEN 1 ELSE 0)
                        + (IF Passed(1)' /\ CleanEmpty(1)' THEN 1 ELSE 0)
    BY <1>3, BlkProps
  <2>3. \A b \in Blk : ~(b < boot'.blk) /\ state'[b] = "none"
    BY <1>1 DEF Blk
  <2>. QED BY <1>1, <1>2, <2>1, <2>2, <2>3 DEF BootOK
<1>5. GcOK'
  BY <1>2 DEF GcOK
<1>6. NoOp \in ClientType /\ NoOp.at = "none"
  BY Values DEF NoOp, Op, ClientType, ClientPlace
<1>7. client' \in [Client -> ClientType] /\ \A c \in Client : client'[c].at = "none"
  BY <1>6
<1>8. HoldOK'
  BY <1>7 DEF HoldOK
<1>9. gc' \in GcType /\ gc'.at = "none"
  BY GcRecord, BlkProps DEF NoGc
<1>10. Mutexed'
  <2>1. \A c \in Client : client'[c].at \notin Holding /\ kv_mutex' # c
    BY <1>7, Values DEF Holding
  <2>. QED BY <1>7, <1>9, <2>1, Values DEF Mutexed, GcHolding
<1>11. \A b \in Blk : \A i \in Nat : i >= 1 => Ahead(b, i)'
  BY <1>1, <1>2 DEF Ahead, Blk
<1>. QED BY <1>1, <1>2, <1>4, <1>5, <1>7, <1>8, <1>9, <1>10, <1>11

\* The power fails and the system starts again.
LEMMA Failure ==
    ASSUME Core, PowerFailure PROVE Core'
<1>0. /\ boot' = Boot("scan", 0, 1, {}) /\ state' = [b \in Blk |-> "none"]
      /\ clean_blk_nums' = 0 /\ wblk' = 0 /\ kv_mutex' = NULL /\ gc_triggered' = FALSE
      /\ gc_waiter' = 0 /\ gc_sem' = 0 /\ tails' = 0
      /\ gc' = NoGc /\ client' = [c \in Client |-> NoOp]
      /\ at_risk' = at_risk \cup SelfOrigin /\ UNCHANGED <<hdr, allowed>>
  BY DEF PowerFailure
<1>1. /\ ~Up' /\ BootOK' /\ GcOK' /\ HoldOK' /\ Mutexed' /\ boot' \in BootType
      /\ gc' \in GcType /\ client' \in [Client -> ClientType]
      /\ \A c \in Client : client'[c].at = "none"
      /\ \A b \in Blk : \A i \in Nat : i >= 1 => Ahead(b, i)'
  BY <1>0, Reboot
<1>2. /\ items' \in [Blk -> Seq(ItemType)]
      /\ \A b \in Blk : Len(items'[b]) <= Cap
      /\ \A b \in Blk : \A i \in Index(b) : i \in Index(b)' /\ items'[b][i] = items[b][i]
      /\ \A b \in Blk : \A i \in Index(b)' :
           i \in Index(b) \/ (items'[b][i].crc = FALSE /\ \A h \in Index(b) : h < i)
      /\ \A b \in Blk : \/ items'[b] = items[b] /\ Index(b)' = Index(b)
                        \/ b = wblk /\ Up /\ (InUse(b) \/ gc.at = "copy")
  BY TornFlash
<1>3. \A b \in Blk : \A i \in Index(b)' : i \in Nat /\ Ahead(b, i)'
  <2>1. \A b \in Blk : \A i \in Index(b)' : i \in Nat /\ i >= 1
    BY <1>2 DEF Index
  <2>. QED BY <1>1, <2>1
<1>4. Types
  BY DEF Core
<1>. PICK w \in Blk : w = wblk
  BY <1>4 DEF Types
<1>5. \A b \in Blk : \A i \in Index(b) : Normal(b, i)' <=> Normal(b, i)
  BY <1>2 DEF Normal
<1>6. \A b \in Blk : InUse(b)' <=> InUse(b)
  BY <1>0 DEF InUse
<1>7. items'[w] = items[w] \/ InUse(w) \/ (hdr[w] = "clean" /\ hdr[1 - w] = "dirty")
  <2>1. CASE gc.at = "copy"
    <3>1. gc.at \in Working
      BY <2>1 DEF Working
    <3>. QED BY <2>1, <3>1, GcProps
  <2>. QED BY <1>2, <2>1
<1>8. FlashType'
  <2>1. hdr' \in [Blk -> {"erased", "clean", "used", "dirty"}]
    BY <1>0, <1>4 DEF Types
  <2>2. \A b \in Blk : \A i \in Index(b)' : items'[b][i].crc => items'[b][i].val \in Val
    <3>. SUFFICES ASSUME NEW b \in Blk, NEW i \in Index(b)', items'[b][i].crc
                  PROVE  items'[b][i].val \in Val
      OBVIOUS
    <3>1. i \in Index(b)
      BY <1>2
    <3>2. items'[b][i] = items[b][i]
      BY <1>2, <3>1
    <3>. QED BY <1>4, <3>1, <3>2 DEF Types
  <2>. QED BY <1>2, <2>1, <2>2 DEF FlashType
<1>9. Types'
  <2>1. state' \in [Blk -> {"none", "clean", "used", "dirty"}]
    BY <1>0
  <2>2. clean_blk_nums' \in 0 .. 2 /\ wblk' \in Blk
    BY <1>0, BlkProps
  <2>3. /\ gc_triggered' \in BOOLEAN /\ gc_waiter' \in Nat /\ gc_sem' \in Nat /\ tails' \in Nat
        /\ kv_mutex' \in Client \cup {"gc", NULL}
    BY <1>0
  <2>4. allowed' \in [Key -> SUBSET (Val \cup {NoVal})]
    BY <1>0, <1>4 DEF Types
  <2>5. \A c \in Client : client'[c].at # "none" => client'[c].key \in Key
    BY <1>1
  <2>. QED BY <1>1, <1>8, <2>1, <2>2, <2>3, <2>4, <2>5 DEF Types, FlashType
<1>10. \A b \in Blk : b # w => items'[b] = items[b]
  BY <1>2
<1>11. FlashOK'
  <2>. SUFFICES ASSUME NEW b \in Blk
                PROVE  /\ InUse(b)' => ~InUse(1 - b)'
                       /\ hdr'[b] = "erased" => items'[b] = <<>>
                       /\ CleanFull(b)' => ~CleanFull(1 - b)'
    BY DEF FlashOK
  <2>1. /\ 1 - b \in Blk /\ 1 - b # b /\ (b = w \/ 1 - b = w) /\ (b # w => 1 - w = b)
        /\ (b = w => 1 - w = 1 - b)
    BY BlkProps
  <2>2. /\ InUse(b) => ~InUse(1 - b)
        /\ hdr[b] = "erased" => items[b] = <<>>
        /\ CleanFull(b) => ~CleanFull(1 - b)
    BY DEF Core, FlashOK
  <2>3. hdr'[b] = "erased" => items'[b] = <<>>
    BY <1>0, <1>7, <1>10, <2>2 DEF InUse
  <2>4. CleanFull(b)' => ~CleanFull(1 - b)'
    <3>1. CASE items'[w] = items[w]
      <4>1. items'[b] = items[b] /\ items'[1 - b] = items[1 - b]
        BY <1>10, <2>1, <3>1
      <4>. QED BY <1>0, <2>2, <4>1 DEF CleanFull
    <3>2. CASE InUse(w)
      BY <1>0, <2>1, <3>2 DEF CleanFull, InUse
    <3>3. CASE hdr[w] = "clean" /\ hdr[1 - w] = "dirty"
      BY <1>0, <2>1, <3>3 DEF CleanFull
    <3>. QED BY <1>7, <3>1, <3>2, <3>3
  <2>. QED BY <1>6, <2>1, <2>2, <2>3, <2>4
<1>12. MarkOK' /\ CrcOK'
  BY <1>3 DEF MarkOK, CrcOK
<1>13. PairOK'
  <2>. SUFFICES ASSUME NEW b \in Blk, NEW i \in Index(b)', NEW j \in Index(b)', i < j,
                       Normal(b, i)', Normal(b, j)', items'[b][i].key = items'[b][j].key
                PROVE  /\ ~items'[b][j].crc \/ items'[b][j].origin = <<b, i>>
                       /\ Ahead(b, j)'
    BY DEF PairOK
  <2>1. Ahead(b, j)'
    BY <1>3
  <2>2. CASE j \notin Index(b)
    BY <1>2, <2>1, <2>2
  <2>3. CASE j \in Index(b)
    <3>1. i \in Index(b)
      <4>1. i \in Nat /\ j \in Nat
        BY <1>3
      <4>2. ~(j < i)
        BY <4>1
      <4>. QED BY <1>2, <2>3, <4>2
    <3>2. Normal(b, i) /\ Normal(b, j) /\ items[b][i].key = items[b][j].key
      BY <1>2, <1>5, <2>3, <3>1
    <3>3. ~items[b][j].crc \/ items[b][j].origin = <<b, i>>
      BY <2>3, <3>1, <3>2 DEF Core, PairOK
    <3>4. items'[b][j] = items[b][j]
      BY <1>2, <2>3
    <3>. QED BY <2>1, <3>3, <3>4
  <2>. QED BY <2>2, <2>3
<1>14. ValOK'
  <2>1. \A b \in Blk, k \in Key : Live(b, k)' = Live(b, k)
    <3>. SUFFICES ASSUME NEW b \in Blk, NEW k \in Key PROVE Live(b, k)' = Live(b, k)
      OBVIOUS
    <3>1. Live(b, k)' = {i \in Index(b)' : (Normal(b, i)' /\ items'[b][i].key = k) /\ items'[b][i].crc}
      BY DEF Live, Has
    <3>2. Live(b, k) = {i \in Index(b) : (Normal(b, i) /\ items[b][i].key = k) /\ items[b][i].crc}
      BY DEF Live, Has
    <3>3. \A i \in Index(b)' : items'[b][i].crc => i \in Index(b)
      BY <1>2
    <3>4. \A i \in Index(b) : i \in Index(b)' /\ items'[b][i] = items[b][i]
                              /\ (Normal(b, i)' <=> Normal(b, i))
      BY <1>2, <1>5
    <3>. QED BY <3>1, <3>2, <3>3, <3>4
  <2>2. \A b \in Blk : Main(b)' <=> Main(b)
    <3>. SUFFICES ASSUME NEW b \in Blk PROVE Main(b)' <=> Main(b)
      OBVIOUS
    <3>1. InUse(1 - b)' <=> InUse(1 - b)
      BY <1>6, BlkProps
    <3>2. CASE items'[b] = items[b]
      BY <1>0, <1>6, <3>1, <3>2 DEF Main, CleanFull
    <3>3. CASE items'[b] # items[b]
      <4>1. b = w /\ (InUse(b) \/ hdr[1 - b] = "dirty")
        BY <1>7, <1>10, <3>3
      <4>. QED BY <1>6, <3>1, <4>1 DEF Main, InUse
    <3>. QED BY <3>2, <3>3
  <2>3. \A b \in Blk, k \in Key : \A i \in Live(b, k) : items'[b][i] = items[b][i]
    BY <1>2 DEF Live, Has
  <2>4. ValOK
    BY DEF Core
  <2>5. ASSUME NEW k \in Key, NEW b \in Blk, Main(b)', NEW i \in Live(b, k)'
        PROVE  items'[b][i].val \in allowed'[k]
    BY <1>0, <2>1, <2>2, <2>3, <2>4, <2>5 DEF ValOK
  <2>6. ASSUME NEW k \in Key, \A b \in Blk : Main(b)' => Live(b, k)' = {}
        PROVE  NoVal \in allowed'[k] \/ k \in at_risk'
    <3>1. \A b \in Blk : Main(b) => Live(b, k) = {}
      BY <2>1, <2>2, <2>6
    <3>. QED BY <1>0, <2>4, <3>1 DEF ValOK
  <2>. QED BY <2>5, <2>6 DEF ValOK
<1>15. RiskOK'
  <2>. SUFFICES ASSUME NEW b \in Blk, InUse(b)', NEW x \in Index(1 - b)', NEW i \in Index(b)',
                       Normal(1 - b, x)', items'[1 - b][x].crc, items'[1 - b][x].origin = <<b, i>>,
                       Normal(b, i)', items'[b][i].key = items'[1 - b][x].key
                PROVE  items'[b][i].key \in at_risk'
    BY DEF RiskOK
  <2>. PICK a \in Blk : a = 1 - b
    BY BlkProps
  <2>1. InUse(b) /\ a # b /\ 1 - a = b
    BY <1>6, BlkProps
  <2>2. x \in Index(a) /\ items'[a][x] = items[a][x] /\ Normal(a, x)
    BY <1>2, <1>5
  <2>3. CASE ~Up
    <3>1. i \in Index(b) /\ items'[b][i] = items[b][i] /\ Normal(b, i)
      BY <1>2, <1>5, <2>3
    <3>2. items[b][i].key = items[a][x].key
      BY <2>2, <3>1
    <3>3. items[b][i].key \in at_risk
      BY <2>1, <2>2, <2>3, <3>1, <3>2 DEF Core, RiskOK
    <3>. QED BY <1>0, <3>1, <3>3
  <2>4. CASE Up /\ gc.at \notin Working
    <3>1. Idle
      BY <2>4 DEF Core, GcOK, Working
    <3>2. InUse(w) /\ items[1 - w] = <<>> /\ hdr[1 - w] = "clean"
      BY <3>1 DEF Idle, CleanEmpty
    <3>3. b = w
      BY <2>1, <3>2, BlkProps DEF InUse
    <3>4. items[a] = <<>>
      BY <3>2, <3>3
    <3>. QED BY <1>4, <2>2, <3>4, EmptyProps
  <2>5. CASE gc.at \in Working
    <3>1. /\ gc.at = "copy" /\ b = gc.src /\ a = gc.dst /\ CopyOK
      BY <2>1, <2>5, GcProps DEF InUse, Working
    <3>2. i \in Index(b) /\ items'[b][i] = items[b][i] /\ Normal(b, i)
      BY <1>2, <1>5, <2>1, <2>5, <3>1, GcProps
    <3>3. PICK h \in Index(b) : Normal(b, h) /\ items[a][x] = items[b][h]
      BY <2>2, <3>1 DEF CopyOK
    <3>4. items[b][h].key = items[b][i].key
      BY <2>2, <3>2, <3>3
    <3>5. i = h
      <4>1. ~(i < h) /\ ~(h < i)
        BY <2>5, <3>2, <3>3, <3>4, GcProps
      <4>2. i \in Nat /\ h \in Nat
        BY <1>3, <1>2, <3>2, <3>3
      <4>. QED BY <4>1, <4>2
    <3>6. items[b][i].origin = <<b, i>>
      BY <2>2, <3>3, <3>5
    <3>7. <<b, i>> \in Places
      <4>1. Len(items[b]) \in Nat /\ Len(items[b]) <= Cap
        BY <1>4 DEF Types
      <4>2. i \in 1 .. Cap /\ i <= Len(items[b])
        BY <3>2, <4>1, Values DEF Index
      <4>. QED BY <4>2 DEF Places
    <3>8. items[b][i].key \in SelfOrigin
      <4>1. At(<<b, i>>) = items[b][i] /\ <<b, i>>[1] = gc.src
        BY <3>1 DEF At
      <4>. QED BY <3>1, <3>2, <3>6, <3>7, <4>1 DEF SelfOrigin, Normal
    <3>. QED BY <1>0, <3>2, <3>8
  <2>. QED BY <2>3, <2>4, <2>5
<1>. QED BY <1>1, <1>9, <1>11, <1>12, <1>13, <1>14, <1>15 DEF Core

-----------------------------------------------------------------------------
(***************************************************************************)
(* The theorems.                                                           *)
(***************************************************************************)
\* Both blocks are erased and the system starts.
LEMMA InitIInv == Init => IInv
<1>. SUFFICES ASSUME Init PROVE IInv
  OBVIOUS
<1>0. /\ hdr = [b \in Blk |-> "erased"] /\ items = [b \in Blk |-> <<>>]
      /\ boot = Boot("scan", 0, 1, {}) /\ state = [b \in Blk |-> "none"]
      /\ clean_blk_nums = 0 /\ wblk = 0 /\ kv_mutex = NULL /\ gc_triggered = FALSE
      /\ gc_waiter = 0 /\ gc_sem = 0 /\ tails = 0
      /\ gc = NoGc /\ client = [c \in Client |-> NoOp]
      /\ allowed = [k \in Key |-> {NoVal}]
  BY DEF Init
<1>1. /\ boot \in BootType /\ boot.at = "scan" /\ boot.blk = 0 /\ boot.j = 1
      /\ boot.unclean = {}
  <2>1. 0 \in Blk /\ 1 \in Nat /\ {} \in SUBSET Blk
    BY BlkProps
  <2>2. /\ boot.at = "scan" /\ boot.blk = 0 /\ boot.j = 1 /\ boot.unclean = {}
    BY <1>0 DEF Boot
  <2>3. boot \in BootType
    BY <1>0, <2>1 DEF Boot, BootType
  <2>. QED BY <2>2, <2>3
<1>2. Scanning /\ ~Up /\ ~Reformat
  BY <1>1 DEF Scanning, Up, Reformat
<1>3. \A b \in Blk : ~Passed(b)
  BY <1>1, <1>2, BlkProps DEF Passed
<1>4. BootOK
  <2>1. boot.unclean = {b \in Blk : Passed(b) /\ CleanFull(b)}
    BY <1>1, <1>3
  <2>2. clean_blk_nums = (IF Passed(0) /\ CleanEmpty(0) THEN 1 ELSE 0)
                       + (IF Passed(1) /\ CleanEmpty(1) THEN 1 ELSE 0)
    BY <1>0, <1>3, BlkProps
  <2>3. \A b \in Blk : ~(b < boot.blk) /\ state[b] = "none"
    BY <1>0, <1>1 DEF Blk
  <2>. QED BY <1>0, <1>1, <1>2, <2>1, <2>2, <2>3 DEF BootOK
<1>5. NoOp \in ClientType /\ NoOp.at = "none"
  BY Values DEF NoOp, Op, ClientType, ClientPlace
<1>6. client \in [Client -> ClientType] /\ \A c \in Client : client[c].at = "none"
  BY <1>0, <1>5
<1>7. gc \in GcType /\ gc.at = "none"
  BY <1>0, GcRecord, BlkProps DEF NoGc
<1>8. Mutexed
  <2>1. \A c \in Client : client[c].at \notin Holding /\ kv_mutex # c
    BY <1>0, <1>6, Values DEF Holding
  <2>. QED BY <1>0, <1>6, <1>7, <2>1, Values DEF Mutexed, GcHolding
<1>9. /\ items \in [Blk -> Seq(ItemType)]
      /\ \A b \in Blk : items[b] = <<>> /\ Len(items[b]) = 0 /\ hdr[b] = "erased"
  BY <1>0
<1>10. \A b \in Blk : Index(b) = {} /\ ~InUse(b) /\ ~CleanFull(b) /\ ~Main(b)
  BY <1>9 DEF Index, InUse, CleanFull, Main
<1>11. Types
  <2>1. state \in [Blk -> {"none", "clean", "used", "dirty"}]
        /\ hdr \in [Blk -> {"erased", "clean", "used", "dirty"}]
    BY <1>0
  <2>2. clean_blk_nums \in 0 .. 2 /\ wblk \in Blk
    BY <1>0, BlkProps
  <2>3. /\ gc_triggered \in BOOLEAN /\ gc_waiter \in Nat /\ gc_sem \in Nat /\ tails \in Nat
        /\ kv_mutex \in Client \cup {"gc", NULL}
    BY <1>0
  <2>4. allowed \in [Key -> SUBSET (Val \cup {NoVal})]
    BY <1>0
  <2>5. \A b \in Blk : Len(items[b]) <= Cap
    BY <1>9, Values
  <2>. QED BY <1>1, <1>6, <1>7, <1>9, <1>10, <2>1, <2>2, <2>3, <2>4, <2>5 DEF Types
<1>12. FlashOK /\ MarkOK /\ CrcOK /\ PairOK
  BY <1>9, <1>10 DEF FlashOK, MarkOK, CrcOK, PairOK
<1>13. GcOK /\ HoldOK
  BY <1>2, <1>6 DEF GcOK, HoldOK
<1>14. RiskOK
  BY <1>10 DEF RiskOK
<1>15. ValOK
  BY <1>0, <1>10 DEF ValOK
<1>16. WaitOK
  BY <1>6 DEF WaitOK
<1>. QED BY <1>4, <1>8, <1>11, <1>12, <1>13, <1>14, <1>15, <1>16 DEF IInv, Core

\* Every step of kv_init, of a client and of the collector, and a power failure.
LEMMA NextIInv == IInv /\ [Next]_vars => IInv'
<1>. SUFFICES ASSUME IInv, [Next]_vars PROVE Core'
  BY NextWait DEF IInv
<1>0. Core
  BY DEF IInv
<1>1. CASE kv_init
  BY <1>0, <1>1, InitBlock, InitItem, InitMark, InitBlockEnd, InitErase, InitFormat,
     InitUnclean, InitLast, InitWritePos DEF kv_init
<1>2. CASE ClientStep
  <2>1. PICK c \in Client :
         \/ aos_kv_set(c) \/ aos_kv_del(c)
         \/ gc_waiter_load(c) \/ gc_waiter_store(c) \/ gc_sem_wait(c)
         \/ kv_set_begin(c) \/ kv_del_begin(c)
         \/ kv_item_store(c) \/ kv_item_del(c) \/ kv_item_del_dirty(c)
         \/ kv_return(c)
    BY <1>2 DEF ClientStep
  <2>. QED BY <1>0, <2>1, QuietSteps, SetBegin, DelBegin, ItemStore, ItemDel, ItemDelDirty,
              KvReturn
<1>3. CASE aos_kv_gc
  BY <1>0, <1>3, GcBegin, GcCopy, GcErase, GcHeader, GcExit, GcSignal DEF aos_kv_gc
<1>4. CASE PowerFailure
  BY <1>0, <1>4, Failure
<1>5. CASE UNCHANGED vars
  <2>1. UNCHANGED <<hdr, items, state, clean_blk_nums, wblk, boot, allowed, at_risk,
                    gc, client, kv_mutex, gc_triggered, gc_waiter, gc_sem, tails>>
    BY <1>5 DEF vars
  <2>2. Types'
    BY <1>0, <2>1 DEF Core, Types, Index
  <2>3. Mutexed'
    BY <1>0, <2>1 DEF Core, Mutexed, Up
  <2>. QED BY <1>0, <2>1, <2>2, <2>3, Quiet
<1>. QED BY <1>1, <1>2, <1>3, <1>4, <1>5 DEF Next

\* Every state of the store, at rest, in a call, in a collection or on its way
\* through kv_init, satisfies the inductive invariant.
THEOREM StoreInvariant == Spec => []IInv
<1>. QED BY InitIInv, NextIInv, PTL DEF Spec

\* The state of kvmgr.c is well formed: kv_item_calc_pos never lets a block
\* overflow, and the uint8_t clean_blk_nums never wraps.
THEOREM StoreTypes == Spec => []TypeOK
<1>1. IInv => TypeOK
  <2>. SUFFICES ASSUME Types PROVE TypeOK
    BY DEF IInv, Core
  <2>1. \A b \in Blk : ToSet(items[b]) \subseteq ItemType
    BY DEF Types, ToSet
  <2>. QED BY <2>1 DEF Types, TypeOK
<1>. QED BY <1>1, StoreInvariant, PTL

\* aos_kv_set and aos_kv_del across power failures: aos_kv_get returns the value
\* of the last call that returned or of the one that was cut short; only a key
\* that a collection cut short put at risk may be gone.
THEOREM StoreDurable == Spec => []Durable
<1>1. IInv => Durable
  <2>. SUFFICES ASSUME Core, Up, kv_mutex = NULL, NEW k \in Key
                PROVE  \/ aos_kv_get(k) \in allowed[k]
                       \/ k \in at_risk /\ aos_kv_get(k) = NoVal
    BY DEF IInv, Durable, Quiescent
  <2>1. kv_mutex # "gc" /\ ValOK
    BY Values DEF Core
  <2>2. wblk \in Blk /\ Main(wblk) /\ ~Main(1 - wblk) /\ \A b \in Blk : b = wblk \/ b = 1 - wblk
    BY <2>1, IdleProps
  <2>3. Live(wblk, k) = Has(wblk, k)
    BY GetProps
  <2>4. CASE Has(wblk, k) = {} /\ aos_kv_get(k) = NoVal
    <3>1. \A b \in Blk : Main(b) => Live(b, k) = {}
      BY <2>2, <2>3, <2>4
    <3>. QED BY <2>1, <2>4, <3>1 DEF ValOK
  <2>5. CASE \E i \in Index(wblk) :
               Has(wblk, k) = {i} /\ aos_kv_get(k) = items[wblk][i].val
    <3>1. PICK i \in Index(wblk) : Has(wblk, k) = {i} /\ aos_kv_get(k) = items[wblk][i].val
      BY <2>5
    <3>2. i \in Live(wblk, k)
      BY <2>3, <3>1
    <3>. QED BY <2>1, <2>2, <3>1, <3>2 DEF ValOK
  <2>. QED BY <2>4, <2>5, GetProps
<1>. QED BY <1>1, StoreInvariant, PTL

\* A key has one item whatever was interrupted: kv_item_get and aos_kv_del look
\* at the first they find.
THEOREM StoreOneItem == Spec => []OneItem
<1>1. IInv => OneItem
  <2>. SUFFICES ASSUME Core, Up, kv_mutex = NULL, NEW k \in Key
                PROVE  Cardinality(Found(k)) <= 1
    BY DEF IInv, OneItem, Quiescent
  <2>1. Found(k) = {<<wblk, i>> : i \in Has(wblk, k)}
    BY GetProps
  <2>2. CASE Has(wblk, k) = {}
    <3>1. Found(k) = {}
      BY <2>1, <2>2
    <3>. QED BY <3>1, FS_EmptySet
  <2>3. CASE \E i \in Index(wblk) : Has(wblk, k) = {i}
    <3>1. PICK i \in Index(wblk) : Has(wblk, k) = {i}
      BY <2>3
    <3>2. Found(k) = {<<wblk, i>>}
      BY <2>1, <3>1
    <3>3. \A x : Cardinality({x}) = 1
      BY FS_Singleton, Zenon
    <3>4. Cardinality(Found(k)) = 1
      BY <3>2, <3>3
    <3>. QED BY <3>4
  <2>. QED BY <2>2, <2>3, GetProps
<1>. QED BY <1>1, StoreInvariant, PTL

\* Between two calls the block reserved for aos_kv_gc is erased and clean, RAM and
\* flash agree, and a block something was deleted from is marked dirty, so that a
\* collection can always be done.
THEOREM StoreReserve == Spec => []ReserveOK
<1>1. IInv => ReserveOK
  <2>. SUFFICES ASSUME Core, Up, kv_mutex = NULL PROVE
        /\ clean_blk_nums = KV_GC_RESERVED
        /\ Clean = {1 - wblk} /\ items[1 - wblk] = <<>>
        /\ hdr = state
        /\ (\E i \in ToSet(items[wblk]) : i.state # "normal") => state[wblk] = "dirty"
    BY DEF IInv, ReserveOK, Quiescent
  <2>0. kv_mutex # "gc" /\ MarkOK /\ Types /\ Mutexed
    BY Values DEF Core
  <2>1. /\ wblk \in Blk /\ 1 - wblk \in Blk /\ hdr = state /\ InUse(wblk)
        /\ hdr[1 - wblk] = "clean" /\ items[1 - wblk] = <<>> /\ clean_blk_nums = 1
        /\ \A b \in Blk : b = wblk \/ b = 1 - wblk
    BY <2>0, IdleProps
  <2>2. Clean = {1 - wblk}
    BY <2>1 DEF Clean, InUse
  <2>3. ASSUME NEW i \in ToSet(items[wblk]), i.state # "normal" PROVE state[wblk] = "dirty"
    <3>1. PICK x \in Index(wblk) : items[wblk][x] = i
      BY <2>0, <2>1 DEF Types, Index, ToSet
    <3>2. ~Normal(wblk, x)
      BY <2>3, <3>1 DEF Normal
    <3>3. \A c \in Client : client[c].at # "dirty"
      BY <2>0, Values DEF Mutexed, Holding
    <3>4. ~Ahead(wblk, x) /\ boot.at # "mark"
      BY UpProps DEF Up
    <3>5. hdr[wblk] # "used"
      BY <2>0, <2>1, <3>2, <3>3, <3>4 DEF MarkOK
    <3>. QED BY <2>1, <3>5 DEF InUse
  <2>. QED BY <2>1, <2>2, <2>3 DEF KV_GC_RESERVED
<1>. QED BY <1>1, StoreInvariant, PTL

\* A task that waits for gc_sem is known to a collector that goes on or is about to
\* signal, but for the two races that WaiterWillBeSignalled leaves out.
THEOREM StoreWaiters == Spec => []WaiterWillBeSignalled
<1>1. IInv => WaiterWillBeSignalled
  BY DEF IInv, WaitOK, WaiterWillBeSignalled, Waiting
<1>. QED BY <1>1, StoreInvariant, PTL
=============================================================================
