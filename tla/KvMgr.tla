-------------------------------- MODULE KvMgr --------------------------------
(***************************************************************************)
(* kernel/modules/fs/kv/kvmgr.c: the key-value store in flash, in its      *)
(* default build with two blocks (BLK_NUMS = 2), one of them reserved for  *)
(* garbage collection.  Tasks set and delete keys, the collector runs in a *)
(* task of its own, and the power may fail between any two flash writes or *)
(* in the middle of one; kv_init then restores the store at the next boot. *)
(*                                                                         *)
(* The flash is what survives: for each block the state in its header      *)
(* ("erased" when there is none) and the items written to it, in order.    *)
(* An item is as long as any other: a block has room for Cap of them.  An  *)
(* item is named by the place <<block, index>> where it stands, which is   *)
(* what origin_off holds.  A write cut short leaves nothing, a header that *)
(* makes no sense ("junk"), or a header followed by data that its crc does *)
(* not match.  The state byte of a header is written at once; an erase     *)
(* happens or does not.                                                    *)
(*                                                                         *)
(* One step is one write to the flash with the assignments around it.      *)
(***************************************************************************)
EXTENDS Integers, Sequences, SequencesExt, FiniteSetsExt

CONSTANTS
    Key, Val,
    NoVal,          \* the value of a key that is not stored
    NULL,
    Client,         \* tasks that use the store
    Cap,            \* items in a block
    MaxOps,         \* bound: calls of the clients
    MaxCrash        \* bound: power failures

ASSUME KvAssumption ==
    /\ NoVal \notin Val
    /\ Client \cap {"gc", NULL} = {} /\ NULL # "gc"
    /\ Cap \in Nat /\ Cap >= 2
    /\ NULL \notin (0 .. 1) \X (1 .. Cap)
    /\ MaxOps \in Nat /\ MaxCrash \in Nat

Blk == 0 .. 1                   \* BLK_NUMS is 2
KV_GC_RESERVED == 1
Place == (Blk \X (1 .. Cap)) \cup {NULL}

VARIABLES
    \* flash
    hdr,            \* state in the header of each block
    items,          \* items of each block
    \* g_kv_mgr
    state,          \* block_info[].state
    clean_blk_nums,
    wblk,           \* the block of write_pos; it points behind the last item
    gc_triggered, gc_waiter, gc_sem,
    kv_mutex,       \* who holds it
    \* control
    boot,           \* where kv_init is, [at |-> "up"] when it is done
    gc,             \* where the collector is
    tails,          \* collectors that have unlocked and not yet signalled
    client,         \* where each client is in its call
    \* for the properties and the bounds
    allowed,        \* values each key may have after a power failure
    at_risk,        \* keys a collection that was cut short may lose
    missed,         \* clients that no collector may know of
    ops, crashes

flashVars == <<hdr, items>>
blockVars == <<state, clean_blk_nums, wblk>>
trigVars == <<gc_triggered, gc_waiter, gc, missed>>
gcVars == <<trigVars, gc_sem, tails>>
waitVars == <<gc_triggered, gc_waiter, gc_sem, tails, missed>>
ghostVars == <<allowed, at_risk, ops>>
vars == <<flashVars, blockVars, gcVars, kv_mutex, boot, client, ghostVars, crashes>>

Up == boot.at = "up"

\* One of these for each place a task can be at, with its locals.
Boot(at, blk, j, unclean) ==
    [at |-> at, blk |-> blk, j |-> j, unclean |-> unclean, mark |-> 0]
Gc(at, src, dst, j) == [at |-> at, src |-> src, dst |-> dst, j |-> j]
NoGc == Gc("none", 0, 0, 0)
Op(at, key, val) == [at |-> at, key |-> key, val |-> val, old |-> NULL, n |-> 0]
NoOp == Op("none", NULL, NoVal)

Item(k, v, origin) ==
    [state |-> "normal", key |-> k, val |-> v, crc |-> TRUE, origin |-> origin]
Junk == [state |-> "junk", key |-> NULL, val |-> NoVal, crc |-> FALSE, origin |-> NULL]

\* What a write of item i that the power cut short can leave at the end of s.
Torn(s, i) == {s, Append(s, Junk), Append(s, [i EXCEPT !.crc = FALSE, !.val = NULL])}

At(p) == items[p[1]][p[2]]
DeleteAt(p) == [items EXCEPT ![p[1]][p[2]].state = "delete"]
Places == {p \in Blk \X (1 .. Cap) : p[2] <= Len(items[p[1]])}

\* kv_item_get: blocks and items are searched in order; the find callback does
\* not look at the crc.
Found(k) == {p \in Places : /\ state[p[1]] # "clean"
                            /\ At(p).state = "normal" /\ At(p).key = k}
Before(p, q) == p[1] < q[1] \/ (p[1] = q[1] /\ p[2] <= q[2])
kv_item_get(k) ==
    IF Found(k) = {} THEN NULL
    ELSE CHOOSE p \in Found(k) : \A q \in Found(k) : Before(p, q)
aos_kv_get(k) == IF kv_item_get(k) = NULL THEN NoVal ELSE At(kv_item_get(k)).val

Space(b) == Cap - Len(items[b])

\* Mutant: a block that is full has room for one more.
HasRoom_OffByOne == Space(wblk) >= 0

\* What kv_item_calc_pos asks.
HasRoom == Space(wblk) > 0

Init ==
    /\ hdr = [b \in Blk |-> "erased"]
    /\ items = [b \in Blk |-> <<>>]
    /\ state = [b \in Blk |-> "none"]
    /\ clean_blk_nums = 0
    /\ wblk = 0
    /\ gc_triggered = FALSE /\ gc_waiter = 0 /\ gc_sem = 0
    /\ kv_mutex = NULL
    /\ boot = Boot("scan", 0, 1, {})
    /\ gc = NoGc /\ tails = 0
    /\ client = [c \in Client |-> NoOp]
    /\ allowed = [k \in Key |-> {NoVal}]
    /\ at_risk = {} /\ missed = {}
    /\ ops = 0 /\ crashes = 0
------------------------------------------------------------------------------
(***************************************************************************)
(* kv_init.  boot.blk and boot.j are where the traversal is, boot.unclean  *)
(* the blocks found unclean, boot.mark the block of an item that is gone.  *)
(***************************************************************************)
BootOnly == UNCHANGED <<gcVars, kv_mutex, client, ghostVars, crashes>>

\* The header of the block is read: no magic number, so it is formatted.
kv_init_block ==
    /\ boot.at = "scan" /\ boot.blk \in Blk /\ boot.j = 1
    /\ IF hdr[boot.blk] = "erased"
       THEN boot' = [boot EXCEPT !.at = "format"] /\ UNCHANGED state
       ELSE /\ boot' = [boot EXCEPT !.at = "item"]
            /\ state' = [state EXCEPT ![boot.blk] = hdr[boot.blk]]
    /\ UNCHANGED <<flashVars, clean_blk_nums, wblk>> /\ BootOnly

\* kv_item_del with KV_ORIG_REMOVE deletes the item an item says it replaced,
\* if there is one of the same key.
HasOrigin(i, p) ==
    /\ i.origin # NULL /\ i.origin # p
    /\ i.origin \in Places
    /\ At(i.origin).state = "normal" /\ At(i.origin).key = i.key

\* Mutant: recovery leaves the item that was replaced.
item_recovery_keep(p) ==
    IF At(p).crc THEN NULL ELSE p

\* __item_recovery_cb: the place of the item to delete, or NULL.
item_recovery_cb(p) ==
    IF ~At(p).crc THEN p
    ELSE IF HasOrigin(At(p), p) THEN At(p).origin ELSE NULL

\* kv_item_traverse with it, an item at a time.
kv_init_item ==
    LET p == <<boot.blk, boot.j>>
    IN  /\ boot.at = "item" /\ boot.j <= Len(items[boot.blk])
        /\ IF At(p).state = "normal"
           THEN LET d == item_recovery_cb(p)
                IN  IF d = NULL
                    THEN boot' = [boot EXCEPT !.j = @ + 1] /\ UNCHANGED items
                    ELSE /\ items' = DeleteAt(d)
                         /\ boot' = [boot EXCEPT !.at = "mark", !.mark = d[1]]
           ELSE boot' = [boot EXCEPT !.at = "mark", !.mark = boot.blk]
                /\ UNCHANGED items
        /\ UNCHANGED <<hdr, blockVars>> /\ BootOnly

\* Mutant: a block with deleted items stays in use, so is never collected.
kv_init_mark_not ==
    /\ boot.at = "mark"
    /\ boot' = [boot EXCEPT !.at = "item", !.j = @ + 1]
    /\ UNCHANGED <<flashVars, blockVars>> /\ BootOnly

\* A block in use with an item that is gone is marked; the traversal goes on.
kv_init_mark ==
    LET b == boot.mark
    IN  /\ boot.at = "mark"
        /\ hdr' = [hdr EXCEPT ![b] = IF state[b] = "used" THEN "dirty" ELSE @]
        /\ state' = [state EXCEPT ![b] = IF @ = "used" THEN "dirty" ELSE @]
        /\ boot' = [boot EXCEPT !.at = "item", !.j = @ + 1]
        /\ UNCHANGED <<items, clean_blk_nums, wblk>> /\ BootOnly

NextBlock(b) == IF b = 0 THEN Boot("scan", 1, 1, boot.unclean)
                ELSE Boot("unclean", 0, 0, boot.unclean)

\* The end of a block: a clean one with items in it is not clean.
kv_init_block_end ==
    LET b == boot.blk
        clean == hdr[b] = "clean"
    IN  /\ boot.at = "item" /\ boot.j > Len(items[b])
        /\ clean_blk_nums' = IF clean /\ items[b] = <<>> THEN clean_blk_nums + 1
                             ELSE clean_blk_nums
        /\ boot' = [NextBlock(b) EXCEPT
                       !.unclean = IF clean /\ items[b] # <<>> THEN @ \cup {b} ELSE @]
        /\ UNCHANGED <<flashVars, state, wblk>> /\ BootOnly

\* kv_block_format: the erase, and the header of a clean block.
kv_block_erase ==
    /\ boot.at = "format" /\ (hdr[boot.blk] # "erased" \/ items[boot.blk] # <<>>)
    /\ hdr' = [hdr EXCEPT ![boot.blk] = "erased"]
    /\ items' = [items EXCEPT ![boot.blk] = <<>>]
    /\ UNCHANGED blockVars /\ UNCHANGED boot /\ BootOnly

kv_block_format ==
    LET b == boot.blk
    IN  /\ boot.at = "format" /\ hdr[b] = "erased" /\ items[b] = <<>>
        /\ hdr' = [hdr EXCEPT ![b] = "clean"]
        /\ state' = [state EXCEPT ![b] = "clean"]
        /\ clean_blk_nums' = clean_blk_nums + 1
        /\ boot' = IF boot.j > 0 THEN NextBlock(b)
                   ELSE Boot("unclean", 0, 0, boot.unclean)
        /\ UNCHANGED <<items, wblk>> /\ BootOnly

\* Mutant: a block with items in it is formatted although it may hold the
\* only copy of them.
kv_init_unclean_format ==
    /\ boot.at = "unclean" /\ boot.unclean # {}
    /\ LET b == CHOOSE b \in boot.unclean : \A a \in boot.unclean : a <= b
       IN  boot' = Boot("format", b, 0, boot.unclean \ {b}) /\ UNCHANGED <<hdr, state>>
    /\ UNCHANGED <<items, clean_blk_nums, wblk>> /\ BootOnly

\* An unclean block holds the copies of a collection that was cut short.  They
\* are all there if the other block is clean already, else they are dropped.
kv_init_unclean ==
    /\ boot.at = "unclean" /\ boot.unclean # {}
    /\ LET b == CHOOSE b \in boot.unclean : \A a \in boot.unclean : a <= b
       IN  IF clean_blk_nums >= KV_GC_RESERVED
           THEN /\ hdr' = [hdr EXCEPT ![b] = "dirty"]
                /\ state' = [state EXCEPT ![b] = "dirty"]
                /\ boot' = [boot EXCEPT !.unclean = @ \ {b}]
           ELSE /\ boot' = Boot("format", b, 0, boot.unclean \ {b})
                /\ UNCHANGED <<hdr, state>>
    /\ UNCHANGED <<items, clean_blk_nums, wblk>> /\ BootOnly

\* Without a clean block, block 0 is formatted.
kv_init_last ==
    /\ boot.at = "unclean" /\ boot.unclean = {}
    /\ boot' = IF clean_blk_nums = 0 THEN Boot("format", 0, 0, {})
               ELSE Boot("wpos", 0, 0, {})
    /\ UNCHANGED <<flashVars, blockVars>> /\ BootOnly

\* trigger_gc of a store that is not being collected.
trigger_gc ==
    IF gc_triggered THEN UNCHANGED trigVars
    ELSE /\ gc_triggered' = TRUE /\ gc_waiter' = 0
         /\ gc' = Gc("lock", 0, 0, 0)
         /\ missed' = missed \cup {c \in Client : client[c].at = "wait"}

\* The write position; aos_kv_init then starts a collection if it is needed.
kv_init_write_pos ==
    /\ boot.at = "wpos"
    /\ IF clean_blk_nums = 2
       THEN /\ wblk' = 0
            /\ hdr' = [hdr EXCEPT ![0] = "used"]
            /\ state' = [state EXCEPT ![0] = "used"]
            /\ clean_blk_nums' = 1
       ELSE /\ LET before == {b \in Blk : state[b] # "clean" /\ state[1 - b] = "clean"}
               IN  wblk' = IF before = {} THEN wblk ELSE Min(before)
            /\ UNCHANGED <<hdr, state, clean_blk_nums>>
    /\ boot' = Boot("up", 0, 0, {})
    /\ IF Space(wblk') < 1 /\ clean_blk_nums' < KV_GC_RESERVED + 1 THEN trigger_gc
       ELSE UNCHANGED trigVars
    /\ UNCHANGED <<items, gc_sem, tails, kv_mutex, client, ghostVars, crashes>>

kv_init ==
    \/ kv_init_block \/ kv_init_item \/ kv_init_mark \/ kv_init_block_end
    \/ kv_block_erase \/ kv_block_format \/ kv_init_unclean \/ kv_init_last
    \/ kv_init_write_pos
------------------------------------------------------------------------------
(***************************************************************************)
(* aos_kv_set and aos_kv_del.  The collector is looked at without the lock *)
(* and gc_waiter is counted up without it, a load and a store.             *)
(***************************************************************************)
ClientAt(c, at) == client[c].at = at /\ Up
Goto(c, at) == client' = [client EXCEPT ![c].at = at]

Call(c, op) ==
    /\ ClientAt(c, "none") /\ ops < MaxOps
    /\ client' = [client EXCEPT ![c] = op]
    /\ ops' = ops + 1
    /\ UNCHANGED <<flashVars, blockVars, gcVars, kv_mutex, boot, allowed, at_risk,
                   crashes>>

aos_kv_set(c) ==
    \E k \in Key, v \in Val : Call(c, Op(IF gc_triggered THEN "load" ELSE "lock", k, v))

aos_kv_del(c) == \E k \in Key : Call(c, Op("lock", k, NoVal))

ClientOnly == UNCHANGED <<flashVars, blockVars, boot, ghostVars, crashes>>

gc_waiter_load(c) ==
    /\ ClientAt(c, "load")
    /\ client' = [client EXCEPT ![c].at = "count", ![c].n = gc_waiter]
    /\ UNCHANGED <<gcVars, kv_mutex>> /\ ClientOnly

gc_waiter_store(c) ==
    /\ ClientAt(c, "count")
    /\ gc_waiter' = client[c].n + 1
    /\ client' = [client EXCEPT ![c].at = "sem", ![c].n = 0]
    /\ UNCHANGED <<gc_triggered, gc_sem, gc, tails, missed, kv_mutex>> /\ ClientOnly

\* aos_sem_wait finds the semaphore given, or blocks.
gc_sem_wait(c) ==
    /\ ClientAt(c, "sem")
    /\ \/ /\ gc_sem > 0 /\ gc_sem' = gc_sem - 1
          /\ Goto(c, "lock") /\ missed' = missed \ {c}
       \/ gc_sem = 0 /\ Goto(c, "wait") /\ UNCHANGED <<gc_sem, missed>>
    /\ UNCHANGED <<gc_triggered, gc_waiter, gc, tails, kv_mutex>> /\ ClientOnly

Lock(c) ==
    /\ ClientAt(c, "lock") /\ kv_mutex = NULL
    /\ kv_mutex' = c
    /\ UNCHANGED <<flashVars, blockVars, gc_sem, tails, boot, at_risk, ops, crashes>>

\* The call goes on at the given place, and may leave the value v.
Begin(c, at, v) ==
    LET k == client[c].key
    IN  /\ client' = [client EXCEPT ![c].at = at, ![c].val = v,
                                    ![c].old = kv_item_get(k)]
        /\ allowed' = [allowed EXCEPT ![k] = {aos_kv_get(k), v}]

\* kv_item_update returns at once if the value is there; else kv_item_store
\* asks kv_item_calc_pos for room, which starts a collection when the block
\* will be full, or is.
kv_set_begin(c) ==
    LET v == client[c].val
        now == aos_kv_get(client[c].key)
    IN  /\ v # NoVal
        /\ Lock(c)
        /\ \/ now = v /\ Begin(c, "unlock", v) /\ UNCHANGED trigVars
           \/ now # v /\ ~HasRoom /\ Begin(c, "unlock", now) /\ trigger_gc
           \/ /\ now # v /\ HasRoom /\ Begin(c, "store", v)
              /\ IF Space(wblk) = 1 /\ clean_blk_nums <= KV_GC_RESERVED THEN trigger_gc
                 ELSE UNCHANGED trigVars

kv_del_begin(c) ==
    /\ client[c].val = NoVal
    /\ Lock(c)
    /\ Begin(c, IF kv_item_get(client[c].key) = NULL THEN "unlock" ELSE "delete", NoVal)
    /\ UNCHANGED trigVars

WriteOnly == UNCHANGED <<blockVars, gcVars, kv_mutex, boot, ghostVars, crashes>>

\* The item that goes to flash.
NewItem(c) == Item(client[c].key, client[c].val, client[c].old)

kv_item_store(c) ==
    /\ ClientAt(c, "store")
    /\ items' = [items EXCEPT ![wblk] = Append(@, NewItem(c))]
    /\ Goto(c, IF client[c].old = NULL THEN "unlock" ELSE "delete")
    /\ UNCHANGED hdr /\ WriteOnly

kv_item_del(c) ==
    /\ ClientAt(c, "delete")
    /\ items' = DeleteAt(client[c].old)
    /\ Goto(c, IF state[client[c].old[1]] = "used" THEN "dirty" ELSE "unlock")
    /\ UNCHANGED hdr /\ WriteOnly

kv_item_del_dirty(c) ==
    LET b == client[c].old[1]
    IN  /\ ClientAt(c, "dirty")
        /\ hdr' = [hdr EXCEPT ![b] = "dirty"]
        /\ state' = [state EXCEPT ![b] = "dirty"]
        /\ Goto(c, "unlock")
        /\ UNCHANGED <<items, clean_blk_nums, wblk, gcVars, kv_mutex, boot,
                       ghostVars, crashes>>

\* The mutex is given back and the call returns.
kv_return(c) ==
    LET k == client[c].key
    IN  /\ ClientAt(c, "unlock")
        /\ kv_mutex' = NULL
        /\ client' = [client EXCEPT ![c] = NoOp]
        /\ allowed' = [allowed EXCEPT ![k] = {client[c].val}]
        /\ at_risk' = at_risk \ {k}
        /\ UNCHANGED <<flashVars, blockVars, gcVars, boot, ops, crashes>>

ClientStep ==
    \E c \in Client :
        \/ aos_kv_set(c) \/ aos_kv_del(c)
        \/ gc_waiter_load(c) \/ gc_waiter_store(c) \/ gc_sem_wait(c)
        \/ kv_set_begin(c) \/ kv_del_begin(c)
        \/ kv_item_store(c) \/ kv_item_del(c) \/ kv_item_del_dirty(c)
        \/ kv_return(c)
------------------------------------------------------------------------------
(***************************************************************************)
(* aos_kv_gc, a task that trigger_gc starts.  At most one is before its    *)
(* unlock, since gc_triggered is set until then.                           *)
(***************************************************************************)
GcOnly == UNCHANGED <<boot, client, ghostVars, crashes>>

Dirty == {b \in Blk : state[b] = "dirty"}
Clean == {b \in Blk : state[b] = "clean"}

\* The search begins behind the block written to and ends with it.
FirstDirty == IF 1 - wblk \in Dirty THEN 1 - wblk ELSE wblk

gc_begin ==
    /\ gc.at = "lock" /\ kv_mutex = NULL
    /\ kv_mutex' = "gc"
    /\ IF clean_blk_nums = 0 \/ Clean = {} \/ Dirty = {}
       THEN gc' = Gc("exit", 0, 0, 0) /\ UNCHANGED wblk
       ELSE gc' = Gc("copy", FirstDirty, Min(Clean), 1) /\ wblk' = Min(Clean)
    /\ UNCHANGED <<flashVars, state, clean_blk_nums, waitVars>>
    /\ GcOnly

GcItem == items[gc.src][gc.j]

\* __item_gc_cb copies an item as it is.
gc_copy ==
    /\ gc.at = "copy" /\ gc.j <= Len(items[gc.src])
    /\ items' = IF GcItem.state = "normal"
                THEN [items EXCEPT ![wblk] = Append(@, GcItem)] ELSE items
    /\ gc' = [gc EXCEPT !.j = @ + 1]
    /\ UNCHANGED <<hdr, blockVars, waitVars, kv_mutex>>
    /\ GcOnly

\* kv_block_format of the block that was copied: the erase, then the header.
gc_erase ==
    /\ gc.at = "copy" /\ gc.j > Len(items[gc.src])
    /\ hdr' = [hdr EXCEPT ![gc.src] = "erased"]
    /\ items' = [items EXCEPT ![gc.src] = <<>>]
    /\ gc' = [gc EXCEPT !.at = "format"]
    /\ UNCHANGED <<blockVars, waitVars, kv_mutex>>
    /\ GcOnly

gc_format ==
    /\ gc.at = "format"
    /\ hdr' = [hdr EXCEPT ![gc.src] = "clean"]
    /\ state' = [state EXCEPT ![gc.src] = "clean"]
    /\ clean_blk_nums' = clean_blk_nums + 1
    /\ gc' = [gc EXCEPT !.at = "used"]
    /\ UNCHANGED <<items, wblk, waitVars, kv_mutex>>
    /\ GcOnly

gc_used ==
    /\ gc.at = "used"
    /\ hdr' = [hdr EXCEPT ![wblk] = "used"]
    /\ state' = [state EXCEPT ![gc.dst] = "used"]
    /\ clean_blk_nums' = clean_blk_nums - 1
    /\ gc' = [gc EXCEPT !.at = "exit"]
    /\ UNCHANGED <<items, wblk, waitVars, kv_mutex>>
    /\ GcOnly

gc_exit ==
    /\ gc.at = "exit"
    /\ gc_triggered' = FALSE
    /\ kv_mutex' = NULL
    /\ gc' = NoGc
    /\ tails' = tails + 1
    /\ missed' = missed \cup {c \in Client : client[c].at \in {"load", "count", "sem"}}
    /\ UNCHANGED <<flashVars, blockVars, gc_waiter, gc_sem>> /\ GcOnly

\* The tasks wake, those that wait for gc_sem.
Wake(tasks) ==
    /\ client' = [c \in Client |-> IF c \in tasks THEN [client[c] EXCEPT !.at = "lock"]
                                   ELSE client[c]]
    /\ missed' = missed \ tasks

Waiting == {c \in Client : client[c].at = "wait"}

\* Mutant: one task is woken.
gc_signal_one ==
    /\ tails > 0
    /\ tails' = tails - 1
    /\ gc_sem' = IF gc_waiter > 0 /\ Waiting = {} THEN gc_sem + 1 ELSE gc_sem
    /\ Wake(IF gc_waiter > 0 /\ Waiting # {} THEN {CHOOSE c \in Waiting : TRUE} ELSE {})
    /\ UNCHANGED <<flashVars, blockVars, gc_triggered, gc_waiter, gc, kv_mutex, boot,
                   ghostVars, crashes>>

\* aos_sem_signal_all wakes every task that waits, or counts up.
gc_signal ==
    /\ tails > 0
    /\ tails' = tails - 1
    /\ gc_sem' = IF gc_waiter > 0 /\ Waiting = {} THEN gc_sem + 1 ELSE gc_sem
    /\ Wake(IF gc_waiter > 0 THEN Waiting ELSE {})
    /\ UNCHANGED <<flashVars, blockVars, gc_triggered, gc_waiter, gc, kv_mutex, boot,
                   ghostVars, crashes>>

aos_kv_gc ==
    \/ gc_begin \/ gc_copy \/ gc_erase \/ gc_format \/ gc_used
    \/ gc_exit \/ gc_signal
------------------------------------------------------------------------------
\* Items a write is under way for when the power fails.
InFlight ==
    {NewItem(c) : c \in {c \in Client : client[c].at = "store"}}
        \cup (IF /\ gc.at = "copy" /\ gc.j <= Len(items[gc.src])
                 /\ GcItem.state = "normal"
              THEN {GcItem} ELSE {})

\* Keys whose item in the block being collected names its own place as the one
\* of the item it replaced (an earlier collection copied it there by chance):
\* its copy will be taken for its replacement.
SelfOrigin ==
    IF gc.at # "copy" THEN {}
    ELSE {At(p).key : p \in {p \in Places : /\ p[1] = gc.src
                                         /\ At(p).state = "normal"
                                         /\ At(p).origin = p}}

\* The power fails, and the system starts again (Init's RAM).
PowerFailure ==
    /\ crashes < MaxCrash
    /\ crashes' = crashes + 1
    /\ \E s \in {items[wblk]} \cup UNION {Torn(items[wblk], i) : i \in InFlight} :
            items' = [items EXCEPT ![wblk] = s]
    /\ at_risk' = at_risk \cup SelfOrigin
    /\ state' = [b \in Blk |-> "none"]
    /\ clean_blk_nums' = 0
    /\ wblk' = 0
    /\ gc_triggered' = FALSE /\ gc_waiter' = 0 /\ gc_sem' = 0
    /\ kv_mutex' = NULL
    /\ boot' = Boot("scan", 0, 1, {})
    /\ gc' = NoGc /\ tails' = 0 /\ missed' = {}
    /\ client' = [c \in Client |-> NoOp]
    /\ UNCHANGED <<hdr, allowed, ops>>

Next == kv_init \/ ClientStep \/ aos_kv_gc \/ PowerFailure

Spec == Init /\ [][Next]_vars
------------------------------------------------------------------------------
ItemType ==
    [state : {"normal", "delete"}, key : Key, val : Val \cup {NULL},
     crc : BOOLEAN, origin : Place]
        \cup {Junk}

\* The state is well formed: no block holds more items than fit, and
\* clean_blk_nums, an uint8_t that is counted down, does not wrap.
TypeOK ==
    /\ hdr \in [Blk -> {"erased", "clean", "used", "dirty"}]
    /\ \A b \in Blk : Len(items[b]) <= Cap /\ ToSet(items[b]) \subseteq ItemType
    /\ state \in [Blk -> {"none", "clean", "used", "dirty"}]
    /\ clean_blk_nums \in 0 .. 2 /\ wblk \in Blk
    /\ gc_triggered \in BOOLEAN /\ gc_waiter \in Nat /\ gc_sem \in Nat /\ tails \in Nat
    /\ kv_mutex \in Client \cup {"gc", NULL}
    /\ allowed \in [Key -> SUBSET (Val \cup {NoVal})]

Quiescent == Up /\ kv_mutex = NULL

\* What aos_kv_set and aos_kv_del promise across power failures: a key has the
\* value of the last call that returned, or of the call the power cut short.
\* Nothing else is ever read, not an older value and not a torn one.
NothingLost == Quiescent => \A k \in Key : aos_kv_get(k) \in allowed[k]

\* The same but for the keys a collection that is cut short puts at risk,
\* which may also be gone.
Durable ==
    Quiescent => \A k \in Key :
        \/ aos_kv_get(k) \in allowed[k]
        \/ k \in at_risk /\ aos_kv_get(k) = NoVal

\* A key has one item, whatever was interrupted: kv_item_get returns the first
\* it finds, and aos_kv_del deletes that one only, so that a second would come
\* back later.
OneItem == Quiescent => \A k \in Key : Cardinality(Found(k)) <= 1

\* Between two calls the block reserved for the collector is erased, flash and
\* RAM agree on the blocks, items go to the other one, and a block with
\* nothing to collect is not marked used when something in it is deleted.
ReserveOK ==
    Quiescent =>
        /\ clean_blk_nums = KV_GC_RESERVED
        /\ Clean = {1 - wblk} /\ items[1 - wblk] = <<>>
        /\ hdr = state
        /\ (\E i \in ToSet(items[wblk]) : i.state # "normal") => state[wblk] = "dirty"

\* A task blocked on gc_sem will be woken: a collection is going on that finds
\* it counted in gc_waiter, or has ended and the signal is on its way.  The
\* exceptions are a task that was between its look at gc_triggered and the
\* block when a collection ended, and one that was counted when the next
\* collection set gc_waiter to 0 before the signal.
WaiterWillBeSignalled ==
    \A c \in Waiting \ missed : gc_waiter > 0 /\ (gc_triggered \/ tails > 0)
==============================================================================
