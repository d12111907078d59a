-------------------------------- MODULE Bio --------------------------------
(***************************************************************************)
(* kernel/kernel/bio.c, buf.c, bio_sysfs.c: the buffer cache, with the     *)
(* clients that use it: file system operations (bio_read, change, pin by   *)
(* log_write), the log (bio_get_from_cache, overwrite, bio_write), its     *)
(* install_trans (write a pinned block, bio_put), and raw access to the    *)
(* block device (drivers/device.c).  Reading and writing the device is one *)
(* step: drivers/ramdisk.c copies under a lock, and module Virtio shows it *)
(* of the disk.  The steps under g_buf_cache.lock are atomic; the sleep    *)
(* lock of a buffer is taken after that lock is dropped, and dropped       *)
(* before it is taken again.  Raw access goes over several blocks; one that*)
(* writes copies all its bytes into each of them, beyond the end of the    *)
(* first: this is the end of a behaviour ("overrun").                      *)
(***************************************************************************)
EXTENDS Integers, Sequences, FiniteSets, SequencesExt

CONSTANTS
    BClients,       \* processes that use the cache
    BBlocks, BData, \* block numbers, contents
    BufIds,         \* bound: addresses of struct buf
    LeastMin,       \* least min_buffers sysfs accepts (3)
    MinChoices, MaxFreeChoices, \* what is written to the sysfs attributes
    RawRanges,      \* raw access: first and last block, whether it stores
    MaxOps,         \* bound: blocks that operations use
    NoBlock, NoClient

ASSUME BioAssumption ==
    /\ LeastMin \in Nat
    /\ MinChoices \subseteq Nat /\ MaxFreeChoices \subseteq Nat
    /\ BBlocks \subseteq Nat /\ RawRanges \subseteq BBlocks \X BBlocks \X BOOLEAN
    /\ NoBlock \notin BBlocks /\ NoClient \notin BClients /\ MaxOps \in Nat

VARIABLES
    cache,      \* g_buf_cache: buf_list (oldest first) and its counters
    buf,        \* struct buf, by address
    b_pc, b_mine, b_op, \* where a client is, its buffer, what it does
    b_left,     \* blocks that operations may still use
    in_log,     \* blocks in the header of the log: pinned once
    b_disk,
    latest      \* ghost: what was last stored in a block

bioVars == <<cache, buf, b_pc, b_mine, b_op, b_left, in_log, b_disk, latest>>

(* What a client does, with which block; block_device_rw() with the last   *)
(* block of a range that is not empty, and whether it stores.              *)
Ops == ({"fs", "log", "install"} \X BBlocks)
       \cup {<<"raw", b, r[2], r[3]>> : b \in BBlocks, r \in RawRanges}
Unused == [blockno |-> NoBlock, valid |-> FALSE, refcnt |-> 0,
           holder |-> NoClient, data |-> CHOOSE v \in BData : TRUE]

(* buf_alloc_init(): the new buffer goes to the head of the list.          *)
BufFresh(c) == CHOOSE i \in BufIds : i \notin ToSet(c.list)
BufInit(c, i) == [c EXCEPT !.list = <<i>> \o @, !.num = @ + 1]
BufDeinit(c, i) ==
    [c EXCEPT !.list = SelectSeq(@, LAMBDA j : j # i), !.num = @ - 1]

(* bio_has_too_many_buffers()                                              *)
TooMany(c) == c.num > c.min /\ c.free > c.max_free

(* bio_cache_free_extra_buffers()                                          *)
FreeExtra(c) ==
    FoldLeft(LAMBDA a, i : IF buf[i].refcnt = 0 /\ TooMany(a)
                           THEN BufDeinit([a EXCEPT !.free = @ - 1], i)
                           ELSE a, c, c.list)

Forget(bufs, c) == [i \in BufIds |-> IF i \in ToSet(c.list) THEN bufs[i] ELSE Unused]

(* bio_cache_set_min_buffers(): allocates what is missing, unused.         *)
AllocMissing(c) ==
    FoldLeft(LAMBDA a, k : BufInit([a EXCEPT !.free = @ + 1], BufFresh(a)), c,
             [k \in 1 .. (IF c.min > c.num THEN c.min - c.num ELSE 0) |-> k])

BioInit ==
    /\ cache = AllocMissing([list |-> << >>, num |-> 0, free |-> 0,
                             min |-> LeastMin, max_free |-> LeastMin])
    /\ buf = [i \in BufIds |-> Unused]
    /\ b_pc = [p \in BClients |-> "idle"]
    /\ b_mine = [p \in BClients |-> NoBlock]
    /\ b_op = [p \in BClients |-> << >>]
    /\ b_left = MaxOps
    /\ in_log = {}
    /\ b_disk = [b \in BBlocks |-> CHOOSE v \in BData : TRUE]
    /\ latest = b_disk

StoreMin(n) ==
    /\ n >= LeastMin
    /\ Cardinality(BufIds) >= n
    /\ cache' = FreeExtra(AllocMissing([cache EXCEPT !.min = n]))
    /\ buf' = Forget(buf, cache')
    /\ UNCHANGED <<b_pc, b_mine, b_op, b_left, in_log, b_disk, latest>>

StoreMaxFree(n) ==
    /\ cache' = FreeExtra([cache EXCEPT !.max_free = n])
    /\ buf' = Forget(buf, cache')
    /\ UNCHANGED <<b_pc, b_mine, b_op, b_left, in_log, b_disk, latest>>
-----------------------------------------------------------------------------
Cached(b) == {i \in ToSet(cache.list) : buf[i].blockno = b}
FreeInOrder == SelectSeq(cache.list, LAMBDA i : buf[i].refcnt = 0)
Reinit(b) == [Unused EXCEPT !.blockno = b, !.refcnt = 1]

Blocks(op) == IF op[1] = "raw" THEN op[3] - op[2] + 1 ELSE 1

(* A new operation, or the next block of block_device_rw().                *)
Begin(p, op) ==
    \/ /\ b_pc[p] = "idle" /\ b_left >= Blocks(op)
       /\ op[1] = "raw" => Tail(op) \in RawRanges
       /\ op[1] = "install" =>      \* one commit at a time
            op[2] \in in_log /\ \A q \in BClients : b_pc[q] # "idle" => b_op[q][1] # "install"
       /\ b_left' = b_left - Blocks(op)
    \/ b_pc[p] = "next" /\ op = b_op[p] /\ UNCHANGED b_left

(* bio_get_from_cache() up to sleep_lock().                                *)
GetAs(p, op, i) ==
    /\ Begin(p, op)
    /\ b_op' = [b_op EXCEPT ![p] = op]
    /\ b_mine' = [b_mine EXCEPT ![p] = i]
    /\ b_pc' = [b_pc EXCEPT ![p] = "lock"]
    /\ UNCHANGED <<in_log, b_disk, latest>>

GetHit(p, op) == \E i \in Cached(op[2]) :
    /\ GetAs(p, op, i)
    /\ cache' = [cache EXCEPT !.free = IF buf[i].refcnt = 0 THEN @ - 1 ELSE @]
    /\ buf' = [buf EXCEPT ![i].refcnt = @ + 1]

GetReuse_stale(p, op) ==  \* fault: valid is not reset
    /\ Cached(op[2]) = {} /\ FreeInOrder # << >>
    /\ GetAs(p, op, Head(FreeInOrder))
    /\ cache' = [cache EXCEPT !.free = @ - 1]
    /\ buf' = [buf EXCEPT ![Head(FreeInOrder)].blockno = op[2],
                          ![Head(FreeInOrder)].refcnt = 1]
GetReuse(p, op) ==
    /\ Cached(op[2]) = {} /\ FreeInOrder # << >>
    /\ GetAs(p, op, Head(FreeInOrder))
    /\ cache' = [cache EXCEPT !.free = @ - 1]
    /\ buf' = [buf EXCEPT ![Head(FreeInOrder)] = Reinit(op[2])]

GetNew(p, op) ==
    /\ Cached(op[2]) = {} /\ FreeInOrder = << >>
    /\ cache.num < Cardinality(BufIds)
    /\ GetAs(p, op, BufFresh(cache))
    /\ cache' = BufInit(cache, BufFresh(cache))
    /\ buf' = [buf EXCEPT ![BufFresh(cache)] = Reinit(op[2])]

(* sleep_lock(): the loop around sleep() ends when the lock is free.       *)
BioLock(p) ==
    /\ b_pc[p] = "lock"
    /\ buf[b_mine[p]].holder = NoClient
    /\ buf' = [buf EXCEPT ![b_mine[p]].holder = p]
    /\ b_pc' = [b_pc EXCEPT ![p] = IF b_op[p][1] \in {"fs", "raw"} THEN "read" ELSE "held"]
    /\ UNCHANGED <<cache, b_mine, b_op, b_left, in_log, b_disk, latest>>

(* bio_read() after the lock: the device is read unless the data is valid. *)
BioRead(p) ==
    /\ b_pc[p] = "read"
    /\ buf' = IF buf[b_mine[p]].valid THEN buf
              ELSE [buf EXCEPT ![b_mine[p]].data = b_disk[b_op[p][2]],
                               ![b_mine[p]].valid = TRUE]
    /\ b_pc' = [b_pc EXCEPT ![p] = "held"]
    /\ UNCHANGED <<cache, b_mine, b_op, b_left, in_log, b_disk, latest>>

(* A file system operation changes the data; log_write() pins a block that *)
(* is not in the log yet.                                                  *)
Change(p, v) ==
    LET b == b_op[p][2]
    IN  /\ b_pc[p] = "held" /\ b_op[p][1] = "fs"
        /\ buf' = [buf EXCEPT ![b_mine[p]].data = v,
                              ![b_mine[p]].refcnt = IF b \in in_log THEN @ ELSE @ + 1]
        /\ in_log' = in_log \cup {b}
        /\ latest' = [latest EXCEPT ![b] = v]
        /\ b_pc' = [b_pc EXCEPT ![p] = "done"]
        /\ UNCHANGED <<cache, b_mine, b_op, b_left, b_disk>>

(* write_log() and write_head() overwrite a block they have not read;      *)
(* block_device_rw() changes one it has read, or only means to read it,    *)
(* and writes it in both cases.                                            *)
Overwrite(p, v) ==
    LET op == b_op[p]
        b == op[2]
    IN  /\ b_pc[p] = "held" /\ op[1] \in {"log", "raw"}
        /\ op[1] = "raw" => IF op[4] THEN b = op[3] ELSE v = buf[b_mine[p]].data
        /\ buf' = [buf EXCEPT ![b_mine[p]].data = v]
        /\ b_disk' = [b_disk EXCEPT ![b] = v]
        /\ latest' = [latest EXCEPT ![b] = v]
        /\ b_pc' = [b_pc EXCEPT ![p] = "done"]
        /\ UNCHANGED <<cache, b_mine, b_op, b_left, in_log>>

(* uvm_copy_in() of all n bytes, more than the buffer has room for.        *)
RawOverrun(p) ==
    /\ b_pc[p] = "held" /\ b_op[p][1] = "raw"
    /\ b_op[p][4] /\ b_op[p][2] < b_op[p][3]
    /\ b_pc' = [b_pc EXCEPT ![p] = "overrun"]
    /\ UNCHANGED <<cache, buf, b_mine, b_op, b_left, in_log, b_disk, latest>>

(* install_trans(): the block goes to its place and is unpinned.           *)
Install(p) ==
    LET b == b_op[p][2]
    IN  /\ b_pc[p] = "held" /\ b_op[p][1] = "install"
        /\ b_disk' = [b_disk EXCEPT ![b] = buf[b_mine[p]].data]
        /\ buf' = [buf EXCEPT ![b_mine[p]].refcnt = @ - 1]
        /\ in_log' = in_log \ {b}
        /\ b_pc' = [b_pc EXCEPT ![p] = "done"]
        /\ UNCHANGED <<cache, b_mine, b_op, b_left, latest>>

(* The operation only read the block.                                      *)
ReadOnly_kept(p) ==     \* fault: returns without bio_release()
    /\ b_pc[p] = "held" /\ b_op[p][1] = "fs"
    /\ b_pc' = [b_pc EXCEPT ![p] = "returned"]
    /\ UNCHANGED <<cache, buf, b_mine, b_op, b_left, in_log, b_disk, latest>>
ReadOnly(p) ==
    /\ b_pc[p] = "held" /\ b_op[p][1] = "fs"
    /\ b_pc' = [b_pc EXCEPT ![p] = "done"]
    /\ UNCHANGED <<cache, buf, b_mine, b_op, b_left, in_log, b_disk, latest>>

(* block_device_rw() returns when a copy fails, with the buffer locked.    *)
RawFault(p) ==
    /\ b_pc[p] = "held" /\ b_op[p][1] = "raw"
    /\ b_pc' = [b_pc EXCEPT ![p] = "leaked"]
    /\ UNCHANGED <<cache, buf, b_mine, b_op, b_left, in_log, b_disk, latest>>

(* bio_release(): sleep_unlock(), then, under the lock of the cache,       *)
(* refcnt-- and bio_might_free().                                          *)
BioUnlock(p) ==
    /\ b_pc[p] = "done"
    /\ buf' = [buf EXCEPT ![b_mine[p]].holder = NoClient]
    /\ b_pc' = [b_pc EXCEPT ![p] = "release"]
    /\ UNCHANGED <<cache, b_mine, b_op, b_left, in_log, b_disk, latest>>

BioRelease(p) ==
    LET i == b_mine[p]
        op == b_op[p]
        last == buf[i].refcnt = 1
        more == op[1] = "raw" /\ op[2] < op[3]     \* the loop of block_device_rw()
    IN  /\ b_pc[p] = "release"
        /\ cache' = IF ~last THEN cache
                    ELSE IF TooMany(cache) THEN BufDeinit(cache, i)
                    ELSE [cache EXCEPT !.list = SelectSeq(@, LAMBDA j : j # i) \o <<i>>,
                                       !.free = @ + 1]
        /\ buf' = Forget([buf EXCEPT ![i].refcnt = @ - 1], cache')
        /\ b_mine' = [b_mine EXCEPT ![p] = NoBlock]
        /\ b_op' = [b_op EXCEPT ![p] = IF more THEN [op EXCEPT ![2] = @ + 1] ELSE << >>]
        /\ b_pc' = [b_pc EXCEPT ![p] = IF more THEN "next" ELSE "idle"]
        /\ UNCHANGED <<b_left, in_log, b_disk, latest>>

NoOverrun == \A p \in BClients : b_pc[p] # "overrun"

BioStep(p) ==
    /\ NoOverrun
    /\ \/ BioLock(p) \/ BioRead(p) \/ Install(p) \/ ReadOnly(p) \/ RawFault(p) \/ RawOverrun(p)
       \/ \E v \in BData : Change(p, v) \/ Overwrite(p, v)
       \/ BioUnlock(p) \/ BioRelease(p)

BioNext ==
    \/ \E p \in BClients : BioStep(p)
    \/ NoOverrun /\ \E p \in {q \in BClients : b_pc[q] \in {"idle", "next"}} :
         \E op \in Ops : GetHit(p, op) \/ GetReuse(p, op) \/ GetNew(p, op)
    \/ NoOverrun /\ \E n \in MinChoices : StoreMin(n)
    \/ NoOverrun /\ \E n \in MaxFreeChoices : StoreMaxFree(n)
-----------------------------------------------------------------------------
InUse(i) == {p \in BClients : b_mine[p] = i}

(* Types of struct buf and struct bio_cache.                               *)
BioTypeOK ==
    /\ cache.list \in Seq(BufIds)
    /\ {cache.num, cache.free, cache.min, cache.max_free} \subseteq Nat
    /\ buf \in [BufIds -> [blockno : BBlocks \cup {NoBlock}, valid : BOOLEAN,
                           refcnt : 0 .. (Cardinality(BClients) + 1),
                           holder : BClients \cup {NoClient}, data : BData]]
    /\ b_mine \in [BClients -> BufIds \cup {NoBlock}]
    /\ in_log \subseteq BBlocks
    /\ b_disk \in [BBlocks -> BData]

(* The counters bio_sysfs_ops_show() reports are exact, a reference count  *)
(* is the number of holders, waiters and pins, and a referenced buffer is  *)
(* in the list.                                                            *)
CountersExact ==
    /\ cache.num = Len(cache.list)
    /\ cache.num = Cardinality(ToSet(cache.list))
    /\ cache.free = Len(FreeInOrder)
    /\ \A i \in BufIds :
        /\ buf[i].refcnt = Cardinality(InUse(i))
                            + (IF buf[i].blockno \in in_log THEN 1 ELSE 0)
        /\ InUse(i) # {} => i \in ToSet(cache.list)

(* bio_get_from_cache(): a block has at most one buffer, so that its sleep *)
(* lock serialises all access; whoever has it got the block asked for.     *)
OneBuffer ==
    /\ \A b \in BBlocks : Cardinality(Cached(b)) <= 1
    /\ \A p \in BClients : b_pc[p] \notin {"idle", "next"} => buf[b_mine[p]].blockno = b_op[p][2]
    /\ \A p \in BClients :
        b_pc[p] \in {"read", "held", "done", "leaked", "overrun"} => buf[b_mine[p]].holder = p

(* bio_might_free() and the sysfs setters: beyond min_buffers, at most one *)
(* buffer more than max_free_buffers stays unused.                         *)
UnusedBound == cache.num > cache.min => cache.free <= cache.max_free + 1

(* Nothing that was stored in a block is lost or seen late, although only  *)
(* pinned blocks are kept and the log writes blocks it has not read: a     *)
(* holder that has read sees the latest contents, and a block that is not  *)
(* in the cache has them on the disk.                                      *)
LatestContents ==
    \A b \in BBlocks :
        /\ \A i \in Cached(b) : buf[i].valid => buf[i].data = latest[b]
        /\ (\A i \in Cached(b) : ~buf[i].valid) => b_disk[b] = latest[b]
        /\ b \notin in_log => b_disk[b] = latest[b]

(* Whoever waits for a buffer gets it, unless block_device_rw() returned   *)
(* with it locked or wrote behind one.                                     *)
BufferGranted == \A p \in BClients :
    b_pc[p] = "lock" ~>
        \/ b_pc[p] # "lock"
        \/ \E q \in BClients : b_pc[q] = "leaked" /\ b_mine[q] = b_mine[p]
        \/ ~NoOverrun

(* The buffer cache as a whole: counters and lists are exact, a block has one *)
(* buffer, and no write is lost by eviction.                                  *)
BioSafe ==
    /\ BioTypeOK
    /\ CountersExact
    /\ OneBuffer
    /\ UnusedBound
    /\ LatestContents
=============================================================================
