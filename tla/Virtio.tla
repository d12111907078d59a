------------------------------- MODULE Virtio -------------------------------
(***************************************************************************)
(* kernel/drivers/virtio_disk.c: the driver of a virtio disk, and the      *)
(* device on the other side of the rings.                                  *)
(*                                                                         *)
(* A caller owns the buffer it passes in (it holds the buffer's sleep      *)
(* lock), so a buffer is named by its caller.  Everything between          *)
(* spin_lock(&vdisk_lock) and the next sleep() or unlock is one step; the  *)
(* interrupt handler takes a step per entry of the used ring, because the  *)
(* device goes on filling the ring meanwhile.                              *)
(***************************************************************************)
EXTENDS Integers, Sequences, FiniteSets, FiniteSetsExt

CONSTANTS
    VProcs,             \* callers
    VBlocks, VValues,   \* block numbers and contents
    VIRTIO_DESCRIPTORS,
    IDX,                \* 2^16: ring indices are uint16_t
    ServedBefore,       \* requests served, one at a time, before Init
    MaxRw,              \* bound: calls per process
    Nobody

ASSUME VirtioAssumption ==
    /\ VIRTIO_DESCRIPTORS \in Nat /\ VIRTIO_DESCRIPTORS >= 3
    /\ IDX \in Nat /\ IDX > VIRTIO_DESCRIPTORS /\ IDX % VIRTIO_DESCRIPTORS = 0
    /\ ServedBefore \in Nat /\ MaxRw \in Nat
    /\ Nobody \notin VProcs /\ VValues # {}

Descs == 0 .. (VIRTIO_DESCRIPTORS - 1)

VARIABLES
    desc_free,          \* disk->free[]: the descriptors that are free
    idx,                \* the local idx[3] of a caller: its chain
    desc,               \* disk->desc[head..]: the request a chain encodes
    info,               \* info[head].b: the caller whose buffer it is
    owned_by_driver,    \* b->owned_by_driver
    avail, avail_idx,   \* disk->avail: ring and index
    used, used_ring_idx,\* disk->used, written by the device
    used_idx,           \* how far the driver has read the used ring
    taken,              \* device: how far it has read the avail ring
    working,            \* device: heads of the chains it works on
    irq,                \* the interrupt line
    vdisk_lock,         \* "intr" while the handler runs
    v_pc, v_req,        \* where a caller is; <<block, write>>
    v_data,             \* b->data
    v_disk,             \* contents of the disk
    v_calls

rings == <<avail, avail_idx, used, used_ring_idx, used_idx, taken, working, irq>>
virtioVars == <<desc_free, idx, desc, info, owned_by_driver, rings, vdisk_lock, v_pc,
                v_req, v_data, v_disk, v_calls>>

VLabels == {"idle", "alloc", "free_sleep", "wait", "awake"}
vGoto(p, label) == v_pc' = [v_pc EXCEPT ![p] = label]
NextIdx(i) == (i + 1) % IDX

(* virtio_disk_init_internal(): empty rings, all descriptors free.  A      *)
(* driver that served requests one at a time differs from a fresh one only *)
(* in its indices: each request had the chain 0, 1, 2.                     *)
VirtioInit ==
    /\ desc_free = Descs
    /\ idx = [p \in VProcs |-> << >>]
    /\ desc = [d \in Descs |-> << >>]
    /\ info = [d \in Descs |-> Nobody]
    /\ owned_by_driver = [p \in VProcs |-> FALSE]
    /\ avail = [d \in Descs |-> 0] /\ avail_idx = ServedBefore % IDX
    /\ used = [d \in Descs |-> 0] /\ used_ring_idx = avail_idx
    /\ used_idx = avail_idx /\ taken = avail_idx
    /\ working = {} /\ irq = FALSE
    /\ vdisk_lock = Nobody
    /\ v_pc = [p \in VProcs |-> "idle"]
    /\ v_req = [p \in VProcs |-> << >>]
    /\ v_data \in [VProcs -> {CHOOSE v \in VValues : TRUE}]
    /\ v_disk \in [VBlocks -> {CHOOSE v \in VValues : TRUE}]
    /\ v_calls = [p \in VProcs |-> 0]

(* virtio_block_device_read() or _write() is called with a buffer.         *)
RwCall(p, b, write, v) ==
    /\ v_pc[p] = "idle" /\ v_calls[p] < MaxRw
    /\ v_calls' = [v_calls EXCEPT ![p] = @ + 1]
    /\ v_req' = [v_req EXCEPT ![p] = <<b, write>>]
    /\ v_data' = [v_data EXCEPT ![p] = v]
    /\ vGoto(p, "alloc")
    /\ UNCHANGED <<desc_free, idx, desc, info, owned_by_driver, rings, vdisk_lock, v_disk>>

(* alloc_desc() returns the lowest free descriptor.                        *)
Lowest3 ==
    LET a == Min(desc_free)
        b == Min(desc_free \ {a})
        c == Min(desc_free \ {a, b})
    IN  <<a, b, c>>

(* The three descriptors: the header with block and direction, the buffer  *)
(* (VRING_DESC_F_WRITE if the device is to fill it), the status byte.      *)
Format_flag(p) == <<v_req[p][1], TRUE>>     \* fault: never the flag
Format(p) == <<v_req[p][1], v_req[p][2]>>

(* Three descriptors are taken, the request is put on the ring, and the    *)
(* caller sleeps on its buffer.                                            *)
RwSubmit(p) ==
    /\ v_pc[p] = "alloc" /\ vdisk_lock = Nobody
    /\ Cardinality(desc_free) >= 3
    /\ idx' = [idx EXCEPT ![p] = Lowest3]
    /\ desc_free' = desc_free \ {Lowest3[1], Lowest3[2], Lowest3[3]}
    /\ desc' = [desc EXCEPT ![Lowest3[1]] = Format(p)]
    /\ info' = [info EXCEPT ![Lowest3[1]] = p]
    /\ owned_by_driver' = [owned_by_driver EXCEPT ![p] = TRUE]
    /\ avail' = [avail EXCEPT ![avail_idx % VIRTIO_DESCRIPTORS] = Lowest3[1]]
    /\ avail_idx' = NextIdx(avail_idx)
    /\ vGoto(p, "wait")
    /\ UNCHANGED <<used, used_ring_idx, used_idx, taken, working, irq,
                   vdisk_lock, v_req, v_data, v_disk, v_calls>>

(* free_desc() wakes everybody who waits for descriptors, also when it     *)
(* gives back what a failing alloc3_desc() had taken.                      *)
WakeFree(pcs) == [q \in VProcs |-> IF pcs[q] = "free_sleep" THEN "alloc" ELSE pcs[q]]

RwNoDescriptors(p) ==
    /\ v_pc[p] = "alloc" /\ vdisk_lock = Nobody
    /\ Cardinality(desc_free) < 3
    /\ v_pc' = [(IF desc_free = {} THEN v_pc ELSE WakeFree(v_pc))
                    EXCEPT ![p] = "free_sleep"]
    /\ UNCHANGED <<desc_free, idx, desc, info, owned_by_driver, rings, vdisk_lock,
                   v_req, v_data, v_disk, v_calls>>

(* while (b->owned_by_driver == true) sleep(): a kill wakes the sleeper    *)
(* early.                                                                  *)
RwAgain(p) ==
    /\ v_pc[p] = "awake" /\ vdisk_lock = Nobody
    /\ owned_by_driver[p]
    /\ vGoto(p, "wait")
    /\ UNCHANGED <<desc_free, idx, desc, info, owned_by_driver, rings, vdisk_lock,
                   v_req, v_data, v_disk, v_calls>>

Chain(p) == {idx[p][k] : k \in DOMAIN idx[p]}

(* free_chain() follows the next fields and clears what it frees.          *)
FreeChain(p) == desc_free \cup Chain(p)

Finish(p, wake) ==
    /\ vdisk_lock = Nobody
    /\ info' = [info EXCEPT ![idx[p][1]] = Nobody]
    /\ desc_free' = FreeChain(p)
    /\ desc' = [desc EXCEPT ![idx[p][1]] = << >>]
    /\ idx' = [idx EXCEPT ![p] = << >>]
    /\ v_req' = [v_req EXCEPT ![p] = << >>]
    /\ v_pc' = [(IF wake THEN WakeFree(v_pc) ELSE v_pc) EXCEPT ![p] = "idle"]
    /\ UNCHANGED <<owned_by_driver, rings, vdisk_lock, v_data, v_disk, v_calls>>

RwReturn_early(p) == v_pc[p] = "awake" /\ Finish(p, TRUE)   \* fault: if, not while
RwReturn_silent(p) ==               \* fault: does not wake the others
    v_pc[p] = "awake" /\ ~owned_by_driver[p] /\ Finish(p, FALSE)
RwReturn(p) == v_pc[p] = "awake" /\ ~owned_by_driver[p] /\ Finish(p, TRUE)

(* kill() makes a sleeper runnable, whatever it waits for.                 *)
VKill(p) ==
    /\ v_pc[p] \in {"wait", "free_sleep"}
    /\ vGoto(p, IF v_pc[p] = "wait" THEN "awake" ELSE "alloc")
    /\ UNCHANGED <<desc_free, idx, desc, info, owned_by_driver, rings, vdisk_lock,
                   v_req, v_data, v_disk, v_calls>>
-----------------------------------------------------------------------------
(* The device takes requests in the order of the avail ring and completes  *)
(* them in any order.                                                      *)
DeviceTake ==
    /\ taken # avail_idx
    /\ working' = working \cup {avail[taken % VIRTIO_DESCRIPTORS]}
    /\ taken' = NextIdx(taken)
    /\ UNCHANGED <<desc_free, idx, desc, info, owned_by_driver, avail, avail_idx, used,
                   used_ring_idx, used_idx, irq, vdisk_lock, v_pc, v_req, v_data,
                   v_disk, v_calls>>

DeviceDone(h) ==
    LET p == info[h]
        b == desc[h][1]
    IN  /\ h \in working
        /\ IF desc[h][2] THEN /\ v_disk' = [v_disk EXCEPT ![b] = v_data[p]]
                               /\ UNCHANGED v_data
                          ELSE /\ v_data' = [v_data EXCEPT ![p] = v_disk[b]]
                               /\ UNCHANGED v_disk
        /\ working' = working \ {h}
        /\ used' = [used EXCEPT ![used_ring_idx % VIRTIO_DESCRIPTORS] = h]
        /\ used_ring_idx' = NextIdx(used_ring_idx)
        /\ irq' = TRUE
        /\ UNCHANGED <<desc_free, idx, desc, info, owned_by_driver, avail, avail_idx,
                       used_idx, taken, vdisk_lock, v_pc, v_req, v_calls>>

(* virtio_block_device_interrupt(): acknowledged before the ring is read.  *)
IntrAck ==
    /\ irq /\ vdisk_lock = Nobody
    /\ irq' = FALSE
    /\ vdisk_lock' = "intr"
    /\ UNCHANGED <<desc_free, idx, desc, info, owned_by_driver, avail, avail_idx, used,
                   used_ring_idx, used_idx, taken, working, v_pc, v_req, v_data,
                   v_disk, v_calls>>

IntrEntry ==
    LET p == info[used[used_idx % VIRTIO_DESCRIPTORS]]
    IN  /\ vdisk_lock = "intr"
        /\ used_idx # used_ring_idx
        /\ owned_by_driver' = [owned_by_driver EXCEPT ![p] = FALSE]
        /\ v_pc' = [v_pc EXCEPT ![p] = IF @ = "wait" THEN "awake" ELSE @]
        /\ used_idx' = NextIdx(used_idx)
        /\ UNCHANGED <<desc_free, idx, desc, info, avail, avail_idx, used, used_ring_idx,
                       taken, working, irq, vdisk_lock, v_req, v_data, v_disk, v_calls>>

IntrReturn ==
    /\ vdisk_lock = "intr" /\ used_idx = used_ring_idx
    /\ vdisk_lock' = Nobody
    /\ UNCHANGED <<desc_free, idx, desc, info, owned_by_driver, rings, v_pc, v_req,
                   v_data, v_disk, v_calls>>

RwStep(p) ==
    RwSubmit(p) \/ RwNoDescriptors(p) \/ RwAgain(p) \/ RwReturn(p)

VirtioNext ==
    \/ \E p \in VProcs :
        \/ \E b \in VBlocks :
              \/ RwCall(p, b, FALSE, v_data[p])
              \/ \E v \in VValues : RwCall(p, b, TRUE, v)
        \/ RwStep(p)
        \/ VKill(p)
    \/ DeviceTake
    \/ \E h \in Descs : DeviceDone(h)
    \/ IntrAck \/ IntrEntry \/ IntrReturn

VirtioSpec == VirtioInit /\ [][VirtioNext]_virtioVars
-----------------------------------------------------------------------------
Pending == {avail[(taken + k) % VIRTIO_DESCRIPTORS] :
                k \in 0 .. (((avail_idx - taken) % IDX) - 1)}
Completed == {used[(used_idx + k) % VIRTIO_DESCRIPTORS] :
                k \in 0 .. (((used_ring_idx - used_idx) % IDX) - 1)}

(* Types; the ring indices are those of struct virtq_avail and virtq_used. *)
VirtioTypeOK ==
    /\ desc_free \subseteq Descs
    /\ \A p \in VProcs : idx[p] = << >> \/ idx[p] \in Descs \X Descs \X Descs
    /\ info \in [Descs -> VProcs \cup {Nobody}]
    /\ owned_by_driver \in [VProcs -> BOOLEAN]
    /\ avail \in [Descs -> Descs] /\ used \in [Descs -> Descs]
    /\ {avail_idx, used_ring_idx, used_idx, taken} \subseteq 0 .. (IDX - 1)
    /\ working \subseteq Descs /\ irq \in BOOLEAN
    /\ vdisk_lock \in {"intr", Nobody}
    /\ v_pc \in [VProcs -> VLabels]
    /\ v_data \in [VProcs -> VValues] /\ v_disk \in [VBlocks -> VValues]
    /\ v_calls \in [VProcs -> 0 .. MaxRw]

(* virtio_disk_rw(): no descriptor is lost or in two chains, whatever the  *)
(* order of completions, kills and failing allocations.                    *)
DescriptorsExact ==
    /\ UNION {Chain(p) : p \in VProcs} = Descs \ desc_free
    /\ \A p, q \in VProcs : p # q => Chain(p) \cap Chain(q) = {}

(* The device only ever holds chains of calls that have not returned: it   *)
(* never writes into a buffer after the caller of virtio_disk_rw() is told *)
(* that the transfer is over.                                              *)
DmaInsideCall ==
    \A h \in Pending \cup working \cup Completed :
        \E p \in VProcs : /\ info[h] = p /\ idx[p] # << >> /\ idx[p][1] = h
                          /\ owned_by_driver[p] /\ v_pc[p] \in {"wait", "awake"}

(* The driver is a block device: every call moves its block exactly once,  *)
(* before it returns.                                                      *)
Abstract == INSTANCE BlockDevice WITH
    Callers <- VProcs, Sectors <- VBlocks, Contents <- VValues,
    stored <- v_disk, buffer <- v_data,
    asked <- [p \in VProcs |-> IF v_req[p] = << >> THEN {} ELSE {v_req[p]}],
    moved <- {p \in VProcs : idx[p] # << >> /\ idx[p][1] \notin Pending \cup working}

IsBlockDevice == Abstract!BdSpec

(* Every call returns, although callers have to wait for descriptors and   *)
(* completions share one interrupt.                                        *)
RwCallsReturn == \A p \in VProcs : v_pc[p] # "idle" ~> v_pc[p] = "idle"

(* The driver's descriptors are either free or of one request, and the device *)
(* accesses a buffer only during the call it belongs to.                      *)
VirtioSafe ==
    /\ VirtioTypeOK
    /\ DescriptorsExact
    /\ DmaInsideCall
=============================================================================
