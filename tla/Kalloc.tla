------------------------------- MODULE Kalloc -------------------------------
(***************************************************************************)
(* kernel/mm/kalloc.c, slab.c, cache.c: the buddy allocator for pages and  *)
(* one of the object caches of kmalloc() on top of it.                     *)
(*                                                                         *)
(* Memory is counted in pages.  g_kernel_memory.lock is taken and released *)
(* within one step, except by the reader of the statistics, who keeps it   *)
(* while it walks the slab list.  cache->lock is kept while a page is      *)
(* allocated or freed.  A free list is a set: which of its blocks comes    *)
(* first is left open, as is which free object of a slab.                  *)
(***************************************************************************)
EXTENDS Integers, Sequences, FiniteSets, SequencesExt

CONSTANTS
    CPUs,
    MemStart, MemEnd,       \* the region: pages MemStart .. MemEnd - 1
    PAGE_ALLOC_MAX_ORDER,
    Objects,                \* objects of one slab
    None

ASSUME KallocAssumption ==
    /\ MemStart \in Nat /\ MemEnd \in Nat /\ MemStart < MemEnd
    /\ PAGE_ALLOC_MAX_ORDER \in Nat
    /\ Objects # {} /\ IsFiniteSet(Objects)
    /\ None \notin CPUs

VARIABLES
    free,               \* list_of_free_memory[]: order -> first pages
    pages_allocated,
    blocks,             \* <<page, order>> handed out by alloc_pages()
    slab_list,          \* pages of the cache's slabs, first to last
    slab_free,          \* page -> free objects, for pages that are slabs
    objects,            \* <<page, object>> handed out by kmalloc()
    mem_lock,           \* g_kernel_memory.lock, of a statistics reader
    cache_lock,
    pc,
    arg                 \* <<page>> or <<page, object>> of the call

vars == <<free, pages_allocated, blocks, slab_list, slab_free, objects,
          mem_lock, cache_lock, pc, arg>>
buddy == <<free, pages_allocated>>
slabs == <<slab_list, slab_free, objects>>

Pages == MemStart .. (MemEnd - 1)
Orders == 0 .. PAGE_ALLOC_MAX_ORDER
PagesOf(page, order) == page .. (page + 2^order - 1)
Labels == {"idle", "alloc", "link", "free", "free_page", "walk"}
-----------------------------------------------------------------------------
(* The block of an order that contains a page, and its buddy: the address  *)
(* with the lowest bit of the order flipped.                               *)
BlockOf(page, order) == page - (page % 2^order)

BuddyOf(page, order) ==
    LET b == BlockOf(page, order)
    IN  IF (b \div 2^order) % 2 = 0 THEN b + 2^order ELSE b - 2^order

(* __free_pages(): the order up to which buddies are free and merged.      *)
MergedOrder(lists, page, order) ==
    CHOOSE m \in order .. PAGE_ALLOC_MAX_ORDER :
        /\ \A j \in order .. (m - 1) : BuddyOf(page, j) \in lists[j]
        /\ m = PAGE_ALLOC_MAX_ORDER \/ BuddyOf(page, m) \notin lists[m]

GiveBack_once(lists, page, order) ==    \* fault: merges one level only
    LET up == IF order < PAGE_ALLOC_MAX_ORDER
                 /\ BuddyOf(page, order) \in lists[order]
              THEN order + 1 ELSE order
    IN  [j \in Orders |->
            IF order <= j /\ j < up THEN lists[j] \ {BuddyOf(page, j)}
            ELSE IF j = up THEN lists[j] \cup {BlockOf(page, up)}
            ELSE lists[j]]

GiveBack(lists, page, order) ==
    LET m == MergedOrder(lists, page, order)
    IN  [j \in Orders |->
            IF order <= j /\ j < m THEN lists[j] \ {BuddyOf(page, j)}
            ELSE IF j = m THEN lists[j] \cup {BlockOf(page, m)}
            ELSE lists[j]]

(* __alloc_pages(): the smallest block that is large enough is split, the  *)
(* left half is used and the right one put on the list of its order.       *)
HasFree(order) == \E k \in order .. PAGE_ALLOC_MAX_ORDER : free[k] # {}

Split(order, k, page) ==
    [j \in Orders |->
        IF order <= j /\ j < k THEN free[j] \cup {page + 2^j}
        ELSE IF j = k THEN free[k] \ {page}
        ELSE free[j]]

TakePages(order, page) ==
    /\ mem_lock = None
    /\ \E k \in order .. PAGE_ALLOC_MAX_ORDER :
        /\ \A j \in order .. (k - 1) : free[j] = {}
        /\ page \in free[k]
        /\ free' = Split(order, k, page)
    /\ pages_allocated' = pages_allocated + 2^order

(* kalloc_init_memory_region(): blocks as large as alignment and the end   *)
(* of the region allow, or else single pages, are freed one by one.        *)
Alignment(page) ==
    CHOOSE k \in Orders :
        /\ page % 2^k = 0
        /\ k = PAGE_ALLOC_MAX_ORDER \/ page % 2^(k + 1) # 0

Region ==
    LET added[i \in 0 .. (MemEnd - MemStart)] ==
            IF i = 0 THEN [addr |-> MemStart, lists |-> [j \in Orders |-> {}]]
            ELSE LET s == added[i - 1]
                     k == IF s.addr + 2^Alignment(s.addr) <= MemEnd
                          THEN Alignment(s.addr) ELSE 0
                 IN  IF s.addr >= MemEnd THEN s
                     ELSE [addr |-> s.addr + 2^k,
                           lists |-> GiveBack(s.lists, s.addr, k)]
    IN  added[MemEnd - MemStart].lists

Init ==
    /\ free = Region
    /\ pages_allocated = 0
    /\ blocks = {}
    /\ slab_list = << >>
    /\ slab_free = [p \in {} |-> {}]
    /\ objects = {}
    /\ mem_lock = None /\ cache_lock = None
    /\ pc = [c \in CPUs |-> "idle"]
    /\ arg = [c \in CPUs |-> None]
-----------------------------------------------------------------------------
(* alloc_pages() and free_pages()                                          *)
AllocPages(c, order) ==
    /\ pc[c] = "idle"
    /\ \E page \in Pages :
        /\ TakePages(order, page)
        /\ blocks' = blocks \cup {<<page, order>>}
    /\ UNCHANGED <<slabs, mem_lock, cache_lock, pc, arg>>

FreePages(c, b) ==
    /\ pc[c] = "idle" /\ mem_lock = None
    /\ b \in blocks
    /\ free' = GiveBack(free, b[1], b[2])
    /\ pages_allocated' = pages_allocated - 2^b[2]
    /\ blocks' = blocks \ {b}
    /\ UNCHANGED <<slabs, mem_lock, cache_lock, pc, arg>>

(* free_pages_range(): n consecutive pages that were allocated one by one. *)
FreePagesRange(c, page, n) ==
    LET range == {<<p, 0>> : p \in page .. (page + n - 1)}
        given[i \in 0 .. n] ==
            IF i = 0 THEN free ELSE GiveBack(given[i - 1], page + i - 1, 0)
    IN  /\ pc[c] = "idle" /\ mem_lock = None
        /\ range \subseteq blocks
        /\ free' = given[n]
        /\ pages_allocated' = pages_allocated - n
        /\ blocks' = blocks \ range
        /\ UNCHANGED <<slabs, mem_lock, cache_lock, pc, arg>>
-----------------------------------------------------------------------------
(* kmalloc() of an object: kmem_cache_alloc().                             *)
CacheLock(c, label, what) ==
    /\ pc[c] = "idle" /\ cache_lock = None
    /\ cache_lock' = c
    /\ pc' = [pc EXCEPT ![c] = label]
    /\ arg' = [arg EXCEPT ![c] = what]
    /\ UNCHANGED <<buddy, blocks, slabs, mem_lock>>

CacheUnlock(c) ==
    /\ cache_lock' = None
    /\ pc' = [pc EXCEPT ![c] = "idle"]
    /\ arg' = [arg EXCEPT ![c] = None]

Kmalloc(c) == CacheLock(c, "alloc", None)

Full(p) == slab_free[p] = {}

(* The first slab of the list with a free object serves the request.       *)
SlabAlloc(c) ==
    /\ pc[c] = "alloc"
    /\ \E i \in DOMAIN slab_list, o \in Objects :
        /\ \A j \in 1 .. (i - 1) : Full(slab_list[j])
        /\ o \in slab_free[slab_list[i]]
        /\ slab_free' = [slab_free EXCEPT ![slab_list[i]] = @ \ {o}]
        /\ objects' = objects \cup {<<slab_list[i], o>>}
    /\ CacheUnlock(c)
    /\ UNCHANGED <<buddy, blocks, slab_list, mem_lock>>

AllFull == \A i \in DOMAIN slab_list : Full(slab_list[i])

(* All slabs are full: kmem_slab_create() gets a page.                     *)
SlabCreate(c) ==
    /\ pc[c] = "alloc" /\ AllFull
    /\ \E page \in Pages :
        /\ TakePages(0, page)
        /\ slab_free' = [p \in DOMAIN slab_free \cup {page} |->
                            IF p = page THEN Objects ELSE slab_free[p]]
        /\ arg' = [arg EXCEPT ![c] = <<page>>]
    /\ pc' = [pc EXCEPT ![c] = "link"]
    /\ UNCHANGED <<blocks, slab_list, objects, mem_lock, cache_lock>>

SlabNoMemory(c) ==
    /\ pc[c] = "alloc" /\ AllFull
    /\ mem_lock = None /\ ~HasFree(0)
    /\ CacheUnlock(c)
    /\ UNCHANGED <<buddy, blocks, slabs, mem_lock>>

SlabLink(c) ==
    /\ pc[c] = "link"
    /\ slab_list' = Append(slab_list, arg[c][1])
    /\ \E o \in Objects :
        /\ slab_free' = [slab_free EXCEPT ![arg[c][1]] = @ \ {o}]
        /\ objects' = objects \cup {<<arg[c][1], o>>}
    /\ CacheUnlock(c)
    /\ UNCHANGED <<buddy, blocks, mem_lock>>
-----------------------------------------------------------------------------
(* kfree() of an object: kmem_cache_free().                                *)
Kfree(c) == \E o \in objects : CacheLock(c, "free", o)

(* The slab's last object is gone: the slab leaves the list, and its page  *)
(* is freed.                                                               *)
SlabFree(c) ==
    LET p == arg[c][1]
        f == slab_free[p] \cup {arg[c][2]}
    IN  /\ pc[c] = "free"
        /\ objects' = objects \ {arg[c]}
        /\ slab_free' = [slab_free EXCEPT ![p] = f]
        /\ IF f = Objects
             THEN /\ slab_list' = Remove(slab_list, p)
                  /\ pc' = [pc EXCEPT ![c] = "free_page"]
                  /\ arg' = [arg EXCEPT ![c] = <<p>>]
                  /\ UNCHANGED cache_lock
             ELSE /\ CacheUnlock(c)
                  /\ UNCHANGED slab_list
        /\ UNCHANGED <<buddy, blocks, mem_lock>>

SlabDelete(c) ==
    /\ pc[c] = "free_page" /\ mem_lock = None
    /\ free' = GiveBack(free, arg[c][1], 0)
    /\ pages_allocated' = pages_allocated - 1
    /\ slab_free' = [p \in DOMAIN slab_free \ {arg[c][1]} |-> slab_free[p]]
    /\ CacheUnlock(c)
    /\ UNCHANGED <<blocks, slab_list, objects, mem_lock>>
-----------------------------------------------------------------------------
(* kalloc_get_memory_allocated() walks the slabs under                     *)
(* g_kernel_memory.lock.  The walk ends at the list head (None).           *)
WalkStart(c) ==
    /\ pc[c] = "idle" /\ mem_lock = None
    /\ mem_lock' = c
    /\ pc' = [pc EXCEPT ![c] = "walk"]
    /\ arg' = [arg EXCEPT ![c] = IF slab_list = << >> THEN None
                                 ELSE <<Head(slab_list)>>]
    /\ UNCHANGED <<buddy, blocks, slabs, cache_lock>>

(* list_del() links a deleted entry to itself: the walk stays on it.       *)
WalkNext(c) ==
    /\ pc[c] = "walk"
    /\ \E i \in DOMAIN slab_list :
        /\ arg[c] = <<slab_list[i]>>
        /\ arg' = [arg EXCEPT ![c] = IF i = Len(slab_list) THEN None
                                     ELSE <<slab_list[i + 1]>>]
    /\ UNCHANGED <<buddy, blocks, slabs, mem_lock, cache_lock, pc>>

WalkEnd(c) ==
    /\ pc[c] = "walk" /\ arg[c] = None
    /\ mem_lock' = None
    /\ pc' = [pc EXCEPT ![c] = "idle"]
    /\ UNCHANGED <<buddy, blocks, slabs, cache_lock, arg>>
-----------------------------------------------------------------------------
Next == \E c \in CPUs :
    \/ \E k \in Orders : AllocPages(c, k)
    \/ \E b \in blocks : FreePages(c, b)
    \/ \E p \in Pages, n \in 2 .. (MemEnd - MemStart) : FreePagesRange(c, p, n)
    \/ Kmalloc(c) \/ SlabAlloc(c) \/ SlabCreate(c) \/ SlabNoMemory(c)
    \/ SlabLink(c) \/ Kfree(c) \/ SlabFree(c) \/ SlabDelete(c)
    \/ WalkStart(c) \/ WalkNext(c) \/ WalkEnd(c)

Spec == Init /\ [][Next]_vars
-----------------------------------------------------------------------------
FreePageSet == UNION {PagesOf(p, k) : <<p, k>> \in
                        {<<q, j>> \in Pages \X Orders : q \in free[j]}}

TypeOK ==
    /\ \A k \in Orders : \A p \in free[k] :
        p % 2^k = 0 /\ PagesOf(p, k) \subseteq Pages
    /\ pages_allocated \in 0 .. (MemEnd - MemStart)
    /\ blocks \subseteq Pages \X Orders
    /\ slab_list \in Seq(Pages) /\ objects \subseteq Pages \X Objects
    /\ DOMAIN slab_free \subseteq Pages
    /\ mem_lock \in CPUs \cup {None} /\ cache_lock \in CPUs \cup {None}
    /\ pc \in [CPUs -> Labels]

(* alloc_pages(), free_pages(), free_pages_range(), kmalloc() and kfree(), *)
(* whatever their order and interleaving, give memory to one owner at a    *)
(* time: two blocks share no page, no page of a block is a slab's, no      *)
(* object is in a page that is no slab, and nothing of it is on a free     *)
(* list.                                                                   *)
OneOwner ==
    /\ \A a, b \in blocks :
        PagesOf(a[1], a[2]) \cap PagesOf(b[1], b[2]) # {} => a = b
    /\ \A b \in blocks :
        PagesOf(b[1], b[2]) \cap (FreePageSet \cup DOMAIN slab_free) = {}
    /\ \A o \in objects : o[1] \in DOMAIN slab_free
    /\ FreePageSet \cap DOMAIN slab_free = {}

(* No page is lost or counted twice: free blocks do not overlap, and       *)
(* pages_allocated, which user space reads to detect leaks, is the number  *)
(* of the pages that are on no free list.                                  *)
PagesExact ==
    /\ \A k, j \in Orders : \A p \in free[k], q \in free[j] :
        PagesOf(p, k) \cap PagesOf(q, j) # {} => p = q /\ k = j
    /\ pages_allocated = Cardinality(Pages \ FreePageSet)

(* "merge free buddy blocks of order X to one of order X+1": two buddies   *)
(* are never both free, so that memory that was freed, in whatever order   *)
(* and sizes, can be allocated in the largest blocks again.                *)
Coalesced ==
    \A k \in Orders \ {PAGE_ALLOC_MAX_ORDER} : \A p \in free[k] :
        BuddyOf(p, k) \notin free[k]

(* A slab is in the cache's list exactly as long as it has objects in use, *)
(* and its counters agree with what was handed out.                        *)
SlabsExact ==
    /\ \A o \in objects : o[1] \in ToSet(slab_list)
    /\ \A i \in DOMAIN slab_list :
        /\ \E o \in objects : o[1] = slab_list[i]
        /\ slab_free[slab_list[i]] =
             Objects \ {o[2] : o \in {x \in objects : x[1] = slab_list[i]}}
=============================================================================
