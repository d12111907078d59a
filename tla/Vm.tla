--------------------------------- MODULE Vm ---------------------------------
(***************************************************************************)
(* Address spaces: page tables (vm.c, page_table.c) and what fork, exec,   *)
(* sbrk, stack growth and exit do to them (proc.c, process.c, exec.c), on  *)
(* a page allocator that runs out of memory at any call.  A call is one    *)
(* step: it holds the lock of the page table, or the table is not visible  *)
(* to another process yet.  A page table has two levels, as on Sv32.  A    *)
(* panic, and what the clean-up after a failure gets wrong, is recorded in *)
(* flaw, and the machine stops there.                                      *)
(***************************************************************************)
EXTENDS BootMap, FiniteSetsExt

CONSTANTS
    VProcesses,     \* user processes
    InitProcess,    \* the first one
    Frames,         \* physical pages, 1 .. n
    Slots,          \* kernel stacks, 0 .. MAX_PROCESSES - 1
    Ptes,           \* MAX_PTES_PER_PAGE_TABLE
    HeapLimit,      \* bound: pages up to the end of the heap, beyond the stack
    StackHigh,      \* USER_STACK_HIGH, in pages
    StackMax,       \* USER_MAX_STACK_SIZE, in pages
    TrapframeVa,    \* TRAPFRAME, in pages; TRAMPOLINE is the next page
    Programs,       \* sequences of segments [va, file, mem, x, w], in units
    Increments,     \* arguments of sbrk(), units
    AllocsLeft,     \* allocations that succeed during a call, then none does
    MaxVmCalls      \* bound: calls

ASSUME InitProcess \in VProcesses /\ StackHigh < TrapframeVa

VARIABLES
    vm,         \* the machine: [free, data, sp, tf, slot, left, up, flaw]
    proc,       \* process -> [state, heap_begin, heap_end, stack_low, ascending]
    view,       \* history: process -> page -> contents it should have
    vm_calls

vmVars == <<vm, proc, view, vm_calls>>

Unit == 2                       \* a page is two units: sizes need not be whole pages
Up(u) == (u + Unit - 1) \div Unit          \* PAGE_ROUND_UP, in pages
VaPages == 0 .. TrapframeVa + 1
NoSpace == [root |-> 0, map |-> <<>>, pt |-> << >>, tab |-> << >>]
KSpace == "kernel"
New == "new"                    \* the page table exec() builds
NoView == << >>
KstackVa(slot) == 2 * slot      \* a guard page follows every kernel stack
Seq_(a, b) == [i \in 1 .. b - a |-> a + i - 1]         \* pages a .. b - 1
PutRegion(f, x, v) == [y \in DOMAIN f \cup {x} |-> IF y = x THEN v ELSE f[y]]
Drop(f, S) == [y \in DOMAIN f \ S |-> f[y]]

(* alloc_page(ALLOC_FLAG_ZERO_MEMORY), kmalloc() of an object, free_page() *)
AllocPage(m) ==
    LET a == IF m.up THEN Min(m.free) ELSE Max(m.free)
    IN  IF m.left = 0 \/ m.free = {} THEN [m |-> m, a |-> 0]
        ELSE [m |-> [m EXCEPT !.free = @ \ {a}, !.left = @ - 1, !.data[a] = "zero"], a |-> a]
AllocObject(m) ==
    IF m.left = 0 THEN [m |-> m, ok |-> FALSE]
    ELSE [m |-> [m EXCEPT !.left = @ - 1], ok |-> TRUE]
Flaw(m, f) == [m EXCEPT !.flaw = IF @ = "none" THEN f ELSE @]
FreeFrames(m, S) ==
    LET n == [m EXCEPT !.free = @ \cup S,
                       !.data = [a \in DOMAIN @ |-> IF a \in S THEN "junk" ELSE @[a]]]
    IN  IF S \cap m.free # {} THEN Flaw(n, "freed twice") ELSE n

FramesOf(r) == r.pa .. r.pa + r.size - 1
FramesFreed(r) == IF FreePages(r.type) THEN FramesOf(r) ELSE {}
MapFrames(map) == UNION {FramesFreed(map[i]) : i \in 1 .. Len(map)}

(* A result [m, ok] of a step that may fail, and what comes after it       *)
(* unless the kernel has panicked.                                         *)
Worked(m) == [m |-> m, ok |-> TRUE]
NoMemory(m) == [m |-> m, ok |-> FALSE]
With(x, F(_)) == CHOOSE y \in {F(v) : v \in {x}} : TRUE      \* F(x), x evaluated once
Then(st, F(_)) == With(st, LAMBDA x : IF x.ok /\ x.m.flaw = "none" THEN F(x.m) ELSE x)
OnFailure(st, F(_)) == With(st, LAMBDA x : IF x.ok THEN x ELSE NoMemory(F(x.m)))

(* A page for va and the region for it; stops at the first failure.        *)
AddRegion_(m, s, r) ==
    Then(AllocObject(m), LAMBDA n : Worked([n EXCEPT !.sp[s].map = AddSingle(@, r)]))
AddPage(st, s, va, type, contents) ==
    Then(st, LAMBDA m :
      With(AllocPage(m), LAMBDA p :
        IF p.a = 0 THEN NoMemory(p.m)
        ELSE OnFailure(AddRegion_([p.m EXCEPT !.data[p.a] = contents], s,
                                  Region(va, p.a, 1, type)),
                       LAMBDA n : FreeFrames(n, {p.a}))))

(* vm_map() of one page: a missing table is allocated; a page that is      *)
(* mapped to something else is a panic.                                    *)
MapPage(st, s, va, pte) ==
    Then(st, LAMBDA m :
      LET t == va \div Ptes
          there == t \in DOMAIN m.sp[s].tab
          pt == m.sp[s].pt
      IN  With(IF there THEN [m |-> m, a |-> 0] ELSE AllocPage(m), LAMBDA p :
            IF ~there /\ p.a = 0 THEN NoMemory(p.m)
            ELSE LET m1 == IF there THEN m ELSE [p.m EXCEPT !.sp[s].tab = PutRegion(@, t, p.a)]
                 IN  IF va \in DOMAIN pt /\ pt[va] # pte THEN Worked(Flaw(m1, "remap"))
                     ELSE Worked([m1 EXCEPT !.sp[s].pt = PutRegion(@, va, pte)])))

(* page_table_map_region()                                                 *)
MapRegion(st, s, i) ==
    LET r == st.m.sp[s].map[i]
        Map(x, va) == MapPage(x, s, va, [pa |-> r.pa + (va - r.va), flags |-> PteFlags(r.type)])
    IN  IF ~st.ok \/ r.mapped # "marked" THEN st
        ELSE Then(FoldLeft(Map, st, Seq_(r.va, r.va + r.size)), LAMBDA m :
                  Worked([m EXCEPT !.sp[s].map[i].mapped = "partial"]))

(* page_table_unmap_partial_mappings(): page_table_unmap_region() has      *)
(* removed a region already when mm_region_remove() is called for it; a    *)
(* region whose mapping failed half way keeps its first entries.           *)
UnmapPartial_kept(m, s) ==      \* fault: marked regions stay
    [m EXCEPT !.sp[s].map = SelectSeq(@, LAMBDA r : r.mapped # "partial")]
UnmapPartial(m, s) ==
    LET map == m.sp[s].map
        Gone(r) == r.mapped \in {"partial", "marked"}
        gone == SelectSeq(map, Gone)
        stale == {va \in DOMAIN m.sp[s].pt :
                    \E i \in 1 .. Len(gone) : Covers(gone[i], va) /\ gone[i].mapped = "marked"}
        m1 == FreeFrames([m EXCEPT !.sp[s].map = SelectSeq(@, LAMBDA r : ~Gone(r))],
                         MapFrames(gone))
    IN  IF \E i \in 1 .. Len(gone) : gone[i].mapped = "partial" THEN Flaw(m1, "removed twice")
        ELSE IF stale # {} THEN Flaw(m1, "stale entry") ELSE m1

(* page_table_apply_mapping()                                              *)
ApplyMapping(m, s) ==
    LET Mapped(r) == IF r.mapped = "partial" THEN [r EXCEPT !.mapped = "mapped"] ELSE r
    IN  OnFailure(
          Then(FoldLeft(LAMBDA x, i : MapRegion(x, s, i), Worked(m), Seq_(1, Len(m.sp[s].map) + 1)),
               LAMBDA n : Worked([n EXCEPT !.sp[s].map = [i \in 1 .. Len(@) |-> Mapped(@[i])]])),
          LAMBDA n : UnmapPartial(n, s))

(* memory_map_remove_regions() with mm_region_resize(): what is left of a  *)
(* region when the pages va .. va + n - 1 go.                              *)
RestOf(r, va, n) ==
    CASE r.va >= va /\ EndOf(r) <= va + n - 1 -> <<>>
      [] r.va < va /\ EndOf(r) >= va /\ EndOf(r) <= va + n - 1 -> <<[r EXCEPT !.size = va - r.va]>>
      [] r.va >= va /\ r.va <= va + n - 1 /\ EndOf(r) >= va + n -> <<Tail_(r, va + n - r.va)>>
      [] OTHER -> <<r>>
RemoveRegions(m, s, va, n) ==
    LET rest == FoldLeft(LAMBDA x, r : x \o RestOf(r, va, n), <<>>, m.sp[s].map)
        m1 == FreeFrames([m EXCEPT !.sp[s].map = rest], MapFrames(m.sp[s].map) \ MapFrames(rest))
    IN  IF \E i \in 1 .. Len(m.sp[s].map) :
             m.sp[s].map[i].va < va /\ EndOf(m.sp[s].map[i]) > va + n - 1
        THEN Flaw(m1, "split") ELSE m1

(* vm_unmap() panics on a page that is not there; page_table_unmap_range().*)
VmUnmap(m, s, va, n) ==
    LET pages == va .. va + n - 1
    IN  IF pages \subseteq DOMAIN m.sp[s].pt THEN [m EXCEPT !.sp[s].pt = Drop(@, pages)]
        ELSE Flaw(m, "not mapped")
UnmapRange(m, s, va, n) == RemoveRegions(VmUnmap(m, s, va, n), s, va, n)

(* memory_map_free() frees the pages, vm_free_pgtable() the tables.        *)
TableFrames(sp) == {sp.tab[t] : t \in DOMAIN sp.tab} \cup ({sp.root} \ {0})
PageTableFree(m, s) ==
    [FreeFrames(m, MapFrames(m.sp[s].map) \cup TableFrames(m.sp[s])) EXCEPT !.sp[s] = NoSpace]

(* page_table_alloc_init() and proc_pagetable()                            *)
PageTableAlloc(m, s) ==
    Then(AllocObject(m), LAMBDA n :
      With(AllocPage(n), LAMBDA root :
        IF root.a = 0 THEN NoMemory(root.m)
        ELSE Worked([root.m EXCEPT !.sp[s] = [NoSpace EXCEPT !.root = root.a]])))
ProcPagetable(m, s, tf) ==
    LET Trampoline(n) == AddRegion_(n, s, Region(TrapframeVa + 1, 0, 1, "trampoline"))
        Trapframe(n) == AddRegion_(n, s, Region(TrapframeVa, tf, 1, "trapframe"))
    IN  Then(PageTableAlloc(m, s), LAMBDA pt :
          OnFailure(Then(Then(Trampoline(pt), Trapframe), LAMBDA n : ApplyMapping(n, s)),
                    LAMBDA n : PageTableFree(n, s)))

(* proc_init_kernel_stack(); process_free() unmaps it and vm_trim_pagetable*)
(* frees the table when it has become empty.                               *)
KernelStack(m, slot) ==
    Then(OnFailure(AddPage(Worked(m), KSpace, KstackVa(slot), "kstack", "zero"),
                   LAMBDA n : UnmapPartial(n, KSpace)),
         LAMBDA n : ApplyMapping(n, KSpace))
TrimPagetable(m, va) ==
    LET t == va \div Ptes
        tab == m.sp[KSpace].tab
        used == \E a \in DOMAIN m.sp[KSpace].pt : a \div Ptes = t
    IN  IF used \/ t \notin DOMAIN tab THEN m
        ELSE [FreeFrames(m, {tab[t]}) EXCEPT !.sp[KSpace].tab = Drop(@, {t})]

(* process_alloc_init(), which gives back what it has got when a step      *)
(* fails, and process_free().                                              *)
ProcessFree(m, p) ==
    LET va == KstackVa(m.slot[p])
        Forget(n) == [n EXCEPT !.tf[p] = 0, !.slot[p] = -1]
    IN  With(PageTableFree(FreeFrames(m, {m.tf[p]} \ {0}), p), LAMBDA n :
          IF n.slot[p] = -1 THEN Forget(n)
          ELSE With(UnmapRange(n, KSpace, va, 1), LAMBDA k : Forget(TrimPagetable(k, va))))
ProcessAlloc(m, p) ==
    LET used == {m.slot[q] : q \in VProcesses}
        slot == Min(Slots \ used)
        Stack(n) == OnFailure(KernelStack([n EXCEPT !.slot[p] = slot], slot),
                              LAMBDA x : [x EXCEPT !.slot[p] = -1])
        Space(tf) == IF tf.a = 0 THEN NoMemory(tf.m)
                     ELSE ProcPagetable([tf.m EXCEPT !.tf[p] = tf.a], p, tf.a)
    IN  Then(AllocObject(m), LAMBDA n :
          IF Slots \subseteq used THEN NoMemory(n)
          ELSE Then(Stack(n), LAMBDA ks :
                 OnFailure(With(AllocPage(ks), Space), LAMBDA x : ProcessFree(x, p))))

(* uvm_alloc_heap(), sizes in units                                        *)
AllocHeap(m, s, start, size, type) ==
    Then(OnFailure(FoldLeft(LAMBDA x, va : AddPage(x, s, va, type, "zero"), Worked(m),
                            Seq_(Up(start), Up(start + size))),
                   LAMBDA n : UnmapPartial(n, s)),
         LAMBDA n : ApplyMapping(n, s))

(* uvm_grow_stack(): the page below low.                                   *)
GrowStack(m, s, low) ==
    Then(AddPage(Worked(m), s, low - 1, "user_stack", "zero"), LAMBDA n : ApplyMapping(n, s))

(* uvm_create_stack(): one page; the arguments do not always fit.          *)
CreateStack(m, s, fits) ==
    LET g == GrowStack(m, s, StackHigh) IN [g EXCEPT !.ok = @ /\ fits]

(* elf_flags_to_map_type()                                                 *)
MapType(seg) ==
    CASE seg.x /\ seg.w -> "user_rw_text"
      [] seg.x /\ ~seg.w -> "user_text"
      [] ~seg.x /\ seg.w -> "user_data"
      [] OTHER -> "user_ro"

(* loadseg(): the contents of the file, the rest of the last page stays    *)
(* cleared.                                                                *)
LoadSeg(m, s, seg) ==
    LET vas == seg.va .. seg.va + Up(seg.file) - 1
        pages == {m.sp[s].pt[va].pa : va \in vas}
    IN  IF m.flaw # "none" THEN m
        ELSE IF ~(vas \subseteq DOMAIN m.sp[s].pt) THEN Flaw(m, "not mapped")
        ELSE [m EXCEPT !.data = [a \in DOMAIN @ |-> IF a \in pages THEN MapType(seg) ELSE @[a]]]

(* load_program_to_memory(): the memory from the end of the last segment   *)
(* to the end of this one is allocated, none when this one ends earlier,   *)
(* and the heap begins behind the segment loaded last.  readable: the file *)
(* is as long as its header says.                                          *)
LoadProgram(m, s, prog, readable) ==
    FoldLeft(LAMBDA x, seg :
               LET end == Unit * seg.va + seg.mem
               IN  IF ~x.ok THEN x
                   ELSE IF seg.mem < seg.file THEN [x EXCEPT !.ok = FALSE]
                   ELSE With(AllocHeap(x.m, s, x.last, end - x.last, MapType(seg)), LAMBDA h :
                          IF ~h.ok THEN [x EXCEPT !.m = h.m, !.ok = FALSE]
                          ELSE [m |-> LoadSeg(h.m, s, seg), ok |-> readable, last |-> end]),
             [m |-> m, ok |-> TRUE, last |-> 0], prog)

(* do_execv(): everything that can fail happens on the new page table;     *)
(* fits: uvm_create_stack() finds room for the arguments.                  *)
Execv(m, p, prog, readable, fits) ==
    LET NoExec(n) == [m |-> n, ok |-> FALSE, last |-> 0]
        Replace(n, last) ==
            [m |-> [PageTableFree(n, p) EXCEPT !.sp[p] = n.sp[New], !.sp[New] = NoSpace],
             ok |-> TRUE, last |-> last]
        Free(n) == NoExec(PageTableFree(n, New))
    IN  With(ProcPagetable(m, New, m.tf[p]), LAMBDA pt :
          IF ~pt.ok THEN NoExec(pt.m)
          ELSE With(LoadProgram(pt.m, New, prog, readable), LAMBDA ld :
                 IF ~ld.ok THEN Free(ld.m)
                 ELSE With(CreateStack(ld.m, New, fits), LAMBDA gs :
                        IF ~gs.ok THEN Free(gs.m) ELSE Replace(gs.m, ld.last))))

(* page_table_copy_from_region() and page_table_copy_on_fork()             *)
CopyRegion(st, dst, src, r) ==
    LET Copy(x, va) == AddPage(x, dst, va, r.type, x.m.data[x.m.sp[src].pt[va].pa])
        Copied(map) == {va \in r.va .. EndOf(r) : \E i \in 1 .. Len(map) : Covers(map[i], va)}
    IN  IF ~st.ok \/ r.mapped # "mapped" \/ ~CopyOnFork(r.type) THEN st
        ELSE OnFailure(FoldLeft(Copy, st, Seq_(r.va, r.va + r.size)), LAMBDA m :
               RemoveRegions(m, dst, r.va, Cardinality(Copied(m.sp[dst].map))))
CopySpace(m, dst, src) ==
    Then(OnFailure(FoldLeft(LAMBDA x, r : CopyRegion(x, dst, src, r), Worked(m), m.sp[src].map),
                   LAMBDA n : [FreeFrames(n, MapFrames(n.sp[dst].map)) EXCEPT !.sp[dst].map = <<>>]),
         LAMBDA n : ApplyMapping(n, dst))
VmFork(m, p, c) ==
    Then(ProcessAlloc(m, c), LAMBDA n :
      OnFailure(CopySpace(n, c, p), LAMBDA x : ProcessFree(x, c)))

---------------------------------------------------------------------------
NoProc == [state |-> "none", heap_begin |-> 0, heap_end |-> 0, stack_low |-> 0, ascending |-> TRUE]
Machine(up) ==
    [free |-> Frames, data |-> [a \in Frames |-> "junk"],
     sp |-> [s \in VProcesses \cup {KSpace, New} |-> NoSpace],
     tf |-> [p \in VProcesses |-> 0], slot |-> [p \in VProcesses |-> -1],
     left |-> Max(AllocsLeft), up |-> up, flaw |-> "none"]

After(m) == [m EXCEPT !.left = 0]

(* init_userspace(): the first process exists, without memory of its own.  *)
VmInit ==
    /\ vm = Machine(TRUE)
    /\ proc = [p \in VProcesses |-> NoProc]
    /\ view = [p \in VProcesses |-> NoView]
    /\ vm_calls = 0

InitUserspace ==
    /\ \A p \in VProcesses : proc[p].state = "none"
    /\ \E up \in BOOLEAN : vm' = After(ProcessAlloc(Machine(up), InitProcess).m)
    /\ proc' = [proc EXCEPT ![InitProcess].state = "new"]
    /\ UNCHANGED <<view, vm_calls>>

(* A call starts with the number of allocations that will still succeed.   *)
Limited(n) == [vm EXCEPT !.left = n]
VmCall(p, states) ==
    /\ vm.flaw = "none" /\ vm_calls < MaxVmCalls /\ proc[p].state \in states
    /\ vm_calls' = vm_calls + 1

(* The memory a program starts with, and whether its segments ascend.      *)
EndOfSeg(seg) == Unit * seg.va + seg.mem
Ascending(prog) == \A i \in 1 .. Len(prog) - 1 : EndOfSeg(prog[i]) <= EndOfSeg(prog[i + 1])
Image(prog) ==
    LET Ends == {Up(EndOfSeg(prog[i])) : i \in 1 .. Len(prog)}
        In(va) == {i \in 1 .. Len(prog) : va \in prog[i].va .. prog[i].va + Up(prog[i].file) - 1}
    IN  [va \in 0 .. Max(Ends) - 1 |-> IF In(va) = {} THEN "zero" ELSE MapType(prog[Max(In(va))])]
         @@ [va \in {StackHigh - 1} |-> "zero"]

Exec(p, prog, n, fault) ==
    /\ VmCall(p, {"new", "run"})
    /\ \E x \in {Execv(Limited(n), p, prog, fault # "file", fault # "args")} :
           /\ vm' = IF x.m.flaw = "remap" /\ ~Ascending(prog)
                    THEN [x.m EXCEPT !.flaw = "segments", !.left = 0] ELSE After(x.m)
           /\ proc' = IF ~x.ok THEN proc
                      ELSE [proc EXCEPT ![p] = [state |-> "run", heap_begin |-> x.last,
                                                heap_end |-> x.last, stack_low |-> StackHigh - 1,
                                                ascending |-> Ascending(prog)]]
           /\ view' = IF x.ok THEN [view EXCEPT ![p] = Image(prog)] ELSE view

ForkCall(p, c, n) ==
    /\ VmCall(p, {"run"}) /\ proc[c].state = "none"
    /\ \E x \in {VmFork(Limited(n), p, c)} :
           /\ vm' = After(x.m)
           /\ proc' = IF x.ok THEN [proc EXCEPT ![c] = proc[p]] ELSE proc
           /\ view' = IF x.ok THEN [view EXCEPT ![c] = view[p]] ELSE view

(* sys_sbrk(): proc_grow_memory()                                          *)
DeallocHeap(m, p, inc) ==
    LET new == proc[p].heap_end + inc
    IN  IF Up(proc[p].heap_end) = Up(new) THEN m
        ELSE UnmapRange(m, p, Up(new), Up(proc[p].heap_end) - Up(new))
Sbrk(p, inc, n) ==
    /\ VmCall(p, {"run"})
    /\ LET end == proc[p].heap_end
           new == end + inc
       IN  IF inc > 0
           THEN /\ Up(new) <= HeapLimit
                /\ \E x \in {AllocHeap(Limited(n), p, end, inc, "user_data")} :
                     /\ vm' = After(x.m)
                     /\ proc' = IF x.ok THEN [proc EXCEPT ![p].heap_end = new] ELSE proc
                     /\ view' = IF ~x.ok THEN view
                                ELSE [view EXCEPT ![p] = [va \in Up(end) .. Up(new) - 1 |-> "zero"] @@ @]
           ELSE /\ new >= proc[p].heap_begin
                /\ vm' = DeallocHeap(vm, p, inc)
                /\ proc' = [proc EXCEPT ![p].heap_end = new]
                /\ view' = [view EXCEPT ![p] = Drop(@, Up(new) .. Up(end) - 1)]

(* A page fault below the stack: proc_grow_stack().                        *)
StackFault(p, n) ==
    /\ VmCall(p, {"run"})
    /\ StackHigh - proc[p].stack_low < StackMax
    /\ LET low == proc[p].stack_low
       IN  \E x \in {GrowStack(Limited(n), p, low)} :
             /\ vm' = After(x.m)
             /\ proc' = IF x.ok THEN [proc EXCEPT ![p].stack_low = low - 1] ELSE proc
             /\ view' = IF x.ok THEN [view EXCEPT ![p] = PutRegion(@, low - 1, "zero")] ELSE view

(* The scheduler: proc_shrink_stack() up to the page of the saved sp, which*)
(* the program may have set to anything.                                   *)
ShrinkStack(p, sp) ==
    /\ VmCall(p, {"run"})
    /\ proc[p].stack_low < StackHigh - 1 /\ proc[p].stack_low < sp
    /\ vm' = UnmapRange(vm, p, proc[p].stack_low, sp - proc[p].stack_low)
    /\ proc' = [proc EXCEPT ![p].stack_low = sp]
    /\ view' = [view EXCEPT ![p] = Drop(@, proc[p].stack_low .. sp - 1)]

(* uvm_copy_out() over n pages: stops at the first page that is not there  *)
(* or not writable.                                                        *)
Writable(p, va) == va \in DOMAIN vm.sp[p].pt /\ vm.sp[p].pt[va].flags \in {"urw", "urwx"}
CopyOut(p, va, n) ==
    /\ VmCall(p, {"run"})
    /\ LET done == {a \in va .. va + n - 1 : \A b \in va .. a : Writable(p, b)}
           hit == {vm.sp[p].pt[a].pa : a \in done}
       IN  /\ vm' = [vm EXCEPT !.data = [f \in Frames |-> IF f \in hit THEN p ELSE @[f]]]
           /\ view' = [view EXCEPT ![p] = [a \in DOMAIN @ |-> IF a \in done THEN p ELSE @[a]]]
    /\ UNCHANGED proc

(* The parent has waited for the process: the last reference is dropped.   *)
VmReap(p) ==
    /\ VmCall(p, {"run"}) /\ p # InitProcess
    /\ vm' = ProcessFree(vm, p)
    /\ proc' = [proc EXCEPT ![p] = NoProc]
    /\ view' = [view EXCEPT ![p] = NoView]

VmNext ==
    \/ InitUserspace
    \/ \E p \in VProcesses :
         \/ \E n \in AllocsLeft :
              \/ \E prog \in Programs, fault \in {"none", "file", "args"} : Exec(p, prog, n, fault)
              \/ \E c \in VProcesses : ForkCall(p, c, n)
              \/ \E inc \in Increments : Sbrk(p, inc, n)
              \/ StackFault(p, n)
         \/ \E sp \in VaPages : ShrinkStack(p, sp)
         \/ \E va \in VaPages : CopyOut(p, va, 2)
         \/ VmReap(p)

---------------------------------------------------------------------------
(* Regions are sorted and pages are known.                                 *)
VmTypeOK == vm.flaw = "none" =>
    /\ vm.free \subseteq Frames /\ DOMAIN vm.data = Frames
    /\ \A s \in DOMAIN vm.sp :
         /\ DOMAIN vm.sp[s].pt \subseteq VaPages
         /\ \A i \in 1 .. Len(vm.sp[s].map) - 1 : EndOf(vm.sp[s].map[i]) < vm.sp[s].map[i + 1].va

(* No page leaks and none is used twice: whatever call failed at whatever  *)
(* allocation, every page is free or has exactly one owner.                *)
Uses(f) ==
    LET Regions(s) == {i \in 1 .. Len(vm.sp[s].map) : f \in FramesFreed(vm.sp[s].map[i])}
        Tables(s) == {t \in DOMAIN vm.sp[s].tab : vm.sp[s].tab[t] = f}
        PerSpace(s) == Cardinality(Regions(s)) + Cardinality(Tables(s))
                         + (IF vm.sp[s].root = f THEN 1 ELSE 0)
    IN  MapThenSumSet(PerSpace, DOMAIN vm.sp)
          + Cardinality({p \in VProcesses : vm.tf[p] = f})
PagesExact ==
    vm.flaw = "none" => \A f \in Frames : Uses(f) = IF f \in vm.free THEN 0 ELSE 1

(* The memory of a process is what it should be: exactly the pages it got  *)
(* from exec(), sbrk(), fork() and stack growth are mapped for it, cleared *)
(* or copied as promised, and no other process changes them.  A failed     *)
(* call leaves all of it as it was.                                        *)
UserPages(p) == {va \in DOMAIN vm.sp[p].pt : va < TrapframeVa}
MemoryAsPromised ==
    vm.flaw = "none" =>
      \A p \in VProcesses :
        /\ UserPages(p) = DOMAIN view[p]
        /\ \A va \in UserPages(p) : vm.data[vm.sp[p].pt[va].pa] = view[p][va]

(* Page table and region list agree: page_table_apply_mapping() and        *)
(* page_table_unmap_range() keep the entries and the mapped regions equal. *)
TableMatchesMap ==
    vm.flaw = "none" =>
      \A s \in DOMAIN vm.sp :
        /\ \A i \in 1 .. Len(vm.sp[s].map) : vm.sp[s].map[i].mapped = "mapped"
        /\ \A va \in DOMAIN vm.sp[s].pt :
             \E i \in 1 .. Len(vm.sp[s].map) :
               LET r == vm.sp[s].map[i]
               IN  Covers(r, va) /\ vm.sp[s].pt[va] = [pa |-> r.pa + (va - r.va),
                                                       flags |-> PteFlags(r.type)]

(* No call panics but in three ways the code leaves open, whatever ran out *)
(* of memory before: vm_map() finds a page mapped to something else only   *)
(* when heap and stack meet, which neither sbrk() nor the growing stack    *)
(* tests, or in a program whose segments do not ascend; vm_unmap() finds a *)
(* page missing only when the saved sp is above the stack.                 *)
(* memory_map_remove_regions() never finds a region to split, and no page  *)
(* is freed that is free.                                                  *)
NoMappingPanic ==
    /\ vm.flaw \in {"none", "removed twice", "stale entry", "segments", "remap", "not mapped"}
    /\ vm.flaw = "remap" => \E p \in VProcesses :
         ~proc[p].ascending \/ Up(proc[p].heap_end) > proc[p].stack_low
    /\ vm.flaw = "not mapped" => \E p \in VProcesses : proc[p].stack_low > StackHigh
=============================================================================
