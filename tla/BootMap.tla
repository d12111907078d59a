------------------------------ MODULE BootMap ------------------------------
(***************************************************************************)
(* How the boot builds the memory map of the kernel: the early page table  *)
(* of early_pgtable_init(), then init_memory_management(), which maps all  *)
(* RAM, cuts the known regions out of it and gives the rest to the page    *)
(* allocator, then the registers of the devices.  Addresses and sizes are  *)
(* counted in pages, those of devices in bytes.                            *)
(***************************************************************************)
EXTENDS Integers, Sequences, FiniteSets, SequencesExt

(***************************************************************************)
(* The list of regions that goes with every page table (memory_map.c).     *)
(* Addresses and sizes are counted in pages.                               *)
(***************************************************************************)

Region(va, pa, size, type) ==
    [va |-> va, pa |-> pa, size |-> size, type |-> type,
     mapped |-> IF type \in {"reserved", "kernel"} THEN "never" ELSE "marked"]

(* g_region_attributes                                                     *)
PteFlags(type) ==
    CASE type \in {"reserved", "kernel"} -> "none"
      [] type \in {"text", "text_pa", "trampoline"} -> "rx"
      [] type \in {"rodata", "dtb"} -> "r"
      [] type = "mmio" -> "mmio"
      [] type = "user_text" -> "urx"
      [] type = "user_rw_text" -> "urwx"
      [] type = "user_ro" -> "ur"
      [] type \in {"user_data", "user_stack"} -> "urw"
      [] OTHER -> "rw"
FreePages(type) ==
    type \in {"user_text", "user_rw_text", "user_ro", "user_data", "user_stack", "kstack"}
CopyOnFork(type) == FreePages(type) /\ type # "kstack"

EndOf(r) == r.va + r.size - 1
Covers(r, va) == va \in r.va .. EndOf(r)

(* mm_regions_can_be_merged(), mm_regions_merge(), mm_region_fits_before() *)
Before(a, b) == a.va + a.size = b.va /\ a.pa + a.size = b.pa
CanMerge(a, b) ==
    /\ a.type = b.type /\ a.type # "mmio" /\ a.mapped = b.mapped
    /\ Before(a, b) \/ Before(b, a)
Merged(a, b) ==
    [a EXCEPT !.va = IF b.va < a.va THEN b.va ELSE a.va,
              !.pa = IF b.pa < a.pa THEN b.pa ELSE a.pa,
              !.size = a.size + b.size]
FitsBefore(a, b) == EndOf(a) < b.va

(* The first region of the list with property P, or one past the end.      *)
FirstWith(map, P(_)) ==
    IF \E i \in 1 .. Len(map) : P(map[i])
    THEN CHOOSE i \in 1 .. Len(map) : P(map[i]) /\ \A j \in 1 .. i - 1 : ~P(map[j])
    ELSE Len(map) + 1

(* memory_map_add_single_region()                                          *)
AddSingle(map, new) ==
    LET i == FirstWith(map, LAMBDA r : CanMerge(r, new) \/ FitsBefore(new, r))
    IN  CASE i > Len(map) -> Append(map, new)
          [] i <= Len(map) /\ CanMerge(map[i], new) -> [map EXCEPT ![i] = Merged(@, new)]
          [] OTHER -> InsertAt(map, i, new)

(* memory_map_add_single_region_and_split(): a region that overlaps none   *)
(* of the cases goes to the end of the list.                               *)
Same(r, new) == new.va = r.va /\ new.size = r.size
StartsIn(r, new) == new.va = r.va /\ EndOf(new) < EndOf(r)
Inside(r, new) == new.va > r.va /\ EndOf(new) < EndOf(r)
Tail_(r, n) == [r EXCEPT !.va = @ + n, !.pa = @ + n, !.size = @ - n]
SplitAt(map, i, new) ==
    LET r == map[i]
        low == new.va - r.va
    IN  CASE CanMerge(r, new) -> [map EXCEPT ![i] = Merged(r, new)]
          [] Same(r, new) -> [map EXCEPT ![i] = new]
          [] FitsBefore(new, r) -> InsertAt(map, i, new)
          [] StartsIn(r, new) ->
               InsertAt([map EXCEPT ![i] = Tail_(r, new.size)], i, new)
          [] OTHER ->
               SubSeq(map, 1, i - 1)
                 \o <<[r EXCEPT !.size = low], new, Tail_(r, low + new.size)>>
                 \o SubSeq(map, i + 1, Len(map))
Handled(r, new) ==
    CanMerge(r, new) \/ Same(r, new) \/ FitsBefore(new, r) \/ StartsIn(r, new)
      \/ Inside(r, new)
Unfit(map, new) ==
    \E i \in 1 .. Len(map) :
      /\ \E va \in new.va .. EndOf(new) : Covers(map[i], va)
      /\ ~(Same(map[i], new) \/ StartsIn(map[i], new) \/ Inside(map[i], new))
AddAndSplit_unsplit(map, new) == AddSingle(map, new)    \* fault: nothing is cut
AddAndSplit(map, new) ==
    LET i == FirstWith(map, LAMBDA r : Handled(r, new))
    IN  IF new.size = 0 THEN map
        ELSE IF i > Len(map) THEN Append(map, new) ELSE SplitAt(map, i, new)
-----------------------------------------------------------------------------

CONSTANTS
    RamPages,       \* size of RAM, which starts at physical page 0
    RamVa,          \* PAGE_OFFSET: virtual page of physical page 0
    TrampolineVa,   \* TRAMPOLINE, above all RAM
    EarlyPages,     \* RAM mapped behind the kernel by the early page table
    PtesPerTable,   \* MAX_PTES_PER_PAGE_TABLE
    EarlyTables,    \* EARLY_PT_RESERVED_PAGES without the root
    MmioBase,       \* MMIO_BASE
    DeviceMem,      \* physical ranges of devices, <<first byte, bytes>>
    MaxDevices      \* bound: ranges mapped

VARIABLES
    layout,     \* where linker and firmware put things, or NoLayout
    todo,       \* the calls of memory_map_add_region_and_split() to come
    kmap,       \* g_kernel_pagetable->memory_map
    early_pt,   \* the page table the kernel runs on: va -> [pa, flags]
    pool,       \* virtual pages handed to the page allocator
    devs,       \* init_parameters.mem: <<first byte, bytes, virtual first byte>>
    mmio_next,  \* g_next_free_mmio_va
    added,      \* history: the regions added so far
    unsplit     \* history: a region fitted none of the cases and overlaps another

bootVars == <<layout, todo, kmap, early_pt, pool, devs, mmio_next, added, unsplit>>

ASSUME RamPages < RamVa /\ RamVa + RamPages < TrampolineVa

PageBytes == 4

(* The regions of early_pgtable_init(), in the order in which it adds them.*)
KernelSize(l) == l.text + l.ro + l.data + l.bss
KernelEnd(l) == l.off + KernelSize(l)
EarlyEnd(l) ==
    IF KernelEnd(l) + EarlyPages < RamPages THEN KernelEnd(l) + EarlyPages ELSE RamPages
MappedAt(pa, size, type) == Region(pa + RamVa, pa, size, type)
EarlyRegions(l) ==
    SelectSeq(
      <<MappedAt(0, l.off, "reserved"),
        Region(l.off, l.off, 1, "text_pa"),
        MappedAt(l.off, l.text, "text"),
        MappedAt(l.off + l.text, l.ro, "rodata"),
        MappedAt(l.off + l.text + l.ro, l.data, "data"),
        MappedAt(l.off + l.text + l.ro + l.data, l.bss, "bss"),
        MappedAt(KernelEnd(l), EarlyEnd(l) - KernelEnd(l), "early_ram"),
        MappedAt(l.dtb, l.dtb_size, "dtb")>>,
      LAMBDA r : r.size > 0)

(* early_vm_map(): later regions overwrite earlier ones; a table for every *)
(* PtesPerTable pages, early_panic() when there are too many.              *)
EarlyMap(l) ==
    FoldLeft(LAMBDA pt, r :
               IF PteFlags(r.type) = "none" THEN pt
               ELSE [va \in DOMAIN pt \cup (r.va .. EndOf(r)) |->
                       IF Covers(r, va)
                       THEN [pa |-> r.pa + (va - r.va), flags |-> PteFlags(r.type)]
                       ELSE pt[va]],
             << >>, EarlyRegions(l))
TablesFor(pt) == {va \div PtesPerTable : va \in DOMAIN pt}

(* init_memory_management(): the calls that fill the kernel's map.         *)
MapCalls(l) ==
    <<MappedAt(0, RamPages, "usable_ram"), MappedAt(l.off, KernelSize(l), "kernel")>>
      \o EarlyRegions(l)
      \o <<Region(TrampolineVa, l.off, 1, "text")>>
      \o IF l.initrd_size = 0 THEN <<>> ELSE <<MappedAt(l.initrd, l.initrd_size, "initrd")>>

NoLayout == [off |-> 0]
Apart(a, n, b, m) == a + n <= b \/ b + m <= a
Layouts ==
    {l \in [off : {0, 1}, text : {1}, ro : {1}, data : {0, 1}, bss : {1},
            dtb : 0 .. RamPages - 1, dtb_size : {1, 2},
            initrd : 0 .. RamPages - 1, initrd_size : {0, 2}] :
       /\ l.dtb + l.dtb_size <= RamPages /\ l.initrd + l.initrd_size <= RamPages
       /\ Apart(l.dtb, l.dtb_size, 0, KernelEnd(l))
       /\ IF l.initrd_size = 0 THEN l.initrd = 0
          ELSE Apart(l.initrd, l.initrd_size, 0, KernelEnd(l))
               /\ Apart(l.initrd, l.initrd_size, l.dtb, l.dtb_size)}

BootInit ==
    /\ layout = NoLayout /\ todo = <<>> /\ kmap = <<>> /\ early_pt = << >>
    /\ pool = {} /\ added = <<>> /\ unsplit = FALSE /\ devs = <<>>
    /\ mmio_next = MmioBase

(* kalloc_init() takes the early RAM before the map of the kernel exists.  *)
EarlyBoot ==
    /\ layout = NoLayout
    /\ layout' \in Layouts
    /\ early_pt' = EarlyMap(layout')
    /\ Cardinality(TablesFor(early_pt')) <= EarlyTables
    /\ pool' = {va \in RamVa .. RamVa + RamPages :
                  va - RamVa \in KernelEnd(layout') .. EarlyEnd(layout') - 1}
    /\ todo' = MapCalls(layout')
    /\ UNCHANGED <<kmap, devs, mmio_next, added, unsplit>>

AddRegion ==
    /\ todo # <<>>
    /\ kmap' = AddAndSplit(kmap, Head(todo))
    /\ added' = Append(added, Head(todo))
    /\ todo' = Tail(todo)
    /\ unsplit' = (unsplit \/ Unfit(kmap, Head(todo)))
    /\ UNCHANGED <<layout, early_pt, pool, devs, mmio_next>>

(* page_table_apply_mapping(), then kalloc_init_memory(): the allocator    *)
(* gets the usable RAM.                                                    *)
ApplyKernelMap ==
    /\ layout # NoLayout /\ todo = <<>>
    /\ \E i \in 1 .. Len(kmap) : kmap[i].mapped = "marked"
    /\ kmap' = [i \in 1 .. Len(kmap) |->
                  IF kmap[i].mapped = "marked" THEN [kmap[i] EXCEPT !.mapped = "mapped"]
                  ELSE kmap[i]]
    /\ pool' = pool \cup {va \in RamVa .. RamVa + RamPages :
                            \E i \in 1 .. Len(kmap) :
                              kmap[i].type = "usable_ram" /\ Covers(kmap[i], va)}
    /\ UNCHANGED <<layout, todo, early_pt, devs, mmio_next, added, unsplit>>

(* memory_map_add_device_mmio() for one range of a device: rounded to      *)
(* pages and given the next addresses, a page of padding after it.         *)
MmioSize(start, bytes) ==
    (start + bytes + PageBytes - 1) \div PageBytes - start \div PageBytes
NextMmio(size) == mmio_next + size + 1          \* vm_get_mmio_offset()
MapDevice(m) ==
    /\ layout # NoLayout /\ todo = <<>> /\ Len(devs) < MaxDevices
    /\ \A i \in 1 .. Len(kmap) : kmap[i].mapped = "marked" => kmap[i].type = "mmio"
    /\ LET first == m[1] \div PageBytes
           size == MmioSize(m[1], m[2])
       IN  /\ devs' = Append(devs, <<m[1], m[2], mmio_next * PageBytes + (m[1] % PageBytes)>>)
           /\ kmap' = AddSingle(kmap, Region(mmio_next, first, size, "mmio"))
           /\ mmio_next' = NextMmio(size)
    /\ UNCHANGED <<layout, todo, early_pt, pool, added, unsplit>>

BootNext ==
    EarlyBoot \/ AddRegion \/ ApplyKernelMap \/ \E m \in DeviceMem : MapDevice(m)

---------------------------------------------------------------------------
(* The kernel's memory map is sorted, no two regions of it overlap, and    *)
(* every page belongs to the region that was added for it last, at the     *)
(* right physical page: what memory_map_add_single_region_and_split()      *)
(* merges, replaces and splits loses nothing.                              *)
MapExact ==
    ~unsplit =>
      /\ \A i \in 1 .. Len(kmap) - 1 : EndOf(kmap[i]) < kmap[i + 1].va
      /\ \A n \in 1 .. Len(added) : \A va \in added[n].va .. EndOf(added[n]) :
           (\A m \in n + 1 .. Len(added) : ~Covers(added[m], va)) =>
             \E i \in 1 .. Len(kmap) :
               /\ Covers(kmap[i], va) /\ kmap[i].type = added[n].type
               /\ kmap[i].pa - kmap[i].va = added[n].pa - added[n].va

(* Switching from the early page table to the kernel's own keeps every     *)
(* mapping the running kernel uses: kvm_apply_mapping() installs a table   *)
(* that maps each early page to the same place with the same flags.        *)
EarlyMappingsKept ==
    (layout # NoLayout /\ todo = <<>> /\ ~unsplit) =>
      \A va \in DOMAIN early_pt :
        \E i \in 1 .. Len(kmap) :
          /\ Covers(kmap[i], va) /\ kmap[i].pa + (va - kmap[i].va) = early_pt[va].pa
          /\ PteFlags(kmap[i].type) = early_pt[va].flags

(* The allocator never gets a page of the kernel, the device tree or the   *)
(* RAM disk, provided the firmware kept these out of the early RAM, which  *)
(* kalloc_init() takes before any of them is cut out.                      *)
InEarlyRam(l, a, n) == ~Apart(a, n, KernelEnd(l), EarlyEnd(l) - KernelEnd(l))
PoolApart ==
    (layout # NoLayout /\ ~unsplit /\ ~InEarlyRam(layout, layout.dtb, layout.dtb_size)
       /\ (layout.initrd_size > 0 => ~InEarlyRam(layout, layout.initrd, layout.initrd_size)))
      => \A va \in pool : \A i \in 1 .. Len(kmap) :
           (Covers(kmap[i], va) /\ todo = <<>>) => kmap[i].type \in {"usable_ram", "early_ram"}

(* Every byte of a device range is mapped, at the address the driver gets, *)
(* to that byte of the device, also when the range starts inside a page.   *)
DevicesMapped ==
    \A d \in 1 .. Len(devs) : \A b \in 0 .. devs[d][2] - 1 :
      LET va == (devs[d][3] + b) \div PageBytes
          pa == (devs[d][1] + b) \div PageBytes
      IN  \E i \in 1 .. Len(kmap) :
            Covers(kmap[i], va) /\ kmap[i].pa + (va - kmap[i].va) = pa
=============================================================================
