------------------------------- MODULE Devices -------------------------------
(***************************************************************************)
(* Finding and starting the devices (kernel/init/dtb.c, main.c,            *)
(* kernel/drivers/devices_list.c, device.c and the drivers' init           *)
(* functions), and the interrupt controller (kernel/arch/riscv/plic.c).    *)
(*                                                                         *)
(* The device tree is given as the sequence of its nodes in the order in   *)
(* which fdt_next_node() visits them; how it is stored is module Fdt.  A   *)
(* cell of the tree holds a number below CellBase.  The boot hart runs the *)
(* phases of init_devices() and init_filesystem() one after the other;     *)
(* then the harts enable their interrupts and serve them.                  *)
(***************************************************************************)
EXTENDS Integers, Sequences, SequencesExt, FiniteSetsExt

CONSTANTS Dtbs,       \* the device trees to boot with
          CellBase,   \* 2^32
          MaxDevs,    \* MAX_DEV_LIST_LENGTH
          MaxMaps,    \* DEVICE_MAX_MEM_MAPS
          MaxClocks,  \* DEVICE_MAX_CLOCKS
          MaxRanges   \* MAX_ADDRESS_RAGES

VARIABLES dtb,   \* the device tree
          dv,    \* the list of devices and what the drivers set up
          irqs   \* the interrupt controller's gateways and the harts

devVars == <<dtb, dv, irqs>>

INVALID_DEVICE == <<>>
NoIrq == 0

g_virtual_drivers == <<"/dev/null", "/dev/zero", "/dev/random">>
g_generell_drivers ==
    <<"ns16550a", "snps,dw-apb-uart", "ucb,htif0", "virtio,mmio", "google,goldfish-rtc",
      "syscon", "riscv,plic0", "sifive,plic-1.0.0", "starfive,jh7110-syscrg",
      "starfive,jh7110-temp">>

-----------------------------------------------------------------------------
(* Reading the tree                                                        *)

\* dtb_parse_cell(): a value of n cells, and the cells after it.
ParseCell(n, cells) ==
    CASE n = 0 -> [v |-> 0, rest |-> cells]
      [] n = 1 -> [v |-> cells[1], rest |-> Tail(cells)]
      [] n = 2 -> [v |-> cells[1] * CellBase + cells[2], rest |-> SubSeq(cells, 3, Len(cells))]

\* Groups of values of the given widths, at most max of them.
ParseGroups(widths, cells, max) ==
    LET Value(acc, n) == LET p == ParseCell(n, acc.rest)
                         IN  [vs |-> Append(acc.vs, p.v), rest |-> p.rest]
        Group(acc, k) ==
            IF acc.rest = <<>> THEN acc
            ELSE LET g == FoldLeft(Value, [vs |-> <<>>, rest |-> acc.rest], widths)
                 IN  [groups |-> Append(acc.groups, g.vs), rest |-> g.rest]
    IN  FoldLeft(Group, [groups |-> <<>>, rest |-> cells], [k \in 1..max |-> k]).groups

\* get_address_ranges(): <<child address, parent address, size>>.
AddressRanges(bus) ==
    ParseGroups(<<bus.acells, bus.pacells, bus.scells>>, bus.ranges, MaxRanges)

OutOfRange == -1
MapMmioAddress(addr, ranges) ==
    LET in == {i \in DOMAIN ranges : addr > ranges[i][1] /\ addr < ranges[i][1] + ranges[i][3]}
    IN  IF in = {} THEN OutOfRange
        ELSE addr + (ranges[Min(in)][2] - ranges[Min(in)][1])

\* dtb_get_regs(): the address of each register block as the CPU sees it.
GetRegs(node) ==
    LET bus == dtb.buses[node.bus]
        ranges == AddressRanges(bus)
        regs == ParseGroups(<<bus.acells, bus.scells>>, node.reg, MaxMaps)
    IN  [k \in DOMAIN regs |->
            <<IF ranges = <<>> THEN regs[k][1] ELSE MapMmioAddress(regs[k][1], ranges),
              regs[k][2]>>]

\* The clocks are told apart with this device's own #clock-cells.
ClockPhandles(node) ==
    LET n == Len(node.clocks) \div (node.ccells + 1)
    IN  [k \in 1..(IF n < MaxClocks THEN n ELSE MaxClocks) |->
            node.clocks[(k - 1) * (node.ccells + 1) + 1]]

Found(driver, node, mem, irq, phandle, parent, clocks) ==
    [driver |-> driver, node |-> node, mem |-> mem, irq |-> irq, phandle |-> phandle,
     parent |-> parent, clocks |-> clocks, num |-> INVALID_DEVICE]
Bare(driver, mem) == Found(driver, 0, mem, NoIrq, 0, 0, <<>>)

IsCompatible(node, driver) == \E i \in DOMAIN node.compatible : node.compatible[i] = driver

\* dev_list_add_with_parameters(): a full list drops the device.
AddDevice(list, d) == IF Len(list) = MaxDevs THEN list ELSE Append(list, d)

\* dtb_add_devices_to_dev_list(): the first driver in the list of drivers wins.
AddFromDtb(list, i) ==
    LET node == dtb.nodes[i]
        fits == {k \in DOMAIN g_generell_drivers : IsCompatible(node, g_generell_drivers[k])}
    IN  IF fits = {} THEN list
        ELSE AddDevice(list, Found(g_generell_drivers[Min(fits)], i, GetRegs(node), node.irq,
                                   node.phandle, node.parent, ClockPhandles(node)))

\* add_ramdisks_to_dev_list(): an initrd given by its first byte and its end.
AddRamdisk(list) ==
    LET base == dtb.initrd[1]
        size == dtb.initrd[2] - dtb.initrd[1]
    IN  IF base # 0 /\ size # 0 THEN AddDevice(list, Bare("ramdisk", <<<<base, size>>>>))
        ELSE list

DeviceList ==
    LET virtual == FoldLeft(LAMBDA l, d : AddDevice(l, Bare(d, <<>>)), <<>>, g_virtual_drivers)
    IN  AddRamdisk(FoldLeft(AddFromDtb, virtual, [i \in DOMAIN dtb.nodes |-> i]))

-----------------------------------------------------------------------------
(* dev_list_sort(): after a swap the code keeps comparing with the old     *)
(* maximum but leaves its index alone, so a pass is not quite a bubble     *)
(* sort's; the passes end when one of them swaps nothing.                  *)

Address(d) == IF d.mem = <<>> THEN 0 ELSE d.mem[1][1]

SortPass(list, index) ==
    LET Step(acc, idx) ==
            LET addr == Address(acc.list[idx])
            IN  IF addr < acc.max
                THEN [acc EXCEPT !.list[idx] = acc.list[acc.at], !.list[acc.at] = acc.list[idx],
                                 !.swapped = TRUE]
                ELSE [acc EXCEPT !.max = addr, !.at = idx]
    IN  FoldLeft(Step, [list |-> list, max |-> 0, at |-> 1, swapped |-> FALSE], index)

RECURSIVE SortPasses(_, _)
SortPasses(list, index) ==
    LET p == SortPass(list, index)
    IN  IF p.swapped THEN SortPasses(p.list, index) ELSE p.list

DevListSort(list, name) ==
    SortPasses(list, SetToSortSeq({i \in DOMAIN list : list[i].driver = name}, <))

-----------------------------------------------------------------------------
(* Starting the devices                                                    *)

\* register_device(): a number in use is a panic; the priority is only set when
\* the interrupt controller is there already.
RegisterDevice(s, num, irq) ==
    IF \E i \in DOMAIN s.registered : s.registered[i].num = num
    THEN [s EXCEPT !.panic = "number"]
    ELSE [s EXCEPT !.registered = Append(@, [num |-> num, irq |-> irq]),
                   !.prio = IF irq # NoIrq /\ s.plic THEN @ \cup {irq} ELSE @]

\* plic_init_hart_context_lookup(): the second context that names a hart's
\* interrupt controller is the one for supervisor mode (the property
\* interrupts-extended, which lists them, is there).
HartContext(hart) ==
    LET of == {c \in DOMAIN dtb.contexts : dtb.contexts[c] = dtb.cpus[hart]}
    IN  IF Cardinality(of) < 2 THEN -1 ELSE Min(of \ {Min(of)})

\* The init functions: what they set up and the device number they return.  Most
\* drivers serve one device only; some need no entry in the device table.
Failed(s) == [s |-> s, num |-> INVALID_DEVICE]
OneOf(s, name) ==
    IF name \in s.once THEN Failed(s)
    ELSE [s |-> [s EXCEPT !.once = @ \cup {name}], num |-> <<name, 0>>]
Registered(s, num, irq) == [s |-> RegisterDevice(s, num, irq), num |-> num]

DevNullInit(s) == Registered(s, <<"null", 0>>, NoIrq)
DevZeroInit(s) == Registered(s, <<"zero", 0>>, NoIrq)
DevRandomInit(s) == Registered(s, <<"random", 0>>, NoIrq)
UartInit(s) == OneOf(s, "uart")
HtifInit(s) == [s |-> [s EXCEPT !.once = @ \cup {"htif"}], num |-> <<"htif", 0>>]
RtcInit(s) == OneOf(s, "rtc")
SyscrgInit(s) == OneOf(s, "syscrg")
SysconInit(s) == IF dtb.poweroff THEN OneOf(s, "syscon") ELSE Failed(s)
PlicInit(s) == LET r == OneOf(s, "plic") IN [r EXCEPT !.s.plic = TRUE]
RamdiskInit(s, present) ==
    IF present THEN Registered(s, <<"ramdisk", 0>>, NoIrq) ELSE Failed(s)

\* A slot without a disk gets no number; a disk that cannot be set up loses its.
VirtioDiskInitInternal(s, num, irq, present) ==
    IF present THEN Registered(s, num, irq) ELSE Failed(s)
VirtioDiskInit(s, d, present) ==
    IF ~dtb.nodes[d.node].disk THEN Failed(s)
    ELSE VirtioDiskInitInternal([s EXCEPT !.minor = @ + 1], <<"virtio", s.minor>>, d.irq, present)

\* jh7110_syscrg_enable() panics without its clock.
TempInit(s, d) ==
    IF "temp" \in s.once THEN Failed(s)
    ELSE IF "syscrg" \notin s.once THEN Failed([s EXCEPT !.panic = "clock"])
    ELSE Registered([s EXCEPT !.once = @ \cup {"temp"}], <<"temp", 0>>, d.irq)

InitFunc(s, d, present) ==
    CASE d.driver = "/dev/null" -> DevNullInit(s)
      [] d.driver = "/dev/zero" -> DevZeroInit(s)
      [] d.driver = "/dev/random" -> DevRandomInit(s)
      [] d.driver \in {"ns16550a", "snps,dw-apb-uart"} -> UartInit(s)
      [] d.driver = "ucb,htif0" -> HtifInit(s)
      [] d.driver = "virtio,mmio" -> VirtioDiskInit(s, d, present)
      [] d.driver = "ramdisk" -> RamdiskInit(s, present)
      [] d.driver = "google,goldfish-rtc" -> RtcInit(s)
      [] d.driver = "syscon" -> SysconInit(s)
      [] d.driver \in {"riscv,plic0", "sifive,plic-1.0.0"} -> PlicInit(s)
      [] d.driver = "starfive,jh7110-syscrg" -> SyscrgInit(s)
      [] d.driver = "starfive,jh7110-temp" -> TempInit(s, d)

\* What init_device() starts before the device itself.
Dependencies_irq(d) == SelectSeq(<<d.parent>>, LAMBDA p : p # 0)
Dependencies(d) == SelectSeq(<<d.parent>> \o d.clocks, LAMBDA p : p # 0)

\* init_device_by_phandle() starts the first device of the list with that phandle.
ByPhandle(s, p) == {i \in DOMAIN s.list : s.list[i].phandle = p}

RECURSIVE InitDevice(_, _, _)
InitDevice(s, i, present) ==
    LET d == s.list[i]
        First(t, p) == IF ByPhandle(t, p) = {} THEN t
                       ELSE InitDevice(t, Min(ByPhandle(t, p)), present)
        r == LET t == FoldLeft(First, s, Dependencies(d)) IN InitFunc(t, d, i \in present)
    IN  IF d.num # INVALID_DEVICE \/ s.panic # "" THEN s
        ELSE [r.s EXCEPT !.list[i].num = r.num, !.tried = Append(@, i)]

Named(list, name) == {i \in DOMAIN list : list[i].driver = name}

\* dtb_find_boot_console_in_dev_list(): by the first compatible string only.
FindConsole(list) ==
    IF dtb.stdout = 0 THEN 0
    ELSE LET compatible == dtb.nodes[dtb.stdout].compatible
             is == IF compatible = <<>> THEN {} ELSE Named(list, compatible[1])
         IN  IF is = {} THEN 0 ELSE Min(is)

\* console_init() with the device found: starts it by its name and registers the
\* console with the device's interrupt.
ConsoleInit(s, con, present) ==
    LET t == InitDevice(s, Min(Named(s.list, s.list[con].driver)), present)
        dev == t.list[Min(Named(s.list, s.list[con].driver))]
        irq == IF dev.driver = "ucb,htif0" THEN NoIrq ELSE s.list[con].irq
    IN  IF dev.num = INVALID_DEVICE THEN [t EXCEPT !.panic = "console"]
        ELSE [RegisterDevice(t, <<"console", 0>>, irq) EXCEPT !.console = con]

\* dev_list_get_first_device_index(): the started device with the lowest address.
FirstDevice(list, name) ==
    LET is == {i \in Named(list, name) : list[i].num # INVALID_DEVICE}
    IN  {i \in is : \A j \in is : \/ Address(list[i]) < Address(list[j])
                                  \/ Address(list[i]) = Address(list[j]) /\ i <= j}
ChooseRoot(s) ==
    LET ram == FirstDevice(s.list, "ramdisk")
        disk == FirstDevice(s.list, "virtio,mmio")
    IN  IF ram \cup disk = {} THEN [s EXCEPT !.panic = "root"]
        ELSE [s EXCEPT !.root = s.list[CHOOSE i \in IF ram # {} THEN ram ELSE disk : TRUE].num]

-----------------------------------------------------------------------------
(* The boot hart's phases; every one runs to its end before the next.      *)

PlicHarts == DOMAIN dtb.cpus
Fresh == [phase |-> "scan", list |-> <<>>, registered |-> <<>>, once |-> {}, minor |-> 0,
          plic |-> FALSE, prio |-> {}, tried |-> <<>>, console |-> 0, root |-> INVALID_DEVICE,
          panic |-> ""]
Quiet(harts) == [raised |-> {}, pending |-> {}, inited |-> {}, enabled |-> [h \in harts |-> {}],
                 serving |-> [h \in harts |-> 0], handled |-> [h \in harts |-> FALSE]]

DevInit ==
    /\ dtb \in Dtbs
    /\ dv = Fresh
    /\ irqs = Quiet(PlicHarts)

Phase(from, to) == /\ dv.phase = from /\ dv.panic = ""
                   /\ dv'.phase = to
                   /\ UNCHANGED <<dtb, irqs>>

ScanDevices ==
    /\ dv' = LET list == DevListSort(DeviceList, "virtio,mmio")
             IN  [dv EXCEPT !.list = list, !.phase = "console",
                            !.panic = IF \E i \in DOMAIN list : \E k \in DOMAIN list[i].mem :
                                             list[i].mem[k][1] = OutOfRange
                                      THEN "range" ELSE @]
    /\ Phase("scan", "console")

StartConsole ==
    /\ dv.phase = "console"
    /\ dv' = IF FindConsole(dv.list) = 0 THEN [dv EXCEPT !.panic = "no console", !.phase = "devices"]
             ELSE [ConsoleInit(dv, FindConsole(dv.list), DOMAIN dv.list) EXCEPT !.phase = "devices"]
    /\ Phase("console", "devices")

\* dev_list_init_all_devices(), with every choice of disks that do not answer.
StartDevices ==
    /\ dv.phase = "devices"
    /\ \E absent \in SUBSET (Named(dv.list, "virtio,mmio") \cup Named(dv.list, "ramdisk")) :
          dv' = [FoldLeft(LAMBDA s, i : InitDevice(s, i, (DOMAIN dv.list) \ absent), dv,
                          [i \in DOMAIN dv.list |-> i])
                 EXCEPT !.phase = "root"]
    /\ Phase("devices", "root")

FindRoot ==
    /\ dv.phase = "root"
    /\ dv' = [ChooseRoot(dv) EXCEPT !.phase = "run"]
    /\ Phase("root", "run")

-----------------------------------------------------------------------------
(* Interrupts.  A gateway (part of the controller, external) passes a      *)
(* device's interrupt on once, until it is completed.                      *)

RegisteredIrqs == {dv.registered[i].irq : i \in DOMAIN dv.registered} \ {NoIrq}
Claimable(h) == irqs.pending \cap irqs.enabled[h] \cap dv.prio

\* plic_init_per_cpu(): enables what is registered, with the lost priorities set.
\* The context -1 is used like any other: its registers are those of no hart.
InitPerCpu(h) ==
    /\ dv.phase = "run" /\ dv.panic = "" /\ dv.plic /\ h \notin irqs.inited
    /\ irqs' = [irqs EXCEPT !.inited = @ \cup {h},
                            !.enabled[h] = IF HartContext(h) >= 0 THEN RegisteredIrqs ELSE @]
    /\ dv' = [dv EXCEPT !.prio = @ \cup RegisteredIrqs]
    /\ UNCHANGED dtb

Gateway(q) == q.pending \cup (q.raised \ {q.serving[h] : h \in PlicHarts})

RaiseIrq(irq) ==
    /\ dv.phase = "run" /\ dv.panic = "" /\ irq \notin irqs.raised
    /\ irqs' = LET q == [irqs EXCEPT !.raised = @ \cup {irq}] IN [q EXCEPT !.pending = Gateway(q)]
    /\ UNCHANGED <<dtb, dv>>

\* handle_device_interrupt() up to the call of the device's handler.
Claim(h) ==
    /\ irqs.serving[h] = 0
    /\ \E irq \in Claimable(h) :
          irqs' = [irqs EXCEPT !.pending = @ \ {irq}, !.serving[h] = irq, !.handled[h] = FALSE]
    /\ UNCHANGED <<dtb, dv>>

Handle(h) ==
    /\ irqs.serving[h] # 0 /\ ~irqs.handled[h]
    /\ irqs' = [irqs EXCEPT !.raised = @ \ {irqs.serving[h]}, !.handled[h] = TRUE]
    /\ UNCHANGED <<dtb, dv>>

Complete(h) ==
    /\ irqs.serving[h] # 0 /\ irqs.handled[h]
    /\ irqs' = LET q == [irqs EXCEPT !.serving[h] = 0] IN [q EXCEPT !.pending = Gateway(q)]
    /\ UNCHANGED <<dtb, dv>>

DevNext ==
    \/ ScanDevices \/ StartConsole \/ StartDevices \/ FindRoot
    \/ \E h \in PlicHarts : InitPerCpu(h) \/ Claim(h) \/ Handle(h) \/ Complete(h)
    \/ \E irq \in RegisteredIrqs : RaiseIrq(irq)

-----------------------------------------------------------------------------
(* Properties *)

\* Every register block of a found device is where the bus puts it: the address
\* minus the start of the one range that holds it, plus where that range is
\* mapped.  (An address at the very start of a range panics: map_mmio_address()
\* compares with >.)
AddressesTranslated ==
    dv.panic # "range" =>
    \A i \in DOMAIN dv.list :
        LET d == dv.list[i]
        IN  d.node # 0 =>
            LET bus == dtb.buses[dtb.nodes[d.node].bus]
                regs == ParseGroups(<<bus.acells, bus.scells>>, dtb.nodes[d.node].reg, MaxMaps)
            IN  \A k \in DOMAIN d.mem :
                   bus.ranges # <<>> =>
                   \E r \in Range(AddressRanges(bus)) :
                      /\ regs[k][1] \in r[1]..(r[1] + r[3] - 1)
                      /\ d.mem[k][1] - r[2] = regs[k][1] - r[1]

\* init_device(): when a driver's init function is called, the interrupt
\* controller and the clocks its device needs were tried before it; so a clock
\* that exists is never missing.
DependenciesFirst ==
    /\ dv.panic # "clock"
    /\ \A i \in DOMAIN dv.tried :
          LET d == dv.list[dv.tried[i]]
          IN  \A p \in Range(<<d.parent>> \o d.clocks) \ {0} :
                 ByPhandle(dv, p) # {} => \E j \in 1..(i - 1) : dv.list[dv.tried[j]].phandle = p

\* The root file system is on the ramdisk if there is one, and else on the disk
\* with the lowest number: dev_list_sort() gives the numbers in the order of the
\* addresses, and dev_list_get_first_device_index() looks for the lowest address.
RootHasFirstNumber ==
    dv.root # INVALID_DEVICE =>
    LET nums == {dv.registered[i].num : i \in DOMAIN dv.registered}
    IN  IF \E n \in nums : n[1] = "ramdisk" THEN dv.root[1] = "ramdisk"
        ELSE /\ dv.root[1] = "virtio"
             /\ \A n \in nums : n[1] = "virtio" => dv.root[2] <= n[2]

\* The console is the device that /chosen/stdout-path names, unless another
\* device with the same driver comes before it in the tree:
\* dtb_find_boot_console_in_dev_list() compares the names of drivers.
ConsoleAtStdout ==
    dv.console # 0 =>
    LET d == dv.list[dv.console]
    IN  \/ d.node = dtb.stdout
        \/ /\ d.node < dtb.stdout
           /\ d.driver = Head(dtb.nodes[dtb.stdout].compatible)

\* Every interrupt of a registered device reaches a hart that called
\* plic_init_per_cpu(), also when it was registered before the controller was
\* there and register_device() could not set its priority; only a hart that
\* interrupts-extended does not name twice gets none.
InterruptsReach ==
    \A h \in irqs.inited :
        \/ RegisteredIrqs \subseteq irqs.enabled[h] \cap dv.prio
        \/ Cardinality({c \in DOMAIN dtb.contexts : dtb.contexts[c] = dtb.cpus[h]}) < 2

\* handle_device_interrupt() completes an interrupt after its handler has run: no
\* two harts are in the handler of one device.
HandlersExclusive ==
    \A g, h \in PlicHarts : irqs.serving[g] # 0 /\ irqs.serving[g] = irqs.serving[h] => g = h
=============================================================================
