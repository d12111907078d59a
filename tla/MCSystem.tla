------------------------------ MODULE MCSystem ------------------------------
(* The components that need few states, each on a small instance.  A behaviour *)
(* runs one of them, named by part, while the others rest in an initial state. *)
EXTENDS BootMap, Vm, Smp, Fdt, Devices, Locks, Cred, Mount, Uart,
        FileData, FsTools, Shell, Lib

VARIABLE part

-----------------------------------------------------------------------------
(* Memory.                                                                 *)
MCDeviceMem == {<<100, 4>>, <<106, 3>>, <<106, 8>>}
TextSeg == [va |-> 0, file |-> 2, mem |-> 2, x |-> TRUE, w |-> FALSE]
DataSeg == [va |-> 1, file |-> 1, mem |-> 3, x |-> FALSE, w |-> TRUE]
MCPrograms == {<<TextSeg, DataSeg>>,
               <<DataSeg, TextSeg>>, <<DataSeg, TextSeg, DataSeg>>,   \* not ascending
               <<TextSeg, [DataSeg EXCEPT !.mem = 0]>>}               \* memsz < filesz
MCIncrements == {-3, -1, 1, 3}

-----------------------------------------------------------------------------
(* Device trees: names, the blobs of bases and overlays, boards.           *)
MCNodeNames == {<<"a", "">>, <<"a", "1">>}
MCValues == {<<>>, <<<<"u32", 1>>>>}
MCRanges == {<<6, 2>>, <<1, 5>>}

\* A blob from a sequence of tokens whose properties have their names with them.
Prop(n, v) == <<[PropTok(0, v) EXCEPT !.name = <<n, "">>]>>
TreeNode(name, inside) == <<BeginTok(<<name, "">>)>> \o inside \o <<PlainTok("end_node")>>
Blob(names, root, spare) ==
    LET toks == [i \in DOMAIN root |->
                    IF root[i].tag # "prop" THEN root[i]
                    ELSE PropTok(CHOOSE k \in DOMAIN names : names[k] = root[i].name[1], root[i].val)]
        b == [magic |-> "fdt", total |-> 0, rsv |-> <<>>, toks |-> Append(toks, PlainTok("end")),
              strs |-> names, dedup |-> TRUE]
    IN  [b EXCEPT !.total = DataSize(b) + spare]
NamePath(s) == <<<<"path", s>>>>
NameA == Nm("a")
NameB == Nm("b")
NameF == Nm("frag")
NameO == Nm("__overlay__")

BaseNames == <<"phandle", "p", "la", "lb">>
BaseRoot == TreeNode("",
    TreeNode("a", Prop("phandle", U32(2)) \o TreeNode("b", Prop("p", U32(1))))
    \o TreeNode("__symbols__", Prop("la", NamePath(<<NameA>>)) \o Prop("lb", NamePath(<<NameA, NameB>>))))
BareRoot == TreeNode("", <<BeginTok(<<"a", "1">>)>> \o Prop("phandle", U32(1)) \o <<PlainTok("end_node")>>)
MCBases == {Blob(BaseNames, BaseRoot, spare) : spare \in {0, 12, 60}}
           \cup {Blob(<<"phandle">>, BareRoot, 40)}

OverlayNames == <<"target-path", "target", "phandle", "p", "r", "la", "lb", "lc">>
Frag(props, kids) == TreeNode("frag", props \o TreeNode("__overlay__", kids))
TargetPath(path) == Prop("target-path", NamePath(path))
LocalFixup(n) ==
    TreeNode("__local_fixups__", TreeNode("frag", TreeNode("__overlay__", TreeNode(n, Prop("r", U32(0))))))
Fixup(label, path, name, off) ==
    TreeNode("__fixups__", Prop(label, <<<<"fix", path, name, off>>>>))
MCOverlays == {Blob(OverlayNames, TreeNode("", kids), 0) : kids \in {
    \* a node with a phandle and a property that differs, a reference to it, and a symbol
    Frag(TargetPath(<<NameA>>), TreeNode("b", Prop("phandle", U32(1)) \o Prop("p", U32(2))) \o TreeNode("c", Prop("r", U32(1))))
    \o LocalFixup("c") \o TreeNode("__symbols__", Prop("lc", NamePath(<<NameF, NameO, Nm("c")>>))),
    \* the overlay gives node a a phandle, which it has, and refers to it and to a label
    Frag(TargetPath(<<>>), TreeNode("a", Prop("phandle", U32(2)) \o Prop("r", U32(2) \o U32(0))))
    \o LocalFixup("a") \o Fixup("la", <<NameF, NameO, NameA>>, "r", 1),
    \* the target is a label
    Frag(Prop("target", U32(0)), TreeNode("d", Prop("phandle", U32(3))))
    \o Fixup("la", <<NameF>>, "target", 0),
    \* a label whose node has no phandle, a property without its node, and no target
    Frag(Prop("target", U32(0)), <<>>) \o Fixup("lb", <<NameF>>, "target", 0),
    Frag(TargetPath(<<>>), <<>>) \o TreeNode("__local_fixups__", Prop("r", U32(0))),
    Frag(<<>>, <<>>),
    Frag(TargetPath(<<>>), TreeNode("e", Prop("phandle", U32(12))))}}

DtNode(compatible, reg, bus, irq, phandle, parent, clocks) ==
    [compatible |-> compatible, reg |-> reg, bus |-> bus, irq |-> irq, phandle |-> phandle,
     parent |-> parent, clocks |-> clocks, ccells |-> 1, disk |-> TRUE]
FlatBus == [acells |-> 1, scells |-> 1, pacells |-> 1, ranges |-> <<>>]
WideBus == [acells |-> 2, scells |-> 1, pacells |-> 1, ranges |-> <<0, 0, 4, 4, 0, 8, 12, 4>>]
DtUart(a, irq) == DtNode(<<"ns16550a">>, <<a, 1>>, 1, irq, 0, 9, <<>>)
DtUartOwn(names, a) == DtNode(names, <<0, a, 1>>, 2, 1, 0, 0, <<>>)
DtDisk(a, irq) == DtNode(<<"virtio,mmio">>, <<a, 1>>, 1, irq, 0, 9, <<>>)
DtNoDisk(a) == [DtDisk(a, 3) EXCEPT !.disk = FALSE]
DtPlic == DtNode(<<"acme,intc", "riscv,plic0">>, <<15, 1>>, 1, 0, 9, 0, <<>>)
DtCrg == DtNode(<<"starfive,jh7110-syscrg">>, <<14, 1>>, 1, 0, 8, 0, <<>>)
DtTemp == DtNode(<<"starfive,jh7110-temp">>, <<0, 9, 1, 0, 10, 1, 0, 11, 1>>, 2, 5, 0, 9, <<8, 1, 8, 2>>)
DtRtc == DtNode(<<"google,goldfish-rtc">>, <<13, 1>>, 1, 0, 0, 0, <<>>)
DtSyscon == DtNode(<<"syscon">>, <<12, 1>>, 1, 0, 0, 0, <<>>)
DtHtif == DtNode(<<"ucb,htif0">>, <<>>, 1, 0, 0, 0, <<>>)
DtOther == DtNode(<<"other">>, <<1, 1>>, 1, 0, 0, 0, <<>>)
Board(nodes, stdout, initrd) ==
    [nodes |-> nodes, buses |-> <<FlatBus, WideBus>>, stdout |-> stdout, initrd |-> initrd,
     cpus |-> <<21, 22>>, poweroff |-> stdout # 2,
     contexts |-> IF Len(nodes) = 6 THEN <<20, 21, 21, 22>> ELSE <<20, 21, 21, 22, 22>>]
MCDtbs ==
    {Board(<<DtOther, DtUart(5, 1), DtDisk(a[1], 2), DtPlic, DtDisk(a[2], 3), DtRtc, DtDisk(a[3], 4), DtSyscon>>, 2, <<0, 0>>) :
        a \in {<<1, 2, 3>>, <<2, 3, 1>>, <<3, 2, 1>>}}
    \cup {Board(<<DtTemp, DtUartOwn(names, a), DtCrg, DtPlic, DtNoDisk(3), DtDisk(2, 3)>>, 2, <<0, 0>>) :
            a \in {1, 4, 8, 9}, names \in {<<"snps,dw-apb-uart">>, <<"snps,dw-apb-uart", "ns16550a">>}}
    \cup {Board(<<DtHtif, DtUart(4, 1), DtUart(5, 2), DtPlic, DtSyscon, DtRtc>>, n, <<7, 9>>) : n \in 0..3}

-----------------------------------------------------------------------------
(* Permission bits of files.                                               *)
MCInitMode == {<<"usr", "r">>, <<"usr", "w">>, <<"usr", "x">>, <<"grp", "r">>, <<"grp", "x">>, <<"oth", "r">>, <<"oth", "x">>}
MCModes == {{<<"usr", "r">>, <<"usr", "x">>, <<"oth", "x">>, <<"set", "u">>}, {<<"grp", "w">>, <<"set","g">>, <<"oth","w">>, <<"oth","x">>}}
MCFlagWords == {{}, {"O_WRONLY"}, {"O_RDWR", "O_APPEND"}, {"O_WRONLY", "O_CREAT", "O_TRUNC"}, {"O_TRUNC"}, {"O_EXEC"}}

-----------------------------------------------------------------------------
(* Files and directories of the host that mkfs copies.                     *)
HostFile(n, d) == [name |-> n, kind |-> "file", data |-> d]
HostDir(n, s) == [name |-> n, kind |-> "dir", sub |-> s]
MCHostFiles == {<<>>, <<1, 2, 3>>, <<1, 2, 3, 4, 5, 6, 7, 8, 9, 8, 7>>}
MCHostDirs == {<<HostDir("d", <<HostFile("x", <<7>>), HostDir("e", <<>>)>>), HostFile("y", <<8, 9, 8, 9>>)>>,
               <<HostDir("a", <<>>), HostDir("b", <<>>), HostDir("c", <<>>),
                 HostDir("f", <<>>), HostDir("g", <<>>), HostDir("h", <<>>)>>}

-----------------------------------------------------------------------------
(* Lines typed at the shell, and arguments of library functions.           *)
ShTokens == {"w", "|", "<", ">", ";", "&", "(", ")"}
MCLines == UNION {[1..n -> ShTokens] : n \in 1..4} \cup
  {<<"w","|","w","|","w">>, <<"w",";","w","|","w">>, <<"w","|","w",";","w">>,
   <<"(","w",";","w",")","|","w">>, <<"w","|","(","w","|","w",")">>, <<"w","&",";","w",";","w">>,
   <<"(","w","|","w",")","&",";","w">>, <<"w","<","w","|","w",">","w">>,
   <<"(","w","&",";","w",")",";","w">>, <<"(","w","|","w",")",">","w">>, <<"w","w","w","w">>,
   <<"(","w",";","w",")",";","(","w","|","w",")">>, <<"w","+","w">>}

MCArrays == UNION {[1..n -> 1..3] : n \in 1..3} \cup 
            {<<2,1,3,1,2>>, <<3,3,2,2,1,1>>, <<1,2,3,4,5>>, <<5,4,3,2,1,2>>, <<2,2,2,2>>, <<1,3,2,3,1>>}
MCStrings == {<<a, b, c, 0, 0>> : a \in 0..2, b \in 0..2, c \in 0..2}
MCFormats == {<<37, a, 100>> : a \in 49..57} \cup {<<37, 48, a, 100>> : a \in 49..57}
             \cup {<<37, a, b, 100>> : a \in 49..57, b \in 48..57}
             \cup {<<37, 108, c>> : c \in {105, 117, 111}} \cup {<<37, 108, 108, 100>>, <<37, 48, 53, 122, 120>>, <<37, 56, 108>>}

MCContent == <<1, 2, 9, 3, 9, 1>>

-----------------------------------------------------------------------------
Parts == {"boot", "vm", "smp", "fdt", "overlay", "devices", "cred", "mount", "uart", "file", "mkfs", "shell", "lib", "heap", "stream", "cpus", "threads"}

vars == <<part, bootVars, vmVars, smpVars, fdtVars, ovVars, devVars, lockVars, credVars,
          mntVars, uartVars, fdVars, fstVars, shVars, lib, libcVars>>

\* A part with several initial states has one when it is not run.
Init ==
    /\ part \in Parts
    /\ BootInit
    /\ VmInit
    /\ SmpInit
    /\ FdtInit /\ (part = "fdt" \/ fdt.total = CHOOSE n \in BufSizes : TRUE)
    /\ OvInit /\ (part = "overlay" \/ <<base, ov>> = CHOOSE o \in Bases \X Overlays : TRUE)
    /\ DevInit /\ (part = "devices" \/ dtb = CHOOSE d \in Dtbs : TRUE)
    /\ LockInit
    /\ CredInit
    /\ MntInit
    /\ UartsInit
    /\ FdInit
    /\ FstInit
    /\ ShInit
    /\ LibInit
    /\ LibcInit
    /\ vars = vars   \* TLC evaluates what PartView leaves out

Run_boot == part = "boot" /\ BootNext /\ UNCHANGED part
    /\ UNCHANGED <<vmVars, smpVars, fdtVars, ovVars, devVars, lockVars, credVars,
                   mntVars, uartVars, fdVars, fstVars, shVars, lib, libcVars>>
Run_vm == part = "vm" /\ VmNext /\ UNCHANGED part
    /\ UNCHANGED <<bootVars, smpVars, fdtVars, ovVars, devVars, lockVars, credVars,
                   mntVars, uartVars, fdVars, fstVars, shVars, lib, libcVars>>
Run_smp == part = "smp" /\ SmpNext /\ UNCHANGED part
    /\ UNCHANGED <<bootVars, vmVars, fdtVars, ovVars, devVars, lockVars, credVars,
                   mntVars, uartVars, fdVars, fstVars, shVars, lib, libcVars>>
Run_fdt == part = "fdt" /\ FdtNext /\ UNCHANGED part
    /\ UNCHANGED <<bootVars, vmVars, smpVars, ovVars, devVars, lockVars, credVars,
                   mntVars, uartVars, fdVars, fstVars, shVars, lib, libcVars>>
Run_overlay == part = "overlay" /\ OvNext /\ UNCHANGED part
    /\ UNCHANGED <<bootVars, vmVars, smpVars, fdtVars, devVars, lockVars, credVars,
                   mntVars, uartVars, fdVars, fstVars, shVars, lib, libcVars>>
Run_devices == part = "devices" /\ DevNext /\ UNCHANGED part
    /\ UNCHANGED <<bootVars, vmVars, smpVars, fdtVars, ovVars, lockVars, credVars,
                   mntVars, uartVars, fdVars, fstVars, shVars, lib, libcVars>>
Run_cpus == part = "cpus" /\ CpuNext /\ UNCHANGED part
    /\ UNCHANGED <<bootVars, vmVars, smpVars, fdtVars, ovVars, devVars, credVars,
                   mntVars, uartVars, fdVars, fstVars, shVars, lib, libcVars>>
Run_threads == part = "threads" /\ ThreadNext /\ UNCHANGED part
    /\ UNCHANGED <<bootVars, vmVars, smpVars, fdtVars, ovVars, devVars, credVars,
                   mntVars, uartVars, fdVars, fstVars, shVars, lib, libcVars>>
Run_cred == part = "cred" /\ CredNext /\ UNCHANGED part
    /\ UNCHANGED <<bootVars, vmVars, smpVars, fdtVars, ovVars, devVars, lockVars,
                   mntVars, uartVars, fdVars, fstVars, shVars, lib, libcVars>>
Run_mount == part = "mount" /\ MntNext /\ UNCHANGED part
    /\ UNCHANGED <<bootVars, vmVars, smpVars, fdtVars, ovVars, devVars, lockVars, credVars,
                   uartVars, fdVars, fstVars, shVars, lib, libcVars>>
Run_uart == part = "uart" /\ UartNext /\ UNCHANGED part
    /\ UNCHANGED <<bootVars, vmVars, smpVars, fdtVars, ovVars, devVars, lockVars, credVars,
                   mntVars, fdVars, fstVars, shVars, lib, libcVars>>
Run_file == part = "file" /\ FdNext /\ UNCHANGED part
    /\ UNCHANGED <<bootVars, vmVars, smpVars, fdtVars, ovVars, devVars, lockVars, credVars,
                   mntVars, uartVars, fstVars, shVars, lib, libcVars>>
Run_mkfs == part = "mkfs" /\ FstNext /\ UNCHANGED part
    /\ UNCHANGED <<bootVars, vmVars, smpVars, fdtVars, ovVars, devVars, lockVars, credVars,
                   mntVars, uartVars, fdVars, shVars, lib, libcVars>>
Run_shell == part = "shell" /\ ShNext /\ UNCHANGED part
    /\ UNCHANGED <<bootVars, vmVars, smpVars, fdtVars, ovVars, devVars, lockVars, credVars,
                   mntVars, uartVars, fdVars, fstVars, lib, libcVars>>
Run_lib == part = "lib" /\ LibNext /\ UNCHANGED part
    /\ UNCHANGED <<bootVars, vmVars, smpVars, fdtVars, ovVars, devVars, lockVars, credVars,
                   mntVars, uartVars, fdVars, fstVars, shVars, libcVars>>
Run_heap == part = "heap" /\ HeapNext /\ UNCHANGED part
    /\ UNCHANGED <<bootVars, vmVars, smpVars, fdtVars, ovVars, devVars, lockVars, credVars,
                   mntVars, uartVars, fdVars, fstVars, shVars, lib>>
Run_stream == part = "stream" /\ StreamNext /\ UNCHANGED part
    /\ UNCHANGED <<bootVars, vmVars, smpVars, fdtVars, ovVars, devVars, lockVars, credVars,
                   mntVars, uartVars, fdVars, fstVars, shVars, lib>>
Next ==
    \/ Run_boot \/ Run_vm \/ Run_smp \/ Run_fdt \/ Run_overlay \/ Run_devices \/ Run_cpus \/ Run_threads
    \/ Run_cred \/ Run_mount \/ Run_uart \/ Run_file \/ Run_mkfs \/ Run_shell \/ Run_lib
    \/ Run_heap \/ Run_stream
Spec == Init /\ [][Next]_vars

\* Two states of one part differ in its variables. Headers inside of blocks are
\* never read again.
LiveHeaders == [a \in FreeBlocks \cup HeldHeaders \cup {0} |-> <<heap.link[a], heap.size[a]>>]
PartView ==
    CASE part = "boot" -> <<part, bootVars>>
      [] part = "vm" -> <<part, vmVars>>
      [] part = "smp" -> <<part, smpVars>>
      [] part = "fdt" -> <<part, fdtVars>>
      [] part = "overlay" -> <<part, ovVars>>
      [] part = "devices" -> <<part, devVars>>
      [] part = "cpus" -> <<part, lockVars>>
      [] part = "threads" -> <<part, lockVars>>
      [] part = "cred" -> <<part, credVars>>
      [] part = "mount" -> <<part, mntVars>>
      [] part = "uart" -> <<part, uartVars>>
      [] part = "file" -> <<part, fdVars>>
      [] part = "mkfs" -> <<part, fstVars>>
      [] part = "shell" -> <<part, shVars>>
      [] part = "lib" -> <<part, lib>>
      [] part = "heap" -> <<part, LiveHeaders, heap.fp, heap.brk, blocks, mem, foreign>>
      [] part = "stream" -> <<part, stream>>

-----------------------------------------------------------------------------
(* From the first page tables to the mapped devices the kernel's map, its page *)
(* tables and the pool of early pages are exact.                               *)
BootMapSafe ==
    part = "boot" => MapExact /\ EarlyMappingsKept /\ PoolApart /\ DevicesMapped

(* fork(), exec(), sbrk(), stack growth and exit, each of which may run out of    *)
(* memory at any allocation: pages, tables, region lists and what a process finds *)
(* in its memory stay exact, and a panic has one of three causes: heap and stack  *)
(* meet, segments do not ascend, or sp is above the stack.                        *)
AddressSpacesSafe ==
    part = "vm" => VmTypeOK /\ PagesExact /\ MemoryAsPromised
                  /\ TableMatchesMap /\ NoMappingPanic

(* Harts start, are interrupted, tell each other of changed kernel mappings, and  *)
(* halt or reboot: no announcement is lost, no task runs twice, and the hart that *)
(* reboots waits exactly for those it told.                                       *)
SmpSafe ==
    part = "smp" => SmpTypeOK /\ EventsAnnounced /\ StaleAnnounced
                  /\ OneHartPerTask /\ WaitsForTheTold

(* Whatever calls built and edited it, the blob is the tree, and every way of *)
(* looking into it agrees.                                                    *)
BlobHoldsTree ==
    part = "fdt" => FdtHoldsTree /\ LookupsAgree

(* A tree with overlays applied by fdt_overlay_apply() has the nodes, references *)
(* and symbols that both sides meant.                                            *)
OverlayApplied ==
    part = "overlay" => MergedTree /\ ReferencesResolve /\ SymbolsLead

(* The devices of a board are found, numbered and started so that each finds what *)
(* it depends on, and their interrupts reach their handlers one at a time.        *)
DevicesReady ==
    part = "devices" => AddressesTranslated /\ DependenciesFirst /\ RootHasFirstNumber
                  /\ ConsoleAtStdout /\ InterruptsReach /\ HandlersExclusive

(* Mount points and super blocks refer to each other, paths lead to live file     *)
(* systems, references are exact, and the kernel crashes only when calls overlap. *)
MountSafe ==
    part = "mount" => MountPointsAgree /\ EntryReferences /\ PathLeadsToLive /\ WildOnlyByRace

(* What is written to the UART is transmitted once and in order, and what waits in *)
(* the ring has an interrupt to come.                                              *)
UartSafe ==
    part = "uart" => BytesInOrder /\ RingDrains

(* The blocks of a file and what read() finds in them are exact over writes and *)
(* truncations that stop half-way, and no other block is touched but the one    *)
(* that a truncation on a full disk takes for a missing one.                    *)
FileDataExact ==
    part = "file" => BlocksExact /\ ContentsExact /\ BlockZeroKept

(* An image made by mkfs holds what was put into it, its areas do not overlap, and *)
(* fsck finds it free of errors.                                                   *)
ImagesExact ==
    part = "mkfs" => ImageHoldsTree /\ FsckExact /\ AreasApart

(* The shell runs a line as it is meant: parsed by its operators, with no stray *)
(* descriptors, in order, and back to the prompt.                               *)
ShellSafe ==
    part = "shell" => LineUnderstood /\ OnlyStandardFiles /\ ListInOrder /\ PromptReturns

(* The functions of the kernel's and the C library compute what their callers *)
(* expect; malloc() keeps the heap exact and streams deliver files in order.  *)
LibCorrect ==
    /\ part = "lib" => MovesAndSets /\ StringsAgree /\ Sorts /\ Divides
                     /\ PrintsNumbers /\ CutsOutput /\ EarlyOutputKept /\ WidthsBelowNine
    /\ part = "heap" => HeapExact
    /\ part = "stream" => StreamInOrder
=============================================================================
