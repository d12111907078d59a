# A TLA+ model of VIMIX

VIMIX is a small Unix-like operating system for 32 and 64 bit RISC-V, with
several CPUs, written in C. This directory models its kernel, and those user
programs and libraries that carry an algorithm or a protocol of their own. TLC
checks every module on small instances. For instances of any size TLAPS proves
the safety of pipes, console, sleep and wakeup, the process life cycle,
locks, the log, credentials and the virtio disk, and all five refinements
(section 6).

`PROJECT.json` lists the runs, the source lines behind every definition, for
each property a plausible mistake in the code that breaks it, the hazards of the
code and what covers them, and the theorems.

## 1. The system, its parts and their modules

| part | source (`src/kernel/...` unless it says otherwise) | state | module |
|---|---|---|---|
| pipes | `ipc/` | ring, two counters, two open flags | `Pipe`, `PipeFifo` |
| scheduler, sleep, wakeup, kill | `kernel/proc.c`, `scheduler.c` | process state, channel, locks, process list | `Sleep`, `WaitQueue` |
| process life cycle | `kernel/proc.c`, `process.c`, `kobject.c`, `usr/bin/init.c` | list, parents, reference counts, kernel stacks | `Process` |
| locks | `lib/*lock.c`, `kernel/cpu.c` | holder, readers, sleepers, interrupt nesting | `Locks` |
| harts, traps, IPIs, shutdown | `arch/riscv/`, `kernel/trap.c`, `ipi.c`, `lib/panic.c` | pending queues, translation caches, hart state | `Smp` |
| page and object allocator | `mm/kalloc.c`, `slab.c`, `cache.c` | free lists, slab lists, counters | `Kalloc` |
| memory maps, boot map | `mm/memory_map.c`, `init/early_pgtable.c`, `init/main.c` | sorted regions, early page table | `BootMap` |
| address spaces, exec | `mm/vm.c`, `page_table.c`, `kernel/exec.c` | regions, two-level tables, pages | `Vm` |
| virtio disk, ramdisk | `drivers/virtio_disk.c`, `ramdisk.c` | descriptors, avail and used ring | `Virtio`, `BlockDevice` |
| buffer cache | `kernel/bio.c`, `bio_sysfs.c`, `drivers/device.c` | buffer list, reference counts, limits | `Bio` |
| file system log | `fs/vimixfs/log.c` | header, entries, home blocks, clients | `Log`, `AtomicDisk` |
| blocks of a file | `fs/vimixfs/bmap.c`, `vimixfs.c` | block map, bitmap, size | `FileData` |
| names | `fs/dentry*.c`, `fs_lookup.c`, `vimixfs.c`, `kernel/file.c`, `syscalls/sys_link.c`, `sys_mk.c` | dentries, LRU list, inodes, directories | `Namespace` |
| mounts | `fs/mount.c`, `fs.c`, `vfs.c` | super blocks, mount points | `Mount` |
| sysfs, kobjects | `fs/sysfs/`, `kernel/kobject.c` | nodes, inodes, counts | `Sysfs` |
| credentials | `kernel/permission.c`, `syscalls/sys_cred.c` | ids, shared group lists | `Cred` |
| console | `drivers/console.c` | input ring, three indices, settings | `Console`, `TtyQueue` |
| UART | `drivers/uart16550.c` | transmit ring, device FIFO | `Uart` |
| device tree | `lib/libfdt/` | blob: tokens, strings, reservations | `Fdt` |
| devices, interrupt controller | `init/dtb.c`, `drivers/devices_list.c`, `arch/riscv/plic.c` | device list and table, enabled interrupts | `Devices` |
| kernel library | `lib/string.c`, `qsort_impl.c`, `div64.c`, `print_impl.c`, `printk.c` | none | `Lib` |
| C library | `usr/lib/libc/stdlib_malloc.c`, `stdio_impl.c` | free list; stream with a returned byte | `Lib` |
| file system tools | `usr/bin/mkfs/` | image | `FsTools` |
| shell | `usr/bin/sh.c` | command tree, processes, descriptors | `Shell` |

How the parts meet:

* Everything that blocks goes through `sleep(chan, lk)` and `wakeup(chan)`.
  `Sleep` models them lock by lock and shows that they implement `WaitQueue`;
  the other modules take them as single steps on its authority.
* File system calls bracket their updates with `log_begin_fs_transaction()` and
  `log_end_fs_transaction()`. `Log` shows that this makes them atomic, and
  `Namespace` and `FileData` rely on it. `Log` in turn relies on the synchronous
  `bio_write()` of `Bio`, which relies on the `BlockDevice` that `Virtio` implements.
* A pipe is reached through `struct file`: `fork()` duplicates descriptors,
  `close()` and `exit()` drop them, the last one calls `pipe_close()`.
* A process is kept alive by reference counts (`kobject`). Its parent frees it
  in `wait()`, and `init` adopts orphans.
* `kill()` only sets a flag and makes a sleeper runnable. Every loop around
  `sleep()` has to test the flag.
* At boot `Fdt` reads what `Devices` lists, and `BootMap` maps what was listed.

## 2. How to read the modules

An action models a whole handler, or its part up to the next point where another
CPU, process or interrupt can interfere. `pc` or `at` says where a process is.
Names are those of the C code. A definition marked `fault` is a mutated copy of
the definition below it, and no specification uses it.

Some behaviours of the code are undefined from some point on (a freed object is
used), or break a property in a way that is understood. Where such a step is
reached, the module records it in a variable (`Dangling`, `ns_flaw`, `fd_flaw`, `vm.flaw`,
`unsplit`, `missed`, `dropped`, `wild`, `sysfs_wild`, `mount_wild`,
`dv.panic`, `img.flaw`, `stream.stale`, `fd.zeroed`, the end `"overrun"` of a raw access). Where the
behaviour goes on, the properties except what was recorded; where it ends, they say
in which way alone it can be reached (`NoMappingPanic`, `WildOnlyByRace`, `NamesExact`, `BlockZeroKept`).
Section 7 lists what is recorded.

Notes on single modules:

* **`Pipe`**: bytes are copied one per step, as a kill from another CPU can be
  noticed between two. `PipeFifo` is the promise: a bounded FIFO with two ends.
* **`Sleep`**: every spinlock involved is a variable, so are the order of the
  process list and the position of each CPU in it. `Sched...` is the scheduler,
  `Yield...` the timer, `Consume...` and `Sleep...` a waiting loop, `Event...` and
  `Wakeup...` a waker, `Kill...` is `proc_send_signal()`.
* **`Process`**: `Procs` are addresses, so memory is reused. `Fork...` are the steps
  of `do_fork()` with all its error exits, `SwitchedAway` is the scheduler
  leaving the dead process's stack.
* **`Log`**: every block written is a step, and `Crash` may come before each.
  The durable contents are the home blocks with the log installed (`Recovered`).
* **`Console`**: settings are fetched before the lock is taken, as in the code.
* **`Kalloc`**: buddy allocator with `Split` and `GiveBack`, one object cache with its
  slabs, and the reader of the statistics (`Walk...`).
* **`Virtio`**: the driver's three descriptors per request, both rings with
  indices modulo `IDX`, the interrupt handler, and an external device that takes and
  completes requests in any order.
* **`Bio`**: the list in its order of use; `GetHit`, `GetReuse` and a new buffer are
  the cases of `bio_get_from_cache()`. `FreeExtra` trims the list. A raw access goes
  through its blocks one after the other (`Begin`).
* **`Namespace`**: a path is looked up in the cache under `tree_lock`, then on the disk
  under the exclusive lock of the directory; the result is registered later
  (`LookupRegister`). The calls that change directories follow, with their
  locks as state where they drop `tree_lock` in between. The last put of a dentry is
  taken apart (`PutStep`): the count, the look at its parent, the LRU list, the inode. Most
  puts run through; a bounded number stops in between while another process is in a call
  (`ns_split`).
* **`Mount`**: `dent` has, for each directory entry involved, its references, those of its inode and
  what is mounted on it; `mp` is a process in `mount()`, `umount()` or with a file open
  below the directory.
* **`Sysfs`**: an object is added step by step (`Registering`): its array of nodes, its
  directory, its attributes. `undoes` tells callers that undo a failed addition from those
  that ignore it, and `walk` is the mount of sysfs that adds the objects of before.
* **`Cred`**: the flags of `open()` are sets of names, as `permission.c` compares whole words; each check
  is a step of its own before the change it allows.
* **`FileData`**: one file with `ND` direct blocks and tables of `NI` entries. Buffer cache
  and log may hold different versions of a table.
* **`Vm`**: a page table has two levels, sizes are half pages, and every call may
  run out of memory at any of its allocations (`AllocsLeft`). Programs include ones whose
  segments overlap or do not ascend, and the heap may grow into the stack.
* **`Smp`**: `tlb` is what a hart has cached of a kernel stack's mapping.
* **`Fdt`**: a blob is a sequence of tokens. The module has the calls that change one
  in place, those that build one and the tree it should hold, and the merging of
  an overlay.
* **`Devices`**: the boot hart's phases run one after the other; then interrupts
  run through the controller on several harts.
* **`Locks`**: one step is one atomic instruction; interrupts arrive between them.
* **`Lib`**: operators for the C functions, called with all arguments from small
  sets; the properties compare them with what they should compute. Then the
  user library: the free list of `malloc()` as the memory the headers lie in,
  with `sbrk()` called by others in between; and one stream.
* **`Shell`**: the parser builds the same tree of commands, and `runcmd()` runs it with
  processes, pipes and descriptors.

## 3. Runs

Modules with few states are checked together: a behaviour picks one `part` and
runs it while the others rest in one initial state. The `VIEW` of `MCSystem` drops the
resting variables. Their properties are conjunctions; the conjuncts are stated
and explained in the modules they belong to.

| run | module | question |
|---|---|---|
| `pipe` | `MCPipe` | Is the ring a FIFO under concurrent readers, writers, closes and kills, never touched after it was freed, and does nobody sleep who could go on? |
| `sleep` | `MCSleep` | Does the lock protocol of sleep, wakeup, yield and the scheduler implement `WaitQueue`, with one CPU per process and no other spinlock held in `sched()`? |
| `process` | `MCProcess` | Are parents alive, stacks and references exact, zombies never slept through? Is a kernel stack kept until the CPU has left it? |
| `live` | `MCLive` | Is every zombie that belongs to `init` freed in the end, and does a runnable process get a CPU? |
| `log` | `MCLog` | Are commits atomic under crashes, is the reservation exact so that no reserved write panics, and does every waiting `begin` return? |
| `console` | `MCConsole` | Is the line discipline kept through mode changes, wrap-around, faults and timeouts? |
| `memory` | `MCKalloc` | Does every page have one owner, are free buddies merged and counters exact, do slab lists match the objects handed out? Do sysfs nodes mirror the objects, and are inodes there for those who hold them? |
| `disk` | `MCDisk` | Does the driver implement a block device, is the latest contents of a block never lost in the cache, and does every call end? |
| `namespace` | `MCNamespace` | Are references, links and the LRU list exact, and does the cache agree with the directories? |
| `system` | `MCSystem` | Seventeen parts: boot map, address spaces, harts, device tree, overlays, devices, locks (two parts), credentials, mounts, UART, file blocks, mkfs and fsck, shell, library functions, heap, streams. |

Two runs show a behaviour of the code that contradicts what the repository says:

| run | what TLC finds |
|---|---|
| `log_overrun` | `log->size` counts the header block, so the log accepts one entry more than it has room for: the last one is written behind the log, over the first inode block. |
| `truncation_loses` | Truncation to a size inside the first table of the double indirect block frees that block although it is still needed. |

The findings in `PROJECT.json` quote the comments they contradict.

Refinements checked: `Pipe` implements `PipeFifo`, `Sleep` implements `WaitQueue`, `Log` implements
`AtomicDisk`, `Console` implements `TtyQueue`, `Virtio` implements `BlockDevice`.

## 4. Bounds

* `pipe`: three processes (two on one side and one on the other, in both
  arrangements), two-byte ring, requests of up to two bytes, counters modulo
  4. The ring is filled, emptied and wrapped, and the counters wrap.
* `sleep`: three processes, two CPUs, two events, two attempts of kill: a
  sleeper, a waker and a killer overlap, and a walk over the list meets a locked
  process.
* `process`: four addresses and four kernel stacks (all can be in use), two
  calls, two kills.
* `live`: three addresses and three calls; three threads on one CPU, the case
  where the order of the process list matters.
* `log`: a log of three blocks (header and two entries), two home blocks, two client slots, three processes, two
  crashes: clients wait for a slot and for space, blocks are absorbed, and a crash
  hits recovery. With only two blocks to update the log never gets the entry
  too many that `log_overrun` (three blocks) shows.
* `console`: two-byte buffer, indices modulo 4, two readers, one canonical and
  one raw setting. The `VIEW` identifies states that differ only in ring cells
  holding nothing and in raw-mode locals of a canonical reader: neither is read
  before it is written again, and no property mentions them.
* `memory`: pages 4 to 8, orders 0 to 2, two objects per slab, two CPUs: the
  region's end is unaligned, and merges go over two levels. Sysfs: two objects,
  one attribute each, two threads.
* `disk`: three callers on seven descriptors, so that the third has to wait,
  and indices modulo 14 that start at 12, so that they wrap; two clients, two blocks,
  raw access to one or both, three buffers, and limits that shrink the list.
* `namespace`: two processes, two names, two levels, a cache that keeps one unused dentry,
  three calls. Three calls are the least in which one call overtakes another and
  a third meets the result.
* `system`: boot: nine pages of RAM, all places of the device tree and of the
  initial ram disk; address spaces: two processes, five calls, memory that runs
  out at each of twenty allocations; harts: two harts, two stacks, a queue of two; device
  tree: four calls on buffers that are too small and large enough; overlays: up to
  three out of seven on four bases; fifteen boards; locks: two CPUs, three threads, two
  sleep locks, six calls; credentials: two processes, two ids, three group lists; mounts:
  six calls by two processes; UART: two writers and `printk()` on a ring of two; file: eight
  blocks, files that reach the double indirect block, a full disk; mkfs:
  images too small and large enough, four runs; shell: all lines of up
  to four tokens and thirteen longer ones; library: all strings of three characters, arrays of up to six
  elements; heap: nine units, three blocks, `sbrk()` by others; stream: one content, all calls.

Bounds that are not in the code are named `Max...` (calls, kills, events, crashes,
requests, operations) or are sets of inputs. Where they stop the system, or where
a reader may wait for ever, the configuration switches the deadlock check off.

## 5. Fairness

* `live`, scheduler: a CPU goes on executing kernel code, the timer interrupts user
  code and wakes an idle CPU (weak fairness per CPU). Nothing is assumed of
  the choice of process.
* `live`, processes: a process finishes the call it is in and a killed process
  exits (weak fairness), which the scheduler part justifies. `init` keeps calling
  `wait()` as the loop in `usr/bin/init.c` does (strong fairness, because it is
  sometimes in a fork).
* `log`: a process in a call runs, a transaction that began ends, and recovery
  goes on.
* `disk`: a runnable caller is scheduled, the device works on what it was
  given, and the interrupt handler runs (weak fairness each).

## 6. What is proved

Eight modules hold proofs. The theorems are about the same definitions the runs
check, with the constants left open. Each rests on the named assumption of the
module it is about, which TLC evaluates on the runs' values.

| module | theorem | states |
|---|---|---|
| `StreamProofs` | `TypeCorrect`, `PipeLifetime`, `PipeNoLostWakeup` | `TypeOK`, `NoUseAfterFree`, `NoLostWakeup` of `Pipe` |
| | `PipeRefinesFifo` | `Pipe` implements `PipeFifo` |
| | `ConsoleIsSafe`, `ConsoleRefinesTty` | `ConsoleSafe`; `Console` implements `TtyQueue` |
| `SleepProofs` | `SleepIsSafe`, `SleepRefinesWaitQueue` | `SleepSafe`; `Sleep` implements `WaitQueue` |
| `ProcessProofs` | `ProcessIsSafe`, `ExitKeepsStack` | `ProcessSafe`; the action property `StackOutlivesExit` |
| `LocksProofs` | `LocksAreSafe` | `LocksSafe` |
| `LogProofs` | `LogIsSafe`, `LogIsAtomic` | `LogSafe`; `Log` implements `AtomicDisk` while its entries fit |
| `CredProofs` | `CredIsSafe`, `OnlyExecGivesIds` | `CredSafe`; the action property `IdsOnlyByExec` |
| `VirtioProofs` | `VirtioIsSafe`, `VirtioIsBlockDevice` | `VirtioSafe`; `Virtio` implements `BlockDevice` |

`RingBuffer` holds the lemmas about a ring of `N` cells addressed by counters that
wrap at a multiple of `N`. Taking, taking back and storing an element are shown
to be `Tail`, a shorter prefix and `Append` on the sequence the ring holds. Pipe,
console and both virtio rings use them, so the divisibility that makes the wrap
harmless is an assumption of each (`WordAssumption`, `ConsoleAssumption`,
`VirtioAssumption`); it holds for the code's powers of two.

The arguments, and why the invariants had to be strengthened:

* **Pipe** (any processes, pipe size, request size). `NoUseAfterFree` needs `LifeInv`: a
  process in a call has the descriptor it was called with (`HoldInv`), and flags and
  page follow the descriptors (`OpenInv`). `NoLostWakeup` speaks of states with the lock
  free; `WakeInv` covers the others: the lock is held exactly inside the critical
  sections, and whoever sleeps has a reason that only a process in its critical
  section can be about to remove. The refinement maps the FIFO to the cells between the
  counters.
* **Console** (any readers, ring size, index width, terminal modes). `RingInv` says that
  `w` lies between `r` and `e` modulo the word size, `FullIsReadable` that a full
  buffer always has something to read. The refinement splits the ring at `w` into
  what readers may have and what can still be edited.
* **Sleep** (any finite sets of processes and CPUs). `SysInv` says which CPU has which process and
  who holds which lock, from where the CPUs are. `WakeInv`: nobody goes to sleep while
  there is an event, and once there is one everybody who waits is ahead of the
  `wakeup()` under way in the process list, which is the reason `g_process_list` is
  reordered only under its write lock. The refinement maps a process to "waiting" from the
  moment it gives up `lk`.
* **Process** (any addresses and number of kernel stacks). `ForkInv` describes the child at each
  step of `do_fork()`, its error exits included: references and place in the tree follow the
  progress of the call. The others say that list, stacks and family agree with it.
* **Locks** (any CPUs, threads, sleep locks). `NestInv` says what is held inside of what and
  what an interrupt finds; `OwnerInv` and `ReaderInv` relate a lock's words to the CPUs
  inside it, the reader count being a cardinality.
* **Log** (any sizes, requests, contents, processes and client slots). `SafeInv` has the accounts: the
  log holds what the clients used, a client uses no more than it reserved, and what is
  used or reserved fits `log->size`; the sum over the slots is handled by lemmas on partial
  totals. `DiskInv` says at every step of a commit and of a recovery which prefix of the entries has
  been copied or installed, so that a crash leaves what one commit left. `LogIsAtomic` has
  `[]EntriesInLog` as a premise. The code does not ensure it, as `log_overrun` shows: `log->size`
  counts the header block. With fewer home blocks than log blocks it holds, which is
  part of `LogIsSafe`.
* **Cred** (any finite set of processes, any ids, files, modes, lists). `GroupInv`: the count of a group list is
  the number of processes that use it. `RightsInv`: the ids an `execv()` has read belong to one
  version of the file. `OpenedInv`: what a descriptor lets through was granted at `open()`, or is one of the accesses that
  its flag word does not ask for (`Unasked`), of which the theorem says exactly which they are.
* **Virtio** (any number of descriptors from three on, index width, callers, blocks). `ChainInv`: a descriptor is
  free or in one chain. `HeadInv`: a chain's head is on one ring or at work in the
  device, once, and its caller still waits. That neither ring overflows follows by counting
  heads (`Room`). The refinement maps a request to "served" when the device has
  transferred its block.

What is only model-checked:

* Liveness (`OrphansReaped`, `RunnableRuns`, `BeginReturns`, `RwCallsReturn`, `BufferGranted`): fairness is out of
  the prover's reach.
* `Fdt`, `Devices`, `FsTools`, `Shell`, `Mount` and `Lib`: what their recursive operators compute would need
  induction over data.
* `Bio`, `Kalloc`, `Sysfs`, `Namespace`, `Vm`, `BootMap`, `Smp`, `Uart` and `FileData`: there is no proof. Their
  invariants relate lists, trees and counts over folds, and are the next ones to prove.

## 7. Behaviours the models record

Met while translating the code. The models follow the code, and the properties
hold up to them:

* Names: `do_mkdir()`, `do_mknod()` and `do_link()` test for the name before they take the exclusive
  lock and not again (`sys_mk.c:97`): two calls can enter a name twice. A failing
  `rmdir()` leaves a detached dentry that others may have found (`sys_link.c:265`). A late
  result of a lookup can register a name that is gone (`fs_lookup.c:180`). The steps of `dentry_put()` and
  `vimixfs_iops_put()` after the count are not under one lock (`dentry.c:183`, `vimixfs.c:656`): a process that
  takes the object in between may find it freed.
* File blocks: growing with `truncate()` allocates a block more than needed when the size is a
  multiple of the block size; reading a hole allocates outside a transaction; truncation changes
  tables without `log_write()` (`vimixfs.c:516`); on a full disk `truncate()` clears block 0 of the disk in
  place of the block it did not get (`vimixfs.c:1271`).
* Raw block access: the buffer of a failing copy stays locked (`device.c:154`), and a store over several
  blocks copies all its bytes into the first buffer (`device.c:160`).
* Address spaces: `page_table_unmap_partial_mappings()` removes a region twice (`page_table.c:126`);
  a `vm_map()` that fails half way leaves entries to freed pages (`vm.c:206`); nothing keeps heap and stack apart
  (`proc.c:179`, `vm.c:283`), and the stack is shrunk to whatever `sp` says (`proc.c:713`).
* Memory map: a region that ends where the one around it ends fits none of the cases (`memory_map.c:298`).
* Harts: a full queue drops an interrupt (`sbi.c:311`); a change of a kernel stack's mapping is announced but not
  waited for (`process.c:170`); `system_shutdown()` may wait for a hart it did not tell (`sys_system.c:26`).
* Processes: when `kobject_add()` fails in `do_fork()` the child is freed and then used (`proc.c:262`);
  a kill between `proc_is_killed()` and `sleep()` does not wake (`proc.c:656`).
* Permissions: `permission.c` compares whole flag words (lines 17, 53 and 57): `open()` with `O_TRUNC` alone asks
  for no permission, and a descriptor opened with `O_WRONLY` and another flag can be read.
* Allocator: the statistics walk the slab list without the cache's lock (`kalloc.c:374`).
* Pipes: a writer killed between two bytes does not announce what it stored (`pipe.c:99`).
* Console: a raw `read()` that times out returns 0 whatever it has copied (`console.c:149`).
* Mounts: no test for use in `umount()`, and no second look under the lock in either call (`mount.c:263`); the
  references of `mount.c:199` and `257` to the directory are never put, and its inode is put once
  too often (`mount.c:270`); an entry that could not be allocated is used (`mount.c:202`).
* Sysfs: `node->sysfs_ip` is tested without a lock (`sysfs.c:289`); devices and mounts ignore that their
  object got no directory (`device.c:89`, `mount.c:210`).
* Devices: the first address of a bus range is refused (`dtb.c:200`); the console is found only by its first
  compatible string; a hart without a context of the interrupt controller writes the registers of context -1 (`plic.c:265`).
* mkfs: the search for a free block goes beyond the end of the image. A directory whose data reaches the double
  indirect block asks for the index of a block again for every entry: from the second
  time on the answer is 0 (`libvimixfs.c:1083`) and the entry goes to block 0. A file is copied a
  block at a time and is right.
* Library: `printk()` prints what it kept before there was a console from a buffer without an end (`printk.c:81`);
  `div64.c` rounds down where C rounds towards zero.
* Streams: `fseek()` keeps a byte that `ungetc()` returned.

## 8. What is not modelled

* Memory ordering of the CPUs: locks are sequentially consistent, with acquire
  and release as in `lib/spinlock.c`.
* The system call layer (`syscalls/syscall.c`): fetches arguments, keeps no state.
* devfs: a fixed table, filled at boot.
* Register programming of drivers, start-up assembly, CPU feature strings, debug output.
* Console output above the UART, the contents of sysfs attributes, file system types.
* User programs other than `init`, `sh`, `mkfs` and `fsck`, the tests, and the TOML
  parser (third party): sequential programs on top of the system calls.
* Malformed device trees, byte order, and blobs of old versions.
* Several mounts on different directories, and super pages, which the code
  disables.
* `ftell()`, scripts, built-in commands and comments of the shell, and the digits of a printed number.
* A device tree whose interrupt controller has no `interrupts-extended`.

The components in `PROJECT.json` give the reason for each.

## 9. Next

Proofs, in this order: `Uart` (bytes in order), `Smp` (stale translations), `Bio` (the latest contents is kept), `Kalloc` (one
owner), `FileData` (no block in two places).
