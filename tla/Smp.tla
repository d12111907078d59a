-------------------------------- MODULE Smp --------------------------------
(***************************************************************************)
(* Several harts: starting them, machine-mode timer and software           *)
(* interrupts, the queues of inter-processor interrupts, the kernel's      *)
(* translation caches of the process stacks, panic and shutdown.           *)
(*                                                                         *)
(* A process is its kernel stack slot.  tlb[h][s] tells what hart h has    *)
(* cached of stack s: "none", the page the table maps, or a page that was  *)
(* given back ("stale").  One action is what runs between two points at    *)
(* which another hart, or an interrupt, can make a difference.             *)
(***************************************************************************)
EXTENDS Naturals, FiniteSets, SequencesExt

CONSTANTS Harts,            \* a set of numbers, the hart ids
          BootHart,
          Stacks,           \* kernel stack slots
          FirstStack,       \* the slot of the init process
          MaxIpi,           \* MAX_IPI_PENDING
          MaxTimer,         \* bound: timer interrupts in a behaviour
          MaxSmpCalls,      \* bound: fork, exit, reap, reboot, panic
          NoStack

ASSUME SmpAssumption ==
    /\ Harts \subseteq Nat /\ BootHart \in Harts
    /\ FirstStack \in Stacks /\ NoStack \notin Stacks
    /\ MaxIpi \in Nat \ {0} /\ MaxTimer \in Nat /\ MaxSmpCalls \in Nat

VARIABLES hart,             \* per hart: g_cpus[], CLINT and CSR bits, place
          task,             \* per stack slot: the process that owns it
          tlb,
          power,            \* the machine is on
          missed,           \* system_shutdown() may wait for a hart it did not tell
          dropped,          \* a full queue lost an interrupt
          wild,             \* a hart ran on a stack page that was given back
          smp_calls, timers

smpVars == <<hart, task, tlb, power, missed, dropped, wild, smp_calls, timers>>

IpiTypes == {"panic", "shutdown", "pagetable"}

SmpTypeOK ==
    /\ hart \in [Harts -> [state : {"unused", "started", "halted", "panicked"},
                           ipi : UNION {[1..n -> IpiTypes] : n \in 0..MaxIpi},
                           ssip : BOOLEAN, msip : BOOLEAN, start : BOOLEAN,
                           tmr : BOOLEAN, armed : BOOLEAN, yield : BOOLEAN,
                           at : {"stopped", "boot", "idle", "checked", "pick", "run",
                                 "ipi", "timer", "parked", "dead"},
                           from : {"idle", "checked", "run", "parked"},
                           proc : Stacks \cup {NoStack}]]
    /\ task \in [Stacks -> [st : {"free", "new", "ready", "running", "zombie"},
                            pc : {"user", "mask", "queue", "raise", "wait"},
                            call : {"none", "fork", "reap", "reboot", "panic"},
                            goal : Stacks \cup {NoStack},
                            mask : SUBSET Harts, home : Harts, i : Nat]]
    /\ tlb \in [Harts -> [Stacks -> {"none", "fresh", "stale"}]]
    /\ power \in BOOLEAN /\ missed \in BOOLEAN /\ dropped \in BOOLEAN /\ wild \in BOOLEAN
    /\ smp_calls \in 0..MaxSmpCalls /\ timers \in 0..MaxTimer

SmpInit ==
    /\ hart = [h \in Harts |->
               [state |-> "unused", ipi |-> <<>>, ssip |-> FALSE, msip |-> FALSE,
                start |-> FALSE, tmr |-> FALSE, armed |-> FALSE, yield |-> FALSE,
                at |-> IF h = BootHart THEN "boot" ELSE "stopped",
                from |-> "idle", proc |-> NoStack]]
    /\ task = [s \in Stacks |->
               [st |-> IF s = FirstStack THEN "ready" ELSE "free", pc |-> "user",
                call |-> "none", goal |-> NoStack, mask |-> {}, home |-> BootHart, i |-> 0]]
    /\ tlb = [h \in Harts |-> [s \in Stacks |-> "none"]]
    /\ power = TRUE /\ missed = FALSE /\ dropped = FALSE /\ wild = FALSE
    /\ smp_calls = 0 /\ timers = 0

(* The calls that run with a spinlock held, or after interrupts are turned *)
(* off: fork() holds the new process's lock while it maps its stack, wait() *)
(* holds the list lock while the last reference of the child is dropped,   *)
(* and panic() disables them.                                              *)
InterruptsOff(s) == task[s].call \in {"fork", "reap", "panic"}

(* A hart takes a supervisor interrupt: in the scheduler's loop, in        *)
(* wait_for_interrupt() after a panic, or in a process.                    *)
Interruptible(h) ==
    \/ hart[h].at \in {"idle", "checked", "parked"}
    \/ hart[h].at = "run" /\ ~ InterruptsOff(hart[h].proc)

(* sbi_hart_start(): the machine mode handler notes the start and raises   *)
(* the software interrupt of a hart that was not started before.           *)
StartHart(h) ==
    /\ hart[BootHart].at = "boot"
    /\ h # BootHart /\ hart[h].at = "stopped" /\ ~ hart[h].start
    /\ hart' = [hart EXCEPT ![h].start = TRUE, ![h].msip = TRUE]
    /\ UNCHANGED <<task, tlb, power, missed, dropped, wild, smp_calls, timers>>

(* A machine software interrupt: it starts the hart, or is handed on to    *)
(* supervisor mode.                                                        *)
MachineSoftware(h) ==
    /\ hart[h].msip
    /\ hart' = [hart EXCEPT ![h].msip = FALSE,
                            ![h].start = FALSE,
                            ![h].at = IF hart[h].start THEN "boot" ELSE @,
                            ![h].ssip = @ \/ ~ hart[h].start]
    /\ UNCHANGED <<task, tlb, power, missed, dropped, wild, smp_calls, timers>>

(* A machine timer interrupt: no further one until the timer is set again; *)
(* supervisor mode learns of it by a software interrupt and timer_pending. *)
MachineTimer(h) ==
    /\ hart[h].armed /\ timers < MaxTimer
    /\ hart' = [hart EXCEPT ![h].armed = FALSE, ![h].tmr = TRUE, ![h].ssip = TRUE]
    /\ timers' = timers + 1
    /\ UNCHANGED <<task, tlb, power, missed, dropped, wild, smp_calls>>

(* The end of main(): the timer is set and the hart enters scheduler().    *)
(* The boot hart first asked every other hart to start.                    *)
EnterScheduler(h) ==
    /\ hart[h].at = "boot"
    /\ h = BootHart => \A g \in Harts \ {h} : hart[g].start \/ hart[g].at # "stopped"
    /\ hart' = [hart EXCEPT ![h].armed = TRUE, ![h].state = "started", ![h].at = "idle"]
    /\ missed' = (missed \/ \E s \in Stacks : task[s].call = "reboot" /\ task[s].pc # "mask")
    /\ UNCHANGED <<task, tlb, power, dropped, wild, smp_calls, timers>>

(* The head of the scheduler's loop, with interrupts enabled.              *)
Loop(h) ==
    /\ hart[h].at = "idle"
    /\ hart[h].state \in {"panicked", "started"}
    /\ hart' = [hart EXCEPT ![h].at =
                IF hart[h].state = "panicked" THEN "parked" ELSE "checked"]
    /\ UNCHANGED <<task, tlb, power, missed, dropped, wild, smp_calls, timers>>

(* get_next_runnable_process() disables interrupts with its first lock.    *)
LockList(h) ==
    /\ hart[h].at = "checked"
    /\ hart' = [hart EXCEPT ![h].at = "pick"]
    /\ UNCHANGED <<task, tlb, power, missed, dropped, wild, smp_calls, timers>>

(* The switch to a runnable process: the first access to its stack fills   *)
(* the translation cache, or uses what is in it.                           *)
Switch(h, s) ==
    /\ hart[h].at = "pick" /\ task[s].st = "ready"
    /\ hart' = [hart EXCEPT ![h].at = "run", ![h].proc = s]
    /\ task' = [task EXCEPT ![s].st = "running"]
    /\ tlb' = [tlb EXCEPT ![h][s] = IF @ = "none" THEN "fresh" ELSE @]
    /\ wild' = (tlb[h][s] = "stale")
    /\ missed' = (missed \/ (task[s].call = "reboot" /\ task[s].home # h))
    /\ UNCHANGED <<power, dropped, smp_calls, timers>>

NothingToRun(h) ==
    /\ hart[h].at = "pick" /\ \A s \in Stacks : task[s].st # "ready"
    /\ hart' = [hart EXCEPT ![h].at = "idle"]
    /\ UNCHANGED <<task, tlb, power, missed, dropped, wild, smp_calls, timers>>

(* The entry of both trap handlers for a supervisor software interrupt: it *)
(* is acknowledged before its reasons are looked at.                       *)
Acknowledge(h) == [hart EXCEPT ![h].ssip = FALSE, ![h].at = "ipi", ![h].from = hart[h].at]

Trap(h) ==
    /\ Interruptible(h) /\ hart[h].ssip
    /\ hart' = Acknowledge(h)
    /\ UNCHANGED <<task, tlb, power, missed, dropped, wild, smp_calls, timers>>

(* mmu_set_kernel_page_table() drops every cached translation; the stack   *)
(* the hart runs on is read again at once.                                 *)
Flushed(h) == [s \in Stacks |-> IF s = hart[h].proc THEN "fresh" ELSE "none"]

(* handle_ipi_interrupt(): the whole queue, from the front.                *)
HandleIpi(h) ==
    LET q == hart[h].ipi
        StateAfter(st, type) == CASE type = "panic" -> "panicked"
                                  [] type = "shutdown" -> "halted"
                                  [] OTHER -> st
    IN  /\ hart[h].at = "ipi"
        /\ hart' = [hart EXCEPT ![h].ipi = <<>>, ![h].at = "timer",
                                ![h].state = FoldLeft(StateAfter, @, q),
                                ![h].yield = \E n \in DOMAIN q : q[n] # "pagetable"]
        /\ tlb' = IF "pagetable" \in ToSet(q) THEN [tlb EXCEPT ![h] = Flushed(h)] ELSE tlb
        /\ UNCHANGED <<task, power, missed, dropped, wild, smp_calls, timers>>

(* The rest of the handlers: a pending timer event is consumed and the     *)
(* timer set again, and a process that was interrupted gives up the CPU.   *)
LeaveTrap_late(h) ==
    /\ hart[h].at = "timer"
    /\ hart' = [hart EXCEPT ![h].ssip = FALSE, ![h].armed = @ \/ hart[h].tmr, ![h].tmr = FALSE,
                            ![h].yield = FALSE, ![h].from = "idle", ![h].at = hart[h].from]
    /\ UNCHANGED <<task, tlb, power, missed, dropped, wild, smp_calls, timers>>

LeaveTrap(h) ==
    LET s == hart[h].proc
        yields == (hart[h].yield \/ hart[h].tmr) /\ hart[h].from = "run"
    IN  /\ hart[h].at = "timer"
        /\ hart' = [hart EXCEPT ![h].armed = @ \/ hart[h].tmr, ![h].tmr = FALSE,
                                ![h].yield = FALSE, ![h].from = "idle",
                                ![h].at = IF yields THEN "idle" ELSE hart[h].from,
                                ![h].proc = IF yields THEN NoStack ELSE @]
        /\ task' = IF yields THEN [task EXCEPT ![s].st = "ready"] ELSE task
        /\ UNCHANGED <<tlb, power, missed, dropped, wild, smp_calls, timers>>

(* Process s runs on hart h and is not inside a call.                      *)
InUser(h, s) ==
    /\ hart[h].at = "run" /\ hart[h].proc = s /\ task[s].call = "none"
    /\ smp_calls < MaxSmpCalls
    /\ smp_calls' = smp_calls + 1

(* What the other harts have cached of a stack that is unmapped.           *)
Unmapped(h, s) ==
    [g \in Harts |-> IF g = h THEN Flushed(h)
                     ELSE [tlb[g] EXCEPT ![s] = IF @ = "fresh" THEN "stale" ELSE @]]

(* process_alloc_init(): a free slot is taken and its page mapped.         *)
SmpFork(h, s) ==
    LET free == {t \in Stacks : task[t].st = "free"}
    IN  /\ InUser(h, s)
        /\ \E t \in free :
               task' = [task EXCEPT ![t].st = "new", ![s].call = "fork", ![s].goal = t,
                                    ![s].pc = "mask"]
        /\ tlb' = [tlb EXCEPT ![h] = Flushed(h)]
        /\ UNCHANGED <<hart, power, missed, dropped, wild, timers>>

(* do_exit(): a zombie, and back to the scheduler.                         *)
Exit(h, s) ==
    /\ InUser(h, s) /\ s # FirstStack
    /\ task' = [task EXCEPT ![s].st = "zombie"]
    /\ hart' = [hart EXCEPT ![h].at = "idle", ![h].proc = NoStack]
    /\ UNCHANGED <<tlb, power, missed, dropped, wild, timers>>

(* do_wait() frees a zombie: process_free() unmaps the stack and reloads   *)
(* this hart's table.                                                      *)
SmpReap(h, s) ==
    /\ InUser(h, s)
    /\ \E t \in Stacks :
           /\ task[t].st = "zombie"
           /\ task' = [task EXCEPT ![s].call = "reap", ![s].goal = t, ![s].pc = "mask"]
           /\ tlb' = Unmapped(h, t)
    /\ UNCHANGED <<hart, power, missed, dropped, wild, timers>>

(* sys_reboot() and panic() begin.                                         *)
Reboot(h, s) ==
    /\ InUser(h, s)
    /\ task' = [task EXCEPT ![s].call = "reboot", ![s].pc = "mask", ![s].home = h]
    /\ UNCHANGED <<hart, tlb, power, missed, dropped, wild, timers>>

Panic(h, s) ==
    /\ InUser(h, s)
    /\ \A t \in Stacks : task[t].call # "panic"     \* a second one powers off
    /\ task' = [task EXCEPT ![s].call = "panic", ![s].pc = "mask"]
    /\ hart' = [hart EXCEPT ![h].state = "panicked"]
    /\ UNCHANGED <<tlb, power, missed, dropped, wild, timers>>

(* ipi_cpu_mask_all_but_self()                                             *)
Mask(h, s) ==
    /\ hart[h].at = "run" /\ hart[h].proc = s /\ task[s].pc = "mask"
    /\ task' = [task EXCEPT ![s].pc = "queue",
                            ![s].mask = {g \in Harts \ {h} : hart[g].state # "unused"}]
    /\ UNCHANGED <<hart, tlb, power, missed, dropped, wild, smp_calls, timers>>

TypeOf(call) == CASE call = "reboot" -> "shutdown" [] call = "panic" -> "panic"
                  [] OTHER -> "pagetable"

(* One queue: not twice the same at the end, and nothing when it is full.  *)
Enqueue(q, type) ==
    IF (q # <<>> /\ Last(q) = type) \/ Len(q) = MaxIpi THEN q ELSE Append(q, type)

(* ipi_send_interrupt(): the queues, under their lock ...                  *)
Queue(h, s) ==
    LET type == TypeOf(task[s].call)
        Full(g) == Len(hart[g].ipi) = MaxIpi /\ Last(hart[g].ipi) # type
    IN  /\ hart[h].at = "run" /\ hart[h].proc = s /\ task[s].pc = "queue"
        /\ hart' = [g \in Harts |-> IF g \in task[s].mask
                                    THEN [hart[g] EXCEPT !.ipi = Enqueue(@, type)] ELSE hart[g]]
        /\ dropped' = (dropped \/ \E g \in task[s].mask : Full(g))
        /\ task' = [task EXCEPT ![s].pc = "raise"]
        /\ UNCHANGED <<tlb, power, missed, wild, smp_calls, timers>>

(* ... then the software interrupts; and how each caller goes on: fork()   *)
(* publishes the child, process_free() gives the slot back, reboot() waits *)
(* from hart 0 on, panic() stays in its loop.                              *)
Raise(h, s) ==
    LET call == task[s].call
        t == task[s].goal
        Done == [task EXCEPT ![s].pc = IF call = "reboot" THEN "wait" ELSE "user",
                             ![s].call = IF call \in {"fork", "reap"} THEN "none" ELSE @,
                             ![s].goal = NoStack, ![s].mask = {}, ![s].i = 0]
    IN  /\ hart[h].at = "run" /\ hart[h].proc = s /\ task[s].pc = "raise"
        /\ hart' = [g \in Harts |->
                    [hart[g] EXCEPT !.msip = @ \/ g \in task[s].mask,
                                    !.at = IF g = h /\ call = "panic" THEN "dead" ELSE @]]
        /\ task' = CASE call = "fork" -> [Done EXCEPT ![t].st = "ready"]
                     [] call = "reap" -> [Done EXCEPT ![t].st = "free"]
                     [] OTHER -> Done
        /\ UNCHANGED <<tlb, power, missed, dropped, wild, smp_calls, timers>>

(* system_shutdown(): hart i is this one, or has stopped; after the last   *)
(* one the machine is switched off.                                        *)
WaitHalted(h, s) ==
    LET i == task[s].i
        stopped == \/ i \notin Harts
                   \/ hart[i].state \in {"halted", "unused", "panicked"}
    IN  /\ hart[h].at = "run" /\ hart[h].proc = s /\ task[s].pc = "wait"
        /\ i = h \/ stopped
        /\ task' = [task EXCEPT ![s].i = i + 1]
        /\ power' = \E g \in Harts : g > i
        /\ UNCHANGED <<hart, tlb, missed, dropped, wild, smp_calls, timers>>

HartStep(h) ==
    \/ EnterScheduler(h) \/ Loop(h) \/ LockList(h) \/ NothingToRun(h)
    \/ Trap(h) \/ HandleIpi(h) \/ LeaveTrap(h)

CallStep(h, s) == Mask(h, s) \/ Queue(h, s) \/ Raise(h, s) \/ WaitHalted(h, s)

SmpCall(h, s) == SmpFork(h, s) \/ Exit(h, s) \/ SmpReap(h, s) \/ Reboot(h, s) \/ Panic(h, s)

SmpNext ==
    /\ power /\ ~ wild
    /\ \E h \in Harts : \/ StartHart(h) \/ MachineSoftware(h) \/ MachineTimer(h)
                        \/ HartStep(h)
                        \/ \E s \in Stacks : Switch(h, s) \/ CallStep(h, s) \/ SmpCall(h, s)

(***************************************************************************)
(* Properties                                                              *)
(***************************************************************************)
(* No event is lost between the acknowledgement and the look at its        *)
(* reasons: while a hart has a queued interrupt or a pending timer event,  *)
(* a software interrupt is on its way to it, its handler has yet to look,  *)
(* or the sender has yet to raise the interrupt.                           *)
EventsAnnounced ==
    \A h \in Harts :
        LET coming == hart[h].ssip \/ hart[h].msip
            sender == \E s \in Stacks : task[s].pc = "raise" /\ h \in task[s].mask
        IN  /\ hart[h].ipi # <<>> => coming \/ sender \/ hart[h].at = "ipi"
            /\ hart[h].tmr => coming \/ hart[h].at \in {"ipi", "timer"}

(* A hart that caches the page of a stack that was taken down has been     *)
(* told to reload the table, or is about to be; only a full queue loses    *)
(* this (process_free(), ipi_send_interrupt()).                            *)
StaleAnnounced ==
    \A h \in Harts, s \in Stacks :
        tlb[h][s] = "stale" =>
            \/ "pagetable" \in ToSet(hart[h].ipi)
            \/ \E t \in Stacks : task[t].call = "reap" /\ task[t].pc \in {"mask", "queue"}
            \/ dropped

(* A stack belongs to one process on one hart, and an interrupted call     *)
(* never leaves a process that is neither running nor runnable.            *)
OneHartPerTask ==
    /\ \A g, h \in Harts : g # h /\ hart[g].proc = hart[h].proc => hart[g].proc = NoStack
    /\ \A s \in Stacks : task[s].st = "running" <=> \E h \in Harts : hart[h].proc = s

Rebooting == {s \in Stacks : task[s].call = "reboot"}

(* system_shutdown() waits only for harts that stop: each hart it has yet  *)
(* to wait for has stopped or has the shutdown in its queue, and its own   *)
(* hart goes on scheduling it.  Not so when it was moved to another hart   *)
(* after it computed the mask, when a hart was late to start, or when two  *)
(* processes shut down and stop each other.                                *)
WaitsForTheTold ==
    \A s \in Rebooting :
        task[s].pc = "wait" =>
            \/ missed \/ dropped \/ Cardinality(Rebooting) > 1
            \/ \E h \in Harts : hart[h].state = "panicked"
            \/ /\ hart[task[s].home].state = "started"
               /\ \A g \in Harts \ {task[s].home} :
                      hart[g].state = "started" /\ g >= task[s].i
                          => "shutdown" \in ToSet(hart[g].ipi)
=============================================================================
