------------------------------- MODULE Sleep -------------------------------
(***************************************************************************)
(* kernel/kernel/proc.c and scheduler.c: sleep(), wakeup(), yield(), kill  *)
(* and the scheduler on several CPUs, down to the spinlocks they take.     *)
(*                                                                         *)
(* The processes share one condition, a count of events guarded by a       *)
(* spinlock lk, and wait for it the way the whole kernel does:             *)
(*     spin_lock(lk); while (no event) { if (killed) return; sleep(); }    *)
(* An interrupt or a system call makes an event under lk and calls         *)
(* wakeup().  A step ends where another CPU can tell the difference: at    *)
(* the acquisition of a lock, or at the end of a critical section.         *)
(***************************************************************************)
EXTENDS Naturals, Sequences, FiniteSets

CONSTANTS
    Procs,       \* the user processes, all in g_process_list
    CPUs,
    None,        \* NULL, and a free lock
    MaxEvents,   \* bound: events made in all
    MaxAttempts  \* attempts of proc_send_signal (256 in the code)

ASSUME SleepAssumption ==
    /\ None \notin Procs \cup CPUs
    /\ IsFiniteSet(Procs) /\ IsFiniteSet(CPUs)
    /\ MaxEvents \in Nat
    /\ MaxAttempts \in Nat \ {0}

VARIABLES
    state, chan, killed,  \* struct process
    plock,                \* CPU holding proc->lock
    plist,                \* g_process_list.plist
    readers, writer,      \* g_process_list.lock
    g_wait_lock,          \* CPU holding it
    cpu_proc,             \* cpu->proc
    cpc,                  \* what a CPU executes: the scheduler, an event
                          \* handler, or ("run") the code of cpu_proc
    at,                   \* the CPU's position in its walk over plist
    ppc,                  \* where a process is, or will go on
    target, tries,        \* kill: the victim and the attempts made
    lk,                   \* CPU holding the lock of the condition
    events,               \* events not yet consumed
    made,                 \* events made so far
    owed                  \* history: sleepers this wakeup() has yet to wake

procVars == <<state, chan, killed, plock>>
listVars == <<plist, readers, writer>>
killVars == <<target, tries>>
condVars == <<lk, events, made, owed>>
vars == <<procVars, listVars, g_wait_lock, cpu_proc, cpc, at, ppc, killVars, condVars>>

UserLabels == {"user", "c_lock", "c_check", "s_lock", "s_release", "s_sched",
               "s_resume", "y_lock", "y_resume", "k_list", "k_try"}
CpuLabels == {"sched", "scan", "run", "back", "h_lock", "h_event", "h_wait",
              "h_list", "h_visit"}

(* Asleep on the channel, from the release of lk on.                       *)
Waiting == {p \in Procs : \/ ppc[p] = "s_sched"
                          \/ state[p] = "SLEEPING" /\ chan[p] = "c"}

Init ==
    /\ state = [p \in Procs |-> "RUNNABLE"]
    /\ chan = [p \in Procs |-> None]
    /\ killed = [p \in Procs |-> FALSE]
    /\ plock = [p \in Procs |-> None]
    /\ plist \in [1..Cardinality(Procs) -> Procs]   \* in any order
    /\ \A p \in Procs : \E i \in DOMAIN plist : plist[i] = p
    /\ readers = {} /\ writer = None
    /\ g_wait_lock = None
    /\ cpu_proc = [c \in CPUs |-> None]
    /\ cpc = [c \in CPUs |-> "sched"]
    /\ at = [c \in CPUs |-> 1]
    /\ ppc = [p \in Procs |-> "y_resume"]   \* forkret()
    /\ target = [p \in Procs |-> None]
    /\ tries = [p \in Procs |-> 0]
    /\ lk = None /\ events = 0 /\ made = 0
    /\ owed = [c \in CPUs |-> {}]
-----------------------------------------------------------------------------
CpuGoto(c, label) == cpc' = [cpc EXCEPT ![c] = label]
Goto(p, label) == ppc' = [ppc EXCEPT ![p] = label]
Lock(c, p) == plock[p] = None /\ plock' = [plock EXCEPT ![p] = c]
Unlock(p) == plock' = [plock EXCEPT ![p] = None]

(* The process on this CPU is in the kernel at the given label.            *)
At(c, p, label) == cpc[c] = "run" /\ cpu_proc[c] = p /\ ppc[p] = label

ReadLock(c) ==
    /\ writer = None
    /\ readers' = readers \cup {c}
    /\ UNCHANGED <<plist, writer>>

ReadUnlock(c) ==
    /\ readers' = readers \ {c}
    /\ UNCHANGED <<plist, writer>>

(* sched(): the context is saved and the CPU goes on in scheduler(), which *)
(* releases the lock the process still holds.                              *)
SwitchOut(c, p, newState, resumeAt) ==
    /\ state' = [state EXCEPT ![p] = newState]
    /\ Goto(p, resumeAt)
    /\ CpuGoto(c, "back")
-----------------------------------------------------------------------------
(* get_next_runnable_process(): the list is write-locked during the walk.  *)
SchedLock(c) ==
    /\ cpc[c] = "sched"
    /\ writer = None /\ readers = {}
    /\ writer' = c
    /\ at' = [at EXCEPT ![c] = 1]
    /\ CpuGoto(c, "scan")
    /\ UNCHANGED <<procVars, plist, readers, g_wait_lock, cpu_proc, ppc, killVars, condVars>>

Runnable(p) == plock[p] = None /\ state[p] = "RUNNABLE"

SchedSkip(c) ==
    /\ cpc[c] = "scan" /\ at[c] <= Len(plist)
    /\ ~Runnable(plist[at[c]])
    /\ at' = [at EXCEPT ![c] = @ + 1]
    /\ UNCHANGED <<procVars, listVars, g_wait_lock, cpu_proc, cpc, ppc, killVars, condVars>>

(* Nothing to run: wait for an interrupt and look again.                   *)
SchedNone(c) ==
    /\ cpc[c] = "scan" /\ at[c] > Len(plist)
    /\ writer' = None
    /\ at' = [at EXCEPT ![c] = 1]
    /\ CpuGoto(c, "sched")
    /\ UNCHANGED <<procVars, plist, readers, g_wait_lock, cpu_proc, ppc, killVars, condVars>>

SchedPick_inPlace(c) ==   \* fault: leaves the process where it is in the list
    /\ cpc[c] = "scan" /\ at[c] <= Len(plist)
    /\ LET p == plist[at[c]] IN
        /\ Runnable(p)
        /\ Lock(c, p)
        /\ state' = [state EXCEPT ![p] = "RUNNING"]
        /\ cpu_proc' = [cpu_proc EXCEPT ![c] = p]
    /\ writer' = None
    /\ at' = [at EXCEPT ![c] = 1]
    /\ CpuGoto(c, "run")
    /\ UNCHANGED <<chan, killed, plist, readers, g_wait_lock, ppc, killVars, condVars>>

(* Found one: lock it, move it to the end of the list and switch to it.    *)
SchedPick(c) ==
    /\ cpc[c] = "scan" /\ at[c] <= Len(plist)
    /\ LET p == plist[at[c]] IN
        /\ Runnable(p)
        /\ Lock(c, p)
        /\ plist' = SubSeq(plist, 1, at[c] - 1) \o SubSeq(plist, at[c] + 1, Len(plist)) \o <<p>>
        /\ state' = [state EXCEPT ![p] = "RUNNING"]
        /\ cpu_proc' = [cpu_proc EXCEPT ![c] = p]
    /\ writer' = None
    /\ at' = [at EXCEPT ![c] = 1]
    /\ CpuGoto(c, "run")
    /\ UNCHANGED <<chan, killed, readers, g_wait_lock, ppc, killVars, condVars>>

(* context_switch() returned: the process has given up the CPU.            *)
SchedBack(c) ==
    /\ cpc[c] = "back"
    /\ Unlock(cpu_proc[c])
    /\ cpu_proc' = [cpu_proc EXCEPT ![c] = None]
    /\ CpuGoto(c, "sched")
    /\ UNCHANGED <<state, chan, killed, listVars, g_wait_lock, at, ppc, killVars, condVars>>

Scheduler(c) == SchedLock(c) \/ SchedSkip(c) \/ SchedNone(c) \/ SchedPick(c) \/ SchedBack(c)
-----------------------------------------------------------------------------
(* yield(), from the timer interrupt or from proc_send_signal().           *)
Timer(c, p) ==
    /\ At(c, p, "user")
    /\ Goto(p, "y_lock")
    /\ UNCHANGED <<procVars, listVars, g_wait_lock, cpu_proc, cpc, at, killVars, condVars>>

Yield_unlocked(c, p) ==   \* fault: does not take proc->lock
    /\ At(c, p, "y_lock")
    /\ SwitchOut(c, p, "RUNNABLE", "y_resume")
    /\ UNCHANGED <<chan, killed, plock, listVars, g_wait_lock, cpu_proc, at, killVars, condVars>>

Yield(c, p) ==
    /\ At(c, p, "y_lock")
    /\ Lock(c, p)
    /\ SwitchOut(c, p, "RUNNABLE", "y_resume")
    /\ UNCHANGED <<chan, killed, listVars, g_wait_lock, cpu_proc, at, killVars, condVars>>

YieldResume(c, p) ==
    /\ At(c, p, "y_resume")
    /\ Unlock(p)
    /\ Goto(p, IF target[p] = None THEN "user" ELSE "k_list")
    /\ UNCHANGED <<state, chan, killed, listVars, g_wait_lock, cpu_proc, cpc, at, killVars, condVars>>

(* A process waits for an event.  (A killed one makes no further calls:    *)
(* its do_exit() is part of module Process.)                               *)
CallConsume(c, p) ==
    /\ At(c, p, "user") /\ ~killed[p]
    /\ Goto(p, "c_lock")
    /\ UNCHANGED <<procVars, listVars, g_wait_lock, cpu_proc, cpc, at, killVars, condVars>>

ConsumeLock(c, p) ==
    /\ At(c, p, "c_lock")
    /\ lk = None /\ lk' = c
    /\ Goto(p, "c_check")
    /\ UNCHANGED <<procVars, listVars, g_wait_lock, cpu_proc, cpc, at, killVars, events, made, owed>>

(* An event is there, or the process is killed: return.                    *)
ConsumeReturn(c, p) ==
    /\ At(c, p, "c_check")
    /\ \/ events > 0 /\ events' = events - 1
       \/ events = 0 /\ killed[p] /\ UNCHANGED events
    /\ lk' = None
    /\ Goto(p, "user")
    /\ UNCHANGED <<procVars, listVars, g_wait_lock, cpu_proc, cpc, at, killVars, made, owed>>

ConsumeSleep(c, p) ==
    /\ At(c, p, "c_check")
    /\ events = 0 /\ ~killed[p]
    /\ Goto(p, "s_lock")
    /\ UNCHANGED <<procVars, listVars, g_wait_lock, cpu_proc, cpc, at, killVars, condVars>>

(* sleep(): take proc->lock, only then give up lk, and switch away.        *)
SleepLock(c, p) ==
    /\ At(c, p, "s_lock")
    /\ Lock(c, p)
    /\ Goto(p, "s_release")
    /\ UNCHANGED <<state, chan, killed, listVars, g_wait_lock, cpu_proc, cpc, at, killVars, condVars>>

SleepRelease(c, p) ==
    /\ At(c, p, "s_release")
    /\ lk' = None
    /\ Goto(p, "s_sched")
    /\ UNCHANGED <<procVars, listVars, g_wait_lock, cpu_proc, cpc, at, killVars, events, made, owed>>

SleepSched(c, p) ==
    /\ At(c, p, "s_sched")
    /\ chan' = [chan EXCEPT ![p] = "c"]
    /\ SwitchOut(c, p, "SLEEPING", "s_resume")
    /\ UNCHANGED <<killed, plock, listVars, g_wait_lock, cpu_proc, at, killVars, condVars>>

(* Back from sched(): forget the channel and queue for lk again.           *)
SleepResume(c, p) ==
    /\ At(c, p, "s_resume")
    /\ chan' = [chan EXCEPT ![p] = None]
    /\ Unlock(p)
    /\ Goto(p, "c_lock")
    /\ UNCHANGED <<state, killed, listVars, g_wait_lock, cpu_proc, cpc, at, killVars, condVars>>
-----------------------------------------------------------------------------
(* proc_send_signal(SIGKILL): the pid is in the list throughout.           *)
CallKill(c, p) ==
    /\ At(c, p, "user") /\ ~killed[p]
    /\ \E v \in Procs : ~killed[v] /\ target' = [target EXCEPT ![p] = v]
    /\ tries' = [tries EXCEPT ![p] = 0]
    /\ Goto(p, "k_list")
    /\ UNCHANGED <<procVars, listVars, g_wait_lock, cpu_proc, cpc, at, condVars>>

KillList(c, p) ==
    /\ At(c, p, "k_list")
    /\ tries[p] < MaxAttempts
    /\ ReadLock(c)
    /\ Goto(p, "k_try")
    /\ UNCHANGED <<procVars, g_wait_lock, cpu_proc, cpc, at, killVars, condVars>>

Killed(v) ==
    /\ killed' = [killed EXCEPT ![v] = TRUE]
    /\ state' = [state EXCEPT ![v] = IF @ = "SLEEPING" THEN "RUNNABLE" ELSE @]
    /\ owed' = [c \in CPUs |-> owed[c] \ {v}]

KillTry(c, p) ==
    /\ At(c, p, "k_try")
    /\ plock[target[p]] = None
    /\ Killed(target[p])
    /\ ReadUnlock(c)
    /\ target' = [target EXCEPT ![p] = None]
    /\ tries' = [tries EXCEPT ![p] = 0]
    /\ Goto(p, "user")
    /\ UNCHANGED <<chan, plock, g_wait_lock, cpu_proc, cpc, at, lk, events, made>>

(* The lock is busy: yield and try again, or give up with -ESRCH.          *)
KillBusy(c, p) ==
    /\ At(c, p, "k_try")
    /\ plock[target[p]] # None
    /\ ReadUnlock(c)
    /\ tries' = [tries EXCEPT ![p] = @ + 1]
    /\ Goto(p, "y_lock")
    /\ UNCHANGED <<procVars, g_wait_lock, cpu_proc, cpc, at, target, condVars>>

KillGiveUp(c, p) ==
    /\ At(c, p, "k_list")
    /\ tries[p] = MaxAttempts
    /\ tries' = [tries EXCEPT ![p] = 0]
    /\ target' = [target EXCEPT ![p] = None]
    /\ Goto(p, "user")
    /\ UNCHANGED <<procVars, listVars, g_wait_lock, cpu_proc, cpc, at, condVars>>
-----------------------------------------------------------------------------
(* A device interrupt, or a system call of the current process, makes an   *)
(* event and calls wakeup() with lk held.                                  *)
EventStart(c) ==
    /\ made < MaxEvents
    /\ cpc[c] = "sched" \/ \E p \in Procs : At(c, p, "user")
    /\ made' = made + 1
    /\ CpuGoto(c, "h_lock")
    /\ UNCHANGED <<procVars, listVars, g_wait_lock, cpu_proc, at, ppc, killVars, lk, events, owed>>

EventLock(c) ==
    /\ cpc[c] = "h_lock"
    /\ lk = None /\ lk' = c
    /\ CpuGoto(c, "h_event")
    /\ UNCHANGED <<procVars, listVars, g_wait_lock, cpu_proc, at, ppc, killVars, events, made, owed>>

EventMake(c) ==
    /\ cpc[c] = "h_event"
    /\ events' = events + 1
    /\ owed' = [owed EXCEPT ![c] = Waiting]
    /\ CpuGoto(c, "h_wait")
    /\ UNCHANGED <<procVars, listVars, g_wait_lock, cpu_proc, at, ppc, killVars, lk, made>>

WakeupWaitLock(c) ==
    /\ cpc[c] = "h_wait"
    /\ g_wait_lock = None /\ g_wait_lock' = c
    /\ CpuGoto(c, "h_list")
    /\ UNCHANGED <<procVars, listVars, cpu_proc, at, ppc, killVars, condVars>>

WakeupList(c) ==
    /\ cpc[c] = "h_list"
    /\ ReadLock(c)
    /\ at' = [at EXCEPT ![c] = 1]
    /\ CpuGoto(c, "h_visit")
    /\ UNCHANGED <<procVars, g_wait_lock, cpu_proc, ppc, killVars, condVars>>

(* One turn of the loop of wakeup_holding_plist_lock().                    *)
WakeupSelf(c) ==
    /\ cpc[c] = "h_visit" /\ at[c] <= Len(plist)
    /\ plist[at[c]] = cpu_proc[c]
    /\ at' = [at EXCEPT ![c] = @ + 1]
    /\ UNCHANGED <<procVars, listVars, g_wait_lock, cpu_proc, cpc, ppc, killVars, condVars>>

WakeupVisit_try(c) ==   \* fault: passes over a process whose lock is busy
    /\ cpc[c] = "h_visit" /\ at[c] <= Len(plist)
    /\ LET p == plist[at[c]] IN
        /\ p # cpu_proc[c]
        /\ IF plock[p] = None /\ state[p] = "SLEEPING" /\ chan[p] = "c"
             THEN /\ state' = [state EXCEPT ![p] = "RUNNABLE"]
                  /\ owed' = [d \in CPUs |-> owed[d] \ {p}]
             ELSE UNCHANGED <<state, owed>>
    /\ at' = [at EXCEPT ![c] = @ + 1]
    /\ UNCHANGED <<chan, killed, plock, listVars, g_wait_lock, cpu_proc, cpc, ppc, killVars, lk, events, made>>

WakeupVisit(c) ==
    /\ cpc[c] = "h_visit" /\ at[c] <= Len(plist)
    /\ LET p == plist[at[c]] IN
        /\ p # cpu_proc[c]
        /\ plock[p] = None
        /\ IF state[p] = "SLEEPING" /\ chan[p] = "c"
             THEN /\ state' = [state EXCEPT ![p] = "RUNNABLE"]
                  /\ owed' = [d \in CPUs |-> owed[d] \ {p}]
             ELSE UNCHANGED <<state, owed>>
    /\ at' = [at EXCEPT ![c] = @ + 1]
    /\ UNCHANGED <<chan, killed, plock, listVars, g_wait_lock, cpu_proc, cpc, ppc, killVars, lk, events, made>>

(* wakeup() returns, lk is released, and the CPU returns to what it did.   *)
WakeupReturn(c) ==
    /\ cpc[c] = "h_visit" /\ at[c] > Len(plist)
    /\ ReadUnlock(c)
    /\ g_wait_lock' = None
    /\ lk' = None
    /\ at' = [at EXCEPT ![c] = 1]
    /\ CpuGoto(c, IF cpu_proc[c] = None THEN "sched" ELSE "run")
    /\ UNCHANGED <<procVars, cpu_proc, ppc, killVars, events, made, owed>>

Event(c) ==
    \/ EventLock(c) \/ EventMake(c) \/ WakeupWaitLock(c) \/ WakeupList(c)
    \/ WakeupSelf(c) \/ WakeupVisit(c) \/ WakeupReturn(c)

(* What the process on this CPU does inside the kernel.                    *)
Kernel(c, p) ==
    \/ Yield(c, p) \/ YieldResume(c, p)
    \/ ConsumeLock(c, p) \/ ConsumeReturn(c, p) \/ ConsumeSleep(c, p)
    \/ SleepLock(c, p) \/ SleepRelease(c, p) \/ SleepSched(c, p) \/ SleepResume(c, p)
    \/ KillList(c, p) \/ KillTry(c, p) \/ KillBusy(c, p) \/ KillGiveUp(c, p)

Next ==
    \E c \in CPUs :
        \/ Scheduler(c) \/ Event(c) \/ EventStart(c)
        \/ \E p \in Procs :
            Kernel(c, p) \/ Timer(c, p) \/ CallConsume(c, p) \/ CallKill(c, p)

Spec == Init /\ [][Next]_vars

-----------------------------------------------------------------------------
TypeOK ==
    /\ state \in [Procs -> {"RUNNABLE", "RUNNING", "SLEEPING"}]
    /\ chan \in [Procs -> {"c", None}]
    /\ killed \in [Procs -> BOOLEAN]
    /\ plock \in [Procs -> CPUs \cup {None}]
    /\ plist \in Seq(Procs) /\ Len(plist) = Cardinality(Procs)
    /\ readers \subseteq CPUs
    /\ writer \in CPUs \cup {None}
    /\ g_wait_lock \in CPUs \cup {None}
    /\ cpu_proc \in [CPUs -> Procs \cup {None}]
    /\ cpc \in [CPUs -> CpuLabels]
    /\ at \in [CPUs -> 1..(Len(plist) + 1)]
    /\ ppc \in [Procs -> UserLabels]
    /\ target \in [Procs -> Procs \cup {None}]
    /\ tries \in [Procs -> 0..MaxAttempts]
    /\ lk \in CPUs \cup {None}
    /\ made \in 0..MaxEvents /\ events \in 0..made
    /\ owed \in [CPUs -> SUBSET Procs]

Queue == INSTANCE WaitQueue WITH
    Wakers <- CPUs,
    waiting <- Waiting,
    calling <- {c \in CPUs : cpc[c] \in {"h_wait", "h_list", "h_visit"}},
    doomed <- {p \in Procs : killed[p]}

(* sleep() and wakeup() keep the promise of WaitQueue: a process waits     *)
(* from the moment its lock is free, and everybody who waited when         *)
(* wakeup() was called was woken when it returns, whatever the scheduler,  *)
(* yields, kills and other CPUs do meanwhile.                              *)
RefinesWaitQueue == Queue!WSpec

(* The kernel's wait loops rely on this: with lk free, nobody sleeps while *)
(* there is an event to consume.                                           *)
NoLostWakeup == lk = None /\ events > 0 => Waiting = {}

(* proc->lock is handed from the process to scheduler() across the context *)
(* switch, so a process and its kernel stack are never on two CPUs, and    *)
(* only a process that is on a CPU is RUNNING.                             *)
OneCpuPerProcess ==
    /\ \A c, d \in CPUs : cpu_proc[c] = cpu_proc[d] /\ cpu_proc[c] # None => c = d
    /\ \A p \in Procs : state[p] = "RUNNING" => \E c \in CPUs : cpu_proc[c] = p
    /\ \A c \in CPUs : cpc[c] = "back" => plock[cpu_proc[c]] = c

(* sched() runs with proc->lock as the only lock held (its panic           *)
(* "invalid disable_dev_int_stack_depth").                                 *)
SchedHoldsOnlyProcLock ==
    \A c \in CPUs : cpc[c] = "back" =>
        /\ lk # c /\ g_wait_lock # c /\ writer # c /\ c \notin readers
        /\ {p \in Procs : plock[p] = c} = {cpu_proc[c]}

(* sleep(), wakeup(), kill and the scheduler together: no wakeup is lost, no   *)
(* process is on two CPUs, and a CPU switches with only the process lock held. *)
SleepSafe ==
    /\ TypeOK
    /\ NoLostWakeup
    /\ OneCpuPerProcess
    /\ SchedHoldsOnlyProcLock
=============================================================================
