-------------------------------- MODULE Locks --------------------------------
(***************************************************************************)
(* The locks of the kernel: the nesting of disabled interrupts (cpu.c),    *)
(* spinlocks (spinlock.c), the reader-writer spinlock (rwspinlock.c) and   *)
(* sleep locks (sleeplock.c).                                              *)
(*                                                                         *)
(* Every CPU runs kernel code that takes the reader-writer lock "rw" (as   *)
(* g_process_list.lock), the spinlock "sp" (as a process's lock), or "sp"  *)
(* inside "rw", and an interrupt handler that does the same (wakeup() is   *)
(* called from handlers).  Each atomic instruction is a step.  Threads     *)
(* take sleep locks one at a time or, in either order, two at once.        *)
(***************************************************************************)
EXTENDS Integers, Sequences, FiniteSets

CONSTANTS LockCpus, LockThreads, SleepLocks, Nobody, MaxLockOps

ASSUME LocksAssumption ==
    /\ IsFiniteSet(LockCpus) /\ IsFiniteSet(SleepLocks)
    /\ Nobody \notin LockThreads
    /\ MaxLockOps \in Nat

VARIABLES rw,      \* [locked, readers]
          sp,      \* locked
          cpu,     \* the CPUs
          slk,     \* the owner of each sleep lock
          thr,     \* the threads: [pc, want]
          lock_ops \* bound: calls

lockVars == <<rw, sp, cpu, slk, thr, lock_ops>>

Idle == [pc |-> "run", held |-> <<>>]

LockInit ==
    /\ rw = [locked |-> FALSE, readers |-> 0]
    /\ sp = FALSE
    /\ cpu = [c \in LockCpus |-> [enabled |-> TRUE, depth |-> 0, orig |-> FALSE,
                                  irq |-> FALSE, saved |-> Idle, ctx |-> Idle]]
    /\ slk = [l \in SleepLocks |-> Nobody]
    /\ thr = [t \in LockThreads |-> [pc |-> "out", want |-> <<>>]]
    /\ lock_ops = 0

-----------------------------------------------------------------------------
(* cpu_push_disable_device_interrupt_stack(), cpu_pop_...()                *)
Push(u) == [u EXCEPT !.enabled = FALSE, !.depth = @ + 1,
                     !.orig = IF u.depth = 0 THEN u.enabled ELSE @]
Pop(u) == [u EXCEPT !.depth = @ - 1, !.enabled = (u.depth = 1 /\ u.orig) \/ @]

\* The CPU u when its code is at pc with the locks `held`.
Goes(u, pc, held) == [u EXCEPT !.ctx = [pc |-> pc, held |-> held]]

LockAt(c, pc) == cpu[c].ctx.pc = pc
OnlyCpus == UNCHANGED <<slk, thr>>

\* A call of rwspin_read_lock(), rwspin_write_lock(), spin_lock() or spin_trylock().
CallLock(c, op) ==
    /\ LockAt(c, "run") /\ lock_ops < MaxLockOps
    /\ cpu[c].ctx.held = <<>> \/ (Len(cpu[c].ctx.held) = 1 /\ cpu[c].ctx.held[1] # "spin"
                                  /\ op \in {"spin", "try"})
    /\ cpu' = [cpu EXCEPT ![c] = Goes(Push(cpu[c]), op, cpu[c].ctx.held)]
    /\ lock_ops' = lock_ops + 1
    /\ UNCHANGED <<rw, sp>> /\ OnlyCpus

Got(c, mode) == [cpu EXCEPT ![c] = Goes(cpu[c], "run", Append(cpu[c].ctx.held, mode))]
GoesOn(c, pc) == [cpu EXCEPT ![c] = Goes(cpu[c], pc, cpu[c].ctx.held)]

SpinLock(c) ==
    /\ LockAt(c, "spin") /\ ~sp
    /\ sp' = TRUE
    /\ cpu' = Got(c, "spin")
    /\ UNCHANGED <<rw, lock_ops>> /\ OnlyCpus
SpinTryLock(c) ==
    /\ LockAt(c, "try")
    /\ sp' = TRUE
    /\ cpu' = IF sp THEN [cpu EXCEPT ![c] = Goes(Pop(cpu[c]), "run", cpu[c].ctx.held)]
              ELSE Got(c, "spin")
    /\ UNCHANGED <<rw, lock_ops>> /\ OnlyCpus

\* Readers and writers first take `locked`.
RwExchange(c) ==
    /\ LockAt(c, "read") \/ LockAt(c, "write")
    /\ ~rw.locked
    /\ rw' = [rw EXCEPT !.locked = TRUE]
    /\ cpu' = GoesOn(c, IF LockAt(c, "read") THEN "count" ELSE "drain")
    /\ UNCHANGED <<sp, lock_ops>> /\ OnlyCpus
RwCount(c) ==
    /\ LockAt(c, "count")
    /\ rw' = [rw EXCEPT !.readers = @ + 1]
    /\ cpu' = GoesOn(c, "open")
    /\ UNCHANGED <<sp, lock_ops>> /\ OnlyCpus
RwOpen(c) ==
    /\ LockAt(c, "open")
    /\ rw' = [rw EXCEPT !.locked = FALSE]
    /\ cpu' = Got(c, "read")
    /\ UNCHANGED <<sp, lock_ops>> /\ OnlyCpus
RwDrain_once(c) ==
    /\ LockAt(c, "drain")
    /\ cpu' = Got(c, "write")
    /\ UNCHANGED <<rw, sp, lock_ops>> /\ OnlyCpus
RwDrain(c) ==
    /\ LockAt(c, "drain") /\ rw.readers = 0
    /\ cpu' = Got(c, "write")
    /\ UNCHANGED <<rw, sp, lock_ops>> /\ OnlyCpus

\* The unlock functions, in the reverse order.
Unlock(c) ==
    LET held == cpu[c].ctx.held
        mode == held[Len(held)]
    IN  /\ LockAt(c, "run") /\ held # <<>>
        /\ rw' = CASE mode = "read" -> [rw EXCEPT !.readers = @ - 1]
                   [] mode = "write" -> [rw EXCEPT !.locked = FALSE]
                   [] OTHER -> rw
        /\ sp' = (sp /\ mode # "spin")
        /\ cpu' = [cpu EXCEPT ![c] = Goes(Pop(cpu[c]), "run", SubSeq(held, 1, Len(held) - 1))]
        /\ UNCHANGED lock_ops /\ OnlyCpus

\* Hardware: a device interrupt, and the return from its handler.
Interrupted(c) ==
    /\ cpu[c].enabled /\ ~cpu[c].irq
    /\ cpu' = [cpu EXCEPT ![c] = [cpu[c] EXCEPT !.enabled = FALSE, !.irq = TRUE,
                                                !.saved = cpu[c].ctx, !.ctx = Idle]]
    /\ UNCHANGED <<rw, sp, lock_ops>> /\ OnlyCpus
Returns(c) ==
    /\ cpu[c].irq /\ LockAt(c, "run") /\ cpu[c].ctx.held = <<>>
    /\ cpu' = [cpu EXCEPT ![c] = [cpu[c] EXCEPT !.enabled = TRUE, !.irq = FALSE,
                                                !.saved = Idle, !.ctx = cpu[c].saved]]
    /\ UNCHANGED <<rw, sp, lock_ops>> /\ OnlyCpus

-----------------------------------------------------------------------------
(* Sleep locks.  The spinlock inside is held for the length of a step; a   *)
(* try-lock may find it taken and fail although the lock is free.          *)
OnlyThreads == UNCHANGED <<rw, sp, cpu>>

CallSleepLock(t, want) ==
    /\ thr[t].pc = "out" /\ lock_ops < MaxLockOps
    /\ thr' = [thr EXCEPT ![t] = [pc |-> IF Len(want) = 1 THEN "lock" ELSE "try0", want |-> want]]
    /\ lock_ops' = lock_ops + 1
    /\ UNCHANGED slk /\ OnlyThreads

SleepLock(t) ==
    /\ thr[t].pc = "lock"
    /\ LET l == thr[t].want[1]
       IN  IF slk[l] # Nobody
           THEN thr' = [thr EXCEPT ![t].pc = "asleep"] /\ UNCHANGED slk
           ELSE thr' = [thr EXCEPT ![t].pc = "hold"] /\ slk' = [slk EXCEPT ![l] = t]
    /\ UNCHANGED lock_ops /\ OnlyThreads

WokenOn(l) == [u \in LockThreads |->
                 IF thr[u].pc = "asleep" /\ thr[u].want[1] = l THEN [thr[u] EXCEPT !.pc = "lock"]
                 ELSE thr[u]]

\* sleep_unlock() by t, which goes on at pc.
SleepUnlock(t, l, pc) ==
    /\ slk' = [slk EXCEPT ![l] = Nobody]
    /\ thr' = [WokenOn(l) EXCEPT ![t].pc = pc]

\* sleep_lock_2(): the two try-locks, and the way back.
TryLock0(t) ==
    /\ thr[t].pc = "try0"
    /\ \E busy \in BOOLEAN :
          IF busy \/ slk[thr[t].want[1]] # Nobody THEN UNCHANGED <<slk, thr>>
          ELSE /\ slk' = [slk EXCEPT ![thr[t].want[1]] = t]
               /\ thr' = [thr EXCEPT ![t].pc = "try1"]
    /\ UNCHANGED lock_ops /\ OnlyThreads
TryLock1(t) ==
    /\ thr[t].pc = "try1"
    /\ \E busy \in BOOLEAN :
          IF busy \/ slk[thr[t].want[2]] # Nobody
          THEN SleepUnlock(t, thr[t].want[1], "try0")
          ELSE /\ slk' = [slk EXCEPT ![thr[t].want[2]] = t]
               /\ thr' = [thr EXCEPT ![t].pc = "hold"]
    /\ UNCHANGED lock_ops /\ OnlyThreads

Leave(t) ==
    /\ thr[t].pc = "hold"
    /\ \E l \in {l \in SleepLocks : slk[l] = t} :
          SleepUnlock(t, l, IF Cardinality({m \in SleepLocks : slk[m] = t}) = 1 THEN "out" ELSE "hold")
    /\ UNCHANGED lock_ops /\ OnlyThreads

CpuNext ==
    \E c \in LockCpus : \/ \E op \in {"read", "write", "spin", "try"} : CallLock(c, op)
                        \/ SpinLock(c) \/ SpinTryLock(c) \/ RwExchange(c) \/ RwCount(c)
                        \/ RwOpen(c) \/ RwDrain(c) \/ Unlock(c) \/ Interrupted(c) \/ Returns(c)
ThreadNext ==
    \E t \in LockThreads : \/ \E l \in SleepLocks : CallSleepLock(t, <<l>>)
                           \/ \E l, k \in SleepLocks : l # k /\ CallSleepLock(t, <<l, k>>)
                           \/ SleepLock(t) \/ TryLock0(t) \/ TryLock1(t) \/ Leave(t)

LockSpec == LockInit /\ [][CpuNext \/ ThreadNext]_lockVars

-----------------------------------------------------------------------------
HeldBy(c) == {cpu[c].ctx.held[i] : i \in DOMAIN cpu[c].ctx.held}
             \cup {cpu[c].saved.held[i] : i \in DOMAIN cpu[c].saved.held}

\* rwspin_write_lock() and spin_lock(): a writer is alone, and so is the holder
\* of a spinlock; also within one CPU, between its code and its handler.
LocksExclude ==
    /\ \A c, d \in LockCpus : c # d =>
          /\ ~("write" \in HeldBy(c) /\ HeldBy(d) \cap {"read", "write"} # {})
          /\ ~("spin" \in HeldBy(c) /\ "spin" \in HeldBy(d))
    /\ \A c \in LockCpus : ~(cpu[c].irq /\ cpu[c].saved.held # <<>>)

\* The nesting in cpu.c: a CPU takes interrupts exactly when it neither holds a
\* lock nor takes one nor serves an interrupt, however locks and try-locks that
\* fail were nested.
InterruptsBalanced ==
    \A c \in LockCpus :
        /\ cpu[c].depth = IF LockAt(c, "run") THEN Len(cpu[c].ctx.held)
                                           ELSE Len(cpu[c].ctx.held) + 1
        /\ cpu[c].enabled <=> cpu[c].depth = 0 /\ ~cpu[c].irq

\* What a CPU spins for is held by another CPU, which does not spin for anything
\* the first one holds: rwspin_write_lock() keeps `locked` while it waits for the
\* readers to leave, and no handler runs into a lock its own CPU has.
WaitsFor(c) ==
    CASE cpu[c].ctx.pc = "spin" /\ sp -> {d \in LockCpus : "spin" \in HeldBy(d)}
      [] cpu[c].ctx.pc \in {"read", "write"} /\ rw.locked ->
            {d \in LockCpus : "write" \in HeldBy(d) \/ cpu[d].ctx.pc \in {"count", "open", "drain"}}
      [] cpu[c].ctx.pc = "drain" /\ rw.readers > 0 ->
            {d \in LockCpus : "read" \in HeldBy(d) \/ cpu[d].ctx.pc = "open"}
      [] OTHER -> {}
SpinsEnd ==
    \A c \in LockCpus :
        /\ c \notin WaitsFor(c)
        /\ \A d \in WaitsFor(c) : c \notin WaitsFor(d)
        /\ (\/ LockAt(c, "spin") /\ sp
            \/ LockAt(c, "drain") /\ rw.readers > 0) => WaitsFor(c) # {}

\* sleep_lock(), sleep_lock_2() and sleep_unlock(): a thread only sleeps while
\* its lock is taken, also when the lock was given back by sleep_lock_2(); it
\* owns no lock while it sleeps or starts over, and it owns one to give back
\* when it is through.
SleepersWaitForHolder ==
    \A t \in LockThreads :
        /\ thr[t].pc = "asleep" => slk[thr[t].want[1]] # Nobody
        /\ thr[t].pc = "try1" => slk[thr[t].want[1]] = t
        /\ thr[t].pc = "hold" <=> thr[t].pc # "try1" /\ \E l \in SleepLocks : slk[l] = t

(* Spin locks, reader-writer locks and sleep locks exclude, leave interrupts as *)
(* they were, and leave nobody spinning or asleep behind a lock that is free.   *)
LocksSafe ==
    LocksExclude /\ InterruptsBalanced /\ SpinsEnd /\ SleepersWaitForHolder
=============================================================================
