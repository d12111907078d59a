----------------------------- MODULE LocksProofs -----------------------------
(***************************************************************************)
(* Proofs about module Locks, for every number of CPUs, threads and sleep  *)
(* locks: the locks exclude, interrupts come back as they were, nobody     *)
(* spins or sleeps behind a lock that is free (LocksSafe).                 *)
(***************************************************************************)
EXTENDS Locks, FiniteSetTheorems, TLAPS

Modes == {"read", "write", "spin"}
Ops == {"read", "write", "spin", "try"}
Taking == Ops \cup {"count", "open", "drain"}

Ctx == [pc : {"run"} \cup Taking, held : Seq(Modes)]
Unit == [enabled : BOOLEAN, depth : Nat, orig : BOOLEAN, irq : BOOLEAN, saved : Ctx, ctx : Ctx]

(* What kernel code can hold at a time: rw, sp, or sp inside of rw.        *)
Proper(h) ==
    h \in Seq(Modes) /\ Len(h) \in 0..2 /\ (Len(h) = 2 => h[1] # "spin" /\ h[2] = "spin")
First(h, m) == Len(h) > 0 /\ h[1] = m
Last(h, m) == Len(h) > 0 /\ h[Len(h)] = m

CpuType ==
    /\ rw \in [locked : BOOLEAN, readers : Nat]
    /\ sp \in BOOLEAN
    /\ cpu \in [LockCpus -> Unit]
    /\ \A c \in LockCpus : Proper(cpu[c].ctx.held)

(* What is taken inside of what; what an interrupt finds; and what the     *)
(* outermost pop will restore.                                             *)
NestInv ==
    \A c \in LockCpus :
        /\ cpu[c].ctx.pc \in Taking \ {"spin", "try"} => Len(cpu[c].ctx.held) = 0
        /\ cpu[c].ctx.pc \in {"spin", "try"} =>
              Len(cpu[c].ctx.held) = 0 \/ (Len(cpu[c].ctx.held) = 1 /\ cpu[c].ctx.held[1] # "spin")
        /\ cpu[c].depth > 0 => (cpu[c].orig <=> ~cpu[c].irq)
        /\ cpu[c].saved.pc = "run" /\ cpu[c].saved.held = <<>>

HasSpin(c) == Last(cpu[c].ctx.held, "spin")
Writes(c) == First(cpu[c].ctx.held, "write")
Reads(c) == First(cpu[c].ctx.held, "read") \/ cpu[c].ctx.pc = "open"
Owns(c) == Writes(c) \/ cpu[c].ctx.pc \in {"count", "open", "drain"}

(* A lock's words say who has it.                                          *)
SpinInv ==
    /\ sp <=> \E c \in LockCpus : HasSpin(c)
    /\ \A c, d \in LockCpus : HasSpin(c) /\ HasSpin(d) => c = d
OwnerInv ==
    /\ rw.locked <=> \E c \in LockCpus : Owns(c)
    /\ \A c, d \in LockCpus : Owns(c) /\ Owns(d) => c = d
Readers == {c \in LockCpus : Reads(c)}
ReaderInv ==
    /\ rw.readers = Cardinality(Readers)
    /\ \A c \in LockCpus : Writes(c) => Readers = {}

CpuInv == CpuType /\ InterruptsBalanced /\ NestInv /\ SpinInv /\ OwnerInv /\ ReaderInv

Thread == [pc : {"out", "lock", "asleep", "hold", "try0", "try1"}, want : Seq(SleepLocks)]
ThreadType == slk \in [SleepLocks -> LockThreads \cup {Nobody}] /\ thr \in [LockThreads -> Thread]

(* What a thread wants and what it owns, by where it is.                   *)
ThreadInv ==
    \A t \in LockThreads :
        /\ thr[t].pc \in {"lock", "asleep"} => Len(thr[t].want) = 1
        /\ thr[t].pc \in {"try0", "try1"} => Len(thr[t].want) = 2 /\ thr[t].want[1] # thr[t].want[2]
        /\ thr[t].pc = "asleep" => slk[thr[t].want[1]] # Nobody
        /\ thr[t].pc \in {"out", "lock", "asleep", "try0"} => \A l \in SleepLocks : slk[l] # t
        /\ thr[t].pc = "try1" => \A l \in SleepLocks : slk[l] = t <=> l = thr[t].want[1]
        /\ thr[t].pc = "hold" => \E l \in SleepLocks : slk[l] = t

LocksInv == CpuInv /\ ThreadType /\ ThreadInv

-----------------------------------------------------------------------------
(* The nesting of what is held, and of disabled interrupts.                *)
LEMMA Take ==
  ASSUME NEW h, Proper(h), NEW m \in Modes, Len(h) = 0 \/ (m = "spin" /\ Len(h) = 1 /\ h[1] # "spin")
  PROVE /\ Proper(Append(h, m)) /\ Len(Append(h, m)) = Len(h) + 1
        /\ Last(Append(h, m), "spin") <=> m = "spin"
        /\ \A k \in {"read", "write"} : First(Append(h, m), k) <=> First(h, k) \/ m = k
<1> DEFINE g == Append(h, m)
<1>1. g \in Seq(Modes) /\ Len(g) = Len(h) + 1 /\ h \in Seq(Modes) /\ Len(h) \in 0..2
  BY DEF Proper
<1>2. g[Len(h) + 1] = m /\ \A i \in 1..Len(h) : g[i] = h[i]
  BY DEF Proper
<1> HIDE DEF g
<1>3. Proper(g)
  BY <1>1, <1>2 DEF Proper, Modes
<1>4. Last(g, "spin") <=> m = "spin"
  BY <1>1, <1>2 DEF Last
<1>5. \A k \in {"read", "write"} : First(g, k) <=> First(h, k) \/ m = k
  BY <1>1, <1>2 DEF First
<1> QED
  BY <1>1, <1>3, <1>4, <1>5, Zenon DEF g

(* What remains after giving back the last. *)
Less(h) == SubSeq(h, 1, Len(h) - 1)
LEMMA Give ==
  ASSUME NEW h, Proper(h), h # <<>>
  PROVE /\ Len(h) > 0 /\ Proper(Less(h)) /\ Len(Less(h)) = Len(h) - 1 /\ ~Last(Less(h), "spin")
        /\ \A k \in {"read", "write"} : First(h, k) <=> First(Less(h), k) \/ Last(h, k)
        /\ \A k \in {"read", "write"} : ~(First(Less(h), k) /\ Last(h, k))
<1>0. h \in Seq(Modes) /\ Len(h) \in 0..2
  BY Zenon DEF Proper
<1>1. Len(h) > 0
  BY <1>0
<1>2. Less(h) \in Seq(Modes) /\ Len(Less(h)) = Len(h) - 1
  BY <1>0, <1>1 DEF Less
<1>3. \A i \in 1..Len(h) - 1 : Less(h)[i] = h[i]
  <2> TAKE i \in 1..Len(h) - 1
  <2>1. SubSeq(h, 1, Len(h) - 1)[i] = h[1 + i - 1]
    BY <1>0, <1>1
  <2> QED
    BY <2>1, <1>0 DEF Less
<1>4. Proper(Less(h))
  BY <1>0, <1>1, <1>2, <1>3 DEF Proper, Modes
<1>5. ~Last(Less(h), "spin")
  BY <1>0, <1>1, <1>2, <1>3 DEF Proper, Last
<1>6. \A k \in {"read", "write"} : First(h, k) <=> First(Less(h), k) \/ Last(h, k)
  BY <1>0, <1>1, <1>2, <1>3 DEF Proper, Last, First
<1>7. \A k \in {"read", "write"} : ~(First(Less(h), k) /\ Last(h, k))
  BY <1>0, <1>1, <1>2, <1>3 DEF Proper, Last, First
<1> QED
  BY <1>1, <1>2, <1>4, <1>5, <1>6, <1>7, Zenon

LEMMA PushUnit ==
  ASSUME NEW x \in Unit
  PROVE /\ Push(x) \in Unit /\ Push(x).ctx = x.ctx /\ Push(x).depth = x.depth + 1 /\ Push(x).irq = x.irq /\ Push(x).saved = x.saved
        /\ ~Push(x).enabled
        /\ x.depth = 0 => (Push(x).orig <=> x.enabled)
        /\ x.depth # 0 => (Push(x).orig <=> x.orig)
<1>1. x.depth + 1 \in Nat
  BY DEF Unit
<1>2. (IF x.depth = 0 THEN x.enabled ELSE x.orig) \in BOOLEAN
  BY Zenon DEF Unit
<1>3. Push(x) \in Unit
  BY <1>1, <1>2, Zenon DEF Unit, Push
<1> QED
  BY <1>3, Zenon DEF Unit, Push

LEMMA PopUnit ==
  ASSUME NEW x \in Unit, x.depth > 0
  PROVE /\ Pop(x) \in Unit /\ Pop(x).ctx = x.ctx /\ Pop(x).depth = x.depth - 1 /\ Pop(x).irq = x.irq /\ Pop(x).saved = x.saved
        /\ Pop(x).orig = x.orig
        /\ Pop(x).enabled <=> (x.depth = 1 /\ x.orig) \/ x.enabled
<1>1. x.depth - 1 \in Nat
  BY DEF Unit
<1>2. ((x.depth = 1 /\ x.orig) \/ x.enabled) \in BOOLEAN
  BY Zenon DEF Unit
<1>3. Pop(x) \in Unit
  BY <1>1, <1>2, Zenon DEF Unit, Pop
<1> QED
  BY <1>3, Zenon DEF Unit, Pop

LEMMA CtxUnit ==
  ASSUME NEW x \in Unit, NEW k \in Ctx
  PROVE /\ [x EXCEPT !.ctx = k] \in Unit /\ [x EXCEPT !.ctx = k].ctx = k
        /\ [x EXCEPT !.ctx = k].depth = x.depth /\ [x EXCEPT !.ctx = k].irq = x.irq /\ [x EXCEPT !.ctx = k].saved = x.saved
        /\ [x EXCEPT !.ctx = k].orig = x.orig /\ [x EXCEPT !.ctx = k].enabled = x.enabled
<1>1. [x EXCEPT !.ctx = k] \in Unit
  BY Zenon DEF Unit
<1> QED
  BY <1>1, Zenon DEF Unit

-----------------------------------------------------------------------------
(* What the steps of a CPU do to it.                                       *)
Others(c) == cpu' \in [LockCpus -> Unit] /\ \A d \in LockCpus \ {c} : cpu'[d] = cpu[d]
Kept(c) == /\ cpu'[c].depth = cpu[c].depth /\ cpu'[c].irq = cpu[c].irq /\ cpu'[c].saved = cpu[c].saved
           /\ cpu'[c].orig = cpu[c].orig /\ cpu'[c].enabled = cpu[c].enabled
Popped(c) == /\ cpu'[c].depth = cpu[c].depth - 1 /\ cpu'[c].irq = cpu[c].irq /\ cpu'[c].saved = cpu[c].saved
             /\ cpu'[c].orig = cpu[c].orig
             /\ cpu'[c].enabled <=> (cpu[c].depth = 1 /\ cpu[c].orig) \/ cpu[c].enabled

LEMMA CpuIs ==
    ASSUME CpuType, NEW c \in LockCpus
    PROVE  cpu[c] \in Unit /\ cpu[c].ctx \in Ctx /\ cpu[c].saved \in Ctx /\ cpu[c].ctx.held \in Seq(Modes) /\ Proper(cpu[c].ctx.held)
<1>1. cpu[c] \in Unit /\ Proper(cpu[c].ctx.held)
  BY Zenon DEF CpuType
<1>2. cpu[c].ctx \in Ctx /\ cpu[c].saved \in Ctx
  BY <1>1, Zenon DEF Unit
<1> QED
  BY <1>1, <1>2, Zenon DEF Proper

LEMMA GoesTo ==
    ASSUME NEW x \in Unit, NEW pc \in {"run"} \cup Taking, NEW h \in Seq(Modes)
    PROVE  \E u \in Unit : /\ u = Goes(x, pc, h) /\ u.ctx.pc = pc /\ u.ctx.held = h /\ u.depth = x.depth
                           /\ u.irq = x.irq /\ u.saved = x.saved /\ u.orig = x.orig /\ u.enabled = x.enabled
<1> DEFINE k == [pc |-> pc, held |-> h]
<1>1. k \in Ctx /\ k.pc = pc /\ k.held = h
  BY Zenon DEF Ctx
<1> HIDE DEF k
<1>2. PICK u \in Unit : u = [x EXCEPT !.ctx = k]
  BY <1>1, CtxUnit, Zenon
<1>3. u.ctx = k /\ u.depth = x.depth /\ u.irq = x.irq /\ u.saved = x.saved /\ u.orig = x.orig /\ u.enabled = x.enabled
  BY <1>1, <1>2, CtxUnit, Zenon
<1>4. u = Goes(x, pc, h)
  BY <1>2, Zenon DEF Goes, k
<1> QED
  BY <1>1, <1>3, <1>4, Zenon

LEMMA CallLockDoes ==
    ASSUME CpuType, NEW c \in LockCpus, NEW op \in Ops, CallLock(c, op)
    PROVE  /\ Others(c) /\ cpu[c].ctx.pc = "run" /\ cpu'[c].ctx.pc = op /\ cpu'[c].ctx.held = cpu[c].ctx.held
           /\ cpu'[c].depth = cpu[c].depth + 1 /\ ~cpu'[c].enabled
           /\ cpu[c].depth = 0 => (cpu'[c].orig <=> cpu[c].enabled)
           /\ cpu[c].depth # 0 => (cpu'[c].orig <=> cpu[c].orig)
           /\ cpu'[c].irq = cpu[c].irq /\ cpu'[c].saved = cpu[c].saved
           /\ \/ Len(cpu[c].ctx.held) = 0
              \/ op \in {"spin", "try"} /\ Len(cpu[c].ctx.held) = 1 /\ cpu[c].ctx.held[1] # "spin"
<1>1. cpu[c] \in Unit /\ cpu[c].ctx.held \in Seq(Modes)
  BY CpuIs, Zenon
<1>2. PICK x \in Unit : x = Push(cpu[c])
  BY <1>1, PushUnit, Zenon
<1>3. PICK h \in Seq(Modes) : h = cpu[c].ctx.held
  BY <1>1, Zenon
<1>4. cpu' = [cpu EXCEPT ![c] = Goes(x, op, h)] /\ cpu[c].ctx.pc = "run"
  BY <1>2, <1>3, Zenon DEF CallLock, LockAt
<1>5. cpu[c].ctx.held = <<>> \/ (op \in {"spin", "try"} /\ Len(cpu[c].ctx.held) = 1 /\ cpu[c].ctx.held[1] # "spin")
  BY Zenon DEF CallLock
<1>6. Len(<<>>) = 0
  BY Zenon
<1>7. Others(c) /\ cpu'[c].ctx.pc = op /\ cpu'[c].ctx.held = h /\ cpu'[c].depth = x.depth /\ cpu'[c].irq = x.irq
      /\ cpu'[c].saved = x.saved /\ cpu'[c].orig = x.orig /\ cpu'[c].enabled = x.enabled
  <2>1. PICK u \in Unit : /\ u = Goes(x, op, h) /\ u.ctx.pc = op /\ u.ctx.held = h /\ u.depth = x.depth
                          /\ u.irq = x.irq /\ u.saved = x.saved /\ u.orig = x.orig /\ u.enabled = x.enabled
    <3>1. op \in {"run"} \cup Taking
      BY Zenon DEF Taking
    <3> QED
      BY <3>1, GoesTo, ZenonT(30)
  <2>2. cpu' = [cpu EXCEPT ![c] = u] /\ cpu \in [LockCpus -> Unit]
    BY <2>1, <1>4, Zenon DEF CpuType
  <2> QED
    BY <2>1, <2>2, Zenon DEF Others
<1>8. x.depth = cpu[c].depth + 1 /\ x.irq = cpu[c].irq /\ x.saved = cpu[c].saved /\ ~x.enabled
      /\ (cpu[c].depth = 0 => (x.orig <=> cpu[c].enabled)) /\ (cpu[c].depth # 0 => (x.orig <=> cpu[c].orig))
  BY <1>1, <1>2, PushUnit, Zenon
<1> QED
  BY <1>3, <1>4, <1>5, <1>6, <1>7, <1>8, Zenon

LEMMA GotDoes ==
    ASSUME CpuType, NEW c \in LockCpus, NEW mode \in Modes, cpu' = Got(c, mode)
    PROVE  Others(c) /\ Kept(c) /\ cpu'[c].ctx.pc = "run" /\ cpu'[c].ctx.held = Append(cpu[c].ctx.held, mode)
<1>1. cpu[c] \in Unit /\ cpu[c].ctx.held \in Seq(Modes)
  BY CpuIs, Zenon
<1>2. PICK h \in Seq(Modes) : h = Append(cpu[c].ctx.held, mode)
  <2>1. PICK q \in Seq(Modes) : q = cpu[c].ctx.held
    BY <1>1, Zenon
  <2>2. Append(q, mode) \in Seq(Modes)
    OBVIOUS
  <2> QED
    BY <2>1, <2>2, Zenon
<1>3. PICK x \in Unit : x = cpu[c]
  BY <1>1, Zenon
<1>4. cpu' = [cpu EXCEPT ![c] = Goes(x, "run", h)]
  BY <1>2, <1>3, Zenon DEF Got
<1>5. Others(c) /\ cpu'[c].ctx.pc = "run" /\ cpu'[c].ctx.held = h /\ cpu'[c].depth = x.depth /\ cpu'[c].irq = x.irq
      /\ cpu'[c].saved = x.saved /\ cpu'[c].orig = x.orig /\ cpu'[c].enabled = x.enabled
  <2>1. PICK u \in Unit : /\ u = Goes(x, "run", h) /\ u.ctx.pc = "run" /\ u.ctx.held = h /\ u.depth = x.depth
                          /\ u.irq = x.irq /\ u.saved = x.saved /\ u.orig = x.orig /\ u.enabled = x.enabled
    BY GoesTo
  <2>2. cpu' = [cpu EXCEPT ![c] = u] /\ cpu \in [LockCpus -> Unit]
    BY <2>1, <1>4, Zenon DEF CpuType
  <2> QED
    BY <2>1, <2>2, Zenon DEF Others
<1> QED
  BY <1>2, <1>3, <1>5, Zenon DEF Kept

LEMMA GoesOnDoes ==
    ASSUME CpuType, NEW c \in LockCpus, NEW pc \in Taking, cpu' = GoesOn(c, pc)
    PROVE  Others(c) /\ Kept(c) /\ cpu'[c].ctx.pc = pc /\ cpu'[c].ctx.held = cpu[c].ctx.held
<1>1. cpu[c] \in Unit /\ cpu[c].ctx.held \in Seq(Modes)
  BY CpuIs, Zenon
<1>2. PICK h \in Seq(Modes) : h = cpu[c].ctx.held
  BY <1>1, Zenon
<1>3. PICK x \in Unit : x = cpu[c]
  BY <1>1, Zenon
<1>4. cpu' = [cpu EXCEPT ![c] = Goes(x, pc, h)]
  BY <1>2, <1>3, Zenon DEF GoesOn
<1>5. Others(c) /\ cpu'[c].ctx.pc = pc /\ cpu'[c].ctx.held = h /\ cpu'[c].depth = x.depth /\ cpu'[c].irq = x.irq
      /\ cpu'[c].saved = x.saved /\ cpu'[c].orig = x.orig /\ cpu'[c].enabled = x.enabled
  <2>1. PICK u \in Unit : /\ u = Goes(x, pc, h) /\ u.ctx.pc = pc /\ u.ctx.held = h /\ u.depth = x.depth
                          /\ u.irq = x.irq /\ u.saved = x.saved /\ u.orig = x.orig /\ u.enabled = x.enabled
    <3>1. pc \in {"run"} \cup Taking
      BY Zenon
    <3> QED
      BY <3>1, GoesTo, ZenonT(30)
  <2>2. cpu' = [cpu EXCEPT ![c] = u] /\ cpu \in [LockCpus -> Unit]
    BY <2>1, <1>4, Zenon DEF CpuType
  <2> QED
    BY <2>1, <2>2, Zenon DEF Others
<1> QED
  BY <1>2, <1>3, <1>5, Zenon DEF Kept

LEMMA PopDoes ==
    ASSUME CpuType, NEW c \in LockCpus, cpu[c].depth > 0, NEW h \in Seq(Modes),
           cpu' = [cpu EXCEPT ![c] = Goes(Pop(cpu[c]), "run", h)]
    PROVE  Others(c) /\ Popped(c) /\ cpu'[c].ctx.pc = "run" /\ cpu'[c].ctx.held = h
<1>1. cpu[c] \in Unit
  BY CpuIs, Zenon
<1>2. PICK x \in Unit : x = Pop(cpu[c])
  BY <1>1, PopUnit, Zenon
<1>4. cpu' = [cpu EXCEPT ![c] = Goes(x, "run", h)]
  BY <1>2, Zenon
<1>5. Others(c) /\ cpu'[c].ctx.pc = "run" /\ cpu'[c].ctx.held = h /\ cpu'[c].depth = x.depth /\ cpu'[c].irq = x.irq
      /\ cpu'[c].saved = x.saved /\ cpu'[c].orig = x.orig /\ cpu'[c].enabled = x.enabled
  <2>1. PICK u \in Unit : /\ u = Goes(x, "run", h) /\ u.ctx.pc = "run" /\ u.ctx.held = h /\ u.depth = x.depth
                          /\ u.irq = x.irq /\ u.saved = x.saved /\ u.orig = x.orig /\ u.enabled = x.enabled
    BY GoesTo
  <2>2. cpu' = [cpu EXCEPT ![c] = u] /\ cpu \in [LockCpus -> Unit]
    BY <2>1, <1>4, Zenon DEF CpuType
  <2> QED
    BY <2>1, <2>2, Zenon DEF Others
<1>6. x.depth = cpu[c].depth - 1 /\ x.irq = cpu[c].irq /\ x.saved = cpu[c].saved /\ x.orig = cpu[c].orig
      /\ (x.enabled <=> (cpu[c].depth = 1 /\ cpu[c].orig) \/ cpu[c].enabled)
  BY <1>1, <1>2, PopUnit, Zenon
<1> QED
  BY <1>5, <1>6, Zenon DEF Popped

LEMMA UnlockDoes ==
    ASSUME CpuType, NEW c \in LockCpus, cpu[c].depth > 0, Unlock(c)
    PROVE  /\ Others(c) /\ Popped(c) /\ cpu[c].ctx.pc = "run" /\ cpu'[c].ctx.pc = "run"
           /\ cpu[c].ctx.held # <<>> /\ cpu'[c].ctx.held = Less(cpu[c].ctx.held)
<1>1. Proper(cpu[c].ctx.held) /\ cpu[c].ctx.held # <<>> /\ cpu[c].ctx.pc = "run"
  BY CpuIs, Zenon DEF Unlock, LockAt
<1>2. PICK h \in Seq(Modes) : h = Less(cpu[c].ctx.held)
  BY <1>1, Give, Zenon DEF Proper
<1>3. cpu' = [cpu EXCEPT ![c] = Goes(Pop(cpu[c]), "run", h)]
  BY <1>2, Zenon DEF Unlock, Less
<1> QED
  BY <1>1, <1>2, <1>3, PopDoes, Zenon

LEMMA IdleIs == Idle \in Ctx /\ Idle.pc = "run" /\ Idle.held = <<>>
<1>1. <<>> \in Seq(Modes)
  OBVIOUS
<1> QED
  BY <1>1, Zenon DEF Ctx, Idle

LEMMA InterruptedDoes ==
    ASSUME CpuType, NEW c \in LockCpus, Interrupted(c)
    PROVE  /\ Others(c) /\ cpu[c].enabled /\ ~cpu[c].irq /\ ~cpu'[c].enabled /\ cpu'[c].irq
           /\ cpu'[c].saved = cpu[c].ctx /\ cpu'[c].ctx = Idle
           /\ cpu'[c].depth = cpu[c].depth /\ cpu'[c].orig = cpu[c].orig
<1>1. cpu[c] \in Unit /\ cpu[c].ctx \in Ctx
  BY CpuIs, Zenon
<1> DEFINE v == [cpu[c] EXCEPT !.enabled = FALSE, !.irq = TRUE, !.saved = cpu[c].ctx, !.ctx = Idle]
<1>2. v \in Unit
  BY <1>1, IdleIs, Zenon DEF Unit
<1>3. v.saved = cpu[c].ctx /\ v.ctx = Idle /\ v.depth = cpu[c].depth /\ v.orig = cpu[c].orig /\ ~v.enabled /\ v.irq
  BY <1>1, <1>2, Zenon DEF Unit
<1>4. cpu' = [cpu EXCEPT ![c] = v] /\ cpu[c].enabled /\ ~cpu[c].irq
  BY Zenon DEF Interrupted, CpuType
<1> HIDE DEF v
<1> QED
  BY <1>2, <1>3, <1>4, Zenon DEF Others, CpuType

LEMMA ReturnsDoes ==
    ASSUME CpuType, NEW c \in LockCpus, Returns(c)
    PROVE  /\ Others(c) /\ cpu[c].irq /\ cpu[c].ctx.pc = "run" /\ cpu[c].ctx.held = <<>>
           /\ cpu'[c].enabled /\ ~cpu'[c].irq
           /\ cpu'[c].saved = Idle /\ cpu'[c].ctx = cpu[c].saved
           /\ cpu'[c].depth = cpu[c].depth /\ cpu'[c].orig = cpu[c].orig
<1>1. cpu[c] \in Unit /\ cpu[c].saved \in Ctx
  BY CpuIs, Zenon
<1> DEFINE v == [cpu[c] EXCEPT !.enabled = TRUE, !.irq = FALSE, !.saved = Idle, !.ctx = cpu[c].saved]
<1>2. v \in Unit
  BY <1>1, IdleIs, Zenon DEF Unit
<1>3. v.saved = Idle /\ v.ctx = cpu[c].saved /\ v.depth = cpu[c].depth /\ v.orig = cpu[c].orig /\ v.enabled /\ ~v.irq
  BY <1>1, <1>2, Zenon DEF Unit
<1>4. cpu' = [cpu EXCEPT ![c] = v] /\ cpu[c].irq /\ cpu[c].ctx.pc = "run" /\ cpu[c].ctx.held = <<>>
  BY Zenon DEF Returns, CpuType, LockAt
<1> HIDE DEF v
<1> QED
  BY <1>2, <1>3, <1>4, Zenon DEF Others, CpuType

-----------------------------------------------------------------------------
(* The steps of the CPUs keep the invariant.                               *)
LEMMA CallLockStep ==
    ASSUME CpuInv, NEW c \in LockCpus, NEW op \in Ops, CallLock(c, op)
    PROVE  CpuInv'
<1>t. CpuType /\ InterruptsBalanced /\ NestInv /\ SpinInv /\ OwnerInv /\ ReaderInv
  BY Zenon DEF CpuInv
<1>c. /\ cpu[c].depth = (IF cpu[c].ctx.pc = "run" THEN Len(cpu[c].ctx.held) ELSE Len(cpu[c].ctx.held) + 1)
      /\ cpu[c].enabled <=> cpu[c].depth = 0 /\ ~cpu[c].irq
      /\ Proper(cpu[c].ctx.held) /\ Len(cpu[c].ctx.held) \in 0..2 /\ cpu[c].ctx.held \in Seq(Modes)
      /\ cpu[c].depth \in Nat
  <2>1. cpu[c] \in Unit /\ Proper(cpu[c].ctx.held)
    BY <1>t, Zenon DEF CpuType
  <2>2. cpu[c].depth \in Nat
    BY <2>1, Zenon DEF Unit
  <2> QED
    BY <1>t, <2>1, <2>2, Zenon DEF InterruptsBalanced, Proper, LockAt
<1>d. /\ cpu[c].ctx.pc = "run" => cpu[c].depth = Len(cpu[c].ctx.held)
      /\ cpu[c].ctx.pc # "run" => cpu[c].depth = Len(cpu[c].ctx.held) + 1
      /\ cpu[c].depth = 0 => cpu[c].ctx.pc = "run" /\ Len(cpu[c].ctx.held) = 0
  BY <1>c
<1>b. cpu[c].enabled => cpu[c].depth = 0 /\ ~cpu[c].irq
  BY <1>c, Zenon
<1>n. /\ cpu[c].ctx.pc \in Taking \ {"spin", "try"} => Len(cpu[c].ctx.held) = 0
      /\ cpu[c].ctx.pc \in {"spin", "try"} =>
              Len(cpu[c].ctx.held) = 0 \/ (Len(cpu[c].ctx.held) = 1 /\ cpu[c].ctx.held[1] # "spin")
      /\ cpu[c].depth > 0 => (cpu[c].orig <=> ~cpu[c].irq)
      /\ cpu[c].saved.pc = "run" /\ cpu[c].saved.held = <<>>
  BY <1>t, Zenon DEF NestInv
<1>z. Len(cpu[c].ctx.held) = 0 => ~First(cpu[c].ctx.held, "read") /\ ~First(cpu[c].ctx.held, "write") /\ ~Last(cpu[c].ctx.held, "spin")
  BY DEF First, Last
<1>e. /\ Others(c) /\ cpu[c].ctx.pc = "run" /\ cpu'[c].ctx.pc = op /\ cpu'[c].ctx.held = cpu[c].ctx.held
      /\ cpu'[c].depth = cpu[c].depth + 1 /\ ~cpu'[c].enabled
      /\ cpu[c].depth = 0 => (cpu'[c].orig <=> cpu[c].enabled)
      /\ cpu[c].depth # 0 => (cpu'[c].orig <=> cpu[c].orig)
      /\ cpu'[c].irq = cpu[c].irq /\ cpu'[c].saved = cpu[c].saved
      /\ \/ Len(cpu[c].ctx.held) = 0
         \/ op \in {"spin", "try"} /\ Len(cpu[c].ctx.held) = 1 /\ cpu[c].ctx.held[1] # "spin"
  BY <1>t, CallLockDoes, Zenon
<1>o. cpu' \in [LockCpus -> Unit] /\ \A d \in LockCpus : d # c => cpu'[d] = cpu[d]
  BY <1>e, Zenon DEF Others
<1>h. /\ Proper(cpu'[c].ctx.held) /\ Len(cpu'[c].ctx.held) = Len(cpu[c].ctx.held)
      /\ Last(cpu'[c].ctx.held, "spin") <=> Last(cpu[c].ctx.held, "spin")
      /\ First(cpu'[c].ctx.held, "read") <=> First(cpu[c].ctx.held, "read")
      /\ First(cpu'[c].ctx.held, "write") <=> First(cpu[c].ctx.held, "write")
  BY <1>c, <1>e, Zenon
<1>w. rw' = rw /\ sp' = sp
  BY Zenon DEF CallLock
<1>1. CpuType'
  BY <1>t, <1>o, <1>h, <1>w, Zenon DEF CpuType
<1>2. InterruptsBalanced'
  <2>1. cpu'[c].depth = (IF cpu'[c].ctx.pc = "run" THEN Len(cpu'[c].ctx.held) ELSE Len(cpu'[c].ctx.held) + 1)
    <3>1. cpu'[c].ctx.pc = "run" => cpu'[c].depth = Len(cpu'[c].ctx.held)
      BY <1>c, <1>d, <1>e, <1>h, Zenon DEF Kept, Popped, Ops
    <3>2. cpu'[c].ctx.pc # "run" => cpu'[c].depth = Len(cpu'[c].ctx.held) + 1
      BY <1>c, <1>d, <1>e, <1>h, Zenon DEF Kept, Popped, Ops
    <3> QED
      BY <3>1, <3>2, Zenon
  <2>2. cpu'[c].enabled <=> cpu'[c].depth = 0 /\ ~cpu'[c].irq
    BY <1>c, <1>n, <1>e, <1>h DEF Kept, Popped
  <2> QED
    BY <1>t, <1>o, <2>1, <2>2 DEF InterruptsBalanced, LockAt
<1>3. NestInv'
  <2>1. /\ cpu'[c].ctx.pc \in Taking \ {"spin", "try"} => Len(cpu'[c].ctx.held) = 0
        /\ cpu'[c].ctx.pc \in {"spin", "try"} =>
              Len(cpu'[c].ctx.held) = 0 \/ (Len(cpu'[c].ctx.held) = 1 /\ cpu'[c].ctx.held[1] # "spin")
    BY <1>n, <1>e, <1>h, Zenon DEF Taking, Ops
  <2>2. cpu'[c].depth > 0 => (cpu'[c].orig <=> ~cpu'[c].irq)
    BY <1>c, <1>n, <1>d, <1>b, <1>e DEF Kept, Popped
  <2>3. cpu'[c].saved.pc = "run" /\ cpu'[c].saved.held = <<>>
    BY <1>c, <1>n, <1>e, <1>h, Zenon DEF Kept, Popped
  <2> QED
    BY <1>t, <1>o, <2>1, <2>2, <2>3, Zenon DEF NestInv
<1>4. SpinInv'
  BY <1>t, <1>n, <1>z, <1>o, <1>e, <1>h, <1>w, Zenon DEF SpinInv, HasSpin
<1>5. OwnerInv'
  BY <1>t, <1>n, <1>z, <1>o, <1>e, <1>h, <1>w DEF OwnerInv, Owns, Writes, Taking, Ops
<1>6. ReaderInv'
  <2>1. Readers' = Readers
    BY <1>n, <1>z, <1>o, <1>e, <1>h, Zenon DEF Readers, Reads, Taking, Ops
  <2> QED
    BY <1>t, <1>n, <1>z, <1>o, <1>e, <1>h, <1>w, <2>1, Zenon DEF ReaderInv, Writes
<1> QED
  BY <1>1, <1>2, <1>3, <1>4, <1>5, <1>6, Zenon DEF CpuInv

LEMMA SpinLockStep ==
    ASSUME CpuInv, NEW c \in LockCpus, SpinLock(c)
    PROVE  CpuInv'
<1>t. CpuType /\ InterruptsBalanced /\ NestInv /\ SpinInv /\ OwnerInv /\ ReaderInv
  BY Zenon DEF CpuInv
<1>c. /\ cpu[c].depth = (IF cpu[c].ctx.pc = "run" THEN Len(cpu[c].ctx.held) ELSE Len(cpu[c].ctx.held) + 1)
      /\ cpu[c].enabled <=> cpu[c].depth = 0 /\ ~cpu[c].irq
      /\ Proper(cpu[c].ctx.held) /\ Len(cpu[c].ctx.held) \in 0..2 /\ cpu[c].ctx.held \in Seq(Modes)
      /\ cpu[c].depth \in Nat
  <2>1. cpu[c] \in Unit /\ Proper(cpu[c].ctx.held)
    BY <1>t, Zenon DEF CpuType
  <2>2. cpu[c].depth \in Nat
    BY <2>1, Zenon DEF Unit
  <2> QED
    BY <1>t, <2>1, <2>2, Zenon DEF InterruptsBalanced, Proper, LockAt
<1>d. /\ cpu[c].ctx.pc = "run" => cpu[c].depth = Len(cpu[c].ctx.held)
      /\ cpu[c].ctx.pc # "run" => cpu[c].depth = Len(cpu[c].ctx.held) + 1
      /\ cpu[c].depth = 0 => cpu[c].ctx.pc = "run" /\ Len(cpu[c].ctx.held) = 0
  BY <1>c
<1>b. cpu[c].enabled => cpu[c].depth = 0 /\ ~cpu[c].irq
  BY <1>c, Zenon
<1>n. /\ cpu[c].ctx.pc \in Taking \ {"spin", "try"} => Len(cpu[c].ctx.held) = 0
      /\ cpu[c].ctx.pc \in {"spin", "try"} =>
              Len(cpu[c].ctx.held) = 0 \/ (Len(cpu[c].ctx.held) = 1 /\ cpu[c].ctx.held[1] # "spin")
      /\ cpu[c].depth > 0 => (cpu[c].orig <=> ~cpu[c].irq)
      /\ cpu[c].saved.pc = "run" /\ cpu[c].saved.held = <<>>
  BY <1>t, Zenon DEF NestInv
<1>z. Len(cpu[c].ctx.held) = 0 => ~First(cpu[c].ctx.held, "read") /\ ~First(cpu[c].ctx.held, "write") /\ ~Last(cpu[c].ctx.held, "spin")
  BY DEF First, Last
<1>e. Others(c) /\ Kept(c) /\ cpu[c].ctx.pc = "spin" /\ cpu'[c].ctx.pc = "run"
      /\ cpu'[c].ctx.held = Append(cpu[c].ctx.held, "spin")
  <2>1. cpu' = Got(c, "spin") /\ cpu[c].ctx.pc = "spin"
    BY Zenon DEF SpinLock, LockAt
  <2>2. "spin" \in Modes
    BY Zenon DEF Modes
  <2> QED
    BY <1>t, <2>1, <2>2, GotDoes, Zenon
<1>o. cpu' \in [LockCpus -> Unit] /\ \A d \in LockCpus : d # c => cpu'[d] = cpu[d]
  BY <1>e, Zenon DEF Others
<1>h. /\ Proper(cpu'[c].ctx.held) /\ Len(cpu'[c].ctx.held) = Len(cpu[c].ctx.held) + 1
      /\ Last(cpu'[c].ctx.held, "spin")
      /\ First(cpu'[c].ctx.held, "read") <=> First(cpu[c].ctx.held, "read")
      /\ First(cpu'[c].ctx.held, "write") <=> First(cpu[c].ctx.held, "write")
  <2>1. Len(cpu[c].ctx.held) = 0 \/ ("spin" = "spin" /\ Len(cpu[c].ctx.held) = 1 /\ cpu[c].ctx.held[1] # "spin")
    BY <1>n, <1>e, Zenon DEF Taking, Ops
  <2>2. "spin" \in Modes
    BY Zenon DEF Modes
  <2> QED
    BY <1>c, <1>z, <1>e, <2>1, <2>2, Take
<1>w. rw' = rw /\ sp' = TRUE /\ ~sp
  BY <1>t, Zenon DEF SpinLock, CpuType
<1>1. CpuType'
  BY <1>t, <1>o, <1>h, <1>w, Zenon DEF CpuType
<1>2. InterruptsBalanced'
  <2>1. cpu'[c].depth = (IF cpu'[c].ctx.pc = "run" THEN Len(cpu'[c].ctx.held) ELSE Len(cpu'[c].ctx.held) + 1)
    <3>1. cpu'[c].ctx.pc = "run" => cpu'[c].depth = Len(cpu'[c].ctx.held)
      BY <1>c, <1>d, <1>e, <1>h, Zenon DEF Kept, Popped, Ops
    <3>2. cpu'[c].ctx.pc # "run" => cpu'[c].depth = Len(cpu'[c].ctx.held) + 1
      BY <1>c, <1>d, <1>e, <1>h, Zenon DEF Kept, Popped, Ops
    <3> QED
      BY <3>1, <3>2, Zenon
  <2>2. cpu'[c].enabled <=> cpu'[c].depth = 0 /\ ~cpu'[c].irq
    BY <1>c, <1>n, <1>e, <1>h, Zenon DEF Kept, Popped
  <2> QED
    BY <1>t, <1>o, <2>1, <2>2, ZenonT(30) DEF InterruptsBalanced, LockAt
<1>3. NestInv'
  <2>1. /\ cpu'[c].ctx.pc \in Taking \ {"spin", "try"} => Len(cpu'[c].ctx.held) = 0
        /\ cpu'[c].ctx.pc \in {"spin", "try"} =>
              Len(cpu'[c].ctx.held) = 0 \/ (Len(cpu'[c].ctx.held) = 1 /\ cpu'[c].ctx.held[1] # "spin")
    BY <1>n, <1>e, <1>h, Zenon DEF Taking, Ops
  <2>2. cpu'[c].depth > 0 => (cpu'[c].orig <=> ~cpu'[c].irq)
    BY <1>c, <1>n, <1>d, <1>b, <1>e, Zenon DEF Kept, Popped
  <2>3. cpu'[c].saved.pc = "run" /\ cpu'[c].saved.held = <<>>
    BY <1>c, <1>n, <1>e, <1>h, Zenon DEF Kept, Popped
  <2> QED
    BY <1>t, <1>o, <2>1, <2>2, <2>3, Zenon DEF NestInv
<1>4. SpinInv'
  BY <1>t, <1>n, <1>z, <1>o, <1>e, <1>h, <1>w, Zenon DEF SpinInv, HasSpin
<1>5. OwnerInv'
  BY <1>t, <1>n, <1>z, <1>o, <1>e, <1>h, <1>w, ZenonT(30) DEF OwnerInv, Owns, Writes, Taking, Ops
<1>6. ReaderInv'
  <2>1. Readers' = Readers
    BY <1>n, <1>z, <1>o, <1>e, <1>h, Zenon DEF Readers, Reads, Taking, Ops
  <2> QED
    BY <1>t, <1>n, <1>z, <1>o, <1>e, <1>h, <1>w, <2>1, Zenon DEF ReaderInv, Writes
<1> QED
  BY <1>1, <1>2, <1>3, <1>4, <1>5, <1>6, Zenon DEF CpuInv

LEMMA SpinTryLockFreeStep ==
    ASSUME CpuInv, NEW c \in LockCpus, ~sp, SpinTryLock(c)
    PROVE  CpuInv'
<1>t. CpuType /\ InterruptsBalanced /\ NestInv /\ SpinInv /\ OwnerInv /\ ReaderInv
  BY Zenon DEF CpuInv
<1>c. /\ cpu[c].depth = (IF cpu[c].ctx.pc = "run" THEN Len(cpu[c].ctx.held) ELSE Len(cpu[c].ctx.held) + 1)
      /\ cpu[c].enabled <=> cpu[c].depth = 0 /\ ~cpu[c].irq
      /\ Proper(cpu[c].ctx.held) /\ Len(cpu[c].ctx.held) \in 0..2 /\ cpu[c].ctx.held \in Seq(Modes)
      /\ cpu[c].depth \in Nat
  <2>1. cpu[c] \in Unit /\ Proper(cpu[c].ctx.held)
    BY <1>t, Zenon DEF CpuType
  <2>2. cpu[c].depth \in Nat
    BY <2>1, Zenon DEF Unit
  <2> QED
    BY <1>t, <2>1, <2>2, Zenon DEF InterruptsBalanced, Proper, LockAt
<1>d. /\ cpu[c].ctx.pc = "run" => cpu[c].depth = Len(cpu[c].ctx.held)
      /\ cpu[c].ctx.pc # "run" => cpu[c].depth = Len(cpu[c].ctx.held) + 1
      /\ cpu[c].depth = 0 => cpu[c].ctx.pc = "run" /\ Len(cpu[c].ctx.held) = 0
  BY <1>c
<1>b. cpu[c].enabled => cpu[c].depth = 0 /\ ~cpu[c].irq
  BY <1>c, Zenon
<1>n. /\ cpu[c].ctx.pc \in Taking \ {"spin", "try"} => Len(cpu[c].ctx.held) = 0
      /\ cpu[c].ctx.pc \in {"spin", "try"} =>
              Len(cpu[c].ctx.held) = 0 \/ (Len(cpu[c].ctx.held) = 1 /\ cpu[c].ctx.held[1] # "spin")
      /\ cpu[c].depth > 0 => (cpu[c].orig <=> ~cpu[c].irq)
      /\ cpu[c].saved.pc = "run" /\ cpu[c].saved.held = <<>>
  BY <1>t, Zenon DEF NestInv
<1>z. Len(cpu[c].ctx.held) = 0 => ~First(cpu[c].ctx.held, "read") /\ ~First(cpu[c].ctx.held, "write") /\ ~Last(cpu[c].ctx.held, "spin")
  BY DEF First, Last
<1>e. Others(c) /\ Kept(c) /\ cpu[c].ctx.pc = "try" /\ cpu'[c].ctx.pc = "run"
      /\ cpu'[c].ctx.held = Append(cpu[c].ctx.held, "spin")
  <2>1. cpu' = Got(c, "spin") /\ cpu[c].ctx.pc = "try"
    BY Zenon DEF SpinTryLock, LockAt
  <2>2. "spin" \in Modes
    BY Zenon DEF Modes
  <2> QED
    BY <1>t, <2>1, <2>2, GotDoes, Zenon
<1>o. cpu' \in [LockCpus -> Unit] /\ \A d \in LockCpus : d # c => cpu'[d] = cpu[d]
  BY <1>e, Zenon DEF Others
<1>h. /\ Proper(cpu'[c].ctx.held) /\ Len(cpu'[c].ctx.held) = Len(cpu[c].ctx.held) + 1
      /\ Last(cpu'[c].ctx.held, "spin")
      /\ First(cpu'[c].ctx.held, "read") <=> First(cpu[c].ctx.held, "read")
      /\ First(cpu'[c].ctx.held, "write") <=> First(cpu[c].ctx.held, "write")
  <2>1. Len(cpu[c].ctx.held) = 0 \/ ("spin" = "spin" /\ Len(cpu[c].ctx.held) = 1 /\ cpu[c].ctx.held[1] # "spin")
    BY <1>n, <1>e, Zenon DEF Taking, Ops
  <2>2. "spin" \in Modes
    BY Zenon DEF Modes
  <2> QED
    BY <1>c, <1>z, <1>e, <2>1, <2>2, Take
<1>w. rw' = rw /\ sp' = TRUE /\ ~sp
  BY <1>t, Zenon DEF SpinTryLock, CpuType
<1>1. CpuType'
  BY <1>t, <1>o, <1>h, <1>w, Zenon DEF CpuType
<1>2. InterruptsBalanced'
  <2>1. cpu'[c].depth = (IF cpu'[c].ctx.pc = "run" THEN Len(cpu'[c].ctx.held) ELSE Len(cpu'[c].ctx.held) + 1)
    <3>1. cpu'[c].ctx.pc = "run" => cpu'[c].depth = Len(cpu'[c].ctx.held)
      BY <1>c, <1>d, <1>e, <1>h, Zenon DEF Kept, Popped, Ops
    <3>2. cpu'[c].ctx.pc # "run" => cpu'[c].depth = Len(cpu'[c].ctx.held) + 1
      BY <1>c, <1>d, <1>e, <1>h, Zenon DEF Kept, Popped, Ops
    <3> QED
      BY <3>1, <3>2, Zenon
  <2>2. cpu'[c].enabled <=> cpu'[c].depth = 0 /\ ~cpu'[c].irq
    BY <1>c, <1>n, <1>e, <1>h, Zenon DEF Kept, Popped
  <2> QED
    BY <1>t, <1>o, <2>1, <2>2, Zenon DEF InterruptsBalanced, LockAt
<1>3. NestInv'
  <2>1. /\ cpu'[c].ctx.pc \in Taking \ {"spin", "try"} => Len(cpu'[c].ctx.held) = 0
        /\ cpu'[c].ctx.pc \in {"spin", "try"} =>
              Len(cpu'[c].ctx.held) = 0 \/ (Len(cpu'[c].ctx.held) = 1 /\ cpu'[c].ctx.held[1] # "spin")
    BY <1>n, <1>e, <1>h, Zenon DEF Taking, Ops
  <2>2. cpu'[c].depth > 0 => (cpu'[c].orig <=> ~cpu'[c].irq)
    BY <1>c, <1>n, <1>d, <1>b, <1>e, Zenon DEF Kept, Popped
  <2>3. cpu'[c].saved.pc = "run" /\ cpu'[c].saved.held = <<>>
    BY <1>c, <1>n, <1>e, <1>h, Zenon DEF Kept, Popped
  <2> QED
    BY <1>t, <1>o, <2>1, <2>2, <2>3, Zenon DEF NestInv
<1>4. SpinInv'
  BY <1>t, <1>n, <1>z, <1>o, <1>e, <1>h, <1>w, Zenon DEF SpinInv, HasSpin
<1>5. OwnerInv'
  BY <1>t, <1>n, <1>z, <1>o, <1>e, <1>h, <1>w, ZenonT(30) DEF OwnerInv, Owns, Writes, Taking, Ops
<1>6. ReaderInv'
  <2>1. Readers' = Readers
    BY <1>n, <1>z, <1>o, <1>e, <1>h, Zenon DEF Readers, Reads, Taking, Ops
  <2> QED
    BY <1>t, <1>n, <1>z, <1>o, <1>e, <1>h, <1>w, <2>1, Zenon DEF ReaderInv, Writes
<1> QED
  BY <1>1, <1>2, <1>3, <1>4, <1>5, <1>6, Zenon DEF CpuInv

LEMMA SpinTryLockTakenStep ==
    ASSUME CpuInv, NEW c \in LockCpus, sp, SpinTryLock(c)
    PROVE  CpuInv'
<1>t. CpuType /\ InterruptsBalanced /\ NestInv /\ SpinInv /\ OwnerInv /\ ReaderInv
  BY Zenon DEF CpuInv
<1>c. /\ cpu[c].depth = (IF cpu[c].ctx.pc = "run" THEN Len(cpu[c].ctx.held) ELSE Len(cpu[c].ctx.held) + 1)
      /\ cpu[c].enabled <=> cpu[c].depth = 0 /\ ~cpu[c].irq
      /\ Proper(cpu[c].ctx.held) /\ Len(cpu[c].ctx.held) \in 0..2 /\ cpu[c].ctx.held \in Seq(Modes)
      /\ cpu[c].depth \in Nat
  <2>1. cpu[c] \in Unit /\ Proper(cpu[c].ctx.held)
    BY <1>t, Zenon DEF CpuType
  <2>2. cpu[c].depth \in Nat
    BY <2>1, Zenon DEF Unit
  <2> QED
    BY <1>t, <2>1, <2>2, Zenon DEF InterruptsBalanced, Proper, LockAt
<1>d. /\ cpu[c].ctx.pc = "run" => cpu[c].depth = Len(cpu[c].ctx.held)
      /\ cpu[c].ctx.pc # "run" => cpu[c].depth = Len(cpu[c].ctx.held) + 1
      /\ cpu[c].depth = 0 => cpu[c].ctx.pc = "run" /\ Len(cpu[c].ctx.held) = 0
  BY <1>c
<1>b. cpu[c].enabled => cpu[c].depth = 0 /\ ~cpu[c].irq
  BY <1>c, Zenon
<1>n. /\ cpu[c].ctx.pc \in Taking \ {"spin", "try"} => Len(cpu[c].ctx.held) = 0
      /\ cpu[c].ctx.pc \in {"spin", "try"} =>
              Len(cpu[c].ctx.held) = 0 \/ (Len(cpu[c].ctx.held) = 1 /\ cpu[c].ctx.held[1] # "spin")
      /\ cpu[c].depth > 0 => (cpu[c].orig <=> ~cpu[c].irq)
      /\ cpu[c].saved.pc = "run" /\ cpu[c].saved.held = <<>>
  BY <1>t, Zenon DEF NestInv
<1>z. Len(cpu[c].ctx.held) = 0 => ~First(cpu[c].ctx.held, "read") /\ ~First(cpu[c].ctx.held, "write") /\ ~Last(cpu[c].ctx.held, "spin")
  BY DEF First, Last
<1>e. Others(c) /\ Popped(c) /\ cpu[c].ctx.pc = "try" /\ cpu'[c].ctx.pc = "run" /\ cpu'[c].ctx.held = cpu[c].ctx.held
  <2>1. cpu' = [cpu EXCEPT ![c] = Goes(Pop(cpu[c]), "run", cpu[c].ctx.held)] /\ cpu[c].ctx.pc = "try"
    BY Zenon DEF SpinTryLock, LockAt
  <2>2. cpu[c].depth > 0 /\ cpu[c].ctx.held \in Seq(Modes)
    BY <1>c, <2>1
  <2> QED
    BY <1>t, <2>1, <2>2, PopDoes, Zenon
<1>o. cpu' \in [LockCpus -> Unit] /\ \A d \in LockCpus : d # c => cpu'[d] = cpu[d]
  BY <1>e, Zenon DEF Others
<1>h. /\ Proper(cpu'[c].ctx.held) /\ Len(cpu'[c].ctx.held) = Len(cpu[c].ctx.held)
      /\ Last(cpu'[c].ctx.held, "spin") <=> Last(cpu[c].ctx.held, "spin")
      /\ First(cpu'[c].ctx.held, "read") <=> First(cpu[c].ctx.held, "read")
      /\ First(cpu'[c].ctx.held, "write") <=> First(cpu[c].ctx.held, "write")
  BY <1>c, <1>e, Zenon
<1>w. rw' = rw /\ sp' = TRUE /\ sp
  BY Zenon DEF SpinTryLock
<1>1. CpuType'
  BY <1>t, <1>o, <1>h, <1>w, Zenon DEF CpuType
<1>2. InterruptsBalanced'
  <2>1. cpu'[c].depth = (IF cpu'[c].ctx.pc = "run" THEN Len(cpu'[c].ctx.held) ELSE Len(cpu'[c].ctx.held) + 1)
    <3>1. cpu'[c].ctx.pc = "run" => cpu'[c].depth = Len(cpu'[c].ctx.held)
      BY <1>c, <1>d, <1>e, <1>h DEF Kept, Popped, Ops
    <3>2. cpu'[c].ctx.pc # "run" => cpu'[c].depth = Len(cpu'[c].ctx.held) + 1
      BY <1>c, <1>d, <1>e, <1>h, Zenon DEF Kept, Popped, Ops
    <3> QED
      BY <3>1, <3>2, Zenon
  <2>2. cpu'[c].enabled <=> cpu'[c].depth = 0 /\ ~cpu'[c].irq
    BY <1>c, <1>n, <1>e, <1>h DEF Kept, Popped
  <2> QED
    BY <1>t, <1>o, <2>1, <2>2, Zenon DEF InterruptsBalanced, LockAt
<1>3. NestInv'
  <2>1. /\ cpu'[c].ctx.pc \in Taking \ {"spin", "try"} => Len(cpu'[c].ctx.held) = 0
        /\ cpu'[c].ctx.pc \in {"spin", "try"} =>
              Len(cpu'[c].ctx.held) = 0 \/ (Len(cpu'[c].ctx.held) = 1 /\ cpu'[c].ctx.held[1] # "spin")
    BY <1>n, <1>e, <1>h, Zenon DEF Taking, Ops
  <2>2. cpu'[c].depth > 0 => (cpu'[c].orig <=> ~cpu'[c].irq)
    BY <1>c, <1>n, <1>d, <1>b, <1>e DEF Kept, Popped
  <2>3. cpu'[c].saved.pc = "run" /\ cpu'[c].saved.held = <<>>
    BY <1>c, <1>n, <1>e, <1>h, Zenon DEF Kept, Popped
  <2> QED
    BY <1>t, <1>o, <2>1, <2>2, <2>3, Zenon DEF NestInv
<1>4. SpinInv'
  BY <1>t, <1>n, <1>z, <1>o, <1>e, <1>h, <1>w, Zenon DEF SpinInv, HasSpin
<1>5. OwnerInv'
  BY <1>t, <1>n, <1>z, <1>o, <1>e, <1>h, <1>w, SMTT(30) DEF OwnerInv, Owns, Writes, Taking, Ops
<1>6. ReaderInv'
  <2>1. Readers' = Readers
    BY <1>n, <1>z, <1>o, <1>e, <1>h, Zenon DEF Readers, Reads, Taking, Ops
  <2> QED
    BY <1>t, <1>n, <1>z, <1>o, <1>e, <1>h, <1>w, <2>1, Zenon DEF ReaderInv, Writes
<1> QED
  BY <1>1, <1>2, <1>3, <1>4, <1>5, <1>6, Zenon DEF CpuInv

LEMMA RwExchangeStep ==
    ASSUME CpuInv, NEW c \in LockCpus, RwExchange(c)
    PROVE  CpuInv'
<1>t. CpuType /\ InterruptsBalanced /\ NestInv /\ SpinInv /\ OwnerInv /\ ReaderInv
  BY Zenon DEF CpuInv
<1>c. /\ cpu[c].depth = (IF cpu[c].ctx.pc = "run" THEN Len(cpu[c].ctx.held) ELSE Len(cpu[c].ctx.held) + 1)
      /\ cpu[c].enabled <=> cpu[c].depth = 0 /\ ~cpu[c].irq
      /\ Proper(cpu[c].ctx.held) /\ Len(cpu[c].ctx.held) \in 0..2 /\ cpu[c].ctx.held \in Seq(Modes)
      /\ cpu[c].depth \in Nat
  <2>1. cpu[c] \in Unit /\ Proper(cpu[c].ctx.held)
    BY <1>t, Zenon DEF CpuType
  <2>2. cpu[c].depth \in Nat
    BY <2>1, Zenon DEF Unit
  <2> QED
    BY <1>t, <2>1, <2>2, Zenon DEF InterruptsBalanced, Proper, LockAt
<1>d. /\ cpu[c].ctx.pc = "run" => cpu[c].depth = Len(cpu[c].ctx.held)
      /\ cpu[c].ctx.pc # "run" => cpu[c].depth = Len(cpu[c].ctx.held) + 1
      /\ cpu[c].depth = 0 => cpu[c].ctx.pc = "run" /\ Len(cpu[c].ctx.held) = 0
  BY <1>c
<1>b. cpu[c].enabled => cpu[c].depth = 0 /\ ~cpu[c].irq
  BY <1>c, Zenon
<1>n. /\ cpu[c].ctx.pc \in Taking \ {"spin", "try"} => Len(cpu[c].ctx.held) = 0
      /\ cpu[c].ctx.pc \in {"spin", "try"} =>
              Len(cpu[c].ctx.held) = 0 \/ (Len(cpu[c].ctx.held) = 1 /\ cpu[c].ctx.held[1] # "spin")
      /\ cpu[c].depth > 0 => (cpu[c].orig <=> ~cpu[c].irq)
      /\ cpu[c].saved.pc = "run" /\ cpu[c].saved.held = <<>>
  BY <1>t, Zenon DEF NestInv
<1>z. Len(cpu[c].ctx.held) = 0 => ~First(cpu[c].ctx.held, "read") /\ ~First(cpu[c].ctx.held, "write") /\ ~Last(cpu[c].ctx.held, "spin")
  BY DEF First, Last
<1>e. Others(c) /\ Kept(c) /\ cpu[c].ctx.pc \in {"read", "write"} /\ cpu'[c].ctx.pc \in {"count", "drain"} /\ cpu'[c].ctx.held = cpu[c].ctx.held
  <2>1. PICK pc \in Taking : cpu' = GoesOn(c, pc) /\ cpu[c].ctx.pc \in {"read", "write"} /\ pc \in {"count", "drain"}
    BY Zenon DEF RwExchange, LockAt, Taking, Ops
  <2> QED
    BY <1>t, <2>1, GoesOnDoes, Zenon
<1>o. cpu' \in [LockCpus -> Unit] /\ \A d \in LockCpus : d # c => cpu'[d] = cpu[d]
  BY <1>e, Zenon DEF Others
<1>h. /\ Proper(cpu'[c].ctx.held) /\ Len(cpu'[c].ctx.held) = Len(cpu[c].ctx.held)
      /\ Last(cpu'[c].ctx.held, "spin") <=> Last(cpu[c].ctx.held, "spin")
      /\ First(cpu'[c].ctx.held, "read") <=> First(cpu[c].ctx.held, "read")
      /\ First(cpu'[c].ctx.held, "write") <=> First(cpu[c].ctx.held, "write")
  BY <1>c, <1>e, Zenon
<1>w. rw' \in [locked : BOOLEAN, readers : Nat] /\ rw'.locked /\ ~rw.locked /\ rw'.readers = rw.readers /\ sp' = sp
  BY <1>t, Zenon DEF RwExchange, CpuType
<1>1. CpuType'
  BY <1>t, <1>o, <1>h, <1>w, Zenon DEF CpuType
<1>2. InterruptsBalanced'
  <2>1. cpu'[c].depth = (IF cpu'[c].ctx.pc = "run" THEN Len(cpu'[c].ctx.held) ELSE Len(cpu'[c].ctx.held) + 1)
    <3>1. cpu'[c].ctx.pc = "run" => cpu'[c].depth = Len(cpu'[c].ctx.held)
      BY <1>c, <1>d, <1>e, <1>h, Zenon DEF Kept, Popped, Ops
    <3>2. cpu'[c].ctx.pc # "run" => cpu'[c].depth = Len(cpu'[c].ctx.held) + 1
      BY <1>c, <1>d, <1>e, <1>h, Zenon DEF Kept, Popped, Ops
    <3> QED
      BY <3>1, <3>2, Zenon
  <2>2. cpu'[c].enabled <=> cpu'[c].depth = 0 /\ ~cpu'[c].irq
    BY <1>c, <1>n, <1>e, <1>h, Zenon DEF Kept, Popped
  <2> QED
    BY <1>t, <1>o, <2>1, <2>2, Zenon DEF InterruptsBalanced, LockAt
<1>3. NestInv'
  <2>1. /\ cpu'[c].ctx.pc \in Taking \ {"spin", "try"} => Len(cpu'[c].ctx.held) = 0
        /\ cpu'[c].ctx.pc \in {"spin", "try"} =>
              Len(cpu'[c].ctx.held) = 0 \/ (Len(cpu'[c].ctx.held) = 1 /\ cpu'[c].ctx.held[1] # "spin")
    BY <1>n, <1>e, <1>h, Zenon DEF Taking, Ops
  <2>2. cpu'[c].depth > 0 => (cpu'[c].orig <=> ~cpu'[c].irq)
    BY <1>c, <1>n, <1>d, <1>b, <1>e, Zenon DEF Kept, Popped
  <2>3. cpu'[c].saved.pc = "run" /\ cpu'[c].saved.held = <<>>
    BY <1>c, <1>n, <1>e, <1>h, Zenon DEF Kept, Popped
  <2> QED
    BY <1>t, <1>o, <2>1, <2>2, <2>3, Zenon DEF NestInv
<1>4. SpinInv'
  BY <1>t, <1>n, <1>z, <1>o, <1>e, <1>h, <1>w, Zenon DEF SpinInv, HasSpin
<1>5. OwnerInv'
  BY <1>t, <1>n, <1>z, <1>o, <1>e, <1>h, <1>w, Zenon DEF OwnerInv, Owns, Writes, Taking, Ops
<1>6. ReaderInv'
  <2>1. Readers' = Readers
    BY <1>n, <1>z, <1>o, <1>e, <1>h, Zenon DEF Readers, Reads, Taking, Ops
  <2> QED
    BY <1>t, <1>n, <1>z, <1>o, <1>e, <1>h, <1>w, <2>1, Zenon DEF ReaderInv, Writes
<1> QED
  BY <1>1, <1>2, <1>3, <1>4, <1>5, <1>6, Zenon DEF CpuInv

LEMMA RwCountStep ==
    ASSUME CpuInv, NEW c \in LockCpus, RwCount(c)
    PROVE  CpuInv'
<1>t. CpuType /\ InterruptsBalanced /\ NestInv /\ SpinInv /\ OwnerInv /\ ReaderInv
  BY Zenon DEF CpuInv
<1>c. /\ cpu[c].depth = (IF cpu[c].ctx.pc = "run" THEN Len(cpu[c].ctx.held) ELSE Len(cpu[c].ctx.held) + 1)
      /\ cpu[c].enabled <=> cpu[c].depth = 0 /\ ~cpu[c].irq
      /\ Proper(cpu[c].ctx.held) /\ Len(cpu[c].ctx.held) \in 0..2 /\ cpu[c].ctx.held \in Seq(Modes)
      /\ cpu[c].depth \in Nat
  <2>1. cpu[c] \in Unit /\ Proper(cpu[c].ctx.held)
    BY <1>t, Zenon DEF CpuType
  <2>2. cpu[c].depth \in Nat
    BY <2>1, Zenon DEF Unit
  <2> QED
    BY <1>t, <2>1, <2>2, Zenon DEF InterruptsBalanced, Proper, LockAt
<1>d. /\ cpu[c].ctx.pc = "run" => cpu[c].depth = Len(cpu[c].ctx.held)
      /\ cpu[c].ctx.pc # "run" => cpu[c].depth = Len(cpu[c].ctx.held) + 1
      /\ cpu[c].depth = 0 => cpu[c].ctx.pc = "run" /\ Len(cpu[c].ctx.held) = 0
  BY <1>c
<1>b. cpu[c].enabled => cpu[c].depth = 0 /\ ~cpu[c].irq
  BY <1>c, Zenon
<1>n. /\ cpu[c].ctx.pc \in Taking \ {"spin", "try"} => Len(cpu[c].ctx.held) = 0
      /\ cpu[c].ctx.pc \in {"spin", "try"} =>
              Len(cpu[c].ctx.held) = 0 \/ (Len(cpu[c].ctx.held) = 1 /\ cpu[c].ctx.held[1] # "spin")
      /\ cpu[c].depth > 0 => (cpu[c].orig <=> ~cpu[c].irq)
      /\ cpu[c].saved.pc = "run" /\ cpu[c].saved.held = <<>>
  BY <1>t, Zenon DEF NestInv
<1>z. Len(cpu[c].ctx.held) = 0 => ~First(cpu[c].ctx.held, "read") /\ ~First(cpu[c].ctx.held, "write") /\ ~Last(cpu[c].ctx.held, "spin")
  BY DEF First, Last
<1>e. Others(c) /\ Kept(c) /\ cpu[c].ctx.pc = "count" /\ cpu'[c].ctx.pc = "open" /\ cpu'[c].ctx.held = cpu[c].ctx.held
  <2>1. PICK pc \in Taking : cpu' = GoesOn(c, pc) /\ cpu[c].ctx.pc = "count" /\ pc = "open"
    BY Zenon DEF RwCount, LockAt, Taking, Ops
  <2> QED
    BY <1>t, <2>1, GoesOnDoes, Zenon
<1>o. cpu' \in [LockCpus -> Unit] /\ \A d \in LockCpus : d # c => cpu'[d] = cpu[d]
  BY <1>e, Zenon DEF Others
<1>h. /\ Proper(cpu'[c].ctx.held) /\ Len(cpu'[c].ctx.held) = Len(cpu[c].ctx.held)
      /\ Last(cpu'[c].ctx.held, "spin") <=> Last(cpu[c].ctx.held, "spin")
      /\ First(cpu'[c].ctx.held, "read") <=> First(cpu[c].ctx.held, "read")
      /\ First(cpu'[c].ctx.held, "write") <=> First(cpu[c].ctx.held, "write")
  BY <1>c, <1>e, Zenon
<1>w. rw' \in [locked : BOOLEAN, readers : Nat] /\ rw'.locked = rw.locked /\ rw'.readers = rw.readers + 1 /\ sp' = sp
  BY <1>t DEF RwCount, CpuType
<1>1. CpuType'
  BY <1>t, <1>o, <1>h, <1>w, Zenon DEF CpuType
<1>2. InterruptsBalanced'
  <2>1. cpu'[c].depth = (IF cpu'[c].ctx.pc = "run" THEN Len(cpu'[c].ctx.held) ELSE Len(cpu'[c].ctx.held) + 1)
    <3>1. cpu'[c].ctx.pc = "run" => cpu'[c].depth = Len(cpu'[c].ctx.held)
      BY <1>c, <1>d, <1>e, <1>h, Zenon DEF Kept, Popped, Ops
    <3>2. cpu'[c].ctx.pc # "run" => cpu'[c].depth = Len(cpu'[c].ctx.held) + 1
      BY <1>c, <1>d, <1>e, <1>h, Zenon DEF Kept, Popped, Ops
    <3> QED
      BY <3>1, <3>2, Zenon
  <2>2. cpu'[c].enabled <=> cpu'[c].depth = 0 /\ ~cpu'[c].irq
    BY <1>c, <1>n, <1>e, <1>h, Zenon DEF Kept, Popped
  <2> QED
    BY <1>t, <1>o, <2>1, <2>2, Zenon DEF InterruptsBalanced, LockAt
<1>3. NestInv'
  <2>1. /\ cpu'[c].ctx.pc \in Taking \ {"spin", "try"} => Len(cpu'[c].ctx.held) = 0
        /\ cpu'[c].ctx.pc \in {"spin", "try"} =>
              Len(cpu'[c].ctx.held) = 0 \/ (Len(cpu'[c].ctx.held) = 1 /\ cpu'[c].ctx.held[1] # "spin")
    BY <1>n, <1>e, <1>h, Zenon DEF Taking, Ops
  <2>2. cpu'[c].depth > 0 => (cpu'[c].orig <=> ~cpu'[c].irq)
    BY <1>c, <1>n, <1>d, <1>b, <1>e, Zenon DEF Kept, Popped
  <2>3. cpu'[c].saved.pc = "run" /\ cpu'[c].saved.held = <<>>
    BY <1>c, <1>n, <1>e, <1>h, Zenon DEF Kept, Popped
  <2> QED
    BY <1>t, <1>o, <2>1, <2>2, <2>3, Zenon DEF NestInv
<1>4. SpinInv'
  BY <1>t, <1>n, <1>z, <1>o, <1>e, <1>h, <1>w, Zenon DEF SpinInv, HasSpin
<1>5. OwnerInv'
  BY <1>t, <1>n, <1>z, <1>o, <1>e, <1>h, <1>w, SMTT(30) DEF OwnerInv, Owns, Writes, Taking, Ops
<1>6. ReaderInv'
  <2>1. Readers' = Readers \cup {c} /\ c \notin Readers
    BY <1>n, <1>z, <1>o, <1>e, <1>h, Zenon DEF Readers, Reads, Taking, Ops
  <2>2. IsFiniteSet(Readers)
    BY LocksAssumption, FS_Subset, Zenon DEF Readers
  <2>3. Cardinality(Readers \cup {c}) = Cardinality(Readers) + 1
    BY <2>1, <2>2, FS_AddElement, ZenonT(30)
  <2>4. \A d \in LockCpus : ~First(cpu'[d].ctx.held, "write")
    BY <1>t, <1>n, <1>z, <1>o, <1>e, <1>h, Zenon DEF OwnerInv, Owns, Writes, Taking, Ops
  <2> QED
    BY <1>t, <1>w, <2>1, <2>3, <2>4, Zenon DEF ReaderInv, Writes
<1> QED
  BY <1>1, <1>2, <1>3, <1>4, <1>5, <1>6, Zenon DEF CpuInv

LEMMA RwOpenStep ==
    ASSUME CpuInv, NEW c \in LockCpus, RwOpen(c)
    PROVE  CpuInv'
<1>t. CpuType /\ InterruptsBalanced /\ NestInv /\ SpinInv /\ OwnerInv /\ ReaderInv
  BY Zenon DEF CpuInv
<1>c. /\ cpu[c].depth = (IF cpu[c].ctx.pc = "run" THEN Len(cpu[c].ctx.held) ELSE Len(cpu[c].ctx.held) + 1)
      /\ cpu[c].enabled <=> cpu[c].depth = 0 /\ ~cpu[c].irq
      /\ Proper(cpu[c].ctx.held) /\ Len(cpu[c].ctx.held) \in 0..2 /\ cpu[c].ctx.held \in Seq(Modes)
      /\ cpu[c].depth \in Nat
  <2>1. cpu[c] \in Unit /\ Proper(cpu[c].ctx.held)
    BY <1>t, Zenon DEF CpuType
  <2>2. cpu[c].depth \in Nat
    BY <2>1, Zenon DEF Unit
  <2> QED
    BY <1>t, <2>1, <2>2, Zenon DEF InterruptsBalanced, Proper, LockAt
<1>d. /\ cpu[c].ctx.pc = "run" => cpu[c].depth = Len(cpu[c].ctx.held)
      /\ cpu[c].ctx.pc # "run" => cpu[c].depth = Len(cpu[c].ctx.held) + 1
      /\ cpu[c].depth = 0 => cpu[c].ctx.pc = "run" /\ Len(cpu[c].ctx.held) = 0
  BY <1>c
<1>b. cpu[c].enabled => cpu[c].depth = 0 /\ ~cpu[c].irq
  BY <1>c, Zenon
<1>n. /\ cpu[c].ctx.pc \in Taking \ {"spin", "try"} => Len(cpu[c].ctx.held) = 0
      /\ cpu[c].ctx.pc \in {"spin", "try"} =>
              Len(cpu[c].ctx.held) = 0 \/ (Len(cpu[c].ctx.held) = 1 /\ cpu[c].ctx.held[1] # "spin")
      /\ cpu[c].depth > 0 => (cpu[c].orig <=> ~cpu[c].irq)
      /\ cpu[c].saved.pc = "run" /\ cpu[c].saved.held = <<>>
  BY <1>t, Zenon DEF NestInv
<1>z. Len(cpu[c].ctx.held) = 0 => ~First(cpu[c].ctx.held, "read") /\ ~First(cpu[c].ctx.held, "write") /\ ~Last(cpu[c].ctx.held, "spin")
  BY DEF First, Last
<1>e. Others(c) /\ Kept(c) /\ cpu[c].ctx.pc = "open" /\ cpu'[c].ctx.pc = "run"
      /\ cpu'[c].ctx.held = Append(cpu[c].ctx.held, "read")
  <2>1. cpu' = Got(c, "read") /\ cpu[c].ctx.pc = "open"
    BY Zenon DEF RwOpen, LockAt
  <2>2. "read" \in Modes
    BY Zenon DEF Modes
  <2> QED
    BY <1>t, <2>1, <2>2, GotDoes, Zenon
<1>o. cpu' \in [LockCpus -> Unit] /\ \A d \in LockCpus : d # c => cpu'[d] = cpu[d]
  BY <1>e, Zenon DEF Others
<1>h. /\ Proper(cpu'[c].ctx.held) /\ Len(cpu'[c].ctx.held) = Len(cpu[c].ctx.held) + 1
      /\ ~Last(cpu'[c].ctx.held, "spin") /\ ~Last(cpu[c].ctx.held, "spin")
      /\ First(cpu'[c].ctx.held, "read")
      /\ First(cpu'[c].ctx.held, "write") <=> First(cpu[c].ctx.held, "write")
  <2>1. Len(cpu[c].ctx.held) = 0 \/ ("read" = "spin" /\ Len(cpu[c].ctx.held) = 1 /\ cpu[c].ctx.held[1] # "spin")
    BY <1>n, <1>e, Zenon DEF Taking, Ops
  <2>2. "read" \in Modes
    BY Zenon DEF Modes
  <2> QED
    BY <1>c, <1>z, <1>e, <2>1, <2>2, Take, SMTT(30)
<1>w. rw' \in [locked : BOOLEAN, readers : Nat] /\ ~rw'.locked /\ rw'.readers = rw.readers /\ sp' = sp
  BY <1>t, ZenonT(30) DEF RwOpen, CpuType
<1>1. CpuType'
  BY <1>t, <1>o, <1>h, <1>w, Zenon DEF CpuType
<1>2. InterruptsBalanced'
  <2>1. cpu'[c].depth = (IF cpu'[c].ctx.pc = "run" THEN Len(cpu'[c].ctx.held) ELSE Len(cpu'[c].ctx.held) + 1)
    <3>1. cpu'[c].ctx.pc = "run" => cpu'[c].depth = Len(cpu'[c].ctx.held)
      BY <1>c, <1>d, <1>e, <1>h, Zenon DEF Kept, Popped, Ops
    <3>2. cpu'[c].ctx.pc # "run" => cpu'[c].depth = Len(cpu'[c].ctx.held) + 1
      BY <1>c, <1>d, <1>e, <1>h, Zenon DEF Kept, Popped, Ops
    <3> QED
      BY <3>1, <3>2, Zenon
  <2>2. cpu'[c].enabled <=> cpu'[c].depth = 0 /\ ~cpu'[c].irq
    BY <1>c, <1>n, <1>e, <1>h, Zenon DEF Kept, Popped
  <2> QED
    BY <1>t, <1>o, <2>1, <2>2, Zenon DEF InterruptsBalanced, LockAt
<1>3. NestInv'
  <2>1. /\ cpu'[c].ctx.pc \in Taking \ {"spin", "try"} => Len(cpu'[c].ctx.held) = 0
        /\ cpu'[c].ctx.pc \in {"spin", "try"} =>
              Len(cpu'[c].ctx.held) = 0 \/ (Len(cpu'[c].ctx.held) = 1 /\ cpu'[c].ctx.held[1] # "spin")
    BY <1>n, <1>e, <1>h, Zenon DEF Taking, Ops
  <2>2. cpu'[c].depth > 0 => (cpu'[c].orig <=> ~cpu'[c].irq)
    BY <1>c, <1>n, <1>d, <1>b, <1>e, Zenon DEF Kept, Popped
  <2>3. cpu'[c].saved.pc = "run" /\ cpu'[c].saved.held = <<>>
    BY <1>c, <1>n, <1>e, <1>h, Zenon DEF Kept, Popped
  <2> QED
    BY <1>t, <1>o, <2>1, <2>2, <2>3, Zenon DEF NestInv
<1>4. SpinInv'
  BY <1>t, <1>n, <1>z, <1>o, <1>e, <1>h, <1>w, Zenon DEF SpinInv, HasSpin
<1>5. OwnerInv'
  BY <1>t, <1>n, <1>z, <1>o, <1>e, <1>h, <1>w, Zenon DEF OwnerInv, Owns, Writes, Taking, Ops
<1>6. ReaderInv'
  <2>1. Readers' = Readers
    BY <1>n, <1>z, <1>o, <1>e, <1>h, Zenon DEF Readers, Reads, Taking, Ops
  <2> QED
    BY <1>t, <1>n, <1>z, <1>o, <1>e, <1>h, <1>w, <2>1, Zenon DEF ReaderInv, Writes
<1> QED
  BY <1>1, <1>2, <1>3, <1>4, <1>5, <1>6, Zenon DEF CpuInv

LEMMA RwDrainStep ==
    ASSUME CpuInv, NEW c \in LockCpus, RwDrain(c)
    PROVE  CpuInv'
<1>t. CpuType /\ InterruptsBalanced /\ NestInv /\ SpinInv /\ OwnerInv /\ ReaderInv
  BY Zenon DEF CpuInv
<1>c. /\ cpu[c].depth = (IF cpu[c].ctx.pc = "run" THEN Len(cpu[c].ctx.held) ELSE Len(cpu[c].ctx.held) + 1)
      /\ cpu[c].enabled <=> cpu[c].depth = 0 /\ ~cpu[c].irq
      /\ Proper(cpu[c].ctx.held) /\ Len(cpu[c].ctx.held) \in 0..2 /\ cpu[c].ctx.held \in Seq(Modes)
      /\ cpu[c].depth \in Nat
  <2>1. cpu[c] \in Unit /\ Proper(cpu[c].ctx.held)
    BY <1>t, Zenon DEF CpuType
  <2>2. cpu[c].depth \in Nat
    BY <2>1, Zenon DEF Unit
  <2> QED
    BY <1>t, <2>1, <2>2, Zenon DEF InterruptsBalanced, Proper, LockAt
<1>d. /\ cpu[c].ctx.pc = "run" => cpu[c].depth = Len(cpu[c].ctx.held)
      /\ cpu[c].ctx.pc # "run" => cpu[c].depth = Len(cpu[c].ctx.held) + 1
      /\ cpu[c].depth = 0 => cpu[c].ctx.pc = "run" /\ Len(cpu[c].ctx.held) = 0
  BY <1>c
<1>b. cpu[c].enabled => cpu[c].depth = 0 /\ ~cpu[c].irq
  BY <1>c, Zenon
<1>n. /\ cpu[c].ctx.pc \in Taking \ {"spin", "try"} => Len(cpu[c].ctx.held) = 0
      /\ cpu[c].ctx.pc \in {"spin", "try"} =>
              Len(cpu[c].ctx.held) = 0 \/ (Len(cpu[c].ctx.held) = 1 /\ cpu[c].ctx.held[1] # "spin")
      /\ cpu[c].depth > 0 => (cpu[c].orig <=> ~cpu[c].irq)
      /\ cpu[c].saved.pc = "run" /\ cpu[c].saved.held = <<>>
  BY <1>t, Zenon DEF NestInv
<1>z. Len(cpu[c].ctx.held) = 0 => ~First(cpu[c].ctx.held, "read") /\ ~First(cpu[c].ctx.held, "write") /\ ~Last(cpu[c].ctx.held, "spin")
  BY DEF First, Last
<1>e. Others(c) /\ Kept(c) /\ cpu[c].ctx.pc = "drain" /\ cpu'[c].ctx.pc = "run"
      /\ cpu'[c].ctx.held = Append(cpu[c].ctx.held, "write")
  <2>1. cpu' = Got(c, "write") /\ cpu[c].ctx.pc = "drain"
    BY Zenon DEF RwDrain, LockAt
  <2>2. "write" \in Modes
    BY Zenon DEF Modes
  <2> QED
    BY <1>t, <2>1, <2>2, GotDoes, Zenon
<1>o. cpu' \in [LockCpus -> Unit] /\ \A d \in LockCpus : d # c => cpu'[d] = cpu[d]
  BY <1>e, Zenon DEF Others
<1>h. /\ Proper(cpu'[c].ctx.held) /\ Len(cpu'[c].ctx.held) = Len(cpu[c].ctx.held) + 1
      /\ ~Last(cpu'[c].ctx.held, "spin") /\ ~Last(cpu[c].ctx.held, "spin")
      /\ First(cpu'[c].ctx.held, "read") <=> First(cpu[c].ctx.held, "read")
      /\ First(cpu'[c].ctx.held, "write")
  <2>1. Len(cpu[c].ctx.held) = 0 \/ ("write" = "spin" /\ Len(cpu[c].ctx.held) = 1 /\ cpu[c].ctx.held[1] # "spin")
    BY <1>n, <1>e, Zenon DEF Taking, Ops
  <2>2. "write" \in Modes
    BY Zenon DEF Modes
  <2> QED
    BY <1>c, <1>z, <1>e, <2>1, <2>2, Take, SMTT(30)
<1>w. rw' = rw /\ sp' = sp /\ rw.readers = 0
  BY <1>t, Zenon DEF RwDrain, CpuType
<1>1. CpuType'
  BY <1>t, <1>o, <1>h, <1>w, Zenon DEF CpuType
<1>2. InterruptsBalanced'
  <2>1. cpu'[c].depth = (IF cpu'[c].ctx.pc = "run" THEN Len(cpu'[c].ctx.held) ELSE Len(cpu'[c].ctx.held) + 1)
    <3>1. cpu'[c].ctx.pc = "run" => cpu'[c].depth = Len(cpu'[c].ctx.held)
      BY <1>c, <1>d, <1>e, <1>h, Zenon DEF Kept, Popped, Ops
    <3>2. cpu'[c].ctx.pc # "run" => cpu'[c].depth = Len(cpu'[c].ctx.held) + 1
      BY <1>c, <1>d, <1>e, <1>h, Zenon DEF Kept, Popped, Ops
    <3> QED
      BY <3>1, <3>2, Zenon
  <2>2. cpu'[c].enabled <=> cpu'[c].depth = 0 /\ ~cpu'[c].irq
    BY <1>c, <1>n, <1>e, <1>h, Zenon DEF Kept, Popped
  <2> QED
    BY <1>t, <1>o, <2>1, <2>2, Zenon DEF InterruptsBalanced, LockAt
<1>3. NestInv'
  <2>1. /\ cpu'[c].ctx.pc \in Taking \ {"spin", "try"} => Len(cpu'[c].ctx.held) = 0
        /\ cpu'[c].ctx.pc \in {"spin", "try"} =>
              Len(cpu'[c].ctx.held) = 0 \/ (Len(cpu'[c].ctx.held) = 1 /\ cpu'[c].ctx.held[1] # "spin")
    BY <1>n, <1>e, <1>h, Zenon DEF Taking, Ops
  <2>2. cpu'[c].depth > 0 => (cpu'[c].orig <=> ~cpu'[c].irq)
    BY <1>c, <1>n, <1>d, <1>b, <1>e, Zenon DEF Kept, Popped
  <2>3. cpu'[c].saved.pc = "run" /\ cpu'[c].saved.held = <<>>
    BY <1>c, <1>n, <1>e, <1>h, Zenon DEF Kept, Popped
  <2> QED
    BY <1>t, <1>o, <2>1, <2>2, <2>3, Zenon DEF NestInv
<1>4. SpinInv'
  BY <1>t, <1>n, <1>z, <1>o, <1>e, <1>h, <1>w, Zenon DEF SpinInv, HasSpin
<1>5. OwnerInv'
  BY <1>t, <1>n, <1>z, <1>o, <1>e, <1>h, <1>w, ZenonT(30) DEF OwnerInv, Owns, Writes, Taking, Ops
<1>6. ReaderInv'
  <2>1. Readers' = Readers
    BY <1>n, <1>z, <1>o, <1>e, <1>h, Zenon DEF Readers, Reads, Taking, Ops
  <2>2. Readers = {}
    <3>1. IsFiniteSet(Readers)
      BY LocksAssumption, FS_Subset, Zenon DEF Readers
    <3> QED
      BY <1>t, <1>w, <3>1, FS_EmptySet, ZenonT(30) DEF ReaderInv
  <2> QED
    BY <1>t, <1>w, <2>1, <2>2, Zenon DEF ReaderInv
<1> QED
  BY <1>1, <1>2, <1>3, <1>4, <1>5, <1>6, Zenon DEF CpuInv

LEMMA InterruptedStep ==
    ASSUME CpuInv, NEW c \in LockCpus, Interrupted(c)
    PROVE  CpuInv'
<1>t. CpuType /\ InterruptsBalanced /\ NestInv /\ SpinInv /\ OwnerInv /\ ReaderInv
  BY Zenon DEF CpuInv
<1>c. /\ cpu[c].depth = (IF cpu[c].ctx.pc = "run" THEN Len(cpu[c].ctx.held) ELSE Len(cpu[c].ctx.held) + 1)
      /\ cpu[c].enabled <=> cpu[c].depth = 0 /\ ~cpu[c].irq
      /\ Proper(cpu[c].ctx.held) /\ Len(cpu[c].ctx.held) \in 0..2 /\ cpu[c].ctx.held \in Seq(Modes)
      /\ cpu[c].depth \in Nat
  <2>1. cpu[c] \in Unit /\ Proper(cpu[c].ctx.held)
    BY <1>t, Zenon DEF CpuType
  <2>2. cpu[c].depth \in Nat
    BY <2>1, Zenon DEF Unit
  <2> QED
    BY <1>t, <2>1, <2>2, Zenon DEF InterruptsBalanced, Proper, LockAt
<1>d. /\ cpu[c].ctx.pc = "run" => cpu[c].depth = Len(cpu[c].ctx.held)
      /\ cpu[c].ctx.pc # "run" => cpu[c].depth = Len(cpu[c].ctx.held) + 1
      /\ cpu[c].depth = 0 => cpu[c].ctx.pc = "run" /\ Len(cpu[c].ctx.held) = 0
  BY <1>c
<1>b. cpu[c].enabled => cpu[c].depth = 0 /\ ~cpu[c].irq
  BY <1>c, Zenon
<1>n. /\ cpu[c].ctx.pc \in Taking \ {"spin", "try"} => Len(cpu[c].ctx.held) = 0
      /\ cpu[c].ctx.pc \in {"spin", "try"} =>
              Len(cpu[c].ctx.held) = 0 \/ (Len(cpu[c].ctx.held) = 1 /\ cpu[c].ctx.held[1] # "spin")
      /\ cpu[c].depth > 0 => (cpu[c].orig <=> ~cpu[c].irq)
      /\ cpu[c].saved.pc = "run" /\ cpu[c].saved.held = <<>>
  BY <1>t, Zenon DEF NestInv
<1>z. Len(cpu[c].ctx.held) = 0 => ~First(cpu[c].ctx.held, "read") /\ ~First(cpu[c].ctx.held, "write") /\ ~Last(cpu[c].ctx.held, "spin")
  BY DEF First, Last
<1>e. /\ Others(c) /\ cpu[c].enabled /\ ~cpu[c].irq /\ ~cpu'[c].enabled /\ cpu'[c].irq
      /\ cpu'[c].saved = cpu[c].ctx /\ cpu'[c].ctx.pc = "run" /\ cpu'[c].ctx.held = <<>>
      /\ cpu'[c].depth = cpu[c].depth /\ cpu'[c].orig = cpu[c].orig
  BY <1>t, InterruptedDoes, IdleIs, Zenon
<1>o. cpu' \in [LockCpus -> Unit] /\ \A d \in LockCpus : d # c => cpu'[d] = cpu[d]
  BY <1>e, Zenon DEF Others
<1>h. /\ Proper(cpu'[c].ctx.held) /\ Len(cpu'[c].ctx.held) = 0 /\ Len(cpu[c].ctx.held) = 0
      /\ ~Last(cpu'[c].ctx.held, "spin") /\ ~First(cpu'[c].ctx.held, "read") /\ ~First(cpu'[c].ctx.held, "write") /\ cpu[c].ctx.held = <<>> /\ cpu[c].ctx.pc = "run"
  <2>1. cpu[c].depth = 0 /\ cpu[c].ctx.pc = "run" /\ Len(cpu[c].ctx.held) = 0
    BY <1>d, <1>b, <1>e, Zenon
  <2>2. cpu[c].ctx.held = <<>>
    BY <1>c, <2>1
  <2>3. <<>> \in Seq(Modes) /\ Len(<<>>) = 0
    OBVIOUS
  <2> QED
    BY <1>e, <2>1, <2>2, <2>3 DEF Proper, First, Last
<1>w. rw' = rw /\ sp' = sp
  BY Zenon DEF Interrupted
<1>1. CpuType'
  BY <1>t, <1>o, <1>h, <1>w, Zenon DEF CpuType
<1>2. InterruptsBalanced'
  <2>1. cpu'[c].depth = (IF cpu'[c].ctx.pc = "run" THEN Len(cpu'[c].ctx.held) ELSE Len(cpu'[c].ctx.held) + 1)
    <3>1. cpu'[c].ctx.pc = "run" => cpu'[c].depth = Len(cpu'[c].ctx.held)
      BY <1>c, <1>d, <1>e, <1>h, Zenon DEF Kept, Popped, Ops
    <3>2. cpu'[c].ctx.pc # "run" => cpu'[c].depth = Len(cpu'[c].ctx.held) + 1
      BY <1>c, <1>d, <1>e, <1>h, Zenon DEF Kept, Popped, Ops
    <3> QED
      BY <3>1, <3>2, Zenon
  <2>2. cpu'[c].enabled <=> cpu'[c].depth = 0 /\ ~cpu'[c].irq
    BY <1>c, <1>n, <1>e, <1>h, Zenon DEF Kept, Popped
  <2> QED
    BY <1>t, <1>o, <2>1, <2>2, Zenon DEF InterruptsBalanced, LockAt
<1>3. NestInv'
  <2>1. /\ cpu'[c].ctx.pc \in Taking \ {"spin", "try"} => Len(cpu'[c].ctx.held) = 0
        /\ cpu'[c].ctx.pc \in {"spin", "try"} =>
              Len(cpu'[c].ctx.held) = 0 \/ (Len(cpu'[c].ctx.held) = 1 /\ cpu'[c].ctx.held[1] # "spin")
    BY <1>n, <1>e, <1>h, Zenon DEF Taking, Ops
  <2>2. cpu'[c].depth > 0 => (cpu'[c].orig <=> ~cpu'[c].irq)
    BY <1>c, <1>n, <1>d, <1>b, <1>e DEF Kept, Popped
  <2>3. cpu'[c].saved.pc = "run" /\ cpu'[c].saved.held = <<>>
    BY <1>c, <1>n, <1>e, <1>h, Zenon DEF Kept, Popped
  <2> QED
    BY <1>t, <1>o, <2>1, <2>2, <2>3, Zenon DEF NestInv
<1>4. SpinInv'
  BY <1>t, <1>n, <1>z, <1>o, <1>e, <1>h, <1>w, Zenon DEF SpinInv, HasSpin
<1>5. OwnerInv'
  BY <1>t, <1>n, <1>z, <1>o, <1>e, <1>h, <1>w, Zenon DEF OwnerInv, Owns, Writes, Taking, Ops
<1>6. ReaderInv'
  <2>1. Readers' = Readers
    BY <1>n, <1>z, <1>o, <1>e, <1>h, Zenon DEF Readers, Reads, Taking, Ops
  <2> QED
    BY <1>t, <1>n, <1>z, <1>o, <1>e, <1>h, <1>w, <2>1, Zenon DEF ReaderInv, Writes
<1> QED
  BY <1>1, <1>2, <1>3, <1>4, <1>5, <1>6, Zenon DEF CpuInv

LEMMA ReturnsStep ==
    ASSUME CpuInv, NEW c \in LockCpus, Returns(c)
    PROVE  CpuInv'
<1>t. CpuType /\ InterruptsBalanced /\ NestInv /\ SpinInv /\ OwnerInv /\ ReaderInv
  BY Zenon DEF CpuInv
<1>c. /\ cpu[c].depth = (IF cpu[c].ctx.pc = "run" THEN Len(cpu[c].ctx.held) ELSE Len(cpu[c].ctx.held) + 1)
      /\ cpu[c].enabled <=> cpu[c].depth = 0 /\ ~cpu[c].irq
      /\ Proper(cpu[c].ctx.held) /\ Len(cpu[c].ctx.held) \in 0..2 /\ cpu[c].ctx.held \in Seq(Modes)
      /\ cpu[c].depth \in Nat
  <2>1. cpu[c] \in Unit /\ Proper(cpu[c].ctx.held)
    BY <1>t, Zenon DEF CpuType
  <2>2. cpu[c].depth \in Nat
    BY <2>1, Zenon DEF Unit
  <2> QED
    BY <1>t, <2>1, <2>2, Zenon DEF InterruptsBalanced, Proper, LockAt
<1>d. /\ cpu[c].ctx.pc = "run" => cpu[c].depth = Len(cpu[c].ctx.held)
      /\ cpu[c].ctx.pc # "run" => cpu[c].depth = Len(cpu[c].ctx.held) + 1
      /\ cpu[c].depth = 0 => cpu[c].ctx.pc = "run" /\ Len(cpu[c].ctx.held) = 0
  BY <1>c
<1>b. cpu[c].enabled => cpu[c].depth = 0 /\ ~cpu[c].irq
  BY <1>c, Zenon
<1>n. /\ cpu[c].ctx.pc \in Taking \ {"spin", "try"} => Len(cpu[c].ctx.held) = 0
      /\ cpu[c].ctx.pc \in {"spin", "try"} =>
              Len(cpu[c].ctx.held) = 0 \/ (Len(cpu[c].ctx.held) = 1 /\ cpu[c].ctx.held[1] # "spin")
      /\ cpu[c].depth > 0 => (cpu[c].orig <=> ~cpu[c].irq)
      /\ cpu[c].saved.pc = "run" /\ cpu[c].saved.held = <<>>
  BY <1>t, Zenon DEF NestInv
<1>z. Len(cpu[c].ctx.held) = 0 => ~First(cpu[c].ctx.held, "read") /\ ~First(cpu[c].ctx.held, "write") /\ ~Last(cpu[c].ctx.held, "spin")
  BY DEF First, Last
<1>e. /\ Others(c) /\ cpu[c].irq /\ cpu[c].ctx.pc = "run" /\ cpu[c].ctx.held = <<>>
      /\ cpu'[c].enabled /\ ~cpu'[c].irq /\ cpu'[c].ctx.pc = "run" /\ cpu'[c].ctx.held = <<>>
      /\ cpu'[c].saved.pc = "run" /\ cpu'[c].saved.held = <<>>
      /\ cpu'[c].depth = cpu[c].depth /\ cpu'[c].orig = cpu[c].orig
  BY <1>t, <1>n, ReturnsDoes, IdleIs, Zenon
<1>o. cpu' \in [LockCpus -> Unit] /\ \A d \in LockCpus : d # c => cpu'[d] = cpu[d]
  BY <1>e, Zenon DEF Others
<1>h. /\ Proper(cpu'[c].ctx.held) /\ Len(cpu'[c].ctx.held) = 0 /\ Len(cpu[c].ctx.held) = 0
      /\ ~Last(cpu'[c].ctx.held, "spin") /\ ~First(cpu'[c].ctx.held, "read") /\ ~First(cpu'[c].ctx.held, "write")
  <2>1. <<>> \in Seq(Modes) /\ Len(<<>>) = 0
    OBVIOUS
  <2> QED
    BY <1>e, <2>1 DEF Proper, First, Last
<1>w. rw' = rw /\ sp' = sp
  BY Zenon DEF Returns
<1>1. CpuType'
  BY <1>t, <1>o, <1>h, <1>w, Zenon DEF CpuType
<1>2. InterruptsBalanced'
  <2>1. cpu'[c].depth = (IF cpu'[c].ctx.pc = "run" THEN Len(cpu'[c].ctx.held) ELSE Len(cpu'[c].ctx.held) + 1)
    <3>1. cpu'[c].ctx.pc = "run" => cpu'[c].depth = Len(cpu'[c].ctx.held)
      BY <1>c, <1>d, <1>e, <1>h, Zenon DEF Kept, Popped, Ops
    <3>2. cpu'[c].ctx.pc # "run" => cpu'[c].depth = Len(cpu'[c].ctx.held) + 1
      BY <1>c, <1>d, <1>e, <1>h, Zenon DEF Kept, Popped, Ops
    <3> QED
      BY <3>1, <3>2, Zenon
  <2>2. cpu'[c].enabled <=> cpu'[c].depth = 0 /\ ~cpu'[c].irq
    BY <1>c, <1>n, <1>e, <1>h, Zenon DEF Kept, Popped
  <2> QED
    BY <1>t, <1>o, <2>1, <2>2, Zenon DEF InterruptsBalanced, LockAt
<1>3. NestInv'
  <2>1. /\ cpu'[c].ctx.pc \in Taking \ {"spin", "try"} => Len(cpu'[c].ctx.held) = 0
        /\ cpu'[c].ctx.pc \in {"spin", "try"} =>
              Len(cpu'[c].ctx.held) = 0 \/ (Len(cpu'[c].ctx.held) = 1 /\ cpu'[c].ctx.held[1] # "spin")
    BY <1>n, <1>e, <1>h, Zenon DEF Taking, Ops
  <2>2. cpu'[c].depth > 0 => (cpu'[c].orig <=> ~cpu'[c].irq)
    BY <1>c, <1>n, <1>d, <1>b, <1>e DEF Kept, Popped
  <2>3. cpu'[c].saved.pc = "run" /\ cpu'[c].saved.held = <<>>
    BY <1>c, <1>n, <1>e, <1>h, Zenon DEF Kept, Popped
  <2> QED
    BY <1>t, <1>o, <2>1, <2>2, <2>3, Zenon DEF NestInv
<1>4. SpinInv'
  BY <1>t, <1>n, <1>z, <1>o, <1>e, <1>h, <1>w, Zenon DEF SpinInv, HasSpin
<1>5. OwnerInv'
  BY <1>t, <1>n, <1>z, <1>o, <1>e, <1>h, <1>w, Zenon DEF OwnerInv, Owns, Writes, Taking, Ops
<1>6. ReaderInv'
  <2>1. Readers' = Readers
    BY <1>n, <1>z, <1>o, <1>e, <1>h, Zenon DEF Readers, Reads, Taking, Ops
  <2> QED
    BY <1>t, <1>n, <1>z, <1>o, <1>e, <1>h, <1>w, <2>1, Zenon DEF ReaderInv, Writes
<1> QED
  BY <1>1, <1>2, <1>3, <1>4, <1>5, <1>6, Zenon DEF CpuInv

LEMMA UnlockStep ==
    ASSUME CpuInv, NEW c \in LockCpus, Unlock(c)
    PROVE  CpuInv'
<1>t. CpuType /\ InterruptsBalanced /\ NestInv /\ SpinInv /\ OwnerInv /\ ReaderInv
  BY Zenon DEF CpuInv
<1>c. /\ cpu[c].depth = (IF cpu[c].ctx.pc = "run" THEN Len(cpu[c].ctx.held) ELSE Len(cpu[c].ctx.held) + 1)
      /\ cpu[c].enabled <=> cpu[c].depth = 0 /\ ~cpu[c].irq
      /\ Proper(cpu[c].ctx.held) /\ Len(cpu[c].ctx.held) \in 0..2 /\ cpu[c].ctx.held \in Seq(Modes)
      /\ cpu[c].depth \in Nat
  <2>1. cpu[c] \in Unit /\ Proper(cpu[c].ctx.held)
    BY <1>t, Zenon DEF CpuType
  <2>2. cpu[c].depth \in Nat
    BY <2>1, Zenon DEF Unit
  <2> QED
    BY <1>t, <2>1, <2>2, Zenon DEF InterruptsBalanced, Proper, LockAt
<1>d. /\ cpu[c].ctx.pc = "run" => cpu[c].depth = Len(cpu[c].ctx.held)
      /\ cpu[c].ctx.pc # "run" => cpu[c].depth = Len(cpu[c].ctx.held) + 1
      /\ cpu[c].depth = 0 => cpu[c].ctx.pc = "run" /\ Len(cpu[c].ctx.held) = 0
  BY <1>c
<1>b. cpu[c].enabled => cpu[c].depth = 0 /\ ~cpu[c].irq
  BY <1>c, Zenon
<1>n. /\ cpu[c].ctx.pc \in Taking \ {"spin", "try"} => Len(cpu[c].ctx.held) = 0
      /\ cpu[c].ctx.pc \in {"spin", "try"} =>
              Len(cpu[c].ctx.held) = 0 \/ (Len(cpu[c].ctx.held) = 1 /\ cpu[c].ctx.held[1] # "spin")
      /\ cpu[c].depth > 0 => (cpu[c].orig <=> ~cpu[c].irq)
      /\ cpu[c].saved.pc = "run" /\ cpu[c].saved.held = <<>>
  BY <1>t, Zenon DEF NestInv
<1>z. Len(cpu[c].ctx.held) = 0 => ~First(cpu[c].ctx.held, "read") /\ ~First(cpu[c].ctx.held, "write") /\ ~Last(cpu[c].ctx.held, "spin")
  BY DEF First, Last
<1>e. /\ Others(c) /\ Popped(c) /\ cpu[c].ctx.pc = "run" /\ cpu'[c].ctx.pc = "run"
      /\ cpu[c].ctx.held # <<>> /\ cpu'[c].ctx.held = Less(cpu[c].ctx.held)
  <2>0. cpu[c].ctx.held # <<>> /\ cpu[c].ctx.pc = "run"
    BY Zenon DEF Unlock, LockAt
  <2>1. Len(cpu[c].ctx.held) > 0 /\ cpu[c].depth > 0
    BY <1>c, <1>d, <2>0, Give, Zenon
  <2> QED
    BY <1>t, <1>c, <2>1, UnlockDoes, Zenon
<1>o. cpu' \in [LockCpus -> Unit] /\ \A d \in LockCpus : d # c => cpu'[d] = cpu[d]
  BY <1>e, Zenon DEF Others
<1>h. /\ Proper(cpu'[c].ctx.held) /\ Len(cpu'[c].ctx.held) = Len(cpu[c].ctx.held) - 1 /\ Len(cpu[c].ctx.held) > 0
      /\ ~Last(cpu'[c].ctx.held, "spin")
      /\ First(cpu[c].ctx.held, "read") <=> First(cpu'[c].ctx.held, "read") \/ Last(cpu[c].ctx.held, "read")
      /\ First(cpu[c].ctx.held, "write") <=> First(cpu'[c].ctx.held, "write") \/ Last(cpu[c].ctx.held, "write")
      /\ ~(First(cpu'[c].ctx.held, "read") /\ Last(cpu[c].ctx.held, "read"))
      /\ ~(First(cpu'[c].ctx.held, "write") /\ Last(cpu[c].ctx.held, "write"))
  <2>1. PICK h : h = cpu[c].ctx.held /\ Proper(h) /\ h # <<>>
    BY <1>c, <1>e, Zenon
  <2>2. /\ Len(h) > 0 /\ Proper(Less(h)) /\ Len(Less(h)) = Len(h) - 1 /\ ~Last(Less(h), "spin")
        /\ \A k \in {"read", "write"} : First(h, k) <=> First(Less(h), k) \/ Last(h, k)
        /\ \A k \in {"read", "write"} : ~(First(Less(h), k) /\ Last(h, k))
    BY <2>1, Give
  <2> QED
    BY <1>e, <2>1, <2>2, Zenon
<1>w. /\ rw' \in [locked : BOOLEAN, readers : Nat] /\ sp' \in BOOLEAN
      /\ sp' <=> sp /\ ~Last(cpu[c].ctx.held, "spin")
      /\ rw'.locked <=> rw.locked /\ ~Last(cpu[c].ctx.held, "write")
      /\ rw'.readers = IF Last(cpu[c].ctx.held, "read") THEN rw.readers - 1 ELSE rw.readers
  <2>1. PICK m \in Modes : m = cpu[c].ctx.held[Len(cpu[c].ctx.held)]
    BY <1>c, <1>h, SMTT(30)
  <2>2. \A k \in Modes : Last(cpu[c].ctx.held, k) <=> m = k
    BY <1>h, <2>1, Zenon DEF Last
  <2>3. "read" \in Modes /\ "write" \in Modes /\ "spin" \in Modes
    BY Zenon DEF Modes
  <2>4. rw \in [locked : BOOLEAN, readers : Nat] /\ sp \in BOOLEAN
    BY <1>t, Zenon DEF CpuType
  <2>5. sp' = (sp /\ m # "spin")
    BY <2>1, Zenon DEF Unlock
  <2>6. CASE m = "read"
    <3>1. rw' = [rw EXCEPT !.readers = rw.readers - 1]
      BY <2>1, <2>6, Zenon DEF Unlock
    <3>2. c \in Readers
      BY <1>h, <2>2, <2>3, <2>6, Zenon DEF Readers, Reads
    <3>3. rw.readers # 0
      BY <1>t, <3>2, LocksAssumption, FS_Subset, FS_EmptySet, Zenon DEF ReaderInv, Readers
    <3>4. rw.readers - 1 \in Nat
      BY <2>4, <3>3
    <3>5. rw' \in [locked : BOOLEAN, readers : Nat] /\ rw'.locked = rw.locked /\ rw'.readers = rw.readers - 1
      BY <2>4, <3>1, <3>4, Zenon
    <3> QED
      BY <2>2, <2>3, <2>4, <2>5, <2>6, <3>5, Zenon
  <2>7. CASE m = "write"
    <3>1. rw' = [rw EXCEPT !.locked = FALSE]
      BY <2>1, <2>7, Zenon DEF Unlock
    <3> QED
      BY <2>2, <2>3, <2>4, <2>5, <2>7, <3>1, Zenon
  <2>8. CASE m = "spin"
    <3>1. rw' = rw
      BY <2>1, <2>8, Zenon DEF Unlock
    <3> QED
      BY <2>2, <2>3, <2>4, <2>5, <2>8, <3>1, Zenon
  <2> QED
    BY <2>1, <2>6, <2>7, <2>8, Zenon DEF Modes
<1>1. CpuType'
  BY <1>t, <1>o, <1>h, <1>w, Zenon DEF CpuType
<1>2. InterruptsBalanced'
  <2>1. cpu'[c].depth = (IF cpu'[c].ctx.pc = "run" THEN Len(cpu'[c].ctx.held) ELSE Len(cpu'[c].ctx.held) + 1)
    <3>1. cpu'[c].ctx.pc = "run" => cpu'[c].depth = Len(cpu'[c].ctx.held)
      BY <1>c, <1>d, <1>e, <1>h, Zenon DEF Kept, Popped, Ops
    <3>2. cpu'[c].ctx.pc # "run" => cpu'[c].depth = Len(cpu'[c].ctx.held) + 1
      BY <1>c, <1>d, <1>e, <1>h, Zenon DEF Kept, Popped, Ops
    <3> QED
      BY <3>1, <3>2, Zenon
  <2>2. cpu'[c].enabled <=> cpu'[c].depth = 0 /\ ~cpu'[c].irq
    BY <1>c, <1>n, <1>e, <1>h, SMTT(30) DEF Kept, Popped
  <2> QED
    BY <1>t, <1>o, <2>1, <2>2, Zenon DEF InterruptsBalanced, LockAt
<1>3. NestInv'
  <2>1. /\ cpu'[c].ctx.pc \in Taking \ {"spin", "try"} => Len(cpu'[c].ctx.held) = 0
        /\ cpu'[c].ctx.pc \in {"spin", "try"} =>
              Len(cpu'[c].ctx.held) = 0 \/ (Len(cpu'[c].ctx.held) = 1 /\ cpu'[c].ctx.held[1] # "spin")
    BY <1>n, <1>e, <1>h, Zenon DEF Taking, Ops
  <2>2. cpu'[c].depth > 0 => (cpu'[c].orig <=> ~cpu'[c].irq)
    BY <1>c, <1>n, <1>d, <1>b, <1>e, SMTT(30) DEF Kept, Popped
  <2>3. cpu'[c].saved.pc = "run" /\ cpu'[c].saved.held = <<>>
    BY <1>c, <1>n, <1>e, <1>h, Zenon DEF Kept, Popped
  <2> QED
    BY <1>t, <1>o, <2>1, <2>2, <2>3, Zenon DEF NestInv
<1>4. SpinInv'
  BY <1>t, <1>n, <1>z, <1>o, <1>e, <1>h, <1>w, Zenon DEF SpinInv, HasSpin
<1>5. OwnerInv'
  BY <1>t, <1>n, <1>z, <1>o, <1>e, <1>h, <1>w, ZenonT(30) DEF OwnerInv, Owns, Writes, Taking, Ops
<1>6. ReaderInv'
  <2>1. CASE Last(cpu[c].ctx.held, "read")
    <3>1. Readers' = Readers \ {c} /\ c \in Readers
      BY <1>o, <1>e, <1>h, <2>1, Zenon DEF Readers, Reads
    <3>2. IsFiniteSet(Readers)
      BY LocksAssumption, FS_Subset, Zenon DEF Readers
    <3>3. Cardinality(Readers \ {c}) = Cardinality(Readers) - 1
      BY <3>1, <3>2, FS_RemoveElement, Zenon
    <3>4. \A d \in LockCpus : ~First(cpu'[d].ctx.held, "write")
      BY <1>t, <1>o, <1>h, <3>1, Zenon DEF ReaderInv, Writes
    <3> QED
      BY <1>t, <1>w, <2>1, <3>1, <3>3, <3>4, Zenon DEF ReaderInv, Writes
  <2>2. CASE ~Last(cpu[c].ctx.held, "read")
    <3>1. Readers' = Readers
      BY <1>o, <1>e, <1>h, <2>2, Zenon DEF Readers, Reads
    <3> QED
      BY <1>t, <1>o, <1>h, <1>w, <2>2, <3>1, Zenon DEF ReaderInv, Writes
  <2> QED
    BY <2>1, <2>2, Zenon
<1> QED
  BY <1>1, <1>2, <1>3, <1>4, <1>5, <1>6, Zenon DEF CpuInv

-----------------------------------------------------------------------------
(* The steps of the threads.                                               *)
Only(t, pc) == /\ thr' \in [LockThreads -> Thread]
               /\ \A u \in LockThreads : thr'[u].want = thr[u].want
               /\ \A u \in LockThreads : thr'[u].pc = IF u = t THEN pc ELSE thr[u].pc
Pcs == {"out", "lock", "asleep", "hold", "try0", "try1"}

LEMMA PcOf ==
    ASSUME NEW f \in [LockThreads -> Thread], NEW t \in LockThreads, NEW pc \in Pcs
    PROVE  /\ [f EXCEPT ![t].pc = pc] \in [LockThreads -> Thread]
           /\ \A u \in LockThreads : [f EXCEPT ![t].pc = pc][u].want = f[u].want
           /\ \A u \in LockThreads : [f EXCEPT ![t].pc = pc][u].pc = IF u = t THEN pc ELSE f[u].pc
<1>1. f[t] \in Thread /\ [f[t] EXCEPT !.pc = pc] \in Thread
  BY Zenon DEF Thread, Pcs
<1>2. [f[t] EXCEPT !.pc = pc].pc = pc /\ [f[t] EXCEPT !.pc = pc].want = f[t].want
  BY <1>1, Zenon DEF Thread
<1> QED
  BY <1>1, <1>2, Zenon

LEMMA OnlyPc ==
    ASSUME ThreadType, NEW t \in LockThreads, NEW pc \in Pcs, thr' = [thr EXCEPT ![t].pc = pc]
    PROVE  Only(t, pc)
<1>1. thr \in [LockThreads -> Thread]
  BY Zenon DEF ThreadType
<1> QED
  BY <1>1, PcOf DEF Only

LEMMA WantOf ==
    ASSUME ThreadType, ThreadInv, NEW t \in LockThreads, thr[t].pc \in {"lock", "asleep", "try0", "try1"}
    PROVE  /\ thr[t].want[1] \in SleepLocks
           /\ thr[t].pc \in {"try0", "try1"} => thr[t].want[2] \in SleepLocks /\ thr[t].want[1] # thr[t].want[2]
<1>1. thr[t].want \in Seq(SleepLocks)
  BY Zenon DEF ThreadType, Thread
<1>2. Len(thr[t].want) = 1 \/ (Len(thr[t].want) = 2 /\ thr[t].want[1] # thr[t].want[2])
  BY Zenon DEF ThreadInv
<1>3. thr[t].pc \in {"try0", "try1"} => Len(thr[t].want) = 2
  BY Zenon DEF ThreadInv
<1> QED
  BY <1>1, <1>2, <1>3

LEMMA SleepUnlockDoes ==
    ASSUME ThreadType, NEW t \in LockThreads, NEW l \in SleepLocks, NEW pc \in Pcs, SleepUnlock(t, l, pc)
    PROVE  /\ thr' \in [LockThreads -> Thread]
           /\ \A u \in LockThreads : thr'[u].want = thr[u].want
           /\ \A u \in LockThreads : thr'[u].pc = IF u = t THEN pc
                                                   ELSE IF thr[u].pc = "asleep" /\ thr[u].want[1] = l THEN "lock"
                                                   ELSE thr[u].pc
           /\ slk' \in [SleepLocks -> LockThreads \cup {Nobody}]
           /\ \A m \in SleepLocks : slk'[m] = IF m = l THEN Nobody ELSE slk[m]
<1>1. \A u \in LockThreads : thr[u] \in Thread
  BY Zenon DEF ThreadType
<1>2. \A u \in LockThreads : WokenOn(l)[u] = IF thr[u].pc = "asleep" /\ thr[u].want[1] = l
                                              THEN [thr[u] EXCEPT !.pc = "lock"] ELSE thr[u]
  BY Zenon DEF WokenOn
<1>3. \A u \in LockThreads : /\ [thr[u] EXCEPT !.pc = "lock"] \in Thread
                             /\ [thr[u] EXCEPT !.pc = "lock"].pc = "lock"
                             /\ [thr[u] EXCEPT !.pc = "lock"].want = thr[u].want
  BY <1>1, Zenon DEF Thread
<1>4. PICK f : f = WokenOn(l)
  BY Zenon
<1>5. f \in [LockThreads -> Thread]
  BY <1>1, <1>3, <1>4, Zenon DEF WokenOn
<1>6. \A u \in LockThreads : /\ f[u].want = thr[u].want
                             /\ f[u].pc = IF thr[u].pc = "asleep" /\ thr[u].want[1] = l THEN "lock" ELSE thr[u].pc
  BY <1>2, <1>3, <1>4, ZenonT(30)
<1>7. thr' = [f EXCEPT ![t].pc = pc] /\ slk' = [slk EXCEPT ![l] = Nobody]
  BY <1>4, Zenon DEF SleepUnlock
<1>8. /\ thr' \in [LockThreads -> Thread]
      /\ \A u \in LockThreads : thr'[u].want = f[u].want
      /\ \A u \in LockThreads : thr'[u].pc = IF u = t THEN pc ELSE f[u].pc
  BY <1>5, <1>7, PcOf
<1>9. slk' \in [SleepLocks -> LockThreads \cup {Nobody}] /\ \A m \in SleepLocks : slk'[m] = IF m = l THEN Nobody ELSE slk[m]
  BY <1>7, Zenon DEF ThreadType
<1> QED
  BY <1>6, <1>8, <1>9, Zenon

LEMMA CallSleepLockStep ==
    ASSUME ThreadType, ThreadInv, NEW t \in LockThreads, NEW w \in Seq(SleepLocks), CallSleepLock(t, w),
           Len(w) = 1 \/ (Len(w) = 2 /\ w[1] # w[2])
    PROVE  ThreadType' /\ ThreadInv'
<1>0. PICK p \in Pcs : p = (IF Len(w) = 1 THEN "lock" ELSE "try0")
  BY Zenon DEF Pcs
<1>1. PICK r \in Thread : r.pc = p /\ r.want = w /\ r = [pc |-> p, want |-> w]
  BY Zenon DEF Thread, Pcs
<1>2. thr' = [thr EXCEPT ![t] = r] /\ slk' = slk /\ thr[t].pc = "out"
  BY <1>0, <1>1, Zenon DEF CallSleepLock
<1>3. ThreadType'
  BY <1>2, Zenon DEF ThreadType
<1>4. \A u \in LockThreads : thr'[u] = IF u = t THEN r ELSE thr[u]
  BY <1>2, Zenon DEF ThreadType
<1> QED
  BY <1>0, <1>1, <1>2, <1>3, <1>4 DEF ThreadInv

LEMMA SleepLockStep ==
    ASSUME ThreadType, ThreadInv, NEW t \in LockThreads, SleepLock(t)
    PROVE  ThreadType' /\ ThreadInv'
<1>1. PICK l \in SleepLocks : l = thr[t].want[1] /\ thr[t].pc = "lock"
  BY WantOf, Zenon DEF SleepLock
<1>2. slk \in [SleepLocks -> LockThreads \cup {Nobody}]
  BY Zenon DEF ThreadType
<1>3. CASE slk[l] # Nobody
  <2>1. thr' = [thr EXCEPT ![t].pc = "asleep"] /\ slk' = slk
    BY <1>1, <1>3, Zenon DEF SleepLock
  <2>2. Only(t, "asleep")
    BY <2>1, OnlyPc, Zenon DEF Pcs
  <2> QED
    BY <1>1, <1>2, <1>3, <2>1, <2>2 DEF Only, ThreadInv, ThreadType
<1>4. CASE slk[l] = Nobody
  <2>1. thr' = [thr EXCEPT ![t].pc = "hold"] /\ slk' = [slk EXCEPT ![l] = t]
    BY <1>1, <1>4, Zenon DEF SleepLock
  <2>2. Only(t, "hold")
    BY <2>1, OnlyPc, Zenon DEF Pcs
  <2>3. \A m \in SleepLocks : slk'[m] = IF m = l THEN t ELSE slk[m]
    BY <1>2, <2>1, Zenon
  <2>4. ThreadType'
    BY <1>2, <2>1, <2>2, Zenon DEF ThreadType, Only
  <2> QED
    BY <1>1, <1>4, <2>2, <2>3, <2>4, LocksAssumption, WantOf DEF Only, ThreadInv
<1> QED
  BY <1>3, <1>4, Zenon

LEMMA TryLock0Step ==
    ASSUME ThreadType, ThreadInv, NEW t \in LockThreads, TryLock0(t)
    PROVE  ThreadType' /\ ThreadInv'
<1>1. PICK l \in SleepLocks : l = thr[t].want[1] /\ thr[t].pc = "try0"
  BY WantOf, Zenon DEF TryLock0
<1>2. slk \in [SleepLocks -> LockThreads \cup {Nobody}]
  BY Zenon DEF ThreadType
<1>3. CASE UNCHANGED <<slk, thr>>
  BY <1>3 DEF ThreadType, ThreadInv
<1>4. CASE slk[l] = Nobody /\ thr' = [thr EXCEPT ![t].pc = "try1"] /\ slk' = [slk EXCEPT ![l] = t]
  <2>2. Only(t, "try1")
    BY <1>4, OnlyPc, Zenon DEF Pcs
  <2>3. \A m \in SleepLocks : slk'[m] = IF m = l THEN t ELSE slk[m]
    BY <1>2, <1>4, Zenon
  <2>4. ThreadType'
    BY <1>2, <1>4, <2>2, Zenon DEF ThreadType, Only
  <2> QED
    BY <1>1, <1>4, <2>2, <2>3, <2>4, LocksAssumption, WantOf DEF Only, ThreadInv
<1> QED
  BY <1>1, <1>3, <1>4, Zenon DEF TryLock0

LEMMA TryLock1Step ==
    ASSUME ThreadType, ThreadInv, NEW t \in LockThreads, TryLock1(t)
    PROVE  ThreadType' /\ ThreadInv'
<1>1. PICK l \in SleepLocks : l = thr[t].want[1] /\ thr[t].pc = "try1"
  BY WantOf, Zenon DEF TryLock1
<1>m. PICK k \in SleepLocks : k = thr[t].want[2] /\ k # l
  BY <1>1, WantOf, Zenon
<1>2. slk \in [SleepLocks -> LockThreads \cup {Nobody}]
  BY Zenon DEF ThreadType
<1>3. CASE SleepUnlock(t, l, "try0")
  <2>1. /\ thr' \in [LockThreads -> Thread]
        /\ \A u \in LockThreads : thr'[u].want = thr[u].want
        /\ \A u \in LockThreads : thr'[u].pc = IF u = t THEN "try0"
                                                ELSE IF thr[u].pc = "asleep" /\ thr[u].want[1] = l THEN "lock"
                                                ELSE thr[u].pc
        /\ slk' \in [SleepLocks -> LockThreads \cup {Nobody}]
        /\ \A m \in SleepLocks : slk'[m] = IF m = l THEN Nobody ELSE slk[m]
    BY <1>3, SleepUnlockDoes, Zenon DEF Pcs
  <2>2. slk[l] = t /\ \A m \in SleepLocks : slk[m] = t => m = l
    BY <1>1 DEF ThreadInv
  <2> QED
    BY <1>1, <2>1, <2>2, LocksAssumption, WantOf, SMTT(30) DEF ThreadType, ThreadInv
<1>4. CASE slk[k] = Nobody /\ thr' = [thr EXCEPT ![t].pc = "hold"] /\ slk' = [slk EXCEPT ![k] = t]
  <2>2. Only(t, "hold")
    BY <1>4, OnlyPc, Zenon DEF Pcs
  <2>3. \A m \in SleepLocks : slk'[m] = IF m = k THEN t ELSE slk[m]
    BY <1>2, <1>4, Zenon
  <2>4. ThreadType'
    BY <1>2, <1>4, <2>2, Zenon DEF ThreadType, Only
  <2> QED
    BY <1>1, <1>4, <2>2, <2>3, <2>4, LocksAssumption, WantOf DEF Only, ThreadInv
<1> QED
  BY <1>1, <1>m, <1>3, <1>4, Zenon DEF TryLock1

LEMMA LeaveStep ==
    ASSUME ThreadType, ThreadInv, NEW t \in LockThreads, Leave(t)
    PROVE  ThreadType' /\ ThreadInv'
<1> DEFINE O == {m \in SleepLocks : slk[m] = t}
<1>1. PICK l \in O : SleepUnlock(t, l, IF Cardinality(O) = 1 THEN "out" ELSE "hold")
  BY Zenon DEF Leave
<1>2. PICK pc \in Pcs : pc = IF Cardinality(O) = 1 THEN "out" ELSE "hold"
  BY Zenon DEF Pcs
<1>3. /\ thr' \in [LockThreads -> Thread]
      /\ \A u \in LockThreads : thr'[u].want = thr[u].want
      /\ \A u \in LockThreads : thr'[u].pc = IF u = t THEN pc
                                              ELSE IF thr[u].pc = "asleep" /\ thr[u].want[1] = l THEN "lock"
                                              ELSE thr[u].pc
      /\ slk' \in [SleepLocks -> LockThreads \cup {Nobody}]
      /\ \A m \in SleepLocks : slk'[m] = IF m = l THEN Nobody ELSE slk[m]
  <2>1. SleepUnlock(t, l, pc) /\ l \in SleepLocks
    BY <1>1, <1>2, Zenon
  <2> QED
    BY <2>1, SleepUnlockDoes
<1>4. Cardinality(O) = 1 <=> O = {l}
  <2>1. Cardinality(O) = 1 => \E x : O = {x}
    BY LocksAssumption, FS_Subset, FS_Singleton, Zenon
  <2>2. Cardinality({l}) = 1
    BY FS_Singleton, Zenon
  <2> QED
    BY <1>1, <2>1, <2>2, Zenon
<1>5. pc = "out" => \A m \in SleepLocks : slk[m] = t => m = l
  BY <1>2, <1>4, Zenon
<1>6. pc # "out" => pc = "hold" /\ \E m \in SleepLocks : slk[m] = t /\ m # l
  BY <1>1, <1>2, <1>4, Zenon
<1>7. slk[l] = t /\ l \in SleepLocks
  BY <1>1, Zenon
<1> HIDE DEF O
<1> QED
  BY <1>3, <1>5, <1>6, <1>7, LocksAssumption, WantOf, SMTT(30) DEF ThreadType, ThreadInv

-----------------------------------------------------------------------------
(* The invariant of the locks, for every number of CPUs and threads.       *)
LEMMA LocksInductive == LockSpec => []LocksInv
<1>1. LockInit => LocksInv
  <2> SUFFICES ASSUME LockInit PROVE LocksInv
    BY Zenon
  <2>1. <<>> \in Seq(Modes) /\ Len(<<>>) = 0 /\ <<>> \in Seq(SleepLocks)
    OBVIOUS
  <2> DEFINE u == [enabled |-> TRUE, depth |-> 0, orig |-> FALSE, irq |-> FALSE, saved |-> Idle, ctx |-> Idle]
  <2>2. u \in Unit
    BY IdleIs, Zenon DEF Unit
  <2>3. u.enabled /\ u.depth = 0 /\ ~u.irq /\ u.saved = Idle /\ u.ctx = Idle
    BY Zenon
  <2> HIDE DEF u
  <2>4. cpu = [c \in LockCpus |-> u]
    BY Zenon DEF LockInit, u
  <2>5. \A c \in LockCpus : cpu[c] = u /\ cpu[c].ctx.pc = "run" /\ cpu[c].ctx.held = <<>>
    BY <2>3, <2>4, IdleIs, Zenon
  <2>6. \A c \in LockCpus : ~First(cpu[c].ctx.held, "read") /\ ~First(cpu[c].ctx.held, "write") /\ ~Last(cpu[c].ctx.held, "spin")
                            /\ Proper(cpu[c].ctx.held)
    <3>1. ~First(<<>>, "read") /\ ~First(<<>>, "write") /\ ~Last(<<>>, "spin")
      BY <2>1 DEF First, Last
    <3>2. Proper(<<>>)
      BY <2>1 DEF Proper
    <3> QED
      BY <2>5, <3>1, <3>2, Zenon
  <2>7. CpuType
    <3>1. rw \in [locked : BOOLEAN, readers : Nat] /\ sp \in BOOLEAN
      BY Zenon DEF LockInit
    <3> QED
      BY <2>2, <2>4, <2>6, <3>1, Zenon DEF CpuType
  <2>8. InterruptsBalanced
    BY <2>1, <2>3, <2>5, Zenon DEF InterruptsBalanced, LockAt
  <2>9. NestInv
    BY <2>1, <2>3, <2>5, IdleIs DEF NestInv, Taking, Ops
  <2>10. SpinInv
    BY <2>6, Zenon DEF SpinInv, HasSpin, LockInit
  <2>11. OwnerInv
    BY <2>5, <2>6, Zenon DEF OwnerInv, Owns, Writes, LockInit
  <2>12. ReaderInv
    <3>1. Readers = {}
      BY <2>5, <2>6, Zenon DEF Readers, Reads
    <3> QED
      BY <3>1, FS_EmptySet, Zenon DEF ReaderInv, LockInit
  <2>13. ThreadType
    BY <2>1, Zenon DEF ThreadType, LockInit, Thread
  <2>14. ThreadInv
    BY LocksAssumption, Zenon DEF ThreadInv, LockInit
  <2> QED
    BY <2>7, <2>8, <2>9, <2>10, <2>11, <2>12, <2>13, <2>14, Zenon DEF LocksInv, CpuInv
<1>2. LocksInv /\ [CpuNext \/ ThreadNext]_lockVars => LocksInv'
  <2> SUFFICES ASSUME LocksInv, [CpuNext \/ ThreadNext]_lockVars PROVE LocksInv'
    BY Zenon
  <2>0. CpuInv /\ ThreadType /\ ThreadInv
    BY Zenon DEF LocksInv
  <2>1. ASSUME NEW c \in LockCpus, NEW op \in Ops, CallLock(c, op) PROVE LocksInv'
    BY <2>0, <2>1, CallLockStep, ZenonT(30) DEF CallLock, OnlyCpus, LocksInv, ThreadType, ThreadInv
  <2>2. ASSUME NEW c \in LockCpus, SpinLock(c) PROVE LocksInv'
    <3>1. CpuInv'
      BY <2>0, <2>2, SpinLockStep, Zenon
    <3> QED
      BY <2>0, <2>2, <3>1 DEF SpinLock, OnlyCpus, LocksInv, ThreadType, ThreadInv
  <2>3. ASSUME NEW c \in LockCpus, SpinTryLock(c) PROVE LocksInv'
    <3>1. CpuInv'
      BY <2>0, <2>3, SpinTryLockFreeStep, SpinTryLockTakenStep, Zenon
    <3> QED
      BY <2>0, <2>3, <3>1, Zenon DEF SpinTryLock, OnlyCpus, LocksInv, ThreadType, ThreadInv
  <2>4. ASSUME NEW c \in LockCpus, RwExchange(c) PROVE LocksInv'
    <3>1. CpuInv'
      BY <2>0, <2>4, RwExchangeStep, Zenon
    <3> QED
      BY <2>0, <2>4, <3>1 DEF RwExchange, OnlyCpus, LocksInv, ThreadType, ThreadInv
  <2>5. ASSUME NEW c \in LockCpus, RwCount(c) PROVE LocksInv'
    <3>1. CpuInv'
      BY <2>0, <2>5, RwCountStep, Zenon
    <3> QED
      BY <2>0, <2>5, <3>1 DEF RwCount, OnlyCpus, LocksInv, ThreadType, ThreadInv
  <2>6. ASSUME NEW c \in LockCpus, RwOpen(c) PROVE LocksInv'
    <3>1. CpuInv'
      BY <2>0, <2>6, RwOpenStep, Zenon
    <3> QED
      BY <2>0, <2>6, <3>1, Zenon DEF RwOpen, OnlyCpus, LocksInv, ThreadType, ThreadInv
  <2>7. ASSUME NEW c \in LockCpus, RwDrain(c) PROVE LocksInv'
    <3>1. CpuInv'
      BY <2>0, <2>7, RwDrainStep, Zenon
    <3> QED
      BY <2>0, <2>7, <3>1 DEF RwDrain, OnlyCpus, LocksInv, ThreadType, ThreadInv
  <2>8. ASSUME NEW c \in LockCpus, Unlock(c) PROVE LocksInv'
    <3>1. CpuInv'
      BY <2>0, <2>8, UnlockStep, Zenon
    <3> QED
      BY <2>0, <2>8, <3>1 DEF Unlock, OnlyCpus, LocksInv, ThreadType, ThreadInv
  <2>9. ASSUME NEW c \in LockCpus, Interrupted(c) PROVE LocksInv'
    <3>1. CpuInv'
      BY <2>0, <2>9, InterruptedStep, Zenon
    <3> QED
      BY <2>0, <2>9, <3>1 DEF Interrupted, OnlyCpus, LocksInv, ThreadType, ThreadInv
  <2>10. ASSUME NEW c \in LockCpus, Returns(c) PROVE LocksInv'
    <3>1. CpuInv'
      BY <2>0, <2>10, ReturnsStep, Zenon
    <3> QED
      BY <2>0, <2>10, <3>1, SMTT(30) DEF Returns, OnlyCpus, LocksInv, ThreadType, ThreadInv
  <2>11. ASSUME UNCHANGED <<rw, sp, cpu>> PROVE CpuInv'
    BY <2>0, <2>11, Zenon DEF CpuInv, CpuType, InterruptsBalanced, NestInv, SpinInv, OwnerInv, ReaderInv, Readers,
                       LockAt, HasSpin, Owns, Writes, Reads
  <2>12. ASSUME NEW t \in LockThreads, NEW l \in SleepLocks, CallSleepLock(t, <<l>>) PROVE LocksInv'
    <3>1. <<l>> \in Seq(SleepLocks) /\ Len(<<l>>) = 1
      OBVIOUS
    <3>2. ThreadType' /\ ThreadInv'
      BY <2>0, <2>12, <3>1, CallSleepLockStep, Zenon
    <3> QED
      BY <2>11, <2>12, <3>2, Zenon DEF CallSleepLock, OnlyThreads, LocksInv
  <2>13. ASSUME NEW t \in LockThreads, NEW l \in SleepLocks, NEW k \in SleepLocks, l # k, CallSleepLock(t, <<l, k>>)
         PROVE  LocksInv'
    <3>1. <<l, k>> \in Seq(SleepLocks) /\ Len(<<l, k>>) = 2 /\ <<l, k>>[1] = l /\ <<l, k>>[2] = k
      OBVIOUS
    <3>2. ThreadType' /\ ThreadInv'
      BY <2>0, <2>13, <3>1, CallSleepLockStep, Zenon
    <3> QED
      BY <2>11, <2>13, <3>2, Zenon DEF CallSleepLock, OnlyThreads, LocksInv
  <2>14. ASSUME NEW t \in LockThreads, SleepLock(t) \/ TryLock0(t) \/ TryLock1(t) \/ Leave(t) PROVE LocksInv'
    <3>1. ThreadType' /\ ThreadInv'
      BY <2>0, <2>14, SleepLockStep, TryLock0Step, TryLock1Step, LeaveStep, Zenon
    <3>2. CpuInv'
      BY <2>11, <2>14, Zenon DEF SleepLock, TryLock0, TryLock1, Leave, OnlyThreads
    <3> QED
      BY <3>1, <3>2, Zenon DEF LocksInv
  <2>15. CASE UNCHANGED lockVars
    BY <2>0, <2>11, <2>15 DEF lockVars, LocksInv, ThreadType, ThreadInv
  <2> QED
    BY <2>1, <2>2, <2>3, <2>4, <2>5, <2>6, <2>7, <2>8, <2>9, <2>10, <2>12, <2>13, <2>14, <2>15, Zenon
       DEF CpuNext, ThreadNext, Ops
<1> QED
  BY <1>1, <1>2, PTL DEF LockSpec

(* Who holds what, read off the held locks.                                *)
LEMMA HeldByIs ==
    ASSUME CpuType, NestInv, NEW c \in LockCpus
    PROVE  /\ "write" \in HeldBy(c) <=> First(cpu[c].ctx.held, "write")
           /\ "read" \in HeldBy(c) <=> First(cpu[c].ctx.held, "read")
           /\ "spin" \in HeldBy(c) <=> Last(cpu[c].ctx.held, "spin")
<1>1. cpu[c].saved.held = <<>> /\ Proper(cpu[c].ctx.held)
  BY Zenon DEF CpuType, NestInv
<1>2. PICK h : h = cpu[c].ctx.held
  BY Zenon
<1>3. h \in Seq(Modes) /\ Len(h) \in 0..2 /\ (Len(h) = 2 => h[1] # "spin" /\ h[2] = "spin")
  BY <1>1, <1>2, Zenon DEF Proper
<1>4. HeldBy(c) = {h[i] : i \in 1..Len(h)}
  <2>1. DOMAIN h = 1..Len(h)
    BY <1>3
  <2>2. DOMAIN <<>> = {}
    OBVIOUS
  <2> QED
    BY <1>1, <1>2, <2>1, <2>2, Zenon DEF HeldBy
<1>5. \A m : m \in HeldBy(c) <=> (Len(h) >= 1 /\ h[1] = m) \/ (Len(h) = 2 /\ h[2] = m)
  BY <1>3, <1>4, SMTT(30)
<1> QED
  BY <1>2, <1>3, <1>5 DEF First, Last

(* What a CPU can wait for, by where it is.                                *)
LEMMA WaitsForIs ==
    ASSUME CpuType, NestInv, NEW c \in LockCpus, NEW d \in WaitsFor(c)
    PROVE  /\ d \in LockCpus
           /\ \/ cpu[c].ctx.pc = "spin" /\ sp /\ Last(cpu[d].ctx.held, "spin")
              \/ cpu[c].ctx.pc \in {"read", "write"} /\ (First(cpu[d].ctx.held, "write") \/ cpu[d].ctx.pc \in {"count", "open", "drain"})
              \/ cpu[c].ctx.pc = "drain" /\ (First(cpu[d].ctx.held, "read") \/ cpu[d].ctx.pc = "open")
<1>1. CASE cpu[c].ctx.pc = "spin" /\ sp
  <2>1. WaitsFor(c) = {x \in LockCpus : "spin" \in HeldBy(x)}
    BY <1>1, Zenon DEF WaitsFor
  <2> QED
    BY <1>1, <2>1, HeldByIs, Zenon
<1>2. CASE cpu[c].ctx.pc \in {"read", "write"} /\ rw.locked
  <2>1. WaitsFor(c) = {x \in LockCpus : "write" \in HeldBy(x) \/ cpu[x].ctx.pc \in {"count", "open", "drain"}}
    BY <1>2, Zenon DEF WaitsFor
  <2> QED
    BY <1>2, <2>1, HeldByIs, Zenon
<1>3. CASE cpu[c].ctx.pc = "drain" /\ rw.readers > 0
  <2>1. WaitsFor(c) = {x \in LockCpus : "read" \in HeldBy(x) \/ cpu[x].ctx.pc = "open"}
    BY <1>3, Zenon DEF WaitsFor
  <2> QED
    BY <1>3, <2>1, HeldByIs, Zenon
<1>4. CASE /\ ~(cpu[c].ctx.pc = "spin" /\ sp)
           /\ ~(cpu[c].ctx.pc \in {"read", "write"} /\ rw.locked)
           /\ ~(cpu[c].ctx.pc = "drain" /\ rw.readers > 0)
  <2>1. WaitsFor(c) = {}
    BY <1>4, Zenon DEF WaitsFor
  <2> QED
    BY <2>1, Zenon
<1> QED
  BY <1>1, <1>2, <1>3, <1>4, Zenon

(* rwspin_write_lock(), rwspin_read_lock(), spin_lock(), sleep_lock(),     *)
(* sleep_lock_2() and the nesting of disabled interrupts: locks exclude,   *)
(* interrupts come back as they were, no CPU spins and no thread sleeps    *)
(* for a lock that nobody has, and no two CPUs spin for each other.        *)
THEOREM LocksAreSafe == LockSpec => []LocksSafe
<1>1. LocksInv => LocksSafe
  <2> SUFFICES ASSUME LocksInv PROVE LocksSafe
    BY Zenon
  <2>0. CpuType /\ InterruptsBalanced /\ NestInv /\ SpinInv /\ OwnerInv /\ ReaderInv /\ ThreadType /\ ThreadInv
    BY Zenon DEF LocksInv, CpuInv
  <2>1. LocksExclude
    <3>1. ASSUME NEW c \in LockCpus, NEW d \in LockCpus, c # d
          PROVE  ~("write" \in HeldBy(c) /\ HeldBy(d) \cap {"read", "write"} # {})
      <4>1. ~(Writes(c) /\ Writes(d)) /\ ~(Writes(c) /\ Reads(d))
        BY <2>0, <3>1, Zenon DEF OwnerInv, Owns, ReaderInv, Readers
      <4> QED
        BY <2>0, <4>1, HeldByIs, Zenon DEF Writes, Reads
    <3>2. ASSUME NEW c \in LockCpus, NEW d \in LockCpus, c # d PROVE ~("spin" \in HeldBy(c) /\ "spin" \in HeldBy(d))
      BY <2>0, <3>2, HeldByIs, Zenon DEF SpinInv, HasSpin
    <3>3. \A c \in LockCpus : cpu[c].saved.held = <<>>
      BY <2>0, Zenon DEF NestInv
    <3> QED
      BY <3>1, <3>2, <3>3, Zenon DEF LocksExclude
  <2>2. SpinsEnd
    <3>0. ASSUME NEW c \in LockCpus
          PROVE  /\ cpu[c].ctx.pc \in {"read", "write", "count", "open", "drain"} =>
                       ~First(cpu[c].ctx.held, "read") /\ ~First(cpu[c].ctx.held, "write") /\ ~Last(cpu[c].ctx.held, "spin")
                 /\ cpu[c].ctx.pc = "spin" => ~Last(cpu[c].ctx.held, "spin")
      BY <2>0 DEF NestInv, Taking, Ops, First, Last
    <3>1. ASSUME NEW c \in LockCpus PROVE c \notin WaitsFor(c)
      BY <2>0, <3>0, WaitsForIs, Zenon
    <3>2. ASSUME NEW c \in LockCpus, NEW d \in WaitsFor(c) PROVE c \notin WaitsFor(d)
      <4>1. d \in LockCpus
        BY <2>0, WaitsForIs, Zenon
      <4> QED
        BY <2>0, <3>0, <4>1, WaitsForIs, Zenon
    <3>3. ASSUME NEW c \in LockCpus, LockAt(c, "spin") /\ sp PROVE WaitsFor(c) # {}
      <4>1. PICK d \in LockCpus : Last(cpu[d].ctx.held, "spin")
        BY <2>0, <3>3, Zenon DEF SpinInv, HasSpin
      <4>2. WaitsFor(c) = {x \in LockCpus : "spin" \in HeldBy(x)}
        BY <3>3, Zenon DEF WaitsFor, LockAt
      <4> QED
        BY <2>0, <4>1, <4>2, HeldByIs, Zenon
    <3>4. ASSUME NEW c \in LockCpus, LockAt(c, "drain") /\ rw.readers > 0 PROVE WaitsFor(c) # {}
      <4>1. Cardinality(Readers) # 0
        BY <2>0, <3>4 DEF ReaderInv
      <4>2. Readers # {}
        BY <4>1, FS_EmptySet, Zenon
      <4>3. PICK d \in LockCpus : First(cpu[d].ctx.held, "read") \/ cpu[d].ctx.pc = "open"
        BY <4>2, Zenon DEF Readers, Reads
      <4>4. WaitsFor(c) = {x \in LockCpus : "read" \in HeldBy(x) \/ cpu[x].ctx.pc = "open"}
        BY <3>4, Zenon DEF WaitsFor, LockAt
      <4> QED
        BY <2>0, <4>3, <4>4, HeldByIs, Zenon
    <3> QED
      BY <3>1, <3>2, <3>3, <3>4, Zenon DEF SpinsEnd
  <2>3. SleepersWaitForHolder
    <3>1. ASSUME NEW t \in LockThreads
          PROVE  thr[t].pc \in {"out", "lock", "asleep", "hold", "try0", "try1"}
      BY <2>0, Zenon DEF ThreadType, Thread
    <3>2. ASSUME NEW t \in LockThreads, thr[t].pc = "try1" PROVE slk[thr[t].want[1]] = t
      BY <2>0, <3>2, WantOf, Zenon DEF ThreadInv
    <3> QED
      BY <2>0, <3>1, <3>2, Zenon DEF SleepersWaitForHolder, ThreadInv
  <2> QED
    BY <2>0, <2>1, <2>2, <2>3, Zenon DEF LocksSafe
<1> QED
  BY <1>1, LocksInductive, PTL
=============================================================================
