---------------------------- MODULE SleepProofs ----------------------------
(* Proofs about module Sleep, for every set of processes and CPUs, number  *)
(* of events and number of attempts to kill: who runs where and who holds  *)
(* which lock, that no wakeup is lost, and the refinement of WaitQueue.    *)
EXTENDS Sleep, FiniteSetTheorems, TLAPS

Handler == {"h_lock", "h_event", "h_wait", "h_list", "h_visit"}
InWakeup == {"h_wait", "h_list", "h_visit"}
ProcLocked == {"s_release", "s_sched", "s_resume", "y_resume"}
CondLocked == {"c_check", "s_lock", "s_release"}

(* Kill: the victim is known and there is an attempt left.                 *)
KillInv ==
    \A p \in Procs : /\ ppc[p] \in {"k_list", "k_try"} => target[p] \in Procs
                     /\ ppc[p] = "k_try" => tries[p] < MaxAttempts

(* An event that was announced is made later, at most once.                *)
Due == {c \in CPUs : cpc[c] \in {"h_lock", "h_event"}}
DueInv == events + Cardinality(Due) <= made

(* Every process is in the list.                                           *)
ListInv == \A p \in Procs : \E i \in 1..Len(plist) : plist[i] = p

(* What a CPU executes and which process it has agree.                     *)
CpuInv ==
    \A c \in CPUs :
        /\ cpc[c] \in {"sched", "scan"} => cpu_proc[c] = None
        /\ cpc[c] \in {"run", "back"} => cpu_proc[c] \in Procs
        /\ cpc[c] \in Handler /\ cpu_proc[c] # None => ppc[cpu_proc[c]] = "user"
        /\ cpc[c] = "back" => ppc[cpu_proc[c]] \in {"y_resume", "s_resume"}
        /\ \A d \in CPUs : cpu_proc[c] = cpu_proc[d] /\ cpu_proc[c] # None => c = d

(* A process is RUNNING while a CPU has it, until it has switched away.    *)
StateInv ==
    \A p \in Procs :
        /\ state[p] = "RUNNING" <=> \E c \in CPUs : cpu_proc[c] = p /\ cpc[c] # "back"
        /\ state[p] # "RUNNING" => ppc[p] \in {"y_resume", "s_resume"}

(* Who holds which lock follows from where the CPUs are.                   *)
ProcLockInv ==
    \A p \in Procs, c \in CPUs :
        plock[p] = c <=> /\ cpu_proc[c] = p
                         /\ \/ cpc[c] = "back"
                            \/ cpc[c] = "run" /\ ppc[p] \in ProcLocked

LockInv ==
    /\ \A c \in CPUs :
        /\ lk = c <=> \/ cpc[c] \in Handler \ {"h_lock"}
                      \/ cpc[c] = "run" /\ ppc[cpu_proc[c]] \in CondLocked
        /\ g_wait_lock = c <=> cpc[c] \in {"h_list", "h_visit"}
        /\ writer = c <=> cpc[c] = "scan"
        /\ c \in readers <=> \/ cpc[c] = "h_visit"
                             \/ cpc[c] = "run" /\ ppc[cpu_proc[c]] = "k_try"
    /\ writer # None => readers = {}

SysInv == CpuInv /\ StateInv /\ ProcLockInv /\ LockInv

-----------------------------------------------------------------------------
(* What a concatenation is made of.                                        *)
LEMMA Joined ==
    ASSUME NEW S, NEW s \in Seq(S), NEW t \in Seq(S)
    PROVE  /\ s \o t \in Seq(S) /\ Len(s \o t) = Len(s) + Len(t)
           /\ \A i \in 1..(Len(s) + Len(t)) : (s \o t)[i] = IF i <= Len(s) THEN s[i] ELSE t[i - Len(s)]
  <1>1. s \o t \in Seq(S) /\ Len(s \o t) = Len(s) + Len(t)
    OBVIOUS
  <1>2. ASSUME NEW i \in 1..(Len(s) + Len(t)), i <= Len(s) PROVE (s \o t)[i] = s[i]
    BY <1>1, <1>2
  <1>3. ASSUME NEW i \in 1..(Len(s) + Len(t)), i > Len(s) PROVE (s \o t)[i] = t[i - Len(s)]
    BY <1>1, <1>3
  <1> QED
    BY <1>1, <1>2, <1>3

(* get_next_runnable_process() moves the process it picked to the end of   *)
(* the list: nobody is lost.                                               *)
LEMMA MoveToEnd ==
    ASSUME NEW s \in Seq(Procs), NEW k \in 1..Len(s)
    PROVE  LET t == SubSeq(s, 1, k - 1) \o SubSeq(s, k + 1, Len(s)) \o <<s[k]>>
           IN  /\ t \in Seq(Procs) /\ Len(t) = Len(s)
               /\ \A i \in 1..Len(s) : t[i] = IF i < k THEN s[i]
                                              ELSE IF i < Len(s) THEN s[i + 1] ELSE s[k]
  <1> DEFINE a == SubSeq(s, 1, k - 1)
             b == SubSeq(s, k + 1, Len(s))
             e == <<s[k]>>
  <1>1. a \in Seq(Procs) /\ Len(a) = k - 1 /\ \A i \in 1..(k - 1) : a[i] = s[i]
    OBVIOUS
  <1>2. b \in Seq(Procs) /\ Len(b) = Len(s) - k /\ \A i \in 1..(Len(s) - k) : b[i] = s[k + i]
    OBVIOUS
  <1>3. e \in Seq(Procs) /\ Len(e) = 1 /\ e[1] = s[k]
    OBVIOUS
  <1>4. Len(s) \in Nat
    OBVIOUS
  <1> HIDE DEF a, b, e
  <1>5. /\ a \o b \in Seq(Procs) /\ Len(a \o b) = Len(s) - 1
        /\ \A i \in 1..(Len(s) - 1) : (a \o b)[i] = IF i < k THEN s[i] ELSE s[i + 1]
    <2>1. /\ a \o b \in Seq(Procs) /\ Len(a \o b) = Len(a) + Len(b)
          /\ \A i \in 1..(Len(a) + Len(b)) : (a \o b)[i] = IF i <= Len(a) THEN a[i] ELSE b[i - Len(a)]
      BY <1>1, <1>2, Joined, Zenon
    <2> QED
      BY <2>1, <1>1, <1>2, <1>4
  <1>6. /\ (a \o b) \o e \in Seq(Procs) /\ Len((a \o b) \o e) = Len(s)
        /\ \A i \in 1..Len(s) : ((a \o b) \o e)[i] = IF i < k THEN s[i]
                                              ELSE IF i < Len(s) THEN s[i + 1] ELSE s[k]
    <2>1. /\ (a \o b) \o e \in Seq(Procs) /\ Len((a \o b) \o e) = Len(a \o b) + Len(e)
          /\ \A i \in 1..(Len(a \o b) + Len(e)) :
               ((a \o b) \o e)[i] = IF i <= Len(a \o b) THEN (a \o b)[i] ELSE e[i - Len(a \o b)]
      BY <1>3, <1>5, Joined, Zenon
    <2>2. \A i \in 1..Len(s) : ((a \o b) \o e)[i] = IF i <= Len(s) - 1 THEN (a \o b)[i] ELSE s[k]
      BY <2>1, <1>3, <1>4, <1>5
    <2> QED
      BY <2>1, <2>2, <1>3, <1>4, <1>5
  <1> QED
    BY <1>6, Zenon DEF a, b, e

LEMMA PickList ==
    ASSUME TypeOK, ListInv, NEW c \in CPUs, SchedPick(c)
    PROVE  plist' \in Seq(Procs) /\ Len(plist') = Len(plist) /\ ListInv'
  <1>0. plist \in Seq(Procs) /\ at[c] \in 1..Len(plist) /\ Len(plist) \in Nat
    BY DEF SchedPick, TypeOK
  <1>1. /\ plist' \in Seq(Procs) /\ Len(plist') = Len(plist)
        /\ \A i \in 1..Len(plist) : plist'[i] = IF i < at[c] THEN plist[i]
                             ELSE IF i < Len(plist) THEN plist[i + 1] ELSE plist[at[c]]
    BY <1>0, MoveToEnd, Zenon DEF SchedPick
  <1>2. ASSUME NEW p \in Procs PROVE \E i \in 1..Len(plist') : plist'[i] = p
    <2>1. PICK j \in 1..Len(plist) : plist[j] = p
      BY Zenon DEF ListInv
    <2>2. CASE j < at[c]
      BY <1>0, <1>1, <2>1, <2>2, Zenon
    <2>3. CASE j = at[c]
      <3>1. Len(plist) \in 1..Len(plist') /\ plist'[Len(plist)] = p
        BY <1>0, <1>1, <2>1, <2>3
      <3> QED
        BY <3>1, Zenon
    <2>4. CASE j > at[c]
      <3>1. j - 1 \in 1..Len(plist') /\ plist'[j - 1] = p
        BY <1>0, <1>1, <2>1, <2>4
      <3> QED
        BY <3>1, Zenon
    <2> QED
      BY <1>0, <2>1, <2>2, <2>3, <2>4
  <1> QED
    BY <1>1, <1>2, Zenon DEF ListInv

LEMMA CountDue ==
    ASSUME NEW c \in CPUs
    PROVE  /\ IsFiniteSet(Due) /\ Cardinality(Due) \in Nat
           /\ c \notin Due => Cardinality(Due \cup {c}) = Cardinality(Due) + 1
           /\ c \in Due => Cardinality(Due \ {c}) = Cardinality(Due) - 1 /\ Cardinality(Due) > 0
  <1>1. IsFiniteSet(Due)
    BY SleepAssumption, FS_Subset, Zenon DEF Due
  <1>2. Cardinality(Due) \in Nat
    BY <1>1, FS_CardinalityType, Zenon
  <1>3. c \notin Due => Cardinality(Due \cup {c}) = Cardinality(Due) + 1
    BY <1>1, FS_AddElement, Zenon
  <1>4. c \in Due => Cardinality(Due \ {c}) = Cardinality(Due) - 1
    BY <1>1, FS_RemoveElement, Zenon
  <1>5. c \in Due => Cardinality(Due) # 0
    BY <1>1, FS_EmptySet, Zenon
  <1> QED
    BY <1>1, <1>2, <1>3, <1>4, <1>5

(* The types, with what they rest on.                                      *)
(* The next place in the process list.                                     *)
LEMMA NextPlace ==
    ASSUME TypeOK, NEW c \in CPUs, at[c] <= Len(plist)
    PROVE  at[c] + 1 \in 1..(Len(plist) + 1)
<1>1. at[c] \in 1..(Len(plist) + 1) /\ Len(plist) \in Nat
  BY DEF TypeOK
<1> QED
  BY <1>1

LEMMA TypeStep == TypeOK /\ KillInv /\ ListInv /\ DueInv /\ CpuInv /\ [Next]_vars => TypeOK'
  <2> SUFFICES ASSUME TypeOK, KillInv, ListInv, DueInv, CpuInv, [Next]_vars PROVE TypeOK'
    BY Zenon
  <2> USE SleepAssumption DEF procVars, listVars, killVars, condVars, UserLabels, CpuLabels
  <2>1. ASSUME NEW c \in CPUs, SchedLock(c) PROVE TypeOK'
    BY <2>1 DEF SchedLock, CpuGoto, TypeOK
  <2>2. ASSUME NEW c \in CPUs, SchedSkip(c) PROVE TypeOK'
    <3>1. at[c] + 1 \in 1..(Len(plist) + 1)
      BY <2>2, NextPlace, Zenon DEF SchedSkip
    <3> QED
      BY <2>2, <3>1, Zenon DEF SchedSkip, TypeOK
  <2>3. ASSUME NEW c \in CPUs, SchedNone(c) PROVE TypeOK'
    BY <2>3 DEF SchedNone, CpuGoto, TypeOK
  <2>4. ASSUME NEW c \in CPUs, SchedPick(c) PROVE TypeOK'
    <3>1. plist' \in Seq(Procs) /\ Len(plist') = Len(plist)
      BY <2>4, PickList, Zenon
    <3>2. plist[at[c]] \in Procs
      BY <2>4 DEF SchedPick, TypeOK
    <3>3. at' \in [CPUs -> 1..(Len(plist') + 1)]
      <4>1. at \in [CPUs -> 1..(Len(plist) + 1)] /\ Len(plist) \in Nat
        BY DEF TypeOK
      <4>2. at' = [at EXCEPT ![c] = 1]
        BY <2>4, Zenon DEF SchedPick
      <4> QED
        BY <4>1, <4>2, <3>1
    <3>4. /\ state' \in [Procs -> {"RUNNABLE", "RUNNING", "SLEEPING"}]
          /\ plock' \in [Procs -> CPUs \cup {None}]
          /\ cpu_proc' \in [CPUs -> Procs \cup {None}]
      BY <2>4, <3>2, Zenon DEF SchedPick, Lock, TypeOK
    <3> QED
      BY <2>4, <3>1, <3>3, <3>4, Zenon DEF SchedPick, CpuGoto, TypeOK
  <2>5. ASSUME NEW c \in CPUs, SchedBack(c) PROVE TypeOK'
    BY <2>5, Zenon DEF SchedBack, Unlock, CpuGoto, TypeOK
  <2>6. ASSUME NEW c \in CPUs, EventStart(c) PROVE TypeOK'
    BY <2>6 DEF EventStart, At, CpuGoto, TypeOK
  <2>7. ASSUME NEW c \in CPUs, EventLock(c) PROVE TypeOK'
    BY <2>7, Zenon DEF EventLock, CpuGoto, TypeOK
  <2>8. ASSUME NEW c \in CPUs, EventMake(c) PROVE TypeOK'
    <3>1. events + 1 \in 0..made
      <4>1. c \in Due
        BY <2>8, Zenon DEF EventMake, Due
      <4> QED
        <5>1. Cardinality(Due) \in Nat /\ Cardinality(Due) > 0
          BY <4>1, CountDue, Zenon
        <5> QED
          BY <5>1 DEF TypeOK, DueInv
    <3>2. owed' \in [CPUs -> SUBSET Procs]
      BY <2>8, Zenon DEF EventMake, TypeOK, Waiting
    <3> QED
      BY <2>8, <3>1, <3>2, Zenon DEF EventMake, CpuGoto, TypeOK
  <2>9. ASSUME NEW c \in CPUs, WakeupWaitLock(c) PROVE TypeOK'
    BY <2>9, Zenon DEF WakeupWaitLock, CpuGoto, TypeOK
  <2>10. ASSUME NEW c \in CPUs, WakeupList(c) PROVE TypeOK'
    BY <2>10 DEF WakeupList, ReadLock, CpuGoto, TypeOK
  <2>11. ASSUME NEW c \in CPUs, WakeupSelf(c) PROVE TypeOK'
    <3>1. at[c] + 1 \in 1..(Len(plist) + 1)
      BY <2>11, NextPlace, Zenon DEF WakeupSelf
    <3> QED
      BY <2>11, <3>1, Zenon DEF WakeupSelf, TypeOK
  <2>12. ASSUME NEW c \in CPUs, WakeupVisit(c) PROVE TypeOK'
    <3>1. state' \in [Procs -> {"RUNNABLE", "RUNNING", "SLEEPING"}] /\ owed' \in [CPUs -> SUBSET Procs]
      <4>1. CASE UNCHANGED <<state, owed>>
        BY <4>1, Zenon DEF TypeOK
      <4>2. CASE /\ state' = [state EXCEPT ![plist[at[c]]] = "RUNNABLE"]
                 /\ owed' = [d \in CPUs |-> owed[d] \ {plist[at[c]]}]
        BY <4>2, Zenon DEF TypeOK
      <4> QED
        BY <2>12, <4>1, <4>2, Zenon DEF WakeupVisit
    <3>2. at' \in [CPUs -> 1..(Len(plist) + 1)]
      <4>1. at[c] + 1 \in 1..(Len(plist) + 1)
        BY <2>12, NextPlace, Zenon DEF WakeupVisit
      <4> QED
        BY <2>12, <4>1, Zenon DEF WakeupVisit, TypeOK
    <3> QED
      BY <2>12, <3>1, <3>2, ZenonT(20) DEF WakeupVisit, TypeOK
  <2>13. ASSUME NEW c \in CPUs, WakeupReturn(c) PROVE TypeOK'
    BY <2>13 DEF WakeupReturn, ReadUnlock, CpuGoto, TypeOK
  <2>14. ASSUME NEW c \in CPUs, NEW p \in Procs, Yield(c, p) PROVE TypeOK'
    BY <2>14, Zenon DEF Yield, At, Lock, SwitchOut, Goto, CpuGoto, TypeOK
  <2>15. ASSUME NEW c \in CPUs, NEW p \in Procs, YieldResume(c, p) PROVE TypeOK'
    BY <2>15, Zenon DEF YieldResume, At, Unlock, Goto, TypeOK
  <2>16. ASSUME NEW c \in CPUs, NEW p \in Procs, ConsumeLock(c, p) PROVE TypeOK'
    BY <2>16, Zenon DEF ConsumeLock, At, Goto, TypeOK
  <2>17. ASSUME NEW c \in CPUs, NEW p \in Procs, ConsumeReturn(c, p) PROVE TypeOK'
    BY <2>17 DEF ConsumeReturn, At, Goto, TypeOK
  <2>18. ASSUME NEW c \in CPUs, NEW p \in Procs, ConsumeSleep(c, p) PROVE TypeOK'
    BY <2>18, Zenon DEF ConsumeSleep, At, Goto, TypeOK
  <2>19. ASSUME NEW c \in CPUs, NEW p \in Procs, SleepLock(c, p) PROVE TypeOK'
    BY <2>19, Zenon DEF SleepLock, At, Lock, Goto, TypeOK
  <2>20. ASSUME NEW c \in CPUs, NEW p \in Procs, SleepRelease(c, p) PROVE TypeOK'
    BY <2>20, Zenon DEF SleepRelease, At, Goto, TypeOK
  <2>21. ASSUME NEW c \in CPUs, NEW p \in Procs, SleepSched(c, p) PROVE TypeOK'
    BY <2>21, Zenon DEF SleepSched, At, SwitchOut, Goto, CpuGoto, TypeOK
  <2>22. ASSUME NEW c \in CPUs, NEW p \in Procs, SleepResume(c, p) PROVE TypeOK'
    BY <2>22, Zenon DEF SleepResume, At, Unlock, Goto, TypeOK
  <2>23. ASSUME NEW c \in CPUs, NEW p \in Procs, KillList(c, p) PROVE TypeOK'
    BY <2>23, Zenon DEF KillList, At, ReadLock, Goto, TypeOK
  <2>24. ASSUME NEW c \in CPUs, NEW p \in Procs, KillTry(c, p) PROVE TypeOK'
    <3>1. target[p] \in Procs
      BY <2>24, Zenon DEF KillTry, At, KillInv
    <3> QED
      BY <2>24, <3>1 DEF KillTry, At, Killed, ReadUnlock, Goto, TypeOK
  <2>25. ASSUME NEW c \in CPUs, NEW p \in Procs, KillBusy(c, p) PROVE TypeOK'
    <3>1. tries[p] < MaxAttempts
      BY <2>25, Zenon DEF KillBusy, At, KillInv
    <3> QED
      BY <2>25, <3>1 DEF KillBusy, At, ReadUnlock, Goto, TypeOK
  <2>26. ASSUME NEW c \in CPUs, NEW p \in Procs, KillGiveUp(c, p) PROVE TypeOK'
    BY <2>26 DEF KillGiveUp, At, Goto, TypeOK
  <2>27. ASSUME NEW c \in CPUs, NEW p \in Procs, Timer(c, p) PROVE TypeOK'
    BY <2>27, Zenon DEF Timer, At, Goto, TypeOK
  <2>28. ASSUME NEW c \in CPUs, NEW p \in Procs, CallConsume(c, p) PROVE TypeOK'
    BY <2>28, Zenon DEF CallConsume, At, Goto, TypeOK
  <2>29. ASSUME NEW c \in CPUs, NEW p \in Procs, CallKill(c, p) PROVE TypeOK'
    BY <2>29 DEF CallKill, At, Goto, TypeOK
  <2>30. CASE UNCHANGED vars
    BY <2>30, Zenon DEF vars, procVars, listVars, killVars, condVars, TypeOK
  <2> QED
    BY <2>1, <2>2, <2>3, <2>4, <2>5, <2>6, <2>7, <2>8, <2>9, <2>10, <2>11, <2>12, <2>13, <2>14, <2>15, <2>16, <2>17, <2>18, <2>19, <2>20, <2>21, <2>22, <2>23, <2>24, <2>25, <2>26, <2>27, <2>28, <2>29, <2>30, Zenon DEF Next, Scheduler, Event, Kernel

LEMMA KillStep == TypeOK /\ KillInv /\ [Next]_vars => KillInv'
  <2> SUFFICES ASSUME TypeOK, KillInv, [Next]_vars PROVE KillInv'
    BY Zenon
  <2> USE SleepAssumption DEF procVars, listVars, killVars, condVars
  <2>1. ASSUME NEW c \in CPUs, SchedLock(c) PROVE KillInv'
    BY <2>1, Zenon DEF SchedLock, CpuGoto, TypeOK, KillInv
  <2>2. ASSUME NEW c \in CPUs, SchedSkip(c) PROVE KillInv'
    BY <2>2, Zenon DEF SchedSkip, TypeOK, KillInv
  <2>3. ASSUME NEW c \in CPUs, SchedNone(c) PROVE KillInv'
    BY <2>3, Zenon DEF SchedNone, CpuGoto, TypeOK, KillInv
  <2>4. ASSUME NEW c \in CPUs, SchedPick(c) PROVE KillInv'
    BY <2>4, Zenon DEF SchedPick, Lock, Runnable, CpuGoto, TypeOK, KillInv
  <2>5. ASSUME NEW c \in CPUs, SchedBack(c) PROVE KillInv'
    BY <2>5, Zenon DEF SchedBack, Unlock, CpuGoto, TypeOK, KillInv
  <2>6. ASSUME NEW c \in CPUs, EventStart(c) PROVE KillInv'
    BY <2>6, Zenon DEF EventStart, At, CpuGoto, TypeOK, KillInv
  <2>7. ASSUME NEW c \in CPUs, EventLock(c) PROVE KillInv'
    BY <2>7, Zenon DEF EventLock, CpuGoto, TypeOK, KillInv
  <2>8. ASSUME NEW c \in CPUs, EventMake(c) PROVE KillInv'
    BY <2>8, Zenon DEF EventMake, CpuGoto, TypeOK, KillInv
  <2>9. ASSUME NEW c \in CPUs, WakeupWaitLock(c) PROVE KillInv'
    BY <2>9, Zenon DEF WakeupWaitLock, CpuGoto, TypeOK, KillInv
  <2>10. ASSUME NEW c \in CPUs, WakeupList(c) PROVE KillInv'
    BY <2>10, Zenon DEF WakeupList, ReadLock, CpuGoto, TypeOK, KillInv
  <2>11. ASSUME NEW c \in CPUs, WakeupSelf(c) PROVE KillInv'
    BY <2>11, Zenon DEF WakeupSelf, TypeOK, KillInv
  <2>12. ASSUME NEW c \in CPUs, WakeupVisit(c) PROVE KillInv'
    BY <2>12, Zenon DEF WakeupVisit, TypeOK, KillInv
  <2>13. ASSUME NEW c \in CPUs, WakeupReturn(c) PROVE KillInv'
    BY <2>13, Zenon DEF WakeupReturn, ReadUnlock, CpuGoto, TypeOK, KillInv
  <2>14. ASSUME NEW c \in CPUs, NEW p \in Procs, Yield(c, p) PROVE KillInv'
    BY <2>14, Zenon DEF Yield, At, Lock, SwitchOut, Goto, CpuGoto, TypeOK, KillInv
  <2>15. ASSUME NEW c \in CPUs, NEW p \in Procs, YieldResume(c, p) PROVE KillInv'
    BY <2>15, Zenon DEF YieldResume, At, Unlock, Goto, TypeOK, KillInv
  <2>16. ASSUME NEW c \in CPUs, NEW p \in Procs, ConsumeLock(c, p) PROVE KillInv'
    BY <2>16, Zenon DEF ConsumeLock, At, Goto, TypeOK, KillInv
  <2>17. ASSUME NEW c \in CPUs, NEW p \in Procs, ConsumeReturn(c, p) PROVE KillInv'
    BY <2>17, Zenon DEF ConsumeReturn, At, Goto, TypeOK, KillInv
  <2>18. ASSUME NEW c \in CPUs, NEW p \in Procs, ConsumeSleep(c, p) PROVE KillInv'
    BY <2>18, Zenon DEF ConsumeSleep, At, Goto, TypeOK, KillInv
  <2>19. ASSUME NEW c \in CPUs, NEW p \in Procs, SleepLock(c, p) PROVE KillInv'
    BY <2>19, Zenon DEF SleepLock, At, Lock, Goto, TypeOK, KillInv
  <2>20. ASSUME NEW c \in CPUs, NEW p \in Procs, SleepRelease(c, p) PROVE KillInv'
    BY <2>20, Zenon DEF SleepRelease, At, Goto, TypeOK, KillInv
  <2>21. ASSUME NEW c \in CPUs, NEW p \in Procs, SleepSched(c, p) PROVE KillInv'
    BY <2>21, Zenon DEF SleepSched, At, SwitchOut, Goto, CpuGoto, TypeOK, KillInv
  <2>22. ASSUME NEW c \in CPUs, NEW p \in Procs, SleepResume(c, p) PROVE KillInv'
    BY <2>22, Zenon DEF SleepResume, At, Unlock, Goto, TypeOK, KillInv
  <2>23. ASSUME NEW c \in CPUs, NEW p \in Procs, KillList(c, p) PROVE KillInv'
    BY <2>23, Zenon DEF KillList, At, ReadLock, Goto, TypeOK, KillInv
  <2>24. ASSUME NEW c \in CPUs, NEW p \in Procs, KillTry(c, p) PROVE KillInv'
    BY <2>24, Zenon DEF KillTry, At, Killed, ReadUnlock, Goto, TypeOK, KillInv
  <2>25. ASSUME NEW c \in CPUs, NEW p \in Procs, KillBusy(c, p) PROVE KillInv'
    BY <2>25, Zenon DEF KillBusy, At, ReadUnlock, Goto, TypeOK, KillInv
  <2>26. ASSUME NEW c \in CPUs, NEW p \in Procs, KillGiveUp(c, p) PROVE KillInv'
    BY <2>26, Zenon DEF KillGiveUp, At, Goto, TypeOK, KillInv
  <2>27. ASSUME NEW c \in CPUs, NEW p \in Procs, Timer(c, p) PROVE KillInv'
    BY <2>27, Zenon DEF Timer, At, Goto, TypeOK, KillInv
  <2>28. ASSUME NEW c \in CPUs, NEW p \in Procs, CallConsume(c, p) PROVE KillInv'
    BY <2>28, Zenon DEF CallConsume, At, Goto, TypeOK, KillInv
  <2>29. ASSUME NEW c \in CPUs, NEW p \in Procs, CallKill(c, p) PROVE KillInv'
    BY <2>29 DEF CallKill, At, Goto, TypeOK, KillInv
  <2>30. CASE UNCHANGED vars
    BY <2>30, Zenon DEF vars, procVars, listVars, killVars, condVars, TypeOK, KillInv
  <2> QED
    BY <2>1, <2>2, <2>3, <2>4, <2>5, <2>6, <2>7, <2>8, <2>9, <2>10, <2>11, <2>12, <2>13, <2>14, <2>15, <2>16, <2>17, <2>18, <2>19, <2>20, <2>21, <2>22, <2>23, <2>24, <2>25, <2>26, <2>27, <2>28, <2>29, <2>30, Zenon DEF Next, Scheduler, Event, Kernel

LEMMA ListStep == TypeOK /\ ListInv /\ [Next]_vars => ListInv'
  <2> SUFFICES ASSUME TypeOK, ListInv, [Next]_vars PROVE ListInv'
    BY Zenon
  <2>a. plist' = plist => ListInv'
    BY Zenon DEF ListInv
  <2>1. ASSUME NEW c \in CPUs, SchedLock(c) PROVE ListInv'
    BY <2>1, <2>a, Zenon DEF SchedLock, CpuGoto, listVars
  <2>2. ASSUME NEW c \in CPUs, SchedSkip(c) PROVE ListInv'
    BY <2>2, <2>a, Zenon DEF SchedSkip, listVars
  <2>3. ASSUME NEW c \in CPUs, SchedNone(c) PROVE ListInv'
    BY <2>3, <2>a, Zenon DEF SchedNone, CpuGoto, listVars
  <2>4. ASSUME NEW c \in CPUs, SchedPick(c) PROVE ListInv'
    BY <2>4, <2>a, PickList, Zenon DEF SchedPick, Lock, Runnable, CpuGoto, listVars
  <2>5. ASSUME NEW c \in CPUs, SchedBack(c) PROVE ListInv'
    BY <2>5, <2>a, Zenon DEF SchedBack, Unlock, CpuGoto, listVars
  <2>6. ASSUME NEW c \in CPUs, EventStart(c) PROVE ListInv'
    BY <2>6, <2>a, Zenon DEF EventStart, At, CpuGoto, listVars
  <2>7. ASSUME NEW c \in CPUs, EventLock(c) PROVE ListInv'
    BY <2>7, <2>a, Zenon DEF EventLock, CpuGoto, listVars
  <2>8. ASSUME NEW c \in CPUs, EventMake(c) PROVE ListInv'
    BY <2>8, <2>a, Zenon DEF EventMake, CpuGoto, listVars
  <2>9. ASSUME NEW c \in CPUs, WakeupWaitLock(c) PROVE ListInv'
    BY <2>9, <2>a, Zenon DEF WakeupWaitLock, CpuGoto, listVars
  <2>10. ASSUME NEW c \in CPUs, WakeupList(c) PROVE ListInv'
    BY <2>10, <2>a, Zenon DEF WakeupList, ReadLock, CpuGoto, listVars
  <2>11. ASSUME NEW c \in CPUs, WakeupSelf(c) PROVE ListInv'
    BY <2>11, <2>a, Zenon DEF WakeupSelf, listVars
  <2>12. ASSUME NEW c \in CPUs, WakeupVisit(c) PROVE ListInv'
    BY <2>12, <2>a, Zenon DEF WakeupVisit, listVars
  <2>13. ASSUME NEW c \in CPUs, WakeupReturn(c) PROVE ListInv'
    BY <2>13, <2>a, Zenon DEF WakeupReturn, ReadUnlock, CpuGoto, listVars
  <2>14. ASSUME NEW c \in CPUs, NEW p \in Procs, Yield(c, p) PROVE ListInv'
    BY <2>14, <2>a, Zenon DEF Yield, At, Lock, SwitchOut, Goto, CpuGoto, listVars
  <2>15. ASSUME NEW c \in CPUs, NEW p \in Procs, YieldResume(c, p) PROVE ListInv'
    BY <2>15, <2>a, Zenon DEF YieldResume, At, Unlock, Goto, listVars
  <2>16. ASSUME NEW c \in CPUs, NEW p \in Procs, ConsumeLock(c, p) PROVE ListInv'
    BY <2>16, <2>a, Zenon DEF ConsumeLock, At, Goto, listVars
  <2>17. ASSUME NEW c \in CPUs, NEW p \in Procs, ConsumeReturn(c, p) PROVE ListInv'
    BY <2>17, <2>a, Zenon DEF ConsumeReturn, At, Goto, listVars
  <2>18. ASSUME NEW c \in CPUs, NEW p \in Procs, ConsumeSleep(c, p) PROVE ListInv'
    BY <2>18, <2>a, Zenon DEF ConsumeSleep, At, Goto, listVars
  <2>19. ASSUME NEW c \in CPUs, NEW p \in Procs, SleepLock(c, p) PROVE ListInv'
    BY <2>19, <2>a, Zenon DEF SleepLock, At, Lock, Goto, listVars
  <2>20. ASSUME NEW c \in CPUs, NEW p \in Procs, SleepRelease(c, p) PROVE ListInv'
    BY <2>20, <2>a, Zenon DEF SleepRelease, At, Goto, listVars
  <2>21. ASSUME NEW c \in CPUs, NEW p \in Procs, SleepSched(c, p) PROVE ListInv'
    BY <2>21, <2>a, Zenon DEF SleepSched, At, SwitchOut, Goto, CpuGoto, listVars
  <2>22. ASSUME NEW c \in CPUs, NEW p \in Procs, SleepResume(c, p) PROVE ListInv'
    BY <2>22, <2>a, Zenon DEF SleepResume, At, Unlock, Goto, listVars
  <2>23. ASSUME NEW c \in CPUs, NEW p \in Procs, KillList(c, p) PROVE ListInv'
    BY <2>23, <2>a, Zenon DEF KillList, At, ReadLock, Goto, listVars
  <2>24. ASSUME NEW c \in CPUs, NEW p \in Procs, KillTry(c, p) PROVE ListInv'
    BY <2>24, <2>a, Zenon DEF KillTry, At, Killed, ReadUnlock, Goto, listVars
  <2>25. ASSUME NEW c \in CPUs, NEW p \in Procs, KillBusy(c, p) PROVE ListInv'
    BY <2>25, <2>a, Zenon DEF KillBusy, At, ReadUnlock, Goto, listVars
  <2>26. ASSUME NEW c \in CPUs, NEW p \in Procs, KillGiveUp(c, p) PROVE ListInv'
    BY <2>26, <2>a, Zenon DEF KillGiveUp, At, Goto, listVars
  <2>27. ASSUME NEW c \in CPUs, NEW p \in Procs, Timer(c, p) PROVE ListInv'
    BY <2>27, <2>a, Zenon DEF Timer, At, Goto, listVars
  <2>28. ASSUME NEW c \in CPUs, NEW p \in Procs, CallConsume(c, p) PROVE ListInv'
    BY <2>28, <2>a, Zenon DEF CallConsume, At, Goto, listVars
  <2>29. ASSUME NEW c \in CPUs, NEW p \in Procs, CallKill(c, p) PROVE ListInv'
    BY <2>29, <2>a, Zenon DEF CallKill, At, Goto, listVars
  <2>30. CASE UNCHANGED vars
    BY <2>30, <2>a, Zenon DEF vars, procVars, listVars, killVars, condVars, listVars, ListInv
  <2> QED
    BY <2>1, <2>2, <2>3, <2>4, <2>5, <2>6, <2>7, <2>8, <2>9, <2>10, <2>11, <2>12, <2>13, <2>14, <2>15, <2>16, <2>17, <2>18, <2>19, <2>20, <2>21, <2>22, <2>23, <2>24, <2>25, <2>26, <2>27, <2>28, <2>29, <2>30, Zenon DEF Next, Scheduler, Event, Kernel

LEMMA DueStep == TypeOK /\ DueInv /\ [Next]_vars => DueInv'
  <2> SUFFICES ASSUME TypeOK, DueInv, [Next]_vars PROVE DueInv'
    BY Zenon
  <2> USE SleepAssumption DEF procVars, listVars, killVars, condVars
  <2>a. Due' = Due /\ events' <= events /\ events' \in Nat /\ made' = made => DueInv'
    <3>1. CPUs # {} => Cardinality(Due) \in Nat
      BY CountDue, ZenonT(30)
    <3>2. CPUs = {} => Due = {}
      BY Zenon DEF Due
    <3>3. Cardinality(Due) \in Nat
      BY <3>1, <3>2, FS_EmptySet
    <3> QED
      BY <3>3 DEF DueInv, TypeOK
  <2>1. ASSUME NEW c \in CPUs, SchedLock(c) PROVE DueInv'
    BY <2>1, <2>a DEF SchedLock, CpuGoto, TypeOK, Due
  <2>2. ASSUME NEW c \in CPUs, SchedSkip(c) PROVE DueInv'
    BY <2>2, <2>a DEF SchedSkip, TypeOK, Due
  <2>3. ASSUME NEW c \in CPUs, SchedNone(c) PROVE DueInv'
    BY <2>3, <2>a DEF SchedNone, CpuGoto, TypeOK, Due
  <2>4. ASSUME NEW c \in CPUs, SchedPick(c) PROVE DueInv'
    BY <2>4, <2>a DEF SchedPick, Lock, Runnable, CpuGoto, TypeOK, Due
  <2>5. ASSUME NEW c \in CPUs, SchedBack(c) PROVE DueInv'
    BY <2>5, <2>a DEF SchedBack, Unlock, CpuGoto, TypeOK, Due
  <2>6. ASSUME NEW c \in CPUs, EventStart(c) PROVE DueInv'
    <3>1. c \notin Due /\ Due' = Due \cup {c}
      BY <2>6 DEF EventStart, CpuGoto, At, TypeOK, Due
    <3>2. made' = made + 1 /\ events' = events
      BY <2>6, Zenon DEF EventStart
    <3>3. Cardinality(Due) \in Nat /\ Cardinality(Due') = Cardinality(Due) + 1
      BY <3>1, CountDue, Zenon
    <3> QED
      BY <3>2, <3>3 DEF DueInv, TypeOK
  <2>7. ASSUME NEW c \in CPUs, EventLock(c) PROVE DueInv'
    BY <2>7, <2>a DEF EventLock, CpuGoto, TypeOK, Due
  <2>8. ASSUME NEW c \in CPUs, EventMake(c) PROVE DueInv'
    <3>1. c \in Due /\ Due' = Due \ {c}
      BY <2>8, Zenon DEF EventMake, CpuGoto, TypeOK, Due
    <3>2. events' = events + 1 /\ made' = made
      BY <2>8, Zenon DEF EventMake
    <3>3. Cardinality(Due) \in Nat /\ Cardinality(Due') = Cardinality(Due) - 1
      BY <3>1, CountDue, Zenon
    <3> QED
      BY <3>2, <3>3 DEF DueInv, TypeOK
  <2>9. ASSUME NEW c \in CPUs, WakeupWaitLock(c) PROVE DueInv'
    BY <2>9, <2>a DEF WakeupWaitLock, CpuGoto, TypeOK, Due
  <2>10. ASSUME NEW c \in CPUs, WakeupList(c) PROVE DueInv'
    BY <2>10, <2>a DEF WakeupList, ReadLock, CpuGoto, TypeOK, Due
  <2>11. ASSUME NEW c \in CPUs, WakeupSelf(c) PROVE DueInv'
    BY <2>11, <2>a DEF WakeupSelf, TypeOK, Due
  <2>12. ASSUME NEW c \in CPUs, WakeupVisit(c) PROVE DueInv'
    BY <2>12, <2>a DEF WakeupVisit, TypeOK, Due
  <2>13. ASSUME NEW c \in CPUs, WakeupReturn(c) PROVE DueInv'
    BY <2>13, <2>a DEF WakeupReturn, ReadUnlock, CpuGoto, TypeOK, Due
  <2>14. ASSUME NEW c \in CPUs, NEW p \in Procs, Yield(c, p) PROVE DueInv'
    BY <2>14, <2>a DEF Yield, At, Lock, SwitchOut, Goto, CpuGoto, TypeOK, Due
  <2>15. ASSUME NEW c \in CPUs, NEW p \in Procs, YieldResume(c, p) PROVE DueInv'
    BY <2>15, <2>a DEF YieldResume, At, Unlock, Goto, TypeOK, Due
  <2>16. ASSUME NEW c \in CPUs, NEW p \in Procs, ConsumeLock(c, p) PROVE DueInv'
    BY <2>16, <2>a DEF ConsumeLock, At, Goto, TypeOK, Due
  <2>17. ASSUME NEW c \in CPUs, NEW p \in Procs, ConsumeReturn(c, p) PROVE DueInv'
    BY <2>17, <2>a DEF ConsumeReturn, At, Goto, TypeOK, Due
  <2>18. ASSUME NEW c \in CPUs, NEW p \in Procs, ConsumeSleep(c, p) PROVE DueInv'
    BY <2>18, <2>a DEF ConsumeSleep, At, Goto, TypeOK, Due
  <2>19. ASSUME NEW c \in CPUs, NEW p \in Procs, SleepLock(c, p) PROVE DueInv'
    BY <2>19, <2>a DEF SleepLock, At, Lock, Goto, TypeOK, Due
  <2>20. ASSUME NEW c \in CPUs, NEW p \in Procs, SleepRelease(c, p) PROVE DueInv'
    BY <2>20, <2>a DEF SleepRelease, At, Goto, TypeOK, Due
  <2>21. ASSUME NEW c \in CPUs, NEW p \in Procs, SleepSched(c, p) PROVE DueInv'
    BY <2>21, <2>a DEF SleepSched, At, SwitchOut, Goto, CpuGoto, TypeOK, Due
  <2>22. ASSUME NEW c \in CPUs, NEW p \in Procs, SleepResume(c, p) PROVE DueInv'
    BY <2>22, <2>a DEF SleepResume, At, Unlock, Goto, TypeOK, Due
  <2>23. ASSUME NEW c \in CPUs, NEW p \in Procs, KillList(c, p) PROVE DueInv'
    BY <2>23, <2>a DEF KillList, At, ReadLock, Goto, TypeOK, Due
  <2>24. ASSUME NEW c \in CPUs, NEW p \in Procs, KillTry(c, p) PROVE DueInv'
    BY <2>24, <2>a DEF KillTry, At, Killed, ReadUnlock, Goto, TypeOK, Due
  <2>25. ASSUME NEW c \in CPUs, NEW p \in Procs, KillBusy(c, p) PROVE DueInv'
    BY <2>25, <2>a DEF KillBusy, At, ReadUnlock, Goto, TypeOK, Due
  <2>26. ASSUME NEW c \in CPUs, NEW p \in Procs, KillGiveUp(c, p) PROVE DueInv'
    BY <2>26, <2>a DEF KillGiveUp, At, Goto, TypeOK, Due
  <2>27. ASSUME NEW c \in CPUs, NEW p \in Procs, Timer(c, p) PROVE DueInv'
    BY <2>27, <2>a DEF Timer, At, Goto, TypeOK, Due
  <2>28. ASSUME NEW c \in CPUs, NEW p \in Procs, CallConsume(c, p) PROVE DueInv'
    BY <2>28, <2>a DEF CallConsume, At, Goto, TypeOK, Due
  <2>29. ASSUME NEW c \in CPUs, NEW p \in Procs, CallKill(c, p) PROVE DueInv'
    BY <2>29, <2>a DEF CallKill, At, Goto, TypeOK, Due
  <2>30. CASE UNCHANGED vars
    BY <2>30, <2>a, Zenon DEF vars, procVars, listVars, killVars, condVars, TypeOK, Due, DueInv
  <2> QED
    BY <2>1, <2>2, <2>3, <2>4, <2>5, <2>6, <2>7, <2>8, <2>9, <2>10, <2>11, <2>12, <2>13, <2>14, <2>15, <2>16, <2>17, <2>18, <2>19, <2>20, <2>21, <2>22, <2>23, <2>24, <2>25, <2>26, <2>27, <2>28, <2>29, <2>30, Zenon DEF Next, Scheduler, Event, Kernel

(* scheduler() picks a process no CPU has, and lets it go on where it      *)
(* switched away.                                                          *)
LEMMA PickFree ==
    ASSUME TypeOK, CpuInv, StateInv, ProcLockInv, NEW c \in CPUs, SchedPick(c)
    PROVE  \E p \in Procs :
             /\ p = plist[at[c]] /\ state[p] = "RUNNABLE" /\ plock[p] = None
             /\ ppc[p] \in {"y_resume", "s_resume"}
             /\ \A d \in CPUs : cpu_proc[d] # p
             /\ cpu_proc' = [cpu_proc EXCEPT ![c] = p]
  <1> DEFINE p == plist[at[c]]
  <1>1. p \in Procs
    BY SMTT(30) DEF SchedPick, TypeOK
  <1>2. state[p] = "RUNNABLE" /\ plock[p] = None /\ cpu_proc' = [cpu_proc EXCEPT ![c] = p]
    BY Zenon DEF SchedPick, Runnable
  <1> HIDE DEF p
  <1>3. ppc[p] \in {"y_resume", "s_resume"}
    BY <1>1, <1>2, Zenon DEF StateInv
  <1>4. ASSUME NEW d \in CPUs, cpu_proc[d] = p PROVE FALSE
    <2>1. cpc[d] = "back"
      BY <1>1, <1>2, <1>4, Zenon DEF StateInv
    <2> QED
      BY <1>1, <1>2, <1>4, <2>1, SleepAssumption, Zenon DEF ProcLockInv
  <1> QED
    BY <1>1, <1>2, <1>3, <1>4, ZenonT(30) DEF p

(* The CPUs, the states of the processes and the locks.                    *)
LEMMA CpuStep == TypeOK /\ SysInv /\ [Next]_vars => CpuInv'
  <2> SUFFICES ASSUME TypeOK, CpuInv, StateInv, ProcLockInv, LockInv, [Next]_vars PROVE CpuInv'
    BY Zenon DEF SysInv
  <2> USE SleepAssumption DEF procVars, listVars, killVars, condVars, Handler
  <2>1. ASSUME NEW c \in CPUs, SchedLock(c) PROVE CpuInv'
    BY <2>1, Zenon DEF SchedLock, CpuGoto, TypeOK, CpuInv
  <2>2. ASSUME NEW c \in CPUs, SchedSkip(c) PROVE CpuInv'
    BY <2>2, Zenon DEF SchedSkip, TypeOK, CpuInv
  <2>3. ASSUME NEW c \in CPUs, SchedNone(c) PROVE CpuInv'
    BY <2>3, Zenon DEF SchedNone, CpuGoto, TypeOK, CpuInv
  <2>4. ASSUME NEW c \in CPUs, SchedPick(c) PROVE CpuInv'
    <3>1. PICK p \in Procs : /\ ppc[p] \in {"y_resume", "s_resume"}
                             /\ \A d \in CPUs : cpu_proc[d] # p
                             /\ cpu_proc' = [cpu_proc EXCEPT ![c] = p]
      BY <2>4, PickFree, Zenon
    <3> QED
      BY <2>4, <3>1, SMTT(30) DEF SchedPick, CpuGoto, TypeOK, CpuInv
  <2>5. ASSUME NEW c \in CPUs, SchedBack(c) PROVE CpuInv'
    BY <2>5, Zenon DEF SchedBack, Unlock, CpuGoto, TypeOK, CpuInv
  <2>6. ASSUME NEW c \in CPUs, EventStart(c) PROVE CpuInv'
    BY <2>6, Zenon DEF EventStart, At, CpuGoto, TypeOK, CpuInv
  <2>7. ASSUME NEW c \in CPUs, EventLock(c) PROVE CpuInv'
    BY <2>7, Zenon DEF EventLock, CpuGoto, TypeOK, CpuInv
  <2>8. ASSUME NEW c \in CPUs, EventMake(c) PROVE CpuInv'
    BY <2>8, Zenon DEF EventMake, CpuGoto, TypeOK, CpuInv
  <2>9. ASSUME NEW c \in CPUs, WakeupWaitLock(c) PROVE CpuInv'
    BY <2>9, Zenon DEF WakeupWaitLock, CpuGoto, TypeOK, CpuInv
  <2>10. ASSUME NEW c \in CPUs, WakeupList(c) PROVE CpuInv'
    BY <2>10, Zenon DEF WakeupList, ReadLock, CpuGoto, TypeOK, CpuInv
  <2>11. ASSUME NEW c \in CPUs, WakeupSelf(c) PROVE CpuInv'
    BY <2>11, Zenon DEF WakeupSelf, TypeOK, CpuInv
  <2>12. ASSUME NEW c \in CPUs, WakeupVisit(c) PROVE CpuInv'
    BY <2>12, Zenon DEF WakeupVisit, TypeOK, CpuInv
  <2>13. ASSUME NEW c \in CPUs, WakeupReturn(c) PROVE CpuInv'
    BY <2>13 DEF WakeupReturn, ReadUnlock, CpuGoto, TypeOK, CpuInv
  <2>14. ASSUME NEW c \in CPUs, NEW p \in Procs, Yield(c, p) PROVE CpuInv'
    BY <2>14, Zenon DEF Yield, At, Lock, SwitchOut, Goto, CpuGoto, TypeOK, CpuInv
  <2>15. ASSUME NEW c \in CPUs, NEW p \in Procs, YieldResume(c, p) PROVE CpuInv'
    BY <2>15, Zenon DEF YieldResume, At, Unlock, Goto, TypeOK, CpuInv
  <2>16. ASSUME NEW c \in CPUs, NEW p \in Procs, ConsumeLock(c, p) PROVE CpuInv'
    BY <2>16, Zenon DEF ConsumeLock, At, Goto, TypeOK, CpuInv
  <2>17. ASSUME NEW c \in CPUs, NEW p \in Procs, ConsumeReturn(c, p) PROVE CpuInv'
    BY <2>17, Zenon DEF ConsumeReturn, At, Goto, TypeOK, CpuInv
  <2>18. ASSUME NEW c \in CPUs, NEW p \in Procs, ConsumeSleep(c, p) PROVE CpuInv'
    BY <2>18, Zenon DEF ConsumeSleep, At, Goto, TypeOK, CpuInv
  <2>19. ASSUME NEW c \in CPUs, NEW p \in Procs, SleepLock(c, p) PROVE CpuInv'
    BY <2>19, Zenon DEF SleepLock, At, Lock, Goto, TypeOK, CpuInv
  <2>20. ASSUME NEW c \in CPUs, NEW p \in Procs, SleepRelease(c, p) PROVE CpuInv'
    BY <2>20, Zenon DEF SleepRelease, At, Goto, TypeOK, CpuInv
  <2>21. ASSUME NEW c \in CPUs, NEW p \in Procs, SleepSched(c, p) PROVE CpuInv'
    BY <2>21, Zenon DEF SleepSched, At, SwitchOut, Goto, CpuGoto, TypeOK, CpuInv
  <2>22. ASSUME NEW c \in CPUs, NEW p \in Procs, SleepResume(c, p) PROVE CpuInv'
    BY <2>22, Zenon DEF SleepResume, At, Unlock, Goto, TypeOK, CpuInv
  <2>23. ASSUME NEW c \in CPUs, NEW p \in Procs, KillList(c, p) PROVE CpuInv'
    BY <2>23, Zenon DEF KillList, At, ReadLock, Goto, TypeOK, CpuInv
  <2>24. ASSUME NEW c \in CPUs, NEW p \in Procs, KillTry(c, p) PROVE CpuInv'
    BY <2>24, Zenon DEF KillTry, At, Killed, ReadUnlock, Goto, TypeOK, CpuInv
  <2>25. ASSUME NEW c \in CPUs, NEW p \in Procs, KillBusy(c, p) PROVE CpuInv'
    BY <2>25, Zenon DEF KillBusy, At, ReadUnlock, Goto, TypeOK, CpuInv
  <2>26. ASSUME NEW c \in CPUs, NEW p \in Procs, KillGiveUp(c, p) PROVE CpuInv'
    BY <2>26, Zenon DEF KillGiveUp, At, Goto, TypeOK, CpuInv
  <2>27. ASSUME NEW c \in CPUs, NEW p \in Procs, Timer(c, p) PROVE CpuInv'
    BY <2>27, Zenon DEF Timer, At, Goto, TypeOK, CpuInv
  <2>28. ASSUME NEW c \in CPUs, NEW p \in Procs, CallConsume(c, p) PROVE CpuInv'
    BY <2>28, Zenon DEF CallConsume, At, Goto, TypeOK, CpuInv
  <2>29. ASSUME NEW c \in CPUs, NEW p \in Procs, CallKill(c, p) PROVE CpuInv'
    BY <2>29, Zenon DEF CallKill, At, Goto, TypeOK, CpuInv
  <2>30. CASE UNCHANGED vars
    BY <2>30, Zenon DEF vars, procVars, listVars, killVars, condVars, TypeOK, CpuInv
  <2> QED
    BY <2>1, <2>2, <2>3, <2>4, <2>5, <2>6, <2>7, <2>8, <2>9, <2>10, <2>11, <2>12, <2>13, <2>14, <2>15, <2>16, <2>17, <2>18, <2>19, <2>20, <2>21, <2>22, <2>23, <2>24, <2>25, <2>26, <2>27, <2>28, <2>29, <2>30, Zenon DEF Next, Scheduler, Event, Kernel

LEMMA StateStep == TypeOK /\ SysInv /\ [Next]_vars => StateInv'
  <2> SUFFICES ASSUME TypeOK, CpuInv, StateInv, ProcLockInv, LockInv, [Next]_vars PROVE StateInv'
    BY Zenon DEF SysInv
  <2> USE SleepAssumption DEF procVars, listVars, killVars, condVars, Handler, ProcLocked
  <2>1. ASSUME NEW c \in CPUs, SchedLock(c) PROVE StateInv'
    BY <2>1 DEF SchedLock, CpuGoto, TypeOK, CpuInv, StateInv
  <2>2. ASSUME NEW c \in CPUs, SchedSkip(c) PROVE StateInv'
    BY <2>2 DEF SchedSkip, TypeOK, CpuInv, StateInv
  <2>3. ASSUME NEW c \in CPUs, SchedNone(c) PROVE StateInv'
    BY <2>3 DEF SchedNone, CpuGoto, TypeOK, CpuInv, StateInv
  <2>4. ASSUME NEW c \in CPUs, SchedPick(c) PROVE StateInv'
    BY <2>4 DEF SchedPick, Lock, Runnable, CpuGoto, TypeOK, CpuInv, StateInv
  <2>5. ASSUME NEW c \in CPUs, SchedBack(c) PROVE StateInv'
    BY <2>5 DEF SchedBack, Unlock, CpuGoto, TypeOK, CpuInv, StateInv
  <2>6. ASSUME NEW c \in CPUs, EventStart(c) PROVE StateInv'
    BY <2>6 DEF EventStart, At, CpuGoto, TypeOK, CpuInv, StateInv
  <2>7. ASSUME NEW c \in CPUs, EventLock(c) PROVE StateInv'
    BY <2>7 DEF EventLock, CpuGoto, TypeOK, CpuInv, StateInv
  <2>8. ASSUME NEW c \in CPUs, EventMake(c) PROVE StateInv'
    BY <2>8 DEF EventMake, CpuGoto, TypeOK, CpuInv, StateInv
  <2>9. ASSUME NEW c \in CPUs, WakeupWaitLock(c) PROVE StateInv'
    BY <2>9 DEF WakeupWaitLock, CpuGoto, TypeOK, CpuInv, StateInv
  <2>10. ASSUME NEW c \in CPUs, WakeupList(c) PROVE StateInv'
    BY <2>10 DEF WakeupList, ReadLock, CpuGoto, TypeOK, CpuInv, StateInv
  <2>11. ASSUME NEW c \in CPUs, WakeupSelf(c) PROVE StateInv'
    BY <2>11 DEF WakeupSelf, TypeOK, CpuInv, StateInv
  <2>12. ASSUME NEW c \in CPUs, WakeupVisit(c) PROVE StateInv'
    BY <2>12 DEF WakeupVisit, TypeOK, CpuInv, StateInv
  <2>13. ASSUME NEW c \in CPUs, WakeupReturn(c) PROVE StateInv'
    BY <2>13 DEF WakeupReturn, ReadUnlock, CpuGoto, TypeOK, CpuInv, StateInv
  <2>14. ASSUME NEW c \in CPUs, NEW p \in Procs, Yield(c, p) PROVE StateInv'
    BY <2>14 DEF Yield, At, Lock, SwitchOut, Goto, CpuGoto, TypeOK, CpuInv, StateInv
  <2>15. ASSUME NEW c \in CPUs, NEW p \in Procs, YieldResume(c, p) PROVE StateInv'
    BY <2>15 DEF YieldResume, At, Unlock, Goto, TypeOK, CpuInv, StateInv
  <2>16. ASSUME NEW c \in CPUs, NEW p \in Procs, ConsumeLock(c, p) PROVE StateInv'
    BY <2>16 DEF ConsumeLock, At, Goto, TypeOK, CpuInv, StateInv
  <2>17. ASSUME NEW c \in CPUs, NEW p \in Procs, ConsumeReturn(c, p) PROVE StateInv'
    BY <2>17 DEF ConsumeReturn, At, Goto, TypeOK, CpuInv, StateInv
  <2>18. ASSUME NEW c \in CPUs, NEW p \in Procs, ConsumeSleep(c, p) PROVE StateInv'
    BY <2>18 DEF ConsumeSleep, At, Goto, TypeOK, CpuInv, StateInv
  <2>19. ASSUME NEW c \in CPUs, NEW p \in Procs, SleepLock(c, p) PROVE StateInv'
    BY <2>19 DEF SleepLock, At, Lock, Goto, TypeOK, CpuInv, StateInv
  <2>20. ASSUME NEW c \in CPUs, NEW p \in Procs, SleepRelease(c, p) PROVE StateInv'
    BY <2>20 DEF SleepRelease, At, Goto, TypeOK, CpuInv, StateInv
  <2>21. ASSUME NEW c \in CPUs, NEW p \in Procs, SleepSched(c, p) PROVE StateInv'
    BY <2>21 DEF SleepSched, At, SwitchOut, Goto, CpuGoto, TypeOK, CpuInv, StateInv
  <2>22. ASSUME NEW c \in CPUs, NEW p \in Procs, SleepResume(c, p) PROVE StateInv'
    BY <2>22 DEF SleepResume, At, Unlock, Goto, TypeOK, CpuInv, StateInv
  <2>23. ASSUME NEW c \in CPUs, NEW p \in Procs, KillList(c, p) PROVE StateInv'
    BY <2>23 DEF KillList, At, ReadLock, Goto, TypeOK, CpuInv, StateInv
  <2>24. ASSUME NEW c \in CPUs, NEW p \in Procs, KillTry(c, p) PROVE StateInv'
    BY <2>24 DEF KillTry, At, Killed, ReadUnlock, Goto, TypeOK, CpuInv, StateInv
  <2>25. ASSUME NEW c \in CPUs, NEW p \in Procs, KillBusy(c, p) PROVE StateInv'
    BY <2>25 DEF KillBusy, At, ReadUnlock, Goto, TypeOK, CpuInv, StateInv
  <2>26. ASSUME NEW c \in CPUs, NEW p \in Procs, KillGiveUp(c, p) PROVE StateInv'
    BY <2>26 DEF KillGiveUp, At, Goto, TypeOK, CpuInv, StateInv
  <2>27. ASSUME NEW c \in CPUs, NEW p \in Procs, Timer(c, p) PROVE StateInv'
    BY <2>27 DEF Timer, At, Goto, TypeOK, CpuInv, StateInv
  <2>28. ASSUME NEW c \in CPUs, NEW p \in Procs, CallConsume(c, p) PROVE StateInv'
    BY <2>28 DEF CallConsume, At, Goto, TypeOK, CpuInv, StateInv
  <2>29. ASSUME NEW c \in CPUs, NEW p \in Procs, CallKill(c, p) PROVE StateInv'
    BY <2>29 DEF CallKill, At, Goto, TypeOK, CpuInv, StateInv
  <2>30. CASE UNCHANGED vars
    BY <2>30 DEF vars, procVars, listVars, killVars, condVars, TypeOK, CpuInv, StateInv
  <2> QED
    BY <2>1, <2>2, <2>3, <2>4, <2>5, <2>6, <2>7, <2>8, <2>9, <2>10, <2>11, <2>12, <2>13, <2>14, <2>15, <2>16, <2>17, <2>18, <2>19, <2>20, <2>21, <2>22, <2>23, <2>24, <2>25, <2>26, <2>27, <2>28, <2>29, <2>30, ZenonT(20) DEF Next, Scheduler, Event, Kernel

LEMMA ProcLockStep == TypeOK /\ SysInv /\ [Next]_vars => ProcLockInv'
  <2> SUFFICES ASSUME TypeOK, CpuInv, StateInv, ProcLockInv, LockInv, [Next]_vars PROVE ProcLockInv'
    BY Zenon DEF SysInv
  <2> USE SleepAssumption DEF procVars, listVars, killVars, condVars, Handler, ProcLocked
  <2>1. ASSUME NEW c \in CPUs, SchedLock(c) PROVE ProcLockInv'
    BY <2>1 DEF SchedLock, CpuGoto, TypeOK, CpuInv, StateInv, ProcLockInv
  <2>2. ASSUME NEW c \in CPUs, SchedSkip(c) PROVE ProcLockInv'
    BY <2>2 DEF SchedSkip, TypeOK, CpuInv, StateInv, ProcLockInv
  <2>3. ASSUME NEW c \in CPUs, SchedNone(c) PROVE ProcLockInv'
    BY <2>3 DEF SchedNone, CpuGoto, TypeOK, CpuInv, StateInv, ProcLockInv
  <2>4. ASSUME NEW c \in CPUs, SchedPick(c) PROVE ProcLockInv'
    BY <2>4, SMTT(30) DEF SchedPick, Lock, Runnable, CpuGoto, TypeOK, CpuInv, StateInv, ProcLockInv
  <2>5. ASSUME NEW c \in CPUs, SchedBack(c) PROVE ProcLockInv'
    BY <2>5 DEF SchedBack, Unlock, CpuGoto, TypeOK, CpuInv, StateInv, ProcLockInv
  <2>6. ASSUME NEW c \in CPUs, EventStart(c) PROVE ProcLockInv'
    BY <2>6 DEF EventStart, At, CpuGoto, TypeOK, CpuInv, StateInv, ProcLockInv
  <2>7. ASSUME NEW c \in CPUs, EventLock(c) PROVE ProcLockInv'
    BY <2>7 DEF EventLock, CpuGoto, TypeOK, CpuInv, StateInv, ProcLockInv
  <2>8. ASSUME NEW c \in CPUs, EventMake(c) PROVE ProcLockInv'
    BY <2>8 DEF EventMake, CpuGoto, TypeOK, CpuInv, StateInv, ProcLockInv
  <2>9. ASSUME NEW c \in CPUs, WakeupWaitLock(c) PROVE ProcLockInv'
    BY <2>9 DEF WakeupWaitLock, CpuGoto, TypeOK, CpuInv, StateInv, ProcLockInv
  <2>10. ASSUME NEW c \in CPUs, WakeupList(c) PROVE ProcLockInv'
    BY <2>10 DEF WakeupList, ReadLock, CpuGoto, TypeOK, CpuInv, StateInv, ProcLockInv
  <2>11. ASSUME NEW c \in CPUs, WakeupSelf(c) PROVE ProcLockInv'
    BY <2>11 DEF WakeupSelf, TypeOK, CpuInv, StateInv, ProcLockInv
  <2>12. ASSUME NEW c \in CPUs, WakeupVisit(c) PROVE ProcLockInv'
    BY <2>12 DEF WakeupVisit, TypeOK, CpuInv, StateInv, ProcLockInv
  <2>13. ASSUME NEW c \in CPUs, WakeupReturn(c) PROVE ProcLockInv'
    BY <2>13 DEF WakeupReturn, ReadUnlock, CpuGoto, TypeOK, CpuInv, StateInv, ProcLockInv
  <2>14. ASSUME NEW c \in CPUs, NEW p \in Procs, Yield(c, p) PROVE ProcLockInv'
    BY <2>14 DEF Yield, At, Lock, SwitchOut, Goto, CpuGoto, TypeOK, CpuInv, StateInv, ProcLockInv
  <2>15. ASSUME NEW c \in CPUs, NEW p \in Procs, YieldResume(c, p) PROVE ProcLockInv'
    BY <2>15 DEF YieldResume, At, Unlock, Goto, TypeOK, CpuInv, StateInv, ProcLockInv
  <2>16. ASSUME NEW c \in CPUs, NEW p \in Procs, ConsumeLock(c, p) PROVE ProcLockInv'
    BY <2>16 DEF ConsumeLock, At, Goto, TypeOK, CpuInv, StateInv, ProcLockInv
  <2>17. ASSUME NEW c \in CPUs, NEW p \in Procs, ConsumeReturn(c, p) PROVE ProcLockInv'
    BY <2>17 DEF ConsumeReturn, At, Goto, TypeOK, CpuInv, StateInv, ProcLockInv
  <2>18. ASSUME NEW c \in CPUs, NEW p \in Procs, ConsumeSleep(c, p) PROVE ProcLockInv'
    BY <2>18 DEF ConsumeSleep, At, Goto, TypeOK, CpuInv, StateInv, ProcLockInv
  <2>19. ASSUME NEW c \in CPUs, NEW p \in Procs, SleepLock(c, p) PROVE ProcLockInv'
    BY <2>19 DEF SleepLock, At, Lock, Goto, TypeOK, CpuInv, StateInv, ProcLockInv
  <2>20. ASSUME NEW c \in CPUs, NEW p \in Procs, SleepRelease(c, p) PROVE ProcLockInv'
    BY <2>20 DEF SleepRelease, At, Goto, TypeOK, CpuInv, StateInv, ProcLockInv
  <2>21. ASSUME NEW c \in CPUs, NEW p \in Procs, SleepSched(c, p) PROVE ProcLockInv'
    BY <2>21 DEF SleepSched, At, SwitchOut, Goto, CpuGoto, TypeOK, CpuInv, StateInv, ProcLockInv
  <2>22. ASSUME NEW c \in CPUs, NEW p \in Procs, SleepResume(c, p) PROVE ProcLockInv'
    BY <2>22 DEF SleepResume, At, Unlock, Goto, TypeOK, CpuInv, StateInv, ProcLockInv
  <2>23. ASSUME NEW c \in CPUs, NEW p \in Procs, KillList(c, p) PROVE ProcLockInv'
    BY <2>23 DEF KillList, At, ReadLock, Goto, TypeOK, CpuInv, StateInv, ProcLockInv
  <2>24. ASSUME NEW c \in CPUs, NEW p \in Procs, KillTry(c, p) PROVE ProcLockInv'
    BY <2>24 DEF KillTry, At, Killed, ReadUnlock, Goto, TypeOK, CpuInv, StateInv, ProcLockInv
  <2>25. ASSUME NEW c \in CPUs, NEW p \in Procs, KillBusy(c, p) PROVE ProcLockInv'
    BY <2>25 DEF KillBusy, At, ReadUnlock, Goto, TypeOK, CpuInv, StateInv, ProcLockInv
  <2>26. ASSUME NEW c \in CPUs, NEW p \in Procs, KillGiveUp(c, p) PROVE ProcLockInv'
    BY <2>26 DEF KillGiveUp, At, Goto, TypeOK, CpuInv, StateInv, ProcLockInv
  <2>27. ASSUME NEW c \in CPUs, NEW p \in Procs, Timer(c, p) PROVE ProcLockInv'
    BY <2>27 DEF Timer, At, Goto, TypeOK, CpuInv, StateInv, ProcLockInv
  <2>28. ASSUME NEW c \in CPUs, NEW p \in Procs, CallConsume(c, p) PROVE ProcLockInv'
    BY <2>28 DEF CallConsume, At, Goto, TypeOK, CpuInv, StateInv, ProcLockInv
  <2>29. ASSUME NEW c \in CPUs, NEW p \in Procs, CallKill(c, p) PROVE ProcLockInv'
    BY <2>29 DEF CallKill, At, Goto, TypeOK, CpuInv, StateInv, ProcLockInv
  <2>30. CASE UNCHANGED vars
    BY <2>30 DEF vars, procVars, listVars, killVars, condVars, TypeOK, CpuInv, StateInv, ProcLockInv
  <2> QED
    BY <2>1, <2>2, <2>3, <2>4, <2>5, <2>6, <2>7, <2>8, <2>9, <2>10, <2>11, <2>12, <2>13, <2>14, <2>15, <2>16, <2>17, <2>18, <2>19, <2>20, <2>21, <2>22, <2>23, <2>24, <2>25, <2>26, <2>27, <2>28, <2>29, <2>30, Zenon DEF Next, Scheduler, Event, Kernel

LEMMA LockStep == TypeOK /\ SysInv /\ [Next]_vars => LockInv'
  <2> SUFFICES ASSUME TypeOK, CpuInv, StateInv, ProcLockInv, LockInv, [Next]_vars PROVE LockInv'
    BY Zenon DEF SysInv
  <2> USE SleepAssumption DEF procVars, listVars, killVars, condVars, Handler, CondLocked
  <2>1. ASSUME NEW c \in CPUs, SchedLock(c) PROVE LockInv'
    BY <2>1 DEF SchedLock, CpuGoto, TypeOK, CpuInv, LockInv
  <2>2. ASSUME NEW c \in CPUs, SchedSkip(c) PROVE LockInv'
    BY <2>2, Zenon DEF SchedSkip, TypeOK, CpuInv, LockInv
  <2>3. ASSUME NEW c \in CPUs, SchedNone(c) PROVE LockInv'
    BY <2>3 DEF SchedNone, CpuGoto, TypeOK, CpuInv, LockInv
  <2>4. ASSUME NEW c \in CPUs, SchedPick(c) PROVE LockInv'
    <3>1. PICK p \in Procs : /\ ppc[p] \in {"y_resume", "s_resume"}
                             /\ \A d \in CPUs : cpu_proc[d] # p
                             /\ cpu_proc' = [cpu_proc EXCEPT ![c] = p]
      BY <2>4, PickFree, Zenon
    <3> QED
      BY <2>4, <3>1 DEF SchedPick, CpuGoto, TypeOK, CpuInv, LockInv
  <2>5. ASSUME NEW c \in CPUs, SchedBack(c) PROVE LockInv'
    BY <2>5 DEF SchedBack, Unlock, CpuGoto, TypeOK, CpuInv, LockInv
  <2>6. ASSUME NEW c \in CPUs, EventStart(c) PROVE LockInv'
    BY <2>6 DEF EventStart, At, CpuGoto, TypeOK, CpuInv, LockInv
  <2>7. ASSUME NEW c \in CPUs, EventLock(c) PROVE LockInv'
    BY <2>7 DEF EventLock, CpuGoto, TypeOK, CpuInv, LockInv
  <2>8. ASSUME NEW c \in CPUs, EventMake(c) PROVE LockInv'
    BY <2>8 DEF EventMake, CpuGoto, TypeOK, CpuInv, LockInv
  <2>9. ASSUME NEW c \in CPUs, WakeupWaitLock(c) PROVE LockInv'
    BY <2>9 DEF WakeupWaitLock, CpuGoto, TypeOK, CpuInv, LockInv
  <2>10. ASSUME NEW c \in CPUs, WakeupList(c) PROVE LockInv'
    BY <2>10 DEF WakeupList, ReadLock, CpuGoto, TypeOK, CpuInv, LockInv
  <2>11. ASSUME NEW c \in CPUs, WakeupSelf(c) PROVE LockInv'
    BY <2>11, Zenon DEF WakeupSelf, TypeOK, CpuInv, LockInv
  <2>12. ASSUME NEW c \in CPUs, WakeupVisit(c) PROVE LockInv'
    BY <2>12, Zenon DEF WakeupVisit, TypeOK, CpuInv, LockInv
  <2>13. ASSUME NEW c \in CPUs, WakeupReturn(c) PROVE LockInv'
    BY <2>13 DEF WakeupReturn, ReadUnlock, CpuGoto, TypeOK, CpuInv, LockInv
  <2>14. ASSUME NEW c \in CPUs, NEW p \in Procs, Yield(c, p) PROVE LockInv'
    BY <2>14 DEF Yield, At, Lock, SwitchOut, Goto, CpuGoto, TypeOK, CpuInv, LockInv
  <2>15. ASSUME NEW c \in CPUs, NEW p \in Procs, YieldResume(c, p) PROVE LockInv'
    BY <2>15, ZenonT(20) DEF YieldResume, At, Unlock, Goto, TypeOK, CpuInv, LockInv
  <2>16. ASSUME NEW c \in CPUs, NEW p \in Procs, ConsumeLock(c, p) PROVE LockInv'
    BY <2>16 DEF ConsumeLock, At, Goto, TypeOK, CpuInv, LockInv
  <2>17. ASSUME NEW c \in CPUs, NEW p \in Procs, ConsumeReturn(c, p) PROVE LockInv'
    BY <2>17 DEF ConsumeReturn, At, Goto, TypeOK, CpuInv, LockInv
  <2>18. ASSUME NEW c \in CPUs, NEW p \in Procs, ConsumeSleep(c, p) PROVE LockInv'
    BY <2>18, Zenon DEF ConsumeSleep, At, Goto, TypeOK, CpuInv, LockInv
  <2>19. ASSUME NEW c \in CPUs, NEW p \in Procs, SleepLock(c, p) PROVE LockInv'
    BY <2>19 DEF SleepLock, At, Lock, Goto, TypeOK, CpuInv, LockInv
  <2>20. ASSUME NEW c \in CPUs, NEW p \in Procs, SleepRelease(c, p) PROVE LockInv'
    BY <2>20 DEF SleepRelease, At, Goto, TypeOK, CpuInv, LockInv
  <2>21. ASSUME NEW c \in CPUs, NEW p \in Procs, SleepSched(c, p) PROVE LockInv'
    BY <2>21 DEF SleepSched, At, SwitchOut, Goto, CpuGoto, TypeOK, CpuInv, LockInv
  <2>22. ASSUME NEW c \in CPUs, NEW p \in Procs, SleepResume(c, p) PROVE LockInv'
    BY <2>22, ZenonT(20) DEF SleepResume, At, Unlock, Goto, TypeOK, CpuInv, LockInv
  <2>23. ASSUME NEW c \in CPUs, NEW p \in Procs, KillList(c, p) PROVE LockInv'
    BY <2>23, ZenonT(20) DEF KillList, At, ReadLock, Goto, TypeOK, CpuInv, LockInv
  <2>24. ASSUME NEW c \in CPUs, NEW p \in Procs, KillTry(c, p) PROVE LockInv'
    BY <2>24 DEF KillTry, At, Killed, ReadUnlock, Goto, TypeOK, CpuInv, LockInv
  <2>25. ASSUME NEW c \in CPUs, NEW p \in Procs, KillBusy(c, p) PROVE LockInv'
    BY <2>25 DEF KillBusy, At, ReadUnlock, Goto, TypeOK, CpuInv, LockInv
  <2>26. ASSUME NEW c \in CPUs, NEW p \in Procs, KillGiveUp(c, p) PROVE LockInv'
    BY <2>26, ZenonT(20) DEF KillGiveUp, At, Goto, TypeOK, CpuInv, LockInv
  <2>27. ASSUME NEW c \in CPUs, NEW p \in Procs, Timer(c, p) PROVE LockInv'
    BY <2>27, ZenonT(20) DEF Timer, At, Goto, TypeOK, CpuInv, LockInv
  <2>28. ASSUME NEW c \in CPUs, NEW p \in Procs, CallConsume(c, p) PROVE LockInv'
    BY <2>28, ZenonT(20) DEF CallConsume, At, Goto, TypeOK, CpuInv, LockInv
  <2>29. ASSUME NEW c \in CPUs, NEW p \in Procs, CallKill(c, p) PROVE LockInv'
    BY <2>29, Zenon DEF CallKill, At, Goto, TypeOK, CpuInv, LockInv
  <2>30. CASE UNCHANGED vars
    BY <2>30, Zenon DEF vars, procVars, listVars, killVars, condVars, TypeOK, CpuInv, LockInv
  <2> QED
    BY <2>1, <2>2, <2>3, <2>4, <2>5, <2>6, <2>7, <2>8, <2>9, <2>10, <2>11, <2>12, <2>13, <2>14, <2>15, <2>16, <2>17, <2>18, <2>19, <2>20, <2>21, <2>22, <2>23, <2>24, <2>25, <2>26, <2>27, <2>28, <2>29, <2>30, Zenon DEF Next, Scheduler, Event, Kernel

(* Nobody goes to sleep while there is an event, and once an event is      *)
(* there everybody who waits will be woken by the wakeup() under way.      *)
(* Those a wakeup() still owes are ahead of it in the list.                *)
AboutToSleep == {"s_lock", "s_release"}
EventInv == \A p \in Procs : ppc[p] \in AboutToSleep => events = 0
OwedInv ==
    \A c \in CPUs : /\ owed[c] \subseteq Waiting
                    /\ cpc[c] \notin InWakeup => owed[c] = {}
                    /\ cpc[c] = "h_visit" => \A p \in owed[c] : \E i \in at[c]..Len(plist) : plist[i] = p
CoverInv ==
    events > 0 /\ Waiting # {} => lk \in CPUs /\ cpc[lk] \in InWakeup /\ Waiting \subseteq owed[lk]
WakeInv == EventInv /\ OwedInv /\ CoverInv

IInv == TypeOK /\ KillInv /\ DueInv /\ ListInv /\ SysInv /\ WakeInv
-----------------------------------------------------------------------------
(* A process that is about to sleep has its lock held, so that neither     *)
(* wakeup() nor kill gets past it.                                         *)
LEMMA LockedSleeper ==
    ASSUME TypeOK, CpuInv, StateInv, ProcLockInv, NEW p \in Procs, plock[p] = None
    PROVE  ppc[p] # "s_sched"
  <1> SUFFICES ASSUME ppc[p] = "s_sched" PROVE FALSE
    BY Zenon
  <1>1. PICK c \in CPUs : cpu_proc[c] = p /\ cpc[c] # "back"
    BY Zenon DEF StateInv
  <1>2. cpc[c] = "run"
    BY <1>1, SleepAssumption, Zenon DEF CpuInv, TypeOK, CpuLabels, Handler
  <1>3. plock[p] = c
    BY <1>1, <1>2 DEF ProcLockInv, ProcLocked
  <1> QED
    BY <1>3, SleepAssumption, Zenon

LabelsOK ==
    /\ ppc \in [Procs -> UserLabels] /\ cpc \in [CPUs -> CpuLabels] /\ at \in [CPUs -> Nat]
    /\ state \in [Procs -> {"RUNNABLE", "RUNNING", "SLEEPING"}] /\ chan \in [Procs -> {"c", None}]

LEMMA LabelsAre == TypeOK => LabelsOK
<1> SUFFICES ASSUME TypeOK PROVE LabelsOK
  BY Zenon
<1>1. Len(plist) \in Nat /\ at \in [CPUs -> 1..(Len(plist) + 1)]
  BY DEF TypeOK
<1>2. at \in [CPUs -> Nat]
  BY <1>1
<1> QED
  BY <1>2, Zenon DEF TypeOK, LabelsOK

LEMMA OnCpuRuns ==
    ASSUME StateInv, NEW c \in CPUs, NEW p \in Procs, cpc[c] = "run", cpu_proc[c] = p
    PROVE  state[p] = "RUNNING"
  BY Zenon DEF StateInv

(* Steps that have no part in sleeping and waking.                         *)
Quiet ==
    /\ Waiting' = Waiting /\ UNCHANGED <<events, owed, plist, killed>>
    /\ lk' = lk \/ lk = None
    /\ \A p \in Procs : ppc'[p] \in AboutToSleep => ppc[p] \in AboutToSleep \/ events = 0
    /\ \A c \in CPUs : /\ cpc'[c] \in InWakeup <=> cpc[c] \in InWakeup
                       /\ cpc'[c] = "h_visit" => cpc[c] = "h_visit" /\ at'[c] = at[c]

LEMMA QuietKeeps ==
    ASSUME WakeInv, Quiet, None \notin CPUs
    PROVE  WakeInv'
<1>1. EventInv'
  BY Zenon DEF Quiet, WakeInv, EventInv
<1>2. OwedInv'
  BY Zenon DEF Quiet, WakeInv, OwedInv
<1>3. CoverInv'
  BY Zenon DEF Quiet, WakeInv, CoverInv
<1> QED
  BY <1>1, <1>2, <1>3, Zenon DEF WakeInv

LEMMA MadeRunnable ==
    ASSUME LabelsOK, NEW p \in Procs, ppc[p] # "s_sched",
           state' = [state EXCEPT ![p] = "RUNNABLE"], UNCHANGED <<chan, ppc>>
    PROVE  Waiting' = Waiting \ {p}
<1>1. \A q \in Procs : state'[q] = IF q = p THEN "RUNNABLE" ELSE state[q]
  BY Zenon DEF LabelsOK
<1>2. \A q : q \in Waiting' <=> q \in Waiting \ {p}
  BY <1>1 DEF Waiting
<1> QED
  BY <1>2, Zenon

(* wakeup() or kill makes v runnable; wakeup() goes on in the list.        *)
Wakes(v) ==
    /\ Waiting' = Waiting \ {v} /\ \A d \in CPUs : owed'[d] = owed[d] \ {v}
    /\ UNCHANGED <<events, lk, cpc, plist>>
    /\ \A p \in Procs : ppc'[p] \in AboutToSleep => ppc[p] \in AboutToSleep
    /\ \A d \in CPUs : cpc[d] = "h_visit" => at'[d] = at[d] \/ (at'[d] = at[d] + 1 /\ plist[at[d]] = v)

LEMMA WakesKeeps ==
    ASSUME WakeInv, LabelsOK, plist \in Seq(Procs), NEW v, Wakes(v)
    PROVE  WakeInv'
<1>1. EventInv'
  BY Zenon DEF Wakes, WakeInv, EventInv
<1>2. ASSUME NEW d \in CPUs, cpc[d] = "h_visit", NEW q \in owed'[d]
      PROVE  \E i \in at'[d]..Len(plist) : plist[i] = q
  <2>1. q \in owed[d] /\ q # v
    BY <1>2, Zenon DEF Wakes
  <2>2. PICK i \in at[d]..Len(plist) : plist[i] = q
    BY <1>2, <2>1, Zenon DEF WakeInv, OwedInv
  <2>3. at[d] \in Nat /\ Len(plist) \in Nat
    BY DEF LabelsOK
  <2>4. i \in at'[d]..Len(plist)
    BY <1>2, <2>1, <2>2, <2>3 DEF Wakes
  <2> QED
    BY <2>2, <2>4, Zenon
<1>3. \A d \in CPUs : owed'[d] \subseteq Waiting' /\ (cpc'[d] \notin InWakeup => owed'[d] = {})
  BY DEF Wakes, WakeInv, OwedInv
<1>6. UNCHANGED <<cpc, plist>>
  BY Zenon DEF Wakes
<1>5. OwedInv'
  BY <1>2, <1>3, <1>6, Zenon DEF OwedInv
<1>4. CoverInv'
  <2>1. /\ Waiting' = Waiting \ {v} /\ lk' = lk /\ events' = events /\ cpc' = cpc
        /\ \A d \in CPUs : owed'[d] = owed[d] \ {v}
    BY Zenon DEF Wakes
  <2>2. ASSUME events' > 0, Waiting' # {}
        PROVE  lk' \in CPUs /\ cpc'[lk'] \in InWakeup /\ Waiting' \subseteq owed'[lk']
    <3>1. lk \in CPUs /\ cpc[lk] \in InWakeup /\ Waiting \subseteq owed[lk]
      BY <2>1, <2>2, Zenon DEF WakeInv, CoverInv
    <3> QED
      BY <2>1, <3>1, Zenon
  <2> QED
    BY <2>2, Zenon DEF CoverInv
<1> QED
  BY <1>1, <1>4, <1>5, Zenon DEF WakeInv

QuietStep(c) ==
    \/ SchedLock(c) \/ SchedSkip(c) \/ SchedNone(c) \/ SchedBack(c)
    \/ EventStart(c) \/ EventLock(c) \/ WakeupWaitLock(c)
    \/ \E p \in Procs :
        \/ Yield(c, p) \/ YieldResume(c, p) \/ ConsumeLock(c, p) \/ ConsumeSleep(c, p)
        \/ SleepLock(c, p) \/ SleepSched(c, p) \/ SleepResume(c, p) \/ KillList(c, p)
        \/ KillBusy(c, p) \/ KillGiveUp(c, p) \/ Timer(c, p) \/ CallConsume(c, p)
        \/ CallKill(c, p)

LEMMA QuietSteps ==
    ASSUME TypeOK, StateInv, NEW c \in CPUs, QuietStep(c)
    PROVE  Quiet
<1> USE LabelsAre, SleepAssumption DEF procVars, listVars, killVars, condVars, LabelsOK, Quiet, InWakeup, AboutToSleep, Waiting
<1>1. ASSUME SchedLock(c) PROVE Quiet
  BY <1>1, Zenon DEF SchedLock, CpuGoto
<1>2. ASSUME SchedSkip(c) PROVE Quiet
  BY <1>2, Zenon DEF SchedSkip
<1>3. ASSUME SchedNone(c) PROVE Quiet
  BY <1>3, Zenon DEF SchedNone, CpuGoto
<1>4. ASSUME SchedBack(c) PROVE Quiet
  BY <1>4, Zenon DEF SchedBack, CpuGoto
<1>5. ASSUME EventStart(c) PROVE Quiet
  <2>1. cpc[c] \in {"sched", "run"} /\ cpc' = [cpc EXCEPT ![c] = "h_lock"] /\ UNCHANGED <<state, chan, killed, plist, at, ppc, lk, events, owed>>
    BY <1>5, Zenon DEF EventStart, CpuGoto, At
  <2> QED
    BY <2>1, Zenon
<1>6. ASSUME EventLock(c) PROVE Quiet
  BY <1>6, Zenon DEF EventLock, CpuGoto
<1>7. ASSUME WakeupWaitLock(c) PROVE Quiet
  BY <1>7, Zenon DEF WakeupWaitLock, CpuGoto
<1>8. ASSUME NEW p \in Procs, Yield(c, p) PROVE Quiet
  BY <1>8, OnCpuRuns, Zenon DEF Yield, At, SwitchOut, Goto, CpuGoto
<1>9. ASSUME NEW p \in Procs, YieldResume(c, p) PROVE Quiet
  BY <1>9, Zenon DEF YieldResume, At, Goto
<1>10. ASSUME NEW p \in Procs, ConsumeLock(c, p) PROVE Quiet
  BY <1>10, Zenon DEF ConsumeLock, At, Goto
<1>11. ASSUME NEW p \in Procs, ConsumeSleep(c, p) PROVE Quiet
  BY <1>11, Zenon DEF ConsumeSleep, At, Goto
<1>12. ASSUME NEW p \in Procs, SleepLock(c, p) PROVE Quiet
  BY <1>12, Zenon DEF SleepLock, At, Goto
<1>13. ASSUME NEW p \in Procs, SleepSched(c, p) PROVE Quiet
  BY <1>13, Zenon DEF SleepSched, At, SwitchOut, Goto, CpuGoto
<1>14. ASSUME NEW p \in Procs, SleepResume(c, p) PROVE Quiet
  BY <1>14, OnCpuRuns, Zenon DEF SleepResume, At, Goto
<1>15. ASSUME NEW p \in Procs, KillList(c, p) PROVE Quiet
  BY <1>15, ZenonT(20) DEF KillList, At, ReadLock, Goto
<1>16. ASSUME NEW p \in Procs, KillBusy(c, p) PROVE Quiet
  BY <1>16, Zenon DEF KillBusy, At, ReadUnlock, Goto
<1>17. ASSUME NEW p \in Procs, KillGiveUp(c, p) PROVE Quiet
  BY <1>17, Zenon DEF KillGiveUp, At, Goto
<1>18. ASSUME NEW p \in Procs, Timer(c, p) PROVE Quiet
  BY <1>18, Zenon DEF Timer, At, Goto
<1>19. ASSUME NEW p \in Procs, CallConsume(c, p) PROVE Quiet
  BY <1>19, Zenon DEF CallConsume, At, Goto
<1>20. ASSUME NEW p \in Procs, CallKill(c, p) PROVE Quiet
  BY <1>20, Zenon DEF CallKill, At, Goto
<1> QED
  BY <1>1, <1>2, <1>3, <1>4, <1>5, <1>6, <1>7, <1>8, <1>9, <1>10, <1>11, <1>12, <1>13, <1>14, <1>15, <1>16, <1>17, <1>18, <1>19, <1>20, ZenonT(30) DEF QuietStep

(* No wakeup is lost.                                                      *)
LEMMA WakeStep == TypeOK /\ KillInv /\ ListInv /\ SysInv /\ WakeInv /\ [Next]_vars => WakeInv'
  <2> SUFFICES ASSUME TypeOK, KillInv, ListInv, CpuInv, StateInv, ProcLockInv, LockInv, WakeInv, [Next]_vars
               PROVE  WakeInv'
    BY Zenon DEF SysInv
  <2>a. LabelsOK /\ plist \in Seq(Procs) /\ None \notin CPUs /\ owed \in [CPUs -> SUBSET Procs] /\ events \in Nat
    BY LabelsAre, SleepAssumption DEF TypeOK
  <2>0. ASSUME NEW c \in CPUs, QuietStep(c) PROVE WakeInv'
    BY <2>0, <2>a, QuietSteps, QuietKeeps, Zenon
  <2>4. ASSUME NEW c \in CPUs, SchedPick(c) PROVE WakeInv'
    <3>1. PICK p \in Procs : p = plist[at[c]] /\ state[p] = "RUNNABLE" /\ ppc[p] \in {"y_resume", "s_resume"}
      BY <2>4, PickFree, Zenon
    <3>2. /\ state' = [state EXCEPT ![p] = "RUNNING"] /\ cpc' = [cpc EXCEPT ![c] = "run"] /\ cpc[c] = "scan"
          /\ UNCHANGED <<chan, ppc, events, lk, owed>>
      BY <2>4, <3>1, ZenonT(30) DEF SchedPick, CpuGoto, condVars
    <3>3. Waiting' = Waiting
      BY <2>a, <3>1, <3>2, Zenon DEF Waiting, LabelsOK
    <3>4. \A d \in CPUs : cpc[d] # "h_visit"
      <4>1. writer = c
        BY <3>2, ZenonT(20) DEF LockInv
      <4>2. readers = {}
        BY <2>a, <4>1, ZenonT(20) DEF LockInv
      <4> QED
        BY <4>2, Zenon DEF LockInv
    <3>5. \A d \in CPUs : cpc'[d] # "h_visit" /\ (cpc'[d] \in InWakeup <=> cpc[d] \in InWakeup)
      BY <2>a, <3>2, <3>4, Zenon DEF LabelsOK, InWakeup
    <3>6. UNCHANGED <<ppc, events, lk, owed>>
      BY <3>2, Zenon
    <3>7. EventInv' /\ OwedInv'
      BY <3>3, <3>5, <3>6, Zenon DEF WakeInv, EventInv, OwedInv
    <3>8. CoverInv'
      BY <3>3, <3>5, <3>6, Zenon DEF WakeInv, CoverInv
    <3> QED
      BY <3>7, <3>8, ZenonT(20) DEF WakeInv
  <2>8. ASSUME NEW c \in CPUs, EventMake(c) PROVE WakeInv'
    <3>1. /\ cpc[c] = "h_event" /\ cpc' = [cpc EXCEPT ![c] = "h_wait"] /\ owed' = [owed EXCEPT ![c] = Waiting]
          /\ UNCHANGED <<state, chan, ppc, plist, at, lk>>
      BY <2>8, Zenon DEF EventMake, CpuGoto, procVars, listVars
    <3>2. Waiting' = Waiting /\ Waiting \subseteq Procs
      BY <3>1, Zenon DEF Waiting
    <3>3. lk = c
      BY <3>1, Zenon DEF LockInv, Handler
    <3>4. \A p \in Procs : ppc[p] \notin AboutToSleep
      <4> SUFFICES ASSUME NEW p \in Procs, ppc[p] \in {"s_lock", "s_release"} PROVE FALSE
        BY Zenon DEF AboutToSleep
      <4>1. PICK d \in CPUs : cpu_proc[d] = p /\ cpc[d] # "back"
        BY Zenon DEF StateInv
      <4>2. cpc[d] = "run"
        BY <2>a, <4>1, SleepAssumption, ZenonT(20) DEF CpuInv, LabelsOK, CpuLabels, Handler
      <4>3. lk = d
        BY <4>1, <4>2, Zenon DEF LockInv, CondLocked
      <4> QED
        BY <3>1, <3>3, <4>2, <4>3, Zenon
    <3>5. EventInv'
      BY <3>1, <3>4, Zenon DEF EventInv
    <3>6. OwedInv'
      BY <2>a, <3>1, <3>2 DEF LabelsOK, WakeInv, OwedInv, InWakeup
    <3>7. CoverInv'
      BY <2>a, <3>1, <3>2, <3>3, Zenon DEF LabelsOK, CoverInv, InWakeup
    <3> QED
      BY <3>5, <3>6, <3>7, Zenon DEF WakeInv
  <2>10. ASSUME NEW c \in CPUs, WakeupList(c) PROVE WakeInv'
    <3>1. /\ cpc[c] = "h_list" /\ cpc' = [cpc EXCEPT ![c] = "h_visit"] /\ at' = [at EXCEPT ![c] = 1]
          /\ UNCHANGED <<state, chan, ppc, plist, events, owed, lk>>
      BY <2>10, Zenon DEF WakeupList, ReadLock, CpuGoto, procVars, condVars
    <3>2. Waiting' = Waiting
      BY <3>1, Zenon DEF Waiting
    <3>3. \A p \in owed[c] : \E i \in at'[c]..Len(plist) : plist[i] = p
      BY <2>a, <3>1, Zenon DEF ListInv, LabelsOK
    <3>4. OwedInv'
      BY <2>a, <3>1, <3>2, <3>3 DEF LabelsOK, WakeInv, OwedInv, InWakeup
    <3>5. EventInv' /\ CoverInv'
      BY <2>a, <3>1, <3>2, Zenon DEF LabelsOK, WakeInv, EventInv, CoverInv, InWakeup
    <3> QED
      BY <3>4, <3>5, Zenon DEF WakeInv
  <2>11. ASSUME NEW c \in CPUs, WakeupSelf(c) PROVE WakeInv'
    <3> DEFINE p == plist[at[c]]
    <3>1. /\ cpc[c] = "h_visit" /\ at' = [at EXCEPT ![c] = @ + 1] /\ at[c] <= Len(plist) /\ p = cpu_proc[c]
          /\ UNCHANGED <<state, chan, cpc, ppc, plist, events, owed, lk>>
      BY <2>11, ZenonT(30) DEF WakeupSelf, procVars, listVars, condVars
    <3>2. p \in Procs
      BY <3>1 DEF TypeOK
    <3> HIDE DEF p
    <3>3. ppc[p] = "user" /\ state[p] = "RUNNING"
      BY <3>1, <3>2, SleepAssumption, Zenon DEF CpuInv, StateInv, Handler
    <3>4. p \notin Waiting
      BY <3>3, Zenon DEF Waiting
    <3>5. \A d \in CPUs : p \notin owed[d]
      BY <3>4, ZenonT(20) DEF WakeInv, OwedInv
    <3>6. Waiting' = Waiting
      BY <3>1, ZenonT(20) DEF Waiting
    <3>7. Wakes(p)
      BY <2>a, <3>1, <3>4, <3>5, <3>6, Zenon DEF Wakes, LabelsOK, p
    <3> QED
      BY <2>a, <3>7, WakesKeeps, Zenon
  <2>12. ASSUME NEW c \in CPUs, WakeupVisit(c) PROVE WakeInv'
    <3> DEFINE p == plist[at[c]]
    <3>1. /\ cpc[c] = "h_visit" /\ at' = [at EXCEPT ![c] = @ + 1] /\ at[c] <= Len(plist) /\ plock[p] = None
          /\ UNCHANGED <<chan, cpc, ppc, plist, events, lk>>
      BY <2>12, Zenon DEF WakeupVisit, listVars
    <3>2. p \in Procs
      BY <3>1 DEF TypeOK
    <3>3. ppc[p] # "s_sched"
      BY <3>1, <3>2, LockedSleeper, ZenonT(20)
    <3>4. \/ state[p] = "SLEEPING" /\ chan[p] = "c" /\ state' = [state EXCEPT ![p] = "RUNNABLE"] /\ owed' = [d \in CPUs |-> owed[d] \ {p}]
          \/ ~(state[p] = "SLEEPING" /\ chan[p] = "c") /\ UNCHANGED <<state, owed>>
      BY <2>12, Zenon DEF WakeupVisit
    <3> HIDE DEF p
    <3>5. CASE state[p] = "SLEEPING" /\ chan[p] = "c" /\ state' = [state EXCEPT ![p] = "RUNNABLE"] /\ owed' = [d \in CPUs |-> owed[d] \ {p}]
      <4>1. Waiting' = Waiting \ {p}
        BY <2>a, <3>1, <3>2, <3>3, <3>5, MadeRunnable, Zenon
      <4>2. Wakes(p)
        BY <2>a, <3>1, <3>5, <4>1, ZenonT(30) DEF Wakes, LabelsOK, p
      <4> QED
        BY <2>a, <4>2, WakesKeeps, Zenon
    <3>6. CASE ~(state[p] = "SLEEPING" /\ chan[p] = "c") /\ UNCHANGED <<state, owed>>
      <4>1. p \notin Waiting
        BY <3>3, <3>6, ZenonT(20) DEF Waiting
      <4>2. \A d \in CPUs : p \notin owed[d]
        BY <4>1, Zenon DEF WakeInv, OwedInv
      <4>3. Waiting' = Waiting
        BY <3>1, <3>6, ZenonT(20) DEF Waiting
      <4>4. Wakes(p)
        BY <2>a, <3>1, <3>6, <4>1, <4>2, <4>3 DEF Wakes, LabelsOK, p
      <4> QED
        BY <2>a, <4>4, WakesKeeps, Zenon
    <3> QED
      BY <3>4, <3>5, <3>6, ZenonT(20)
  <2>13. ASSUME NEW c \in CPUs, WakeupReturn(c) PROVE WakeInv'
    <3>1. /\ cpc[c] = "h_visit" /\ at[c] > Len(plist) /\ at' = [at EXCEPT ![c] = 1]
          /\ cpc' = [cpc EXCEPT ![c] = IF cpu_proc[c] = None THEN "sched" ELSE "run"]
          /\ UNCHANGED <<state, chan, ppc, plist, events, owed>>
      BY <2>13, Zenon DEF WakeupReturn, ReadUnlock, CpuGoto, procVars
    <3>2. Waiting' = Waiting
      BY <3>1, Zenon DEF Waiting
    <3>3. lk = c
      BY <3>1, Zenon DEF LockInv, Handler
    <3>4. owed[c] = {}
      BY <2>a, <3>1 DEF WakeInv, OwedInv, LabelsOK
    <3>5. ~(events > 0 /\ Waiting # {})
      BY <3>3, <3>4, Zenon DEF WakeInv, CoverInv
    <3>6. \A d \in CPUs : d # c => cpc'[d] = cpc[d] /\ at'[d] = at[d]
      BY <2>a, <3>1, Zenon DEF LabelsOK
    <3>7. cpc'[c] \notin InWakeup
      BY <2>a, <3>1, Zenon DEF LabelsOK, InWakeup
    <3>8. EventInv' /\ CoverInv'
      BY <3>1, <3>2, <3>5, ZenonT(20) DEF WakeInv, EventInv, CoverInv
    <3>9. OwedInv'
      BY <3>1, <3>2, <3>4, <3>6, <3>7 DEF WakeInv, OwedInv, InWakeup
    <3> QED
      BY <3>8, <3>9, Zenon DEF WakeInv
  <2>17. ASSUME NEW c \in CPUs, NEW p \in Procs, ConsumeReturn(c, p) PROVE WakeInv'
    <3>1. /\ ppc[p] = "c_check" /\ ppc' = [ppc EXCEPT ![p] = "user"] /\ cpc[c] = "run" /\ cpu_proc[c] = p
          /\ events' = events \/ (events > 0 /\ events' = events - 1)
          /\ UNCHANGED <<state, chan, cpc, at, plist, owed>>
      BY <2>17, Zenon DEF ConsumeReturn, At, Goto, procVars, listVars
    <3>2. Waiting' = Waiting
      BY <2>a, <3>1, Zenon DEF Waiting, LabelsOK
    <3>3. lk = c
      BY <3>1, Zenon DEF LockInv, CondLocked
    <3>4. ~(events > 0 /\ Waiting # {})
      BY <3>1, <3>3, Zenon DEF WakeInv, CoverInv, InWakeup
    <3>5. OwedInv'
      BY <3>1, <3>2, Zenon DEF WakeInv, OwedInv
    <3>6. \A q \in Procs : ppc'[q] \in AboutToSleep => ppc[q] \in AboutToSleep
      BY <2>a, <3>1, Zenon DEF LabelsOK, AboutToSleep
    <3>7. EventInv'
      BY <2>a, <3>1, <3>6 DEF WakeInv, EventInv
    <3>8. CoverInv'
      BY <2>a, <3>1, <3>2, <3>4, Zenon DEF WakeInv, CoverInv
    <3> QED
      BY <3>5, <3>7, <3>8, Zenon DEF WakeInv
  <2>20. ASSUME NEW c \in CPUs, NEW p \in Procs, SleepRelease(c, p) PROVE WakeInv'
    <3>1. /\ ppc[p] = "s_release" /\ ppc' = [ppc EXCEPT ![p] = "s_sched"]
          /\ UNCHANGED <<state, chan, cpc, at, plist, events, owed>>
      BY <2>20, Zenon DEF SleepRelease, At, Goto, procVars, listVars
    <3>2. events = 0
      BY <3>1, Zenon DEF WakeInv, EventInv, AboutToSleep
    <3>3. Waiting \subseteq Waiting'
      BY <2>a, <3>1, Zenon DEF Waiting, LabelsOK
    <3>4. OwedInv'
      BY <3>1, <3>3, Zenon DEF WakeInv, OwedInv
    <3>5. EventInv' /\ CoverInv'
      BY <3>1, <3>2 DEF EventInv, CoverInv
    <3> QED
      BY <3>4, <3>5, Zenon DEF WakeInv
  <2>24. ASSUME NEW c \in CPUs, NEW p \in Procs, KillTry(c, p) PROVE WakeInv'
    <3>1. PICK v \in Procs : v = target[p]
      BY <2>24, Zenon DEF KillTry, At, KillInv
    <3>2. /\ plock[v] = None /\ ppc[p] = "k_try" /\ ppc' = [ppc EXCEPT ![p] = "user"]
          /\ state' = [state EXCEPT ![v] = IF @ = "SLEEPING" THEN "RUNNABLE" ELSE @]
          /\ owed' = [d \in CPUs |-> owed[d] \ {v}]
          /\ UNCHANGED <<chan, cpc, at, plist, events, lk>>
      BY <2>24, <3>1, ZenonT(20) DEF KillTry, Killed, At, Goto, ReadUnlock
    <3>3. ppc[v] # "s_sched"
      BY <3>2, LockedSleeper, Zenon
    <3>4. Waiting' = Waiting \ {v}
      BY <2>a, <3>2, <3>3, Zenon DEF Waiting, LabelsOK
    <3>5. Wakes(v)
      BY <2>a, <3>2, <3>4, Zenon DEF Wakes, LabelsOK, AboutToSleep
    <3> QED
      BY <2>a, <3>5, WakesKeeps, ZenonT(20)
  <2>30. CASE UNCHANGED vars
    <3>1. UNCHANGED <<state, chan, killed, plist, at, ppc, cpc, lk, events, owed>>
      BY <2>30, Zenon DEF vars, procVars, listVars, condVars
    <3>2. Quiet
      BY <3>1, Zenon DEF Quiet, Waiting
    <3> QED
      BY <2>a, <3>2, QuietKeeps, Zenon
  <2> QED
    BY <2>0, <2>4, <2>8, <2>10, <2>11, <2>12, <2>13, <2>17, <2>20, <2>24, <2>30, Zenon DEF Next, Scheduler, Event, Kernel, QuietStep

(* The inductive invariant holds in every reachable state.                 *)
LEMMA SleepInductive == Spec => []IInv
<1>1. Init => IInv
  <2> SUFFICES ASSUME Init PROVE IInv
    BY Zenon
  <2> USE SleepAssumption DEF Init
  <2>1. plist \in Seq(Procs) /\ Len(plist) = Cardinality(Procs) /\ Cardinality(Procs) \in Nat
    <3>1. Cardinality(Procs) \in Nat
      BY FS_CardinalityType, Zenon
    <3>2. plist \in [1..Cardinality(Procs) -> Procs]
      BY ZenonT(20)
    <3> HIDE DEF Init
    <3> QED
      BY <3>1, <3>2
  <2>2. TypeOK
    BY <2>1 DEF TypeOK, UserLabels, CpuLabels
  <2>3. ListInv
    BY <2>1, Zenon DEF ListInv
  <2>4. DueInv
    <3>1. Due = {}
      BY ZenonT(20) DEF Due
    <3> QED
      BY <3>1, FS_EmptySet DEF DueInv
  <2>5. SysInv /\ KillInv
    BY Zenon DEF SysInv, CpuInv, StateInv, ProcLockInv, LockInv, KillInv, Handler, ProcLocked, CondLocked
  <2>6. WakeInv
    BY Zenon DEF WakeInv, EventInv, OwedInv, CoverInv, AboutToSleep, Waiting
  <2> QED
    BY <2>2, <2>3, <2>4, <2>5, <2>6, Zenon DEF IInv
<1>2. IInv /\ [Next]_vars => IInv'
  BY TypeStep, KillStep, ListStep, DueStep, CpuStep, StateStep, ProcLockStep, LockStep, WakeStep, Zenon
     DEF IInv, SysInv
<1> QED
  BY <1>1, <1>2, PTL DEF Spec

(* sleep(), wakeup(), kill and the scheduler: nobody sleeps through an     *)
(* event, no process is on two CPUs, and a CPU switches with the lock of   *)
(* its process as the only one it holds.                                   *)
THEOREM SleepIsSafe == Spec => []SleepSafe
<1>1. IInv => SleepSafe
  <2> SUFFICES ASSUME TypeOK, CpuInv, StateInv, ProcLockInv, LockInv, WakeInv PROVE SleepSafe
    BY ZenonT(20) DEF IInv, SysInv
  <2> USE SleepAssumption
  <2>1. NoLostWakeup
    BY ZenonT(20) DEF NoLostWakeup, WakeInv, CoverInv
  <2>2. OneCpuPerProcess
    BY DEF OneCpuPerProcess, CpuInv, StateInv, ProcLockInv
  <2>3. ASSUME NEW c \in CPUs, cpc[c] = "back"
        PROVE  /\ lk # c /\ g_wait_lock # c /\ writer # c /\ c \notin readers
               /\ {p \in Procs : plock[p] = c} = {cpu_proc[c]}
    <3>1. lk # c /\ g_wait_lock # c /\ writer # c /\ c \notin readers
      BY <2>3, ZenonT(20) DEF LockInv, Handler
    <3>2. cpu_proc[c] \in Procs /\ \A p \in Procs : plock[p] = c <=> cpu_proc[c] = p
      BY <2>3, Zenon DEF CpuInv, ProcLockInv
    <3> QED
      BY <3>1, <3>2, ZenonT(20)
  <2> QED
    BY <2>1, <2>2, <2>3, Zenon DEF SleepSafe, SchedHoldsOnlyProcLock
<1> QED
  BY <1>1, SleepInductive, PTL

-----------------------------------------------------------------------------
(* sleep() and wakeup() are a WaitQueue: who gives up lk to sleep waits    *)
(* from then on, and everybody who waited when wakeup() was called was     *)
(* woken or killed when it returns.                                        *)
THEOREM SleepRefinesWaitQueue == Spec => RefinesWaitQueue
<1> DEFINE Calling == {c \in CPUs : cpc[c] \in {"h_wait", "h_list", "h_visit"}}
           Doomed == {p \in Procs : killed[p]}
<1>1. Init => Queue!WInit
  BY DEF Init, Queue!WInit, Waiting
<1>2. IInv /\ [Next]_vars => [Queue!WNext]_(Queue!wvars)
  <2> SUFFICES ASSUME TypeOK, KillInv, CpuInv, StateInv, ProcLockInv, LockInv, WakeInv, [Next]_vars
               PROVE  Queue!WNext \/ UNCHANGED <<Waiting, Calling, owed, Doomed>>
    BY ZenonT(20) DEF IInv, SysInv, Queue!wvars
  <2> USE SleepAssumption DEF procVars, listVars, killVars, condVars
  <2> DEFINE Goal == Queue!WNext \/ UNCHANGED <<Waiting, Calling, owed, Doomed>>
  <2>0. ASSUME NEW c \in CPUs, QuietStep(c) PROVE Goal
    <3>1. Quiet
      BY <2>0, QuietSteps, ZenonT(20)
    <3> QED
      BY <3>1, Zenon DEF Quiet, InWakeup
  <2>4. ASSUME NEW c \in CPUs, SchedPick(c) PROVE Goal
    <3>1. PICK p \in Procs : p = plist[at[c]] /\ state[p] = "RUNNABLE" /\ ppc[p] \in {"y_resume", "s_resume"}
      BY <2>4, PickFree, ZenonT(30)
    <3> QED
      BY <2>4, <3>1, Zenon DEF SchedPick, CpuGoto, TypeOK, Waiting
  <2>8. ASSUME NEW c \in CPUs, EventMake(c) PROVE Goal
    <3>1. c \notin Calling /\ Calling' = Calling \cup {c}
      BY <2>8 DEF EventMake, CpuGoto, TypeOK
    <3>2. owed' = [owed EXCEPT ![c] = Waiting] /\ UNCHANGED <<Waiting, Doomed>>
      BY <2>8, ZenonT(30) DEF EventMake, Waiting
    <3>3. Queue!Begin(c)
      BY <3>1, <3>2, ZenonT(20) DEF Queue!Begin
    <3> QED
      BY <3>3, ZenonT(20) DEF Queue!WNext
  <2>10. ASSUME NEW c \in CPUs, WakeupList(c) PROVE Goal
    BY <2>10 DEF WakeupList, ReadLock, CpuGoto, TypeOK, CpuInv, StateInv, Waiting
  <2>11. ASSUME NEW c \in CPUs, WakeupSelf(c) PROVE Goal
    BY <2>11, ZenonT(20) DEF WakeupSelf, TypeOK, CpuInv, StateInv, Waiting
  <2>12. ASSUME NEW c \in CPUs, WakeupVisit(c) PROVE Goal
    <3> DEFINE p == plist[at[c]]
    <3>1. p \in Procs /\ plock[p] = None /\ c \in Calling /\ UNCHANGED <<Calling, Doomed>>
      BY <2>12 DEF WakeupVisit, TypeOK
    <3>2. ppc[p] # "s_sched"
      BY <3>1, LockedSleeper, ZenonT(30)
    <3>3. CASE state[p] = "SLEEPING" /\ chan[p] = "c"
      <4>1. state' = [state EXCEPT ![p] = "RUNNABLE"] /\ owed' = [d \in CPUs |-> owed[d] \ {p}] /\ UNCHANGED <<chan, ppc>>
        BY <2>12, <3>3, Zenon DEF WakeupVisit
      <4>2. LabelsOK
        BY LabelsAre, Zenon
      <4> HIDE DEF p
      <4>3. p \in Waiting
        BY <3>1, <3>2, <3>3, Zenon DEF Waiting
      <4>4. Waiting' = Waiting \ {p}
        BY <3>1, <3>2, <4>1, <4>2, MadeRunnable, Zenon
      <4>5. Queue!Wake(p)
        BY <3>1, <4>1, <4>3, <4>4, ZenonT(30) DEF Queue!Wake, Queue!StopWaiting
      <4> QED
        BY <3>1, <4>5, ZenonT(30) DEF Queue!WNext
    <3>4. CASE ~(state[p] = "SLEEPING" /\ chan[p] = "c")
      BY <2>12, <3>1, <3>4, ZenonT(30) DEF WakeupVisit, Waiting
    <3> QED
      BY <3>3, <3>4, ZenonT(30)
  <2>13. ASSUME NEW c \in CPUs, WakeupReturn(c) PROVE Goal
    <3>1. c \in Calling /\ Calling' = Calling \ {c}
      BY <2>13, ZenonT(20) DEF WakeupReturn, CpuGoto, TypeOK
    <3>2. owed[c] = {}
      BY <2>13 DEF WakeupReturn, WakeInv, OwedInv, TypeOK
    <3>3. UNCHANGED <<Waiting, owed, Doomed>>
      BY <2>13, ZenonT(30) DEF WakeupReturn, Waiting
    <3>4. Queue!End(c)
      BY <3>1, <3>2, <3>3, Zenon DEF Queue!End
    <3> QED
      BY <3>4, ZenonT(30) DEF Queue!WNext
  <2>17. ASSUME NEW c \in CPUs, NEW p \in Procs, ConsumeReturn(c, p) PROVE Goal
    BY <2>17, ZenonT(20) DEF ConsumeReturn, At, Goto, TypeOK, CpuInv, StateInv, Waiting
  <2>20. ASSUME NEW c \in CPUs, NEW p \in Procs, SleepRelease(c, p) PROVE Goal
    <3>1. p \notin Waiting
      BY <2>20, ZenonT(30) DEF SleepRelease, At, Waiting, CpuInv, StateInv
    <3>2. Waiting' = Waiting \cup {p}
      <4>1. ppc' = [ppc EXCEPT ![p] = "s_sched"] /\ UNCHANGED <<state, chan>>
        BY <2>20, Zenon DEF SleepRelease, Goto
      <4>2. LabelsOK
        BY LabelsAre, Zenon
      <4> QED
        BY <4>1, <4>2, Zenon DEF Waiting, LabelsOK
    <3>3. UNCHANGED <<Calling, owed, Doomed>>
      BY <2>20, Zenon DEF SleepRelease
    <3>4. Queue!Wait(p)
      BY <3>1, <3>2, <3>3, Zenon DEF Queue!Wait
    <3> QED
      BY <3>4, ZenonT(30) DEF Queue!WNext
  <2>24. ASSUME NEW c \in CPUs, NEW p \in Procs, KillTry(c, p) PROVE Goal
    <3>1. PICK v \in Procs : v = target[p] /\ plock[v] = None
      BY <2>24, Zenon DEF KillTry, At, KillInv
    <3>2. ppc[v] # "s_sched"
      BY <3>1, LockedSleeper, ZenonT(20)
    <3>3. Waiting' = Waiting \ {v}
      BY <2>24, <3>1, <3>2, Zenon DEF KillTry, At, Goto, Killed, Waiting, TypeOK
    <3>4. owed' = [d \in CPUs |-> owed[d] \ {v}] /\ Calling' = Calling
      BY <2>24, <3>1, ZenonT(20) DEF KillTry, Killed
    <3>5. Doomed' = Doomed \cup {v}
      BY <2>24, <3>1, Zenon DEF KillTry, Killed, TypeOK
    <3>6. Queue!Kill(v)
      BY <3>3, <3>4, <3>5, Zenon DEF Queue!Kill, Queue!StopWaiting
    <3>7. \E q \in Procs : Queue!Kill(q)
      BY <3>1, <3>6, Zenon
    <3> QED
      BY <3>7, ZenonT(20) DEF Queue!WNext
  <2>30. CASE UNCHANGED vars
    BY <2>30 DEF vars, procVars, listVars, killVars, condVars, TypeOK, CpuInv, StateInv, Waiting
  <2> QED
    BY <2>0, <2>4, <2>8, <2>10, <2>11, <2>12, <2>13, <2>17, <2>20, <2>24, <2>30, ZenonT(30) DEF Next, Scheduler, Event, Kernel, QuietStep
<1> QED
  BY <1>1, <1>2, SleepInductive, PTL DEF Spec, RefinesWaitQueue, Queue!WSpec
=============================================================================
