---------------------------- MODULE StreamProofs ----------------------------
(***************************************************************************)
(* Proofs about the two byte streams with a ring inside.                   *)
(*                                                                         *)
(* Module Pipe, for every set of processes, pipe size and counter width.   *)
(*                                                                         *)
(* Module Console, for every size of the ring, width of its indices,       *)
(* number of readers and set of terminal modes: ConsoleSafe, and that the  *)
(* console implements TtyQueue.                                            *)
(***************************************************************************)
EXTENDS Pipe, Console, RingBuffer

(* Which ends a process inside a call must have a descriptor for.          *)
Reading == {"r_lock", "r_wait", "r_block", "r_sleep", "r_woken", "r_copy"}
Writing == {"w_lock", "w_loop", "w_block", "w_sleep", "w_woken"}

(* A process inside a call has the descriptor it was called with.          *)
HoldInv ==
    \A p \in Procs : /\ pc[p] \in Reading => "r" \in fds[p]
                     /\ pc[p] \in Writing => "w" \in fds[p]
                     /\ pc[p] = "unborn" => fds[p] = {}

(* The flags and the page follow the references to the two ends.           *)
OpenInv ==
    /\ read_open <=> \E p \in Procs : "r" \in fds[p]
    /\ write_open <=> \E p \in Procs : "w" \in fds[p]
    /\ allocated <=> (read_open \/ write_open)

LifeInv == HoldInv /\ OpenInv

(* The lock protects the ring, and whoever sleeps does so for a reason     *)
(* that only a process inside its critical section can be about to remove. *)
LockInv ==
    \A p \in Procs : /\ pc[p] \in Holding <=> lock = p
                     /\ pc[p] = "w_block" => pipe_is_full /\ read_open
                     /\ pc[p] = "r_block" => pipe_is_empty /\ write_open

WSleepInv ==
    \A p \in Procs : pc[p] = "w_sleep" =>
        /\ read_open
        /\ pipe_is_full \/ \E q \in Procs : pc[q] = "r_copy"

RSleepInv ==
    \A p \in Procs : pc[p] = "r_sleep" =>
        /\ write_open
        /\ \/ pipe_is_empty
           \/ \E q \in Procs : pc[q] \in {"w_loop", "w_block"}
           \/ \E q \in Procs : killed[q]

WakeInv == LockInv /\ WSleepInv /\ RSleepInv

-----------------------------------------------------------------------------
(* A counter stays within size_t.                                          *)
LEMMA IncType ==
    ASSUME NEW c \in 0..(WORD - 1)
    PROVE  Inc(c) \in 0..(WORD - 1)
  BY PipeAssumption DEF Inc

(* nwrite % PIPE_SIZE is an index of the ring.                             *)
LEMMA IndexType ==
    ASSUME NEW c \in 0..(WORD - 1)
    PROVE  c % PIPE_SIZE \in 0..(PIPE_SIZE - 1)
  BY PipeAssumption

(* What the shared pieces of the actions leave behind.                     *)
LEMMA PiecesType ==
    ASSUME TypeOK, NEW p \in Procs, NEW next \in Labels
    PROVE  /\ Goto(p, next) => pc' \in [Procs -> Labels]
           /\ \A chan \in Labels : Wake(p, chan, next) => pc' \in [Procs -> Labels]
           /\ Release(p) => lock' = NoProc /\ left' \in [Procs -> 0..MaxRequest]
  <1>1. Release(p) => lock' = NoProc /\ left' \in [Procs -> 0..MaxRequest]
    BY PipeAssumption DEF TypeOK, Release
  <1>2. {"r_woken", "w_woken"} \subseteq Labels
    BY Zenon DEF Labels, InCall, Woken
  <1>3. QED
    BY <1>1, <1>2, Zenon DEF TypeOK, Goto, Wake

LEMMA LeftType ==
    ASSUME TypeOK, NEW p \in Procs
    PROVE  /\ \A k \in 1..MaxRequest : [left EXCEPT ![p] = k] \in [Procs -> 0..MaxRequest]
           /\ left[p] > 0 => [left EXCEPT ![p] = @ - 1] \in [Procs -> 0..MaxRequest]
  <1>1. left \in [Procs -> 0..MaxRequest] /\ left[p] \in 0..MaxRequest
    BY Zenon DEF TypeOK
  <1>2. left[p] > 0 => left[p] - 1 \in 0..MaxRequest
    BY <1>1, PipeAssumption
  <1>3. \A k \in 1..MaxRequest : k \in 0..MaxRequest
    BY PipeAssumption
  <1>4. QED
    BY <1>1, <1>2, <1>3, Zenon

LEMMA LabelsMembers ==
    {"user", "w_lock", "w_loop", "w_block", "w_sleep", "r_lock", "r_wait", "r_block",
     "r_sleep", "r_copy", "exiting", "exited"} \subseteq Labels
  BY Zenon DEF Labels, InCall, Holding, Asleep, Woken

(* Every state component keeps its type: the counters stay within size_t   *)
(* and the ring is never indexed outside of pipe->data.                    *)
THEOREM TypeCorrect == Spec => []TypeOK
<1>1. Init => TypeOK
  BY PipeAssumption DEF Init, TypeOK, Ends, Labels, InCall
<1>2. TypeOK /\ [Next]_vars => TypeOK'
  <2> SUFFICES ASSUME TypeOK, [Next]_vars PROVE TypeOK'
    BY Zenon
  <2> USE LabelsMembers
  <2>1. ASSUME NEW p \in Procs, Step(p) PROVE TypeOK'
    <3>1. CASE WriteLock(p) \/ ReadLock(p)
      BY <3>1, PiecesType, Zenon DEF WriteLock, ReadLock, Acquire, TypeOK, pipeVars
    <3>2. CASE WriteRefused(p) \/ ReadRefused(p)
      BY <3>2, PiecesType, Zenon DEF WriteRefused, ReadRefused, Return, TypeOK, pipeVars
    <3>3. CASE WriteFull(p) \/ WriteSleep(p)
      BY <3>3, PiecesType, Zenon DEF WriteFull, WriteSleep, TypeOK, pipeVars
    <3>4. CASE WriteByte(p)
      <4>1. left' \in [Procs -> 0..MaxRequest]
        BY <3>4, LeftType, Zenon DEF WriteByte, WriteAllowed
      <4>2. nwrite' \in 0..(WORD - 1) /\ data' \in [0..(PIPE_SIZE - 1) -> Bytes]
        BY <3>4, IncType, IndexType, Zenon DEF WriteByte, TypeOK
      <4> QED
        BY <3>4, <4>1, <4>2, Zenon DEF WriteByte, TypeOK
    <3>5. CASE WriteDone(p) \/ ReadDone(p)
      BY <3>5, PiecesType, Zenon DEF WriteDone, ReadDone, Return, TypeOK, pipeVars
    <3>6. CASE ReadEmpty(p) \/ ReadSleep(p) \/ ReadReady(p)
      BY <3>6, PiecesType, Zenon DEF ReadEmpty, ReadSleep, ReadReady, TypeOK, pipeVars
    <3>7. CASE ReadByte(p)
      <4>1. left' \in [Procs -> 0..MaxRequest] /\ nread' \in 0..(WORD - 1)
        BY <3>7, IncType, LeftType, Zenon DEF ReadByte, TypeOK
      <4> QED
        BY <3>7, <4>1, Zenon DEF ReadByte, TypeOK
    <3>8. CASE ReadFault(p)
      BY <3>8, IncType, PiecesType, Zenon DEF ReadFault, TypeOK
    <3> QED
      BY <2>1, <3>1, <3>2, <3>3, <3>4, <3>5, <3>6, <3>7, <3>8, Zenon DEF Step
  <2>2. ASSUME NEW p \in Procs, CallWrite(p) \/ CallRead(p) PROVE TypeOK'
    <3>1. left' \in [Procs -> 0..MaxRequest]
      BY <2>2, LeftType DEF CallWrite, CallRead, Call
    <3> QED
      BY <2>2, <3>1, PiecesType, Zenon DEF CallWrite, CallRead, Call, TypeOK, pipeVars
  <2>3. ASSUME NEW p \in Procs, Kill(p) \/ Exit(p) \/ Exited(p) PROVE TypeOK'
    BY <2>3, Zenon DEF Kill, Exit, Exited, Goto, TypeOK, pipeVars, Labels, InCall, Asleep, Woken
  <2>4. ASSUME NEW p \in Procs, NEW d \in Ends, file_close(p, d) PROVE TypeOK'
    <3>1. pc' \in [Procs -> Labels]
      BY <2>4, PiecesType, Zenon DEF file_close, pipe_close, TypeOK
    <3>2. fds' \in [Procs -> SUBSET Ends]
      BY <2>4, Zenon DEF file_close, TypeOK
    <3> QED
      BY <2>4, <3>1, <3>2, Zenon DEF file_close, pipe_close, TypeOK, pipeVars
  <2>5. ASSUME NEW p \in Procs, NEW child \in Procs, Fork(p, child) PROVE TypeOK'
    BY <2>5, PiecesType, Zenon DEF Fork, TypeOK, pipeVars
  <2>6. CASE UNCHANGED vars
    BY <2>6, Zenon DEF vars, TypeOK
  <2> QED
    BY <2>1, <2>2, <2>3, <2>4, <2>5, <2>6, Zenon DEF Next
<1> QED
  BY <1>1, <1>2, PTL DEF Spec

-----------------------------------------------------------------------------
(* pipe_close() never frees a pipe some process is still inside of, and a  *)
(* pipe nobody has a descriptor for is freed.                              *)
THEOREM PipeLifetime == Spec => [](LifeInv /\ NoUseAfterFree)
<1>1. Init => LifeInv
  BY Zenon DEF Init, LifeInv, HoldInv, OpenInv, Ends, Reading, Writing
<1>2. TypeOK /\ LifeInv /\ [Next]_vars => LifeInv'
  <2> SUFFICES ASSUME TypeOK, HoldInv, OpenInv, [Next]_vars PROVE HoldInv' /\ OpenInv'
    BY Zenon DEF LifeInv
  <2> DEFINE Quiet ==
               \A q \in Procs : /\ pc'[q] \in Reading => pc[q] \in Reading
                                /\ pc'[q] \in Writing => pc[q] \in Writing
                                /\ pc'[q] = "unborn" => pc[q] = "unborn"
             SameFlags ==
               /\ read_open' <=> read_open
               /\ write_open' <=> write_open
               /\ allocated' <=> allocated
  <2>a. SameFlags /\ (\A x \in Ends : (\E q \in Procs : x \in fds'[q])
                                      <=> (\E q \in Procs : x \in fds[q])) => OpenInv'
    <3>1. "r" \in Ends /\ "w" \in Ends
      BY Zenon DEF Ends
    <3> QED
      BY <3>1, Zenon DEF OpenInv
  <2>b. SameFlags /\ fds' = fds => OpenInv'
    BY Zenon DEF OpenInv
  <2>c. Quiet /\ fds' = fds => HoldInv'
    BY Zenon DEF HoldInv, Reading, Writing
  <2>1. ASSUME NEW p \in Procs, Step(p) PROVE HoldInv' /\ OpenInv'
    <3>1. SameFlags /\ fds' = fds
      BY <2>1 DEF Step, WriteLock, ReadLock, Acquire, WriteRefused, ReadRefused, Return,
                  WriteFull, WriteSleep, WriteByte, WriteDone, ReadEmpty, ReadSleep,
                  ReadReady, ReadByte, ReadFault, ReadDone, pipeVars
    <3>2. Quiet
      <4> USE DEF Reading, Writing, Goto, Wake, TypeOK
      <4>1. CASE WriteLock(p) \/ ReadLock(p)
        BY <4>1, Zenon DEF WriteLock, ReadLock, Acquire
      <4>2. CASE WriteRefused(p) \/ WriteFull(p) \/ WriteSleep(p) \/ WriteByte(p)
        BY <4>2, Zenon DEF WriteRefused, WriteFull, WriteSleep, WriteByte, WriteAllowed
      <4>3. CASE WriteDone(p) \/ ReadDone(p) \/ ReadFault(p)
        BY <4>3, Zenon DEF WriteDone, ReadDone, ReadFault
      <4>4. CASE ReadRefused(p) \/ ReadEmpty(p) \/ ReadSleep(p) \/ ReadReady(p) \/ ReadByte(p)
        BY <4>4, Zenon DEF ReadRefused, ReadEmpty, ReadSleep, ReadReady, ReadByte, ReadMustWait
      <4> QED
        BY <2>1, <4>1, <4>2, <4>3, <4>4, Zenon DEF Step
    <3> QED
      BY <3>1, <3>2, <2>b, <2>c, Zenon
  <2>2. ASSUME NEW p \in Procs, CallWrite(p) \/ CallRead(p) PROVE HoldInv' /\ OpenInv'
    <3>1. SameFlags /\ fds' = fds
      BY <2>2 DEF CallWrite, CallRead, Call, pipeVars
    <3>2. HoldInv'
      BY <2>2, <3>1, Zenon DEF CallWrite, CallRead, Call, Goto, HoldInv, TypeOK, Reading, Writing
    <3> QED
      BY <3>1, <3>2, <2>b, Zenon
  <2>3. ASSUME NEW p \in Procs, Kill(p) \/ Exit(p) \/ Exited(p) PROVE HoldInv' /\ OpenInv'
    <3>1. SameFlags /\ fds' = fds
      BY <2>3 DEF Kill, Exit, Exited, pipeVars
    <3>2. Quiet
      <4> USE DEF Reading, Writing, Goto, TypeOK
      <4>1. CASE Kill(p)
        <5>1. pc[p] = "r_sleep" => pc' = [pc EXCEPT ![p] = "r_woken"]
          BY <4>1, Zenon DEF Kill
        <5>2. pc[p] = "w_sleep" => pc' = [pc EXCEPT ![p] = "w_woken"]
          BY <4>1, Zenon DEF Kill
        <5>3. pc[p] # "r_sleep" /\ pc[p] # "w_sleep" => pc' = [pc EXCEPT ![p] = pc[p]]
          BY <4>1, Zenon DEF Kill
        <5> QED
          BY <5>1, <5>2, <5>3, Zenon
      <4> QED
        BY <2>3, <4>1, Zenon DEF Exit, Exited
    <3> QED
      BY <3>1, <3>2, <2>b, <2>c, Zenon
  <2>4. ASSUME NEW p \in Procs, NEW d \in Ends, file_close(p, d) PROVE HoldInv' /\ OpenInv'
    <3>0. pc[p] \notin Reading \cup Writing /\ \A q \in Procs : fds'[q] = IF q = p THEN fds[q] \ {d} ELSE fds[q]
      BY <2>4, Zenon DEF file_close, TypeOK, Reading, Writing
    <3>1. CASE \E q \in Procs \ {p} : d \in fds[q]
      <4>1. SameFlags /\ pc' = pc
        BY <2>4, <3>1, Zenon DEF file_close, pipeVars
      <4>2. HoldInv'
        BY <3>0, <4>1, Zenon DEF HoldInv, Reading, Writing
      <4>3. ASSUME NEW x \in Ends
            PROVE  (\E q \in Procs : x \in fds'[q]) <=> \E q \in Procs : x \in fds[q]
        BY <3>0, <3>1, Zenon
      <4> QED
        BY <4>1, <4>2, <4>3, <2>a, Zenon
    <3>2. CASE ~\E q \in Procs \ {p} : d \in fds[q]
      <4>0. pipe_close(p, d)
        BY <2>4, <3>2, Zenon DEF file_close
      <4>1. Quiet /\ pc'[p] = pc[p]
        BY <4>0, Zenon DEF pipe_close, Wake, TypeOK, Reading, Writing
      <4>2. HoldInv'
        BY <3>0, <4>1, Zenon DEF HoldInv, Reading, Writing
      <4>3. /\ read_open' = (read_open /\ d = "w")
            /\ write_open' = (write_open /\ d = "r")
            /\ allocated' = (read_open' \/ write_open')
        BY <4>0, Zenon DEF pipe_close
      <4>4. \A q \in Procs : d \notin fds'[q]
        BY <3>0, <3>2, Zenon
      <4>5. \A x \in Ends \ {d} : (\E q \in Procs : x \in fds'[q]) <=> \E q \in Procs : x \in fds[q]
        BY <3>0, Zenon
      <4>6. CASE d = "r"
        BY <4>3, <4>4, <4>5, <4>6, <4>2, Zenon DEF OpenInv, Ends
      <4>7. CASE d = "w"
        BY <4>3, <4>4, <4>5, <4>7, <4>2, Zenon DEF OpenInv, Ends
      <4> QED
        BY <4>6, <4>7, Zenon DEF Ends
    <3> QED
      BY <3>1, <3>2, Zenon
  <2>5. ASSUME NEW p \in Procs, NEW child \in Procs, Fork(p, child) PROVE HoldInv' /\ OpenInv'
    <3>1. \A q \in Procs : /\ fds'[q] = IF q = child THEN fds[p] ELSE fds[q]
                          /\ pc'[q] = IF q = child THEN "user" ELSE pc[q]
      BY <2>5, Zenon DEF Fork, Goto, TypeOK
    <3>2. SameFlags /\ fds[child] = {} /\ p # child
      BY <2>5, Zenon DEF Fork, pipeVars, HoldInv
    <3>3. HoldInv'
      BY <3>1, Zenon DEF HoldInv, Reading, Writing
    <3>4. ASSUME NEW x \in Ends
          PROVE  (\E q \in Procs : x \in fds'[q]) <=> \E q \in Procs : x \in fds[q]
      BY <3>1, <3>2, Zenon
    <3> QED
      BY <3>2, <3>3, <3>4, <2>a, Zenon
  <2>6. CASE UNCHANGED vars
    BY <2>6, Zenon DEF vars, HoldInv, OpenInv
  <2> QED
    BY <2>1, <2>2, <2>3, <2>4, <2>5, <2>6, Zenon DEF Next
<1>3. TypeOK /\ LifeInv => NoUseAfterFree
  <2> SUFFICES ASSUME TypeOK, HoldInv, OpenInv PROVE NoUseAfterFree
    BY Zenon DEF LifeInv
  <2>1. \A p \in Procs : fds[p] # {} <=> ("r" \in fds[p] \/ "w" \in fds[p])
    BY Zenon DEF TypeOK, Ends
  <2>2. InCall = Reading \cup Writing
    BY Zenon DEF InCall, Holding, Asleep, Woken, Reading, Writing
  <2> QED
    BY <2>1, <2>2, Zenon DEF HoldInv, OpenInv, NoUseAfterFree
<1> QED
  BY <1>1, <1>2, <1>3, TypeCorrect, PTL DEF Spec
-----------------------------------------------------------------------------
(* No writer and no reader sleeps through the event it waits for: with the *)
(* lock free, a writer asleep has a full pipe, and a reader asleep an      *)
(* empty one unless a process was killed.                                  *)
THEOREM PipeNoLostWakeup == Spec => []NoLostWakeup
<1>1. Init => WakeInv
  BY PipeAssumption, Zenon DEF Init, WakeInv, LockInv, WSleepInv, RSleepInv, Holding
<1>2. TypeOK /\ LifeInv /\ WakeInv /\ [Next]_vars => WakeInv'
  <2> SUFFICES ASSUME TypeOK, LifeInv, LockInv, WSleepInv, RSleepInv, [Next]_vars
               PROVE  LockInv' /\ WSleepInv' /\ RSleepInv'
    BY Zenon DEF WakeInv
  <2> USE DEF Holding
  <2>1. ASSUME NEW p \in Procs, WriteLock(p) \/ ReadLock(p)
        PROVE  LockInv' /\ WSleepInv' /\ RSleepInv'
    <3> USE <2>1, PipeAssumption DEF WriteLock, ReadLock, Acquire, Goto, pipeVars, TypeOK, pipe_is_full,
               pipe_is_empty
    <3>1. LockInv'
      BY Zenon DEF LockInv
    <3>2. WSleepInv'
      BY Zenon DEF LockInv, WSleepInv
    <3>3. RSleepInv'
      BY Zenon DEF LockInv, RSleepInv
    <3> QED
      BY <3>1, <3>2, <3>3, Zenon
  <2>2. ASSUME NEW p \in Procs, WriteFull(p) \/ ReadEmpty(p) \/ ReadReady(p)
        PROVE  LockInv' /\ WSleepInv' /\ RSleepInv'
    <3> USE <2>2, PipeAssumption DEF WriteFull, WriteAllowed, ReadEmpty, ReadReady, ReadMustWait, Goto,
               pipeVars, TypeOK, pipe_is_full, pipe_is_empty
    <3>1. LockInv'
      <4>1. CASE WriteFull(p)
        BY <4>1, Zenon DEF LockInv
      <4>2. CASE ReadEmpty(p)
        BY <4>2, Zenon DEF LockInv
      <4>3. CASE ReadReady(p)
        BY <4>3, Zenon DEF LockInv
      <4> QED
        BY <2>2, <4>1, <4>2, <4>3, Zenon
    <3>2. WSleepInv'
      BY Zenon DEF LockInv, WSleepInv
    <3>3. RSleepInv'
      BY Zenon DEF LockInv, RSleepInv
    <3> QED
      BY <3>1, <3>2, <3>3, Zenon
  <2>3. ASSUME NEW p \in Procs, WriteSleep(p)
        PROVE  LockInv' /\ WSleepInv' /\ RSleepInv'
    <3> USE <2>3, PipeAssumption DEF WriteSleep, Wake, Goto, pipeVars, TypeOK, pipe_is_full, pipe_is_empty
    <3>1. LockInv'
      BY Zenon DEF LockInv
    <3>2. WSleepInv'
      BY Zenon DEF LockInv, WSleepInv
    <3>3. RSleepInv'
      BY Zenon DEF LockInv, RSleepInv
    <3> QED
      BY <3>1, <3>2, <3>3, Zenon
  <2>4. ASSUME NEW p \in Procs, ReadSleep(p)
        PROVE  LockInv' /\ WSleepInv' /\ RSleepInv'
    <3> USE <2>4, PipeAssumption DEF ReadSleep, Goto, pipeVars, TypeOK, pipe_is_full, pipe_is_empty
    <3>1. LockInv'
      BY Zenon DEF LockInv
    <3>2. WSleepInv'
      BY Zenon DEF LockInv, WSleepInv
    <3>3. RSleepInv'
      BY Zenon DEF LockInv, RSleepInv
    <3> QED
      BY <3>1, <3>2, <3>3, Zenon
  <2>5. ASSUME NEW p \in Procs, WriteRefused(p) \/ ReadRefused(p)
        PROVE  LockInv' /\ WSleepInv' /\ RSleepInv'
    <3> USE <2>5, PipeAssumption DEF WriteRefused, ReadRefused, ReadMustWait, Return, Release, Goto, pipeVars,
               TypeOK, pipe_is_full, pipe_is_empty
    <3>1. LockInv'
      BY DEF LockInv
    <3>2. WSleepInv'
      BY Zenon DEF LockInv, WSleepInv
    <3>3. RSleepInv'
      <4>1. CASE WriteRefused(p)
        <5>1. CASE killed[p]
          BY <4>1, <5>1, Zenon DEF RSleepInv
        <5>2. CASE ~read_open
          <6>1. \A q \in Procs : pc[q] # "r_sleep"
            BY <5>2, Zenon DEF LifeInv, HoldInv, OpenInv, Reading
          <6> QED
            BY <4>1, <6>1, Zenon DEF RSleepInv
        <5> QED
          BY <4>1, <5>1, <5>2, Zenon
      <4>2. CASE ReadRefused(p)
        BY <4>2, Zenon DEF RSleepInv
      <4> QED
        BY <2>5, <4>1, <4>2, Zenon
    <3> QED
      BY <3>1, <3>2, <3>3, Zenon
  <2>6. ASSUME NEW p \in Procs, WriteDone(p)
        PROVE  LockInv' /\ WSleepInv' /\ RSleepInv'
    <3> USE <2>6, PipeAssumption DEF WriteDone, WriteAllowed, Return, Release, Wake, Goto, pipeVars, TypeOK,
               pipe_is_full, pipe_is_empty
    <3>1. LockInv'
      BY Zenon DEF LockInv
    <3>2. WSleepInv'
      BY Zenon DEF LockInv, WSleepInv
    <3>3. RSleepInv'
      BY Zenon DEF LockInv, RSleepInv
    <3> QED
      BY <3>1, <3>2, <3>3, Zenon
  <2>7. ASSUME NEW p \in Procs, ReadDone(p) \/ ReadFault(p)
        PROVE  LockInv' /\ WSleepInv' /\ RSleepInv'
    <3> USE <2>7, PipeAssumption DEF ReadDone, ReadFault, Return, Release, Wake, Goto, pipeVars, TypeOK,
               pipe_is_full, pipe_is_empty
    <3>1. LockInv'
      BY ZenonT(30) DEF LockInv
    <3>2. WSleepInv'
      BY Zenon DEF LockInv, WSleepInv
    <3>3. RSleepInv'
      BY Zenon DEF LockInv, RSleepInv
    <3> QED
      BY <3>1, <3>2, <3>3, Zenon
  <2>8. ASSUME NEW p \in Procs, WriteByte(p) \/ ReadByte(p)
        PROVE  LockInv' /\ WSleepInv' /\ RSleepInv'
    <3> USE <2>8, PipeAssumption DEF WriteByte, WriteAllowed, ReadByte, Goto, pipeVars, TypeOK, pipe_is_full,
               pipe_is_empty
    <3>1. LockInv'
      BY Zenon DEF LockInv
    <3>2. WSleepInv'
      BY Zenon DEF LockInv, WSleepInv
    <3>3. RSleepInv'
      BY Zenon DEF LockInv, RSleepInv
    <3> QED
      BY <3>1, <3>2, <3>3, Zenon
  <2>9. ASSUME NEW p \in Procs, CallWrite(p) \/ CallRead(p) \/ Exit(p) \/ Exited(p)
        PROVE  LockInv' /\ WSleepInv' /\ RSleepInv'
    <3> USE <2>9, PipeAssumption DEF CallWrite, CallRead, Call, Exit, Exited, Goto, pipeVars, TypeOK,
               pipe_is_full, pipe_is_empty
    <3>1. LockInv'
      BY ZenonT(30) DEF LockInv
    <3>2. WSleepInv'
      BY Zenon DEF LockInv, WSleepInv
    <3>3. RSleepInv'
      BY Zenon DEF LockInv, RSleepInv
    <3> QED
      BY <3>1, <3>2, <3>3, Zenon
  <2>10. ASSUME NEW p \in Procs, Kill(p)
        PROVE  LockInv' /\ WSleepInv' /\ RSleepInv'
    <3> USE <2>10, PipeAssumption DEF Kill, Goto, pipeVars, TypeOK, pipe_is_full, pipe_is_empty
    <3>1. LockInv'
      BY Zenon DEF LockInv
    <3>2. WSleepInv'
      BY Zenon DEF LockInv, WSleepInv
    <3>3. RSleepInv'
      BY Zenon DEF LockInv, RSleepInv
    <3> QED
      BY <3>1, <3>2, <3>3, Zenon
  <2>11. ASSUME NEW p \in Procs, NEW d \in Ends, file_close(p, d)
        PROVE  LockInv' /\ WSleepInv' /\ RSleepInv'
    <3> USE <2>11, PipeAssumption DEF file_close, pipe_close, Wake, Ends, Goto, pipeVars, TypeOK, pipe_is_full,
               pipe_is_empty
    <3>1. LockInv'
      BY ZenonT(30) DEF LockInv
    <3>2. WSleepInv'
      BY Zenon DEF LockInv, WSleepInv
    <3>3. RSleepInv'
      BY ZenonT(30) DEF LockInv, RSleepInv
    <3> QED
      BY <3>1, <3>2, <3>3, Zenon
  <2>12. ASSUME NEW p \in Procs, NEW child \in Procs, Fork(p, child)
        PROVE  LockInv' /\ WSleepInv' /\ RSleepInv'
    <3> USE <2>12, PipeAssumption DEF Fork, Goto, pipeVars, TypeOK, pipe_is_full, pipe_is_empty
    <3>1. LockInv'
      BY Zenon DEF LockInv
    <3>2. WSleepInv'
      BY Zenon DEF LockInv, WSleepInv
    <3>3. RSleepInv'
      BY Zenon DEF LockInv, RSleepInv
    <3> QED
      BY <3>1, <3>2, <3>3, Zenon
  <2>13. CASE UNCHANGED vars
    BY <2>13, Zenon DEF vars, LockInv, WSleepInv, RSleepInv, pipe_is_full, pipe_is_empty
  <2> QED
    BY <2>1, <2>2, <2>3, <2>4, <2>5, <2>6, <2>7, <2>8, <2>9, <2>10, <2>11, <2>12, <2>13, Zenon
       DEF Next, Step
<1>3. TypeOK /\ WakeInv => NoLostWakeup
  BY PipeAssumption, Zenon DEF TypeOK, WakeInv, LockInv, WSleepInv, RSleepInv, Holding, NoLostWakeup
<1> QED
  BY <1>1, <1>2, <1>3, TypeCorrect, PipeLifetime, PTL DEF Spec
-----------------------------------------------------------------------------
(* The steps that matter to the bytes of the pipe: one enters, one leaves, *)
(* or an end is closed; every other step leaves ring and ends alone.       *)
Stores(b) ==
    /\ read_open /\ write_open /\ ~pipe_is_full
    /\ data' = [data EXCEPT ![nwrite % PIPE_SIZE] = b]
    /\ nwrite' = Inc(nwrite)
    /\ UNCHANGED <<nread, read_open, write_open>>

Takes ==
    /\ read_open /\ ~pipe_is_empty
    /\ nread' = Inc(nread)
    /\ UNCHANGED <<data, nwrite, read_open, write_open>>

Closes ==
    /\ UNCHANGED <<data, nread, nwrite>>
    /\ \/ read_open /\ read_open' = FALSE /\ write_open' = write_open
       \/ write_open /\ write_open' = FALSE /\ read_open' = read_open

Keeps == UNCHANGED <<data, nread, nwrite, read_open, write_open>>

LEMMA PipeSteps ==
    ASSUME TypeOK, LifeInv, [Next]_vars
    PROVE  (\E b \in Bytes : Stores(b)) \/ Takes \/ Closes \/ Keeps
<1> USE DEF Keeps
<1>1. ASSUME NEW p \in Procs, WriteByte(p) PROVE \E b \in Bytes : Stores(b)
  <2>1. write_open
    BY <1>1, Zenon DEF WriteByte, WriteAllowed, LifeInv, HoldInv, OpenInv, Writing
  <2> QED
    BY <1>1, <2>1, Zenon DEF WriteByte, WriteAllowed, Stores
<1>2. ASSUME NEW p \in Procs, ReadByte(p) \/ ReadFault(p) PROVE Takes
  <2>1. read_open
    BY <1>2, ZenonT(30) DEF ReadByte, ReadFault, LifeInv, HoldInv, OpenInv, Reading
  <2> QED
    BY <1>2, <2>1, ZenonT(30) DEF ReadByte, ReadFault, Takes
<1>3. ASSUME NEW p \in Procs, NEW d \in Ends, file_close(p, d) PROVE Closes \/ Keeps
  <2>1. CASE \E q \in Procs \ {p} : d \in fds[q]
    BY <1>3, <2>1, Zenon DEF file_close, pipeVars
  <2>2. CASE ~\E q \in Procs \ {p} : d \in fds[q]
    <3>1. pipe_close(p, d) /\ d \in fds[p]
      BY <1>3, <2>2, Zenon DEF file_close
    <3>2. CASE d = "r"
      BY <3>1, <3>2, Zenon DEF pipe_close, Closes, LifeInv, OpenInv, TypeOK
    <3>3. CASE d = "w"
      BY <3>1, <3>3, ZenonT(30) DEF pipe_close, Closes, LifeInv, OpenInv, TypeOK
    <3> QED
      BY <3>2, <3>3, Zenon DEF Ends
  <2> QED
    BY <2>1, <2>2, Zenon
<1>4. ASSUME NEW p \in Procs, Step(p), ~WriteByte(p), ~ReadByte(p), ~ReadFault(p) PROVE Keeps
  BY <1>4, Zenon DEF Step, WriteLock, ReadLock, Acquire, WriteRefused, ReadRefused, Return, WriteFull,
              WriteSleep, WriteDone, ReadEmpty, ReadSleep, ReadReady, ReadDone, pipeVars
<1>5. ASSUME NEW p \in Procs, CallWrite(p) \/ CallRead(p) \/ Kill(p) \/ Exit(p) \/ Exited(p) PROVE Keeps
  BY <1>5, Zenon DEF CallWrite, CallRead, Call, Kill, Exit, Exited, pipeVars
<1>6. ASSUME NEW p \in Procs, NEW child \in Procs, Fork(p, child) PROVE Keeps
  BY <1>6, Zenon DEF Fork, pipeVars
<1>7. CASE UNCHANGED vars
  BY <1>7, Zenon DEF vars
<1> QED
  BY <1>1, <1>2, <1>3, <1>4, <1>5, <1>6, <1>7, Zenon DEF Next

(* The pipe's counters are those of a ring buffer.                         *)
LEMMA PipeRing ==
    ASSUME TypeOK
    PROVE  /\ Fits(PIPE_SIZE, WORD) /\ data \in Rings(PIPE_SIZE, Bytes)
           /\ nread \in Index(WORD) /\ nwrite \in Index(WORD)
           /\ Count = Gap(WORD, nwrite, nread)
           /\ pipe_is_full <=> Count = PIPE_SIZE
<1>1. Fits(PIPE_SIZE, WORD) /\ data \in Rings(PIPE_SIZE, Bytes) /\ nread \in Index(WORD) /\ nwrite \in Index(WORD)
  BY PipeAssumption, WordAssumption, Zenon DEF TypeOK, Fits, Rings, Cell, Index
<1>2. Count = Gap(WORD, nwrite, nread)
  BY Zenon DEF Count, Gap
<1> QED
  BY <1>1, <1>2, FullIs, Zenon DEF pipe_is_full

(* The ring never holds more than it has cells.                            *)
CountInv == Count <= PIPE_SIZE

LEMMA CountStays ==
    ASSUME TypeOK, CountInv, (\E b \in Bytes : Stores(b)) \/ Takes \/ Closes \/ Keeps
    PROVE  CountInv'
<1> DEFINE N == PIPE_SIZE
<1>1. Fits(N, WORD) /\ nread \in Index(WORD) /\ nwrite \in Index(WORD)
  BY PipeRing, Zenon
<1>2. Count = Gap(WORD, nwrite, nread) /\ Count' = Gap(WORD, nwrite', nread')
  BY Zenon DEF Count, Gap
<1>3. Gap(WORD, nwrite, nread) \in Nat /\ N \in Nat /\ WORD \in Nat /\ WORD > N
  BY <1>1, GapType, Zenon DEF Fits
<1>4. Gap(WORD, nwrite, nread) = IF nwrite >= nread THEN nwrite - nread ELSE nwrite - nread + WORD
  BY <1>1, GapIs, Zenon
<1>5. CASE \E b \in Bytes : Stores(b)
  <2>1. ~pipe_is_full /\ nread' = nread /\ nwrite' = (nwrite + 1) % WORD
    BY <1>5, Zenon DEF Stores, Inc
  <2>2. Gap(WORD, nwrite, nread) < N
    BY <1>2, <1>3, <2>1, PipeRing DEF CountInv
  <2>3. nwrite' \in Index(WORD) /\ nwrite' = IF nwrite = WORD - 1 THEN 0 ELSE nwrite + 1
    BY <1>1, <2>1, IncIs, Zenon
  <2>4. Gap(WORD, nwrite', nread) = IF nwrite' >= nread THEN nwrite' - nread ELSE nwrite' - nread + WORD
    BY <1>1, <2>3, GapIs, Zenon
  <2>5. Gap(WORD, nwrite', nread) <= N
    BY <1>1, <1>3, <1>4, <2>2, <2>3, <2>4 DEF Index
  <2> QED
    BY <1>2, <2>1, <2>5, Zenon DEF CountInv
<1>6. CASE Takes
  <2>1. nread # nwrite /\ nwrite' = nwrite /\ nread' = (nread + 1) % WORD
    BY <1>6, Zenon DEF Takes, Inc, pipe_is_empty
  <2>2. nread' \in Index(WORD) /\ nread' = IF nread = WORD - 1 THEN 0 ELSE nread + 1
    BY <1>1, <2>1, IncIs, Zenon
  <2>3. Gap(WORD, nwrite, nread') = IF nwrite >= nread' THEN nwrite - nread' ELSE nwrite - nread' + WORD
    BY <1>1, <2>2, GapIs
  <2>4. Gap(WORD, nwrite, nread) <= N
    BY <1>2, Zenon DEF CountInv
  <2>5. Gap(WORD, nwrite, nread') <= N
    BY <1>1, <1>3, <1>4, <2>1, <2>2, <2>3, <2>4 DEF Index
  <2> QED
    BY <1>2, <2>1, <2>5, Zenon DEF CountInv
<1>7. CASE Closes \/ Keeps
  BY <1>7, Zenon DEF Closes, Keeps, CountInv, Count
<1> QED
  BY <1>5, <1>6, <1>7, Zenon

(* Each of them is a step of the bounded FIFO.                             *)
LEMMA PipeStepIsFifo ==
    ASSUME TypeOK, CountInv, (\E b \in Bytes : Stores(b)) \/ Takes \/ Closes \/ Keeps
    PROVE  Fifo!FifoNext \/ UNCHANGED <<Contents, read_open, write_open>>
<1> DEFINE N == PIPE_SIZE
           queue == Cells(N, WORD, data, nread, nwrite)
<1>1. Fits(N, WORD) /\ nread \in Index(WORD) /\ nwrite \in Index(WORD) /\ data \in Rings(N, Bytes)
  BY PipeRing, Zenon
<1>2. Contents = queue /\ Contents' = Cells(N, WORD, data', nread', nwrite')
  BY Zenon DEF Contents, Count, Cells, Gap, Slot
<1>3. Len(queue) = Gap(WORD, nwrite, nread)
  <2>1. Spells(N, queue, Bytes, data, nread, Gap(WORD, nwrite, nread))
    BY <1>1, CellsAre, Zenon
  <2> QED
    BY <2>1, Zenon DEF Spells
<1>4. ASSUME NEW b \in Bytes, Stores(b) PROVE Fifo!Put(b)
  <2>1. /\ read_open /\ write_open /\ UNCHANGED <<read_open, write_open>>
        /\ data' = [data EXCEPT ![Slot(N, nwrite)] = b] /\ nread' = nread /\ nwrite' = (nwrite + 1) % WORD
    BY <1>4, Zenon DEF Stores, Inc, Slot
  <2>2. Gap(WORD, nwrite, nread) \in Nat /\ N \in Nat
    BY <1>1, GapType, Zenon DEF Fits
  <2>3. Gap(WORD, nwrite, nread) < N
    BY <1>4, <2>2, PipeRing DEF CountInv, Stores
  <2>4. Slot(N, nwrite) \in Cell(N)
    BY <1>1, SlotOfIndex DEF Index
  <2>5. PICK g \in Rings(N, Bytes) : g = data'
    BY <1>1, <2>1, <2>4, Zenon DEF Rings
  <2>6. Differs(N, g, data, Slot(N, nwrite), b)
    <3>1. g = [data EXCEPT ![Slot(N, nwrite)] = b]
      BY <2>1, <2>5, Zenon
    <3>2. g[Slot(N, nwrite)] = b
      BY <1>1, <2>4, <3>1, Zenon DEF Rings
    <3>3. \A i \in Cell(N) : i # Slot(N, nwrite) => g[i] = data[i]
      BY <1>1, <3>1, Zenon DEF Rings
    <3> QED
      BY <3>2, <3>3, Zenon DEF Differs
  <2>7. Cells(N, WORD, g, nread, (nwrite + 1) % WORD) = Append(queue, b)
    BY <1>1, <2>3, <2>6, StoreCells
  <2>8. Contents' = Append(Contents, b)
    BY <1>2, <2>1, <2>5, <2>7, Zenon
  <2>9. Len(Contents) < PIPE_SIZE
    BY <1>2, <1>3, <2>3, Zenon
  <2> QED
    BY <2>1, <2>8, <2>9, Zenon DEF Fifo!Put
<1>5. CASE Takes
  <2>1. read_open /\ nread # nwrite /\ nread' = (nread + 1) % WORD /\ UNCHANGED <<data, nwrite, read_open, write_open>>
    BY <1>5, Zenon DEF Takes, Inc, pipe_is_empty
  <2>2. queue # << >> /\ Cells(N, WORD, data, (nread + 1) % WORD, nwrite) = Tail(queue)
    BY <1>1, <2>1, TakeCells, Zenon
  <2>3. Contents # << >> /\ Contents' = Tail(Contents)
    BY <1>2, <2>1, <2>2, Zenon
  <2> QED
    BY <2>1, <2>3, Zenon DEF Fifo!Get, Fifo!FifoNext
<1>6. CASE Closes
  <2>1. Contents' = Contents
    BY <1>6, Zenon DEF Closes, Contents, Count
  <2> QED
    BY <1>6, <2>1, Zenon DEF Closes, Fifo!CloseRead, Fifo!CloseWrite, Fifo!FifoNext
<1>7. CASE Keeps
  BY <1>7, Zenon DEF Keeps, Contents, Count
<1> QED
  BY <1>4, <1>5, <1>6, <1>7, Zenon DEF Fifo!FifoNext

(* pipe_read() and pipe_write() implement the bounded FIFO of PipeFifo for *)
(* every number of processes, size of the ring and width of the counters:  *)
(* bytes leave in the order in which they entered, none is overwritten     *)
(* before it was read, and an end that was closed stays closed.            *)
THEOREM PipeRefinesFifo == Spec => RefinesFifo
<1>1. Init => CountInv /\ Fifo!FifoInit
  <2> SUFFICES ASSUME Init PROVE CountInv /\ Fifo!FifoInit
    BY Zenon
  <2>1. Fits(PIPE_SIZE, WORD) /\ 0 \in Index(WORD)
    BY PipeAssumption, WordAssumption DEF Fits, Index
  <2>2. Gap(WORD, 0, 0) = 0
    BY <2>1, GapType, Zenon
  <2>3. Count = 0
    BY <2>2, Zenon DEF Init, Count, Gap
  <2> QED
    BY <2>3, PipeAssumption DEF Init, CountInv, Fifo!FifoInit, Contents
<1>2. TypeOK /\ LifeInv /\ CountInv /\ [Next]_vars => CountInv'
  BY PipeSteps, CountStays, Zenon
<1>3. TypeOK /\ LifeInv /\ CountInv /\ [Next]_vars => [Fifo!FifoNext]_(Fifo!fifoVars)
  BY PipeSteps, PipeStepIsFifo, Zenon DEF Fifo!fifoVars
<1> QED
  BY <1>1, <1>2, <1>3, TypeCorrect, PipeLifetime, PTL DEF Spec, RefinesFifo, Fifo!FifoSpec

-----------------------------------------------------------------------------
(* The console.                                                            *)
-----------------------------------------------------------------------------
(* A call wants at least one byte, and has room for what it got.           *)
CallInv ==
    \A p \in Readers :
        /\ rpc[p] \in ReaderLabels \ {"user", "return", "exited"} => n[p] >= 1 /\ got[p] + n[p] <= MaxRead
        /\ rpc[p] \in {"user", "exited"} => got[p] = 0

(* w lies between r and e, which are at most the size of the ring apart.   *)
RingInv ==
    /\ Minus(w, r) + Minus(e, w) = Minus(e, r)
    /\ Minus(e, r) <= INPUT_BUF_SIZE

(* NoLostWakeup whoever has the lock.                                      *)
SleepInv == \A p \in Readers : rpc[p] = "r_sleep" => r = w

IInv == ConTypeOK /\ CallInv /\ RingInv /\ FullIsReadable /\ SleepInv /\ ReturnsWhatItCopied

-----------------------------------------------------------------------------
(* The console's indices are those of a ring buffer.                       *)
LEMMA ConsoleRing ==
    /\ Fits(INPUT_BUF_SIZE, WORD32)
    /\ \A a, b : Minus(a, b) = Gap(WORD32, a, b)
    /\ \A a : Ring(a) = Slot(INPUT_BUF_SIZE, a)
  BY ConsoleAssumption, Zenon DEF Fits, Minus, Gap, Ring, Slot

LEMMA MinusIs ==
    ASSUME NEW a \in Index(WORD32), NEW b \in Index(WORD32)
    PROVE  Minus(a, b) = IF a >= b THEN a - b ELSE a - b + WORD32
  BY ConsoleRing, GapIs, Zenon

LEMMA NextIs ==
    ASSUME NEW a \in Index(WORD32)
    PROVE  (a + 1) % WORD32 \in Index(WORD32) /\ (a + 1) % WORD32 = IF a = WORD32 - 1 THEN 0 ELSE a + 1
  BY ConsoleRing, IncIs, Zenon

-----------------------------------------------------------------------------
(* What the steps do to the ring.                                          *)
Taken == r # w /\ r' = Next1 /\ UNCHANGED <<buf, w, e>>
Erased == e # w /\ e' = Minus(e, 1) /\ UNCHANGED <<buf, r, w>>
Stored(c) ==
    /\ ~Full
    /\ buf' = [buf EXCEPT ![Ring(e)] = c]
    /\ e' = (e + 1) % WORD32
    /\ w' = e' \/ (w' = w /\ Minus(e', r) # INPUT_BUF_SIZE)
    /\ r' = r
RingStep == UNCHANGED ring \/ Taken \/ Erased \/ \E c \in Chars \cup {"nl"} : Stored(c)

LEMMA StepsOnRing ==
    ASSUME [ConNext]_conVars
    PROVE  RingStep
<1>1. ASSUME NEW p \in Readers, ReadCall(p) PROVE RingStep
  BY <1>1, Zenon DEF ReadCall, ReaderAt, ring, call, RingStep, Taken
<1>2. ASSUME NEW p \in Readers, ReadFetch(p) PROVE RingStep
  BY <1>2, Zenon DEF ReadFetch, ring, call, RingStep, Taken
<1>3. ASSUME NEW p \in Readers, ReadLocks(p) PROVE RingStep
  BY <1>3, Zenon DEF ReadLocks, ReaderAt, ring, call, RingStep, Taken
<1>4. ASSUME NEW p \in Readers, ReadByteWanted(p) PROVE RingStep
  BY <1>4, Zenon DEF ReadByteWanted, ReaderAt, ring, call, RingStep, Taken
<1>5. ASSUME NEW p \in Readers, ReadKilled(p) PROVE RingStep
  BY <1>5, Zenon DEF ReadKilled, ReturnRead, ReaderAt, ring, call, RingStep, Taken
<1>6. ASSUME NEW p \in Readers, ReadSleeps(p) PROVE RingStep
  BY <1>6, Zenon DEF ReadSleeps, ReaderAt, ring, call, RingStep, Taken
<1>7. ASSUME NEW p \in Readers, ReadTimeout(p) PROVE RingStep
  BY <1>7, Zenon DEF ReadTimeout, ReturnRead, ReaderAt, ring, call, RingStep, Taken
<1>8. ASSUME NEW p \in Readers, ReadWoken(p) PROVE RingStep
  BY <1>8, Zenon DEF ReadWoken, ReaderAt, ring, call, RingStep, Taken
<1>9. ASSUME NEW p \in Readers, ReadEof(p) PROVE RingStep
  BY <1>9, Zenon DEF ReadEof, ReturnRead, ReaderAt, ring, call, RingStep, Taken
<1>10. ASSUME NEW p \in Readers, TakeFault(p) PROVE RingStep
  BY <1>10, Zenon DEF TakeFault, ReturnRead, ReaderAt, ring, call, RingStep, Taken
<1>11. ASSUME NEW p \in Readers, TakeByte(p) PROVE RingStep
  BY <1>11, Zenon DEF TakeByte, ReturnRead, ReaderAt, ring, call, RingStep, Taken
<1>12. ASSUME NEW p \in Readers, Resume(p) PROVE RingStep
  BY <1>12, Zenon DEF Resume, ReaderAt, ring, call, RingStep, Taken
<1>13. ASSUME NEW p \in Readers, KillReader(p) PROVE RingStep
  BY <1>13, Zenon DEF KillReader, ReaderAt, ring, call, RingStep, Taken
<1>14. ASSUME NEW p \in Readers, ReaderExit(p) PROVE RingStep
  BY <1>14, Zenon DEF ReaderExit, ReaderAt, ring, call, RingStep, Taken
<1>15. ASSUME NEW m \in Modes, SetTermios(m) PROVE RingStep
  BY <1>15, Zenon DEF SetTermios, ring, call, RingStep, Taken
<1>16. ASSUME Tick PROVE RingStep
  BY <1>16, Zenon DEF Tick, WakeReaders, ring, call, RingStep, Taken
<1>17. ASSUME NEW c \in Chars, Interrupt(c) PROVE RingStep
  <2>1. CASE Erase
    BY <1>17, <2>1, Zenon DEF Erase, Erased, ring, RingStep
  <2>2. ASSUME NEW d \in Chars \cup {"nl"}, Store(d) PROVE Stored(d)
    BY <2>2, Zenon DEF Store, Stored, Submit
  <2> QED
    BY <1>17, <2>1, <2>2, Zenon DEF Interrupt, RingStep, ring
<1>18. CASE UNCHANGED conVars
  BY <1>18, Zenon DEF conVars, ring, call, RingStep, Taken
<1> QED
  BY <1>1, <1>2, <1>3, <1>4, <1>5, <1>6, <1>7, <1>8, <1>9, <1>10, <1>11, <1>12, <1>13, <1>14, <1>15, <1>16, <1>17, <1>18, Zenon DEF ConNext, Others, ConStep

(* The indices stay indices, in order and close enough.                    *)
LEMMA RingStays ==
    ASSUME ConTypeOK, RingInv, FullIsReadable, RingStep
    PROVE  {r, w, e}' \subseteq Index(WORD32) /\ RingInv' /\ FullIsReadable'
<1> USE ConsoleAssumption
<1>0. r \in Index(WORD32) /\ w \in Index(WORD32) /\ e \in Index(WORD32)
  BY Zenon DEF ConTypeOK, Index
<1>1. /\ Minus(w, r) = IF w >= r THEN w - r ELSE w - r + WORD32
      /\ Minus(e, w) = IF e >= w THEN e - w ELSE e - w + WORD32
      /\ Minus(e, r) = IF e >= r THEN e - r ELSE e - r + WORD32
  BY <1>0, MinusIs, Zenon
<1>2. CASE UNCHANGED ring
  BY <1>0, <1>2, Zenon DEF ring, RingInv, FullIsReadable, Minus
<1>3. CASE Taken
  <2>1. r' \in Index(WORD32) /\ r' = IF r = WORD32 - 1 THEN 0 ELSE r + 1
    BY <1>0, <1>3, NextIs, Zenon DEF Taken, Next1
  <2>2. /\ Minus(w, r') = IF w >= r' THEN w - r' ELSE w - r' + WORD32
        /\ Minus(e, r') = IF e >= r' THEN e - r' ELSE e - r' + WORD32
    BY <1>0, <2>1, MinusIs, Zenon
  <2>3. r # w /\ w' = w /\ e' = e
    BY <1>3, Zenon DEF Taken
  <2>4. Minus(w', r') = Minus(w, r') /\ Minus(e', r') = Minus(e, r') /\ Minus(e', w') = Minus(e, w)
    BY <2>3, Zenon DEF Minus
  <2>5. Minus(w, r') = Minus(w, r) - 1 /\ Minus(e, r') = Minus(e, r) - 1
    BY <1>0, <1>1, <2>1, <2>2, <2>3 DEF Index, RingInv
  <2> QED
    BY <1>0, <1>1, <2>1, <2>3, <2>4, <2>5 DEF RingInv, FullIsReadable, Index
<1>4. CASE Erased
  <2>1. e' = IF e >= 1 THEN e - 1 ELSE e - 1 + WORD32
    BY <1>0, <1>4, MinusIs DEF Erased, Index
  <2>2. e' \in Index(WORD32)
    BY <1>0, <2>1 DEF Index
  <2>3. /\ Minus(e', w) = IF e' >= w THEN e' - w ELSE e' - w + WORD32
        /\ Minus(e', r) = IF e' >= r THEN e' - r ELSE e' - r + WORD32
    BY <1>0, <2>2, MinusIs, Zenon
  <2>4. e # w /\ w' = w /\ r' = r
    BY <1>4, Zenon DEF Erased
  <2>5. Minus(w', r') = Minus(w, r) /\ Minus(e', r') = Minus(e', r) /\ Minus(e', w') = Minus(e', w)
    BY <2>4, Zenon DEF Minus
  <2>6. Minus(e', w) = Minus(e, w) - 1 /\ Minus(e', r) = Minus(e, r) - 1
    BY <1>0, <1>1, <2>1, <2>3, <2>4 DEF Index, RingInv
  <2> QED
    BY <1>0, <1>1, <2>2, <2>4, <2>5, <2>6 DEF RingInv, FullIsReadable, Index
<1>5. ASSUME NEW c \in Chars \cup {"nl"}, Stored(c)
      PROVE  {r, w, e}' \subseteq Index(WORD32) /\ RingInv' /\ FullIsReadable'
  <2>1. e' \in Index(WORD32) /\ e' = IF e = WORD32 - 1 THEN 0 ELSE e + 1
    BY <1>0, <1>5, NextIs, Zenon DEF Stored
  <2>2. /\ Minus(e', w) = IF e' >= w THEN e' - w ELSE e' - w + WORD32
        /\ Minus(e', r) = IF e' >= r THEN e' - r ELSE e' - r + WORD32
        /\ Minus(e', e') = 0
    BY <1>0, <2>1, MinusIs DEF Index
  <2>3. r' = r /\ Minus(e, r) < INPUT_BUF_SIZE /\ (w' = e' \/ (w' = w /\ Minus(e', r) # INPUT_BUF_SIZE))
    BY <1>0, <1>1, <1>5 DEF Stored, Full, Index
  <2>4. Minus(e', w) = Minus(e, w) + 1 /\ Minus(e', r) = Minus(e, r) + 1
    BY <1>0, <1>1, <2>1, <2>2, <2>3, SMTT(30) DEF Index, RingInv
  <2>5. CASE w' = e'
    <3>1. Minus(w', r') = Minus(e', r) /\ Minus(e', w') = 0 /\ Minus(e', r') = Minus(e', r)
      BY <2>2, <2>3, <2>5, Zenon DEF Minus
    <3> QED
      BY <1>0, <1>1, <2>1, <2>2, <2>3, <2>4, <2>5, <3>1 DEF RingInv, FullIsReadable, Index
  <2>6. CASE w' = w /\ Minus(e', r) # INPUT_BUF_SIZE
    <3>1. Minus(w', r') = Minus(w, r) /\ Minus(e', w') = Minus(e', w) /\ Minus(e', r') = Minus(e', r)
      BY <2>3, <2>6, Zenon DEF Minus
    <3> QED
      BY <1>0, <1>1, <2>1, <2>3, <2>4, <2>6, <3>1 DEF RingInv, FullIsReadable, Index
  <2> QED
    BY <2>3, <2>5, <2>6, Zenon
<1> QED
  BY <1>2, <1>3, <1>4, <1>5, Zenon DEF RingStep

-----------------------------------------------------------------------------
LEMMA TermiosType ==
    ASSUME ConTypeOK
    PROVE  termios.icanon \in BOOLEAN /\ termios.vmin \in Nat /\ termios.vtime \in Nat
<1>1. CASE termios \in Modes
  BY <1>1, ConsoleAssumption, Zenon
<1>2. CASE termios = [icanon |-> TRUE, icrnl |-> TRUE, vmin |-> 1, vtime |-> 0]
  BY <1>2, Zenon
<1> QED
  BY <1>1, <1>2, Zenon DEF ConTypeOK

(* The two halves of the type of the readers' own state.                  *)
StatesOK ==
    /\ termios \in Modes \cup {[icanon |-> TRUE, icrnl |-> TRUE, vmin |-> 1, vtime |-> 0]}
    /\ con_lock \in Readers \cup {NoReader}
    /\ rpc \in [Readers -> ReaderLabels] /\ rkilled \in [Readers -> BOOLEAN]
    /\ canonical \in [Readers -> BOOLEAN]

NumbersOK ==
    /\ n \in [Readers -> 0 .. MaxRead] /\ got \in [Readers -> 0 .. MaxRead]
    /\ termios_target \in [Readers -> Int]
    /\ timeout \in [Readers -> Nat] /\ ret \in [Readers -> Int]

LEMMA StatesStay ==
    ASSUME ConTypeOK, [ConNext]_conVars
    PROVE  StatesOK'
<1>0. StatesOK
  BY Zenon DEF ConTypeOK, StatesOK
<1>a. termios.icanon \in BOOLEAN
  BY TermiosType, Zenon
<1>1. ASSUME NEW p \in Readers, ReadCall(p) PROVE StatesOK'
  BY <1>1, <1>0, <1>a, Zenon DEF ReadCall, ReaderAt, ring, call, StatesOK, ReaderLabels, ReaderHolding
<1>2. ASSUME NEW p \in Readers, ReadFetch(p) PROVE StatesOK'
  BY <1>2, <1>0, <1>a, Zenon DEF ReadFetch, ring, call, StatesOK, ReaderLabels, ReaderHolding
<1>3. ASSUME NEW p \in Readers, ReadLocks(p) PROVE StatesOK'
  BY <1>3, <1>0, <1>a, Zenon DEF ReadLocks, ReaderAt, ring, call, StatesOK, ReaderLabels, ReaderHolding
<1>4. ASSUME NEW p \in Readers, ReadByteWanted(p) PROVE StatesOK'
  BY <1>4, <1>0, <1>a, Zenon DEF ReadByteWanted, ReaderAt, ring, call, StatesOK, ReaderLabels, ReaderHolding
<1>5. ASSUME NEW p \in Readers, ReadKilled(p) PROVE StatesOK'
  BY <1>5, <1>0, <1>a, Zenon DEF ReadKilled, ReturnRead, ReaderAt, ring, call, StatesOK, ReaderLabels, ReaderHolding
<1>6. ASSUME NEW p \in Readers, ReadSleeps(p) PROVE StatesOK'
  BY <1>6, <1>0, <1>a, Zenon DEF ReadSleeps, ReaderAt, ring, call, StatesOK, ReaderLabels, ReaderHolding
<1>7. ASSUME NEW p \in Readers, ReadTimeout(p) PROVE StatesOK'
  BY <1>7, <1>0, <1>a, Zenon DEF ReadTimeout, ReturnRead, ReaderAt, ring, call, StatesOK, ReaderLabels, ReaderHolding
<1>8. ASSUME NEW p \in Readers, ReadWoken(p) PROVE StatesOK'
  BY <1>8, <1>0, <1>a, Zenon DEF ReadWoken, ReaderAt, ring, call, StatesOK, ReaderLabels, ReaderHolding
<1>9. ASSUME NEW p \in Readers, ReadEof(p) PROVE StatesOK'
  BY <1>9, <1>0, <1>a, Zenon DEF ReadEof, ReturnRead, ReaderAt, ring, call, StatesOK, ReaderLabels, ReaderHolding
<1>10. ASSUME NEW p \in Readers, TakeFault(p) PROVE StatesOK'
  BY <1>10, <1>0, <1>a, Zenon DEF TakeFault, ReturnRead, ReaderAt, ring, call, StatesOK, ReaderLabels, ReaderHolding
<1>11. ASSUME NEW p \in Readers, TakeByte(p) PROVE StatesOK'
  <2>1. rpc' \in [Readers -> ReaderLabels] /\ con_lock' \in Readers \cup {NoReader}
    BY <1>11, <1>0, Zenon DEF TakeByte, ReturnRead, ReaderAt, StatesOK, ReaderLabels, ReaderHolding
  <2> QED
    BY <1>11, <1>0, <2>1, Zenon DEF TakeByte, ReturnRead, StatesOK
<1>12. ASSUME NEW p \in Readers, Resume(p) PROVE StatesOK'
  BY <1>12, <1>0, <1>a, ZenonT(20) DEF Resume, ReaderAt, ring, call, StatesOK, ReaderLabels, ReaderHolding
<1>13. ASSUME NEW p \in Readers, KillReader(p) PROVE StatesOK'
  BY <1>13, <1>0, <1>a, Zenon DEF KillReader, ReaderAt, ring, call, StatesOK, ReaderLabels, ReaderHolding
<1>14. ASSUME NEW p \in Readers, ReaderExit(p) PROVE StatesOK'
  BY <1>14, <1>0, <1>a, Zenon DEF ReaderExit, ReaderAt, ring, call, StatesOK, ReaderLabels, ReaderHolding
<1>15. ASSUME NEW m \in Modes, SetTermios(m) PROVE StatesOK'
  BY <1>15, <1>0, <1>a, ZenonT(20) DEF SetTermios, ring, call, StatesOK, ReaderLabels, ReaderHolding
<1>16. ASSUME Tick PROVE StatesOK'
  BY <1>16, <1>0, <1>a, ZenonT(20) DEF Tick, WakeReaders, ring, call, StatesOK, ReaderLabels, ReaderHolding
<1>17. ASSUME NEW c \in Chars, Interrupt(c) PROVE StatesOK'
  <2>1. rpc' \in [Readers -> ReaderLabels]
    BY <1>17, <1>0, ZenonT(20) DEF Interrupt, Erase, Store, WakeReaders, StatesOK, ReaderLabels, ReaderHolding
  <2> QED
    BY <1>17, <1>0, <2>1, ZenonT(20) DEF Interrupt, call, StatesOK
<1>18. CASE UNCHANGED conVars
  BY <1>18, <1>0, <1>a, Zenon DEF conVars, ring, call, StatesOK, ReaderLabels, ReaderHolding
<1> QED
  BY <1>1, <1>2, <1>3, <1>4, <1>5, <1>6, <1>7, <1>8, <1>9, <1>10, <1>11, <1>12, <1>13, <1>14, <1>15, <1>16, <1>17, <1>18, Zenon DEF ConNext, Others, ConStep

LEMMA NumbersStay ==
    ASSUME IInv, [ConNext]_conVars
    PROVE  NumbersOK'
<1>0. NumbersOK /\ CallInv
  BY Zenon DEF IInv, ConTypeOK, NumbersOK
<1>a. termios.vmin \in Nat /\ termios.vtime \in Nat
  BY TermiosType, Zenon DEF IInv
<1>b. MaxRead \in Nat
  BY ConsoleAssumption, Zenon
<1>1. ASSUME NEW p \in Readers, ReadCall(p) PROVE NumbersOK'
  BY <1>1, <1>0, <1>a, <1>b DEF ReadCall, ReaderAt, ring, call, NumbersOK, ESRCH
<1>2. ASSUME NEW p \in Readers, ReadFetch(p) PROVE NumbersOK'
  BY <1>2, <1>0, <1>a, <1>b DEF ReadFetch, ring, call, NumbersOK, ESRCH
<1>3. ASSUME NEW p \in Readers, ReadLocks(p) PROVE NumbersOK'
  BY <1>3, <1>0, <1>a, <1>b, Zenon DEF ReadLocks, ReaderAt, ring, call, NumbersOK, ESRCH
<1>4. ASSUME NEW p \in Readers, ReadByteWanted(p) PROVE NumbersOK'
  BY <1>4, <1>0, <1>a, <1>b, Zenon DEF ReadByteWanted, ReaderAt, ring, call, NumbersOK, ESRCH
<1>5. ASSUME NEW p \in Readers, ReadKilled(p) PROVE NumbersOK'
  BY <1>5, <1>0, <1>a, <1>b DEF ReadKilled, ReturnRead, ReaderAt, ring, call, NumbersOK, ESRCH
<1>6. ASSUME NEW p \in Readers, ReadSleeps(p) PROVE NumbersOK'
  BY <1>6, <1>0, <1>a, <1>b, Zenon DEF ReadSleeps, ReaderAt, ring, call, NumbersOK, ESRCH
<1>7. ASSUME NEW p \in Readers, ReadTimeout(p) PROVE NumbersOK'
  BY <1>7, <1>0, <1>a, <1>b DEF ReadTimeout, ReturnRead, ReaderAt, ring, call, NumbersOK, ESRCH
<1>8. ASSUME NEW p \in Readers, ReadWoken(p) PROVE NumbersOK'
  BY <1>8, <1>0, <1>a, <1>b, Zenon DEF ReadWoken, ReaderAt, ring, call, NumbersOK, ESRCH
<1>9. ASSUME NEW p \in Readers, ReadEof(p) PROVE NumbersOK'
  BY <1>9, <1>0, <1>a, <1>b DEF ReadEof, ReturnRead, ReaderAt, ring, call, NumbersOK, ESRCH
<1>10. ASSUME NEW p \in Readers, TakeFault(p) PROVE NumbersOK'
  BY <1>10, <1>0, <1>a, <1>b DEF TakeFault, ReturnRead, ReaderAt, ring, call, NumbersOK, ESRCH
<1>11. ASSUME NEW p \in Readers, TakeByte(p) PROVE NumbersOK'
  <2>1. got[p] + 1 \in 0 .. MaxRead /\ n[p] - 1 \in 0 .. MaxRead
    BY <1>11, <1>0, <1>b DEF TakeByte, NumbersOK, CallInv, ReaderLabels, ReaderHolding
  <2>2. got' \in [Readers -> 0 .. MaxRead] /\ timeout' \in [Readers -> Nat]
    BY <1>11, <1>0, <2>1, Zenon DEF TakeByte, ReturnRead, NumbersOK
  <2>3. n' \in [Readers -> 0 .. MaxRead]
    BY <1>11, <1>0, <2>1, Zenon DEF TakeByte, ReturnRead, NumbersOK
  <2>4. termios_target' \in [Readers -> Int]
    BY <1>11, <1>0 DEF TakeByte, ReturnRead, NumbersOK
  <2>5. got[p] + 1 \in Int
    BY <2>1, <1>b
  <2>6. ret' \in [Readers -> Int]
    BY <1>11, <1>0, <2>5, Zenon DEF TakeByte, ReturnRead, NumbersOK
  <2> QED
    BY <2>2, <2>3, <2>4, <2>6, ZenonT(20) DEF NumbersOK
<1>12. ASSUME NEW p \in Readers, Resume(p) PROVE NumbersOK'
  BY <1>12, <1>0, <1>a, <1>b DEF Resume, ReaderAt, ring, call, NumbersOK, ESRCH
<1>13. ASSUME NEW p \in Readers, KillReader(p) PROVE NumbersOK'
  BY <1>13, <1>0, <1>a, <1>b, Zenon DEF KillReader, ReaderAt, ring, call, NumbersOK, ESRCH
<1>14. ASSUME NEW p \in Readers, ReaderExit(p) PROVE NumbersOK'
  BY <1>14, <1>0, <1>a, <1>b, Zenon DEF ReaderExit, ReaderAt, ring, call, NumbersOK, ESRCH
<1>15. ASSUME NEW m \in Modes, SetTermios(m) PROVE NumbersOK'
  BY <1>15, <1>0, <1>a, <1>b, Zenon DEF SetTermios, ring, call, NumbersOK, ESRCH
<1>16. ASSUME Tick PROVE NumbersOK'
  BY <1>16, <1>0, <1>a, <1>b DEF Tick, WakeReaders, ring, call, NumbersOK, ESRCH
<1>17. ASSUME NEW c \in Chars, Interrupt(c) PROVE NumbersOK'
  BY <1>17, <1>0, <1>a, <1>b, Zenon DEF Interrupt, Erase, Store, Submit, WakeReaders, ring, call, NumbersOK, ESRCH
<1>18. CASE UNCHANGED conVars
  BY <1>18, <1>0, <1>a, <1>b, ZenonT(20) DEF conVars, ring, call, NumbersOK, ESRCH
<1> QED
  BY <1>1, <1>2, <1>3, <1>4, <1>5, <1>6, <1>7, <1>8, <1>9, <1>10, <1>11, <1>12, <1>13, <1>14, <1>15, <1>16, <1>17, <1>18, Zenon DEF ConNext, Others, ConStep

LEMMA TypeStays ==
    ASSUME IInv, [ConNext]_conVars
    PROVE  ConTypeOK'
<1>1. StatesOK' /\ NumbersOK'
  BY StatesStay, NumbersStay, Zenon DEF IInv
<1>2. RingStep
  BY StepsOnRing, Zenon
<1>3. {r, w, e}' \subseteq 0 .. (WORD32 - 1)
  BY <1>2, RingStays, Zenon DEF IInv, Index
<1>4. buf' \in [0 .. (INPUT_BUF_SIZE - 1) -> Chars \cup {"nul", "nl"}]
  BY <1>2, Zenon DEF IInv, ConTypeOK, RingStep, Taken, Erased, Stored, ring
<1> QED
  BY <1>1, <1>3, <1>4, Zenon DEF ConTypeOK, StatesOK, NumbersOK

LEMMA CallStays ==
    ASSUME IInv, [ConNext]_conVars
    PROVE  CallInv'
<1>0. NumbersOK /\ CallInv /\ MaxRead \in Nat /\ rpc \in [Readers -> ReaderLabels]
  BY ConsoleAssumption, Zenon DEF IInv, ConTypeOK, NumbersOK
<1>1. ASSUME NEW p \in Readers, ReadCall(p) PROVE CallInv'
  BY <1>1, <1>0 DEF ReadCall, ReaderAt, ring, call, NumbersOK, CallInv, ReaderLabels, ReaderHolding
<1>2. ASSUME NEW p \in Readers, ReadFetch(p) PROVE CallInv'
  BY <1>2, <1>0, Zenon DEF ReadFetch, ring, call, NumbersOK, CallInv, ReaderLabels, ReaderHolding
<1>3. ASSUME NEW p \in Readers, ReadLocks(p) PROVE CallInv'
  BY <1>3, <1>0, Zenon DEF ReadLocks, ReaderAt, ring, call, NumbersOK, CallInv, ReaderLabels, ReaderHolding
<1>4. ASSUME NEW p \in Readers, ReadByteWanted(p) PROVE CallInv'
  BY <1>4, <1>0, Zenon DEF ReadByteWanted, ReaderAt, ring, call, NumbersOK, CallInv, ReaderLabels, ReaderHolding
<1>5. ASSUME NEW p \in Readers, ReadKilled(p) PROVE CallInv'
  BY <1>5, <1>0, ZenonT(20) DEF ReadKilled, ReturnRead, ReaderAt, ring, call, NumbersOK, CallInv, ReaderLabels, ReaderHolding
<1>6. ASSUME NEW p \in Readers, ReadSleeps(p) PROVE CallInv'
  BY <1>6, <1>0, ZenonT(20) DEF ReadSleeps, ReaderAt, ring, call, NumbersOK, CallInv, ReaderLabels, ReaderHolding
<1>7. ASSUME NEW p \in Readers, ReadTimeout(p) PROVE CallInv'
  BY <1>7, <1>0, Zenon DEF ReadTimeout, ReturnRead, ReaderAt, ring, call, NumbersOK, CallInv, ReaderLabels, ReaderHolding
<1>8. ASSUME NEW p \in Readers, ReadWoken(p) PROVE CallInv'
  BY <1>8, <1>0, Zenon DEF ReadWoken, ReaderAt, ring, call, NumbersOK, CallInv, ReaderLabels, ReaderHolding
<1>9. ASSUME NEW p \in Readers, ReadEof(p) PROVE CallInv'
  BY <1>9, <1>0, Zenon DEF ReadEof, ReturnRead, ReaderAt, ring, call, NumbersOK, CallInv, ReaderLabels, ReaderHolding
<1>10. ASSUME NEW p \in Readers, TakeFault(p) PROVE CallInv'
  BY <1>10, <1>0, Zenon DEF TakeFault, ReturnRead, ReaderAt, ring, call, NumbersOK, CallInv, ReaderLabels, ReaderHolding
<1>11. ASSUME NEW p \in Readers, TakeByte(p) PROVE CallInv'
  <2>1. CASE Last(p, buf[Ring(r)])
    BY <1>11, <1>0, <2>1, Zenon DEF TakeByte, ReturnRead, ReaderAt, NumbersOK, CallInv, ReaderLabels, ReaderHolding
  <2>2. CASE ~Last(p, buf[Ring(r)])
    <3>1. n[p] # 1
      BY <2>2, Zenon DEF Last
    <3>2. n[p] >= 1 /\ got[p] + n[p] <= MaxRead /\ n[p] \in Nat /\ got[p] \in Nat
      BY <1>11, <1>0 DEF TakeByte, NumbersOK, CallInv, ReaderLabels, ReaderHolding
    <3>3. n'[p] = n[p] - 1 /\ got'[p] = got[p] + 1 /\ rpc'[p] = "outer"
      BY <1>11, <1>0, <2>2, Zenon DEF TakeByte, ReaderAt, NumbersOK
    <3>4. \A q \in Readers : q # p => n'[q] = n[q] /\ got'[q] = got[q] /\ rpc'[q] = rpc[q]
      BY <1>11, <1>0, <2>2, ZenonT(20) DEF TakeByte, ReaderAt, NumbersOK
    <3>5. n'[p] >= 1 /\ got'[p] + n'[p] <= MaxRead
      BY <3>1, <3>2, <3>3, ConsoleAssumption
    <3>6. ASSUME NEW q \in Readers, q # p
          PROVE  /\ rpc'[q] \in ReaderLabels \ {"user", "return", "exited"} => n'[q] >= 1 /\ got'[q] + n'[q] <= MaxRead
                 /\ rpc'[q] \in {"user", "exited"} => got'[q] = 0
      BY <1>0, <3>4, <3>6, Zenon DEF CallInv
    <3> QED
      BY <3>3, <3>5, <3>6, Zenon DEF CallInv
  <2> QED
    BY <2>1, <2>2, ZenonT(20)
<1>12. ASSUME NEW p \in Readers, Resume(p) PROVE CallInv'
  BY <1>12, <1>0, Zenon DEF Resume, ReaderAt, ring, call, NumbersOK, CallInv, ReaderLabels, ReaderHolding
<1>13. ASSUME NEW p \in Readers, KillReader(p) PROVE CallInv'
  BY <1>13, <1>0, Zenon DEF KillReader, ReaderAt, ring, call, NumbersOK, CallInv, ReaderLabels, ReaderHolding
<1>14. ASSUME NEW p \in Readers, ReaderExit(p) PROVE CallInv'
  BY <1>14, <1>0, Zenon DEF ReaderExit, ReaderAt, ring, call, NumbersOK, CallInv, ReaderLabels, ReaderHolding
<1>15. ASSUME NEW m \in Modes, SetTermios(m) PROVE CallInv'
  BY <1>15, <1>0, Zenon DEF SetTermios, ring, call, NumbersOK, CallInv, ReaderLabels, ReaderHolding
<1>16. ASSUME Tick PROVE CallInv'
  BY <1>16, <1>0, Zenon DEF Tick, WakeReaders, ring, call, NumbersOK, CallInv, ReaderLabels, ReaderHolding
<1>17. ASSUME NEW c \in Chars, Interrupt(c) PROVE CallInv'
  <2>1. \A q \in Readers : rpc'[q] = rpc[q] \/ (rpc[q] = "r_sleep" /\ rpc'[q] = "r_woken")
    BY <1>17, <1>0, Zenon DEF Interrupt, Erase, Store, WakeReaders
  <2> QED
    BY <1>17, <1>0, <2>1, Zenon DEF Interrupt, call, CallInv, ReaderLabels, ReaderHolding
<1>18. CASE UNCHANGED conVars
  BY <1>18, <1>0, Zenon DEF conVars, ring, call, NumbersOK, CallInv, ReaderLabels, ReaderHolding
<1> QED
  BY <1>1, <1>2, <1>3, <1>4, <1>5, <1>6, <1>7, <1>8, <1>9, <1>10, <1>11, <1>12, <1>13, <1>14, <1>15, <1>16, <1>17, <1>18, Zenon DEF ConNext, Others, ConStep

(* A reader goes to sleep on r only when nothing was handed over, and each *)
(* step that hands something over wakes all of them.                       *)
LEMMA SleepStays ==
    ASSUME IInv, [ConNext]_conVars
    PROVE  SleepInv'
<1>0. ConTypeOK /\ SleepInv
  BY Zenon DEF IInv
<1>1. ASSUME NEW p \in Readers, ReadCall(p) PROVE SleepInv'
  BY <1>1, <1>0, ZenonT(20) DEF ReadCall, ReaderAt, ring, call, ConTypeOK, SleepInv
<1>2. ASSUME NEW p \in Readers, ReadFetch(p) PROVE SleepInv'
  BY <1>2, <1>0, ZenonT(20) DEF ReadFetch, ring, call, ConTypeOK, SleepInv
<1>3. ASSUME NEW p \in Readers, ReadLocks(p) PROVE SleepInv'
  BY <1>3, <1>0, ZenonT(20) DEF ReadLocks, ReaderAt, ring, call, ConTypeOK, SleepInv
<1>4. ASSUME NEW p \in Readers, ReadByteWanted(p) PROVE SleepInv'
  BY <1>4, <1>0, Zenon DEF ReadByteWanted, ReaderAt, ring, call, ConTypeOK, SleepInv
<1>5. ASSUME NEW p \in Readers, ReadKilled(p) PROVE SleepInv'
  BY <1>5, <1>0, Zenon DEF ReadKilled, ReturnRead, ReaderAt, ring, call, ConTypeOK, SleepInv
<1>6. ASSUME NEW p \in Readers, ReadSleeps(p) PROVE SleepInv'
  BY <1>6, <1>0, Zenon DEF ReadSleeps, ReaderAt, ring, call, ConTypeOK, SleepInv
<1>7. ASSUME NEW p \in Readers, ReadTimeout(p) PROVE SleepInv'
  BY <1>7, <1>0, Zenon DEF ReadTimeout, ReturnRead, ReaderAt, ring, call, ConTypeOK, SleepInv
<1>8. ASSUME NEW p \in Readers, ReadWoken(p) PROVE SleepInv'
  BY <1>8, <1>0, Zenon DEF ReadWoken, ReaderAt, ring, call, ConTypeOK, SleepInv
<1>9. ASSUME NEW p \in Readers, ReadEof(p) PROVE SleepInv'
  <2>1. r # w
    BY <1>9, Zenon DEF ReadEof
  <2>2. \A q \in Readers : rpc[q] # "r_sleep"
    BY <1>0, <2>1, Zenon DEF SleepInv
  <2> QED
    BY <1>9, <1>0, <2>2, Zenon DEF ReadEof, ReturnRead, ReaderAt, ConTypeOK, SleepInv
<1>10. ASSUME NEW p \in Readers, TakeFault(p) PROVE SleepInv'
  <2>1. r # w
    BY <1>10, Zenon DEF TakeFault
  <2>2. \A q \in Readers : rpc[q] # "r_sleep"
    BY <1>0, <2>1, Zenon DEF SleepInv
  <2> QED
    BY <1>10, <1>0, <2>2, Zenon DEF TakeFault, ReturnRead, ReaderAt, ConTypeOK, SleepInv
<1>11. ASSUME NEW p \in Readers, TakeByte(p) PROVE SleepInv'
  <2>1. r # w
    BY <1>11, Zenon DEF TakeByte
  <2>2. \A q \in Readers : rpc[q] # "r_sleep"
    BY <1>0, <2>1, Zenon DEF SleepInv
  <2> QED
    BY <1>11, <1>0, <2>2, Zenon DEF TakeByte, ReturnRead, ReaderAt, ConTypeOK, SleepInv
<1>12. ASSUME NEW p \in Readers, Resume(p) PROVE SleepInv'
  BY <1>12, <1>0, Zenon DEF Resume, ReaderAt, ring, call, ConTypeOK, SleepInv
<1>13. ASSUME NEW p \in Readers, KillReader(p) PROVE SleepInv'
  BY <1>13, <1>0, Zenon DEF KillReader, ReaderAt, ring, call, ConTypeOK, SleepInv
<1>14. ASSUME NEW p \in Readers, ReaderExit(p) PROVE SleepInv'
  BY <1>14, <1>0, Zenon DEF ReaderExit, ReaderAt, ring, call, ConTypeOK, SleepInv
<1>15. ASSUME NEW m \in Modes, SetTermios(m) PROVE SleepInv'
  BY <1>15, <1>0, Zenon DEF SetTermios, ring, call, ConTypeOK, SleepInv
<1>16. ASSUME Tick PROVE SleepInv'
  BY <1>16, <1>0, Zenon DEF Tick, WakeReaders, ring, call, ConTypeOK, SleepInv
<1>17. ASSUME NEW c \in Chars, Interrupt(c) PROVE SleepInv'
  <2>1. CASE Erase
    BY <1>17, <1>0, <2>1, Zenon DEF Erase, SleepInv
  <2>2. ASSUME NEW d, Store(d) PROVE SleepInv'
    BY <1>17, <1>0, <2>2, ZenonT(30) DEF Store, WakeReaders, ConTypeOK, SleepInv
  <2> QED
    BY <1>17, <1>0, <2>1, <2>2, Zenon DEF Interrupt, SleepInv, ring
<1>18. CASE UNCHANGED conVars
  BY <1>18, <1>0, ZenonT(20) DEF conVars, ring, call, ConTypeOK, SleepInv
<1> QED
  BY <1>1, <1>2, <1>3, <1>4, <1>5, <1>6, <1>7, <1>8, <1>9, <1>10, <1>11, <1>12, <1>13, <1>14, <1>15, <1>16, <1>17, <1>18, Zenon DEF ConNext, Others, ConStep

LEMMA ReturnStays ==
    ASSUME IInv, [ConNext]_conVars
    PROVE  ReturnsWhatItCopied'
<1>0. ConTypeOK /\ ReturnsWhatItCopied
  BY Zenon DEF IInv
<1>1. ASSUME NEW p \in Readers, ReadCall(p) PROVE ReturnsWhatItCopied'
  BY <1>1, <1>0, Zenon DEF ReadCall, ReaderAt, ring, call, ConTypeOK, ReturnsWhatItCopied
<1>2. ASSUME NEW p \in Readers, ReadFetch(p) PROVE ReturnsWhatItCopied'
  BY <1>2, <1>0, ZenonT(30) DEF ReadFetch, ring, call, ConTypeOK, ReturnsWhatItCopied
<1>3. ASSUME NEW p \in Readers, ReadLocks(p) PROVE ReturnsWhatItCopied'
  BY <1>3, <1>0, Zenon DEF ReadLocks, ReaderAt, ring, call, ConTypeOK, ReturnsWhatItCopied
<1>4. ASSUME NEW p \in Readers, ReadByteWanted(p) PROVE ReturnsWhatItCopied'
  BY <1>4, <1>0, Zenon DEF ReadByteWanted, ReaderAt, ring, call, ConTypeOK, ReturnsWhatItCopied
<1>5. ASSUME NEW p \in Readers, ReadKilled(p) PROVE ReturnsWhatItCopied'
  BY <1>5, <1>0, Zenon DEF ReadKilled, ReturnRead, ReaderAt, ring, call, ConTypeOK, ReturnsWhatItCopied
<1>6. ASSUME NEW p \in Readers, ReadSleeps(p) PROVE ReturnsWhatItCopied'
  BY <1>6, <1>0, Zenon DEF ReadSleeps, ReaderAt, ring, call, ConTypeOK, ReturnsWhatItCopied
<1>7. ASSUME NEW p \in Readers, ReadTimeout(p) PROVE ReturnsWhatItCopied'
  BY <1>7, <1>0, Zenon DEF ReadTimeout, ReturnRead, ReaderAt, ring, call, ConTypeOK, ReturnsWhatItCopied
<1>8. ASSUME NEW p \in Readers, ReadWoken(p) PROVE ReturnsWhatItCopied'
  BY <1>8, <1>0, ZenonT(20) DEF ReadWoken, ReaderAt, ring, call, ConTypeOK, ReturnsWhatItCopied
<1>9. ASSUME NEW p \in Readers, ReadEof(p) PROVE ReturnsWhatItCopied'
  BY <1>9, <1>0, ZenonT(20) DEF ReadEof, ReturnRead, ReaderAt, ring, call, ConTypeOK, ReturnsWhatItCopied
<1>10. ASSUME NEW p \in Readers, TakeFault(p) PROVE ReturnsWhatItCopied'
  BY <1>10, <1>0, ZenonT(20) DEF TakeFault, ReturnRead, ReaderAt, ring, call, ConTypeOK, ReturnsWhatItCopied
<1>11. ASSUME NEW p \in Readers, TakeByte(p) PROVE ReturnsWhatItCopied'
  BY <1>11, <1>0, Zenon DEF TakeByte, ReturnRead, ReaderAt, ring, call, ConTypeOK, ReturnsWhatItCopied
<1>12. ASSUME NEW p \in Readers, Resume(p) PROVE ReturnsWhatItCopied'
  BY <1>12, <1>0, ZenonT(20) DEF Resume, ReaderAt, ring, call, ConTypeOK, ReturnsWhatItCopied
<1>13. ASSUME NEW p \in Readers, KillReader(p) PROVE ReturnsWhatItCopied'
  BY <1>13, <1>0, ZenonT(20) DEF KillReader, ReaderAt, ring, call, ConTypeOK, ReturnsWhatItCopied
<1>14. ASSUME NEW p \in Readers, ReaderExit(p) PROVE ReturnsWhatItCopied'
  BY <1>14, <1>0, ZenonT(20) DEF ReaderExit, ReaderAt, ring, call, ConTypeOK, ReturnsWhatItCopied
<1>15. ASSUME NEW m \in Modes, SetTermios(m) PROVE ReturnsWhatItCopied'
  BY <1>15, <1>0, ZenonT(20) DEF SetTermios, ring, call, ConTypeOK, ReturnsWhatItCopied
<1>16. ASSUME Tick PROVE ReturnsWhatItCopied'
  BY <1>16, <1>0, Zenon DEF Tick, WakeReaders, ring, call, ConTypeOK, ReturnsWhatItCopied
<1>17. ASSUME NEW c \in Chars, Interrupt(c) PROVE ReturnsWhatItCopied'
  <2>1. \A q \in Readers : rpc'[q] = "return" => rpc[q] = "return"
    BY <1>17, <1>0, ZenonT(20) DEF Interrupt, Erase, Store, WakeReaders, ConTypeOK
  <2> QED
    BY <1>17, <1>0, <2>1, ZenonT(30) DEF Interrupt, call, ReturnsWhatItCopied
<1>18. CASE UNCHANGED conVars
  BY <1>18, <1>0, ZenonT(20) DEF conVars, ring, call, ConTypeOK, ReturnsWhatItCopied
<1> QED
  BY <1>1, <1>2, <1>3, <1>4, <1>5, <1>6, <1>7, <1>8, <1>9, <1>10, <1>11, <1>12, <1>13, <1>14, <1>15, <1>16, <1>17, <1>18, Zenon DEF ConNext, Others, ConStep

-----------------------------------------------------------------------------
LEMMA ConsoleInductive == ConSpec => []IInv
<1>1. ConInit => IInv
  <2> SUFFICES ASSUME ConInit PROVE IInv
    BY Zenon
  <2> USE ConsoleAssumption
  <2>1. 0 \in Index(WORD32)
    BY DEF Index
  <2>2. Minus(0, 0) = 0
    BY <2>1, MinusIs
  <2>3. ConTypeOK
    BY DEF ConInit, ConTypeOK, ReaderLabels, ReaderHolding
  <2>4. RingInv /\ FullIsReadable
    BY <2>2 DEF ConInit, RingInv, FullIsReadable
  <2> QED
    BY <2>3, <2>4, Zenon DEF ConInit, IInv, CallInv, SleepInv, ReturnsWhatItCopied, ReaderLabels, ReaderHolding
<1>2. IInv /\ [ConNext]_conVars => IInv'
  <2> SUFFICES ASSUME IInv, [ConNext]_conVars PROVE IInv'
    BY Zenon
  <2>1. ConTypeOK' /\ CallInv' /\ SleepInv' /\ ReturnsWhatItCopied'
    BY TypeStays, CallStays, SleepStays, ReturnStays, Zenon
  <2>2. RingInv' /\ FullIsReadable'
    BY StepsOnRing, RingStays, Zenon DEF IInv
  <2> QED
    BY <2>1, <2>2, Zenon DEF IInv
<1> QED
  BY <1>1, <1>2, PTL DEF ConSpec

(* console_read() and the input interrupt, for every number of readers,    *)
(* ring size and set of modes: no canonical reader sleeps on input that    *)
(* was handed over, a full buffer can always be read, and a read returns   *)
(* what it copied.                                                         *)
THEOREM ConsoleIsSafe == ConSpec => []ConsoleSafe
<1>1. IInv => ConsoleSafe
  BY Zenon DEF IInv, ConsoleSafe, SleepInv, NoReaderForgotten
<1> QED
  BY <1>1, ConsoleInductive, PTL

-----------------------------------------------------------------------------
Typed == Chars \cup {"nul", "nl"}

(* Each step on the ring is a step of the line discipline.                 *)
LEMMA RingStepIsTty ==
    ASSUME IInv, RingStep, ConTypeOK'
    PROVE  Tty!Type \/ Tty!Erase \/ Tty!Take \/ UNCHANGED <<Between(r, w), Between(w, e)>>
<1> DEFINE N == INPUT_BUF_SIZE
           Part(f, x, y) == Cells(N, WORD32, f, x, y)
           ready == Part(buf, r, w)
           edit == Part(buf, w, e)
<1>f. Fits(N, WORD32) /\ N \in Nat
  BY ConsoleRing, Zenon DEF Fits
<1>m. \A x, y : Minus(x, y) = Gap(WORD32, x, y)
  BY ConsoleRing, ZenonT(20)
<1>0. buf \in Rings(N, Typed) /\ r \in Index(WORD32) /\ w \in Index(WORD32) /\ e \in Index(WORD32)
  BY ZenonT(20) DEF IInv, ConTypeOK, Cell, Typed, Index, Rings
<1>a. /\ Between(r, w) = ready /\ Between(w, e) = edit
      /\ Between(r, w)' = Part(buf', r', w') /\ Between(w, e)' = Part(buf', w', e')
  BY Zenon DEF Between, Cells, Minus, Gap, Ring, Slot
<1> HIDE DEF N
<1>b. Len(ready) = Gap(WORD32, w, r) /\ Len(edit) = Gap(WORD32, e, w)
  <2>1. Spells(N, ready, Typed, buf, r, Gap(WORD32, w, r)) /\ Spells(N, edit, Typed, buf, w, Gap(WORD32, e, w))
    BY <1>f, <1>0, CellsAre, Zenon
  <2> QED
    BY <2>1, ZenonT(20) DEF Spells
<1>1. CASE UNCHANGED ring
  BY <1>1, <1>a, Zenon DEF ring
<1>2. CASE Taken
  <2>1. r # w /\ r' = (r + 1) % WORD32 /\ buf' = buf /\ w' = w /\ e' = e
    BY <1>2, Zenon DEF Taken, Next1
  <2>2. ready # << >> /\ Part(buf, (r + 1) % WORD32, w) = Tail(ready)
    BY <1>f, <1>0, <2>1, TakeCells, ZenonT(20)
  <2>3. Between(r, w)' = Tail(ready) /\ Between(w, e)' = edit
    BY <1>a, <2>1, <2>2, ZenonT(20)
  <2> QED
    BY <1>a, <2>2, <2>3, Zenon DEF Tty!Take
<1>3. CASE Erased
  <2>1. w # e /\ e' = Gap(WORD32, e, 1) /\ buf' = buf /\ w' = w /\ r' = r
    BY <1>3, <1>m, Zenon DEF Erased
  <2>2. edit # << >> /\ Part(buf, w, Gap(WORD32, e, 1)) = SubSeq(edit, 1, Len(edit) - 1)
    BY <1>f, <1>0, <2>1, EraseCells, ZenonT(20)
  <2>3. Between(r, w)' = ready /\ Between(w, e)' = SubSeq(edit, 1, Len(edit) - 1)
    BY <1>a, <2>1, <2>2, Zenon
  <2> QED
    BY <1>a, <2>2, <2>3, Zenon DEF Tty!Erase
<1>4. ASSUME NEW c \in Chars \cup {"nl"}, Stored(c) PROVE Tty!Type
  <2>1. buf' = [buf EXCEPT ![Slot(N, e)] = c] /\ e' = (e + 1) % WORD32 /\ r' = r /\ (w' = e' \/ w' = w)
    BY <1>4, ConsoleRing, Zenon DEF Stored, N
  <2>2. Gap(WORD32, w, r) \in Nat /\ Gap(WORD32, e, w) \in Nat /\ Gap(WORD32, e, r) \in Nat
    BY <1>f, <1>0, GapType, ZenonT(20)
  <2>3. Gap(WORD32, e, r) < N /\ Gap(WORD32, w, r) + Gap(WORD32, e, w) = Gap(WORD32, e, r)
    BY <1>4, <1>f, <1>m, <2>2 DEF Stored, Full, IInv, RingInv, N
  <2>4. Gap(WORD32, e, w) < N /\ Gap(WORD32, w, r) <= Gap(WORD32, e, r) /\ Len(ready) + Len(edit) < N
    BY <1>b, <1>f, <2>2, <2>3
  <2>5. c \in Typed /\ Slot(N, e) \in Cell(N)
    BY <1>f, <1>0, SlotOfIndex DEF Typed, Index
  <2>6. PICK g \in Rings(N, Typed) : g = buf'
    BY <1>0, <2>1, <2>5, Zenon DEF Rings
  <2>7. Differs(N, g, buf, Slot(N, e), c)
    <3>1. g = [buf EXCEPT ![Slot(N, e)] = c]
      BY <2>1, <2>6, Zenon
    <3>2. g[Slot(N, e)] = c
      BY <1>0, <2>5, <3>1, Zenon DEF Rings
    <3>3. \A i \in Cell(N) : i # Slot(N, e) => g[i] = buf[i]
      BY <1>0, <3>1, ZenonT(20) DEF Rings
    <3> QED
      BY <3>2, <3>3, Zenon DEF Differs
  <2>8. CASE w' = e'
    <3>1. Part(g, r, (e + 1) % WORD32) = Append(Part(buf, r, e), c)
      BY <1>f, <1>0, <2>3, <2>5, <2>7, StoreCells, SMTT(30)
    <3>2. Part(buf, r, e) = ready \o edit
      BY <1>f, <1>0, <2>3, JoinCells, Zenon
    <3>3. (e + 1) % WORD32 \in Index(WORD32)
      BY <1>f, <1>0, IncIs, Zenon
    <3>4. Gap(WORD32, (e + 1) % WORD32, (e + 1) % WORD32) = 0
      BY <1>f, <3>3, GapType
    <3>5. Part(g, (e + 1) % WORD32, (e + 1) % WORD32) = << >>
      BY <3>4 DEF Cells
    <3>6. Between(r, w)' = Append(ready \o edit, c) /\ Between(w, e)' = << >>
      BY <1>a, <2>1, <2>6, <2>8, <3>1, <3>2, <3>5, ZenonT(30)
    <3> QED
      BY <1>a, <2>4, <3>6, Zenon DEF Tty!Type, N
  <2>9. CASE w' = w
    <3>1. Part(g, w, (e + 1) % WORD32) = Append(edit, c)
      BY <1>f, <1>0, <2>4, <2>5, <2>7, StoreCells, SMTT(30)
    <3>2. Part(g, r, w) = ready
      BY <1>f, <1>0, <2>3, <2>4, <2>7, KeepCells
    <3>3. Between(r, w)' = ready /\ Between(w, e)' = Append(edit, c)
      BY <1>a, <2>1, <2>6, <2>9, <3>1, <3>2, Zenon
    <3> QED
      BY <1>a, <2>4, <3>3, Zenon DEF Tty!Type, N
  <2> QED
    BY <2>1, <2>8, <2>9, Zenon
<1> QED
  BY <1>1, <1>2, <1>3, <1>4, Zenon DEF RingStep

(* console_read() and the input interrupt implement the line discipline    *)
(* of TtyQueue for every ring size, index width, set of modes and number   *)
(* of readers: no character is read twice, skipped, overwritten, or erased *)
(* after its line was handed over, also when the indices wrap around.      *)
THEOREM ConsoleRefinesTty == ConSpec => RefinesTty
<1>1. ConInit => Tty!Init
  <2> SUFFICES ASSUME ConInit PROVE Tty!Init
    BY Zenon
  <2>1. 0 \in Index(WORD32)
    BY ConsoleAssumption DEF Index
  <2>2. Minus(0, 0) = 0
    BY <2>1, MinusIs
  <2> QED
    BY <2>2 DEF ConInit, Tty!Init, Between
<1>2. IInv /\ IInv' /\ [ConNext]_conVars => [Tty!Type \/ Tty!Erase \/ Tty!Take]_<<Between(r, w), Between(w, e)>>
  <2> SUFFICES ASSUME IInv, IInv', [ConNext]_conVars
               PROVE  Tty!Type \/ Tty!Erase \/ Tty!Take \/ UNCHANGED <<Between(r, w), Between(w, e)>>
    BY Zenon
  <2>1. ConTypeOK'
    BY Zenon DEF IInv
  <2> QED
    BY <2>1, StepsOnRing, RingStepIsTty, Zenon
<1> QED
  BY <1>1, <1>2, ConsoleInductive, PTL DEF ConSpec, RefinesTty, Tty!TSpec
=============================================================================
