-------------------------------- MODULE Pipe --------------------------------
(***************************************************************************)
(* kernel/ipc/pipe.c: one pipe shared by several processes.                *)
(*                                                                         *)
(* pipe->lock is a spinlock that read() and write() keep from entry to     *)
(* return, except inside sleep().  The steps below are the points at which *)
(* another CPU can interfere: it can set `killed` at any time (kill takes  *)
(* no pipe lock), and it can run a whole call while this one sleeps.       *)
(* sleep(chan, lk) releases lk and blocks in one step and wakeup(chan)     *)
(* readies every sleeper in one step: module Sleep shows that proc.c       *)
(* implements exactly that.                                                *)
(*                                                                         *)
(* nread and nwrite are size_t counters that are never reset: they are     *)
(* kept modulo WORD so that their wrap-around is part of the model.        *)
(***************************************************************************)
EXTENDS Naturals, FiniteSets

CONSTANTS
    Procs,      \* processes that may ever hold an end of the pipe
    Bytes,      \* values of a char
    PIPE_SIZE,  \* bytes in pipe->data
    WORD,       \* 2^(width of size_t)
    MaxRequest, \* largest n of a read or write call
    NoProc      \* "the lock is free"

ASSUME PipeAssumption ==
    /\ PIPE_SIZE \in Nat \ {0}
    /\ WORD \in Nat
    /\ WORD > PIPE_SIZE
    /\ MaxRequest \in Nat
    /\ 0 \in Bytes
    /\ NoProc \notin Procs

(* PIPE_SIZE (512) divides the range of size_t, else the position of a     *)
(* byte would jump when a counter wraps.                                   *)
ASSUME WordAssumption == WORD % PIPE_SIZE = 0

VARIABLES
    data, nread, nwrite,    \* struct pipe: the ring and its two counters
    read_open, write_open,  \* struct pipe: is that end still open
    allocated,              \* the page holding struct pipe is not freed
    lock,                   \* process holding pipe->lock, or NoProc
    fds,                    \* ends a process has a descriptor for; the
                            \* holders of an end are its struct file's refs
    killed,                 \* proc->killed
    pc, left                \* where a process is; bytes of its request still
                            \* to copy: n - i while the loop runs

vars == <<data, nread, nwrite, read_open, write_open, allocated, lock, fds,
          killed, pc, left>>
pipeVars == <<data, nread, nwrite, read_open, write_open, allocated>>

Ends == {"r", "w"}

Asleep == {"r_sleep", "w_sleep"}
Woken == {"r_woken", "w_woken"}
Holding == {"w_loop", "w_block", "r_wait", "r_block", "r_copy"}
InCall == Holding \cup Asleep \cup Woken \cup {"r_lock", "w_lock"}
Labels == InCall \cup {"unborn", "user", "exiting", "exited"}

Inc_unbounded(c) == c + 1   \* fault: no wrap-around
Inc(c) == (c + 1) % WORD
pipe_is_empty == nread = nwrite
pipe_is_full_late == nwrite = (nread + PIPE_SIZE + 1) % WORD   \* fault: off by one
pipe_is_full == nwrite = (nread + PIPE_SIZE) % WORD

(* wakeup(chan): everybody asleep there becomes runnable and will first    *)
(* take the pipe lock again; p itself goes on at label next.               *)
Wake(p, chan, next) ==
    pc' = [q \in Procs |-> IF q = p THEN next
                           ELSE IF pc[q] # chan THEN pc[q]
                           ELSE IF chan = "r_sleep" THEN "r_woken"
                           ELSE "w_woken"]

Goto(p, next) == pc' = [pc EXCEPT ![p] = next]

(* The end of a call: the lock is released and the locals are gone.        *)
Release(p) ==
    /\ lock' = NoProc
    /\ left' = [left EXCEPT ![p] = 0]

Return(p) == Release(p) /\ UNCHANGED <<pipeVars, fds, killed>>

Init ==
    /\ data = [k \in 0..(PIPE_SIZE - 1) |-> 0]    \* a zeroed page
    /\ nread = 0 /\ nwrite = 0
    /\ read_open = TRUE /\ write_open = TRUE
    /\ allocated = TRUE
    /\ lock = NoProc
    /\ killed = [p \in Procs |-> FALSE]
    /\ left = [p \in Procs |-> 0]
    /\ \E creator \in Procs :   \* sys_pipe() gave it both descriptors
        /\ fds = [p \in Procs |-> IF p = creator THEN Ends ELSE {}]
        /\ pc = [p \in Procs |-> IF p = creator THEN "user" ELSE "unborn"]
-----------------------------------------------------------------------------
(* do_fork(): the child gets a reference to every open file.               *)
Fork(p, child) ==
    /\ pc[p] = "user" /\ ~killed[p]
    /\ pc[child] = "unborn"
    /\ fds' = [fds EXCEPT ![child] = fds[p]]
    /\ Goto(child, "user")
    /\ UNCHANGED <<pipeVars, lock, killed, left>>

(* proc_send_signal(SIGKILL): marks p and readies it if it sleeps.         *)
Kill(p) ==
    /\ pc[p] \notin {"unborn", "exited"}
    /\ ~killed[p]
    /\ killed' = [killed EXCEPT ![p] = TRUE]
    /\ Goto(p, CASE pc[p] = "r_sleep" -> "r_woken"
                 [] pc[p] = "w_sleep" -> "w_woken"
                 [] OTHER -> pc[p])
    /\ UNCHANGED <<pipeVars, lock, fds, left>>

(* do_exit(), reached by exit() or because a killed process is about to    *)
(* return to user space.                                                   *)
Exit(p) ==
    /\ pc[p] = "user"
    /\ Goto(p, "exiting")
    /\ UNCHANGED <<pipeVars, lock, fds, killed, left>>

Exited(p) ==
    /\ pc[p] = "exiting" /\ fds[p] = {}
    /\ Goto(p, "exited")
    /\ UNCHANGED <<pipeVars, lock, fds, killed, left>>

(* file_close() on one end; the last reference calls pipe_close(), which   *)
(* wakes the other side and frees the pipe when both ends are closed.      *)
pipe_close_early(p, e) ==   \* fault: frees with the first end
    /\ lock = NoProc
    /\ read_open' = (read_open /\ e = "w")
    /\ write_open' = (write_open /\ e = "r")
    /\ Wake(p, IF e = "w" THEN "r_sleep" ELSE "w_sleep", pc[p])
    /\ allocated' = (read_open' /\ write_open')
    /\ UNCHANGED <<data, nread, nwrite>>

pipe_close(p, e) ==
    /\ lock = NoProc
    /\ read_open' = (read_open /\ e = "w")
    /\ write_open' = (write_open /\ e = "r")
    /\ Wake(p, IF e = "w" THEN "r_sleep" ELSE "w_sleep", pc[p])
    /\ allocated' = (read_open' \/ write_open')
    /\ UNCHANGED <<data, nread, nwrite>>

file_close(p, e) ==
    /\ pc[p] = "exiting" \/ (pc[p] = "user" /\ ~killed[p])
    /\ e \in fds[p]
    /\ fds' = [fds EXCEPT ![p] = @ \ {e}]
    /\ IF \E q \in Procs \ {p} : e \in fds[q]
         THEN UNCHANGED <<pipeVars, pc>>
         ELSE pipe_close(p, e)
    /\ UNCHANGED <<lock, killed, left>>
-----------------------------------------------------------------------------
Call(p, e, label) ==
    /\ pc[p] = "user" /\ ~killed[p]
    /\ e \in fds[p]
    /\ \E n \in 1..MaxRequest : left' = [left EXCEPT ![p] = n]
    /\ Goto(p, label)
    /\ UNCHANGED <<pipeVars, lock, fds, killed>>

Acquire(p, from, to) ==
    /\ pc[p] \in from
    /\ lock = NoProc
    /\ lock' = p
    /\ Goto(p, to)
    /\ UNCHANGED <<pipeVars, fds, killed, left>>

CallWrite(p) == Call(p, "w", "w_lock")
WriteLock(p) == Acquire(p, {"w_lock", "w_woken"}, "w_loop")

(* Head of pipe_write()'s loop: nobody can read any more, or the writer is *)
(* killed: return -1, whatever was stored before.                          *)
WriteRefused(p) ==
    /\ pc[p] = "w_loop" /\ left[p] > 0
    /\ ~read_open \/ killed[p]
    /\ Goto(p, "user")
    /\ Return(p)

(* May go on in the loop.                                                  *)
WriteAllowed(p) ==
    /\ pc[p] = "w_loop" /\ left[p] > 0
    /\ read_open /\ ~killed[p]

(* Full: wake the readers and sleep.  The check of `killed` and the sleep  *)
(* are two steps: kill takes no pipe lock and can fall in between.         *)
WriteFull(p) ==
    /\ WriteAllowed(p)
    /\ pipe_is_full
    /\ Goto(p, "w_block")
    /\ UNCHANGED <<pipeVars, lock, fds, killed, left>>

WriteSleep(p) ==
    /\ pc[p] = "w_block"
    /\ Wake(p, "r_sleep", "w_sleep")
    /\ lock' = NoProc
    /\ UNCHANGED <<pipeVars, fds, killed, left>>

(* Otherwise store one byte.                                               *)
WriteByte(p) ==
    /\ WriteAllowed(p)
    /\ ~pipe_is_full
    /\ \E b \in Bytes : data' = [data EXCEPT ![nwrite % PIPE_SIZE] = b]
    /\ nwrite' = Inc(nwrite)
    /\ left' = [left EXCEPT ![p] = @ - 1]
    /\ UNCHANGED <<nread, read_open, write_open, allocated, lock, fds,
                   killed, pc>>

(* All stored, or uvm_copy_in() failed: wake the readers and return the    *)
(* number of bytes stored.                                                 *)
WriteDone(p) ==
    /\ \/ pc[p] = "w_loop" /\ left[p] = 0
       \/ WriteAllowed(p) /\ ~pipe_is_full
    /\ Wake(p, "r_sleep", "user")
    /\ Return(p)
-----------------------------------------------------------------------------
CallRead(p) == Call(p, "r", "r_lock")
ReadLock(p) == Acquire(p, {"r_lock", "r_woken"}, "r_wait")

(* Nothing to read yet, but a writer may still come.                       *)
ReadMustWait(p) == pc[p] = "r_wait" /\ pipe_is_empty /\ write_open

ReadRefused(p) ==
    /\ ReadMustWait(p)
    /\ killed[p]
    /\ Goto(p, "user")
    /\ Return(p)

ReadEmpty(p) ==
    /\ ReadMustWait(p)
    /\ ~killed[p]
    /\ Goto(p, "r_block")
    /\ UNCHANGED <<pipeVars, lock, fds, killed, left>>

ReadSleep(p) ==
    /\ pc[p] = "r_block"
    /\ Goto(p, "r_sleep")
    /\ lock' = NoProc
    /\ UNCHANGED <<pipeVars, fds, killed, left>>

ReadReady(p) ==
    /\ pc[p] = "r_wait"
    /\ ~(pipe_is_empty /\ write_open)
    /\ Goto(p, "r_copy")
    /\ UNCHANGED <<pipeVars, lock, fds, killed, left>>

(* One byte leaves the ring and reaches the caller.                        *)
ReadByte(p) ==
    /\ pc[p] = "r_copy" /\ left[p] > 0
    /\ ~pipe_is_empty
    /\ nread' = Inc(nread)
    /\ left' = [left EXCEPT ![p] = @ - 1]
    /\ UNCHANGED <<data, nwrite, read_open, write_open, allocated, lock, fds,
                   killed, pc>>

(* uvm_copy_out() failed: the byte is gone from the ring all the same.     *)
ReadFault(p) ==
    /\ pc[p] = "r_copy" /\ left[p] > 0
    /\ ~pipe_is_empty
    /\ nread' = Inc(nread)
    /\ Wake(p, "w_sleep", "user")
    /\ Release(p)
    /\ UNCHANGED <<data, nwrite, read_open, write_open, allocated, fds,
                   killed>>

ReadDone_silent(p) ==   \* fault: forgets wakeup(&pipe->nwrite)
    /\ pc[p] = "r_copy"
    /\ left[p] = 0 \/ pipe_is_empty
    /\ Goto(p, "user")
    /\ Return(p)

ReadDone(p) ==
    /\ pc[p] = "r_copy"
    /\ left[p] = 0 \/ pipe_is_empty
    /\ Wake(p, "w_sleep", "user")
    /\ Return(p)
-----------------------------------------------------------------------------
Step(p) ==
    \/ WriteLock(p) \/ WriteRefused(p) \/ WriteFull(p) \/ WriteSleep(p)
    \/ WriteByte(p) \/ WriteDone(p)
    \/ ReadLock(p) \/ ReadRefused(p) \/ ReadEmpty(p) \/ ReadSleep(p)
    \/ ReadReady(p) \/ ReadByte(p) \/ ReadFault(p) \/ ReadDone(p)

Finished == \A p \in Procs : pc[p] \in {"unborn", "exited"}

Next ==
    \/ \E p \in Procs :
        \/ Step(p)
        \/ CallWrite(p) \/ CallRead(p)
        \/ Kill(p) \/ Exit(p) \/ Exited(p)
        \/ \E e \in Ends : file_close(p, e)
        \/ \E child \in Procs : Fork(p, child)
    \/ Finished /\ UNCHANGED vars

Spec == Init /\ [][Next]_vars
-----------------------------------------------------------------------------
(* The bytes in the ring, oldest first.                                    *)
Count == (nwrite + WORD - nread) % WORD
Contents == [k \in 1..Count |-> data[((nread + k - 1) % WORD) % PIPE_SIZE]]

Fifo == INSTANCE PipeFifo WITH
    Capacity <- PIPE_SIZE, queue <- Contents,
    readable <- read_open, writable <- write_open

TypeOK ==
    /\ data \in [0..(PIPE_SIZE - 1) -> Bytes]
    /\ nread \in 0..(WORD - 1) /\ nwrite \in 0..(WORD - 1)
    /\ read_open \in BOOLEAN /\ write_open \in BOOLEAN
    /\ allocated \in BOOLEAN
    /\ lock \in Procs \cup {NoProc}
    /\ fds \in [Procs -> SUBSET Ends]
    /\ killed \in [Procs -> BOOLEAN]
    /\ pc \in [Procs -> Labels]
    /\ left \in [Procs -> 0..MaxRequest]

(* pipe_write() and pipe_read() implement the bounded FIFO: whatever the   *)
(* interleaving of readers, writers, closes, kills and copy faults, and    *)
(* across the wrap-around of nread and nwrite, bytes leave the ring in the *)
(* order they entered it and a writer never overwrites an unread byte.     *)
RefinesFifo == Fifo!FifoSpec

(* pipe_close() frees the page exactly when no process can still use it: a *)
(* process inside pipe_read() or pipe_write(), asleep ones included, has a *)
(* live struct pipe under it, and a pipe nobody has open is freed.         *)
NoUseAfterFree ==
    /\ \A p \in Procs : pc[p] \in InCall => allocated
    /\ allocated <=> \E p \in Procs : fds[p] # {}

(* Nobody sleeps through the event it waits for.  With pipe->lock free, a  *)
(* writer sleeps only on a full pipe with an open reading end; a reader    *)
(* sleeps only while the writing end is open and the pipe is empty, unless *)
(* some process was killed (pipe_write() returns -1 to a killed writer     *)
(* without waking the readers, even if it has stored bytes).               *)
NoLostWakeup ==
    lock = NoProc =>
        \A p \in Procs :
            /\ pc[p] = "w_sleep" => pipe_is_full /\ read_open
            /\ pc[p] = "r_sleep" =>
                /\ write_open
                /\ pipe_is_empty \/ \E q \in Procs : killed[q]
=============================================================================
