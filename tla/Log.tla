-------------------------------- MODULE Log --------------------------------
(***************************************************************************)
(* kernel/fs/vimixfs/log.c: the redo log of the file system, with crashes. *)
(*                                                                         *)
(* The disk is a function from block numbers, counted from log->start: 0   *)
(* is the header, 1 .. nlog - 1 are log entries, and the home blocks       *)
(* follow, as mkfs lays them out.  bio_write() is synchronous, so every    *)
(* block written is a step, and a crash can come between any two of them,  *)
(* in recovery as well.  What happens under log->lock is one step; sleep() *)
(* and wakeup() are atomic (module Sleep).                                 *)
(***************************************************************************)
EXTENDS Integers, Sequences, FiniteSetsExt

CONSTANTS
    Procs,          \* processes in file system calls
    nlog,           \* blocks of the log, its header included
    nhome,          \* blocks the calls update
    Values,         \* contents of a block
    MAX_CONCURRENT_LOG_CLIENTS,
    Requests,       \* <<request_min, request_ideal>> of the callers
    WORD,           \* 2^(width of size_t)
    MaxCalls, MaxCrashes,
    NoProc

ASSUME LogAssumption ==
    /\ nlog \in Nat \ {0} /\ nhome \in Nat
    /\ MAX_CONCURRENT_LOG_CLIENTS \in Nat \ {0}
    /\ Requests \subseteq Nat \X Nat
    /\ WORD \in Nat /\ WORD > nlog
    /\ NoProc \notin Procs

Home == nlog .. (nlog + nhome - 1)
Slots == 1 .. MAX_CONCURRENT_LOG_CLIENTS

VARIABLES
    disk,               \* contents of log entries and home blocks
    header,             \* contents of block 0: the block numbers
    cache,              \* the buffer cache, for home blocks
    lh_block,           \* log->lh_block[0 .. lh_n - 1]
    clients, blocks_used, blocks_reserved,  \* per slot
    blocks_used_old_clients,
    outstanding, committing,
    pc, req,            \* where a process is; its request
    tail,               \* the local of write_log() and install_trans()
    phase,              \* "up", or the step of recover_from_log()
    panicked, calls, crashes

vars == <<disk, header, cache, lh_block, clients, blocks_used,
          blocks_reserved, blocks_used_old_clients, outstanding, committing,
          pc, req, tail, phase, panicked, calls, crashes>>
space == <<clients, blocks_used, blocks_reserved, blocks_used_old_clients>>
bounds == <<calls, crashes>>

Commit == {"write_log", "write_head", "install", "clear", "finish"}
Labels == {"user", "begin", "asleep", "active"} \cup Commit
lh_n == Len(lh_block)

(* The totals of a loop over the slots, and the last of them.              *)
Totals(f) ==
    LET t[n \in 0 .. MAX_CONCURRENT_LOG_CLIENTS] ==
            IF n = 0 THEN 0 ELSE t[n - 1] + f[n]
    IN  t
Sum(f) == Totals(f)[MAX_CONCURRENT_LOG_CLIENTS]

Goto(p, label) == pc' = [pc EXCEPT ![p] = label]
Wake(p, label) == pc' = [q \in Procs |-> IF q = p THEN label
                                         ELSE IF pc[q] = "asleep" THEN "begin"
                                         ELSE pc[q]]

(* A freshly made file system, and a zeroed struct log.                    *)
Init ==
    /\ \E v \in Values : /\ disk = [b \in 1 .. (nlog + nhome - 1) |-> v]
                         /\ cache = [b \in Home |-> v]
    /\ header = << >>
    /\ lh_block = << >>
    /\ clients = [i \in Slots |-> NoProc]
    /\ blocks_used = [i \in Slots |-> 0]
    /\ blocks_reserved = [i \in Slots |-> 0]
    /\ blocks_used_old_clients = 0
    /\ outstanding = 0 /\ committing = FALSE
    /\ pc = [p \in Procs |-> "user"]
    /\ req = [p \in Procs |-> <<0, 0>>]
    /\ tail = 0
    /\ phase = "up" /\ panicked = FALSE
    /\ calls = 0 /\ crashes = 0
-----------------------------------------------------------------------------
CallBegin(p) ==
    /\ pc[p] = "user" /\ calls < MaxCalls
    /\ \E r \in Requests : req' = [req EXCEPT ![p] = r]
    /\ Goto(p, "begin")
    /\ calls' = calls + 1
    /\ UNCHANGED <<disk, header, cache, lh_block, space, outstanding,
                   committing, tail, phase, panicked, crashes>>

(* size_t available = log->size - reserved                                 *)
Available ==
    (nlog - (blocks_used_old_clients + Sum(blocks_reserved))) % WORD

FreeSlots == {i \in Slots : clients[i] = NoProc}

(* log_begin_fs_transaction_explicit(): one pass of its loop.              *)
MayBegin(p) ==
    /\ ~committing
    /\ Available >= req[p][1]
    /\ FreeSlots # {}

Begin(p) ==
    /\ pc[p] = "begin" /\ MayBegin(p)
    /\ LET i == Min(FreeSlots) IN
        /\ clients' = [clients EXCEPT ![i] = p]
        /\ blocks_reserved' =
             [blocks_reserved EXCEPT ![i] = Min({Available, req[p][2]})]
        /\ blocks_used' = [blocks_used EXCEPT ![i] = 0]
    /\ outstanding' = outstanding + 1
    /\ Goto(p, "active")
    /\ UNCHANGED <<disk, header, cache, lh_block, blocks_used_old_clients,
                   committing, req, tail, phase, panicked, bounds>>

BeginSleep(p) ==
    /\ pc[p] = "begin" /\ ~MayBegin(p)
    /\ Goto(p, "asleep")
    /\ UNCHANGED <<disk, header, cache, lh_block, space, outstanding,
                   committing, req, tail, phase, panicked, bounds>>

SlotOf(p) == CHOOSE i \in Slots : clients[i] = p

InLog(b) == \E k \in 1 .. lh_n : lh_block[k] = b

(* The caller modifies a buffer and calls log_write().  Callers keep to    *)
(* what they reserved.  A block that is in the log already costs nothing   *)
(* (absorption), but the check for a full log comes first.                 *)
Write(p, b, v) ==
    /\ pc[p] = "active"
    /\ InLog(b) \/ blocks_used[SlotOf(p)] < blocks_reserved[SlotOf(p)]
    /\ cache' = [cache EXCEPT ![b] = v]
    /\ panicked' = (lh_n >= nlog)
    /\ IF panicked' \/ InLog(b)
         THEN UNCHANGED <<lh_block, blocks_used>>
         ELSE /\ lh_block' = Append(lh_block, b)
              /\ blocks_used' = [blocks_used EXCEPT ![SlotOf(p)] = @ + 1]
    /\ UNCHANGED <<disk, header, clients, blocks_reserved,
                   blocks_used_old_clients, outstanding, committing, pc, req,
                   tail, phase, bounds>>

(* log_end_fs_transaction(): the last one out commits.                     *)
Leave(p) ==
    LET i == SlotOf(p) IN
        /\ clients' = [clients EXCEPT ![i] = NoProc]
        /\ blocks_used_old_clients' = blocks_used_old_clients + blocks_used[i]
        /\ blocks_used' = [blocks_used EXCEPT ![i] = 0]
        /\ blocks_reserved' = [blocks_reserved EXCEPT ![i] = 0]

End(p) ==
    /\ pc[p] = "active"
    /\ Leave(p)
    /\ outstanding' = outstanding - 1
    /\ IF outstanding' = 0
         THEN /\ committing' = TRUE
              /\ Goto(p, IF lh_n > 0 THEN "write_log" ELSE "finish")
         ELSE /\ Wake(p, "user")
              /\ UNCHANGED committing
    /\ tail' = 0
    /\ UNCHANGED <<disk, header, cache, lh_block, req, phase, panicked,
                   bounds>>
-----------------------------------------------------------------------------
CommitVars == <<cache, clients, blocks_used, blocks_reserved, outstanding,
                req, phase, panicked, bounds>>

(* write_log(): one block from the cache to log->start + tail + 1.         *)
WriteLog_headfirst(p) ==        \* fault: the header before the entries
    /\ pc[p] = "write_log" /\ tail < lh_n
    /\ disk' = [disk EXCEPT ![tail + 1] = cache[lh_block[tail + 1]]]
    /\ header' = lh_block
    /\ tail' = tail + 1
    /\ UNCHANGED <<lh_block, blocks_used_old_clients, committing, pc,
                   CommitVars>>

WriteLog(p) ==
    /\ pc[p] = "write_log" /\ tail < lh_n
    /\ disk' = [disk EXCEPT ![tail + 1] = cache[lh_block[tail + 1]]]
    /\ tail' = tail + 1
    /\ UNCHANGED <<header, lh_block, blocks_used_old_clients, committing, pc,
                   CommitVars>>

(* write_head(): "the real commit".                                        *)
WriteHead(p) ==
    /\ pc[p] = "write_log" /\ tail = lh_n
    /\ header' = lh_block
    /\ tail' = 0
    /\ Goto(p, "install")
    /\ UNCHANGED <<disk, lh_block, blocks_used_old_clients, committing,
                   CommitVars>>

(* install_trans(): one log entry to its home block.                       *)
Install(p) ==
    /\ pc[p] = "install" /\ tail < lh_n
    /\ disk' = [disk EXCEPT ![lh_block[tail + 1]] = disk[tail + 1]]
    /\ tail' = tail + 1
    /\ UNCHANGED <<header, lh_block, blocks_used_old_clients, committing, pc,
                   CommitVars>>

(* lh_n = 0 and write_head() again: the transaction is gone from the log.  *)
ClearHead_counting(p) ==        \* fault: blocks_used_old_clients is kept
    /\ pc[p] = "install" /\ tail = lh_n
    /\ header' = << >>
    /\ lh_block' = << >>
    /\ Goto(p, "finish")
    /\ UNCHANGED <<disk, committing, tail, blocks_used_old_clients,
                   CommitVars>>

ClearHead(p) ==
    /\ pc[p] = "install" /\ tail = lh_n
    /\ header' = << >>
    /\ lh_block' = << >>
    /\ blocks_used_old_clients' = 0
    /\ Goto(p, "finish")
    /\ UNCHANGED <<disk, committing, tail, CommitVars>>

Finish_silent(p) ==             \* fault: no wakeup after the commit
    /\ pc[p] = "finish"
    /\ committing' = FALSE
    /\ Goto(p, "user")
    /\ UNCHANGED <<disk, header, lh_block, blocks_used_old_clients, tail,
                   CommitVars>>

Finish(p) ==
    /\ pc[p] = "finish"
    /\ committing' = FALSE
    /\ Wake(p, "user")
    /\ UNCHANGED <<disk, header, lh_block, blocks_used_old_clients, tail,
                   CommitVars>>
-----------------------------------------------------------------------------
(* Power is lost; the next mount calls log_init().                         *)
Crash ==
    /\ crashes < MaxCrashes
    /\ crashes' = crashes + 1
    /\ phase' = "read"
    /\ lh_block' = << >>
    /\ clients' = [i \in Slots |-> NoProc]
    /\ blocks_used' = [i \in Slots |-> 0]
    /\ blocks_reserved' = [i \in Slots |-> 0]
    /\ blocks_used_old_clients' = 0
    /\ outstanding' = 0 /\ committing' = FALSE
    /\ pc' = [p \in Procs |-> "user"]
    /\ req' = [p \in Procs |-> <<0, 0>>]
    /\ tail' = 0
    /\ UNCHANGED <<disk, header, cache, panicked, calls>>

(* recover_from_log(): read_head(), install_trans(), write_head().         *)
RecoverRead ==
    /\ phase = "read"
    /\ lh_block' = header
    /\ tail' = 0
    /\ phase' = "install"
    /\ UNCHANGED <<disk, header, cache, space, outstanding, committing, pc,
                   req, panicked, bounds>>

RecoverInstall ==
    /\ phase = "install" /\ tail < lh_n
    /\ disk' = [disk EXCEPT ![lh_block[tail + 1]] = disk[tail + 1]]
    /\ tail' = tail + 1
    /\ UNCHANGED <<header, cache, lh_block, space, outstanding, committing,
                   pc, req, phase, panicked, bounds>>

(* From here on the cache is filled from the recovered disk.               *)
RecoverClear ==
    /\ phase = "install" /\ tail = lh_n
    /\ lh_block' = << >>
    /\ header' = << >>
    /\ cache' = [b \in Home |-> disk[b]]
    /\ phase' = "up"
    /\ tail' = 0
    /\ UNCHANGED <<disk, space, outstanding, committing, pc, req, panicked,
                   bounds>>
-----------------------------------------------------------------------------
CommitStep(p) ==
    \/ WriteLog(p) \/ WriteHead(p) \/ Install(p) \/ ClearHead(p) \/ Finish(p)

Recover == RecoverRead \/ RecoverInstall \/ RecoverClear

Next ==
    /\ ~panicked
    /\ \/ /\ phase = "up"
          /\ \E p \in Procs :
                \/ CallBegin(p) \/ Begin(p) \/ BeginSleep(p) \/ End(p)
                \/ CommitStep(p)
                \/ \E b \in Home, v \in Values : Write(p, b, v)
       \/ Recover
       \/ Crash

Spec == Init /\ [][Next]_vars

(* A process in a call gets to run, ends its transaction, and mounting     *)
(* goes on after a crash.                                                  *)
Running(p) ==
    phase = "up" /\ (Begin(p) \/ BeginSleep(p) \/ End(p) \/ CommitStep(p))
FairSpec == Spec /\ WF_vars(Recover) /\ \A p \in Procs : WF_vars(Running(p))
-----------------------------------------------------------------------------
TypeOK ==
    /\ disk \in [1 .. (nlog + nhome - 1) -> Values]
    /\ header \in Seq(Home) /\ lh_block \in Seq(Home)
    /\ cache \in [Home -> Values]
    /\ clients \in [Slots -> Procs \cup {NoProc}]
    /\ blocks_used \in [Slots -> Nat]
    /\ blocks_reserved \in [Slots -> 0 .. (WORD - 1)]
    /\ blocks_used_old_clients \in Nat
    /\ outstanding \in Nat /\ committing \in BOOLEAN
    /\ pc \in [Procs -> Labels]
    /\ tail \in Nat
    /\ phase \in {"up", "read", "install"}
    /\ panicked \in BOOLEAN

(* What a mount finds after a crash now: the home blocks, with the entries *)
(* of a committed log on top.                                              *)
Recovered ==
    [b \in Home |->
        IF \E k \in 1 .. Len(header) : header[k] = b
        THEN disk[CHOOSE k \in 1 .. Len(header) : header[k] = b]
        ELSE disk[b]]

Atomic == INSTANCE AtomicDisk WITH
    Blocks <- Home,
    mem <- IF phase = "up" THEN cache ELSE Recovered,
    durable <- Recovered,
    active <- {p \in Procs : pc[p] = "active"}

(* log.c implements AtomicDisk: with crashes between any two block writes, *)
(* also during recovery, what a mount recovers is the state after some     *)
(* commit, and no commit contains a part of a call's updates.              *)
RefinesAtomicDisk == Atomic!ASpec

(* The accounting of reserved space is exact: the blocks in the log are    *)
(* those used by the clients of this transaction, present and past, and    *)
(* what is used or reserved never exceeds the log (no wrap-around of the   *)
(* size_t subtraction in log_begin_fs_transaction_explicit()).             *)
Accounting ==
    /\ outstanding = Cardinality({i \in Slots : clients[i] # NoProc})
    /\ phase = "up" =>
        lh_n = blocks_used_old_clients + Sum(blocks_used)
    /\ blocks_used_old_clients + Sum(blocks_reserved) <= nlog

(* "[logstart + 1 - logstart + nlog - 1] = nlog - 1 Log Entries"           *)
(* (fsck.vimixfs.c): write_log() writes nothing outside the log.           *)
EntriesInLog ==
    \A p \in Procs : pc[p] = "write_log" => lh_n <= nlog - 1

(* Callers that keep to their reservation do not run into "too big a       *)
(* transaction" in log_write(): one that has blocks left finds room for    *)
(* them, whatever the others do.  (Where there are enough home blocks to   *)
(* fill the log, absorbing a write into a full log does panic.)            *)
ReservedNeverPanics ==
    /\ phase = "up" =>
        \A i \in Slots : blocks_used[i] < blocks_reserved[i] => lh_n < nlog
    /\ nhome < nlog => ~panicked

(* A call that waits for log space or for a commit gets its turn, unless   *)
(* the system crashes.                                                     *)
BeginReturns ==
    \A p \in Procs : pc[p] \in {"begin", "asleep"} ~> pc[p] \in {"active", "user"}

(* The log's accounting together: space, entries and reservations are exact and *)
(* no transaction within its reservation panics.                                *)
LogSafe ==
    /\ TypeOK
    /\ Accounting
    /\ nhome < nlog => EntriesInLog
    /\ ReservedNeverPanics
=============================================================================
