------------------------------ MODULE FileData ------------------------------
(***************************************************************************)
(* The blocks of one file of vimixfs: block map and bitmap (bmap.c), read, *)
(* write and truncation (vimixfs.c), called from do_read(), do_write() and *)
(* do_truncate().  Writes and truncations hold the exclusive lock of the   *)
(* inode over several transactions; open() with O_TRUNC and reads do not   *)
(* take it.  A table is a block of block numbers; buffer cache and log may *)
(* hold different versions of it, since truncation changes tables without  *)
(* log_write().  What then goes wrong is recorded in fd_flaw.              *)
(***************************************************************************)
EXTENDS Integers, Sequences, FiniteSets, SequencesExt

CONSTANTS
    ND, NI,         \* VIMIXFS_N_DIRECT_BLOCKS, VIMIXFS_N_INDIRECT_BLOCKS
    BS,             \* BLOCK_SIZE
    DiskBlocks,     \* bound: blocks for data and tables, 1 .. n
    TruncTo,        \* sizes for truncate()
    WriteLens,      \* bytes of a write()
    MaxFdOps        \* bound: calls

VARIABLES
    fd,         \* the file: [size, addr, tab, saved, dat, used]; zeroed: block 0
    content,    \* history: the bytes the file should have
    wr,         \* the call that holds the exclusive lock: [pc, left, off, to]
    rd,         \* a read: [off, end]
    fd_ops, fd_flaw

fdVars == <<fd, content, wr, rd, fd_ops, fd_flaw>>

Ind == ND
Dbl == ND + 1
NoTab == [i \in 0 .. NI - 1 |-> 0]
NoDat == [i \in 0 .. BS - 1 |-> 0]
MaxSize == (ND + NI + NI * NI) * BS
Upto(n) == [i \in 1 .. n |-> i]
MinOf(a, b) == IF a < b THEN a ELSE b
SubClamped(v, s) == IF v > s THEN v - s ELSE 0

(* block_alloc_init(): the first free block, zeroed; 0 when there is none. *)
BlockAlloc(f) ==
    LET free == DiskBlocks \ f.used
        b == CHOOSE x \in free : \A y \in free : x <= y
    IN  IF free = {} THEN [f |-> f, a |-> 0]
        ELSE [f |-> [f EXCEPT !.used = @ \cup {b}, !.dat[b] = NoDat,
                              !.tab[b] = NoTab, !.saved[b] = NoTab],
              a |-> b]

(* A slot of the inode, and a slot of a table, filled when it is empty.    *)
MapSlot(f, i) ==
    LET r == BlockAlloc(f)
    IN  IF f.addr[i] # 0 THEN [f |-> f, a |-> f.addr[i]]
        ELSE [f |-> [r.f EXCEPT !.addr[i] = r.a], a |-> r.a]
MapEntry(s, i) ==       \* s: the file so far, and the table
    LET r == BlockAlloc(s.f)
        entry == s.f.tab[s.a][i]
    IN  IF s.a = 0 THEN s
        ELSE IF entry # 0 \/ r.a = 0 THEN [s EXCEPT !.a = entry]
        ELSE [f |-> [r.f EXCEPT !.tab[s.a][i] = r.a,
                                !.saved[s.a] = [s.f.tab[s.a] EXCEPT ![i] = r.a]], a |-> r.a]

(* bmap_get_block_address(): down the tables on the way to block n.        *)
Path(n) ==
    LET k == n - ND - NI
    IN  IF n < ND THEN <<n>>
        ELSE IF n < ND + NI THEN <<Ind, n - ND>>
        ELSE <<Dbl, k \div NI, k % NI>>
Bmap(f, n) == FoldLeft(MapEntry, MapSlot(f, Head(Path(n))), Tail(Path(n)))

(* The block that holds block n of the file now, 0 for a hole.             *)
BlockOf(f, n) ==
    FoldLeft(LAMBDA t, i : IF t = 0 THEN 0 ELSE f.tab[t][i],
             f.addr[Head(Path(n))], Tail(Path(n)))
-----------------------------------------------------------------------------
(* vimixfs_trunc_block_range() on the inode, vimixfs_trunc_block()         *)
TruncSlots(f, first) ==
    [f EXCEPT !.used = @ \ {f.addr[i] : i \in first .. ND - 1},
              !.addr = [i \in 0 .. Dbl |-> IF i \in first .. ND - 1 THEN 0 ELSE @[i]]]
TruncTable_kept(f, t, first) ==     \* fault: the blocks stay allocated
    IF first >= NI \/ t = 0 THEN f
    ELSE [f EXCEPT !.used = IF first = 0 THEN @ \ {t} ELSE @,
                   !.tab[t] = [i \in 0 .. NI - 1 |-> IF i >= first THEN 0 ELSE @[i]]]
TruncTable(f, t, first) ==
    IF first >= NI \/ t = 0 THEN f
    ELSE [f EXCEPT !.used = @ \ ({f.tab[t][i] : i \in first .. NI - 1}
                                 \cup (IF first = 0 THEN {t} ELSE {})),
                   !.tab[t] = [i \in 0 .. NI - 1 |-> IF i >= first THEN 0 ELSE @[i]]]

(* The tables of the double indirect block from the first whole one on, up *)
(* to the first empty entry.                                               *)
TruncDouble(f, first) ==
    LET t == f.addr[Dbl]
        db == first \div NI
        g == IF first % NI = 0 THEN f ELSE TruncTable(f, f.tab[t][db], first % NI)
        from == IF first % NI = 0 THEN db ELSE db + 1
        step(h, i) == IF i - 1 < from \/ h.tab[t][i - 1] = 0
                         \/ \E j \in from .. i - 2 : f.tab[t][j] = 0 THEN h
                      ELSE [TruncTable(h, h.tab[t][i - 1], 0) EXCEPT !.tab[t][i - 1] = 0]
        h == FoldLeft(step, g, Upto(NI))
    IN  IF db = 0 THEN [h EXCEPT !.used = @ \ {t}, !.addr[Dbl] = 0] ELSE h

(* vimixfs_trunc(); the callers set the size.                              *)
Trunc(f, first) ==
    LET first1 == SubClamped(first, ND)
        first2 == SubClamped(first1, NI)
        g == TruncSlots(f, first)
        h == [TruncTable(g, g.addr[Ind], first1) EXCEPT !.addr[Ind] = IF first1 = 0 THEN 0 ELSE @]
    IN  IF g.addr[Ind] = 0 THEN g
        ELSE IF h.addr[Dbl] = 0 THEN h ELSE TruncDouble(h, first2)

(* The double indirect block is dropped although a table in it is kept.    *)
TruncLoses(f, first) ==
    LET first2 == SubClamped(SubClamped(first, ND), NI)
    IN  f.addr[Ind] # 0 /\ f.addr[Dbl] # 0 /\ first2 \in 1 .. NI - 1

(* clear_block_from(): nothing happens when from is not inside the block;  *)
(* when the disk is full it clears block 0 of the disk (or panics).        *)
ClearFrom(f, n, from) ==
    LET r == Bmap(f, n)
    IN  IF from >= BS THEN f
        ELSE IF r.a = 0 THEN [r.f EXCEPT !.zeroed = TRUE]
        ELSE [r.f EXCEPT !.dat[r.a] = [i \in 0 .. BS - 1 |-> IF i >= from THEN 0 ELSE @[i]]]

(* One round of the loop of trunc_shrink()                                 *)
ShrinkTo(f, new) ==
    LET last == IF f.size % BS # 0 THEN f.size \div BS ELSE f.size \div BS - 1
        from == IF last * BS > new THEN last * BS ELSE new
    IN  IF f.size % BS # 0 /\ new >= last * BS
        THEN [ClearFrom(f, last, new % BS) EXCEPT !.size = new]
        ELSE IF f.size % BS # 0 \/ from % BS = 0
        THEN [Trunc(f, last) EXCEPT !.size = from]
        ELSE [ClearFrom(f, last, from) EXCEPT !.size = from]
ShrinkTruncs(f, new) ==
    LET last == IF f.size % BS # 0 THEN f.size \div BS ELSE f.size \div BS - 1
    IN  IF f.size % BS # 0 THEN new < last * BS ELSE new <= last * BS

(* One round of the loop of trunc_grow(): the size, or -1 for -ENOSPC.     *)
GrowTo(f, new) ==
    LET r == Bmap(f, f.size \div BS + 1)
    IN  IF f.size % BS # 0 \/ f.size \div BS = new \div BS
        THEN [ClearFrom(f, f.size \div BS, f.size % BS)
                EXCEPT !.size = MinOf((f.size \div BS + 1) * BS, new)]
        ELSE IF r.a = 0 THEN [r.f EXCEPT !.size = -1] ELSE [r.f EXCEPT !.size = @ + BS]

(* The loop of vimixfs_write(): block after block until the disk is full;  *)
(* the copy of block number `fault` fails.                                 *)
WriteBlock(s, k, end, fault) ==
    LET r == Bmap(s.f, s.off \div BS)
        to == MinOf(end, (s.off \div BS + 1) * BS)
    IN  IF s.stop \/ s.off >= end THEN s
        ELSE IF r.a = 0 THEN [s EXCEPT !.f = r.f, !.stop = TRUE]
        ELSE IF k = fault THEN [s EXCEPT !.f = r.f, !.stop = TRUE, !.ok = FALSE]
        ELSE [s EXCEPT !.off = to,
                       !.f = [r.f EXCEPT !.dat[r.a] = [i \in 0 .. BS - 1 |->
                            IF i \in s.off % BS .. to - 1 - (s.off \div BS) * BS THEN 1
                            ELSE @[i]]]]
Write(f, off, n, fault) ==
    LET s == FoldLeft(LAMBDA t, k : WriteBlock(t, k, off + n, fault),
                      [f |-> f, off |-> off, stop |-> FALSE, ok |-> TRUE], Upto(n))
    IN  [s EXCEPT !.f.size = IF s.off > f.size THEN s.off ELSE @]
-----------------------------------------------------------------------------
FreeCall == [pc |-> "free", left |-> 0, off |-> 0, to |-> 0]
NoRead == [off |-> 0, end |-> 0]

FdInit ==
    /\ fd = [size |-> 0, zeroed |-> FALSE, addr |-> [i \in 0 .. Dbl |-> 0], used |-> {},
             tab |-> [b \in DiskBlocks |-> NoTab], saved |-> [b \in DiskBlocks |-> NoTab],
             dat |-> [b \in DiskBlocks |-> NoDat]]
    /\ content = << >> /\ wr = FreeCall /\ rd = NoRead
    /\ fd_ops = 0 /\ fd_flaw = "none"

Resized(c, n) == [i \in 1 .. n |-> IF i <= Len(c) THEN c[i] ELSE 0]

(* do_write() at a position inside the file, do_truncate()                 *)
StartWrite(off, n) ==
    /\ wr.pc = "free" /\ fd_ops < MaxFdOps /\ off <= fd.size
    /\ wr' = [FreeCall EXCEPT !.pc = "write", !.left = n, !.off = off]
    /\ fd_ops' = fd_ops + 1
    /\ UNCHANGED <<fd, content, rd, fd_flaw>>
StartTruncate(n) ==
    /\ wr.pc = "free" /\ fd_ops < MaxFdOps /\ n <= MaxSize
    /\ wr' = [FreeCall EXCEPT !.pc = "trunc", !.to = n]
    /\ fd_ops' = fd_ops + 1
    /\ UNCHANGED <<fd, content, rd, fd_flaw>>

(* One transaction of vimixfs_fops_write(), for at least a block.          *)
WritePart ==
    /\ wr.pc = "write"
    /\ IF wr.off > fd.size \/ wr.off + wr.left > MaxSize       \* -EINVAL
       THEN wr' = FreeCall /\ UNCHANGED <<fd, content>>
       ELSE \E n \in 1 .. wr.left, fault \in 0 .. 2 :
            \E s \in {Write(fd, wr.off, n, fault)} :
            LET done == IF s.ok THEN s.off - wr.off ELSE 0
            IN  /\ n = wr.left \/ n % BS = 0
                /\ fd' = s.f
                /\ content' = [i \in 1 .. s.f.size |->
                                IF i \in wr.off + 1 .. s.off THEN 1 ELSE content[i]]
                /\ wr' = IF done < n \/ n = wr.left THEN FreeCall
                         ELSE [wr EXCEPT !.off = s.off, !.left = @ - n]
    /\ UNCHANGED <<rd, fd_ops, fd_flaw>>

(* A round of vimixfs_iops_truncate()                                      *)
TruncPart ==
    /\ wr.pc = "trunc"
    /\ \E g \in {IF wr.to < fd.size THEN ShrinkTo(fd, wr.to) ELSE GrowTo(fd, wr.to)} :
       \E f \in {IF g.size = -1 THEN [g EXCEPT !.size = fd.size] ELSE g} :
           IF wr.to = fd.size THEN wr' = FreeCall /\ UNCHANGED <<fd, content, fd_flaw>>
           ELSE /\ fd' = f
                /\ content' = Resized(content, f.size)
                /\ wr' = IF g.size = -1 THEN FreeCall ELSE wr
                /\ fd_flaw' = IF /\ wr.to < fd.size /\ ShrinkTruncs(fd, wr.to)
                                 /\ TruncLoses(fd, (fd.size - 1) \div BS)
                              THEN "lost table" ELSE fd_flaw
    /\ UNCHANGED <<rd, fd_ops>>

(* open() with O_TRUNC, and the last put of a removed file.                *)
TruncateAll ==
    /\ fd_ops < MaxFdOps /\ fd.size > 0
    /\ fd' = [Trunc(fd, 0) EXCEPT !.size = 0]
    /\ content' = << >>
    /\ fd_ops' = fd_ops + 1
    /\ UNCHANGED <<wr, rd, fd_flaw>>

(* vimixfs_iops_read(): the end is fixed at the start; a hole is filled.   *)
StartRead ==
    /\ rd.off >= rd.end /\ fd_ops < MaxFdOps /\ fd.size > 0
    /\ rd' = [off |-> 0, end |-> fd.size]
    /\ fd_ops' = fd_ops + 1
    /\ UNCHANGED <<fd, content, wr, fd_flaw>>
ReadBlock ==
    /\ rd.off < rd.end
    /\ rd' = IF (rd.off \div BS + 1) * BS >= rd.end THEN NoRead
             ELSE [rd EXCEPT !.off = (rd.off \div BS + 1) * BS]
    /\ fd_flaw' = IF BlockOf(fd, rd.off \div BS) = 0 THEN "read maps" ELSE fd_flaw
    /\ UNCHANGED <<fd, content, wr, fd_ops>>

(* A buffer is reused and the table read again from the log or the disk.   *)
ReloadTable(t) ==
    /\ t \in fd.used /\ fd.tab[t] # fd.saved[t]
    /\ fd' = [fd EXCEPT !.tab[t] = fd.saved[t]]
    /\ fd_flaw' = "stale table"
    /\ UNCHANGED <<content, wr, rd, fd_ops>>

FdNext ==
    /\ fd_flaw # "read maps" /\ ~fd.zeroed
    /\ \/ \E off \in {0, fd.size}, n \in WriteLens : StartWrite(off, n)
       \/ \E n \in TruncTo : StartTruncate(n)
       \/ WritePart \/ TruncPart \/ TruncateAll \/ StartRead \/ ReadBlock
       \/ \E t \in DiskBlocks : ReloadTable(t)

FdSpec == FdInit /\ [][FdNext]_fdVars

-----------------------------------------------------------------------------
(* Every pointer to a block: slots of the inode and entries of its tables. *)
Pointers ==
    LET ind == {t \in {fd.addr[Ind]} : t # 0}
        dbl == {t \in {fd.addr[Dbl]} : t # 0}
        sub == {fd.tab[t][i] : t \in dbl, i \in 0 .. NI - 1} \ {0}
    IN  {<<0, i, fd.addr[i]>> : i \in 0 .. Dbl}
        \cup {<<t, i, fd.tab[t][i]>> : t \in ind \cup dbl \cup sub, i \in 0 .. NI - 1}

(* bmap.c and vimixfs_trunc(): the bitmap marks exactly the blocks of the  *)
(* file and its tables, and none is in two places.                         *)
BlocksExact ==
    fd_flaw = "none" =>
    /\ {x[3] : x \in Pointers} \ {0} = fd.used
    /\ \A x, y \in Pointers : x[3] = y[3] /\ x[3] # 0 => x = y

(* Only truncate() touches a block that belongs to no file (block 0), and  *)
(* only when it has to fill a hole of the file on a full disk.             *)
BlockZeroKept ==
    fd.zeroed => /\ wr.pc = "trunc" /\ fd.used = DiskBlocks
                 /\ fd.size > 0 /\ BlockOf(fd, (fd.size - 1) \div BS) = 0

Byte(i) == LET b == BlockOf(fd, i \div BS) IN IF b = 0 THEN 0 ELSE fd.dat[b][i % BS]
(* Write, truncation in both directions and their failures half-way: what  *)
(* read() finds is what was written, and zeroes where the file grew.       *)
ContentsExact ==
    fd_flaw = "none" => \A i \in 0 .. fd.size - 1 : Byte(i) = content[i + 1]

(* The same without exception: "previous blocks are kept" is what the     *)
(* comment on the first_trunc_block of vimixfs_trunc() says.              *)
PreviousBlocksKept == \A i \in 0 .. fd.size - 1 : Byte(i) = content[i + 1]
=============================================================================
