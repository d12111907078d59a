------------------------------ MODULE FsTools ------------------------------
(* mkfs and fsck.vimixfs (usr/bin/mkfs): an image is created, filled with    *)
(* directories and files of the host, its meta data changed, copied back to  *)
(* the host and checked.  One action is one run of mkfs.                     *)
(*                                                                           *)
(* A block holds BLOCK_SIZE units; a unit is a piece of file data, a         *)
(* directory entry or the address of a block.  `flaw` records a run that     *)
(* wrote outside the blocks the image has for it: the allocator knows no end *)
(* of the image and answers 0 instead of the invalid index the caller tests, *)
(* and a block of the double indirect range is found only when it is new, so *)
(* a file fits there and the entries of a directory do not.                  *)
EXTENDS Integers, Sequences, FiniteSets, SequencesExt, FiniteSetsExt
CONSTANTS BLOCK_SIZE,         \* units of a block, also addresses per block
          NDirect,            \* VIMIXFS_N_DIRECT_BLOCKS
          InodesPerBlock, BitsPerBlock,
          ImageSizes,         \* arguments of --create
          HostFiles,          \* contents of files on the host
          HostDirs,           \* directories on the host: sequences of entries
          HostNames,          \* names given to copied files
          Owners,             \* values of --uid
          MaxMkfsRuns
VARIABLES img,                \* the image: super block, bitmap, inodes, blocks
          host_tree,               \* what it should hold: path -> kind, data, owner
          mkfs_runs
fstVars == <<img, host_tree, mkfs_runs>>

ROOT_INODE == 1
INVALID_INODE == 0
Zero == <<>>
DataUnit(v) == <<"data", v>>
Dirent(i, n) == <<"entry", i, n>>
Addr(b) == <<"addr", b>>
AddrOf(u) == IF u = Zero THEN 0 ELSE u[2]
ZeroBlock == [k \in 0 .. BLOCK_SIZE - 1 |-> Zero]

NoInode == [kind |-> "free", size |-> 0, own |-> 0, addrs |-> [k \in 0 .. NDirect + 1 |-> 0]]

(***************************************************************************)
(* Layout of a new image.                                                  *)
(***************************************************************************)
GetMinFsSize == 16
GetLogSize(n) == IF n <= 32 THEN 5 ELSE IF n <= 128 THEN 16 ELSE 32
GetInodeBlocks(n) == LET k == n \div 64 IN Min({IF k < 4 THEN k + 1 ELSE k, 65536 \div InodesPerBlock})

BlocksForBitmap(n) == n \div BitsPerBlock + 1

(***************************************************************************)
(* Blocks and inodes.  The image is threaded through the calls.            *)
(***************************************************************************)
ReadSector(g, sec) == IF sec \in DOMAIN g.blk THEN g.blk[sec] ELSE ZeroBlock

\* The file of the image grows when a block behind its end is written.
WriteSector(g, sec, buf) ==
  IF sec \in DOMAIN g.blk THEN [g EXCEPT !.blk[sec] = buf, !.flaw = @ \/ sec = 0]
  ELSE [g EXCEPT !.flaw = TRUE]

\* The whole bitmap is searched, also the bits behind the end of the image.
GetNextFreeBlock(g) ==
  LET free == 0 .. BlocksForBitmap(g.size) * BitsPerBlock - 1 \ g.bitmap IN
  IF free = {} THEN [g |-> g, b |-> 0]
  ELSE [g |-> [g EXCEPT !.bitmap = @ \cup {Min(free)}], b |-> Min(free)]

GetFreeBlockCount(g) == Cardinality(0 .. g.size - 1 \ g.bitmap)

FreeInodes(g) == {i \in 1 .. g.ninodes - 1 : g.din[i].kind = "free"}
GetFreeInode(g) == IF FreeInodes(g) = {} THEN INVALID_INODE ELSE Min(FreeInodes(g))

\* Without a free inode number 0 is written and entered in the directory.
IAlloc(g, kind, own) ==
  LET i == GetFreeInode(g) IN
  [g |-> [g EXCEPT !.din[i] = [NoInode EXCEPT !.kind = kind, !.own = own],
                   !.flaw = @ \/ i = INVALID_INODE],
   i |-> i]

\* The address in slot k of the table in block sec, allocated when missing.
Slot(g, sec, k) ==
  LET tab == ReadSector(g, sec)
      n   == GetNextFreeBlock(g) IN
  IF tab[k] # Zero THEN [g |-> g, b |-> AddrOf(tab[k]), old |-> TRUE]
  ELSE [g |-> WriteSector(n.g, sec, [tab EXCEPT ![k] = Addr(n.b)]), b |-> n.b, old |-> FALSE]

\* The address in the inode's own table.
Own(g, i, k) ==
  LET n == GetNextFreeBlock(g) IN
  IF g.din[i].addrs[k] # 0 THEN [g |-> g, b |-> g.din[i].addrs[k]]
  ELSE [g |-> [n.g EXCEPT !.din[i].addrs[k] = n.b], b |-> n.b]

\* Fault: a table keeps the old address of its first slot.
GetBlockIndex_first(g, i, bn) ==
  LET bi == bn - NDirect IN
  IF bn < NDirect THEN Own(g, i, bn)
  ELSE LET t == Own(g, i, NDirect) IN Slot(t.g, t.b, IF bi < BLOCK_SIZE THEN 0 ELSE bi % BLOCK_SIZE)

GetBlockIndex(g, i, bn) ==
  LET bi == bn - NDirect
      bd == bi - BLOCK_SIZE IN
  IF bn < NDirect THEN Own(g, i, bn)
  ELSE IF bi < BLOCK_SIZE THEN LET t == Own(g, i, NDirect) IN Slot(t.g, t.b, bi)
  ELSE LET t == Own(g, i, NDirect + 1)
           u == Slot(t.g, t.b, bd \div BLOCK_SIZE)
           v == Slot(u.g, u.b, bd % BLOCK_SIZE) IN
       IF v.old THEN [v EXCEPT !.b = 0] ELSE v

\* The part of an appended piece that goes into the last block of the file.
AppendBlock(g, i, units) ==
  LET off == g.din[i].size
      x   == GetBlockIndex(g, i, off \div BLOCK_SIZE)
      at  == off % BLOCK_SIZE
      buf == [k \in 0 .. BLOCK_SIZE - 1 |->
                IF k - at \in 0 .. Len(units) - 1 THEN units[k - at + 1] ELSE ReadSector(x.g, x.b)[k]] IN
  [WriteSector(x.g, x.b, buf) EXCEPT !.din[i].size = off + Len(units)]

RECURSIVE Iappend(_, _, _)
Iappend(g, i, units) ==
  LET n1 == Min({Len(units), BLOCK_SIZE - (g.din[i].size % BLOCK_SIZE)}) IN
  IF units = <<>> THEN g
  ELSE Iappend(AppendBlock(g, i, SubSeq(units, 1, n1)), i, SubSeq(units, n1 + 1, Len(units)))

AddDirectoryEntry(g, new, dir, name) == Iappend(g, dir, <<Dirent(new, name)>>)

CreateDirectory(g, parent, name, own) ==
  LET n == IAlloc(g, "dir", own) IN
  [i |-> n.i, g |-> AddDirectoryEntry(AddDirectoryEntry(AddDirectoryEntry(
                      n.g, n.i, n.i, "."), parent, n.i, ".."), n.i, parent, name)]

FixDirSize(g, i) ==
  IF g.din[i].size % BLOCK_SIZE = 0 THEN g
  ELSE [g EXCEPT !.din[i].size = ((@ \div BLOCK_SIZE) + 1) * BLOCK_SIZE]

ReadUnit(g, i, off) ==
  LET b  == off \div BLOCK_SIZE
      a  == g.din[i].addrs
      bi == b - NDirect
      bd == bi - BLOCK_SIZE
      In(sec, k) == IF sec = 0 THEN 0 ELSE AddrOf(ReadSector(g, sec)[k])
      sec == IF b < NDirect THEN a[b]
             ELSE IF bi < BLOCK_SIZE THEN In(a[NDirect], bi)
             ELSE In(In(a[NDirect + 1], bd \div BLOCK_SIZE), bd % BLOCK_SIZE) IN
  ReadSector(g, sec)[off % BLOCK_SIZE]

ReadInode(g, i) == [k \in 1 .. g.din[i].size |-> ReadUnit(g, i, k - 1)]

Entries(g, i) == SelectSeq(ReadInode(g, i), LAMBDA u : u # Zero /\ u[2] # INVALID_INODE)
InodeGetDirents(g, i) == SelectSeq(Entries(g, i), LAMBDA u : u[3] \notin {".", ".."})

GetInodeFromPath(g, path) ==
  FoldLeft(LAMBDA i, name :
      IF i = INVALID_INODE \/ g.din[i].kind # "dir" THEN INVALID_INODE
      ELSE LET hits == SelectSeq(Entries(g, i), LAMBDA u : u[3] = name) IN
           IF hits = <<>> THEN INVALID_INODE ELSE hits[1][2],
    ROOT_INODE, path)

(***************************************************************************)
(* The operations of mkfs.                                                 *)
(***************************************************************************)
Create(size) ==
  LET nlog  == GetLogSize(size)
      nino  == GetInodeBlocks(size)
      nmeta == 2 + nlog + nino + BlocksForBitmap(size)
      new   == [size |-> size, logstart |-> 2, inodestart |-> 2 + nlog,
                bmapstart |-> 2 + nlog + nino, ninodes |-> nino * InodesPerBlock,
                bitmap |-> 0 .. nmeta - 1, flaw |-> FALSE, skipped |-> FALSE,
                din |-> [i \in 0 .. nino * InodesPerBlock - 1 |-> NoInode],
                blk |-> [b \in 0 .. size - 1 |-> ZeroBlock]]
      root  == IAlloc(new, "dir", 0).g IN
  AddDirectoryEntry(AddDirectoryEntry(root, ROOT_INODE, ROOT_INODE, "."), ROOT_INODE, ROOT_INODE, "..")

\* A file that the image has no room for is skipped; only the data is counted.
MaxFileUnits == (NDirect + BLOCK_SIZE + BLOCK_SIZE * BLOCK_SIZE) * BLOCK_SIZE
Fits(g, data) == Len(data) <= MaxFileUnits /\ Len(data) <= GetFreeBlockCount(g) * BLOCK_SIZE

CpFileFromHost(g, data, name, dir, own) ==
  LET n == IAlloc(g, "file", own)
      e == AddDirectoryEntry(n.g, n.i, dir, name) IN
  IF ~Fits(g, data) THEN g
  ELSE FixDirSize(Iappend(e, n.i, [k \in 1 .. Len(data) |-> DataUnit(data[k])]), dir)

RECURSIVE CpDirFromHost(_, _, _, _)
CpDirFromHost(g, host, dir, own) ==
  FoldLeft(LAMBDA h, e :
      IF e.kind = "dir"
      THEN LET d == CreateDirectory(h, dir, e.name, own) IN CpDirFromHost(d.g, e.sub, d.i, own)
      ELSE [CpFileFromHost(h, e.data, e.name, dir, own) EXCEPT !.skipped = @ \/ ~Fits(h, e.data)],
    g, host)

ChangeMetadataOfDinode(g, i, own) == [g EXCEPT !.din[i].own = own]

RECURSIVE ChangeMetadataOfInode(_, _, _, _)
ChangeMetadataOfInode(g, i, own, recursive) ==
  LET h == ChangeMetadataOfDinode(g, i, own) IN
  IF ~recursive \/ g.din[i].kind # "dir" THEN h
  ELSE FoldLeft(LAMBDA k, e : ChangeMetadataOfInode(k, e[2], own, TRUE), h, InodeGetDirents(g, i))

\* --out: the files and directories mkfs writes on the host.
CpFileToHost(g, i) ==
  LET u == ReadInode(g, i) IN [k \in 1 .. Len(u) |-> IF u[k] = Zero THEN -1 ELSE u[k][2]]

RECURSIVE CpDirToHost(_, _, _)
CpDirToHost(g, i, path) ==
  UNION {LET to == Append(path, e[3])
             d  == g.din[e[2]] IN
         IF d.kind = "dir"
         THEN {[path |-> to, kind |-> "dir", data |-> <<>>, own |-> d.own]} \cup CpDirToHost(g, e[2], to)
         ELSE {[path |-> to, kind |-> "file", data |-> CpFileToHost(g, e[2]), own |-> d.own]} :
         e \in ToSet(InodeGetDirents(g, i))}

(***************************************************************************)
(* fsck.                                                                   *)
(***************************************************************************)
CheckBlockRange(range) == range \ {0}
Table(g, b) == {AddrOf(ReadSector(g, b)[k]) : k \in 0 .. BLOCK_SIZE - 1}

CheckIndirectBlock(g, b) == IF b = 0 THEN {} ELSE {b} \cup CheckBlockRange(Table(g, b))
CheckDoubleIndirectBlock(g, b) ==
  IF b = 0 THEN {} ELSE {b} \cup UNION {CheckIndirectBlock(g, t) : t \in Table(g, b)}

\* Only files and directories have blocks; an unknown type is passed over.
CheckDinode(g, i) ==
  LET a == g.din[i].addrs IN
  IF g.din[i].kind \notin {"file", "dir"} THEN {}
  ELSE CheckBlockRange({a[k] : k \in 0 .. NDirect - 1})
       \cup CheckIndirectBlock(g, a[NDirect]) \cup CheckDoubleIndirectBlock(g, a[NDirect + 1])

CheckInodes(g) == UNION {CheckDinode(g, i) : i \in 0 .. g.ninodes - 1}
PrintFsLayout(g) == 0 .. g.bmapstart + BlocksForBitmap(g.size) - 1
CheckBitmap(g) == LET shadow == PrintFsLayout(g) \cup CheckInodes(g) IN
                  Cardinality((shadow \ g.bitmap) \cup (g.bitmap \ shadow))

\* Flags of the inodes.  They start as INODE_UNUSED and are joined with &;
\* check_dirents() visits BLOCK_SIZE % sizeof(struct vimixfs_dirent) entries.
INODE_UNUSED == {}
INODE_OK(x) == x = INODE_UNUSED \/ x = {"referenced"} \cap {"defined"}
CheckDirents(g, b, i) ==
  \E k \in 0 .. (BLOCK_SIZE % 1) - 1 : ReadSector(g, b)[k] # Zero /\ ReadSector(g, b)[k][2] = i
InodeFlags(g, i) ==
  LET f == IF g.din[i].kind \in {"file", "dir"} THEN INODE_UNUSED \cap {"defined"} ELSE INODE_UNUSED IN
  IF \E b \in CheckInodes(g) : CheckDirents(g, b, i) THEN f \cap {"referenced"} ELSE f

CheckFileSystem(g) ==
  Cardinality({i \in 1 .. g.ninodes - 1 : ~INODE_OK(InodeFlags(g, i))}) + CheckBitmap(g)

(***************************************************************************)
(* Runs of mkfs, and the host_tree each should leave.                           *)
(***************************************************************************)
RECURSIVE HostTree(_, _, _)
HostTree(host, path, own) ==
  UNION {LET to == Append(path, host[k].name) IN
         IF host[k].kind = "dir"
         THEN {[path |-> to, kind |-> "dir", data |-> <<>>, own |-> own]} \cup HostTree(host[k].sub, to, own)
         ELSE {[path |-> to, kind |-> "file", data |-> host[k].data, own |-> own]} :
         k \in DOMAIN host}

Dirs == {<<>>} \cup {n.path : n \in {m \in host_tree : m.kind = "dir"}}
NewNames(path, names) == \A n \in host_tree : n.path \notin {Append(path, x) : x \in names}
NextRun == mkfs_runs < MaxMkfsRuns /\ ~img.flaw /\ mkfs_runs' = mkfs_runs + 1

RunCreate == \E size \in ImageSizes :
  /\ NextRun /\ size >= GetMinFsSize /\ img' = Create(size) /\ host_tree' = {}

\* --in with a file: a skipped file leaves the image as it is.
RunCopyFile == \E data \in HostFiles, dir \in Dirs, name \in HostNames, own \in Owners :
  LET i == GetInodeFromPath(img, dir) IN
  /\ NextRun /\ i # INVALID_INODE /\ NewNames(dir, {name})
  /\ img' = CpFileFromHost(img, data, name, i, own)
  /\ host_tree' = IF ~Fits(img, data) THEN host_tree
             ELSE host_tree \cup {[path |-> Append(dir, name), kind |-> "file", data |-> data, own |-> own]}

\* --in with a directory; `skipped` records that a file did not fit.
RunCopyDir == \E host \in HostDirs, dir \in Dirs, own \in Owners :
  LET i == GetInodeFromPath(img, dir) IN
  /\ NextRun /\ i # INVALID_INODE /\ NewNames(dir, {host[k].name : k \in DOMAIN host})
  /\ img' = CpDirFromHost(img, host, i, own)
  /\ host_tree' = host_tree \cup HostTree(host, dir, own)

\* --meta: a path that ends in a slash changes everything below it.
RunMeta == \E node \in host_tree, own \in Owners, recursive \in BOOLEAN :
  LET i == GetInodeFromPath(img, node.path) IN
  /\ NextRun /\ i # INVALID_INODE
  /\ img' = ChangeMetadataOfInode(img, i, own, recursive)
  /\ host_tree' = {IF n.path = node.path \/ (recursive /\ IsStrictPrefix(node.path, n.path))
              THEN [n EXCEPT !.own = own] ELSE n : n \in host_tree}

FstInit == img = Create(GetMinFsSize) /\ host_tree = {} /\ mkfs_runs = 0
FstNext == RunCreate \/ RunCopyFile \/ RunCopyDir \/ RunMeta
FstSpec == FstInit /\ [][FstNext]_fstVars

(***************************************************************************)
(* Properties.                                                             *)
(***************************************************************************)

(* What mkfs --out writes on the host is what the runs of --in and --meta put  *)
(* into the image: directories, file contents through direct, indirect and     *)
(* double indirect blocks, owners; unless a run wrote outside its blocks or    *)
(* left out a file of a directory because it did not fit.                      *)
ImageHoldsTree == img.flaw \/ img.skipped \/ CpDirToHost(img, ROOT_INODE, <<>>) = host_tree

(* fsck finds no error in an image that mkfs left, and when one bit of its     *)
(* bitmap is wrong it counts exactly one error, whichever bit it is.  (Of the  *)
(* inodes it reports nothing: the flags it joins stay INODE_UNUSED.)           *)
FsckExact ==
  img.flaw \/ /\ CheckFileSystem(img) = 0
              /\ \A b \in 0 .. img.size - 1 :
                   CheckFileSystem([img EXCEPT !.bitmap = (@ \ {b}) \cup ({b} \ @)]) = 1

(* The areas of the image follow each other, hold the inodes and one bit for   *)
(* every block, and the blocks of files and directories lie behind them.       *)
AreasApart ==
  /\ img.logstart + GetLogSize(img.size) = img.inodestart
  /\ img.inodestart + (img.ninodes \div InodesPerBlock) = img.bmapstart
  /\ (img.size - 1) \div BitsPerBlock < BlocksForBitmap(img.size)
  /\ img.flaw \/ CheckInodes(img) \subseteq
       img.bmapstart + BlocksForBitmap(img.size) .. img.size - 1
=============================================================================
