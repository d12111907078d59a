------------------------------- MODULE Sysfs -------------------------------
(* Kernel objects and their picture in sysfs (kernel/kobject.c,              *)
(* fs/sysfs/sysfs.c, sysfs_node.c): objects join and leave a directory of    *)
(* the object tree while threads look up, read and drop the inodes of their  *)
(* nodes and list the directory.                                             *)
(*                                                                           *)
(* The directory (g_kobjects_proc, g_kobjects_dev or g_kobjects_fs) is       *)
(* static.  Objects join before sysfs is mounted, when the mount registers   *)
(* them, or later, when kobject_add() does.  Only do_fork() undoes an        *)
(* addition that failed; register_device() and mount_internal() ignore the   *)
(* result and leave the object in the tree without nodes.  `sysfs_wild`      *)
(* records a use of freed or missing memory, which the code permits:         *)
(* node->sysfs_ip is tested without the lock of the inode list, the last     *)
(* put reads an inode that another put may have freed, a node is freed under *)
(* the inodes that point to it, and the directory may have no node of its    *)
(* own.  Nothing is said of what follows.  A kobject_add() that has no       *)
(* memory for the name changes nothing here; what do_fork() does then is     *)
(* part of module Process.                                                   *)
EXTENDS Integers, Sequences, FiniteSets, SequencesExt
CONSTANTS Kobjects,     \* dynamic kernel objects
          Attributes,   \* n_attributes of their type
          SysThreads,   \* threads in sysfs
          MaxInum       \* bound on inode numbers
VARIABLES mounted,      \* sysfs_super_block # NULL
          walk,         \* children that the mount has still to register
          ko,           \* object -> state, count, array of nodes
          dir,          \* the directory: its count, its children, its own node
          node,         \* inode number -> node
          child_list,   \* nodes of the directory, the newest first
          next_inum, inodes, sysfs_wild,
          st            \* thread -> where it is, the inodes it holds
sysVars == <<mounted, walk, ko, dir, node, child_list, next_inum, inodes, sysfs_wild, st>>

NoObject == [at |-> "none", ref |-> 0, nodes |-> <<>>, failed |-> FALSE, undoes |-> FALSE]
NoNode == [live |-> FALSE, obj |-> "none", ip |-> FALSE]
NoInodeRef == [ref |-> 0, live |-> FALSE]
Inums == 1 .. MaxInum
Registering == {"array", "dirnode", "attrs"}

\* Paths below /sys resolve once the mount is complete.
MountDone == mounted /\ walk = <<>>

\* Listings only read the list of children, and lookups and puts leave it alone.
\* Bound: one listing at a time, and no inode in use during it.
Listing == \E t \in SysThreads : st[t].at \in {"list", "listed"}
UsingInodes == \E t \in SysThreads : st[t].held # {} \/ st[t].i # 0

\* Under priv->lock for reading: a lookup between its two tests.
Readers == {t \in SysThreads : st[t].at \in {"found", "get"}}

(***************************************************************************)
(* kobject_add() in its steps, by the object's creator.                    *)
(***************************************************************************)
KobjectInit(o, undoes) == [NoObject EXCEPT !.ref = 1, !.undoes = undoes]

\* kobject_add() up to sysfs_register_kobject(), with the references of the tree
\* on the object and of the object on its parent.  `undoes`: a child of do_fork().
KobjectAdd(o, undoes) ==
  /\ ko[o] = NoObject /\ walk = <<>>
  /\ ko' = [ko EXCEPT ![o] = [KobjectInit(o, undoes) EXCEPT !.ref = @ + 1, !.at = "array"]]
  /\ dir' = [dir EXCEPT !.ref = @ + 1, !.children = Append(@, o)]
  /\ UNCHANGED <<mounted, walk, node, child_list, next_inum, inodes, sysfs_wild, st>>

\* Where registering o ends, and where it gives up.
RegisterDone(k, o) == [k EXCEPT ![o].at = IF walk = <<>> THEN "added" ELSE "tree"]
RegisterFails(k, o) ==
  [k EXCEPT ![o].failed = TRUE, ![o].at = IF walk # <<>> THEN "tree"
                                          ELSE IF k[o].undoes THEN "undo" ELSE "added"]

\* The mount goes on to the next child.
Walked(k) == walk' = IF walk # <<>> /\ k[Head(walk)].at = "tree" THEN Tail(walk) ELSE walk

\* sysfs_register_kobject_parent() up to the array of nodes.
RegisterArray(o, fails) ==
  /\ ko[o].at = "array" /\ (walk # <<>> => o = Head(walk))
  /\ ko' = IF ~mounted \/ fails THEN RegisterFails(ko, o)
           ELSE [ko EXCEPT ![o].at = "dirnode", ![o].nodes = [j \in 1 .. Attributes + 1 |-> 0]]
  /\ Walked(ko')
  /\ UNCHANGED <<mounted, dir, node, child_list, next_inum, inodes, sysfs_wild, st>>

\* sysfs_node_alloc_init(): the node idx of o, at the front of its parent.
NodeAllocInit(o, idx) ==
  /\ next_inum <= MaxInum /\ next_inum' = next_inum + 1
  /\ node' = [node EXCEPT ![next_inum] = [live |-> TRUE, obj |-> o, ip |-> FALSE]]
  /\ child_list' = IF idx = 0 THEN <<next_inum>> \o child_list ELSE child_list

\* The node of the object, then its attributes one by one.  The node of the
\* directory is not checked for.
RegisterNode(o, fails) ==
  LET idx == IF ko[o].at = "dirnode" THEN 0
             ELSE (CHOOSE k \in 2 .. Attributes + 1 : ko[o].nodes[k] = 0
                     /\ \A l \in 2 .. k - 1 : ko[o].nodes[l] # 0) - 1 IN
  /\ ko[o].at \in {"dirnode", "attrs"} /\ Readers = {}
  /\ IF fails
     THEN /\ ko' = IF idx = 0 THEN RegisterFails(ko, o)
                   ELSE RegisterDone([ko EXCEPT ![o].failed = TRUE], o)
          /\ UNCHANGED <<node, child_list, next_inum, sysfs_wild>>
     ELSE /\ NodeAllocInit(o, idx)
          /\ sysfs_wild' = ~dir.node
          /\ LET k == [ko EXCEPT ![o].nodes[idx + 1] = next_inum, ![o].at = "attrs"] IN
             ko' = IF idx = Attributes THEN RegisterDone(k, o) ELSE k
  /\ Walked(ko')
  /\ UNCHANGED <<mounted, dir, inodes, st>>

(***************************************************************************)
(* Mounting sysfs, once: sysfs_register_kobject_and_children() registers   *)
(* the directory and then its children in the order of the list.           *)
(***************************************************************************)
SysfsInitFsSuperBlock(fails) ==
  /\ ~mounted /\ \A o \in Kobjects : ko[o].at \in {"none", "tree"}
  /\ mounted' = TRUE /\ walk' = dir.children
  /\ dir' = [dir EXCEPT !.node = ~fails]
  /\ ko' = [o \in Kobjects |-> IF ko[o].at = "tree" THEN [ko[o] EXCEPT !.at = "array", !.failed = FALSE] ELSE ko[o]]
  /\ UNCHANGED <<node, child_list, next_inum, inodes, sysfs_wild, st>>

(***************************************************************************)
(* Leaving the tree.                                                       *)
(***************************************************************************)
\* kobject_put(): the last one drops the parent and releases the object.
KobjectPut(k, d, o) == IF k[o].ref = 1
                       THEN [k |-> [k EXCEPT ![o] = NoObject], d |-> [d EXCEPT !.ref = @ - 1]]
                       ELSE [k |-> [k EXCEPT ![o].ref = @ - 1], d |-> d]

\* The creator's reference goes once the tree holds one.
CreatorPut(o) ==
  /\ ko[o].at = "added"
  /\ LET p == KobjectPut([ko EXCEPT ![o].at = "tree"], dir, o) IN ko' = p.k /\ dir' = p.d
  /\ UNCHANGED <<mounted, walk, node, child_list, next_inum, inodes, sysfs_wild, st>>

\* sysfs_node_free(): the loop over the children ends before it starts, and
\* the nodes of the attributes are never freed.
SysfsNodeFree(o) ==
  LET n == ko[o].nodes[1] IN
  /\ node' = [node EXCEPT ![n] = NoNode]
  /\ child_list' = SelectSeq(child_list, LAMBDA i : i # n)

SysfsUnregisterKobject(o) ==
  IF ko[o].nodes = <<>> \/ (ko[o].nodes # <<>> /\ Head(ko[o].nodes) = 0)
  THEN UNCHANGED <<node, child_list>>
  ELSE Readers = {} /\ SysfsNodeFree(o)

Unlinked(o) == KobjectPut([ko EXCEPT ![o].at = "none"],
                          [dir EXCEPT !.children = SelectSeq(@, LAMBDA c : c # o)], o)

\* kobject_del(), by wait() or sb_free(), or, after the put of the creator, by
\* do_fork() to undo an addition that failed.
KobjectDel(o) ==
  /\ ko[o].at \in {"tree", "undo"} /\ walk = <<>> /\ SysfsUnregisterKobject(o)
  /\ LET u == Unlinked(o)
         w == IF ko[o].at = "undo" THEN KobjectPut(u.k, u.d, o) ELSE u IN
     ko' = w.k /\ dir' = w.d
  /\ UNCHANGED <<mounted, walk, next_inum, inodes, sysfs_wild, st>>

(***************************************************************************)
(* Threads in sysfs.  Lookups in one directory exclude each other (its     *)
(* inode is locked); they hold priv->lock for reading.                     *)
(***************************************************************************)
Lookup(t) ==
  /\ st[t].at = "idle" /\ Readers = {} /\ st[t].held = {} /\ MountDone /\ ~Listing
  /\ \E k \in DOMAIN child_list : st' = [st EXCEPT ![t].at = "found", ![t].i = child_list[k]]
  /\ UNCHANGED <<mounted, walk, ko, dir, node, child_list, next_inum, inodes, sysfs_wild>>

CreateInodeFromNode(t, i) ==
  /\ inodes' = [inodes EXCEPT ![i] = [ref |-> 1, live |-> TRUE]]
  /\ node' = [node EXCEPT ![i].ip = TRUE]
  /\ st' = [st EXCEPT ![t].at = "idle", ![t].i = 0, ![t].held = {i}]

\* sysfs_get_inode_from_node(): the test of node->sysfs_ip, without a lock.
GetInodeFromNode(t) ==
  /\ st[t].at = "found"
  /\ IF node[st[t].i].ip THEN st' = [st EXCEPT ![t].at = "get"] /\ UNCHANGED <<inodes, node>>
     ELSE CreateInodeFromNode(t, st[t].i)
  /\ UNCHANGED <<mounted, walk, ko, dir, child_list, next_inum, sysfs_wild>>

GetInode(t) ==
  LET i == st[t].i IN
  /\ st[t].at = "get"
  /\ sysfs_wild' = ~inodes[i].live
  /\ inodes' = [inodes EXCEPT ![i].ref = @ + 1]
  /\ st' = [st EXCEPT ![t].at = "idle", ![t].i = 0, ![t].held = {i}]
  /\ UNCHANGED <<mounted, walk, ko, dir, node, child_list, next_inum>>

\* Reading or writing an attribute, or listing, goes through the node.
UseInode(t) == \E i \in st[t].held :
  /\ st[t].at = "idle" /\ ~node[i].live /\ sysfs_wild' = TRUE
  /\ UNCHANGED <<mounted, walk, ko, dir, node, child_list, next_inum, inodes, st>>

DropInode(t) == \E i \in st[t].held :
  /\ st[t].at = "idle"
  /\ inodes' = [inodes EXCEPT ![i].ref = @ - 1]
  /\ st' = [st EXCEPT ![t].held = {}, ![t].i = IF inodes[i].ref = 1 THEN i ELSE 0,
                      ![t].at = IF inodes[i].ref = 1 THEN "last" ELSE "idle"]
  /\ UNCHANGED <<mounted, walk, ko, dir, node, child_list, next_inum, sysfs_wild>>

\* Fault: the count is not looked at again under the lock.
LastPut_blind(t) ==
  LET i == st[t].i IN
  /\ st[t].at = "last" /\ st' = [st EXCEPT ![t].at = "idle", ![t].i = 0]
  /\ sysfs_wild' = (~inodes[i].live \/ ~node[i].live)
  /\ inodes' = [inodes EXCEPT ![i].live = FALSE] /\ node' = [node EXCEPT ![i].ip = FALSE]
  /\ UNCHANGED <<mounted, walk, ko, dir, child_list, next_inum>>

\* sysfs_iops_put() after the count dropped to zero.
LastPut(t) ==
  LET i == st[t].i IN
  /\ st[t].at = "last" /\ st' = [st EXCEPT ![t].at = "idle", ![t].i = 0]
  /\ IF inodes[i].live /\ inodes[i].ref > 0 THEN UNCHANGED <<inodes, node, sysfs_wild>>
     ELSE /\ sysfs_wild' = (~inodes[i].live \/ ~node[i].live)
          /\ inodes' = [inodes EXCEPT ![i].live = FALSE]
          /\ node' = [node EXCEPT ![i].ip = FALSE]
  /\ UNCHANGED <<mounted, walk, ko, dir, child_list, next_inum>>

(***************************************************************************)
(* Listing the directory, one entry per call at a position.                *)
(***************************************************************************)
OpenDir(t) == /\ st[t].at = "idle" /\ ~UsingInodes /\ ~Listing /\ MountDone
              /\ st' = [st EXCEPT ![t].at = "list", ![t].pos = 2, ![t].seen = {},
                                  ![t].must = ToSet(child_list)]
              /\ UNCHANGED <<mounted, walk, ko, dir, node, child_list, next_inum, inodes, sysfs_wild>>

EntryAt(pos) == pos - 1

\* Entries that leave during the listing may hide others that follow them.
GetDirent(t) ==
  LET k == EntryAt(st[t].pos) IN
  /\ st[t].at = "list"
  /\ IF k > Len(child_list) THEN st' = [st EXCEPT ![t].at = "listed", ![t].pos = 0]
     ELSE st' = [st EXCEPT ![t].pos = @ + 1, ![t].seen = @ \cup {child_list[k]}]
  /\ UNCHANGED <<mounted, walk, ko, dir, node, child_list, next_inum, inodes, sysfs_wild>>

CloseDir(t) == /\ st[t].at = "listed"
               /\ st' = [st EXCEPT ![t].at = "idle", ![t].pos = 0, ![t].seen = {}, ![t].must = {}]
               /\ UNCHANGED <<mounted, walk, ko, dir, node, child_list, next_inum, inodes, sysfs_wild>>

(***************************************************************************)
SysInit ==
  /\ mounted = FALSE /\ walk = <<>>
  /\ ko = [o \in Kobjects |-> NoObject] /\ dir = [ref |-> 1, children |-> <<>>, node |-> FALSE]
  /\ node = [i \in Inums |-> NoNode] /\ child_list = <<>> /\ next_inum = 1
  /\ inodes = [i \in Inums |-> NoInodeRef] /\ sysfs_wild = FALSE
  /\ st = [t \in SysThreads |-> [at |-> "idle", i |-> 0, held |-> {}, pos |-> 0, seen |-> {}, must |-> {}]]

SysNext ==
  /\ ~sysfs_wild
  /\ \/ \E o \in Kobjects : \/ CreatorPut(o) \/ KobjectDel(o)
                            \/ \E undoes \in BOOLEAN : KobjectAdd(o, undoes)
                            \/ \E fails \in BOOLEAN : RegisterArray(o, fails) \/ RegisterNode(o, fails)
     \/ \E fails \in BOOLEAN : SysfsInitFsSuperBlock(fails)
     \/ \E t \in SysThreads : \/ Lookup(t) \/ GetInodeFromNode(t) \/ GetInode(t) \/ UseInode(t)
                              \/ DropInode(t) \/ LastPut(t) \/ OpenDir(t) \/ GetDirent(t) \/ CloseDir(t)

SysSpec == SysInit /\ [][SysNext]_sysVars

(***************************************************************************)
(* Properties.                                                             *)
(***************************************************************************)

(* An object's count is one for the tree and one for its creator until it is   *)
(* done, the directory counts every object that names it as parent, and an     *)
(* object outside the tree is released, also after an addition that failed.    *)
ObjectsCounted ==
  /\ \A o \in Kobjects :
       /\ (o \in ToSet(dir.children)) = (ko[o].at # "none")
       /\ ko[o].ref = (IF ko[o].at = "none" THEN 0 ELSE 1)
                    + (IF ko[o].at \in Registering \cup {"added", "undo"} /\ walk = <<>> THEN 1 ELSE 0)
  /\ dir.ref = 1 + Cardinality({o \in Kobjects : ko[o].at # "none"})

(* Until memory is misused, the nodes in the directory are those of the        *)
(* objects in the tree: no freed node is in the list, and an object has        *)
(* exactly one there unless sysfs is not mounted or an allocation failed, in   *)
(* which case it has at most one.  A process that fork() added always has its  *)
(* directory, since fork() undoes an addition without one.                     *)
NodesMirrorTree ==
  LET Shown(o) == {k \in DOMAIN child_list : node[child_list[k]].obj = o} IN
  sysfs_wild \/
  /\ \A k \in DOMAIN child_list : node[child_list[k]].live
  /\ \A o \in Kobjects :
       /\ ko[o].at \in {"none", "undo", "array", "dirnode"} \/ ~mounted => Shown(o) = {}
       /\ Cardinality(Shown(o)) <= 1
       /\ ko[o].at = "attrs" => Shown(o) # {}
       /\ ko[o].at \in {"added", "tree"} /\ mounted /\ (ko[o].undoes \/ ~ko[o].failed) =>
            Shown(o) # {}
       /\ ko[o].at \in {"added", "tree"} /\ mounted /\ ~ko[o].failed =>
            \A k \in 1 .. Attributes + 1 : ko[o].nodes[k] \in Inums

(* While no freed memory was used, an inode that a thread holds or is putting  *)
(* is not freed, and a node knows its inode as long as the inode exists.       *)
InodesHeld ==
  sysfs_wild \/ /\ \A t \in SysThreads : \A i \in st[t].held : inodes[i].live /\ inodes[i].ref > 0
                /\ \A i \in Inums : node[i].live => (node[i].ip = inodes[i].live)

(* A listing of the directory shows every object that was there when it began  *)
(* and is still there when it ends, unless one left in between: additions at   *)
(* the front move the others backwards, past the position, never before it.    *)
ListingComplete ==
  \A t \in SysThreads : st[t].at = "listed" =>
    \/ st[t].must \subseteq st[t].seen
    \/ \E i \in st[t].must : ~node[i].live
    \/ \E i \in Inums : i \in st[t].seen /\ ~node[i].live
=============================================================================
