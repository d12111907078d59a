----------------------------- MODULE Namespace -----------------------------
(***************************************************************************)
(* Names: the cache of directory entries (kernel/fs/dentry.c,              *)
(* dentry_cache.c, fs_lookup.c), the inodes and directories of vimixfs     *)
(* (vimixfs.c), and the system calls that change them: open, close, mkdir, *)
(* mknod, link, unlink, rmdir, chdir (file.c, sys_link.c, sys_mk.c,        *)
(* sys_file.c).                                                            *)
(*                                                                         *)
(* A step is what happens under tree_lock, or under the exclusive locks of *)
(* the inodes involved.  The exclusive locks are state where a call drops  *)
(* tree_lock in between (do_rm).  A transaction of the log is atomic       *)
(* (module Log).  Permissions are in module Cred: here everything is       *)
(* allowed.  Three races of the code are recorded in ns_flaw when they     *)
(* happen: a NULL pointer that is followed, which stops the system, a      *)
(* dentry or a name that is given a file twice, and a late result of a     *)
(* lookup.                                                                 *)
(*                                                                         *)
(* dentry_put() and inode_put() count down, look at what they have, and    *)
(* act in steps that no lock joins.  A put that reaches zero while another *)
(* process is in a call takes these steps one by one, among its own, or    *)
(* runs through.  A step that frees what another put still looks at, or    *)
(* what is in use, in the tree or on the LRU list, makes Dangling true,    *)
(* after which nothing is said.                                            *)
(***************************************************************************)
EXTENDS Integers, Sequences, FiniteSets, SequencesExt

CONSTANTS
    NProcs,     \* processes
    NsNames,    \* names of files
    NsPaths,    \* paths that are used
    NsCalls,    \* system calls that are made
    Dens,       \* bound: dentries, without the root
    Inums,      \* bound: inode numbers; the root is 1
    MaxLru,     \* max_lru_size
    MaxCalls    \* bound: calls, and last puts that take their steps one by one

VARIABLES
    fs,         \* [den, lru, ino, ents]: dentries, LRU list, inodes, directories
    pr,         \* locals of a process in a call, its file and its directory
    xlock,      \* inodes whose write_exclusive_lock is held over steps
    ns_calls, ns_split, ns_flaw

nsVars == <<fs, pr, xlock, ns_calls, ns_split, ns_flaw>>

Root == 0       \* the root dentry
Null == -1
Unlinked == -2  \* g_dentry_cache.unlinked_root
AllDens == Dens \cup {Root}
NoName == "none"
NoDen == [name |-> NoName, parent |-> Null, ip |-> Null, ref |-> 0]
Idle == [pc |-> "idle", op |-> "none", rest |-> << >>, to |-> << >>,
         dp |-> Null, from |-> Null, par |-> Null, new |-> Null]
NoPut == [at |-> "no", of |-> Null, rest |-> << >>]

Child(f, d, n) == {c \in Dens : f.den[c].parent = d /\ f.den[c].name = n}
Entry(f, i, n) == {e \in f.ents : e[1] = i /\ e[2] = n}
FreeDens(f) == {d \in Dens : f.den[d].name = NoName}
FreeInums(f) == {i \in Inums : ~f.ino[i].alloc /\ f.ino[i].ref = 0}
Least(S) == CHOOSE x \in S : \A y \in S : x <= y
IsDir(f, d) == f.den[d].ip # Null /\ f.ino[f.den[d].ip].dir

(* vimixfs_iops_put() under fs_inode_list_lock and after it: the inode      *)
(* leaves the list, and without links it is truncated, entries of a        *)
(* directory included, and freed on the disk.                              *)
InodeDelete(f, i) ==
    LET gone == f.ino[i].nlink = 0
    IN  [f EXCEPT !.ino[i].mem = FALSE,
                  !.ino[i].alloc = IF gone THEN FALSE ELSE @,
                  !.ents = IF gone THEN {e \in @ : e[1] # i} ELSE @]
InodeDrop(f, i) == [f EXCEPT !.ino[i].ref = @ - 1]
InodePut(f, i) ==
    LET g == InodeDrop(f, i) IN IF g.ino[i].ref = 0 THEN InodeDelete(g, i) ELSE g

DentryGet(f, d) ==
    [f EXCEPT !.den[d].ref = @ + 1, !.lru = SelectSeq(@, LAMBDA c : c # d)]

DentryFree(f, d) ==
    LET g == [f EXCEPT !.den[d] = NoDen]
    IN  IF f.den[d].ip = Null THEN g ELSE InodePut(g, f.den[d].ip)

(* dentry_put() up to the LRU list, where it enters a dentry once.         *)
MoveToLru(f, d) == IF d \in ToSet(f.lru) THEN f ELSE [f EXCEPT !.lru = <<d>> \o @]
DentryDrop(f, d) ==
    LET g == [f EXCEPT !.den[d].ref = @ - 1]
    IN  IF g.den[d].ref > 0 THEN g
        ELSE IF g.den[d].parent \in {Unlinked, Null} THEN DentryFree(g, d)
        ELSE MoveToLru(g, d)

(* dentry_cache_drain_lru(): the oldest entries leave the tree, their      *)
(* parents may follow.  One that is in use again stops it.                 *)
DropParent(f, par) == IF par \in {Unlinked, Null} THEN f ELSE DentryDrop(f, par)
Evictable(f, target) == Len(f.lru) > target /\ f.den[Last(f.lru)].ref = 0
Evict_leak(f, target) ==        \* fault: keeps the reference to the parent
    IF ~Evictable(f, target) THEN f
    ELSE DentryFree([f EXCEPT !.lru = Front(@)], Last(f.lru))
Evict(f, target) ==
    IF ~Evictable(f, target) THEN f
    ELSE LET d == Last(f.lru)
             g == DentryFree([f EXCEPT !.lru = Front(@)], d)
         IN  DropParent(g, f.den[d].parent)
Drain(f, target) ==
    FoldLeft(LAMBDA g, k : Evict(g, target), f, [k \in 1 .. Cardinality(Dens) |-> k])

DentryPut(f, d) == Drain(DentryDrop(f, d), MaxLru)
PutAll(f, ds) == FoldLeft(DentryPut, f, ds)

(* vimixfs_iget(): the inode of the list, or one that is read and entered. *)
InodeGet(f, i) == [f EXCEPT !.ino[i].ref = @ + 1, !.ino[i].mem = TRUE]

(* dentry_alloc_init_orphan()                                              *)
Orphan(f, d, n, i) ==
    LET g == [f EXCEPT !.den[d] = [name |-> n, parent |-> Null, ip |-> i, ref |-> 1]]
    IN  IF i = Null THEN g ELSE InodeGet(g, i)
(* dentry_register_with_parent(); references to unlinked_root are not counted. *)
Register(f, par, d) ==
    LET g == [f EXCEPT !.den[d].parent = par]
    IN  IF par = Unlinked THEN g ELSE DentryGet(g, par)

(* The root, in it a directory (inode 2) and in that a file (inode 3).     *)
NsInit ==
    /\ fs = [den |-> [d \in AllDens |->
                        IF d = Root THEN [NoDen EXCEPT !.name = "/", !.ip = 1,
                                                       !.ref = 1 + Cardinality(NProcs)]
                        ELSE NoDen],
             lru |-> << >>,
             ino |-> [i \in Inums |->
                        [alloc |-> i <= 3, dir |-> i <= 2,
                         nlink |-> IF i <= 3 THEN 1 ELSE 0,
                         ref |-> IF i = 1 THEN 2 ELSE 0, mem |-> i = 1]],
             ents |-> {<<1, "a", 2>>, <<2, "x", 3>>}]
    /\ pr = [p \in NProcs |-> Idle @@ [file |-> Null, cwd |-> Root, put |-> NoPut]]
    /\ xlock = {}
    /\ ns_calls = 0 /\ ns_split = 0
    /\ ns_flaw = "none"
-----------------------------------------------------------------------------
(* Process p goes on with the fields of l replaced.                        *)
Go(p, l) == pr' = [pr EXCEPT ![p] = l @@ @]

(* It puts the dentries ds one after the other: all of them at once, or up *)
(* to one whose count drops to zero.                                       *)
Puts(p, f, ds, l) ==
    \/ fs' = PutAll(f, ds) /\ Go(p, l) /\ UNCHANGED ns_split
    \/ \E k \in DOMAIN ds :
        LET g == PutAll(f, SubSeq(ds, 1, k - 1))
        IN  /\ ns_calls + ns_split < MaxCalls /\ g.den[ds[k]].ref = 1
            /\ \E q \in NProcs \ {p} : pr[q].pc # "idle"
            /\ ns_split' = ns_split + 1
            /\ fs' = [g EXCEPT !.den[ds[k]].ref = 0]
            /\ Go(p, [put |-> [at |-> "test", of |-> ds[k],
                               rest |-> SubSeq(ds, k + 1, Len(ds))]] @@ l)
Return(p, f, ds) == Puts(p, f, ds, Idle)

(* The steps of a put after the count: dp->parent is read, the dentry goes *)
(* to the LRU list, which is drained, or it is freed and its inode put.    *)
PutAt(p, at) == pr[p].put.at = at
PutGoes(p, at, f) ==
    /\ fs' = f /\ Go(p, [put |-> [pr[p].put EXCEPT !.at = at]])
    /\ UNCHANGED <<xlock, ns_calls, ns_split, ns_flaw>>
PutEnds(p, f) ==
    Puts(p, f, pr[p].put.rest, [put |-> NoPut]) /\ UNCHANGED <<xlock, ns_calls, ns_flaw>>

PutTest(p) ==
    LET par == fs.den[pr[p].put.of].parent
    IN  PutAt(p, "test") /\ PutGoes(p, CASE par = Unlinked -> "unlinked" [] par = Null -> "free"
                                          [] OTHER -> "lru", fs)
RemoveFromUnlinked(p) ==
    LET d == pr[p].put.of
        par == fs.den[d].parent
        g == [fs EXCEPT !.den[d].parent = Null]
    IN  /\ PutAt(p, "unlinked")
        /\ PutGoes(p, "free", Drain(DropParent(g, par), MaxLru))
PutLru(p) == PutAt(p, "lru") /\ PutGoes(p, "drain", MoveToLru(fs, pr[p].put.of))
PutDrain(p) == PutAt(p, "drain") /\ PutEnds(p, Drain(fs, MaxLru))
PutFree(p) ==
    LET d == pr[p].put.of
        i == fs.den[d].ip
        g == [fs EXCEPT !.den[d].name = NoName, !.den[d].ip = Null]
    IN  /\ PutAt(p, "free")
        /\ IF i = Null THEN PutEnds(p, g)
           ELSE IF g.ino[i].ref > 1 THEN PutEnds(p, InodeDrop(g, i))
           ELSE /\ fs' = InodeDrop(g, i)
                /\ Go(p, [put |-> [pr[p].put EXCEPT !.at = "inode", !.of = i]])
                /\ UNCHANGED <<xlock, ns_calls, ns_split, ns_flaw>>
PutInode(p) ==
    LET i == pr[p].put.of
    IN  PutAt(p, "inode") /\ PutEnds(p, IF fs.ino[i].ref # 0 THEN fs ELSE InodeDelete(fs, i))

(* A dentry is freed that is in the tree, counted, on the LRU list or in a *)
(* put that has counted already; or an inode that such a put looks at.     *)
PutsOf(d) == {p \in NProcs : pr[p].put.at \in {"test", "unlinked", "lru", "free"}
                             /\ pr[p].put.of = d}
InodePutOf(i) == \E p \in NProcs : PutAt(p, "inode") /\ pr[p].put.of = i
Dangling ==
    \/ \E d \in FreeDens(fs) :
            fs.den[d] # NoDen \/ d \in ToSet(fs.lru) \/ PutsOf(d) # {}
    \/ \E i \in Inums : InodePutOf(i) /\ ~fs.ino[i].mem

(* dentry_from_path() starts at the root or at the current directory.      *)
NsStart(p, op, path, to, relative) ==
    LET d == IF relative THEN pr[p].cwd ELSE Root
    IN  /\ pr[p].pc = "idle" /\ PutAt(p, "no") /\ ns_calls + ns_split < MaxCalls
        /\ relative => pr[p].cwd # Root
        /\ op \in {"open", "creat"} => pr[p].file = Null
        /\ ns_calls' = ns_calls + 1
        /\ IF fs.den[d].parent = Unlinked THEN UNCHANGED <<fs, pr>>   \* -ENOENT
           ELSE /\ fs' = DentryGet(fs, d)
                /\ Go(p, [Idle EXCEPT !.pc = "walk", !.op = op, !.rest = path,
                                      !.to = to, !.dp = d])
        /\ UNCHANGED <<xlock, ns_split, ns_flaw>>

Walking(p) == pr[p].pc = "walk" /\ pr[p].rest # << >>
InDir(p) == IsDir(fs, pr[p].dp)
Found(p) == Child(fs, pr[p].dp, Head(pr[p].rest))
(* What the call holds of the first path of link().                        *)
From(p) == IF pr[p].from = Null THEN << >> ELSE <<pr[p].from>>

WalkFail(p) ==      \* -ENOENT, -ENOTDIR
    /\ Walking(p) /\ ~InDir(p)
    /\ Return(p, fs, <<pr[p].dp>> \o From(p))
    /\ UNCHANGED <<xlock, ns_calls, ns_flaw>>

WalkHit(p) ==
    /\ Walking(p) /\ InDir(p)
    /\ \E c \in Found(p) :
        Puts(p, DentryGet(fs, c), <<pr[p].dp>>, [dp |-> c, rest |-> Tail(pr[p].rest)])
    /\ UNCHANGED <<xlock, ns_calls, ns_flaw>>

(* The file system is asked, without tree_lock.                            *)
Lookup(p) ==
    LET n == Head(pr[p].rest)
        es == Entry(fs, fs.den[pr[p].dp].ip, n)
        d == Least(FreeDens(fs))
    IN  /\ Walking(p) /\ InDir(p) /\ Found(p) = {}
        /\ fs.den[pr[p].dp].ip \notin xlock
        /\ FreeDens(fs) # {}
        /\ \E i \in IF es = {} THEN {Null} ELSE {e[3] : e \in es} : fs' = Orphan(fs, d, n, i)
        /\ Go(p, [pc |-> "register", new |-> d])
        /\ UNCHANGED <<xlock, ns_calls, ns_split, ns_flaw>>

(* The directory has changed since Lookup(), and nobody kept a dentry of   *)
(* the name.                                                               *)
Late(p) == {e[3] : e \in Entry(fs, fs.den[pr[p].dp].ip, fs.den[pr[p].new].name)}
            # {fs.den[pr[p].new].ip} \ {Null}

LookupRegister(p) ==
    LET own == pr[p].new
    IN  /\ pr[p].pc = "register"
        /\ \E c \in IF Found(p) = {} THEN {own} ELSE Found(p) :
            /\ Puts(p, IF c = own THEN Register(fs, pr[p].dp, own) ELSE DentryGet(fs, c),
                    IF c = own THEN <<pr[p].dp>> ELSE <<own, pr[p].dp>>,
                    [pc |-> "walk", dp |-> c, new |-> Null, rest |-> Tail(pr[p].rest)])
            /\ ns_flaw' = IF c = own /\ Late(p) /\ ns_flaw = "none"
                           THEN "late lookup" ELSE ns_flaw
        /\ UNCHANGED <<xlock, ns_calls>>

Arrived(p) == pr[p].pc = "walk" /\ pr[p].rest = << >>
Valid(p) == fs.den[pr[p].dp].ip # Null
Op(p) == pr[p].op
ToFile(p) == Op(p) = "link" /\ pr[p].from # Null    \* at the new name

(* What the calls check first.                                             *)
OpenRefused(p) ==       \* -ENOENT, -EACCES
    IF Op(p) = "open" THEN ~Valid(p) ELSE IsDir(fs, pr[p].dp)
MkRefused(p) == Valid(p)                                \* -EEXIST
LinkRefused(p) ==       \* -EEXIST, -ENOENT, -EISDIR
    IF ToFile(p) THEN Valid(p) ELSE ~Valid(p) \/ IsDir(fs, pr[p].dp)
RmRefused(p) ==         \* -ENOENT, -ENOTDIR, -EISDIR
    ~Valid(p) \/ IsDir(fs, pr[p].dp) # (Op(p) = "rmdir")
ChdirRefused(p) == ~IsDir(fs, pr[p].dp)                 \* -ENOENT, -ENOTDIR
Refused(p) ==
    CASE Op(p) \in {"open", "creat"} -> OpenRefused(p)
      [] Op(p) \in {"mkdir", "mknod"} -> MkRefused(p)
      [] Op(p) = "link" -> LinkRefused(p)
      [] Op(p) \in {"unlink", "rmdir"} -> RmRefused(p)
      [] Op(p) = "chdir" -> ChdirRefused(p)

CallRefused(p) ==
    /\ Arrived(p) /\ Refused(p)
    /\ Return(p, fs, <<pr[p].dp>> \o From(p))
    /\ UNCHANGED <<xlock, ns_calls, ns_flaw>>

(* do_open() of a file that exists: the file keeps the reference.          *)
OpenExisting(p) ==
    /\ Arrived(p) /\ Op(p) \in {"open", "creat"} /\ Valid(p) /\ ~Refused(p)
    /\ Go(p, Idle @@ [file |-> pr[p].dp])
    /\ UNCHANGED <<fs, xlock, ns_calls, ns_split, ns_flaw>>

LinkFrom(p) ==
    /\ Arrived(p) /\ Op(p) = "link" /\ ~ToFile(p) /\ ~Refused(p)
    /\ fs' = DentryGet(fs, Root)
    /\ Go(p, [from |-> pr[p].dp, dp |-> Root, rest |-> pr[p].to])
    /\ UNCHANGED <<xlock, ns_calls, ns_split, ns_flaw>>

(* sys_chdir()                                                             *)
Chdir(p) ==
    LET d == IF fs.den[pr[p].dp].parent = Null THEN Root ELSE pr[p].dp
    IN  /\ Arrived(p) /\ Op(p) = "chdir" /\ ~Refused(p)
        /\ Puts(p, DentryGet(fs, d), <<pr[p].cwd, pr[p].dp>>, Idle @@ [cwd |-> d])
        /\ UNCHANGED <<xlock, ns_calls, ns_flaw>>

(* dentry_get(dp->parent), in every call that changes a directory.  The    *)
(* parent of an unlinked file fails the permission check: -ENOENT.         *)
TakeParent(p) ==
    LET par == fs.den[pr[p].dp].parent
    IN  /\ Arrived(p) /\ ~Refused(p)
        /\ Op(p) \in {"creat", "mkdir", "mknod", "unlink", "rmdir"} \/ ToFile(p)
        /\ Op(p) = "creat" => ~Valid(p)
        /\ ns_flaw' = IF par = Null THEN "null parent" ELSE ns_flaw
        /\ IF par = Unlinked THEN Return(p, fs, <<pr[p].dp>> \o From(p))
           ELSE /\ UNCHANGED ns_split
                /\ IF par = Null THEN UNCHANGED <<fs, pr>>
                   ELSE fs' = DentryGet(fs, par) /\ Go(p, [pc |-> "act", par |-> par])
        /\ UNCHANGED <<xlock, ns_calls>>

ParIp(p) == fs.den[pr[p].par].ip
Acting(p, op) == pr[p].pc = "act" /\ Op(p) = op
(* Drop what the call holds; a file that was opened keeps its dentry.      *)
Held(p) == <<pr[p].par, pr[p].dp>> \o From(p)

(* vimixfs_iops_create(), _mknod() and _mkdir(): the dentry gets the inode *)
(* that vimixfs_iops_create_internal() made, with its entry and the link   *)
(* of "..".                                                                *)
AttachInode(f, d, i) == [f EXCEPT !.den[d].ip = i]
NewInode(f, dirip, n, d, isdir) ==
    LET i == Least(FreeInums(f))
        g == [f EXCEPT !.ino = [@ EXCEPT ![i] = [alloc |-> TRUE, dir |-> isdir,
                                                 nlink |-> 1, ref |-> 1, mem |-> TRUE],
                                         ![dirip].nlink = IF isdir THEN @ + 1 ELSE @],
                       !.ents = @ \cup {<<dirip, n, i>>}]
    IN  AttachInode(g, d, i)

(* The dentry has got an inode, or the name an entry, since the checks.    *)
MadeTwice(p) == Valid(p) \/ Entry(fs, ParIp(p), fs.den[pr[p].dp].name) # {}

CreateOpen(p) ==
    /\ Acting(p, "creat") /\ ParIp(p) \notin xlock
    /\ FreeInums(fs) = {} => Valid(p)
    /\ Puts(p, IF Valid(p) THEN fs
               ELSE NewInode(fs, ParIp(p), fs.den[pr[p].dp].name, pr[p].dp, FALSE),
            <<pr[p].par>>, Idle @@ [file |-> pr[p].dp])
    /\ ns_flaw' = IF ~Valid(p) /\ MadeTwice(p) THEN "made twice" ELSE ns_flaw
    /\ UNCHANGED <<xlock, ns_calls>>

(* do_mkdir(), do_mknod(): dp->ip is not tested again under the lock.      *)
Make(p, isdir) ==
    /\ ParIp(p) \notin xlock /\ FreeInums(fs) # {}
    /\ Return(p, NewInode(fs, ParIp(p), fs.den[pr[p].dp].name, pr[p].dp, isdir), Held(p))
    /\ ns_flaw' = IF MadeTwice(p) THEN "made twice" ELSE ns_flaw
    /\ UNCHANGED <<xlock, ns_calls>>
Mkdir(p) == Acting(p, "mkdir") /\ Make(p, TRUE)
Mknod(p) == Acting(p, "mknod") /\ Make(p, FALSE)

(* No inode is free: -EFAULT.                                              *)
MakeNone(p) ==
    /\ pr[p].pc = "act" /\ Op(p) \in {"mkdir", "mknod", "creat"}
    /\ Op(p) = "creat" => ~Valid(p)
    /\ ParIp(p) \notin xlock /\ FreeInums(fs) = {}
    /\ Return(p, fs, Held(p))
    /\ UNCHANGED <<xlock, ns_calls, ns_flaw>>

(* vimixfs_iops_link(): vimixfs_dir_link() refuses a name that is there.   *)
DirLink(f, i, n) == Entry(f, i, n) = {}

Link(p) ==
    LET n == fs.den[pr[p].dp].name
        i == fs.den[pr[p].from].ip
        ok == DirLink(fs, ParIp(p), n)
    IN  /\ Acting(p, "link") /\ {ParIp(p), i} \cap xlock = {}
        /\ Return(p, IF ~ok THEN fs
                     ELSE [fs EXCEPT !.ino[i].nlink = @ + 1, !.ino[i].ref = @ + 1,
                                     !.ents = @ \cup {<<ParIp(p), n, i>>},
                                     !.den[pr[p].dp].ip = i], Held(p))
        /\ ns_flaw' = IF ok /\ Valid(p) THEN "made twice" ELSE ns_flaw
        /\ UNCHANGED <<xlock, ns_calls>>

(* do_rm(): under the exclusive locks the name is switched to a dentry     *)
(* without inode...                                                        *)
RmSwitch(p) ==
    LET file == pr[p].dp
        d == Least(FreeDens(fs))
    IN  /\ pr[p].pc = "act" /\ Op(p) \in {"unlink", "rmdir"}
        /\ {ParIp(p), fs.den[file].ip} \cap xlock = {}
        /\ IF fs.den[file].parent # pr[p].par
           THEN Return(p, fs, Held(p)) /\ UNCHANGED xlock     \* -EACCES
           ELSE /\ FreeDens(fs) # {} /\ UNCHANGED ns_split
                /\ fs' = DentryDrop(Register(Register(Orphan(fs, d, fs.den[file].name, Null),
                                                      Unlinked, file), pr[p].par, d),
                                    pr[p].par)
                /\ Go(p, [pc |-> "rm", new |-> d])
                /\ xlock' = xlock \cup {ParIp(p), fs.den[file].ip}
        /\ UNCHANGED <<ns_calls, ns_flaw>>

DirEmpty(f, i) == \A e \in f.ents : e[1] # i

(* ...then the entry is removed on the disk, or the switch undone.         *)
RmEntry_there(f, e) ==          \* fault: the entry is not overwritten
    InodePut([f EXCEPT !.ino[e[3]].nlink = @ - 1, !.ino[e[3]].ref = @ + 1], e[3])
RmEntry(f, e) ==
    InodePut([f EXCEPT !.ents = @ \ {e}, !.ino[e[3]].nlink = @ - 1,
                       !.ino[e[3]].ref = @ + 1], e[3])
RmAllowed(f, op, i) == IF op = "rmdir" THEN DirEmpty(f, i) ELSE ~f.ino[i].dir

RmDone(p, f) ==
    /\ xlock' = xlock \ {ParIp(p), fs.den[pr[p].dp].ip}
    /\ Return(p, f, <<pr[p].dp, pr[p].par, pr[p].new>>)
    /\ UNCHANGED <<ns_calls, ns_flaw>>

RmDisk(p) ==
    LET file == pr[p].dp
        es == Entry(fs, ParIp(p), fs.den[file].name)
        undone == [fs EXCEPT !.den[pr[p].new].parent = Null,
                             !.den[file].parent = pr[p].par]
        gone == [fs EXCEPT !.den[file].parent = IF fs.den[file].ref = 1 THEN Null ELSE @]
    IN  /\ pr[p].pc = "rm"
        /\ \/ es = {} /\ RmDone(p, undone)                   \* -ENOENT
           \/ \E e \in es : RmDone(p,    \* -ENOTEMPTY, -EISDIR
                 IF RmAllowed(fs, Op(p), e[3]) THEN RmEntry(gone, e) ELSE undone)

(* file_close() of the last reference to a file.                           *)
CloseFile(p) ==
    /\ pr[p].pc = "idle" /\ PutAt(p, "no") /\ pr[p].file # Null
    /\ Puts(p, fs, <<pr[p].file>>, [file |-> Null])
    /\ UNCHANGED <<xlock, ns_calls, ns_flaw>>

(* The sysfs attribute that clears the LRU list.                           *)
ClearLru ==
    /\ fs.lru # << >>
    /\ fs' = Drain(fs, 0)
    /\ UNCHANGED <<pr, xlock, ns_calls, ns_split, ns_flaw>>

PutStep(p) == \/ PutTest(p) \/ RemoveFromUnlinked(p) \/ PutLru(p) \/ PutDrain(p)
              \/ PutFree(p) \/ PutInode(p)

NsStep(p) ==
    \/ WalkFail(p) \/ WalkHit(p) \/ Lookup(p) \/ LookupRegister(p)
    \/ CallRefused(p) \/ OpenExisting(p) \/ LinkFrom(p) \/ Chdir(p) \/ TakeParent(p)
    \/ CreateOpen(p) \/ Mkdir(p) \/ Mknod(p) \/ MakeNone(p) \/ Link(p) \/ RmSwitch(p) \/ RmDisk(p)

NsNext ==
    /\ ns_flaw # "null parent" /\ ~Dangling
    /\ \/ \E p \in NProcs :
            \/ PutStep(p) \/ (PutAt(p, "no") /\ NsStep(p)) \/ CloseFile(p)
            \/ \E op \in NsCalls, path \in NsPaths, relative \in BOOLEAN :
               \E to \in IF op = "link" THEN NsPaths ELSE {<< >>} :
                  NsStart(p, op, path, to, relative)
       \/ ClearLru
-----------------------------------------------------------------------------
Holders(d) ==
    Cardinality({h \in NProcs \X {"dp", "from", "par", "new", "file", "cwd"} : pr[h[1]][h[2]] = d})
    + Cardinality({h \in NProcs \X (1 .. 4) :
                      h[2] \in DOMAIN pr[h[1]].put.rest /\ pr[h[1]].put.rest[h[2]] = d})

(* Types of the records; the indices are those of allocated objects.       *)
NsTypeOK ==
    /\ fs.den \in [AllDens -> [name : NsNames \cup {NoName, "/"},
                               parent : AllDens \cup {Null, Unlinked},
                               ip : Inums \cup {Null}, ref : Nat]]
    /\ fs.lru \in Seq(Dens)
    /\ fs.ino \in [Inums -> [alloc : BOOLEAN, dir : BOOLEAN, nlink : Nat, ref : Nat, mem : BOOLEAN]]
    /\ fs.ents \subseteq Inums \X NsNames \X Inums
    /\ xlock \subseteq Inums

(* dentry_get(), dentry_put() and the eviction: a count is the number of   *)
(* pointers to the dentry.  At zero it is on the LRU list, or on its way   *)
(* there or to its end in a put; while no put is on its way, exactly those *)
(* at zero are there, or were entered by a put that someone overtook.      *)
DentryRefsExact ==
    /\ \A d \in AllDens :
        fs.den[d].ref = Holders(d)
                        + Cardinality({c \in Dens : fs.den[c].parent = d})
                        + (IF d = Root THEN 1 ELSE 0)
    /\ \A d \in Dens : fs.den[d].name # NoName /\ fs.den[d].ref = 0 =>
        d \in ToSet(fs.lru) \/ PutsOf(d) # {}
    /\ ns_split = 0 => \A d \in ToSet(fs.lru) : fs.den[d].ref = 0
    /\ Len(fs.lru) = Cardinality(ToSet(fs.lru))

(* inode_get() and inode_put(): the inode of a dentry stays in memory and  *)
(* allocated on the disk, and leaves memory with the last one.             *)
InodeRefsExact ==
    ns_flaw # "made twice" =>
    \A i \in Inums :
        /\ fs.ino[i].ref = Cardinality({d \in AllDens : fs.den[d].ip = i})
                            + (IF i = 1 THEN 1 ELSE 0)
        /\ fs.ino[i].ref > 0 => fs.ino[i].alloc /\ fs.ino[i].mem
        /\ fs.ino[i].mem => fs.ino[i].ref > 0 \/ InodePutOf(i)

(* dentry_from_path(): two lookups of one name never leave two dentries.   *)
OneDentryPerName ==
    \A d \in AllDens, n \in NsNames : Cardinality(Child(fs, d, n)) <= 1

(* A name in the cache says what the directory on the disk says, except    *)
(* while do_rm() holds the directory, up to the races recorded in ns_flaw  *)
(* and to a dentry that is freed too early.                                *)
CacheAgrees ==
    ns_flaw = "none" /\ ~Dangling =>
    \A d \in Dens :
        LET par == fs.den[d].parent
        IN  par \in AllDens /\ fs.den[par].ip \notin xlock =>
            {e[3] : e \in Entry(fs, fs.den[par].ip, fs.den[d].name)}
                = {fs.den[d].ip} \ {Null}

(* link(), unlink(), rmdir(), the creation and the last put: no entry of a *)
(* directory names a free inode or one whose links are fewer than its      *)
(* entries, and an inode without links is kept only while it is in use.    *)
LinksCover ==
    ns_flaw = "none" =>
    \A i \in Inums :
        LET n == Cardinality({e \in fs.ents : e[3] = i})
        IN  /\ n > 0 => fs.ino[i].alloc
            /\ fs.ino[i].alloc => n <= fs.ino[i].nlink
            /\ fs.ino[i].alloc /\ fs.ino[i].nlink = 0 => fs.ino[i].ref > 0 \/ InodePutOf(i)

(* Directory entries and inodes as a whole.  A pointer outlives its object only  *)
(* when a put was overtaken between its steps; until then references are exact,  *)
(* a name has one entry in the cache, and link counts cover the names on disk.   *)
NamesExact ==
    /\ Dangling => ns_split > 0
    /\ \/ Dangling
       \/ NsTypeOK /\ DentryRefsExact /\ InodeRefsExact /\ OneDentryPerName /\ LinksCover
=============================================================================
