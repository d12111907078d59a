------------------------------- MODULE Mount -------------------------------
(* mount() and umount() of file systems on one directory (fs/mount.c), with  *)
(* the super blocks of fs/fs.c and the exchange of directory entries of      *)
(* fs/dentry.c, by several processes and with files open below the mount.    *)
(*                                                                           *)
(* mount_wild records a step that crashes the kernel, after which nothing    *)
(* happens: "super", a freed super block is used, as umount() does not look  *)
(* for users of the file system (a TODO in the code); "parent", the entry to *)
(* exchange has left the tree and its parent is NULL, as neither call looks  *)
(* again once it has the lock; "entry", the new entry is NULL.               *)
EXTENDS Integers, Sequences, FiniteSets
CONSTANTS MountProcs,   \* processes
          Dentries,     \* directory entries for roots of file systems
          BaseDentry,   \* the directory of the root file system
          Supers,       \* super blocks
          RootSuper,    \* ROOT_SUPER_BLOCK
          None, MaxMounts
VARIABLES dent,         \* entry -> in the tree, references, its inode's super block,
                        \* mount and references; past counts the umount() calls
          sb,           \* super block -> live, leaked, its root, what it covers
          slot,         \* the entry that the path of the directory leads to
          mp,           \* process -> step, target; raced by another's (u)mount
          mount_wild, mounts
mntVars == <<dent, sb, slot, mp, mount_wild, mounts>>

ASSUME MountAssumption == /\ BaseDentry \notin Dentries /\ RootSuper \notin Supers
                          /\ None \notin Dentries \cup Supers \cup {BaseDentry, RootSuper}

NoDentry == [linked |-> FALSE, ref |-> 0, i_sb |-> None, is_mounted_on |-> None,
             iref |-> 0, past |-> 0]
NoSuper == [live |-> FALSE, leaked |-> FALSE, d_root |-> None, dmounted_on |-> None]
NotMounting == [at |-> "idle", target |-> None, on |-> None, plain |-> FALSE, raced |-> FALSE]
NotWild == [what |-> "no", raced |-> FALSE]
AllDentries == Dentries \cup {BaseDentry}
FreeDentries == {d \in Dentries : dent[d] = NoDentry}
FreeSupers == {s \in Supers : sb[s] = NoSuper}

\* The file system of entry d was unmounted: its super block is freed memory.
Gone(d) == LET s == dent[d].i_sb IN ~sb[s].live \/ sb[s].d_root # d

DentryGet(d, e) == [d EXCEPT ![e].ref = @ + 1]
DentryPut(d, e) == [d EXCEPT ![e].ref = @ - 1]

\* p's call ends, and the calls of others have seen the tree change.
Raced(p) == [q \in MountProcs |->
  IF q = p THEN NotMounting ELSE [mp[q] EXCEPT !.raced = mp[q].at # "idle"]]
Wild(p, what) == mount_wild' = [what |-> what, raced |-> mp[p].raced]

(***************************************************************************)
(* mount(): the target is found, then everything happens under the lock.   *)
(***************************************************************************)
\* `plain` is a directory inside the file system whose root the target is.
ResolveTarget(p, call, plain) ==
  /\ mp[p].at = "idle" /\ mounts < MaxMounts /\ (plain => call = "umount")
  /\ mp' = [mp EXCEPT ![p] = [NotMounting EXCEPT !.at = call, !.target = slot, !.plain = plain]]
  /\ dent' = DentryGet(dent, slot)
  /\ mounts' = mounts + 1
  /\ UNCHANGED <<sb, slot, mount_wild>>

\* dentry_switch_children() on entries d, with the new one n in place of old.
SwitchChildren(d, old, n) == [d EXCEPT ![old].linked = FALSE, ![n].linked = TRUE]

\* Fault: the new root is mounted without the inode's reference.
Covered_noget(d, t, s) == DentryGet([d EXCEPT ![t].is_mounted_on = s], t)

Covered(d, t, s) == DentryGet([d EXCEPT ![t].is_mounted_on = s, ![t].iref = @ + 1], t)

\* sb_alloc_init() with what mount_internal() and iget_root() add.
NewSuper(n, t) == [NoSuper EXCEPT !.live = TRUE, !.d_root = n, !.dmounted_on = t]

\* dentry_alloc_init_orphan(): the inode is also the super block's s_root.
NewRoot(s) == [NoDentry EXCEPT !.ref = 1, !.i_sb = s, !.iref = 2]

\* mount_internal() finds no memory, or init_fs_super_block() fails, after
\* which nobody frees the super block.
MountFails(p) ==
  /\ mp[p].at = "mount"
  /\ sb' \in {sb} \cup {[sb EXCEPT ![s].leaked = TRUE] : s \in FreeSupers}
  /\ dent' = DentryPut(dent, mp[p].target)
  /\ mp' = [mp EXCEPT ![p] = NotMounting]
  /\ UNCHANGED <<slot, mount_wild, mounts>>

\* There is no memory for the new entry, which is used all the same.
MountNoEntry(p) ==
  /\ mp[p].at = "mount" /\ FreeSupers # {}
  /\ Wild(p, "entry")
  /\ UNCHANGED <<dent, sb, slot, mp, mounts>>

MountInternal(p) ==
  LET t == mp[p].target IN
  /\ mp[p].at = "mount"
  /\ IF Gone(t) \/ ~dent[t].linked
     THEN Wild(p, IF Gone(t) THEN "super" ELSE "parent") /\ UNCHANGED <<dent, sb, slot, mp>>
     ELSE \E s \in FreeSupers, n \in FreeDentries :
            /\ sb' = [sb EXCEPT ![s] = NewSuper(n, t)]
            /\ dent' = DentryPut(SwitchChildren([Covered(dent, t, s) EXCEPT ![n] = NewRoot(s)], t, n), t)
            /\ slot' = n
            /\ mp' = Raced(p)
            /\ UNCHANGED mount_wild
  /\ UNCHANGED mounts

(***************************************************************************)
(* umount(): the tests, then umount_internal() under the lock.             *)
(***************************************************************************)
IsMountRoot(t, plain) == ~plain /\ sb[dent[t].i_sb].dmounted_on # None

DoUmount(p) ==
  LET t == mp[p].target
      m == sb[dent[t].i_sb].dmounted_on IN
  /\ mp[p].at = "umount"
  /\ IF Gone(t) THEN Wild(p, "super") /\ UNCHANGED <<dent, mp>>
     ELSE /\ IF IsMountRoot(t, mp[p].plain)
             THEN /\ dent' = DentryGet(dent, m)
                  /\ mp' = [mp EXCEPT ![p].at = "inside", ![p].on = m]
             ELSE /\ dent' = DentryPut(dent, t)
                  /\ mp' = [mp EXCEPT ![p] = NotMounting]
          /\ UNCHANGED mount_wild
  /\ UNCHANGED <<sb, slot, mounts>>

\* umount_internal() and, after it, inode_put() of the directory's inode.
Uncovered(d, m) == [d EXCEPT ![m].is_mounted_on = None, ![m].iref = @ - 1, ![m].past = @ + 1]

\* Entry n takes the place of the root.  The references to the directory that
\* mount() and umount() took, and that of dentry_alloc() to the old root, are
\* never put.
UmountTo(p, n) ==
  LET t == mp[p].target
      m == mp[p].on
      s == dent[t].i_sb IN
  /\ mp[p].at = "inside"
  /\ IF Gone(t) \/ ~dent[t].linked
     THEN Wild(p, IF Gone(t) THEN "super" ELSE "parent") /\ UNCHANGED <<dent, sb, slot, mp>>
     ELSE /\ sb' = [sb EXCEPT ![s] = NoSuper]
          /\ dent' = DentryPut(SwitchChildren(Uncovered(dent, m), t, n), t)
          /\ slot' = n
          /\ mp' = Raced(p)
          /\ UNCHANGED mount_wild
  /\ UNCHANGED mounts

\* Fault: the tree gets the directory of the root file system back.
UmountInternal_bottom(p) == UmountTo(p, BaseDentry)

UmountInternal(p) == UmountTo(p, mp[p].on)

(***************************************************************************)
(* A process opens something below the directory and uses it later.        *)
(***************************************************************************)
OpenBelow(p) == /\ mp[p].at = "idle"
                /\ mp' = [mp EXCEPT ![p] = [NotMounting EXCEPT !.at = "open", !.target = slot]]
                /\ dent' = DentryGet(dent, slot)
                /\ UNCHANGED <<sb, slot, mount_wild, mounts>>

UseBelow(p) == /\ mp[p].at = "open"
               /\ IF Gone(mp[p].target) THEN Wild(p, "super") /\ UNCHANGED <<dent, mp>>
                  ELSE /\ dent' = DentryPut(dent, mp[p].target)
                       /\ mp' = [mp EXCEPT ![p] = NotMounting]
                       /\ UNCHANGED mount_wild
               /\ UNCHANGED <<sb, slot, mounts>>

MntInit ==
  /\ dent = [d \in AllDentries |-> IF d = BaseDentry
               THEN [NoDentry EXCEPT !.linked = TRUE, !.i_sb = RootSuper, !.iref = 1] ELSE NoDentry]
  /\ sb = [s \in Supers \cup {RootSuper} |-> IF s = RootSuper
             THEN [NoSuper EXCEPT !.live = TRUE, !.d_root = BaseDentry] ELSE NoSuper]
  /\ slot = BaseDentry /\ mp = [p \in MountProcs |-> NotMounting]
  /\ mount_wild = NotWild /\ mounts = 0

MntNext ==
  /\ mount_wild = NotWild
  /\ \E p \in MountProcs :
       \/ \E call \in {"mount", "umount"}, plain \in BOOLEAN : ResolveTarget(p, call, plain)
       \/ MountFails(p) \/ MountNoEntry(p) \/ MountInternal(p)
       \/ DoUmount(p) \/ UmountInternal(p)
       \/ OpenBelow(p) \/ UseBelow(p)

MntSpec == MntInit /\ [][MntNext]_mntVars

(***************************************************************************)
(* Properties.                                                             *)
(***************************************************************************)
RECURSIVE Below(_, _)
Below(d, n) == IF d = BaseDentry \/ n = 0 THEN <<d>>
               ELSE <<d>> \o Below(sb[dent[d].i_sb].dmounted_on, n - 1)

\* What the path leads to, and what each mount covers in turn.
MountStack == Below(slot, Cardinality(Dentries))

(* The mounts on a directory are a stack for every interleaving of mount() and *)
(* umount(): a step puts one file system on top or takes the top one off, and  *)
(* the root file system stays at the bottom.                                   *)
MountsAsStack ==
  [][MountStack' = MountStack \/ Tail(MountStack') = MountStack
       \/ MountStack' = Tail(MountStack)]_mntVars

(* The kernel crashes on a freed super block or an entry that left the tree    *)
(* only when another mount() or umount() completed after the process looked up *)
(* its path or opened its file: calls that do not overlap are safe, however    *)
(* many came before.                                                           *)
WildOnlyByRace == mount_wild.what \in {"super", "parent"} => mount_wild.raced

(* A directory says that a file system is mounted on it exactly while that     *)
(* super block lives and names it, and only then its inode has the additional  *)
(* reference that keeps it in memory.                                          *)
MountPointsAgree ==
  \A d \in AllDentries :
    /\ \A s \in Supers : (sb[s].live /\ sb[s].dmounted_on = d) <=> (dent[d].is_mounted_on = s)
    /\ dent[d] # NoDentry =>
         dent[d].iref = (IF d = BaseDentry THEN 1 ELSE 2) + (IF dent[d].is_mounted_on # None THEN 1 ELSE 0)

(* The references to an entry are those of the calls and files that use it and *)
(* of the super block that covers it, the one a root got when it was           *)
(* allocated, and two more for every umount() that uncovered it: do_umount()   *)
(* puts neither the one mount() took nor its own, it puts the inode once more. *)
(* So an entry that is out of the tree is never freed while something needs it.*)
EntryReferences ==
  \A d \in AllDentries : dent[d] # NoDentry =>
    /\ dent[d].ref = Cardinality({p \in MountProcs : mp[p].at # "idle" /\ mp[p].target = d})
                     + Cardinality({p \in MountProcs : mp[p].at = "inside" /\ mp[p].on = d})
                     + Cardinality({s \in Supers : sb[s].live /\ sb[s].dmounted_on = d})
                     + (IF d = BaseDentry THEN 0 ELSE 1) + 2 * dent[d].past
    /\ dent[d].linked \/ dent[d].ref > 0

(* The root file system cannot be unmounted, and the directory always leads to *)
(* the root of a live file system that is linked into the tree.                *)
PathLeadsToLive ==
  slot \in AllDentries /\ dent[slot].linked /\ ~Gone(slot) /\ sb[RootSuper].live
=============================================================================
