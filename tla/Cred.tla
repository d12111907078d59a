-------------------------------- MODULE Cred --------------------------------
(* User and group ids of processes (syscalls/sys_cred.c, sys_process.c), the *)
(* shared, reference counted lists of supplementary groups (process.h), the  *)
(* permission checks (permission.c) where open(), read(), write(), execv(),  *)
(* chmod() and chown() make them, and execv() of set-user-id programs while  *)
(* other processes change the file.                                          *)
(*                                                                           *)
(* The flags of open() are a set, O_RDONLY (which is 0) the empty one.  The  *)
(* files exist: open() that creates its file is in module Namespace.         *)
EXTENDS Integers, FiniteSets
CONSTANTS CredProcs,    \* slots for processes
          InitProc,     \* the initial user process
          Ids,          \* user and group ids, 0 being the superuser
          Files,        \* inodes
          Modes,        \* values of i_mode in use: sets of <<class, bit>>
          InitMode,     \* mode the files start with
          FlagWords,    \* flag words open() is called with
          Lists,        \* slots for struct group_info
          NoList,       \* NULL
          MaxCredOps    \* bound on the number of calls
VARIABLES cred,         \* process -> ids, groups, open files, call in progress
          grp,          \* group list -> usage and members
          inode,        \* file -> mode, owner and group
          leaked,       \* group lists do_setgroups() lost after EFAULT
          rights,       \* file -> pairs <<set-id mode bit, id>> it has had
          access,       \* the last read or write: the right, and flags and rights at open
          cred_ops
credVars == <<cred, grp, inode, leaked, rights, access, cred_ops>>

OpenFlags == {"O_WRONLY", "O_RDWR", "O_CREAT", "O_TRUNC", "O_APPEND", "O_EXEC"}
O_RDONLY == {}
O_WRONLY == {"O_WRONLY"}

ASSUME CredAssumption == /\ InitProc \in CredProcs /\ 0 \in Ids /\ -1 \notin Ids
                         /\ FlagWords \subseteq SUBSET OpenFlags
                         /\ Lists # {} /\ NoList \notin Lists /\ IsFiniteSet(CredProcs)

S_ISUID == <<"set", "u">>
S_ISGID == <<"set", "g">>

NoCred == [live |-> FALSE, u |-> [r |-> 0, e |-> 0, s |-> 0],
           g |-> [r |-> 0, e |-> 0, s |-> 0], groups |-> NoList, ofile |-> {},
           call |-> [at |-> "no"]]
FreeList == [usage |-> 0, gid |-> {}]
Live == {p \in CredProcs : cred[p].live}
CallsLeft == cred_ops < MaxCredOps /\ cred_ops' = cred_ops + 1
Ready(p) == p \in Live /\ cred[p].call.at = "no"

IS_SUPERUSER(c) == c.u.e = 0

(***************************************************************************)
(* Permissions.                                                            *)
(***************************************************************************)
InGroup(c, gid) == gid = c.g.e \/ gid \in grp[c.groups].gid

Class(c, ip) == IF c.u.e = ip.uid THEN "usr"
                ELSE IF InGroup(c, ip.gid) THEN "grp" ELSE "oth"

PermissionCheckRead(c, ip) == IS_SUPERUSER(c) \/ <<Class(c, ip), "r">> \in ip.mode

PermissionCheckWrite(c, ip) == IS_SUPERUSER(c) \/ <<Class(c, ip), "w">> \in ip.mode

PermissionCheckExecute(c, ip) == <<Class(c, ip), "x">> \in ip.mode

CheckDentryPermission(c, ip, mask) ==
  /\ "r" \in mask => PermissionCheckRead(c, ip)
  /\ mask \cap {"w", "a"} # {} => PermissionCheckWrite(c, ip)
  /\ "x" \in mask => PermissionCheckExecute(c, ip)

\* Only the whole word O_RDONLY asks to read, and O_TRUNC asks for nothing.
PermMaskFromOpenFlags(flags) ==
  UNION {IF flags = O_RDONLY \/ "O_RDWR" \in flags THEN {"r"} ELSE {},
         IF flags \cap {"O_WRONLY", "O_CREAT", "O_RDWR"} # {} THEN {"w"} ELSE {},
         IF "O_APPEND" \in flags THEN {"a"} ELSE {},
         IF "O_EXEC" \in flags THEN {"x"} ELSE {}}

\* Whole flag words are compared: any other combination lets both through.
CheckFilePermission(f, right) == /\ ~(f.flags = O_RDONLY /\ right = "w")
                                 /\ ~(f.flags = O_WRONLY /\ right = "r")

Rights(c, ip) == {r \in {"r", "w"} : CheckDentryPermission(c, ip, {r})}

\* The file is truncated right away.
DoOpen(p, i, flags) ==
  /\ Ready(p) /\ CallsLeft
  /\ CheckDentryPermission(cred[p], inode[i], PermMaskFromOpenFlags(flags))
  /\ LET f == [flags |-> flags, granted |-> Rights(cred[p], inode[i])] IN
       /\ cred' = [cred EXCEPT ![p].ofile = @ \cup {f}]
       /\ access' = IF "O_TRUNC" \in flags THEN [right |-> "w", by |-> f] ELSE access
  /\ UNCHANGED <<grp, inode, leaked, rights>>

\* file_read() and file_write(): only the flags of the open file count.
FileAccess(p, f, right) ==
  /\ Ready(p) /\ CallsLeft /\ CheckFilePermission(f, right)
  /\ access' = [right |-> right, by |-> f]
  /\ UNCHANGED <<cred, grp, inode, leaked, rights>>

(***************************************************************************)
(* Owner and mode of files.                                                *)
(***************************************************************************)
IsFileOwner(c, ip) == IS_SUPERUSER(c) \/ c.u.e = ip.uid

Pairs(ip) == {<<b, IF b = S_ISUID THEN ip.uid ELSE ip.gid>> :
                b \in ip.mode \cap {S_ISUID, S_ISGID}}

Stored(i, ip) == /\ inode' = [inode EXCEPT ![i] = ip]
                 /\ rights' = [rights EXCEPT ![i] = @ \cup Pairs(ip)]

IopsChmod(ip, mode) == [ip EXCEPT !.mode = mode]

\* An id of -1 leaves the owner or the group as it is.
IopsChown(ip, uid, gid) == [ip EXCEPT !.uid = IF uid = -1 THEN @ ELSE uid,
                                      !.gid = IF gid = -1 THEN @ ELSE gid]

\* The owner is checked before the inode is locked.
DoChmod(p, i, mode) ==
  /\ Ready(p) /\ CallsLeft /\ IsFileOwner(cred[p], inode[i])
  /\ cred' = [cred EXCEPT ![p].call = [at |-> "chmod", ip |-> i, mode |-> mode]]
  /\ UNCHANGED <<grp, inode, leaked, rights, access>>

ChmodStore(p) ==
  /\ cred[p].call.at = "chmod"
  /\ LET i == cred[p].call.ip IN Stored(i, IopsChmod(inode[i], cred[p].call.mode))
  /\ cred' = [cred EXCEPT ![p].call = NoCred.call]
  /\ UNCHANGED <<grp, leaked, access, cred_ops>>

DoChown(p, i, uid, gid) ==
  /\ Ready(p) /\ CallsLeft /\ IS_SUPERUSER(cred[p])
  /\ Stored(i, IopsChown(inode[i], uid, gid))
  /\ UNCHANGED <<cred, grp, leaked, access>>

(***************************************************************************)
(* Ids of a process.                                                       *)
(***************************************************************************)
Held(t) == {t.r, t.e, t.s}

\* do_setuid() and do_setgid() differ only in the triple they change.
SetId(c, t, id) ==
  IF IS_SUPERUSER(c) THEN [r |-> id, e |-> id, s |-> id]
  ELSE IF id \in Held(t) THEN [t EXCEPT !.e = id] ELSE t

\* Fault: the saved id is missing in one of the comparisons: any id passes.
SetResIds_unchecked(c, t, r, e, s) ==
  [r |-> IF r = -1 THEN t.r ELSE r, e |-> IF e = -1 THEN t.e ELSE e,
   s |-> IF s = -1 THEN t.s ELSE s]

SetResIds(c, t, r, e, s) ==
  IF ~IS_SUPERUSER(c) /\ ~({r, e, s} \ {-1} \subseteq Held(t)) THEN t
  ELSE [r |-> IF r = -1 THEN t.r ELSE r, e |-> IF e = -1 THEN t.e ELSE e,
        s |-> IF s = -1 THEN t.s ELSE s]

DoSetuid(c, id) == [c EXCEPT !.u = SetId(c, @, id)]
DoSetgid(c, id) == [c EXCEPT !.g = SetId(c, @, id)]
DoSetresuid(c, r, e, s) == [c EXCEPT !.u = SetResIds(c, @, r, e, s)]
DoSetresgid(c, r, e, s) == [c EXCEPT !.g = SetResIds(c, @, r, e, s)]

SetIds(p) ==
  /\ Ready(p) /\ CallsLeft
  /\ \/ \E id \in Ids : cred' = [cred EXCEPT ![p] = DoSetuid(@, id)]
     \/ \E id \in Ids : cred' = [cred EXCEPT ![p] = DoSetgid(@, id)]
     \/ \E r, e, s \in Ids \cup {-1} : cred' = [cred EXCEPT ![p] = DoSetresuid(@, r, e, s)]
     \/ \E r, e, s \in Ids \cup {-1} : cred' = [cred EXCEPT ![p] = DoSetresgid(@, r, e, s)]
  /\ UNCHANGED <<grp, inode, leaked, rights, access>>

(***************************************************************************)
(* Lists of groups, shared by a process and its children.                  *)
(***************************************************************************)
FreeLists == {l \in Lists : grp[l] = FreeList}

GetGroupInfo(l) == [grp EXCEPT ![l].usage = @ + 1]

PutGroupInfo(g, l) ==
  IF g[l].usage = 1 THEN [g EXCEPT ![l] = FreeList] ELSE [g EXCEPT ![l].usage = @ - 1]

GroupsAlloc(l, gids) == [grp EXCEPT ![l] = [usage |-> 1, gid |-> gids]]

\* A failing copy from user space returns without freeing the new list.
DoSetgroups(p, l, gids, copied) ==
  /\ Ready(p) /\ CallsLeft /\ IS_SUPERUSER(cred[p]) /\ gids # {}
  /\ IF ~copied THEN grp' = GroupsAlloc(l, {}) /\ leaked' = leaked \cup {l} /\ UNCHANGED cred
     ELSE /\ grp' = PutGroupInfo(GroupsAlloc(l, gids), cred[p].groups)
          /\ cred' = [cred EXCEPT ![p].groups = l] /\ UNCHANGED leaked
  /\ UNCHANGED <<inode, rights, access>>

DoFork(p, q) == /\ Ready(p) /\ CallsLeft /\ q \notin Live
                /\ cred' = [cred EXCEPT ![q] = cred[p]]
                /\ grp' = GetGroupInfo(cred[p].groups)
                /\ UNCHANGED <<inode, leaked, rights, access>>

\* process_free(), the last put of the process.
ProcessGone(p) == /\ Ready(p) /\ p # InitProc
                  /\ cred' = [cred EXCEPT ![p] = NoCred]
                  /\ grp' = PutGroupInfo(grp, cred[p].groups)
                  /\ UNCHANGED <<inode, leaked, rights, access, cred_ops>>

(***************************************************************************)
(* execv(): the check, the loading under the inode's lock, the commit.     *)
(***************************************************************************)
ExecCheck(p, i) ==
  /\ Ready(p) /\ CallsLeft /\ CheckDentryPermission(cred[p], inode[i], {"x"})
  /\ cred' = [cred EXCEPT ![p].call = [at |-> "lock", ip |-> i, st |-> inode[i]]]
  /\ UNCHANGED <<grp, inode, leaked, rights, access>>

\* Fault: owner and group are read at the check, before the lock.
ExecLoad_stale(p) ==
  /\ cred[p].call.at = "lock"
  /\ cred' = [cred EXCEPT ![p].call =
       [at |-> "commit", ip |-> @.ip,
        new |-> [@.st EXCEPT !.mode = inode[cred[p].call.ip].mode]]]
  /\ UNCHANGED <<grp, inode, leaked, rights, access, cred_ops>>

ExecLoad(p) ==
  /\ cred[p].call.at = "lock"
  /\ cred' = [cred EXCEPT ![p].call =
                [at |-> "commit", ip |-> @.ip, new |-> inode[@.ip]]]
  /\ UNCHANGED <<grp, inode, leaked, rights, access, cred_ops>>

\* Anything that can fail does so before the ids change.
ExecCommit(p, fails) ==
  /\ cred[p].call.at = "commit"
  /\ LET new == cred[p].call.new
         Taken(t, bit, id) == IF ~fails /\ bit \in new.mode
                              THEN [t EXCEPT !.e = id, !.s = id] ELSE t IN
     cred' = [cred EXCEPT ![p].call = NoCred.call,
                          ![p].u = Taken(@, S_ISUID, new.uid),
                          ![p].g = Taken(@, S_ISGID, new.gid)]
  /\ UNCHANGED <<grp, inode, leaked, rights, access, cred_ops>>

(***************************************************************************)
CredInit ==
  /\ grp = [l \in Lists |-> IF l = CHOOSE k \in Lists : TRUE
                            THEN [usage |-> 1, gid |-> {}] ELSE FreeList]
  /\ cred = [p \in CredProcs |-> IF p = InitProc
               THEN [NoCred EXCEPT !.live = TRUE, !.groups = CHOOSE k \in Lists : TRUE]
               ELSE NoCred]
  /\ inode = [i \in Files |-> [mode |-> InitMode, uid |-> 0, gid |-> 0]]
  /\ rights = [i \in Files |-> Pairs(inode[i])]
  /\ leaked = {} /\ cred_ops = 0 /\ access = [right |-> "none", by |-> [flags |-> {}, granted |-> {}]]

CredNext ==
  \E p \in CredProcs :
    \/ \E i \in Files, fl \in FlagWords : DoOpen(p, i, fl)
    \/ \E f \in cred[p].ofile, r \in {"r", "w"} : FileAccess(p, f, r)
    \/ \E i \in Files, md \in Modes : DoChmod(p, i, md)
    \/ ChmodStore(p)
    \/ \E i \in Files, u, g \in Ids \cup {-1} : DoChown(p, i, u, g)
    \/ SetIds(p)
    \/ \E l \in FreeLists, gids \in SUBSET Ids, ok \in BOOLEAN : DoSetgroups(p, l, gids, ok)
    \/ \E q \in CredProcs : DoFork(p, q)
    \/ ProcessGone(p)
    \/ \E i \in Files : ExecCheck(p, i)
    \/ ExecLoad(p)
    \/ \E fails \in BOOLEAN : ExecCommit(p, fails)

CredSpec == CredInit /\ [][CredNext]_credVars

(***************************************************************************)
(* Properties.                                                             *)
(***************************************************************************)

(* The count of a group list is the number of processes that use it, whatever  *)
(* forks, exits and setgroups() calls came before, and a list nobody uses is   *)
(* free, save those do_setgroups() loses when the copy from user space fails.  *)
GroupsCounted ==
  /\ \A p \in Live : cred[p].groups \in Lists /\ grp[cred[p].groups] # FreeList
  /\ \A l \in Lists \ leaked :
       grp[l].usage = Cardinality({p \in Live : cred[p].groups = l})

(* Without the superuser's id a process gains an id only when execv() commits  *)
(* a set-id program: setuid(), setresuid() and their group versions only move  *)
(* ids it holds, in any order of calls.                                        *)
IdsOnlyByExec ==
  [][\A p \in Live : (p \in Live' /\ ~IS_SUPERUSER(cred[p]) /\ cred[p].call.at # "commit")
       => /\ Held(cred[p].u)' \subseteq Held(cred[p].u)
          /\ Held(cred[p].g)' \subseteq Held(cred[p].g)]_credVars

(* The ids execv() is about to take are the owner and group the file had at a  *)
(* moment when it also had the set-id bit: chmod() and chown() of another      *)
(* process between the permission check and the commit cannot mix the two.     *)
ExecIdsConsistent ==
  \A p \in Live : cred[p].call.at = "commit"
     => Pairs(cred[p].call.new) \subseteq rights[cred[p].call.ip]

(* Flag words after which a right was not asked for when the file was opened.  *)
Unasked(flags) ==
  (IF flags \in {O_RDONLY, O_WRONLY} \/ "O_RDWR" \in flags THEN {} ELSE {"r"})
  \cup (IF flags # O_RDONLY /\ flags \subseteq {"O_TRUNC", "O_EXEC"} THEN {"w"} ELSE {})

(* What is read, written or truncated through a descriptor was permitted when  *)
(* the file was opened, also after fork(), chmod(), chown() and changes of     *)
(* ids, but for the words permission.c does not tell apart: O_WRONLY with      *)
(* another flag, O_CREAT or O_APPEND without O_RDWR do not ask for the right   *)
(* to read that the descriptor then gives, and O_TRUNC and O_EXEC alone ask    *)
(* neither to read nor to write.                                               *)
AccessAsOpened == \/ access.right = "none"
                  \/ access.right \in access.by.granted \cup Unasked(access.by.flags)

(* Group lists are counted, execv() takes ids that belong together, and access *)
(* through a descriptor was permitted when it was opened, save for the flag    *)
(* words of open() that do not ask for it.                                     *)
CredSafe == GroupsCounted /\ ExecIdsConsistent /\ AccessAsOpened
=============================================================================
