----------------------------- MODULE CredProofs -----------------------------
(***************************************************************************)
(* Proofs about module Cred, for any processes, ids, files, modes and      *)
(* group lists.                                                            *)
(***************************************************************************)
EXTENDS Cred, FiniteSetTheorems, TLAPS

Triples == [r : Ids, e : Ids, s : Ids]
Inodes == [mode : Modes \cup {InitMode}, uid : Ids, gid : Ids]
OpenFiles == [flags : SUBSET OpenFlags, granted : SUBSET {"r", "w"}]
Checked == {[at |-> "lock", ip |-> i, st |-> x] : i \in Files, x \in Inodes}
Loaded == {[at |-> "commit", ip |-> i, new |-> x] : i \in Files, x \in Inodes}
Chmods == {[at |-> "chmod", ip |-> i, mode |-> md] : i \in Files, md \in Modes}
Calls == {[at |-> "no"]} \cup Checked \cup Loaded \cup Chmods

Shape(c) == c = [live |-> c.live, u |-> c.u, g |-> c.g, groups |-> c.groups,
                 ofile |-> c.ofile, call |-> c.call]
CredOK(c) ==
    /\ Shape(c)
    /\ c.u \in Triples /\ c.g \in Triples
    /\ c.ofile \subseteq OpenFiles /\ c.call \in Calls

CredsOK == cred = [p \in CredProcs |-> cred[p]] /\ \A p \in CredProcs : CredOK(cred[p])
FilesOK == /\ inode \in [Files -> Inodes]
           /\ rights = [i \in Files |-> rights[i]]
ListsOK == grp \in [Lists -> [usage : Nat, gid : SUBSET Ids]] /\ leaked \subseteq Lists

Users(l) == {p \in Live : cred[p].groups = l}

(* A list is counted once for each process that uses it; one that was lost *)
(* is never used again.                                                    *)
GroupInv ==
    /\ \A p \in Live : cred[p].groups \in Lists \ leaked
    /\ \A l \in Lists \ leaked : grp[l].usage = Cardinality(Users(l))
    /\ \A l \in Lists : grp[l].usage = 0 => grp[l] = FreeList
    /\ \A l \in leaked : grp[l].usage # 0

(* A file's rights have been noted, and an execv() that has loaded the     *)
(* file took its ids from it.                                              *)
RightsInv ==
    /\ \A i \in Files : Pairs(inode[i]) \subseteq rights[i]
    /\ \A p \in CredProcs : cred[p].call.at = "commit"
            => Pairs(cred[p].call.new) \subseteq rights[cred[p].call.ip]

(* What the flags of an open file let through, and the truncation done by  *)
(* open(), was granted, unless the flags did not ask for it.               *)
Justified(f) ==
    /\ \A r \in {"r", "w"} : CheckFilePermission(f, r) => r \in f.granted \cup Unasked(f.flags)
    /\ "O_TRUNC" \in f.flags => "w" \in f.granted \cup Unasked(f.flags)
OpenedInv ==
    /\ \A p \in CredProcs : \A f \in cred[p].ofile : Justified(f)
    /\ AccessAsOpened

CredInv == CredsOK /\ FilesOK /\ ListsOK /\ GroupInv /\ RightsInv /\ OpenedInv

-----------------------------------------------------------------------------
(* What an assignment to one member of struct process leaves alone.        *)
LEMMA SetOfile ==
    ASSUME NEW c, Shape(c), NEW x, NEW d, d = [c EXCEPT !.ofile = x]
    PROVE  Shape(d) /\ d.live = c.live /\ d.u = c.u /\ d.g = c.g /\ d.groups = c.groups /\ d.ofile = x /\ d.call = c.call
  BY Zenon DEF Shape

LEMMA SetExec ==
    ASSUME NEW c, Shape(c), NEW x, NEW d, d = [c EXCEPT !.call = x]
    PROVE  Shape(d) /\ d.live = c.live /\ d.u = c.u /\ d.g = c.g /\ d.groups = c.groups /\ d.ofile = c.ofile /\ d.call = x
  BY Zenon DEF Shape

LEMMA SetGroups ==
    ASSUME NEW c, Shape(c), NEW x, NEW d, d = [c EXCEPT !.groups = x]
    PROVE  Shape(d) /\ d.live = c.live /\ d.u = c.u /\ d.g = c.g /\ d.groups = x /\ d.ofile = c.ofile /\ d.call = c.call
  BY Zenon DEF Shape

LEMMA SetU ==
    ASSUME NEW c, Shape(c), NEW x, NEW d, d = [c EXCEPT !.u = x]
    PROVE  Shape(d) /\ d.live = c.live /\ d.u = x /\ d.g = c.g /\ d.groups = c.groups /\ d.ofile = c.ofile /\ d.call = c.call
  BY Zenon DEF Shape

LEMMA SetG ==
    ASSUME NEW c, Shape(c), NEW x, NEW d, d = [c EXCEPT !.g = x]
    PROVE  Shape(d) /\ d.live = c.live /\ d.u = c.u /\ d.g = x /\ d.groups = c.groups /\ d.ofile = c.ofile /\ d.call = c.call
  BY Zenon DEF Shape

ExecIds(c, x, y, z) == [c EXCEPT !.call = x, !.u = y, !.g = z]
Born(c, k) == [c EXCEPT !.live = TRUE, !.groups = k]

LEMMA NoCredIs ==
    /\ CredOK(NoCred) /\ NoCred.live = FALSE /\ NoCred.ofile = {}
    /\ NoCred.call = [at |-> "no"] /\ NoCred.call.at # "commit"
<1>1. /\ Shape(NoCred) /\ NoCred.live = FALSE /\ NoCred.ofile = {} /\ NoCred.call = [at |-> "no"]
      /\ NoCred.u = [r |-> 0, e |-> 0, s |-> 0] /\ NoCred.g = [r |-> 0, e |-> 0, s |-> 0]
  BY Zenon DEF NoCred, Shape
<1>2. [r |-> 0, e |-> 0, s |-> 0] \in Triples
  BY CredAssumption, Zenon DEF Triples
<1>3. [at |-> "no"] \in Calls
  BY Zenon DEF Calls
<1>4. NoCred.call.at # "commit"
  BY <1>1
<1> QED
  BY <1>1, <1>2, <1>3, <1>4, Zenon DEF CredOK

LEMMA CallsAre ==
    ASSUME NEW e \in Calls
    PROVE  /\ e.at = "lock" => e.ip \in Files
           /\ e.at = "commit" => e.ip \in Files /\ e.new \in Inodes
           /\ e.at = "chmod" => e.ip \in Files /\ e.mode \in Modes
<1>1. CASE e = [at |-> "no"]
  BY <1>1, Zenon
<1>2. CASE e \in Checked
  <2>1. PICK i \in Files, x \in Inodes : e = [at |-> "lock", ip |-> i, st |-> x]
    BY <1>2 DEF Checked
  <2> QED
    BY <2>1, Zenon
<1>3. CASE e \in Loaded
  <2>1. PICK i \in Files, x \in Inodes : e = [at |-> "commit", ip |-> i, new |-> x]
    BY <1>3 DEF Loaded
  <2> QED
    BY <2>1, Zenon
<1>4. CASE e \in Chmods
  <2>1. PICK i \in Files, md \in Modes : e = [at |-> "chmod", ip |-> i, mode |-> md]
    BY <1>4 DEF Chmods
  <2> QED
    BY <2>1, Zenon
<1> QED
  BY <1>1, <1>2, <1>3, <1>4, Zenon DEF Calls

(* Only process p's members change.                                        *)
Only(p) == cred' = [q \in CredProcs |-> cred'[q]] /\ \A q \in CredProcs : q # p => cred'[q] = cred[q]

LEMMA OnlyOne ==
    ASSUME CredsOK, NEW p \in CredProcs, NEW c, cred' = [cred EXCEPT ![p] = c]
    PROVE  Only(p) /\ cred'[p] = c
  BY Zenon DEF Only, CredsOK

LEMMA CredsStay ==
    ASSUME CredsOK, NEW p \in CredProcs, Only(p), CredOK(cred'[p])
    PROVE  CredsOK'
  BY Zenon DEF Only, CredsOK

(* Steps that change no ids.                                               *)
SameIds(p) == cred'[p].u = cred[p].u /\ cred'[p].g = cred[p].g

(* Who uses which group list stays.                                        *)
SameGroups(p) == cred'[p].live = cred[p].live /\ cred'[p].groups = cred[p].groups

LEMMA SameGroupsKeep ==
    ASSUME GroupInv, NEW p \in CredProcs, Only(p), SameGroups(p), UNCHANGED <<grp, leaked>>
    PROVE  GroupInv'
<1>1. \A q \in CredProcs : cred'[q].live = cred[q].live /\ cred'[q].groups = cred[q].groups
  BY Zenon DEF Only, SameGroups
<1>2. Live' = Live /\ \A l \in Lists : Users(l)' = Users(l)
  BY <1>1, Zenon DEF Live, Users
<1> QED
  BY <1>1, <1>2, Zenon DEF GroupInv, Live

LEMMA CredUnchanged ==
    ASSUME GroupInv, UNCHANGED <<cred, grp, leaked>>
    PROVE  GroupInv'
<1>1. Live' = Live /\ \A l \in Lists : Users(l)' = Users(l)
  BY Zenon DEF Live, Users
<1> QED
  BY <1>1, Zenon DEF GroupInv, Live

(* The files and the execv() calls stay.                                   *)
LEMMA SameExecKeeps ==
    ASSUME RightsInv, NEW p \in CredProcs, Only(p), UNCHANGED <<inode, rights>>,
           cred'[p].call.at # "commit" \/ cred'[p].call = cred[p].call
    PROVE  RightsInv'
  BY Zenon DEF RightsInv, Only

LEMMA SameOfileKeeps ==
    ASSUME OpenedInv, NEW p \in CredProcs, Only(p), UNCHANGED access,
           cred'[p].ofile = cred[p].ofile \/ cred'[p].ofile = {}
    PROVE  OpenedInv'
  BY Zenon DEF OpenedInv, Only, AccessAsOpened
-----------------------------------------------------------------------------
(* What open() checks covers what its flags let through later.             *)
LEMMA OpenGrants ==
    ASSUME NEW fl \in SUBSET OpenFlags, NEW G, NEW f, f.flags = fl, f.granted = G,
           "r" \in PermMaskFromOpenFlags(fl) => "r" \in G,
           PermMaskFromOpenFlags(fl) \cap {"w", "a"} # {} => "w" \in G
    PROVE  Justified(f)
<1>1. (fl = O_RDONLY \/ "O_RDWR" \in fl) => "r" \in G
  BY Zenon DEF PermMaskFromOpenFlags
<1>2. fl \cap {"O_WRONLY", "O_CREAT", "O_RDWR"} # {} => "w" \in G
  BY Zenon DEF PermMaskFromOpenFlags
<1>3. "O_APPEND" \in fl => "w" \in G
  BY Zenon DEF PermMaskFromOpenFlags
<1>4. CheckFilePermission(f, "r") => "r" \in G \cup Unasked(fl)
  BY <1>1, Zenon DEF CheckFilePermission, Unasked
<1>5. fl # O_RDONLY => "w" \in G \cup Unasked(fl)
  BY <1>2, <1>3, Zenon DEF Unasked, OpenFlags
<1>6. CheckFilePermission(f, "w") => "w" \in G \cup Unasked(fl)
  BY <1>5, Zenon DEF CheckFilePermission
<1>7. "O_TRUNC" \in fl => fl # O_RDONLY
  BY Zenon DEF O_RDONLY
<1> QED
  BY <1>4, <1>5, <1>6, <1>7, Zenon DEF Justified

LEMMA OpenStep ==
    ASSUME CredInv, NEW p \in CredProcs, NEW i \in Files, NEW fl \in FlagWords, DoOpen(p, i, fl)
    PROVE  CredInv' /\ Only(p) /\ SameIds(p)
<1> DEFINE f == [flags |-> fl, granted |-> Rights(cred[p], inode[i])]
<1>1. CredsOK /\ FilesOK /\ ListsOK /\ GroupInv /\ RightsInv /\ OpenedInv /\ CredOK(cred[p])
  BY Zenon DEF CredInv, CredsOK
<1>2. /\ cred' = [cred EXCEPT ![p] = [cred[p] EXCEPT !.ofile = cred[p].ofile \cup {f}]]
      /\ access' = IF "O_TRUNC" \in fl THEN [right |-> "w", by |-> f] ELSE access
  BY Zenon DEF DoOpen
<1>3. UNCHANGED <<grp, inode, leaked, rights>>
  BY Zenon DEF DoOpen
<1>4. f.flags = fl /\ f.granted = Rights(cred[p], inode[i]) /\ f \in OpenFiles /\ fl \in SUBSET OpenFlags
  BY CredAssumption, Zenon DEF OpenFiles, Rights
<1>5. CheckDentryPermission(cred[p], inode[i], PermMaskFromOpenFlags(fl))
  BY Zenon DEF DoOpen
<1>6. /\ "r" \in PermMaskFromOpenFlags(fl) => "r" \in Rights(cred[p], inode[i])
      /\ PermMaskFromOpenFlags(fl) \cap {"w", "a"} # {} => "w" \in Rights(cred[p], inode[i])
  BY <1>5, Zenon DEF Rights, CheckDentryPermission
<1> HIDE DEF f
<1>7. Justified(f)
  BY <1>4, <1>6, OpenGrants, Zenon
<1>8. Only(p) /\ cred'[p] = [cred[p] EXCEPT !.ofile = cred[p].ofile \cup {f}]
  BY <1>1, <1>2, OnlyOne, Zenon
<1>9. /\ Shape(cred'[p]) /\ SameGroups(p) /\ SameIds(p) /\ cred'[p].call = cred[p].call
      /\ cred'[p].ofile = cred[p].ofile \cup {f}
  BY <1>1, <1>8, SetOfile DEF CredOK, SameGroups, SameIds
<1>10. CredOK(cred'[p])
  BY <1>1, <1>4, <1>9, Zenon DEF CredOK, SameIds
<1>11. AccessAsOpened'
  <2>1. CASE "O_TRUNC" \in fl
    <3>1. access'.right = "w" /\ access'.by = f
      BY <1>2, <2>1, Zenon
    <3>2. "w" \in f.granted \cup Unasked(f.flags)
      BY <1>4, <1>7, <2>1, Zenon DEF Justified
    <3> QED
      BY <3>1, <3>2, Zenon DEF AccessAsOpened
  <2>2. CASE "O_TRUNC" \notin fl
    BY <1>1, <1>2, <2>2, Zenon DEF OpenedInv, AccessAsOpened
  <2> QED
    BY <2>1, <2>2, Zenon
<1>12. OpenedInv'
  BY <1>1, <1>7, <1>8, <1>9, <1>11, Zenon DEF OpenedInv, Only
<1>13. CredsOK' /\ GroupInv' /\ RightsInv'
  BY <1>1, <1>3, <1>8, <1>9, <1>10, CredsStay, SameGroupsKeep, SameExecKeeps, Zenon
<1>14. FilesOK' /\ ListsOK'
  BY <1>1, <1>3, Zenon DEF FilesOK, ListsOK
<1> QED
  BY <1>8, <1>9, <1>12, <1>13, <1>14, Zenon DEF CredInv

LEMMA AccessStep ==
    ASSUME CredInv, NEW p \in CredProcs, NEW f \in cred[p].ofile, NEW r \in {"r", "w"}, FileAccess(p, f, r)
    PROVE  CredInv' /\ cred' = cred
<1>1. CredsOK /\ FilesOK /\ ListsOK /\ GroupInv /\ RightsInv /\ OpenedInv
  BY Zenon DEF CredInv
<1>2. UNCHANGED <<cred, grp, inode, leaked, rights>> /\ access' = [right |-> r, by |-> f]
  BY Zenon DEF FileAccess
<1>3. r \in f.granted \cup Unasked(f.flags)
  BY <1>1, Zenon DEF FileAccess, OpenedInv, Justified
<1>4. access'.right = r /\ access'.by = f
  BY <1>2, Zenon
<1>5. AccessAsOpened'
  BY <1>3, <1>4, Zenon DEF AccessAsOpened
<1>6. CredsOK' /\ FilesOK' /\ ListsOK' /\ RightsInv' /\ OpenedInv'
  BY <1>1, <1>2, <1>5, Zenon DEF CredsOK, FilesOK, ListsOK, RightsInv, OpenedInv
<1>7. GroupInv'
  BY <1>1, <1>2, CredUnchanged, Zenon
<1> QED
  BY <1>2, <1>6, <1>7, Zenon DEF CredInv

(* chmod() and chown() store an inode.                                     *)
LEMMA StoreStep ==
    ASSUME CredInv, NEW i \in Files, NEW x \in Inodes, Stored(i, x), UNCHANGED <<grp, leaked, access>>,
           NEW p \in CredProcs, Only(p), SameGroups(p), CredOK(cred'[p]), cred'[p].ofile = cred[p].ofile,
           cred'[p].call.at # "commit" \/ cred'[p].call = cred[p].call
    PROVE  CredInv'
<1>1. CredsOK /\ FilesOK /\ ListsOK /\ GroupInv /\ RightsInv /\ OpenedInv
  BY Zenon DEF CredInv
<1>2. inode' = [inode EXCEPT ![i] = x] /\ rights' = [rights EXCEPT ![i] = rights[i] \cup Pairs(x)]
  BY Zenon DEF Stored
<1>3. inode'[i] = x /\ \A j \in Files : j # i => inode'[j] = inode[j]
  BY <1>1, <1>2, Zenon DEF FilesOK
<1>4. rights'[i] = rights[i] \cup Pairs(x) /\ \A j \in Files : rights[j] \subseteq rights'[j]
  BY <1>1, <1>2, Zenon DEF FilesOK
<1>5. FilesOK'
  BY <1>1, <1>2, Zenon DEF FilesOK
<1>6. \A j \in Files : Pairs(inode'[j]) \subseteq rights'[j]
  BY <1>1, <1>3, <1>4, Zenon DEF RightsInv
<1>7. ASSUME NEW q \in CredProcs, cred'[q].call.at = "commit"
      PROVE  Pairs(cred'[q].call.new) \subseteq rights'[cred'[q].call.ip]
  <2>1. cred'[q].call = cred[q].call
    BY <1>7, Zenon DEF Only
  <2>2. cred[q].call.ip \in Files
    BY <1>1, <1>7, <2>1, CallsAre, Zenon DEF CredsOK, CredOK
  <2> QED
    BY <1>1, <1>4, <1>7, <2>1, <2>2, Zenon DEF RightsInv
<1>8. RightsInv'
  BY <1>6, <1>7, Zenon DEF RightsInv
<1>9. CredsOK' /\ OpenedInv' /\ GroupInv'
  BY <1>1, CredsStay, SameOfileKeeps, SameGroupsKeep, Zenon
<1>10. ListsOK'
  BY <1>1, Zenon DEF ListsOK
<1> QED
  BY <1>5, <1>8, <1>9, <1>10, Zenon DEF CredInv

LEMMA ChmodStoreStep ==
    ASSUME CredInv, NEW p \in CredProcs, ChmodStore(p)
    PROVE  CredInv' /\ Only(p) /\ SameIds(p)
<1>1. CredsOK /\ CredOK(cred[p]) /\ cred[p].call.at = "chmod" /\ inode \in [Files -> Inodes]
  BY Zenon DEF CredInv, CredsOK, FilesOK, ChmodStore
<1>2. PICK i, md : i = cred[p].call.ip /\ md = cred[p].call.mode
  OBVIOUS
<1>3. i \in Files /\ md \in Modes
  BY <1>1, <1>2, CallsAre, Zenon DEF CredOK
<1>4. /\ Stored(i, IopsChmod(inode[i], md)) /\ UNCHANGED <<grp, leaked, access>>
      /\ cred' = [cred EXCEPT ![p] = [cred[p] EXCEPT !.call = NoCred.call]]
  BY <1>2, Zenon DEF ChmodStore
<1>5. IopsChmod(inode[i], md) \in Inodes
  BY <1>1, <1>3, Zenon DEF IopsChmod, Inodes
<1>6. Only(p) /\ cred'[p] = [cred[p] EXCEPT !.call = NoCred.call]
  BY <1>1, <1>4, OnlyOne, Zenon
<1>7. Shape(cred'[p]) /\ SameGroups(p) /\ SameIds(p) /\ cred'[p].call = NoCred.call /\ cred'[p].ofile = cred[p].ofile
  BY <1>1, <1>6, SetExec DEF CredOK, SameGroups, SameIds
<1>8. cred'[p].call.at # "commit" /\ cred'[p].call \in Calls
  BY <1>7, NoCredIs, Zenon DEF Calls
<1>9. CredOK(cred'[p])
  BY <1>1, <1>7, <1>8, Zenon DEF CredOK, SameIds
<1> QED
  BY <1>3, <1>4, <1>5, <1>6, <1>7, <1>8, <1>9, StoreStep, Zenon

LEMMA ChownStep ==
    ASSUME CredInv, NEW p \in CredProcs, NEW i \in Files, NEW u \in Ids \cup {-1}, NEW g \in Ids \cup {-1},
           DoChown(p, i, u, g)
    PROVE  CredInv' /\ cred' = cred
<1>1. inode[i] \in Inodes
  BY Zenon DEF CredInv, FilesOK
<1>2. IopsChown(inode[i], u, g) \in Inodes
  BY <1>1, Zenon DEF IopsChown, Inodes
<1>3. Stored(i, IopsChown(inode[i], u, g)) /\ UNCHANGED <<cred, grp, leaked, access>> /\ CredsOK
  BY Zenon DEF DoChown, CredInv
<1>4. Only(p) /\ SameGroups(p) /\ CredOK(cred'[p]) /\ cred'[p].ofile = cred[p].ofile /\ cred'[p].call = cred[p].call
  BY <1>3, Zenon DEF Only, SameGroups, CredsOK
<1> QED
  BY <1>2, <1>3, <1>4, StoreStep, Zenon
-----------------------------------------------------------------------------
(* Without the superuser's id the system calls only move ids around.       *)
LEMMA SetIdKeeps ==
    ASSUME NEW c, NEW t \in Triples, NEW id \in Ids
    PROVE  SetId(c, t, id) \in Triples /\ (~IS_SUPERUSER(c) => Held(SetId(c, t, id)) \subseteq Held(t))
  BY Zenon DEF SetId, Triples, Held

LEMMA SetResIdsKeeps ==
    ASSUME NEW c, NEW t \in Triples, NEW r \in Ids \cup {-1}, NEW e \in Ids \cup {-1}, NEW s \in Ids \cup {-1}
    PROVE  /\ SetResIds(c, t, r, e, s) \in Triples
           /\ ~IS_SUPERUSER(c) => Held(SetResIds(c, t, r, e, s)) \subseteq Held(t)
<1>1. SetResIds(c, t, r, e, s) \in Triples
  BY Zenon DEF SetResIds, Triples
<1>2. ASSUME ~IS_SUPERUSER(c), {r, e, s} \ {-1} \subseteq Held(t)
      PROVE Held(SetResIds(c, t, r, e, s)) \subseteq Held(t)
  <2>1. (r # -1 => r \in Held(t)) /\ (e # -1 => e \in Held(t)) /\ (s # -1 => s \in Held(t))
    BY <1>2, Zenon
  <2> QED
    BY <2>1 DEF SetResIds, Held
<1>3. ASSUME ~IS_SUPERUSER(c), ~({r, e, s} \ {-1} \subseteq Held(t))
      PROVE SetResIds(c, t, r, e, s) = t
  BY <1>3, Zenon DEF SetResIds
<1> QED
  BY <1>1, <1>2, <1>3, Zenon

MovesIds(p) ==
    ~IS_SUPERUSER(cred[p]) => /\ Held(cred'[p].u) \subseteq Held(cred[p].u)
                              /\ Held(cred'[p].g) \subseteq Held(cred[p].g)

LEMMA SetIdsStep ==
    ASSUME CredInv, NEW p \in CredProcs, SetIds(p)
    PROVE  CredInv' /\ Only(p) /\ MovesIds(p)
<1> DEFINE c == cred[p]
<1>1. CredsOK /\ FilesOK /\ ListsOK /\ GroupInv /\ RightsInv /\ OpenedInv /\ CredOK(c) /\ Shape(c)
  BY Zenon DEF CredInv, CredsOK, CredOK
<1>2. UNCHANGED <<grp, inode, leaked, rights, access>>
  BY Zenon DEF SetIds
<1>3. PICK t \in Triples : /\ ~IS_SUPERUSER(c) => Held(t) \subseteq Held(c.u) \/ Held(t) \subseteq Held(c.g)
                           /\ \/ /\ cred' = [cred EXCEPT ![p] = [c EXCEPT !.u = t]]
                                 /\ ~IS_SUPERUSER(c) => Held(t) \subseteq Held(c.u)
                              \/ /\ cred' = [cred EXCEPT ![p] = [c EXCEPT !.g = t]]
                                 /\ ~IS_SUPERUSER(c) => Held(t) \subseteq Held(c.g)
  <2>1. c.u \in Triples /\ c.g \in Triples
    BY <1>1, Zenon DEF CredOK
  <2>2. CASE \E id \in Ids : cred' = [cred EXCEPT ![p] = DoSetuid(c, id)]
    <3>1. PICK id \in Ids : cred' = [cred EXCEPT ![p] = [c EXCEPT !.u = SetId(c, c.u, id)]]
      BY <2>2, Zenon DEF DoSetuid
    <3> QED
      BY <2>1, <3>1, SetIdKeeps, Zenon
  <2>3. CASE \E id \in Ids : cred' = [cred EXCEPT ![p] = DoSetgid(c, id)]
    <3>1. PICK id \in Ids : cred' = [cred EXCEPT ![p] = [c EXCEPT !.g = SetId(c, c.g, id)]]
      BY <2>3, Zenon DEF DoSetgid
    <3> QED
      BY <2>1, <3>1, SetIdKeeps, Zenon
  <2>4. CASE \E r, e, s \in Ids \cup {-1} : cred' = [cred EXCEPT ![p] = DoSetresuid(c, r, e, s)]
    <3>1. PICK r, e, s \in Ids \cup {-1} : cred' = [cred EXCEPT ![p] = [c EXCEPT !.u = SetResIds(c, c.u, r, e, s)]]
      BY <2>4, Zenon DEF DoSetresuid
    <3> QED
      BY <2>1, <3>1, SetResIdsKeeps, Zenon
  <2>5. CASE \E r, e, s \in Ids \cup {-1} : cred' = [cred EXCEPT ![p] = DoSetresgid(c, r, e, s)]
    <3>1. PICK r, e, s \in Ids \cup {-1} : cred' = [cred EXCEPT ![p] = [c EXCEPT !.g = SetResIds(c, c.g, r, e, s)]]
      BY <2>5, Zenon DEF DoSetresgid
    <3> QED
      BY <2>1, <3>1, SetResIdsKeeps, ZenonT(30)
  <2> QED
    BY <2>2, <2>3, <2>4, <2>5, ZenonT(30) DEF SetIds
<1>4. Only(p) /\ (cred'[p] = [c EXCEPT !.u = t] \/ cred'[p] = [c EXCEPT !.g = t])
  BY <1>1, <1>3, OnlyOne, Zenon
<1>5. /\ Shape(cred'[p]) /\ SameGroups(p) /\ cred'[p].call = c.call /\ cred'[p].ofile = c.ofile
      /\ \/ cred'[p].u = t /\ cred'[p].g = c.g
         \/ cred'[p].g = t /\ cred'[p].u = c.u
  <2>1. CASE cred'[p] = [c EXCEPT !.u = t]
    BY <1>1, <2>1, SetU DEF SameGroups
  <2>2. CASE cred'[p] = [c EXCEPT !.g = t]
    BY <1>1, <2>2, SetG DEF SameGroups
  <2> QED
    BY <1>4, <2>1, <2>2, Zenon
<1>6. CredOK(cred'[p])
  BY <1>1, <1>3, <1>5, Zenon DEF CredOK
<1>7. CredsOK' /\ GroupInv' /\ RightsInv' /\ OpenedInv'
  BY <1>1, <1>2, <1>4, <1>5, <1>6, CredsStay, SameGroupsKeep, SameExecKeeps, SameOfileKeeps, Zenon
<1>8. FilesOK' /\ ListsOK'
  BY <1>1, <1>2, Zenon DEF FilesOK, ListsOK
<1>9. MovesIds(p)
  <2>1. CASE cred' = [cred EXCEPT ![p] = [c EXCEPT !.u = t]] /\ (~IS_SUPERUSER(c) => Held(t) \subseteq Held(c.u))
    <3>1. cred'[p] = [c EXCEPT !.u = t]
      BY <1>1, <2>1, OnlyOne, Zenon
    <3>2. cred'[p].u = t /\ cred'[p].g = c.g
      BY <1>1, <3>1, SetU
    <3> QED
      BY <2>1, <3>2, Zenon DEF MovesIds
  <2>2. CASE cred' = [cred EXCEPT ![p] = [c EXCEPT !.g = t]] /\ (~IS_SUPERUSER(c) => Held(t) \subseteq Held(c.g))
    <3>1. cred'[p] = [c EXCEPT !.g = t]
      BY <1>1, <2>2, OnlyOne, Zenon
    <3>2. cred'[p].g = t /\ cred'[p].u = c.u
      BY <1>1, <3>1, SetG
    <3> QED
      BY <2>2, <3>2, Zenon DEF MovesIds
  <2> QED
    BY <1>3, <2>1, <2>2, Zenon
<1> QED
  BY <1>4, <1>7, <1>8, <1>9, Zenon DEF CredInv
-----------------------------------------------------------------------------
(* The counts of the group lists.                                          *)
Groups == [Lists -> [usage : Nat, gid : SUBSET Ids]]

LEMMA UsersAreFinite ==
    ASSUME NEW l
    PROVE  IsFiniteSet(Users(l)) /\ Cardinality(Users(l)) \in Nat
<1>1. Users(l) \subseteq CredProcs
  BY Zenon DEF Users, Live
<1> QED
  BY <1>1, CredAssumption, FS_Subset, FS_CardinalityType, Zenon

LEMMA UsedIsCounted ==
    ASSUME GroupInv, ListsOK, NEW p \in Live
    PROVE  /\ cred[p].groups \in Lists \ leaked
           /\ grp[cred[p].groups].usage \in Nat \ {0}
           /\ p \in Users(cred[p].groups)
<1>1. cred[p].groups \in Lists \ leaked /\ p \in Users(cred[p].groups)
  BY Zenon DEF GroupInv, Users
<1>2. Cardinality(Users(cred[p].groups)) # 0
  BY <1>1, UsersAreFinite, FS_EmptySet, Zenon
<1>3. grp[cred[p].groups].usage = Cardinality(Users(cred[p].groups))
  BY <1>1, Zenon DEF GroupInv
<1> QED
  BY <1>1, <1>2, <1>3, UsersAreFinite, Zenon

LEMMA PutIs ==
    ASSUME NEW h \in Groups, NEW l \in Lists, h[l].usage # 0
    PROVE  /\ PutGroupInfo(h, l) \in Groups
           /\ PutGroupInfo(h, l)[l].usage = h[l].usage - 1
           /\ PutGroupInfo(h, l)[l].usage = 0 => PutGroupInfo(h, l)[l] = FreeList
           /\ \A k \in Lists : k # l => PutGroupInfo(h, l)[k] = h[k]
<1>1. h[l].usage \in Nat /\ h[l].gid \in SUBSET Ids /\ h[l] = [usage |-> h[l].usage, gid |-> h[l].gid]
  BY Zenon DEF Groups
<1>2. CASE h[l].usage = 1
  <2>1. PutGroupInfo(h, l) = [h EXCEPT ![l] = FreeList]
    BY <1>2, Zenon DEF PutGroupInfo
  <2>2. FreeList.usage = 0 /\ FreeList \in [usage : Nat, gid : SUBSET Ids]
    BY Zenon DEF FreeList
  <2> QED
    BY <1>2, <2>1, <2>2 DEF Groups
<1>3. CASE h[l].usage # 1
  <2> DEFINE x == [usage |-> h[l].usage - 1, gid |-> h[l].gid]
  <2>1. PutGroupInfo(h, l) = [h EXCEPT ![l] = x]
    <3>1. PutGroupInfo(h, l) = [h EXCEPT ![l].usage = h[l].usage - 1]
      BY <1>3, Zenon DEF PutGroupInfo
    <3>2. [h[l] EXCEPT !.usage = h[l].usage - 1] = x
      BY <1>1
    <3> QED
      BY <3>1, <3>2, Zenon DEF Groups
  <2>2. x.usage = h[l].usage - 1 /\ x.usage \in Nat \ {0} /\ x \in [usage : Nat, gid : SUBSET Ids]
    BY <1>1, <1>3
  <2> HIDE DEF x
  <2>3. PutGroupInfo(h, l)[l] = x /\ \A k \in Lists : k # l => PutGroupInfo(h, l)[k] = h[k]
    BY <2>1, Zenon DEF Groups
  <2>4. PutGroupInfo(h, l) \in Groups
    BY <2>1, <2>2, Zenon DEF Groups
  <2> QED
    BY <2>2, <2>3, <2>4, Zenon
<1> QED
  BY <1>2, <1>3, Zenon

LEMMA ForkStep ==
    ASSUME CredInv, NEW p \in CredProcs, NEW q \in CredProcs, DoFork(p, q)
    PROVE  CredInv' /\ Only(q) /\ q \notin Live
<1>0. PICK g : g = cred[p].groups
  BY Zenon
<1>1. CredsOK /\ FilesOK /\ ListsOK /\ GroupInv /\ RightsInv /\ OpenedInv
  BY Zenon DEF CredInv
<1>2. p \in Live /\ q \notin Live /\ cred[p].call.at = "no"
  BY Zenon DEF DoFork, Ready
<1>3. /\ UNCHANGED <<inode, leaked, rights, access>> /\ cred' = [cred EXCEPT ![q] = cred[p]]
      /\ grp' = [grp EXCEPT ![g].usage = grp[g].usage + 1]
  BY <1>0, Zenon DEF DoFork, GetGroupInfo
<1>4. Only(q) /\ cred'[q] = cred[p]
  BY <1>1, <1>3, OnlyOne, ZenonT(30)
<1>5. g \in Lists \ leaked /\ grp[g].usage \in Nat \ {0}
  BY <1>0, <1>1, <1>2, UsedIsCounted, Zenon
<1>6. /\ grp'[g].usage = grp[g].usage + 1 /\ \A l \in Lists : l # g => grp'[l] = grp[l]
      /\ grp' \in [Lists -> [usage : Nat, gid : SUBSET Ids]]
  BY <1>1, <1>3, <1>5 DEF ListsOK
<1>7. Live' = Live \cup {q}
  BY <1>2, <1>4, Zenon DEF Live, Only
<1>8. Users(g)' = Users(g) \cup {q} /\ q \notin Users(g) /\ \A l \in Lists : l # g => Users(l)' = Users(l)
  BY <1>0, <1>2, <1>4, <1>7 DEF Users, Only, Live
<1>9. Cardinality(Users(g)') = Cardinality(Users(g)) + 1
  BY <1>8, UsersAreFinite, FS_AddElement, Zenon
<1>10. \A l \in Lists \ leaked : grp'[l].usage = Cardinality(Users(l)')
  <2> SUFFICES ASSUME NEW l \in Lists \ leaked PROVE grp'[l].usage = Cardinality(Users(l)')
    BY Zenon
  <2>1. grp[l].usage = Cardinality(Users(l))
    BY <1>1, Zenon DEF GroupInv
  <2>2. CASE l = g
    BY <1>5, <1>6, <1>8, <1>9, <2>1, <2>2, Zenon
  <2>3. CASE l # g
    BY <1>6, <1>8, <2>1, <2>3, Zenon
  <2> QED
    BY <2>2, <2>3, Zenon
<1>11. \A r \in Live' : cred'[r].groups \in Lists \ leaked
  BY <1>1, <1>2, <1>4, <1>7, UsedIsCounted, Zenon DEF GroupInv, Only, Live
<1>12. (\A l \in Lists : grp'[l].usage = 0 => grp'[l] = FreeList) /\ \A l \in leaked : grp'[l].usage # 0
  BY <1>1, <1>5, <1>6 DEF GroupInv, ListsOK
<1>13. GroupInv'
  BY <1>3, <1>10, <1>11, <1>12, Zenon DEF GroupInv
<1>14. CredsOK'
  BY <1>1, <1>4, CredsStay, Zenon DEF CredsOK
<1>15. RightsInv'
  BY <1>1, <1>2, <1>3, <1>4, SameExecKeeps, Zenon
<1>16. OpenedInv'
  BY <1>1, <1>3, <1>4, Zenon DEF OpenedInv, Only, AccessAsOpened
<1>17. FilesOK' /\ ListsOK'
  BY <1>1, <1>3, <1>6, Zenon DEF FilesOK, ListsOK
<1> QED
  BY <1>2, <1>4, <1>13, <1>14, <1>15, <1>16, <1>17, Zenon DEF CredInv

LEMMA GoneStep ==
    ASSUME CredInv, NEW p \in CredProcs, ProcessGone(p)
    PROVE  CredInv' /\ Only(p) /\ p \notin Live'
<1>0. PICK g : g = cred[p].groups
  BY Zenon
<1>1. CredsOK /\ FilesOK /\ ListsOK /\ GroupInv /\ RightsInv /\ OpenedInv
  BY Zenon DEF CredInv
<1>2. p \in Live
  BY Zenon DEF ProcessGone, Ready
<1>3. UNCHANGED <<inode, leaked, rights, access>> /\ cred' = [cred EXCEPT ![p] = NoCred] /\ grp' = PutGroupInfo(grp, g)
  BY <1>0, Zenon DEF ProcessGone
<1>4. Only(p) /\ cred'[p] = NoCred
  BY <1>1, <1>3, OnlyOne, ZenonT(30)
<1>5. g \in Lists \ leaked /\ grp[g].usage \in Nat \ {0} /\ p \in Users(g)
  BY <1>0, <1>1, <1>2, UsedIsCounted, Zenon
<1>6. /\ grp' \in Groups
      /\ grp'[g].usage = grp[g].usage - 1 /\ (grp'[g].usage = 0 => grp'[g] = FreeList)
      /\ \A l \in Lists : l # g => grp'[l] = grp[l]
  BY <1>1, <1>3, <1>5, PutIs, Zenon DEF ListsOK, Groups
<1>7. Live' = Live \ {p}
  BY <1>4, NoCredIs, Zenon DEF Live, Only
<1>8. Users(g)' = Users(g) \ {p} /\ \A l \in Lists : l # g => Users(l)' = Users(l)
  BY <1>0, <1>4, <1>7, Zenon DEF Users, Only, Live
<1>9. Cardinality(Users(g)') = Cardinality(Users(g)) - 1
  BY <1>5, <1>8, UsersAreFinite, FS_RemoveElement, Zenon
<1>10. \A l \in Lists \ leaked : grp'[l].usage = Cardinality(Users(l)')
  <2> SUFFICES ASSUME NEW l \in Lists \ leaked PROVE grp'[l].usage = Cardinality(Users(l)')
    BY Zenon
  <2>1. grp[l].usage = Cardinality(Users(l))
    BY <1>1, Zenon DEF GroupInv
  <2>2. CASE l = g
    BY <1>5, <1>6, <1>8, <1>9, <2>1, <2>2, ZenonT(30)
  <2>3. CASE l # g
    BY <1>6, <1>8, <2>1, <2>3, Zenon
  <2> QED
    BY <2>2, <2>3, Zenon
<1>11. \A r \in Live' : cred'[r].groups \in Lists \ leaked
  BY <1>1, <1>4, <1>7, Zenon DEF GroupInv, Only, Live
<1>12. (\A l \in Lists : grp'[l].usage = 0 => grp'[l] = FreeList) /\ \A l \in leaked : grp'[l].usage # 0
  BY <1>1, <1>5, <1>6, Zenon DEF GroupInv, ListsOK
<1>13. GroupInv'
  BY <1>3, <1>10, <1>11, <1>12, Zenon DEF GroupInv
<1>14. CredsOK'
  BY <1>1, <1>4, CredsStay, NoCredIs, Zenon
<1>15. RightsInv'
  BY <1>1, <1>3, <1>4, NoCredIs, SameExecKeeps, Zenon
<1>16. OpenedInv'
  BY <1>1, <1>3, <1>4, NoCredIs, SameOfileKeeps, Zenon
<1>17. FilesOK' /\ ListsOK'
  BY <1>1, <1>3, <1>6, Zenon DEF FilesOK, ListsOK, Groups
<1> QED
  BY <1>4, <1>7, <1>13, <1>14, <1>15, <1>16, <1>17, Zenon DEF CredInv

LEMMA FreeListIsUnused ==
    ASSUME GroupInv, ListsOK, NEW l \in FreeLists
    PROVE  l \in Lists \ leaked /\ Users(l) = {} /\ \A p \in Live : cred[p].groups # l
<1>1. l \in Lists /\ grp[l].usage = 0
  BY DEF FreeLists, FreeList
<1>2. l \notin leaked
  BY <1>1, Zenon DEF GroupInv
<1>3. \A p \in Live : cred[p].groups # l
  BY <1>1, UsedIsCounted, Zenon
<1> QED
  BY <1>1, <1>2, <1>3, Zenon DEF Users

(* A list that do_setgroups() loses.                                       *)
LEMMA LoseStep ==
    ASSUME CredInv, NEW p \in CredProcs, NEW l \in FreeLists, NEW gids \in SUBSET Ids, DoSetgroups(p, l, gids, FALSE)
    PROVE  CredInv' /\ cred' = cred
<1>1. CredsOK /\ FilesOK /\ ListsOK /\ GroupInv /\ RightsInv /\ OpenedInv
  BY Zenon DEF CredInv
<1>2. /\ UNCHANGED <<cred, inode, rights, access>> /\ leaked' = leaked \cup {l}
      /\ grp' = [grp EXCEPT ![l] = [usage |-> 1, gid |-> {}]]
  BY Zenon DEF DoSetgroups, GroupsAlloc
<1>3. l \in Lists \ leaked /\ \A q \in Live : cred[q].groups # l
  BY <1>1, FreeListIsUnused, Zenon
<1>4. /\ grp' \in [Lists -> [usage : Nat, gid : SUBSET Ids]]
      /\ grp'[l].usage = 1 /\ \A k \in Lists : k # l => grp'[k] = grp[k]
  BY <1>1, <1>2, <1>3, Zenon DEF ListsOK
<1>5. Live' = Live /\ \A k \in Lists : Users(k)' = Users(k)
  BY <1>2, Zenon DEF Live, Users
<1>6. \A q \in Live' : cred'[q].groups \in Lists \ leaked'
  BY <1>1, <1>2, <1>3, <1>5, Zenon DEF GroupInv
<1>7. \A k \in Lists \ leaked' : grp'[k].usage = Cardinality(Users(k)')
  BY <1>1, <1>2, <1>4, <1>5, SMTT(30) DEF GroupInv
<1>8. (\A k \in Lists : grp'[k].usage = 0 => grp'[k] = FreeList) /\ \A k \in leaked' : grp'[k].usage # 0
  BY <1>1, <1>2, <1>4, SMTT(30) DEF GroupInv, ListsOK
<1>9. GroupInv'
  BY <1>6, <1>7, <1>8, Zenon DEF GroupInv
<1>10. CredsOK' /\ FilesOK' /\ RightsInv' /\ OpenedInv'
  BY <1>1, <1>2, ZenonT(30) DEF CredsOK, FilesOK, RightsInv, OpenedInv, AccessAsOpened
<1>11. ListsOK'
  BY <1>1, <1>2, <1>3, <1>4, Zenon DEF ListsOK
<1> QED
  BY <1>2, <1>9, <1>10, <1>11, Zenon DEF CredInv

LEMMA SetgroupsStep ==
    ASSUME CredInv, NEW p \in CredProcs, NEW l \in FreeLists, NEW gids \in SUBSET Ids, DoSetgroups(p, l, gids, TRUE)
    PROVE  CredInv' /\ Only(p) /\ SameIds(p)
<1>0. PICK g : g = cred[p].groups
  BY Zenon
<1> DEFINE h == [grp EXCEPT ![l] = [usage |-> 1, gid |-> gids]]
<1>1. CredsOK /\ FilesOK /\ ListsOK /\ GroupInv /\ RightsInv /\ OpenedInv /\ CredOK(cred[p])
  BY Zenon DEF CredInv, CredsOK
<1>2. p \in Live /\ UNCHANGED <<leaked, inode, rights, access>>
  BY Zenon DEF DoSetgroups, Ready
<1>3. cred' = [cred EXCEPT ![p] = [cred[p] EXCEPT !.groups = l]] /\ grp' = PutGroupInfo(h, g)
  BY <1>0, Zenon DEF DoSetgroups, GroupsAlloc
<1>4. l \in Lists \ leaked /\ Users(l) = {} /\ g # l
  BY <1>0, <1>1, <1>2, FreeListIsUnused, Zenon
<1>5. g \in Lists \ leaked /\ grp[g].usage \in Nat \ {0} /\ p \in Users(g)
  BY <1>0, <1>1, <1>2, UsedIsCounted, Zenon
<1>6. h \in Groups /\ h[l].usage = 1 /\ \A k \in Lists : k # l => h[k] = grp[k]
  BY <1>1, <1>4, Zenon DEF ListsOK, Groups
<1> HIDE DEF h
<1>7. /\ grp' \in Groups
      /\ grp'[g].usage = grp[g].usage - 1 /\ (grp'[g].usage = 0 => grp'[g] = FreeList)
      /\ grp'[l].usage = 1
      /\ \A k \in Lists : k # l /\ k # g => grp'[k] = grp[k]
  BY <1>3, <1>4, <1>5, <1>6, PutIs
<1>8. Only(p) /\ cred'[p] = [cred[p] EXCEPT !.groups = l]
  BY <1>1, <1>3, OnlyOne, Zenon
<1>9. /\ Shape(cred'[p]) /\ SameIds(p) /\ cred'[p].call = cred[p].call /\ cred'[p].ofile = cred[p].ofile
      /\ cred'[p].live = cred[p].live /\ cred'[p].groups = l
  BY <1>1, <1>8, SetGroups DEF CredOK, SameIds
<1>10. CredOK(cred'[p])
  BY <1>1, <1>9, Zenon DEF CredOK, SameIds
<1>11. Live' = Live
  BY <1>8, <1>9, ZenonT(30) DEF Live, Only
<1>12. Users(l)' = {p} /\ Users(g)' = Users(g) \ {p} /\ \A k \in Lists : k # l /\ k # g => Users(k)' = Users(k)
  <2>1. p \in Live /\ \A q \in Live : q # p => cred'[q].groups = cred[q].groups
    BY <1>2, <1>8, Zenon DEF Only, Live
  <2>2. \A q \in Live : cred[q].groups # l
    BY <1>4, Zenon DEF Users
  <2> QED
    BY <1>0, <1>4, <1>9, <1>11, <2>1, <2>2, Zenon DEF Users
<1>13. Cardinality(Users(l)') = 1
  BY <1>12, FS_Singleton, Zenon
<1>14. Cardinality(Users(g)') = Cardinality(Users(g)) - 1
  BY <1>5, <1>12, UsersAreFinite, FS_RemoveElement, ZenonT(30)
<1>15. \A k \in Lists \ leaked : grp'[k].usage = Cardinality(Users(k)')
  <2> SUFFICES ASSUME NEW k \in Lists \ leaked PROVE grp'[k].usage = Cardinality(Users(k)')
    BY Zenon
  <2>1. grp[k].usage = Cardinality(Users(k))
    BY <1>1, ZenonT(30) DEF GroupInv
  <2>2. CASE k = l
    BY <1>7, <1>13, <2>2, Zenon
  <2>3. CASE k = g
    BY <1>7, <1>14, <2>1, <2>3, Zenon
  <2>4. CASE k # l /\ k # g
    BY <1>7, <1>12, <2>1, <2>4, Zenon
  <2> QED
    BY <2>2, <2>3, <2>4, Zenon
<1>16. \A r \in Live' : cred'[r].groups \in Lists \ leaked
  BY <1>1, <1>4, <1>8, <1>9, <1>11, ZenonT(30) DEF GroupInv, Only, Live
<1>17. (\A k \in Lists : grp'[k].usage = 0 => grp'[k] = FreeList) /\ \A k \in leaked : grp'[k].usage # 0
  BY <1>1, <1>4, <1>5, <1>7 DEF GroupInv, ListsOK
<1>18. GroupInv'
  BY <1>2, <1>15, <1>16, <1>17, Zenon DEF GroupInv
<1>19. CredsOK' /\ RightsInv' /\ OpenedInv'
  BY <1>1, <1>2, <1>8, <1>9, <1>10, CredsStay, SameExecKeeps, SameOfileKeeps, ZenonT(30)
<1>20. FilesOK' /\ ListsOK'
  BY <1>1, <1>2, <1>7, Zenon DEF FilesOK, ListsOK, Groups
<1> QED
  BY <1>8, <1>9, <1>18, <1>19, <1>20, Zenon DEF CredInv
-----------------------------------------------------------------------------
(* A step of execv() or chmod() on the way.                                *)
LEMMA ExecMoves ==
    ASSUME CredInv, NEW p \in CredProcs, NEW x \in Calls, cred' = [cred EXCEPT ![p] = [cred[p] EXCEPT !.call = x]],
           x.at = "commit" => x.new = inode[x.ip] /\ x.ip \in Files,
           UNCHANGED <<grp, inode, leaked, rights, access>>
    PROVE  CredInv' /\ Only(p) /\ SameIds(p)
<1>1. CredsOK /\ FilesOK /\ ListsOK /\ GroupInv /\ RightsInv /\ OpenedInv /\ CredOK(cred[p])
  BY Zenon DEF CredInv, CredsOK
<1>2. Only(p) /\ cred'[p] = [cred[p] EXCEPT !.call = x]
  BY <1>1, OnlyOne, Zenon
<1>3. Shape(cred'[p]) /\ SameGroups(p) /\ SameIds(p) /\ cred'[p].call = x /\ cred'[p].ofile = cred[p].ofile
  <2>1. Shape(cred[p])
    BY <1>1, Zenon DEF CredOK
  <2> QED
    BY <1>2, <2>1, SetExec DEF SameGroups, SameIds
<1>4. CredOK(cred'[p])
  BY <1>1, <1>3, Zenon DEF CredOK, SameIds
<1>5. RightsInv'
  <2>1. ASSUME NEW q \in CredProcs, cred'[q].call.at = "commit"
        PROVE  Pairs(cred'[q].call.new) \subseteq rights'[cred'[q].call.ip]
    <3>1. CASE q = p
      <4>1. x.at = "commit" /\ cred'[q].call = x
        BY <1>3, <2>1, <3>1, Zenon
      <4>2. Pairs(inode[x.ip]) \subseteq rights[x.ip] /\ x.new = inode[x.ip]
        BY <1>1, <4>1, Zenon DEF RightsInv
      <4> QED
        BY <4>1, <4>2, Zenon
    <3>2. CASE q # p
      BY <1>1, <1>2, <2>1, <3>2, Zenon DEF RightsInv, Only
    <3> QED
      BY <3>1, <3>2, Zenon
  <2> QED
    BY <1>1, <2>1, Zenon DEF RightsInv
<1>6. CredsOK' /\ GroupInv' /\ OpenedInv'
  BY <1>1, <1>2, <1>3, <1>4, CredsStay, SameGroupsKeep, SameOfileKeeps, Zenon
<1>7. FilesOK' /\ ListsOK'
  BY <1>1, Zenon DEF FilesOK, ListsOK
<1> QED
  BY <1>2, <1>3, <1>5, <1>6, <1>7, Zenon DEF CredInv

LEMMA ChmodStep ==
    ASSUME CredInv, NEW p \in CredProcs, NEW i \in Files, NEW md \in Modes, DoChmod(p, i, md)
    PROVE  CredInv' /\ Only(p) /\ SameIds(p)
<1> DEFINE x == [at |-> "chmod", ip |-> i, mode |-> md]
<1>1. x.at = "chmod" /\ x \in Calls
  BY DEF Calls, Chmods
<1>2. cred' = [cred EXCEPT ![p] = [cred[p] EXCEPT !.call = x]] /\ UNCHANGED <<grp, inode, leaked, rights, access>>
  BY Zenon DEF DoChmod
<1> HIDE DEF x
<1> QED
  BY <1>1, <1>2, ExecMoves, Zenon

LEMMA ExecCheckStep ==
    ASSUME CredInv, NEW p \in CredProcs, NEW i \in Files, ExecCheck(p, i)
    PROVE  CredInv' /\ Only(p) /\ SameIds(p)
<1> DEFINE x == [at |-> "lock", ip |-> i, st |-> inode[i]]
<1>1. x.at = "lock" /\ x \in Calls
  BY DEF CredInv, FilesOK, Calls, Checked
<1>2. cred' = [cred EXCEPT ![p] = [cred[p] EXCEPT !.call = x]] /\ UNCHANGED <<grp, inode, leaked, rights, access>>
  BY Zenon DEF ExecCheck
<1> HIDE DEF x
<1> QED
  BY <1>1, <1>2, ExecMoves, Zenon

LEMMA ExecLoadStep ==
    ASSUME CredInv, NEW p \in CredProcs, ExecLoad(p)
    PROVE  CredInv' /\ Only(p) /\ SameIds(p)
<1> DEFINE i == cred[p].call.ip
           x == [at |-> "commit", ip |-> i, new |-> inode[i]]
<1>1. cred[p].call \in Calls /\ cred[p].call.at = "lock" /\ inode \in [Files -> Inodes]
  BY Zenon DEF CredInv, CredsOK, CredOK, FilesOK, ExecLoad
<1>2. i \in Files
  BY <1>1, CallsAre, Zenon
<1>3. x.at = "commit" /\ x.new = inode[i] /\ x.ip = i /\ x \in Calls
  <2>1. PICK k \in Files, y \in Inodes : k = i /\ y = inode[i]
    BY <1>1, <1>2, Zenon
  <2>2. [at |-> "commit", ip |-> k, new |-> y] \in Calls
    BY DEF Calls, Loaded
  <2> QED
    BY <2>1, <2>2, Zenon
<1>4. cred' = [cred EXCEPT ![p] = [cred[p] EXCEPT !.call = x]] /\ UNCHANGED <<grp, inode, leaked, rights, access>>
  BY Zenon DEF ExecLoad
<1> HIDE DEF x, i
<1> QED
  BY <1>2, <1>3, <1>4, ExecMoves, ZenonT(30)

LEMMA TakenIds ==
    ASSUME NEW t \in Triples, NEW id \in Ids
    PROVE  [t EXCEPT !.e = id, !.s = id] \in Triples
  BY Zenon DEF Triples

LEMMA ExecCommitStep ==
    ASSUME CredInv, NEW p \in CredProcs, NEW fails \in BOOLEAN, ExecCommit(p, fails)
    PROVE  CredInv' /\ Only(p) /\ cred[p].call.at = "commit"
<1> DEFINE c == cred[p]
           new == c.call.new
           uu == IF ~fails /\ S_ISUID \in new.mode THEN [c.u EXCEPT !.e = new.uid, !.s = new.uid] ELSE c.u
           gg == IF ~fails /\ S_ISGID \in new.mode THEN [c.g EXCEPT !.e = new.gid, !.s = new.gid] ELSE c.g
<1>1. CredsOK /\ FilesOK /\ ListsOK /\ GroupInv /\ RightsInv /\ OpenedInv /\ CredOK(c)
  BY Zenon DEF CredInv, CredsOK
<1>2. c.call.at = "commit" /\ UNCHANGED <<grp, inode, leaked, rights, access>>
  BY Zenon DEF ExecCommit
<1>3. new \in Inodes
  BY <1>1, <1>2, CallsAre, Zenon DEF CredOK
<1>4. uu \in Triples /\ gg \in Triples
  BY <1>1, <1>3, TakenIds, ZenonT(30) DEF CredOK, Inodes
<1>5. cred' = [cred EXCEPT ![p] = ExecIds(c, NoCred.call, uu, gg)]
  BY <1>1, Zenon DEF ExecCommit, CredsOK, CredOK, Shape, ExecIds
<1> HIDE DEF uu, gg, new
<1>6. Only(p) /\ cred'[p] = ExecIds(c, NoCred.call, uu, gg)
  BY <1>1, <1>5, OnlyOne, ZenonT(30)
<1>7. Shape(c)
  BY <1>1, Zenon DEF CredOK
<1>8. /\ Shape(cred'[p]) /\ cred'[p].live = c.live /\ cred'[p].groups = c.groups /\ cred'[p].ofile = c.ofile
      /\ cred'[p].u = uu /\ cred'[p].g = gg /\ cred'[p].call = NoCred.call
  <2>1. PICK d, e, x : d = c /\ e = cred'[p] /\ x = NoCred.call
    BY Zenon
  <2>2. Shape(d) /\ e = ExecIds(d, x, uu, gg)
    BY <1>6, <1>7, <2>1, Zenon
  <2>3. Shape(e) /\ e.live = d.live /\ e.u = uu /\ e.g = gg /\ e.groups = d.groups /\ e.ofile = d.ofile /\ e.call = x
    BY <2>2, ZenonT(30) DEF Shape, ExecIds
  <2> HIDE DEF c
  <2> QED
    BY <2>1, <2>3, Zenon
<1> HIDE DEF c
<1>9. CredOK(cred'[p])
  BY <1>1, <1>4, <1>8, NoCredIs, Zenon DEF CredOK
<1>10. SameGroups(p) /\ cred'[p].call.at # "commit" /\ cred'[p].ofile = cred[p].ofile
  BY <1>8, NoCredIs, Zenon DEF SameGroups, c
<1>11. CredsOK' /\ GroupInv' /\ RightsInv' /\ OpenedInv'
  BY <1>1, <1>2, <1>6, <1>9, <1>10, CredsStay, SameGroupsKeep, SameExecKeeps, SameOfileKeeps, Zenon
<1>12. FilesOK' /\ ListsOK'
  BY <1>1, <1>2, Zenon DEF FilesOK, ListsOK
<1> QED
  BY <1>2, <1>6, <1>11, <1>12, Zenon DEF CredInv, c
-----------------------------------------------------------------------------
(* What a step does to the ids of the processes.                           *)
IdsMove ==
    \A p \in Live : p \in Live' /\ ~IS_SUPERUSER(cred[p]) /\ cred[p].call.at # "commit"
        => Held(cred'[p].u) \subseteq Held(cred[p].u) /\ Held(cred'[p].g) \subseteq Held(cred[p].g)

LEMMA CredStep ==
    ASSUME CredInv, [CredNext]_credVars
    PROVE  CredInv' /\ IdsMove
<1> SUFFICES ASSUME CredNext \/ UNCHANGED credVars PROVE CredInv' /\ IdsMove
  BY Zenon
<1>1. ASSUME CredInv', cred' = cred PROVE CredInv' /\ IdsMove
  BY <1>1, Zenon DEF IdsMove
<1>2. ASSUME NEW p \in CredProcs, CredInv', Only(p), SameIds(p) PROVE CredInv' /\ IdsMove
  BY <1>2, Zenon DEF IdsMove, Only, SameIds, Live
<1>3. ASSUME NEW p \in CredProcs, CredInv', Only(p), MovesIds(p) PROVE CredInv' /\ IdsMove
  BY <1>3, Zenon DEF IdsMove, Only, MovesIds, Live
<1>4. ASSUME NEW p \in CredProcs, CredInv', Only(p), p \notin Live \/ p \notin Live' \/ cred[p].call.at = "commit"
      PROVE CredInv' /\ IdsMove
  BY <1>4, Zenon DEF IdsMove, Only, Live
<1>5. ASSUME NEW p \in CredProcs, NEW i \in Files, NEW fl \in FlagWords, DoOpen(p, i, fl)
      PROVE CredInv' /\ IdsMove
  BY <1>2, <1>5, OpenStep, Zenon
<1>6. ASSUME NEW p \in CredProcs, NEW f \in cred[p].ofile, NEW r \in {"r", "w"}, FileAccess(p, f, r)
      PROVE CredInv' /\ IdsMove
  BY <1>1, <1>6, AccessStep, Zenon
<1>7. ASSUME NEW p \in CredProcs, NEW i \in Files, NEW md \in Modes, DoChmod(p, i, md) PROVE CredInv' /\ IdsMove
  BY <1>2, <1>7, ChmodStep, Zenon
<1>8. ASSUME NEW p \in CredProcs, NEW i \in Files, NEW u \in Ids \cup {-1}, NEW g \in Ids \cup {-1}, DoChown(p, i, u, g)
      PROVE CredInv' /\ IdsMove
  BY <1>1, <1>8, ChownStep, Zenon
<1>9. ASSUME NEW p \in CredProcs, SetIds(p) PROVE CredInv' /\ IdsMove
  BY <1>3, <1>9, SetIdsStep, Zenon
<1>10. ASSUME NEW p \in CredProcs, NEW l \in FreeLists, NEW gids \in SUBSET Ids, NEW ok \in BOOLEAN, DoSetgroups(p, l, gids, ok)
       PROVE CredInv' /\ IdsMove
  <2>1. CASE ok = TRUE
    BY <1>2, <1>10, <2>1, SetgroupsStep, Zenon
  <2>2. CASE ok = FALSE
    BY <1>1, <1>10, <2>2, LoseStep, ZenonT(30)
  <2> QED
    BY <1>10, <2>1, <2>2, Zenon
<1>11. ASSUME NEW p \in CredProcs, NEW q \in CredProcs, DoFork(p, q) PROVE CredInv' /\ IdsMove
  BY <1>4, <1>11, ForkStep, Zenon
<1>12. ASSUME NEW p \in CredProcs, ProcessGone(p) PROVE CredInv' /\ IdsMove
  BY <1>4, <1>12, GoneStep, Zenon
<1>13. ASSUME NEW p \in CredProcs, NEW i \in Files, ExecCheck(p, i) PROVE CredInv' /\ IdsMove
  BY <1>2, <1>13, ExecCheckStep, Zenon
<1>14. ASSUME NEW p \in CredProcs, ExecLoad(p) PROVE CredInv' /\ IdsMove
  BY <1>2, <1>14, ExecLoadStep, Zenon
<1>15. ASSUME NEW p \in CredProcs, NEW fails \in BOOLEAN, ExecCommit(p, fails) PROVE CredInv' /\ IdsMove
  BY <1>4, <1>15, ExecCommitStep, Zenon
<1>16. ASSUME NEW p \in CredProcs, ChmodStore(p) PROVE CredInv' /\ IdsMove
  BY <1>2, <1>16, ChmodStoreStep, Zenon
<1>17. CASE UNCHANGED credVars
  <2>1. UNCHANGED <<cred, grp, inode, leaked, rights, access>>
    BY <1>17, Zenon DEF credVars
  <2>2. CredsOK' /\ FilesOK' /\ ListsOK' /\ RightsInv' /\ OpenedInv'
    BY <2>1, Zenon DEF CredInv, CredsOK, FilesOK, ListsOK, RightsInv, OpenedInv, AccessAsOpened
  <2>3. GroupInv'
    BY <2>1, CredUnchanged, Zenon DEF CredInv
  <2> QED
    BY <1>1, <2>1, <2>2, <2>3, Zenon DEF CredInv
<1> QED
  BY <1>5, <1>6, <1>7, <1>8, <1>9, <1>10, <1>11, <1>12, <1>13, <1>14, <1>15, <1>16, <1>17, ZenonT(30) DEF CredNext

LEMMA CredInitOK == CredInit => CredInv
<1> SUFFICES ASSUME CredInit PROVE CredInv
  BY Zenon
<1>1. PICK k0 \in Lists : k0 = CHOOSE k \in Lists : TRUE
  BY CredAssumption, Zenon
<1> DEFINE c0 == Born(NoCred, k0)
<1>2. c0.live = TRUE /\ c0.groups = k0 /\ CredOK(c0) /\ c0.ofile = {} /\ c0.call = [at |-> "no"] /\ c0.call.at # "commit"
  <2>1. CredOK(NoCred) /\ Shape(NoCred) /\ NoCred.ofile = {} /\ NoCred.call = [at |-> "no"] /\ NoCred.call.at # "commit"
    BY NoCredIs, Zenon DEF CredOK
  <2>2. /\ Shape(c0) /\ c0.live = TRUE /\ c0.u = NoCred.u /\ c0.g = NoCred.g /\ c0.groups = k0
        /\ c0.ofile = NoCred.ofile /\ c0.call = NoCred.call
    <3>1. PICK c : c = NoCred
      BY Zenon
    <3>2. PICK d : d = Born(c, k0)
      BY Zenon
    <3>3. Shape(c)
      BY <2>1, <3>1, Zenon
    <3>4. /\ Shape(d) /\ d.live = TRUE /\ d.u = c.u /\ d.g = c.g /\ d.groups = k0
          /\ d.ofile = c.ofile /\ d.call = c.call
      BY <3>2, <3>3, ZenonT(30) DEF Shape, Born
    <3>5. d = c0
      BY <3>1, <3>2, Zenon
    <3> HIDE DEF c0
    <3> QED
      BY <3>1, <3>4, <3>5, Zenon
  <2> HIDE DEF c0
  <2> QED
    BY <2>1, <2>2, Zenon DEF CredOK
<1>3. /\ grp = [l \in Lists |-> IF l = k0 THEN [usage |-> 1, gid |-> {}] ELSE FreeList]
      /\ cred = [p \in CredProcs |-> IF p = InitProc THEN c0 ELSE NoCred]
      /\ leaked = {} /\ access.right = "none"
  BY <1>1, Zenon DEF CredInit, Born
<1> HIDE DEF c0
<1>4. cred[InitProc] = c0 /\ \A p \in CredProcs : p # InitProc => cred[p] = NoCred
  BY <1>3, CredAssumption, Zenon
<1>5. CredsOK
  BY <1>2, <1>3, <1>4, NoCredIs, ZenonT(30) DEF CredsOK
<1>6. Live = {InitProc}
  BY <1>2, <1>4, NoCredIs, CredAssumption, Zenon DEF Live
<1>7. Users(k0) = {InitProc} /\ \A l \in Lists : l # k0 => Users(l) = {}
  BY <1>2, <1>4, <1>6, Zenon DEF Users
<1>8. Cardinality(Users(k0)) = 1 /\ \A l \in Lists : l # k0 => Cardinality(Users(l)) = 0
  BY <1>7, FS_Singleton, FS_EmptySet, ZenonT(30)
<1>9. grp[k0].usage = 1 /\ FreeList.usage = 0 /\ \A l \in Lists : l # k0 => grp[l] = FreeList
  BY <1>1, <1>3, Zenon DEF FreeList
<1>10. ListsOK
  BY <1>3, Zenon DEF ListsOK, FreeList
<1>11. GroupInv
  <2>1. \A p \in Live : cred[p].groups \in Lists \ leaked
    BY <1>2, <1>3, <1>4, <1>6, ZenonT(30)
  <2>2. \A l \in Lists \ leaked : grp[l].usage = Cardinality(Users(l))
    BY <1>8, <1>9, Zenon
  <2>3. \A l \in Lists : grp[l].usage = 0 => grp[l] = FreeList
    BY <1>9, SMTT(30)
  <2> QED
    BY <1>3, <2>1, <2>2, <2>3, Zenon DEF GroupInv
<1>12. inode = [i \in Files |-> [mode |-> InitMode, uid |-> 0, gid |-> 0]] /\ rights = [i \in Files |-> Pairs(inode[i])]
  BY Zenon DEF CredInit
<1>13. FilesOK
  BY <1>12, CredAssumption, Zenon DEF FilesOK, Inodes
<1>14. RightsInv
  BY <1>2, <1>4, <1>12, NoCredIs, ZenonT(30) DEF RightsInv
<1>15. OpenedInv
  BY <1>2, <1>3, <1>4, NoCredIs, Zenon DEF OpenedInv, AccessAsOpened
<1> QED
  BY <1>5, <1>10, <1>11, <1>13, <1>14, <1>15, Zenon DEF CredInv

(* The count of a group list is exact over every sequence of fork(),       *)
(* setgroups() and exit, a list in use is never freed; execv() takes the   *)
(* ids of one version of the file; and a descriptor gives no right that    *)
(* was not checked when the file was opened, for every flag word but those *)
(* that permission.c leaves unchecked.                                     *)
THEOREM CredIsSafe == CredSpec => []CredSafe
<1>1. CredInv => CredSafe
  <2> SUFFICES ASSUME CredInv PROVE CredSafe
    BY Zenon
  <2>1. GroupInv /\ ListsOK /\ RightsInv /\ OpenedInv
    BY Zenon DEF CredInv
  <2>2. ASSUME NEW p \in Live PROVE cred[p].groups \in Lists /\ grp[cred[p].groups] # FreeList
    <3>1. cred[p].groups \in Lists /\ grp[cred[p].groups].usage # 0
      BY <2>1, UsedIsCounted, Zenon
    <3> QED
      BY <3>1 DEF FreeList
  <2>3. \A l \in Lists : Users(l) = {p \in Live : cred[p].groups = l}
    BY Zenon DEF Users
  <2>4. GroupsCounted
    BY <2>1, <2>2, <2>3, ZenonT(30) DEF GroupsCounted, GroupInv
  <2>5. ExecIdsConsistent
    BY <2>1, Zenon DEF RightsInv, ExecIdsConsistent, Live
  <2> QED
    BY <2>1, <2>4, <2>5, Zenon DEF CredSafe, OpenedInv
<1>2. CredInv /\ [CredNext]_credVars => CredInv'
  BY CredStep, Zenon
<1> QED
  BY <1>1, <1>2, CredInitOK, PTL DEF CredSpec

(* setuid(), setresuid() and their group versions, in any order and beside *)
(* any other call, give a process without the superuser's id no id it did  *)
(* not hold: only execv() does.                                            *)
THEOREM OnlyExecGivesIds == CredSpec => IdsOnlyByExec
<1> DEFINE A == \A p \in Live : (p \in Live' /\ ~IS_SUPERUSER(cred[p]) /\ cred[p].call.at # "commit")
                  => /\ Held(cred[p].u)' \subseteq Held(cred[p].u)
                     /\ Held(cred[p].g)' \subseteq Held(cred[p].g)
<1>1. CredInv /\ [CredNext]_credVars => CredInv'
  BY CredStep, Zenon
<1>2. CredInv /\ [CredNext]_credVars => [A]_credVars
  <2> SUFFICES ASSUME CredInv, [CredNext]_credVars PROVE A
    BY Zenon
  <2>1. IdsMove
    BY CredStep, Zenon
  <2> QED
    BY <2>1, ZenonT(30) DEF IdsMove, Held
<1>3. IdsOnlyByExec <=> [][A]_credVars
  BY Zenon DEF IdsOnlyByExec
<1> QED
  BY <1>1, <1>2, <1>3, CredInitOK, PTL DEF CredSpec
=============================================================================
