------------------------------ MODULE LogProofs ------------------------------
(***************************************************************************)
(* Proofs about module Log, for every size of the log, number of home      *)
(* blocks, processes, client slots and contents: the log implements        *)
(* AtomicDisk, crashes between any two block writes included, as long as   *)
(* no transaction outgrows the entries of the log.                         *)
(***************************************************************************)
EXTENDS Log, FiniteSetTheorems, WellFoundedInduction, TLAPS

Blocks == 1 .. (nlog + nhome - 1)

ControlOK ==
    /\ clients \in [Slots -> Procs \cup {NoProc}]
    /\ pc \in [Procs -> Labels]
    /\ phase \in {"up", "read", "install"}
ListsOK == header \in Seq(Home) /\ lh_block \in Seq(Home) /\ tail \in Nat
BlocksOK == disk \in [Blocks -> Values] /\ cache \in [Home -> Values]
TypeInv == ControlOK /\ ListsOK /\ BlocksOK

Occupied == {i \in Slots : clients[i] # NoProc}

(* The processes inside a transaction are those that have a slot, each     *)
(* one, and outstanding counts them.                                       *)
ClientInv ==
    /\ \A p \in Procs : pc[p] = "active" <=> \E i \in Slots : clients[i] = p
    /\ \A i, j \in Occupied : clients[i] = clients[j] => i = j
    /\ outstanding = Cardinality(Occupied)

(* One process commits, while committing keeps the others out; nothing     *)
(* runs before the log is recovered.                                       *)
CommitInv ==
    /\ \A p, q \in Procs : pc[p] \in Commit =>
            committing /\ pc[q] # "active" /\ (pc[q] \in Commit => q = p)
    /\ phase # "up" => \A p \in Procs : pc[p] = "user"

Distinct(s) == \A j, k \in 1 .. Len(s) : s[j] = s[k] => j = k

(* The first n entries of the log hold what is cached for their blocks.    *)
Copied(n) == \A k \in 1 .. n : disk[k] = cache[lh_block[k]]
(* The first n entries of the log have reached their home blocks.          *)
Installed(n) == n <= lh_n /\ \A k \in 1 .. n : disk[lh_block[k]] = disk[k]

(* No block is twice in the log, and the log is never longer than nlog.    *)
ListInv ==
    /\ Distinct(lh_block) /\ Distinct(header)
    /\ lh_n <= nlog /\ Len(header) <= nlog

SpaceOK ==
    /\ blocks_used \in [Slots -> Nat] /\ blocks_reserved \in [Slots -> Nat]
    /\ blocks_used_old_clients \in Nat
    /\ req \in [Procs -> Nat \X Nat]

(* A client uses no more than it reserved, and a free slot has reserved    *)
(* nothing; the log holds what was used, and what is used up or reserved   *)
(* fits the log.                                                           *)
SpaceInv ==
    /\ SpaceOK
    /\ \A i \in Slots : blocks_used[i] <= blocks_reserved[i]
    /\ \A i \in Slots : clients[i] = NoProc => blocks_reserved[i] = 0
    /\ phase # "up" => blocks_used_old_clients = 0 /\ \A i \in Slots : blocks_reserved[i] = 0
    /\ phase = "up" => lh_n = blocks_used_old_clients + Sum(blocks_used)
    /\ blocks_used_old_clients + Sum(blocks_reserved) <= nlog

FlagsOK == committing \in BOOLEAN /\ panicked \in BOOLEAN /\ (nhome < nlog => ~panicked)

SafeInv == TypeInv /\ ClientInv /\ CommitInv /\ ListInv /\ SpaceInv /\ FlagsOK

DiskInv ==
    /\ Distinct(lh_block) /\ Distinct(header) /\ Len(header) <= nlog - 1
    /\ phase = "up" /\ ~panicked => \A b \in Home : ~InLog(b) => disk[b] = cache[b]
    /\ phase = "up" /\ (\A p \in Procs : pc[p] # "install") => header = << >>
    /\ \A p \in Procs : pc[p] = "write_log" => tail <= lh_n /\ Copied(tail)
    /\ \A p \in Procs : pc[p] = "install" =>
            header = lh_block /\ Copied(lh_n) /\ Installed(tail)
    /\ phase = "install" => header = lh_block /\ Installed(tail)

IInv == TypeInv /\ ClientInv /\ CommitInv /\ DiskInv

-----------------------------------------------------------------------------
(* A set of numbers that is not empty has a least one.                     *)
LEMMA Least ==
    ASSUME NEW S \in SUBSET Nat, S # {}
    PROVE  \E m \in S : \A k \in S : m =< k
<1> DEFINE R == OpToRel(<, Nat)
<1>1. PICK x \in S : \A y \in S : <<y, x>> \notin R
  BY NatLessThanWellFounded, WFMin, Zenon
<1>2. \A y \in S : x =< y
  <2> SUFFICES ASSUME NEW y \in S PROVE x =< y
    BY Zenon
  <2>1. ~(y < x)
    BY <1>1, Zenon DEF OpToRel
  <2> QED
    BY <2>1
<1> QED
  BY <1>2, Zenon

(* The least free slot is a free slot.                                     *)
LEMMA MinIsMember ==
    ASSUME NEW S \in SUBSET Nat, S # {}
    PROVE  Min(S) \in S
<1>1. PICK x \in S : \A y \in S : x =< y
  BY Least, Zenon
<1> QED
  BY <1>1, Zenon DEF Min

LEMMA OccupiedIsFinite == IsFiniteSet(Occupied)
<1>1. IsFiniteSet(Slots)
  BY LogAssumption, FS_Interval DEF Slots
<1> QED
  BY <1>1, FS_Subset, Zenon DEF Occupied

LEMMA SlotsAreNumbers == Slots \subseteq Nat
  BY LogAssumption DEF Slots

LEMMA FreeSlot ==
    ASSUME FreeSlots # {}
    PROVE  Min(FreeSlots) \in Slots /\ clients[Min(FreeSlots)] = NoProc
  BY SlotsAreNumbers, MinIsMember, Zenon DEF FreeSlots

-----------------------------------------------------------------------------
(* What Sum computes.                                                      *)
Totalled(f, k, t) ==
    /\ t \in [0 .. k -> Nat]
    /\ t[0] = 0
    /\ \A n \in 1 .. k : t[n] = t[n - 1] + f[n]

LEMMA TotalsExist ==
    ASSUME NEW f \in [Slots -> Nat], NEW k \in 0 .. MAX_CONCURRENT_LOG_CLIENTS
    PROVE  \E t : Totalled(f, k, t)
<1> DEFINE S == {n \in 0 .. MAX_CONCURRENT_LOG_CLIENTS : ~ \E t : Totalled(f, n, t)}
<1> SUFFICES ASSUME S # {} PROVE FALSE
  BY Zenon
<1>1. S \in SUBSET Nat
  BY LogAssumption
<1>2. PICK m \in S : \A n \in S : m =< n
  BY <1>1, Least, Zenon
<1>3. CASE m = 0
  <2>1. Totalled(f, m, [n \in 0 .. m |-> 0])
    BY <1>3 DEF Totalled
  <2> QED
    BY <2>1, Zenon
<1>4. CASE m # 0
  <2>1. m - 1 \in 0 .. MAX_CONCURRENT_LOG_CLIENTS /\ m \in 1 .. MAX_CONCURRENT_LOG_CLIENTS
    BY <1>4, LogAssumption
  <2>2. m - 1 \notin S
    BY <1>1, <1>2, <2>1
  <2>3. PICK t : Totalled(f, m - 1, t)
    BY <2>1, <2>2, Zenon
  <2> DEFINE u == [n \in 0 .. m |-> IF n = m THEN t[m - 1] + f[m] ELSE t[n]]
  <2>4. f[m] \in Nat /\ t[m - 1] \in Nat
    <3>1. f[m] \in Nat
      BY <2>1, Zenon DEF Slots
    <3>2. m - 1 \in 0 .. (m - 1) /\ t \in [0 .. (m - 1) -> Nat]
      BY <2>1, <2>3 DEF Totalled
    <3> QED
      BY <3>1, <3>2, Zenon
  <2>5. u \in [0 .. m -> Nat]
    BY <2>1, <2>3, <2>4 DEF Totalled
  <2>6. u[0] = 0 /\ u[m] = t[m - 1] + f[m] /\ \A n \in 0 .. (m - 1) : u[n] = t[n]
    BY <2>1, <2>3 DEF Totalled
  <2> HIDE DEF u
  <2>7. ASSUME NEW n \in 1 .. m PROVE u[n] = u[n - 1] + f[n]
    <3>1. n - 1 \in 0 .. (m - 1) /\ u[n - 1] = t[n - 1]
      BY <2>1, <2>6
    <3>2. CASE n = m
      BY <2>6, <3>1, <3>2, Zenon
    <3>3. CASE n # m
      <4>1. n \in 1 .. (m - 1) /\ n \in 0 .. (m - 1)
        BY <2>1, <3>3
      <4> QED
        BY <2>3, <2>6, <3>1, <4>1, Zenon DEF Totalled
    <3> QED
      BY <3>2, <3>3, Zenon
  <2> QED
    BY <2>5, <2>6, <2>7, Zenon DEF Totalled
<1> QED
  BY <1>3, <1>4, Zenon

LEMMA TotalsAre ==
    ASSUME NEW f \in [Slots -> Nat]
    PROVE  Totalled(f, MAX_CONCURRENT_LOG_CLIENTS, Totals(f))
<1>1. PICK t : Totalled(f, MAX_CONCURRENT_LOG_CLIENTS, t)
  BY TotalsExist, LogAssumption
<1>2. t = [n \in 0 .. MAX_CONCURRENT_LOG_CLIENTS |-> IF n = 0 THEN 0 ELSE t[n - 1] + f[n]]
  BY <1>1, LogAssumption DEF Totalled
<1>3. Totals(f) = [n \in 0 .. MAX_CONCURRENT_LOG_CLIENTS |-> IF n = 0 THEN 0 ELSE Totals(f)[n - 1] + f[n]]
  BY <1>2, Zenon DEF Totals
<1>4. ASSUME NEW n \in 0 .. MAX_CONCURRENT_LOG_CLIENTS PROVE Totals(f)[n] = t[n]
  <2> DEFINE S == {j \in 0 .. MAX_CONCURRENT_LOG_CLIENTS : Totals(f)[j] # t[j]}
  <2> SUFFICES ASSUME S # {} PROVE FALSE
    BY Zenon
  <2>a. S \in SUBSET Nat
    BY LogAssumption
  <2>1. PICK m \in S : \A j \in S : m =< j
    BY <2>a, Least, Zenon
  <2>2. m # 0
    BY <1>2, <1>3, <2>1, LogAssumption, Zenon
  <2>3. m - 1 \in 0 .. MAX_CONCURRENT_LOG_CLIENTS /\ m - 1 \notin S
    BY <2>1, <2>2, LogAssumption
  <2>4. Totals(f)[m] = Totals(f)[m - 1] + f[m] /\ t[m] = t[m - 1] + f[m]
    BY <1>2, <1>3, <2>1, <2>2, LogAssumption, Zenon
  <2> QED
    BY <2>1, <2>3, <2>4, Zenon
<1>5. Totals(f) = t
  BY <1>2, <1>3, <1>4
<1> QED
  BY <1>1, <1>5, Zenon
LEMMA SumIsNat ==
    ASSUME NEW f \in [Slots -> Nat]
    PROVE  Sum(f) \in Nat
  BY TotalsAre, LogAssumption DEF Totalled, Sum

(* Changing one addend changes the sum by as much.                         *)
LEMMA SumUpdate ==
    ASSUME NEW f \in [Slots -> Nat], NEW i \in Slots, NEW v \in Nat
    PROVE  Sum([f EXCEPT ![i] = v]) = Sum(f) + v - f[i]
<1> DEFINE g == [f EXCEPT ![i] = v]
           F == Totals(f)
           G == Totals(g)
           S == {n \in 0 .. MAX_CONCURRENT_LOG_CLIENTS : G[n] # IF n < i THEN F[n] ELSE F[n] + v - f[i]}
<1>1. g \in [Slots -> Nat] /\ f[i] \in Nat
  BY Zenon
<1>2. g[i] = v /\ \A n \in Slots : n # i => g[n] = f[n]
  BY Zenon
<1> HIDE DEF g
<1>3. Totalled(f, MAX_CONCURRENT_LOG_CLIENTS, F) /\ Totalled(g, MAX_CONCURRENT_LOG_CLIENTS, G)
  BY <1>1, TotalsAre, Zenon
<1> HIDE DEF F, G
<1>4. S = {}
  <2> SUFFICES ASSUME S # {} PROVE FALSE
    BY Zenon
  <2>1. S \in SUBSET Nat
    BY LogAssumption
  <2>2. PICK m \in S : \A j \in S : m =< j
    BY <2>1, Least, Zenon
  <2>3. m # 0
    BY <1>3, <2>2, LogAssumption DEF Totalled, Slots
  <2>4. m - 1 \in 0 .. MAX_CONCURRENT_LOG_CLIENTS /\ m - 1 \notin S /\ m \in Slots
    BY <2>1, <2>2, <2>3, LogAssumption DEF Slots
  <2>5. F[m] = F[m - 1] + f[m] /\ G[m] = G[m - 1] + g[m] /\ F[m - 1] \in Nat /\ G[m - 1] \in Nat
    BY <1>3, <2>4, Zenon DEF Totalled, Slots
  <2>6. G[m - 1] = IF m - 1 < i THEN F[m - 1] ELSE F[m - 1] + v - f[i]
    BY <2>4, Zenon
  <2>7. f[m] \in Nat /\ g[m] \in Nat /\ m \in Nat /\ i \in Nat
    BY <1>1, <2>4, LogAssumption DEF Slots
  <2>8. G[m] = IF m < i THEN F[m] ELSE F[m] + v - f[i]
    BY <1>1, <1>2, <2>4, <2>5, <2>6, <2>7
  <2> QED
    BY <2>2, <2>8, Zenon
<1>5. MAX_CONCURRENT_LOG_CLIENTS \in 0 .. MAX_CONCURRENT_LOG_CLIENTS /\ ~(MAX_CONCURRENT_LOG_CLIENTS < i)
  BY LogAssumption DEF Slots
<1> QED
  BY <1>4, <1>5, Zenon DEF Sum, F, G, g

(* A larger addend at every slot gives no smaller a sum.                   *)
LEMMA SumGrows ==
    ASSUME NEW f \in [Slots -> Nat], NEW g \in [Slots -> Nat], \A i \in Slots : f[i] =< g[i]
    PROVE  Sum(f) =< Sum(g)
<1> DEFINE F == Totals(f)
           G == Totals(g)
           S == {n \in 0 .. MAX_CONCURRENT_LOG_CLIENTS : ~(F[n] =< G[n])}
<1>1. Totalled(f, MAX_CONCURRENT_LOG_CLIENTS, F) /\ Totalled(g, MAX_CONCURRENT_LOG_CLIENTS, G)
  BY TotalsAre, Zenon
<1> HIDE DEF F, G
<1>2. S = {}
  <2> SUFFICES ASSUME S # {} PROVE FALSE
    BY Zenon
  <2>1. S \in SUBSET Nat
    BY LogAssumption
  <2>2. PICK m \in S : \A j \in S : m =< j
    BY <2>1, Least, Zenon
  <2>3. m # 0
    BY <1>1, <2>2, LogAssumption, Zenon DEF Totalled, Slots
  <2>4. m - 1 \in 0 .. MAX_CONCURRENT_LOG_CLIENTS /\ m - 1 \notin S /\ m \in Slots
    BY <2>1, <2>2, <2>3, LogAssumption DEF Slots
  <2>5. F[m] = F[m - 1] + f[m] /\ G[m] = G[m - 1] + g[m] /\ F[m - 1] \in Nat /\ G[m - 1] \in Nat
    BY <1>1, <2>4, Zenon DEF Totalled, Slots
  <2>6. F[m - 1] =< G[m - 1]
    BY <2>4, Zenon
  <2>7. f[m] \in Nat /\ g[m] \in Nat /\ f[m] =< g[m]
    BY <2>4, Zenon
  <2>8. F[m] =< G[m]
    BY <2>5, <2>6, <2>7
  <2> QED
    BY <2>2, <2>8, Zenon
<1>3. MAX_CONCURRENT_LOG_CLIENTS \in 0 .. MAX_CONCURRENT_LOG_CLIENTS
  BY LogAssumption
<1> QED
  BY <1>2, <1>3, Zenon DEF Sum, F, G

LEMMA SumOfNothing ==
    ASSUME NEW f \in [Slots -> Nat], \A i \in Slots : f[i] = 0
    PROVE  Sum(f) = 0
<1> DEFINE F == Totals(f)
           S == {n \in 0 .. MAX_CONCURRENT_LOG_CLIENTS : F[n] # 0}
<1>1. Totalled(f, MAX_CONCURRENT_LOG_CLIENTS, F)
  BY TotalsAre, Zenon
<1> HIDE DEF F
<1>2. S = {}
  <2> SUFFICES ASSUME S # {} PROVE FALSE
    BY Zenon
  <2>1. S \in SUBSET Nat
    BY LogAssumption
  <2>2. PICK m \in S : \A j \in S : m =< j
    BY <2>1, Least, Zenon
  <2>3. m # 0
    BY <1>1, <2>2, LogAssumption, Zenon DEF Totalled, Slots
  <2>4. m - 1 \in 0 .. MAX_CONCURRENT_LOG_CLIENTS /\ m - 1 \notin S /\ m \in Slots
    BY <2>1, <2>2, <2>3, LogAssumption DEF Slots
  <2>5. F[m] = F[m - 1] + f[m] /\ F[m - 1] = 0 /\ f[m] = 0
    BY <1>1, <2>4, Zenon DEF Totalled, Slots
  <2> QED
    BY <2>2, <2>5
<1>3. MAX_CONCURRENT_LOG_CLIENTS \in 0 .. MAX_CONCURRENT_LOG_CLIENTS
  BY LogAssumption
<1> QED
  BY <1>2, <1>3, Zenon DEF Sum, F

-----------------------------------------------------------------------------
(* An entry of the log is not a home block.                                *)
LEMMA EntriesAndHomes ==
    /\ \A k \in 1 .. (nlog - 1) : k \in Blocks /\ k \notin Home
    /\ Home \subseteq Blocks
  BY LogAssumption DEF Blocks, Home

-----------------------------------------------------------------------------
LEMMA ControlStays ==
    ASSUME ControlOK, [Next]_vars
    PROVE  ControlOK'
<1> USE DEF ControlOK, Labels, Commit
<1>1. ASSUME NEW p \in Procs, CallBegin(p) PROVE ControlOK'
  BY <1>1, Zenon DEF CallBegin, Goto, space, bounds
<1>2. ASSUME NEW p \in Procs, Begin(p) PROVE ControlOK'
  BY <1>2, FreeSlot, Zenon DEF Begin, Goto, space, bounds
<1>3. ASSUME NEW p \in Procs, BeginSleep(p) PROVE ControlOK'
  BY <1>3, Zenon DEF BeginSleep, Goto, space, bounds
<1>4. ASSUME NEW p \in Procs, NEW b \in Home, NEW v \in Values, Write(p, b, v) PROVE ControlOK'
  BY <1>4, Zenon DEF Write, space, bounds
<1>5. ASSUME NEW p \in Procs, End(p) PROVE ControlOK'
  BY <1>5, Zenon DEF End, Leave, Goto, Wake, space, bounds
<1>6. ASSUME NEW p \in Procs, WriteLog(p) PROVE ControlOK'
  BY <1>6, Zenon DEF WriteLog, CommitVars, space, bounds
<1>7. ASSUME NEW p \in Procs, WriteHead(p) PROVE ControlOK'
  BY <1>7, Zenon DEF WriteHead, CommitVars, Goto, space, bounds
<1>8. ASSUME NEW p \in Procs, Install(p) PROVE ControlOK'
  BY <1>8, Zenon DEF Install, CommitVars, space, bounds
<1>9. ASSUME NEW p \in Procs, ClearHead(p) PROVE ControlOK'
  BY <1>9, Zenon DEF ClearHead, CommitVars, Goto, space, bounds
<1>10. ASSUME NEW p \in Procs, Finish(p) PROVE ControlOK'
  BY <1>10, Zenon DEF Finish, CommitVars, Wake, space, bounds
<1>11. ASSUME Crash PROVE ControlOK'
  BY <1>11, Zenon DEF Crash, space, bounds
<1>12. ASSUME RecoverRead PROVE ControlOK'
  BY <1>12, Zenon DEF RecoverRead, space, bounds
<1>13. ASSUME RecoverInstall PROVE ControlOK'
  BY <1>13, Zenon DEF RecoverInstall, space, bounds
<1>14. ASSUME RecoverClear PROVE ControlOK'
  BY <1>14, Zenon DEF RecoverClear, space, bounds
<1>15. CASE UNCHANGED vars
  BY <1>15, Zenon DEF vars, space, bounds
<1> QED
  BY <1>1, <1>2, <1>3, <1>4, <1>5, <1>6, <1>7, <1>8, <1>9, <1>10, <1>11, <1>12, <1>13, <1>14, <1>15, Zenon DEF Next, CommitStep, Recover

LEMMA ListsStay ==
    ASSUME ListsOK, [Next]_vars
    PROVE  ListsOK'
<1> USE DEF ListsOK
<1>1. ASSUME NEW p \in Procs, CallBegin(p) PROVE ListsOK'
  BY <1>1, Zenon DEF CallBegin, Goto, space, bounds
<1>2. ASSUME NEW p \in Procs, Begin(p) PROVE ListsOK'
  BY <1>2, Zenon DEF Begin, Goto, space, bounds
<1>3. ASSUME NEW p \in Procs, BeginSleep(p) PROVE ListsOK'
  BY <1>3, Zenon DEF BeginSleep, Goto, space, bounds
<1>4. ASSUME NEW p \in Procs, NEW b \in Home, NEW v \in Values, Write(p, b, v) PROVE ListsOK'
  <2>1. lh_block' \in {lh_block, Append(lh_block, b)}
    BY <1>4, Zenon DEF Write
  <2> QED
    BY <1>4, <2>1 DEF Write, bounds
<1>5. ASSUME NEW p \in Procs, End(p) PROVE ListsOK'
  BY <1>5, Zenon DEF End, Leave, Goto, Wake, space, bounds
<1>6. ASSUME NEW p \in Procs, WriteLog(p) PROVE ListsOK'
  BY <1>6 DEF WriteLog, CommitVars, space, bounds
<1>7. ASSUME NEW p \in Procs, WriteHead(p) PROVE ListsOK'
  BY <1>7, Zenon DEF WriteHead, CommitVars, Goto, space, bounds
<1>8. ASSUME NEW p \in Procs, Install(p) PROVE ListsOK'
  BY <1>8 DEF Install, CommitVars, space, bounds
<1>9. ASSUME NEW p \in Procs, ClearHead(p) PROVE ListsOK'
  BY <1>9 DEF ClearHead, CommitVars, Goto, space, bounds
<1>10. ASSUME NEW p \in Procs, Finish(p) PROVE ListsOK'
  BY <1>10, Zenon DEF Finish, CommitVars, Wake, space, bounds
<1>11. ASSUME Crash PROVE ListsOK'
  BY <1>11 DEF Crash, space, bounds
<1>12. ASSUME RecoverRead PROVE ListsOK'
  BY <1>12, Zenon DEF RecoverRead, space, bounds
<1>13. ASSUME RecoverInstall PROVE ListsOK'
  BY <1>13 DEF RecoverInstall, space, bounds
<1>14. ASSUME RecoverClear PROVE ListsOK'
  BY <1>14 DEF RecoverClear, space, bounds
<1>15. CASE UNCHANGED vars
  BY <1>15, Zenon DEF vars, space, bounds
<1> QED
  BY <1>1, <1>2, <1>3, <1>4, <1>5, <1>6, <1>7, <1>8, <1>9, <1>10, <1>11, <1>12, <1>13, <1>14, <1>15, Zenon DEF Next, CommitStep, Recover

(* Where a commit or a recovery copies a log entry, it is an entry.        *)
LEMMA BlocksStay ==
    ASSUME TypeInv, ListInv, [Next]_vars
    PROVE  BlocksOK'
<1> USE DEF TypeInv, BlocksOK
<1>1. ASSUME NEW p \in Procs, CallBegin(p) PROVE BlocksOK'
  BY <1>1, Zenon DEF CallBegin, Goto, space, bounds
<1>2. ASSUME NEW p \in Procs, Begin(p) PROVE BlocksOK'
  BY <1>2, Zenon DEF Begin, Goto, space, bounds
<1>3. ASSUME NEW p \in Procs, BeginSleep(p) PROVE BlocksOK'
  BY <1>3, Zenon DEF BeginSleep, Goto, space, bounds
<1>4. ASSUME NEW p \in Procs, NEW b \in Home, NEW v \in Values, Write(p, b, v) PROVE BlocksOK'
  BY <1>4, Zenon DEF Write, space, bounds
<1>5. ASSUME NEW p \in Procs, End(p) PROVE BlocksOK'
  BY <1>5, Zenon DEF End, Leave, Goto, Wake, space, bounds
<1>6. ASSUME NEW p \in Procs, WriteLog(p) PROVE BlocksOK'
  <2>1. lh_block[tail + 1] \in Home
    BY <1>6 DEF WriteLog, ListsOK, lh_n
  <2> QED
    BY <1>6, <2>1, Zenon DEF WriteLog, CommitVars
<1>7. ASSUME NEW p \in Procs, WriteHead(p) PROVE BlocksOK'
  BY <1>7, Zenon DEF WriteHead, CommitVars, Goto, space, bounds
<1>8. ASSUME NEW p \in Procs, Install(p) PROVE BlocksOK'
  <2>1. tail + 1 \in 1 .. lh_n /\ lh_n \in Nat /\ lh_n <= nlog /\ lh_block[tail + 1] \in Home
    BY <1>8 DEF Install, ListInv, ListsOK, lh_n
  <2>2. tail + 1 \in Blocks
    BY <2>1, LogAssumption DEF ListsOK, Blocks, Home
  <2> QED
    BY <1>8, <2>2, Zenon DEF Install, CommitVars
<1>9. ASSUME NEW p \in Procs, ClearHead(p) PROVE BlocksOK'
  BY <1>9, Zenon DEF ClearHead, CommitVars, Goto, space, bounds
<1>10. ASSUME NEW p \in Procs, Finish(p) PROVE BlocksOK'
  BY <1>10, Zenon DEF Finish, CommitVars, Wake, space, bounds
<1>11. ASSUME Crash PROVE BlocksOK'
  BY <1>11, Zenon DEF Crash, space, bounds
<1>12. ASSUME RecoverRead PROVE BlocksOK'
  BY <1>12, Zenon DEF RecoverRead, space, bounds
<1>13. ASSUME RecoverInstall PROVE BlocksOK'
  <2>1. tail + 1 \in 1 .. lh_n /\ lh_n \in Nat /\ lh_n <= nlog /\ lh_block[tail + 1] \in Home
    BY <1>13 DEF RecoverInstall, ListInv, ListsOK, lh_n
  <2>2. tail + 1 \in Blocks
    BY <2>1, LogAssumption DEF ListsOK, Blocks, Home
  <2> QED
    BY <1>13, <2>2, Zenon DEF RecoverInstall, CommitVars
<1>14. ASSUME RecoverClear PROVE BlocksOK'
  BY <1>14, EntriesAndHomes, Zenon DEF RecoverClear, space, bounds
<1>15. CASE UNCHANGED vars
  BY <1>15, Zenon DEF vars, space, bounds
<1> QED
  BY <1>1, <1>2, <1>3, <1>4, <1>5, <1>6, <1>7, <1>8, <1>9, <1>10, <1>11, <1>12, <1>13, <1>14, <1>15, Zenon DEF Next, CommitStep, Recover

-----------------------------------------------------------------------------
(* Steps that begin and end no transaction.                                *)
SameClients ==
    /\ UNCHANGED <<clients, outstanding>>
    /\ \A q \in Procs : pc'[q] = "active" <=> pc[q] = "active"

LEMMA SameClientsKeep ==
    ASSUME ClientInv, SameClients
    PROVE  ClientInv'
<1>1. Occupied' = Occupied
  BY Zenon DEF SameClients, Occupied
<1> QED
  BY <1>1, Zenon DEF SameClients, ClientInv

LEMMA SlotIs ==
    ASSUME ClientInv, NEW p \in Procs, pc[p] = "active"
    PROVE  SlotOf(p) \in Occupied /\ clients[SlotOf(p)] = p
<1>1. \E i \in Slots : clients[i] = p
  BY Zenon DEF ClientInv
<1>2. SlotOf(p) \in Slots /\ clients[SlotOf(p)] = p
  BY <1>1, Zenon DEF SlotOf
<1> QED
  BY <1>2, LogAssumption, Zenon DEF Occupied

LEMMA BeginClients ==
    ASSUME ControlOK, ClientInv, NEW p \in Procs, Begin(p)
    PROVE  ClientInv'
<1> DEFINE i == Min(FreeSlots)
<1>1. i \in Slots /\ clients[i] = NoProc
  BY FreeSlot, Zenon DEF Begin, MayBegin
<1>2. clients' = [clients EXCEPT ![i] = p] /\ outstanding' = outstanding + 1 /\ pc[p] = "begin" /\ pc' = [pc EXCEPT ![p] = "active"]
  BY Zenon DEF Begin, Goto
<1> HIDE DEF i
<1>3. p # NoProc
  BY LogAssumption, Zenon
<1>4. i \notin Occupied /\ Occupied' = Occupied \cup {i}
  BY <1>1, <1>2, <1>3, Zenon DEF Occupied, ControlOK
<1>5. Cardinality(Occupied') = Cardinality(Occupied) + 1
  BY <1>4, OccupiedIsFinite, FS_AddElement, Zenon
<1>6. ASSUME NEW q \in Procs PROVE pc'[q] = "active" <=> \E j \in Slots : clients'[j] = q
  <2>1. CASE q = p
    BY <1>1, <1>2, <2>1, Zenon DEF ControlOK
  <2>2. CASE q # p
    <3>1. pc'[q] = pc[q]
      BY <1>2, <2>2, Zenon DEF ControlOK
    <3>2. \A j \in Slots : clients'[j] = q <=> clients[j] = q
      BY <1>1, <1>2, <2>2, LogAssumption, Zenon DEF ControlOK
    <3> QED
      BY <3>1, <3>2, Zenon DEF ClientInv
  <2> QED
    BY <2>1, <2>2, Zenon
<1>7. ASSUME NEW j \in Occupied', NEW k \in Occupied', clients'[j] = clients'[k] PROVE j = k
  <2>1. \A s \in Slots : clients[s] # p
    BY <1>2, Zenon DEF ClientInv
  <2> QED
    BY <1>1, <1>2, <1>4, <1>7, <2>1, Zenon DEF ClientInv, ControlOK, Occupied
<1> QED
  BY <1>2, <1>5, <1>6, <1>7, Zenon DEF ClientInv

LEMMA EndClients ==
    ASSUME ControlOK, ClientInv, NEW p \in Procs, End(p)
    PROVE  ClientInv' /\ (outstanding' = 0 => \A q \in Procs : pc'[q] # "active")
<1> DEFINE i == SlotOf(p)
<1>1. i \in Occupied /\ clients[i] = p
  BY SlotIs, Zenon DEF End
<1>2. clients' = [clients EXCEPT ![i] = NoProc] /\ outstanding' = outstanding - 1 /\ pc[p] = "active"
  BY Zenon DEF End, Leave
<1>3. pc'[p] # "active" /\ \A q \in Procs : q # p => (pc'[q] = "active" <=> pc[q] = "active")
  BY Zenon DEF End, Goto, Wake, ControlOK
<1> HIDE DEF i
<1>4. Occupied' = Occupied \ {i}
  BY <1>1, <1>2, Zenon DEF Occupied, ControlOK
<1>5. Cardinality(Occupied') = Cardinality(Occupied) - 1
  BY <1>1, <1>4, OccupiedIsFinite, FS_RemoveElement, Zenon
<1>6. ASSUME NEW q \in Procs PROVE pc'[q] = "active" <=> \E j \in Slots : clients'[j] = q
  <2>1. CASE q = p
    <3>1. \A j \in Slots : clients'[j] # p
      BY <1>1, <1>2, LogAssumption, Zenon DEF ControlOK, ClientInv, Occupied
    <3> QED
      BY <1>3, <2>1, <3>1, Zenon
  <2>2. CASE q # p
    <3>1. \A j \in Slots : clients'[j] = q <=> clients[j] = q
      BY <1>1, <1>2, <2>2, LogAssumption, Zenon DEF ControlOK, Occupied
    <3> QED
      BY <1>3, <2>2, <3>1, Zenon DEF ClientInv
  <2> QED
    BY <2>1, <2>2, Zenon
<1>7. ASSUME NEW j \in Occupied', NEW k \in Occupied', clients'[j] = clients'[k] PROVE j = k
  BY <1>1, <1>2, <1>4, <1>7, Zenon DEF ClientInv, ControlOK, Occupied
<1>8. ClientInv'
  BY <1>2, <1>5, <1>6, <1>7, Zenon DEF ClientInv
<1>9. ASSUME outstanding' = 0, NEW q \in Procs PROVE pc'[q] # "active"
  <2>1. IsFiniteSet(Occupied')
    BY <1>4, OccupiedIsFinite, FS_Subset, Zenon
  <2>2. Occupied' = {}
    BY <1>8, <1>9, <2>1, FS_EmptySet, Zenon DEF ClientInv
  <2>3. \A j \in Slots : clients'[j] = NoProc
    BY <2>2, Zenon DEF Occupied
  <2> QED
    BY <1>6, <2>3, LogAssumption, Zenon
<1> QED
  BY <1>8, <1>9, Zenon

LEMMA ClientsStay ==
    ASSUME ControlOK, ClientInv, [Next]_vars
    PROVE  ClientInv'
<1>1. ASSUME NEW p \in Procs, CallBegin(p) PROVE ClientInv'
  <2>1. SameClients
    BY <1>1, Zenon DEF CallBegin, Goto, SameClients, ControlOK, space
  <2> QED
    BY <2>1, SameClientsKeep, Zenon
<1>2. ASSUME NEW p \in Procs, Begin(p) PROVE ClientInv'
  BY <1>2, BeginClients, Zenon
<1>3. ASSUME NEW p \in Procs, BeginSleep(p) PROVE ClientInv'
  <2>1. SameClients
    BY <1>3, Zenon DEF BeginSleep, Goto, SameClients, ControlOK, space
  <2> QED
    BY <2>1, SameClientsKeep, Zenon
<1>4. ASSUME NEW p \in Procs, NEW b \in Home, NEW v \in Values, Write(p, b, v) PROVE ClientInv'
  <2>1. SameClients
    BY <1>4, Zenon DEF Write, SameClients, ControlOK, space
  <2> QED
    BY <2>1, SameClientsKeep, Zenon
<1>5. ASSUME NEW p \in Procs, End(p) PROVE ClientInv'
  BY <1>5, EndClients, Zenon
<1>6. ASSUME NEW p \in Procs, WriteLog(p) PROVE ClientInv'
  <2>1. SameClients
    BY <1>6, Zenon DEF WriteLog, CommitVars, SameClients, ControlOK, space
  <2> QED
    BY <2>1, SameClientsKeep, Zenon
<1>7. ASSUME NEW p \in Procs, WriteHead(p) PROVE ClientInv'
  <2>1. SameClients
    BY <1>7, Zenon DEF WriteHead, CommitVars, Goto, SameClients, ControlOK, space
  <2> QED
    BY <2>1, SameClientsKeep, Zenon
<1>8. ASSUME NEW p \in Procs, Install(p) PROVE ClientInv'
  <2>1. SameClients
    BY <1>8, Zenon DEF Install, CommitVars, SameClients, ControlOK, space
  <2> QED
    BY <2>1, SameClientsKeep, Zenon
<1>9. ASSUME NEW p \in Procs, ClearHead(p) PROVE ClientInv'
  <2>1. SameClients
    BY <1>9, Zenon DEF ClearHead, CommitVars, Goto, SameClients, ControlOK, space
  <2> QED
    BY <2>1, SameClientsKeep, Zenon
<1>10. ASSUME NEW p \in Procs, Finish(p) PROVE ClientInv'
  <2>1. SameClients
    BY <1>10, Zenon DEF Finish, CommitVars, Wake, SameClients, ControlOK, space
  <2> QED
    BY <2>1, SameClientsKeep, Zenon
<1>11. ASSUME Crash PROVE ClientInv'
  <2>1. Occupied' = {} /\ outstanding' = 0
    BY <1>11, Zenon DEF Crash, Occupied
  <2>2. Cardinality(Occupied') = 0
    BY <2>1, FS_EmptySet, Zenon
  <2>3. \A q \in Procs : pc'[q] # "active" /\ \A i \in Slots : clients'[i] # q
    BY <1>11, LogAssumption, Zenon DEF Crash
  <2> QED
    BY <2>1, <2>2, <2>3, Zenon DEF ClientInv
<1>12. ASSUME RecoverRead PROVE ClientInv'
  <2>1. SameClients
    BY <1>12, Zenon DEF RecoverRead, SameClients, ControlOK, space
  <2> QED
    BY <2>1, SameClientsKeep, Zenon
<1>13. ASSUME RecoverInstall PROVE ClientInv'
  <2>1. SameClients
    BY <1>13, Zenon DEF RecoverInstall, SameClients, ControlOK, space
  <2> QED
    BY <2>1, SameClientsKeep, Zenon
<1>14. ASSUME RecoverClear PROVE ClientInv'
  <2>1. SameClients
    BY <1>14, Zenon DEF RecoverClear, SameClients, ControlOK, space
  <2> QED
    BY <2>1, SameClientsKeep, Zenon
<1>15. CASE UNCHANGED vars
  BY <1>15, SameClientsKeep, Zenon DEF vars, space, SameClients
<1> QED
  BY <1>1, <1>2, <1>3, <1>4, <1>5, <1>6, <1>7, <1>8, <1>9, <1>10, <1>11, <1>12, <1>13, <1>14, <1>15, Zenon DEF Next, CommitStep, Recover

-----------------------------------------------------------------------------
LEMMA CommitStays ==
    ASSUME ControlOK, ClientInv, CommitInv, [Next]_vars
    PROVE  CommitInv'
<1> USE DEF CommitInv, ControlOK, Commit
<1>1. ASSUME phase = "up", NEW p \in Procs, CallBegin(p) PROVE CommitInv'
  BY <1>1, Zenon DEF CallBegin, Goto, space, bounds
<1>2. ASSUME phase = "up", NEW p \in Procs, Begin(p) PROVE CommitInv'
  BY <1>2, Zenon DEF Begin, Goto, space, bounds, MayBegin
<1>3. ASSUME phase = "up", NEW p \in Procs, BeginSleep(p) PROVE CommitInv'
  BY <1>3, Zenon DEF BeginSleep, Goto, space, bounds
<1>4. ASSUME phase = "up", NEW p \in Procs, NEW b \in Home, NEW v \in Values, Write(p, b, v) PROVE CommitInv'
  BY <1>4, Zenon DEF Write, space, bounds
<1>5. ASSUME phase = "up", NEW p \in Procs, End(p) PROVE CommitInv'
  BY <1>5, EndClients, ZenonT(30) DEF End, Leave, Goto, Wake, space, bounds
<1>6. ASSUME phase = "up", NEW p \in Procs, WriteLog(p) PROVE CommitInv'
  BY <1>6, Zenon DEF WriteLog, CommitVars, space, bounds
<1>7. ASSUME phase = "up", NEW p \in Procs, WriteHead(p) PROVE CommitInv'
  BY <1>7, Zenon DEF WriteHead, CommitVars, Goto, space, bounds
<1>8. ASSUME phase = "up", NEW p \in Procs, Install(p) PROVE CommitInv'
  BY <1>8, Zenon DEF Install, CommitVars, space, bounds
<1>9. ASSUME phase = "up", NEW p \in Procs, ClearHead(p) PROVE CommitInv'
  BY <1>9, Zenon DEF ClearHead, CommitVars, Goto, space, bounds
<1>10. ASSUME phase = "up", NEW p \in Procs, Finish(p) PROVE CommitInv'
  BY <1>10, Zenon DEF Finish, CommitVars, Wake, space, bounds
<1>11. ASSUME Crash PROVE CommitInv'
  BY <1>11, Zenon DEF Crash, space, bounds
<1>12. ASSUME RecoverRead PROVE CommitInv'
  BY <1>12, Zenon DEF RecoverRead, space, bounds
<1>13. ASSUME RecoverInstall PROVE CommitInv'
  BY <1>13, Zenon DEF RecoverInstall, space, bounds
<1>14. ASSUME RecoverClear PROVE CommitInv'
  BY <1>14, Zenon DEF RecoverClear, space, bounds
<1>15. CASE UNCHANGED vars
  BY <1>15, Zenon DEF vars, space, bounds
<1> QED
  BY <1>1, <1>2, <1>3, <1>4, <1>5, <1>6, <1>7, <1>8, <1>9, <1>10, <1>11, <1>12, <1>13, <1>14, <1>15, Zenon DEF Next, CommitStep, Recover

-----------------------------------------------------------------------------
(* What the slots of the clients have to do with the log.                  *)
LEMMA TermOfSum ==
    ASSUME NEW f \in [Slots -> Nat], NEW i \in Slots
    PROVE  f[i] <= Sum(f)
<1>1. [f EXCEPT ![i] = 0] \in [Slots -> Nat] /\ f[i] \in Nat
  BY Zenon
<1>2. Sum([f EXCEPT ![i] = 0]) \in Nat /\ Sum(f) \in Nat
  BY <1>1, SumIsNat, Zenon
<1>3. Sum([f EXCEPT ![i] = 0]) = Sum(f) + 0 - f[i]
  BY SumUpdate, Zenon
<1> QED
  BY <1>1, <1>2, <1>3

(* One that has not used what it reserved leaves room in the log.          *)
LEMMA RoomLeft ==
    ASSUME SpaceInv, phase = "up", NEW i \in Slots, blocks_used[i] < blocks_reserved[i]
    PROVE  lh_n < nlog
<1> DEFINE f == [blocks_used EXCEPT ![i] = blocks_reserved[i]]
<1>1. blocks_used \in [Slots -> Nat] /\ blocks_reserved \in [Slots -> Nat] /\ blocks_used_old_clients \in Nat
  BY Zenon DEF SpaceInv, SpaceOK
<1>2. f \in [Slots -> Nat] /\ \A j \in Slots : f[j] <= blocks_reserved[j]
  BY <1>1 DEF SpaceInv
<1>3. Sum(f) = Sum(blocks_used) + blocks_reserved[i] - blocks_used[i]
  BY <1>1, SumUpdate, Zenon
<1> HIDE DEF f
<1>4. Sum(f) <= Sum(blocks_reserved)
  BY <1>1, <1>2, SumGrows, Zenon
<1>5. Sum(f) \in Nat /\ Sum(blocks_used) \in Nat /\ Sum(blocks_reserved) \in Nat
  BY <1>1, <1>2, SumIsNat, Zenon
<1>6. blocks_reserved[i] \in Nat /\ blocks_used[i] \in Nat
  BY <1>1, Zenon
<1>7. lh_n = blocks_used_old_clients + Sum(blocks_used) /\ blocks_used_old_clients + Sum(blocks_reserved) <= nlog
  BY Zenon DEF SpaceInv
<1> QED
  BY <1>1, <1>3, <1>4, <1>5, <1>6, <1>7, LogAssumption

LEMMA LogNotOverfull ==
    ASSUME SpaceInv, phase = "up"
    PROVE  lh_n <= nlog
<1>1. blocks_used \in [Slots -> Nat] /\ blocks_reserved \in [Slots -> Nat] /\ blocks_used_old_clients \in Nat
  BY Zenon DEF SpaceInv, SpaceOK
<1>2. Sum(blocks_used) <= Sum(blocks_reserved) /\ Sum(blocks_used) \in Nat /\ Sum(blocks_reserved) \in Nat
  BY <1>1, SumGrows, SumIsNat, Zenon DEF SpaceInv
<1> QED
  BY <1>1, <1>2, LogAssumption DEF SpaceInv

(* size_t available does not wrap.                                         *)
LEMMA AvailableIs ==
    ASSUME SpaceInv
    PROVE  /\ Available = nlog - (blocks_used_old_clients + Sum(blocks_reserved))
           /\ Available \in Nat
<1> DEFINE x == nlog - (blocks_used_old_clients + Sum(blocks_reserved))
<1>1. Sum(blocks_reserved) \in Nat /\ blocks_used_old_clients \in Nat
  BY SumIsNat, Zenon DEF SpaceInv, SpaceOK
<1>2. x \in Nat /\ x < WORD /\ WORD \in Nat
  BY <1>1, LogAssumption DEF SpaceInv
<1>3. Available = x % WORD
  BY Zenon DEF Available
<1> HIDE DEF x
<1>4. x % WORD = x
  BY <1>2
<1> QED
  BY <1>2, <1>3, <1>4, Zenon DEF x

(* Steps that touch neither the accounts nor the list of blocks.           *)
SameSpace ==
    /\ UNCHANGED <<clients, blocks_used, blocks_reserved, blocks_used_old_clients, lh_block, phase>>
    /\ req' \in [Procs -> Nat \X Nat]

LEMMA SameSpaceKeeps ==
    ASSUME SpaceInv, SameSpace
    PROVE  SpaceInv'
  BY Zenon DEF SpaceInv, SpaceOK, SameSpace, lh_n

LEMMA BeginSpace ==
    ASSUME ControlOK, SpaceInv, NEW p \in Procs, phase = "up", Begin(p)
    PROVE  SpaceInv'
<1> DEFINE i == Min(FreeSlots)
           v == Min({Available, req[p][2]})
<1>1. i \in Slots /\ clients[i] = NoProc
  BY FreeSlot, Zenon DEF Begin, MayBegin
<1>2. /\ clients' = [clients EXCEPT ![i] = p]
      /\ blocks_reserved' = [blocks_reserved EXCEPT ![i] = v]
      /\ blocks_used' = [blocks_used EXCEPT ![i] = 0]
      /\ UNCHANGED <<blocks_used_old_clients, lh_block, phase, req>>
  BY Zenon DEF Begin
<1>3. Available \in Nat /\ req[p][2] \in Nat
  BY AvailableIs, Zenon DEF SpaceInv, SpaceOK
<1>4. v \in Nat /\ v <= Available
  <2>1. {Available, req[p][2]} \in SUBSET Nat /\ {Available, req[p][2]} # {}
    BY <1>3, Zenon
  <2>2. PICK x \in {Available, req[p][2]} : \A y \in {Available, req[p][2]} : x =< y
    BY <2>1, Least, Zenon
  <2>3. v \in {Available, req[p][2]} /\ \A y \in {Available, req[p][2]} : v =< y
    BY <2>2, Zenon DEF Min
  <2> QED
    BY <1>3, <2>3, Zenon
<1> HIDE DEF i, v
<1>5. blocks_used \in [Slots -> Nat] /\ blocks_reserved \in [Slots -> Nat] /\ blocks_used_old_clients \in Nat
  BY Zenon DEF SpaceInv, SpaceOK
<1>6. blocks_reserved[i] = 0 /\ blocks_used[i] = 0
  BY <1>1, <1>5 DEF SpaceInv
<1>7. blocks_used' = blocks_used
  BY <1>2, <1>5, <1>6, Zenon
<1>8. Sum(blocks_reserved') = Sum(blocks_reserved) + v - 0
  BY <1>1, <1>2, <1>4, <1>5, <1>6, SumUpdate, Zenon
<1>9. blocks_reserved' \in [Slots -> Nat] /\ blocks_reserved'[i] = v /\ \A j \in Slots : j # i => blocks_reserved'[j] = blocks_reserved[j]
  BY <1>1, <1>2, <1>4, <1>5, Zenon
<1>10. \A j \in Slots : clients'[j] = NoProc => j # i /\ clients[j] = NoProc
  BY <1>1, <1>2, LogAssumption, Zenon DEF ControlOK
<1>11. SpaceOK'
  BY <1>2, <1>5, <1>7, <1>9, Zenon DEF SpaceInv, SpaceOK
<1>12. \A j \in Slots : blocks_used'[j] <= blocks_reserved'[j]
  BY <1>4, <1>5, <1>6, <1>7, <1>9 DEF SpaceInv
<1>13. \A j \in Slots : clients'[j] = NoProc => blocks_reserved'[j] = 0
  BY <1>9, <1>10, Zenon DEF SpaceInv
<1>14. lh_n' = blocks_used_old_clients' + Sum(blocks_used')
  BY <1>2, <1>7, Zenon DEF SpaceInv, lh_n
<1>15. blocks_used_old_clients' + Sum(blocks_reserved') <= nlog
  <2>1. Sum(blocks_reserved) \in Nat
    BY <1>5, SumIsNat, Zenon
  <2>2. v <= nlog - (blocks_used_old_clients + Sum(blocks_reserved))
    BY <1>4, AvailableIs, Zenon
  <2> QED
    BY <1>2, <1>4, <1>5, <1>8, <2>1, <2>2, LogAssumption
<1> QED
  BY <1>2, <1>11, <1>12, <1>13, <1>14, <1>15, Zenon DEF SpaceInv

LEMMA WriteSpace ==
    ASSUME ControlOK, ListsOK, ClientInv, SpaceInv, NEW p \in Procs, phase = "up",
           NEW b \in Home, NEW v \in Values, Write(p, b, v)
    PROVE  SpaceInv'
<1> DEFINE i == SlotOf(p)
<1>1. i \in Slots /\ clients[i] = p
  BY SlotIs, Zenon DEF Write, Occupied
<1>2. UNCHANGED <<clients, blocks_reserved, blocks_used_old_clients, req, phase>>
  BY Zenon DEF Write
<1>3. blocks_used \in [Slots -> Nat] /\ blocks_reserved \in [Slots -> Nat] /\ blocks_used_old_clients \in Nat
  BY Zenon DEF SpaceInv, SpaceOK
<1>4. CASE UNCHANGED <<lh_block, blocks_used>>
  <2>1. SameSpace
    BY <1>2, <1>4, Zenon DEF SameSpace, SpaceInv, SpaceOK
  <2> QED
    BY <2>1, SameSpaceKeeps, Zenon
<1>5. CASE /\ lh_block' = Append(lh_block, b)
           /\ blocks_used' = [blocks_used EXCEPT ![i] = blocks_used[i] + 1]
           /\ blocks_used[i] < blocks_reserved[i]
  <2> HIDE DEF i
  <2>1. blocks_used' \in [Slots -> Nat] /\ blocks_used'[i] = blocks_used[i] + 1 /\ \A j \in Slots : j # i => blocks_used'[j] = blocks_used[j]
    BY <1>1, <1>3, <1>5
  <2>2. Sum(blocks_used') = Sum(blocks_used) + (blocks_used[i] + 1) - blocks_used[i]
    <3>1. blocks_used[i] + 1 \in Nat
      BY <1>1, <1>3
    <3> QED
      BY <1>1, <1>3, <1>5, <3>1, SumUpdate, Zenon
  <2>3. Sum(blocks_used) \in Nat /\ blocks_used[i] \in Nat /\ blocks_reserved[i] \in Nat
    BY <1>1, <1>3, SumIsNat, Zenon
  <2>4. lh_n' = lh_n + 1 /\ lh_n \in Nat
    BY <1>5 DEF lh_n, ListsOK
  <2>5. lh_n' = blocks_used_old_clients' + Sum(blocks_used')
    BY <1>2, <1>3, <2>2, <2>3, <2>4 DEF SpaceInv
  <2>6. \A j \in Slots : blocks_used'[j] <= blocks_reserved'[j]
    BY <1>2, <1>3, <1>5, <2>1, <2>3 DEF SpaceInv
  <2>7. SpaceOK'
    BY <1>2, <2>1, Zenon DEF SpaceInv, SpaceOK
  <2> QED
    BY <1>2, <2>5, <2>6, <2>7, Zenon DEF SpaceInv
<1> QED
  BY <1>4, <1>5, Zenon DEF Write

LEMMA EndSpace ==
    ASSUME ControlOK, ClientInv, SpaceInv, NEW p \in Procs, phase = "up", End(p)
    PROVE  SpaceInv'
<1> DEFINE i == SlotOf(p)
<1>1. i \in Slots /\ clients[i] = p
  BY SlotIs, Zenon DEF End, Occupied
<1>2. /\ clients' = [clients EXCEPT ![i] = NoProc]
      /\ blocks_used_old_clients' = blocks_used_old_clients + blocks_used[i]
      /\ blocks_used' = [blocks_used EXCEPT ![i] = 0]
      /\ blocks_reserved' = [blocks_reserved EXCEPT ![i] = 0]
      /\ UNCHANGED <<lh_block, phase, req>>
  BY Zenon DEF End, Leave
<1> HIDE DEF i
<1>3. blocks_used \in [Slots -> Nat] /\ blocks_reserved \in [Slots -> Nat] /\ blocks_used_old_clients \in Nat
  BY Zenon DEF SpaceInv, SpaceOK
<1>4. Sum(blocks_used') = Sum(blocks_used) + 0 - blocks_used[i] /\ Sum(blocks_reserved') = Sum(blocks_reserved) + 0 - blocks_reserved[i]
  BY <1>1, <1>2, <1>3, SumUpdate, Zenon
<1>5. /\ Sum(blocks_used) \in Nat /\ Sum(blocks_reserved) \in Nat
      /\ blocks_used[i] \in Nat /\ blocks_reserved[i] \in Nat /\ blocks_used[i] <= blocks_reserved[i]
  BY <1>1, <1>3, SumIsNat, Zenon DEF SpaceInv
<1>6. blocks_used' \in [Slots -> Nat] /\ blocks_reserved' \in [Slots -> Nat]
  BY <1>1, <1>2, <1>3, Zenon
<1>7. \A j \in Slots : /\ blocks_used'[j] = IF j = i THEN 0 ELSE blocks_used[j]
                       /\ blocks_reserved'[j] = IF j = i THEN 0 ELSE blocks_reserved[j]
                       /\ j # i => clients'[j] = clients[j]
  BY <1>1, <1>2, <1>3, Zenon DEF ControlOK
<1>8. SpaceOK'
  BY <1>2, <1>3, <1>5, <1>6 DEF SpaceInv, SpaceOK
<1>9. \A j \in Slots : blocks_used'[j] <= blocks_reserved'[j] /\ (clients'[j] = NoProc => blocks_reserved'[j] = 0)
  BY <1>7 DEF SpaceInv
<1>10. lh_n' = blocks_used_old_clients' + Sum(blocks_used')
  <2>1. lh_n = blocks_used_old_clients + Sum(blocks_used)
    BY Zenon DEF SpaceInv
  <2>2. lh_n' = lh_n /\ blocks_used_old_clients' = blocks_used_old_clients + blocks_used[i]
    BY <1>2, Zenon DEF lh_n
  <2> QED
    BY <1>3, <1>4, <1>5, <2>1, <2>2
<1>11. blocks_used_old_clients' + Sum(blocks_reserved') <= nlog
  BY <1>2, <1>3, <1>4, <1>5, LogAssumption DEF SpaceInv
<1> QED
  BY <1>2, <1>8, <1>9, <1>10, <1>11, Zenon DEF SpaceInv

(* A commit and a recovery find no client; nothing is used or reserved.    *)
LEMMA NothingUsed ==
    ASSUME SpaceInv, \A i \in Slots : blocks_reserved[i] = 0
    PROVE  Sum(blocks_used) = 0 /\ Sum(blocks_reserved) = 0
<1>1. blocks_used \in [Slots -> Nat] /\ blocks_reserved \in [Slots -> Nat]
  BY Zenon DEF SpaceInv, SpaceOK
<1>2. \A i \in Slots : blocks_used[i] = 0
  BY <1>1 DEF SpaceInv
<1> QED
  BY <1>1, <1>2, SumOfNothing, Zenon

LEMMA ClearSpace ==
    ASSUME ControlOK, ClientInv, CommitInv, SpaceInv, NEW p \in Procs, phase = "up", ClearHead(p)
    PROVE  SpaceInv'
<1>1. \A q \in Procs : pc[q] # "active"
  BY Zenon DEF ClearHead, CommitInv, Commit
<1>2. \A i \in Slots : clients[i] = NoProc
  BY <1>1 DEF ClientInv, ControlOK
<1>3. \A i \in Slots : blocks_reserved[i] = 0
  BY <1>2, Zenon DEF SpaceInv
<1>4. Sum(blocks_used) = 0 /\ Sum(blocks_reserved) = 0
  BY <1>3, NothingUsed, Zenon
<1>5. lh_block' = << >> /\ blocks_used_old_clients' = 0 /\ UNCHANGED <<clients, blocks_used, blocks_reserved, req, phase>>
  BY Zenon DEF ClearHead, CommitVars
<1>6. lh_n' = 0
  BY <1>5, Zenon DEF lh_n
<1> QED
  BY <1>4, <1>5, <1>6, LogAssumption DEF SpaceInv, SpaceOK

LEMMA RecoverSpace ==
    ASSUME SpaceInv, RecoverClear
    PROVE  SpaceInv'
<1>1. blocks_used_old_clients = 0 /\ \A i \in Slots : blocks_reserved[i] = 0
  BY Zenon DEF SpaceInv, RecoverClear
<1>2. Sum(blocks_used) = 0 /\ Sum(blocks_reserved) = 0
  BY <1>1, NothingUsed, Zenon
<1>3. lh_block' = << >> /\ phase' = "up" /\ UNCHANGED <<clients, blocks_used, blocks_reserved, blocks_used_old_clients, req>>
  BY Zenon DEF RecoverClear, space
<1>4. lh_n' = 0
  BY <1>3, Zenon DEF lh_n
<1> QED
  BY <1>1, <1>2, <1>3, <1>4, LogAssumption, SMTT(30) DEF SpaceInv, SpaceOK

LEMMA CrashSpace ==
    ASSUME Crash
    PROVE  SpaceInv'
<1>1. /\ blocks_used' = [i \in Slots |-> 0] /\ blocks_reserved' = [i \in Slots |-> 0]
      /\ blocks_used_old_clients' = 0 /\ phase' = "read" /\ req' = [p \in Procs |-> <<0, 0>>]
  BY Zenon DEF Crash
<1>2. [i \in Slots |-> 0] \in [Slots -> Nat] /\ \A i \in Slots : [j \in Slots |-> 0][i] = 0
  BY Zenon
<1>3. Sum([i \in Slots |-> 0]) = 0
  BY <1>2, SumOfNothing, Zenon
<1> QED
  BY <1>1, <1>2, <1>3, LogAssumption DEF SpaceInv, SpaceOK

LEMMA SpaceStays ==
    ASSUME ControlOK, ListsOK, ClientInv, CommitInv, SpaceInv, [Next]_vars
    PROVE  SpaceInv'
<1>1. ASSUME NEW p \in Procs, CallBegin(p) PROVE SpaceInv'
  <2>1. SameSpace
    BY <1>1, LogAssumption, Zenon DEF CallBegin, SameSpace, SpaceInv, SpaceOK, space
  <2> QED
    BY <2>1, SameSpaceKeeps, Zenon
<1>2. ASSUME phase = "up", NEW p \in Procs, Begin(p) PROVE SpaceInv'
  BY <1>2, BeginSpace, Zenon
<1>4. ASSUME phase = "up", NEW p \in Procs, NEW b \in Home, NEW v \in Values, Write(p, b, v) PROVE SpaceInv'
  BY <1>4, WriteSpace, Zenon
<1>5. ASSUME phase = "up", NEW p \in Procs, End(p) PROVE SpaceInv'
  BY <1>5, EndSpace, Zenon
<1>9. ASSUME phase = "up", NEW p \in Procs, ClearHead(p) PROVE SpaceInv'
  BY <1>9, ClearSpace, Zenon
<1>11. ASSUME Crash PROVE SpaceInv'
  BY <1>11, CrashSpace, Zenon
<1>12. ASSUME RecoverRead PROVE SpaceInv'
  BY <1>12, Zenon DEF RecoverRead, space, SpaceInv, SpaceOK
<1>14. ASSUME RecoverClear PROVE SpaceInv'
  BY <1>14, RecoverSpace, Zenon
<1>15. ASSUME \/ \E p \in Procs : BeginSleep(p) \/ WriteLog(p) \/ WriteHead(p) \/ Install(p) \/ Finish(p)
              \/ RecoverInstall
              \/ UNCHANGED vars
       PROVE SpaceInv'
  <2>1. UNCHANGED <<clients, blocks_used, blocks_reserved, blocks_used_old_clients, lh_block, phase, req>>
    BY <1>15, Zenon DEF BeginSleep, WriteLog, WriteHead, Install, Finish, RecoverInstall, vars, CommitVars, space
  <2>2. SameSpace
    BY <2>1, Zenon DEF SameSpace, SpaceInv, SpaceOK
  <2> QED
    BY <2>2, SameSpaceKeeps, Zenon
<1> QED
  BY <1>1, <1>2, <1>4, <1>5, <1>9, <1>11, <1>12, <1>14, <1>15, Zenon DEF Next, CommitStep, Recover

-----------------------------------------------------------------------------
LEMMA AppendNew ==
    ASSUME NEW s \in Seq(Home), Distinct(s), NEW b \in Home, \A k \in 1 .. Len(s) : s[k] # b
    PROVE  Distinct(Append(s, b)) /\ Len(Append(s, b)) = Len(s) + 1
<1>1. Len(Append(s, b)) = Len(s) + 1 /\ Append(s, b)[Len(s) + 1] = b /\ \A k \in 1 .. Len(s) : Append(s, b)[k] = s[k]
  OBVIOUS
<1> QED
  BY <1>1 DEF Distinct

LEMMA ListInvStays ==
    ASSUME ListsOK, ListInv, SpaceInv, SpaceInv', [Next]_vars
    PROVE  ListInv'
<1>1. CASE UNCHANGED <<lh_block, header>>
  BY <1>1, Zenon DEF ListInv, lh_n
<1>2. ASSUME phase = "up", NEW p \in Procs, NEW b \in Home, NEW v \in Values, Write(p, b, v) PROVE ListInv'
  <2>1. CASE lh_block' = lh_block
    BY <1>1, <1>2, <2>1, Zenon DEF Write
  <2>2. CASE lh_block' = Append(lh_block, b) /\ ~InLog(b) /\ ~(lh_n >= nlog)
    <3>1. Distinct(lh_block')
      BY <2>2, AppendNew, Zenon DEF ListInv, ListsOK, InLog, lh_n
    <3>2. header' = header /\ phase' = "up"
      BY <1>2, Zenon DEF Write
    <3>3. lh_n' <= nlog
      <4>1. Len(Append(lh_block, b)) = lh_n + 1 /\ lh_n \in Nat
        BY DEF ListsOK, lh_n
      <4> QED
        BY <2>2, <4>1, LogAssumption DEF lh_n
    <3> QED
      BY <3>1, <3>2, <3>3, Zenon DEF ListInv
  <2> QED
    BY <1>2, <2>1, <2>2, ZenonT(30) DEF Write
<1>3. ASSUME NEW p \in Procs, WriteHead(p) PROVE ListInv'
  BY <1>3, Zenon DEF WriteHead, ListInv, lh_n
<1>4. ASSUME lh_block' = << >>, header' \in {header, << >>} PROVE ListInv'
  BY <1>4, LogAssumption DEF ListInv, Distinct, lh_n
<1>5. ASSUME RecoverRead PROVE ListInv'
  BY <1>5, Zenon DEF RecoverRead, ListInv, lh_n
<1>6. ASSUME \/ Crash \/ RecoverClear
             \/ \E p \in Procs : ClearHead(p)
      PROVE ListInv'
  BY <1>4, <1>6, Zenon DEF Crash, RecoverClear, ClearHead
<1>7. ASSUME \/ \E p \in Procs : CallBegin(p) \/ Begin(p) \/ BeginSleep(p) \/ End(p) \/ WriteLog(p) \/ Install(p) \/ Finish(p)
             \/ RecoverInstall
             \/ UNCHANGED vars
      PROVE ListInv'
  <2>1. UNCHANGED <<lh_block, header>>
    BY <1>7, Zenon DEF CallBegin, Begin, BeginSleep, End, WriteLog, Install, Finish, RecoverInstall, vars
  <2> QED
    BY <1>1, <2>1, Zenon
<1> QED
  BY <1>2, <1>3, <1>5, <1>6, <1>7, Zenon DEF Next, CommitStep, Recover

(* A list of home blocks without repetition is no longer than there are.   *)
LEMMA NoMoreThanHome ==
    ASSUME NEW s \in Seq(Home), Distinct(s)
    PROVE  Len(s) <= nhome
<1>1. Len(s) \in Nat /\ s \in [1 .. Len(s) -> Home]
  OBVIOUS
<1>2. s \in Injection(1 .. Len(s), Home)
  BY <1>1, Zenon DEF Distinct, Injection, IsInjective
<1>3. IsFiniteSet(Home) /\ Cardinality(Home) = nhome
  BY FS_Interval, LogAssumption DEF Home
<1>4. Cardinality(1 .. Len(s)) = Len(s)
  BY <1>1, FS_Interval
<1>5. Cardinality(1 .. Len(s)) <= Cardinality(Home)
  BY <1>2, <1>3, FS_Injection, Zenon
<1> QED
  BY <1>3, <1>4, <1>5, Zenon

LEMMA FlagsStay ==
    ASSUME ListsOK, ListInv, FlagsOK, [Next]_vars
    PROVE  FlagsOK'
<1>1. CASE panicked' = panicked /\ committing' \in {committing, TRUE, FALSE}
  BY <1>1, Zenon DEF FlagsOK
<1>2. ASSUME NEW p \in Procs, NEW b \in Home, NEW v \in Values, Write(p, b, v) PROVE FlagsOK'
  <2>1. panicked' = (lh_n >= nlog) /\ committing' = committing
    BY <1>2, Zenon DEF Write
  <2>2. lh_n <= nhome /\ lh_n \in Nat
    BY NoMoreThanHome DEF ListsOK, ListInv, lh_n
  <2>3. nhome < nlog => ~(lh_n >= nlog)
    BY <2>2, LogAssumption
  <2>4. panicked' \in BOOLEAN
    BY <2>1
  <2>5. committing' \in BOOLEAN
    BY <2>1, Zenon DEF FlagsOK
  <2> QED
    BY <2>1, <2>3, <2>4, <2>5, Zenon DEF FlagsOK
<1>3. ASSUME \/ \E p \in Procs : CallBegin(p) \/ Begin(p) \/ BeginSleep(p) \/ End(p) \/ CommitStep(p)
             \/ Recover \/ Crash
             \/ UNCHANGED vars
      PROVE FlagsOK'
  <2>1. panicked' = panicked /\ committing' \in {committing, TRUE, FALSE}
    BY <1>3, Zenon DEF CallBegin, Begin, BeginSleep, End, CommitStep, WriteLog, WriteHead, Install, ClearHead, Finish,
        CommitVars, Recover, RecoverRead, RecoverInstall, RecoverClear, Crash, vars
  <2> QED
    BY <1>1, <2>1, Zenon
<1> QED
  BY <1>2, <1>3, Zenon DEF Next

LEMMA SafeInductive == Spec => []SafeInv
<1>1. Init => SafeInv
  <2> SUFFICES ASSUME Init PROVE SafeInv
    BY Zenon
  <2>1. TypeInv
    BY EntriesAndHomes DEF Init, TypeInv, ControlOK, ListsOK, BlocksOK, Blocks, Labels
  <2>2. Occupied = {}
    BY Zenon DEF Init, Occupied
  <2>3. Cardinality(Occupied) = 0
    BY <2>2, FS_EmptySet, Zenon
  <2>4. ClientInv
    BY <2>2, <2>3, LogAssumption, Zenon DEF Init, ClientInv
  <2>5. CommitInv
    BY Zenon DEF Init, CommitInv, Commit
  <2>6. ListInv
    BY LogAssumption DEF Init, ListInv, Distinct, lh_n
  <2>7. Sum([i \in Slots |-> 0]) = 0
    <3>1. [i \in Slots |-> 0] \in [Slots -> Nat] /\ \A i \in Slots : [j \in Slots |-> 0][i] = 0
      BY Zenon
    <3> QED
      BY <3>1, SumOfNothing, Zenon
  <2>8. SpaceInv
    BY <2>7, LogAssumption DEF Init, SpaceInv, SpaceOK, lh_n
  <2>9. FlagsOK
    BY Zenon DEF Init, FlagsOK
  <2> QED
    BY <2>1, <2>4, <2>5, <2>6, <2>8, <2>9, Zenon DEF SafeInv
<1>2. SafeInv /\ [Next]_vars => SafeInv'
  <2> SUFFICES ASSUME SafeInv, [Next]_vars PROVE SafeInv'
    BY Zenon
  <2>1. TypeInv /\ ClientInv /\ CommitInv /\ ListInv /\ SpaceInv /\ FlagsOK /\ ControlOK /\ ListsOK
    BY Zenon DEF SafeInv, TypeInv
  <2>2. TypeInv'
    BY <2>1, ControlStays, ListsStay, BlocksStay, Zenon DEF TypeInv
  <2>3. ClientInv' /\ CommitInv' /\ SpaceInv' /\ FlagsOK'
    BY <2>1, ClientsStay, CommitStays, SpaceStays, FlagsStay, Zenon
  <2>4. ListInv'
    BY <2>1, <2>3, ListInvStays, Zenon
  <2> QED
    BY <2>2, <2>3, <2>4, Zenon DEF SafeInv
<1> QED
  BY <1>1, <1>2, PTL DEF Spec

(* The accounts of log.c are exact and never exceed the log, so size_t     *)
(* available does not wrap, and a client finds room for every block it     *)
(* reserved; where the home blocks are fewer than the log's, write_log()   *)
(* stays inside the log and log_write() never panics.  For any sizes,      *)
(* requests, number of clients and crashes.                                *)
THEOREM LogIsSafe == Spec => []LogSafe
<1>1. SafeInv => LogSafe
  <2> SUFFICES ASSUME SafeInv PROVE LogSafe
    BY Zenon
  <2>1. TypeInv /\ ClientInv /\ CommitInv /\ ListInv /\ SpaceInv /\ FlagsOK /\ ControlOK /\ ListsOK
    BY Zenon DEF SafeInv, TypeInv
  <2>2. outstanding \in Nat
    BY <2>1, OccupiedIsFinite, FS_CardinalityType, Zenon DEF ClientInv
  <2>3. blocks_reserved \in [Slots -> 0 .. (WORD - 1)]
    <3>1. blocks_reserved \in [Slots -> Nat] /\ blocks_used_old_clients \in Nat
      BY <2>1, Zenon DEF SpaceInv, SpaceOK
    <3>2. Sum(blocks_reserved) \in Nat
      BY <3>1, SumIsNat, Zenon
    <3>3. Sum(blocks_reserved) < WORD
      BY <2>1, <3>1, <3>2, LogAssumption DEF SpaceInv
    <3>4. ASSUME NEW i \in Slots PROVE blocks_reserved[i] \in 0 .. (WORD - 1)
      <4>1. blocks_reserved[i] <= Sum(blocks_reserved) /\ blocks_reserved[i] \in Nat
        BY <3>1, TermOfSum, Zenon
      <4> QED
        BY <3>2, <3>3, <4>1, LogAssumption
    <3> QED
      BY <3>1, <3>4, Zenon
  <2>4. TypeOK
    BY <2>1, <2>2, <2>3, Zenon DEF TypeOK, TypeInv, ControlOK, ListsOK, BlocksOK, Blocks, SpaceInv, SpaceOK, FlagsOK
  <2>5. Accounting
    BY <2>1, Zenon DEF Accounting, ClientInv, Occupied, SpaceInv
  <2>6. lh_n <= nhome /\ lh_n \in Nat
    BY <2>1, NoMoreThanHome DEF ListsOK, ListInv, lh_n
  <2>7. nhome < nlog => EntriesInLog
    BY <2>6, LogAssumption DEF EntriesInLog
  <2>8. ReservedNeverPanics
    BY <2>1, RoomLeft, Zenon DEF ReservedNeverPanics, FlagsOK
  <2> QED
    BY <2>4, <2>5, <2>7, <2>8, Zenon DEF LogSafe
<1> QED
  BY <1>1, SafeInductive, PTL

-----------------------------------------------------------------------------
(* A step that leaves the blocks, the list and the commit alone.           *)
LEMMA DiskUntouched ==
    ASSUME DiskInv, UNCHANGED <<disk, header, cache, lh_block, tail, phase, panicked>>,
           \A q \in Procs : (pc'[q] = "write_log" <=> pc[q] = "write_log") /\ (pc'[q] = "install" <=> pc[q] = "install")
    PROVE  DiskInv'
<1>1. /\ Distinct(lh_block') = Distinct(lh_block) /\ Distinct(header') = Distinct(header)
      /\ lh_n' = lh_n /\ \A b : InLog(b)' <=> InLog(b)
  BY Zenon DEF Distinct, InLog, lh_n
<1>2. Copied(tail)' = Copied(tail) /\ Copied(lh_n)' = Copied(lh_n) /\ Installed(tail)' = Installed(tail)
  BY <1>1, Zenon DEF Copied, Installed
<1> QED
  BY <1>1, <1>2, Zenon DEF DiskInv

LEMMA DiskStays ==
    ASSUME TypeInv, ClientInv, CommitInv, DiskInv, EntriesInLog, [Next]_vars
    PROVE  DiskInv'
<1> USE DEF TypeInv, ControlOK, ListsOK, BlocksOK, DiskInv, InLog, lh_n, Distinct, Copied, Installed
<1>1. ASSUME ~panicked, phase = "up", NEW p \in Procs, CallBegin(p) PROVE DiskInv'
  <2>1. /\ UNCHANGED <<disk, header, cache, lh_block, tail, phase, panicked>>
        /\ pc[p] = "user" /\ pc' = [pc EXCEPT ![p] = "begin"]
    BY <1>1, Zenon DEF CallBegin, Goto
  <2>2. \A q \in Procs : (pc'[q] = "write_log" <=> pc[q] = "write_log") /\ (pc'[q] = "install" <=> pc[q] = "install")
    BY <2>1, Zenon
  <2> QED
    BY <2>1, <2>2, DiskUntouched, Zenon
<1>2. ASSUME ~panicked, phase = "up", NEW p \in Procs, Begin(p) PROVE DiskInv'
  <2>1. /\ UNCHANGED <<disk, header, cache, lh_block, tail, phase, panicked>>
        /\ pc[p] = "begin" /\ pc' = [pc EXCEPT ![p] = "active"]
    BY <1>2, Zenon DEF Begin, Goto
  <2>2. \A q \in Procs : (pc'[q] = "write_log" <=> pc[q] = "write_log") /\ (pc'[q] = "install" <=> pc[q] = "install")
    BY <2>1, Zenon
  <2> QED
    BY <2>1, <2>2, DiskUntouched, Zenon
<1>3. ASSUME ~panicked, phase = "up", NEW p \in Procs, BeginSleep(p) PROVE DiskInv'
  <2>1. /\ UNCHANGED <<disk, header, cache, lh_block, tail, phase, panicked>>
        /\ pc[p] = "begin" /\ pc' = [pc EXCEPT ![p] = "asleep"]
    BY <1>3, Zenon DEF BeginSleep, Goto
  <2>2. \A q \in Procs : (pc'[q] = "write_log" <=> pc[q] = "write_log") /\ (pc'[q] = "install" <=> pc[q] = "install")
    BY <2>1, Zenon
  <2> QED
    BY <2>1, <2>2, DiskUntouched, Zenon
<1>4. ASSUME ~panicked, phase = "up", NEW p \in Procs, NEW b \in Home, NEW v \in Values, Write(p, b, v) PROVE DiskInv'
  <2>1. header = << >> /\ UNCHANGED <<disk, header, pc, phase>> /\ cache' = [cache EXCEPT ![b] = v]
    BY <1>4, ZenonT(30) DEF Write, CommitInv, Commit
  <2>2. \A q \in Procs : pc'[q] \notin {"write_log", "install"}
    BY <1>4, <2>1 DEF Write, CommitInv, Commit
  <2>3. CASE lh_block' = lh_block /\ (InLog(b) \/ panicked')
    BY <1>4, <2>1, <2>2, <2>3
  <2>4. CASE lh_block' = Append(lh_block, b) /\ ~InLog(b)
    <3>1. Len(lh_block') = lh_n + 1 /\ lh_block'[lh_n + 1] = b /\ \A k \in 1 .. lh_n : lh_block'[k] = lh_block[k]
      BY <2>4
    <3>2. Distinct(lh_block')
      BY <2>4, <3>1
    <3>3. \A c \in Home : ~InLog(c)' => ~InLog(c) /\ c # b
      BY <3>1
    <3>4. ~panicked' => \A c \in Home : ~InLog(c)' => disk'[c] = cache'[c]
      BY <1>4, <2>1, <3>3, Zenon
    <3> QED
      BY <1>4, <2>1, <2>2, <3>2, <3>4
  <2> QED
    BY <1>4, <2>3, <2>4, ZenonT(30) DEF Write
<1>5. ASSUME ~panicked, phase = "up", NEW p \in Procs, End(p) PROVE DiskInv'
  <2>1. UNCHANGED <<disk, header, cache, lh_block, phase, panicked>> /\ tail' = 0 /\ pc[p] = "active"
    BY <1>5, Zenon DEF End
  <2>2. \A q \in Procs : pc[q] # "install" /\ pc'[q] # "install"
    BY <1>5, <2>1 DEF End, Goto, Wake, CommitInv, Commit
  <2>3. header = << >>
    BY <1>5, <2>2, Zenon
  <2>4. lh_n' = lh_n /\ lh_n \in Nat /\ Copied(0)'
    BY <2>1
  <2> QED
    BY <1>5, <2>1, <2>2, <2>3, <2>4
<1>6. ASSUME ~panicked, phase = "up", NEW p \in Procs, WriteLog(p) PROVE DiskInv'
  BY <1>6, LogAssumption, EntriesAndHomes DEF WriteLog, CommitVars, space, bounds, CommitInv, Commit, EntriesInLog
<1>7. ASSUME ~panicked, phase = "up", NEW p \in Procs, WriteHead(p) PROVE DiskInv'
  BY <1>7, LogAssumption, EntriesAndHomes DEF WriteHead, CommitVars, Goto, space, bounds, CommitInv, Commit, EntriesInLog
<1>8. ASSUME ~panicked, phase = "up", NEW p \in Procs, Install(p) PROVE DiskInv'
  BY <1>8, LogAssumption, EntriesAndHomes, SMTT(30) DEF Install, CommitVars, space, bounds, CommitInv, Commit, EntriesInLog
<1>9. ASSUME ~panicked, phase = "up", NEW p \in Procs, ClearHead(p) PROVE DiskInv'
  BY <1>9, LogAssumption, EntriesAndHomes, SMTT(30) DEF ClearHead, CommitVars, Goto, space, bounds, CommitInv, Commit, EntriesInLog
<1>10. ASSUME ~panicked, phase = "up", NEW p \in Procs, Finish(p) PROVE DiskInv'
  BY <1>10, LogAssumption, EntriesAndHomes, SMTT(30) DEF Finish, CommitVars, Wake, space, bounds, CommitInv, Commit, EntriesInLog
<1>11. ASSUME ~panicked, Crash PROVE DiskInv'
  BY <1>11, LogAssumption, EntriesAndHomes, SMTT(30) DEF Crash, space, bounds, CommitInv, Commit, EntriesInLog
<1>12. ASSUME ~panicked, RecoverRead PROVE DiskInv'
  BY <1>12, LogAssumption, EntriesAndHomes, SMTT(30) DEF RecoverRead, space, bounds, CommitInv, Commit, EntriesInLog
<1>13. ASSUME ~panicked, RecoverInstall PROVE DiskInv'
  BY <1>13, LogAssumption, EntriesAndHomes, SMTT(30) DEF RecoverInstall, space, bounds, CommitInv, Commit, EntriesInLog
<1>14. ASSUME ~panicked, RecoverClear PROVE DiskInv'
  BY <1>14, LogAssumption, EntriesAndHomes, SMTT(30) DEF RecoverClear, space, bounds, CommitInv, Commit, EntriesInLog
<1>15. CASE UNCHANGED vars
  BY <1>15, LogAssumption, EntriesAndHomes DEF vars, space, bounds, CommitInv, Commit, EntriesInLog
<1> QED
  BY <1>1, <1>2, <1>3, <1>4, <1>5, <1>6, <1>7, <1>8, <1>9, <1>10, <1>11, <1>12, <1>13, <1>14, <1>15, ZenonT(30) DEF Next, CommitStep, Recover

LEMMA LogInductive == Spec /\ []EntriesInLog => []IInv
<1>1. Init => DiskInv
  BY LogAssumption DEF Init, DiskInv, Distinct, InLog, lh_n, Home
<1>2. SafeInv /\ DiskInv /\ EntriesInLog /\ [Next]_vars => DiskInv'
  BY DiskStays, Zenon DEF SafeInv
<1>3. SafeInv /\ DiskInv => IInv
  BY Zenon DEF IInv, SafeInv
<1> QED
  BY <1>1, <1>2, <1>3, SafeInductive, PTL DEF Spec
-----------------------------------------------------------------------------
(* What a mount makes of a disk d with header h.                           *)
Mounted(d, h) ==
    [b \in Home |->
        IF \E k \in 1 .. Len(h) : h[k] = b THEN d[CHOOSE k \in 1 .. Len(h) : h[k] = b] ELSE d[b]]

LEMMA MountedIs ==
    ASSUME NEW d, NEW h, Distinct(h), NEW b \in Home
    PROVE  /\ \A k \in 1 .. Len(h) : h[k] = b => Mounted(d, h)[b] = d[k]
           /\ (\A k \in 1 .. Len(h) : h[k] # b) => Mounted(d, h)[b] = d[b]
  BY Zenon DEF Mounted, Distinct

LEMMA RecoveredIs ==
    ASSUME TypeInv, DiskInv, TypeInv', DiskInv', NEW b \in Home
    PROVE  /\ \A k \in 1 .. Len(header) : header[k] = b => Recovered[b] = disk[k]
           /\ (\A k \in 1 .. Len(header) : header[k] # b) => Recovered[b] = disk[b]
           /\ \A k \in 1 .. Len(header') : header'[k] = b => Recovered'[b] = disk'[k]
           /\ (\A k \in 1 .. Len(header') : header'[k] # b) => Recovered'[b] = disk'[b]
<1>1. Recovered = Mounted(disk, header) /\ Recovered' = Mounted(disk', header')
  BY Zenon DEF Recovered, Mounted
<1>2. Distinct(header) /\ Distinct(header')
  BY Zenon DEF DiskInv, Distinct
<1> QED
  BY <1>1, <1>2, MountedIs, SMTT(30)

LEMMA SameFunction ==
    ASSUME NEW S, NEW f, NEW g, f = [x \in S |-> f[x]], g = [x \in S |-> g[x]],
           \A x \in S : f[x] = g[x]
    PROVE  f = g
  BY Zenon

LEMMA RecoveredIsFunction ==
    Recovered = [b \in Home |-> Recovered[b]] /\ Recovered' = [b \in Home |-> Recovered'[b]]
  BY Zenon DEF Recovered

mem == IF phase = "up" THEN cache ELSE Recovered
active == {p \in Procs : pc[p] = "active"}
Kept == UNCHANGED <<mem, Recovered, active>>

(* What a mount recovers depends on the disk only.                         *)
LEMMA DiskOnly ==
    ASSUME UNCHANGED <<disk, header>>
    PROVE  Recovered' = Recovered
  BY Zenon DEF Recovered

(* Copying entry k to its home block changes nothing for recovery.         *)
LEMMA InstallKeeps ==
    ASSUME TypeInv, DiskInv, TypeInv', DiskInv', UNCHANGED <<header, lh_block>>,
           header = lh_block, tail < lh_n, disk' = [disk EXCEPT ![lh_block[tail + 1]] = disk[tail + 1]]
    PROVE  Recovered' = Recovered
<1>1. tail + 1 \in 1 .. Len(header) /\ header[tail + 1] \in Home
  BY SMTT(30) DEF TypeInv, ListsOK, lh_n
<1>2. \A k \in 1 .. Len(header) : disk'[k] = disk[k]
  <2>1. Len(header) \in Nat /\ Len(header) <= nlog - 1 /\ disk \in [Blocks -> Values]
    BY DEF TypeInv, BlocksOK, ListsOK, DiskInv
  <2>2. \A k \in 1 .. Len(header) : k \in 1 .. (nlog - 1)
    BY <2>1, LogAssumption
  <2>3. \A k \in 1 .. Len(header) : k \in Blocks /\ k # lh_block[tail + 1]
    BY <1>1, <2>2, EntriesAndHomes, Zenon
  <2> QED
    BY <2>1, <2>3, Zenon
<1>3. ASSUME NEW b \in Home PROVE Recovered'[b] = Recovered[b]
  <2>1. CASE \E k \in 1 .. Len(header) : header[k] = b
    BY <1>2, <2>1, RecoveredIs
  <2>2. CASE \A k \in 1 .. Len(header) : header[k] # b
    <3>1. disk'[b] = disk[b]
      BY <1>1, <2>2, EntriesAndHomes, Zenon DEF TypeInv, BlocksOK
    <3> QED
      BY <2>2, <3>1, RecoveredIs, Zenon
  <2> QED
    BY <2>1, <2>2, Zenon
<1>4. Recovered' = [b \in Home |-> Recovered'[b]]
  BY RecoveredIsFunction, Zenon
<1> QED
  BY <1>3, <1>4, RecoveredIsFunction, SameFunction, Zenon

(* Once every entry has reached its home block the header can go.          *)
LEMMA ClearKeeps ==
    ASSUME TypeInv, DiskInv, TypeInv', DiskInv', header = lh_block, Installed(lh_n),
           header' = << >>, disk' = disk
    PROVE  Recovered' = Recovered /\ Recovered = [b \in Home |-> disk[b]]
<1>1. ASSUME NEW b \in Home PROVE Recovered[b] = disk[b] /\ Recovered'[b] = disk[b]
  <2>1. Recovered'[b] = disk[b]
    BY RecoveredIs
  <2>2. CASE \E k \in 1 .. Len(header) : header[k] = b
    BY <2>1, <2>2, RecoveredIs DEF Installed, lh_n
  <2>3. CASE \A k \in 1 .. Len(header) : header[k] # b
    BY <2>1, <2>3, RecoveredIs, Zenon
  <2> QED
    BY <2>1, <2>2, <2>3, Zenon
<1>2. Recovered' = [b \in Home |-> Recovered'[b]]
  BY RecoveredIsFunction, Zenon
<1>3. Recovered' = Recovered
  BY <1>1, <1>2, RecoveredIsFunction, SameFunction
<1>4. Recovered = [b \in Home |-> disk[b]]
  BY <1>1, RecoveredIsFunction, Zenon
<1> QED
  BY <1>3, <1>4, Zenon

(* Each step of log.c is one of AtomicDisk: write_head() commits, the      *)
(* other block writes of a commit and of a recovery change nothing.        *)
LEMMA StepIsAtomic ==
    ASSUME IInv, IInv', EntriesInLog, [Next]_vars
    PROVE  Atomic!Next \/ Kept
<1>a. TypeInv /\ TypeInv' /\ DiskInv /\ DiskInv' /\ CommitInv /\ ClientInv
  BY Zenon DEF IInv
<1> USE DEF Kept, mem, active
<1>1. ASSUME phase = "up", NEW p \in Procs, CallBegin(p) PROVE Atomic!Next \/ Kept
  <2>1. UNCHANGED <<disk, header, cache, phase>>
    BY <1>1, Zenon DEF CallBegin, Goto
  <2>2. active' = active
    BY <1>a, <1>1, Zenon DEF CallBegin, Goto, TypeInv, ControlOK
  <2> QED
    BY <2>1, <2>2, DiskOnly, Zenon
<1>2. ASSUME phase = "up", NEW p \in Procs, Begin(p) PROVE Atomic!Next \/ Kept
  <2>1. UNCHANGED <<disk, header, cache, phase>>
    BY <1>2, Zenon DEF Begin
  <2>2. p \notin active /\ active' = active \cup {p}
    BY <1>a, <1>2, Zenon DEF Begin, Goto, TypeInv, ControlOK
  <2>3. Atomic!Begin
    BY <2>1, <2>2, DiskOnly, Zenon DEF Atomic!Begin
  <2> QED
    BY <2>3, Zenon DEF Atomic!Next
<1>3. ASSUME phase = "up", NEW p \in Procs, BeginSleep(p) PROVE Atomic!Next \/ Kept
  <2>1. UNCHANGED <<disk, header, cache, phase>>
    BY <1>3, Zenon DEF BeginSleep, Goto
  <2>2. active' = active
    BY <1>a, <1>3, Zenon DEF BeginSleep, Goto, TypeInv, ControlOK
  <2> QED
    BY <2>1, <2>2, DiskOnly, Zenon
<1>4. ASSUME phase = "up", NEW p \in Procs, NEW b \in Home, NEW v \in Values, Write(p, b, v) PROVE Atomic!Next \/ Kept
  <2>1. UNCHANGED <<disk, header, pc, phase>> /\ p \in active /\ cache' = [cache EXCEPT ![b] = v]
    BY <1>4, Zenon DEF Write
  <2>2. Atomic!Write
    BY <1>4, <2>1, DiskOnly, Zenon DEF Atomic!Write
  <2> QED
    BY <2>2, Zenon DEF Atomic!Next
<1>5. ASSUME phase = "up", NEW p \in Procs, End(p) PROVE Atomic!Next \/ Kept
  <2>1. UNCHANGED <<disk, header, cache, phase>>
    BY <1>5, Zenon DEF End
  <2>2. p \in active /\ active' = active \ {p}
    BY <1>a, <1>5, Zenon DEF End, Goto, Wake, TypeInv, ControlOK
  <2>3. Atomic!End
    BY <2>1, <2>2, DiskOnly, Zenon DEF Atomic!End
  <2> QED
    BY <2>3, Zenon DEF Atomic!Next
<1>6. ASSUME phase = "up", NEW p \in Procs, WriteLog(p) PROVE Atomic!Next \/ Kept
  <2>1. UNCHANGED <<header, cache, phase, pc>> /\ header = << >>
    BY <1>a, <1>6, Zenon DEF WriteLog, CommitVars, DiskInv, CommitInv, Commit
  <2>2. tail + 1 \in 1 .. (nlog - 1)
    BY <1>a, <1>6, LogAssumption DEF WriteLog, EntriesInLog, TypeInv, ListsOK, lh_n
  <2>3. \A b \in Home : disk'[b] = disk[b]
    BY <1>a, <1>6, <2>2, EntriesAndHomes, Zenon DEF WriteLog, TypeInv, BlocksOK
  <2>4. Recovered' = Recovered
    BY <2>1, <2>3 DEF Recovered
  <2> QED
    BY <2>1, <2>4, Zenon
<1>7. ASSUME ~panicked, phase = "up", NEW p \in Procs, WriteHead(p) PROVE Atomic!Next \/ Kept
  <2>1. UNCHANGED <<disk, lh_block, cache, phase>> /\ header' = lh_block
    BY <1>7, Zenon DEF WriteHead, CommitVars
  <2>2. active = {} /\ active' = {}
    BY <1>a, <1>7, Zenon DEF WriteHead, Goto, CommitInv, Commit, TypeInv, ControlOK
  <2>3. Copied(lh_n) /\ \A b \in Home : ~InLog(b) => disk[b] = cache[b]
    BY <1>a, <1>7, Zenon DEF WriteHead, DiskInv
  <2>4. ASSUME NEW b \in Home PROVE Recovered'[b] = cache[b]
    <3>1. CASE InLog(b)
      BY <1>a, <2>1, <2>3, <3>1, RecoveredIs, ZenonT(30) DEF InLog, Copied, lh_n
    <3>2. CASE ~InLog(b)
      BY <1>a, <2>1, <2>3, <3>2, RecoveredIs, Zenon DEF InLog, lh_n
    <3> QED
      BY <3>1, <3>2, Zenon
  <2>5. Recovered' = [b \in Home |-> Recovered'[b]] /\ cache = [b \in Home |-> cache[b]]
    BY <1>a, RecoveredIsFunction, Zenon DEF TypeInv, BlocksOK
  <2>6. Recovered' = cache
    BY <2>4, <2>5, SameFunction, Zenon
  <2>7. Atomic!Commit
    BY <1>7, <2>1, <2>2, <2>6, Zenon DEF Atomic!Commit
  <2> QED
    BY <2>7, Zenon DEF Atomic!Next
<1>8. ASSUME phase = "up", NEW p \in Procs, Install(p) PROVE Atomic!Next \/ Kept
  <2>1. UNCHANGED <<header, lh_block, cache, phase, pc>> /\ header = lh_block
    BY <1>a, <1>8, Zenon DEF Install, CommitVars, DiskInv
  <2>2. Recovered' = Recovered
    BY <1>a, <1>8, <2>1, InstallKeeps, Zenon DEF Install
  <2> QED
    BY <2>1, <2>2, Zenon
<1>9. ASSUME phase = "up", NEW p \in Procs, ClearHead(p) PROVE Atomic!Next \/ Kept
  <2>1. UNCHANGED <<disk, cache, phase>> /\ header' = << >> /\ header = lh_block /\ Installed(lh_n)
    BY <1>a, <1>9, Zenon DEF ClearHead, CommitVars, DiskInv
  <2>2. Recovered' = Recovered
    BY <1>a, <2>1, ClearKeeps, Zenon
  <2>3. active' = active
    BY <1>a, <1>9, Zenon DEF ClearHead, Goto, TypeInv, ControlOK
  <2> QED
    BY <2>1, <2>2, <2>3, Zenon
<1>10. ASSUME phase = "up", NEW p \in Procs, Finish(p) PROVE Atomic!Next \/ Kept
  <2>1. UNCHANGED <<disk, header, cache, phase>>
    BY <1>10, Zenon DEF Finish, CommitVars, Wake
  <2>2. active' = active
    BY <1>a, <1>10, Zenon DEF Finish, CommitVars, Wake, TypeInv, ControlOK
  <2> QED
    BY <2>1, <2>2, DiskOnly, Zenon
<1>11. ASSUME Crash PROVE Atomic!Next \/ Kept
  <2>1. UNCHANGED <<disk, header>> /\ phase' = "read" /\ active' = {}
    BY <1>11, Zenon DEF Crash
  <2>2. Recovered' = Recovered
    BY <2>1, DiskOnly, Zenon
  <2>3. Atomic!Crash
    BY <2>1, <2>2, Zenon DEF Atomic!Crash
  <2> QED
    BY <2>3, Zenon DEF Atomic!Next
<1>12. ASSUME RecoverRead PROVE Atomic!Next \/ Kept
  <2>1. UNCHANGED <<disk, header, pc>> /\ phase # "up" /\ phase' # "up"
    BY <1>12, Zenon DEF RecoverRead
  <2> QED
    BY <2>1, DiskOnly, Zenon
<1>13. ASSUME RecoverInstall PROVE Atomic!Next \/ Kept
  <2>1. UNCHANGED <<header, lh_block, phase, pc>> /\ header = lh_block /\ phase # "up"
    BY <1>a, <1>13, Zenon DEF RecoverInstall, DiskInv
  <2>2. Recovered' = Recovered
    BY <1>a, <1>13, <2>1, InstallKeeps, Zenon DEF RecoverInstall
  <2> QED
    BY <2>1, <2>2, Zenon
<1>14. ASSUME RecoverClear PROVE Atomic!Next \/ Kept
  <2>1. UNCHANGED <<disk, pc>> /\ header' = << >> /\ header = lh_block /\ Installed(lh_n)
    BY <1>a, <1>14, Zenon DEF RecoverClear, DiskInv
  <2>2. Recovered' = Recovered /\ Recovered = [b \in Home |-> disk[b]]
    BY <1>a, <2>1, ClearKeeps, Zenon
  <2> QED
    BY <1>14, <2>1, <2>2, Zenon DEF RecoverClear
<1>15. CASE UNCHANGED vars
  BY <1>15, DiskOnly, Zenon DEF vars
<1> QED
  BY <1>1, <1>2, <1>3, <1>4, <1>5, <1>6, <1>7, <1>8, <1>9, <1>10, <1>11, <1>12, <1>13, <1>14, <1>15, ZenonT(30) DEF Next, CommitStep, Recover

(* The log makes file system calls atomic across crashes: with a crash     *)
(* between any two block writes of a commit or of a recovery, for any      *)
(* sizes and any number of processes, a mount finds the blocks as some     *)
(* commit left them, and a commit never takes a call that has not ended.   *)
(* The premise is that write_log() stays inside the log; the run           *)
(* log_overrun shows that the reservations alone do not ensure it.         *)
THEOREM LogIsAtomic == Spec /\ []EntriesInLog => RefinesAtomicDisk
<1>1. Init => Atomic!Init
  <2> SUFFICES ASSUME Init PROVE Atomic!Init
    BY Zenon
  <2>1. PICK v \in Values : disk = [b \in Blocks |-> v] /\ cache = [b \in Home |-> v]
    BY Zenon DEF Init, Blocks
  <2>2. header = << >> /\ phase = "up" /\ active = {}
    BY Zenon DEF Init, active
  <2>3. Recovered = cache
    BY <2>1, <2>2, EntriesAndHomes DEF Recovered
  <2> QED
    BY <2>1, <2>2, <2>3, Zenon DEF Atomic!Init, active
<1>2. IInv /\ IInv' /\ EntriesInLog /\ [Next]_vars
        => [Atomic!Next]_<<IF phase = "up" THEN cache ELSE Recovered, Recovered, {p \in Procs : pc[p] = "active"}>>
  BY StepIsAtomic, Zenon DEF Kept, mem, active
<1> QED
  BY <1>1, <1>2, LogInductive, PTL DEF Spec, RefinesAtomicDisk, Atomic!ASpec
=============================================================================
