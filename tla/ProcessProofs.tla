---------------------------- MODULE ProcessProofs ----------------------------
(* Proofs about module Process, for every set of processes and every       *)
(* number of kernel stacks.                                                *)
EXTENDS Process, TLAPS

Once(s) == \A i, j \in DOMAIN s : s[i] = s[j] => i = j

(* A process is in g_process_list exactly once, from the end of do_fork()  *)
(* until it is reaped, and the tree holds the reference to it.             *)
ListInv ==
    /\ Once(plist)
    /\ \A p \in Procs : p \in Listed <=> pc[p] \notin {"none", "embryo"}
    /\ ListedIsAllocated

(* The process do_fork() is working on belongs to it alone; references and *)
(* the place in the tree follow the progress of the call.  After a failed  *)
(* kobject_add() it may already be gone.                                   *)
ForkInv ==
    /\ \A p \in Procs : pc[p] \notin Forking <=> np[p] = None
    /\ \A p, q \in Procs : p # q /\ np[p] = np[q] => np[p] = None
    /\ \A p \in Procs : pc[p] \in Forking =>
        LET c == np[p] IN
        \/ pc[p] = "fork_del" /\ dangling
        \/ /\ pc[c] = "embryo"
           /\ refs[c] = IF pc[p] = "fork_add" THEN 2 ELSE 1
           /\ inTree[c] <=> pc[p] # "fork_setup"

(* A struct process has a kernel stack of its own for as long as it is     *)
(* allocated.                                                              *)
StackInv ==
    /\ StacksExact
    /\ \A p \in Procs : Allocated(p) <=> kstack[p] # 0

(* init stays, and every process in the list has a parent to wait for it.  *)
FamilyInv ==
    /\ pc[InitProc] \notin Zombie \cup {"none", "embryo"}
    /\ ParentsLive

(* do_wait() goes to sleep under g_wait_lock, having seen no zombie.       *)
WaitInv ==
    /\ \A p \in Procs : wait_lock = p <=> pc[p] \in {"wait_scan", "wait_block"}
    /\ \A p \in Procs : pc[p] \in {"wait_block", "wait_sleep"} => NoZombie(p)

IInv == TypeOK /\ ListInv /\ ForkInv /\ StackInv /\ FamilyInv /\ WaitInv

-----------------------------------------------------------------------------
(* What a concatenation is made of.                                        *)
LEMMA Joined ==
    ASSUME NEW S, NEW s \in Seq(S), NEW t \in Seq(S)
    PROVE  /\ s \o t \in Seq(S) /\ Len(s \o t) = Len(s) + Len(t)
           /\ \A i \in 1..(Len(s) + Len(t)) : (s \o t)[i] = IF i <= Len(s) THEN s[i] ELSE t[i - Len(s)]
  <1>1. s \o t \in Seq(S) /\ Len(s \o t) = Len(s) + Len(t)
    OBVIOUS
  <1>2. ASSUME NEW i \in 1..(Len(s) + Len(t)), i <= Len(s) PROVE (s \o t)[i] = s[i]
    BY <1>1, <1>2
  <1>3. ASSUME NEW i \in 1..(Len(s) + Len(t)), i > Len(s) PROVE (s \o t)[i] = t[i - Len(s)]
    BY <1>1, <1>3
  <1> QED
    BY <1>1, <1>2, <1>3

(* A sequence without its k-th element.                                    *)
LEMMA TakeOut ==
    ASSUME NEW s \in Seq(Procs), NEW k \in 1..Len(s)
    PROVE  LET t == SubSeq(s, 1, k - 1) \o SubSeq(s, k + 1, Len(s))
           IN  /\ t \in Seq(Procs) /\ Len(t) = Len(s) - 1
               /\ \A i \in 1..(Len(s) - 1) : t[i] = IF i < k THEN s[i] ELSE s[i + 1]
  <1> DEFINE a == SubSeq(s, 1, k - 1)
             b == SubSeq(s, k + 1, Len(s))
  <1>1. a \in Seq(Procs) /\ Len(a) = k - 1 /\ \A i \in 1..(k - 1) : a[i] = s[i]
    OBVIOUS
  <1>2. b \in Seq(Procs) /\ Len(b) = Len(s) - k /\ \A i \in 1..(Len(s) - k) : b[i] = s[k + i]
    OBVIOUS
  <1>3. Len(s) \in Nat
    OBVIOUS
  <1> HIDE DEF a, b
  <1>4. /\ a \o b \in Seq(Procs) /\ Len(a \o b) = Len(a) + Len(b)
        /\ \A i \in 1..(Len(a) + Len(b)) : (a \o b)[i] = IF i <= Len(a) THEN a[i] ELSE b[i - Len(a)]
    BY <1>1, <1>2, Joined, Zenon
  <1>5. /\ a \o b \in Seq(Procs) /\ Len(a \o b) = Len(s) - 1
        /\ \A i \in 1..(Len(s) - 1) : (a \o b)[i] = IF i < k THEN s[i] ELSE s[i + 1]
    BY <1>4, <1>1, <1>2, <1>3
  <1> QED
    BY <1>5, Zenon DEF a, b

(* Taking a process out of the list leaves the others, each once.          *)
LEMMA WithoutList ==
    ASSUME NEW p \in Listed, plist \in Seq(Procs),
           Once(plist)
    PROVE  /\ Without(p) \in Seq(Procs)
           /\ \A q : (\E i \in DOMAIN Without(p) : Without(p)[i] = q) <=> q \in Listed \ {p}
           /\ Once(Without(p))
<1>1. PICK k \in 1..Len(plist) : plist[k] = p /\ k = CHOOSE i \in DOMAIN plist : plist[i] = p
  BY DEF Listed
<1> DEFINE w == Without(p)
           n == Len(plist) - 1
<1>2. n \in Nat /\ Len(plist) = n + 1 /\ k \in 1..(n + 1)
  BY <1>1
<1>3. /\ w \in Seq(Procs) /\ Len(w) = n
      /\ \A i \in 1..n : w[i] = IF i < k THEN plist[i] ELSE plist[i + 1]
  BY <1>1, TakeOut, ZenonT(30) DEF Without
<1>4. DOMAIN w = 1..n /\ DOMAIN plist = 1..(n + 1)
  BY <1>2, <1>3
<1> HIDE DEF w, n
<1>5. \A i \in 1..n : \E j \in 1..(n + 1) : w[i] = plist[j] /\ j # k /\ j = IF i < k THEN i ELSE i + 1
  BY <1>2, <1>3
<1>7. \A q : (\E i \in 1..n : w[i] = q) <=> q \in Listed \ {p}
  <2> SUFFICES ASSUME NEW q PROVE (\E i \in 1..n : w[i] = q) <=> q \in Listed \ {p}
    BY Zenon
  <2>1. ASSUME NEW i \in 1..n, w[i] = q PROVE q \in Listed \ {p}
    BY <1>1, <1>4, <1>5, <2>1 DEF Listed
  <2>2. ASSUME q \in Listed \ {p} PROVE \E i \in 1..n : w[i] = q
    <3>1. PICK j \in 1..(n + 1) : j # k /\ plist[j] = q
      BY <1>1, <1>4, <2>2, Zenon DEF Listed
    <3>2. CASE j < k
      BY <1>2, <1>3, <3>1, <3>2
    <3>3. CASE j > k
      <4>1. j - 1 \in 1..n /\ ~(j - 1 < k) /\ j - 1 + 1 = j
        BY <1>2, <3>1, <3>3
      <4> QED
        BY <1>3, <3>1, <4>1, Zenon
    <3> QED
      BY <1>2, <3>1, <3>2, <3>3
  <2> QED
    BY <2>1, <2>2, Zenon
<1>8. \A i, j \in 1..n : w[i] = w[j] => i = j
  <2> SUFFICES ASSUME NEW i \in 1..n, NEW j \in 1..n, w[i] = w[j] PROVE i = j
    BY Zenon
  <2>1. PICK l \in 1..(n + 1) : w[i] = plist[l] /\ l # k /\ l = IF i < k THEN i ELSE i + 1
    BY <1>5, Zenon
  <2>2. PICK m \in 1..(n + 1) : w[j] = plist[m] /\ m # k /\ m = IF j < k THEN j ELSE j + 1
    BY <1>5, Zenon
  <2>3. l = m
    BY <1>4, <2>1, <2>2, Zenon DEF Once
  <2> QED
    BY <1>2, <2>1, <2>2, <2>3
<1> QED
  BY <1>3, <1>4, <1>7, <1>8, Zenon DEF w, Once

(* What the three changes of g_process_list do to the set of processes in  *)
(* it: wait() takes one out, the scheduler moves one to the end and fork() *)
(* appends one.                                                            *)
LEMMA ReapedList ==
    ASSUME plist \in Seq(Procs), Once(plist), NEW z \in Listed, plist' = Without(z)
    PROVE  plist' \in Seq(Procs) /\ Once(plist)' /\ Listed' = Listed \ {z}
<1> DEFINE w == Without(z)
<1>1. /\ w \in Seq(Procs) /\ Once(w)
      /\ \A q : (\E i \in DOMAIN w : w[i] = q) <=> q \in Listed \ {z}
  BY WithoutList, Zenon
<1>2. plist' = w
  BY Zenon
<1> HIDE DEF w
<1>3. \A q : q \in Listed' <=> \E i \in DOMAIN plist' : plist'[i] = q
  BY Zenon DEF Listed
<1>4. Listed' = Listed \ {z}
  BY <1>1, <1>2, <1>3, Zenon
<1> QED
  BY <1>1, <1>2, <1>4, Zenon

LEMMA Appended ==
    ASSUME NEW s \in Seq(Procs), Once(s), NEW p \in Procs, \A i \in DOMAIN s : s[i] # p
    PROVE  /\ Append(s, p) \in Seq(Procs) /\ Once(Append(s, p))
           /\ \A q : (\E i \in DOMAIN Append(s, p) : Append(s, p)[i] = q)
                        <=> (q = p \/ \E i \in DOMAIN s : s[i] = q)
<1> DEFINE t == Append(s, p)
           n == Len(s)
<1>1. /\ n \in Nat /\ DOMAIN s = 1..n /\ DOMAIN t = 1..(n + 1) /\ t \in Seq(Procs)
      /\ t[n + 1] = p /\ \A i \in 1..n : t[i] = s[i]
  OBVIOUS
<1> HIDE DEF t, n
<1>2. \A i \in 1..(n + 1) : i = n + 1 \/ i \in 1..n
  BY <1>1
<1>3. \A i \in 1..n : i \in 1..(n + 1)
  BY <1>1
<1>4. n + 1 \in 1..(n + 1)
  BY <1>1
<1>5. Once(t)
  BY <1>1, <1>2, Zenon DEF Once
<1>6. \A q : (\E i \in DOMAIN t : t[i] = q) <=> (q = p \/ \E i \in DOMAIN s : s[i] = q)
  BY <1>1, <1>2, <1>3, <1>4, Zenon
<1> QED
  BY <1>1, <1>5, <1>6, Zenon DEF t

LEMMA PublishedList ==
    ASSUME plist \in Seq(Procs), Once(plist), NEW c \in Procs, c \notin Listed,
           plist' = Append(plist, c)
    PROVE  plist' \in Seq(Procs) /\ Once(plist)' /\ Listed' = Listed \cup {c}
<1>1. \A i \in DOMAIN plist : plist[i] # c
  BY Zenon DEF Listed
<1>2. Once(Append(plist, c)) /\ Append(plist, c) \in Seq(Procs)
  BY <1>1, Appended, Zenon
<1>3. \A q : (\E i \in DOMAIN Append(plist, c) : Append(plist, c)[i] = q)
                        <=> (q = c \/ \E i \in DOMAIN plist : plist[i] = q)
  BY <1>1, Appended, Zenon
<1> QED
  BY <1>2, <1>3 DEF Listed, Once

LEMMA RotatedList ==
    ASSUME plist \in Seq(Procs), Once(plist), NEW p \in Procs, p \in Listed,
           plist' = Append(Without(p), p)
    PROVE  plist' \in Seq(Procs) /\ Once(plist)' /\ Listed' = Listed
<1> DEFINE w == Without(p)
<1>1. /\ w \in Seq(Procs) /\ Once(w)
      /\ \A q : (\E i \in DOMAIN w : w[i] = q) <=> q \in Listed \ {p}
  BY WithoutList, Zenon
<1> HIDE DEF w
<1>2. Once(Append(w, p)) /\ Append(w, p) \in Seq(Procs)
  <2>1. \A i \in DOMAIN w : w[i] # p
    BY <1>1, Zenon
  <2> QED
    BY <1>1, <2>1, Appended, Zenon
<1>3. \A q : (\E i \in DOMAIN Append(w, p) : Append(w, p)[i] = q)
                        <=> (q = p \/ \E i \in DOMAIN w : w[i] = q)
  <2>1. \A i \in DOMAIN w : w[i] # p
    BY <1>1, Zenon
  <2> QED
    BY <1>1, <2>1, Appended, ZenonT(30)
<1>4. plist' = Append(w, p)
  BY Zenon DEF w
<1>5. \A q : (\E i \in DOMAIN plist' : plist'[i] = q) <=> q \in Listed
  BY <1>1, <1>3, <1>4, Zenon
<1>6. \A q : q \in Listed' <=> \E i \in DOMAIN plist' : plist'[i] = q
  BY Zenon DEF Listed
<1>7. Listed' = Listed
  BY <1>5, <1>6, Zenon
<1> QED
  BY <1>2, <1>4, <1>7, Zenon

-----------------------------------------------------------------------------
(* The zombie wait() reaps is a child in the list.                         *)
LEMMA ReapedChild ==
    ASSUME NEW p, NEW z, FirstZombie(p, z)
    PROVE  z \in Listed /\ z \in Children(p) /\ pc[z] \in Zombie
  BY Zenon DEF FirstZombie, ZombieChild, Listed, Children

(* The process a fork() is working on, at each of its steps.               *)
LEMMA ForkChild ==
    ASSUME ForkInv, Live, NEW p \in Procs, pc[p] \in Forking, np \in [Procs -> Procs \cup {None}]
    PROVE  /\ np[p] \in Procs /\ np[p] # p
           /\ pc[np[p]] = "embryo"
           /\ refs[np[p]] = IF pc[p] = "fork_add" THEN 2 ELSE 1
           /\ inTree[np[p]] <=> pc[p] # "fork_setup"
  BY ProcessAssumption, Zenon DEF ForkInv, Live, Forking

(* Dropping a reference, with or without the process_free() of the last.   *)
LEMMA PutType ==
    ASSUME TypeOK, NEW q \in Procs, NEW a \in Procs, NEW label \in Labels,
           refs[q] \in 1..2, proc_put(q, a, label)
    PROVE  /\ pc' \in [Procs -> Labels] /\ parent' \in [Procs -> Procs \cup {None}]
           /\ killed' \in [Procs -> BOOLEAN] /\ kstack' \in [Procs -> 0..MAX_PROCESSES]
           /\ refs' \in [Procs -> 0..2] /\ kernel_stack_in_use' \subseteq Stacks
<1> USE ProcessAssumption DEF TypeOK, proc_put
<1>1. refs' \in [Procs -> 0..2]
  OBVIOUS
<1>2. pc' \in [Procs -> Labels]
  <2>1. "none" \in Labels
    BY Zenon DEF Labels
  <2> QED
    BY <2>1, Zenon DEF Goto
<1>3. /\ parent' \in [Procs -> Procs \cup {None}]
      /\ killed' \in [Procs -> BOOLEAN]
      /\ kernel_stack_in_use' \subseteq Stacks
  BY Zenon DEF process_free
<1>4. kstack' \in [Procs -> 0..MAX_PROCESSES]
  <2>1. 0 \in 0..MAX_PROCESSES
    OBVIOUS
  <2>2. kstack' = kstack \/ kstack' = [kstack EXCEPT ![q] = 0]
    BY Zenon DEF process_free
  <2> QED
    BY <2>1, <2>2, Zenon
<1> QED
  BY <1>1, <1>2, <1>3, <1>4, Zenon

(* What becomes of every process when a drops a reference to q: the last,  *)
(* and one of two.                                                         *)
Freed(q, a, label) ==
    /\ \A x \in Procs : /\ pc'[x] = IF x = a THEN label ELSE IF x = q THEN "none" ELSE pc[x]
                        /\ refs'[x] = IF x = q THEN 0 ELSE refs[x]
                        /\ kstack'[x] = IF x = q THEN 0 ELSE kstack[x]
                        /\ parent'[x] = IF x = q THEN None ELSE parent[x]
    /\ kernel_stack_in_use' = kernel_stack_in_use \ {kstack[q]}

Released(q, a, label) ==
    /\ \A x \in Procs : /\ pc'[x] = IF x = a THEN label ELSE pc[x]
                        /\ refs'[x] = IF x = q THEN 1 ELSE refs[x]
    /\ UNCHANGED <<kstack, parent, kernel_stack_in_use>>

LEMMA PutLast ==
    ASSUME TypeOK, NEW q \in Procs, NEW a \in Procs, q # a, NEW label, refs[q] = 1,
           proc_put(q, a, label)
    PROVE  Freed(q, a, label)
  BY DEF proc_put, process_free, TypeOK, Freed

LEMMA PutOther ==
    ASSUME TypeOK, NEW q \in Procs, NEW a \in Procs, NEW label, refs[q] = 2,
           proc_put(q, a, label)
    PROVE  Released(q, a, label)
  BY DEF proc_put, Goto, TypeOK, Released

(* The same for each step of do_fork() that drops a reference, and for the *)
(* reaping of a zombie.                                                    *)
LEMMA ForkDrops ==
    ASSUME TypeOK, ForkInv, Live, NEW p \in Procs
    PROVE  /\ ForkNoMemory(p) => Freed(np[p], p, "user")
           /\ ForkPut(p) => Released(np[p], p, "fork_publish")
           /\ ForkAddNoName(p) => Freed(np[p], p, "fork_del")
           /\ ForkAddNoNode(p) => Released(np[p], p, "fork_del")
           /\ ForkDel(p) => Freed(np[p], p, "user")
<1>1. np \in [Procs -> Procs \cup {None}]
  BY Zenon DEF TypeOK
<1>2. ASSUME pc[p] \in Forking
      PROVE  np[p] \in Procs /\ np[p] # p /\ refs[np[p]] = IF pc[p] = "fork_add" THEN 2 ELSE 1
  BY <1>1, <1>2, ForkChild, Zenon
<1>3. ForkNoMemory(p) => Freed(np[p], p, "user")
  BY <1>2, PutLast, Zenon DEF ForkNoMemory, Forking
<1>4. ForkPut(p) => Released(np[p], p, "fork_publish")
  BY <1>2, PutOther, Zenon DEF ForkPut, Forking
<1>5. ForkAddNoName(p) => Freed(np[p], p, "fork_del")
  BY <1>2, PutLast, Zenon DEF ForkAddNoName, ForkAddFailed, Forking
<1>6. ForkAddNoNode(p) => Released(np[p], p, "fork_del")
  BY <1>2, PutOther, Zenon DEF ForkAddNoNode, ForkAddFailed, Forking
<1>7. ForkDel(p) => Freed(np[p], p, "user")
  BY <1>2, PutLast, Zenon DEF ForkDel, Forking
<1> QED
  BY <1>3, <1>4, <1>5, <1>6, <1>7, Zenon

LEMMA ReapFrees ==
    ASSUME TypeOK, NEW p \in Procs, NEW z \in Procs, z # p, refs[z] = 1, WaitReap(p, z)
    PROVE  Freed(z, p, "user")
  BY PutLast, Zenon DEF WaitReap

(* Every step leaves the variables in their types.                         *)
LEMMA TypeStep ==
    ASSUME TypeOK, ListInv, ForkInv, [Next]_vars
    PROVE  TypeOK'
<1> USE ProcessAssumption
<1>1. ASSUME Live, NEW p \in Procs, NEW c \in Procs, ForkAlloc(p, c) PROVE TypeOK'
  <2>1. PICK s \in Stacks : kernel_stack_in_use' = kernel_stack_in_use \cup {s} /\ kstack' = [kstack EXCEPT ![c] = s]
    BY <1>1, Zenon DEF ForkAlloc
  <2>2. kernel_stack_in_use' \subseteq Stacks /\ kstack' \in [Procs -> 0..MAX_PROCESSES]
    BY <2>1 DEF Stacks, TypeOK
  <2>3. pc' \in [Procs -> Labels]
    BY <1>1, Zenon DEF ForkAlloc, Labels, Forking, TypeOK
  <2>4. calls' \in 0..MaxCalls
    BY <1>1 DEF ForkAlloc, MayCall, TypeOK
  <2>5. refs' \in [Procs -> 0..2] /\ inTree' \in [Procs -> BOOLEAN] /\ np' \in [Procs -> Procs \cup {None}]
    BY <1>1 DEF ForkAlloc, TypeOK
  <2> QED
    BY <1>1, <2>2, <2>3, <2>4, <2>5, Zenon DEF ForkAlloc, TypeOK
<1>2. ASSUME Live, NEW p \in Procs, ForkNoStack(p) PROVE TypeOK'
  BY <1>2 DEF ForkNoStack, MayCall, env, TypeOK, Labels, Forking, Waiting, Zombie, Stacks
<1>3. ASSUME Live, NEW p \in Procs, CallWait(p) PROVE TypeOK'
  BY <1>3 DEF CallWait, MayCall, Goto, env, TypeOK, Labels, Forking, Waiting, Zombie, Stacks
<1>4. ASSUME Live, NEW p \in Procs, Exit(p) PROVE TypeOK'
  BY <1>4, Zenon DEF Exit, Woken, env, TypeOK, Labels, Forking, Waiting, Zombie, Stacks
<1>5. ASSUME Live, NEW p \in Procs, Kill(p) PROVE TypeOK'
  BY <1>5 DEF Kill, Goto, Woken, env, TypeOK, Labels, Forking, Waiting, Zombie, Stacks
<1>6. ASSUME Live, NEW p \in Procs, ForkNoMemory(p) PROVE TypeOK'
  <2>1. PICK c \in Procs : c = np[p] /\ refs[c] \in 1..2
    BY <1>6, ForkChild DEF ForkNoMemory, Forking, TypeOK
  <2>2. proc_put(c, p, "user") /\ "user" \in Labels
    BY <1>6, <2>1, Zenon DEF ForkNoMemory, Labels, Forking
  <2>3. /\ pc' \in [Procs -> Labels] /\ parent' \in [Procs -> Procs \cup {None}]
        /\ killed' \in [Procs -> BOOLEAN] /\ kstack' \in [Procs -> 0..MAX_PROCESSES]
        /\ refs' \in [Procs -> 0..2] /\ kernel_stack_in_use' \subseteq Stacks
    BY <2>1, <2>2, PutType, Zenon
  <2> QED
    BY <1>6, <2>1, <2>3, Zenon DEF ForkNoMemory, env, TypeOK
<1>7. ASSUME Live, NEW p \in Procs, ForkAdd(p) PROVE TypeOK'
  <2>1. PICK c \in Procs : c = np[p] /\ c # p /\ pc[c] = "embryo" /\ refs[c] = 1
    BY <1>7, ForkChild, Zenon DEF ForkAdd, Forking, TypeOK
  <2> QED
    BY <1>7, <2>1, SMTT(30) DEF ForkAdd, Goto, env, TypeOK, Labels, Forking, Waiting, Zombie, Stacks
<1>8. ASSUME Live, NEW p \in Procs, ForkPut(p) PROVE TypeOK'
  <2>1. PICK c \in Procs : c = np[p] /\ refs[c] \in 1..2
    BY <1>8, ForkChild DEF ForkPut, Forking, TypeOK
  <2>2. proc_put(c, p, "fork_publish") /\ "fork_publish" \in Labels
    BY <1>8, <2>1, Zenon DEF ForkPut, Labels, Forking
  <2>3. /\ pc' \in [Procs -> Labels] /\ parent' \in [Procs -> Procs \cup {None}]
        /\ killed' \in [Procs -> BOOLEAN] /\ kstack' \in [Procs -> 0..MAX_PROCESSES]
        /\ refs' \in [Procs -> 0..2] /\ kernel_stack_in_use' \subseteq Stacks
    BY <2>1, <2>2, PutType, Zenon
  <2> QED
    BY <1>8, <2>1, <2>3, Zenon DEF ForkPut, env, TypeOK
<1>9. ASSUME Live, NEW p \in Procs, ForkAddNoName(p) PROVE TypeOK'
  <2>1. PICK c \in Procs : c = np[p] /\ refs[c] \in 1..2
    BY <1>9, ForkChild DEF ForkAddNoName, ForkAddFailed, Forking, TypeOK
  <2>2. proc_put(c, p, "fork_del") /\ "fork_del" \in Labels
    BY <1>9, <2>1, Zenon DEF ForkAddNoName, ForkAddFailed, Labels, Forking
  <2>3. /\ pc' \in [Procs -> Labels] /\ parent' \in [Procs -> Procs \cup {None}]
        /\ killed' \in [Procs -> BOOLEAN] /\ kstack' \in [Procs -> 0..MAX_PROCESSES]
        /\ refs' \in [Procs -> 0..2] /\ kernel_stack_in_use' \subseteq Stacks
    BY <2>1, <2>2, PutType, Zenon
  <2> QED
    BY <1>9, <2>1, <2>3, Zenon DEF ForkAddNoName, ForkAddFailed, env, TypeOK
<1>10. ASSUME Live, NEW p \in Procs, ForkAddNoNode(p) PROVE TypeOK'
  <2>1. PICK c \in Procs : c = np[p] /\ refs[c] \in 1..2
    BY <1>10, ForkChild DEF ForkAddNoNode, ForkAddFailed, Forking, TypeOK
  <2>2. proc_put(c, p, "fork_del") /\ "fork_del" \in Labels
    BY <1>10, <2>1, Zenon DEF ForkAddNoNode, ForkAddFailed, Labels, Forking
  <2>3. /\ pc' \in [Procs -> Labels] /\ parent' \in [Procs -> Procs \cup {None}]
        /\ killed' \in [Procs -> BOOLEAN] /\ kstack' \in [Procs -> 0..MAX_PROCESSES]
        /\ refs' \in [Procs -> 0..2] /\ kernel_stack_in_use' \subseteq Stacks
    BY <2>1, <2>2, PutType, Zenon
  <2> QED
    BY <1>10, <2>1, <2>3, Zenon DEF ForkAddNoNode, ForkAddFailed, env, TypeOK
<1>11. ASSUME Live, NEW p \in Procs, ForkDel(p) PROVE TypeOK'
  <2>1. PICK c \in Procs : c = np[p] /\ refs[c] \in 1..2
    BY <1>11, ForkChild DEF ForkDel, Forking, TypeOK
  <2>2. proc_put(c, p, "user") /\ "user" \in Labels
    BY <1>11, <2>1, Zenon DEF ForkDel, Labels, Forking
  <2>3. /\ pc' \in [Procs -> Labels] /\ parent' \in [Procs -> Procs \cup {None}]
        /\ killed' \in [Procs -> BOOLEAN] /\ kstack' \in [Procs -> 0..MAX_PROCESSES]
        /\ refs' \in [Procs -> 0..2] /\ kernel_stack_in_use' \subseteq Stacks
    BY <2>1, <2>2, PutType, Zenon
  <2> QED
    BY <1>11, <2>1, <2>3, Zenon DEF ForkDel, env, TypeOK
<1>12. ASSUME Live, NEW p \in Procs, ForkPublish(p) PROVE TypeOK'
  <2>1. PICK c \in Procs : c = np[p] /\ c # p /\ pc[c] = "embryo" /\ refs[c] = 1
    BY <1>12, ForkChild, Zenon DEF ForkPublish, Forking, TypeOK
  <2>2. plist' \in Seq(Procs)
    <3>1. plist' = Append(plist, c) /\ plist \in Seq(Procs)
      BY <1>12, <2>1, Zenon DEF ForkPublish, TypeOK
    <3> QED
      BY <3>1
  <2>3. "user" \in Labels
    BY DEF Labels
  <2>4. pc' \in [Procs -> Labels] /\ parent' \in [Procs -> Procs \cup {None}] /\ np' \in [Procs -> Procs \cup {None}]
    BY <1>12, <2>1, <2>3, Zenon DEF ForkPublish, TypeOK
  <2> QED
    BY <1>12, <2>2, <2>4, Zenon DEF ForkPublish, env, TypeOK
<1>13. ASSUME Live, NEW p \in Procs, WaitLock(p) PROVE TypeOK'
  BY <1>13, Zenon DEF WaitLock, Goto, env, TypeOK, Labels, Forking, Waiting, Zombie, Stacks
<1>14. ASSUME Live, NEW p \in Procs, NEW z \in Procs, WaitReap(p, z) PROVE TypeOK'
  <2>1. refs[z] = 1 /\ z \in Procs
    BY <1>14, ReapedChild, Zenon DEF WaitReap, ListInv, ListedIsAllocated, TypeOK
  <2>2. plist' \in Seq(Procs)
    BY <1>14, ReapedChild, ReapedList, Zenon DEF WaitReap, ListInv, TypeOK
  <2>3. proc_put(z, p, "user") /\ "user" \in Labels
    BY <1>14, Zenon DEF WaitReap, Labels
  <2>4. /\ pc' \in [Procs -> Labels] /\ parent' \in [Procs -> Procs \cup {None}]
        /\ killed' \in [Procs -> BOOLEAN] /\ kstack' \in [Procs -> 0..MAX_PROCESSES]
        /\ refs' \in [Procs -> 0..2] /\ kernel_stack_in_use' \subseteq Stacks
    BY <2>1, <2>3, PutType
  <2> QED
    BY <1>14, <2>1, <2>2, <2>4, Zenon DEF WaitReap, env, TypeOK
<1>15. ASSUME Live, NEW p \in Procs, WaitFault(p) PROVE TypeOK'
  BY <1>15, Zenon DEF WaitFault, Goto, env, TypeOK, Labels, Forking, Waiting, Zombie, Stacks
<1>16. ASSUME Live, NEW p \in Procs, WaitRefused(p) PROVE TypeOK'
  BY <1>16, Zenon DEF WaitRefused, Goto, env, TypeOK, Labels, Forking, Waiting, Zombie, Stacks
<1>17. ASSUME Live, NEW p \in Procs, WaitBlock(p) PROVE TypeOK'
  BY <1>17, Zenon DEF WaitBlock, Goto, env, TypeOK, Labels, Forking, Waiting, Zombie, Stacks
<1>18. ASSUME Live, NEW p \in Procs, WaitSleep(p) PROVE TypeOK'
  BY <1>18, Zenon DEF WaitSleep, Goto, env, TypeOK, Labels, Forking, Waiting, Zombie, Stacks
<1>19. ASSUME Live, NEW p \in Procs, SwitchedAway(p) PROVE TypeOK'
  BY <1>19, Zenon DEF SwitchedAway, Goto, env, TypeOK, Labels, Forking, Waiting, Zombie, Stacks
<1>20. ASSUME Live, NEW p \in Procs, Schedule(p) PROVE TypeOK'
  <2>1. plist' \in Seq(Procs)
    BY <1>20, RotatedList, Zenon DEF Schedule, ListInv, TypeOK
  <2> QED
    BY <1>20, <2>1, Zenon DEF Schedule, env, TypeOK
<1>21. ASSUME Live, ExitInit PROVE TypeOK'
  BY <1>21, Zenon DEF ExitInit, env, TypeOK, Labels, Forking, Waiting, Zombie, Stacks
<1>22. CASE UNCHANGED vars
  BY <1>22, Zenon DEF vars, env, TypeOK, Labels, Forking, Waiting, Zombie, Stacks
<1> QED
  BY <1>1, <1>2, <1>3, <1>4, <1>5, <1>6, <1>7, <1>8, <1>9, <1>10, <1>11, <1>12, <1>13, <1>14, <1>15, <1>16, <1>17, <1>18, <1>19, <1>20, <1>21, <1>22, Zenon DEF Next, ForkStep, WaitStep

-----------------------------------------------------------------------------
(* Only fork(), wait() and the scheduler touch the list: each process is   *)
(* in it once, and it is in it exactly while it can run or be waited for.  *)
LEMMA ListStep ==
    ASSUME TypeOK, ListInv, ForkInv, FamilyInv, [Next]_vars
    PROVE  ListInv'
<1> USE ProcessAssumption
<1>0. /\ Listed \subseteq Procs
      /\ \A x \in Procs : x \in Listed <=> pc[x] \notin {"none", "embryo"}
      /\ \A x \in Listed : inTree[x] /\ refs[x] = 1
  BY DEF ListInv, ListedIsAllocated, Listed, TypeOK
<1>s. ASSUME plist' = plist PROVE Once(plist)' /\ Listed' = Listed
  BY <1>s DEF ListInv, Once, Listed
<1>g. ASSUME Once(plist)', Listed' \subseteq Procs,
             \A x \in Procs : x \in Listed' <=> pc'[x] \notin {"none", "embryo"},
             \A x \in Listed' : inTree'[x] /\ refs'[x] = 1
      PROVE  ListInv'
  BY <1>g, Zenon DEF ListInv, ListedIsAllocated, Allocated
<1>1. ASSUME Live, NEW p \in Procs, NEW c \in Procs, ForkAlloc(p, c) PROVE ListInv'
  <2>1. Once(plist)' /\ Listed' = Listed
    BY <1>1, <1>s, Zenon DEF ForkAlloc
  <2> QED
    BY <1>1, <1>0, <1>g, <2>1, Zenon DEF ForkAlloc, MayCall, env, TypeOK, Zombie
<1>2. ASSUME Live, NEW p \in Procs, ForkNoStack(p) PROVE ListInv'
  <2>1. Once(plist)' /\ Listed' = Listed
    BY <1>2, <1>s, Zenon DEF ForkNoStack
  <2> QED
    BY <1>2, <1>0, <1>g, <2>1, Zenon DEF ForkNoStack, MayCall, env, TypeOK, Zombie
<1>3. ASSUME Live, NEW p \in Procs, CallWait(p) PROVE ListInv'
  <2>1. Once(plist)' /\ Listed' = Listed
    BY <1>3, <1>s, Zenon DEF CallWait
  <2> QED
    BY <1>3, <1>0, <1>g, <2>1, Zenon DEF CallWait, MayCall, Goto, env, TypeOK, Zombie
<1>4. ASSUME Live, NEW p \in Procs, Exit(p) PROVE ListInv'
  <2>1. Once(plist)' /\ Listed' = Listed
    BY <1>4, <1>s, Zenon DEF Exit
  <2> QED
    BY <1>4, <1>0, <1>g, <2>1, Zenon DEF Exit, Woken, env, TypeOK, Zombie
<1>5. ASSUME Live, NEW p \in Procs, Kill(p) PROVE ListInv'
  <2>1. Once(plist)' /\ Listed' = Listed
    BY <1>5, <1>s, Zenon DEF Kill
  <2> QED
    BY <1>5, <1>0, <1>g, <2>1, Zenon DEF Kill, Goto, Woken, env, TypeOK, Zombie
<1>6. ASSUME Live, NEW p \in Procs, ForkNoMemory(p) PROVE ListInv'
  <2>1. PICK c \in Procs : c = np[p] /\ c # p /\ pc[c] = "embryo" /\ refs[c] = 1
                         /\ (inTree[c] <=> pc[p] # "fork_setup")
    BY <1>6, ForkChild, Zenon DEF ForkNoMemory, Forking, TypeOK
  <2>2. Freed(c, p, "user")
    BY <1>6, <2>1, ForkDrops, Zenon
  <2>3. Once(plist)' /\ Listed' = Listed
    BY <1>6, <1>s, Zenon DEF ForkNoMemory, env
  <2> QED
    BY <1>6, <1>0, <1>g, <2>1, <2>2, <2>3, ZenonT(30) DEF ForkNoMemory, env, TypeOK, Freed
<1>7. ASSUME Live, NEW p \in Procs, ForkAdd(p) PROVE ListInv'
  <2>1. PICK c \in Procs : c = np[p] /\ c # p /\ pc[c] = "embryo" /\ refs[c] = 1
                         /\ (inTree[c] <=> pc[p] # "fork_setup")
    BY <1>7, ForkChild, Zenon DEF ForkAdd, Forking, TypeOK
  <2>3. Once(plist)' /\ Listed' = Listed
    BY <1>7, <1>s, Zenon DEF ForkAdd, env
  <2> QED
    BY <1>7, <1>0, <1>g, <2>1, <2>3, Zenon DEF ForkAdd, Goto, env, TypeOK
<1>8. ASSUME Live, NEW p \in Procs, ForkPut(p) PROVE ListInv'
  <2>1. PICK c \in Procs : c = np[p] /\ c # p /\ pc[c] = "embryo" /\ refs[c] = 2
                         /\ (inTree[c] <=> pc[p] # "fork_setup")
    BY <1>8, ForkChild, Zenon DEF ForkPut, Forking, TypeOK
  <2>2. Released(c, p, "fork_publish")
    BY <1>8, <2>1, ForkDrops, Zenon
  <2>3. Once(plist)' /\ Listed' = Listed
    BY <1>8, <1>s, Zenon DEF ForkPut, env
  <2> QED
    BY <1>8, <1>0, <1>g, <2>1, <2>2, <2>3, Zenon DEF ForkPut, env, TypeOK, Released
<1>9. ASSUME Live, NEW p \in Procs, ForkAddNoName(p) PROVE ListInv'
  <2>1. PICK c \in Procs : c = np[p] /\ c # p /\ pc[c] = "embryo" /\ refs[c] = 1
                         /\ (inTree[c] <=> pc[p] # "fork_setup")
    BY <1>9, ForkChild, Zenon DEF ForkAddNoName, ForkAddFailed, Forking, TypeOK
  <2>2. Freed(c, p, "fork_del")
    BY <1>9, <2>1, ForkDrops, Zenon
  <2>3. Once(plist)' /\ Listed' = Listed
    BY <1>9, <1>s, Zenon DEF ForkAddNoName, ForkAddFailed, env
  <2> QED
    BY <1>9, <1>0, <1>g, <2>1, <2>2, <2>3, ZenonT(30) DEF ForkAddNoName, ForkAddFailed, env, TypeOK, Freed
<1>10. ASSUME Live, NEW p \in Procs, ForkAddNoNode(p) PROVE ListInv'
  <2>1. PICK c \in Procs : c = np[p] /\ c # p /\ pc[c] = "embryo" /\ refs[c] = 2
                         /\ (inTree[c] <=> pc[p] # "fork_setup")
    BY <1>10, ForkChild, Zenon DEF ForkAddNoNode, ForkAddFailed, Forking, TypeOK
  <2>2. Released(c, p, "fork_del")
    BY <1>10, <2>1, ForkDrops, Zenon
  <2>3. Once(plist)' /\ Listed' = Listed
    BY <1>10, <1>s, Zenon DEF ForkAddNoNode, ForkAddFailed, env
  <2> QED
    BY <1>10, <1>0, <1>g, <2>1, <2>2, <2>3, Zenon DEF ForkAddNoNode, ForkAddFailed, env, TypeOK, Released
<1>11. ASSUME Live, NEW p \in Procs, ForkDel(p) PROVE ListInv'
  <2>1. PICK c \in Procs : c = np[p] /\ c # p /\ pc[c] = "embryo" /\ refs[c] = 1
                         /\ (inTree[c] <=> pc[p] # "fork_setup")
    BY <1>11, ForkChild, Zenon DEF ForkDel, Forking, TypeOK
  <2>2. Freed(c, p, "user")
    BY <1>11, <2>1, ForkDrops, Zenon
  <2>3. Once(plist)' /\ Listed' = Listed
    BY <1>11, <1>s, Zenon DEF ForkDel, env
  <2> QED
    BY <1>11, <1>0, <1>g, <2>1, <2>2, <2>3, ZenonT(30) DEF ForkDel, env, TypeOK, Freed
<1>12. ASSUME Live, NEW p \in Procs, ForkPublish(p) PROVE ListInv'
  <2>1. PICK c \in Procs : c = np[p] /\ c # p /\ pc[c] = "embryo" /\ refs[c] = 1
                         /\ (inTree[c] <=> pc[p] # "fork_setup")
    BY <1>12, ForkChild, Zenon DEF ForkPublish, Forking, TypeOK
  <2>2. c \notin Listed
    BY <2>1, <1>0, Zenon
  <2>3. Once(plist)' /\ Listed' = Listed \cup {c}
    BY <1>12, <2>1, <2>2, PublishedList, Zenon DEF ForkPublish, ListInv, TypeOK
  <2> QED
    BY <1>12, <1>0, <1>g, <2>1, <2>3, Zenon DEF ForkPublish, TypeOK
<1>13. ASSUME Live, NEW p \in Procs, WaitLock(p) PROVE ListInv'
  <2>1. Once(plist)' /\ Listed' = Listed
    BY <1>13, <1>s, Zenon DEF WaitLock
  <2> QED
    BY <1>13, <1>0, <1>g, <2>1, Zenon DEF WaitLock, Goto, env, TypeOK, Zombie
<1>14. ASSUME Live, NEW p \in Procs, NEW z \in Procs, WaitReap(p, z) PROVE ListInv'
  <2>1. z \in Listed /\ refs[z] = 1 /\ z # p /\ pc[z] = "dead"
    BY <1>14, ReapedChild, Zenon DEF WaitReap, ListInv, ListedIsAllocated, Zombie
  <2>2. Freed(z, p, "user")
    BY <1>14, <2>1, ReapFrees, Zenon
  <2>3. Once(plist)' /\ Listed' = Listed \ {z}
    BY <1>14, <2>1, ReapedList, Zenon DEF WaitReap, ListInv, TypeOK
  <2> QED
    BY <1>14, <1>0, <1>g, <2>1, <2>2, <2>3, ZenonT(30) DEF WaitReap, TypeOK, Freed
<1>15. ASSUME Live, NEW p \in Procs, WaitFault(p) PROVE ListInv'
  <2>1. Once(plist)' /\ Listed' = Listed
    BY <1>15, <1>s, Zenon DEF WaitFault
  <2> QED
    BY <1>15, <1>0, <1>g, <2>1, Zenon DEF WaitFault, Goto, env, TypeOK, Zombie
<1>16. ASSUME Live, NEW p \in Procs, WaitRefused(p) PROVE ListInv'
  <2>1. Once(plist)' /\ Listed' = Listed
    BY <1>16, <1>s, Zenon DEF WaitRefused
  <2> QED
    BY <1>16, <1>0, <1>g, <2>1, Zenon DEF WaitRefused, Goto, env, TypeOK, Zombie
<1>17. ASSUME Live, NEW p \in Procs, WaitBlock(p) PROVE ListInv'
  <2>1. Once(plist)' /\ Listed' = Listed
    BY <1>17, <1>s, Zenon DEF WaitBlock
  <2> QED
    BY <1>17, <1>0, <1>g, <2>1, Zenon DEF WaitBlock, Goto, env, TypeOK, Zombie
<1>18. ASSUME Live, NEW p \in Procs, WaitSleep(p) PROVE ListInv'
  <2>1. Once(plist)' /\ Listed' = Listed
    BY <1>18, <1>s, Zenon DEF WaitSleep
  <2> QED
    BY <1>18, <1>0, <1>g, <2>1, Zenon DEF WaitSleep, Goto, env, TypeOK, Zombie
<1>19. ASSUME Live, NEW p \in Procs, SwitchedAway(p) PROVE ListInv'
  <2>1. Once(plist)' /\ Listed' = Listed
    BY <1>19, <1>s, Zenon DEF SwitchedAway
  <2> QED
    BY <1>19, <1>0, <1>g, <2>1, Zenon DEF SwitchedAway, Goto, env, TypeOK, Zombie
<1>20. ASSUME Live, NEW p \in Procs, Schedule(p) PROVE ListInv'
  <2>1. Once(plist)' /\ Listed' = Listed
    BY <1>20, RotatedList, Zenon DEF Schedule, ListInv, TypeOK
  <2> QED
    BY <1>20, <1>0, <1>g, <2>1, Zenon DEF Schedule
<1>21. ASSUME Live, ExitInit PROVE ListInv'
  <2>1. Once(plist)' /\ Listed' = Listed
    BY <1>21, <1>s, Zenon DEF ExitInit
  <2> QED
    BY <1>21, <1>0, <1>g, <2>1, Zenon DEF ExitInit, env, TypeOK, Zombie
<1>22. CASE UNCHANGED vars
  BY <1>22, <1>0, <1>s, <1>g, Zenon DEF vars, env
<1> QED
  BY <1>1, <1>2, <1>3, <1>4, <1>5, <1>6, <1>7, <1>8, <1>9, <1>10, <1>11, <1>12, <1>13, <1>14, <1>15, <1>16, <1>17, <1>18, <1>19, <1>20, <1>21, <1>22, Zenon DEF Next, ForkStep, WaitStep

-----------------------------------------------------------------------------
(* Nobody but the fork() itself touches the process it prepares.           *)
LEMMA ForkInvStep ==
    ASSUME TypeOK, ListInv, ForkInv, [Next]_vars
    PROVE  ForkInv'
<1> USE ProcessAssumption
<1>0. /\ \A x \in Procs : np[x] \in Procs \cup {None}
      /\ \A x \in Procs : pc[x] \in Forking => np[x] \in Procs
  BY Zenon DEF TypeOK, ForkInv
<1>1. ASSUME Live, NEW p \in Procs, NEW c \in Procs, ForkAlloc(p, c) PROVE ForkInv'
  BY <1>1, <1>0 DEF ForkAlloc, MayCall, env, ForkInv, Forking, TypeOK, Live
<1>2. ASSUME Live, NEW p \in Procs, ForkNoStack(p) PROVE ForkInv'
  BY <1>2, <1>0, Zenon DEF ForkNoStack, MayCall, env, ForkInv, Forking, TypeOK, Live
<1>3. ASSUME Live, NEW p \in Procs, CallWait(p) PROVE ForkInv'
  BY <1>3, <1>0 DEF CallWait, MayCall, Goto, env, ForkInv, Forking, TypeOK, Live
<1>4. ASSUME Live, NEW p \in Procs, Exit(p) PROVE ForkInv'
  BY <1>4, <1>0, Zenon DEF Exit, Woken, env, ForkInv, Forking, TypeOK, Live, Zombie
<1>5. ASSUME Live, NEW p \in Procs, Kill(p) PROVE ForkInv'
  BY <1>5, <1>0 DEF Kill, Goto, Woken, env, ForkInv, Forking, TypeOK, Live, ListInv
<1>6. ASSUME Live, NEW p \in Procs, ForkNoMemory(p) PROVE ForkInv'
  <2>1. PICK c \in Procs : c = np[p] /\ c # p /\ pc[c] = "embryo" /\ refs[c] = 1
                         /\ (inTree[c] <=> pc[p] # "fork_setup")
    BY <1>6, ForkChild, Zenon DEF ForkNoMemory, Forking, TypeOK
  <2>2. Freed(c, p, "user")
    BY <1>6, <2>1, ForkDrops, Zenon
  <2>3. \A x \in Procs : x # p => np[x] # c /\ np'[x] = np[x]
    BY <1>6, <2>1 DEF ForkNoMemory, ForkInv, TypeOK
  <2>4. np'[p] = None
    BY <1>6, <2>1, Zenon DEF ForkNoMemory, TypeOK
  <2>5. \A x \in Procs : pc'[x] \notin Forking <=> np'[x] = None
    BY <1>0, <2>1, <2>2, <2>3, <2>4 DEF ForkInv, Forking, Freed
  <2>6. \A x, y \in Procs : x # y /\ np'[x] = np'[y] => np'[x] = None
    BY <2>1, <2>3, <2>4 DEF ForkInv
  <2>7. ASSUME NEW x \in Procs, x # p, pc'[x] \in Forking
        PROVE  /\ pc'[np'[x]] = "embryo"
               /\ refs'[np'[x]] = IF pc'[x] = "fork_add" THEN 2 ELSE 1
               /\ inTree'[np'[x]] <=> pc'[x] # "fork_setup"
    <3>1. pc[x] \in Forking /\ pc'[x] = pc[x] /\ x # c
      BY <2>1, <2>2, <2>7, Zenon DEF Forking, Freed
    <3>2. np[x] \in Procs \ {c, p} /\ np'[x] = np[x]
      BY <1>6, <1>0, <2>1, <2>3, <2>7, <3>1, ForkChild, Zenon DEF ForkNoMemory, TypeOK, Forking
    <3>3. inTree'[np[x]] = inTree[np[x]] /\ pc'[np[x]] = pc[np[x]] /\ refs'[np[x]] = refs[np[x]]
      BY <1>6, <2>1, <2>2, <3>2, Zenon DEF ForkNoMemory, TypeOK, Freed
    <3> QED
      BY <1>6, <3>1, <3>2, <3>3, ForkChild DEF TypeOK
  <2>8. pc'[p] \in Forking => pc'[p] = "fork_del" /\ dangling'
    BY <1>6, <2>1, <2>2, Zenon DEF ForkNoMemory, Forking, Freed
  <2> QED
    BY <2>5, <2>6, <2>7, <2>8, Zenon DEF ForkInv
<1>7. ASSUME Live, NEW p \in Procs, ForkAdd(p) PROVE ForkInv'
  <2>1. PICK c \in Procs : c = np[p] /\ c # p /\ pc[c] = "embryo" /\ refs[c] = 1
                         /\ (inTree[c] <=> pc[p] # "fork_setup")
    BY <1>7, ForkChild, Zenon DEF ForkAdd, Forking, TypeOK
  <2> QED
    BY <1>7, <1>0, <2>1 DEF ForkAdd, Goto, env, ForkInv, Forking, TypeOK, Live
<1>8. ASSUME Live, NEW p \in Procs, ForkPut(p) PROVE ForkInv'
  <2>1. PICK c \in Procs : c = np[p] /\ c # p /\ pc[c] = "embryo" /\ refs[c] = 2
                         /\ (inTree[c] <=> pc[p] # "fork_setup")
    BY <1>8, ForkChild, Zenon DEF ForkPut, Forking, TypeOK
  <2>2. Released(c, p, "fork_publish")
    BY <1>8, <2>1, ForkDrops, Zenon
  <2> QED
    BY <1>8, <1>0, <2>1, <2>2, SMTT(30) DEF ForkPut, env, ForkInv, Forking, TypeOK, Live, Released
<1>9. ASSUME Live, NEW p \in Procs, ForkAddNoName(p) PROVE ForkInv'
  <2>1. PICK c \in Procs : c = np[p] /\ c # p /\ pc[c] = "embryo" /\ refs[c] = 1
                         /\ (inTree[c] <=> pc[p] # "fork_setup")
    BY <1>9, ForkChild, Zenon DEF ForkAddNoName, ForkAddFailed, Forking, TypeOK
  <2>2. Freed(c, p, "fork_del")
    BY <1>9, <2>1, ForkDrops, Zenon
  <2>3. \A x \in Procs : x # p => np[x] # c /\ np'[x] = np[x]
    BY <1>9, <2>1 DEF ForkAddNoName, ForkAddFailed, ForkInv, TypeOK
  <2>4. np'[p] = c
    BY <1>9, <2>1, Zenon DEF ForkAddNoName, ForkAddFailed, TypeOK
  <2>5. \A x \in Procs : pc'[x] \notin Forking <=> np'[x] = None
    BY <1>0, <2>1, <2>2, <2>3, <2>4 DEF ForkInv, Forking, Freed
  <2>6. \A x, y \in Procs : x # y /\ np'[x] = np'[y] => np'[x] = None
    BY <2>1, <2>3, <2>4, SMTT(30) DEF ForkInv
  <2>7. ASSUME NEW x \in Procs, x # p, pc'[x] \in Forking
        PROVE  /\ pc'[np'[x]] = "embryo"
               /\ refs'[np'[x]] = IF pc'[x] = "fork_add" THEN 2 ELSE 1
               /\ inTree'[np'[x]] <=> pc'[x] # "fork_setup"
    <3>1. pc[x] \in Forking /\ pc'[x] = pc[x] /\ x # c
      BY <2>1, <2>2, <2>7, Zenon DEF Forking, Freed
    <3>2. np[x] \in Procs \ {c, p} /\ np'[x] = np[x]
      BY <1>9, <1>0, <2>1, <2>3, <2>7, <3>1, ForkChild, Zenon DEF ForkAddNoName, ForkAddFailed, TypeOK, Forking
    <3>3. inTree'[np[x]] = inTree[np[x]] /\ pc'[np[x]] = pc[np[x]] /\ refs'[np[x]] = refs[np[x]]
      BY <1>9, <2>1, <2>2, <3>2, Zenon DEF ForkAddNoName, ForkAddFailed, TypeOK, Freed
    <3> QED
      BY <1>9, <3>1, <3>2, <3>3, ForkChild DEF TypeOK
  <2>8. pc'[p] \in Forking => pc'[p] = "fork_del" /\ dangling'
    BY <1>9, <2>1, <2>2, Zenon DEF ForkAddNoName, ForkAddFailed, Forking, Freed
  <2> QED
    BY <2>5, <2>6, <2>7, <2>8, Zenon DEF ForkInv
<1>10. ASSUME Live, NEW p \in Procs, ForkAddNoNode(p) PROVE ForkInv'
  <2>1. PICK c \in Procs : c = np[p] /\ c # p /\ pc[c] = "embryo" /\ refs[c] = 2
                         /\ (inTree[c] <=> pc[p] # "fork_setup")
    BY <1>10, ForkChild, Zenon DEF ForkAddNoNode, ForkAddFailed, Forking, TypeOK
  <2>2. Released(c, p, "fork_del")
    BY <1>10, <2>1, ForkDrops, Zenon
  <2> QED
    BY <1>10, <1>0, <2>1, <2>2, SMTT(30) DEF ForkAddNoNode, ForkAddFailed, env, ForkInv, Forking, TypeOK, Live, Released
<1>11. ASSUME Live, NEW p \in Procs, ForkDel(p) PROVE ForkInv'
  <2>1. PICK c \in Procs : c = np[p] /\ c # p /\ pc[c] = "embryo" /\ refs[c] = 1
                         /\ (inTree[c] <=> pc[p] # "fork_setup")
    BY <1>11, ForkChild, Zenon DEF ForkDel, Forking, TypeOK
  <2>2. Freed(c, p, "user")
    BY <1>11, <2>1, ForkDrops, Zenon
  <2>3. \A x \in Procs : x # p => np[x] # c /\ np'[x] = np[x]
    BY <1>11, <2>1, Zenon DEF ForkDel, ForkInv, TypeOK
  <2>4. np'[p] = None
    BY <1>11, <2>1, Zenon DEF ForkDel, TypeOK
  <2>5. \A x \in Procs : pc'[x] \notin Forking <=> np'[x] = None
    BY <1>0, <2>1, <2>2, <2>3, <2>4 DEF ForkInv, Forking, Freed
  <2>6. \A x, y \in Procs : x # y /\ np'[x] = np'[y] => np'[x] = None
    BY <2>1, <2>3, <2>4 DEF ForkInv
  <2>7. ASSUME NEW x \in Procs, x # p, pc'[x] \in Forking
        PROVE  /\ pc'[np'[x]] = "embryo"
               /\ refs'[np'[x]] = IF pc'[x] = "fork_add" THEN 2 ELSE 1
               /\ inTree'[np'[x]] <=> pc'[x] # "fork_setup"
    <3>1. pc[x] \in Forking /\ pc'[x] = pc[x] /\ x # c
      BY <2>1, <2>2, <2>7, Zenon DEF Forking, Freed
    <3>2. np[x] \in Procs \ {c, p} /\ np'[x] = np[x]
      BY <1>11, <1>0, <2>1, <2>3, <2>7, <3>1, ForkChild, Zenon DEF ForkDel, TypeOK, Forking
    <3>3. inTree'[np[x]] = inTree[np[x]] /\ pc'[np[x]] = pc[np[x]] /\ refs'[np[x]] = refs[np[x]]
      BY <1>11, <2>1, <2>2, <3>2, ZenonT(30) DEF ForkDel, TypeOK, Freed
    <3> QED
      BY <1>11, <3>1, <3>2, <3>3, ForkChild DEF TypeOK
  <2>8. pc'[p] \in Forking => pc'[p] = "fork_del" /\ dangling'
    BY <1>11, <2>1, <2>2, Zenon DEF ForkDel, Forking, Freed
  <2> QED
    BY <2>5, <2>6, <2>7, <2>8, Zenon DEF ForkInv
<1>12. ASSUME Live, NEW p \in Procs, ForkPublish(p) PROVE ForkInv'
  <2>1. PICK c \in Procs : c = np[p] /\ c # p /\ pc[c] = "embryo" /\ refs[c] = 1
                         /\ (inTree[c] <=> pc[p] # "fork_setup")
    BY <1>12, ForkChild, Zenon DEF ForkPublish, Forking, TypeOK
  <2> QED
    BY <1>12, <1>0, <2>1 DEF ForkPublish, Goto, env, ForkInv, Forking, TypeOK, Live
<1>13. ASSUME Live, NEW p \in Procs, WaitLock(p) PROVE ForkInv'
  BY <1>13, <1>0 DEF WaitLock, Goto, env, ForkInv, Forking, TypeOK, Live
<1>14. ASSUME Live, NEW p \in Procs, NEW z \in Procs, WaitReap(p, z) PROVE ForkInv'
  <2>1. z \in Listed /\ refs[z] = 1 /\ z # p /\ pc[z] = "dead"
    BY <1>14, ReapedChild, Zenon DEF WaitReap, ListInv, ListedIsAllocated, Zombie
  <2>2. Freed(z, p, "user")
    BY <1>14, <2>1, ReapFrees, Zenon
  <2>3. pc[p] = "wait_scan" /\ np' = np /\ \A x \in Procs : x # z => inTree'[x] = inTree[x]
    BY <1>14, Zenon DEF WaitReap, TypeOK
  <2>4. \A x \in Procs : pc'[x] \in Forking <=> pc[x] \in Forking
    BY <2>1, <2>2, <2>3, Zenon DEF Forking, Freed
  <2>5. ASSUME NEW x \in Procs, pc'[x] \in Forking
        PROVE  /\ pc'[np'[x]] = "embryo"
               /\ refs'[np'[x]] = IF pc'[x] = "fork_add" THEN 2 ELSE 1
               /\ inTree'[np'[x]] <=> pc'[x] # "fork_setup"
    <3>1. pc[x] \in Forking /\ pc'[x] = pc[x]
      BY <2>1, <2>2, <2>3, <2>4, <2>5, Zenon DEF Forking, Freed
    <3>2. /\ np[x] \in Procs /\ pc[np[x]] = "embryo"
          /\ refs[np[x]] = IF pc[x] = "fork_add" THEN 2 ELSE 1
          /\ inTree[np[x]] <=> pc[x] # "fork_setup"
      BY <1>14, <3>1, ForkChild, Zenon DEF TypeOK
    <3> QED
      BY <2>1, <2>2, <2>3, <3>1, <3>2, Zenon DEF Freed
  <2> QED
    BY <2>3, <2>4, <2>5, Zenon DEF ForkInv
<1>15. ASSUME Live, NEW p \in Procs, WaitFault(p) PROVE ForkInv'
  BY <1>15, <1>0 DEF WaitFault, Goto, env, ForkInv, Forking, TypeOK, Live
<1>16. ASSUME Live, NEW p \in Procs, WaitRefused(p) PROVE ForkInv'
  BY <1>16, <1>0 DEF WaitRefused, Goto, env, ForkInv, Forking, TypeOK, Live
<1>17. ASSUME Live, NEW p \in Procs, WaitBlock(p) PROVE ForkInv'
  BY <1>17, <1>0 DEF WaitBlock, Goto, env, ForkInv, Forking, TypeOK, Live
<1>18. ASSUME Live, NEW p \in Procs, WaitSleep(p) PROVE ForkInv'
  BY <1>18, <1>0 DEF WaitSleep, Goto, env, ForkInv, Forking, TypeOK, Live
<1>19. ASSUME Live, NEW p \in Procs, SwitchedAway(p) PROVE ForkInv'
  BY <1>19, <1>0 DEF SwitchedAway, Goto, env, ForkInv, Forking, TypeOK, Live
<1>20. ASSUME Live, NEW p \in Procs, Schedule(p) PROVE ForkInv'
  BY <1>20, <1>0, Zenon DEF Schedule, env, ForkInv, Forking, TypeOK, Live
<1>21. ASSUME Live, ExitInit PROVE ForkInv'
  BY <1>21, <1>0, Zenon DEF ExitInit, env, ForkInv, Forking, TypeOK, Live
<1>22. CASE UNCHANGED vars
  BY <1>22, <1>0, Zenon DEF vars, env, ForkInv, Forking, TypeOK, Live
<1> QED
  BY <1>1, <1>2, <1>3, <1>4, <1>5, <1>6, <1>7, <1>8, <1>9, <1>10, <1>11, <1>12, <1>13, <1>14, <1>15, <1>16, <1>17, <1>18, <1>19, <1>20, <1>21, <1>22, Zenon DEF Next, ForkStep, WaitStep

-----------------------------------------------------------------------------
(* Stacks are taken by fork() and given back with the last reference.      *)
LEMMA StackStep ==
    ASSUME TypeOK, ListInv, ForkInv, StackInv, [Next]_vars
    PROVE  StackInv'
<1> USE ProcessAssumption
<1>0. /\ \A x \in Procs : kstack[x] \in 0..MAX_PROCESSES
      /\ \A x \in Procs : pc[x] = "none" <=> kstack[x] = 0
      /\ \A s : s \in kernel_stack_in_use <=> \E x \in Procs : pc[x] # "none" /\ s = kstack[x]
      /\ \A x, y \in Procs : x # y /\ pc[x] # "none" => kstack[x] # kstack[y]
  BY Zenon DEF TypeOK, StackInv, StacksExact, Allocated
<1>g. ASSUME \A x \in Procs : pc'[x] = "none" <=> kstack'[x] = 0,
             \A s : s \in kernel_stack_in_use' <=> \E x \in Procs : pc'[x] # "none" /\ s = kstack'[x],
             \A x, y \in Procs : x # y /\ pc'[x] # "none" => kstack'[x] # kstack'[y]
      PROVE  StackInv'
  BY <1>g DEF StackInv, StacksExact, Allocated
<1>s. ASSUME kstack' = kstack, kernel_stack_in_use' = kernel_stack_in_use,
             \A x \in Procs : pc'[x] = "none" <=> pc[x] = "none"
      PROVE  StackInv'
  BY <1>0, <1>g, <1>s, Zenon
<1>f. ASSUME NEW c \in Procs, pc[c] # "none", kernel_stack_in_use' = kernel_stack_in_use \ {kstack[c]},
             \A x \in Procs : /\ pc'[x] = "none" <=> x = c \/ pc[x] = "none"
                             /\ kstack'[x] = IF x = c THEN 0 ELSE kstack[x]
      PROVE  StackInv'
  <2>1. \A x \in Procs : pc'[x] = "none" <=> kstack'[x] = 0
    BY <1>0, <1>f, Zenon
  <2>2. ASSUME NEW s
        PROVE  s \in kernel_stack_in_use' <=> \E x \in Procs : pc'[x] # "none" /\ s = kstack'[x]
    <3>1. s \in kernel_stack_in_use' <=> \E x \in Procs : pc[x] # "none" /\ s = kstack[x] /\ s # kstack[c]
      BY <1>0, <1>f, Zenon
    <3>2. \A x \in Procs : pc[x] # "none" /\ kstack[x] # kstack[c] <=> pc'[x] # "none" /\ x # c
      BY <1>0, <1>f, Zenon
    <3> QED
      BY <1>f, <3>1, <3>2, Zenon
  <2>3. \A x, y \in Procs : x # y /\ pc'[x] # "none" => kstack'[x] # kstack'[y]
    BY <1>0, <1>f
  <2> QED
    BY <2>1, <2>2, <2>3, <1>g, Zenon
<1>1. ASSUME Live, NEW p \in Procs, NEW c \in Procs, ForkAlloc(p, c) PROVE StackInv'
  <2>1. PICK s \in Stacks \ kernel_stack_in_use :
          kernel_stack_in_use' = kernel_stack_in_use \cup {s} /\ kstack' = [kstack EXCEPT ![c] = s]
    BY <1>1, Zenon DEF ForkAlloc
  <2>2. /\ c # p /\ s # 0
        /\ \A x \in Procs : /\ pc'[x] = "none" <=> x # c /\ pc[x] = "none"
                            /\ kstack'[x] = IF x = c THEN s ELSE kstack[x]
    BY <1>1, <2>1 DEF ForkAlloc, MayCall, TypeOK, Stacks
  <2>3. pc[c] = "none"
    BY <1>1, Zenon DEF ForkAlloc
  <2>4. \A x \in Procs : pc'[x] = "none" <=> kstack'[x] = 0
    BY <1>0, <2>2, <2>3, Zenon
  <2>5. ASSUME NEW t
        PROVE  t \in kernel_stack_in_use' <=> \E x \in Procs : pc'[x] # "none" /\ t = kstack'[x]
    BY <1>0, <2>1, <2>2, <2>3
  <2>6. \A x, y \in Procs : x # y /\ pc'[x] # "none" => kstack'[x] # kstack'[y]
    BY <1>0, <2>1, <2>2, <2>3
  <2> QED
    BY <1>g, <2>4, <2>5, <2>6, Zenon
<1>2. ASSUME Live, NEW p \in Procs, ForkNoStack(p) PROVE StackInv'
  BY <1>2, <1>s, Zenon DEF ForkNoStack, MayCall, env, TypeOK, Zombie
<1>3. ASSUME Live, NEW p \in Procs, CallWait(p) PROVE StackInv'
  BY <1>3, <1>s, Zenon DEF CallWait, MayCall, Goto, env, TypeOK, Zombie
<1>4. ASSUME Live, NEW p \in Procs, Exit(p) PROVE StackInv'
  BY <1>4, <1>s, Zenon DEF Exit, Woken, env, TypeOK, Zombie
<1>5. ASSUME Live, NEW p \in Procs, Kill(p) PROVE StackInv'
  BY <1>5, <1>s, Zenon DEF Kill, Goto, Woken, env, TypeOK, Zombie
<1>6. ASSUME Live, NEW p \in Procs, ForkNoMemory(p) PROVE StackInv'
  <2>1. PICK c \in Procs : c = np[p] /\ c # p /\ pc[c] = "embryo" /\ refs[c] = 1
                         /\ (inTree[c] <=> pc[p] # "fork_setup")
    BY <1>6, ForkChild, Zenon DEF ForkNoMemory, Forking, TypeOK
  <2>2. Freed(c, p, "user")
    BY <1>6, <2>1, ForkDrops, Zenon
  <2>3. pc[p] # "none"
    BY <1>6, Zenon DEF ForkNoMemory
  <2> QED
    BY <1>f, <2>1, <2>2, <2>3 DEF Freed
<1>7. ASSUME Live, NEW p \in Procs, ForkAdd(p) PROVE StackInv'
  <2>1. PICK c \in Procs : c = np[p] /\ c # p /\ pc[c] = "embryo" /\ refs[c] = 1
                         /\ (inTree[c] <=> pc[p] # "fork_setup")
    BY <1>7, ForkChild, Zenon DEF ForkAdd, Forking, TypeOK
  <2> QED
    BY <1>7, <1>s, <2>1, Zenon DEF ForkAdd, Goto, TypeOK
<1>8. ASSUME Live, NEW p \in Procs, ForkPut(p) PROVE StackInv'
  <2>1. PICK c \in Procs : c = np[p] /\ c # p /\ pc[c] = "embryo" /\ refs[c] = 2
                         /\ (inTree[c] <=> pc[p] # "fork_setup")
    BY <1>8, ForkChild, Zenon DEF ForkPut, Forking, TypeOK
  <2>2. Released(c, p, "fork_publish")
    BY <1>8, <2>1, ForkDrops, Zenon
  <2> QED
    BY <1>8, <1>s, <2>1, <2>2, Zenon DEF ForkPut, TypeOK, Released
<1>9. ASSUME Live, NEW p \in Procs, ForkAddNoName(p) PROVE StackInv'
  <2>1. PICK c \in Procs : c = np[p] /\ c # p /\ pc[c] = "embryo" /\ refs[c] = 1
                         /\ (inTree[c] <=> pc[p] # "fork_setup")
    BY <1>9, ForkChild, Zenon DEF ForkAddNoName, ForkAddFailed, Forking, TypeOK
  <2>2. Freed(c, p, "fork_del")
    BY <1>9, <2>1, ForkDrops, Zenon
  <2>3. pc[p] # "none"
    BY <1>9, Zenon DEF ForkAddNoName, ForkAddFailed
  <2> QED
    BY <1>f, <2>1, <2>2, <2>3 DEF Freed
<1>10. ASSUME Live, NEW p \in Procs, ForkAddNoNode(p) PROVE StackInv'
  <2>1. PICK c \in Procs : c = np[p] /\ c # p /\ pc[c] = "embryo" /\ refs[c] = 2
                         /\ (inTree[c] <=> pc[p] # "fork_setup")
    BY <1>10, ForkChild, Zenon DEF ForkAddNoNode, ForkAddFailed, Forking, TypeOK
  <2>2. Released(c, p, "fork_del")
    BY <1>10, <2>1, ForkDrops, Zenon
  <2> QED
    BY <1>10, <1>s, <2>1, <2>2, Zenon DEF ForkAddNoNode, ForkAddFailed, TypeOK, Released
<1>11. ASSUME Live, NEW p \in Procs, ForkDel(p) PROVE StackInv'
  <2>1. PICK c \in Procs : c = np[p] /\ c # p /\ pc[c] = "embryo" /\ refs[c] = 1
                         /\ (inTree[c] <=> pc[p] # "fork_setup")
    BY <1>11, ForkChild, Zenon DEF ForkDel, Forking, TypeOK
  <2>2. Freed(c, p, "user")
    BY <1>11, <2>1, ForkDrops, Zenon
  <2>3. pc[p] # "none"
    BY <1>11, Zenon DEF ForkDel
  <2> QED
    BY <1>f, <2>1, <2>2, <2>3 DEF Freed
<1>12. ASSUME Live, NEW p \in Procs, ForkPublish(p) PROVE StackInv'
  <2>1. PICK c \in Procs : c = np[p] /\ c # p /\ pc[c] = "embryo" /\ refs[c] = 1
                         /\ (inTree[c] <=> pc[p] # "fork_setup")
    BY <1>12, ForkChild, Zenon DEF ForkPublish, Forking, TypeOK
  <2> QED
    BY <1>12, <1>s, <2>1, Zenon DEF ForkPublish, Goto, TypeOK
<1>13. ASSUME Live, NEW p \in Procs, WaitLock(p) PROVE StackInv'
  BY <1>13, <1>s, Zenon DEF WaitLock, Goto, env, TypeOK, Zombie
<1>14. ASSUME Live, NEW p \in Procs, NEW z \in Procs, WaitReap(p, z) PROVE StackInv'
  <2>1. z \in Listed /\ refs[z] = 1 /\ z # p /\ pc[z] = "dead"
    BY <1>14, ReapedChild, Zenon DEF WaitReap, ListInv, ListedIsAllocated, Zombie
  <2>2. Freed(z, p, "user")
    BY <1>14, <2>1, ReapFrees, Zenon
  <2>3. pc[p] # "none"
    BY <1>14, Zenon DEF WaitReap
  <2> QED
    BY <1>f, <2>1, <2>2, <2>3 DEF Freed
<1>15. ASSUME Live, NEW p \in Procs, WaitFault(p) PROVE StackInv'
  BY <1>15, <1>s, Zenon DEF WaitFault, Goto, env, TypeOK, Zombie
<1>16. ASSUME Live, NEW p \in Procs, WaitRefused(p) PROVE StackInv'
  BY <1>16, <1>s, Zenon DEF WaitRefused, Goto, env, TypeOK, Zombie
<1>17. ASSUME Live, NEW p \in Procs, WaitBlock(p) PROVE StackInv'
  BY <1>17, <1>s, Zenon DEF WaitBlock, Goto, env, TypeOK, Zombie
<1>18. ASSUME Live, NEW p \in Procs, WaitSleep(p) PROVE StackInv'
  BY <1>18, <1>s, Zenon DEF WaitSleep, Goto, env, TypeOK, Zombie
<1>19. ASSUME Live, NEW p \in Procs, SwitchedAway(p) PROVE StackInv'
  BY <1>19, <1>s, Zenon DEF SwitchedAway, Goto, env, TypeOK, Zombie
<1>20. ASSUME Live, NEW p \in Procs, Schedule(p) PROVE StackInv'
  BY <1>20, <1>s, Zenon DEF Schedule, env, TypeOK, Zombie
<1>21. ASSUME Live, ExitInit PROVE StackInv'
  BY <1>21, <1>s, Zenon DEF ExitInit, env, TypeOK, Zombie
<1>22. CASE UNCHANGED vars
  BY <1>22, <1>s, Zenon DEF vars, env, TypeOK, Zombie
<1> QED
  BY <1>1, <1>2, <1>3, <1>4, <1>5, <1>6, <1>7, <1>8, <1>9, <1>10, <1>11, <1>12, <1>13, <1>14, <1>15, <1>16, <1>17, <1>18, <1>19, <1>20, <1>21, <1>22, Zenon DEF Next, ForkStep, WaitStep

-----------------------------------------------------------------------------
(* Whoever exits leaves its children to init.                              *)
LEMMA FamilyStep ==
    ASSUME TypeOK, ListInv, ForkInv, FamilyInv, [Next]_vars
    PROVE  FamilyInv'
<1> USE ProcessAssumption
<1>0. /\ Listed \subseteq Procs
      /\ \A x \in Procs : x \in Listed <=> pc[x] \notin {"none", "embryo"}
  BY DEF ListInv, Listed, TypeOK
<1>s. ASSUME plist' = plist PROVE Listed' = Listed
  BY <1>s, Zenon DEF Listed
<1>h. /\ InitProc \in Listed
      /\ pc[InitProc] \notin Zombie
      /\ \A x \in Listed : x # InitProc => parent[x] \in Listed /\ pc[parent[x]] \notin Zombie
  BY <1>0, Zenon DEF FamilyInv, ParentsLive
<1>g. ASSUME pc'[InitProc] \notin {"switching", "dead", "none", "embryo"},
             \A x \in Listed' : x # InitProc => parent'[x] \in Listed' /\ pc'[parent'[x]] \notin {"switching", "dead"}
      PROVE  FamilyInv'
  BY <1>g, Zenon DEF FamilyInv, ParentsLive, Zombie
<1>1. ASSUME Live, NEW p \in Procs, NEW c \in Procs, ForkAlloc(p, c) PROVE FamilyInv'
  <2>1. Listed' = Listed
    BY <1>1, <1>s, Zenon DEF ForkAlloc, env
  <2> QED
    BY <1>1, <1>0, <1>h, <1>g, <2>1 DEF ForkAlloc, MayCall, env, TypeOK, Zombie
<1>2. ASSUME Live, NEW p \in Procs, ForkNoStack(p) PROVE FamilyInv'
  <2>1. Listed' = Listed
    BY <1>2, <1>s, Zenon DEF ForkNoStack, env
  <2> QED
    BY <1>2, <1>0, <1>h, <1>g, <2>1, Zenon DEF ForkNoStack, MayCall, env, TypeOK, Zombie
<1>3. ASSUME Live, NEW p \in Procs, CallWait(p) PROVE FamilyInv'
  <2>1. Listed' = Listed
    BY <1>3, <1>s, Zenon DEF CallWait, env
  <2> QED
    BY <1>3, <1>0, <1>h, <1>g, <2>1, Zenon DEF CallWait, MayCall, Goto, env, TypeOK, Zombie
<1>4. ASSUME Live, NEW p \in Procs, Exit(p) PROVE FamilyInv'
  <2>1. Listed' = Listed
    BY <1>4, <1>s, Zenon DEF Exit
  <2>2. \A x \in Procs : x # p => pc'[x] \in {pc[x], "wait_lock"}
    BY <1>4, Zenon DEF Exit, Woken
  <2>3. /\ \A x \in Procs : parent'[x] = IF x \in Children(p) THEN InitProc ELSE parent[x]
        /\ p # InitProc
    BY <1>4, Zenon DEF Exit
  <2>4. \A x \in Listed : parent[x] = p => x \in Children(p)
    BY Zenon DEF Children
  <2>5. pc[InitProc] # "none" /\ pc[InitProc] # "embryo" /\ pc'[InitProc] \in {pc[InitProc], "wait_lock"}
    BY <1>0, <1>h, <2>2, <2>3, Zenon
  <2> QED
    BY <1>0, <1>h, <1>g, <2>1, <2>2, <2>3, <2>4, <2>5, Zenon DEF Zombie
<1>5. ASSUME Live, NEW p \in Procs, Kill(p) PROVE FamilyInv'
  <2>1. Listed' = Listed
    BY <1>5, <1>s, Zenon DEF Kill, env
  <2> QED
    BY <1>5, <1>0, <1>h, <1>g, <2>1, Zenon DEF Kill, Goto, Woken, env, TypeOK, Zombie
<1>6. ASSUME Live, NEW p \in Procs, ForkNoMemory(p) PROVE FamilyInv'
  <2>1. PICK c \in Procs : c = np[p] /\ c # p /\ pc[c] = "embryo" /\ refs[c] = 1
                         /\ (inTree[c] <=> pc[p] # "fork_setup")
    BY <1>6, ForkChild, Zenon DEF ForkNoMemory, Forking, TypeOK
  <2>2. Freed(c, p, "user")
    BY <1>6, <2>1, ForkDrops, Zenon
  <2>3. Listed' = Listed
    BY <1>6, <1>s, Zenon DEF ForkNoMemory, env
  <2>4. c \notin Listed
    BY <1>0, <2>1, Zenon
  <2>5. pc'[InitProc] \in {pc[InitProc], "user"}
    BY <1>0, <1>h, <2>2, <2>4, Zenon DEF Freed
  <2>6. \A x \in Listed : parent'[x] = parent[x] /\ pc'[x] \in {pc[x], "user"}
    BY <1>0, <2>2, <2>4, Zenon DEF Freed
  <2> QED
    BY <1>0, <1>h, <1>g, <2>3, <2>5, <2>6, Zenon DEF Zombie
<1>7. ASSUME Live, NEW p \in Procs, ForkAdd(p) PROVE FamilyInv'
  <2>1. PICK c \in Procs : c = np[p] /\ c # p /\ pc[c] = "embryo" /\ refs[c] = 1
                         /\ (inTree[c] <=> pc[p] # "fork_setup")
    BY <1>7, ForkChild, Zenon DEF ForkAdd, Forking, TypeOK
  <2>3. Listed' = Listed
    BY <1>7, <1>s, Zenon DEF ForkAdd, env
  <2> QED
    BY <1>7, <1>0, <1>h, <1>g, <2>1, <2>3, Zenon DEF ForkAdd, Goto, env, TypeOK, Zombie
<1>8. ASSUME Live, NEW p \in Procs, ForkPut(p) PROVE FamilyInv'
  <2>1. PICK c \in Procs : c = np[p] /\ c # p /\ pc[c] = "embryo" /\ refs[c] = 2
                         /\ (inTree[c] <=> pc[p] # "fork_setup")
    BY <1>8, ForkChild, Zenon DEF ForkPut, Forking, TypeOK
  <2>2. Released(c, p, "fork_publish")
    BY <1>8, <2>1, ForkDrops, Zenon
  <2>3. Listed' = Listed
    BY <1>8, <1>s, Zenon DEF ForkPut, env
  <2> QED
    BY <1>8, <1>0, <1>h, <1>g, <2>1, <2>2, <2>3 DEF ForkPut, env, TypeOK, Zombie, Released
<1>9. ASSUME Live, NEW p \in Procs, ForkAddNoName(p) PROVE FamilyInv'
  <2>1. PICK c \in Procs : c = np[p] /\ c # p /\ pc[c] = "embryo" /\ refs[c] = 1
                         /\ (inTree[c] <=> pc[p] # "fork_setup")
    BY <1>9, ForkChild, Zenon DEF ForkAddNoName, ForkAddFailed, Forking, TypeOK
  <2>2. Freed(c, p, "fork_del")
    BY <1>9, <2>1, ForkDrops, Zenon
  <2>3. Listed' = Listed
    BY <1>9, <1>s, Zenon DEF ForkAddNoName, ForkAddFailed, env
  <2>4. c \notin Listed
    BY <1>0, <2>1, Zenon
  <2>5. pc'[InitProc] \in {pc[InitProc], "fork_del"}
    BY <1>0, <1>h, <2>2, <2>4, Zenon DEF Freed
  <2>6. \A x \in Listed : parent'[x] = parent[x] /\ pc'[x] \in {pc[x], "fork_del"}
    BY <1>0, <2>2, <2>4, Zenon DEF Freed
  <2> QED
    BY <1>0, <1>h, <1>g, <2>3, <2>5, <2>6, Zenon DEF Zombie
<1>10. ASSUME Live, NEW p \in Procs, ForkAddNoNode(p) PROVE FamilyInv'
  <2>1. PICK c \in Procs : c = np[p] /\ c # p /\ pc[c] = "embryo" /\ refs[c] = 2
                         /\ (inTree[c] <=> pc[p] # "fork_setup")
    BY <1>10, ForkChild, Zenon DEF ForkAddNoNode, ForkAddFailed, Forking, TypeOK
  <2>2. Released(c, p, "fork_del")
    BY <1>10, <2>1, ForkDrops, Zenon
  <2>3. Listed' = Listed
    BY <1>10, <1>s, Zenon DEF ForkAddNoNode, ForkAddFailed, env
  <2> QED
    BY <1>10, <1>0, <1>h, <1>g, <2>1, <2>2, <2>3 DEF ForkAddNoNode, ForkAddFailed, env, TypeOK, Zombie, Released
<1>11. ASSUME Live, NEW p \in Procs, ForkDel(p) PROVE FamilyInv'
  <2>1. PICK c \in Procs : c = np[p] /\ c # p /\ pc[c] = "embryo" /\ refs[c] = 1
                         /\ (inTree[c] <=> pc[p] # "fork_setup")
    BY <1>11, ForkChild, Zenon DEF ForkDel, Forking, TypeOK
  <2>2. Freed(c, p, "user")
    BY <1>11, <2>1, ForkDrops, Zenon
  <2>3. Listed' = Listed
    BY <1>11, <1>s, Zenon DEF ForkDel, env
  <2>4. c \notin Listed
    BY <1>0, <2>1, Zenon
  <2>5. pc'[InitProc] \in {pc[InitProc], "user"}
    BY <1>0, <1>h, <2>2, <2>4, Zenon DEF Freed
  <2>6. \A x \in Listed : parent'[x] = parent[x] /\ pc'[x] \in {pc[x], "user"}
    BY <1>0, <2>2, <2>4, Zenon DEF Freed
  <2> QED
    BY <1>0, <1>h, <1>g, <2>3, <2>5, <2>6, Zenon DEF Zombie
<1>12. ASSUME Live, NEW p \in Procs, ForkPublish(p) PROVE FamilyInv'
  <2>1. PICK c \in Procs : c = np[p] /\ c # p /\ pc[c] = "embryo" /\ refs[c] = 1
                         /\ (inTree[c] <=> pc[p] # "fork_setup")
    BY <1>12, ForkChild, Zenon DEF ForkPublish, Forking, TypeOK
  <2>2. c \notin Listed
    BY <2>1, <1>0, Zenon
  <2>3. Listed' = Listed \cup {c}
    BY <1>12, <2>1, <2>2, PublishedList, Zenon DEF ForkPublish, ListInv, TypeOK
  <2>4. p \in Listed
    BY <1>12, <1>0, Zenon DEF ForkPublish
  <2> QED
    BY <1>12, <1>0, <1>h, <1>g, <2>1, <2>3, <2>4, Zenon DEF ForkPublish, TypeOK, Zombie
<1>13. ASSUME Live, NEW p \in Procs, WaitLock(p) PROVE FamilyInv'
  <2>1. Listed' = Listed
    BY <1>13, <1>s, Zenon DEF WaitLock, env
  <2> QED
    BY <1>13, <1>0, <1>h, <1>g, <2>1, Zenon DEF WaitLock, Goto, env, TypeOK, Zombie
<1>14. ASSUME Live, NEW p \in Procs, NEW z \in Procs, WaitReap(p, z) PROVE FamilyInv'
  <2>1. z \in Listed /\ refs[z] = 1 /\ z # p /\ pc[z] = "dead"
    BY <1>14, ReapedChild, Zenon DEF WaitReap, ListInv, ListedIsAllocated, Zombie
  <2>2. Freed(z, p, "user")
    BY <1>14, <2>1, ReapFrees, Zenon
  <2>3. Listed' = Listed \ {z}
    BY <1>14, <2>1, ReapedList, Zenon DEF WaitReap, ListInv, TypeOK
  <2>4. \A x \in Listed : x # z => parent'[x] = parent[x] /\ pc'[x] \in {pc[x], "user"}
    BY <1>0, <2>2, Zenon DEF Freed
  <2>5. InitProc # z /\ \A x \in Listed : x # InitProc => parent[x] # z
    BY <1>h, <2>1, Zenon DEF Zombie
  <2> QED
    BY <1>0, <1>h, <1>g, <2>3, <2>4, <2>5 DEF Zombie
<1>15. ASSUME Live, NEW p \in Procs, WaitFault(p) PROVE FamilyInv'
  <2>1. Listed' = Listed
    BY <1>15, <1>s, Zenon DEF WaitFault, env
  <2> QED
    BY <1>15, <1>0, <1>h, <1>g, <2>1, Zenon DEF WaitFault, Goto, env, TypeOK, Zombie
<1>16. ASSUME Live, NEW p \in Procs, WaitRefused(p) PROVE FamilyInv'
  <2>1. Listed' = Listed
    BY <1>16, <1>s, Zenon DEF WaitRefused, env
  <2> QED
    BY <1>16, <1>0, <1>h, <1>g, <2>1, Zenon DEF WaitRefused, Goto, env, TypeOK, Zombie
<1>17. ASSUME Live, NEW p \in Procs, WaitBlock(p) PROVE FamilyInv'
  <2>1. Listed' = Listed
    BY <1>17, <1>s, Zenon DEF WaitBlock, env
  <2> QED
    BY <1>17, <1>0, <1>h, <1>g, <2>1, Zenon DEF WaitBlock, Goto, env, TypeOK, Zombie
<1>18. ASSUME Live, NEW p \in Procs, WaitSleep(p) PROVE FamilyInv'
  <2>1. Listed' = Listed
    BY <1>18, <1>s, Zenon DEF WaitSleep, env
  <2> QED
    BY <1>18, <1>0, <1>h, <1>g, <2>1, Zenon DEF WaitSleep, Goto, env, TypeOK, Zombie
<1>19. ASSUME Live, NEW p \in Procs, SwitchedAway(p) PROVE FamilyInv'
  <2>1. Listed' = Listed
    BY <1>19, <1>s, Zenon DEF SwitchedAway, env
  <2> QED
    BY <1>19, <1>0, <1>h, <1>g, <2>1, Zenon DEF SwitchedAway, Goto, env, TypeOK, Zombie
<1>20. ASSUME Live, NEW p \in Procs, Schedule(p) PROVE FamilyInv'
  <2>1. Listed' = Listed
    BY <1>20, RotatedList, Zenon DEF Schedule, ListInv, TypeOK
  <2> QED
    BY <1>20, <1>0, <1>h, <1>g, <2>1, Zenon DEF Schedule, Zombie
<1>21. ASSUME Live, ExitInit PROVE FamilyInv'
  <2>1. Listed' = Listed
    BY <1>21, <1>s, Zenon DEF ExitInit, env
  <2> QED
    BY <1>21, <1>0, <1>h, <1>g, <2>1, Zenon DEF ExitInit, env, TypeOK, Zombie
<1>22. CASE UNCHANGED vars
  BY <1>22, <1>0, <1>h, <1>s, <1>g, Zenon DEF vars, env, Zombie
<1> QED
  BY <1>1, <1>2, <1>3, <1>4, <1>5, <1>6, <1>7, <1>8, <1>9, <1>10, <1>11, <1>12, <1>13, <1>14, <1>15, <1>16, <1>17, <1>18, <1>19, <1>20, <1>21, <1>22, Zenon DEF Next, ForkStep, WaitStep

-----------------------------------------------------------------------------
(* g_wait_lock is held from the scan to the sleep, and whoever exits wakes *)
(* its parent, and init when it leaves children to it.                     *)
LEMMA WaitInvStep ==
    ASSUME TypeOK, ListInv, ForkInv, WaitInv, [Next]_vars
    PROVE  WaitInv'
<1> USE ProcessAssumption
<1>0. /\ Listed \subseteq Procs
      /\ \A x \in Procs : x \in Listed <=> pc[x] \notin {"none", "embryo"}
  BY DEF ListInv, Listed, TypeOK
<1>s. ASSUME plist' = plist PROVE Listed' = Listed
  BY <1>s, Zenon DEF Listed
<1>h. /\ \A x \in Procs : wait_lock = x <=> pc[x] \in {"wait_scan", "wait_block"}
      /\ \A x \in Procs : pc[x] \in {"wait_block", "wait_sleep"} =>
            \A y \in Listed : parent[y] = x => pc[y] \notin {"switching", "dead"}
  BY Zenon DEF WaitInv, NoZombie, Children, Zombie
<1>g. ASSUME \A x \in Procs : wait_lock' = x <=> pc'[x] \in {"wait_scan", "wait_block"},
             \A x \in Procs : pc'[x] \in {"wait_block", "wait_sleep"} =>
                \A y \in Listed' : parent'[y] = x => pc'[y] \notin {"switching", "dead"}
      PROVE  WaitInv'
  BY <1>g, Zenon DEF WaitInv, NoZombie, Children, Zombie
<1>1. ASSUME Live, NEW p \in Procs, NEW c \in Procs, ForkAlloc(p, c) PROVE WaitInv'
  <2>1. Listed' = Listed
    BY <1>1, <1>s, Zenon DEF ForkAlloc, env
  <2> QED
    BY <1>1, <1>0, <1>h, <1>g, <2>1, ZenonT(30) DEF ForkAlloc, MayCall, env, TypeOK
<1>2. ASSUME Live, NEW p \in Procs, ForkNoStack(p) PROVE WaitInv'
  <2>1. Listed' = Listed
    BY <1>2, <1>s, Zenon DEF ForkNoStack, env
  <2> QED
    BY <1>2, <1>0, <1>h, <1>g, <2>1, Zenon DEF ForkNoStack, MayCall, env, TypeOK
<1>3. ASSUME Live, NEW p \in Procs, CallWait(p) PROVE WaitInv'
  <2>1. Listed' = Listed
    BY <1>3, <1>s, Zenon DEF CallWait, env
  <2> QED
    BY <1>3, <1>0, <1>h, <1>g, <2>1, Zenon DEF CallWait, MayCall, Goto, env, TypeOK
<1>4. ASSUME Live, NEW p \in Procs, Exit(p) PROVE WaitInv'
  <2>1. Listed' = Listed /\ wait_lock = None /\ wait_lock' = None /\ pc[p] = "user"
    BY <1>4, <1>s, Zenon DEF Exit
  <2>2. \A x \in Procs : x # p => pc'[x] \in {pc[x], "wait_lock"}
    BY <1>4, Zenon DEF Exit, Woken
  <2>3. pc'[p] = "switching"
    BY <1>4, Zenon DEF Exit
  <2>4. ASSUME NEW x \in Procs, pc'[x] = "wait_sleep", NEW y \in Listed, parent'[y] = x
        PROVE  pc'[y] \notin {"switching", "dead"}
    <3>1. pc[x] = "wait_sleep" /\ x # p
      BY <2>2, <2>3, <2>4, Zenon
    <3>2. x # parent[p] /\ (x = InitProc => Children(p) = {})
      BY <1>4, <2>4, <3>1 DEF Exit, Woken
    <3>3. y \notin Children(p) /\ parent[y] = x
      BY <1>4, <1>0, <2>4, <3>2, Zenon DEF Exit
    <3>4. y # p /\ pc[y] \notin {"switching", "dead"}
      BY <1>h, <3>1, <3>2, <3>3, Zenon
    <3> QED
      BY <1>0, <2>2, <3>4, Zenon
  <2>5. \A x \in Procs : pc'[x] \notin {"wait_scan", "wait_block"}
    BY <1>h, <2>1, <2>2, <2>3, Zenon
  <2> QED
    BY <1>g, <2>1, <2>4, <2>5, Zenon
<1>5. ASSUME Live, NEW p \in Procs, Kill(p) PROVE WaitInv'
  <2>1. Listed' = Listed
    BY <1>5, <1>s, Zenon DEF Kill, env
  <2> QED
    BY <1>5, <1>0, <1>h, <1>g, <2>1, Zenon DEF Kill, Goto, Woken, env, TypeOK
<1>6. ASSUME Live, NEW p \in Procs, ForkNoMemory(p) PROVE WaitInv'
  <2>1. PICK c \in Procs : c = np[p] /\ c # p /\ pc[c] = "embryo" /\ refs[c] = 1
                         /\ (inTree[c] <=> pc[p] # "fork_setup")
    BY <1>6, ForkChild, Zenon DEF ForkNoMemory, Forking, TypeOK
  <2>2. Freed(c, p, "user")
    BY <1>6, <2>1, ForkDrops, Zenon
  <2>3. Listed' = Listed /\ wait_lock' = wait_lock /\ pc[p] \in Forking
    BY <1>6, <1>s, Zenon DEF ForkNoMemory, env, Forking
  <2>4. \A x \in Procs : pc'[x] \in {"wait_scan", "wait_block", "wait_sleep"} => pc'[x] = pc[x]
    BY <2>2, Zenon DEF Freed
  <2>5. \A x \in Procs : pc[x] \in {"wait_scan", "wait_block"} => pc'[x] = pc[x]
    BY <2>1, <2>2, <2>3, Zenon DEF Forking, Freed
  <2>6. \A x \in Listed : parent'[x] = parent[x] /\ pc'[x] \in {pc[x], "user"}
    BY <1>0, <2>1, <2>2, Zenon DEF Freed
  <2>7. \A x \in Procs : wait_lock' = x <=> pc'[x] \in {"wait_scan", "wait_block"}
    BY <1>h, <2>3, <2>4, <2>5, Zenon
  <2>8. ASSUME NEW x \in Procs, pc'[x] \in {"wait_block", "wait_sleep"},
               NEW y \in Listed', parent'[y] = x
        PROVE  pc'[y] \notin {"switching", "dead"}
    <3>1. pc[x] \in {"wait_block", "wait_sleep"} /\ y \in Listed /\ parent[y] = x
      BY <2>3, <2>4, <2>6, <2>8, Zenon
    <3>2. pc[y] \notin {"switching", "dead"}
      BY <1>h, <3>1, Zenon
    <3> QED
      BY <2>6, <3>1, <3>2, Zenon
  <2> QED
    BY <1>g, <2>7, <2>8, Zenon
<1>7. ASSUME Live, NEW p \in Procs, ForkAdd(p) PROVE WaitInv'
  <2>1. PICK c \in Procs : c = np[p] /\ c # p /\ pc[c] = "embryo" /\ refs[c] = 1
                         /\ (inTree[c] <=> pc[p] # "fork_setup")
    BY <1>7, ForkChild, Zenon DEF ForkAdd, Forking, TypeOK
  <2>3. Listed' = Listed
    BY <1>7, <1>s, Zenon DEF ForkAdd, env
  <2> QED
    BY <1>7, <1>0, <1>h, <1>g, <2>1, <2>3, Zenon DEF ForkAdd, Goto, env, TypeOK
<1>8. ASSUME Live, NEW p \in Procs, ForkPut(p) PROVE WaitInv'
  <2>1. PICK c \in Procs : c = np[p] /\ c # p /\ pc[c] = "embryo" /\ refs[c] = 2
                         /\ (inTree[c] <=> pc[p] # "fork_setup")
    BY <1>8, ForkChild, Zenon DEF ForkPut, Forking, TypeOK
  <2>2. Released(c, p, "fork_publish")
    BY <1>8, <2>1, ForkDrops, Zenon
  <2>3. Listed' = Listed /\ wait_lock' = wait_lock /\ pc[p] \in Forking
    BY <1>8, <1>s, Zenon DEF ForkPut, env, Forking
  <2>4. \A x \in Procs : pc'[x] \in {"wait_scan", "wait_block", "wait_sleep"} => pc'[x] = pc[x]
    BY <2>2, Zenon DEF Released
  <2>5. \A x \in Procs : pc[x] \in {"wait_scan", "wait_block"} => pc'[x] = pc[x]
    BY <2>1, <2>2, <2>3, Zenon DEF Forking, Released
  <2>6. \A x \in Listed : parent'[x] = parent[x] /\ pc'[x] \in {pc[x], "fork_publish"}
    BY <1>0, <2>1, <2>2, Zenon DEF Released
  <2>7. \A x \in Procs : wait_lock' = x <=> pc'[x] \in {"wait_scan", "wait_block"}
    BY <1>h, <2>3, <2>4, <2>5, Zenon
  <2>8. ASSUME NEW x \in Procs, pc'[x] \in {"wait_block", "wait_sleep"},
               NEW y \in Listed', parent'[y] = x
        PROVE  pc'[y] \notin {"switching", "dead"}
    <3>1. pc[x] \in {"wait_block", "wait_sleep"} /\ y \in Listed /\ parent[y] = x
      BY <2>3, <2>4, <2>6, <2>8, Zenon
    <3>2. pc[y] \notin {"switching", "dead"}
      BY <1>h, <3>1, Zenon
    <3> QED
      BY <2>6, <3>1, <3>2, Zenon
  <2> QED
    BY <1>g, <2>7, <2>8, Zenon
<1>9. ASSUME Live, NEW p \in Procs, ForkAddNoName(p) PROVE WaitInv'
  <2>1. PICK c \in Procs : c = np[p] /\ c # p /\ pc[c] = "embryo" /\ refs[c] = 1
                         /\ (inTree[c] <=> pc[p] # "fork_setup")
    BY <1>9, ForkChild, Zenon DEF ForkAddNoName, ForkAddFailed, Forking, TypeOK
  <2>2. Freed(c, p, "fork_del")
    BY <1>9, <2>1, ForkDrops, Zenon
  <2>3. Listed' = Listed /\ wait_lock' = wait_lock /\ pc[p] \in Forking
    BY <1>9, <1>s, Zenon DEF ForkAddNoName, ForkAddFailed, env, Forking
  <2>4. \A x \in Procs : pc'[x] \in {"wait_scan", "wait_block", "wait_sleep"} => pc'[x] = pc[x]
    BY <2>2, Zenon DEF Freed
  <2>5. \A x \in Procs : pc[x] \in {"wait_scan", "wait_block"} => pc'[x] = pc[x]
    BY <2>1, <2>2, <2>3, Zenon DEF Forking, Freed
  <2>6. \A x \in Listed : parent'[x] = parent[x] /\ pc'[x] \in {pc[x], "fork_del"}
    BY <1>0, <2>1, <2>2, Zenon DEF Freed
  <2>7. \A x \in Procs : wait_lock' = x <=> pc'[x] \in {"wait_scan", "wait_block"}
    BY <1>h, <2>3, <2>4, <2>5, Zenon
  <2>8. ASSUME NEW x \in Procs, pc'[x] \in {"wait_block", "wait_sleep"},
               NEW y \in Listed', parent'[y] = x
        PROVE  pc'[y] \notin {"switching", "dead"}
    <3>1. pc[x] \in {"wait_block", "wait_sleep"} /\ y \in Listed /\ parent[y] = x
      BY <2>3, <2>4, <2>6, <2>8, Zenon
    <3>2. pc[y] \notin {"switching", "dead"}
      BY <1>h, <3>1, Zenon
    <3> QED
      BY <2>6, <3>1, <3>2, Zenon
  <2> QED
    BY <1>g, <2>7, <2>8, Zenon
<1>10. ASSUME Live, NEW p \in Procs, ForkAddNoNode(p) PROVE WaitInv'
  <2>1. PICK c \in Procs : c = np[p] /\ c # p /\ pc[c] = "embryo" /\ refs[c] = 2
                         /\ (inTree[c] <=> pc[p] # "fork_setup")
    BY <1>10, ForkChild, Zenon DEF ForkAddNoNode, ForkAddFailed, Forking, TypeOK
  <2>2. Released(c, p, "fork_del")
    BY <1>10, <2>1, ForkDrops, Zenon
  <2>3. Listed' = Listed /\ wait_lock' = wait_lock /\ pc[p] \in Forking
    BY <1>10, <1>s, Zenon DEF ForkAddNoNode, ForkAddFailed, env, Forking
  <2>4. \A x \in Procs : pc'[x] \in {"wait_scan", "wait_block", "wait_sleep"} => pc'[x] = pc[x]
    BY <2>2, Zenon DEF Released
  <2>5. \A x \in Procs : pc[x] \in {"wait_scan", "wait_block"} => pc'[x] = pc[x]
    BY <2>1, <2>2, <2>3, Zenon DEF Forking, Released
  <2>6. \A x \in Listed : parent'[x] = parent[x] /\ pc'[x] \in {pc[x], "fork_del"}
    BY <1>0, <2>1, <2>2, Zenon DEF Released
  <2>7. \A x \in Procs : wait_lock' = x <=> pc'[x] \in {"wait_scan", "wait_block"}
    BY <1>h, <2>3, <2>4, <2>5, Zenon
  <2>8. ASSUME NEW x \in Procs, pc'[x] \in {"wait_block", "wait_sleep"},
               NEW y \in Listed', parent'[y] = x
        PROVE  pc'[y] \notin {"switching", "dead"}
    <3>1. pc[x] \in {"wait_block", "wait_sleep"} /\ y \in Listed /\ parent[y] = x
      BY <2>3, <2>4, <2>6, <2>8, Zenon
    <3>2. pc[y] \notin {"switching", "dead"}
      BY <1>h, <3>1, Zenon
    <3> QED
      BY <2>6, <3>1, <3>2, Zenon
  <2> QED
    BY <1>g, <2>7, <2>8, Zenon
<1>11. ASSUME Live, NEW p \in Procs, ForkDel(p) PROVE WaitInv'
  <2>1. PICK c \in Procs : c = np[p] /\ c # p /\ pc[c] = "embryo" /\ refs[c] = 1
                         /\ (inTree[c] <=> pc[p] # "fork_setup")
    BY <1>11, ForkChild, Zenon DEF ForkDel, Forking, TypeOK
  <2>2. Freed(c, p, "user")
    BY <1>11, <2>1, ForkDrops, Zenon
  <2>3. Listed' = Listed /\ wait_lock' = wait_lock /\ pc[p] \in Forking
    BY <1>11, <1>s, Zenon DEF ForkDel, env, Forking
  <2>4. \A x \in Procs : pc'[x] \in {"wait_scan", "wait_block", "wait_sleep"} => pc'[x] = pc[x]
    BY <2>2, Zenon DEF Freed
  <2>5. \A x \in Procs : pc[x] \in {"wait_scan", "wait_block"} => pc'[x] = pc[x]
    BY <2>1, <2>2, <2>3, Zenon DEF Forking, Freed
  <2>6. \A x \in Listed : parent'[x] = parent[x] /\ pc'[x] \in {pc[x], "user"}
    BY <1>0, <2>1, <2>2, Zenon DEF Freed
  <2>7. \A x \in Procs : wait_lock' = x <=> pc'[x] \in {"wait_scan", "wait_block"}
    BY <1>h, <2>3, <2>4, <2>5, Zenon
  <2>8. ASSUME NEW x \in Procs, pc'[x] \in {"wait_block", "wait_sleep"},
               NEW y \in Listed', parent'[y] = x
        PROVE  pc'[y] \notin {"switching", "dead"}
    <3>1. pc[x] \in {"wait_block", "wait_sleep"} /\ y \in Listed /\ parent[y] = x
      BY <2>3, <2>4, <2>6, <2>8, Zenon
    <3>2. pc[y] \notin {"switching", "dead"}
      BY <1>h, <3>1, Zenon
    <3> QED
      BY <2>6, <3>1, <3>2, Zenon
  <2> QED
    BY <1>g, <2>7, <2>8, Zenon
<1>12. ASSUME Live, NEW p \in Procs, ForkPublish(p) PROVE WaitInv'
  <2>1. PICK c \in Procs : c = np[p] /\ c # p /\ pc[c] = "embryo" /\ refs[c] = 1
                         /\ (inTree[c] <=> pc[p] # "fork_setup")
    BY <1>12, ForkChild, Zenon DEF ForkPublish, Forking, TypeOK
  <2>2. c \notin Listed
    BY <2>1, <1>0, Zenon
  <2>3. Listed' = Listed \cup {c}
    BY <1>12, <2>1, <2>2, PublishedList, Zenon DEF ForkPublish, ListInv, TypeOK
  <2>4. \A x \in Procs : /\ pc'[x] = IF x \in {c, p} THEN "user" ELSE pc[x]
                         /\ parent'[x] = IF x = c THEN p ELSE parent[x]
    BY <1>12, <2>1, Zenon DEF ForkPublish, TypeOK
  <2>5. wait_lock' = None /\ wait_lock = None
    BY <1>12, Zenon DEF ForkPublish
  <2> QED
    BY <1>12, <1>0, <1>h, <1>g, <2>1, <2>3, <2>4, <2>5
<1>13. ASSUME Live, NEW p \in Procs, WaitLock(p) PROVE WaitInv'
  <2>1. Listed' = Listed
    BY <1>13, <1>s, Zenon DEF WaitLock, env
  <2> QED
    BY <1>13, <1>0, <1>h, <1>g, <2>1, Zenon DEF WaitLock, Goto, env, TypeOK
<1>14. ASSUME Live, NEW p \in Procs, NEW z \in Procs, WaitReap(p, z) PROVE WaitInv'
  <2>1. z \in Listed /\ refs[z] = 1 /\ z # p /\ pc[z] = "dead"
    BY <1>14, ReapedChild, Zenon DEF WaitReap, ListInv, ListedIsAllocated, Zombie
  <2>2. Freed(z, p, "user")
    BY <1>14, <2>1, ReapFrees, Zenon
  <2>3. Listed' = Listed \ {z}
    BY <1>14, <2>1, ReapedList, Zenon DEF WaitReap, ListInv, TypeOK
  <2>4. wait_lock' = None /\ wait_lock = p
    BY <1>14, <1>h, Zenon DEF WaitReap
  <2>5. \A x \in Procs : pc'[x] \notin {"wait_scan", "wait_block"}
    BY <1>h, <2>2, <2>4, Zenon DEF Freed
  <2>6. \A x \in Listed : x # z => parent'[x] = parent[x] /\ pc'[x] \in {pc[x], "user"}
    BY <1>0, <2>2, Zenon DEF Freed
  <2>7. \A x \in Procs : pc'[x] = "wait_sleep" => pc[x] = "wait_sleep"
    BY <2>2, Zenon DEF Freed
  <2> QED
    BY <1>0, <1>h, <1>g, <2>3, <2>4, <2>5, <2>6, <2>7
<1>15. ASSUME Live, NEW p \in Procs, WaitFault(p) PROVE WaitInv'
  <2>1. Listed' = Listed
    BY <1>15, <1>s, Zenon DEF WaitFault, env
  <2> QED
    BY <1>15, <1>0, <1>h, <1>g, <2>1, Zenon DEF WaitFault, Goto, env, TypeOK
<1>16. ASSUME Live, NEW p \in Procs, WaitRefused(p) PROVE WaitInv'
  <2>1. Listed' = Listed
    BY <1>16, <1>s, Zenon DEF WaitRefused, env
  <2> QED
    BY <1>16, <1>0, <1>h, <1>g, <2>1 DEF WaitRefused, Goto, env, TypeOK
<1>17. ASSUME Live, NEW p \in Procs, WaitBlock(p) PROVE WaitInv'
  <2>1. Listed' = Listed
    BY <1>17, <1>s, Zenon DEF WaitBlock, env
  <2> QED
    BY <1>17, <1>0, <1>h, <1>g, <2>1, Zenon DEF WaitBlock, NoZombie, Children, Zombie, Goto, env, TypeOK
<1>18. ASSUME Live, NEW p \in Procs, WaitSleep(p) PROVE WaitInv'
  <2>1. Listed' = Listed
    BY <1>18, <1>s, Zenon DEF WaitSleep, env
  <2> QED
    BY <1>18, <1>0, <1>h, <1>g, <2>1, Zenon DEF WaitSleep, Goto, env, TypeOK
<1>19. ASSUME Live, NEW p \in Procs, SwitchedAway(p) PROVE WaitInv'
  <2>1. Listed' = Listed
    BY <1>19, <1>s, Zenon DEF SwitchedAway, env
  <2> QED
    BY <1>19, <1>0, <1>h, <1>g, <2>1 DEF SwitchedAway, Goto, env, TypeOK
<1>20. ASSUME Live, NEW p \in Procs, Schedule(p) PROVE WaitInv'
  <2>1. Listed' = Listed
    BY <1>20, RotatedList, Zenon DEF Schedule, ListInv, TypeOK
  <2> QED
    BY <1>20, <1>0, <1>h, <1>g, <2>1, Zenon DEF Schedule
<1>21. ASSUME Live, ExitInit PROVE WaitInv'
  <2>1. Listed' = Listed
    BY <1>21, <1>s, Zenon DEF ExitInit, env
  <2> QED
    BY <1>21, <1>0, <1>h, <1>g, <2>1, Zenon DEF ExitInit, env, TypeOK
<1>22. CASE UNCHANGED vars
  BY <1>22, <1>0, <1>h, <1>s, <1>g, Zenon DEF vars, env
<1> QED
  BY <1>1, <1>2, <1>3, <1>4, <1>5, <1>6, <1>7, <1>8, <1>9, <1>10, <1>11, <1>12, <1>13, <1>14, <1>15, <1>16, <1>17, <1>18, <1>19, <1>20, <1>21, <1>22, Zenon DEF Next, ForkStep, WaitStep

-----------------------------------------------------------------------------
(* The inductive invariant holds in every reachable state.                 *)
LEMMA ProcessInductive == Spec => []IInv
<1>1. Init => IInv
  <2> SUFFICES ASSUME Init PROVE IInv
    BY Zenon
  <2> USE ProcessAssumption DEF Init
  <2>1. Listed = {InitProc}
    BY DEF Listed
  <2>2. TypeOK
    <3>1. plist \in Seq(Procs) /\ kernel_stack_in_use \subseteq Stacks
      BY DEF Stacks
    <3>2. kstack \in [Procs -> 0..MAX_PROCESSES] /\ refs \in [Procs -> 0..2]
      OBVIOUS
    <3>3. pc \in [Procs -> Labels]
      BY Zenon DEF Labels
    <3>4. parent \in [Procs -> Procs \cup {None}] /\ np \in [Procs -> Procs \cup {None}]
      BY Zenon
    <3>5. killed \in [Procs -> BOOLEAN] /\ inTree \in [Procs -> BOOLEAN]
      BY Zenon
    <3>6. wait_lock \in Procs \cup {None} /\ calls \in 0..MaxCalls /\ kills \in 0..MaxKills
      OBVIOUS
    <3>7. panicked \in BOOLEAN /\ dangling \in BOOLEAN
      BY Zenon
    <3> HIDE DEF Init
    <3> QED
      BY <3>1, <3>2, <3>3, <3>4, <3>5, <3>6, <3>7, Zenon DEF TypeOK
  <2>3. ListInv
    <3>1. Once(plist)
      BY DEF Once
    <3> QED
      BY <2>1, <3>1, Zenon DEF ListInv, ListedIsAllocated, Allocated
  <2>4. ForkInv
    BY Zenon DEF ForkInv, Forking
  <2>5. StackInv
    <3>1. {q \in Procs : Allocated(q)} = {InitProc}
      BY Zenon DEF Allocated
    <3>2. kernel_stack_in_use = {kstack[p] : p \in {q \in Procs : Allocated(q)}}
      BY <3>1, Zenon
    <3>3. \A p, q \in Procs : p # q /\ Allocated(p) => kstack[p] # kstack[q]
      BY DEF Allocated
    <3>4. ASSUME NEW p \in Procs PROVE Allocated(p) <=> kstack[p] # 0
      <4>1. kstack[p] = (IF p = InitProc THEN 1 ELSE 0) /\ (Allocated(p) <=> p = InitProc)
        BY Zenon DEF Allocated
      <4> QED
        BY <4>1
    <3> QED
      BY <3>2, <3>3, <3>4, Zenon DEF StackInv, StacksExact
  <2>6. FamilyInv
    BY <2>1, Zenon DEF FamilyInv, ParentsLive, Zombie
  <2>7. WaitInv
    BY <2>1, Zenon DEF WaitInv, NoZombie, Children
  <2> QED
    BY <2>2, <2>3, <2>4, <2>5, <2>6, <2>7, Zenon DEF IInv
<1>2. IInv /\ [Next]_vars => IInv'
  BY TypeStep, ListStep, ForkInvStep, StackStep, FamilyStep, WaitInvStep, Zenon DEF IInv
<1> QED
  BY <1>1, <1>2, PTL DEF Spec

(* fork(), exit(), wait() and kill: parents live, no zombie is slept       *)
(* through, and kernel stacks, references and the process list are exact,  *)
(* after every failure path of do_fork() too.                              *)
THEOREM ProcessIsSafe == Spec => []ProcessSafe
<1>1. IInv => ProcessSafe
  BY Zenon DEF IInv, ProcessSafe, FamilyInv, StackInv, ListInv, WaitInv, NoLostChild
<1> QED
  BY <1>1, ProcessInductive, PTL

(* do_exit() and wait(): nothing frees a process that is still on its      *)
(* kernel stack, since wait() takes the lock the scheduler gives back.     *)
THEOREM ExitKeepsStack == Spec => StackOutlivesExit
<1>1. IInv /\ [Next]_vars => [\A p \in Procs : pc[p] = "switching" => pc'[p] \in Zombie]_vars
  <2> SUFFICES ASSUME TypeOK, ListInv, ForkInv, [Next]_vars, NEW s \in Procs, pc[s] = "switching"
               PROVE  pc'[s] \in Zombie
    BY Zenon DEF IInv
  <2> USE ProcessAssumption
  <2>1. ASSUME Live, NEW p \in Procs, NEW c \in Procs, ForkAlloc(p, c) PROVE pc'[s] \in Zombie
    BY <2>1, Zenon DEF ForkAlloc, MayCall, env, Zombie, TypeOK
  <2>2. ASSUME Live, NEW p \in Procs, ForkNoStack(p) PROVE pc'[s] \in Zombie
    BY <2>2, Zenon DEF ForkNoStack, MayCall, env, Zombie, TypeOK
  <2>3. ASSUME Live, NEW p \in Procs, CallWait(p) PROVE pc'[s] \in Zombie
    BY <2>3, Zenon DEF CallWait, MayCall, Goto, env, Zombie, TypeOK
  <2>4. ASSUME Live, NEW p \in Procs, Exit(p) PROVE pc'[s] \in Zombie
    BY <2>4, Zenon DEF Exit, Woken, env, Zombie, TypeOK
  <2>5. ASSUME Live, NEW p \in Procs, Kill(p) PROVE pc'[s] \in Zombie
    BY <2>5, Zenon DEF Kill, Goto, Woken, env, Zombie, TypeOK
  <2>6. ASSUME Live, NEW p \in Procs, ForkNoMemory(p) PROVE pc'[s] \in Zombie
    <3>1. PICK c \in Procs : c = np[p] /\ c # p /\ pc[c] = "embryo" /\ refs[c] = 1
                         /\ (inTree[c] <=> pc[p] # "fork_setup")
      BY <2>6, ForkChild, Zenon DEF ForkNoMemory, Forking, TypeOK
    <3>2. Freed(c, p, "user")
      BY <2>6, <3>1, ForkDrops, Zenon
    <3> QED
      BY <2>6, <3>1, <3>2, Zenon DEF ForkNoMemory, Zombie, TypeOK, Freed
  <2>7. ASSUME Live, NEW p \in Procs, ForkAdd(p) PROVE pc'[s] \in Zombie
    <3>1. PICK c \in Procs : c = np[p] /\ c # p /\ pc[c] = "embryo" /\ refs[c] = 1
                         /\ (inTree[c] <=> pc[p] # "fork_setup")
      BY <2>7, ForkChild, Zenon DEF ForkAdd, Forking, TypeOK
    <3> QED
      BY <2>7, <3>1, Zenon DEF ForkAdd, Goto, Zombie, TypeOK
  <2>8. ASSUME Live, NEW p \in Procs, ForkPut(p) PROVE pc'[s] \in Zombie
    <3>1. PICK c \in Procs : c = np[p] /\ c # p /\ pc[c] = "embryo" /\ refs[c] = 2
                         /\ (inTree[c] <=> pc[p] # "fork_setup")
      BY <2>8, ForkChild, Zenon DEF ForkPut, Forking, TypeOK
    <3>2. Released(c, p, "fork_publish")
      BY <2>8, <3>1, ForkDrops, Zenon
    <3> QED
      BY <2>8, <3>1, <3>2, Zenon DEF ForkPut, Zombie, TypeOK, Released
  <2>9. ASSUME Live, NEW p \in Procs, ForkAddNoName(p) PROVE pc'[s] \in Zombie
    <3>1. PICK c \in Procs : c = np[p] /\ c # p /\ pc[c] = "embryo" /\ refs[c] = 1
                         /\ (inTree[c] <=> pc[p] # "fork_setup")
      BY <2>9, ForkChild, Zenon DEF ForkAddNoName, ForkAddFailed, Forking, TypeOK
    <3>2. Freed(c, p, "fork_del")
      BY <2>9, <3>1, ForkDrops, Zenon
    <3> QED
      BY <2>9, <3>1, <3>2, Zenon DEF ForkAddNoName, ForkAddFailed, Zombie, TypeOK, Freed
  <2>10. ASSUME Live, NEW p \in Procs, ForkAddNoNode(p) PROVE pc'[s] \in Zombie
    <3>1. PICK c \in Procs : c = np[p] /\ c # p /\ pc[c] = "embryo" /\ refs[c] = 2
                         /\ (inTree[c] <=> pc[p] # "fork_setup")
      BY <2>10, ForkChild, Zenon DEF ForkAddNoNode, ForkAddFailed, Forking, TypeOK
    <3>2. Released(c, p, "fork_del")
      BY <2>10, <3>1, ForkDrops, Zenon
    <3> QED
      BY <2>10, <3>1, <3>2, Zenon DEF ForkAddNoNode, ForkAddFailed, Zombie, TypeOK, Released
  <2>11. ASSUME Live, NEW p \in Procs, ForkDel(p) PROVE pc'[s] \in Zombie
    <3>1. PICK c \in Procs : c = np[p] /\ c # p /\ pc[c] = "embryo" /\ refs[c] = 1
                         /\ (inTree[c] <=> pc[p] # "fork_setup")
      BY <2>11, ForkChild, Zenon DEF ForkDel, Forking, TypeOK
    <3>2. Freed(c, p, "user")
      BY <2>11, <3>1, ForkDrops, Zenon
    <3> QED
      BY <2>11, <3>1, <3>2, Zenon DEF ForkDel, Zombie, TypeOK, Freed
  <2>12. ASSUME Live, NEW p \in Procs, ForkPublish(p) PROVE pc'[s] \in Zombie
    <3>1. PICK c \in Procs : c = np[p] /\ c # p /\ pc[c] = "embryo" /\ refs[c] = 1
                         /\ (inTree[c] <=> pc[p] # "fork_setup")
      BY <2>12, ForkChild, Zenon DEF ForkPublish, Forking, TypeOK
    <3> QED
      BY <2>12, <3>1, Zenon DEF ForkPublish, Goto, Zombie, TypeOK
  <2>13. ASSUME Live, NEW p \in Procs, WaitLock(p) PROVE pc'[s] \in Zombie
    BY <2>13, Zenon DEF WaitLock, Goto, env, Zombie, TypeOK
  <2>14. ASSUME Live, NEW p \in Procs, NEW z \in Procs, WaitReap(p, z) PROVE pc'[s] \in Zombie
    <3>1. z \in Listed /\ refs[z] = 1 /\ z # p /\ pc[z] = "dead"
      BY <2>14, ReapedChild, Zenon DEF WaitReap, ListInv, ListedIsAllocated, Zombie
    <3>2. Freed(z, p, "user")
      BY <2>14, <3>1, ReapFrees, Zenon
    <3> QED
      BY <2>14, <3>1, <3>2, Zenon DEF WaitReap, Zombie, Freed
  <2>15. ASSUME Live, NEW p \in Procs, WaitFault(p) PROVE pc'[s] \in Zombie
    BY <2>15, Zenon DEF WaitFault, Goto, env, Zombie, TypeOK
  <2>16. ASSUME Live, NEW p \in Procs, WaitRefused(p) PROVE pc'[s] \in Zombie
    BY <2>16, Zenon DEF WaitRefused, Goto, env, Zombie, TypeOK
  <2>17. ASSUME Live, NEW p \in Procs, WaitBlock(p) PROVE pc'[s] \in Zombie
    BY <2>17, Zenon DEF WaitBlock, Goto, env, Zombie, TypeOK
  <2>18. ASSUME Live, NEW p \in Procs, WaitSleep(p) PROVE pc'[s] \in Zombie
    BY <2>18, Zenon DEF WaitSleep, Goto, env, Zombie, TypeOK
  <2>19. ASSUME Live, NEW p \in Procs, SwitchedAway(p) PROVE pc'[s] \in Zombie
    BY <2>19, Zenon DEF SwitchedAway, Goto, env, Zombie, TypeOK
  <2>20. ASSUME Live, NEW p \in Procs, Schedule(p) PROVE pc'[s] \in Zombie
    BY <2>20, Zenon DEF Schedule, env, Zombie, TypeOK
  <2>21. ASSUME Live, ExitInit PROVE pc'[s] \in Zombie
    BY <2>21, Zenon DEF ExitInit, env, Zombie, TypeOK
  <2>22. CASE UNCHANGED vars
    BY <2>22, Zenon DEF vars, env, Zombie, TypeOK
  <2> QED
    BY <2>1, <2>2, <2>3, <2>4, <2>5, <2>6, <2>7, <2>8, <2>9, <2>10, <2>11, <2>12, <2>13, <2>14, <2>15, <2>16, <2>17, <2>18, <2>19, <2>20, <2>21, <2>22, ZenonT(30) DEF Next, ForkStep, WaitStep
<1> QED
  BY <1>1, ProcessInductive, PTL DEF Spec, StackOutlivesExit
=============================================================================
