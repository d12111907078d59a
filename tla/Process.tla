------------------------------- MODULE Process -------------------------------
(***************************************************************************)
(* kernel/proc.c and kernel/process.c: the life of a process from fork()   *)
(* to the wait() of its parent, kernel stacks and reference counts.        *)
(*                                                                         *)
(* Procs are the addresses kmalloc() can return for a struct process: a    *)
(* freed one is used again by a later fork().  What happens under          *)
(* g_wait_lock without giving it up is one step; the points at which       *)
(* another CPU can interfere are steps of their own.  sleep() and wakeup() *)
(* are atomic (module Sleep).  g_process_list.lock and proc->lock are only *)
(* held inside a step, with one exception that matters: an exiting process *)
(* keeps proc->lock until the scheduler of its CPU has left its stack.     *)
(***************************************************************************)
EXTENDS Naturals, Sequences

CONSTANTS
    Procs,          \* addresses of a struct process
    InitProc,       \* g_initial_user_process
    MAX_PROCESSES,  \* kernel stacks
    MaxCalls,       \* bound: fork() and wait() calls of processes but init
    MaxKills,       \* bound: kill() calls
    None

ASSUME ProcessAssumption ==
    /\ InitProc \in Procs
    /\ None \notin Procs
    /\ MAX_PROCESSES \in Nat \ {0}
    /\ MaxCalls \in Nat
    /\ MaxKills \in Nat

VARIABLES
    pc,             \* where a process is
    parent,         \* proc->parent
    killed,         \* proc->killed
    kstack,         \* proc->kstack, as an index; 0 is none
    refs,           \* proc->kobj.ref_count
    inTree,         \* is proc->kobj a child of g_kobjects_proc?
    np,             \* the local np of do_fork()
    plist,          \* g_process_list.plist, first to last
    kernel_stack_in_use,
    wait_lock,      \* holder of g_wait_lock
    calls,          \* calls made so far by processes other than init
    kills,          \* kills so far
    panicked,       \* init returned
    dangling        \* a freed struct process was used: anything may follow

vars == <<pc, parent, killed, kstack, refs, inTree, np, plist,
          kernel_stack_in_use, wait_lock, calls, kills, panicked, dangling>>
env == <<calls, kills, panicked, dangling>>

Stacks == 1..MAX_PROCESSES
Forking == {"fork_setup", "fork_add", "fork_publish", "fork_del"}
Waiting == {"wait_lock", "wait_scan", "wait_block", "wait_sleep"}
Zombie == {"switching", "dead"}     \* still on its stack; switched away
Labels == {"none", "embryo", "user"} \cup Forking \cup Waiting \cup Zombie

Allocated(p) == pc[p] # "none"
Listed == {plist[i] : i \in DOMAIN plist}
Without(p) ==
    LET i == CHOOSE i \in DOMAIN plist : plist[i] = p
    IN  SubSeq(plist, 1, i - 1) \o SubSeq(plist, i + 1, Len(plist))
Children(p) == {c \in Listed : parent[c] = p}
Goto(p, label) == pc' = [pc EXCEPT ![p] = label]

Init ==
    /\ pc = [p \in Procs |-> IF p = InitProc THEN "user" ELSE "none"]
    /\ parent = [p \in Procs |-> None]
    /\ killed = [p \in Procs |-> FALSE]
    /\ kstack = [p \in Procs |-> IF p = InitProc THEN 1 ELSE 0]
    /\ refs = [p \in Procs |-> IF p = InitProc THEN 1 ELSE 0]
    /\ inTree = [p \in Procs |-> p = InitProc]
    /\ np = [p \in Procs |-> None]
    /\ plist = <<InitProc>>
    /\ kernel_stack_in_use = {1}
    /\ wait_lock = None
    /\ calls = 0 /\ kills = 0
    /\ panicked = FALSE /\ dangling = FALSE

(* A process in user space makes a system call; a killed one cannot.       *)
MayCall(p) ==
    /\ pc[p] = "user" /\ ~killed[p]
    /\ IF p = InitProc THEN UNCHANGED calls
       ELSE calls < MaxCalls /\ calls' = calls + 1

(* kref_put() of the last reference frees proc: its kernel stack may be    *)
(* used again and its memory becomes available.                            *)
process_free(p) ==
    /\ kernel_stack_in_use' = kernel_stack_in_use \ {kstack[p]}
    /\ kstack' = [kstack EXCEPT ![p] = 0]
    /\ parent' = [parent EXCEPT ![p] = None]
    /\ killed' = [killed EXCEPT ![p] = FALSE]

proc_put(p, actor, label) ==
    /\ refs' = [refs EXCEPT ![p] = @ - 1]
    /\ IF refs[p] = 1
         THEN /\ process_free(p)
              /\ pc' = [pc EXCEPT ![p] = "none", ![actor] = label]
         ELSE /\ Goto(actor, label)
              /\ UNCHANGED <<kernel_stack_in_use, kstack, parent, killed>>
-----------------------------------------------------------------------------
(* do_fork(): process_alloc_init() takes the lowest free kernel stack.     *)
ForkAlloc(p, c) ==
    /\ MayCall(p)
    /\ pc[c] = "none"
    /\ \E s \in Stacks \ kernel_stack_in_use :
        /\ \A t \in Stacks \ kernel_stack_in_use : s <= t
        /\ kernel_stack_in_use' = kernel_stack_in_use \cup {s}
        /\ kstack' = [kstack EXCEPT ![c] = s]
    /\ refs' = [refs EXCEPT ![c] = 1]
    /\ inTree' = [inTree EXCEPT ![c] = FALSE]
    /\ np' = [np EXCEPT ![p] = c]
    /\ pc' = [pc EXCEPT ![p] = "fork_setup", ![c] = "embryo"]
    /\ UNCHANGED <<parent, killed, plist, wait_lock, kills, panicked, dangling>>

(* No stack is free: -ENOMEM.                                              *)
ForkNoStack(p) ==
    /\ MayCall(p)
    /\ Stacks \subseteq kernel_stack_in_use
    /\ p # InitProc
    /\ UNCHANGED <<pc, parent, killed, kstack, refs, inTree, np, plist,
                   kernel_stack_in_use, wait_lock, kills, panicked, dangling>>

(* A page of the stack, the trapframe, the page table or the copy of the   *)
(* parent's memory cannot be allocated: everything is undone.              *)
ForkNoMemory(p) ==
    /\ pc[p] = "fork_setup"
    /\ proc_put(np[p], p, "user")
    /\ np' = [np EXCEPT ![p] = None]
    /\ UNCHANGED <<inTree, plist, wait_lock, env>>

(* kobject_add() takes a reference for the tree, then do_fork() drops its  *)
(* own.                                                                    *)
ForkAdd(p) ==
    /\ pc[p] = "fork_setup"
    /\ refs' = [refs EXCEPT ![np[p]] = @ + 1]
    /\ inTree' = [inTree EXCEPT ![np[p]] = TRUE]
    /\ Goto(p, "fork_add")
    /\ UNCHANGED <<parent, killed, kstack, np, plist, kernel_stack_in_use,
                   wait_lock, env>>

ForkPut(p) ==
    /\ pc[p] = "fork_add"
    /\ proc_put(np[p], p, "fork_publish")
    /\ UNCHANGED <<inTree, np, plist, wait_lock, env>>

(* kobject_add() failed: with the name, before it did anything, or in      *)
(* sysfs, after it had put the object into the tree.  do_fork() drops its  *)
(* reference, which frees an object that is not in the tree, and goes on   *)
(* to delete "the partial addition".                                       *)
ForkAddFailed(p, label) ==
    /\ pc[p] = label
    /\ proc_put(np[p], p, "fork_del")
    /\ dangling' = (refs[np[p]] = 1)
    /\ UNCHANGED <<inTree, np, plist, wait_lock, calls, kills, panicked>>

ForkAddNoName(p) == ForkAddFailed(p, "fork_setup")
ForkAddNoNode(p) == ForkAddFailed(p, "fork_add")

ForkDel(p) ==
    /\ pc[p] = "fork_del"
    /\ proc_put(np[p], p, "user")
    /\ inTree' = [inTree EXCEPT ![np[p]] = FALSE]
    /\ np' = [np EXCEPT ![p] = None]
    /\ UNCHANGED <<plist, wait_lock, env>>

(* The child becomes visible together with its parent.                     *)
ForkPublish(p) ==
    /\ pc[p] = "fork_publish"
    /\ wait_lock = None
    /\ parent' = [parent EXCEPT ![np[p]] = p]
    /\ plist' = Append(plist, np[p])
    /\ pc' = [pc EXCEPT ![p] = "user", ![np[p]] = "user"]
    /\ np' = [np EXCEPT ![p] = None]
    /\ UNCHANGED <<killed, kstack, refs, inTree, kernel_stack_in_use,
                   wait_lock, env>>
-----------------------------------------------------------------------------
(* wakeup(): the processes ps, if they sleep in do_wait(), go on with it   *)
(* by taking g_wait_lock again.                                            *)
Woken(q, ps) ==
    IF q \in ps /\ pc[q] = "wait_sleep" THEN "wait_lock" ELSE pc[q]

(* do_exit() under g_wait_lock: orphans go to init, init is woken for      *)
(* them, the parent is woken, the process is a zombie.                     *)
Exit_silent(p) ==           \* fault: reparent() does not wake init
    /\ pc[p] = "user" /\ p # InitProc
    /\ wait_lock = None
    /\ parent' = [c \in Procs |->
                    IF c \in Children(p) THEN InitProc ELSE parent[c]]
    /\ pc' = [q \in Procs |-> IF q = p THEN "switching"
                              ELSE Woken(q, {parent[p]})]
    /\ UNCHANGED <<killed, kstack, refs, inTree, np, plist,
                   kernel_stack_in_use, wait_lock, env>>

Exit(p) ==
    /\ pc[p] = "user" /\ p # InitProc
    /\ wait_lock = None
    /\ parent' = [c \in Procs |->
                    IF c \in Children(p) THEN InitProc ELSE parent[c]]
    /\ pc' = [q \in Procs |->
                IF q = p THEN "switching"
                ELSE Woken(q, {parent[p]} \cup
                              IF Children(p) = {} THEN {} ELSE {InitProc})]
    /\ UNCHANGED <<killed, kstack, refs, inTree, np, plist,
                   kernel_stack_in_use, wait_lock, env>>

(* init exits if fork() or wait() fail, or if it is killed.                *)
ExitInit ==
    /\ pc[InitProc] = "user"
    /\ panicked' = TRUE
    /\ UNCHANGED <<pc, parent, killed, kstack, refs, inTree, np, plist,
                   kernel_stack_in_use, wait_lock, calls, kills, dangling>>

(* scheduler() of the CPU p ran on is back on its own stack and releases   *)
(* proc->lock.                                                             *)
SwitchedAway(p) ==
    /\ pc[p] = "switching"
    /\ Goto(p, "dead")
    /\ UNCHANGED <<parent, killed, kstack, refs, inTree, np, plist,
                   kernel_stack_in_use, wait_lock, env>>
-----------------------------------------------------------------------------
CallWait(p) ==
    /\ MayCall(p)
    /\ Goto(p, "wait_lock")
    /\ UNCHANGED <<parent, killed, kstack, refs, inTree, np, plist,
                   kernel_stack_in_use, wait_lock, kills, panicked, dangling>>

WaitLock(p) ==
    /\ pc[p] = "wait_lock"
    /\ wait_lock = None
    /\ wait_lock' = p
    /\ Goto(p, "wait_scan")
    /\ UNCHANGED <<parent, killed, kstack, refs, inTree, np, plist,
                   kernel_stack_in_use, env>>

(* The scan takes the lock of every child it meets, "to make sure the      *)
(* child isn't still in exit() or context_switch()": it spins on a child   *)
(* that is "switching".  The first zombie leaves the list and the tree.    *)
ZombieChild(p, c) == parent[c] = p /\ pc[c] \in Zombie

FirstZombie_last(p, z) ==   \* fault: the youngest zombie first
    \E i \in DOMAIN plist :
        /\ plist[i] = z /\ ZombieChild(p, z)
        /\ \A j \in (i + 1)..Len(plist) : ~ZombieChild(p, plist[j])

FirstZombie(p, z) ==
    \E i \in DOMAIN plist :
        /\ plist[i] = z /\ ZombieChild(p, z)
        /\ \A j \in 1..(i - 1) : ~ZombieChild(p, plist[j])

WaitReap_nolock(p, z) ==    \* fault: does not take the child's lock
    /\ pc[p] = "wait_scan"
    /\ FirstZombie(p, z)
    /\ plist' = Without(z)
    /\ inTree' = [inTree EXCEPT ![z] = FALSE]
    /\ proc_put(z, p, "user")
    /\ wait_lock' = None
    /\ UNCHANGED <<np, env>>

WaitReap(p, z) ==
    /\ pc[p] = "wait_scan"
    /\ FirstZombie(p, z) /\ pc[z] = "dead"
    /\ plist' = Without(z)
    /\ inTree' = [inTree EXCEPT ![z] = FALSE]
    /\ proc_put(z, p, "user")
    /\ wait_lock' = None
    /\ UNCHANGED <<np, env>>

(* The exit status cannot be copied out: the zombie stays, -EFAULT.        *)
WaitFault(p) ==
    /\ pc[p] = "wait_scan" /\ p # InitProc
    /\ \E z \in Children(p) : FirstZombie(p, z) /\ pc[z] = "dead"
    /\ wait_lock' = None
    /\ Goto(p, "user")
    /\ UNCHANGED <<parent, killed, kstack, refs, inTree, np, plist,
                   kernel_stack_in_use, env>>

NoZombie(p) == \A c \in Children(p) : pc[c] \notin Zombie

(* No children, or killed: -ECHILD.                                        *)
WaitRefused(p) ==
    /\ pc[p] = "wait_scan" /\ NoZombie(p)
    /\ Children(p) = {} \/ killed[p]
    /\ wait_lock' = None
    /\ Goto(p, "user")
    /\ UNCHANGED <<parent, killed, kstack, refs, inTree, np, plist,
                   kernel_stack_in_use, env>>

WaitBlock(p) ==
    /\ pc[p] = "wait_scan" /\ NoZombie(p)
    /\ Children(p) # {} /\ ~killed[p]
    /\ Goto(p, "wait_block")
    /\ UNCHANGED <<parent, killed, kstack, refs, inTree, np, plist,
                   kernel_stack_in_use, wait_lock, env>>

WaitSleep(p) ==
    /\ pc[p] = "wait_block"
    /\ wait_lock' = None
    /\ Goto(p, "wait_sleep")
    /\ UNCHANGED <<parent, killed, kstack, refs, inTree, np, plist,
                   kernel_stack_in_use, env>>

(* proc_send_signal() finds the process in the list and needs its lock,    *)
(* which a "switching" one does not give.                                  *)
Kill(p) ==
    /\ p \in Listed /\ pc[p] # "switching"
    /\ ~killed[p]
    /\ kills < MaxKills /\ kills' = kills + 1
    /\ killed' = [killed EXCEPT ![p] = TRUE]
    /\ Goto(p, Woken(p, {p}))
    /\ UNCHANGED <<parent, kstack, refs, inTree, np, plist,
                   kernel_stack_in_use, wait_lock, calls, panicked, dangling>>

(* get_next_runnable_process() moves the process it picks to the end of    *)
(* the list.                                                               *)
Schedule(p) ==
    /\ p \in Listed /\ pc[p] \notin Zombie \cup {"wait_sleep"}
    /\ plist' = Append(Without(p), p)
    /\ UNCHANGED <<pc, parent, killed, kstack, refs, inTree, np,
                   kernel_stack_in_use, wait_lock, env>>
-----------------------------------------------------------------------------
ForkStep(p) ==
    \/ ForkNoMemory(p) \/ ForkAdd(p) \/ ForkPut(p)
    \/ ForkAddNoName(p) \/ ForkAddNoNode(p) \/ ForkDel(p) \/ ForkPublish(p)

WaitStep(p) ==
    \/ WaitLock(p) \/ (\E z \in Procs : WaitReap(p, z)) \/ WaitFault(p)
    \/ WaitRefused(p) \/ WaitBlock(p) \/ WaitSleep(p)

Live == ~panicked /\ ~dangling

Next ==
    /\ Live
    /\ \/ \E p \in Procs :
            \/ \E c \in Procs : ForkAlloc(p, c)
            \/ ForkNoStack(p) \/ CallWait(p) \/ Exit(p) \/ Kill(p)
            \/ ForkStep(p) \/ WaitStep(p) \/ SwitchedAway(p) \/ Schedule(p)
       \/ ExitInit

Spec == Init /\ [][Next]_vars

(* What a process does without being asked: it goes on with its call, and  *)
(* exits when it was killed.                                               *)
Running(p) == Live /\ (ForkStep(p) \/ WaitStep(p) \/ SwitchedAway(p))
Dying(p) == Live /\ killed[p] /\ Exit(p)
-----------------------------------------------------------------------------
TypeOK ==
    /\ pc \in [Procs -> Labels]
    /\ parent \in [Procs -> Procs \cup {None}]
    /\ killed \in [Procs -> BOOLEAN]
    /\ kstack \in [Procs -> 0..MAX_PROCESSES]
    /\ refs \in [Procs -> 0..2]
    /\ inTree \in [Procs -> BOOLEAN]
    /\ np \in [Procs -> Procs \cup {None}]
    /\ plist \in Seq(Procs)
    /\ kernel_stack_in_use \subseteq Stacks
    /\ wait_lock \in Procs \cup {None}
    /\ calls \in 0..MaxCalls /\ kills \in 0..MaxKills
    /\ panicked \in BOOLEAN /\ dangling \in BOOLEAN

(* do_exit() hands all children to init under g_wait_lock and do_fork()    *)
(* publishes a child under it: every process in the list but init has a    *)
(* parent that is itself in the list and has not exited, so that somebody  *)
(* can always wait() for it.                                               *)
ParentsLive ==
    \A c \in Listed \ {InitProc} :
        parent[c] \in Listed /\ pc[parent[c]] \notin Zombie

(* Nobody sleeps in do_wait() while one of its children is a zombie: the   *)
(* exit of a child, or of the process that left its children to init,      *)
(* reaches the sleeper.                                                    *)
NoLostChild ==
    \A p \in Procs : pc[p] = "wait_sleep" => NoZombie(p)

(* The bitmap of kernel stacks is exact: no two live processes share a     *)
(* stack, each one's stack is marked, and no stack stays marked after the  *)
(* failure paths of do_fork() or after process_free().                     *)
StacksExact ==
    /\ kernel_stack_in_use = {kstack[p] : p \in {q \in Procs : Allocated(q)}}
    /\ \A p, q \in Procs : p # q /\ Allocated(p) => kstack[p] # kstack[q]

(* "the parent can't free the process while we still hold the proc->lock": *)
(* the kernel stack of an exiting process is not freed before its CPU has  *)
(* switched away from it.                                                  *)
StackOutlivesExit ==
    [][\A p \in Procs : pc[p] = "switching" => pc'[p] \in Zombie]_vars

(* The tree holds exactly one reference to every listed process, and every *)
(* listed process is allocated.                                            *)
ListedIsAllocated ==
    \A p \in Listed : Allocated(p) /\ inTree[p] /\ refs[p] = 1

(* A zombie that was left to init is freed, unless the system panics (or a *)
(* failed fork() has used freed memory).                                   *)
OrphansReaped ==
    \A z \in Procs :
        (pc[z] \in Zombie /\ parent[z] = InitProc)
            ~> (pc[z] = "none" \/ ~Live)

(* fork(), exit() and wait() together: parents live, no zombie is slept through, *)
(* and stacks, references and the process list are exact.                        *)
ProcessSafe ==
    /\ TypeOK
    /\ ParentsLive
    /\ NoLostChild
    /\ StacksExact
    /\ ListedIsAllocated
=============================================================================
