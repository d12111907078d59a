------------------------------- MODULE MCLive -------------------------------
(* Processes (module Process) and the scheduler (module Sleep) under fairness, *)
(* each on a small instance: a behaviour runs one of them, the other rests.    *)
EXTENDS Process, FiniteSets, Functions

CONSTANTS Threads, CPUs, MaxEvents, MaxAttempts
VARIABLES state, chan, s_killed, plock, s_plist, readers, writer, g_wait_lock, cpu_proc,
          cpc, at, ppc, target, tries, lk, events, made, owed, part

Sched == INSTANCE Sleep WITH Procs <- Threads, killed <- s_killed, plist <- s_plist

schedVars == <<state, chan, s_killed, plock, s_plist, readers, writer, g_wait_lock, cpu_proc,
               cpc, at, ppc, target, tries, lk, events, made, owed>>

InProcess(A) == part = "process" /\ A /\ UNCHANGED <<schedVars, part>>
InSched(A) == part = "sleep" /\ A /\ UNCHANGED <<vars, part>>
all == <<vars, schedVars, part>>

LiveInit == /\ Init /\ Sched!Init /\ part \in {"process", "sleep"}
            /\ part = "process" => s_plist = CHOOSE l \in [1..Cardinality(Threads) -> Threads] : Range(l) = Threads
LiveNext == InProcess(Next) \/ InSched(Sched!Next)

\* The scheduler gives every process time to finish the call it is in, a killed
\* process exits, and init, which never forks twice without a wait() in between,
\* always comes back to wait() (usr/bin/init.c).  A CPU never stops executing
\* kernel code, and the timer interrupts user code and wakes an idle CPU from
\* wait_for_interrupt().
LiveSpec ==
    /\ LiveInit /\ [][LiveNext]_all
    /\ \A p \in Procs : WF_all(InProcess(Running(p))) /\ WF_all(InProcess(Dying(p)))
    /\ SF_all(InProcess(Live /\ CallWait(InitProc)))
    /\ WF_all(InProcess(Live /\ killed[InitProc] /\ ExitInit))
    /\ \A c \in CPUs :
        /\ WF_all(InSched(Sched!Scheduler(c)))
        /\ WF_all(InSched(Sched!Event(c)))
        /\ WF_all(InSched(\E t \in Threads : Sched!Kernel(c, t)))
        /\ WF_all(InSched(\E t \in Threads : Sched!Timer(c, t)))

(* Round robin: the scheduler's rotating list lets a process that can run run. *)
RunnableRuns ==
    \A t \in Threads : (part = "sleep" /\ state[t] = "RUNNABLE") ~> state[t] = "RUNNING"
=============================================================================
