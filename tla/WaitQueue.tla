----------------------------- MODULE WaitQueue -----------------------------
(***************************************************************************)
(* What sleep() and wakeup() promise to the rest of the kernel.  A process *)
(* that gives up its lock to sleep is waiting from that very moment on.    *)
(* Whoever was waiting when wakeup() was called is no longer waiting when  *)
(* it returns.  Nobody stops waiting without a wakeup() or a kill.         *)
(***************************************************************************)
CONSTANTS
    Procs,  \* processes
    Wakers  \* contexts that call wakeup(), each one call at a time

VARIABLES
    waiting,  \* processes asleep on the channel
    calling,  \* wakers inside wakeup()
    owed,     \* whom a waker still has to wake before it may return
    doomed    \* processes that were killed

wvars == <<waiting, calling, owed, doomed>>

WInit ==
    /\ waiting = {}
    /\ calling = {}
    /\ owed = [w \in Wakers |-> {}]
    /\ doomed = {}

Wait(p) ==
    /\ p \notin waiting
    /\ waiting' = waiting \cup {p}
    /\ UNCHANGED <<calling, owed, doomed>>

Begin(w) ==
    /\ w \notin calling
    /\ calling' = calling \cup {w}
    /\ owed' = [owed EXCEPT ![w] = waiting]
    /\ UNCHANGED <<waiting, doomed>>

StopWaiting(p) ==
    /\ waiting' = waiting \ {p}
    /\ owed' = [w \in Wakers |-> owed[w] \ {p}]

Wake(p) ==
    /\ p \in waiting
    /\ calling # {}
    /\ StopWaiting(p)
    /\ UNCHANGED <<calling, doomed>>

Kill(p) ==      \* a process may be killed more than once
    /\ doomed' = doomed \cup {p}
    /\ StopWaiting(p)
    /\ UNCHANGED calling

End(w) ==
    /\ w \in calling
    /\ owed[w] = {}
    /\ calling' = calling \ {w}
    /\ UNCHANGED <<waiting, owed, doomed>>

WNext ==
    \/ \E p \in Procs : Wait(p) \/ Wake(p) \/ Kill(p)
    \/ \E w \in Wakers : Begin(w) \/ End(w)

WSpec == WInit /\ [][WNext]_wvars
=============================================================================
