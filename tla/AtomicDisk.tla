----------------------------- MODULE AtomicDisk -----------------------------
(***************************************************************************)
(* What the vimixfs log promises.  File system calls update blocks in      *)
(* memory; at some moment when no call is under way, all updates become    *)
(* durable at once; a crash takes memory back to the durable contents.     *)
(* So a call's updates survive a crash all together or not at all.         *)
(***************************************************************************)
EXTENDS Naturals

CONSTANTS Blocks, Values, Procs

VARIABLES mem, durable, active

Init ==
    /\ mem \in [Blocks -> Values]
    /\ durable = mem
    /\ active = {}

Begin == \E p \in Procs \ active :
    active' = active \cup {p} /\ UNCHANGED <<mem, durable>>

Write == \E b \in Blocks, v \in Values :
    /\ active # {}
    /\ mem' = [mem EXCEPT ![b] = v]
    /\ UNCHANGED <<durable, active>>

End == \E p \in active :
    active' = active \ {p} /\ UNCHANGED <<mem, durable>>

Commit ==
    /\ active = {}
    /\ durable' = mem
    /\ UNCHANGED <<mem, active>>

Crash ==
    /\ mem' = durable
    /\ active' = {}
    /\ UNCHANGED durable

Next == Begin \/ Write \/ End \/ Commit \/ Crash

ASpec == Init /\ [][Next]_<<mem, durable, active>>
=============================================================================
