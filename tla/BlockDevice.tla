---------------------------- MODULE BlockDevice ----------------------------
(***************************************************************************)
(* What a block device driver promises to the buffer cache: a call moves   *)
(* one block between the caller's buffer and the disk, all at once, at     *)
(* some moment between the call and its return, and exactly once.          *)
(***************************************************************************)
CONSTANTS Callers, Sectors, Contents

VARIABLES
    stored,     \* what is on the disk
    buffer,     \* a caller's buffer
    asked,      \* a caller's request, or none
    moved       \* callers whose block was moved

bdVars == <<stored, buffer, asked, moved>>

BdInit ==
    /\ stored \in [Sectors -> Contents]
    /\ buffer \in [Callers -> Contents]
    /\ asked = [p \in Callers |-> {}]
    /\ moved = {}

BdCall(p) == \E s \in Sectors, write \in BOOLEAN, v \in Contents :
    /\ asked[p] = {}
    /\ asked' = [asked EXCEPT ![p] = {<<s, write>>}]
    /\ buffer' = [buffer EXCEPT ![p] = v]   \* the caller's own doing
    /\ UNCHANGED <<stored, moved>>

BdMove(p) == \E r \in asked[p] :
    /\ p \notin moved
    /\ IF r[2] THEN /\ stored' = [stored EXCEPT ![r[1]] = buffer[p]]
                    /\ UNCHANGED buffer
               ELSE /\ buffer' = [buffer EXCEPT ![p] = stored[r[1]]]
                    /\ UNCHANGED stored
    /\ moved' = moved \cup {p}
    /\ UNCHANGED asked

BdReturn(p) ==
    /\ p \in moved
    /\ moved' = moved \ {p}
    /\ asked' = [asked EXCEPT ![p] = {}]
    /\ UNCHANGED <<stored, buffer>>

BdNext == \E p \in Callers : BdCall(p) \/ BdMove(p) \/ BdReturn(p)

BdSpec == BdInit /\ [][BdNext]_bdVars
=============================================================================
