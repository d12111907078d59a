------------------------------ MODULE PipeFifo ------------------------------
(***************************************************************************)
(* What a pipe promises to the processes that share it: a bounded FIFO of  *)
(* bytes with a reading and a writing end.  Bytes leave in the order in    *)
(* which they entered, none is duplicated, nothing enters once the reading *)
(* end is closed, and an end that is closed never opens again.             *)
(***************************************************************************)
EXTENDS Sequences, Naturals

CONSTANTS Bytes, Capacity

VARIABLES queue, readable, writable

fifoVars == <<queue, readable, writable>>

FifoInit ==
    /\ queue = <<>>
    /\ readable = TRUE
    /\ writable = TRUE

Put(b) ==
    /\ readable /\ writable
    /\ Len(queue) < Capacity
    /\ queue' = Append(queue, b)
    /\ UNCHANGED <<readable, writable>>

Get ==
    /\ readable
    /\ queue # <<>>
    /\ queue' = Tail(queue)
    /\ UNCHANGED <<readable, writable>>

CloseRead ==
    /\ readable
    /\ readable' = FALSE
    /\ UNCHANGED <<queue, writable>>

CloseWrite ==
    /\ writable
    /\ writable' = FALSE
    /\ UNCHANGED <<queue, readable>>

FifoNext ==
    \/ \E b \in Bytes : Put(b)
    \/ Get
    \/ CloseRead
    \/ CloseWrite

FifoSpec == FifoInit /\ [][FifoNext]_fifoVars
=============================================================================
