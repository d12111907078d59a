------------------------------- MODULE MCPipe -------------------------------
(* A two-byte pipe whose counters wrap at four, for TLC.                   *)
EXTENDS Pipe, TLC

ProcSymmetry == Permutations(Procs)

(* Cells of the ring that hold no unread byte are not told apart.          *)
View == <<Contents, nread, read_open, write_open, allocated, lock, fds, killed, pc, left>>
=============================================================================
