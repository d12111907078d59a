------------------------------ MODULE MCKalloc ------------------------------
(* The memory of the kernel and the objects it shows in sysfs, each on a small *)
(* instance: a behaviour runs one of them while the other rests.               *)
EXTENDS Kalloc, Sysfs

VARIABLE part
both == <<part, vars, sysVars>>

MCInit == Init /\ SysInit /\ part \in {"kalloc", "sysfs"}
MCNext == /\ UNCHANGED part
          /\ \/ part = "kalloc" /\ Next /\ UNCHANGED sysVars
             \/ part = "sysfs" /\ SysNext /\ UNCHANGED vars
MCSpec == MCInit /\ [][MCNext]_both

Symmetry == Permutations(CPUs) \cup Permutations(Objects)
              \cup Permutations(Kobjects) \cup Permutations(SysThreads)

(* Pages, ranges and objects together: each piece of memory has one owner, none *)
(* is lost, buddies are merged and slabs live as long as their objects.         *)
MemoryExact ==
    part = "kalloc" => TypeOK /\ OneOwner /\ PagesExact /\ Coalesced /\ SlabsExact

(* Kernel objects come and go while their files are listed and held open: counts, *)
(* nodes, inodes and listings stay exact.                                         *)
SysfsSafe ==
    part = "sysfs" => ObjectsCounted /\ NodesMirrorTree /\ InodesHeld /\ ListingComplete
=============================================================================
