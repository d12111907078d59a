---------------------------- MODULE VirtioProofs ----------------------------
(***************************************************************************)
(* Proofs about module Virtio, for every number of descriptors, width of   *)
(* the ring indices, number of callers, blocks and contents: VirtioSafe,   *)
(* and that the driver with its device implements BlockDevice.             *)
(***************************************************************************)
EXTENDS Virtio, RingBuffer, FiniteSetTheorems, WellFoundedInduction

D == VIRTIO_DESCRIPTORS
Triples == Descs \X Descs \X Descs
Wanted == VBlocks \X BOOLEAN

(* The heads on the avail ring and on the used ring, oldest first.         *)
Avail == Cells(D, IDX, avail, taken, avail_idx)
Used == Cells(D, IDX, used, used_idx, used_ring_idx)

Elems(s) == {s[k] : k \in 1 .. Len(s)}
NoRepeat(s) == \A j, k \in 1 .. Len(s) : s[j] = s[k] => j = k

RingOK ==
    /\ avail \in Rings(D, Descs) /\ used \in Rings(D, Descs)
    /\ avail_idx \in Index(IDX) /\ taken \in Index(IDX)
    /\ used_idx \in Index(IDX) /\ used_ring_idx \in Index(IDX)
ChainOK ==
    /\ desc_free \subseteq Descs /\ working \subseteq Descs
    /\ idx \in [VProcs -> Triples \cup {<< >>}]
    /\ desc \in [Descs -> Wanted \cup {<< >>}]
    /\ info \in [Descs -> VProcs \cup {Nobody}]
CallOK ==
    /\ owned_by_driver \in [VProcs -> BOOLEAN] /\ irq \in BOOLEAN
    /\ vdisk_lock \in {"intr", Nobody}
    /\ v_pc \in [VProcs -> VLabels]
    /\ v_req \in [VProcs -> Wanted \cup {<< >>}]
    /\ v_calls \in [VProcs -> 0 .. MaxRw]
DataOK == v_data \in [VProcs -> VValues] /\ v_disk \in [VBlocks -> VValues]
TypeInv == RingOK /\ ChainOK /\ CallOK /\ DataOK

(* Descriptor d is in the chain t.                                         *)
Has(t, d) == t # << >> /\ d \in {t[1], t[2], t[3]}

(* A descriptor is free or in one chain.                                   *)
ChainInv ==
    /\ \A d \in Descs : d \in desc_free <=> \A p \in VProcs : ~ Has(idx[p], d)
    /\ \A p, q \in VProcs, d \in Descs : Has(idx[p], d) /\ Has(idx[q], d) => p = q

(* A caller has a chain while it waits, the first of which knows the       *)
(* caller and its request.                                                 *)
WaitInv ==
    \A p \in VProcs :
        /\ v_pc[p] \in {"wait", "awake"} <=> idx[p] # << >>
        /\ v_pc[p] = "idle" <=> v_req[p] = << >>
KnownInv ==
    \A p \in VProcs : idx[p] # << >> => info[idx[p][1]] = p /\ desc[idx[p][1]] = v_req[p]

(* A head is on one ring or at work in the device, once, and belongs to a  *)
(* caller that still waits for it.                                         *)
Owner(h, p) == idx[p] # << >> /\ idx[p][1] = h /\ owned_by_driver[p]
Apart(A, B, C) == A \cap B = {} /\ A \cap C = {} /\ B \cap C = {}
HeadInv ==
    /\ NoRepeat(Avail) /\ NoRepeat(Used)
    /\ Apart(Elems(Avail), working, Elems(Used))
    /\ \A h \in Elems(Avail) \cup working \cup Elems(Used) : \E p \in VProcs : Owner(h, p)

IInv == TypeInv /\ ChainInv /\ WaitInv /\ KnownInv /\ HeadInv

(* The device is done with the caller's chain.                             *)
OffDevice(p) == idx[p] # << >> /\ idx[p][1] \notin Elems(Avail) \cup working
SameOff == \A p \in VProcs : OffDevice(p)' <=> OffDevice(p)
-----------------------------------------------------------------------------
(* Sequences without repetition, as sets.                                  *)
LEMMA ElemsOfAppend ==
    ASSUME NEW S, NEW s \in Seq(S), NEW c \in S, NoRepeat(s), c \notin Elems(s)
    PROVE  Elems(Append(s, c)) = Elems(s) \cup {c} /\ NoRepeat(Append(s, c))
<1>1. PICK u : u = Append(s, c)
  BY Zenon
<1>2. Len(s) \in Nat /\ Len(u) = Len(s) + 1 /\ (\A k \in 1 .. Len(s) : u[k] = s[k]) /\ u[Len(s) + 1] = c
  BY <1>1
<1>3. \A k \in 1 .. Len(u) : k \in 1 .. Len(s) \/ k = Len(s) + 1
  BY <1>2
<1>4. \A k \in 1 .. Len(s) : k \in 1 .. Len(u)
  BY <1>2
<1>5. Len(s) + 1 \in 1 .. Len(u)
  BY <1>2
<1>6. Elems(u) = Elems(s) \cup {c}
  BY <1>2, <1>3, <1>4, <1>5, Zenon DEF Elems
<1>7. NoRepeat(u)
  BY <1>2, <1>3, Zenon DEF NoRepeat, Elems
<1> QED
  BY <1>1, <1>6, <1>7, Zenon

LEMMA ElemsOfTail ==
    ASSUME NEW S, NEW s \in Seq(S), s # << >>, NoRepeat(s)
    PROVE  s[1] \in Elems(s) /\ Elems(Tail(s)) = Elems(s) \ {s[1]} /\ NoRepeat(Tail(s))
<1>1. PICK u : u = Tail(s)
  BY Zenon
<1>2. Len(s) \in Nat /\ Len(s) > 0 /\ Len(u) = Len(s) - 1 /\ \A k \in 1 .. (Len(s) - 1) : u[k] = s[k + 1]
  BY <1>1
<1>3. \A k \in 1 .. Len(u) : k + 1 \in 1 .. Len(s) /\ u[k] = s[k + 1] /\ k + 1 # 1
  BY <1>2
<1>4. \A k \in 1 .. Len(s) : k = 1 \/ (k - 1 \in 1 .. Len(u) /\ s[k] = u[k - 1])
  BY <1>2
<1>5. 1 \in 1 .. Len(s)
  BY <1>2
<1>6. Elems(u) = Elems(s) \ {s[1]}
  <2>1. ASSUME NEW k \in 1 .. Len(u) PROVE u[k] \in Elems(s) \ {s[1]}
    BY <1>3, <1>5, Zenon DEF Elems, NoRepeat
  <2>2. ASSUME NEW x \in Elems(s) \ {s[1]} PROVE x \in Elems(u)
    BY <1>4 DEF Elems
  <2> QED
    BY <2>1, <2>2, Zenon DEF Elems
<1>7. NoRepeat(u)
  <2> SUFFICES ASSUME NEW j \in 1 .. Len(u), NEW k \in 1 .. Len(u), u[j] = u[k] PROVE j = k
    BY Zenon DEF NoRepeat
  <2>1. j + 1 = k + 1
    BY <1>3, Zenon DEF NoRepeat
  <2> QED
    BY <1>2, <2>1
<1> QED
  BY <1>1, <1>5, <1>6, <1>7, Zenon DEF Elems

(* A sequence without repetition that lacks a member is short.             *)
LEMMA Room ==
    ASSUME NEW N \in Nat \ {0}, NEW s \in Seq(Cell(N)), NEW c \in Cell(N),
           NoRepeat(s), c \notin Elems(s)
    PROVE  Len(s) < N
<1> DEFINE T == Cell(N) \ {c}
<1>1. IsFiniteSet(Cell(N)) /\ Cardinality(Cell(N)) = N
  <2>1. 0 \in Int /\ N - 1 \in Int /\ ~ (0 > N - 1) /\ (N - 1) - 0 + 1 = N
    OBVIOUS
  <2> QED
    BY <2>1, FS_Interval, Zenon DEF Cell
<1>2. IsFiniteSet(T) /\ Cardinality(T) = N - 1
  BY <1>1, FS_RemoveElement, Zenon
<1>3. Len(s) \in Nat /\ s \in [1 .. Len(s) -> Cell(N)]
  OBVIOUS
<1>4. s \in [1 .. Len(s) -> T]
  BY <1>3, Zenon DEF Elems
<1>5. s \in Injection(1 .. Len(s), T)
  BY <1>4, Zenon DEF Injection, IsInjective, NoRepeat
<1>6. Cardinality(1 .. Len(s)) <= Cardinality(T)
  BY <1>2, <1>5, FS_Injection, Zenon
<1>7. Cardinality(1 .. Len(s)) = Len(s)
  <2>1. 1 \in Int /\ Len(s) \in Int
    BY <1>3
  <2>2. Cardinality(1 .. Len(s)) = IF 1 > Len(s) THEN 0 ELSE Len(s) - 1 + 1
    BY <2>1, FS_Interval, Zenon
  <2> QED
    BY <1>3, <2>2
<1> QED
  BY <1>2, <1>3, <1>6, <1>7

LEMMA RingFits == Fits(D, IDX) /\ Descs = Cell(D) /\ D \in Nat \ {0}
  BY VirtioAssumption DEF Fits, D, Descs, Cell

(* A head is put on a ring that does not hold it, or taken from its front. *)
Stores(f, b, c, g) == g = [f EXCEPT ![b % VIRTIO_DESCRIPTORS] = c]

LEMMA StoreHead ==
    ASSUME NEW f \in Rings(D, Descs), NEW a \in Index(IDX), NEW b \in Index(IDX),
           NEW c \in Descs, NEW g, Stores(f, b, c, g),
           NoRepeat(Cells(D, IDX, f, a, b)), c \notin Elems(Cells(D, IDX, f, a, b))
    PROVE  /\ g \in Rings(D, Descs) /\ NextIdx(b) \in Index(IDX)
           /\ Elems(Cells(D, IDX, g, a, NextIdx(b))) = Elems(Cells(D, IDX, f, a, b)) \cup {c}
           /\ NoRepeat(Cells(D, IDX, g, a, NextIdx(b)))
<1> DEFINE s == Cells(D, IDX, f, a, b)
<1>0. Fits(D, IDX) /\ Descs = Cell(D) /\ D \in Nat \ {0}
  BY RingFits, Zenon
<1>1. Spells(D, s, Descs, f, a, Gap(IDX, b, a))
  BY <1>0, CellsAre, Zenon
<1>2. s \in Seq(Descs) /\ Len(s) = Gap(IDX, b, a)
  BY <1>1, Zenon DEF Spells
<1>3. Len(s) < D
  <2> HIDE DEF s
  <2>1. NoRepeat(s) /\ c \notin Elems(s)
    BY Zenon DEF s
  <2> QED
    BY <1>0, <1>2, <2>1, Room, Zenon
<1>4. b \in Nat
  BY DEF Index
<1>5. Slot(D, b) \in Cell(D)
  BY <1>0, <1>4, SlotOfIndex, Zenon
<1>6. g = [f EXCEPT ![Slot(D, b)] = c]
  BY Zenon DEF Slot, D, Stores
<1>7. g \in Rings(D, Descs) /\ Differs(D, g, f, Slot(D, b), c)
  BY <1>5, <1>6, Zenon DEF Rings, Differs
<1>8. NextIdx(b) \in Index(IDX) /\ NextIdx(b) = (b + 1) % IDX
  BY <1>0, IncIs, Zenon DEF NextIdx
<1>9. Cells(D, IDX, g, a, NextIdx(b)) = Append(s, c)
  <2>1. Gap(IDX, b, a) < D
    BY <1>2, <1>3, Zenon
  <2>2. Cells(D, IDX, g, a, (b + 1) % IDX) = Append(Cells(D, IDX, f, a, b), c)
    <3> HIDE DEF s
    <3> QED
      BY <1>0, <1>7, <2>1, StoreCells
  <2> QED
    BY <1>8, <2>2, Zenon
<1> HIDE DEF s
<1>10. NoRepeat(s) /\ c \notin Elems(s)
  BY Zenon DEF s
<1>11. Elems(Append(s, c)) = Elems(s) \cup {c} /\ NoRepeat(Append(s, c))
  BY <1>2, <1>10, ElemsOfAppend, Zenon
<1> QED
  BY <1>7, <1>8, <1>9, <1>11, Zenon DEF s

LEMMA TakeHead ==
    ASSUME NEW f \in Rings(D, Descs), NEW a \in Index(IDX), NEW b \in Index(IDX), a # b,
           NoRepeat(Cells(D, IDX, f, a, b))
    PROVE  /\ NextIdx(a) \in Index(IDX)
           /\ f[a % VIRTIO_DESCRIPTORS] \in Elems(Cells(D, IDX, f, a, b))
           /\ Elems(Cells(D, IDX, f, NextIdx(a), b)) =
                 Elems(Cells(D, IDX, f, a, b)) \ {f[a % VIRTIO_DESCRIPTORS]}
           /\ NoRepeat(Cells(D, IDX, f, NextIdx(a), b))
<1> DEFINE s == Cells(D, IDX, f, a, b)
<1>0. Fits(D, IDX) /\ Descs = Cell(D)
  BY RingFits, Zenon
<1>1. Spells(D, s, Descs, f, a, Gap(IDX, b, a))
  BY <1>0, CellsAre, Zenon
<1>2. s \in Seq(Descs) /\ Len(s) = Gap(IDX, b, a) /\ \A k \in 1 .. Gap(IDX, b, a) : s[k] = f[Slot(D, a + k - 1)]
  BY <1>1, Zenon DEF Spells
<1>3. s # << >> /\ Cells(D, IDX, f, NextIdx(a), b) = Tail(s)
  BY <1>0, TakeCells, Zenon DEF NextIdx
<1>4. NextIdx(a) \in Index(IDX)
  BY <1>0, IncIs, Zenon DEF NextIdx
<1> HIDE DEF s
<1>5. s[1] = f[a % VIRTIO_DESCRIPTORS]
  <2>1. 1 \in 1 .. Gap(IDX, b, a) /\ a + 1 - 1 = a
    BY <1>2, <1>3 DEF Index
  <2>2. s[1] = f[Slot(D, a + 1 - 1)]
    BY <1>2, <2>1, Zenon
  <2> QED
    BY <2>1, <2>2, Zenon DEF Slot, D
<1>6. NoRepeat(s)
  BY Zenon DEF s
<1>7. s[1] \in Elems(s) /\ Elems(Tail(s)) = Elems(s) \ {s[1]} /\ NoRepeat(Tail(s))
  BY <1>2, <1>3, <1>6, ElemsOfTail, Zenon
<1> QED
  BY <1>3, <1>4, <1>5, <1>7, Zenon DEF s

(* The heads Pending and Completed speak of are those of the rings.        *)
LEMMA Window ==
    ASSUME NEW f \in Rings(D, Descs), NEW a \in Index(IDX), NEW b \in Index(IDX)
    PROVE  {f[(a + k) % VIRTIO_DESCRIPTORS] : k \in 0 .. (((b - a) % IDX) - 1)}
             = Elems(Cells(D, IDX, f, a, b))
<1> DEFINE s == Cells(D, IDX, f, a, b)
           g == Gap(IDX, b, a)
<1>0. Fits(D, IDX) /\ Descs = Cell(D)
  BY RingFits, Zenon
<1>1. Spells(D, s, Descs, f, a, g)
  BY <1>0, CellsAre, Zenon
<1>2. Len(s) = g /\ \A k \in 1 .. g : s[k] = f[Slot(D, a + k - 1)]
  BY <1>1, Zenon DEF Spells
<1>3. g = IF b >= a THEN b - a ELSE b - a + IDX
  BY <1>0, GapIs, Zenon
<1>4. (b - a) % IDX = g
  BY <1>0, <1>3, VirtioAssumption DEF Index
<1>5. g \in Nat /\ a \in Nat
  BY <1>0, GapType DEF Index
<1> HIDE DEF s, g
<1>6. ASSUME NEW k \in 0 .. (g - 1) PROVE f[(a + k) % VIRTIO_DESCRIPTORS] \in Elems(s)
  <2>1. k + 1 \in 1 .. g /\ a + (k + 1) - 1 = a + k
    BY <1>5
  <2>2. s[k + 1] = f[Slot(D, a + k)]
    BY <1>2, <2>1, Zenon
  <2> QED
    BY <1>2, <2>1, <2>2, Zenon DEF Elems, Slot, D
<1>7. ASSUME NEW k \in 1 .. Len(s)
      PROVE  s[k] \in {f[(a + j) % VIRTIO_DESCRIPTORS] : j \in 0 .. (g - 1)}
  <2>1. k - 1 \in 0 .. (g - 1) /\ a + k - 1 = a + (k - 1) /\ k \in 1 .. g
    BY <1>2, <1>5
  <2>2. s[k] = f[(a + (k - 1)) % VIRTIO_DESCRIPTORS]
    BY <1>2, <2>1, Zenon DEF Slot, D
  <2> QED
    BY <2>1, <2>2, Zenon
<1>8. {f[(a + k) % VIRTIO_DESCRIPTORS] : k \in 0 .. (g - 1)} = Elems(s)
  BY <1>6, <1>7, Zenon DEF Elems
<1> QED
  BY <1>4, <1>8, Zenon DEF s
-----------------------------------------------------------------------------
(* The least element of a set of numbers.                                  *)
LEMMA MinIsMember ==
    ASSUME NEW S \in SUBSET Nat, S # {}
    PROVE  Min(S) \in S
<1> DEFINE R == OpToRel(<, Nat)
<1>1. PICK x \in S : \A y \in S : <<y, x>> \notin R
  BY NatLessThanWellFounded, WFMin, Zenon
<1>2. \A y \in S : x =< y
  <2> SUFFICES ASSUME NEW y \in S, y < x PROVE FALSE
    OBVIOUS
  <2>1. <<y, x>> \in R
    BY Zenon DEF OpToRel
  <2> QED
    BY <1>1, <2>1, Zenon
<1> QED
  BY <1>2, Zenon DEF Min

(* alloc3_desc(): with three free descriptors it takes three different.    *)
LEMMA LowestAreFree ==
    ASSUME desc_free \subseteq Descs, Cardinality(desc_free) >= 3
    PROVE  \E a, b, c \in desc_free : a # b /\ a # c /\ b # c /\ Lowest3 = <<a, b, c>>
<1> DEFINE a == Min(desc_free)
           b == Min(desc_free \ {a})
           c == Min(desc_free \ {a, b})
<1>1. Descs \subseteq Nat /\ IsFiniteSet(Descs)
  <2>1. 0 \in Int /\ VIRTIO_DESCRIPTORS - 1 \in Int
    BY VirtioAssumption
  <2> QED
    BY <2>1, FS_Interval DEF Descs
<1>2. IsFiniteSet(desc_free)
  BY <1>1, FS_Subset, Zenon
<1>3. Cardinality(desc_free) \in Nat /\ desc_free # {}
  BY <1>2, FS_CardinalityType, FS_EmptySet
<1>4. a \in desc_free
  BY <1>1, <1>3, MinIsMember, Zenon
<1>5. IsFiniteSet(desc_free \ {a}) /\ Cardinality(desc_free \ {a}) = Cardinality(desc_free) - 1
  BY <1>2, <1>4, FS_RemoveElement, Zenon
<1>6. desc_free \ {a} # {}
  <2>1. Cardinality(desc_free \ {a}) # 0
    BY <1>3, <1>5
  <2> QED
    BY <1>5, <2>1, FS_EmptySet, Zenon
<1>7. b \in desc_free \ {a}
  BY <1>1, <1>6, MinIsMember, Zenon
<1>8. (desc_free \ {a}) \ {b} = desc_free \ {a, b}
  BY Zenon
<1>9. Cardinality((desc_free \ {a}) \ {b}) = Cardinality(desc_free \ {a}) - 1
  BY <1>5, <1>7, FS_RemoveElement, Zenon
<1>10. desc_free \ {a, b} # {}
  <2>0. Cardinality(desc_free \ {a, b}) = Cardinality((desc_free \ {a}) \ {b})
    BY <1>8, Zenon
  <2>1. Cardinality(desc_free \ {a, b}) # 0
    <3> HIDE DEF a, b
    <3> QED
      BY <1>3, <1>5, <1>9, <2>0
  <2> QED
    BY <2>1, FS_EmptySet, Zenon
<1>11. c \in desc_free \ {a, b}
  BY <1>1, <1>10, MinIsMember, Zenon
<1>12. Lowest3 = <<a, b, c>>
  BY Zenon DEF Lowest3
<1> HIDE DEF a, b, c
<1> QED
  BY <1>4, <1>7, <1>11, <1>12, Zenon
-----------------------------------------------------------------------------
ringIdx == <<avail, avail_idx, used, used_ring_idx, used_idx, taken>>

LEMMA SameRing ==
    ASSUME RingOK, UNCHANGED ringIdx
    PROVE  RingOK' /\ Avail' = Avail /\ Used' = Used
  BY Zenon DEF RingOK, ringIdx, Avail, Used

(* The heads of two chains differ, and none is free.                       *)
LEMMA HeadsDiffer ==
    ASSUME ChainOK, ChainInv, NEW p \in VProcs, idx[p] # << >>
    PROVE  /\ idx[p] \in Triples /\ idx[p][1] \in Descs /\ idx[p][1] \notin desc_free
           /\ \A q \in VProcs : idx[q] # << >> /\ idx[q][1] = idx[p][1] => q = p
<1>1. idx[p] \in Triples /\ idx[p][1] \in Descs
  BY Zenon DEF ChainOK, Triples
<1>2. Has(idx[p], idx[p][1])
  BY Zenon DEF Has
<1>3. \A q \in VProcs : idx[q] # << >> /\ idx[q][1] = idx[p][1] => Has(idx[q], idx[p][1])
  BY Zenon DEF Has
<1> QED
  BY <1>1, <1>2, <1>3, Zenon DEF ChainInv

(* Who has a request has one that names a block.                           *)
LEMMA RequestOf ==
    ASSUME CallOK, WaitInv, NEW p \in VProcs, v_pc[p] # "idle"
    PROVE  v_req[p] \in Wanted
  BY Zenon DEF CallOK, WaitInv

(* A step that moves callers only between the places of a loop.            *)
LEMMA PlaceStep ==
    ASSUME IInv, v_pc' \in [VProcs -> VLabels],
           \A q \in VProcs : /\ v_pc'[q] \in {"wait", "awake"} <=> v_pc[q] \in {"wait", "awake"}
                             /\ v_pc'[q] = "idle" <=> v_pc[q] = "idle",
           UNCHANGED <<desc_free, idx, desc, info, owned_by_driver, rings, vdisk_lock,
                       v_req, v_data, v_disk, v_calls>>
    PROVE  IInv' /\ SameOff
<1>1. RingOK' /\ Avail' = Avail /\ Used' = Used
  BY SameRing, Zenon DEF rings, ringIdx, IInv, TypeInv
<1>2. ChainOK' /\ CallOK' /\ DataOK'
  BY Zenon DEF IInv, TypeInv, ChainOK, CallOK, DataOK, rings
<1>3. ChainInv'
  BY Zenon DEF IInv, ChainInv
<1>4. WaitInv' /\ KnownInv'
  BY Zenon DEF IInv, WaitInv, KnownInv
<1>5. HeadInv'
  BY <1>1, Zenon DEF IInv, HeadInv, Owner, rings
<1>6. SameOff
  BY <1>1, Zenon DEF SameOff, OffDevice, rings
<1> QED
  BY <1>1, <1>2, <1>3, <1>4, <1>5, <1>6, Zenon DEF IInv, TypeInv

LEMMA PlaceSteps ==
    ASSUME IInv, NEW p \in VProcs, RwNoDescriptors(p) \/ RwAgain(p) \/ VKill(p)
    PROVE  IInv' /\ SameOff
<1>0. v_pc \in [VProcs -> VLabels]
  BY Zenon DEF IInv, TypeInv, CallOK
<1>1. CASE RwNoDescriptors(p)
  <2>1. PICK w : w = IF desc_free = {} THEN v_pc ELSE WakeFree(v_pc)
    BY Zenon
  <2>2. w \in [VProcs -> VLabels] /\ \A q \in VProcs : w[q] = v_pc[q] \/ (v_pc[q] = "free_sleep" /\ w[q] = "alloc")
    BY <1>0, <2>1, Zenon DEF WakeFree, VLabels
  <2>3. v_pc[p] = "alloc" /\ v_pc' = [w EXCEPT ![p] = "free_sleep"]
    BY <1>1, <2>1, Zenon DEF RwNoDescriptors
  <2>4. UNCHANGED <<desc_free, idx, desc, info, owned_by_driver, rings, vdisk_lock,
                    v_req, v_data, v_disk, v_calls>>
    BY <1>1, Zenon DEF RwNoDescriptors
  <2>5. /\ v_pc' \in [VProcs -> VLabels]
        /\ \A q \in VProcs : /\ v_pc'[q] \in {"wait", "awake"} <=> v_pc[q] \in {"wait", "awake"}
                             /\ v_pc'[q] = "idle" <=> v_pc[q] = "idle"
    BY <2>2, <2>3, Zenon DEF VLabels
  <2> QED
    BY <2>4, <2>5, PlaceStep, Zenon
<1>2. CASE RwAgain(p) \/ VKill(p)
  <2>1. PICK l \in VLabels : v_pc' = [v_pc EXCEPT ![p] = l] /\ (l \in {"wait", "awake"} <=> v_pc[p] \in {"wait", "awake"})
                             /\ l # "idle" /\ v_pc[p] # "idle"
    BY <1>2, Zenon DEF RwAgain, VKill, vGoto, VLabels
  <2>2. UNCHANGED <<desc_free, idx, desc, info, owned_by_driver, rings, vdisk_lock,
                    v_req, v_data, v_disk, v_calls>>
    BY <1>2, Zenon DEF RwAgain, VKill
  <2>3. /\ v_pc' \in [VProcs -> VLabels]
        /\ \A q \in VProcs : /\ v_pc'[q] \in {"wait", "awake"} <=> v_pc[q] \in {"wait", "awake"}
                             /\ v_pc'[q] = "idle" <=> v_pc[q] = "idle"
    BY <1>0, <2>1, Zenon
  <2> QED
    BY <2>2, <2>3, PlaceStep, Zenon
<1> QED
  BY <1>1, <1>2, Zenon

LEMMA CallStep ==
    ASSUME IInv, NEW p \in VProcs, NEW b \in VBlocks, NEW w \in BOOLEAN, NEW v \in VValues,
           RwCall(p, b, w, v)
    PROVE  IInv'
<1>0. v_pc \in [VProcs -> VLabels] /\ v_req \in [VProcs -> Wanted \cup {<< >>}]
      /\ v_calls \in [VProcs -> 0 .. MaxRw] /\ v_data \in [VProcs -> VValues]
  BY Zenon DEF IInv, TypeInv, CallOK, DataOK
<1>1. /\ v_pc[p] = "idle" /\ v_calls[p] < MaxRw
      /\ v_calls' = [v_calls EXCEPT ![p] = v_calls[p] + 1]
      /\ v_req' = [v_req EXCEPT ![p] = <<b, w>>]
      /\ v_data' = [v_data EXCEPT ![p] = v]
      /\ v_pc' = [v_pc EXCEPT ![p] = "alloc"]
  BY Zenon DEF RwCall, vGoto
<1>2. UNCHANGED <<desc_free, idx, desc, info, owned_by_driver, rings, vdisk_lock, v_disk>>
  BY Zenon DEF RwCall
<1>3. RingOK' /\ Avail' = Avail /\ Used' = Used
  BY <1>2, SameRing, Zenon DEF rings, ringIdx, IInv, TypeInv
<1>4. ChainOK'
  BY <1>2, Zenon DEF IInv, TypeInv, ChainOK, rings
<1>5. v_pc' \in [VProcs -> VLabels] /\ v_data' \in [VProcs -> VValues]
  BY <1>0, <1>1, Zenon DEF VLabels
<1>6. v_calls' \in [VProcs -> 0 .. MaxRw]
  BY <1>0, <1>1, VirtioAssumption
<1>7. <<b, w>> \in Wanted /\ <<b, w>> # << >>
  BY Zenon DEF Wanted
<1>8. v_req' \in [VProcs -> Wanted \cup {<< >>}]
  BY <1>0, <1>1, <1>7, Zenon
<1>9. CallOK' /\ DataOK'
  BY <1>2, <1>5, <1>6, <1>8, Zenon DEF IInv, TypeInv, CallOK, DataOK, rings
<1>10. ChainInv'
  BY <1>2, Zenon DEF IInv, ChainInv
<1>11. idx[p] = << >>
  BY <1>1, Zenon DEF IInv, WaitInv
<1>12. WaitInv'
  BY <1>0, <1>1, <1>2, <1>7, <1>11, Zenon DEF IInv, WaitInv
<1>13. KnownInv'
  BY <1>0, <1>1, <1>2, <1>11, Zenon DEF IInv, KnownInv
<1>14. HeadInv'
  BY <1>2, <1>3, Zenon DEF IInv, HeadInv, Owner, rings
<1> QED
  BY <1>3, <1>4, <1>9, <1>10, <1>12, <1>13, <1>14, Zenon DEF IInv, TypeInv

(* What RwSubmit() does, with the names of the three descriptors.          *)
LEMMA SubmitDoes ==
    ASSUME IInv, NEW p \in VProcs, RwSubmit(p)
    PROVE  \E a, b, c \in desc_free :
              /\ a # b /\ a # c /\ b # c
              /\ idx' = [idx EXCEPT ![p] = <<a, b, c>>]
              /\ desc_free' = desc_free \ {a, b, c}
              /\ desc' = [desc EXCEPT ![a] = v_req[p]]
              /\ info' = [info EXCEPT ![a] = p]
              /\ avail' = [avail EXCEPT ![avail_idx % VIRTIO_DESCRIPTORS] = a]
<1>1. desc_free \subseteq Descs /\ Cardinality(desc_free) >= 3
  BY Zenon DEF RwSubmit, IInv, TypeInv, ChainOK
<1>2. PICK a, b, c \in desc_free : a # b /\ a # c /\ b # c /\ Lowest3 = <<a, b, c>>
  BY <1>1, LowestAreFree, Zenon
<1>3. Lowest3[1] = a /\ Lowest3[2] = b /\ Lowest3[3] = c
  BY <1>2, Zenon
<1>4. v_req[p] \in Wanted
  BY RequestOf, Zenon DEF RwSubmit, IInv, TypeInv
<1>5. Format(p) = v_req[p]
  BY <1>4 DEF Format, Wanted
<1>6. /\ idx' = [idx EXCEPT ![p] = Lowest3]
      /\ desc_free' = desc_free \ {Lowest3[1], Lowest3[2], Lowest3[3]}
      /\ desc' = [desc EXCEPT ![Lowest3[1]] = Format(p)]
      /\ info' = [info EXCEPT ![Lowest3[1]] = p]
      /\ avail' = [avail EXCEPT ![avail_idx % VIRTIO_DESCRIPTORS] = Lowest3[1]]
  BY Zenon DEF RwSubmit
<1> QED
  BY <1>2, <1>3, <1>5, <1>6, Zenon

LEMMA SubmitStep ==
    ASSUME IInv, NEW p \in VProcs, RwSubmit(p)
    PROVE  IInv' /\ SameOff
<1>0. RingOK /\ ChainOK /\ CallOK /\ DataOK /\ ChainInv /\ WaitInv /\ KnownInv /\ HeadInv
  BY Zenon DEF IInv, TypeInv
<1>1. PICK a, b, c \in desc_free :
              /\ a # b /\ a # c /\ b # c
              /\ idx' = [idx EXCEPT ![p] = <<a, b, c>>]
              /\ desc_free' = desc_free \ {a, b, c}
              /\ desc' = [desc EXCEPT ![a] = v_req[p]]
              /\ info' = [info EXCEPT ![a] = p]
              /\ avail' = [avail EXCEPT ![avail_idx % VIRTIO_DESCRIPTORS] = a]
  BY SubmitDoes, Zenon
<1>2. /\ v_pc[p] = "alloc" /\ v_pc' = [v_pc EXCEPT ![p] = "wait"]
      /\ owned_by_driver' = [owned_by_driver EXCEPT ![p] = TRUE]
      /\ avail_idx' = NextIdx(avail_idx)
      /\ UNCHANGED <<used, used_ring_idx, used_idx, taken, working, irq,
                     vdisk_lock, v_req, v_data, v_disk, v_calls>>
  BY Zenon DEF RwSubmit, vGoto
<1>3. a \in Descs /\ b \in Descs /\ c \in Descs /\ idx[p] = << >> /\ v_req[p] \in Wanted
  BY <1>0, <1>2, RequestOf, Zenon DEF ChainOK, WaitInv
<1> DEFINE t == <<a, b, c>>
<1>4. t \in Triples /\ t # << >> /\ t[1] = a /\ \A d : Has(t, d) <=> d \in {a, b, c}
  BY <1>3, Zenon DEF Triples, Has
<1> HIDE DEF t
<1>5. idx \in [VProcs -> Triples \cup {<< >>}] /\ idx' = [idx EXCEPT ![p] = t]
  BY <1>0, <1>1, Zenon DEF ChainOK, t
<1>6. idx' \in [VProcs -> Triples \cup {<< >>}] /\ idx'[p] = t /\ \A q \in VProcs : q # p => idx'[q] = idx[q]
  BY <1>4, <1>5, Zenon
<1>7. \A d : ~ Has(<< >>, d)
  BY Zenon DEF Has
<1>8. \A q \in VProcs, d \in {a, b, c} : ~ Has(idx[q], d)
  BY <1>0, <1>1, <1>3, Zenon DEF ChainInv
<1>9. ChainInv'
  <2>1. ASSUME NEW d \in Descs PROVE d \in desc_free' <=> \A q \in VProcs : ~ Has(idx'[q], d)
    <3>1. CASE d \in {a, b, c}
      BY <1>1, <1>4, <1>6, <3>1
    <3>2. CASE d \notin {a, b, c}
      <4>1. d \in desc_free' <=> d \in desc_free
        BY <1>1, <3>2, Zenon
      <4>2. \A q \in VProcs : Has(idx'[q], d) <=> Has(idx[q], d)
        BY <1>3, <1>4, <1>6, <1>7, <3>2, Zenon
      <4> QED
        BY <1>0, <4>1, <4>2, Zenon DEF ChainInv
    <3> QED
      BY <3>1, <3>2, Zenon
  <2>2. ASSUME NEW q \in VProcs, NEW r \in VProcs, NEW d \in Descs, Has(idx'[q], d), Has(idx'[r], d) PROVE q = r
    <3>1. CASE d \in {a, b, c}
      BY <1>6, <1>8, <2>2, <3>1, Zenon
    <3>2. CASE d \notin {a, b, c}
      <4>1. q # p /\ r # p
        BY <1>4, <1>6, <2>2, <3>2, Zenon
      <4> QED
        BY <1>0, <1>6, <2>2, <4>1, Zenon DEF ChainInv
    <3> QED
      BY <3>1, <3>2, Zenon
  <2> QED
    BY <2>1, <2>2, Zenon DEF ChainInv
<1>10. ASSUME NEW q \in VProcs, idx[q] # << >>
       PROVE  q # p /\ idx[q][1] \in Descs /\ idx[q][1] # a
  BY <1>0, <1>1, <1>3, <1>10, HeadsDiffer, Zenon
<1>11. KnownInv'
  <2> SUFFICES ASSUME NEW q \in VProcs, idx'[q] # << >>
               PROVE  info'[idx'[q][1]] = q /\ desc'[idx'[q][1]] = v_req'[q]
    BY Zenon DEF KnownInv
  <2>0. info \in [Descs -> VProcs \cup {Nobody}] /\ desc \in [Descs -> Wanted \cup {<< >>}]
    BY <1>0, Zenon DEF ChainOK
  <2>1. CASE q = p
    BY <1>1, <1>2, <1>3, <1>4, <1>6, <2>0, <2>1, Zenon
  <2>2. CASE q # p
    <3>1. idx'[q] = idx[q] /\ idx[q] # << >>
      BY <1>6, <2>2, Zenon
    <3>2. idx[q][1] \in Descs /\ idx[q][1] # a
      BY <1>10, <3>1, Zenon
    <3>3. info'[idx[q][1]] = info[idx[q][1]] /\ desc'[idx[q][1]] = desc[idx[q][1]]
      BY <1>1, <2>0, <3>2, Zenon
    <3> QED
      BY <1>0, <1>2, <3>1, <3>3, Zenon DEF KnownInv
  <2> QED
    BY <2>1, <2>2, Zenon
<1>12. WaitInv'
  BY <1>0, <1>2, <1>4, <1>6, Zenon DEF WaitInv, CallOK, VLabels
<1>13. \A q \in VProcs : \A h : Owner(h, q) => Owner(h, q)'
  BY <1>0, <1>2, <1>3, <1>6, Zenon DEF Owner, CallOK
<1>14. Owner(a, p)'
  BY <1>0, <1>2, <1>4, <1>6, Zenon DEF Owner, CallOK
<1>15. a \notin Elems(Avail) /\ a \notin working /\ a \notin Elems(Used)
  <2> SUFFICES ASSUME a \in Elems(Avail) \cup working \cup Elems(Used) PROVE FALSE
    BY Zenon
  <2>1. PICK q \in VProcs : Owner(a, q)
    BY <1>0, Zenon DEF HeadInv
  <2> QED
    BY <1>10, <2>1, Zenon DEF Owner
<1>16. /\ avail' \in Rings(D, Descs) /\ avail_idx' \in Index(IDX)
       /\ Elems(Avail') = Elems(Avail) \cup {a} /\ NoRepeat(Avail')
  <2>1. avail \in Rings(D, Descs) /\ taken \in Index(IDX) /\ avail_idx \in Index(IDX)
    BY <1>0, Zenon DEF RingOK
  <2>2. NoRepeat(Cells(D, IDX, avail, taken, avail_idx)) /\ a \notin Elems(Cells(D, IDX, avail, taken, avail_idx))
    BY <1>0, <1>15, Zenon DEF HeadInv, Avail
  <2>3. /\ avail' \in Rings(D, Descs) /\ NextIdx(avail_idx) \in Index(IDX)
        /\ Elems(Cells(D, IDX, avail', taken, NextIdx(avail_idx))) = Elems(Cells(D, IDX, avail, taken, avail_idx)) \cup {a}
        /\ NoRepeat(Cells(D, IDX, avail', taken, NextIdx(avail_idx)))
    <3>1. Stores(avail, avail_idx, a, avail') /\ a \in Descs
      BY <1>1, <1>2, <1>3, Zenon DEF Stores
    <3> QED
      BY <2>1, <2>2, <3>1, StoreHead, Zenon
  <2>4. Avail' = Cells(D, IDX, avail', taken, NextIdx(avail_idx))
    BY <1>2, Zenon DEF Avail
  <2> QED
    BY <1>2, <2>3, <2>4, Zenon DEF Avail
<1>17. Used' = Used
  BY <1>2, Zenon DEF Used
<1>18. HeadInv'
  <2>1. Apart(Elems(Avail'), working', Elems(Used'))
    BY <1>0, <1>2, <1>15, <1>16, <1>17, Zenon DEF HeadInv, Apart
  <2>2. \A h \in Elems(Avail') \cup working' \cup Elems(Used') : \E q \in VProcs : Owner(h, q)'
    BY <1>0, <1>2, <1>13, <1>14, <1>16, <1>17, Zenon DEF HeadInv
  <2> QED
    BY <1>0, <1>16, <1>17, <2>1, <2>2, ZenonT(30) DEF HeadInv
<1>19. RingOK'
  BY <1>0, <1>2, <1>16, Zenon DEF RingOK
<1>20. ChainOK'
  <2>1. desc' \in [Descs -> Wanted \cup {<< >>}] /\ info' \in [Descs -> VProcs \cup {Nobody}]
    BY <1>0, <1>1, <1>3, Zenon DEF ChainOK
  <2>2. desc_free' \subseteq Descs
    BY <1>0, <1>1, Zenon DEF ChainOK
  <2> QED
    BY <1>0, <1>2, <1>6, <2>1, <2>2, ZenonT(30) DEF ChainOK
<1>21. CallOK' /\ DataOK'
  <2>1. v_pc' \in [VProcs -> VLabels] /\ owned_by_driver' \in [VProcs -> BOOLEAN]
    BY <1>0, <1>2, Zenon DEF CallOK, VLabels
  <2> QED
    BY <1>0, <1>2, <2>1, Zenon DEF CallOK, DataOK
<1>22. SameOff
  BY <1>2, <1>3, <1>4, <1>6, <1>10, <1>16, Zenon DEF SameOff, OffDevice
<1> QED
  BY <1>9, <1>11, <1>12, <1>18, <1>19, <1>20, <1>21, <1>22, Zenon DEF IInv, TypeInv

LEMMA ReturnDoes ==
    ASSUME IInv, NEW p \in VProcs, RwReturn(p)
    PROVE  \E a, b, c \in Descs :
              /\ idx[p] = <<a, b, c>> /\ ~ owned_by_driver[p] /\ v_pc[p] = "awake"
              /\ info' = [info EXCEPT ![a] = Nobody]
              /\ desc_free' = desc_free \cup {a, b, c}
              /\ desc' = [desc EXCEPT ![a] = << >>]
              /\ idx' = [idx EXCEPT ![p] = << >>]
<1>1. v_pc[p] = "awake" /\ ~ owned_by_driver[p] /\ Finish(p, TRUE)
  BY Zenon DEF RwReturn
<1>2. idx[p] \in Triples
  BY <1>1, Zenon DEF IInv, TypeInv, ChainOK, WaitInv
<1>3. PICK a, b, c \in Descs : idx[p] = <<a, b, c>>
  BY <1>2 DEF Triples
<1>4. Chain(p) = {a, b, c} /\ idx[p][1] = a
  BY <1>3 DEF Chain
<1> QED
  BY <1>1, <1>3, <1>4, Zenon DEF Finish, FreeChain

LEMMA ReturnStep ==
    ASSUME IInv, NEW p \in VProcs, RwReturn(p)
    PROVE  IInv'
<1>0. RingOK /\ ChainOK /\ CallOK /\ DataOK /\ ChainInv /\ WaitInv /\ KnownInv /\ HeadInv
  BY Zenon DEF IInv, TypeInv
<1>1. PICK a, b, c \in Descs :
              /\ idx[p] = <<a, b, c>> /\ ~ owned_by_driver[p] /\ v_pc[p] = "awake"
              /\ info' = [info EXCEPT ![a] = Nobody]
              /\ desc_free' = desc_free \cup {a, b, c}
              /\ desc' = [desc EXCEPT ![a] = << >>]
              /\ idx' = [idx EXCEPT ![p] = << >>]
  BY ReturnDoes, Zenon
<1>2. /\ v_req' = [v_req EXCEPT ![p] = << >>] /\ v_pc' = [WakeFree(v_pc) EXCEPT ![p] = "idle"]
      /\ UNCHANGED <<owned_by_driver, rings, vdisk_lock, v_data, v_disk, v_calls>>
  BY Zenon DEF RwReturn, Finish
<1>3. RingOK' /\ Avail' = Avail /\ Used' = Used /\ working' = working /\ irq' = irq
  BY <1>0, <1>2, SameRing, Zenon DEF rings, ringIdx
<1> DEFINE t == <<a, b, c>>
<1>4. t # << >> /\ t[1] = a /\ \A d : Has(t, d) <=> d \in {a, b, c}
  BY Zenon DEF Has
<1> HIDE DEF t
<1>5. idx[p] = t /\ idx \in [VProcs -> Triples \cup {<< >>}]
  BY <1>0, <1>1, Zenon DEF ChainOK, t
<1>6. idx' \in [VProcs -> Triples \cup {<< >>}] /\ idx'[p] = << >> /\ \A q \in VProcs : q # p => idx'[q] = idx[q]
  BY <1>1, <1>5, Zenon
<1>7. \A d : ~ Has(<< >>, d)
  BY Zenon DEF Has
<1>8. \A q \in VProcs, d \in {a, b, c} : Has(idx[q], d) => q = p
  BY <1>0, <1>1, <1>4, <1>5 DEF ChainInv
<1>9. ChainInv'
  <2>1. ASSUME NEW d \in Descs PROVE d \in desc_free' <=> \A q \in VProcs : ~ Has(idx'[q], d)
    <3>1. CASE d \in {a, b, c}
      BY <1>1, <1>6, <1>7, <1>8, <3>1, Zenon
    <3>2. CASE d \notin {a, b, c}
      <4>1. d \in desc_free' <=> d \in desc_free
        BY <1>1, <3>2, Zenon
      <4>2. \A q \in VProcs : Has(idx'[q], d) <=> Has(idx[q], d)
        BY <1>4, <1>5, <1>6, <1>7, <3>2, Zenon
      <4> QED
        BY <1>0, <4>1, <4>2, Zenon DEF ChainInv
    <3> QED
      BY <3>1, <3>2, Zenon
  <2>2. ASSUME NEW q \in VProcs, NEW r \in VProcs, NEW d \in Descs, Has(idx'[q], d), Has(idx'[r], d) PROVE q = r
    <3>1. q # p /\ r # p
      BY <1>6, <1>7, <2>2, Zenon
    <3> QED
      BY <1>0, <1>6, <2>2, <3>1, Zenon DEF ChainInv
  <2> QED
    BY <2>1, <2>2, Zenon DEF ChainInv
<1>10. ASSUME NEW q \in VProcs, idx[q] # << >>, q # p
       PROVE  idx[q][1] \in Descs /\ idx[q][1] # a
  <2>1. /\ idx[q][1] \in Descs
        /\ idx[p] # << >> /\ idx[p][1] = idx[q][1] => p = q
    BY <1>0, <1>10, HeadsDiffer, Zenon
  <2> QED
    BY <1>4, <1>5, <1>10, <2>1, Zenon
<1>11. KnownInv'
  <2> SUFFICES ASSUME NEW q \in VProcs, idx'[q] # << >>
               PROVE  info'[idx'[q][1]] = q /\ desc'[idx'[q][1]] = v_req'[q]
    BY Zenon DEF KnownInv
  <2>0. info \in [Descs -> VProcs \cup {Nobody}] /\ desc \in [Descs -> Wanted \cup {<< >>}]
    BY <1>0, Zenon DEF ChainOK
  <2>1. q # p /\ idx'[q] = idx[q] /\ idx[q] # << >>
    BY <1>6, Zenon
  <2>2. idx[q][1] \in Descs /\ idx[q][1] # a
    BY <1>10, <2>1, Zenon
  <2>3. info'[idx[q][1]] = info[idx[q][1]] /\ desc'[idx[q][1]] = desc[idx[q][1]]
    BY <1>1, <2>0, <2>2, Zenon
  <2>4. v_req'[q] = v_req[q]
    BY <1>0, <1>2, <2>1, Zenon DEF CallOK
  <2> QED
    BY <1>0, <2>1, <2>3, <2>4, Zenon DEF KnownInv
<1>12. /\ v_pc' \in [VProcs -> VLabels] /\ v_pc'[p] = "idle"
       /\ \A q \in VProcs : q # p => /\ v_pc'[q] \in {"wait", "awake"} <=> v_pc[q] \in {"wait", "awake"}
                                     /\ v_pc'[q] = "idle" <=> v_pc[q] = "idle"
  <2>1. PICK w : w = WakeFree(v_pc)
    BY Zenon
  <2>2. w \in [VProcs -> VLabels] /\ \A q \in VProcs : w[q] = v_pc[q] \/ (v_pc[q] = "free_sleep" /\ w[q] = "alloc")
    BY <1>0, <2>1, Zenon DEF WakeFree, VLabels, CallOK
  <2>3. v_pc' = [w EXCEPT ![p] = "idle"]
    BY <1>2, <2>1, Zenon
  <2> QED
    BY <2>2, <2>3, Zenon DEF VLabels
<1>13. /\ v_req' \in [VProcs -> Wanted \cup {<< >>}] /\ v_req'[p] = << >>
       /\ \A q \in VProcs : q # p => v_req'[q] = v_req[q]
  BY <1>0, <1>2, Zenon DEF CallOK
<1>14. WaitInv'
  <2> SUFFICES ASSUME NEW q \in VProcs
               PROVE  /\ v_pc'[q] \in {"wait", "awake"} <=> idx'[q] # << >>
                      /\ v_pc'[q] = "idle" <=> v_req'[q] = << >>
    BY Zenon DEF WaitInv
  <2>1. CASE q = p
    BY <1>6, <1>12, <1>13, <2>1, Zenon
  <2>2. CASE q # p
    BY <1>0, <1>6, <1>12, <1>13, <2>2, Zenon DEF WaitInv
  <2> QED
    BY <2>1, <2>2, Zenon
<1>15. \A q \in VProcs : \A h : Owner(h, q) => Owner(h, q)'
  BY <1>1, <1>2, <1>6, Zenon DEF Owner
<1>16. HeadInv'
  BY <1>0, <1>3, <1>15, Zenon DEF HeadInv
<1>17. ChainOK'
  <2>1. desc' \in [Descs -> Wanted \cup {<< >>}] /\ info' \in [Descs -> VProcs \cup {Nobody}]
    BY <1>0, <1>1, Zenon DEF ChainOK
  <2>2. desc_free' \subseteq Descs
    BY <1>0, <1>1, Zenon DEF ChainOK
  <2> QED
    BY <1>0, <1>3, <1>6, <2>1, <2>2, ZenonT(30) DEF ChainOK
<1>18. CallOK' /\ DataOK'
  BY <1>0, <1>2, <1>3, <1>12, <1>13, ZenonT(30) DEF CallOK, DataOK
<1> QED
  BY <1>3, <1>9, <1>11, <1>14, <1>16, <1>17, <1>18, Zenon DEF IInv, TypeInv
-----------------------------------------------------------------------------
(* The device and the interrupt handler.                                   *)
LEMMA TakeStep ==
    ASSUME IInv, DeviceTake
    PROVE  /\ IInv'
           /\ SameOff
<1>0. RingOK /\ ChainOK /\ CallOK /\ DataOK /\ ChainInv /\ WaitInv /\ KnownInv /\ HeadInv
  BY Zenon DEF IInv, TypeInv
<1>1. PICK h : h = avail[taken % VIRTIO_DESCRIPTORS]
  BY Zenon
<1>2. /\ taken # avail_idx /\ working' = working \cup {h} /\ taken' = NextIdx(taken)
      /\ UNCHANGED <<desc_free, idx, desc, info, owned_by_driver, avail, avail_idx, used,
                     used_ring_idx, used_idx, irq, vdisk_lock, v_pc, v_req, v_data,
                     v_disk, v_calls>>
  BY <1>1, Zenon DEF DeviceTake
<1>3. /\ taken' \in Index(IDX) /\ h \in Elems(Avail)
      /\ Elems(Avail') = Elems(Avail) \ {h} /\ NoRepeat(Avail')
  <2>1. avail \in Rings(D, Descs) /\ taken \in Index(IDX) /\ avail_idx \in Index(IDX)
    BY <1>0, Zenon DEF RingOK
  <2>2. NoRepeat(Cells(D, IDX, avail, taken, avail_idx))
    BY <1>0, Zenon DEF HeadInv, Avail
  <2>3. /\ NextIdx(taken) \in Index(IDX) /\ h \in Elems(Cells(D, IDX, avail, taken, avail_idx))
        /\ Elems(Cells(D, IDX, avail, NextIdx(taken), avail_idx)) = Elems(Cells(D, IDX, avail, taken, avail_idx)) \ {h}
        /\ NoRepeat(Cells(D, IDX, avail, NextIdx(taken), avail_idx))
    BY <1>1, <1>2, <2>1, <2>2, TakeHead, Zenon
  <2>4. Avail' = Cells(D, IDX, avail, NextIdx(taken), avail_idx)
    BY <1>2, Zenon DEF Avail
  <2> QED
    BY <1>2, <2>3, <2>4, Zenon DEF Avail
<1>4. Used' = Used
  BY <1>2, ZenonT(30) DEF Used
<1>5. h \in Descs
  <2>1. PICK p \in VProcs : Owner(h, p)
    BY <1>0, <1>3, Zenon DEF HeadInv
  <2> QED
    BY <1>0, <2>1, HeadsDiffer, Zenon DEF Owner
<1>6. RingOK' /\ ChainOK' /\ CallOK' /\ DataOK'
  <2>1. RingOK'
    BY <1>0, <1>2, <1>3, ZenonT(30) DEF RingOK
  <2>2. working' \subseteq Descs
    BY <1>0, <1>2, <1>5, Zenon DEF ChainOK
  <2> QED
    BY <1>0, <1>2, <2>1, <2>2, Zenon DEF ChainOK, CallOK, DataOK
<1>7. ChainInv' /\ WaitInv' /\ KnownInv'
  BY <1>0, <1>2, Zenon DEF ChainInv, WaitInv, KnownInv
<1>8. Elems(Avail') \cup working' = Elems(Avail) \cup working
  BY <1>2, <1>3, Zenon
<1>9. HeadInv'
  <2>1. Apart(Elems(Avail'), working', Elems(Used'))
    BY <1>0, <1>2, <1>3, <1>4, Zenon DEF HeadInv, Apart
  <2>2. \A q \in VProcs : \A g : Owner(g, q)' <=> Owner(g, q)
    BY <1>2, Zenon DEF Owner
  <2>3. \A g \in Elems(Avail') \cup working' \cup Elems(Used') : \E q \in VProcs : Owner(g, q)'
    BY <1>0, <1>4, <1>8, <2>2, Zenon DEF HeadInv
  <2> QED
    BY <1>0, <1>3, <1>4, <2>1, <2>3, ZenonT(30) DEF HeadInv
<1>10. SameOff
  BY <1>2, <1>8, Zenon DEF SameOff, OffDevice
<1> QED
  BY <1>6, <1>7, <1>9, <1>10, Zenon DEF IInv, TypeInv

(* A head the device or a ring has belongs to the caller info[] names.     *)
LEMMA OwnerIs ==
    ASSUME IInv, NEW h, h \in Elems(Avail) \cup working \cup Elems(Used)
    PROVE  /\ h \in Descs /\ info[h] \in VProcs /\ Owner(h, info[h])
           /\ v_req[info[h]] \in Wanted /\ desc[h] = v_req[info[h]]
           /\ \A q \in VProcs : idx[q] # << >> /\ idx[q][1] = h => q = info[h]
<1>0. ChainOK /\ CallOK /\ ChainInv /\ WaitInv /\ KnownInv /\ HeadInv
  BY Zenon DEF IInv, TypeInv
<1>1. PICK p \in VProcs : Owner(h, p)
  BY <1>0, Zenon DEF HeadInv
<1>2. idx[p] # << >> /\ idx[p][1] = h
  BY <1>1, Zenon DEF Owner
<1>3. h \in Descs /\ \A q \in VProcs : idx[q] # << >> /\ idx[q][1] = h => q = p
  BY <1>0, <1>2, HeadsDiffer, Zenon
<1>4. info[h] = p /\ desc[h] = v_req[p]
  BY <1>0, <1>2, Zenon DEF KnownInv
<1>5. v_pc[p] # "idle"
  BY <1>0, <1>2, Zenon DEF WaitInv
<1>6. v_req[p] \in Wanted
  BY <1>0, <1>5, RequestOf, Zenon
<1> QED
  BY <1>1, <1>3, <1>4, <1>6, Zenon

LEMMA DoneStep ==
    ASSUME IInv, NEW h \in Descs, DeviceDone(h)
    PROVE  IInv'
<1>0. RingOK /\ ChainOK /\ CallOK /\ DataOK /\ ChainInv /\ WaitInv /\ KnownInv /\ HeadInv
  BY Zenon DEF IInv, TypeInv
<1>1. /\ h \in working /\ working' = working \ {h}
      /\ used' = [used EXCEPT ![used_ring_idx % VIRTIO_DESCRIPTORS] = h]
      /\ used_ring_idx' = NextIdx(used_ring_idx) /\ irq' = TRUE
      /\ UNCHANGED <<desc_free, idx, desc, info, owned_by_driver, avail, avail_idx,
                     used_idx, taken, vdisk_lock, v_pc, v_req, v_calls>>
  BY Zenon DEF DeviceDone
<1>2. PICK p \in VProcs, b \in VBlocks, w \in BOOLEAN : info[h] = p /\ desc[h] = <<b, w>>
  BY <1>1, OwnerIs DEF Wanted
<1>3. DataOK'
  <2>1. IF w THEN v_disk' = [v_disk EXCEPT ![b] = v_data[p]] /\ v_data' = v_data
             ELSE v_data' = [v_data EXCEPT ![p] = v_disk[b]] /\ v_disk' = v_disk
    BY <1>2 DEF DeviceDone
  <2> QED
    BY <1>0, <2>1, Zenon DEF DataOK
<1>4. h \notin Elems(Used)
  BY <1>0, <1>1, Zenon DEF HeadInv, Apart
<1>5. /\ used' \in Rings(D, Descs) /\ used_ring_idx' \in Index(IDX)
      /\ Elems(Used') = Elems(Used) \cup {h} /\ NoRepeat(Used')
  <2>1. used \in Rings(D, Descs) /\ used_idx \in Index(IDX) /\ used_ring_idx \in Index(IDX)
    BY <1>0, Zenon DEF RingOK
  <2>2. NoRepeat(Cells(D, IDX, used, used_idx, used_ring_idx)) /\ h \notin Elems(Cells(D, IDX, used, used_idx, used_ring_idx))
    BY <1>0, <1>4, Zenon DEF HeadInv, Used
  <2>3. /\ used' \in Rings(D, Descs) /\ NextIdx(used_ring_idx) \in Index(IDX)
        /\ Elems(Cells(D, IDX, used', used_idx, NextIdx(used_ring_idx))) = Elems(Cells(D, IDX, used, used_idx, used_ring_idx)) \cup {h}
        /\ NoRepeat(Cells(D, IDX, used', used_idx, NextIdx(used_ring_idx)))
    <3>1. Stores(used, used_ring_idx, h, used')
      BY <1>1, Zenon DEF Stores
    <3> QED
      BY <2>1, <2>2, <3>1, StoreHead, Zenon
  <2>4. Used' = Cells(D, IDX, used', used_idx, NextIdx(used_ring_idx))
    BY <1>1, Zenon DEF Used
  <2> QED
    BY <1>1, <2>3, <2>4, ZenonT(30) DEF Used
<1>6. Avail' = Avail
  BY <1>1, Zenon DEF Avail
<1>7. RingOK' /\ ChainOK' /\ CallOK'
  <2>1. RingOK'
    BY <1>0, <1>1, <1>5, ZenonT(30) DEF RingOK
  <2>2. working' \subseteq Descs
    BY <1>0, <1>1, Zenon DEF ChainOK
  <2>3. irq' \in BOOLEAN
    BY <1>1, Zenon
  <2> QED
    BY <1>0, <1>1, <2>1, <2>2, <2>3, ZenonT(30) DEF ChainOK, CallOK
<1>8. ChainInv' /\ WaitInv' /\ KnownInv'
  BY <1>0, <1>1, Zenon DEF ChainInv, WaitInv, KnownInv
<1>9. HeadInv'
  <2>1. Apart(Elems(Avail'), working', Elems(Used'))
    BY <1>0, <1>1, <1>5, <1>6, Zenon DEF HeadInv, Apart
  <2>2. \A q \in VProcs : \A g : Owner(g, q)' <=> Owner(g, q)
    BY <1>1, ZenonT(30) DEF Owner
  <2>3. \A g \in Elems(Avail') \cup working' \cup Elems(Used') : \E q \in VProcs : Owner(g, q)'
    BY <1>0, <1>1, <1>5, <1>6, <2>2, Zenon DEF HeadInv
  <2> QED
    BY <1>0, <1>5, <1>6, <2>1, <2>3, ZenonT(30) DEF HeadInv
<1> QED
  BY <1>3, <1>7, <1>8, <1>9, Zenon DEF IInv, TypeInv

LEMMA EntryStep ==
    ASSUME IInv, IntrEntry
    PROVE  IInv' /\ SameOff
<1>0. RingOK /\ ChainOK /\ CallOK /\ DataOK /\ ChainInv /\ WaitInv /\ KnownInv /\ HeadInv
  BY Zenon DEF IInv, TypeInv
<1>1. PICK h : h = used[used_idx % VIRTIO_DESCRIPTORS]
  BY Zenon
<1>2. PICK p : p = info[h]
  BY ZenonT(30)
<1>3. /\ used_idx # used_ring_idx /\ used_idx' = NextIdx(used_idx)
      /\ owned_by_driver' = [owned_by_driver EXCEPT ![p] = FALSE]
      /\ v_pc' = [v_pc EXCEPT ![p] = IF v_pc[p] = "wait" THEN "awake" ELSE v_pc[p]]
      /\ UNCHANGED <<desc_free, idx, desc, info, avail, avail_idx, used, used_ring_idx,
                     taken, working, irq, vdisk_lock, v_req, v_data, v_disk, v_calls>>
  BY <1>1, <1>2, ZenonT(30) DEF IntrEntry
<1>4. /\ used_idx' \in Index(IDX) /\ h \in Elems(Used)
      /\ Elems(Used') = Elems(Used) \ {h} /\ NoRepeat(Used')
  <2>1. used \in Rings(D, Descs) /\ used_idx \in Index(IDX) /\ used_ring_idx \in Index(IDX)
    BY <1>0, Zenon DEF RingOK
  <2>2. NoRepeat(Cells(D, IDX, used, used_idx, used_ring_idx))
    BY <1>0, Zenon DEF HeadInv, Used
  <2>3. /\ NextIdx(used_idx) \in Index(IDX) /\ h \in Elems(Cells(D, IDX, used, used_idx, used_ring_idx))
        /\ Elems(Cells(D, IDX, used, NextIdx(used_idx), used_ring_idx)) = Elems(Cells(D, IDX, used, used_idx, used_ring_idx)) \ {h}
        /\ NoRepeat(Cells(D, IDX, used, NextIdx(used_idx), used_ring_idx))
    BY <1>1, <1>3, <2>1, <2>2, TakeHead, Zenon
  <2>4. Used' = Cells(D, IDX, used, NextIdx(used_idx), used_ring_idx)
    BY <1>3, Zenon DEF Used
  <2> QED
    BY <1>3, <2>3, <2>4, Zenon DEF Used
<1>5. Avail' = Avail
  BY <1>3, ZenonT(30) DEF Avail
<1>6. p \in VProcs /\ Owner(h, p) /\ \A q \in VProcs : idx[q] # << >> /\ idx[q][1] = h => q = p
  BY <1>2, <1>4, OwnerIs, ZenonT(30)
<1>7. /\ v_pc' \in [VProcs -> VLabels] /\ owned_by_driver' \in [VProcs -> BOOLEAN]
      /\ \A q \in VProcs : /\ v_pc'[q] \in {"wait", "awake"} <=> v_pc[q] \in {"wait", "awake"}
                           /\ v_pc'[q] = "idle" <=> v_pc[q] = "idle"
      /\ \A q \in VProcs : q # p => owned_by_driver'[q] = owned_by_driver[q]
  BY <1>0, <1>3, <1>6, Zenon DEF CallOK, VLabels
<1>8. RingOK' /\ ChainOK' /\ CallOK' /\ DataOK'
  BY <1>0, <1>3, <1>4, <1>7, Zenon DEF RingOK, ChainOK, CallOK, DataOK
<1>9. ChainInv' /\ KnownInv' /\ WaitInv'
  BY <1>0, <1>3, <1>7, ZenonT(30) DEF ChainInv, KnownInv, WaitInv
<1>10. \A q \in VProcs : \A g : g # h /\ Owner(g, q) => Owner(g, q)'
  BY <1>3, <1>6, <1>7, Zenon DEF Owner
<1>11. h \notin Elems(Avail) \cup working
  BY <1>0, <1>4, Zenon DEF HeadInv, Apart
<1>12. HeadInv'
  <2>1. Apart(Elems(Avail'), working', Elems(Used'))
    BY <1>0, <1>3, <1>4, <1>5, Zenon DEF HeadInv, Apart
  <2>2. \A g \in Elems(Avail') \cup working' \cup Elems(Used') : g # h /\ g \in Elems(Avail) \cup working \cup Elems(Used)
    BY <1>3, <1>4, <1>5, <1>11, Zenon
  <2>3. \A g \in Elems(Avail') \cup working' \cup Elems(Used') : \E q \in VProcs : Owner(g, q)'
    BY <1>0, <1>10, <2>2, Zenon DEF HeadInv
  <2> QED
    BY <1>0, <1>4, <1>5, <2>1, <2>3, ZenonT(30) DEF HeadInv
<1>13. SameOff
  BY <1>3, <1>5, Zenon DEF SameOff, OffDevice
<1> QED
  BY <1>8, <1>9, <1>12, <1>13, Zenon DEF IInv, TypeInv

LEMMA LockStep ==
    ASSUME IInv, IntrAck \/ IntrReturn
    PROVE  IInv' /\ SameOff
<1>1. UNCHANGED <<desc_free, idx, desc, info, owned_by_driver, avail, avail_idx, used,
                  used_ring_idx, used_idx, taken, working, v_pc, v_req, v_data, v_disk, v_calls>>
  BY Zenon DEF IntrAck, IntrReturn, rings
<1>2. irq' \in BOOLEAN /\ vdisk_lock' \in {"intr", Nobody}
  BY Zenon DEF IntrAck, IntrReturn, rings, IInv, TypeInv, CallOK
<1>3. RingOK' /\ Avail' = Avail /\ Used' = Used
  BY <1>1, SameRing, Zenon DEF ringIdx, IInv, TypeInv
<1>4. ChainOK' /\ CallOK' /\ DataOK'
  BY <1>1, <1>2, Zenon DEF IInv, TypeInv, ChainOK, CallOK, DataOK
<1>5. ChainInv' /\ WaitInv' /\ KnownInv'
  BY <1>1, Zenon DEF IInv, ChainInv, WaitInv, KnownInv
<1>6. HeadInv'
  BY <1>1, <1>3, Zenon DEF IInv, HeadInv, Owner
<1>7. SameOff
  BY <1>1, <1>3, Zenon DEF SameOff, OffDevice
<1> QED
  BY <1>3, <1>4, <1>5, <1>6, <1>7, Zenon DEF IInv, TypeInv

LEMMA RestStep ==
    ASSUME IInv, UNCHANGED virtioVars
    PROVE  IInv' /\ SameOff
<1>1. UNCHANGED <<desc_free, idx, desc, info, owned_by_driver, avail, avail_idx, used,
                  used_ring_idx, used_idx, taken, working, irq, vdisk_lock, v_pc, v_req,
                  v_data, v_disk, v_calls>>
  BY Zenon DEF virtioVars, rings
<1>2. RingOK' /\ Avail' = Avail /\ Used' = Used
  BY <1>1, SameRing, Zenon DEF ringIdx, IInv, TypeInv
<1>3. ChainOK' /\ CallOK' /\ DataOK' /\ ChainInv' /\ WaitInv' /\ KnownInv'
  BY <1>1, Zenon DEF IInv, TypeInv, ChainOK, CallOK, DataOK, ChainInv, WaitInv, KnownInv
<1>4. HeadInv'
  BY <1>1, <1>2, Zenon DEF IInv, HeadInv, Owner
<1>5. SameOff
  BY <1>1, <1>2, Zenon DEF SameOff, OffDevice
<1> QED
  BY <1>2, <1>3, <1>4, <1>5, Zenon DEF IInv, TypeInv
-----------------------------------------------------------------------------
LEMMA EmptyRing ==
    ASSUME NEW f, NEW a \in Index(IDX)
    PROVE  Elems(Cells(D, IDX, f, a, a)) = {} /\ NoRepeat(Cells(D, IDX, f, a, a))
<1>1. Gap(IDX, a, a) = 0
  BY RingFits, GapType, Zenon
<1>2. Cells(D, IDX, f, a, a) = << >>
  BY <1>1 DEF Cells
<1> QED
  BY <1>2 DEF Elems, NoRepeat

LEMMA InitHolds == VirtioInit => IInv
<1> SUFFICES ASSUME VirtioInit PROVE IInv
  BY Zenon
<1>0. Descs = Cell(D) /\ 0 \in Descs
  BY RingFits, VirtioAssumption DEF Descs
<1>1. ServedBefore % IDX \in Index(IDX)
  BY VirtioAssumption DEF Index
<1>2. PICK x \in Index(IDX) : avail_idx = x /\ taken = x /\ used_idx = x /\ used_ring_idx = x
  BY <1>1, Zenon DEF VirtioInit
<1>3. RingOK
  <2>1. avail \in [Descs -> Descs] /\ used \in [Descs -> Descs]
    BY <1>0, Zenon DEF VirtioInit
  <2> QED
    BY <1>0, <1>2, <2>1, Zenon DEF RingOK, Rings
<1>4. ChainOK
  BY Zenon DEF VirtioInit, ChainOK
<1>5. CallOK
  <2>1. 0 \in 0 .. MaxRw
    BY VirtioAssumption
  <2> QED
    BY <2>1, Zenon DEF VirtioInit, CallOK, VLabels
<1>6. DataOK
  <2>1. PICK v \in VValues : v = CHOOSE u \in VValues : TRUE
    BY VirtioAssumption, Zenon
  <2> QED
    BY <2>1, Zenon DEF VirtioInit, DataOK
<1>7. \A p \in VProcs : idx[p] = << >> /\ v_pc[p] = "idle" /\ v_req[p] = << >>
  BY Zenon DEF VirtioInit
<1>8. ChainInv
  <2>1. desc_free = Descs
    BY Zenon DEF VirtioInit
  <2> QED
    BY <1>7, <2>1, Zenon DEF ChainInv, Has
<1>9. WaitInv /\ KnownInv
  BY <1>7, Zenon DEF WaitInv, KnownInv
<1>10. Elems(Avail) = {} /\ Elems(Used) = {} /\ NoRepeat(Avail) /\ NoRepeat(Used)
  BY <1>2, EmptyRing, Zenon DEF Avail, Used
<1>11. working = {}
  BY Zenon DEF VirtioInit
<1>12. HeadInv
  BY <1>10, <1>11, Zenon DEF HeadInv, Apart
<1> QED
  BY <1>3, <1>4, <1>5, <1>6, <1>8, <1>9, <1>12, Zenon DEF IInv, TypeInv

(* The inductive invariant of the driver and its device.                   *)
LEMMA VirtioInductive == VirtioSpec => []IInv
<1>1. IInv /\ [VirtioNext]_virtioVars => IInv'
  <2> SUFFICES ASSUME IInv, [VirtioNext]_virtioVars PROVE IInv'
    BY Zenon
  <2>1. ASSUME NEW p \in VProcs, NEW b \in VBlocks, RwCall(p, b, FALSE, v_data[p]) PROVE IInv'
    <3>1. v_data[p] \in VValues
      BY Zenon DEF IInv, TypeInv, DataOK
    <3> QED
      BY <2>1, <3>1, CallStep, Zenon
  <2>2. ASSUME NEW p \in VProcs, NEW b \in VBlocks, NEW v \in VValues, RwCall(p, b, TRUE, v) PROVE IInv'
    BY <2>2, CallStep, Zenon
  <2>3. ASSUME NEW p \in VProcs, RwStep(p) \/ VKill(p) PROVE IInv'
    BY <2>3, SubmitStep, ReturnStep, PlaceSteps, Zenon DEF RwStep
  <2>4. CASE DeviceTake
    BY <2>4, TakeStep, Zenon
  <2>5. ASSUME NEW h \in Descs, DeviceDone(h) PROVE IInv'
    BY <2>5, DoneStep, Zenon
  <2>6. CASE IntrAck \/ IntrReturn
    BY <2>6, LockStep, Zenon
  <2>7. CASE IntrEntry
    BY <2>7, EntryStep, Zenon
  <2>8. CASE UNCHANGED virtioVars
    BY <2>8, RestStep, Zenon
  <2> QED
    BY <2>1, <2>2, <2>3, <2>4, <2>5, <2>6, <2>7, <2>8, ZenonT(30) DEF VirtioNext
<1> QED
  BY <1>1, InitHolds, PTL DEF VirtioSpec

(* virtio_disk_rw() and virtio_block_device_interrupt(): every descriptor  *)
(* is free or in the chain of one call, and the device has only chains of  *)
(* calls that have not returned.                                           *)
THEOREM VirtioIsSafe == VirtioSpec => []VirtioSafe
<1>1. IInv => VirtioSafe
  <2> SUFFICES ASSUME IInv PROVE VirtioSafe
    BY Zenon
  <2>0. RingOK /\ ChainOK /\ CallOK /\ DataOK /\ ChainInv /\ WaitInv /\ KnownInv /\ HeadInv
    BY Zenon DEF IInv, TypeInv
  <2>1. VirtioTypeOK
    <3>1. avail \in [Descs -> Descs] /\ used \in [Descs -> Descs]
      BY <2>0, RingFits, Zenon DEF RingOK, Rings
    <3>2. {avail_idx, used_ring_idx, used_idx, taken} \subseteq 0 .. (IDX - 1)
      BY <2>0, Zenon DEF RingOK, Index
    <3>3. \A p \in VProcs : idx[p] = << >> \/ idx[p] \in Descs \X Descs \X Descs
      BY <2>0, Zenon DEF ChainOK, Triples
    <3> QED
      BY <2>0, <3>1, <3>2, <3>3, Zenon DEF VirtioTypeOK, ChainOK, CallOK, DataOK
  <2>2. \A p \in VProcs : Chain(p) \subseteq Descs /\ \A d \in Descs : d \in Chain(p) <=> Has(idx[p], d)
    <3> SUFFICES ASSUME NEW p \in VProcs PROVE Chain(p) \subseteq Descs /\ \A d \in Descs : d \in Chain(p) <=> Has(idx[p], d)
      BY Zenon
    <3>1. CASE idx[p] = << >>
      BY <3>1 DEF Chain, Has
    <3>2. CASE idx[p] # << >>
      <4>1. PICK a, b, c \in Descs : idx[p] = <<a, b, c>>
        BY <2>0, <3>2 DEF ChainOK, Triples
      <4>2. Chain(p) = {a, b, c}
        BY <4>1 DEF Chain
      <4> QED
        BY <3>2, <4>1, <4>2 DEF Has
    <3> QED
      BY <3>1, <3>2, Zenon
  <2>3. DescriptorsExact
    <3>1. UNION {Chain(p) : p \in VProcs} = Descs \ desc_free
      BY <2>0, <2>2 DEF ChainInv
    <3>2. \A p, q \in VProcs : p # q => Chain(p) \cap Chain(q) = {}
      BY <2>0, <2>2, Zenon DEF ChainInv
    <3> QED
      BY <3>1, <3>2, Zenon DEF DescriptorsExact
  <2>4. DmaInsideCall
    <3>1. Pending = Elems(Avail) /\ Completed = Elems(Used)
      BY <2>0, Window, Zenon DEF Pending, Completed, Avail, Used, RingOK
    <3> SUFFICES ASSUME NEW h \in Elems(Avail) \cup working \cup Elems(Used)
                 PROVE  \E p \in VProcs : /\ info[h] = p /\ idx[p] # << >> /\ idx[p][1] = h
                                          /\ owned_by_driver[p] /\ v_pc[p] \in {"wait", "awake"}
      BY <3>1, Zenon DEF DmaInsideCall
    <3>2. info[h] \in VProcs /\ Owner(h, info[h])
      BY OwnerIs, Zenon
    <3> QED
      BY <2>0, <3>2, Zenon DEF Owner, WaitInv
  <2> QED
    BY <2>1, <2>3, <2>4, Zenon DEF VirtioSafe
<1> QED
  BY <1>1, VirtioInductive, PTL
-----------------------------------------------------------------------------
(* The abstract block device: who asked for what, and whose block has been *)
(* moved.                                                                  *)
AskedBar == [p \in VProcs |-> IF v_req[p] = << >> THEN {} ELSE {v_req[p]}]
MovedBar == {p \in VProcs : idx[p] # << >> /\ idx[p][1] \notin Pending \cup working}

LEMMA MovedIs ==
    ASSUME RingOK, RingOK'
    PROVE  /\ MovedBar = {p \in VProcs : OffDevice(p)}
           /\ MovedBar' = {p \in VProcs : OffDevice(p)'}
<1>1. Pending = Elems(Avail)
  BY Window, Zenon DEF Pending, Avail, RingOK
<1>2. Pending' = Elems(Avail')
  BY Window, Zenon DEF Pending, Avail, RingOK
<1> QED
  BY <1>1, <1>2, ZenonT(30) DEF MovedBar, OffDevice

SameBlocks == UNCHANGED <<v_disk, v_data, AskedBar, MovedBar>>

LEMMA QuietStep ==
    ASSUME IInv, IInv', UNCHANGED <<v_disk, v_data, v_req>>, SameOff
    PROVE  SameBlocks
<1>1. AskedBar' = AskedBar
  BY Zenon DEF AskedBar
<1>2. MovedBar' = MovedBar
  BY MovedIs, Zenon DEF IInv, TypeInv, SameOff
<1> QED
  BY <1>1, <1>2, Zenon DEF SameBlocks

LEMMA CallIsCall ==
    ASSUME IInv, IInv', NEW p \in VProcs, NEW b \in VBlocks, NEW w \in BOOLEAN, NEW v \in VValues,
           RwCall(p, b, w, v)
    PROVE  Abstract!BdCall(p)
<1>1. /\ v_pc[p] = "idle" /\ v_req' = [v_req EXCEPT ![p] = <<b, w>>]
      /\ v_data' = [v_data EXCEPT ![p] = v]
      /\ UNCHANGED <<idx, rings, v_disk>>
  BY ZenonT(30) DEF RwCall
<1>2. v_req[p] = << >> /\ v_req \in [VProcs -> Wanted \cup {<< >>}] /\ <<b, w>> # << >>
  BY <1>1, Zenon DEF IInv, TypeInv, CallOK, WaitInv
<1>3. AskedBar[p] = {} /\ AskedBar' = [AskedBar EXCEPT ![p] = {<<b, w>>}]
  BY <1>1, <1>2, Zenon DEF AskedBar
<1>4. MovedBar' = MovedBar
  BY <1>1, Zenon DEF MovedBar, Pending, rings
<1>5. \E s \in VBlocks, write \in BOOLEAN, u \in VValues :
         /\ AskedBar[p] = {} /\ AskedBar' = [AskedBar EXCEPT ![p] = {<<s, write>>}]
         /\ v_data' = [v_data EXCEPT ![p] = u] /\ UNCHANGED <<v_disk, MovedBar>>
  BY <1>1, <1>3, <1>4, Zenon
<1> QED
  BY <1>5, ZenonT(30) DEF Abstract!BdCall, AskedBar, MovedBar

LEMMA DoneIsMove ==
    ASSUME IInv, IInv', NEW h \in Descs, DeviceDone(h)
    PROVE  \E p \in VProcs : Abstract!BdMove(p)
<1>1. h \in working /\ working' = working \ {h} /\ UNCHANGED <<idx, avail, avail_idx, taken, v_req>>
  BY Zenon DEF DeviceDone
<1>2. PICK p \in VProcs : p = info[h]
  BY <1>1, OwnerIs, Zenon
<1>3. /\ idx[p] # << >> /\ idx[p][1] = h /\ v_req[p] \in Wanted /\ desc[h] = v_req[p]
      /\ \A q \in VProcs : idx[q] # << >> /\ idx[q][1] = h => q = p
  BY <1>1, <1>2, OwnerIs DEF Owner
<1>4. h \notin Elems(Avail) /\ Avail' = Avail
  <2>1. h \notin Elems(Avail)
    BY <1>1, Zenon DEF IInv, HeadInv, Apart
  <2> QED
    BY <1>1, <2>1, Zenon DEF Avail
<1>5. OffDevice(p)' /\ ~ OffDevice(p) /\ \A q \in VProcs : q # p => (OffDevice(q)' <=> OffDevice(q))
  BY <1>1, <1>3, <1>4, Zenon DEF OffDevice
<1>6. p \notin MovedBar /\ MovedBar' = MovedBar \cup {p}
  <2>1. MovedBar = {q \in VProcs : OffDevice(q)} /\ MovedBar' = {q \in VProcs : OffDevice(q)'}
    BY MovedIs, Zenon DEF IInv, TypeInv
  <2> QED
    BY <1>5, <2>1, Zenon
<1>7. AskedBar[p] = {v_req[p]} /\ AskedBar' = AskedBar
  <2>1. v_req[p] # << >>
    <3>1. PICK b \in VBlocks, w \in BOOLEAN : v_req[p] = <<b, w>>
      BY <1>3 DEF Wanted
    <3> QED
      BY <3>1
  <2> QED
    BY <1>1, <2>1, Zenon DEF AskedBar
<1>8. IF v_req[p][2] THEN v_disk' = [v_disk EXCEPT ![v_req[p][1]] = v_data[p]] /\ UNCHANGED v_data
                     ELSE v_data' = [v_data EXCEPT ![p] = v_disk[v_req[p][1]]] /\ UNCHANGED v_disk
  BY <1>2, <1>3, Zenon DEF DeviceDone
<1>9. \E r \in AskedBar[p] :
         /\ p \notin MovedBar
         /\ IF r[2] THEN v_disk' = [v_disk EXCEPT ![r[1]] = v_data[p]] /\ UNCHANGED v_data
                    ELSE v_data' = [v_data EXCEPT ![p] = v_disk[r[1]]] /\ UNCHANGED v_disk
         /\ MovedBar' = MovedBar \cup {p} /\ UNCHANGED AskedBar
  BY <1>6, <1>7, <1>8, Zenon
<1>10. Abstract!BdMove(p)
  BY <1>9, Zenon DEF Abstract!BdMove, AskedBar, MovedBar
<1> QED
  BY <1>10, Zenon

LEMMA ReturnIsReturn ==
    ASSUME IInv, IInv', NEW p \in VProcs, RwReturn(p)
    PROVE  Abstract!BdReturn(p)
<1>1. v_pc[p] = "awake" /\ ~ owned_by_driver[p] /\ Finish(p, TRUE)
  BY Zenon DEF RwReturn
<1>2. v_req' = [v_req EXCEPT ![p] = << >>] /\ idx' = [idx EXCEPT ![p] = << >>] /\ UNCHANGED <<rings, v_data, v_disk>>
  BY <1>1, Zenon DEF Finish
<1>3. idx[p] # << >> /\ idx \in [VProcs -> Triples \cup {<< >>}] /\ v_req \in [VProcs -> Wanted \cup {<< >>}]
  BY <1>1, Zenon DEF IInv, TypeInv, ChainOK, CallOK, WaitInv
<1>4. OffDevice(p)
  <2> SUFFICES ASSUME idx[p][1] \in Elems(Avail) \cup working PROVE FALSE
    BY <1>3, Zenon DEF OffDevice
  <2>1. Owner(idx[p][1], info[idx[p][1]]) /\ p = info[idx[p][1]]
    BY <1>3, OwnerIs, Zenon
  <2> QED
    BY <1>1, <2>1, Zenon DEF Owner
<1>5. ~ OffDevice(p)' /\ \A q \in VProcs : q # p => (OffDevice(q)' <=> OffDevice(q))
  <2>1. idx'[p] = << >> /\ \A q \in VProcs : q # p => idx'[q] = idx[q]
    BY <1>2, <1>3, Zenon
  <2>2. Avail' = Avail /\ working' = working
    BY <1>2, Zenon DEF Avail, rings
  <2> QED
    BY <2>1, <2>2, Zenon DEF OffDevice
<1>6. p \in MovedBar /\ MovedBar' = MovedBar \ {p}
  <2>1. MovedBar = {q \in VProcs : OffDevice(q)} /\ MovedBar' = {q \in VProcs : OffDevice(q)'}
    BY MovedIs, Zenon DEF IInv, TypeInv
  <2> QED
    BY <1>4, <1>5, <2>1, Zenon
<1>7. AskedBar' = [AskedBar EXCEPT ![p] = {}]
  BY <1>2, <1>3, ZenonT(30) DEF AskedBar
<1>8. p \in MovedBar /\ MovedBar' = MovedBar \ {p} /\ AskedBar' = [AskedBar EXCEPT ![p] = {}] /\ UNCHANGED <<v_disk, v_data>>
  BY <1>2, <1>6, <1>7, Zenon
<1> QED
  BY <1>8, Zenon DEF Abstract!BdReturn, AskedBar, MovedBar

(* The other steps of the driver change nothing a caller could notice.     *)
LEMMA OthersRest ==
    ASSUME IInv, IInv',
           \/ \E p \in VProcs : RwSubmit(p) \/ RwNoDescriptors(p) \/ RwAgain(p) \/ VKill(p)
           \/ DeviceTake \/ IntrAck \/ IntrEntry \/ IntrReturn \/ UNCHANGED virtioVars
    PROVE  SameBlocks
<1>1. SameOff
  BY SubmitStep, PlaceSteps, TakeStep, EntryStep, LockStep, RestStep, Zenon
<1>2. UNCHANGED <<v_disk, v_data, v_req>>
  BY Zenon DEF RwSubmit, RwNoDescriptors, RwAgain, VKill, DeviceTake, IntrAck, IntrEntry, IntrReturn, virtioVars
<1> QED
  BY <1>1, <1>2, QuietStep, Zenon

(* The driver is a block device: every step of the driver, the device and  *)
(* the interrupt handler is a call, a transfer, a return, or nothing.      *)
THEOREM VirtioIsBlockDevice == VirtioSpec => IsBlockDevice
<1>1. VirtioInit => Abstract!BdInit
  <2> SUFFICES ASSUME VirtioInit PROVE Abstract!BdInit
    BY Zenon
  <2>1. v_disk \in [VBlocks -> VValues] /\ v_data \in [VProcs -> VValues]
    BY InitHolds, Zenon DEF IInv, TypeInv, DataOK
  <2>2. \A p \in VProcs : v_req[p] = << >> /\ idx[p] = << >>
    BY Zenon DEF VirtioInit
  <2>3. AskedBar = [p \in VProcs |-> {}] /\ MovedBar = {}
    BY <2>2, Zenon DEF AskedBar, MovedBar
  <2> QED
    BY <2>1, <2>3, Zenon DEF Abstract!BdInit, AskedBar, MovedBar
<1>2. IInv /\ IInv' /\ [VirtioNext]_virtioVars => [Abstract!BdNext]_Abstract!bdVars
  <2> SUFFICES ASSUME IInv, IInv', [VirtioNext]_virtioVars
               PROVE  (\E p \in VProcs : Abstract!BdCall(p) \/ Abstract!BdMove(p) \/ Abstract!BdReturn(p)) \/ SameBlocks
    BY Zenon DEF Abstract!BdNext, Abstract!bdVars, SameBlocks, AskedBar, MovedBar
  <2>1. ASSUME NEW p \in VProcs, NEW b \in VBlocks, RwCall(p, b, FALSE, v_data[p]) PROVE Abstract!BdCall(p)
    <3>1. v_data[p] \in VValues
      BY Zenon DEF IInv, TypeInv, DataOK
    <3> QED
      BY <2>1, <3>1, CallIsCall, Zenon
  <2>2. ASSUME NEW p \in VProcs, NEW b \in VBlocks, NEW v \in VValues, RwCall(p, b, TRUE, v) PROVE Abstract!BdCall(p)
    BY <2>2, CallIsCall, Zenon
  <2>3. ASSUME NEW p \in VProcs, RwReturn(p) PROVE Abstract!BdReturn(p)
    BY <2>3, ReturnIsReturn, Zenon
  <2>4. ASSUME NEW h \in Descs, DeviceDone(h) PROVE \E p \in VProcs : Abstract!BdMove(p)
    BY <2>4, DoneIsMove, Zenon
  <2> QED
    BY <2>1, <2>2, <2>3, <2>4, OthersRest, Zenon DEF VirtioNext, RwStep
<1> QED
  BY <1>1, <1>2, VirtioInductive, PTL DEF VirtioSpec, IsBlockDevice, Abstract!BdSpec
=============================================================================
