----------------------------- MODULE RingBuffer -----------------------------
(***************************************************************************)
(* Facts about a ring of N cells addressed by two counters that wrap at W: *)
(* the scheme of the pipe's data (pipe.c) and of the console's input       *)
(* buffer (console.c).  They say what taking, taking back and storing an   *)
(* element do to the sequence the ring holds, for every N and every W that *)
(* N divides.                                                              *)
(***************************************************************************)
EXTENDS Integers, Sequences, TLAPS

Fits(N, W) == N \in Nat \ {0} /\ W \in Nat /\ W > N /\ W % N = 0

Index(W) == 0 .. (W - 1)
Cell(N) == 0 .. (N - 1)
Slot(N, i) == i % N
Gap(W, a, b) == (a + W - b) % W
Rings(N, S) == [Cell(N) -> S]

(* What lies in the ring f from counter a to counter b.                    *)
Cells(N, W, f, a, b) == [k \in 1 .. Gap(W, b, a) |-> f[Slot(N, (a + k - 1) % W)]]
-----------------------------------------------------------------------------
(* Arithmetic of the ring's indices.                                       *)
LEMMA Euclid ==
    ASSUME NEW a \in Int, NEW k \in Int, k > 0
    PROVE  a = k * (a \div k) + (a % k)
  BY Z3

LEMMA Quotient ==
    ASSUME NEW a \in Nat, NEW k \in Nat \ {0}
    PROVE  \E q \in Nat : a = k * q + (a % k)
<1>1. a \div k \in Nat
  OBVIOUS
<1>2. a = k * (a \div k) + (a % k)
  BY Euclid
<1> QED
  BY <1>1, <1>2, Zenon

LEMMA Remainder ==
    ASSUME NEW k \in Nat \ {0}, NEW q \in Nat, NEW s \in 0 .. (k - 1)
    PROVE  (k * q + s) % k = s
  OBVIOUS

LEMMA PlusMultiple ==
    ASSUME NEW k \in Nat \ {0}, NEW x \in Nat, NEW y \in Nat, y % k = 0
    PROVE  (x + y) % k = x % k
<1>1. PICK q \in Nat : x = k * q + (x % k)
  BY Quotient, Zenon
<1>2. PICK m \in Nat : y = k * m + (y % k)
  BY Quotient, Zenon
<1>3. x + y = k * (q + m) + (x % k)
  <2>1. k * (q + m) = k * q + k * m
    OBVIOUS
  <2>2. PICK A \in Nat : A = k * q
    OBVIOUS
  <2>3. PICK B \in Nat : B = k * m
    OBVIOUS
  <2>4. PICK s \in Nat : s = x % k
    OBVIOUS
  <2>5. x = A + s
    BY <1>1, <2>2, <2>4
  <2>6. y = B
    BY <1>2, <2>3
  <2>7. x + y = (A + B) + s
    BY <2>5, <2>6
  <2> QED
    BY <2>1, <2>2, <2>3, <2>4, <2>7
<1>4. q + m \in Nat /\ x % k \in 0 .. (k - 1)
  OBVIOUS
<1> QED
  BY <1>3, <1>4, Remainder, Zenon

LEMMA NoMultiple ==
    ASSUME NEW k \in Nat \ {0}, NEW m \in Int, k * m < k, k * m > 0
    PROVE  FALSE
  OBVIOUS

LEMMA Distinct ==
    ASSUME NEW k \in Nat \ {0}, NEW x \in Nat, NEW y \in Nat, x < y, y - x < k
    PROVE  x % k # y % k
<1> SUFFICES ASSUME x % k = y % k PROVE FALSE
  OBVIOUS
<1>1. PICK q \in Nat : x = k * q + (x % k)
  BY Quotient, Zenon
<1>2. PICK m \in Nat : y = k * m + (y % k)
  BY Quotient, Zenon
<1>3. y - x = k * (m - q)
  BY <1>1, <1>2
<1>4. m - q \in Int
  OBVIOUS
<1> QED
  BY <1>3, <1>4, NoMultiple


LEMMA GapIs ==
    ASSUME NEW N, NEW W, Fits(N, W), NEW a \in Index(W), NEW b \in Index(W)
    PROVE  Gap(W, a, b) = IF a >= b THEN a - b ELSE a - b + W
<1>1. W \in Nat \ {0}
  BY DEF Fits
<1>2. CASE a >= b
  <2>1. a + W - b = (a - b) + W /\ a - b \in Nat /\ a - b < W
    BY <1>1, <1>2 DEF Index
  <2>2. ((a - b) + W) % W = (a - b)
    BY <1>1, <2>1
  <2> QED
    BY <1>2, <2>1, <2>2 DEF Gap
<1>3. CASE a < b
  <2>1. a + W - b \in Nat /\ a + W - b < W
    BY <1>1, <1>3 DEF Index
  <2>2. (a + W - b) % W = a + W - b
    BY <1>1, <2>1
  <2> QED
    BY <1>1, <1>3, <2>1, <2>2 DEF Gap, Index
<1> QED
  BY <1>1, <1>2, <1>3 DEF Index

LEMMA IncIs ==
    ASSUME NEW N, NEW W, Fits(N, W), NEW a \in Index(W)
    PROVE  (a + 1) % W \in Index(W) /\ (a + 1) % W = IF a = W - 1 THEN 0 ELSE a + 1
<1>1. W \in Nat /\ W > 1
  BY DEF Fits
<1>2. CASE a = W - 1
  <2>1. a + 1 = 0 + W
    BY <1>1, <1>2
  <2>2. (0 + W) % W = 0
    BY <1>1
  <2> QED
    BY <1>1, <1>2, <2>1, <2>2 DEF Index
<1>3. CASE a # W - 1
  <2>1. a + 1 \in Nat /\ a + 1 < W
    BY <1>1, <1>3 DEF Index
  <2>2. (a + 1) % W = a + 1
    BY <1>1, <2>1
  <2> QED
    BY <1>1, <1>3, <2>1, <2>2 DEF Index
<1> QED
  BY <1>2, <1>3
-----------------------------------------------------------------------------
(* W is a multiple of the ring's size: indices may wrap around.            *)
LEMMA SlotOfIndex ==
    ASSUME NEW N, NEW W, Fits(N, W), NEW x \in Nat
    PROVE  Slot(N, x % W) = Slot(N, x) /\ Slot(N, x) \in Cell(N) /\ Slot(N, x + W) = Slot(N, x)
<1> DEFINE k == N
<1>1. k \in Nat \ {0} /\ W \in Nat \ {0} /\ W % k = 0
  BY DEF Fits
<1> HIDE DEF k
<1>2. PICK q \in Nat : x = W * q + (x % W)
  BY <1>1, Quotient, Zenon
<1>3. PICK m \in Nat : W = k * m + (W % k)
  BY <1>1, Quotient, Zenon
<1>4. W * q = k * (m * q)
  BY <1>1, <1>3
<1>5. W * q \in Nat /\ m * q \in Nat /\ x % W \in Nat
  BY <1>1
<1>6. (k * (m * q) + 0) % k = 0
  BY <1>1, <1>5, Remainder
<1>7. k * (m * q) + 0 = W * q
  BY <1>4, <1>5
<1>8. (W * q) % k = 0
  BY <1>6, <1>7
<1>9. ((x % W) + W * q) % k = (x % W) % k
  BY <1>1, <1>5, <1>8, PlusMultiple, Zenon
<1>10. (x % W) + W * q = x
  BY <1>2, <1>5
<1>11. (x + W) % k = x % k
  BY <1>1, PlusMultiple, Zenon
<1>12. x % k \in 0 .. (k - 1)
  BY <1>1
<1> QED
  BY <1>9, <1>10, <1>11, <1>12 DEF Slot, Cell, k

LEMMA NextCell ==
    ASSUME NEW N, NEW W, Fits(N, W), NEW a \in Index(W), NEW j \in Nat
    PROVE  Slot(N, ((a + 1) % W) + j) = Slot(N, a + 1 + j)
<1>1. W \in Nat /\ W > 1
  BY DEF Fits
<1>2. CASE a = W - 1
  <2>1. (a + 1) % W = 0 /\ a + 1 + j = j + W
    BY <1>1, <1>2, IncIs
  <2> QED
    BY <2>1, SlotOfIndex
<1>3. CASE a # W - 1
  BY <1>3, IncIs
<1> QED
  BY <1>2, <1>3

LEMMA CellFrom ==
    ASSUME NEW N, NEW W, Fits(N, W), NEW a \in Index(W), NEW b \in Index(W), NEW j \in Nat
    PROVE  Slot(N, a + Gap(W, b, a) + j) = Slot(N, b + j)
<1>1. W \in Nat /\ a \in Nat /\ b \in Nat
  BY DEF Index, Fits
<1>2. CASE b >= a
  <2>1. a + Gap(W, b, a) + j = b + j
    BY <1>1, <1>2, GapIs
  <2> QED
    BY <2>1
<1>3. CASE b < a
  <2>1. a + Gap(W, b, a) + j = (b + j) + W
    BY <1>1, <1>3, GapIs
  <2> QED
    BY <1>1, <2>1, SlotOfIndex
<1> QED
  BY <1>1, <1>2, <1>3

LEMMA GapType ==
    ASSUME NEW N, NEW W, Fits(N, W), NEW a \in Index(W), NEW b \in Index(W)
    PROVE  Gap(W, a, b) \in Nat /\ (Gap(W, a, b) = 0 <=> a = b)
<1>1. Gap(W, a, b) = IF a >= b THEN a - b ELSE a - b + W
  BY GapIs
<1> QED
  BY <1>1 DEF Index, Fits

(* The test for a full ring: the counters are N apart.                     *)
LEMMA FullIs ==
    ASSUME NEW N, NEW W, Fits(N, W), NEW a \in Index(W), NEW b \in Index(W)
    PROVE  b = (a + N) % W <=> Gap(W, b, a) = N
<1>1. N \in Nat /\ W \in Nat /\ N < W /\ a \in Nat /\ a < W /\ b \in Nat /\ b < W /\ W > 0 /\ N > 0
  BY DEF Fits, Index
<1>2. Gap(W, b, a) = IF b >= a THEN b - a ELSE b - a + W
  BY GapIs
<1>3. CASE a + N < W
  <2>1. (a + N) % W = a + N
    BY <1>1, <1>3
  <2> QED
    BY <1>1, <1>2, <1>3, <2>1
<1>4. CASE a + N >= W
  <2>1. PICK c \in Nat : c = a + N - W /\ c < W /\ a + N = c + W
    BY <1>1, <1>4
  <2>2. (c + W) % W = c
    BY <1>1, <2>1
  <2> QED
    BY <1>1, <1>2, <1>4, <2>1, <2>2
<1> QED
  BY <1>1, <1>3, <1>4

(* The sequence s is what the m cells of f from a on hold.                 *)
Spells(N, s, S, f, a, m) ==
    s \in Seq(S) /\ Len(s) = m /\ \A k \in 1 .. m : s[k] = f[Slot(N, a + k - 1)]

LEMMA CellsAre ==
    ASSUME NEW N, NEW W, Fits(N, W), NEW S, NEW f \in Rings(N, S),
           NEW a \in Index(W), NEW b \in Index(W)
    PROVE  Spells(N, Cells(N, W, f, a, b), S, f, a, Gap(W, b, a))
<1>1. Gap(W, b, a) \in Nat /\ a \in Nat
  BY GapType DEF Index
<1>2. \A k \in 1 .. Gap(W, b, a) : Slot(N, (a + k - 1) % W) = Slot(N, a + k - 1) /\ Slot(N, a + k - 1) \in Cell(N)
  <2> SUFFICES ASSUME NEW k \in 1 .. Gap(W, b, a) PROVE Slot(N, (a + k - 1) % W) = Slot(N, a + k - 1) /\ Slot(N, a + k - 1) \in Cell(N)
    OBVIOUS
  <2>1. a + k - 1 \in Nat
    BY <1>1
  <2> QED
    BY <2>1, SlotOfIndex
<1>3. \A k \in 1 .. Gap(W, b, a) : f[Slot(N, (a + k - 1) % W)] \in S
  BY <1>2 DEF Rings
<1>4. Cells(N, W, f, a, b) \in [1 .. Gap(W, b, a) -> S]
  BY <1>3 DEF Cells
<1>5. Cells(N, W, f, a, b) \in Seq(S) /\ Len(Cells(N, W, f, a, b)) = Gap(W, b, a)
  BY <1>1, <1>4
<1> QED
  BY <1>2, <1>5, Zenon DEF Cells, Spells

(* The next element is not put over one the ring holds.                    *)
LEMMA StoreIsFree ==
    ASSUME NEW N, NEW W, Fits(N, W), NEW a \in Index(W), NEW b \in Index(W), Gap(W, b, a) < N,
           NEW k \in 1 .. Gap(W, b, a)
    PROVE  Slot(N, a + k - 1) # Slot(N, b)
<1>1. N \in Nat \ {0} /\ Gap(W, b, a) \in Nat /\ a \in Nat /\ b \in Nat
  <2>1. Gap(W, b, a) \in Nat
    BY GapType
  <2> QED
    BY <2>1 DEF Index, Fits
<1>2. Slot(N, a + Gap(W, b, a) + 0) = Slot(N, b + 0)
  BY CellFrom
<1>3. a + Gap(W, b, a) + 0 = a + Gap(W, b, a) /\ b + 0 = b
  BY <1>1
<1>4. PICK x \in Nat : x = a + k - 1
  BY <1>1
<1>5. PICK y \in Nat : y = a + Gap(W, b, a)
  BY <1>1
<1>6. x < y /\ y - x < N
  BY <1>1, <1>4, <1>5
<1>7. x % N # y % N
  BY <1>1, <1>6, Distinct, Zenon
<1> QED
  BY <1>2, <1>3, <1>4, <1>5, <1>7 DEF Slot

LEMMA Joined ==
    ASSUME NEW S, NEW s \in Seq(S), NEW t \in Seq(S), NEW u, u = s \o t
    PROVE  /\ u \in Seq(S) /\ Len(u) = Len(s) + Len(t)
           /\ \A k \in 1 .. Len(u) : u[k] = IF k <= Len(s) THEN s[k] ELSE t[k - Len(s)]
<1>1. u \in Seq(S)
  OBVIOUS
<1>2. Len(u) = Len(s) + Len(t)
  OBVIOUS
<1>3. ASSUME NEW k \in 1 .. Len(u), k <= Len(s) PROVE u[k] = s[k]
  BY <1>2, <1>3
<1>4. ASSUME NEW k \in 1 .. Len(u), k > Len(s) PROVE u[k] = t[k - Len(s)]
  BY <1>2, <1>4
<1> QED
  BY <1>1, <1>2, <1>3, <1>4

LEMMA SameSequence ==
    ASSUME NEW S, NEW s \in Seq(S), NEW t \in Seq(S), Len(s) = Len(t),
           \A k \in 1 .. Len(s) : s[k] = t[k]
    PROVE  s = t
<1>1. s \in [1 .. Len(s) -> S] /\ t \in [1 .. Len(s) -> S]
  OBVIOUS
<1> QED
  BY <1>1

(* Taking from the front removes the first element.                        *)
LEMMA TakeCells ==
    ASSUME NEW N, NEW W, Fits(N, W), NEW S, NEW f \in Rings(N, S),
           NEW a \in Index(W), NEW b \in Index(W), a # b
    PROVE  /\ Cells(N, W, f, a, b) # << >>
           /\ Cells(N, W, f, (a + 1) % W, b) = Tail(Cells(N, W, f, a, b))
<1> DEFINE a1 == (a + 1) % W
           s == Cells(N, W, f, a, b)
           t == Cells(N, W, f, a1, b)
<1>1. a1 \in Index(W) /\ a1 = (IF a = W - 1 THEN 0 ELSE a + 1) /\ a \in Nat /\ b \in Nat /\ W \in Nat
  <2>1. a1 \in Index(W) /\ a1 = IF a = W - 1 THEN 0 ELSE a + 1
    BY IncIs
  <2> QED
    BY <2>1 DEF Index, Fits
<1> HIDE DEF a1
<1>2. Gap(W, b, a1) = Gap(W, b, a) - 1 /\ Gap(W, b, a) \in Nat /\ Gap(W, b, a) > 0
  <2>1. Gap(W, b, a1) = IF b >= a1 THEN b - a1 ELSE b - a1 + W
    BY <1>1, GapIs
  <2>2. Gap(W, b, a) = IF b >= a THEN b - a ELSE b - a + W
    BY GapIs
  <2> QED
    BY <1>1, <2>1, <2>2 DEF Index
<1>3. s \in Seq(S) /\ Len(s) = Gap(W, b, a) /\ \A k \in 1 .. Gap(W, b, a) : s[k] = f[Slot(N, a + k - 1)]
  <2>1. Spells(N, s, S, f, a, Gap(W, b, a))
    BY CellsAre
  <2> QED
    BY <2>1 DEF Spells
<1>4. t \in Seq(S) /\ Len(t) = Gap(W, b, a1) /\ \A k \in 1 .. Gap(W, b, a1) : t[k] = f[Slot(N, a1 + k - 1)]
  <2>1. Spells(N, t, S, f, a1, Gap(W, b, a1))
    BY <1>1, CellsAre
  <2> QED
    BY <2>1 DEF Spells
<1> HIDE DEF s, t
<1>5. s # << >>
  BY <1>2, <1>3
<1>6. Tail(s) \in Seq(S) /\ Len(Tail(s)) = Len(s) - 1 /\ \A k \in 1 .. (Len(s) - 1) : Tail(s)[k] = s[k + 1]
  BY <1>3, <1>5
<1>7. \A k \in 1 .. Len(t) : t[k] = Tail(s)[k]
  <2> SUFFICES ASSUME NEW k \in 1 .. Len(t) PROVE t[k] = Tail(s)[k]
    BY Zenon
  <2>1. k - 1 \in Nat /\ k \in 1 .. (Len(s) - 1) /\ k + 1 \in 1 .. Gap(W, b, a)
    BY <1>2, <1>3, <1>4
  <2>2. a1 + k - 1 = a1 + (k - 1) /\ a + 1 + (k - 1) = a + (k + 1) - 1
    BY <1>1, <2>1
  <2>3. Slot(N, a1 + (k - 1)) = Slot(N, a + 1 + (k - 1))
    BY <2>1, NextCell DEF a1
  <2>4. t[k] = f[Slot(N, a1 + k - 1)]
    BY <1>4
  <2>5. Tail(s)[k] = f[Slot(N, a + (k + 1) - 1)]
    BY <1>3, <1>6, <2>1
  <2> QED
    BY <2>2, <2>3, <2>4, <2>5, Zenon
<1>8. Len(t) = Len(Tail(s))
  BY <1>2, <1>3, <1>4, <1>6
<1>9. t = Tail(s)
  BY <1>4, <1>6, <1>7, <1>8, SameSequence
<1> QED
  BY <1>5, <1>9 DEF a1, s, t

(* Taking back the last index removes the last element.                    *)
LEMMA EraseCells ==
    ASSUME NEW N, NEW W, Fits(N, W), NEW S, NEW f \in Rings(N, S),
           NEW a \in Index(W), NEW b \in Index(W), a # b
    PROVE  /\ Cells(N, W, f, a, b) # << >>
           /\ Cells(N, W, f, a, Gap(W, b, 1)) = SubSeq(Cells(N, W, f, a, b), 1, Len(Cells(N, W, f, a, b)) - 1)
<1> DEFINE b1 == Gap(W, b, 1)
           s == Cells(N, W, f, a, b)
           t == Cells(N, W, f, a, b1)
<1>0. a \in Nat /\ b \in Nat /\ W \in Nat /\ 1 \in Index(W)
  BY DEF Index, Fits
<1>1. b1 \in Index(W) /\ b1 = (IF b >= 1 THEN b - 1 ELSE b - 1 + W)
  <2>1. b1 = IF b >= 1 THEN b - 1 ELSE b - 1 + W
    BY <1>0, GapIs
  <2> QED
    BY <1>0, <2>1 DEF Index
<1> HIDE DEF b1
<1>2. Gap(W, b1, a) = Gap(W, b, a) - 1 /\ Gap(W, b, a) \in Nat /\ Gap(W, b, a) > 0
  <2>1. Gap(W, b1, a) = IF b1 >= a THEN b1 - a ELSE b1 - a + W
    BY <1>1, GapIs
  <2>2. Gap(W, b, a) = IF b >= a THEN b - a ELSE b - a + W
    BY GapIs
  <2> QED
    BY <1>0, <1>1, <2>1, <2>2 DEF Index
<1>3. s \in Seq(S) /\ Len(s) = Gap(W, b, a) /\ \A k \in 1 .. Gap(W, b, a) : s[k] = f[Slot(N, a + k - 1)]
  <2>1. Spells(N, s, S, f, a, Gap(W, b, a))
    BY CellsAre
  <2> QED
    BY <2>1 DEF Spells
<1>4. t \in Seq(S) /\ Len(t) = Gap(W, b1, a) /\ \A k \in 1 .. Gap(W, b1, a) : t[k] = f[Slot(N, a + k - 1)]
  <2>1. Spells(N, t, S, f, a, Gap(W, b1, a))
    BY <1>1, CellsAre
  <2> QED
    BY <2>1 DEF Spells
<1> HIDE DEF s, t
<1>5. s # << >>
  BY <1>2, <1>3
<1>6. PICK u : u = SubSeq(s, 1, Len(s) - 1)
  BY Zenon
<1>7. u \in Seq(S) /\ Len(u) = Len(s) - 1 /\ \A k \in 1 .. (Len(s) - 1) : u[k] = s[k]
  BY <1>2, <1>3, <1>6
<1>8. Len(t) = Len(u) /\ \A k \in 1 .. Len(t) : t[k] = u[k]
  <2>1. Len(t) = Len(u)
    BY <1>2, <1>3, <1>4, <1>7
  <2> SUFFICES ASSUME NEW k \in 1 .. Len(t) PROVE t[k] = u[k]
    BY <2>1
  <2>2. k \in 1 .. Gap(W, b1, a) /\ k \in 1 .. Gap(W, b, a) /\ k \in 1 .. (Len(s) - 1)
    BY <1>2, <1>3, <1>4
  <2> QED
    BY <1>3, <1>4, <1>7, <2>2
<1>9. t = u
  BY <1>4, <1>7, <1>8, SameSequence, Zenon
<1> QED
  BY <1>5, <1>6, <1>9 DEF b1, s, t

(* g is f with c in cell x.                                                *)
Differs(N, g, f, x, c) == g[x] = c /\ \A i \in Cell(N) : i # x => g[i] = f[i]

(* Storing keeps what the ring holds and adds an element at its end.       *)
LEMMA StoreCells ==
    ASSUME NEW N, NEW W, Fits(N, W), NEW S, NEW f \in Rings(N, S),
           NEW a \in Index(W), NEW b \in Index(W),
           Gap(W, b, a) < N, NEW c \in S, NEW g \in Rings(N, S),
           Differs(N, g, f, Slot(N, b), c)
    PROVE  Cells(N, W, g, a, (b + 1) % W) = Append(Cells(N, W, f, a, b), c)
<1> DEFINE b1 == (b + 1) % W
           s == Cells(N, W, f, a, b)
           v == Cells(N, W, g, a, b1)
<1>0. a \in Nat /\ b \in Nat /\ W \in Nat /\ N \in Nat /\ W > N
  BY DEF Index, Fits
<1>1. b1 \in Index(W) /\ b1 = IF b = W - 1 THEN 0 ELSE b + 1
  BY IncIs
<1> HIDE DEF b1
<1>2. Gap(W, b1, a) = Gap(W, b, a) + 1 /\ Gap(W, b, a) \in Nat
  <2>1. Gap(W, b1, a) = IF b1 >= a THEN b1 - a ELSE b1 - a + W
    BY <1>1, GapIs
  <2>2. Gap(W, b, a) = IF b >= a THEN b - a ELSE b - a + W
    BY GapIs
  <2>3. Gap(W, b, a) \in Nat /\ Gap(W, b, a) < W - 1
    BY <1>0, GapType
  <2> QED
    BY <1>0, <1>1, <2>1, <2>2, <2>3 DEF Index
<1>3. g \in Rings(N, S) /\ g[Slot(N, b)] = c /\ \A i \in Cell(N) : i # Slot(N, b) => g[i] = f[i]
  BY DEF Differs
<1>4. s \in Seq(S) /\ Len(s) = Gap(W, b, a) /\ \A k \in 1 .. Gap(W, b, a) : s[k] = f[Slot(N, a + k - 1)]
  <2>1. Spells(N, s, S, f, a, Gap(W, b, a))
    BY CellsAre
  <2> QED
    BY <2>1 DEF Spells
<1>5. v \in Seq(S) /\ Len(v) = Gap(W, b1, a) /\ \A k \in 1 .. Gap(W, b1, a) : v[k] = g[Slot(N, a + k - 1)]
  <2>1. Spells(N, v, S, g, a, Gap(W, b1, a))
    BY <1>1, <1>3, CellsAre
  <2> QED
    BY <2>1 DEF Spells
<1> HIDE DEF s, v
<1>6. \A k \in 1 .. Gap(W, b, a) : g[Slot(N, a + k - 1)] = f[Slot(N, a + k - 1)]
  <2> SUFFICES ASSUME NEW k \in 1 .. Gap(W, b, a) PROVE g[Slot(N, a + k - 1)] = f[Slot(N, a + k - 1)]
    OBVIOUS
  <2>1. a + k - 1 \in Nat
    BY <1>0, <1>2
  <2>2. Slot(N, a + k - 1) \in Cell(N) /\ Slot(N, a + k - 1) # Slot(N, b)
    BY <2>1, SlotOfIndex, StoreIsFree
  <2> QED
    BY <1>3, <2>2
<1>7. v = Append(s, c)
  <2>1. PICK u : u = Append(s, c)
    BY Zenon
  <2>2. u \in Seq(S) /\ Len(u) = Len(s) + 1 /\ (\A k \in 1 .. Len(s) : u[k] = s[k]) /\ u[Len(s) + 1] = c
    BY <1>4, <2>1
  <2>3. \A k \in 1 .. Gap(W, b, a) : v[k] = u[k]
    <3> SUFFICES ASSUME NEW k \in 1 .. Gap(W, b, a) PROVE v[k] = u[k]
      OBVIOUS
    <3>1. k \in 1 .. Gap(W, b1, a) /\ k \in 1 .. Len(s)
      BY <1>2, <1>4
    <3>2. v[k] = g[Slot(N, a + k - 1)] /\ s[k] = f[Slot(N, a + k - 1)] /\ u[k] = s[k]
      BY <1>4, <1>5, <2>2, <3>1
    <3> QED
      BY <1>6, <3>2
  <2>4. v[Gap(W, b, a) + 1] = u[Gap(W, b, a) + 1]
    <3>1. a + (Gap(W, b, a) + 1) - 1 = a + Gap(W, b, a) + 0 /\ b + 0 = b /\ Gap(W, b, a) + 1 \in 1 .. Gap(W, b1, a)
      BY <1>0, <1>2
    <3>2. Slot(N, a + Gap(W, b, a) + 0) = Slot(N, b + 0)
      BY CellFrom
    <3>3. v[Gap(W, b, a) + 1] = g[Slot(N, a + (Gap(W, b, a) + 1) - 1)]
      BY <1>5, <3>1
    <3> QED
      BY <1>3, <1>4, <2>2, <3>1, <3>2, <3>3
  <2>5. Len(v) = Len(u)
    BY <1>2, <1>4, <1>5, <2>2
  <2>6. \A k \in 1 .. Len(v) : k \in 1 .. Gap(W, b, a) \/ k = Gap(W, b, a) + 1
    BY <1>2, <1>5
  <2> QED
    BY <1>5, <2>1, <2>2, <2>3, <2>4, <2>5, <2>6, SameSequence, Zenon
<1> QED
  BY <1>7 DEF b1, s, v

(* What lies before the cell that is stored to stays as it is.             *)
LEMMA KeepCells ==
    ASSUME NEW N, NEW W, Fits(N, W), NEW S, NEW f \in Rings(N, S),
           NEW a \in Index(W), NEW b \in Index(W), NEW d \in Index(W),
           Gap(W, d, a) <= Gap(W, b, a), Gap(W, b, a) < N, NEW c,
           NEW g \in Rings(N, S), Differs(N, g, f, Slot(N, b), c)
    PROVE  Cells(N, W, g, a, d) = Cells(N, W, f, a, d)
<1> DEFINE s == Cells(N, W, f, a, d)
           t == Cells(N, W, g, a, d)
<1>1. Gap(W, d, a) \in Nat /\ Gap(W, b, a) \in Nat
  BY GapType
<1>2. a \in Nat
  BY DEF Index, Fits
<1>3. Spells(N, s, S, f, a, Gap(W, d, a)) /\ Spells(N, t, S, g, a, Gap(W, d, a))
  BY CellsAre
<1> HIDE DEF s, t
<1>4. \A k \in 1 .. Gap(W, d, a) : g[Slot(N, a + k - 1)] = f[Slot(N, a + k - 1)]
  <2> SUFFICES ASSUME NEW k \in 1 .. Gap(W, d, a) PROVE g[Slot(N, a + k - 1)] = f[Slot(N, a + k - 1)]
    OBVIOUS
  <2>1. a + k - 1 \in Nat /\ k \in 1 .. Gap(W, b, a)
    BY <1>1, <1>2
  <2>2. Slot(N, a + k - 1) \in Cell(N) /\ Slot(N, a + k - 1) # Slot(N, b)
    BY <2>1, SlotOfIndex, StoreIsFree
  <2> QED
    BY <2>2 DEF Differs
<1>5. \A k \in 1 .. Gap(W, d, a) : t[k] = s[k]
  BY <1>3, <1>4 DEF Spells
<1>6. s \in Seq(S) /\ t \in Seq(S) /\ Len(s) = Gap(W, d, a) /\ Len(t) = Gap(W, d, a)
  BY <1>3 DEF Spells
<1> QED
  BY <1>5, <1>6, SameSequence DEF s, t

(* Two stretches of the ring that meet are one.                            *)
LEMMA JoinCells ==
    ASSUME NEW N, NEW W, Fits(N, W), NEW S, NEW f \in Rings(N, S),
           NEW a \in Index(W), NEW b \in Index(W), NEW d \in Index(W),
           Gap(W, b, a) + Gap(W, d, b) = Gap(W, d, a)
    PROVE  Cells(N, W, f, a, d) = Cells(N, W, f, a, b) \o Cells(N, W, f, b, d)
<1> DEFINE s == Cells(N, W, f, a, b)
           t == Cells(N, W, f, b, d)
           v == Cells(N, W, f, a, d)
<1>0. a \in Nat /\ b \in Nat /\ Gap(W, b, a) \in Nat /\ Gap(W, d, b) \in Nat /\ Gap(W, d, a) \in Nat
  <2>1. Gap(W, b, a) \in Nat /\ Gap(W, d, b) \in Nat /\ Gap(W, d, a) \in Nat
    BY GapType
  <2> QED
    BY <2>1 DEF Index, Fits
<1>1. s \in Seq(S) /\ Len(s) = Gap(W, b, a) /\ \A k \in 1 .. Gap(W, b, a) : s[k] = f[Slot(N, a + k - 1)]
  <2>1. Spells(N, s, S, f, a, Gap(W, b, a))
    BY CellsAre
  <2> QED
    BY <2>1 DEF Spells
<1>2. t \in Seq(S) /\ Len(t) = Gap(W, d, b) /\ \A k \in 1 .. Gap(W, d, b) : t[k] = f[Slot(N, b + k - 1)]
  <2>1. Spells(N, t, S, f, b, Gap(W, d, b))
    BY CellsAre
  <2> QED
    BY <2>1 DEF Spells
<1>3. v \in Seq(S) /\ Len(v) = Gap(W, d, a) /\ \A k \in 1 .. Gap(W, d, a) : v[k] = f[Slot(N, a + k - 1)]
  <2>1. Spells(N, v, S, f, a, Gap(W, d, a))
    BY CellsAre
  <2> QED
    BY <2>1 DEF Spells
<1> HIDE DEF s, t, v
<1>4. PICK u : u = s \o t
  BY Zenon
<1>5. /\ u \in Seq(S) /\ Len(u) = Len(s) + Len(t)
      /\ \A k \in 1 .. Len(u) : u[k] = IF k <= Len(s) THEN s[k] ELSE t[k - Len(s)]
  BY <1>1, <1>2, <1>4, Joined
<1>6. \A k \in 1 .. Len(v) : v[k] = u[k]
  <2> SUFFICES ASSUME NEW k \in 1 .. Len(v) PROVE v[k] = u[k]
    OBVIOUS
  <2>0. k \in 1 .. Gap(W, d, a) /\ k \in 1 .. Len(u)
    BY <1>0, <1>1, <1>2, <1>3, <1>5
  <2>1. CASE k <= Gap(W, b, a)
    <3>1. k \in 1 .. Gap(W, b, a)
      BY <1>0, <2>0, <2>1
    <3>2. u[k] = s[k]
      BY <1>0, <1>1, <1>5, <2>0, <2>1
    <3> QED
      BY <1>1, <1>3, <2>0, <3>1, <3>2
  <2>2. CASE k > Gap(W, b, a)
    <3>1. PICK j \in Nat : j = k - Gap(W, b, a) - 1
      BY <1>0, <2>0, <2>2
    <3>2. Slot(N, a + Gap(W, b, a) + j) = Slot(N, b + j)
      BY CellFrom
    <3>3. a + Gap(W, b, a) + j = a + k - 1 /\ b + j = b + (k - Gap(W, b, a)) - 1
      BY <1>0, <2>0, <3>1
    <3>4. k - Gap(W, b, a) \in 1 .. Gap(W, d, b)
      BY <1>0, <2>0, <2>2
    <3>5. u[k] = t[k - Gap(W, b, a)]
      BY <1>0, <1>1, <1>5, <2>0, <2>2
    <3>6. t[k - Gap(W, b, a)] = f[Slot(N, b + (k - Gap(W, b, a)) - 1)]
      BY <1>2, <3>4
    <3> QED
      BY <1>3, <2>0, <3>2, <3>3, <3>5, <3>6
  <2> QED
    BY <1>0, <2>0, <2>1, <2>2
<1>7. Len(v) = Len(u)
  BY <1>1, <1>2, <1>3, <1>5
<1> QED
  BY <1>3, <1>4, <1>5, <1>6, <1>7, SameSequence, Zenon DEF s, t, v
=============================================================================
