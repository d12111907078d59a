-------------------------------- MODULE Lib --------------------------------
(* The pure functions the kernel and the C library share: kernel/lib         *)
(* string.c, print_impl.c, qsort_impl.c, div64.c, cbuffer.c and the early    *)
(* buffer of printk.c, each as an operator with the code's loops, compared   *)
(* with what it is meant to compute. One step is one call: `lib` holds the   *)
(* function, its arguments and its result.                                   *)
(*                                                                           *)
(* Characters are their codes. Pointers are indices into one array, from 0   *)
(* as in the code. "wild" marks a result that rests on memory outside of the *)
(* arguments.                                                                *)
EXTENDS Integers, Sequences, FiniteSets, TLC, SequencesExt
CONSTANTS Strings,      \* arrays with a terminator
          Arrays,       \* arrays to copy and to sort
          WordBytes,    \* sizeof(size_t)
          Bits,         \* width of a long long
          MaxDigits,    \* MAX_LEN of print_impl.c
          Formats,      \* format strings
          RingBytes     \* capacity of the circular buffer
VARIABLES lib
NoCall == [f |-> "none"]

ByteAt(s, i) == s[i + 1]
MinOf2(a, b) == IF a < b THEN a ELSE b

(***************************************************************************)
(* string.c                                                                *)
(***************************************************************************)
RECURSIVE CopyUp(_, _, _, _), CopyDown(_, _, _, _), SetBytes(_, _, _)
CopyUp(m, dst, src, n) == IF n = 0 THEN m
  ELSE CopyUp([m EXCEPT ![dst + 1] = ByteAt(m, src)], dst + 1, src + 1, n - 1)
CopyDown(m, dst, src, n) == IF n = 0 THEN m
  ELSE CopyDown([m EXCEPT ![dst + n] = ByteAt(m, src + n - 1)], dst, src, n - 1)

Memmove(m, dst, src, n) == IF src > dst THEN CopyUp(m, dst, src, n) ELSE CopyDown(m, dst, src, n)

SetBytes(m, pos, n) == IF n = 0 THEN m ELSE SetBytes([m EXCEPT ![pos + 1] = 7], pos + 1, n - 1)

\* Bytes up to a word's boundary, whole words, the remaining bytes.
Memset(m, dst, n) ==
  LET lead == MinOf2(n, (WordBytes - (dst % WordBytes)) % WordBytes)
      words == (n - lead) \div WordBytes
      m1 == SetBytes(m, dst, lead)
      m2 == SetBytes(m1, dst + lead, words * WordBytes) IN
  SetBytes(m2, dst + lead + (words * WordBytes), (n - lead) % WordBytes)

RECURSIVE Strnlen(_, _, _), Strncmp(_, _, _, _), Strncpy(_, _, _, _), Match(_, _, _, _), Number(_, _, _, _)
Strnlen(s, n, max) == IF max = 0 \/ ByteAt(s, n) = 0 THEN n ELSE Strnlen(s, n + 1, max - 1)
Strlen(s) == Strnlen(s, 0, Len(s))

Strncmp(a, b, i, n) ==
  IF n = 0 THEN 0
  ELSE IF ByteAt(a, i) # 0 /\ ByteAt(a, i) = ByteAt(b, i) THEN Strncmp(a, b, i + 1, n - 1)
  ELSE ByteAt(a, i) - ByteAt(b, i)

Strcmp(a, b) == Strncmp(a, b, 0, Len(a))
Memcmp(a, b, n) == LET S == {i \in 0..(n - 1) : ByteAt(a, i) # ByteAt(b, i)} IN
  IF S = {} THEN 0 ELSE LET i == CHOOSE i \in S : \A j \in S : i <= j IN ByteAt(a, i) - ByteAt(b, i)
FirstAt(s, c, n) == LET S == {i \in 0..(n - 1) : ByteAt(s, i) = c} IN
                    IF S = {} THEN -1 ELSE CHOOSE i \in S : \A j \in S : i <= j
Memchr(s, c, n) == FirstAt(s, c, n)
Strchr(s, c) == FirstAt(s, c, Strlen(s))      \* never the terminator

\* Copies up to and with the terminator, then fills with zeros.
Strncpy(d, s, i, n) ==
  IF n = 0 THEN d
  ELSE LET c == ByteAt(s, i)
           e == [d EXCEPT ![i + 1] = c] IN
       IF c = 0 THEN [k \in DOMAIN d |-> IF k > i + 1 /\ k <= i + n THEN 0 ELSE e[k]]
       ELSE Strncpy(e, s, i + 1, n - 1)

SafeStrcpy(d, s, n) == LET r == Strncpy(d, s, 0, n) IN IF n > 0 THEN [r EXCEPT ![n] = 0] ELSE r

Strrchr(s, c) == LET S == {i \in 0..Strlen(s) : ByteAt(s, i) = c} IN
                 IF S = {} THEN -1 ELSE CHOOSE i \in S : \A j \in S : j <= i

Strspn(s, accept) ==
  LET chars == {ByteAt(accept, i) : i \in 0..(Strlen(accept) - 1)}
      S == {i \in 0..Strlen(s) : ByteAt(s, i) \notin chars} IN CHOOSE i \in S : \A j \in S : i <= j

\* The loop of strstr() has no test for the terminators: when both strings end
\* together it goes on with what lies behind them.
Match(hay, pin, i, j) ==
  IF ByteAt(hay, i) # ByteAt(pin, j) THEN (IF ByteAt(pin, j) = 0 THEN "found" ELSE "no")
  ELSE IF ByteAt(pin, j) = 0 THEN "wild" ELSE Match(hay, pin, i + 1, j + 1)

Strstr(hay, pin) ==
  LET S == {i \in 0..(Strlen(hay) - 1) : Match(hay, pin, i, 0) # "no"}
      i == CHOOSE i \in S : \A j \in S : i <= j IN
  IF S = {} THEN -1 ELSE IF Match(hay, pin, i, 0) = "wild" THEN -2 ELSE i

Minus == 45
Space == 32
ZeroChar == 48
IsSpace(c) == c \in (9..13) \cup {Space}
Number(s, i, base, n) == IF ByteAt(s, i) \in ZeroChar..(ZeroChar + base - 1)
                         THEN Number(s, i + 1, base, (n * base) + ByteAt(s, i) - ZeroChar)
                         ELSE [n |-> n, end |-> i]

\* The number and *endptr, which stays as it was (-1) for a base above ten.
Strtoll(s, base) ==
  LET S == {i \in 0..(Len(s) - 1) : ~IsSpace(ByteAt(s, i))}
      i == CHOOSE i \in S : \A j \in S : i <= j
      r == Number(s, IF ByteAt(s, i) \in {Minus, 43} THEN i + 1 ELSE i, base, 0) IN
  IF base \notin 2..10 THEN [n |-> 0, end |-> -1]
  ELSE IF ByteAt(s, i) = Minus THEN [r EXCEPT !.n = 0 - @] ELSE r

(***************************************************************************)
(* qsort_impl.c, on elements instead of bytes: lo..(hi - 1) is sorted.     *)
(***************************************************************************)
SwapBytes(a, i, j) == [a EXCEPT ![i + 1] = ByteAt(a, j), ![j + 1] = ByteAt(a, i)]

RotateThree(a, i, j, k) == [a EXCEPT ![i + 1] = ByteAt(a, k), ![k + 1] = ByteAt(a, j), ![j + 1] = ByteAt(a, i)]

RECURSIVE FromLeft(_), FromRight(_), QsPartition(_, _, _)
FromLeft(q) ==
  IF q.left >= q.pl \/ ByteAt(q.a, q.left) > ByteAt(q.a, q.pl) THEN FromRight(q)
  ELSE IF ByteAt(q.a, q.left) = ByteAt(q.a, q.pl)
       THEN FromLeft([q EXCEPT !.pl = @ - 1, !.a = SwapBytes(q.a, q.left, q.pl - 1)])
       ELSE FromLeft([q EXCEPT !.left = @ + 1])

FromRight(q) ==
  IF q.right > q.ph THEN
    IF ByteAt(q.a, q.ph) = ByteAt(q.a, q.right) 
         THEN FromRight([q EXCEPT !.ph = @ + 1, !.a = SwapBytes(q.a, q.ph + 1, q.right)])
    ELSE IF ByteAt(q.a, q.ph) < ByteAt(q.a, q.right) THEN FromRight([q EXCEPT !.right = @ - 1])
    ELSE IF q.left = q.pl
         THEN FromRight([q EXCEPT !.ph = @ + 1, !.pl = @ + 1, !.left = q.pl + 1,
                                  !.a = RotateThree(q.a, q.left, q.ph + 1, q.right)])
         ELSE FromLeft([q EXCEPT !.left = @ + 1, !.right = @ - 1, !.a = SwapBytes(q.a, q.left, q.right)])
  ELSE IF q.left = q.pl THEN q
  ELSE FromLeft([q EXCEPT !.pl = @ - 1, !.ph = @ - 1, !.right = q.ph - 1,
                          !.a = RotateThree(q.a, q.right, q.pl - 1, q.left)])

QsPartition(a, lo, hi) ==
  IF hi - lo <= 1 THEN a
  ELSE LET mid == lo + ((hi - lo) \div 2)
           q == FromLeft([a |-> a, pl |-> mid, ph |-> mid, left |-> lo, right |-> hi - 1]) IN
       IF q.pl - lo >= hi - q.ph
       THEN QsPartition(QsPartition(q.a, q.ph + 1, hi), lo, q.pl)
       ELSE QsPartition(QsPartition(q.a, lo, q.pl), q.ph + 1, hi)

(***************************************************************************)
(* div64.c, on Bits bits.                                                  *)
(***************************************************************************)
RECURSIVE DivU64(_, _, _, _, _)
DivU64(n, d, i, quot, rem) ==
  IF i < 0 THEN <<quot, rem>>
  ELSE LET r == ((2 * rem) % (2^Bits)) + ((n \div (2^i)) % 2) IN
       IF r >= d THEN DivU64(n, d, i - 1, quot + (2^i), r - d) ELSE DivU64(n, d, i - 1, quot, r)

RECURSIVE Div64(_, _)

\* What div_64() makes of the division of -n.
BelowZero(q, d) == IF q[2] = 0 THEN <<0 - q[1], 0>> ELSE <<0 - q[1] - 1, d - q[2]>>

Div64(n, d) == IF d < 0 THEN LET q == Div64(n, 0 - d) IN <<0 - q[1], q[2]>>
               ELSE IF n < 0 THEN BelowZero(Div64(0 - n, d), d)
               ELSE DivU64(n, d, Bits - 1, 0, 0)

(***************************************************************************)
(* print_impl.c                                                            *)
(***************************************************************************)
RECURSIVE Digits(_, _, _)
UpperA == 65
DigitChar(d) == IF d <= 9 THEN d + ZeroChar ELSE d - 10 + UpperA
Digits(v, base, max) == IF max = 0 THEN <<>> ELSE IF v < base THEN <<DigitChar(v)>>
                        ELSE Append(Digits(v \div base, base, max - 1), DigitChar(v % base))
Pad(c, n) == [i \in 1..(IF n > 0 THEN n ELSE 0) |-> c]

PrintUnsigned(v, base, padding, c) == LET d == Digits(v, base, MaxDigits) IN
                                      Pad(c, padding - Len(d)) \o d
PrintHex(v, padding, c) == PrintUnsigned(v, 16, padding, c)
PrintOctal(v, padding, c) == PrintUnsigned(v, 8, padding, c)

\* A zero-padded number: the sign comes first and counts.
ZeroPad(d, padding) == Pad(ZeroChar, padding - Len(d) - 1)

PrintSigned(v, padding, c) ==
  IF v >= 0 THEN PrintUnsigned(v, 10, padding, c)
  ELSE LET d == Digits(0 - v, 10, MaxDigits) IN
       IF c = Space THEN Pad(Space, padding - Len(d) - 1) \o <<Minus>> \o d
       ELSE <<Minus>> \o ZeroPad(d, padding) \o d

\* print_impl(): what a format string asks for, each item a character or a
\* conversion with its padding. A width with a digit 9 in front is not seen.
Tens(p1, c) == (p1 * 10) + c - ZeroChar

RECURSIVE PrintImpl(_, _, _)
Percent == 37
Letters == {100, 105, 117, 120, 88, 112, 115, 99, 111}       \* d i u x X p s c o
Mod_l == 108
Mod_L == 76
Mod_z == 122
Skip(f, i, c) == IF i < Len(f) /\ ByteAt(f, i) = c THEN i + 1 ELSE i
LengthMod(f, i, j) == IF j > i /\ ByteAt(f, j - 1) = Mod_z THEN 1
                      ELSE IF j > i /\ ByteAt(f, j - 1) = Mod_L THEN 2 ELSE j - i
WidthDigit(f, i) == i < Len(f) /\ ByteAt(f, i) \in ZeroChar..(ZeroChar + 8)
Conv(c, padding, pc, length) == <<"conv", c, padding, pc, length>>
PrintImpl(f, i, out) ==
  IF i >= Len(f) THEN out
  ELSE IF ByteAt(f, i) # Percent THEN PrintImpl(f, i + 1, Append(out, <<"char", ByteAt(f, i)>>))
  ELSE LET zero == WidthDigit(f, i + 1) /\ ByteAt(f, i + 1) = ZeroChar
           k == IF zero THEN i + 2 ELSE i + 1      \* the first digit of the width
           wide == WidthDigit(f, i + 1)
           p1 == IF wide /\ k < Len(f) /\ ByteAt(f, k) \in ZeroChar..(ZeroChar + 9) THEN ByteAt(f, k) - ZeroChar ELSE 0
           k1 == IF wide THEN k + 1 ELSE k
           two == wide /\ WidthDigit(f, k1)
           p == IF two THEN Tens(p1, ByteAt(f, k1)) ELSE p1
           k2 == IF two THEN k1 + 1 ELSE k1
           k3 == Skip(f, Skip(f, Skip(f, Skip(f, k2, Mod_l), Mod_l), Mod_L), Mod_z)
           pc == IF zero THEN ZeroChar ELSE Space IN
       IF k2 >= Len(f) THEN out
       ELSE IF k3 >= Len(f) THEN Append(out, "wild")    \* goes on behind the terminator
       ELSE PrintImpl(f, k3 + 1, IF ByteAt(f, k3) \in Letters
                                 THEN Append(out, Conv(ByteAt(f, k3), p, pc, LengthMod(f, k2, k3))) ELSE out)

Terminate(n, len) == IF len >= n THEN n - 1 ELSE len

\* vsnprintf() of the text into n bytes of dst.
Vsnprintf(dst, n, text) ==
  LET d == [k \in DOMAIN dst |-> IF k <= MinOf2(n, Len(text)) THEN text[k] ELSE dst[k]]
      t == Terminate(n, Len(text)) IN
  IF n = 0 THEN dst ELSE IF t + 1 \in DOMAIN d THEN [d EXCEPT ![t + 1] = 0] ELSE <<>>

(***************************************************************************)
(* cbuffer.c                                                               *)
(***************************************************************************)
CbufferInit == [buf |-> [i \in 0..(RingBytes - 1) |-> 0], head |-> 0, tail |-> 0]

Overwritten(cb, next) == IF next = cb.tail THEN (cb.tail + 1) % RingBytes ELSE cb.tail

CbufferWrite(cb, c) == LET next == (cb.head + 1) % RingBytes IN
  [buf |-> [cb.buf EXCEPT ![cb.head] = c], head |-> next, tail |-> Overwritten(cb, next)]

CbufferAvailableData(cb) == IF cb.head >= cb.tail THEN cb.head - cb.tail
                            ELSE RingBytes - (cb.tail - cb.head)

CbufferRead(cb) == [i \in 1..CbufferAvailableData(cb) |-> cb.buf[(cb.tail + i - 1) % RingBytes]]

\* printk_redirect_to_console(): what was kept is read into a buffer on the
\* stack and printed as a string. Nothing terminates it: `junk` is what the rest
\* of that buffer holds, and "wild" says that no byte of it was zero.
RedirectToConsole(text, junk) ==
  LET cb == FoldLeft(CbufferWrite, CbufferInit, text)
      temp == CbufferRead(cb) \o SubSeq(junk, CbufferAvailableData(cb) + 1, RingBytes)
      zeros == {k \in 1..RingBytes : temp[k] = 0}
      len == IF zeros = {} THEN RingBytes ELSE (CHOOSE k \in zeros : \A l \in zeros : k <= l) - 1 IN
  [text |-> SubSeq(temp, 1, len), wild |-> zeros = {},
   lost |-> RingBytes - CbufferAvailableData(cb) - 1 = 0]

(***************************************************************************)
(* The calls.                                                              *)
(***************************************************************************)
Idx(a) == 0..(Len(a) - 1)
CallMem == \E m \in Arrays : \E dst \in Idx(m), src \in Idx(m), n \in 0..Len(m) :
  \/ /\ dst + n <= Len(m) /\ src + n <= Len(m)
     /\ lib' = [f |-> "memmove", m |-> m, dst |-> dst, src |-> src, n |-> n, r |-> Memmove(m, dst, src, n)]
  \/ /\ dst + n <= Len(m) /\ src = 0
     /\ lib' = [f |-> "memset", m |-> m, dst |-> dst, n |-> n, r |-> Memset(m, dst, n)]

CallStr == \E a \in Strings, b \in Strings : \E n \in 0..Len(b) :
  lib' = [f |-> "str", a |-> a, b |-> b, n |-> n, len |-> Strnlen(b, 0, n), cmp |-> Strncmp(a, b, 0, n),
          cpy |-> SafeStrcpy(a, b, n), last |-> Strrchr(a, ByteAt(b, 0)), first |-> Strchr(a, ByteAt(b, 0)),
          same |-> Strcmp(a, b), bytes |-> Memcmp(a, b, n), chr |-> Memchr(b, 0, n), spn |-> Strspn(a, b), in |-> Strstr(a, b)]

CallSort == \E a \in Arrays : lib' = [f |-> "qsort", a |-> a, r |-> QsPartition(a, 0, Len(a))]

\* __divdi3() and __moddi3() return one of the two, and __udivdi3() and
\* __umoddi3(). The most negative number recurses without end and is left out.
CallDiv == LET most == (2^(Bits - 1)) - 1 IN
  \/ \E n \in (0 - most)..most, d \in ((0 - most)..most) \ {0} : lib' = [f |-> "div", n |-> n, d |-> d, r |-> Div64(n, d)]
  \/ \E n \in 0..((2^Bits) - 1), d \in 1..((2^Bits) - 1) :
       lib' = [f |-> "udiv", n |-> n, d |-> d, r |-> DivU64(n, d, Bits - 1, 0, 0)]

\* What is wider than MAX_LEN, sign and padding included, is written in front of
\* the buffer by the code: numbers and widths stay within it here.
CallPrint == \E v \in (1 - (10^(MaxDigits - 1)))..((10^MaxDigits) - 1), p \in 0..MaxDigits, c \in {Space, ZeroChar} :
  lib' = [f |-> "print", v |-> v, p |-> p, c |-> c, r |-> PrintSigned(v, p, c),
          n |-> Strtoll(Append(PrintSigned(v, p, c), 0), 10),
          oct |-> IF v < 8^MaxDigits /\ v >= 0 THEN Strtoll(Append(PrintOctal(v, p, c), 0), 8).n ELSE v,
          hex |-> IF v >= 0 THEN PrintHex(v, p, c) ELSE <<>>]

CallFormat == \E f \in Formats : lib' = [f |-> "format", in |-> f, r |-> PrintImpl(f, 0, <<>>)]

CallVsnprintf == \E d \in Arrays, text \in Arrays : \E n \in 0..Len(d) :
  lib' = [f |-> "vsnprintf", dst |-> d, text |-> text, n |-> n, r |-> Vsnprintf(d, n, text)]

CallEarly == \E t \in Arrays, u \in Arrays, junk \in [1..RingBytes -> {0, 1}] : LET text == t \o u IN
  lib' = [f |-> "early", text |-> text, junk |-> junk, r |-> RedirectToConsole(text, junk)]

LibInit == lib = NoCall
LibNext == lib = NoCall /\ (CallMem \/ CallStr \/ CallSort \/ CallDiv \/ CallPrint \/ CallFormat \/ CallVsnprintf \/ CallEarly)
LibSpec == LibInit /\ [][LibNext]_lib

(***************************************************************************)
(* Properties.                                                             *)
(***************************************************************************)
(* memmove() moves what was there before the call although source and target   *)
(* overlap, and memset() touches exactly the n bytes, whatever the alignment.  *)
MovesAndSets ==
  /\ lib.f = "memmove" => lib.r = [k \in DOMAIN lib.m |->
       IF k - 1 \in lib.dst..(lib.dst + lib.n - 1) THEN lib.m[k - lib.dst + lib.src] ELSE lib.m[k]]
  /\ lib.f = "memset" => lib.r = [k \in DOMAIN lib.m |->
       IF k - 1 \in lib.dst..(lib.dst + lib.n - 1) THEN 7 ELSE lib.m[k]]

Text(s) == SubSeq(s, 1, Strlen(s))
Prefix(s, n) == SubSeq(s, 1, MinOf2(n, Len(s)))
(* The string functions agree with each other and with what their names say:   *)
(* strncmp() is zero exactly for equal prefixes, safestrcpy() terminates,      *)
(* strstr() finds the first occurrence, unless that is at the very end.        *)
StringsAgree ==
  lib.f = "str" =>
    LET a == Text(lib.a)
        b == Text(lib.b)
        occurs == {i \in 0..(Len(a) - 1) : i + Len(b) <= Len(a) /\ SubSeq(a, i + 1, i + Len(b)) = b} IN
    /\ lib.len = MinOf2(Len(b), lib.n)
    /\ (lib.cmp = 0) <=> (Prefix(a, lib.n) = Prefix(b, lib.n))
    /\ lib.n > 0 => Text(lib.cpy) = Prefix(b, lib.n - 1)
    /\ \A k \in DOMAIN lib.a : k > lib.n => lib.cpy[k] = lib.a[k]
    /\ lib.last >= 0 => ByteAt(lib.a, lib.last) = ByteAt(lib.b, 0) /\ \A k \in (lib.last + 1)..Len(a) : ByteAt(lib.a, k) # ByteAt(lib.b, 0)
    /\ (lib.first = -1) <=> (b = <<>> \/ lib.last = -1)
    /\ lib.first >= 0 => lib.first <= lib.last /\ lib.first = FirstAt(lib.a, ByteAt(lib.b, 0), Len(lib.a))
    /\ (lib.same = 0) <=> (a = b)
    /\ lib.chr = IF lib.len < lib.n THEN lib.len ELSE -1
    /\ (lib.bytes = 0) <=> (SubSeq(lib.a, 1, lib.n) = SubSeq(lib.b, 1, lib.n))
    /\ lib.spn = Len(a) \/ ByteAt(lib.a, lib.spn) \notin Range(b)
    /\ CASE lib.in = -1 -> occurs = {}
         [] lib.in = -2 -> Len(a) - Len(b) \in occurs
         [] OTHER -> lib.in \in occurs /\ \A k \in occurs : lib.in <= k

(* qsort() returns its elements in ascending order, for every array with       *)
(* repeated elements, and terminates.                                          *)
Sorts == lib.f = "qsort" => lib.r = SortSeq(lib.a, <)

\* The quotient of C: rounded towards zero.
CQuotient(n, d) ==
  LET Abs(k) == IF k < 0 THEN 0 - k ELSE k
      q == Abs(n) \div Abs(d) IN IF (n < 0) = (d < 0) THEN q ELSE 0 - q

(* The division that the compiler calls on 32-bit machines gives a quotient    *)
(* and a remainder that belong together. They are those of C exactly when the  *)
(* dividend is not negative or there is no remainder: otherwise div_64() gives *)
(* a remainder that is positive and a quotient one further away from zero.     *)
(* The unsigned one is exact for divisors up to half of the range.             *)
Divides ==
  /\ lib.f = "div" => /\ lib.n = (lib.r[1] * lib.d) + lib.r[2]
                      /\ 0 <= lib.r[2] /\ lib.r[2] < (IF lib.d < 0 THEN 0 - lib.d ELSE lib.d)
                      /\ (lib.r[1] = CQuotient(lib.n, lib.d)) <=> (lib.n >= 0 \/ lib.r[2] = 0)
  /\ lib.f = "udiv" /\ lib.d <= 2^(Bits - 1) => lib.r = <<lib.n \div lib.d, lib.n % lib.d>>

HexValue(s) == FoldLeft(LAMBDA n, c : (n * 16) + (IF c >= UpperA THEN c - UpperA + 10
                                                  ELSE IF c = Space THEN 0 ELSE c - ZeroChar), 0, s)
(* A printed number is as wide as was asked and reads back as itself through   *)
(* strtoll(), with either padding, sign and base.                              *)
PrintsNumbers == lib.f = "print" => /\ lib.n = [n |-> lib.v, end |-> Len(lib.r)] /\ lib.oct = lib.v
                                    /\ lib.v >= 0 => HexValue(lib.hex) = lib.v /\ Len(lib.hex) >= lib.p
                                    /\ \/ Len(lib.r) = lib.p
                                       \/ Len(lib.r) > lib.p /\ lib.r = PrintSigned(lib.v, 0, Space)

(* vsnprintf() keeps to its n bytes, terminates, and cuts the text at its end. *)
CutsOutput == lib.f = "vsnprintf" =>
  /\ Len(lib.r) = Len(lib.dst)
  /\ lib.n > 0 => SubSeq(lib.r, 1, MinOf2(lib.n - 1, Len(lib.text)) + 1) = Append(Prefix(lib.text, lib.n - 1), 0)
  /\ \A k \in DOMAIN lib.dst : k > lib.n => lib.r[k] = lib.dst[k]

(* The early output is kept from its end backwards as far as there is room,    *)
(* and whenever something was dropped the console says so. What the console    *)
(* prints begins with it, but ends there only if the next byte of the          *)
(* uninitialised buffer is zero.                                               *)
EarlyOutputKept == lib.f = "early" =>
  LET n == MinOf2(Len(lib.text), RingBytes - 1)
      kept == SubSeq(lib.text, Len(lib.text) - n + 1, Len(lib.text)) IN
  /\ IsPrefix(kept, lib.r.text)
  /\ (lib.r.text = kept) <=> (lib.junk[n + 1] = 0)
  /\ Len(lib.text) > n => lib.r.lost

\* A width as the comment in print_impl() has it: an optional 0, then 1 to 99.
Wanted(f) == [zero |-> ByteAt(f, 1) = ZeroChar, width |-> Number(Append(f, 0), 1, 10, 0).n,
              length |-> Cardinality({k \in DOMAIN f : f[k] \in {Mod_l, Mod_z}})]

(* A number after % is the width of the conversion, with 0 in front the padding *)
(* is zeroes, as long as no digit is 9 (the code tests for < '9'); a format     *)
(* that ends in a length modifier is read beyond its end.                       *)
WidthsBelowNine ==
  lib.f = "format" /\ (\A k \in DOMAIN lib.in : lib.in[k] # ZeroChar + 9) =>
    LET f == lib.in
        w == Wanted(f) IN
    lib.r = IF f[Len(f)] = Mod_l THEN <<"wild">>
            ELSE <<Conv(f[Len(f)], w.width, IF w.zero THEN ZeroChar ELSE Space, w.length)>>
-----------------------------------------------------------------------------
(* The parts of the C library that keep state: the memory allocator          *)
(* (usr/lib/libc/stdlib_malloc.c) and buffered streams (stdio_impl.c).       *)
(*                                                                           *)
(* The heap is counted in headers, from 1; address 0 is g_base_pointer. The  *)
(* first unit of a block is its header. mem holds what the program wrote:    *)
(* every unit of block b behind the header is filled with b.                 *)
CONSTANTS HeapUnits,      \* sbrk() fails above
          CoreUnits,      \* the least morecore() asks for
          HeaderBytes,    \* sizeof(Header)
          MaxRequest,     \* largest argument of malloc(), in bytes
          HeapBlocks,     \* names of the blocks a program holds
          Content,        \* the file a stream reads
          NewLine,        \* among its bytes
          MaxLine         \* largest buffer for fgets() and fread()
VARIABLES heap,     \* headers (link, size), g_free_pointer, end of the heap
          blocks,   \* block -> address its memory starts at, or 0
          mem,      \* unit -> block whose data is there, or 0
          foreign,  \* units the program took with sbrk() itself
          stream    \* a FILE, its descriptor's offset and the last call
heapVars == <<heap, blocks, mem, foreign>>
libcVars == <<heap, blocks, mem, foreign, stream>>

NULL == 0 - 1
MAGIC_VALUE == 0 - 2

(***************************************************************************)
(* stdlib_malloc.c. A heap h is a record: the operators give the new one.  *)
(***************************************************************************)
\* The free block in front of bp, or the last one of the list.
RECURSIVE FreePlace(_, _, _)
FreePlace(h, p, bp) ==
  LET next == h.link[p] IN
  IF \/ bp > p /\ bp < next
     \/ p >= next /\ (bp > p \/ bp < next)
  THEN p ELSE FreePlace(h, next, bp)

\* Fault: a block is not joined with the one behind it.
JoinNext_never(h, p, bp) == [h EXCEPT !.link[bp] = h.link[p]]

JoinNext(h, p, bp) ==
  LET next == h.link[p] IN
  IF bp + h.size[bp] = next
  THEN [h EXCEPT !.size[bp] = @ + h.size[next], !.link[bp] = h.link[next]]
  ELSE [h EXCEPT !.link[bp] = next]

JoinPrev(h, p, bp) ==
  IF p + h.size[p] = bp
  THEN [h EXCEPT !.size[p] = @ + h.size[bp], !.link[p] = h.link[bp]]
  ELSE [h EXCEPT !.link[p] = bp]

FreeBlock(h, bp) ==
  LET p == FreePlace(h, h.fp, bp) IN
  IF h.link[bp] # MAGIC_VALUE THEN h
  ELSE [JoinPrev(JoinNext(h, p, bp), p, bp) EXCEPT !.fp = p]

Morecore(h, units) ==
  LET nu == IF units < CoreUnits THEN CoreUnits ELSE units
      hp == h.brk IN
  IF hp + nu > HeapUnits + 1 THEN [ok |-> FALSE, h |-> h]
  ELSE [ok |-> TRUE, h |-> FreeBlock([h EXCEPT !.brk = @ + nu, !.size[hp] = nu, !.link[hp] = MAGIC_VALUE], hp)]

\* The tail of a larger block is handed out.
TakeFrom(h, prev, p, units) ==
  LET rest == h.size[p] - units
      a == p + rest
      g == IF rest = 0 THEN [h EXCEPT !.link[prev] = h.link[p]]
           ELSE [h EXCEPT !.size[p] = rest, !.size[a] = units] IN
  [h |-> [g EXCEPT !.fp = prev, !.link[a] = MAGIC_VALUE], at |-> a + 1]

RECURSIVE FirstFit(_, _, _, _)
FirstFit(h, prev, p, units) ==
  IF h.size[p] >= units THEN TakeFrom(h, prev, p, units)
  ELSE IF p # h.fp THEN FirstFit(h, p, h.link[p], units)
  ELSE LET more == Morecore(h, units) IN
       IF ~more.ok THEN [h |-> h, at |-> NULL]
       ELSE FirstFit(more.h, more.h.fp, more.h.link[more.h.fp], units)

Units(bytes) == ((bytes + HeaderBytes - 1) \div HeaderBytes) + 1

MallocIn(h, bytes) ==
  LET g == IF h.fp = NULL THEN [h EXCEPT !.fp = 0, !.link[0] = 0, !.size[0] = 0] ELSE h IN
  FirstFit(g, g.fp, g.link[g.fp], Units(bytes))

\* What the program fills, up to the bytes it asked for.
DataUnits(at, bytes) == at..(at + ((bytes + HeaderBytes - 1) \div HeaderBytes) - 1)
Fill(m, S, b) == [u \in DOMAIN m |-> IF u \in S THEN b ELSE m[u]]

Malloc(b) ==
  /\ blocks[b].at = 0
  /\ \E bytes \in 1..MaxRequest :
       LET r == MallocIn(heap, bytes) IN
       /\ heap' = r.h
       /\ blocks' = IF r.at = NULL THEN blocks ELSE [blocks EXCEPT ![b] = [at |-> r.at, bytes |-> bytes]]
       /\ mem' = IF r.at = NULL THEN mem ELSE Fill(mem, DataUnits(r.at, bytes), b)
  /\ UNCHANGED <<foreign, stream>>

FreeIt(b) ==
  /\ blocks[b].at # 0
  /\ heap' = FreeBlock(heap, blocks[b].at - 1)
  /\ blocks' = [blocks EXCEPT ![b] = [at |-> 0, bytes |-> 0]]
  /\ mem' = Fill(mem, DataUnits(blocks[b].at, blocks[b].bytes), 0)
  /\ UNCHANGED <<foreign, stream>>

\* memmove() of the smaller of the two sizes; the program fills what is new.
Realloc(b) ==
  LET old == blocks[b].at
      oldBytes == (heap.size[old - 1] - 1) * HeaderBytes IN
  /\ old # 0
  /\ \E bytes \in 1..MaxRequest :
       LET r == MallocIn(heap, bytes)
           kept == IF bytes > oldBytes THEN oldBytes ELSE bytes
           cleared == Fill(mem, DataUnits(old, oldBytes), 0)
           copied == [u \in DOMAIN mem |-> IF u \in DataUnits(r.at, kept) THEN mem[old + u - r.at] ELSE cleared[u]]
           grown == DataUnits(r.at, bytes) \ DataUnits(r.at, blocks[b].bytes) IN
       IF bytes = oldBytes THEN
         /\ blocks' = [blocks EXCEPT ![b].bytes = bytes]
         /\ mem' = Fill(mem, DataUnits(old, bytes), b) /\ UNCHANGED heap
       ELSE IF r.at = NULL THEN heap' = r.h /\ UNCHANGED <<blocks, mem>>
       ELSE /\ heap' = FreeBlock(r.h, old - 1)
            /\ blocks' = [blocks EXCEPT ![b] = [at |-> r.at, bytes |-> bytes]]
            /\ mem' = Fill(copied, grown, b)
  /\ UNCHANGED <<foreign, stream>>

\* The program moves the end of the heap itself.
SbrkDirect ==
  /\ heap.brk <= HeapUnits /\ foreign = {}
  /\ foreign' = {heap.brk} /\ heap' = [heap EXCEPT !.brk = @ + 1]
  /\ UNCHANGED <<blocks, mem, stream>>

(***************************************************************************)
(* stdio_impl.c. A stream reads Content through a descriptor at offset     *)
(* pos; ret is returned_char, 0 for none. A call is recorded with its      *)
(* argument, the bytes it delivered and where they should come from.       *)
(***************************************************************************)
Logical(s) == s.pos - (IF s.ret = 0 THEN 0 ELSE 1)
CallDone(op, max, s, res) == [s EXCEPT !.op = op, !.max = max, !.from = Logical(stream), !.res = res]
Remaining(s) == SubSeq(Content, s.pos + 1, Len(Content))
Returned(s) == IF s.ret = 0 THEN <<>> ELSE <<s.ret>>
LessOf(a, b) == IF a < b THEN a ELSE b

\* The bytes up to and with the first newline, at most n.
Line(s, n) ==
  LET ends == {i \in DOMAIN s : s[i] = NewLine}
      most == IF n < 0 THEN 0 ELSE LessOf(n, Len(s)) IN
  SubSeq(s, 1, IF ends = {} THEN most ELSE LessOf(most, CHOOSE i \in ends : \A j \in ends : i <= j))

\* Taking n bytes off the descriptor, and the returned one.
Read(s, n) == [s EXCEPT !.ret = 0, !.pos = @ + n]

TakeReturned(s) == Read(s, 0)

Fgetc == /\ stream' = IF stream.ret # 0 THEN CallDone("fgetc", 1, TakeReturned(stream), Returned(stream))
                      ELSE LET c == Line(Remaining(stream), 1) IN CallDone("fgetc", 1, Read(stream, Len(c)), c)
         /\ UNCHANGED heapVars

\* The program gives back the byte it read last.
Ungetc == /\ stream.res # <<>>
          /\ stream' = [CallDone("ungetc", 1, [stream EXCEPT !.ret = IF @ = 0 THEN stream.res[Len(stream.res)] ELSE @], <<>>)
                          EXCEPT !.from = Logical(stream) - (IF stream.ret = 0 THEN 1 ELSE 0)]
          /\ UNCHANGED heapVars

\* get_from_fd(): nothing more is read behind a returned newline.
Fgets == /\ \E max \in 1..MaxLine :
              LET first == Returned(stream)
                  more == IF first = <<NewLine>> THEN <<>> ELSE Line(Remaining(stream), max - 1 - Len(first)) IN
              stream' = CallDone("fgets", max, Read(stream, Len(more)), first \o more)
         /\ UNCHANGED heapVars

\* One fgetc() after the other.
Getdelim == /\ LET first == Returned(stream)
                   more == IF first = <<NewLine>> THEN <<>> ELSE Line(Remaining(stream), Len(Content)) IN
               stream' = CallDone("getdelim", 0, Read(stream, Len(more)), first \o more)
            /\ UNCHANGED heapVars

\* feof() reads a byte to find out, and keeps it.
Feof == /\ stream' = IF stream.ret # 0 \/ Remaining(stream) = <<>>
                     THEN CallDone("feof", IF stream.ret # 0 THEN 0 ELSE 1, stream, <<>>)
                     ELSE CallDone("feof", 0, [stream EXCEPT !.ret = Content[stream.pos + 1], !.pos = @ + 1], <<>>)
        /\ UNCHANGED heapVars

Fread == /\ \E n \in 1..MaxLine :
              LET first == Returned(stream)
                  more == SubSeq(Remaining(stream), 1, LessOf(n - Len(first), Len(Remaining(stream)))) IN
              stream' = CallDone("fread", n, Read(stream, Len(more)), first \o more)
         /\ UNCHANGED heapVars

\* The descriptor moves; a returned byte stays.
Fseek == /\ \E to \in 0..Len(Content) :
              stream' = [stream EXCEPT !.pos = to, !.op = "fseek", !.from = to, !.res = <<>>, !.max = 0,
                                       !.stale = @ \/ stream.ret # 0]
         /\ UNCHANGED heapVars

LibcInit ==
  /\ heap = [link |-> [a \in 0..HeapUnits |-> NULL], size |-> [a \in 0..HeapUnits |-> 0], fp |-> NULL, brk |-> 1]
  /\ blocks = [b \in HeapBlocks |-> [at |-> 0, bytes |-> 0]]
  /\ mem = [u \in 0..(HeapUnits + MaxRequest) |-> 0]
  /\ foreign = {}
  /\ stream = [pos |-> 0, ret |-> 0, op |-> "fopen", max |-> 0, from |-> 0, res |-> <<>>, stale |-> FALSE]

HeapNext == (\E b \in HeapBlocks : Malloc(b) \/ FreeIt(b) \/ Realloc(b)) \/ SbrkDirect
StreamNext == Fgetc \/ Ungetc \/ Fgets \/ Getdelim \/ Feof \/ Fread \/ Fseek

(***************************************************************************)
(* Properties.                                                             *)
(***************************************************************************)
UnitsAt(a) == a..(a + heap.size[a] - 1)
RECURSIVE ListFrom(_, _)
ListFrom(a, seen) == IF a \in seen THEN seen ELSE ListFrom(heap.link[a], seen \cup {a})
FreeBlocks == IF heap.fp = NULL THEN {} ELSE ListFrom(heap.fp, {}) \ {0}
HeldHeaders == {blocks[b].at - 1 : b \in {c \in HeapBlocks : blocks[c].at # 0}}

(* After any calls of malloc(), free() and realloc(), with sbrk() called by    *)
(* others in between or failing: every unit of the heap belongs to exactly one *)
(* block, held or free, neighbouring free blocks are joined, and what the      *)
(* program wrote is still there.                                               *)
HeapExact ==
  LET all == FreeBlocks \cup HeldHeaders IN
  /\ FreeBlocks \cap HeldHeaders = {}
  /\ \A a, c \in all : a # c => UnitsAt(a) \cap UnitsAt(c) = {}
  /\ UNION {UnitsAt(a) : a \in all} = (1..(heap.brk - 1)) \ foreign
  /\ \A a, c \in FreeBlocks : a + heap.size[a] # c
  /\ \A b \in HeapBlocks : blocks[b].at # 0 =>
       /\ \A u \in DataUnits(blocks[b].at, blocks[b].bytes) : mem[u] = b
       /\ heap.link[blocks[b].at - 1] = MAGIC_VALUE
       /\ DataUnits(blocks[b].at, blocks[b].bytes) \subseteq UnitsAt(blocks[b].at - 1)

(* Every mixture of the reading calls delivers the bytes of the file in their  *)
(* order, none twice and none left out, and stops where the call says, unless  *)
(* a byte was pending when the descriptor was moved. fgets() with room for one *)
(* byte delivers a pending byte and writes its terminator behind the buffer.   *)
StreamInOrder ==
  ~stream.stale =>
    LET s == stream
        atEnd == s.from + Len(s.res) = Len(Content)
        endsLine == s.res # <<>> /\ s.res[Len(s.res)] = NewLine IN
    /\ s.res = SubSeq(Content, s.from + 1, s.from + Len(s.res))
    /\ Logical(s) = s.from + Len(s.res)
    /\ s.op = "fgetc" => Len(s.res) = 1 \/ atEnd
    /\ s.op = "fread" => Len(s.res) = s.max \/ atEnd
    /\ s.op = "feof" => (s.max = 1) <=> atEnd
    /\ s.op = "fgets" => Len(s.res) < s.max \/ (s.max = 1 /\ Len(s.res) = 1)
    /\ s.op = "fgets" => Len(s.res) >= s.max - 1 \/ endsLine \/ atEnd
    /\ s.op = "getdelim" => endsLine \/ atEnd
    /\ s.op \in {"fgets", "getdelim"} => \A i \in 1..(Len(s.res) - 1) : s.res[i] # NewLine
=============================================================================
