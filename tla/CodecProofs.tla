---------------------------- MODULE CodecProofs ----------------------------
(***************************************************************************)
(* What is proved of Codec, for any radix of a byte and any layout that is *)
(* well-formed (LaidRow): a value that passes the checks of its writer is  *)
(* read as it was written (ReadWritten), and what an exact reader took,    *)
(* written again, is the cells it was read from (WrittenRead).             *)
(*                                                                         *)
(* A recursive function is the one that satisfies its equation, if there   *)
(* is one: Iterated and Least show that of Span, Got, FlattenSeq and       *)
(* ReadEach.  After that a field is read as written if its parts are       *)
(* (Composes), level by level, and recovered if its parts are.             *)
(***************************************************************************)
EXTENDS Codec, SequenceTheorems, WellFoundedInduction, TLAPS

-----------------------------------------------------------------------------
(* Counting up and down.                                                   *)

\* The pairs of numbers, the first below the second.
Below == {ss \in Nat \X Nat: ss[1] < ss[2]}

\* A set of numbers has a least, if any.
LEMMA Least ==
  ASSUME NEW T, T \subseteq Nat, T # {}
  PROVE  \E m \in T: \A n \in T: m <= n
<1>1. IsWellFoundedOn(Below, Nat)
  BY NatLessThanWellFounded DEF OpToRel, Below
<1>2. \E m \in T: \A n \in T: ~ (<<n, m>> \in Below)
  BY <1>1, WFMin
<1>3. ASSUME NEW m \in T, NEW n \in T, ~(<<n, m>> \in Below) PROVE m <= n
  BY <1>3 DEF Below
<1> QED BY <1>2, <1>3

\* What holds at 0, and at k + 1 when it does at k, holds up to n.
LEMMA Climb ==
  ASSUME NEW n \in Nat, NEW S, 0 \in S, \A k \in 0..(n - 1): k \in S => k + 1 \in S
  PROVE  \A k \in 0..n: k \in S
<1>1. DEFINE T == {k \in 0..n: k \notin S}
<1>2. SUFFICES ASSUME T # {} PROVE FALSE
  OBVIOUS
<1>3. PICK k \in T: \A m \in T: k <= m
  <2>1. T \subseteq Nat
    OBVIOUS
  <2> HIDE DEF T
  <2> QED BY <1>2, <2>1, Least
<1>4. k \in 0..n /\ k \notin S /\ k # 0
  OBVIOUS
<1>5. k - 1 \in 0..(n - 1) /\ k - 1 \in 0..n /\ ~(k <= k - 1) /\ (k - 1) + 1 = k
  BY <1>4
<1>6. k - 1 \in S
  BY <1>3, <1>5
<1> QED BY <1>4, <1>5, <1>6

\* What holds at n, and at k - 1 when it does at k, holds down to 0.
LEMMA Descend ==
  ASSUME NEW n \in Nat, NEW S, n \in S, \A k \in 1..n: k \in S => k - 1 \in S
  PROVE  \A k \in 0..n: k \in S
<1>1. DEFINE R == {k \in 0..n: n - k \in S}
<1>2. 0 \in R
  OBVIOUS
<1>3. ASSUME NEW k \in 0..(n - 1), k \in R PROVE k + 1 \in R
  <2>1. n - k \in S /\ n - k \in 1..n /\ (n - k) - 1 = n - (k + 1) /\ k + 1 \in 0..n
    BY <1>3
  <2>2. (n - k) - 1 \in S
    BY <2>1
  <2> QED BY <2>1, <2>2
<1>4. \A k \in 0..n: k \in R
  <2> HIDE DEF R
  <2> QED BY <1>2, <1>3, Climb
<1>5. ASSUME NEW k \in 0..n PROVE k \in S
  <2>1. n - k \in 0..n /\ n - (n - k) = k
    OBVIOUS
  <2>2. n - k \in R
    BY <1>4, <2>1
  <2> QED BY <2>1, <2>2
<1> QED BY <1>5

\* h iterates step from first on, n times.
Iterated(h, n, first, step) ==
  h = [i \in 0..n |-> IF i = 0 THEN first ELSE step[<<i, h[i - 1]>>]]

\* A step can be taken again and again.
LEMMA Iterates ==
  ASSUME NEW S, NEW first \in S, NEW n \in Nat, NEW step \in [(1..n) \X S -> S]
  PROVE  \E h \in [0..n -> S]: Iterated(h, n, first, step)
<1>1. DEFINE T == {k \in 0..n: \E h \in [0..k -> S]: Iterated(h, k, first, step)}
<1>2. 0 \in T
  <2>1. PICK h: h = [i \in 0..0 |-> first]
    OBVIOUS
  <2>2. h \in [0..0 -> S] /\ h = [i \in 0..0 |-> IF i = 0 THEN first ELSE step[<<i, h[i - 1]>>]]
    BY <2>1
  <2> QED BY <2>2 DEF Iterated
<1>3. ASSUME NEW k \in 0..(n - 1), k \in T PROVE k + 1 \in T
  <2>1. PICK h \in [0..k -> S]: Iterated(h, k, first, step)
    BY <1>3
  <2>2. PICK g: g = [i \in 0..(k + 1) |-> IF i <= k THEN h[i] ELSE step[<<k + 1, h[k]>>]]
    OBVIOUS
  <2>3. k + 1 \in 1..n /\ k \in 0..k /\ k + 1 \in 0..n
    OBVIOUS
  <2>4. g \in [0..(k + 1) -> S]
    <3>1. h[k] \in S
      BY <2>3
    <3>2. step[<<k + 1, h[k]>>] \in S
      BY <2>3, <3>1
    <3> QED BY <2>2, <3>2
  <2>5. ASSUME NEW i \in 0..(k + 1)
        PROVE  g[i] = IF i = 0 THEN first ELSE step[<<i, g[i - 1]>>]
    <3>1. CASE i = 0
      <4>1. g[i] = h[0] /\ h[0] = first
        BY <2>1, <2>2, <3>1 DEF Iterated
      <4> QED BY <3>1, <4>1
    <3>2. CASE i \in 1..k
      <4>1. g[i] = h[i] /\ g[i - 1] = h[i - 1]
        BY <2>2, <3>2
      <4>2. h[i] = step[<<i, h[i - 1]>>]
        BY <2>1, <3>2 DEF Iterated
      <4> QED BY <3>2, <4>1, <4>2
    <3>3. CASE i = k + 1
      <4>1. i - 1 = k /\ i # 0 /\ ~(i <= k) /\ g[k] = h[k]
        BY <2>2, <3>3
      <4>2. g[i] = step[<<k + 1, h[k]>>]
        BY <2>2, <4>1
      <4> QED BY <3>3, <4>1, <4>2
    <3>4. i = 0 \/ i \in 1..k \/ i = k + 1
      OBVIOUS
    <3> QED BY <3>1, <3>2, <3>3, <3>4
  <2>6. Iterated(g, k + 1, first, step)
    <3>1. PICK f: f = [i \in 0..(k + 1) |-> IF i = 0 THEN first ELSE step[<<i, g[i - 1]>>]]
      OBVIOUS
    <3>2. g = f
      <4>1. g = [i \in 0..(k + 1) |-> g[i]]
        BY <2>4
      <4>2. \A i \in 0..(k + 1): g[i] = f[i]
        BY <2>5, <3>1
      <4> QED BY <3>1, <4>1, <4>2
    <3> QED BY <3>1, <3>2 DEF Iterated
  <2> QED BY <2>3, <2>4, <2>6
<1>4. \A k \in 0..n: k \in T
  <2> HIDE DEF T
  <2> QED BY <1>2, <1>3, Climb
<1>5. n \in T
  BY <1>4
<1> QED BY <1>5

-----------------------------------------------------------------------------
(* Numbers.                                                                *)

\* The widths, as numbers.
LEMMA Widths == U8 = 1 /\ U16 = 2 /\ U32 = 4 /\ U64 = 8
BY DEF U8, U16, U32, U64

\* A number is its quotient times the divisor, and the remainder.
LEMMA DividedInt ==
  ASSUME NEW a \in Int, NEW r \in Int, r > 0
  PROVE  a \div r \in Int /\ a % r \in 0..(r - 1) /\ a = r * (a \div r) + (a % r)
OBVIOUS

\* What division is.
LEMMA Divided ==
  ASSUME NEW a \in Nat, NEW r \in Nat, r > 0
  PROVE  \E q \in Nat, m \in 0..(r - 1): q = a \div r /\ m = a % r /\ a = r * q + m
<1>1. PICK q \in Int, m \in 0..(r - 1): q = a \div r /\ m = a % r /\ a = r * q + m
  BY DividedInt
<1>2. CASE q < 0
  <2>1. PICK e \in Nat: q = 0 - (e + 1)
    <3>1. 0 - q - 1 \in Nat /\ q = 0 - ((0 - q - 1) + 1)
      BY <1>2
    <3> QED BY <3>1
  <2>2. r * (0 - (e + 1)) = 0 - r * e - r /\ r * e >= 0
    OBVIOUS
  <2> QED BY <1>1, <2>1, <2>2
<1>3. CASE q >= 0
  BY <1>1, <1>3
<1> QED BY <1>2, <1>3

\* A multiple of r that is less than r from 0 is 0.
LEMMA SmallMultiple ==
  ASSUME NEW r \in Nat, NEW d \in Int, r * d < r, r * d > 0 - r
  PROVE  d = 0
<1>1. CASE d >= 1
  <2>1. PICK e \in Nat: d = e + 1
    <3>1. d - 1 \in Nat /\ d = (d - 1) + 1
      BY <1>1
    <3> QED BY <3>1
  <2>2. r * (e + 1) = r * e + r /\ r * e >= 0
    OBVIOUS
  <2> QED BY <2>1, <2>2
<1>2. CASE d <= 0 - 1
  <2>1. PICK e \in Nat: d = 0 - (e + 1)
    <3>1. 0 - d - 1 \in Nat /\ d = 0 - ((0 - d - 1) + 1)
      BY <1>2
    <3> QED BY <3>1
  <2>2. r * (0 - (e + 1)) = 0 - r * e - r /\ r * e >= 0
    OBVIOUS
  <2> QED BY <2>1, <2>2
<1> QED BY <1>1, <1>2

\* What dividing takes apart.
LEMMA DividedOnce ==
  ASSUME NEW x \in Nat, NEW y \in Nat, NEW r \in Nat, x < r
  PROVE  (x + r * y) \div r = y /\ (x + r * y) % r = x
<1>1. PICK p \in Nat: p = r * y
  OBVIOUS
<1>2. PICK q \in Nat, m \in 0..(r - 1): q = (x + p) \div r /\ m = (x + p) % r /\ x + p = r * q + m
  <2>1. x + p \in Nat /\ r > 0
    OBVIOUS
  <2> QED BY <2>1, Divided
<1>3. r * (q - y) = r * q - r * y
  OBVIOUS
<1>4. r * (q - y) = x - m
  BY <1>1, <1>2, <1>3
<1>5. x - m < r /\ x - m > 0 - r
  OBVIOUS
<1>6. q - y = 0
  BY <1>4, <1>5, SmallMultiple
<1>7. q = y /\ m = x
  BY <1>1, <1>2, <1>6
<1> QED BY <1>1, <1>2, <1>7
\* A multiple of the divisor adds to the quotient only.
LEMMA Shifted ==
  ASSUME NEW x \in Int, NEW y \in Int, NEW r \in Nat, r > 0
  PROVE  (x + r * y) \div r = (x \div r) + y /\ (x + r * y) % r = x % r
<1>1. PICK p \in Int: p = r * y
  OBVIOUS
<1>2. PICK q \in Int, m \in 0..(r - 1): q = x \div r /\ m = x % r /\ x = r * q + m
  BY DividedInt
<1>3. PICK t \in Int, n \in 0..(r - 1): t = (x + p) \div r /\ n = (x + p) % r /\ x + p = r * t + n
  <2>1. x + p \in Int
    OBVIOUS
  <2> QED BY <2>1, DividedInt
<1>4. r * (t - (q + y)) = r * t - (r * q + r * y)
  OBVIOUS
<1>5. PICK a \in Int, b \in Int: a = r * t /\ b = r * q
  OBVIOUS
<1>6. a - (b + p) = m - n
  BY <1>2, <1>3, <1>5
<1>7. r * (t - (q + y)) = m - n
  BY <1>1, <1>4, <1>5, <1>6
<1>8. m - n < r /\ m - n > 0 - r /\ t - (q + y) \in Int
  OBVIOUS
<1>9. t - (q + y) = 0
  BY <1>7, <1>8, SmallMultiple
<1>10. t = q + y /\ m - n = 0
  <2>1. r * 0 = 0
    OBVIOUS
  <2> QED BY <1>7, <1>9, <2>1
<1> QED BY <1>1, <1>2, <1>3, <1>10

\* Dividing by a product is dividing by one factor, then by the other.
LEMMA DividedTwice ==
  ASSUME NEW n \in Nat, NEW p \in Nat, NEW r \in Nat, p > 0, r > 0
  PROVE  n \div (r * p) = (n \div p) \div r
<1>1. PICK q \in Nat, m \in 0..(p - 1): q = n \div p /\ n = p * q + m
  BY Divided
<1>2. PICK t \in Nat, d \in 0..(r - 1): t = q \div r /\ q = r * t + d
  BY Divided
<1>3. PICK s \in Nat: s = r * p /\ s > 0
  OBVIOUS
<1>4. n = (p * d + m) + s * t
  <2>1. p * (r * t + d) = p * (r * t) + p * d
    OBVIOUS
  <2>2. p * (r * t) = (r * p) * t
    OBVIOUS
  <2> QED BY <1>1, <1>2, <1>3, <2>1, <2>2
<1>5. PICK x \in Nat: x = p * d + m /\ x < s
  <2>1. PICK k \in Nat: r = d + 1 + k
    <3>1. r - 1 - d \in Nat /\ r = d + 1 + (r - 1 - d)
      OBVIOUS
    <3> QED BY <3>1
  <2>2. p * (d + 1 + k) = p * d + p + p * k /\ p * k \in Nat /\ p * d \in Nat /\ r * p = p * r
    OBVIOUS
  <2>3. s = p * d + p + p * k
    BY <1>3, <2>1, <2>2
  <2> QED BY <2>2, <2>3
<1>6. (x + s * t) \div s = t
  BY <1>5, DividedOnce
<1> QED BY <1>1, <1>2, <1>3, <1>4, <1>5, <1>6

\* A byte has values.
LEMMA Radix == RADIX \in Nat /\ RADIX >= 4 /\ RADIX > 0
BY RadixAssumption

\* The recursion of Span.
Spanned(h) == h = [w \in 0..U64 |-> IF w = 0 THEN 1 ELSE RADIX * h[w - 1]]

\* What Span is.
LEMMA Spans ==
  /\ Span[0] = 1
  /\ \A w \in 0..U64: Span[w] \in Nat /\ Span[w] > 0
  /\ \A w \in 1..U64: Span[w] = RADIX * Span[w - 1]
<1>1. PICK step: step = [p \in (1..U64) \X Nat |-> RADIX * p[2]]
  OBVIOUS
<1>2. step \in [(1..U64) \X Nat -> Nat]
  BY <1>1, Radix
<1>3. PICK h \in [0..U64 -> Nat]: Iterated(h, U64, 1, step)
  <2>1. U64 \in Nat /\ 1 \in Nat
    BY Widths
  <2> QED BY <1>2, <2>1, Iterates
<1>4. Spanned(h)
  <2>1. ASSUME NEW w \in 0..U64 PROVE h[w] = IF w = 0 THEN 1 ELSE RADIX * h[w - 1]
    <3>1. h[w] = IF w = 0 THEN 1 ELSE step[<<w, h[w - 1]>>]
      BY <1>3 DEF Iterated
    <3>2. CASE w # 0
      <4>1. w \in 1..U64 /\ w - 1 \in 0..U64
        BY <3>2, Widths
      <4>2. h[w - 1] \in Nat
        BY <4>1
      <4> QED BY <1>1, <3>1, <3>2, <4>1, <4>2
    <3> QED BY <3>1, <3>2
  <2>2. PICK f: f = [w \in 0..U64 |-> IF w = 0 THEN 1 ELSE RADIX * h[w - 1]]
    OBVIOUS
  <2>3. h = f
    <3>1. h = [w \in 0..U64 |-> h[w]] /\ \A w \in 0..U64: h[w] = f[w]
      BY <2>1, <2>2
    <3> QED BY <2>2, <3>1
  <2> QED BY <2>2, <2>3 DEF Spanned
<1>5. Spanned(Span)
  BY <1>4 DEF Span, Spanned
<1>6. Span[0] = 1 /\ \A w \in 1..U64: Span[w] = RADIX * Span[w - 1]
  BY <1>5, Widths DEF Spanned
<1>7. DEFINE T == {w \in 0..U64: Span[w] \in Nat /\ Span[w] > 0}
<1>8. \A w \in 0..U64: w \in T
  <2>1. 0 \in T
    BY <1>6, Widths
  <2>2. ASSUME NEW w \in 0..(U64 - 1), w \in T PROVE w + 1 \in T
    <3>1. w + 1 \in 1..U64 /\ (w + 1) - 1 = w /\ w + 1 \in 0..U64
      BY Widths
    <3>2. PICK x \in Nat: x = Span[w] /\ x > 0
      BY <2>2
    <3>3. Span[w + 1] = RADIX * x
      BY <1>6, <3>1, <3>2
    <3>4. RADIX * x \in Nat /\ RADIX * x > 0
      BY <3>2, Radix
    <3> QED BY <3>1, <3>3, <3>4
  <2>3. U64 \in Nat
    BY Widths
  <2> HIDE DEF T
  <2> QED BY <2>1, <2>2, <2>3, Climb
<1> QED BY <1>6, <1>8

\* Digits(w, n, b): the first w cells of b are n, the least digit first.
Digits(w, n, b) == \A i \in 1..w: b[i] = (n \div Span[i - 1]) % RADIX

\* Put writes so many bytes, the digits of the number.
LEMMA PutDigits ==
  ASSUME NEW w \in 0..U64, NEW n \in Nat
  PROVE  /\ Put(w, n) \in Seq(Nat) /\ Len(Put(w, n)) = w /\ Digits(w, n, Put(w, n))
         /\ \A i \in 1..w: Put(w, n)[i] \in 0..(RADIX - 1)
<1>1. PICK p: p = Put(w, n)
  OBVIOUS
<1>2. p = [i \in 1..w |-> (n \div Span[i - 1]) % RADIX]
  BY <1>1 DEF Put
<1>3. ASSUME NEW i \in 1..w PROVE p[i] \in 0..(RADIX - 1)
  <2>1. i - 1 \in 0..U64
    BY Widths
  <2>2. PICK x \in Nat: x = Span[i - 1] /\ x > 0
    BY <2>1, Spans
  <2>3. PICK q \in Nat: q = n \div x
    BY <2>2, Divided
  <2>4. q % RADIX \in 0..(RADIX - 1)
    BY Radix, Divided
  <2> QED BY <1>2, <2>2, <2>3, <2>4
<1>4. p \in [1..w -> Nat]
  BY <1>2, <1>3, Radix
<1>5. p \in Seq(Nat) /\ Len(p) = w
  BY <1>4, Widths
<1> QED BY <1>1, <1>2, <1>3, <1>5 DEF Digits

\* A wider span is a multiple of a narrower one.
LEMMA SpanMultiple ==
  ASSUME NEW w \in 0..U64, NEW i \in 0..w
  PROVE  \E t \in Nat: Span[w] = Span[i] * t
<1>0. w \in Nat
  BY Widths
<1>1. DEFINE S == {j \in 0..w: \E t \in Nat: Span[w] = Span[j] * t}
<1>2. w \in S
  <2>1. PICK x \in Nat: x = Span[w]
    BY Spans
  <2>2. x = x * 1
    OBVIOUS
  <2> QED BY <1>0, <2>1, <2>2
<1>3. ASSUME NEW j \in 1..w, j \in S PROVE j - 1 \in S
  <2>1. PICK t \in Nat: Span[w] = Span[j] * t
    BY <1>3
  <2>2. j \in 1..U64 /\ j - 1 \in 0..w /\ j - 1 \in 0..U64
    BY <1>0, Widths
  <2>3. PICK x \in Nat: x = Span[j - 1] /\ Span[j] = RADIX * x
    BY <2>2, Spans
  <2>4. PICK y \in Nat: y = RADIX * t
    BY Radix
  <2>5. (RADIX * x) * t = x * (RADIX * t)
    BY Radix
  <2> QED BY <2>1, <2>2, <2>3, <2>4, <2>5
<1>4. \A j \in 0..w: j \in S
  <2> HIDE DEF S
  <2> QED BY <1>0, <1>2, <1>3, Descend
<1> QED BY <1>4

\* The bytes of a number, whatever it is, are those of what is left of it when
\* it is cut to so many bytes.
LEMMA PutNarrowed ==
  ASSUME NEW w \in 0..U64, NEW v \in Int
  PROVE  v % Span[w] \in 0..Widest(w) /\ Put(w, v) = Put(w, v % Span[w])
<1>0. w \in Nat
  BY Widths
<1>1. PICK big \in Nat: big = Span[w] /\ big > 0
  BY Spans
<1>2. PICK k \in Int, x \in 0..(big - 1): x = v % big /\ v = big * k + x
  <2>1. big \in Int
    OBVIOUS
  <2>2. v \div big \in Int /\ v % big \in 0..(big - 1) /\ v = big * (v \div big) + (v % big)
    BY <1>1, <2>1, DividedInt, Zenon
  <2> QED BY <2>2
<1>3. ASSUME NEW i \in 1..w PROVE (v \div Span[i - 1]) % RADIX = (x \div Span[i - 1]) % RADIX
  <2>1. i \in 0..w /\ i \in 1..U64 /\ i - 1 \in 0..U64
    BY <1>0, Widths
  <2>2. PICK s \in Nat: s = Span[i - 1] /\ s > 0 /\ Span[i] = RADIX * s
    BY <2>1, Spans
  <2>3. PICK t \in Nat: big = (RADIX * s) * t
    BY <1>1, <2>1, <2>2, SpanMultiple
  <2>4. PICK y \in Int: y = t * k
    OBVIOUS
  <2>5. PICK z \in Int: z = RADIX * y
    BY Radix
  <2>6. ((RADIX * s) * t) * k = s * (RADIX * (t * k))
    BY Radix
  <2>7. v = x + s * z
    <3>1. big * k = s * z
      BY <2>3, <2>4, <2>5, <2>6
    <3>2. PICK a \in Int: a = big * k
      OBVIOUS
    <3> QED BY <1>2, <3>1, <3>2
  <2>8. v \div s = (x \div s) + z
    <3>1. x \in Int
      BY <1>1
    <3>2. (x + s * z) \div s = (x \div s) + z
      BY <2>2, <3>1, Shifted, Zenon
    <3> QED BY <2>7, <3>2
  <2>9. PICK q \in Int: q = x \div s
    BY <2>2, DividedInt
  <2>10. (q + RADIX * y) % RADIX = q % RADIX
    BY Radix, Shifted
  <2> QED BY <2>2, <2>5, <2>8, <2>9, <2>10
<1> QED BY <1>1, <1>2, <1>3 DEF Put, Widest

\* So that any number is written as cells.
LEMMA PutCells ==
  ASSUME NEW w \in 0..U64, NEW v \in Int
  PROVE  Put(w, v) \in Seq(Nat) /\ Len(Put(w, v)) = w
<1>1. PICK x: x = v % Span[w] /\ x \in 0..Widest(w) /\ Put(w, v) = Put(w, x)
  BY PutNarrowed
<1>2. x \in Nat
  <2>1. PICK big \in Nat: big = Span[w]
    BY Spans
  <2> QED BY <1>1, <2>1 DEF Widest
<1> QED BY <1>1, <1>2, PutDigits

\* Read from the most significant digit on.
ReadsUp(w, b, f) == f = [i \in 0..w |-> IF i = 0 THEN 0 ELSE b[w + 1 - i] + RADIX * f[i - 1]]

\* Got is the last of what its recursion, which g satisfies, reads.
LEMMA GotUpto ==
  ASSUME NEW w, NEW b, NEW g, ReadsUp(w, b, g)
  PROVE  \E f: ReadsUp(w, b, f) /\ Got(w, b) = f[w]
<1>1. Got(w, b) = (CHOOSE f: ReadsUp(w, b, f))[w]
  BY DEF Got, ReadsUp
<1> QED BY <1>1

\* The number that cells hold, as it is read from its most significant digit.
Numbered(w, b, f) ==
  /\ f \in [0..w -> Nat] /\ Got(w, b) = f[w] /\ f[0] = 0
  /\ \A i \in 1..w: f[i] = b[w + 1 - i] + RADIX * f[i - 1]

\* Bytes that are numbers have a number.
LEMMA GotOf ==
  ASSUME NEW w \in 0..U64, NEW b, \A i \in 1..w: b[i] \in Nat
  PROVE  \E f: Numbered(w, b, f)
<1>0. w \in Nat
  BY Widths
<1>1. PICK step: step = [p \in (1..w) \X Nat |-> b[w + 1 - p[1]] + RADIX * p[2]]
  OBVIOUS
<1>2. step \in [(1..w) \X Nat -> Nat]
  <2>1. ASSUME NEW i \in 1..w, NEW x \in Nat PROVE b[w + 1 - i] + RADIX * x \in Nat
    <3>1. w + 1 - i \in 1..w
      BY <1>0
    <3>2. PICK y \in Nat: y = b[w + 1 - i]
      BY <3>1
    <3>3. RADIX * x \in Nat
      BY Radix
    <3> QED BY <3>2, <3>3
  <2> QED BY <1>1, <2>1
<1>3. PICK h \in [0..w -> Nat]: Iterated(h, w, 0, step)
  BY <1>0, <1>2, Iterates
<1>4. ReadsUp(w, b, h)
  <2>1. PICK f: f = [i \in 0..w |-> IF i = 0 THEN 0 ELSE b[w + 1 - i] + RADIX * h[i - 1]]
    OBVIOUS
  <2>2. ASSUME NEW i \in 0..w PROVE h[i] = f[i]
    <3>1. h[i] = IF i = 0 THEN 0 ELSE step[<<i, h[i - 1]>>]
      BY <1>3 DEF Iterated
    <3>2. CASE i # 0
      <4>1. i \in 1..w /\ i - 1 \in 0..w
        BY <1>0, <3>2
      <4>2. h[i - 1] \in Nat
        BY <4>1
      <4> QED BY <1>1, <2>1, <3>1, <3>2, <4>1, <4>2
    <3> QED BY <2>1, <3>1, <3>2
  <2>3. h = f
    <3>1. h = [i \in 0..w |-> h[i]]
      OBVIOUS
    <3> QED BY <2>1, <2>2, <3>1
  <2> QED BY <2>1, <2>3 DEF ReadsUp
<1>5. PICK f: ReadsUp(w, b, f) /\ Got(w, b) = f[w]
  BY <1>4, GotUpto
<1>6. f[0] = 0 /\ \A i \in 1..w: f[i] = b[w + 1 - i] + RADIX * f[i - 1]
  BY <1>0, <1>5 DEF ReadsUp
<1>7. DEFINE T == {i \in 0..w: f[i] \in Nat}
<1>8. \A i \in 0..w: i \in T
  <2>1. 0 \in T
    BY <1>0, <1>6
  <2>2. ASSUME NEW i \in 0..(w - 1), i \in T PROVE i + 1 \in T
    <3>1. i + 1 \in 1..w /\ (i + 1) - 1 = i /\ i + 1 \in 0..w /\ w + 1 - (i + 1) \in 1..w
      BY <1>0
    <3>2. PICK x \in Nat, y \in Nat: x = f[i] /\ y = b[w + 1 - (i + 1)]
      BY <2>2, <3>1
    <3>3. f[i + 1] = y + RADIX * x
      BY <1>6, <3>1, <3>2
    <3>4. y + RADIX * x \in Nat
      BY Radix
    <3> QED BY <3>1, <3>3, <3>4
  <2> HIDE DEF T
  <2> QED BY <1>0, <2>1, <2>2, Climb
<1>9. f \in [0..w -> Nat]
  <2>1. f = [i \in 0..w |-> f[i]]
    BY <1>5 DEF ReadsUp
  <2> QED BY <1>8, <2>1
<1> QED BY <1>5, <1>6, <1>9 DEF Numbered

\* A number written is read back.
LEMMA GotPut ==
  ASSUME NEW w \in 0..U64, NEW n \in Nat, n < Span[w], NEW b, Digits(w, n, b)
  PROVE  Got(w, b) = n
<1>0. w \in Nat
  BY Widths
<1>1. \A i \in 1..w: b[i] \in Nat
  <2>1. PICK p: p = Put(w, n)
    OBVIOUS
  <2>2. \A i \in 1..w: p[i] = b[i] /\ p[i] \in 0..(RADIX - 1)
    BY <2>1, PutDigits DEF Digits
  <2> QED BY <2>2, Radix
<1>2a. PICK f: Numbered(w, b, f)
  BY <1>1, GotOf
<1>2. /\ f \in [0..w -> Nat] /\ Got(w, b) = f[w] /\ f[0] = 0
      /\ \A i \in 1..w: f[i] = b[w + 1 - i] + RADIX * f[i - 1]
  BY <1>2a DEF Numbered
<1>3. DEFINE T == {i \in 0..w: f[i] = n \div Span[w - i]}
<1>4. \A i \in 0..w: i \in T
  <2>1. 0 \in T
    <3>1. PICK s \in Nat: s = Span[w] /\ s > n
      BY Spans
    <3>2. (n + s * 0) \div s = 0
      BY <3>1, DividedOnce
    <3>3. s * 0 = 0
      OBVIOUS
    <3>4. n \div Span[w - 0] = 0
      BY <1>0, <3>1, <3>2, <3>3
    <3> QED BY <1>0, <1>2, <3>4
  <2>2. ASSUME NEW i \in 0..(w - 1), i \in T PROVE i + 1 \in T
    <3>1. /\ i + 1 \in 1..w /\ (i + 1) - 1 = i /\ i + 1 \in 0..w /\ w + 1 - (i + 1) = w - i
          /\ w - i \in 1..U64 /\ w - (i + 1) = (w - i) - 1 /\ w - i \in 1..w
          /\ (w - i) - 1 \in 0..U64
      BY <1>0, Widths
    <3>2. PICK s \in Nat: s = Span[(w - i) - 1] /\ s > 0 /\ Span[w - i] = RADIX * s
      BY <3>1, Spans
    <3>3. PICK q \in Nat: q = n \div s
      BY <3>2, Divided
    <3>4. n \div (RADIX * s) = q \div RADIX
      <4>1. RADIX \in Nat /\ RADIX > 0 /\ s \in Nat /\ s > 0
        BY <3>2, Radix
      <4>2. n \div (RADIX * s) = (n \div s) \div RADIX
        BY <4>1, DividedTwice, Zenon
      <4> QED BY <3>3, <4>2
    <3>5. PICK k \in Nat, d \in 0..(RADIX - 1): k = q \div RADIX /\ d = q % RADIX /\ q = RADIX * k + d
      BY Radix, Divided
    <3>6. f[i] = k
      BY <2>2, <3>2, <3>4, <3>5
    <3>7. b[w - i] = d
      BY <3>1, <3>2, <3>3, <3>5 DEF Digits
    <3>8. f[i + 1] = b[w + 1 - (i + 1)] + RADIX * f[i]
      BY <1>2, <3>1
    <3>9. f[i + 1] = d + RADIX * k
      BY <3>1, <3>6, <3>7, <3>8
    <3>10. f[i + 1] = q
      <4>1. PICK p \in Nat: p = RADIX * k
        BY Radix
      <4>2. d + p = p + d
        OBVIOUS
      <4> QED BY <3>5, <3>9, <4>1, <4>2
    <3> QED BY <3>1, <3>2, <3>3, <3>10
  <2> HIDE DEF T
  <2> QED BY <1>0, <2>1, <2>2, Climb
<1>5. w \in T
  BY <1>0, <1>4
<1>6. n \div 1 = n
  <2>1. (0 + 1 * n) \div 1 = n
    BY DividedOnce
  <2> QED BY <2>1
<1> QED BY <1>0, <1>2, <1>5, <1>6, Spans

\* A number read is one that is written so.
LEMMA PutGot ==
  ASSUME NEW w \in 0..U64, NEW b, \A i \in 1..w: b[i] \in 0..(RADIX - 1)
  PROVE  Got(w, b) \in Nat /\ Got(w, b) < Span[w] /\ Digits(w, Got(w, b), b)
<1>0. w \in Nat
  BY Widths
<1>1a. PICK f: Numbered(w, b, f)
  <2>1. \A i \in 1..w: b[i] \in Nat
    BY Radix
  <2> QED BY <2>1, GotOf
<1>1. /\ f \in [0..w -> Nat] /\ Got(w, b) = f[w] /\ f[0] = 0
      /\ \A i \in 1..w: f[i] = b[w + 1 - i] + RADIX * f[i - 1]
  BY <1>1a DEF Numbered
<1>2. PICK n \in Nat: n = f[w]
  BY <1>0, <1>1
<1>3. ASSUME NEW i \in 1..w
      PROVE  f[i - 1] = f[i] \div RADIX /\ b[w + 1 - i] = f[i] % RADIX
  <2>1. i - 1 \in 0..w /\ w + 1 - i \in 1..w
    BY <1>0
  <2>2a. b[w + 1 - i] \in 0..(RADIX - 1) /\ f[i - 1] \in Nat
    BY <1>1, <2>1
  <2>2. PICK x \in Nat, y \in Nat: x = b[w + 1 - i] /\ y = f[i - 1] /\ x < RADIX
    BY <2>2a, Radix
  <2>3. (x + RADIX * y) \div RADIX = y /\ (x + RADIX * y) % RADIX = x
    BY <2>2, Radix, DividedOnce
  <2> QED BY <1>1, <2>2, <2>3
<1>4. DEFINE T == {i \in 0..w: f[i] = n \div Span[w - i]}
<1>5. \A i \in 0..w: i \in T
  <2>1. w \in T
    <3>1. (0 + 1 * n) \div 1 = n
      BY DividedOnce
    <3>2. n \div 1 = n
      BY <3>1
    <3> QED BY <1>0, <1>2, <3>2, Spans
  <2>2. ASSUME NEW i \in 1..w, i \in T PROVE i - 1 \in T
    <3>1. i - 1 \in 0..w /\ w - (i - 1) \in 1..U64 /\ (w - (i - 1)) - 1 = w - i /\ w - i \in 0..U64
      BY <1>0, Widths
    <3>2. PICK s \in Nat: s = Span[w - i] /\ s > 0 /\ Span[w - (i - 1)] = RADIX * s
      BY <3>1, Spans
    <3>3. n \div (RADIX * s) = (n \div s) \div RADIX
      BY <3>2, Radix, DividedTwice, Zenon
    <3> QED BY <1>3, <2>2, <3>1, <3>2, <3>3
  <2> HIDE DEF T
  <2> QED BY <1>0, <2>1, <2>2, Descend
<1>6. Digits(w, n, b)
  <2>1. ASSUME NEW j \in 1..w PROVE b[j] = (n \div Span[j - 1]) % RADIX
    <3>1. PICK i \in 1..w: i = w + 1 - j /\ w - i = j - 1 /\ w + 1 - i = j /\ i \in 0..w
      <4>1. w + 1 - j \in 1..w /\ w - (w + 1 - j) = j - 1 /\ w + 1 - (w + 1 - j) = j /\ w + 1 - j \in 0..w
        BY <1>0
      <4> QED BY <4>1
    <3>2. f[i] = n \div Span[j - 1]
      BY <1>5, <3>1
    <3> QED BY <1>3, <3>1, <3>2
  <2> QED BY <2>1 DEF Digits
<1>7. DEFINE U == {i \in 0..w: f[i] < Span[i]}
<1>8. \A i \in 0..w: i \in U
  <2>1. 0 \in U
    BY <1>0, <1>1, Spans
  <2>2. ASSUME NEW i \in 0..(w - 1), i \in U PROVE i + 1 \in U
    <3>1. i + 1 \in 1..w /\ (i + 1) - 1 = i /\ i + 1 \in 0..w /\ w + 1 - (i + 1) \in 1..w
          /\ i + 1 \in 1..U64 /\ i \in 0..U64 /\ i \in 0..w
      BY <1>0, Widths
    <3>2. PICK s \in Nat: s = Span[i] /\ s > 0 /\ Span[i + 1] = RADIX * s
      BY <3>1, Spans
    <3>3a. PICK x \in Nat: x = b[w + 1 - (i + 1)] /\ x < RADIX
      BY <3>1, Radix
    <3>3b. f[i] \in Nat /\ f[i] < Span[i]
      BY <1>1, <2>2, <3>1
    <3>3. PICK y \in Nat: y = f[i] /\ y < s
      BY <3>2, <3>3b
    <3>4. f[i + 1] = x + RADIX * y
      BY <1>1, <3>1, <3>3, <3>3a
    <3>5. PICK z \in Nat: s = y + 1 + z
      <4>1. s - y - 1 \in Nat /\ s = y + 1 + (s - y - 1)
        BY <3>2, <3>3
      <4> QED BY <4>1
    <3>6. RADIX * (y + 1 + z) = RADIX * y + RADIX + RADIX * z /\ RADIX * z >= 0 /\ RADIX * y \in Nat
      BY Radix
    <3>7. x + RADIX * y < RADIX * s
      <4>1. PICK p \in Nat, q \in Nat: p = RADIX * y /\ q = RADIX * z
        BY Radix
      <4>2. RADIX * s = p + RADIX + q
        BY <3>5, <3>6, <4>1
      <4> QED BY <3>3a, <4>1, <4>2, Radix
    <3> QED BY <3>1, <3>2, <3>4, <3>7
  <2> HIDE DEF U
  <2> QED BY <1>0, <2>1, <2>2, Climb
<1>9. f[w] < Span[w]
  BY <1>0, <1>8
<1> QED BY <1>1, <1>2, <1>6, <1>9

-----------------------------------------------------------------------------
(* Cells, one part after the other.                                        *)

\* Joined in either order.
Associates(s, t, u) == (s \o t) \o u = s \o (t \o u)

\* Sequences may be joined in either order.
LEMMA Associated ==
  ASSUME NEW S, NEW s \in Seq(S), NEW t \in Seq(S), NEW u \in Seq(S)
  PROVE  Associates(s, t, u)
BY DEF Associates

\* What is in front of some cells is read from the front of them.
InFront(x, b, c) ==
  /\ b \in Seq(Nat) /\ Len(b) = Len(x) + Len(c)
  /\ SubSeq(b, 1, Len(x)) = x /\ Drop(Len(x), b) = c
  /\ \A i \in 1..Len(x): b[i] = x[i]

\* A sequence that x was put in front of begins with x, then goes on with c.
LEMMA Fronts ==
  ASSUME NEW x \in Seq(Nat), NEW c \in Seq(Nat), NEW b, b = x \o c
  PROVE  InFront(x, b, c)
<1>1. b \in Seq(Nat) /\ Len(b) = Len(x) + Len(c)
  OBVIOUS
<1>2. SubSeq(b, 1, Len(x)) = x
  OBVIOUS
<1>3. Drop(Len(x), b) = c
  BY DEF Drop
<1>4. \A i \in 1..Len(x): b[i] = x[i]
  OBVIOUS
<1> QED BY <1>1, <1>2, <1>3, <1>4 DEF InFront

\* Cells are some in front and those behind.
LEMMA Parted ==
  ASSUME NEW S, NEW n \in Nat, NEW c \in Seq(S), n <= Len(c)
  PROVE  /\ SubSeq(c, 1, n) \in Seq(S) /\ Drop(n, c) \in Seq(S)
         /\ Len(SubSeq(c, 1, n)) = n /\ Len(Drop(n, c)) = Len(c) - n
         /\ \A i \in 1..n: SubSeq(c, 1, n)[i] = c[i]
         /\ c = SubSeq(c, 1, n) \o Drop(n, c)
<1>1. PICK x \in Seq(S): x = SubSeq(c, 1, n) /\ Len(x) = n /\ \A i \in 1..n: x[i] = c[i]
  <2>1. SubSeq(c, 1, n) \in Seq(S) /\ Len(SubSeq(c, 1, n)) = n
    OBVIOUS
  <2>2. \A i \in 1..n: SubSeq(c, 1, n)[i] = c[i]
    OBVIOUS
  <2> QED BY <2>1, <2>2
<1>2. PICK y \in Seq(S): y = Drop(n, c) /\ Len(y) = Len(c) - n /\ \A i \in 1..(Len(c) - n): y[i] = c[n + i]
  <2>1. Drop(n, c) \in Seq(S) /\ Len(Drop(n, c)) = Len(c) - n
    BY DEF Drop
  <2>2. \A i \in 1..(Len(c) - n): Drop(n, c)[i] = c[n + i]
    BY DEF Drop
  <2> QED BY <2>1, <2>2
<1>3. PICK z \in Seq(S): z = x \o y
  <2>1. x \o y \in Seq(S)
    OBVIOUS
  <2> QED BY <2>1
<1>4. Len(z) = Len(c)
  BY <1>1, <1>2, <1>3
<1>5. ASSUME NEW i \in 1..Len(c) PROVE z[i] = c[i]
  <2>1. CASE i <= n
    BY <1>1, <1>2, <1>3, <2>1
  <2>2. CASE i > n
    <3>1. i - n \in 1..(Len(c) - n) /\ n + (i - n) = i
      BY <2>2
    <3>2. y[i - n] = c[i]
      BY <1>2, <3>1
    <3>3. z[i] = y[i - n]
      BY <1>1, <1>2, <1>3, <2>2
    <3> QED BY <3>2, <3>3
  <2> QED BY <2>1, <2>2
<1>6. z = c
  BY <1>4, <1>5, SeqEqual
<1> QED BY <1>1, <1>2, <1>3, <1>6

\* What follows each part, when b follows the last.
Trail(s, parts, b) ==
  /\ s \in [0..Len(parts) -> Seq(Nat)] /\ s[Len(parts)] = b
  /\ \A i \in 1..Len(parts): s[i - 1] = parts[i] \o s[i]

\* What is left of some parts and b after each of the parts, as a function.
LEMMA TrailOf ==
  ASSUME NEW parts \in Seq(Seq(Nat)), NEW b \in Seq(Nat)
  PROVE  \E s: Trail(s, parts, b)
<1>1. PICK n \in Nat: n = Len(parts)
  OBVIOUS
<1>2. \A i \in 1..n: parts[i] \in Seq(Nat)
  BY <1>1
<1>3. PICK step: step = [p \in (1..n) \X Seq(Nat) |-> parts[n + 1 - p[1]] \o p[2]]
  OBVIOUS
<1>4. step \in [(1..n) \X Seq(Nat) -> Seq(Nat)]
  <2>1. ASSUME NEW i \in 1..n, NEW x \in Seq(Nat) PROVE parts[n + 1 - i] \o x \in Seq(Nat)
    <3>1. n + 1 - i \in 1..n
      OBVIOUS
    <3> QED BY <1>2, <3>1
  <2> QED BY <1>3, <2>1
<1>5. PICK h \in [0..n -> Seq(Nat)]: Iterated(h, n, b, step)
  BY <1>4, Iterates
<1>6. PICK s: s = [i \in 0..n |-> h[n - i]]
  OBVIOUS
<1>7. s \in [0..n -> Seq(Nat)]
  <2>1. ASSUME NEW i \in 0..n PROVE h[n - i] \in Seq(Nat)
    <3>1. n - i \in 0..n
      OBVIOUS
    <3> QED BY <3>1
  <2> QED BY <1>6, <2>1
<1>8. s[n] = b
  <2>1. n \in 0..n /\ n - n = 0 /\ 0 \in 0..n
    OBVIOUS
  <2> QED BY <1>5, <1>6, <2>1 DEF Iterated
<1>9. ASSUME NEW i \in 1..n PROVE s[i - 1] = parts[i] \o s[i]
  <2>1. PICK j \in 1..n: j = n - (i - 1) /\ j - 1 = n - i /\ n + 1 - j = i
    <3>1. n - (i - 1) \in 1..n /\ (n - (i - 1)) - 1 = n - i /\ n + 1 - (n - (i - 1)) = i
      OBVIOUS
    <3> QED BY <3>1
  <2>2. i - 1 \in 0..n /\ i \in 0..n /\ j - 1 \in 0..n /\ j \in 0..n /\ j # 0
    OBVIOUS
  <2>3. s[i - 1] = h[j] /\ s[i] = h[j - 1]
    BY <1>6, <2>1, <2>2
  <2>4. h[j] = step[<<j, h[j - 1]>>]
    BY <1>5, <2>2 DEF Iterated
  <2>5. h[j - 1] \in Seq(Nat)
    BY <2>2
  <2>6. step[<<j, h[j - 1]>>] = parts[n + 1 - j] \o h[j - 1]
    BY <1>3, <2>5
  <2> QED BY <2>1, <2>3, <2>4, <2>6
<1> QED BY <1>1, <1>7, <1>8, <1>9 DEF Trail

\* The recursion of FlattenSeq.
Flattens(parts, f) ==
  f = [i \in 1..Len(parts) |-> IF i = 1 THEN parts[i] ELSE f[i - 1] \o parts[i]]

\* FlattenSeq is the last of what its recursion, which g satisfies, joins.
LEMMA FlattenedUpto ==
  ASSUME NEW parts, NEW g, Flattens(parts, g), Len(parts) # 0
  PROVE  \E f: Flattens(parts, f) /\ FlattenSeq(parts) = f[Len(parts)]
<1>1. FlattenSeq(parts) = (CHOOSE f: Flattens(parts, f))[Len(parts)]
  BY DEF FlattenSeq, Flattens
<1> QED BY <1>1

\* FlattenSeq is what joining the parts one after the other gives.
LEMMA Flattening ==
  ASSUME NEW parts \in Seq(Seq(Nat)), Len(parts) # 0
  PROVE  \E f \in [1..Len(parts) -> Seq(Nat)]: Flattens(parts, f) /\ FlattenSeq(parts) = f[Len(parts)]
<1>1. PICK n \in Nat: n = Len(parts) /\ n # 0
  OBVIOUS
<1>2. \A i \in 1..n: parts[i] \in Seq(Nat)
  BY <1>1
<1>3. PICK none \in Seq(Nat): none = <<>>
  BY EmptySeq
<1>4. PICK step: step = [p \in (1..n) \X Seq(Nat) |-> p[2] \o parts[p[1]]]
  OBVIOUS
<1>5. step \in [(1..n) \X Seq(Nat) -> Seq(Nat)]
  BY <1>2, <1>4
<1>6. PICK h \in [0..n -> Seq(Nat)]: Iterated(h, n, none, step)
  BY <1>5, Iterates
<1>7. PICK g: g = [i \in 1..n |-> h[i]]
  OBVIOUS
<1>8. ASSUME NEW i \in 1..n PROVE g[i] = IF i = 1 THEN parts[i] ELSE g[i - 1] \o parts[i]
  <2>1. i \in 0..n /\ i # 0 /\ i - 1 \in 0..n
    OBVIOUS
  <2>2. h[i] = step[<<i, h[i - 1]>>]
    BY <1>6, <2>1 DEF Iterated
  <2>3. h[i - 1] \in Seq(Nat)
    BY <2>1
  <2>4. h[i] = h[i - 1] \o parts[i]
    BY <1>4, <2>2, <2>3
  <2>5. CASE i = 1
    <3>1. h[i - 1] = <<>>
      BY <1>3, <1>6, <2>1, <2>5 DEF Iterated
    <3>2. h[i] = <<>> \o parts[i]
      BY <2>4, <3>1
    <3>3. <<>> \o parts[i] = parts[i]
      BY <1>2
    <3> QED BY <1>7, <2>5, <3>2, <3>3
  <2>6. CASE i # 1
    <3>1. i - 1 \in 1..n
      BY <2>6
    <3> QED BY <1>7, <2>4, <2>6, <3>1
  <2> QED BY <2>5, <2>6
<1>9. Flattens(parts, g)
  <2>1. PICK f: f = [i \in 1..n |-> IF i = 1 THEN parts[i] ELSE g[i - 1] \o parts[i]]
    OBVIOUS
  <2>2. g = f
    <3>1. g = [i \in 1..n |-> g[i]] /\ \A i \in 1..n: g[i] = f[i]
      BY <1>7, <1>8, <2>1
    <3> QED BY <2>1, <3>1
  <2> QED BY <1>1, <2>1, <2>2 DEF Flattens
<1>10. PICK f: Flattens(parts, f) /\ FlattenSeq(parts) = f[n]
  BY <1>1, <1>9, FlattenedUpto
<1>11. ASSUME NEW i \in 1..n PROVE f[i] = IF i = 1 THEN parts[i] ELSE f[i - 1] \o parts[i]
  BY <1>1, <1>10 DEF Flattens
<1>12. DEFINE T == {i \in 0..n: i # 0 => f[i] \in Seq(Nat)}
<1>13. \A i \in 0..n: i \in T
  <2>1. 0 \in T
    OBVIOUS
  <2>2. ASSUME NEW i \in 0..(n - 1), i \in T PROVE i + 1 \in T
    <3>1. i + 1 \in 1..n /\ (i + 1) - 1 = i /\ i + 1 \in 0..n
      OBVIOUS
    <3>2. f[i + 1] = IF i + 1 = 1 THEN parts[i + 1] ELSE f[i] \o parts[i + 1]
      BY <1>11, <3>1
    <3>3. parts[i + 1] \in Seq(Nat)
      BY <1>2, <3>1
    <3>4. CASE i = 0
      BY <3>1, <3>2, <3>3, <3>4
    <3>5. CASE i # 0
      <4>1. f[i] \in Seq(Nat)
        BY <2>2, <3>5
      <4>2. i + 1 # 1
        BY <3>5
      <4>3. f[i + 1] = f[i] \o parts[i + 1]
        BY <3>2, <4>2, Zenon
      <4>4. f[i] \o parts[i + 1] \in Seq(Nat)
        BY <3>3, <4>1
      <4> QED BY <3>1, <4>3, <4>4
    <3> QED BY <3>4, <3>5
  <2> HIDE DEF T
  <2> QED BY <2>1, <2>2, Climb
<1>14. f \in [1..n -> Seq(Nat)]
  <2>1. f = [i \in 1..n |-> f[i]]
    <3>1. f = [i \in 1..n |-> IF i = 1 THEN parts[i] ELSE f[i - 1] \o parts[i]]
      BY <1>1, <1>10 DEF Flattens
    <3> QED BY <3>1
  <2>2. \A i \in 1..n: f[i] \in Seq(Nat)
    BY <1>13
  <2> QED BY <2>1, <2>2
<1> QED BY <1>1, <1>10, <1>14

\* Parts flattened are the parts one after the other.
LEMMA Flattened ==
  ASSUME NEW parts \in Seq(Seq(Nat)), NEW b \in Seq(Nat), NEW s, Trail(s, parts, b)
  PROVE  FlattenSeq(parts) \in Seq(Nat) /\ s[0] = FlattenSeq(parts) \o b
<1>1. PICK n \in Nat: n = Len(parts)
  OBVIOUS
<1>2. s \in [0..n -> Seq(Nat)] /\ s[n] = b /\ \A i \in 1..n: s[i - 1] = parts[i] \o s[i]
  BY <1>1 DEF Trail
<1>3. CASE n = 0
  <2>1. parts = <<>>
    BY <1>1, <1>3, EmptySeq
  <2>1a. FlattenSeq(parts) = parts
    <3>1. Len(parts) = 0
      BY <1>1, <1>3
    <3> QED BY <3>1, Zenon DEF FlattenSeq
  <2>2. <<>> \in Seq(Nat) /\ <<>> \o b = b
    BY EmptySeq, ConcatEmptySeq
  <2> QED BY <1>2, <1>3, <2>1, <2>1a, <2>2
<1>4. CASE n # 0
  <2>1. PICK f \in [1..n -> Seq(Nat)]: Flattens(parts, f) /\ FlattenSeq(parts) = f[n]
    BY <1>1, <1>4, Flattening
  <2>2. ASSUME NEW i \in 1..n PROVE f[i] = IF i = 1 THEN parts[i] ELSE f[i - 1] \o parts[i]
    BY <1>1, <2>1 DEF Flattens
  <2>3. DEFINE T == {i \in 0..n: i # 0 => s[0] = f[i] \o s[i]}
  <2>4. \A i \in 0..n: i \in T
    <3>1. 0 \in T
      OBVIOUS
    <3>2. ASSUME NEW i \in 0..(n - 1), i \in T PROVE i + 1 \in T
      <4>1. i + 1 \in 1..n /\ (i + 1) - 1 = i /\ i + 1 \in 0..n /\ i \in 0..n
        OBVIOUS
      <4>2. f[i + 1] = IF i + 1 = 1 THEN parts[i + 1] ELSE f[i] \o parts[i + 1]
        BY <2>2, <4>1
      <4>3a. parts[i + 1] \in Seq(Nat) /\ s[i + 1] \in Seq(Nat)
        <5>1. s \in [0..n -> Seq(Nat)]
          BY <1>2
        <5>2. s[i + 1] \in Seq(Nat)
          BY <4>1, <5>1
        <5>3. parts[i + 1] \in Seq(Nat)
          BY <1>1, <4>1, ElementOfSeq
        <5> QED BY <5>2, <5>3
      <4>3. PICK p \in Seq(Nat), r \in Seq(Nat): p = parts[i + 1] /\ r = s[i + 1]
        BY <4>3a
      <4>4. s[i] = p \o r
        BY <1>2, <4>1, <4>3
      <4>5. CASE i = 0
        <5>1. f[i + 1] = p
          BY <4>2, <4>3, <4>5
        <5> QED BY <4>1, <4>3, <4>4, <4>5, <5>1
      <4>6. CASE i # 0
        <5>1. PICK q \in Seq(Nat): q = f[i]
          BY <4>1, <4>6
        <5>2. s[0] = q \o (p \o r)
          BY <3>2, <4>4, <4>6, <5>1
        <5>3. (q \o p) \o r = q \o (p \o r)
          <6>1. Associates(q, p, r)
            BY Associated
          <6> QED BY <6>1 DEF Associates
        <5>4. i + 1 # 1
          BY <4>6
        <5>5. f[i + 1] = q \o p
          BY <4>2, <4>3, <5>1, <5>4, Zenon
        <5> QED BY <4>1, <4>3, <5>2, <5>3, <5>5
      <4> QED BY <4>5, <4>6
    <3> HIDE DEF T
    <3> QED BY <3>1, <3>2, Climb
  <2>6. n \in 1..n /\ n \in 0..n
    BY <1>4
  <2>5. n \in T
    BY <2>4, <2>6, Zenon
  <2>7. s[0] = f[n] \o s[n]
    BY <1>4, <2>5
  <2> QED BY <1>2, <2>1, <2>6, <2>7
<1> QED BY <1>3, <1>4

-----------------------------------------------------------------------------
(* Reading, one part after the other.                                      *)

\* What is read from the i-th part on, when next is read from the one after.
Reads(readers, lax, i, next) ==
  [c \in Seq(Nat) |->
     LET part == readers[i][c]
         others == next[part.rest] IN
     IF i > Len(readers) THEN Accepted(<<>>, c)
     ELSE IF part.ok
          THEN [ok |-> others.ok, v |-> <<part.v>> \o others.v, rest |-> others.rest]
     ELSE IF lax THEN Accepted(<<>>, part.rest) ELSE Refused(part.rest)]
\* The recursion of ReadEach, from reader k on.
Ahead(readers, lax, k, from) ==
  from = [i \in k..(Len(readers) + 1) |-> Reads(readers, lax, i, from[i + 1])]

\* After the last reader nothing of what comes later is read.
LEMMA ReadsLast ==
  ASSUME NEW readers, Len(readers) \in Nat, NEW lax, NEW i \in Nat, i > Len(readers), NEW x, NEW y
  PROVE  Reads(readers, lax, i, x) = Reads(readers, lax, i, y)
BY DEF Reads

\* ReadEach reads by a function: the recursion that defines it has one.
LEMMA AheadOf ==
  ASSUME NEW readers, NEW n \in Nat, n = Len(readers), NEW lax
  PROVE  \E from: Ahead(readers, lax, 1, from)
<1>1. DEFINE T == {k \in 0..n: \E from: Ahead(readers, lax, n + 1 - k, from)}
<1>2. 0 \in T
  <2>1. PICK g: g = [i \in (n + 1)..(n + 1) |-> Reads(readers, lax, i, 0)]
    OBVIOUS
  <2>2. PICK f: f = [i \in (n + 1)..(n + 1) |-> Reads(readers, lax, i, g[i + 1])]
    OBVIOUS
  <2>3. g = f
    <3>1. ASSUME NEW i \in (n + 1)..(n + 1) PROVE g[i] = f[i]
      <4>1. i \in Nat /\ i > Len(readers) /\ Len(readers) \in Nat
        OBVIOUS
      <4>2. Reads(readers, lax, i, 0) = Reads(readers, lax, i, g[i + 1])
        BY <4>1, ReadsLast
      <4> QED BY <2>1, <2>2, <4>2
    <3> QED BY <2>1, <2>2, <3>1
  <2>4. Ahead(readers, lax, n + 1, g)
    BY <2>2, <2>3 DEF Ahead
  <2> QED BY <2>4
<1>3. ASSUME NEW k \in 0..(n - 1), k \in T PROVE k + 1 \in T
  <2>1. PICK m \in 1..n: m = n + 1 - (k + 1) /\ n + 1 - k = m + 1 /\ k + 1 \in 0..n
    <3>1. /\ n + 1 - (k + 1) \in 1..n /\ n + 1 - k = n + 1 - (k + 1) + 1
          /\ k + 1 \in 0..n
      OBVIOUS
    <3> QED BY <3>1
  <2>2. PICK h: Ahead(readers, lax, m + 1, h)
    BY <1>3, <2>1
  <2>3. PICK g: g = [i \in m..(n + 1) |-> IF i > m THEN h[i] ELSE Reads(readers, lax, m, h[m + 1])]
    OBVIOUS
  <2>4. PICK f: f = [i \in m..(n + 1) |-> Reads(readers, lax, i, g[i + 1])]
    OBVIOUS
  <2>5. ASSUME NEW i \in m..(n + 1) PROVE g[i] = f[i]
    <3>1. CASE i = m
      <4>1. m + 1 \in m..(n + 1) /\ m + 1 > m /\ ~(m > m)
        OBVIOUS
      <4>2. g[m + 1] = h[m + 1]
        BY <2>3, <4>1
      <4>3. g[m] = Reads(readers, lax, m, h[m + 1])
        BY <2>3, <3>1, <4>1
      <4> QED BY <2>4, <3>1, <4>2, <4>3
    <3>2. CASE i > m /\ i <= n
      <4>1. i + 1 \in m..(n + 1) /\ i + 1 > m /\ i \in (m + 1)..(n + 1)
        BY <3>2
      <4>2. g[i + 1] = h[i + 1] /\ g[i] = h[i]
        BY <2>3, <3>2, <4>1
      <4>3. h[i] = Reads(readers, lax, i, h[i + 1])
        BY <2>2, <4>1 DEF Ahead
      <4> QED BY <2>4, <4>2, <4>3
    <3>3. CASE i = n + 1
      <4>1. i > m /\ i \in (m + 1)..(n + 1) /\ i \in Nat /\ i > Len(readers) /\ Len(readers) \in Nat
        BY <3>3
      <4>2. g[i] = h[i]
        BY <2>3, <4>1
      <4>3. h[i] = Reads(readers, lax, i, h[i + 1])
        BY <2>2, <4>1 DEF Ahead
      <4>4. Reads(readers, lax, i, h[i + 1]) = Reads(readers, lax, i, g[i + 1])
        BY <4>1, ReadsLast
      <4>5. f[i] = Reads(readers, lax, i, g[i + 1])
        BY <2>4
      <4> QED BY <4>2, <4>3, <4>4, <4>5
    <3> QED BY <3>1, <3>2, <3>3
  <2>6. g = f
    BY <2>3, <2>4, <2>5
  <2>7. Ahead(readers, lax, m, g)
    BY <2>4, <2>6 DEF Ahead
  <2> QED BY <2>1, <2>7
<1>4. \A k \in 0..n: k \in T
  <2> HIDE DEF T
  <2> QED BY <1>2, <1>3, Climb
<1>5. n \in T /\ n + 1 - n = 1
  BY <1>4
<1> QED BY <1>5

\* ReadEach is where that recursion starts.
ReadsFrom(readers, lax, b, from) ==
  /\ ReadEach(readers, lax, b) = from[1][b]
  /\ \A i \in 1..(Len(readers) + 1): from[i] = Reads(readers, lax, i, from[i + 1])

\* ReadEach is where that function starts.
LEMMA EachAhead ==
  ASSUME NEW readers, NEW n \in Nat, n = Len(readers), NEW lax, NEW b
  PROVE  \E from: ReadsFrom(readers, lax, b, from)
<1>1. ReadEach(readers, lax, b) = (CHOOSE from: Ahead(readers, lax, 1, from))[1][b]
  BY DEF ReadEach, Ahead, Reads
<1>2. PICK from: Ahead(readers, lax, 1, from) /\ ReadEach(readers, lax, b) = from[1][b]
  BY <1>1, AheadOf
<1> QED BY <1>2 DEF Ahead, ReadsFrom

\* A value in front of the others.
LEMMA Prepended ==
  ASSUME NEW vs, NEW n \in Nat, NEW i \in 1..n
  PROVE  <<vs[i]>> \o [j \in 1..(n - i) |-> vs[i + j]] = [j \in 1..(n + 1 - i) |-> vs[i - 1 + j]]
<1>1. DEFINE S == {vs[k]: k \in 1..n}
<1>2. PICK x \in S: x = vs[i]
  OBVIOUS
<1>3. PICK w: w = [j \in 1..(n - i) |-> vs[i + j]]
  OBVIOUS
<1>4. w \in Seq(S) /\ Len(w) = n - i
  <2>1. n - i \in Nat
    OBVIOUS
  <2>2. ASSUME NEW j \in 1..(n - i) PROVE vs[i + j] \in S
    <3>1. i + j \in 1..n
      OBVIOUS
    <3> QED BY <3>1
  <2> HIDE DEF S
  <2>3. w \in [1..(n - i) -> S]
    BY <1>3, <2>2
  <2> QED BY <1>3, <2>1, <2>3
<1>5. PICK z: z = [j \in 1..(n + 1 - i) |-> vs[i - 1 + j]]
  OBVIOUS
<1>6. z \in Seq(S) /\ Len(z) = n + 1 - i
  <2>1. n + 1 - i \in Nat
    OBVIOUS
  <2>2. ASSUME NEW j \in 1..(n + 1 - i) PROVE vs[i - 1 + j] \in S
    <3>1. i - 1 + j \in 1..n
      OBVIOUS
    <3> QED BY <3>1
  <2> HIDE DEF S
  <2>3. PICK m \in Nat: m = n + 1 - i
    BY <2>1
  <2>4. z \in [1..m -> S]
    BY <1>5, <2>2, <2>3
  <2> QED BY <2>3, <2>4
<1>7. PICK one \in Seq(S): one = <<x>> /\ Len(one) = 1 /\ one[1] = x
  <2> HIDE DEF S
  <2>1. <<x>> \in Seq(S) /\ Len(<<x>>) = 1 /\ <<x>>[1] = x
    OBVIOUS
  <2> QED BY <2>1
<1>8. PICK y: y = one \o w
  OBVIOUS
<1> HIDE DEF S
<1>9. y \in Seq(S) /\ Len(y) = n + 1 - i
  BY <1>4, <1>7, <1>8
<1>10. ASSUME NEW j \in 1..(n + 1 - i) PROVE y[j] = z[j]
  <2>1. CASE j = 1
    BY <1>2, <1>4, <1>5, <1>7, <1>8, <2>1
  <2>2. CASE j # 1
    <3>1. j - 1 \in 1..(n - i) /\ i + (j - 1) = i - 1 + j
      BY <2>2
    <3>2. y[j] = w[j - 1]
      BY <1>4, <1>7, <1>8, <2>2
    <3> QED BY <1>3, <1>5, <3>1, <3>2
  <2> QED BY <2>1, <2>2
<1>11. y = z
  BY <1>6, <1>9, <1>10, SeqEqual
<1> QED BY <1>2, <1>3, <1>5, <1>7, <1>8, <1>11

\* When every part is read, the list of their values is.
AllRead(readers, lax, n, b, vs, c) ==
  ReadEach(readers, lax, b) = Accepted([i \in 1..n |-> vs[i]], c)
\* Each reader accepts a value where the one before it stopped.
Stepwise(readers, n, s, vs) ==
  /\ s \in [0..n -> Seq(Nat)]
  /\ \A i \in 1..n: readers[i][s[i - 1]] = Accepted(vs[i], s[i])

\* Readers that each accept a value where the one before it stopped read them all.
LEMMA EachRead ==
  ASSUME NEW readers, NEW n \in Nat, n = Len(readers), NEW lax, NEW vs, NEW s,
         Stepwise(readers, n, s, vs)
  PROVE  AllRead(readers, lax, n, s[0], vs, s[n])
<1>s. s \in [0..n -> Seq(Nat)] /\ \A i \in 1..n: readers[i][s[i - 1]] = Accepted(vs[i], s[i])
  BY DEF Stepwise
<1>0. PICK b: b = s[0]
  OBVIOUS
<1>1. PICK from: /\ ReadEach(readers, lax, b) = from[1][b]
                 /\ \A i \in 1..(n + 1): from[i] = Reads(readers, lax, i, from[i + 1])
  <2>1. PICK from: ReadsFrom(readers, lax, b, from)
    BY EachAhead
  <2> QED BY <2>1 DEF ReadsFrom
<1>2. DEFINE T == {i \in 0..n: from[i + 1][s[i]] = Accepted([j \in 1..(n - i) |-> vs[i + j]], s[n])}
<1>3. n \in T
  <2>1. n + 1 \in 1..(n + 1) /\ n + 1 > Len(readers) /\ n \in 0..n /\ n - n = 0
    OBVIOUS
  <2>2. s[n] \in Seq(Nat)
    BY <1>s, <2>1
  <2>3. from[n + 1] = Reads(readers, lax, n + 1, from[n + 1 + 1])
    BY <1>1, <2>1
  <2>4. from[n + 1][s[n]] = Accepted(<<>>, s[n])
    BY <2>1, <2>2, <2>3 DEF Reads
  <2>5. [j \in 1..(n - n) |-> vs[n + j]] = <<>>
    OBVIOUS
  <2> QED BY <2>1, <2>4, <2>5
<1>4. ASSUME NEW i \in 1..n, i \in T PROVE i - 1 \in T
  <2>1. /\ i - 1 \in 0..n /\ i \in 1..(n + 1) /\ ~(i > Len(readers)) /\ (i - 1) + 1 = i
        /\ n + 1 - i = n - (i - 1) /\ i \in 0..n
    OBVIOUS
  <2>2. s[i - 1] \in Seq(Nat) /\ s[i] \in Seq(Nat)
    BY <1>s, <2>1
  <2>3. PICK next: next = from[i + 1]
    OBVIOUS
  <2>4. from[i] = Reads(readers, lax, i, next)
    BY <1>1, <2>1, <2>3
  <2>5. PICK w: w = [j \in 1..(n - i) |-> vs[i + j]]
    OBVIOUS
  <2>6. next[s[i]] = Accepted(w, s[n])
    BY <1>4, <2>3, <2>5
  <2>7. from[i][s[i - 1]] = Accepted(<<vs[i]>> \o w, s[n])
    <3>1. readers[i][s[i - 1]] = Accepted(vs[i], s[i])
      BY <1>s
    <3>2. PICK part: part = readers[i][s[i - 1]]
      OBVIOUS
    <3>3. part.ok /\ part.v = vs[i] /\ part.rest = s[i]
      BY <3>1, <3>2 DEF Accepted
    <3>4. from[i][s[i - 1]] =
            [ok |-> next[part.rest].ok, v |-> <<part.v>> \o next[part.rest].v,
             rest |-> next[part.rest].rest]
      BY <2>1, <2>2, <2>4, <3>2, <3>3 DEF Reads
    <3> QED BY <2>6, <3>3, <3>4 DEF Accepted
  <2>8. <<vs[i]>> \o w = [j \in 1..(n + 1 - i) |-> vs[i - 1 + j]]
    BY <2>5, Prepended
  <2>9. from[(i - 1) + 1][s[i - 1]] = Accepted([j \in 1..(n - (i - 1)) |-> vs[i - 1 + j]], s[n])
    BY <2>1, <2>7, <2>8
  <2> QED BY <2>1, <2>9
<1>5. \A i \in 0..n: i \in T
  <2> HIDE DEF T
  <2> QED BY <1>3, <1>4, Descend
<1>6. from[0 + 1][s[0]] = Accepted([j \in 1..(n - 0) |-> vs[0 + j]], s[n])
  <2>1. 0 \in 0..n
    OBVIOUS
  <2>2. 0 \in T
    <3> HIDE DEF T
    <3> QED BY <1>5, <2>1
  <2> QED BY <2>2
<1>7. [j \in 1..(n - 0) |-> vs[0 + j]] = [j \in 1..n |-> vs[j]] /\ 0 + 1 = 1
  OBVIOUS
<1> QED BY <1>0, <1>1, <1>6, <1>7 DEF AllRead

\* Bytes are cells: numbers.
LEMMA BytesAreCells == Byte \subseteq Nat /\ Seq(Byte) \subseteq Seq(Nat)
<1>1. Byte \subseteq Nat
  BY Radix DEF Byte
<1>2. ASSUME NEW c \in Seq(Byte) PROVE c \in Seq(Nat)
  <2>1. Len(c) \in Nat /\ c = [i \in 1..Len(c) |-> c[i]] /\ \A i \in 1..Len(c): c[i] \in Byte
    OBVIOUS
  <2>2. PICK n \in Nat: n = Len(c)
    BY <2>1
  <2>3. c \in [1..n -> Nat]
    BY <1>1, <2>1, <2>2
  <2> QED BY <2>3
<1> QED BY <1>1, <1>2

\* The readings of the parts of a list: s[i] is what follows the i-th.
Readings(readers, n, s, b) ==
  /\ s \in [0..n -> Seq(Byte)] /\ s[0] = b
  /\ \A i \in 1..n: readers[i][s[i - 1]].ok /\ s[i] = readers[i][s[i - 1]].rest
\* Readers that are given bytes leave bytes.
KeepsBytes(readers, n) ==
  \A i \in 1..n: \A c \in Seq(Byte): readers[i][c].ok => readers[i][c].rest \in Seq(Byte)

\* When a list is read with no part refused, each part was read.
LEMMA EachTrace ==
  ASSUME NEW readers, NEW n \in Nat, n = Len(readers), NEW b \in Seq(Byte),
         ReadEach(readers, FALSE, b).ok, KeepsBytes(readers, n)
  PROVE  \E s: Readings(readers, n, s, b)
<1>1. PICK from: /\ ReadEach(readers, FALSE, b) = from[1][b]
                 /\ \A i \in 1..(n + 1): from[i] = Reads(readers, FALSE, i, from[i + 1])
  <2>1. PICK from: ReadsFrom(readers, FALSE, b, from)
    BY EachAhead
  <2> QED BY <2>1 DEF ReadsFrom
<1>2. PICK step: step = [p \in (1..n) \X Seq(Byte) |->
                           IF readers[p[1]][p[2]].ok THEN readers[p[1]][p[2]].rest ELSE p[2]]
  OBVIOUS
<1>3. step \in [(1..n) \X Seq(Byte) -> Seq(Byte)]
  BY <1>2 DEF KeepsBytes
<1>4. PICK s \in [0..n -> Seq(Byte)]: Iterated(s, n, b, step)
  BY <1>3, Iterates
<1>5. ASSUME NEW i \in 1..n
      PROVE  s[i - 1] \in Seq(Byte) /\ (readers[i][s[i - 1]].ok => s[i] = readers[i][s[i - 1]].rest)
  <2>1. i \in 0..n /\ i # 0 /\ i - 1 \in 0..n
    OBVIOUS
  <2>2. s[i - 1] \in Seq(Byte)
    BY <2>1
  <2>3. s[i] = step[<<i, s[i - 1]>>]
    BY <1>4, <2>1 DEF Iterated
  <2> QED BY <1>2, <2>2, <2>3
<1>6. DEFINE T == {i \in 0..n: from[i + 1][s[i]].ok}
<1>7. 0 \in 0..n /\ s[0] = b /\ 0 + 1 = 1
  BY <1>4 DEF Iterated
<1>8. ASSUME NEW i \in 1..n, from[i][s[i - 1]].ok
      PROVE  readers[i][s[i - 1]].ok /\ from[i + 1][s[i]].ok
  <2>1. i \in 1..(n + 1) /\ ~(i > Len(readers))
    OBVIOUS
  <2>2. s[i - 1] \in Seq(Nat)
    BY <1>5, BytesAreCells
  <2>3. PICK next: next = from[i + 1]
    OBVIOUS
  <2>4. from[i] = Reads(readers, FALSE, i, next)
    BY <1>1, <2>1, <2>3
  <2>5. PICK part: part = readers[i][s[i - 1]]
    OBVIOUS
  <2>6. CASE part.ok
    <3>1. from[i][s[i - 1]] =
            [ok |-> next[part.rest].ok, v |-> <<part.v>> \o next[part.rest].v,
             rest |-> next[part.rest].rest]
      BY <2>1, <2>2, <2>4, <2>5, <2>6 DEF Reads
    <3>2. next[part.rest].ok
      BY <1>8, <3>1
    <3> QED BY <1>5, <2>3, <2>5, <2>6, <3>2
  <2>7. CASE ~part.ok
    <3>1. from[i][s[i - 1]] = Refused(part.rest)
      BY <2>1, <2>2, <2>4, <2>5, <2>7 DEF Reads
    <3> QED BY <1>8, <3>1 DEF Refused
  <2> QED BY <2>6, <2>7
<1>9. \A i \in 0..n: i \in T
  <2>1. 0 \in T
    BY <1>1, <1>7
  <2>2. ASSUME NEW i \in 0..(n - 1), i \in T PROVE i + 1 \in T
    <3>1. i + 1 \in 1..n /\ (i + 1) - 1 = i /\ i + 1 \in 0..n
      OBVIOUS
    <3>2. from[i + 1][s[(i + 1) - 1]].ok
      BY <2>2, <3>1
    <3>3. from[i + 1 + 1][s[i + 1]].ok
      BY <1>8, <3>1, <3>2
    <3> QED BY <3>1, <3>3
  <2> HIDE DEF T
  <2> QED BY <2>1, <2>2, Climb
<1>10. ASSUME NEW i \in 1..n PROVE readers[i][s[i - 1]].ok
  <2>1. i - 1 \in 0..n /\ (i - 1) + 1 = i
    OBVIOUS
  <2>2. i - 1 \in T
    <3> HIDE DEF T
    <3> QED BY <1>9, <2>1
  <2>3. from[i][s[i - 1]].ok
    BY <2>1, <2>2
  <2> QED BY <1>8, <2>3
<1> QED BY <1>5, <1>7, <1>10 DEF Readings

-----------------------------------------------------------------------------
(* Numbers and texts.                                                      *)

\* A prefix is read back, whatever cells come after it.
PutInFront(w, n, b, c) ==
  b \in Seq(Nat) /\ Len(b) = w + Len(c) /\ Got(w, b) = n /\ Drop(w, b) = c

\* A number written in front of some cells is got from them again.
LEMMA PutRead ==
  ASSUME NEW w \in 0..U64, NEW n \in Nat, n <= Widest(w), NEW c \in Seq(Nat), NEW b, b = Put(w, n) \o c
  PROVE  PutInFront(w, n, b, c)
<1>1. PICK p \in Seq(Nat): p = Put(w, n) /\ Len(p) = w /\ Digits(w, n, p)
  BY PutDigits
<1>2. b = p \o c
  BY <1>1
<1>3. /\ b \in Seq(Nat) /\ Len(b) = w + Len(c) /\ Drop(w, b) = c
      /\ \A i \in 1..w: b[i] = p[i]
  <2>1. InFront(p, b, c)
    BY <1>2, Fronts
  <2> QED BY <1>1, <2>1 DEF InFront
<1>4. Digits(w, n, b)
  BY <1>1, <1>3 DEF Digits
<1>5. n < Span[w]
  <2>1. Span[w] \in Nat
    BY Spans
  <2> QED BY <2>1 DEF Widest
<1> QED BY <1>3, <1>4, <1>5, GotPut DEF PutInFront

\* A prefix read is one that was written.
LEMMA PutReadBack ==
  ASSUME NEW w \in 0..U64, NEW b \in Seq(Byte), Len(b) >= w
  PROVE  /\ Got(w, b) \in Nat /\ Got(w, b) <= Widest(w) /\ Put(w, Got(w, b)) \in Seq(Nat)
         /\ Drop(w, b) \in Seq(Byte) /\ b = Put(w, Got(w, b)) \o Drop(w, b)
<1>0. w \in Nat
  BY Widths
<1>1. ASSUME NEW i \in 1..w PROVE b[i] \in 0..(RADIX - 1)
  <2>1. i \in 1..Len(b)
    BY <1>0
  <2>2. b[i] \in Byte
    BY <2>1, ElementOfSeq
  <2> QED BY <2>2 DEF Byte
<1>2. PICK n \in Nat: n = Got(w, b) /\ n < Span[w] /\ Digits(w, n, b)
  BY <1>1, PutGot
<1>3. n <= Widest(w)
  <2>1. Span[w] \in Nat
    BY Spans
  <2> QED BY <1>2, <2>1 DEF Widest
<1>4. PICK x \in Seq(Byte): /\ x = SubSeq(b, 1, w) /\ Len(x) = w /\ \A i \in 1..w: x[i] = b[i]
                            /\ Drop(w, b) \in Seq(Byte) /\ b = x \o Drop(w, b)
  BY <1>0, Parted
<1>5. PICK p \in Seq(Nat): p = Put(w, n) /\ Len(p) = w /\ Digits(w, n, p)
  BY PutDigits
<1>6. x = p
  <2>1. x \in Seq(Nat) /\ Len(x) = Len(p)
    BY <1>4, <1>5, BytesAreCells
  <2>2. \A i \in 1..w: x[i] = p[i]
    BY <1>2, <1>4, <1>5 DEF Digits
  <2> QED BY <1>5, <2>1, <2>2, SeqEqual
<1> QED BY <1>2, <1>3, <1>4, <1>5, <1>6

\* Carried(e, r, v): the cells e are read as v, whatever cells come after them.
Carried(e, r, v) == e \in Seq(Nat) /\ \A c \in Seq(Nat): r[e \o c] = Accepted(v, c)
\* A reader, as a function of cells.
Reader(Inner(_, _), f) == [c \in Seq(Nat) |-> Inner(f, c)]

\* A number is read as it was written.
LEMMA NumberCarried ==
  ASSUME NEW f, f.kind = "number", f.width \in 1..U64, f.min \in Nat, f.max \in Nat,
         NEW v \in f.min..f.max, v <= Widest(f.width)
  PROVE  Carried(EncodeLeaf(f, v), Reader(ReadLeaf, f), v)
<1>1. PICK w \in 1..U64: w = f.width
  OBVIOUS
<1>2. w \in 0..U64 /\ v \in Nat /\ v <= Widest(w) /\ w \in Nat
  BY <1>1, Widths
<1>3. EncodeLeaf(f, v) = Put(w, v) /\ EncodeLeaf(f, v) \in Seq(Nat)
  BY <1>1, <1>2, PutDigits DEF EncodeLeaf
<1>4. ASSUME NEW c \in Seq(Nat)
      PROVE  Put(w, v) \o c \in Seq(Nat) /\ ReadLeaf(f, Put(w, v) \o c) = Accepted(v, c)
  <2>1. PICK b: b = Put(w, v) \o c
    OBVIOUS
  <2>2. b \in Seq(Nat) /\ Len(b) = w + Len(c) /\ Got(w, b) = v /\ Drop(w, b) = c
    <3>1. PutInFront(w, v, b, c)
      BY <1>2, <2>1, PutRead
    <3> QED BY <3>1 DEF PutInFront
  <2>3. ~(Len(b) < w)
    BY <1>2, <2>2
  <2>4. ReadLeaf(f, b) = ReadNumber(f, b)
    BY DEF ReadLeaf
  <2>5. ReadNumber(f, b) = Accepted(v, c)
    BY <1>1, <2>2, <2>3 DEF ReadNumber
  <2> QED BY <2>1, <2>2, <2>4, <2>5
<1> QED BY <1>3, <1>4 DEF Carried, Reader

\* So is a text, whole or loose.
LEMMA TextCarried ==
  ASSUME NEW f, f.kind \in {"text", "loose"}, f.width \in 1..U64, f.min \in Nat,
         NEW v \in Seq(Nat), Len(v) >= f.min, Len(v) <= Widest(f.width)
  PROVE  Carried(EncodeLeaf(f, v), Reader(ReadLeaf, f), v)
<1>1. PICK w \in 1..U64, n \in Nat: w = f.width /\ n = Len(v)
  OBVIOUS
<1>2. w \in 0..U64 /\ n <= Widest(w) /\ w \in Nat
  BY <1>1, Widths
<1>3. PICK p \in Seq(Nat): p = Put(w, n)
  BY <1>2, PutDigits
<1>4. EncodeLeaf(f, v) = p \o v
  BY <1>1, <1>3 DEF EncodeLeaf
<1>5. PICK e \in Seq(Nat): e = p \o v
  <2>1. p \o v \in Seq(Nat)
    OBVIOUS
  <2> QED BY <2>1
<1>6. ASSUME NEW c \in Seq(Nat)
      PROVE  e \o c \in Seq(Nat) /\ ReadLeaf(f, e \o c) = Accepted(v, c)
  <2>1. PICK t \in Seq(Nat): /\ t = v \o c /\ Len(t) = n + Len(c) /\ Len(c) \in Nat
                             /\ SubSeq(t, 1, n) = v /\ Drop(n, t) = c
    <3>1. PICK t: t = v \o c
      OBVIOUS
    <3>2. InFront(v, t, c)
      BY <3>1, Fronts
    <3>3. /\ t \in Seq(Nat) /\ Len(t) = n + Len(c)
          /\ SubSeq(t, 1, n) = v /\ Drop(n, t) = c
      BY <1>1, <3>2 DEF InFront
    <3>4. Len(c) \in Nat
      OBVIOUS
    <3> QED BY <3>1, <3>3, <3>4
  <2>2. PICK b: b = Put(w, n) \o t
    OBVIOUS
  <2>3. e \o c = b
    <3>1. Associates(p, v, c)
      BY Associated
    <3> QED BY <1>3, <1>5, <2>1, <2>2, <3>1 DEF Associates
  <2>4. b \in Seq(Nat) /\ Len(b) = w + Len(t) /\ Got(w, b) = n /\ Drop(w, b) = t
    <3>1. PutInFront(w, n, b, t)
      BY <1>2, <2>2, PutRead
    <3> QED BY <3>1 DEF PutInFront
  <2>5. ~(Len(b) < w) /\ ~(n < f.min) /\ ~(Len(t) < n)
    <3>1. Len(t) \in Nat
      OBVIOUS
    <3> QED BY <1>1, <1>2, <2>1, <2>4, <3>1, SMTT(20)
  <2>6. ReadLeaf(f, b) = ReadText(f, b)
    BY DEF ReadLeaf
  <2>7. Take(n, t) = Accepted(v, c)
    BY <2>1, <2>5 DEF Take
  <2>8. (IF n < Len(t) THEN n ELSE Len(t)) = n
    <3>1. PICK m \in Nat: m = Len(c) /\ Len(t) = n + m
      BY <2>1
    <3> QED BY <3>1
  <2>9. ReadText(f, b) = Accepted(v, c)
    <3>1. CASE f.kind = "loose"
      <4>1. ReadText(f, b) = Take(IF n < Len(t) THEN n ELSE Len(t), t)
        BY <1>1, <2>4, <2>5, <3>1, Zenon DEF ReadText
      <4> QED BY <2>7, <2>8, <4>1
    <3>2. CASE f.kind # "loose"
      <4>1. ReadText(f, b) = Take(n, t)
        BY <1>1, <2>4, <2>5, <3>2, Zenon DEF ReadText
      <4> QED BY <2>7, <4>1
    <3> QED BY <3>1, <3>2
  <2> QED BY <2>3, <2>4, <2>6, <2>9
<1> QED BY <1>4, <1>5, <1>6 DEF Carried, Reader

-----------------------------------------------------------------------------
(* Fields of several parts.                                                *)

\* A field that may have n parts.
Counts(f, n) ==
  \/ f.kind = "row" /\ n = Len(f.of)
  \/ f.kind = "given" /\ n = 1
  \/ /\ f.kind = "list" /\ f.width \in 1..U64 /\ n <= Widest(f.width)
     /\ f.how \in {"strict", "any", "one"} => n <= 1

\* The number of parts is read as it was written.
PrefixCarried(f, n, t) ==
  /\ Prefix(f, n) \in Seq(Nat) /\ Prefix(f, n) \o t \in Seq(Nat)
  /\ ReadPrefix(f, Prefix(f, n) \o t) = Accepted(n, t)

\* So is the number of parts.
LEMMA PrefixRead ==
  ASSUME NEW f, NEW n \in Nat, Counts(f, n), NEW t \in Seq(Nat)
  PROVE  PrefixCarried(f, n, t)
<1>1. CASE f.kind = "row"
  <2>1. Prefix(f, n) = <<>>
    BY <1>1 DEF Prefix
  <2>2. <<>> \in Seq(Nat) /\ <<>> \o t = t
    BY EmptySeq, ConcatEmptySeq
  <2>3. n = Len(f.of)
    BY <1>1 DEF Counts
  <2>4. ReadPrefix(f, t) = Accepted(n, t)
    BY <1>1, <2>3 DEF ReadPrefix
  <2> QED BY <2>1, <2>2, <2>4 DEF PrefixCarried
<1>2. CASE f.kind = "given"
  <2>1. Prefix(f, n) = <<1>> /\ n = 1
    BY <1>2 DEF Prefix, Counts
  <2>2. PICK p \in Seq(Nat): p = <<1>> /\ Len(p) = 1 /\ p[1] = 1
    <3>1. <<1>> \in Seq(Nat) /\ Len(<<1>>) = 1 /\ <<1>>[1] = 1
      OBVIOUS
    <3> QED BY <3>1
  <2>3. PICK b: b = p \o t
    OBVIOUS
  <2>4. InFront(p, b, t)
    BY <2>3, Fronts
  <2>5. b \in Seq(Nat) /\ Len(b) = 1 + Len(t) /\ b[1] = 1 /\ SubSeq(b, 2, Len(b)) = t
    BY <2>2, <2>4 DEF InFront, Drop
  <2>6. b # <<>> /\ Head(b) = 1 /\ Tail(b) = t
    <3>1. b # <<>>
      BY <2>5
    <3>2. Head(b) = b[1]
      BY <2>5, <3>1
    <3>3. Tail(b) = SubSeq(b, 2, Len(b))
      BY <2>5, <3>1
    <3> QED BY <2>5, <3>1, <3>2, <3>3
  <2>7. ReadPrefix(f, b) = Accepted(1, t)
    BY <1>2, <2>6 DEF ReadPrefix
  <2> QED BY <2>1, <2>2, <2>3, <2>5, <2>7 DEF PrefixCarried
<1>3. CASE f.kind = "list"
  <2>1. PICK w \in 1..U64: w = f.width /\ n <= Widest(w)
    BY <1>3 DEF Counts
  <2>2. f.how \in {"strict", "any", "one"} => n = 0 \/ n = 1
    BY <1>3 DEF Counts
  <2>3. Prefix(f, n) = Put(w, n)
    BY <1>3, <2>1 DEF Prefix
  <2>4. PICK b: b = Put(w, n) \o t
    OBVIOUS
  <2>5. w \in 0..U64 /\ w \in Nat
    BY Widths
  <2>6. PutInFront(w, n, b, t)
    BY <2>1, <2>4, <2>5, PutRead
  <2>7. b \in Seq(Nat) /\ Len(b) = w + Len(t) /\ Got(w, b) = n /\ Drop(w, b) = t
    BY <2>6 DEF PutInFront
  <2>8. ~(Len(b) < w)
    BY <2>5, <2>7
  <2>9. ReadPrefix(f, b) =
          CASE f.how = "strict" -> IF n > 1 THEN Refused(b) ELSE Accepted(n, t)
            [] f.how = "any" -> Accepted(IF n = 0 THEN 0 ELSE 1, t)
            [] f.how = "one" -> Accepted(IF n = 1 THEN 1 ELSE 0, t)
            [] OTHER -> Accepted(n, t)
    BY <1>3, <2>1, <2>7, <2>8 DEF ReadPrefix
  <2>10. ReadPrefix(f, b) = Accepted(n, t)
    BY <2>2, <2>9
  <2>11. Put(w, n) \in Seq(Nat)
    BY <2>5, PutDigits
  <2> QED BY <2>3, <2>4, <2>7, <2>10, <2>11 DEF PrefixCarried
<1> QED BY <1>1, <1>2, <1>3 DEF Counts

\* The last part is read when c comes after it, the others whatever does.
PartsCarried(parts, readers, vs, c) ==
  \A i \in 1..Len(parts): \A x \in Seq(Nat):
    (i < Len(parts) \/ x = c) => readers[i][parts[i] \o x] = Accepted(vs[i], x)

\* And so are the parts, when each is.
LEMMA PartsRead ==
  ASSUME NEW parts \in Seq(Seq(Nat)), NEW n \in Nat, n = Len(parts), NEW readers, Len(readers) = n,
         NEW vs, NEW lax, NEW c \in Seq(Nat), PartsCarried(parts, readers, vs, c)
  PROVE  FlattenSeq(parts) \in Seq(Nat) /\ AllRead(readers, lax, n, FlattenSeq(parts) \o c, vs, c)
<1>1. PICK s: Trail(s, parts, c)
  BY TrailOf
<1>2. /\ s \in [0..n -> Seq(Nat)] /\ s[n] = c
      /\ \A i \in 1..n: s[i - 1] = parts[i] \o s[i]
  BY <1>1 DEF Trail
<1>3. FlattenSeq(parts) \in Seq(Nat) /\ s[0] = FlattenSeq(parts) \o c
  BY <1>1, Flattened
<1>4. ASSUME NEW i \in 1..n PROVE readers[i][s[i - 1]] = Accepted(vs[i], s[i])
  <2>1. i \in 0..n /\ (i < n \/ i = n)
    OBVIOUS
  <2>2. s[i] \in Seq(Nat) /\ (i < n \/ s[i] = c)
    BY <1>2, <2>1
  <2>3. readers[i][parts[i] \o s[i]] = Accepted(vs[i], s[i])
    BY <2>2 DEF PartsCarried
  <2> QED BY <1>2, <2>3
<1>5. AllRead(readers, lax, n, s[0], vs, s[n])
  <2>1. Stepwise(readers, n, s, vs)
    BY <1>2, <1>4 DEF Stepwise
  <2> QED BY <2>1, EachRead
<1> QED BY <1>2, <1>3, <1>5

\* How a field of n parts is read from the cells e followed by c.
Composed(f, n, parts, readers, vs, e, c) ==
  LET after == FlattenSeq(parts) \o c IN
  /\ e \in Seq(Nat) /\ e \o c \in Seq(Nat)
  /\ ReadPrefix(f, e \o c) = Accepted(n, after)
  /\ ReadParts(f, readers, after) = Accepted(Whole(f, [i \in 1..n |-> vs[i]]), c)

\* A prefix and parts that are read so are read, together, as the values.
LEMMA Composes ==
  ASSUME NEW f, NEW n \in Nat, Counts(f, n), NEW parts \in Seq(Seq(Nat)), n = Len(parts),
         NEW readers, Len(readers) = n, NEW vs, NEW c \in Seq(Nat),
         PartsCarried(parts, readers, vs, c), NEW e, e = Prefix(f, n) \o FlattenSeq(parts)
  PROVE  Composed(f, n, parts, readers, vs, e, c)
<1>1. PICK lax: lax = (f.kind = "list" /\ f.how = "lax")
  OBVIOUS
<1>2. PICK q \in Seq(Nat): /\ q = FlattenSeq(parts)
                          /\ ReadEach(readers, lax, q \o c) = Accepted([i \in 1..n |-> vs[i]], c)
  <2>1. FlattenSeq(parts) \in Seq(Nat) /\ AllRead(readers, lax, n, FlattenSeq(parts) \o c, vs, c)
    BY PartsRead
  <2> QED BY <2>1 DEF AllRead
<1>3. PICK t \in Seq(Nat): t = q \o c
  <2>1. q \o c \in Seq(Nat)
    OBVIOUS
  <2> QED BY <2>1
<1>4. PrefixCarried(f, n, t)
  BY PrefixRead
<1>5. PICK p \in Seq(Nat): p = Prefix(f, n) /\ p \o t \in Seq(Nat) /\ ReadPrefix(f, p \o t) = Accepted(n, t)
  BY <1>4 DEF PrefixCarried
<1>6. (p \o q) \o c = p \o t
  <2>1. Associates(p, q, c)
    BY Associated
  <2> QED BY <1>3, <2>1 DEF Associates
<1>7. e = p \o q /\ e \in Seq(Nat)
  <2>1. p \o q \in Seq(Nat)
    OBVIOUS
  <2> QED BY <1>2, <1>5, <2>1
<1>8. ReadParts(f, readers, t) = Accepted(Whole(f, [i \in 1..n |-> vs[i]]), c)
  <2>1. ReadEach(readers, lax, t) = Accepted([i \in 1..n |-> vs[i]], c)
    BY <1>2, <1>3
  <2>2. PICK read: read = ReadEach(readers, lax, t)
    OBVIOUS
  <2>3. read.ok /\ read.v = [i \in 1..n |-> vs[i]] /\ read.rest = c
    BY <2>1, <2>2 DEF Accepted
  <2>4. ReadParts(f, readers, t) = IF read.ok THEN Accepted(Whole(f, read.v), read.rest)
                                  ELSE Refused(read.rest)
    BY <1>1, <2>2 DEF ReadParts
  <2> QED BY <2>3, <2>4
<1> QED BY <1>2, <1>3, <1>5, <1>6, <1>7, <1>8 DEF Composed

-----------------------------------------------------------------------------
(* Layouts, level by level.                                                *)

\* A well-formed layout; an exact one refuses what is cut short, and reads a
\* value from no cells but those that are written for it.
Laid0(exact, f) ==
  /\ f.kind \in {"number", "text"} \/ (f.kind = "loose" /\ ~exact)
  /\ f.width \in 1..U64 /\ f.min \in Nat /\ f.max \in Nat
  /\ f.max <= Widest(f.width) \/ (f.kind # "number" /\ f.max = Unchecked)
  /\ f.kind = "number" /\ f.masked => f.min = 0 /\ f.max = Widest(f.width)
\* A field of several parts, each read back; exact, if what is read is also
\* written back to the same cells.
Shaped(exact, f) ==
  \/ f.kind = "row" /\ Len(f.of) \in Nat
  \/ f.kind = "given"
  \/ /\ f.kind = "list" /\ f.width \in 1..U64 /\ f.min \in Nat /\ f.max \in Nat
     /\ f.max <= Widest(f.width) \/ f.max = Unchecked
     /\ f.how \in {"counted", "strict"} \/ ~exact
     /\ f.how \in {"strict", "any", "one"} => f.max = 1
\* A field each part of which is laid out.
LaidIn(Inner(_, _), exact, f) ==
  IF Leaf(f) THEN Laid0(exact, f)
  ELSE /\ Shaped(exact, f)
       /\ f.kind = "row" => \A i \in 1..Len(f.of): Inner(exact, f.of[i])
       /\ f.kind # "row" => Inner(exact, f.of)

Laid1(exact, f) == LaidIn(Laid0, exact, f)
Laid2(exact, f) == LaidIn(Laid1, exact, f)
Laid3(exact, f) == LaidIn(Laid2, exact, f)
Laid4(exact, f) == LaidIn(Laid3, exact, f)

\* What IsValueIn, AdmitsIn and CountableIn say of a field's own value.
ShapedValue(f, v) ==
  LET n == Len(Inside(f, v)) IN
  /\ f.kind # "given" => Len(v) \in Nat /\ v = [i \in 1..Len(v) |-> v[i]]
  /\ f.kind = "list" => Len(v) \in f.min..f.max /\ Len(v) <= Widest(f.width)
  /\ n = Len(Layouts(f, n))

\* The most a prefix counts is below its span.
LEMMA WidestIs ==
  ASSUME NEW w \in 0..U64
  PROVE  Widest(w) \in Nat /\ Widest(w) < Span[w]
<1>1. PICK x \in Nat: x = Span[w] /\ x > 0
  BY Spans
<1> QED BY <1>1 DEF Widest

\* A value that fits a shape has as many parts as its prefix counts.
LEMMA ShapedCounts ==
  ASSUME NEW f, NEW exact \in BOOLEAN, Shaped(exact, f), ~Leaf(f), NEW v, ShapedValue(f, v),
         NEW n, n = Len(Inside(f, v))
  PROVE  n \in Nat /\ Counts(f, n)
<1>1. CASE f.kind = "given"
  <2>1. Inside(f, v) = <<v>>
    BY <1>1 DEF Inside
  <2> QED BY <1>1, <2>1 DEF Counts
<1>2. CASE f.kind # "given"
  <2>1. Inside(f, v) = v /\ n = Len(v) /\ n \in Nat
    BY <1>2 DEF Inside, ShapedValue
  <2>2. CASE f.kind = "row"
    BY <2>1, <2>2 DEF Counts, ShapedValue, Layouts
  <2>3. CASE f.kind = "list"
    <3>1. f.width \in 1..U64 /\ f.min \in Nat /\ f.max \in Nat
      BY <2>3 DEF Shaped
    <3>2. n \in f.min..f.max /\ n <= Widest(f.width)
      BY <2>1, <2>3 DEF ShapedValue
    <3>3. f.how \in {"strict", "any", "one"} => n <= 1
      BY <2>3, <3>1, <3>2 DEF Shaped
    <3> QED BY <2>1, <2>3, <3>1, <3>2, <3>3 DEF Counts
  <2> QED BY <1>2, <2>1, <2>2, <2>3 DEF Shaped
<1> QED BY <1>1, <1>2

\* What is written of a leaf is read from it, a number as its low bytes.
LEMMA LeafCarried ==
  ASSUME NEW f, NEW exact \in BOOLEAN, Laid0(exact, f), NEW v,
         IsLeafValue(f, v), LeafAdmits(f, v), LeafCountable(f, v)
  PROVE  Carried(EncodeLeaf(f, v), Reader(ReadLeaf, f), LeafNarrowed(f, v))
<1>1. f.width \in 1..U64 /\ f.width \in 0..U64 /\ f.min \in Nat /\ f.max \in Nat
  BY Widths DEF Laid0
<1>2. Widest(f.width) \in Nat
  BY <1>1, WidestIs
<1>3. CASE f.kind = "number"
  <2>1. v \in Int /\ f.max <= Widest(f.width)
    BY <1>3 DEF Laid0, IsLeafValue
  <2>2. PICK x: x = v % Span[f.width]
    OBVIOUS
  <2>3. x \in 0..Widest(f.width) /\ EncodeLeaf(f, v) = EncodeLeaf(f, x) /\ LeafNarrowed(f, v) = x
    BY <1>1, <1>3, <2>1, <2>2, PutNarrowed DEF EncodeLeaf, LeafNarrowed
  <2>4. x \in f.min..f.max
    <3>1. CASE f.masked
      BY <1>2, <1>3, <2>3, <3>1 DEF Laid0
    <3>2. CASE ~f.masked
      <4>1. v \in f.min..f.max
        BY <1>3, <3>2 DEF LeafAdmits
      <4>2. PICK big \in Nat: big = Span[f.width] /\ big > 0 /\ Widest(f.width) = big - 1
        BY <1>1, Spans DEF Widest
      <4>3. v \in Nat /\ v < big
        BY <1>1, <2>1, <4>1, <4>2
      <4>4. (v + big * 0) % big = v /\ v + big * 0 = v
        BY <4>3, DividedOnce
      <4> QED BY <2>2, <4>1, <4>2, <4>4
    <3> QED BY <3>1, <3>2
  <2>5. x <= Widest(f.width)
    BY <1>2, <2>3
  <2>6. Carried(EncodeLeaf(f, x), Reader(ReadLeaf, f), x)
    BY <1>1, <1>3, <2>4, <2>5, NumberCarried
  <2> QED BY <2>3, <2>6
<1>4. CASE f.kind \in {"text", "loose"}
  <2>1. v \in Seq(Nat) /\ Len(v) \in f.min..f.max /\ Len(v) <= Widest(f.width)
    BY <1>4 DEF IsLeafValue, LeafAdmits, LeafCountable
  <2>2. LeafNarrowed(f, v) = v
    BY <1>4 DEF LeafNarrowed
  <2>3. Len(v) >= f.min
    BY <1>1, <2>1
  <2> QED BY <1>1, <1>4, <2>1, <2>2, <2>3, TextCarried
<1> QED BY <1>3, <1>4 DEF Laid0

\* How a field is read when its parts are.
FieldRead(f, v, readers, e) ==
  /\ e \in Seq(Nat)
  /\ \A c \in Seq(Nat):
       LET count == ReadPrefix(f, e \o c) IN
       /\ e \o c \in Seq(Nat)
       /\ count.ok /\ count.v = Len(readers)
       /\ ReadParts(f, readers, count.rest) = Accepted(v, c)

\* The n parts of a field and what is read of each.
PartsAre(parts, readers, us, n) ==
  /\ parts = [i \in 1..n |-> parts[i]] /\ readers = [i \in 1..n |-> readers[i]]
  /\ us = [i \in 1..n |-> us[i]]
  /\ \A i \in 1..n: Carried(parts[i], readers[i], us[i])

\* A field whose parts are read, each as one of us, is read as the whole of them.
LEMMA FieldCarried ==
  ASSUME NEW f, NEW exact \in BOOLEAN, Shaped(exact, f), ~Leaf(f), NEW v, ShapedValue(f, v),
         NEW n, n = Len(Inside(f, v)), NEW parts, NEW readers, NEW us, PartsAre(parts, readers, us, n)
  PROVE  n \in Nat /\ FieldRead(f, Whole(f, us), readers, Prefix(f, n) \o FlattenSeq(parts))
<1>0. /\ parts = [i \in 1..n |-> parts[i]] /\ readers = [i \in 1..n |-> readers[i]]
      /\ us = [i \in 1..n |-> us[i]]
      /\ \A i \in 1..n: Carried(parts[i], readers[i], us[i])
  BY DEF PartsAre
<1>0a. PICK u: u = Whole(f, us)
  OBVIOUS
<1>1. n \in Nat /\ Counts(f, n)
  BY ShapedCounts
<1>2. parts \in Seq(Seq(Nat)) /\ Len(parts) = n
  <2>1. parts \in [1..n -> Seq(Nat)]
    BY <1>0 DEF Carried
  <2> QED BY <1>0, <1>1, <2>1
<1>3. Len(readers) = n
  BY <1>0, <1>1
<1>4. PICK e: e = Prefix(f, n) \o FlattenSeq(parts)
  OBVIOUS
<1>5. ASSUME NEW c \in Seq(Nat) PROVE Composed(f, n, parts, readers, us, e, c)
  <2>1. PartsCarried(parts, readers, us, c)
    BY <1>0, <1>2 DEF PartsCarried, Carried
  <2> QED BY <1>1, <1>2, <1>3, <1>4, <2>1, Composes
<1>6. e \in Seq(Nat)
  <2>1. <<>> \in Seq(Nat)
    BY EmptySeq
  <2> QED BY <1>5, <2>1 DEF Composed
<1>7. ASSUME NEW c \in Seq(Nat)
      PROVE  LET count == ReadPrefix(f, e \o c) IN
             /\ e \o c \in Seq(Nat)
             /\ count.ok /\ count.v = n
             /\ ReadParts(f, readers, count.rest) = Accepted(u, c)
  <2>1. PICK after: after = FlattenSeq(parts) \o c
    OBVIOUS
  <2>2. /\ e \o c \in Seq(Nat) /\ ReadPrefix(f, e \o c) = Accepted(n, after)
        /\ ReadParts(f, readers, after) = Accepted(Whole(f, [i \in 1..n |-> us[i]]), c)
    BY <1>5, <2>1 DEF Composed
  <2>3. ReadParts(f, readers, after) = Accepted(u, c)
    BY <1>0, <1>0a, <2>2
  <2>4. PICK count: count = ReadPrefix(f, e \o c)
    OBVIOUS
  <2>5. count.ok /\ count.v = n /\ count.rest = after
    BY <2>2, <2>4 DEF Accepted
  <2> QED BY <2>2, <2>3, <2>4, <2>5
<1> QED BY <1>0a, <1>1, <1>3, <1>4, <1>6, <1>7 DEF FieldRead

\* What is written of a field is read from it: of one of leaves, of one of such
\* fields, and so on.
LEMMA Carried1 ==
  ASSUME NEW f, NEW exact \in BOOLEAN, Laid1(exact, f), NEW v,
         IsValue1(f, v), Admits1(f, v), Countable1(f, v)
  PROVE  Carried(Encode1(f, v), Reader(Read1, f), Narrowed1(f, v))
<1>1. CASE Leaf(f)
  <2>1. Laid0(exact, f) /\ IsLeafValue(f, v) /\ LeafAdmits(f, v) /\ LeafCountable(f, v)
    BY <1>1 DEF Laid1, LaidIn, IsValue1, IsValueIn, Admits1, AdmitsIn, Countable1, CountableIn
  <2>2. Carried(EncodeLeaf(f, v), Reader(ReadLeaf, f), LeafNarrowed(f, v))
    BY <2>1, LeafCarried
  <2>3. /\ Encode1(f, v) = EncodeLeaf(f, v) /\ Reader(Read1, f) = Reader(ReadLeaf, f)
       /\ Narrowed1(f, v) = LeafNarrowed(f, v)
    BY <1>1 DEF Encode1, EncodeIn, Read1, ReadIn, Reader, Narrowed1, NarrowedIn
  <2> QED BY <2>2, <2>3
<1>2. CASE ~Leaf(f)
  <2>1. PICK vs, n, of: vs = Inside(f, v) /\ n = Len(vs) /\ of = Layouts(f, n)
    OBVIOUS
  <2>2. Shaped(exact, f) /\ ShapedValue(f, v) /\ Len(of) = n
    BY <1>2, <2>1 DEF Laid1, LaidIn, IsValue1, IsValueIn, Admits1, AdmitsIn, Countable1,
       CountableIn, ShapedValue, EachInside
  <2>3. ASSUME NEW i \in 1..n
        PROVE  Carried(EncodeLeaf(of[i], vs[i]), Reader(ReadLeaf, of[i]), LeafNarrowed(of[i], vs[i]))
    <3>1. IsLeafValue(of[i], vs[i]) /\ LeafAdmits(of[i], vs[i]) /\ LeafCountable(of[i], vs[i])
      BY <1>2, <2>1, <2>2 DEF IsValue1, IsValueIn, Admits1, AdmitsIn, Countable1,
         CountableIn, EachInside
    <3>2. Laid0(exact, of[i])
      BY <1>2, <2>1, <2>2 DEF Laid1, LaidIn, Layouts
    <3> QED BY <3>1, <3>2, LeafCarried
  <2>4. PICK parts, readers: /\ parts = [i \in 1..n |-> EncodeLeaf(of[i], vs[i])]
                            /\ readers = [i \in 1..n |-> Reader(ReadLeaf, of[i])]
    OBVIOUS
  <2>4a. PICK us, u: us = [i \in 1..n |-> LeafNarrowed(of[i], vs[i])] /\ u = Whole(f, us)
    OBVIOUS
  <2>5. PICK e: e = Prefix(f, n) \o FlattenSeq(parts)
    OBVIOUS
  <2>6. n \in Nat /\ FieldRead(f, u, readers, e)
    <3>1. /\ parts = [i \in 1..n |-> parts[i]] /\ readers = [i \in 1..n |-> readers[i]]
          /\ us = [i \in 1..n |-> us[i]]
      BY <2>4, <2>4a
    <3>2. PartsAre(parts, readers, us, n)
      BY <2>3, <2>4, <2>4a, <3>1 DEF PartsAre
    <3> QED BY <1>2, <2>1, <2>2, <2>4a, <2>5, <3>2, FieldCarried
  <2>7. Encode1(f, v) = e /\ Narrowed1(f, v) = u
    BY <1>2, <2>1, <2>2, <2>4, <2>4a, <2>5 DEF Encode1, EncodeIn, Narrowed1, NarrowedIn
  <2>8. ASSUME NEW c \in Seq(Nat)
        PROVE  e \o c \in Seq(Nat) /\ Read1(f, e \o c) = Accepted(u, c)
    <3>1. PICK b, count: b = e \o c /\ count = ReadPrefix(f, b)
      OBVIOUS
    <3>2. b \in Seq(Nat) /\ count.ok /\ count.v = n /\ ReadParts(f, readers, count.rest) = Accepted(u, c)
      BY <2>4, <2>6, <3>1 DEF FieldRead
    <3>3. readers = [i \in 1..Len(of) |-> [x \in Seq(Nat) |-> ReadLeaf(of[i], x)]]
      BY <2>2, <2>4 DEF Reader
    <3>4. Read1(f, b) = ReadParts(f, readers, count.rest)
      BY <1>2, <2>1, <3>1, <3>2, <3>3 DEF Read1, ReadIn
    <3> QED BY <3>1, <3>2, <3>4
  <2>9. e \in Seq(Nat)
    BY <2>6 DEF FieldRead
  <2> QED BY <2>7, <2>8, <2>9 DEF Carried, Reader
<1> QED BY <1>1, <1>2

\* Fields one level deeper.
LEMMA Carried2 ==
  ASSUME NEW f, NEW exact \in BOOLEAN, Laid2(exact, f), NEW v,
         IsValue2(f, v), Admits2(f, v), Countable2(f, v)
  PROVE  Carried(Encode2(f, v), Reader(Read2, f), Narrowed2(f, v))
<1>1. CASE Leaf(f)
  <2>1. Laid0(exact, f) /\ IsLeafValue(f, v) /\ LeafAdmits(f, v) /\ LeafCountable(f, v)
    BY <1>1 DEF Laid2, LaidIn, IsValue2, IsValueIn, Admits2, AdmitsIn, Countable2, CountableIn
  <2>2. Carried(EncodeLeaf(f, v), Reader(ReadLeaf, f), LeafNarrowed(f, v))
    BY <2>1, LeafCarried
  <2>3. /\ Encode2(f, v) = EncodeLeaf(f, v) /\ Reader(Read2, f) = Reader(ReadLeaf, f)
       /\ Narrowed2(f, v) = LeafNarrowed(f, v)
    BY <1>1 DEF Encode2, EncodeIn, Read2, ReadIn, Reader, Narrowed2, NarrowedIn
  <2> QED BY <2>2, <2>3
<1>2. CASE ~Leaf(f)
  <2>1. PICK vs, n, of: vs = Inside(f, v) /\ n = Len(vs) /\ of = Layouts(f, n)
    OBVIOUS
  <2>2. Shaped(exact, f) /\ ShapedValue(f, v) /\ Len(of) = n
    BY <1>2, <2>1 DEF Laid2, LaidIn, IsValue2, IsValueIn, Admits2, AdmitsIn, Countable2,
       CountableIn, ShapedValue, EachInside
  <2>3. ASSUME NEW i \in 1..n
        PROVE  Carried(Encode1(of[i], vs[i]), Reader(Read1, of[i]), Narrowed1(of[i], vs[i]))
    <3>1. IsValue1(of[i], vs[i]) /\ Admits1(of[i], vs[i]) /\ Countable1(of[i], vs[i])
      BY <1>2, <2>1, <2>2 DEF IsValue2, IsValueIn, Admits2, AdmitsIn, Countable2,
         CountableIn, EachInside
    <3>2. Laid1(exact, of[i])
      BY <1>2, <2>1, <2>2 DEF Laid2, LaidIn, Layouts
    <3> QED BY <3>1, <3>2, Carried1
  <2>4. PICK parts, readers: /\ parts = [i \in 1..n |-> Encode1(of[i], vs[i])]
                            /\ readers = [i \in 1..n |-> Reader(Read1, of[i])]
    OBVIOUS
  <2>4a. PICK us, u: us = [i \in 1..n |-> Narrowed1(of[i], vs[i])] /\ u = Whole(f, us)
    OBVIOUS
  <2>5. PICK e: e = Prefix(f, n) \o FlattenSeq(parts)
    OBVIOUS
  <2>6. n \in Nat /\ FieldRead(f, u, readers, e)
    <3>1. /\ parts = [i \in 1..n |-> parts[i]] /\ readers = [i \in 1..n |-> readers[i]]
          /\ us = [i \in 1..n |-> us[i]]
      BY <2>4, <2>4a
    <3>2. PartsAre(parts, readers, us, n)
      BY <2>3, <2>4, <2>4a, <3>1 DEF PartsAre
    <3> QED BY <1>2, <2>1, <2>2, <2>4a, <2>5, <3>2, FieldCarried
  <2>7. Encode2(f, v) = e /\ Narrowed2(f, v) = u
    BY <1>2, <2>1, <2>2, <2>4, <2>4a, <2>5 DEF Encode2, EncodeIn, Narrowed2, NarrowedIn
  <2>8. ASSUME NEW c \in Seq(Nat)
        PROVE  e \o c \in Seq(Nat) /\ Read2(f, e \o c) = Accepted(u, c)
    <3>1. PICK b, count: b = e \o c /\ count = ReadPrefix(f, b)
      OBVIOUS
    <3>2. b \in Seq(Nat) /\ count.ok /\ count.v = n /\ ReadParts(f, readers, count.rest) = Accepted(u, c)
      BY <2>4, <2>6, <3>1 DEF FieldRead
    <3>3. readers = [i \in 1..Len(of) |-> [x \in Seq(Nat) |-> Read1(of[i], x)]]
      BY <2>2, <2>4 DEF Reader
    <3>4. Read2(f, b) = ReadParts(f, readers, count.rest)
      BY <1>2, <2>1, <3>1, <3>2, <3>3 DEF Read2, ReadIn
    <3> QED BY <3>1, <3>2, <3>4
  <2>9. e \in Seq(Nat)
    BY <2>6 DEF FieldRead
  <2> QED BY <2>7, <2>8, <2>9 DEF Carried, Reader
<1> QED BY <1>1, <1>2

\* Two levels deeper.
LEMMA Carried3 ==
  ASSUME NEW f, NEW exact \in BOOLEAN, Laid3(exact, f), NEW v,
         IsValue3(f, v), Admits3(f, v), Countable3(f, v)
  PROVE  Carried(Encode3(f, v), Reader(Read3, f), Narrowed3(f, v))
<1>1. CASE Leaf(f)
  <2>1. Laid0(exact, f) /\ IsLeafValue(f, v) /\ LeafAdmits(f, v) /\ LeafCountable(f, v)
    BY <1>1 DEF Laid3, LaidIn, IsValue3, IsValueIn, Admits3, AdmitsIn, Countable3, CountableIn
  <2>2. Carried(EncodeLeaf(f, v), Reader(ReadLeaf, f), LeafNarrowed(f, v))
    BY <2>1, LeafCarried
  <2>3. /\ Encode3(f, v) = EncodeLeaf(f, v) /\ Reader(Read3, f) = Reader(ReadLeaf, f)
       /\ Narrowed3(f, v) = LeafNarrowed(f, v)
    BY <1>1 DEF Encode3, EncodeIn, Read3, ReadIn, Reader, Narrowed3, NarrowedIn
  <2> QED BY <2>2, <2>3
<1>2. CASE ~Leaf(f)
  <2>1. PICK vs, n, of: vs = Inside(f, v) /\ n = Len(vs) /\ of = Layouts(f, n)
    OBVIOUS
  <2>2. Shaped(exact, f) /\ ShapedValue(f, v) /\ Len(of) = n
    BY <1>2, <2>1 DEF Laid3, LaidIn, IsValue3, IsValueIn, Admits3, AdmitsIn, Countable3,
       CountableIn, ShapedValue, EachInside
  <2>3. ASSUME NEW i \in 1..n
        PROVE  Carried(Encode2(of[i], vs[i]), Reader(Read2, of[i]), Narrowed2(of[i], vs[i]))
    <3>1. IsValue2(of[i], vs[i]) /\ Admits2(of[i], vs[i]) /\ Countable2(of[i], vs[i])
      BY <1>2, <2>1, <2>2 DEF IsValue3, IsValueIn, Admits3, AdmitsIn, Countable3,
         CountableIn, EachInside
    <3>2. Laid2(exact, of[i])
      BY <1>2, <2>1, <2>2 DEF Laid3, LaidIn, Layouts
    <3> QED BY <3>1, <3>2, Carried2
  <2>4. PICK parts, readers: /\ parts = [i \in 1..n |-> Encode2(of[i], vs[i])]
                            /\ readers = [i \in 1..n |-> Reader(Read2, of[i])]
    OBVIOUS
  <2>4a. PICK us, u: us = [i \in 1..n |-> Narrowed2(of[i], vs[i])] /\ u = Whole(f, us)
    OBVIOUS
  <2>5. PICK e: e = Prefix(f, n) \o FlattenSeq(parts)
    OBVIOUS
  <2>6. n \in Nat /\ FieldRead(f, u, readers, e)
    <3>1. /\ parts = [i \in 1..n |-> parts[i]] /\ readers = [i \in 1..n |-> readers[i]]
          /\ us = [i \in 1..n |-> us[i]]
      BY <2>4, <2>4a
    <3>2. PartsAre(parts, readers, us, n)
      BY <2>3, <2>4, <2>4a, <3>1 DEF PartsAre
    <3> QED BY <1>2, <2>1, <2>2, <2>4a, <2>5, <3>2, FieldCarried
  <2>7. Encode3(f, v) = e /\ Narrowed3(f, v) = u
    BY <1>2, <2>1, <2>2, <2>4, <2>4a, <2>5 DEF Encode3, EncodeIn, Narrowed3, NarrowedIn
  <2>8. ASSUME NEW c \in Seq(Nat)
        PROVE  e \o c \in Seq(Nat) /\ Read3(f, e \o c) = Accepted(u, c)
    <3>1. PICK b, count: b = e \o c /\ count = ReadPrefix(f, b)
      OBVIOUS
    <3>2. b \in Seq(Nat) /\ count.ok /\ count.v = n /\ ReadParts(f, readers, count.rest) = Accepted(u, c)
      BY <2>4, <2>6, <3>1 DEF FieldRead
    <3>3. readers = [i \in 1..Len(of) |-> [x \in Seq(Nat) |-> Read2(of[i], x)]]
      BY <2>2, <2>4 DEF Reader
    <3>4. Read3(f, b) = ReadParts(f, readers, count.rest)
      BY <1>2, <2>1, <3>1, <3>2, <3>3 DEF Read3, ReadIn
    <3> QED BY <3>1, <3>2, <3>4
  <2>9. e \in Seq(Nat)
    BY <2>6 DEF FieldRead
  <2> QED BY <2>7, <2>8, <2>9 DEF Carried, Reader
<1> QED BY <1>1, <1>2

\* Three levels deeper: the fields of a body.
LEMMA Carried4 ==
  ASSUME NEW f, NEW exact \in BOOLEAN, Laid4(exact, f), NEW v,
         IsValue4(f, v), Admits4(f, v), Countable4(f, v)
  PROVE  Carried(Encode4(f, v), Reader(Read4, f), Narrowed4(f, v))
<1>1. CASE Leaf(f)
  <2>1. Laid0(exact, f) /\ IsLeafValue(f, v) /\ LeafAdmits(f, v) /\ LeafCountable(f, v)
    BY <1>1 DEF Laid4, LaidIn, IsValue4, IsValueIn, Admits4, AdmitsIn, Countable4, CountableIn
  <2>2. Carried(EncodeLeaf(f, v), Reader(ReadLeaf, f), LeafNarrowed(f, v))
    BY <2>1, LeafCarried
  <2>3. /\ Encode4(f, v) = EncodeLeaf(f, v) /\ Reader(Read4, f) = Reader(ReadLeaf, f)
       /\ Narrowed4(f, v) = LeafNarrowed(f, v)
    BY <1>1 DEF Encode4, EncodeIn, Read4, ReadIn, Reader, Narrowed4, NarrowedIn
  <2> QED BY <2>2, <2>3
<1>2. CASE ~Leaf(f)
  <2>1. PICK vs, n, of: vs = Inside(f, v) /\ n = Len(vs) /\ of = Layouts(f, n)
    OBVIOUS
  <2>2. Shaped(exact, f) /\ ShapedValue(f, v) /\ Len(of) = n
    BY <1>2, <2>1 DEF Laid4, LaidIn, IsValue4, IsValueIn, Admits4, AdmitsIn, Countable4,
       CountableIn, ShapedValue, EachInside
  <2>3. ASSUME NEW i \in 1..n
        PROVE  Carried(Encode3(of[i], vs[i]), Reader(Read3, of[i]), Narrowed3(of[i], vs[i]))
    <3>1. IsValue3(of[i], vs[i]) /\ Admits3(of[i], vs[i]) /\ Countable3(of[i], vs[i])
      BY <1>2, <2>1, <2>2 DEF IsValue4, IsValueIn, Admits4, AdmitsIn, Countable4,
         CountableIn, EachInside
    <3>2. Laid3(exact, of[i])
      BY <1>2, <2>1, <2>2 DEF Laid4, LaidIn, Layouts
    <3> QED BY <3>1, <3>2, Carried3
  <2>4. PICK parts, readers: /\ parts = [i \in 1..n |-> Encode3(of[i], vs[i])]
                            /\ readers = [i \in 1..n |-> Reader(Read3, of[i])]
    OBVIOUS
  <2>4a. PICK us, u: us = [i \in 1..n |-> Narrowed3(of[i], vs[i])] /\ u = Whole(f, us)
    OBVIOUS
  <2>5. PICK e: e = Prefix(f, n) \o FlattenSeq(parts)
    OBVIOUS
  <2>6. n \in Nat /\ FieldRead(f, u, readers, e)
    <3>1. /\ parts = [i \in 1..n |-> parts[i]] /\ readers = [i \in 1..n |-> readers[i]]
          /\ us = [i \in 1..n |-> us[i]]
      BY <2>4, <2>4a
    <3>2. PartsAre(parts, readers, us, n)
      BY <2>3, <2>4, <2>4a, <3>1 DEF PartsAre
    <3> QED BY <1>2, <2>1, <2>2, <2>4a, <2>5, <3>2, FieldCarried
  <2>7. Encode4(f, v) = e /\ Narrowed4(f, v) = u
    BY <1>2, <2>1, <2>2, <2>4, <2>4a, <2>5 DEF Encode4, EncodeIn, Narrowed4, NarrowedIn
  <2>8. ASSUME NEW c \in Seq(Nat)
        PROVE  e \o c \in Seq(Nat) /\ Read4(f, e \o c) = Accepted(u, c)
    <3>1. PICK b, count: b = e \o c /\ count = ReadPrefix(f, b)
      OBVIOUS
    <3>2. b \in Seq(Nat) /\ count.ok /\ count.v = n /\ ReadParts(f, readers, count.rest) = Accepted(u, c)
      BY <2>4, <2>6, <3>1 DEF FieldRead
    <3>3. readers = [i \in 1..Len(of) |-> [x \in Seq(Nat) |-> Read3(of[i], x)]]
      BY <2>2, <2>4 DEF Reader
    <3>4. Read4(f, b) = ReadParts(f, readers, count.rest)
      BY <1>2, <2>1, <3>1, <3>2, <3>3 DEF Read4, ReadIn
    <3> QED BY <3>1, <3>2, <3>4
  <2>9. e \in Seq(Nat)
    BY <2>6 DEF FieldRead
  <2> QED BY <2>7, <2>8, <2>9 DEF Carried, Reader
<1> QED BY <1>1, <1>2

-----------------------------------------------------------------------------
(* What is written is cells, whatever the lengths.                         *)

\* A leaf is written as cells.
LEMMA LeafCells ==
  ASSUME NEW f, NEW exact \in BOOLEAN, Laid0(exact, f), NEW v, IsLeafValue(f, v)
  PROVE  EncodeLeaf(f, v) \in Seq(Nat)
<1>1. f.width \in 0..U64
  BY Widths DEF Laid0
<1>2. CASE f.kind = "number"
  <2>1. v \in Int /\ EncodeLeaf(f, v) = Put(f.width, v)
    BY <1>2 DEF IsLeafValue, EncodeLeaf
  <2> QED BY <1>1, <2>1, PutCells
<1>3. CASE f.kind \in {"text", "loose"}
  <2>1. v \in Seq(Nat) /\ EncodeLeaf(f, v) = Put(f.width, Len(v)) \o v
    BY <1>3 DEF IsLeafValue, EncodeLeaf
  <2>2. PICK n \in Int: n = Len(v)
    BY <2>1
  <2>3. Put(f.width, n) \in Seq(Nat)
    BY <1>1, PutCells
  <2> QED BY <2>1, <2>2, <2>3
<1> QED BY <1>2, <1>3 DEF Laid0

\* So is a field whose parts are.
LEMMA FieldCells ==
  ASSUME NEW f, NEW exact \in BOOLEAN, Shaped(exact, f), ~Leaf(f), NEW v,
         f.kind # "given" => Len(v) \in Nat, NEW n, n = Len(Inside(f, v)),
         NEW parts, parts = [i \in 1..n |-> parts[i]], \A i \in 1..n: parts[i] \in Seq(Nat)
  PROVE  Prefix(f, n) \o FlattenSeq(parts) \in Seq(Nat)
<1>1. n \in Nat /\ Prefix(f, n) \in Seq(Nat)
  <2>1. CASE f.kind = "given"
    <3>1. Inside(f, v) = <<v>> /\ Len(<<v>>) = 1 /\ <<1>> \in Seq(Nat)
      BY <2>1 DEF Inside
    <3> QED BY <2>1, <3>1 DEF Prefix
  <2>2. CASE f.kind = "row"
    <3>1. Inside(f, v) = v /\ <<>> \in Seq(Nat)
      BY <2>2, EmptySeq DEF Inside
    <3> QED BY <2>2, <3>1 DEF Prefix
  <2>3. CASE f.kind = "list"
    <3>1. n \in Nat /\ n \in Int /\ f.width \in 0..U64
      BY <2>3, Widths DEF Inside, Shaped
    <3>2. Put(f.width, n) \in Seq(Nat)
      BY <3>1, PutCells
    <3> QED BY <2>3, <3>1, <3>2 DEF Prefix
  <2> QED BY <2>1, <2>2, <2>3 DEF Shaped
<1>2. parts \in Seq(Seq(Nat))
  <2>1. parts \in [1..n -> Seq(Nat)]
    OBVIOUS
  <2> QED BY <1>1, <2>1
<1>3. FlattenSeq(parts) \in Seq(Nat)
  <2>1. PICK none \in Seq(Nat): none = <<>>
    BY EmptySeq
  <2>2. PICK s: Trail(s, parts, none)
    BY <1>2, TrailOf
  <2> QED BY <1>2, <2>2, Flattened
<1> QED BY <1>1, <1>3

\* So is a field of leaves, of fields of leaves, and so on.
LEMMA Cells1 ==
  ASSUME NEW f, NEW exact \in BOOLEAN, Laid1(exact, f), NEW v, IsValue1(f, v)
  PROVE  Encode1(f, v) \in Seq(Nat)
<1>1. CASE Leaf(f)
  <2>1. Laid0(exact, f) /\ IsLeafValue(f, v) /\ Encode1(f, v) = EncodeLeaf(f, v)
    BY <1>1 DEF Laid1, LaidIn, IsValue1, IsValueIn, Encode1, EncodeIn
  <2> QED BY <2>1, LeafCells
<1>2. CASE ~Leaf(f)
  <2>1. PICK vs, n, of: vs = Inside(f, v) /\ n = Len(vs) /\ of = Layouts(f, n)
    OBVIOUS
  <2>2. Shaped(exact, f) /\ (f.kind # "given" => Len(v) \in Nat) /\ Len(of) = n
    BY <1>2, <2>1 DEF Laid1, LaidIn, IsValue1, IsValueIn, EachInside
  <2>3. PICK parts: parts = [i \in 1..n |-> EncodeLeaf(of[i], vs[i])]
    OBVIOUS
  <2>4. ASSUME NEW i \in 1..n PROVE parts[i] \in Seq(Nat)
    <3>1. IsLeafValue(of[i], vs[i])
      BY <1>2, <2>1, <2>2 DEF IsValue1, IsValueIn, EachInside
    <3>2. Laid0(exact, of[i])
      BY <1>2, <2>1, <2>2 DEF Laid1, LaidIn, Layouts
    <3>3. EncodeLeaf(of[i], vs[i]) \in Seq(Nat)
      BY <3>1, <3>2, LeafCells
    <3> QED BY <2>3, <3>3
  <2>5. Encode1(f, v) = Prefix(f, n) \o FlattenSeq(parts)
    BY <1>2, <2>1, <2>2, <2>3 DEF Encode1, EncodeIn
  <2>6. parts = [i \in 1..n |-> parts[i]]
    BY <2>3
  <2> QED BY <1>2, <2>1, <2>2, <2>4, <2>5, <2>6, FieldCells
<1> QED BY <1>1, <1>2

\* Fields one level deeper.
LEMMA Cells2 ==
  ASSUME NEW f, NEW exact \in BOOLEAN, Laid2(exact, f), NEW v, IsValue2(f, v)
  PROVE  Encode2(f, v) \in Seq(Nat)
<1>1. CASE Leaf(f)
  <2>1. Laid0(exact, f) /\ IsLeafValue(f, v) /\ Encode2(f, v) = EncodeLeaf(f, v)
    BY <1>1 DEF Laid2, LaidIn, IsValue2, IsValueIn, Encode2, EncodeIn
  <2> QED BY <2>1, LeafCells
<1>2. CASE ~Leaf(f)
  <2>1. PICK vs, n, of: vs = Inside(f, v) /\ n = Len(vs) /\ of = Layouts(f, n)
    OBVIOUS
  <2>2. Shaped(exact, f) /\ (f.kind # "given" => Len(v) \in Nat) /\ Len(of) = n
    BY <1>2, <2>1 DEF Laid2, LaidIn, IsValue2, IsValueIn, EachInside
  <2>3. PICK parts: parts = [i \in 1..n |-> Encode1(of[i], vs[i])]
    OBVIOUS
  <2>4. ASSUME NEW i \in 1..n PROVE parts[i] \in Seq(Nat)
    <3>1. IsValue1(of[i], vs[i])
      BY <1>2, <2>1, <2>2 DEF IsValue2, IsValueIn, EachInside
    <3>2. Laid1(exact, of[i])
      BY <1>2, <2>1, <2>2 DEF Laid2, LaidIn, Layouts
    <3>3. Encode1(of[i], vs[i]) \in Seq(Nat)
      BY <3>1, <3>2, Cells1
    <3> QED BY <2>3, <3>3
  <2>5. Encode2(f, v) = Prefix(f, n) \o FlattenSeq(parts)
    BY <1>2, <2>1, <2>2, <2>3 DEF Encode2, EncodeIn
  <2>6. parts = [i \in 1..n |-> parts[i]]
    BY <2>3
  <2> QED BY <1>2, <2>1, <2>2, <2>4, <2>5, <2>6, FieldCells
<1> QED BY <1>1, <1>2

\* Two levels deeper.
LEMMA Cells3 ==
  ASSUME NEW f, NEW exact \in BOOLEAN, Laid3(exact, f), NEW v, IsValue3(f, v)
  PROVE  Encode3(f, v) \in Seq(Nat)
<1>1. CASE Leaf(f)
  <2>1. Laid0(exact, f) /\ IsLeafValue(f, v) /\ Encode3(f, v) = EncodeLeaf(f, v)
    BY <1>1 DEF Laid3, LaidIn, IsValue3, IsValueIn, Encode3, EncodeIn
  <2> QED BY <2>1, LeafCells
<1>2. CASE ~Leaf(f)
  <2>1. PICK vs, n, of: vs = Inside(f, v) /\ n = Len(vs) /\ of = Layouts(f, n)
    OBVIOUS
  <2>2. Shaped(exact, f) /\ (f.kind # "given" => Len(v) \in Nat) /\ Len(of) = n
    BY <1>2, <2>1 DEF Laid3, LaidIn, IsValue3, IsValueIn, EachInside
  <2>3. PICK parts: parts = [i \in 1..n |-> Encode2(of[i], vs[i])]
    OBVIOUS
  <2>4. ASSUME NEW i \in 1..n PROVE parts[i] \in Seq(Nat)
    <3>1. IsValue2(of[i], vs[i])
      BY <1>2, <2>1, <2>2 DEF IsValue3, IsValueIn, EachInside
    <3>2. Laid2(exact, of[i])
      BY <1>2, <2>1, <2>2 DEF Laid3, LaidIn, Layouts
    <3>3. Encode2(of[i], vs[i]) \in Seq(Nat)
      BY <3>1, <3>2, Cells2
    <3> QED BY <2>3, <3>3
  <2>5. Encode3(f, v) = Prefix(f, n) \o FlattenSeq(parts)
    BY <1>2, <2>1, <2>2, <2>3 DEF Encode3, EncodeIn
  <2>6. parts = [i \in 1..n |-> parts[i]]
    BY <2>3
  <2> QED BY <1>2, <2>1, <2>2, <2>4, <2>5, <2>6, FieldCells
<1> QED BY <1>1, <1>2

\* Three levels deeper: the fields of a body.
LEMMA Cells4 ==
  ASSUME NEW f, NEW exact \in BOOLEAN, Laid4(exact, f), NEW v, IsValue4(f, v)
  PROVE  Encode4(f, v) \in Seq(Nat)
<1>1. CASE Leaf(f)
  <2>1. Laid0(exact, f) /\ IsLeafValue(f, v) /\ Encode4(f, v) = EncodeLeaf(f, v)
    BY <1>1 DEF Laid4, LaidIn, IsValue4, IsValueIn, Encode4, EncodeIn
  <2> QED BY <2>1, LeafCells
<1>2. CASE ~Leaf(f)
  <2>1. PICK vs, n, of: vs = Inside(f, v) /\ n = Len(vs) /\ of = Layouts(f, n)
    OBVIOUS
  <2>2. Shaped(exact, f) /\ (f.kind # "given" => Len(v) \in Nat) /\ Len(of) = n
    BY <1>2, <2>1 DEF Laid4, LaidIn, IsValue4, IsValueIn, EachInside
  <2>3. PICK parts: parts = [i \in 1..n |-> Encode3(of[i], vs[i])]
    OBVIOUS
  <2>4. ASSUME NEW i \in 1..n PROVE parts[i] \in Seq(Nat)
    <3>1. IsValue3(of[i], vs[i])
      BY <1>2, <2>1, <2>2 DEF IsValue4, IsValueIn, EachInside
    <3>2. Laid3(exact, of[i])
      BY <1>2, <2>1, <2>2 DEF Laid4, LaidIn, Layouts
    <3>3. Encode3(of[i], vs[i]) \in Seq(Nat)
      BY <3>1, <3>2, Cells3
    <3> QED BY <2>3, <3>3
  <2>5. Encode4(f, v) = Prefix(f, n) \o FlattenSeq(parts)
    BY <1>2, <2>1, <2>2, <2>3 DEF Encode4, EncodeIn
  <2>6. parts = [i \in 1..n |-> parts[i]]
    BY <2>3
  <2> QED BY <1>2, <2>1, <2>2, <2>4, <2>5, <2>6, FieldCells
<1> QED BY <1>1, <1>2

-----------------------------------------------------------------------------
(* What was read is what was written.                                      *)

\* Recovered(r, e, c): the reading r of c left what follows e in it.
Recovered(r, e, c) ==
  /\ r = Accepted(r.v, r.rest) /\ r.rest \in Seq(Byte)
  /\ e \in Seq(Nat) /\ c = e \o r.rest

\* A number that was read, written again, is the cells it was read from.
LEMMA NumberRecovered ==
  ASSUME NEW f, f.kind = "number", f.width \in 1..U64, NEW c \in Seq(Byte), ReadLeaf(f, c).ok
  PROVE  Recovered(ReadLeaf(f, c), EncodeLeaf(f, ReadLeaf(f, c).v), c)
<1>1. PICK w, r: w \in 1..U64 /\ w = f.width /\ r = ReadLeaf(f, c)
  OBVIOUS
<1>2. w \in 0..U64 /\ w \in Nat
  BY <1>1, Widths
<1>3. r = ReadNumber(f, c)
  BY <1>1 DEF ReadLeaf
<1>4. ~(Len(c) < w)
  BY <1>1, <1>3 DEF ReadNumber, Refused
<1>5. PICK n: n = Got(w, c)
  OBVIOUS
<1>6. r = Accepted(n, Drop(w, c))
  BY <1>1, <1>3, <1>4, <1>5 DEF ReadNumber, Refused
<1>7. /\ Put(w, n) \in Seq(Nat) /\ Drop(w, c) \in Seq(Byte) /\ c = Put(w, n) \o Drop(w, c)
  <2>1. Len(c) >= w
    BY <1>2, <1>4
  <2> QED BY <1>2, <1>5, <2>1, PutReadBack
<1>8. EncodeLeaf(f, n) = Put(w, n)
  BY <1>1 DEF EncodeLeaf
<1>9. r.v = n /\ r.rest = Drop(w, c)
  BY <1>6 DEF Accepted
<1> QED BY <1>1, <1>6, <1>7, <1>8, <1>9 DEF Recovered

\* So is a text, if it is not a loose one.
LEMMA TextRecovered ==
  ASSUME NEW f, f.kind = "text", f.width \in 1..U64, NEW c \in Seq(Byte), ReadLeaf(f, c).ok
  PROVE  Recovered(ReadLeaf(f, c), EncodeLeaf(f, ReadLeaf(f, c).v), c)
<1>1. PICK w, r: w \in 1..U64 /\ w = f.width /\ r = ReadLeaf(f, c)
  OBVIOUS
<1>2. w \in 0..U64 /\ w \in Nat
  BY <1>1, Widths
<1>3. r = ReadText(f, c)
  BY <1>1 DEF ReadLeaf
<1>4. ~(Len(c) < w)
  BY <1>1, <1>3 DEF ReadText, Refused
<1>5. PICK n, t: n = Got(w, c) /\ t = Drop(w, c)
  OBVIOUS
<1>6. /\ n \in Nat /\ Put(w, n) \in Seq(Nat) /\ t \in Seq(Byte) /\ c = Put(w, n) \o t
  <2>1. Len(c) >= w
    BY <1>2, <1>4
  <2> QED BY <1>2, <1>5, <2>1, PutReadBack
<1>7. r = Take(n, t)
  <2>1. ReadText(f, c) = IF n < f.min THEN Refused(t) ELSE Take(n, t)
    BY <1>1, <1>4, <1>5, Zenon DEF ReadText
  <2> QED BY <1>1, <1>3, <2>1 DEF Refused
<1>8. ~(Len(t) < n)
  BY <1>1, <1>7 DEF Take, Refused
<1>9. PICK x: x = SubSeq(t, 1, n)
  OBVIOUS
<1>10. r = Accepted(x, Drop(n, t)) /\ r.v = x /\ r.rest = Drop(n, t)
  BY <1>7, <1>8, <1>9 DEF Take, Accepted
<1>11. /\ x \in Seq(Byte) /\ Drop(n, t) \in Seq(Byte) /\ Len(x) = n /\ t = x \o Drop(n, t)
  <2>1. n <= Len(t)
    BY <1>6, <1>8
  <2> QED BY <1>6, <1>9, <2>1, Parted
<1>12. EncodeLeaf(f, x) = Put(w, n) \o x
  BY <1>1, <1>11 DEF EncodeLeaf
<1>13. Put(w, n) \o x \in Seq(Nat) /\ c = (Put(w, n) \o x) \o Drop(n, t)
  <2>1. PICK p \in Seq(Nat), y \in Seq(Nat), z \in Seq(Nat): p = Put(w, n) /\ y = x /\ z = Drop(n, t)
    BY <1>6, <1>11, BytesAreCells
  <2>2. Associates(p, y, z)
    BY Associated
  <2>3. p \o y \in Seq(Nat)
    OBVIOUS
  <2> QED BY <1>6, <1>11, <2>1, <2>2, <2>3 DEF Associates
<1> QED BY <1>1, <1>10, <1>11, <1>12, <1>13 DEF Recovered

\* So is each field that has no parts.
LEMMA LeafRecovered ==
  ASSUME NEW f, Laid0(TRUE, f), NEW c \in Seq(Byte), ReadLeaf(f, c).ok
  PROVE  Recovered(ReadLeaf(f, c), EncodeLeaf(f, ReadLeaf(f, c).v), c)
<1>1. CASE f.kind = "number"
  BY <1>1, NumberRecovered DEF Laid0
<1>2. CASE f.kind = "text"
  BY <1>2, TextRecovered DEF Laid0
<1> QED BY <1>1, <1>2 DEF Laid0

\* How many parts an exact field has is read as it was written.
Counted(f, c, n, t) ==
  /\ n \in Nat /\ n = Len(Layouts(f, n)) /\ (f.kind = "given" => n = 1)
  /\ Prefix(f, n) \in Seq(Nat) /\ t \in Seq(Byte) /\ c = Prefix(f, n) \o t

\* So is a number of parts.
LEMMA PrefixRecovered ==
  ASSUME NEW f, Shaped(TRUE, f), ~Leaf(f), NEW c \in Seq(Byte), ReadPrefix(f, c).ok
  PROVE  Counted(f, c, ReadPrefix(f, c).v, ReadPrefix(f, c).rest)
<1>1. PICK r: r = ReadPrefix(f, c)
  OBVIOUS
<1>2. CASE f.kind = "row"
  <2>1. r = Accepted(Len(f.of), c)
    BY <1>1, <1>2 DEF ReadPrefix
  <2>2. r.v = Len(f.of) /\ r.rest = c /\ Len(f.of) \in Nat
    BY <1>2, <2>1 DEF Accepted, Shaped
  <2>3. Prefix(f, r.v) = <<>> /\ Layouts(f, r.v) = f.of
    BY <1>2 DEF Prefix, Layouts
  <2>4. <<>> \in Seq(Nat) /\ c = <<>> \o c
    <3>1. c \in Seq(Nat)
      BY BytesAreCells
    <3> QED BY <3>1, EmptySeq, ConcatEmptySeq
  <2> QED BY <1>1, <1>2, <2>2, <2>3, <2>4 DEF Counted
<1>3. CASE f.kind = "given"
  <2>1. r = IF c = <<>> \/ Head(c) # 1 THEN Refused(c) ELSE Accepted(1, Tail(c))
    BY <1>1, <1>3 DEF ReadPrefix
  <2>2. c # <<>> /\ Head(c) = 1
    BY <1>1, <2>1 DEF Refused
  <2>3. r.v = 1 /\ r.rest = Tail(c)
    BY <2>1, <2>2 DEF Accepted
  <2>4. Tail(c) \in Seq(Byte) /\ c = <<1>> \o Tail(c)
    BY <2>2
  <2>5. Prefix(f, 1) = <<1>> /\ <<1>> \in Seq(Nat) /\ Len(Layouts(f, 1)) = 1
    BY <1>3 DEF Prefix, Layouts
  <2>6. Counted(f, c, 1, Tail(c))
    <3>1. 1 \in Nat
      OBVIOUS
    <3> QED BY <2>4, <2>5, <3>1 DEF Counted
  <2> QED BY <1>1, <2>3, <2>6
<1>4. CASE f.kind = "list"
  <2>1. PICK w \in 1..U64: w = f.width
    BY <1>4 DEF Shaped
  <2>2. w \in 0..U64 /\ w \in Nat
    BY Widths
  <2>3. f.how \in {"counted", "strict"}
    BY <1>4 DEF Shaped
  <2>4. ~(Len(c) < w)
    BY <1>1, <1>4, <2>1, <2>3 DEF ReadPrefix, Refused
  <2>5. PICK n, t: n = Got(w, c) /\ t = Drop(w, c)
    OBVIOUS
  <2>6. r = IF f.how = "strict" /\ n > 1 THEN Refused(c) ELSE Accepted(n, t)
    <3>1. ReadPrefix(f, c) =
            CASE f.how = "strict" -> IF n > 1 THEN Refused(c) ELSE Accepted(n, t)
              [] f.how = "any" -> Accepted(IF n = 0 THEN 0 ELSE 1, t)
              [] f.how = "one" -> Accepted(IF n = 1 THEN 1 ELSE 0, t)
              [] OTHER -> Accepted(n, t)
      BY <1>4, <2>1, <2>4, <2>5 DEF ReadPrefix
    <3> QED BY <1>1, <2>3, <3>1
  <2>7. r.v = n /\ r.rest = t
    BY <1>1, <2>6 DEF Accepted, Refused
  <2>8. n \in Nat /\ Put(w, n) \in Seq(Nat) /\ t \in Seq(Byte) /\ c = Put(w, n) \o t
    <3>1. Len(c) >= w
      BY <2>2, <2>4
    <3> QED BY <2>2, <2>5, <3>1, PutReadBack
  <2>9. Prefix(f, n) = Put(w, n) /\ Len(Layouts(f, n)) = n
    BY <1>4, <2>1, <2>8 DEF Prefix, Layouts
  <2> QED BY <1>1, <1>4, <2>7, <2>8, <2>9 DEF Counted
<1> QED BY <1>2, <1>3, <1>4 DEF Shaped

\* A reader that accepts leaves cells of what it was given.
Leaves(r) == \A c \in Seq(Byte): r[c].ok => r[c] = Accepted(r[c].v, r[c].rest) /\ r[c].rest \in Seq(Byte)

\* The readings of the parts of a field are those of the field.
FieldReading(f, n, b, readers, s, vs) ==
  /\ Readings(readers, n, s, b) /\ vs = [i \in 1..n |-> readers[i][s[i - 1]].v]
  /\ ReadParts(f, readers, b) = Accepted(Whole(f, vs), s[n]) /\ Inside(f, Whole(f, vs)) = vs

\* A field whose reader accepts it was read by the readers of its parts, one after the other.
LEMMA FieldReadings ==
  ASSUME NEW f, Shaped(TRUE, f), ~Leaf(f), NEW n \in Nat, NEW b \in Seq(Byte),
         f.kind = "given" => n = 1, NEW readers, Len(readers) = n,
         ReadParts(f, readers, b).ok, \A i \in 1..n: Leaves(readers[i])
  PROVE  \E s, vs: FieldReading(f, n, b, readers, s, vs)
<1>1. f.kind = "list" => f.how # "lax"
  BY DEF Shaped
<1>2. PICK read: read = ReadEach(readers, FALSE, b)
  OBVIOUS
<1>3. ReadParts(f, readers, b) = IF read.ok THEN Accepted(Whole(f, read.v), read.rest)
                                ELSE Refused(read.rest)
  <2>1. (f.kind = "list" /\ f.how = "lax") = FALSE
    BY <1>1
  <2> QED BY <1>2, <2>1 DEF ReadParts
<1>4. read.ok
  BY <1>3 DEF Refused
<1>5. PICK s: Readings(readers, n, s, b)
  <2>1. KeepsBytes(readers, n)
    BY DEF Leaves, KeepsBytes
  <2> QED BY <1>2, <1>4, <2>1, EachTrace
<1>6. /\ s \in [0..n -> Seq(Byte)] /\ s[0] = b
      /\ \A i \in 1..n: readers[i][s[i - 1]].ok /\ s[i] = readers[i][s[i - 1]].rest
  BY <1>5 DEF Readings
<1>7. PICK vs: vs = [i \in 1..n |-> readers[i][s[i - 1]].v]
  OBVIOUS
<1>8. Stepwise(readers, n, s, vs)
  <2>1. ASSUME NEW i \in 1..n PROVE readers[i][s[i - 1]] = Accepted(vs[i], s[i])
    <3>1. i - 1 \in 0..n
      OBVIOUS
    <3>2. PICK x \in Seq(Byte): x = s[i - 1]
      BY <1>6, <3>1
    <3>3. readers[i][x].ok /\ s[i] = readers[i][x].rest /\ vs[i] = readers[i][x].v
      BY <1>6, <1>7, <3>2
    <3>4. readers[i][x] = Accepted(readers[i][x].v, readers[i][x].rest)
      BY <3>3 DEF Leaves
    <3> QED BY <3>2, <3>3, <3>4
  <2>2. s \in [0..n -> Seq(Nat)]
    BY <1>6, BytesAreCells
  <2> QED BY <2>1, <2>2 DEF Stepwise
<1>9. AllRead(readers, FALSE, n, s[0], vs, s[n])
  BY <1>8, EachRead
<1>10. read = Accepted(vs, s[n])
  <2>1. [i \in 1..n |-> vs[i]] = vs
    BY <1>7
  <2> QED BY <1>2, <1>6, <1>9, <2>1 DEF AllRead
<1>11. ReadParts(f, readers, b) = Accepted(Whole(f, vs), s[n])
  BY <1>3, <1>10 DEF Accepted
<1>12. Inside(f, Whole(f, vs)) = vs
  <2>1. CASE f.kind = "given"
    <3>1. Inside(f, Whole(f, vs)) = <<vs[1]>>
      BY <2>1 DEF Inside, Whole
    <3>2. n = 1
      BY <2>1
    <3> QED BY <1>7, <3>1, <3>2
  <2>2. CASE f.kind # "given"
    BY <2>2 DEF Inside, Whole
  <2> QED BY <2>1, <2>2
<1> QED BY <1>5, <1>7, <1>11, <1>12 DEF FieldReading

\* A field whose parts are recovered is.
LEMMA FieldRecovered ==
  ASSUME NEW f, NEW n \in Nat, NEW c \in Seq(Byte), NEW b, Counted(f, c, n, b),
         NEW readers, NEW s, Readings(readers, n, s, b), NEW parts, parts = [i \in 1..n |-> parts[i]],
         \A i \in 1..n: parts[i] \in Seq(Nat) /\ s[i - 1] = parts[i] \o s[i],
         NEW r, NEW v, r = Accepted(v, s[n])
  PROVE  Recovered(r, Prefix(f, n) \o FlattenSeq(parts), c)
<1>1. PICK p \in Seq(Nat): p = Prefix(f, n) /\ b \in Seq(Byte) /\ c = p \o b
  BY DEF Counted
<1>2. parts \in Seq(Seq(Nat)) /\ Len(parts) = n
  <2>1. parts \in [1..n -> Seq(Nat)]
    OBVIOUS
  <2> QED BY <2>1
<1>3. s \in [0..n -> Seq(Byte)] /\ s[0] = b
  BY DEF Readings
<1>4. s \in [0..n -> Seq(Nat)] /\ s[n] \in Seq(Byte) /\ s[n] \in Seq(Nat)
  <2>1. n \in 0..n
    OBVIOUS
  <2> QED BY <1>3, <2>1, BytesAreCells
<1>5. PICK z \in Seq(Nat): z = s[n] /\ Trail(s, parts, z)
  BY <1>2, <1>4 DEF Trail
<1>6. PICK q \in Seq(Nat): q = FlattenSeq(parts) /\ b = q \o z
  <2>1. FlattenSeq(parts) \in Seq(Nat) /\ s[0] = FlattenSeq(parts) \o z
    BY <1>2, <1>5, Flattened
  <2> QED BY <1>3, <2>1
<1>7. Associates(p, q, z)
  BY Associated
<1>8. p \o q \in Seq(Nat)
  OBVIOUS
<1>9. c = (p \o q) \o z
  BY <1>1, <1>6, <1>7 DEF Associates
<1> QED BY <1>1, <1>4, <1>5, <1>6, <1>8, <1>9 DEF Recovered, Accepted

\* What is read of an exact field is what was written: of one of leaves, of one
\* of such fields, and so on.
LEMMA Recovered1 ==
  ASSUME NEW f, Laid1(TRUE, f), NEW c \in Seq(Byte), Read1(f, c).ok
  PROVE  Recovered(Read1(f, c), Encode1(f, Read1(f, c).v), c)
<1>0. c \in Seq(Nat)
  BY BytesAreCells
<1>1. CASE Leaf(f)
  <2>1. Laid0(TRUE, f)
    BY <1>1 DEF Laid1, LaidIn
  <2>2. Read1(f, c) = ReadLeaf(f, c)
    BY <1>1 DEF Read1, ReadIn
  <2>3. Encode1(f, ReadLeaf(f, c).v) = EncodeLeaf(f, ReadLeaf(f, c).v)
    BY <1>1 DEF Encode1, EncodeIn
  <2> QED BY <2>1, <2>2, <2>3, LeafRecovered
<1>2. CASE ~Leaf(f)
  <2>1. Shaped(TRUE, f)
    BY <1>2 DEF Laid1, LaidIn
  <2>2. PICK count, n, b, of: /\ count = ReadPrefix(f, c) /\ n = count.v /\ b = count.rest
                            /\ of = Layouts(f, n)
    OBVIOUS
  <2>3. PICK readers: readers = [i \in 1..Len(of) |-> [x \in Seq(Nat) |-> ReadLeaf(of[i], x)]]
    OBVIOUS
  <2>4. Read1(f, c) = IF ~count.ok THEN count ELSE ReadParts(f, readers, b)
    BY <1>2, <2>2, <2>3 DEF Read1, ReadIn
  <2>5. count.ok
    BY <2>4
  <2>6. PICK r: r = Read1(f, c) /\ r = ReadParts(f, readers, b) /\ r.ok
    BY <2>4, <2>5
  <2>7. Counted(f, c, n, b)
    BY <1>2, <2>1, <2>2, <2>5, PrefixRecovered
  <2>8. n \in Nat /\ Len(of) = n /\ (f.kind = "given" => n = 1) /\ b \in Seq(Byte)
    BY <2>2, <2>7 DEF Counted
  <2>9. Len(readers) = n /\ readers = [i \in 1..n |-> [x \in Seq(Nat) |-> ReadLeaf(of[i], x)]]
    BY <2>3, <2>8
  <2>10. ASSUME NEW i \in 1..n, NEW x \in Seq(Byte), readers[i][x].ok
        PROVE  readers[i][x] = ReadLeaf(of[i], x) /\ Recovered(readers[i][x], EncodeLeaf(of[i], readers[i][x].v), x)
    <3>1. x \in Seq(Nat)
      BY BytesAreCells
    <3>2. readers[i][x] = ReadLeaf(of[i], x)
      BY <2>9, <3>1
    <3>3. Laid0(TRUE, of[i])
      BY <1>2, <2>2, <2>8 DEF Laid1, LaidIn, Layouts
    <3>4. ReadLeaf(of[i], x).ok
      BY <2>10, <3>2
    <3>5. Recovered(ReadLeaf(of[i], x), EncodeLeaf(of[i], ReadLeaf(of[i], x).v), x)
      BY <3>3, <3>4, LeafRecovered
    <3> QED BY <3>2, <3>5
  <2>11. ASSUME NEW i \in 1..n PROVE Leaves(readers[i])
    BY <2>10 DEF Leaves, Recovered
  <2>12a. PICK s, vs: FieldReading(f, n, b, readers, s, vs)
    BY <1>2, <2>1, <2>6, <2>8, <2>9, <2>11, FieldReadings
  <2>12. /\ Readings(readers, n, s, b) /\ vs = [i \in 1..n |-> readers[i][s[i - 1]].v]
         /\ ReadParts(f, readers, b) = Accepted(Whole(f, vs), s[n])
         /\ Inside(f, Whole(f, vs)) = vs
    BY <2>12a DEF FieldReading
  <2>13. PICK parts: parts = [i \in 1..n |-> EncodeLeaf(of[i], vs[i])]
    OBVIOUS
  <2>14. ASSUME NEW i \in 1..n PROVE parts[i] \in Seq(Nat) /\ s[i - 1] = parts[i] \o s[i]
    <3>1. i - 1 \in 0..n
      BY <2>8
    <3>2. s[i - 1] \in Seq(Byte) /\ readers[i][s[i - 1]].ok /\ s[i] = readers[i][s[i - 1]].rest
      BY <2>12, <3>1 DEF Readings
    <3>3. Recovered(readers[i][s[i - 1]], EncodeLeaf(of[i], vs[i]), s[i - 1])
      BY <2>10, <2>12, <3>2
    <3> QED BY <2>13, <3>2, <3>3 DEF Recovered
  <2>15. Recovered(r, Prefix(f, n) \o FlattenSeq(parts), c)
    <3>1. parts = [i \in 1..n |-> parts[i]]
      BY <2>13
    <3>2. r = Accepted(Whole(f, vs), s[n])
      BY <2>6, <2>12
    <3> QED BY <2>7, <2>8, <2>12, <2>14, <3>1, <3>2, FieldRecovered
  <2>16. Encode1(f, r.v) = Prefix(f, n) \o FlattenSeq(parts)
    <3>1. r.v = Whole(f, vs)
      BY <2>6, <2>12 DEF Accepted
    <3>2. Inside(f, r.v) = vs /\ Len(vs) = n
      BY <2>8, <2>12, <3>1
    <3> QED BY <1>2, <2>2, <2>8, <2>13, <3>2 DEF Encode1, EncodeIn
  <2> QED BY <2>6, <2>15, <2>16
<1> QED BY <1>1, <1>2

\* Fields one level deeper.
LEMMA Recovered2 ==
  ASSUME NEW f, Laid2(TRUE, f), NEW c \in Seq(Byte), Read2(f, c).ok
  PROVE  Recovered(Read2(f, c), Encode2(f, Read2(f, c).v), c)
<1>0. c \in Seq(Nat)
  BY BytesAreCells
<1>1. CASE Leaf(f)
  <2>1. Laid0(TRUE, f)
    BY <1>1 DEF Laid2, LaidIn
  <2>2. Read2(f, c) = ReadLeaf(f, c)
    BY <1>1 DEF Read2, ReadIn
  <2>3. Encode2(f, ReadLeaf(f, c).v) = EncodeLeaf(f, ReadLeaf(f, c).v)
    BY <1>1 DEF Encode2, EncodeIn
  <2> QED BY <2>1, <2>2, <2>3, LeafRecovered
<1>2. CASE ~Leaf(f)
  <2>1. Shaped(TRUE, f)
    BY <1>2 DEF Laid2, LaidIn
  <2>2. PICK count, n, b, of: /\ count = ReadPrefix(f, c) /\ n = count.v /\ b = count.rest
                            /\ of = Layouts(f, n)
    OBVIOUS
  <2>3. PICK readers: readers = [i \in 1..Len(of) |-> [x \in Seq(Nat) |-> Read1(of[i], x)]]
    OBVIOUS
  <2>4. Read2(f, c) = IF ~count.ok THEN count ELSE ReadParts(f, readers, b)
    BY <1>2, <2>2, <2>3 DEF Read2, ReadIn
  <2>5. count.ok
    BY <2>4
  <2>6. PICK r: r = Read2(f, c) /\ r = ReadParts(f, readers, b) /\ r.ok
    BY <2>4, <2>5
  <2>7. Counted(f, c, n, b)
    BY <1>2, <2>1, <2>2, <2>5, PrefixRecovered
  <2>8. n \in Nat /\ Len(of) = n /\ (f.kind = "given" => n = 1) /\ b \in Seq(Byte)
    BY <2>2, <2>7 DEF Counted
  <2>9. Len(readers) = n /\ readers = [i \in 1..n |-> [x \in Seq(Nat) |-> Read1(of[i], x)]]
    BY <2>3, <2>8
  <2>10. ASSUME NEW i \in 1..n, NEW x \in Seq(Byte), readers[i][x].ok
        PROVE  readers[i][x] = Read1(of[i], x) /\ Recovered(readers[i][x], Encode1(of[i], readers[i][x].v), x)
    <3>1. x \in Seq(Nat)
      BY BytesAreCells
    <3>2. readers[i][x] = Read1(of[i], x)
      BY <2>9, <3>1
    <3>3. Laid1(TRUE, of[i])
      BY <1>2, <2>2, <2>8 DEF Laid2, LaidIn, Layouts
    <3>4. Read1(of[i], x).ok
      BY <2>10, <3>2
    <3>5. Recovered(Read1(of[i], x), Encode1(of[i], Read1(of[i], x).v), x)
      BY <3>3, <3>4, Recovered1
    <3> QED BY <3>2, <3>5
  <2>11. ASSUME NEW i \in 1..n PROVE Leaves(readers[i])
    BY <2>10 DEF Leaves, Recovered
  <2>12a. PICK s, vs: FieldReading(f, n, b, readers, s, vs)
    BY <1>2, <2>1, <2>6, <2>8, <2>9, <2>11, FieldReadings
  <2>12. /\ Readings(readers, n, s, b) /\ vs = [i \in 1..n |-> readers[i][s[i - 1]].v]
         /\ ReadParts(f, readers, b) = Accepted(Whole(f, vs), s[n])
         /\ Inside(f, Whole(f, vs)) = vs
    BY <2>12a DEF FieldReading
  <2>13. PICK parts: parts = [i \in 1..n |-> Encode1(of[i], vs[i])]
    OBVIOUS
  <2>14. ASSUME NEW i \in 1..n PROVE parts[i] \in Seq(Nat) /\ s[i - 1] = parts[i] \o s[i]
    <3>1. i - 1 \in 0..n
      BY <2>8
    <3>2. s[i - 1] \in Seq(Byte) /\ readers[i][s[i - 1]].ok /\ s[i] = readers[i][s[i - 1]].rest
      BY <2>12, <3>1 DEF Readings
    <3>3. Recovered(readers[i][s[i - 1]], Encode1(of[i], vs[i]), s[i - 1])
      BY <2>10, <2>12, <3>2
    <3> QED BY <2>13, <3>2, <3>3 DEF Recovered
  <2>15. Recovered(r, Prefix(f, n) \o FlattenSeq(parts), c)
    <3>1. parts = [i \in 1..n |-> parts[i]]
      BY <2>13
    <3>2. r = Accepted(Whole(f, vs), s[n])
      BY <2>6, <2>12
    <3> QED BY <2>7, <2>8, <2>12, <2>14, <3>1, <3>2, FieldRecovered
  <2>16. Encode2(f, r.v) = Prefix(f, n) \o FlattenSeq(parts)
    <3>1. r.v = Whole(f, vs)
      BY <2>6, <2>12 DEF Accepted
    <3>2. Inside(f, r.v) = vs /\ Len(vs) = n
      BY <2>8, <2>12, <3>1
    <3> QED BY <1>2, <2>2, <2>8, <2>13, <3>2 DEF Encode2, EncodeIn
  <2> QED BY <2>6, <2>15, <2>16
<1> QED BY <1>1, <1>2

\* Two levels deeper.
LEMMA Recovered3 ==
  ASSUME NEW f, Laid3(TRUE, f), NEW c \in Seq(Byte), Read3(f, c).ok
  PROVE  Recovered(Read3(f, c), Encode3(f, Read3(f, c).v), c)
<1>0. c \in Seq(Nat)
  BY BytesAreCells
<1>1. CASE Leaf(f)
  <2>1. Laid0(TRUE, f)
    BY <1>1 DEF Laid3, LaidIn
  <2>2. Read3(f, c) = ReadLeaf(f, c)
    BY <1>1 DEF Read3, ReadIn
  <2>3. Encode3(f, ReadLeaf(f, c).v) = EncodeLeaf(f, ReadLeaf(f, c).v)
    BY <1>1 DEF Encode3, EncodeIn
  <2> QED BY <2>1, <2>2, <2>3, LeafRecovered
<1>2. CASE ~Leaf(f)
  <2>1. Shaped(TRUE, f)
    BY <1>2 DEF Laid3, LaidIn
  <2>2. PICK count, n, b, of: /\ count = ReadPrefix(f, c) /\ n = count.v /\ b = count.rest
                            /\ of = Layouts(f, n)
    OBVIOUS
  <2>3. PICK readers: readers = [i \in 1..Len(of) |-> [x \in Seq(Nat) |-> Read2(of[i], x)]]
    OBVIOUS
  <2>4. Read3(f, c) = IF ~count.ok THEN count ELSE ReadParts(f, readers, b)
    BY <1>2, <2>2, <2>3 DEF Read3, ReadIn
  <2>5. count.ok
    BY <2>4
  <2>6. PICK r: r = Read3(f, c) /\ r = ReadParts(f, readers, b) /\ r.ok
    BY <2>4, <2>5
  <2>7. Counted(f, c, n, b)
    BY <1>2, <2>1, <2>2, <2>5, PrefixRecovered
  <2>8. n \in Nat /\ Len(of) = n /\ (f.kind = "given" => n = 1) /\ b \in Seq(Byte)
    BY <2>2, <2>7 DEF Counted
  <2>9. Len(readers) = n /\ readers = [i \in 1..n |-> [x \in Seq(Nat) |-> Read2(of[i], x)]]
    BY <2>3, <2>8
  <2>10. ASSUME NEW i \in 1..n, NEW x \in Seq(Byte), readers[i][x].ok
        PROVE  readers[i][x] = Read2(of[i], x) /\ Recovered(readers[i][x], Encode2(of[i], readers[i][x].v), x)
    <3>1. x \in Seq(Nat)
      BY BytesAreCells
    <3>2. readers[i][x] = Read2(of[i], x)
      BY <2>9, <3>1
    <3>3. Laid2(TRUE, of[i])
      BY <1>2, <2>2, <2>8 DEF Laid3, LaidIn, Layouts
    <3>4. Read2(of[i], x).ok
      BY <2>10, <3>2
    <3>5. Recovered(Read2(of[i], x), Encode2(of[i], Read2(of[i], x).v), x)
      BY <3>3, <3>4, Recovered2
    <3> QED BY <3>2, <3>5
  <2>11. ASSUME NEW i \in 1..n PROVE Leaves(readers[i])
    BY <2>10 DEF Leaves, Recovered
  <2>12a. PICK s, vs: FieldReading(f, n, b, readers, s, vs)
    BY <1>2, <2>1, <2>6, <2>8, <2>9, <2>11, FieldReadings
  <2>12. /\ Readings(readers, n, s, b) /\ vs = [i \in 1..n |-> readers[i][s[i - 1]].v]
         /\ ReadParts(f, readers, b) = Accepted(Whole(f, vs), s[n])
         /\ Inside(f, Whole(f, vs)) = vs
    BY <2>12a DEF FieldReading
  <2>13. PICK parts: parts = [i \in 1..n |-> Encode2(of[i], vs[i])]
    OBVIOUS
  <2>14. ASSUME NEW i \in 1..n PROVE parts[i] \in Seq(Nat) /\ s[i - 1] = parts[i] \o s[i]
    <3>1. i - 1 \in 0..n
      BY <2>8
    <3>2. s[i - 1] \in Seq(Byte) /\ readers[i][s[i - 1]].ok /\ s[i] = readers[i][s[i - 1]].rest
      BY <2>12, <3>1 DEF Readings
    <3>3. Recovered(readers[i][s[i - 1]], Encode2(of[i], vs[i]), s[i - 1])
      BY <2>10, <2>12, <3>2
    <3> QED BY <2>13, <3>2, <3>3 DEF Recovered
  <2>15. Recovered(r, Prefix(f, n) \o FlattenSeq(parts), c)
    <3>1. parts = [i \in 1..n |-> parts[i]]
      BY <2>13
    <3>2. r = Accepted(Whole(f, vs), s[n])
      BY <2>6, <2>12
    <3> QED BY <2>7, <2>8, <2>12, <2>14, <3>1, <3>2, FieldRecovered
  <2>16. Encode3(f, r.v) = Prefix(f, n) \o FlattenSeq(parts)
    <3>1. r.v = Whole(f, vs)
      BY <2>6, <2>12 DEF Accepted
    <3>2. Inside(f, r.v) = vs /\ Len(vs) = n
      BY <2>8, <2>12, <3>1
    <3> QED BY <1>2, <2>2, <2>8, <2>13, <3>2 DEF Encode3, EncodeIn
  <2> QED BY <2>6, <2>15, <2>16
<1> QED BY <1>1, <1>2

\* Three levels deeper.
LEMMA Recovered4 ==
  ASSUME NEW f, Laid4(TRUE, f), NEW c \in Seq(Byte), Read4(f, c).ok
  PROVE  Recovered(Read4(f, c), Encode4(f, Read4(f, c).v), c)
<1>0. c \in Seq(Nat)
  BY BytesAreCells
<1>1. CASE Leaf(f)
  <2>1. Laid0(TRUE, f)
    BY <1>1 DEF Laid4, LaidIn
  <2>2. Read4(f, c) = ReadLeaf(f, c)
    BY <1>1 DEF Read4, ReadIn
  <2>3. Encode4(f, ReadLeaf(f, c).v) = EncodeLeaf(f, ReadLeaf(f, c).v)
    BY <1>1 DEF Encode4, EncodeIn
  <2> QED BY <2>1, <2>2, <2>3, LeafRecovered
<1>2. CASE ~Leaf(f)
  <2>1. Shaped(TRUE, f)
    BY <1>2 DEF Laid4, LaidIn
  <2>2. PICK count, n, b, of: /\ count = ReadPrefix(f, c) /\ n = count.v /\ b = count.rest
                            /\ of = Layouts(f, n)
    OBVIOUS
  <2>3. PICK readers: readers = [i \in 1..Len(of) |-> [x \in Seq(Nat) |-> Read3(of[i], x)]]
    OBVIOUS
  <2>4. Read4(f, c) = IF ~count.ok THEN count ELSE ReadParts(f, readers, b)
    BY <1>2, <2>2, <2>3 DEF Read4, ReadIn
  <2>5. count.ok
    BY <2>4
  <2>6. PICK r: r = Read4(f, c) /\ r = ReadParts(f, readers, b) /\ r.ok
    BY <2>4, <2>5
  <2>7. Counted(f, c, n, b)
    BY <1>2, <2>1, <2>2, <2>5, PrefixRecovered
  <2>8. n \in Nat /\ Len(of) = n /\ (f.kind = "given" => n = 1) /\ b \in Seq(Byte)
    BY <2>2, <2>7 DEF Counted
  <2>9. Len(readers) = n /\ readers = [i \in 1..n |-> [x \in Seq(Nat) |-> Read3(of[i], x)]]
    BY <2>3, <2>8
  <2>10. ASSUME NEW i \in 1..n, NEW x \in Seq(Byte), readers[i][x].ok
        PROVE  readers[i][x] = Read3(of[i], x) /\ Recovered(readers[i][x], Encode3(of[i], readers[i][x].v), x)
    <3>1. x \in Seq(Nat)
      BY BytesAreCells
    <3>2. readers[i][x] = Read3(of[i], x)
      BY <2>9, <3>1
    <3>3. Laid3(TRUE, of[i])
      BY <1>2, <2>2, <2>8 DEF Laid4, LaidIn, Layouts
    <3>4. Read3(of[i], x).ok
      BY <2>10, <3>2
    <3>5. Recovered(Read3(of[i], x), Encode3(of[i], Read3(of[i], x).v), x)
      BY <3>3, <3>4, Recovered3
    <3> QED BY <3>2, <3>5
  <2>11. ASSUME NEW i \in 1..n PROVE Leaves(readers[i])
    BY <2>10 DEF Leaves, Recovered
  <2>12a. PICK s, vs: FieldReading(f, n, b, readers, s, vs)
    BY <1>2, <2>1, <2>6, <2>8, <2>9, <2>11, FieldReadings
  <2>12. /\ Readings(readers, n, s, b) /\ vs = [i \in 1..n |-> readers[i][s[i - 1]].v]
         /\ ReadParts(f, readers, b) = Accepted(Whole(f, vs), s[n])
         /\ Inside(f, Whole(f, vs)) = vs
    BY <2>12a DEF FieldReading
  <2>13. PICK parts: parts = [i \in 1..n |-> Encode3(of[i], vs[i])]
    OBVIOUS
  <2>14. ASSUME NEW i \in 1..n PROVE parts[i] \in Seq(Nat) /\ s[i - 1] = parts[i] \o s[i]
    <3>1. i - 1 \in 0..n
      BY <2>8
    <3>2. s[i - 1] \in Seq(Byte) /\ readers[i][s[i - 1]].ok /\ s[i] = readers[i][s[i - 1]].rest
      BY <2>12, <3>1 DEF Readings
    <3>3. Recovered(readers[i][s[i - 1]], Encode3(of[i], vs[i]), s[i - 1])
      BY <2>10, <2>12, <3>2
    <3> QED BY <2>13, <3>2, <3>3 DEF Recovered
  <2>15. Recovered(r, Prefix(f, n) \o FlattenSeq(parts), c)
    <3>1. parts = [i \in 1..n |-> parts[i]]
      BY <2>13
    <3>2. r = Accepted(Whole(f, vs), s[n])
      BY <2>6, <2>12
    <3> QED BY <2>7, <2>8, <2>12, <2>14, <3>1, <3>2, FieldRecovered
  <2>16. Encode4(f, r.v) = Prefix(f, n) \o FlattenSeq(parts)
    <3>1. r.v = Whole(f, vs)
      BY <2>6, <2>12 DEF Accepted
    <3>2. Inside(f, r.v) = vs /\ Len(vs) = n
      BY <2>8, <2>12, <3>1
    <3> QED BY <1>2, <2>2, <2>8, <2>13, <3>2 DEF Encode4, EncodeIn
  <2> QED BY <2>6, <2>15, <2>16
<1> QED BY <1>1, <1>2

-----------------------------------------------------------------------------
(* Bodies: the rows at the top, whose last field may be the rest.          *)

\* A field without parts is written and read alike at each level.
LEMMA AtTheTop ==
  ASSUME NEW f, Leaf(f)
  PROVE  /\ \A v: Encode4(f, v) = EncodeLeaf(f, v) /\ Narrowed4(f, v) = LeafNarrowed(f, v)
         /\ \A c: Read4(f, c) = ReadLeaf(f, c)
BY DEF Encode4, EncodeIn, Read4, ReadIn, Narrowed4, NarrowedIn

\* The layout of a body: only its last field may be the rest.
LaidRow(exact, f) ==
  /\ f.kind = "row" /\ Len(f.of) \in Nat
  /\ \A i \in 1..Len(f.of): Laid4(exact, f.of[i]) \/ (f.of[i].kind = "rest" /\ i = Len(f.of))

\* The cells of each field of a row, one after the other.
Fields(f, v) == [i \in 1..Len(f.of) |-> Encode4(f.of[i], v[i])]
\* Each field is read, as one of u, the last one at the end of the body.
FieldsCarried(f, v, u) ==
  \A i \in 1..Len(f.of):
    \/ Carried(Encode4(f.of[i], v[i]), Reader(Read4, f.of[i]), u[i])
    \/ f.of[i].kind = "rest" /\ i = Len(f.of) /\ v[i] \in Seq(Nat) /\ u[i] = v[i]
\* A body is read as u, whole, field after field.
RowRead(f, v, u) ==
  /\ Encode(f, v) \in Seq(Nat) /\ Read(f, Encode(f, v)) = Accepted(u, <<>>)
  /\ \E s: Trail(s, Fields(f, v), <<>>) /\ s[0] = Encode(f, v)

LEMMA FunctionIsSeq ==
  ASSUME NEW S, NEW n \in Nat, NEW p \in [1..n -> S]
  PROVE  p \in Seq(S) /\ Len(p) = n
OBVIOUS

\* A body whose fields are read is read whole.
LEMMA RowCarried ==
  ASSUME NEW f, f.kind = "row", NEW n \in Nat, n = Len(f.of), NEW v,
         v = [i \in 1..n |-> v[i]], NEW u, u = [i \in 1..n |-> u[i]], FieldsCarried(f, v, u)
  PROVE  RowRead(f, v, u)
<1>1. PICK parts, readers: /\ parts = [i \in 1..n |-> Encode4(f.of[i], v[i])]
                          /\ readers = [i \in 1..n |-> Reader(Read4, f.of[i])]
  OBVIOUS
<1>2. PICK none \in Seq(Nat): none = <<>>
  BY EmptySeq
<1>3. ASSUME NEW i \in 1..n
      PROVE  /\ parts[i] \in Seq(Nat)
             /\ \A x \in Seq(Nat): (i < n \/ x = none) => readers[i][parts[i] \o x] = Accepted(u[i], x)
  <2>1. CASE Carried(Encode4(f.of[i], v[i]), Reader(Read4, f.of[i]), u[i])
    BY <1>1, <2>1 DEF Carried
  <2>2. CASE f.of[i].kind = "rest" /\ i = n /\ v[i] \in Seq(Nat) /\ u[i] = v[i]
    <3>1. Leaf(f.of[i]) /\ EncodeLeaf(f.of[i], v[i]) = v[i] /\ \A c: ReadLeaf(f.of[i], c) = Accepted(c, <<>>)
      BY <2>2 DEF Leaf, EncodeLeaf, ReadLeaf
    <3>2. parts[i] = v[i] /\ \A c \in Seq(Nat): readers[i][c] = Accepted(c, <<>>)
      BY <1>1, <3>1, AtTheTop DEF Reader
    <3>3. PICK c \in Seq(Nat): c = v[i] /\ c \o none = c
      <4>1. v[i] \in Seq(Nat) /\ v[i] \o <<>> = v[i]
        BY <2>2, ConcatEmptySeq
      <4> QED BY <1>2, <4>1
    <3>4. readers[i][parts[i] \o none] = Accepted(u[i], none)
      BY <1>2, <2>2, <3>2, <3>3
    <3> QED BY <2>2, <3>2, <3>4
  <2> QED BY <2>1, <2>2 DEF FieldsCarried
<1>4. parts \in Seq(Seq(Nat)) /\ Len(parts) = n
  <2>1. parts \in [1..n -> Seq(Nat)]
    BY <1>1, <1>3
  <2> QED BY <2>1, FunctionIsSeq
<1>5. PartsCarried(parts, readers, u, none)
  BY <1>3, <1>4 DEF PartsCarried
<1>6. Len(readers) = n /\ Counts(f, n)
  BY <1>1 DEF Counts
<1>7. PICK e: e = Prefix(f, n) \o FlattenSeq(parts)
  OBVIOUS
<1>8. Composed(f, n, parts, readers, u, e, none)
  BY <1>4, <1>5, <1>6, <1>7, Composes
<1>9. PICK after: after = FlattenSeq(parts) \o none
  OBVIOUS
<1>10. /\ e \in Seq(Nat) /\ ReadPrefix(f, e \o none) = Accepted(n, after)
       /\ ReadParts(f, readers, after) = Accepted(Whole(f, [i \in 1..n |-> u[i]]), none)
  BY <1>8, <1>9 DEF Composed
<1>11. Whole(f, [i \in 1..n |-> u[i]]) = u /\ Inside(f, v) = v /\ Len(v) = n /\ Layouts(f, n) = f.of
  BY DEF Whole, Inside, Layouts
<1>12. ~Leaf(f)
  BY DEF Leaf
<1>13. Encode(f, v) = e
  BY <1>1, <1>7, <1>11, <1>12 DEF Encode, EncodeIn
<1>14. e \o none = e
  BY <1>2, <1>10, ConcatEmptySeq
<1>15. Read(f, e) = Accepted(u, none)
  <2>1. PICK count: count = ReadPrefix(f, e)
    OBVIOUS
  <2>2. count.ok /\ count.v = n /\ count.rest = after
    BY <1>10, <1>14, <2>1 DEF Accepted
  <2>3. readers = [i \in 1..Len(f.of) |-> [x \in Seq(Nat) |-> Read4(f.of[i], x)]]
    BY <1>1 DEF Reader
  <2>4. Read(f, e) = ReadParts(f, readers, after)
    BY <1>11, <1>12, <2>1, <2>2, <2>3 DEF Read, ReadIn
  <2> QED BY <1>10, <1>11, <2>4
<1>16. PICK s: Trail(s, parts, none)
  BY <1>4, TrailOf
<1>17. s[0] = e
  <2>1. FlattenSeq(parts) \in Seq(Nat) /\ s[0] = FlattenSeq(parts) \o none
    BY <1>4, <1>16, Flattened
  <2>2. Prefix(f, n) = <<>>
    BY DEF Prefix
  <2>3. PICK q \in Seq(Nat): q = FlattenSeq(parts)
    BY <2>1
  <2>4. <<>> \o q = q /\ q \o <<>> = q
    BY <2>3, ConcatEmptySeq
  <2> QED BY <1>2, <1>7, <2>1, <2>2, <2>3, <2>4
<1>18. parts = Fields(f, v)
  BY <1>1 DEF Fields
<1> QED BY <1>2, <1>10, <1>13, <1>15, <1>16, <1>17, <1>18 DEF RowRead

\* What FieldsAre and BodyCells say of the fields of a body.
LEMMA RowParts ==
  ASSUME NEW f, NEW exact \in BOOLEAN, LaidRow(exact, f), NEW v, IsValue(f, v)
  PROVE  /\ Len(f.of) \in Nat /\ v = [i \in 1..Len(f.of) |-> v[i]] /\ ~Leaf(f)
         /\ Inside(f, v) = v /\ Len(v) = Len(f.of) /\ \A n: Layouts(f, n) = f.of
         /\ \A i \in 1..Len(f.of): IsValue4(f.of[i], v[i])
<1>1. ~Leaf(f) /\ f.kind = "row" /\ Len(f.of) \in Nat
  BY DEF LaidRow, Leaf
<1>2. Inside(f, v) = v /\ \A n: Layouts(f, n) = f.of
  BY <1>1 DEF Inside, Layouts
<1>3. Len(v) = Len(f.of) /\ v = [i \in 1..Len(v) |-> v[i]]
  BY <1>1, <1>2 DEF IsValue, IsValueIn, EachInside
<1>4. \A i \in 1..Len(f.of): IsValue4(f.of[i], v[i])
  BY <1>1, <1>2, <1>3 DEF IsValue, IsValueIn, EachInside
<1> QED BY <1>1, <1>2, <1>3, <1>4

\* A body is written as cells, field after field, whatever its lengths.
LEMMA BodyCells ==
  ASSUME NEW f, NEW exact \in BOOLEAN, LaidRow(exact, f), NEW v, IsValue(f, v)
  PROVE  /\ Encode(f, v) \in Seq(Nat)
         /\ \E s: Trail(s, Fields(f, v), <<>>) /\ s[0] = Encode(f, v)
<1>1. /\ Len(f.of) \in Nat /\ ~Leaf(f)
      /\ Inside(f, v) = v /\ Len(v) = Len(f.of) /\ Layouts(f, Len(v)) = f.of
      /\ \A i \in 1..Len(f.of): IsValue4(f.of[i], v[i])
  BY RowParts
<1>2. PICK n, parts: n = Len(f.of) /\ parts = [i \in 1..n |-> Encode4(f.of[i], v[i])]
  OBVIOUS
<1>3. ASSUME NEW i \in 1..n PROVE parts[i] \in Seq(Nat)
  <2>1. CASE Laid4(exact, f.of[i])
    <3>1. Encode4(f.of[i], v[i]) \in Seq(Nat)
      BY <1>1, <1>2, <2>1, Cells4
    <3> QED BY <1>2, <3>1
  <2>2. CASE f.of[i].kind = "rest"
    <3>1. Leaf(f.of[i]) /\ EncodeLeaf(f.of[i], v[i]) = v[i]
      BY <2>2 DEF Leaf, EncodeLeaf
    <3>2. IsLeafValue(f.of[i], v[i])
      BY <1>1, <1>2, <3>1 DEF IsValue4, IsValueIn
    <3>3. v[i] \in Seq(Nat)
      BY <2>2, <3>2 DEF IsLeafValue
    <3> QED BY <1>2, <3>1, <3>3, AtTheTop
  <2> QED BY <1>2, <2>1, <2>2 DEF LaidRow
<1>4. Encode(f, v) = Prefix(f, n) \o FlattenSeq(parts)
  BY <1>1, <1>2 DEF Encode, EncodeIn
<1>5. parts \in Seq(Seq(Nat)) /\ parts = Fields(f, v) /\ Prefix(f, n) = <<>>
  <2>1. parts \in [1..n -> Seq(Nat)] /\ n \in Nat
    BY <1>1, <1>2, <1>3
  <2>2. parts \in Seq(Seq(Nat))
    BY <2>1, FunctionIsSeq
  <2> QED BY <1>2, <2>2 DEF Fields, Prefix, LaidRow
<1>6. PICK none \in Seq(Nat): none = <<>>
  BY EmptySeq
<1>7. PICK s: Trail(s, parts, none)
  BY <1>5, TrailOf
<1>8. PICK q \in Seq(Nat): q = FlattenSeq(parts) /\ s[0] = q \o none
  BY <1>5, <1>7, Flattened
<1>9. <<>> \o q = q /\ q \o <<>> = q
  BY ConcatEmptySeq
<1> QED BY <1>4, <1>5, <1>6, <1>7, <1>8, <1>9

\* The fields of a body are read as written, its numbers as their low bytes.
LEMMA FieldsAre ==
  ASSUME NEW f, NEW exact \in BOOLEAN, LaidRow(exact, f), NEW v,
         IsValue(f, v), Admits(f, v), Countable(f, v), NEW u, u = Narrowed(f, v)
  PROVE  /\ Len(f.of) \in Nat /\ v = [i \in 1..Len(f.of) |-> v[i]]
         /\ u = [i \in 1..Len(f.of) |-> u[i]] /\ FieldsCarried(f, v, u)
<1>1. /\ Len(f.of) \in Nat /\ v = [i \in 1..Len(f.of) |-> v[i]] /\ ~Leaf(f)
      /\ Inside(f, v) = v /\ Len(v) = Len(f.of) /\ Layouts(f, Len(v)) = f.of
      /\ \A i \in 1..Len(f.of): IsValue4(f.of[i], v[i])
  BY RowParts
<1>2. u = [i \in 1..Len(f.of) |-> Narrowed4(f.of[i], v[i])]
  BY <1>1 DEF Narrowed, NarrowedIn, Whole, LaidRow
<1>3. ASSUME NEW i \in 1..Len(f.of)
      PROVE  \/ Carried(Encode4(f.of[i], v[i]), Reader(Read4, f.of[i]), u[i])
             \/ f.of[i].kind = "rest" /\ i = Len(f.of) /\ v[i] \in Seq(Nat) /\ u[i] = v[i]
  <2>1. /\ IsValue4(f.of[i], v[i]) /\ Admits4(f.of[i], v[i]) /\ Countable4(f.of[i], v[i])
        /\ u[i] = Narrowed4(f.of[i], v[i])
    BY <1>1, <1>2 DEF Admits, AdmitsIn, Countable, CountableIn, EachInside
  <2>2. CASE Laid4(exact, f.of[i])
    <3>1. Carried(Encode4(f.of[i], v[i]), Reader(Read4, f.of[i]), Narrowed4(f.of[i], v[i]))
      BY <2>1, <2>2, Carried4
    <3> QED BY <2>1, <3>1
  <2>3. CASE f.of[i].kind = "rest" /\ i = Len(f.of)
    <3>1. Leaf(f.of[i]) /\ LeafNarrowed(f.of[i], v[i]) = v[i]
      BY <2>3 DEF Leaf, LeafNarrowed
    <3>2. v[i] \in Seq(Nat)
      BY <2>1, <2>3, <3>1 DEF IsValue4, IsValueIn, IsLeafValue
    <3>3. Narrowed4(f.of[i], v[i]) = v[i]
      BY <3>1, AtTheTop
    <3> QED BY <2>1, <2>3, <3>2, <3>3
  <2> QED BY <2>2, <2>3 DEF LaidRow
<1>4. u = [i \in 1..Len(f.of) |-> u[i]]
  BY <1>2
<1> QED BY <1>1, <1>3, <1>4 DEF FieldsCarried

\* What is written of a body is read from it, a number as the low bytes that
\* were sent of it, if no text or list is longer than its prefix counts (the
\* encoders and the decoders of kv_body.ts, the serializers and the parsers of
\* wire.ts).
THEOREM ReadWritten ==
  ASSUME NEW f, NEW exact \in BOOLEAN, LaidRow(exact, f), NEW v,
         IsValue(f, v), Admits(f, v), Countable(f, v)
  PROVE  RowRead(f, v, Narrowed(f, v))
<1>1. PICK u: u = Narrowed(f, v)
  OBVIOUS
<1>2. /\ Len(f.of) \in Nat /\ v = [i \in 1..Len(f.of) |-> v[i]]
      /\ u = [i \in 1..Len(f.of) |-> u[i]] /\ FieldsCarried(f, v, u)
  BY <1>1, FieldsAre
<1>3. f.kind = "row"
  BY DEF LaidRow
<1> QED BY <1>1, <1>2, <1>3, RowCarried

\* Rows of fields that are exact, or the rest; a number's bounds may be any.
ExactRow(f) ==
  /\ f.kind = "row" /\ Len(f.of) \in Nat
  /\ \A i \in 1..Len(f.of):
       \/ Laid4(TRUE, f.of[i]) \/ f.of[i].kind = "rest"
       \/ f.of[i].kind = "number" /\ f.of[i].width \in 1..U64

\* A field at the top is recovered, the rest of the body too.
LEMMA FieldIsRecovered ==
  ASSUME NEW f, Laid4(TRUE, f) \/ f.kind = "rest" \/ (f.kind = "number" /\ f.width \in 1..U64),
         NEW c \in Seq(Byte), Read4(f, c).ok
  PROVE  Recovered(Read4(f, c), Encode4(f, Read4(f, c).v), c)
<1>1. CASE Laid4(TRUE, f)
  BY <1>1, Recovered4
<1>2. CASE f.kind = "rest"
  <2>1. Leaf(f) /\ ReadLeaf(f, c) = Accepted(c, <<>>) /\ EncodeLeaf(f, c) = c
    BY <1>2 DEF Leaf, ReadLeaf, EncodeLeaf
  <2>2. Read4(f, c) = Accepted(c, <<>>) /\ Encode4(f, c) = c
    BY <2>1, AtTheTop
  <2>3. c \in Seq(Nat) /\ <<>> \in Seq(Byte) /\ c = c \o <<>>
    BY BytesAreCells, EmptySeq, ConcatEmptySeq
  <2> QED BY <2>2, <2>3 DEF Recovered, Accepted
<1>3. CASE f.kind = "number" /\ f.width \in 1..U64
  <2>1. Leaf(f)
    BY <1>3 DEF Leaf
  <2>2. Read4(f, c) = ReadLeaf(f, c) /\ Encode4(f, ReadLeaf(f, c).v) = EncodeLeaf(f, ReadLeaf(f, c).v)
    BY <2>1, AtTheTop
  <2>3. Recovered(ReadLeaf(f, c), EncodeLeaf(f, ReadLeaf(f, c).v), c)
    BY <1>3, <2>2, NumberRecovered
  <2> QED BY <2>2, <2>3
<1> QED BY <1>1, <1>2, <1>3

\* What is read of a body is what it was written from (the same, the other way).
THEOREM WrittenRead ==
  ASSUME NEW f, ExactRow(f), NEW c \in Seq(Byte), Read(f, c).ok
  PROVE  Recovered(Read(f, c), Encode(f, Read(f, c).v), c)
<1>1. c \in Seq(Nat) /\ ~Leaf(f) /\ Shaped(TRUE, f)
  BY BytesAreCells DEF ExactRow, Leaf, Shaped
<1>2. PICK count, n, b, of: /\ count = ReadPrefix(f, c) /\ n = count.v /\ b = count.rest
                          /\ of = Layouts(f, n)
  OBVIOUS
<1>3. PICK readers: readers = [i \in 1..Len(of) |-> [x \in Seq(Nat) |-> Read4(of[i], x)]]
  OBVIOUS
<1>4. Read(f, c) = IF ~count.ok THEN count ELSE ReadParts(f, readers, b)
  BY <1>1, <1>2, <1>3 DEF Read, ReadIn
<1>5. count.ok
  BY <1>4
<1>6. PICK r: r = Read(f, c) /\ r = ReadParts(f, readers, b) /\ r.ok
  BY <1>4, <1>5
<1>7. Counted(f, c, n, b)
  BY <1>1, <1>2, <1>5, PrefixRecovered
<1>8. n \in Nat /\ Len(of) = n /\ (f.kind = "given" => n = 1) /\ b \in Seq(Byte)
  BY <1>2, <1>7 DEF Counted
<1>9. Len(readers) = n /\ readers = [i \in 1..n |-> [x \in Seq(Nat) |-> Read4(of[i], x)]]
  BY <1>3, <1>8
<1>10. ASSUME NEW i \in 1..n, NEW x \in Seq(Byte), readers[i][x].ok
      PROVE  readers[i][x] = Read4(of[i], x) /\ Recovered(readers[i][x], Encode4(of[i], readers[i][x].v), x)
  <2>1. x \in Seq(Nat)
    BY BytesAreCells
  <2>2. readers[i][x] = Read4(of[i], x)
    BY <1>9, <2>1
  <2>3. of = f.of
    BY <1>2 DEF ExactRow, Layouts
  <2>4. Read4(of[i], x).ok
    BY <1>10, <2>2
  <2>5. Recovered(Read4(of[i], x), Encode4(of[i], Read4(of[i], x).v), x)
    BY <1>8, <2>3, <2>4, FieldIsRecovered DEF ExactRow
  <2> QED BY <2>2, <2>5
<1>11. ASSUME NEW i \in 1..n PROVE Leaves(readers[i])
  BY <1>10 DEF Leaves, Recovered
<1>12a. PICK s, vs: FieldReading(f, n, b, readers, s, vs)
  BY <1>1, <1>6, <1>8, <1>9, <1>11, FieldReadings
<1>12. /\ Readings(readers, n, s, b) /\ vs = [i \in 1..n |-> readers[i][s[i - 1]].v]
       /\ ReadParts(f, readers, b) = Accepted(Whole(f, vs), s[n])
       /\ Inside(f, Whole(f, vs)) = vs
  BY <1>12a DEF FieldReading
<1>13. PICK parts: parts = [i \in 1..n |-> Encode4(of[i], vs[i])]
  OBVIOUS
<1>14. ASSUME NEW i \in 1..n PROVE parts[i] \in Seq(Nat) /\ s[i - 1] = parts[i] \o s[i]
  <2>1. i - 1 \in 0..n
    BY <1>8
  <2>2. s[i - 1] \in Seq(Byte) /\ readers[i][s[i - 1]].ok /\ s[i] = readers[i][s[i - 1]].rest
    BY <1>12, <2>1 DEF Readings
  <2>3. Recovered(readers[i][s[i - 1]], Encode4(of[i], vs[i]), s[i - 1])
    BY <1>10, <1>12, <2>2
  <2> QED BY <1>13, <2>2, <2>3 DEF Recovered
<1>15. Recovered(r, Prefix(f, n) \o FlattenSeq(parts), c)
  <2>1. parts = [i \in 1..n |-> parts[i]]
    BY <1>13
  <2>2. r = Accepted(Whole(f, vs), s[n])
    BY <1>6, <1>12
  <2> QED BY <1>7, <1>8, <1>12, <1>14, <2>1, <2>2, FieldRecovered
<1>16. Encode(f, r.v) = Prefix(f, n) \o FlattenSeq(parts)
  <2>1. r.v = Whole(f, vs)
    BY <1>6, <1>12 DEF Accepted
  <2>2. Inside(f, r.v) = vs /\ Len(vs) = n
    BY <1>8, <1>12, <2>1
  <2> QED BY <1>1, <1>2, <1>8, <1>13, <2>2 DEF Encode, EncodeIn
<1> QED BY <1>6, <1>15, <1>16

=============================================================================
