--------------------------- MODULE ExchangeProofs ---------------------------
(***************************************************************************)
(* What is proved of Wire and Exchange, for any radix of a byte, limits,   *)
(* arguments and answers: the server reads what the caller meant and holds *)
(* it as long as it asked, and the caller reads what the server sent.      *)
(*                                                                         *)
(* The argument is about layouts, not about states: the layout of each     *)
(* operation is one of those CodecProofs is about (OperationsLaid), so     *)
(* that a body is read as it was written (ReadWritten) and, read and       *)
(* written again, is the cells it was read from (WrittenRead).  What       *)
(* serializeRequest puts around the body is read again by the server and,  *)
(* without the layouts, by requestBlockMs, which finds the option BlockMS  *)
(* at the offsets at which the options were laid out.  The invariant of an *)
(* exchange (ExchangeInv) says no more than where the request and the      *)
(* answer of each of its states come from.                                 *)
(***************************************************************************)
EXTENDS Exchange, CodecProofs

-----------------------------------------------------------------------------
(* Scanning the options of a request.                                      *)

\* The block found from the offset at on, when h tells it of those beyond.
Scanned(b, at, h) ==
  LET next == at + 2 + b[at + 2]
      later == h[next] IN
  IF at + 2 > Len(b) THEN <<>>
  ELSE IF next > Len(b) THEN <<>>
  ELSE IF later # <<>> THEN later
  ELSE IF b[at + 1] = OptionTag.BlockMS /\ b[at + 2] = U32
       THEN <<Got(U32, SubSeq(b, at + 3, next))>> ELSE <<>>
\* The recursion of BlockOption, from offset k on.
Scans(b, k, h) == h = [at \in k..Len(b) |-> Scanned(b, at, h)]

\* What is found from an offset on depends on what is found beyond it.
LEMMA ScannedBeyond ==
  ASSUME NEW b \in Seq(Nat), NEW at \in 0..Len(b), NEW g, NEW h,
         \A i \in (at + 1)..Len(b): g[i] = h[i]
  PROVE  Scanned(b, at, g) = Scanned(b, at, h)
<1>1. PICK n \in Nat: n = Len(b)
  OBVIOUS
<1>2. CASE at + 2 > n
  BY <1>1, <1>2 DEF Scanned
<1>3. CASE ~(at + 2 > n)
  <2>1. at + 2 \in 1..n
    BY <1>1, <1>3
  <2>2. PICK m \in Nat: m = b[at + 2]
    BY <1>1, <2>1, ElementOfSeq
  <2>3. PICK next \in Nat: next = at + 2 + m
    OBVIOUS
  <2>4. CASE next > n
    BY <1>1, <1>3, <2>2, <2>3, <2>4 DEF Scanned
  <2>5. CASE ~(next > n)
    <3>1. next \in (at + 1)..n
      BY <1>1, <2>3, <2>5
    <3>2. g[next] = h[next]
      BY <1>1, <3>1
    <3> QED BY <2>2, <2>3, <3>2 DEF Scanned
  <2> QED BY <2>4, <2>5
<1> QED BY <1>2, <1>3

\* There is a function that tells what is found from each offset on: the
\* recursion that defines it has one.
LEMMA ScansOf ==
  ASSUME NEW b \in Seq(Nat)
  PROVE  \E h: Scans(b, 0, h)
<1>1. PICK n \in Nat: n = Len(b)
  OBVIOUS
<1>2. DEFINE T == {k \in 0..n: \E h: Scans(b, n - k, h)}
<1>3. 0 \in T
  <2>1. PICK g: g = [at \in n..n |-> Scanned(b, at, 0)]
    OBVIOUS
  <2>2. PICK f: f = [at \in n..n |-> Scanned(b, at, g)]
    OBVIOUS
  <2>3. \A at \in n..n: g[at] = f[at]
    <3>1. n \in 0..Len(b) /\ \A i \in (n + 1)..Len(b): g[i] = 0[i]
      BY <1>1
    <3>2. Scanned(b, n, g) = Scanned(b, n, 0)
      BY <3>1, ScannedBeyond
    <3> QED BY <2>1, <2>2, <3>2
  <2>4. g = f
    BY <2>1, <2>2, <2>3
  <2>5. Scans(b, n - 0, g)
    BY <1>1, <2>2, <2>4 DEF Scans
  <2> QED BY <2>5
<1>4. ASSUME NEW k \in 0..(n - 1), k \in T PROVE k + 1 \in T
  <2>1. PICK m \in 0..n: m = n - (k + 1) /\ n - k = m + 1 /\ k + 1 \in 0..n
    <3>1. n - (k + 1) \in 0..n /\ n - k = n - (k + 1) + 1 /\ k + 1 \in 0..n
      OBVIOUS
    <3> QED BY <3>1
  <2>2. PICK h: Scans(b, m + 1, h)
    BY <1>4, <2>1
  <2>3. PICK g: g = [at \in m..n |-> IF at > m THEN h[at] ELSE Scanned(b, m, h)]
    OBVIOUS
  <2>4. PICK f: f = [at \in m..n |-> Scanned(b, at, g)]
    OBVIOUS
  <2>5. ASSUME NEW at \in m..n PROVE g[at] = f[at]
    <3>1. at \in 0..Len(b) /\ \A i \in (at + 1)..Len(b): g[i] = h[i]
      BY <1>1, <2>3
    <3>2. Scanned(b, at, g) = Scanned(b, at, h)
      BY <3>1, ScannedBeyond
    <3>3. CASE at = m
      BY <2>3, <2>4, <3>2, <3>3
    <3>4. CASE at > m
      <4>1. at \in (m + 1)..Len(b)
        BY <1>1, <3>4
      <4>2. h[at] = Scanned(b, at, h)
        BY <2>2, <4>1 DEF Scans
      <4> QED BY <2>3, <2>4, <3>2, <3>4, <4>2
    <3> QED BY <3>3, <3>4
  <2>6. g = f
    BY <2>3, <2>4, <2>5
  <2>7. Scans(b, m, g)
    BY <1>1, <2>4, <2>6 DEF Scans
  <2> QED BY <2>1, <2>7
<1>5. \A k \in 0..n: k \in T
  <2> HIDE DEF T
  <2> QED BY <1>3, <1>4, Climb
<1>6. n \in T
  <2> HIDE DEF T
  <2> QED BY <1>5
<1>7. n - n = 0
  OBVIOUS
<1> QED BY <1>6, <1>7

\* BlockOption is what is found from the start.
LEMMA BlockScans ==
  ASSUME NEW b \in Seq(Nat)
  PROVE  \E h: BlockOption(b) = h[0] /\ \A at \in 0..Len(b): h[at] = Scanned(b, at, h)
<1>1. BlockOption(b) = (CHOOSE h: Scans(b, 0, h))[0]
  BY DEF BlockOption, Scans, Scanned
<1>2. PICK h: Scans(b, 0, h) /\ BlockOption(b) = h[0]
  BY <1>1, ScansOf
<1>3. PICK f: f = [at \in 0..Len(b) |-> Scanned(b, at, h)]
  OBVIOUS
<1>4. h = f
  BY <1>2, <1>3 DEF Scans
<1>5. \A at \in 0..Len(b): h[at] = Scanned(b, at, h)
  BY <1>3, <1>4
<1> QED BY <1>2, <1>5

\* What is left of b from some offset on.
Ends(r, b) == Len(r) <= Len(b) /\ \A j \in 1..Len(r): r[j] = b[Len(b) - Len(r) + j]

\* The cells that end with r have p before it.
EndsBefore(r, b, p, t) ==
  /\ Ends(r, b) /\ Len(t) = Len(p) + Len(r)
  /\ \A j \in 1..Len(p): b[Len(b) - Len(t) + j] = p[j]

\* Of cells that end with p and r, those that end with r come after p.
LEMMA EndsAfter ==
  ASSUME NEW b \in Seq(Nat), NEW p \in Seq(Nat), NEW r \in Seq(Nat), NEW t, t = p \o r, Ends(t, b)
  PROVE  EndsBefore(r, b, p, t)
<1>1. PICK L \in Nat, m \in Nat, l \in Nat: L = Len(b) /\ m = Len(p) /\ l = Len(r)
  OBVIOUS
<1>2. Len(t) = m + l /\ m + l <= L /\ l <= L
  BY <1>1 DEF Ends
<1>3. ASSUME NEW j \in 1..l PROVE r[j] = b[L - l + j]
  <2>1. m + j \in 1..(m + l) /\ L - (m + l) + (m + j) = L - l + j
    OBVIOUS
  <2>2. t[m + j] = r[j]
    BY <1>1
  <2>3. t[m + j] = b[L - (m + l) + (m + j)]
    BY <1>1, <1>2, <2>1 DEF Ends
  <2> QED BY <2>1, <2>2, <2>3
<1>4. ASSUME NEW j \in 1..m PROVE b[L - (m + l) + j] = p[j]
  <2>1. j \in 1..(m + l)
    OBVIOUS
  <2>2. t[j] = p[j]
    BY <1>1
  <2>3. t[j] = b[L - (m + l) + j]
    BY <1>1, <1>2, <2>1 DEF Ends
  <2> QED BY <2>2, <2>3
<1> QED BY <1>1, <1>2, <1>3, <1>4 DEF Ends, EndsBefore

\* Some cells of b.
LEMMA Cut ==
  ASSUME NEW b \in Seq(Nat), NEW m \in Nat, NEW w \in Nat, m + w <= Len(b), NEW x,
         x = SubSeq(b, m + 1, m + w)
  PROVE  x \in Seq(Nat) /\ Len(x) = w /\ \A j \in 1..w: x[j] = b[m + j]
<1>1. x \in Seq(Nat)
  OBVIOUS
<1>2. Len(x) = w
  OBVIOUS
<1>3. ASSUME NEW j \in 1..w PROVE x[j] = b[m + j]
  <2>1. PICK n \in Nat: n = m + w /\ m + 1 \in 1..(Len(b) + 1) /\ n \in ((m + 1) - 1)..Len(b)
    OBVIOUS
  <2>2. \A i \in 1..(n - (m + 1) + 1): SubSeq(b, m + 1, n)[i] = b[(m + 1) + i - 1]
    BY <2>1, SubSeqProperties
  <2>3. j \in 1..(n - (m + 1) + 1) /\ (m + 1) + j - 1 = m + j
    BY <2>1
  <2> QED BY <2>1, <2>2, <2>3
<1> QED BY <1>1, <1>2, <1>3

\* An option: its tag, its length, and as many cells.
IsOption(p, tag, e) == tag \in Nat /\ e \in Seq(Nat) /\ p = <<tag, Len(e)>> \o e

\* What is found from an option on.
FoundFrom(b, t, h, later, tag, e) ==
  Scanned(b, Len(b) - Len(t), h) =
    IF later # <<>> THEN later
    ELSE IF tag = OptionTag.BlockMS /\ Len(e) = U32 THEN <<Got(U32, e)>> ELSE <<>>

\* At an option, a scan finds what it finds after it or, failing that, this option.
LEMMA OptionScanned ==
  ASSUME NEW b \in Seq(Nat), NEW p, NEW tag, NEW e, IsOption(p, tag, e), NEW r \in Seq(Nat),
         NEW t, t = p \o r, Ends(t, b), NEW h, NEW later, later = h[Len(b) - Len(r)]
  PROVE  FoundFrom(b, t, h, later, tag, e)
<1>1. PICK L \in Nat, l \in Nat, w \in Nat: L = Len(b) /\ l = Len(r) /\ w = Len(e) /\ e \in Seq(Nat)
  BY DEF IsOption
<1>2. p \in Seq(Nat) /\ Len(p) = 2 + w /\ p[1] = tag /\ p[2] = w /\ \A j \in 1..w: p[2 + j] = e[j]
  <2>1. PICK x \in Seq(Nat): x = <<tag, w>> /\ Len(x) = 2 /\ x[1] = tag /\ x[2] = w
    <3>1. tag \in Nat
      BY DEF IsOption
    <3>2. <<tag, w>> \in Seq(Nat) /\ Len(<<tag, w>>) = 2 /\ <<tag, w>>[1] = tag /\ <<tag, w>>[2] = w
      BY <3>1
    <3> QED BY <3>2
  <2>2. p = x \o e
    BY <1>1, <2>1 DEF IsOption
  <2>3. p \in Seq(Nat) /\ Len(p) = 2 + w
    BY <1>1, <2>1, <2>2
  <2>4. p[1] = tag /\ p[2] = w
    BY <1>1, <2>1, <2>2
  <2>5. \A j \in 1..w: p[2 + j] = e[j]
    BY <1>1, <2>1, <2>2
  <2> QED BY <2>3, <2>4, <2>5
<1>3. /\ l <= L /\ Len(t) = 2 + w + l /\ Len(t) <= L
      /\ \A j \in 1..(2 + w): b[L - Len(t) + j] = p[j]
  <2>1. EndsBefore(r, b, p, t)
    BY <1>2, EndsAfter
  <2>2. Len(t) \in Nat
    BY <1>2
  <2> QED BY <1>1, <1>2, <2>1, <2>2 DEF Ends, EndsBefore
<1>4. PICK at \in Nat: at = L - Len(t) /\ at + 2 + w = L - l
  <2>1. L - Len(t) \in Nat /\ L - Len(t) + 2 + w = L - l
    BY <1>3
  <2> QED BY <2>1
<1>5. b[at + 1] = tag /\ b[at + 2] = w /\ \A j \in 1..w: b[at + 2 + j] = e[j]
  <2>1. 1 \in 1..(2 + w) /\ 2 \in 1..(2 + w)
    OBVIOUS
  <2>2. ASSUME NEW j \in 1..w PROVE b[at + 2 + j] = e[j]
    <3>1. 2 + j \in 1..(2 + w) /\ at + (2 + j) = at + 2 + j
      OBVIOUS
    <3>2. b[at + (2 + j)] = p[2 + j]
      BY <1>3, <1>4, <3>1
    <3> QED BY <1>2, <3>1, <3>2
  <2> QED BY <1>2, <1>3, <1>4, <2>1, <2>2
<1>6. PICK next \in Nat: next = at + 2 + w /\ next = L - l /\ ~(at + 2 > L) /\ ~(next > L)
  <2>1. at + 2 + w \in Nat /\ ~(at + 2 > L) /\ ~(at + 2 + w > L)
    BY <1>3, <1>4
  <2> QED BY <1>4, <2>1
<1>7. Scanned(b, at, h) =
        IF later # <<>> THEN later
        ELSE IF tag = OptionTag.BlockMS /\ w = U32 THEN <<Got(U32, SubSeq(b, at + 3, next))>> ELSE <<>>
  BY <1>1, <1>5, <1>6, Zenon DEF Scanned
<1>8. SubSeq(b, at + 3, next) = e
  <2>1. PICK m \in Nat: m = at + 2 /\ m + 1 = at + 3 /\ m + w = next /\ m + w <= Len(b)
    <3>1. at + 2 \in Nat /\ at + 2 + 1 = at + 3 /\ at + 2 + w <= L
      BY <1>6
    <3> QED BY <1>1, <1>6, <3>1
  <2>2. PICK x: x = SubSeq(b, m + 1, m + w)
    OBVIOUS
  <2>3. x \in Seq(Nat) /\ Len(x) = w /\ \A j \in 1..w: x[j] = b[m + j]
    BY <2>1, <2>2, Cut
  <2>4. \A j \in 1..w: x[j] = e[j]
    BY <1>5, <2>1, <2>3
  <2>5. x = e
    BY <1>1, <2>3, <2>4, SeqEqual
  <2> QED BY <2>1, <2>2, <2>5
<1> QED BY <1>1, <1>4, <1>7, <1>8 DEF FoundFrom

\* An option of a request: none, or the k-th when it is a block of ms.
OptionPart(p, k, i, ms) ==
  \/ p = <<>>
  \/ \E tag, e:
       /\ IsOption(p, tag, e)
       /\ IF i = k THEN tag = OptionTag.BlockMS /\ e = Put(U32, ms) ELSE tag # OptionTag.BlockMS

\* The block found among options of which the k-th, if any, is the only block.
LEMMA BlockFound ==
  ASSUME NEW parts \in Seq(Seq(Nat)), NEW n \in Nat, n = Len(parts), NEW k \in Nat, NEW ms \in 0..Widest(U32),
         \A i \in 1..n: OptionPart(parts[i], k, i, ms)
  PROVE  BlockOption(FlattenSeq(parts)) = IF k \in 1..n /\ parts[k] # <<>> THEN <<ms>> ELSE <<>>
<1>1. PICK none \in Seq(Nat): none = <<>> /\ Len(none) = 0
  BY EmptySeq
<1>2. PICK s: Trail(s, parts, none)
  BY TrailOf
<1>3. /\ s \in [0..n -> Seq(Nat)] /\ s[n] = none
      /\ \A i \in 1..n: s[i - 1] = parts[i] \o s[i]
  BY <1>2 DEF Trail
<1>4. PICK b \in Seq(Nat): b = FlattenSeq(parts) /\ b = s[0]
  <2>1. FlattenSeq(parts) \in Seq(Nat) /\ s[0] = FlattenSeq(parts) \o none
    BY <1>2, Flattened
  <2>2. FlattenSeq(parts) \o none = FlattenSeq(parts)
    BY <1>1, <2>1, ConcatEmptySeq
  <2> QED BY <2>1, <2>2
<1>5. PICK h: BlockOption(b) = h[0] /\ \A at \in 0..Len(b): h[at] = Scanned(b, at, h)
  BY BlockScans
<1>6. PICK L \in Nat: L = Len(b)
  OBVIOUS
<1>7. ASSUME NEW i \in 1..n
      PROVE  parts[i] \in Seq(Nat) /\ s[i] \in Seq(Nat) /\ s[i - 1] = parts[i] \o s[i] /\ i - 1 \in 0..n
  <2>1. i \in 0..n /\ i - 1 \in 0..n
    OBVIOUS
  <2>2. parts[i] \in Seq(Nat)
    BY ElementOfSeq
  <2> QED BY <1>3, <2>1, <2>2
<1>8. DEFINE T == {i \in 0..n: Ends(s[i], b)}
<1>9. \A i \in 0..n: i \in T
  <2>1. 0 \in T
    BY <1>4, <1>6 DEF Ends
  <2>2. ASSUME NEW i \in 0..(n - 1), i \in T PROVE i + 1 \in T
    <3>1. i + 1 \in 1..n /\ i + 1 \in 0..n /\ (i + 1) - 1 = i
      OBVIOUS
    <3>2. Ends(s[i], b) /\ s[i] = parts[i + 1] \o s[i + 1]
      BY <1>7, <2>2, <3>1
    <3>3. Ends(s[i + 1], b)
      <4>1. EndsBefore(s[i + 1], b, parts[i + 1], s[i])
        BY <1>7, <3>1, <3>2, EndsAfter
      <4> QED BY <4>1 DEF EndsBefore
    <3> QED BY <3>1, <3>3
  <2> HIDE DEF T
  <2> QED BY <2>1, <2>2, Climb
<1>10. \A i \in 0..n: Ends(s[i], b)
  BY <1>9
<1> HIDE DEF T
\* Whether the block is among the options after the i-th.
<1>11. DEFINE Found(i) == IF k \in (i + 1)..n /\ parts[k] # <<>> THEN <<ms>> ELSE <<>>
<1>12. DEFINE U == {i \in 0..n: h[L - Len(s[i])] = Found(i)}
<1>13. n \in U
  <2>1. L - Len(s[n]) = L /\ n \in 0..n /\ ~(k \in (n + 1)..n)
    BY <1>1, <1>3
  <2>2. h[L] = Scanned(b, L, h)
    BY <1>5, <1>6
  <2>3. Scanned(b, L, h) = <<>>
    BY <1>6 DEF Scanned
  <2>4. Found(n) = <<>>
    BY <2>1
  <2> QED BY <2>1, <2>2, <2>3, <2>4
<1>14. ASSUME NEW i \in 1..n, i \in U PROVE i - 1 \in U
  <2>1. PICK later: later = h[L - Len(s[i])] /\ later = Found(i)
    BY <1>14
  <2>2. k \in ((i - 1) + 1)..n <=> k = i \/ k \in (i + 1)..n
    OBVIOUS
  <2>3. PICK p \in Seq(Nat), r \in Seq(Nat), t \in Seq(Nat): p = parts[i] /\ r = s[i] /\ t = s[i - 1] /\ t = p \o r
    <3>1. PICK p \in Seq(Nat), r \in Seq(Nat): p = parts[i] /\ r = s[i] /\ s[i - 1] = p \o r
      BY <1>7
    <3>2. p \o r \in Seq(Nat)
      OBVIOUS
    <3> QED BY <3>1, <3>2
  <2>4. Ends(t, b) /\ Len(t) <= L
    <3>1. i - 1 \in 0..n
      BY <1>7
    <3>2. Ends(t, b)
      BY <1>10, <2>3, <3>1
    <3> QED BY <1>6, <3>2 DEF Ends
  <2>5. CASE p = <<>>
    <3>1. t = r
      BY <2>3, <2>5, ConcatEmptySeq
    <3>2. Found(i - 1) = Found(i)
      BY <2>2, <2>3, <2>5
    <3> QED BY <1>7, <2>1, <2>3, <3>1, <3>2
  <2>6. ASSUME NEW tag, NEW e, IsOption(p, tag, e),
               IF i = k THEN tag = OptionTag.BlockMS /\ e = Put(U32, ms) ELSE tag # OptionTag.BlockMS
        PROVE  h[L - Len(t)] = Found(i - 1)
    <3>1. h[L - Len(t)] = Scanned(b, L - Len(t), h)
      <4>1. L - Len(t) \in 0..L
        <5>1. t \in Seq(Nat)
          BY <2>3
        <5> QED BY <2>4, <5>1
      <4> QED BY <1>5, <1>6, <4>1
    <3>2. Scanned(b, L - Len(t), h) =
            IF later # <<>> THEN later
            ELSE IF tag = OptionTag.BlockMS /\ Len(e) = U32 THEN <<Got(U32, e)>> ELSE <<>>
      <4>1. FoundFrom(b, t, h, later, tag, e)
        BY <1>6, <2>1, <2>3, <2>4, <2>6, OptionScanned
      <4> QED BY <1>6, <4>1 DEF FoundFrom
    <3>3. p # <<>>
      <4>1. e \in Seq(Nat) /\ tag \in Nat /\ p = <<tag, Len(e)>> \o e
        BY <2>6 DEF IsOption
      <4>2. Len(p) = 2 + Len(e)
        BY <4>1
      <4> QED BY <4>1, <4>2
    <3>4. CASE i = k
      <4>1. Len(e) = U32 /\ Got(U32, e) = ms
        <5>1. U32 \in 0..U64 /\ ms \in Nat /\ ms < Span[U32]
          <6>1. U32 \in 0..U64
            BY Widths
          <6>2. Widest(U32) \in Nat /\ Widest(U32) < Span[U32]
            BY <6>1, WidestIs
          <6>3. Span[U32] \in Nat
            BY <6>1, Spans
          <6> QED BY <6>1, <6>2, <6>3, SMTT(20)
        <5>2. Len(Put(U32, ms)) = U32 /\ Digits(U32, ms, Put(U32, ms))
          BY <5>1, PutDigits
        <5> QED BY <2>6, <3>4, <5>1, <5>2, GotPut
      <4>2. later = <<>> /\ Found(i - 1) = <<ms>>
        BY <2>1, <2>2, <2>3, <3>3, <3>4
      <4> QED BY <2>6, <3>1, <3>2, <3>4, <4>1, <4>2
    <3>5. CASE i # k
      <4>1. Found(i - 1) = Found(i)
        BY <2>2, <3>5
      <4> QED BY <2>1, <2>6, <3>1, <3>2, <3>5, <4>1
    <3> QED BY <3>4, <3>5
  <2>7. h[L - Len(t)] = Found(i - 1) \/ p = <<>>
    BY <2>3, <2>6 DEF OptionPart
  <2> QED BY <1>7, <2>3, <2>5, <2>7
<1>15. \A i \in 0..n: i \in U
  <2> HIDE DEF U
  <2> QED BY <1>13, <1>14, Descend
<1>16. h[L - Len(s[0])] = Found(0)
  <2>1. 0 \in U
    <3>1. 0 \in 0..n
      OBVIOUS
    <3> HIDE DEF U
    <3> QED BY <1>15, <3>1
  <2> QED BY <2>1
<1>17. L - Len(s[0]) = 0 /\ 0 + 1 = 1
  BY <1>4, <1>6
<1> QED BY <1>4, <1>5, <1>16, <1>17

-----------------------------------------------------------------------------
(* Tuples end to end.                                                      *)

\* Cell by cell, two sequences end to end.
LEMMA Joined ==
  ASSUME NEW S, NEW s \in Seq(S), NEW t \in Seq(S), NEW u \in Seq(S), Len(u) = Len(s) + Len(t),
         \A i \in 1..Len(s): u[i] = s[i], \A i \in 1..Len(t): u[Len(s) + i] = t[i]
  PROVE  s \o t = u
<1>1. PICK z: z = s \o t
  OBVIOUS
<1>2. z \in Seq(S) /\ Len(z) = Len(u)
  BY <1>1
<1>3. PICK m \in Nat, n \in Nat: m = Len(s) /\ n = Len(t)
  OBVIOUS
<1>4. ASSUME NEW i \in 1..(m + n) PROVE z[i] = u[i]
  <2>1. CASE i <= m
    BY <1>1, <1>3, <2>1
  <2>2. CASE i > m
    <3>1. i - m \in 1..n /\ m + (i - m) = i
      BY <2>2
    <3>2. u[m + (i - m)] = t[i - m]
      BY <1>3, <3>1
    <3>3. z[i] = t[i - m]
      BY <1>1, <1>3, <2>2
    <3> QED BY <3>1, <3>2, <3>3
  <2> QED BY <2>1, <2>2
<1> QED BY <1>1, <1>2, <1>3, <1>4, SeqEqual

\* A third element.
LEMMA Append2 ==
  ASSUME NEW S, NEW a \in S, NEW b \in S, NEW c \in S
  PROVE  Append(<<a, b>>, c) = <<a, b, c>>
<1>1. <<a, b>> \in Seq(S) /\ <<a, b, c>> \in Seq(S)
  OBVIOUS
<1>2. PICK s \in Seq(S), u \in Seq(S): s = <<a, b>> /\ u = <<a, b, c>>
  BY <1>1
<1>3. Append(s, c) \in Seq(S) /\ Len(Append(s, c)) = Len(u)
  BY <1>2
<1>4. \A i \in 1..Len(u): Append(s, c)[i] = u[i]
  BY <1>2
<1> QED BY <1>2, <1>3, <1>4, SeqEqual

-----------------------------------------------------------------------------
(* The layouts of the API are well-formed.                                 *)

\* How the widths compare.
LEMMA Spaces ==
  /\ Unchecked \in Nat
  /\ Widest(U8) \in Nat /\ Widest(U16) \in Nat /\ Widest(U32) \in Nat /\ Widest(U64) \in Nat
  /\ RADIX - 1 = Widest(U8) /\ Widest(U8) <= Widest(U16) /\ Widest(U16) <= Widest(U32)
  /\ Widest(U32) <= Widest(U64) /\ Span[U16] = Widest(U16) + 1
<1>1. U8 \in 0..U64 /\ U16 \in 0..U64 /\ U32 \in 0..U64 /\ U64 \in 0..U64
  BY Widths
<1>2. Unchecked \in Nat
  BY <1>1, Spans DEF Unchecked
<1>3. Widest(U8) = RADIX - 1
  <2>1. Span[1] = RADIX
    BY Spans, Radix, Widths
  <2> QED BY <2>1, Widths DEF Widest
<1>4. ASSUME NEW i \in 1..U64 PROVE Span[i - 1] <= Span[i]
  <2>1. i \in 0..U64 /\ i - 1 \in 0..U64
    BY Widths
  <2>2. PICK x \in Nat: x = Span[i - 1]
    BY <2>1, Spans
  <2>3. Span[i] = RADIX * x
    BY <2>2, Spans
  <2>4. x <= RADIX * x
    BY <2>2, Radix
  <2> QED BY <2>2, <2>3, <2>4
<1>5. Span[1] <= Span[2] /\ Span[2] <= Span[3] /\ Span[3] <= Span[4] /\ Span[4] <= Span[5]
      /\ Span[5] <= Span[6] /\ Span[6] <= Span[7] /\ Span[7] <= Span[8]
  <2>1. /\ 2 \in 1..U64 /\ 3 \in 1..U64 /\ 4 \in 1..U64 /\ 5 \in 1..U64 /\ 6 \in 1..U64 /\ 7 \in 1..U64 /\ 8 \in 1..U64
        /\ 2 - 1 = 1 /\ 3 - 1 = 2 /\ 4 - 1 = 3 /\ 5 - 1 = 4 /\ 6 - 1 = 5 /\ 7 - 1 = 6 /\ 8 - 1 = 7
    BY Widths
  <2> QED BY <1>4, <2>1
<1>6. \A w \in 1..8: Span[w] \in Nat
  BY Spans, Widths
<1>7. Widest(U8) <= Widest(U16) /\ Widest(U16) <= Widest(U32) /\ Widest(U32) <= Widest(U64) /\ Span[U16] = Widest(U16) + 1
  BY <1>5, <1>6, Widths DEF Widest
<1> QED BY <1>1, <1>2, <1>3, <1>7, WidestIs

\* A leaf, exact or not.
LEMMA NumberLaid ==
  ASSUME NEW exact \in BOOLEAN, NEW w \in 1..U64, NEW min \in Nat, NEW max \in Nat, max <= Widest(w)
  PROVE  Laid0(exact, Number(w, min, max))
BY DEF Number, Laid0

\* The numbers of a width.
LEMMA UintLaid ==
  ASSUME NEW exact \in BOOLEAN, NEW w \in 1..U64
  PROVE  Laid0(exact, Uint(w))
<1>1. w \in 0..U64
  BY Widths
<1>2. Widest(w) \in Nat /\ 0 \in Nat /\ Widest(w) <= Widest(w)
  BY <1>1, WidestIs
<1> QED BY <1>2, NumberLaid DEF Uint

\* So are those that are cut to it.
LEMMA MaskedLaid ==
  ASSUME NEW exact \in BOOLEAN, NEW w \in 1..U64
  PROVE  Laid0(exact, Masked(w))
<1>1. w \in 0..U64
  BY Widths
<1>2. Widest(w) \in Nat /\ 0 \in Nat /\ Widest(w) <= Widest(w)
  BY <1>1, WidestIs
<1>3. /\ Masked(w).kind = "number" /\ Masked(w).width = w
      /\ Masked(w).min = 0 /\ Masked(w).max = Widest(w)
  BY DEF Masked, Uint, Number
<1> QED BY <1>2, <1>3 DEF Laid0

\* Texts whose length their prefix counts.
LEMMA TextLaid ==
  ASSUME NEW exact \in BOOLEAN, NEW w \in 1..U64, NEW max \in Nat, max <= Widest(w) \/ max = Unchecked
  PROVE  Laid0(exact, Text(w, max)) /\ Laid0(exact, [Text(w, max) EXCEPT !.min = 1])
BY DEF Text, Laid0

\* Texts of any length, and loose ones, if it need not be exact.
LEMMA NameLaid ==
  ASSUME NEW exact \in BOOLEAN, NEW w \in 1..U64
  PROVE  Laid0(exact, Name(w)) /\ Laid0(exact, NonEmpty(w)) /\ Laid0(FALSE, LooseText(w))
<1>1. Laid0(exact, Name(w)) /\ Laid0(exact, NonEmpty(w))
  BY Spaces, TextLaid DEF Name, NonEmpty
<1>2. Laid0(FALSE, LooseText(w))
  BY Spaces DEF LooseText, Name, Text, Laid0
<1> QED BY <1>1, <1>2

\* What is laid at a level is laid at those above it.
LEMMA LaidAbove0 ==
  ASSUME NEW exact, NEW f, Laid0(exact, f)
  PROVE  Laid1(exact, f) /\ Laid2(exact, f) /\ Laid3(exact, f) /\ Laid4(exact, f)
<1>1. Leaf(f)
  BY DEF Laid0, Leaf
<1> QED BY <1>1 DEF Laid1, Laid2, Laid3, Laid4, LaidIn

\* A field laid out at one level is at the next.
LEMMA LaidAbove1 ==
  ASSUME NEW exact, NEW f, Laid1(exact, f)
  PROVE  Laid2(exact, f)
BY LaidAbove0 DEF Laid1, Laid2, LaidIn

\* And at the one after that.
LEMMA LaidAbove2 ==
  ASSUME NEW exact, NEW f, Laid2(exact, f)
  PROVE  Laid3(exact, f)
BY LaidAbove1 DEF Laid2, Laid3, LaidIn

\* And at the one after that.
LEMMA LaidAbove3 ==
  ASSUME NEW exact, NEW f, Laid3(exact, f)
  PROVE  Laid4(exact, f)
BY LaidAbove2 DEF Laid3, Laid4, LaidIn

\* The shapes of the fields of several parts.
LEMMA RowShaped ==
  ASSUME NEW exact \in BOOLEAN, NEW fields, Len(fields) \in Nat
  PROVE  Shaped(exact, Row(fields)) /\ ~Leaf(Row(fields)) /\ Row(fields).kind = "row" /\ Row(fields).of = fields
BY DEF Shaped, Row, Leaf

\* A well-formed field, not a row, of parts that are all laid out so.
Encloses(exact, f, of) == Shaped(exact, f) /\ ~Leaf(f) /\ f.kind # "row" /\ f.of = of

\* Optional fields.
LEMMA OptShaped ==
  ASSUME NEW exact \in BOOLEAN, NEW of
  PROVE  /\ Encloses(exact, Opt(of), of) /\ Encloses(exact, Given(of), of)
         /\ Encloses(FALSE, OptAny(of), of) /\ Encloses(FALSE, OptOne(of), of)
<1>1. U8 \in 1..U64 /\ 1 <= Widest(U8)
  BY Spaces, Widths, Radix
<1>2. Encloses(exact, Opt(of), of) /\ Encloses(exact, Given(of), of)
  BY <1>1 DEF Encloses, Shaped, Leaf, Opt, Given, List
<1>3. Encloses(FALSE, OptAny(of), of) /\ Encloses(FALSE, OptOne(of), of)
  BY <1>1 DEF Encloses, Shaped, Leaf, Opt, OptAny, OptOne, List
<1> QED BY <1>2, <1>3

\* Lists.
LEMMA ListShaped ==
  ASSUME NEW exact \in BOOLEAN, NEW w \in 1..U64, NEW min \in Nat, NEW max \in Nat, NEW of,
         max <= Widest(w) \/ max = Unchecked
  PROVE  Encloses(exact, List(w, min, max, of), of) /\ Encloses(FALSE, LaxList(w, of), of)
BY Spaces DEF Encloses, Shaped, Leaf, List, LaxList

\* Optional fields of a field without parts.
LEMMA OptLaid ==
  ASSUME NEW exact \in BOOLEAN, NEW of, Laid0(exact, of)
  PROVE  Laid1(exact, Opt(of)) /\ Laid1(exact, Given(of)) /\ Laid4(exact, Opt(of)) /\ Laid4(exact, Given(of))
<1>1. Laid1(exact, Opt(of)) /\ Laid1(exact, Given(of))
  BY OptShaped DEF Encloses, Laid1, LaidIn
<1> QED BY <1>1, LaidAbove1, LaidAbove2, LaidAbove3

\* An option whose reader is not exact.
LEMMA LaxOptLaid ==
  ASSUME NEW lax, lax = FALSE, NEW of, Laid0(lax, of)
  PROVE  Laid1(lax, OptAny(of)) /\ Laid4(lax, OptOne(of))
<1>1. Laid1(lax, OptAny(of)) /\ Laid1(lax, OptOne(of))
  BY OptShaped DEF Encloses, Laid1, LaidIn
<1> QED BY <1>1, LaidAbove1, LaidAbove2, LaidAbove3

\* Lists of a field without parts.
LEMMA ListLaid ==
  ASSUME NEW exact \in BOOLEAN, NEW of, Laid0(exact, of), NEW w \in 1..U64, NEW min \in Nat, NEW max \in Nat,
         max <= Widest(w) \/ max = Unchecked
  PROVE  Laid4(exact, List(w, min, max, of))
<1>1. Laid1(exact, List(w, min, max, of))
  <2>1. Encloses(exact, List(w, min, max, of), of)
    BY ListShaped
  <2> QED BY <2>1 DEF Encloses, Laid1, LaidIn
<1> QED BY <1>1, LaidAbove1, LaidAbove2, LaidAbove3

\* A list of rows of leaves, and of rows of fields of leaves.
LEMMA RowsLaid ==
  ASSUME NEW exact \in BOOLEAN, NEW fields, Len(fields) \in Nat, NEW w \in 1..U64, NEW max \in Nat,
         max <= Widest(w) \/ max = Unchecked
  PROVE  /\ (\A i \in 1..Len(fields): Laid0(exact, fields[i])) =>
              Laid1(exact, Row(fields)) /\ Laid4(exact, List(w, 0, max, Row(fields)))
         /\ (\A i \in 1..Len(fields): Laid1(exact, fields[i])) =>
              Laid4(exact, Row(fields)) /\ Laid4(exact, List(w, 0, max, Row(fields)))
<1>1. 0 \in Nat
  OBVIOUS
<1>2. ASSUME \A i \in 1..Len(fields): Laid0(exact, fields[i])
      PROVE  Laid1(exact, Row(fields)) /\ Laid4(exact, List(w, 0, max, Row(fields)))
  <2>1. Laid1(exact, Row(fields))
    BY <1>2, RowShaped DEF Laid1, LaidIn
  <2>2. Laid2(exact, List(w, 0, max, Row(fields)))
    <3>1. Encloses(exact, List(w, 0, max, Row(fields)), Row(fields))
      BY <1>1, ListShaped
    <3> QED BY <2>1, <3>1 DEF Encloses, Laid2, LaidIn
  <2> QED BY <2>1, <2>2, LaidAbove2, LaidAbove3
<1>3. ASSUME \A i \in 1..Len(fields): Laid1(exact, fields[i])
      PROVE  Laid4(exact, Row(fields)) /\ Laid4(exact, List(w, 0, max, Row(fields)))
  <2>1. Laid2(exact, Row(fields))
    BY <1>3, RowShaped DEF Laid2, LaidIn
  <2>2. Laid3(exact, List(w, 0, max, Row(fields)))
    <3>1. Encloses(exact, List(w, 0, max, Row(fields)), Row(fields))
      BY <1>1, ListShaped
    <3> QED BY <2>1, <3>1 DEF Encloses, Laid3, LaidIn
  <2> QED BY <2>1, <2>2, LaidAbove2, LaidAbove3
<1> QED BY <1>2, <1>3

\* The limits, and the prefixes that count them.
LEMMA Limits ==
  /\ U8 \in 1..U64 /\ U16 \in 1..U64 /\ U32 \in 1..U64 /\ U64 \in 1..U64
  /\ MAX_BLOCK_MS \in Nat /\ MAX_BLOCK_MS <= Widest(U32) /\ MAX_BLOCK_MS <= Widest(U64)
  /\ MAX_SHORT \in Nat /\ MAX_SHORT <= Widest(U16)
  /\ MAX_COUNT \in Nat /\ MAX_COUNT <= Widest(U16) /\ MAX_COUNT <= Widest(U32)
  /\ MAX_BODY \in Nat /\ MAX_BODY <= Widest(U32)
  /\ MAX_VALUE_SIZE \in Nat /\ MAX_VALUE_SIZE <= Widest(U32)
  /\ 0 <= Widest(U8) /\ 1 <= Widest(U8) /\ 2 <= Widest(U8) /\ 1 <= Widest(U32)
  /\ RADIX - 2 \in Nat /\ RADIX - 2 <= Widest(U8)
  /\ Widest(U64) \div RADIX \in Nat /\ Widest(U64) \div RADIX <= Widest(U64)
<1>1. U8 \in 1..U64 /\ U16 \in 1..U64 /\ U32 \in 1..U64 /\ U64 \in 1..U64
  BY Widths
<1>2. /\ Widest(U8) \in Nat /\ Widest(U16) \in Nat /\ Widest(U32) \in Nat /\ Widest(U64) \in Nat
      /\ RADIX - 1 = Widest(U8) /\ Widest(U8) <= Widest(U16) /\ Widest(U16) <= Widest(U32)
      /\ Widest(U32) <= Widest(U64)
  BY Spaces
<1>3. RADIX \in Nat /\ RADIX >= 4
  BY Radix
<1>4. /\ MAX_BLOCK_MS \in 1..Widest(U32) /\ MAX_SHORT \in 1..Widest(U16) /\ MAX_COUNT \in 1..Widest(U16)
      /\ MAX_BODY \in 1..MAX_VALUE_SIZE /\ MAX_VALUE_SIZE \in 1..Widest(U32)
  BY LimitsAssumption
<1>5. Widest(U64) \div RADIX \in Nat /\ Widest(U64) \div RADIX <= Widest(U64)
  <2>1. PICK n \in Nat: n = Widest(U64)
    BY <1>2
  <2>2. PICK q \in Nat, m \in 0..(RADIX - 1): q = n \div RADIX /\ m = n % RADIX /\ n = RADIX * q + m
    <3>1. RADIX \in Nat /\ RADIX > 0
      BY Radix
    <3> QED BY <3>1, Divided
  <2>3. PICK r \in Nat: RADIX = r + 1
    <3>1. RADIX - 1 \in Nat /\ RADIX = (RADIX - 1) + 1
      BY <1>3
    <3> QED BY <3>1
  <2>4. PICK p \in Nat: p = r * q
    OBVIOUS
  <2>5. RADIX * q = p + q
    BY <2>3, <2>4
  <2> QED BY <2>1, <2>2, <2>5
<1> QED BY <1>1, <1>2, <1>3, <1>4, <1>5

-----------------------------------------------------------------------------
(* The bodies of the requests and of the answers.                          *)

\* The numbers the API uses.
Numbers(exact) ==
  /\ Laid0(exact, Uint(U8)) /\ Laid0(exact, Uint(U16)) /\ Laid0(exact, Uint(U32)) /\ Laid0(exact, Uint(U64))
  /\ Laid0(exact, Masked(U8)) /\ Laid0(exact, Masked(U32)) /\ Laid0(exact, Masked(U64))
  /\ Laid0(exact, Bool) /\ Laid0(exact, Number(U8, 0, 1)) /\ Laid0(exact, Number(U8, 0, 2))
  /\ Laid0(exact, Number(U8, 0, 0)) /\ Laid0(exact, Number(U8, 0, RADIX - 2))
  /\ Laid0(exact, Number(U32, 1, 1)) /\ Laid0(exact, Number(U32, 1, MAX_COUNT))
  /\ Laid0(exact, Number(U32, 0, MAX_BLOCK_MS)) /\ Laid0(exact, Number(U64, 0, MAX_BLOCK_MS))
  /\ Laid0(exact, Number(U64, 1, Widest(U64))) /\ Laid0(exact, Number(U64, 0, Widest(U64) \div RADIX))

\* The numbers the API uses are laid out.
LEMMA NumbersLaid ==
  ASSUME NEW exact \in BOOLEAN
  PROVE  Numbers(exact)
<1>1. Laid0(exact, Uint(U8)) /\ Laid0(exact, Uint(U16)) /\ Laid0(exact, Uint(U32)) /\ Laid0(exact, Uint(U64))
  BY Limits, UintLaid
<1>1a. Laid0(exact, Masked(U8)) /\ Laid0(exact, Masked(U32)) /\ Laid0(exact, Masked(U64))
  BY Limits, MaskedLaid
<1>2. /\ Laid0(exact, Number(U8, 0, 1)) /\ Laid0(exact, Number(U8, 0, 2))
      /\ Laid0(exact, Number(U8, 0, 0)) /\ Laid0(exact, Number(U8, 0, RADIX - 2))
  BY Limits, NumberLaid
<1>3. /\ Laid0(exact, Number(U32, 1, 1)) /\ Laid0(exact, Number(U32, 1, MAX_COUNT))
      /\ Laid0(exact, Number(U32, 0, MAX_BLOCK_MS)) /\ Laid0(exact, Number(U64, 0, MAX_BLOCK_MS))
  BY Limits, NumberLaid
<1>4. Laid0(exact, Number(U64, 1, Widest(U64))) /\ Laid0(exact, Number(U64, 0, Widest(U64) \div RADIX))
  <2>1. Widest(U64) \in Nat /\ Widest(U64) <= Widest(U64)
    BY Spaces
  <2> QED BY <2>1, Limits, NumberLaid
<1> QED BY <1>1, <1>1a, <1>2, <1>3, <1>4 DEF Numbers, Bool

\* Its texts.
Texts(exact) ==
  /\ Laid0(exact, Name(U8)) /\ Laid0(exact, Name(U16)) /\ Laid0(exact, Name(U32)) /\ Laid0(exact, NonEmpty(U16))
  /\ Laid0(exact, Text(U32, MAX_BODY)) /\ Laid0(exact, Text(U16, MAX_SHORT))
  /\ Laid0(exact, [Text(U16, MAX_SHORT) EXCEPT !.min = 1])
  /\ Laid0(exact, Text(U16, Widest(U16))) /\ Laid0(exact, [Text(U16, Widest(U16)) EXCEPT !.min = 1])

\* So are its texts.
LEMMA TextsLaid ==
  ASSUME NEW exact \in BOOLEAN
  PROVE  Texts(exact)
<1>1. Laid0(exact, Name(U8)) /\ Laid0(exact, Name(U16)) /\ Laid0(exact, Name(U32)) /\ Laid0(exact, NonEmpty(U16))
  BY Limits, NameLaid
<1>2. /\ Laid0(exact, Text(U32, MAX_BODY)) /\ Laid0(exact, Text(U16, MAX_SHORT))
      /\ Laid0(exact, [Text(U16, MAX_SHORT) EXCEPT !.min = 1])
  BY Limits, TextLaid
<1>3. Laid0(exact, Text(U16, Widest(U16))) /\ Laid0(exact, [Text(U16, Widest(U16)) EXCEPT !.min = 1])
  <2>1. Widest(U16) \in Nat /\ Widest(U16) <= Widest(U16)
    BY Spaces
  <2> QED BY <2>1, Limits, TextLaid
<1> QED BY <1>1, <1>2, <1>3 DEF Texts

\* LeavesLaid, and options, as the fields of a body.
LeavesLaid(exact) ==
  /\ Laid4(exact, Uint(U8)) /\ Laid4(exact, Uint(U16)) /\ Laid4(exact, Uint(U32)) /\ Laid4(exact, Uint(U64))
  /\ Laid4(exact, Masked(U8)) /\ Laid4(exact, Masked(U32))
  /\ Laid4(exact, Bool) /\ Laid4(exact, Number(U8, 0, 1)) /\ Laid4(exact, Number(U8, 0, 0))
  /\ Laid4(exact, Number(U8, 0, RADIX - 2)) /\ Laid4(exact, Number(U32, 1, 1))
  /\ Laid4(exact, Number(U64, 0, Widest(U64) \div RADIX))
  /\ Laid4(exact, Name(U8)) /\ Laid4(exact, Name(U16)) /\ Laid4(exact, Name(U32)) /\ Laid4(exact, NonEmpty(U16))
  /\ Laid4(exact, Text(U32, MAX_BODY)) /\ Laid4(exact, Text(U16, MAX_SHORT)) /\ Laid4(exact, Text(U16, Widest(U16)))

\* Both.
LEMMA LeafFields ==
  ASSUME NEW exact \in BOOLEAN
  PROVE  LeavesLaid(exact)
<1>1. Numbers(exact) /\ Texts(exact)
  BY NumbersLaid, TextsLaid
<1> QED BY <1>1, LaidAbove0 DEF Numbers, Texts, LeavesLaid

\* Its optional fields.
Optionals(exact) ==
  /\ Laid4(exact, Given(Number(U64, 0, MAX_BLOCK_MS))) /\ Laid4(exact, Given(Number(U8, 0, 1)))
  /\ Laid4(exact, Given(Number(U8, 0, 2))) /\ Laid4(exact, Given(Bool)) /\ Laid4(exact, Given(Uint(U64)))
  /\ Laid4(exact, Given(Number(U32, 1, MAX_COUNT))) /\ Laid4(exact, jsonPath) /\ Laid4(exact, routingKey)
  /\ Laid4(exact, optU64) /\ Laid4(exact, txn) /\ Laid4(exact, Opt(Uint(U64))) /\ Laid4(exact, Opt(Uint(U16)))
  /\ Laid4(exact, Opt(Number(U64, 1, Widest(U64)))) /\ Laid4(exact, Opt(Name(U16)))
  /\ Laid4(exact, Opt(NonEmpty(U16))) /\ Laid4(exact, Opt([Text(U16, Widest(U16)) EXCEPT !.min = 1]))

\* So are its optional fields.
LEMMA OptFields ==
  ASSUME NEW exact \in BOOLEAN
  PROVE  Optionals(exact)
<1>0. Numbers(exact) /\ Texts(exact)
  BY NumbersLaid, TextsLaid
<1>1. /\ Laid4(exact, Given(Number(U64, 0, MAX_BLOCK_MS))) /\ Laid4(exact, Given(Number(U8, 0, 1)))
      /\ Laid4(exact, Given(Number(U8, 0, 2))) /\ Laid4(exact, Given(Bool)) /\ Laid4(exact, Given(Uint(U64)))
      /\ Laid4(exact, Given(Number(U32, 1, MAX_COUNT)))
  BY <1>0, OptLaid DEF Numbers
<1>2. Laid4(exact, jsonPath) /\ Laid4(exact, routingKey)
  BY <1>0, OptLaid DEF Texts, jsonPath, routingKey
<1>3. /\ Laid4(exact, optU64) /\ Laid4(exact, txn) /\ Laid4(exact, Opt(Uint(U64))) /\ Laid4(exact, Opt(Uint(U16)))
      /\ Laid4(exact, Opt(Number(U64, 1, Widest(U64))))
  BY <1>0, OptLaid DEF Numbers, optU64, txn
<1>4. /\ Laid4(exact, Opt(Name(U16)))
      /\ Laid4(exact, Opt(NonEmpty(U16))) /\ Laid4(exact, Opt([Text(U16, Widest(U16)) EXCEPT !.min = 1]))
  BY <1>0, OptLaid DEF Texts
<1> QED BY <1>1, <1>2, <1>3, <1>4 DEF Optionals

\* Fields of a body, only the last of which may be the rest.
FieldsLaid(exact, fields) ==
  /\ Len(fields) \in Nat
  /\ \A i \in 1..Len(fields): Laid4(exact, fields[i]) \/ (fields[i].kind = "rest" /\ i = Len(fields))

\* Fields that are laid out are those of a body.
LEMMA RowLaid ==
  ASSUME NEW exact, NEW fields, FieldsLaid(exact, fields)
  PROVE  LaidRow(exact, Row(fields))
BY DEF LaidRow, Row, FieldsLaid

\* The rest is.
LEMMA RestLast == Rest.kind = "rest"
BY DEF Rest

\* The bodies of the requests: kv_body.ts,
KeyValueLaid(exact) ==
  /\ FieldsLaid(exact, encodeGetBody) /\ FieldsLaid(exact, encodeSetBody) /\ FieldsLaid(exact, encodeDeleteBody)
  /\ FieldsLaid(exact, encodeScanBody) /\ FieldsLaid(exact, encodeHistoryBody) /\ FieldsLaid(exact, encodeIncrBody)
  /\ FieldsLaid(exact, encodeExpireBody) /\ FieldsLaid(exact, encodeExistsBody)
  /\ FieldsLaid(exact, encodeJsonPathBody) /\ FieldsLaid(exact, encodeJsonSetBody)
  /\ FieldsLaid(exact, encodeMGetBody) /\ FieldsLaid(exact, encodeTxnBody)

\* The bodies of the requests of kv_body.ts.
LEMMA KeyValueBodies ==
  ASSUME NEW exact \in BOOLEAN
  PROVE  KeyValueLaid(exact)
<1>1. LeavesLaid(exact) /\ Optionals(exact)
  BY LeafFields, OptFields
<1>2. FieldsLaid(exact, encodeGetBody) /\ FieldsLaid(exact, encodeSetBody) /\ FieldsLaid(exact, encodeDeleteBody)
  BY <1>1 DEF LeavesLaid, Optionals, FieldsLaid, encodeGetBody, encodeSetBody, encodeDeleteBody
<1>3. FieldsLaid(exact, encodeScanBody) /\ FieldsLaid(exact, encodeHistoryBody) /\ FieldsLaid(exact, encodeIncrBody)
  BY <1>1 DEF LeavesLaid, Optionals, FieldsLaid, encodeScanBody, encodeHistoryBody, encodeIncrBody
<1>4. FieldsLaid(exact, encodeExpireBody) /\ FieldsLaid(exact, encodeExistsBody) /\ FieldsLaid(exact, encodeTxnBody)
  BY <1>1 DEF LeavesLaid, Optionals, FieldsLaid, encodeExpireBody, encodeExistsBody, encodeTxnBody
<1>5. FieldsLaid(exact, encodeJsonPathBody) /\ FieldsLaid(exact, encodeJsonSetBody)
  BY <1>1 DEF LeavesLaid, Optionals, FieldsLaid, encodeJsonPathBody, encodeJsonSetBody
<1>6. FieldsLaid(exact, encodeMGetBody)
  <2>1. Texts(exact)
    BY TextsLaid
  <2>2. Laid4(exact, List(U16, 1, MAX_COUNT, Text(U16, MAX_SHORT)))
    BY <2>1, Limits, ListLaid DEF Texts
  <2> QED BY <1>1, <2>2 DEF Optionals, FieldsLaid, encodeMGetBody
<1> QED BY <1>2, <1>3, <1>4, <1>5, <1>6 DEF KeyValueLaid

\* queue.ts, streams.ts,
MessagingLaid(exact) ==
  /\ FieldsLaid(exact, <<>>) /\ FieldsLaid(exact, <<Rest>>) /\ FieldsLaid(exact, serializeSeqs)
  /\ FieldsLaid(exact, serializeStreamAppendValue) /\ FieldsLaid(exact, member)
  /\ FieldsLaid(exact, Append(member, recordIds))

\* Those of queues and streams.
LEMMA MessagingBodies ==
  ASSUME NEW exact \in BOOLEAN
  PROVE  MessagingLaid(exact)
<1>1. LeavesLaid(exact) /\ Numbers(exact) /\ Texts(exact)
  BY LeafFields, NumbersLaid, TextsLaid
<1>2. FieldsLaid(exact, <<>>) /\ FieldsLaid(exact, <<Rest>>) /\ FieldsLaid(exact, member)
  BY <1>1, RestLast DEF LeavesLaid, FieldsLaid, member
<1>3. FieldsLaid(exact, serializeSeqs)
  <2>1. Laid4(exact, List(U32, 0, Unchecked, Masked(U64)))
    BY <1>1, Spaces, Limits, ListLaid DEF Numbers
  <2> QED BY <2>1 DEF FieldsLaid, serializeSeqs
<1>4. FieldsLaid(exact, serializeStreamAppendValue)
  <2>1. Laid4(exact, List(U16, 0, Widest(U16), header))
    <3>1. PICK fields: fields = <<Text(U16, Widest(U16)), Text(U16, Widest(U16))>>
      OBVIOUS
    <3>2. Len(fields) \in Nat /\ \A i \in 1..Len(fields): Laid0(exact, fields[i])
      BY <1>1, <3>1 DEF Texts
    <3>3. Widest(U16) \in Nat /\ Widest(U16) <= Widest(U16) /\ U16 \in 1..U64
      BY Spaces, Limits
    <3> QED BY <3>1, <3>2, <3>3, RowsLaid DEF header
  <2> QED BY <1>1, <2>1 DEF LeavesLaid, FieldsLaid, serializeStreamAppendValue
<1>5. FieldsLaid(exact, Append(member, recordIds))
  <2>1. Laid4(exact, recordIds)
    <3>1. PICK fields: fields = <<Masked(U64), Masked(U64)>>
      OBVIOUS
    <3>2. Len(fields) \in Nat /\ \A i \in 1..Len(fields): Laid0(exact, fields[i])
      BY <1>1, <3>1 DEF Numbers
    <3> QED BY <3>1, <3>2, Spaces, Limits, RowsLaid DEF recordIds
  <2>2. PICK S: S = {Name(U16), recordIds}
    OBVIOUS
  <2>3. Append(member, recordIds) = <<Name(U16), Name(U16), recordIds>>
    <3>1. Name(U16) \in S /\ recordIds \in S
      BY <2>2
    <3> QED BY <3>1, Append2 DEF member
  <2> QED BY <1>1, <2>1, <2>3 DEF LeavesLaid, FieldsLaid
<1> QED BY <1>2, <1>3, <1>4, <1>5 DEF MessagingLaid

\* actions.ts and wire.ts,
TasksLaid(exact) ==
  /\ FieldsLaid(exact, serializeActionRegisterValue) /\ FieldsLaid(exact, serializeActionInvokeValue)
  /\ FieldsLaid(exact, serializeListValue) /\ FieldsLaid(exact, serializeWorkerRegisterValue)
  /\ FieldsLaid(exact, serializeWorkerHeartbeatValue) /\ FieldsLaid(exact, serializeWorkerAwaitValue)
  /\ FieldsLaid(exact, serializeWorkerTouchValue) /\ FieldsLaid(exact, serializeWorkerCompleteValue)
  /\ FieldsLaid(exact, serializeWorkerFailValue) /\ FieldsLaid(exact, encodeWorkerListBody)

\* Those of actions.
LEMMA TaskBodies ==
  ASSUME NEW exact \in BOOLEAN
  PROVE  TasksLaid(exact)
<1>1. LeavesLaid(exact) /\ Optionals(exact) /\ Numbers(exact) /\ Texts(exact)
  BY LeafFields, OptFields, NumbersLaid, TextsLaid
<1>2. FieldsLaid(exact, serializeActionRegisterValue) /\ FieldsLaid(exact, serializeActionInvokeValue)
  BY <1>1, RestLast DEF LeavesLaid, Optionals, FieldsLaid, serializeActionRegisterValue, serializeActionInvokeValue
<1>3. FieldsLaid(exact, serializeListValue) /\ FieldsLaid(exact, serializeWorkerHeartbeatValue)
  BY <1>1, RestLast DEF LeavesLaid, FieldsLaid, serializeListValue, serializeWorkerHeartbeatValue
<1>4. FieldsLaid(exact, serializeWorkerTouchValue) /\ FieldsLaid(exact, serializeWorkerCompleteValue)
  BY <1>1 DEF LeavesLaid, FieldsLaid, serializeWorkerTouchValue, serializeWorkerCompleteValue
<1>5. FieldsLaid(exact, serializeWorkerFailValue) /\ FieldsLaid(exact, encodeWorkerListBody)
  BY <1>1, RestLast DEF LeavesLaid, Optionals, FieldsLaid, serializeWorkerFailValue, encodeWorkerListBody
<1>6. FieldsLaid(exact, serializeWorkerAwaitValue)
  <2>1. Laid4(exact, List(U32, 0, Unchecked, Name(U16)))
    BY <1>1, Spaces, Limits, ListLaid DEF Texts
  <2> QED BY <2>1 DEF FieldsLaid, serializeWorkerAwaitValue
<1>7. FieldsLaid(exact, serializeWorkerRegisterValue)
  <2>1. PICK fields: fields = <<Name(U16), Masked(U8)>>
    OBVIOUS
  <2>2. Len(fields) \in Nat /\ \A i \in 1..Len(fields): Laid0(exact, fields[i])
    BY <1>1, <2>1 DEF Numbers, Texts
  <2>3. Laid4(exact, List(U16, 0, Unchecked, Row(fields)))
    BY <2>2, Spaces, Limits, RowsLaid
  <2> QED BY <1>1, <2>1, <2>3 DEF LeavesLaid, Optionals, FieldsLaid, serializeWorkerRegisterValue
<1> QED BY <1>2, <1>3, <1>4, <1>5, <1>6, <1>7 DEF TasksLaid

\* workflows.ts and processing.ts.
FlowsLaid(exact) ==
  /\ FieldsLaid(exact, listValue) /\ FieldsLaid(exact, startValue) /\ FieldsLaid(exact, serializeListRunsValue)
  /\ FieldsLaid(exact, signalValue) /\ FieldsLaid(exact, <<Masked(U32)>>)

\* Those of workflows and processing.
LEMMA FlowBodies ==
  ASSUME NEW exact \in BOOLEAN
  PROVE  FlowsLaid(exact)
<1>1. LeavesLaid(exact) /\ Optionals(exact)
  BY LeafFields, OptFields
<1>2. FieldsLaid(exact, listValue) /\ FieldsLaid(exact, startValue)
  BY <1>1, RestLast DEF LeavesLaid, Optionals, FieldsLaid, listValue, startValue
<1>3. FieldsLaid(exact, serializeListRunsValue) /\ FieldsLaid(exact, signalValue) /\ FieldsLaid(exact, <<Masked(U32)>>)
  BY <1>1, RestLast DEF LeavesLaid, FieldsLaid, serializeListRunsValue, signalValue
<1> QED BY <1>2, <1>3 DEF FlowsLaid

-----------------------------------------------------------------------------
(* The bodies of the answers.                                              *)

\* An answer of fewer cells than its reader asks for has no first field.
Needs(least, f) ==
  /\ f.width \in Nat /\ least <= f.width
  /\ f.kind \in {"number", "text"} \/ (f.kind = "list" /\ f.how \in {"counted", "lax"})
\* The layout of an answer; a body that is long enough has its first field.
AnswerLaid(exact, a) ==
  /\ LaidRow(exact, a.fields) /\ a.least \in Nat
  /\ a.least = 0 \/ (Len(a.fields.of) >= 1 /\ Needs(a.least, a.fields.of[1]))

\* The answers that kv_body.ts decodes.
KeyValueAnswersLaid(exact) ==
  /\ AnswerLaid(exact, decodeGetAnswer) /\ AnswerLaid(exact, decodeSetAnswer) /\ AnswerLaid(exact, decodeDeleteAnswer)
  /\ AnswerLaid(exact, decodeScanAnswer) /\ AnswerLaid(exact, decodeHistoryAnswer)
  /\ AnswerLaid(exact, decodeIncrAnswer) /\ AnswerLaid(exact, decodeEmptyAnswer)
  /\ AnswerLaid(exact, decodeExistsAnswer) /\ AnswerLaid(exact, decodeJsonGetAnswer)
  /\ AnswerLaid(exact, decodeJsonDelAnswer) /\ AnswerLaid(exact, decodeJsonSetAnswer)
  /\ AnswerLaid(exact, decodeMGetAnswer) /\ AnswerLaid(exact, decodeTxnBeginAnswer)
  /\ AnswerLaid(exact, decodeTxnCommitAnswer)

\* An answer whose fields are laid out is.
LEMMA AnswerIsLaid ==
  ASSUME NEW exact, NEW fields, FieldsLaid(exact, fields)
  PROVE  AnswerLaid(exact, Answer(fields)) /\ AnswerLaid(exact, OpenAnswer(fields)) /\ AnswerLaid(exact, PagedAnswer(fields))
<1>1. LaidRow(exact, Row(fields))
  BY RowLaid
<1> QED BY <1>1 DEF AnswerLaid, Answer, OpenAnswer, PagedAnswer

\* The answers that kv_body.ts decodes.
LEMMA KeyValueAnswers ==
  ASSUME NEW exact \in BOOLEAN
  PROVE  KeyValueAnswersLaid(exact)
<1>1. LeavesLaid(exact) /\ Optionals(exact) /\ Numbers(exact) /\ Texts(exact)
  BY LeafFields, OptFields, NumbersLaid, TextsLaid
<1>2. AnswerLaid(exact, decodeGetAnswer) /\ AnswerLaid(exact, decodeSetAnswer) /\ AnswerLaid(exact, decodeDeleteAnswer)
  <2>1. /\ FieldsLaid(exact, <<Uint(U64), Name(U32), optU64>>) /\ FieldsLaid(exact, <<optU64>>)
        /\ FieldsLaid(exact, <<Given(Bool)>>)
    BY <1>1 DEF LeavesLaid, Optionals, FieldsLaid
  <2> QED BY <2>1, AnswerIsLaid DEF decodeGetAnswer, decodeSetAnswer, decodeDeleteAnswer
<1>3. AnswerLaid(exact, decodeIncrAnswer) /\ AnswerLaid(exact, decodeEmptyAnswer) /\ AnswerLaid(exact, decodeExistsAnswer)
  <2>1. /\ FieldsLaid(exact, <<Given(Uint(U64)), Given(Uint(U64))>>) /\ FieldsLaid(exact, <<>>)
        /\ FieldsLaid(exact, <<Bool, Uint(U64)>>)
    BY <1>1 DEF LeavesLaid, Optionals, FieldsLaid
  <2> QED BY <2>1, AnswerIsLaid DEF decodeIncrAnswer, decodeEmptyAnswer, decodeExistsAnswer
<1>4. /\ AnswerLaid(exact, decodeJsonGetAnswer) /\ AnswerLaid(exact, decodeJsonDelAnswer)
      /\ AnswerLaid(exact, decodeJsonSetAnswer)
  <2>1. /\ FieldsLaid(exact, <<Uint(U64), Name(U32)>>) /\ FieldsLaid(exact, <<optU64>>)
        /\ FieldsLaid(exact, <<Uint(U64)>>)
    BY <1>1 DEF LeavesLaid, Optionals, FieldsLaid
  <2> QED BY <2>1, AnswerIsLaid DEF decodeJsonGetAnswer, decodeJsonDelAnswer, decodeJsonSetAnswer
<1>5. AnswerLaid(exact, decodeTxnBeginAnswer) /\ AnswerLaid(exact, decodeTxnCommitAnswer)
  <2>1. FieldsLaid(exact, <<Uint(U64), Uint(U64)>>) /\ FieldsLaid(exact, <<Uint(U64), Uint(U16)>>)
    BY <1>1 DEF LeavesLaid, FieldsLaid
  <2> QED BY <2>1, AnswerIsLaid DEF decodeTxnBeginAnswer, decodeTxnCommitAnswer
<1>6. AnswerLaid(exact, decodeScanAnswer)
  <2>1. Laid4(exact, List(U16, 0, Unchecked, Name(U16)))
    BY <1>1, Spaces, Limits, ListLaid DEF Texts
  <2>2. FieldsLaid(exact, <<List(U16, 0, Unchecked, Name(U16)), Opt(Name(U16))>>)
    BY <1>1, <2>1 DEF Optionals, FieldsLaid
  <2> QED BY <2>2, AnswerIsLaid DEF decodeScanAnswer
<1>7. AnswerLaid(exact, decodeHistoryAnswer)
  <2>1. PICK fields: fields = <<Uint(U64), Uint(U64), Bool, Name(U32)>>
    OBVIOUS
  <2>2. Len(fields) \in Nat /\ \A i \in 1..Len(fields): Laid0(exact, fields[i])
    BY <1>1, <2>1 DEF Numbers, Texts
  <2>3. Laid4(exact, List(U8, 0, Unchecked, Row(fields)))
    BY <2>2, Spaces, Limits, RowsLaid
  <2>4. FieldsLaid(exact, <<List(U8, 0, Unchecked, Row(fields)), Bool>>)
    BY <1>1, <2>3 DEF LeavesLaid, FieldsLaid
  <2> QED BY <2>1, <2>4, AnswerIsLaid DEF decodeHistoryAnswer
<1>8. AnswerLaid(exact, decodeMGetAnswer)
  <2>1. PICK fields: fields = <<Bool, Uint(U64), Name(U32)>>
    OBVIOUS
  <2>2. Len(fields) \in Nat /\ \A i \in 1..Len(fields): Laid0(exact, fields[i])
    BY <1>1, <2>1 DEF Numbers, Texts
  <2>3. Laid4(exact, List(U16, 0, Unchecked, Row(fields)))
    BY <2>2, Spaces, Limits, RowsLaid
  <2>4. FieldsLaid(exact, <<List(U16, 0, Unchecked, Row(fields)), Opt(Uint(U16))>>)
    BY <1>1, <2>3 DEF Optionals, FieldsLaid
  <2> QED BY <2>1, <2>4, AnswerIsLaid DEF decodeMGetAnswer
<1> QED BY <1>2, <1>3, <1>4, <1>5, <1>6, <1>7, <1>8 DEF KeyValueAnswersLaid

\* The answers of queues and streams.
MessagingAnswersLaid(exact) ==
  /\ AnswerLaid(exact, parseDequeueResponse) /\ AnswerLaid(exact, parseEnqueueResponse) /\ AnswerLaid(exact, NoAnswer)
  /\ AnswerLaid(exact, parseStreamAppendResponse) /\ AnswerLaid(exact, parseStreamInfoResponse)

\* Those of queues and streams.
LEMMA MessagingAnswers ==
  ASSUME NEW exact \in BOOLEAN
  PROVE  MessagingAnswersLaid(exact)
<1>1. LeavesLaid(exact) /\ Numbers(exact) /\ Texts(exact)
  BY LeafFields, NumbersLaid, TextsLaid
<1>2. AnswerLaid(exact, parseEnqueueResponse) /\ AnswerLaid(exact, NoAnswer) /\ AnswerLaid(exact, parseStreamAppendResponse)
  <2>1. FieldsLaid(exact, <<Uint(U64)>>) /\ FieldsLaid(exact, <<>>) /\ FieldsLaid(exact, <<Uint(U64), Uint(U64)>>)
    BY <1>1 DEF LeavesLaid, FieldsLaid
  <2> QED BY <2>1, AnswerIsLaid DEF parseEnqueueResponse, NoAnswer, parseStreamAppendResponse
<1>3. AnswerLaid(exact, parseStreamInfoResponse)
  <2>1. FieldsLaid(exact, <<Uint(U64), Uint(U64), Uint(U64), Uint(U64), Uint(U64), Uint(U64), Uint(U32)>>)
    BY <1>1 DEF LeavesLaid, FieldsLaid
  <2> QED BY <2>1, AnswerIsLaid DEF parseStreamInfoResponse
<1>4. AnswerLaid(exact, parseDequeueResponse)
  <2>1. PICK fields: fields = <<Uint(U64), Name(U32), Uint(U64), Uint(U32), Uint(U8)>>
    OBVIOUS
  <2>2. Len(fields) \in Nat /\ \A i \in 1..Len(fields): Laid0(exact, fields[i])
    BY <1>1, <2>1 DEF Numbers, Texts
  <2>3. Laid4(exact, List(U32, 0, Unchecked, Row(fields)))
    BY <2>2, Spaces, Limits, RowsLaid
  <2>4. FieldsLaid(exact, <<List(U32, 0, Unchecked, Row(fields))>>)
    BY <2>3 DEF FieldsLaid
  <2> QED BY <2>1, <2>4, AnswerIsLaid DEF parseDequeueResponse, queueMessage
<1> QED BY <1>2, <1>3, <1>4 DEF MessagingAnswersLaid

\* The answers of actions.
TaskAnswersLaid(exact) ==
  /\ AnswerLaid(exact, parseActionInvokeAnswer) /\ AnswerLaid(exact, decodeActionStatusAnswer)
  /\ AnswerLaid(exact, decodeActionListAnswer) /\ AnswerLaid(exact, heartbeatAnswer)
  /\ AnswerLaid(exact, parseTaskAssignment) /\ AnswerLaid(exact, decodeWorkerListAnswer)
  /\ AnswerLaid(exact, decodeWorkerInfoAnswer)

\* Those of actions.
LEMMA TaskAnswers ==
  ASSUME NEW exact \in BOOLEAN
  PROVE  TaskAnswersLaid(exact)
<1>1. LeavesLaid(exact) /\ Optionals(exact) /\ Numbers(exact) /\ Texts(exact)
  BY LeafFields, OptFields, NumbersLaid, TextsLaid
<1>2. AnswerLaid(exact, parseActionInvokeAnswer)
  <2>1. FieldsLaid(exact, <<NonEmpty(U16), Number(U8, 0, 0)>>)
    BY <1>1 DEF LeavesLaid, FieldsLaid
  <2> QED BY <2>1, AnswerIsLaid DEF parseActionInvokeAnswer
<1>3. AnswerLaid(exact, decodeActionStatusAnswer)
  <2>1. FieldsLaid(exact, <<Number(U8, 0, RADIX - 2), Uint(U64), Opt(Uint(U64)), Opt(Uint(U64)), Uint(U32),
                            Opt(Name(U16)), Opt(Name(U16)), Opt(Name(U16))>>)
    BY <1>1 DEF LeavesLaid, Optionals, FieldsLaid
  <2> QED BY <2>1, AnswerIsLaid DEF decodeActionStatusAnswer
<1>4. AnswerLaid(exact, decodeActionListAnswer)
  <2>1. PICK fields: fields = <<Name(U16), Name(U32)>>
    OBVIOUS
  <2>2. Len(fields) \in Nat /\ \A i \in 1..Len(fields): Laid0(exact, fields[i])
    BY <1>1, <2>1 DEF Texts
  <2>3. Laid4(exact, List(U32, 0, Unchecked, Row(fields)))
    BY <2>2, Spaces, Limits, RowsLaid
  <2>4. FieldsLaid(exact, <<List(U32, 0, Unchecked, Row(fields)), Bool, Name(U16)>>)
    BY <1>1, <2>3 DEF LeavesLaid, FieldsLaid
  <2> QED BY <2>1, <2>4, AnswerIsLaid DEF decodeActionListAnswer
<1>5. AnswerLaid(exact, heartbeatAnswer)
  <2>1. FieldsLaid(exact, <<Uint(U8)>>)
    BY <1>1 DEF LeavesLaid, FieldsLaid
  <2>2. LaidRow(exact, Row(<<Uint(U8)>>))
    BY <2>1, RowLaid
  <2>3. heartbeatAnswer.fields = Row(<<Uint(U8)>>) /\ heartbeatAnswer.least = 1
    BY DEF heartbeatAnswer, ShortAnswer, OpenAnswer, Answer
  <2>4. Needs(1, Uint(U8)) /\ Row(<<Uint(U8)>>).of = <<Uint(U8)>>
    <3>1. Uint(U8).kind = "number" /\ Uint(U8).width = 1
      BY Widths DEF Uint, Number
    <3> QED BY <3>1 DEF Needs, Row
  <2> QED BY <2>2, <2>3, <2>4 DEF AnswerLaid
<1>6. AnswerLaid(exact, parseTaskAssignment)
  <2>1. PICK names: names = <<Name(U16), Name(U16)>>
    OBVIOUS
  <2>2. Laid4(exact, caller)
    <3>1. Len(names) \in Nat /\ \A i \in 1..Len(names): Laid0(exact, names[i])
      BY <1>1, <2>1 DEF Texts
    <3>2. Laid1(exact, Row(names))
      BY <3>1, Spaces, Limits, RowsLaid
    <3>3. Laid2(exact, Opt(Row(names)))
      <4>1. Encloses(exact, Opt(Row(names)), Row(names))
        BY OptShaped
      <4> QED BY <3>2, <4>1 DEF Encloses, Laid2, LaidIn
    <3> QED BY <2>1, <3>3, LaidAbove2, LaidAbove3 DEF caller
  <2>3. PICK fields: fields = <<Name(U16), Name(U16), Uint(U64), Uint(U32), caller, Rest>>
    OBVIOUS
  <2>4. LaidRow(exact, Row(fields))
    <3>1. FieldsLaid(exact, fields)
      BY <1>1, <2>2, <2>3, RestLast DEF LeavesLaid, FieldsLaid
    <3> QED BY <3>1, RowLaid
  <2>5. parseTaskAssignment.fields = Row(fields) /\ parseTaskAssignment.least = 1
    BY <2>3 DEF parseTaskAssignment, ShortAnswer, Answer
  <2>6. Needs(1, Name(U16)) /\ Row(fields).of = fields
    BY Widths DEF Needs, Name, Text, Row
  <2>7. fields[1] = Name(U16) /\ Len(fields) >= 1
    BY <2>3
  <2> QED BY <2>4, <2>5, <2>6, <2>7 DEF AnswerLaid
<1>7. PICK row: row = <<Name(U16), Number(U8, 0, 1), Number(U8, 0, RADIX - 2), Uint(U32), Uint(U32), Uint(U64),
                        Uint(U64), Uint(U64), Uint(U64), Opt(Name(U8))>>
  OBVIOUS
<1>8. Laid4(exact, readWorkerRow) /\ Laid4(exact, List(U16, 0, Unchecked, readWorkerRow))
  <2>1. Laid1(exact, Opt(Name(U8)))
    BY <1>1, OptLaid DEF Texts
  <2>2. Len(row) \in Nat /\ \A i \in 1..Len(row): Laid1(exact, row[i])
    BY <1>1, <1>7, <2>1, LaidAbove0 DEF Numbers, Texts
  <2> QED BY <1>7, <2>2, Spaces, Limits, RowsLaid DEF readWorkerRow
<1>9. AnswerLaid(exact, decodeWorkerListAnswer)
  <2>1. FieldsLaid(exact, <<List(U16, 0, Unchecked, readWorkerRow), Opt(Name(U16))>>)
    BY <1>1, <1>8 DEF Optionals, FieldsLaid
  <2> QED BY <2>1, AnswerIsLaid DEF decodeWorkerListAnswer
<1>10. AnswerLaid(exact, decodeWorkerInfoAnswer)
  <2>1. PICK fields: fields = <<Name(U16), Number(U8, 0, 1), Uint(U64), Uint(U64), Uint(U64)>>
    OBVIOUS
  <2>2. Len(fields) \in Nat /\ \A i \in 1..Len(fields): Laid0(exact, fields[i])
    BY <1>1, <2>1 DEF Numbers, Texts
  <2>3. Laid4(exact, List(U16, 0, Unchecked, process))
    BY <2>1, <2>2, Spaces, Limits, RowsLaid DEF process
  <2>4. FieldsLaid(exact, <<readWorkerRow, Opt(Name(U16)), List(U16, 0, Unchecked, process)>>)
    BY <1>1, <1>8, <2>3 DEF Optionals, FieldsLaid
  <2> QED BY <2>4, AnswerIsLaid DEF decodeWorkerInfoAnswer
<1> QED BY <1>2, <1>3, <1>4, <1>5, <1>6, <1>9, <1>10 DEF TaskAnswersLaid

\* The answers of workflows and processing.
FlowAnswersLaid(exact) ==
  /\ AnswerLaid(exact, parseWireHistory) /\ AnswerLaid(exact, decodeListRunsAnswer)
  /\ AnswerLaid(exact, decodeDefinitionsAnswer) /\ AnswerLaid(exact, textAnswer)
  /\ AnswerLaid(exact, parseWireStatus) /\ AnswerLaid(exact, decodeProcessingListAnswer)

\* Those of workflows and processing.
LEMMA FlowAnswers ==
  ASSUME NEW exact \in BOOLEAN
  PROVE  FlowAnswersLaid(exact)
<1>1. LeavesLaid(exact) /\ Numbers(exact) /\ Texts(exact)
  BY LeafFields, NumbersLaid, TextsLaid
<1>2. PICK row: row = <<Name(U16), Name(U16), Uint(U64)>>
  OBVIOUS
<1>3. Laid4(exact, List(U32, 0, Unchecked, Row(row)))
  <2>1. Len(row) \in Nat /\ \A i \in 1..Len(row): Laid0(exact, row[i])
    BY <1>1, <1>2 DEF Numbers, Texts
  <2> QED BY <2>1, Spaces, Limits, RowsLaid
<1>4. AnswerLaid(exact, parseWireHistory) /\ AnswerLaid(exact, decodeDefinitionsAnswer)
  <2>1. /\ FieldsLaid(exact, <<List(U32, 0, Unchecked, Row(row))>>)
        /\ FieldsLaid(exact, <<List(U32, 0, Unchecked, Row(row)), Bool, Name(U16)>>)
    BY <1>1, <1>3 DEF LeavesLaid, FieldsLaid
  <2> QED BY <1>2, <2>1, AnswerIsLaid DEF parseWireHistory, decodeDefinitionsAnswer
<1>5. AnswerLaid(exact, decodeListRunsAnswer) /\ AnswerLaid(exact, decodeProcessingListAnswer)
  <2>1. PICK runs: runs = <<Name(U16), Name(U16), Name(U16), Uint(U64)>>
    OBVIOUS
  <2>2. Len(runs) \in Nat /\ \A i \in 1..Len(runs): Laid0(exact, runs[i])
    BY <1>1, <2>1 DEF Numbers, Texts
  <2>3. Laid4(exact, List(U32, 0, Unchecked, Row(runs)))
    BY <2>2, Spaces, Limits, RowsLaid
  <2>4. FieldsLaid(exact, <<List(U32, 0, Unchecked, Row(runs)), Bool, Name(U16)>>)
    BY <1>1, <2>3 DEF LeavesLaid, FieldsLaid
  <2> QED BY <2>1, <2>4, AnswerIsLaid DEF decodeListRunsAnswer, decodeProcessingListAnswer
<1>6. AnswerLaid(exact, textAnswer)
  <2>1. FieldsLaid(exact, <<Rest>>)
    BY RestLast DEF FieldsLaid
  <2> QED BY <2>1, AnswerIsLaid DEF textAnswer
<1>7. AnswerLaid(exact, parseWireStatus)
  <2>1. FieldsLaid(exact, <<Name(U16), Name(U16), Number(U8, 0, RADIX - 2), Uint(U32), Uint(U64), Uint(U64), Name(U16)>>)
    BY <1>1 DEF LeavesLaid, FieldsLaid
  <2> QED BY <2>1, AnswerIsLaid DEF parseWireStatus
<1> QED BY <1>4, <1>5, <1>6, <1>7 DEF FlowAnswersLaid

\* The readers that are not exact.
LEMMA LaxAnswers ==
  ASSUME NEW lax, lax = FALSE
  PROVE  AnswerLaid(lax, parseStreamReadResponse) /\ AnswerLaid(lax, statusAnswer)
<1>1. lax \in BOOLEAN
  OBVIOUS
<1>2. LeavesLaid(lax) /\ Numbers(lax) /\ Texts(lax)
  BY <1>1, LeafFields, NumbersLaid, TextsLaid
<1>3. AnswerLaid(lax, statusAnswer)
  <2>1. Laid4(lax, OptOne(Uint(U64)))
    <3>1. Laid0(lax, Uint(U64))
      BY <1>2 DEF Numbers
    <3> QED BY <3>1, LaxOptLaid
  <2>2. Laid4(lax, OptOne(LooseText(U16)))
    <3>1. Laid0(lax, LooseText(U16))
      BY <1>1, Limits, NameLaid
    <3> QED BY <3>1, LaxOptLaid
  <2>3. FieldsLaid(lax, <<Name(U16), Name(U16), Name(U16), Uint(U8), Name(U16), Name(U32), Uint(U64),
                          OptOne(Uint(U64)), OptOne(Uint(U64)), OptOne(LooseText(U16))>>)
    BY <1>2, <2>1, <2>2 DEF LeavesLaid, FieldsLaid
  <2> QED BY <2>3, AnswerIsLaid DEF statusAnswer
<1>4. AnswerLaid(lax, parseStreamReadResponse)
  <2>1. PICK names: names = <<Name(U32), Name(U32)>>
    OBVIOUS
  <2>2. Laid2(lax, LaxList(U32, streamHeader))
    <3>1. Len(names) \in Nat /\ \A i \in 1..Len(names): Laid0(lax, names[i])
      BY <1>2, <2>1 DEF Texts
    <3>2. Laid1(lax, Row(names))
      BY <1>1, <3>1, Spaces, Limits, RowsLaid
    <3>3. Encloses(lax, LaxList(U32, streamHeader), streamHeader)
      BY <1>1, Spaces, Limits, ListShaped
    <3> QED BY <2>1, <3>2, <3>3 DEF streamHeader, Encloses, Laid2, LaidIn
  <2>3. Laid2(lax, OptAny(Name(U32)))
    <3>1. Laid0(lax, Name(U32))
      BY <1>2 DEF Texts
    <3> QED BY <3>1, LaxOptLaid, LaidAbove1
  <2>4. Laid3(lax, streamRecord)
    <3>1. PICK fields: fields = <<Uint(U64), Uint(U64), Uint(U8), Uint(U32), OptAny(Name(U32)), Name(U32),
                                  LaxList(U32, streamHeader)>>
      OBVIOUS
    <3>2. Len(fields) \in Nat /\ \A i \in 1..Len(fields): Laid2(lax, fields[i])
      <4>1. Laid2(lax, Uint(U64)) /\ Laid2(lax, Uint(U8)) /\ Laid2(lax, Uint(U32)) /\ Laid2(lax, Name(U32))
        BY <1>2, LaidAbove0 DEF Numbers, Texts
      <4> QED BY <2>2, <2>3, <3>1, <4>1
    <3>3. Laid3(lax, Row(fields))
      BY <1>1, <3>2, RowShaped DEF Laid3, LaidIn
    <3> QED BY <3>1, <3>3 DEF streamRecord
  <2>5. PICK list: list = LaxList(U32, streamRecord)
    OBVIOUS
  <2>6. Laid4(lax, list)
    <3>1. Encloses(lax, list, streamRecord)
      BY <1>1, <2>5, Spaces, Limits, ListShaped
    <3> QED BY <2>4, <3>1 DEF Encloses, Laid4, LaidIn
  <2>7. LaidRow(lax, Row(<<list>>))
    <3>1. FieldsLaid(lax, <<list>>)
      BY <2>6 DEF FieldsLaid
    <3> QED BY <3>1, RowLaid
  <2>8. parseStreamReadResponse.fields = Row(<<list>>) /\ parseStreamReadResponse.least = U32
    BY <2>5 DEF parseStreamReadResponse, ShortAnswer, OpenAnswer, Answer
  <2>9. Needs(U32, list)
    BY <2>5, Widths DEF Needs, LaxList, List
  <2>10. PICK fields: fields = Row(<<list>>) /\ U32 \in Nat
    BY Widths
  <2>11. Len(fields.of) >= 1 /\ fields.of[1] = list
    BY <2>10 DEF Row
  <2> QED BY <2>7, <2>8, <2>9, <2>10, <2>11 DEF AnswerLaid
<1> QED BY <1>3, <1>4

-----------------------------------------------------------------------------
(* The operations.                                                         *)

\* An option is bytes, nothing (a flag), or a number; a block is one in four bytes.
OptionLaid(option) ==
  /\ option.tag \in Nat
  /\ \/ option.of = Rest \/ option.of = Row(<<>>)
     \/ option.of.kind = "number" /\ option.of.width \in 1..U64
  /\ option.tag = OptionTag.BlockMS => option.of = Number(U32, 0, MAX_BLOCK_MS)
\* The option BlockMS.
IsBlock(option) == option.tag = OptionTag.BlockMS

\* At most one of the options, the k-th, is a block.
OptionsLaid(options) ==
  /\ Len(options) \in Nat /\ DOMAIN options = 1..Len(options)
  /\ \A i \in 1..Len(options): OptionLaid(options[i])
  /\ \E k \in Nat: \A i \in 1..Len(options): IsBlock(options[i]) <=> i = k

\* The codes whose answers carry leased items.
TakesItems == {"QueueDequeue", "StreamGroupRead", "StreamGroupClaim", "ActionAwait"}

\* An option that is a number.
LEMMA NumberOption ==
  ASSUME NEW w \in 1..U64, NEW max \in Nat, NEW f, f = Number(w, 0, max)
  PROVE  f.kind = "number" /\ f.width \in 1..U64
BY DEF Number

\* The option that asks to be held.
LEMMA Block ==
  OptionLaid(OptionU32("BlockMS")) /\ IsBlock(OptionU32("BlockMS"))
<1>1. PICK o: o = OptionU32("BlockMS")
  OBVIOUS
<1>2. OptionTag.BlockMS = 23
  BY DEF OptionTag
<1>3. o.tag = 23 /\ o.of = Number(U32, 0, MAX_BLOCK_MS)
  BY <1>1 DEF OptionU32, OptionTag
<1>4. PICK f: f = o.of /\ f.kind = "number" /\ f.width \in 1..U64
  <2>1. PICK f: f = Number(U32, 0, MAX_BLOCK_MS)
    OBVIOUS
  <2>2. f.kind = "number" /\ f.width \in 1..U64
    BY <2>1, Limits, NumberOption
  <2> QED BY <1>3, <2>1, <2>2
<1>5. OptionLaid(o) /\ IsBlock(o)
  BY <1>2, <1>3, <1>4 DEF OptionLaid, IsBlock
<1> QED BY <1>1, <1>5

\* The tags of the others differ from its.
LEMMA Tags ==
  ASSUME NEW tag \in {"Priority", "Count", "StreamStart", "StreamEnd", "StreamTail", "Partition",
                      "PartitionKey", "Force"}
  PROVE  OptionTag[tag] \in Nat /\ OptionTag[tag] # OptionTag.BlockMS
BY DEF OptionTag

\* So they are not taken for it.
LEMMA NotABlock ==
  ASSUME NEW tag \in {"Priority", "Count", "StreamStart", "StreamEnd", "StreamTail", "Partition",
                      "PartitionKey", "Force"}
  PROVE  /\ OptionLaid(OptionU8(tag)) /\ ~IsBlock(OptionU8(tag))
         /\ OptionLaid(OptionU32(tag)) /\ ~IsBlock(OptionU32(tag))
         /\ OptionLaid(OptionBytes(tag)) /\ ~IsBlock(OptionBytes(tag))
         /\ OptionLaid(OptionFlag(tag)) /\ ~IsBlock(OptionFlag(tag))
<1>1. PICK t \in Nat: t = OptionTag[tag] /\ t # OptionTag.BlockMS
  BY Tags
<1>2. ASSUME NEW o, o.tag = t, o.of = Rest \/ o.of = Row(<<>>) \/ o.of = Masked(U8) \/ o.of = Masked(U32)
      PROVE  OptionLaid(o) /\ ~IsBlock(o)
  <2>1. ASSUME NEW w \in 1..U64, o.of = Masked(w)
        PROVE  o.of.kind = "number" /\ o.of.width \in 1..U64
    BY <2>1 DEF Masked, Uint, Number
  <2> QED BY <1>1, <1>2, <2>1, Limits DEF OptionLaid, IsBlock
<1>3. OptionU8(tag).tag = t /\ OptionU8(tag).of = Masked(U8)
  BY <1>1 DEF OptionU8
<1>4. OptionU32(tag).tag = t /\ OptionU32(tag).of = Masked(U32)
  BY <1>1 DEF OptionU32
<1>5. OptionBytes(tag).tag = t /\ OptionBytes(tag).of = Rest
  BY <1>1 DEF OptionBytes
<1>6. OptionFlag(tag).tag = t /\ OptionFlag(tag).of = Row(<<>>)
  BY <1>1 DEF OptionFlag
<1>7. OptionLaid(OptionU8(tag)) /\ ~IsBlock(OptionU8(tag))
  BY <1>2, <1>3
<1>8. OptionLaid(OptionU32(tag)) /\ ~IsBlock(OptionU32(tag))
  BY <1>2, <1>4
<1>9. OptionLaid(OptionBytes(tag)) /\ ~IsBlock(OptionBytes(tag))
  BY <1>2, <1>5
<1>10. OptionLaid(OptionFlag(tag)) /\ ~IsBlock(OptionFlag(tag))
  BY <1>2, <1>6
<1> QED BY <1>7, <1>8, <1>9, <1>10

\* The options of the operations that have any.
LEMMA OptionLists ==
  /\ OptionsLaid(<<>>)
  /\ OptionsLaid(<<OptionU8("Priority")>>) /\ OptionsLaid(<<OptionU32("Count")>>)
  /\ OptionsLaid(<<OptionU32("Count"), OptionU32("BlockMS")>>) /\ OptionsLaid(<<OptionU32("BlockMS")>>)
  /\ OptionsLaid(<<OptionBytes("PartitionKey"), OptionU32("Partition")>>) /\ OptionsLaid(<<OptionFlag("Force")>>)
  /\ OptionsLaid(<<OptionFlag("StreamTail"), OptionBytes("StreamStart"), OptionBytes("StreamEnd"),
                   OptionU32("Partition"), OptionU32("Count"), OptionU32("BlockMS")>>)
<1>1. \A o: o = <<>> => OptionsLaid(o)
  BY DEF OptionsLaid
<1>2. ASSUME NEW a, OptionLaid(a), NEW n \in Nat, IsBlock(a) <=> n = 1
      PROVE  OptionsLaid(<<a>>)
  <2>1. \A i \in 1..Len(<<a>>): <<a>>[i] = a /\ i = 1
    OBVIOUS
  <2> QED BY <1>2, <2>1 DEF OptionsLaid
<1>3. ASSUME NEW a, NEW b, OptionLaid(a), OptionLaid(b), ~IsBlock(a), NEW n \in Nat, n # 1, IsBlock(b) <=> n = 2
      PROVE  OptionsLaid(<<a, b>>)
  <2>1. \A i \in 1..Len(<<a, b>>): IsBlock(<<a, b>>[i]) <=> i = n
    BY <1>3
  <2> QED BY <1>3, <2>1 DEF OptionsLaid
<1>4. /\ OptionsLaid(<<OptionU8("Priority")>>) /\ OptionsLaid(<<OptionU32("Count")>>)
      /\ OptionsLaid(<<OptionFlag("Force")>>)
  <2>1. 0 \in Nat /\ 0 # 1
    OBVIOUS
  <2> QED BY <1>2, <2>1, NotABlock
<1>5. OptionsLaid(<<OptionU32("BlockMS")>>)
  <2>1. 1 \in Nat /\ 1 = 1
    OBVIOUS
  <2> QED BY <1>2, <2>1, Block
<1>6. OptionsLaid(<<OptionU32("Count"), OptionU32("BlockMS")>>)
  <2>1. 2 \in Nat /\ 2 # 1
    OBVIOUS
  <2>2. OptionLaid(OptionU32("Count")) /\ ~IsBlock(OptionU32("Count"))
    BY NotABlock
  <2> QED BY <1>3, <2>1, <2>2, Block
<1>7. OptionsLaid(<<OptionBytes("PartitionKey"), OptionU32("Partition")>>)
  <2>1. 0 \in Nat /\ 0 # 1 /\ 0 # 2
    OBVIOUS
  <2>2. /\ OptionLaid(OptionBytes("PartitionKey")) /\ ~IsBlock(OptionBytes("PartitionKey"))
        /\ OptionLaid(OptionU32("Partition")) /\ ~IsBlock(OptionU32("Partition"))
    BY NotABlock
  <2> QED BY <1>3, <2>1, <2>2
<1>8. OptionsLaid(<<OptionFlag("StreamTail"), OptionBytes("StreamStart"), OptionBytes("StreamEnd"),
                    OptionU32("Partition"), OptionU32("Count"), OptionU32("BlockMS")>>)
  <2>1. PICK a, b, c, d, e, g: /\ a = OptionFlag("StreamTail") /\ b = OptionBytes("StreamStart")
                               /\ c = OptionBytes("StreamEnd") /\ d = OptionU32("Partition")
                               /\ e = OptionU32("Count") /\ g = OptionU32("BlockMS")
    OBVIOUS
  <2>2. /\ OptionLaid(a) /\ ~IsBlock(a) /\ OptionLaid(b) /\ ~IsBlock(b) /\ OptionLaid(c) /\ ~IsBlock(c)
        /\ OptionLaid(d) /\ ~IsBlock(d) /\ OptionLaid(e) /\ ~IsBlock(e)
    BY <2>1, NotABlock
  <2>3. OptionLaid(g) /\ IsBlock(g)
    BY <2>1, Block
  <2>4. PICK o: o = <<a, b, c, d, e, g>>
    OBVIOUS
  <2>5. Len(o) = 6 /\ \A i \in 1..6: OptionLaid(o[i]) /\ (IsBlock(o[i]) <=> i = 6)
    BY <2>2, <2>3, <2>4
  <2> QED BY <2>1, <2>4, <2>5 DEF OptionsLaid
<1> QED BY <1>1, <1>4, <1>5, <1>6, <1>7, <1>8

\* What is sound of an operation: its layouts, its options, and the codes that
\* the transport looks at.
OperationLaid(exact, lax, op) ==
  /\ LaidRow(exact, op.value) /\ OptionsLaid(op.options)
  /\ op.code \notin LooseReaders => AnswerLaid(exact, op.answer)
  /\ op.code \in LooseReaders => AnswerLaid(lax, op.answer)
  /\ isTableOp(op.code) => op.options = <<>>
  /\ op.code = "KVGet" => op.value = Row(encodeGetBody)
  /\ op.code \in TakesItems <=> op \in {dequeue, groupRead, awaitTask}

\* What is asked of an operation.
IsOperation(op, code, value, options, answer_) ==
  op.code = code /\ op.value = Row(value) /\ op.options = options /\ op.answer = answer_

\* The operations whose answers carry items leased to the caller.
LEMMA Takers ==
  dequeue.code = "QueueDequeue" /\ groupRead.code = "StreamGroupRead" /\ awaitTask.code = "ActionAwait"
BY DEF dequeue, groupRead, awaitTask, Operation

\* An operation with no options, whose code no one looks at.
Ordinary(code) == code \notin LooseReaders /\ code \notin TakesItems /\ code # "KVGet"

\* An operation with no options, whose code says nothing more.
LEMMA OrdinaryLaid ==
  ASSUME NEW exact, NEW lax, NEW op, NEW code, NEW value, NEW answer_, Ordinary(code),
         IsOperation(op, code, value, <<>>, answer_), FieldsLaid(exact, value), AnswerLaid(exact, answer_)
  PROVE  OperationLaid(exact, lax, op)
<1>1. LaidRow(exact, op.value)
  BY RowLaid DEF IsOperation
<1>2. OptionsLaid(op.options) /\ op.options = <<>>
  BY OptionLists DEF IsOperation
<1>3. op.code \notin TakesItems /\ op \notin {dequeue, groupRead, awaitTask}
  BY Takers DEF IsOperation, Ordinary, TakesItems
<1> QED BY <1>1, <1>2, <1>3 DEF IsOperation, Ordinary, OperationLaid

\* An operation with options.
LEMMA OptionedLaid ==
  ASSUME NEW exact, NEW lax, NEW op, NEW code, NEW value, NEW options, NEW answer_, code # "KVGet", ~isTableOp(code),
         code \in TakesItems <=> op \in {dequeue, groupRead, awaitTask},
         IsOperation(op, code, value, options, answer_), FieldsLaid(exact, value), OptionsLaid(options),
         code \notin LooseReaders => AnswerLaid(exact, answer_), code \in LooseReaders => AnswerLaid(lax, answer_)
  PROVE  OperationLaid(exact, lax, op)
BY RowLaid DEF IsOperation, OperationLaid

\* The operations of KV.
LEMMA KeyValueCalls ==
  ASSUME NEW exact \in BOOLEAN, NEW lax, lax = FALSE
  PROVE  \A op \in {kvGet, kvSet, kvDelete, kvScan, kvHistory, kvIncr, kvExpire, kvExists, jsonGet, jsonDel,
                     jsonSet, kvMGetPage, txnBegin, txnCommit, txnRollback}:
           OperationLaid(exact, lax, op)
<1>1. MessagingLaid(exact) /\ KeyValueLaid(exact) /\ MessagingAnswersLaid(exact) /\ KeyValueAnswersLaid(exact)
  BY MessagingBodies, KeyValueBodies, MessagingAnswers, KeyValueAnswers
<1>2. AnswerLaid(lax, parseStreamReadResponse) /\ AnswerLaid(lax, statusAnswer)
  BY LaxAnswers
<1>3. \A code \in {"KVPut", "KVDelete", "KVScan", "KVHistory", "KVIncr", "KVExpire", "KVExists", "KVJsonGet",
                   "KVJsonDel", "KVJsonSet", "KVMGet", "KVBeginTxn", "KVCommitTxn", "KVRollbackTxn"}:
        Ordinary(code)
  BY DEF Ordinary, LooseReaders, TakesItems
<1>4. OperationLaid(exact, lax, kvGet)
  <2>1. IsOperation(kvGet, "KVGet", encodeGetBody, <<>>, decodeGetAnswer)
    BY DEF kvGet, Operation, IsOperation, OrNull
  <2>2. LaidRow(exact, kvGet.value)
    BY <1>1, <2>1, RowLaid DEF IsOperation, KeyValueLaid
  <2>3. OptionsLaid(kvGet.options) /\ kvGet.options = <<>>
    BY <2>1, OptionLists DEF IsOperation
  <2>4. kvGet.code = "KVGet" /\ kvGet.code \notin LooseReaders /\ kvGet.code \notin TakesItems
    BY <2>1 DEF IsOperation, LooseReaders, TakesItems
  <2>5. kvGet \notin {dequeue, groupRead, awaitTask}
    BY <2>4, Takers
  <2> QED BY <1>1, <2>1, <2>2, <2>3, <2>4, <2>5 DEF IsOperation, OperationLaid, KeyValueAnswersLaid
<1>5. OperationLaid(exact, lax, kvSet)
  <2>1. IsOperation(kvSet, "KVPut", encodeSetBody, <<>>, decodeSetAnswer)
    BY DEF kvSet, Operation, IsOperation
  <2> QED BY <1>1, <1>3, <2>1, OrdinaryLaid DEF MessagingLaid, KeyValueLaid, MessagingAnswersLaid, KeyValueAnswersLaid
<1>6. OperationLaid(exact, lax, kvDelete)
  <2>1. IsOperation(kvDelete, "KVDelete", encodeDeleteBody, <<>>, decodeDeleteAnswer)
    BY DEF kvDelete, Operation, IsOperation
  <2> QED BY <1>1, <1>3, <2>1, OrdinaryLaid DEF MessagingLaid, KeyValueLaid, MessagingAnswersLaid, KeyValueAnswersLaid
<1>7. OperationLaid(exact, lax, kvScan)
  <2>1. IsOperation(kvScan, "KVScan", encodeScanBody, <<>>, decodeScanAnswer)
    BY DEF kvScan, Operation, IsOperation
  <2> QED BY <1>1, <1>3, <2>1, OrdinaryLaid DEF MessagingLaid, KeyValueLaid, MessagingAnswersLaid, KeyValueAnswersLaid
<1>8. OperationLaid(exact, lax, kvHistory)
  <2>1. IsOperation(kvHistory, "KVHistory", encodeHistoryBody, <<>>, decodeHistoryAnswer)
    BY DEF kvHistory, Operation, IsOperation, OrNull
  <2> QED BY <1>1, <1>3, <2>1, OrdinaryLaid DEF MessagingLaid, KeyValueLaid, MessagingAnswersLaid, KeyValueAnswersLaid
<1>9. OperationLaid(exact, lax, kvIncr)
  <2>1. IsOperation(kvIncr, "KVIncr", encodeIncrBody, <<>>, decodeIncrAnswer)
    BY DEF kvIncr, Operation, IsOperation
  <2> QED BY <1>1, <1>3, <2>1, OrdinaryLaid DEF MessagingLaid, KeyValueLaid, MessagingAnswersLaid, KeyValueAnswersLaid
<1>10. OperationLaid(exact, lax, kvExpire)
  <2>1. IsOperation(kvExpire, "KVExpire", encodeExpireBody, <<>>, decodeEmptyAnswer)
    BY DEF kvExpire, Operation, IsOperation
  <2> QED BY <1>1, <1>3, <2>1, OrdinaryLaid DEF MessagingLaid, KeyValueLaid, MessagingAnswersLaid, KeyValueAnswersLaid
<1>11. OperationLaid(exact, lax, kvExists)
  <2>1. IsOperation(kvExists, "KVExists", encodeExistsBody, <<>>, decodeExistsAnswer)
    BY DEF kvExists, Operation, IsOperation
  <2> QED BY <1>1, <1>3, <2>1, OrdinaryLaid DEF MessagingLaid, KeyValueLaid, MessagingAnswersLaid, KeyValueAnswersLaid
<1>12. OperationLaid(exact, lax, jsonGet)
  <2>1. IsOperation(jsonGet, "KVJsonGet", encodeJsonPathBody, <<>>, decodeJsonGetAnswer)
    BY DEF jsonGet, Operation, IsOperation, OrNull
  <2> QED BY <1>1, <1>3, <2>1, OrdinaryLaid DEF MessagingLaid, KeyValueLaid, MessagingAnswersLaid, KeyValueAnswersLaid
<1>13. OperationLaid(exact, lax, jsonDel)
  <2>1. IsOperation(jsonDel, "KVJsonDel", encodeJsonPathBody, <<>>, decodeJsonDelAnswer)
    BY DEF jsonDel, Operation, IsOperation
  <2> QED BY <1>1, <1>3, <2>1, OrdinaryLaid DEF MessagingLaid, KeyValueLaid, MessagingAnswersLaid, KeyValueAnswersLaid
<1>14. OperationLaid(exact, lax, jsonSet)
  <2>1. IsOperation(jsonSet, "KVJsonSet", encodeJsonSetBody, <<>>, decodeJsonSetAnswer)
    BY DEF jsonSet, Operation, IsOperation
  <2> QED BY <1>1, <1>3, <2>1, OrdinaryLaid DEF MessagingLaid, KeyValueLaid, MessagingAnswersLaid, KeyValueAnswersLaid
<1>15. OperationLaid(exact, lax, kvMGetPage)
  <2>1. IsOperation(kvMGetPage, "KVMGet", encodeMGetBody, <<>>, decodeMGetAnswer)
    BY DEF kvMGetPage, Operation, IsOperation, Keyless
  <2> QED BY <1>1, <1>3, <2>1, OrdinaryLaid DEF MessagingLaid, KeyValueLaid, MessagingAnswersLaid, KeyValueAnswersLaid
<1>16. OperationLaid(exact, lax, txnBegin)
  <2>1. IsOperation(txnBegin, "KVBeginTxn", <<>>, <<>>, decodeTxnBeginAnswer)
    BY DEF txnBegin, Operation, IsOperation
  <2> QED BY <1>1, <1>3, <2>1, OrdinaryLaid DEF MessagingLaid, KeyValueLaid, MessagingAnswersLaid, KeyValueAnswersLaid
<1>17. OperationLaid(exact, lax, txnCommit)
  <2>1. IsOperation(txnCommit, "KVCommitTxn", encodeTxnBody, <<>>, decodeTxnCommitAnswer)
    BY DEF txnCommit, Operation, IsOperation, Keyless
  <2> QED BY <1>1, <1>3, <2>1, OrdinaryLaid DEF MessagingLaid, KeyValueLaid, MessagingAnswersLaid, KeyValueAnswersLaid
<1>18. OperationLaid(exact, lax, txnRollback)
  <2>1. IsOperation(txnRollback, "KVRollbackTxn", encodeTxnBody, <<>>, decodeEmptyAnswer)
    BY DEF txnRollback, Operation, IsOperation, Keyless
  <2> QED BY <1>1, <1>3, <2>1, OrdinaryLaid DEF MessagingLaid, KeyValueLaid, MessagingAnswersLaid, KeyValueAnswersLaid
<1> QED BY <1>4, <1>5, <1>6, <1>7, <1>8, <1>9, <1>10, <1>11, <1>12, <1>13, <1>14, <1>15, <1>16, <1>17, <1>18

\* The operations of queues and streams.
LEMMA MessagingCalls ==
  ASSUME NEW exact \in BOOLEAN, NEW lax, lax = FALSE
  PROVE  \A op \in {enqueue, dequeue, ack, nack, dlqList, dlqRequeue, peek, append, read, streamInfo,
                     streamDelete, groupRead, groupJoin, groupLeave, groupAck, groupNack}:
           OperationLaid(exact, lax, op)
<1>1. MessagingLaid(exact) /\ MessagingAnswersLaid(exact)
  BY MessagingBodies, MessagingAnswers
<1>2. AnswerLaid(lax, parseStreamReadResponse) /\ AnswerLaid(lax, statusAnswer)
  BY LaxAnswers
<1>3. \A code \in {"QueueComplete", "QueueFail", "QueueDLQList", "QueueDLQRequeue", "StreamInfo",
                   "StreamGroupJoin", "StreamGroupLeave", "StreamGroupAck", "StreamGroupNack"}:
        Ordinary(code)
  BY DEF Ordinary, LooseReaders, TakesItems
<1>4. OperationLaid(exact, lax, enqueue)
  <2>1. IsOperation(enqueue, "QueueEnqueue", <<Rest>>, <<OptionU8("Priority")>>, parseEnqueueResponse)
    BY DEF enqueue, Operation, IsOperation
  <2>2. "QueueEnqueue" # "KVGet" /\ ~isTableOp("QueueEnqueue") /\ "QueueEnqueue" \notin LooseReaders
    BY DEF isTableOp, TableOps, LooseReaders
  <2>3. "QueueEnqueue" \notin TakesItems /\ enqueue \notin {dequeue, groupRead, awaitTask}
    BY <2>1, Takers DEF IsOperation, TakesItems
  <2>4. FieldsLaid(exact, <<Rest>>) /\ OptionsLaid(<<OptionU8("Priority")>>)
    BY <1>1, OptionLists DEF MessagingLaid
  <2> QED BY <1>1, <2>1, <2>2, <2>3, <2>4, OptionedLaid DEF MessagingAnswersLaid
<1>5. OperationLaid(exact, lax, dequeue)
  <2>1. IsOperation(dequeue, "QueueDequeue", <<>>, <<OptionU32("Count"), OptionU32("BlockMS")>>, parseDequeueResponse)
    BY DEF dequeue, Operation, IsOperation
  <2>2. "QueueDequeue" # "KVGet" /\ ~isTableOp("QueueDequeue") /\ "QueueDequeue" \notin LooseReaders
    BY DEF isTableOp, TableOps, LooseReaders
  <2>3. "QueueDequeue" \in TakesItems /\ dequeue \in {dequeue, groupRead, awaitTask}
    BY DEF TakesItems
  <2>4. FieldsLaid(exact, <<>>) /\ OptionsLaid(<<OptionU32("Count"), OptionU32("BlockMS")>>)
    BY <1>1, OptionLists DEF MessagingLaid
  <2> QED BY <1>1, <2>1, <2>2, <2>3, <2>4, OptionedLaid DEF MessagingAnswersLaid
<1>6. OperationLaid(exact, lax, ack)
  <2>1. IsOperation(ack, "QueueComplete", serializeSeqs, <<>>, NoAnswer)
    BY DEF ack, Operation, IsOperation, UnlessEmpty
  <2> QED BY <1>1, <1>3, <2>1, OrdinaryLaid DEF MessagingLaid, MessagingAnswersLaid
<1>7. OperationLaid(exact, lax, nack)
  <2>1. IsOperation(nack, "QueueFail", serializeSeqs, <<>>, NoAnswer)
    BY DEF nack, Operation, IsOperation, UnlessEmpty
  <2> QED BY <1>1, <1>3, <2>1, OrdinaryLaid DEF MessagingLaid, MessagingAnswersLaid
<1>8. OperationLaid(exact, lax, dlqList)
  <2>1. IsOperation(dlqList, "QueueDLQList", <<>>, <<>>, parseDequeueResponse)
    BY DEF dlqList, Operation, IsOperation
  <2> QED BY <1>1, <1>3, <2>1, OrdinaryLaid DEF MessagingLaid, MessagingAnswersLaid
<1>9. OperationLaid(exact, lax, dlqRequeue)
  <2>1. IsOperation(dlqRequeue, "QueueDLQRequeue", serializeSeqs, <<>>, NoAnswer)
    BY DEF dlqRequeue, Operation, IsOperation, UnlessEmpty
  <2> QED BY <1>1, <1>3, <2>1, OrdinaryLaid DEF MessagingLaid, MessagingAnswersLaid
<1>10. OperationLaid(exact, lax, peek)
  <2>1. IsOperation(peek, "QueuePeek", <<>>, <<OptionU32("Count")>>, parseDequeueResponse)
    BY DEF peek, Operation, IsOperation
  <2>2. "QueuePeek" # "KVGet" /\ ~isTableOp("QueuePeek") /\ "QueuePeek" \notin LooseReaders
    BY DEF isTableOp, TableOps, LooseReaders
  <2>3. "QueuePeek" \notin TakesItems /\ peek \notin {dequeue, groupRead, awaitTask}
    BY <2>1, Takers DEF IsOperation, TakesItems
  <2>4. FieldsLaid(exact, <<>>) /\ OptionsLaid(<<OptionU32("Count")>>)
    BY <1>1, OptionLists DEF MessagingLaid
  <2> QED BY <1>1, <2>1, <2>2, <2>3, <2>4, OptionedLaid DEF MessagingAnswersLaid
<1>11. OperationLaid(exact, lax, append)
  <2>1. IsOperation(append, "StreamAppend", serializeStreamAppendValue, <<OptionBytes("PartitionKey"), OptionU32("Partition")>>, parseStreamAppendResponse)
    BY DEF append, Operation, IsOperation
  <2>2. "StreamAppend" # "KVGet" /\ ~isTableOp("StreamAppend") /\ "StreamAppend" \notin LooseReaders
    BY DEF isTableOp, TableOps, LooseReaders
  <2>3. "StreamAppend" \notin TakesItems /\ append \notin {dequeue, groupRead, awaitTask}
    BY <2>1, Takers DEF IsOperation, TakesItems
  <2>4. FieldsLaid(exact, serializeStreamAppendValue) /\ OptionsLaid(<<OptionBytes("PartitionKey"), OptionU32("Partition")>>)
    BY <1>1, OptionLists DEF MessagingLaid
  <2> QED BY <1>1, <2>1, <2>2, <2>3, <2>4, OptionedLaid DEF MessagingAnswersLaid
<1>12. OperationLaid(exact, lax, read)
  <2>1. IsOperation(read, "StreamRead", <<>>, <<OptionFlag("StreamTail"), OptionBytes("StreamStart"), OptionBytes("StreamEnd"), OptionU32("Partition"), OptionU32("Count"), OptionU32("BlockMS")>>, parseStreamReadResponse)
    BY DEF read, Operation, IsOperation
  <2>2. "StreamRead" # "KVGet" /\ ~isTableOp("StreamRead") /\ "StreamRead" \in LooseReaders
    BY DEF isTableOp, TableOps, LooseReaders
  <2>3. "StreamRead" \notin TakesItems /\ read \notin {dequeue, groupRead, awaitTask}
    BY <2>1, Takers DEF IsOperation, TakesItems
  <2>4. FieldsLaid(exact, <<>>) /\ OptionsLaid(<<OptionFlag("StreamTail"), OptionBytes("StreamStart"), OptionBytes("StreamEnd"), OptionU32("Partition"), OptionU32("Count"), OptionU32("BlockMS")>>)
    BY <1>1, OptionLists DEF MessagingLaid
  <2> QED BY <1>2, <2>1, <2>2, <2>3, <2>4, OptionedLaid
<1>13. OperationLaid(exact, lax, streamInfo)
  <2>1. IsOperation(streamInfo, "StreamInfo", <<>>, <<>>, parseStreamInfoResponse)
    BY DEF streamInfo, Operation, IsOperation
  <2> QED BY <1>1, <1>3, <2>1, OrdinaryLaid DEF MessagingLaid, MessagingAnswersLaid
<1>14. OperationLaid(exact, lax, streamDelete)
  <2>1. IsOperation(streamDelete, "StreamDelete", <<>>, <<OptionFlag("Force")>>, NoAnswer)
    BY DEF streamDelete, Operation, IsOperation
  <2>2. "StreamDelete" # "KVGet" /\ ~isTableOp("StreamDelete") /\ "StreamDelete" \notin LooseReaders
    BY DEF isTableOp, TableOps, LooseReaders
  <2>3. "StreamDelete" \notin TakesItems /\ streamDelete \notin {dequeue, groupRead, awaitTask}
    BY <2>1, Takers DEF IsOperation, TakesItems
  <2>4. FieldsLaid(exact, <<>>) /\ OptionsLaid(<<OptionFlag("Force")>>)
    BY <1>1, OptionLists DEF MessagingLaid
  <2> QED BY <1>1, <2>1, <2>2, <2>3, <2>4, OptionedLaid DEF MessagingAnswersLaid
<1>15. OperationLaid(exact, lax, groupRead)
  <2>1. IsOperation(groupRead, "StreamGroupRead", member, <<OptionU32("Count"), OptionU32("BlockMS")>>, parseStreamReadResponse)
    BY DEF groupRead, Operation, IsOperation
  <2>2. "StreamGroupRead" # "KVGet" /\ ~isTableOp("StreamGroupRead") /\ "StreamGroupRead" \in LooseReaders
    BY DEF isTableOp, TableOps, LooseReaders
  <2>3. "StreamGroupRead" \in TakesItems /\ groupRead \in {dequeue, groupRead, awaitTask}
    BY DEF TakesItems
  <2>4. FieldsLaid(exact, member) /\ OptionsLaid(<<OptionU32("Count"), OptionU32("BlockMS")>>)
    BY <1>1, OptionLists DEF MessagingLaid
  <2> QED BY <1>2, <2>1, <2>2, <2>3, <2>4, OptionedLaid
<1>16. OperationLaid(exact, lax, groupJoin)
  <2>1. IsOperation(groupJoin, "StreamGroupJoin", member, <<>>, NoAnswer)
    BY DEF groupJoin, Operation, IsOperation
  <2> QED BY <1>1, <1>3, <2>1, OrdinaryLaid DEF MessagingLaid, MessagingAnswersLaid
<1>17. OperationLaid(exact, lax, groupLeave)
  <2>1. IsOperation(groupLeave, "StreamGroupLeave", member, <<>>, NoAnswer)
    BY DEF groupLeave, Operation, IsOperation
  <2> QED BY <1>1, <1>3, <2>1, OrdinaryLaid DEF MessagingLaid, MessagingAnswersLaid
<1>18. OperationLaid(exact, lax, groupAck)
  <2>1. IsOperation(groupAck, "StreamGroupAck", Append(member, recordIds), <<>>, NoAnswer)
    BY DEF groupAck, Operation, IsOperation, UnlessEmpty
  <2> QED BY <1>1, <1>3, <2>1, OrdinaryLaid DEF MessagingLaid, MessagingAnswersLaid
<1>19. OperationLaid(exact, lax, groupNack)
  <2>1. IsOperation(groupNack, "StreamGroupNack", Append(member, recordIds), <<>>, NoAnswer)
    BY DEF groupNack, Operation, IsOperation, UnlessEmpty
  <2> QED BY <1>1, <1>3, <2>1, OrdinaryLaid DEF MessagingLaid, MessagingAnswersLaid
<1> QED BY <1>4, <1>5, <1>6, <1>7, <1>8, <1>9, <1>10, <1>11, <1>12, <1>13, <1>14, <1>15, <1>16, <1>17, <1>18,
           <1>19

\* The operations of actions and workers.
LEMMA TaskCalls ==
  ASSUME NEW exact \in BOOLEAN, NEW lax, lax = FALSE
  PROVE  \A op \in {actionRegister, actionInvoke, actionStatus, actionList, actionDelete, workerRegister,
                     heartbeat, deregister, drain, awaitTask, touch, complete, fail, workerList, workerInfo}:
           OperationLaid(exact, lax, op)
<1>1. MessagingLaid(exact) /\ TasksLaid(exact) /\ MessagingAnswersLaid(exact) /\ TaskAnswersLaid(exact)
  BY MessagingBodies, TaskBodies, MessagingAnswers, TaskAnswers
<1>2. AnswerLaid(lax, parseStreamReadResponse) /\ AnswerLaid(lax, statusAnswer)
  BY LaxAnswers
<1>3. \A code \in {"ActionRegister", "ActionInvoke", "ActionStatus", "ActionList", "ActionDelete",
                   "WorkerRegister", "WorkerHeartbeat", "WorkerDeregister", "WorkerDrain", "ActionTouch",
                   "ActionComplete", "ActionFail", "WorkerList", "WorkerInfo"}:
        Ordinary(code)
  BY DEF Ordinary, LooseReaders, TakesItems
<1>4. OperationLaid(exact, lax, actionRegister)
  <2>1. IsOperation(actionRegister, "ActionRegister", serializeActionRegisterValue, <<>>, NoAnswer)
    BY DEF actionRegister, Operation, IsOperation
  <2> QED BY <1>1, <1>3, <2>1, OrdinaryLaid DEF MessagingLaid, TasksLaid, MessagingAnswersLaid, TaskAnswersLaid
<1>5. OperationLaid(exact, lax, actionInvoke)
  <2>1. IsOperation(actionInvoke, "ActionInvoke", serializeActionInvokeValue, <<>>, parseActionInvokeAnswer)
    BY DEF actionInvoke, Operation, IsOperation
  <2> QED BY <1>1, <1>3, <2>1, OrdinaryLaid DEF MessagingLaid, TasksLaid, MessagingAnswersLaid, TaskAnswersLaid
<1>6. OperationLaid(exact, lax, actionStatus)
  <2>1. IsOperation(actionStatus, "ActionStatus", <<>>, <<>>, decodeActionStatusAnswer)
    BY DEF actionStatus, Operation, IsOperation
  <2> QED BY <1>1, <1>3, <2>1, OrdinaryLaid DEF MessagingLaid, TasksLaid, MessagingAnswersLaid, TaskAnswersLaid
<1>7. OperationLaid(exact, lax, actionList)
  <2>1. IsOperation(actionList, "ActionList", serializeListValue, <<>>, decodeActionListAnswer)
    BY DEF actionList, Operation, IsOperation
  <2> QED BY <1>1, <1>3, <2>1, OrdinaryLaid DEF MessagingLaid, TasksLaid, MessagingAnswersLaid, TaskAnswersLaid
<1>8. OperationLaid(exact, lax, actionDelete)
  <2>1. IsOperation(actionDelete, "ActionDelete", <<>>, <<>>, NoAnswer)
    BY DEF actionDelete, Operation, IsOperation
  <2> QED BY <1>1, <1>3, <2>1, OrdinaryLaid DEF MessagingLaid, TasksLaid, MessagingAnswersLaid, TaskAnswersLaid
<1>9. OperationLaid(exact, lax, workerRegister)
  <2>1. IsOperation(workerRegister, "WorkerRegister", serializeWorkerRegisterValue, <<>>, NoAnswer)
    BY DEF workerRegister, Operation, IsOperation
  <2> QED BY <1>1, <1>3, <2>1, OrdinaryLaid DEF MessagingLaid, TasksLaid, MessagingAnswersLaid, TaskAnswersLaid
<1>10. OperationLaid(exact, lax, heartbeat)
  <2>1. IsOperation(heartbeat, "WorkerHeartbeat", serializeWorkerHeartbeatValue, <<>>, heartbeatAnswer)
    BY DEF heartbeat, Operation, IsOperation
  <2> QED BY <1>1, <1>3, <2>1, OrdinaryLaid DEF MessagingLaid, TasksLaid, MessagingAnswersLaid, TaskAnswersLaid
<1>11. OperationLaid(exact, lax, deregister)
  <2>1. IsOperation(deregister, "WorkerDeregister", <<>>, <<>>, NoAnswer)
    BY DEF deregister, Operation, IsOperation
  <2> QED BY <1>1, <1>3, <2>1, OrdinaryLaid DEF MessagingLaid, TasksLaid, MessagingAnswersLaid, TaskAnswersLaid
<1>12. OperationLaid(exact, lax, drain)
  <2>1. IsOperation(drain, "WorkerDrain", <<>>, <<>>, NoAnswer)
    BY DEF drain, Operation, IsOperation
  <2> QED BY <1>1, <1>3, <2>1, OrdinaryLaid DEF MessagingLaid, TasksLaid, MessagingAnswersLaid, TaskAnswersLaid
<1>13. OperationLaid(exact, lax, awaitTask)
  <2>1. IsOperation(awaitTask, "ActionAwait", serializeWorkerAwaitValue, <<OptionU32("BlockMS")>>, parseTaskAssignment)
    BY DEF awaitTask, Operation, IsOperation
  <2>2. "ActionAwait" # "KVGet" /\ ~isTableOp("ActionAwait") /\ "ActionAwait" \notin LooseReaders
    BY DEF isTableOp, TableOps, LooseReaders
  <2>3. "ActionAwait" \in TakesItems /\ awaitTask \in {dequeue, groupRead, awaitTask}
    BY DEF TakesItems
  <2>4. FieldsLaid(exact, serializeWorkerAwaitValue) /\ OptionsLaid(<<OptionU32("BlockMS")>>)
    BY <1>1, OptionLists DEF MessagingLaid, TasksLaid
  <2> QED BY <1>1, <2>1, <2>2, <2>3, <2>4, OptionedLaid DEF MessagingAnswersLaid, TaskAnswersLaid
<1>14. OperationLaid(exact, lax, touch)
  <2>1. IsOperation(touch, "ActionTouch", serializeWorkerTouchValue, <<>>, NoAnswer)
    BY DEF touch, Operation, IsOperation
  <2> QED BY <1>1, <1>3, <2>1, OrdinaryLaid DEF MessagingLaid, TasksLaid, MessagingAnswersLaid, TaskAnswersLaid
<1>15. OperationLaid(exact, lax, complete)
  <2>1. IsOperation(complete, "ActionComplete", serializeWorkerCompleteValue, <<>>, NoAnswer)
    BY DEF complete, Operation, IsOperation
  <2> QED BY <1>1, <1>3, <2>1, OrdinaryLaid DEF MessagingLaid, TasksLaid, MessagingAnswersLaid, TaskAnswersLaid
<1>16. OperationLaid(exact, lax, fail)
  <2>1. IsOperation(fail, "ActionFail", serializeWorkerFailValue, <<>>, NoAnswer)
    BY DEF fail, Operation, IsOperation
  <2> QED BY <1>1, <1>3, <2>1, OrdinaryLaid DEF MessagingLaid, TasksLaid, MessagingAnswersLaid, TaskAnswersLaid
<1>17. OperationLaid(exact, lax, workerList)
  <2>1. IsOperation(workerList, "WorkerList", encodeWorkerListBody, <<>>, decodeWorkerListAnswer)
    BY DEF workerList, Operation, IsOperation, Keyless
  <2> QED BY <1>1, <1>3, <2>1, OrdinaryLaid DEF MessagingLaid, TasksLaid, MessagingAnswersLaid, TaskAnswersLaid
<1>18. OperationLaid(exact, lax, workerInfo)
  <2>1. IsOperation(workerInfo, "WorkerInfo", <<>>, <<>>, decodeWorkerInfoAnswer)
    BY DEF workerInfo, Operation, IsOperation
  <2> QED BY <1>1, <1>3, <2>1, OrdinaryLaid DEF MessagingLaid, TasksLaid, MessagingAnswersLaid, TaskAnswersLaid
<1> QED BY <1>4, <1>5, <1>6, <1>7, <1>8, <1>9, <1>10, <1>11, <1>12, <1>13, <1>14, <1>15, <1>16, <1>17, <1>18

\* The operations of workflows and processing jobs.
LEMMA FlowCalls ==
  ASSUME NEW exact \in BOOLEAN, NEW lax, lax = FALSE
  PROVE  \A op \in {workflowCreate, getDefinition, workflowStart, workflowStatus, workflowHistory, listRuns,
                     signal, workflowCancel, disable, enable, listDefinitions, submit, jobStatus, jobList,
                     jobStop, jobCancel}:
           OperationLaid(exact, lax, op)
<1>1. MessagingLaid(exact) /\ FlowsLaid(exact) /\ MessagingAnswersLaid(exact) /\ FlowAnswersLaid(exact)
  BY MessagingBodies, FlowBodies, MessagingAnswers, FlowAnswers
<1>2. AnswerLaid(lax, parseStreamReadResponse) /\ AnswerLaid(lax, statusAnswer)
  BY LaxAnswers
<1>3. \A code \in {"WorkflowCreate", "WorkflowGetDefinition", "WorkflowStart", "WorkflowHistory",
                   "WorkflowListRuns", "WorkflowSignal", "WorkflowCancel", "WorkflowDisable",
                   "WorkflowEnable", "WorkflowListDefinitions", "ProcessingSubmit", "ProcessingStatus",
                   "ProcessingList", "ProcessingStop", "ProcessingCancel"}:
        Ordinary(code)
  BY DEF Ordinary, LooseReaders, TakesItems
<1>4. OperationLaid(exact, lax, workflowCreate)
  <2>1. IsOperation(workflowCreate, "WorkflowCreate", <<Rest>>, <<>>, NoAnswer)
    BY DEF workflowCreate, Operation, IsOperation
  <2> QED BY <1>1, <1>3, <2>1, OrdinaryLaid DEF MessagingLaid, FlowsLaid, MessagingAnswersLaid, FlowAnswersLaid
<1>5. OperationLaid(exact, lax, getDefinition)
  <2>1. IsOperation(getDefinition, "WorkflowGetDefinition", <<Rest>>, <<>>, textAnswer)
    BY DEF getDefinition, Operation, IsOperation, OrNull
  <2> QED BY <1>1, <1>3, <2>1, OrdinaryLaid DEF MessagingLaid, FlowsLaid, MessagingAnswersLaid, FlowAnswersLaid
<1>6. OperationLaid(exact, lax, workflowStart)
  <2>1. IsOperation(workflowStart, "WorkflowStart", startValue, <<>>, textAnswer)
    BY DEF workflowStart, Operation, IsOperation
  <2> QED BY <1>1, <1>3, <2>1, OrdinaryLaid DEF MessagingLaid, FlowsLaid, MessagingAnswersLaid, FlowAnswersLaid
<1>7. OperationLaid(exact, lax, workflowStatus)
  <2>1. IsOperation(workflowStatus, "WorkflowStatus", <<>>, <<>>, statusAnswer)
    BY DEF workflowStatus, Operation, IsOperation
  <2>2. "WorkflowStatus" # "KVGet" /\ ~isTableOp("WorkflowStatus") /\ "WorkflowStatus" \in LooseReaders
    BY DEF isTableOp, TableOps, LooseReaders
  <2>3. "WorkflowStatus" \notin TakesItems /\ workflowStatus \notin {dequeue, groupRead, awaitTask}
    BY <2>1, Takers DEF IsOperation, TakesItems
  <2>4. FieldsLaid(exact, <<>>) /\ OptionsLaid(<<>>)
    BY <1>1, OptionLists DEF MessagingLaid, FlowsLaid
  <2> QED BY <1>2, <2>1, <2>2, <2>3, <2>4, OptionedLaid
<1>8. OperationLaid(exact, lax, workflowHistory)
  <2>1. IsOperation(workflowHistory, "WorkflowHistory", <<Masked(U32)>>, <<>>, parseWireHistory)
    BY DEF workflowHistory, Operation, IsOperation
  <2> QED BY <1>1, <1>3, <2>1, OrdinaryLaid DEF MessagingLaid, FlowsLaid, MessagingAnswersLaid, FlowAnswersLaid
<1>9. OperationLaid(exact, lax, listRuns)
  <2>1. IsOperation(listRuns, "WorkflowListRuns", serializeListRunsValue, <<>>, decodeListRunsAnswer)
    BY DEF listRuns, Operation, IsOperation
  <2> QED BY <1>1, <1>3, <2>1, OrdinaryLaid DEF MessagingLaid, FlowsLaid, MessagingAnswersLaid, FlowAnswersLaid
<1>10. OperationLaid(exact, lax, signal)
  <2>1. IsOperation(signal, "WorkflowSignal", signalValue, <<>>, NoAnswer)
    BY DEF signal, Operation, IsOperation
  <2> QED BY <1>1, <1>3, <2>1, OrdinaryLaid DEF MessagingLaid, FlowsLaid, MessagingAnswersLaid, FlowAnswersLaid
<1>11. OperationLaid(exact, lax, workflowCancel)
  <2>1. IsOperation(workflowCancel, "WorkflowCancel", <<Rest>>, <<>>, NoAnswer)
    BY DEF workflowCancel, Operation, IsOperation
  <2> QED BY <1>1, <1>3, <2>1, OrdinaryLaid DEF MessagingLaid, FlowsLaid, MessagingAnswersLaid, FlowAnswersLaid
<1>12. OperationLaid(exact, lax, disable)
  <2>1. IsOperation(disable, "WorkflowDisable", <<>>, <<>>, NoAnswer)
    BY DEF disable, Operation, IsOperation
  <2> QED BY <1>1, <1>3, <2>1, OrdinaryLaid DEF MessagingLaid, FlowsLaid, MessagingAnswersLaid, FlowAnswersLaid
<1>13. OperationLaid(exact, lax, enable)
  <2>1. IsOperation(enable, "WorkflowEnable", <<>>, <<>>, NoAnswer)
    BY DEF enable, Operation, IsOperation
  <2> QED BY <1>1, <1>3, <2>1, OrdinaryLaid DEF MessagingLaid, FlowsLaid, MessagingAnswersLaid, FlowAnswersLaid
<1>14. OperationLaid(exact, lax, listDefinitions)
  <2>1. IsOperation(listDefinitions, "WorkflowListDefinitions", listValue, <<>>, decodeDefinitionsAnswer)
    BY DEF listDefinitions, Operation, IsOperation, Keyless
  <2> QED BY <1>1, <1>3, <2>1, OrdinaryLaid DEF MessagingLaid, FlowsLaid, MessagingAnswersLaid, FlowAnswersLaid
<1>15. OperationLaid(exact, lax, submit)
  <2>1. IsOperation(submit, "ProcessingSubmit", <<Rest>>, <<>>, textAnswer)
    BY DEF submit, Operation, IsOperation, Keyless
  <2> QED BY <1>1, <1>3, <2>1, OrdinaryLaid DEF MessagingLaid, FlowsLaid, MessagingAnswersLaid, FlowAnswersLaid
<1>16. OperationLaid(exact, lax, jobStatus)
  <2>1. IsOperation(jobStatus, "ProcessingStatus", <<>>, <<>>, parseWireStatus)
    BY DEF jobStatus, Operation, IsOperation
  <2> QED BY <1>1, <1>3, <2>1, OrdinaryLaid DEF MessagingLaid, FlowsLaid, MessagingAnswersLaid, FlowAnswersLaid
<1>17. OperationLaid(exact, lax, jobList)
  <2>1. IsOperation(jobList, "ProcessingList", listValue, <<>>, decodeProcessingListAnswer)
    BY DEF jobList, Operation, IsOperation, Keyless
  <2> QED BY <1>1, <1>3, <2>1, OrdinaryLaid DEF MessagingLaid, FlowsLaid, MessagingAnswersLaid, FlowAnswersLaid
<1>18. OperationLaid(exact, lax, jobStop)
  <2>1. IsOperation(jobStop, "ProcessingStop", <<>>, <<>>, NoAnswer)
    BY DEF jobStop, Operation, IsOperation
  <2> QED BY <1>1, <1>3, <2>1, OrdinaryLaid DEF MessagingLaid, FlowsLaid, MessagingAnswersLaid, FlowAnswersLaid
<1>19. OperationLaid(exact, lax, jobCancel)
  <2>1. IsOperation(jobCancel, "ProcessingCancel", <<>>, <<>>, NoAnswer)
    BY DEF jobCancel, Operation, IsOperation
  <2> QED BY <1>1, <1>3, <2>1, OrdinaryLaid DEF MessagingLaid, FlowsLaid, MessagingAnswersLaid, FlowAnswersLaid
<1> QED BY <1>4, <1>5, <1>6, <1>7, <1>8, <1>9, <1>10, <1>11, <1>12, <1>13, <1>14, <1>15, <1>16, <1>17, <1>18,
           <1>19

\* Every operation of the API.
LEMMA OperationsLaid ==
  ASSUME NEW exact \in BOOLEAN, NEW lax, lax = FALSE
  PROVE  \A i \in DOMAIN Operations: OperationLaid(exact, lax, Operations[i])
<1>1. PICK S: S = {kvGet, kvSet, kvDelete, kvScan, kvHistory, kvIncr, kvExpire, kvExists, jsonGet, jsonDel,
                   jsonSet, kvMGetPage, txnBegin, txnCommit, txnRollback, enqueue, dequeue, ack, nack,
                   dlqList, dlqRequeue, peek, append, read, streamInfo, streamDelete, groupRead, groupJoin,
                   groupLeave, groupAck, groupNack, actionRegister, actionInvoke, actionStatus, actionList,
                   actionDelete, workerRegister, heartbeat, deregister, drain, awaitTask, touch, complete,
                   fail, workerList, workerInfo, workflowCreate, getDefinition, workflowStart,
                   workflowStatus, workflowHistory, listRuns, signal, workflowCancel, disable, enable,
                   listDefinitions, submit, jobStatus, jobList, jobStop, jobCancel}
  OBVIOUS
<1>2. ASSUME NEW op \in S PROVE OperationLaid(exact, lax, op)
  <2>1. CASE op \in {kvGet, kvSet, kvDelete, kvScan, kvHistory, kvIncr, kvExpire, kvExists, jsonGet,
                      jsonDel, jsonSet, kvMGetPage, txnBegin, txnCommit, txnRollback}
    BY <2>1, KeyValueCalls
  <2>2. CASE op \in {enqueue, dequeue, ack, nack, dlqList, dlqRequeue, peek, append, read, streamInfo,
                      streamDelete, groupRead, groupJoin, groupLeave, groupAck, groupNack}
    BY <2>2, MessagingCalls
  <2>3. CASE op \in {actionRegister, actionInvoke, actionStatus, actionList, actionDelete, workerRegister,
                      heartbeat, deregister, drain, awaitTask, touch, complete, fail, workerList, workerInfo}
    BY <2>3, TaskCalls
  <2>4. CASE op \in {workflowCreate, getDefinition, workflowStart, workflowStatus, workflowHistory,
                      listRuns, signal, workflowCancel, disable, enable, listDefinitions, submit, jobStatus,
                      jobList, jobStop, jobCancel}
    BY <2>4, FlowCalls
  <2> QED BY <1>1, <2>1, <2>2, <2>3, <2>4
<1>3. kvGet \in S /\ kvSet \in S /\ kvDelete \in S /\ kvScan \in S /\ kvHistory \in S /\ kvIncr \in S /\
      kvExpire \in S /\ kvExists \in S /\ jsonGet \in S /\ jsonDel \in S /\ jsonSet \in S /\
      kvMGetPage \in S /\ txnBegin \in S /\ txnCommit \in S /\ txnRollback \in S
  BY <1>1
<1>4. KeyValueOperations \in Seq(S)
  BY <1>3 DEF KeyValueOperations
<1>5. enqueue \in S /\ dequeue \in S /\ ack \in S /\ nack \in S /\ dlqList \in S /\ dlqRequeue \in S /\
      peek \in S /\ append \in S /\ read \in S /\ streamInfo \in S /\ streamDelete \in S /\
      groupRead \in S /\ groupJoin \in S /\ groupLeave \in S /\ groupAck \in S /\ groupNack \in S
  BY <1>1
<1>6. MessagingOperations \in Seq(S)
  BY <1>5 DEF MessagingOperations
<1>7. actionRegister \in S /\ actionInvoke \in S /\ actionStatus \in S /\ actionList \in S /\
      actionDelete \in S /\ workerRegister \in S /\ heartbeat \in S /\ deregister \in S /\ drain \in S /\
      awaitTask \in S /\ touch \in S /\ complete \in S /\ fail \in S /\ workerList \in S /\ workerInfo \in S
  BY <1>1
<1>8. TaskOperations \in Seq(S)
  BY <1>7 DEF TaskOperations
<1>9. workflowCreate \in S /\ getDefinition \in S /\ workflowStart \in S /\ workflowStatus \in S /\
      workflowHistory \in S /\ listRuns \in S /\ signal \in S /\ workflowCancel \in S /\ disable \in S /\
      enable \in S /\ listDefinitions \in S /\ submit \in S /\ jobStatus \in S /\ jobList \in S /\
      jobStop \in S /\ jobCancel \in S
  BY <1>1
<1>10. FlowOperations \in Seq(S)
  BY <1>9 DEF FlowOperations
<1>11. Operations \in Seq(S)
  BY <1>4, <1>6, <1>8, <1>10 DEF Operations
<1> QED BY <1>2, <1>11, ElementOfSeq

-----------------------------------------------------------------------------
(* The payload of a request.                                               *)

\* Some cells after their number.
Sealed(w, x) == Put(w, Len(x)) \o x

\* How long that is.
LEMMA SealedIs ==
  ASSUME NEW w \in 0..U64, NEW x \in Seq(Nat)
  PROVE  Sealed(w, x) \in Seq(Nat) /\ Len(Sealed(w, x)) = w + Len(x)
<1>1. PICK p \in Seq(Nat): p = Put(w, Len(x)) /\ Len(p) = w
  BY PutDigits
<1>2. p \o x \in Seq(Nat) /\ Len(p \o x) = w + Len(x)
  BY <1>1, ConcatProperties
<1> QED BY <1>1, <1>2 DEF Sealed

\* What follows some cells after their number.
Follows(w, b, c) == Past(w, b) = c

\* Past gets to what comes after it.
LEMMA PastSealed ==
  ASSUME NEW w \in 0..U64, NEW x \in Seq(Nat), Len(x) <= Widest(w), NEW c \in Seq(Nat), NEW b,
         b = Sealed(w, x) \o c
  PROVE  Follows(w, b, c)
<1>1. PICK p \in Seq(Nat): p = Put(w, Len(x)) /\ Len(p) = w
  BY PutDigits
<1>2. PICK front \in Seq(Nat): front = Sealed(w, x) /\ Len(front) = w + Len(x)
  BY SealedIs
<1>3. InFront(front, b, c)
  BY <1>2, Fronts
<1>4. PICK t \in Seq(Nat): t = x \o c
  <2>1. x \o c \in Seq(Nat)
    OBVIOUS
  <2> QED BY <2>1
<1>5. Associates(p, x, c)
  BY Associated
<1>6. b = Put(w, Len(x)) \o t
  BY <1>1, <1>2, <1>4, <1>5 DEF Associates, Sealed
<1>7. PutInFront(w, Len(x), b, t)
  <2>1. PICK n \in Nat: n = Len(x)
    OBVIOUS
  <2> QED BY <1>6, <2>1, PutRead
<1>8. Got(w, b) = Len(x) /\ Len(b) >= w
  BY <1>7 DEF PutInFront
<1>9. Drop(w + Len(x), b) = c
  BY <1>2, <1>3 DEF InFront
<1> QED BY <1>8, <1>9 DEF Past, Follows

\* A field of text.
LEMMA TextField ==
  ASSUME NEW w \in 1..U64, NEW max, NEW f, f = Text(w, max), NEW v \in Seq(Nat), Len(v) <= Widest(w)
  PROVE  Carried(Encode4(f, v), Reader(Read4, f), v) /\ Encode4(f, v) = Sealed(w, v)
<1>1. f.kind = "text" /\ f.width = w /\ f.min = 0 /\ Leaf(f)
  BY DEF Text, Leaf
<1>2. Carried(EncodeLeaf(f, v), Reader(ReadLeaf, f), v)
  BY <1>1, TextCarried
<1>3. Encode4(f, v) = EncodeLeaf(f, v) /\ \A c: Read4(f, c) = ReadLeaf(f, c)
  BY <1>1, AtTheTop
<1>4. Reader(Read4, f) = Reader(ReadLeaf, f)
  BY <1>3 DEF Reader
<1>5. EncodeLeaf(f, v) = Sealed(w, v)
  BY <1>1 DEF EncodeLeaf, Sealed
<1> QED BY <1>2, <1>3, <1>4, <1>5

\* The rest is written as it is.
LEMMA RestField ==
  ASSUME NEW v \in Seq(Nat)
  PROVE  Encode4(Rest, v) = v
<1>1. Leaf(Rest) /\ Rest.kind = "rest"
  BY DEF Leaf, Rest
<1>2. EncodeLeaf(Rest, v) = v
  BY <1>1 DEF EncodeLeaf
<1> QED BY <1>1, <1>2, AtTheTop

\* The fields of an envelope.
LEMMA EnvelopeIs ==
  ASSUME NEW code, NEW a, NEW b, NEW c, NEW d, a = Text(U16, MAX_NAMESPACE_SIZE), b = Text(U16, MAX_KEY_SIZE),
         c = Text(U32, MAX_VALUE_SIZE), d = Name(U16)
  PROVE  /\ isTableOp(code) => Envelope(code) = Row(<<a, b, Rest>>)
         /\ ~isTableOp(code) => Envelope(code) = Row(<<a, b, c, d>>)
<1>1. PICK S: S = {a, b, c, d, Rest}
  OBVIOUS
<1>2. a \in S /\ b \in S /\ c \in S /\ d \in S /\ Rest \in S
  BY <1>1
<1>3. <<a, b>> \o <<Rest>> = <<a, b, Rest>>
  <2>1. <<a, b>> \in Seq(S) /\ <<Rest>> \in Seq(S) /\ <<a, b, Rest>> \in Seq(S)
    BY <1>2
  <2>2. PICK s \in Seq(S), t \in Seq(S), u \in Seq(S): s = <<a, b>> /\ t = <<Rest>> /\ u = <<a, b, Rest>>
    BY <2>1
  <2>3. Len(u) = Len(s) + Len(t) /\ Len(s) = 2 /\ Len(t) = 1
    BY <2>2
  <2>4. (\A i \in 1..Len(s): u[i] = s[i]) /\ (\A i \in 1..Len(t): u[Len(s) + i] = t[i])
    BY <2>2, <2>3
  <2>5. s \o t = u
    BY <2>3, <2>4, Joined
  <2> QED BY <2>2, <2>5
<1>4. <<a, b>> \o <<c, d>> = <<a, b, c, d>>
  <2>1. <<a, b>> \in Seq(S) /\ <<c, d>> \in Seq(S) /\ <<a, b, c, d>> \in Seq(S)
    BY <1>2
  <2>2. PICK s \in Seq(S), t \in Seq(S), u \in Seq(S): s = <<a, b>> /\ t = <<c, d>> /\ u = <<a, b, c, d>>
    BY <2>1
  <2>3. Len(u) = Len(s) + Len(t) /\ Len(s) = 2 /\ Len(t) = 2
    BY <2>2
  <2>4. (\A i \in 1..Len(s): u[i] = s[i]) /\ (\A i \in 1..Len(t): u[Len(s) + i] = t[i])
    BY <2>2, <2>3
  <2>5. s \o t = u
    BY <2>3, <2>4, Joined
  <2> QED BY <2>2, <2>5
<1> QED BY <1>3, <1>4 DEF Envelope

\* The arguments of a request that fit the prefixes of its payload.
Fits(namespace, key, value) ==
  /\ namespace \in Seq(Nat) /\ key \in Seq(Nat) /\ value \in Seq(Nat)
  /\ Len(namespace) <= Widest(U16) /\ Len(key) <= Widest(U16) /\ Len(value) <= Widest(U32)

\* A payload opens with the namespace and the key; the cells p follow.
Opens(payload, namespace, key, p) ==
  /\ payload \in Seq(Nat) /\ p \in Seq(Nat)
  /\ \E t \in Seq(Nat): payload = Sealed(U16, namespace) \o t /\ t = Sealed(U16, key) \o p
\* The payload is read as its fields, and opens with namespace and key.
PayloadRead(f, v, payload, p) ==
  RowRead(f, v, v) /\ payload = Encode(f, v) /\ Opens(payload, v[1], v[2], p)

\* The payload of a table op opens with the namespace and the key; its body follows.
LEMMA TablePayload ==
  ASSUME NEW code, isTableOp(code), NEW namespace, NEW key, NEW value, Fits(namespace, key, value),
         NEW v, v = <<namespace, key, value>>
  PROVE  PayloadRead(Envelope(code), v, Encode(Envelope(code), v), value)
<1>1. PICK a, b: a = Text(U16, MAX_NAMESPACE_SIZE) /\ b = Text(U16, MAX_KEY_SIZE)
  OBVIOUS
<1>2. PICK f: f = Envelope(code)
  OBVIOUS
<1>3. f = Row(<<a, b, Rest>>)
  BY <1>1, <1>2, EnvelopeIs
<1>4. f.kind = "row" /\ Len(f.of) = 3 /\ f.of[1] = a /\ f.of[2] = b /\ f.of[3] = Rest
  BY <1>3 DEF Row
<1>5. /\ Carried(Encode4(a, namespace), Reader(Read4, a), namespace) /\ Encode4(a, namespace) = Sealed(U16, namespace)
      /\ Carried(Encode4(b, key), Reader(Read4, b), key) /\ Encode4(b, key) = Sealed(U16, key)
  BY <1>1, TextField, Limits DEF Fits
<1>6. Rest.kind = "rest" /\ value \in Seq(Nat) /\ Encode4(Rest, value) = value
  BY RestLast, RestField DEF Fits
<1>7. v[1] = namespace /\ v[2] = key /\ v[3] = value /\ v = [i \in 1..3 |-> v[i]]
  OBVIOUS
<1>8. FieldsCarried(f, v, v)
  <2>1. ASSUME NEW i \in 1..3
        PROVE  \/ Carried(Encode4(f.of[i], v[i]), Reader(Read4, f.of[i]), v[i])
               \/ f.of[i].kind = "rest" /\ i = 3 /\ v[i] \in Seq(Nat)
    <3>1. i = 1 \/ i = 2 \/ i = 3
      OBVIOUS
    <3> QED BY <1>4, <1>5, <1>6, <1>7, <3>1
  <2> QED BY <1>4, <2>1 DEF FieldsCarried
<1>9. RowRead(f, v, v)
  BY <1>4, <1>7, <1>8, RowCarried
<1>10. PICK s: Trail(s, Fields(f, v), <<>>) /\ s[0] = Encode(f, v)
  BY <1>9 DEF RowRead
<1>11. PICK parts: parts = Fields(f, v)
  OBVIOUS
<1>12. Len(parts) = 3 /\ parts[1] = Sealed(U16, namespace) /\ parts[2] = Sealed(U16, key) /\ parts[3] = value
  BY <1>4, <1>5, <1>6, <1>7, <1>11 DEF Fields
<1>13. /\ s[0] \in Seq(Nat) /\ s[1] \in Seq(Nat) /\ s[2] \in Seq(Nat) /\ s[3] = <<>>
       /\ s[0] = parts[1] \o s[1] /\ s[1] = parts[2] \o s[2] /\ s[2] = parts[3] \o s[3]
  <2>1. 0 \in 0..3 /\ 1 \in 0..3 /\ 2 \in 0..3 /\ 1 \in 1..3 /\ 2 \in 1..3 /\ 3 \in 1..3 /\ 1 - 1 = 0 /\ 2 - 1 = 1 /\ 3 - 1 = 2
    OBVIOUS
  <2> QED BY <1>10, <1>11, <1>12, <2>1 DEF Trail
<1>14. s[2] = value
  BY <1>6, <1>12, <1>13, ConcatEmptySeq
<1>15. Opens(Encode(f, v), namespace, key, value)
  BY <1>6, <1>10, <1>12, <1>13, <1>14 DEF Opens
<1> QED BY <1>2, <1>7, <1>9, <1>15 DEF PayloadRead

\* ... and otherwise with the value and the options after them.
PlainRead(f, v, value, options) ==
  \E t \in Seq(Nat):
    PayloadRead(f, v, Encode(f, v), t) /\ t = Sealed(U32, value) \o Sealed(U16, options)

\* That of another op goes on with its value and its options.
LEMMA PlainPayload ==
  ASSUME NEW code, ~isTableOp(code), NEW namespace, NEW key, NEW value, Fits(namespace, key, value),
         NEW options \in Seq(Nat), Len(options) <= Widest(U16), NEW v, v = <<namespace, key, value, options>>
  PROVE  PlainRead(Envelope(code), v, value, options)
<1>1. PICK a, b, c, d: /\ a = Text(U16, MAX_NAMESPACE_SIZE) /\ b = Text(U16, MAX_KEY_SIZE)
                       /\ c = Text(U32, MAX_VALUE_SIZE) /\ d = Name(U16)
  OBVIOUS
<1>2. PICK f: f = Envelope(code)
  OBVIOUS
<1>3. f = Row(<<a, b, c, d>>) /\ d = Text(U16, Unchecked)
  BY <1>1, <1>2, EnvelopeIs DEF Name
<1>4. f.kind = "row" /\ Len(f.of) = 4 /\ f.of[1] = a /\ f.of[2] = b /\ f.of[3] = c /\ f.of[4] = d
  BY <1>3 DEF Row
<1>5. /\ Carried(Encode4(a, namespace), Reader(Read4, a), namespace) /\ Encode4(a, namespace) = Sealed(U16, namespace)
      /\ Carried(Encode4(b, key), Reader(Read4, b), key) /\ Encode4(b, key) = Sealed(U16, key)
  <2>1. U16 \in 1..U64 /\ namespace \in Seq(Nat) /\ key \in Seq(Nat)
        /\ Len(namespace) <= Widest(U16) /\ Len(key) <= Widest(U16)
    BY Limits DEF Fits
  <2>2. Carried(Encode4(a, namespace), Reader(Read4, a), namespace) /\ Encode4(a, namespace) = Sealed(U16, namespace)
    BY <1>1, <2>1, TextField
  <2>3. Carried(Encode4(b, key), Reader(Read4, b), key) /\ Encode4(b, key) = Sealed(U16, key)
    BY <1>1, <2>1, TextField
  <2> QED BY <2>2, <2>3
<1>6. /\ Carried(Encode4(c, value), Reader(Read4, c), value) /\ Encode4(c, value) = Sealed(U32, value)
      /\ Carried(Encode4(d, options), Reader(Read4, d), options) /\ Encode4(d, options) = Sealed(U16, options)
  <2>1. U16 \in 1..U64 /\ U32 \in 1..U64 /\ value \in Seq(Nat) /\ Len(value) <= Widest(U32)
    BY Limits DEF Fits
  <2>2. Carried(Encode4(c, value), Reader(Read4, c), value) /\ Encode4(c, value) = Sealed(U32, value)
    BY <1>1, <2>1, TextField
  <2>3. Carried(Encode4(d, options), Reader(Read4, d), options) /\ Encode4(d, options) = Sealed(U16, options)
    BY <1>3, <2>1, TextField
  <2> QED BY <2>2, <2>3
<1>7. v[1] = namespace /\ v[2] = key /\ v[3] = value /\ v[4] = options /\ v = [i \in 1..4 |-> v[i]]
  OBVIOUS
<1>8. FieldsCarried(f, v, v)
  <2>1. ASSUME NEW i \in 1..4
        PROVE  Carried(Encode4(f.of[i], v[i]), Reader(Read4, f.of[i]), v[i])
    <3>1. i = 1 \/ i = 2 \/ i = 3 \/ i = 4
      OBVIOUS
    <3> QED BY <1>4, <1>5, <1>6, <1>7, <3>1
  <2> QED BY <1>4, <2>1 DEF FieldsCarried
<1>9. RowRead(f, v, v)
  BY <1>4, <1>7, <1>8, RowCarried
<1>10. PICK s: Trail(s, Fields(f, v), <<>>) /\ s[0] = Encode(f, v)
  BY <1>9 DEF RowRead
<1>11. PICK parts: parts = Fields(f, v)
  OBVIOUS
<1>12. /\ Len(parts) = 4 /\ parts[1] = Sealed(U16, namespace) /\ parts[2] = Sealed(U16, key)
       /\ parts[3] = Sealed(U32, value) /\ parts[4] = Sealed(U16, options)
  BY <1>4, <1>5, <1>6, <1>7, <1>11 DEF Fields
<1>13. /\ s[0] \in Seq(Nat) /\ s[1] \in Seq(Nat) /\ s[2] \in Seq(Nat) /\ s[3] \in Seq(Nat) /\ s[4] = <<>>
       /\ s[0] = parts[1] \o s[1] /\ s[1] = parts[2] \o s[2] /\ s[2] = parts[3] \o s[3] /\ s[3] = parts[4] \o s[4]
  <2>1. /\ 0 \in 0..4 /\ 1 \in 0..4 /\ 2 \in 0..4 /\ 3 \in 0..4 /\ 1 \in 1..4 /\ 2 \in 1..4 /\ 3 \in 1..4 /\ 4 \in 1..4
        /\ 1 - 1 = 0 /\ 2 - 1 = 1 /\ 3 - 1 = 2 /\ 4 - 1 = 3
    OBVIOUS
  <2> QED BY <1>10, <1>11, <1>12, <2>1 DEF Trail
<1>14. Sealed(U16, options) \in Seq(Nat)
  BY SealedIs, Limits
<1>15. s[3] = Sealed(U16, options)
  BY <1>12, <1>13, <1>14, ConcatEmptySeq
<1>16. Opens(Encode(f, v), namespace, key, s[2]) /\ s[2] = Sealed(U32, value) \o Sealed(U16, options)
  BY <1>10, <1>12, <1>13, <1>15 DEF Opens
<1> QED BY <1>2, <1>7, <1>9, <1>13, <1>16 DEF PayloadRead, PlainRead

\* What the transport finds after the namespace and the key of a payload.
LEMMA PastOpening ==
  ASSUME NEW payload, NEW namespace, NEW key, NEW value, Fits(namespace, key, value), NEW p,
         Opens(payload, namespace, key, p)
  PROVE  Past(U16, Past(U16, payload)) = p
<1>1. PICK t \in Seq(Nat): payload = Sealed(U16, namespace) \o t /\ t = Sealed(U16, key) \o p
  BY DEF Opens
<1>2. U16 \in 0..U64 /\ p \in Seq(Nat) /\ namespace \in Seq(Nat) /\ key \in Seq(Nat)
  BY Widths DEF Opens, Fits
<1>3. Len(namespace) <= Widest(U16) /\ Len(key) <= Widest(U16)
  BY DEF Fits
<1>4. Follows(U16, payload, t) /\ Follows(U16, t, p)
  BY <1>1, <1>2, <1>3, PastSealed
<1> QED BY <1>4 DEF Follows

\* ... and after its value: its options.
OptionsFound(options, found) ==
  /\ Len(found) \in Nat /\ Len(found) >= U16 /\ U16 + Got(U16, found) = Len(found)
  /\ SubSeq(found, U16 + 1, Len(found)) = options

\* After the value come the options, and nothing after them.
LEMMA PastValue ==
  ASSUME NEW value \in Seq(Nat), Len(value) <= Widest(U32), NEW options \in Seq(Nat), Len(options) <= Widest(U16),
         NEW t, t = Sealed(U32, value) \o Sealed(U16, options)
  PROVE  OptionsFound(options, Past(U32, t))
<1>1. U16 \in 0..U64 /\ U32 \in 0..U64
  BY Widths
<1>2. PICK found \in Seq(Nat): found = Sealed(U16, options)
  BY <1>1, SealedIs
<1>3. Follows(U32, t, found)
  BY <1>1, <1>2, PastSealed
<1>4. PICK n \in Nat: n = Len(options)
  OBVIOUS
<1>5. PutInFront(U16, n, found, options)
  BY <1>1, <1>2, <1>4, PutRead DEF Sealed
<1>6. Len(found) = U16 + n /\ Got(U16, found) = n /\ Drop(U16, found) = options
  BY <1>4, <1>5 DEF PutInFront
<1>7. Len(found) \in Nat /\ Len(found) >= U16 /\ U16 + Got(U16, found) = Len(found)
  BY <1>2, <1>4, <1>6, Widths
<1>8. SubSeq(found, U16 + 1, Len(found)) = options
  BY <1>6 DEF Drop
<1> QED BY <1>3, <1>7, <1>8 DEF OptionsFound, Follows

-----------------------------------------------------------------------------
(* The options of a request.                                               *)

\* An option is written in cells; a BlockMS is a number of four bytes.
LEMMA OptionCells ==
  ASSUME NEW option, OptionLaid(option), NEW v, IsValue(option.of, v), Admits(option.of, v)
  PROVE  /\ Encode(option.of, v) \in Seq(Nat)
         /\ IsBlock(option) => v \in 0..MAX_BLOCK_MS /\ Encode(option.of, v) = Put(U32, v)
<1>1. CASE option.of = Rest
  <2>1. Leaf(Rest) /\ Rest.kind = "rest"
    BY DEF Leaf, Rest
  <2>2. v \in Seq(Nat) /\ Encode(Rest, v) = v
    BY <1>1, <2>1 DEF IsValue, IsValueIn, IsLeafValue, Encode, EncodeIn, EncodeLeaf
  <2>3. ~IsBlock(option)
    <3>1. Number(U32, 0, MAX_BLOCK_MS).kind = "number"
      BY DEF Number
    <3> QED BY <1>1, <2>1, <3>1 DEF OptionLaid, IsBlock
  <2> QED BY <1>1, <2>2, <2>3
<1>2. CASE option.of = Row(<<>>)
  <2>1. PICK exact \in BOOLEAN: exact
    OBVIOUS
  <2>2. LaidRow(exact, option.of) /\ option.of.kind = "row"
    BY <1>2, MessagingBodies, RowLaid DEF MessagingLaid, Row
  <2>3. Encode(option.of, v) \in Seq(Nat)
    BY <2>2, BodyCells
  <2>4. ~IsBlock(option)
    <3>1. Number(U32, 0, MAX_BLOCK_MS).kind = "number"
      BY DEF Number
    <3> QED BY <2>2, <3>1 DEF OptionLaid, IsBlock
  <2> QED BY <2>3, <2>4
<1>3. CASE option.of.kind = "number" /\ option.of.width \in 1..U64
  <2>1. PICK f, w: f = option.of /\ w = f.width /\ w \in 1..U64
    BY <1>3
  <2>2. Leaf(f) /\ f.kind = "number"
    BY <1>3, <2>1 DEF Leaf
  <2>3. v \in Int /\ (~f.masked => v \in f.min..f.max)
    BY <1>3, <2>1, <2>2 DEF IsValue, IsValueIn, IsLeafValue, Admits, AdmitsIn, LeafAdmits
  <2>4. Encode(f, v) = Put(w, v)
    BY <2>1, <2>2 DEF Encode, EncodeIn, EncodeLeaf
  <2>5. Put(w, v) \in Seq(Nat)
    <3>1. w \in 0..U64
      BY <2>1, Widths
    <3> QED BY <2>3, <3>1, PutCells
  <2>6. IsBlock(option) => w = U32 /\ f.min = 0 /\ f.max = MAX_BLOCK_MS /\ ~f.masked
    BY <2>1 DEF OptionLaid, IsBlock, Number
  <2> QED BY <2>1, <2>3, <2>4, <2>5, <2>6
<1> QED BY <1>1, <1>2, <1>3 DEF OptionLaid

\* An option is the same cells with its number cut to them.
LEMMA OptionNarrowed ==
  ASSUME NEW option, OptionLaid(option), NEW v, IsValue(option.of, v)
  PROVE  Encode(option.of, Narrowed(option.of, v)) = Encode(option.of, v)
<1> PICK f: f = option.of
  OBVIOUS
<1>1. CASE f = Rest
  <2>1. Leaf(f) /\ f.kind = "rest"
    BY <1>1 DEF Leaf, Rest
  <2> QED BY <2>1 DEF Narrowed, NarrowedIn, LeafNarrowed
<1>2. CASE f = Row(<<>>)
  <2>1. f.kind = "row" /\ ~Leaf(f) /\ f.of = <<>>
    BY <1>2 DEF Row, Leaf
  <2>2. ASSUME NEW u PROVE Encode(f, u) = <<>> \o FlattenSeq(<<>>)
    <3>1. Layouts(f, Len(Inside(f, u))) = <<>> /\ Prefix(f, Len(Inside(f, u))) = <<>> /\ Len(<<>>) = 0
      BY <2>1 DEF Layouts, Prefix
    <3>2. [i \in 1..0 |-> Encode4(<<>>[i], Inside(f, u)[i])] = <<>>
      OBVIOUS
    <3> QED BY <2>1, <3>1, <3>2 DEF Encode, EncodeIn
  <2> QED BY <2>2
<1>3. CASE f.kind = "number" /\ f.width \in 1..U64
  <2>1. Leaf(f) /\ f.width \in 0..U64
    BY <1>3, Widths DEF Leaf
  <2>2. v \in Int
    BY <1>3, <2>1 DEF IsValue, IsValueIn, IsLeafValue
  <2>3. Put(f.width, v) = Put(f.width, v % Span[f.width])
    BY <2>1, <2>2, PutNarrowed
  <2>4. Narrowed(f, v) = v % Span[f.width]
    BY <1>3, <2>1 DEF Narrowed, NarrowedIn, LeafNarrowed
  <2>5. \A u: Encode(f, u) = Put(f.width, u)
    BY <1>3, <2>1 DEF Encode, EncodeIn, EncodeLeaf
  <2> QED BY <2>3, <2>4, <2>5
<1> QED BY <1>1, <1>2, <1>3 DEF OptionLaid

\* The options given with a request.
OptionGiven(option, v) ==
  v = <<>> \/ (v = <<v[1]>> /\ IsValue(option.of, v[1]) /\ Admits(option.of, v[1]))
\* Options that a request of such a layout may be given.
OptionsGiven(options, vs) ==
  /\ Len(vs) = Len(options) /\ vs = [i \in 1..Len(options) |-> vs[i]]
  /\ \A i \in 1..Len(options): OptionGiven(options[i], vs[i])

\* The options, with the number of each cut to its bytes.
NarrowedOptions(options, vs) ==
  [i \in DOMAIN options |-> IF vs[i] = <<>> THEN <<>> ELSE <<Narrowed(options[i].of, vs[i][1])>>]

\* They are the same cells.
LEMMA OptionsNarrowed ==
  ASSUME NEW op, OptionsLaid(op.options), NEW vs, OptionsGiven(op.options, vs)
  PROVE  Options(op, NarrowedOptions(op.options, vs)) = Options(op, vs)
<1>1. PICK n, us: n = Len(op.options) /\ us = NarrowedOptions(op.options, vs)
  OBVIOUS
<1>2. DOMAIN vs = 1..n /\ DOMAIN us = 1..n
  BY <1>1 DEF OptionsLaid, OptionsGiven, NarrowedOptions
<1>3. ASSUME NEW i \in 1..n
      PROVE  OptionBytesOf(op.options[i], us[i]) = OptionBytesOf(op.options[i], vs[i])
  <2>1. us[i] = IF vs[i] = <<>> THEN <<>> ELSE <<Narrowed(op.options[i].of, vs[i][1])>>
    BY <1>1, <1>2 DEF NarrowedOptions, OptionsLaid
  <2>2. CASE vs[i] = <<>>
    BY <2>1, <2>2
  <2>3. CASE vs[i] # <<>>
    <3>1. OptionLaid(op.options[i]) /\ IsValue(op.options[i].of, vs[i][1])
      BY <1>1, <2>3 DEF OptionsLaid, OptionsGiven, OptionGiven
    <3>2. Encode(op.options[i].of, Narrowed(op.options[i].of, vs[i][1])) = Encode(op.options[i].of, vs[i][1])
      BY <3>1, OptionNarrowed
    <3>3. us[i] # <<>> /\ us[i][1] = Narrowed(op.options[i].of, vs[i][1])
      BY <2>1, <2>3
    <3> QED BY <2>3, <3>2, <3>3 DEF OptionBytesOf
  <2> QED BY <2>2, <2>3
<1>4. [i \in DOMAIN us |-> OptionBytesOf(op.options[i], us[i])] = [i \in DOMAIN vs |-> OptionBytesOf(op.options[i], vs[i])]
  BY <1>2, <1>3
<1> QED BY <1>1, <1>4 DEF Options

\* One of them, laid out: the k-th is a block of ms.
LaidOut(p, v, k, i, ms) == p \in Seq(Nat) /\ OptionPart(p, k, i, ms) /\ (p = <<>> <=> v = <<>>)

\* An option that is given is a tag, a length and as many cells; one that
\* is not is no cell.
LEMMA OptionLaidOut ==
  ASSUME NEW option, OptionLaid(option), NEW v, OptionGiven(option, v), NEW k, NEW i, IsBlock(option) <=> i = k,
         NEW ms, i = k /\ v # <<>> => ms = v[1]
  PROVE  LaidOut(OptionBytesOf(option, v), v, k, i, ms)
<1> PICK p, x: p = OptionBytesOf(option, v) /\ x = v[1]
  OBVIOUS
<1>1. CASE v = <<>>
  BY <1>1, EmptySeq DEF OptionBytesOf, OptionPart, LaidOut
<1>2. CASE v = <<x>> /\ IsValue(option.of, x) /\ Admits(option.of, x)
  <2>1. v # <<>> /\ v[1] = x
    BY <1>2
  <2>2. PICK e \in Seq(Nat): e = Encode(option.of, x)
    BY <1>2, OptionCells
  <2>3. IsBlock(option) => e = Put(U32, x)
    BY <1>2, <2>2, OptionCells
  <2>4. PICK tag \in Nat, l \in Nat: tag = option.tag /\ l = Len(e)
    BY DEF OptionLaid
  <2>5. PICK h \in Seq(Nat): h = <<tag, l>> /\ Len(h) = 2
    <3>1. <<tag, l>> \in Seq(Nat) /\ Len(<<tag, l>>) = 2
      OBVIOUS
    <3> QED BY <3>1
  <2>6. p = <<tag, l>> \o e
    BY <2>1, <2>2, <2>4 DEF OptionBytesOf
  <2>7. p = h \o e
    BY <2>5, <2>6
  <2>8. p \in Seq(Nat) /\ Len(p) = 2 + l
    BY <2>4, <2>5, <2>7
  <2>9. p # <<>>
    BY <2>8, EmptySeq
  <2>10. IsOption(p, tag, e)
    BY <2>4, <2>6 DEF IsOption
  <2>11. IF i = k THEN tag = OptionTag.BlockMS /\ e = Put(U32, ms) ELSE tag # OptionTag.BlockMS
    BY <2>1, <2>3, <2>4 DEF IsBlock
  <2>12. OptionPart(p, k, i, ms)
    BY <2>10, <2>11 DEF OptionPart
  <2> QED BY <2>1, <2>8, <2>9, <2>12 DEF LaidOut
<1> QED BY <1>1, <1>2 DEF OptionGiven

\* The block among them: the k-th, if any.
BlockRead(options, vs, cells, k) ==
  /\ \A i \in 1..Len(options): IsBlock(options[i]) <=> i = k
  /\ BlockOption(cells) = IF k \in 1..Len(options) /\ vs[k] # <<>> THEN <<vs[k][1]>> ELSE <<>>

\* The scan of the options of a request finds its BlockMS, if it was given.
LEMMA OptionsRead ==
  ASSUME NEW op, OptionsLaid(op.options), NEW vs, OptionsGiven(op.options, vs)
  PROVE  Options(op, vs) \in Seq(Nat) /\ \E k \in Nat: BlockRead(op.options, vs, Options(op, vs), k)
<1>1. PICK options, n: options = op.options /\ n = Len(options) /\ n \in Nat
  BY DEF OptionsLaid
<1>2. PICK k \in Nat: \A i \in 1..n: IsBlock(options[i]) <=> i = k
  BY <1>1 DEF OptionsLaid
<1>3. DOMAIN vs = 1..n /\ Len(vs) = n
  BY <1>1 DEF OptionsGiven
<1>4. PICK ms \in 0..Widest(U32): k \in 1..n /\ vs[k] # <<>> => ms = vs[k][1]
  <2>1. CASE k \in 1..n /\ vs[k] # <<>>
    <3>1. OptionLaid(options[k]) /\ IsValue(options[k].of, vs[k][1]) /\ Admits(options[k].of, vs[k][1]) /\ IsBlock(options[k])
      BY <1>1, <1>2, <2>1 DEF OptionsLaid, OptionsGiven, OptionGiven
    <3>2. vs[k][1] \in 0..MAX_BLOCK_MS
      BY <3>1, OptionCells
    <3>3. vs[k][1] \in 0..Widest(U32)
      BY <3>2, Limits, Spaces
    <3> QED BY <3>3
  <2>2. CASE ~(k \in 1..n /\ vs[k] # <<>>)
    <3>1. 0 \in 0..Widest(U32)
      BY Spaces
    <3> QED BY <2>2, <3>1
  <2> QED BY <2>1, <2>2
<1>5. PICK parts: parts = [i \in 1..n |-> OptionBytesOf(options[i], vs[i])]
  OBVIOUS
<1>6. ASSUME NEW i \in 1..n
      PROVE  LaidOut(parts[i], vs[i], k, i, ms)
  <2>1. OptionLaid(options[i]) /\ (IsBlock(options[i]) <=> i = k) /\ OptionGiven(options[i], vs[i])
    BY <1>1, <1>2 DEF OptionsLaid, OptionsGiven
  <2>2. i = k /\ vs[i] # <<>> => ms = vs[i][1]
    BY <1>4
  <2>3. LaidOut(OptionBytesOf(options[i], vs[i]), vs[i], k, i, ms)
    BY <2>1, <2>2, OptionLaidOut
  <2> QED BY <1>5, <2>3
<1>7. parts \in Seq(Seq(Nat)) /\ Len(parts) = n
  <2>1. n \in Nat /\ parts \in [1..n -> Seq(Nat)]
    BY <1>1, <1>5, <1>6 DEF LaidOut
  <2> QED BY <2>1
<1>8. Options(op, vs) = FlattenSeq(parts)
  BY <1>1, <1>3, <1>5, <1>7 DEF Options
<1>9. FlattenSeq(parts) \in Seq(Nat)
  <2>1. PICK none \in Seq(Nat): none = <<>>
    BY EmptySeq
  <2>2. PICK s: Trail(s, parts, none)
    BY <1>7, TrailOf
  <2> QED BY <1>7, <2>2, Flattened
<1>10. BlockOption(FlattenSeq(parts)) = IF k \in 1..n /\ parts[k] # <<>> THEN <<ms>> ELSE <<>>
  <2>1. \A i \in 1..n: OptionPart(parts[i], k, i, ms)
    BY <1>6, <1>7 DEF LaidOut
  <2> QED BY <1>1, <1>2, <1>4, <1>7, <2>1, BlockFound
<1>11. BlockOption(FlattenSeq(parts)) = IF k \in 1..n /\ vs[k] # <<>> THEN <<vs[k][1]>> ELSE <<>>
  <2>1. k \in 1..n => (parts[k] # <<>> <=> vs[k] # <<>>)
    BY <1>6, <1>7 DEF LaidOut
  <2>2. CASE k \in 1..n /\ vs[k] # <<>>
    BY <1>4, <1>10, <2>1, <2>2
  <2>3. CASE ~(k \in 1..n /\ vs[k] # <<>>)
    BY <1>10, <2>1, <2>3
  <2> QED BY <2>2, <2>3
<1>12. BlockRead(options, vs, FlattenSeq(parts), k)
  BY <1>1, <1>2, <1>11 DEF BlockRead
<1> QED BY <1>1, <1>8, <1>9, <1>12

-----------------------------------------------------------------------------
(* A request that was not refused.                                         *)

\* The caller's arguments, and a key whose length its prefix counts.
Sent(op, args) ==
  /\ OptionsLaid(op.options) /\ IsArgs(op, args) /\ Serializable(op, args)
  /\ Len(args.key) # MAX_KEY_SIZE
\* What is known of the cells of a request that was not refused.
Written(op, args, value, options) ==
  /\ value = Encode(op.value, args.value) /\ options = Options(op, args.options)
  /\ Fits(args.namespace, args.key, value)
  /\ Countable(op.value, args.value) => RowRead(op.value, args.value, Narrowed(op.value, args.value))
  /\ OptionsGiven(op.options, args.options)
  /\ options \in Seq(Nat) /\ Len(options) <= Widest(U16)

\* A request that was not refused is written so that it can be read.
LEMMA SentIsWritten ==
  ASSUME NEW op, NEW args, Sent(op, args), NEW exact \in BOOLEAN, LaidRow(exact, op.value)
  PROVE  Written(op, args, Encode(op.value, args.value), Options(op, args.options))
<1>1. IsArgs(op, args) /\ Serializable(op, args) /\ OptionsLaid(op.options)
  BY DEF Sent
<1>2. IsValue(op.value, args.value) /\ Admits(op.value, args.value)
  BY <1>1 DEF IsArgs, Serializable
<1>3. OptionsGiven(op.options, args.options)
  <2>1. PICK options, vs, n: options = op.options /\ vs = args.options /\ n = Len(options)
    OBVIOUS
  <2>2. Len(vs) = n /\ vs = [i \in 1..n |-> vs[i]]
    BY <1>1, <2>1 DEF IsArgs
  <2>3. DOMAIN vs = 1..n
    BY <2>2
  <2>4. ASSUME NEW i \in 1..n
        PROVE  OptionGiven(options[i], vs[i])
    <3>1. vs[i] = <<>> \/ (vs[i] = <<vs[i][1]>> /\ IsValue(options[i].of, vs[i][1]))
      BY <1>1, <2>1, <2>4 DEF IsArgs
    <3>2. vs[i] # <<>> => Admits(options[i].of, vs[i][1])
      BY <1>1, <2>1, <2>3, <2>4 DEF Serializable
    <3> QED BY <3>1, <3>2 DEF OptionGiven
  <2> QED BY <2>1, <2>2, <2>4 DEF OptionsGiven
<1>4. Options(op, args.options) \in Seq(Nat) /\ Len(Options(op, args.options)) <= Widest(U16)
  BY <1>1, <1>3, OptionsRead DEF IsArgs
<1>5. Fits(args.namespace, args.key, Encode(op.value, args.value))
  <2>1. args.namespace \in Seq(Nat) /\ args.key \in Seq(Nat) /\ Encode(op.value, args.value) \in Seq(Nat)
    BY <1>1, <1>2, BodyCells DEF IsArgs
  <2>2. Len(args.namespace) <= Widest(U16)
    BY <1>1, <2>1, Spaces DEF Serializable, MAX_NAMESPACE_SIZE
  <2>3. Len(args.key) <= Widest(U16)
    BY <1>1, <2>1, Spaces, SMTT(20) DEF Serializable, Sent, MAX_KEY_SIZE
  <2>4. Len(Encode(op.value, args.value)) <= Widest(U32)
    BY <1>1, <2>1, Spaces, Limits, SMTT(20) DEF Serializable
  <2> QED BY <2>1, <2>2, <2>3, <2>4 DEF Fits
<1>6. Countable(op.value, args.value) => RowRead(op.value, args.value, Narrowed(op.value, args.value))
  BY <1>2, ReadWritten
<1> QED BY <1>3, <1>4, <1>5, <1>6 DEF Written

\* The first three fields of a request, and the fourth.
LEMMA Fourth ==
  ASSUME NEW a, NEW b, NEW c, NEW d
  PROVE  <<a, b, c>> \o <<d>> = <<a, b, c, d>> /\ Append(<<a, b, c>>, d) = <<a, b, c, d>> /\ <<a, b, c>> \o <<>> = <<a, b, c>>
<1>1. PICK S: S = {a, b, c, d}
  OBVIOUS
<1>2. a \in S /\ b \in S /\ c \in S /\ d \in S
  BY <1>1
<1>3. <<a, b, c>> \in Seq(S) /\ <<d>> \in Seq(S) /\ <<a, b, c, d>> \in Seq(S)
  BY <1>2
<1>4. PICK s \in Seq(S), t \in Seq(S), u \in Seq(S): s = <<a, b, c>> /\ t = <<d>> /\ u = <<a, b, c, d>>
  BY <1>3
<1>5. Len(u) = Len(s) + Len(t) /\ Len(s) = 3 /\ Len(t) = 1
  BY <1>4
<1>6. (\A i \in 1..Len(s): u[i] = s[i]) /\ (\A i \in 1..Len(t): u[Len(s) + i] = t[i])
  BY <1>4, <1>5
<1>7. s \o t = u
  BY <1>5, <1>6, Joined
<1>8. Append(s, d) = u
  <2>1. Append(s, d) \in Seq(S) /\ Len(Append(s, d)) = Len(u)
    BY <1>2, <1>4, <1>5
  <2>2. \A i \in 1..Len(u): Append(s, d)[i] = u[i]
    BY <1>2, <1>4, <1>5
  <2> QED BY <2>1, <2>2, SeqEqual
<1>9. s \o <<>> = s
  BY ConcatEmptySeq
<1> QED BY <1>4, <1>7, <1>8, <1>9

\* What the server reads of it: what was asked for, and of its value what it holds.
HeardAsMeant ==
  /\ Heard = Accepted(Meant, <<>>)
  /\ Countable(Op.value, call.args.value) =>
       Read(Op.value, Heard.v[3]) = Accepted(Narrowed(Op.value, call.args.value), <<>>)

\* Of a table op it reads three fields, the last one with the body.
LEMMA TableHeard ==
  ASSUME NEW value, NEW options, Written(Op, call.args, value, options), isTableOp(Op.code),
         serialized = serializeRequest(CALL, Op, call.args)
  PROVE  HeardAsMeant
<1>1. PICK op, args, a, b: op = Op /\ args = call.args /\ a = args.namespace /\ b = args.key
  OBVIOUS
<1>2. PICK v: v = <<a, b, value>>
  OBVIOUS
<1>3. /\ Fits(a, b, value) /\ value = Encode(op.value, args.value)
      /\ Countable(op.value, args.value) => RowRead(op.value, args.value, Narrowed(op.value, args.value))
  BY <1>1 DEF Written
<1>4. PayloadRead(Envelope(op.code), v, Encode(Envelope(op.code), v), value)
  BY <1>1, <1>2, <1>3, TablePayload
<1>5. serialized.code = op.code /\ serialized.payload = Encode(Envelope(op.code), v)
  BY <1>1, <1>2, <1>3 DEF serializeRequest
<1>6. Heard = Accepted(v, <<>>)
  BY <1>4, <1>5 DEF Heard, PayloadRead, RowRead
<1>7. Heard.v[3] = value
  BY <1>2, <1>6 DEF Accepted
<1>8. Countable(op.value, args.value) => Read(op.value, value) = Accepted(Narrowed(op.value, args.value), <<>>)
  BY <1>3 DEF RowRead
<1>9. Meant = v
  BY <1>1, <1>2, <1>3, Fourth DEF Meant
<1> QED BY <1>1, <1>6, <1>7, <1>8, <1>9 DEF HeardAsMeant

\* Of another op four, the last one with its options.
LEMMA PlainHeard ==
  ASSUME NEW value, NEW options, Written(Op, call.args, value, options), ~isTableOp(Op.code),
         OptionsLaid(Op.options), serialized = serializeRequest(CALL, Op, call.args)
  PROVE  HeardAsMeant
<1>1. PICK op, args, a, b: op = Op /\ args = call.args /\ a = args.namespace /\ b = args.key
  OBVIOUS
<1>2. PICK v: v = <<a, b, value, options>>
  OBVIOUS
<1>3. /\ Fits(a, b, value) /\ value = Encode(op.value, args.value)
      /\ Countable(op.value, args.value) => RowRead(op.value, args.value, Narrowed(op.value, args.value))
  BY <1>1 DEF Written
<1>4. /\ options = Options(op, args.options) /\ options \in Seq(Nat) /\ Len(options) <= Widest(U16)
      /\ OptionsGiven(op.options, args.options)
  BY <1>1 DEF Written
<1>5. PlainRead(Envelope(op.code), v, value, options)
  BY <1>1, <1>2, <1>3, <1>4, PlainPayload
<1>6. Append(<<a, b, value>>, options) = v /\ <<a, b, value>> \o <<options>> = v
  BY <1>2, Fourth
<1>7. serialized.code = op.code /\ serialized.payload = Encode(Envelope(op.code), v)
  BY <1>1, <1>3, <1>4, <1>6 DEF serializeRequest
<1>8. Heard = Accepted(v, <<>>)
  BY <1>5, <1>7 DEF Heard, PlainRead, PayloadRead, RowRead
<1>9. Heard.v[3] = value
  BY <1>2, <1>8 DEF Accepted
<1>10. Countable(op.value, args.value) => Read(op.value, value) = Accepted(Narrowed(op.value, args.value), <<>>)
  BY <1>3 DEF RowRead
<1>11. Options(op, NarrowedOptions(op.options, args.options)) = options
  BY <1>1, <1>4, OptionsNarrowed
<1>12. Meant = v
  BY <1>1, <1>3, <1>6, <1>11 DEF Meant, NarrowedOptions
<1> QED BY <1>1, <1>8, <1>9, <1>10, <1>12 DEF HeardAsMeant

\* The cells of a field that is always there: a 1, then its part.
LEMMA GivenCells ==
  ASSUME NEW of, Leaf(of), NEW v, NEW e \in Seq(Nat), e = EncodeLeaf(of, v)
  PROVE  Encode4(Given(of), v) = <<1>> \o e
<1>0. PICK f: f = Given(of)
  OBVIOUS
<1>1. f = Given(of) /\ f.kind = "given" /\ f.of = of /\ ~Leaf(f)
  BY <1>0 DEF Given, Leaf
<1>2. Inside(f, v) = <<v>> /\ Layouts(f, 1) = [i \in 1..1 |-> of] /\ Prefix(f, 1) = <<1>>
  BY <1>1 DEF Inside, Layouts, Prefix
<1>3. Encode3(of, v) = e
  BY DEF Encode3, EncodeIn
<1>4. PICK parts: parts = [i \in 1..1 |-> e]
  OBVIOUS
<1>5. parts \in Seq(Seq(Nat)) /\ Len(parts) = 1 /\ parts[1] = e
  <2>1. parts \in [1..1 -> Seq(Nat)]
    BY <1>4
  <2> QED BY <1>4, <2>1
<1>6. Encode4(f, v) = <<1>> \o FlattenSeq(parts)
  <2>1. Len(<<v>>) = 1 /\ Len([i \in 1..1 |-> of]) = 1
    OBVIOUS
  <2>2. \A i \in 1..1: [j \in 1..1 |-> of][i] = of /\ <<v>>[i] = v
    OBVIOUS
  <2>3. [i \in 1..1 |-> Encode3([j \in 1..1 |-> of][i], <<v>>[i])] = parts
    BY <1>3, <1>4, <2>2
  <2> QED BY <1>1, <1>2, <2>1, <2>3 DEF Encode4, EncodeIn
<1>7. FlattenSeq(parts) = e
  <2>1. PICK none \in Seq(Nat): none = <<>>
    BY EmptySeq
  <2>2. PICK s: Trail(s, parts, none)
    BY <1>5, TrailOf
  <2>3. FlattenSeq(parts) \in Seq(Nat) /\ s[0] = FlattenSeq(parts) \o none
    BY <1>5, <2>2, Flattened
  <2>4. 1 \in 1..1 /\ 1 - 1 = 0
    OBVIOUS
  <2>5. s[1] = none /\ s[0] = e \o none
    BY <1>5, <2>2, <2>4 DEF Trail
  <2>6. FlattenSeq(parts) \o none = FlattenSeq(parts) /\ e \o none = e
    BY <2>1, <2>3, ConcatEmptySeq
  <2> QED BY <2>3, <2>5, <2>6
<1> QED BY <1>1, <1>6, <1>7

\* The wait at the front of the body of a get.
LEMMA GetWaits ==
  ASSUME NEW f, f = Row(encodeGetBody), NEW exact \in BOOLEAN, LaidRow(exact, f),
         NEW v, IsValue(f, v), Admits(f, v), NEW e, e = Encode(f, v)
  PROVE  e \in Seq(Nat) /\ Len(e) >= 1 + U64 /\ e[1] = 1 /\ Got(U64, Tail(e)) = v[1]
<1>1. PICK g, of: g = Given(of) /\ of = Number(U64, 0, MAX_BLOCK_MS)
  OBVIOUS
<1>2. f.kind = "row" /\ f.of = encodeGetBody /\ Len(f.of) = 4 /\ f.of[1] = g /\ ~Leaf(f)
  BY <1>1 DEF Row, encodeGetBody, Leaf
<1>3. Leaf(of) /\ of.kind = "number" /\ of.width = U64 /\ of.min = 0 /\ of.max = MAX_BLOCK_MS /\ ~of.masked
  BY <1>1 DEF Leaf, Number
<1>4. g.kind = "given" /\ g.of = of /\ ~Leaf(g)
  BY <1>1 DEF Given, Leaf
<1>5. PICK ms: ms = v[1]
  OBVIOUS
<1>6. Admits4(g, ms)
  <2>1. EachInside(Admits4, f, v)
    BY <1>2 DEF Admits, AdmitsIn
  <2>2. Layouts(f, Len(v)) = f.of /\ Inside(f, v) = v
    BY <1>2 DEF Layouts, Inside
  <2>3. 1 \in 1..Len(f.of)
    BY <1>2
  <2> QED BY <1>2, <1>5, <2>1, <2>2, <2>3 DEF EachInside
<1>7. Admits3(of, ms)
  <2>1. EachInside(Admits3, g, ms)
    BY <1>4, <1>6 DEF Admits4, AdmitsIn
  <2>2. Inside(g, ms) = <<ms>> /\ Layouts(g, Len(<<ms>>)) = [i \in 1..1 |-> of]
    BY <1>4 DEF Layouts, Inside
  <2>3. Len([i \in 1..1 |-> of]) = 1 /\ 1 \in 1..1 /\ [i \in 1..1 |-> of][1] = of /\ <<ms>>[1] = ms
    OBVIOUS
  <2> QED BY <2>1, <2>2, <2>3 DEF EachInside
<1>8. ms \in 0..MAX_BLOCK_MS
  BY <1>3, <1>7 DEF Admits3, AdmitsIn, LeafAdmits
<1>9. ms \in Nat /\ ms <= Widest(U64) /\ U64 \in 0..U64
  BY <1>8, Limits, Spaces, Widths
<1>10. PICK p \in Seq(Nat): p = Put(U64, ms) /\ Len(p) = U64 /\ EncodeLeaf(of, ms) = p
  <2>1. Put(U64, ms) \in Seq(Nat) /\ Len(Put(U64, ms)) = U64
    BY <1>9, PutDigits
  <2>2. EncodeLeaf(of, ms) = Put(U64, ms)
    BY <1>3 DEF EncodeLeaf
  <2> QED BY <2>1, <2>2
<1>11. Encode4(g, ms) = <<1>> \o p
  BY <1>1, <1>3, <1>10, GivenCells
<1>12. PICK s: Trail(s, Fields(f, v), <<>>) /\ s[0] = e
  BY BodyCells
<1>13. Len(Fields(f, v)) = 4 /\ Fields(f, v)[1] = Encode4(g, ms)
  <2>1. Fields(f, v) = [i \in 1..4 |-> Encode4(f.of[i], v[i])]
    BY <1>2 DEF Fields
  <2> QED BY <1>2, <1>5, <2>1
<1>14. s[0] \in Seq(Nat) /\ s[1] \in Seq(Nat) /\ s[0] = Fields(f, v)[1] \o s[1]
  <2>1. 0 \in 0..4 /\ 1 \in 0..4 /\ 1 \in 1..4 /\ 1 - 1 = 0
    OBVIOUS
  <2> QED BY <1>12, <1>13, <2>1 DEF Trail
<1>15. PICK one \in Seq(Nat), c \in Seq(Nat): one = <<1>> /\ Len(one) = 1 /\ one[1] = 1 /\ c = s[1]
  <2>1. <<1>> \in Seq(Nat) /\ Len(<<1>>) = 1 /\ <<1>>[1] = 1
    OBVIOUS
  <2> QED BY <1>14, <2>1
<1>16. PICK t \in Seq(Nat): t = p \o c
  <2>1. p \o c \in Seq(Nat)
    OBVIOUS
  <2> QED BY <2>1
<1>17. e = one \o t
  <2>1. Associates(one, p, c)
    BY Associated
  <2> QED BY <1>11, <1>12, <1>13, <1>14, <1>15, <1>16, <2>1 DEF Associates
<1>18. PutInFront(U64, ms, t, c)
  BY <1>9, <1>10, <1>16, PutRead
<1>19. Got(U64, t) = ms /\ Len(t) >= U64
  BY <1>15, <1>18, Widths DEF PutInFront
<1>20. e \in Seq(Nat) /\ Len(e) = 1 + Len(t) /\ e[1] = 1
  BY <1>15, <1>17
<1>21. Tail(e) = t
  <2>1. InFront(one, e, t)
    BY <1>17, Fronts
  <2>2. SubSeq(e, 2, Len(e)) = t
    BY <1>15, <2>1 DEF InFront, Drop
  <2>3. Tail(e) = SubSeq(e, 2, Len(e))
    BY <1>20
  <2> QED BY <2>2, <2>3
<1>22. Len(e) >= 1 + U64
  BY <1>16, <1>19, <1>20, Widths
<1> QED BY <1>5, <1>19, <1>20, <1>21, <1>22

-----------------------------------------------------------------------------
(* How long it may be held.                                                *)

\* A table op is held as long as it asks for: a get that waits, at most.
LEMMA TableHeld ==
  ASSUME NEW value, NEW options, Written(Op, call.args, value, options), isTableOp(Op.code),
         serialized = serializeRequest(CALL, Op, call.args), Op.options = <<>>,
         Op.code = "KVGet" => Op.value = Row(encodeGetBody),
         IsArgs(Op, call.args), Serializable(Op, call.args), NEW exact \in BOOLEAN, LaidRow(exact, Op.value)
  PROVE  requestBlockMs(serialized) = AskedBlockMs
<1>1. PICK op, args, a, b: op = Op /\ args = call.args /\ a = args.namespace /\ b = args.key
  OBVIOUS
<1>2. PICK v: v = <<a, b, value>>
  OBVIOUS
<1>3. Fits(a, b, value) /\ value = Encode(op.value, args.value)
  BY <1>1 DEF Written
<1>4. PayloadRead(Envelope(op.code), v, Encode(Envelope(op.code), v), value)
  BY <1>1, <1>2, <1>3, TablePayload
<1>5. serialized.code = op.code /\ serialized.payload = Encode(Envelope(op.code), v)
  BY <1>1, <1>2, <1>3 DEF serializeRequest
<1>6. v[1] = a /\ v[2] = b
  BY <1>2
<1>7. Past(U16, Past(U16, serialized.payload)) = value
  BY <1>3, <1>4, <1>5, <1>6, PastOpening DEF PayloadRead
<1>8. CASE Op.code = "KVGet"
  <2>1. op.value = Row(encodeGetBody) /\ IsValue(op.value, args.value) /\ Admits(op.value, args.value)
    BY <1>1, <1>8 DEF IsArgs, Serializable
  <2>2. LaidRow(exact, op.value)
    BY <1>1
  <2>3. value \in Seq(Nat) /\ Len(value) >= 1 + U64 /\ value[1] = 1 /\ Got(U64, Tail(value)) = args.value[1]
    BY <1>3, <2>1, <2>2, GetWaits
  <2>4. ~(Len(value) < 1 + U64)
    BY <2>3, Widths
  <2>5. requestBlockMs(serialized) = Got(U64, Tail(value))
    BY <1>1, <1>5, <1>7, <1>8, <2>3, <2>4 DEF requestBlockMs
  <2>6. AskedBlockMs = args.value[1]
    BY <1>1, <1>8 DEF AskedBlockMs
  <2> QED BY <2>3, <2>5, <2>6
<1>9. CASE Op.code # "KVGet"
  <2>1. requestBlockMs(serialized) = 0
    BY <1>1, <1>5, <1>9 DEF requestBlockMs
  <2>2. Op.code # "ActionAwait"
    BY DEF isTableOp, TableOps
  <2>3. {call.args.options[i][1]: i \in
            {j \in DOMAIN Op.options: Op.options[j].tag = OptionTag.BlockMS /\ call.args.options[j] # <<>>}} = {}
    <3>1. DOMAIN Op.options = {}
      OBVIOUS
    <3> QED BY <3>1
  <2>4. AskedBlockMs = 0
    BY <1>9, <2>2, <2>3 DEF AskedBlockMs
  <2> QED BY <2>1, <2>4
<1> QED BY <1>8, <1>9

\* Another op is held as long as its BlockMS says.
LEMMA PlainHeld ==
  ASSUME NEW value, NEW options, Written(Op, call.args, value, options), ~isTableOp(Op.code),
         serialized = serializeRequest(CALL, Op, call.args), OptionsLaid(Op.options)
  PROVE  requestBlockMs(serialized) = AskedBlockMs
<1>1. PICK op, args, a, b, vs: op = Op /\ args = call.args /\ a = args.namespace /\ b = args.key /\ vs = args.options
  OBVIOUS
<1>2. PICK v: v = <<a, b, value, options>>
  OBVIOUS
<1>3. Fits(a, b, value) /\ value = Encode(op.value, args.value)
  BY <1>1 DEF Written
<1>4. /\ options = Options(op, vs) /\ options \in Seq(Nat) /\ Len(options) <= Widest(U16)
      /\ OptionsGiven(op.options, vs)
  BY <1>1 DEF Written
<1>5. PICK t \in Seq(Nat): /\ PayloadRead(Envelope(op.code), v, Encode(Envelope(op.code), v), t)
                           /\ t = Sealed(U32, value) \o Sealed(U16, options)
  <2>1. PlainRead(Envelope(op.code), v, value, options)
    BY <1>1, <1>2, <1>3, <1>4, PlainPayload
  <2> QED BY <2>1 DEF PlainRead
<1>6. Append(<<a, b, value>>, options) = v /\ v[1] = a /\ v[2] = b
  BY <1>2, Fourth
<1>7. serialized.code = op.code /\ serialized.payload = Encode(Envelope(op.code), v)
  BY <1>1, <1>3, <1>4, <1>6 DEF serializeRequest
<1>8. Past(U16, Past(U16, serialized.payload)) = t
  BY <1>3, <1>5, <1>6, <1>7, PastOpening DEF PayloadRead
<1>9. PICK found: found = Past(U32, t)
  OBVIOUS
<1>10. OptionsFound(options, found)
  BY <1>3, <1>4, <1>5, <1>9, PastValue DEF Fits
<1>11. ~(Len(found) < U16) /\ ~(U16 + Got(U16, found) < Len(found)) /\ SubSeq(found, U16 + 1, Len(found)) = options
  BY <1>10, Widths DEF OptionsFound
<1>12. PICK k \in Nat: BlockRead(op.options, vs, options, k)
  BY <1>1, <1>4, OptionsRead
<1>13. PICK n, block: n = Len(op.options) /\ block = BlockOption(options)
  OBVIOUS
<1>14. /\ \A i \in 1..n: IsBlock(op.options[i]) <=> i = k
       /\ block = IF k \in 1..n /\ vs[k] # <<>> THEN <<vs[k][1]>> ELSE <<>>
  BY <1>12, <1>13 DEF BlockRead
<1>15. requestBlockMs(serialized) = IF block # <<>> THEN block[1] ELSE IF op.code = "ActionAwait" THEN AWAIT_BLOCK_MS ELSE 0
  BY <1>1, <1>7, <1>8, <1>9, <1>11, <1>13 DEF requestBlockMs
<1>16. Op.code # "KVGet"
  BY DEF isTableOp, TableOps
<1>17. PICK blocks: blocks = {call.args.options[i][1]: i \in
            {j \in DOMAIN Op.options: Op.options[j].tag = OptionTag.BlockMS /\ call.args.options[j] # <<>>}}
  OBVIOUS
<1>18. AskedBlockMs = IF blocks # {} THEN CHOOSE ms \in blocks: TRUE ELSE IF op.code = "ActionAwait" THEN AWAIT_BLOCK_MS ELSE 0
  BY <1>1, <1>16, <1>17 DEF AskedBlockMs
<1>19. {j \in DOMAIN Op.options: Op.options[j].tag = OptionTag.BlockMS /\ call.args.options[j] # <<>>}
         = {j \in 1..n: j = k /\ vs[k] # <<>>}
  BY <1>1, <1>13, <1>14 DEF OptionsLaid, IsBlock
<1>20. CASE k \in 1..n /\ vs[k] # <<>>
  <2>1. blocks = {vs[k][1]}
    BY <1>1, <1>17, <1>19, <1>20
  <2>2. (CHOOSE ms \in blocks: TRUE) = vs[k][1]
    BY <2>1
  <2>3. block # <<>> /\ block[1] = vs[k][1]
    BY <1>14, <1>20
  <2> QED BY <1>15, <1>18, <2>1, <2>2, <2>3
<1>21. CASE ~(k \in 1..n /\ vs[k] # <<>>)
  <2>1. blocks = {}
    BY <1>17, <1>19, <1>21
  <2>2. block = <<>>
    BY <1>14, <1>21
  <2> QED BY <1>15, <1>18, <2>1, <2>2
<1> QED BY <1>20, <1>21

-----------------------------------------------------------------------------
(* What is read of an answer.                                              *)

\* A reader that was given a field whole was given its first cells.
LEMMA FieldLeast ==
  ASSUME NEW least \in Nat, NEW f, Needs(least, f), NEW e, NEW v, Carried(e, Reader(Read4, f), v)
  PROVE  Len(e) >= least
<1>1. e \in Seq(Nat) /\ e \o <<>> = e /\ <<>> \in Seq(Nat)
  BY ConcatEmptySeq, EmptySeq DEF Carried
<1>2. Reader(Read4, f)[e] = Accepted(v, <<>>)
  BY <1>1 DEF Carried
<1>3. Read4(f, e) = Accepted(v, <<>>)
  BY <1>1, <1>2 DEF Reader
<1>4. Read4(f, e).ok /\ ~Refused(e).ok
  BY <1>3 DEF Accepted, Refused
<1>5. f.width \in Nat /\ least <= f.width
  BY DEF Needs
<1>6. CASE f.kind = "number"
  <2>1. Leaf(f) /\ Read4(f, e) = ReadLeaf(f, e)
    BY <1>6, AtTheTop DEF Leaf
  <2>2. Len(e) < f.width => ReadLeaf(f, e) = Refused(e)
    BY <1>6 DEF ReadLeaf, ReadNumber
  <2> QED BY <1>1, <1>4, <1>5, <2>1, <2>2
<1>7. CASE f.kind = "text"
  <2>1. Leaf(f) /\ Read4(f, e) = ReadLeaf(f, e)
    BY <1>7, AtTheTop DEF Leaf
  <2>2. Len(e) < f.width => ReadLeaf(f, e) = Refused(e)
    BY <1>7 DEF ReadLeaf, ReadText
  <2> QED BY <1>1, <1>4, <1>5, <2>1, <2>2
<1>8. CASE f.kind = "list" /\ f.how \in {"counted", "lax"}
  <2>1. ~Leaf(f) /\ f.how # "one"
    BY <1>8 DEF Leaf
  <2>2. Len(e) < f.width => ReadPrefix(f, e) = Refused(e)
    BY <1>8, <2>1 DEF ReadPrefix
  <2>3. ~ReadPrefix(f, e).ok => Read4(f, e) = ReadPrefix(f, e)
    BY <2>1 DEF Read4, ReadIn
  <2> QED BY <1>1, <1>4, <1>5, <2>2, <2>3
<1> QED BY <1>6, <1>7, <1>8 DEF Needs

\* What the server sends of a value.
LEMMA AnswerWritten ==
  ASSUME NEW exact \in BOOLEAN, NEW a, AnswerLaid(exact, a), NEW v, IsAnswer(a, v)
  PROVE  RowRead(a.fields, v, v) /\ Len(Encode(a.fields, v)) >= a.least
<1>1. PICK f, least: f = a.fields /\ least = a.least
  OBVIOUS
<1>2. /\ LaidRow(exact, f) /\ least \in Nat /\ IsValue(f, v) /\ Admits(f, v)
      /\ Countable(f, v) /\ v = Narrowed(f, v)
  BY <1>1 DEF AnswerLaid, IsAnswer
<1>3. RowRead(f, v, v)
  <2>1. RowRead(f, v, Narrowed(f, v))
    BY <1>2, ReadWritten
  <2> QED BY <1>2, <2>1
<1>4. PICK e \in Seq(Nat): e = Encode(f, v)
  BY <1>3 DEF RowRead
<1>5. CASE least = 0
  BY <1>1, <1>3, <1>4, <1>5
<1>6. CASE Len(f.of) >= 1 /\ Needs(least, f.of[1])
  <2>1. Len(f.of) \in Nat /\ v = [i \in 1..Len(f.of) |-> v[i]] /\ FieldsCarried(f, v, v)
    BY <1>2, FieldsAre
  <2>2. 1 \in 1..Len(f.of)
    BY <1>6, <2>1
  <2>3. f.of[1].kind # "rest"
    BY <1>6 DEF Needs
  <2>4. PICK x: x = Encode4(f.of[1], v[1])
    OBVIOUS
  <2>5. Carried(x, Reader(Read4, f.of[1]), v[1])
    BY <2>1, <2>2, <2>3, <2>4 DEF FieldsCarried
  <2>6. Len(x) >= least
    BY <1>2, <1>6, <2>5, FieldLeast
  <2>7. PICK s: Trail(s, Fields(f, v), <<>>) /\ s[0] = e
    BY <1>3, <1>4 DEF RowRead
  <2>8. Len(Fields(f, v)) = Len(f.of) /\ Fields(f, v)[1] = x
    BY <2>1, <2>2, <2>4 DEF Fields
  <2>9. s[1] \in Seq(Nat) /\ s[0] = x \o s[1]
    <3>1. 1 \in 0..Len(f.of) /\ 1 - 1 = 0
      BY <2>1, <2>2
    <3> QED BY <2>2, <2>7, <2>8, <3>1 DEF Trail
  <2>10. x \in Seq(Nat)
    BY <2>5 DEF Carried
  <2>11. Len(e) >= least
    BY <1>2, <2>6, <2>7, <2>9, <2>10
  <2> QED BY <1>1, <1>3, <1>4, <2>11
<1> QED BY <1>1, <1>5, <1>6 DEF AnswerLaid

\* What is read of it.
LEMMA AnswerRead ==
  ASSUME NEW exact \in BOOLEAN, NEW a, AnswerLaid(exact, a), NEW v, IsAnswer(a, v)
  PROVE  Decoded(a, Encode(a.fields, v)) = IF a.check = "paged" /\ ~Paged(v) THEN Malformed ELSE Value(v)
<1>1. PICK f, e, r: f = a.fields /\ e = Encode(f, v) /\ r = Read(a.fields, e)
  OBVIOUS
<1>2. RowRead(f, v, v) /\ Len(e) >= a.least
  BY <1>1, AnswerWritten
<1>3. r = Accepted(v, <<>>) /\ e \in Seq(Nat)
  BY <1>1, <1>2 DEF RowRead
<1>4. r.ok /\ r.v = v /\ r.rest = <<>>
  BY <1>3 DEF Accepted
<1>5. ~(Len(e) < a.least)
  BY <1>2, <1>3 DEF AnswerLaid
<1>6. Decoded(a, e) = IF a.check = "paged" /\ ~Paged(r.v) THEN Malformed ELSE Value(r.v)
  BY <1>1, <1>4, <1>5 DEF Decoded, Judged
<1> QED BY <1>1, <1>4, <1>6

\* Of what it sends instead, the front is what was read, and all of it when
\* no cell may be left over.
ReadInFront(a, body, v) ==
  IsPrefix(Encode(a.fields, v), body) /\ (a.whole => Encode(a.fields, v) = body)

\* A body that an exact reader takes begins with what it read, written again.
LEMMA FrontRead ==
  ASSUME NEW exact \in BOOLEAN, exact, NEW a, AnswerLaid(exact, a), NEW body \in Seq(Byte),
         Len(body) >= a.least, Decoded(a, body).is = "value"
  PROVE  ReadInFront(a, body, Decoded(a, body).v)
<1>1. PICK f, r: f = a.fields /\ r = Read(a.fields, body)
  OBVIOUS
<1>2. ~(Len(body) < a.least)
  BY DEF AnswerLaid
<1>3. Malformed.is # "value"
  BY DEF Malformed
<1>4. r.ok /\ (a.whole => r.rest = <<>>) /\ Decoded(a, body) = Value(r.v)
  BY <1>1, <1>2, <1>3 DEF Decoded, Judged
<1>5. Decoded(a, body).v = r.v
  BY <1>4 DEF Value
<1>6. ExactRow(f)
  <2>1. LaidRow(exact, f) /\ exact = TRUE
    BY <1>1 DEF AnswerLaid
  <2> QED BY <2>1 DEF LaidRow, ExactRow
<1>7. Recovered(Read(f, body), Encode(f, Read(f, body).v), body)
  BY <1>1, <1>4, <1>6, WrittenRead
<1>8. PICK e \in Seq(Nat), rest \in Seq(Nat): e = Encode(f, r.v) /\ rest = r.rest /\ body = e \o rest
  <2>1. r.rest \in Seq(Byte) /\ Encode(f, r.v) \in Seq(Nat) /\ body = Encode(f, r.v) \o r.rest
    BY <1>1, <1>7 DEF Recovered
  <2>2. r.rest \in Seq(Nat)
    BY <2>1, BytesAreCells
  <2> QED BY <2>1, <2>2
<1>9. IsPrefix(e, body)
  <2>1. InFront(e, body, rest)
    BY <1>8, Fronts
  <2>2. Len(e) <= Len(body) /\ SubSeq(body, 1, Len(e)) = e
    BY <2>1 DEF InFront
  <2>3. SubSeq(e, 1, Len(e)) = e
    OBVIOUS
  <2> QED BY <2>2, <2>3 DEF IsPrefix
<1>10. a.whole => e = body
  BY <1>4, <1>8, ConcatEmptySeq
<1> QED BY <1>1, <1>5, <1>8, <1>9, <1>10 DEF ReadInFront

\* A body that a value was written in is read whole.
LEMMA WholeRead ==
  ASSUME NEW exact \in BOOLEAN, NEW a, AnswerLaid(exact, a), NEW v, IsAnswer(a, v)
  PROVE  ReadInFront(a, Encode(a.fields, v), v)
<1>1. PICK e \in Seq(Nat): e = Encode(a.fields, v)
  BY AnswerWritten DEF RowRead
<1>2. IsPrefix(e, e)
  BY DEF IsPrefix
<1> QED BY <1>1, <1>2 DEF ReadInFront

-----------------------------------------------------------------------------
(* What is read of a refusal.                                              *)

refusal == Row(<<Number(U16, 1, 30), Number(U8, 0, 2), Rest>>)

\* A refusal begins with its reason and whether the request ran.
RefusalIs(body, v) ==
  v[1] = Got(U16, body) /\ Put(U16, v[1]) \o <<v[2]>> = SubSeq(body, 1, 3)

\* Two cells, and the next one.
ThreeCells(p, c) == p \o <<c[1]>> = SubSeq(p \o c, 1, 3)

\* c comes after p in b.
Behind(p, b, c) == \A i \in 1..Len(c): b[Len(p) + i] = c[i]

\* What comes after what was put in front.
LEMMA Backs ==
  ASSUME NEW p \in Seq(Nat), NEW c \in Seq(Nat), NEW b, b = p \o c
  PROVE  Behind(p, b, c)
BY DEF Behind

\* The first three cells.
LEMMA FirstThree ==
  ASSUME NEW p \in Seq(Nat), Len(p) = 2, NEW c \in Seq(Nat), Len(c) >= 1
  PROVE  ThreeCells(p, c)
<1>1. 1 \in 1..Len(c) /\ c[1] \in Nat
  <2>1. 1 \in 1..Len(c)
    OBVIOUS
  <2> QED BY <2>1, ElementOfSeq
<1>2. PICK q \in Seq(Nat): q = <<c[1]>> /\ Len(q) = 1 /\ q[1] = c[1]
  <2>1. <<c[1]>> \in Seq(Nat) /\ Len(<<c[1]>>) = 1 /\ <<c[1]>>[1] = c[1]
    BY <1>1
  <2> QED BY <2>1
<1>3. PICK d, u: d = p \o c /\ u = p \o q
  OBVIOUS
<1>4. InFront(p, d, c) /\ InFront(p, u, q)
  BY <1>3, Fronts
<1>5. /\ d \in Seq(Nat) /\ Len(d) = 2 + Len(c) /\ d[2 + 1] = c[1] /\ \A i \in 1..2: d[i] = p[i]
      /\ u \in Seq(Nat) /\ Len(u) = 2 + 1 /\ u[2 + 1] = q[1] /\ \A i \in 1..2: u[i] = p[i]
  <2>1. d[Len(p) + 1] = c[1] /\ u[Len(p) + 1] = q[1]
    <3>1. Behind(p, d, c) /\ Behind(p, u, q)
      BY <1>3, Backs
    <3>2. 1 \in 1..Len(c) /\ 1 \in 1..Len(q)
      BY <1>1, <1>2
    <3> QED BY <3>1, <3>2 DEF Behind
  <2> QED BY <1>2, <1>4, <2>1 DEF InFront
<1>6. PICK n \in Nat: n = 3 /\ n <= Len(d)
  BY <1>5
<1>7. PICK t: t = SubSeq(d, 1, n)
  OBVIOUS
<1>8. t \in Seq(Nat) /\ Len(t) = n /\ \A i \in 1..n: t[i] = d[i]
  <2>1. d \in Seq(Nat)
    BY <1>5
  <2>2. PICK m \in Nat: m = n /\ m <= Len(d)
    BY <1>6
  <2>3. SubSeq(d, 1, m) \in Seq(Nat) /\ Len(SubSeq(d, 1, m)) = m /\ \A i \in 1..m: SubSeq(d, 1, m)[i] = d[i]
    BY <2>1, <2>2, Parted, SMTT(20)
  <2> QED BY <1>7, <2>2, <2>3
<1>9. \A i \in 1..n: u[i] = t[i]
  <2>1. \A i \in 1..n: i \in 1..2 \/ i = 2 + 1
    BY <1>6
  <2> QED BY <1>2, <1>5, <1>8, <2>1
<1>10. Len(u) = n
  BY <1>5, <1>6
<1>11. u = t
  <2>1. u \in Seq(Nat) /\ t \in Seq(Nat) /\ Len(u) = Len(t)
    BY <1>5, <1>8, <1>10
  <2>2. \A i \in 1..Len(u): u[i] = t[i]
    BY <1>9, <1>10
  <2> QED BY <2>1, <2>2, SeqEqual
<1> QED BY <1>2, <1>3, <1>6, <1>7, <1>11 DEF ThreeCells

\* A refusal that was read begins with its reason and whether the request ran.
LEMMA RefusalRead ==
  ASSUME NEW body \in Seq(Byte), Read(refusal, body).ok
  PROVE  RefusalIs(body, Read(refusal, body).v)
<1>1. PICK f: f = refusal
  OBVIOUS
<1>2. PICK a, b: a = Number(U16, 1, 30) /\ b = Number(U8, 0, 2)
  OBVIOUS
<1>3. f.kind = "row" /\ Len(f.of) = 3 /\ f.of[1] = a /\ f.of[2] = b /\ f.of[3] = Rest /\ ~Leaf(f)
  BY <1>1, <1>2 DEF refusal, Row, Leaf
<1>4. /\ a.kind = "number" /\ a.width = U16 /\ b.kind = "number" /\ b.width = U8 /\ Rest.kind = "rest"
      /\ Leaf(a) /\ Leaf(b) /\ Leaf(Rest)
  BY <1>2 DEF Number, Rest, Leaf
<1>5. U16 \in 1..U64 /\ U8 \in 1..U64 /\ U16 \in 0..U64 /\ U8 \in 0..U64 /\ U16 = 2 /\ U8 = 1
  BY Widths
<1>6. ExactRow(f) /\ Shaped(TRUE, f)
  <2>1. \A i \in 1..Len(f.of): f.of[i].kind = "rest" \/ (f.of[i].kind = "number" /\ f.of[i].width \in 1..U64)
    <3>1. ASSUME NEW i \in 1..3
          PROVE  f.of[i].kind = "rest" \/ (f.of[i].kind = "number" /\ f.of[i].width \in 1..U64)
      <4>1. i = 1 \/ i = 2 \/ i = 3
        OBVIOUS
      <4> QED BY <1>3, <1>4, <1>5, <4>1
    <3> QED BY <1>3, <3>1
  <2>2. Len(f.of) \in Nat /\ f.kind = "row"
    BY <1>3
  <2> QED BY <2>1, <2>2 DEF ExactRow, Shaped
<1>7. PICK readers: readers = [i \in 1..3 |-> [x \in Seq(Nat) |-> Read4(f.of[i], x)]]
  OBVIOUS
<1>8. body \in Seq(Nat)
  BY BytesAreCells
<1>9. PICK r: r = Read(f, body) /\ r.ok
  BY <1>1
<1>10. r = ReadParts(f, readers, body)
  <2>1. ReadPrefix(f, body) = Accepted(3, body) /\ Layouts(f, 3) = f.of
    BY <1>3 DEF ReadPrefix, Layouts
  <2>2. Accepted(3, body).ok /\ Accepted(3, body).v = 3 /\ Accepted(3, body).rest = body
    BY DEF Accepted
  <2>3. [i \in 1..Len(f.of) |-> [x \in Seq(Nat) |-> Read4(f.of[i], x)]] = readers
    BY <1>3, <1>7
  <2> QED BY <1>3, <1>9, <2>1, <2>2, <2>3 DEF Read, ReadIn
<1>11. Len(readers) = 3
  BY <1>7
<1>12. ASSUME NEW i \in 1..3, NEW x \in Seq(Byte), readers[i][x].ok
       PROVE  readers[i][x] = Read4(f.of[i], x) /\ Recovered(readers[i][x], Encode4(f.of[i], readers[i][x].v), x)
  <2>1. x \in Seq(Nat)
    BY BytesAreCells
  <2>2. readers[i][x] = Read4(f.of[i], x)
    BY <1>7, <2>1
  <2>3. Read4(f.of[i], x).ok
    BY <1>12, <2>2
  <2>4. i \in 1..Len(f.of)
    BY <1>3
  <2>5. Recovered(Read4(f.of[i], x), Encode4(f.of[i], Read4(f.of[i], x).v), x)
    BY <1>6, <2>3, <2>4, FieldIsRecovered DEF ExactRow
  <2> QED BY <2>2, <2>5
<1>13. \A i \in 1..3: Leaves(readers[i])
  BY <1>12 DEF Leaves, Recovered
<1>14. PICK n \in Nat: n = 3
  OBVIOUS
<1>15. f.kind = "given" => n = 1
  BY <1>3
<1>16. PICK s, vs: FieldReading(f, n, body, readers, s, vs)
  BY <1>3, <1>6, <1>9, <1>10, <1>11, <1>13, <1>14, <1>15, FieldReadings
<1>17. /\ s[0] = body /\ s[1] \in Seq(Byte) /\ readers[1][s[0]].ok /\ s[1] = readers[1][s[0]].rest
       /\ readers[2][s[1]].ok /\ vs[1] = readers[1][s[0]].v /\ vs[2] = readers[2][s[1]].v
       /\ Whole(f, vs) = vs /\ r = Accepted(vs, s[3])
  <2>1. 1 \in 0..3 /\ 1 \in 1..3 /\ 2 \in 1..3 /\ 1 - 1 = 0 /\ 2 - 1 = 1
    OBVIOUS
  <2>2. Whole(f, vs) = vs
    BY <1>3 DEF Whole
  <2> QED BY <1>10, <1>14, <1>16, <2>1, <2>2 DEF FieldReading, Readings
<1>18. readers[1][body] = ReadNumber(a, body) /\ readers[2][s[1]] = ReadNumber(b, s[1])
  <2>1. 1 \in 1..3 /\ 2 \in 1..3
    OBVIOUS
  <2>2. readers[1][body] = Read4(a, body) /\ readers[2][s[1]] = Read4(b, s[1])
    BY <1>3, <1>12, <1>17, <2>1
  <2>3. Read4(a, body) = ReadLeaf(a, body) /\ Read4(b, s[1]) = ReadLeaf(b, s[1])
    BY <1>4, AtTheTop
  <2> QED BY <1>4, <2>2, <2>3 DEF ReadLeaf
<1>19. Len(body) >= 2 /\ vs[1] = Got(U16, body) /\ s[1] = Drop(U16, body)
  BY <1>4, <1>5, <1>8, <1>17, <1>18 DEF ReadNumber, Accepted, Refused
<1>20. Len(s[1]) >= 1 /\ vs[2] = Got(U8, s[1])
  BY <1>4, <1>5, <1>17, <1>18 DEF ReadNumber, Accepted, Refused
<1>21. Got(U8, s[1]) = s[1][1]
  <2>1. \A i \in 1..U8: s[1][i] \in Nat
    <3>1. PICK left: left = s[1]
      OBVIOUS
    <3>2. left \in Seq(Nat) /\ Len(left) >= 1
      BY <1>17, <1>20, <3>1, BytesAreCells
    <3>3. ASSUME NEW i \in 1..U8 PROVE i \in 1..Len(left)
      BY <1>5, <3>2
    <3> QED BY <3>1, <3>2, <3>3, ElementOfSeq
  <2>2. PICK g: Numbered(U8, s[1], g)
    BY <1>5, <2>1, GotOf
  <2>3. g[0] = 0 /\ g[1] = s[1][1] + RADIX * g[0] /\ Got(U8, s[1]) = g[1]
    BY <1>5, <2>2 DEF Numbered
  <2>4. s[1][1] \in Nat /\ RADIX \in Nat
    BY <1>5, <2>1, Radix
  <2> QED BY <2>3, <2>4
<1>22. PICK p \in Seq(Nat): p = Put(U16, vs[1]) /\ Len(p) = 2 /\ body = p \o s[1]
  <2>1. /\ Got(U16, body) \in Nat /\ Put(U16, Got(U16, body)) \in Seq(Nat)
        /\ body = Put(U16, Got(U16, body)) \o Drop(U16, body)
    BY <1>5, <1>19, PutReadBack
  <2>2. Len(Put(U16, Got(U16, body))) = 2
    BY <1>5, <2>1, PutDigits
  <2> QED BY <1>19, <2>1, <2>2
<1>23. p \o <<vs[2]>> = SubSeq(body, 1, 3)
  <2>1. PICK c \in Seq(Nat): c = s[1] /\ Len(c) >= 1 /\ vs[2] = c[1]
    BY <1>17, <1>20, <1>21, BytesAreCells
  <2>2. ThreeCells(p, c)
    BY <1>22, <2>1, FirstThree
  <2> QED BY <1>22, <2>1, <2>2 DEF ThreeCells
<1>24. r.v = vs
  BY <1>17 DEF Accepted
<1> QED BY <1>1, <1>9, <1>19, <1>22, <1>23, <1>24 DEF RefusalIs

-----------------------------------------------------------------------------
(* The states of an exchange.                                              *)

\* An answer is a value the server knows, another body, or a refusal.
Answered(op, args, a) ==
  \/ /\ a.status = OK /\ a.flags \in 0..2
     /\ \E v \in Values(op, args):
          a.body = Encode(op.answer.fields, v) /\ a.value = IF a.flags < 2 THEN <<v>> ELSE <<>>
  \/ a.status = OK /\ a.flags = 0 /\ a.body \in Bodies(op, args) /\ a.value = <<>>
  \/ a.status \in {NotFound, Conflict} /\ a.flags \in 0..1 /\ a.body \in Refusals(op, args)

\* What the caller passed is what was serialized, unless it was refused, and
\* what came back is an answer to it.
ExchangeInv ==
  /\ call.op \in DOMAIN Operations /\ call.args \in Tried(Op)
  /\ stage \in {"sent", "answered"} =>
       Serializable(Op, call.args) /\ serialized = serializeRequest(CALL, Op, call.args)
  /\ stage = "answered" => Answered(Op, call.args, answer)

\* So it is before the call.
LEMMA ExchangeBegins ==
  ASSUME ExchangeInit
  PROVE  ExchangeInv
<1>1. stage = "call"
  BY DEF ExchangeInit, Begins
<1>2. call.op \in DOMAIN Operations /\ call.args \in Tried(Op)
  <2>1. PICK i \in DOMAIN Operations: \E args \in Tried(Operations[i]): call = [op |-> i, args |-> args]
    BY DEF ExchangeInit
  <2>2. PICK args \in Tried(Operations[i]): call = [op |-> i, args |-> args]
    BY <2>1
  <2>3. call.op = i /\ call.args = args
    BY <2>2
  <2> QED BY <2>2, <2>3 DEF Op
<1> QED BY <1>1, <1>2 DEF ExchangeInv

\* And after each step.
LEMMA ExchangeStep ==
  ASSUME ExchangeInv, [ExchangeNext]_exchangeVars
  PROVE  ExchangeInv'
<1>1. CASE call' = call
  <2>1. Op' = Op
    BY <1>1 DEF Op
  <2>2. call'.op \in DOMAIN Operations /\ call'.args \in Tried(Op')
    BY <1>1, <2>1 DEF ExchangeInv
  <2>3. CASE Call
    <3>1. stage' # "answered" /\ (stage' = "sent" => Serializable(Op, call.args) /\ serialized' = serializeRequest(CALL, Op, call.args))
      BY <2>3 DEF Call
    <3> QED BY <1>1, <2>1, <2>2, <3>1 DEF ExchangeInv
  <2>4. ASSUME NEW status, NEW flags, NEW body, NEW value, AnswersWith(status, flags, body, value),
               Answered(Op, call.args, [status |-> status, flags |-> flags, body |-> body, value |-> value])
        PROVE  ExchangeInv'
    <3>1. /\ stage = "sent" /\ serialized' = serialized
          /\ answer' = [status |-> status, flags |-> flags, body |-> body, value |-> value]
      BY <2>4 DEF AnswersWith
    <3>2. Serializable(Op, call.args) /\ serialized' = serializeRequest(CALL, Op, call.args)
      BY <3>1 DEF ExchangeInv
    <3>3. Answered(Op, call.args, answer')
      BY <2>4, <3>1
    <3> QED BY <1>1, <2>1, <2>2, <3>2, <3>3 DEF ExchangeInv
  <2>5. CASE ServerAnswers
    <3>1. PICK v \in Values(Op, call.args), flags \in 0..2:
            AnswersWith(OK, flags, Encode(Op.answer.fields, v), IF flags < 2 THEN <<v>> ELSE <<>>)
      BY <2>5 DEF ServerAnswers
    <3>2. PICK body, value: body = Encode(Op.answer.fields, v) /\ value = IF flags < 2 THEN <<v>> ELSE <<>>
      OBVIOUS
    <3>3. PICK a: a = [status |-> OK, flags |-> flags, body |-> body, value |-> value]
      OBVIOUS
    <3>4. a.status = OK /\ a.flags = flags /\ a.body = body /\ a.value = value
      BY <3>3
    <3>5. Answered(Op, call.args, a)
      BY <3>2, <3>4 DEF Answered
    <3> QED BY <2>4, <3>1, <3>2, <3>3, <3>5
  <2>6. CASE ServerAnswersBadly
    <3>1. PICK b \in Bodies(Op, call.args): AnswersWith(OK, 0, b, <<>>)
      BY <2>6 DEF ServerAnswersBadly
    <3>2. PICK a: a = [status |-> OK, flags |-> 0, body |-> b, value |-> <<>>]
      OBVIOUS
    <3>3. a.status = OK /\ a.flags = 0 /\ a.body = b /\ a.value = <<>>
      BY <3>2
    <3>4. Answered(Op, call.args, a)
      BY <3>3 DEF Answered
    <3> QED BY <2>4, <3>1, <3>2, <3>4
  <2>7. CASE ServerRefuses
    <3>1. PICK status \in {NotFound, Conflict}, flags \in 0..1, b \in Refusals(Op, call.args):
            AnswersWith(status, flags, b, <<>>)
      BY <2>7 DEF ServerRefuses
    <3>2. PICK a: a = [status |-> status, flags |-> flags, body |-> b, value |-> <<>>]
      OBVIOUS
    <3>3. a.status = status /\ a.flags = flags /\ a.body = b
      BY <3>2
    <3>4. Answered(Op, call.args, a)
      BY <3>3 DEF Answered
    <3> QED BY <2>4, <3>1, <3>2, <3>4
  <2>8. CASE UNCHANGED exchangeVars
    <3>1. stage' = stage /\ serialized' = serialized /\ answer' = answer
      BY <2>8 DEF exchangeVars
    <3> QED BY <1>1, <2>1, <2>2, <3>1 DEF ExchangeInv
  <2> QED BY <2>3, <2>5, <2>6, <2>7, <2>8 DEF ExchangeNext
<1> QED BY <1>1 DEF ExchangeNext, Call, ServerAnswers, ServerAnswersBadly, ServerRefuses, AnswersWith, exchangeVars

\* What a request was serialized from, and what it was answered, is known
\* of every exchange (Call and the answers of the server).
THEOREM ExchangeSafe == ExchangeSpec => []ExchangeInv
BY ExchangeBegins, ExchangeStep, PTL DEF ExchangeSpec

-----------------------------------------------------------------------------
(* What they say of the properties.                                        *)

\* Of the operation called, in any state.
LEMMA CallLaid ==
  ASSUME ExchangeInv, NEW exact \in BOOLEAN, NEW lax, lax = FALSE
  PROVE  /\ OperationLaid(exact, lax, Op) /\ IsArgs(Op, call.args)
         /\ \A v \in Values(Op, call.args): IsAnswer(Op.answer, v)
         /\ \A b \in Bodies(Op, call.args) \cup Refusals(Op, call.args): b \in Seq(Byte)
BY OperationsLaid, InputsAssumption DEF ExchangeInv, Op

\* The key is not of the one length that the check of serializeRequest lets
\* through and the prefix of two bytes does not count.
KeyFits == Len(call.args.key) # MAX_KEY_SIZE

\* A request that was sent is written so that it can be read.
LEMMA SentRequest ==
  ASSUME ExchangeInv, KeyFits, stage = "sent", NEW exact \in BOOLEAN, NEW lax, lax = FALSE
  PROVE  Written(Op, call.args, Encode(Op.value, call.args.value), Options(Op, call.args.options))
<1>1. OperationLaid(exact, lax, Op) /\ IsArgs(Op, call.args)
  BY CallLaid
<1>2. Serializable(Op, call.args) /\ Len(call.args.key) # MAX_KEY_SIZE
  BY DEF ExchangeInv, KeyFits, Op
<1>3. LaidRow(exact, Op.value) /\ OptionsLaid(Op.options)
  BY <1>1 DEF OperationLaid
<1>4. Sent(Op, call.args)
  BY <1>1, <1>2, <1>3 DEF Sent
<1> QED BY <1>3, <1>4, SentIsWritten

\* So the server reads what the caller meant.
LEMMA RequestRead ==
  ASSUME ExchangeInv, KeyFits
  PROVE  RequestReadAsMeant
<1>1. SUFFICES ASSUME stage = "sent" PROVE HeardAsMeant
  BY DEF RequestReadAsMeant, HeardAsMeant
<1>2. PICK exact \in BOOLEAN, lax \in BOOLEAN: exact /\ lax = FALSE
  OBVIOUS
<1>3. Written(Op, call.args, Encode(Op.value, call.args.value), Options(Op, call.args.options))
  BY <1>1, <1>2, SentRequest
<1>4. serialized = serializeRequest(CALL, Op, call.args)
  BY <1>1 DEF ExchangeInv
<1>5. OptionsLaid(Op.options)
  BY <1>2, CallLaid DEF OperationLaid
<1> QED BY <1>3, <1>4, <1>5, TableHeard, PlainHeard

\* And holds it as long as asked.
LEMMA RequestHeld ==
  ASSUME ExchangeInv, KeyFits
  PROVE  HeldAsLongAsAsked
<1>1. SUFFICES ASSUME stage = "sent"
               PROVE  /\ requestBlockMs(serialized) = AskedBlockMs
                      /\ requestTakesItems(serialized) <=> Op \in {dequeue, groupRead, awaitTask}
  BY DEF HeldAsLongAsAsked
<1>2. PICK exact \in BOOLEAN, lax \in BOOLEAN: exact /\ lax = FALSE
  OBVIOUS
<1>3. Written(Op, call.args, Encode(Op.value, call.args.value), Options(Op, call.args.options))
  BY <1>1, <1>2, SentRequest
<1>4. Serializable(Op, call.args) /\ serialized = serializeRequest(CALL, Op, call.args)
  BY <1>1 DEF ExchangeInv
<1>5. OperationLaid(exact, lax, Op) /\ IsArgs(Op, call.args)
  BY <1>2, CallLaid
<1>6. requestBlockMs(serialized) = AskedBlockMs
  <2>1. CASE isTableOp(Op.code)
    <3>1. Op.options = <<>> /\ (Op.code = "KVGet" => Op.value = Row(encodeGetBody))
      BY <1>5, <2>1 DEF OperationLaid
    <3>2. LaidRow(exact, Op.value)
      BY <1>5 DEF OperationLaid
    <3> QED BY <1>3, <1>4, <1>5, <2>1, <3>1, <3>2, TableHeld
  <2>2. CASE ~isTableOp(Op.code)
    <3>1. OptionsLaid(Op.options)
      BY <1>5 DEF OperationLaid
    <3> QED BY <1>3, <1>4, <2>2, <3>1, PlainHeld
  <2> QED BY <2>1, <2>2
<1>7. serialized.code = Op.code
  BY <1>4 DEF serializeRequest
<1>8. requestTakesItems(serialized) <=> Op \in {dequeue, groupRead, awaitTask}
  BY <1>5, <1>7 DEF requestTakesItems, OperationLaid, TakesItems
<1> QED BY <1>6, <1>8

\* The caller reads what the server sent.
LEMMA AnswerIsRead ==
  ASSUME ExchangeInv
  PROVE  AnswerReadAsSent
<1>1. PICK a, result: a = Op.answer /\ result = Result(Op, answer)
  OBVIOUS
<1>2. SUFFICES ASSUME stage = "answered", answer.status = OK
               PROVE  /\ answer.value # <<>> =>
                           result = IF a.check = "paged" /\ ~Paged(answer.value[1])
                                    THEN Malformed ELSE Value(answer.value[1])
                      /\ result.is = "value" /\ Len(answer.body) >= a.least /\ Op.code \notin LooseReaders =>
                           ReadInFront(a, answer.body, result.v)
  BY <1>1 DEF AnswerReadAsSent, ReadAsSent, ReadInFront
<1>3. PICK exact \in BOOLEAN, lax \in BOOLEAN: exact /\ lax = FALSE
  OBVIOUS
<1>4. /\ OperationLaid(exact, lax, Op) /\ \A v \in Values(Op, call.args): IsAnswer(a, v)
      /\ \A b \in Bodies(Op, call.args): b \in Seq(Byte)
  BY <1>1, <1>3, CallLaid
<1>5. PICK some \in BOOLEAN: AnswerLaid(some, a) /\ (Op.code \notin LooseReaders => some)
  BY <1>1, <1>3, <1>4 DEF OperationLaid
<1>6. Answered(Op, call.args, answer) /\ answer.status \notin {NotFound, Conflict}
  BY <1>2 DEF ExchangeInv, OK, NotFound, Conflict
<1>7. Malformed.is # "value"
  BY DEF Malformed
<1>8. answer.flags \in {0, RESPONSE_STALE} => result = Decoded(a, answer.body)
  BY <1>1, <1>2 DEF Result, ResultOr
<1>9. answer.flags \notin {0, RESPONSE_STALE} => result = Malformed
  BY <1>1 DEF Result, ResultOr
<1>10. CASE answer.flags = 0 /\ answer.body \in Bodies(Op, call.args) /\ answer.value = <<>>
  <2>1. answer.body \in Seq(Byte) /\ result = Decoded(a, answer.body)
    BY <1>4, <1>8, <1>10
  <2>2. ASSUME result.is = "value", Len(answer.body) >= a.least, Op.code \notin LooseReaders
        PROVE  ReadInFront(a, answer.body, result.v)
    BY <1>5, <2>1, <2>2, FrontRead
  <2> QED BY <1>10, <2>2
<1>11. ASSUME NEW v \in Values(Op, call.args), answer.flags \in 0..2, answer.body = Encode(a.fields, v),
              answer.value = IF answer.flags < 2 THEN <<v>> ELSE <<>>
       PROVE  /\ answer.value # <<>> =>
                   result = IF a.check = "paged" /\ ~Paged(answer.value[1])
                            THEN Malformed ELSE Value(answer.value[1])
              /\ result.is = "value" => ReadInFront(a, answer.body, result.v)
  <2>1. IsAnswer(a, v)
    BY <1>4
  <2>2. Decoded(a, answer.body) = IF a.check = "paged" /\ ~Paged(v) THEN Malformed ELSE Value(v)
    BY <1>5, <1>11, <2>1, AnswerRead
  <2>3. ReadInFront(a, answer.body, v)
    BY <1>5, <1>11, <2>1, WholeRead
  <2>4. CASE answer.flags = 2
    <3>1. answer.value = <<>> /\ result = Malformed
      BY <1>9, <1>11, <2>4 DEF RESPONSE_STALE
    <3> QED BY <1>7, <3>1
  <2>5. CASE answer.flags \in 0..1
    <3>1. answer.value = <<v>> /\ answer.flags \in {0, RESPONSE_STALE}
      BY <1>11, <2>5 DEF RESPONSE_STALE
    <3>2. result = Decoded(a, answer.body) /\ answer.value[1] = v
      BY <1>8, <3>1
    <3>3. result.is = "value" => result.v = v
      BY <1>7, <2>2, <3>2 DEF Value
    <3> QED BY <2>2, <2>3, <3>2, <3>3
  <2> QED BY <1>11, <2>4, <2>5
<1> QED BY <1>1, <1>6, <1>10, <1>11 DEF Answered

\* Also when it was refused.
LEMMA RefusalIsRead ==
  ASSUME ExchangeInv
  PROVE  RefusalReadAsSent
<1>1. PICK result, error: result = Result(Op, answer) /\ error = createServerError(answer.body)
  OBVIOUS
<1>2. SUFFICES ASSUME stage = "answered", answer.status # OK
               PROVE  /\ result.is # "value"
                      /\ result.is = "absent" => answer.status = NotFound
                      /\ result.is = "absent" /\ Op.missing = "key" =>
                           answer.flags = 0 /\ Got(U16, answer.body) = ReasonNotFound
                      /\ result.is = "error" => Put(U16, result.reason) \o <<result.ran>> = SubSeq(answer.body, 1, 3)
  BY <1>1 DEF RefusalReadAsSent, ToldAsRefused
<1>3. PICK exact \in BOOLEAN, lax \in BOOLEAN: exact /\ lax = FALSE
  OBVIOUS
<1>4. \A b \in Refusals(Op, call.args): b \in Seq(Byte)
  BY <1>3, CallLaid
<1>5. answer.flags \in 0..1 /\ answer.body \in Seq(Byte)
  BY <1>2, <1>4 DEF ExchangeInv, Answered
<1>6. PICK r: r = Read(refusal, answer.body)
  OBVIOUS
<1>7. error = IF r.ok THEN ServerError(r.v) ELSE Malformed
  BY <1>1, <1>6 DEF createServerError, refusal
<1>8. r.ok => RefusalIs(answer.body, r.v)
  BY <1>5, <1>6, RefusalRead
<1>9. /\ error.is = "error" \/ error = Malformed
      /\ error.is = "error" => error.reason = r.v[1] /\ error.ran = r.v[2] /\ RefusalIs(answer.body, r.v)
  BY <1>7, <1>8 DEF ServerError, Malformed
<1>10. Malformed.is = "malformed" /\ Absent.is = "absent"
  BY DEF Malformed, Absent
<1>11. answer.flags = 0 \/ answer.flags = RESPONSE_STALE
  BY <1>5 DEF RESPONSE_STALE
<1>12. result = IF answer.status = NotFound /\ IsAbsent(Op, error, answer.flags = RESPONSE_STALE) THEN Absent ELSE error
  BY <1>1, <1>2, <1>11 DEF Result, ResultOr
<1>13. CASE answer.status = NotFound /\ IsAbsent(Op, error, answer.flags = RESPONSE_STALE)
  <2>1. result = Absent
    BY <1>12, <1>13
  <2>2. ASSUME Op.missing = "key"
        PROVE  answer.flags = 0 /\ Got(U16, answer.body) = ReasonNotFound
    <3>1. error.is = "error" /\ error.reason = ReasonNotFound /\ answer.flags # RESPONSE_STALE
      BY <1>13, <2>2 DEF IsAbsent
    <3> QED BY <1>9, <1>11, <3>1 DEF RefusalIs
  <2> QED BY <1>10, <1>13, <2>1, <2>2
<1>14. CASE ~(answer.status = NotFound /\ IsAbsent(Op, error, answer.flags = RESPONSE_STALE))
  <2>1. result = error
    BY <1>12, <1>14
  <2> QED BY <1>9, <1>10, <2>1 DEF RefusalIs
<1> QED BY <1>13, <1>14

-----------------------------------------------------------------------------

\* For any limits and radix, and any whole numbers, texts and lists: the server
\* finds the fields of a request that was not refused where the caller put
\* them, unless the key is of exactly the length that the check lets through
\* and its prefix does not count (serializeRequest, wire.ts; the run
\* wire_long_keys shows that one).  It reads the value as it was meant, a
\* number that nothing checks as the low bytes that were sent of it (addU8 and
\* addU32, wire.ts), when no text in it is longer than its prefix counts: what
\* is read of such a value, which is sent all the same, is not said.
THEOREM RequestsReadAsMeant == ExchangeSpec => [](KeyFits => RequestReadAsMeant)
<1>1. ExchangeInv => (KeyFits => RequestReadAsMeant)
  BY RequestRead
<1> QED BY <1>1, ExchangeSafe, PTL

\* So does the transport, which waits as long as the request asked to be held,
\* and knows the replies that carry leased items (requestBlockMs, wire.ts).
THEOREM RequestsHeldAsLongAsAsked == ExchangeSpec => [](KeyFits => HeldAsLongAsAsked)
<1>1. ExchangeInv => (KeyFits => HeldAsLongAsAsked)
  BY RequestHeld
<1> QED BY <1>1, ExchangeSafe, PTL

\* An answer is read as the value the server sent, and a reader that takes
\* another body has read every cell of it (the parsers of wire.ts, kv_body.ts,
\* actions.ts, workflows.ts and processing.ts).
THEOREM AnswersReadAsSent == ExchangeSpec => []AnswerReadAsSent
<1>1. ExchangeInv => AnswerReadAsSent
  BY AnswerIsRead
<1> QED BY <1>1, ExchangeSafe, PTL

\* A key is only told absent by a server that said so of its latest state, and
\* a refusal says to the caller what it said (absentKey, kv.ts).
THEOREM RefusalsReadAsSent == ExchangeSpec => []RefusalReadAsSent
<1>1. ExchangeInv => RefusalReadAsSent
  BY RefusalIsRead
<1> QED BY <1>1, ExchangeSafe, PTL

=============================================================================
