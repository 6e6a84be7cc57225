--------------------------- MODULE FramingProofs ---------------------------
(***************************************************************************)
(* What is proved of Framing and Chunks, for any chunks, answers and       *)
(* alterations, any number of requests and connections: an answer is the   *)
(* frame the server wrote for its request, no answer is left unread, a     *)
(* connection is given up for a reason, and a list of chunks joined when   *)
(* it must be does what one sequence of cells would.                       *)
(*                                                                         *)
(* The heart of the invariant is Framed: the cells received and those on   *)
(* the wire, one after the other, are the frames that are coming.  A place *)
(* where a frame ends is never written down by the code: it is counted     *)
(* from the length in each header, so that the argument is about where the *)
(* frames end (EndsAt), what Append and Tail do to it (FrameAdded,         *)
(* FirstFrame), and what the checksum tells of a frame (MarredFails).      *)
(* The chunks kept are to the cells received as the frames are to those    *)
(* that come (Kept), so that the same lemmas serve; a list joined at once  *)
(* is what it was one after the other (JoinsAll), by the least number of   *)
(* chunks for which it would not be.                                       *)
(***************************************************************************)
EXTENDS Chunks, SequenceTheorems, WellFoundedInduction, TLAPS

-----------------------------------------------------------------------------
(* Frames one after the other.                                             *)

\* Places where frames end, one after the other: the k-th frame at e[k].
Places(m, c, e) ==
  /\ e \in [0..m -> Nat] /\ e[0] = 0 /\ e[m] = c
  /\ \A j, k \in 0..m: j <= k => e[j] <= e[k]

\* The k-th frame fills the cells up to its end.
Fills(frame, cells, from, to) ==
  /\ to = from + Len(frame)
  /\ \A i \in 1..Len(frame): cells[from + i] = frame[i]

\* The frames, one after the other, are the cells.
EndsAt(frames, cells, e) ==
  /\ Places(Len(frames), Len(cells), e)
  /\ \A k \in 1..Len(frames): Fills(frames[k], cells, e[k - 1], e[k])
Concatenates(frames, cells) == \E e: EndsAt(frames, cells, e)

\* No frames are no cells.
LEMMA NoFrames == Concatenates(<<>>, <<>>)
<1>1. EndsAt(<<>>, <<>>, [k \in 0..0 |-> 0])
  BY DEF EndsAt, Places
<1> QED BY <1>1 DEF Concatenates

\* Of no frames no cell is left.
LEMMA NothingLeft ==
  ASSUME NEW cells \in Seq(Nat), Concatenates(<<>>, cells)
  PROVE  cells = <<>>
<1>1. Len(cells) = 0
  BY DEF Concatenates, EndsAt, Places
<1> QED BY <1>1, EmptySeq

\* d is e with one more frame, of x cells.
Grown(m, c, x, e, d) ==
  /\ Places(m + 1, c + x, d)
  /\ d[m] = c /\ d[m + 1] = c + x
  /\ \A k \in 1..m: /\ d[k] = e[k] /\ d[k - 1] = e[k - 1]
                   /\ e[k - 1] \in Nat /\ e[k] \in Nat /\ e[k] <= c

\* A frame at the end ends at a place of its own, and moves no other.
LEMMA OneMorePlace ==
  ASSUME NEW m \in Nat, NEW c \in Nat, NEW x \in Nat, NEW e, Places(m, c, e)
  PROVE  \E d: Grown(m, c, x, e, d)
<1>1. PICK d: d = [k \in 0..(m + 1) |-> IF k <= m THEN e[k] ELSE c + x]
  OBVIOUS
<1>2. Grown(m, c, x, e, d)
  BY <1>1 DEF Places, Grown
<1> QED BY <1>2

\* d is e without its first frame, of x cells.
Shrunk(m, c, x, e, d) ==
  /\ x <= c
  /\ Places(m, c - x, d)
  /\ \A k \in 1..m: /\ d[k] = e[k + 1] - x /\ d[k - 1] = e[k] - x
                   /\ e[k] \in Nat /\ e[k + 1] \in Nat /\ x <= e[k] /\ e[k + 1] <= c

\* Without the first frame every other ends that much earlier.
LEMMA OnePlaceFewer ==
  ASSUME NEW m \in Nat, NEW c \in Nat, NEW x \in Nat, NEW e, Places(m + 1, c, e), e[1] = x
  PROVE  \E d: Shrunk(m, c, x, e, d)
<1>1. PICK d: d = [k \in 0..m |-> e[k + 1] - x]
  OBVIOUS
<1>2. \A k \in 1..(m + 1): e[k] \in Nat /\ x <= e[k] /\ e[k] <= c
  BY DEF Places
<1>3. \A k \in 0..m: k + 1 \in 1..(m + 1) /\ d[k] = e[k + 1] - x
  BY <1>1
<1>4. d \in [0..m -> Nat]
  BY <1>1, <1>2
<1>5. d[0] = 0 /\ d[m] = c - x
  BY <1>1 DEF Places
<1>6. ASSUME NEW j \in 0..m, NEW k \in 0..m, j <= k PROVE d[j] <= d[k]
  <2>1. j + 1 \in 0..(m + 1) /\ k + 1 \in 0..(m + 1) /\ j + 1 <= k + 1
    BY <1>6
  <2>2. e[j + 1] <= e[k + 1]
    BY <2>1 DEF Places
  <2> QED BY <1>2, <1>3, <2>2
<1>7. ASSUME NEW k \in 1..m
      PROVE  /\ d[k] = e[k + 1] - x /\ d[k - 1] = e[k] - x
             /\ e[k] \in Nat /\ e[k + 1] \in Nat /\ x <= e[k] /\ e[k + 1] <= c
  <2>1. k + 1 \in 1..(m + 1) /\ k \in 1..(m + 1) /\ k \in 0..m /\ k - 1 \in 0..m /\ (k - 1) + 1 = k
    OBVIOUS
  <2> QED BY <1>2, <1>3, <2>1
<1>8. x <= c /\ Places(m, c - x, d)
  <2>1. x <= c
    BY <1>2
  <2> QED BY <1>4, <1>5, <1>6, <2>1 DEF Places
<1>9. Shrunk(m, c, x, e, d)
  BY <1>7, <1>8 DEF Shrunk
<1> QED BY <1>9

\* A frame written after the others (ServerWrites) comes after them.
LEMMA FrameAdded ==
  ASSUME NEW frames \in Seq(Seq(Nat)), NEW cells \in Seq(Nat), NEW f \in Seq(Nat),
         Concatenates(frames, cells)
  PROVE  Concatenates(Append(frames, f), cells \o f)
<1>1. PICK e: EndsAt(frames, cells, e)
  BY DEF Concatenates
<1>2. /\ Len(frames) \in Nat /\ Len(Append(frames, f)) = Len(frames) + 1
      /\ Append(frames, f)[Len(frames) + 1] = f
      /\ \A k \in 1..Len(frames): Append(frames, f)[k] = frames[k]
  BY AppendProperties, LenProperties
<1>3. /\ Len(cells) \in Nat /\ Len(f) \in Nat /\ Len(cells \o f) = Len(cells) + Len(f)
      /\ \A i \in 1..(Len(cells) + Len(f)):
            (cells \o f)[i] = IF i <= Len(cells) THEN cells[i] ELSE f[i - Len(cells)]
  BY ConcatProperties, LenProperties
<1>4. PICK fs: fs = Append(frames, f)
  OBVIOUS
<1>5. PICK cs: cs = cells \o f
  OBVIOUS
<1>6. PICK m \in Nat: m = Len(frames)
  BY <1>2
<1>7. PICK c \in Nat: c = Len(cells)
  BY <1>3
<1>8. PICK x \in Nat: x = Len(f)
  BY <1>3
<1>9. PICK d: Grown(m, c, x, e, d)
  <2>1. Places(m, c, e)
    BY <1>1, <1>6, <1>7 DEF EndsAt
  <2> QED BY <2>1, OneMorePlace
<1>10. ASSUME NEW k \in 1..(m + 1) PROVE Fills(fs[k], cs, d[k - 1], d[k])
  <2>1. CASE k = m + 1
    <3>1. fs[k] = f /\ d[k - 1] = c /\ d[k] = c + x
      BY <1>2, <1>4, <1>6, <1>9, <2>1 DEF Grown
    <3>2. ASSUME NEW i \in 1..x PROVE cs[c + i] = f[i]
      <4>1. c + i \in 1..(c + x) /\ ~(c + i <= c) /\ (c + i) - c = i
        OBVIOUS
      <4> QED BY <1>3, <1>5, <1>7, <1>8, <4>1
    <3> QED BY <1>8, <3>1, <3>2 DEF Fills
  <2>2. CASE k \in 1..m
    <3>1. fs[k] = frames[k] /\ d[k] = e[k] /\ d[k - 1] = e[k - 1]
          /\ e[k - 1] \in Nat /\ e[k] \in Nat /\ e[k] <= c
      BY <1>2, <1>4, <1>6, <1>9, <2>2 DEF Grown
    <3>2. Fills(frames[k], cells, e[k - 1], e[k])
      BY <1>1, <1>6, <2>2 DEF EndsAt
    <3>3. frames[k] \in Seq(Nat)
      BY <1>6, <2>2, ElementOfSeq
    <3>4. PICK l \in Nat: l = Len(frames[k])
      BY <3>3, LenProperties
    <3>5. ASSUME NEW i \in 1..l PROVE cs[e[k - 1] + i] = cells[e[k - 1] + i]
      <4>1. e[k] = e[k - 1] + l
        BY <3>2, <3>4 DEF Fills
      <4>2. e[k - 1] + i \in 1..(c + x) /\ e[k - 1] + i <= c
        <5>1. PICK p \in Nat: p = e[k - 1]
          BY <3>1
        <5>2. p + l <= c
          BY <3>1, <4>1, <5>1
        <5>3. p + i \in 1..(c + x) /\ p + i <= c
          BY <5>2
        <5> QED BY <5>1, <5>3
      <4> QED BY <1>3, <1>5, <1>7, <1>8, <4>2
    <3> QED BY <3>1, <3>2, <3>4, <3>5 DEF Fills
  <2> QED BY <2>1, <2>2
<1>11. EndsAt(fs, cs, d)
  <2>1. Len(fs) = m + 1 /\ Len(cs) = c + x
    BY <1>2, <1>3, <1>4, <1>5, <1>6, <1>7, <1>8
  <2> QED BY <1>9, <1>10, <2>1 DEF EndsAt, Grown
<1> QED BY <1>4, <1>5, <1>11 DEF Concatenates

\* The cells start with the first frame, and the others follow it.
LEMMA FirstFrame ==
  ASSUME NEW frames \in Seq(Seq(Nat)), NEW cells \in Seq(Nat), frames # <<>>,
         Concatenates(frames, cells)
  PROVE  LET f == Head(frames) IN
         /\ f \in Seq(Nat) /\ Len(f) <= Len(cells)
         /\ \A i \in 1..Len(f): cells[i] = f[i]
         /\ Tail(frames) \in Seq(Seq(Nat))
         /\ Concatenates(Tail(frames), SubSeq(cells, Len(f) + 1, Len(cells)))
<1>1. PICK e: EndsAt(frames, cells, e)
  BY DEF Concatenates
<1>2. /\ Head(frames) = frames[1] /\ Head(frames) \in Seq(Nat)
      /\ Tail(frames) \in Seq(Seq(Nat)) /\ Len(Tail(frames)) = Len(frames) - 1
      /\ \A k \in 1..Len(Tail(frames)): Tail(frames)[k] = frames[k + 1]
  BY HeadTailProperties
<1>3. PICK f \in Seq(Nat): f = Head(frames)
  BY <1>2
<1>4. PICK x \in Nat: x = Len(f)
  BY LenProperties
<1>5. PICK m \in Nat: Len(frames) = m + 1
  <2>1. Len(frames) \in Nat /\ Len(frames) # 0
    BY LenProperties, EmptySeq
  <2>2. Len(frames) - 1 \in Nat /\ Len(frames) = (Len(frames) - 1) + 1
    BY <2>1
  <2> QED BY <2>2
<1>6. PICK c \in Nat: c = Len(cells)
  BY LenProperties
<1>7. PICK ts \in Seq(Seq(Nat)): ts = Tail(frames)
  BY <1>2
<1>8. Len(ts) = m /\ \A k \in 1..m: ts[k] = frames[k + 1]
  BY <1>2, <1>5, <1>7
<1>9. Fills(f, cells, 0, x) /\ e[1] = x
  <2>1. Places(m + 1, c, e) /\ Fills(frames[1], cells, e[1 - 1], e[1])
    BY <1>1, <1>5, <1>6 DEF EndsAt
  <2>2. 1 - 1 = 0 /\ e[0] = 0
    BY <2>1 DEF Places
  <2> QED BY <1>2, <1>3, <1>4, <2>1, <2>2 DEF Fills
<1>10. PICK d: Shrunk(m, c, x, e, d)
  <2>1. Places(m + 1, c, e)
    BY <1>1, <1>5, <1>6 DEF EndsAt
  <2> QED BY <1>9, <2>1, OnePlaceFewer
<1>11. PICK rest: rest = SubSeq(cells, x + 1, c)
  OBVIOUS
<1>12. Len(rest) = c - x /\ \A i \in 1..(c - x): rest[i] = cells[x + i]
  <2>1. x + 1 \in 1..(c + 1) /\ c \in x..c /\ x + 1 \in Nat
    BY <1>10 DEF Shrunk
  <2>2. /\ Len(rest) = IF x + 1 <= c THEN c - (x + 1) + 1 ELSE 0
        /\ \A i \in 1..(c - (x + 1) + 1): rest[i] = cells[(x + 1) + i - 1]
    BY <1>6, <1>11, <2>1, SubSeqProperties
  <2>3. c - (x + 1) + 1 = c - x /\ \A i \in 1..(c - x): (x + 1) + i - 1 = x + i
    OBVIOUS
  <2> QED BY <1>10, <2>2, <2>3 DEF Shrunk
<1>13. ASSUME NEW k \in 1..m PROVE Fills(ts[k], rest, d[k - 1], d[k])
  <2>1. k + 1 \in 1..(m + 1) /\ (k + 1) - 1 = k
    OBVIOUS
  <2>2. Fills(frames[k + 1], cells, e[k], e[k + 1])
    <3>1. Fills(frames[k + 1], cells, e[(k + 1) - 1], e[k + 1])
      BY <1>1, <1>5, <2>1 DEF EndsAt
    <3> QED BY <2>1, <3>1
  <2>3. frames[k + 1] \in Seq(Nat)
    BY <1>5, <2>1, ElementOfSeq
  <2>4. PICK l \in Nat: l = Len(frames[k + 1])
    BY <2>3, LenProperties
  <2>5. e[k + 1] = e[k] + l
    BY <2>2, <2>4 DEF Fills
  <2>6. d[k] = e[k + 1] - x /\ d[k - 1] = e[k] - x
        /\ e[k] \in Nat /\ e[k + 1] \in Nat /\ x <= e[k] /\ e[k + 1] <= c
    BY <1>10 DEF Shrunk
  <2>7. ASSUME NEW i \in 1..l PROVE rest[d[k - 1] + i] = frames[k + 1][i]
    <3>1. d[k - 1] + i \in 1..(c - x) /\ x + (d[k - 1] + i) = e[k] + i
      <4>1. PICK a \in Nat: a = e[k]
        BY <2>6
      <4>2. x <= a /\ a + l <= c /\ d[k - 1] = a - x
        BY <2>5, <2>6, <4>1
      <4>3. (a - x) + i \in 1..(c - x) /\ x + ((a - x) + i) = a + i
        BY <4>2
      <4> QED BY <4>1, <4>2, <4>3
    <3>2. cells[e[k] + i] = frames[k + 1][i]
      BY <2>2, <2>4 DEF Fills
    <3> QED BY <1>12, <3>1, <3>2
  <2>8. d[k] = d[k - 1] + l
    BY <2>5, <2>6
  <2> QED BY <1>8, <2>4, <2>7, <2>8 DEF Fills
<1>14. Concatenates(ts, rest)
  BY <1>8, <1>10, <1>12, <1>13 DEF EndsAt, Concatenates, Shrunk
<1>15. \A i \in 1..x: cells[i] = f[i]
  BY <1>9 DEF Fills
<1> QED BY <1>3, <1>4, <1>6, <1>7, <1>10, <1>11, <1>14, <1>15 DEF Shrunk
-----------------------------------------------------------------------------
(* A frame, and what the network makes of it.                              *)

Joins(u, s, m, t, n) ==
  /\ \A i \in 1..m: u[i] = s[i]
  /\ \A i \in 1..n: u[m + i] = t[i]

\* The cells of two sequences, one after the other.
LEMMA Joined ==
  ASSUME NEW s \in Seq(Nat), NEW t \in Seq(Nat),
         NEW m \in Nat, NEW n \in Nat, m = Len(s), n = Len(t)
  PROVE  s \o t \in Seq(Nat) /\ Len(s \o t) = m + n /\ Joins(s \o t, s, m, t, n)
<1>1. /\ s \o t \in Seq(Nat) /\ Len(s \o t) = m + n
      /\ \A i \in 1..(m + n): (s \o t)[i] = IF i <= m THEN s[i] ELSE t[i - m]
  BY ConcatProperties
<1>2. ASSUME NEW i \in 1..m PROVE (s \o t)[i] = s[i]
  BY <1>1
<1>3. ASSUME NEW i \in 1..n PROVE (s \o t)[m + i] = t[i]
  <2>1. m + i \in 1..(m + n) /\ ~(m + i <= m) /\ (m + i) - m = i
    OBVIOUS
  <2> QED BY <1>1, <2>1
<1> QED BY <1>1, <1>2, <1>3 DEF Joins

Associates(s, t, u) == (s \o t) \o u = s \o (t \o u)

\* Sequences are joined in any order.
LEMMA Associated ==
  ASSUME NEW s \in Seq(Nat), NEW t \in Seq(Nat), NEW u \in Seq(Nat) PROVE Associates(s, t, u)
BY DEF Associates

Rests(x, s, t, k) == Len(x) = k /\ \A i \in 1..k: x[i] = s[t + i]

\* What is left when the first t cells are cut off.
LEMMA RestOf ==
  ASSUME NEW s \in Seq(Nat), NEW t \in Nat, NEW k \in Nat, NEW m \in Nat,
         m = Len(s), m = t + k
  PROVE  SubSeq(s, t + 1, m) \in Seq(Nat) /\ Rests(SubSeq(s, t + 1, m), s, t, k)
<1>1. ASSUME NEW i \in (t + 1)..m PROVE s[i] \in Nat
  <2>1. i \in 1..Len(s)
    OBVIOUS
  <2> QED BY <2>1, ElementOfSeq
<1>2. t + 1 \in Int /\ m \in Int
  OBVIOUS
<1>3. /\ SubSeq(s, t + 1, m) \in Seq(Nat)
      /\ Len(SubSeq(s, t + 1, m)) = IF t + 1 <= m THEN m - (t + 1) + 1 ELSE 0
      /\ \A i \in 1..(m - (t + 1) + 1): SubSeq(s, t + 1, m)[i] = s[(t + 1) + i - 1]
  BY <1>1, <1>2, SubSeqProperties
<1>4. Len(SubSeq(s, t + 1, m)) = k
  BY <1>3
<1>5. ASSUME NEW i \in 1..k PROVE SubSeq(s, t + 1, m)[i] = s[t + i]
  <2>1. i \in 1..(m - (t + 1) + 1) /\ (t + 1) + i - 1 = t + i
    OBVIOUS
  <2> QED BY <1>3, <2>1
<1> QED BY <1>3, <1>4, <1>5 DEF Rests

\* What is left of s without its first t of m.
Cut(s, t, m) == SubSeq(s, t + 1, m)
CutsAlike(s, u, t, m, c) == Cut(s \o u, t, c) = Cut(s, t, m) \o u

\* The end of two sequences joined, cut within the first.
LEMMA RestOfJoin ==
  ASSUME NEW s \in Seq(Nat), NEW u \in Seq(Nat), NEW t \in Nat,
         NEW m \in Nat, NEW c \in Nat, m = Len(s), c = m + Len(u), t <= m
  PROVE  CutsAlike(s, u, t, m, c)
<1>00. PICK n \in Nat: n = Len(u)
  BY LenProperties
<1>0. PICK k \in Nat: m = t + k
  <2>1. m - t \in Nat /\ m = t + (m - t)
    OBVIOUS
  <2> QED BY <2>1
<1>1. PICK all \in Seq(Nat): all = s \o u /\ Len(all) = m + n /\ Joins(all, s, m, u, n)
  BY <1>00, Joined
<1>2. PICK x \in Seq(Nat): x = SubSeq(all, t + 1, m + n) /\ Rests(x, all, t, k + n)
  <2>1. m + n \in Nat /\ m + n = Len(all) /\ k + n \in Nat /\ m + n = t + (k + n)
    BY <1>0, <1>1
  <2>2. SubSeq(all, t + 1, m + n) \in Seq(Nat) /\ Rests(SubSeq(all, t + 1, m + n), all, t, k + n)
    BY <2>1, RestOf
  <2> QED BY <2>2
<1>3. PICK y \in Seq(Nat): y = SubSeq(s, t + 1, m) /\ Rests(y, s, t, k)
  <2>1. SubSeq(s, t + 1, m) \in Seq(Nat) /\ Rests(SubSeq(s, t + 1, m), s, t, k)
    BY <1>0, RestOf
  <2> QED BY <2>1
<1>5. PICK z \in Seq(Nat): z = y \o u /\ Len(z) = k + n /\ Joins(z, y, k, u, n)
  <2>1. k = Len(y)
    BY <1>3 DEF Rests
  <2> QED BY <1>00, <2>1, Joined
<1>6. Len(x) = k + n
  BY <1>2 DEF Rests
<1>7. ASSUME NEW i \in 1..(k + n) PROVE x[i] = z[i]
  <2>1. x[i] = all[t + i]
    BY <1>2 DEF Rests
  <2>2. CASE i \in 1..k
    <3>1. z[i] = y[i]
      BY <1>5, <2>2 DEF Joins
    <3>2. y[i] = s[t + i]
      BY <1>3, <2>2 DEF Rests
    <3>3. all[t + i] = s[t + i]
      <4>1. t + i \in 1..m
        BY <1>0, <2>2
      <4> QED BY <1>1, <4>1 DEF Joins
    <3> QED BY <2>1, <3>1, <3>2, <3>3
  <2>3. CASE i \in (k + 1)..(k + n)
    <3>1. PICK j \in 1..n: i = k + j
      <4>1. i - k \in 1..n /\ i = k + (i - k)
        BY <2>3
      <4> QED BY <4>1
    <3>2. z[k + j] = u[j]
      BY <1>5 DEF Joins
    <3>3. all[m + j] = u[j]
      BY <1>1 DEF Joins
    <3>4. t + i = m + j
      BY <1>0, <3>1
    <3> QED BY <2>1, <3>1, <3>2, <3>3, <3>4
  <2>4. i \in 1..k \/ i \in (k + 1)..(k + n)
    OBVIOUS
  <2> QED BY <2>2, <2>3, <2>4
<1>8. x = z
  BY <1>5, <1>6, <1>7, SeqEqual
<1>9. Cut(all, t, c) = x
  BY <1>00, <1>1, <1>2 DEF Cut
<1>10. Cut(s, t, m) = y
  BY <1>3 DEF Cut
<1> QED BY <1>1, <1>5, <1>8, <1>9, <1>10 DEF CutsAlike

\* The fields of an answer and its header are numbers.
LEMMA Fields ==
  ASSUME NEW id \in Ids, NEW a \in Answers
  PROVE  /\ id \in Nat /\ a.status \in Nat /\ a.flags \in Nat
         /\ a.payload \in Seq(Nat) /\ Len(a.payload) \in Nat
         /\ crc(summed(id, a)) \in Nat
         /\ MAGIC \in Nat /\ VERSION \in Nat /\ TABLE_HASH \in Nat /\ STATUS_OK \in Nat
<1>1. a \in [status: Nat, flags: Nat, payload: Seq(Nat)]
  BY FramingAssumption
<1>2. a.payload \in Seq(Nat)
  BY <1>1
<1> QED BY <1>1, <1>2, FramingAssumption, LenProperties DEF Ids

HasLength(a, l) == l = Len(a.payload)

\* The cells of a frame after its checksum.
LEMMA CellsAfter ==
  ASSUME NEW id \in Ids, NEW a \in Answers, NEW l \in Nat, HasLength(a, l)
  PROVE  /\ After(a) \in Seq(Nat) /\ Len(After(a)) = 4 + l
         /\ After(a)[1] = VERSION /\ After(a)[2] = a.status /\ After(a)[4] = TABLE_HASH
<1>1. PICK h \in Seq(Nat): /\ h = <<VERSION, a.status, a.flags, TABLE_HASH>>
                           /\ Len(h) = 4 /\ h[1] = VERSION /\ h[2] = a.status /\ h[4] = TABLE_HASH
  <2>1. PICK h: h = <<VERSION, a.status, a.flags, TABLE_HASH>>
    OBVIOUS
  <2>2. h \in Seq(Nat) /\ Len(h) = 4 /\ h[1] = VERSION /\ h[2] = a.status /\ h[4] = TABLE_HASH
    BY <2>1, Fields
  <2> QED BY <2>1, <2>2
<1>2. PICK p \in Seq(Nat): p = a.payload /\ Len(p) = l
  BY Fields DEF HasLength
<1>3. PICK u \in Seq(Nat): u = h \o p /\ Len(u) = 4 + l /\ Joins(u, h, 4, p, l)
  <2>1. 4 \in Nat /\ 4 = Len(h) /\ l = Len(p)
    BY <1>1, <1>2
  <2>2. h \o p \in Seq(Nat) /\ Len(h \o p) = 4 + l /\ Joins(h \o p, h, 4, p, l)
    BY <2>1, Joined
  <2> QED BY <2>2
<1>4. u[1] = h[1] /\ u[2] = h[2] /\ u[4] = h[4]
  <2>1. ASSUME NEW i \in 1..4 PROVE u[i] = h[i]
    BY <1>3 DEF Joins
  <2>2. 1 \in 1..4 /\ 2 \in 1..4 /\ 4 \in 1..4
    OBVIOUS
  <2> QED BY <2>1, <2>2
<1>5. u = After(a)
  BY <1>1, <1>2, <1>3 DEF After
<1> QED BY <1>1, <1>3, <1>4, <1>5

\* The cells of a frame before its checksum.
LEMMA CellsBefore ==
  ASSUME NEW id \in Ids, NEW a \in Answers, NEW l \in Nat, HasLength(a, l)
  PROVE  /\ Before(id, a) \in Seq(Nat) /\ Len(Before(id, a)) = 3
         /\ Before(id, a)[1] = MAGIC /\ Before(id, a)[2] = l /\ Before(id, a)[3] = id
<1>1. PICK b: b = <<MAGIC, l, id>>
  OBVIOUS
<1>2. b \in Seq(Nat) /\ Len(b) = 3 /\ b[1] = MAGIC /\ b[2] = l /\ b[3] = id
  BY <1>1, Fields
<1> QED BY <1>1, <1>2 DEF Before, HasLength

\* The cells the checksum is of.
LEMMA CellsSummed ==
  ASSUME NEW id \in Ids, NEW a \in Answers, NEW l \in Nat, HasLength(a, l)
  PROVE  /\ summed(id, a) \in Seq(Nat) /\ Len(summed(id, a)) = 7 + l
         /\ Joins(summed(id, a), Before(id, a), 3, After(a), 4 + l)
<1>1. PICK b \in Seq(Nat): b = Before(id, a) /\ Len(b) = 3
  BY CellsBefore
<1>2. PICK c \in Seq(Nat): c = After(a) /\ Len(c) = 4 + l
  BY CellsAfter
<1>3. b \o c \in Seq(Nat) /\ Len(b \o c) = 3 + (4 + l) /\ Joins(b \o c, b, 3, c, 4 + l)
  <2>1. 3 \in Nat /\ 4 + l \in Nat /\ Len(b) = 3 /\ Len(c) = 4 + l
    BY <1>1, <1>2
  <2> QED BY <2>1, Joined
<1>4. Len(b \o c) = 7 + l
  BY <1>3
<1> QED BY <1>1, <1>2, <1>3, <1>4 DEF summed

\* A frame: its first four cells, and those after.
LEMMA CellsOfFrame ==
  ASSUME NEW id \in Ids, NEW a \in Answers, NEW l \in Nat, HasLength(a, l)
  PROVE  \E g \in Seq(Nat):
         /\ Joins(g, Before(id, a), 3, <<crc(summed(id, a))>>, 1) /\ Len(g) = 4
         /\ answerFrame(id, a) \in Seq(Nat) /\ Len(answerFrame(id, a)) = 8 + l
         /\ Joins(answerFrame(id, a), g, 4, After(a), 4 + l)
<1>1. PICK b \in Seq(Nat): b = Before(id, a) /\ Len(b) = 3
  BY CellsBefore
<1>2. PICK c \in Seq(Nat): c = After(a) /\ Len(c) = 4 + l
  BY CellsAfter
<1>3. PICK k \in Nat: k = crc(summed(id, a))
  BY Fields
<1>4. PICK o \in Seq(Nat): o = <<k>> /\ Len(o) = 1
  <2>1. <<k>> \in Seq(Nat) /\ Len(<<k>>) = 1
    OBVIOUS
  <2> QED BY <2>1
<1>5. PICK g \in Seq(Nat): g = b \o o /\ Len(g) = 3 + 1 /\ Joins(g, b, 3, o, 1)
  <2>1. 3 \in Nat /\ 1 \in Nat /\ Len(b) = 3 /\ Len(o) = 1
    BY <1>1, <1>4
  <2>2. b \o o \in Seq(Nat) /\ Len(b \o o) = 3 + 1 /\ Joins(b \o o, b, 3, o, 1)
    BY <2>1, Joined
  <2> QED BY <2>2
<1>6. PICK f \in Seq(Nat): f = g \o c /\ Len(f) = 4 + (4 + l) /\ Joins(f, g, 4, c, 4 + l)
  <2>1. 4 \in Nat /\ 4 + l \in Nat /\ Len(g) = 4 /\ Len(c) = 4 + l
    BY <1>2, <1>5
  <2>2. g \o c \in Seq(Nat) /\ Len(g \o c) = 4 + (4 + l) /\ Joins(g \o c, g, 4, c, 4 + l)
    BY <2>1, Joined
  <2> QED BY <2>2
<1>7. f = answerFrame(id, a)
  BY <1>1, <1>2, <1>3, <1>4, <1>5, <1>6 DEF answerFrame
<1>8. Len(f) = 8 + l
  BY <1>6
<1>9. Joins(g, Before(id, a), 3, <<crc(summed(id, a))>>, 1) /\ Len(g) = 4
  BY <1>1, <1>3, <1>4, <1>5
<1>10. Joins(answerFrame(id, a), g, 4, After(a), 4 + l)
  BY <1>2, <1>6, <1>7
<1>11. answerFrame(id, a) \in Seq(Nat) /\ Len(answerFrame(id, a)) = 8 + l
  BY <1>7, <1>8
<1> QED BY <1>9, <1>10, <1>11

\* The version, status and table hash are at places 5, 6 and 8.
LEMMA FieldsAfter ==
  ASSUME NEW f \in Seq(Nat), NEW c \in Seq(Nat), NEW l \in Nat,
         \A i \in 1..(4 + l): f[4 + i] = c[i]
  PROVE  f[5] = c[1] /\ f[6] = c[2] /\ f[8] = c[4]
OBVIOUS

\* The cells of a frame are those that are summed, and the sum between them.
LEMMA FrameFields ==
  ASSUME NEW id \in Ids, NEW a \in Answers, NEW l \in Nat, HasLength(a, l)
  PROVE  LET f == answerFrame(id, a)
             s == summed(id, a) IN
         /\ f \in Seq(Nat) /\ Len(f) = 8 + l /\ s \in Seq(Nat) /\ Len(s) = 7 + l
         /\ f[1] = MAGIC /\ f[2] = l /\ f[3] = id /\ f[4] = crc(s)
         /\ f[5] = VERSION /\ f[6] = a.status /\ f[8] = TABLE_HASH
         /\ \A i \in 1..3: f[i] = s[i]
         /\ \A i \in 4..(7 + l): f[i + 1] = s[i]
<1>1. PICK b \in Seq(Nat): b = Before(id, a) /\ b[1] = MAGIC /\ b[2] = l /\ b[3] = id
  BY CellsBefore
<1>2. PICK c \in Seq(Nat): c = After(a) /\ c[1] = VERSION /\ c[2] = a.status /\ c[4] = TABLE_HASH
  BY CellsAfter
<1>3. PICK s \in Seq(Nat): s = summed(id, a) /\ Len(s) = 7 + l /\ Joins(s, b, 3, c, 4 + l)
  BY <1>1, <1>2, CellsSummed
<1>4. PICK k \in Nat: k = crc(s)
  BY <1>3, Fields
<1>5. PICK g \in Seq(Nat), f \in Seq(Nat):
         /\ Joins(g, b, 3, <<k>>, 1) /\ f = answerFrame(id, a) /\ Len(f) = 8 + l
         /\ Joins(f, g, 4, c, 4 + l)
  BY <1>1, <1>2, <1>3, <1>4, CellsOfFrame
<1>6. \A i \in 1..3: g[i] = b[i]
  BY <1>5 DEF Joins
<1>7. g[4] = k
  <2>1. <<k>>[1] = k
    OBVIOUS
  <2>2. g[3 + 1] = <<k>>[1]
    BY <1>5 DEF Joins
  <2> QED BY <2>1, <2>2
<1>8. \A i \in 1..4: f[i] = g[i]
  BY <1>5 DEF Joins
<1>9. \A i \in 1..(4 + l): f[4 + i] = c[i]
  BY <1>5 DEF Joins
<1>10. f[1] = b[1] /\ f[2] = b[2] /\ f[3] = b[3] /\ f[4] = k
  BY <1>6, <1>7, <1>8
<1>11. f[5] = c[1] /\ f[6] = c[2] /\ f[8] = c[4]
  <2> QED BY <1>9, FieldsAfter
<1>12. ASSUME NEW i \in 1..3 PROVE f[i] = s[i]
  <2>1. s[i] = b[i]
    BY <1>3 DEF Joins
  <2>2. i \in 1..4
    OBVIOUS
  <2> QED BY <1>6, <1>8, <2>1, <2>2
<1>13. ASSUME NEW i \in 4..(7 + l) PROVE f[i + 1] = s[i]
  <2>1. PICK j \in 1..(4 + l): i = 3 + j
    <3>1. i - 3 \in 1..(4 + l) /\ i = 3 + (i - 3)
      OBVIOUS
    <3> QED BY <3>1
  <2>2. f[4 + j] = s[3 + j]
    <3>1. s[3 + j] = c[j]
      BY <1>3 DEF Joins
    <3> QED BY <1>9, <3>1
  <2>3. 4 + j = i + 1
    BY <2>1
  <2> QED BY <2>1, <2>2, <2>3
<1>14. f[1] = MAGIC /\ f[2] = l /\ f[3] = id /\ f[5] = VERSION /\ f[6] = a.status /\ f[8] = TABLE_HASH
  BY <1>1, <1>2, <1>10, <1>11
<1> QED BY <1>3, <1>4, <1>5, <1>10, <1>12, <1>13, <1>14

\* One cell of a frame is not what it was.
Marred(id, a, f) ==
  \E i \in DOMAIN answerFrame(id, a) \cap Alterable, n \in Cells:
    n # answerFrame(id, a)[i] /\ f = [answerFrame(id, a) EXCEPT ![i] = n]

\* What crcHolds sums of a frame: the cells 1..3 and 5..8 + l.
LEMMA CoveredCells ==
  ASSUME NEW f \in Seq(Nat), NEW l \in Nat, Len(f) = 8 + l
  PROVE  /\ covered(f) \in Seq(Nat) /\ Len(covered(f)) = 7 + l
         /\ \A i \in 1..3: covered(f)[i] = f[i]
         /\ \A i \in 4..(7 + l): covered(f)[i] = f[i + 1]
<1> DEFINE x == SubSeq(f, 1, 3)
           y == SubSeq(f, 5, 8 + l)
<1>1. \A i \in 1..(8 + l): f[i] \in Nat
  BY ElementOfSeq
<1>2. x \in Seq(Nat) /\ Len(x) = 3 /\ \A i \in 1..3: x[i] = f[i]
  <2>1. \A i \in 1..3: f[i] \in Nat
    BY <1>1
  <2>2. 1 \in Int /\ 3 \in Int
    OBVIOUS
  <2>3. /\ x \in Seq(Nat) /\ Len(x) = IF 1 <= 3 THEN 3 - 1 + 1 ELSE 0
        /\ \A i \in 1..(3 - 1 + 1): x[i] = f[1 + i - 1]
    BY <2>1, <2>2, SubSeqProperties
  <2> HIDE DEF x
  <2>4. Len(x) = 3
    BY <2>3
  <2>5. ASSUME NEW i \in 1..3 PROVE x[i] = f[i]
    <3>1. i \in 1..(3 - 1 + 1) /\ 1 + i - 1 = i
      OBVIOUS
    <3> QED BY <2>3, <3>1
  <2> QED BY <2>3, <2>4, <2>5
<1>3. y \in Seq(Nat) /\ Len(y) = 4 + l /\ \A i \in 1..(4 + l): y[i] = f[i + 4]
  <2>1. \A i \in 5..(8 + l): f[i] \in Nat
    BY <1>1
  <2>2. 5 \in Int /\ 8 + l \in Int
    OBVIOUS
  <2>3. /\ y \in Seq(Nat) /\ Len(y) = IF 5 <= 8 + l THEN (8 + l) - 5 + 1 ELSE 0
        /\ \A i \in 1..((8 + l) - 5 + 1): y[i] = f[5 + i - 1]
    BY <2>1, <2>2, SubSeqProperties
  <2> HIDE DEF y
  <2>4. Len(y) = 4 + l
    BY <2>3
  <2>5. ASSUME NEW i \in 1..(4 + l) PROVE y[i] = f[i + 4]
    <3>1. i \in 1..((8 + l) - 5 + 1) /\ 5 + i - 1 = i + 4
      OBVIOUS
    <3> QED BY <2>3, <3>1
  <2> QED BY <2>3, <2>4, <2>5
<1>4. covered(f) = x \o y
  BY DEF covered
<1> HIDE DEF x, y
<1>5. x \o y \in Seq(Nat) /\ Len(x \o y) = 3 + (4 + l) /\ Joins(x \o y, x, 3, y, 4 + l)
  <2>1. 3 \in Nat /\ 4 + l \in Nat /\ 3 = Len(x) /\ 4 + l = Len(y) /\ x \in Seq(Nat) /\ y \in Seq(Nat)
    BY <1>2, <1>3
  <2> QED BY <2>1, Joined
<1>6. PICK u \in Seq(Nat): u = covered(f) /\ Len(u) = 3 + (4 + l) /\ Joins(u, x, 3, y, 4 + l)
  BY <1>4, <1>5
<1>7. Len(u) = 7 + l
  BY <1>6
<1>8. ASSUME NEW i \in 1..3 PROVE u[i] = f[i]
  <2>1. u[i] = x[i]
    BY <1>6 DEF Joins
  <2> QED BY <1>2, <2>1
<1>9. ASSUME NEW i \in 4..(7 + l) PROVE u[i] = f[i + 1]
  <2>1. PICK j \in 1..(4 + l): i = 3 + j
    <3>1. i - 3 \in 1..(4 + l) /\ i = 3 + (i - 3)
      OBVIOUS
    <3> QED BY <3>1
  <2>2. u[3 + j] = y[j]
    BY <1>6 DEF Joins
  <2>3. y[j] = f[j + 4] /\ j + 4 = i + 1
    BY <1>3, <2>1
  <2> QED BY <2>1, <2>2, <2>3
<1> QED BY <1>6, <1>7, <1>8, <1>9

\* A frame as it was written passes its check.
LEMMA WrittenPasses ==
  ASSUME NEW id \in Ids, NEW a \in Answers
  PROVE  covered(answerFrame(id, a)) = summed(id, a) /\ crcHolds(answerFrame(id, a))
<1>1. PICK l \in Nat: HasLength(a, l)
  BY Fields DEF HasLength
<1>2. PICK f \in Seq(Nat), s \in Seq(Nat):
         /\ f = answerFrame(id, a) /\ s = summed(id, a) /\ Len(f) = 8 + l /\ Len(s) = 7 + l
         /\ f[4] = crc(s)
         /\ \A i \in 1..3: f[i] = s[i]
         /\ \A i \in 4..(7 + l): f[i + 1] = s[i]
  BY <1>1, FrameFields
<1>3. PICK u \in Seq(Nat): /\ u = covered(f) /\ Len(u) = 7 + l
                           /\ \A i \in 1..3: u[i] = f[i]
                           /\ \A i \in 4..(7 + l): u[i] = f[i + 1]
  BY <1>2, CoveredCells
<1>4. ASSUME NEW i \in 1..(7 + l) PROVE u[i] = s[i]
  <2>1. i \in 1..3 \/ i \in 4..(7 + l)
    OBVIOUS
  <2> QED BY <1>2, <1>3, <2>1
<1>5. u = s
  BY <1>2, <1>3, <1>4, SeqEqual
<1> QED BY <1>2, <1>3, <1>5 DEF crcHolds

\* A frame with one cell altered is as long, and does not.
LEMMA MarredFails ==
  ASSUME NEW id \in Ids, NEW a \in Answers, NEW f, Marred(id, a, f)
  PROVE  /\ f \in Seq(Nat) /\ Len(f) = Len(answerFrame(id, a))
         /\ 2 \notin Alterable => f[2] = answerFrame(id, a)[2]
         /\ ~crcHolds(f)
<1>1. PICK l \in Nat: HasLength(a, l)
  BY Fields DEF HasLength
<1>2. PICK w \in Seq(Nat), s \in Seq(Nat):
         /\ w = answerFrame(id, a) /\ s = summed(id, a) /\ Len(w) = 8 + l /\ Len(s) = 7 + l
         /\ w[4] = crc(s)
         /\ \A i \in 1..3: w[i] = s[i]
         /\ \A i \in 4..(7 + l): w[i + 1] = s[i]
  BY <1>1, FrameFields
<1>3. PICK i \in 1..(8 + l), n \in Nat:
         i \in Alterable /\ n \in Cells /\ n # w[i] /\ f = [w EXCEPT ![i] = n]
  BY <1>2, FramingAssumption, LenProperties DEF Marred
<1>4. f \in Seq(Nat) /\ Len(f) = 8 + l /\ \A j \in 1..(8 + l): f[j] = IF j = i THEN n ELSE w[j]
  BY <1>2, <1>3, ExceptSeq
<1>5. 2 \notin Alterable => f[2] = w[2]
  <2>1. 2 \in 1..(8 + l)
    OBVIOUS
  <2> QED BY <1>3, <1>4, <2>1
<1>6. PICK g \in Seq(Nat): g = f
  BY <1>4
<1>7. PICK u \in Seq(Nat): /\ u = covered(g) /\ Len(u) = 7 + l
                           /\ \A j \in 1..3: u[j] = g[j]
                           /\ \A j \in 4..(7 + l): u[j] = g[j + 1]
  BY <1>4, <1>6, CoveredCells
<1>8. \A j \in 1..(8 + l): g[j] = IF j = i THEN n ELSE w[j]
  BY <1>4, <1>6
<1>9. 4 \in 1..(8 + l)
  OBVIOUS
<1>10. CASE i = 4
  <2>1. ASSUME NEW j \in 1..(7 + l) PROVE u[j] = s[j]
    <3>1. CASE j \in 1..3
      <4>1. j \in 1..(8 + l) /\ j # 4
        BY <3>1
      <4> QED BY <1>2, <1>7, <1>8, <1>10, <3>1, <4>1
    <3>2. CASE j \in 4..(7 + l)
      <4>1. j + 1 \in 1..(8 + l) /\ j + 1 # i
        BY <1>10, <3>2
      <4>2. g[j + 1] = w[j + 1]
        BY <1>8, <4>1
      <4>3. s[j] = w[j + 1] /\ u[j] = g[j + 1]
        BY <1>2, <1>7, <3>2
      <4> QED BY <4>2, <4>3
    <3>3. j \in 1..3 \/ j \in 4..(7 + l)
      OBVIOUS
    <3> QED BY <3>1, <3>2, <3>3
  <2>2. u = s
    BY <1>2, <1>7, <2>1, SeqEqual
  <2>3. g[4] = n /\ n # crc(s)
    BY <1>2, <1>3, <1>8, <1>9, <1>10
  <2> QED BY <1>2, <1>4, <1>5, <1>6, <1>7, <2>2, <2>3 DEF crcHolds
<1>11. CASE i # 4
  <2>1. PICK k \in 1..(7 + l): /\ s[k] = w[i] /\ u[k] = n
                               /\ \A j \in 1..(7 + l): j # k => u[j] = s[j]
    <3>1. CASE i \in 1..3
      <4>1. i \in 1..(7 + l) /\ s[i] = w[i] /\ u[i] = n
        <5>1. i \in 1..(7 + l) /\ i \in 1..(8 + l)
          BY <3>1
        <5>2. s[i] = w[i] /\ u[i] = g[i] /\ g[i] = n
          BY <1>2, <1>7, <1>8, <3>1, <5>1
        <5> QED BY <5>1, <5>2
      <4>2. ASSUME NEW j \in 1..(7 + l), j # i PROVE u[j] = s[j]
        <5>1. CASE j \in 1..3
          <6>1. j \in 1..(8 + l)
            OBVIOUS
          <6> QED BY <1>2, <1>7, <1>8, <4>2, <5>1, <6>1
        <5>2. CASE j \in 4..(7 + l)
          <6>1. j + 1 \in 1..(8 + l) /\ j + 1 # i
            BY <3>1, <5>2
          <6>2. g[j + 1] = w[j + 1]
            BY <1>8, <6>1
          <6>3. s[j] = w[j + 1] /\ u[j] = g[j + 1]
            BY <1>2, <1>7, <5>2
          <6> QED BY <6>2, <6>3
        <5>3. j \in 1..3 \/ j \in 4..(7 + l)
          OBVIOUS
        <5> QED BY <5>1, <5>2, <5>3
      <4> QED BY <4>1, <4>2
    <3>2. CASE i \in 5..(8 + l)
      <4>1. PICK k \in 4..(7 + l): i = k + 1
        <5>1. i - 1 \in 4..(7 + l) /\ i = (i - 1) + 1
          BY <3>2
        <5> QED BY <5>1
      <4>2. k \in 1..(7 + l) /\ s[k] = w[i] /\ u[k] = n
        <5>1. k \in 1..(7 + l)
          BY <4>1
        <5>2. s[k] = w[k + 1] /\ u[k] = g[k + 1]
          BY <1>2, <1>7
        <5>3. g[i] = n
          BY <1>8
        <5> QED BY <4>1, <5>1, <5>2, <5>3
      <4>3. ASSUME NEW j \in 1..(7 + l), j # k PROVE u[j] = s[j]
        <5>1. CASE j \in 1..3
          <6>1. j \in 1..(8 + l) /\ j # i
            BY <3>2, <5>1
          <6> QED BY <1>2, <1>7, <1>8, <5>1, <6>1
        <5>2. CASE j \in 4..(7 + l)
          <6>1. j + 1 \in 1..(8 + l) /\ j + 1 # i
            BY <4>1, <4>3, <5>2
          <6>2. g[j + 1] = w[j + 1]
            BY <1>8, <6>1
          <6>3. s[j] = w[j + 1] /\ u[j] = g[j + 1]
            BY <1>2, <1>7, <5>2
          <6> QED BY <6>2, <6>3
        <5>3. j \in 1..3 \/ j \in 4..(7 + l)
          OBVIOUS
        <5> QED BY <5>1, <5>2, <5>3
      <4> QED BY <4>2, <4>3
    <3>3. i \in 1..3 \/ i \in 5..(8 + l)
      BY <1>11
    <3> QED BY <3>1, <3>2, <3>3
  <2>2. n # s[k]
    BY <1>3, <2>1
  <2>3. u = [s EXCEPT ![k] = n]
    <3>1. PICK v \in Seq(Nat): /\ v = [s EXCEPT ![k] = n] /\ Len(v) = 7 + l
                               /\ \A j \in 1..(7 + l): v[j] = IF j = k THEN n ELSE s[j]
      <4>1. k \in 1..Len(s)
        BY <1>2
      <4>2. /\ [s EXCEPT ![k] = n] \in Seq(Nat) /\ Len([s EXCEPT ![k] = n]) = Len(s)
            /\ \A j \in 1..Len(s): [s EXCEPT ![k] = n][j] = IF j = k THEN n ELSE s[j]
        BY <4>1, ExceptSeq
      <4> QED BY <1>2, <4>2
    <3>2. ASSUME NEW j \in 1..(7 + l) PROVE u[j] = v[j]
      BY <2>1, <3>1
    <3> QED BY <1>7, <3>1, <3>2, SeqEqual
  <2>4. crc(u) # crc(s)
    <3>1. k \in DOMAIN s
      BY <1>2, LenProperties
    <3> QED BY <1>2, <1>3, <2>2, <2>3, <3>1, ChecksumDetects DEF ChecksumAssumption
  <2>5. g[4] = w[4]
    BY <1>8, <1>9, <1>11
  <2> QED BY <1>2, <1>4, <1>5, <1>6, <1>7, <2>4, <2>5 DEF crcHolds
<1> QED BY <1>10, <1>11

-----------------------------------------------------------------------------
(* The invariant.                                                          *)

\* Where the frames begin and end can be told.
Intact == altered = 0 \/ 2 \notin Alterable

\* A closed connection leaves nothing behind.
Shut ==
  ~open => /\ ~reading /\ altered = 0 /\ owed = {}
           /\ received = <<>> /\ wire = <<>> /\ coming = <<>>
           /\ \A r \in Requests: request[r] # "pending"

OwedSent == \A r \in owed: request[r] # "new"

\* A frame on its way is what the server wrote, for a request that it no
\* longer owes an answer, or that with a cell altered.
Comes(f) ==
  \E id \in Ids, a \in Answers:
    /\ f = answerFrame(id, a) \/ (altered # 0 /\ Marred(id, a, f))
    /\ id \in Requests => /\ written[id] = answerFrame(id, a)
                         /\ id \notin owed /\ request[id] # "new"
AllCome == \A k \in 1..Len(coming): Comes(coming[k])

Framed == Intact => Concatenates(coming, received \o wire)

\* Between its calls onData leaves no whole frame behind.
Read == open /\ ~reading => Len(received) < 8 \/ Len(received) < 8 + received[2]

AnsweredRightly ==
  2 \notin Alterable =>
    \A r \in Requests: request[r] = "answered" =>
      r \notin owed /\ got[r] = written[r] /\ got[r] # <<>>

\* A request whose answer was written waits only while the answer comes.
Accounted ==
  altered = 0 =>
    \A r \in Requests: request[r] = "pending" /\ r \notin owed =>
      \E k \in 1..Len(coming), a \in Answers: coming[k] = answerFrame(r, a)

FramingInv ==
  /\ FramingTypeOK /\ Shut /\ OwedSent /\ AllCome /\ Framed /\ Read
  /\ AnsweredRightly /\ Accounted

-----------------------------------------------------------------------------
(* What the invariant says of the frame that comes first.                  *)

\* Altered or not, a frame is a header at least, and only the one that was
\* written passes its check.
LEMMA FrameShape ==
  ASSUME NEW id \in Ids, NEW a \in Answers, NEW f, f = answerFrame(id, a) \/ Marred(id, a, f)
  PROVE  /\ f \in Seq(Nat) /\ Len(f) \in Nat /\ Len(f) >= 8
         /\ f = answerFrame(id, a) \/ 2 \notin Alterable => f[2] = Len(f) - 8
         /\ f = answerFrame(id, a) =>
              ReadableHeader(f) /\ f[3] = id /\ f[6] = a.status /\ crcHolds(f)
         /\ f # answerFrame(id, a) => ~crcHolds(f)
<1>1. PICK l \in Nat: HasLength(a, l)
  BY Fields DEF HasLength
<1>2. PICK w \in Seq(Nat): /\ w = answerFrame(id, a) /\ Len(w) = 8 + l /\ w[2] = l
                           /\ w[1] = MAGIC /\ w[5] = VERSION /\ w[8] = TABLE_HASH
                           /\ w[3] = id /\ w[6] = a.status
  BY <1>1, FrameFields
<1>3. CASE f = w
  <2>1. Len(w) \in Nat /\ Len(w) >= 8 /\ w[2] = Len(w) - 8
    BY <1>2
  <2>2. ReadableHeader(w) /\ crcHolds(w)
    BY <1>2, WrittenPasses DEF ReadableHeader
  <2> QED BY <1>2, <1>3, <2>1, <2>2
<1>4. CASE f # w
  <2>1. /\ f \in Seq(Nat) /\ Len(f) = Len(w) /\ ~crcHolds(f)
        /\ 2 \notin Alterable => f[2] = w[2]
    BY <1>2, <1>4, MarredFails
  <2>2. Len(f) \in Nat /\ Len(f) >= 8 /\ w[2] = Len(f) - 8
    BY <1>2, <2>1
  <2> QED BY <1>2, <1>4, <2>1, <2>2
<1> QED BY <1>3, <1>4

\* The frame that comes first is at the front of what was received.
LEMMA Front ==
  ASSUME FramingInv, Intact, HasHeader(Len(received))
  PROVE  /\ coming # <<>> /\ Head(coming) \in Seq(Nat) /\ Comes(Head(coming))
         /\ Len(Head(coming)) \in Nat /\ Total(received) = Len(Head(coming))
         /\ \A i \in 1..8: received[i] = Head(coming)[i]
         /\ Len(received) >= Total(received) =>
              /\ SubSeq(received, 1, Total(received)) = Head(coming)
              /\ Concatenates(Tail(coming), SubSeq(received, Total(received) + 1, Len(received)) \o wire)
<1>1. /\ received \in Seq(Nat) /\ wire \in Seq(Nat) /\ coming \in Seq(Seq(Nat))
      /\ AllCome /\ Concatenates(coming, received \o wire)
  BY DEF FramingInv, FramingTypeOK, Framed
<1>2. PICK m \in Nat, n \in Nat: m = Len(received) /\ n = Len(wire) /\ m >= 8
  BY <1>1, LenProperties DEF HasHeader, HEADER_SIZE
<1>3. PICK all \in Seq(Nat): /\ all = received \o wire /\ Len(all) = m + n
                             /\ Joins(all, received, m, wire, n)
  BY <1>1, <1>2, Joined
<1>4. coming # <<>>
  <2>1. SUFFICES ASSUME coming = <<>> PROVE FALSE
    OBVIOUS
  <2>2. all = <<>>
    BY <1>1, <1>3, <2>1, NothingLeft
  <2>3. Len(all) = 0
    BY <2>2, EmptySeq
  <2> QED BY <1>2, <1>3, <2>3
<1>5. PICK f \in Seq(Nat): f = Head(coming)
  BY <1>1, <1>4, HeadTailProperties
<1>6. Comes(f)
  <2>1. f = coming[1] /\ 1 \in 1..Len(coming)
    BY <1>1, <1>4, <1>5, LenProperties, EmptySeq
  <2> QED BY <1>1, <2>1 DEF AllCome
<1>7. PICK t \in Nat: t = Len(f) /\ t >= 8 /\ f[2] = t - 8
  <2>1. PICK id \in Ids, a \in Answers: f = answerFrame(id, a) \/ (altered # 0 /\ Marred(id, a, f))
    BY <1>6 DEF Comes
  <2>2. /\ Len(f) \in Nat /\ Len(f) >= 8
        /\ f = answerFrame(id, a) \/ 2 \notin Alterable => f[2] = Len(f) - 8
    BY <2>1, FrameShape
  <2>3. f = answerFrame(id, a) \/ 2 \notin Alterable
    BY <2>1 DEF Intact
  <2> QED BY <2>2, <2>3
<1>8. /\ t <= m + n /\ \A i \in 1..t: all[i] = f[i]
      /\ Concatenates(Tail(coming), SubSeq(all, t + 1, m + n))
  BY <1>1, <1>3, <1>4, <1>5, <1>7, FirstFrame
<1>9. ASSUME NEW i \in 1..t, i <= m PROVE received[i] = f[i]
  <2>1. i \in 1..m
    BY <1>9
  <2>2. all[i] = received[i]
    BY <1>3, <2>1 DEF Joins
  <2> QED BY <1>8, <2>2
<1>10. ASSUME NEW i \in 1..8 PROVE received[i] = f[i]
  <2>1. i \in 1..t /\ i <= m
    BY <1>2, <1>7
  <2> QED BY <1>9, <2>1
<1>11. Total(received) = t
  <2>1. 2 \in 1..8
    OBVIOUS
  <2>2. received[2] = t - 8
    BY <1>7, <1>10, <2>1
  <2> QED BY <2>2 DEF Total, HEADER_SIZE
<1>12. ASSUME m >= t
       PROVE  /\ SubSeq(received, 1, t) = f
              /\ Concatenates(Tail(coming), SubSeq(received, t + 1, m) \o wire)
  <2>1. \A i \in 1..m: received[i] \in Nat
    BY <1>1, <1>2, ElementOfSeq
  <2>2. PICK g \in Seq(Nat): /\ g = SubSeq(received, 1, t) /\ Len(g) = t
                             /\ \A i \in 1..t: g[i] = received[i]
    <3>1. \A i \in 1..t: received[i] \in Nat
      BY <1>12, <2>1
    <3>2. /\ SubSeq(received, 1, t) \in Seq(Nat)
          /\ Len(SubSeq(received, 1, t)) = IF 1 <= t THEN t - 1 + 1 ELSE 0
          /\ \A i \in 1..(t - 1 + 1): SubSeq(received, 1, t)[i] = received[1 + i - 1]
      BY <3>1, SubSeqProperties
    <3>3. Len(SubSeq(received, 1, t)) = t
      BY <1>7, <3>2
    <3>4. ASSUME NEW i \in 1..t PROVE SubSeq(received, 1, t)[i] = received[i]
      <4>1. i \in 1..(t - 1 + 1) /\ 1 + i - 1 = i
        OBVIOUS
      <4> QED BY <3>2, <4>1
    <3> QED BY <3>2, <3>3, <3>4
  <2>3. g = f
    <3>1. ASSUME NEW i \in 1..t PROVE g[i] = f[i]
      BY <1>9, <1>12, <2>2
    <3> QED BY <1>7, <2>2, <3>1, SeqEqual
  <2>4. SubSeq(all, t + 1, m + n) = SubSeq(received, t + 1, m) \o wire
    <3>2. SubSeq(received \o wire, t + 1, m + n) = SubSeq(received, t + 1, m) \o wire
      <4>1. PICK s \in Seq(Nat), u \in Seq(Nat): s = received /\ u = wire /\ m = Len(s) /\ n = Len(u)
        BY <1>1, <1>2
      <4>2. PICK c \in Nat: c = m + Len(u) /\ c = m + n
        BY <4>1
      <4>3. t <= m /\ m = Len(s)
        BY <1>12, <4>1
      <4>4. CutsAlike(s, u, t, m, c)
        BY <4>2, <4>3, RestOfJoin
      <4> QED BY <4>1, <4>2, <4>4 DEF Cut, CutsAlike
    <3> QED BY <1>3, <3>2
  <2> QED BY <1>8, <2>2, <2>3, <2>4
<1> QED BY <1>2, <1>4, <1>5, <1>6, <1>7, <1>10, <1>11, <1>12

-----------------------------------------------------------------------------
(* Every step keeps the invariant.                                         *)

\* The invariant holds at first.
LEMMA InitKeeps == FramingInit => FramingInv
<1> SUFFICES ASSUME FramingInit PROVE FramingInv
  OBVIOUS
<1>1. FramingTypeOK
  <2>1. <<>> \in Seq(Nat) /\ <<>> \in Seq(Seq(Nat)) /\ 0 \in 0..MaxAltered
    BY FramingAssumption, EmptySeq
  <2> QED BY <2>1 DEF FramingInit, FramingTypeOK
<1>2. Shut /\ OwedSent /\ AllCome /\ Read /\ AnsweredRightly /\ Accounted
  BY EmptySeq DEF FramingInit, Shut, OwedSent, AllCome, Read, AnsweredRightly, Accounted
<1>3. Framed
  <2>1. <<>> \in Seq(Nat) /\ <<>> \o <<>> = <<>>
    BY EmptySeq, ConcatEmptySeq
  <2> QED BY <2>1, NoFrames DEF FramingInit, Framed
<1> QED BY <1>1, <1>2, <1>3 DEF FramingInv

\* A connection starts with nothing received (the dial).
LEMMA ConnectsKeeps == FramingInv /\ Connects => FramingInv'
<1> SUFFICES ASSUME FramingInv, Connects PROVE FramingInv'
  OBVIOUS
<1>1. received = <<>> /\ UNCHANGED <<request, got, owed, written, reading, received, wire, coming, altered>>
  BY DEF FramingInv, Shut, Connects
<1>2. FramingTypeOK'
  BY <1>1 DEF FramingInv, FramingTypeOK, Connects
<1>3. Shut' /\ Read'
  BY <1>1, EmptySeq DEF Connects, Shut, Read
<1>4. OwedSent' /\ AllCome' /\ Framed' /\ AnsweredRightly' /\ Accounted'
  BY <1>1 DEF FramingInv, OwedSent, AllCome, Comes, Framed, Intact, AnsweredRightly, Accounted
<1> QED BY <1>2, <1>3, <1>4 DEF FramingInv

\* A connection given up leaves nothing behind (failAll).
LEMMA LetGoKeeps == FramingInv /\ LetGo /\ UNCHANGED got => FramingInv'
<1> SUFFICES ASSUME FramingInv, LetGo, UNCHANGED got PROVE FramingInv'
  OBVIOUS
<1>1. FramingTypeOK'
  <2>1. <<>> \in Seq(Nat) /\ <<>> \in Seq(Seq(Nat)) /\ 0 \in 0..MaxAltered
    BY FramingAssumption, EmptySeq
  <2>2. /\ request' \in [Requests -> {"new", "pending", "abandoned", "answered", "lost"}]
        /\ got' \in [Requests -> Seq(Nat)] /\ written' \in [Requests -> Seq(Nat)]
    BY <2>1 DEF FramingInv, FramingTypeOK, LetGo
  <2>3. /\ open' \in BOOLEAN /\ reading' \in BOOLEAN /\ altered' \in 0..MaxAltered
        /\ received' \in Seq(Nat) /\ wire' \in Seq(Nat) /\ coming' \in Seq(Seq(Nat))
        /\ owed' \in SUBSET Requests
    BY <2>1 DEF LetGo
  <2> QED BY <2>2, <2>3 DEF FramingTypeOK
<1>2. Shut' /\ OwedSent' /\ AllCome' /\ Read' /\ Accounted'
  BY EmptySeq DEF FramingInv, FramingTypeOK, LetGo, Shut, OwedSent, AllCome, Read, Accounted
<1>3. Framed'
  <2>1. <<>> \in Seq(Nat) /\ <<>> \o <<>> = <<>>
    BY EmptySeq, ConcatEmptySeq
  <2> QED BY <2>1, NoFrames DEF LetGo, Framed
<1>4. AnsweredRightly'
  BY DEF FramingInv, FramingTypeOK, LetGo, AnsweredRightly
<1> QED BY <1>1, <1>2, <1>3, <1>4 DEF FramingInv

\* A request sent is owed an answer (sendAndReceive).
LEMMA SendsKeeps == ASSUME NEW r \in Requests PROVE FramingInv /\ Sends(r) => FramingInv'
<1> SUFFICES ASSUME FramingInv, Sends(r) PROVE FramingInv'
  OBVIOUS
<1>1. FramingTypeOK'
  BY DEF FramingInv, FramingTypeOK, Sends, socketVars
<1>2. Shut' /\ OwedSent' /\ Framed' /\ Read'
  BY DEF FramingInv, FramingTypeOK, Sends, socketVars, Shut, OwedSent, Framed, Intact, Read
<1>3. AllCome'
  <2>1. SUFFICES ASSUME NEW k \in 1..Len(coming) PROVE Comes(coming[k])'
    BY DEF AllCome, Sends, socketVars
  <2>2. PICK id \in Ids, a \in Answers:
           /\ coming[k] = answerFrame(id, a) \/ (altered # 0 /\ Marred(id, a, coming[k]))
           /\ id \in Requests => /\ written[id] = answerFrame(id, a)
                                /\ id \notin owed /\ request[id] # "new"
    BY DEF FramingInv, AllCome, Comes
  <2>3. id \in Requests => id \notin owed' /\ request'[id] # "new" /\ written'[id] = answerFrame(id, a)
    BY <2>2 DEF FramingInv, FramingTypeOK, Sends, socketVars
  <2> QED BY <2>2, <2>3 DEF Comes, Sends, socketVars
<1>4. AnsweredRightly' /\ Accounted'
  BY DEF FramingInv, FramingTypeOK, Sends, socketVars, AnsweredRightly, Accounted
<1> QED BY <1>1, <1>2, <1>3, <1>4 DEF FramingInv

\* The answer to a request that timed out still comes.
LEMMA TimesOutKeeps == ASSUME NEW r \in Requests PROVE FramingInv /\ TimesOut(r) => FramingInv'
<1> SUFFICES ASSUME FramingInv, TimesOut(r) PROVE FramingInv'
  OBVIOUS
<1>1. FramingTypeOK'
  BY DEF FramingInv, FramingTypeOK, TimesOut, socketVars
<1>2. Shut' /\ OwedSent' /\ Framed' /\ Read'
  BY DEF FramingInv, FramingTypeOK, TimesOut, socketVars, Shut, OwedSent, Framed, Intact, Read
<1>3. AllCome'
  <2>1. SUFFICES ASSUME NEW k \in 1..Len(coming) PROVE Comes(coming[k])'
    BY DEF AllCome, TimesOut, socketVars
  <2>2. PICK id \in Ids, a \in Answers:
           /\ coming[k] = answerFrame(id, a) \/ (altered # 0 /\ Marred(id, a, coming[k]))
           /\ id \in Requests => /\ written[id] = answerFrame(id, a)
                                /\ id \notin owed /\ request[id] # "new"
    BY DEF FramingInv, AllCome, Comes
  <2>3. id \in Requests => id \notin owed' /\ request'[id] # "new" /\ written'[id] = answerFrame(id, a)
    BY <2>2 DEF FramingInv, FramingTypeOK, TimesOut, socketVars
  <2> QED BY <2>2, <2>3 DEF Comes, TimesOut, socketVars
<1>4. AnsweredRightly' /\ Accounted'
  BY DEF FramingInv, FramingTypeOK, TimesOut, socketVars, AnsweredRightly, Accounted
<1> QED BY <1>1, <1>2, <1>3, <1>4 DEF FramingInv

\* onData returns when there is no whole frame.
LEMMA WaitsKeeps == FramingInv /\ Waits(received, Len(received)) => FramingInv'
<1> SUFFICES ASSUME FramingInv, Waits(received, Len(received)) PROVE FramingInv'
  OBVIOUS
<1>1. /\ open /\ reading' = FALSE
      /\ UNCHANGED <<request, got, owed, written, open, received, wire, coming, altered>>
  BY DEF FramingInv, Shut, Waits
<1>2. Read'
  <2>1. Len(received) \in Nat
    BY LenProperties DEF FramingInv, FramingTypeOK
  <2> QED BY <1>1, <2>1 DEF Waits, Read, HasHeader, Total, HEADER_SIZE
<1>3. FramingTypeOK' /\ Shut'
  BY <1>1 DEF FramingInv, FramingTypeOK, Shut
<1>5. OwedSent' /\ AnsweredRightly' /\ Framed' /\ Accounted'
  BY <1>1 DEF FramingInv, OwedSent, AnsweredRightly, Framed, Intact, Accounted
<1>4. AllCome'
  BY <1>1 DEF FramingInv, AllCome, Comes
<1> QED BY <1>2, <1>3, <1>4, <1>5 DEF FramingInv

\* A chunk moves cells from the wire to what was received.
LEMMA ArrivesKeeps == ASSUME NEW n \in 1..Len(wire) PROVE FramingInv /\ Arrives(n) => FramingInv'
<1> SUFFICES ASSUME FramingInv, Arrives(n) PROVE FramingInv'
  OBVIOUS
<1>1. received \in Seq(Nat) /\ wire \in Seq(Nat) /\ Len(wire) \in Nat
  BY LenProperties DEF FramingInv, FramingTypeOK
<1>2. PICK x \in Seq(Nat), y \in Seq(Nat): /\ x = SubSeq(wire, 1, n)
                                            /\ y = SubSeq(wire, n + 1, Len(wire)) /\ x \o y = wire
  <2>1. 1 \in 1..(Len(wire) + 1) /\ n \in (1 - 1)..Len(wire) /\ Len(wire) \in n..Len(wire)
    BY <1>1
  <2>2. SubSeq(wire, 1, n) \o SubSeq(wire, n + 1, Len(wire)) = wire
    BY <1>1, <2>1, ConcatAdjacentSubSeq, SubSeqFull
  <2>3. \A i \in 1..Len(wire): wire[i] \in Nat
    BY <1>1, ElementOfSeq
  <2>4. (\A i \in 1..n: wire[i] \in Nat) /\ (\A i \in (n + 1)..Len(wire): wire[i] \in Nat)
    BY <1>1, <2>3
  <2>5. SubSeq(wire, 1, n) \in Seq(Nat) /\ SubSeq(wire, n + 1, Len(wire)) \in Seq(Nat)
    BY <1>1, <2>4, SubSeqProperties
  <2> QED BY <2>2, <2>5
<1>3. received' = received \o x /\ wire' = y
  BY <1>2 DEF Arrives
<1>4. received' \in Seq(Nat) /\ wire' \in Seq(Nat)
  BY <1>1, <1>2, <1>3, ConcatProperties
<1>5. (received \o wire)' = received \o wire
  <2>1. (received \o x) \o y = received \o (x \o y)
    <3>1. PICK s \in Seq(Nat): s = received
      BY <1>1
    <3>2. Associates(s, x, y)
      BY Associated
    <3> QED BY <3>1, <3>2 DEF Associates
  <2> QED BY <1>2, <1>3, <2>1
<1>6. FramingTypeOK'
  BY <1>4 DEF FramingInv, FramingTypeOK, Arrives
<1>7. Shut' /\ Read' /\ OwedSent' /\ AnsweredRightly' /\ Accounted'
  BY DEF FramingInv, FramingTypeOK, Arrives, Shut, Read, OwedSent, AnsweredRightly, Accounted
<1>8. Framed'
  BY <1>5 DEF FramingInv, Arrives, Framed, Intact
<1>9. AllCome'
  BY DEF FramingInv, Arrives, AllCome, Comes
<1> QED BY <1>6, <1>7, <1>8, <1>9 DEF FramingInv

\* What the server writes comes last.
LEMMA WritesKeeps ==
  ASSUME NEW id \in Ids, NEW a \in Answers PROVE FramingInv /\ ServerWrites(id, a) => FramingInv'
<1> SUFFICES ASSUME FramingInv, ServerWrites(id, a) PROVE FramingInv'
  OBVIOUS
<1>1. PICK w \in Seq(Nat): w = answerFrame(id, a) /\ w # <<>>
  <2>1. answerFrame(id, a) \in Seq(Nat) /\ Len(answerFrame(id, a)) >= 8
    BY FrameShape
  <2> QED BY <2>1, EmptySeq
<1>2. PICK f \in AsArrives(w): /\ wire' = wire \o f /\ coming' = Append(coming, f)
                               /\ altered' = altered + (IF f = w THEN 0 ELSE 1)
  BY <1>1 DEF ServerWrites
<1>3. /\ open /\ id \in owed \cup {NOBODY} /\ owed' = owed \ {id}
      /\ written' = [r \in Requests |-> IF r = id THEN w ELSE written[r]]
      /\ UNCHANGED <<request, got, open, reading, received>>
  BY <1>1 DEF ServerWrites
<1>4. altered \in 0..MaxAltered /\ MaxAltered \in Nat
  BY FramingAssumption DEF FramingInv, FramingTypeOK
<1>5. f = w \/ (altered # MaxAltered /\ Marred(id, a, f))
  <2>1. CASE f = w
    BY <2>1
  <2>2. CASE f # w
    <3>1. altered # MaxAltered
      BY <2>2 DEF AsArrives
    <3>2. PICK i \in DOMAIN w \cap Alterable, n \in Cells: f = [w EXCEPT ![i] = n]
      BY <2>2, <3>1 DEF AsArrives
    <3>3. n # w[i]
      <4>1. SUFFICES ASSUME n = w[i] PROVE FALSE
        OBVIOUS
      <4>2. i \in 1..Len(w) /\ n \in Nat
        BY <3>2, FramingAssumption, LenProperties
      <4>3. /\ f \in Seq(Nat) /\ Len(f) = Len(w)
            /\ \A j \in 1..Len(w): f[j] = IF j = i THEN n ELSE w[j]
        BY <3>2, <4>2, ExceptSeq
      <4>4. \A j \in 1..Len(w): f[j] = w[j]
        BY <4>1, <4>3
      <4>5. f = w
        BY <4>3, <4>4, SeqEqual
      <4> QED BY <2>2, <4>5
    <3> QED BY <1>1, <3>1, <3>2, <3>3 DEF Marred
  <2> QED BY <2>1, <2>2
<1>6. f \in Seq(Nat)
  BY <1>1, <1>5, FrameShape
<1>7. altered' \in 0..MaxAltered /\ (altered' = 0 => altered = 0 /\ f = w) /\ (f # w => altered' # 0)
      /\ (altered # 0 => altered' # 0)
  BY <1>2, <1>4, <1>5
<1>8. /\ received \in Seq(Nat) /\ wire \in Seq(Nat) /\ coming \in Seq(Seq(Nat))
      /\ wire' \in Seq(Nat) /\ coming' \in Seq(Seq(Nat))
  <2>1. received \in Seq(Nat) /\ wire \in Seq(Nat) /\ coming \in Seq(Seq(Nat))
    BY DEF FramingInv, FramingTypeOK
  <2>2. wire \o f \in Seq(Nat) /\ Append(coming, f) \in Seq(Seq(Nat))
    BY <1>6, <2>1, ConcatProperties, AppendProperties
  <2> QED BY <1>2, <2>1, <2>2
<1>9. /\ Len(coming) \in Nat /\ Len(coming') = Len(coming) + 1 /\ coming'[Len(coming) + 1] = f
      /\ \A k \in 1..Len(coming): coming'[k] = coming[k]
  BY <1>2, <1>6, <1>8, AppendProperties, LenProperties
<1>10. FramingTypeOK'
  BY <1>1, <1>3, <1>7, <1>8 DEF FramingInv, FramingTypeOK
<1>11. Shut' /\ Read' /\ OwedSent'
  BY <1>3 DEF FramingInv, Shut, Read, OwedSent
<1>12. id \in Requests => id \in owed /\ request[id] # "new" /\ written'[id] = w /\ id \notin owed'
  BY <1>3, FramingAssumption DEF FramingInv, OwedSent
<1>13. AllCome'
  <2>1. SUFFICES ASSUME NEW k \in 1..(Len(coming) + 1) PROVE Comes(coming[k])'
    BY <1>9 DEF AllCome
  <2>2. CASE k = Len(coming) + 1
    <3>1. coming'[k] = f
      BY <1>9, <2>2
    <3>2. f = answerFrame(id, a) \/ (altered' # 0 /\ Marred(id, a, f))
      BY <1>1, <1>5, <1>7
    <3>3. id \in Requests => written'[id] = answerFrame(id, a) /\ id \notin owed' /\ request'[id] # "new"
      BY <1>1, <1>3, <1>12
    <3> QED BY <3>1, <3>2, <3>3 DEF Comes
  <2>3. CASE k \in 1..Len(coming)
    <3>1. PICK jd \in Ids, b \in Answers:
             /\ coming[k] = answerFrame(jd, b) \/ (altered # 0 /\ Marred(jd, b, coming[k]))
             /\ jd \in Requests => /\ written[jd] = answerFrame(jd, b)
                                  /\ jd \notin owed /\ request[jd] # "new"
      BY <2>3 DEF FramingInv, AllCome, Comes
    <3>2. coming'[k] = coming[k]
      BY <1>9, <2>3
    <3>3. coming'[k] = answerFrame(jd, b) \/ (altered' # 0 /\ Marred(jd, b, coming'[k]))
      BY <1>7, <3>1, <3>2
    <3>4. jd \in Requests => /\ written'[jd] = answerFrame(jd, b)
                            /\ jd \notin owed' /\ request'[jd] # "new"
      BY <1>3, <1>12, <3>1
    <3> QED BY <3>3, <3>4 DEF Comes
  <2> QED BY <1>9, <2>2, <2>3
<1>14. Framed'
  <2>1. SUFFICES ASSUME Intact' PROVE Concatenates(coming', received' \o wire')
    BY DEF Framed
  <2>2. Intact
    BY <1>7, <2>1 DEF Intact
  <2>3. PICK s \in Seq(Nat), u \in Seq(Nat): s = received /\ u = wire
    BY <1>8
  <2>4. PICK all \in Seq(Nat): all = s \o u
    BY ConcatProperties
  <2>5. Concatenates(coming, all)
    BY <2>2, <2>3, <2>4 DEF FramingInv, Framed
  <2>6. Concatenates(Append(coming, f), all \o f)
    BY <1>6, <1>8, <2>5, FrameAdded
  <2>7. (s \o u) \o f = s \o (u \o f)
    <3>1. PICK g \in Seq(Nat): g = f
      BY <1>6
    <3>2. Associates(s, u, g)
      BY Associated
    <3> QED BY <3>1, <3>2 DEF Associates
  <2> QED BY <1>2, <1>3, <2>3, <2>4, <2>6, <2>7
<1>15. AnsweredRightly'
  <2>1. SUFFICES ASSUME 2 \notin Alterable, NEW r \in Requests, request[r] = "answered"
                 PROVE  r \notin owed' /\ got[r] = written'[r] /\ got[r] # <<>>
    BY <1>3 DEF AnsweredRightly
  <2>2. r \notin owed /\ got[r] = written[r] /\ got[r] # <<>>
    BY <2>1 DEF FramingInv, AnsweredRightly
  <2>3. r # id
    BY <1>12, <2>2
  <2> QED BY <1>3, <2>2, <2>3
<1>16. Accounted'
  <2>1. SUFFICES ASSUME altered' = 0, NEW r \in Requests, request[r] = "pending", r \notin owed'
                 PROVE  \E k \in 1..(Len(coming) + 1), b \in Answers: coming'[k] = answerFrame(r, b)
    BY <1>3, <1>9 DEF Accounted
  <2>2. CASE r = id
    <3>1. coming'[Len(coming) + 1] = answerFrame(r, a)
      BY <1>1, <1>7, <1>9, <2>1, <2>2
    <3>2. Len(coming) + 1 \in 1..(Len(coming) + 1)
      BY <1>9
    <3> QED BY <3>1, <3>2
  <2>3. CASE r # id
    <3>1. r \notin owed /\ altered = 0
      BY <1>3, <1>7, <2>1, <2>3
    <3>2. PICK k \in 1..Len(coming), b \in Answers: coming[k] = answerFrame(r, b)
      BY <2>1, <3>1 DEF FramingInv, Accounted
    <3>3. k \in 1..(Len(coming) + 1) /\ coming'[k] = answerFrame(r, b)
      BY <1>9, <3>2
    <3> QED BY <3>3
  <2> QED BY <2>2, <2>3
<1> QED BY <1>10, <1>11, <1>13, <1>14, <1>15, <1>16 DEF FramingInv

\* A frame taken is the one that comes first, or the frames cannot be told.
LEMMA TakesKeeps == FramingInv /\ TakesFrame(received, Len(received)) => FramingInv'
<1> SUFFICES ASSUME FramingInv, TakesFrame(received, Len(received)) PROVE FramingInv'
  OBVIOUS
<1>1. /\ reading /\ HasHeader(Len(received)) /\ Len(received) >= Total(received)
      /\ open /\ received \in Seq(Nat) /\ wire \in Seq(Nat) /\ coming \in Seq(Seq(Nat))
  BY DEF FramingInv, FramingTypeOK, Shut, TakesFrame
<1>2. PICK m \in Nat, t \in Nat: m = Len(received) /\ t = Total(received) /\ t >= 8 /\ t <= m
  <2>1. Len(received) \in Nat /\ Len(received) >= 8
    BY <1>1, LenProperties DEF HasHeader, HEADER_SIZE
  <2>2. 2 \in 1..Len(received)
    BY <2>1
  <2>3. received[2] \in Nat
    BY <1>1, <2>2, ElementOfSeq
  <2>4. Total(received) \in Nat /\ Total(received) >= 8
    BY <2>3 DEF Total, HEADER_SIZE
  <2> QED BY <1>1, <2>1, <2>4
<1>3. PICK f \in Seq(Nat): f = SubSeq(received, 1, t) /\ Len(f) = t
  <2>1. \A i \in 1..t: received[i] \in Nat
    <3>1. SUFFICES ASSUME NEW i \in 1..t PROVE received[i] \in Nat
      OBVIOUS
    <3>2. i \in 1..Len(received)
      BY <1>2
    <3> QED BY <1>1, <3>2, ElementOfSeq
  <2>2. SubSeq(received, 1, t) \in Seq(Nat) /\ Len(SubSeq(received, 1, t)) = IF 1 <= t THEN t - 1 + 1 ELSE 0
    BY <2>1, SubSeqProperties
  <2>3. Len(SubSeq(received, 1, t)) = t
    BY <1>2, <2>2
  <2> QED BY <2>2, <2>3
<1>4. PICK rest \in Seq(Nat): rest = SubSeq(received, t + 1, m)
  <2>1. PICK k \in Nat: m = t + k
    <3>1. m - t \in Nat /\ m = t + (m - t)
      BY <1>2
    <3> QED BY <3>1
  <2>2. PICK s \in Seq(Nat): s = received /\ m = Len(s)
    BY <1>1, <1>2
  <2>3. SubSeq(s, t + 1, m) \in Seq(Nat)
    BY <2>1, <2>2, RestOf
  <2> QED BY <2>2, <2>3
<1>5. DEFINE onward == /\ received' = rest
                       /\ coming' = IF coming = <<>> THEN coming ELSE Tail(coming)
                       /\ UNCHANGED <<open, reading, wire, owed, written, altered>>
<1>6. \/ Waited(f[3]) /\ SettlesRequest(f[3], f) /\ onward
      \/ LetGo /\ UNCHANGED got
      \/ ~Waited(f[3]) /\ onward /\ UNCHANGED <<request, got>>
  BY <1>2, <1>3, <1>4 DEF TakesFrame
<1>7. Intact => /\ coming # <<>> /\ f = Head(coming) /\ Comes(f)
                /\ Concatenates(Tail(coming), rest \o wire)
  BY <1>1, <1>2, <1>3, <1>4, Front
<1>8. CASE LetGo /\ UNCHANGED got
  BY <1>8, LetGoKeeps
<1>9. ASSUME onward, \/ Waited(f[3]) /\ SettlesRequest(f[3], f)
                     \/ ~Waited(f[3]) /\ UNCHANGED <<request, got>>
      PROVE  FramingInv'
  <2> HIDE DEF onward
  <2>1. /\ received' = rest /\ coming' = (IF coming = <<>> THEN coming ELSE Tail(coming))
        /\ UNCHANGED <<open, reading, wire, owed, written, altered>>
    BY <1>9 DEF onward
  <2>2. \/ UNCHANGED <<request, got>>
        \/ /\ f[3] \in Requests /\ request[f[3]] = "pending"
           /\ \/ crcHolds(f) /\ request' = [request EXCEPT ![f[3]] = "answered"] /\ got' = [got EXCEPT ![f[3]] = f]
              \/ ~crcHolds(f) /\ request' = [request EXCEPT ![f[3]] = "lost"] /\ got' = got
    BY <1>9 DEF Waited, SettlesRequest
  <2>3. /\ coming' \in Seq(Seq(Nat))
        /\ \A k \in 1..Len(coming'): \E j \in 1..Len(coming): coming'[k] = coming[j]
    <3>1. CASE coming = <<>>
      BY <1>1, <2>1, <3>1
    <3>2. CASE coming # <<>>
      <4>1. /\ Tail(coming) \in Seq(Seq(Nat)) /\ Len(Tail(coming)) = Len(coming) - 1
            /\ \A i \in 1..Len(Tail(coming)): Tail(coming)[i] = coming[i + 1]
        BY <1>1, <3>2, HeadTailProperties
      <4>2. Len(coming) \in Nat
        BY <1>1, LenProperties
      <4>3. ASSUME NEW k \in 1..Len(Tail(coming)) PROVE k + 1 \in 1..Len(coming)
        BY <4>1, <4>2
      <4>4. coming' = Tail(coming)
        BY <2>1, <3>2
      <4> QED BY <4>1, <4>3, <4>4
    <3> QED BY <3>1, <3>2
  <2>4. FramingTypeOK'
    <3>1. /\ request' \in [Requests -> {"new", "pending", "abandoned", "answered", "lost"}]
          /\ got' \in [Requests -> Seq(Nat)]
      <4>1. /\ request \in [Requests -> {"new", "pending", "abandoned", "answered", "lost"}]
            /\ got \in [Requests -> Seq(Nat)]
        BY DEF FramingInv, FramingTypeOK
      <4>2. CASE UNCHANGED <<request, got>>
        BY <4>1, <4>2
      <4>3. CASE request' = [request EXCEPT ![f[3]] = "answered"] /\ got' = [got EXCEPT ![f[3]] = f]
        BY <4>1, <4>3
      <4>4. CASE request' = [request EXCEPT ![f[3]] = "lost"] /\ got' = got
        BY <4>1, <4>4
      <4> QED BY <2>2, <4>2, <4>3, <4>4
    <3>2. received' \in Seq(Nat)
      BY <2>1
    <3> QED BY <2>1, <2>3, <3>1, <3>2 DEF FramingInv, FramingTypeOK
  <2>5. Shut' /\ Read'
    BY <1>1, <2>1 DEF Shut, Read
  <2>6. \A r \in Requests: request[r] # "new" => request'[r] # "new"
    BY <2>2 DEF FramingInv, FramingTypeOK
  <2>7. OwedSent'
    BY <2>1, <2>6 DEF FramingInv, FramingTypeOK, OwedSent
  <2>8. AllCome'
    <3>1. SUFFICES ASSUME NEW k \in 1..Len(coming') PROVE Comes(coming[k])'
      BY DEF AllCome
    <3>2. PICK j \in 1..Len(coming): coming'[k] = coming[j]
      BY <2>3
    <3>3. PICK id \in Ids, a \in Answers:
             /\ coming[j] = answerFrame(id, a) \/ (altered # 0 /\ Marred(id, a, coming[j]))
             /\ id \in Requests => /\ written[id] = answerFrame(id, a)
                                  /\ id \notin owed /\ request[id] # "new"
      BY DEF FramingInv, AllCome, Comes
    <3>4. coming'[k] = answerFrame(id, a) \/ (altered' # 0 /\ Marred(id, a, coming'[k]))
      BY <2>1, <3>2, <3>3
    <3>5. id \in Requests => written'[id] = answerFrame(id, a) /\ id \notin owed' /\ request'[id] # "new"
      BY <2>1, <2>6, <3>3
    <3> QED BY <3>4, <3>5 DEF Comes
  <2>9. Framed'
    <3>1. SUFFICES ASSUME Intact' PROVE Concatenates(coming', received' \o wire')
      BY DEF Framed
    <3>2. Intact
      BY <2>1, <3>1 DEF Intact
    <3>3. coming' = Tail(coming) /\ received' = rest /\ wire' = wire
      BY <1>7, <2>1, <3>2
    <3> QED BY <1>7, <3>2, <3>3
  <2>10. AnsweredRightly'
    <3>1. SUFFICES ASSUME 2 \notin Alterable, NEW r \in Requests, request'[r] = "answered"
                   PROVE  r \notin owed /\ got'[r] = written[r] /\ got'[r] # <<>>
      BY <2>1 DEF AnsweredRightly
    <3>2. CASE request[r] = "answered"
      <4>1. got'[r] = got[r]
        BY <2>2, <3>2 DEF FramingInv, FramingTypeOK
      <4>2. r \notin owed /\ got[r] = written[r] /\ got[r] # <<>>
        BY <3>1, <3>2 DEF FramingInv, AnsweredRightly
      <4> QED BY <4>1, <4>2
    <3>3. CASE request[r] # "answered"
      <4>1. r = f[3] /\ crcHolds(f) /\ got'[r] = f
        BY <2>2, <3>1, <3>3 DEF FramingInv, FramingTypeOK
      <4>2. Comes(f)
        BY <1>7, <3>1 DEF Intact
      <4>3. PICK id \in Ids, a \in Answers:
               /\ f = answerFrame(id, a) \/ (altered # 0 /\ Marred(id, a, f))
               /\ id \in Requests => /\ written[id] = answerFrame(id, a)
                                    /\ id \notin owed /\ request[id] # "new"
        BY <4>2 DEF Comes
      <4>4. f = answerFrame(id, a) /\ f[3] = id
        BY <4>1, <4>3, FrameShape
      <4>5. f # <<>>
        <5>1. Len(f) # 0
          BY <1>2, <1>3
        <5> QED BY <5>1, EmptySeq
      <4> QED BY <4>1, <4>3, <4>4, <4>5
    <3> QED BY <3>2, <3>3
  <2>11. Accounted'
    <3>1. SUFFICES ASSUME altered = 0, NEW r \in Requests, request'[r] = "pending", r \notin owed
                   PROVE  \E k \in 1..Len(coming'), a \in Answers: coming'[k] = answerFrame(r, a)
      BY <2>1 DEF Accounted
    <3>2. request[r] = "pending"
      BY <2>2, <3>1 DEF FramingInv, FramingTypeOK
    <3>3. PICK k \in 1..Len(coming), a \in Answers: coming[k] = answerFrame(r, a)
      BY <3>1, <3>2 DEF FramingInv, Accounted
    <3>4. coming # <<>> /\ f = Head(coming) /\ coming' = Tail(coming)
      BY <1>7, <2>1, <3>1 DEF Intact
    <3>5. /\ Head(coming) = coming[1] /\ Len(coming) \in Nat
          /\ Len(coming') = Len(coming) - 1
          /\ \A i \in 1..Len(coming'): coming'[i] = coming[i + 1]
      BY <1>1, <3>4, HeadTailProperties, LenProperties
    <3>6. CASE k = 1
      <4>1. f = answerFrame(r, a)
        BY <3>3, <3>4, <3>5, <3>6
      <4>2. f[3] = r
        BY <4>1, FrameShape DEF Ids
      <4>3. Waited(f[3])
        BY <3>2, <4>2 DEF Waited
      <4>4. request'[r] # "pending"
        BY <1>9, <4>2, <4>3 DEF SettlesRequest, FramingInv, FramingTypeOK
      <4> QED BY <3>1, <4>4
    <3>7. CASE k # 1
      <4>1. k - 1 \in 1..Len(coming') /\ (k - 1) + 1 = k
        BY <3>5, <3>7
      <4>2. coming'[k - 1] = coming[k]
        BY <3>5, <4>1
      <4> QED BY <3>3, <4>1, <4>2
    <3> QED BY <3>6, <3>7
  <2> QED BY <2>4, <2>5, <2>7, <2>8, <2>9, <2>10, <2>11 DEF FramingInv
<1> QED BY <1>6, <1>8, <1>9

\* Every step keeps the invariant.
LEMMA FramingStep == FramingInv /\ [FramingNext]_framingVars => FramingInv'
<1> SUFFICES ASSUME FramingInv, [FramingNext]_framingVars PROVE FramingInv'
  OBVIOUS
<1>1. CASE Connects
  BY <1>1, ConnectsKeeps
<1>2. CASE ConnectionEnds
  BY <1>2, LetGoKeeps DEF ConnectionEnds
<1>3. ASSUME NEW r \in Requests, Sends(r) \/ TimesOut(r) PROVE FramingInv'
  BY <1>3, SendsKeeps, TimesOutKeeps
<1>4. ASSUME NEW id \in Ids, NEW a \in Answers, ServerWrites(id, a) PROVE FramingInv'
  BY <1>4, WritesKeeps
<1>5. ASSUME NEW n \in 1..Len(wire), Arrives(n) PROVE FramingInv'
  BY <1>5, ArrivesKeeps
<1>6. CASE Waits(received, Len(received))
  BY <1>6, WaitsKeeps
<1>7. CASE Unframeable(received, Len(received))
  BY <1>7, LetGoKeeps DEF Unframeable
<1>8. CASE TakesFrame(received, Len(received))
  BY <1>8, TakesKeeps
<1>9. CASE UNCHANGED framingVars
  BY <1>9 DEF framingVars, socketVars, FramingInv, FramingTypeOK, Shut, OwedSent, AllCome, Comes,
              Framed, Intact, Read, AnsweredRightly, Accounted
<1> QED BY <1>1, <1>2, <1>3, <1>4, <1>5, <1>6, <1>7, <1>8, <1>9 DEF FramingNext

-----------------------------------------------------------------------------
(* The theorems.                                                           *)

\* FramingInv is an invariant of Framing: with every chunk, however it is
\* cut, the received cells and the wire are the frames that are coming.
THEOREM FramingInvariance == FramingSpec => []FramingInv
<1> QED BY InitKeeps, FramingStep, PTL DEF FramingSpec

\* Every variable of Framing keeps its type, whatever bits are altered.
THEOREM FramingTypes == FramingSpec => []FramingTypeOK
<1>1. FramingInv => FramingTypeOK
  BY DEF FramingInv
<1> QED BY <1>1, FramingInvariance, PTL

\* FramesAsSent is a part of the invariant, when lengths are not altered.
LEMMA FramedRightly == 2 \notin Alterable /\ FramingInv => FramesAsSent
<1> SUFFICES ASSUME 2 \notin Alterable, FramingInv PROVE FramesAsSent
  OBVIOUS
<1>1. \A r \in Requests: request[r] = "answered" => got[r] = written[r] /\ got[r] # <<>>
  BY DEF FramingInv, AnsweredRightly
<1>2. ASSUME open, ~reading, altered = 0, wire = <<>>
      PROVE  received = <<>> /\ \A r \in Requests: request[r] = "pending" => r \in owed
  <2>1. PICK s \in Seq(Nat): s = received
    BY DEF FramingInv, FramingTypeOK
  <2>2. coming \in Seq(Seq(Nat)) /\ Concatenates(coming, s)
    <3>1. s \o <<>> = s
      BY ConcatEmptySeq
    <3>2. Concatenates(coming, s \o <<>>)
      BY <1>2, <2>1 DEF FramingInv, Framed, Intact
    <3> QED BY <3>1, <3>2 DEF FramingInv, FramingTypeOK
  <2>3. coming = <<>>
    <3>1. SUFFICES ASSUME coming # <<>> PROVE FALSE
      OBVIOUS
    <3>2. PICK f \in Seq(Nat): /\ f = Head(coming) /\ Len(f) <= Len(s)
                               /\ \A i \in 1..Len(f): s[i] = f[i]
      BY <2>2, <3>1, FirstFrame
    <3>3. Comes(f)
      <4>1. f = coming[1] /\ 1 \in 1..Len(coming)
        BY <2>2, <3>1, <3>2, LenProperties, EmptySeq
      <4> QED BY <4>1 DEF FramingInv, AllCome
    <3>4. PICK id \in Ids, a \in Answers: f = answerFrame(id, a)
      BY <1>2, <3>3 DEF Comes
    <3>5. Len(f) \in Nat /\ Len(f) >= 8 /\ f[2] = Len(f) - 8
      BY <3>4, FrameShape
    <3>6. 2 \in 1..Len(f)
      BY <3>5
    <3>7. s[2] = Len(f) - 8
      BY <3>2, <3>5, <3>6
    <3>8. Len(s) < 8 \/ Len(s) < 8 + s[2]
      BY <1>2, <2>1 DEF FramingInv, Read
    <3>9. Len(s) \in Nat
      BY LenProperties
    <3> QED BY <3>2, <3>5, <3>7, <3>8, <3>9
  <2>4. s = <<>>
    BY <2>2, <2>3, NothingLeft
  <2>5. ASSUME NEW r \in Requests, request[r] = "pending", r \notin owed PROVE FALSE
    <3>1. Len(coming) = 0
      BY <2>3, EmptySeq
    <3>2. \E k \in 1..Len(coming), a \in Answers: coming[k] = answerFrame(r, a)
      BY <1>2, <2>5 DEF FramingInv, Accounted
    <3> QED BY <3>1, <3>2
  <2> QED BY <2>1, <2>4, <2>5
<1> QED BY <1>1, <1>2 DEF FramesAsSent

\* A request is answered by the very frame the server wrote for it, however
\* the frames are cut into chunks and whatever cell of them is altered, but
\* for their lengths: with a length altered, cells of several frames are
\* checked as one, of which ChecksumDetects says nothing.
THEOREM FramesComeAsSent ==
  ASSUME 2 \notin Alterable PROVE FramingSpec => []FramesAsSent
<1>1. FramingInv => FramesAsSent
  BY FramedRightly
<1> QED BY <1>1, FramingInvariance, PTL

\* One round of onData that gives a connection up has its reason.
LEMMA GivesUpStep ==
  ASSUME FramingInv, FramingNext, reading, altered = 0, open, ~open'
  PROVE  /\ coming # <<>>
         /\ \/ Len(Head(coming)) > MAX_ANSWER_BYTES
            \/ Head(coming)[3] = NOBODY /\ Head(coming)[6] # STATUS_OK
<1>1. Unframeable(received, Len(received)) \/ TakesFrame(received, Len(received))
  BY DEF FramingNext, Connects, ConnectionEnds, Sends, TimesOut, ServerWrites, Arrives, Waits, socketVars
<1>2. HasHeader(Len(received)) /\ Intact
  BY <1>1 DEF Unframeable, TakesFrame, Intact
<1>3. PICK f: f = Head(coming)
  OBVIOUS
<1>4. /\ coming # <<>> /\ f \in Seq(Nat) /\ Comes(f) /\ Len(f) \in Nat /\ Total(received) = Len(f)
      /\ \A i \in 1..8: received[i] = f[i]
      /\ Len(received) >= Total(received) => SubSeq(received, 1, Total(received)) = f
  BY <1>2, <1>3, Front
<1>5. PICK id \in Ids, a \in Answers: f = answerFrame(id, a)
  BY <1>4 DEF Comes
<1>6. ReadableHeader(f) /\ f[2] = Len(f) - 8 /\ Len(f) >= 8
  BY <1>5, FrameShape
<1>7. received[1] = f[1] /\ received[2] = f[2] /\ received[5] = f[5] /\ received[8] = f[8]
  <2>1. 1 \in 1..8 /\ 2 \in 1..8 /\ 5 \in 1..8 /\ 8 \in 1..8
    OBVIOUS
  <2> QED BY <1>4, <2>1
<1>8. CASE Unframeable(received, Len(received))
  <2>1. ReadableHeader(received)
    BY <1>6, <1>7 DEF ReadableHeader
  <2>2. received[2] > MAX_ANSWER_BYTES - 8
    BY <1>8, <2>1 DEF Unframeable, TooLarge, HEADER_SIZE
  <2>3. Len(f) > MAX_ANSWER_BYTES
    BY <1>4, <1>6, <1>7, <2>2, FramingAssumption
  <2> QED BY <1>3, <1>4, <2>3
<1>9. CASE TakesFrame(received, Len(received))
  <2>1. SubSeq(received, 1, Total(received)) = f
    BY <1>4, <1>9 DEF TakesFrame
  <2>2. f[3] = NOBODY /\ f[6] # STATUS_OK
    BY <1>9, <2>1 DEF TakesFrame
  <2> QED BY <1>3, <1>4, <2>2
<1> QED BY <1>1, <1>8, <1>9

\* While nothing is altered onData gives a connection up only for an answer
\* that is too large, or for the server's word on a request it could not
\* parse: whole frames are never misread.
THEOREM GivesUpRightly == FramingSpec => GivesUpForAReason
<1>1. FramingInv /\ [FramingNext]_framingVars =>
        [reading /\ altered = 0 /\ open /\ ~open' =>
           /\ coming # <<>>
           /\ \/ Len(Head(coming)) > MAX_ANSWER_BYTES
              \/ Head(coming)[3] = NOBODY /\ Head(coming)[6] # STATUS_OK]_framingVars
  BY GivesUpStep
<1> QED BY <1>1, FramingInvariance, PTL DEF FramingSpec, GivesUpForAReason

-----------------------------------------------------------------------------
(* The chunks joined.                                                      *)

Below == {ss \in Nat \X Nat: ss[1] < ss[2]}

\* A set of numbers with none less than all has none.
LEMMA Least ==
  ASSUME NEW T, T \subseteq Nat, T # {}
  PROVE  \E m \in T: \A n \in T: m <= n
<1>1. IsWellFoundedOn(Below, Nat)
  BY NatLessThanWellFounded DEF OpToRel, Below
<1>2. \E m \in T: \A n \in T: ~ (<<n, m>> \in Below)
  BY <1>1, WFMin
<1>3. ASSUME NEW m \in T, NEW n \in T, ~(<<n, m>> \in Below) PROVE m <= n
  BY <1>3 DEF Below
<1> QED BY <1>2, <1>3

\* The first n chunks joined, for each n.
Upto(cs, f) == f = [n \in 0..Len(cs) |-> IF n = 0 THEN <<>> ELSE f[n - 1] \o cs[n]]

LEMMA JoinedUpto ==
  ASSUME NEW cs, NEW g, Upto(cs, g)
  PROVE  \E f: Upto(cs, f) /\ joined(cs) = f[Len(cs)]
<1>1. joined(cs) = (CHOOSE f: Upto(cs, f))[Len(cs)]
  BY DEF joined, Upto
<1> QED BY <1>1

\* What comes before the place e of some cells.
UpTo(cells, e) == SubSeq(cells, 1, e)
Extends(cells, d, x, e) == UpTo(cells, d) \o x = UpTo(cells, e)

\* The start of some cells.
LEMMA StartOf ==
  ASSUME NEW cells \in Seq(Nat), NEW a \in Nat, a <= Len(cells)
  PROVE  /\ UpTo(cells, a) \in Seq(Nat) /\ Len(UpTo(cells, a)) = a
         /\ \A i \in 1..a: UpTo(cells, a)[i] = cells[i]
<1>1. ASSUME NEW i \in 1..a PROVE cells[i] \in Nat
  <2>1. i \in 1..Len(cells)
    BY LenProperties
  <2> QED BY <2>1, ElementOfSeq
<1>2. /\ SubSeq(cells, 1, a) \in Seq(Nat)
      /\ Len(SubSeq(cells, 1, a)) = IF 1 <= a THEN a - 1 + 1 ELSE 0
      /\ \A i \in 1..(a - 1 + 1): SubSeq(cells, 1, a)[i] = cells[1 + i - 1]
  BY <1>1, SubSeqProperties
<1>3. Len(SubSeq(cells, 1, a)) = a
  BY <1>2
<1>4. \A i \in 1..a: i \in 1..(a - 1 + 1) /\ 1 + i - 1 = i
  OBVIOUS
<1> QED BY <1>2, <1>3, <1>4 DEF UpTo

\* The cells up to the end of a frame are those up to its start, and it.
LEMMA FrameExtends ==
  ASSUME NEW cells \in Seq(Nat), NEW x \in Seq(Nat), NEW c \in Nat, c = Len(cells),
         NEW d \in Nat, NEW e \in Nat, e <= c, Fills(x, cells, d, e)
  PROVE  Extends(cells, d, x, e)
<1>1. PICK l \in Nat: l = Len(x) /\ e = d + l
  BY LenProperties DEF Fills
<1>3. ASSUME NEW a \in Nat, a <= c
      PROVE  /\ UpTo(cells, a) \in Seq(Nat) /\ Len(UpTo(cells, a)) = a
             /\ \A i \in 1..a: UpTo(cells, a)[i] = cells[i]
  BY <1>3, StartOf
<1>4. PICK s \in Seq(Nat): s = UpTo(cells, d) /\ Len(s) = d /\ \A i \in 1..d: s[i] = cells[i]
  <2>1. d <= c
    BY <1>1
  <2> QED BY <1>3, <2>1
<1>5. PICK t \in Seq(Nat): t = UpTo(cells, e) /\ Len(t) = e /\ \A i \in 1..e: t[i] = cells[i]
  BY <1>3
<1>6. PICK u \in Seq(Nat): u = s \o x /\ Len(u) = d + l /\ Joins(u, s, d, x, l)
  <2>1. d = Len(s) /\ l = Len(x)
    BY <1>1, <1>4
  <2>2. s \o x \in Seq(Nat) /\ Len(s \o x) = d + l /\ Joins(s \o x, s, d, x, l)
    BY <2>1, Joined
  <2> QED BY <2>2
<1>7. ASSUME NEW i \in 1..e PROVE u[i] = t[i]
  <2>1. CASE i \in 1..d
    <3>1. u[i] = s[i]
      BY <1>6, <2>1 DEF Joins
    <3> QED BY <1>4, <1>5, <2>1, <3>1
  <2>2. CASE i \notin 1..d
    <3>1. PICK j \in 1..l: i = d + j
      <4>1. i - d \in 1..l /\ i = d + (i - d)
        BY <1>1, <2>2
      <4> QED BY <4>1
    <3>2. u[d + j] = x[j]
      BY <1>6 DEF Joins
    <3>3. cells[d + j] = x[j]
      BY <1>1 DEF Fills
    <3> QED BY <1>5, <3>1, <3>2, <3>3
  <2> QED BY <2>1, <2>2
<1>8. u = t
  BY <1>1, <1>5, <1>6, <1>7, SeqEqual
<1> QED BY <1>4, <1>5, <1>6, <1>8 DEF Extends

\* joinReceived makes one chunk of the cells that the chunks are.
LEMMA JoinsAll ==
  ASSUME NEW cs \in Seq(Seq(Nat)), NEW cells \in Seq(Nat), Concatenates(cs, cells)
  PROVE  joined(cs) = cells
<1>1. PICK e: EndsAt(cs, cells, e)
  BY DEF Concatenates
<1>2. PICK m \in Nat: m = Len(cs)
  BY LenProperties
<1>3. PICK c \in Nat: c = Len(cells)
  BY LenProperties
<1>4. /\ e[0] = 0 /\ e[m] = c
      /\ \A k \in 0..m: e[k] \in Nat /\ e[k] <= c
  <2>1. /\ e \in [0..m -> Nat] /\ e[0] = 0 /\ e[m] = c
        /\ \A j, k \in 0..m: j <= k => e[j] <= e[k]
    BY <1>1, <1>2, <1>3 DEF EndsAt, Places
  <2>2. ASSUME NEW k \in 0..m PROVE e[k] \in Nat /\ e[k] <= c
    <3>1. m \in 0..m /\ k <= m
      OBVIOUS
    <3> QED BY <2>1, <3>1
  <2> QED BY <2>1, <2>2
<1>5. UpTo(cells, 0) = <<>> /\ UpTo(cells, c) = cells
  BY <1>3 DEF UpTo
<1>6. ASSUME NEW k \in 1..m PROVE UpTo(cells, e[k - 1]) \o cs[k] = UpTo(cells, e[k])
  <2>1. k \in 0..m /\ k - 1 \in 0..m
    OBVIOUS
  <2>2. PICK x \in Seq(Nat): x = cs[k]
    BY <1>2, ElementOfSeq
  <2>3. PICK p \in Nat, q \in Nat: p = e[k - 1] /\ q = e[k] /\ q <= c
    BY <1>4, <2>1
  <2>4. Fills(x, cells, p, q)
    BY <1>1, <1>2, <2>2, <2>3 DEF EndsAt
  <2>5. Extends(cells, p, x, q)
    BY <1>3, <2>3, <2>4, FrameExtends
  <2> QED BY <2>2, <2>3, <2>5 DEF Extends
<1>7. PICK g: g = [k \in 0..m |-> UpTo(cells, e[k])]
  OBVIOUS
<1>8. Upto(cs, g)
  <2>1. PICK h: h = [n \in 0..m |-> IF n = 0 THEN <<>> ELSE g[n - 1] \o cs[n]]
    OBVIOUS
  <2>2. ASSUME NEW k \in 0..m PROVE g[k] = h[k]
    <3>1. CASE k = 0
      BY <1>4, <1>5, <1>7, <2>1, <3>1
    <3>2. CASE k # 0
      <4>1. k \in 1..m /\ k - 1 \in 0..m
        BY <3>2
      <4>2. g[k - 1] = UpTo(cells, e[k - 1]) /\ g[k] = UpTo(cells, e[k])
        BY <1>7, <4>1
      <4>3. h[k] = g[k - 1] \o cs[k]
        BY <2>1, <3>2
      <4> QED BY <1>6, <4>1, <4>2, <4>3
    <3> QED BY <3>1, <3>2
  <2>3. g = h
    <3>1. g = [k \in 0..m |-> g[k]] /\ h = [k \in 0..m |-> h[k]]
      BY <1>7, <2>1
    <3> QED BY <2>2, <3>1
  <2> QED BY <1>2, <2>1, <2>3 DEF Upto
<1>9. PICK f: Upto(cs, f) /\ joined(cs) = f[m]
  BY <1>2, <1>8, JoinedUpto
<1>10. ASSUME NEW k \in 0..m
       PROVE  f[k] = (IF k = 0 THEN <<>> ELSE f[k - 1] \o cs[k])
  BY <1>2, <1>9 DEF Upto
<1>11. DEFINE T == {k \in 0..m: f[k] # UpTo(cells, e[k])}
<1>12. T = {}
  <2>1. SUFFICES ASSUME T # {} PROVE FALSE
    OBVIOUS
  <2>2. PICK k \in T: \A n \in T: k <= n
    <3>1. T \subseteq Nat
      OBVIOUS
    <3> HIDE DEF T
    <3> QED BY <2>1, <3>1, Least
  <2>3. k \in 0..m /\ f[k] # UpTo(cells, e[k])
    OBVIOUS
  <2>4. k # 0
    BY <1>4, <1>5, <1>10, <2>3
  <2>5. k \in 1..m /\ k - 1 \in 0..m /\ ~(k <= k - 1)
    BY <2>3, <2>4
  <2>6. f[k - 1] = UpTo(cells, e[k - 1])
    BY <2>2, <2>5
  <2>7. f[k] = f[k - 1] \o cs[k]
    BY <1>10, <2>3, <2>4
  <2> QED BY <1>6, <2>3, <2>5, <2>6, <2>7
<1>13. f[m] = UpTo(cells, e[m])
  <2>1. m \in 0..m
    OBVIOUS
  <2> QED BY <1>12, <2>1
<1> QED BY <1>4, <1>5, <1>9, <1>13

LEMMA OneChunk ==
  ASSUME NEW x \in Seq(Nat) PROVE <<x>> \in Seq(Seq(Nat)) /\ Concatenates(<<x>>, x)
<1>1. PICK none \in Seq(Seq(Nat)), no \in Seq(Nat): none = <<>> /\ no = <<>>
  <2>1. <<>> \in Seq(Seq(Nat)) /\ <<>> \in Seq(Nat)
    BY EmptySeq
  <2> QED BY <2>1
<1>2. Concatenates(Append(none, x), no \o x)
  BY <1>1, NoFrames, FrameAdded
<1>3. Append(none, x) = <<x>> /\ no \o x = x
  BY <1>1
<1> QED BY <1>2, <1>3

\* d is e with n cells fewer in its first frame.
Shorter(m, c, n, e, d) ==
  /\ Places(m, c - n, d)
  /\ d[0] = 0 /\ d[1] = e[1] - n
  /\ \A k \in 2..m: /\ d[k] = e[k] - n /\ d[k - 1] = e[k - 1] - n
                   /\ e[k - 1] \in Nat /\ e[k] \in Nat /\ n <= e[k - 1] /\ e[k] <= c

\* With cells of the first frame gone every frame ends that much earlier.
LEMMA PlacesEarlier ==
  ASSUME NEW m \in Nat, 1 <= m, NEW c \in Nat, NEW n \in Nat, NEW e, Places(m, c, e), n <= e[1]
  PROVE  n <= c /\ \E d: Shorter(m, c, n, e, d)
<1>1. PICK d: d = [k \in 0..m |-> IF k = 0 THEN 0 ELSE e[k] - n]
  OBVIOUS
<1>2. ASSUME NEW k \in 1..m PROVE e[k] \in Nat /\ n <= e[k] /\ e[k] <= c /\ d[k] = e[k] - n
  <2>1. 1 \in 0..m /\ k \in 0..m /\ m \in 0..m /\ 1 <= k /\ k <= m
    OBVIOUS
  <2>2. e[1] <= e[k] /\ e[k] <= e[m] /\ e[m] = c /\ e[k] \in Nat /\ e[1] \in Nat
    BY <2>1 DEF Places
  <2> QED BY <1>1, <2>2
<1>3. d \in [0..m -> Nat] /\ d[0] = 0
  <2>1. ASSUME NEW k \in 0..m PROVE (IF k = 0 THEN 0 ELSE e[k] - n) \in Nat
    <3>1. k # 0 => k \in 1..m
      OBVIOUS
    <3> QED BY <1>2, <3>1
  <2> QED BY <1>1, <2>1
<1>4. n <= c /\ d[m] = c - n
  <2>1. m \in 1..m /\ e[m] = c
    BY DEF Places
  <2> QED BY <1>2, <2>1
<1>5. ASSUME NEW j \in 0..m, NEW k \in 0..m, j <= k PROVE d[j] <= d[k]
  <2>1. CASE j = 0
    BY <1>3, <2>1
  <2>2. CASE j # 0
    <3>1. j \in 1..m /\ k \in 1..m
      BY <1>5, <2>2
    <3>2. e[j] <= e[k]
      BY <1>5 DEF Places
    <3> QED BY <1>2, <3>1, <3>2
  <2> QED BY <2>1, <2>2
<1>6. Places(m, c - n, d)
  BY <1>3, <1>4, <1>5 DEF Places
<1>7. ASSUME NEW k \in 2..m
      PROVE  /\ d[k] = e[k] - n /\ d[k - 1] = e[k - 1] - n
             /\ e[k - 1] \in Nat /\ e[k] \in Nat /\ n <= e[k - 1] /\ e[k] <= c
  <2>1. k \in 1..m /\ k - 1 \in 1..m
    OBVIOUS
  <2> QED BY <1>2, <2>1
<1>8. d[1] = e[1] - n
  BY <1>2
<1>9. Shorter(m, c, n, e, d)
  BY <1>3, <1>6, <1>7, <1>8 DEF Shorter
<1> QED BY <1>4, <1>9

WithoutFirst(cs, n) == [cs EXCEPT ![1] = SubSeq(cs[1], n + 1, Len(cs[1]))]

\* With n cells of the first chunk taken, the chunks are the others.
LEMMA ShorterFirst ==
  ASSUME NEW cs \in Seq(Seq(Nat)), NEW cells \in Seq(Nat), cs # <<>>, Concatenates(cs, cells),
         NEW n \in Nat, n <= Len(cs[1])
  PROVE  /\ WithoutFirst(cs, n) \in Seq(Seq(Nat))
         /\ Concatenates(WithoutFirst(cs, n), SubSeq(cells, n + 1, Len(cells)))
<1>1. PICK e: EndsAt(cs, cells, e)
  BY DEF Concatenates
<1>2. PICK m \in Nat: m = Len(cs) /\ 1 <= m
  <2>1. Len(cs) \in Nat /\ Len(cs) # 0
    BY LenProperties, EmptySeq
  <2> QED BY <2>1
<1>3. PICK c \in Nat: c = Len(cells)
  BY LenProperties
<1>4. PICK f \in Seq(Nat): f = cs[1]
  BY <1>2, ElementOfSeq
<1>5. PICK x \in Nat: x = Len(f) /\ n <= x
  <2>1. Len(f) \in Nat
    BY LenProperties
  <2> QED BY <1>4, <2>1
<1>6. e[0] = 0 /\ e[1] = x /\ Fills(f, cells, 0, x) /\ Places(m, c, e)
  <2>1. Places(m, c, e) /\ Fills(cs[1], cells, e[1 - 1], e[1])
    BY <1>1, <1>2, <1>3 DEF EndsAt
  <2>2. 1 - 1 = 0 /\ e[0] = 0
    BY <2>1 DEF Places
  <2> QED BY <1>4, <1>5, <2>1, <2>2 DEF Fills
<1>7. n <= c /\ \E d: Shorter(m, c, n, e, d)
  BY <1>2, <1>5, <1>6, PlacesEarlier
<1>8. PICK d: Shorter(m, c, n, e, d)
  BY <1>7
<1>9. PICK k \in Nat: x = n + k /\ k = x - n
  <2>1. x - n \in Nat /\ x = n + (x - n)
    BY <1>5
  <2> QED BY <2>1
<1>10. PICK g \in Seq(Nat): g = SubSeq(f, n + 1, x) /\ Len(g) = k /\ \A i \in 1..k: g[i] = f[n + i]
  <2>1. x = Len(f)
    BY <1>5
  <2>2. SubSeq(f, n + 1, x) \in Seq(Nat) /\ Rests(SubSeq(f, n + 1, x), f, n, k)
    BY <1>9, <2>1, RestOf
  <2> QED BY <2>2 DEF Rests
<1>11. PICK r \in Nat: c = n + r /\ r = c - n
  <2>1. c - n \in Nat /\ c = n + (c - n)
    BY <1>7
  <2> QED BY <2>1
<1>12. PICK rest \in Seq(Nat):
         rest = SubSeq(cells, n + 1, c) /\ Len(rest) = r /\ \A i \in 1..r: rest[i] = cells[n + i]
  <2>1. SubSeq(cells, n + 1, c) \in Seq(Nat) /\ Rests(SubSeq(cells, n + 1, c), cells, n, r)
    BY <1>3, <1>11, RestOf
  <2> QED BY <2>1 DEF Rests
<1>13. PICK b: b = WithoutFirst(cs, n)
  OBVIOUS
<1>14. b \in Seq(Seq(Nat)) /\ Len(b) = m /\ b[1] = g /\ \A j \in 2..m: b[j] = cs[j]
  <2>1. b = [cs EXCEPT ![1] = g]
    BY <1>4, <1>5, <1>10, <1>13 DEF WithoutFirst
  <2>2. 1 \in 1..Len(cs)
    BY <1>2
  <2>3. /\ b \in Seq(Seq(Nat)) /\ Len(b) = Len(cs)
        /\ \A j \in 1..Len(cs): b[j] = IF j = 1 THEN g ELSE cs[j]
    BY <2>1, <2>2, ExceptSeq
  <2> QED BY <1>2, <2>2, <2>3
<1>15. ASSUME NEW j \in 1..m PROVE Fills(b[j], rest, d[j - 1], d[j])
  <2>1. CASE j = 1
    <3>1. d[0] = 0 /\ d[1] = k
      BY <1>6, <1>8, <1>9 DEF Shorter
    <3>2. ASSUME NEW i \in 1..k PROVE rest[0 + i] = g[i]
      <4>1. cells[0 + (n + i)] = f[n + i]
        <5>1. n + i \in 1..x
          BY <1>9
        <5> QED BY <1>5, <1>6, <5>1 DEF Fills
      <4>2. i \in 1..r /\ 0 + i = i /\ 0 + (n + i) = n + i
        <5>1. x <= c
          <6>1. 1 \in 0..m /\ m \in 0..m /\ 1 <= m
            BY <1>2
          <6>2. e[1] <= e[m] /\ e[m] = c
            BY <1>6, <6>1 DEF Places
          <6> QED BY <1>6, <6>2
        <5> QED BY <1>9, <1>11, <5>1
      <4> QED BY <1>10, <1>12, <4>1, <4>2
    <3>3. Fills(g, rest, 0, k)
      BY <1>10, <3>2 DEF Fills
    <3> QED BY <1>14, <2>1, <3>1, <3>3
  <2>2. CASE j # 1
    <3>1. j \in 2..m
      BY <2>2
    <3>2. /\ d[j] = e[j] - n /\ d[j - 1] = e[j - 1] - n
          /\ e[j - 1] \in Nat /\ e[j] \in Nat /\ n <= e[j - 1] /\ e[j] <= c
      BY <1>8, <3>1 DEF Shorter
    <3>3. PICK y \in Seq(Nat): y = cs[j] /\ b[j] = y
      BY <1>2, <1>14, <3>1, ElementOfSeq
    <3>4. PICK l \in Nat: l = Len(y)
      BY LenProperties
    <3>5. Fills(y, cells, e[j - 1], e[j])
      BY <1>1, <1>2, <3>3 DEF EndsAt
    <3>6. PICK p \in Nat: p = e[j - 1] /\ n <= p /\ p + l <= c /\ d[j - 1] = p - n /\ d[j] = (p - n) + l
      <4>1. e[j] = e[j - 1] + l
        BY <3>4, <3>5 DEF Fills
      <4>2. PICK p \in Nat: p = e[j - 1]
        BY <3>2
      <4>3. n <= p /\ p + l <= c /\ d[j - 1] = p - n /\ d[j] = (p + l) - n
        BY <3>2, <4>1, <4>2
      <4>4. (p + l) - n = (p - n) + l
        BY <3>4
      <4> QED BY <4>2, <4>3, <4>4
    <3>7. ASSUME NEW i \in 1..l PROVE rest[(p - n) + i] = y[i]
      <4>1. (p - n) + i \in 1..r /\ n + ((p - n) + i) = p + i
        <5>1. n <= p /\ p + l <= n + r
          BY <1>11, <3>6
        <5> QED BY <5>1
      <4>2. cells[p + i] = y[i]
        BY <3>4, <3>5, <3>6 DEF Fills
      <4> QED BY <1>12, <4>1, <4>2
    <3>8. d[j - 1] = p - n /\ d[j] = (p - n) + l
      BY <3>6
    <3> QED BY <3>3, <3>4, <3>7, <3>8 DEF Fills
  <2> QED BY <2>1, <2>2
<1>16. EndsAt(b, rest, d)
  BY <1>8, <1>11, <1>12, <1>14, <1>15 DEF EndsAt, Shorter
<1> QED BY <1>3, <1>12, <1>13, <1>14, <1>16 DEF Concatenates

\* h is the start of cells, and n cells of it or all of them.
Leads(h, cells, n) ==
  /\ h \in Seq(Nat) /\ Len(h) <= Len(cells)
  /\ \A i \in 1..Len(h): h[i] = cells[i]
  /\ Len(h) >= n \/ Len(h) = Len(cells)

\* The chunks, joined when the first is too short, are still the cells, and
\* the first of them starts with all that is asked for.
LEMMA JoinedLeads ==
  ASSUME NEW cs \in Seq(Seq(Nat)), NEW cells \in Seq(Nat), NEW n \in Nat,
         cs # <<>>, Concatenates(cs, cells), NEW js, js = JoinedFor(n, cs)
  PROVE  /\ js \in Seq(Seq(Nat)) /\ js # <<>> /\ Concatenates(js, cells)
         /\ Leads(Head(js), cells, n)
<1>1. PICK f \in Seq(Nat): /\ f = Head(cs) /\ Len(f) <= Len(cells)
                           /\ \A i \in 1..Len(f): cells[i] = f[i]
  BY FirstFrame
<1>2. Len(f) \in Nat
  BY LenProperties
<1>3. CASE Len(f) < n
  <2>1. js = <<cells>>
    BY <1>1, <1>3, JoinsAll DEF JoinedFor
  <2>2. js \in Seq(Seq(Nat)) /\ Concatenates(js, cells)
    BY <2>1, OneChunk
  <2>3. js # <<>> /\ Head(js) = cells
    BY <2>1
  <2>4. Len(cells) \in Nat
    BY LenProperties
  <2>5. Leads(cells, cells, n)
    BY <2>4 DEF Leads
  <2> QED BY <2>2, <2>3, <2>5
<1>4. CASE ~(Len(f) < n)
  <2>1. js = cs
    BY <1>1, <1>4 DEF JoinedFor
  <2>2. Leads(f, cells, n)
    BY <1>1, <1>2, <1>4 DEF Leads
  <2> QED BY <1>1, <2>1, <2>2
<1> QED BY <1>3, <1>4

\* A frame is the same in what starts with it as in all the cells.
LEMMA SameStart ==
  ASSUME NEW cells \in Seq(Nat), NEW n \in Nat, NEW h, Leads(h, cells, n), n <= Len(cells)
  PROVE  n <= Len(h) /\ UpTo(h, n) = UpTo(cells, n)
<1>1. PICK s \in Seq(Nat): s = h
  BY DEF Leads
<1>2. Len(s) \in Nat /\ Len(cells) \in Nat
  BY LenProperties
<1>3. n <= Len(s)
  BY <1>1, <1>2 DEF Leads
<1>4. PICK t \in Seq(Nat): t = UpTo(s, n) /\ Len(t) = n /\ \A i \in 1..n: t[i] = s[i]
  BY <1>3, StartOf
<1>5. PICK u \in Seq(Nat): u = UpTo(cells, n) /\ Len(u) = n /\ \A i \in 1..n: u[i] = cells[i]
  BY StartOf
<1>6. ASSUME NEW i \in 1..n PROVE t[i] = u[i]
  <2>1. i \in 1..Len(s)
    BY <1>2, <1>3
  <2>2. s[i] = cells[i]
    BY <1>1, <2>1 DEF Leads
  <2> QED BY <1>4, <1>5, <2>2
<1>7. t = u
  BY <1>4, <1>5, <1>6, SeqEqual
<1> QED BY <1>1, <1>3, <1>4, <1>5, <1>7

\* What is behind n cells of the first chunk is what is behind n cells.
LEMMA BehindFirst ==
  ASSUME NEW cs \in Seq(Seq(Nat)), NEW cells \in Seq(Nat), cs # <<>>, Concatenates(cs, cells),
         NEW n \in Nat, n <= Len(Head(cs))
  PROVE  /\ Behind(n, cs) \in Seq(Seq(Nat))
         /\ Concatenates(Behind(n, cs), SubSeq(cells, n + 1, Len(cells)))
<1>1. PICK f \in Seq(Nat): f = Head(cs) /\ f = cs[1]
  BY FirstFrame
<1>2. Len(f) \in Nat
  BY LenProperties
<1>3. CASE Len(f) > n
  <2>1. Behind(n, cs) = WithoutFirst(cs, n)
    BY <1>1, <1>3 DEF Behind, WithoutFirst
  <2> QED BY <1>1, <2>1, ShorterFirst
<1>4. CASE ~(Len(f) > n)
  <2>1. Behind(n, cs) = Tail(cs) /\ Len(f) = n
    BY <1>1, <1>2, <1>4 DEF Behind
  <2> QED BY <1>1, <2>1, FirstFrame
<1> QED BY <1>3, <1>4

-----------------------------------------------------------------------------
(* Chunks implements Framing.                                              *)

Kept ==
  /\ chunks \in Seq(Seq(Nat)) /\ receivedLen = Len(received)
  /\ Concatenates(chunks, received)

ChunksInv == FramingInv /\ Kept

\* Nothing is kept of a connection that is given up.
LEMMA KeptNone == Emptied /\ received' = <<>> => Kept'
BY NoFrames, EmptySeq DEF Emptied, Kept

\* A chunk that arrives is kept behind the others.
LEMMA KeptPushed ==
  ASSUME ChunksInv, NEW n \in 1..Len(wire), Arrives(n), Pushed(n)
  PROVE  Kept'
<1>1. /\ received \in Seq(Nat) /\ wire \in Seq(Nat) /\ chunks \in Seq(Seq(Nat))
      /\ Concatenates(chunks, received) /\ receivedLen = Len(received)
  BY DEF ChunksInv, FramingInv, FramingTypeOK, Kept
<1>2. n \in Nat /\ n <= Len(wire)
  BY <1>1, LenProperties
<1>3. PICK x \in Seq(Nat): x = SubSeq(wire, 1, n) /\ Len(x) = n
  <2>1. UpTo(wire, n) \in Seq(Nat) /\ Len(UpTo(wire, n)) = n
    BY <1>1, <1>2, StartOf
  <2> QED BY <2>1 DEF UpTo
<1>4. Append(chunks, x) \in Seq(Seq(Nat)) /\ Concatenates(Append(chunks, x), received \o x)
  BY <1>1, FrameAdded, AppendProperties
<1>5. Len(received \o x) = Len(received) + n
  BY <1>1, <1>3, ConcatProperties
<1>6. chunks' = Append(chunks, x) /\ received' = received \o x /\ receivedLen' = Len(received) + n
  BY <1>1, <1>3 DEF Pushed, Arrives
<1> QED BY <1>4, <1>5, <1>6 DEF Kept

\* The cells that a round of onData reads are those that came first.
LEMMA HeaderRead ==
  ASSUME ChunksInv, HasHeader(receivedLen)
  PROVE  LET h == Head(WithHeader) IN
         /\ WithHeader \in Seq(Seq(Nat)) /\ WithHeader # <<>> /\ Concatenates(WithHeader, received)
         /\ Total(h) = Total(received) /\ Total(h) \in Nat
         /\ ReadableHeader(h) <=> ReadableHeader(received)
         /\ TooLarge(h) <=> TooLarge(received)
<1>1. /\ received \in Seq(Nat) /\ chunks \in Seq(Seq(Nat))
      /\ Concatenates(chunks, received) /\ receivedLen = Len(received)
  BY DEF ChunksInv, FramingInv, FramingTypeOK, Kept
<1>2. PICK m \in Nat: m = Len(received) /\ m >= 8
  BY <1>1, LenProperties DEF HasHeader, HEADER_SIZE
<1>3. chunks # <<>>
  <2>1. SUFFICES ASSUME chunks = <<>> PROVE FALSE
    OBVIOUS
  <2>2. received = <<>>
    BY <1>1, <2>1, NothingLeft
  <2>3. Len(received) = 0
    BY <2>2, EmptySeq
  <2> QED BY <1>2, <2>3
<1>4. PICK h: h = Head(WithHeader)
  OBVIOUS
<1>5. /\ WithHeader \in Seq(Seq(Nat)) /\ WithHeader # <<>> /\ Concatenates(WithHeader, received)
      /\ Leads(h, received, 8)
  <2>1. HEADER_SIZE \in Nat /\ HEADER_SIZE = 8
    BY DEF HEADER_SIZE
  <2> QED BY <1>1, <1>3, <1>4, <2>1, JoinedLeads DEF WithHeader
<1>6. \A i \in 1..8: h[i] = received[i]
  <2>1. Len(h) \in Nat /\ Len(h) >= 8
    BY <1>2, <1>5, LenProperties DEF Leads
  <2>2. ASSUME NEW i \in 1..8 PROVE i \in 1..Len(h)
    BY <2>1
  <2> QED BY <1>5, <2>2 DEF Leads
<1>7. h[1] = received[1] /\ h[2] = received[2] /\ h[5] = received[5] /\ h[8] = received[8]
  BY <1>6
<1>8. received[2] \in Nat
  <2>1. 2 \in 1..Len(received)
    BY <1>2
  <2> QED BY <1>1, <2>1, ElementOfSeq
<1>9. /\ Total(h) = Total(received) /\ Total(h) \in Nat
      /\ ReadableHeader(h) <=> ReadableHeader(received)
      /\ TooLarge(h) <=> TooLarge(received)
  BY <1>7, <1>8 DEF Total, HEADER_SIZE, ReadableHeader, TooLarge
<1> QED BY <1>4, <1>5, <1>9

\* A frame is taken from the first of the chunks as from all that came.
LEMMA FrameRead ==
  ASSUME ChunksInv, HasHeader(receivedLen), NEW h, h = Head(WithFrame),
         NEW t \in Nat, t = Total(received)
  PROVE  /\ Announced = t /\ Total(h) = t
         /\ ReadableHeader(h) <=> ReadableHeader(received)
         /\ TooLarge(h) <=> TooLarge(received)
         /\ t <= Len(received) =>
              /\ SubSeq(h, 1, t) = SubSeq(received, 1, t)
              /\ Behind(t, WithFrame) \in Seq(Seq(Nat))
              /\ Concatenates(Behind(t, WithFrame), SubSeq(received, t + 1, Len(received)))
<1>1. /\ WithHeader \in Seq(Seq(Nat)) /\ WithHeader # <<>> /\ Concatenates(WithHeader, received)
      /\ received \in Seq(Nat) /\ Announced = t
  BY HeaderRead DEF Announced, ChunksInv, FramingInv, FramingTypeOK
<1>2. /\ WithFrame \in Seq(Seq(Nat)) /\ WithFrame # <<>> /\ Concatenates(WithFrame, received)
      /\ Leads(h, received, t)
  BY <1>1, JoinedLeads DEF WithFrame
<1>3. Len(received) \in Nat /\ Len(received) >= 8 /\ Len(h) \in Nat
  BY <1>1, <1>2, LenProperties DEF ChunksInv, Kept, HasHeader, HEADER_SIZE, Leads
<1>4. t >= 8
  <2>1. PICK l: l = received[2]
    OBVIOUS
  <2>2. l \in Nat
    <3>1. 2 \in 1..Len(received)
      BY <1>3
    <3> QED BY <1>1, <2>1, <3>1, ElementOfSeq
  <2>3. t = 8 + l
    BY <2>1 DEF Total, HEADER_SIZE
  <2> QED BY <2>2, <2>3
<1>5. \A i \in 1..8: h[i] = received[i]
  <2>1. Len(h) >= 8
    BY <1>2, <1>3, <1>4 DEF Leads
  <2>2. ASSUME NEW i \in 1..8 PROVE i \in 1..Len(h)
    BY <1>3, <2>1
  <2> QED BY <1>2, <2>2 DEF Leads
<1>6. h[1] = received[1] /\ h[2] = received[2] /\ h[5] = received[5] /\ h[8] = received[8]
  BY <1>5
<1>7. /\ Total(h) = t
      /\ ReadableHeader(h) <=> ReadableHeader(received)
      /\ TooLarge(h) <=> TooLarge(received)
  BY <1>6 DEF Total, ReadableHeader, TooLarge
<1>8. ASSUME t <= Len(received)
      PROVE  /\ SubSeq(h, 1, t) = SubSeq(received, 1, t)
             /\ Behind(t, WithFrame) \in Seq(Seq(Nat))
             /\ Concatenates(Behind(t, WithFrame), SubSeq(received, t + 1, Len(received)))
  <2>1. t <= Len(h) /\ SubSeq(h, 1, t) = SubSeq(received, 1, t)
    BY <1>1, <1>2, <1>8, SameStart DEF UpTo
  <2> QED BY <1>1, <1>2, <2>1, BehindFirst
<1> QED BY <1>1, <1>7, <1>8

\* A round that waits for more of a header or of a frame.
LEMMA WaitStep == ChunksInv /\ ChunksWait => Waits(received, Len(received)) /\ Kept'
<1> SUFFICES ASSUME ChunksInv, ChunksWait PROVE Waits(received, Len(received)) /\ Kept'
  OBVIOUS
<1>1. PICK h: h = Head(WithHeader)
  OBVIOUS
<1>2. Waits(h, receivedLen) /\ receivedLen = Len(received) /\ receivedLen' = receivedLen
  BY <1>1 DEF ChunksWait, ChunksInv, Kept
<1>3. received' = received
  BY <1>2 DEF Waits
<1>4. CASE ~HasHeader(receivedLen)
  <2>1. Waits(received, Len(received))
    BY <1>2, <1>4 DEF Waits
  <2>2. chunks' = chunks
    BY <1>4 DEF ChunksWait
  <2> QED BY <1>2, <1>3, <2>1, <2>2 DEF ChunksInv, Kept
<1>5. CASE HasHeader(receivedLen)
  <2>1. /\ WithHeader \in Seq(Seq(Nat)) /\ Concatenates(WithHeader, received)
        /\ Total(h) = Total(received)
        /\ ReadableHeader(h) <=> ReadableHeader(received)
        /\ TooLarge(h) <=> TooLarge(received)
    BY <1>1, <1>5, HeaderRead
  <2>2. Waits(received, Len(received))
    BY <1>2, <2>1 DEF Waits
  <2>3. chunks' = WithHeader
    BY <1>5 DEF ChunksWait
  <2> QED BY <1>2, <1>3, <2>1, <2>2, <2>3 DEF Kept
<1> QED BY <1>4, <1>5

\* A round that finds the stream cannot be framed any further.
LEMMA UnframeableStep ==
  ASSUME ChunksInv, Unframeable(Head(WithHeader), receivedLen), Emptied
  PROVE  Unframeable(received, Len(received)) /\ Kept'
<1>1. PICK h: h = Head(WithHeader)
  OBVIOUS
<1>2. Unframeable(h, receivedLen) /\ HasHeader(receivedLen) /\ receivedLen = Len(received)
  BY <1>1 DEF Unframeable, ChunksInv, Kept
<1>3. (ReadableHeader(h) <=> ReadableHeader(received)) /\ (TooLarge(h) <=> TooLarge(received))
  BY <1>1, <1>2, HeaderRead
<1>4. Unframeable(received, Len(received))
  BY <1>2, <1>3 DEF Unframeable
<1>5. received' = <<>>
  BY <1>4 DEF Unframeable, LetGo
<1> QED BY <1>4, <1>5, KeptNone

\* A round that takes a frame.
LEMMA TakeFrameStep == ChunksInv /\ ChunksTakeFrame => TakesFrame(received, Len(received)) /\ Kept'
<1> SUFFICES ASSUME ChunksInv, ChunksTakeFrame PROVE TakesFrame(received, Len(received)) /\ Kept'
  OBVIOUS
<1>1. PICK h: h = Head(WithFrame)
  OBVIOUS
<1>2. TakesFrame(h, receivedLen) /\ HasHeader(receivedLen) /\ receivedLen = Len(received) /\ reading
  BY <1>1 DEF ChunksTakeFrame, TakesFrame, ChunksInv, Kept
<1>3. received \in Seq(Nat) /\ Len(received) \in Nat /\ open
  BY <1>2, LenProperties DEF ChunksInv, FramingInv, FramingTypeOK, Shut
<1>4. PICK t \in Nat: t = Total(received) /\ Total(Head(WithHeader)) = t
  BY <1>2, HeaderRead
<1>5. /\ Announced = t /\ Total(h) = t
      /\ ReadableHeader(h) <=> ReadableHeader(received)
      /\ TooLarge(h) <=> TooLarge(received)
      /\ t <= Len(received) =>
           /\ SubSeq(h, 1, t) = SubSeq(received, 1, t)
           /\ Behind(t, WithFrame) \in Seq(Seq(Nat))
           /\ Concatenates(Behind(t, WithFrame), SubSeq(received, t + 1, Len(received)))
  BY <1>1, <1>2, <1>4, FrameRead
<1>6. t <= Len(received)
  <2>1. receivedLen >= Total(h)
    BY <1>2 DEF TakesFrame
  <2> QED BY <1>2, <1>3, <1>5, <2>1
<1>7. TakesFrame(received, Len(received))
  BY <1>2, <1>4, <1>5, <1>6 DEF TakesFrame
<1>8. CASE open'
  <2>1. received' = SubSeq(received, t + 1, Len(received))
    BY <1>4, <1>7, <1>8 DEF TakesFrame, LetGo
  <2>2. chunks' = Behind(t, WithFrame) /\ receivedLen' = Len(received) - t
    BY <1>2, <1>5, <1>8 DEF ChunksTakeFrame
  <2>3. Len(SubSeq(received, t + 1, Len(received))) = Len(received) - t
    <3>1. PICK m \in Nat, k \in Nat: m = Len(received) /\ m = t + k /\ k = m - t
      <4>1. Len(received) - t \in Nat /\ Len(received) = t + (Len(received) - t)
        BY <1>3, <1>6
      <4> QED BY <1>3, <4>1
    <3> QED BY <1>3, <3>1, RestOf DEF Rests
  <2> QED BY <1>5, <1>6, <1>7, <2>1, <2>2, <2>3 DEF Kept
<1>9. CASE ~open'
  <2>1. received' = <<>>
    BY <1>3, <1>7, <1>9 DEF TakesFrame, LetGo
  <2>2. Emptied
    BY <1>9 DEF ChunksTakeFrame
  <2> QED BY <1>7, <2>1, <2>2, KeptNone
<1> QED BY <1>8, <1>9, <1>7

\* Every step is one of Framing, and keeps the chunks.
LEMMA ChunksStep == ChunksInv /\ [ChunksNext]_chunksVars => [FramingNext]_framingVars /\ Kept'
<1> SUFFICES ASSUME ChunksInv, [ChunksNext]_chunksVars PROVE [FramingNext]_framingVars /\ Kept'
  OBVIOUS
<1>1. CASE (Connects \/ ConnectionEnds) /\ Emptied
  <2>1. received' = <<>>
    BY <1>1 DEF Connects, ConnectionEnds, LetGo
  <2> QED BY <1>1, <2>1, KeptNone DEF FramingNext
<1>2. ASSUME NEW r \in Requests, Sends(r) \/ TimesOut(r), UNCHANGED <<chunks, receivedLen>>
      PROVE  FramingNext /\ Kept'
  <2>1. received' = received
    BY <1>2 DEF Sends, TimesOut, socketVars
  <2> QED BY <1>2, <2>1 DEF FramingNext, ChunksInv, Kept
<1>3. ASSUME NEW id \in Ids, NEW a \in Answers, ServerWrites(id, a), UNCHANGED <<chunks, receivedLen>>
      PROVE  FramingNext /\ Kept'
  <2>1. received' = received
    BY <1>3 DEF ServerWrites
  <2> QED BY <1>3, <2>1 DEF FramingNext, ChunksInv, Kept
<1>4. ASSUME NEW n \in 1..Len(wire), Arrives(n), Pushed(n) PROVE FramingNext /\ Kept'
  BY <1>4, KeptPushed DEF FramingNext
<1>5. CASE ChunksWait
  BY <1>5, WaitStep DEF FramingNext
<1>6. CASE Unframeable(Head(WithHeader), receivedLen) /\ Emptied
  BY <1>6, UnframeableStep DEF FramingNext
<1>7. CASE ChunksTakeFrame
  BY <1>7, TakeFrameStep DEF FramingNext
<1>8. CASE UNCHANGED chunksVars
  BY <1>8 DEF chunksVars, framingVars, socketVars, ChunksInv, Kept
<1> QED BY <1>1, <1>2, <1>3, <1>4, <1>5, <1>6, <1>7, <1>8 DEF ChunksNext

-----------------------------------------------------------------------------
(* The theorems of Chunks.                                                 *)

\* The chunks, one after the other, are what came and was not taken, and
\* receivedLen counts their cells, however they are cut and joined.
THEOREM ChunksInvariance == ChunksSpec => []ChunksInv
<1>1. ChunksInit => ChunksInv
  BY InitKeeps, NoFrames, EmptySeq DEF ChunksInit, FramingInit, ChunksInv, Kept
<1>2. ChunksInv /\ [ChunksNext]_chunksVars => ChunksInv'
  BY ChunksStep, FramingStep DEF ChunksInv
<1> QED BY <1>1, <1>2, PTL DEF ChunksSpec

\* What onData keeps is what it received: joining all its chunks, at any
\* moment, would give the cells that are not taken yet.
THEOREM ChunksKept == ChunksSpec => []ChunksReceived
<1>1. ChunksInv => ChunksReceived
  <2>1. ChunksInv => received \in Seq(Nat)
    BY DEF ChunksInv, FramingInv, FramingTypeOK
  <2> QED BY <2>1, JoinsAll DEF ChunksInv, Kept, ChunksReceived
<1> QED BY <1>1, ChunksInvariance, PTL

\* onData with its list of chunks does what it would do with one sequence of
\* cells: every round of it is a round of Framing, or changes nothing there.
THEOREM ChunksImplementFraming == ChunksSpec => ImplementsFraming
<1>1. ChunksInit => FramingInit
  BY DEF ChunksInit
<1>2. ChunksInv /\ [ChunksNext]_chunksVars => [FramingNext]_framingVars
  BY ChunksStep
<1> QED BY <1>1, <1>2, ChunksInvariance, PTL DEF ChunksSpec, FramingSpec, ImplementsFraming

=============================================================================
