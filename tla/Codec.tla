---- MODULE Codec ----
(***************************************************************************)
(* How bodies are written and read: BodyWriter and AnswerReader of         *)
(* packages/core/src/kv_body.ts and the DataView code of wire.ts,          *)
(* streams.ts, actions.ts and workflows.ts, which write and read the same  *)
(* kinds of field.  A body is a sequence of cells, each standing for one   *)
(* byte; a byte has RADIX values (256 in the code), so that a prefix of w  *)
(* bytes counts to RADIX^w - 1 and the lengths at which it wraps are small.*)
(* A layout names the fields of a body; its values are nested sequences.   *)
(***************************************************************************)
EXTENDS Integers, Sequences, SequencesExt

CONSTANT RADIX                       \* values of a byte

ASSUME RadixAssumption == RADIX \in Nat /\ RADIX >= 4

Byte == 0..(RADIX - 1)

U8 == 1                              \* widths, in bytes
U16 == 2
U32 == 4
U64 == 8

\* The numbers that w bytes hold.
Span[w \in 0..U64] == IF w = 0 THEN 1 ELSE RADIX * Span[w - 1]
Widest(w) == Span[w] - 1             \* the most a prefix of w bytes counts
Unchecked == Span[U64]               \* a length no code looks at

-----------------------------------------------------------------------------
(* Fields.  min and max bound a number, the length of a text, or the rows  *)
(* of a list: what the code that writes or reads the field lets pass.      *)

Number(w, min, max) ==
  [kind |-> "number", width |-> w, min |-> min, max |-> max, masked |-> FALSE]
Uint(w) == Number(w, 0, Widest(w))
\* A number that nothing checks: the low bytes of it are sent (& 0xff, setUint32).
Masked(w) == [Uint(w) EXCEPT !.masked = TRUE]
Bool == Number(U8, 0, 1)
Text(w, max) == [kind |-> "text", width |-> w, min |-> 0, max |-> max]
Name(w) == Text(w, Unchecked)
NonEmpty(w) == [Name(w) EXCEPT !.min = 1]
Row(fields) == [kind |-> "row", of |-> fields]
Given(of) == [kind |-> "given", of |-> of]     \* optional on the wire, always there
Rest == [kind |-> "rest"]                      \* what is left of the body
List(w, min, max, of) ==
  [kind |-> "list", how |-> "counted", width |-> w, min |-> min, max |-> max, of |-> of]
\* A list whose reader stops, content, at the first row that is cut short.
LaxList(w, of) == [List(w, 0, Unchecked, of) EXCEPT !.how = "lax"]

\* An optional field is a list of none or one, counted by the byte that says
\* whether it is there.  "strict" refuses a byte over 1; "any" takes each but
\* 0 for present; "one" takes each but 1, and the end of the body, for absent.
Opt(of) == [List(U8, 0, 1, of) EXCEPT !.how = "strict"]
OptAny(of) == [Opt(of) EXCEPT !.how = "any"]
OptOne(of) == [Opt(of) EXCEPT !.how = "one"]

\* A text read with subarray, which gives what is left of a body cut short.
LooseText(w) == [Name(w) EXCEPT !.kind = "loose"]

-----------------------------------------------------------------------------
(* What is inside a field: the layouts of its n parts, and their values.   *)
(* Fields are at most five deep (a key in a row in the headers of a record *)
(* in the records of an answer), so that what is done to a field is done   *)
(* level by level: each operator below takes the one that does it to what  *)
(* is inside.                                                              *)

Leaf(f) == f.kind \in {"number", "text", "loose", "rest"}
Layouts(f, n) == IF f.kind = "row" THEN f.of ELSE [i \in 1..n |-> f.of]
Inside(f, v) == IF f.kind = "given" THEN <<v>> ELSE v
Whole(f, vs) == IF f.kind = "given" THEN vs[1] ELSE vs

EachInside(Inner(_, _), f, v) ==
  LET vs == Inside(f, v)
      of == Layouts(f, Len(vs)) IN
  /\ Len(vs) = Len(of)
  /\ \A i \in 1..Len(of): Inner(of[i], vs[i])

\* A value of the type that the API gives a field: any whole number, and texts
\* and lists as long as they come, which is shorter than 2^32.
IsLeafValue(f, v) ==
  IF f.kind = "number" THEN v \in Int
  ELSE /\ v \in Seq(Nat)
       /\ f.kind # "rest" /\ f.max = Unchecked => Len(v) <= Widest(U32)
IsValueIn(Inner(_, _), f, v) ==
  IF Leaf(f) THEN IsLeafValue(f, v)
  ELSE /\ f.kind # "given" => Len(v) \in Nat /\ v = [i \in 1..Len(v) |-> v[i]]
       /\ f.kind = "list" /\ f.max = Unchecked => Len(v) <= Widest(U32)
       /\ EachInside(Inner, f, v)

IsValue1(f, v) == IsValueIn(IsLeafValue, f, v)
IsValue2(f, v) == IsValueIn(IsValue1, f, v)
IsValue3(f, v) == IsValueIn(IsValue2, f, v)
IsValue4(f, v) == IsValueIn(IsValue3, f, v)
IsValue(f, v) == IsValueIn(IsValue4, f, v)

\* Whether a value passes the checks of the code that writes it.
LeafAdmits(f, v) ==
  CASE f.kind = "number" -> ~f.masked => v \in f.min..f.max
    [] f.kind \in {"text", "loose"} -> Len(v) \in f.min..f.max
    [] OTHER -> TRUE
AdmitsIn(Inner(_, _), f, v) ==
  IF Leaf(f) THEN LeafAdmits(f, v)
  ELSE /\ f.kind = "list" => Len(v) \in f.min..f.max
       /\ EachInside(Inner, f, v)

Admits1(f, v) == AdmitsIn(LeafAdmits, f, v)
Admits2(f, v) == AdmitsIn(Admits1, f, v)
Admits3(f, v) == AdmitsIn(Admits2, f, v)
Admits4(f, v) == AdmitsIn(Admits3, f, v)
Admits(f, v) == AdmitsIn(Admits4, f, v)

\* Whether each length, checked or not, is one that its prefix can count.
LeafCountable(f, v) == f.kind \in {"text", "loose"} => Len(v) <= Widest(f.width)
CountableIn(Inner(_, _), f, v) ==
  IF Leaf(f) THEN LeafCountable(f, v)
  ELSE /\ f.kind = "list" => Len(v) <= Widest(f.width)
       /\ EachInside(Inner, f, v)

Countable1(f, v) == CountableIn(LeafCountable, f, v)
Countable2(f, v) == CountableIn(Countable1, f, v)
Countable3(f, v) == CountableIn(Countable2, f, v)
Countable4(f, v) == CountableIn(Countable3, f, v)
Countable(f, v) == CountableIn(Countable4, f, v)

\* The value with each number cut to the bytes of its field.
LeafNarrowed(f, v) == IF f.kind = "number" THEN v % Span[f.width] ELSE v
NarrowedIn(Inner(_, _), f, v) ==
  LET vs == Inside(f, v)
      of == Layouts(f, Len(vs)) IN
  IF Leaf(f) THEN LeafNarrowed(f, v)
  ELSE Whole(f, [i \in 1..Len(of) |-> Inner(of[i], vs[i])])

Narrowed1(f, v) == NarrowedIn(LeafNarrowed, f, v)
Narrowed2(f, v) == NarrowedIn(Narrowed1, f, v)
Narrowed3(f, v) == NarrowedIn(Narrowed2, f, v)
Narrowed4(f, v) == NarrowedIn(Narrowed3, f, v)
Narrowed(f, v) == NarrowedIn(Narrowed4, f, v)

-----------------------------------------------------------------------------
(* Writing.                                                                *)

Put(w, n) == [i \in 1..w |-> (n \div Span[i - 1]) % RADIX]

\* What comes before the n parts of a field.
Prefix(f, n) ==
  CASE f.kind = "row" -> <<>>
    [] f.kind = "given" -> <<1>>
    [] OTHER -> Put(f.width, n)

EncodeLeaf(f, v) ==
  CASE f.kind = "number" -> Put(f.width, v)
    [] f.kind = "rest" -> v
    [] OTHER -> Put(f.width, Len(v)) \o v
EncodeIn(Inner(_, _), f, v) ==
  LET vs == Inside(f, v)
      of == Layouts(f, Len(vs)) IN
  IF Leaf(f) THEN EncodeLeaf(f, v)
  ELSE Prefix(f, Len(vs)) \o FlattenSeq([i \in 1..Len(of) |-> Inner(of[i], vs[i])])

Encode1(f, v) == EncodeIn(EncodeLeaf, f, v)
Encode2(f, v) == EncodeIn(Encode1, f, v)
Encode3(f, v) == EncodeIn(Encode2, f, v)
Encode4(f, v) == EncodeIn(Encode3, f, v)
Encode(f, v) == EncodeIn(Encode4, f, v)

-----------------------------------------------------------------------------
(* Reading, from the front of the cells b: what was read, whether it was   *)
(* whole and well-formed, and the cells after it (after the last cell the  *)
(* reader got to, when it was not).                                        *)

\* From the last byte, the most significant, to the first.
Got(w, b) ==
  LET upTo[i \in 0..w] == IF i = 0 THEN 0 ELSE b[w + 1 - i] + RADIX * upTo[i - 1]
  IN  upTo[w]
Drop(n, b) == SubSeq(b, n + 1, Len(b))

Refused(b) == [ok |-> FALSE, v |-> <<>>, rest |-> b]
Accepted(v, b) == [ok |-> TRUE, v |-> v, rest |-> b]

\* n cells of text: take, and bytes.
Take(n, b) == IF Len(b) < n THEN Refused(b) ELSE Accepted(SubSeq(b, 1, n), Drop(n, b))

ReadNumber(f, b) ==
  IF Len(b) < f.width THEN Refused(b)
  ELSE LET n == Got(f.width, b) IN
       IF n \in f.min..f.max THEN Accepted(n, Drop(f.width, b)) ELSE Refused(b)

ReadText(f, b) ==
  LET n == Got(f.width, b)
      after == Drop(f.width, b) IN
  IF Len(b) < f.width THEN Refused(b)
  ELSE IF f.kind = "loose" THEN Take(IF n < Len(after) THEN n ELSE Len(after), after)
  ELSE IF n < f.min THEN Refused(after) ELSE Take(n, after)

ReadLeaf(f, b) ==
  CASE f.kind = "number" -> ReadNumber(f, b)
    [] f.kind = "rest" -> Accepted(b, <<>>)
    [] OTHER -> ReadText(f, b)

\* How many parts a field says it has.
ReadPrefix(f, b) ==
  CASE f.kind = "row" -> Accepted(Len(f.of), b)
    [] f.kind = "given" ->
         IF b = <<>> \/ Head(b) # 1 THEN Refused(b) ELSE Accepted(1, Tail(b))
    [] OTHER ->
         IF Len(b) < f.width
         THEN IF f.how = "one" THEN Accepted(0, b) ELSE Refused(b)
         ELSE LET n == Got(f.width, b)
                  after == Drop(f.width, b) IN
              CASE f.how = "strict" -> IF n > 1 THEN Refused(b) ELSE Accepted(n, after)
                [] f.how = "any" -> Accepted(IF n = 0 THEN 0 ELSE 1, after)
                [] f.how = "one" -> Accepted(IF n = 1 THEN 1 ELSE 0, after)
                [] OTHER -> Accepted(n, after)

\* One part after the other, until one is refused, which a lax list takes for
\* its end.
ReadEach(readers, lax, b) ==
  LET from[i \in 1..(Len(readers) + 1)] ==
        [c \in Seq(Nat) |->
           LET part == readers[i][c]
               others == from[i + 1][part.rest] IN
           IF i > Len(readers) THEN Accepted(<<>>, c)
           ELSE IF part.ok
                THEN [ok |-> others.ok, v |-> <<part.v>> \o others.v, rest |-> others.rest]
           ELSE IF lax THEN Accepted(<<>>, part.rest) ELSE Refused(part.rest)]
  IN  from[1][b]

ReadParts(f, readers, b) ==
  LET read == ReadEach(readers, f.kind = "list" /\ f.how = "lax", b) IN
  IF read.ok THEN Accepted(Whole(f, read.v), read.rest) ELSE Refused(read.rest)

ReadIn(Inner(_, _), f, b) ==
  LET count == ReadPrefix(f, b)
      of == Layouts(f, count.v)
      readers == [i \in 1..Len(of) |-> [c \in Seq(Nat) |-> Inner(of[i], c)]] IN
  IF Leaf(f) THEN ReadLeaf(f, b)
  ELSE IF ~count.ok THEN count
  ELSE ReadParts(f, readers, count.rest)

Read1(f, b) == ReadIn(ReadLeaf, f, b)
Read2(f, b) == ReadIn(Read1, f, b)
Read3(f, b) == ReadIn(Read2, f, b)
Read4(f, b) == ReadIn(Read3, f, b)
Read(f, b) == ReadIn(Read4, f, b)

=============================================================================
