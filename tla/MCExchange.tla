---- MODULE MCExchange ----
(***************************************************************************)
(* What goes into Exchange when it is checked.                             *)
(***************************************************************************)
EXTENDS Exchange, FiniteSetsExt

CONSTANT LongKeys      \* whether keys of exactly MAX_KEY_SIZE bytes are tried

-----------------------------------------------------------------------------
(* Arguments and values to try: plain ones, and those that differ from it  *)
(* in one field, at the limits of that field and, when asked for by the    *)
(* caller, one beyond them, or beyond what two unchecked bytes count.      *)

RECURSIVE Plain(_)
Plain(f) ==
  CASE f.kind = "number" -> IF 1 \in f.min..f.max THEN 1 ELSE f.max
    [] f.kind = "row" -> [i \in DOMAIN f.of |-> Plain(f.of[i])]
    [] f.kind = "given" -> Plain(f.of)
    [] f.kind = "list" -> <<Plain(f.of)>>
    [] OTHER -> <<1>>

Ones(n) == [i \in 1..n |-> 1]

\* The counts and lengths to try for a field.
Sizes(f, asked) ==
  IF f.max # Unchecked THEN {f.min, f.max} \cup IF asked THEN {f.max + 1} ELSE {}
  ELSE IF ~asked THEN {f.min, f.min + 2}
  ELSE IF f.width = U32 THEN {0, 2} ELSE {f.min} \cup Widest(f.width)..(Widest(f.width) + 2)
LongTexts(f) == IF f.max = Unchecked /\ f.width = U32 THEN {Ones(MAX_VALUE_SIZE)} ELSE {}

RECURSIVE Edges(_, _)
Edges(f, asked) ==
  CASE f.kind = "number" ->
         {f.min, f.max} \cup IF asked THEN {f.min - 1, f.max + 1} ELSE {}
    [] f.kind \in {"text", "loose"} ->
         {Ones(n): n \in Sizes(f, asked)} \cup IF asked THEN LongTexts(f) ELSE {}
    [] f.kind = "row" ->
         UNION {{[Plain(f) EXCEPT ![i] = v]: v \in Edges(f.of[i], asked)}: i \in DOMAIN f.of}
    [] f.kind = "given" -> Edges(f.of, asked)
    [] f.kind = "list" ->
         {<<v>>: v \in Edges(f.of, asked)}
         \cup {[i \in 1..n |-> Plain(f.of)]:
                 n \in Sizes(f, asked /\ f.how = "counted")}
    [] f.kind = "rest" -> {<<>>} \cup IF asked THEN {Ones(MAX_VALUE_SIZE + 1)} ELSE {}

PlainArgs(op) ==
  [namespace |-> <<1>>, key |-> IF op.key = {0} THEN <<>> ELSE <<1>>,
   value |-> Plain(op.value), options |-> [i \in DOMAIN op.options |-> <<>>]]

NoPriority(option) == IF option.tag = OptionTag.Priority THEN {0} ELSE {}

KeySizes(op) ==
  IF op.key = 0..MAX_KEY_SIZE
  THEN {0, MAX_KEY_SIZE + 1, IF LongKeys THEN MAX_KEY_SIZE ELSE MAX_KEY_SIZE - 1}
  ELSE op.key \cup {n + 1: n \in op.key} \cup {0}

Args(op) ==
  LET plain == PlainArgs(op) IN
  {plain}
  \cup {[plain EXCEPT !.namespace = Ones(n)]: n \in {0, MAX_NAMESPACE_SIZE, MAX_NAMESPACE_SIZE + 1}}
  \cup {[plain EXCEPT !.key = Ones(n)]: n \in IF op.key = {0} THEN {} ELSE KeySizes(op)}
  \cup {[plain EXCEPT !.value = v]: v \in Edges(op.value, TRUE)}
  \cup UNION {{[plain EXCEPT !.options[i] = <<v>>]:
                 v \in {Plain(op.options[i].of)} \cup
                       IF op.options[i].of = Rest THEN {Ones(RADIX - 1), Ones(RADIX)}
                       ELSE Edges(op.options[i].of, TRUE) \ NoPriority(op.options[i])}:
               i \in DOMAIN op.options}
  \cup {[plain EXCEPT !.options = [i \in DOMAIN op.options |->
                                    IF i \in pair THEN <<Plain(op.options[i].of)>> ELSE <<>>]]:
           pair \in kSubset(2, DOMAIN op.options)}

-----------------------------------------------------------------------------
(* Answers, to the plain call.                                             *)

\* A body cut short, with a cell too many, or with a cell it should not hold.
Damaged(b) ==
  {SubSeq(b, 1, n): n \in 0..(Len(b) - 1)} \cup {Append(b, 0)}
  \cup {[b EXCEPT ![i] = RADIX - 1]: i \in DOMAIN b}

PlainOnly(op, args, inputs) == IF args = PlainArgs(op) THEN inputs ELSE {}

SomeValues(op, args) ==
  LET layout == op.answer.fields IN
  PlainOnly(op, args, {Plain(layout)} \cup Edges(layout, FALSE))
SomeBodies(op, args) ==
  LET layout == op.answer.fields IN
  PlainOnly(op, args, Damaged(Encode(layout, Plain(layout))))

\* A reason (13 is not found, 0 is none), whether it ran, a message.
SomeRefusals(op, args) ==
  PlainOnly(op, args,
    {SubSeq(Put(U16, reason) \o <<ran, 1>>, 1, size):
       reason \in {0, 12, 13}, ran \in {0, 1, 3}, size \in {2, 4}})

=============================================================================
