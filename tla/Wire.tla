---- MODULE Wire ----
(***************************************************************************)
(* The frames of packages/core/src/wire.ts and types.ts: what an operation *)
(* of the API puts on the wire, and what is read back from a serialized    *)
(* request.  How the frames of the answers are cut out of the byte stream  *)
(* is Framing.                                                             *)
(*                                                                         *)
(* An operation is a record: the code it sends, how long a key it takes,   *)
(* the layout of its value (of its body, for a table op), its options, and *)
(* how its answer is read.  The server is assumed to know the layouts.     *)
(***************************************************************************)
EXTENDS Codec

CONSTANTS
  MAX_VALUE_SIZE,      \* 16 MB: the longest value of a request
  MAX_BLOCK_MS,        \* 300000: the longest a request asks to be held
  AWAIT_BLOCK_MS,      \* 30000: how long the server holds an await by default
  MAX_BODY,            \* 253817, 252819: the longest KV value, JSON document
  MAX_SHORT,           \* 1024 to 4098: routing keys, JSON paths, mget keys, cursors
  MAX_COUNT            \* 64 to 1024: the most keys or rows asked for at once

ASSUME LimitsAssumption ==
  /\ MAX_BLOCK_MS \in 1..Widest(U32) /\ AWAIT_BLOCK_MS \in 1..MAX_BLOCK_MS
  /\ MAX_SHORT \in 1..Widest(U16) /\ MAX_COUNT \in 1..Widest(U16)
  /\ MAX_BODY \in 1..MAX_VALUE_SIZE /\ MAX_VALUE_SIZE \in 1..Widest(U32)

MAX_NAMESPACE_SIZE == RADIX - 1                 \* 255
MAX_KEY_SIZE == Span[U16]                       \* 64 * 1024

-----------------------------------------------------------------------------
(* Operations.                                                             *)

OptionTag ==
  [Priority |-> 16, Count |-> 21, BlockMS |-> 23, StreamStart |-> 33, StreamEnd |-> 34,
   StreamTail |-> 35, Partition |-> 36, PartitionKey |-> 37, Force |-> 44]

\* Options: addU8 and addU32 (which check nothing but a BlockMS), addBytes (which
\* checks a length), addFlag.  A tag, and an option's length, is a cell with its number.
OptionU8(tag) == [tag |-> OptionTag[tag], of |-> Masked(U8)]
OptionU32(tag) == [tag |-> OptionTag[tag],
                   of |-> IF tag = "BlockMS" THEN Number(U32, 0, MAX_BLOCK_MS) ELSE Masked(U32)]
OptionBytes(tag) == [tag |-> OptionTag[tag], of |-> Rest]
OptionFlag(tag) == [tag |-> OptionTag[tag], of |-> Row(<<>>)]

\* An answer's layout; whether cells left over are refused; the check made
\* of what was read; and what an answer of fewer than `least` cells reads as.
Answer(fields) ==
  [fields |-> Row(fields), whole |-> TRUE, check |-> "none", least |-> 0, lacking |-> <<>>]
OpenAnswer(fields) == [Answer(fields) EXCEPT !.whole = FALSE]
PagedAnswer(fields) == [Answer(fields) EXCEPT !.check = "paged"]
ShortAnswer(least, lacking, answer) == [answer EXCEPT !.least = least, !.lacking = lacking]
NoAnswer == OpenAnswer(<<>>)                    \* its body is not looked at

Operation(code, value, options, answer) ==
  [code |-> code, key |-> 0..MAX_KEY_SIZE, value |-> Row(value), options |-> options,
   answer |-> answer, missing |-> "throws", skips |-> FALSE]
Keyless(op) == [op EXCEPT !.key = {0}]
\* What an answer "not found" is to the caller.
OrNull(op, missing) == [op EXCEPT !.missing = missing]
\* An operation on a list of items sends nothing when the list is empty.
UnlessEmpty(op) == [op EXCEPT !.skips = TRUE]

TableOps ==
  {"KVPut", "KVGet", "KVMGet", "KVDelete", "KVScan", "KVHistory", "KVIncr", "KVJsonGet",
   "KVJsonSet", "KVJsonDel", "KVBeginTxn", "KVCommitTxn", "KVRollbackTxn", "KVExpire",
   "KVExists", "ActionStatus", "WorkerList", "WorkerInfo"}
isTableOp(code) == code \in TableOps

-----------------------------------------------------------------------------
(* Requests: arguments are [namespace, key, value, options], an option     *)
(* being a sequence of no value or of one.                                 *)

OptionBytesOf(option, v) ==
  IF v = <<>> THEN <<>>
  ELSE <<option.tag, Len(Encode(option.of, v[1]))>> \o Encode(option.of, v[1])
Options(op, vs) == FlattenSeq([i \in DOMAIN vs |-> OptionBytesOf(op.options[i], vs[i])])

\* The fields of a request's payload; a table op's ends with its body.
Envelope(code) ==
  LET routed == <<Text(U16, MAX_NAMESPACE_SIZE), Text(U16, MAX_KEY_SIZE)>> IN
  Row(routed \o IF isTableOp(code) THEN <<Rest>> ELSE <<Text(U32, MAX_VALUE_SIZE), Name(U16)>>)

\* Mutant: the key's length is not checked.
SerializableAnyKey(op, args) ==
  /\ Admits(op.value, args.value)
  /\ Len(Encode(op.value, args.value)) <= MAX_VALUE_SIZE
  /\ Len(args.namespace) <= MAX_NAMESPACE_SIZE
  /\ \A i \in DOMAIN args.options: args.options[i] # <<>> =>
       /\ Admits(op.options[i].of, args.options[i][1])
       /\ op.options[i].of = Rest => Len(args.options[i][1]) <= Widest(U8)

\* What the serializers, the options and serializeRequest refuse.
Serializable(op, args) ==
  /\ Admits(op.value, args.value)
  /\ Len(Encode(op.value, args.value)) <= MAX_VALUE_SIZE
  /\ Len(args.namespace) <= MAX_NAMESPACE_SIZE
  /\ Len(args.key) \in op.key /\ Len(args.key) <= MAX_KEY_SIZE
  /\ \A i \in DOMAIN args.options: args.options[i] # <<>> =>
       /\ Admits(op.options[i].of, args.options[i][1])
       /\ op.options[i].of = Rest => Len(args.options[i][1]) <= Widest(U8)
  /\ isTableOp(op.code) => Options(op, args.options) = <<>>

serializeRequest(id, op, args) ==
  LET fields == <<args.namespace, args.key, Encode(op.value, args.value)>> IN
  [id |-> id, code |-> op.code,
   payload |-> Encode(Envelope(op.code),
     IF isTableOp(op.code) THEN fields ELSE Append(fields, Options(op, args.options)))]

\* What follows a field that opens with its length in w bytes.
Past(w, b) == IF Len(b) < w THEN <<>> ELSE Drop(w + Got(w, b), b)

\* The last BlockMS option of the cells b, if any: an option is its tag, its
\* length, and as many cells as that; one that is cut short ends them.
BlockOption(b) ==
  LET from[at \in 0..Len(b)] ==
        LET next == at + 2 + b[at + 2]
            later == from[next] IN
        IF at + 2 > Len(b) THEN <<>>
        ELSE IF next > Len(b) THEN <<>>
        ELSE IF later # <<>> THEN later
        ELSE IF b[at + 1] = OptionTag.BlockMS /\ b[at + 2] = U32
             THEN <<Got(U32, SubSeq(b, at + 3, next))>> ELSE <<>>
  IN  from[0]

\* Mutant: a BlockMS of 0 is taken for none.
requestBlockMsOrDefault(request) ==
  LET body == Past(U16, Past(U16, request.payload))
      options == Past(U32, body)
      end == IF Len(options) < U16 THEN 0 ELSE U16 + Got(U16, options)
      block == BlockOption(SubSeq(options, U16 + 1, IF end < Len(options) THEN end ELSE Len(options))) IN
  IF isTableOp(request.code)
  THEN IF request.code # "KVGet" \/ Len(body) < 1 + U64 THEN 0
       ELSE IF body[1] # 1 THEN 0 ELSE Got(U64, Tail(body))
  ELSE IF Len(options) < U16 THEN 0
  ELSE IF block # <<>> /\ block # <<0>> THEN block[1]
  ELSE IF request.code = "ActionAwait" THEN AWAIT_BLOCK_MS ELSE 0

\* How long the server may hold a request, read off its bytes: the transport
\* adds it to the request's timeout.
requestBlockMs(request) ==
  LET body == Past(U16, Past(U16, request.payload))
      options == Past(U32, body)
      end == IF Len(options) < U16 THEN 0 ELSE U16 + Got(U16, options)
      block == BlockOption(SubSeq(options, U16 + 1, IF end < Len(options) THEN end ELSE Len(options))) IN
  IF isTableOp(request.code)
  THEN IF request.code # "KVGet" \/ Len(body) < 1 + U64 THEN 0
       ELSE IF body[1] # 1 THEN 0 ELSE Got(U64, Tail(body))
  ELSE IF Len(options) < U16 THEN 0
  ELSE IF block # <<>> THEN block[1]
  ELSE IF request.code = "ActionAwait" THEN AWAIT_BLOCK_MS ELSE 0

\* Whether the reply of a request carries items leased to its caller.
requestTakesItems(request) ==
  request.code \in {"QueueDequeue", "StreamGroupRead", "StreamGroupClaim", "ActionAwait"}

-----------------------------------------------------------------------------
(* Answers.                                                                *)

OK == 0
NotFound == 2
Conflict == 8
RESPONSE_STALE == 1

=============================================================================
