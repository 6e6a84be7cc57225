---- MODULE Exchange ----
(***************************************************************************)
(* One exchange of each operation of the API with the server, down to the  *)
(* bytes: the arguments are serialized or refused, the server reads the    *)
(* request and answers it, well or badly, and the operation reads its      *)
(* result or throws.  The answer is the one the server sent: that its      *)
(* frame comes through, however it is cut, or not at all, is Framing.      *)
(***************************************************************************)
EXTENDS KeyValue, Messaging, Tasks, Flows

CONSTANTS
  Tried(_),            \* the arguments an operation is called with
  Values(_, _),        \* the values the server may answer an operation, called so, with
  Bodies(_, _),        \* what it may send instead
  Refusals(_, _)       \* what it may say when it refuses

Operations == KeyValueOperations \o MessagingOperations \o TaskOperations \o FlowOperations

VARIABLES
  stage,               \* "call", then "skipped", "refused" or "sent", "answered"
  call,                \* the operation and its arguments
  serialized,          \* what was serialized
  answer               \* what the server sent: status, flags, body, the value the body holds

exchangeVars == <<stage, call, serialized, answer>>

CALL == 1              \* the id of the request

-----------------------------------------------------------------------------
(* What goes in.                                                           *)

\* The types of the API.  A priority of 0 is none: enqueue sends no option then.
\* All the options of a request fit in two bytes: there are at most six, of at
\* most 257 bytes.
IsArgs(op, args) ==
  /\ args.namespace \in Seq(Nat) /\ args.key \in Seq(Nat)
  /\ IsValue(op.value, args.value)
  /\ Len(args.options) = Len(op.options)
  /\ args.options = [i \in 1..Len(op.options) |-> args.options[i]]
  /\ \A i \in 1..Len(op.options):
       \/ args.options[i] = <<>>
       \/ args.options[i] = <<args.options[i][1]>> /\ IsValue(op.options[i].of, args.options[i][1])
  /\ \A i \in 1..Len(op.options): op.options[i].tag = OptionTag.Priority => args.options[i] # <<0>>
  /\ Len(Options(op, args.options)) <= Widest(U16)

\* A server that knows the layouts answers with values that they hold.
IsAnswer(a, v) ==
  /\ IsValue(a.fields, v) /\ Admits(a.fields, v)
  /\ Countable(a.fields, v) /\ Narrowed(a.fields, v) = v

ASSUME InputsAssumption ==
  \A i \in DOMAIN Operations: \A args \in Tried(Operations[i]):
    LET op == Operations[i] IN
    /\ IsArgs(op, args)
    /\ \A v \in Values(op, args): IsAnswer(op.answer, v)
    /\ Bodies(op, args) \cup Refusals(op, args) \subseteq Seq(Byte)

-----------------------------------------------------------------------------
(* The call, and what the server reads of its request.                     *)

Op == Operations[call.op]

\* The list of items a call like ack is about, the last field of its value.
NoItems == Op.skips /\ Last(call.args.value) = <<>>

Call ==
  /\ stage = "call"
  /\ \/ NoItems /\ stage' = "skipped" /\ UNCHANGED serialized
     \/ ~NoItems /\ ~Serializable(Op, call.args) /\ stage' = "refused" /\ UNCHANGED serialized
     \/ /\ ~NoItems /\ Serializable(Op, call.args)
        /\ stage' = "sent"
        /\ serialized' = serializeRequest(CALL, Op, call.args)
  /\ UNCHANGED <<call, answer>>

\* The fields of a request, with the cells of its value, as the server reads them.
Heard == Read(Envelope(serialized.code), serialized.payload)

\* What was asked for, each option with its number cut to the bytes it has.
Meant ==
  LET narrowed == [i \in DOMAIN Op.options |->
        IF call.args.options[i] = <<>> THEN <<>>
        ELSE <<Narrowed(Op.options[i].of, call.args.options[i][1])>>] IN
  <<call.args.namespace, call.args.key, Encode(Op.value, call.args.value)>>
  \o IF isTableOp(Op.code) THEN <<>> ELSE <<Options(Op, narrowed)>>

-----------------------------------------------------------------------------
(* The server.                                                             *)

AnswersWith(status, flags, body, value) ==
  /\ stage = "sent"
  /\ stage' = "answered"
  /\ answer' = [status |-> status, flags |-> flags, body |-> body, value |-> value]
  /\ UNCHANGED <<call, serialized>>

\* The server answers as it should, perhaps from a replica that is behind,
\* or with a flag that no client knows.
ServerAnswers ==
  \E v \in Values(Op, call.args), flags \in 0..2:
    AnswersWith(OK, flags, Encode(Op.answer.fields, v), IF flags < 2 THEN <<v>> ELSE <<>>)

ServerAnswersBadly == \E b \in Bodies(Op, call.args): AnswersWith(OK, 0, b, <<>>)

ServerRefuses ==
  \E status \in {NotFound, Conflict}, flags \in 0..1, b \in Refusals(Op, call.args):
    AnswersWith(status, flags, b, <<>>)

-----------------------------------------------------------------------------
(* What the caller is given of the answer.                                 *)

Value(v) == [is |-> "value", v |-> v]
Absent == [is |-> "absent"]
Malformed == [is |-> "malformed"]
ServerError(v) == [is |-> "error", reason |-> v[1], ran |-> v[2]]

Paged(v) == (v[2] = 1) <=> (v[3] # <<>>)

\* Mutant: cells left over in an answer are not looked at.
DecodedFront(a, body) ==
  LET r == Read(a.fields, body) IN
  IF Len(body) < a.least THEN Value(a.lacking)
  ELSE IF ~r.ok THEN Malformed
  ELSE IF a.check = "paged" /\ ~Paged(r.v) THEN Malformed
  ELSE Value(r.v)

\* What is made of the body of an answer, of which r was read.
Judged(a, body, r) ==
  IF Len(body) < a.least THEN Value(a.lacking)
  ELSE IF ~r.ok \/ (a.whole /\ r.rest # <<>>) THEN Malformed
  ELSE IF a.check = "paged" /\ ~Paged(r.v) THEN Malformed
  ELSE Value(r.v)
Decoded(a, body) == Judged(a, body, Read(a.fields, body))

\* A refusal names a reason (1 to 30), says whether the request ran, and why.
createServerError(body) ==
  LET r == Read(Row(<<Number(U16, 1, 30), Number(U8, 0, 2), Rest>>), body) IN
  IF r.ok THEN ServerError(r.v) ELSE Malformed

ReasonNotFound == 13

\* Mutant: a replica that is behind may say that a key is absent.
IsAbsentEvenStale(op, error, stale) ==
  \/ op.missing = "definition"
  \/ op.missing # "throws" /\ error.is = "error" /\ error.reason = ReasonNotFound

\* Whether "not found" is told as an absent key, version or definition.
IsAbsent(op, error, stale) ==
  \/ op.missing = "definition"
  \/ /\ error.is = "error" /\ error.reason = ReasonNotFound
     /\ op.missing = "history" \/ (op.missing = "key" /\ ~stale)

ResultOr(error, op, a) ==
  IF a.flags \notin {0, RESPONSE_STALE} THEN Malformed
  ELSE IF a.status = OK THEN Decoded(op.answer, a.body)
  ELSE IF a.status = NotFound /\ IsAbsent(op, error, a.flags = RESPONSE_STALE) THEN Absent
  ELSE error
Result(op, a) == ResultOr(createServerError(a.body), op, a)

-----------------------------------------------------------------------------

Begins ==
  /\ stage = "call"
  /\ serialized = [id |-> 0, code |-> "none", payload |-> <<>>]
  /\ answer = [status |-> OK, flags |-> 0, body |-> <<>>, value |-> <<>>]

ExchangeInit ==
  /\ Begins
  /\ \E i \in DOMAIN Operations: \E args \in Tried(Operations[i]): call = [op |-> i, args |-> args]

ExchangeNext ==
  \/ Call
  \/ ServerAnswers \/ ServerAnswersBadly \/ ServerRefuses

ExchangeSpec == ExchangeInit /\ [][ExchangeNext]_exchangeVars

-----------------------------------------------------------------------------
(* Properties.                                                             *)

\* The server finds the fields of a request that was not refused where the
\* caller put them, and reads each value as it was meant.  No length that is
\* checked is let through that its prefix would wrap.  What the code does not
\* check is told apart: a number too wide for its field is read as its low
\* bytes, and nothing is said of a value with a text longer than its two bytes
\* count, only that it takes no cell of what follows the value
\* (serializeRequest and the serializers, wire.ts; the encoders, kv_body.ts).
RequestReadAsMeant ==
  stage = "sent" =>
    /\ Heard = Accepted(Meant, <<>>)
    /\ Countable(Op.value, call.args.value) =>
         Read(Op.value, Heard.v[3]) = Accepted(Narrowed(Op.value, call.args.value), <<>>)

\* What the caller asked the server to hold its request for.
AskedBlockMs ==
  LET blocks == {call.args.options[i][1]: i \in
        {j \in DOMAIN Op.options: Op.options[j].tag = OptionTag.BlockMS /\ call.args.options[j] # <<>>}} IN
  IF Op.code = "KVGet" THEN call.args.value[1]
  ELSE IF blocks # {} THEN CHOOSE ms \in blocks: TRUE
  ELSE IF Op.code = "ActionAwait" THEN AWAIT_BLOCK_MS ELSE 0

\* The transport, which only has the bytes of a request, waits as long as the
\* request asked to be held, and knows the replies that carry items leased to
\* the caller (requestBlockMs and requestTakesItems, wire.ts).
HeldAsLongAsAsked ==
  stage = "sent" =>
    /\ requestBlockMs(serialized) = AskedBlockMs
    /\ requestTakesItems(serialized) <=> Op \in {dequeue, groupRead, awaitTask}

\* Readers that stop, content, where a body ends.
LooseReaders == {"StreamRead", "StreamGroupRead", "WorkflowStatus"}

\* A reader that takes a body that was not sent so has read every cell of it,
\* so that none is taken for another value.
ReadAsSent(a, result) ==
  /\ answer.value # <<>> =>
       result = IF a.check = "paged" /\ ~Paged(answer.value[1])
                THEN Malformed ELSE Value(answer.value[1])
  /\ result.is = "value" /\ Len(answer.body) >= a.least /\ Op.code \notin LooseReaders =>
       /\ IsPrefix(Encode(a.fields, result.v), answer.body)
       /\ a.whole => Encode(a.fields, result.v) = answer.body

\* An answer is read as the value the server sent, pages that contradict
\* themselves excepted, and no other body is taken for one (the parsers of
\* wire.ts, kv_body.ts, actions.ts, workflows.ts, processing.ts).
AnswerReadAsSent ==
  stage = "answered" /\ answer.status = OK => ReadAsSent(Op.answer, Result(Op, answer))

ToldAsRefused(result) ==
  /\ result.is # "value"
  /\ result.is = "absent" => answer.status = NotFound
  /\ result.is = "absent" /\ Op.missing = "key" =>
       answer.flags = 0 /\ Got(U16, answer.body) = ReasonNotFound
  /\ result.is = "error" => Put(U16, result.reason) \o <<result.ran>> = SubSeq(answer.body, 1, 3)

\* A caller is told that a key is absent only when the server said so, of
\* its latest state (absentKey, kv.ts), and of a refusal what it said.
RefusalReadAsSent ==
  stage = "answered" /\ answer.status # OK => ToldAsRefused(Result(Op, answer))

=============================================================================
