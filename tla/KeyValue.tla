---- MODULE KeyValue ----
(***************************************************************************)
(* The requests and answers of packages/core/src/kv.ts, kv_body.ts and     *)
(* kv_txn.ts, each as an operation of Wire.  A number of ms, a version, a  *)
(* count or a transaction id is its number; what a text says is left out.  *)
(***************************************************************************)
EXTENDS Wire

\* BodyWriter: a routing key is absent when empty, a JSON path never is.
routingKey == Opt([Text(U16, MAX_SHORT) EXCEPT !.min = 1])
jsonPath == Given([Text(U16, MAX_SHORT) EXCEPT !.min = 1])
optU64 == Opt(Uint(U64))
txn == Opt(Masked(U64))              \* a number from the server: not checked

\* waitMs, waitFor (exists or change), routing key, txn.
encodeGetBody == <<Given(Number(U64, 0, MAX_BLOCK_MS)), Given(Number(U8, 0, 1)), routingKey, txn>>
decodeGetAnswer == Answer(<<Uint(U64), Name(U32), optU64>>)
kvGet == OrNull(Operation("KVGet", encodeGetBody, <<>>, decodeGetAnswer), "key")

\* value, ttl (0 is sent as absent), condition (3 of them), cas version, routing key, txn.
encodeSetBody ==
  <<Text(U32, MAX_BODY), Opt(Number(U64, 1, Widest(U64))), Given(Number(U8, 0, 2)), optU64,
    routingKey, txn>>
decodeSetAnswer == Answer(<<optU64>>)
kvSet == Operation("KVPut", encodeSetBody, <<>>, decodeSetAnswer)

encodeDeleteBody == <<optU64, routingKey, txn>>
\* Outside a transaction the answer must say whether the key existed.
decodeDeleteAnswer == Answer(<<Given(Bool)>>)
kvDelete == Operation("KVDelete", encodeDeleteBody, <<>>, decodeDeleteAnswer)

encodeScanBody == <<Given(Number(U32, 1, MAX_COUNT)), Text(U16, MAX_SHORT)>>
decodeScanAnswer == Answer(<<List(U16, 0, Unchecked, Name(U16)), Opt(Name(U16))>>)
kvScan == Operation("KVScan", encodeScanBody, <<>>, decodeScanAnswer)

encodeHistoryBody == <<Given(Number(U32, 1, MAX_COUNT)), optU64, routingKey>>
decodeHistoryAnswer ==
  Answer(<<List(U8, 0, Unchecked, Row(<<Uint(U64), Uint(U64), Bool, Name(U32)>>)), Bool>>)
kvHistory == OrNull(Operation("KVHistory", encodeHistoryBody, <<>>, decodeHistoryAnswer), "history")

encodeIncrBody == <<Given(Uint(U64)), routingKey, txn>>
\* decodeIncrResult: outside a transaction both fields must be there.
decodeIncrAnswer == Answer(<<Given(Uint(U64)), Given(Uint(U64))>>)
kvIncr == Operation("KVIncr", encodeIncrBody, <<>>, decodeIncrAnswer)

\* ttlMs is at most u64 max in nanoseconds, so far less than its field holds.
encodeExpireBody == <<Number(U64, 0, Widest(U64) \div RADIX), optU64, routingKey, txn>>
decodeEmptyAnswer == Answer(<<>>)
kvExpire == Operation("KVExpire", encodeExpireBody, <<>>, decodeEmptyAnswer)

encodeExistsBody == <<routingKey, txn>>
decodeExistsAnswer == Answer(<<Bool, Uint(U64)>>)
kvExists == Operation("KVExists", encodeExistsBody, <<>>, decodeExistsAnswer)

encodeJsonPathBody == <<jsonPath, routingKey>>
decodeJsonGetAnswer == Answer(<<Uint(U64), Name(U32)>>)
decodeJsonDelAnswer == Answer(<<optU64>>)
jsonGet == OrNull(Operation("KVJsonGet", encodeJsonPathBody, <<>>, decodeJsonGetAnswer), "key")
jsonDel == Operation("KVJsonDel", encodeJsonPathBody, <<>>, decodeJsonDelAnswer)

encodeJsonSetBody == <<jsonPath, Text(U32, MAX_BODY), routingKey>>
decodeJsonSetAnswer == Answer(<<Uint(U64)>>)
jsonSet == Operation("KVJsonSet", encodeJsonSetBody, <<>>, decodeJsonSetAnswer)

\* One page of mget: 1 to 256 keys, and the first key not answered, if any.
encodeMGetBody == <<List(U16, 1, MAX_COUNT, Text(U16, MAX_SHORT)), routingKey>>
decodeMGetAnswer ==
  Answer(<<List(U16, 0, Unchecked, Row(<<Bool, Uint(U64), Name(U32)>>)), Opt(Uint(U16))>>)
kvMGetPage == Keyless(Operation("KVMGet", encodeMGetBody, <<>>, decodeMGetAnswer))

\* A transaction: begun on a routing key, then ended by its id.
encodeTxnBody == <<Uint(U64)>>
decodeTxnBeginAnswer == Answer(<<Uint(U64), Uint(U64)>>)
decodeTxnCommitAnswer == Answer(<<Uint(U64), Uint(U16)>>)
txnBegin ==
  [Operation("KVBeginTxn", <<>>, <<>>, decodeTxnBeginAnswer) EXCEPT !.key = 1..MAX_SHORT]
txnCommit == Keyless(Operation("KVCommitTxn", encodeTxnBody, <<>>, decodeTxnCommitAnswer))
txnRollback == Keyless(Operation("KVRollbackTxn", encodeTxnBody, <<>>, decodeEmptyAnswer))

KeyValueOperations ==
  <<kvGet, kvSet, kvDelete, kvScan, kvHistory, kvIncr, kvExpire, kvExists, jsonGet, jsonDel,
    jsonSet, kvMGetPage, txnBegin, txnCommit, txnRollback>>

=============================================================================
