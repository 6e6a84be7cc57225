--------------------------- MODULE MCOperations ---------------------------
(* The operations and what is under them share no state here: each part is *)
(* checked alone, in behaviours of its own.                                *)
EXTENDS MCExchange, MGet, Txn, Sync, TaskRun, Chunks, SequencesExt, TLC

VARIABLE part        \* which of them

\* Processes and workflows are alike.
Alike == Permutations(Processes) \cup Permutations(Workflows)

\* A checksum that, as CRC32C does, misses no single cell that differs.
Checksum(cells) == FoldLeft(LAMBDA sum, cell: (sum * 31 + cell + 1) % 65521, 7, cells)

Reply(status, flags, payload) == [status |-> status, flags |-> flags, payload |-> payload]

\* Frames as large as any, of a refusal, and one that is too large.
SomeAnswers == {Reply(0, 1, <<2>>), Reply(8, 0, <<>>), Reply(0, 0, <<2, 2>>)}

\* The other parts wait at one of their initial states.
Init ==
  /\ part \in {"exchange", "mget", "txn", "sync", "task", "frames"}
  /\ MGetInit /\ TxnInit /\ SyncInit /\ ChunksInit
  /\ TaskInit /\ (part # "task" => ~autoTouch /\ timeoutMs = 0)
  /\ IF part = "exchange" THEN ExchangeInit
     ELSE Begins /\ call = [op |-> 1, args |-> PlainArgs(Operations[1])]

Next ==
  /\ UNCHANGED part
  /\ \/ /\ part = "exchange" /\ ExchangeNext
        /\ UNCHANGED <<mgetVars, txnVars, syncVars, taskVars, chunksVars>>
     \/ /\ part = "mget" /\ MGetNext
        /\ UNCHANGED <<exchangeVars, txnVars, syncVars, taskVars, chunksVars>>
     \/ /\ part = "txn" /\ TxnNext
        /\ UNCHANGED <<exchangeVars, mgetVars, syncVars, taskVars, chunksVars>>
     \/ /\ part = "sync" /\ SyncNext
        /\ UNCHANGED <<exchangeVars, mgetVars, txnVars, taskVars, chunksVars>>
     \/ /\ part = "task" /\ TaskNext
        /\ UNCHANGED <<exchangeVars, mgetVars, txnVars, syncVars, chunksVars>>
     \/ /\ part = "frames" /\ ChunksNext
        /\ UNCHANGED <<exchangeVars, mgetVars, txnVars, syncVars, taskVars>>

Spec == Init /\ [][Next]_<<part, exchangeVars, mgetVars, txnVars, syncVars, taskVars, chunksVars>>
=============================================================================
