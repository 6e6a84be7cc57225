---- MODULE Txn ----
(***************************************************************************)
(* A Transaction of packages/core/src/kv_txn.ts: its calls, which nothing  *)
(* keeps from being out at once, the client that sends a request again     *)
(* when it was refused as not run, and the server, which buffers the       *)
(* writes of an open transaction and refuses those of one that has ended.  *)
(***************************************************************************)
EXTENDS Naturals, Sequences, SequencesExt

CONSTANT TxnCalls                    \* the calls made on one handle

VARIABLES
  done,                \* this.done
  op,                  \* what each call is: "write", "commit" or "rollback"
  told,                \* what came of it
  sends,               \* requests on their way: of which call, and whether resent
  server,              \* "open", then "committed" or "rolledBack"
  buffered,            \* the calls whose writes the server holds
  applied              \* those it applied

txnVars == <<done, op, told, sends, server, buffered, applied>>

Endings == {"commit", "rollback"}
\* A call that was sent is out until it is told ok or failed; one that was
\* not is refused (TxnFinishedError) or, a rollback, done already.
Outcomes == {"none", "out", "ok", "failed", "finished", "already"}
Sent(c) == told[c] \in {"out", "ok", "failed"}

TxnTypeOK ==
  /\ done \in BOOLEAN
  /\ op \in [TxnCalls -> {"none", "write"} \cup Endings] /\ told \in [TxnCalls -> Outcomes]
  /\ sends \in Seq([call: TxnCalls, again: BOOLEAN])
  /\ server \in {"open", "committed", "rolledBack"}
  /\ buffered \subseteq TxnCalls /\ applied \subseteq TxnCalls

TxnInit ==
  /\ done = FALSE
  /\ op = [c \in TxnCalls |-> "none"] /\ told = [c \in TxnCalls |-> "none"]
  /\ sends = <<>> /\ server = "open" /\ buffered = {} /\ applied = {}

-----------------------------------------------------------------------------
(* The handle.                                                             *)

Asks(c, which, outcome) ==
  /\ told[c] = "none"
  /\ op' = [op EXCEPT ![c] = which]
  /\ told' = [told EXCEPT ![c] = outcome]
  /\ sends' = IF outcome = "out" THEN Append(sends, [call |-> c, again |-> FALSE]) ELSE sends
  /\ UNCHANGED <<server, buffered, applied>>

\* put, delete, incr, expire; get and exists send just so, and change nothing.
Write(c) ==
  /\ Asks(c, "write", IF done THEN "finished" ELSE "out")
  /\ UNCHANGED done

\* Mutant: done is not set before the answer is awaited.
CommitUnmarked(c) ==
  /\ Asks(c, "commit", IF done THEN "finished" ELSE "out")
  /\ UNCHANGED done

Commit(c) ==
  /\ Asks(c, "commit", IF done THEN "finished" ELSE "out")
  /\ done' = TRUE

Rollback(c) ==
  /\ Asks(c, "rollback", IF done THEN "already" ELSE "out")
  /\ done' = TRUE

-----------------------------------------------------------------------------
(* The client, the network and the server.                                 *)

Tells(c, outcome) ==
  told' = IF told[c] = "out" THEN [told EXCEPT ![c] = outcome] ELSE told

\* The server reads the oldest request and its answer reaches the caller.
TxnServerReads ==
  /\ sends # <<>>
  /\ LET c == Head(sends).call IN
     IF server # "open" THEN Tells(c, "failed") /\ UNCHANGED <<server, buffered, applied>>
     ELSE /\ Tells(c, "ok")
          /\ buffered' = IF op[c] = "write" THEN buffered \cup {c} ELSE buffered
          /\ applied' = IF op[c] = "commit" THEN buffered ELSE applied
          /\ server' = IF op[c] = "commit" THEN "committed"
                       ELSE IF op[c] = "rollback" THEN "rolledBack" ELSE server
  /\ sends' = Tail(sends)
  /\ UNCHANGED <<done, op>>

\* It refuses the request as not run: the client sends it again, once, behind
\* what has been sent since.
TxnRefused ==
  /\ sends # <<>>
  /\ LET c == Head(sends).call IN
     IF Head(sends).again \/ told[c] # "out"
     THEN Tells(c, "failed") /\ sends' = Tail(sends)
     ELSE sends' = Append(Tail(sends), [call |-> c, again |-> TRUE]) /\ UNCHANGED told
  /\ UNCHANGED <<done, op, server, buffered, applied>>

\* The caller gives up on a request, which the server may read still.
TxnTimeout(c) ==
  /\ told[c] = "out"
  /\ Tells(c, "failed")
  /\ UNCHANGED <<done, op, sends, server, buffered, applied>>

TxnNext ==
  \/ \E c \in TxnCalls: Write(c) \/ Commit(c) \/ Rollback(c) \/ TxnTimeout(c)
  \/ TxnServerReads \/ TxnRefused

TxnSpec == TxnInit /\ [][TxnNext]_txnVars

-----------------------------------------------------------------------------
(* Properties.                                                             *)

\* However its calls overlap, a transaction is ended by one request at most;
\* a commit that is told to have worked applied every write told to be
\* buffered; a rollback that is told so applied none; and what a call is told
\* of a transaction that is over is so because an ending was sent before it
\* (checkAlive, commit and rollback set done before they await).
EndsOnce ==
  /\ \A c, d \in TxnCalls:
       op[c] \in Endings /\ op[d] \in Endings /\ Sent(c) /\ Sent(d) => c = d
  /\ \A c \in TxnCalls: told[c] = "ok" =>
       /\ op[c] = "commit" =>
            \A w \in TxnCalls: op[w] = "write" /\ told[w] = "ok" => w \in applied
       /\ op[c] = "rollback" => applied = {}
  /\ \A c \in TxnCalls: told[c] \in {"finished", "already"} =>
       \E d \in TxnCalls: op[d] \in Endings /\ Sent(d)

=============================================================================
