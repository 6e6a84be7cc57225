---- MODULE MGet ----
(***************************************************************************)
(* KVOperations.mget of packages/core/src/kv.ts: one lookup of many keys,  *)
(* split into runs that each fit a frame (splitMGetKeys, kv_body.ts), each *)
(* run asked for again from the first key a page left out, and the server, *)
(* which may answer a page that contradicts the request.  A key is its     *)
(* place in the list and its length; an entry is the place of the key the  *)
(* server looked up for it.                                                *)
(***************************************************************************)
EXTENDS Integers, Sequences

CONSTANTS
  MAX_MGET_KEYS,       \* 256
  MAX_MGET_KEY,        \* 4096
  MAX_MGET_KEYS_BYTES  \* what the keys of a frame may take, lengths included

ASSUME MGetAssumption ==
  /\ MAX_MGET_KEYS \in Nat \ {0} /\ MAX_MGET_KEY \in Nat
  /\ MAX_MGET_KEYS_BYTES \in Nat /\ 2 + MAX_MGET_KEY <= MAX_MGET_KEYS_BYTES

VARIABLES
  mget,                \* where the call is
  keys,                \* the length of each key
  upTo,                \* history: the bytes of the keys up to each the split has passed
  size,                \* bytes of the run it is in
  ends,                \* the end of each run
  run,                 \* the run being asked for
  out,                 \* the entries so far
  asks                 \* history: the requests sent

mgetVars == <<mget, keys, upTo, size, ends, run, out, asks>>

MGetTypeOK ==
  /\ mget \in {"none", "splitting", "asking", "asked", "done", "refused", "failed"}
  /\ keys \in Seq(Nat) /\ upTo \in Seq(Nat) /\ size \in Nat
  /\ ends \in Seq(Nat) /\ run \in Nat \ {0} /\ out \in Seq(Nat) /\ asks \in Nat

MGetInit ==
  /\ mget = "none" /\ keys = <<>> /\ upTo = <<>> /\ size = 0
  /\ ends = <<>> /\ run = 1 /\ out = <<>> /\ asks = 0

-----------------------------------------------------------------------------
(* Splitting the keys.                                                     *)

\* No key is no request; too many are refused.
MGetCall ==
  /\ mget = "none"
  /\ \E n \in 0..(MAX_MGET_KEYS + 1): keys' \in [1..n -> 0..(MAX_MGET_KEY + 1)]
  /\ mget' = IF keys' = <<>> THEN "done"
             ELSE IF Len(keys') > MAX_MGET_KEYS THEN "refused" ELSE "splitting"
  /\ UNCHANGED <<upTo, size, ends, run, out, asks>>

Scanned == Len(upTo)                 \* keys the split has passed
Bytes(i) == IF i = 0 THEN 0 ELSE upTo[i]
Length == keys[Scanned + 1]          \* of the key the split comes to

\* Mutant: the prefix that says how long the key is is not counted.
StartsRunUncounted == size + Length > MAX_MGET_KEYS_BYTES

StartsRun == size + 2 + Length > MAX_MGET_KEYS_BYTES

SplitKey ==
  /\ mget = "splitting" /\ Scanned < Len(keys)
  /\ IF Length > MAX_MGET_KEY
     THEN mget' = "refused" /\ UNCHANGED <<upTo, size, ends>>
     ELSE /\ ends' = IF StartsRun THEN Append(ends, Scanned) ELSE ends
          /\ size' = (IF StartsRun THEN 0 ELSE size) + 2 + Length
          /\ upTo' = Append(upTo, Bytes(Scanned) + 2 + Length)
          /\ UNCHANGED mget
  /\ UNCHANGED <<keys, run, out, asks>>

SplitOver ==
  /\ mget = "splitting" /\ Scanned = Len(keys)
  /\ ends' = Append(ends, Len(keys))
  /\ mget' = "asking"
  /\ UNCHANGED <<keys, upTo, size, run, out, asks>>

-----------------------------------------------------------------------------
(* Asking for them.                                                        *)

\* A run all of whose keys are answered is over; after the last one, mget.
RunOver ==
  /\ mget = "asking" /\ Len(out) >= ends[run]
  /\ IF run = Len(ends) THEN mget' = "done" /\ UNCHANGED run ELSE run' = run + 1 /\ UNCHANGED mget
  /\ UNCHANGED <<keys, upTo, size, ends, out, asks>>

Ask ==
  /\ mget = "asking" /\ Len(out) < ends[run]
  /\ mget' = "asked" /\ asks' = asks + 1
  /\ UNCHANGED <<keys, upTo, size, ends, run, out>>

Asked == ends[run] - Len(out)        \* the keys of the request

\* Mutant: an empty page is taken, for the next one may answer.
PageHoldsOrEmpty(n, next) ==
  LET answered == IF next = <<>> THEN Asked ELSE next[1] IN
  n = answered /\ answered <= Asked /\ (next # <<>> => answered # Asked)

\* What mget takes of a page of n entries: without next the page answers
\* every key asked for; with it the keys before, one at least but not all.
PageHolds(n, next) ==
  LET answered == IF next = <<>> THEN Asked ELSE next[1] IN
  n = answered /\ answered # 0 /\ answered <= Asked /\ (next # <<>> => answered # Asked)

\* Entries past the keys asked for are answers to none of them.
Entries(n) == [i \in 1..n |-> IF i <= Asked THEN Len(out) + i ELSE 0]

\* A page of any number of entries, with any next, or none.
PageAnswered ==
  /\ mget = "asked"
  /\ \E n \in 0..(Asked + 1), next \in {<<>>} \cup {<<i>>: i \in 0..(Asked + 1)}:
       IF PageHolds(n, next)
       THEN out' = out \o Entries(n) /\ mget' = "asking"
       ELSE mget' = "failed" /\ UNCHANGED out
  /\ UNCHANGED <<keys, upTo, size, ends, run, asks>>

\* A refusal, or a request lost.
AskFails ==
  /\ mget = "asked"
  /\ mget' = "failed"
  /\ UNCHANGED <<keys, upTo, size, ends, run, out, asks>>

MGetNext == MGetCall \/ SplitKey \/ SplitOver \/ RunOver \/ Ask \/ PageAnswered \/ AskFails

MGetSpec == MGetInit /\ [][MGetNext]_mgetVars

-----------------------------------------------------------------------------
(* Properties.                                                             *)

\* Whatever pages come, each key is answered once, in its place, by an
\* answer to that key; the keys of each request fit its frame
\* (splitMGetKeys, kv_body.ts); and each request answers one key at least,
\* so that mget ends ("or the loop would not end", kv.ts mget).
EachKeyOnce ==
  /\ \A i \in DOMAIN out: out[i] = i
  /\ mget = "done" => Len(out) = Len(keys)
  /\ mget = "asked" => Bytes(ends[run]) - Bytes(Len(out)) <= MAX_MGET_KEYS_BYTES
  /\ asks <= Len(out) + (IF mget \in {"asked", "failed"} THEN 1 ELSE 0)

=============================================================================
