-------------------------- MODULE StreamWorkerProofs --------------------------
(***************************************************************************)
(* StreamWorker for any concurrency, batch size and records, any number of *)
(* heartbeats and of requests given up on, whatever the client resends and *)
(* the server reads late: its types, that each record is held once, and    *)
(* that no registration outlives its run but one resent or read late.      *)
(***************************************************************************)
EXTENDS StreamWorker, SequenceTheorems, FiniteSetTheorems, TLAPS

Message == [op : Asking \cup Beating, live : BOOLEAN, again : BOOLEAN]

\* Message m is one start() awaits; m registers the worker, and is not one sent
\* again.
Asked(m) == m.live /\ m.op \in Asking
Registers(m) == m.op \in {"register", "reregister"} /\ ~m.again

\* Of the requests w start() awaits at most one, the one it is at; and behind
\* a deregister that it awaits none registers the worker but one sent again.
WireOK(w, state) ==
  /\ w \in Seq(Message)
  /\ \A i \in 1..Len(w) : Asked(w[i]) => w[i].op = state
  /\ \A i, j \in 1..Len(w) : Asked(w[i]) /\ Asked(w[j]) => i = j
  /\ \A i, j \in 1..Len(w) : i < j /\ w[i].live /\ w[i].op = "deregister" => ~Registers(w[j])

NoneAsked(w) == \A i \in 1..Len(w) : ~Asked(w[i])
NoneRegisters(w) == \A i \in 1..Len(w) : ~Registers(w[i])

FlagsOK ==
  /\ stop \in BOOLEAN /\ draining \in BOOLEAN /\ noticeDue \in BOOLEAN
  /\ beating \in BOOLEAN /\ unproven \in BOOLEAN

ClientOK ==
  owned \in BOOLEAN /\ held \in BOOLEAN /\ closed \in BOOLEAN /\ reclosed \in BOOLEAN /\ parted \in BOOLEAN

StateOK == at \in RunStates /\ registry \in {"none", "active", "draining"}

ControlInv == FlagsOK /\ ClientOK /\ StateOK

\* Records are handed back only where the loop awaits it, which is why none
\* is lost when the next batch is read.
RecordsInv ==
  /\ batch \in Seq(Records) /\ Len(batch) <= BatchSize
  /\ active \subseteq Records /\ Cardinality(active) <= Concurrency
  /\ handing \subseteq Records /\ owed \subseteq Records
  /\ batch # <<>> <=> at = "dispatching"
  /\ handing # {} => at = "handing"
  /\ HeldOnce

\* The client is to resend no request that start() awaits.
NoWait == \A op \in Asking : backoff[op] = 0

\* At most one that it does, which is then not on the wire.
WaitInv ==
  /\ backoff \in [Asking \cup Beating -> Nat] /\ late \subseteq LateReads
  /\ \A op \in Asking : backoff[op] # 0 => backoff[op] = 1 /\ op = at /\ NoneAsked(wire)

\* Of a run that parted nothing is on its way that registers it, but what is
\* sent again.
PartedInv == parted => at \in {"leave", "idle"} /\ NoneRegisters(wire)

Inv == ControlInv /\ RecordsInv /\ WireOK(wire, at) /\ WaitInv /\ PartedInv

LEMMA InvImpliesTypeOK == Inv => TypeOK
BY DEF Inv, ControlInv, FlagsOK, ClientOK, StateOK, RecordsInv, WireOK, WaitInv, TypeOK, Message

-----------------------------------------------------------------------------
(* The wire.                                                               *)

\* Request m is n, awaited only if n was.
SameRequest(m, n) == m.op = n.op /\ m.again = n.again /\ (m.live => n.live)

\* Each request of w is one of v, in the order of v, and awaited only if it
\* was.
Within(w, v) ==
  /\ w \in Seq(Message)
  /\ \E place \in [1..Len(w) -> 1..Len(v)] :
       /\ \A i, j \in 1..Len(w) : i < j => place[i] < place[j]
       /\ \A i \in 1..Len(w) : SameRequest(w[i], v[place[i]])

LEMMA WithinOK ==
  ASSUME NEW v, NEW w, NEW state, WireOK(v, state), Within(w, v)
  PROVE  /\ WireOK(w, state)
         /\ NoneAsked(v) => NoneAsked(w)
         /\ NoneRegisters(v) => NoneRegisters(w)
<1>1. PICK place \in [1..Len(w) -> 1..Len(v)] :
        /\ \A i, j \in 1..Len(w) : i < j => place[i] < place[j]
        /\ \A i \in 1..Len(w) : SameRequest(w[i], v[place[i]])
  BY DEF Within
<1>2. w \in Seq(Message) /\ v \in Seq(Message) /\ Len(w) \in Nat /\ Len(v) \in Nat
  BY LenProperties DEF Within, WireOK
<1>3. \A i \in 1..Len(w) :
        /\ place[i] \in 1..Len(v)
        /\ Asked(w[i]) => Asked(v[place[i]])
        /\ Registers(w[i]) <=> Registers(v[place[i]])
  BY <1>1 DEF Asked, Registers, SameRequest
<1>4. \A i \in 1..Len(w) : Asked(w[i]) => w[i].op = state
  BY <1>1, <1>3 DEF WireOK, SameRequest
<1>5. ASSUME NEW i \in 1..Len(w), NEW j \in 1..Len(w), Asked(w[i]), Asked(w[j])
      PROVE  i = j
  <2>1. place[i] = place[j]
    BY <1>3, <1>5 DEF WireOK
  <2>2. i \in Int /\ j \in Int /\ place[i] \in Int /\ place[j] \in Int
    BY <1>2, <1>3
  <2>3. ~(i < j) /\ ~(j < i)
    BY <1>1, <2>1, <2>2
  <2> QED BY <2>2, <2>3
<1>6. \A i, j \in 1..Len(w) : i < j /\ w[i].live /\ w[i].op = "deregister" => ~Registers(w[j])
  BY <1>1, <1>3 DEF WireOK, SameRequest
<1>7. WireOK(w, state)
  BY <1>2, <1>4, <1>5, <1>6 DEF WireOK
<1> QED BY <1>3, <1>7 DEF NoneAsked, NoneRegisters

LEMMA EmptyWithin ==
  ASSUME NEW v \in Seq(Message)
  PROVE  Within(<<>>, v)
<1>1. <<>> \in Seq(Message) /\ Len(<<>>) = 0
  BY EmptySeq
<1> DEFINE place == [i \in 1..0 |-> 1]
<1>2. place \in [1..Len(<<>>) -> 1..Len(v)]
  BY <1>1
<1>3. \A i \in 1..Len(<<>>) : FALSE
  BY <1>1
<1> QED BY <1>1, <1>2, <1>3 DEF Within

LEMMA TailWithin ==
  ASSUME NEW v \in Seq(Message), v # <<>>
  PROVE  Within(Tail(v), v)
<1>1. /\ Tail(v) \in Seq(Message) /\ Len(Tail(v)) = Len(v) - 1
      /\ \A i \in 1..Len(Tail(v)) : Tail(v)[i] = v[i + 1]
  BY HeadTailProperties
<1>2. Len(v) \in Nat
  BY LenProperties
<1> DEFINE place == [i \in 1..Len(Tail(v)) |-> i + 1]
<1>3. place \in [1..Len(Tail(v)) -> 1..Len(v)]
  BY <1>1, <1>2
<1>4. \A i, j \in 1..Len(Tail(v)) : i < j => place[i] < place[j]
  BY <1>1, <1>2
<1>5. \A i \in 1..Len(Tail(v)) :
        SameRequest(Tail(v)[i], v[place[i]])
  BY <1>1 DEF SameRequest
<1> HIDE DEF place
<1> QED BY <1>1, <1>3, <1>4, <1>5 DEF Within

LEMMA RemovedWithin ==
  ASSUME NEW v \in Seq(Message), NEW k \in 1..Len(v)
  PROVE  Within(RemoveAt(v, k), v)
<1> DEFINE front == SubSeq(v, 1, k - 1)
           back == SubSeq(v, k + 1, Len(v))
           w == front \o back
<1>1. Len(v) \in Nat /\ k \in Nat /\ k >= 1 /\ k <= Len(v)
  BY LenProperties
<1>2. \A i \in 1..Len(v) : v[i] \in Message
  BY ElementOfSeq
<1>3. /\ front \in Seq(Message) /\ Len(front) = k - 1
      /\ \A i \in 1..(k - 1) : front[i] = v[i]
  <2>1. \A i \in 1..(k - 1) : v[i] \in Message
    BY <1>1, <1>2
  <2>2. /\ front \in Seq(Message) /\ Len(front) = IF 1 <= k - 1 THEN k - 1 - 1 + 1 ELSE 0
        /\ \A i \in 1..(k - 1 - 1 + 1) : front[i] = v[1 + i - 1]
    BY <1>1, <2>1, SubSeqProperties
  <2> HIDE DEF front
  <2> QED BY <1>1, <2>2
<1>4. /\ back \in Seq(Message) /\ Len(back) = Len(v) - k
      /\ \A i \in 1..(Len(v) - k) : back[i] = v[k + i]
  <2>1. \A i \in (k + 1)..Len(v) : v[i] \in Message
    BY <1>1, <1>2
  <2>2. /\ back \in Seq(Message)
        /\ Len(back) = IF k + 1 <= Len(v) THEN Len(v) - (k + 1) + 1 ELSE 0
        /\ \A i \in 1..(Len(v) - (k + 1) + 1) : back[i] = v[k + 1 + i - 1]
    BY <1>1, <2>1, SubSeqProperties
  <2> HIDE DEF back
  <2> QED BY <1>1, <2>2
<1> HIDE DEF front, back
<1>5. /\ w \in Seq(Message) /\ Len(w) = Len(v) - 1
      /\ \A i \in 1..(Len(v) - 1) : w[i] = IF i <= k - 1 THEN v[i] ELSE v[i + 1]
  <2>1. /\ w \in Seq(Message) /\ Len(w) = Len(front) + Len(back)
        /\ \A i \in 1..(Len(front) + Len(back)) :
             w[i] = IF i <= Len(front) THEN front[i] ELSE back[i - Len(front)]
    BY <1>3, <1>4, ConcatProperties
  <2>2. Len(front) + Len(back) = Len(v) - 1
    BY <1>1, <1>3, <1>4
  <2>3. ASSUME NEW i \in 1..(Len(v) - 1)
        PROVE  w[i] = IF i <= k - 1 THEN v[i] ELSE v[i + 1]
    <3>1. CASE i <= k - 1
      BY <1>1, <1>3, <2>1, <2>2, <3>1
    <3>2. CASE ~(i <= k - 1)
      <4>1. i - (k - 1) \in 1..(Len(v) - k) /\ k + (i - (k - 1)) = i + 1
        BY <1>1, <3>2
      <4>2. w[i] = back[i - (k - 1)]
        BY <1>1, <1>3, <2>1, <2>2, <3>2
      <4>3. back[i - (k - 1)] = v[k + (i - (k - 1))]
        BY <1>4, <4>1
      <4> QED BY <3>2, <4>1, <4>2, <4>3
    <3> QED BY <3>1, <3>2
  <2> HIDE DEF w
  <2> QED BY <2>1, <2>2, <2>3
<1> DEFINE place == [i \in 1..(Len(v) - 1) |-> IF i <= k - 1 THEN i ELSE i + 1]
<1>6. RemoveAt(v, k) = w
  BY DEF RemoveAt, front, back
<1> HIDE DEF w
<1>7. place \in [1..Len(w) -> 1..Len(v)]
  BY <1>1, <1>5
<1>8. \A i, j \in 1..Len(w) : i < j => place[i] < place[j]
  BY <1>1, <1>5
<1>9. \A i \in 1..Len(w) : SameRequest(w[i], v[place[i]])
  BY <1>1, <1>5 DEF SameRequest
<1> HIDE DEF place
<1>10. Within(w, v)
  BY <1>5, <1>7, <1>8, <1>9 DEF Within
<1> QED BY <1>6, <1>10

LEMMA GivenUpWithin ==
  ASSUME NEW v \in Seq(Message), NEW k \in 1..Len(v)
  PROVE  Within([v EXCEPT ![k].live = FALSE], v)
<1>0. [v EXCEPT ![k].live = FALSE] = [v EXCEPT ![k] = [v[k] EXCEPT !.live = FALSE]]
  OBVIOUS
<1> DEFINE dead == [v[k] EXCEPT !.live = FALSE]
           w == [v EXCEPT ![k] = dead]
<1>1. v[k] \in Message /\ Len(v) \in Nat
  BY ElementOfSeq, LenProperties
<1>2. dead \in Message /\ dead.op = v[k].op /\ dead.again = v[k].again /\ dead.live = FALSE
  BY <1>1 DEF Message
<1>3. [v EXCEPT ![k].live = FALSE] = w
  BY <1>0
<1> HIDE DEF dead
<1>4. /\ w \in Seq(Message) /\ Len(w) = Len(v)
      /\ \A j \in 1..Len(v) : w[j] = IF j = k THEN dead ELSE v[j]
  BY <1>2, ExceptSeq
<1> DEFINE place == [i \in 1..Len(w) |-> i]
<1> HIDE DEF w
<1>5. place \in [1..Len(w) -> 1..Len(v)]
  BY <1>4
<1>6. \A i, j \in 1..Len(w) : i < j => place[i] < place[j]
  OBVIOUS
<1>7. \A i \in 1..Len(w) : SameRequest(w[i], v[place[i]])
  BY <1>2, <1>4 DEF SameRequest
<1> HIDE DEF place
<1>8. Within(w, v)
  BY <1>4, <1>5, <1>6, <1>7 DEF Within
<1> QED BY <1>3, <1>8

\* A wire of which start() awaits nothing fits any state.
LEMMA NoneAskedOK ==
  ASSUME NEW w, NEW state, NEW other, WireOK(w, state), NoneAsked(w)
  PROVE  WireOK(w, other)
BY DEF WireOK, NoneAsked

\* At a state that asks nothing, start() awaits nothing.
LEMMA NotAsking ==
  ASSUME NEW w, NEW state, WireOK(w, state), state \notin Asking
  PROVE  NoneAsked(w)
BY DEF WireOK, NoneAsked, Asked

\* The next request of start().
LEMMA AppendAsked ==
  ASSUME NEW w, NEW state, WireOK(w, state), NoneAsked(w), NEW op \in Asking, NEW again \in BOOLEAN
  PROVE  LET m == Request(op, again)
         IN  /\ WireOK(Append(w, m), op)
             /\ NoneRegisters(w) /\ (op # "register" \/ again) => NoneRegisters(Append(w, m))
<1> DEFINE m == Request(op, again)
<1>1. m \in Message /\ m.op = op /\ m.live = TRUE /\ m.again = again
  BY DEF Message, Request
<1> HIDE DEF m
<1>2. w \in Seq(Message) /\ Len(w) \in Nat
  BY LenProperties DEF WireOK
<1>3. /\ Append(w, m) \in Seq(Message) /\ Len(Append(w, m)) = Len(w) + 1
      /\ \A i \in 1..Len(w) : Append(w, m)[i] = w[i]
      /\ Append(w, m)[Len(w) + 1] = m
  BY <1>1, <1>2, AppendProperties
<1> DEFINE v == Append(w, m)
<1>4. \A i \in 1..Len(v) : i \in 1..Len(w) \/ i = Len(w) + 1
  BY <1>2, <1>3
<1> HIDE DEF v
<1>5. \A i \in 1..Len(v) : Asked(v[i]) => i = Len(w) + 1
  BY <1>3, <1>4 DEF NoneAsked, v
<1>6. WireOK(v, op)
  <2>1. \A i \in 1..Len(v) : Asked(v[i]) => v[i].op = op
    BY <1>1, <1>3, <1>5 DEF v
  <2>2. ASSUME NEW i \in 1..Len(v), NEW j \in 1..Len(v), i < j, v[i].live, v[i].op = "deregister"
        PROVE  FALSE
    <3>1. Asked(v[i])
      BY <2>2 DEF Asked, Asking
    <3>2. i = Len(w) + 1 /\ Len(v) = Len(w) + 1
      BY <1>3, <1>5, <3>1 DEF v
    <3> QED BY <1>2, <2>2, <3>2
  <2> QED BY <1>3, <1>5, <2>1, <2>2 DEF WireOK, v
<1>7. NoneRegisters(w) /\ (op # "register" \/ again) => NoneRegisters(v)
  BY <1>1, <1>3, <1>4 DEF NoneRegisters, Registers, v, Asking
<1> QED BY <1>6, <1>7 DEF v, m

\* A heartbeat, or a registration of one while start() is not at its
\* deregister, or one of either that is sent again.
LEMMA AppendBeat ==
  ASSUME NEW w, NEW state, WireOK(w, state), NEW op \in Beating, NEW again \in BOOLEAN,
         op = "heartbeat" \/ again \/ state # "deregister"
  PROVE  LET m == Request(op, again)
         IN  /\ WireOK(Append(w, m), state)
             /\ NoneAsked(w) => NoneAsked(Append(w, m))
             /\ NoneRegisters(w) /\ (op = "heartbeat" \/ again) => NoneRegisters(Append(w, m))
<1> DEFINE m == Request(op, again)
<1>1. m \in Message /\ m.op = op /\ m.again = again /\ ~Asked(m) /\ m.op # "deregister"
  BY DEF Message, Asked, Asking, Beating, Request
<1> HIDE DEF m
<1>2. w \in Seq(Message) /\ Len(w) \in Nat
  BY LenProperties DEF WireOK
<1>3. /\ Append(w, m) \in Seq(Message) /\ Len(Append(w, m)) = Len(w) + 1
      /\ \A i \in 1..Len(w) : Append(w, m)[i] = w[i]
      /\ Append(w, m)[Len(w) + 1] = m
  BY <1>1, <1>2, AppendProperties
<1> DEFINE v == Append(w, m)
<1>4. \A i \in 1..Len(v) : i \in 1..Len(w) \/ i = Len(w) + 1
  BY <1>2, <1>3
<1> HIDE DEF v
<1>5. \A i \in 1..Len(v) : Asked(v[i]) => i \in 1..Len(w) /\ v[i] = w[i]
  BY <1>1, <1>3, <1>4 DEF v
<1>6. WireOK(v, state)
  <2>1. \A i \in 1..Len(v) : Asked(v[i]) => v[i].op = state
    BY <1>5 DEF WireOK
  <2>2. \A i, j \in 1..Len(v) : Asked(v[i]) /\ Asked(v[j]) => i = j
    BY <1>5 DEF WireOK
  <2>3. ASSUME NEW i \in 1..Len(v), NEW j \in 1..Len(v), i < j, v[i].live, v[i].op = "deregister"
        PROVE  ~Registers(v[j])
    <3>1. Asked(v[i])
      BY <2>3 DEF Asked, Asking
    <3>2. i \in 1..Len(w) /\ v[i] = w[i]
      BY <1>5, <3>1
    <3>3. CASE j \in 1..Len(w)
      BY <1>3, <2>3, <3>2, <3>3 DEF WireOK, v
    <3>4. CASE j = Len(w) + 1
      <4>1. v[j] = m
        BY <1>3, <3>4 DEF v
      <4>2. state = "deregister"
        BY <2>1, <2>3, <3>1
      <4> QED BY <1>1, <4>1, <4>2 DEF Registers
    <3> QED BY <1>4, <3>3, <3>4
  <2> QED BY <1>3, <2>1, <2>2, <2>3 DEF WireOK, v
<1>7. NoneRegisters(w) /\ (op = "heartbeat" \/ again) => NoneRegisters(v)
  BY <1>1, <1>3, <1>4 DEF NoneRegisters, Registers, v
<1>8. NoneAsked(w) => NoneAsked(v)
  BY <1>5 DEF NoneAsked
<1> QED BY <1>6, <1>7, <1>8 DEF v, m

\* The oldest request read, start() awaits no other if it was its own; a
\* deregister it awaited leaves none behind that registers.
LEMMA HeadRead ==
  ASSUME NEW w, NEW state, WireOK(w, state), w # <<>>
  PROVE  /\ Head(w) \in Message /\ WireOK(Tail(w), state)
         /\ Asked(Head(w)) => Head(w).op = state /\ NoneAsked(Tail(w))
         /\ Head(w).live /\ Head(w).op = "deregister" => NoneRegisters(Tail(w))
         /\ NoneRegisters(w) => ~Registers(Head(w)) /\ NoneRegisters(Tail(w))
<1>1. w \in Seq(Message) /\ Len(w) \in Nat
  BY LenProperties DEF WireOK
<1>2. /\ Head(w) \in Message /\ Tail(w) \in Seq(Message) /\ Len(Tail(w)) = Len(w) - 1
      /\ \A i \in 1..Len(Tail(w)) : Tail(w)[i] = w[i + 1]
  BY <1>1, HeadTailProperties
<1>3. Len(w) > 0
  BY <1>1, EmptySeq
<1>4. 1 \in 1..Len(w) /\ Head(w) = w[1]
  BY <1>1, <1>3
<1>5. \A i \in 1..Len(Tail(w)) : i + 1 \in 1..Len(w) /\ i + 1 # 1 /\ 1 < i + 1
  BY <1>1, <1>2, <1>3
<1>6. WireOK(Tail(w), state)
  BY <1>1, TailWithin, WithinOK
<1>7. Asked(Head(w)) => Head(w).op = state /\ NoneAsked(Tail(w))
  BY <1>2, <1>4, <1>5 DEF WireOK, NoneAsked
<1>8. Head(w).live /\ Head(w).op = "deregister" => NoneRegisters(Tail(w))
  BY <1>2, <1>4, <1>5 DEF WireOK, NoneRegisters
<1>9. NoneRegisters(w) => ~Registers(Head(w)) /\ NoneRegisters(Tail(w))
  BY <1>2, <1>4, <1>5 DEF NoneRegisters
<1> QED BY <1>2, <1>6, <1>7, <1>8, <1>9

-----------------------------------------------------------------------------
(* Records.                                                                *)

LEMMA EmptyBatch ==
  /\ <<>> \in Seq(Records) /\ Len(<<>>) = 0
  /\ ToSet(<<>>) = {} /\ IsInjective(<<>>)
<1>1. <<>> \in Seq(Records) /\ Len(<<>>) = 0 /\ DOMAIN <<>> = {}
  BY EmptySeq
<1> QED BY <1>1 DEF ToSet, IsInjective

\* The first n of a finite set's elements, in the order they are read.
LEMMA PickedBatch ==
  ASSUME NEW S, IsFiniteSet(S), NEW n \in 1..Cardinality(S)
  PROVE  LET b == SubSeq(SetToSeq(S), 1, n)
         IN  b \in Seq(S) /\ Len(b) = n /\ IsInjective(b)
<1> DEFINE c == Cardinality(S)
           f == SetToSeq(S)
           b == SubSeq(f, 1, n)
<1>1. c \in Nat /\ ExistsBijection(1..c, S)
  BY FS_CardinalityType
<1>2. \E g \in [1..c -> S] : IsInjective(g)
  BY <1>1 DEF ExistsBijection, Bijection, Injection, IsInjective
<1>3. f \in [1..c -> S] /\ IsInjective(f)
  BY <1>2 DEF SetToSeq
<1> HIDE DEF f, c
<1>4. n \in Int /\ 1 <= n /\ n <= c
  BY <1>1 DEF c
<1>5. \A i \in 1..n : f[i] \in S /\ i \in 1..c
  BY <1>1, <1>3, <1>4
<1>6. /\ b \in Seq(S) /\ Len(b) = IF 1 <= n THEN n - 1 + 1 ELSE 0
      /\ \A i \in 1..(n - 1 + 1) : b[i] = f[1 + i - 1]
  BY <1>4, <1>5, SubSeqProperties
<1> HIDE DEF b
<1>7. Len(b) = n /\ \A i \in 1..n : b[i] = f[i]
  BY <1>4, <1>6
<1>8. DOMAIN b = 1..n /\ DOMAIN f = 1..c
  BY <1>3, <1>6, <1>7
<1>9. IsInjective(b)
  BY <1>3, <1>5, <1>7, <1>8 DEF IsInjective
<1> QED BY <1>6, <1>7, <1>9 DEF b, f

\* A batch cut in two: the records that start, and those that wait.
LEMMA SplitBatch ==
  ASSUME NEW S, NEW b \in Seq(S), IsInjective(b), NEW n \in 1..Len(b)
  PROVE  LET front == SubSeq(b, 1, n)
             rest == SubSeq(b, n + 1, Len(b))
         IN  /\ rest \in Seq(S) /\ Len(rest) = Len(b) - n /\ IsInjective(rest)
             /\ ToSet(front) \cup ToSet(rest) = ToSet(b)
             /\ ToSet(front) \cap ToSet(rest) = {}
             /\ IsFiniteSet(ToSet(front)) /\ Cardinality(ToSet(front)) <= n
<1> DEFINE front == SubSeq(b, 1, n)
           rest == SubSeq(b, n + 1, Len(b))
<1>1. Len(b) \in Nat /\ n \in Nat /\ 1 <= n /\ n <= Len(b)
  BY LenProperties
<1>2. DOMAIN b = 1..Len(b)
  BY LenProperties
<1>3. \A i \in 1..Len(b) : b[i] \in S
  BY ElementOfSeq
<1>4. /\ front \in Seq(S) /\ Len(front) = n
      /\ \A i \in 1..n : front[i] = b[i]
  <2>1. \A i \in 1..n : b[i] \in S
    BY <1>1, <1>3
  <2>2. /\ front \in Seq(S) /\ Len(front) = IF 1 <= n THEN n - 1 + 1 ELSE 0
        /\ \A i \in 1..(n - 1 + 1) : front[i] = b[1 + i - 1]
    BY <1>1, <2>1, SubSeqProperties
  <2> HIDE DEF front
  <2> QED BY <1>1, <2>2
<1>5. /\ rest \in Seq(S) /\ Len(rest) = Len(b) - n
      /\ \A i \in 1..(Len(b) - n) : rest[i] = b[n + i]
  <2>1. \A i \in (n + 1)..Len(b) : b[i] \in S
    BY <1>1, <1>3
  <2>2. /\ rest \in Seq(S)
        /\ Len(rest) = IF n + 1 <= Len(b) THEN Len(b) - (n + 1) + 1 ELSE 0
        /\ \A i \in 1..(Len(b) - (n + 1) + 1) : rest[i] = b[n + 1 + i - 1]
    BY <1>1, <2>1, SubSeqProperties
  <2> HIDE DEF rest
  <2>3. Len(rest) = IF n + 1 <= Len(b) THEN Len(b) - (n + 1) + 1 ELSE 0
    BY <2>2
  <2>4. Len(b) - (n + 1) + 1 = Len(b) - n
    BY <1>1
  <2>5. \A i \in 1..(Len(b) - n) : n + 1 + i - 1 = n + i
    BY <1>1
  <2>6. \A i \in 1..(Len(b) - n) : rest[i] = b[n + i]
    BY <2>2, <2>4, <2>5
  <2>7. Len(rest) = Len(b) - n
    <3>1. CASE n + 1 <= Len(b)
      BY <2>4, <2>3, <3>1
    <3>2. CASE ~(n + 1 <= Len(b))
      <4>1. n = Len(b)
        BY <1>1, <3>2
      <4>2. Len(rest) = 0
        BY <2>3, <3>2
      <4> QED BY <1>1, <4>1, <4>2
    <3> QED BY <3>1, <3>2
  <2> QED BY <2>2, <2>6, <2>7
<1> HIDE DEF front, rest
<1>6. DOMAIN front = 1..n /\ DOMAIN rest = 1..(Len(b) - n)
  BY <1>4, <1>5
<1>7. \A i \in 1..(Len(b) - n) : n + i \in 1..Len(b) /\ n + i \notin 1..n
  BY <1>1
<1>8. \A i \in 1..n : i \in 1..Len(b)
  BY <1>1
<1>9. IsInjective(rest)
  <2> SUFFICES ASSUME NEW i \in 1..(Len(b) - n), NEW j \in 1..(Len(b) - n), rest[i] = rest[j]
               PROVE  i = j
    BY <1>6, <1>2 DEF IsInjective
  <2>1. n + i = n + j
    BY <1>1, <1>5, <1>7, <1>2 DEF IsInjective
  <2> QED BY <1>1, <2>1
<1>10. ToSet(front) \cup ToSet(rest) = ToSet(b)
  <2>1. ToSet(front) \subseteq ToSet(b)
    BY <1>1, <1>4, <1>6, <1>8, <1>2 DEF ToSet
  <2>2. ToSet(rest) \subseteq ToSet(b)
    BY <1>1, <1>5, <1>6, <1>7, <1>2 DEF ToSet
  <2>3. ASSUME NEW i \in 1..Len(b)
        PROVE  b[i] \in ToSet(front) \cup ToSet(rest)
    <3>1. CASE i <= n
      <4>1. i \in 1..n
        BY <1>1, <3>1
      <4> QED BY <1>4, <1>6, <4>1, <1>2 DEF ToSet
    <3>2. CASE ~(i <= n)
      <4>1. i - n \in 1..(Len(b) - n) /\ n + (i - n) = i
        BY <1>1, <3>2
      <4>2. rest[i - n] = b[i]
        BY <1>5, <4>1
      <4> QED BY <1>6, <4>1, <4>2, <1>2 DEF ToSet
    <3> QED BY <3>1, <3>2
  <2>4. ToSet(b) \subseteq ToSet(front) \cup ToSet(rest)
    BY <1>1, <2>3, <1>2 DEF ToSet
  <2> QED BY <2>1, <2>2, <2>4
<1>11. ToSet(front) \cap ToSet(rest) = {}
  <2> SUFFICES ASSUME NEW i \in 1..n, NEW j \in 1..(Len(b) - n), front[i] = rest[j]
               PROVE  FALSE
    BY <1>6, <1>2 DEF ToSet
  <2>1. b[i] = b[n + j]
    BY <1>4, <1>5
  <2>2. i = n + j
    BY <1>1, <1>7, <1>8, <2>1, <1>2 DEF IsInjective
  <2> QED BY <1>7, <2>2
<1>12. IsFiniteSet(ToSet(front)) /\ Cardinality(ToSet(front)) <= n
  <2>1. front \in Surjection(1..n, ToSet(front))
    BY <1>4, <1>6 DEF Surjection, ToSet
  <2>2. ExistsSurjection(1..n, ToSet(front))
    BY <2>1 DEF ExistsSurjection
  <2> QED BY <1>1, <2>2, FS_NatSurjection, FS_SurjCardinalityBound
<1> QED BY <1>5, <1>9, <1>10, <1>11, <1>12 DEF front, rest

LEMMA MinOfTwo ==
  ASSUME NEW a \in Int, NEW b \in Int
  PROVE  Min({a, b}) \in {a, b} /\ Min({a, b}) <= a /\ Min({a, b}) <= b
<1>1. \E x \in {a, b} : \A y \in {a, b} : x <= y
  <2>1. a <= b \/ b <= a
    OBVIOUS
  <2> QED BY <2>1
<1> QED BY <1>1 DEF Min

-----------------------------------------------------------------------------
(* What a step does to the run's state.                                    *)

\* What an answer to start() does.
LEMMA RunAnsweredControl ==
  ASSUME NEW op, NEW a, NEW w, ControlInv, RunAnswered(op, a, w), registry' \in {"none", "active", "draining"}
  PROVE  ControlInv' /\ at' \notin {"dispatching", "handing"}
<1> USE DEF flags, client
<1>1. FlagsOK'
  BY DEF ControlInv, FlagsOK, RunAnswered, EndRunAfter
<1>2. ClientOK'
  BY DEF ControlInv, ClientOK, RunAnswered, EndRunAfter, DropConnection
<1>3. at' \in RunStates /\ at' \notin {"dispatching", "handing"}
  BY DEF RunAnswered, EndRunAfter, AskAfter, JoinOver, RunStates, Asking
<1> QED BY <1>1, <1>2, <1>3 DEF ControlInv, StateOK

\* What the server reads, and the worker's answer to it.
LEMMA ReadCases ==
  ASSUME ServerReads
  PROVE  LET m == Head(wire)
             w == Tail(wire)
         IN  \E a \in Answers(m) :
               /\ registry' = RegistryAfter(m.op, a)
               /\ \/ /\ ~m.live /\ wire' = w
                     /\ UNCHANGED <<at, flags, beating, unproven, client, late, parted>>
                  \/ m.live /\ m.op \in Asking /\ RunAnswered(m.op, a, w)
                  \/ /\ m.live /\ m.op = "heartbeat" /\ HeartbeatAnswered(a, w)
                     /\ UNCHANGED <<at, beating, unproven, client, late, parted>>
                  \/ /\ m.live /\ m.op = "reregister" /\ ReregisterAnswered(a, w)
                     /\ UNCHANGED <<at, beating, unproven, client, late, parted>>
BY DEF ServerReads

LEMMA ServerReadsControl ==
  ASSUME ControlInv, ServerReads
  PROVE  ControlInv'
<1> DEFINE m == Head(wire)
           w == Tail(wire)
<1>1. PICK a \in Answers(m) :
        /\ registry' = RegistryAfter(m.op, a)
        /\ \/ UNCHANGED <<at, flags, beating, unproven, client, late, parted>>
           \/ RunAnswered(m.op, a, w)
           \/ HeartbeatAnswered(a, w) /\ UNCHANGED <<at, beating, unproven, client, late, parted>>
           \/ ReregisterAnswered(a, w) /\ UNCHANGED <<at, beating, unproven, client, late, parted>>
  BY ReadCases
<1> HIDE DEF m, w
<1>2. registry' \in {"none", "active", "draining"}
  BY <1>1 DEF RegistryAfter, ControlInv, StateOK
<1>3. CASE RunAnswered(m.op, a, w)
  BY <1>2, <1>3, RunAnsweredControl
<1>4. CASE UNCHANGED <<at, flags, beating, unproven, client, late, parted>>
  BY <1>2, <1>4 DEF ControlInv, FlagsOK, ClientOK, StateOK, flags, client
<1>5. ASSUME UNCHANGED <<at, beating, unproven, client, late, parted>>,
             HeartbeatAnswered(a, w) \/ ReregisterAnswered(a, w)
      PROVE  ControlInv'
  <2>1. FlagsOK'
    BY <1>5 DEF ControlInv, FlagsOK, HeartbeatAnswered, ReregisterAnswered, BeginDrain, flags
  <2>2. ClientOK' /\ StateOK'
    BY <1>2, <1>5 DEF ControlInv, ClientOK, StateOK, client
  <2> QED BY <2>1, <2>2 DEF ControlInv
<1> QED BY <1>1, <1>3, <1>4, <1>5

\* Each step of the worker sets a flag to a Boolean.
LEMMA FlagsStep ==
  ASSUME FlagsOK, Next, ~RunLost, ~ServerReads
  PROVE  FlagsOK'
<1> USE DEF flags, records, client, FlagsOK
<1>1. CASE Connected
  BY <1>1 DEF Connected, EndRunAfter
<1>2. CASE JoinWaitOver
  BY <1>2 DEF JoinWaitOver
<1>3. CASE Loop
  BY <1>3 DEF Loop
<1>4. CASE WaitOver
  BY <1>4 DEF WaitOver
<1>5. CASE ReadLost
  BY <1>5 DEF ReadLost
<1>6. CASE Redialed
  BY <1>6 DEF Redialed
<1>7. CASE RedialGivenUp
  BY <1>7 DEF RedialGivenUp, ClosedSince
<1>8. CASE Dispatch
  BY <1>8 DEF Dispatch
<1>9. CASE HandedBack
  BY <1>9 DEF HandedBack
<1>10. CASE NoticeOver
  BY <1>10 DEF NoticeOver
<1>11. CASE Tick
  BY <1>11 DEF Tick
<1>12. CASE TasksFinished
  BY <1>12 DEF TasksFinished
<1>13. CASE ReadRecords
  BY <1>13 DEF ReadRecords
<1>14. CASE ReadEmpty
  BY <1>14 DEF ReadEmpty
<1>15. CASE ReadRefused
  BY <1>15 DEF ReadRefused
<1>16. CASE Start
  BY <1>16 DEF Start
<1>17. CASE Stop
  BY <1>17 DEF Stop
<1>18. CASE Close
  BY <1>18 DEF Close
<1>19. CASE Drain
  BY <1>19 DEF Drain, BeginDrain
<1>20. CASE Beat
  BY <1>20 DEF Beat
<1>21. CASE ConnectionEnds
  BY <1>21 DEF ConnectionEnds
<1>22. CASE Dial
  BY <1>22 DEF Dial
<1>23. CASE NoticeSettled
  BY <1>23 DEF NoticeSettled
<1>24. CASE OwnerCloses
  BY <1>24 DEF OwnerCloses
<1>25. CASE OwnerConnects
  BY <1>25 DEF OwnerConnects
<1>26. CASE ServerForgets
  BY <1>26 DEF ServerForgets
<1>27. CASE OperatorDrains
  BY <1>27 DEF OperatorDrains
<1>28. ASSUME NEW r \in Records, TaskEnds(r)
      PROVE  FlagsOK'
  BY <1>28 DEF TaskEnds
<1>29. ASSUME NEW i, Timeout(i)
      PROVE  FlagsOK'
  BY <1>29 DEF Timeout
<1>30. CASE ServerReadsLate
  BY <1>30 DEF ServerReadsLate
<1>31. CASE ServerRefusesUnrun
  BY <1>31 DEF ServerRefusesUnrun
<1>32. ASSUME NEW op, Resend(op)
      PROVE  FlagsOK'
  BY <1>32 DEF Resend
<1> QED BY <1>1, <1>2, <1>3, <1>4, <1>5, <1>6, <1>7, <1>8, <1>9, <1>10, <1>11, <1>12, <1>13, <1>14,
          <1>15, <1>16, <1>17, <1>18, <1>19, <1>20, <1>21, <1>22, <1>23, <1>24, <1>25, <1>26, <1>27, <1>28, <1>29,
          <1>30, <1>31, <1>32
     DEF Next, RunStep, Reads, Caller, Tasks, Server, Network, Others

\* Each sets the client's state to Booleans.
LEMMA ClientStep ==
  ASSUME ClientOK, Next, ~RunLost, ~ServerReads
  PROVE  ClientOK'
<1> USE DEF flags, records, client, ClientOK
<1>1. CASE Connected
  BY <1>1 DEF Connected, EndRunAfter, DropConnection
<1>2. CASE JoinWaitOver
  BY <1>2 DEF JoinWaitOver
<1>3. CASE Loop
  BY <1>3 DEF Loop
<1>4. CASE WaitOver
  BY <1>4 DEF WaitOver
<1>5. CASE ReadLost
  BY <1>5 DEF ReadLost, DropConnection
<1>6. CASE Redialed
  BY <1>6 DEF Redialed
<1>7. CASE RedialGivenUp
  BY <1>7 DEF RedialGivenUp
<1>8. CASE Dispatch
  BY <1>8 DEF Dispatch
<1>9. CASE HandedBack
  BY <1>9 DEF HandedBack
<1>10. CASE NoticeOver
  BY <1>10 DEF NoticeOver
<1>11. CASE Tick
  BY <1>11 DEF Tick
<1>12. CASE TasksFinished
  BY <1>12 DEF TasksFinished
<1>13. CASE ReadRecords
  BY <1>13 DEF ReadRecords
<1>14. CASE ReadEmpty
  BY <1>14 DEF ReadEmpty
<1>15. CASE ReadRefused
  BY <1>15 DEF ReadRefused
<1>16. CASE Start
  BY <1>16 DEF Start
<1>17. CASE Stop
  BY <1>17 DEF Stop
<1>18. CASE Close
  BY <1>18 DEF Close, DropConnection
<1>19. CASE Drain
  BY <1>19 DEF Drain
<1>20. CASE Beat
  BY <1>20 DEF Beat
<1>21. CASE ConnectionEnds
  BY <1>21 DEF ConnectionEnds, DropConnection
<1>22. CASE Dial
  BY <1>22 DEF Dial
<1>23. CASE NoticeSettled
  BY <1>23 DEF NoticeSettled
<1>24. CASE OwnerCloses
  BY <1>24 DEF OwnerCloses, DropConnection
<1>25. CASE OwnerConnects
  BY <1>25 DEF OwnerConnects
<1>26. CASE ServerForgets
  BY <1>26 DEF ServerForgets
<1>27. CASE OperatorDrains
  BY <1>27 DEF OperatorDrains
<1>28. ASSUME NEW r \in Records, TaskEnds(r)
      PROVE  ClientOK'
  BY <1>28 DEF TaskEnds
<1>29. ASSUME NEW i, Timeout(i)
      PROVE  ClientOK'
  BY <1>29 DEF Timeout
<1>30. CASE ServerReadsLate
  BY <1>30 DEF ServerReadsLate
<1>31. CASE ServerRefusesUnrun
  BY <1>31 DEF ServerRefusesUnrun
<1>32. ASSUME NEW op, Resend(op)
      PROVE  ClientOK'
  BY <1>32 DEF Resend
<1> QED BY <1>1, <1>2, <1>3, <1>4, <1>5, <1>6, <1>7, <1>8, <1>9, <1>10, <1>11, <1>12, <1>13, <1>14,
          <1>15, <1>16, <1>17, <1>18, <1>19, <1>20, <1>21, <1>22, <1>23, <1>24, <1>25, <1>26, <1>27, <1>28, <1>29,
          <1>30, <1>31, <1>32
     DEF Next, RunStep, Reads, Caller, Tasks, Server, Network, Others

\* Each goes on in a state of the run.
LEMMA StateStep ==
  ASSUME StateOK, Next, ~RunLost, ~ServerReads
  PROVE  StateOK'
<1> USE DEF flags, records, client, StateOK, RunStates, Asking
<1>1. CASE Connected
  BY <1>1 DEF Connected, EndRunAfter, Ask, AskAfter
<1>2. CASE JoinWaitOver
  BY <1>2 DEF JoinWaitOver, JoinOver, Ask, AskAfter
<1>3. CASE Loop
  BY <1>3 DEF Loop
<1>4. CASE WaitOver
  BY <1>4 DEF WaitOver
<1>5. CASE ReadLost
  BY <1>5 DEF ReadLost
<1>6. CASE Redialed
  BY <1>6 DEF Redialed, Ask, AskAfter
<1>7. CASE RedialGivenUp
  BY <1>7 DEF RedialGivenUp
<1>8. CASE Dispatch
  BY <1>8 DEF Dispatch
<1>9. CASE HandedBack
  BY <1>9 DEF HandedBack
<1>10. CASE NoticeOver
  BY <1>10 DEF NoticeOver
<1>11. CASE Tick
  BY <1>11 DEF Tick
<1>12. CASE TasksFinished
  BY <1>12 DEF TasksFinished, Ask, AskAfter
<1>13. CASE ReadRecords
  BY <1>13 DEF ReadRecords
<1>14. CASE ReadEmpty
  BY <1>14 DEF ReadEmpty
<1>15. CASE ReadRefused
  BY <1>15 DEF ReadRefused
<1>16. CASE Start
  BY <1>16 DEF Start, Ask, AskAfter
<1>17. CASE Stop
  BY <1>17 DEF Stop
<1>18. CASE Close
  BY <1>18 DEF Close
<1>19. CASE Drain
  BY <1>19 DEF Drain
<1>20. CASE Beat
  BY <1>20 DEF Beat
<1>21. CASE ConnectionEnds
  BY <1>21 DEF ConnectionEnds
<1>22. CASE Dial
  BY <1>22 DEF Dial
<1>23. CASE NoticeSettled
  BY <1>23 DEF NoticeSettled
<1>24. CASE OwnerCloses
  BY <1>24 DEF OwnerCloses
<1>25. CASE OwnerConnects
  BY <1>25 DEF OwnerConnects
<1>26. CASE ServerForgets
  BY <1>26 DEF ServerForgets
<1>27. CASE OperatorDrains
  BY <1>27 DEF OperatorDrains
<1>28. ASSUME NEW r \in Records, TaskEnds(r)
      PROVE  StateOK'
  BY <1>28 DEF TaskEnds
<1>29. ASSUME NEW i, Timeout(i)
      PROVE  StateOK'
  BY <1>29 DEF Timeout
<1>30. CASE ServerReadsLate
  BY <1>30 DEF ServerReadsLate, RegistryAfter
<1>31. CASE ServerRefusesUnrun
  BY <1>31 DEF ServerRefusesUnrun
<1>32. ASSUME NEW op, Resend(op)
      PROVE  StateOK'
  BY <1>32 DEF Resend
<1> QED BY <1>1, <1>2, <1>3, <1>4, <1>5, <1>6, <1>7, <1>8, <1>9, <1>10, <1>11, <1>12, <1>13, <1>14,
          <1>15, <1>16, <1>17, <1>18, <1>19, <1>20, <1>21, <1>22, <1>23, <1>24, <1>25, <1>26, <1>27, <1>28, <1>29,
          <1>30, <1>31, <1>32
     DEF Next, RunStep, Reads, Caller, Tasks, Server, Network, Others

LEMMA ControlStep ==
  ASSUME ControlInv, Next
  PROVE  ControlInv'
<1>1. CASE RunLost
  <2>1. RunAnswered(at, "lost", wire) /\ registry' = registry
    BY <1>1 DEF RunLost
  <2>2. registry' \in {"none", "active", "draining"}
    BY <2>1 DEF ControlInv, StateOK
  <2> QED BY <2>1, <2>2, RunAnsweredControl
<1>2. CASE ServerReads
  BY <1>2, ServerReadsControl
<1>3. CASE ~RunLost /\ ~ServerReads
  BY <1>3, FlagsStep, ClientStep, StateStep DEF ControlInv
<1> QED BY <1>1, <1>2, <1>3

-----------------------------------------------------------------------------
(* What a step does to the records.                                        *)

\* A step that leaves the records alone and neither enters nor leaves the
\* states that hold a batch or a hand-back.
LEMMA RecordsLeft ==
  ASSUME RecordsInv, UNCHANGED records,
         at' = at \/ {at, at'} \cap {"dispatching", "handing"} = {}
  PROVE  RecordsInv'
BY DEF RecordsInv, HeldOnce, records

LEMMA ReadRecordsKeep ==
  ASSUME StreamWorkerAssumption, RecordsInv, ReadRecords
  PROVE  RecordsInv'
<1> DEFINE free == Records \ owed
<1>1. PICK n \in 1..Cardinality(free) : n <= BatchSize /\ batch' = SubSeq(SetToSeq(free), 1, n)
  BY DEF ReadRecords
<1>2. IsFiniteSet(free)
  BY FS_Subset DEF StreamWorkerAssumption
<1>3. batch' \in Seq(free) /\ Len(batch') = n /\ IsInjective(batch')
  BY <1>1, <1>2, PickedBatch
<1>4. n # 0
  BY <1>2, FS_CardinalityType
<1>5. batch' \in Seq(Records) /\ Len(batch') <= BatchSize /\ batch' # <<>> /\ ToSet(batch') \subseteq free
  <2>1. \A i \in 1..Len(batch') : batch'[i] \in free
    BY <1>3, ElementOfSeq
  <2>2. DOMAIN batch' = 1..Len(batch')
    BY <1>3, LenProperties
  <2>3. ToSet(batch') \subseteq free
    BY <2>1, <2>2 DEF ToSet
  <2>4. batch' \in Seq(Records)
    BY <1>3
  <2>5. batch' # <<>>
    BY <1>3, <1>4, EmptyBatch
  <2>6. Len(batch') <= BatchSize
    BY <1>1, <1>3
  <2> QED BY <2>3, <2>4, <2>5, <2>6
<1>6. /\ at = "reading" /\ at' = "dispatching" /\ owed' = owed \cup ToSet(batch')
      /\ UNCHANGED <<active, handing>>
  BY DEF ReadRecords
<1>7. batch = <<>> /\ handing = {}
  BY <1>6 DEF RecordsInv
<1>8. HeldOnce'
  <2>1. owed = active /\ ToSet(batch) = {}
    BY <1>7, EmptyBatch DEF RecordsInv, HeldOnce
  <2>2. owed' = ToSet(batch') \cup active' \cup handing'
    BY <1>6, <1>7, <2>1
  <2>3. ToSet(batch') \cap active' = {} /\ handing' = {}
    BY <1>5, <1>6, <1>7, <2>1
  <2> QED BY <1>3, <2>2, <2>3 DEF HeldOnce
<1> QED BY <1>5, <1>6, <1>7, <1>8 DEF RecordsInv

LEMMA DispatchKeeps ==
  ASSUME StreamWorkerAssumption, RecordsInv, Dispatch
  PROVE  RecordsInv'
<1>1. /\ at = "dispatching" /\ batch # <<>> /\ handing = {} /\ owed' = owed
      /\ batch \in Seq(Records) /\ Len(batch) <= BatchSize /\ owed = ToSet(batch) \cup active
      /\ IsInjective(batch) /\ ToSet(batch) \cap active = {} /\ active \subseteq Records
  BY DEF Dispatch, RecordsInv, HeldOnce
<1>2. Len(batch) \in Nat /\ Len(batch) # 0
  BY <1>1, LenProperties, EmptySeq
<1>3. ToSet(batch) \subseteq Records
  <2>1. \A i \in 1..Len(batch) : batch[i] \in Records
    BY <1>1, ElementOfSeq
  <2>2. DOMAIN batch = 1..Len(batch)
    BY <1>1, LenProperties
  <2> QED BY <2>1, <2>2 DEF ToSet
<1>4. CASE stop
  <2>1. handing' = ToSet(batch) /\ batch' = <<>> /\ at' = "handing" /\ active' = active
    BY <1>4 DEF Dispatch, Undispatched
  <2>2. /\ batch' \in Seq(Records) /\ Len(batch') <= BatchSize
        /\ ToSet(batch') = {} /\ IsInjective(batch')
    BY <2>1, EmptyBatch DEF StreamWorkerAssumption
  <2>3. HeldOnce'
    BY <1>1, <2>1, <2>2 DEF HeldOnce
  <2> QED BY <1>1, <1>3, <2>1, <2>2, <2>3 DEF RecordsInv
<1>5. CASE ~stop
  <2> DEFINE free == FreeSlots
             many == Len(batch)
             n == Min({free, many})
             front == SubSeq(batch, 1, n)
             rest == SubSeq(batch, n + 1, Len(batch))
  <2>1. /\ FreeSlots > 0 /\ active' = active \cup ToSet(front) /\ batch' = rest
        /\ at' = (IF n = Len(batch) THEN "looping" ELSE at) /\ handing' = handing
    BY <1>5 DEF Dispatch
  <2>2. IsFiniteSet(active) /\ Cardinality(active) \in Nat
    BY <1>1, FS_Subset, FS_CardinalityType DEF StreamWorkerAssumption
  <2>3. FreeSlots \in Int /\ Concurrency \in Int /\ FreeSlots = Concurrency - Cardinality(active)
    BY <2>2 DEF FreeSlots, StreamWorkerAssumption
  <2>4. n \in {FreeSlots, Len(batch)} /\ n <= FreeSlots /\ n <= Len(batch)
    <3>1. free \in Int /\ many \in Int
      BY <1>2, <2>3
    <3> HIDE DEF free, many
    <3>2. n \in {free, many} /\ n <= free /\ n <= many
      BY <3>1, MinOfTwo
    <3> HIDE DEF n
    <3> QED BY <3>2 DEF free, many
  <2> HIDE DEF n, free, many
  <2>5. n \in 1..Len(batch)
    <3>1. FreeSlots >= 1 /\ Len(batch) >= 1
      BY <1>2, <2>1, <2>3
    <3>2. n \in Int /\ n >= 1
      BY <1>2, <2>3, <2>4, <3>1
    <3> QED BY <1>2, <2>4, <3>2
  <2>6. /\ rest \in Seq(Records) /\ Len(rest) = Len(batch) - n /\ IsInjective(rest)
        /\ ToSet(front) \cup ToSet(rest) = ToSet(batch)
        /\ ToSet(front) \cap ToSet(rest) = {}
        /\ IsFiniteSet(ToSet(front)) /\ Cardinality(ToSet(front)) <= n
    BY <1>1, <2>5, SplitBatch
  <2> HIDE DEF front, rest
  <2>7. HeldOnce'
    BY <1>1, <2>1, <2>6 DEF HeldOnce
  <2>8. Cardinality(active') <= Concurrency
    <3>1. active \cap ToSet(front) = {}
      BY <1>1, <2>6
    <3>2. Cardinality(active') = Cardinality(active) + Cardinality(ToSet(front)) - Cardinality({})
      BY <2>1, <2>2, <2>6, <3>1, FS_Union
    <3>3. Cardinality({}) = 0 /\ Cardinality(ToSet(front)) \in Nat
      BY <2>6, FS_EmptySet, FS_CardinalityType
    <3> QED BY <2>2, <2>3, <2>4, <2>5, <2>6, <3>2, <3>3
  <2>9. batch' \in Seq(Records) /\ Len(batch') <= BatchSize
    <3>1. Len(rest) <= Len(batch) /\ Len(rest) \in Int
      BY <1>2, <2>5, <2>6
    <3> HIDE DEF rest
    <3>2. BatchSize \in Int
      BY DEF StreamWorkerAssumption
    <3>3. Len(rest) <= BatchSize
      BY <1>1, <1>2, <3>1, <3>2
    <3> QED BY <2>1, <2>6, <3>3
  <2>10. batch' # <<>> <=> at' = "dispatching"
    <3>1. rest = <<>> <=> Len(rest) = 0
      BY <2>6, EmptySeq
    <3>2. Len(rest) = 0 <=> n = Len(batch)
      BY <1>2, <2>5, <2>6
    <3> QED BY <1>1, <2>1, <3>1, <3>2
  <2>11. active' \subseteq Records /\ handing' = {} /\ owed' \subseteq Records
    BY <1>1, <1>3, <2>1, <2>6
  <2> QED BY <2>7, <2>8, <2>9, <2>10, <2>11 DEF RecordsInv
<1> QED BY <1>4, <1>5

LEMMA TaskEndsKeeps ==
  ASSUME StreamWorkerAssumption, RecordsInv, NEW r \in Records, TaskEnds(r)
  PROVE  RecordsInv'
<1>1. /\ r \in active /\ active' = active \ {r} /\ owed' = owed \ {r}
      /\ UNCHANGED <<at, batch, handing>>
  BY DEF TaskEnds
<1>2. Cardinality(active') <= Concurrency
  <2>1. IsFiniteSet(active) /\ Cardinality(active) \in Nat
    BY FS_Subset, FS_CardinalityType DEF StreamWorkerAssumption, RecordsInv
  <2>2. Cardinality(active') <= Cardinality(active) /\ Cardinality(active') \in Nat
    BY <1>1, <2>1, FS_Subset, FS_CardinalityType
  <2>3. Cardinality(active) <= Concurrency /\ Concurrency \in Nat
    BY DEF StreamWorkerAssumption, RecordsInv
  <2> QED BY <2>1, <2>2, <2>3
<1>3. HeldOnce'
  BY <1>1 DEF RecordsInv, HeldOnce
<1> QED BY <1>1, <1>2, <1>3 DEF RecordsInv

LEMMA RecordsStep ==
  ASSUME StreamWorkerAssumption, ControlInv, RecordsInv, WireOK(wire, at), Next
  PROVE  RecordsInv'
<1>1. CASE ReadRecords
  BY <1>1, ReadRecordsKeep
<1>2. CASE Dispatch
  BY <1>2, DispatchKeeps
<1>3. CASE Tasks
  BY <1>3, TaskEndsKeeps DEF Tasks
<1>4. CASE HandedBack
  <2>1. /\ at = "handing" /\ at' = "looping" /\ owed' = owed \ handing /\ handing' = {}
        /\ UNCHANGED <<batch, active>>
    BY <1>4 DEF HandedBack
  <2>2. HeldOnce'
    BY <2>1 DEF RecordsInv, HeldOnce
  <2> QED BY <2>1, <2>2 DEF RecordsInv
<1>5. CASE RunLost
  BY <1>5, RunAnsweredControl, RecordsLeft DEF RunLost, Asking, ControlInv, StateOK
<1>6. CASE ServerReads
  <2> DEFINE m == Head(wire)
             w == Tail(wire)
  <2>1. UNCHANGED records
    BY <1>6 DEF ServerReads
  <2>2. PICK a \in Answers(m) :
          /\ registry' = RegistryAfter(m.op, a)
          /\ \/ UNCHANGED at
             \/ m.live /\ m.op \in Asking /\ RunAnswered(m.op, a, w)
    BY <1>6 DEF ServerReads
  <2>3. m \in Message /\ (Asked(m) => m.op = at)
    BY <1>6, HeadRead DEF ServerReads
  <2> HIDE DEF m, w
  <2>4. registry' \in {"none", "active", "draining"}
    BY <2>2 DEF RegistryAfter, ControlInv, StateOK
  <2>5. CASE UNCHANGED at
    BY <2>1, <2>5, RecordsLeft
  <2>6. CASE m.live /\ m.op \in Asking /\ RunAnswered(m.op, a, w)
    <3>1. at \in Asking
      BY <2>3, <2>6 DEF Asked
    <3>2. at' \notin {"dispatching", "handing"}
      BY <2>4, <2>6, RunAnsweredControl
    <3>3. {at, at'} \cap {"dispatching", "handing"} = {}
      BY <3>1, <3>2 DEF Asking
    <3> QED BY <2>1, <3>3, RecordsLeft
  <2> QED BY <2>2, <2>5, <2>6
<1> USE DEF records, Ask, AskAfter, Asking
<1>7. CASE Connected \/ JoinWaitOver
  BY <1>7, RecordsLeft DEF Connected, EndRunAfter, JoinWaitOver, JoinOver
<1>8. CASE Loop \/ WaitOver
  BY <1>8, RecordsLeft DEF Loop, WaitOver
<1>9. CASE ReadLost \/ Redialed \/ RedialGivenUp
  BY <1>9, RecordsLeft DEF ReadLost, Redialed, RedialGivenUp
<1>10. CASE NoticeOver \/ Tick \/ TasksFinished
  BY <1>10, RecordsLeft DEF NoticeOver, Tick, TasksFinished
<1>11. CASE ReadEmpty \/ ReadRefused
  BY <1>11, RecordsLeft DEF ReadEmpty, ReadRefused
<1>12. CASE Start
  BY <1>12, RecordsLeft DEF Start
<1>13. CASE Stop \/ Close \/ Drain \/ Beat
  BY <1>13, RecordsLeft DEF Stop, Close, Drain, Beat
<1>14. CASE Network
  BY <1>14, RecordsLeft DEF Network, ConnectionEnds, Dial, Timeout, Resend
<1>15. CASE Others
  BY <1>15, RecordsLeft DEF Others, NoticeSettled, OwnerCloses, OwnerConnects
<1>16. CASE ServerReadsLate \/ ServerRefusesUnrun \/ ServerForgets \/ OperatorDrains
  BY <1>16, RecordsLeft DEF ServerReadsLate, ServerRefusesUnrun, ServerForgets, OperatorDrains
<1> QED BY <1>1, <1>2, <1>3, <1>4, <1>5, <1>6, <1>7, <1>8, <1>9, <1>10, <1>11, <1>12, <1>13, <1>14, <1>15, <1>16
     DEF Next, RunStep, Reads, Caller, Server

-----------------------------------------------------------------------------
(* What a step does to the wire, and to a run that parted.                 *)

WireInv == WireOK(wire, at)

LEMMA EmptyWire ==
  ASSUME NEW state
  PROVE  WireOK(<<>>, state) /\ NoneAsked(<<>>) /\ NoneRegisters(<<>>)
<1>1. <<>> \in Seq(Message) /\ Len(<<>>) = 0
  BY EmptySeq
<1>2. \A i \in 1..Len(<<>>) : FALSE
  BY <1>1
<1> QED BY <1>1, <1>2 DEF WireOK, NoneAsked, NoneRegisters

LEMMA AskOK ==
  ASSUME NEW w, WireOK(w, at), NoneAsked(w), NEW op \in Asking, AskAfter(op, w)
  PROVE  /\ WireInv'
         /\ NoneRegisters(w) /\ op # "register" => NoneRegisters(wire')
<1>1. at' = op
  BY DEF AskAfter
<1>2. CASE held
  BY <1>1, <1>2, AppendAsked DEF AskAfter, WireInv
<1>3. CASE ~held
  BY <1>1, <1>3, NoneAskedOK DEF AskAfter, WireInv
<1> QED BY <1>2, <1>3

\* Where start() awaits nothing it may go on with the wire as it is, with an
\* empty one, or with its next request.
LEMMA MovedOn ==
  ASSUME WireInv, at \notin Asking,
         \/ wire' = wire
         \/ wire' = <<>>
         \/ \E op \in Asking : Ask(op)
  PROVE  WireInv'
<1>1. NoneAsked(wire)
  BY NotAsking DEF WireInv
<1>2. CASE wire' = wire
  BY <1>1, <1>2, NoneAskedOK DEF WireInv
<1>3. CASE wire' = <<>>
  BY <1>3, EmptyWire DEF WireInv
<1>4. ASSUME NEW op \in Asking, Ask(op)
      PROVE  WireInv'
  BY <1>1, <1>4, AskOK DEF Ask, WireInv
<1> QED BY <1>2, <1>3, <1>4

\* Its answer, or its loss, is behind it.
LEMMA AnsweredOK ==
  ASSUME NEW op \in Asking, NEW a, NEW w, WireOK(w, at), NoneAsked(w), RunAnswered(op, a, w)
  PROVE  /\ WireInv'
         /\ op = "leave" => at' = "idle" /\ (NoneRegisters(w) => NoneRegisters(wire')) /\ parted' = parted
         /\ op = "deregister" =>
              at' = "leave" /\ (NoneRegisters(w) => NoneRegisters(wire')) /\ parted' = (a = "ok")
         /\ op \in {"join", "register"} => parted' = parted
<1> USE DEF RunAnswered, client
<1>1. CASE op = "leave"
  <2>1. EndRunAfter(w) /\ parted' = parted
    BY <1>1
  <2>2. at' = "idle" /\ wire' \in {w, <<>>}
    BY <2>1 DEF EndRunAfter, DropConnection
  <2> QED BY <1>1, <2>1, <2>2, NoneAskedOK, EmptyWire DEF WireInv
<1>2. CASE op = "deregister"
  <2>1. AskAfter("leave", w) /\ parted' = (a = "ok") /\ at' = "leave"
    BY <1>2 DEF AskAfter
  <2> QED BY <1>2, <2>1, AskOK DEF Asking
<1>3. CASE op \in {"join", "register"}
  <2>1. parted' = parted /\ (wire' = w \/ AskAfter("register", w))
    BY <1>3
  <2>2. CASE wire' = w
    BY <1>3, <2>1, <2>2, NoneAskedOK DEF WireInv
  <2>3. CASE AskAfter("register", w)
    BY <1>3, <2>1, <2>3, AskOK DEF Asking
  <2> QED BY <2>1, <2>2, <2>3
<1> QED BY <1>1, <1>2, <1>3 DEF Asking

\* start()'s request is no longer awaited.
LEMMA LostOK ==
  ASSUME WireInv, PartedInv, RunLost
  PROVE  WireInv' /\ PartedInv'
<1>1. at \in Asking /\ Awaited(Asking) = {} /\ RunAnswered(at, "lost", wire)
  BY DEF RunLost
<1>2. NoneAsked(wire)
  BY <1>1, LenProperties DEF Awaited, NoneAsked, Asked, WireInv, WireOK
<1>3. /\ WireInv'
      /\ at = "leave" => at' = "idle" /\ (NoneRegisters(wire) => NoneRegisters(wire')) /\ parted' = parted
      /\ at = "deregister" => parted' = ("lost" = "ok")
      /\ at \in {"join", "register"} => parted' = parted
  BY <1>1, <1>2, AnsweredOK DEF WireInv
<1>4. PartedInv'
  BY <1>1, <1>3 DEF PartedInv, Asking
<1> QED BY <1>3, <1>4

\* The server reads the oldest request.  A run's own deregister leaves none
\* behind that registers, and later heartbeats' answers register nothing.
LEMMA ServerReadsOK ==
  ASSUME WireInv, PartedInv, ServerReads
  PROVE  WireInv' /\ PartedInv'
<1> DEFINE m == Head(wire)
           w == Tail(wire)
<1>1. /\ m \in Message /\ WireOK(w, at)
      /\ Asked(m) => m.op = at /\ NoneAsked(w)
      /\ m.live /\ m.op = "deregister" => NoneRegisters(w)
      /\ NoneRegisters(wire) => ~Registers(m) /\ NoneRegisters(w)
  BY HeadRead DEF ServerReads, WireInv
<1>2. PICK a \in Answers(m) :
        /\ registry' = RegistryAfter(m.op, a)
        /\ \/ /\ ~m.live /\ wire' = w
              /\ UNCHANGED <<at, flags, beating, unproven, client, late, parted>>
           \/ m.live /\ m.op \in Asking /\ RunAnswered(m.op, a, w)
           \/ /\ m.live /\ m.op = "heartbeat" /\ HeartbeatAnswered(a, w)
              /\ UNCHANGED <<at, beating, unproven, client, late, parted>>
           \/ /\ m.live /\ m.op = "reregister" /\ ReregisterAnswered(a, w)
              /\ UNCHANGED <<at, beating, unproven, client, late, parted>>
  BY ReadCases
<1> HIDE DEF m, w
<1>4. ASSUME m.live, m.op \in Asking, RunAnswered(m.op, a, w)
      PROVE  WireInv' /\ PartedInv'
  <2>1. Asked(m)
    BY <1>4 DEF Asked
  <2>2. /\ WireInv'
        /\ m.op = "leave" => at' = "idle" /\ (NoneRegisters(w) => NoneRegisters(wire')) /\ parted' = parted
        /\ m.op = "deregister" =>
             at' = "leave" /\ (NoneRegisters(w) => NoneRegisters(wire')) /\ parted' = (a = "ok")
        /\ m.op \in {"join", "register"} => parted' = parted
    BY <1>1, <1>4, <2>1, AnsweredOK
  <2>3. CASE m.op = "leave"
    BY <1>1, <2>2, <2>3 DEF PartedInv
  <2>4. CASE m.op = "deregister"
    BY <1>1, <1>4, <2>2, <2>4 DEF PartedInv
  <2>5. CASE m.op \in {"join", "register"}
    BY <1>1, <2>1, <2>2, <2>5 DEF PartedInv
  <2> QED BY <1>4, <2>2, <2>3, <2>4, <2>5 DEF Asking
<1>5. ASSUME UNCHANGED <<at, parted>>, wire' = w
      PROVE  WireInv' /\ PartedInv'
  <2>1. WireInv'
    BY <1>1, <1>5 DEF WireInv
  <2> QED BY <1>1, <1>5, <2>1 DEF PartedInv
<1>6. ASSUME UNCHANGED <<at, parted>>, HeartbeatAnswered(a, w)
      PROVE  WireInv' /\ PartedInv'
  <2>1. CASE wire' = w
    BY <1>5, <1>6, <2>1
  <2>2. CASE wire' # w
    <3>1. Running /\ wire' = Append(w, Request("reregister", FALSE))
      BY <1>6, <2>2 DEF HeartbeatAnswered
    <3>2. at \notin {"idle", "deregister", "leave"}
      BY <3>1 DEF Running
    <3>3. WireInv'
      BY <1>1, <1>6, <3>1, <3>2, AppendBeat DEF WireInv, Beating
    <3> QED BY <1>6, <3>2, <3>3 DEF PartedInv
  <2> QED BY <2>1, <2>2
<1> QED BY <1>2, <1>4, <1>5, <1>6 DEF ReregisterAnswered

\* A request given up on stays on the wire, or is off it.
LEMMA TimeoutOK ==
  ASSUME WireInv, PartedInv, NEW i, Timeout(i)
  PROVE  WireInv' /\ PartedInv'
<1>1. wire \in Seq(Message) /\ i \in 1..Len(wire)
  BY LenProperties DEF WireInv, WireOK, Timeout
<1>2. wire' = RemoveAt(wire, i) \/ wire' = [wire EXCEPT ![i].live = FALSE]
  BY DEF Timeout
<1>3. Within(wire', wire)
  BY <1>1, <1>2, RemovedWithin, GivenUpWithin
<1>4. UNCHANGED <<at, parted>>
  BY DEF Timeout
<1> QED BY <1>3, <1>4, WithinOK DEF WireInv, PartedInv

\* A step that leaves the run where it is and the wire as it was, or empty.
LEMMA WireKept ==
  ASSUME WireInv, PartedInv, UNCHANGED <<at, parted>>, wire' = wire \/ wire' = <<>>
  PROVE  WireInv' /\ PartedInv'
BY EmptyWire DEF WireInv, PartedInv

\* A step of a run that has not parted, from a state that asks nothing.
LEMMA NotParting ==
  ASSUME WireInv, PartedInv, at \notin Asking, at # "idle" \/ parted' = FALSE,
         parted' \in {parted, FALSE},
         \/ wire' = wire
         \/ wire' = <<>>
         \/ \E op \in Asking : Ask(op)
  PROVE  WireInv' /\ PartedInv'
<1>1. WireInv'
  BY MovedOn
<1>2. CASE parted' = FALSE
  BY <1>1, <1>2 DEF PartedInv
<1>3. CASE parted' = parted /\ at # "idle"
  <2>1. at # "leave"
    BY DEF Asking
  <2> QED BY <1>1, <1>3, <2>1 DEF PartedInv
<1> QED BY <1>2, <1>3

LEMMA BeatOK ==
  ASSUME WireInv, PartedInv, Beat
  PROVE  WireInv' /\ PartedInv'
<1>1. /\ at \notin {"idle", "deregister", "leave"} /\ UNCHANGED <<at, parted>>
      /\ wire' = Append(wire, Request("heartbeat", FALSE))
  BY DEF Beat, Running
<1>2. WireInv'
  BY <1>1, AppendBeat DEF WireInv, Beating
<1> QED BY <1>1, <1>2 DEF PartedInv

\* What is sent again registers nobody for the first time.
LEMMA ResendOK ==
  ASSUME WireInv, WaitInv, PartedInv, NEW op \in Resent, StreamWorkerAssumption, Resend(op)
  PROVE  WireInv' /\ WaitInv' /\ PartedInv'
<1>1. /\ backoff[op] > 0 /\ backoff' = [backoff EXCEPT ![op] = @ - 1]
      /\ wire' = (IF held THEN Append(wire, Request(op, TRUE)) ELSE wire)
      /\ UNCHANGED <<at, late, parted>>
  BY DEF Resend
<1>2. op \in Asking \cup Beating /\ backoff \in [Asking \cup Beating -> Nat]
  BY DEF StreamWorkerAssumption, WaitInv
<1>3. /\ backoff' \in [Asking \cup Beating -> Nat] /\ backoff'[op] = backoff[op] - 1
      /\ \A other \in Asking \cup Beating : other # op => backoff'[other] = backoff[other]
  BY <1>1, <1>2
<1>4. CASE op \in Asking
  <2>1. backoff[op] = 1 /\ op = at /\ NoneAsked(wire)
    BY <1>1, <1>2, <1>4 DEF WaitInv
  <2>2. NoWait'
    BY <1>2, <1>3, <1>4, <2>1 DEF NoWait, WaitInv
  <2>3. WaitInv'
    BY <1>1, <1>3, <2>2 DEF WaitInv, NoWait
  <2>4. CASE held
    BY <1>1, <1>4, <2>1, <2>3, <2>4, AppendAsked DEF WireInv, PartedInv
  <2>5. CASE ~held
    BY <1>1, <2>3, <2>5 DEF WireInv, PartedInv
  <2> QED BY <2>4, <2>5
<1>5. CASE op \notin Asking
  <2>1. op \in Beating
    BY <1>2, <1>5
  <2>2. WireInv' /\ (NoneAsked(wire) => NoneAsked(wire')) /\ (NoneRegisters(wire) => NoneRegisters(wire'))
    <3>1. CASE held
      BY <1>1, <2>1, <3>1, AppendBeat DEF WireInv
    <3>2. CASE ~held
      BY <1>1, <3>2 DEF WireInv
    <3> QED BY <3>1, <3>2
  <2>3. WaitInv'
    BY <1>1, <1>3, <1>5, <2>2 DEF WaitInv
  <2> QED BY <1>1, <2>2, <2>3 DEF PartedInv
<1> QED BY <1>4, <1>5

\* A request refused unrun is off the wire, and to be sent again.
LEMMA RefusedOK ==
  ASSUME WireInv, WaitInv, PartedInv, ServerRefusesUnrun
  PROVE  WireInv' /\ WaitInv' /\ PartedInv'
<1> DEFINE m == Head(wire)
           w == Tail(wire)
<1>1. /\ m \in Message /\ WireOK(w, at)
      /\ Asked(m) => m.op = at /\ NoneAsked(w)
      /\ NoneRegisters(wire) => NoneRegisters(w)
  BY HeadRead DEF ServerRefusesUnrun, WireInv
<1>2. /\ m.live /\ wire' = w /\ backoff' = [backoff EXCEPT ![m.op] = @ + 1]
      /\ UNCHANGED <<at, late, parted>>
  BY DEF ServerRefusesUnrun
<1>3. Asked(m) => ~NoneAsked(wire)
  <2>1. wire \in Seq(Message) /\ wire # <<>>
    BY DEF WireInv, WireOK, ServerRefusesUnrun
  <2>2. Len(wire) \in Nat /\ Len(wire) # 0
    BY <2>1, LenProperties, EmptySeq
  <2>3. 1 \in 1..Len(wire) /\ m = wire[1]
    BY <2>1, <2>2
  <2> HIDE DEF m
  <2> QED BY <2>3 DEF NoneAsked
<1>4. NoneAsked(wire) => NoneAsked(w)
  <2>1. wire \in Seq(Message) /\ wire # <<>>
    BY DEF WireInv, WireOK, ServerRefusesUnrun
  <2> QED BY <2>1, TailWithin, WithinOK DEF WireInv
<1> HIDE DEF m, w
<1>5. m.op \in Asking \cup Beating /\ backoff \in [Asking \cup Beating -> Nat]
  BY <1>1 DEF Message, WaitInv
<1>6. /\ backoff' \in [Asking \cup Beating -> Nat] /\ backoff'[m.op] = backoff[m.op] + 1
      /\ \A other \in Asking \cup Beating : other # m.op => backoff'[other] = backoff[other]
  BY <1>2, <1>5
<1>7. CASE m.op \in Asking
  <2>1. Asked(m)
    BY <1>2, <1>7 DEF Asked
  <2>2. NoWait
    BY <1>3, <2>1 DEF NoWait, WaitInv
  <2>3. WaitInv'
    BY <1>1, <1>2, <1>6, <1>7, <2>1, <2>2 DEF WaitInv, NoWait
  <2> QED BY <1>1, <1>2, <2>3 DEF WireInv, PartedInv
<1>8. CASE m.op \notin Asking
  <2>1. WaitInv'
    BY <1>2, <1>4, <1>6, <1>8 DEF WaitInv
  <2> QED BY <1>1, <1>2, <2>1 DEF WireInv, PartedInv
<1> QED BY <1>7, <1>8

LEMMA WireStep ==
  ASSUME StreamWorkerAssumption, WireInv, WaitInv, PartedInv, Next
  PROVE  WireInv' /\ PartedInv'
<1>1. CASE RunLost
  BY <1>1, LostOK
<1>2. CASE ServerReads
  BY <1>2, ServerReadsOK
<1>3. ASSUME NEW i, Timeout(i)
      PROVE  WireInv' /\ PartedInv'
  BY <1>3, TimeoutOK
<1>4. CASE Beat
  BY <1>4, BeatOK
<1> USE DEF client, flags, records, sent
<1>5. CASE Connected
  BY <1>5, NotParting DEF Connected, EndRunAfter, DropConnection, Asking
<1>6. CASE JoinWaitOver
  BY <1>6, NotParting DEF JoinWaitOver, Asking
<1>7. CASE Loop \/ WaitOver
  BY <1>7, NotParting DEF Loop, WaitOver, Asking
<1>8. CASE ReadLost
  BY <1>8, NotParting DEF ReadLost, DropConnection, Asking
<1>9. CASE Redialed
  BY <1>9, NotParting DEF Redialed, Asking
<1>10. CASE RedialGivenUp
  BY <1>10, NotParting DEF RedialGivenUp, Asking
<1>11. CASE Dispatch \/ HandedBack
  BY <1>11, NotParting DEF Dispatch, HandedBack, Asking
<1>12. CASE NoticeOver \/ Tick
  BY <1>12, NotParting DEF NoticeOver, Tick, Asking
<1>13. CASE TasksFinished
  BY <1>13, NotParting DEF TasksFinished, Asking
<1>14. CASE ReadRecords
  BY <1>14, NotParting DEF ReadRecords, Asking
<1>15. CASE ReadEmpty \/ ReadRefused
  BY <1>15, NotParting DEF ReadEmpty, ReadRefused, Asking
<1>16. CASE Start
  BY <1>16, NotParting DEF Start, Asking
<1>17. CASE Stop \/ Close \/ Drain
  BY <1>17, WireKept DEF Stop, Close, Drain, DropConnection
<1>18. ASSUME NEW r \in Records, TaskEnds(r)
      PROVE  WireInv' /\ PartedInv'
  BY <1>18, WireKept DEF TaskEnds
<1>19. CASE ConnectionEnds \/ Dial
  BY <1>19, WireKept DEF ConnectionEnds, Dial, DropConnection
<1>20. CASE NoticeSettled \/ OwnerCloses \/ OwnerConnects
  BY <1>20, WireKept DEF NoticeSettled, OwnerCloses, OwnerConnects, DropConnection
<1>21. CASE ServerReadsLate \/ ServerForgets \/ OperatorDrains
  BY <1>21, WireKept DEF ServerReadsLate, ServerForgets, OperatorDrains
<1>22. CASE ServerRefusesUnrun
  BY <1>22, RefusedOK
<1>23. ASSUME NEW op \in Resent, Resend(op)
      PROVE  WireInv' /\ PartedInv'
  BY <1>23, ResendOK
<1> QED BY <1>1, <1>2, <1>3, <1>4, <1>5, <1>6, <1>7, <1>8, <1>9, <1>10, <1>11, <1>12,
          <1>13, <1>14, <1>15, <1>16, <1>17, <1>18, <1>19, <1>20, <1>21, <1>22, <1>23
     DEF Next, RunStep, Reads, Caller, Tasks, Server, Network, Others

-----------------------------------------------------------------------------
(* What a step does to the requests to be sent again.                      *)

\* A step that leaves them alone, and awaits nothing else.
LEMMA WaitKept ==
  ASSUME WaitInv, backoff' = backoff, late' \subseteq LateReads,
         \/ NoWait
         \/ at \notin Asking
         \/ at' = at /\ (NoneAsked(wire) => NoneAsked(wire'))
  PROVE  WaitInv'
<1>1. CASE NoWait \/ at \notin Asking
  <2>1. NoWait
    BY <1>1 DEF NoWait, WaitInv
  <2> QED BY <2>1 DEF NoWait, WaitInv
<1>2. CASE at' = at /\ (NoneAsked(wire) => NoneAsked(wire'))
  BY <1>2 DEF WaitInv
<1> QED BY <1>1, <1>2

\* What becomes late is what may.
LEMMA LateDropped ==
  ASSUME late \subseteq LateReads, NEW w, DropConnection(w)
  PROVE  late' \subseteq LateReads /\ wire' = <<>>
BY DEF DropConnection

LEMMA LateAnswered ==
  ASSUME late \subseteq LateReads, NEW op, NEW a, NEW w, RunAnswered(op, a, w)
  PROVE  late' \subseteq LateReads
<1>1. late' = late \/ EndRunAfter(w)
  BY DEF RunAnswered
<1>2. EndRunAfter(w) => late' = late \/ DropConnection(w)
  BY DEF EndRunAfter
<1> QED BY <1>1, <1>2, LateDropped

\* The request that start() awaits is on the wire, or is to be sent again.
LEMMA ServerReadsWait ==
  ASSUME WireInv, WaitInv, ServerReads
  PROVE  WaitInv'
<1> DEFINE m == Head(wire)
           w == Tail(wire)
<1>1. /\ m \in Message /\ WireOK(w, at) /\ backoff' = backoff
      /\ wire \in Seq(Message) /\ wire # <<>>
  BY HeadRead DEF ServerReads, WireInv, WireOK
<1>2. NoneAsked(wire) => NoneAsked(w)
  BY <1>1, TailWithin, WithinOK DEF WireInv
<1>3. Asked(m) => ~NoneAsked(wire)
  <2>1. Len(wire) \in Nat /\ Len(wire) # 0
    BY <1>1, LenProperties, EmptySeq
  <2>2. 1 \in 1..Len(wire) /\ m = wire[1]
    BY <1>1, <2>1
  <2> HIDE DEF m
  <2> QED BY <2>2 DEF NoneAsked
<1>4. PICK a \in Answers(m) :
        /\ registry' = RegistryAfter(m.op, a)
        /\ \/ /\ ~m.live /\ wire' = w
              /\ UNCHANGED <<at, flags, beating, unproven, client, late, parted>>
           \/ m.live /\ m.op \in Asking /\ RunAnswered(m.op, a, w)
           \/ /\ m.live /\ m.op = "heartbeat" /\ HeartbeatAnswered(a, w)
              /\ UNCHANGED <<at, beating, unproven, client, late, parted>>
           \/ /\ m.live /\ m.op = "reregister" /\ ReregisterAnswered(a, w)
              /\ UNCHANGED <<at, beating, unproven, client, late, parted>>
  BY ReadCases
<1> HIDE DEF m, w
<1>5. late \subseteq LateReads
  BY DEF WaitInv
<1>6. CASE m.live /\ m.op \in Asking /\ RunAnswered(m.op, a, w)
  <2>1. NoWait
    BY <1>3, <1>6 DEF Asked, NoWait, WaitInv
  <2> QED BY <1>1, <1>5, <1>6, <2>1, LateAnswered, WaitKept
<1>7. ASSUME UNCHANGED <<at, late>>, wire' = w
      PROVE  WaitInv'
  BY <1>1, <1>2, <1>5, <1>7, WaitKept
<1>8. ASSUME UNCHANGED <<at, late>>, HeartbeatAnswered(a, w)
      PROVE  WaitInv'
  <2>1. CASE wire' = w
    BY <1>7, <1>8, <2>1
  <2>2. CASE wire' # w
    <3>1. at # "deregister" /\ wire' = Append(w, Request("reregister", FALSE))
      BY <1>8, <2>2 DEF HeartbeatAnswered, Running
    <3>2. NoneAsked(w) => NoneAsked(wire')
      BY <1>1, <3>1, AppendBeat DEF Beating
    <3> QED BY <1>1, <1>2, <1>5, <1>8, <3>2, WaitKept
  <2> QED BY <2>1, <2>2
<1> QED BY <1>4, <1>6, <1>7, <1>8 DEF ReregisterAnswered

LEMMA WaitStep ==
  ASSUME StreamWorkerAssumption, WireInv, WaitInv, PartedInv, Next
  PROVE  WaitInv'
<1> USE DEF client, flags, records, sent
<1>0. late \subseteq LateReads
  BY DEF WaitInv
<1>1. CASE RunLost
  <2>1. at \in Asking /\ backoff[at] = 0 /\ backoff' = backoff /\ RunAnswered(at, "lost", wire)
    BY <1>1 DEF RunLost
  <2>2. NoWait
    BY <2>1 DEF NoWait, WaitInv
  <2> QED BY <1>0, <2>1, <2>2, LateAnswered, WaitKept
<1>2. CASE ServerReads
  BY <1>2, ServerReadsWait
<1>3. ASSUME NEW i, Timeout(i)
      PROVE  WaitInv'
  <2>1. wire \in Seq(Message) /\ i \in 1..Len(wire)
    BY <1>3, LenProperties DEF WireInv, WireOK, Timeout
  <2>2. /\ wire' = RemoveAt(wire, i) \/ wire' = [wire EXCEPT ![i].live = FALSE]
        /\ UNCHANGED <<at, backoff, late>>
    BY <1>3 DEF Timeout
  <2>3. NoneAsked(wire) => NoneAsked(wire')
    BY <2>1, <2>2, RemovedWithin, GivenUpWithin, WithinOK DEF WireInv
  <2> QED BY <1>0, <2>2, <2>3, WaitKept
<1>4. CASE Beat
  <2>1. wire' = Append(wire, Request("heartbeat", FALSE)) /\ UNCHANGED <<at, backoff, late>>
    BY <1>4 DEF Beat
  <2>2. NoneAsked(wire) => NoneAsked(wire')
    BY <2>1, AppendBeat DEF WireInv, Beating
  <2> QED BY <1>0, <2>1, <2>2, WaitKept
<1>5. CASE Connected
  BY <1>0, <1>5, WaitKept DEF Connected, EndRunAfter, DropConnection, Asking
<1>6. CASE JoinWaitOver \/ Loop \/ WaitOver
  BY <1>0, <1>6, WaitKept DEF JoinWaitOver, Loop, WaitOver, Asking
<1>7. CASE ReadLost
  BY <1>0, <1>7, WaitKept DEF ReadLost, DropConnection, Asking
<1>8. CASE Redialed \/ RedialGivenUp
  BY <1>0, <1>8, WaitKept DEF Redialed, RedialGivenUp, Asking
<1>9. CASE Dispatch \/ HandedBack
  BY <1>0, <1>9, WaitKept DEF Dispatch, HandedBack, Asking
<1>10. CASE NoticeOver \/ Tick \/ TasksFinished
  BY <1>0, <1>10, WaitKept DEF NoticeOver, Tick, TasksFinished, Asking
<1>11. CASE Reads
  BY <1>0, <1>11, WaitKept DEF Reads, ReadRecords, ReadEmpty, ReadRefused, Asking
<1>12. CASE Start
  BY <1>0, <1>12, WaitKept DEF Start, Asking
<1>13. CASE Stop \/ Drain
  BY <1>0, <1>13, WaitKept DEF Stop, Drain
<1>14. CASE Close
  <2>1. DropConnection(wire) /\ UNCHANGED <<at, backoff>>
    BY <1>14 DEF Close
  <2> QED BY <1>0, <2>1, LateDropped, EmptyWire, WaitKept
<1>15. ASSUME NEW r \in Records, TaskEnds(r)
      PROVE  WaitInv'
  BY <1>0, <1>15, WaitKept DEF TaskEnds
<1>16. CASE ConnectionEnds
  <2>1. DropConnection(wire) /\ UNCHANGED <<at, backoff>>
    BY <1>16 DEF ConnectionEnds
  <2> QED BY <1>0, <2>1, LateDropped, EmptyWire, WaitKept
<1>17. CASE OwnerCloses
  <2>1. DropConnection(wire) /\ UNCHANGED <<at, backoff>>
    BY <1>17 DEF OwnerCloses
  <2> QED BY <1>0, <2>1, LateDropped, EmptyWire, WaitKept
<1>18. CASE Dial \/ NoticeSettled \/ OwnerConnects
  BY <1>0, <1>18, WaitKept DEF Dial, NoticeSettled, OwnerConnects
<1>19. CASE ServerReadsLate
  <2>1. late' \subseteq late /\ UNCHANGED <<at, wire, backoff>>
    BY <1>19 DEF ServerReadsLate
  <2> QED BY <1>0, <2>1, WaitKept
<1>20. CASE ServerForgets \/ OperatorDrains
  BY <1>0, <1>20, WaitKept DEF ServerForgets, OperatorDrains
<1>21. CASE ServerRefusesUnrun
  BY <1>21, RefusedOK
<1>22. ASSUME NEW op \in Resent, Resend(op)
      PROVE  WaitInv'
  BY <1>22, ResendOK
<1> QED BY <1>1, <1>2, <1>3, <1>4, <1>5, <1>6, <1>7, <1>8, <1>9, <1>10, <1>11, <1>12,
          <1>13, <1>14, <1>15, <1>16, <1>17, <1>18, <1>19, <1>20, <1>21, <1>22
     DEF Next, RunStep, Caller, Tasks, Server, Network, Others

-----------------------------------------------------------------------------
(* The invariant, and what follows.                                        *)

LEMMA InitInv ==
  ASSUME StreamWorkerAssumption, Init
  PROVE  Inv
<1>1. ControlInv
  BY DEF Init, ControlInv, FlagsOK, ClientOK, StateOK, RunStates
<1>2. RecordsInv
  <2>1. IsFiniteSet({}) /\ Cardinality({}) = 0
    BY FS_EmptySet
  <2> QED BY <2>1, EmptyBatch DEF Init, RecordsInv, HeldOnce, StreamWorkerAssumption
<1>3. WireInv /\ PartedInv
  BY EmptyWire DEF Init, WireInv, PartedInv
<1>4. WaitInv
  BY DEF Init, WaitInv
<1> QED BY <1>1, <1>2, <1>3, <1>4 DEF Inv, WireInv

LEMMA NextInv ==
  ASSUME StreamWorkerAssumption, Inv, [Next]_vars
  PROVE  Inv'
<1>1. ControlInv /\ RecordsInv /\ WireInv /\ WaitInv /\ PartedInv
  BY DEF Inv, WireInv
<1>2. CASE Next
  <2>1. ControlInv' /\ RecordsInv' /\ WireInv' /\ WaitInv' /\ PartedInv'
    BY <1>1, <1>2, ControlStep, RecordsStep, WireStep, WaitStep DEF WireInv
  <2> QED BY <2>1 DEF Inv, WireInv
<1>3. CASE UNCHANGED vars
  <2> USE <1>3 DEF vars, flags, records, client, sent
  <2>1. ControlInv'
    BY <1>1 DEF ControlInv, FlagsOK, ClientOK, StateOK
  <2>2. RecordsInv'
    BY <1>1, RecordsLeft
  <2>3. WireInv' /\ PartedInv'
    BY <1>1, WireKept
  <2>4. WaitInv'
    BY <1>1, WaitKept DEF WaitInv
  <2> QED BY <2>1, <2>2, <2>3, <2>4 DEF Inv, WireInv
<1> QED BY <1>2, <1>3

\* Every reachable state meets the invariant.
THEOREM Invariance == Spec => []Inv
<1>1. Init => Inv
  BY StreamWorkerAssumption, InitInv
<1>2. Inv /\ [Next]_vars => Inv'
  BY StreamWorkerAssumption, NextInv
<1> QED BY <1>1, <1>2, PTL DEF Spec

\* The types hold, among them that no more handlers run than the worker has
\* slots (pollLoop's free, processRecord).
THEOREM TypeCorrectness == Spec => []TypeOK
BY Invariance, InvImpliesTypeOK, PTL

\* A record read is in one place until it is reported or handed back
\* (pollLoop, handBack).
THEOREM RecordsHeldOnce == Spec => []HeldOnce
<1>1. Inv => HeldOnce
  BY DEF Inv, RecordsInv
<1> QED BY <1>1, Invariance, PTL

\* A worker the server has no entry of gets one as the oldest request
\* registers it, or one of a dropped connection does.
LEMMA RegistryStep ==
  ASSUME Next, registry = "none", registry' # "none"
  PROVE  \/ wire # <<>> /\ Head(wire).op \in {"register", "reregister"}
         \/ late' # late
<1> USE DEF flags, client, sent
<1>1. CASE ServerReads
  <2>1. wire # <<>> /\ \E a \in Answers(Head(wire)) : registry' = RegistryAfter(Head(wire).op, a)
    BY <1>1 DEF ServerReads
  <2> QED BY <2>1 DEF RegistryAfter
<1>2. CASE ServerReadsLate
  BY <1>2 DEF ServerReadsLate
<1>3. CASE RunStep \/ Reads
  BY <1>3 DEF RunStep, Connected, JoinWaitOver, RunLost, Loop, WaitOver, ReadLost, Redialed, RedialGivenUp,
    Dispatch, HandedBack, NoticeOver, Tick, TasksFinished, Reads, ReadRecords, ReadEmpty, ReadRefused
<1>4. CASE Caller \/ Tasks \/ Beat
  BY <1>4 DEF Caller, Start, Stop, Close, Drain, Tasks, TaskEnds, Beat
<1>5. CASE Network
  BY <1>5 DEF Network, ConnectionEnds, Dial, Timeout, Resend
<1>6. CASE Others \/ ServerRefusesUnrun \/ ServerForgets \/ OperatorDrains
  BY <1>6 DEF Others, NoticeSettled, OwnerCloses, OwnerConnects, ServerRefusesUnrun, ServerForgets, OperatorDrains
<1> QED BY <1>1, <1>2, <1>3, <1>4, <1>5, <1>6 DEF Next, Server

\* Once the server took a run's deregister, only a registration that the
\* client sent again or that outlived its connection brings the worker back
\* before its next start, however many heartbeats are out (heartbeat, start()).
THEOREM OnlyLateGhosts == Spec => GhostsAreLate
<1> DEFINE Late == parted /\ registry = "none" /\ registry' # "none"
                     => late' # late \/ (wire # <<>> /\ Head(wire).again)
<1>1. ASSUME Inv, Next
      PROVE  Late
  <2> SUFFICES ASSUME parted, registry = "none", registry' # "none", late' = late
               PROVE  wire # <<>> /\ Head(wire).again
    OBVIOUS
  <2>1. wire # <<>> /\ Head(wire).op \in {"register", "reregister"}
    BY <1>1, RegistryStep
  <2>2. NoneRegisters(wire) /\ WireOK(wire, at)
    BY <1>1 DEF Inv, PartedInv
  <2>3. ~Registers(Head(wire))
    BY <2>1, <2>2, HeadRead
  <2> QED BY <2>1, <2>3 DEF Registers
<1>2. Inv /\ [Next]_vars => [Late]_vars
  BY <1>1
<1> QED BY <1>2, Invariance, PTL DEF Spec, GhostsAreLate

=============================================================================
