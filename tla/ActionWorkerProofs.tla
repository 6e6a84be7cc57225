-------------------------- MODULE ActionWorkerProofs --------------------------
(***************************************************************************)
(* What is proved of an action worker: its run, with what it puts on the   *)
(* wire (ActionWorker), and each of its tasks (TaskRun).                   *)
(***************************************************************************)
EXTENDS ActionWorker, TaskRun, SequenceTheorems, FiniteSetTheorems, TLAPS

-----------------------------------------------------------------------------
(***************************************************************************)
(* ActionWorker for any concurrency and any number of requests given up    *)
(* on, whatever the client resends and the server reads late: its types,   *)
(* and that only a registration resent or read late outlives its run.      *)
(***************************************************************************)

Message == [from : Chains \cup {"nobody"}, op : Asking, again : BOOLEAN]
Replies == {"none", "ok", "active", "draining", "notFound", "refused", "halted", "lost"}
States == RunStates \cup Asking \cup {"none"}

FlagsOK ==
  /\ stop \in BOOLEAN /\ draining \in BOOLEAN /\ noticeDue \in BOOLEAN
  /\ beating \in BOOLEAN /\ held \in BOOLEAN /\ closed \in BOOLEAN /\ parted \in BOOLEAN
  /\ registry \in {"none", "active", "draining"} /\ late \subseteq LateReads

StatesOK ==
  /\ at["run"] \in RunStates
  /\ at["beat"] \in {"none", "heartbeat", "register", "drain", "noticeRedial"}
  /\ at["call"] \in {"none", "drain", "noticeRedial"}

\* A poll is only sent with a slot free for what it brings.
TasksInv ==
  /\ tasks \in 0..Concurrency
  /\ at["run"] = "polling" => tasks < Concurrency

\* With chains at a, their answers rep, the wire w and resends b waited for:
\* a chain awaits one request at most, the one it is at, and that is on the
\* wire or waits to be resent only until it is answered.
Mail(a, rep, w, b) ==
  /\ a \in [Chains -> States] /\ rep \in [Chains -> Replies] /\ b \subseteq Chains
  /\ w \in Seq(Message)
  /\ \A i \in 1..Len(w) : w[i].from # "nobody" =>
       a[w[i].from] = w[i].op /\ rep[w[i].from] = "none" /\ w[i].from \notin b
  /\ \A i, j \in 1..Len(w) : w[i].from # "nobody" /\ w[i].from = w[j].from => i = j
  /\ \A c \in b : a[c] \in Asking /\ a[c] \in Resent /\ rep[c] = "none"
  /\ \A c \in Chains : rep[c] # "none" => a[c] \in Asking \cup {"polling"}

MailInv == Mail(at, reply, wire, backoff)

TypeInv == FlagsOK /\ StatesOK /\ TasksInv /\ MailInv

\* Behind a deregister that is awaited no request registers the worker, but
\* one that is resent.
Ordered(w) ==
  \A i, j \in 1..Len(w) :
    i < j /\ w[i].from = "run" /\ w[i].op = "deregister" => w[j].op # "register" \/ w[j].again

NoneRegisters(w) == \A i \in 1..Len(w) : w[i].op # "register" \/ w[i].again

\* Once the deregister is answered nothing but that is left on the wire that
\* could register the worker, and at the end of the run nothing at all.
PartedInv ==
  /\ Ordered(wire)
  /\ at["run"] = "deregister" /\ reply["run"] = "ok" => NoneRegisters(wire)
  /\ at["run"] = "idle" => at = NoChain /\ wire = <<>>
  /\ parted => at["run"] = "idle"

LEMMA TypeInvImpliesTypeOK == TypeInv => TypeOK
BY DEF TypeInv, FlagsOK, StatesOK, TasksInv, MailInv, Mail, TypeOK, Message, Replies

-----------------------------------------------------------------------------
(* The wire.                                                               *)

\* Each request of w is one of v, in the order of v, and nobody's or from
\* whom it was.
Within(w, v) ==
  /\ w \in Seq(Message)
  /\ \E place \in [1..Len(w) -> 1..Len(v)] :
       /\ \A i, j \in 1..Len(w) : i < j => place[i] < place[j]
       /\ \A i \in 1..Len(w) : /\ w[i].op = v[place[i]].op /\ w[i].again = v[place[i]].again
                                /\ w[i].from \in {v[place[i]].from, "nobody"}

NoneOf(c, w) == \A i \in 1..Len(w) : w[i].from # c

LEMMA WithinMail ==
  ASSUME NEW v, NEW w, NEW a, NEW rep, NEW b, Mail(a, rep, v, b), Within(w, v)
  PROVE  /\ Mail(a, rep, w, b)
         /\ Ordered(v) => Ordered(w)
         /\ NoneRegisters(v) => NoneRegisters(w)
         /\ \A c \in Chains : NoneOf(c, v) => NoneOf(c, w)
<1>1. PICK place \in [1..Len(w) -> 1..Len(v)] :
        /\ \A i, j \in 1..Len(w) : i < j => place[i] < place[j]
        /\ \A i \in 1..Len(w) : /\ w[i].op = v[place[i]].op /\ w[i].again = v[place[i]].again
                                 /\ w[i].from \in {v[place[i]].from, "nobody"}
  BY DEF Within
<1>2. w \in Seq(Message) /\ v \in Seq(Message) /\ Len(w) \in Nat /\ Len(v) \in Nat
  BY LenProperties DEF Within, Mail
<1>3. \A i \in 1..Len(w) :
        /\ place[i] \in 1..Len(v)
        /\ w[i].op = v[place[i]].op /\ w[i].again = v[place[i]].again
        /\ w[i].from # "nobody" => w[i].from = v[place[i]].from
  BY <1>1
<1>4. ASSUME NEW i \in 1..Len(w), NEW j \in 1..Len(w), w[i].from # "nobody", w[i].from = w[j].from
      PROVE  i = j
  <2>1. place[i] = place[j]
    BY <1>3, <1>4 DEF Mail
  <2>2. i \in Int /\ j \in Int /\ place[i] \in Int /\ place[j] \in Int
    BY <1>2, <1>3
  <2>3. ~(i < j) /\ ~(j < i)
    BY <1>1, <2>1, <2>2
  <2> QED BY <2>2, <2>3
<1>5. \A i \in 1..Len(w) : w[i].from # "nobody" =>
        a[w[i].from] = w[i].op /\ rep[w[i].from] = "none" /\ w[i].from \notin b
  BY <1>3 DEF Mail
<1>6. Mail(a, rep, w, b)
  BY <1>2, <1>4, <1>5 DEF Mail
<1>7. ASSUME Ordered(v), NEW i \in 1..Len(w), NEW j \in 1..Len(w),
             i < j, w[i].from = "run", w[i].op = "deregister"
      PROVE  w[j].op # "register" \/ w[j].again
  <2>1. place[i] < place[j] /\ v[place[i]].from = "run" /\ v[place[i]].op = "deregister"
    BY <1>1, <1>3, <1>7
  <2> QED BY <1>3, <1>7, <2>1 DEF Ordered
<1>8. Ordered(v) => Ordered(w)
  BY <1>7 DEF Ordered
<1>9. NoneRegisters(v) => NoneRegisters(w)
  BY <1>3 DEF NoneRegisters
<1>10. ASSUME NEW c \in Chains, NoneOf(c, v)
       PROVE  NoneOf(c, w)
  <2>1. c # "nobody"
    BY DEF Chains
  <2> QED BY <1>3, <1>10, <2>1 DEF NoneOf
<1> QED BY <1>6, <1>8, <1>9, <1>10

LEMMA EmptyWithin ==
  ASSUME NEW v
  PROVE  Within(<<>>, v) /\ (\A c : NoneOf(c, <<>>)) /\ Ordered(<<>>) /\ NoneRegisters(<<>>)
<1>1. <<>> \in Seq(Message) /\ Len(<<>>) = 0
  BY EmptySeq
<1> DEFINE place == [i \in 1..0 |-> 1]
<1>2. place \in [1..Len(<<>>) -> 1..Len(v)]
  BY <1>1
<1>3. \A i \in 1..Len(<<>>) : FALSE
  BY <1>1
<1> QED BY <1>1, <1>2, <1>3 DEF Within, NoneOf, Ordered, NoneRegisters

LEMMA TailWithin ==
  ASSUME NEW v \in Seq(Message), v # <<>>
  PROVE  Within(Tail(v), v)
<1>1. /\ Tail(v) \in Seq(Message) /\ Len(Tail(v)) = Len(v) - 1
      /\ \A i \in 1..Len(Tail(v)) : Tail(v)[i] = v[i + 1]
  BY HeadTailProperties
<1>2. Len(v) \in Nat
  BY LenProperties
<1> DEFINE place == [i \in 1..Len(Tail(v)) |-> i + 1]
<1>3. place \in [1..Len(Tail(v)) -> 1..Len(v)]
  BY <1>1, <1>2
<1>4. \A i, j \in 1..Len(Tail(v)) : i < j => place[i] < place[j]
  BY <1>1, <1>2
<1>5. \A i \in 1..Len(Tail(v)) : Tail(v)[i] = v[place[i]]
  BY <1>1
<1> HIDE DEF place
<1> QED BY <1>1, <1>3, <1>4, <1>5 DEF Within

\* Without the k-th, the others keep their order.
LEMMA RemovedPlaces ==
  ASSUME NEW v \in Seq(Message), NEW k \in 1..Len(v)
  PROVE  LET w == RemoveAt(v, k)
         IN  /\ w \in Seq(Message)
             /\ \E place \in [1..Len(w) -> 1..Len(v)] :
                  /\ \A i, j \in 1..Len(w) : i < j => place[i] < place[j]
                  /\ \A i \in 1..Len(w) : w[i] = v[place[i]] /\ place[i] # k
<1> DEFINE front == SubSeq(v, 1, k - 1)
           back == SubSeq(v, k + 1, Len(v))
           w == front \o back
<1>1. Len(v) \in Nat /\ k \in Nat /\ k >= 1 /\ k <= Len(v)
  BY LenProperties
<1>2. \A i \in 1..Len(v) : v[i] \in Message
  BY ElementOfSeq
<1>3. /\ front \in Seq(Message) /\ Len(front) = k - 1
      /\ \A i \in 1..(k - 1) : front[i] = v[i]
  <2>1. \A i \in 1..(k - 1) : v[i] \in Message
    BY <1>1, <1>2
  <2>2. /\ front \in Seq(Message) /\ Len(front) = IF 1 <= k - 1 THEN k - 1 - 1 + 1 ELSE 0
        /\ \A i \in 1..(k - 1 - 1 + 1) : front[i] = v[1 + i - 1]
    BY <1>1, <2>1, SubSeqProperties
  <2> HIDE DEF front
  <2> QED BY <1>1, <2>2
<1>4. /\ back \in Seq(Message) /\ Len(back) = Len(v) - k
      /\ \A i \in 1..(Len(v) - k) : back[i] = v[k + i]
  <2>1. \A i \in (k + 1)..Len(v) : v[i] \in Message
    BY <1>1, <1>2
  <2>2. /\ back \in Seq(Message)
        /\ Len(back) = IF k + 1 <= Len(v) THEN Len(v) - (k + 1) + 1 ELSE 0
        /\ \A i \in 1..(Len(v) - (k + 1) + 1) : back[i] = v[k + 1 + i - 1]
    BY <1>1, <2>1, SubSeqProperties
  <2> HIDE DEF back
  <2> QED BY <1>1, <2>2
<1> HIDE DEF front, back
<1>5. /\ w \in Seq(Message) /\ Len(w) = Len(v) - 1
      /\ \A i \in 1..(Len(v) - 1) : w[i] = IF i <= k - 1 THEN v[i] ELSE v[i + 1]
  <2>1. /\ w \in Seq(Message) /\ Len(w) = Len(front) + Len(back)
        /\ \A i \in 1..(Len(front) + Len(back)) :
             w[i] = IF i <= Len(front) THEN front[i] ELSE back[i - Len(front)]
    BY <1>3, <1>4, ConcatProperties
  <2>2. Len(front) + Len(back) = Len(v) - 1
    BY <1>1, <1>3, <1>4
  <2>3. ASSUME NEW i \in 1..(Len(v) - 1)
        PROVE  w[i] = IF i <= k - 1 THEN v[i] ELSE v[i + 1]
    <3>1. CASE i <= k - 1
      BY <1>1, <1>3, <2>1, <2>2, <3>1
    <3>2. CASE ~(i <= k - 1)
      <4>1. i - (k - 1) \in 1..(Len(v) - k) /\ k + (i - (k - 1)) = i + 1
        BY <1>1, <3>2
      <4>2. w[i] = back[i - (k - 1)]
        BY <1>1, <1>3, <2>1, <2>2, <3>2
      <4>3. back[i - (k - 1)] = v[k + (i - (k - 1))]
        BY <1>4, <4>1
      <4> QED BY <3>2, <4>1, <4>2, <4>3
    <3> QED BY <3>1, <3>2
  <2> HIDE DEF w
  <2> QED BY <2>1, <2>2, <2>3
<1> DEFINE place == [i \in 1..(Len(v) - 1) |-> IF i <= k - 1 THEN i ELSE i + 1]
<1>6. RemoveAt(v, k) = w
  BY DEF RemoveAt, front, back
<1> HIDE DEF w
<1>7. place \in [1..Len(w) -> 1..Len(v)]
  BY <1>1, <1>5
<1>8. \A i, j \in 1..Len(w) : i < j => place[i] < place[j]
  BY <1>1, <1>5
<1>9. \A i \in 1..Len(w) : w[i] = v[place[i]]
  BY <1>1, <1>5
<1>10. \A i \in 1..Len(w) : place[i] # k
  BY <1>1, <1>5
<1> HIDE DEF place
<1> QED BY <1>5, <1>6, <1>7, <1>8, <1>9, <1>10

\* Given up on, chain c's request is on the wire as nobody's, or not at all.
LEMMA OrphanedWithin ==
  ASSUME MailInv, NEW c \in Chains
  PROVE  Within(Orphaned(c), wire) /\ NoneOf(c, Orphaned(c))
<1>1. wire \in Seq(Message) /\ Len(wire) \in Nat /\ DOMAIN wire = 1..Len(wire)
  BY LenProperties DEF MailInv, Mail
<1>2. c # "nobody"
  BY DEF Chains
<1>3. CASE Of(c) = {}
  <2>1. Orphaned(c) = wire
    BY <1>3 DEF Orphaned
  <2>2. NoneOf(c, wire)
    BY <1>1, <1>3 DEF NoneOf, Of
  <2> DEFINE place == [i \in 1..Len(wire) |-> i]
  <2>3. place \in [1..Len(wire) -> 1..Len(wire)]
    OBVIOUS
  <2>4. Within(wire, wire)
    BY <1>1, <2>3 DEF Within
  <2> QED BY <2>1, <2>2, <2>4
<1>4. CASE Of(c) # {}
  <2> DEFINE k == CHOOSE j \in Of(c) : TRUE
  <2>1. k \in 1..Len(wire) /\ wire[k].from = c
    BY <1>1, <1>4 DEF Of
  <2>2. Orphaned(c) = IF RoomForOrphan THEN [wire EXCEPT ![k].from = "nobody"] ELSE RemoveAt(wire, k)
    BY <1>4 DEF Orphaned
  <2> HIDE DEF k
  <2>3. \A i \in 1..Len(wire) : wire[i].from = c => i = k
    BY <1>2, <2>1 DEF MailInv, Mail
  <2>4. CASE RoomForOrphan
    <3> DEFINE dead == [wire[k] EXCEPT !.from = "nobody"]
               w == [wire EXCEPT ![k] = dead]
    <3>1. Orphaned(c) = w
      BY <2>2, <2>4
    <3>2. wire[k] \in Message
      BY <1>1, <2>1, ElementOfSeq
    <3>3. dead \in Message /\ dead.op = wire[k].op /\ dead.again = wire[k].again /\ dead.from = "nobody"
      BY <3>2 DEF Message
    <3> HIDE DEF dead
    <3>4. /\ w \in Seq(Message) /\ Len(w) = Len(wire)
          /\ \A j \in 1..Len(wire) : w[j] = IF j = k THEN dead ELSE wire[j]
      BY <1>1, <2>1, <3>3, ExceptSeq
    <3> HIDE DEF w
    <3> DEFINE place == [i \in 1..Len(w) |-> i]
    <3>5. place \in [1..Len(w) -> 1..Len(wire)]
      BY <3>4
    <3>6. \A i, j \in 1..Len(w) : i < j => place[i] < place[j]
      OBVIOUS
    <3>7. \A i \in 1..Len(w) : w[i].op = wire[place[i]].op /\ w[i].again = wire[place[i]].again /\ w[i].from \in {wire[place[i]].from, "nobody"}
      BY <3>3, <3>4
    <3> HIDE DEF place
    <3>8. Within(w, wire)
      BY <3>4, <3>5, <3>6, <3>7 DEF Within
    <3>9. NoneOf(c, w)
      BY <1>2, <2>3, <3>3, <3>4 DEF NoneOf
    <3> QED BY <3>1, <3>8, <3>9
  <2>5. CASE ~RoomForOrphan
    <3> DEFINE w == RemoveAt(wire, k)
    <3>1. /\ w \in Seq(Message)
          /\ \E place \in [1..Len(w) -> 1..Len(wire)] :
               /\ \A i, j \in 1..Len(w) : i < j => place[i] < place[j]
               /\ \A i \in 1..Len(w) : w[i] = wire[place[i]] /\ place[i] # k
      BY <1>1, <2>1, RemovedPlaces
    <3>2. Orphaned(c) = w
      BY <2>2, <2>5
    <3> HIDE DEF w
    <3>3. PICK place \in [1..Len(w) -> 1..Len(wire)] :
            /\ \A i, j \in 1..Len(w) : i < j => place[i] < place[j]
            /\ \A i \in 1..Len(w) : w[i] = wire[place[i]] /\ place[i] # k
      BY <3>1
    <3>4. Within(w, wire)
      BY <3>1, <3>3 DEF Within
    <3>5. NoneOf(c, w)
      BY <2>3, <3>3 DEF NoneOf
    <3> QED BY <3>2, <3>4, <3>5
  <2> QED BY <2>4, <2>5
<1> QED BY <1>3, <1>4

\* The oldest request is the only one of its chain, and an awaited deregister
\* has none behind it that registers but resent.
LEMMA HeadRead ==
  ASSUME MailInv, wire # <<>>
  PROVE  /\ Head(wire) \in Message /\ Within(Tail(wire), wire)
         /\ Head(wire).from # "nobody" =>
              /\ Head(wire).from \in Chains /\ NoneOf(Head(wire).from, Tail(wire))
              /\ at[Head(wire).from] = Head(wire).op /\ reply[Head(wire).from] = "none"
              /\ Head(wire).from \notin backoff
         /\ Ordered(wire) /\ Head(wire).from = "run" /\ Head(wire).op = "deregister" => NoneRegisters(Tail(wire))
         /\ NoneRegisters(wire) => Head(wire).op # "register" \/ Head(wire).again
<1>1. wire \in Seq(Message) /\ Len(wire) \in Nat
  BY LenProperties DEF MailInv, Mail
<1>2. /\ Head(wire) \in Message /\ Tail(wire) \in Seq(Message) /\ Len(Tail(wire)) = Len(wire) - 1
      /\ \A i \in 1..Len(Tail(wire)) : Tail(wire)[i] = wire[i + 1]
  BY <1>1, HeadTailProperties
<1>3. Len(wire) > 0
  BY <1>1, EmptySeq
<1>4. 1 \in 1..Len(wire) /\ Head(wire) = wire[1]
  BY <1>1, <1>3
<1>5. \A i \in 1..Len(Tail(wire)) : i + 1 \in 1..Len(wire) /\ i + 1 # 1 /\ 1 < i + 1
  BY <1>1, <1>2, <1>3
<1>6. Within(Tail(wire), wire)
  BY <1>1, TailWithin
<1>7. ASSUME Head(wire).from # "nobody"
      PROVE  /\ Head(wire).from \in Chains /\ NoneOf(Head(wire).from, Tail(wire))
             /\ at[Head(wire).from] = Head(wire).op /\ reply[Head(wire).from] = "none"
             /\ Head(wire).from \notin backoff
  <2>1. Head(wire).from \in Chains
    BY <1>2, <1>7 DEF Message
  <2>2. NoneOf(Head(wire).from, Tail(wire))
    BY <1>2, <1>4, <1>5, <1>7 DEF NoneOf, MailInv, Mail
  <2> QED BY <1>4, <1>7, <2>1, <2>2 DEF MailInv, Mail
<1>8. Ordered(wire) /\ Head(wire).from = "run" /\ Head(wire).op = "deregister" => NoneRegisters(Tail(wire))
  BY <1>2, <1>4, <1>5 DEF Ordered, NoneRegisters
<1>9. NoneRegisters(wire) => Head(wire).op # "register" \/ Head(wire).again
  BY <1>4 DEF NoneRegisters
<1> QED BY <1>2, <1>6, <1>7, <1>8, <1>9

-----------------------------------------------------------------------------
(* Moves of the chains, their answers, the wire and the resends.           *)

\* A request is added: nobody's, or that of the chain which is at it.
LEMMA MailAppend ==
  ASSUME NEW a, NEW rep, NEW w, NEW b, Mail(a, rep, w, b), NEW m \in Message,
         m.from # "nobody" =>
           a[m.from] = m.op /\ rep[m.from] = "none" /\ m.from \notin b /\ NoneOf(m.from, w)
  PROVE  /\ Mail(a, rep, Append(w, m), b)
         /\ Ordered(w) /\ (m.op = "register" => m.again \/ a["run"] # "deregister") => Ordered(Append(w, m))
         /\ NoneRegisters(w) /\ (m.op = "register" => m.again) => NoneRegisters(Append(w, m))
<1> DEFINE v == Append(w, m)
<1>1. w \in Seq(Message) /\ Len(w) \in Nat
  BY LenProperties DEF Mail
<1>2. /\ v \in Seq(Message) /\ Len(v) = Len(w) + 1
      /\ \A i \in 1..Len(w) : v[i] = w[i]
      /\ v[Len(w) + 1] = m
  BY <1>1, AppendProperties
<1>3. \A i \in 1..Len(v) : i \in 1..Len(w) \/ i = Len(w) + 1
  BY <1>1, <1>2
<1> HIDE DEF v
<1>4. \A i \in 1..Len(v) : v[i].from # "nobody" =>
        a[v[i].from] = v[i].op /\ rep[v[i].from] = "none" /\ v[i].from \notin b
  BY <1>2, <1>3 DEF Mail
<1>5. ASSUME NEW i \in 1..Len(v), NEW j \in 1..Len(v), v[i].from # "nobody", v[i].from = v[j].from
      PROVE  i = j
  <2>1. CASE i \in 1..Len(w) /\ j \in 1..Len(w)
    BY <1>2, <1>5, <2>1 DEF Mail
  <2>2. CASE i = Len(w) + 1 /\ j \in 1..Len(w)
    BY <1>2, <1>5, <2>2 DEF NoneOf
  <2>3. CASE i \in 1..Len(w) /\ j = Len(w) + 1
    BY <1>2, <1>5, <2>3 DEF NoneOf
  <2> QED BY <1>3, <2>1, <2>2, <2>3
<1>6. Mail(a, rep, v, b)
  BY <1>2, <1>4, <1>5 DEF Mail
<1>7. ASSUME Ordered(w), m.op = "register" => m.again \/ a["run"] # "deregister",
             NEW i \in 1..Len(v), NEW j \in 1..Len(v), i < j, v[i].from = "run", v[i].op = "deregister"
      PROVE  v[j].op # "register" \/ v[j].again
  <2>1. i \in 1..Len(w)
    BY <1>1, <1>2, <1>3, <1>7
  <2>2. CASE j \in 1..Len(w)
    BY <1>2, <1>7, <2>1, <2>2 DEF Ordered
  <2>3. CASE j = Len(w) + 1
    <3>1. a["run"] = "deregister"
      BY <1>4, <1>7
    <3> QED BY <1>2, <1>7, <2>3, <3>1
  <2> QED BY <1>3, <2>2, <2>3
<1>8. Ordered(w) /\ (m.op = "register" => m.again \/ a["run"] # "deregister") => Ordered(v)
  BY <1>7 DEF Ordered
<1>9. NoneRegisters(w) /\ (m.op = "register" => m.again) => NoneRegisters(v)
  BY <1>2, <1>3 DEF NoneRegisters
<1> QED BY <1>6, <1>8, <1>9 DEF v

\* A chain with no request out moves on.
LEMMA MailMoved ==
  ASSUME NEW a, NEW rep, NEW w, NEW b, Mail(a, rep, w, b),
         NEW c \in Chains, NoneOf(c, w), c \notin b, NEW where \in States
  PROVE  Mail([a EXCEPT ![c] = where], [rep EXCEPT ![c] = "none"], w, b)
<1> DEFINE a2 == [a EXCEPT ![c] = where]
           rep2 == [rep EXCEPT ![c] = "none"]
<1>1. a2 \in [Chains -> States] /\ rep2 \in [Chains -> Replies]
  BY DEF Mail, Replies
<1>2. a2[c] = where /\ rep2[c] = "none" /\ \A d \in Chains \ {c} : a2[d] = a[d] /\ rep2[d] = rep[d]
  BY DEF Mail
<1> HIDE DEF a2, rep2
<1>3. w \in Seq(Message) /\ \A i \in 1..Len(w) : w[i] \in Message
  BY ElementOfSeq DEF Mail
<1>4. \A i \in 1..Len(w) : w[i].from # "nobody" => w[i].from \in Chains \ {c}
  BY <1>3 DEF NoneOf, Message
<1>5. \A i \in 1..Len(w) : w[i].from # "nobody" =>
        a2[w[i].from] = w[i].op /\ rep2[w[i].from] = "none" /\ w[i].from \notin b
  BY <1>2, <1>4 DEF Mail
<1>6. \A d \in b : a2[d] \in Asking /\ a2[d] \in Resent /\ rep2[d] = "none"
  <2> SUFFICES ASSUME NEW d \in b
               PROVE  a2[d] \in Asking /\ a2[d] \in Resent /\ rep2[d] = "none"
    OBVIOUS
  <2>1. d \in Chains \ {c}
    BY DEF Mail
  <2> QED BY <1>2, <2>1 DEF Mail
<1>7. \A d \in Chains : rep2[d] # "none" => a2[d] \in Asking \cup {"polling"}
  BY <1>2 DEF Mail
<1> QED BY <1>1, <1>5, <1>6, <1>7 DEF Mail, a2, rep2

\* A chain is answered.
LEMMA MailReplied ==
  ASSUME NEW a, NEW rep, NEW w, NEW b, Mail(a, rep, w, b),
         NEW c \in Chains, NoneOf(c, w), c \notin b, a[c] \in Asking \cup {"polling"}, NEW answer \in Replies
  PROVE  Mail(a, [rep EXCEPT ![c] = answer], w, b)
<1> DEFINE rep2 == [rep EXCEPT ![c] = answer]
<1>1. rep2 \in [Chains -> Replies]
  BY DEF Mail
<1>2. \A d \in Chains \ {c} : rep2[d] = rep[d]
  BY DEF Mail
<1> HIDE DEF rep2
<1>3. w \in Seq(Message) /\ \A i \in 1..Len(w) : w[i] \in Message
  BY ElementOfSeq DEF Mail
<1>4. \A i \in 1..Len(w) : w[i].from # "nobody" => w[i].from \in Chains \ {c}
  BY <1>3 DEF NoneOf, Message
<1>5. \A i \in 1..Len(w) : w[i].from # "nobody" =>
        a[w[i].from] = w[i].op /\ rep2[w[i].from] = "none" /\ w[i].from \notin b
  BY <1>2, <1>4 DEF Mail
<1>6. \A d \in b : a[d] \in Asking /\ a[d] \in Resent /\ rep2[d] = "none"
  <2> SUFFICES ASSUME NEW d \in b
               PROVE  a[d] \in Asking /\ a[d] \in Resent /\ rep2[d] = "none"
    OBVIOUS
  <2>1. d \in Chains \ {c}
    BY DEF Mail
  <2> QED BY <1>2, <2>1 DEF Mail
<1>7. \A d \in Chains : rep2[d] # "none" => a[d] \in Asking \cup {"polling"}
  BY <1>2 DEF Mail
<1> QED BY <1>1, <1>5, <1>6, <1>7 DEF Mail, rep2

\* A chain's request is refused unrun, or its wait is over.
LEMMA MailBackoff ==
  ASSUME NEW a, NEW rep, NEW w, NEW b, Mail(a, rep, w, b), NEW c \in Chains
  PROVE  /\ Mail(a, rep, w, b \ {c})
         /\ NoneOf(c, w) /\ a[c] \in Asking /\ a[c] \in Resent /\ rep[c] = "none" => Mail(a, rep, w, b \cup {c})
<1>1. Mail(a, rep, w, b \ {c})
  BY DEF Mail
<1>2. ASSUME NoneOf(c, w), a[c] \in Asking, a[c] \in Resent, rep[c] = "none"
      PROVE  Mail(a, rep, w, b \cup {c})
  <2>1. \A i \in 1..Len(w) : w[i].from # "nobody" => w[i].from \notin b \cup {c}
    BY <1>2 DEF Mail, NoneOf
  <2>2. \A d \in b \cup {c} : a[d] \in Asking /\ a[d] \in Resent /\ rep[d] = "none"
    BY <1>2 DEF Mail
  <2>3. b \cup {c} \subseteq Chains
    BY DEF Mail
  <2> QED BY <2>1, <2>2, <2>3 DEF Mail
<1> QED BY <1>1, <1>2

\* The connection is let go.
Lost == [c \in Chains |-> IF c \in Awaiting \ backoff THEN "lost" ELSE reply[c]]

LEMMA MailLetGo ==
  ASSUME MailInv
  PROVE  Mail(at, Lost, <<>>, backoff)
<1>1. <<>> \in Seq(Message) /\ \A i \in 1..Len(<<>>) : FALSE
  BY EmptySeq
<1>2. Lost \in [Chains -> Replies]
  BY DEF Lost, Replies, MailInv, Mail
<1>3. \A c \in backoff : Lost[c] = "none"
  BY DEF Lost, MailInv, Mail
<1>4. \A c \in Chains : Lost[c] # "none" => at[c] \in Asking \cup {"polling"}
  BY DEF Lost, Awaiting, MailInv, Mail
<1> QED BY <1>1, <1>2, <1>3, <1>4 DEF MailInv, Mail

LEMMA MailRest == Mail(NoChain, NoReply, <<>>, {})
<1>1. <<>> \in Seq(Message) /\ \A i \in 1..Len(<<>>) : FALSE
  BY EmptySeq
<1>2. NoChain \in [Chains -> States] /\ NoReply \in [Chains -> Replies]
  BY DEF NoChain, NoReply, Chains, States, RunStates, Replies
<1>3. \A c \in Chains : NoReply[c] = "none"
  BY DEF NoReply
<1> QED BY <1>1, <1>2, <1>3 DEF Mail

\* A chain that asked for nothing, or was answered, has no request out.
Free(c) == at[c] \notin Asking \/ reply[c] # "none"

LEMMA FreeHasNone ==
  ASSUME MailInv, NEW c \in Chains, Free(c)
  PROVE  NoneOf(c, wire) /\ c \notin backoff
<1>1. wire \in Seq(Message) /\ \A i \in 1..Len(wire) : wire[i] \in Message
  BY ElementOfSeq DEF MailInv, Mail
<1>2. ASSUME NEW i \in 1..Len(wire), wire[i].from = c
      PROVE  FALSE
  <2>1. c # "nobody" /\ wire[i].op \in Asking
    BY <1>1 DEF Chains, Message
  <2> QED BY <1>2, <2>1 DEF MailInv, Mail, Free
<1>3. c \notin backoff
  BY DEF MailInv, Mail, Free
<1> QED BY <1>2, <1>3 DEF NoneOf

-----------------------------------------------------------------------------
(* What the steps are made of.                                             *)

LEMMA GotoMail ==
  ASSUME MailInv, NEW c \in Chains, Free(c), NEW where \in States, Goto(c, where), UNCHANGED <<wire, backoff>>
  PROVE  MailInv'
<1>1. Mail(at', reply', wire, backoff)
  BY FreeHasNone, MailMoved DEF MailInv, Goto
<1> QED BY <1>1 DEF MailInv

LEMMA AskMail ==
  ASSUME MailInv, NEW c \in Chains, Free(c), NEW op \in Asking, Ask(c, op), UNCHANGED backoff
  PROVE  /\ MailInv'
         /\ Ordered(wire) /\ (op = "register" => at'["run"] # "deregister") => Ordered(wire')
         /\ NoneRegisters(wire) /\ op # "register" => NoneRegisters(wire')
<1> DEFINE a2 == [at EXCEPT ![c] = op]
           rep2 == [reply EXCEPT ![c] = "none"]
           m == [from |-> c, op |-> op, again |-> FALSE]
<1>1. op \in States /\ m \in Message /\ c # "nobody"
  BY DEF States, Message, Chains
<1>2. NoneOf(c, wire) /\ c \notin backoff
  BY FreeHasNone
<1>3. Mail(a2, rep2, wire, backoff)
  BY <1>1, <1>2, MailMoved DEF MailInv
<1>4. a2[c] = op /\ rep2[c] = "none"
  BY DEF MailInv, Mail
<1>5. at' = a2 /\ backoff' = backoff
  BY DEF Ask
<1>6. CASE held
  <2>1. wire' = Append(wire, m) /\ reply' = rep2
    BY <1>6 DEF Ask
  <2>2. m.from = c /\ m.op = op
    OBVIOUS
  <2> HIDE DEF a2, rep2, m
  <2>3. /\ Mail(a2, rep2, Append(wire, m), backoff)
        /\ Ordered(wire) /\ (m.op = "register" => m.again \/ a2["run"] # "deregister") => Ordered(Append(wire, m))
        /\ NoneRegisters(wire) /\ (m.op = "register" => m.again) => NoneRegisters(Append(wire, m))
    BY <1>1, <1>2, <1>3, <1>4, <2>2, MailAppend
  <2> QED BY <1>5, <2>1, <2>2, <2>3 DEF MailInv
<1>7. CASE ~held
  <2>1. wire' = wire /\ reply' = [reply EXCEPT ![c] = "lost"]
    BY <1>7 DEF Ask
  <2>2. [rep2 EXCEPT ![c] = "lost"] = [reply EXCEPT ![c] = "lost"]
    BY DEF MailInv, Mail
  <2> HIDE DEF a2, rep2, m
  <2>3. "lost" \in Replies
    BY DEF Replies
  <2>4. Mail(a2, [rep2 EXCEPT ![c] = "lost"], wire, backoff)
    BY <1>2, <1>3, <1>4, <2>3, MailReplied
  <2> QED BY <1>5, <2>1, <2>2, <2>4 DEF MailInv
<1> QED BY <1>6, <1>7

LEMMA DropMail ==
  ASSUME MailInv, NEW c \in Chains, Free(c), NEW where \in States,
         at' = [at EXCEPT ![c] = where], DropFor(c), UNCHANGED backoff
  PROVE  MailInv'
<1>1. Mail(at, Lost, <<>>, backoff)
  BY MailLetGo
<1>2. NoneOf(c, <<>>) /\ c \notin backoff
  BY FreeHasNone, EmptyWithin
<1>3. Mail(at', [Lost EXCEPT ![c] = "none"], <<>>, backoff)
  BY <1>1, <1>2, MailMoved
<1>4. reply' = [Lost EXCEPT ![c] = "none"]
  BY DEF DropFor, Lost
<1> QED BY <1>3, <1>4 DEF MailInv, DropFor, DropConnection

LEMMA EndMail ==
  ASSUME EndRun
  PROVE  MailInv'
BY MailRest DEF EndRun, DropConnection, MailInv

\* A notice: awaited, or written and left alone.
LEMMA NoticeMail ==
  ASSUME MailInv, NEW c \in Chains, Free(c), NEW due, SendNotice(c, due), UNCHANGED backoff
  PROVE  /\ MailInv'
         /\ Ordered(wire) => Ordered(wire')
         /\ NoneRegisters(wire) => NoneRegisters(wire')
<1>1. CASE Ask(c, "drain")
  <2>1. "drain" \in Asking /\ "drain" # "register"
    BY DEF Asking
  <2> QED BY <1>1, <2>1, AskMail
<1>2. CASE /\ NoticeOver(c)
           /\ wire' = IF held /\ RoomForOrphan
                      THEN Append(wire, [from |-> "nobody", op |-> "drain", again |-> FALSE]) ELSE wire
  <2> DEFINE where == IF c = "run" THEN DrainedWhere ELSE "none"
             m == [from |-> "nobody", op |-> "drain", again |-> FALSE]
  <2>1. where \in States
    BY DEF DrainedWhere, States, RunStates
  <2>2. at' = [at EXCEPT ![c] = where] /\ reply' = [reply EXCEPT ![c] = "none"]
    BY <1>2 DEF NoticeOver, Goto
  <2> HIDE DEF where
  <2>3. Mail(at', reply', wire, backoff)
    BY <2>1, <2>2, FreeHasNone, MailMoved DEF MailInv
  <2>4. m \in Message /\ m.from = "nobody" /\ m.op = "drain"
    BY DEF Message, Asking
  <2>5. wire' = Append(wire, m) \/ wire' = wire
    BY <1>2
  <2> HIDE DEF m
  <2>6. /\ Mail(at', reply', Append(wire, m), backoff)
        /\ Ordered(wire) => Ordered(Append(wire, m))
        /\ NoneRegisters(wire) => NoneRegisters(Append(wire, m))
    BY <2>3, <2>4, MailAppend
  <2>7. MailInv'
    BY <2>3, <2>5, <2>6 DEF MailInv
  <2> QED BY <2>5, <2>6, <2>7
<1> QED BY <1>1, <1>2 DEF SendNotice

-----------------------------------------------------------------------------
(* What a step does to the flags, to where the chains are, and to tasks.   *)

LEMMA FlagsStep ==
  ASSUME FlagsOK, Next
  PROVE  FlagsOK'
<1> USE DEF flags, client, server, FlagsOK
<1>1. CASE Connected
  BY <1>1 DEF Connected, EndRun, DropConnection, Ask
<1>2. CASE ConnectFailed
  BY <1>2 DEF ConnectFailed, EndRun, DropConnection
<1>3. CASE ActionsRegistered
  BY <1>3 DEF ActionsRegistered
<1>4. CASE WorkerRegistered
  BY <1>4 DEF WorkerRegistered
<1>5. CASE RegisterFailed
  BY <1>5 DEF RegisterFailed
<1>6. CASE HaltWaitOver
  BY <1>6 DEF HaltWaitOver
<1>7. CASE Loop
  BY <1>7 DEF Loop, SendNotice
<1>8. CASE PolledTask
  BY <1>8 DEF PolledTask
<1>9. CASE PolledNothing
  BY <1>9 DEF PolledNothing
<1>10. CASE PolledDraining
  BY <1>10 DEF PolledDraining, BeginDrain
<1>11. CASE PolledUnhealthy
  BY <1>11 DEF PolledUnhealthy
<1>12. CASE HeartbeatAwaited
  BY <1>12 DEF HeartbeatAwaited
<1>13. CASE PolledPending
  BY <1>13 DEF PolledPending
<1>14. CASE PauseOver
  BY <1>14 DEF PauseOver
<1>15. CASE PollLost
  BY <1>15 DEF PollLost, DropFor, DropConnection
<1>16. CASE Redialed
  BY <1>16 DEF Redialed
<1>17. CASE RedialGivenUp
  BY <1>17 DEF RedialGivenUp
<1>18. CASE Tick
  BY <1>18 DEF Tick, SendNotice
<1>19. CASE TasksFinished
  BY <1>19 DEF TasksFinished
<1>20. CASE Deregistered
  BY <1>20 DEF Deregistered, EndRun, DropConnection
<1>21. CASE Start
  BY <1>21 DEF Start
<1>22. CASE Stop
  BY <1>22 DEF Stop
<1>23. CASE Close
  BY <1>23 DEF Close, LetGo, DropConnection
<1>24. CASE Drain
  BY <1>24 DEF Drain, SendNotice, BeginDrain
<1>25. CASE TaskEnds
  BY <1>25 DEF TaskEnds
<1>26. CASE Beat
  BY <1>26 DEF Beat
<1>27. CASE HeartbeatAnswered
  BY <1>27 DEF HeartbeatAnswered, BeginDrain
<1>28. CASE HeartbeatRegistered
  BY <1>28 DEF HeartbeatRegistered, SendNotice
<1>29. CASE Dial
  BY <1>29 DEF Dial
<1>30. CASE ConnectionEnds
  BY <1>30 DEF ConnectionEnds, LetGo, DropConnection
<1>31. CASE ServerReads
  <2>1. registry' \in {"none", "active", "draining"}
    BY <1>31 DEF ServerReads, RegistryAfter
  <2> QED BY <1>31, <2>1 DEF ServerReads
<1>32. CASE AnswerLost
  <2>1. registry' \in {"none", "active", "draining"}
    BY <1>32 DEF AnswerLost, RegistryAfter
  <2> QED BY <1>32, <2>1 DEF AnswerLost
<1>33. CASE ServerRefusesUnrun
  BY <1>33 DEF ServerRefusesUnrun
<1>34. CASE ServerForgets
  BY <1>34 DEF ServerForgets
<1>35. CASE OperatorDrains
  BY <1>35 DEF OperatorDrains
<1>36. ASSUME NEW c \in Chains, NoticeAnswered(c)
      PROVE  FlagsOK'
  BY <1>36 DEF NoticeAnswered
<1>37. ASSUME NEW c \in Chains, NoticeAborted(c)
      PROVE  FlagsOK'
  BY <1>37 DEF NoticeAborted
<1>38. ASSUME NEW c \in Chains, NoticeLost(c)
      PROVE  FlagsOK'
  BY <1>38 DEF NoticeLost, DropFor, DropConnection
<1>39. ASSUME NEW c \in Chains, NoticeRedialOver(c)
      PROVE  FlagsOK'
  BY <1>39 DEF NoticeRedialOver
<1>40. ASSUME NEW c \in Chains, Timeout(c)
      PROVE  FlagsOK'
  BY <1>40 DEF Timeout
<1>41. ASSUME NEW c \in Chains, Resend(c)
      PROVE  FlagsOK'
  BY <1>41 DEF Resend
<1>42. CASE ServerReadsLate
  <2>1. registry' \in {"none", "active", "draining"}
    BY <1>42 DEF ServerReadsLate, RegistryAfter
  <2> QED BY <1>42, <2>1 DEF ServerReadsLate
<1> QED BY <1>1, <1>2, <1>3, <1>4, <1>5, <1>6, <1>7, <1>8, <1>9, <1>10, <1>11, <1>12, <1>13, <1>14,
          <1>15, <1>16, <1>17, <1>18, <1>19, <1>20, <1>21, <1>22, <1>23, <1>24, <1>25, <1>26,
          <1>27, <1>28, <1>29, <1>30, <1>31, <1>32, <1>33, <1>34, <1>35, <1>36, <1>37, <1>38,
          <1>39, <1>40, <1>41, <1>42
     DEF Next, RunStep, NoticeStep, BeatStep, Caller, Network, Server

LEMMA StatesStep ==
  ASSUME StatesOK, MailInv, Next
  PROVE  StatesOK'
<1> USE DEF StatesOK, RunStates, flags, client, server
<1>b. at \in [Chains -> States] /\ Chains = {"run", "beat", "call"}
  BY DEF MailInv, Mail, Chains
<1>a. NoChain["run"] = "idle" /\ NoChain["beat"] = "none" /\ NoChain["call"] = "none"
  BY DEF NoChain
<1>1. CASE Connected
  BY <1>b, <1>a, <1>1 DEF Connected, EndRun, Ask
<1>2. CASE ConnectFailed
  BY <1>b, <1>a, <1>2 DEF ConnectFailed, EndRun
<1>3. CASE ActionsRegistered
  BY <1>b, <1>a, <1>3 DEF ActionsRegistered, Ask
<1>4. CASE WorkerRegistered
  BY <1>b, <1>a, <1>4 DEF WorkerRegistered, Goto
<1>5. CASE RegisterFailed
  BY <1>b, <1>a, <1>5 DEF RegisterFailed, Goto
<1>6. CASE HaltWaitOver
  BY <1>b, <1>a, <1>6 DEF HaltWaitOver, Goto, Ask
<1>7. CASE Loop
  BY <1>b, <1>a, <1>7 DEF Loop, SendNotice, NoticeOver, DrainedWhere, Goto, Ask
<1>8. CASE PolledTask
  BY <1>b, <1>a, <1>8 DEF PolledTask, Goto
<1>9. CASE PolledNothing
  BY <1>b, <1>a, <1>9 DEF PolledNothing, Goto
<1>10. CASE PolledDraining
  BY <1>b, <1>a, <1>10 DEF PolledDraining, Goto
<1>11. CASE PolledUnhealthy
  BY <1>b, <1>a, <1>11 DEF PolledUnhealthy
<1>12. CASE HeartbeatAwaited
  BY <1>b, <1>a, <1>12 DEF HeartbeatAwaited, Goto
<1>13. CASE PolledPending
  BY <1>b, <1>a, <1>13 DEF PolledPending, Goto
<1>14. CASE PauseOver
  BY <1>b, <1>a, <1>14 DEF PauseOver, Goto
<1>15. CASE PollLost
  BY <1>b, <1>a, <1>15 DEF PollLost, Goto
<1>16. CASE Redialed
  BY <1>b, <1>a, <1>16 DEF Redialed, Ask
<1>17. CASE RedialGivenUp
  BY <1>b, <1>a, <1>17 DEF RedialGivenUp, Goto
<1>18. CASE Tick
  BY <1>b, <1>a, <1>18 DEF Tick, SendNotice, NoticeOver, DrainedWhere, Goto, Ask
<1>19. CASE TasksFinished
  BY <1>b, <1>a, <1>19 DEF TasksFinished, Ask
<1>20. CASE Deregistered
  BY <1>b, <1>a, <1>20 DEF Deregistered, EndRun
<1>21. CASE Start
  BY <1>b, <1>a, <1>21 DEF Start, Goto
<1>22. CASE Stop
  BY <1>b, <1>a, <1>22 DEF Stop
<1>23. CASE Close
  BY <1>b, <1>a, <1>23 DEF Close
<1>24. CASE Drain
  BY <1>b, <1>a, <1>24 DEF Drain, SendNotice, NoticeOver, DrainedWhere, Goto, Ask
<1>25. CASE TaskEnds
  BY <1>b, <1>a, <1>25 DEF TaskEnds
<1>26. CASE Beat
  BY <1>b, <1>a, <1>26 DEF Beat, Ask
<1>27. CASE HeartbeatAnswered
  BY <1>b, <1>a, <1>27 DEF HeartbeatAnswered, Goto, Ask
<1>28. CASE HeartbeatRegistered
  BY <1>b, <1>a, <1>28 DEF HeartbeatRegistered, SendNotice, NoticeOver, DrainedWhere, Goto, Ask
<1>29. CASE Dial
  BY <1>b, <1>a, <1>29 DEF Dial
<1>30. CASE ConnectionEnds
  BY <1>b, <1>a, <1>30 DEF ConnectionEnds
<1>31. CASE ServerReads
  BY <1>b, <1>a, <1>31 DEF ServerReads
<1>32. CASE AnswerLost
  BY <1>b, <1>a, <1>32 DEF AnswerLost
<1>33. CASE ServerRefusesUnrun
  BY <1>b, <1>a, <1>33 DEF ServerRefusesUnrun
<1>34. CASE ServerForgets
  BY <1>b, <1>a, <1>34 DEF ServerForgets
<1>35. CASE OperatorDrains
  BY <1>b, <1>a, <1>35 DEF OperatorDrains
<1>36. ASSUME NEW c \in Chains, NoticeAnswered(c)
      PROVE  StatesOK'
  BY <1>b, <1>a, <1>36 DEF NoticeAnswered, NoticeOver, DrainedWhere, Goto
<1>37. ASSUME NEW c \in Chains, NoticeAborted(c)
      PROVE  StatesOK'
  BY <1>b, <1>a, <1>37 DEF NoticeAborted, NoticeOver, DrainedWhere, Goto
<1>38. ASSUME NEW c \in Chains, NoticeLost(c)
      PROVE  StatesOK'
  BY <1>b, <1>a, <1>38 DEF NoticeLost, NoticeOver, DrainedWhere, Goto
<1>39. ASSUME NEW c \in Chains, NoticeRedialOver(c)
      PROVE  StatesOK'
  BY <1>b, <1>a, <1>39 DEF NoticeRedialOver, NoticeOver, DrainedWhere, Goto
<1>40. ASSUME NEW c \in Chains, Timeout(c)
      PROVE  StatesOK'
  BY <1>b, <1>a, <1>40 DEF Timeout
<1>41. ASSUME NEW c \in Chains, Resend(c)
      PROVE  StatesOK'
  BY <1>b, <1>a, <1>41 DEF Resend
<1>42. CASE ServerReadsLate
  BY <1>b, <1>a, <1>42 DEF ServerReadsLate
<1> QED BY <1>1, <1>2, <1>3, <1>4, <1>5, <1>6, <1>7, <1>8, <1>9, <1>10, <1>11, <1>12, <1>13, <1>14,
          <1>15, <1>16, <1>17, <1>18, <1>19, <1>20, <1>21, <1>22, <1>23, <1>24, <1>25, <1>26,
          <1>27, <1>28, <1>29, <1>30, <1>31, <1>32, <1>33, <1>34, <1>35, <1>36, <1>37, <1>38,
          <1>39, <1>40, <1>41, <1>42
     DEF Next, RunStep, NoticeStep, BeatStep, Caller, Network, Server

\* tasks is another's number only where a task begins or ends.
LEMMA TasksStep ==
  ASSUME WorkerAssumption, TasksInv, StatesOK, MailInv, Next
  PROVE  TasksInv'
<1>a. Concurrency \in Nat /\ tasks \in Nat /\ at \in [Chains -> States] /\ "run" \in Chains
      /\ NoChain["run"] = "idle"
  BY DEF WorkerAssumption, TasksInv, MailInv, Mail, Chains, NoChain
<1>b. CASE tasks' = tasks /\ at'["run"] # "polling"
  BY <1>b DEF TasksInv
<1>c. CASE tasks' = tasks /\ at'["run"] = at["run"]
  BY <1>c DEF TasksInv
<1> USE DEF flags, client, server
<1>1. CASE Connected
  <2>1. tasks' = tasks /\ at'["run"] # "polling"
    BY <1>a, <1>1 DEF Connected, EndRun, Ask
  <2> QED BY <1>b, <2>1
<1>2. CASE ConnectFailed
  <2>1. tasks' = tasks /\ at'["run"] # "polling"
    BY <1>a, <1>2 DEF ConnectFailed, EndRun
  <2> QED BY <1>b, <2>1
<1>3. CASE ActionsRegistered
  <2>1. tasks' = tasks /\ at'["run"] # "polling"
    BY <1>a, <1>3 DEF ActionsRegistered, Ask
  <2> QED BY <1>b, <2>1
<1>4. CASE WorkerRegistered
  <2>1. tasks' = tasks /\ at'["run"] # "polling"
    BY <1>a, <1>4 DEF WorkerRegistered, Goto
  <2> QED BY <1>b, <2>1
<1>5. CASE RegisterFailed
  <2>1. tasks' = tasks /\ at'["run"] # "polling"
    BY <1>a, <1>5 DEF RegisterFailed, Goto
  <2> QED BY <1>b, <2>1
<1>6. CASE HaltWaitOver
  <2>1. tasks' = tasks /\ at'["run"] # "polling"
    BY <1>a, <1>6 DEF HaltWaitOver, Goto, Ask
  <2> QED BY <1>b, <2>1
<1>7. CASE Loop
  <2>1. tasks' = tasks
    BY <1>7 DEF Loop
  <2>2. at'["run"] = "polling" => tasks < Concurrency
    BY <1>a, <1>7 DEF Loop, SendNotice, NoticeOver, DrainedWhere, Goto, Ask, MayPoll
  <2> QED BY <2>1, <2>2 DEF TasksInv
<1>8. CASE PolledTask
  <2>1. tasks' = tasks + 1 /\ tasks < Concurrency
    BY <1>8 DEF PolledTask, PollAwaited, TasksInv
  <2>2. at'["run"] # "polling"
    BY <1>a, <1>8 DEF PolledTask, Goto
  <2>3. tasks' \in 0..Concurrency
    BY <1>a, <2>1
  <2> QED BY <2>2, <2>3 DEF TasksInv
<1>9. CASE PolledNothing
  <2>1. tasks' = tasks /\ at'["run"] # "polling"
    BY <1>a, <1>9 DEF PolledNothing, Goto
  <2> QED BY <1>b, <2>1
<1>10. CASE PolledDraining
  <2>1. tasks' = tasks /\ at'["run"] # "polling"
    BY <1>a, <1>10 DEF PolledDraining, Goto
  <2> QED BY <1>b, <2>1
<1>11. CASE PolledUnhealthy
  <2>1. tasks' = tasks /\ at'["run"] # "polling"
    BY <1>a, <1>11 DEF PolledUnhealthy
  <2> QED BY <1>b, <2>1
<1>12. CASE HeartbeatAwaited
  <2>1. tasks' = tasks /\ at'["run"] # "polling"
    BY <1>a, <1>12 DEF HeartbeatAwaited, Goto
  <2> QED BY <1>b, <2>1
<1>13. CASE PolledPending
  <2>1. tasks' = tasks /\ at'["run"] # "polling"
    BY <1>a, <1>13 DEF PolledPending, Goto
  <2> QED BY <1>b, <2>1
<1>14. CASE PauseOver
  <2>1. tasks' = tasks /\ at'["run"] # "polling"
    BY <1>a, <1>14 DEF PauseOver, Goto
  <2> QED BY <1>b, <2>1
<1>15. CASE PollLost
  <2>1. tasks' = tasks /\ at'["run"] # "polling"
    BY <1>a, <1>15 DEF PollLost, Goto
  <2> QED BY <1>b, <2>1
<1>16. CASE Redialed
  <2>1. tasks' = tasks /\ at'["run"] # "polling"
    BY <1>a, <1>16 DEF Redialed, Ask
  <2> QED BY <1>b, <2>1
<1>17. CASE RedialGivenUp
  <2>1. tasks' = tasks /\ at'["run"] # "polling"
    BY <1>a, <1>17 DEF RedialGivenUp, Goto
  <2> QED BY <1>b, <2>1
<1>18. CASE Tick
  <2>1. tasks' = tasks /\ at'["run"] # "polling"
    BY <1>a, <1>18 DEF Tick, SendNotice, NoticeOver, DrainedWhere, Goto, Ask
  <2> QED BY <1>b, <2>1
<1>19. CASE TasksFinished
  <2>1. tasks' = tasks /\ at'["run"] # "polling"
    BY <1>a, <1>19 DEF TasksFinished, Ask
  <2> QED BY <1>b, <2>1
<1>20. CASE Deregistered
  <2>1. tasks' = tasks /\ at'["run"] # "polling"
    BY <1>a, <1>20 DEF Deregistered, EndRun
  <2> QED BY <1>b, <2>1
<1>21. CASE Start
  <2>1. tasks' = tasks /\ at'["run"] # "polling"
    BY <1>a, <1>21 DEF Start, Goto
  <2> QED BY <1>b, <2>1
<1>22. CASE Stop
  <2>1. tasks' = tasks /\ at'["run"] = at["run"]
    BY <1>a, <1>22 DEF Stop
  <2> QED BY <1>c, <2>1
<1>23. CASE Close
  <2>1. tasks' = tasks /\ at'["run"] = at["run"]
    BY <1>a, <1>23 DEF Close
  <2> QED BY <1>c, <2>1
<1>24. CASE Drain
  <2>1. tasks' = tasks /\ at'["run"] = at["run"]
    BY <1>a, <1>24 DEF Drain, SendNotice, NoticeOver, DrainedWhere, Goto, Ask
  <2> QED BY <1>c, <2>1
<1>25. CASE TaskEnds
  <2>1. tasks > 0 /\ tasks' = tasks - 1 /\ at' = at
    BY <1>25 DEF TaskEnds
  <2>2. tasks' \in 0..Concurrency /\ (tasks < Concurrency => tasks' < Concurrency)
    BY <1>a, <2>1 DEF TasksInv
  <2> QED BY <2>1, <2>2 DEF TasksInv
<1>26. CASE Beat
  <2>1. tasks' = tasks /\ at'["run"] = at["run"]
    BY <1>a, <1>26 DEF Beat, Ask
  <2> QED BY <1>c, <2>1
<1>27. CASE HeartbeatAnswered
  <2>1. tasks' = tasks /\ at'["run"] = at["run"]
    BY <1>a, <1>27 DEF HeartbeatAnswered, Goto, Ask
  <2> QED BY <1>c, <2>1
<1>28. CASE HeartbeatRegistered
  <2>1. tasks' = tasks /\ at'["run"] = at["run"]
    BY <1>a, <1>28 DEF HeartbeatRegistered, SendNotice, NoticeOver, DrainedWhere, Goto, Ask
  <2> QED BY <1>c, <2>1
<1>29. CASE Dial
  <2>1. tasks' = tasks /\ at'["run"] = at["run"]
    BY <1>a, <1>29 DEF Dial
  <2> QED BY <1>c, <2>1
<1>30. CASE ConnectionEnds
  <2>1. tasks' = tasks /\ at'["run"] = at["run"]
    BY <1>a, <1>30 DEF ConnectionEnds
  <2> QED BY <1>c, <2>1
<1>31. CASE ServerReads
  <2>1. tasks' = tasks /\ at'["run"] = at["run"]
    BY <1>a, <1>31 DEF ServerReads
  <2> QED BY <1>c, <2>1
<1>32. CASE AnswerLost
  <2>1. tasks' = tasks /\ at'["run"] = at["run"]
    BY <1>a, <1>32 DEF AnswerLost
  <2> QED BY <1>c, <2>1
<1>33. CASE ServerRefusesUnrun
  <2>1. tasks' = tasks /\ at'["run"] = at["run"]
    BY <1>a, <1>33 DEF ServerRefusesUnrun
  <2> QED BY <1>c, <2>1
<1>34. CASE ServerForgets
  <2>1. tasks' = tasks /\ at'["run"] = at["run"]
    BY <1>a, <1>34 DEF ServerForgets
  <2> QED BY <1>c, <2>1
<1>35. CASE OperatorDrains
  <2>1. tasks' = tasks /\ at'["run"] = at["run"]
    BY <1>a, <1>35 DEF OperatorDrains
  <2> QED BY <1>c, <2>1
<1>36. ASSUME NEW c \in Chains, NoticeAnswered(c)
      PROVE  TasksInv'
  <2>1. tasks' = tasks /\ (at'["run"] = at["run"] \/ at'["run"] # "polling")
    BY <1>a, <1>36 DEF NoticeAnswered, NoticeOver, DrainedWhere, Goto
  <2> QED BY <1>b, <1>c, <2>1
<1>37. ASSUME NEW c \in Chains, NoticeAborted(c)
      PROVE  TasksInv'
  <2>1. tasks' = tasks /\ (at'["run"] = at["run"] \/ at'["run"] # "polling")
    BY <1>a, <1>37 DEF NoticeAborted, NoticeOver, DrainedWhere, Goto
  <2> QED BY <1>b, <1>c, <2>1
<1>38. ASSUME NEW c \in Chains, NoticeLost(c)
      PROVE  TasksInv'
  <2>1. tasks' = tasks /\ (at'["run"] = at["run"] \/ at'["run"] # "polling")
    BY <1>a, <1>38 DEF NoticeLost, NoticeOver, DrainedWhere, Goto
  <2> QED BY <1>b, <1>c, <2>1
<1>39. ASSUME NEW c \in Chains, NoticeRedialOver(c)
      PROVE  TasksInv'
  <2>1. tasks' = tasks /\ (at'["run"] = at["run"] \/ at'["run"] # "polling")
    BY <1>a, <1>39 DEF NoticeRedialOver, NoticeOver, DrainedWhere, Goto
  <2> QED BY <1>b, <1>c, <2>1
<1>40. ASSUME NEW c \in Chains, Timeout(c)
      PROVE  TasksInv'
  <2>1. tasks' = tasks /\ at'["run"] = at["run"]
    BY <1>a, <1>40 DEF Timeout
  <2> QED BY <1>c, <2>1
<1>41. ASSUME NEW c \in Chains, Resend(c)
      PROVE  TasksInv'
  <2>1. tasks' = tasks /\ at'["run"] = at["run"]
    BY <1>a, <1>41 DEF Resend
  <2> QED BY <1>c, <2>1
<1>42. CASE ServerReadsLate
  <2>1. tasks' = tasks /\ at'["run"] = at["run"]
    BY <1>42 DEF ServerReadsLate
  <2> QED BY <1>c, <2>1
<1> QED BY <1>1, <1>2, <1>3, <1>4, <1>5, <1>6, <1>7, <1>8, <1>9, <1>10, <1>11, <1>12, <1>13, <1>14,
          <1>15, <1>16, <1>17, <1>18, <1>19, <1>20, <1>21, <1>22, <1>23, <1>24, <1>25, <1>26,
          <1>27, <1>28, <1>29, <1>30, <1>31, <1>32, <1>33, <1>34, <1>35, <1>36, <1>37, <1>38,
          <1>39, <1>40, <1>41, <1>42
     DEF Next, RunStep, NoticeStep, BeatStep, Caller, Network, Server

-----------------------------------------------------------------------------
(* What a step does to the chains and the wire.                            *)

\* A step adds no registration behind an awaited deregister, but one resent.
WireSound ==
  /\ Ordered(wire) => Ordered(wire')
  /\ NoneRegisters(wire) /\ at["run"] = "deregister" => NoneRegisters(wire')

LEMMA WireSame ==
  ASSUME wire' = wire \/ wire' = <<>>
  PROVE  WireSound
<1>1. CASE wire' = wire
  BY <1>1 DEF WireSound
<1>2. CASE wire' = <<>>
  BY <1>2, EmptyWithin DEF WireSound
<1> QED BY <1>1, <1>2

\* Of a chain that moves on, or sends its notice.
LEMMA GotoStep ==
  ASSUME MailInv, NEW c \in Chains, Free(c), NEW where \in States, Goto(c, where), UNCHANGED <<wire, backoff>>
  PROVE  MailInv' /\ WireSound
BY GotoMail, WireSame

LEMMA AskStep ==
  ASSUME MailInv, NEW c \in Chains, Free(c), NEW op \in Asking, Ask(c, op), UNCHANGED backoff,
         op = "register" => at["run"] # "deregister" /\ at'["run"] # "deregister"
  PROVE  MailInv' /\ WireSound
BY AskMail DEF WireSound

LEMMA NoticeStepSound ==
  ASSUME MailInv, NEW c \in Chains, Free(c), UNCHANGED backoff,
         \/ \E due \in BOOLEAN : SendNotice(c, due)
         \/ NoticeOver(c) /\ UNCHANGED wire
  PROVE  MailInv' /\ WireSound
<1>1. ASSUME NEW due \in BOOLEAN, SendNotice(c, due)
      PROVE  MailInv' /\ WireSound
  BY <1>1, NoticeMail DEF WireSound
<1>2. CASE NoticeOver(c) /\ UNCHANGED wire
  <2> DEFINE where == IF c = "run" THEN DrainedWhere ELSE "none"
  <2>1. where \in States
    BY DEF DrainedWhere, States, RunStates
  <2>2. Goto(c, where)
    BY <1>2 DEF NoticeOver
  <2> QED BY <1>2, <2>1, <2>2, GotoStep
<1> QED BY <1>1, <1>2

LEMMA LetGoStep ==
  ASSUME MailInv, LetGo, UNCHANGED <<at, backoff>>
  PROVE  MailInv' /\ WireSound
<1>1. wire' = <<>> /\ reply' = Lost
  BY DEF LetGo, DropConnection, Lost
<1> QED BY <1>1, MailLetGo, WireSame DEF MailInv

LEMMA EndStep ==
  ASSUME EndRun
  PROVE  MailInv' /\ WireSound
<1>1. wire' = <<>>
  BY DEF EndRun, DropConnection
<1> QED BY <1>1, EndMail, WireSame

LEMMA DropStep ==
  ASSUME MailInv, NEW c \in Chains, Free(c), NEW where \in States,
         at' = [at EXCEPT ![c] = where], DropFor(c), UNCHANGED backoff
  PROVE  MailInv' /\ WireSound
<1>1. wire' = <<>>
  BY DEF DropFor, DropConnection
<1> QED BY <1>1, DropMail, WireSame

\* The loop polls, or waits for a slot.
LEMMA PollStep ==
  ASSUME MailInv, at["run"] = "looping", UNCHANGED <<wire, backoff>>,
         at' = [at EXCEPT !["run"] = IF MayPoll THEN "polling" ELSE "pausing"],
         reply' = [reply EXCEPT !["run"] = IF MayPoll /\ ~held THEN "lost" ELSE "none"]
  PROVE  MailInv' /\ WireSound
<1> DEFINE where == IF MayPoll THEN "polling" ELSE "pausing"
           a2 == [at EXCEPT !["run"] = where]
           rep2 == [reply EXCEPT !["run"] = "none"]
<1>1. where \in States /\ "run" \in Chains /\ Free("run") /\ "lost" \in Replies
  BY DEF States, RunStates, Chains, Free, Asking, Replies
<1>2. NoneOf("run", wire) /\ "run" \notin backoff
  BY <1>1, FreeHasNone
<1>3. Mail(a2, rep2, wire, backoff)
  BY <1>1, <1>2, MailMoved DEF MailInv
<1>4. CASE reply' = rep2
  BY <1>3, <1>4, WireSame DEF MailInv
<1>5. CASE MayPoll /\ ~held
  <2>1. reply' = [rep2 EXCEPT !["run"] = "lost"]
    BY <1>5 DEF MailInv, Mail
  <2>2. a2["run"] = "polling"
    BY <1>1, <1>5 DEF MailInv, Mail
  <2> HIDE DEF a2, rep2
  <2>3. Mail(a2, [rep2 EXCEPT !["run"] = "lost"], wire, backoff)
    BY <1>1, <1>2, <1>3, <2>2, MailReplied
  <2> QED BY <2>1, <2>3, WireSame DEF MailInv, a2
<1> QED BY <1>4, <1>5

LEMMA UnhealthyStep ==
  ASSUME MailInv, PolledUnhealthy
  PROVE  MailInv' /\ WireSound
<1> DEFINE a2 == [at EXCEPT !["run"] = "unhealthy"]
           a3 == [a2 EXCEPT !["beat"] = "heartbeat"]
           m == [from |-> "beat", op |-> "heartbeat", again |-> FALSE]
<1> USE DEF flags, client, server
<1>1. /\ at["run"] = "polling" /\ at["beat"] = "none" /\ reply["run"] = "none"
      /\ reply' = reply /\ backoff' = backoff
  BY DEF PolledUnhealthy, PollAwaited
<1>2. "run" \in Chains /\ "beat" \in Chains /\ Free("run") /\ Free("beat")
  BY <1>1 DEF Chains, Free, Asking
<1>3. reply["beat"] = "none"
  BY <1>1, <1>2 DEF MailInv, Mail, Asking
<1>4. NoneOf("run", wire) /\ "run" \notin backoff /\ NoneOf("beat", wire) /\ "beat" \notin backoff
  BY <1>2, FreeHasNone
<1>5. [reply EXCEPT !["run"] = "none"] = reply /\ [reply EXCEPT !["beat"] = "none"] = reply
  BY <1>1, <1>3 DEF MailInv, Mail
<1>6. "unhealthy" \in States /\ "heartbeat" \in States /\ m \in Message /\ m.from = "beat" /\ m.op = "heartbeat"
  BY DEF States, RunStates, Asking, Message, Chains
<1>7. Mail(a2, reply, wire, backoff)
  BY <1>2, <1>4, <1>5, <1>6, MailMoved DEF MailInv
<1> HIDE DEF a2
<1>8. Mail(a3, reply, wire, backoff)
  BY <1>2, <1>4, <1>5, <1>6, <1>7, MailMoved
<1>9. a3["beat"] = "heartbeat"
  BY <1>2, <1>7 DEF Mail
<1>10. at' = a3 /\ wire' = Append(wire, m)
  <2>1. at' = [at EXCEPT !["run"] = "unhealthy", !["beat"] = "heartbeat"] /\ wire' = Append(wire, m)
    BY DEF PolledUnhealthy
  <2> QED BY <2>1 DEF a2
<1> HIDE DEF a3, m
<1>11. /\ Mail(a3, reply, Append(wire, m), backoff)
       /\ NoneRegisters(wire) => NoneRegisters(Append(wire, m))
  BY <1>3, <1>4, <1>6, <1>8, <1>9, MailAppend
<1>12. Ordered(wire) => Ordered(Append(wire, m))
  BY <1>3, <1>4, <1>6, <1>8, <1>9, MailAppend
<1> QED BY <1>1, <1>10, <1>11, <1>12 DEF MailInv, WireSound

\* A request is given up on: its chain moves on, or is told it is lost.
LEMMA OrphanedStep ==
  ASSUME MailInv, NEW c \in Chains, wire' = Orphaned(c)
  PROVE  /\ WireSound
         /\ Mail(at, reply, wire', backoff \ {c}) /\ NoneOf(c, wire')
         /\ Mail(at, reply, wire', backoff)
<1>1. Within(wire', wire) /\ NoneOf(c, wire')
  BY OrphanedWithin
<1>2. Mail(at, reply, wire', backoff)
  BY <1>1, WithinMail DEF MailInv
<1>3. WireSound
  BY <1>1, WithinMail DEF MailInv, WireSound
<1> QED BY <1>1, <1>2, <1>3, MailBackoff

LEMMA AbortedStep ==
  ASSUME MailInv, NEW c \in Chains, NoticeAborted(c)
  PROVE  MailInv' /\ WireSound
<1> DEFINE where == IF c = "run" THEN DrainedWhere ELSE "none"
<1>1. where \in States
  BY DEF DrainedWhere, States, RunStates
<1>2. at' = [at EXCEPT ![c] = where] /\ reply' = [reply EXCEPT ![c] = "none"]
  BY DEF NoticeAborted, NoticeOver, Goto
<1>3. wire' = Orphaned(c) /\ backoff' = backoff \ {c}
  BY DEF NoticeAborted
<1> HIDE DEF where
<1>4. WireSound /\ Mail(at, reply, wire', backoff \ {c}) /\ NoneOf(c, wire')
  BY <1>3, OrphanedStep
<1>5. Mail(at', reply', wire', backoff \ {c})
  BY <1>1, <1>2, <1>4, MailMoved
<1> QED BY <1>3, <1>4, <1>5 DEF MailInv

LEMMA TimeoutStep ==
  ASSUME MailInv, NEW c \in Chains, Timeout(c)
  PROVE  MailInv' /\ WireSound
<1> USE DEF flags, client, server
<1>1. /\ wire' = Orphaned(c) /\ at' = at /\ backoff' = backoff
      /\ reply' = [reply EXCEPT ![c] = "lost"] /\ c \notin backoff /\ c \in Awaiting
  BY DEF Timeout
<1>2. at[c] \in Asking \cup {"polling"} /\ "lost" \in Replies
  BY <1>1 DEF Awaiting, Replies
<1>3. WireSound /\ Mail(at, reply, wire', backoff) /\ NoneOf(c, wire')
  BY <1>1, OrphanedStep
<1>4. Mail(at, [reply EXCEPT ![c] = "lost"], wire', backoff)
  BY <1>1, <1>2, <1>3, MailReplied
<1> QED BY <1>1, <1>3, <1>4 DEF MailInv

\* The oldest request is read: its chain is answered, or not.
LEMMA ReadStep ==
  ASSUME MailInv, wire # <<>>, wire' = Tail(wire), UNCHANGED <<at, backoff>>, NEW answer \in Replies,
         reply' = IF Head(wire).from = "nobody" THEN reply ELSE [reply EXCEPT ![Head(wire).from] = answer]
  PROVE  MailInv' /\ WireSound
<1>1. Within(wire', wire)
  BY HeadRead
<1>2. Mail(at, reply, wire', backoff) /\ WireSound
  BY <1>1, WithinMail DEF MailInv, WireSound
<1>3. CASE Head(wire).from = "nobody"
  BY <1>2, <1>3 DEF MailInv
<1>4. CASE Head(wire).from # "nobody"
  <2> DEFINE c == Head(wire).from
  <2>1. c \in Chains /\ NoneOf(c, wire') /\ at[c] \in Asking /\ c \notin backoff
    <3>1. Head(wire).op \in Asking
      BY HeadRead DEF Message
    <3> QED BY <1>4, <3>1, HeadRead
  <2>2. reply' = [reply EXCEPT ![c] = answer]
    BY <1>4
  <2> HIDE DEF c
  <2>3. Mail(at, [reply EXCEPT ![c] = answer], wire', backoff)
    BY <1>2, <2>1, MailReplied
  <2> QED BY <1>2, <2>2, <2>3 DEF MailInv
<1> QED BY <1>3, <1>4

LEMMA UnrunStep ==
  ASSUME MailInv, ServerRefusesUnrun
  PROVE  MailInv' /\ WireSound
<1> DEFINE c == Head(wire).from
<1> USE DEF flags, client, server
<1>1. /\ wire # <<>> /\ wire' = Tail(wire) /\ at' = at /\ reply' = reply /\ backoff' = backoff \cup {c}
      /\ c # "nobody" /\ Head(wire).op \in Resent
  BY DEF ServerRefusesUnrun
<1>2. Within(wire', wire)
  BY <1>1, HeadRead
<1>3. Mail(at, reply, wire', backoff) /\ WireSound
  BY <1>2, WithinMail DEF MailInv, WireSound
<1>4. c \in Chains /\ NoneOf(c, wire') /\ at[c] = Head(wire).op /\ reply[c] = "none" /\ Head(wire).op \in Asking
  BY <1>1, HeadRead DEF Message
<1> HIDE DEF c
<1>5. Mail(at, reply, wire', backoff \cup {c})
  BY <1>1, <1>3, <1>4, MailBackoff
<1> QED BY <1>1, <1>3, <1>5 DEF MailInv

LEMMA ResendStep ==
  ASSUME MailInv, NEW c \in Chains, Resend(c)
  PROVE  MailInv' /\ WireSound
<1> DEFINE m == [from |-> c, op |-> at[c], again |-> TRUE]
<1> USE DEF flags, client, server
<1>1. c \in backoff /\ backoff' = backoff \ {c} /\ at' = at
  BY DEF Resend
<1>2. at[c] \in Asking /\ at[c] \in Resent /\ reply[c] = "none" /\ NoneOf(c, wire)
  <2>1. c # "nobody"
    BY DEF Chains
  <2> QED BY <1>1, <2>1 DEF MailInv, Mail, NoneOf
<1>3. Mail(at, reply, wire, backoff \ {c})
  BY MailBackoff DEF MailInv
<1>4. CASE held
  <2>1. wire' = Append(wire, m) /\ reply' = reply
    BY <1>4 DEF Resend
  <2>2. m \in Message /\ m.from = c /\ m.op = at[c] /\ m.again
    BY <1>2 DEF Message
  <2> HIDE DEF m
  <2>3. /\ Mail(at, reply, Append(wire, m), backoff \ {c})
        /\ Ordered(wire) => Ordered(Append(wire, m))
        /\ NoneRegisters(wire) => NoneRegisters(Append(wire, m))
    BY <1>2, <1>3, <2>2, MailAppend
  <2>4. WireSound
    BY <2>1, <2>3 DEF WireSound
  <2> QED BY <1>1, <2>1, <2>3, <2>4 DEF MailInv
<1>5. CASE ~held
  <2>1. wire' = wire /\ reply' = [reply EXCEPT ![c] = "lost"]
    BY <1>5 DEF Resend
  <2>2. "lost" \in Replies
    BY DEF Replies
  <2>3. Mail(at, [reply EXCEPT ![c] = "lost"], wire, backoff \ {c})
    BY <1>2, <1>3, <2>2, MailReplied
  <2> QED BY <1>1, <2>1, <2>3, WireSame DEF MailInv
<1> QED BY <1>4, <1>5

LEMMA MailStep ==
  ASSUME FlagsOK, MailInv, Next
  PROVE  MailInv' /\ WireSound
<1>a. /\ at \in [Chains -> States] /\ "run" \in Chains /\ "beat" \in Chains /\ "call" \in Chains
      /\ {"actions", "register", "deregister", "heartbeat"} \subseteq Asking
  BY DEF MailInv, Mail, Chains, Asking
<1>b. {"looping", "finishing", "haltWait", "pausing", "connecting", "redialing", "noticeRedial", "none"} \subseteq States
  BY DEF States, RunStates
<1>c. noticeDue \in BOOLEAN /\ registry \in {"none", "active", "draining"}
  BY DEF FlagsOK
<1> USE DEF flags, client, server
<1>1. CASE Connected
  <2>1. CASE EndRun
    BY <2>1, EndStep
  <2>2. CASE Ask("run", "actions") /\ UNCHANGED backoff
    <3>1. Free("run")
      BY <1>1 DEF Connected, Free, Asking
    <3> QED BY <1>a, <2>2, <3>1, AskStep
  <2> QED BY <1>1, <2>1, <2>2 DEF Connected
<1>2. CASE ConnectFailed
  <2>1. EndRun
    BY <1>2 DEF ConnectFailed
  <2> QED BY <2>1, EndStep
<1>3. CASE ActionsRegistered
  <2>1. Free("run") /\ UNCHANGED backoff /\ Ask("run", "register") /\ at["run"] # "deregister" /\ at'["run"] # "deregister"
    BY <1>a, <1>3 DEF ActionsRegistered, Free, Asking, Ask
  <2> QED BY <1>a, <2>1, AskStep
<1>4. CASE WorkerRegistered
  <2>1. Free("run") /\ UNCHANGED <<wire, backoff>>
    BY <1>4 DEF WorkerRegistered, Free, Asking
  <2>2. \E where \in {"looping"} : Goto("run", where)
    BY <1>4 DEF WorkerRegistered
  <2> QED BY <1>a, <1>b, <2>1, <2>2, GotoStep
<1>5. CASE RegisterFailed
  <2>1. Free("run") /\ UNCHANGED <<wire, backoff>>
    BY <1>5 DEF RegisterFailed, Free, Asking
  <2>2. \E where \in {"looping", "finishing", "haltWait"} : Goto("run", where)
    BY <1>5 DEF RegisterFailed
  <2> QED BY <1>a, <1>b, <2>1, <2>2, GotoStep
<1>6. CASE HaltWaitOver
  <2>1. Free("run") /\ UNCHANGED backoff
    BY <1>6 DEF HaltWaitOver, Free, Asking
  <2>2. CASE Goto("run", "finishing") /\ UNCHANGED wire
    BY <1>a, <1>b, <2>1, <2>2, GotoStep
  <2>3. CASE Ask("run", "actions")
    BY <1>a, <2>1, <2>3, AskStep
  <2> QED BY <1>6, <2>2, <2>3 DEF HaltWaitOver
<1>7. CASE Loop
  <2>1. Free("run") /\ UNCHANGED backoff /\ at["run"] = "looping"
    BY <1>7 DEF Loop, Free, Asking
  <2>2. CASE SendNotice("run", noticeDue) \/ (NoticeOver("run") /\ UNCHANGED wire)
    BY <1>a, <1>c, <2>1, <2>2, NoticeStepSound
  <2>3. CASE Goto("run", "finishing") /\ UNCHANGED wire
    BY <1>a, <1>b, <2>1, <2>3, GotoStep
  <2>4. CASE /\ at' = [at EXCEPT !["run"] = IF MayPoll THEN "polling" ELSE "pausing"]
             /\ reply' = [reply EXCEPT !["run"] = IF MayPoll /\ ~held THEN "lost" ELSE "none"]
             /\ UNCHANGED wire
    BY <2>1, <2>4, PollStep
  <2> QED BY <1>7, <2>2, <2>3, <2>4 DEF Loop
<1>8. CASE PolledTask
  <2>1. Free("run") /\ UNCHANGED <<wire, backoff>>
    BY <1>8 DEF PolledTask, Free, Asking, PollAwaited
  <2>2. \E where \in {"looping"} : Goto("run", where)
    BY <1>8 DEF PolledTask
  <2> QED BY <1>a, <1>b, <2>1, <2>2, GotoStep
<1>9. CASE PolledNothing
  <2>1. Free("run") /\ UNCHANGED <<wire, backoff>>
    BY <1>9 DEF PolledNothing, Free, Asking, PollAwaited
  <2>2. \E where \in {"looping", "pausing"} : Goto("run", where)
    BY <1>9 DEF PolledNothing
  <2> QED BY <1>a, <1>b, <2>1, <2>2, GotoStep
<1>10. CASE PolledDraining
  <2>1. Free("run") /\ UNCHANGED <<wire, backoff>>
    BY <1>10 DEF PolledDraining, Free, Asking, PollAwaited
  <2>2. \E where \in {"looping"} : Goto("run", where)
    BY <1>10 DEF PolledDraining
  <2> QED BY <1>a, <1>b, <2>1, <2>2, GotoStep
<1>11. CASE PolledUnhealthy
  BY <1>11, UnhealthyStep
<1>12. CASE HeartbeatAwaited
  <2>1. Free("run") /\ UNCHANGED <<wire, backoff>>
    BY <1>12 DEF HeartbeatAwaited, Free, Asking
  <2>2. \E where \in {"pausing"} : Goto("run", where)
    BY <1>12 DEF HeartbeatAwaited
  <2> QED BY <1>a, <1>b, <2>1, <2>2, GotoStep
<1>13. CASE PolledPending
  <2>1. Free("run") /\ UNCHANGED <<wire, backoff>>
    BY <1>13 DEF PolledPending, Free, Asking, PollAwaited
  <2>2. \E where \in {"looping", "finishing"} : Goto("run", where)
    BY <1>13 DEF PolledPending
  <2> QED BY <1>a, <1>b, <2>1, <2>2, GotoStep
<1>14. CASE PauseOver
  <2>1. Free("run") /\ UNCHANGED <<wire, backoff>>
    BY <1>14 DEF PauseOver, Free, Asking
  <2>2. \E where \in {"looping"} : Goto("run", where)
    BY <1>14 DEF PauseOver
  <2> QED BY <1>a, <1>b, <2>1, <2>2, GotoStep
<1>15. CASE PollLost
  <2>1. Free("run") /\ UNCHANGED backoff
    BY <1>15 DEF PollLost, Free, Asking
  <2>2. CASE Goto("run", "looping") /\ UNCHANGED <<held, wire>>
    BY <1>a, <1>b, <2>1, <2>2, GotoStep
  <2>3. CASE at' = [at EXCEPT !["run"] = "redialing"] /\ DropFor("run")
    BY <1>a, <1>b, <2>1, <2>3, DropStep
  <2>4. CASE /\ at' = [at EXCEPT !["run"] = "redialing"]
             /\ reply' = [reply EXCEPT !["run"] = "none"] /\ UNCHANGED <<held, wire>>
    <3>1. Goto("run", "redialing")
      BY <2>4 DEF Goto
    <3> QED BY <1>a, <1>b, <2>1, <2>4, <3>1, GotoStep
  <2> QED BY <1>15, <2>2, <2>3, <2>4 DEF PollLost
<1>16. CASE Redialed
  <2>1. Free("run") /\ UNCHANGED backoff /\ Ask("run", "actions")
    BY <1>a, <1>16 DEF Redialed, Free, Asking
  <2> QED BY <1>a, <2>1, AskStep
<1>17. CASE RedialGivenUp
  <2>1. Free("run") /\ UNCHANGED <<wire, backoff>>
    BY <1>17 DEF RedialGivenUp, Free, Asking
  <2>2. \E where \in {"looping"} : Goto("run", where)
    BY <1>17 DEF RedialGivenUp
  <2> QED BY <1>a, <1>b, <2>1, <2>2, GotoStep
<1>18. CASE Tick
  <2>1. Free("run") /\ UNCHANGED backoff
    BY <1>18 DEF Tick, Free, Asking
  <2>2. SendNotice("run", noticeDue) \/ (NoticeOver("run") /\ UNCHANGED wire)
    BY <1>18 DEF Tick
  <2> QED BY <1>a, <1>c, <2>1, <2>2, NoticeStepSound
<1>19. CASE TasksFinished
  <2>1. Free("run") /\ UNCHANGED backoff /\ Ask("run", "deregister")
    BY <1>a, <1>19 DEF TasksFinished, Free, Asking
  <2> QED BY <1>a, <2>1, AskStep
<1>20. CASE Deregistered
  <2>1. EndRun
    BY <1>20 DEF Deregistered
  <2> QED BY <2>1, EndStep
<1>21. CASE Start
  <2>1. Free("run") /\ UNCHANGED <<wire, backoff>>
    BY <1>21 DEF Start, Free, Asking
  <2>2. \E where \in {"connecting"} : Goto("run", where)
    BY <1>21 DEF Start
  <2> QED BY <1>a, <1>b, <2>1, <2>2, GotoStep
<1>22. CASE Stop
  <2>1. UNCHANGED <<at, reply, wire, backoff>>
    BY <1>22 DEF Stop
  <2> QED BY <2>1, WireSame DEF MailInv
<1>23. CASE Close
  <2>1. LetGo /\ UNCHANGED <<at, backoff>>
    BY <1>23 DEF Close
  <2> QED BY <2>1, LetGoStep
<1>24. CASE Drain
  <2>1. at["call"] = "none" /\ UNCHANGED backoff
    BY <1>24 DEF Drain
  <2>2. CASE SendNotice("call", noticeDue \/ ~draining)
    <3>1. Free("call") /\ (noticeDue \/ ~draining) \in BOOLEAN
      BY <2>1 DEF Free, Asking
    <3> QED BY <1>a, <2>1, <2>2, <3>1, NoticeStepSound
  <2>3. CASE UNCHANGED <<at, wire, reply>>
    BY <2>1, <2>3, WireSame DEF MailInv
  <2> QED BY <1>24, <2>2, <2>3 DEF Drain
<1>25. CASE TaskEnds
  <2>1. UNCHANGED <<at, reply, wire, backoff>>
    BY <1>25 DEF TaskEnds
  <2> QED BY <2>1, WireSame DEF MailInv
<1>26. CASE Beat
  <2>1. Free("beat") /\ UNCHANGED backoff /\ Ask("beat", "heartbeat")
    BY <1>a, <1>26 DEF Beat, Free, Asking
  <2> QED BY <1>a, <2>1, AskStep
<1>27. CASE HeartbeatAnswered
  <2>1. Free("beat") /\ UNCHANGED backoff
    BY <1>27 DEF HeartbeatAnswered, Free
  <2>2. CASE Running /\ Ask("beat", "register")
    <3>1. at["run"] # "deregister" /\ at'["run"] # "deregister"
      BY <1>a, <2>2 DEF Running, Ask
    <3> QED BY <1>a, <2>1, <2>2, <3>1, AskStep
  <2>3. CASE Goto("beat", "none") /\ UNCHANGED wire
    BY <1>a, <1>b, <2>1, <2>3, GotoStep
  <2> QED BY <1>27, <2>2, <2>3 DEF HeartbeatAnswered
<1>28. CASE HeartbeatRegistered
  <2>1. Free("beat") /\ UNCHANGED backoff
    BY <1>28 DEF HeartbeatRegistered, Free
  <2>2. CASE SendNotice("beat", TRUE)
    BY <1>a, <2>1, <2>2, NoticeStepSound
  <2>3. CASE Goto("beat", "none") /\ UNCHANGED wire
    BY <1>a, <1>b, <2>1, <2>3, GotoStep
  <2> QED BY <1>28, <2>2, <2>3 DEF HeartbeatRegistered
<1>29. CASE Dial
  <2>1. UNCHANGED <<at, reply, wire, backoff>>
    BY <1>29 DEF Dial
  <2> QED BY <2>1, WireSame DEF MailInv
<1>30. CASE ConnectionEnds
  <2>1. LetGo /\ UNCHANGED <<at, backoff>>
    BY <1>30 DEF ConnectionEnds
  <2> QED BY <2>1, LetGoStep
<1>31. CASE ServerReads
  <2>1. PICK answer \in Answers(Head(wire).op) :
          reply' = IF Head(wire).from = "nobody" THEN reply ELSE [reply EXCEPT ![Head(wire).from] = answer]
    BY <1>31 DEF ServerReads
  <2>2. answer \in Replies
    BY <1>c, <2>1 DEF Answers, Replies
  <2>3. wire # <<>> /\ wire' = Tail(wire) /\ UNCHANGED <<at, backoff>>
    BY <1>31 DEF ServerReads
  <2> QED BY <2>1, <2>2, <2>3, ReadStep
<1>32. CASE AnswerLost
  <2>1. /\ wire # <<>> /\ wire' = Tail(wire) /\ UNCHANGED <<at, backoff>>
        /\ reply' = IF Head(wire).from = "nobody" THEN reply ELSE [reply EXCEPT ![Head(wire).from] = "lost"]
    BY <1>32 DEF AnswerLost
  <2>2. "lost" \in Replies
    BY DEF Replies
  <2> QED BY <2>1, <2>2, ReadStep
<1>33. CASE ServerRefusesUnrun
  BY <1>33, UnrunStep
<1>34. CASE ServerForgets
  <2>1. UNCHANGED <<at, reply, wire, backoff>>
    BY <1>34 DEF ServerForgets
  <2> QED BY <2>1, WireSame DEF MailInv
<1>35. CASE OperatorDrains
  <2>1. UNCHANGED <<at, reply, wire, backoff>>
    BY <1>35 DEF OperatorDrains
  <2> QED BY <2>1, WireSame DEF MailInv
<1>36. ASSUME NEW c \in Chains, NoticeAnswered(c)
      PROVE  MailInv' /\ WireSound
  <2>1. Free(c) /\ UNCHANGED backoff /\ NoticeOver(c) /\ UNCHANGED wire
    BY <1>36 DEF NoticeAnswered, Free
  <2> QED BY <2>1, NoticeStepSound
<1>37. ASSUME NEW c \in Chains, NoticeAborted(c)
      PROVE  MailInv' /\ WireSound
  BY <1>37, AbortedStep
<1>38. ASSUME NEW c \in Chains, NoticeLost(c)
      PROVE  MailInv' /\ WireSound
  <2>1. Free(c) /\ UNCHANGED backoff
    BY <1>38 DEF NoticeLost, Free
  <2>2. CASE NoticeOver(c) /\ UNCHANGED wire
    BY <2>1, <2>2, NoticeStepSound
  <2>3. CASE at' = [at EXCEPT ![c] = "noticeRedial"] /\ DropFor(c)
    BY <1>b, <2>1, <2>3, DropStep
  <2>4. CASE /\ at' = [at EXCEPT ![c] = "noticeRedial"]
             /\ reply' = [reply EXCEPT ![c] = "none"] /\ UNCHANGED wire
    <3>1. Goto(c, "noticeRedial")
      BY <2>4 DEF Goto
    <3> QED BY <1>b, <2>1, <2>4, <3>1, GotoStep
  <2> QED BY <1>38, <2>2, <2>3, <2>4 DEF NoticeLost
<1>39. ASSUME NEW c \in Chains, NoticeRedialOver(c)
      PROVE  MailInv' /\ WireSound
  <2>1. Free(c) /\ UNCHANGED backoff /\ NoticeOver(c) /\ UNCHANGED wire
    BY <1>39 DEF NoticeRedialOver, Free, Asking
  <2> QED BY <2>1, NoticeStepSound
<1>40. ASSUME NEW c \in Chains, Timeout(c)
      PROVE  MailInv' /\ WireSound
  BY <1>40, TimeoutStep
<1>41. ASSUME NEW c \in Chains, Resend(c)
      PROVE  MailInv' /\ WireSound
  BY <1>41, ResendStep
<1>42. CASE ServerReadsLate
  <2>1. UNCHANGED <<at, reply, wire, backoff>>
    BY <1>42 DEF ServerReadsLate
  <2> QED BY <2>1, WireSame DEF MailInv
<1> QED BY <1>1, <1>2, <1>3, <1>4, <1>5, <1>6, <1>7, <1>8, <1>9, <1>10, <1>11, <1>12, <1>13, <1>14,
          <1>15, <1>16, <1>17, <1>18, <1>19, <1>20, <1>21, <1>22, <1>23, <1>24, <1>25, <1>26,
          <1>27, <1>28, <1>29, <1>30, <1>31, <1>32, <1>33, <1>34, <1>35, <1>36, <1>37, <1>38,
          <1>39, <1>40, <1>41, <1>42
     DEF Next, RunStep, NoticeStep, BeatStep, Caller, Network, Server

-----------------------------------------------------------------------------
(* What a step does to the end of the run.                                 *)

\* The run goes on, with no answer to its deregister that it did not have.
GoesOn ==
  /\ at["run"] # "idle" /\ at'["run"] # "idle"
  /\ at'["run"] = "deregister" /\ reply'["run"] = "ok" => at["run"] = "deregister" /\ reply["run"] = "ok"
  /\ parted' => parted

LEMMA GoesOnParted ==
  ASSUME PartedInv, WireSound, GoesOn
  PROVE  PartedInv'
BY DEF PartedInv, WireSound, GoesOn

\* No run goes on, or nothing of it is touched but its connection.
LEMMA RestsParted ==
  ASSUME PartedInv, WireSound, at' = at, parted' = parted,
         reply'["run"] = "ok" => reply["run"] = "ok", at["run"] = "idle" => wire' = <<>>
  PROVE  PartedInv'
BY DEF PartedInv, WireSound

LEMMA EndParted ==
  ASSUME EndRun
  PROVE  PartedInv'
<1>1. NoChain["run"] = "idle"
  BY DEF NoChain
<1> QED BY <1>1, EmptyWithin DEF EndRun, DropConnection, PartedInv

\* What the server makes of the request it reads.
LEMMA ReadParted ==
  ASSUME MailInv, PartedInv, WireSound, wire # <<>>, wire' = Tail(wire), at' = at, parted' = parted,
         reply'["run"] = "ok" => reply["run"] = "ok" \/ Head(wire).from = "run"
  PROVE  PartedInv'
<1>1. at["run"] # "idle"
  BY DEF PartedInv
<1>2. ASSUME at'["run"] = "deregister", reply'["run"] = "ok"
      PROVE  NoneRegisters(wire')
  <2>1. CASE reply["run"] = "ok"
    BY <1>2, <2>1 DEF PartedInv, WireSound
  <2>2. CASE Head(wire).from = "run"
    <3>1. Head(wire).op = "deregister"
      BY <1>2, <2>2, HeadRead
    <3> QED BY <2>2, <3>1, HeadRead DEF PartedInv
  <2> QED BY <1>2, <2>1, <2>2
<1>3. ~parted'
  BY <1>1 DEF PartedInv
<1> QED BY <1>1, <1>2, <1>3 DEF PartedInv, WireSound

LEMMA PartedStep ==
  ASSUME FlagsOK, MailInv, PartedInv, Next
  PROVE  PartedInv'
<1>a. /\ at \in [Chains -> States] /\ reply \in [Chains -> Replies]
      /\ "run" \in Chains /\ "beat" \in Chains /\ "call" \in Chains
  BY DEF MailInv, Mail, Chains
<1>e. \A c \in Chains : NoChain[c] \in {"idle", "none"}
  BY DEF NoChain, Chains
<1>b. \A c \in Chains : at[c] \in {"drain", "noticeRedial", "heartbeat", "register"} => at["run"] # "idle"
  BY <1>e DEF PartedInv
<1>c. WireSound
  BY MailStep
<1>d. at["run"] = "idle" => wire = <<>>
  BY DEF PartedInv
<1> USE DEF flags, client, server
<1>1. CASE Connected
  <2>1. CASE EndRun
    BY <2>1, EndParted
  <2>2. CASE Ask("run", "actions")
    <3>1. GoesOn
      BY <1>a, <1>1, <2>2 DEF GoesOn, Connected, Ask
    <3> QED BY <1>c, <3>1, GoesOnParted
  <2> QED BY <1>1, <2>1, <2>2 DEF Connected
<1>2. CASE ConnectFailed
  <2>1. EndRun
    BY <1>2 DEF ConnectFailed
  <2> QED BY <2>1, EndParted
<1>3. CASE ActionsRegistered
  <2>1. GoesOn
    BY <1>a, <1>b, <1>3 DEF GoesOn, ActionsRegistered, Ask
  <2> QED BY <1>c, <2>1, GoesOnParted
<1>4. CASE WorkerRegistered
  <2>1. GoesOn
    BY <1>a, <1>b, <1>4 DEF GoesOn, WorkerRegistered, Goto, PollAwaited
  <2> QED BY <1>c, <2>1, GoesOnParted
<1>5. CASE RegisterFailed
  <2>1. GoesOn
    BY <1>a, <1>b, <1>5 DEF GoesOn, RegisterFailed, Goto, PollAwaited
  <2> QED BY <1>c, <2>1, GoesOnParted
<1>6. CASE HaltWaitOver
  <2>1. GoesOn
    BY <1>a, <1>b, <1>6 DEF GoesOn, HaltWaitOver, Goto, Ask
  <2> QED BY <1>c, <2>1, GoesOnParted
<1>7. CASE Loop
  <2>1. GoesOn
    BY <1>a, <1>b, <1>7 DEF GoesOn, Loop, SendNotice, NoticeOver, DrainedWhere, Goto, Ask
  <2> QED BY <1>c, <2>1, GoesOnParted
<1>8. CASE PolledTask
  <2>1. GoesOn
    BY <1>a, <1>b, <1>8 DEF GoesOn, PolledTask, Goto, PollAwaited
  <2> QED BY <1>c, <2>1, GoesOnParted
<1>9. CASE PolledNothing
  <2>1. GoesOn
    BY <1>a, <1>b, <1>9 DEF GoesOn, PolledNothing, Goto, PollAwaited
  <2> QED BY <1>c, <2>1, GoesOnParted
<1>10. CASE PolledDraining
  <2>1. GoesOn
    BY <1>a, <1>b, <1>10 DEF GoesOn, PolledDraining, Goto, PollAwaited
  <2> QED BY <1>c, <2>1, GoesOnParted
<1>11. CASE PolledUnhealthy
  <2>1. GoesOn
    BY <1>a, <1>b, <1>11 DEF GoesOn, PolledUnhealthy, PollAwaited
  <2> QED BY <1>c, <2>1, GoesOnParted
<1>12. CASE HeartbeatAwaited
  <2>1. GoesOn
    BY <1>a, <1>b, <1>12 DEF GoesOn, HeartbeatAwaited, Goto, PollAwaited
  <2> QED BY <1>c, <2>1, GoesOnParted
<1>13. CASE PolledPending
  <2>1. GoesOn
    BY <1>a, <1>b, <1>13 DEF GoesOn, PolledPending, Goto, PollAwaited
  <2> QED BY <1>c, <2>1, GoesOnParted
<1>14. CASE PauseOver
  <2>1. GoesOn
    BY <1>a, <1>b, <1>14 DEF GoesOn, PauseOver, Goto, PollAwaited
  <2> QED BY <1>c, <2>1, GoesOnParted
<1>15. CASE PollLost
  <2>1. GoesOn
    BY <1>a, <1>b, <1>15 DEF GoesOn, PollLost, Goto, DropFor
  <2> QED BY <1>c, <2>1, GoesOnParted
<1>16. CASE Redialed
  <2>1. GoesOn
    BY <1>a, <1>b, <1>16 DEF GoesOn, Redialed, Ask
  <2> QED BY <1>c, <2>1, GoesOnParted
<1>17. CASE RedialGivenUp
  <2>1. GoesOn
    BY <1>a, <1>b, <1>17 DEF GoesOn, RedialGivenUp, Goto, PollAwaited
  <2> QED BY <1>c, <2>1, GoesOnParted
<1>18. CASE Tick
  <2>1. GoesOn
    BY <1>a, <1>b, <1>18 DEF GoesOn, Tick, SendNotice, NoticeOver, DrainedWhere, Goto, Ask
  <2> QED BY <1>c, <2>1, GoesOnParted
<1>19. CASE TasksFinished
  <2>1. GoesOn
    BY <1>a, <1>b, <1>19 DEF GoesOn, TasksFinished, Ask
  <2> QED BY <1>c, <2>1, GoesOnParted
<1>20. CASE Deregistered
  <2>1. EndRun
    BY <1>20 DEF Deregistered
  <2> QED BY <2>1, EndParted
<1>21. CASE Start
  <2>1. at'["run"] = "connecting" /\ ~parted' /\ wire' = wire
    BY <1>a, <1>21 DEF Start, Goto
  <2> QED BY <1>c, <2>1 DEF PartedInv, WireSound
<1>22. CASE Stop
  <2>1. /\ at' = at /\ parted' = parted
        /\ (reply'["run"] = "ok" => reply["run"] = "ok") /\ (at["run"] = "idle" => wire' = <<>>)
    BY <1>a, <1>d, <1>22 DEF Stop
  <2> QED BY <1>c, <2>1, RestsParted
<1>23. CASE Close
  <2>1. /\ at' = at /\ parted' = parted
        /\ (reply'["run"] = "ok" => reply["run"] = "ok") /\ (at["run"] = "idle" => wire' = <<>>)
    BY <1>a, <1>d, <1>23 DEF Close, LetGo, DropConnection
  <2> QED BY <1>c, <2>1, RestsParted
<1>24. CASE Drain
  <2>1. CASE Running /\ SendNotice("call", noticeDue \/ ~draining)
    <3>1. GoesOn
      BY <1>a, <1>b, <1>24, <2>1 DEF GoesOn, Drain, SendNotice, NoticeOver, Goto, Ask, Running
    <3> QED BY <1>c, <3>1, GoesOnParted
  <2>2. CASE UNCHANGED <<at, wire, reply>>
    <3>1. parted' = parted
      BY <1>24 DEF Drain
    <3> QED BY <1>c, <1>d, <2>2, <3>1, RestsParted
  <2> QED BY <1>24, <2>1, <2>2 DEF Drain
<1>25. CASE TaskEnds
  <2>1. /\ at' = at /\ parted' = parted
        /\ (reply'["run"] = "ok" => reply["run"] = "ok") /\ (at["run"] = "idle" => wire' = <<>>)
    BY <1>a, <1>d, <1>25 DEF TaskEnds
  <2> QED BY <1>c, <2>1, RestsParted
<1>26. CASE Beat
  <2>1. GoesOn
    BY <1>a, <1>b, <1>26 DEF GoesOn, Beat, Ask, Running
  <2> QED BY <1>c, <2>1, GoesOnParted
<1>27. CASE HeartbeatAnswered
  <2>1. GoesOn
    BY <1>a, <1>b, <1>27 DEF GoesOn, HeartbeatAnswered, Goto, Ask
  <2> QED BY <1>c, <2>1, GoesOnParted
<1>28. CASE HeartbeatRegistered
  <2>1. GoesOn
    BY <1>a, <1>b, <1>28 DEF GoesOn, HeartbeatRegistered, SendNotice, NoticeOver, Goto, Ask
  <2> QED BY <1>c, <2>1, GoesOnParted
<1>29. CASE Dial
  <2>1. /\ at' = at /\ parted' = parted
        /\ (reply'["run"] = "ok" => reply["run"] = "ok") /\ (at["run"] = "idle" => wire' = <<>>)
    BY <1>a, <1>d, <1>29 DEF Dial
  <2> QED BY <1>c, <2>1, RestsParted
<1>30. CASE ConnectionEnds
  <2>1. /\ at' = at /\ parted' = parted
        /\ (reply'["run"] = "ok" => reply["run"] = "ok") /\ (at["run"] = "idle" => wire' = <<>>)
    BY <1>a, <1>d, <1>30 DEF ConnectionEnds, LetGo, DropConnection
  <2> QED BY <1>c, <2>1, RestsParted
<1>31. CASE ServerReads
  <2>1. PICK answer \in Answers(Head(wire).op) :
          reply' = IF Head(wire).from = "nobody" THEN reply ELSE [reply EXCEPT ![Head(wire).from] = answer]
    BY <1>31 DEF ServerReads
  <2>2. wire # <<>> /\ wire' = Tail(wire) /\ at' = at /\ parted' = parted
    BY <1>31 DEF ServerReads
  <2>3. reply'["run"] = "ok" => reply["run"] = "ok" \/ Head(wire).from = "run"
    BY <1>a, <2>1
  <2> QED BY <1>c, <2>1, <2>2, <2>3, ReadParted
<1>32. CASE AnswerLost
  <2>1. wire # <<>> /\ wire' = Tail(wire) /\ at' = at /\ parted' = parted
    BY <1>32 DEF AnswerLost
  <2>2. reply'["run"] = "ok" => reply["run"] = "ok"
    BY <1>a, <1>32 DEF AnswerLost
  <2> QED BY <1>c, <2>1, <2>2, ReadParted
<1>33. CASE ServerRefusesUnrun
  <2>1. at["run"] # "idle"
    BY <1>33 DEF ServerRefusesUnrun, PartedInv
  <2>2. at' = at /\ reply' = reply /\ parted' = parted
    BY <1>33 DEF ServerRefusesUnrun
  <2> QED BY <1>c, <2>1, <2>2, RestsParted
<1>34. CASE ServerForgets
  <2>1. /\ at' = at /\ parted' = parted
        /\ (reply'["run"] = "ok" => reply["run"] = "ok") /\ (at["run"] = "idle" => wire' = <<>>)
    BY <1>a, <1>d, <1>34 DEF ServerForgets
  <2> QED BY <1>c, <2>1, RestsParted
<1>35. CASE OperatorDrains
  <2>1. /\ at' = at /\ parted' = parted
        /\ (reply'["run"] = "ok" => reply["run"] = "ok") /\ (at["run"] = "idle" => wire' = <<>>)
    BY <1>a, <1>d, <1>35 DEF OperatorDrains
  <2> QED BY <1>c, <2>1, RestsParted
<1>36. ASSUME NEW c \in Chains, NoticeAnswered(c)
      PROVE  PartedInv'
  <2>1. GoesOn
    BY <1>a, <1>b, <1>36 DEF GoesOn, NoticeAnswered, NoticeOver, DrainedWhere, Goto
  <2> QED BY <1>c, <2>1, GoesOnParted
<1>37. ASSUME NEW c \in Chains, NoticeAborted(c)
      PROVE  PartedInv'
  <2>1. GoesOn
    BY <1>a, <1>b, <1>37 DEF GoesOn, NoticeAborted, NoticeOver, DrainedWhere, Goto
  <2> QED BY <1>c, <2>1, GoesOnParted
<1>38. ASSUME NEW c \in Chains, NoticeLost(c)
      PROVE  PartedInv'
  <2>1. GoesOn
    BY <1>a, <1>b, <1>38 DEF GoesOn, NoticeLost, NoticeOver, DrainedWhere, Goto, DropFor
  <2> QED BY <1>c, <2>1, GoesOnParted
<1>39. ASSUME NEW c \in Chains, NoticeRedialOver(c)
      PROVE  PartedInv'
  <2>1. GoesOn
    BY <1>a, <1>b, <1>39 DEF GoesOn, NoticeRedialOver, NoticeOver, DrainedWhere, Goto
  <2> QED BY <1>c, <2>1, GoesOnParted
<1>40. ASSUME NEW c \in Chains, Timeout(c)
      PROVE  PartedInv'
  <2>1. at' = at /\ parted' = parted /\ (reply'["run"] = "ok" => reply["run"] = "ok")
    BY <1>a, <1>40 DEF Timeout
  <2>2. at["run"] # "idle"
    BY <1>e, <1>40 DEF Timeout, Awaiting, PartedInv, Asking
  <2> QED BY <1>c, <2>1, <2>2, RestsParted
<1>41. ASSUME NEW c \in Chains, Resend(c)
      PROVE  PartedInv'
  <2>1. at' = at /\ parted' = parted /\ (reply'["run"] = "ok" => reply["run"] = "ok")
    BY <1>a, <1>41 DEF Resend
  <2>2. at["run"] # "idle"
    BY <1>e, <1>41 DEF Resend, MailInv, Mail, PartedInv, Asking
  <2> QED BY <1>c, <2>1, <2>2, RestsParted
<1>42. CASE ServerReadsLate
  <2>1. /\ at' = at /\ parted' = parted
        /\ (reply'["run"] = "ok" => reply["run"] = "ok") /\ (at["run"] = "idle" => wire' = <<>>)
    BY <1>a, <1>d, <1>42 DEF ServerReadsLate
  <2> QED BY <1>c, <2>1, RestsParted
<1> QED BY <1>1, <1>2, <1>3, <1>4, <1>5, <1>6, <1>7, <1>8, <1>9, <1>10, <1>11, <1>12, <1>13, <1>14,
          <1>15, <1>16, <1>17, <1>18, <1>19, <1>20, <1>21, <1>22, <1>23, <1>24, <1>25, <1>26,
          <1>27, <1>28, <1>29, <1>30, <1>31, <1>32, <1>33, <1>34, <1>35, <1>36, <1>37, <1>38,
          <1>39, <1>40, <1>41, <1>42
     DEF Next, RunStep, NoticeStep, BeatStep, Caller, Network, Server

-----------------------------------------------------------------------------
LEMMA TypeInvInductive ==
  ASSUME WorkerAssumption
  PROVE  (Init => TypeInv) /\ (TypeInv /\ [Next]_vars => TypeInv')
<1>1. ASSUME Init
      PROVE  TypeInv
  <2>1. NoChain["run"] = "idle" /\ NoChain["beat"] = "none" /\ NoChain["call"] = "none"
    BY DEF NoChain
  <2>2. FlagsOK /\ StatesOK
    BY <1>1, <2>1 DEF Init, FlagsOK, StatesOK, RunStates
  <2>3. TasksInv
    BY <1>1, <2>1, WorkerAssumption DEF Init, TasksInv, WorkerAssumption
  <2>4. MailInv
    BY <1>1, MailRest DEF Init, MailInv
  <2> QED BY <2>2, <2>3, <2>4 DEF TypeInv
<1>2. ASSUME TypeInv, Next
      PROVE  TypeInv'
  BY <1>2, FlagsStep, StatesStep, TasksStep, MailStep DEF TypeInv
<1>3. ASSUME TypeInv, UNCHANGED vars
      PROVE  TypeInv'
  <2> USE <1>3 DEF vars, flags, client, server
  <2>1. FlagsOK' /\ StatesOK' /\ TasksInv'
    BY DEF TypeInv, FlagsOK, StatesOK, TasksInv
  <2>2. MailInv'
    BY DEF TypeInv, MailInv
  <2> QED BY <2>1, <2>2 DEF TypeInv
<1> QED BY <1>1, <1>2, <1>3

\* Every reachable state meets the invariant of the chains and their wire.
THEOREM Invariance == Spec => []TypeInv
<1>1. (Init => TypeInv) /\ (TypeInv /\ [Next]_vars => TypeInv')
  BY WorkerAssumption, TypeInvInductive
<1> QED BY <1>1, PTL DEF Spec

\* The types hold, among them that a worker never runs more handlers than its
\* concurrency (pollLoop), whatever its client resends.
THEOREM TypeCorrectness == Spec => []TypeOK
BY Invariance, TypeInvImpliesTypeOK, PTL

\* What brings back an entry the server does not have.
LEMMA RegistryStep ==
  ASSUME Next, registry = "none", registry' # "none"
  PROVE  \/ wire # <<>> /\ Head(wire).op = "register"
         \/ late' # late
<1> USE DEF flags, client, server
<1>1. CASE ServerReads
  <2>1. wire # <<>> /\ \E answer \in Answers(Head(wire).op) : registry' = RegistryAfter(Head(wire).op, answer)
    BY <1>1 DEF ServerReads
  <2> QED BY <2>1 DEF RegistryAfter
<1>2. CASE AnswerLost
  <2>1. wire # <<>> /\ registry' = RegistryAfter(Head(wire).op, "ok")
    BY <1>2 DEF AnswerLost
  <2> QED BY <2>1 DEF RegistryAfter
<1>3. CASE ServerReadsLate
  BY <1>3 DEF ServerReadsLate
<1>4. CASE Caller \/ RunStep
  BY <1>4 DEF Caller, Start, Stop, Close, Drain, RunStep, Connected, ConnectFailed, ActionsRegistered,
    WorkerRegistered, RegisterFailed, HaltWaitOver, Loop, PolledTask, PolledNothing, PolledDraining,
    PolledUnhealthy, HeartbeatAwaited, PolledPending, PauseOver, PollLost, Redialed, RedialGivenUp,
    Tick, TasksFinished, Deregistered
<1>5. CASE TaskEnds \/ Beat \/ BeatStep \/ \E c \in Chains : NoticeStep(c)
  BY <1>5 DEF TaskEnds, Beat, BeatStep, HeartbeatAnswered, HeartbeatRegistered, NoticeStep,
    NoticeAnswered, NoticeAborted, NoticeLost, NoticeRedialOver
<1>6. CASE Network \/ ServerRefusesUnrun \/ ServerForgets \/ OperatorDrains
  BY <1>6 DEF Network, Dial, ConnectionEnds, Timeout, Resend, ServerRefusesUnrun, ServerForgets,
    OperatorDrains
<1> QED BY <1>1, <1>2, <1>3, <1>4, <1>5, <1>6 DEF Next, Server

\* Once the server took a run's deregister, only a registration that the
\* client resent or that outlived its connection brings the worker back before
\* its next start, however late its heartbeats are answered (heartbeat,
\* start()).
THEOREM OnlyLateGhosts == Spec => GhostsAreLate
<1>1. ASSUME Init
      PROVE  PartedInv
  BY <1>1, EmptyWithin DEF Init, PartedInv, NoChain
<1>2. ASSUME TypeInv, PartedInv, Next
      PROVE  PartedInv'
  BY <1>2, PartedStep DEF TypeInv
<1>3. ASSUME PartedInv, UNCHANGED vars
      PROVE  PartedInv'
  BY <1>3 DEF PartedInv, vars, server
<1>4. TypeInv /\ PartedInv /\ [Next]_vars => PartedInv'
  BY <1>2, <1>3
<1>5. Init => PartedInv
  BY <1>1
<1> DEFINE Late == Parted /\ registry = "none" /\ registry' # "none"
                     => late' # late \/ (wire # <<>> /\ Head(wire).again)
<1>6. ASSUME TypeInv, PartedInv, Next
      PROVE  Late
  <2> SUFFICES ASSUME Parted, registry = "none", registry' # "none", late' = late
               PROVE  wire # <<>> /\ Head(wire).again
    OBVIOUS
  <2>1. wire # <<>> /\ Head(wire).op = "register"
    BY <1>6, RegistryStep
  <2>2. NoneRegisters(wire)
    BY <1>6, <2>1 DEF Parted, PartedInv
  <2> QED BY <1>6, <2>1, <2>2, HeadRead DEF TypeInv
<1>7. TypeInv /\ PartedInv /\ [Next]_vars => [Late]_vars
  BY <1>6
<1> QED BY <1>4, <1>5, <1>7, Invariance, PTL DEF Spec, GhostsAreLate

-----------------------------------------------------------------------------
(***************************************************************************)
(* TaskRun, for all timeouts, intervals, leases and waits: touching ends   *)
(* with the handler, if that does not throw at its call, and the lease is  *)
(* kept.  The lease is kept because how much of it is left is never less   *)
(* than what touching has used up since it was asked for last: an interval *)
(* and an answer for each touch that failed, the interval that runs and    *)
(* the answer that is out.                                                 *)
(***************************************************************************)

\* Once the handler is over, no touch is due and none follows one that is out.
StopInv ==
  /\ task \in {"calling", "racing"} => ~stopped
  /\ task = "calling" => timer = OFF /\ touchOut = "none"
  /\ ~ThrowsAtCall /\ task \in {"reporting", "reported"}
       => timer = OFF /\ (stopped \/ touchOut = "none")

\* What touching may have used up of the lease, when a touch is due: so many
\* intervals, and so many answers.
Used(n, interval, slow) == n * interval + n * slow

\* While the run is leased, how much of the lease is left at least.
LeftInv ==
  /\ lease > 0
  /\ \/ /\ touchOut = "none" /\ timer \in 0..IntervalMs
        /\ lease + Used(failed + 1, IntervalMs, slowest) >= ExtendMs + timer
     \/ /\ touchOut = "sent" /\ timer = OFF
        /\ lease + Used(failed + 1, IntervalMs, slowest) + age >= ExtendMs
     \/ /\ touchOut = "read" /\ timer = OFF
        /\ lease + age >= ExtendMs

\* Once it is not, touches had failed, or taken, too much for it.
LapsedInv ==
  ExtendMs <= (worst + 1) * IntervalMs + (worst + 2) * Max({slowest, age})

LeaseInv ==
  /\ failed <= worst
  /\ timer # OFF => touchOut = "none"
  /\ touchOut = "none" => age <= slowest
  /\ task = "calling" =>
       /\ failed = 0 /\ age = 0 /\ runState = "leased" /\ lease = timeoutMs - slowest
       /\ timeoutMs > 0 => lease > 0
  /\ task = "racing" /\ autoTouch /\ timeoutMs > 0 =>
       \/ runState = "leased" /\ LeftInv
       \/ runState = "takenBack" /\ LapsedInv

TaskInv == TaskTypeOK /\ StopInv /\ LeaseInv

-----------------------------------------------------------------------------
(* Numbers.                                                                *)

\* The greater, and the smaller, of two numbers.
LEMMA MaxOfTwo ==
  ASSUME NEW a \in Int, NEW b \in Int
  PROVE  Max({a, b}) = IF a >= b THEN a ELSE b
<1>1. \E m \in {a, b}: \A y \in {a, b}: m >= y
  OBVIOUS
<1>2. Max({a, b}) \in {a, b} /\ \A y \in {a, b}: Max({a, b}) >= y
  BY <1>1 DEF Max
<1> QED BY <1>2

LEMMA MinOfTwo ==
  ASSUME NEW a \in Int, NEW b \in Int
  PROVE  Min({a, b}) = IF a <= b THEN a ELSE b
<1>1. \E m \in {a, b}: \A y \in {a, b}: m <= y
  OBVIOUS
<1>2. Min({a, b}) \in {a, b} /\ \A y \in {a, b}: Min({a, b}) <= y
  BY <1>1 DEF Min
<1> QED BY <1>2

\* A product grows by its factor, and with either of them.
LEMMA TimesNext ==
  ASSUME NEW a \in Nat, NEW c \in Nat
  PROVE  a * c \in Nat /\ (a + 1) * c = a * c + c
OBVIOUS

LEMMA TimesMonotone ==
  ASSUME NEW a \in Nat, NEW b \in Nat, NEW c \in Nat, NEW d \in Nat, a <= b, c <= d
  PROVE  a * c <= b * d
<1>1. a * c <= b * c
  <2>1. PICK n \in Nat: b = a + n
    <3>1. b - a \in Nat /\ b = a + (b - a)
      OBVIOUS
    <3> QED BY <3>1
  <2>2. b * c = a * c + n * c
    BY <2>1
  <2>3. n * c \in Nat /\ a * c \in Nat
    OBVIOUS
  <2> QED BY <2>2, <2>3
<1>2. b * c <= b * d
  <2>1. PICK n \in Nat: d = c + n
    <3>1. d - c \in Nat /\ d = c + (d - c)
      OBVIOUS
    <3> QED BY <3>1
  <2>2. b * d = b * c + b * n
    BY <2>1
  <2>3. b * n \in Nat /\ b * c \in Nat
    OBVIOUS
  <2> QED BY <2>2, <2>3
<1>3. a * c \in Nat /\ b * c \in Nat /\ b * d \in Nat
  OBVIOUS
<1> QED BY <1>1, <1>2, <1>3

\* A touch that fails has used up an interval, and at most the slowest answer.
LEMMA UsedByFailing ==
  ASSUME NEW n \in Nat, NEW interval \in Nat, NEW slow \in Nat, NEW slower \in Nat,
         NEW out \in Nat, NEW extend \in Nat, NEW left_ \in Nat,
         slow <= slower, out <= slower,
         left_ + Used(n, interval, slow) + out >= extend
  PROVE  left_ + Used(n + 1, interval, slower) >= extend + interval
<1>1. (n + 1) * interval = n * interval + interval /\ n * interval \in Nat
  BY TimesNext
<1>2. (n + 1) * slower = n * slower + slower /\ n * slower \in Nat
  BY TimesNext
<1>3. n * slow <= n * slower /\ n * slow \in Nat
  BY TimesMonotone, TimesNext
<1>4. left_ + (n * interval + n * slow) + out >= extend
  BY DEF Used
<1>5. left_ + ((n * interval + interval) + (n * slower + slower)) >= extend + interval
  BY <1>1, <1>2, <1>3, <1>4
<1> QED BY <1>1, <1>2, <1>5 DEF Used

\* What is used up when the lease is over is what LeaseKept allows for.
LEMMA UsedUp ==
  ASSUME NEW n \in Nat, NEW most \in Nat, NEW interval \in Nat, NEW slow \in Nat,
         NEW slower \in Nat, NEW out \in Nat, NEW extend \in Nat,
         n <= most, slow <= slower, out <= slower,
         Used(n, interval, slow) + out >= extend
  PROVE  extend <= most * interval + (most + 1) * slower
<1>1. n * interval <= most * interval /\ n * interval \in Nat /\ most * interval \in Nat
  BY TimesMonotone, TimesNext
<1>2. n * slow <= most * slower /\ n * slow \in Nat /\ most * slower \in Nat
  BY TimesMonotone, TimesNext
<1>3. (most + 1) * slower = most * slower + slower
  BY TimesNext
<1>4. (n * interval + n * slow) + out >= extend
  BY DEF Used
<1> QED BY <1>1, <1>2, <1>3, <1>4

-----------------------------------------------------------------------------
(* The steps.                                                              *)

\* What a touch asks for, and how far apart they are.
LEMMA TouchNumbers ==
  ASSUME TaskTypeOK
  PROVE  /\ ExtendMs \in Nat /\ ExtendMs <= MAX_TOUCH_EXTEND /\ ExtendMs <= timeoutMs
         /\ timeoutMs > 0 => ExtendMs > 0
         /\ IntervalMs \in Nat /\ IntervalMs > 0
<1>1. timeoutMs \in Nat /\ MAX_TOUCH_EXTEND \in Nat /\ MAX_TOUCH_EXTEND > 0
      /\ MIN_TOUCH_INTERVAL \in Nat /\ MIN_TOUCH_INTERVAL > 0
  BY TaskAssumption DEF TaskTypeOK
<1>2. ExtendMs = IF timeoutMs <= MAX_TOUCH_EXTEND THEN timeoutMs ELSE MAX_TOUCH_EXTEND
  BY <1>1, MinOfTwo DEF ExtendMs
<1>3. ExtendMs \in Nat /\ ExtendMs \div 3 \in Int
  BY <1>1, <1>2
<1>4. IntervalMs = IF ExtendMs \div 3 >= MIN_TOUCH_INTERVAL THEN ExtendMs \div 3 ELSE MIN_TOUCH_INTERVAL
  BY <1>1, <1>3, MaxOfTwo DEF IntervalMs
<1>5. IntervalMs \in Nat /\ IntervalMs > 0
  BY <1>1, <1>3, <1>4
<1> QED BY <1>1, <1>2, <1>3, <1>5

\* They stay what they are, the action's timeout being given.
LEMMA TouchNumbersStay ==
  ASSUME UNCHANGED taskConstants
  PROVE  ExtendMs' = ExtendMs /\ IntervalMs' = IntervalMs
<1>1. ExtendMs' = ExtendMs
  BY DEF ExtendMs, taskConstants
<1> QED BY <1>1 DEF IntervalMs

LEMMA TypesHold ==
  ASSUME TaskTypeOK, [TaskNext]_taskVars
  PROVE  TaskTypeOK'
<1> USE TaskAssumption
<1>0. IntervalMs \in Nat
  BY TouchNumbers
<1>1. CASE TaskCalled
  BY <1>0, <1>1 DEF TaskTypeOK, TaskCalled, taskConstants, runVars, touchHistory
<1>2. CASE HandlerEnds
  BY <1>2 DEF TaskTypeOK, HandlerEnds, Settles, taskConstants, runVars, touchHistory
<1>3. CASE HandlerTimesOut
  BY <1>3 DEF TaskTypeOK, HandlerTimesOut, Settles, taskConstants, runVars, touchHistory
<1>4. CASE ResultSent
  BY <1>4 DEF TaskTypeOK, ResultSent, taskConstants, runVars, touchHistory
<1>5. CASE Touch
  BY <1>5 DEF TaskTypeOK, Touch, taskConstants, runVars, touchHistory
<1>6. ASSUME TouchOver, timer' = NextTouch \/ timer' = timer,
             \/ failed' \in {0, failed} /\ worst' = worst
             \/ failed' = failed + 1 /\ worst' = Max({worst, failed'})
      PROVE  TaskTypeOK'
  <2>1. Max({slowest, age}) \in 0..RequestTimeout
    BY MaxOfTwo DEF TaskTypeOK
  <2>2. failed' \in Nat /\ worst' \in Nat
    <3>1. CASE failed' = failed + 1 /\ worst' = Max({worst, failed'})
      <4>1. failed' \in Nat /\ worst \in Nat
        BY <3>1 DEF TaskTypeOK
      <4>2. Max({worst, failed'}) \in Nat
        BY <4>1, MaxOfTwo
      <4> QED BY <3>1, <4>1, <4>2
    <3> QED BY <1>6, <3>1 DEF TaskTypeOK
  <2>3. timer' \in {OFF} \cup Nat
    BY <1>0, <1>6 DEF NextTouch, TaskTypeOK
  <2> QED BY <1>6, <2>1, <2>2, <2>3 DEF TaskTypeOK, TouchOver, taskConstants, runVars
<1>7. CASE TouchAnswered
  BY <1>6, <1>7 DEF TouchAnswered
<1>8. CASE TouchFailed
  BY <1>6, <1>8 DEF TouchFailed
<1>9. CASE TouchRefused
  BY <1>6, <1>9 DEF TouchRefused
<1>10. CASE TouchRead
  <2>1. ExtendMs \in Nat
    BY TouchNumbers
  <2> QED BY <1>10, <2>1 DEF TaskTypeOK, TouchRead, taskConstants, touchHistory
<1>11. CASE ResultTaken
  BY <1>11 DEF TaskTypeOK, ResultTaken, taskConstants, touchHistory
<1>12. CASE TimePasses
  <2>1. Max({lease - 1, 0}) \in Nat
    BY MaxOfTwo DEF TaskTypeOK
  <2>2. left' \in 0..ActionTimeout
    BY <1>12 DEF TaskTypeOK, TimePasses
  <2>3. timer' \in {OFF} \cup Nat
    BY <1>12 DEF TaskTypeOK, TimePasses, OFF
  <2>4. age' \in 0..RequestTimeout
    BY <1>12 DEF TaskTypeOK, TimePasses
  <2> QED BY <1>12, <2>1, <2>2, <2>3, <2>4 DEF TaskTypeOK, TimePasses, taskConstants, touchHistory
<1>13. CASE UNCHANGED taskVars
  BY <1>13 DEF TaskTypeOK, taskVars
<1> QED BY <1>1, <1>2, <1>3, <1>4, <1>5, <1>7, <1>8, <1>9, <1>10, <1>11, <1>12, <1>13 DEF TaskNext

LEMMA StopHolds ==
  ASSUME TaskTypeOK, StopInv, [TaskNext]_taskVars
  PROVE  StopInv'
<1> USE DEF StopInv, OFF, taskConstants, runVars, touchHistory
<1>1. CASE TaskCalled
  BY <1>1 DEF TaskCalled
<1>2. CASE HandlerEnds
  BY <1>2 DEF HandlerEnds, Settles
<1>3. CASE HandlerTimesOut
  BY <1>3 DEF HandlerTimesOut, Settles
<1>4. CASE ResultSent
  BY <1>4 DEF ResultSent
<1>5. CASE Touch
  BY <1>5 DEF Touch, TaskTypeOK
<1>7. CASE TouchAnswered
  BY <1>7 DEF TouchAnswered, TouchOver, NextTouch, TaskTypeOK
<1>8. CASE TouchFailed
  BY <1>8 DEF TouchFailed, TouchOver, NextTouch, TaskTypeOK
<1>9. CASE TouchRefused
  BY <1>9 DEF TouchRefused, TouchOver, TaskTypeOK
<1>10. CASE TouchRead
  BY <1>10 DEF TouchRead, TaskTypeOK
<1>11. CASE ResultTaken
  BY <1>11 DEF ResultTaken
<1>12. CASE TimePasses
  BY <1>12 DEF TimePasses, TaskTypeOK
<1>13. CASE UNCHANGED taskVars
  BY <1>13 DEF taskVars
<1> QED BY <1>1, <1>2, <1>3, <1>4, <1>5, <1>7, <1>8, <1>9, <1>10, <1>11, <1>12, <1>13 DEF TaskNext

\* Touching uses up more and more.
LEMMA LapsedStays ==
  ASSUME TaskTypeOK, TaskTypeOK', UNCHANGED taskConstants, LapsedInv, worst <= worst',
         Max({slowest, age}) <= Max({slowest', age'})
  PROVE  LapsedInv'
<1> DEFINE S == Max({slowest, age})
           S2 == Max({slowest', age'})
<1>1. S \in Nat /\ S2 \in Nat /\ worst \in Nat /\ worst' \in Nat
  BY MaxOfTwo, TaskAssumption DEF TaskTypeOK
<1>2. IntervalMs \in Nat /\ ExtendMs \in Nat
  BY TouchNumbers
<1>3. ExtendMs' = ExtendMs /\ IntervalMs' = IntervalMs
  BY TouchNumbersStay
<1>4. ExtendMs <= (worst + 1) * IntervalMs + (worst + 2) * S
  BY DEF LapsedInv
<1> HIDE DEF S, S2
<1>5. /\ worst + 1 \in Nat /\ worst' + 1 \in Nat /\ worst + 1 <= worst' + 1
      /\ worst + 2 \in Nat /\ worst' + 2 \in Nat /\ worst + 2 <= worst' + 2
  <2>1. worst <= worst'
    OBVIOUS
  <2>2. \A a, b \in Nat: a <= b => a + 1 \in Nat /\ b + 1 \in Nat /\ a + 1 <= b + 1
                               /\ a + 2 \in Nat /\ b + 2 \in Nat /\ a + 2 <= b + 2
    OBVIOUS
  <2> QED BY <1>1, <2>1, <2>2
<1>6. (worst + 1) * IntervalMs <= (worst' + 1) * IntervalMs
  <2>1. ASSUME NEW a \in Nat, NEW b \in Nat, NEW c \in Nat, a <= b
        PROVE  a * c <= b * c
    <3>1. c <= c
      OBVIOUS
    <3> QED BY <2>1, <3>1, TimesMonotone
  <2> QED BY <1>2, <1>5, <2>1
<1>7. (worst + 2) * S <= (worst' + 2) * S2
  <2>1. S <= S2
    BY DEF S, S2
  <2> QED BY <1>1, <1>5, <2>1, TimesMonotone
<1>8. /\ (worst + 1) * IntervalMs \in Nat /\ (worst' + 1) * IntervalMs \in Nat
      /\ (worst + 2) * S \in Nat /\ (worst' + 2) * S2 \in Nat
  BY <1>1, <1>2, <1>5, TimesNext
<1>9. ExtendMs <= (worst' + 1) * IntervalMs + (worst' + 2) * S2
  BY <1>2, <1>4, <1>6, <1>7, <1>8
<1> QED BY <1>3, <1>9 DEF LapsedInv, S2

\* A touch is answered, or fails: the next is an interval away.
LEMMA LeaseAfterTouch ==
  ASSUME TaskTypeOK, TaskTypeOK', StopInv, LeaseInv, TouchAnswered \/ TouchFailed
  PROVE  LeaseInv'
<1>1. TouchOver /\ timer' = NextTouch
  BY DEF TouchAnswered, TouchFailed
<1>2. /\ UNCHANGED <<autoTouch, timeoutMs, task, stopped, age, runState, lease>>
      /\ touchOut' = "none" /\ slowest' = Max({slowest, age})
  BY <1>1 DEF TouchOver, taskConstants, runVars
<1>3. slowest \in Nat /\ age \in Nat /\ failed \in Nat /\ worst \in Nat /\ slowest' \in Nat
  BY TaskAssumption DEF TaskTypeOK
<1>4. slowest <= slowest' /\ age' <= slowest'
  BY <1>2, <1>3, MaxOfTwo
<1>5. failed' <= worst' /\ worst <= worst' /\ failed' \in {0, failed + 1}
  <2>1. CASE TouchAnswered
    BY <1>3, <2>1 DEF TouchAnswered
  <2>2. CASE TouchFailed
    <3>1. Max({worst, failed'}) = IF worst >= failed' THEN worst ELSE failed'
      BY <1>3, <2>2, MaxOfTwo DEF TouchFailed
    <3> QED BY <1>3, <2>2, <3>1 DEF TouchFailed
  <2> QED BY <2>1, <2>2
<1>6. ASSUME task' = "calling"
      PROVE  FALSE
  BY <1>2, <1>6 DEF TouchAnswered, TouchFailed, StopInv
<1>7. ASSUME task' = "racing", autoTouch', timeoutMs' > 0
      PROVE  \/ runState' = "leased" /\ LeftInv'
             \/ runState' = "takenBack" /\ LapsedInv'
  <2> USE DEF OFF
  <2>1. /\ IntervalMs \in Nat /\ ExtendMs \in Nat /\ lease \in Nat
        /\ ExtendMs' = ExtendMs /\ IntervalMs' = IntervalMs
    BY <1>2, TouchNumbers, TouchNumbersStay DEF TaskTypeOK, taskConstants
  <2>2. timer' = IntervalMs
    BY <1>1, <1>2, <1>7 DEF StopInv, NextTouch
  <2>3. CASE runState = "leased" /\ LeftInv
    <3>1. lease' > 0 /\ timer' \in 0..IntervalMs'
      BY <1>2, <2>1, <2>2, <2>3 DEF LeftInv
    <3>2. CASE TouchAnswered
      <4>1. lease + age >= ExtendMs
        BY <2>3, <3>2 DEF TouchAnswered, LeftInv
      <4>2. Used(1, IntervalMs, slowest') = IntervalMs + slowest'
        BY <1>3, <2>1 DEF Used
      <4>3. failed' = 0
        BY <3>2 DEF TouchAnswered
      <4>4. lease + Used(failed' + 1, IntervalMs, slowest') >= ExtendMs + IntervalMs
        BY <1>2, <1>3, <1>4, <2>1, <4>1, <4>2, <4>3
      <4> QED BY <1>2, <2>1, <2>2, <2>3, <3>1, <4>4 DEF LeftInv
    <3>3. CASE TouchFailed
      <4>1. lease + Used(failed + 1, IntervalMs, slowest) + age >= ExtendMs
        <5>1. Used(failed + 1, IntervalMs, slowest) \in Nat
          BY <1>3, <2>1, TimesNext DEF Used
        <5>2. touchOut # "none"
          BY <3>3 DEF TouchFailed
        <5> QED BY <1>3, <2>1, <2>3, <5>1, <5>2 DEF LeftInv
      <4>2. lease + Used((failed + 1) + 1, IntervalMs, slowest') >= ExtendMs + IntervalMs
        <5>1. failed + 1 \in Nat /\ slowest <= slowest' /\ age <= slowest'
          BY <1>2, <1>3, <1>4
        <5> QED BY <1>3, <2>1, <4>1, <5>1, UsedByFailing
      <4>3. failed' = failed + 1
        BY <3>3 DEF TouchFailed
      <4> QED BY <1>2, <2>1, <2>2, <2>3, <3>1, <4>2, <4>3 DEF LeftInv
    <3> QED BY <3>2, <3>3
  <2>4. CASE runState = "takenBack" /\ LapsedInv
    <3>1. Max({slowest, age}) <= Max({slowest', age'})
      <4>1. Max({slowest', age'}) = slowest'
        BY <1>2, <1>3, <1>4, MaxOfTwo
      <4> QED BY <1>2, <1>3, <4>1
    <3> QED BY <1>2, <1>5, <2>4, <3>1, LapsedStays DEF taskConstants
  <2> QED BY <1>2, <1>7, <2>3, <2>4 DEF LeaseInv
<1> QED BY <1>2, <1>4, <1>5, <1>6, <1>7 DEF LeaseInv

\* A tick takes as much of the lease as it takes of the interval, or adds to
\* how long the touch is out; when it takes the last of it, that was used up.
LEMMA LeaseAfterTick ==
  ASSUME TaskTypeOK, TaskTypeOK', StopInv, LeaseInv, TimePasses
  PROVE  LeaseInv'
<1> DEFINE used == Used(failed + 1, IntervalMs, slowest)
<1>1. UNCHANGED <<autoTouch, timeoutMs, task, touchOut, failed, worst, slowest>>
  BY DEF TimePasses, taskConstants, touchHistory
<1>2. /\ slowest \in Nat /\ age \in Nat /\ age' \in Nat /\ failed \in Nat /\ worst \in Nat
      /\ lease \in Nat /\ timer \in {OFF} \cup Nat /\ timer # 0
  BY TaskAssumption DEF TaskTypeOK, TimePasses
<1>3. /\ age' = IF touchOut = "none" THEN age ELSE age + 1
      /\ timer' = IF timer = OFF THEN OFF ELSE timer - 1
  BY DEF TimePasses
<1>4. lease' = IF lease - 1 >= 0 THEN lease - 1 ELSE 0
  <2>1. lease - 1 \in Int /\ 0 \in Int
    BY <1>2
  <2>2. Max({lease - 1, 0}) = IF lease - 1 >= 0 THEN lease - 1 ELSE 0
    BY <2>1, MaxOfTwo
  <2> QED BY <2>2 DEF TimePasses
<1>5. /\ IntervalMs \in Nat /\ ExtendMs \in Nat
      /\ ExtendMs' = ExtendMs /\ IntervalMs' = IntervalMs
  BY TouchNumbers, TouchNumbersStay DEF TimePasses
<1>6. used \in Nat /\ used' = used
  <2>1. failed + 1 \in Nat
    BY <1>2
  <2>2. (failed + 1) * IntervalMs \in Nat /\ (failed + 1) * slowest \in Nat
    BY <1>2, <1>5, <2>1, TimesNext
  <2> QED BY <1>1, <1>5, <2>2 DEF Used
<1>7. /\ Max({slowest, age}) = IF slowest >= age THEN slowest ELSE age
      /\ Max({slowest', age'}) = IF slowest >= age' THEN slowest ELSE age'
  BY <1>1, <1>2, MaxOfTwo
<1>8. ASSUME task' = "racing", autoTouch', timeoutMs' > 0
      PROVE  \/ runState' = "leased" /\ LeftInv'
             \/ runState' = "takenBack" /\ LapsedInv'
  <2> USE DEF OFF
  <2>1. CASE runState = "leased" /\ LeftInv /\ lease # 1
    <3>1. runState' = "leased" /\ lease > 1 /\ lease' = lease - 1
      BY <1>2, <1>4, <2>1 DEF TimePasses, LeftInv
    <3>2. CASE /\ touchOut = "none" /\ timer \in 0..IntervalMs
               /\ lease + used >= ExtendMs + timer
      <4>1. timer' = timer - 1 /\ timer' \in 0..IntervalMs
        BY <1>2, <1>3, <1>5, <3>2
      <4> HIDE DEF used
      <4>2. lease' + used' >= ExtendMs' + timer'
        BY <1>2, <1>5, <1>6, <3>1, <3>2, <4>1
      <4>3. lease' > 0 /\ touchOut' = "none" /\ timer' \in 0..IntervalMs'
        BY <1>1, <1>2, <1>5, <3>1, <3>2, <4>1
      <4> QED BY <3>1, <4>2, <4>3 DEF LeftInv, used
    <3>3. CASE touchOut = "sent" /\ timer = OFF /\ lease + used + age >= ExtendMs
      <4>1. timer' = OFF /\ age' = age + 1
        BY <1>3, <3>3
      <4> HIDE DEF used
      <4>2. lease' + used' + age' >= ExtendMs'
        BY <1>2, <1>5, <1>6, <3>1, <3>3, <4>1
      <4>3. lease' > 0 /\ touchOut' = "sent"
        BY <1>1, <1>2, <3>1, <3>3
      <4> QED BY <3>1, <4>1, <4>2, <4>3 DEF LeftInv, used
    <3>4. CASE touchOut = "read" /\ timer = OFF /\ lease + age >= ExtendMs
      <4>1. timer' = OFF /\ age' = age + 1
        BY <1>3, <3>4
      <4>2. lease' + age' >= ExtendMs'
        BY <1>2, <1>5, <3>1, <3>4, <4>1
      <4>3. lease' > 0 /\ touchOut' = "read"
        BY <1>1, <1>2, <3>1, <3>4
      <4> QED BY <3>1, <4>1, <4>2, <4>3 DEF LeftInv
    <3> QED BY <2>1, <3>2, <3>3, <3>4 DEF LeftInv
  <2>2. CASE runState = "leased" /\ LeftInv /\ lease = 1
    <3> DEFINE slow == Max({slowest', age'})
    <3>1. runState' = "takenBack"
      BY <2>2 DEF TimePasses
    <3>2. slow \in Nat /\ slowest <= slow /\ age' <= slow
      BY <1>2, <1>7
    <3> HIDE DEF slow
    <3>3. \E out \in Nat: out <= slow /\ used + out >= ExtendMs
      <4> HIDE DEF used
      <4>1. CASE touchOut = "none" /\ timer \in 0..IntervalMs /\ 1 + used >= ExtendMs + timer
        <5>1. 0 <= slow /\ used + 0 >= ExtendMs
          BY <1>2, <1>5, <1>6, <3>2, <4>1
        <5> QED BY <5>1
      <4>2. CASE touchOut # "none" /\ 1 + used + age >= ExtendMs
        <5>1. used + age' >= ExtendMs
          BY <1>2, <1>3, <1>5, <1>6, <4>2
        <5> QED BY <1>2, <3>2, <5>1
      <4>3. CASE touchOut = "read" /\ 1 + age >= ExtendMs
        <5>1. used + age' >= ExtendMs
          BY <1>2, <1>3, <1>5, <1>6, <4>3
        <5> QED BY <1>2, <3>2, <5>1
      <4> QED BY <2>2, <4>1, <4>2, <4>3 DEF LeftInv, used
    <3>4. failed + 1 \in Nat /\ worst + 1 \in Nat /\ failed + 1 <= worst + 1
      BY <1>2 DEF LeaseInv
    <3>5. ExtendMs <= (worst + 1) * IntervalMs + ((worst + 1) + 1) * slow
      BY <1>2, <1>5, <3>2, <3>3, <3>4, UsedUp
    <3>6. (worst + 1) + 1 = worst + 2
      BY <1>2
    <3>7. ExtendMs' <= (worst' + 1) * IntervalMs' + (worst' + 2) * slow
      BY <1>1, <1>5, <3>5, <3>6
    <3> QED BY <3>1, <3>7 DEF LapsedInv, slow
  <2>3. CASE runState = "takenBack" /\ LapsedInv
    <3>1. Max({slowest, age}) <= Max({slowest', age'})
      BY <1>2, <1>3, <1>7
    <3>2. worst <= worst'
      BY <1>1, <1>2
    <3>3. runState' = "takenBack"
      BY <2>3 DEF TimePasses
    <3> QED BY <2>3, <3>1, <3>2, <3>3, LapsedStays DEF TimePasses
  <2> QED BY <1>1, <1>8, <2>1, <2>2, <2>3 DEF LeaseInv
<1>9. task' # "calling"
  BY <1>1 DEF TimePasses
<1>10. timer' # OFF => touchOut' = "none"
  BY <1>1, <1>3 DEF LeaseInv
<1>11. touchOut' = "none" => age' <= slowest'
  BY <1>1, <1>3 DEF LeaseInv
<1>12. failed' <= worst'
  BY <1>1 DEF LeaseInv
<1> QED BY <1>8, <1>9, <1>10, <1>11, <1>12 DEF LeaseInv

LEMMA LeaseHolds ==
  ASSUME TaskTypeOK, TaskTypeOK', StopInv, LeaseInv, [TaskNext]_taskVars
  PROVE  LeaseInv'
<1>1. CASE TaskCalled
  <2>1. /\ UNCHANGED <<autoTouch, timeoutMs, touchOut, age, runState, lease, failed, worst, slowest>>
        /\ task = "calling" /\ task' # "calling"
        /\ touchOut = "none"
    BY <1>1 DEF TaskCalled, taskConstants, runVars, touchHistory, StopInv
  <2>2. /\ failed = 0 /\ age = 0 /\ runState = "leased" /\ lease = timeoutMs - slowest
        /\ failed <= worst /\ (timeoutMs > 0 => lease > 0) /\ (touchOut = "none" => age <= slowest)
    BY <2>1 DEF LeaseInv
  <2>3. ASSUME task' = "racing", autoTouch', timeoutMs' > 0
        PROVE  runState' = "leased" /\ LeftInv'
    <3>1. /\ IntervalMs \in Nat /\ ExtendMs \in Nat /\ ExtendMs <= timeoutMs
          /\ ExtendMs' = ExtendMs /\ IntervalMs' = IntervalMs
      BY <1>1, TouchNumbers, TouchNumbersStay DEF TaskCalled
    <3>2. timer' = IntervalMs
      BY <1>1, <2>1, <2>3 DEF TaskCalled
    <3>3. timeoutMs \in Nat /\ slowest \in Nat
      BY TaskAssumption DEF TaskTypeOK
    <3>4. Used(1, IntervalMs, slowest) = IntervalMs + slowest
      BY <3>1, <3>3 DEF Used
    <3>5. lease + Used(1, IntervalMs, slowest) >= ExtendMs + IntervalMs
      BY <2>2, <3>1, <3>3, <3>4
    <3>6. failed' + 1 = 1 /\ slowest' = slowest /\ lease' = lease
      BY <2>1, <2>2
    <3>7. lease' > 0 /\ touchOut' = "none" /\ timer' \in 0..IntervalMs' /\ runState' = "leased"
      BY <2>1, <2>2, <2>3, <3>1, <3>2
    <3> QED BY <3>1, <3>2, <3>5, <3>6, <3>7 DEF LeftInv
  <2> QED BY <2>1, <2>2, <2>3 DEF LeaseInv
<1>2. CASE HandlerEnds \/ HandlerTimesOut \/ ResultSent
  <2>1. /\ UNCHANGED <<touchOut, age, failed, worst, slowest>>
        /\ task' \in {"reporting", "reported"} /\ timer' \in {OFF, timer}
    BY <1>2 DEF HandlerEnds, HandlerTimesOut, Settles, ResultSent, touchHistory
  <2> QED BY <2>1 DEF LeaseInv
<1>3. CASE Touch
  <2>1. /\ UNCHANGED <<autoTouch, timeoutMs, task, runState, lease, failed, worst, slowest>>
        /\ timer = 0 /\ timer' = OFF /\ touchOut' = "sent" /\ age' = 0
    BY <1>3 DEF Touch, taskConstants, runVars, touchHistory
  <2>2. touchOut = "none" /\ age <= slowest /\ task # "calling"
    BY <2>1 DEF LeaseInv, StopInv, OFF
  <2>3. ASSUME task' = "racing", autoTouch', timeoutMs' > 0
        PROVE  \/ runState' = "leased" /\ LeftInv'
               \/ runState' = "takenBack" /\ LapsedInv'
    <3>1. /\ ExtendMs' = ExtendMs /\ IntervalMs' = IntervalMs
          /\ IntervalMs \in Nat /\ ExtendMs \in Nat
      BY <2>1, TouchNumbers, TouchNumbersStay DEF taskConstants
    <3>2. CASE runState = "leased" /\ LeftInv
      <4> DEFINE used == Used(failed + 1, IntervalMs, slowest)
      <4>1. lease > 0 /\ lease + used >= ExtendMs + 0
        BY <2>1, <2>2, <3>2 DEF LeftInv, OFF
      <4>2. failed \in Nat /\ slowest \in Nat /\ lease \in Nat
        BY TaskAssumption DEF TaskTypeOK
      <4>3. used \in Nat
        <5>1. failed + 1 \in Nat
          BY <4>2
        <5> QED BY <3>1, <4>2, <5>1, TimesNext DEF Used
      <4>4. used' = used
        BY <2>1, <3>1
      <4> HIDE DEF used
      <4>5. lease' + used' + age' >= ExtendMs' /\ lease' > 0
        BY <2>1, <3>1, <4>1, <4>2, <4>3, <4>4
      <4> QED BY <2>1, <3>2, <4>5 DEF LeftInv, used
    <3>3. CASE runState = "takenBack" /\ LapsedInv
      <4>1. slowest \in Nat /\ age \in Nat /\ worst \in Nat
        BY TaskAssumption DEF TaskTypeOK
      <4>2. Max({slowest, age}) = slowest /\ Max({slowest', age'}) = slowest
        BY <2>1, <2>2, <4>1, MaxOfTwo
      <4> QED BY <2>1, <3>3, <4>1, <4>2, LapsedStays DEF taskConstants
    <3> QED BY <2>1, <2>3, <3>2, <3>3 DEF LeaseInv
  <2>4. failed' <= worst'
    BY <2>1 DEF LeaseInv
  <2> QED BY <2>1, <2>2, <2>3, <2>4 DEF LeaseInv
<1>4. CASE TouchAnswered \/ TouchFailed
  BY <1>4, LeaseAfterTouch
<1>5. CASE TouchRefused
  <2>1. /\ UNCHANGED <<autoTouch, timeoutMs, task, timer, age, runState, failed, worst>>
        /\ touchOut = "refused" /\ touchOut' = "none" /\ slowest' = Max({slowest, age})
    BY <1>5 DEF TouchRefused, TouchOver, taskConstants, runVars
  <2>2. slowest \in Nat /\ age \in Nat /\ worst \in Nat
    BY TaskAssumption DEF TaskTypeOK
  <2>3. slowest' \in Nat /\ slowest' >= age /\ Max({slowest', age'}) = Max({slowest, age})
    BY <2>1, <2>2, MaxOfTwo
  <2>4. ASSUME task' = "racing", autoTouch', timeoutMs' > 0
        PROVE  runState' = "takenBack" /\ LapsedInv'
    <3>1. ~LeftInv
      BY <2>1 DEF LeftInv
    <3>2. runState = "takenBack" /\ LapsedInv
      BY <2>1, <2>4, <3>1 DEF LeaseInv
    <3>3. Max({slowest, age}) \in Nat
      BY <2>2, MaxOfTwo
    <3> QED BY <2>1, <2>2, <2>3, <3>2, <3>3, LapsedStays DEF taskConstants
  <2>5. task' # "calling"
    BY <2>1 DEF StopInv
  <2> QED BY <2>1, <2>3, <2>4, <2>5 DEF LeaseInv
<1>6. CASE TouchRead
  <2>1. /\ UNCHANGED <<autoTouch, timeoutMs, task, timer, age, runState, failed, worst, slowest>>
        /\ touchOut = "sent" /\ touchOut' \in {"read", "refused"}
    BY <1>6 DEF TouchRead, taskConstants, touchHistory
  <2>2. task # "calling"
    BY <2>1 DEF StopInv
  <2>3. ASSUME task' = "racing", autoTouch', timeoutMs' > 0
        PROVE  \/ runState' = "leased" /\ LeftInv'
               \/ runState' = "takenBack" /\ LapsedInv'
    <3>1. /\ ExtendMs' = ExtendMs /\ IntervalMs' = IntervalMs
          /\ ExtendMs \in Nat /\ ExtendMs <= MAX_TOUCH_EXTEND /\ (timeoutMs > 0 => ExtendMs > 0)
      BY <2>1, TouchNumbers, TouchNumbersStay DEF taskConstants
    <3>2. CASE runState = "leased" /\ LeftInv
      <4>1. timer = OFF
        BY <2>1, <3>2 DEF LeftInv
      <4>2. touchOut' = "read" /\ lease' = ExtendMs
        BY <1>6, <3>1, <3>2 DEF TouchRead
      <4>3. age \in Nat
        BY DEF TaskTypeOK
      <4>4. lease' > 0 /\ lease' + age' >= ExtendMs'
        BY <2>1, <2>3, <3>1, <4>2, <4>3
      <4> QED BY <2>1, <3>2, <4>1, <4>2, <4>4 DEF LeftInv
    <3>3. CASE runState = "takenBack" /\ LapsedInv
      <4>1. LapsedInv'
        BY <2>1, <3>1, <3>3 DEF LapsedInv
      <4> QED BY <2>1, <3>3, <4>1
    <3> QED BY <2>1, <2>3, <3>2, <3>3 DEF LeaseInv
  <2>4. timer' = OFF
    BY <2>1 DEF LeaseInv
  <2>5. failed' <= worst'
    BY <2>1 DEF LeaseInv
  <2> QED BY <2>1, <2>2, <2>3, <2>4, <2>5 DEF LeaseInv
<1>7. CASE ResultTaken
  <2>1. /\ UNCHANGED <<task, timer, touchOut, age, failed, worst, slowest>>
        /\ task = "reporting"
    BY <1>7 DEF ResultTaken, touchHistory
  <2> QED BY <2>1 DEF LeaseInv
<1>8. CASE TimePasses
  BY <1>8, LeaseAfterTick
<1>9. CASE UNCHANGED taskVars
  <2>1. IntervalMs' = IntervalMs /\ ExtendMs' = ExtendMs
    BY <1>9, TouchNumbersStay DEF taskVars, taskConstants
  <2>2. LeftInv' = LeftInv /\ LapsedInv' = LapsedInv
    BY <1>9, <2>1 DEF taskVars, LeftInv, LapsedInv
  <2> QED BY <1>9, <2>2 DEF taskVars, LeaseInv
<1> QED BY <1>1, <1>2, <1>3, <1>4, <1>5, <1>6, <1>7, <1>8, <1>9 DEF TaskNext

-----------------------------------------------------------------------------
(* The theorems.                                                           *)

\* The types, what stops touching, and what is left of the lease.
THEOREM TaskInvariance == TaskSpec => []TaskInv
<1>1. TaskInit => TaskInv
  <2> SUFFICES ASSUME TaskInit
               PROVE  TaskInv
    OBVIOUS
  <2>1. timeoutMs \in Nat /\ slowest \in Nat /\ timeoutMs - slowest \in Nat
        /\ (timeoutMs > 0 => timeoutMs - slowest > 0)
    BY TaskAssumption DEF TaskInit
  <2>2. TaskTypeOK
    <3>1. left \in 0..ActionTimeout /\ age \in 0..RequestTimeout
      BY TaskAssumption DEF TaskInit
    <3>2. lease \in Nat /\ failed \in Nat /\ worst \in Nat
      BY <2>1 DEF TaskInit
    <3> QED BY <3>1, <3>2 DEF TaskInit, TaskTypeOK
  <2>3. StopInv
    BY DEF TaskInit, StopInv
  <2>4. LeaseInv
    BY <2>1 DEF TaskInit, LeaseInv
  <2> QED BY <2>2, <2>3, <2>4 DEF TaskInv
<1>2. TaskInv /\ [TaskNext]_taskVars => TaskInv'
  BY TypesHold, StopHolds, LeaseHolds DEF TaskInv
<1> QED BY <1>1, <1>2, PTL DEF TaskSpec

\* The fields of a task keep their types.
THEOREM TaskTypes == TaskSpec => []TaskTypeOK
<1>1. TaskInv => TaskTypeOK
  BY DEF TaskInv
<1> QED BY <1>1, TaskInvariance, PTL

\* A run is not taken back while its handler runs and its touches keep up.
THEOREM LeaseIsKept == TaskSpec => []LeaseKept
<1>1. TaskInv => LeaseKept
  <2> SUFFICES ASSUME TaskInv, task = "racing", autoTouch, timeoutMs > 0,
                      (worst + 1) * IntervalMs + (worst + 2) * Max({slowest, age}) < ExtendMs
               PROVE  runState = "leased"
    BY DEF LeaseKept, IntervalMs, ExtendMs
  <2>1. (worst + 1) * IntervalMs + (worst + 2) * Max({slowest, age}) \in Nat /\ ExtendMs \in Nat
    <3>1. worst + 1 \in Nat /\ worst + 2 \in Nat /\ slowest \in Nat /\ age \in Nat
      BY TaskAssumption DEF TaskInv, TaskTypeOK
    <3>2. Max({slowest, age}) \in Nat
      BY <3>1, MaxOfTwo
    <3>3. IntervalMs \in Nat /\ ExtendMs \in Nat
      BY TouchNumbers DEF TaskInv
    <3>4. (worst + 1) * IntervalMs \in Nat
      BY <3>1, <3>3, TimesNext
    <3>5. (worst + 2) * Max({slowest, age}) \in Nat
      BY <3>1, <3>2, TimesNext
    <3> QED BY <3>3, <3>4, <3>5
  <2>2. ~LapsedInv
    BY <2>1 DEF LapsedInv
  <2> QED BY <2>2 DEF TaskInv, LeaseInv
<1> QED BY <1>1, TaskInvariance, PTL

\* Touching ends with the handler, when that does not throw at its call.
THEOREM TouchesEndWithHandler ==
  ASSUME ~ThrowsAtCall
  PROVE  TaskSpec => TouchesEnd
<1> DEFINE Ends == touchOut = "none" /\ touchOut' # "none" => task = "racing"
<1>1. TaskInv /\ [TaskNext]_taskVars => [Ends]_taskVars
  <2> SUFFICES ASSUME TaskInv, TaskNext, touchOut = "none", touchOut' # "none"
               PROVE  task = "racing"
    OBVIOUS
  <2>1. Touch
    BY DEF TaskNext, TaskCalled, HandlerEnds, HandlerTimesOut, Settles, ResultSent, TouchAnswered,
           TouchFailed, TouchRefused, TouchOver, TouchRead, ResultTaken, TimePasses
  <2>2. timer # OFF
    BY <2>1 DEF Touch, OFF
  <2> QED BY <2>2 DEF TaskInv, StopInv, TaskTypeOK
<1> QED BY <1>1, TaskInvariance, PTL DEF TaskSpec, TouchesEnd

=============================================================================
