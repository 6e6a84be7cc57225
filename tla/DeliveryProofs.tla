---------------------------- MODULE DeliveryProofs ----------------------------
(***************************************************************************)
(* ResultDelivery for any set of results, any numbers of sends and tries   *)
(* and any bounds: its invariants and its two action properties.           *)
(***************************************************************************)
EXTENDS ResultDelivery, FiniteSets, FiniteSetTheorems, TLAPS

\* The tries the client may make of the current send yet.
TriesLeft(r) == IF pc[r] \in {"awaiting", "backoff"} THEN MaxAttempts - attempt[r] ELSE 0

\* A result that is to be sent still has a send left, and its requests so far
\* leave room for the tries the client may yet make.
SendsInv ==
  \A r \in Results :
    /\ pc[r] \in {"handler", "ready", "dialing", "dialed", "dialFailed", "pausing"}
         => sends[r] < ResultSends
    /\ request[r] + TriesLeft(r) <= sends[r] * MaxAttempts
    /\ pc[r] = "backoff" => attempt[r] < MaxAttempts /\ verdict[r] = "refusedUnrun"

\* The requests of r on their way.
Mine(r) == {q \in transit : q[1] = r}

\* Each send of r was taken, is on its way in one request, or was refused in
\* the last: never two of these.  A request that was answered was read.
TakenInv ==
  \A r \in Results :
    /\ IsFiniteSet(Mine(r))
    /\ received[r] + Cardinality(Mine(r))
         + (IF verdict[r] \in {"refused", "refusedUnrun"} THEN 1 ELSE 0) <= sends[r]
    /\ verdict[r] = "ok" => received[r] > 0
    /\ \A n \in 1..ResultSends * MaxAttempts : <<r, n>> \in transit => n <= request[r]
    /\ verdict[r] # "none" => <<r, request[r]>> \notin transit

\* A delivery's request was written on the connection seen or a later one; a
\* delivery that redials has that connection behind it.
ConnectionInv ==
  /\ closed => closeCount > 0
  /\ \A r \in Results :
       /\ sentOn[r] <= generation /\ seen[r] <= generation
       /\ pc[r] = "awaiting" => sentOn[r] >= seen[r]
       /\ pc[r] = "failed" =>
            \/ ~held
            \/ error[r] \in {"refused", "stream", "invalid"}
            \/ error[r] \in {"connection", "garbled"} /\ sentOn[r] >= seen[r]
       /\ pc[r] \in {"dialing", "dialed", "dialFailed", "pausing"} =>
            ~held \/ generation > seen[r]

Inv == TypeOK /\ SendsInv /\ TakenInv /\ ConnectionInv /\ DeliveredWasTaken /\ NotGivenUpEarly

-----------------------------------------------------------------------------
LEMMA InitInv == Init => Inv
<1> SUFFICES ASSUME Init
             PROVE  Inv
  OBVIOUS
<1>1. /\ ResultSends \in Nat \ {0} /\ MaxAttempts \in Nat \ {0} /\ MaxGenerations \in Nat \ {0}
      /\ MaxCloses \in Nat /\ ResultSends * MaxAttempts \in Nat
  BY DeliveryAssumption
<1>2. \A r \in Results :
        /\ pc[r] = "handler" /\ error[r] = "none" /\ verdict[r] = "none"
  BY DEF Init
<1>7. \A r \in Results :
        /\ sends[r] = 0 /\ attempt[r] = 0 /\ request[r] = 0 /\ sentOn[r] = 0 /\ seen[r] = 0
        /\ received[r] = 0
  BY DEF Init
<1>3. TypeOK
  <2>1. /\ sends \in [Results -> 0..ResultSends] /\ attempt \in [Results -> 0..MaxAttempts]
        /\ request \in [Results -> 0..ResultSends * MaxAttempts]
        /\ sentOn \in [Results -> 0..MaxGenerations] /\ seen \in [Results -> 0..MaxGenerations]
        /\ received \in [Results -> Nat]
    BY <1>1 DEF Init
  <2>2. pc \in [Results -> Ended \cup Ready \cup Waits]
    BY DEF Init, Waits
  <2>3. /\ error \in [Results -> {"none", "connection", "garbled", "header", "stream", "refused", "invalid"}]
        /\ verdict \in [Results -> {"none", "ok", "refused", "refusedUnrun"}]
        /\ graceOver \in [Results -> BOOLEAN]
    BY DEF Init
  <2>4. generation = 1 /\ closeCount = 0 /\ transit = {}
    BY DEF Init
  <2>5. held \in BOOLEAN /\ closed \in BOOLEAN /\ dialing \in BOOLEAN
    BY DEF Init
  <2>6. generation \in 0..MaxGenerations /\ closeCount \in 0..MaxCloses
    BY <1>1, <2>4
  <2> QED BY <2>1, <2>2, <2>3, <2>4, <2>5, <2>6 DEF TypeOK
<1>4. SendsInv
  <2>1. 0 * MaxAttempts = 0
    BY <1>1
  <2>2. \A r \in Results : TriesLeft(r) = 0
    BY <1>2 DEF TriesLeft
  <2>3. \A r \in Results : request[r] + TriesLeft(r) <= sends[r] * MaxAttempts
    <3> SUFFICES ASSUME NEW r \in Results
                 PROVE  request[r] + TriesLeft(r) <= sends[r] * MaxAttempts
      OBVIOUS
    <3>1. request[r] = 0 /\ TriesLeft(r) = 0
      BY <1>7, <2>2
    <3>2. sends[r] * MaxAttempts = 0 * MaxAttempts
      BY <1>7
    <3>3. sends[r] * MaxAttempts = 0
      BY <2>1, <3>2
    <3> QED BY <3>1, <3>3
  <2>4. \A r \in Results : sends[r] < ResultSends
    <3> SUFFICES ASSUME NEW r \in Results
                 PROVE  sends[r] < ResultSends
      OBVIOUS
    <3>1. sends[r] = 0
      BY <1>7
    <3> QED BY <1>1, <3>1
  <2> QED BY <1>2, <2>3, <2>4 DEF SendsInv
<1>5. TakenInv
  <2>1. \A r \in Results : Mine(r) = {}
    BY DEF Init, Mine
  <2>2. IsFiniteSet({}) /\ Cardinality({}) = 0
    BY FS_EmptySet
  <2>3. \A r \in Results : IsFiniteSet(Mine(r)) /\ Cardinality(Mine(r)) = 0
    BY <2>1, <2>2
  <2>4. \A r \in Results : received[r] + Cardinality(Mine(r)) + 0 <= sends[r]
    <3> SUFFICES ASSUME NEW r \in Results
                 PROVE  received[r] + Cardinality(Mine(r)) + 0 <= sends[r]
      OBVIOUS
    <3>1. received[r] = 0 /\ sends[r] = 0
      BY <1>7
    <3>2. Cardinality(Mine(r)) = 0
      BY <2>3
    <3> QED BY <3>1, <3>2
  <2>5. transit = {}
    BY DEF Init
  <2> QED BY <1>2, <2>3, <2>4, <2>5 DEF TakenInv
<1>6. ConnectionInv /\ DeliveredWasTaken /\ NotGivenUpEarly
  <2>1. generation = 1 /\ closed = FALSE
    BY DEF Init
  <2> QED BY <1>2, <1>7, <2>1 DEF ConnectionInv, DeliveredWasTaken, NotGivenUpEarly
<1> QED BY <1>3, <1>4, <1>5, <1>6 DEF Inv

\* A step that touches neither the server's side nor the sends keeps what was
\* taken.
LEMMA TakenKept ==
  ASSUME TakenInv, UNCHANGED <<server, sends, request>>
  PROVE  TakenInv'
BY DEF TakenInv, Mine, server

\* How many requests of a result are on their way is a number.
LEMMA Counts ==
  ASSUME Inv, NEW s \in Results
  PROVE  /\ IsFiniteSet(Mine(s)) /\ Cardinality(Mine(s)) \in Nat
         /\ received[s] \in Nat /\ sends[s] \in Nat
<1>1. IsFiniteSet(Mine(s))
  BY DEF Inv, TakenInv
<1>2. Cardinality(Mine(s)) \in Nat
  BY <1>1, FS_CardinalityType
<1> QED BY <1>1, <1>2, DeliveryAssumption DEF Inv, TypeOK

\* A send's request written: it takes the place of a refused one, or is the
\* one of a new send.
LEMMA WriteTaken ==
  ASSUME Inv, NEW r \in Results, Write(r), UNCHANGED received,
         \/ sends' = [sends EXCEPT ![r] = @ + 1]
         \/ UNCHANGED sends /\ verdict[r] = "refusedUnrun"
  PROVE  TakenInv'
<1> DEFINE q == <<r, request[r] + 1>>
           Fits == 1..ResultSends * MaxAttempts
<1>4. /\ \A s \in Results : s # r => request'[s] = request[s]
      /\ request'[r] = request[r] + 1
      /\ \A s \in Results : request[s] \in Nat
  BY DeliveryAssumption DEF Inv, TypeOK, Write
<1>5. \A s \in Results, n \in Fits : n \in Nat
  OBVIOUS
<1>6. \A s \in Results, n \in Fits : <<s, n>> \in transit => n <= request[s]
  BY DEF Inv, TakenInv
<1>7. <<r, request[r] + 1>> \notin transit
  <2>1. \A n : <<r, n>> \in transit => n \in Fits
    BY DEF Inv, TypeOK
  <2> QED BY <1>4, <1>6, <2>1
<1>8. \A s \in Results : verdict[s] # "none" => <<s, request[s]>> \notin transit
  BY DEF Inv, TakenInv
<1> HIDE DEF Fits
<1>1. \A s \in Results : s # r => sends'[s] = sends[s] /\ verdict'[s] = verdict[s]
  BY DEF Inv, TypeOK, Write
<1>2. CASE held
  <2>1. transit' = transit \cup {q} /\ verdict' = [verdict EXCEPT ![r] = "none"]
    BY <1>2 DEF Write
  <2>2. \A s \in Results : s # r => Mine(s)' = Mine(s)
    BY <2>1 DEF Mine
  <2>3. Mine(r)' = Mine(r) \cup {q}
    BY <2>1 DEF Mine
  <2> HIDE DEF q
  <2>4. IsFiniteSet(Mine(r)') /\ Cardinality(Mine(r)') <= Cardinality(Mine(r)) + 1
        /\ Cardinality(Mine(r)') \in Nat /\ Cardinality(Mine(r)) \in Nat
    <3>1. IsFiniteSet(Mine(r)) /\ Cardinality(Mine(r)) \in Nat
      BY Counts
    <3>2. /\ IsFiniteSet(Mine(r) \cup {q})
          /\ Cardinality(Mine(r) \cup {q})
               = IF q \in Mine(r) THEN Cardinality(Mine(r)) ELSE Cardinality(Mine(r)) + 1
      BY <3>1, FS_AddElement
    <3> QED BY <2>3, <3>1, <3>2
  <2>5. verdict'[r] = "none"
    BY <2>1 DEF Inv, TypeOK
  <2>6. received[r] + Cardinality(Mine(r)') <= sends'[r]
    <3>1. received[r] \in Nat /\ sends[r] \in Nat
      BY DEF Inv, TypeOK
    <3>2. received[r] + Cardinality(Mine(r))
            + (IF verdict[r] \in {"refused", "refusedUnrun"} THEN 1 ELSE 0) <= sends[r]
      BY DEF Inv, TakenInv
    <3>3. CASE sends' = [sends EXCEPT ![r] = @ + 1]
      <4>1. sends'[r] = sends[r] + 1
        BY <3>3 DEF Inv, TypeOK
      <4> QED BY <2>4, <3>1, <3>2, <4>1
    <3>4. CASE UNCHANGED sends /\ verdict[r] = "refusedUnrun"
      BY <2>4, <3>1, <3>2, <3>4
    <3> QED BY <3>3, <3>4
  <2>7. received[r] \in Nat
    BY DEF Inv, TypeOK
  <2>8. \A s \in Results, n \in Fits : <<s, n>> \in transit' => n <= request'[s]
    BY <1>4, <1>5, <1>6, <2>1 DEF q
  <2>9. \A s \in Results : verdict'[s] # "none" => <<s, request'[s]>> \notin transit'
    BY <1>1, <1>4, <1>8, <2>1, <2>5 DEF q
  <2>10. \A s \in Results :
           /\ IsFiniteSet(Mine(s)')
           /\ received[s] + Cardinality(Mine(s)')
                + (IF verdict'[s] \in {"refused", "refusedUnrun"} THEN 1 ELSE 0) <= sends'[s]
           /\ verdict'[s] = "ok" => received[s] > 0
    <3> SUFFICES ASSUME NEW s \in Results
                 PROVE  /\ IsFiniteSet(Mine(s)')
                        /\ received[s] + Cardinality(Mine(s)')
                             + (IF verdict'[s] \in {"refused", "refusedUnrun"} THEN 1 ELSE 0) <= sends'[s]
                        /\ verdict'[s] = "ok" => received[s] > 0
      OBVIOUS
    <3>1. CASE s = r
      <4>1. received[r] + Cardinality(Mine(r)') + 0 <= sends'[r]
        BY <2>4, <2>6, <2>7
      <4> QED BY <2>4, <2>5, <3>1, <4>1
    <3>2. CASE s # r
      BY <1>1, <2>2, <3>2 DEF Inv, TakenInv
    <3> QED BY <3>1, <3>2
  <2> QED BY <2>8, <2>9, <2>10 DEF TakenInv, Fits
<1>3. CASE ~held
  <2>1. UNCHANGED <<transit, verdict>>
    BY <1>3 DEF Write
  <2>2. \A s \in Results : Mine(s)' = Mine(s)
    BY <2>1 DEF Mine
  <2>3. \A s \in Results : sends'[s] >= sends[s] /\ sends'[s] \in Nat
    BY DeliveryAssumption DEF Inv, TypeOK
  <2>4. \A s \in Results, n \in Fits : <<s, n>> \in transit' => n <= request'[s]
    BY <1>4, <1>5, <1>6, <2>1
  <2>5. \A s \in Results : verdict'[s] # "none" => <<s, request'[s]>> \notin transit'
    BY <1>4, <1>7, <1>8, <2>1
  <2>6. \A s \in Results :
          /\ IsFiniteSet(Mine(s)')
          /\ received[s] + Cardinality(Mine(s)')
               + (IF verdict'[s] \in {"refused", "refusedUnrun"} THEN 1 ELSE 0) <= sends'[s]
          /\ verdict'[s] = "ok" => received[s] > 0
    <3> SUFFICES ASSUME NEW s \in Results
                 PROVE  /\ IsFiniteSet(Mine(s)')
                        /\ received[s] + Cardinality(Mine(s)')
                             + (IF verdict'[s] \in {"refused", "refusedUnrun"} THEN 1 ELSE 0) <= sends'[s]
                        /\ verdict'[s] = "ok" => received[s] > 0
      OBVIOUS
    <3>1. /\ received[s] + Cardinality(Mine(s))
               + (IF verdict[s] \in {"refused", "refusedUnrun"} THEN 1 ELSE 0) <= sends[s]
          /\ verdict[s] = "ok" => received[s] > 0
      BY DEF Inv, TakenInv
    <3>2. IsFiniteSet(Mine(s)) /\ Cardinality(Mine(s)) \in Nat /\ received[s] \in Nat /\ sends[s] \in Nat
      BY Counts
    <3>3. Mine(s)' = Mine(s) /\ verdict'[s] = verdict[s] /\ sends'[s] >= sends[s] /\ sends'[s] \in Nat
      BY <2>1, <2>2, <2>3
    <3> QED BY <3>1, <3>2, <3>3
  <2> QED BY <2>4, <2>5, <2>6 DEF TakenInv, Fits
<1> QED BY <1>2, <1>3

\* The requests of a result fit the sends and tries it may make.
LEMMA RequestFits ==
  ASSUME Inv, NEW r \in Results
  PROVE  /\ sends[r] \in 0..ResultSends /\ attempt[r] \in 0..MaxAttempts /\ request[r] \in Nat
         /\ sends[r] < ResultSends => request[r] + MaxAttempts <= ResultSends * MaxAttempts
         /\ TriesLeft(r) \in Nat
         /\ TriesLeft(r) > 0 => request[r] + 1 <= ResultSends * MaxAttempts
         /\ request[r] <= sends[r] * MaxAttempts
         /\ (sends[r] + 1) * MaxAttempts = sends[r] * MaxAttempts + MaxAttempts
<1> USE DeliveryAssumption
<1>1. /\ sends[r] \in 0..ResultSends /\ attempt[r] \in 0..MaxAttempts
      /\ request[r] \in 0..ResultSends * MaxAttempts
      /\ request[r] + TriesLeft(r) <= sends[r] * MaxAttempts
  BY DEF Inv, TypeOK, SendsInv
<1>2. ASSUME NEW a \in Nat, NEW b \in Nat, NEW m \in Nat, a <= b
      PROVE  a * m <= b * m
  BY <1>2
<1>3. ASSUME NEW a \in Nat, NEW m \in Nat
      PROVE  (a + 1) * m = a * m + m
  OBVIOUS
<1>4. sends[r] * MaxAttempts <= ResultSends * MaxAttempts
  BY <1>1, <1>2
<1>5. (sends[r] + 1) * MaxAttempts = sends[r] * MaxAttempts + MaxAttempts
  BY <1>1, <1>3
<1>6. sends[r] < ResultSends => (sends[r] + 1) * MaxAttempts <= ResultSends * MaxAttempts
  BY <1>1, <1>2
<1>7. sends[r] * MaxAttempts \in Nat /\ ResultSends * MaxAttempts \in Nat
  BY <1>1
<1>8. TriesLeft(r) \in Nat
  BY <1>1 DEF TriesLeft
<1> QED BY <1>1, <1>4, <1>5, <1>6, <1>7, <1>8

LEMMA HandlerDoneStep ==
  ASSUME Inv, NEW r \in Results, HandlerDone(r)
  PROVE  Inv'
<1> USE DEF Inv, HandlerDone, Goto, connection, delivery, server
<1>1. TypeOK'
  BY DEF TypeOK, Ready
<1>2. SendsInv'
  BY DEF SendsInv, TypeOK, TriesLeft
<1>3. TakenInv'
  BY TakenKept
<1>4. ConnectionInv'
  BY DEF ConnectionInv, TypeOK
<1>5. DeliveredWasTaken' /\ NotGivenUpEarly'
  BY DEF DeliveredWasTaken, NotGivenUpEarly, TypeOK
<1> QED BY <1>1, <1>2, <1>3, <1>4, <1>5

\* Send and RetryTimer both write a request.
LEMMA WriteStep ==
  ASSUME Inv, NEW r \in Results, Write(r), UNCHANGED <<connection, dialing, graceOver, received>>,
         \/ /\ pc[r] = "ready"
            /\ sends' = [sends EXCEPT ![r] = @ + 1] /\ attempt' = [attempt EXCEPT ![r] = 1]
            /\ seen' = [seen EXCEPT ![r] = generation]
         \/ /\ pc[r] = "backoff"
            /\ attempt' = [attempt EXCEPT ![r] = @ + 1] /\ UNCHANGED <<sends, seen>>
  PROVE  Inv'
<1> USE DEF Inv
<1>0. /\ ResultSends \in Nat /\ MaxAttempts \in Nat \ {0} /\ ResultSends * MaxAttempts \in Nat
  BY DeliveryAssumption
<1>1. /\ request' = [request EXCEPT ![r] = request[r] + 1]
      /\ request' \in [Results -> 0..ResultSends * MaxAttempts]
  <2>1. request[r] + 1 \in 0..ResultSends * MaxAttempts
    <3>1. CASE pc[r] = "ready"
      BY <1>0, <3>1, RequestFits DEF SendsInv
    <3>2. CASE pc[r] = "backoff"
      <4>1. TriesLeft(r) > 0
        BY <1>0, <3>2, RequestFits DEF SendsInv, TriesLeft
      <4> QED BY <1>0, <4>1, RequestFits
    <3> QED BY <3>1, <3>2
  <2> QED BY <2>1 DEF Write, TypeOK
<1>2. TypeOK'
  <2>1. sends' \in [Results -> 0..ResultSends]
    BY <1>0 DEF TypeOK, SendsInv
  <2>2. attempt' \in [Results -> 0..MaxAttempts]
    BY <1>0 DEF TypeOK, SendsInv
  <2>3. seen' \in [Results -> 0..MaxGenerations] /\ sentOn' \in [Results -> 0..MaxGenerations]
    BY DEF TypeOK, Write
  <2>4. pc' \in [Results -> Ended \cup Ready \cup Waits]
    BY DEF TypeOK, Write, Goto, Ready, Waits
  <2>5. transit' \subseteq Results \X (1..ResultSends * MaxAttempts)
    <3>1. request[r] + 1 \in 1..ResultSends * MaxAttempts
      BY <1>0, <1>1 DEF TypeOK
    <3> QED BY <3>1 DEF TypeOK, Write
  <2>6. /\ verdict' \in [Results -> {"none", "ok", "refused", "refusedUnrun"}]
        /\ error' \in [Results -> {"none", "connection", "garbled", "header", "stream", "refused", "invalid"}]
    BY DEF TypeOK, Write
  <2> QED BY <1>1, <2>1, <2>2, <2>3, <2>4, <2>5, <2>6 DEF TypeOK, connection
<1>3. SendsInv'
  <2> SUFFICES ASSUME NEW s \in Results
               PROVE  SendsInv!(s)'
    BY DEF SendsInv
  <2>1. CASE s # r
    <3>1. /\ sends'[s] = sends[s] /\ attempt'[s] = attempt[s] /\ request'[s] = request[s]
          /\ pc'[s] = pc[s] /\ verdict'[s] = verdict[s]
      BY <1>1, <2>1 DEF TypeOK, Write, Goto
    <3> QED BY <3>1 DEF SendsInv, TriesLeft
  <2>2. CASE s = r
    <3>1. pc'[r] \in {"awaiting", "failed"}
      BY DEF TypeOK, Write, Goto
    <3>2. /\ request'[r] + (MaxAttempts - attempt'[r]) <= sends'[r] * MaxAttempts
          /\ request'[r] \in Nat /\ attempt'[r] \in 1..MaxAttempts /\ sends'[r] * MaxAttempts \in Nat
      <4>1. request'[r] = request[r] + 1
        BY <1>1 DEF TypeOK
      <4>2. CASE pc[r] = "ready" /\ sends' = [sends EXCEPT ![r] = @ + 1]
                 /\ attempt' = [attempt EXCEPT ![r] = 1]
        <5>1. sends'[r] = sends[r] + 1 /\ attempt'[r] = 1
          BY <4>2 DEF TypeOK
        <5>2. sends[r] * MaxAttempts \in Nat
          BY <1>0, RequestFits
        <5> QED BY <1>0, <4>1, <5>1, <5>2, RequestFits
      <4>3. CASE pc[r] = "backoff" /\ attempt' = [attempt EXCEPT ![r] = @ + 1] /\ UNCHANGED sends
        <5>1. attempt'[r] = attempt[r] + 1 /\ sends'[r] = sends[r]
          BY <4>3 DEF TypeOK
        <5>2. request[r] + (MaxAttempts - attempt[r]) <= sends[r] * MaxAttempts
              /\ attempt[r] < MaxAttempts
          BY <4>3 DEF SendsInv, TriesLeft
        <5>3. request[r] \in Nat /\ attempt[r] \in Nat /\ sends[r] * MaxAttempts \in Nat
          BY <1>0, RequestFits
        <5> QED BY <1>0, <4>1, <5>1, <5>2, <5>3
      <4> QED BY <4>2, <4>3
    <3>3. request'[r] + (IF pc'[r] \in {"awaiting", "backoff"} THEN MaxAttempts - attempt'[r] ELSE 0)
            <= sends'[r] * MaxAttempts
      BY <1>0, <3>1, <3>2
    <3> QED BY <2>2, <3>1, <3>3 DEF SendsInv, TriesLeft
  <2> QED BY <2>1, <2>2
<1>4. TakenInv'
  <2>1. pc[r] = "backoff" => verdict[r] = "refusedUnrun"
    BY DEF SendsInv
  <2> QED BY <2>1, WriteTaken
<1>5. ConnectionInv'
  BY DEF ConnectionInv, TypeOK, Write, Goto, connection
<1>6. DeliveredWasTaken'
  BY DEF DeliveredWasTaken, TypeOK, Write, Goto
<1>7. NotGivenUpEarly'
  BY DEF NotGivenUpEarly, TypeOK, Write, Goto, connection
<1> QED BY <1>2, <1>3, <1>4, <1>5, <1>6, <1>7

LEMMA SendInvalidStep ==
  ASSUME Inv, NEW r \in Results, SendInvalid(r)
  PROVE  Inv'
<1> USE DEF Inv
<1>0. ResultSends \in Nat /\ MaxAttempts \in Nat \ {0}
  BY DeliveryAssumption
<1>1. /\ pc[r] = "ready" /\ sends' = [sends EXCEPT ![r] = @ + 1]
      /\ seen' = [seen EXCEPT ![r] = generation] /\ pc' = [pc EXCEPT ![r] = "failed"]
      /\ error' = [error EXCEPT ![r] = "invalid"]
      /\ UNCHANGED <<held, generation, closed, closeCount, dialing, attempt, request, sentOn,
                     graceOver, transit, verdict, received>>
  BY DEF SendInvalid, Goto, connection, server
<1>2. TypeOK'
  <2>1. sends' \in [Results -> 0..ResultSends]
    BY <1>0, <1>1 DEF TypeOK, SendsInv
  <2> QED BY <1>1, <2>1 DEF TypeOK, Ready
<1>3. \A s \in Results : sends'[s] \in Nat /\ sends[s] \in Nat /\ sends'[s] >= sends[s]
  BY <1>0, <1>1 DEF TypeOK
<1>4. SendsInv'
  <2>1. \A s \in Results : request'[s] + TriesLeft(s)' <= sends'[s] * MaxAttempts
    <3> SUFFICES ASSUME NEW s \in Results
                 PROVE  request'[s] + TriesLeft(s)' <= sends'[s] * MaxAttempts
      OBVIOUS
    <3>1. sends'[s] = sends[s] \/ sends'[s] = sends[s] + 1
      BY <1>0, <1>1 DEF TypeOK
    <3>2. request[s] + TriesLeft(s) <= sends[s] * MaxAttempts
      BY DEF SendsInv
    <3>3. request[s] \in Nat /\ TriesLeft(s) \in Nat /\ sends[s] * MaxAttempts \in Nat
          /\ (sends[s] + 1) * MaxAttempts = sends[s] * MaxAttempts + MaxAttempts
      BY <1>0, RequestFits
    <3>4. TriesLeft(s)' = TriesLeft(s)
      BY <1>1 DEF TriesLeft, TypeOK
    <3> QED BY <1>0, <1>1, <3>1, <3>2, <3>3, <3>4
  <2>2. \A s \in Results :
          /\ pc'[s] \in {"handler", "ready", "dialing", "dialed", "dialFailed", "pausing"}
               => sends'[s] < ResultSends
          /\ pc'[s] = "backoff" => attempt[s] < MaxAttempts /\ verdict[s] = "refusedUnrun"
    BY <1>1 DEF SendsInv, TypeOK
  <2> QED BY <1>1, <2>1, <2>2 DEF SendsInv
<1>5. TakenInv'
  <2>1. \A s \in Results : Mine(s)' = Mine(s)
    BY <1>1 DEF Mine
  <2> QED BY <1>1, <1>3, <2>1, Counts DEF TakenInv
<1>6. ConnectionInv'
  BY <1>1 DEF ConnectionInv, TypeOK
<1>7. DeliveredWasTaken' /\ NotGivenUpEarly'
  BY <1>1, <1>3 DEF DeliveredWasTaken, NotGivenUpEarly, TypeOK
<1> QED BY <1>2, <1>4, <1>5, <1>6, <1>7

\* The answer arrives: delivered if it was taken, tried again if not run.
LEMMA AnsweredStep ==
  ASSUME Inv, NEW r \in Results, Answered(r)
  PROVE  Inv'
<1> USE DEF Inv
<1>1. /\ pc[r] = "awaiting"
      /\ UNCHANGED <<connection, dialing, delivery, graceOver, server>>
      /\ \A s \in Results : s # r => pc'[s] = pc[s] /\ error'[s] = error[s]
      /\ \/ pc'[r] = "delivered" /\ verdict[r] = "ok" /\ error'[r] = error[r]
         \/ pc'[r] = "backoff" /\ verdict[r] = "refusedUnrun" /\ attempt[r] < MaxAttempts
            /\ error'[r] = error[r]
         \/ pc'[r] = "failed" /\ error'[r] \in {"refused", "garbled"}
  BY DEF Answered, Goto, TypeOK
<1>2. TypeOK'
  BY DEF Answered, Goto, TypeOK, Ended, Ready, Waits, connection, delivery, server
<1>3. SendsInv'
  <2>1. \A s \in Results : TriesLeft(s)' <= TriesLeft(s) /\ TriesLeft(s)' \in Nat
    BY <1>1, DeliveryAssumption DEF TriesLeft, TypeOK, delivery
  <2>2. \A s \in Results : request[s] + TriesLeft(s)' <= sends[s] * MaxAttempts
    <3> SUFFICES ASSUME NEW s \in Results
                 PROVE  request[s] + TriesLeft(s)' <= sends[s] * MaxAttempts
      OBVIOUS
    <3>1. request[s] + TriesLeft(s) <= sends[s] * MaxAttempts
      BY DEF SendsInv
    <3>2. request[s] \in Nat /\ TriesLeft(s) \in Nat /\ sends[s] * MaxAttempts \in Nat
      BY DeliveryAssumption, RequestFits
    <3> QED BY <2>1, <3>1, <3>2
  <2> QED BY <1>1, <2>2 DEF SendsInv, delivery, server
<1>4. TakenInv'
  BY <1>1, TakenKept DEF delivery
<1>5. ConnectionInv'
  BY <1>1 DEF ConnectionInv, connection, delivery
<1>6. DeliveredWasTaken' /\ NotGivenUpEarly'
  BY <1>1 DEF DeliveredWasTaken, NotGivenUpEarly, TakenInv, connection, delivery, server
<1> QED BY <1>2, <1>3, <1>4, <1>5, <1>6

\* A step in which deliveries only go on, without a request, an answer or a
\* connection, keeps the sends that are left.
LEMMA SendsKept ==
  ASSUME Inv, UNCHANGED <<delivery, verdict>>, TypeOK',
         \A s \in Results :
           /\ pc'[s] \in {"handler", "ready", "dialing", "dialed", "dialFailed", "pausing"}
                => sends[s] < ResultSends
           /\ pc'[s] \in {"awaiting", "backoff"} => pc'[s] = pc[s]
  PROVE  SendsInv'
<1> SUFFICES ASSUME NEW s \in Results
             PROVE  SendsInv!(s)'
  BY DEF SendsInv
<1>1. request[s] + TriesLeft(s) <= sends[s] * MaxAttempts
  BY DEF Inv, SendsInv
<1>2. request[s] \in Nat /\ TriesLeft(s) \in Nat /\ sends[s] * MaxAttempts \in Nat
  BY DeliveryAssumption, RequestFits
<1>3. TriesLeft(s)' <= TriesLeft(s) /\ TriesLeft(s)' \in Nat
  BY <1>2 DEF TriesLeft, delivery
<1>4. request[s] + TriesLeft(s)' <= sends[s] * MaxAttempts
  BY <1>1, <1>2, <1>3
<1> QED BY <1>4 DEF Inv, SendsInv, delivery

\* The wait for an answer ends without one.
LEMMA RequestTimeoutStep ==
  ASSUME Inv, NEW r \in Results, RequestTimeout(r)
  PROVE  Inv'
<1> USE DEF Inv
<1>1. /\ pc[r] = "awaiting" /\ pc' = [pc EXCEPT ![r] = "failed"]
      /\ error' = [error EXCEPT ![r] = "connection"]
      /\ UNCHANGED <<connection, dialing, delivery, graceOver, server>>
  BY DEF RequestTimeout, Goto
<1>2. TypeOK'
  BY <1>1 DEF TypeOK, Ready, connection, delivery, server
<1>3. SendsInv'
  BY <1>1, <1>2, SendsKept DEF TypeOK, SendsInv, server
<1>4. TakenInv'
  BY <1>1, TakenKept DEF delivery
<1>5. ConnectionInv'
  BY <1>1 DEF ConnectionInv, TypeOK, connection, delivery
<1>6. DeliveredWasTaken' /\ NotGivenUpEarly'
  BY <1>1 DEF DeliveredWasTaken, NotGivenUpEarly, TypeOK, connection, delivery, server
<1> QED BY <1>2, <1>3, <1>4, <1>5, <1>6

\* A result that is to be sent again redials, or is given up for its grace or
\* the owner's close.
LEMMA GiveUpOrRedialStep ==
  ASSUME Inv, NEW r \in Results, pc[r] \in {"failed", "pausing"}, sends[r] < ResultSends,
         GiveUpOrRedial(r), UNCHANGED <<delivery, graceOver, server>>
  PROVE  Inv'
<1> USE DEF Inv
<1>1. CASE Goto(r, "dropped") /\ (graceOver[r] \/ ClosedSince)
           /\ UNCHANGED <<connection, dialing, error>>
  <2>8. pc'[r] = "dropped" /\ \A s \in Results : s # r => pc'[s] = pc[s]
    BY <1>1 DEF TypeOK, Goto
  <2>1. TypeOK'
    BY <1>1 DEF TypeOK, Goto, Ended, connection, delivery, server
  <2>2. SendsInv'
    BY <1>1, <2>1, SendsKept DEF TypeOK, SendsInv, Goto, server
  <2>3. TakenInv'
    BY TakenKept DEF delivery
  <2>4. ConnectionInv'
    BY <1>1, <2>8 DEF ConnectionInv, connection, delivery
  <2>5. DeliveredWasTaken'
    BY <2>8 DEF DeliveredWasTaken, server
  <2>6. ClosedSince => closeCount > 0
    BY DEF ClosedSince, ConnectionInv, TypeOK
  <2>7. NotGivenUpEarly'
    BY <1>1, <2>6, <2>8 DEF NotGivenUpEarly, connection, delivery
  <2> QED BY <2>1, <2>2, <2>3, <2>4, <2>5, <2>7
<1>2. CASE Redial(r)
  <2>1. /\ UNCHANGED <<generation, closeCount>> /\ closed' = FALSE
        /\ held' \in BOOLEAN /\ (held' => held) /\ dialing' \in BOOLEAN
    <3>1. UNCHANGED <<generation, closeCount>> /\ closed' = FALSE
      BY <1>2 DEF Redial
    <3>2. (held' = FALSE \/ held' = held) /\ (dialing' = TRUE \/ dialing' = dialing)
      BY <1>2 DEF Redial, LetGo
    <3>3. held \in BOOLEAN /\ dialing \in BOOLEAN
      BY DEF TypeOK
    <3>4. held' \in BOOLEAN /\ dialing' \in BOOLEAN
      BY <3>2, <3>3
    <3>5. held' => held
      BY <3>2
    <3> QED BY <3>1, <3>4, <3>5
  <2>2. /\ pc'[r] \in {"dialing", "dialed"} /\ error'[r] = error[r]
        /\ pc'[r] = "dialing" => ~held'
        /\ pc'[r] = "dialed" => held /\ generation # seen[r]
        /\ \A s \in Results : s # r =>
             \/ pc'[s] = pc[s] /\ error'[s] = error[s]
             \/ pc[s] = "awaiting" /\ pc'[s] = "failed" /\ error'[s] = "connection" /\ ~held'
    <3>1. CASE held /\ generation = seen[r]
      <4>1. /\ held' = FALSE /\ pc' = [AllFail EXCEPT ![r] = "dialing"]
            /\ error' = [s \in Results |-> IF pc[s] = "awaiting" THEN "connection" ELSE error[s]]
        BY <1>2, <3>1 DEF Redial, LetGo
      <4>2. \A s \in Results :
              pc'[s] = IF s = r THEN "dialing" ELSE IF pc[s] = "awaiting" THEN "failed" ELSE pc[s]
        BY <4>1 DEF AllFail
      <4>3. \A s \in Results : error'[s] = IF pc[s] = "awaiting" THEN "connection" ELSE error[s]
        BY <4>1
      <4> QED BY <4>1, <4>2, <4>3
    <3>2. CASE ~held
      <4>1. /\ held' = held /\ error' = error /\ pc' = [pc EXCEPT ![r] = "dialing"]
        BY <1>2, <3>2 DEF Redial, Goto
      <4>2. \A s \in Results : pc'[s] = IF s = r THEN "dialing" ELSE pc[s]
        BY <4>1 DEF TypeOK
      <4> QED BY <3>2, <4>1, <4>2
    <3>3. CASE held /\ generation # seen[r]
      <4>1. /\ held' = held /\ error' = error /\ pc' = [pc EXCEPT ![r] = "dialed"]
        BY <1>2, <3>3 DEF Redial, Goto
      <4>2. \A s \in Results : pc'[s] = IF s = r THEN "dialed" ELSE pc[s]
        BY <4>1 DEF TypeOK
      <4> QED BY <3>3, <4>1, <4>2
    <3> QED BY <3>1, <3>2, <3>3
  <2>3. TypeOK'
    <3>1. pc' \in [Results -> Ended \cup Ready \cup Waits]
      <4>1. AllFail \in [Results -> Ended \cup Ready \cup Waits]
        BY DEF AllFail, TypeOK, Ready
      <4>2. "dialing" \in Ended \cup Ready \cup Waits /\ "dialed" \in Ended \cup Ready \cup Waits
        BY DEF Ready, Waits
      <4> QED BY <1>2, <4>1, <4>2 DEF Redial, Goto, TypeOK
    <3>2. error' \in [Results -> {"none", "connection", "garbled", "header", "stream", "refused", "invalid"}]
      BY <1>2 DEF Redial, LetGo, TypeOK
    <3> QED BY <2>1, <3>1, <3>2 DEF TypeOK, delivery, server
  <2>4. SendsInv'
    BY <2>2, <2>3, SendsKept DEF SendsInv, server
  <2>5. TakenInv'
    BY TakenKept DEF delivery
  <2>6. ConnectionInv'
    BY <2>1, <2>2 DEF ConnectionInv, TypeOK, delivery
  <2>7. DeliveredWasTaken' /\ NotGivenUpEarly'
    BY <2>1, <2>2 DEF DeliveredWasTaken, NotGivenUpEarly, delivery, server
  <2> QED BY <2>3, <2>4, <2>5, <2>6, <2>7
<1> QED BY <1>1, <1>2 DEF GiveUpOrRedial

\* The send threw: a result is dropped for its refusal, its form or its last
\* send, or is to be sent again.
LEMMA FailedStep ==
  ASSUME Inv, NEW r \in Results, Failed(r)
  PROVE  Inv'
<1> USE DEF Inv
<1>1. pc[r] = "failed" /\ UNCHANGED <<delivery, graceOver, server>>
  BY DEF Failed
<1>2. CASE Lost(r) /\ sends[r] < ResultSends /\ GiveUpOrRedial(r)
  BY <1>1, <1>2, GiveUpOrRedialStep
<1>3. CASE /\ ~Lost(r) \/ sends[r] >= ResultSends
           /\ Goto(r, "dropped") /\ UNCHANGED <<connection, dialing, error>>
  <2>1. pc'[r] = "dropped" /\ \A s \in Results : s # r => pc'[s] = pc[s]
    BY <1>3 DEF TypeOK, Goto
  <2>2. TypeOK'
    BY <1>1, <1>3 DEF TypeOK, Goto, Ended, connection, delivery, server
  <2>3. SendsInv'
    BY <1>1, <2>1, <2>2, SendsKept DEF SendsInv, server
  <2>4. TakenInv'
    BY <1>1, TakenKept DEF delivery
  <2>5. ConnectionInv'
    BY <1>1, <1>3, <2>1 DEF ConnectionInv, connection, delivery
  <2>6. DeliveredWasTaken'
    BY <1>1, <2>1 DEF DeliveredWasTaken, server
  <2>7. error[r] \in {"refused", "stream", "invalid"} \/ sends[r] = ResultSends
    <3>1. CASE sends[r] >= ResultSends
      <4>1. sends[r] \in 0..ResultSends /\ ResultSends \in Nat
        BY DeliveryAssumption DEF TypeOK
      <4> QED BY <3>1, <4>1
    <3>2. CASE ~Lost(r)
      BY <1>1, <3>2 DEF Lost, ConnectionInv
    <3> QED BY <1>3, <3>1, <3>2
  <2>8. NotGivenUpEarly'
    BY <1>1, <1>3, <2>1, <2>7 DEF NotGivenUpEarly, connection, delivery
  <2> QED BY <2>2, <2>3, <2>4, <2>5, <2>6, <2>8
<1> QED BY <1>2, <1>3 DEF Failed

\* redial returned.
LEMMA DialedStep ==
  ASSUME Inv, NEW r \in Results, Dialed(r)
  PROVE  Inv'
<1> USE DEF Inv
<1>1. /\ pc[r] = "dialed" /\ UNCHANGED <<connection, dialing, delivery, error, graceOver, server>>
      /\ \A s \in Results : s # r => pc'[s] = pc[s]
      /\ pc'[r] = "ready" \/ (pc'[r] = "dropped" /\ (graceOver[r] \/ ClosedSince))
  BY DEF Dialed, Goto, TypeOK
<1>2. TypeOK'
  BY DEF Dialed, Goto, TypeOK, Ended, Ready, connection, delivery, server
<1>3. SendsInv'
  BY <1>1, <1>2, SendsKept DEF SendsInv, server
<1>4. TakenInv'
  BY <1>1, TakenKept DEF delivery
<1>5. ConnectionInv'
  BY <1>1 DEF ConnectionInv, connection, delivery
<1>6. DeliveredWasTaken'
  BY <1>1 DEF DeliveredWasTaken, server
<1>7. ClosedSince => closeCount > 0
  BY DEF ClosedSince, ConnectionInv, TypeOK
<1>8. NotGivenUpEarly'
  BY <1>1, <1>7 DEF NotGivenUpEarly, connection, delivery
<1> QED BY <1>2, <1>3, <1>4, <1>5, <1>6, <1>8

\* redial threw.
LEMMA DialThrewStep ==
  ASSUME Inv, NEW r \in Results, DialThrew(r)
  PROVE  Inv'
<1> USE DEF Inv
<1>1. /\ pc[r] = "dialFailed" /\ UNCHANGED <<connection, dialing, delivery, error, graceOver, server>>
      /\ pc'[r] = "pausing" /\ \A s \in Results : s # r => pc'[s] = pc[s]
  BY DEF DialThrew, Goto, TypeOK
<1>2. TypeOK'
  BY DEF DialThrew, Goto, TypeOK, Waits, connection, delivery, server
<1>3. SendsInv'
  BY <1>1, <1>2, SendsKept DEF SendsInv, server
<1>4. TakenInv'
  BY <1>1, TakenKept DEF delivery
<1>5. ConnectionInv'
  BY <1>1 DEF ConnectionInv, connection, delivery
<1>6. DeliveredWasTaken' /\ NotGivenUpEarly'
  BY <1>1 DEF DeliveredWasTaken, NotGivenUpEarly, connection, delivery, server
<1> QED BY <1>2, <1>3, <1>4, <1>5, <1>6

\* The grace only begins to be over.
LEMMA GraceOverStep ==
  ASSUME Inv, NEW r \in Results, GraceOver(r)
  PROVE  Inv'
<1> USE DEF Inv
<1>1. /\ UNCHANGED <<connection, dialing, pc, delivery, error, server>>
      /\ graceOver' = [graceOver EXCEPT ![r] = TRUE]
  BY DEF GraceOver
<1>2. TypeOK'
  BY <1>1 DEF TypeOK, connection, delivery, server
<1>3. SendsInv'
  BY <1>1, <1>2, SendsKept DEF SendsInv, server
<1>4. TakenInv'
  BY <1>1, TakenKept DEF delivery
<1>5. ConnectionInv'
  BY <1>1 DEF ConnectionInv, connection, delivery
<1>6. DeliveredWasTaken'
  BY <1>1 DEF DeliveredWasTaken, server
<1>7. NotGivenUpEarly'
  <2>1. \A s \in Results : graceOver[s] => graceOver'[s]
    BY <1>1 DEF TypeOK
  <2> QED BY <1>1, <2>1 DEF NotGivenUpEarly, connection, delivery
<1> QED BY <1>2, <1>3, <1>4, <1>5, <1>6, <1>7

\* A dial that succeeds makes a connection later than any seen.
LEMMA DialEndsStep ==
  ASSUME Inv, NEW ok \in BOOLEAN, DialEnds(ok)
  PROVE  Inv'
<1> USE DEF Inv
<1>1. /\ Settled /\ dialing' = FALSE
      /\ UNCHANGED <<closed, closeCount, delivery, error, graceOver, server>>
      /\ \A s \in Results :
           \/ pc[s] # "dialing" /\ pc'[s] = pc[s]
           \/ pc[s] = "dialing" /\ pc'[s] \in {"dialed", "dialFailed"}
  BY DEF DialEnds
<1>2. held' \in BOOLEAN
  BY DEF DialEnds, TypeOK
<1>3. /\ generation' \in 0..MaxGenerations /\ generation' >= generation
      /\ held' => generation' = generation + 1
  BY DeliveryAssumption DEF DialEnds, TypeOK
<1>4. TypeOK'
  <2>1. pc' \in [Results -> Ended \cup Ready \cup Waits]
    <3>1. pc' = [s \in Results |-> IF pc[s] # "dialing" THEN pc[s]
                                   ELSE IF held' THEN "dialed" ELSE "dialFailed"]
      BY DEF DialEnds
    <3> QED BY <3>1 DEF TypeOK, Ready
  <2> QED BY <1>1, <1>2, <1>3, <2>1 DEF TypeOK, delivery, server
<1>5. SendsInv'
  BY <1>1, <1>4, SendsKept DEF SendsInv, server
<1>6. TakenInv'
  BY <1>1, TakenKept DEF delivery
<1>7. ConnectionInv'
  <2>1. \A s \in Results : pc[s] # "failed"
    BY <1>1 DEF Settled, Ready
  <2>2. \A s \in Results : pc'[s] # "failed"
    BY <1>1, <2>1
  <2>3. \A s \in Results : sentOn[s] <= generation' /\ seen[s] <= generation'
    <3> SUFFICES ASSUME NEW s \in Results
                 PROVE  sentOn[s] <= generation' /\ seen[s] <= generation'
      OBVIOUS
    <3>1. sentOn[s] \in 0..MaxGenerations /\ seen[s] \in 0..MaxGenerations
          /\ generation \in 0..MaxGenerations
      BY DEF TypeOK
    <3>2. sentOn[s] <= generation /\ seen[s] <= generation
      BY DEF ConnectionInv
    <3> QED BY <1>3, <3>1, <3>2, DeliveryAssumption
  <2>4. \A s \in Results : held' => generation' > seen[s]
    <3> SUFFICES ASSUME NEW s \in Results, held'
                 PROVE  generation' > seen[s]
      OBVIOUS
    <3>1. seen[s] \in 0..MaxGenerations /\ generation \in 0..MaxGenerations /\ seen[s] <= generation
      BY DEF TypeOK, ConnectionInv
    <3> QED BY <1>3, <3>1, DeliveryAssumption
  <2>5. \A s \in Results : pc'[s] = "awaiting" => sentOn[s] >= seen[s]
    BY <1>1 DEF ConnectionInv
  <2>6. closed' => closeCount' > 0
    BY <1>1 DEF ConnectionInv
  <2>7. UNCHANGED <<sentOn, seen>>
    BY <1>1 DEF delivery
  <2> QED BY <2>2, <2>3, <2>4, <2>5, <2>6, <2>7 DEF ConnectionInv
<1>8. DeliveredWasTaken' /\ NotGivenUpEarly'
  BY <1>1 DEF DeliveredWasTaken, NotGivenUpEarly, delivery, server
<1> QED BY <1>4, <1>5, <1>6, <1>7, <1>8

\* Whoever lets the connection go fails the requests waiting on it, and
\* nothing more.
LEMMA LetGoStep ==
  ASSUME Inv, NEW err \in {"connection", "header", "stream"}, LetGo(err), pc' = AllFail,
         UNCHANGED <<generation, delivery, graceOver, server>>, dialing' \in BOOLEAN,
         closed' \in BOOLEAN, closeCount' \in 0..MaxCloses, closeCount' >= closeCount,
         closed' => closeCount' > 0
  PROVE  Inv'
<1> USE DEF Inv
<1>1. /\ held' = FALSE
      /\ \A s \in Results :
           \/ pc[s] # "awaiting" /\ pc'[s] = pc[s] /\ error'[s] = error[s]
           \/ pc[s] = "awaiting" /\ pc'[s] = "failed"
  BY DEF LetGo, AllFail
<1>2. TypeOK'
  <2>1. pc' \in [Results -> Ended \cup Ready \cup Waits]
    BY DEF AllFail, TypeOK, Ready
  <2>2. error' \in [Results -> {"none", "connection", "garbled", "header", "stream", "refused", "invalid"}]
    BY DEF LetGo, TypeOK
  <2> QED BY <1>1, <2>1, <2>2 DEF TypeOK, delivery, server
<1>3. SendsInv'
  BY <1>1, <1>2, SendsKept DEF SendsInv, server
<1>4. TakenInv'
  BY TakenKept DEF delivery
<1>5. ConnectionInv'
  BY <1>1 DEF ConnectionInv, delivery
<1>6. DeliveredWasTaken'
  BY <1>1 DEF DeliveredWasTaken, server
<1>7. NotGivenUpEarly'
  <2>1. closeCount > 0 => closeCount' > 0
    BY DeliveryAssumption DEF TypeOK
  <2>2. \A s \in Results : pc'[s] = "dropped" => pc[s] = "dropped" /\ error'[s] = error[s]
    BY <1>1
  <2> QED BY <2>1, <2>2 DEF NotGivenUpEarly, delivery
<1> QED BY <1>2, <1>3, <1>4, <1>5, <1>6, <1>7

\* The network, the owner and the others sharing the connection.
LEMMA OthersStep ==
  ASSUME Inv, ConnectionEnds \/ OwnerCloses \/ OwnerConnects \/ OtherRedials
  PROVE  Inv'
<1> USE DEF Inv
<1>1. /\ closeCount \in 0..MaxCloses /\ MaxCloses \in Nat /\ closed \in BOOLEAN
      /\ dialing \in BOOLEAN /\ (closed => closeCount > 0)
  BY DeliveryAssumption DEF TypeOK, ConnectionInv
<1>2. CASE ConnectionEnds
  <2>1. PICK err \in {"connection", "header", "stream"} : LetGo(err)
    BY <1>2 DEF ConnectionEnds
  <2>2. /\ pc' = AllFail
        /\ UNCHANGED <<generation, closed, closeCount, dialing, delivery, graceOver, server>>
    BY <1>2 DEF ConnectionEnds
  <2>3. closeCount' >= closeCount
    BY <1>1, <2>2
  <2> QED BY <1>1, <2>1, <2>2, <2>3, LetGoStep
<1>3. CASE OwnerCloses
  <2>1. /\ LetGo("connection") /\ pc' = AllFail /\ closed' = TRUE
        /\ closeCount < MaxCloses /\ closeCount' = closeCount + 1
        /\ UNCHANGED <<generation, dialing, delivery, graceOver, server>>
    BY <1>3 DEF OwnerCloses
  <2>2. closeCount' \in 0..MaxCloses /\ closeCount' >= closeCount /\ closeCount' > 0
    BY <1>1, <2>1
  <2> QED BY <1>1, <2>1, <2>2, LetGoStep
<1>4. CASE OtherRedials
  <2>1. /\ LetGo("connection") /\ pc' = AllFail /\ dialing' = TRUE
        /\ UNCHANGED <<generation, closed, closeCount, delivery, graceOver, server>>
    BY <1>4 DEF OtherRedials
  <2>2. closeCount' >= closeCount
    BY <1>1, <2>1
  <2> QED BY <1>1, <2>1, <2>2, LetGoStep
<1>5. CASE OwnerConnects
  <2>1. /\ closed' = FALSE /\ dialing' = (dialing \/ ~held)
        /\ UNCHANGED <<held, generation, closeCount, pc, delivery, error, graceOver, server>>
    BY <1>5 DEF OwnerConnects
  <2>2. dialing' \in BOOLEAN
    BY <2>1
  <2>3. TypeOK'
    BY <2>1, <2>2 DEF TypeOK, delivery, server
  <2>4. SendsInv'
    BY <2>1, <2>3, SendsKept DEF SendsInv, server
  <2>5. TakenInv'
    BY <2>1, TakenKept DEF delivery
  <2>6. ConnectionInv' /\ DeliveredWasTaken' /\ NotGivenUpEarly'
    BY <2>1 DEF ConnectionInv, DeliveredWasTaken, NotGivenUpEarly, delivery, server
  <2> QED BY <2>3, <2>4, <2>5, <2>6
<1> QED BY <1>2, <1>3, <1>4, <1>5

\* A request that is read is no longer on its way, and was taken or not.
LEMMA ServerReadsStep ==
  ASSUME Inv, NEW r \in Results, NEW n \in 1..request[r], ServerReads(r, n)
  PROVE  Inv'
<1> USE DEF Inv
<1>1. PICK v \in {"ok", "refused", "refusedUnrun"} :
        /\ verdict' = IF n = request[r] THEN [verdict EXCEPT ![r] = v] ELSE verdict
        /\ received' = IF v = "ok" THEN [received EXCEPT ![r] = @ + 1] ELSE received
  BY DEF ServerReads
<1>2. /\ <<r, n>> \in transit /\ transit' = transit \ {<<r, n>>} /\ Settled
      /\ UNCHANGED <<connection, dialing, pc, delivery, error, graceOver>>
  BY DEF ServerReads
<1>3. /\ \A s \in Results : s # r => verdict'[s] = verdict[s]
      /\ verdict'[r] = verdict[r] \/ verdict'[r] = v
  BY <1>1 DEF TypeOK
<1>4. /\ \A s \in Results : s # r => received'[s] = received[s]
      /\ received'[r] = IF v = "ok" THEN received[r] + 1 ELSE received[r]
  BY <1>1 DEF TypeOK
<1>5. TypeOK'
  <2>1. verdict' \in [Results -> {"none", "ok", "refused", "refusedUnrun"}]
    BY <1>1 DEF TypeOK
  <2>2. received' \in [Results -> Nat]
    BY <1>1 DEF TypeOK
  <2> QED BY <1>2, <2>1, <2>2 DEF TypeOK, connection, delivery
<1>6. TakenInv'
  <2>1. \A s \in Results : s # r => Mine(s)' = Mine(s)
    BY <1>2 DEF Mine
  <2>2. Mine(r)' = Mine(r) \ {<<r, n>>} /\ <<r, n>> \in Mine(r)
    BY <1>2 DEF Mine
  <2> DEFINE q == <<r, n>>
  <2>3. IsFiniteSet(Mine(r)') /\ Cardinality(Mine(r)') = Cardinality(Mine(r)) - 1
    <3> HIDE DEF q
    <3>1. IsFiniteSet(Mine(r)) /\ Mine(r)' = Mine(r) \ {q} /\ q \in Mine(r)
      BY <2>2, Counts DEF q
    <3> QED BY <3>1, FS_RemoveElement
  <2>4. /\ received[r] \in Nat /\ sends[r] \in Nat /\ Cardinality(Mine(r)) \in Nat
        /\ received[r] + Cardinality(Mine(r))
             + (IF verdict[r] \in {"refused", "refusedUnrun"} THEN 1 ELSE 0) <= sends[r]
    BY Counts DEF TakenInv
  <2>5. received'[r] + Cardinality(Mine(r)')
          + (IF verdict'[r] \in {"refused", "refusedUnrun"} THEN 1 ELSE 0) <= sends[r]
    <3>1. CASE v = "ok"
      BY <1>3, <1>4, <2>3, <2>4, <3>1
    <3>2. CASE v # "ok"
      BY <1>3, <1>4, <2>3, <2>4, <3>2
    <3> QED BY <3>1, <3>2
  <2>6. verdict'[r] = "ok" => received'[r] > 0
    <3>1. verdict[r] = "ok" => received[r] > 0
      BY DEF TakenInv
    <3>2. CASE v = "ok"
      BY <1>4, <2>4, <3>2
    <3>3. CASE v # "ok"
      BY <1>3, <1>4, <3>1, <3>3
    <3> QED BY <3>2, <3>3
  <2>7. UNCHANGED <<sends, request>>
    BY <1>2 DEF delivery
  <2>8. \A s \in Results : verdict'[s] # "none" => <<s, request[s]>> \notin transit'
    <3>1. \A s \in Results : verdict[s] # "none" => <<s, request[s]>> \notin transit
      BY DEF TakenInv
    <3>2. verdict' = verdict \/ n = request[r]
      BY <1>1
    <3> QED BY <1>2, <1>3, <3>1, <3>2
  <2>9. \A s \in Results, m \in 1..ResultSends * MaxAttempts :
          <<s, m>> \in transit' => m <= request[s]
    BY <1>2 DEF TakenInv
  <2> QED BY <1>3, <1>4, <2>1, <2>3, <2>5, <2>6, <2>7, <2>8, <2>9 DEF TakenInv
<1>7. SendsInv'
  <2>1. \A s \in Results : pc[s] = "backoff" => verdict'[s] = verdict[s]
    <3>1. pc[r] = "backoff" => verdict[r] # "none"
      BY DEF SendsInv
    <3>2. verdict[r] # "none" => n # request[r]
      BY <1>2 DEF TakenInv
    <3> QED BY <1>1, <1>3, <3>1, <3>2
  <2>2. \A s \in Results : TriesLeft(s)' = TriesLeft(s)
    BY <1>2 DEF TriesLeft, delivery
  <2> QED BY <1>2, <2>1, <2>2 DEF SendsInv, delivery
<1>8. ConnectionInv'
  BY <1>2 DEF ConnectionInv, connection, delivery
<1>9. DeliveredWasTaken'
  BY <1>2, <1>4, Counts DEF DeliveredWasTaken
<1>10. NotGivenUpEarly'
  BY <1>2 DEF NotGivenUpEarly, connection, delivery
<1> QED BY <1>5, <1>6, <1>7, <1>8, <1>9, <1>10

LEMMA NextInv == Inv /\ [Next]_vars => Inv'
<1> SUFFICES ASSUME Inv, [Next]_vars
             PROVE  Inv'
  OBVIOUS
<1>1. ASSUME NEW r \in Results, HandlerDone(r) \/ Answered(r) \/ GraceOver(r)
      PROVE  Inv'
  BY <1>1, HandlerDoneStep, AnsweredStep, GraceOverStep
<1>2. ASSUME NEW r \in Results, Send(r) \/ RetryTimer(r)
      PROVE  Inv'
  BY <1>2, WriteStep DEF Send, RetryTimer
<1>3. ASSUME NEW r \in Results, SendInvalid(r) \/ Failed(r) \/ Dialed(r) \/ DialThrew(r)
      PROVE  Inv'
  BY <1>3, SendInvalidStep, FailedStep, DialedStep, DialThrewStep
<1>4. ASSUME NEW r \in Results, RequestTimeout(r)
      PROVE  Inv'
  BY <1>4, RequestTimeoutStep
<1>5. ASSUME NEW r \in Results, PauseOver(r)
      PROVE  Inv'
  <2>1. pc[r] = "pausing" /\ GiveUpOrRedial(r) /\ UNCHANGED <<delivery, graceOver, server>>
    BY <1>5 DEF PauseOver
  <2>2. sends[r] < ResultSends
    BY <2>1 DEF Inv, SendsInv
  <2> QED BY <2>1, <2>2, GiveUpOrRedialStep
<1>6. ASSUME NEW r \in Results, NEW n \in 1..request[r], ServerReads(r, n)
      PROVE  Inv'
  BY <1>6, ServerReadsStep
<1>7. ASSUME NEW ok \in BOOLEAN, DialEnds(ok)
      PROVE  Inv'
  BY <1>7, DialEndsStep
<1>8. CASE ConnectionEnds \/ OwnerCloses \/ OwnerConnects \/ OtherRedials
  BY <1>8, OthersStep
<1>9. CASE UNCHANGED vars
  BY <1>9 DEF vars, connection, delivery, server, Inv, TypeOK, SendsInv, TriesLeft, TakenInv, Mine,
              ConnectionInv, DeliveredWasTaken, NotGivenUpEarly
<1> QED BY <1>1, <1>2, <1>3, <1>4, <1>5, <1>6, <1>7, <1>8, <1>9 DEF Next, Settles, Timer

\* The inductive invariant of the deliveries (sendResult, sendWithin,
\* reconnect, closedSince and lost of reconnect.ts).
THEOREM Invariance == Spec => []Inv
<1> QED BY InitInv, NextInv, PTL DEF Spec

\* Each variable keeps to its type, the sends and the requests to the numbers
\* the code allows (RESULT_SENDS, maxAttempts).
THEOREM TypeCorrectness == Spec => []TypeOK
<1>1. Inv => TypeOK
  BY DEF Inv
<1> QED BY <1>1, Invariance, PTL

\* What sendResult reports as delivered the server took.
THEOREM DeliveredTaken == Spec => []DeliveredWasTaken
<1>1. Inv => DeliveredWasTaken
  BY DEF Inv
<1> QED BY <1>1, Invariance, PTL

\* The server takes a result once per send at most, whatever the client
\* resends of each and whenever what was given up is read.
THEOREM TakenOncePerSend == Spec => []TakenAtMostSends
<1>1. Inv => TakenAtMostSends
  <2> SUFFICES ASSUME Inv, NEW r \in Results
               PROVE  received[r] <= sends[r] /\ sends[r] <= ResultSends
    BY DEF TakenAtMostSends
  <2>1. received[r] + Cardinality(Mine(r))
          + (IF verdict[r] \in {"refused", "refusedUnrun"} THEN 1 ELSE 0) <= sends[r]
    BY DEF Inv, TakenInv
  <2>2. received[r] \in Nat /\ sends[r] \in Nat /\ Cardinality(Mine(r)) \in Nat
    BY Counts
  <2>3. received[r] <= sends[r]
    BY <2>1, <2>2
  <2>4. sends[r] <= ResultSends
    BY DeliveryAssumption DEF Inv, TypeOK
  <2> QED BY <2>3, <2>4
<1> QED BY <1>1, Invariance, PTL

\* A lost connection alone never gives a result up.
THEOREM GivenUpForAReason == Spec => []NotGivenUpEarly
<1>1. Inv => NotGivenUpEarly
  BY DEF Inv
<1> QED BY <1>1, Invariance, PTL

\* A delivery goes from "failed" or "pausing" to a dial in redial alone.
LEMMA DialsInRedial ==
  ASSUME Inv, [Next]_vars, NEW r \in Results, pc[r] \notin {"dialing", "dialed"},
         pc'[r] \in {"dialing", "dialed"}
  PROVE  /\ pc[r] \in {"failed", "pausing"} /\ ~ClosedSince /\ Redial(r)
         /\ pc[r] = "failed" => Lost(r)
<1> USE DEF Inv
<1>1. ASSUME NEW s \in Results, NEW to \in Ended \cup Ready \cup Waits, Goto(s, to),
             to \notin {"dialing", "dialed"}
      PROVE  FALSE
  BY <1>1 DEF Goto, TypeOK
<1>2. ASSUME pc' = AllFail
      PROVE  FALSE
  BY <1>2 DEF AllFail
<1>3. ASSUME NEW s \in Results, Write(s)
      PROVE  FALSE
  <2>1. Goto(s, "awaiting") \/ Goto(s, "failed")
    BY <1>3 DEF Write
  <2> QED BY <1>1, <2>1 DEF Ready, Waits
<1>4. ASSUME NEW s \in Results, GiveUpOrRedial(s)
      PROVE  s = r /\ ~ClosedSince /\ Redial(r)
  <2>1. CASE Goto(s, "dropped")
    BY <1>1, <2>1 DEF Ended
  <2>2. CASE ~ClosedSince /\ Redial(s)
    <3>1. \A q \in Results : q # s =>
            pc'[q] = pc[q] \/ pc'[q] = "failed"
      BY <2>2 DEF Redial, AllFail, Goto, TypeOK
    <3> QED BY <2>2, <3>1
  <2> QED BY <1>4, <2>1, <2>2 DEF GiveUpOrRedial
<1>5. ASSUME NEW s \in Results,
             \/ HandlerDone(s) \/ Answered(s) \/ Send(s) \/ SendInvalid(s)
             \/ Dialed(s) \/ DialThrew(s) \/ RetryTimer(s) \/ RequestTimeout(s)
      PROVE  FALSE
  <2>1. \/ Write(s)
        \/ \E to \in (Ended \cup Ready \cup Waits) \ {"dialing", "dialed"} : Goto(s, to)
    BY <1>5 DEF HandlerDone, Answered, Send, SendInvalid, Dialed, DialThrew, RetryTimer,
                RequestTimeout, Ended, Ready, Waits
  <2> QED BY <1>1, <1>3, <2>1
<1>6. ASSUME NEW ok \in BOOLEAN, DialEnds(ok)
      PROVE  FALSE
  <2>1. pc' = [s \in Results |-> IF pc[s] # "dialing" THEN pc[s]
                                 ELSE IF held' THEN "dialed" ELSE "dialFailed"]
    BY <1>6 DEF DialEnds
  <2> QED BY <2>1
<1>7. \A s \in Results : \A n \in 1..request[s] : ~ServerReads(s, n)
  BY DEF ServerReads
<1>8. \A s \in Results : ~GraceOver(s)
  BY DEF GraceOver
<1>9. ~(ConnectionEnds \/ OwnerCloses \/ OwnerConnects \/ OtherRedials)
  BY <1>2 DEF ConnectionEnds, OwnerCloses, OwnerConnects, OtherRedials
<1>10. ~UNCHANGED vars
  BY DEF vars
<1>11. PICK s \in Results : Failed(s) \/ PauseOver(s)
  BY <1>5, <1>6, <1>7, <1>8, <1>9, <1>10 DEF Next, Settles, Timer
<1>12. CASE Failed(s)
  <2>1. ~Goto(s, "dropped")
    BY <1>1 DEF Ended
  <2>2. pc[s] = "failed" /\ Lost(s) /\ GiveUpOrRedial(s)
    BY <1>12, <2>1 DEF Failed
  <2> QED BY <1>4, <2>2
<1>13. CASE PauseOver(s)
  <2>1. pc[s] = "pausing" /\ GiveUpOrRedial(s)
    BY <1>13 DEF PauseOver
  <2> QED BY <1>4, <2>1
<1> QED BY <1>11, <1>12, <1>13

\* redial drops a connection only if the delivery's own request failed on it
\* (Transport.redial's generation, reconnect).
THEOREM DropsOwnConnection == Spec => DropsOnlyWhatFailed
<1> DEFINE A == \A r \in Results :
                  pc[r] \in {"failed", "pausing"} /\ pc'[r] = "dialing" /\ held
                    => sentOn[r] = generation
<1>1. ASSUME Inv, [Next]_vars
      PROVE  A
  <2> SUFFICES ASSUME NEW r \in Results, pc[r] \in {"failed", "pausing"}, pc'[r] = "dialing", held
               PROVE  sentOn[r] = generation
    OBVIOUS
  <2>1. Redial(r) /\ (pc[r] = "failed" => Lost(r))
    BY <1>1, DialsInRedial
  <2>2. generation = seen[r]
    BY <1>1, <2>1 DEF Redial, Goto, Inv, TypeOK
  <2>3. /\ sentOn[r] \in 0..MaxGenerations /\ seen[r] \in 0..MaxGenerations
        /\ generation \in 0..MaxGenerations /\ sentOn[r] <= generation
    BY <1>1 DEF Inv, TypeOK, ConnectionInv
  <2>4. sentOn[r] >= seen[r]
    <3>1. CASE pc[r] = "pausing"
      BY <1>1, <2>2, <2>3, <3>1, DeliveryAssumption DEF Inv, ConnectionInv
    <3>2. CASE pc[r] = "failed"
      <4>1. error[r] \in {"connection", "garbled"}
        BY <2>1, <2>2, <3>2 DEF Lost
      <4> QED BY <1>1, <3>2, <4>1 DEF Inv, ConnectionInv
    <3> QED BY <3>1, <3>2
  <2> QED BY <2>2, <2>3, <2>4, DeliveryAssumption
<1>2. Inv /\ [Next]_vars => [A]_vars
  BY <1>1
<1> QED BY <1>2, Invariance, PTL DEF Spec, DropsOnlyWhatFailed

\* No delivery dials a client its owner closed, be it connected again since
\* (closedSince).
THEOREM OwnerCloseFinal == Spec => OwnerCloseEndsRedials
<1> DEFINE A == \A r \in Results :
                  pc[r] \notin {"dialing", "dialed"} /\ pc'[r] \in {"dialing", "dialed"}
                    => closeCount = 0
<1>1. ASSUME Inv, [Next]_vars
      PROVE  A
  <2> SUFFICES ASSUME NEW r \in Results, pc[r] \notin {"dialing", "dialed"},
                      pc'[r] \in {"dialing", "dialed"}
               PROVE  closeCount = 0
    OBVIOUS
  <2>1. ~ClosedSince
    BY <1>1, DialsInRedial
  <2> QED BY <2>1 DEF ClosedSince
<1>2. Inv /\ [Next]_vars => [A]_vars
  BY <1>1
<1> QED BY <1>2, Invariance, PTL DEF Spec, OwnerCloseEndsRedials

-----------------------------------------------------------------------------
(* UsesConnection: a result's requests are those of Connection.            *)

Req == Results \X (1..ResultSends * MaxAttempts)
Stat == [q \in Req |-> Status(q)]

\* What waits, waits on a connection; nobody dials while one is held.
HeldInv ==
  /\ dialing => ~held
  /\ \A r \in Results : pc[r] = "awaiting" => held

LEMMA HeldStep ==
  ASSUME TypeOK, HeldInv, [Next]_vars
  PROVE  HeldInv'
<1> USE DEF HeldInv
<1>1. ASSUME NEW r \in Results, NEW to \in Ended \cup Ready \cup {"handler", "backoff", "pausing"},
             Goto(r, to), UNCHANGED <<connection, dialing>>
      PROVE  HeldInv'
  BY <1>1 DEF Goto, TypeOK, Ended, Ready, connection
<1>2. ASSUME NEW r \in Results, Write(r), UNCHANGED <<connection, dialing>>
      PROVE  HeldInv'
  BY <1>2 DEF Write, Goto, TypeOK, connection
<1>3. ASSUME NEW err \in {"connection", "header", "stream"}, LetGo(err), pc' = AllFail
      PROVE  HeldInv'
  BY <1>3 DEF LetGo, AllFail
<1>4. ASSUME NEW r \in Results, Redial(r)
      PROVE  HeldInv'
  <2>1. CASE held /\ generation = seen[r]
    BY <1>4, <2>1 DEF Redial, LetGo, AllFail
  <2>2. CASE ~held
    BY <1>4, <2>2 DEF Redial, Goto, TypeOK
  <2>3. CASE held /\ generation # seen[r]
    <3>1. held' = held /\ dialing' = dialing /\ Goto(r, "dialed")
      BY <1>4, <2>3 DEF Redial
    <3>2. \A s \in Results : pc'[s] = "awaiting" => pc[s] = "awaiting"
      BY <3>1 DEF Goto, TypeOK
    <3> QED BY <3>1, <3>2
  <2> QED BY <2>1, <2>2, <2>3
<1>5. ASSUME NEW r \in Results,
             \/ HandlerDone(r) \/ Answered(r) \/ SendInvalid(r)
             \/ Dialed(r) \/ DialThrew(r) \/ RequestTimeout(r)
      PROVE  HeldInv'
  <2>1. \E to \in Ended \cup Ready \cup {"handler", "backoff", "pausing"} : Goto(r, to)
    BY <1>5 DEF HandlerDone, Answered, SendInvalid, Dialed, DialThrew, RequestTimeout, Ended, Ready
  <2>2. UNCHANGED <<connection, dialing>>
    BY <1>5 DEF HandlerDone, Answered, SendInvalid, Dialed, DialThrew, RequestTimeout
  <2> QED BY <1>1, <2>1, <2>2
<1>6. ASSUME NEW r \in Results, Send(r) \/ RetryTimer(r)
      PROVE  HeldInv'
  BY <1>2, <1>6 DEF Send, RetryTimer
<1>7. ASSUME NEW r \in Results, Failed(r) \/ PauseOver(r)
      PROVE  HeldInv'
  <2>1. CASE Redial(r)
    BY <1>4, <2>1
  <2>2. CASE Goto(r, "dropped") /\ UNCHANGED <<connection, dialing>>
    BY <1>1, <2>2 DEF Ended
  <2> QED BY <1>7, <2>1, <2>2 DEF Failed, PauseOver, GiveUpOrRedial
<1>8. ASSUME NEW ok \in BOOLEAN, DialEnds(ok)
      PROVE  HeldInv'
  <2>1. /\ dialing /\ dialing' = FALSE
        /\ pc' = [r \in Results |-> IF pc[r] # "dialing" THEN pc[r]
                                    ELSE IF held' THEN "dialed" ELSE "dialFailed"]
    BY <1>8 DEF DialEnds
  <2>2. \A r \in Results : pc'[r] # "awaiting"
    BY <2>1
  <2> QED BY <2>1, <2>2
<1>9. CASE ConnectionEnds \/ OwnerCloses \/ OtherRedials
  BY <1>3, <1>9 DEF ConnectionEnds, OwnerCloses, OtherRedials
<1>10. CASE OwnerConnects
  BY <1>10 DEF OwnerConnects
<1>11. ASSUME UNCHANGED <<connection, dialing, pc>>
       PROVE  HeldInv'
  BY <1>11 DEF connection
<1> QED BY <1>5, <1>6, <1>7, <1>8, <1>9, <1>10, <1>11
        DEF Next, Settles, Timer, GraceOver, ServerReads, vars

\* The status of the requests is that of the calls awaiting them.
LEMMA StatusKept ==
  ASSUME UNCHANGED request,
         \A r \in Results : pc'[r] = "awaiting" <=> pc[r] = "awaiting"
  PROVE  Stat' = Stat
<1>1. \A q \in Req : q[1] \in Results
  BY DEF Req
<1>2. \A q \in Req : Status(q)' = Status(q)
  BY <1>1 DEF Status
<1> QED BY <1>2 DEF Stat

\* One request is written, or refused for want of a connection.
LEMMA StatusWritten ==
  ASSUME Inv, Inv', NEW r \in Results, Write(r), pc[r] # "awaiting"
  PROVE  LET q == <<r, request[r] + 1>>
         IN  /\ q \in Req /\ Stat[q] = "unsent"
             /\ Stat' = [Stat EXCEPT ![q] = IF held THEN "waiting" ELSE "settled"]
<1> DEFINE q == <<r, request[r] + 1>>
<1>1. /\ request[r] \in Nat /\ \A s \in Results : request[s] \in Nat
      /\ request' = [request EXCEPT ![r] = @ + 1]
  BY DeliveryAssumption DEF Inv, TypeOK, Write
<1>2. /\ request'[r] = request[r] + 1 /\ \A s \in Results : s # r => request'[s] = request[s]
  BY <1>1 DEF Inv, TypeOK
<1>3. request'[r] \in 0..ResultSends * MaxAttempts
  BY DEF Inv, TypeOK
<1>4. q \in Req
  <2>1. ResultSends * MaxAttempts \in Nat
    BY DeliveryAssumption
  <2>2. request[r] + 1 \in 1..ResultSends * MaxAttempts
    BY <1>1, <1>2, <1>3, <2>1
  <2> QED BY <2>2 DEF Req
<1>5. Stat[q] = "unsent"
  BY <1>1, <1>4 DEF Stat, Status
<1>6. /\ \A s \in Results : s # r => pc'[s] = pc[s]
      /\ pc'[r] = "awaiting" <=> held
  BY DEF Write, Goto, Inv, TypeOK
<1>7. ASSUME NEW p \in Req
      PROVE  Status(p)' = IF p = q THEN (IF held THEN "waiting" ELSE "settled") ELSE Status(p)
  <2>1. p[1] \in Results /\ p[2] \in Nat /\ p = <<p[1], p[2]>>
    BY DEF Req
  <2>2. CASE p[1] # r
    BY <1>2, <1>6, <2>1, <2>2 DEF Status
  <2>3. CASE p[1] = r
    <3>1. CASE p[2] = request[r] + 1
      BY <1>1, <1>2, <1>6, <2>1, <2>3, <3>1 DEF Status
    <3>2. CASE p[2] # request[r] + 1
      BY <1>1, <1>2, <1>6, <2>1, <2>3, <3>2 DEF Status
    <3> QED BY <3>1, <3>2
  <2> QED BY <2>2, <2>3
<1>8. Stat' = [Stat EXCEPT ![q] = IF held THEN "waiting" ELSE "settled"]
  BY <1>7 DEF Stat
<1> QED BY <1>4, <1>5, <1>8

\* One request is no longer awaited.
LEMMA StatusSettled ==
  ASSUME Inv, NEW r \in Results, pc[r] = "awaiting", pc'[r] # "awaiting",
         \A s \in Results : s # r => pc'[s] = pc[s], UNCHANGED request
  PROVE  \/ Stat' = Stat
         \/ \E q \in Req : Stat[q] = "waiting" /\ Stat' = [Stat EXCEPT ![q] = "settled"]
<1> DEFINE q == <<r, request[r]>>
<1>1. request[r] \in Nat
  BY DeliveryAssumption DEF Inv, TypeOK
<1>2. ASSUME NEW p \in Req
      PROVE  Status(p)' = IF p = q THEN "settled" ELSE Status(p)
  <2>1. p[1] \in Results /\ p[2] \in Nat /\ p = <<p[1], p[2]>>
    BY DEF Req
  <2>2. CASE p[1] # r
    BY <2>1, <2>2 DEF Status
  <2>3. CASE p[1] = r /\ p[2] = request[r]
    BY <1>1, <2>1, <2>3 DEF Status
  <2>4. CASE p[1] = r /\ p[2] # request[r]
    BY <1>1, <2>1, <2>4 DEF Status
  <2> QED BY <2>2, <2>3, <2>4
<1>3. CASE q \in Req
  <2>1. Stat[q] = "waiting"
    BY <1>1, <1>3 DEF Stat, Status
  <2>2. Stat' = [Stat EXCEPT ![q] = "settled"]
    BY <1>2 DEF Stat
  <2> QED BY <1>3, <2>1, <2>2
<1>4. CASE q \notin Req
  <2>1. \A p \in Req : Status(p)' = Status(p)
    BY <1>2, <1>4
  <2> QED BY <2>1 DEF Stat
<1> QED BY <1>3, <1>4

\* All that wait are settled at once.
LEMMA StatusLetGo ==
  ASSUME UNCHANGED request, \A r \in Results : pc'[r] # "awaiting"
  PROVE  Stat' = [q \in Req |-> IF Stat[q] = "waiting" THEN "settled" ELSE Stat[q]]
<1>1. \A q \in Req : q[1] \in Results
  BY DEF Req
<1>2. \A q \in Req : Status(q)' = IF Status(q) = "waiting" THEN "settled" ELSE Status(q)
  BY <1>1 DEF Status
<1> QED BY <1>2 DEF Stat

\* Every step of the deliveries is one of Connection, or changes nothing of it.
LEMMA ConnectionStep ==
  ASSUME Inv, Inv', HeldInv, [Next]_vars
  PROVE  [Conn!Next]_(Conn!vars)
<1> USE DEF Conn!vars, Conn!Next, Stat, Req
<1>1. ASSUME UNCHANGED connection, Stat' = Stat
      PROVE  UNCHANGED Conn!vars
  BY <1>1 DEF connection
<1>2. ASSUME NEW r \in Results, NEW to, to # "awaiting", pc[r] # "awaiting", Goto(r, to),
             UNCHANGED <<connection, request>>
      PROVE  UNCHANGED Conn!vars
  <2>1. \A s \in Results : pc'[s] = "awaiting" <=> pc[s] = "awaiting"
    BY <1>2 DEF Goto, Inv, TypeOK
  <2> QED BY <1>1, <1>2, <2>1, StatusKept
<1>3. ASSUME NEW r \in Results, Write(r), pc[r] # "awaiting", UNCHANGED connection
      PROVE  Conn!Next
  <2> DEFINE q == <<r, request[r] + 1>>
  <2>1. /\ q \in Req /\ Stat[q] = "unsent"
        /\ Stat' = [Stat EXCEPT ![q] = IF held THEN "waiting" ELSE "settled"]
    BY <1>3, StatusWritten
  <2>2. CASE held
    <3>1. Conn!Send(q)
      BY <1>3, <2>1, <2>2 DEF Conn!Send, connection
    <3> QED BY <2>1, <3>1
  <2>3. CASE ~held
    <3>1. Conn!Refuse(q)
      BY <1>3, <2>1, <2>3 DEF Conn!Refuse, connection
    <3> QED BY <2>1, <3>1
  <2> QED BY <2>2, <2>3
<1>4. ASSUME NEW r \in Results, NEW to, to # "awaiting", pc[r] = "awaiting", Goto(r, to),
             UNCHANGED <<connection, request>>
      PROVE  Conn!Next \/ UNCHANGED Conn!vars
  <2>1. pc'[r] # "awaiting" /\ \A s \in Results : s # r => pc'[s] = pc[s]
    BY <1>4 DEF Goto, Inv, TypeOK
  <2>2. CASE Stat' = Stat
    BY <1>1, <1>4, <2>2
  <2>3. CASE \E q \in Req : Stat[q] = "waiting" /\ Stat' = [Stat EXCEPT ![q] = "settled"]
    <3>1. PICK q \in Req : Stat[q] = "waiting" /\ Stat' = [Stat EXCEPT ![q] = "settled"]
      BY <2>3
    <3>2. Conn!Settle(q)
      BY <1>4, <3>1 DEF Conn!Settle, connection
    <3> QED BY <3>1, <3>2
  <2> QED BY <1>4, <2>1, <2>2, <2>3, StatusSettled
<1>5. ASSUME NEW r \in Results, HandlerDone(r) \/ SendInvalid(r) \/ Dialed(r) \/ DialThrew(r)
      PROVE  UNCHANGED Conn!vars
  <2>1. PICK to \in {"ready", "failed", "dropped", "pausing"} : Goto(r, to)
    BY <1>5 DEF HandlerDone, SendInvalid, Dialed, DialThrew
  <2>2. pc[r] # "awaiting" /\ UNCHANGED <<connection, request>>
    BY <1>5 DEF HandlerDone, SendInvalid, Dialed, DialThrew, delivery
  <2> QED BY <1>2, <2>1, <2>2
<1>6. ASSUME NEW r \in Results, Send(r) \/ RetryTimer(r)
      PROVE  Conn!Next
  BY <1>3, <1>6 DEF Send, RetryTimer
<1>7. ASSUME NEW r \in Results, Answered(r) \/ RequestTimeout(r)
      PROVE  Conn!Next \/ UNCHANGED Conn!vars
  <2>1. PICK to \in {"delivered", "backoff", "failed"} : Goto(r, to)
    BY <1>7 DEF Answered, RequestTimeout
  <2>2. pc[r] = "awaiting" /\ UNCHANGED <<connection, request>>
    BY <1>7 DEF Answered, RequestTimeout, delivery
  <2> QED BY <1>4, <2>1, <2>2
<1>8. ASSUME LetGo("connection") \/ LetGo("header") \/ LetGo("stream"),
             \A r \in Results : pc'[r] # "awaiting", UNCHANGED request
      PROVE  Conn!LetGo
  <2>1. held' = FALSE
    BY <1>8 DEF LetGo
  <2> QED BY <1>8, <2>1, StatusLetGo DEF Conn!LetGo
<1>9. ASSUME NEW r \in Results, pc[r] # "awaiting", Redial(r), UNCHANGED request
      PROVE  Conn!Next
  <2>1. closed' = FALSE /\ UNCHANGED <<generation, closeCount>>
    BY <1>9 DEF Redial
  <2>2. CASE held /\ generation = seen[r]
    <3>1. LetGo("connection") /\ pc' = [AllFail EXCEPT ![r] = "dialing"]
      BY <1>9, <2>2 DEF Redial
    <3>2. \A s \in Results : pc'[s] # "awaiting"
      BY <3>1 DEF AllFail
    <3>3. Conn!LetGo
      BY <1>8, <1>9, <3>1, <3>2
    <3>4. Conn!Drop
      BY <2>1, <2>2, <3>3 DEF Conn!Drop
    <3> QED BY <3>4
  <2>3. CASE ~(held /\ generation = seen[r])
    <3>1. held' = held /\ (Goto(r, "dialing") \/ Goto(r, "dialed"))
      BY <1>9, <2>3 DEF Redial
    <3>2. \A s \in Results : pc'[s] = "awaiting" <=> pc[s] = "awaiting"
      BY <1>9, <3>1 DEF Goto, Inv, TypeOK
    <3>3. Stat' = Stat
      BY <1>9, <3>2, StatusKept
    <3>4. Conn!Reopen
      BY <2>1, <3>1, <3>3 DEF Conn!Reopen
    <3> QED BY <3>4
  <2> QED BY <2>2, <2>3
<1>10. ASSUME NEW r \in Results, Failed(r) \/ PauseOver(r)
       PROVE  Conn!Next \/ UNCHANGED Conn!vars
  <2>1. pc[r] # "awaiting" /\ UNCHANGED request
    BY <1>10 DEF Failed, PauseOver, delivery
  <2>2. CASE Redial(r)
    BY <1>9, <2>1, <2>2
  <2>3. CASE Goto(r, "dropped") /\ UNCHANGED connection
    BY <1>2, <2>1, <2>3
  <2> QED BY <1>10, <2>2, <2>3 DEF Failed, PauseOver, GiveUpOrRedial
<1>11. ASSUME NEW ok \in BOOLEAN, DialEnds(ok)
       PROVE  Conn!Next \/ UNCHANGED Conn!vars
  <2>1. /\ dialing /\ held' = (ok /\ ~closed) /\ UNCHANGED <<closed, closeCount, request>>
        /\ pc' = [r \in Results |-> IF pc[r] # "dialing" THEN pc[r]
                                    ELSE IF held' THEN "dialed" ELSE "dialFailed"]
    BY <1>11 DEF DialEnds, delivery
  <2>2. \A s \in Results : pc'[s] = "awaiting" <=> pc[s] = "awaiting"
    BY <2>1
  <2>3. Stat' = Stat
    BY <2>1, <2>2, StatusKept
  <2>4. ~held
    BY <2>1 DEF HeldInv
  <2>5. CASE held'
    <3>1. generation' = generation + 1
      BY <1>11, <2>5 DEF DialEnds
    <3>2. Conn!Open
      BY <2>1, <2>3, <2>4, <2>5, <3>1 DEF Conn!Open
    <3> QED BY <3>2
  <2>6. CASE ~held'
    <3>1. generation' = generation
      BY <1>11, <2>6 DEF DialEnds
    <3>2. held' = held
      BY <2>1, <2>4, <2>6 DEF Inv, TypeOK
    <3> QED BY <2>1, <2>3, <3>1, <3>2
  <2> QED BY <2>5, <2>6
<1>12. CASE ConnectionEnds
  <2>1. Conn!LetGo
    BY <1>8, <1>12 DEF ConnectionEnds, AllFail, delivery
  <2>2. Conn!Drop
    BY <1>12, <2>1 DEF ConnectionEnds, Conn!Drop
  <2> QED BY <2>2
<1>13. CASE OwnerCloses
  <2>1. Conn!LetGo
    BY <1>8, <1>13 DEF OwnerCloses, AllFail, delivery
  <2>2. Conn!Close
    BY <1>13, <2>1 DEF OwnerCloses, Conn!Close
  <2> QED BY <2>2
<1>14. CASE OtherRedials
  <2>1. Conn!LetGo
    BY <1>8, <1>14 DEF OtherRedials, AllFail, delivery
  <2>2. CASE held
    <3>1. Conn!Drop
      BY <1>14, <2>1, <2>2 DEF OtherRedials, Conn!Drop
    <3> QED BY <3>1
  <2>3. CASE ~held
    <3>1. \A s \in Results : pc'[s] = "awaiting" <=> pc[s] = "awaiting"
      BY <1>14, <2>3 DEF OtherRedials, AllFail, HeldInv
    <3>2. Stat' = Stat
      BY <1>14, <3>1, StatusKept DEF OtherRedials, delivery
    <3>3. held' = held
      BY <1>14, <2>3 DEF OtherRedials, LetGo, Inv, TypeOK
    <3> QED BY <1>14, <3>2, <3>3 DEF OtherRedials
  <2> QED BY <2>2, <2>3
<1>15. CASE OwnerConnects
  <2>1. Stat' = Stat
    BY <1>15, StatusKept DEF OwnerConnects, delivery
  <2>2. Conn!Reopen
    BY <1>15, <2>1 DEF OwnerConnects, Conn!Reopen
  <2> QED BY <2>2
<1>16. ASSUME UNCHANGED <<connection, pc, request>>
       PROVE  UNCHANGED Conn!vars
  BY <1>1, <1>16, StatusKept
<1>17. ASSUME \/ \E r \in Results : GraceOver(r) \/ \E n \in 1..request[r] : ServerReads(r, n)
              \/ UNCHANGED vars
       PROVE  UNCHANGED Conn!vars
  BY <1>16, <1>17 DEF GraceOver, ServerReads, vars, delivery
<1> HIDE DEF Conn!Next, Conn!vars
<1> QED BY <1>5, <1>6, <1>7, <1>10, <1>11, <1>12, <1>13, <1>14, <1>15, <1>17 DEF Next, Settles, Timer

\* The deliveries use the connection only as Connection allows, which is what
\* Transport implements (sendWithin, reconnect, redial, closedSince).
THEOREM DeliveriesUseConnection == Spec => UsesConnection
<1>1. Init => HeldInv
  BY DEF Init, HeldInv
<1>2. Inv /\ HeldInv /\ [Next]_vars => HeldInv'
  BY HeldStep DEF Inv
<1>3. Spec => []HeldInv
  BY <1>1, <1>2, Invariance, PTL DEF Spec
<1>4. Inv /\ Inv' /\ HeldInv /\ [Next]_vars => [Conn!Next]_(Conn!vars)
  BY ConnectionStep
<1> QED BY <1>3, <1>4, Invariance, PTL DEF Spec, UsesConnection

=============================================================================
