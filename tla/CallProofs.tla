----------------------------- MODULE CallProofs -----------------------------
(***************************************************************************)
(* What is proved of the calls that are not one request, each from an      *)
(* invariant of its own: a call that is tried again (Client), mget (MGet), *)
(* a transaction (Txn) and sync (Sync).                                    *)
(***************************************************************************)
EXTENDS Client, MGet, Txn, Sync, SequenceTheorems, TLAPS

----------------------------------------------------------------------------
(***************************************************************************)
(* Client for any set of calls and any maxAttempts given: a call runs at   *)
(* most once, its result is the truth, and the client implements CallOnce. *)
(***************************************************************************)

\* A try on its way is its call's latest, and the only trace of the call: it
\* has not run and has no answer. The caller awaits it or has thrown.
TransitInv ==
  \A m \in transit :
    /\ m.attempt = attempt[m.call]
    /\ runs[m.call] = 0
    /\ \A b \in answers : b.request.call # m.call
    /\ phase[m.call] = "sent" \/ result[m.call] = Thrown

\* An answer on its way is the only one of its call, answers its latest try,
\* and is the truth.
AnswersInv ==
  \A b \in answers :
    /\ b.request.attempt = attempt[b.request.call]
    /\ \A d \in answers : d.request.call = b.request.call => d = b
    /\ phase[b.request.call] = "sent" \/ result[b.request.call] = Thrown
    /\ b.answer = OK => runs[b.request.call] = 1
    /\ b.answer.ran = "no" => runs[b.request.call] = 0

\* What a call's own state says of the server's.
CallsInv ==
  \A c \in Calls :
    /\ runs[c] <= 1
    /\ phase[c] # "done" <=> result[c] = NoResult
    /\ phase[c] \in {"idle", "waiting"} =>
         /\ runs[c] = 0
         /\ \A m \in transit : m.call # c
         /\ \A b \in answers : b.request.call # c
    /\ result[c] = OK => runs[c] = 1
    /\ result[c] \in Refusals /\ result[c].ran = "no" => runs[c] = 0
    /\ phase[c] = "idle" => attempt[c] = 0
    /\ phase[c] = "waiting" => attempt[c] < MaxAttempts
    /\ attempt[c] <= 1 \/ attempt[c] <= MaxAttempts

\* The inductive invariant.
IInv == TypeOK /\ TransitInv /\ AnswersInv /\ CallsInv

----------------------------------------------------------------------------
\* The answers, told apart by the fields the client reads.
LEMMA AnswerFacts ==
  /\ OK \notin Refusals
  /\ OK \in Answers /\ Refusals \subseteq Answers
  /\ Thrown \notin Answers /\ NoResult \notin Answers /\ Thrown # NoResult
  /\ OK.ran = "yes" /\ OK.status = "ok"
  /\ \A a \in Refusals : a.status # "ok"
  /\ Thrown.status # "ok" /\ NoResult.status # "ok"
  /\ \A a \in Answers : RefusedUnrun(a) => a \in Refusals /\ a.ran = "no"
<1>1. OK.status = "ok" /\ OK.ran = "yes"
  BY DEF OK
<1>2. \A a \in Refusals : a.status # "ok"
  BY DEF Refusals
<1>3. Thrown.status = "thrown" /\ NoResult.status = "none"
  BY DEF Thrown, NoResult
<1>4. \A a \in Answers : a.status \in {"ok", "overloaded", "unavailable", "other"}
  BY DEF Answers, OK, Refusals
<1> QED BY <1>1, <1>2, <1>3, <1>4 DEF Answers, RefusedUnrun

\* The tries a client makes are a number of them, which never changes, and no
\* more than it was made with.
LEMMA AttemptsFacts ==
  ASSUME configured \in Configured
  PROVE  /\ MaxAttempts \in Int
         /\ configured.kind = "number" => 10 * MaxAttempts <= configured.tenths
         /\ configured.kind # "number" => MaxAttempts = DefaultAttempts
<1>1. configured.tenths \in Int
  BY AttemptsAssumption
<1>2. GivenOrDefault \in Int
  BY <1>1 DEF GivenOrDefault, DefaultAttempts
<1>3. MaxAttempts \in Int /\ 10 * MaxAttempts <= GivenOrDefault
  BY <1>2 DEF MaxAttempts
<1>4. configured.kind # "number" => MaxAttempts = DefaultAttempts
  BY DEF MaxAttempts, GivenOrDefault, DefaultAttempts
<1> QED BY <1>3, <1>4 DEF GivenOrDefault

LEMMA AttemptsKept ==
  ASSUME configured' = configured
  PROVE  MaxAttempts' = MaxAttempts
BY DEF MaxAttempts, GivenOrDefault

LEMMA InitIInv == Init => IInv
BY DEF Init, IInv, TypeOK, TransitInv, AnswersInv, CallsInv, OK, Refusals, NoResult, Thrown, Answers

LEMMA SendStep ==
  ASSUME IInv, NEW c \in Calls, Send(c)
  PROVE  IInv'
<1> USE DEF IInv
<1>1. /\ \A d \in Calls : phase'[d] = IF d = c THEN "sent" ELSE phase[d]
      /\ \A d \in Calls : attempt'[d] = IF d = c THEN attempt[c] + 1 ELSE attempt[d]
      /\ \A m : m \in transit' <=> m \in transit \/ m = Request(c, attempt[c] + 1)
      /\ UNCHANGED <<configured, result, answers, runs>>
      /\ phase[c] \in {"idle", "waiting"}
  BY DEF Send, TypeOK
<1>2. TypeOK'
  BY DEF Send, TypeOK, Requests, Request
<1>3. Request(c, attempt[c] + 1).call = c /\ Request(c, attempt[c] + 1).attempt = attempt[c] + 1
  BY DEF Request
<1>4. \A m \in transit : m.call \in Calls
  BY DEF TypeOK, Requests
<1>5. \A b \in answers : b.request.call \in Calls
  BY DEF TypeOK, Requests
<1>6. TransitInv'
  BY <1>1, <1>3, <1>4 DEF TransitInv, CallsInv
<1>7. AnswersInv'
  BY <1>1, <1>5 DEF AnswersInv, CallsInv
<1>8. CallsInv'
  BY <1>1, <1>3, <1>4, AttemptsFacts, AttemptsKept DEF CallsInv, TypeOK
<1> QED BY <1>2, <1>6, <1>7, <1>8

\* A call's end, by a result that says nothing or is the truth.
LEMMA EndStep ==
  ASSUME IInv, NEW c \in Calls, NEW a \in Answers \cup {Thrown},
         phase[c] # "done",
         phase' = [phase EXCEPT ![c] = "done"],
         result' = [result EXCEPT ![c] = a],
         answers' \subseteq answers,
         \/ a = Thrown
         \/ /\ \A m \in transit : m.call # c
            /\ \A b \in answers' : b.request.call # c
            /\ a = OK => runs[c] = 1
            /\ a.ran = "no" => runs[c] = 0,
         UNCHANGED <<configured, transit, runs>>,
         \/ attempt' = attempt
         \/ /\ phase[c] \in {"idle", "waiting"}
            /\ attempt' = [attempt EXCEPT ![c] = @ + 1]
  PROVE  IInv'
<1> USE DEF IInv
<1>1. /\ \A d \in Calls : phase'[d] = IF d = c THEN "done" ELSE phase[d]
      /\ \A d \in Calls : result'[d] = IF d = c THEN a ELSE result[d]
  BY DEF TypeOK
<1>2. TypeOK'
  BY DEF TypeOK
<1>3. \A m \in transit : m.call \in Calls
  BY DEF TypeOK, Requests
<1>4. \A b \in answers : b.request.call \in Calls
  BY DEF TypeOK, Requests
<1>5. \A d \in Calls :
        \/ attempt'[d] = attempt[d]
        \/ /\ d = c /\ attempt'[c] = attempt[c] + 1 /\ phase[c] \in {"idle", "waiting"}
           /\ \A m \in transit : m.call # c
           /\ \A b \in answers : b.request.call # c
  BY DEF TypeOK, CallsInv
<1>6. TransitInv'
  BY <1>1, <1>3, <1>5 DEF TransitInv, CallsInv
<1>7. AnswersInv'
  BY <1>1, <1>4, <1>5 DEF AnswersInv, CallsInv
<1>8. CallsInv'
  <2>1. a # NoResult /\ NoResult \notin Answers
    BY AnswerFacts
  <2>2. a = Thrown => a # OK /\ a \notin Refusals
    BY AnswerFacts
  <2> SUFFICES ASSUME NEW d \in Calls
               PROVE  CallsInv!(d)'
    BY DEF CallsInv
  <2>3. CASE d # c
    BY <1>1, <1>5, <2>3, AttemptsKept DEF CallsInv
  <2>4. CASE d = c
    <3>1. attempt[c] \in Nat
      BY DEF TypeOK
    <3>2. attempt'[c] <= 1 \/ attempt'[c] <= MaxAttempts
      BY <1>5, <3>1, AttemptsFacts DEF CallsInv, TypeOK
    <3> QED BY <1>1, <2>1, <2>2, <2>4, <3>2, AttemptsKept DEF CallsInv
  <2> QED BY <2>3, <2>4
<1> QED BY <1>2, <1>6, <1>7, <1>8

\* An answer taken by its call was its last trace.
LEMMA TakenAnswer ==
  ASSUME IInv, NEW c \in Calls, NEW a \in Answers, Receive(c, a)
  PROVE  /\ \A m \in transit : m.call # c
         /\ \A b \in answers' : b.request.call # c
         /\ a = OK => runs[c] = 1
         /\ a.ran = "no" => runs[c] = 0
         /\ answers' \subseteq answers
<1> DEFINE b == Reply(c, a)
<1>1. b \in answers /\ b.request.call = c /\ b.answer = a /\ answers' = answers \ {b}
  BY DEF Receive, Reply, Request
<1> HIDE DEF b
<1> QED BY <1>1 DEF IInv, TransitInv, AnswersInv

LEMMA ReceiveStep ==
  ASSUME IInv, NEW c \in Calls, NEW a \in Answers, Receive(c, a)
  PROVE  IInv'
<1> USE DEF IInv
<1>0. /\ \A m \in transit : m.call # c
      /\ \A b \in answers' : b.request.call # c
      /\ a = OK => runs[c] = 1
      /\ a.ran = "no" => runs[c] = 0
      /\ answers' \subseteq answers
      /\ UNCHANGED <<configured, attempt, transit, runs>>
      /\ phase[c] = "sent"
  BY TakenAnswer DEF Receive
<1>1. CASE /\ attempt[c] >= MaxAttempts \/ ~RefusedUnrun(a)
           /\ phase' = [phase EXCEPT ![c] = "done"]
           /\ result' = [result EXCEPT ![c] = a]
  BY <1>0, <1>1, EndStep
<1>2. CASE /\ attempt[c] < MaxAttempts /\ RefusedUnrun(a)
           /\ phase' = [phase EXCEPT ![c] = "waiting"]
           /\ UNCHANGED result
  <2>1. \A d \in Calls : phase'[d] = IF d = c THEN "waiting" ELSE phase[d]
    BY <1>2 DEF TypeOK
  <2>2. runs[c] = 0
    BY <1>0, <1>2, AnswerFacts
  <2>3. TypeOK'
    BY <1>0, <1>2 DEF TypeOK
  <2>4. TransitInv'
    BY <1>0, <1>2, <2>1 DEF TransitInv, TypeOK, Requests
  <2>5. AnswersInv'
    BY <1>0, <1>2, <2>1 DEF AnswersInv, TypeOK, Requests
  <2>6. CallsInv'
    BY <1>0, <1>2, <2>1, <2>2, AttemptsKept DEF CallsInv, TypeOK
  <2> QED BY <2>3, <2>4, <2>5, <2>6
<1> QED BY <1>1, <1>2 DEF Receive

\* The server takes a request off its way: it is gone, run or not, and
\* answered or not.
LEMMA ServerStep ==
  ASSUME IInv, NEW m \in transit, NEW a \in Answers,
         transit' = transit \ {m},
         UNCHANGED <<configured, phase, attempt, result>>,
         \/ ServerRuns(m, a)
         \/ ServerRefuses(m, a)
         \/ RequestLost(m)
  PROVE  IInv'
<1> USE DEF IInv
<1> DEFINE b == [request |-> m, answer |-> a]
<1>1. /\ m \in Requests /\ m.call \in Calls
      /\ m.attempt = attempt[m.call]
      /\ runs[m.call] = 0
      /\ \A d \in answers : d.request.call # m.call
      /\ phase[m.call] = "sent" \/ result[m.call] = Thrown
      /\ \A n \in transit : n.call = m.call => n = m
  <2>1. m \in Requests /\ m.call \in Calls /\ \A n \in transit : n \in Requests
    BY DEF TypeOK, Requests
  <2>2. \A n \in transit : n.attempt = attempt[n.call]
    BY DEF TransitInv
  <2>3. \A n \in transit : n.call = m.call => n = m
    BY <2>1, <2>2 DEF Requests
  <2> QED BY <2>1, <2>2, <2>3 DEF TransitInv
<1>2. b.request = m /\ b.answer = a
  OBVIOUS
<1>3. /\ answers' \subseteq answers \cup {b}
      /\ \/ /\ runs' = [runs EXCEPT ![m.call] = @ + 1]
            /\ a \in AnswersOfRun
         \/ /\ runs' = runs
            /\ b \in answers' => a \in Refusals
  BY <1>1, <1>2 DEF ServerRuns, ServerRefuses, RequestLost, AnswersOfRun, AnswersOfRefusal
<1>4. /\ \A c \in Calls : c # m.call => runs'[c] = runs[c]
      /\ runs'[m.call] = 1 \/ runs'[m.call] = 0
      /\ b \in answers' => (a = OK => runs'[m.call] = 1)
      /\ b \in answers' => (a.ran = "no" => runs'[m.call] = 0)
  <2>1. runs[m.call] = 0 /\ \A c \in Calls : runs[c] \in Nat
    BY <1>1 DEF TypeOK
  <2>2. b \notin answers
    BY <1>1, <1>2
  <2>3. CASE runs' = [runs EXCEPT ![m.call] = @ + 1] /\ a \in AnswersOfRun
    BY <2>1, <2>3, <1>1 DEF TypeOK, AnswersOfRun
  <2>4. CASE runs' = runs /\ (b \in answers' => a \in Refusals)
    BY <2>1, <2>4, AnswerFacts
  <2> QED BY <1>3, <2>3, <2>4
<1>5. TypeOK'
  <2>1. b \in [request : Requests, answer : Answers]
    BY <1>1
  <2>2. answers' \subseteq [request : Requests, answer : Answers]
    BY <1>3, <2>1 DEF TypeOK
  <2>3. runs' \in [Calls -> Nat]
    BY <1>3 DEF TypeOK
  <2> QED BY <2>2, <2>3 DEF TypeOK
<1> HIDE DEF b
<1>6. \A d \in answers : d.request.call \in Calls
  BY DEF TypeOK, Requests
<1>7. \A n \in transit' : n \in transit /\ n.call \in Calls /\ n.call # m.call
  BY <1>1 DEF TypeOK, Requests
<1>8. TransitInv'
  BY <1>1, <1>2, <1>3, <1>4, <1>7 DEF TransitInv
<1>9. AnswersInv'
  <2>1. \A d \in answers' : d \in answers \/ d = b
    BY <1>3
  <2>2. \A d \in answers : d.request.call # m.call /\ runs'[d.request.call] = runs[d.request.call]
    BY <1>1, <1>4, <1>6
  <2> QED BY <1>1, <1>2, <1>4, <2>1, <2>2 DEF AnswersInv
<1>10. CallsInv'
  <2> SUFFICES ASSUME NEW d \in Calls
               PROVE  CallsInv!(d)'
    BY DEF CallsInv
  <2>1. CASE d # m.call
    BY <1>2, <1>3, <1>4, <1>7, <2>1, AttemptsKept DEF CallsInv
  <2>2. CASE d = m.call
    BY <1>1, <1>4, <2>2, AnswerFacts, AttemptsKept DEF CallsInv
  <2> QED BY <2>1, <2>2
<1> QED BY <1>5, <1>8, <1>9, <1>10

LEMMA NextIInv == IInv /\ [Next]_vars => IInv'
<1> SUFFICES ASSUME IInv, [Next]_vars
             PROVE  IInv'
  OBVIOUS
<1>1. ASSUME NEW c \in Calls, Send(c)
      PROVE  IInv'
  BY <1>1, SendStep
<1>2. ASSUME NEW c \in Calls, SendRefused(c)
      PROVE  IInv'
  BY <1>2, EndStep DEF SendRefused
<1>3. ASSUME NEW c \in Calls, NEW a \in Answers, Receive(c, a)
      PROVE  IInv'
  BY <1>3, ReceiveStep
<1>4. ASSUME NEW c \in Calls, Lose(c)
      PROVE  IInv'
  BY <1>4, EndStep DEF Lose
<1>5. ASSUME NEW m \in transit, NEW a \in Answers, ServerRuns(m, a) \/ ServerRefuses(m, a)
      PROVE  IInv'
  BY <1>5, ServerStep DEF ServerRuns, ServerRefuses
<1>6. ASSUME NEW m \in transit, RequestLost(m)
      PROVE  IInv'
  BY <1>6, ServerStep, AnswerFacts DEF RequestLost
<1>7. CASE UNCHANGED vars
  BY <1>7, AttemptsKept DEF vars, IInv, TypeOK, TransitInv, AnswersInv, CallsInv
<1> QED BY <1>1, <1>2, <1>3, <1>4, <1>5, <1>6, <1>7 DEF Next, ClientNext

\* Every behaviour of the client keeps the inductive invariant.
THEOREM Invariance == Spec => []IInv
<1> QED BY InitIInv, NextIInv, PTL DEF Spec

\* Each variable of the client keeps to its type.
THEOREM TypeCorrectness == Spec => []TypeOK
<1>1. IInv => TypeOK
  BY DEF IInv
<1> QED BY <1>1, Invariance, PTL

\* sendRequest's resending never runs a call twice.
THEOREM AtMostOnceHolds == Spec => []AtMostOnce
<1>1. IInv => AtMostOnce
  BY DEF IInv, CallsInv, AtMostOnce
<1> QED BY <1>1, Invariance, PTL

\* An OK ran; a refusal said not to have run did not, and never will.
THEOREM ResultTrue == Spec => []ResultIsTruth
<1>1. IInv => ResultIsTruth
  <2> SUFFICES ASSUME IInv, NEW c \in Calls
               PROVE  ResultIsTruth!(c)
    BY DEF ResultIsTruth
  <2>1. result[c] \in Answers \cup {NoResult, Thrown}
    BY DEF IInv, TypeOK
  <2>2. result[c].status = "ok" => result[c] = OK
    BY <2>1, AnswerFacts DEF Answers
  <2>3. result[c] \in Refusals => \A m \in transit : m.call # c
    <3>1. SUFFICES ASSUME result[c] \in Refusals, NEW m \in transit, m.call = c
                   PROVE  FALSE
      OBVIOUS
    <3>2. result[c] # NoResult /\ result[c] # Thrown
      BY <3>1, AnswerFacts
    <3>3. phase[c] = "sent"
      BY <3>1, <3>2 DEF IInv, TransitInv
    <3> QED BY <3>2, <3>3 DEF IInv, CallsInv
  <2> QED BY <2>2, <2>3 DEF IInv, CallsInv
<1> QED BY <1>1, Invariance, PTL

\* The tries of a call end, whatever maxAttempts was given.
THEOREM TriesEnd == Spec => []TriesBounded
<1>1. IInv => TriesBounded
  <2> SUFFICES ASSUME IInv, NEW c \in Calls
               PROVE  TriesBounded!(c)
    BY DEF TriesBounded
  <2>1. MaxAttempts \in Int /\ attempt[c] \in Int /\ (attempt[c] <= 1 \/ attempt[c] <= MaxAttempts)
    BY AttemptsFacts DEF IInv, TypeOK, CallsInv
  <2>2. attempt[c] <= MaxAttempts => 10 * attempt[c] <= 10 * MaxAttempts
    BY <2>1
  <2>3. configured.tenths \in Int /\ 10 * attempt[c] \in Int /\ 10 * MaxAttempts \in Int
    BY <2>1, AttemptsAssumption DEF IInv, TypeOK
  <2> QED BY <2>1, <2>2, <2>3, AttemptsFacts DEF IInv, TypeOK
<1> QED BY <1>1, Invariance, PTL

\* A further try only follows one that left nothing behind.
THEOREM NothingLeftBehind == Spec => NoTryLeftBehind
<1> DEFINE A == \A c \in Calls :
                  attempt[c] > 0 /\ attempt'[c] > attempt[c]
                    => /\ runs[c] = 0
                       /\ \A m \in transit : m.call # c
                       /\ \A b \in answers : b.request.call # c
<1>1. ASSUME IInv, [Next]_vars
      PROVE  A
  <2> SUFFICES ASSUME NEW c \in Calls, attempt[c] > 0, attempt'[c] > attempt[c]
               PROVE  /\ runs[c] = 0
                      /\ \A m \in transit : m.call # c
                      /\ \A b \in answers : b.request.call # c
    OBVIOUS
  <2>1. attempt \in [Calls -> Nat] /\ attempt' # attempt
    BY <1>1 DEF IInv, TypeOK
  <2>2. PICK d \in Calls : Send(d) \/ SendRefused(d)
    BY <1>1, <2>1 DEF Next, ClientNext, Receive, Lose, ServerRuns, ServerRefuses, RequestLost, vars
  <2>3. d = c
    BY <2>1, <2>2 DEF Send, SendRefused
  <2> QED BY <1>1, <2>2, <2>3 DEF Send, SendRefused, IInv, CallsInv
<1>2. IInv /\ [Next]_vars => [A]_vars
  BY <1>1
<1> QED BY <1>2, Invariance, PTL DEF Spec, NoTryLeftBehind

----------------------------------------------------------------------------
\* What a call is told changes only as its result does.
LEMMA ToldFacts ==
  ASSUME IInv, NEW c \in Calls
  PROVE  /\ result[c] = NoResult => Told(c) = "none"
         /\ result[c] = Thrown => Told(c) = "open"
         /\ result[c] # NoResult => Told(c) \in {"ok", "notRun", "open"}
         /\ Told(c) = "ok" => result[c] = OK
         /\ Told(c) = "notRun" => result[c] \in Refusals /\ result[c].ran = "no"
<1>1. OK # Thrown /\ OK # NoResult /\ Thrown # NoResult /\ Thrown \notin Refusals
  BY AnswerFacts
<1> QED BY <1>1 DEF Told

\* A call's end tells its caller, once.
LEMMA EndTells ==
  ASSUME IInv, IInv', NEW c \in Calls, NEW a \in Answers \cup {Thrown},
         phase[c] # "done",
         result' = [result EXCEPT ![c] = a],
         UNCHANGED runs
  PROVE  \E t \in {"ok", "notRun", "open"} : Once!Tell(c, t)
<1>1. /\ result[c] = NoResult /\ result'[c] = a /\ a # NoResult
      /\ \A d \in Calls : d # c => result'[d] = result[d]
  BY AnswerFacts DEF IInv, TypeOK, CallsInv
<1>2. Told(c) = "none" /\ Told(c)' \in {"ok", "notRun", "open"}
  BY <1>1, ToldFacts, AnswerFacts DEF Told
<1>3. \A d \in Calls : d # c => Told(d)' = Told(d)
  BY <1>1 DEF Told
<1>4. /\ Told(c)' = "ok" => runs[c] = 1
      /\ Told(c)' = "notRun" => runs[c] = 0
  <2>1. OK # NoResult /\ OK # Thrown
    BY AnswerFacts
  <2>2. /\ Told(c)' = "ok" => a = OK
        /\ Told(c)' = "notRun" => a \in Refusals /\ a.ran = "no"
    BY <1>1, <2>1 DEF Told
  <2> QED BY <1>1, <2>2 DEF IInv, CallsInv
<1>5. [d \in Calls |-> Told(d)]' = [[d \in Calls |-> Told(d)] EXCEPT ![c] = Told(c)']
  BY <1>3
<1>6. [d \in Calls |-> Told(d)][c] = "none"
  BY <1>2
<1>7. Once!Tell(c, Told(c)')
  BY <1>4, <1>5, <1>6 DEF Once!Tell
<1> QED BY <1>2, <1>7

\* Retries, losses and a server that answers or not implement CallOnce.
THEOREM ImplementsCallOnce == Spec => CallOnceSpec
<1>1. Init => Once!Init
  <2> SUFFICES ASSUME Init
               PROVE  Once!Init
    OBVIOUS
  <2>1. runs = [c \in Calls |-> 0]
    BY DEF Init
  <2>2. [c \in Calls |-> Told(c)] = [c \in Calls |-> "none"]
    BY DEF Init, Told
  <2> QED BY <2>1, <2>2 DEF Once!Init
<1>2. ASSUME IInv, IInv', [Next]_vars
      PROVE  [Once!Next]_(Once!vars)
  <2> USE <1>2
  <2>1. ASSUME NEW c \in Calls, SendRefused(c) \/ Lose(c)
        PROVE  Once!Next
    <3>1. \E t \in {"ok", "notRun", "open"} : Once!Tell(c, t)
      BY <2>1, EndTells DEF SendRefused, Lose
    <3> QED BY <3>1 DEF Once!Next
  <2>2. ASSUME NEW c \in Calls, NEW a \in Answers, Receive(c, a)
        PROVE  [Once!Next]_(Once!vars)
    <3>1. CASE UNCHANGED result
      BY <2>2, <3>1 DEF Receive, Once!vars, Told
    <3>2. CASE result' = [result EXCEPT ![c] = a]
      <4>1. \E t \in {"ok", "notRun", "open"} : Once!Tell(c, t)
        BY <2>2, <3>2, EndTells DEF Receive
      <4> QED BY <4>1 DEF Once!Next
    <3> QED BY <2>2, <3>1, <3>2 DEF Receive
  <2>3. ASSUME NEW c \in Calls, Send(c)
        PROVE  UNCHANGED Once!vars
    BY <2>3 DEF Send, Once!vars, Told
  <2>4. ASSUME NEW m \in transit, NEW a \in Answers, ServerRuns(m, a)
        PROVE  Once!Next
    <3>1. m.call \in Calls /\ runs[m.call] = 0
      BY DEF IInv, TypeOK, TransitInv, Requests
    <3>2. Told(m.call) \in {"none", "open"}
      <4>1. result[m.call] \in {NoResult, Thrown}
        BY <3>1 DEF IInv, TransitInv, CallsInv
      <4> QED BY <3>1, <4>1, ToldFacts
    <3>3. \A c \in Calls : Told(c)' = Told(c)
      BY <2>4 DEF ServerRuns, Told
    <3>4. runs' = [runs EXCEPT ![m.call] = 1]
      BY <2>4, <3>1 DEF ServerRuns
    <3>5. [c \in Calls |-> Told(c)][m.call] \in {"none", "open"}
      BY <3>1, <3>2
    <3>6. UNCHANGED [c \in Calls |-> Told(c)]
      BY <3>3
    <3>7. Once!Run(m.call)
      BY <3>1, <3>4, <3>5, <3>6 DEF Once!Run
    <3> QED BY <3>1, <3>7 DEF Once!Next
  <2>5. ASSUME NEW m \in transit, NEW a \in Answers, ServerRefuses(m, a) \/ RequestLost(m)
        PROVE  UNCHANGED Once!vars
    BY <2>5 DEF ServerRefuses, RequestLost, Once!vars, Told
  <2>6. CASE UNCHANGED vars
    BY <2>6 DEF vars, Once!vars, Told
  <2> QED BY <2>1, <2>2, <2>3, <2>4, <2>5, <2>6, AnswerFacts DEF Next, ClientNext
<1> QED BY <1>1, <1>2, Invariance, PTL DEF Spec, CallOnceSpec, Once!Spec

----------------------------------------------------------------------------
(***************************************************************************)
(* MGet for any limits, keys and pages: each key is answered once, by an   *)
(* answer to it, the keys of each request fit its frame, and each request  *)
(* answers one key at least.                                               *)
(***************************************************************************)

\* The bytes of the first i keys, by the sums s; where run r starts: at the
\* end of the one before it.
Sum(s, i) == IF i = 0 THEN 0 ELSE s[i]
Start(e, r) == IF r = 1 THEN 0 ELSE e[r - 1]

\* Sums grow.
Grow(s) == \A i, j \in 0..Len(s) : i <= j => Sum(s, i) <= Sum(s, j)

\* The runs that end at e follow one another over the keys whose sums are s,
\* and each fits a frame.
Fit(e, s) ==
  \A r \in 1..Len(e) :
    /\ Start(e, r) <= e[r] /\ e[r] <= Len(s)
    /\ Sum(s, e[r]) - Sum(s, Start(e, r)) <= MAX_MGET_KEYS_BYTES

\* size counts the bytes of the run the split is in.
SplitInv ==
  /\ Len(upTo) <= Len(keys)
  /\ Grow(upTo)
  /\ Fit(ends, upTo)
  /\ mget = "splitting" =>
       /\ Start(ends, Len(ends) + 1) <= Len(upTo)
       /\ size = Sum(upTo, Len(upTo)) - Sum(upTo, Start(ends, Len(ends) + 1))
       /\ size <= MAX_MGET_KEYS_BYTES

\* The entries are those of the runs before the one asked for, and of a first
\* part of it.
AskInv ==
  /\ \A i \in 1..Len(out) : out[i] = i
  /\ mget \in {"none", "splitting", "refused"} => out = <<>> /\ asks = 0 /\ run = 1
  /\ mget = "none" => upTo = <<>> /\ ends = <<>> /\ size = 0
  /\ mget \in {"asking", "asked"} =>
       /\ run <= Len(ends) /\ ends[Len(ends)] = Len(keys)
       /\ Start(ends, run) <= Len(out) /\ Len(out) <= ends[run]
  /\ mget = "asked" => Len(out) < ends[run]
  /\ mget = "done" => Len(out) = Len(keys)
  /\ asks <= Len(out) + (IF mget \in {"asked", "failed"} THEN 1 ELSE 0)

\* The inductive invariant.
MGetInv == MGetTypeOK /\ SplitInv /\ AskInv

----------------------------------------------------------------------------
(* Sums and runs.                                                          *)

\* A key passed keeps the sums growing, and the runs over them fitting.
LEMMA KeyPassed ==
  ASSUME NEW s \in Seq(Nat), NEW e \in Seq(Nat), NEW b \in Nat,
         Grow(s), Fit(e, s), Sum(s, Len(s)) <= b
  PROVE  /\ Append(s, b) \in Seq(Nat) /\ Len(Append(s, b)) = Len(s) + 1
         /\ \A i \in 0..Len(s) : Sum(Append(s, b), i) = Sum(s, i)
         /\ Sum(Append(s, b), Len(s) + 1) = b
         /\ Grow(Append(s, b)) /\ Fit(e, Append(s, b))
<1> DEFINE t == Append(s, b)
<1>1. t \in Seq(Nat) /\ Len(t) = Len(s) + 1 /\ t[Len(s) + 1] = b
      /\ \A i \in 1..Len(s) : t[i] = s[i]
  BY AppendProperties
<1>2. Len(s) \in Nat /\ \A i \in 1..Len(s) : s[i] \in Nat
  BY LenProperties, ElementOfSeq
<1> HIDE DEF t
<1>3. \A i \in 0..Len(s) : Sum(t, i) = Sum(s, i)
  BY <1>1, <1>2 DEF Sum
<1>4. Sum(t, Len(s) + 1) = b
  BY <1>1, <1>2 DEF Sum
<1>5. \A i \in 0..Len(s) : Sum(s, i) \in Nat
  BY <1>2 DEF Sum
<1>6. Grow(t)
  <2> SUFFICES ASSUME NEW i \in 0..(Len(s) + 1), NEW j \in 0..(Len(s) + 1), i <= j
               PROVE  Sum(t, i) <= Sum(t, j)
    BY <1>1 DEF Grow
  <2>1. CASE j <= Len(s)
    <3>1. i \in 0..Len(s) /\ j \in 0..Len(s)
      BY <1>2, <2>1
    <3> QED BY <1>3, <3>1 DEF Grow
  <2>2. CASE j = Len(s) + 1 /\ i <= Len(s)
    <3>1. i \in 0..Len(s) /\ Len(s) \in 0..Len(s)
      BY <1>2, <2>2
    <3>2. Sum(s, i) <= Sum(s, Len(s))
      BY <1>2, <3>1 DEF Grow
    <3>3. Sum(s, i) \in Nat /\ Sum(s, Len(s)) \in Nat
      BY <1>5, <3>1
    <3> QED BY <1>3, <1>4, <2>2, <3>1, <3>2, <3>3
  <2>3. CASE i = Len(s) + 1 /\ j = Len(s) + 1
    BY <1>4, <2>3
  <2> QED BY <1>2, <2>1, <2>2, <2>3
<1>7. Fit(e, t)
  <2> SUFFICES ASSUME NEW r \in 1..Len(e)
               PROVE  /\ Start(e, r) <= e[r] /\ e[r] <= Len(t)
                      /\ Sum(t, e[r]) - Sum(t, Start(e, r)) <= MAX_MGET_KEYS_BYTES
    BY DEF Fit
  <2>1. /\ Start(e, r) <= e[r] /\ e[r] <= Len(s)
        /\ Sum(s, e[r]) - Sum(s, Start(e, r)) <= MAX_MGET_KEYS_BYTES
    BY DEF Fit
  <2>2. e[r] \in Nat /\ Start(e, r) \in Nat
    BY LenProperties, ElementOfSeq DEF Start
  <2>3. e[r] \in 0..Len(s) /\ Start(e, r) \in 0..Len(s)
    BY <1>2, <2>1, <2>2
  <2> QED BY <1>1, <1>2, <1>3, <2>1, <2>2, <2>3
<1> QED BY <1>1, <1>3, <1>4, <1>6, <1>7 DEF t

\* A run that ends with the last key passed fits too.
LEMMA RunPassed ==
  ASSUME NEW s \in Seq(Nat), NEW e \in Seq(Nat), Fit(e, s),
         Start(e, Len(e) + 1) <= Len(s),
         Sum(s, Len(s)) - Sum(s, Start(e, Len(e) + 1)) <= MAX_MGET_KEYS_BYTES
  PROVE  /\ Append(e, Len(s)) \in Seq(Nat) /\ Len(Append(e, Len(s))) = Len(e) + 1
         /\ Start(Append(e, Len(s)), Len(e) + 2) = Len(s)
         /\ Append(e, Len(s))[Len(e) + 1] = Len(s)
         /\ Fit(Append(e, Len(s)), s)
<1> DEFINE f == Append(e, Len(s))
<1>1. Len(s) \in Nat /\ Len(e) \in Nat
  BY LenProperties
<1>2. f \in Seq(Nat) /\ Len(f) = Len(e) + 1 /\ f[Len(e) + 1] = Len(s)
      /\ \A r \in 1..Len(e) : f[r] = e[r]
  BY <1>1, AppendProperties
<1> HIDE DEF f
<1>3. Start(f, Len(e) + 2) = Len(s)
  BY <1>1, <1>2 DEF Start
<1>4. ASSUME NEW r \in 1..(Len(e) + 1) PROVE Start(f, r) = Start(e, r)
  <2>1. r = 1 \/ r - 1 \in 1..Len(e)
    BY <1>1
  <2> QED BY <1>2, <2>1 DEF Start
<1>5. Fit(f, s)
  <2> SUFFICES ASSUME NEW r \in 1..(Len(e) + 1)
               PROVE  /\ Start(f, r) <= f[r] /\ f[r] <= Len(s)
                      /\ Sum(s, f[r]) - Sum(s, Start(f, r)) <= MAX_MGET_KEYS_BYTES
    BY <1>2 DEF Fit
  <2>1. CASE r \in 1..Len(e)
    BY <1>2, <1>4, <2>1 DEF Fit
  <2>2. CASE r = Len(e) + 1
    BY <1>1, <1>2, <1>4, <2>2
  <2> QED BY <1>1, <2>1, <2>2
<1> QED BY <1>2, <1>3, <1>5 DEF f

\* What a part of a run takes is no more than the run.
LEMMA PartFits ==
  ASSUME NEW s \in Seq(Nat), NEW e \in Seq(Nat), NEW r \in 1..Len(e), NEW n \in Nat,
         Grow(s), Fit(e, s), Start(e, r) <= n, n <= e[r]
  PROVE  Sum(s, e[r]) - Sum(s, n) <= MAX_MGET_KEYS_BYTES
<1>1. Len(s) \in Nat /\ \A i \in 1..Len(s) : s[i] \in Nat
  BY LenProperties, ElementOfSeq
<1>2. e[r] \in Nat /\ Start(e, r) \in Nat
  BY LenProperties, ElementOfSeq DEF Start
<1>3. /\ Start(e, r) <= e[r] /\ e[r] <= Len(s)
      /\ Sum(s, e[r]) - Sum(s, Start(e, r)) <= MAX_MGET_KEYS_BYTES
  BY DEF Fit
<1>4. Start(e, r) \in 0..Len(s) /\ n \in 0..Len(s) /\ e[r] \in 0..Len(s)
  BY <1>1, <1>2, <1>3
<1>5. Sum(s, Start(e, r)) <= Sum(s, n)
  BY <1>4 DEF Grow
<1>6. \A i \in 0..Len(s) : Sum(s, i) \in Nat
  BY <1>1 DEF Sum
<1>7. Sum(s, Start(e, r)) \in Nat /\ Sum(s, n) \in Nat /\ Sum(s, e[r]) \in Nat
  BY <1>4, <1>6
<1> QED BY <1>3, <1>5, <1>7, MGetAssumption

----------------------------------------------------------------------------
LEMMA InitHolds == MGetInit => MGetInv
<1> SUFFICES ASSUME MGetInit PROVE MGetInv
  OBVIOUS
<1>1. MGetTypeOK
  BY DEF MGetInit, MGetTypeOK
<1>2. SplitInv
  BY MGetAssumption DEF MGetInit, SplitInv, Grow, Fit, Sum, Start
<1>3. AskInv
  BY DEF MGetInit, AskInv
<1> QED BY <1>1, <1>2, <1>3 DEF MGetInv

\* A call with its keys.
LEMMA CallHolds == ASSUME MGetInv, MGetCall PROVE MGetInv'
<1> USE DEF MGetInv
<1>1. PICK n \in 0..(MAX_MGET_KEYS + 1) : keys' \in [1..n -> 0..(MAX_MGET_KEY + 1)]
  BY DEF MGetCall
<1>2. keys' \in Seq(Nat) /\ Len(keys') = n
  <2>1. n \in Nat
    BY MGetAssumption
  <2>2. keys' \in [1..n -> Nat]
    BY <1>1, MGetAssumption
  <2>3. keys' \in Seq(Nat)
    BY <2>1, <2>2, SeqDef
  <2> QED BY <2>1, <2>2, <2>3, LenProperties
<1>3. upTo = <<>> /\ ends = <<>> /\ size = 0 /\ out = <<>> /\ asks = 0 /\ run = 1
  BY DEF MGetCall, AskInv
<1>4. mget' \in {"done", "refused", "splitting"} /\ (mget' = "done" => keys' = <<>>)
  BY DEF MGetCall
<1>5. UNCHANGED <<upTo, size, ends, run, out, asks>>
  BY DEF MGetCall
<1>6. MGetTypeOK'
  BY <1>2, <1>4, <1>5 DEF MGetTypeOK
<1>7. SplitInv'
  BY <1>2, <1>3, <1>5, MGetAssumption DEF SplitInv, Grow, Fit, Sum, Start
<1>8. AskInv'
  BY <1>3, <1>4, <1>5 DEF AskInv
<1> QED BY <1>6, <1>7, <1>8

\* A key passed, into the run the split is in or into the next.
LEMMA SplitHolds == ASSUME MGetInv, SplitKey PROVE MGetInv'
<1> USE DEF MGetInv
<1>1. /\ upTo \in Seq(Nat) /\ ends \in Seq(Nat) /\ keys \in Seq(Nat) /\ size \in Nat
      /\ mget = "splitting" /\ Len(upTo) < Len(keys)
      /\ Grow(upTo) /\ Fit(ends, upTo)
      /\ Start(ends, Len(ends) + 1) <= Len(upTo)
      /\ size = Sum(upTo, Len(upTo)) - Sum(upTo, Start(ends, Len(ends) + 1))
      /\ size <= MAX_MGET_KEYS_BYTES
  BY DEF MGetTypeOK, SplitInv, SplitKey, Scanned
<1>2. UNCHANGED <<keys, run, out, asks>>
  BY DEF SplitKey
<1>3. Len(upTo) \in Nat /\ Len(keys) \in Nat /\ Len(ends) \in Nat
  BY <1>1, LenProperties
<1>4. Length \in Nat
  <2>1. Len(upTo) + 1 \in 1..Len(keys)
    BY <1>1, <1>3
  <2> QED BY <1>1, <2>1, ElementOfSeq DEF Length, Scanned
<1>5. CASE Length > MAX_MGET_KEY
  <2>1. mget' = "refused" /\ UNCHANGED <<upTo, size, ends>>
    BY <1>5 DEF SplitKey
  <2>2. SplitInv'
    BY <1>2, <2>1 DEF SplitInv, Grow, Fit, Sum, Start
  <2> QED BY <1>1, <1>2, <2>1, <2>2 DEF MGetTypeOK, AskInv
<1>6. CASE Length <= MAX_MGET_KEY
  <2> DEFINE b == Sum(upTo, Len(upTo)) + 2 + Length
             e == IF StartsRun THEN Append(ends, Len(upTo)) ELSE ends
  <2>1. /\ upTo' = Append(upTo, b) /\ ends' = e /\ mget' = "splitting"
        /\ size' = (IF StartsRun THEN 0 ELSE size) + 2 + Length
    BY <1>1, <1>4, <1>6, MGetAssumption DEF SplitKey, Bytes, Scanned, Sum
  <2>2. Sum(upTo, Len(upTo)) \in Nat
    <3>1. CASE Len(upTo) = 0
      BY <3>1 DEF Sum
    <3>2. CASE Len(upTo) # 0
      <4>1. Len(upTo) \in 1..Len(upTo)
        BY <1>3, <3>2
      <4> QED BY <1>1, <3>2, <4>1, ElementOfSeq DEF Sum
    <3> QED BY <3>1, <3>2
  <2>3. b \in Nat /\ Sum(upTo, Len(upTo)) <= b
    BY <1>4, <2>2
  <2> HIDE DEF b
  <2>4. e \in Seq(Nat) /\ Fit(e, upTo) /\ Start(e, Len(e) + 1) <= Len(upTo)
        /\ size' = b - Sum(upTo, Start(e, Len(e) + 1)) /\ size' <= MAX_MGET_KEYS_BYTES
    <3>1. CASE StartsRun
      <4>1. /\ Append(ends, Len(upTo)) \in Seq(Nat) /\ Len(Append(ends, Len(upTo))) = Len(ends) + 1
            /\ Start(Append(ends, Len(upTo)), Len(ends) + 2) = Len(upTo)
            /\ Fit(Append(ends, Len(upTo)), upTo)
        BY <1>1, RunPassed
      <4>2. Start(e, Len(e) + 1) = Len(upTo)
        BY <1>3, <3>1, <4>1
      <4>3. size' = 2 + Length
        BY <1>4, <2>1, <3>1
      <4> QED BY <1>3, <1>4, <1>6, <2>2, <3>1, <4>1, <4>2, <4>3, MGetAssumption DEF b
    <3>2. CASE ~StartsRun
      <4>1. size' = size + 2 + Length /\ e = ends
        BY <2>1, <3>2
      <4>2. size + 2 + Length <= MAX_MGET_KEYS_BYTES
        BY <1>1, <1>4, <3>2, MGetAssumption DEF StartsRun
      <4>3. Sum(upTo, Start(ends, Len(ends) + 1)) \in Nat
        <5>1. Start(ends, Len(ends) + 1) \in Nat
          BY <1>1, <1>3, ElementOfSeq DEF Start
        <5> QED BY <1>1, <1>3, <5>1, ElementOfSeq DEF Sum
      <4> HIDE DEF e
      <4>4. size' = b - Sum(upTo, Start(ends, Len(ends) + 1))
        BY <1>1, <1>4, <2>2, <4>1, <4>3 DEF b
      <4> QED BY <1>1, <4>1, <4>2, <4>4
    <3> QED BY <3>1, <3>2
  <2>5. /\ Append(upTo, b) \in Seq(Nat) /\ Len(Append(upTo, b)) = Len(upTo) + 1
        /\ \A i \in 0..Len(upTo) : Sum(Append(upTo, b), i) = Sum(upTo, i)
        /\ Sum(Append(upTo, b), Len(upTo) + 1) = b
        /\ Grow(Append(upTo, b)) /\ Fit(e, Append(upTo, b))
    BY <1>1, <2>3, <2>4, KeyPassed
  <2>6. Start(e, Len(e) + 1) \in 0..Len(upTo)
    <3>1. Len(e) \in Nat
      BY <2>4, LenProperties
    <3>2. Start(e, Len(e) + 1) \in Nat
      BY <2>4, <3>1, ElementOfSeq DEF Start
    <3> QED BY <1>3, <2>4, <3>2
  <2> HIDE DEF e
  <2>7. size' \in Nat
    BY <1>1, <1>4, <2>1
  <2>8. MGetTypeOK'
    BY <1>2, <2>1, <2>4, <2>5, <2>7 DEF MGetTypeOK
  <2>9. Grow(upTo)' /\ Fit(ends, upTo)'
    <3>1. Grow(upTo') /\ Fit(ends', upTo')
      BY <2>1, <2>5
    <3> QED BY <3>1 DEF Grow, Fit, Sum, Start
  <2>10. /\ Start(ends', Len(ends') + 1) <= Len(upTo')
         /\ size' = Sum(upTo', Len(upTo')) - Sum(upTo', Start(ends', Len(ends') + 1))
    BY <1>3, <2>1, <2>4, <2>5, <2>6
  <2>11. SplitInv'
    <3>1. Len(upTo') <= Len(keys')
      BY <1>1, <1>2, <1>3, <2>1, <2>5
    <3> QED BY <2>4, <2>9, <2>10, <3>1 DEF SplitInv, Sum, Start
  <2>12. AskInv'
    BY <1>1, <1>2, <2>1 DEF AskInv
  <2> QED BY <2>8, <2>11, <2>12
<1> QED BY <1>4, <1>5, <1>6, MGetAssumption
\* The last run ends with the last key.
LEMMA SplitOverHolds == ASSUME MGetInv, SplitOver PROVE MGetInv'
<1> USE DEF MGetInv
<1>1. /\ upTo \in Seq(Nat) /\ ends \in Seq(Nat) /\ keys \in Seq(Nat)
      /\ mget = "splitting" /\ Len(upTo) = Len(keys)
      /\ Fit(ends, upTo)
      /\ Start(ends, Len(ends) + 1) <= Len(upTo)
      /\ size = Sum(upTo, Len(upTo)) - Sum(upTo, Start(ends, Len(ends) + 1))
      /\ size <= MAX_MGET_KEYS_BYTES
  BY DEF MGetTypeOK, SplitInv, SplitOver, Scanned
<1>2. /\ UNCHANGED <<keys, upTo, size, run, out, asks>> /\ mget' = "asking"
      /\ ends' = Append(ends, Len(upTo))
  BY <1>1 DEF SplitOver
<1>3. out = <<>> /\ asks = 0 /\ run = 1
  BY <1>1 DEF AskInv
<1>4. Len(ends) \in Nat /\ Len(upTo) \in Nat
  BY <1>1, LenProperties
<1>5. /\ ends' \in Seq(Nat) /\ Len(ends') = Len(ends) + 1
      /\ ends'[Len(ends) + 1] = Len(upTo) /\ Fit(ends', upTo)
  BY <1>1, <1>2, RunPassed
<1>6. MGetTypeOK'
  BY <1>2, <1>5 DEF MGetTypeOK
<1>7. SplitInv'
  BY <1>1, <1>2, <1>5 DEF SplitInv, Grow, Fit, Sum, Start
<1>8. AskInv'
  <2>1. ends'[1] \in Nat
    BY <1>4, <1>5, ElementOfSeq
  <2> QED BY <1>1, <1>2, <1>3, <1>4, <1>5, <2>1 DEF AskInv, Start
<1> QED BY <1>6, <1>7, <1>8

\* The steps that leave the runs as they are.
LEMMA RunsKept ==
  ASSUME SplitInv, UNCHANGED <<keys, upTo, size, ends>>, mget' # "splitting"
  PROVE  SplitInv'
BY DEF SplitInv, Grow, Fit, Sum, Start

LEMMA RunOverHolds == ASSUME MGetInv, RunOver PROVE MGetInv'
<1> USE DEF MGetInv
<1>1. /\ mget = "asking" /\ Len(out) >= ends[run]
      /\ UNCHANGED <<keys, upTo, size, ends, out, asks>>
      /\ mget' = (IF run = Len(ends) THEN "done" ELSE mget)
      /\ run' = (IF run = Len(ends) THEN run ELSE run + 1)
  BY DEF RunOver
<1>2. /\ run \in 1..Len(ends) /\ ends[run] \in Nat /\ Len(out) \in Nat /\ Len(ends) \in Nat
      /\ Len(out) = ends[run]
  <2>1. Len(out) \in Nat /\ Len(ends) \in Nat /\ run \in Nat \ {0} /\ run <= Len(ends)
    BY <1>1, LenProperties DEF MGetTypeOK, AskInv
  <2>2. run \in 1..Len(ends)
    BY <2>1
  <2>3. ends[run] \in Nat
    BY <2>2, ElementOfSeq DEF MGetTypeOK
  <2> QED BY <1>1, <2>1, <2>2, <2>3 DEF AskInv
<1>3. SplitInv'
  BY <1>1, RunsKept
<1>4. MGetTypeOK'
  BY <1>1, <1>2 DEF MGetTypeOK
<1>5. AskInv'
  <2>1. CASE run = Len(ends)
    BY <1>1, <1>2, <2>1 DEF AskInv
  <2>2. CASE run # Len(ends)
    <3>1. run + 1 \in 1..Len(ends)
      BY <1>2, <2>2
    <3>2. Start(ends, run + 1) <= ends[run + 1] /\ Start(ends, run + 1) = ends[run]
      BY <1>2, <3>1 DEF SplitInv, Fit, Start
    <3>3. /\ run' = run + 1 /\ mget' = "asking" /\ run' <= Len(ends')
          /\ Start(ends', run') <= Len(out') /\ Len(out') <= ends'[run']
      BY <1>1, <1>2, <2>2, <3>1, <3>2
    <3> QED BY <1>1, <3>3 DEF AskInv
  <2> QED BY <2>1, <2>2
<1> QED BY <1>3, <1>4, <1>5

LEMMA AskHolds == ASSUME MGetInv, Ask PROVE MGetInv'
<1> USE DEF MGetInv
<1>1. /\ mget = "asking" /\ Len(out) < ends[run] /\ mget' = "asked" /\ asks' = asks + 1
      /\ UNCHANGED <<keys, upTo, size, ends, run, out>>
  BY DEF Ask
<1>2. SplitInv'
  BY <1>1, RunsKept
<1>3. Len(out) \in Nat /\ asks \in Nat
  BY LenProperties DEF MGetTypeOK
<1>4. MGetTypeOK'
  BY <1>1, <1>3 DEF MGetTypeOK
<1>5. AskInv'
  BY <1>1, <1>3 DEF AskInv, Start
<1> QED BY <1>2, <1>4, <1>5

\* A page taken answers the next keys, one at least and none past the run.
LEMMA PageHoldsLemma ==
  ASSUME MGetInv, PageAnswered
  PROVE  MGetInv'
<1> USE DEF MGetInv
<1>1. mget = "asked" /\ UNCHANGED <<keys, upTo, size, ends, run, asks>>
  BY DEF PageAnswered
<1>2. /\ run \in 1..Len(ends) /\ ends[run] \in Nat /\ Len(out) \in Nat /\ asks \in Nat
      /\ Len(out) < ends[run] /\ out \in Seq(Nat) /\ asks <= Len(out) + 1
      /\ Start(ends, run) <= Len(out) /\ ends[Len(ends)] = Len(keys)
      /\ \A i \in 1..Len(out) : out[i] = i
  <2>1. Len(out) \in Nat /\ Len(ends) \in Nat /\ run \in Nat \ {0} /\ run <= Len(ends)
    BY <1>1, LenProperties DEF MGetTypeOK, AskInv
  <2>2. run \in 1..Len(ends)
    BY <2>1
  <2>3. ends[run] \in Nat
    BY <2>2, ElementOfSeq DEF MGetTypeOK
  <2> QED BY <1>1, <2>1, <2>2, <2>3 DEF MGetTypeOK, AskInv
<1>3. Asked \in Nat /\ Asked = ends[run] - Len(out)
  BY <1>2 DEF Asked
<1>4. CASE mget' = "failed" /\ UNCHANGED out
  <2>1. SplitInv'
    BY <1>1, <1>4, RunsKept
  <2>2. MGetTypeOK' /\ AskInv'
    BY <1>1, <1>2, <1>4 DEF MGetTypeOK, AskInv
  <2> QED BY <2>1, <2>2
<1>5. ASSUME NEW n \in 1..Asked, out' = out \o Entries(n), mget' = "asking"
      PROVE  MGetInv'
  <2>1. SplitInv'
    BY <1>1, <1>5, RunsKept
  <2>2. n \in Nat /\ n >= 1 /\ n <= Asked
    BY <1>3
  <2>3. /\ Entries(n) \in Seq(Nat) /\ Len(Entries(n)) = n
        /\ \A i \in 1..n : Entries(n)[i] = Len(out) + i
    <3>1. Entries(n) \in [1..n -> Nat] /\ \A i \in 1..n : Entries(n)[i] = Len(out) + i
      BY <1>2, <1>3, <2>2 DEF Entries
    <3>2. Entries(n) \in Seq(Nat)
      BY <2>2, <3>1, SeqDef
    <3> QED BY <2>2, <3>1, <3>2, LenProperties
  <2>4. /\ out' \in Seq(Nat) /\ Len(out') = Len(out) + n
        /\ \A i \in 1..(Len(out) + n) :
             out'[i] = IF i <= Len(out) THEN out[i] ELSE Entries(n)[i - Len(out)]
    <3>1. PICK e \in Seq(Nat): e = Entries(n)
      BY <2>3
    <3>2. out \in Seq(Nat) /\ out' = out \o e /\ Len(e) = n
      BY <1>2, <1>5, <2>3, <3>1
    <3>3. /\ out \o e \in Seq(Nat) /\ Len(out \o e) = Len(out) + Len(e)
          /\ \A i \in 1..(Len(out) + Len(e)) :
               (out \o e)[i] = IF i <= Len(out) THEN out[i] ELSE e[i - Len(out)]
      BY <3>2, ConcatProperties
    <3> QED BY <3>1, <3>2, <3>3
  <2>5. ASSUME NEW i \in 1..(Len(out) + n) PROVE out'[i] = i
    <3>1. CASE i <= Len(out)
      <4>1. i \in 1..Len(out)
        BY <1>2, <2>2, <3>1
      <4> QED BY <1>2, <2>4, <3>1, <4>1
    <3>2. CASE i > Len(out)
      <4>1. i - Len(out) \in 1..n
        BY <1>2, <2>2, <3>2
      <4>2. Entries(n)[i - Len(out)] = Len(out) + (i - Len(out))
        BY <2>3, <4>1
      <4>3. out'[i] = Entries(n)[i - Len(out)]
        BY <1>2, <2>2, <2>4, <3>2
      <4> QED BY <1>2, <2>2, <4>2, <4>3
    <3> QED BY <1>2, <2>2, <3>1, <3>2
  <2>6. MGetTypeOK'
    BY <1>1, <1>5, <2>4 DEF MGetTypeOK
  <2>7. AskInv'
    <3>1. \A i \in 1..Len(out') : out'[i] = i
      BY <2>4, <2>5
    <3>2. /\ Start(ends', run') <= Len(out') /\ Len(out') <= ends'[run']
          /\ run' <= Len(ends') /\ ends'[Len(ends')] = Len(keys')
          /\ asks' <= Len(out')
      <4>1. Start(ends, run) \in Nat
        <5>1. run = 1 \/ run - 1 \in 1..Len(ends)
          BY <1>2
        <5> QED BY <5>1, ElementOfSeq DEF Start, MGetTypeOK
      <4>2. Len(out') = Len(out) + n
        BY <2>4
      <4>3. Start(ends, run) <= Len(out) + n /\ Len(out) + n <= ends[run]
        BY <1>2, <1>3, <2>2, <4>1
      <4>4. run <= Len(ends)
        BY <1>2, LenProperties DEF MGetTypeOK
      <4>5. asks <= Len(out) + n
        BY <1>2, <2>2
      <4> QED BY <1>1, <1>2, <4>2, <4>3, <4>4, <4>5
    <3> QED BY <1>5, <3>1, <3>2 DEF AskInv
  <2> QED BY <2>1, <2>6, <2>7
<1>6. PICK n \in 0..(Asked + 1), next \in {<<>>} \cup {<<i>> : i \in 0..(Asked + 1)} :
        IF PageHolds(n, next)
        THEN out' = out \o Entries(n) /\ mget' = "asking"
        ELSE mget' = "failed" /\ UNCHANGED out
  BY DEF PageAnswered
<1>7. CASE PageHolds(n, next)
  <2>1. n \in Nat /\ n # 0 /\ n <= Asked
    BY <1>3, <1>7 DEF PageHolds
  <2>2. n \in 1..Asked
    BY <1>3, <2>1
  <2> QED BY <1>5, <1>6, <1>7, <2>2
<1> QED BY <1>4, <1>6, <1>7

LEMMA FailHolds == ASSUME MGetInv, AskFails PROVE MGetInv'
<1> USE DEF MGetInv
<1>1. mget = "asked" /\ mget' = "failed" /\ UNCHANGED <<keys, upTo, size, ends, run, out, asks>>
  BY DEF AskFails
<1>2. SplitInv'
  BY <1>1, RunsKept
<1>3. MGetTypeOK' /\ AskInv'
  BY <1>1 DEF MGetTypeOK, AskInv
<1> QED BY <1>2, <1>3

LEMMA NextHolds == MGetInv /\ [MGetNext]_mgetVars => MGetInv'
<1> SUFFICES ASSUME MGetInv, [MGetNext]_mgetVars PROVE MGetInv'
  OBVIOUS
<1>1. CASE UNCHANGED mgetVars
  BY <1>1 DEF mgetVars, MGetInv, MGetTypeOK, SplitInv, AskInv, Grow, Fit, Sum, Start
<1> QED BY <1>1, CallHolds, SplitHolds, SplitOverHolds, RunOverHolds, AskHolds,
           PageHoldsLemma, FailHolds DEF MGetNext

----------------------------------------------------------------------------
\* The runs fit their frames, and the entries are in their places, for any
\* limits.
THEOREM MGetInvariance == MGetSpec => []MGetInv
BY InitHolds, NextHolds, PTL DEF MGetSpec

\* mget keeps its types.
THEOREM MGetTypes == MGetSpec => []MGetTypeOK
<1>1. MGetInv => MGetTypeOK
  BY DEF MGetInv
<1> QED BY <1>1, MGetInvariance, PTL

\* However many keys, of whatever lengths, and whatever pages the server
\* answers: each key is answered once, in its place, by an answer to it; a
\* request's keys fit its frame; each request answers one key at least
\* (mget, splitMGetKeys).
THEOREM EachKeyAnsweredOnce == MGetSpec => []EachKeyOnce
<1>1. MGetInv => EachKeyOnce
  <2> SUFFICES ASSUME MGetInv PROVE EachKeyOnce
    OBVIOUS
  <2> USE DEF MGetInv
  <2>1. Len(out) \in Nat /\ DOMAIN out = 1..Len(out) /\ Len(ends) \in Nat
    BY LenProperties DEF MGetTypeOK
  <2>2. ASSUME mget = "asked" PROVE Bytes(ends[run]) - Bytes(Len(out)) <= MAX_MGET_KEYS_BYTES
    <3>1. /\ run \in 1..Len(ends) /\ Start(ends, run) <= Len(out) /\ Len(out) <= ends[run]
          /\ Grow(upTo) /\ Fit(ends, upTo) /\ upTo \in Seq(Nat) /\ ends \in Seq(Nat)
      BY <2>1, <2>2 DEF AskInv, MGetTypeOK, SplitInv
    <3>2. Sum(upTo, ends[run]) - Sum(upTo, Len(out)) <= MAX_MGET_KEYS_BYTES
      BY <2>1, <3>1, PartFits
    <3> QED BY <3>2 DEF Sum, Bytes
  <2> QED BY <2>1, <2>2 DEF AskInv, EachKeyOnce
<1> QED BY <1>1, MGetInvariance, PTL

----------------------------------------------------------------------------
(***************************************************************************)
(* Txn for any number of calls on one handle: it is ended once.  The       *)
(* invariant has two halves: the handle's, that done is set from the moment *)
(* an ending is sent, and the server's, that what a call was told to have  *)
(* done is what the server holds, whatever was resent, reordered or given  *)
(* up meanwhile.                                                           *)
(***************************************************************************)

\* done stands exactly while an ending has been sent; the ending is then the
\* only one; and a call that was not sent was made after it.
HandleInv ==
  /\ \A c \in TxnCalls: op[c] \in Endings /\ Sent(c) => done
  /\ done => \E d \in TxnCalls: op[d] \in Endings /\ Sent(d)
  /\ \A c, d \in TxnCalls:
       op[c] \in Endings /\ op[d] \in Endings /\ Sent(c) /\ Sent(d) => c = d
  /\ \A c \in TxnCalls: told[c] \in {"finished", "already"} => done

\* What the server applied is what it buffered once it committed, nothing
\* before and nothing otherwise; an answer told ok is one it gave.
ServerInv ==
  /\ applied = IF server = "committed" THEN buffered ELSE {}
  /\ \A c \in TxnCalls: told[c] = "ok" =>
       /\ op[c] = "write" => c \in buffered
       /\ op[c] = "commit" => server = "committed"
       /\ op[c] = "rollback" => server = "rolledBack"

TxnInv == TxnTypeOK /\ HandleInv /\ ServerInv

\* The conjuncts of EndsOnce are read off the invariant.
LEMMA TxnInvImpliesEndsOnce ==
  ASSUME TxnInv
  PROVE  EndsOnce
<1>1. \A c \in TxnCalls: told[c] = "ok" =>
       /\ op[c] = "commit" =>
            \A w \in TxnCalls: op[w] = "write" /\ told[w] = "ok" => w \in applied
       /\ op[c] = "rollback" => applied = {}
  BY DEF TxnInv, ServerInv
<1>2. \A c \in TxnCalls: told[c] \in {"finished", "already"} =>
       \E d \in TxnCalls: op[d] \in Endings /\ Sent(d)
  BY DEF TxnInv, HandleInv
<1> QED BY <1>1, <1>2 DEF TxnInv, HandleInv, EndsOnce

\* Nothing was called, so nothing was sent or told.
LEMMA TxnInitHolds ==
  ASSUME TxnInit
  PROVE  TxnInv
<1>1. TxnTypeOK
  <2>1. sends \in Seq([call: TxnCalls, again: BOOLEAN])
    BY DEF TxnInit
  <2>2. /\ op \in [TxnCalls -> {"none", "write"} \cup Endings]
        /\ told \in [TxnCalls -> Outcomes]
    BY DEF TxnInit, Outcomes
  <2> QED BY <2>1, <2>2 DEF TxnInit, TxnTypeOK
<1>2. HandleInv
  BY DEF TxnInit, HandleInv, Sent, Endings
<1>3. ServerInv
  BY DEF TxnInit, ServerInv
<1> QED BY <1>1, <1>2, <1>3 DEF TxnInv

\* A request sent by a call appended to those on their way is still a request.
LEMMA SendsTyped ==
  ASSUME TxnTypeOK, NEW c \in TxnCalls, NEW which \in {"write"} \cup Endings,
         NEW outcome \in {"out", "finished", "already"}, Asks(c, which, outcome),
         done' \in BOOLEAN
  PROVE  TxnTypeOK'
<1>1. sends' \in Seq([call: TxnCalls, again: BOOLEAN])
  <2> DEFINE Sending == [call: TxnCalls, again: BOOLEAN]
             sent == [call |-> c, again |-> FALSE]
  <2>1. sent \in Sending
    OBVIOUS
  <2>2. sends \in Seq(Sending)
    BY DEF TxnTypeOK
  <2>3. sends' = IF outcome = "out" THEN Append(sends, sent) ELSE sends
    BY DEF Asks
  <2> HIDE DEF Sending, sent
  <2>4. sends' \in Seq(Sending)
    BY <2>1, <2>2, <2>3, AppendProperties
  <2> QED BY <2>4 DEF Sending
<1>2. op' \in [TxnCalls -> {"none", "write"} \cup Endings]
  BY DEF TxnTypeOK, Asks
<1>3. told' \in [TxnCalls -> Outcomes]
  BY DEF TxnTypeOK, Asks, Outcomes
<1> QED BY <1>1, <1>2, <1>3 DEF TxnTypeOK, Asks

\* A call changes what was told of itself alone, and tells nothing ok.
LEMMA CallsTellNothingOk ==
  ASSUME TxnTypeOK, ServerInv, NEW c \in TxnCalls, NEW which,
         NEW outcome \in {"out", "finished", "already"}, Asks(c, which, outcome)
  PROVE  ServerInv'
<1>1. \A d \in TxnCalls: d # c => told'[d] = told[d] /\ op'[d] = op[d]
  BY DEF Asks, TxnTypeOK
<1>2. told'[c] = outcome /\ outcome # "ok"
  BY DEF Asks, TxnTypeOK
<1> QED BY <1>1, <1>2 DEF ServerInv, Asks

\* A write is sent while no ending was, and refused otherwise.
LEMMA WriteHolds ==
  ASSUME TxnInv, NEW c \in TxnCalls, Write(c)
  PROVE  TxnInv'
<1> USE DEF TxnInv
<1> DEFINE outcome == IF done THEN "finished" ELSE "out"
<1>1. Asks(c, "write", outcome) /\ done' = done /\ outcome \in {"out", "finished", "already"}
  BY DEF Write
<1>2. TxnTypeOK'
  BY <1>1, SendsTyped DEF TxnTypeOK
<1>3. ServerInv'
  BY <1>1, CallsTellNothingOk
<1>4. /\ told[c] = "none" /\ told'[c] = outcome /\ op'[c] = "write"
      /\ \A d \in TxnCalls: d # c => told'[d] = told[d] /\ op'[d] = op[d]
  BY <1>1 DEF Asks, TxnTypeOK
<1>5. HandleInv'
  BY <1>1, <1>4 DEF HandleInv, Sent, Endings
<1> QED BY <1>2, <1>3, <1>5

\* An ending is sent only while none was, and is then the only one; done is
\* set with it, so those that follow are not sent.
LEMMA EndingHolds ==
  ASSUME TxnInv, NEW c \in TxnCalls, Commit(c) \/ Rollback(c)
  PROVE  TxnInv'
<1> USE DEF TxnInv
<1>1. PICK which \in Endings, outcome \in {"out", "finished", "already"} :
        /\ Asks(c, which, outcome) /\ done' = TRUE
        /\ outcome = "out" <=> ~done
  BY DEF Commit, Rollback, Endings, TxnTypeOK
<1>2. TxnTypeOK'
  BY <1>1, SendsTyped DEF TxnTypeOK
<1>3. ServerInv'
  BY <1>1, CallsTellNothingOk
<1>4. /\ told[c] = "none" /\ told'[c] = outcome /\ op'[c] = which
      /\ \A d \in TxnCalls: d # c => told'[d] = told[d] /\ op'[d] = op[d]
  BY <1>1 DEF Asks, TxnTypeOK
<1>5. CASE done
  <2>1. outcome \in {"finished", "already"}
    BY <1>1, <1>5
  <2> QED BY <1>1, <1>2, <1>3, <1>4, <1>5, <2>1 DEF HandleInv, Sent
<1>6. CASE ~done
  <2>1. outcome = "out"
    BY <1>1, <1>6
  <2>2. \A d \in TxnCalls: ~(op[d] \in Endings /\ Sent(d))
    BY <1>6 DEF HandleInv
  <2>3. \A d \in TxnCalls: d # c => (Sent(d)' <=> Sent(d))
    BY <1>4 DEF Sent
  <2>4. Sent(c)' /\ op'[c] \in Endings
    BY <1>1, <1>4, <2>1 DEF Sent
  <2>5. \A d \in TxnCalls: op'[d] \in Endings /\ Sent(d)' => d = c
    BY <1>4, <2>2, <2>3
  <2>6. HandleInv'
    BY <1>1, <2>4, <2>5 DEF HandleInv
  <2> QED BY <1>2, <1>3, <2>6
<1> QED BY <1>5, <1>6 DEF TxnTypeOK

\* What a call that is out is told changes neither what was sent nor what
\* the handle knows.
LEMMA TellsKeepsHandle ==
  ASSUME TxnInv, NEW c \in TxnCalls, NEW outcome \in {"ok", "failed"},
         Tells(c, outcome), UNCHANGED <<done, op>>
  PROVE  /\ HandleInv' /\ told' \in [TxnCalls -> Outcomes]
         /\ \A d \in TxnCalls: told'[d] = told[d] \/ (d = c /\ told'[d] = outcome)
<1> USE DEF TxnInv
<1>1. told' \in [TxnCalls -> Outcomes]
  BY DEF Tells, TxnTypeOK, Outcomes
<1>2. \A d \in TxnCalls:
        told'[d] = told[d] \/ (d = c /\ told[d] = "out" /\ told'[d] = outcome)
  BY DEF Tells, TxnTypeOK
<1>3. \A d \in TxnCalls: Sent(d)' <=> Sent(d)
  BY <1>2 DEF Sent
<1>4. \A d \in TxnCalls: told'[d] \in {"finished", "already"} => told'[d] = told[d]
  BY <1>2
<1>5. HandleInv'
  BY <1>3, <1>4 DEF HandleInv
<1> QED BY <1>1, <1>2, <1>5

\* The request at the head is of a call, and those behind it are requests.
LEMMA HeadTyped ==
  ASSUME TxnTypeOK, sends # <<>>
  PROVE  /\ Head(sends) \in [call: TxnCalls, again: BOOLEAN]
         /\ Head(sends).call \in TxnCalls
         /\ Tail(sends) \in Seq([call: TxnCalls, again: BOOLEAN])
<1>1. sends \in Seq([call: TxnCalls, again: BOOLEAN])
  BY DEF TxnTypeOK
<1>2. /\ Head(sends) \in [call: TxnCalls, again: BOOLEAN]
      /\ Tail(sends) \in Seq([call: TxnCalls, again: BOOLEAN])
  BY <1>1, HeadTailProperties
<1> QED BY <1>2

\* The server does what it tells, while the transaction is open.
LEMMA ServerReadsHolds ==
  ASSUME TxnInv, TxnServerReads
  PROVE  TxnInv'
<1> USE DEF TxnInv
<1> DEFINE c == Head(sends).call
<1>1. /\ sends # <<>> /\ sends' = Tail(sends) /\ UNCHANGED <<done, op>>
      /\ c \in TxnCalls
      /\ sends' \in Seq([call: TxnCalls, again: BOOLEAN])
  BY HeadTyped DEF TxnServerReads
<1>2. CASE server # "open"
  <2>1. Tells(c, "failed") /\ UNCHANGED <<server, buffered, applied>>
    BY <1>2 DEF TxnServerReads
  <2>2. /\ HandleInv' /\ told' \in [TxnCalls -> Outcomes]
        /\ \A d \in TxnCalls: told'[d] = "ok" => told[d] = "ok"
    <3> HIDE DEF c
    <3> QED BY <1>1, <2>1, TellsKeepsHandle
  <2>3. TxnTypeOK'
    BY <1>1, <2>1, <2>2 DEF TxnTypeOK
  <2>4. ServerInv'
    BY <1>1, <2>1, <2>2 DEF ServerInv
  <2> QED BY <2>2, <2>3, <2>4
<1>3. CASE server = "open"
  <2>1. /\ Tells(c, "ok")
        /\ buffered' = IF op[c] = "write" THEN buffered \cup {c} ELSE buffered
        /\ applied' = IF op[c] = "commit" THEN buffered ELSE applied
        /\ server' = IF op[c] = "commit" THEN "committed"
                     ELSE IF op[c] = "rollback" THEN "rolledBack" ELSE server
    BY <1>3 DEF TxnServerReads
  <2> HIDE DEF c
  <2>2. /\ HandleInv' /\ told' \in [TxnCalls -> Outcomes]
        /\ \A d \in TxnCalls: told'[d] = told[d] \/ (d = c /\ told'[d] = "ok")
    BY <1>1, <2>1, TellsKeepsHandle
  <2>3. \A d \in TxnCalls: told[d] = "ok" => op[d] # "commit" /\ op[d] # "rollback"
    BY <1>3 DEF ServerInv
  <2>4. server' \in {"open", "committed", "rolledBack"}
    BY <1>3, <2>1
  <2>5. TxnTypeOK'
    BY <1>1, <2>1, <2>2, <2>4 DEF TxnTypeOK
  <2>6. applied = {}
    BY <1>3 DEF ServerInv
  <2>7. ServerInv'
    <3>1. CASE op[c] = "write"
      BY <1>1, <1>3, <2>1, <2>2, <2>3, <2>6, <3>1 DEF ServerInv
    <3>2. CASE op[c] = "commit"
      BY <1>1, <1>3, <2>1, <2>2, <2>3, <2>6, <3>2 DEF ServerInv
    <3>3. CASE op[c] = "rollback"
      BY <1>1, <1>3, <2>1, <2>2, <2>3, <2>6, <3>3 DEF ServerInv
    <3>4. CASE op[c] \notin {"write", "commit", "rollback"}
      BY <1>1, <1>3, <2>1, <2>2, <2>3, <2>6, <3>4 DEF ServerInv
    <3> QED BY <3>1, <3>2, <3>3, <3>4
  <2> QED BY <2>2, <2>5, <2>7
<1> QED BY <1>2, <1>3

\* A request refused as not run did nothing: it fails or is sent again.
LEMMA RefusedHolds ==
  ASSUME TxnInv, TxnRefused
  PROVE  TxnInv'
<1> USE DEF TxnInv
<1> DEFINE c == Head(sends).call
<1>1. /\ sends # <<>> /\ UNCHANGED <<done, op, server, buffered, applied>>
      /\ c \in TxnCalls
      /\ Tail(sends) \in Seq([call: TxnCalls, again: BOOLEAN])
  BY HeadTyped DEF TxnRefused
<1>2. CASE Tells(c, "failed") /\ sends' = Tail(sends)
  <2> HIDE DEF c
  <2>1. /\ HandleInv' /\ told' \in [TxnCalls -> Outcomes]
        /\ \A d \in TxnCalls: told'[d] = "ok" => told[d] = "ok"
    BY <1>1, <1>2, TellsKeepsHandle
  <2>2. TxnTypeOK'
    BY <1>1, <1>2, <2>1 DEF TxnTypeOK
  <2>3. ServerInv'
    BY <1>1, <2>1 DEF ServerInv
  <2> QED BY <2>1, <2>2, <2>3
<1>3. CASE sends' = Append(Tail(sends), [call |-> c, again |-> TRUE]) /\ UNCHANGED told
  <2> HIDE DEF c
  <2>1. sends' \in Seq([call: TxnCalls, again: BOOLEAN])
    BY <1>1, <1>3
  <2>2. TxnTypeOK'
    BY <1>1, <1>3, <2>1 DEF TxnTypeOK
  <2>3. HandleInv' /\ ServerInv'
    BY <1>1, <1>3 DEF HandleInv, ServerInv, Sent
  <2> QED BY <2>2, <2>3
<1> QED BY <1>2, <1>3 DEF TxnRefused

\* A caller that gives up leaves the request where it is.
LEMMA TimeoutHolds ==
  ASSUME TxnInv, NEW c \in TxnCalls, TxnTimeout(c)
  PROVE  TxnInv'
<1> USE DEF TxnInv
<1>1. Tells(c, "failed") /\ UNCHANGED <<done, op, sends, server, buffered, applied>>
  BY DEF TxnTimeout
<1>2. /\ HandleInv' /\ told' \in [TxnCalls -> Outcomes]
      /\ \A d \in TxnCalls: told'[d] = "ok" => told[d] = "ok"
  BY <1>1, TellsKeepsHandle
<1>3. TxnTypeOK'
  BY <1>1, <1>2 DEF TxnTypeOK
<1>4. ServerInv'
  BY <1>1, <1>2 DEF ServerInv
<1> QED BY <1>2, <1>3, <1>4

\* Every step keeps the invariant.
LEMMA TxnNextHolds ==
  ASSUME TxnInv, [TxnNext]_txnVars
  PROVE  TxnInv'
<1>1. ASSUME NEW c \in TxnCalls, Write(c) PROVE TxnInv'
  BY <1>1, WriteHolds
<1>2. ASSUME NEW c \in TxnCalls, Commit(c) \/ Rollback(c) PROVE TxnInv'
  BY <1>2, EndingHolds
<1>3. ASSUME NEW c \in TxnCalls, TxnTimeout(c) PROVE TxnInv'
  BY <1>3, TimeoutHolds
<1>4. CASE TxnServerReads
  BY <1>4, ServerReadsHolds
<1>5. CASE TxnRefused
  BY <1>5, RefusedHolds
<1>6. CASE UNCHANGED txnVars
  BY <1>6 DEF txnVars, TxnInv, TxnTypeOK, HandleInv, ServerInv, Sent
<1> QED BY <1>1, <1>2, <1>3, <1>4, <1>5, <1>6 DEF TxnNext

\* The handle and the server agree on how the transaction stands, for any
\* set of calls (kv_txn.ts: put, get, delete, commit, rollback, checkAlive).
THEOREM TxnInvariance == TxnSpec => []TxnInv
<1> QED BY TxnInitHolds, TxnNextHolds, PTL DEF TxnSpec

\* Each variable of a transaction keeps to its type.
THEOREM TxnTypes == TxnSpec => []TxnTypeOK
<1>1. TxnInv => TxnTypeOK
  BY DEF TxnInv
<1> QED BY <1>1, TxnInvariance, PTL

\* Whatever calls overlap, are resent or given up, one request at most ends
\* the transaction, and a commit or a rollback that is told to have worked
\* did to the writes what its name says (kv_txn.ts: commit, rollback).
THEOREM TransactionEndsOnce == TxnSpec => []EndsOnce
<1>1. TxnInv => EndsOnce
  BY TxnInvImpliesEndsOnce
<1> QED BY <1>1, TxnInvariance, PTL

----------------------------------------------------------------------------
(***************************************************************************)
(* Sync for any processes, workflows and directories: what a process is    *)
(* told of its workflow was so while its call was out.  What the server held *)
(* since a sync was called contains what it holds now, so that what the sync *)
(* read is in it whatever others wrote meanwhile.                          *)
(***************************************************************************)

\* What sync reads of a file, and of what is stored: a definition, or none.
Records == Definitions \cup {<<>>}

SyncTypeOK ==
  /\ files \in [Processes -> Seq(Files)]
  /\ sync \in [Processes -> {"none", "getDefinition", "create", "update"}]
  /\ synced \in [Processes ->
       [action: {"none", "thrown", "unchanged", "created", "updated"}, yaml: Files]]
  /\ stored \in [Workflows -> Records]
  /\ boots \in 0..MaxBoots
  /\ held \in [Processes -> SUBSET Records]

\* While the sync of a file is out, the file is a definition; what is stored
\* under its name is among what was held; a create follows a moment with
\* nothing there, an update one with another version there.
OutInv ==
  \A p \in Processes: sync[p] # "none" =>
    /\ files[p] # <<>> /\ Yaml(p) \in Definitions
    /\ stored[Named(p)] \in held[p]
    /\ sync[p] = "create" => <<>> \in held[p]
    /\ sync[p] = "update" =>
         \E yaml \in held[p]: yaml # <<>> /\ VersionOf(yaml) # VersionOf(Yaml(p))

SyncInv == SyncTypeOK /\ OutInv /\ SyncedWhileCalled

\* A definition names one workflow and one version, and they are what is read
\* of it; of the other files sync reads no version.
LEMMA FieldsOfNone ==
  /\ extractYAMLField(<<>>, "name") = <<>>
  /\ extractYAMLField(<<>>, "version") = <<>>
BY DEF extractYAMLField, FirstOf

LEMMA FieldsOfName ==
  ASSUME NEW n
  PROVE  extractYAMLField(<<Line("name", n, FALSE)>>, "version") = <<>>
BY DEF extractYAMLField, FirstOf, Line

LEMMA FieldsOfDefinition ==
  ASSUME NEW n, NEW v, NEW yaml, yaml = Definition(n, v)
  PROVE  /\ extractYAMLField(yaml, "name") = <<n>>
         /\ extractYAMLField(yaml, "version") = <<v>>
         /\ VersionOf(yaml) = <<v>>
<1>1. /\ {i \in DOMAIN yaml: yaml[i].field = "name"} = {1}
      /\ {i \in DOMAIN yaml: yaml[i].field = "version"} = {2}
      /\ {i \in DOMAIN yaml: yaml[i].field = "version" /\ ~yaml[i].nested} = {2}
  BY DEF Definition, Line
<1>2. Min({1}) = 1 /\ Min({2}) = 2
  BY DEF Min
<1>3. extractYAMLField(yaml, "name") = <<yaml[1].value>>
  BY <1>1, <1>2 DEF extractYAMLField, FirstOf
<1>4. extractYAMLField(yaml, "version") = <<yaml[2].value>>
  BY <1>1, <1>2 DEF extractYAMLField, FirstOf
<1>5. VersionOf(yaml) = <<yaml[2].value>>
  BY <1>1, <1>2 DEF VersionOf, FirstOf
<1> QED BY <1>3, <1>4, <1>5 DEF Definition, Line

LEMMA DefinitionFacts ==
  ASSUME ~NestedFields, NEW yaml \in Definitions
  PROVE  /\ yaml # <<>> /\ ~MetaMissing(yaml)
         /\ extractYAMLField(yaml, "name")[1] \in Workflows
         /\ extractYAMLField(yaml, "version") = VersionOf(yaml)
         /\ VersionOf(yaml) # <<>>
<1>1. PICK n \in Workflows: \E v \in Versions: yaml = Definition(n, v)
  BY DEF Definitions
<1>v. PICK v \in Versions: yaml = Definition(n, v)
  BY <1>1
<1>2. /\ extractYAMLField(yaml, "name") = <<n>>
      /\ extractYAMLField(yaml, "version") = <<v>>
      /\ VersionOf(yaml) = <<v>>
  BY <1>v, FieldsOfDefinition
<1>3. yaml # <<>>
  BY <1>v DEF Definition
<1> QED BY <1>2, <1>3 DEF MetaMissing

LEMMA FilesComplete ==
  ASSUME NEW yaml \in Files, ~MetaMissing(yaml)
  PROVE  yaml \in Definitions
<1>1. yaml # <<>>
  BY FieldsOfNone DEF MetaMissing
<1>2. ASSUME NEW n \in Workflows, yaml = <<Line("name", n, FALSE)>>
      PROVE  FALSE
  BY <1>2, FieldsOfName DEF MetaMissing
<1> QED BY <1>1, <1>2 DEF Files

----------------------------------------------------------------------------

LEMMA SyncInitHolds ==
  ASSUME SyncInit
  PROVE  SyncInv
<1>1. SyncTypeOK
  BY SyncAssumption DEF SyncInit, SyncTypeOK, NoSync, Files, Records
<1>2. OutInv
  BY DEF SyncInit, OutInv
<1>3. SyncedWhileCalled
  BY DEF SyncInit, SyncedWhileCalled, NoSync
<1> QED BY <1>1, <1>2, <1>3 DEF SyncInv

\* Where a sync is out or may be called, its file is one of the files.
LEMMA InHand ==
  ASSUME SyncTypeOK, NEW p \in Processes, files[p] # <<>>
  PROVE  Yaml(p) \in Files /\ Tail(files[p]) \in Seq(Files)
<1>1. files[p] \in Seq(Files)
  BY DEF SyncTypeOK
<1> QED BY <1>1, HeadTailProperties DEF Yaml

LEMMA BootHolds ==
  ASSUME SyncInv, NEW p \in Processes, Boot(p)
  PROVE  SyncInv'
<1> USE DEF SyncInv
<1>1. PICK n \in 1..MaxFiles: \E dir \in [1..n -> Files]: files' = [files EXCEPT ![p] = dir]
  BY DEF Boot
<1>2. PICK dir \in [1..n -> Files]: files' = [files EXCEPT ![p] = dir]
  BY <1>1
<1>3. n \in Nat /\ dir \in Seq(Files)
  BY SyncAssumption, IsASeq
<1>4. SyncTypeOK'
  <2>1. files' \in [Processes -> Seq(Files)]
    BY <1>2, <1>3 DEF SyncTypeOK
  <2>2. boots' \in 0..MaxBoots
    BY SyncAssumption DEF Boot, SyncTypeOK
  <2>3. NoSync \in [action: {"none", "thrown", "unchanged", "created", "updated"}, yaml: Files]
    BY DEF NoSync, Files
  <2> QED BY <2>1, <2>2, <2>3 DEF Boot, SyncTypeOK
<1>5. sync[p] = "none"
  BY DEF Boot, OutInv
<1>6. OutInv'
  BY <1>2, <1>5 DEF Boot, OutInv, Yaml, Named, SyncTypeOK
<1>7. SyncedWhileCalled'
  BY DEF Boot, SyncedWhileCalled, NoSync, SyncTypeOK
<1> QED BY <1>4, <1>6, <1>7

\* What the end of a sync leaves: the other processes as they were.
LEMMA EndsTypes ==
  ASSUME SyncTypeOK, NEW p \in Processes, files[p] # <<>>,
         NEW action \in {"thrown", "unchanged", "created", "updated"}, Ends(p, action)
  PROVE  /\ files' \in [Processes -> Seq(Files)]
         /\ sync' \in [Processes -> {"none", "getDefinition", "create", "update"}]
         /\ synced' \in [Processes ->
              [action: {"none", "thrown", "unchanged", "created", "updated"}, yaml: Files]]
<1>1. Yaml(p) \in Files /\ Tail(files[p]) \in Seq(Files)
  BY InHand
<1>2. <<>> \in Seq(Files)
  BY EmptySeq
<1> QED BY <1>1, <1>2 DEF Ends, SyncTypeOK

LEMMA EndsOthers ==
  ASSUME SyncTypeOK, NEW p \in Processes, NEW action, Ends(p, action)
  PROVE  /\ sync'[p] = "none"
         /\ synced'[p].action = action /\ synced'[p].yaml = Yaml(p)
         /\ \A q \in Processes \ {p}:
              files'[q] = files[q] /\ sync'[q] = sync[q] /\ synced'[q] = synced[q]
BY DEF Ends, SyncTypeOK

\* What a process is told is kept true: of the one whose sync ends it is shown
\* where it ends, and of the others, as what was held only grows.
LEMMA EndsTold ==
  ASSUME SyncInv, NEW p \in Processes, NEW action, Ends(p, action),
         \A q \in Processes: held[q] \subseteq held'[q],
         action = "unchanged" => \E yaml \in held'[p]: VersionOf(yaml) = VersionOf(Yaml(p)),
         action \in {"created", "updated"} => Yaml(p) \in held'[p],
         action = "created" => <<>> \in held'[p],
         action = "updated" => \E yaml \in held'[p]:
           VersionOf(yaml) \notin {<<>>, VersionOf(Yaml(p))}
  PROVE  SyncedWhileCalled'
<1> SUFFICES ASSUME NEW q \in Processes, synced'[q].action \in {"unchanged", "created", "updated"}
             PROVE  LET versions == {VersionOf(yaml): yaml \in held'[q]} IN
                    /\ VersionOf(synced'[q].yaml) \in versions
                    /\ synced'[q].action = "created" => <<>> \in held'[q]
                    /\ synced'[q].action = "updated" =>
                         versions \ {<<>>, VersionOf(synced'[q].yaml)} # {}
  BY DEF SyncedWhileCalled
<1>1. CASE q = p
  BY <1>1, EndsOthers DEF SyncInv
<1>2. CASE q # p
  <2>1. synced'[q] = synced[q]
    BY <1>2, EndsOthers DEF SyncInv
  <2>2. held[q] \subseteq held'[q]
    OBVIOUS
  <2> QED BY <2>1, <2>2 DEF SyncInv, SyncedWhileCalled
<1> QED BY <1>1, <1>2

\* So is what is known of the syncs that are out.
LEMMA EndsOut ==
  ASSUME SyncInv, NEW p \in Processes, NEW action, Ends(p, action),
         \A q \in Processes: held[q] \subseteq held'[q],
         \A q \in Processes: sync'[q] # "none" => stored'[Named(q)] \in held'[q]
  PROVE  OutInv'
<1> SUFFICES ASSUME NEW q \in Processes, sync'[q] # "none"
             PROVE  /\ files'[q] # <<>> /\ Yaml(q)' \in Definitions
                    /\ stored'[Named(q)'] \in held'[q]
                    /\ sync'[q] = "create" => <<>> \in held'[q]
                    /\ sync'[q] = "update" =>
                         \E yaml \in held'[q]: yaml # <<>> /\ VersionOf(yaml) # VersionOf(Yaml(q)')
  BY DEF OutInv
<1>1. q # p /\ files'[q] = files[q] /\ sync'[q] = sync[q]
  BY EndsOthers DEF SyncInv
<1>2. Yaml(q)' = Yaml(q) /\ Named(q)' = Named(q)
  BY <1>1 DEF Yaml, Named
<1>3. held[q] \subseteq held'[q]
  OBVIOUS
<1> QED BY <1>1, <1>2, <1>3 DEF SyncInv, OutInv

LEMMA CalledHolds ==
  ASSUME ~NestedFields, SyncInv, NEW p \in Processes, SyncCalled(p)
  PROVE  SyncInv'
<1> USE DEF SyncInv
<1>f. files[p] # <<>> /\ sync[p] = "none" /\ Yaml(p) \in Files
  BY InHand DEF SyncCalled
<1>1. CASE MetaMissing(Yaml(p))
  <2>1. Ends(p, "thrown") /\ held' = held /\ stored' = stored /\ boots' = boots
    BY <1>1 DEF SyncCalled
  <2>2. SyncTypeOK'
    BY <1>f, <2>1, EndsTypes DEF SyncTypeOK
  <2>3. SyncedWhileCalled'
    BY <2>1, EndsTold
  <2>4. \A q \in Processes: sync'[q] # "none" => stored'[Named(q)] \in held'[q]
    BY <2>1, EndsOthers DEF OutInv
  <2>5. OutInv'
    BY <2>1, <2>4, EndsOut
  <2> QED BY <2>2, <2>3, <2>5
<1>2. CASE ~MetaMissing(Yaml(p))
  <2>1. /\ sync' = [sync EXCEPT ![p] = "getDefinition"]
        /\ held' = [held EXCEPT ![p] = {stored[Named(p)]}]
        /\ synced' = [synced EXCEPT ![p] = NoSync]
        /\ files' = files /\ stored' = stored /\ boots' = boots
    BY <1>2 DEF SyncCalled
  <2>2. Yaml(p) \in Definitions /\ Named(p) \in Workflows
    BY <1>f, <1>2, FilesComplete, DefinitionFacts DEF Named
  <2>3. NoSync \in [action: {"none", "thrown", "unchanged", "created", "updated"}, yaml: Files]
    BY DEF NoSync, Files
  <2>4. SyncTypeOK'
    BY <2>1, <2>2, <2>3 DEF SyncTypeOK
  <2>5. OutInv'
    BY <1>f, <2>1, <2>2 DEF OutInv, SyncTypeOK, Yaml, Named
  <2>6. SyncedWhileCalled'
    BY <2>1 DEF SyncedWhileCalled, NoSync, SyncTypeOK
  <2> QED BY <2>4, <2>5, <2>6
<1> QED BY <1>1, <1>2

LEMMA ReadHolds ==
  ASSUME ~NestedFields, SyncInv, NEW p \in Processes, DefinitionRead(p)
  PROVE  SyncInv'
<1> USE DEF SyncInv
<1> DEFINE existing == stored[Named(p)]
<1>f. /\ sync[p] = "getDefinition" /\ files[p] # <<>> /\ Yaml(p) \in Definitions
      /\ existing \in held[p] /\ Named(p) \in Workflows
  BY DefinitionFacts DEF DefinitionRead, OutInv, Named
<1>g. existing \in Records /\ stored' = stored /\ boots' = boots /\ held' = held
  BY <1>f DEF DefinitionRead, SyncTypeOK
<1>1. CASE SameVersion(existing, Yaml(p))
  <2>1. Ends(p, "unchanged")
    BY <1>1 DEF DefinitionRead
  <2>2. VersionOf(existing) = VersionOf(Yaml(p))
    BY <1>1, <1>f, <1>g, DefinitionFacts DEF SameVersion, Records
  <2>3. SyncTypeOK'
    BY <1>f, <1>g, <2>1, EndsTypes DEF SyncTypeOK
  <2>4. SyncedWhileCalled'
    BY <1>f, <1>g, <2>1, <2>2, EndsTold
  <2>5. \A q \in Processes: sync'[q] # "none" => stored'[Named(q)] \in held'[q]
    BY <1>g, <2>1, EndsOthers DEF OutInv
  <2>6. OutInv'
    BY <1>g, <2>1, <2>5, EndsOut
  <2> QED BY <2>3, <2>4, <2>6
<1>2. CASE ~SameVersion(existing, Yaml(p))
  <2>1. /\ sync' = [sync EXCEPT ![p] = IF existing = <<>> THEN "create" ELSE "update"]
        /\ files' = files /\ synced' = synced
    BY <1>2 DEF DefinitionRead
  <2>2. existing # <<>> => VersionOf(existing) # VersionOf(Yaml(p))
    BY <1>2, <1>f, <1>g, DefinitionFacts DEF SameVersion, Records
  <2>3. SyncTypeOK'
    BY <1>g, <2>1 DEF SyncTypeOK
  <2>4. OutInv'
    <3> SUFFICES ASSUME NEW q \in Processes, sync'[q] # "none"
                 PROVE  /\ files[q] # <<>> /\ Yaml(q) \in Definitions
                        /\ stored[Named(q)] \in held[q]
                        /\ sync'[q] = "create" => <<>> \in held[q]
                        /\ sync'[q] = "update" =>
                             \E yaml \in held[q]: yaml # <<>> /\ VersionOf(yaml) # VersionOf(Yaml(q))
      BY <1>g, <2>1 DEF OutInv, Yaml, Named
    <3>1. CASE q = p
      BY <3>1, <1>f, <2>1, <2>2 DEF SyncTypeOK
    <3>2. CASE q # p
      <4>1. sync'[q] = sync[q]
        BY <3>2, <2>1 DEF SyncTypeOK
      <4> QED BY <4>1 DEF OutInv
    <3> QED BY <3>1, <3>2
  <2>5. SyncedWhileCalled'
    BY <1>g, <2>1 DEF SyncedWhileCalled
  <2> QED BY <2>3, <2>4, <2>5
<1> QED BY <1>1, <1>2

\* A write changes what is stored under one name, and what is held of it.
LEMMA WriteKeeps ==
  ASSUME SyncInv, NEW n \in Workflows, NEW yaml \in Definitions, Stored(n, yaml)
  PROVE  /\ stored' \in [Workflows -> Records] /\ held' \in [Processes -> SUBSET Records]
         /\ \A q \in Processes: held[q] \subseteq held'[q]
         /\ \A q \in Processes: sync[q] # "none" => stored'[Named(q)] \in held'[q]
         /\ \A q \in Processes: sync[q] # "none" /\ Named(q) = n => yaml \in held'[q]
<1> USE DEF SyncInv
<1>1. yaml \in Records
  BY DEF Records
<1>2. stored' \in [Workflows -> Records] /\ held' \in [Processes -> SUBSET Records]
  BY <1>1 DEF Stored, SyncTypeOK
<1>3. \A q \in Processes: held[q] \subseteq held'[q]
  BY DEF Stored, SyncTypeOK
<1>4. ASSUME NEW q \in Processes, sync[q] # "none"
      PROVE  stored'[Named(q)] \in held'[q] /\ (Named(q) = n => yaml \in held'[q])
  <2>1. CASE Named(q) = n
    BY <1>4, <2>1 DEF Stored, SyncTypeOK
  <2>2. CASE Named(q) # n
    <3>1. stored'[Named(q)] = stored[Named(q)] /\ held'[q] = held[q]
      BY <1>4, <2>2 DEF Stored, SyncTypeOK
    <3> QED BY <1>4, <2>2, <3>1 DEF OutInv
  <2> QED BY <2>1, <2>2
<1> QED BY <1>2, <1>3, <1>4

LEMMA CreatedHolds ==
  ASSUME ~NestedFields, SyncInv, NEW p \in Processes, Created(p)
  PROVE  SyncInv'
<1> USE DEF SyncInv
<1> DEFINE action == IF sync[p] = "create" THEN "created" ELSE "updated"
<1>1. /\ sync[p] \in {"create", "update"} /\ files[p] # <<>> /\ Yaml(p) \in Definitions
      /\ Named(p) \in Workflows
      /\ sync[p] = "create" => <<>> \in held[p]
      /\ sync[p] = "update" =>
           \E yaml \in held[p]: yaml # <<>> /\ VersionOf(yaml) # VersionOf(Yaml(p))
  BY DefinitionFacts DEF Created, OutInv, Named
<1>2. Stored(Named(p), Yaml(p)) /\ Ends(p, action) /\ boots' = boots
  BY DEF Created
<1>3. /\ stored' \in [Workflows -> Records] /\ held' \in [Processes -> SUBSET Records]
      /\ \A q \in Processes: held[q] \subseteq held'[q]
      /\ \A q \in Processes: sync[q] # "none" => stored'[Named(q)] \in held'[q]
      /\ Yaml(p) \in held'[p]
  BY <1>1, <1>2, WriteKeeps
<1>4. SyncTypeOK'
  BY <1>1, <1>2, <1>3, EndsTypes DEF SyncTypeOK
<1>5. \A q \in Processes: sync'[q] # "none" => stored'[Named(q)] \in held'[q]
  BY <1>2, <1>3, EndsOthers
<1>6. OutInv'
  BY <1>2, <1>3, <1>5, EndsOut
<1>7. action = "updated" =>
        \E yaml \in held'[p]: VersionOf(yaml) \notin {<<>>, VersionOf(Yaml(p))}
  <2> SUFFICES ASSUME sync[p] = "update"
               PROVE  \E yaml \in held'[p]: VersionOf(yaml) \notin {<<>>, VersionOf(Yaml(p))}
    BY <1>1
  <2>1. PICK yaml \in held[p]: yaml # <<>> /\ VersionOf(yaml) # VersionOf(Yaml(p))
    BY <1>1
  <2>2. yaml \in Definitions
    BY <2>1 DEF SyncTypeOK, Records
  <2> QED BY <1>3, <2>1, <2>2, DefinitionFacts
<1>8. SyncedWhileCalled'
  BY <1>1, <1>2, <1>3, <1>7, EndsTold
<1> QED BY <1>4, <1>6, <1>8

LEMMA FailsHolds ==
  ASSUME ~NestedFields, SyncInv, NEW p \in Processes, SyncFails(p)
  PROVE  SyncInv'
<1> USE DEF SyncInv
<1>1. /\ files[p] # <<>> /\ Yaml(p) \in Definitions /\ Named(p) \in Workflows
  BY DefinitionFacts DEF SyncFails, OutInv, Named
<1>2. Ends(p, "thrown") /\ boots' = boots
  BY DEF SyncFails
<1>3. /\ stored' \in [Workflows -> Records] /\ held' \in [Processes -> SUBSET Records]
      /\ \A q \in Processes: held[q] \subseteq held'[q]
      /\ \A q \in Processes: sync[q] # "none" => stored'[Named(q)] \in held'[q]
  <2>1. CASE UNCHANGED <<stored, held>>
    BY <2>1 DEF SyncTypeOK, OutInv
  <2>2. CASE Stored(Named(p), Yaml(p))
    BY <1>1, <2>2, WriteKeeps
  <2> QED BY <2>1, <2>2 DEF SyncFails
<1>4. SyncTypeOK'
  BY <1>1, <1>2, <1>3, EndsTypes DEF SyncTypeOK
<1>5. \A q \in Processes: sync'[q] # "none" => stored'[Named(q)] \in held'[q]
  BY <1>2, <1>3, EndsOthers
<1>6. OutInv'
  BY <1>2, <1>3, <1>5, EndsOut
<1>7. SyncedWhileCalled'
  BY <1>2, <1>3, EndsTold
<1> QED BY <1>4, <1>6, <1>7

LEMMA SyncNextHolds ==
  ASSUME ~NestedFields
  PROVE  SyncInv /\ [SyncNext]_syncVars => SyncInv'
<1> SUFFICES ASSUME SyncInv, [SyncNext]_syncVars PROVE SyncInv'
  OBVIOUS
<1>1. CASE SyncNext
  <2>1. PICK p \in Processes:
          Boot(p) \/ SyncCalled(p) \/ DefinitionRead(p) \/ Created(p) \/ SyncFails(p)
    BY <1>1 DEF SyncNext
  <2> QED BY <2>1, BootHolds, CalledHolds, ReadHolds, CreatedHolds, FailsHolds
<1>2. CASE UNCHANGED syncVars
  BY <1>2 DEF syncVars, SyncInv, SyncTypeOK, OutInv, SyncedWhileCalled, Yaml, Named
<1> QED BY <1>1, <1>2

\* The invariant of sync (WorkflowOperations.sync, syncDir) holds of every
\* reachable state, for definitions that name one version.
THEOREM SyncInvariance ==
  ASSUME ~NestedFields
  PROVE  SyncSpec => []SyncInv
BY SyncInitHolds, SyncNextHolds, PTL DEF SyncSpec

\* A process is told of its workflow what was so while its call was out,
\* whatever other processes wrote meanwhile and whatever was lost
\* (WorkflowOperations.sync), for definitions that name one version.
THEOREM SyncTellsWhatWas ==
  ASSUME ~NestedFields
  PROVE  SyncSpec => []SyncedWhileCalled
<1>1. SyncInv => SyncedWhileCalled
  BY DEF SyncInv
<1> QED BY <1>1, SyncInvariance, PTL

=============================================================================
