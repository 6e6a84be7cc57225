------------------------------- MODULE Client -------------------------------
(***************************************************************************)
(* packages/node/src/client.ts, sendRequest and sendOnce, with the retry   *)
(* policy of packages/core/src/retry.ts: a request the server refuses      *)
(* without running it is sent again, under a new id, up to maxAttempts     *)
(* times. Everything else ends the call.                                   *)
(*                                                                         *)
(* The connection (Transport) may lose a request or its answer; the call   *)
(* then throws, while the request may still be on its way. The server is   *)
(* external: it runs a request at most once and tells the truth about it.  *)
(***************************************************************************)
EXTENDS Integers

CONSTANTS
  Calls,        \* sendRequest calls
  Configured    \* the values of retry.maxAttempts a client may be made with

\* A number of tries is given in tenths, for its fraction; anything else given
\* is no finite number.
Unset == [kind |-> "unset", tenths |-> 0]
NotFinite == [kind |-> "notFinite", tenths |-> 0]
Tenths(n) == [kind |-> "number", tenths |-> n]

ASSUME AttemptsAssumption ==
  Configured \subseteq [kind : {"unset", "notFinite", "number"}, tenths : Int]

VARIABLES
  configured,   \* retry.maxAttempts as the client was made with it
  phase,     \* of each call: idle, sent, waiting (for its next try), done
  attempt,   \* tries so far
  result,    \* the answer the call returned, or Thrown, or NoResult
  transit,   \* requests on their way to the server: <<call, attempt>>
  answers,   \* answers on their way back
  runs       \* how often the server ran each call

vars == <<configured, phase, attempt, result, transit, answers, runs>>

\* An answer is its status, and for a refusal what its body says of whether
\* it ran ("unsaid" if the body is short or holds unknown codes) and whether
\* the reason is a halted shard.
OK == [status |-> "ok", ran |-> "yes", halted |-> FALSE]
Refusals == [status : {"overloaded", "unavailable", "other"},
             ran : {"no", "yes", "unknown", "unsaid"},
             halted : BOOLEAN]
Answers == {OK} \cup Refusals

NoResult == [status |-> "none"]
Thrown == [status |-> "thrown"]

Request(c, n) == [call |-> c, attempt |-> n]
Requests == [call : Calls, attempt : Nat]

TypeOK ==
  /\ configured \in Configured
  /\ phase \in [Calls -> {"idle", "sent", "waiting", "done"}]
  /\ attempt \in [Calls -> Nat]
  /\ result \in [Calls -> Answers \cup {NoResult, Thrown}]
  /\ transit \subseteq Requests
  /\ answers \subseteq [request : Requests, answer : Answers]
  /\ runs \in [Calls -> Nat]

Init ==
  /\ configured \in Configured
  /\ phase = [c \in Calls |-> "idle"]
  /\ attempt = [c \in Calls |-> 0]
  /\ result = [c \in Calls |-> NoResult]
  /\ transit = {}
  /\ answers = {}
  /\ runs = [c \in Calls |-> 0]

\* normalizeRetryPolicy: the default where no finite number is given, or the
\* number without its fraction.
DefaultAttempts == 4
GivenOrDefault == IF configured.kind = "number" THEN configured.tenths ELSE 10 * DefaultAttempts

\* Mutant: a fraction counts as a try.
MaxAttemptsUnfloored == (GivenOrDefault + 9) \div 10

MaxAttempts == GivenOrDefault \div 10

\* Mutant: a refusal that does not say it ran counts as not run.
RefusedUnrunOrUnsaid(a) ==
  /\ a.status \in {"overloaded", "unavailable"}
  /\ a.ran \in {"no", "unknown", "unsaid"}
  /\ ~a.halted

\* refusedUnrun(resp), isRefusedUnrun(err): refused as overloaded or
\* unavailable, said not to have run, and not for a halted shard.
RefusedUnrun(a) ==
  /\ a.status \in {"overloaded", "unavailable"}
  /\ a.ran = "no"
  /\ ~a.halted

----------------------------------------------------------------------------
(* The client *)

\* sendOnce, the first time or after a wait: a new request id each time.
Send(c) ==
  /\ phase[c] \in {"idle", "waiting"}
  /\ phase' = [phase EXCEPT ![c] = "sent"]
  /\ attempt' = [attempt EXCEPT ![c] = @ + 1]
  /\ transit' = transit \cup {Request(c, attempt[c] + 1)}
  /\ UNCHANGED <<configured, result, answers, runs>>

\* There is no connection: the request is never written.
SendRefused(c) ==
  /\ phase[c] \in {"idle", "waiting"}
  /\ phase' = [phase EXCEPT ![c] = "done"]
  /\ attempt' = [attempt EXCEPT ![c] = @ + 1]
  /\ result' = [result EXCEPT ![c] = Thrown]
  /\ UNCHANGED <<configured, transit, answers, runs>>

Reply(c, a) == [request |-> Request(c, attempt[c]), answer |-> a]

\* Mutant: an answer that comes after the try was given up on ends the call
\* once more.
ReceiveLate(c, a) ==
  /\ phase[c] \in {"sent", "done"}
  /\ Reply(c, a) \in answers
  /\ answers' = answers \ {Reply(c, a)}
  /\ \/ /\ phase[c] = "sent" /\ attempt[c] < MaxAttempts /\ RefusedUnrun(a)
        /\ phase' = [phase EXCEPT ![c] = "waiting"]
        /\ UNCHANGED result
     \/ /\ phase[c] = "done" \/ attempt[c] >= MaxAttempts \/ ~RefusedUnrun(a)
        /\ phase' = [phase EXCEPT ![c] = "done"]
        /\ result' = [result EXCEPT ![c] = a]
  /\ UNCHANGED <<configured, attempt, transit, runs>>

\* The answer to the current try: wait and try again, or return it.
Receive(c, a) ==
  /\ phase[c] = "sent"
  /\ Reply(c, a) \in answers
  /\ answers' = answers \ {Reply(c, a)}
  /\ \/ /\ attempt[c] < MaxAttempts /\ RefusedUnrun(a)
        /\ phase' = [phase EXCEPT ![c] = "waiting"]
        /\ UNCHANGED result
     \/ /\ attempt[c] >= MaxAttempts \/ ~RefusedUnrun(a)
        /\ phase' = [phase EXCEPT ![c] = "done"]
        /\ result' = [result EXCEPT ![c] = a]
  /\ UNCHANGED <<configured, attempt, transit, runs>>

\* Mutant: a lost try is sent again.
LoseAndRetry(c) ==
  /\ phase[c] = "sent"
  /\ phase' = [phase EXCEPT ![c] = IF attempt[c] < MaxAttempts THEN "waiting" ELSE "done"]
  /\ result' = [result EXCEPT ![c] = IF phase'[c] = "done" THEN Thrown ELSE @]
  /\ UNCHANGED <<configured, attempt, transit, answers, runs>>

\* Mutant: a try ends only while its request is on its way.
LoseOnlyUnread(c) ==
  /\ phase[c] = "sent"
  /\ Request(c, attempt[c]) \in transit
  /\ phase' = [phase EXCEPT ![c] = "done"]
  /\ result' = [result EXCEPT ![c] = Thrown]
  /\ UNCHANGED <<configured, attempt, transit, answers, runs>>

\* sendAndReceive throws: the try timed out, lost its connection or got a
\* garbled answer. The request may still reach the server.
Lose(c) ==
  /\ phase[c] = "sent"
  /\ phase' = [phase EXCEPT ![c] = "done"]
  /\ result' = [result EXCEPT ![c] = Thrown]
  /\ UNCHANGED <<configured, attempt, transit, answers, runs>>

----------------------------------------------------------------------------
(* The server and the network *)

\* An answer that a run may give, and one that a refusal without it may.
AnswersOfRun == {a \in Answers : a.ran # "no"}
AnswersOfRefusal == {a \in Refusals : a.ran # "yes"}

ServerRuns(m, a) ==
  /\ m \in transit /\ a \in AnswersOfRun
  /\ transit' = transit \ {m}
  /\ runs' = [runs EXCEPT ![m.call] = @ + 1]
  /\ answers' = answers \cup {[request |-> m, answer |-> a]}
  /\ UNCHANGED <<configured, phase, attempt, result>>

ServerRefuses(m, a) ==
  /\ m \in transit /\ a \in AnswersOfRefusal
  /\ transit' = transit \ {m}
  /\ answers' = answers \cup {[request |-> m, answer |-> a]}
  /\ UNCHANGED <<configured, phase, attempt, result, runs>>

RequestLost(m) ==
  /\ m \in transit
  /\ transit' = transit \ {m}
  /\ UNCHANGED <<configured, phase, attempt, result, answers, runs>>

----------------------------------------------------------------------------
ClientNext(c) ==
  \/ Send(c)
  \/ SendRefused(c)
  \/ \E a \in Answers : Receive(c, a)
  \/ Lose(c)

Next ==
  \/ \E c \in Calls : ClientNext(c)
  \/ \E m \in transit :
       \/ \E a \in Answers : ServerRuns(m, a) \/ ServerRefuses(m, a)
       \/ RequestLost(m)

Spec == Init /\ [][Next]_vars

\* A try ends by its timeout at the latest, and a wait by its timer, whether
\* or not there is a connection then. A call that was never made is no part
\* of it.
Fairness ==
  \A c \in Calls : /\ WF_vars(Lose(c))
                   /\ WF_vars(phase[c] = "waiting" /\ (Send(c) \/ SendRefused(c)))

FairSpec == Spec /\ Fairness

----------------------------------------------------------------------------
(* Properties *)

\* The server runs a call at most once, over all its tries: resending is
\* safe for writes, even while an earlier try may still be on its way.
AtMostOnce == \A c \in Calls : runs[c] <= 1

\* A call that returned OK ran once; one that returned a refusal said not to
\* have run did not run, in any of its tries, and never will.
ResultIsTruth ==
  \A c \in Calls :
    /\ result[c].status = "ok" => runs[c] = 1
    /\ phase[c] = "done" /\ result[c] \in Refusals /\ result[c].ran = "no"
         => runs[c] = 0 /\ \A m \in transit : m.call # c

\* The tries always end, whatever the client was made with: a call is tried
\* once, or no more often than it says, a fraction of a try not counted, or
\* four times where that is no finite number.
TriesBounded ==
  \A c \in Calls :
    \/ attempt[c] <= 1
    \/ configured.kind = "number" /\ 10 * attempt[c] <= configured.tenths
    \/ configured.kind # "number" /\ attempt[c] <= DefaultAttempts

\* A halted shard's refusal, or one that may have run, is returned as it is:
\* the next try of a call only ever follows a refusal that was not run.
NoTryLeftBehind ==
  [][\A c \in Calls :
       attempt[c] > 0 /\ attempt'[c] > attempt[c]
         => /\ runs[c] = 0
            /\ \A m \in transit : m.call # c
            /\ \A b \in answers : b.request.call # c]_vars

\* Every call made returns or throws.
CallsEnd == \A c \in Calls : phase[c] = "sent" ~> phase[c] = "done"

Told(c) ==
  IF result[c] = NoResult THEN "none"
  ELSE IF result[c] = OK THEN "ok"
  ELSE IF result[c] \in Refusals /\ result[c].ran = "no" THEN "notRun"
  ELSE "open"

Once == INSTANCE CallOnce WITH
  ran <- runs,
  answer <- [c \in Calls |-> Told(c)]

\* Retries and losses together still make a call that runs once or not at all,
\* as its caller is told for good.
CallOnceSpec == Once!Spec
=============================================================================
