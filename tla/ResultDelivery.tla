--------------------------- MODULE ResultDelivery ---------------------------
(***************************************************************************)
(* packages/node/src/reconnect.ts: how workers deliver their handlers'     *)
(* results (complete, fail, ack, nack) over a client they share, resending *)
(* a result that is lost with its connection.                              *)
(*                                                                         *)
(* Each result is one sendResult() running concurrently with the others,   *)
(* with the client's own resending of refused requests (Client) under it.  *)
(* The connection is what Connection promises (and Transport implements):  *)
(* UsesConnection shows every step here is one of its steps.               *)
(*                                                                         *)
(* An action is what runs between two awaits. A promise that has settled   *)
(* is gone on with before any timer fires and before anything arrives from *)
(* the network (Settled); the client's owner may act at any time.          *)
(***************************************************************************)
EXTENDS Naturals

CONSTANTS
  Results,         \* results being delivered, of any number of workers
  ResultSends,     \* RESULT_SENDS
  MaxAttempts,     \* tries the client makes of a send, at least one
  MaxGenerations,  \* bound: connections in a behaviour
  MaxCloses        \* bound: close() calls by the client's owner

ASSUME DeliveryAssumption ==
  /\ ResultSends \in Nat \ {0}
  /\ MaxAttempts \in Nat \ {0}
  /\ MaxGenerations \in Nat \ {0}
  /\ MaxCloses \in Nat

VARIABLES
  held, generation, closed, closeCount,   \* the connection, as in Connection
  dialing,     \* a dial is in progress, shared by all who await it
  pc,          \* where each delivery is
  sends,       \* sends of the result so far
  attempt,     \* the client's tries of the current send
  request,     \* requests made for the result so far
  sentOn,      \* the connection its last request was written on
  seen,        \* the connection read before the current send
  error,       \* why the current send failed, if it has
  graceOver,   \* of each: graceAfter's signal has aborted
  transit,     \* requests the server may yet read: <<result, request>>
  verdict,     \* the server's answer to the current request
  received     \* how often the server took the result

connection == <<held, generation, closed, closeCount>>
delivery   == <<sends, attempt, request, sentOn, seen>>
server     == <<transit, verdict, received>>
vars       == <<connection, dialing, pc, delivery, error, graceOver, server>>

Ended == {"delivered", "dropped"}
Ready == {"ready", "failed", "dialed", "dialFailed"}
Waits == {"handler", "awaiting", "backoff", "dialing", "pausing"}

TypeOK ==
  /\ held \in BOOLEAN /\ closed \in BOOLEAN /\ dialing \in BOOLEAN
  /\ generation \in 0..MaxGenerations /\ closeCount \in 0..MaxCloses
  /\ pc \in [Results -> Ended \cup Ready \cup Waits]
  /\ sends \in [Results -> 0..ResultSends]
  /\ attempt \in [Results -> 0..MaxAttempts]
  /\ request \in [Results -> 0..ResultSends * MaxAttempts]
  /\ sentOn \in [Results -> 0..MaxGenerations]
  /\ seen \in [Results -> 0..MaxGenerations]
  /\ error \in [Results -> {"none", "connection", "garbled", "header", "stream", "refused", "invalid"}]
  /\ graceOver \in [Results -> BOOLEAN]
  /\ transit \subseteq Results \X (1..ResultSends * MaxAttempts)
  /\ verdict \in [Results -> {"none", "ok", "refused", "refusedUnrun"}]
  /\ received \in [Results -> Nat]

\* A worker begins with its client connected.
Init ==
  /\ held = TRUE /\ generation = 1
  /\ closed = FALSE /\ closeCount = 0
  /\ dialing = FALSE
  /\ pc = [r \in Results |-> "handler"]
  /\ sends = [r \in Results |-> 0]
  /\ attempt = [r \in Results |-> 0]
  /\ request = [r \in Results |-> 0]
  /\ sentOn = [r \in Results |-> 0]
  /\ seen = [r \in Results |-> 0]
  /\ error = [r \in Results |-> "none"]
  /\ graceOver = [r \in Results |-> FALSE]
  /\ transit = {}
  /\ verdict = [r \in Results |-> "none"]
  /\ received = [r \in Results |-> 0]

----------------------------------------------------------------------------
(* Helpers *)

Settled == \A r \in Results : pc[r] \notin Ready

Goto(r, where) == pc' = [pc EXCEPT ![r] = where]

\* Mutant: only whether the client is closed now counts.
ClosedSinceOnlyNow == closed

\* closedSince(client, seen), closeCount counting since the worker's start.
ClosedSince == closed \/ closeCount # 0

\* Mutant: the connection being gone since does not count.
LostOnlyByError(r) == error[r] \in {"connection", "garbled"}

\* lost(err, client, seen): an error of the connection or the checksum, or
\* any error but a ServerError with the connection gone since.
Lost(r) ==
  /\ error[r] \notin {"refused", "stream"}
  /\ \/ error[r] \in {"connection", "garbled"}
     \/ ~held
     \/ generation # seen[r]

\* The connection is let go: every request waiting on it fails with `err`.
LetGo(err) ==
  /\ held' = FALSE
  /\ error' = [r \in Results |-> IF pc[r] = "awaiting" THEN err ELSE error[r]]

AllFail == [r \in Results |-> IF pc[r] = "awaiting" THEN "failed" ELSE pc[r]]

\* sendOnce: the next request of r is written, or fails for want of a
\* connection.
Write(r) ==
  /\ request' = [request EXCEPT ![r] = @ + 1]
  /\ \/ /\ held
        /\ Goto(r, "awaiting")
        /\ sentOn' = [sentOn EXCEPT ![r] = generation]
        /\ transit' = transit \cup {<<r, request[r] + 1>>}
        /\ verdict' = [verdict EXCEPT ![r] = "none"]
        /\ error' = [error EXCEPT ![r] = "none"]
     \/ /\ ~held
        /\ Goto(r, "failed")
        /\ error' = [error EXCEPT ![r] = "connection"]
        /\ UNCHANGED <<sentOn, transit, verdict>>

\* Mutant: redial is not told which connection to drop.
RedialCurrent(r) ==
  /\ IF held
     THEN /\ LetGo("connection")
          /\ pc' = [AllFail EXCEPT ![r] = "dialing"]
          /\ dialing' = TRUE
     ELSE /\ UNCHANGED <<held, error>>
          /\ Goto(r, "dialing")
          /\ dialing' = TRUE
  /\ closed' = FALSE
  /\ UNCHANGED <<generation, closeCount>>

\* client.redial(seen.connection) up to its await: the connection seen, if
\* it is still held, is dropped, and a dial begun or joined.
Redial(r) ==
  /\ closed' = FALSE
  /\ \/ /\ held /\ generation = seen[r]
        /\ LetGo("connection")
        /\ pc' = [AllFail EXCEPT ![r] = "dialing"]
        /\ dialing' = TRUE
     \/ /\ ~held
        /\ Goto(r, "dialing")
        /\ dialing' = TRUE
        /\ UNCHANGED <<held, error>>
     \/ /\ held /\ generation # seen[r]
        /\ Goto(r, "dialed")
        /\ UNCHANGED <<held, error, dialing>>
  /\ UNCHANGED <<generation, closeCount>>

\* Mutant: the grace does not end the redials.
RedialForEver(r) ==
  \/ /\ ClosedSince
     /\ Goto(r, "dropped")
     /\ UNCHANGED <<connection, dialing, error>>
  \/ /\ ~ClosedSince
     /\ Redial(r)

\* The head of reconnect's loop: give the result up, or redial.
GiveUpOrRedial(r) ==
  \/ /\ graceOver[r] \/ ClosedSince
     /\ Goto(r, "dropped")
     /\ UNCHANGED <<connection, dialing, error>>
  \/ /\ ~graceOver[r] /\ ~ClosedSince
     /\ Redial(r)

----------------------------------------------------------------------------
(* sendResult, sendWithin and reconnect *)

HandlerDone(r) ==
  /\ pc[r] = "handler" /\ Settled
  /\ Goto(r, "ready")
  /\ UNCHANGED <<connection, dialing, delivery, error, graceOver, server>>

\* The head of sendWithin's loop, or of the one below it in sendRequest.
Send(r) ==
  /\ pc[r] = "ready" /\ error[r] # "invalid"
  /\ sends' = [sends EXCEPT ![r] = @ + 1]
  /\ attempt' = [attempt EXCEPT ![r] = 1]
  /\ seen' = [seen EXCEPT ![r] = generation]
  /\ Write(r)
  /\ UNCHANGED <<connection, dialing, graceOver, received>>

\* A result that cannot be put into a request: each send of it throws.
SendInvalid(r) ==
  /\ pc[r] = "ready"
  /\ sends[r] = 0 \/ error[r] = "invalid"
  /\ sends' = [sends EXCEPT ![r] = @ + 1]
  /\ seen' = [seen EXCEPT ![r] = generation]
  /\ Goto(r, "failed")
  /\ error' = [error EXCEPT ![r] = "invalid"]
  /\ UNCHANGED <<connection, dialing, attempt, request, sentOn, graceOver, server>>

\* The client's wait after a refusal is over: the same send, a new request.
RetryTimer(r) ==
  /\ pc[r] = "backoff" /\ Settled
  /\ attempt' = [attempt EXCEPT ![r] = @ + 1]
  /\ Write(r)
  /\ UNCHANGED <<connection, dialing, sends, seen, graceOver, received>>

\* Mutant: any answer counts as delivered.
AnsweredDelivers(r) ==
  /\ pc[r] = "awaiting" /\ verdict[r] # "none" /\ Settled
  /\ \/ Goto(r, "delivered") /\ UNCHANGED error
     \/ Goto(r, "failed") /\ error' = [error EXCEPT ![r] = "garbled"]
  /\ UNCHANGED <<connection, dialing, delivery, graceOver, server>>

\* Mutant: the client resends whatever was answered.
AnsweredRetriesGarbled(r) ==
  /\ pc[r] = "awaiting" /\ verdict[r] # "none" /\ Settled
  /\ \/ /\ attempt[r] < MaxAttempts
        /\ Goto(r, "backoff")
        /\ UNCHANGED error
     \/ /\ Goto(r, IF verdict[r] = "ok" THEN "delivered" ELSE "failed")
        /\ error' = IF verdict[r] = "ok" THEN error ELSE [error EXCEPT ![r] = "refused"]
  /\ UNCHANGED <<connection, dialing, delivery, graceOver, server>>

\* The answer arrives, its checksum right or wrong.
Answered(r) ==
  /\ pc[r] = "awaiting" /\ verdict[r] # "none" /\ Settled
  /\ \/ /\ verdict[r] = "ok"
        /\ Goto(r, "delivered")
        /\ UNCHANGED error
     \/ /\ verdict[r] = "refusedUnrun" /\ attempt[r] < MaxAttempts
        /\ Goto(r, "backoff")
        /\ UNCHANGED error
     \/ /\ verdict[r] \in {"refused", "refusedUnrun"}
        /\ verdict[r] = "refusedUnrun" => attempt[r] = MaxAttempts
        /\ Goto(r, "failed")
        /\ error' = [error EXCEPT ![r] = "refused"]
     \/ /\ Goto(r, "failed")
        /\ error' = [error EXCEPT ![r] = "garbled"]
  /\ UNCHANGED <<connection, dialing, delivery, graceOver, server>>

RequestTimeout(r) ==
  /\ pc[r] = "awaiting" /\ Settled
  /\ Goto(r, "failed")
  /\ error' = [error EXCEPT ![r] = "connection"]
  /\ UNCHANGED <<connection, dialing, delivery, graceOver, server>>

\* The send threw: drop the result for good, or reconnect to send it again.
Failed(r) ==
  /\ pc[r] = "failed"
  /\ \/ /\ ~Lost(r) \/ sends[r] >= ResultSends
        /\ Goto(r, "dropped")
        /\ UNCHANGED <<connection, dialing, error>>
     \/ /\ Lost(r) /\ sends[r] < ResultSends
        /\ GiveUpOrRedial(r)
  /\ UNCHANGED <<delivery, graceOver, server>>

\* redial returned. A worker told to leave, or whose client was closed
\* meanwhile, doesn't count it as a reconnect.
Dialed(r) ==
  /\ pc[r] = "dialed"
  /\ Goto(r, IF graceOver[r] \/ ClosedSince THEN "dropped" ELSE "ready")
  /\ UNCHANGED <<connection, dialing, delivery, error, graceOver, server>>

\* redial threw: wait, at most until the grace is over, and try again.
DialThrew(r) ==
  /\ pc[r] = "dialFailed"
  /\ Goto(r, "pausing")
  /\ UNCHANGED <<connection, dialing, delivery, error, graceOver, server>>

PauseOver(r) ==
  /\ pc[r] = "pausing" /\ Settled
  /\ GiveUpOrRedial(r)
  /\ UNCHANGED <<delivery, graceOver, server>>

\* graceAfter's timer: RESULT_GRACE_MS after the worker was stopped or
\* drained, or after the first send if that is later. It is cleared when the
\* delivery ends.
GraceOver(r) ==
  /\ ~graceOver[r] /\ Settled
  /\ pc[r] \notin Ended \cup {"handler"}
  /\ graceOver' = [graceOver EXCEPT ![r] = TRUE]
  /\ UNCHANGED <<connection, dialing, pc, delivery, error, server>>

----------------------------------------------------------------------------
(* The connection: the network, the owner, and the others sharing it *)

\* Mutant: a dial opens a client closed meanwhile.
DialEndsOpens(ok) ==
  /\ dialing /\ Settled
  /\ dialing' = FALSE
  /\ held' = ok
  /\ pc' = [r \in Results |-> IF pc[r] # "dialing" THEN pc[r]
                              ELSE IF held' THEN "dialed" ELSE "dialFailed"]
  /\ IF held'
     THEN generation < MaxGenerations /\ generation' = generation + 1
     ELSE UNCHANGED generation
  /\ UNCHANGED <<closed, closeCount, delivery, error, graceOver, server>>

\* The dial succeeds, unless the client was closed meanwhile, and all who
\* await it go on.
DialEnds(ok) ==
  /\ dialing /\ Settled
  /\ dialing' = FALSE
  /\ held' = (ok /\ ~closed)
  /\ pc' = [r \in Results |-> IF pc[r] # "dialing" THEN pc[r]
                              ELSE IF held' THEN "dialed" ELSE "dialFailed"]
  /\ IF held'
     THEN generation < MaxGenerations /\ generation' = generation + 1
     ELSE UNCHANGED generation
  /\ UNCHANGED <<closed, closeCount, delivery, error, graceOver, server>>

\* The connection ends ("connection"), or carries a frame nothing can follow
\* ("header"), or the server's error for a request, of any sharer, that it
\* could not parse ("stream": a ServerError, for everyone in flight).
ConnectionEnds ==
  /\ held /\ Settled
  /\ \E err \in {"connection", "header", "stream"} : LetGo(err)
  /\ pc' = AllFail
  /\ UNCHANGED <<generation, closed, closeCount, dialing, delivery, graceOver, server>>

OwnerCloses ==
  /\ closeCount < MaxCloses
  /\ closed' = TRUE
  /\ closeCount' = closeCount + 1
  /\ LetGo("connection")
  /\ pc' = AllFail
  /\ UNCHANGED <<generation, dialing, delivery, graceOver, server>>

OwnerConnects ==
  /\ closed' = FALSE
  /\ dialing' = (dialing \/ ~held)
  /\ UNCHANGED <<held, generation, closeCount, pc, delivery, error, graceOver, server>>

\* A poll loop or a drain notice redials, of a worker that shares the client
\* and sees the connection as lost.
OtherRedials ==
  /\ ~ClosedSince
  /\ LetGo("connection")
  /\ pc' = AllFail
  /\ dialing' = TRUE
  /\ UNCHANGED <<generation, closed, closeCount, delivery, graceOver, server>>

----------------------------------------------------------------------------
(* The server *)

\* It reads a request, also one its sender gave up: it takes the result, or
\* refuses it, or refuses it as not run. Repeated results are up to it.
ServerReads(r, n) ==
  /\ <<r, n>> \in transit /\ Settled
  /\ transit' = transit \ {<<r, n>>}
  /\ \E v \in {"ok", "refused", "refusedUnrun"} :
       /\ verdict' = IF n = request[r] THEN [verdict EXCEPT ![r] = v] ELSE verdict
       /\ received' = IF v = "ok" THEN [received EXCEPT ![r] = @ + 1] ELSE received
  /\ UNCHANGED <<connection, dialing, pc, delivery, error, graceOver>>

----------------------------------------------------------------------------
Settles(r) == Send(r) \/ SendInvalid(r) \/ Failed(r) \/ Dialed(r) \/ DialThrew(r)
Timer(r) == RetryTimer(r) \/ RequestTimeout(r) \/ PauseOver(r)

Next ==
  \/ \E r \in Results :
       \/ HandlerDone(r) \/ Answered(r) \/ GraceOver(r)
       \/ Settles(r) \/ Timer(r)
       \/ \E n \in 1..request[r] : ServerReads(r, n)
  \/ \E ok \in BOOLEAN : DialEnds(ok)
  \/ ConnectionEnds \/ OwnerCloses \/ OwnerConnects \/ OtherRedials

Spec == Init /\ [][Next]_vars

\* The event loop goes on with a settled promise, and comes back to its due
\* timers however busy the deliveries keep it. Nothing is assumed of the
\* network, the server, the owner or the handlers.
Fairness ==
  /\ \A r \in Results :
       WF_vars(Settles(r)) /\ SF_vars(Timer(r))
  /\ SF_vars(DialEnds(FALSE))

FairSpec == Spec /\ Fairness

----------------------------------------------------------------------------
(* Properties *)

\* A result reported as delivered was taken by the server: an answer to an
\* earlier send or to another's request never passes for it.
DeliveredWasTaken == \A r \in Results : pc[r] = "delivered" => received[r] > 0

\* Resends are bounded at the server: it takes a result at most once per
\* send, whatever the client resends underneath and however late requests
\* of earlier sends are read.
TakenAtMostSends == \A r \in Results : received[r] <= sends[r] /\ sends[r] <= ResultSends

\* A result is given up only for a reason the comments name: a refusal or a
\* result that fits no request, the sends used up, the grace over, or the
\* client closed by its owner. The connection failing is never one.
NotGivenUpEarly ==
  \A r \in Results :
    pc[r] = "dropped" =>
      \/ error[r] \in {"refused", "stream", "invalid"}
      \/ sends[r] = ResultSends
      \/ graceOver[r]
      \/ closeCount > 0

\* reconnect.ts:102-103: a send is lost if the server may never have seen it;
\* "Anything else is the server's answer", and only that is final.
RefusedByTheServer ==
  \A r \in Results :
    pc[r] = "dropped" /\ error[r] # "invalid" /\ sends[r] < ResultSends
        /\ ~graceOver[r] /\ closeCount = 0
      => verdict[r] \in {"refused", "refusedUnrun"}

\* A delivery drops only the connection its own request failed on, also when
\* the client resent that request on a later one: nobody else's requests on
\* a connection made since are lost.
DropsOnlyWhatFailed ==
  [][\A r \in Results :
       pc[r] \in {"failed", "pausing"} /\ pc'[r] = "dialing" /\ held
         => sentOn[r] = generation]_vars

\* Once the owner has closed the client no delivery dials it again, even if
\* the owner reconnects it.
OwnerCloseEndsRedials ==
  [][\A r \in Results :
       pc[r] \notin {"dialing", "dialed"} /\ pc'[r] \in {"dialing", "dialed"}
         => closeCount = 0]_vars

\* A stop, a drain or the owner's close is never held up for ever: once the
\* grace is over or the client closed, a delivery that has begun ends.
LeavingEnds ==
  \A r \in Results :
    (graceOver[r] \/ closeCount > 0) /\ pc[r] # "handler" ~> pc[r] \in Ended

Status(q) ==
  IF q[2] > request[q[1]] THEN "unsent"
  ELSE IF q[2] = request[q[1]] /\ pc[q[1]] = "awaiting" THEN "waiting"
  ELSE "settled"

Conn == INSTANCE Connection WITH
  Requests <- Results \X (1..ResultSends * MaxAttempts),
  status <- [q \in Results \X (1..ResultSends * MaxAttempts) |-> Status(q)]

\* Deliveries use the connection as the transport provides it. (It begins
\* with the client connected.)
UsesConnection == [][Conn!Next]_(Conn!vars)

=============================================================================
