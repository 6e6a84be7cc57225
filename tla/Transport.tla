------------------------------ MODULE Transport ------------------------------
(***************************************************************************)
(* packages/node/src/transport.ts: TcpTransport, one TCP connection shared *)
(* by every caller of a client.                                            *)
(*                                                                         *)
(* An action is one run of the event loop through the class: a method up   *)
(* to its first await, or the handler of a socket event, a timer or a      *)
(* received frame. The network and the server are external: a dial may     *)
(* connect or fail, a connection may die or go silent, and the server may  *)
(* answer what it was sent in any order, late, garbled or never.           *)
(*                                                                         *)
(* Frames arrive whole here; how onData cuts them out of the byte stream   *)
(* is not this module's subject.                                           *)
(***************************************************************************)
EXTENDS Naturals

CONSTANTS
  Requests,   \* request ids; the client never uses one twice
  Callers,    \* code paths sharing the transport: the application, workers
  MaxDials,   \* bound: sockets dialled in a behaviour
  MaxCloses   \* bound: close() calls in a behaviour

ASSUME BoundsAssumption == MaxDials \in Nat /\ MaxCloses \in Nat

Sockets == 1..MaxDials
None == 0

VARIABLES
  socket,      \* this.socket, or None
  connecting,  \* the socket the shared dial promise is for, or None
  closed,      \* this.closed
  closeCount,  \* this.closeCount
  generation,  \* this.generation
  pending,     \* the keys of this.pending
  abandoned,   \* the keys of this.abandoned
  outcome,     \* what each request's promise has come to
  caller,      \* whether each caller awaits the dial
  seen,        \* the connection() each caller read before its last request
  dials,       \* sockets made so far
  sockets,     \* what each net.Socket is doing
  unanswered,  \* written on each socket and not yet answered
  sentOn,      \* history: the socket each request was written on
  made         \* history: the generation each socket became

fields   == <<socket, connecting, closed, closeCount, generation, pending, abandoned>>
callers  == <<outcome, caller, seen>>
network  == <<dials, sockets, unanswered>>
history  == <<sentOn, made>>
vars     == <<fields, callers, network, history>>

SocketStates == {"unused", "dialing", "open", "destroyed", "gone"}
Outcomes == {"unsent", "waiting", "answered", "garbled", "timedOut", "lost", "refused"}

TypeOK ==
  /\ socket \in Sockets \cup {None}
  /\ connecting \in Sockets \cup {None}
  /\ closed \in BOOLEAN
  /\ closeCount \in Nat
  /\ generation \in Nat
  /\ pending \in SUBSET Requests
  /\ abandoned \in SUBSET Requests
  /\ outcome \in [Requests -> Outcomes]
  /\ caller \in [Callers -> {"idle", "dialing"}]
  /\ seen \in [Callers -> Nat]
  /\ dials \in 0..MaxDials
  /\ sockets \in [Sockets -> SocketStates]
  /\ unanswered \in [Sockets -> SUBSET Requests]
  /\ sentOn \in [Requests -> Sockets \cup {None}]
  /\ made \in [Sockets -> Nat]

Init ==
  /\ socket = None
  /\ connecting = None
  /\ closed = FALSE
  /\ closeCount = 0
  /\ generation = 0
  /\ pending = {}
  /\ abandoned = {}
  /\ outcome = [r \in Requests |-> "unsent"]
  /\ caller = [c \in Callers |-> "idle"]
  /\ seen = [c \in Callers |-> 0]
  /\ dials = 0
  /\ sockets = [s \in Sockets |-> "unused"]
  /\ unanswered = [s \in Sockets |-> {}]
  /\ sentOn = [r \in Requests |-> None]
  /\ made = [s \in Sockets |-> 0]

----------------------------------------------------------------------------
(* Helpers *)

\* isConnected(): a socket that has died is still this.socket until its
\* close event, and counts as no connection meanwhile.
IsConnected == socket # None /\ sockets[socket] = "open"

KeepAll == UNCHANGED <<socket, pending, abandoned, outcome>>

\* Mutants: failAll acts for any socket; keeps the abandoned ids.
FailAllAnySocket(s) ==
  /\ socket' = None
  /\ pending' = {}
  /\ abandoned' = {}
  /\ outcome' = [r \in Requests |-> IF r \in pending THEN "lost" ELSE outcome[r]]

FailAllKeepsAbandoned(s) ==
  IF socket = s
  THEN /\ socket' = None
       /\ pending' = {}
       /\ abandoned' = abandoned
       /\ outcome' = [r \in Requests |-> IF r \in pending THEN "lost" ELSE outcome[r]]
  ELSE KeepAll

\* failAll(socket): only the current socket's end fails what is in flight.
FailAll(s) ==
  IF socket = s
  THEN /\ socket' = None
       /\ pending' = {}
       /\ abandoned' = {}
       /\ outcome' = [r \in Requests |-> IF r \in pending THEN "lost" ELSE outcome[r]]
  ELSE KeepAll

\* Everyone awaiting the shared dial goes on when it settles.
DialSettles ==
  /\ connecting' = None
  /\ caller' = [c \in Callers |-> "idle"]

\* Mutant: each connect() dials for itself.
JoinDialAlone(c, socks) ==
  IF socket' # None
  THEN sockets' = socks /\ UNCHANGED <<connecting, caller, dials>>
  ELSE /\ dials < MaxDials
       /\ dials' = dials + 1
       /\ connecting' = dials + 1
       /\ sockets' = [socks EXCEPT ![dials + 1] = "dialing"]
       /\ caller' = [caller EXCEPT ![c] = "dialing"]

\* connect() past `closed = false`, the sockets being `socks`: nothing to do
\* with a socket held, else await the dial in progress or begin one.
JoinDial(c, socks) ==
  \/ /\ socket' # None
     /\ sockets' = socks
     /\ UNCHANGED <<connecting, caller, dials>>
  \/ /\ socket' = None
     /\ caller' = [caller EXCEPT ![c] = "dialing"]
     /\ \/ /\ connecting # None
           /\ sockets' = socks
           /\ UNCHANGED <<connecting, dials>>
        \/ /\ connecting = None
           /\ dials < MaxDials
           /\ dials' = dials + 1
           /\ connecting' = dials + 1
           /\ sockets' = [socks EXCEPT ![dials + 1] = "dialing"]

----------------------------------------------------------------------------
(* Methods *)

Connect(c) ==
  /\ caller[c] = "idle"
  /\ closed' = FALSE
  /\ KeepAll
  /\ JoinDial(c, sockets)
  /\ UNCHANGED <<closeCount, generation, seen, unanswered, history>>

\* Mutant: redial drops whatever is held.
RedialAnything(c, given) ==
  /\ caller[c] = "idle"
  /\ IF socket # None
     THEN FailAll(socket) /\ JoinDial(c, [sockets EXCEPT ![socket] = "destroyed"])
     ELSE KeepAll /\ JoinDial(c, sockets)
  /\ closed' = FALSE
  /\ UNCHANGED <<closeCount, generation, seen, unanswered, history>>

\* redial(generation): `given` says whether the caller passed the connection
\* it saw. Its connect() is part of the same step.
Redial(c, given) ==
  /\ caller[c] = "idle"
  /\ IF socket # None /\ (~given \/ seen[c] = generation)
     THEN FailAll(socket) /\ JoinDial(c, [sockets EXCEPT ![socket] = "destroyed"])
     ELSE KeepAll /\ JoinDial(c, sockets)
  /\ closed' = FALSE
  /\ UNCHANGED <<closeCount, generation, seen, unanswered, history>>

\* Mutant: a close starts the count of connections over.
CloseCountsAnew ==
  /\ closeCount < MaxCloses
  /\ closed' = TRUE
  /\ closeCount' = closeCount + 1
  /\ generation' = 0
  /\ IF socket # None
     THEN FailAll(socket) /\ sockets' = [sockets EXCEPT ![socket] = "destroyed"]
     ELSE KeepAll /\ UNCHANGED sockets
  /\ UNCHANGED <<connecting, caller, seen, dials, unanswered, history>>

Close ==
  /\ closeCount < MaxCloses
  /\ closed' = TRUE
  /\ closeCount' = closeCount + 1
  /\ IF socket # None
     THEN FailAll(socket) /\ sockets' = [sockets EXCEPT ![socket] = "destroyed"]
     ELSE KeepAll /\ UNCHANGED sockets
  /\ UNCHANGED <<connecting, generation, caller, seen, dials, unanswered, history>>

\* sendAndReceive up to its await, its caller having read connection() in
\* the same turn. A request without a connection is refused on the spot.
SendAndReceive(c, r) ==
  /\ caller[c] = "idle"
  /\ outcome[r] = "unsent"
  /\ seen' = [seen EXCEPT ![c] = generation]
  /\ \/ /\ ~IsConnected
        /\ outcome' = [outcome EXCEPT ![r] = "refused"]
        /\ UNCHANGED <<pending, unanswered, sentOn>>
     \/ /\ IsConnected
        /\ outcome' = [outcome EXCEPT ![r] = "waiting"]
        /\ pending' = pending \cup {r}
        /\ unanswered' = [unanswered EXCEPT ![socket] = @ \cup {r}]
        /\ sentOn' = [sentOn EXCEPT ![r] = socket]
  /\ UNCHANGED <<socket, connecting, closed, closeCount, generation, abandoned,
                 caller, dials, sockets, made>>

----------------------------------------------------------------------------
(* Events: the dial, the socket, a request's timer, a frame *)

\* Mutant: a close() during the dial is forgotten.
DialConnectedOpens(s) ==
  /\ connecting = s /\ sockets[s] = "dialing"
  /\ DialSettles
  /\ socket' = s
  /\ generation' = generation + 1
  /\ sockets' = [sockets EXCEPT ![s] = "open"]
  /\ made' = [made EXCEPT ![s] = generation + 1]
  /\ UNCHANGED <<closed, closeCount, pending, abandoned, outcome, seen,
                 dials, unanswered, sentOn>>

\* The dial's connect event. A close() during the dial wins.
DialConnected(s) ==
  /\ connecting = s /\ sockets[s] = "dialing"
  /\ DialSettles
  /\ \/ /\ closed
        /\ sockets' = [sockets EXCEPT ![s] = "destroyed"]
        /\ UNCHANGED <<socket, generation, made>>
     \/ /\ ~closed
        /\ socket' = s
        /\ generation' = generation + 1
        /\ sockets' = [sockets EXCEPT ![s] = "open"]
        /\ made' = [made EXCEPT ![s] = generation + 1]
  /\ UNCHANGED <<closed, closeCount, pending, abandoned, outcome, seen,
                 dials, unanswered, sentOn>>

\* The dial's error event or its timeout.
DialFailed(s) ==
  /\ connecting = s /\ sockets[s] = "dialing"
  /\ DialSettles
  /\ sockets' = [sockets EXCEPT ![s] = "destroyed"]
  /\ UNCHANGED <<socket, closed, closeCount, generation, pending, abandoned,
                 outcome, seen, dials, unanswered, history>>

\* The peer, the OS or the network ends a connection. Node destroys the
\* socket at once and emits error and close in later turns.
SocketDies(s) ==
  /\ sockets[s] = "open"
  /\ sockets' = [sockets EXCEPT ![s] = "destroyed"]
  /\ UNCHANGED <<fields, callers, dials, unanswered, history>>

\* The error and close events of a destroyed socket, whoever destroyed it,
\* possibly after another has taken its place.
SocketGone(s) ==
  /\ sockets[s] = "destroyed"
  /\ sockets' = [sockets EXCEPT ![s] = "gone"]
  /\ FailAll(s)
  /\ UNCHANGED <<connecting, closed, closeCount, generation, caller, seen,
                 dials, unanswered, history>>

\* Mutant: the timer takes the entry out and tells nobody.
TimeoutForgets(r) ==
  /\ r \in pending
  /\ pending' = pending \ {r}
  /\ UNCHANGED <<socket, connecting, closed, closeCount, generation, abandoned,
                 outcome, caller, seen, network, history>>

\* Mutant: a timed-out request is told it was abandoned.
TimeoutSettlesAsAbandoned(r) ==
  /\ r \in pending
  /\ pending' = pending \ {r}
  /\ abandoned' = abandoned \cup {r}
  /\ outcome' = [outcome EXCEPT ![r] = "abandoned"]
  /\ UNCHANGED <<socket, connecting, closed, closeCount, generation,
                 caller, seen, network, history>>

\* The request's timer: its id is remembered as abandoned.
RequestTimeout(r) ==
  /\ r \in pending
  /\ pending' = pending \ {r}
  /\ abandoned' = abandoned \cup {r}
  /\ outcome' = [outcome EXCEPT ![r] = "timedOut"]
  /\ UNCHANGED <<socket, connecting, closed, closeCount, generation,
                 caller, seen, network, history>>

\* onData, a whole frame answering r: it settles r if r is still awaited,
\* whether or not its checksum holds; else it is dropped.
OnAnswer(s, r, intact) ==
  /\ sockets[s] = "open" /\ r \in unanswered[s]
  /\ unanswered' = [unanswered EXCEPT ![s] = @ \ {r}]
  /\ \/ /\ r \in pending
        /\ pending' = pending \ {r}
        /\ outcome' = [outcome EXCEPT ![r] = IF intact THEN "answered" ELSE "garbled"]
        /\ UNCHANGED abandoned
     \/ /\ r \notin pending
        /\ abandoned' = abandoned \ {r}
        /\ UNCHANGED <<pending, outcome>>
  /\ UNCHANGED <<socket, connecting, closed, closeCount, generation,
                 caller, seen, dials, sockets, history>>

\* onData, a frame nothing can follow: a header that doesn't parse, a body
\* past the limit, or the server's error answer under id 0 (failAndDestroy).
OnBadFrame(s) ==
  /\ sockets[s] = "open"
  /\ socket # None
  /\ FailAll(socket)
  /\ sockets' = [sockets EXCEPT ![socket] = "destroyed"]
  /\ UNCHANGED <<connecting, closed, closeCount, generation, caller, seen,
                 dials, unanswered, history>>

----------------------------------------------------------------------------
Next ==
  \/ \E c \in Callers :
       \/ Connect(c)
       \/ \E given \in BOOLEAN : Redial(c, given)
       \/ \E r \in Requests : SendAndReceive(c, r)
  \/ Close
  \/ \E s \in Sockets :
       \/ DialConnected(s) \/ DialFailed(s)
       \/ SocketDies(s) \/ SocketGone(s)
       \/ \E r \in Requests, intact \in BOOLEAN : OnAnswer(s, r, intact)
       \/ OnBadFrame(s)
  \/ \E r \in Requests : RequestTimeout(r)

Spec == Init /\ [][Next]_vars

\* Timers fire, so a dial and a request each end; Node emits close for every
\* destroyed socket. Nothing is assumed of the network or the server.
Fairness ==
  /\ \A r \in Requests : WF_vars(RequestTimeout(r))
  /\ \A s \in Sockets : WF_vars(DialFailed(s)) /\ WF_vars(SocketGone(s))

FairSpec == Spec /\ Fairness

----------------------------------------------------------------------------
(* Properties *)

\* Exactly the requests whose caller still waits are in the pending map: a
\* request that left the map unsettled would hang its caller for good
\* (onData, failAll and the timer each take entries out).
AwaitedIsPending == pending = {r \in Requests : outcome[r] = "waiting"}

\* All the transport remembers of requests belongs to the connection it
\* holds: neither a reply nor a drop of one connection can reach a request
\* sent on another (failAll's clearing; dial's connect handler).
InFlightOnCurrent ==
  \A r \in pending \cup abandoned : socket # None /\ sentOn[r] = socket

\* What is remembered of abandoned requests is bounded by what the server
\* still owes on this connection, and never what a caller awaits.
AbandonedIsOwed ==
  \A r \in abandoned : outcome[r] = "timedOut" /\ r \in unanswered[socket]

\* What the transport remembers of requests in flight is what callers wait
\* for, is the connection's own, and is no more than the server may still
\* answer (pending, abandonedIds).
InFlightIsAccounted == AwaitedIsPending /\ InFlightOnCurrent /\ AbandonedIsOwed

\* No socket is left behind open or dialling: concurrent connect(), redial()
\* and close() share one dial and one connection (connecting, dial()).
NoStraySocket ==
  \A s \in Sockets :
    /\ sockets[s] = "open" => s = socket
    /\ sockets[s] = "dialing" => s = connecting /\ socket = None

\* A closed transport holds no connection, even if the close came while a
\* dial was in progress.
ClosedHoldsNothing == closed => socket = None

\* However connect(), redial(), close() and the events of old sockets
\* interleave, there is one connection at most, and none once closed.
OneSocket == NoStraySocket /\ ClosedHoldsNothing

\* A generation names one connection for good, so a worker that kept one
\* across an await can't mistake a later connection for the one it saw.
GenerationNamesOne ==
  \A s, t \in Sockets : made[s] # 0 /\ made[s] = made[t] => s = t

\* A request is told its connection is lost only if that very connection is
\* no longer usable: a late close event of an old socket, or a redial meant
\* for another connection, fails nobody else's requests.
LostOnlyWithItsSocket ==
  [][\A r \in Requests :
       outcome[r] = "waiting" /\ outcome'[r] = "lost"
         => sockets'[sentOn[r]] \in {"destroyed", "gone"}]_vars

\* A redial that names the connection its caller saw fails only requests on
\* that connection: two workers that see one connection die redial it once,
\* and the second doesn't drop what the first has made.
RedialDropsOnlySeen ==
  [][\A c \in Callers :
       Redial(c, TRUE) => \A r \in pending \ pending' : made[sentOn[r]] = seen[c]]_vars

\* Every request settles, whatever the server and the network do.
EverySendSettles == \A r \in Requests : outcome[r] = "waiting" ~> outcome[r] # "waiting"

\* Every connect() and redial() returns.
EveryConnectReturns == \A c \in Callers : caller[c] = "dialing" ~> caller[c] = "idle"

\* Both, on the transport's own timers: nothing is assumed of the server.
EveryCallSettles == EverySendSettles /\ EveryConnectReturns

Status(r) ==
  CASE outcome[r] = "unsent" -> "unsent"
    [] outcome[r] = "waiting" -> "waiting"
    [] OTHER -> "settled"

Promised == INSTANCE Connection WITH
  held <- socket # None,
  status <- [r \in Requests |-> Status(r)]

\* The transport implements what Connection promises, liveness included.
ConnectionSpec == Promised!FairSpec

=============================================================================
