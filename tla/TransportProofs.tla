--------------------------- MODULE TransportProofs ---------------------------
(***************************************************************************)
(* Transport for any set of requests and callers and any bounds: its       *)
(* invariants, its two action properties, and that it implements           *)
(* Connection.                                                             *)
(***************************************************************************)
EXTENDS Transport, TLAPS

\* The sockets: those made are 1..dials, a generation is given to a socket
\* when it connects, and the one held has the latest.
SocketsOK ==
  /\ \A s \in Sockets : sockets[s] = "unused" <=> s > dials
  /\ \A s \in Sockets : sockets[s] \in {"unused", "dialing"} => made[s] = 0
  /\ \A s \in Sockets : made[s] <= generation
  /\ socket # None => sockets[socket] \in {"open", "destroyed"} /\ made[socket] = generation
  /\ connecting # None => socket = None /\ sockets[connecting] = "dialing"

\* What is in flight is still owed on the socket held.
InFlightIsOwed ==
  \A r \in pending \cup abandoned :
    /\ socket # None
    /\ sentOn[r] = socket
    /\ r \in unanswered[socket]

\* The half of the inductive invariant about requests, and the half about
\* sockets.
RequestsInv ==
  /\ AwaitedIsPending
  /\ InFlightIsOwed
  /\ \A r \in abandoned : outcome[r] = "timedOut"

SocketsInv ==
  /\ SocketsOK
  /\ NoStraySocket
  /\ ClosedHoldsNothing
  /\ GenerationNamesOne

\* The inductive invariant.
IInv == TypeOK /\ RequestsInv /\ SocketsInv

----------------------------------------------------------------------------
(* Every action keeps the types. *)

LEMMA FailAllTypes ==
  ASSUME TypeOK, NEW s \in Sockets, FailAll(s) \/ KeepAll
  PROVE  /\ socket' \in Sockets \cup {None}
         /\ pending' \in SUBSET Requests
         /\ abandoned' \in SUBSET Requests
         /\ outcome' \in [Requests -> Outcomes]
BY DEF TypeOK, FailAll, KeepAll, Outcomes, None

LEMMA JoinDialTypes ==
  ASSUME TypeOK, NEW c \in Callers,
         NEW socks \in [Sockets -> SocketStates], JoinDial(c, socks)
  PROVE  /\ connecting' \in Sockets \cup {None}
         /\ caller' \in [Callers -> {"idle", "dialing"}]
         /\ dials' \in 0..MaxDials
         /\ sockets' \in [Sockets -> SocketStates]
<1>1. CASE dials' = dials + 1 /\ dials < MaxDials
  <2>1. dials + 1 \in Sockets
    BY <1>1, BoundsAssumption DEF TypeOK, Sockets
  <2>2. /\ caller' = [caller EXCEPT ![c] = "dialing"]
        /\ connecting' = dials + 1
        /\ sockets' = [socks EXCEPT ![dials + 1] = "dialing"]
    BY <1>1 DEF JoinDial, TypeOK
  <2>3. dials' \in 0..MaxDials
    BY <1>1, BoundsAssumption DEF TypeOK, BoundsAssumption
  <2>4. sockets' \in [Sockets -> SocketStates]
    BY <2>2 DEF SocketStates
  <2>5. caller' \in [Callers -> {"idle", "dialing"}]
    BY <2>2 DEF TypeOK
  <2> QED BY <2>1, <2>2, <2>3, <2>4, <2>5
<1>2. CASE UNCHANGED <<connecting, dials>> /\ sockets' = socks
  BY <1>2 DEF TypeOK, JoinDial
<1> QED BY <1>1, <1>2 DEF JoinDial

LEMMA TypeStep == TypeOK /\ [Next]_vars => TypeOK'
<1> SUFFICES ASSUME TypeOK, [Next]_vars PROVE TypeOK'
  OBVIOUS
<1>0. \A s \in Sockets : [sockets EXCEPT ![s] = "destroyed"] \in [Sockets -> SocketStates]
  BY DEF TypeOK, SocketStates
<1>1. ASSUME NEW c \in Callers, Connect(c) PROVE TypeOK'
  <2>1. KeepAll /\ JoinDial(c, sockets)
    BY <1>1 DEF Connect
  <2> QED BY <1>1, <2>1, JoinDialTypes DEF Connect, KeepAll, TypeOK, history
<1>2. ASSUME NEW c \in Callers, NEW given \in BOOLEAN, Redial(c, given) PROVE TypeOK'
  <2>1. CASE socket # None /\ (~given \/ seen[c] = generation)
    <3>1. socket \in Sockets /\ FailAll(socket) /\ JoinDial(c, [sockets EXCEPT ![socket] = "destroyed"])
      BY <1>2, <2>1 DEF Redial, TypeOK
    <3> QED BY <1>0, <1>2, <3>1, FailAllTypes, JoinDialTypes DEF Redial, TypeOK, history
  <2>2. CASE ~(socket # None /\ (~given \/ seen[c] = generation))
    <3>1. KeepAll /\ JoinDial(c, sockets)
      BY <1>2, <2>2 DEF Redial
    <3> QED BY <1>2, <3>1, JoinDialTypes DEF Redial, KeepAll, TypeOK, history
  <2> QED BY <2>1, <2>2
<1>3. ASSUME NEW c \in Callers, NEW r \in Requests, SendAndReceive(c, r) PROVE TypeOK'
  BY <1>3 DEF SendAndReceive, IsConnected, TypeOK, Outcomes, None
<1>4. CASE Close
  <2>1. CASE socket # None
    <3>1. socket \in Sockets /\ FailAll(socket) /\ sockets' = [sockets EXCEPT ![socket] = "destroyed"]
      BY <1>4, <2>1 DEF Close, TypeOK
    <3> QED BY <1>0, <1>4, <3>1, FailAllTypes DEF Close, TypeOK, history
  <2>2. CASE socket = None
    BY <1>4, <2>2 DEF Close, KeepAll, TypeOK, history
  <2> QED BY <2>1, <2>2
<1>5. ASSUME NEW s \in Sockets, DialConnected(s) PROVE TypeOK'
  BY <1>5 DEF DialConnected, DialSettles, TypeOK, SocketStates
<1>6. ASSUME NEW s \in Sockets, DialFailed(s) PROVE TypeOK'
  BY <1>6 DEF DialFailed, DialSettles, TypeOK, SocketStates, history
<1>7. ASSUME NEW s \in Sockets, SocketDies(s) PROVE TypeOK'
  BY <1>7 DEF SocketDies, TypeOK, SocketStates, fields, callers, history
<1>8. ASSUME NEW s \in Sockets, SocketGone(s) PROVE TypeOK'
  BY <1>8, FailAllTypes DEF SocketGone, TypeOK, SocketStates, history
<1>9. ASSUME NEW s \in Sockets, NEW r \in Requests, NEW intact \in BOOLEAN,
             OnAnswer(s, r, intact)
      PROVE TypeOK'
  BY <1>9 DEF OnAnswer, TypeOK, Outcomes, history
<1>10. ASSUME NEW s \in Sockets, OnBadFrame(s) PROVE TypeOK'
  <2>1. socket \in Sockets /\ FailAll(socket)
    BY <1>10 DEF OnBadFrame, TypeOK
  <2> QED BY <1>0, <1>10, <2>1, FailAllTypes DEF OnBadFrame, TypeOK, history
<1>11. ASSUME NEW r \in Requests, RequestTimeout(r) PROVE TypeOK'
  BY <1>11 DEF RequestTimeout, TypeOK, Outcomes, network, history
<1>12. CASE UNCHANGED vars
  BY <1>12 DEF TypeOK, vars, fields, callers, network, history
<1> QED
  BY <1>1, <1>2, <1>3, <1>4, <1>5, <1>6, <1>7, <1>8, <1>9, <1>10, <1>11, <1>12 DEF Next

----------------------------------------------------------------------------
(* Every action keeps the half about requests. *)

\* failAll leaves nothing in flight when it acts, and nothing changed when
\* it doesn't.
LEMMA FailAllEffect ==
  ASSUME TypeOK, RequestsInv, NEW s \in Sockets, FailAll(s)
  PROVE  \/ socket = s /\ socket' = None /\ pending' = {} /\ abandoned' = {} /\ AwaitedIsPending'
         \/ socket # s /\ KeepAll
BY DEF TypeOK, RequestsInv, AwaitedIsPending, FailAll, KeepAll, Outcomes

LEMMA NothingInFlight ==
  ASSUME pending' = {}, abandoned' = {}, AwaitedIsPending'
  PROVE  RequestsInv'
BY DEF RequestsInv, InFlightIsOwed

LEMMA KeptInFlight ==
  ASSUME RequestsInv, KeepAll, UNCHANGED <<sentOn, unanswered>>
  PROVE  RequestsInv'
BY DEF RequestsInv, InFlightIsOwed, AwaitedIsPending, KeepAll

LEMMA RequestsStep == IInv /\ [Next]_vars => RequestsInv'
<1> SUFFICES ASSUME IInv, [Next]_vars PROVE RequestsInv'
  OBVIOUS
<1>0. TypeOK /\ RequestsInv /\ SocketsInv
  BY DEF IInv
<1>a. ASSUME NEW s \in Sockets, FailAll(s), UNCHANGED <<sentOn, unanswered>> PROVE RequestsInv'
  BY <1>0, <1>a, FailAllEffect, NothingInFlight, KeptInFlight
<1>1. ASSUME NEW c \in Callers, Connect(c) PROVE RequestsInv'
  BY <1>0, <1>1, KeptInFlight DEF Connect, history
<1>2. ASSUME NEW c \in Callers, NEW given \in BOOLEAN, Redial(c, given) PROVE RequestsInv'
  <2>1. CASE socket # None /\ (~given \/ seen[c] = generation)
    <3>1. socket \in Sockets
      BY <1>0, <2>1 DEF TypeOK
    <3> QED BY <1>2, <1>a, <2>1, <3>1 DEF Redial, history
  <2>2. CASE ~(socket # None /\ (~given \/ seen[c] = generation))
    BY <1>0, <1>2, <2>2, KeptInFlight DEF Redial, history
  <2> QED BY <2>1, <2>2
<1>3. ASSUME NEW c \in Callers, NEW r \in Requests, SendAndReceive(c, r) PROVE RequestsInv'
  <2> USE <1>0, <1>3 DEF SendAndReceive, RequestsInv, TypeOK
  <2>1. AwaitedIsPending'
    BY DEF AwaitedIsPending
  <2>2. InFlightIsOwed'
    BY DEF InFlightIsOwed, IsConnected
  <2>3. \A q \in abandoned' : outcome'[q] = "timedOut"
    OBVIOUS
  <2> QED BY <2>1, <2>2, <2>3
<1>4. CASE Close
  <2>1. CASE socket # None
    <3>1. socket \in Sockets
      BY <1>0, <2>1 DEF TypeOK
    <3> QED BY <1>4, <1>a, <2>1, <3>1 DEF Close, history
  <2>2. CASE socket = None
    BY <1>0, <1>4, <2>2, KeptInFlight DEF Close, history
  <2> QED BY <2>1, <2>2
<1>5. ASSUME NEW s \in Sockets, DialConnected(s) PROVE RequestsInv'
  <2>1. socket = None
    BY <1>0, <1>5 DEF DialConnected, SocketsInv, NoStraySocket
  <2>2. pending = {} /\ abandoned = {}
    BY <1>0, <2>1 DEF RequestsInv, InFlightIsOwed
  <2>3. AwaitedIsPending'
    BY <1>0, <1>5 DEF DialConnected, RequestsInv, AwaitedIsPending
  <2> QED BY <1>5, <2>2, <2>3, NothingInFlight DEF DialConnected
<1>6. ASSUME NEW s \in Sockets, DialFailed(s) PROVE RequestsInv'
  BY <1>0, <1>6, KeptInFlight DEF DialFailed, KeepAll, history
<1>7. ASSUME NEW s \in Sockets, SocketDies(s) PROVE RequestsInv'
  BY <1>0, <1>7, KeptInFlight DEF SocketDies, KeepAll, fields, callers, history
<1>8. ASSUME NEW s \in Sockets, SocketGone(s) PROVE RequestsInv'
  BY <1>8, <1>a DEF SocketGone, history
<1>9. ASSUME NEW s \in Sockets, NEW r \in Requests, NEW intact \in BOOLEAN,
             OnAnswer(s, r, intact)
      PROVE RequestsInv'
  <2> USE <1>0, <1>9 DEF OnAnswer, RequestsInv, TypeOK
  <2>1. AwaitedIsPending'
    BY DEF AwaitedIsPending
  <2>2. InFlightIsOwed'
    <3>1. r \notin pending \/ r \notin abandoned
      BY DEF AwaitedIsPending
    <3> QED BY <3>1 DEF InFlightIsOwed, history
  <2>3. \A q \in abandoned' : outcome'[q] = "timedOut"
    BY DEF AwaitedIsPending
  <2> QED BY <2>1, <2>2, <2>3
<1>10. ASSUME NEW s \in Sockets, OnBadFrame(s) PROVE RequestsInv'
  <2>1. socket \in Sockets
    BY <1>0, <1>10 DEF OnBadFrame, TypeOK
  <2> QED BY <1>10, <1>a, <2>1 DEF OnBadFrame, history
<1>11. ASSUME NEW r \in Requests, RequestTimeout(r) PROVE RequestsInv'
  <2> USE <1>0, <1>11 DEF RequestTimeout, RequestsInv, TypeOK
  <2>1. AwaitedIsPending'
    BY DEF AwaitedIsPending
  <2>2. InFlightIsOwed'
    BY DEF InFlightIsOwed, history, network
  <2>3. \A q \in abandoned' : outcome'[q] = "timedOut"
    OBVIOUS
  <2> QED BY <2>1, <2>2, <2>3
<1>12. CASE UNCHANGED vars
  BY <1>0, <1>12, KeptInFlight DEF vars, fields, callers, network, history, KeepAll
<1> QED
  BY <1>1, <1>2, <1>3, <1>4, <1>5, <1>6, <1>7, <1>8, <1>9, <1>10, <1>11, <1>12 DEF Next

----------------------------------------------------------------------------
(* Every action keeps the half about sockets. *)

\* A connection let go, its socket destroyed.
LEMMA LetGoSockets ==
  ASSUME TypeOK, SocketsInv, socket # None,
         NEW socks, socks = [sockets EXCEPT ![socket] = "destroyed"]
  PROVE  /\ \A s \in Sockets : socks[s] = "unused" <=> s > dials
         /\ \A s \in Sockets : socks[s] \in {"unused", "dialing"} => made[s] = 0
         /\ \A s \in Sockets : socks[s] # "open"
         /\ \A s \in Sockets : socks[s] # "dialing"
         /\ connecting = None
         /\ socks \in [Sockets -> SocketStates]
BY DEF TypeOK, SocketsInv, SocketsOK, NoStraySocket, SocketStates, None

\* connect() past `closed = false`, whatever it does.
LEMMA JoinDialSockets ==
  ASSUME TypeOK, NEW c \in Callers,
         NEW socks \in [Sockets -> SocketStates], JoinDial(c, socks),
         \A s \in Sockets : socks[s] = "unused" <=> s > dials,
         \A s \in Sockets : socks[s] \in {"unused", "dialing"} => made[s] = 0,
         \A s \in Sockets : made[s] <= generation,
         \A s \in Sockets : socks[s] = "open" => s = socket',
         \A s \in Sockets : socks[s] = "dialing" => s = connecting /\ socket' = None,
         socket' # None => socks[socket'] \in {"open", "destroyed"} /\ made[socket'] = generation,
         connecting # None => socket' = None /\ socks[connecting] = "dialing",
         GenerationNamesOne, ~closed',
         socket' \in Sockets \cup {None}, UNCHANGED <<generation, made>>
  PROVE  SocketsInv'
<1>1. CASE UNCHANGED <<connecting, dials>> /\ sockets' = socks
  BY <1>1 DEF SocketsInv, SocketsOK, NoStraySocket, ClosedHoldsNothing, GenerationNamesOne
<1>2. CASE dials' = dials + 1 /\ dials < MaxDials /\ socket' = None /\ connecting = None
  <2>1. dials + 1 \in Sockets
    BY <1>2, BoundsAssumption DEF TypeOK, Sockets
  <2>2. /\ connecting' = dials + 1
        /\ sockets' = [socks EXCEPT ![dials + 1] = "dialing"]
    BY <1>2 DEF JoinDial, TypeOK
  <2>3. /\ sockets'[dials + 1] = "dialing"
        /\ \A s \in Sockets : s # dials + 1 => sockets'[s] = socks[s]
    BY <2>1, <2>2
  <2>4. \A s \in Sockets : s \in Nat /\ s > 0
    BY DEF Sockets
  <2>5. dials \in Nat
    BY DEF TypeOK
  <2>6. made[dials + 1] = 0
    BY <2>1, <2>5
  <2>7. SocketsOK'
    <3>1. \A s \in Sockets : sockets'[s] = "unused" <=> s > dials'
      BY <1>2, <2>1, <2>3, <2>4, <2>5
    <3>2. \A s \in Sockets : sockets'[s] \in {"unused", "dialing"} => made'[s] = 0
      BY <2>3, <2>6
    <3>3. connecting' # None => socket' = None /\ sockets'[connecting'] = "dialing"
      BY <1>2, <2>2, <2>3
    <3> QED BY <1>2, <3>1, <3>2, <3>3 DEF SocketsOK
  <2>8. NoStraySocket'
    BY <1>2, <2>1, <2>2, <2>3, <2>4 DEF NoStraySocket, None
  <2> QED BY <1>2, <2>7, <2>8 DEF SocketsInv, ClosedHoldsNothing, GenerationNamesOne
<1> QED BY <1>1, <1>2 DEF JoinDial

LEMMA SocketsStep == IInv /\ [Next]_vars => SocketsInv'
<1> SUFFICES ASSUME IInv, [Next]_vars PROVE SocketsInv'
  OBVIOUS
<1>0. TypeOK /\ RequestsInv /\ SocketsInv
  BY DEF IInv
<1>t. TypeOK'
  BY <1>0, TypeStep
<1> USE DEF SocketsInv, ClosedHoldsNothing
<1>a. ASSUME NEW c \in Callers, KeepAll, JoinDial(c, sockets), ~closed', UNCHANGED <<generation, made>>
      PROVE SocketsInv'
  <2>1. socket' = socket
    BY <1>a DEF KeepAll
  <2> QED BY <1>0, <1>a, <2>1, JoinDialSockets DEF SocketsOK, NoStraySocket, TypeOK
<1>1. ASSUME NEW c \in Callers, Connect(c) PROVE SocketsInv'
  BY <1>1, <1>a DEF Connect, history
<1>2. ASSUME NEW c \in Callers, NEW given \in BOOLEAN, Redial(c, given) PROVE SocketsInv'
  <2>1. CASE socket # None /\ (~given \/ seen[c] = generation)
    <3> DEFINE socks == [sockets EXCEPT ![socket] = "destroyed"]
    <3>1. FailAll(socket) /\ JoinDial(c, socks) /\ ~closed' /\ UNCHANGED <<generation, made>>
      BY <1>2, <2>1 DEF Redial, history
    <3>2. socket' = None
      BY <3>1 DEF FailAll
    <3>3. /\ \A s \in Sockets : socks[s] = "unused" <=> s > dials
          /\ \A s \in Sockets : socks[s] \in {"unused", "dialing"} => made[s] = 0
          /\ \A s \in Sockets : socks[s] # "open"
          /\ \A s \in Sockets : socks[s] # "dialing"
          /\ connecting = None
          /\ socks \in [Sockets -> SocketStates]
      BY <1>0, <2>1, LetGoSockets
    <3> HIDE DEF socks
    <3> QED BY <1>0, <3>1, <3>2, <3>3, JoinDialSockets DEF SocketsOK
  <2>2. CASE ~(socket # None /\ (~given \/ seen[c] = generation))
    BY <1>2, <2>2, <1>a DEF Redial, history
  <2> QED BY <2>1, <2>2
<1>3. ASSUME NEW c \in Callers, NEW r \in Requests, SendAndReceive(c, r) PROVE SocketsInv'
  BY <1>0, <1>3 DEF SendAndReceive, SocketsOK, NoStraySocket, GenerationNamesOne
<1>4. CASE Close
  <2>1. CASE socket # None
    <3>1. FailAll(socket) /\ sockets' = [sockets EXCEPT ![socket] = "destroyed"]
          /\ UNCHANGED <<connecting, generation, dials, made>>
      BY <1>4, <2>1 DEF Close, history
    <3>2. socket' = None
      BY <3>1 DEF FailAll
    <3> QED BY <1>0, <2>1, <3>1, <3>2, LetGoSockets DEF SocketsOK, NoStraySocket, GenerationNamesOne
  <2>2. CASE socket = None
    BY <1>0, <1>4, <2>2 DEF Close, KeepAll, history, SocketsOK, NoStraySocket, GenerationNamesOne
  <2> QED BY <2>1, <2>2
<1>5. ASSUME NEW s \in Sockets, DialConnected(s) PROVE SocketsInv'
  <2>1. socket = None /\ made[s] = 0 /\ s \in Nat /\ s # None
    BY <1>0, <1>5 DEF DialConnected, NoStraySocket, SocketsOK, Sockets, None
  <2>2. \A t \in Sockets : made[t] \in Nat /\ t # None
    BY <1>0 DEF TypeOK, Sockets, None
  <2>3. CASE closed
    BY <1>0, <1>5, <2>1, <2>3 DEF DialConnected, DialSettles, SocketsOK, NoStraySocket, GenerationNamesOne, TypeOK
  <2>4. CASE ~closed
    <3> USE <1>0, <1>5, <2>1, <2>2, <2>4 DEF DialConnected, DialSettles, TypeOK
    <3>1. SocketsOK'
      <4>1. /\ sockets' = [sockets EXCEPT ![s] = "open"]
            /\ made' = [made EXCEPT ![s] = generation + 1]
            /\ socket' = s /\ generation' = generation + 1 /\ connecting' = None
            /\ dials' = dials
        OBVIOUS
      <4>2. \A t \in Sockets : made'[t] <= generation'
        BY <4>1 DEF SocketsOK
      <4>3. \A t \in Sockets : sockets'[t] = "unused" <=> t > dials'
        BY <4>1 DEF SocketsOK
      <4>4. \A t \in Sockets : sockets'[t] \in {"unused", "dialing"} => made'[t] = 0
        BY <4>1 DEF SocketsOK
      <4> QED BY <4>1, <4>2, <4>3, <4>4 DEF SocketsOK
    <3>2. NoStraySocket'
      BY DEF NoStraySocket
    <3>3. GenerationNamesOne'
      BY DEF GenerationNamesOne, SocketsOK
    <3> QED BY <3>1, <3>2, <3>3
  <2> QED BY <2>3, <2>4
<1>6. ASSUME NEW s \in Sockets, DialFailed(s) PROVE SocketsInv'
  <2>1. \A t \in Sockets : sockets'[t] = IF t = s THEN "destroyed" ELSE sockets[t]
    BY <1>0, <1>6 DEF DialFailed, TypeOK
  <2>2. UNCHANGED <<socket, dials, closed, generation, made>> /\ connecting' = None
    BY <1>6 DEF DialFailed, DialSettles, history
  <2>3. s = connecting /\ sockets[s] = "dialing" /\ socket = None
    BY <1>0, <1>6 DEF DialFailed, NoStraySocket
  <2> QED BY <1>0, <2>1, <2>2, <2>3 DEF SocketsOK, NoStraySocket, GenerationNamesOne
<1>7. ASSUME NEW s \in Sockets, SocketDies(s) PROVE SocketsInv'
  <2>1. \A t \in Sockets : sockets'[t] = IF t = s THEN "destroyed" ELSE sockets[t]
    BY <1>0, <1>7 DEF SocketDies, TypeOK
  <2>2. UNCHANGED <<socket, connecting, dials, closed, generation, made>> /\ sockets[s] = "open"
    BY <1>7 DEF SocketDies, fields, history
  <2> QED BY <1>0, <2>1, <2>2 DEF SocketsOK, NoStraySocket, GenerationNamesOne, TypeOK, None
<1>8. ASSUME NEW s \in Sockets, SocketGone(s) PROVE SocketsInv'
  <2>1. \A t \in Sockets : sockets'[t] = IF t = s THEN "gone" ELSE sockets[t]
    BY <1>0, <1>8 DEF SocketGone, TypeOK
  <2>2. UNCHANGED <<connecting, dials, closed, generation, made>> /\ sockets[s] = "destroyed"
    BY <1>8 DEF SocketGone, history
  <2>3. socket' = IF socket = s THEN None ELSE socket
    BY <1>8 DEF SocketGone, FailAll, KeepAll
  <2> QED BY <1>0, <2>1, <2>2, <2>3 DEF SocketsOK, NoStraySocket, GenerationNamesOne, TypeOK, None
<1>9. ASSUME NEW s \in Sockets, NEW r \in Requests, NEW intact \in BOOLEAN,
             OnAnswer(s, r, intact)
      PROVE SocketsInv'
  BY <1>0, <1>9 DEF OnAnswer, history, SocketsOK, NoStraySocket, GenerationNamesOne
<1>10. ASSUME NEW s \in Sockets, OnBadFrame(s) PROVE SocketsInv'
  <2>1. /\ socket # None /\ FailAll(socket) /\ sockets' = [sockets EXCEPT ![socket] = "destroyed"]
        /\ UNCHANGED <<connecting, generation, closed, dials, made>>
    BY <1>10 DEF OnBadFrame, history
  <2>2. socket' = None
    BY <2>1 DEF FailAll
  <2> QED BY <1>0, <2>1, <2>2, LetGoSockets DEF SocketsOK, NoStraySocket, GenerationNamesOne
<1>11. ASSUME NEW r \in Requests, RequestTimeout(r) PROVE SocketsInv'
  BY <1>0, <1>11 DEF RequestTimeout, network, history, SocketsOK, NoStraySocket, GenerationNamesOne
<1>12. CASE UNCHANGED vars
  BY <1>0, <1>12 DEF vars, fields, network, history, SocketsOK, NoStraySocket, GenerationNamesOne
<1> QED
  BY <1>1, <1>2, <1>3, <1>4, <1>5, <1>6, <1>7, <1>8, <1>9, <1>10, <1>11, <1>12 DEF Next

----------------------------------------------------------------------------
(* The theorems. *)

LEMMA InitIInv == Init => IInv
<1> SUFFICES ASSUME Init PROVE IInv
  OBVIOUS
<1>1. TypeOK
  <2>1. dials \in 0..MaxDials
    BY BoundsAssumption DEF Init
  <2> QED BY <2>1 DEF Init, TypeOK, SocketStates, Outcomes
<1>2. RequestsInv
  BY DEF Init, RequestsInv, AwaitedIsPending, InFlightIsOwed
<1>3. SocketsInv
  BY DEF Init, SocketsInv, SocketsOK, NoStraySocket, ClosedHoldsNothing, GenerationNamesOne,
         Sockets, None
<1> QED BY <1>1, <1>2, <1>3 DEF IInv

\* The inductive invariant holds in every reachable state.
THEOREM Invariance == Spec => []IInv
<1>1. IInv /\ [Next]_vars => IInv'
  BY TypeStep, RequestsStep, SocketsStep DEF IInv
<1> QED BY InitIInv, <1>1, PTL DEF Spec

\* The fields of TcpTransport and its sockets keep their types.
THEOREM TypeCorrectness == Spec => []TypeOK
<1>1. IInv => TypeOK
  BY DEF IInv
<1> QED BY <1>1, Invariance, PTL

\* No caller waits on a request the pending map has lost.
THEOREM AwaitedArePending == Spec => []AwaitedIsPending
<1>1. IInv => AwaitedIsPending
  BY DEF IInv, RequestsInv
<1> QED BY <1>1, Invariance, PTL

\* Everything remembered of requests is awaited or owed, on the connection held.
THEOREM InFlightBelongs == Spec => []InFlightIsAccounted
<1>1. IInv => InFlightIsAccounted
  BY DEF IInv, RequestsInv, InFlightIsOwed, InFlightIsAccounted, InFlightOnCurrent, AbandonedIsOwed
<1> QED BY <1>1, Invariance, PTL

\* connect(), redial() and close() together never leave a socket behind.
THEOREM OneConnection == Spec => []OneSocket
<1>1. IInv => OneSocket
  BY DEF IInv, SocketsInv, OneSocket
<1> QED BY <1>1, Invariance, PTL

\* A generation names one connection for good.
THEOREM GenerationsDistinct == Spec => []GenerationNamesOne
<1>1. IInv => GenerationNamesOne
  BY DEF IInv, SocketsInv
<1> QED BY <1>1, Invariance, PTL

\* Only the end of its own connection tells a request it is lost.
THEOREM LostWithItsSocket == Spec => LostOnlyWithItsSocket
<1> DEFINE Allowed ==
      \A r \in Requests :
        outcome[r] = "waiting" /\ outcome'[r] = "lost"
          => sockets'[sentOn[r]] \in {"destroyed", "gone"}
<1>1. IInv /\ [Next]_vars => [Allowed]_vars
  <2> SUFFICES ASSUME IInv, Next, NEW r \in Requests, outcome[r] = "waiting", outcome'[r] = "lost"
               PROVE  sockets'[sentOn[r]] \in {"destroyed", "gone"}
    OBVIOUS
  <2>0. TypeOK /\ RequestsInv
    BY DEF IInv
  <2>1. socket \in Sockets /\ sentOn[r] = socket
    BY <2>0 DEF RequestsInv, AwaitedIsPending, InFlightIsOwed, TypeOK
  <2>2. ~KeepAll
    BY DEF KeepAll
  <2>3. ASSUME NEW c \in Callers, NEW given \in BOOLEAN, Redial(c, given)
        PROVE  sockets'[socket] = "destroyed"
    <3>1. JoinDial(c, [sockets EXCEPT ![socket] = "destroyed"]) /\ FailAll(socket)
      BY <2>2, <2>3 DEF Redial
    <3>2. connecting = None /\ sockets[socket] # "unused"
      BY <2>1 DEF IInv, SocketsInv, SocketsOK, None, Sockets
    <3>3. socket # dials + 1
      BY <2>0, <2>1, <3>2 DEF IInv, SocketsInv, SocketsOK, TypeOK, Sockets
    <3> QED BY <2>0, <2>1, <3>1, <3>3 DEF JoinDial, TypeOK
  <2>4. CASE Close
    BY <2>0, <2>1, <2>2, <2>4 DEF Close, TypeOK
  <2>5. ASSUME NEW s \in Sockets, SocketGone(s)
        PROVE  sockets'[socket] = "gone"
    BY <2>0, <2>1, <2>2, <2>5 DEF SocketGone, FailAll, TypeOK
  <2>6. ASSUME NEW s \in Sockets, OnBadFrame(s)
        PROVE  sockets'[socket] = "destroyed"
    BY <2>0, <2>1, <2>6 DEF OnBadFrame, TypeOK
  <2>7. ASSUME NEW s \in Sockets, NEW q \in Requests, NEW intact \in BOOLEAN, OnAnswer(s, q, intact)
        PROVE  FALSE
    BY <2>0, <2>7 DEF OnAnswer, TypeOK, Outcomes
  <2>8. ASSUME NEW q \in Requests, RequestTimeout(q)
        PROVE  FALSE
    BY <2>0, <2>8 DEF RequestTimeout, TypeOK
  <2>9. ASSUME NEW c \in Callers, NEW q \in Requests, SendAndReceive(c, q)
        PROVE  FALSE
    BY <2>0, <2>9 DEF SendAndReceive, TypeOK
  <2>10. ASSUME NEW s \in Sockets, DialConnected(s) \/ DialFailed(s) \/ SocketDies(s)
         PROVE  FALSE
    BY <2>10 DEF DialConnected, DialFailed, SocketDies, callers
  <2>11. ASSUME NEW c \in Callers, Connect(c)
         PROVE  FALSE
    BY <2>2, <2>11 DEF Connect
  <2> QED
    BY <2>1, <2>3, <2>4, <2>5, <2>6, <2>7, <2>8, <2>9, <2>10, <2>11 DEF Next
<1> QED BY <1>1, Invariance, PTL DEF Spec, LostOnlyWithItsSocket

\* A redial that names a connection fails only requests on that connection.
THEOREM RedialsOnlySeen == Spec => RedialDropsOnlySeen
<1> DEFINE Allowed ==
      \A c \in Callers :
        Redial(c, TRUE) => \A r \in pending \ pending' : made[sentOn[r]] = seen[c]
<1>1. IInv => [Allowed]_vars
  <2> SUFFICES ASSUME IInv, NEW c \in Callers, Redial(c, TRUE), NEW r \in pending, r \notin pending'
               PROVE  made[sentOn[r]] = seen[c]
    OBVIOUS
  <2>1. socket # None /\ seen[c] = generation
    BY DEF Redial, KeepAll
  <2>2. sentOn[r] = socket
    BY DEF IInv, RequestsInv, InFlightIsOwed
  <2> QED BY <2>1, <2>2 DEF IInv, SocketsInv, SocketsOK
<1> QED BY <1>1, Invariance, PTL DEF RedialDropsOnlySeen

----------------------------------------------------------------------------
(* Transport implements Connection. *)

Statuses == [r \in Requests |-> Status(r)]

\* failAll on the socket held lets the abstract connection go.
LEMMA FailAllLetsGo ==
  ASSUME TypeOK, RequestsInv, socket \in Sockets, FailAll(socket)
  PROVE  Promised!LetGo
<1>1. socket' = None /\ \A r \in Requests : outcome'[r] = IF r \in pending THEN "lost" ELSE outcome[r]
  BY DEF FailAll
<1>2. \A r \in Requests : outcome[r] = "waiting" <=> r \in pending
  BY DEF RequestsInv, AwaitedIsPending
<1>3. Statuses' = [r \in Requests |-> IF Statuses[r] = "waiting" THEN "settled" ELSE Statuses[r]]
  BY <1>1, <1>2 DEF Statuses, Status
<1> QED BY <1>1, <1>3 DEF Promised!LetGo, Statuses

\* With no connection held there is nothing to let go.
LEMMA NothingToLetGo ==
  ASSUME RequestsInv, socket = None, KeepAll
  PROVE  Promised!LetGo
<1>1. \A r \in Requests : outcome[r] # "waiting"
  BY DEF RequestsInv, AwaitedIsPending, InFlightIsOwed
<1>2. Statuses' = [r \in Requests |-> IF Statuses[r] = "waiting" THEN "settled" ELSE Statuses[r]]
  BY <1>1 DEF Statuses, Status, KeepAll
<1> QED BY <1>2 DEF Promised!LetGo, Statuses, KeepAll

\* One request's promise settling, the rest unchanged.
LEMMA OneSettles ==
  ASSUME TypeOK, NEW r \in Requests, NEW o \in Outcomes \ {"unsent", "waiting"},
         outcome[r] \in {"unsent", "waiting"}, outcome' = [outcome EXCEPT ![r] = o]
  PROVE  Statuses' = [Statuses EXCEPT ![r] = "settled"]
BY DEF Statuses, Status, TypeOK, Outcomes

LEMMA StepImplements == IInv /\ [Next]_vars => [Promised!Next]_(Promised!vars)
<1> SUFFICES ASSUME IInv, [Next]_vars PROVE Promised!Next \/ UNCHANGED Promised!vars
  OBVIOUS
<1>0. TypeOK /\ RequestsInv /\ SocketsInv
  BY DEF IInv
<1>s. ASSUME UNCHANGED outcome PROVE Statuses' = Statuses
  BY <1>s DEF Statuses, Status
<1>r. ASSUME KeepAll, closed' = FALSE, UNCHANGED <<generation, closeCount>>
      PROVE  Promised!Reopen
  BY <1>r, <1>s DEF Promised!Reopen, KeepAll, Statuses
<1>d. ASSUME FailAll(socket), socket \in Sockets, closed' \in {closed, FALSE},
             UNCHANGED <<generation, closeCount>>
      PROVE  Promised!Drop
  <2>1. Promised!LetGo
    BY <1>0, <1>d, FailAllLetsGo
  <2>2. socket # None
    BY <1>d DEF Sockets, None
  <2> QED BY <1>d, <2>1, <2>2 DEF Promised!Drop
<1>u. ASSUME UNCHANGED <<outcome, socket, closed, generation, closeCount>>
      PROVE  UNCHANGED Promised!vars
  BY <1>u, <1>s DEF Promised!vars, Statuses
<1>1. ASSUME NEW c \in Callers, Connect(c) PROVE Promised!Next
  BY <1>1, <1>r DEF Connect, Promised!Next
<1>2. ASSUME NEW c \in Callers, NEW given \in BOOLEAN, Redial(c, given) PROVE Promised!Next
  <2>1. CASE socket # None /\ (~given \/ seen[c] = generation)
    <3>1. FailAll(socket) /\ socket \in Sockets
      BY <1>0, <1>2, <2>1 DEF Redial, TypeOK
    <3> QED BY <1>2, <1>d, <3>1 DEF Redial, Promised!Next
  <2>2. CASE ~(socket # None /\ (~given \/ seen[c] = generation))
    BY <1>2, <2>2, <1>r DEF Redial, Promised!Next
  <2> QED BY <2>1, <2>2
<1>3. ASSUME NEW c \in Callers, NEW r \in Requests, SendAndReceive(c, r) PROVE Promised!Next
  <2>1. outcome[r] = "unsent" /\ UNCHANGED <<socket, closed, generation, closeCount>>
    BY <1>3 DEF SendAndReceive
  <2>2. CASE outcome' = [outcome EXCEPT ![r] = "refused"]
    <3>1. Statuses' = [Statuses EXCEPT ![r] = "settled"]
      BY <1>0, <2>1, <2>2, OneSettles DEF Outcomes
    <3>2. Promised!Refuse(r)
      BY <2>1, <3>1 DEF Promised!Refuse, Statuses, Status
    <3> QED BY <3>2 DEF Promised!Next
  <2>3. CASE IsConnected /\ outcome' = [outcome EXCEPT ![r] = "waiting"]
    <3>1. Statuses' = [Statuses EXCEPT ![r] = "waiting"]
      BY <1>0, <2>1, <2>3 DEF Statuses, Status, TypeOK
    <3>2. Promised!Send(r)
      BY <2>1, <2>3, <3>1 DEF Promised!Send, Statuses, Status, IsConnected
    <3> QED BY <3>2 DEF Promised!Next
  <2> QED BY <1>3, <2>2, <2>3 DEF SendAndReceive
<1>4. CASE Close
  <2>1. Promised!LetGo
    <3>1. CASE socket # None
      BY <1>0, <1>4, <3>1, FailAllLetsGo DEF Close, TypeOK
    <3>2. CASE socket = None
      BY <1>0, <1>4, <3>2, NothingToLetGo DEF Close
    <3> QED BY <3>1, <3>2
  <2> QED BY <1>4, <2>1 DEF Close, Promised!Close, Promised!Next
<1>5. ASSUME NEW s \in Sockets, DialConnected(s) PROVE Promised!Next \/ UNCHANGED Promised!vars
  <2>1. CASE closed
    BY <1>5, <1>u, <2>1 DEF DialConnected
  <2>2. CASE ~closed
    <3>1. socket = None /\ socket' # None /\ Statuses' = Statuses
      BY <1>0, <1>5, <1>s, <2>2 DEF DialConnected, SocketsInv, NoStraySocket, Sockets, None
    <3>2. Promised!Open
      BY <1>5, <2>2, <3>1 DEF DialConnected, Promised!Open, Statuses
    <3> QED BY <3>2 DEF Promised!Next
  <2> QED BY <2>1, <2>2
<1>6. ASSUME NEW s \in Sockets, DialFailed(s) \/ SocketDies(s) PROVE UNCHANGED Promised!vars
  BY <1>6, <1>u DEF DialFailed, SocketDies, fields, callers
<1>8. ASSUME NEW s \in Sockets, SocketGone(s) PROVE Promised!Next \/ UNCHANGED Promised!vars
  <2>1. CASE socket = s
    BY <1>8, <1>d, <2>1 DEF SocketGone, Promised!Next
  <2>2. CASE socket # s
    BY <1>8, <1>u, <2>2 DEF SocketGone, FailAll, KeepAll
  <2> QED BY <2>1, <2>2
<1>9. ASSUME NEW s \in Sockets, NEW r \in Requests, NEW intact \in BOOLEAN,
             OnAnswer(s, r, intact)
      PROVE Promised!Next \/ UNCHANGED Promised!vars
  <2>1. UNCHANGED <<socket, closed, generation, closeCount>>
    BY <1>9 DEF OnAnswer
  <2>2. CASE r \in pending
    <3>1. outcome[r] = "waiting"
      BY <1>0, <2>2 DEF RequestsInv, AwaitedIsPending
    <3>2. Statuses' = [Statuses EXCEPT ![r] = "settled"]
      BY <1>0, <1>9, <2>2, <3>1, OneSettles DEF OnAnswer, Outcomes
    <3>3. Promised!Settle(r)
      BY <2>1, <3>1, <3>2 DEF Promised!Settle, Statuses, Status
    <3> QED BY <3>3 DEF Promised!Next
  <2>3. CASE r \notin pending
    BY <1>9, <1>u, <2>1, <2>3 DEF OnAnswer
  <2> QED BY <2>2, <2>3
<1>10. ASSUME NEW s \in Sockets, OnBadFrame(s) PROVE Promised!Next
  <2>1. FailAll(socket) /\ socket \in Sockets
    BY <1>0, <1>10 DEF OnBadFrame, TypeOK
  <2> QED BY <1>10, <1>d, <2>1 DEF OnBadFrame, Promised!Next
<1>11. ASSUME NEW r \in Requests, RequestTimeout(r) PROVE Promised!Next
  <2>1. outcome[r] = "waiting"
    BY <1>0, <1>11 DEF RequestTimeout, RequestsInv, AwaitedIsPending
  <2>2. Statuses' = [Statuses EXCEPT ![r] = "settled"]
    BY <1>0, <1>11, <2>1, OneSettles DEF RequestTimeout, Outcomes
  <2>3. Promised!Settle(r)
    BY <1>11, <2>1, <2>2 DEF RequestTimeout, Promised!Settle, Statuses, Status
  <2> QED BY <2>3 DEF Promised!Next
<1>12. CASE UNCHANGED vars
  BY <1>12, <1>u DEF vars, fields, callers
<1> QED
  BY <1>1, <1>2, <1>3, <1>4, <1>5, <1>6, <1>8, <1>9, <1>10, <1>11, <1>12 DEF Next

\* Every behaviour of the transport is one Connection allows: requests wait
\* only on a held connection and fail together when it is let go, generations
\* count the connections, and nothing opens while closed.
THEOREM ImplementsConnection == Spec => Promised!Spec
<1>1. Init => Promised!Init
  BY DEF Init, Promised!Init, Status, None
<1> QED BY <1>1, StepImplements, Invariance, PTL DEF Spec, Promised!Spec

=============================================================================
