----------------------------- MODULE Connection -----------------------------
(***************************************************************************)
(* What the TCP transport promises the client, the workers and everything  *)
(* else that shares it, without sockets, dials, timers or maps:            *)
(*                                                                         *)
(*  - a request waits only while a connection is held, and all that wait   *)
(*    fail together in the step that lets the connection go;               *)
(*  - a new connection is a new generation, so two equal generations are   *)
(*    one and the same connection;                                         *)
(*  - nothing is opened while the transport is closed.                     *)
(*                                                                         *)
(* The module Transport implements this (ConnectionSpec there).            *)
(***************************************************************************)
EXTENDS Naturals

CONSTANT Requests

VARIABLES held,        \* a connection is held
          generation,  \* connections held so far
          closed,      \* closed by the owner, and not reopened since
          closeCount,  \* how often the owner closed it
          status       \* of each request: unsent, waiting or settled

vars == <<held, generation, closed, closeCount, status>>

Init ==
  /\ held = FALSE
  /\ generation = 0
  /\ closed = FALSE
  /\ closeCount = 0
  /\ status = [r \in Requests |-> "unsent"]

\* The connection is let go with every request waiting on it.
LetGo ==
  /\ held' = FALSE
  /\ status' = [r \in Requests |-> IF status[r] = "waiting" THEN "settled" ELSE status[r]]

Open ==
  /\ ~held /\ ~closed
  /\ held' = TRUE
  /\ generation' = generation + 1
  /\ UNCHANGED <<closed, closeCount, status>>

Drop ==
  /\ held
  /\ LetGo
  /\ closed' \in {closed, FALSE}
  /\ UNCHANGED <<generation, closeCount>>

Close ==
  /\ closed' = TRUE
  /\ closeCount' = closeCount + 1
  /\ LetGo
  /\ UNCHANGED generation

Reopen ==
  /\ closed' = FALSE
  /\ UNCHANGED <<held, generation, closeCount, status>>

Send(r) ==
  /\ held
  /\ status[r] = "unsent"
  /\ status' = [status EXCEPT ![r] = "waiting"]
  /\ UNCHANGED <<held, generation, closed, closeCount>>

Refuse(r) ==
  /\ status[r] = "unsent"
  /\ status' = [status EXCEPT ![r] = "settled"]
  /\ UNCHANGED <<held, generation, closed, closeCount>>

Settle(r) ==
  /\ status[r] = "waiting"
  /\ status' = [status EXCEPT ![r] = "settled"]
  /\ UNCHANGED <<held, generation, closed, closeCount>>

Next ==
  \/ Open \/ Drop \/ Close \/ Reopen
  \/ \E r \in Requests : Send(r) \/ Refuse(r) \/ Settle(r)

Spec == Init /\ [][Next]_vars

\* No caller waits for ever.
FairSpec == Spec /\ \A r \in Requests : WF_vars(Settle(r))
=============================================================================
