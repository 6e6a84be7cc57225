---------------------------- MODULE StreamWorker ----------------------------
(***************************************************************************)
(* packages/node/src/stream-worker.ts: a worker's runs over a consumer     *)
(* group: joining, reading batches, waiting for handler slots, handing     *)
(* back what a stop kept from starting, recovering a dropped connection,   *)
(* draining, and heartbeats that may be several at once.  A worker given   *)
(* its client shares it: it stays open between runs, its owner may close   *)
(* and reopen it, and a heartbeat of one run may be answered in the next.  *)
(*                                                                         *)
(* The server reads a connection's requests in order; a worker goes on     *)
(* with an answer before it takes the next.  What was written on a         *)
(* connection since dropped the server may read at any time later, and the *)
(* client sends a request refused as not run once more, after a wait (as   *)
(* if with maxAttempts 2).  The group read is a long poll, answered        *)
(* whenever the server likes.  How a result, a hand-back or a drain notice *)
(* gets through is ResultDelivery's and ActionWorker's matter: here they   *)
(* only end.                                                               *)
(***************************************************************************)
EXTENDS Naturals, Sequences, SequencesExt, FiniteSets, FiniteSetsExt

CONSTANTS
  Concurrency,   \* config.concurrency
  BatchSize,     \* config.batchSize
  Records,       \* bound: deliveries the worker may hold at once
  Resent,        \* requests the client resends when they are refused as not run
  LateReads,     \* requests the server may read after their connection is
                 \* dropped (bound: one of a kind at a time)
  MaxBeats,      \* bound: heartbeats out at once
  MaxOrphans     \* bound: requests given up on that the server may still read

\* The requests start() awaits one at a time, by the state it awaits them in,
\* and those of heartbeats; which of them change the registry.
Asking == {"join", "register", "deregister", "leave"}
Beating == {"heartbeat", "reregister"}
Changing == {"register", "reregister", "deregister"}

ASSUME StreamWorkerAssumption ==
  /\ Concurrency \in Nat \ {0} /\ BatchSize \in Nat \ {0}
  /\ Records \subseteq Nat /\ IsFiniteSet(Records)
  /\ Resent \subseteq Asking \cup Beating /\ LateReads \subseteq Changing
  /\ MaxBeats \in Nat /\ MaxOrphans \in Nat

VARIABLES
  owned,      \* ownedClient, and closedSince's client.closes() against clientCloses
  at,         \* where start() is
  stop,       \* stopRequested
  draining, noticeDue,
  beating,    \* heartbeatTimer is set: the first joinGroup is past
  unproven,   \* pollLoop's unproven: no read succeeded since the last redial
  batch,      \* result.records not dispatched yet
  active,     \* pendingTasks: the records whose processRecord runs
  handing,    \* the records of a handBack under way
  owed,       \* history: records read that are neither reported nor handed back
  held,       \* the client holds a connection
  closed,     \* the client was closed (or never connected)
  reclosed,   \* the owner closed the client since start() read closes()
  wire,       \* requests of the connection the server has not read
  backoff,    \* how many of each the client is to resend after a wait
  late,       \* requests of dropped connections the server may still read
  registry,   \* the server's entry for the worker
  parted      \* history: the last run's deregister was answered

flags   == <<stop, draining, noticeDue>>
records == <<batch, active, handing, owed>>
client  == <<owned, held, closed, reclosed>>
sent    == <<backoff, late>>
vars    == <<at, flags, beating, unproven, records, client, wire, sent, registry, parted>>

RunStates == Asking \cup
  {"idle", "connecting", "joinWait", "registerWait", "looping", "slotWait", "reading",
   "pausing", "unprovenPause", "redialing", "dispatching", "handing",
   "notice", "ticking", "finishing"}

\* Never more handlers than slots, and a batch only while it is dispatched.
TypeOK ==
  /\ at \in RunStates
  /\ {owned, stop, draining, noticeDue, beating, unproven, held, closed, reclosed, parted} \subseteq BOOLEAN
  /\ batch \in Seq(Records) /\ Len(batch) <= BatchSize
  /\ active \subseteq Records /\ Cardinality(active) <= Concurrency
  /\ handing \subseteq Records /\ owed \subseteq Records
  /\ (batch # <<>>) = (at = "dispatching")
  /\ wire \in Seq([op : Asking \cup Beating, live : BOOLEAN, again : BOOLEAN])
  /\ backoff \in [Asking \cup Beating -> Nat] /\ late \subseteq LateReads
  /\ registry \in {"none", "active", "draining"}

Init ==
  /\ owned \in BOOLEAN
  /\ at = "idle"
  /\ stop = FALSE /\ draining = FALSE /\ noticeDue = FALSE
  /\ beating = FALSE /\ unproven = FALSE
  /\ batch = <<>> /\ active = {} /\ handing = {} /\ owed = {}
  /\ closed = owned /\ held = ~owned /\ reclosed = FALSE
  /\ wire = <<>> /\ backoff = [op \in Asking \cup Beating |-> 0] /\ late = {}
  /\ registry = "none" /\ parted = FALSE

----------------------------------------------------------------------------
(* Helpers *)

Leaving == stop \/ draining
ClosedSince == closed \/ reclosed

\* Mutant: running is cleared once the worker left, not before it deregisters.
RunningToTheEnd == at # "idle"

\* this.running.
Running == at \notin {"idle", "deregister", "leave"}

\* The requests of wire that are awaited by start(), or by heartbeats.
Awaited(ops) == {i \in DOMAIN wire : wire[i].live /\ wire[i].op \in ops}
Beats == Cardinality(Awaited(Beating)) + backoff["heartbeat"] + backoff["reregister"]

Request(op, again) == [op |-> op, live |-> TRUE, again |-> again]

\* start() writes op after w and awaits it: without a connection it is lost.
AskAfter(op, w) ==
  /\ at' = op
  /\ wire' = IF held THEN Append(w, Request(op, FALSE)) ELSE w
Ask(op) == AskAfter(op, wire)

\* The connection is gone, with w on it that the server has not read: it comes
\* late, if at all.
DropConnection(w) ==
  /\ held' = FALSE
  /\ wire' = <<>>
  /\ late' = late \cup ({m.op : m \in ToSet(w)} \cap LateReads)

BeginDrain ==
  /\ noticeDue' = (noticeDue \/ ~draining)
  /\ draining' = TRUE
  /\ UNCHANGED stop

\* The end of start(): the client it owns closed, endRun().
EndRunAfter(w) ==
  /\ at' = "idle"
  /\ stop' = FALSE /\ draining' = FALSE /\ noticeDue' = FALSE
  /\ beating' = FALSE /\ unproven' = FALSE
  /\ IF owned
     THEN DropConnection(w) /\ closed' = TRUE
     ELSE wire' = w /\ UNCHANGED <<held, closed, late>>
  /\ UNCHANGED <<owned, reclosed>>

----------------------------------------------------------------------------
(* start(), joinGroup and recover *)

\* With a client of its own it connects first; else a stop asked for before
\* it ends the run here.
Start ==
  /\ at = "idle"
  /\ parted' = FALSE /\ reclosed' = FALSE
  /\ \/ owned /\ at' = "connecting" /\ closed' = FALSE /\ UNCHANGED <<flags, held, wire>>
     \/ /\ ~owned /\ stop /\ stop' = FALSE /\ draining' = FALSE /\ noticeDue' = FALSE
        /\ UNCHANGED <<at, closed, held, wire>>
     \/ /\ ~owned /\ ~stop /\ UNCHANGED <<flags, closed, held>>
        /\ IF draining THEN at' = "finishing" /\ UNCHANGED wire ELSE Ask("join")
  /\ UNCHANGED <<owned, beating, unproven, records, sent, registry>>

Connected ==
  /\ at = "connecting"
  /\ \/ (stop \/ ~held) /\ EndRunAfter(wire)
     \/ /\ ~stop /\ held
        /\ IF draining THEN at' = "finishing" /\ UNCHANGED wire ELSE Ask("join")
        /\ UNCHANGED <<flags, beating, unproven, client, late>>
  /\ UNCHANGED <<records, backoff, registry, parted>>

\* joinGroup is over, by a leave or an error: a first one ends the run, in
\* recover the loop goes on.
JoinOver == at' = IF beating THEN "looping" ELSE "finishing"

JoinWaitOver ==
  /\ at \in {"joinWait", "registerWait"}
  /\ IF Leaving THEN JoinOver /\ UNCHANGED wire
     ELSE Ask(IF at = "joinWait" THEN "join" ELSE "register")
  /\ UNCHANGED <<flags, beating, unproven, records, client, sent, registry, parted>>

\* What start() does with answer a to its request op; w is the wire after it.
RunAnswered(op, a, w) ==
  \/ /\ op = "join" /\ a = "ok" /\ AskAfter("register", w)
     /\ UNCHANGED <<flags, beating, unproven, client, late, parted>>
  \/ /\ op = "register" /\ a = "ok" /\ at' = "looping" /\ beating' = TRUE /\ wire' = w
     /\ UNCHANGED <<flags, unproven, client, late, parted>>
  \/ /\ op \in {"join", "register"} /\ a = "halted" /\ at' = (IF op = "join" THEN "joinWait" ELSE "registerWait") /\ wire' = w
     /\ UNCHANGED <<flags, beating, unproven, client, late, parted>>
  \/ /\ op = "join" /\ a = "unrun" /\ at' = "joinWait" /\ wire' = w
     /\ UNCHANGED <<flags, beating, unproven, client, late, parted>>
  \/ /\ op \in {"join", "register"} /\ a = "pending" /\ at' = "finishing" /\ wire' = w
     /\ UNCHANGED <<flags, beating, unproven, client, late, parted>>
  \/ <<op, a>> \in {<<"join", "refused">>, <<"join", "lost">>, <<"register", "refused">>,
                   <<"register", "lost">>, <<"register", "unrun">>}
     /\ JoinOver /\ wire' = w
     /\ UNCHANGED <<flags, beating, unproven, client, late, parted>>
  \/ /\ op = "deregister" /\ AskAfter("leave", w) /\ parted' = (a = "ok")
     /\ UNCHANGED <<flags, beating, unproven, client, late>>
  \/ op = "leave" /\ EndRunAfter(w) /\ UNCHANGED parted

\* Its request is lost with the connection, or its timer fired.
RunLost ==
  /\ at \in Asking /\ Awaited(Asking) = {} /\ backoff[at] = 0
  /\ RunAnswered(at, "lost", wire)
  /\ UNCHANGED <<records, backoff, registry>>

----------------------------------------------------------------------------
(* pollLoop *)

\* Mutant: a handler counts as active only once it is done.
FreeSlotsUncounted == Concurrency

FreeSlots == Concurrency - Cardinality(active)

\* The loop's head: leave, wait for a slot, or read.
Loop ==
  /\ at = "looping"
  /\ at' = IF draining /\ ~stop
           THEN IF noticeDue THEN "notice" ELSE IF active = {} THEN "finishing" ELSE "ticking"
           ELSE IF stop THEN "finishing"
           ELSE IF FreeSlots <= 0 THEN "slotWait" ELSE "reading"
  /\ UNCHANGED <<flags, beating, unproven, records, client, wire, sent, registry, parted>>

\* A wait of the loop's is over (those for a backoff end with a leave too).
WaitOver ==
  /\ at \in {"slotWait", "pausing", "unprovenPause"}
  /\ at' = IF at = "unprovenPause" /\ ~Leaving THEN "redialing" ELSE "looping"
  /\ UNCHANGED <<flags, beating, unproven, records, client, wire, sent, registry, parted>>

\* groupRead answers the next records, whether leaving or not by then.
ReadRecords ==
  /\ at = "reading" /\ held
  /\ \E n \in 1..Cardinality(Records \ owed) :
       /\ n <= BatchSize
       /\ batch' = SubSeq(SetToSeq(Records \ owed), 1, n)
  /\ owed' = owed \cup ToSet(batch')
  /\ at' = "dispatching"
  /\ unproven' = FALSE
  /\ UNCHANGED <<flags, beating, active, handing, client, wire, sent, registry, parted>>

\* An empty read paces the next one, or not.
ReadEmpty ==
  /\ at = "reading" /\ held
  /\ at' \in {"pausing", "looping"}
  /\ unproven' = FALSE
  /\ UNCHANGED <<flags, beating, records, client, wire, sent, registry, parted>>

\* Refused: outcome_pending is thrown, anything else waited out.
ReadRefused ==
  /\ at = "reading" /\ held
  /\ at' \in (IF Leaving THEN {"looping"} ELSE {"pausing", "finishing"})
  /\ UNCHANGED <<flags, beating, unproven, records, client, wire, sent, registry, parted>>

\* The connection is gone, or the read timed out: redialed, after a wait if
\* no read succeeded since the last redial.  The connection the read went on
\* is dropped, if it is still the one held.
ReadLost ==
  /\ at = "reading"
  /\ at' = IF Leaving THEN "looping" ELSE IF unproven THEN "unprovenPause" ELSE "redialing"
  /\ \/ ~Leaving /\ DropConnection(wire)
     \/ UNCHANGED <<held, wire, late>>
  /\ UNCHANGED <<flags, beating, unproven, records, owned, closed, reclosed, backoff, registry, parted>>

\* reconnect, in recover: once it is over every way leads on, and the next
\* loss waits first.
Redialed ==
  /\ at = "redialing" /\ held /\ ~Leaving /\ ~ClosedSince
  /\ unproven' = TRUE
  /\ Ask("join")
  /\ UNCHANGED <<flags, beating, records, client, sent, registry, parted>>

\* Mutant: only the owner's close ends a redial.
RedialOutlastsLeave ==
  /\ at = "redialing" /\ ClosedSince
  /\ stop' = TRUE
  /\ unproven' = TRUE
  /\ at' = "looping"
  /\ UNCHANGED <<draining, noticeDue, beating, records, client, wire, sent, registry, parted>>

\* A leave ends it, or the owner's close, which stops the worker.
RedialGivenUp ==
  /\ at = "redialing" /\ (Leaving \/ ClosedSince)
  /\ stop' = (stop \/ ClosedSince)
  /\ unproven' = TRUE
  /\ at' = "looping"
  /\ UNCHANGED <<draining, noticeDue, beating, records, client, wire, sent, registry, parted>>

\* Mutant: the record that waited for a slot is not among the rest.
UndispatchedButOne == ToSet(Tail(batch))

\* result.records.slice(dispatched).
Undispatched == ToSet(batch)

\* As many records as there are slots start at once; a stop hands back those
\* that wait for one.
Dispatch ==
  /\ at = "dispatching"
  /\ \/ /\ stop
        /\ handing' = Undispatched /\ batch' = <<>>
        /\ at' = "handing"
        /\ UNCHANGED active
     \/ /\ ~stop /\ FreeSlots > 0
        /\ LET n == Min({FreeSlots, Len(batch)})
           IN  /\ active' = active \cup ToSet(SubSeq(batch, 1, n))
               /\ batch' = SubSeq(batch, n + 1, Len(batch))
               /\ at' = IF n = Len(batch) THEN "looping" ELSE at
        /\ UNCHANGED handing
  /\ UNCHANGED <<flags, beating, unproven, owed, client, wire, sent, registry, parted>>

\* The nack is delivered or given up: the group hands its records out again.
HandedBack ==
  /\ at = "handing"
  /\ owed' = owed \ handing /\ handing' = {}
  /\ at' = "looping"
  /\ UNCHANGED <<flags, beating, unproven, batch, active, client, wire, sent, registry, parted>>

\* processRecord is over: its handler ended, by its timeout at the latest, and
\* its ack or nack with it.
TaskEnds(r) ==
  /\ r \in active
  /\ active' = active \ {r} /\ owed' = owed \ {r}
  /\ UNCHANGED <<at, flags, beating, unproven, batch, handing, client, wire, sent, registry, parted>>

----------------------------------------------------------------------------
(* finishDrain, and the end of start() *)

\* The run's own notice is settled, or left to be sent again.
NoticeOver ==
  /\ at = "notice"
  /\ noticeDue' \in {FALSE, noticeDue /\ ~stop}
  /\ at' = IF active = {} \/ stop THEN "finishing" ELSE "ticking"
  /\ UNCHANGED <<stop, draining, beating, unproven, records, client, wire, sent, registry, parted>>

\* A second passed, a task ended, or a stop.
Tick ==
  /\ at = "ticking"
  /\ at' = IF noticeDue THEN "notice" ELSE IF active = {} \/ stop THEN "finishing" ELSE at
  /\ UNCHANGED <<flags, beating, unproven, records, client, wire, sent, registry, parted>>

\* The last task is over: heartbeats stop, and the worker leaves.
TasksFinished ==
  /\ at = "finishing" /\ active = {}
  /\ beating' = FALSE
  /\ Ask("deregister")
  /\ UNCHANGED <<flags, unproven, records, client, sent, registry, parted>>

----------------------------------------------------------------------------
(* stop(), close(), drain() and heartbeats *)

Stop ==
  /\ stop' = TRUE
  /\ UNCHANGED <<at, draining, noticeDue, beating, unproven, records, client, wire, sent, registry, parted>>

\* close() of a worker that owns its client.
Close ==
  /\ owned /\ at # "idle"
  /\ stop' = TRUE
  /\ closed' = TRUE /\ DropConnection(wire)
  /\ UNCHANGED <<at, draining, noticeDue, beating, unproven, records, owned, reclosed, backoff, registry, parted>>

Drain ==
  /\ BeginDrain
  /\ UNCHANGED <<at, beating, unproven, records, client, wire, sent, registry, parted>>

\* A notice of drain()'s or of a heartbeat's is settled.
NoticeSettled ==
  /\ noticeDue /\ Running
  /\ noticeDue' = FALSE
  /\ UNCHANGED <<at, stop, draining, beating, unproven, records, client, wire, sent, registry, parted>>

\* The interval passed; earlier heartbeats may be out still.
Beat ==
  /\ beating /\ Running
  /\ held /\ Beats < MaxBeats
  /\ wire' = Append(wire, Request("heartbeat", FALSE))
  /\ UNCHANGED <<at, flags, beating, unproven, records, client, sent, registry, parted>>

\* A worker the server removed registers again, while a run is under way; a
\* drained one drains.
HeartbeatAnswered(a, w) ==
  /\ wire' = IF a = "notFound" /\ Running /\ held
             THEN Append(w, Request("reregister", FALSE)) ELSE w
  /\ IF a = "draining" /\ ~draining THEN BeginDrain ELSE UNCHANGED flags

\* Registered again: a draining worker's notice is due again.
ReregisterAnswered(a, w) ==
  /\ noticeDue' = (noticeDue \/ (a = "ok" /\ draining))
  /\ wire' = w
  /\ UNCHANGED <<stop, draining>>

----------------------------------------------------------------------------
(* External: the server, the network, the client's owner *)

\* What the worker may be told of m: that it was not run, once the client has
\* sent it as often as it does.
Answers(m) ==
  CASE m.op \in {"join", "register"} ->
         {"ok", "halted", "pending", "refused"} \cup (IF m.op \in Resent /\ ~m.again THEN {} ELSE {"unrun"})
    [] m.op = "heartbeat" -> IF registry = "none" THEN {"notFound"} ELSE {registry, "refused"}
    [] OTHER -> {"ok", "refused"}

RegistryAfter(op, a) ==
  IF a # "ok" THEN registry
  ELSE IF op \in {"register", "reregister"} THEN "active"
  ELSE IF op = "deregister" THEN "none" ELSE registry

\* The server reads the oldest request, and the worker goes on with its answer.
ServerReads ==
  /\ wire # <<>>
  /\ LET m == Head(wire)  w == Tail(wire)
     IN \E a \in Answers(m) :
          /\ registry' = RegistryAfter(m.op, a)
          /\ \/ /\ ~m.live /\ wire' = w
                /\ UNCHANGED <<at, flags, beating, unproven, client, late, parted>>
             \/ m.live /\ m.op \in Asking /\ RunAnswered(m.op, a, w)
             \/ /\ m.live /\ m.op = "heartbeat" /\ HeartbeatAnswered(a, w)
                /\ UNCHANGED <<at, beating, unproven, client, late, parted>>
             \/ /\ m.live /\ m.op = "reregister" /\ ReregisterAnswered(a, w)
                /\ UNCHANGED <<at, beating, unproven, client, late, parted>>
  /\ UNCHANGED <<records, backoff>>

\* It reads what was written on a connection since dropped: nobody is told.
ServerReadsLate ==
  \E op \in late :
    /\ registry' = RegistryAfter(op, "ok")
    /\ late' = late \ {op}
    /\ UNCHANGED <<at, flags, beating, unproven, records, client, wire, backoff, parted>>

\* It refuses the oldest request unrun, and the client is to send it again.
ServerRefusesUnrun ==
  /\ wire # <<>> /\ Head(wire).live /\ Head(wire).op \in Resent /\ ~Head(wire).again
  /\ wire' = Tail(wire)
  /\ backoff' = [backoff EXCEPT ![Head(wire).op] = @ + 1]
  /\ UNCHANGED <<at, flags, beating, unproven, records, client, late, registry, parted>>

\* The client's wait is over, whoever holds a connection by then.
Resend(op) ==
  /\ backoff[op] > 0
  /\ backoff' = [backoff EXCEPT ![op] = @ - 1]
  /\ wire' = IF held THEN Append(wire, Request(op, TRUE)) ELSE wire
  /\ UNCHANGED <<at, flags, beating, unproven, records, client, late, registry, parted>>

\* A request's timer fires: the server may read it still, which matters if it
\* changes the registry.
Timeout(i) ==
  /\ i \in DOMAIN wire /\ wire[i].live
  /\ wire' = IF wire[i].op \in Changing /\ Cardinality({j \in DOMAIN wire : ~wire[j].live}) < MaxOrphans
             THEN [wire EXCEPT ![i].live = FALSE] ELSE RemoveAt(wire, i)
  /\ UNCHANGED <<at, flags, beating, unproven, records, client, sent, registry, parted>>

\* The connection drops.
ConnectionEnds ==
  /\ held
  /\ DropConnection(wire)
  /\ UNCHANGED <<at, flags, beating, unproven, records, owned, closed, reclosed, backoff, registry, parted>>

\* Someone's dial succeeds: start()'s, recover()'s, a result's, or another
\* sharer's.
Dial ==
  /\ ~held /\ ~closed /\ (at # "idle" \/ ~owned)
  /\ held' = TRUE
  /\ UNCHANGED <<at, flags, beating, unproven, records, owned, closed, reclosed, wire, sent, registry, parted>>

\* The owner of a shared client closes it, and connects it again.
OwnerCloses ==
  /\ ~owned /\ ~closed
  /\ closed' = TRUE /\ reclosed' = (at # "idle") /\ DropConnection(wire)
  /\ UNCHANGED <<at, flags, beating, unproven, records, owned, backoff, registry, parted>>

OwnerConnects ==
  /\ ~owned /\ closed
  /\ closed' = FALSE /\ held' = TRUE
  /\ UNCHANGED <<at, flags, beating, unproven, records, owned, reclosed, wire, sent, registry, parted>>

\* A silent worker is removed; an operator drains one.
ServerForgets ==
  /\ registry # "none" /\ registry' = "none"
  /\ UNCHANGED <<at, flags, beating, unproven, records, client, wire, sent, parted>>

OperatorDrains ==
  /\ registry = "active" /\ registry' = "draining"
  /\ UNCHANGED <<at, flags, beating, unproven, records, client, wire, sent, parted>>

----------------------------------------------------------------------------
RunStep ==
  \/ Connected \/ JoinWaitOver \/ RunLost
  \/ Loop \/ WaitOver \/ ReadLost \/ Redialed \/ RedialGivenUp \/ Dispatch \/ HandedBack
  \/ NoticeOver \/ Tick \/ TasksFinished

Reads == ReadRecords \/ ReadEmpty \/ ReadRefused
Caller == Start \/ Stop \/ Close \/ Drain
Tasks == \E r \in Records : TaskEnds(r)
Server == ServerReads \/ ServerReadsLate \/ ServerRefusesUnrun \/ ServerForgets \/ OperatorDrains
Network ==
  \/ ConnectionEnds \/ Dial \/ \E i \in 1..(MaxBeats + MaxOrphans + 1) : Timeout(i)
  \/ \E op \in Resent : Resend(op)
Others == NoticeSettled \/ OwnerCloses \/ OwnerConnects

Next == RunStep \/ Reads \/ Caller \/ Tasks \/ Beat \/ Server \/ Network \/ Others

Spec == Init /\ [][Next]_vars

\* Awaits resume, timers fire, and handlers end by their timeout.  Nothing is
\* assumed of the server, the network or the client's owner.
Fairness ==
  /\ WF_vars(RunStep) /\ \A r \in Records : WF_vars(TaskEnds(r))
  /\ \A i \in 1..(MaxBeats + MaxOrphans + 1) : WF_vars(at \in Asking /\ i \in Awaited({at}) /\ Timeout(i))
  /\ \A op \in Asking : WF_vars(Resend(op))

FairSpec == Spec /\ Fairness

----------------------------------------------------------------------------
(* Properties *)

\* Every record read and not yet reported or handed back is in exactly one
\* place: waiting in its batch, in one handler, or in one hand-back.  None is
\* both started and handed back, and no leave, loss or error forgets one
\* (pollLoop, handBack, processRecord).
HeldOnce ==
  /\ owed = ToSet(batch) \cup active \cup handing
  /\ IsInjective(batch)
  /\ ToSet(batch) \cap active = {} /\ ToSet(batch) \cap handing = {} /\ active \cap handing = {}

\* Once the server took a run's deregister, and until the next start, nothing
\* registers the worker again but a request the client resent or the server
\* read after its connection was dropped: however many heartbeats are out, and
\* whichever run they were sent in, none does (running is cleared "Before
\* deregistering: a heartbeat answering after it mustn't register again").
GhostsAreLate ==
  [][parted /\ registry = "none" /\ registry' # "none"
       => late' # late \/ (wire # <<>> /\ Head(wire).again)]_vars

\* A stop or a drain ends the run it is asked in, whatever the server does.
LeavingEnds == Leaving /\ at # "idle" ~> at = "idle"
=============================================================================
