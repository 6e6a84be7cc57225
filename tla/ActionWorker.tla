---------------------------- MODULE ActionWorker ----------------------------
(***************************************************************************)
(* packages/node/src/action-worker.ts: a worker's runs, from start() to    *)
(* its return: registering, polling, recovering a dropped connection,      *)
(* draining, and the heartbeats and drain notices that go on beside it.    *)
(*                                                                         *)
(* Three chains of awaits run concurrently over the worker's client: the   *)
(* run itself, the heartbeat, and a caller's drain(). Each has at most one *)
(* request out. The server is external: it reads the requests of one       *)
(* connection in the order they were written (a long poll, which changes   *)
(* nothing, is answered whenever it likes), forgets a silent worker, marks *)
(* a registering one active, and lets an operator drain it.  What was      *)
(* written on a connection since dropped it may still read, at any time    *)
(* later (the client only rejects those who await it).                     *)
(*                                                                         *)
(* Results are delivered as ResultDelivery says; here a task only ends.    *)
(***************************************************************************)
EXTENDS Naturals, Sequences, SequencesExt, FiniteSets

CONSTANTS
  Concurrency,   \* config.concurrency
  Resent,        \* requests the client resends when they are refused as not run
  LateReads,     \* requests the server may read after their connection is
                 \* dropped (bound: one of a kind at a time)
  MaxOrphans     \* bound: requests given up on that the server may still read

\* The requests that change the registry.
Changing == {"register", "drain", "deregister"}

ASSUME WorkerAssumption ==
  /\ Concurrency \in Nat \ {0} /\ MaxOrphans \in Nat
  /\ IsFiniteSet(Resent) /\ LateReads \subseteq Changing

Chains == {"run", "beat", "call"}

VARIABLES
  at,         \* where each chain is
  stop,       \* stopRequested (and stopSignal)
  draining,   \* this.draining
  noticeDue,  \* this.noticeDue
  beating,    \* the heartbeat timer is set: registerThroughHalts is past
  tasks,      \* pendingTasks, their number
  held,       \* the client holds a connection
  closed,     \* the client was closed: close() on the worker, or no run
  wire,       \* requests of the connection the server has not read: by whom,
              \* which, and whether resent
  reply,      \* the answer each chain is about to go on with, or "none"
  backoff,    \* chains whose request the client resends after a wait
  registry,   \* the server's entry for the worker
  late,       \* requests of dropped connections the server may still read
  parted      \* history: the last run's deregister was answered

flags  == <<stop, draining, noticeDue>>
client == <<held, closed>>
server == <<registry, late, parted>>
vars   == <<at, flags, beating, tasks, client, wire, reply, backoff, server>>

RunStates == {"idle", "connecting", "actions", "register", "haltWait", "looping",
              "polling", "unhealthy", "pausing", "redialing", "drain",
              "noticeRedial", "ticking", "finishing", "deregister"}

\* A chain at one of these awaits the answer to that request.
Asking == {"actions", "register", "heartbeat", "drain", "deregister"}

TypeOK ==
  /\ at["run"] \in RunStates
  /\ at["beat"] \in {"none", "heartbeat", "register", "drain", "noticeRedial"}
  /\ at["call"] \in {"none", "drain", "noticeRedial"}
  /\ stop \in BOOLEAN /\ draining \in BOOLEAN /\ noticeDue \in BOOLEAN
  /\ beating \in BOOLEAN
  /\ tasks \in 0..Concurrency
  /\ held \in BOOLEAN /\ closed \in BOOLEAN
  /\ wire \in Seq([from : Chains \cup {"nobody"}, op : Asking, again : BOOLEAN])
  /\ reply \in [Chains -> {"none", "ok", "active", "draining", "notFound", "refused", "halted", "lost"}]
  /\ backoff \subseteq Chains
  /\ registry \in {"none", "active", "draining"}
  /\ late \subseteq LateReads
  /\ parted \in BOOLEAN

NoChain == [run |-> "idle", beat |-> "none", call |-> "none"]
NoReply == [c \in Chains |-> "none"]

Init ==
  /\ at = NoChain
  /\ stop = FALSE /\ draining = FALSE /\ noticeDue = FALSE
  /\ beating = FALSE
  /\ tasks = 0
  /\ held = FALSE /\ closed = TRUE
  /\ wire = <<>>
  /\ reply = NoReply
  /\ backoff = {}
  /\ registry = "none" /\ late = {} /\ parted = FALSE

----------------------------------------------------------------------------
(* Helpers *)

Leaving == stop \/ draining

\* Mutant: running is cleared once the worker deregistered, not before.
RunningToTheEnd == at["run"] # "idle"

\* this.running.
Running == at["run"] \notin {"idle", "deregister"}

\* The chain c goes on to where; its answer, if it had one, is used up.
Goto(c, where) ==
  /\ at' = [at EXCEPT ![c] = where]
  /\ reply' = [reply EXCEPT ![c] = "none"]

\* Chain c sends op and awaits its answer: lost at once with no connection.
Ask(c, op) ==
  /\ at' = [at EXCEPT ![c] = op]
  /\ wire' = IF held THEN Append(wire, [from |-> c, op |-> op, again |-> FALSE]) ELSE wire
  /\ reply' = [reply EXCEPT ![c] = IF held THEN "none" ELSE "lost"]

\* Where the requests of someone's are on the wire: one of a chain's at most.
Of(from) == {i \in DOMAIN wire : wire[i].from = from}
RoomForOrphan == Cardinality(Of("nobody")) < MaxOrphans

\* Nobody awaits the answer of chain c's request any more; the server may
\* read it still (past the bound it never does).
Orphaned(c) ==
  IF Of(c) = {} THEN wire
  ELSE LET i == CHOOSE j \in Of(c) : TRUE
       IN  IF RoomForOrphan THEN [wire EXCEPT ![i].from = "nobody"] ELSE RemoveAt(wire, i)

\* Chains awaiting an answer.
Awaiting == {c \in Chains : /\ reply[c] = "none"
                            /\ at[c] \in Asking \/ at[c] = "polling"}

\* The connection is let go; what the server has not read of it comes late, if
\* at all.
DropConnection ==
  /\ held' = FALSE
  /\ wire' = <<>>
  /\ late' = late \cup ({m.op : m \in ToSet(wire)} \cap LateReads)

\* What is in flight is lost to those who await it, but for a request that the
\* client is to resend.
LetGo ==
  /\ DropConnection
  /\ reply' = [c \in Chains |-> IF c \in Awaiting \ backoff THEN "lost" ELSE reply[c]]

\* Chain c, its request lost, drops the connection before it redials.
DropFor(c) ==
  /\ DropConnection
  /\ reply' = [d \in Chains |-> IF d = c THEN "none"
                                ELSE IF d \in Awaiting \ backoff THEN "lost"
                                ELSE reply[d]]

BeginDrain ==
  /\ noticeDue' = (noticeDue \/ ~draining)
  /\ draining' = TRUE
  /\ UNCHANGED stop

\* Mutant: a drain goes on until its notice is settled.
DrainedOnceTold == IF (tasks = 0 /\ ~noticeDue) \/ stop THEN "finishing" ELSE "ticking"

\* finishDrain after a notice, or with none due.
DrainedWhere == IF tasks = 0 \/ stop THEN "finishing" ELSE "ticking"

\* Where a chain goes after its notice.
NoticeOver(c) == Goto(c, IF c = "run" THEN DrainedWhere ELSE "none")

\* sendNotice, with noticeDue at due: awaited, or with a stop asked for
\* written and left alone.
SendNotice(c, due) ==
  \/ /\ ~stop
     /\ Ask(c, "drain")
     /\ noticeDue' = due
  \/ /\ stop
     /\ NoticeOver(c)
     /\ wire' = IF held /\ RoomForOrphan
                THEN Append(wire, [from |-> "nobody", op |-> "drain", again |-> FALSE]) ELSE wire
     /\ noticeDue' = FALSE

\* The end of start(): the client closed, endRun().
EndRun ==
  /\ at' = NoChain
  /\ stop' = FALSE /\ draining' = FALSE /\ noticeDue' = FALSE
  /\ beating' = FALSE
  /\ DropConnection /\ closed' = TRUE
  /\ reply' = NoReply
  /\ backoff' = {}

----------------------------------------------------------------------------
(* start(), to registered *)

Start ==
  /\ at["run"] = "idle"
  /\ Goto("run", "connecting")
  /\ closed' = FALSE
  /\ parted' = FALSE
  /\ UNCHANGED <<flags, beating, tasks, held, wire, backoff, registry, late>>

\* connect() returned; a stop meanwhile ends the run, a drain not yet.
Connected ==
  /\ at["run"] = "connecting" /\ held
  /\ \/ stop /\ EndRun
     \/ /\ ~stop
        /\ Ask("run", "actions")
        /\ UNCHANGED <<flags, beating, held, closed, backoff, late>>
  /\ UNCHANGED <<tasks, registry, parted>>

ConnectFailed ==
  /\ at["run"] = "connecting" /\ ~held
  /\ EndRun
  /\ UNCHANGED <<tasks, registry, parted>>

\* register(), in registerThroughHalts or (the timer set) in recover: each
\* action, then the worker.
ActionsRegistered ==
  /\ at["run"] = "actions" /\ reply["run"] = "ok"
  /\ Ask("run", "register")
  /\ UNCHANGED <<flags, beating, tasks, client, backoff, server>>

WorkerRegistered ==
  /\ at["run"] = "register" /\ reply["run"] = "ok"
  /\ Goto("run", "looping")
  /\ beating' = TRUE
  /\ UNCHANGED <<flags, tasks, client, wire, backoff, server>>

\* A halt is waited out at startup; a refusal ends the run then, and is left
\* to the next poll in recover, but for an outcome_pending one.
RegisterFailed ==
  /\ at["run"] \in {"actions", "register"}
  /\ reply["run"] \in {"refused", "halted", "lost"}
  /\ IF beating
     THEN \/ Goto("run", "looping")
          \/ reply["run"] = "refused" /\ Goto("run", "finishing")
     ELSE Goto("run", IF reply["run"] = "halted" THEN "haltWait" ELSE "finishing")
  /\ UNCHANGED <<flags, beating, tasks, client, wire, backoff, server>>

\* Mutant: a stop is not looked for after the wait.
HaltWaitRepeats ==
  /\ at["run"] = "haltWait"
  /\ Ask("run", "actions")
  /\ UNCHANGED <<flags, beating, tasks, client, backoff, server>>

HaltWaitOver ==
  /\ at["run"] = "haltWait"
  /\ \/ Leaving /\ Goto("run", "finishing") /\ UNCHANGED wire
     \/ ~Leaving /\ Ask("run", "actions")
  /\ UNCHANGED <<flags, beating, tasks, client, backoff, server>>

----------------------------------------------------------------------------
(* pollLoop and recover *)

\* Mutant: one handler too many.
MayPollFull == tasks <= Concurrency

\* The loop polls while a handler slot is free.
MayPoll == tasks < Concurrency

\* The loop's head: leave, wait for a free slot, or poll.
Loop ==
  /\ at["run"] = "looping"
  /\ \/ /\ draining /\ ~stop /\ noticeDue
        /\ SendNotice("run", noticeDue)
        /\ UNCHANGED <<stop, draining>>
     \/ /\ draining /\ ~stop /\ ~noticeDue
        /\ NoticeOver("run")
        /\ UNCHANGED <<flags, wire>>
     \/ /\ stop
        /\ Goto("run", "finishing")
        /\ UNCHANGED <<flags, wire>>
     \/ /\ ~Leaving
        /\ at' = [at EXCEPT !["run"] = IF MayPoll THEN "polling" ELSE "pausing"]
        /\ reply' = [reply EXCEPT !["run"] = IF MayPoll /\ ~held THEN "lost" ELSE "none"]
        /\ UNCHANGED <<flags, wire>>
  /\ UNCHANGED <<beating, tasks, client, backoff, server>>

PollAwaited == at["run"] = "polling" /\ reply["run"] = "none" /\ held

PolledTask ==
  /\ PollAwaited
  /\ registry # "draining"
  /\ Goto("run", "looping")
  /\ tasks' = tasks + 1
  /\ UNCHANGED <<flags, beating, client, wire, backoff, server>>

\* An empty poll, a halt or any other refusal: the next one waits.
PolledNothing ==
  /\ PollAwaited
  /\ Goto("run", IF Leaving THEN "looping" ELSE "pausing")
  /\ UNCHANGED <<flags, beating, tasks, client, wire, backoff, server>>

\* Refused worker_draining.
PolledDraining ==
  /\ PollAwaited
  /\ registry = "draining"
  /\ Goto("run", "looping")
  /\ IF Leaving THEN UNCHANGED flags ELSE BeginDrain
  /\ UNCHANGED <<beating, tasks, client, wire, backoff, server>>

\* Refused worker_unhealthy: a heartbeat now, on the run's own time.
PolledUnhealthy ==
  /\ PollAwaited /\ registry = "active" /\ ~Leaving
  /\ at["beat"] = "none"
  /\ at' = [at EXCEPT !["run"] = "unhealthy", !["beat"] = "heartbeat"]
  /\ wire' = Append(wire, [from |-> "beat", op |-> "heartbeat", again |-> FALSE])
  /\ UNCHANGED <<flags, beating, tasks, client, reply, backoff, server>>

HeartbeatAwaited ==
  /\ at["run"] = "unhealthy" /\ at["beat"] = "none"
  /\ Goto("run", "pausing")
  /\ UNCHANGED <<flags, beating, tasks, client, wire, backoff, server>>

\* Refused outcome_pending: start() throws it in the end.
PolledPending ==
  /\ PollAwaited
  /\ Goto("run", IF Leaving THEN "looping" ELSE "finishing")
  /\ UNCHANGED <<flags, beating, tasks, client, wire, backoff, server>>

PauseOver ==
  /\ at["run"] = "pausing"
  /\ Goto("run", "looping")
  /\ UNCHANGED <<flags, beating, tasks, client, wire, backoff, server>>

\* recover: the connection is redialed, dropped if it is still the one the
\* poll went on.
PollLost ==
  /\ at["run"] = "polling" /\ reply["run"] = "lost"
  /\ \/ Leaving /\ Goto("run", "looping") /\ UNCHANGED <<held, wire, late>>
     \/ /\ ~Leaving
        /\ at' = [at EXCEPT !["run"] = "redialing"]
        /\ \/ DropFor("run")
           \/ /\ reply' = [reply EXCEPT !["run"] = "none"]
              /\ UNCHANGED <<held, wire, late>>
  /\ UNCHANGED <<flags, beating, tasks, closed, backoff, registry, parted>>

Redialed ==
  /\ at["run"] = "redialing" /\ held /\ ~Leaving
  /\ Ask("run", "actions")
  /\ UNCHANGED <<flags, beating, tasks, client, backoff, server>>

\* reconnect ends with the worker leaving (its client closed included: only
\* the worker closes it).
RedialGivenUp ==
  /\ at["run"] = "redialing" /\ Leaving
  /\ Goto("run", "looping")
  /\ UNCHANGED <<flags, beating, tasks, client, wire, backoff, server>>

----------------------------------------------------------------------------
(* finishDrain, and the end of start() *)

\* A task ended, a second passed, or a stop.
Tick ==
  /\ at["run"] = "ticking"
  /\ IF noticeDue
     THEN SendNotice("run", noticeDue) /\ UNCHANGED <<stop, draining>>
     ELSE NoticeOver("run") /\ UNCHANGED <<flags, wire>>
  /\ UNCHANGED <<beating, tasks, client, backoff, server>>

\* The last task ended: heartbeats stop, and the worker deregisters.
TasksFinished ==
  /\ at["run"] = "finishing" /\ tasks = 0
  /\ beating' = FALSE
  /\ Ask("run", "deregister")
  /\ UNCHANGED <<flags, tasks, client, backoff, server>>

Deregistered ==
  /\ at["run"] = "deregister" /\ reply["run"] # "none"
  /\ parted' = (reply["run"] = "ok")
  /\ EndRun
  /\ UNCHANGED <<tasks, registry>>

TaskEnds ==
  /\ tasks > 0
  /\ tasks' = tasks - 1
  /\ UNCHANGED <<at, flags, beating, client, wire, reply, backoff, server>>

----------------------------------------------------------------------------
(* stop(), close(), drain() and its notices *)

Stop ==
  /\ stop' = TRUE
  /\ UNCHANGED <<at, draining, noticeDue, beating, tasks, client, wire, reply, backoff, server>>

Close ==
  /\ at["run"] # "idle"
  /\ stop' = TRUE
  /\ closed' = TRUE
  /\ LetGo
  /\ UNCHANGED <<at, draining, noticeDue, beating, tasks, backoff, registry, parted>>

\* drain(), one call at a time: the notice goes with a run under way.
Drain ==
  /\ at["call"] = "none"
  /\ IF Running
     THEN /\ SendNotice("call", noticeDue \/ ~draining)
          /\ draining' = TRUE
          /\ UNCHANGED stop
     ELSE /\ BeginDrain
          /\ UNCHANGED <<at, wire, reply>>
  /\ UNCHANGED <<beating, tasks, client, backoff, server>>

\* Sent, or refused: settled.
NoticeAnswered(c) ==
  /\ at[c] = "drain" /\ reply[c] \notin {"none", "lost"}
  /\ noticeDue' = FALSE
  /\ NoticeOver(c)
  /\ UNCHANGED <<stop, draining, beating, tasks, client, wire, backoff, server>>

\* A stop cuts the wait short, and settles it.
NoticeAborted(c) ==
  /\ at[c] = "drain" /\ reply[c] = "none" /\ stop
  /\ noticeDue' = FALSE
  /\ NoticeOver(c)
  /\ wire' = Orphaned(c)
  /\ backoff' = backoff \ {c}
  /\ UNCHANGED <<stop, draining, beating, tasks, client, server>>

\* Lost: the connection it went on is redialed, if it is still the one held.
NoticeLost(c) ==
  /\ at[c] = "drain" /\ reply[c] = "lost"
  /\ IF closed
     THEN /\ NoticeOver(c)
          /\ noticeDue' = (noticeDue /\ ~stop)
          /\ UNCHANGED <<held, wire, late>>
     ELSE /\ at' = [at EXCEPT ![c] = "noticeRedial"]
          /\ \/ DropFor(c)
             \/ reply' = [reply EXCEPT ![c] = "none"] /\ UNCHANGED <<held, wire, late>>
          /\ UNCHANGED noticeDue
  /\ UNCHANGED <<stop, draining, closed, beating, tasks, backoff, registry, parted>>

\* The redial is over, one way or the other, or a stop cuts it short.
NoticeRedialOver(c) ==
  /\ at[c] = "noticeRedial"
  /\ NoticeOver(c)
  /\ noticeDue' = (noticeDue /\ ~stop)
  /\ UNCHANGED <<stop, draining, beating, tasks, client, wire, backoff, server>>

----------------------------------------------------------------------------
(* heartbeat, off its timer *)

\* The interval passed, and the last heartbeat is over.
Beat ==
  /\ beating /\ Running /\ at["beat"] = "none" /\ at["run"] # "unhealthy"
  /\ Ask("beat", "heartbeat")
  /\ UNCHANGED <<flags, beating, tasks, client, backoff, server>>

HeartbeatAnswered ==
  /\ at["beat"] = "heartbeat" /\ reply["beat"] # "none"
  /\ \/ /\ reply["beat"] = "notFound" /\ Running
        /\ Ask("beat", "register")
        /\ UNCHANGED flags
     \/ /\ ~(reply["beat"] = "notFound" /\ Running)
        /\ Goto("beat", "none")
        /\ IF reply["beat"] = "draining" /\ ~draining THEN BeginDrain ELSE UNCHANGED flags
        /\ UNCHANGED wire
  /\ UNCHANGED <<beating, tasks, client, backoff, server>>

\* Registered anew: a draining worker tells the server again.
HeartbeatRegistered ==
  /\ at["beat"] = "register" /\ reply["beat"] # "none"
  /\ IF reply["beat"] = "ok" /\ draining
     THEN SendNotice("beat", TRUE) /\ UNCHANGED <<stop, draining>>
     ELSE Goto("beat", "none") /\ UNCHANGED <<flags, wire>>
  /\ UNCHANGED <<beating, tasks, client, backoff, server>>

----------------------------------------------------------------------------
(* External: the transport and the server *)

\* A dial someone waits for succeeds (a task's result redials too).
Dial ==
  /\ ~held /\ ~closed
  /\ \/ at["run"] \in {"connecting", "redialing"}
     \/ \E c \in Chains : at[c] = "noticeRedial"
     \/ tasks > 0
  /\ held' = TRUE
  /\ UNCHANGED <<at, flags, closed, beating, tasks, wire, reply, backoff, server>>

ConnectionEnds ==
  /\ held
  /\ LetGo
  /\ UNCHANGED <<at, flags, closed, beating, tasks, backoff, registry, parted>>

\* The request's own timer.
Timeout(c) ==
  /\ c \in Awaiting \ backoff
  /\ reply' = [reply EXCEPT ![c] = "lost"]
  /\ wire' = Orphaned(c)
  /\ UNCHANGED <<at, flags, beating, tasks, client, backoff, server>>

\* What the server may answer to op; it takes a registered worker's drain.
Answers(op) ==
  CASE op = "actions"    -> {"ok", "refused", "halted"}
    [] op = "heartbeat"  -> IF registry = "none" THEN {"notFound", "refused"} ELSE {registry, "refused"}
    [] op = "drain"      -> IF registry = "none" THEN {"refused"} ELSE {"ok"}
    [] OTHER             -> {"ok", "refused"}

RegistryAfter(op, answer) ==
  IF answer # "ok" THEN registry
  ELSE CASE op = "register"   -> "active"
         [] op = "drain"      -> IF registry = "none" THEN "none" ELSE "draining"
         [] op = "deregister" -> "none"
         [] OTHER             -> registry

\* The server reads the oldest request and answers it.
ServerReads ==
  /\ wire # <<>>
  /\ \E answer \in Answers(Head(wire).op) :
       /\ registry' = RegistryAfter(Head(wire).op, answer)
       /\ reply' = IF Head(wire).from = "nobody" THEN reply
                   ELSE [reply EXCEPT ![Head(wire).from] = answer]
  /\ wire' = Tail(wire)
  /\ UNCHANGED <<at, flags, beating, tasks, client, backoff, late, parted>>

\* It reads the request, and the answer never comes.
AnswerLost ==
  /\ wire # <<>> /\ Head(wire).from # "nobody"
  /\ registry' = RegistryAfter(Head(wire).op, "ok")
  /\ reply' = [reply EXCEPT ![Head(wire).from] = "lost"]
  /\ wire' = Tail(wire)
  /\ UNCHANGED <<at, flags, beating, tasks, client, backoff, late, parted>>

\* It reads what was written on a connection since dropped: nobody is told.
ServerReadsLate ==
  \E op \in late :
    /\ registry' = RegistryAfter(op, "ok")
    /\ late' = late \ {op}
    /\ UNCHANGED <<at, flags, beating, tasks, client, wire, reply, backoff, parted>>

\* It refuses the request unrun, and the client is to send it again (as if
\* with maxAttempts 2).
ServerRefusesUnrun ==
  /\ wire # <<>> /\ Head(wire).op \in Resent /\ ~Head(wire).again /\ Head(wire).from # "nobody"
  /\ backoff' = backoff \cup {Head(wire).from}
  /\ wire' = Tail(wire)
  /\ UNCHANGED <<at, flags, beating, tasks, client, reply, server>>

\* The client's wait is over: the request goes out again.
Resend(c) ==
  /\ c \in backoff
  /\ backoff' = backoff \ {c}
  /\ IF held
     THEN wire' = Append(wire, [from |-> c, op |-> at[c], again |-> TRUE]) /\ UNCHANGED reply
     ELSE reply' = [reply EXCEPT ![c] = "lost"] /\ UNCHANGED wire
  /\ UNCHANGED <<at, flags, beating, tasks, client, server>>

\* A worker silent past the server's removal time is removed.
ServerForgets ==
  /\ registry # "none"
  /\ registry' = "none"
  /\ UNCHANGED <<at, flags, beating, tasks, client, wire, reply, backoff, late, parted>>

OperatorDrains ==
  /\ registry = "active"
  /\ registry' = "draining"
  /\ UNCHANGED <<at, flags, beating, tasks, client, wire, reply, backoff, late, parted>>

----------------------------------------------------------------------------
RunStep ==
  \/ Connected \/ ConnectFailed \/ ActionsRegistered \/ WorkerRegistered
  \/ RegisterFailed \/ HaltWaitOver
  \/ Loop \/ PolledTask \/ PolledNothing \/ PolledDraining \/ PolledUnhealthy
  \/ HeartbeatAwaited \/ PolledPending \/ PauseOver
  \/ PollLost \/ Redialed \/ RedialGivenUp
  \/ Tick \/ TasksFinished \/ Deregistered

NoticeStep(c) == NoticeAnswered(c) \/ NoticeAborted(c) \/ NoticeLost(c) \/ NoticeRedialOver(c)

BeatStep == HeartbeatAnswered \/ HeartbeatRegistered

Caller == Start \/ Stop \/ Close \/ Drain

Network == Dial \/ ConnectionEnds \/ \E c \in Chains : Timeout(c) \/ Resend(c)

Server == ServerReads \/ ServerReadsLate \/ AnswerLost \/ ServerRefusesUnrun \/ ServerForgets \/ OperatorDrains

Next ==
  \/ Caller \/ RunStep \/ TaskEnds \/ Beat \/ BeatStep
  \/ \E c \in Chains : NoticeStep(c)
  \/ Network \/ Server

Spec == Init /\ [][Next]_vars

\* Awaits resume, timers fire, and handlers end (each has its own deadline).
\* Nothing is assumed of the server or of the network.
Fairness ==
  /\ WF_vars(RunStep) /\ WF_vars(BeatStep) /\ WF_vars(TaskEnds)
  /\ \A c \in Chains : WF_vars(NoticeStep(c)) /\ WF_vars(Timeout(c)) /\ WF_vars(Resend(c))

FairSpec == Spec /\ Fairness

----------------------------------------------------------------------------
(* Properties *)

\* Once the server took a run's deregister, and until the next start, nothing
\* registers the worker again but a request the client resent or the server
\* read after its connection was dropped: no heartbeat out at the end does
\* (running is cleared "Before deregistering: a heartbeat answering after it
\* mustn't register again").
Parted == parted \/ (at["run"] = "deregister" /\ reply["run"] = "ok")

GhostsAreLate ==
  [][Parted /\ registry = "none" /\ registry' # "none"
       => late' # late \/ (wire # <<>> /\ Head(wire).again)]_vars

\* The comment as it stands, with no exceptions: a run whose deregister the
\* server took leaves no registration behind.
NoGhost == at["run"] = "idle" /\ parted => registry = "none"

\* A draining worker that has handlers to wait for and no notice to send has
\* not left the server thinking it active ("told of the drain: at its start,
\* and after any re-registration").
DrainTold ==
  (at["run"] = "ticking" /\ ~noticeDue /\ ~stop /\ at["beat"] = "none" /\ at["call"] = "none")
    => registry # "active"

\* A stop ends the run it is asked in, whatever the run is at and however
\* the server hangs (stop(): "also mid-reconnect or mid-drain").
StopEnds == (stop /\ at["run"] # "idle") ~> (at["run"] = "idle")

\* And so does a drain.
DrainEnds == (draining /\ at["run"] # "idle") ~> (at["run"] = "idle")
=============================================================================
