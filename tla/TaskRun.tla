------------------------------- MODULE TaskRun -------------------------------
(***************************************************************************)
(* One task of packages/node/src/action-worker.ts, from executeTask to its *)
(* result: the handler races its timeout, and autoTouch keeps the server's *)
(* lease on the run while it does.  Time passes in ticks, and timers fire  *)
(* on them.  How the result gets through is ResultDelivery's matter; the   *)
(* touches a handler makes itself are left out.                            *)
(***************************************************************************)
EXTENDS Integers, FiniteSetsExt

CONSTANTS
  Timeouts,              \* the timeouts an action may have, in ticks; 0 is never
  ActionTimeout,         \* config.actionTimeoutMs
  MIN_TOUCH_INTERVAL,
  MAX_TOUCH_EXTEND,      \* the longest lease the server grants a touch
  RequestTimeout,        \* the longest a touch is waited for
  ThrowsAtCall           \* whether a handler may throw before it returns a promise

ASSUME TaskAssumption ==
  /\ Timeouts \subseteq Nat /\ ActionTimeout \in Nat
  /\ MIN_TOUCH_INTERVAL \in Nat \ {0} /\ MAX_TOUCH_EXTEND \in Nat \ {0}
  /\ RequestTimeout \in Nat /\ ThrowsAtCall \in BOOLEAN

VARIABLES
  autoTouch, timeoutMs,
  task,                  \* "calling", "racing", "reporting", then "reported"
  report,                \* what the result says, once there is one
  left,                  \* until the handler's timeout
  stopped,               \* keepTouching's stopped
  timer,                 \* until the next touchOut, or OFF
  touchOut,              \* "none", or where the touch out is: "sent", "read" or "refused"
  age,                   \* how long it has been out
  runState,              \* the server's: "leased", then "takenBack" or "finished"
  lease,                 \* how long it is leased still
  failed, worst,         \* history: touches failed in a row, and at worst
  slowest                \* history: the longest a touch was out

taskVars == <<autoTouch, timeoutMs, task, report, left, stopped, timer, touchOut, age,
              runState, lease, failed, worst, slowest>>

OFF == -1
taskConstants == <<autoTouch, timeoutMs>>
runVars == <<runState, lease>>
touchHistory == <<failed, worst, slowest>>

\* Mutant: the action's timeout, however long.
ExtendMsUncapped == timeoutMs

ExtendMs == Min({timeoutMs, MAX_TOUCH_EXTEND})
IntervalMs == Max({ExtendMs \div 3, MIN_TOUCH_INTERVAL})

\* The task came some time after it was leased, but before the lease was over.
TaskInit ==
  /\ autoTouch \in BOOLEAN /\ timeoutMs \in Timeouts
  /\ task = "calling" /\ report = "none" /\ left = ActionTimeout
  /\ stopped = FALSE /\ timer = OFF /\ touchOut = "none" /\ age = 0
  /\ runState = "leased" /\ slowest \in 0..RequestTimeout
  /\ slowest < timeoutMs \/ slowest = 0
  /\ lease = timeoutMs - slowest
  /\ failed = 0 /\ worst = 0

-----------------------------------------------------------------------------
(* executeTask.                                                            *)

\* Touching starts, and the handler is called; or there is none.
TaskCalled ==
  /\ task = "calling"
  /\ \/ /\ timer' = IF autoTouch /\ timeoutMs > 0 THEN IntervalMs ELSE OFF
        /\ \/ task' = "racing" /\ UNCHANGED report
           \/ ThrowsAtCall /\ task' = "reporting" /\ report' = "fail"
     \/ task' = "reporting" /\ report' = "fail" /\ UNCHANGED timer
  /\ UNCHANGED <<taskConstants, left, stopped, touchOut, age, runVars, touchHistory>>

\* withTimeout settles: touching stops, and sendResult begins.
Settles(result) ==
  /\ task = "racing"
  /\ task' = "reporting" /\ report' = result
  /\ stopped' = TRUE /\ timer' = OFF
  /\ UNCHANGED <<taskConstants, left, touchOut, age, runVars, touchHistory>>

\* It returned, threw an error, or a NonRetryableError.
HandlerEnds == \E result \in {"complete", "fail", "failForGood"} : Settles(result)

HandlerTimesOut == left = 0 /\ Settles("failForGood")

\* sendResult is over, one way or the other.
ResultSent ==
  /\ task = "reporting"
  /\ task' = "reported"
  /\ UNCHANGED <<taskConstants, report, left, stopped, timer, touchOut, age,
                 runVars, touchHistory>>

-----------------------------------------------------------------------------
(* keepTouching.                                                           *)

\* Its tick.
Touch ==
  /\ timer = 0
  /\ timer' = OFF /\ touchOut' = "sent" /\ age' = 0
  /\ UNCHANGED <<taskConstants, task, report, left, stopped, runVars, touchHistory>>

\* Mutant: only the timer is cleared.
NextTouchAnyway == IntervalMs

NextTouch == IF stopped THEN OFF ELSE IntervalMs

TouchOver ==
  /\ touchOut' = "none"
  /\ slowest' = Max({slowest, age})
  /\ UNCHANGED <<taskConstants, task, report, left, stopped, age, runVars>>

TouchAnswered ==
  /\ touchOut = "read" /\ TouchOver
  /\ timer' = NextTouch
  /\ failed' = 0
  /\ UNCHANGED worst

\* Lost, before the server read it or after, or refused for now.
TouchFailed ==
  /\ touchOut # "none" /\ TouchOver
  /\ timer' = NextTouch
  /\ failed' = failed + 1 /\ worst' = Max({worst, failed'})

\* The run moved on: no more touches.
TouchRefused ==
  /\ touchOut = "refused" /\ TouchOver
  /\ UNCHANGED <<timer, failed, worst>>

-----------------------------------------------------------------------------
(* External: the server, and time.                                         *)

\* A touch leases the run for as long as it asks, from when it is read.
TouchRead ==
  /\ touchOut = "sent"
  /\ IF runState = "leased" /\ ExtendMs <= MAX_TOUCH_EXTEND
     THEN touchOut' = "read" /\ lease' = ExtendMs
     ELSE touchOut' = "refused" /\ UNCHANGED lease
  /\ UNCHANGED <<taskConstants, task, report, left, stopped, timer, age,
                 runState, touchHistory>>

ResultTaken ==
  /\ task = "reporting" /\ runState = "leased"
  /\ runState' = "finished"
  /\ UNCHANGED <<taskConstants, task, report, left, stopped, timer, touchOut, age,
                 lease, touchHistory>>

\* Nothing is due.  A run whose lease is over is taken back.
TimePasses ==
  /\ task # "calling" /\ timer # 0
  /\ task = "racing" => left > 0
  /\ touchOut # "none" => age < RequestTimeout
  /\ left' = IF task = "racing" THEN left - 1 ELSE left
  /\ timer' = IF timer = OFF THEN OFF ELSE timer - 1
  /\ age' = IF touchOut = "none" THEN age ELSE age + 1
  /\ lease' = Max({lease - 1, 0})
  /\ runState' = IF runState = "leased" /\ lease = 1 THEN "takenBack" ELSE runState
  /\ UNCHANGED <<taskConstants, task, report, stopped, touchOut, touchHistory>>

TaskNext ==
  \/ TaskCalled \/ HandlerEnds \/ HandlerTimesOut \/ ResultSent
  \/ Touch \/ TouchAnswered \/ TouchFailed \/ TouchRefused
  \/ TouchRead \/ ResultTaken \/ TimePasses

TaskSpec == TaskInit /\ [][TaskNext]_taskVars

-----------------------------------------------------------------------------
(* Properties.                                                             *)

TaskTypeOK ==
  /\ autoTouch \in BOOLEAN /\ timeoutMs \in Timeouts
  /\ task \in {"calling", "racing", "reporting", "reported"}
  /\ report \in {"none", "complete", "fail", "failForGood"}
  /\ left \in 0..ActionTimeout /\ stopped \in BOOLEAN
  /\ timer \in {OFF} \cup Nat
  /\ touchOut \in {"none", "sent", "read", "refused"} /\ age \in 0..RequestTimeout
  /\ runState \in {"leased", "takenBack", "finished"} /\ lease \in Nat
  /\ failed \in Nat /\ worst \in Nat /\ slowest \in 0..RequestTimeout

\* While its handler runs a touched run is not taken back, as long as the
\* touches that fail in a row, and the slowest answer, leave a further touch
\* the time to be read before the lease is over: with a third of the lease
\* between them one may fail, and each may take a ninth of it (keepTouching,
\* "so the lease covers it", "every third of that").
LeaseKept ==
  LET extend == Min({timeoutMs, MAX_TOUCH_EXTEND})
      interval == Max({extend \div 3, MIN_TOUCH_INTERVAL})
      slow == Max({slowest, age})
  IN  task = "racing" /\ autoTouch /\ timeoutMs > 0
      /\ (worst + 1) * interval + (worst + 2) * slow < extend
        => runState = "leased"

\* No touch begins once the handler is over, by its end or its timeout,
\* though one may be out by then ("touches a running task ... and stops with
\* the handler").
TouchesEnd == [][touchOut = "none" /\ touchOut' # "none" => task = "racing"]_taskVars
=============================================================================
