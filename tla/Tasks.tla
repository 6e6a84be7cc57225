---- MODULE Tasks ----
(***************************************************************************)
(* The requests and answers of packages/core/src/actions.ts, with the      *)
(* serializers and parsers of wire.ts and kv_body.ts they call, each as an *)
(* operation of Wire: actions and their runs, workers and their tasks.     *)
(***************************************************************************)
EXTENDS Wire

-----------------------------------------------------------------------------
(* Actions.                                                                *)

\* Type, timeout, retries and owner; of the type nothing is checked.
serializeActionRegisterValue ==
  <<Masked(U8), Uint(U32), Uint(U32), Text(U16, Widest(U16))>>
\* Labels, when there are any, then the input.
serializeActionInvokeValue == <<Opt([Text(U16, Widest(U16)) EXCEPT !.min = 1]), Rest>>
serializeListValue == <<Masked(U32), Rest>>

\* A run id, not empty, and a byte that must be 0.
parseActionInvokeAnswer == Answer(<<NonEmpty(U16), Number(U8, 0, 0)>>)
\* Status (6 of them, so that a byte may be none), created, started and
\* completed at, attempt, output, error message, worker.
decodeActionStatusAnswer ==
  Answer(<<Number(U8, 0, RADIX - 2), Uint(U64), Opt(Uint(U64)), Opt(Uint(U64)), Uint(U32),
           Opt(Name(U16)), Opt(Name(U16)), Opt(Name(U16))>>)
\* Names and what is stored of each, whether more follow, and the cursor.
decodeActionListAnswer ==
  PagedAnswer(<<List(U32, 0, Unchecked, Row(<<Name(U16), Name(U32)>>)), Bool, Name(U16)>>)

actionRegister == Operation("ActionRegister", serializeActionRegisterValue, <<>>, NoAnswer)
actionInvoke == Operation("ActionInvoke", serializeActionInvokeValue, <<>>, parseActionInvokeAnswer)
actionStatus == Operation("ActionStatus", <<>>, <<>>, decodeActionStatusAnswer)
actionList == Operation("ActionList", serializeListValue, <<>>, decodeActionListAnswer)
actionDelete == Operation("ActionDelete", <<>>, <<>>, NoAnswer)

-----------------------------------------------------------------------------
(* Workers.                                                                *)

\* Type, concurrency, processes, metadata and machine; nothing is checked.
serializeWorkerRegisterValue ==
  <<Masked(U8), Masked(U32), List(U16, 0, Unchecked, Row(<<Name(U16), Masked(U8)>>)),
    Opt(NonEmpty(U16)), Opt(NonEmpty(U16))>>
serializeWorkerHeartbeatValue == <<Masked(U32)>>
serializeWorkerAwaitValue == <<List(U32, 0, Unchecked, Name(U16))>>
\* Action, task, then: the extension; the outcome and the result; whether to
\* retry and the error.
serializeWorkerTouchValue == <<Name(U16), Name(U16), Masked(U32)>>
serializeWorkerCompleteValue == <<Name(U16), Name(U16), Name(U16), Name(U16)>>
serializeWorkerFailValue == <<Name(U16), Name(U16), Bool, Rest>>
\* Limit, cursor, action.
encodeWorkerListBody == <<Given(Number(U32, 1, MAX_COUNT)), Text(U16, MAX_SHORT), Name(U16)>>

\* An answer with no status byte means active, 0.
heartbeatAnswer == ShortAnswer(1, <<0>>, OpenAnswer(<<Uint(U8)>>))
\* Task, type, created at, attempt, the caller's run and workflow, payload;
\* an empty answer is no task.
caller == Opt(Row(<<Name(U16), Name(U16)>>))
parseTaskAssignment ==
  ShortAnswer(1, <<>>, Answer(<<Name(U16), Name(U16), Uint(U64), Uint(U32), caller, Rest>>))
\* Id, type (2), status (4, here one less than a byte holds), load,
\* concurrency, completed, failed, registered at, last heartbeat, machine.
readWorkerRow ==
  Row(<<Name(U16), Number(U8, 0, 1), Number(U8, 0, RADIX - 2), Uint(U32), Uint(U32), Uint(U64),
        Uint(U64), Uint(U64), Uint(U64), Opt(Name(U8))>>)
decodeWorkerListAnswer == Answer(<<List(U16, 0, Unchecked, readWorkerRow), Opt(Name(U16))>>)
process == Row(<<Name(U16), Number(U8, 0, 1), Uint(U64), Uint(U64), Uint(U64)>>)
decodeWorkerInfoAnswer ==
  Answer(<<readWorkerRow, Opt(Name(U16)), List(U16, 0, Unchecked, process)>>)

workerRegister == Operation("WorkerRegister", serializeWorkerRegisterValue, <<>>, NoAnswer)
heartbeat == Operation("WorkerHeartbeat", serializeWorkerHeartbeatValue, <<>>, heartbeatAnswer)
deregister == Operation("WorkerDeregister", <<>>, <<>>, NoAnswer)
drain == Operation("WorkerDrain", <<>>, <<>>, NoAnswer)
awaitTask == Operation("ActionAwait", serializeWorkerAwaitValue, <<OptionU32("BlockMS")>>,
                       parseTaskAssignment)
touch == Operation("ActionTouch", serializeWorkerTouchValue, <<>>, NoAnswer)
complete == Operation("ActionComplete", serializeWorkerCompleteValue, <<>>, NoAnswer)
fail == Operation("ActionFail", serializeWorkerFailValue, <<>>, NoAnswer)
workerList == Keyless(Operation("WorkerList", encodeWorkerListBody, <<>>, decodeWorkerListAnswer))
workerInfo == Operation("WorkerInfo", <<>>, <<>>, decodeWorkerInfoAnswer)

TaskOperations ==
  <<actionRegister, actionInvoke, actionStatus, actionList, actionDelete, workerRegister,
    heartbeat, deregister, drain, awaitTask, touch, complete, fail, workerList, workerInfo>>

=============================================================================
