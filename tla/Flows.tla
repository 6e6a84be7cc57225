---- MODULE Flows ----
(***************************************************************************)
(* The requests and answers of packages/core/src/workflows.ts and          *)
(* processing.ts, each as an operation of Wire.  What the YAML of a        *)
(* definition says is left to module Sync.                                 *)
(***************************************************************************)
EXTENDS Wire

-----------------------------------------------------------------------------
(* Workflows.                                                              *)

\* A limit, and a cursor that is the rest of the value: serializeListValue.
listValue == <<Masked(U32), Rest>>
\* Version (empty for the latest), idempotency key, run id, input.
startValue == <<Name(U16), Opt(NonEmpty(U16)), Opt(NonEmpty(U16)), Rest>>
\* Limit, status, cursor, search, all checked.
serializeListRunsValue ==
  <<Uint(U32), Text(U16, Widest(U16)), Text(U16, Widest(U16)), Text(U16, Widest(U16))>>
signalValue == <<Name(U16), Rest>>

\* Run id, workflow, version, status, step, input, created at; then started
\* at, completed at and the signal waited for, which nothing requires.
statusAnswer ==
  OpenAnswer(<<Name(U16), Name(U16), Name(U16), Uint(U8), Name(U16), Name(U32), Uint(U64),
               OptOne(Uint(U64)), OptOne(Uint(U64)), OptOne(LooseText(U16))>>)
\* Type, detail, timestamp.
parseWireHistory ==
  OpenAnswer(<<List(U32, 0, Unchecked, Row(<<Name(U16), Name(U16), Uint(U64)>>))>>)
\* Run id, workflow, status, created at, and the cursor of the next page.
decodeListRunsAnswer ==
  PagedAnswer(<<List(U32, 0, Unchecked, Row(<<Name(U16), Name(U16), Name(U16), Uint(U64)>>)),
                Bool, Name(U16)>>)
\* Name, version, created at, and the cursor of the next page.
decodeDefinitionsAnswer ==
  PagedAnswer(<<List(U32, 0, Unchecked, Row(<<Name(U16), Name(U16), Uint(U64)>>)),
                Bool, Name(U16)>>)
textAnswer == Answer(<<Rest>>)

workflowCreate == Operation("WorkflowCreate", <<Rest>>, <<>>, NoAnswer)
getDefinition ==
  OrNull(Operation("WorkflowGetDefinition", <<Rest>>, <<>>, textAnswer), "definition")
workflowStart == Operation("WorkflowStart", startValue, <<>>, textAnswer)
workflowStatus == Operation("WorkflowStatus", <<>>, <<>>, statusAnswer)
workflowHistory == Operation("WorkflowHistory", <<Masked(U32)>>, <<>>, parseWireHistory)
listRuns == Operation("WorkflowListRuns", serializeListRunsValue, <<>>, decodeListRunsAnswer)
signal == Operation("WorkflowSignal", signalValue, <<>>, NoAnswer)
workflowCancel == Operation("WorkflowCancel", <<Rest>>, <<>>, NoAnswer)
disable == Operation("WorkflowDisable", <<>>, <<>>, NoAnswer)
enable == Operation("WorkflowEnable", <<>>, <<>>, NoAnswer)
listDefinitions ==
  Keyless(Operation("WorkflowListDefinitions", listValue, <<>>, decodeDefinitionsAnswer))

-----------------------------------------------------------------------------
(* Processing jobs.                                                        *)

\* Job, name, status (5, here one less than a byte holds), batch size,
\* records, created at, failure reason.
parseWireStatus ==
  Answer(<<Name(U16), Name(U16), Number(U8, 0, RADIX - 2), Uint(U32), Uint(U64), Uint(U64),
           Name(U16)>>)
\* Name, job, status, created at, and the cursor of the next page.
decodeProcessingListAnswer == decodeListRunsAnswer

submit == Keyless(Operation("ProcessingSubmit", <<Rest>>, <<>>, textAnswer))
jobStatus == Operation("ProcessingStatus", <<>>, <<>>, parseWireStatus)
jobList == Keyless(Operation("ProcessingList", listValue, <<>>, decodeProcessingListAnswer))
jobStop == Operation("ProcessingStop", <<>>, <<>>, NoAnswer)
jobCancel == Operation("ProcessingCancel", <<>>, <<>>, NoAnswer)

FlowOperations ==
  <<workflowCreate, getDefinition, workflowStart, workflowStatus, workflowHistory, listRuns,
    signal, workflowCancel, disable, enable, listDefinitions, submit, jobStatus, jobList,
    jobStop, jobCancel>>

=============================================================================
