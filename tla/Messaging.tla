---- MODULE Messaging ----
(***************************************************************************)
(* The requests and answers of packages/core/src/queue.ts and streams.ts,  *)
(* with the serializers and parsers of wire.ts they call, each as an       *)
(* operation of Wire.                                                      *)
(***************************************************************************)
EXTENDS Wire

-----------------------------------------------------------------------------
(* Queues.                                                                 *)

\* seq, payload, enqueued at, delivery count, priority.
queueMessage == Row(<<Uint(U64), Name(U32), Uint(U64), Uint(U32), Uint(U8)>>)
parseDequeueResponse == OpenAnswer(<<List(U32, 0, Unchecked, queueMessage)>>)
parseEnqueueResponse == OpenAnswer(<<Uint(U64)>>)
serializeSeqs == <<List(U32, 0, Unchecked, Masked(U64))>>

enqueue == Operation("QueueEnqueue", <<Rest>>, <<OptionU8("Priority")>>, parseEnqueueResponse)
dequeue == Operation("QueueDequeue", <<>>, <<OptionU32("Count"), OptionU32("BlockMS")>>,
                     parseDequeueResponse)
ack == UnlessEmpty(Operation("QueueComplete", serializeSeqs, <<>>, NoAnswer))
nack == UnlessEmpty(Operation("QueueFail", serializeSeqs, <<>>, NoAnswer))
dlqList == Operation("QueueDLQList", <<>>, <<>>, parseDequeueResponse)
dlqRequeue == UnlessEmpty(Operation("QueueDLQRequeue", serializeSeqs, <<>>, NoAnswer))
peek == Operation("QueuePeek", <<>>, <<OptionU32("Count")>>, parseDequeueResponse)

-----------------------------------------------------------------------------
(* Streams.                                                                *)

\* Sequence, timestamp, tier, partition, stream name, payload, headers: the
\* parser stops at the first record, or header, that is cut short.
streamHeader == Row(<<Name(U32), Name(U32)>>)
streamRecord == Row(<<Uint(U64), Uint(U64), Uint(U8), Uint(U32), OptAny(Name(U32)), Name(U32),
                      LaxList(U32, streamHeader)>>)
parseStreamReadResponse == ShortAnswer(U32, <<<<>>>>, OpenAnswer(<<LaxList(U32, streamRecord)>>))
parseStreamAppendResponse == OpenAnswer(<<Uint(U64), Uint(U64)>>)
parseStreamInfoResponse ==
  OpenAnswer(<<Uint(U64), Uint(U64), Uint(U64), Uint(U64), Uint(U64), Uint(U64), Uint(U32)>>)

\* One record: its payload, and headers whose keys and values are checked.
header == Row(<<Text(U16, Widest(U16)), Text(U16, Widest(U16))>>)
serializeStreamAppendValue ==
  <<Number(U32, 1, 1), Name(U32), List(U16, 0, Widest(U16), header)>>

append == Operation("StreamAppend", serializeStreamAppendValue,
                    <<OptionBytes("PartitionKey"), OptionU32("Partition")>>,
                    parseStreamAppendResponse)
read == Operation("StreamRead", <<>>,
                  <<OptionFlag("StreamTail"), OptionBytes("StreamStart"), OptionBytes("StreamEnd"),
                    OptionU32("Partition"), OptionU32("Count"), OptionU32("BlockMS")>>,
                  parseStreamReadResponse)
streamInfo == Operation("StreamInfo", <<>>, <<>>, parseStreamInfoResponse)
streamDelete == Operation("StreamDelete", <<>>, <<OptionFlag("Force")>>, NoAnswer)

\* Consumer groups: the group and the consumer, then the ids of records.
member == <<Name(U16), Name(U16)>>
recordIds == List(U32, 0, Unchecked, Row(<<Masked(U64), Masked(U64)>>))
groupRead == Operation("StreamGroupRead", member, <<OptionU32("Count"), OptionU32("BlockMS")>>,
                       parseStreamReadResponse)
groupJoin == Operation("StreamGroupJoin", member, <<>>, NoAnswer)
groupLeave == Operation("StreamGroupLeave", member, <<>>, NoAnswer)
groupAck == UnlessEmpty(Operation("StreamGroupAck", Append(member, recordIds), <<>>, NoAnswer))
groupNack == UnlessEmpty(Operation("StreamGroupNack", Append(member, recordIds), <<>>, NoAnswer))

MessagingOperations ==
  <<enqueue, dequeue, ack, nack, dlqList, dlqRequeue, peek, append, read, streamInfo,
    streamDelete, groupRead, groupJoin, groupLeave, groupAck, groupNack>>

=============================================================================
