---- MODULE Chunks ----
(***************************************************************************)
(* onData of TcpTransport (packages/node/src/transport.ts) as it keeps     *)
(* what it received: a list of the chunks that came and the cells in all   *)
(* of them, joined only when a header or a frame is cut by the end of the  *)
(* first.  It implements Framing, for which they are one sequence:         *)
(* received is here what came and was not taken, and never read.           *)
(***************************************************************************)
EXTENDS Framing

CONSTANT MaxChunks     \* bound: chunks kept at once

ASSUME ChunksAssumption == MaxChunks \in Nat

VARIABLES
  chunks,              \* the code's received, a list of buffers
  receivedLen

chunksVars == <<framingVars, chunks, receivedLen>>

\* Buffer.concat, to a length of receivedLen: that of all of them
\* (ChunksReceived).
joined(cs) ==
  LET upTo[n \in 0..Len(cs)] == IF n = 0 THEN <<>> ELSE upTo[n - 1] \o cs[n] IN upTo[Len(cs)]

ChunksInit == FramingInit /\ chunks = <<>> /\ receivedLen = 0

Emptied == chunks' = <<>> /\ receivedLen' = 0

-----------------------------------------------------------------------------

\* Mutant: the last chunk is counted for all.
PushedAlone(n) ==
  /\ chunks' = Append(chunks, SubSeq(wire, 1, n))
  /\ receivedLen' = n

Pushed(n) ==
  /\ chunks' = Append(chunks, SubSeq(wire, 1, n))
  /\ receivedLen' = receivedLen + n

\* joinReceived, when the first chunk has fewer than n cells.
JoinedFor(n, cs) == IF Len(Head(cs)) < n THEN <<joined(cs)>> ELSE cs

\* The chunks, once the first has a header, and once it has a whole frame.
WithHeader == JoinedFor(HEADER_SIZE, chunks)
Announced == Total(Head(WithHeader))
WithFrame == JoinedFor(Announced, WithHeader)

\* What is left of them without n cells of the first.
Behind(n, cs) ==
  IF Len(Head(cs)) > n THEN [cs EXCEPT ![1] = SubSeq(cs[1], n + 1, Len(cs[1]))] ELSE Tail(cs)

ChunksWait ==
  /\ Waits(Head(WithHeader), receivedLen)
  /\ chunks' = IF HasHeader(receivedLen) THEN WithHeader ELSE chunks
  /\ UNCHANGED receivedLen

ChunksTakeFrame ==
  /\ TakesFrame(Head(WithFrame), receivedLen)
  /\ IF open'
     THEN chunks' = Behind(Announced, WithFrame) /\ receivedLen' = receivedLen - Announced
     ELSE Emptied

ChunksNext ==
  \/ (Connects \/ ConnectionEnds) /\ Emptied
  \/ /\ \/ \E r \in Requests: Sends(r) \/ TimesOut(r)
        \/ \E id \in Ids, a \in Answers: ServerWrites(id, a)
     /\ UNCHANGED <<chunks, receivedLen>>
  \/ Len(chunks) < MaxChunks /\ \E n \in 1..Len(wire): Arrives(n) /\ Pushed(n)
  \/ ChunksWait
  \/ Unframeable(Head(WithHeader), receivedLen) /\ Emptied
  \/ ChunksTakeFrame

ChunksSpec == ChunksInit /\ [][ChunksNext]_chunksVars

-----------------------------------------------------------------------------
(* Properties.                                                             *)

\* The chunks, joined, are what came and was not taken, and receivedLen counts
\* them right (onData, joinReceived, failAll, transport.ts).
ChunksReceived == joined(chunks) = received /\ receivedLen = Len(received)

\* However the chunks are kept and joined, what is read of them is what came
\* (onData, joinReceived, transport.ts).
ImplementsFraming == FramingSpec

=============================================================================
