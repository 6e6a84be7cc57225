---- MODULE Framing ----
(***************************************************************************)
(* onData of TcpTransport (packages/node/src/transport.ts): the answers on *)
(* a connection come as a stream of bytes, in chunks cut anywhere; whole   *)
(* frames are cut out of it again, checked, and settle the requests they   *)
(* are for, until one makes the stream unreadable.                         *)
(*                                                                         *)
(* A frame is a sequence of cells: one for each of the 8 fields of its     *)
(* header (32 bytes in the code), and its payload.  The network may alter  *)
(* one cell of a frame, by at most the bits that its checksum detects.     *)
(*                                                                         *)
(* onData is a loop that nothing interrupts: reading says that it runs,    *)
(* and each round of it is a step.                                         *)
(***************************************************************************)
EXTENDS Integers, Sequences

CONSTANTS
  Requests,            \* ids of requests
  NOBODY,              \* 0: the id of an answer to a request the server could not parse
  Answers,             \* [status, flags, payload] the server may answer
  STATUS_OK,
  MAGIC, VERSION, TABLE_HASH,
  crc(_),              \* the checksum of a sequence of cells
  MAX_ANSWER_BYTES,    \* 256 KB: the most of a frame, header included
  Cells,               \* values an altered cell may take
  Alterable,           \* places of a frame where it may be altered
  MaxComing,           \* bound: frames on the wire at once
  MaxAltered           \* bound: frames altered on a connection

HEADER_SIZE == 8

\* [magic, length, id, crc, version, status, flags, table hash], then the
\* payload; the checksum is of all but itself.
Before(id, a) == <<MAGIC, Len(a.payload), id>>
After(a) == <<VERSION, a.status, a.flags, TABLE_HASH>> \o a.payload
summed(id, a) == Before(id, a) \o After(a)
answerFrame(id, a) == Before(id, a) \o <<crc(summed(id, a))>> \o After(a)

covered(frame) == SubSeq(frame, 1, 3) \o SubSeq(frame, 5, Len(frame))
crcHolds(frame) == frame[4] = crc(covered(frame))

\* What parseResponseHeader lets pass.
ReadableHeader(cells) == cells[1] = MAGIC /\ cells[5] = VERSION /\ cells[8] = TABLE_HASH

\* Mutant: an answer as large as may be is too large.
TooLargeAlone(cells) == cells[2] >= MAX_ANSWER_BYTES - HEADER_SIZE

TooLarge(cells) == cells[2] > MAX_ANSWER_BYTES - HEADER_SIZE

Ids == Requests \cup {NOBODY}

\* CRC32C misses no error of up to 32 bits in a row.
ChecksumAssumption ==
  \A id \in Ids, a \in Answers, n \in Cells:
    \A i \in DOMAIN summed(id, a):
      n # summed(id, a)[i] => crc([summed(id, a) EXCEPT ![i] = n]) # crc(summed(id, a))

\* Every field is an unsigned number.
ASSUME FramingAssumption ==
  /\ Requests \subseteq Nat /\ NOBODY \in Nat \ Requests
  /\ \A a \in Answers: a \in [status: Nat, flags: Nat, payload: Seq(Nat)]
  /\ STATUS_OK \in Nat /\ MAGIC \in Nat /\ VERSION \in Nat /\ TABLE_HASH \in Nat
  /\ \A id \in Ids, a \in Answers: crc(summed(id, a)) \in Nat
  /\ MAX_ANSWER_BYTES \in Nat /\ Cells \subseteq Nat /\ Alterable \subseteq Nat
  /\ MaxComing \in Nat /\ MaxAltered \in Nat

ASSUME ChecksumDetects == ChecksumAssumption

VARIABLES
  request,             \* where each request is
  got,                 \* the frame that answered it, or none
  open,                \* whether there is a socket
  reading,             \* whether onData is in its loop
  received,            \* cells received, not yet framed
  wire,                \* cells that have not arrived
  owed,                \* requests of this connection the server has not answered
  coming,              \* history: the frames of received and wire, in order
  written,             \* history: the frame the server wrote for a request
  altered              \* history: the frames altered on this connection

socketVars == <<open, reading, received, wire, coming, altered>>
framingVars == <<request, got, owed, written, socketVars>>

FramingTypeOK ==
  /\ request \in [Requests -> {"new", "pending", "abandoned", "answered", "lost"}]
  /\ got \in [Requests -> Seq(Nat)] /\ written \in [Requests -> Seq(Nat)]
  /\ open \in BOOLEAN /\ reading \in BOOLEAN /\ altered \in 0..MaxAltered
  /\ received \in Seq(Nat) /\ wire \in Seq(Nat) /\ coming \in Seq(Seq(Nat))
  /\ owed \in SUBSET Requests

FramingInit ==
  /\ request = [r \in Requests |-> "new"]
  /\ got = [r \in Requests |-> <<>>] /\ written = [r \in Requests |-> <<>>]
  /\ open = FALSE /\ reading = FALSE /\ altered = 0
  /\ received = <<>> /\ wire = <<>> /\ coming = <<>>
  /\ owed = {}

-----------------------------------------------------------------------------
(* Connections and requests; what is remembered of them is Transport's     *)
(* matter.                                                                 *)

\* The dial's connect handler.
Connects ==
  /\ ~open /\ ~reading
  /\ open' = TRUE
  /\ received' = <<>>
  /\ UNCHANGED <<request, got, owed, written, reading, wire, coming, altered>>

\* failAll, and the socket destroyed: what was on its way does not arrive.
LetGo ==
  /\ open' = FALSE /\ reading' = FALSE
  /\ received' = <<>> /\ wire' = <<>> /\ coming' = <<>>
  /\ owed' = {}
  /\ request' = [r \in Requests |-> IF request[r] = "pending" THEN "lost" ELSE request[r]]
  /\ written' = [r \in Requests |-> IF request[r] = "answered" THEN written[r] ELSE <<>>]
  /\ altered' = 0

\* A redial, a close, or the end of the connection.
ConnectionEnds == open /\ ~reading /\ LetGo /\ UNCHANGED got

\* sendAndReceive.
Sends(r) ==
  /\ open /\ ~reading /\ request[r] = "new"
  /\ request' = [request EXCEPT ![r] = "pending"]
  /\ owed' = owed \cup {r}
  /\ UNCHANGED <<got, written, socketVars>>

TimesOut(r) ==
  /\ ~reading /\ request[r] = "pending"
  /\ request' = [request EXCEPT ![r] = "abandoned"]
  /\ UNCHANGED <<got, owed, written, socketVars>>

-----------------------------------------------------------------------------
(* The server and the network.                                             *)

\* A frame as it will arrive.
AsArrives(frame) ==
  {frame} \cup IF altered = MaxAltered THEN {}
              ELSE UNION {{[frame EXCEPT ![i] = n]: n \in Cells}: i \in DOMAIN frame \cap Alterable}

ServerWrites(id, a) ==
  /\ open /\ Len(coming) < MaxComing
  /\ id \in owed \cup {NOBODY}
  /\ \E cells \in AsArrives(answerFrame(id, a)):
       /\ wire' = wire \o cells
       /\ coming' = Append(coming, cells)
       /\ altered' = altered + (IF cells = answerFrame(id, a) THEN 0 ELSE 1)
  /\ written' = [r \in Requests |-> IF r = id THEN answerFrame(id, a) ELSE written[r]]
  /\ owed' = owed \ {id}
  /\ UNCHANGED <<request, got, open, reading, received>>

\* onData, as it is called.
Arrives(n) ==
  /\ open /\ ~reading
  /\ received' = received \o SubSeq(wire, 1, n)
  /\ wire' = SubSeq(wire, n + 1, Len(wire))
  /\ reading' = TRUE
  /\ UNCHANGED <<request, got, owed, written, open, coming, altered>>

-----------------------------------------------------------------------------
(* A round of its loop, with cells at the front of what was received, and  *)
(* len cells received.                                                     *)

HasHeader(len) == len >= HEADER_SIZE
Total(cells) == HEADER_SIZE + cells[2]

\* There is no whole frame yet.
Waits(cells, len) ==
  /\ reading
  /\ \/ ~HasHeader(len)
     \/ /\ HasHeader(len) /\ ReadableHeader(cells) /\ ~TooLarge(cells)
        /\ len < Total(cells)
  /\ reading' = FALSE
  /\ UNCHANGED <<request, got, owed, written, open, received, wire, coming, altered>>

\* The stream cannot be framed any further.
Unframeable(cells, len) ==
  /\ reading /\ HasHeader(len)
  /\ ~ReadableHeader(cells) \/ TooLarge(cells)
  /\ LetGo /\ UNCHANGED got

\* Mutant: the checksum is not looked at.
SettlesUnchecked(r, frame) ==
  /\ request' = [request EXCEPT ![r] = "answered"]
  /\ got' = [got EXCEPT ![r] = frame]

\* A request that waits is answered, or rejected when the checksum is wrong.
SettlesRequest(r, frame) ==
  \/ /\ crcHolds(frame)
     /\ request' = [request EXCEPT ![r] = "answered"]
     /\ got' = [got EXCEPT ![r] = frame]
  \/ /\ ~crcHolds(frame)
     /\ request' = [request EXCEPT ![r] = "lost"]
     /\ UNCHANGED got

Waited(id) == id \in Requests /\ request[id] = "pending"

TakesFrame(cells, len) ==
  /\ reading /\ HasHeader(len) /\ ReadableHeader(cells) /\ ~TooLarge(cells)
  /\ len >= Total(cells)
  /\ LET frame == SubSeq(cells, 1, Total(cells))
         id == frame[3]
         onward == /\ received' = SubSeq(received, Total(cells) + 1, Len(received))
                   /\ coming' = IF coming = <<>> THEN coming ELSE Tail(coming)
                   /\ UNCHANGED <<open, reading, wire, owed, written, altered>> IN
     \/ Waited(id) /\ SettlesRequest(id, frame) /\ onward
     \/ ~Waited(id) /\ id = NOBODY /\ frame[6] # STATUS_OK /\ LetGo /\ UNCHANGED got
     \/ ~Waited(id) /\ ~(id = NOBODY /\ frame[6] # STATUS_OK) /\ onward /\ UNCHANGED <<request, got>>

FramingNext ==
  \/ Connects \/ ConnectionEnds
  \/ \E r \in Requests: Sends(r) \/ TimesOut(r)
  \/ \E id \in Ids, a \in Answers: ServerWrites(id, a)
  \/ \E n \in 1..Len(wire): Arrives(n)
  \/ Waits(received, Len(received))
  \/ Unframeable(received, Len(received))
  \/ TakesFrame(received, Len(received))

FramingSpec == FramingInit /\ [][FramingNext]_framingVars

-----------------------------------------------------------------------------
(* Properties.                                                             *)

\* However the answers are cut into chunks, a request is answered by the
\* frame the server wrote for it, never by an altered one, and once all that
\* was written has arrived unaltered no answer is left unread (onData,
\* transport.ts).
FramesAsSent ==
  /\ \A r \in Requests: request[r] = "answered" => got[r] = written[r] /\ got[r] # <<>>
  /\ open /\ ~reading /\ altered = 0 /\ wire = <<>> =>
       received = <<>> /\ \A r \in Requests: request[r] = "pending" => r \in owed

\* onData gives a connection up only for a frame that was altered, one that
\* is larger than any answer, or the server's word that it could not parse a
\* request: never because of where the chunks were cut, nor of what an
\* earlier connection left behind.
GivesUpForAReason ==
  [][reading /\ altered = 0 /\ open /\ ~open' =>
       /\ coming # <<>>
       /\ \/ Len(Head(coming)) > MAX_ANSWER_BYTES
          \/ Head(coming)[3] = NOBODY /\ Head(coming)[6] # STATUS_OK]_framingVars

=============================================================================
