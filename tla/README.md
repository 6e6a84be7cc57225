# A TLA+ verification of flo-js

flo-js is the TypeScript client of the Flo server: a client over one TCP
connection (`packages/node`), two kinds of workers that poll it for work, and
the encodings and operations they share (`packages/core`). These modules model
what is concurrent, retried and recovered in it, and what its 62 operations
write and read. They are checked with TLC on small instances, and every safety
property they check is proved with TLAPS for every value of their constants.

## The system

| Part | State it keeps | Operations | Talks to |
|---|---|---|---|
| TCP transport (`transport.ts`) | socket, the shared dial, `closed`, `closeCount`, `generation`, `pending`, `abandoned`, the received bytes | connect, redial, close, sendAndReceive; dial, socket, timer and data events | the server; called by the client |
| Client (`client.ts`, `retry.ts`) | the next request id; per call, the attempt and its backoff | sendRequest, sendOnce; connect, redial, close | the transport |
| Result delivery (`reconnect.ts`) | per result: sends made, the connection seen, the grace timer | sendResult, reconnect, sendDrainNotice | the client, shared with other workers |
| Action worker (`action-worker.ts`) | running, stopRequested, draining, noticeDue, pendingTasks, the heartbeat timer; per task, its timeout and its touches | start, stop, close, drain; the poll loop, recover, heartbeats; executeTask, keepTouching | its own client |
| Stream worker (`stream-worker.ts`) | as the action worker's, and the batch in hand | as the action worker's; joining, handing back | its own or a shared client |
| Poll pacing (`poll-backoff.ts`) | a streak, a ceiling | next, waitIf, reset | the workers |
| KV transactions (`kv_txn.ts`) | done | put ... commit, rollback | the client |
| `mget` (`kv.ts`), `sync` (`workflows.ts`) | how far a call of several requests has come | | the client |
| KV, queue, stream, action, workflow, processing operations, wire format | none between calls | encode, send, decode | the client |

JavaScript runs one event handler at a time, so what interleaves is what
happens between two awaits. Everything hard follows from four facts: several
callers share one connection and each may redial or close it; a request's
answer, its timer, and the end of its connection race; a worker's stop, drain,
heartbeats, touches, notices and results go on while its loop awaits something
else; and bytes are counted by prefixes that wrap, in frames cut anywhere. The
hazards this exposes the code to are listed, each at its line, in
`PROJECT.json`, with the properties that would catch them.

What makes each part correct:

- transport: a request settles exactly once and only by its own answer, its
  own timer or the end of its own connection; one socket at most; nothing open
  while closed; a generation names one connection.
- client: a call runs at most once however often it is sent, and its caller is
  told the truth.
- result delivery: a result is not given up while it may yet be delivered, not
  reported delivered untaken, resent a bounded number of times, and never drops
  a connection but the one it failed on; stop and drain are not held up.
- workers: a stop or drain ends the run at whatever point it comes; handlers
  finish within the run; the server's registration says what the worker does,
  and is gone after it; a record read is reported or handed back, not both and
  not neither; a task that is touched keeps its lease.
- operations: the server reads what the caller meant, or the call throws; the
  caller is given what the server answered, or the call throws; a call of
  several requests amounts to one.

## Modules

    Connection   the abstract connection       CallOnce   the abstract call
        ^  ^                                      ^
        |  +--- ResultDelivery (uses it)          | (implements)
        | (implements)                            |
    Transport    Framing <- Chunks              Client
                         (implements)

    ActionWorker     TaskRun     StreamWorker     the workers' runs and tasks

    Codec <- Wire <- KeyValue, Messaging, Tasks, Flows <- Exchange
    MGet    Txn    Sync                           calls of several requests

    MCExchange       what goes into Exchange when it is checked
    MCOperations     Exchange, MGet, Txn, Sync, TaskRun and Chunks, each alone

### The connection and what shares it

**Connection** is what the transport promises those who share it: requests wait
only on a held connection and fail together when it is let go; a new connection
is a new generation; nothing opens while closed. It abstracts sockets, dials,
timers and maps.

**Transport** is `TcpTransport`. Its variables are the class's fields
(`pending` and `abandoned` by their keys), what each caller's promise has come
to, the state of each `net.Socket`, and what the server owes on each. An action
is a method up to its first await, or one event's handler; `redial` includes
the `connect` it calls. A connection that dies is destroyed first, and its
error and close events come later, possibly after another took its place
(`SocketDies`, `SocketGone`). The server answers in any order, late, garbled or
never. Frames arrive whole here: that they do is Framing's matter.

**Framing** is `onData` and what it calls: the answers on a connection are a
stream of cells, one for each field of a header and the payload after them,
that arrives in chunks cut anywhere, and each round of the loop is a step: it
waits for more, takes a frame and settles its request, or gives the connection
up. Connections come and go, so that a part of a frame may be left when one
ends; requests time out; the server answers in any order, with answers up to
the limit and over it, or tells under id 0 of a request it could not parse.
The network may alter a cell of a frame. The chunks are one sequence here.

**Chunks** is what `onData` keeps of them: a list of buffers, of which the
first alone is read, the count `receivedLen` of the cells in all, and
`joinReceived`, which makes one buffer of the list when a header or a frame is
cut by the end of the first. Framing's `received` goes on beside it, never
read, as what came and was not taken: Chunks implements Framing if what is done
with the list is what would be done with that.

**CallOnce** is what a caller of `sendRequest` may rely on: at most one run; an
OK means it ran; a refusal that says it did not run is the truth for good; any
other end leaves it open.

**Client** is `sendRequest` and `sendOnce` with the retry policy. `configured`
is what `retry.maxAttempts` was given as (nothing, no finite number, or a number
in tenths, for its fraction) and `MaxAttempts` what `normalizeRetryPolicy` makes
of it, so that one below 1 still makes one try. Refusals carry a status, what
they say of having run, and whether the reason is a halted shard; the network
may lose any request or answer, and a try that timed out may still be read
later. The server is taken at its word: it runs a request at most once and does
not claim that what ran did not. Client implements CallOnce with `ran` the count
of a call's runs: a second one, of whichever try, is no step of CallOnce.

**ResultDelivery** is `sendResult` and what it calls, one delivery per result,
all on one client that its owner and other workers also connect, close and
redial. Its connection part is Connection's state: every step of it is shown to
be one of Connection's (`UsesConnection`), so it stands on what Transport is
proved to promise. A promise that has settled is gone on with before the next
timer or network event (`Settled`), as the microtask queue has it.

### The workers

**ActionWorker** is a worker's runs. Three chains of awaits go on at once: the
run (`start`), the heartbeat and a caller's `drain`; `at` says where each is,
`reply` what it is about to go on with. The server is external: it reads one
connection's requests in order, keeps a registry entry, may forget the worker,
refuse it or halt, and an operator may drain it there; it does not refuse the
drain notice of a worker it knows. A task only begins and ends here. The pause
before a repeated recover, the pacing of empty polls and the wait for a free
slot are all `pausing`, or part of the step after them. `Resent` says which
requests the client resends after a refusal that did not run them, each once at
most, over whatever connection is held by then. A connection that is let go
takes its unread requests with it out of order: `failAll` only tells those who
wait, and what was written may be read by the server at any later time (`late`,
for the requests in `LateReads`), after others of a newer connection. One
heartbeat at a time is out (several are StreamWorker's case), and one `drain()`
call at a time.

**TaskRun** is one task of it, in ticks: the handler races its timeout, its end
is reported, and `keepTouching` touches the run every third of what it asks the
server for, a touch being out for any time up to the request's timeout, lost,
refused, or read and its answer lost. The server's lease runs on beside it. The
task comes after it was leased: how long after counts as an answer's time
(`slowest`), like a touch's.

**StreamWorker** is the other worker's runs: joining the group and registering,
reading batches, dispatching one record per free slot, handing back what a stop
kept from starting, recovery, drains, and any number of heartbeats at once. A
worker given its client shares it: the owner may close and reopen it, and a
heartbeat of one run may be answered in the next. A message of `wire` is `live`
while it is awaited, and `again` when the client resends it; requests are resent
and read late as in ActionWorker, whether the connection is lost, given up or
closed by its owner; `owed` remembers the records the server delivered, against
which the worker's own `batch`, `active` and `handing` are held. Notices and
results only end here; they are ActionWorker's and ResultDelivery's matter.

### The operations

**Codec** is how bodies are written and read: a layout names its fields, and
`Encode` and `Read` do what `BodyWriter`, `AnswerReader` and the `DataView` code
do, to cells that each stand for a byte. A byte has `RADIX` values, so a prefix
of w bytes counts to RADIX^w - 1 and wraps at a small length: `setUint16` of a
length that is too long is modelled as the remainder it writes. A number that
nothing checks (`Masked`: `addU8`, `addU32`, an `extendMs`, the limit of a list)
is written as its low bytes, which `Narrowed` says of a whole value; `Countable`
says that no length in a value is over what its prefix counts, which for a text
that nothing checks is not refused. A text is its length, and the value that
tells it from others of that length. A layout is a tree at most five deep, so
that each operator on it is given the one that does the same a level below:
there is no recursion over layouts, and what is left to recurse, over the parts
of a field and the bytes of a number, are functions.

**Wire** is `wire.ts` on top of it: the request header and its three prefixes,
the options, the limits `serializeRequest` checks, what `requestBlockMs` reads
back of a serialized request, and what becomes of a status. The answer's header
and its checksum are Framing's.

**KeyValue**, **Messaging**, **Tasks**, **Flows** are the 62 operations, as
tables of what `kv.ts`, `kv_body.ts`, `queue.ts`, `streams.ts`, `actions.ts`,
`worker.ts`, `workflows.ts` and `processing.ts` check, put where in the request,
and read of the answer.

**Exchange** is one call: its arguments are refused or serialized; the server
reads them, and answers well, with another body, or with a refusal; the
operation gives its result or throws. That its frame comes as it was sent is
Framing's matter. What an operation is called with and what it may be answered
are constants (`Tried`, `Values`, `Bodies`, `Refusals`), of which
`InputsAssumption` only says that arguments have the types of the API (any whole
number, texts and lists of any length below 2^32), that a server's values are of
the layout it answers with, and that anything else it sends is made of bytes.
The layouts are what client and server agree on: a field both put in the wrong
place is not found here.

**MCExchange** chooses them: a plain value for each field, and each field at its
limits, one beyond them where there are any, and for the two-byte lengths that
nothing checks at the most they count and one and two more; options alone and in
pairs. Numbers are whole: a fraction or NaN in a numeric field, which JavaScript
would truncate, is not tried. Answers with every value at a limit, and bodies
cut short anywhere, with a cell too many, or with one that is altered.

**MGet** splits keys into runs that fit a frame and asks again from the first
key a page left out; a server may answer a page of any length, of other keys,
or an error. **Txn** is a `Transaction`: calls out at once, resent when refused
as not run, to a server that buffers writes until the commit. **Sync** is
processes that sync a directory of workflows at once, each reading the version
before it writes.

### Proofs and mutants

**TransportProofs**, **CallProofs** (of Client, MGet, Txn and Sync),
**DeliveryProofs**, **ActionWorkerProofs** (of TaskRun too),
**StreamWorkerProofs**, **FramingProofs** (of Chunks too), **CodecProofs** and
**ExchangeProofs** (of the operations) hold the theorems. MCOperations also
gives a checksum and answers to Framing; the MC modules of the workers and of
the connection only add symmetry for TLC, or a place for a cfg.

Definitions marked "Mutant" in a comment are plausible wrong versions of the
definition that follows them; no specification uses them. Each property is
checked to fail when one of them takes that definition's place.

## Runs

| Run | Instance | What it shows |
|---|---|---|
| `transport` | 2 callers, 2 requests, 3 dials, 1 close; 160 362 states | the bookkeeping of requests, sockets and generations; who is told of a loss; every call settles; Transport implements Connection, fairness included |
| `client` | 2 calls; maxAttempts unset, not finite, 2.5 and -0.5; 485 884 states | at most one run, truthful results, no more tries than were asked for, calls end; Client implements CallOnce |
| `result` | 1 result, 3 sends of 2 tries, 4 connections, 2 closes; 305 658 states | delivered means taken; not given up early; resends bounded; only the failed connection dropped; an owner's close final; leaving ends; only Connection's steps used |
| `worker` | 1 handler slot, registrations and heartbeats resent, registrations of a dropped connection read late; 189 842 states | a stop and a drain end the run; nothing but a resent or late registration outlives it |
| `stream_worker` | 1 slot, batches of 2, 2 heartbeats at once, own and shared client, both registrations resent, a heartbeat's read late, 1 request given up; 702 092 states | records in one place each; nothing but a resent or late registration outlives a run; leaving ends |
| `operations` | radix 4; 4 keys of 3 bytes in frames of 8; 4 transaction calls; 2 processes, 2 workflows, 3 starts; a task of 14 ticks; 1 request, 2 frames of up to 9 cells on the wire at once, 1 cell altered on a connection, 3 chunks; 1 463 344 states | the wire, `mget`, transactions, sync, tasks; frames read as sent however they are cut, and Chunks implements Framing |
| `result_stream_error`, `worker_drain_told`, `worker_ghost`, `wire_long_keys`, `sync_nested_version`, `task_throws_at_call` | small ones | violated, see below |

Why the bounds are enough. Two callers are what a race for a dial or a redial
takes, and three dials what it takes for an old connection, its replacement and
a late event of the old to meet. A call is independent of the others but for the
mixing of answers, which two show; four tries, the default, have a first, two in
the middle and a last, and the other values are those that
`normalizeRetryPolicy` treats apart. `RESULT_SENDS` is the code's 3 in `result`,
with two tries under each send, so that a resend by the client underneath a send
can move to a later connection, and one connection more than sends, as each send
takes a new one. One handler slot tells a full worker from a free one; a batch
of two over it has a record running and one waiting for the slot. Histories in a
run of a worker are not bounded: it is started again and again, and only the
heartbeats out are (`MaxBeats`, two answer in either order around the end of a
run), the requests given up on a connection still held that may be read yet
(`MaxOrphans`; one in `stream_worker` and `worker_drain_told`, none in `worker`,
where the late reads take their place), and of what was written on dropped
connections each kind of request is in `late` once. The requests resent and read
late (`Resent`, `LateReads`) are those that a registration outlives its run by;
the proofs are for any. The client resends a worker's request once at most (as
with `maxAttempts` 2): what is resent again reaches the server as what waited
longer to be resent.

Two frames on the wire are one cut anywhere with the next behind it, and three
chunks a header or a frame cut twice; the answers are one exactly as large as
any may be, one a cell larger, and a refusal without a message. The cell
altered is the magic, the length, the id or the payload, and takes a value that
is the request's id and another length. One request has another beside it in
the answers under id 0. Connections are not bounded.

At radix 4 a two-byte prefix wraps at 16. A text, list or body with a limit is
tried at it and one beyond; a text or list counted by two bytes and checked by
nothing at 15, 16 and 17; one counted by four at up to two, and as a text that
alone is as large as a value may be; a number at both ends of its field, and one
below and above. Four keys in frames of two make a run of one page, one of two,
and a second run. Two processes and three starts are a race and a later start
that finds its outcome. The ticks are those of a lease that is over between two
touches, one that is not, one longer than a touch may ask for, and one so short
that the least interval stretches it.

Where TLC's deadlock check is off (`CHECK_DEADLOCK FALSE`) the system does
rest: every call ended, or the bounds used up and the client closed. The
workers' runs keep it on.

### What the properties say

- `InFlightIsAccounted`: whatever a caller waits on is in `pending`, whatever
  `pending` or `abandoned` holds was written on the connection held, its answer
  owed there; nothing else can be taken for an answer, and nothing is kept for
  good. `OneSocket`: connects, redials and closes in any order leave no socket
  but the one held or dialed, and none once closed.
- `NotGivenUpEarly`: a result is dropped only for what its comment allows (the
  server's own refusal, its sends used up, the worker leaving, the client
  closed) and the one more case below.
- `TriesBounded`: a call makes at least the one try and at most the whole number
  asked for, whatever `maxAttempts` was given as.
- `GhostsAreLate`: once the server took a run's deregister, nothing registers
  the worker before its next start but a request that the client resent, or one
  read after its connection was dropped. The code's comments promise more, that
  none does (`NoGhost`), which these two make false (`worker_ghost` shows
  it of a resend): what the workers themselves can see to, that no heartbeat
  answered after the end of its run registers again, holds.
- `HeldOnce`: what the server delivered and has not been answered is in the
  batch, in one handler or in one hand-back.
- `RequestReadAsMeant`, `AnswerReadAsSent`, `RefusalReadAsSent`: a call either
  throws or means to the other side what it meant to this one. Two things are
  told apart, as the code does both in silence: a number that nothing checks is
  read as its low bytes (a priority of 256 as 0), and a text too long for two
  unchecked bytes (a task result of 64 KB) makes the value that holds it
  unreadable as it was meant. Of the latter the property only says that nothing
  outside the value is read differently. `HeldAsLongAsAsked`: a request is
  waited for as long as it asks the server to hold it.
- `FramesAsSent`: a request is answered by the very frame the server wrote for
  it on this connection, however the stream was cut and whatever cell was
  altered, and when all has arrived unaltered nothing is left in the buffer and
  nobody waits for what came. `GivesUpForAReason`: a connection is given up only
  for an altered frame, one that is larger than any answer may be, or the word
  of the server that it could not parse a request; a cut, or what an earlier
  connection left, is no reason. `ImplementsFraming`: the list of chunks, joined
  only when one is too short, is never read otherwise than what came.
- `EachKeyOnce`, `EndsOnce`, `SyncedWhileCalled`: `mget` answers each key, once,
  in order; a transaction is ended by one request, and every call told the
  truth; what `sync` tells was so at some moment while it was out (by the time
  it is told another process may have written another version, an older one too:
  the server takes any).
- `LeaseKept`: with autoTouch on, a run whose handler goes on keeps its lease
  as long as the touches that failed in a row and the slowest answer leave time
  for one more. How many that is follows from the code's numbers: a touch every
  third of the lease, so two may fail if answers take no time, and one if they
  take under a ninth of the lease. The comment at `action-worker.ts:746` ("so
  two can fail in a row") leaves answers out: with any delay the third touch
  comes as the lease lapses. `TouchesEnd`: no touch is sent once the handler is
  over.

### Violations

These runs are expected to violate their property; `PROJECT.json` quotes what
they disagree with.

- `RefusedByTheServer`: `failAndDestroy` fails all that is in flight with the
  `ServerError` meant for one request the server could not parse (id 0), and
  `lost` takes any `ServerError` as the server's answer to the result. A result
  the server never answered is dropped, not sent again. `NotGivenUpEarly`, which
  does pass, names this case as one of its exceptions.
- `DrainTold`: registering marks the worker active, and `noticeDue` is set again
  only when a heartbeat's registration returns. Told of the drain, forgotten by
  the server and registered again by a heartbeat whose answer is lost, a
  draining worker stays active on the server. The same happens when a drain's
  notice is settled while `recover()` is still registering.
- `NoGhost`: a heartbeat's registration, refused unrun, waits in `sendRequest`,
  which does not know that the run has ended, and may be resent after the
  deregister. One written on a connection that was dropped may be read after
  it just as well. `GhostsAreLate`, which does pass, names both.
- `RequestReadAsMeant` with keys of exactly `MAX_KEY_SIZE`, 64 KB, which
  `serializeRequest` lets pass: the two-byte length wraps to 0.
- `SyncedWhileCalled` with definitions whose steps have a version: the first
  line that starts with `version` is compared, a step's or not, and a changed
  definition is told to be unchanged.
- `TouchesEnd` with handlers that throw before they return a promise: the
  `finally` that stops touching is never reached, and the touches go on until
  one is refused as Conflict, not found or bad request; after the worker's run
  each finds no client, which stops none.

One more disagreement has no run, as no property of a behaviour is at stake:
`kv_txn.ts` (200-203) says that to roll back after a commit "(or vice versa) is
a no-op"; a commit after a rollback throws `TxnFinishedError`. `Txn` has it as
the code does.

### Fairness

Nothing is assumed of the network or of the server anywhere. `Transport`: timers
fire (`RequestTimeout`, `DialFailed`, which includes the dial's timeout) and
Node emits close for a destroyed socket. `Client`: a try ends by its timeout at
the latest (`Lose`) and a wait by its timer. `ResultDelivery`: settled promises
are gone on with; timers are strongly fair, because a due timer is only held
off while other promises settle (`Settled`), and the event loop comes back to
it. `ActionWorker` and `StreamWorker`: awaits resume, requests time out, and
handlers end (each has its timeout, and its result ends as ResultDelivery's
`LeavingEnds` says). The `operations` run states only safety.

## Proofs

Each module proved about has its own inductive invariant, for any sets and any
bounds within its ASSUMEs, which but for `ChecksumDetects` only give the
constants their types. The types of a client and of a delivery are proved and
are in no run.

- `TransportProofs` (`IInv`): `pending` is exactly what is waited for, all of it
  and of `abandoned` was written on the socket held, and the server owes an
  answer to it there, without which `InFlightIsAccounted` is not inductive: a
  request that times out must have been owed while it was pending; what each
  socket's state says of `socket`, `connecting` and `dials`; and that every
  generation made is at most the current one, which makes the next one new.
  From it follow the run's invariants, both action properties, and that every
  step is a step of Connection or a stutter.
- `CallProofs`, of a call (`IInv`): what may be on its way of a call in each
  phase (before a further try, nothing), and that the answers on their way tell
  the truth of the runs. From it the run's invariants, for anything
  `maxAttempts` may be configured as, and that Client implements CallOnce: since
  every run is a step there, that a call runs twice would have to be one, and is
  none.
- `DeliveryProofs`: `SendsInv` counts a result's requests against its sends,
  `TakenInv` what the server took against what is on its way, and
  `ConnectionInv` says on which connection each was written. The second needs
  cardinalities: a send is taken, on its way or refused, never two of these.
  From it all the run's safety, `UsesConnection` included (for
  `MaxGenerations` of at least 1).
- `ActionWorkerProofs`: of the requests on the wire, or waiting to be resent,
  each chain awaits at most one, the one it is at (`MailInv`). None that is sent
  for the first time is behind an awaited deregister and could register the
  worker (`Ordered`): once start() is at `deregister` the worker is not
  `Running`, so that a heartbeat's answer no longer leads to a registration, and
  what was sent before on the same connection is read before. After a run that
  parted none is left on the wire (`PartedInv`), so that what registers the
  worker was resent or comes from `late` (`OnlyLateGhosts`, for any `Resent` and
  `LateReads`).
- `StreamWorkerProofs`: the same of its wire, with any number of heartbeats
  there, live or given up, of this run or of an earlier one (`WireOK`,
  `WaitInv`, `PartedInv`); and that records are in hand-back only where the loop
  awaits it (`RecordsInv`), which makes `HeldOnce` inductive.
- `ActionWorkerProofs`, of a task: `LeaseInv` is a budget. What is left of the
  lease and what touching has used up since the last one taken (an interval and
  an answer for each that failed, the interval that runs, the answer that is
  out) are the lease together, at least. `LeaseKept` follows by arithmetic, for
  every timeout, interval and wait. `TouchesEnd` is proved for handlers that do
  not throw at their call.
- `FramingProofs`: `Framed` says that the cells received and those on the wire,
  one after the other, are the frames that are coming, though the code never
  writes down where one ends: it counts on from each header's length. Half of
  the proof is what appending a frame, taking the first, and cutting the cells
  elsewhere do to the places where frames end. The other half is what comes:
  each frame is as the server wrote it for a request it owes no longer, or that
  with one cell altered, by which its header or its checksum fails (`AllCome`);
  and without an altered one, whoever waits is owed an answer or has it coming
  (`Accounted`). Two things are assumed of the checksum and the network.
  `ChecksumDetects`, an ASSUME of Framing: the checksum tells an answer from one
  that differs in one cell, as CRC32C does of up to 32 bits in a row. And, for
  `FramesComeAsSent` alone, that the length is not what was altered (`2 \notin
  Alterable`): a frame cut at a wrong length is summed over other cells than
  were sent, and no checksum promises to tell that. `operations` tries altered
  lengths with a checksum that does tell them. `GivesUpRightly` and
  `FramingTypes` need neither; once an altered length was read the frames are no
  longer where they were, and `Framed` says nothing (`Intact`). Of Chunks,
  `Kept` says the same of the chunks and the cells received as `Framed` of the
  frames and the cells that come, so that a chunk that arrives and one that is
  used up are frames added and taken, and what is new is a chunk used in part
  (`ShorterFirst`) and all of them joined (`JoinsAll`: were the first n chunks
  joined not the cells up to the end of the n-th, the least such n would have a
  predecessor for which they are). `JoinedLeads` then gives each round the same
  header and the same frame as Framing reads, altered cells or not.
- `CallProofs`, of `mget`: the runs cover the keys in order and each fits a
  frame (`SplitInv`), and the entries are those of a first part of them
  (`AskInv`).
- `CallProofs`, of a transaction: `done` stands exactly while an ending was sent
  (`HandleInv`), and what a call was told to have done is what the server holds
  (`ServerInv`).
- `CallProofs`, of `sync`: while the sync of a file is out, what is
  stored under its name is among what was held since it was called, and what
  made it create or update is too (`OutInv`), which makes `SyncedWhileCalled`
  inductive whoever else writes. It is proved for definitions whose steps have
  no version of their own; with them it is false (`sync_nested_version`).
- `CodecProofs`: two round trips, for any radix of a byte and any layout that is
  well-formed (`LaidRow`: a length is limited to what its prefix counts, or
  nothing limits it, and then `Countable` must say that it fits). What is
  written is read back whole but for the high bytes of a number that nothing
  checks (`ReadWritten`, of the value `Narrowed`), and what an exact reader
  takes, written again, is the cells it took (`WrittenRead`); the readers that
  are not exact (a lax list, a flag byte of which any value but one is the same)
  are only in the first. Both go up the five levels: a field is read as written
  if its parts are (`Composes`), recovered if they are (`FieldRecovered`). The
  functions that recurse over parts or bytes are each shown to satisfy their
  equation, from which the rest follows by the least number for which it would
  fail (`Least`, `Climb`), as a proof by induction would.
- `ExchangeProofs`: every one of the 62 operations has well-formed layouts, and
  an exact answer but for three readers (`OperationsLaid`). `ExchangeInv` only
  says where the request and the answer at hand come from: what is proved is
  about data. `RequestsReadAsMeant` and `AnswersReadAsSent` are the round trips,
  through the envelope of a request and the checks made of an answer. The
  arguments are any of the types of the API, over-long texts and numbers too
  wide included: the envelope is read as written whatever the value's cells are,
  and the options, whose numbers are cut before they are written, as the cells
  of their `Narrowed` values (`OptionsNarrowed`). `RequestsHeldAsLongAsAsked` is
  harder, since `requestBlockMs` has no layout: the scan of the options is
  followed from their last to their first, over options given and not given, to
  show that it stands at the start of each (`BlockScans`, `BlockRead`), so that
  no length or value is taken for a tag, and that it finds the one BlockMS. The
  two about requests hold where the key's length is not exactly `MAX_KEY_SIZE`
  (`KeyFits`), the one length for which they are false (`wire_long_keys`).

Only model-checked: liveness, under fairness and with ENABLED, which is out of
the proof system's reach.

## Not modelled

Logging, wording and quoting; the text of names (their lengths only) and the
numbers behind a wait: `Backoff`, the waits of `normalizeRetryPolicy`,
`EmptyPollBackoff` and `HaltBackoff` say how long a step waits, and every wait
here is a step that may take any time. The touches a handler makes itself, which
are calls like any other. `processing.sync`, which submits each file with no
guard and keeps nothing. Type declarations, examples and build files.
`PROJECT.json` lists every component with what is left out of it.

## Plan

What is left, in order:

1. `Backoff`, `EmptyPollBackoff` and the waits of `normalizeRetryPolicy` as
   operators, against what their comments say of ceilings and jitter.
2. Several `drain()` calls and several heartbeats at once in `ActionWorker`, as
   StreamWorker has them, and `GhostsAreLate` proved of them.
3. How a server reads a value with a text too long for its two bytes, field by
   field: which of them it can tell, and which it takes for another.
