# Verification of Tracebox

TLA+ models of the Tracebox data logger, TLC configurations that check them on
small instances, and TLAPS proofs of their central properties.

- `tlc -config X.cfg MCmodule` runs one of the configurations below.
- `tlapm M.tla` checks the proofs of a module: `LogWriterProofs`, `StorageProofs`,
  `ServerProofs`, `TraceboxLoggerProofs`, `StreamWriterProofs`,
  `ReadSessionProofs`, `ExportProofs` (about four minutes), `Folding`.

`PROJECT.json` lists the components, the runs, the source lines behind every
definition, the hazards, the findings and the theorems.

## 1. The system

| Component | State | Operations | Talks to |
| --- | --- | --- | --- |
| `Server` (`libs/tcp_server`) | life-cycle state, epoll/eventfd/listener descriptors, accepted clients, service thread | `start()`, `stop()`, the epoll loop `run()`, `handleLogRequest()` | calls its callback on the service thread |
| `TraceboxLogger` | a `LogWriter` and a `Server` | constructor, destructor, `handleLogRequest()` (parses a `LogRequest`, calls `add()`) | `Server` -> `LogWriter` |
| `LogWriter` | queue, `stopping_`, mutex and condition variable, worker thread | `add()`, `wait()`, `writingThread()`, `stop()` | calls `Storage::write()` on the worker |
| `Storage` | `available_bytes_` | constructor, `write()` | `FilesystemStorageBackend` |
| `FilesystemStorageBackend`, `Folder` | day directories, the active day, its channels | `usedBytes()`, `removeOldest()`, `write()` | one `StreamWriter` per channel |
| `StreamWriter`, `FileIO` | an index and a data stream, `offset_`, `last_flush_` | `openFile()`, `reopenFile()`, `write()`, `closeFile()` | the file system |
| `LogReader`, `StorageScanner`, file readers | none that lasts | `getStreams()`, `getData()`, `read()` | the files, concurrently with the writer |
| `TcpSocket`, `TcpClient`, `LogReadClient`, `LogClient` | one descriptor | `connect()`, `logData()`, `getResponse()` | a `Server` |
| `StreamsCombiner`, applications, public API facade | per-second buckets; none | merging, printing, forwarding | the clients |

`apps/logger.cpp` is one `Storage`, a `TraceboxLogger` and a `LogReader` in one
process. Threads: any number of callers of `add()`, one worker per `LogWriter`, one
service thread per `Server`, and the owner that constructs and destroys them.
Writer and reader share nothing but files.

What is hard here, and what makes each part correct:

- **LogWriter**: unlock-then-notify, `add()` racing with `stop()`, an exception
  that ends the process. Correct: nothing accepted is lost, duplicated or
  reordered; a sleeping worker is always owed a notification; `stop()` returns,
  and only with the queue drained.
- **StreamWriter and readers**: two buffered files that must agree, I/O errors
  at any call, death of the process at any point, file-name collisions, a
  32-bit offset. Correct: a reader gets the record an index entry was written
  for or an error, and what was flushed stays readable.
- **Storage**: a byte budget kept by estimates, eviction of whole days (the
  active one included), samples of different days interleaved, writes that fail
  after a part was appended, buffers and removals cut short by a crash, restarts.
  Correct: the budget never wraps, records land in their own day, what was stored
  goes only with the oldest day or with a lost buffer, both eviction loops end.
- **Server**: start and stop against a service thread in any state, descriptors
  that two threads close, a loop that may end by itself. Correct: no callback
  after `stop()`, a clean restart, no orphaned or doubly closed client.
- **Read session**: frames cut anywhere, receive time-outs, non-blocking
  descriptors, responses that are truncated or never sent. Correct: an answer
  is the whole answer to its own call.
- **TraceboxLogger**: destruction at any moment while the service thread reads a
  frame or is inside the callback. Correct: the callback never meets a stopped
  writer, what was handed over is written before the destructor returns, the
  requests of one connection keep their order, and the destructor returns.
- **Discovery and reading**: files that appear, grow and are evicted between two
  looks at the directory; an index and a data file opened at different moments;
  pages of a file that grows. Correct: what stays is found, and what is
  returned without an error has no gaps and no repetitions.
- **Merging**: runs of a second collected and stored late, files and pages of one
  channel in one second. Correct: every wanted record once, with the index of
  its channel, second by second.

## 2. Modules

| Module | Models | Used by |
| --- | --- | --- |
| `LogChannel` | abstract: a FIFO channel that can be closed | `LogWriter` (refinement) |
| `LogWriter` | `log_writer.{h,cpp}` | `MCLogWriter`, `LogWriterProofs`, `TraceboxLogger` |
| `StreamWriter` | `stream_writer.{h,cpp}`, `file_io.h`, and the readers of `log_reader` as operators | `MCStreamWriter`, `StreamWriterProofs` |
| `Retention` | abstract: records by day, the oldest day given up first, buffered records at risk | `Storage` (refinement) |
| `Storage` | `storage.cpp`, `storage_backend.cpp`, `folder.{h,cpp}` | `MCStorage`, `StorageProofs` |
| `Server` | `tcp_server.{h,cpp}` | `MCServer`, `ServerProofs`, `TraceboxLogger` |
| `ReadSession` | `tcp_socket.h`, `tcp_client.cpp`, `reader_client.{h,cpp}`, the service side of a read request | `MCReadSession`, `ReadSessionProofs` |
| `TraceboxLogger` | `tracebox_logger.h`, `log_client.cpp`, `tcp_client.{h,cpp}`: `Server` and `LogWriter` composed | `MCTraceboxLogger`, `TraceboxLoggerProofs` |
| `StorageScanner` | `log_reader.h`, `storage_scanner.cpp`, `stream_reader.{h,cpp}`, `idx_file_reader.h`, against a writer | `Export` |
| `StreamsCombiner` | `streams_combiner.{h,cpp}`, as operators | `Export` |
| `Export` | `get_can.cpp`, and clients of `Reader`: discovery, fetching and merging composed | `MCExport`, `ExportProofs` |
| `Folding` | induction over a loop written as `FoldLeft`; no code | `ExportProofs` |

Variables carry the names of the members they stand for (`queue_`, `offset_`,
`available_bytes_`, `client_fd_`); a variable such as `worker`, `pc` or
`service` is the position of a thread in the code. Variables marked as history
are read by properties only. Operators commented *mutant* are deliberately
wrong variants of the definition below them, used to confirm that a property
notices the corresponding mistake; the specifications do not use them.

### LogWriter

A critical section of `mutex_` holds no blocking call and is one step; the
`notify_one()` after it is another. `Take`, `Exit` and `Block` are the three
ways out of the predicate test in `wait()`; `SpuriousWakeup` is the freedom of
the condition variable. `WriteThrows` is an exception of `Storage::write()`
that nothing catches: the process is gone and no step follows.

### StreamWriter

A file is the sequence of what was appended to it; `disk` says how long a
prefix has left the `std::ofstream` buffer. Readers see that prefix, and
`Crash` keeps only that prefix. Each action is a stretch of code with at most
one effect per file, so crashes and reads fall between any two. A failed write
leaves the stream bad for good (`"bad"`), with the new element buffered or not
and any part of the buffer drained; this is what `std::ofstream` does and what
makes a stale `offset_` harmless. `elapsed` stands for the one-second flush
interval. Timestamps within a pair and byte-level tearing are abstracted: a torn
last element counts as absent, which is what the readers' size checks make of
it. `record_size_` is chosen at the start from `RecordSizes`, so that one run
covers fixed (index file alone) and variable records. With budgets that fit an
`int`, `Storage` evicts before a data file gets near 4 GiB, so the roll-over is
reachable only through larger budgets or direct use; `MaxOffset` is scaled down
so that it happens in a few records.

### Storage

Of a channel only its bytes and the ids of its records matter here. Headers reach
the directory at once; records wait in the stream buffers of their channel
(`pending`, `buffered`) until they are flushed or pushed out, or until the `Folder`
is destroyed, which ignores a flush that fails (`CloseFolder`). `WriteFails` is
every error return of `StreamWriter::write()` on an open channel: nothing, a part
or all of the record was appended, or what was buffered is lost (`LoseBuffers`);
`write()` returns `-EIO`, the channel stays bad and nothing is charged
(`uncharged` remembers how much). The data stream of a bad index goes on taking
records. `orphaned` says that the active directory was evicted under its open
streams. Bytes in directories whose name is not a number are counted by
`usedBytes()` but never evicted (`ForeignBytes`). `Crash` may come at any point and
loses the buffers; while a day is being removed it may leave any part of it, with a
size from `Leftovers`. Directory names that are numbers without being the canonical
form of one, and files changed by others, are not modelled.

`Retention` is what a user of `Storage` may rely on about the records themselves:
each goes into its own day or nowhere, and space is made by giving up the oldest
day that has records, as a whole (`Expire`) unless a crash interrupts it (`Break`).
A record is at risk as long as only a stream buffer has it, and only records at
risk are lost otherwise (`Settle`). `ImplementsRetention` maps the number of
requests, their days, the records held per day and the buffered ones to it; opening
files, charging bytes, restarts and refused writes are stuttering.

### Server

`start()` is one step because it runs under `lifecycle_mutex_`; only its success
changes anything. `stop()` is `StopSignal`, `StopCheck`, `StopJoin`,
`StopFinish`. The service thread has one action per stretch between two reads
of `state_`. `EpollFails` is every way the loop can end by itself. One owner
calls `start()` and `stop()`, as all code in the repository does; the public API
documents that one object must not be used by several threads at once. A
connection is `away`, `open`, or closed by its peer (`left`), with a queue of
frames the server has not read (`unread`); a peer sends ahead without waiting, and
may leave with frames still unread. A client that reconnects uses another
connection, while the server may still hold the old one.

### ReadSession

A unit of a byte stream remembers its frame and position. A reader that starts
at a frame boundary decodes the frame; a reader that has lost it takes what it
finds for a length and ends up with `Garbage`. The client's `recv()` may give up
whenever nothing is there to read; the server's `recv()` and `send()` fail with
EAGAIN when nothing has arrived or the socket buffer (`Capacity`) is full.
`clean` remembers that no call on this connection gave up on bytes still under
way.

### TraceboxLogger

`Server` and `LogWriter` are instantiated over the variables of this module, so
every step is theirs; `MaxStarts` is 1 and the service thread is the only
producer. The module adds what the callback does between `CallBack` and
`CallbackReturns` (parse, `add()`, notify), and the owner: the constructor, whose
`server_.start()` may fail unnoticed, `~TraceboxLogger()` which stops `server_`,
the destructor of `server_` which stops it again, and then that of `writer_`. A
frame is a client, a number in the order of sending and the connection it was sent
on. `logData()` waits for nothing: a client sends ahead, and what it sends after the
server closed the connection is lost. `connect()` disconnects first and takes a
new connection at once, so old and new connections of a client coexist. The loop
reads one frame per ready descriptor and turn: a frame of the new connection may
be handled before one left on the old, and only the order within a connection is
kept (`InConnectionOrder`). Clients in `Malformed` send frames that do not parse.

### StorageScanner

A `FileReader` learns the length of a file when it opens it and keeps it open,
so what it reads later is decided then; the steps of the service thread are the
moments at which it looks at the file system: listing (`Visit`, `EndScan`),
`Resolve` (`resolveIndexPath()` with its `IndexFileReader`), `OpenIndex`,
`OpenData`; `Match` (time range and the loop of `getData()`) looks at nothing
new. Between any two of them the writer may create either file of a pair, append
an index entry with or without its record, or unlink one file of the oldest
day. A directory listing yields every entry that stays and perhaps those that
come or go. A file that vanishes under `relative()` or `weakly_canonical()`
makes the scan skip the rest of that day, a file without a header on disk only
itself. The initial state is any folder a writer may have left, data behind
its index included. Timestamps within a file may be out of order. Records of
time 0 are left out: `read()` takes 0 for an error. For channel names that fill
`name_[32]` (`LongNamed`) the comparison of the headers may go either way.

### StreamsCombiner and Export

A combiner is a record of its members and its methods are operators on it. In
`Export` a client lists the streams of a range, fetches each of them and gives
the records to a combiner. There are four kinds of client: `get_can` itself,
which never gets past the list, because it looks at `data_size()` of a response
that carries only streams (`NoRecords`); and users of the library that take the
way `get_can` has after that line, with whole files (as `get_can` asks for them),
pages of one record, or a server-side time filter. Each exchange succeeds; what
a failing connection does is the subject of `ReadSession`.

## 3. Runs

| Run | What it shows | Instance |
| --- | --- | --- |
| `writer` | FIFO without loss, no lost wakeup, drained stop, refinement of `LogChannel`; every accepted request is written, `stop()` returns | 2 producers, 2 requests, 5 adds, exceptions |
| `stream` | readers get the right record or an error; flushed records survive; `offset_` tracks the file | fixed and variable records, 4 requests, sizes 0 and 20, 1 I/O fault, any number of crashes, 3 names in one second |
| `storage` | budget, placement, bounded overshoot; both eviction loops end; refinement of `Retention` | 2 days, a fixed and a variable channel, budget 200 bytes, 3 writes of which any may fail, one size larger than the budget, any number of crashes, removals that leave nothing, an index or a data file |
| `server` | life cycle against clients; `stop()` returns, last frames are read | 2 connections, each with up to 2 unread frames, 3 starts |
| `session` | exact answers on a clean connection; every call returns | 3 calls, 2 connections, responses of 0, 1 or 3 units, room for 4 |
| `logger` | handed over is accepted and written; order per connection; the destructor returns | 2 clients, one of them malformed at will, 2 connections, 2 frames in all, exceptions of the storage |
| `export` | discovery, fetching and merging are exact while files come, grow and go; output by second | 4 kinds of client, 3 files on 2 days (1 variable, 2 fixed), 2 channels, up to 2 records per file and 3 in all, 2 changes by the writer |

Bounds. Four requests are enough for a record before, at and after a roll-over
with a crash in between; three names for two collisions. Two days in any order
give every relation of active, oldest and new day; one record of each kind and
their headers fill the budget, so that three writes evict the active day and
write on, or fail, evict and restart. Two connections give one being served
while another connects, sends or leaves; three starts cover restart after stop
and after a loop that ended by itself. Three calls and two connections cover a
late answer, a garbled frame after it and the recovery by reconnecting. In
`logger`, two frames make two unread frames of one connection, two connections
of one client, or one of each of two clients, a queue of two requests, and a
frame lost before one that arrives; the destructor may begin in every state. In
`export` every folder of up to three records is an initial state, so the two
changes only have to produce the races: an entry and an eviction, two unlinked
files of a day, a data file that appears between two opens. A page is one
record, so that two pages are the rule. Times 5, 6, 7 and 8 with seconds of two
units give two timestamps in one second, two seconds of one day and a second
day. Nothing is claimed about the end of an export: a client that pages through
a file that grows for ever need not end.

Deadlock checking is off where a behaviour may end (all requests submitted,
process terminated, export done) and on for `Server`, which can always be
stopped or started.

Fairness. `LogWriter`: weak fairness of each thread that can run; nobody is
obliged to call, and a storage that throws excuses what follows. `Storage`: the
thread inside the constructor or `write()` runs on. `Server`: weak fairness of
both threads, a callback returns, and strong fairness per client for the events
of the loop, because one `epoll_wait()` reports every ready descriptor.
`ReadSession`: only the caller's thread and its receive time-out; nothing of the
server or the network. `TraceboxLogger`: the destructor, the service thread and
the worker, each for the steps that do not wait for someone else; nobody has to
begin the destruction and clients owe nothing. `StreamWriter` and `Export` state
safety only and assume none.

### Disagreements between the code and its documentation

Five runs are expected to be violated; each checks one statement of the
documentation or of a comment (see `findings`).

| Run | Statement | What happens |
| --- | --- | --- |
| `stream_index_after_data` | the index entry is committed after the data | `closeFile()` flushes the index first; a crash in between leaves entries without records. Readers report an error (`ReadRightOrError` holds) |
| `storage_accepted` | positive result means accepted | the active day is evicted and records go to unlinked files; their bytes stay charged, so that `write()` later refuses records although there is room |
| `session_late_answer` | data according to the requested parameters | an answer that arrives after the time-out is returned to the next call |
| `session_pieces` | the receiver loops until the payload is complete | accepted descriptors are non-blocking: a frame in two segments closes the connection |
| `export_by_time` | the combined stream is ordered by timestamps | `OneSecondData::sort()` has no caller: streams with records in one second follow each other. The output is by second (`OutputBySecond` holds) |

Met while modelling, without a run of their own: directories that are not a day
are counted by `usedBytes()` and never evicted, and the constructor ignores that
nothing was removed, so one that holds more than the budget makes it loop for
ever (with `ForeignBytes` above `max_size`, `Storage.cfg` shows
`StartupFinishes` violated), although durability-and-recovery.md says that
start-up evicts and then "starts normal writing"; neither the header bytes of
new files nor records whose write failed half-way are charged, so the files may
exceed the configured total, and with a bad index without limit
(`OvershootBounded` says by how much); requests of a client that reconnects may
overtake those left on its old connection (no document says otherwise);
`get_can` always reports that there are no records (`NoRecords`) and computes
the month of its range wrongly; `localtime()` is called by the writer's worker
and by the reader's service thread of one process. Also: the facade narrows the
byte limit to `int`, so that from 2 GiB on it turns retention off; the queue of
`LogWriter` has no limit; a channel whose first `openFile()` fails refuses every
record until the day changes (`OpenChannelFails`, `RefuseRecord`); an index of
fixed-size records may outgrow the 32-bit size its reader keeps; a client that
pages with a time filter and advances `start_idx` by what it received gets
records again, because `start_idx` counts the skipped ones too; channel names of
32 bytes and more are read past `name_`; a storage path or channel name that
contains `.idx` loses its data files to the reader; `get_can` does not check the
result of `getData()` for null.

## 4. Proofs

For every value of the constants, from the assumptions named in the modules.

**LogWriterProofs** (from `LogWriterAssumption`). The inductive invariant is
`IInv == TypeOK /\ HandInv /\ FifoNoLoss /\ NothingStranded /\ NoLostWakeup`.
`HandInv` is what the properties leave out: the worker holds exactly one request
while writing and none otherwise, and a completed `stop()` means that the worker
is done. Without it `Write` could append anything to `written`. One lemma per
part (`TypeStep`, `HandStep`, `FifoStep`, `StrandedStep`, `WakeupStep`) goes
through the actions; `MoveFront` and `AppendBack` are the facts about sequences.
`DrainCorrect` follows: stopped implies done, done implies an empty queue, and
then FIFO says `accepted = written`. `Refinement` maps `Write` to `Deliver`
(`NextInOrder`: by FIFO the request in hand is the next accepted one), `Add` to
`Accept`, the first `Stop` to `Close`, and everything else to stuttering.

**StorageProofs** (from `StorageAssumption`). `BudgetInv` adds to the types that
once the space check has passed (`pc` in `day` or `channel`) the estimate still
fits, since nothing between the check and the charge touches
`available_bytes_`; `EstimateIsEnough` says that no record exceeds its
estimate. `DayInv` (with `PlacementInv`) carries the day of the request in
progress through the steps of `write()`: at `channel` the active folder is the
day of the request. `RetentionRefinement` needs two more invariants: `DirInv` (a
day with records has its directory, and so has the active day unless it was
evicted), so that evicting the oldest directory gives up the oldest day with
records; and `BufferInv` (a buffered record is held by the active day, which was
not evicted, and in the buffer of one channel only), so that a lost buffer takes
nothing from another day and an eviction leaves nothing at risk. `RetentionInv`
joins them to the others. `DirStep`, `BufferStep` and `RetentionStep` go through
the actions: `Write` is `Submit`, `WriteRecord` is `Store` or stutters, an eviction
is `Expire` or stutters (`ExpireStep`), a failing write is `Store` or `Settle`, a
day change is `Settle` (`CloseStep`), and a crash is `Settle` or, within a removal,
`Break`.

`OvershootCorrect` is about a sum over the day directories. `DiskInv` says that
nothing is left of a removed directory and nothing is buffered for a `Folder`
without one; `AccountInv` is the balance: bytes on disk, buffered and available
never exceed the budget by more than the uncharged headers and failed writes,
and while the constructor evicts, what it measured is still to be charged.
`UsedAppended`, `UsedLost`, `UsedShrinks` and `UsedClosed` say what a write, a
lost buffer, an eviction and a day change do to `usedBytes` and `pendingBytes`.
They rest on lemmas that prove from the definition of `SumFunctionOnSet` that a
sum over a finite set can be taken apart at any element (`SumRemove`, `SumAdd`,
`SumChange`, `SumPart`). Their induction is the absence of a minimal
counterexample among the finite subsets (`MinimalSet`), because the library's
induction rule takes an operator that no installed prover can instantiate.

**ServerProofs** (from `ServerAssumption`). `ThreadInv` ties `state_` and the
position of `stop()` to the service thread: it runs only while `thread_` is
joinable, and past the join, or in `kStopped`, it is not. `ClosedInv` says what is
closed once the thread has gone, `ConnInv` follows a connection from the backlog
through `accept()` into `client_fd_`. All three are needed for `RestartCorrect`: a
start that is admitted finds `kStopped`, hence no joinable thread, hence no
service thread, hence no client.

**TraceboxLoggerProofs** (from `LoggerAssumption`). The proof is compositional.
`ServerSteps` and `WriterSteps` show that a step of the logger is a step of its
`Server`, or stutters, and likewise of its `LogWriter`; so `ServerInside` and
`WriterInside` hold and the inductive invariants of `ServerProofs` and
`LogWriterProofs` are taken over (`Composed`) instead of being proved again.
`ClientTypeOK` comes first: what a client sends, it sends on a connection of the
server, as `ServerSteps` needs. Added are `PhaseInv` (until `server_` is
destroyed the writer admits), `CallInv` (the callback and its frame) and
`OrderInv` (what was handed over, the frame in hand and the unread ones of each
connection carry that connection, and their numbers increase in this order and
none is past the last one sent; `LineRead`, `LineHanded` and `LineSent` say what
one step does to such a line). `HandoverCorrect`: a callback under way means a
live service thread, hence a server not yet destroyed, hence a writer that
admits; and `LogWriter` has drained when the last destructor returns.

**StreamWriterProofs** (from `StreamWriterAssumption`: a request fits a fresh
pair of files, there is a possible payload and a possible second). `FilesInv`:
records of a data file do not overlap. `EntryInv`: every index entry leads to
its own record or to the end of the data or beyond (the record was lost). This
alone is not inductive, since a later record could be written where a lost one
should be; `CurInv` and `OffsetTracksFile` add that while the data stream is
good every entry of the current pair lies before the end of its data and
`offset_` is that end, `HandleInv` and `ReqInv` tie this to the position in the
code. A stream that failed stays bad, and an opened pair is always new: these
are the two facts that make a stale `offset_` harmless. `DurableInv` is the same
for acknowledged records, on disk.

**ReadSessionProofs** (from `ReadSessionAssumption`: a longest response exists,
since the length prefix has a fixed width). While a call is under way on a clean
connection, what the reader has, what its socket received, what the network
carries and what is still to be sent are adjacent runs of one frame, and the other
direction is empty (`Asking`, `Thinking`, `Answering`); between calls nothing is
anywhere (`Still`). `SessionCorrect` follows when the last unit arrives.

**Folding** (from no assumption). The loops of `getData()`, `addRecords()` and
`save()` are `FoldLeft` of one turn over a sequence. `FoldInduction` says of any
of them what one expects of a loop: what holds before the first turn and is kept
by every turn holds of the result. Turn, start, sequence and loop invariant are
CONSTANTS of the module and each loop is an INSTANCE of it, since the provers
cannot use a theorem that has an operator among its variables. The recursive
function behind `FoldLeft` is shown to exist by the absence of
a minimal counterexample, and the invariant is carried along it the same way.

**ExportProofs** (from `ScannerAssumption`, `CombinerAssumption` and
`ExportAssumption`: the files are finitely many, and no record lies behind the
last second the model has room for). The inductive invariant `EInv` is built in layers.

- `IInv` is about discovery. `DiscoveryCorrect` follows the files that the list
  must name (`Required`): nothing the writer does makes a file required that was
  not (`StillRequired`), and a required file is still to be visited, at hand with
  a reader that holds every record seen when the query arrived, or in the
  response (`ScanInv`).
- `FInv` is about fetching. `PhaseInv` says how client and service thread take
  turns, `ReadingInv` that the reader holds a prefix of the index and, while the
  file is whole, all that was promised; `AnswerInv` that the response has, in
  order, the records of a stretch of the index behind the last page; `FetchInv`
  that the client has those of a prefix. `FetchExact` alone is not inductive: it
  says nothing of a file in the middle of its pages. `DataTurn` is the turn of
  `getData()`, `Received` what a page adds, `FilesGrow` all that the proof needs
  of the writer. `FetchCorrect` follows.
- `CombinerInv` is about merging: what the combiner holds was fetched, is in its
  second, has the index of its channel (`Held`); within a second a file keeps its
  order (`InOrder`); and of a file that came in the order of time nothing wanted
  is missing (`NoneMissing`). `RecordTurn` shows that a turn of `addRecords()`
  appends the record to its second, or does nothing, where the records in `tmp`
  count as stored (`Stored`): only so does the late `storeData()` not show in the
  invariant. A new page comes behind the old one because its numbers are larger
  than `position` (`InOrderMore`); the `break` loses nothing of an ordered file,
  since a later time has no earlier second (`NoneMissingMore`). That there are no
  more indices than channels is a matter of cardinalities (`RegisteredIndex`).
- `OutputInv`: `save()` writes the seconds one after the other (`Written`,
  `SaveCorrect`). `ExportTypeCorrect`, `OutputOrderCorrect` and `ExportCorrect`
  follow; a record occurs once because its number determines its time, hence its
  second, and within a second the numbers of a file increase.

Second 0 stands for no second in `storeData()`, so records of the first second
after the epoch are dropped; the statements leave them out.

Only model-checked: all liveness properties (fairness and `ENABLED` are out of
the prover's reach), and the five statements that the code refutes.

## 5. Not modelled, and what comes next

Not modelled: protobuf encoding (generated code); the confinement of paths in
`resolveIndexPath()` and the making of file names (string processing);
local-time conversion and the race on the buffer of `localtime()`; the text that
`AscWriter` prints, argument parsing and the other demonstration programs; the
conversions of the public facade (it forwards and keeps no state); disk and
kernel failures beyond the death of the process (the code never calls `fsync`).
`LogReader` owns its `Server` the way `TraceboxLogger` does, over a callback
target without threads, and has no model of its own life cycle.

Next: the life cycle of `LogReader` with its `Server`, and the text `AscWriter`
makes of a record, would each be a module of their own.
