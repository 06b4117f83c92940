------------------------------ MODULE Storage -------------------------------
(***************************************************************************)
(* libs/log_writer/storage_management: Storage (the byte budget),          *)
(* FilesystemStorageBackend (day directories and their eviction) and       *)
(* Folder (the channels open in the active day).                           *)
(*                                                                         *)
(* One thread calls Storage::write(); a crash can come between any two     *)
(* steps.  A channel is a StreamWriter, of which only the bytes it puts    *)
(* into the day directory matter here: headers are flushed at once,        *)
(* records wait in the stream buffers ("pending") until they are flushed   *)
(* or pushed out.  A data file never gets to its roll-over: that takes     *)
(* 4 GiB, and the budget is an int.                                        *)
(***************************************************************************)
EXTENDS Integers, FiniteSets, Functions

CONSTANTS Days,          \* YYYYMMDD values of timestamps
          Channels,      \* channel names
          FixedChannels, \* those that write fixed-size records
          Sizes,         \* payload lengths
          max_size,      \* the byte budget
          ForeignBytes,  \* bytes in directories that are not a day
          Leftovers,     \* bound: bytes an interrupted remove_all() may leave
          MaxWrites      \* bound: calls of write()

Header == 49         \* sizeof(LogFileHeader)
RecordHeader == 12   \* sizeof(VariableRecordDataHeader)
IndexEntry == 12     \* sizeof(VariableRecordIdx)
Timestamp == 8       \* sizeof(FixedRecordIdx)

ASSUME StorageAssumption ==
    /\ Days \subseteq Nat \ {0} /\ Days # {}
    /\ Channels # {} /\ Sizes # {}
    /\ IsFiniteSet(Channels) /\ FixedChannels \subseteq Channels
    /\ Sizes \subseteq Nat /\ Leftovers \subseteq Nat
    /\ max_size \in Nat /\ ForeignBytes \in Nat /\ MaxWrites \in Nat

VARIABLES
    dirs,              \* day directories that exist
    bytes,             \* size of the files in each of them
    available_bytes_,
    used,              \* what the constructor measured
    yyyymmdd_,         \* day of the active Folder, 0 before the first write
    files_,            \* its channels
    orphaned,          \* its directory was deleted after it was created
    pending,           \* bytes in the stream buffers of each of its channels
    pc,                \* "down" while there is no process
    req,               \* the request being written
    \* History, read only by the properties
    result,            \* what the last write() returned
    held,              \* ids of the records put into the files of each directory
    buffered,          \* those of them that are still in the stream buffers
    day_of,            \* the day of each record's timestamp
    opened,            \* file pairs opened since the constructor
    uncharged          \* size of the records whose write failed since then

disk == <<dirs, bytes, held>>
buffers == <<pending, buffered>>
folder_ == <<yyyymmdd_, files_, orphaned, pending, buffered>>
vars == <<dirs, bytes, available_bytes_, used, yyyymmdd_, files_, orphaned,
          pending, pc, req, result, held, buffered, day_of, opened, uncharged>>

NoDay == 0
EINVAL == 22
EIO == 5
NoResult == -EINVAL
Ids == 1..MaxWrites

\* Bytes of a record in its files, and of the headers of new files.
RecordBytes(c, s) == IF c \in FixedChannels THEN Timestamp + s
                     ELSE IndexEntry + RecordHeader + s
HeaderBytes(c) == IF c \in FixedChannels THEN Header ELSE 2 * Header

\* What write() may return: an error, 0, or the bytes of a record.
Results == {0, -EINVAL, -EIO} \cup {RecordBytes(c, s) : c \in Channels, s \in Sizes}

TypeOK ==
    /\ dirs \subseteq Days
    /\ bytes \in [Days -> Nat]
    /\ available_bytes_ \in Int /\ used \in Nat
    /\ yyyymmdd_ \in Days \cup {NoDay}
    /\ files_ \in [Channels -> {"none", "open", "bad", "failed"}]
    /\ orphaned \in BOOLEAN
    /\ pending \in [Channels -> Nat]
    /\ pc \in {"down", "constructor", "ready", "space", "day", "channel"}
    /\ req \in [id : 0..MaxWrites, day : Days, channel : Channels, size : Sizes]
    /\ result \in Results
    /\ held \in [Days -> SUBSET Ids]
    /\ buffered \in [Channels -> SUBSET Ids]
    /\ day_of \in [Ids -> Days]
    /\ opened \in Nat /\ uncharged \in Nat

NothingPending == [c \in Channels |-> 0]
NothingBuffered == [c \in Channels |-> {}]

Init ==
    /\ dirs = {}
    /\ bytes = [d \in Days |-> 0]
    /\ available_bytes_ = 0 /\ used = 0
    /\ yyyymmdd_ = NoDay
    /\ files_ = [c \in Channels |-> "none"]
    /\ orphaned = FALSE
    /\ pending = NothingPending /\ buffered = NothingBuffered
    /\ pc = "down"
    /\ req = [id |-> 0, day |-> CHOOSE d \in Days : TRUE,
              channel |-> CHOOSE c \in Channels : TRUE,
              size |-> CHOOSE s \in Sizes : TRUE]
    /\ result = NoResult
    /\ held = [d \in Days |-> {}]
    /\ day_of = [i \in Ids |-> CHOOSE d \in Days : TRUE]
    /\ opened = 0 /\ uncharged = 0

-----------------------------------------------------------------------------
(* FilesystemStorageBackend *)

\* usedBytes() counts every subdirectory, whatever its name.
usedBytes == ForeignBytes + SumFunctionOnSet(bytes, dirs)

\* findOldest() considers only names that are numbers.
Newest(d) == d \in dirs /\ \A e \in dirs : e <= d   \* mutant: the wrong end
Oldest(d) == d \in dirs /\ \A e \in dirs : d <= e

\* deleteFolder(): frees the bytes found in the directory and removes it.  If
\* it is the day in use, its open streams go on writing to unlinked files.
FreesNothing(d) == 0                                \* mutant: freed_bytes lost
freed_bytes(d) == bytes[d]

deleteFolder(d) ==
    /\ dirs' = dirs \ {d}
    /\ bytes' = [bytes EXCEPT ![d] = 0]
    /\ held' = [held EXCEPT ![d] = {}]
    /\ orphaned' = (orphaned \/ d = yyyymmdd_)
    /\ pending' = IF d = yyyymmdd_ THEN NothingPending ELSE pending
    /\ buffered' = IF d = yyyymmdd_ THEN NothingBuffered ELSE buffered

-----------------------------------------------------------------------------
(* Storage::Storage() *)

Start ==
    /\ pc = "down"
    /\ pc' = "constructor"
    /\ available_bytes_' = max_size
    /\ used' = usedBytes
    /\ opened' = 0 /\ uncharged' = 0
    /\ UNCHANGED <<disk, folder_, req, result, day_of>>

\* The loop body.  When there is no day to remove, removeOldest() reports
\* failure, which is ignored: the loop repeats with nothing changed.
ConstructorEvict ==
    /\ pc = "constructor"
    /\ used > available_bytes_
    /\ \E d \in Days : /\ Oldest(d)
                       /\ available_bytes_' = available_bytes_ + freed_bytes(d)
                       /\ deleteFolder(d)
    /\ UNCHANGED <<used, yyyymmdd_, files_, pc, req, result, day_of, opened, uncharged>>

ConstructorDone ==
    /\ pc = "constructor"
    /\ used <= available_bytes_
    /\ available_bytes_' = available_bytes_ - used
    /\ pc' = "ready"
    /\ UNCHANGED <<disk, used, folder_, req, result, day_of, opened, uncharged>>

-----------------------------------------------------------------------------
(* Storage::write() *)

\* data_types.h: two headers and one record in each file.
PayloadOnly(size) == size                              \* mutant
maxRecordSize(size) == 2 * Header + IndexEntry + RecordHeader + size

Write(d, c, s) ==
    /\ pc = "ready"
    /\ req.id < MaxWrites
    /\ pc' = "space"
    /\ req' = [id |-> req.id + 1, day |-> d, channel |-> c, size |-> s]
    /\ day_of' = [day_of EXCEPT ![req.id + 1] = d]
    /\ UNCHANGED <<disk, available_bytes_, used, folder_, result, opened, uncharged>>

Fits == maxRecordSize(req.size) <= available_bytes_

Evict ==
    /\ pc = "space"
    /\ ~Fits
    /\ \E d \in Days : /\ Oldest(d)
                       /\ available_bytes_' = available_bytes_ + freed_bytes(d)
                       /\ deleteFolder(d)
    /\ UNCHANGED <<used, yyyymmdd_, files_, pc, req, result, day_of, opened, uncharged>>

Returns(value) == pc' = "ready" /\ result' = value

RetryEviction ==           \* mutant: the result of removeOldest() is ignored
    /\ pc = "space"
    /\ ~Fits
    /\ dirs = {}
    /\ UNCHANGED vars
NothingToEvict ==
    /\ pc = "space"
    /\ ~Fits
    /\ dirs = {}
    /\ Returns(0)
    /\ UNCHANGED <<disk, available_bytes_, used, folder_, req, day_of, opened, uncharged>>

HasSpace ==
    /\ pc = "space"
    /\ Fits
    /\ pc' = "day"
    /\ UNCHANGED <<disk, available_bytes_, used, folder_, req, result, day_of,
                   opened, uncharged>>

-----------------------------------------------------------------------------
(* FilesystemStorageBackend::write() and Folder *)

AnyDayOpen == yyyymmdd_ # NoDay             \* mutant: sameDay() is not asked
sameDay == yyyymmdd_ = req.day

\* The Folder of the right day is open already.
KeepDay ==
    /\ pc = "day"
    /\ sameDay
    /\ pc' = "channel"
    /\ UNCHANGED <<disk, available_bytes_, used, folder_, req, result, day_of,
                   opened, uncharged>>

\* Destroying the old Folder flushes its streams into its directory.  The
\* result of the flush is ignored: where it fails the buffer is lost.
CloseFolder ==
    /\ \E lost \in SUBSET {c \in Channels : pending[c] > 0} :
           IF yyyymmdd_ # NoDay /\ ~orphaned
           THEN /\ bytes' = [bytes EXCEPT ![yyyymmdd_] =
                                 @ + SumFunctionOnSet(pending, Channels \ lost)]
                /\ held' = [held EXCEPT ![yyyymmdd_] =
                                @ \ UNION {buffered[c] : c \in lost}]
           ELSE UNCHANGED <<bytes, held>>
    /\ files_' = [c \in Channels |-> "none"]
    /\ orphaned' = FALSE
    /\ pending' = NothingPending /\ buffered' = NothingBuffered

\* The new Folder creates the directory of its day, or uses what is there.
NewDay ==
    /\ pc = "day"
    /\ ~sameDay
    /\ CloseFolder
    /\ yyyymmdd_' = req.day
    /\ dirs' = dirs \cup {req.day}
    /\ pc' = "channel"
    /\ UNCHANGED <<available_bytes_, used, req, result, day_of, opened, uncharged>>

\* create_directories() fails.
NewDayFails ==
    /\ pc = "day"
    /\ ~sameDay
    /\ req.day \notin dirs
    /\ CloseFolder
    /\ yyyymmdd_' = NoDay
    /\ Returns(-EINVAL)
    /\ UNCHANGED <<dirs, available_bytes_, used, req, day_of, opened, uncharged>>

\* StreamWriter::openFile() for the first record of a channel.
OpenChannel ==
    /\ pc = "channel"
    /\ files_[req.channel] = "none"
    /\ ~orphaned
    /\ files_' = [files_ EXCEPT ![req.channel] = "open"]
    /\ bytes' = [bytes EXCEPT ![yyyymmdd_] = @ + HeaderBytes(req.channel)]
    /\ opened' = opened + 1
    /\ UNCHANGED <<dirs, held, available_bytes_, used, yyyymmdd_, orphaned,
                   buffers, pc, req, result, day_of, uncharged>>

\* openFile() fails, always so when the directory is gone.  The channel stays
\* in files_ and refuses every later record of this Folder.
OpenChannelFails ==
    /\ pc = "channel"
    /\ files_[req.channel] = "none"
    /\ files_' = [files_ EXCEPT ![req.channel] = "failed"]
    /\ \E left \in IF orphaned THEN {0} ELSE {0, Header} :
           bytes' = IF left = 0 THEN bytes
                    ELSE [bytes EXCEPT ![yyyymmdd_] = @ + left]
    /\ opened' = opened + 1
    /\ Returns(-EINVAL) \/ Returns(-EIO)
    /\ UNCHANGED <<dirs, held, available_bytes_, used, yyyymmdd_, orphaned,
                   buffers, req, day_of, uncharged>>

\* The files are closed, or the record does not have the size of its
\* fixed-size channel.
RefuseRecord ==
    /\ pc = "channel"
    /\ \/ files_[req.channel] = "failed"
       \/ files_[req.channel] # "none" /\ req.channel \in FixedChannels
    /\ Returns(-EINVAL)
    /\ UNCHANGED <<disk, available_bytes_, used, folder_, req, day_of, opened,
                   uncharged>>

\* n bytes go to the streams of channel c, the records "new" with them: they
\* stay in the buffers, push out what was there, or all is flushed.  Streams
\* of a directory that was deleted write to unlinked files.
AppendBytes(c, n, new) ==
    IF orphaned THEN UNCHANGED <<bytes, held, buffers>>
    ELSE /\ \E rest \in {pending[c] + n, n, 0} :
                /\ pending' = [pending EXCEPT ![c] = rest]
                /\ bytes' = [bytes EXCEPT ![yyyymmdd_] = @ + (pending[c] + n - rest)]
                /\ buffered' = [buffered EXCEPT ![c] =
                                   IF rest = 0 THEN {}
                                   ELSE IF rest = n THEN new ELSE @ \cup new]
         /\ held' = [held EXCEPT ![yyyymmdd_] = @ \cup new]

\* What write() reports: the result of openFile(), the header bytes, is
\* overwritten by that of StreamWriter::write().
WithHeaders(c, s) == HeaderBytes(c) + RecordBytes(c, s)   \* mutant: it is added
Reported(c, s) == RecordBytes(c, s)

\* available_bytes_ -= written
NotCharged(written) == available_bytes_            \* mutant
Charged(written) == available_bytes_ - written

\* StreamWriter::write()
WriteRecord ==
    /\ pc = "channel"
    /\ files_[req.channel] = "open"
    /\ AppendBytes(req.channel, RecordBytes(req.channel, req.size), {req.id})
    /\ available_bytes_' = Charged(Reported(req.channel, req.size))
    /\ Returns(Reported(req.channel, req.size))
    /\ UNCHANGED <<dirs, used, yyyymmdd_, files_, orphaned, req, day_of, opened,
                   uncharged>>

\* What a failing write() may have put into the streams: nothing, a part (the
\* data without the index entry, the timestamp without the data), or all of
\* the record when only the last flush failed.  A stream that failed stays
\* bad; the data stream of a bad index goes on taking records.
PartBytes(c, s) == IF c \in FixedChannels THEN Timestamp ELSE RecordHeader + s
FailedBytes(c, s) ==
    IF files_[c] = "open" THEN {0, PartBytes(c, s), RecordBytes(c, s)}
    ELSE IF c \in FixedChannels THEN {0} ELSE {0, PartBytes(c, s)}

\* What is in the buffers of a channel never reaches its files.
LoseBuffers(c) ==
    /\ pending' = [pending EXCEPT ![c] = 0]
    /\ buffered' = [buffered EXCEPT ![c] = {}]
    /\ held' = [d \in Days |-> held[d] \ buffered[c]]
    /\ UNCHANGED bytes

\* StreamWriter::write() returns -EIO, and nothing is charged.
WriteFails ==
    /\ pc = "channel"
    /\ files_[req.channel] \in {"open", "bad"}
    /\ files_' = [files_ EXCEPT ![req.channel] = "bad"]
    /\ \/ \E n \in FailedBytes(req.channel, req.size) :
              AppendBytes(req.channel, n,
                     IF n = RecordBytes(req.channel, req.size) THEN {req.id} ELSE {})
       \/ LoseBuffers(req.channel)
    /\ uncharged' = uncharged + RecordBytes(req.channel, req.size)
    /\ Returns(-EIO)
    /\ UNCHANGED <<dirs, available_bytes_, used, yyyymmdd_, orphaned, req, day_of,
                   opened>>

-----------------------------------------------------------------------------

\* Records that only the stream buffers have.
volatile == UNION {buffered[c] : c \in Channels}

\* The process dies, and the stream buffers with it, possibly half-way
\* through remove_all(), which leaves any part of the oldest day.  (Half-way
\* through openFile() or write() it leaves what their failure leaves.)
Removing == \/ pc = "constructor" /\ used > available_bytes_
            \/ pc = "space" /\ ~Fits

Crash ==
    /\ pc # "down"
    /\ pc' = "down"
    /\ \/ /\ held' = [d \in Days |-> held[d] \ volatile]
          /\ UNCHANGED bytes
       \/ /\ Removing
          /\ \E d \in Days : \E left \in Leftovers : \E kept \in SUBSET held[d] :
                 /\ Oldest(d)
                 /\ left <= bytes[d] /\ (left = 0 => kept = {})
                 /\ bytes' = [bytes EXCEPT ![d] = left]
                 /\ held' = [e \in Days |->
                                (IF e = d THEN kept ELSE held[e]) \ volatile]
    /\ available_bytes_' = 0 /\ used' = 0
    /\ yyyymmdd_' = NoDay
    /\ files_' = [c \in Channels |-> "none"]
    /\ orphaned' = FALSE
    /\ pending' = NothingPending /\ buffered' = NothingBuffered
    /\ opened' = 0 /\ uncharged' = 0
    /\ result' = NoResult
    /\ UNCHANGED <<dirs, req, day_of>>

WriteStep == \/ Evict \/ NothingToEvict \/ HasSpace \/ KeepDay \/ NewDay
             \/ NewDayFails \/ OpenChannel \/ OpenChannelFails \/ RefuseRecord
             \/ WriteRecord \/ WriteFails

Next == \/ Start
        \/ ConstructorEvict
        \/ ConstructorDone
        \/ \E d \in Days, c \in Channels, s \in Sizes : Write(d, c, s)
        \/ WriteStep
        \/ Crash

Spec == Init /\ [][Next]_vars

\* The thread in the constructor or in write() runs on until it returns.
FairSpec == /\ Spec
            /\ WF_vars(ConstructorEvict \/ ConstructorDone)
            /\ WF_vars(WriteStep)

-----------------------------------------------------------------------------
(* Properties *)

(* available_bytes_ is a size_t: no sequence of evictions, refusals, day   *)
(* changes and restarts makes it wrap below zero, which would turn the     *)
(* byte limit off.                                                         *)
BudgetNeverWraps == available_bytes_ >= 0

\* What all stream buffers hold.
pendingBytes == SumFunctionOnSet(pending, Channels)

(* The files exceed the budget by no more than the header bytes that       *)
(* Folder::write() does not report (two for each pair opened since         *)
(* start-up) and the records whose write failed after a part of them had   *)
(* been appended, which Storage::write() does not charge.                  *)
OvershootBounded ==
    pc \notin {"down", "constructor"} =>
        usedBytes + pendingBytes <= max_size + 2 * Header * opened + uncharged

(* A record is only ever stored in the directory of its own day, although  *)
(* the active Folder is chosen by the request before it.                   *)
RecordInItsDay == \A d \in Days : \A i \in held[d] : day_of[i] = d

(* The constructor's eviction loop ends, whatever days or parts of days a  *)
(* previous process left behind, unless the process dies in it.  It takes  *)
(* that directories which are not a day fit the budget: usedBytes() counts *)
(* them, removeOldest() never finds them, and its failure is ignored.      *)
StartupFinishes == (pc = "constructor") ~> (pc \in {"ready", "down"})

(* Storage::write() returns: each turn of the eviction loop removes a day  *)
(* or gives up.                                                            *)
WriteReturns == (pc = "space") ~> (pc \in {"ready", "down"})

(* Storage implements the retention of Retention: records in their own     *)
(* day or nowhere, days given up from the oldest on, and nothing else lost *)
(* but what only the stream buffers had and what an interrupted removal of *)
(* the oldest day took, through failures, evictions and restarts.          *)
R == INSTANCE Retention WITH asked <- req.id, stored <- held, atRisk <- volatile
ImplementsRetention == R!AbsSpec

(* public-api.md:167, "returns a positive byte count on acceptance"; the   *)
(* writing thread "adds records to the file(s)" (README.md:68): a positive *)
(* result means that the record is in the files of its day.                *)
AcceptedIsStored == pc = "ready" /\ result > 0 => req.id \in held[req.day]

=============================================================================
