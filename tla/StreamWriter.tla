---------------------------- MODULE StreamWriter ----------------------------
(***************************************************************************)
(* libs/log_writer/storage_management/stream_writer.{h,cpp}: one channel   *)
(* of one day, written as a sequence of file pairs (index and data), and   *)
(* what libs/log_reader reads back from those files.                       *)
(*                                                                         *)
(* A file is the sequence of everything appended to it, the header first,  *)
(* of which the first "disk" elements have left the std::ofstream buffer.  *)
(* Only that prefix is seen by a reader and survives the death of the      *)
(* process.  A step is a stretch of code with at most one kernel-visible   *)
(* effect per file, so a reader or a crash can come between any two.       *)
(***************************************************************************)
EXTENDS Integers, Sequences

CONSTANTS RecordSizes,  \* sizes a channel may have: 0 for variable-length records
          Sizes,        \* payload lengths that requests may have
          Seconds,      \* HHMMSS prefixes of file names
          MaxSuffix,    \* bound: largest collision suffix of a file name
          MaxRequests,  \* bound: requests submitted
          MaxFaults,    \* bound: I/O operations that fail
          MaxOffset,    \* UINT32_MAX, scaled down
          BufferFills   \* whether a stream buffer may fill up between flushes

Header == 49         \* sizeof(LogFileHeader)
RecordHeader == 12   \* sizeof(VariableRecordDataHeader)
IndexEntry == 12     \* sizeof(VariableRecordIdx)

(* A request is smaller than 2 GiB (protobuf), so any payload fits into a  *)
(* fresh pair of files.                                                    *)
ASSUME StreamWriterAssumption ==
    /\ RecordSizes \subseteq Nat
    /\ Sizes \subseteq Nat /\ Sizes # {} /\ Seconds # {}
    /\ MaxSuffix \in Nat /\ MaxRequests \in Nat /\ MaxFaults \in Nat
    /\ MaxOffset \in Nat
    /\ BufferFills \in BOOLEAN
    /\ \A s \in Sizes : Header + IndexEntry + RecordHeader + s <= MaxOffset

Names == Seconds \X (0..MaxSuffix)

VARIABLES
    record_size_,     \* request.size(), the same in all requests of a channel
    idx, data,        \* the files of each name
    cur,              \* name of the pair the handles refer to
    index_, data_,    \* the std::ofstream handles
    offset_,          \* where write() believes the data file ends
    elapsed,          \* more than kFlushIntervalSeconds since last_flush_
    pc,               \* where the writing thread is
    rolling,          \* closeFile()/reopenFile() were called by write()
    flush,            \* the local variable of write()
    req,              \* the request being written
    faults,           \* I/O failures so far
    \* History, read only by the properties
    durable           \* records whose flush to the kernel was acknowledged

files == <<idx, data>>
handles == <<index_, data_>>
locals == <<rolling, flush>>
vars == <<record_size_, idx, data, cur, index_, data_, offset_, elapsed, pc,
          rolling, flush, req, faults, durable>>

Variable == record_size_ = 0

Handle == {"null", "open", "bad", "closed"}
IsOpen(h) == h \in {"open", "bad"}   \* a failed ofstream stays open

IdxEntry == [id : 0..MaxRequests, off : Nat]
DataRecord == [id : 0..MaxRequests, at : Nat, size : Nat]
File(E) == [there : BOOLEAN, log : Seq(E), disk : Nat]
NoFile == [there |-> FALSE, log |-> <<>>, disk |-> 0]

TypeOK ==
    /\ record_size_ \in RecordSizes
    /\ idx \in [Names -> File(IdxEntry)]
    /\ data \in [Names -> File(DataRecord)]
    /\ \A n \in Names : /\ idx[n].disk <= Len(idx[n].log)
                        /\ data[n].disk <= Len(data[n].log)
    /\ cur \in Names
    /\ index_ \in Handle /\ data_ \in Handle
    /\ offset_ \in 0..MaxOffset
    /\ elapsed \in BOOLEAN /\ rolling \in BOOLEAN /\ flush \in BOOLEAN
    /\ pc \in {"idle", "openIndex", "openData", "write", "writeData",
               "writeIndex", "closeIndex", "closeData"}
    /\ req \in [id : 0..MaxRequests, size : Sizes \cup {0}, sec : Seconds]
    /\ faults \in 0..MaxFaults
    /\ durable \subseteq 1..MaxRequests

Init ==
    /\ record_size_ \in RecordSizes
    /\ idx = [n \in Names |-> NoFile]
    /\ data = [n \in Names |-> NoFile]
    /\ cur = CHOOSE n \in Names : TRUE
    /\ index_ = "null" /\ data_ = "null"
    /\ offset_ = 0
    /\ elapsed = FALSE /\ rolling = FALSE /\ flush = FALSE
    /\ pc = "idle"
    /\ req = [id |-> 0, size |-> 0, sec |-> CHOOSE s \in Seconds : TRUE]
    /\ faults = 0
    /\ durable = {}

-----------------------------------------------------------------------------
(* std::ofstream (external) and StandardFileIO *)

End(f) == IF f.log = <<>> THEN 0
          ELSE LET last == f.log[Len(f.log)] IN last.at + last.size

\* The file after e was appended and the buffer drained up to element k.
Appended(f, e, k) == [there |-> TRUE, log |-> Append(f.log, e), disk |-> k]
Drained(f, k) == [f EXCEPT !.disk = k]

\* What an append that succeeds may leave on disk: all of it when a successful
\* flush() follows, else any further prefix if the buffer fills up.
Kept(f, flushed) == IF flushed THEN {Len(f.log) + 1}
                    ELSE IF BufferFills THEN f.disk..(Len(f.log) + 1)
                    ELSE {f.disk}

\* An append or the flush after it fails: the element may have entered the
\* buffer, which may have been drained in part.
AppendFails(f, e) ==
    {Drained(f, k) : k \in f.disk..Len(f.log)}
        \cup {Appended(f, e, k) : k \in f.disk..(Len(f.log) + 1)}

\* flush() and close(): everything reaches the kernel unless an I/O error
\* stops it part-way.  Nothing looks at the result.
Closed(f, h, mayFail) ==
    {Drained(f, k) : k \in IF h = "open" /\ ~mayFail THEN {Len(f.log)}
                           ELSE f.disk..Len(f.log)}

Fault == faults < MaxFaults /\ faults' = faults + 1

-----------------------------------------------------------------------------
(* Requests: Folder::write() creates the StreamWriter on the first one *)

Request(size, sec) ==
    /\ pc = "idle"
    /\ req.id < MaxRequests
    /\ req' = [id |-> req.id + 1, size |-> size, sec |-> sec]
    /\ pc' = IF index_ = "null" THEN "openIndex" ELSE "write"
    /\ UNCHANGED <<files, cur, handles, offset_, elapsed, locals, faults, durable>>

\* Time passes; last_flush_ is renewed only by reopenFile().
Tick ==
    /\ index_ # "null"
    /\ ~elapsed
    /\ elapsed' = TRUE
    /\ UNCHANGED <<files, cur, handles, offset_, pc, locals, req, faults, durable>>

-----------------------------------------------------------------------------
(* openFile() and reopenFile() *)

\* The loop over name suffixes: the first name of which neither file exists.
FirstName(n) == n = <<req.sec, 0>>   \* mutant: the suffix loop is missing
FreeName(n) ==
    /\ n[1] = req.sec
    /\ ~(idx[n].there \/ data[n].there)
    /\ \A k \in 0..(n[2] - 1) :
           idx[<<req.sec, k>>].there \/ data[<<req.sec, k>>].there

\* writeHeader() for each kind of file.
IndexHeader == [id |-> 0, off |-> 0]
DataHeader(f) == [id |-> 0, at |-> End(f), size |-> Header]

\* A completed open goes on with the record; an error returns to the caller,
\* and the local variables are gone.
Resume == /\ pc' = IF rolling THEN "writeData" ELSE "write"
          /\ rolling' = FALSE
          /\ UNCHANGED flush
Return == pc' = "idle" /\ rolling' = FALSE /\ flush' = FALSE

OpenIndex ==
    /\ pc = "openIndex"
    /\ \E n \in Names :
        /\ FreeName(n)
        /\ cur' = n
        /\ offset_' = 0
        /\ \/ /\ idx' = [idx EXCEPT ![n] = Appended(@, IndexHeader, Len(@.log) + 1)]
              /\ index_' = "open"
              /\ IF Variable THEN pc' = "openData" /\ UNCHANGED <<elapsed, locals>>
                 ELSE elapsed' = FALSE /\ Resume
              /\ UNCHANGED faults
           \/ \* the file cannot be created
              /\ Fault
              /\ index_' = "closed"
              /\ Return
              /\ UNCHANGED <<idx, elapsed>>
           \/ \* its header cannot be written: the index is closed again
              /\ Fault
              /\ \E f \in AppendFails([idx[n] EXCEPT !.there = TRUE], IndexHeader) :
                     idx' = [idx EXCEPT ![n] = f]
              /\ index_' = "closed"
              /\ Return
              /\ UNCHANGED elapsed
    /\ UNCHANGED <<data, data_, req, durable>>

\* An error closes the index so that no record is accepted without its data.
AbandonIndex == index_' = "closed"

\* Where the first record of a data file goes.
Sentinel == -1                      \* mutant: set only by the first write()
FirstOffset == Header

OpenData ==
    /\ pc = "openData"
    /\ offset_' = FirstOffset
    /\ LET f == data[cur] IN
        \/ /\ data' = [data EXCEPT ![cur] = Appended(f, DataHeader(f), Len(f.log) + 1)]
           /\ data_' = "open"
           /\ elapsed' = FALSE
           /\ Resume
           /\ UNCHANGED <<index_, faults>>
        \/ /\ Fault
           /\ data_' = "closed"
           /\ AbandonIndex
           /\ Return
           /\ UNCHANGED <<data, elapsed>>
        \/ /\ Fault
           /\ \E g \in AppendFails([f EXCEPT !.there = TRUE], DataHeader(f)) :
                  data' = [data EXCEPT ![cur] = g]
           /\ data_' = "bad"
           /\ AbandonIndex
           /\ Return
           /\ UNCHANGED elapsed
    /\ UNCHANGED <<idx, cur, req, durable>>

-----------------------------------------------------------------------------
(* write() *)

\* The -EINVAL returns before anything is written.
Refused == \/ ~IsOpen(index_)
           \/ ~Variable /\ req.size # record_size_
           \/ Variable /\ ~IsOpen(data_)

\* "Check for offset overflow."
NeverOverflows == FALSE                             \* mutant
Overflows == IndexEntry + RecordHeader + req.size + offset_ > MaxOffset

Refuse ==
    /\ pc = "write"
    /\ Refused
    /\ Return
    /\ UNCHANGED <<files, cur, handles, offset_, elapsed, req, faults, durable>>

\* The flush decision, and the choice between appending and rolling over.
BeginWrite ==
    /\ pc = "write"
    /\ ~Refused
    /\ flush' = elapsed
    /\ rolling' = (Variable /\ Overflows)
    /\ pc' = IF ~Variable THEN "writeIndex"
             ELSE IF Overflows THEN "closeIndex" ELSE "writeData"
    /\ UNCHANGED <<files, cur, handles, offset_, elapsed, req, faults, durable>>

\* The data record goes first.
NewRecord(f) == [id |-> req.id, at |-> End(f), size |-> RecordHeader + req.size]

WriteData ==
    /\ pc = "writeData"
    /\ LET f == data[cur] IN
        \/ /\ data_ = "open"
           /\ \E k \in Kept(f, flush) :
                  data' = [data EXCEPT ![cur] = Appended(f, NewRecord(f), k)]
           /\ pc' = "writeIndex"
           /\ UNCHANGED <<data_, locals, faults>>
        \/ /\ data_ = "open"
           /\ Fault
           /\ \E g \in AppendFails(f, NewRecord(f)) : data' = [data EXCEPT ![cur] = g]
           /\ data_' = "bad"
           /\ Return
        \/ \* the failure of a std::ofstream is sticky
           /\ data_ = "bad"
           /\ Return
           /\ UNCHANGED <<data, data_, faults>>
    /\ UNCHANGED <<idx, cur, index_, offset_, elapsed, req, durable>>

\* Variable: the offset of the record just written.  Fixed: the record itself.
NewEntry == [id |-> req.id, off |-> IF Variable THEN offset_ ELSE 0]

\* offset_ += sizeof(time_ns) + sizeof(size) + size
Advanced == IF Variable THEN (offset_ + RecordHeader + req.size) % (MaxOffset + 1)
            ELSE offset_

NeverFlushes(f) == Kept(f, FALSE)                     \* mutant
IndexKept(f) == Kept(f, flush)

\* Records with an entry in an index.
Committed(f) == {f.log[i].id : i \in 2..Len(f.log)}

WriteIndex ==
    /\ pc = "writeIndex"
    /\ Return
    /\ LET f == idx[cur] IN
        \/ /\ index_ = "open"
           /\ \E k \in IndexKept(f) :
                  idx' = [idx EXCEPT ![cur] = Appended(f, NewEntry, k)]
           /\ offset_' = Advanced
           /\ durable' = IF flush THEN durable \cup Committed(f) \cup {req.id}
                         ELSE durable
           /\ UNCHANGED <<index_, faults>>
        \/ /\ index_ = "open"
           /\ Fault
           /\ \E g \in AppendFails(f, NewEntry) : idx' = [idx EXCEPT ![cur] = g]
           /\ index_' = "bad"
           /\ UNCHANGED <<offset_, durable>>
        \/ /\ index_ = "bad"
           /\ UNCHANGED <<idx, index_, offset_, faults, durable>>
    /\ UNCHANGED <<data, cur, data_, elapsed, req>>

-----------------------------------------------------------------------------
(* closeFile(), from write() or from the destructor *)

Destroy ==
    /\ pc = "idle"
    /\ index_ # "null"
    /\ pc' = "closeIndex"
    /\ UNCHANGED <<files, cur, handles, offset_, elapsed, locals, req, faults,
                   durable>>

\* The index is flushed and closed before the data.
CloseIndex ==
    /\ pc = "closeIndex"
    /\ pc' = "closeData"
    /\ IF ~IsOpen(index_) THEN UNCHANGED <<idx, index_, faults>>
       ELSE /\ index_' = "closed"
            /\ \/ UNCHANGED faults /\ \E f \in Closed(idx[cur], index_, FALSE) :
                                          idx' = [idx EXCEPT ![cur] = f]
               \/ Fault /\ \E f \in Closed(idx[cur], index_, TRUE) :
                               idx' = [idx EXCEPT ![cur] = f]
    /\ UNCHANGED <<data, cur, data_, offset_, elapsed, locals, req, durable>>

\* There is no StreamWriter any more.
Gone == /\ index_' = "null" /\ data_' = "null"
        /\ offset_' = 0
        /\ elapsed' = FALSE
        /\ Return

CloseData ==
    /\ pc = "closeData"
    /\ IF rolling THEN /\ pc' = "openIndex"
                       /\ data_' = "closed"
                       /\ UNCHANGED <<index_, offset_, elapsed, locals>>
       ELSE Gone
    /\ IF ~IsOpen(data_) THEN UNCHANGED <<data, faults>>
       ELSE \/ UNCHANGED faults /\ \E f \in Closed(data[cur], data_, FALSE) :
                                       data' = [data EXCEPT ![cur] = f]
            \/ Fault /\ \E f \in Closed(data[cur], data_, TRUE) :
                            data' = [data EXCEPT ![cur] = f]
    /\ UNCHANGED <<idx, cur, req, durable>>

\* The process dies at any point: what was buffered is gone.
Survives(f) == [f EXCEPT !.log = SubSeq(f.log, 1, f.disk)]

Crash ==
    /\ index_ # "null" \/ pc # "idle"
    /\ idx' = [n \in Names |-> Survives(idx[n])]
    /\ data' = [n \in Names |-> Survives(data[n])]
    /\ Gone
    /\ UNCHANGED <<cur, req, faults, durable>>

-----------------------------------------------------------------------------

Step == \/ \E size \in Sizes, sec \in Seconds : Request(size, sec)
        \/ Tick
        \/ OpenIndex
        \/ OpenData
        \/ Refuse
        \/ BeginWrite
        \/ WriteData
        \/ WriteIndex
        \/ Destroy
        \/ CloseIndex
        \/ CloseData
        \/ Crash

Next == Step /\ UNCHANGED record_size_

Spec == Init /\ [][Next]_vars

-----------------------------------------------------------------------------
(* IndexFileReader, DataFileReader and StreamReader::read() *)

NoRecord == 0
Misread == -1    \* bytes that are not a record, taken for one

\* (size of the index file - header) / entry size; a torn tail does not count.
records_cnt(n) == IF idx[n].disk = 0 THEN 0 ELSE idx[n].disk - 1

\* DataFileReader::read(): a header that is not complete, an offset beyond
\* the file or a record that extends beyond it are errors.
DiskEnd(f) == LET last == f.log[f.disk] IN last.at + last.size

RecordAt(f, offset) ==
    IF f.disk = 0 \/ offset < Header \/ offset >= DiskEnd(f) THEN NoRecord
    ELSE IF \E j \in 2..f.disk : f.log[j].at = offset
         THEN f.log[CHOOSE j \in 2..f.disk : f.log[j].at = offset].id
         ELSE Misread

\* The i-th record of a pair, counting from 1.  A second header inside the
\* index would shift everything behind it.
read(n, i) ==
    IF i \notin 1..records_cnt(n) THEN NoRecord
    ELSE IF \E j \in 2..(i + 1) : idx[n].log[j].id = 0 THEN Misread
    ELSE LET e == idx[n].log[i + 1]
         IN  IF Variable THEN RecordAt(data[n], e.off) ELSE e.id

-----------------------------------------------------------------------------
(* Properties *)

(* A reader, at any moment and after any sequence of crashes, errors and   *)
(* reopenings, gets for an index entry the very record it was written for, *)
(* or an error: never bytes of another record.                             *)
ReadRightOrError ==
    \A n \in Names : \A i \in 1..records_cnt(n) :
        read(n, i) \in {NoRecord, idx[n].log[i + 1].id}

(* Every record acknowledged by a write that flushed, and every record     *)
(* acknowledged before it in the same pair, can be read ever after.        *)
FlushedRecordsSurvive ==
    \A id \in durable : \E n \in Names : \E i \in 1..records_cnt(n) : read(n, i) = id

(* The offset stored with a record is the real position of that record:    *)
(* whenever the writer is ready for a request and both streams are good,   *)
(* offset_ is the length of the data file, buffered bytes included, and    *)
(* has not wrapped around at 32 bits.                                      *)
OffsetTracksFile ==
    Variable /\ pc \in {"idle", "write", "writeData"} /\ index_ = "open" /\ data_ = "open"
        => offset_ = End(data[cur])

(* "Commit the index entry only after the data record is present."         *)
(* (stream_writer.cpp:165): every index entry in the file system has its   *)
(* record in the file system.                                              *)
IndexAfterData ==
    Variable => \A n \in Names : \A i \in 1..records_cnt(n) : read(n, i) # NoRecord

=============================================================================
