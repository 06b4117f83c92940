--------------------------- MODULE StorageScanner ---------------------------
(***************************************************************************)
(* libs/log_reader: LogReader::handleReadingRequest(), StorageScanner and  *)
(* the StreamReader it builds for every file, while the writer of the same *)
(* folder appends to those files and removes whole days.                   *)
(*                                                                         *)
(* Reader and writer share nothing but the file system.  A reader learns   *)
(* the length of a file when it opens it and keeps it open, so everything  *)
(* it reads later is decided at that moment: the steps are the moments at  *)
(* which the file system is looked at.                                     *)
(***************************************************************************)
EXTENDS Integers, Sequences, SequencesExt

CONSTANTS
    Files,        \* pairs of files the writer may create
    DayOf,        \* the day directory of each file
    FixedFiles,   \* those with fixed-size records, which have no data file
    LongNamed,    \* those of a channel whose name fills name_[32] completely
    Times,        \* timestamps of records
    MaxTime,      \* UINT64_MAX, scaled down
    Unlimited,    \* UINT32_MAX as a number of records, scaled down
    DayLength,    \* nanoseconds of a day, scaled down
    MaxRecords,   \* bound: records per file
    MaxTotal,     \* bound: records altogether
    MaxChanges    \* bound: changes the writer makes while it is watched

(* read() takes a timestamp of 0 for an error, so records of time 0 are    *)
(* left out.  "none" stands for a request without a file.                  *)
ASSUME ScannerAssumption ==
    /\ "none" \notin Files
    /\ FixedFiles \subseteq Files /\ LongNamed \subseteq Files
    /\ DayOf \in [Files -> Nat]
    /\ MaxTime \in Nat /\ Times \subseteq 1..MaxTime
    /\ DayLength \in Nat \ {0}
    /\ MaxRecords \in Nat /\ Unlimited \in Nat /\ MaxRecords < Unlimited
    /\ MaxTotal \in Nat /\ MaxChanges \in Nat

VARIABLES
    stage,      \* how far the writer got with each pair
    there,      \* which files of a pair the directory still lists
    index,      \* timestamps of the index entries on disk
    records,    \* number of data records on disk
    changes,    \* changes made by the writer
    service,    \* where the service thread is
    request,    \* the request being served
    due,        \* index files listed when the scan began
    visited,    \* index files looked at so far
    reader,     \* the StreamReader
    response,   \* the DataStreamsResponse
    \* History, read only by the properties
    seen        \* readable records of each file when the request arrived

storage == <<stage, there, index, records, changes>>
scan == <<due, visited>>
scannerVars == <<storage, service, request, scan, reader, response, seen>>

Status == {"kUnknown", "kHealthy", "kEmpty", "kHeadersDifferent"}

Requests ==
    [file : Files \cup {"none"}, start_ns : 0..MaxTime, end_ns : 0..MaxTime,
     start_idx : Nat, max_count : 0..Unlimited]
Piece == [file : Files, i : 1..MaxRecords, time_ns : Times]
Stream == [file : Files, records_cnt : 1..MaxRecords, start_ns : Times,
           end_ns : Times]
NoReader == [file |-> "none", times |-> <<>>, data |-> 0, status |-> "kUnknown"]
NoResponse == [streams |-> {}, data |-> <<>>, errors |-> FALSE]

ScannerTypeOK ==
    /\ stage \in [Files -> {"none", "half", "open"}]
    /\ there \in [Files -> SUBSET {"idx", "data"}]
    /\ index \in [Files -> Seq(Times)]
    /\ records \in [Files -> 0..MaxRecords]
    /\ \A f \in Files : records[f] <= Len(index[f]) /\ Len(index[f]) <= MaxRecords
    /\ changes \in 0..MaxChanges
    /\ service \in {"idle", "scan", "resolve", "index", "data", "match", "respond"}
    /\ request \in Requests
    /\ due \subseteq Files /\ visited \subseteq Files
    /\ reader \in [file : Files \cup {"none"}, times : Seq(Times),
                   data : 0..MaxRecords, status : Status]
    /\ response \in [streams : SUBSET Stream, data : Seq(Piece), errors : BOOLEAN]
    /\ seen \in [Files -> 0..MaxRecords]

Time2YYYYMMDD(time_ns) == time_ns \div DayLength

Parts(f) == IF f \in FixedFiles THEN {"idx"} ELSE {"idx", "data"}

Total(ix) == SumFunction([f \in Files |-> Len(ix[f])])

\* A folder some writer has worked in, perhaps one that died with records of
\* the last entries in its buffer.
ScannerInit ==
    /\ index \in {ix \in [Files -> SeqOf(Times, MaxRecords)] :
                    /\ Total(ix) <= MaxTotal
                    /\ \A f \in Files : \A t \in ToSet(ix[f]) :
                           Time2YYYYMMDD(t) = DayOf[f]}
    /\ stage = [f \in Files |-> IF index[f] = <<>> THEN "none" ELSE "open"]
    /\ there = [f \in Files |-> IF index[f] = <<>> THEN {} ELSE Parts(f)]
    /\ records \in [Files -> 0..MaxRecords]
    /\ \A f \in Files : /\ records[f] <= Len(index[f])
                        /\ f \in FixedFiles => records[f] = Len(index[f])
    /\ changes = 0
    /\ service = "idle"
    /\ request = [file |-> "none", start_ns |-> 0, end_ns |-> 0,
                  start_idx |-> 0, max_count |-> 0]
    /\ due = {} /\ visited = {}
    /\ reader = NoReader
    /\ response = NoResponse
    /\ seen = [f \in Files |-> 0]

-----------------------------------------------------------------------------
(* The writer (see StreamWriter and Storage), as far as a reader can tell  *)

readerVars == <<service, request, scan, reader, response, seen>>

Whole(f) == there[f] = Parts(f)

\* reopenFile() creates the index, then the data file.
CreateIndex(f) ==
    /\ stage[f] = "none"
    /\ stage' = [stage EXCEPT ![f] = IF f \in FixedFiles THEN "open" ELSE "half"]
    /\ there' = [there EXCEPT ![f] = {"idx"}]
    /\ UNCHANGED <<index, records>>

CreateData(f) ==
    /\ stage[f] = "half" /\ there[f] = {"idx"}
    /\ stage' = [stage EXCEPT ![f] = "open"]
    /\ there' = [there EXCEPT ![f] = @ \cup {"data"}]
    /\ UNCHANGED <<index, records>>

\* An index entry reaches the disk, after its record or (buffers, closeFile())
\* before it.  A record goes to the directory of the day of its timestamp.
AppendEntry(f, time_ns) ==
    /\ stage[f] = "open" /\ "idx" \in there[f]
    /\ Time2YYYYMMDD(time_ns) = DayOf[f]
    /\ Len(index[f]) < MaxRecords
    /\ Total(index) < MaxTotal
    /\ index' = [index EXCEPT ![f] = Append(@, time_ns)]
    /\ \/ records' = [records EXCEPT ![f] = Len(index[f]) + 1]
       \/ f \notin FixedFiles /\ UNCHANGED records
    /\ UNCHANGED <<stage, there>>

\* The data records reach the disk behind their entries.
AppendData(f) ==
    /\ records[f] < Len(index[f])
    /\ records' = [records EXCEPT ![f] = Len(index[f])]
    /\ UNCHANGED <<stage, there, index>>

\* deleteFolder(): remove_all() unlinks the files of the oldest day one by one.
Unlink(f, part) ==
    /\ part \in there[f]
    /\ \A g \in Files : there[g] # {} => DayOf[f] <= DayOf[g]
    /\ there' = [there EXCEPT ![f] = @ \ {part}]
    /\ UNCHANGED <<stage, index, records>>

WriterStep ==
    /\ changes < MaxChanges
    /\ changes' = changes + 1
    /\ \E f \in Files :
           \/ CreateIndex(f) \/ CreateData(f) \/ AppendData(f)
           \/ \E t \in Times : AppendEntry(f, t)
           \/ \E part \in {"idx", "data"} : Unlink(f, part)
    /\ UNCHANGED readerVars

-----------------------------------------------------------------------------
(* LogReader::handleReadingRequest() *)

\* A record can be read once index entry and data record are on disk.
Readable(f) == IF Whole(f) THEN records[f] ELSE 0

\* The days of the query.
Selected(f, r) == DayOf[f] \in Time2YYYYMMDD(r.start_ns)..Time2YYYYMMDD(r.end_ns)

\* A request with a file asks for its records, any other for the streams.
handleReadingRequest(r) ==
    /\ service = "idle"
    /\ request' = r
    /\ response' = NoResponse
    /\ seen' = [f \in Files |-> Readable(f)]
    /\ IF r.file = "none"
       THEN /\ service' = "scan"
            /\ due' = {f \in Files : "idx" \in there[f] /\ Selected(f, r)}
            /\ visited' = {}
            /\ UNCHANGED reader
       ELSE /\ service' = "resolve"
            /\ reader' = [NoReader EXCEPT !.file = r.file]
            /\ UNCHANGED scan
    /\ UNCHANGED storage

-----------------------------------------------------------------------------
(* StorageScanner::getStreams() and extractStreams() *)

\* The directory iterators yield every entry that stays, once; an entry made
\* or removed meanwhile may or may not appear.
Visit(f) ==
    /\ service = "scan"
    /\ f \notin visited
    /\ "idx" \in there[f] /\ Selected(f, request)
    /\ visited' = visited \cup {f}
    /\ reader' = [NoReader EXCEPT !.file = f]
    /\ service' = "resolve"
    /\ UNCHANGED <<storage, request, due, response, seen>>

Vanished(f) == "idx" \notin there[f]

Scanned == \A f \in due \ visited : Vanished(f)

EndScan ==
    /\ service = "scan"
    /\ Scanned
    /\ service' = "respond"
    /\ UNCHANGED <<storage, request, scan, reader, response, seen>>

Listing == request.file = "none"

-----------------------------------------------------------------------------
(* resolveIndexPath() and the constructor of StreamReader *)

\* The file is not there, or its header has not been written yet.
MayBeInvalid(f) == Vanished(f) \/ index[f] = <<>>

\* relative() and weakly_canonical() throw when the file vanishes under them:
\* the scan then goes on with the next day.
RestOfDay == {f \in Files : DayOf[f] = DayOf[reader.file]}

Resolve ==
    /\ service = "resolve"
    /\ \/ /\ ~Vanished(reader.file)
          /\ service' = "index"
          /\ UNCHANGED <<visited, response>>
       \/ /\ MayBeInvalid(reader.file) /\ Listing
          /\ service' = "scan"
          /\ \/ UNCHANGED visited
             \/ Vanished(reader.file) /\ visited' = visited \cup RestOfDay
          /\ UNCHANGED response
       \/ /\ MayBeInvalid(reader.file) /\ ~Listing
          /\ service' = "respond"
          /\ response' = [response EXCEPT !.errors = TRUE]
          /\ UNCHANGED visited
    /\ UNCHANGED <<storage, request, due, reader, seen>>

\* The number of records is fixed by the length of the index at this moment.
OpenIndex ==
    /\ service = "index"
    /\ LET f == reader.file
           times == index[f]
       IN  \/ /\ Vanished(f)
              /\ service' = "match"
              /\ UNCHANGED reader
           \/ /\ ~Vanished(f) /\ times = <<>>
              /\ reader' = [reader EXCEPT !.status = "kEmpty"]
              /\ service' = "match"
           \/ /\ ~Vanished(f) /\ times # <<>>
              /\ reader' = [reader EXCEPT !.status = "kHealthy", !.times = times]
              /\ service' = IF f \in FixedFiles THEN "match" ELSE "data"
    /\ UNCHANGED <<storage, request, scan, response, seen>>

\* The data file is opened later: it may be longer, gone, or without a header
\* on disk.  A name that fills name_ is read past its end, and what follows
\* may differ.
StatusOfPair(f) ==
    IF "data" \notin there[f] THEN {"kHeadersDifferent"}
    ELSE IF records[f] = 0 \/ f \in LongNamed THEN {"kHealthy", "kHeadersDifferent"}
    ELSE {"kHealthy"}

OpenData ==
    /\ service = "data"
    /\ \E s \in StatusOfPair(reader.file) :
           reader' = [reader EXCEPT !.status = s, !.data = records[reader.file]]
    /\ service' = "match"
    /\ UNCHANGED <<storage, request, scan, response, seen>>

-----------------------------------------------------------------------------
(* IndexFileReader::matchTime(), StreamReader::read() and getData() *)

records_cnt == Len(reader.times)
start_ns == reader.times[1]
end_ns == reader.times[records_cnt]

EndExcluded(start, end) ==                  \* mutant: off by one at the end
    /\ reader.status = "kHealthy"
    /\ start <= end /\ start_ns < end /\ end_ns >= start
matchTime(start, end) ==
    /\ reader.status = "kHealthy"
    /\ start <= end /\ start_ns <= end /\ end_ns >= start

\* read() of record i, counting from 1: an offset past the data is an error.
ReadOk(i) == reader.file \in FixedFiles \/ i <= reader.data

\* One turn of the loop of getData().
InRange(time_ns) == request.start_ns <= time_ns /\ time_ns <= request.end_ns

getDataTurn(res, i) ==
    IF Len(res.data) >= request.max_count THEN res
    ELSE IF ~ReadOk(i) THEN [res EXCEPT !.errors = TRUE]
    ELSE IF ~InRange(reader.times[i]) THEN res
    ELSE [res EXCEPT !.data = Append(@, [file |-> reader.file, i |-> i,
                                         time_ns |-> reader.times[i]])]

SkipsFirst == request.start_idx + 1         \* mutant: start_idx counted twice
FirstIndex == request.start_idx

getData ==
    FoldLeft(getDataTurn, response,
             [k \in 1..(records_cnt - FirstIndex) |-> FirstIndex + k])

\* The entry of a stream in the list.
ThisStream == [file |-> reader.file, records_cnt |-> records_cnt,
               start_ns |-> start_ns, end_ns |-> end_ns]

Match ==
    /\ service = "match"
    /\ LET matches == matchTime(request.start_ns, request.end_ns)
       IN  /\ response' =
                  IF ~matches THEN response
                  ELSE IF Listing
                       THEN [response EXCEPT !.streams = @ \cup {ThisStream}]
                       ELSE getData
           /\ service' = IF Listing THEN "scan" ELSE "respond"
    /\ UNCHANGED <<storage, request, scan, reader, seen>>

\* The response is on its way; what was used to make it is gone.
Respond ==
    /\ service = "respond"
    /\ service' = "idle"
    /\ due' = {} /\ visited' = {}
    /\ reader' = NoReader
    /\ response' = NoResponse
    /\ seen' = [f \in Files |-> 0]
    /\ UNCHANGED <<storage, request>>

ServiceStep == (\E f \in Files : Visit(f)) \/ EndScan \/ Resolve \/ OpenIndex
                  \/ OpenData \/ Match

-----------------------------------------------------------------------------
(* Properties *)

Ordered(times) == \A i, j \in DOMAIN times : i <= j => times[i] <= times[j]

\* Eviction has not reached the day of f.
DayIntact(f) ==
    \A g \in Files : DayOf[g] = DayOf[f] =>
        Whole(g) \/ stage[g] = "none" \/ (stage[g] = "half" /\ ~Vanished(g))

(* Discovery misses nothing that was there all along: a stream that could  *)
(* be read when the query arrived, whose day is still there when it is     *)
(* answered, and that has a record of the queried time, is listed, however *)
(* files come, grow and go meanwhile.  matchTime() looks at the first and  *)
(* the last timestamp only, so this needs a channel without late samples.  *)
DiscoveryComplete ==
    service = "respond" /\ Listing =>
        \A f \in Files \ LongNamed :
            /\ Whole(f) /\ DayIntact(f)
            /\ Ordered(index[f])
            /\ \E i \in 1..seen[f] : InRange(index[f][i])
            => \E s \in response.streams : s.file = f

=============================================================================
