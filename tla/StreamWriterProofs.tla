------------------------ MODULE StreamWriterProofs --------------------------
(***************************************************************************)
(* Proofs about StreamWriter, for every number of requests, of I/O errors  *)
(* and of crashes, every set of payload sizes and any limit of offset_.    *)
(*                                                                         *)
(* The argument follows the bytes.  A file only ever grows, except in a    *)
(* crash, which leaves what was on disk (Grown).  In a data file records   *)
(* follow each other without overlap, so an offset names at most one of    *)
(* them (GoodData).  An index entry names the record it was written for,   *)
(* or lies beyond the end of a data file that nobody will append to again  *)
(* (EntryInv, CurInv).                                                     *)
(***************************************************************************)
EXTENDS StreamWriter, TLAPS

-----------------------------------------------------------------------------
(* The invariant *)

(* A file that was never created is empty; only the first element of an    *)
(* index is a header.                                                      *)
GoodIndex(f) == /\ ~f.there => f.log = <<>>
                /\ \A j \in 2..Len(f.log) : f.log[j].id # 0

(* The records of a data file follow its header and each other, and none   *)
(* is empty.                                                               *)
GoodData(f) == /\ ~f.there => f.log = <<>>
               /\ f.log # <<>> => f.log[1].size >= Header
               /\ \A j \in 1..Len(f.log) : f.log[j].size > 0
               /\ \A i, j \in 1..Len(f.log) :
                      i < j => f.log[i].at + f.log[i].size <= f.log[j].at

FilesInv == \A n \in Names : GoodIndex(idx[n]) /\ GoodData(data[n])

(* An index entry e leads to its own record in the data file f, or past    *)
(* its end: the record was lost in a crash.                                *)
Held(f, e) == \E k \in 2..Len(f.log) : f.log[k].id = e.id /\ f.log[k].at = e.off
EntryInv ==
    Variable => \A n \in Names : \A j \in 2..Len(idx[n].log) :
        Held(data[n], idx[n].log[j]) \/ idx[n].log[j].off >= End(data[n])

(* The control state: what the handles and the locals of write() say about *)
(* the current pair.  As long as the data stream is good, every entry of   *)
(* the index lies before the end of the data.                              *)
ReqInv == /\ pc # "idle" \/ index_ # "null" \/ rolling => req.id # 0
          /\ req.id # 0 => req.size \in Sizes
          /\ pc \in {"openData", "writeData"} \/ rolling => Variable

HandleInv ==
    /\ index_ = "null" => data_ = "null" /\ pc \notin {"closeIndex", "closeData"}
    /\ pc \in {"openIndex", "openData"} => ~IsOpen(data_)
    /\ pc = "openData" => /\ index_ = "open" /\ idx[cur].log = <<IndexHeader>>
                          /\ data[cur].log = <<>>
    /\ index_ = "open" => idx[cur].log # <<>>
    /\ data_ = "open" => data[cur].log # <<>>

CurInv ==
    /\ Variable /\ data_ = "open" =>
           \A j \in 2..Len(idx[cur].log) : idx[cur].log[j].off < End(data[cur])
    /\ pc \in {"writeData", "writeIndex"} /\ Variable =>
           offset_ + IndexEntry + RecordHeader + req.size <= MaxOffset
    /\ pc = "writeIndex" /\ Variable =>
           /\ data_ = "open" /\ Len(data[cur].log) > 1
           /\ flush => data[cur].disk = Len(data[cur].log)
           /\ index_ = "open" =>
                  data[cur].log[Len(data[cur].log)] =
                      [id |-> req.id, at |-> offset_, size |-> RecordHeader + req.size]

(* An acknowledged record is on disk, in both files of its pair.           *)
OnDisk(f, e) == \E k \in 2..f.disk : f.log[k].id = e.id /\ f.log[k].at = e.off
DurableInv ==
    \A id \in durable : \E n \in Names : \E j \in 2..idx[n].disk :
        /\ idx[n].log[j].id = id
        /\ Variable => OnDisk(data[n], idx[n].log[j])

IInv == /\ TypeOK /\ FilesInv /\ EntryInv /\ ReqInv /\ HandleInv /\ CurInv
        /\ OffsetTracksFile /\ DurableInv

-----------------------------------------------------------------------------
(* What the file operations do *)

(* Every operation on a stream leaves the file as it was or with one more  *)
(* element, and at least as much of it on disk.                            *)
MayAppend(f, e, g) == /\ g.log \in {f.log, Append(f.log, e)}
                      /\ f.disk <= g.disk /\ g.disk <= Len(g.log)
                      /\ f.there => g.there
                      /\ g.log # f.log => g.there

IdxGrows(n, e) == /\ idx' \in [Names -> File(IdxEntry)]
                  /\ MayAppend(idx[n], e, idx'[n])
                  /\ \A m \in Names \ {n} : idx'[m] = idx[m]
DataGrows(n, e) == /\ data' \in [Names -> File(DataRecord)]
                   /\ MayAppend(data[n], e, data'[n])
                   /\ \A m \in Names \ {n} : data'[m] = data[m]

LEMMA AppendedGrows ==
    ASSUME NEW E, NEW f \in File(E), f.disk <= Len(f.log), NEW e \in E,
           NEW k \in f.disk..(Len(f.log) + 1)
    PROVE  LET g == Appended(f, e, k) IN
           /\ g \in File(E) /\ MayAppend(f, e, g)
           /\ g.log = Append(f.log, e) /\ g.disk = k
  BY DEF Appended, File, MayAppend

LEMMA DrainedGrows ==
    ASSUME NEW E, NEW f \in File(E), f.disk <= Len(f.log), NEW e \in E,
           NEW k \in f.disk..Len(f.log)
    PROVE  LET g == Drained(f, k) IN
           /\ g \in File(E) /\ MayAppend(f, e, g)
           /\ g.log = f.log /\ g.disk = k
  BY DEF Drained, File, MayAppend

(* A failed append or flush.                                               *)
LEMMA FailedGrows ==
    ASSUME NEW E, NEW f \in File(E), f.disk <= Len(f.log), NEW e \in E,
           NEW g \in AppendFails(f, e)
    PROVE  g \in File(E) /\ MayAppend(f, e, g)
  <1>1. CASE g \in {Drained(f, k) : k \in f.disk..Len(f.log)}
    BY <1>1, DrainedGrows
  <1>2. CASE g \in {Appended(f, e, k) : k \in f.disk..(Len(f.log) + 1)}
    BY <1>2, AppendedGrows
  <1> QED
    BY <1>1, <1>2 DEF AppendFails

(* The same on a file that open() has just created.                        *)
LEMMA CreatedGrows ==
    ASSUME NEW E, NEW f \in File(E), f.disk <= Len(f.log), NEW e \in E,
           NEW g \in AppendFails([f EXCEPT !.there = TRUE], e)
    PROVE  g \in File(E) /\ MayAppend(f, e, g)
  <1> DEFINE h == [f EXCEPT !.there = TRUE]
  <1>1. h \in File(E) /\ h.log = f.log /\ h.disk = f.disk /\ h.there
    BY DEF File
  <1>2. g \in File(E) /\ MayAppend(h, e, g)
    BY <1>1, FailedGrows
  <1> QED
    BY <1>1, <1>2 DEF MayAppend

(* flush() and close(), whatever comes of them.                            *)
LEMMA ClosedGrows ==
    ASSUME NEW E, NEW f \in File(E), f.disk <= Len(f.log), NEW e \in E,
           NEW h, NEW mayFail \in BOOLEAN, NEW g \in Closed(f, h, mayFail)
    PROVE  g \in File(E) /\ MayAppend(f, e, g) /\ g.log = f.log
  <1>1. Len(f.log) \in f.disk..Len(f.log)
    BY DEF File
  <1>2. PICK k \in f.disk..Len(f.log) : g = Drained(f, k)
    BY <1>1 DEF Closed
  <1> QED
    BY <1>2, DrainedGrows

(* A successful append leaves a prefix on disk, all of it after a flush.   *)
LEMMA KeptPrefix ==
    ASSUME NEW E, NEW f \in File(E), f.disk <= Len(f.log),
           NEW flushed \in BOOLEAN, NEW k \in Kept(f, flushed)
    PROVE  /\ k \in f.disk..(Len(f.log) + 1)
           /\ flushed => k = Len(f.log) + 1
  BY DEF Kept, File

-----------------------------------------------------------------------------
(* What the steps do to the files *)

LEMMA EndIsNat == ASSUME NEW f \in File(DataRecord) PROVE End(f) \in Nat
  <1>1. CASE f.log = <<>>
    BY <1>1 DEF End
  <1>2. CASE f.log # <<>>
    <2>1. f.log[Len(f.log)] \in DataRecord
      BY <1>2 DEF File
    <2> QED
      BY <1>2, <2>1 DEF End, DataRecord
  <1> QED
    BY <1>1, <1>2

LEMMA RequestTypes ==
    ASSUME TypeOK
    PROVE  req.id \in 0..MaxRequests /\ req.size \in Nat /\ offset_ \in 0..MaxOffset
           /\ offset_ \in Nat /\ MaxOffset \in Nat
  <1>1. req \in [id : 0..MaxRequests, size : Sizes \cup {0}, sec : Seconds]
    BY DEF TypeOK
  <1>2. offset_ \in 0..MaxOffset
    BY DEF TypeOK
  <1>3. Sizes \cup {0} \subseteq Nat /\ MaxOffset \in Nat
    BY StreamWriterAssumption
  <1> QED
    BY <1>1, <1>2, <1>3

LEMMA ElementTypes ==
    ASSUME TypeOK
    PROVE  /\ IndexHeader \in IdxEntry /\ NewEntry \in IdxEntry
           /\ \A n \in Names : /\ DataHeader(data[n]) \in DataRecord
                               /\ NewRecord(data[n]) \in DataRecord
  <1>1. req.id \in 0..MaxRequests /\ req.size \in Nat /\ offset_ \in Nat
    BY RequestTypes
  <1>2. \A n \in Names : End(data[n]) \in Nat
    BY EndIsNat DEF TypeOK
  <1>3. IndexHeader \in IdxEntry
    BY StreamWriterAssumption DEF IndexHeader, IdxEntry
  <1>4. NewEntry \in IdxEntry
    BY <1>1 DEF NewEntry, IdxEntry
  <1>5. ASSUME NEW n \in Names
        PROVE  /\ DataHeader(data[n]) \in DataRecord
               /\ NewRecord(data[n]) \in DataRecord
    <2> DEFINE e == End(data[n])
    <2>1. e \in Nat
      BY <1>2
    <2> HIDE DEF e
    <2>2. [id |-> 0, at |-> e, size |-> 49] \in DataRecord
      BY <2>1, StreamWriterAssumption DEF DataRecord
    <2>3. [id |-> req.id, at |-> e, size |-> 12 + req.size] \in DataRecord
      BY <1>1, <2>1 DEF DataRecord
    <2> QED
      BY <2>2, <2>3 DEF DataHeader, NewRecord, Header, RecordHeader, e
  <1> QED
    BY <1>3, <1>4, <1>5

(* reopenFile() starts a new pair: both files of its name are new.         *)
LEMMA OpenIndexFiles ==
    ASSUME TypeOK, FilesInv, OpenIndex
    PROVE  /\ cur' \in Names
           /\ idx[cur'].log = <<>> /\ data[cur'].log = <<>>
           /\ IdxGrows(cur', IndexHeader)
           /\ index_' = "open" => idx'[cur'].log = <<IndexHeader>>
           /\ index_' \in {"open", "closed"}
  <1>1. PICK n \in Names :
            /\ FreeName(n) /\ cur' = n
            /\ \/ /\ idx' = [idx EXCEPT ![n] = Appended(@, IndexHeader, Len(@.log) + 1)]
                  /\ index_' = "open"
               \/ index_' = "closed" /\ UNCHANGED idx
               \/ /\ index_' = "closed"
                  /\ \E f \in AppendFails([idx[n] EXCEPT !.there = TRUE], IndexHeader) :
                         idx' = [idx EXCEPT ![n] = f]
    BY DEF OpenIndex
  <1>2. /\ idx[n] \in File(IdxEntry) /\ idx[n].disk <= Len(idx[n].log)
        /\ idx \in [Names -> File(IdxEntry)]
        /\ IndexHeader \in IdxEntry
    BY ElementTypes DEF TypeOK
  <1>3. idx[n].log = <<>> /\ data[n].log = <<>>
    BY <1>1 DEF FreeName, FilesInv, GoodIndex, GoodData
  <1>4. CASE idx' = [idx EXCEPT ![n] = Appended(@, IndexHeader, Len(@.log) + 1)]
    <2>1. Len(idx[n].log) + 1 \in idx[n].disk..(Len(idx[n].log) + 1)
      BY <1>2 DEF File
    <2>2. LET g == Appended(idx[n], IndexHeader, Len(idx[n].log) + 1) IN
          /\ g \in File(IdxEntry) /\ MayAppend(idx[n], IndexHeader, g)
          /\ g.log = Append(idx[n].log, IndexHeader)
      BY <1>2, <2>1, AppendedGrows
    <2>3. Append(<<>>, IndexHeader) = <<IndexHeader>>
      OBVIOUS
    <2> QED
      BY <1>1, <1>2, <1>3, <1>4, <2>2, <2>3 DEF IdxGrows
  <1>5. CASE index_' = "closed" /\ UNCHANGED idx
    BY <1>1, <1>2, <1>3, <1>5 DEF IdxGrows, MayAppend, File
  <1>6. CASE /\ index_' = "closed"
             /\ \E f \in AppendFails([idx[n] EXCEPT !.there = TRUE], IndexHeader) :
                    idx' = [idx EXCEPT ![n] = f]
    <2>1. PICK f \in AppendFails([idx[n] EXCEPT !.there = TRUE], IndexHeader) :
              idx' = [idx EXCEPT ![n] = f]
      BY <1>6
    <2>2. f \in File(IdxEntry) /\ MayAppend(idx[n], IndexHeader, f)
      BY <1>2, CreatedGrows
    <2> QED
      BY <1>1, <1>2, <1>3, <1>6, <2>1, <2>2 DEF IdxGrows
  <1> QED
    BY <1>1, <1>4, <1>5, <1>6

(* The data file of the new pair gets its header, or part of it.           *)
LEMMA OpenDataFiles ==
    ASSUME TypeOK, HandleInv, OpenData
    PROVE  /\ data[cur].log = <<>>
           /\ DataGrows(cur, DataHeader(data[cur]))
           /\ data_' = "open" => data'[cur].log = <<[id |-> 0, at |-> 0, size |-> Header]>>
           /\ data_' # "open" => index_' = "closed"
           /\ data_' \in {"open", "closed", "bad"}
  <1> DEFINE f == data[cur]  e == DataHeader(f)
  <1>1. /\ f \in File(DataRecord) /\ f.disk <= Len(f.log)
        /\ data \in [Names -> File(DataRecord)] /\ cur \in Names
        /\ e \in DataRecord
    BY ElementTypes DEF TypeOK
  <1>2. f.log = <<>> /\ e = [id |-> 0, at |-> 0, size |-> Header]
    BY DEF OpenData, HandleInv, DataHeader, End
  <1>3. CASE /\ data' = [data EXCEPT ![cur] = Appended(f, e, Len(f.log) + 1)]
             /\ data_' = "open"
    <2>1. Len(f.log) + 1 \in f.disk..(Len(f.log) + 1)
      BY <1>1 DEF File
    <2>2. LET g == Appended(f, e, Len(f.log) + 1) IN
          /\ g \in File(DataRecord) /\ MayAppend(f, e, g)
          /\ g.log = Append(f.log, e)
      BY <1>1, <2>1, AppendedGrows
    <2>3. Append(<<>>, e) = <<e>>
      OBVIOUS
    <2> QED
      BY <1>1, <1>2, <1>3, <2>2, <2>3 DEF DataGrows
  <1>4. CASE data_' = "closed" /\ AbandonIndex /\ UNCHANGED data
    BY <1>1, <1>2, <1>4 DEF DataGrows, MayAppend, File, AbandonIndex
  <1>5. CASE /\ data_' = "bad" /\ AbandonIndex
             /\ \E g \in AppendFails([f EXCEPT !.there = TRUE], e) :
                    data' = [data EXCEPT ![cur] = g]
    <2>1. PICK g \in AppendFails([f EXCEPT !.there = TRUE], e) :
              data' = [data EXCEPT ![cur] = g]
      BY <1>5
    <2>2. g \in File(DataRecord) /\ MayAppend(f, e, g)
      BY <1>1, CreatedGrows
    <2> QED
      BY <1>1, <1>2, <1>5, <2>1, <2>2 DEF DataGrows, AbandonIndex
  <1> QED
    BY <1>3, <1>4, <1>5 DEF OpenData

(* write() appends to the data file while the stream is good, and goes on  *)
(* to the index only after a success.                                      *)
LEMMA WriteDataFiles ==
    ASSUME TypeOK, WriteData
    PROVE  /\ data_ = "open" => DataGrows(cur, NewRecord(data[cur]))
           /\ data_ # "open" => UNCHANGED data /\ pc' = "idle" /\ data_' = "bad"
           /\ pc' \in {"idle", "writeIndex"}
           /\ pc' = "idle" => data_' = "bad"
           /\ pc' = "writeIndex" =>
                  /\ data_ = "open" /\ data_' = "open" /\ UNCHANGED locals
                  /\ data'[cur].log = Append(data[cur].log, NewRecord(data[cur]))
                  /\ flush => data'[cur].disk = Len(data[cur].log) + 1
  <1> DEFINE f == data[cur]  e == NewRecord(f)
  <1>1. /\ f \in File(DataRecord) /\ f.disk <= Len(f.log)
        /\ data \in [Names -> File(DataRecord)] /\ cur \in Names
        /\ e \in DataRecord /\ flush \in BOOLEAN
    BY ElementTypes DEF TypeOK
  <1>2. CASE /\ data_ = "open" /\ data_' = "open" /\ UNCHANGED locals
             /\ pc' = "writeIndex"
             /\ \E k \in Kept(f, flush) :
                    data' = [data EXCEPT ![cur] = Appended(f, e, k)]
    <2>1. PICK k \in Kept(f, flush) : data' = [data EXCEPT ![cur] = Appended(f, e, k)]
      BY <1>2
    <2>2. k \in f.disk..(Len(f.log) + 1) /\ (flush => k = Len(f.log) + 1)
      BY <1>1, KeptPrefix
    <2>3. LET g == Appended(f, e, k) IN
          /\ g \in File(DataRecord) /\ MayAppend(f, e, g)
          /\ g.log = Append(f.log, e) /\ g.disk = k
      BY <1>1, <2>2, AppendedGrows
    <2> QED
      BY <1>1, <1>2, <2>1, <2>2, <2>3 DEF DataGrows
  <1>3. CASE /\ data_ = "open" /\ data_' = "bad" /\ pc' = "idle"
             /\ \E g \in AppendFails(f, e) : data' = [data EXCEPT ![cur] = g]
    <2>1. PICK g \in AppendFails(f, e) : data' = [data EXCEPT ![cur] = g]
      BY <1>3
    <2>2. g \in File(DataRecord) /\ MayAppend(f, e, g)
      BY <1>1, FailedGrows
    <2> QED
      BY <1>1, <1>3, <2>1, <2>2 DEF DataGrows
  <1>4. CASE data_ = "bad" /\ pc' = "idle" /\ UNCHANGED <<data, data_>>
    BY <1>4
  <1> QED
    BY <1>2, <1>3, <1>4 DEF WriteData, Return

(* Then it appends the entry to the index; an entry whose record was       *)
(* flushed is flushed too.                                                 *)
LEMMA WriteIndexFiles ==
    ASSUME TypeOK, WriteIndex
    PROVE  /\ index_ = "open" => IdxGrows(cur, NewEntry)
           /\ index_ # "open" => UNCHANGED <<idx, durable, index_, offset_>>
           /\ index_' = "open" =>
                  /\ index_ = "open" /\ offset_' = Advanced
                  /\ idx'[cur].log = Append(idx[cur].log, NewEntry)
           /\ UNCHANGED durable \/
                  /\ index_' = "open" /\ flush
                  /\ durable' = durable \cup Committed(idx[cur]) \cup {req.id}
                  /\ idx'[cur].disk = Len(idx[cur].log) + 1
           /\ index_' \in {"open", "bad"}
           /\ index_' # "open" => UNCHANGED offset_
  <1> DEFINE f == idx[cur]  e == NewEntry
  <1>1. /\ f \in File(IdxEntry) /\ f.disk <= Len(f.log)
        /\ idx \in [Names -> File(IdxEntry)] /\ cur \in Names
        /\ e \in IdxEntry /\ flush \in BOOLEAN
    BY ElementTypes DEF TypeOK
  <1>2. CASE /\ index_ = "open" /\ UNCHANGED index_ /\ offset_' = Advanced
             /\ \E k \in IndexKept(f) :
                    idx' = [idx EXCEPT ![cur] = Appended(f, e, k)]
             /\ durable' = IF flush THEN durable \cup Committed(f) \cup {req.id}
                           ELSE durable
    <2>1. PICK k \in Kept(f, flush) : idx' = [idx EXCEPT ![cur] = Appended(f, e, k)]
      BY <1>2 DEF IndexKept
    <2>2. k \in f.disk..(Len(f.log) + 1) /\ (flush => k = Len(f.log) + 1)
      BY <1>1, KeptPrefix
    <2>3. LET g == Appended(f, e, k) IN
          /\ g \in File(IdxEntry) /\ MayAppend(f, e, g)
          /\ g.log = Append(f.log, e) /\ g.disk = k
      BY <1>1, <2>2, AppendedGrows
    <2>4. /\ idx'[cur] = Appended(f, e, k)
          /\ IdxGrows(cur, e)
      BY <1>1, <2>1, <2>3 DEF IdxGrows
    <2> QED
      BY <1>1, <1>2, <2>2, <2>3, <2>4
  <1>3. CASE /\ index_ = "open" /\ index_' = "bad" /\ UNCHANGED <<offset_, durable>>
             /\ \E g \in AppendFails(f, e) : idx' = [idx EXCEPT ![cur] = g]
    <2>1. PICK g \in AppendFails(f, e) : idx' = [idx EXCEPT ![cur] = g]
      BY <1>3
    <2>2. g \in File(IdxEntry) /\ MayAppend(f, e, g)
      BY <1>1, FailedGrows
    <2> QED
      BY <1>1, <1>3, <2>1, <2>2 DEF IdxGrows
  <1>4. CASE index_ = "bad" /\ UNCHANGED <<idx, index_, offset_, durable>>
    BY <1>4
  <1> QED
    BY <1>2, <1>3, <1>4 DEF WriteIndex

(* closeFile() drains the streams and appends nothing.                     *)
LEMMA CloseIndexFiles ==
    ASSUME TypeOK, CloseIndex
    PROVE  IdxGrows(cur, IndexHeader) /\ idx'[cur].log = idx[cur].log
  <1>1. /\ idx[cur] \in File(IdxEntry) /\ idx[cur].disk <= Len(idx[cur].log)
        /\ idx \in [Names -> File(IdxEntry)] /\ cur \in Names
        /\ IndexHeader \in IdxEntry
    BY ElementTypes DEF TypeOK
  <1>2. CASE UNCHANGED idx
    BY <1>1, <1>2 DEF IdxGrows, MayAppend, File
  <1>3. ASSUME NEW mayFail \in BOOLEAN, NEW f \in Closed(idx[cur], index_, mayFail),
               idx' = [idx EXCEPT ![cur] = f]
        PROVE  IdxGrows(cur, IndexHeader) /\ idx'[cur].log = idx[cur].log
    <2>1. f \in File(IdxEntry) /\ MayAppend(idx[cur], IndexHeader, f)
          /\ f.log = idx[cur].log
      BY <1>1, ClosedGrows
    <2> QED
      BY <1>1, <1>3, <2>1 DEF IdxGrows
  <1> QED
    BY <1>2, <1>3 DEF CloseIndex

LEMMA CloseDataFiles ==
    ASSUME TypeOK, CloseData
    PROVE  DataGrows(cur, DataHeader(data[cur])) /\ data'[cur].log = data[cur].log
  <1>1. /\ data[cur] \in File(DataRecord) /\ data[cur].disk <= Len(data[cur].log)
        /\ data \in [Names -> File(DataRecord)] /\ cur \in Names
        /\ DataHeader(data[cur]) \in DataRecord
    BY ElementTypes DEF TypeOK
  <1>2. CASE UNCHANGED data
    BY <1>1, <1>2 DEF DataGrows, MayAppend, File
  <1>3. ASSUME NEW mayFail \in BOOLEAN, NEW f \in Closed(data[cur], data_, mayFail),
               data' = [data EXCEPT ![cur] = f]
        PROVE  /\ DataGrows(cur, DataHeader(data[cur]))
               /\ data'[cur].log = data[cur].log
    <2>1. /\ f \in File(DataRecord) /\ MayAppend(data[cur], DataHeader(data[cur]), f)
          /\ f.log = data[cur].log
      BY <1>1, ClosedGrows
    <2> QED
      BY <1>1, <1>3, <2>1 DEF DataGrows
  <1> QED
    BY <1>2, <1>3 DEF CloseData

(* A crash leaves of every file the part that was on disk.                 *)
LEMMA SurvivesPrefix ==
    ASSUME NEW E, NEW f \in File(E), f.disk <= Len(f.log)
    PROVE  LET g == Survives(f) IN
           /\ g \in File(E) /\ g.disk = f.disk /\ Len(g.log) = f.disk
           /\ g.there = f.there
           /\ \A j \in 1..f.disk : g.log[j] = f.log[j]
  <1>1. f.log \in Seq(E) /\ f.disk \in Nat
    BY DEF File
  <1>2. /\ SubSeq(f.log, 1, f.disk) \in Seq(E)
        /\ Len(SubSeq(f.log, 1, f.disk)) = f.disk
        /\ \A j \in 1..f.disk : SubSeq(f.log, 1, f.disk)[j] = f.log[j]
    BY <1>1
  <1> QED
    BY <1>1, <1>2 DEF Survives, File

-----------------------------------------------------------------------------
(* One lemma per part of IInv *)

(* offset_ does not wrap around: write() starts a new pair before it could. *)
LEMMA NoWrap ==
    ASSUME TypeOK, CurInv, pc = "writeIndex"
    PROVE  /\ Advanced = IF Variable THEN offset_ + RecordHeader + req.size
                         ELSE offset_
           /\ Advanced \in 0..MaxOffset
  <1>1. /\ req.size \in Nat /\ offset_ \in 0..MaxOffset /\ offset_ \in Nat
        /\ MaxOffset \in Nat
    BY RequestTypes
  <1>2. ASSUME NEW a \in Nat, NEW b \in Nat, a <= b PROVE a % (b + 1) = a
    BY <1>2
  <1>3. CASE Variable
    <2>1. offset_ + 12 + 12 + req.size <= MaxOffset
      BY <1>3 DEF CurInv, IndexEntry, RecordHeader
    <2>2. offset_ + 12 + req.size \in Nat /\ offset_ + 12 + req.size <= MaxOffset
      BY <1>1, <2>1
    <2>3. (offset_ + 12 + req.size) % (MaxOffset + 1) = offset_ + 12 + req.size
      BY <1>1, <1>2, <2>2
    <2> QED
      BY <1>1, <1>3, <2>2, <2>3 DEF Advanced, RecordHeader
  <1> QED
    BY <1>1, <1>3 DEF Advanced

FileTypes == /\ idx \in [Names -> File(IdxEntry)]
             /\ data \in [Names -> File(DataRecord)]
             /\ \A n \in Names : /\ idx[n].disk <= Len(idx[n].log)
                                 /\ data[n].disk <= Len(data[n].log)

LEMMA FileTypeStep ==
    ASSUME TypeOK, FilesInv, HandleInv, [Next]_vars
    PROVE  FileTypes'
  <1> USE DEF FileTypes
  <1>0. FileTypes /\ cur \in Names
    BY DEF TypeOK
  <1>1. ASSUME NEW n \in Names, NEW e, IdxGrows(n, e), UNCHANGED data
        PROVE  FileTypes'
    BY <1>0, <1>1 DEF IdxGrows, MayAppend
  <1>2. ASSUME NEW n \in Names, NEW e, DataGrows(n, e), UNCHANGED idx
        PROVE  FileTypes'
    BY <1>0, <1>2 DEF DataGrows, MayAppend
  <1>3. CASE OpenIndex
    BY <1>1, <1>3, OpenIndexFiles DEF OpenIndex
  <1>4. CASE OpenData
    BY <1>0, <1>2, <1>4, OpenDataFiles DEF OpenData
  <1>5. CASE WriteData
    BY <1>0, <1>2, <1>5, WriteDataFiles DEF WriteData
  <1>6. CASE WriteIndex
    BY <1>0, <1>1, <1>6, WriteIndexFiles DEF WriteIndex
  <1>7. CASE CloseIndex
    BY <1>0, <1>1, <1>7, CloseIndexFiles DEF CloseIndex
  <1>8. CASE CloseData
    BY <1>0, <1>2, <1>8, CloseDataFiles DEF CloseData
  <1>9. CASE Crash
    <2>1. \A n \in Names : /\ Survives(idx[n]) \in File(IdxEntry)
                           /\ Survives(idx[n]).disk <= Len(Survives(idx[n]).log)
      BY <1>0, SurvivesPrefix DEF File
    <2>2. \A n \in Names : /\ Survives(data[n]) \in File(DataRecord)
                           /\ Survives(data[n]).disk <= Len(Survives(data[n]).log)
      BY <1>0, SurvivesPrefix DEF File
    <2> QED
      BY <1>9, <2>1, <2>2 DEF Crash
  <1>10. CASE UNCHANGED files
    BY <1>0, <1>10 DEF files
  <1> QED
    BY <1>3, <1>4, <1>5, <1>6, <1>7, <1>8, <1>9, <1>10
    DEF Next, Step, Request, Tick, Refuse, BeginWrite, Destroy, vars, files

ControlTypes ==
    /\ cur \in Names
    /\ index_ \in Handle /\ data_ \in Handle
    /\ offset_ \in 0..MaxOffset
    /\ elapsed \in BOOLEAN /\ rolling \in BOOLEAN /\ flush \in BOOLEAN
    /\ pc \in {"idle", "openIndex", "openData", "write", "writeData",
               "writeIndex", "closeIndex", "closeData"}
    /\ faults \in 0..MaxFaults

LEMMA ControlTypeStep ==
    ASSUME TypeOK, FilesInv, CurInv, [Next]_vars
    PROVE  ControlTypes'
  <1> USE DEF ControlTypes, Handle
  <1>0. ControlTypes
    BY DEF TypeOK
  <1>1. ASSUME Fault PROVE faults' \in 0..MaxFaults
    BY <1>0, <1>1, StreamWriterAssumption DEF Fault
  <1>2. 0 \in 0..MaxOffset /\ Header \in 0..MaxOffset
    <2>1. PICK s \in Sizes : s \in Nat
      BY StreamWriterAssumption
    <2> QED
      BY <2>1, StreamWriterAssumption DEF Header, IndexEntry, RecordHeader
  <1>3. ASSUME NEW size, NEW sec, Request(size, sec) PROVE ControlTypes'
    BY <1>0, <1>3 DEF Request, handles, locals
  <1>4. CASE Tick
    BY <1>0, <1>4 DEF Tick, handles, locals
  <1>5. CASE OpenIndex
    <2>1. cur' \in Names /\ offset_' \in 0..MaxOffset /\ index_' \in Handle
      BY <1>2, <1>5 DEF OpenIndex
    <2>2. faults' \in 0..MaxFaults /\ UNCHANGED data_
      BY <1>0, <1>1, <1>5 DEF OpenIndex
    <2>3. /\ elapsed' \in BOOLEAN /\ rolling' \in BOOLEAN /\ flush' \in BOOLEAN
          /\ pc' \in {"idle", "openData", "write", "writeData"}
      BY <1>0, <1>5 DEF OpenIndex, Resume, Return, locals
    <2> QED
      BY <1>0, <2>1, <2>2, <2>3
  <1>6. CASE OpenData
    BY <1>0, <1>1, <1>2, <1>6
    DEF OpenData, Resume, Return, AbandonIndex, FirstOffset
  <1>7. CASE Refuse
    BY <1>0, <1>7 DEF Refuse, Return, handles
  <1>8. CASE BeginWrite
    BY <1>0, <1>8 DEF BeginWrite, handles
  <1>9. CASE WriteData
    BY <1>0, <1>1, <1>9 DEF WriteData, Return, locals
  <1>10. CASE WriteIndex
    <2>1. Advanced \in 0..MaxOffset
      BY <1>10, NoWrap DEF WriteIndex
    <2> QED
      BY <1>0, <1>1, <1>10, <2>1 DEF WriteIndex, Return
  <1>11. CASE Destroy
    BY <1>0, <1>11 DEF Destroy, handles, locals
  <1>12. CASE CloseIndex
    BY <1>0, <1>1, <1>12 DEF CloseIndex, locals
  <1>13. CASE CloseData
    BY <1>0, <1>1, <1>2, <1>13 DEF CloseData, Gone, Return, locals
  <1>14. CASE Crash
    BY <1>0, <1>2, <1>14 DEF Crash, Gone, Return
  <1>15. CASE UNCHANGED vars
    BY <1>0, <1>15 DEF vars
  <1> QED
    BY <1>3, <1>4, <1>5, <1>6, <1>7, <1>8, <1>9, <1>10, <1>11, <1>12, <1>13,
       <1>14, <1>15 DEF Next, Step

(* Every acknowledged record was requested.                                *)
LEMMA TypeStep ==
    ASSUME TypeOK, FilesInv, ReqInv, HandleInv, CurInv, [Next]_vars
    PROVE  TypeOK'
  <1>1. FileTypes' /\ ControlTypes'
    BY FileTypeStep, ControlTypeStep
  <1>2. record_size_' \in RecordSizes
    BY DEF TypeOK, Next, vars
  <1>3. req' \in [id : 0..MaxRequests, size : Sizes \cup {0}, sec : Seconds]
    <2>1. CASE UNCHANGED req
      BY <2>1 DEF TypeOK
    <2>2. ASSUME NEW size \in Sizes, NEW sec \in Seconds, Request(size, sec)
          PROVE  req' \in [id : 0..MaxRequests, size : Sizes \cup {0}, sec : Seconds]
      <3>1. req.id \in 0..MaxRequests /\ MaxRequests \in Nat
        BY RequestTypes, StreamWriterAssumption
      <3> QED
        BY <2>2, <3>1 DEF Request
    <2> QED
      BY <2>1, <2>2
      DEF Next, Step, Tick, OpenIndex, OpenData, Refuse, BeginWrite, WriteData,
          WriteIndex, Destroy, CloseIndex, CloseData, Crash, vars
  <1>4. durable' \subseteq 1..MaxRequests
    <2>1. CASE UNCHANGED durable
      BY <2>1 DEF TypeOK
    <2>2. CASE WriteIndex
      <3>1. Committed(idx[cur]) \subseteq 1..MaxRequests
        <4>1. idx[cur] \in File(IdxEntry) /\ GoodIndex(idx[cur])
          BY DEF TypeOK, FilesInv
        <4>2. \A i \in 2..Len(idx[cur].log) : idx[cur].log[i].id \in 1..MaxRequests
          <5> SUFFICES ASSUME NEW i \in 2..Len(idx[cur].log)
                       PROVE  idx[cur].log[i].id \in 1..MaxRequests
            OBVIOUS
          <5>1. idx[cur].log[i] \in IdxEntry
            BY <4>1 DEF File
          <5>2. idx[cur].log[i].id \in 0..MaxRequests
            BY <5>1 DEF IdxEntry
          <5> QED
            BY <4>1, <5>2, StreamWriterAssumption DEF GoodIndex
        <4> QED
          BY <4>2 DEF Committed
      <3>2. req.id \in 1..MaxRequests
        BY <2>2, RequestTypes DEF ReqInv, WriteIndex
      <3>3. durable \subseteq 1..MaxRequests
        BY DEF TypeOK
      <3> QED
        BY <2>2, <3>1, <3>2, <3>3, WriteIndexFiles
    <2> QED
      BY <2>1, <2>2
      DEF Next, Step, Request, Tick, OpenIndex, OpenData, Refuse, BeginWrite,
          WriteData, Destroy, CloseIndex, CloseData, Crash, vars
  <1> QED
    BY <1>1, <1>2, <1>3, <1>4 DEF TypeOK, FileTypes, ControlTypes

LEMMA ReqStep ==
    ASSUME TypeOK, ReqInv, [Next]_vars
    PROVE  ReqInv'
  <1> USE DEF ReqInv
  <1>0. UNCHANGED record_size_ /\ (Variable' <=> Variable)
    BY DEF Next, vars, Variable
  <1>1. ASSUME NEW size \in Sizes, NEW sec \in Seconds, Request(size, sec)
        PROVE  ReqInv'
    <2>1. req'.id = req.id + 1 /\ req'.size = size /\ req.id \in Nat
      BY <1>1, RequestTypes DEF Request
    <2> QED
      BY <1>0, <1>1, <2>1 DEF Request, locals
  <1>2. CASE Tick
    BY <1>0, <1>2 DEF Tick, handles, locals
  <1>3. CASE OpenIndex
    BY <1>0, <1>3 DEF OpenIndex, Resume, Return, locals
  <1>4. CASE OpenData
    BY <1>0, <1>4 DEF OpenData, Resume, Return, AbandonIndex
  <1>5. CASE Refuse
    BY <1>0, <1>5 DEF Refuse, Return, handles
  <1>6. CASE BeginWrite
    BY <1>0, <1>6 DEF BeginWrite, handles
  <1>7. CASE WriteData
    BY <1>0, <1>7 DEF WriteData, Return, locals
  <1>8. CASE WriteIndex
    BY <1>0, <1>8 DEF WriteIndex, Return
  <1>9. CASE Destroy
    BY <1>0, <1>9 DEF Destroy, handles, locals
  <1>10. CASE CloseIndex
    BY <1>0, <1>10 DEF CloseIndex, locals
  <1>11. CASE CloseData
    BY <1>0, <1>11 DEF CloseData, Gone, Return, locals
  <1>12. CASE Crash
    BY <1>0, <1>12 DEF Crash, Gone, Return
  <1>13. CASE UNCHANGED vars
    BY <1>0, <1>13 DEF vars
  <1> QED
    BY <1>1, <1>2, <1>3, <1>4, <1>5, <1>6, <1>7, <1>8, <1>9, <1>10, <1>11,
       <1>12, <1>13 DEF Next, Step

(* Both handles refer to the current pair: a handle that is good is the    *)
(* handle of a file with a complete header.                                *)
LEMMA HandleStep ==
    ASSUME TypeOK, FilesInv, HandleInv, [Next]_vars
    PROVE  HandleInv'
  <1> USE DEF HandleInv, IsOpen
  <1>0. cur \in Names /\ IndexHeader' = IndexHeader
    BY DEF TypeOK, IndexHeader
  <1>a. /\ \A n \in Names : idx[n].log \in Seq(IdxEntry)
        /\ \A n \in Names : data[n].log \in Seq(DataRecord)
    BY DEF TypeOK, File
  <1>1. ASSUME NEW size, NEW sec, Request(size, sec) PROVE HandleInv'
    BY <1>0, <1>1 DEF Request, handles, files
  <1>2. CASE Tick
    BY <1>0, <1>2 DEF Tick, handles, files
  <1>3. CASE OpenIndex
    <2>1. /\ UNCHANGED <<data, data_>> /\ pc = "openIndex"
          /\ index_' \in {"open", "closed"}
          /\ pc' = "openData" => index_' = "open"
          /\ pc' # "openIndex"
      BY <1>3 DEF OpenIndex, Resume, Return
    <2>2. /\ data[cur'].log = <<>>
          /\ index_' = "open" => idx'[cur'].log = <<IndexHeader>>
      BY <1>3, OpenIndexFiles
    <2>3. <<IndexHeader>> # <<>>
      OBVIOUS
    <2> QED
      BY <1>0, <2>1, <2>2, <2>3
  <1>4. CASE OpenData
    <2>1. /\ UNCHANGED <<idx, cur>> /\ pc' \notin {"openIndex", "openData"}
          /\ index_' \in {index_, "closed"} /\ index_ = "open"
      BY <1>4 DEF OpenData, Resume, Return, AbandonIndex
    <2>2. data_' = "open" => data'[cur].log # <<>>
      BY <1>4, OpenDataFiles
    <2> QED
      BY <2>1, <2>2
  <1>5. CASE Refuse
    BY <1>0, <1>5 DEF Refuse, Return, handles, files
  <1>6. CASE BeginWrite
    BY <1>0, <1>6 DEF BeginWrite, Refused, handles, files
  <1>7. CASE WriteData
    <2>1. UNCHANGED <<idx, cur, index_>>
      BY <1>7 DEF WriteData
    <2>2. /\ pc' \in {"idle", "writeIndex"}
          /\ data_' = "open" => data'[cur].log # <<>>
      BY <1>a, <1>0, <1>7, WriteDataFiles
    <2>3. index_ = "null" => data_' = "null"
      BY <1>7 DEF WriteData
    <2> QED
      BY <2>1, <2>2, <2>3
  <1>8. CASE WriteIndex
    <2>1. UNCHANGED <<data, cur, data_>> /\ pc' = "idle"
      BY <1>8 DEF WriteIndex, Return
    <2>2. /\ index_' = "open" => idx'[cur].log # <<>>
          /\ index_' \in {"open", "bad"}
      BY <1>a, <1>0, <1>8, WriteIndexFiles
    <2> QED
      BY <2>1, <2>2
  <1>9. CASE Destroy
    BY <1>0, <1>9 DEF Destroy, handles, files
  <1>10. CASE CloseIndex
    <2>1. /\ UNCHANGED <<data, cur, data_>> /\ pc' = "closeData"
          /\ index_' \in {index_, "closed"} /\ index_ # "null"
      BY <1>10 DEF CloseIndex
    <2>2. idx'[cur].log = idx[cur].log
      BY <1>10, CloseIndexFiles
    <2> QED
      BY <2>1, <2>2
  <1>11. CASE CloseData
    <2>1. UNCHANGED <<idx, cur>>
      BY <1>11 DEF CloseData
    <2>2. \/ /\ rolling /\ pc' = "openIndex" /\ data_' = "closed" /\ UNCHANGED index_
          \/ index_' = "null" /\ data_' = "null" /\ pc' = "idle"
      BY <1>11 DEF CloseData, Gone, Return
    <2>3. index_' = "null" => data_' = "null" /\ pc' = "idle"
      BY <1>11, <2>2 DEF CloseData
    <2> QED
      BY <2>1, <2>2, <2>3
  <1>12. CASE Crash
    BY <1>12 DEF Crash, Gone, Return
  <1>13. CASE UNCHANGED vars
    BY <1>0, <1>13 DEF vars
  <1> QED
    BY <1>1, <1>2, <1>3, <1>4, <1>5, <1>6, <1>7, <1>8, <1>9, <1>10, <1>11,
       <1>12, <1>13 DEF Next, Step

(* A header goes into an empty index, an entry with an id behind it.       *)
LEMMA GoodIndexKept ==
    ASSUME NEW f \in File(IdxEntry), NEW g \in File(IdxEntry), NEW e \in IdxEntry,
           GoodIndex(f), MayAppend(f, e, g),
           f.log = <<>> \/ e.id # 0 \/ g.log = f.log
    PROVE  GoodIndex(g)
  <1>1. f.log \in Seq(IdxEntry)
    BY DEF File
  <1>2. CASE g.log = f.log
    BY <1>2 DEF GoodIndex, MayAppend, File
  <1>3. CASE g.log # f.log
    <2>1. g.there /\ g.log = Append(f.log, e)
      BY <1>3 DEF MayAppend
    <2>2. ASSUME NEW j \in 2..Len(g.log) PROVE g.log[j].id # 0
      <3>1. CASE j \in 2..Len(f.log)
        BY <1>1, <2>1, <3>1 DEF GoodIndex
      <3>2. CASE j = Len(f.log) + 1
        BY <1>1, <1>3, <2>1, <3>2
      <3> QED
        BY <1>1, <2>1, <3>1, <3>2
    <2> QED
      BY <2>1, <2>2 DEF GoodIndex
  <1> QED
    BY <1>2, <1>3

(* A record is appended where the data ended.                              *)
LEMMA GoodDataKept ==
    ASSUME NEW f \in File(DataRecord), NEW g \in File(DataRecord),
           NEW e \in DataRecord, GoodData(f), MayAppend(f, e, g),
           e.at = End(f), e.size > 0, f.log = <<>> => e.size >= Header
    PROVE  GoodData(g)
  <1>1. f.log \in Seq(DataRecord) /\ g.log \in Seq(DataRecord)
    BY DEF File
  <1>2. CASE g.log = f.log
    BY <1>2 DEF GoodData, MayAppend, File
  <1>3. CASE g.log # f.log
    <2>1. g.there /\ g.log = Append(f.log, e)
      BY <1>3 DEF MayAppend
    <2>2. /\ Len(g.log) = Len(f.log) + 1 /\ g.log[Len(f.log) + 1] = e
          /\ \A j \in 1..Len(f.log) : g.log[j] = f.log[j]
          /\ \A j \in 1..Len(g.log) : j \in 1..Len(f.log) \/ j = Len(f.log) + 1
      BY <1>1, <2>1
    <2>3. \A j \in 1..Len(f.log) : /\ f.log[j].at \in Nat /\ f.log[j].size \in Nat
                                   /\ f.log[j].at + f.log[j].size <= End(f)
      <3> SUFFICES ASSUME NEW j \in 1..Len(f.log)
                   PROVE  /\ f.log[j].at \in Nat /\ f.log[j].size \in Nat
                          /\ f.log[j].at + f.log[j].size <= End(f)
        OBVIOUS
      <3>1. f.log[j] \in DataRecord /\ f.log[Len(f.log)] \in DataRecord
        BY <1>1
      <3>2. /\ f.log[j].at \in Nat /\ f.log[j].size \in Nat
            /\ f.log[Len(f.log)].at \in Nat /\ f.log[Len(f.log)].size \in Nat
        BY <3>1 DEF DataRecord
      <3>3. End(f) = f.log[Len(f.log)].at + f.log[Len(f.log)].size
        BY <1>1 DEF End
      <3>4. CASE j = Len(f.log)
        BY <3>2, <3>3, <3>4
      <3>5. CASE j < Len(f.log)
        <4>1. f.log[j].at + f.log[j].size <= f.log[Len(f.log)].at
          BY <1>1, <3>5 DEF GoodData
        <4> QED
          BY <3>2, <3>3, <4>1
      <3> QED
        BY <1>1, <3>2, <3>4, <3>5
    <2>4. \A j \in 1..Len(g.log) : g.log[j].size > 0
      BY <2>2 DEF GoodData
    <2>6. g.log[1].size >= Header
      <3>1. CASE f.log = <<>>
        BY <2>2, <3>1
      <3>2. CASE f.log # <<>>
        <4>1. 1 \in 1..Len(f.log)
          BY <1>1, <3>2
        <4> QED
          BY <2>2, <3>2, <4>1 DEF GoodData
      <3> QED
        BY <3>1, <3>2
    <2>5. ASSUME NEW i \in 1..Len(g.log), NEW j \in 1..Len(g.log), i < j
          PROVE  g.log[i].at + g.log[i].size <= g.log[j].at
      <3>1. i \in 1..Len(f.log)
        BY <1>1, <2>2, <2>5
      <3>2. CASE j \in 1..Len(f.log)
        BY <2>2, <2>5, <3>1, <3>2 DEF GoodData
      <3>3. CASE j = Len(f.log) + 1
        BY <2>2, <2>3, <3>1, <3>3
      <3> QED
        BY <2>2, <3>2, <3>3
    <2> QED
      BY <2>1, <2>4, <2>5, <2>6 DEF GoodData
  <1> QED
    BY <1>2, <1>3

LEMMA FilesStep ==
    ASSUME TypeOK, FilesInv, ReqInv, HandleInv, [Next]_vars
    PROVE  FilesInv'
  <1>0. /\ cur \in Names
        /\ idx \in [Names -> File(IdxEntry)]
        /\ data \in [Names -> File(DataRecord)]
        /\ \A n \in Names : /\ idx[n].disk <= Len(idx[n].log)
                            /\ data[n].disk <= Len(data[n].log)
    BY DEF TypeOK
  <1>1. ASSUME NEW n \in Names, NEW e \in IdxEntry, IdxGrows(n, e), UNCHANGED data,
               idx[n].log = <<>> \/ e.id # 0 \/ idx'[n].log = idx[n].log
        PROVE  FilesInv'
    <2>1. GoodIndex(idx'[n])
      BY <1>0, <1>1, GoodIndexKept DEF FilesInv, IdxGrows
    <2> QED
      BY <1>1, <2>1 DEF FilesInv, IdxGrows
  <1>2. ASSUME NEW n \in Names, NEW e \in DataRecord, DataGrows(n, e), UNCHANGED idx,
               e.at = End(data[n]), e.size > 0,
               data[n].log = <<>> => e.size >= Header
        PROVE  FilesInv'
    <2>1. GoodData(data'[n])
      BY <1>0, <1>2, GoodDataKept DEF FilesInv, DataGrows
    <2> QED
      BY <1>2, <2>1 DEF FilesInv, DataGrows
  <1>3. CASE OpenIndex
    BY <1>1, <1>3, OpenIndexFiles, ElementTypes DEF OpenIndex
  <1>4. /\ DataHeader(data[cur]).at = End(data[cur])
        /\ DataHeader(data[cur]).size > 0 /\ DataHeader(data[cur]).size >= Header
    BY DEF DataHeader, Header
  <1>5. NewRecord(data[cur]).at = End(data[cur]) /\ NewRecord(data[cur]).size > 0
    BY RequestTypes DEF NewRecord, RecordHeader
  <1>6. CASE OpenData
    BY <1>0, <1>2, <1>4, <1>6, OpenDataFiles, ElementTypes DEF OpenData
  <1>7. CASE WriteData
    <2>1. CASE data_ = "open"
      <3>1. data[cur].log # <<>>
        BY <2>1 DEF HandleInv
      <3> QED
        BY <1>0, <1>2, <1>5, <1>7, <2>1, <3>1, WriteDataFiles, ElementTypes
        DEF WriteData
    <2>2. CASE UNCHANGED files
      BY <2>2 DEF FilesInv, files
    <2> QED
      BY <1>7, <2>1, <2>2, WriteDataFiles DEF WriteData, files
  <1>8. CASE WriteIndex
    <2>1. NewEntry.id # 0
      BY <1>8 DEF ReqInv, WriteIndex, NewEntry
    <2>2. CASE index_ = "open"
      BY <1>0, <1>1, <1>8, <2>1, <2>2, WriteIndexFiles, ElementTypes DEF WriteIndex
    <2>3. CASE UNCHANGED files
      BY <2>3 DEF FilesInv, files
    <2> QED
      BY <1>8, <2>2, <2>3, WriteIndexFiles DEF WriteIndex, files
  <1>9. CASE CloseIndex
    BY <1>0, <1>1, <1>9, CloseIndexFiles, ElementTypes DEF CloseIndex
  <1>10. CASE CloseData
    BY <1>0, <1>2, <1>4, <1>10, CloseDataFiles, ElementTypes DEF CloseData
  <1>11. CASE Crash
    <2>1. ASSUME NEW n \in Names PROVE GoodIndex(Survives(idx[n]))
      <3> DEFINE f == idx[n]  g == Survives(idx[n])
      <3>1. /\ Len(g.log) = f.disk /\ g.there = f.there
            /\ \A j \in 1..f.disk : g.log[j] = f.log[j]
            /\ f.disk \in Nat /\ f.disk <= Len(f.log) /\ g.log \in Seq(IdxEntry)
            /\ Len(f.log) \in Nat
        BY <1>0, SurvivesPrefix DEF File
      <3>2. f.log = <<>> => Len(f.log) = 0
        OBVIOUS
      <3>3. GoodIndex(f)
        BY DEF FilesInv
      <3> HIDE DEF f, g
      <3>4. GoodIndex(g)
        BY <3>1, <3>2, <3>3 DEF GoodIndex
      <3> QED
        BY <3>4 DEF g
    <2>2. ASSUME NEW n \in Names PROVE GoodData(Survives(data[n]))
      <3> DEFINE f == data[n]  g == Survives(data[n])
      <3>1. /\ Len(g.log) = f.disk /\ g.there = f.there
            /\ \A j \in 1..f.disk : g.log[j] = f.log[j]
            /\ f.disk \in Nat /\ f.disk <= Len(f.log) /\ g.log \in Seq(DataRecord)
            /\ Len(f.log) \in Nat
        BY <1>0, SurvivesPrefix DEF File
      <3>2. f.log = <<>> => Len(f.log) = 0
        OBVIOUS
      <3>3. GoodData(f)
        BY DEF FilesInv
      <3> HIDE DEF f, g
      <3>4. GoodData(g)
        <4>1. ~g.there => g.log = <<>>
          BY <3>1, <3>2, <3>3 DEF GoodData
        <4>2. \A j \in 1..Len(g.log) : j \in 1..Len(f.log) /\ g.log[j] = f.log[j]
          BY <3>1
        <4>3. \A j \in 1..Len(g.log) : g.log[j].size > 0
          BY <3>3, <4>2 DEF GoodData
        <4>4. ASSUME NEW i \in 1..Len(g.log), NEW j \in 1..Len(g.log), i < j
              PROVE  g.log[i].at + g.log[i].size <= g.log[j].at
          BY <3>3, <4>2, <4>4 DEF GoodData
        <4>5. g.log # <<>> => g.log[1].size >= Header
          <5>1. ASSUME g.log # <<>> PROVE 1 \in 1..Len(g.log) /\ f.log # <<>>
            BY <3>1, <3>2, <5>1
          <5> QED
            BY <3>3, <4>2, <5>1 DEF GoodData
        <4> QED
          BY <4>1, <4>3, <4>4, <4>5 DEF GoodData
      <3> QED
        BY <3>4 DEF g
    <2> QED
      BY <1>11, <2>1, <2>2 DEF Crash, FilesInv
  <1>12. CASE UNCHANGED files
    BY <1>12 DEF FilesInv, files
  <1> QED
    BY <1>3, <1>6, <1>7, <1>8, <1>9, <1>10, <1>11, <1>12
    DEF Next, Step, Request, Tick, Refuse, BeginWrite, Destroy, vars, files

(* What has been written stays where it is.                                *)
LEMMA HeldKept ==
    ASSUME NEW f \in File(DataRecord), NEW g \in File(DataRecord), NEW x, NEW e,
           MayAppend(f, x, g), Held(f, e)
    PROVE  Held(g, e)
  <1>1. f.log \in Seq(DataRecord)
    BY DEF File
  <1>2. \A k \in 2..Len(f.log) : k \in 2..Len(g.log) /\ g.log[k] = f.log[k]
    BY <1>1 DEF MayAppend
  <1> QED
    BY <1>2 DEF Held

LEMMA EndAppended ==
    ASSUME NEW f \in File(DataRecord), NEW g \in File(DataRecord),
           NEW x \in DataRecord, g.log = Append(f.log, x)
    PROVE  End(g) = x.at + x.size
  <1>1. f.log \in Seq(DataRecord)
    BY DEF File
  <1>2. g.log # <<>> /\ g.log[Len(g.log)] = x
    BY <1>1
  <1> QED
    BY <1>2 DEF End

(* A crash shortens the data: a record is still there, or the data now     *)
(* ends before it.                                                         *)
LEMMA SurvivingRecord ==
    ASSUME NEW f \in File(DataRecord), f.disk <= Len(f.log), GoodData(f), NEW e
    PROVE  /\ Held(f, e) => Held(Survives(f), e) \/ e.off >= End(Survives(f))
           /\ End(Survives(f)) <= End(f)
  <1> DEFINE g == Survives(f)
  <1>1. /\ g \in File(DataRecord) /\ Len(g.log) = f.disk
        /\ \A j \in 1..f.disk : g.log[j] = f.log[j]
    BY SurvivesPrefix
  <1>2. /\ f.log \in Seq(DataRecord) /\ f.disk \in Nat /\ Len(f.log) \in Nat
        /\ g.log \in Seq(DataRecord)
    BY <1>1 DEF File
  <1>3. \A j \in 1..Len(f.log) : f.log[j].at \in Nat /\ f.log[j].size \in Nat
    <2>1. \A j \in 1..Len(f.log) : f.log[j] \in DataRecord
      BY <1>2
    <2> QED
      BY <2>1 DEF DataRecord
  <1>4. End(f) \in Nat /\ End(g) \in Nat
    BY <1>1, EndIsNat
  <1>5. CASE f.disk = 0
    <2>1. End(g) = 0
      BY <1>1, <1>2, <1>5 DEF End
    <2>2. ASSUME Held(f, e) PROVE e.off >= End(g)
      BY <1>3, <2>1, <2>2 DEF Held
    <2> QED
      BY <1>4, <2>1, <2>2
  <1>6. CASE f.disk # 0
    <2>1. /\ f.disk \in 1..Len(f.log) /\ Len(f.log) \in 1..Len(f.log)
          /\ f.log # <<>> /\ g.log # <<>>
      BY <1>1, <1>2, <1>6
    <2>2. /\ End(g) = f.log[f.disk].at + f.log[f.disk].size
          /\ End(f) = f.log[Len(f.log)].at + f.log[Len(f.log)].size
      BY <1>1, <2>1 DEF End
    <2>3. \A k \in 1..Len(f.log) : f.disk < k => End(g) <= f.log[k].at
      BY <2>1, <2>2 DEF GoodData
    <2>4. End(g) <= End(f)
      <3>1. CASE f.disk = Len(f.log)
        BY <1>4, <2>2, <3>1
      <3>2. CASE f.disk < Len(f.log)
        <4>1. End(g) <= f.log[Len(f.log)].at
          BY <2>1, <2>3, <3>2
        <4> QED
          BY <1>3, <1>4, <2>1, <2>2, <4>1
      <3> QED
        BY <1>2, <3>1, <3>2
    <2>5. ASSUME Held(f, e) PROVE Held(g, e) \/ e.off >= End(g)
      <3>1. PICK k \in 2..Len(f.log) : f.log[k].id = e.id /\ f.log[k].at = e.off
        BY <2>5 DEF Held
      <3>2. CASE k <= f.disk
        <4>1. k \in 2..Len(g.log) /\ g.log[k] = f.log[k]
          BY <1>1, <1>2, <3>2
        <4> QED
          BY <3>1, <4>1 DEF Held
      <3>3. CASE f.disk < k
        <4>1. End(g) <= f.log[k].at /\ f.log[k].at \in Nat
          BY <1>3, <2>3, <3>3
        <4> QED
          BY <1>4, <3>1, <4>1
      <3> QED
        BY <1>2, <3>2, <3>3
    <2> QED
      BY <2>4, <2>5
  <1> QED
    BY <1>5, <1>6

(* The record write() has just put into the data file is the one the new   *)
(* index entry names.                                                      *)
LEMMA NewEntryHeld ==
    ASSUME TypeOK, CurInv, Variable, pc = "writeIndex", index_ = "open"
    PROVE  Held(data[cur], NewEntry) /\ NewEntry.off < End(data[cur])
  <1> DEFINE f == data[cur]
  <1>1. f.log \in Seq(DataRecord)
    BY DEF TypeOK, File
  <1>2. /\ Len(f.log) > 1
        /\ f.log[Len(f.log)] = [id |-> req.id, at |-> offset_,
                                size |-> RecordHeader + req.size]
    BY DEF CurInv
  <1>3. NewEntry.id = req.id /\ NewEntry.off = offset_
    BY DEF NewEntry
  <1>4. End(f) = offset_ + (12 + req.size)
    BY <1>1, <1>2 DEF End, RecordHeader
  <1>5. Len(f.log) \in 2..Len(f.log)
    BY <1>1, <1>2
  <1>6. Held(f, NewEntry)
    BY <1>2, <1>3, <1>5 DEF Held
  <1>7. offset_ < offset_ + (12 + req.size)
    BY RequestTypes
  <1> QED
    BY <1>3, <1>4, <1>6, <1>7

LEMMA EntryStep ==
    ASSUME TypeOK, FilesInv, EntryInv, ReqInv, HandleInv, CurInv, [Next]_vars
    PROVE  EntryInv'
  <1> SUFFICES ASSUME Variable,
                      NEW n \in Names, NEW j \in 2..Len(idx'[n].log)
               PROVE  Held(data'[n], idx'[n].log[j])
                          \/ idx'[n].log[j].off >= End(data'[n])
    <2>1. Variable' <=> Variable
      BY DEF Variable, Next, vars
    <2> QED
      BY <2>1 DEF EntryInv, Held, End
  <1>0. /\ cur \in Names
        /\ idx[n] \in File(IdxEntry) /\ data[n] \in File(DataRecord)
        /\ idx[n].log \in Seq(IdxEntry) /\ data[n].disk <= Len(data[n].log)
        /\ idx[n].disk <= Len(idx[n].log)
    BY DEF TypeOK, File
  <1>1. ASSUME NEW i \in 2..Len(idx[n].log)
        PROVE  Held(data[n], idx[n].log[i]) \/ idx[n].log[i].off >= End(data[n])
    BY DEF EntryInv
  <1> DEFINE Goal == Held(data'[n], idx'[n].log[j])
                         \/ idx'[n].log[j].off >= End(data'[n])
  <1>2. CASE idx'[n].log = idx[n].log /\ data'[n].log = data[n].log
    BY <1>1, <1>2 DEF Held, End
  <1>3. CASE OpenIndex
    <2>1. CASE n = cur'
      <3>1. Len(idx'[n].log) <= 1
        BY <1>3, <2>1, OpenIndexFiles DEF IdxGrows, MayAppend
      <3> QED
        BY <1>0, <3>1
    <2>2. CASE n # cur'
      BY <1>2, <1>3, <2>2, OpenIndexFiles DEF IdxGrows, OpenIndex
    <2> QED
      BY <2>1, <2>2
  <1>4. CASE OpenData
    <2>1. CASE n = cur
      <3>1. idx'[n].log = <<IndexHeader>>
        BY <1>4, <2>1 DEF OpenData, HandleInv
      <3> QED
        BY <3>1
    <2>2. CASE n # cur
      BY <1>2, <1>4, <2>2, OpenDataFiles DEF DataGrows, OpenData
    <2> QED
      BY <2>1, <2>2
  <1>5. CASE WriteData
    <2>1. UNCHANGED idx
      BY <1>5 DEF WriteData
    <2>2. CASE n = cur /\ data_ = "open"
      <3>1. idx[n].log[j].off < End(data[n])
        BY <2>1, <2>2 DEF CurInv
      <3>2. idx[n].log[j].off \in Nat
        <4>1. idx[n].log[j] \in IdxEntry
          BY <1>0, <2>1
        <4> QED
          BY <4>1 DEF IdxEntry
      <3>3. Held(data[n], idx[n].log[j])
        BY <1>0, <1>1, <2>1, <3>1, <3>2, EndIsNat
      <3>4. MayAppend(data[n], NewRecord(data[n]), data'[n])
            /\ data'[n] \in File(DataRecord)
        BY <1>5, <2>2, WriteDataFiles DEF DataGrows
      <3> QED
        BY <1>0, <2>1, <3>3, <3>4, HeldKept
    <2>3. CASE n # cur \/ data_ # "open"
      BY <1>2, <1>5, <2>1, <2>3, WriteDataFiles DEF DataGrows
    <2> QED
      BY <2>2, <2>3
  <1>6. CASE WriteIndex
    <2>1. UNCHANGED data /\ pc = "writeIndex"
      BY <1>6 DEF WriteIndex
    <2>2. CASE n = cur /\ index_ = "open" /\ idx'[n].log # idx[n].log
      <3>1. idx'[n].log = Append(idx[n].log, NewEntry)
        BY <1>6, <2>2, WriteIndexFiles DEF IdxGrows, MayAppend
      <3>2. CASE j \in 2..Len(idx[n].log)
        BY <1>0, <1>1, <2>1, <3>1, <3>2
      <3>3. CASE j = Len(idx[n].log) + 1
        <4>1. idx'[n].log[j] = NewEntry
          BY <1>0, <3>1, <3>3
        <4> QED
          BY <2>1, <2>2, <4>1, NewEntryHeld
      <3> QED
        BY <1>0, <3>1, <3>2, <3>3
    <2>3. CASE n # cur \/ index_ # "open" \/ idx'[n].log = idx[n].log
      BY <1>2, <1>6, <2>1, <2>3, WriteIndexFiles DEF IdxGrows
    <2> QED
      BY <2>2, <2>3
  <1>7. CASE CloseIndex
    BY <1>2, <1>7, CloseIndexFiles DEF CloseIndex, IdxGrows
  <1>8. CASE CloseData
    BY <1>2, <1>8, CloseDataFiles DEF CloseData, DataGrows
  <1>9. CASE Crash
    <2>1. idx'[n] = Survives(idx[n]) /\ data'[n] = Survives(data[n])
      BY <1>9 DEF Crash
    <2>2. /\ j \in 2..Len(idx[n].log) /\ idx'[n].log[j] = idx[n].log[j]
      <3>1. /\ Len(idx'[n].log) = idx[n].disk /\ idx[n].disk \in Nat
            /\ \A i \in 1..idx[n].disk : idx'[n].log[i] = idx[n].log[i]
        BY <1>0, <2>1, SurvivesPrefix DEF File
      <3> QED
        BY <1>0, <3>1
    <2>3. idx[n].log[j].off \in Nat
      <3>1. idx[n].log[j] \in IdxEntry
        BY <1>0, <2>2
      <3> QED
        BY <3>1 DEF IdxEntry
    <2>4. End(data[n]) \in Nat /\ End(data'[n]) \in Nat
      BY <1>0, <2>1, EndIsNat, SurvivesPrefix
    <2>5. GoodData(data[n])
      BY DEF FilesInv
    <2>6. /\ Held(data[n], idx[n].log[j]) =>
                 Held(data'[n], idx[n].log[j]) \/ idx[n].log[j].off >= End(data'[n])
          /\ End(data'[n]) <= End(data[n])
      BY <1>0, <2>1, <2>5, SurvivingRecord
    <2>7. Held(data[n], idx[n].log[j]) \/ idx[n].log[j].off >= End(data[n])
      BY <1>1, <2>2
    <2>8. idx[n].log[j].off >= End(data[n]) => idx[n].log[j].off >= End(data'[n])
      BY <2>3, <2>4, <2>6
    <2> QED
      BY <2>2, <2>6, <2>7, <2>8
  <1>10. CASE UNCHANGED files
    BY <1>2, <1>10 DEF files
  <1> QED
    BY <1>3, <1>4, <1>5, <1>6, <1>7, <1>8, <1>9, <1>10
    DEF Next, Step, Request, Tick, Refuse, BeginWrite, Destroy, vars, files

(* offset_ is the end of the data after openFile(), and moves with it.     *)
LEMMA OffsetStep ==
    ASSUME TypeOK, HandleInv, CurInv, OffsetTracksFile, [Next]_vars
    PROVE  OffsetTracksFile'
  <1> USE DEF OffsetTracksFile
  <1>0. /\ cur \in Names /\ data \in [Names -> File(DataRecord)]
        /\ Variable' <=> Variable
    BY DEF TypeOK, Next, vars, Variable
  <1>1. ASSUME NEW size, NEW sec, Request(size, sec) PROVE OffsetTracksFile'
    BY <1>0, <1>1 DEF Request, handles, files, End
  <1>2. CASE Tick \/ Refuse \/ BeginWrite
    BY <1>0, <1>2 DEF Tick, Refuse, BeginWrite, Return, handles, files, End
  <1>3. CASE OpenIndex
    BY <1>3 DEF OpenIndex, HandleInv, IsOpen
  <1>4. CASE OpenData
    <2>1. UNCHANGED cur /\ offset_' = Header
      BY <1>4 DEF OpenData, FirstOffset
    <2>2. data_' = "open" => End(data'[cur]) = 0 + Header
      <3>1. ASSUME data_' = "open" PROVE End(data'[cur]) = 0 + Header
        <4>1. data'[cur].log = <<[id |-> 0, at |-> 0, size |-> Header]>>
          BY <1>4, <3>1, OpenDataFiles
        <4> QED
          BY <4>1 DEF End
      <3> QED
        BY <3>1
    <2> QED
      BY <2>1, <2>2 DEF Header, End
  <1>5. CASE WriteData
    BY <1>5, WriteDataFiles
  <1>6. CASE WriteIndex
    <2>1. UNCHANGED <<data, cur, data_>> /\ pc = "writeIndex"
      BY <1>6 DEF WriteIndex
    <2>2. ASSUME Variable, index_' = "open" PROVE offset_' = End(data[cur])
      <3>1. index_ = "open" /\ offset_' = Advanced
        BY <1>6, <2>2, WriteIndexFiles
      <3>2. Advanced = offset_ + RecordHeader + req.size
        BY <2>1, <2>2, NoWrap
      <3>3. /\ Len(data[cur].log) > 1
            /\ data[cur].log[Len(data[cur].log)] =
                   [id |-> req.id, at |-> offset_, size |-> RecordHeader + req.size]
        BY <2>1, <2>2, <3>1 DEF CurInv
      <3>4. End(data[cur]) = offset_ + (RecordHeader + req.size)
        BY <3>3 DEF End
      <3> QED
        BY <3>1, <3>2, <3>4, RequestTypes DEF RecordHeader
    <2> QED
      BY <1>0, <2>1, <2>2 DEF End
  <1>7. CASE Destroy \/ CloseIndex \/ CloseData \/ Crash
    BY <1>7 DEF Destroy, CloseIndex, CloseData, Crash, Gone, Return
  <1>8. CASE UNCHANGED vars
    BY <1>0, <1>8 DEF vars, End
  <1> QED
    BY <1>1, <1>2, <1>3, <1>4, <1>5, <1>6, <1>7, <1>8 DEF Next, Step

BeforeEnd ==
    Variable /\ data_ = "open" =>
        \A j \in 2..Len(idx[cur].log) : idx[cur].log[j].off < End(data[cur])

LEMMA BeforeEndStep ==
    ASSUME TypeOK, HandleInv, CurInv, [Next]_vars
    PROVE  BeforeEnd'
  <1> USE DEF BeforeEnd
  <1>0. /\ cur \in Names /\ BeforeEnd /\ (Variable' <=> Variable)
        /\ data[cur] \in File(DataRecord) /\ idx[cur].log \in Seq(IdxEntry)
    BY DEF TypeOK, File, CurInv, Next, vars, Variable
  <1>1. CASE UNCHANGED <<cur, data_>> /\ idx'[cur].log = idx[cur].log
                 /\ data'[cur].log = data[cur].log
    BY <1>0, <1>1 DEF End
  <1>2. CASE OpenIndex
    BY <1>2 DEF OpenIndex, HandleInv, IsOpen
  <1>3. CASE OpenData
    <2>1. idx'[cur'].log = <<IndexHeader>>
      BY <1>3 DEF OpenData, HandleInv
    <2> QED
      BY <2>1
  <1>4. CASE WriteData
    <2>1. UNCHANGED <<idx, cur>>
      BY <1>4 DEF WriteData
    <2>2. ASSUME data_' = "open", Variable, NEW j \in 2..Len(idx[cur].log)
          PROVE  idx[cur].log[j].off < End(data'[cur])
      <3>1. /\ data_ = "open" /\ data'[cur] \in File(DataRecord)
            /\ data'[cur].log = Append(data[cur].log, NewRecord(data[cur]))
        BY <1>0, <1>4, <2>2, WriteDataFiles DEF DataGrows
      <3>2. End(data'[cur]) = NewRecord(data[cur]).at + NewRecord(data[cur]).size
        BY <1>0, <3>1, EndAppended, ElementTypes
      <3>3. End(data'[cur]) = End(data[cur]) + (RecordHeader + req.size)
        BY <3>2 DEF NewRecord
      <3>4. idx[cur].log[j].off < End(data[cur])
        BY <1>0, <2>2, <3>1
      <3>5. idx[cur].log[j].off \in Nat
        <4>1. idx[cur].log[j] \in IdxEntry
          BY <1>0
        <4> QED
          BY <4>1 DEF IdxEntry
      <3>6. End(data[cur]) \in Nat /\ req.size \in Nat
        BY <1>0, EndIsNat, RequestTypes
      <3> QED
        BY <3>3, <3>4, <3>5, <3>6 DEF RecordHeader
    <2> QED
      BY <1>0, <2>1, <2>2 DEF End
  <1>5. CASE WriteIndex
    <2>1. UNCHANGED <<data, cur, data_>> /\ pc = "writeIndex"
      BY <1>5 DEF WriteIndex
    <2>2. CASE idx'[cur].log = idx[cur].log
      BY <1>1, <2>1, <2>2
    <2>3. CASE idx'[cur].log # idx[cur].log
      <3>1. index_ = "open" /\ idx'[cur].log = Append(idx[cur].log, NewEntry)
        BY <1>5, <2>3, WriteIndexFiles DEF IdxGrows, MayAppend
      <3>2. ASSUME data_ = "open", Variable, NEW j \in 2..Len(idx'[cur].log)
            PROVE  idx'[cur].log[j].off < End(data[cur])
        <4>1. CASE j \in 2..Len(idx[cur].log)
          BY <1>0, <3>1, <3>2, <4>1
        <4>2. CASE j = Len(idx[cur].log) + 1
          <5>1. idx'[cur].log[j] = NewEntry
            BY <1>0, <3>1, <4>2
          <5> QED
            BY <2>1, <3>1, <3>2, <5>1, NewEntryHeld
        <4> QED
          BY <1>0, <3>1, <4>1, <4>2
      <3> QED
        BY <1>0, <2>1, <3>2 DEF End
    <2> QED
      BY <2>2, <2>3
  <1>6. CASE CloseIndex
    BY <1>1, <1>6, CloseIndexFiles DEF CloseIndex
  <1>7. CASE CloseData \/ Crash
    BY <1>7 DEF CloseData, Crash, Gone
  <1>8. CASE UNCHANGED <<files, cur, handles>>
    BY <1>1, <1>8 DEF files, handles
  <1> QED
    BY <1>2, <1>3, <1>4, <1>5, <1>6, <1>7, <1>8
    DEF Next, Step, Request, Tick, Refuse, BeginWrite, Destroy, vars, files, handles

(* write() commits to the index only what it has put into the data.        *)
LEMMA CurStep ==
    ASSUME TypeOK, ReqInv, HandleInv, CurInv, OffsetTracksFile, [Next]_vars
    PROVE  CurInv'
  <1> DEFINE Room == pc \in {"writeData", "writeIndex"} /\ Variable =>
                         offset_ + IndexEntry + RecordHeader + req.size <= MaxOffset
             Ready == pc = "writeIndex" /\ Variable =>
                 /\ data_ = "open" /\ Len(data[cur].log) > 1
                 /\ flush => data[cur].disk = Len(data[cur].log)
                 /\ index_ = "open" =>
                        data[cur].log[Len(data[cur].log)] =
                            [id |-> req.id, at |-> offset_,
                             size |-> RecordHeader + req.size]
  <1>0. Room /\ Ready /\ (Variable' <=> Variable)
    BY DEF CurInv, Next, vars, Variable
  <1>a. \A s \in Sizes : Header + IndexEntry + RecordHeader + s <= MaxOffset
    BY StreamWriterAssumption
  <1>1. CASE WriteData
    <2>1. UNCHANGED <<cur, index_, offset_, req>> /\ pc = "writeData"
      BY <1>1 DEF WriteData
    <2>2. Room'
      BY <1>0, <2>1 DEF ReqInv
    <2>3. ASSUME pc' = "writeIndex", Variable PROVE Ready'
      <3>1. /\ data_ = "open" /\ data_' = "open" /\ UNCHANGED locals
            /\ data'[cur].log = Append(data[cur].log, NewRecord(data[cur]))
            /\ flush => data'[cur].disk = Len(data[cur].log) + 1
        BY <1>1, <2>3, WriteDataFiles
      <3>2. data[cur].log \in Seq(DataRecord) /\ data[cur].log # <<>>
        BY <3>1 DEF TypeOK, File, HandleInv
      <3>3. /\ Len(data'[cur].log) = Len(data[cur].log) + 1
            /\ Len(data'[cur].log) > 1
            /\ data'[cur].log[Len(data'[cur].log)] = NewRecord(data[cur])
        BY <3>1, <3>2
      <3>4. index_ = "open" => End(data[cur]) = offset_
        BY <2>1, <2>3, <3>1 DEF OffsetTracksFile
      <3> QED
        BY <2>1, <3>1, <3>3, <3>4 DEF NewRecord, locals
    <2>4. Ready'
      BY <1>0, <2>3
    <2> QED
      BY <2>2, <2>4, BeforeEndStep DEF CurInv, BeforeEnd
  <1>2. CASE BeginWrite
    <2>1. Room'
      <3>1. ASSUME ~Overflows
            PROVE  offset_ + IndexEntry + RecordHeader + req.size <= MaxOffset
        BY <3>1, RequestTypes DEF Overflows, IndexEntry, RecordHeader
      <3> QED
        BY <1>0, <1>2, <3>1 DEF BeginWrite
    <2>2. Ready'
      BY <1>0, <1>2 DEF BeginWrite
    <2> QED
      BY <2>1, <2>2, BeforeEndStep DEF CurInv, BeforeEnd
  <1>3. CASE OpenData
    <2>1. pc' # "writeIndex" /\ offset_' = Header /\ UNCHANGED req
      BY <1>3 DEF OpenData, Resume, Return, FirstOffset
    <2>2. req.size \in Sizes
      BY <1>3 DEF OpenData, ReqInv
    <2> QED
      BY <1>a, <2>1, <2>2, BeforeEndStep DEF CurInv, BeforeEnd
  <1>4. CASE OpenIndex
    <2>1. pc' # "writeIndex" /\ (pc' = "writeData" => ~Variable)
      BY <1>4 DEF OpenIndex, Resume, Return, ReqInv
    <2> QED
      BY <1>0, <2>1, BeforeEndStep DEF CurInv, BeforeEnd
  <1>5. CASE pc' \notin {"writeData", "writeIndex"}
    BY <1>5, BeforeEndStep DEF CurInv, BeforeEnd
  <1>6. CASE Tick \/ UNCHANGED vars
    <2>1. UNCHANGED <<pc, data_, index_, data, cur, offset_, req, flush>>
      BY <1>6 DEF Tick, handles, files, locals, vars
    <2>2. Room' /\ Ready'
      BY <1>0, <2>1
    <2> QED
      BY <2>2, BeforeEndStep DEF CurInv, BeforeEnd
  <1> QED
    BY <1>1, <1>2, <1>3, <1>4, <1>5, <1>6
    DEF Next, Step, Request, Refuse, Return, WriteIndex, Destroy, CloseIndex,
        CloseData, Gone, Crash

(* What is on disk stays on disk, in a crash too.                          *)
Grown(f, g) == f.disk <= g.disk /\ \A j \in 1..f.disk : g.log[j] = f.log[j]

LEMMA MayAppendGrown ==
    ASSUME NEW E, NEW f \in File(E), f.disk <= Len(f.log), NEW e, NEW g,
           MayAppend(f, e, g)
    PROVE  Grown(f, g)
  <1>1. f.log \in Seq(E) /\ f.disk \in Nat
    BY DEF File
  <1> QED
    BY <1>1 DEF MayAppend, Grown

LEMMA AllGrown ==
    ASSUME TypeOK, FilesInv, HandleInv, [Next]_vars, NEW n \in Names
    PROVE  Grown(idx[n], idx'[n]) /\ Grown(data[n], data'[n])
  <1>0. /\ cur \in Names
        /\ idx[n] \in File(IdxEntry) /\ data[n] \in File(DataRecord)
        /\ data[n].disk <= Len(data[n].log) /\ idx[n].disk <= Len(idx[n].log)
        /\ data[n].disk \in Nat /\ idx[n].disk \in Nat
    BY DEF TypeOK, File
  <1>1. idx'[n] = idx[n] => Grown(idx[n], idx'[n])
    BY <1>0 DEF Grown
  <1>2. data'[n] = data[n] => Grown(data[n], data'[n])
    BY <1>0 DEF Grown
  <1>3. ASSUME NEW m \in Names, NEW e, IdxGrows(m, e) PROVE Grown(idx[n], idx'[n])
    BY <1>0, <1>1, <1>3, MayAppendGrown DEF IdxGrows
  <1>4. ASSUME NEW m \in Names, NEW e, DataGrows(m, e) PROVE Grown(data[n], data'[n])
    BY <1>0, <1>2, <1>4, MayAppendGrown DEF DataGrows
  <1>5. CASE OpenIndex
    BY <1>2, <1>3, <1>5, OpenIndexFiles DEF OpenIndex
  <1>6. CASE OpenData
    BY <1>0, <1>1, <1>4, <1>6, OpenDataFiles DEF OpenData
  <1>7. CASE WriteData
    BY <1>0, <1>1, <1>2, <1>4, <1>7, WriteDataFiles DEF WriteData
  <1>8. CASE WriteIndex
    BY <1>0, <1>1, <1>2, <1>3, <1>8, WriteIndexFiles DEF WriteIndex
  <1>9. CASE CloseIndex
    BY <1>0, <1>2, <1>3, <1>9, CloseIndexFiles DEF CloseIndex
  <1>10. CASE CloseData
    BY <1>0, <1>1, <1>4, <1>10, CloseDataFiles DEF CloseData
  <1>11. CASE Crash
    <2>1. Grown(idx[n], Survives(idx[n]))
      BY <1>0, SurvivesPrefix DEF Grown
    <2>2. Grown(data[n], Survives(data[n]))
      BY <1>0, SurvivesPrefix DEF Grown
    <2> QED
      BY <1>11, <2>1, <2>2 DEF Crash
  <1>12. CASE UNCHANGED files
    BY <1>1, <1>2, <1>12 DEF files
  <1> QED
    BY <1>5, <1>6, <1>7, <1>8, <1>9, <1>10, <1>11, <1>12
    DEF Next, Step, Request, Tick, Refuse, BeginWrite, Destroy, vars, files

(* The record id is on disk in the pair n, behind entry j of its index.    *)
Safe(id, n, j) == /\ idx[n].log[j].id = id
                  /\ Variable => OnDisk(data[n], idx[n].log[j])

(* A record once on disk stays there; a write that flushes finds the       *)
(* records of the entries before it in the data file that was flushed.     *)
LEMMA DurableStep ==
    ASSUME TypeOK, FilesInv, EntryInv, HandleInv, CurInv, DurableInv, [Next]_vars
    PROVE  DurableInv'
  <1> USE DEF Safe
  <1>0. Variable' <=> Variable
    BY DEF Variable, Next, vars
  <1>1. ASSUME NEW id \in durable
        PROVE  \E n \in Names : \E j \in 2..idx'[n].disk : Safe(id, n, j)'
    <2>a. PICK n \in Names : \E j \in 2..idx[n].disk : Safe(id, n, j)
      BY DEF DurableInv
    <2>1. PICK j \in 2..idx[n].disk : Safe(id, n, j)
      BY <2>a
    <2>2. Grown(idx[n], idx'[n]) /\ Grown(data[n], data'[n])
      BY AllGrown
    <2>3. /\ idx[n].disk \in Nat /\ data[n].disk \in Nat
          /\ idx'[n].disk \in Nat /\ data'[n].disk \in Nat
      BY FileTypeStep DEF TypeOK, FileTypes, File
    <2>4. j \in 2..idx'[n].disk /\ idx'[n].log[j] = idx[n].log[j]
      BY <2>2, <2>3 DEF Grown
    <2>5. OnDisk(data[n], idx[n].log[j]) => OnDisk(data'[n], idx[n].log[j])
      BY <2>2, <2>3 DEF Grown, OnDisk
    <2> QED
      BY <1>0, <2>1, <2>4, <2>5 DEF OnDisk
  <1>2. CASE UNCHANGED durable
    BY <1>0, <1>1, <1>2 DEF DurableInv
  <1>3. CASE WriteIndex /\ durable' # durable
    <2>1. UNCHANGED <<data, cur, data_>> /\ pc = "writeIndex"
      BY <1>3 DEF WriteIndex
    <2>2. /\ index_ = "open" /\ flush
          /\ idx'[cur].log = Append(idx[cur].log, NewEntry)
          /\ durable' = durable \cup Committed(idx[cur]) \cup {req.id}
          /\ idx'[cur].disk = Len(idx[cur].log) + 1
      BY <1>3, WriteIndexFiles
    <2>3. /\ cur \in Names /\ idx[cur].log \in Seq(IdxEntry)
          /\ idx[cur].log # <<>>
          /\ data[cur] \in File(DataRecord)
      BY <2>2 DEF TypeOK, File, HandleInv
    <2>4. ASSUME NEW e, Variable, Held(data[cur], e) PROVE OnDisk(data[cur], e)
      <3>1. data[cur].disk = Len(data[cur].log)
        BY <2>1, <2>2, <2>4 DEF CurInv
      <3> QED
        BY <2>4, <3>1 DEF Held, OnDisk
    <2>5. ASSUME NEW id \in Committed(idx[cur])
          PROVE  \E j \in 2..idx'[cur].disk :
                     /\ idx'[cur].log[j].id = id
                     /\ Variable => OnDisk(data[cur], idx'[cur].log[j])
      <3>1. PICK j \in 2..Len(idx[cur].log) : idx[cur].log[j].id = id
        BY DEF Committed
      <3>2. j \in 2..idx'[cur].disk /\ idx'[cur].log[j] = idx[cur].log[j]
        BY <2>2, <2>3
      <3>3. ASSUME Variable PROVE OnDisk(data[cur], idx[cur].log[j])
        <4>1. idx[cur].log[j].off < End(data[cur])
          BY <2>1, <3>3 DEF CurInv
        <4>2. idx[cur].log[j].off \in Nat /\ End(data[cur]) \in Nat
          <5>1. idx[cur].log[j] \in IdxEntry
            BY <2>3
          <5> QED
            BY <2>3, <5>1, EndIsNat DEF IdxEntry
        <4>3. Held(data[cur], idx[cur].log[j])
          BY <2>3, <3>3, <4>1, <4>2 DEF EntryInv
        <4> QED
          BY <2>4, <3>3, <4>3
      <3> QED
        BY <3>1, <3>2, <3>3
    <2>6. \E j \in 2..idx'[cur].disk :
              /\ idx'[cur].log[j].id = req.id
              /\ Variable => OnDisk(data[cur], idx'[cur].log[j])
      <3> DEFINE k == Len(idx[cur].log) + 1
      <3>1. k \in 2..idx'[cur].disk /\ idx'[cur].log[k] = NewEntry
        BY <2>2, <2>3
      <3>2. ASSUME Variable PROVE OnDisk(data[cur], NewEntry)
        BY <2>1, <2>2, <2>4, <3>2, NewEntryHeld
      <3>3. NewEntry.id = req.id
        BY DEF NewEntry
      <3> QED
        BY <3>1, <3>2, <3>3
    <2>7. ASSUME NEW id \in durable'
          PROVE  \E n \in Names : \E j \in 2..idx'[n].disk : Safe(id, n, j)'
      <3>1. CASE id \in durable
        BY <1>1, <3>1
      <3>2. CASE id \in Committed(idx[cur])
        BY <1>0, <2>1, <2>3, <2>5, <3>2 DEF OnDisk
      <3>3. CASE id = req.id
        BY <1>0, <2>1, <2>3, <2>6, <3>3 DEF OnDisk
      <3> QED
        BY <2>2, <3>1, <3>2, <3>3
    <2> QED
      BY <2>7 DEF DurableInv
  <1> QED
    BY <1>2, <1>3
    DEF Next, Step, Request, Tick, OpenIndex, OpenData, Refuse, BeginWrite,
        WriteData, Destroy, CloseIndex, CloseData, Crash, vars

-----------------------------------------------------------------------------
(* Reading *)

(* A record that ends before another begins ends before that one ends.     *)
LEMMA EndsWithin ==
    \A a, b, c, d \in Nat : a + b \in Nat /\ (a + b <= c => a + b <= c + d)
  OBVIOUS

(* DataFileReader::read() finds the record an entry was written for when   *)
(* it is on disk, and reports an error when it is not: an offset never     *)
(* leads into the middle of a record or to another one.                    *)
LEMMA RecordAtRight ==
    ASSUME NEW f \in File(DataRecord), f.disk <= Len(f.log), GoodData(f),
           NEW e \in IdxEntry
    PROVE  /\ OnDisk(f, e) => RecordAt(f, e.off) = e.id
           /\ Held(f, e) \/ e.off >= End(f) => RecordAt(f, e.off) \in {NoRecord, e.id}
  <1>1. f.log \in Seq(DataRecord) /\ f.disk \in Nat /\ Len(f.log) \in Nat
    BY DEF File
  <1>2. \A j \in 1..Len(f.log) : f.log[j].at \in Nat /\ f.log[j].size \in Nat
    <2>1. \A j \in 1..Len(f.log) : f.log[j] \in DataRecord
      BY <1>1
    <2> QED
      BY <2>1 DEF DataRecord
  <1>3. e.off \in Nat
    BY DEF IdxEntry
  <1>4. \A i, j \in 1..Len(f.log) : i < j => f.log[i].at + f.log[i].size <= f.log[j].at
    BY DEF GoodData
  <1>5. \A i, j \in 1..Len(f.log) : i < j => f.log[i].at < f.log[j].at
    BY <1>2, <1>4 DEF GoodData
  <1>6. ASSUME OnDisk(f, e) PROVE RecordAt(f, e.off) = e.id
    <2>1. PICK k \in 2..f.disk : f.log[k].id = e.id /\ f.log[k].at = e.off
      BY <1>6 DEF OnDisk
    <2>2. /\ 1 \in 1..Len(f.log) /\ k \in 1..Len(f.log) /\ f.disk \in 1..Len(f.log)
          /\ f.disk # 0 /\ 1 < k /\ k <= f.disk /\ f.log # <<>>
      BY <1>1
    <2>t. /\ f.log[k].at \in Nat /\ f.log[k].size \in Nat
          /\ f.log[f.disk].at \in Nat /\ f.log[f.disk].size \in Nat
      BY <1>2, <2>2
    <2>3. ~(e.off < Header)
      <3>1. f.log[1].at + f.log[1].size <= e.off
        BY <1>4, <2>1, <2>2
      <3>2. f.log[1].size >= Header
        BY <2>2 DEF GoodData
      <3> QED
        BY <1>2, <1>3, <2>2, <3>1, <3>2 DEF Header
    <2>4. ~(e.off >= DiskEnd(f))
      <3>1. f.log[k].at < f.log[f.disk].at + f.log[f.disk].size
        <4>1. CASE k = f.disk
          <5>1. f.log[k].size > 0
            BY <2>2 DEF GoodData
          <5> QED
            BY <2>t, <4>1, <5>1
        <4>2. CASE k < f.disk
          <5>1. f.log[k].at < f.log[f.disk].at
            BY <1>5, <2>2, <4>2
          <5> QED
            BY <2>t, <5>1
        <4> QED
          BY <1>1, <2>2, <4>1, <4>2
      <3> QED
        BY <1>2, <1>3, <2>1, <2>2, <3>1 DEF DiskEnd
    <2>5. \A j \in 2..f.disk : f.log[j].at = e.off => j = k
      BY <1>1, <1>2, <1>5, <2>1, <2>2
    <2>6. (CHOOSE j \in 2..f.disk : f.log[j].at = e.off) = k
      BY <2>1, <2>5
    <2> QED
      BY <2>1, <2>2, <2>3, <2>4, <2>6 DEF RecordAt
  <1>7. ASSUME f.disk # 0, e.off >= DiskEnd(f) PROVE RecordAt(f, e.off) = NoRecord
    BY <1>7 DEF RecordAt
  <1>8. f.disk = 0 => RecordAt(f, e.off) = NoRecord
    BY DEF RecordAt
  <1>9. ASSUME Held(f, e) PROVE RecordAt(f, e.off) \in {NoRecord, e.id}
    <2>1. PICK k \in 2..Len(f.log) : f.log[k].id = e.id /\ f.log[k].at = e.off
      BY <1>9 DEF Held
    <2>2. CASE k <= f.disk
      <3>1. OnDisk(f, e)
        BY <1>1, <2>1, <2>2 DEF OnDisk
      <3> QED
        BY <1>6, <3>1
    <2>3. CASE f.disk < k /\ f.disk # 0
      <3>1. f.log[f.disk].at + f.log[f.disk].size <= e.off
        BY <1>1, <1>4, <2>1, <2>3
      <3>2. e.off >= DiskEnd(f)
        BY <1>1, <1>2, <1>3, <2>3, <3>1 DEF DiskEnd
      <3> QED
        BY <1>7, <2>3, <3>2
    <2> QED
      BY <1>1, <1>8, <2>2, <2>3
  <1>10. ASSUME e.off >= End(f) PROVE RecordAt(f, e.off) = NoRecord
    <2>1. CASE f.disk # 0
      <3>1. f.disk \in 1..Len(f.log) /\ Len(f.log) \in 1..Len(f.log) /\ f.log # <<>>
        BY <1>1, <2>1
      <3>2. End(f) = f.log[Len(f.log)].at + f.log[Len(f.log)].size
        BY <3>1 DEF End
      <3>3. /\ f.log[f.disk].at \in Nat /\ f.log[f.disk].size \in Nat
            /\ f.log[Len(f.log)].at \in Nat /\ f.log[Len(f.log)].size \in Nat
        BY <1>2, <3>1
      <3>4. f.log[f.disk].at + f.log[f.disk].size <= End(f)
        <4>1. CASE f.disk = Len(f.log)
          BY <1>2, <3>1, <3>2, <4>1
        <4>2. CASE f.disk < Len(f.log)
          <5>1. f.log[f.disk].at + f.log[f.disk].size <= f.log[Len(f.log)].at
            BY <1>4, <3>1, <4>2
          <5>2. f.log[f.disk].at + f.log[f.disk].size
                    <= f.log[Len(f.log)].at + f.log[Len(f.log)].size
            BY <3>3, <5>1, EndsWithin, Zenon
          <5> QED
            BY <3>2, <5>2, Zenon
        <4> QED
          BY <1>1, <4>1, <4>2
      <3>5. e.off >= DiskEnd(f)
        <4>1. DiskEnd(f) = f.log[f.disk].at + f.log[f.disk].size
          BY DEF DiskEnd
        <4>2. DiskEnd(f) \in Nat /\ End(f) \in Nat /\ DiskEnd(f) <= End(f)
          <5>1. End(f) \in Nat
            BY EndIsNat
          <5>2. f.log[f.disk].at + f.log[f.disk].size \in Nat
            BY <3>3, EndsWithin, Zenon
          <5> QED
            BY <3>4, <4>1, <5>1, <5>2, Zenon
        <4> QED
          BY <1>3, <1>10, <4>2
      <3> QED
        BY <1>7, <2>1, <3>5
    <2> QED
      BY <1>8, <2>1
  <1> QED
    BY <1>6, <1>9, <1>10

(* read() of the entry behind position j of an index: nothing before it is *)
(* taken for a header.                                                     *)
LEMMA ReadsEntry ==
    ASSUME TypeOK, FilesInv, NEW n \in Names, NEW j \in 2..idx[n].disk
    PROVE  /\ j - 1 \in 1..records_cnt(n)
           /\ idx[n].log[j] \in IdxEntry
           /\ read(n, j - 1) = IF Variable THEN RecordAt(data[n], idx[n].log[j].off)
                               ELSE idx[n].log[j].id
  <1>1. /\ idx[n].log \in Seq(IdxEntry) /\ idx[n].disk \in Nat
        /\ idx[n].disk <= Len(idx[n].log) /\ Len(idx[n].log) \in Nat
    BY DEF TypeOK, File
  <1>2. j - 1 \in 1..records_cnt(n) /\ (j - 1) + 1 = j
    BY <1>1 DEF records_cnt
  <1>3. idx[n].log[j] \in IdxEntry
    BY <1>1
  <1>4. ~ \E k \in 2..j : idx[n].log[k].id = 0
    BY <1>1 DEF FilesInv, GoodIndex
  <1> QED
    BY <1>2, <1>3, <1>4 DEF read

-----------------------------------------------------------------------------
(* Theorems *)

LEMMA InitHolds == Init => IInv
  <1> SUFFICES ASSUME Init PROVE IInv
    OBVIOUS
  <1>1. \A n \in Names : idx[n] = NoFile /\ data[n] = NoFile
    BY DEF Init
  <1>2. NoFile \in File(IdxEntry) /\ NoFile \in File(DataRecord)
        /\ NoFile.disk <= Len(NoFile.log)
    BY DEF NoFile, File
  <1>3. TypeOK
    <2>1. cur \in Names
      <3>1. PICK s \in Seconds : TRUE
        BY StreamWriterAssumption
      <3>2. <<s, 0>> \in Names
        BY StreamWriterAssumption DEF Names
      <3> QED
        BY <3>2 DEF Init
    <2>2. req \in [id : 0..MaxRequests, size : Sizes \cup {0}, sec : Seconds]
      <3>1. (CHOOSE s \in Seconds : TRUE) \in Seconds
        BY StreamWriterAssumption
      <3>2. 0 \in 0..MaxRequests
        BY StreamWriterAssumption
      <3> QED
        BY <3>1, <3>2 DEF Init
    <2>3. offset_ \in 0..MaxOffset /\ faults \in 0..MaxFaults
      BY StreamWriterAssumption DEF Init
    <2> QED
      BY <1>1, <1>2, <2>1, <2>2, <2>3 DEF Init, TypeOK, Handle
  <1>4. FilesInv /\ EntryInv
    BY <1>1 DEF FilesInv, EntryInv, GoodIndex, GoodData, NoFile
  <1>5. ReqInv /\ HandleInv /\ CurInv /\ OffsetTracksFile /\ DurableInv
    BY DEF Init, ReqInv, HandleInv, CurInv, OffsetTracksFile, DurableInv, IsOpen
  <1> QED
    BY <1>3, <1>4, <1>5 DEF IInv

(* IInv is preserved by every step of write(), openFile(), closeFile() and *)
(* the destructor, by I/O errors and by crashes.                           *)
THEOREM Inductive == Spec => []IInv
  <1>1. IInv /\ [Next]_vars => IInv'
    BY TypeStep, FilesStep, EntryStep, ReqStep, HandleStep, CurStep, OffsetStep,
       DurableStep
    DEF IInv
  <1> QED
    BY <1>1, InitHolds, PTL DEF Spec

(* Files, handles and locals keep their types; offset_ fits 32 bits.       *)
THEOREM StreamTypeCorrect == Spec => []TypeOK
  BY Inductive, PTL DEF IInv

(* The offset that write() stores is the position of the record, for any   *)
(* sequence of sizes: the rollover comes before offset_ can wrap.          *)
THEOREM OffsetCorrect == Spec => []OffsetTracksFile
  BY Inductive, PTL DEF IInv

(* Whatever crashes and I/O errors happened, a reader gets the record an   *)
(* index entry was written for, or an error.                               *)
THEOREM ReadCorrect == Spec => []ReadRightOrError
  <1>1. ASSUME IInv PROVE ReadRightOrError
    <2> SUFFICES ASSUME NEW n \in Names, NEW i \in 1..records_cnt(n)
                 PROVE  read(n, i) \in {NoRecord, idx[n].log[i + 1].id}
      BY DEF ReadRightOrError
    <2>1. /\ idx[n].disk \in Nat /\ idx[n].disk <= Len(idx[n].log)
          /\ idx[n].log \in Seq(IdxEntry)
          /\ data[n] \in File(DataRecord) /\ data[n].disk <= Len(data[n].log)
      BY <1>1 DEF IInv, TypeOK, File
    <2>2. i + 1 \in 2..idx[n].disk /\ (i + 1) - 1 = i
      BY <2>1 DEF records_cnt
    <2> DEFINE e == idx[n].log[i + 1]
    <2>3. /\ e \in IdxEntry
          /\ read(n, i) = IF Variable THEN RecordAt(data[n], e.off) ELSE e.id
      BY <1>1, <2>2, ReadsEntry DEF IInv
    <2>4. ASSUME Variable PROVE RecordAt(data[n], e.off) \in {NoRecord, e.id}
      <3>1. i + 1 \in 2..Len(idx[n].log)
        BY <2>1, <2>2
      <3>2. Held(data[n], e) \/ e.off >= End(data[n])
        BY <1>1, <2>4, <3>1 DEF IInv, EntryInv
      <3>3. GoodData(data[n])
        BY <1>1 DEF IInv, FilesInv
      <3> QED
        BY <2>1, <2>3, <3>2, <3>3, RecordAtRight
    <2> QED
      BY <2>3, <2>4
  <1> QED
    BY <1>1, Inductive, PTL

(* A record whose write was flushed and acknowledged can be read ever      *)
(* after, through crashes, errors, rollovers and new writers.              *)
THEOREM FlushCorrect == Spec => []FlushedRecordsSurvive
  <1>1. ASSUME IInv PROVE FlushedRecordsSurvive
    <2> SUFFICES ASSUME NEW id \in durable
                 PROVE  \E n \in Names : \E i \in 1..records_cnt(n) : read(n, i) = id
      BY DEF FlushedRecordsSurvive
    <2>1. PICK n \in Names : \E j \in 2..idx[n].disk : Safe(id, n, j)
      BY <1>1 DEF IInv, DurableInv, Safe
    <2>2. PICK j \in 2..idx[n].disk : Safe(id, n, j)
      BY <2>1
    <2>3. /\ j - 1 \in 1..records_cnt(n) /\ idx[n].log[j] \in IdxEntry
          /\ read(n, j - 1) = IF Variable THEN RecordAt(data[n], idx[n].log[j].off)
                              ELSE idx[n].log[j].id
      BY <1>1, ReadsEntry DEF IInv
    <2>4. /\ data[n] \in File(DataRecord) /\ data[n].disk <= Len(data[n].log)
          /\ GoodData(data[n])
      BY <1>1 DEF IInv, TypeOK, FilesInv
    <2>5. ASSUME Variable PROVE RecordAt(data[n], idx[n].log[j].off) = id
      BY <2>2, <2>3, <2>4, <2>5, RecordAtRight DEF Safe
    <2>6. read(n, j - 1) = id
      BY <2>2, <2>3, <2>5 DEF Safe
    <2> QED
      BY <2>3, <2>6
  <1> QED
    BY <1>1, Inductive, PTL

=============================================================================
